--------------------------- MODULE ExitDepth_proofs ---------------------------
(* Theorems about PoolWatch, ExitDepth, Depth and Cells for any pools,     *)
(* sizes, bounds and books.                                                *)
EXTENDS ExitDepth, Depth, Cells, Totals_proofs, TLAPS

(***************************************************************************)
(* The watch on the frozen set and what a fold reads of it: values are     *)
(* numbers, what the set file cut for its structure is structural, and the *)
(* pools of a promoted bundle have had their index row ever since.         *)
(***************************************************************************)
WorldInv ==
    /\ tvl \in [Pools -> Nat] /\ listed \subseteq Pools /\ token \in Tokens

FileInv ==
    fs # None =>
        /\ {"excluded", "pools"} \subseteq DOMAIN fs
        /\ DOMAIN fs.pools \subseteq Pools
        /\ \A p \in DOMAIN fs.excluded :
              /\ fs.excluded[p] \in {"structural", "tail", "below_dust_floor"}
              /\ fs.excluded[p] = "structural" => p \in Structural

BundleInv ==
    prior # None =>
        /\ \A p \in DOMAIN prior.tvl : prior.tvl[p] \in Nat
        /\ prior.held \in [Pools -> Nat]
        /\ prior.frozen \subseteq Pools /\ prior.frozen \subseteq DOMAIN prior.tvl
        /\ prior.frozen \subseteq pinned

WatchInv == WorldInv /\ FileInv /\ BundleInv

\* A pool shows a number, half of it when a side was not read.
LEMMA ShownType ==
    ASSUME WorldInv, NEW p, NEW F
    PROVE  Shown(p, F) \in Nat /\ (p \in listed \ F => Shown(p, F) = tvl[p])
  <1>1. p \in listed => tvl[p] \in Nat
    BY DEF WorldInv
  <1>2. \A n \in Nat : n \div 2 \in Nat
    OBVIOUS
  <1> QED BY <1>1, <1>2 DEF Shown

\* The freeze cuts a pool for its structure only if it has one.
LEMMA FreezeFile ==
    ASSUME WorldInv, Freeze
    PROVE  FileInv'
  <1>1. /\ {"excluded", "pools"} \subseteq DOMAIN fs'
        /\ fs'.excluded = Excluded /\ DOMAIN fs'.pools = Chosen
    BY DEF Freeze
  <1>2. \A p \in DOMAIN Excluded :
           /\ Excluded[p] \in {"structural", "tail", "below_dust_floor"}
           /\ Excluded[p] = "structural" => p \in Structural
    BY DEF Excluded
  <1>3. Chosen \subseteq Pools
    BY DEF WorldInv, Chosen, Prefix, Above, Eligible
  <1> QED BY <1>1, <1>2, <1>3 DEF FileInv

LEMMA FillFile ==
    ASSUME FileInv, Fill
    PROVE  FileInv'
  <1>1. /\ fs # None /\ {"excluded", "pools"} \subseteq DOMAIN fs
        /\ fs' = [fs EXCEPT !.target = last.want]
    BY DEF Fill, FileInv
  <1>2. /\ {"excluded", "pools"} \subseteq DOMAIN fs'
        /\ fs'.excluded = fs.excluded /\ fs'.pools = fs.pools
    BY <1>1
  <1> QED BY <1>1, <1>2 DEF FileInv

\* A run is promoted over what it read.
LEMMA PromotedBundle ==
    ASSUME WatchInv, Promote
    PROVE  /\ \E F : Grown(F) = {} /\ prior' = Bundle(F)
           /\ BundleInv'
  <1>1. PICK F \in {{}} \cup {{p} : p \in listed} : Grown(F) = {} /\ prior' = Bundle(F)
    BY DEF Promote
  <1>2. /\ prior'.tvl = [p \in Members \cup Listed(F) |-> Shown(p, F)]
        /\ prior'.held = tvl /\ prior'.frozen = Members
    BY <1>1 DEF Bundle
  <1>3. \A p \in DOMAIN prior'.tvl : prior'.tvl[p] \in Nat
    BY <1>2, ShownType DEF WatchInv
  <1>4. Members \subseteq Pools /\ Members \subseteq pinned /\ pinned' = pinned
    BY DEF Promote, WatchInv, FileInv, PinsComplete, Members, signed
  <1>5. BundleInv'
    BY <1>2, <1>3, <1>4 DEF BundleInv, WatchInv, WorldInv
  <1> QED BY <1>1, <1>5

LEMMA WatchInvStep ==
    ASSUME WatchInv, [ExitNext]_allvars
    PROVE  WatchInv'
  <1>1. CASE UNCHANGED <<token, tvl, listed, fs, pinned, prior>>
    BY <1>1 DEF WatchInv, WorldInv, FileInv, BundleInv
  <1>2. ASSUME NEW p \in Pools, Resize(p) PROVE WatchInv'
    <2>1. PICK s \in Sizes : tvl' = [tvl EXCEPT ![p] = s]
      BY <1>2 DEF Resize
    <2>2. UNCHANGED <<token, listed, fs, pinned, prior>> /\ s \in Nat
      BY <1>2, PoolAssumption DEF Resize, Move, signed
    <2> QED BY <2>1, <2>2 DEF WatchInv, WorldInv, FileInv, BundleInv
  <1>3. ASSUME NEW p \in Pools, Relist(p) PROVE WatchInv'
    BY <1>3 DEF Relist, Move, signed, WatchInv, WorldInv, FileInv, BundleInv
  <1>4. CASE Freeze
    <2>1. UNCHANGED <<token, tvl, listed, pinned, prior>>
      BY <1>4 DEF Freeze, chain
    <2> QED BY <1>4, <2>1, FreezeFile DEF WatchInv, WorldInv, BundleInv
  <1>5. CASE Fill
    <2>1. UNCHANGED <<token, tvl, listed, pinned, prior>>
      BY <1>5 DEF Fill, chain
    <2> QED BY <1>5, <2>1, FillFile DEF WatchInv, WorldInv, BundleInv
  <1>6. CASE Promote
    <2>1. UNCHANGED <<token, tvl, listed, fs>>
      BY <1>6 DEF Promote, signed
    <2>2. BundleInv'
      BY <1>6, PromotedBundle
    <2> QED BY <2>1, <2>2 DEF WatchInv, WorldInv, FileInv
  <1>7. CASE Pin
    <2>1. UNCHANGED <<token, tvl, listed, fs, prior>> /\ pinned \subseteq pinned'
      BY <1>7 DEF Pin, chain
    <2> QED BY <2>1 DEF WatchInv, WorldInv, FileInv, BundleInv
  <1>8. ASSUME NEW p \in Pools, Vanish(p)
        PROVE  UNCHANGED <<token, tvl, listed, fs, pinned, prior>>
    BY <1>8 DEF Vanish, Move, signed
  <1>9. ASSUME NEW named \in BOOLEAN, LogEvent(named)
        PROVE  UNCHANGED <<token, tvl, listed, fs, pinned, prior>>
    BY <1>9 DEF LogEvent, chain
  <1>10. CASE Fold \/ UNCHANGED allvars
    BY <1>1, <1>10 DEF Fold, allvars, vars, chain, signed
  <1> QED BY <1>1, <1>2, <1>3, <1>4, <1>5, <1>6, <1>7, <1>8, <1>9, <1>10 DEF ExitNext, Next

LEMMA WatchInvInit == ExitInit => WatchInv
  BY PoolAssumption DEF ExitInit, Init, WatchInv, WorldInv, FileInv, BundleInv

\* Only a promotion changes the bundle the next run is compared with.
LEMMA OnlyPromote ==
    ASSUME [ExitNext]_allvars, prior' # prior
    PROVE  Promote
  <1>1. ASSUME NEW p \in Pools, Resize(p) \/ Relist(p) \/ Vanish(p) PROVE prior' = prior
    BY <1>1 DEF Resize, Relist, Vanish, Move
  <1>2. CASE \/ Freeze \/ Pin \/ Fold \/ Fill \/ UNCHANGED allvars
             \/ \E named \in BOOLEAN : LogEvent(named)
    BY <1>2 DEF Freeze, Pin, Fold, Fill, LogEvent, allvars, vars
  <1> QED BY <1>1, <1>2 DEF ExitNext, Next

\* memo 5.6(i): over any history of freezes, moves and failed reads, no bundle is
\* promoted over a listed pool outside the set worth a tenth of it, unless the freeze
\* kept it out for its structure or a side of it was not read.
THEOREM GrowthStopsPromotion == ExitSpec => GrowthIsNeverPromoted
  <1> DEFINE Step ==
        prior' # prior =>
          \A p \in listed \ (Members \cup prior'.misread) :
              tvl[p] >= Floor /\ 10 * tvl[p] >= fs.total =>
                  p \in Structural /\ p \in DOMAIN fs.excluded
  <1>1. WatchInv /\ [ExitNext]_allvars => Step
    <2> SUFFICES ASSUME WatchInv, [ExitNext]_allvars, prior' # prior,
                        NEW p \in listed \ (Members \cup prior'.misread),
                        tvl[p] >= Floor, 10 * tvl[p] >= fs.total
                 PROVE  p \in Structural /\ p \in DOMAIN fs.excluded
      OBVIOUS
    <2>1. Promote /\ fs # None
      BY OnlyPromote DEF Promote
    <2>2. PICK F : Grown(F) = {} /\ prior' = Bundle(F)
      BY <2>1, PromotedBundle
    <2>3. prior'.misread = F
      BY <2>2 DEF Bundle
    <2>4. Shown(p, F) = tvl[p]
      BY <2>3, ShownType DEF WatchInv
    <2>5. p \in Listed(F) \ Members
      BY <2>4 DEF Listed
    <2>6. Reason(p) \notin SizeBased
      BY <2>2, <2>4, <2>5 DEF Grown
    <2>7. p \in DOMAIN fs.excluded /\ Reason(p) = fs.excluded[p]
      BY <2>6 DEF Reason, SizeBased
    <2>8. fs.excluded[p] = "structural" \/ fs.excluded[p] = "below_dust_floor"
      BY <2>1, <2>6, <2>7 DEF WatchInv, FileInv, SizeBased
    <2>9. fs.excluded[p] # "below_dust_floor"
      BY <2>6 DEF Reason, SizeBased
    <2> QED BY <2>1, <2>7, <2>8, <2>9 DEF WatchInv, FileInv
  <1>2. ExitSpec => [][Step]_allvars
    BY <1>1, WatchInvInit, WatchInvStep, PTL DEF ExitSpec
  <1>3. Step => [Step]_vars
    OBVIOUS
  <1>4. UNCHANGED allvars => [Step]_vars
    BY DEF allvars
  <1> QED BY <1>2, <1>3, <1>4, PTL DEF GrowthIsNeverPromoted

\* Whatever was stopped in between, a pool of the set that shows less than half of
\* what the last promoted bundle showed is named by the next one.
THEOREM FallsAreNamed == ExitSpec => FallIsDisclosed
  <1> DEFINE Step ==
        prior # None /\ prior' # prior =>
          \A p \in Members \cap DOMAIN prior.tvl :
              2 * prior'.tvl[p] < prior.tvl[p] => p \in prior'.moved
  <1>1. WatchInv /\ [ExitNext]_allvars => Step
    <2> SUFFICES ASSUME WatchInv, [ExitNext]_allvars, prior # None, prior' # prior,
                        NEW p \in Members \cap DOMAIN prior.tvl,
                        2 * prior'.tvl[p] < prior.tvl[p]
                 PROVE  p \in prior'.moved
      OBVIOUS
    <2>1. Promote
      BY OnlyPromote
    <2>2. PICK F : prior' = Bundle(F)
      BY <2>1, PromotedBundle
    <2>3. prior'.moved = MovedPools(F) /\ prior'.tvl[p] = Shown(p, F)
      BY <2>2 DEF Bundle
    <2>4. Baseline(p) = prior.tvl[p] /\ Baseline(p) \in Nat
      BY DEF Baseline, WatchInv, BundleInv
    <2>5. Shown(p, F) \in Nat
      BY ShownType DEF WatchInv
    <2>6. 2 * Shown(p, F) < Baseline(p)
      BY <2>3, <2>4
    <2>7. \A a, b \in Nat : 2 * a < b =>
             /\ b # 0 /\ a - b < 0 /\ 100 * (-(a - b)) > 50 * b
      OBVIOUS
    <2>8. Moved(p, F)
      BY <2>4, <2>5, <2>6, <2>7 DEF Moved
    <2> QED BY <2>3, <2>8 DEF MovedPools
  <1>2. ExitSpec => [][Step]_allvars
    BY <1>1, WatchInvInit, WatchInvStep, PTL DEF ExitSpec
  <1>3. Step => [Step]_vars
    OBVIOUS
  <1>4. UNCHANGED allvars => [Step]_vars
    BY DEF allvars
  <1> QED BY <1>2, <1>3, <1>4, PTL DEF FallIsDisclosed
-------------------------------------------------------------------------------
(***************************************************************************)
(* The fold.                                                               *)
(***************************************************************************)
LEMMA ShapeRead ==
    ASSUME NEW p \in Pools, NEW F
    PROVE  KindRead(p, F) \in Shapes /\ KindRead(p, {}) = Kind[p]
  <1>1. Kind[p] \in {"ng", "metapool", "plain"}
    BY ExitAssumption DEF Shapes
  <1>2. KindRead(p, F) \in Shapes
    BY DEF KindRead, Shapes
  <1>3. KindRead(p, {}) = Kind[p]
    BY <1>1 DEF KindRead
  <1> QED BY <1>2, <1>3

\* A depth is a number, more of it for a wider bound.
LEMMA Products ==
    \A h, a, b \in Nat : /\ h * a \in Nat
                         /\ a <= b => h * a <= h * b
                         /\ h # 0 /\ h * a = h * b => a = b
  <1> SUFFICES ASSUME NEW h \in Nat, NEW a \in Nat, NEW b \in Nat
               PROVE  /\ h * a \in Nat
                      /\ a <= b => h * a <= h * b
                      /\ h # 0 /\ h * a = h * b => a = b
    OBVIOUS
  <1>1. \A c \in Nat : h * c \in Nat
    OBVIOUS
  <1>2. ASSUME a <= b PROVE h * a <= h * b
    <2>1. b - a \in Nat /\ h * b = h * a + h * (b - a)
      BY <1>2
    <2> QED BY <1>1, <2>1
  <1>3. ASSUME h # 0, h * a = h * b PROVE a = b
    <2>1. CASE a < b
      <3>1. b - a \in Nat /\ b - a >= 1 /\ h * b = h * a + h * (b - a)
        BY <2>1
      <3>2. h >= 1 /\ h * (b - a) = 0
        BY <1>1, <1>3, <3>1
      <3> QED BY <3>1, <3>2
    <2>2. CASE b < a
      <3>1. a - b \in Nat /\ a - b >= 1 /\ h * a = h * b + h * (a - b)
        BY <2>2
      <3>2. h >= 1 /\ h * (a - b) = 0
        BY <1>1, <1>3, <3>1
      <3> QED BY <3>1, <3>2
    <2> QED BY <2>1, <2>2
  <1> QED BY <1>1, <1>2, <1>3

\* A bound is a number of basis points.
LEMMA PointRange == \A s \in Points : s \in Nat /\ s <= 10000
  BY ExitAssumption, SMTT(30)

LEMMA SolvedType ==
    ASSUME NEW m \in Markets, NEW p \in Pools, NEW k \in Shapes, NEW s \in Points
    PROVE  /\ m[p].solved[k][s].depth \in Nat /\ m[p].solved[k][s].slip \in Int
           /\ m[p].solved[k][s].kind \in {"bound", "zero", "cap", "raised"}
  BY SolverAssumption DEF Answers

LEMMA PerPoolType ==
    ASSUME BundleInv, prior # None, NEW m \in Markets, NEW k, NEW s \in Points, NEW F
    PROVE  /\ IsFiniteSet(KSubset(prior, k)) /\ KSubset(prior, k) \subseteq prior.frozen
           /\ \A p \in KSubset(prior, k) :
                 /\ PerPool(prior, m, k, s, F)[p]
                      = prior.held[p] * m[p].solved[KindRead(p, F)][s].depth
                 /\ PerPool(prior, m, k, s, F)[p] \in Nat
           /\ Depths(prior, m, k, s, F) \in Nat
  <1>1. KSubset(prior, k) \subseteq prior.frozen /\ prior.frozen \subseteq Pools
    BY DEF KSubset, BundleInv
  <1>2. IsFiniteSet(KSubset(prior, k))
    BY <1>1, FS_Subset, PoolAssumption
  <1>3. ASSUME NEW p \in KSubset(prior, k)
        PROVE  /\ PerPool(prior, m, k, s, F)[p]
                    = prior.held[p] * m[p].solved[KindRead(p, F)][s].depth
               /\ PerPool(prior, m, k, s, F)[p] \in Nat
    <2>1. PerPool(prior, m, k, s, F)[p] = prior.held[p] * m[p].solved[KindRead(p, F)][s].depth
      BY DEF PerPool, DepthOf
    <2>2. prior.held[p] \in Nat
      BY <1>1 DEF BundleInv
    <2>3. p \in Pools /\ KindRead(p, F) \in Shapes
      BY <1>1, ShapeRead
    <2>4. m[p].solved[KindRead(p, F)][s].depth \in Nat
      BY <2>3, SolvedType
    <2> QED BY <2>1, <2>2, <2>4, Products
  <1>4. Depths(prior, m, k, s, F) \in Nat
    BY <1>2, <1>3, TotalFirst DEF Depths
  <1> QED BY <1>1, <1>2, <1>3, <1>4

\* Where the ground truth agrees and no pool is beyond what it shows, every pool of
\* the modelled subset was taken for what it is.
LEMMA TakenRight ==
    ASSUME BundleInv, prior # None, NEW m \in Markets, NEW F,
           Mismatched(prior, m, F) = {}, Unseen(prior, m, F) = {},
           NEW p \in KSubset(prior, 90)
    PROVE  KindRead(p, F) = Kind[p]
  <1>1. p \in Pools /\ Headline \in Points
    BY ExitAssumption DEF KSubset, BundleInv
  <1> SUFFICES ASSUME KindRead(p, F) # Kind[p] PROVE FALSE
    OBVIOUS
  <1>2. Kind[p] \in {"ng", "metapool", "plain"}
    BY <1>1, ExitAssumption DEF Shapes
  <1>3. KindRead(p, F) = "plain"
    BY <1>2 DEF KindRead
  <1>4. Kind[p] # "ng" /\ m[p].solved["plain"][Headline].depth # 0
    BY <1>3 DEF Unseen
  <1>5. Kind[p] = "metapool"
    BY <1>2, <1>3, <1>4
  <1>6. m[p].solved["plain"][Headline].depth > 0
    <2>1. m[p].solved["plain"][Headline].depth \in Nat
      BY <1>1, SolvedType DEF Shapes
    <2> QED BY <1>4, <2>1
  <1>7. ~Near(m[p].solved["plain"][Headline].slip, Headline)
    BY <1>1, <1>5, <1>6, BaseAssumption
  <1> QED BY <1>3, <1>7 DEF Mismatched, WithinEpsilon

LEMMA SameDepths ==
    ASSUME BundleInv, prior # None, NEW m \in Markets, NEW F,
           Mismatched(prior, m, F) = {}, Unseen(prior, m, F) = {}
    PROVE  PerPool(prior, m, 90, Headline, F) = PerPool(prior, m, 90, Headline, {})
  <1> SUFFICES ASSUME NEW p \in KSubset(prior, 90)
               PROVE  KindRead(p, F) = KindRead(p, {})
    BY DEF PerPool, DepthOf
  <1>1. p \in Pools
    BY DEF KSubset, BundleInv
  <1> QED BY <1>1, ShapeRead, TakenRight

\* A base pool is missed only where no ground truth shows it.
LEMMA SameBase ==
    ASSUME BundleInv, prior # None, NEW m \in Markets, NEW F,
           Mismatched(prior, m, F) = {}, Unseen(prior, m, F) = {}
    PROVE  BaseRead(prior, F) = BaseRead(prior, {})
  <1>1. ASSUME NEW p \in prior.frozen
        PROVE  KindRead(p, F) = "metapool" <=> KindRead(p, {}) = "metapool"
    <2>1. p \in Pools /\ KindRead(p, {}) = Kind[p]
      BY ShapeRead DEF BundleInv
    <2>2. KindRead(p, F) = "metapool" => Kind[p] = "metapool"
      BY DEF KindRead
    <2>3. ASSUME Kind[p] = "metapool", KindRead(p, F) # "metapool" PROVE FALSE
      <3>1. p \in KSubset(prior, 90)
        BY <2>3 DEF Unseen
      <3> QED BY <2>3, <3>1, TakenRight
    <2> QED BY <2>1, <2>2, <2>3
  <1>2. {p \in prior.frozen : KindRead(p, F) = "metapool"}
          = {p \in prior.frozen : KindRead(p, {}) = "metapool"}
    BY <1>1
  <1> QED BY <1>2 DEF BaseRead

\* Any answer the contract prices at the headline bound lies between what the pool's
\* own formula answers at a tighter point and at a wider one.
LEMMA AnswersOrdered ==
    ASSUME NEW m \in Markets, NEW p \in Pools, NEW k \in Shapes, NEW s \in Points,
           Near(m[p].solved[k][Headline].slip, Headline)
    PROVE  /\ s < Headline => m[p].solved[Kind[p]][s].depth <= m[p].solved[k][Headline].depth
           /\ s > Headline /\ m[p].solved[Kind[p]][s].kind \in {"bound", "zero"} =>
                 m[p].solved[k][Headline].depth <= m[p].solved[Kind[p]][s].depth
  <1> DEFINE a == m[p].solved[k][Headline]
             own == m[p].solved[Kind[p]][s]
  <1>1. Headline \in Points /\ Kind[p] \in Shapes
    BY ExitAssumption
  <1>2. /\ a.depth \in Nat /\ a.slip \in Int /\ own.depth \in Nat /\ own.slip \in Int
        /\ own.kind \in {"bound", "zero", "cap", "raised"}
    BY <1>1, SolvedType
  <1>3. s \in Nat /\ (s < Headline => s < 190) /\ (s > Headline => s > 210)
    <2>1. s \in Nat
      BY PointRange
    <2>2. s < Headline - 2 * Epsilon \/ s = Headline \/ Headline + 2 * Epsilon < s
      BY ContractAssumption
    <2> QED BY <2>1, <2>2 DEF Headline, Epsilon
  <1>4. /\ own.kind = "bound" => Near(own.slip, s)
        /\ own.kind = "zero" => own.slip > s
        /\ own.kind = "cap" => own.slip <= s
    BY ContractAssumption
  <1>5. own.kind \in {"zero", "raised"} => own.depth = 0
    BY <1>1, SolverAssumption
  <1>6. (a.slip < own.slip => a.depth <= own.depth) /\ (own.slip < a.slip => own.depth <= a.depth)
    BY <1>1, ContractAssumption
  <1>7. Near(a.slip, Headline)
    OBVIOUS
  <1> HIDE DEF a, own
  <1>8. 195 <= a.slip /\ a.slip <= 205
    BY <1>2, <1>7 DEF Near, Headline, Epsilon
  <1>9. ASSUME s < Headline PROVE own.depth <= a.depth
    <2>1. CASE own.kind \in {"zero", "raised"}
      BY <1>2, <1>5, <2>1
    <2>2. CASE own.kind \in {"bound", "cap"}
      <3>1. own.slip <= s + 5
        BY <1>2, <1>3, <1>4, <2>2 DEF Near, Epsilon
      <3>2. own.slip < a.slip
        BY <1>2, <1>3, <1>8, <1>9, <3>1
      <3> QED BY <1>6, <3>2
    <2> QED BY <1>2, <2>1, <2>2
  <1>10. ASSUME s > Headline, own.kind \in {"bound", "zero"} PROVE a.depth <= own.depth
    <2>1. own.slip >= s - 5
      BY <1>2, <1>3, <1>4, <1>10 DEF Near, Epsilon
    <2>2. a.slip < own.slip
      BY <1>2, <1>3, <1>8, <1>10, <2>1
    <2> QED BY <1>6, <2>2
  <1> QED BY <1>9, <1>10 DEF a, own

\* So does the headline depth, whatever its pools were taken for.
LEMMA DepthsBetween ==
    ASSUME BundleInv, prior # None, NEW m \in Markets, NEW F, Mismatched(prior, m, F) = {},
           NEW s \in Points
    PROVE  /\ s < Headline => SoldAt(prior, m, {})[s] <= Depths(prior, m, 90, Headline, F)
           /\ s > Headline /\ s \in Met(prior, m) =>
                 Depths(prior, m, 90, Headline, F) <= SoldAt(prior, m, {})[s]
  <1> DEFINE f == PerPool(prior, m, 90, s, {})
             g == PerPool(prior, m, 90, Headline, F)
             S == KSubset(prior, 90)
  <1>1. Headline \in Points
    BY ExitAssumption
  <1>2. /\ IsFiniteSet(S) /\ S \subseteq prior.frozen
        /\ \A p \in S : f[p] = prior.held[p] * m[p].solved[KindRead(p, {})][s].depth /\ f[p] \in Nat
    BY PerPoolType
  <1>3. \A p \in S : /\ g[p] = prior.held[p] * m[p].solved[KindRead(p, F)][Headline].depth
                     /\ g[p] \in Nat
    BY <1>1, PerPoolType
  <1>4. SoldAt(prior, m, {})[s] = Total(f, S) /\ Depths(prior, m, 90, Headline, F) = Total(g, S)
    BY DEF SoldAt, Depths
  <1>5. \A p \in S : Near(m[p].solved[KindRead(p, F)][Headline].slip, Headline)
    BY DEF Mismatched, WithinEpsilon
  <1>6. \A p \in S : s \in Met(prior, m) => m[p].solved[Kind[p]][s].kind \in {"bound", "zero"}
    BY DEF Met
  <1> HIDE DEF f, g, S
  <1>7. ASSUME NEW p \in S
        PROVE  /\ s < Headline => f[p] <= g[p]
               /\ s > Headline /\ s \in Met(prior, m) => g[p] <= f[p]
    <2>1. p \in Pools /\ prior.held[p] \in Nat
      BY <1>2 DEF BundleInv
    <2>2. KindRead(p, F) \in Shapes /\ KindRead(p, {}) = Kind[p] /\ Kind[p] \in Shapes
      BY <2>1, ShapeRead
    <2> DEFINE x == m[p].solved[Kind[p]][s].depth
               y == m[p].solved[KindRead(p, F)][Headline].depth
    <2>3. x \in Nat /\ y \in Nat
      BY <1>1, <2>1, <2>2, SolvedType
    <2>4. f[p] = prior.held[p] * x /\ g[p] = prior.held[p] * y
      BY <1>2, <1>3, <2>2
    <2>5. (s < Headline => x <= y) /\ (s > Headline /\ s \in Met(prior, m) => y <= x)
      BY <1>5, <1>6, <2>1, <2>2, AnswersOrdered
    <2> HIDE DEF x, y
    <2> QED BY <2>1, <2>3, <2>4, <2>5, Products
  <1>8. ASSUME s < Headline PROVE Total(f, S) <= Total(g, S)
    BY <1>2, <1>3, <1>7, <1>8, TotalBelow
  <1>9. ASSUME s > Headline, s \in Met(prior, m) PROVE Total(g, S) <= Total(f, S)
    BY <1>2, <1>3, <1>7, <1>9, TotalBelow
  <1> QED BY <1>4, <1>8, <1>9

LEMMA RedeemedRises ==
    ASSUME WorldInv, NEW s \in Points, NEW t \in Points, s <= t, NEW F, NEW G, G \subseteq F
    PROVE  /\ Redeemed(s, F) \in Nat /\ Redeemed(t, G) \in Nat
           /\ Redeemed(s, F) <= Redeemed(t, G)
  <1>1. IsFiniteSet(Gsms) /\ \A g \in Gsms : Boxed[g] \in Nat /\ Venues[token][g].fee \in Nat
    BY VenueAssumption DEF WorldInv, Gsms, Boxed
  <1>2. s \in Nat /\ t \in Nat /\ s <= 10000 /\ t <= 10000
    BY PointRange
  <1> DEFINE S == {g \in Gsms : Enters(g, s, F)}
             T == {g \in Gsms : Enters(g, t, G)}
  <1>3. S \subseteq T
    <2> SUFFICES ASSUME NEW g \in Gsms, Enters(g, s, F) PROVE Enters(g, t, G)
      OBVIOUS
    <2>1. ~Venues[token][g].closed /\ FeeRead(g, F) < s
      BY DEF Enters
    <2>2. <<"fee", g>> \notin F
      <3>1. <<"fee", g>> \in F => FeeRead(g, F) = 10000
        BY DEF FeeRead
      <3>2. ~(10000 < s)
        BY <1>2
      <3> QED BY <2>1, <3>1, <3>2
    <2>3. FeeRead(g, F) = Venues[token][g].fee /\ FeeRead(g, G) = Venues[token][g].fee
      BY <2>2 DEF FeeRead
    <2>4. Venues[token][g].fee \in Nat
      BY <1>1
    <2>5. FeeRead(g, G) < t
      BY <1>2, <2>1, <2>3, <2>4
    <2> QED BY <2>1, <2>5 DEF Enters
  <1>4. IsFiniteSet(S) /\ IsFiniteSet(T) /\ \A g \in T : Boxed[g] \in Nat
    BY <1>1, FS_Subset
  <1>5. Redeemed(s, F) = Total(Boxed, S) /\ Redeemed(t, G) = Total(Boxed, T)
    BY DEF Redeemed
  <1> HIDE DEF S, T
  <1>6. \A g \in S : Boxed[g] \in Nat
    BY <1>3, <1>4
  <1>7. Total(Boxed, S) \in Nat /\ Total(Boxed, T) \in Nat
    BY <1>4, <1>6, TotalFirst
  <1> QED BY <1>3, <1>4, <1>5, <1>7, TotalMonotone

\* What a fold leaves, for some market and some set of failed probes.
Left(F, m) ==
    \/ /\ Unreadable(prior, F) \cup Refused(prior, m, F) # {}
       /\ last' = [outcome |-> "stopped", reads |-> F, frozen |-> prior.frozen,
                   refused |-> Refused(prior, m, F)]
    \/ /\ Unreadable(prior, F) \cup Refused(prior, m, F) = {}
       /\ last'.outcome = "promoted" <=> Failing(prior, m, F) = {}
       /\ last'.outcome \in {"promoted", "rehearsal"}
       /\ last'.reads = F /\ last'.frozen = prior.frozen
       /\ last'.target = fs.target
       /\ last'.want = Selected(prior, CandidatesRead(prior, m, F))
       /\ last'.due = Selected(prior, CandidatesRead(prior, m, {}))
       /\ last'.depth = Depths(prior, m, 90, Headline, F)
       /\ last'.own = SoldAt(prior, m, {}) /\ last'.met = Met(prior, m)
       /\ last'.blind = Unseen(prior, m, F)
       /\ last'.sunk = Sunk(prior, m, F) /\ last'.drained = Drained(prior, m, F)
       /\ last'.surplus = Redeemed(Headline, F) - Redeemed(Headline, {})

LEMMA FoldLeaves ==
    ASSUME Fold
    PROVE  /\ prior # None /\ UNCHANGED vars
           /\ \E F : \E m \in Markets : Left(F, m)
  <1>1. prior # None /\ UNCHANGED vars
    BY DEF Fold
  <1>2. PICK F : \E m \in Markets : last' = Report(prior, m, F)
    BY DEF Fold
  <1>3. PICK m \in Markets : last' = Report(prior, m, F)
    BY <1>2
  <1>4. Left(F, m)
    <2>1. CASE Unreadable(prior, F) \cup Refused(prior, m, F) # {}
      BY <1>3, <2>1 DEF Left, Report
    <2>2. CASE Unreadable(prior, F) \cup Refused(prior, m, F) = {}
      BY <1>3, <2>2 DEF Left, Report
    <2> QED BY <2>1, <2>2
  <1> QED BY <1>1, <1>4

LEMMA StressInputsStep ==
    ASSUME WatchInv, StressInputsTrue, [ExitNext]_allvars
    PROVE  StressInputsTrue'
  <1>1. CASE last' = last
    BY <1>1 DEF StressInputsTrue
  <1>2. CASE Fold
    <2> SUFFICES ASSUME last'.outcome = "promoted"
                 PROVE  /\ last'.surplus <= 0
                        /\ \A s \in Points :
                              /\ s < Headline => last'.own[s] <= last'.depth
                              /\ s > Headline /\ s \in last'.met => last'.depth <= last'.own[s]
                        /\ last'.blind = {} => /\ last'.depth = last'.own[Headline]
                                               /\ last'.target = last'.due
      BY DEF StressInputsTrue
    <2>1. prior # None
      BY <1>2, FoldLeaves
    <2>2. PICK F : \E m \in Markets : Left(F, m)
      BY <1>2, FoldLeaves
    <2>3. PICK m \in Markets : Left(F, m)
      BY <2>2
    <2>4. /\ Failing(prior, m, F) = {}
          /\ last'.target = fs.target
          /\ last'.due = Selected(prior, CandidatesRead(prior, m, {}))
          /\ last'.depth = Depths(prior, m, 90, Headline, F)
          /\ last'.own = SoldAt(prior, m, {}) /\ last'.met = Met(prior, m)
          /\ last'.blind = Unseen(prior, m, F)
          /\ last'.surplus = Redeemed(Headline, F) - Redeemed(Headline, {})
      BY <2>3 DEF Left
    <2>5. Mismatched(prior, m, F) = {} /\ TargetHolds(prior, CandidatesRead(prior, m, F), fs.target)
      BY <2>4 DEF Failing
    <2>6. Headline \in Points /\ Headline <= Headline
      BY ExitAssumption DEF Headline
    <2>7. last'.surplus <= 0
      <3>1. {} \subseteq F
        OBVIOUS
      <3>2. /\ Redeemed(Headline, F) \in Nat /\ Redeemed(Headline, {}) \in Nat
            /\ Redeemed(Headline, F) <= Redeemed(Headline, {})
        BY <2>6, <3>1, RedeemedRises DEF WatchInv
      <3> QED BY <2>4, <3>2
    <2>8. \A s \in Points :
              /\ s < Headline => last'.own[s] <= last'.depth
              /\ s > Headline /\ s \in last'.met => last'.depth <= last'.own[s]
      BY <2>1, <2>4, <2>5, DepthsBetween DEF WatchInv
    <2>9. ASSUME last'.blind = {}
          PROVE  last'.depth = last'.own[Headline] /\ last'.target = last'.due
      <3>1. Unseen(prior, m, F) = {}
        BY <2>4, <2>9
      <3>2. PerPool(prior, m, 90, Headline, F) = PerPool(prior, m, 90, Headline, {})
        BY <2>1, <2>5, <3>1, SameDepths DEF WatchInv
      <3>3. last'.depth = last'.own[Headline]
        BY <2>4, <2>6, <3>2 DEF Depths, SoldAt
      <3>4. BaseRead(prior, F) = BaseRead(prior, {})
        BY <2>1, <2>5, <3>1, SameBase DEF WatchInv
      <3>5. CandidatesRead(prior, m, F) = CandidatesRead(prior, m, {})
        BY <3>2, <3>4 DEF CandidatesRead
      <3>6. last'.target = last'.due
        BY <2>4, <2>5, <3>5 DEF TargetHolds
      <3> QED BY <3>3, <3>6
    <2> QED BY <2>7, <2>8, <2>9
  <1>3. CASE Fill
    BY <1>1, <1>3 DEF Fill
  <1> QED BY <1>1, <1>2, <1>3 DEF ExitNext, allvars

\* Whichever probe of a fold failed, whichever set file was current and whenever its
\* target was filled: the venues of a promoted report redeem no more than they would,
\* its headline depth lies between what its pools' own shapes give at the points of
\* the curve about it, and both that depth and the target are those of its bundle
\* unless a pool was taken for another where no ground truth shows it.
THEOREM StressInputsAreTrue == ExitSpec => []StressInputsTrue
  <1>1. ExitInit => StressInputsTrue
    BY DEF ExitInit, StressInputsTrue
  <1> QED BY <1>1, WatchInvInit, WatchInvStep, StressInputsStep, PTL DEF ExitSpec
-------------------------------------------------------------------------------
(***************************************************************************)
(* A fold all of whose probes answered.                                    *)
(***************************************************************************)
LEMMA SubsetsGrow ==
    ASSUME BundleInv, prior # None
    PROVE  KSubset(prior, 80) \subseteq KSubset(prior, 90)
           /\ KSubset(prior, 90) \subseteq KSubset(prior, 95)
  <1>1. ASSUME NEW p \in KSubset(prior, 80) PROVE p \in KSubset(prior, 90)
    <2> DEFINE before == RankedTo(prior, p) \ {p}
    <2>1. IsFiniteSet(prior.frozen) /\ \A q \in prior.frozen : prior.tvl[q] \in Nat
      BY FS_Subset, PoolAssumption DEF BundleInv
    <2>2. Total(prior.tvl, prior.frozen) \in Nat
      BY <2>1, TotalFirst
    <2>3. p \in prior.frozen
          /\ (before = {} \/ 100 * Total(prior.tvl, before) < 80 * Total(prior.tvl, prior.frozen))
      BY DEF KSubset
    <2>4. before \subseteq prior.frozen
      BY DEF RankedTo
    <2>5. IsFiniteSet(before) /\ \A q \in before : prior.tvl[q] \in Nat
      BY <2>1, <2>4, FS_Subset
    <2>6. Total(prior.tvl, before) \in Nat
      BY <2>5, TotalFirst
    <2> HIDE DEF before
    <2>7. before = {} \/ 100 * Total(prior.tvl, before) < 90 * Total(prior.tvl, prior.frozen)
      BY <2>2, <2>3, <2>6
    <2> QED BY <2>3, <2>7 DEF KSubset, before
  <1>2. KSubset(prior, 90) \subseteq KSubset(prior, 95)
    BY DEF KSubset
  <1> QED BY <1>1, <1>2

LEMMA DepthsGrow ==
    ASSUME BundleInv, prior # None, NEW m \in Markets, NEW j, NEW k, KSubset(prior, j) \subseteq KSubset(prior, k)
    PROVE  ~(Depths(prior, m, j, Headline, {}) > Depths(prior, m, k, Headline, {}))
  <1> DEFINE f == PerPool(prior, m, j, Headline, {})
             g == PerPool(prior, m, k, Headline, {})
             S == KSubset(prior, j)
             T == KSubset(prior, k)
  <1>1. Headline \in Points
    BY ExitAssumption
  <1>2. IsFiniteSet(S) /\ \A p \in S : f[p] \in Nat
    BY <1>1, PerPoolType
  <1>3. IsFiniteSet(T) /\ \A p \in T : g[p] \in Nat
    BY <1>1, PerPoolType
  <1>4. \A p \in S : f[p] = g[p]
    BY DEF PerPool
  <1>5. Depths(prior, m, j, Headline, {}) = Total(f, S) /\ Depths(prior, m, k, Headline, {}) = Total(g, T)
    BY DEF Depths
  <1> HIDE DEF f, g, S, T
  <1>6. S \subseteq T
    BY DEF S, T
  <1>7. \A p \in S : g[p] \in Nat /\ f[p] <= g[p]
    BY <1>2, <1>3, <1>4, <1>6
  <1>8. Total(f, S) <= Total(g, S)
    BY <1>2, <1>7, TotalBelow
  <1>9. Total(g, S) <= Total(g, T)
    BY <1>3, <1>6, TotalMonotone
  <1>10. Total(f, S) \in Nat /\ Total(g, T) \in Nat
    BY <1>2, <1>3, TotalFirst
  <1>11. Total(g, S) \in Nat
    BY <1>2, <1>7, TotalFirst
  <1> QED BY <1>5, <1>8, <1>9, <1>10, <1>11

\* The curve of pools read as they are does not fall where all of them meet the bound
\* or have sunk below it.
LEMMA CurveOfTrueShapes ==
    ASSUME WorldInv, BundleInv, prior # None, NEW m \in Markets,
           \A p \in KSubset(prior, 90) : \A s \in Points :
               m[p].solved[Kind[p]][s].kind \in {"bound", "zero"}
    PROVE  CurveHolds(prior, m, {})
  <1> SUFFICES ASSUME NEW s \in Points, NEW t \in Points, s < t
               PROVE  /\ Depths(prior, m, 90, s, {}) <= Depths(prior, m, 90, t, {})
                      /\ Depths(prior, m, 90, s, {}) + Redeemed(s, {})
                           <= Depths(prior, m, 90, t, {}) + Redeemed(t, {})
    BY DEF CurveHolds, SoldAt
  <1> DEFINE f == PerPool(prior, m, 90, s, {})
             g == PerPool(prior, m, 90, t, {})
             S == KSubset(prior, 90)
  <1>1. /\ IsFiniteSet(S) /\ S \subseteq prior.frozen
        /\ \A p \in S : f[p] \in Nat /\ f[p] = prior.held[p] * m[p].solved[KindRead(p, {})][s].depth
        /\ Depths(prior, m, 90, s, {}) \in Nat
    BY PerPoolType
  <1>2. /\ \A p \in S : g[p] \in Nat /\ g[p] = prior.held[p] * m[p].solved[KindRead(p, {})][t].depth
        /\ Depths(prior, m, 90, t, {}) \in Nat
    BY PerPoolType
  <1>3. Depths(prior, m, 90, s, {}) = Total(f, S) /\ Depths(prior, m, 90, t, {}) = Total(g, S)
    BY DEF Depths
  <1>4. \A p \in S : \A u \in Points : m[p].solved[Kind[p]][u].kind \in {"bound", "zero"}
    OBVIOUS
  <1> HIDE DEF f, g, S
  <1>5. ASSUME NEW p \in S PROVE f[p] <= g[p]
    <2>1. p \in Pools /\ prior.held[p] \in Nat
      BY <1>1 DEF BundleInv
    <2>2. KindRead(p, {}) = Kind[p] /\ Kind[p] \in Shapes
      BY <2>1, ShapeRead
    <2> DEFINE x == m[p].solved[Kind[p]][s].depth
               y == m[p].solved[Kind[p]][t].depth
    <2>3. x \in Nat /\ y \in Nat
      BY <2>1, <2>2, SolvedType
    <2>4. x <= y
      BY <1>4, <2>1, <2>2, SolverAssumption
    <2>5. f[p] = prior.held[p] * x /\ g[p] = prior.held[p] * y
      BY <1>1, <1>2, <2>2
    <2> HIDE DEF x, y
    <2> QED BY <2>1, <2>3, <2>4, <2>5, Products
  <1>6. Total(f, S) <= Total(g, S)
    BY <1>1, <1>2, <1>5, TotalBelow
  <1>7. s <= t
    BY PointRange
  <1>8. /\ Redeemed(s, {}) \in Nat /\ Redeemed(t, {}) \in Nat
        /\ Redeemed(s, {}) <= Redeemed(t, {})
    BY <1>7, RedeemedRises
  <1> QED BY <1>1, <1>2, <1>3, <1>6, <1>8

\* Such a fold fails nothing but for a keeper left out, a target to be filled, or a
\* modelled pool that does not meet a bound.
LEMMA OnlyTheseCauses ==
    ASSUME WorldInv, BundleInv, prior # None, NEW m \in Markets,
           Refused(prior, m, {}) = {}, Sunk(prior, m, {}) = {}, Drained(prior, m, {}) = {},
           Failing(prior, m, {}) # {}
    PROVE  \/ ~(Keepers \subseteq prior.frozen)
           \/ ~TargetHolds(prior, CandidatesRead(prior, m, {}), fs.target)
  <1>1. ~(Depths(prior, m, 80, Headline, {}) > Depths(prior, m, 90, Headline, {}))
    BY SubsetsGrow, DepthsGrow
  <1>2. ~(Depths(prior, m, 90, Headline, {}) > Depths(prior, m, 95, Headline, {}))
    BY SubsetsGrow, DepthsGrow
  <1>3. ASSUME NEW p \in KSubset(prior, 90), NEW s \in Points
        PROVE  /\ p \in Pools /\ KindRead(p, {}) = Kind[p]
               /\ m[p].solved[Kind[p]][s].kind \in {"bound", "zero"}
    <2>1. p \in Pools
      BY DEF KSubset, BundleInv
    <2>2. KindRead(p, {}) = Kind[p] /\ Kind[p] \in Shapes
      BY <2>1, ShapeRead
    <2>3. m[p].solved[Kind[p]][s].kind # "raised" /\ m[p].solved[Kind[p]][s].kind # "cap"
      BY <2>2 DEF Refused, Drained
    <2> QED BY <2>1, <2>2, <2>3, SolvedType
  <1>4. Mismatched(prior, m, {}) = {}
    <2> SUFFICES ASSUME NEW p \in KSubset(prior, 90)
                 PROVE  Near(m[p].solved[KindRead(p, {})][Headline].slip, Headline)
      BY DEF Mismatched, WithinEpsilon
    <2>1. Headline \in Points
      BY ExitAssumption
    <2>2. m[p].solved[Kind[p]][Headline].kind = "bound"
      BY <1>3, <2>1 DEF Sunk
    <2> QED BY <1>3, <2>1, <2>2, ContractAssumption
  <1>5. CurveHolds(prior, m, {})
    BY <1>3, CurveOfTrueShapes
  <1>6. \A s \in Points : Redeemed(s, {}) = VenueSum(s, {})
    BY DEF Redeemed, VenueSum, Enters
  <1> QED BY <1>1, <1>2, <1>4, <1>5, <1>6 DEF Failing

LEMMA FoldCauseStep ==
    ASSUME WatchInv, FoldHasCause, [ExitNext]_allvars
    PROVE  FoldHasCause'
  <1>1. CASE UNCHANGED <<last, token>>
    BY <1>1 DEF FoldHasCause, Keepers
  <1>2. CASE Fold
    <2> SUFFICES ASSUME last'.reads = {}
                 PROVE  /\ last'.outcome = "stopped" =>
                              last'.frozen \cap Wide # {} \/ last'.refused # {}
                        /\ last'.outcome = "rehearsal" =>
                              \/ last'.target # last'.want \/ ~(Keepers' \subseteq last'.frozen)
                              \/ last'.sunk # {} \/ last'.drained # {}
      BY DEF FoldHasCause
    <2>1. prior # None /\ UNCHANGED vars
      BY <1>2, FoldLeaves
    <2>2. Keepers' = Keepers
      BY <2>1 DEF Keepers, vars, chain
    <2>3. PICK F : \E m \in Markets : Left(F, m)
      BY <1>2, FoldLeaves
    <2>4. PICK m \in Markets : Left(F, m)
      BY <2>3
    <2>5. last'.reads = F /\ last'.frozen = prior.frozen
      BY <2>4 DEF Left
    <2>6. F = {}
      BY <2>5
    <2>7. CASE last'.outcome = "stopped"
      <3>1. /\ Unreadable(prior, F) \cup Refused(prior, m, F) # {}
            /\ last'.refused = Refused(prior, m, F)
        BY <2>4, <2>7 DEF Left
      <3>2. CASE Refused(prior, m, F) # {}
        BY <2>7, <3>1, <3>2
      <3>3. CASE Refused(prior, m, F) = {}
        <4>1. PICK p \in prior.frozen : p \in Wide \/ p \notin pinned
          BY <3>1, <3>3 DEF Unreadable
        <4>2. p \in pinned
          BY <2>1, <4>1 DEF WatchInv, BundleInv
        <4> QED BY <2>5, <2>7, <4>1, <4>2
      <3> QED BY <3>2, <3>3
    <2>8. CASE last'.outcome = "rehearsal"
      <3>1. /\ Failing(prior, m, {}) # {} /\ last'.target = fs.target
            /\ last'.want = Selected(prior, CandidatesRead(prior, m, {}))
            /\ last'.sunk = Sunk(prior, m, {}) /\ last'.drained = Drained(prior, m, {})
        BY <2>4, <2>6, <2>8 DEF Left
      <3>2. Refused(prior, m, {}) = {}
        BY <2>4, <2>6, <2>8 DEF Left
      <3>3. ASSUME Sunk(prior, m, {}) = {}, Drained(prior, m, {}) = {}
            PROVE  \/ ~(Keepers \subseteq prior.frozen)
                   \/ ~TargetHolds(prior, CandidatesRead(prior, m, {}), fs.target)
        BY <2>1, <3>1, <3>2, <3>3, OnlyTheseCauses DEF WatchInv
      <3> QED BY <2>2, <2>5, <2>8, <3>1, <3>3 DEF TargetHolds
    <2> QED BY <2>7, <2>8
  <1>3. ASSUME NEW p \in Pools, Resize(p) \/ Relist(p) \/ Vanish(p) PROVE token' = token
    BY <1>3 DEF Resize, Relist, Vanish
  <1>4. ASSUME Freeze \/ Pin \/ (\E named \in BOOLEAN : LogEvent(named)) \/ Fill
        PROVE  token' = token
    BY <1>4 DEF Freeze, Pin, LogEvent, Fill, chain
  <1>5. ASSUME Promote \/ UNCHANGED allvars PROVE token' = token
    BY <1>5 DEF Promote, allvars, vars, chain
  <1>6. CASE Fill
    BY <1>1, <1>4, <1>6 DEF Fill
  <1>7. ASSUME [Next]_vars, UNCHANGED last PROVE FoldHasCause'
    <2>1. token' = token
      BY <1>3, <1>4, <1>5, <1>7 DEF Next, vars, chain
    <2> QED BY <1>1, <1>7, <2>1
  <1> QED BY <1>2, <1>6, <1>7 DEF ExitNext, allvars

\* With every probe answered, a fold of a promoted bundle is stopped only by a wider
\* pool in the frozen set, or one that is not bracketed or refuses get_dy; and it is a
\* rehearsal only for a keeper the freeze did not find, a target that is owed or has
\* moved, or a modelled pool below the headline bound or cut by its balance.
THEOREM FoldsFailForCause == ExitSpec => []FoldHasCause
  <1>1. ExitInit => FoldHasCause
    BY DEF ExitInit, FoldHasCause
  <1> QED BY <1>1, WatchInvInit, WatchInvStep, FoldCauseStep, PTL DEF ExitSpec
-------------------------------------------------------------------------------
(***************************************************************************)
(* The freeze.  Pools are ranked by value, then by address; the prefix is  *)
(* a whole front of that order, so no choice of as many pools is worth     *)
(* more than a front of it (TotalExchange).                                *)
(***************************************************************************)
LEMMA AboveType ==
    ASSUME WorldInv
    PROVE  /\ IsFiniteSet(Above) /\ Above \subseteq Nat
           /\ IsFiniteSet(Eligible) /\ Above \subseteq Eligible
           /\ \A p \in Eligible : tvl[p] \in Nat
  <1>1. Eligible \subseteq Pools /\ Above \subseteq Eligible
    BY DEF WorldInv, Eligible, Above
  <1>2. IsFiniteSet(Eligible) /\ IsFiniteSet(Above)
    BY <1>1, FS_Subset, PoolAssumption
  <1> QED BY <1>1, <1>2, PoolAssumption DEF WorldInv

\* Ahead is a total order of the pools above the floor.
LEMMA AheadOrders ==
    ASSUME WorldInv
    PROVE  /\ \A p \in Above : Ahead(p, p)
           /\ \A p, q \in Above : Ahead(p, q) \/ Ahead(q, p)
           /\ \A p, q \in Above : Ahead(p, q) /\ Ahead(q, p) => p = q
           /\ \A p, q, r \in Above : Ahead(p, q) /\ Ahead(q, r) => Ahead(p, r)
           /\ \A p, q \in Above : Ahead(p, q) => tvl[q] <= tvl[p]
  <1>1. \A p \in Above : tvl[p] \in Nat /\ p \in Nat
    BY AboveType
  <1> QED BY <1>1 DEF Ahead

LEMMA ValueType ==
    ASSUME WorldInv, NEW S, S \subseteq Eligible
    PROVE  Value(S) \in Nat /\ IsFiniteSet(S)
  <1>1. IsFiniteSet(S) /\ \A p \in S : tvl[p] \in Nat
    BY AboveType, FS_Subset
  <1> QED BY <1>1, TotalFirst DEF Value

\* More pools reach the target if fewer do.
LEMMA ReachesGrows ==
    ASSUME WorldInv, NEW S, NEW T, S \subseteq T, T \subseteq Eligible
    PROVE  Reaches(S) => Reaches(T)
  <1>1. IsFiniteSet(T) /\ \A p \in T : tvl[p] \in Nat
    BY AboveType, FS_Subset
  <1>2. Value(S) <= Value(T)
    BY <1>1, TotalMonotone DEF Value
  <1>3. Value(S) \in Nat /\ Value(T) \in Nat /\ Value(Eligible) \in Nat
    BY ValueType
  <1> QED BY <1>2, <1>3 DEF Reaches

\* The prefix with a pool has every pool ahead of it.
LEMMA PrefixIsFront ==
    ASSUME WorldInv, NEW p \in Prefix
    PROVE  UpTo(p) \subseteq Prefix
  <1> SUFFICES ASSUME NEW q \in Above, Ahead(q, p) PROVE q \in Prefix
    BY DEF UpTo
  <1>1. p \in Above /\ ~Reaches(UpTo(p) \ {p})
    BY DEF Prefix
  <1>2. CASE q = p
    BY <1>2
  <1>3. CASE q # p
    <2>1. UpTo(q) \ {q} \subseteq UpTo(p) \ {p}
      <3> SUFFICES ASSUME NEW r \in Above, Ahead(r, q) PROVE Ahead(r, p) /\ (r = p => r = q)
        BY DEF UpTo
      <3> QED BY <1>1, AheadOrders
    <2>2. UpTo(p) \ {p} \subseteq Eligible
      BY AboveType DEF UpTo
    <2>3. ~Reaches(UpTo(q) \ {q})
      BY <1>1, <2>1, <2>2, ReachesGrows
    <2> QED BY <2>3 DEF Prefix
  <1> QED BY <1>2, <1>3

\* The last pool of the prefix.
LEMMA PrefixHasLast ==
    ASSUME WorldInv, Prefix # {}
    PROVE  \E p \in Prefix : Prefix = UpTo(p)
  <1> DEFINE B == {Prefix \ UpTo(p) : p \in Prefix}
  <1>1. Prefix \subseteq Above /\ IsFiniteSet(Prefix)
    BY AboveType, FS_Subset DEF Prefix
  <1>2. B \subseteq SUBSET Prefix /\ B # {}
    OBVIOUS
  <1> HIDE DEF B
  <1>3. PICK T \in B : \A R \in B : R \subseteq T => R = T
    BY <1>1, <1>2, SmallestSet
  <1>4. PICK p \in Prefix : T = Prefix \ UpTo(p)
    BY <1>3 DEF B
  <1>5. ASSUME NEW q \in T PROVE FALSE
    <2>1. q \in Prefix /\ q \in Above /\ p \in Above /\ ~Ahead(q, p)
      BY <1>1, <1>4 DEF UpTo
    <2>2. UpTo(p) \subseteq UpTo(q) /\ q \in UpTo(q)
      BY <2>1, AheadOrders DEF UpTo
    <2>3. Prefix \ UpTo(q) \in B /\ Prefix \ UpTo(q) \subseteq T /\ q \notin Prefix \ UpTo(q)
      BY <1>4, <2>1, <2>2 DEF B
    <2> QED BY <1>3, <2>3
  <1>6. Prefix \subseteq UpTo(p)
    BY <1>4, <1>5
  <1> QED BY <1>6, PrefixIsFront

\* No choice of pools is worth more than a front with as many.
LEMMA FrontIsWorthMost ==
    ASSUME WorldInv, NEW S, S \subseteq Above, NEW V, V \subseteq Above,
           Cardinality(S) <= Cardinality(V),
           \A x \in Above \ V, y \in V : Ahead(y, x)
    PROVE  Value(S) <= Value(V)
  <1> DEFINE C == S \cap V
             X == S \ V
             Y == V \ S
  <1>1. IsFiniteSet(S) /\ IsFiniteSet(V) /\ \A p \in Above : tvl[p] \in Nat
    BY AboveType, FS_Subset
  <1>2. IsFiniteSet(C) /\ IsFiniteSet(X) /\ IsFiniteSet(Y)
    BY <1>1, FS_Subset
  <1>3. /\ Cardinality(X) = Cardinality(S) - Cardinality(C)
        /\ Cardinality(Y) = Cardinality(V) - Cardinality(C)
    <2>1. /\ Cardinality(S \ V) = Cardinality(S) - Cardinality(S \cap V)
          /\ Cardinality(V \ S) = Cardinality(V) - Cardinality(V \cap S)
      BY <1>1, FS_Difference
    <2>2. V \cap S = C
      OBVIOUS
    <2> QED BY <2>1, <2>2
  <1>4. Cardinality(S) \in Nat /\ Cardinality(V) \in Nat /\ Cardinality(C) \in Nat
    BY <1>1, <1>2, FS_CardinalityType
  <1>5. Cardinality(X) <= Cardinality(Y)
    BY <1>3, <1>4
  <1>6. \A x \in X, y \in Y : tvl[x] <= tvl[y]
    BY AheadOrders
  <1>7. \A x \in X \cup Y : tvl[x] \in Nat
    BY <1>1
  <1>8. Total(tvl, X) <= Total(tvl, Y)
    BY <1>2, <1>5, <1>6, <1>7, TotalExchange
  <1>9. Total(tvl, S) = Total(tvl, C) + Total(tvl, X)
    <2>1. S = C \cup X /\ C \cap X = {}
      OBVIOUS
    <2> QED BY <1>1, <1>2, <2>1, TotalJoin
  <1>10. Total(tvl, V) = Total(tvl, C) + Total(tvl, Y)
    <2>1. V = C \cup Y /\ C \cap Y = {}
      OBVIOUS
    <2> QED BY <1>1, <1>2, <2>1, TotalJoin
  <1>11. Total(tvl, C) \in Nat /\ Total(tvl, X) \in Nat /\ Total(tvl, Y) \in Nat
    BY <1>1, <1>2, TotalFirst
  <1> QED BY <1>8, <1>9, <1>10, <1>11 DEF Value

LEMMA NoneIsShorter ==
    ASSUME WorldInv, NEW S \in SUBSET Above, Reaches(S)
    PROVE  Cardinality(S) >= Cardinality(Prefix)
  <1>1. IsFiniteSet(Prefix) /\ IsFiniteSet(S) /\ Prefix \subseteq Above
    BY AboveType, FS_Subset DEF Prefix
  <1>2. Cardinality(S) \in Nat /\ Cardinality(Prefix) \in Nat
    BY <1>1, FS_CardinalityType
  <1> SUFFICES ASSUME Cardinality(S) < Cardinality(Prefix) PROVE FALSE
    BY <1>2
  <1>3. Prefix # {}
    BY <1>2, FS_EmptySet
  <1>4. PICK p \in Prefix : Prefix = UpTo(p)
    BY <1>3, PrefixHasLast
  <1> DEFINE V == Prefix \ {p}
  <1>5. Cardinality(V) = Cardinality(Prefix) - 1
    BY <1>1, FS_RemoveElement
  <1>6. \A x \in Above \ V, y \in V : Ahead(y, x)
    <2> SUFFICES ASSUME NEW x \in Above, x \notin V, NEW y \in V PROVE Ahead(y, x)
      OBVIOUS
    <2>1. y \in Above /\ p \in Above /\ Ahead(y, p)
      BY <1>1, <1>4 DEF UpTo
    <2>2. x = p \/ Ahead(p, x)
      BY <1>4, <2>1, AheadOrders DEF UpTo
    <2> QED BY <2>1, <2>2, AheadOrders
  <1>7. V \subseteq Above /\ V = UpTo(p) \ {p} /\ ~Reaches(V)
    BY <1>1, <1>4 DEF Prefix
  <1> HIDE DEF V
  <1>8. Value(S) <= Value(V)
    BY <1>2, <1>5, <1>6, <1>7, FrontIsWorthMost
  <1>9. Value(S) \in Nat /\ Value(V) \in Nat /\ Value(Eligible) \in Nat
    BY <1>7, AboveType, ValueType
  <1> QED BY <1>7, <1>8, <1>9 DEF Reaches

LEMMA PrefixReaches ==
    ASSUME WorldInv, NEW S \in SUBSET Above, Reaches(S)
    PROVE  Reaches(Prefix)
  <1>1. Above \subseteq Eligible /\ Prefix \subseteq Above /\ IsFiniteSet(Above)
    BY AboveType DEF Prefix
  <1>2. CASE Prefix = Above
    BY <1>1, <1>2, ReachesGrows
  <1>3. CASE Prefix # Above
    <2> DEFINE B == {UpTo(p) : p \in Above \ Prefix}
    <2>1. B \subseteq SUBSET Above /\ B # {}
      BY <1>1, <1>3 DEF UpTo
    <2> HIDE DEF B
    <2>2. PICK T \in B : \A R \in B : R \subseteq T => R = T
      BY <1>1, <2>1, SmallestSet
    <2>3. PICK p \in Above \ Prefix : T = UpTo(p)
      BY <2>2 DEF B
    <2>4. Reaches(UpTo(p) \ {p})
      BY <2>3 DEF Prefix
    <2>5. UpTo(p) \ {p} \subseteq Prefix
      <3> SUFFICES ASSUME NEW q \in Above \ Prefix, q \in UpTo(p), q # p PROVE FALSE
        BY DEF UpTo
      <3>1. UpTo(q) \in B
        BY DEF B
      <3>2. UpTo(q) \subseteq UpTo(p) /\ p \in UpTo(p)
        BY AheadOrders DEF UpTo
      <3>3. p \notin UpTo(q)
        BY AheadOrders DEF UpTo
      <3> QED BY <2>2, <2>3, <3>1, <3>2, <3>3
    <2> QED BY <1>1, <2>4, <2>5, ReachesGrows
  <1> QED BY <1>2, <1>3

\* "The shortest prefix reaching 95%", largest first, is the shortest choice of any
\* kind: no set of pools above the floor reaches the target with fewer, and the
\* prefix reaches it if any set does.
THEOREM FreezesAreShortest == ExitSpec => FreezeIsShortest
  <1> DEFINE Step ==
        fs' # fs /\ ~chained' =>
          \A S \in SUBSET Above : Reaches(S) =>
              Cardinality(S) >= Cardinality(Prefix) /\ Reaches(Prefix)
  <1>1. WatchInv /\ [ExitNext]_allvars => Step
    BY NoneIsShorter, PrefixReaches DEF WatchInv
  <1>2. ExitSpec => [][Step]_allvars
    BY <1>1, WatchInvInit, WatchInvStep, PTL DEF ExitSpec
  <1>3. Step => [Step]_vars
    OBVIOUS
  <1>4. UNCHANGED allvars => [Step]_vars
    BY DEF allvars
  <1> QED BY <1>2, <1>3, <1>4, PTL DEF FreezeIsShortest
-------------------------------------------------------------------------------
(***************************************************************************)
(* What a depth of the solver means, for every pricing function, tolerance *)
(* and bound on the iterations.  The invariant says what each end of the   *)
(* bracket is known to be in each phase; an answer is the two ends at its  *)
(* return.  And how two answers for bounds in order compare (CurvesRise).  *)
(***************************************************************************)

\* A depth that was answered, at the point k.
Meant(d, k) ==
    /\ d.kind = "zero" => d.depth = 0 /\ 0 \in pool.below[k]
    /\ d.kind = "bound" => d.depth \notin pool.below[k] /\ EdgeNear(d, pool.below[k])
    /\ d.kind = "cap" => /\ d.depth = 0 \/ d.depth \notin pool.drained
                         /\ EdgeNear(d, pool.drained)

\* What the two ends of the bracket are known to be.
Ends ==
    /\ phase \in {"widen", "floor"} => lo = 0
    /\ phase \in {"floor", "bisect"} => hi \in Below
    /\ phase = "bisect" => lo \notin Below
    /\ phase = "cap" => hi \in pool.drained /\ (lo = 0 \/ lo \notin pool.drained)

SolverTypes ==
    /\ pool \in Solvable
    /\ curve \in Seq(DepthRecords)
    /\ lo \in Nat /\ hi \in Nat /\ lo <= hi /\ doublings \in Nat /\ spent \in Nat
    /\ phase \in {"widen", "floor", "bisect", "cap", "done", "raised"}
    /\ phase \notin {"done", "raised"} => Len(curve) < Len(pool.below)

DepthInv == SolverTypes /\ Ends /\ \A k \in DOMAIN curve : Meant(curve[k], k)

-------------------------------------------------------------------------------
\* The middle of a bracket lies in it.
LEMMA MidInside ==
    ASSUME NEW a \in Nat, NEW b \in Nat, a <= b
    PROVE  /\ (a + b) \div 2 \in Nat
           /\ a <= (a + b) \div 2 /\ (a + b) \div 2 <= b
  OBVIOUS

\* The solver starts with nothing answered and an open bracket.
LEMMA DepthInit == SolverInit => DepthInv
<1>. SUFFICES ASSUME SolverInit PROVE DepthInv
  OBVIOUS
<1>. USE DepthAssumption DEF SolverInit
<1>1. SolverTypes
  <2>1. pool.balance \in Nat /\ pool.below \in Seq(SUBSET Nat)
    OBVIOUS
  <2>2. pool.below # <<>> => 0 < Len(pool.below)
    BY <2>1
  <2>. QED
    BY <2>1, <2>2 DEF SolverTypes
<1>2. Ends
  BY DEF Ends
<1>. QED
  BY <1>1, <1>2 DEF DepthInv

\* An answer that means what it says leaves every answer so.
LEMMA AnswerKept ==
    ASSUME DepthInv, NEW kind \in {"zero", "bound", "cap"}, NEW size \in Nat,
           phase \notin {"done", "raised"}, Answer(kind, size),
           Meant([kind |-> kind, depth |-> size, cut |-> spent = MaxIter], Len(curve) + 1)
    PROVE  DepthInv'
<1>. DEFINE d == [kind |-> kind, depth |-> size, cut |-> spent = MaxIter]
<1>. USE DEF Answer, Opened
<1>1. pool' = pool /\ pool \in Solvable /\ curve' = Append(curve, d) /\ curve \in Seq(DepthRecords)
  BY DEF DepthInv, SolverTypes
<1>2. d \in DepthRecords
  BY DEF DepthRecords
<1>3. pool.balance \in Nat /\ pool.below \in Seq(SUBSET Nat) /\ Len(curve) < Len(pool.below)
  BY DepthAssumption DEF DepthInv, SolverTypes
<1>4. curve' \in Seq(DepthRecords) /\ Len(curve') = Len(curve) + 1
  BY <1>1, <1>2
<1>5. SolverTypes'
  BY <1>1, <1>3, <1>4 DEF SolverTypes
<1>6. Ends'
  BY <1>1 DEF Ends
<1>7. ASSUME NEW k \in DOMAIN curve' PROVE Meant(curve[k], k)'
  <2>1. CASE k = Len(curve) + 1
    <3>1. curve'[k] = d
      BY <1>1, <1>2, <2>1
    <3>. QED
      BY <1>1, <3>1, <2>1 DEF Meant, EdgeNear
  <2>2. CASE k # Len(curve) + 1
    <3>1. k \in DOMAIN curve /\ curve'[k] = curve[k]
      BY <1>1, <1>2, <1>4, <1>7, <2>2
    <3>. QED
      BY <1>1, <3>1 DEF DepthInv, Meant, EdgeNear
  <2>. QED
    BY <2>1, <2>2
<1>. QED
  BY <1>5, <1>6, <1>7 DEF DepthInv

\* A size of `out` at the top of a bracket that is closed is near its bottom.
LEMMA ClosedIsNear ==
    ASSUME SolverTypes, Close, NEW out, hi \in out, NEW kind
    PROVE  EdgeNear([kind |-> kind, depth |-> lo, cut |-> spent = MaxIter], out)
  BY DEF SolverTypes, Close, EdgeNear

\* Every step of the solver keeps it.
LEMMA DepthStep == DepthInv /\ [SolverNext]_solver => DepthInv'
<1>. SUFFICES ASSUME DepthInv, [SolverNext]_solver PROVE DepthInv'
  OBVIOUS
<1>. USE DEF DepthInv
<1>0. pool.balance \in Nat
  BY DepthAssumption DEF SolverTypes
<1>1. ASSUME pool' = pool, curve' = curve, SolverTypes', Ends' PROVE DepthInv'
  BY <1>1 DEF Meant, EdgeNear
<1>2. CASE Widen
  <2>1. SolverTypes'
    BY <1>2 DEF Widen, Goto, SolverTypes
  <2>2. Ends'
    BY <1>2 DEF Widen, Goto, Ends
  <2>. QED
    BY <1>1, <1>2, <2>1, <2>2 DEF Widen, Goto
<1>3. CASE RunDry
  <2>1. SolverTypes' /\ Ends'
    BY <1>3 DEF RunDry, Goto, bracket, SolverTypes, Ends
  <2>. QED
    BY <1>1, <1>3, <2>1 DEF RunDry, Goto
<1>4. CASE Bracketed
  <2>1. SolverTypes' /\ Ends'
    BY <1>4 DEF Bracketed, Goto, bracket, SolverTypes, Ends, Below
  <2>. QED
    BY <1>1, <1>4, <2>1 DEF Bracketed, Goto
<1>5. CASE NothingSells
  <2>1. Meant([kind |-> "zero", depth |-> 0, cut |-> spent = MaxIter], Len(curve) + 1)
    BY <1>5 DEF NothingSells, Meant, Below, Ends
  <2>. QED
    BY <1>5, <2>1, AnswerKept DEF NothingSells
<1>6. CASE Bisect
  <2>1. SolverTypes' /\ Ends'
    BY <1>6 DEF Bisect, Goto, bracket, SolverTypes, Ends, Below
  <2>. QED
    BY <1>1, <1>6, <2>1 DEF Bisect, Goto
<1>7. CASE HalvePrice
  <2>1. Mid \in Nat /\ lo <= Mid /\ Mid <= hi
    BY MidInside DEF Mid, SolverTypes
  <2>2. SolverTypes'
    BY <1>7, <2>1 DEF HalvePrice, Halve, SolverTypes
  <2>3. Ends'
    BY <1>7 DEF HalvePrice, Halve, Ends, Below
  <2>. QED
    BY <1>1, <1>7, <2>2, <2>3 DEF HalvePrice, Halve
<1>8. CASE HalveCap
  <2>1. Mid \in Nat /\ lo <= Mid /\ Mid <= hi
    BY MidInside DEF Mid, SolverTypes
  <2>2. SolverTypes'
    BY <1>8, <2>1 DEF HalveCap, Halve, SolverTypes
  <2>3. Ends'
    BY <1>8 DEF HalveCap, Halve, Ends, Below
  <2>. QED
    BY <1>1, <1>8, <2>2, <2>3 DEF HalveCap, Halve
<1>9. CASE MeetBound
  <2>1. Meant([kind |-> "bound", depth |-> lo, cut |-> spent = MaxIter], Len(curve) + 1)
    <3>1. hi \in Below /\ lo \notin Below /\ Close
      BY <1>9 DEF MeetBound, Ends
    <3>2. EdgeNear([kind |-> "bound", depth |-> lo, cut |-> spent = MaxIter], Below)
      BY <3>1, ClosedIsNear
    <3>. QED
      BY <3>1, <3>2 DEF Meant, Below
  <2>2. lo \in Nat
    BY DEF SolverTypes
  <2>. QED
    BY <1>9, <2>1, <2>2, AnswerKept DEF MeetBound, Inner
<1>10. CASE MeetCap
  <2>1. Meant([kind |-> "cap", depth |-> lo, cut |-> spent = MaxIter], Len(curve) + 1)
    <3>1. hi \in pool.drained /\ (lo = 0 \/ lo \notin pool.drained) /\ Close
      BY <1>10 DEF MeetCap, Ends
    <3>2. EdgeNear([kind |-> "cap", depth |-> lo, cut |-> spent = MaxIter], pool.drained)
      BY <3>1, ClosedIsNear
    <3>. QED
      BY <3>1, <3>2 DEF Meant
  <2>2. lo \in Nat
    BY DEF SolverTypes
  <2>. QED
    BY <1>10, <2>1, <2>2, AnswerKept DEF MeetCap, Inner
<1>11. CASE UNCHANGED solver
  <2>1. SolverTypes' /\ Ends'
    BY <1>11 DEF solver, bracket, SolverTypes, Ends, Below
  <2>. QED
    BY <1>1, <1>11, <2>1 DEF solver
<1>. QED
  BY <1>2, <1>3, <1>4, <1>5, <1>6, <1>7, <1>8, <1>9, <1>10, <1>11 DEF SolverNext, Stopped

\* pool_depth never returns a size it has not bracketed: what is reported
\* as a depth sells at the bound, and something within the tolerance above
\* it does not (depth.py 291-332).
THEOREM DepthIsBracketed == SolverSpec => []DepthBracketed
<1>1. DepthInv => DepthBracketed
  BY DEF DepthInv, DepthBracketed, Meant
<1>. QED
  BY <1>1, DepthInit, DepthStep, PTL DEF SolverSpec

-------------------------------------------------------------------------------
(***************************************************************************)
(* The curve rises.  Two calls that follow each other halve the same       *)
(* brackets until the price at some size is below the wider bound only in  *)
(* one of them; from there on the second keeps to the right of what the    *)
(* first found.  So the invariant remembers the brackets of a call: the    *)
(* edges W it widened over, up to the edge H it stopped at, and the        *)
(* brackets P it halved.                                                   *)
(***************************************************************************)
\* Widening from twice the balance has stopped at top.
Doubled(W, balance, top, stops) ==
    /\ W \in SUBSET Nat /\ 2 * balance \in W /\ top \in W
    /\ \A w \in W : w = top \/ (w \notin stops /\ 2 * w \in W)

Narrow(x, y, i) == y - x <= Tol \/ i = MaxIter

Halved(P, below, x, y, i) ==
    /\ ~Narrow(x, y, i)
    /\ (x + y) \div 2 \in below => <<x, (x + y) \div 2, i + 1>> \in P
    /\ (x + y) \div 2 \notin below => <<(x + y) \div 2, y, i + 1>> \in P

\* Halving from <<0, H>> has come to the bracket <<a, b>>.
Trail(P, H, below, a, b, n) ==
    /\ a <= b
    /\ <<0, H, 0>> \in P /\ <<a, b, n>> \in P
    /\ \A x, y, i \in Nat :
          <<x, y, i>> \in P =>
              /\ x <= a /\ b <= y
              /\ <<x, y, i>> = <<a, b, n>> \/ Halved(P, below, x, y, i)

Brackets == SUBSET (Nat \X Nat \X Nat)

Stops == Below \cup pool.drained

\* Where the call that is running has come from.
Current ==
    /\ phase \in {"widen", "floor"} =>
          spent = 0 /\ \E W \in SUBSET Nat : Doubled(W, pool.balance, hi, Stops)
    /\ phase = "bisect" =>
          \E H \in Nat, W \in SUBSET Nat, P \in Brackets :
              /\ Doubled(W, pool.balance, H, Stops) /\ H \in Below /\ 0 \notin Below
              /\ Trail(P, H, Below, lo, hi, spent)
    /\ phase = "cap" =>
          \E H \in Nat, W \in SUBSET Nat :
              Doubled(W, pool.balance, H, Stops) /\ H \notin Below /\ H \in pool.drained

\* The call has widened past H, where the one before it stopped.
Past(H) == \E h \in Nat : H <= h /\ hi = 2 * h /\ h \notin Below

\* Where the call that is running stands to one that found `found`.
Beyond(H, W, P, found) ==
    /\ phase = "widen" => hi \in W \/ Past(H)
    /\ phase = "floor" => hi = H \/ Past(H)
    /\ phase = "bisect" => \/ found <= lo
                           \/ <<lo, hi, spent>> \in P
                           \/ lo = 0 /\ spent = 0 /\ Past(H)

\* The call before found a found at the bound `below`.
Bounded(found, below, H, W, P, b, n) ==
    /\ Doubled(W, pool.balance, H, below \cup pool.drained) /\ H \in below /\ 0 \notin below
    /\ Trail(P, H, below, found, b, n) /\ Narrow(found, b, n)

\* The call before ran dry.
Capped(below, H, W) ==
    Doubled(W, pool.balance, H, below \cup pool.drained) /\ H \notin below /\ H \in pool.drained

AfterBound(found, below) ==
    \E H \in Nat, W \in SUBSET Nat, P \in Brackets, b \in Nat, n \in Nat :
        Bounded(found, below, H, W, P, b, n) /\ Beyond(H, W, P, found)

AfterCap(below) ==
    \E H \in Nat, W \in SUBSET Nat :
        /\ Capped(below, H, W)
        /\ phase \notin {"floor", "bisect"} /\ (phase = "widen" => hi \in W)

LastPoint == curve[Len(curve)]
LastBelow == pool.below[Len(curve)]

Follows ==
    curve # <<>> =>
        /\ LastPoint.kind = "zero" => LastPoint.depth = 0
        /\ LastPoint.kind = "bound" => AfterBound(LastPoint.depth, LastBelow)
        /\ LastPoint.kind = "cap" => AfterCap(LastBelow)

RiseInv == DepthInv /\ Current /\ Follows /\ CurveRises

-------------------------------------------------------------------------------
\* What is below a bound is below the narrower one before it.
LEMMA BelowNested ==
    ASSUME SolverTypes, curve # <<>>, Len(curve) < Len(pool.below)
    PROVE  Below \subseteq LastBelow
<1>1. pool.below \in Seq(SUBSET Nat) /\ curve \in Seq(DepthRecords) /\ pool \in Solvable
  BY DepthAssumption DEF SolverTypes
<1>2. Len(curve) \in 1..(Len(pool.below) - 1)
  BY <1>1
<1>. QED
  BY <1>1, <1>2, DepthAssumption DEF Below, LastBelow

\* One more doubling.
LEMMA DoubledGrows ==
    ASSUME NEW W, NEW balance, NEW top, NEW stops,
           Doubled(W, balance, top, stops), top \notin stops
    PROVE  Doubled(W \cup {2 * top}, balance, 2 * top, stops)
<1>1. top \in Nat /\ 2 * top \in Nat
  BY DEF Doubled
<1>. QED
  BY <1>1 DEF Doubled

\* One more halving.
LEMMA TrailGrows ==
    ASSUME NEW P \in Brackets, NEW H \in Nat, NEW below, NEW a \in Nat, NEW b \in Nat, NEW n \in Nat,
           Trail(P, H, below, a, b, n), ~Narrow(a, b, n),
           NEW c \in Nat, NEW d \in Nat,
           IF (a + b) \div 2 \in below THEN c = a /\ d = (a + b) \div 2
                                       ELSE c = (a + b) \div 2 /\ d = b
    PROVE  Trail(P \cup {<<c, d, n + 1>>}, H, below, c, d, n + 1)
<1>. DEFINE Q == P \cup {<<c, d, n + 1>>}
<1>1. a <= b
  BY DEF Trail
<1>2. a <= c /\ c <= d /\ d <= b
  BY <1>1, MidInside
<1>3. Halved(Q, below, a, b, n)
  BY DEF Halved
<1>4. ASSUME NEW x \in Nat, NEW y \in Nat, NEW i \in Nat, <<x, y, i>> \in Q
      PROVE  /\ x <= c /\ d <= y
             /\ <<x, y, i>> = <<c, d, n + 1>> \/ Halved(Q, below, x, y, i)
  <2>1. CASE <<x, y, i>> = <<c, d, n + 1>>
    BY <2>1
  <2>2. CASE <<x, y, i>> \in P
    <3>1. /\ x <= a /\ b <= y
          /\ <<x, y, i>> = <<a, b, n>> \/ Halved(P, below, x, y, i)
      BY <2>2 DEF Trail
    <3>2. CASE <<x, y, i>> = <<a, b, n>>
      <4>1. x = a /\ y = b /\ i = n
        BY <3>2
      <4>. QED
        BY <1>2, <1>3, <4>1
    <3>3. CASE Halved(P, below, x, y, i)
      <4>1. Halved(Q, below, x, y, i)
        BY <3>3 DEF Halved
      <4>. QED
        BY <1>2, <3>1, <4>1
    <3>. QED
      BY <3>1, <3>2, <3>3
  <2>. QED
    BY <1>4, <2>1, <2>2
<1>5. <<0, H, 0>> \in Q /\ <<c, d, n + 1>> \in Q
  BY DEF Trail
<1>. HIDE DEF Q
<1>6. Trail(Q, H, below, c, d, n + 1)
  BY <1>2, <1>4, <1>5 DEF Trail
<1>. QED
  BY <1>6 DEF Q

-------------------------------------------------------------------------------
\* The call that is running knows where it comes from.
LEMMA CurrentStep ==
    ASSUME DepthInv, Current, SolverNext, UNCHANGED curve
    PROVE  Current'
<1>1. pool' = pool /\ Below' = Below /\ Stops' = Stops
  BY DEF SolverNext, Widen, RunDry, Bracketed, NothingSells, Bisect, HalvePrice, HalveCap, Halve,
         MeetBound, MeetCap, Stopped, solver, Answer, Goto, Below, Stops
<1>2. lo \in Nat /\ hi \in Nat /\ spent \in Nat /\ pool.balance \in Nat
  BY DepthAssumption DEF DepthInv, SolverTypes
<1>3. ~NothingSells /\ ~MeetBound /\ ~MeetCap
  <2>1. curve \in Seq(DepthRecords)
    BY DEF DepthInv, SolverTypes
  <2>2. \A e : Append(curve, e) # curve
    BY <2>1
  <2>. QED
    BY <2>2 DEF NothingSells, MeetBound, MeetCap, Answer
<1>4. CASE Widen
  <2>1. PICK W \in SUBSET Nat : Doubled(W, pool.balance, hi, Stops)
    BY <1>4 DEF Widen, Current
  <2>2. hi \notin Stops /\ hi' = 2 * hi /\ spent' = spent /\ spent = 0
    BY <1>4 DEF Widen, Stops, Current
  <2>3. Doubled(W \cup {2 * hi}, pool.balance, 2 * hi, Stops)
    BY <2>1, <2>2, DoubledGrows
  <2>4. W \cup {2 * hi} \in SUBSET Nat
    BY <1>2
  <2>5. phase' \in {"widen", "raised"}
    BY <1>4 DEF Widen, Goto
  <2>. QED
    BY <1>1, <2>2, <2>3, <2>4, <2>5 DEF Current
<1>5. CASE RunDry
  <2>1. PICK W \in SUBSET Nat : Doubled(W, pool.balance, hi, Stops)
    BY <1>5 DEF RunDry, Current
  <2>2. hi \notin Below /\ hi \in pool.drained /\ phase' = "cap"
    BY <1>5 DEF RunDry, Goto
  <2>. QED
    BY <1>1, <1>2, <2>1, <2>2 DEF Current
<1>6. CASE Bracketed
  <2>1. PICK W \in SUBSET Nat : Doubled(W, pool.balance, hi, Stops)
    BY <1>6 DEF Bracketed, Current
  <2>2. hi' = hi /\ spent' = spent /\ spent = 0 /\ phase' = "floor"
    BY <1>6 DEF Bracketed, Goto, bracket, Current
  <2>. QED
    BY <1>1, <2>1, <2>2 DEF Current
<1>7. CASE Bisect
  <2>1. PICK W \in SUBSET Nat : Doubled(W, pool.balance, hi, Stops)
    BY <1>7 DEF Bisect, Current
  <2>2. lo' = lo /\ hi' = hi /\ spent' = spent /\ spent = 0 /\ phase' = "bisect"
    BY <1>7 DEF Bisect, Goto, bracket, Current
  <2>3. lo = 0 /\ 0 \notin Below /\ hi \in Below
    BY <1>7 DEF Bisect, DepthInv, Ends
  <2>4. {<<0, hi, 0>>} \in Brackets
    BY <1>2 DEF Brackets
  <2>5. Trail({<<0, hi, 0>>}, hi, Below, 0, hi, 0)
    BY <1>2 DEF Trail
  <2>. QED
    BY <1>1, <1>2, <2>1, <2>2, <2>3, <2>4, <2>5 DEF Current
<1>8. CASE HalvePrice
  <2>1. PICK H \in Nat, W \in SUBSET Nat, P \in Brackets :
            /\ Doubled(W, pool.balance, H, Stops) /\ H \in Below /\ 0 \notin Below
            /\ Trail(P, H, Below, lo, hi, spent)
    BY <1>8 DEF HalvePrice, Current
  <2>2. /\ ~Narrow(lo, hi, spent) /\ spent' = spent + 1 /\ phase' = phase /\ phase = "bisect"
        /\ IF (lo + hi) \div 2 \in Below THEN lo' = lo /\ hi' = (lo + hi) \div 2
                                         ELSE lo' = (lo + hi) \div 2 /\ hi' = hi
    BY <1>8 DEF HalvePrice, Halve, Close, Narrow, Mid
  <2>3. lo' \in Nat /\ hi' \in Nat
    BY <1>2, <2>2
  <2>4. Trail(P \cup {<<lo', hi', spent + 1>>}, H, Below, lo', hi', spent + 1)
    BY <1>2, <2>1, <2>2, <2>3, TrailGrows
  <2>5. P \cup {<<lo', hi', spent + 1>>} \in Brackets
    BY <1>2, <2>3 DEF Brackets
  <2>. QED
    BY <1>1, <2>1, <2>2, <2>4, <2>5 DEF Current
<1>9. CASE HalveCap
  <2>1. phase' = "cap" /\ phase = "cap"
    BY <1>9 DEF HalveCap, Halve
  <2>. QED
    BY <1>1, <2>1 DEF Current
<1>10. CASE Stopped
  BY <1>10 DEF Stopped, solver, Current
<1>. QED
  BY <1>3, <1>4, <1>5, <1>6, <1>7, <1>8, <1>9, <1>10 DEF SolverNext

\* The edge a call has widened to is one the call before widened over, or lies
\* past the one it stopped at.
LEMMA PastGrows ==
    ASSUME SolverTypes, NEW H \in Nat, Past(H), hi \notin Below, hi' = 2 * hi, Below' = Below
    PROVE  Past(H)'
<1>1. PICK h \in Nat : H <= h /\ hi = 2 * h /\ h \notin Below
  BY DEF Past
<1>2. hi \in Nat /\ H <= hi
  BY <1>1
<1>. QED
  BY <1>2 DEF Past

\* A step of a call keeps where it stands to a call that found a depth.
LEMMA BoundFollowed ==
    ASSUME DepthInv, Current, SolverNext, UNCHANGED curve, curve # <<>>, Len(curve) < Len(pool.below),
           NEW found \in Nat, NEW H \in Nat, NEW W \in SUBSET Nat, NEW P \in Brackets,
           NEW b \in Nat, NEW n \in Nat,
           Bounded(found, LastBelow, H, W, P, b, n), Beyond(H, W, P, found)
    PROVE  Beyond(H, W, P, found)'
<1>1. pool' = pool /\ Below' = Below /\ Below \subseteq LastBelow
  <2>1. Below \subseteq LastBelow
    BY BelowNested DEF DepthInv
  <2>. QED
    BY <2>1 DEF SolverNext, Widen, RunDry, Bracketed, NothingSells, Bisect, HalvePrice, HalveCap,
                Halve, MeetBound, MeetCap, Stopped, solver, Answer, Goto, Below
<1>2. lo \in Nat /\ hi \in Nat /\ spent \in Nat /\ lo <= hi /\ SolverTypes
  BY DEF DepthInv, SolverTypes
<1>3. ~NothingSells /\ ~MeetBound /\ ~MeetCap
  <2>1. curve \in Seq(DepthRecords)
    BY DEF DepthInv, SolverTypes
  <2>2. \A e : Append(curve, e) # curve
    BY <2>1
  <2>. QED
    BY <2>2 DEF NothingSells, MeetBound, MeetCap, Answer
<1>4. CASE Widen
  <2>1. /\ hi \notin Below /\ hi \notin pool.drained /\ hi' = 2 * hi
        /\ phase = "widen" /\ phase' \in {"widen", "raised"}
    BY <1>4 DEF Widen, Goto
  <2>2. CASE Past(H)
    BY <1>1, <1>2, <2>1, <2>2, PastGrows DEF Beyond
  <2>3. CASE hi \in W /\ hi # H
    <3>1. 2 * hi \in W
      BY <2>3 DEF Bounded, Doubled
    <3>. QED
      BY <2>1, <3>1 DEF Beyond
  <2>4. CASE hi = H
    <3>1. Past(H)'
      BY <1>1, <2>1, <2>4 DEF Past
    <3>. QED
      BY <2>1, <3>1 DEF Beyond
  <2>. QED
    BY <2>1, <2>2, <2>3, <2>4 DEF Beyond
<1>5. CASE RunDry
  BY <1>5 DEF RunDry, Goto, Beyond
<1>6. CASE Bracketed
  <2>1. hi \in LastBelow /\ hi' = hi /\ phase = "widen" /\ phase' = "floor"
    BY <1>1, <1>6 DEF Bracketed, Goto, bracket
  <2>2. CASE Past(H)
    <3>1. Past(H)'
      BY <1>1, <2>1, <2>2 DEF Past
    <3>. QED
      BY <2>1, <3>1 DEF Beyond
  <2>3. CASE hi \in W
    <3>1. hi = H
      BY <2>1, <2>3 DEF Bounded, Doubled
    <3>. QED
      BY <2>1, <3>1 DEF Beyond
  <2>. QED
    BY <2>1, <2>2, <2>3 DEF Beyond
<1>7. CASE Bisect
  <2>1. lo' = 0 /\ hi' = hi /\ spent' = 0 /\ phase = "floor" /\ phase' = "bisect"
    BY <1>7 DEF Bisect, Goto, bracket, DepthInv, Ends, Current
  <2>2. CASE Past(H)
    <3>1. Past(H)'
      BY <1>1, <2>1, <2>2 DEF Past
    <3>. QED
      BY <2>1, <3>1 DEF Beyond
  <2>3. CASE hi = H
    <3>1. <<0, H, 0>> \in P
      BY DEF Bounded, Trail
    <3>. QED
      BY <2>1, <2>3, <3>1 DEF Beyond
  <2>. QED
    BY <2>1, <2>2, <2>3 DEF Beyond
<1>8. CASE HalvePrice
  <2> DEFINE mid == (lo + hi) \div 2
  <2>1. /\ ~Narrow(lo, hi, spent) /\ spent' = spent + 1 /\ phase' = phase /\ phase = "bisect"
        /\ IF mid \in Below THEN lo' = lo /\ hi' = mid ELSE lo' = mid /\ hi' = hi
    BY <1>8 DEF HalvePrice, Halve, Close, Narrow, Mid
  <2>2. mid \in Nat /\ lo <= mid /\ mid <= hi
    BY <1>2, MidInside
  <2>3. /\ found <= b /\ <<0, H, 0>> \in P
        /\ \A x, y, i \in Nat :
              <<x, y, i>> \in P =>
                  /\ x <= found /\ b <= y
                  /\ <<x, y, i>> = <<found, b, n>> \/ Halved(P, LastBelow, x, y, i)
    BY DEF Bounded, Trail
  <2>4. CASE found <= lo
    <3>1. found <= lo'
      BY <1>2, <2>1, <2>2, <2>4
    <3>. QED
      BY <2>1, <3>1 DEF Beyond
  <2>5. CASE <<lo, hi, spent>> \in P
    <3>1. Halved(P, LastBelow, lo, hi, spent)
      <4>1. <<lo, hi, spent>> = <<found, b, n>> => lo = found /\ hi = b /\ spent = n
        OBVIOUS
      <4>. QED
        BY <1>2, <2>1, <2>3, <2>5, <4>1 DEF Bounded
    <3>2. CASE mid \in Below
      <4>1. <<lo', hi', spent'>> \in P
        BY <1>1, <2>1, <3>1, <3>2 DEF Halved
      <4>. QED
        BY <2>1, <4>1 DEF Beyond
    <3>3. CASE mid \notin Below /\ mid \notin LastBelow
      <4>1. <<lo', hi', spent'>> \in P
        BY <2>1, <3>1, <3>3 DEF Halved
      <4>. QED
        BY <2>1, <4>1 DEF Beyond
    <3>4. CASE mid \notin Below /\ mid \in LastBelow
      <4>1. <<lo, mid, spent + 1>> \in P
        BY <3>1, <3>4 DEF Halved
      <4>2. b <= mid
        BY <1>2, <2>2, <2>3, <4>1
      <4>3. found <= lo'
        BY <2>1, <2>2, <2>3, <3>4, <4>2
      <4>. QED
        BY <2>1, <4>3 DEF Beyond
    <3>. QED
      BY <3>2, <3>3, <3>4
  <2>6. CASE lo = 0 /\ spent = 0 /\ Past(H)
    <3>1. PICK h \in Nat : H <= h /\ hi = 2 * h /\ h \notin Below
      BY <2>6 DEF Past
    <3>2. mid = h
      BY <2>6, <3>1
    <3>3. lo' = h
      BY <2>1, <3>1, <3>2
    <3>4. found <= H
      BY <2>3
    <3>5. found <= lo'
      BY <3>1, <3>3, <3>4
    <3>. QED
      BY <2>1, <3>5 DEF Beyond
  <2>. QED
    BY <2>1, <2>4, <2>5, <2>6 DEF Beyond
<1>9. CASE HalveCap
  BY <1>9 DEF HalveCap, Halve, Beyond
<1>10. CASE Stopped
  BY <1>1, <1>10 DEF Stopped, solver, bracket, Beyond, Past
<1>. QED
  BY <1>3, <1>4, <1>5, <1>6, <1>7, <1>8, <1>9, <1>10 DEF SolverNext

\* A call that follows one that ran dry widens over the same edges and runs dry.
LEMMA CapFollowed ==
    ASSUME DepthInv, SolverNext, UNCHANGED curve, curve # <<>>, Len(curve) < Len(pool.below),
           AfterCap(LastBelow)
    PROVE  AfterCap(LastBelow)'
<1>1. pool' = pool /\ LastBelow' = LastBelow /\ Below \subseteq LastBelow
  <2>1. Below \subseteq LastBelow
    BY BelowNested DEF DepthInv
  <2>. QED
    BY <2>1 DEF SolverNext, Widen, RunDry, Bracketed, NothingSells, Bisect, HalvePrice, HalveCap,
                Halve, MeetBound, MeetCap, Stopped, solver, Answer, Goto, LastBelow
<1>2. PICK H \in Nat, W \in SUBSET Nat :
          /\ Capped(LastBelow, H, W)
          /\ phase \notin {"floor", "bisect"} /\ (phase = "widen" => hi \in W)
  BY DEF AfterCap
<1>3. Capped(LastBelow, H, W)'
  BY <1>1, <1>2 DEF Capped
<1>4. phase' \notin {"floor", "bisect"} /\ (phase' = "widen" => hi' \in W)
  <2>1. CASE phase = "widen"
    <3>1. hi \in W /\ (hi = H \/ (hi \notin LastBelow \cup pool.drained /\ 2 * hi \in W))
      BY <1>2, <2>1 DEF Capped, Doubled
    <3>2. hi \notin Below
      BY <1>1, <1>2, <3>1 DEF Capped
    <3>3. Widen \/ RunDry \/ Stopped
      BY <2>1, <3>2 DEF SolverNext, Bracketed, NothingSells, Bisect, HalvePrice, HalveCap, MeetBound, MeetCap
    <3>4. CASE Widen
      <4>1. hi # H /\ hi' = 2 * hi /\ phase' \in {"widen", "raised"}
        BY <1>2, <3>4 DEF Widen, Goto, Capped
      <4>. QED
        BY <3>1, <4>1
    <3>. QED
      BY <2>1, <3>3, <3>4 DEF RunDry, Goto, Stopped
  <2>2. CASE phase # "widen"
    <3>1. ~MeetCap
      <4>1. curve \in Seq(DepthRecords)
        BY DEF DepthInv, SolverTypes
      <4>2. \A e : Append(curve, e) # curve
        BY <4>1
      <4>. QED
        BY <4>2 DEF MeetCap, Answer
    <3>2. HalveCap \/ Stopped
      BY <1>2, <2>2, <3>1 DEF SolverNext, Widen, RunDry, Bracketed, NothingSells, Bisect, HalvePrice, MeetBound
    <3>. QED
      BY <1>2, <2>2, <3>2 DEF HalveCap, Halve, Stopped, solver
  <2>. QED
    BY <2>1, <2>2
<1>. QED
  BY <1>3, <1>4 DEF AfterCap

\* What an answer has to say of the call it ends and of the one before.
Supported(kind, size) ==
    /\ kind = "zero" => size = 0
    /\ kind = "bound" =>
          \E H \in Nat, W \in SUBSET Nat, P \in Brackets, b \in Nat, n \in Nat :
              Bounded(size, Below, H, W, P, b, n)
    /\ kind = "cap" => \E H \in Nat, W \in SUBSET Nat : Capped(Below, H, W)
    /\ curve # <<>> /\ kind # "cap" => LastPoint.depth <= size

LEMMA AnswerRises ==
    ASSUME RiseInv, DepthInv', NEW kind \in {"zero", "bound", "cap"}, NEW size \in Nat,
           phase \notin {"done", "raised"}, Answer(kind, size), Supported(kind, size)
    PROVE  RiseInv'
<1>. DEFINE d == [kind |-> kind, depth |-> size, cut |-> spent = MaxIter]
<1>1. pool' = pool /\ curve' = Append(curve, d) /\ curve \in Seq(DepthRecords) /\ d \in DepthRecords
  BY DEF RiseInv, DepthInv, SolverTypes, Answer, DepthRecords
<1>2. pool.balance \in Nat /\ pool.drained \in SUBSET Nat
  BY DepthAssumption DEF RiseInv, DepthInv, SolverTypes
<1>3. hi' = 2 * pool.balance /\ spent' = 0 /\ phase' \in {"widen", "done"}
  BY DEF Answer, Opened
<1>4. /\ curve' # <<>> /\ Len(curve') = Len(curve) + 1
      /\ LastPoint' = d /\ LastBelow' = Below
  BY <1>1 DEF LastPoint, LastBelow, Below
<1>5. d.kind = kind /\ d.depth = size
  OBVIOUS
<1>. HIDE DEF d
<1>6. Current'
  <2>1. \A S : Doubled({2 * pool.balance}, pool.balance, 2 * pool.balance, S)
    BY <1>2 DEF Doubled
  <2>2. {2 * pool.balance} \in SUBSET Nat
    BY <1>2
  <2>. QED
    BY <1>1, <1>3, <2>1, <2>2 DEF Current
<1>7. kind = "bound" => AfterBound(LastPoint.depth, LastBelow)'
  <2>. SUFFICES ASSUME kind = "bound" PROVE AfterBound(LastPoint.depth, LastBelow)'
    OBVIOUS
  <2>1. PICK H \in Nat, W \in SUBSET Nat, P \in Brackets, b \in Nat, n \in Nat :
            Bounded(size, Below, H, W, P, b, n)
    BY DEF Supported
  <2>2. Bounded(LastPoint.depth, LastBelow, H, W, P, b, n)'
    BY <1>1, <1>4, <1>5, <2>1 DEF Bounded
  <2>3. hi' \in W
    BY <1>3, <2>1 DEF Bounded, Doubled
  <2>4. Beyond(H, W, P, LastPoint.depth)'
    BY <1>3, <2>3 DEF Beyond
  <2>. QED
    BY <2>2, <2>4 DEF AfterBound
<1>8. kind = "cap" => AfterCap(LastBelow)'
  <2>. SUFFICES ASSUME kind = "cap" PROVE AfterCap(LastBelow)'
    OBVIOUS
  <2>1. PICK H \in Nat, W \in SUBSET Nat : Capped(Below, H, W)
    BY DEF Supported
  <2>2. Capped(LastBelow, H, W)'
    BY <1>1, <1>4, <2>1 DEF Capped
  <2>3. hi' \in W
    BY <1>3, <2>1 DEF Capped, Doubled
  <2>. QED
    BY <1>3, <2>2, <2>3 DEF AfterCap
<1>9. Follows'
  BY <1>4, <1>5, <1>7, <1>8 DEF Follows, Supported
<1>10. CurveRises'
  <2>. SUFFICES ASSUME NEW k \in 1..(Len(curve') - 1), curve'[k + 1].kind # "cap"
               PROVE  curve'[k].depth <= curve'[k + 1].depth
    BY DEF CurveRises
  <2>1. CASE k = Len(curve)
    <3>1. curve # <<>> /\ curve'[k] = LastPoint /\ curve'[k + 1] = d
      BY <1>1, <1>4, <2>1 DEF LastPoint
    <3>. QED
      BY <1>5, <3>1 DEF Supported
  <2>2. CASE k # Len(curve)
    <3>1. /\ k \in 1..(Len(curve) - 1)
          /\ curve'[k] = curve[k] /\ curve'[k + 1] = curve[k + 1]
      BY <1>1, <1>4, <2>2
    <3>. QED
      BY <3>1 DEF RiseInv, CurveRises
  <2>. QED
    BY <2>1, <2>2
<1>. QED
  BY <1>6, <1>9, <1>10 DEF RiseInv

LEMMA RiseInit == SolverInit => RiseInv
<1>. SUFFICES ASSUME SolverInit PROVE RiseInv
  OBVIOUS
<1>1. pool.balance \in Nat
  BY DepthAssumption DEF SolverInit
<1>2. Current
  <2>1. Doubled({2 * pool.balance}, pool.balance, 2 * pool.balance, Stops)
    BY <1>1 DEF Doubled
  <2>2. {2 * pool.balance} \in SUBSET Nat
    BY <1>1
  <2>. QED
    BY <2>1, <2>2 DEF SolverInit, Current
<1>3. Follows /\ CurveRises
  BY DEF SolverInit, Follows, CurveRises
<1>. QED
  BY <1>2, <1>3, DepthInit DEF RiseInv

LEMMA LastTyped ==
    ASSUME SolverTypes, curve # <<>>
    PROVE  LastPoint.kind \in {"zero", "bound", "cap"} /\ LastPoint.depth \in Nat
<1>1. curve \in Seq(DepthRecords) /\ Len(curve) \in 1..Len(curve)
  BY DEF SolverTypes
<1>2. LastPoint \in DepthRecords
  BY <1>1 DEF LastPoint
<1>. QED
  BY <1>2 DEF DepthRecords

LEMMA RiseStep == RiseInv /\ [SolverNext]_solver => RiseInv'
<1>. SUFFICES ASSUME RiseInv, [SolverNext]_solver PROVE RiseInv'
  OBVIOUS
<1>1. DepthInv' /\ DepthInv
  BY DepthStep DEF RiseInv
<1>2. /\ curve \in Seq(DepthRecords) /\ lo \in Nat /\ hi \in Nat /\ spent \in Nat /\ lo <= hi
      /\ phase \notin {"done", "raised"} => Len(curve) < Len(pool.below)
  BY <1>1 DEF DepthInv, SolverTypes
<1>3. CASE UNCHANGED solver
  <2>1. UNCHANGED <<pool, curve, lo, hi, doublings, spent, phase>>
    BY <1>3 DEF solver, bracket
  <2>2. Current'
    BY <2>1 DEF RiseInv, Current, Stops, Below
  <2>3. Follows'
    <3>1. UNCHANGED <<LastPoint, LastBelow, Below>>
      BY <2>1 DEF LastPoint, LastBelow, Below
    <3>2. \A H, W, P, x : Beyond(H, W, P, x)' <=> Beyond(H, W, P, x)
      BY <2>1, <3>1 DEF Beyond, Past
    <3>3. AfterBound(LastPoint.depth, LastBelow) => AfterBound(LastPoint.depth, LastBelow)'
      BY <2>1, <3>1, <3>2 DEF AfterBound, Bounded
    <3>4. AfterCap(LastBelow) => AfterCap(LastBelow)'
      BY <2>1, <3>1 DEF AfterCap, Capped
    <3>. QED
      BY <2>1, <3>1, <3>3, <3>4 DEF RiseInv, Follows
  <2>. QED
    BY <1>1, <2>1, <2>2, <2>3 DEF RiseInv, CurveRises
<1>4. CASE SolverNext /\ UNCHANGED curve
  <2>1. Current'
    BY <1>1, <1>4, CurrentStep DEF RiseInv
  <2>2. UNCHANGED <<LastPoint, LastBelow, pool>>
    BY <1>4 DEF SolverNext, Widen, RunDry, Bracketed, NothingSells, Bisect, HalvePrice, HalveCap, Halve,
                MeetBound, MeetCap, Stopped, solver, Answer, Goto, LastPoint, LastBelow
  <2>3. CASE phase \in {"done", "raised"}
    <3>1. UNCHANGED solver
      BY <1>4, <2>3 DEF SolverNext, Widen, RunDry, Bracketed, NothingSells, Bisect, HalvePrice, HalveCap,
                        MeetBound, MeetCap, Stopped
    <3>. QED
      BY <1>3, <3>1
  <2>4. CASE phase \notin {"done", "raised"}
    <3>1. Follows'
      <4>. SUFFICES ASSUME curve # <<>>
                    PROVE  /\ LastPoint.kind = "zero" => LastPoint.depth = 0
                           /\ LastPoint.kind = "bound" => AfterBound(LastPoint.depth, LastBelow)'
                           /\ LastPoint.kind = "cap" => AfterCap(LastBelow)'
        BY <1>4, <2>2 DEF Follows
      <4>0. /\ LastPoint.kind = "zero" => LastPoint.depth = 0
            /\ LastPoint.kind = "bound" => AfterBound(LastPoint.depth, LastBelow)
            /\ LastPoint.kind = "cap" => AfterCap(LastBelow)
        BY DEF RiseInv, Follows
      <4>1. LastPoint.depth \in Nat
        BY <1>1, LastTyped DEF DepthInv
      <4>2. ASSUME LastPoint.kind = "bound" PROVE AfterBound(LastPoint.depth, LastBelow)'
        <5>1. PICK H \in Nat, W \in SUBSET Nat, P \in Brackets, b \in Nat, n \in Nat :
                  Bounded(LastPoint.depth, LastBelow, H, W, P, b, n) /\ Beyond(H, W, P, LastPoint.depth)
          BY <4>0, <4>2 DEF AfterBound
        <5>2. \A found \in Nat : Bounded(found, LastBelow, H, W, P, b, n) /\ Beyond(H, W, P, found)
                                    => Beyond(H, W, P, found)'
          BY <1>1, <1>2, <1>4, <2>4, BoundFollowed DEF RiseInv
        <5>3. Beyond(H, W, P, LastPoint.depth)'
          BY <2>2, <4>1, <5>1, <5>2 DEF Beyond
        <5>4. Bounded(LastPoint.depth, LastBelow, H, W, P, b, n)'
          BY <2>2, <5>1 DEF Bounded
        <5>. QED
          BY <5>3, <5>4 DEF AfterBound
      <4>3. ASSUME LastPoint.kind = "cap" PROVE AfterCap(LastBelow)'
        BY <1>1, <1>2, <1>4, <2>4, <4>0, <4>3, CapFollowed
      <4>. QED
        BY <4>0, <4>2, <4>3
    <3>2. CurveRises'
      BY <1>4 DEF RiseInv, CurveRises
    <3>. QED
      BY <1>1, <2>1, <3>1, <3>2 DEF RiseInv
  <2>. QED
    BY <2>3, <2>4
<1>5. CASE NothingSells
  <2>1. phase = "floor" /\ lo = 0 /\ 0 \in Below /\ Answer("zero", 0)
    BY <1>1, <1>5 DEF NothingSells, DepthInv, Ends
  <2>2. curve # <<>> => LastPoint.depth <= 0
    <3>. SUFFICES ASSUME curve # <<>> PROVE LastPoint.depth <= 0
      OBVIOUS
    <3>1. LastPoint.kind \in {"zero", "bound", "cap"}
      BY <1>1, LastTyped DEF DepthInv
    <3>2. Below \subseteq LastBelow
      BY <1>1, <1>2, <2>1, BelowNested DEF DepthInv
    <3>3. LastPoint.kind # "bound"
      BY <2>1, <3>2 DEF RiseInv, Follows, AfterBound, Bounded
    <3>4. LastPoint.kind # "cap"
      BY <2>1 DEF RiseInv, Follows, AfterCap
    <3>. QED
      BY <3>1, <3>3, <3>4 DEF RiseInv, Follows
  <2>3. Supported("zero", 0)
    BY <2>2 DEF Supported
  <2>. QED
    BY <1>1, <2>1, <2>3, AnswerRises
<1>6. CASE MeetBound
  <2>1. phase = "bisect" /\ Narrow(lo, hi, spent) /\ Answer("bound", lo)
    BY <1>6 DEF MeetBound, Close, Narrow, Inner
  <2>2. \E H \in Nat, W \in SUBSET Nat, P \in Brackets, b \in Nat, n \in Nat :
            Bounded(lo, Below, H, W, P, b, n)
    <3>1. PICK H \in Nat, W \in SUBSET Nat, P \in Brackets :
              /\ Doubled(W, pool.balance, H, Stops) /\ H \in Below /\ 0 \notin Below
              /\ Trail(P, H, Below, lo, hi, spent)
      BY <2>1 DEF RiseInv, Current
    <3>2. Bounded(lo, Below, H, W, P, hi, spent)
      BY <2>1, <3>1 DEF Bounded, Stops
    <3>. QED
      BY <1>2, <3>2
  <2>3. curve # <<>> => LastPoint.depth <= lo
    <3>. SUFFICES ASSUME curve # <<>> PROVE LastPoint.depth <= lo
      OBVIOUS
    <3>1. LastPoint.kind \in {"zero", "bound", "cap"} /\ LastPoint.depth \in Nat
      BY <1>1, LastTyped DEF DepthInv
    <3>2. LastPoint.kind # "cap"
      BY <2>1 DEF RiseInv, Follows, AfterCap
    <3>3. CASE LastPoint.kind = "zero"
      BY <1>2, <3>3 DEF RiseInv, Follows
    <3>4. CASE LastPoint.kind = "bound"
      <4>1. PICK H \in Nat, W \in SUBSET Nat, P \in Brackets, b \in Nat, n \in Nat :
                Bounded(LastPoint.depth, LastBelow, H, W, P, b, n) /\ Beyond(H, W, P, LastPoint.depth)
        BY <3>4 DEF RiseInv, Follows, AfterBound
      <4>2. /\ <<0, H, 0>> \in P
            /\ \A x, y, i \in Nat :
                  <<x, y, i>> \in P =>
                      <<x, y, i>> = <<LastPoint.depth, b, n>> \/ ~Narrow(x, y, i)
        BY <4>1 DEF Bounded, Trail, Halved
      <4>3. CASE LastPoint.depth <= lo
        BY <4>3
      <4>4. CASE <<lo, hi, spent>> \in P
        <5>1. <<lo, hi, spent>> = <<LastPoint.depth, b, n>>
          BY <1>2, <2>1, <4>2, <4>4
        <5>2. lo = LastPoint.depth
          BY <5>1
        <5>. QED
          BY <1>2, <5>2
      <4>5. CASE lo = 0 /\ spent = 0 /\ Past(H)
        <5>1. H <= hi
          BY <1>2, <4>5 DEF Past
        <5>2. Narrow(0, H, 0)
          BY <1>2, <2>1, <4>5, <5>1, DepthAssumption DEF Narrow
        <5>3. <<0, H, 0>> = <<LastPoint.depth, b, n>>
          BY <4>2, <5>2
        <5>4. LastPoint.depth = 0
          BY <5>3
        <5>. QED
          BY <1>2, <5>4
      <4>. QED
        BY <2>1, <4>1, <4>3, <4>4, <4>5 DEF Beyond
    <3>. QED
      BY <3>1, <3>2, <3>3, <3>4
  <2>4. Supported("bound", lo)
    BY <2>2, <2>3 DEF Supported
  <2>. QED
    BY <1>1, <1>2, <2>1, <2>4, AnswerRises
<1>7. CASE MeetCap
  <2>1. phase = "cap" /\ Answer("cap", lo)
    BY <1>7 DEF MeetCap, Inner
  <2>2. \E H \in Nat, W \in SUBSET Nat : Capped(Below, H, W)
    BY <2>1 DEF RiseInv, Current, Capped, Stops
  <2>3. Supported("cap", lo)
    BY <2>2 DEF Supported
  <2>. QED
    BY <1>1, <1>2, <2>1, <2>3, AnswerRises
<1>8. NothingSells \/ MeetBound \/ MeetCap \/ UNCHANGED curve \/ UNCHANGED solver
  BY DEF SolverNext, Widen, RunDry, Bracketed, Bisect, HalvePrice, HalveCap, Halve, Stopped, solver, Goto
<1>. QED
  BY <1>3, <1>4, <1>5, <1>6, <1>7, <1>8

\* A wider bound is never answered with a smaller depth, for every pricing
\* function, tolerance and bound on the iterations, though each depth is only
\* known to the tolerance and from a bracket of its own; a depth the pool's
\* balance caps is left out (depth.py 291-332).
THEOREM CurvesRise == SolverSpec => []CurveRises
<1>1. RiseInv => CurveRises
  BY DEF RiseInv
<1>. QED
  BY <1>1, RiseInit, RiseStep, PTL DEF SolverSpec
-------------------------------------------------------------------------------
(***************************************************************************)
(* Cells: what a read that failed does to GHO's crash cells.  The rows are *)
(* worked in another order when a ratio falls, but each position's loss is *)
(* its own, so a cell's bad debt is a sum that no order changes; and a     *)
(* position that is read as less loses no less.                            *)
(***************************************************************************)
Ratios == Nat \X (Nat \ {0})

\* A ratio of numbers is a ratio.
LEMMA OverType ==
    \A n, d \in Nat : Over(n, d) \in Ratios
  BY DEF Over, Ratios

\* Lower on ratios is transitive, and so is its negation.
LEMMA RatiosOrdered ==
    ASSUME NEW p \in Ratios, NEW q \in Ratios, NEW r \in Ratios
    PROVE  /\ ~Lower(p, p)
           /\ Lower(p, q) => ~Lower(q, p)
           /\ ~Lower(q, p) /\ ~Lower(r, q) => ~Lower(r, p)
           /\ Lower(p, q) /\ ~Lower(r, q) => Lower(p, r)
           /\ ~Lower(q, p) /\ Lower(q, r) => Lower(p, r)
  <1> DEFINE a == p[1]  b == p[2]  c == q[1]  d == q[2]  e == r[1]  f == r[2]
  <1>1. a \in Nat /\ c \in Nat /\ e \in Nat /\ b \in Nat \ {0} /\ d \in Nat \ {0} /\ f \in Nat \ {0}
    BY DEF Ratios
  <1> DEFINE ad == a * d  cb == c * b  cf == c * f  ed == e * d  af == a * f  eb == e * b
  <1>2. ad \in Nat /\ cb \in Nat /\ cf \in Nat /\ ed \in Nat /\ af \in Nat /\ eb \in Nat
    BY <1>1
  <1>3. /\ Lower(p, q) <=> ad < cb
        /\ Lower(q, p) <=> cb < ad
        /\ Lower(q, r) <=> cf < ed
        /\ Lower(r, q) <=> ed < cf
        /\ Lower(p, r) <=> af < eb
        /\ Lower(r, p) <=> eb < af
        /\ ~Lower(p, p)
    BY <1>1 DEF Lower
  <1>4. ad * f = d * af /\ cb * f = cf * b /\ ed * b = d * eb
    BY <1>1
  <1> HIDE DEF a, b, c, d, e, f
  <1>5. \A x, y \in Nat, k \in Nat \ {0} : /\ x <= y => x * k <= y * k
                                           /\ x < y => x * k < y * k
    <2> SUFFICES ASSUME NEW x \in Nat, NEW y \in Nat, NEW k \in Nat \ {0}
                 PROVE  /\ x <= y => x * k <= y * k
                        /\ x < y => x * k < y * k
      OBVIOUS
    <2>1. x <= y => (y - x) * k >= 0
      OBVIOUS
    <2>2. x < y => (y - x) * k >= k
      <3> SUFFICES ASSUME x < y PROVE (y - x) * k >= k
        OBVIOUS
      <3>1. y - x - 1 \in Nat /\ (y - x - 1) * k >= 0 /\ (y - x) * k = (y - x - 1) * k + k
        OBVIOUS
      <3> QED BY <3>1
    <2>3. (y - x) * k = y * k - x * k /\ x * k \in Nat /\ y * k \in Nat
      OBVIOUS
    <2> QED BY <2>1, <2>2, <2>3
  <1>6. \A x, y \in Nat, k \in Nat \ {0} : k * x <= k * y => x <= y
    <2>1. \A x, y \in Nat, k \in Nat \ {0} : k * x = x * k
      OBVIOUS
    <2>2. \A x, y \in Nat, k \in Nat \ {0} : x * k \in Nat
      OBVIOUS
    <2> QED BY <1>5, <2>1, <2>2
  <1>7. \A x, y \in Nat, k \in Nat \ {0} : k * x < k * y => x < y
    <2>1. \A x, y \in Nat, k \in Nat \ {0} : k * x = x * k
      OBVIOUS
    <2>2. \A x, y \in Nat, k \in Nat \ {0} : x * k \in Nat
      OBVIOUS
    <2> QED BY <1>5, <2>1, <2>2
  <1> HIDE DEF ad, cb, cf, ed, af, eb
  <1>8. /\ ad * f \in Nat /\ cb * f \in Nat /\ cf * b \in Nat /\ ed * b \in Nat
        /\ d * af \in Nat /\ d * eb \in Nat
    BY <1>1, <1>2
  <1>9. /\ ad <= cb => ad * f <= cb * f
        /\ ad < cb => ad * f < cb * f
        /\ cf <= ed => cf * b <= ed * b
        /\ cf < ed => cf * b < ed * b
    BY <1>1, <1>2, <1>5
  <1>10. /\ d * af <= d * eb => af <= eb
         /\ d * af < d * eb => af < eb
    BY <1>1, <1>2, <1>6, <1>7
  <1> QED BY <1>2, <1>3, <1>4, <1>8, <1>9, <1>10

\* The rows of n positions.
RowsOf(rows, n) == \A i \in 1 .. n : rows[i].cr \in Ratios

\* The order of the rows is total and strict.
LEMMA BeforeOrders ==
    ASSUME NEW n \in Nat, NEW rows, RowsOf(rows, n),
           NEW i \in 1 .. n, NEW j \in 1 .. n, NEW k \in 1 .. n
    PROVE  /\ ~Before(rows, i, i)
           /\ i # j => Before(rows, i, j) \/ Before(rows, j, i)
           /\ Before(rows, i, j) /\ Before(rows, j, k) => Before(rows, i, k)
  <1> DEFINE p == rows[i].cr  q == rows[j].cr  r == rows[k].cr
  <1>1. p \in Ratios /\ q \in Ratios /\ r \in Ratios
    BY DEF RowsOf
  <1>2. /\ Before(rows, i, i) <=> Lower(p, p)
        /\ Before(rows, i, j) <=> Lower(p, q) \/ (~Lower(q, p) /\ i < j)
        /\ Before(rows, j, i) <=> Lower(q, p) \/ (~Lower(p, q) /\ j < i)
        /\ Before(rows, j, k) <=> Lower(q, r) \/ (~Lower(r, q) /\ j < k)
        /\ Before(rows, i, k) <=> Lower(p, r) \/ (~Lower(r, p) /\ i < k)
    BY DEF Before
  <1> HIDE DEF p, q, r
  <1>3. ~Lower(p, p)
    BY <1>1, RatiosOrdered
  <1>4. /\ ~Lower(q, p) /\ ~Lower(r, q) => ~Lower(r, p)
        /\ Lower(p, q) /\ ~Lower(r, q) => Lower(p, r)
        /\ ~Lower(q, p) /\ Lower(q, r) => Lower(p, r)
        /\ Lower(p, q) => ~Lower(q, p)
        /\ Lower(q, r) => ~Lower(r, q)
    BY <1>1, RatiosOrdered
  <1>5. i \in Int /\ j \in Int /\ k \in Int
    OBVIOUS
  <1>6. i < j /\ j < k => i < k
    BY <1>5
  <1>7. i # j => i < j \/ j < i
    BY <1>5
  <1>8. ~Before(rows, i, i)
    BY <1>2, <1>3
  <1>9. i # j => Before(rows, i, j) \/ Before(rows, j, i)
    BY <1>2, <1>4, <1>7
  <1>10. Before(rows, i, j) /\ Before(rows, j, k) => Before(rows, i, k)
    BY <1>2, <1>4, <1>6
  <1> QED BY <1>8, <1>9, <1>10

\* How many rows come before one.
Rank(rows, n, i) == Cardinality({j \in 1 .. n : Before(rows, j, i)})

\* No two rows have as many before them.
LEMMA RanksDiffer ==
    ASSUME NEW n \in Nat, NEW rows, RowsOf(rows, n)
    PROVE  /\ \A i \in 1 .. n : Rank(rows, n, i) \in 0 .. (n - 1)
           /\ \A i, j \in 1 .. n : Rank(rows, n, i) = Rank(rows, n, j) => i = j
  <1> DEFINE Preceding(i) == {j \in 1 .. n : Before(rows, j, i)}
  <1>1. IsFiniteSet(1 .. n) /\ Cardinality(1 .. n) = n
    BY FS_Interval
  <1>2. \A i \in 1 .. n : IsFiniteSet(Preceding(i)) /\ Cardinality(Preceding(i)) \in Nat
    <2> SUFFICES ASSUME NEW i \in 1 .. n
                 PROVE  IsFiniteSet(Preceding(i)) /\ Cardinality(Preceding(i)) \in Nat
      OBVIOUS
    <2>1. Preceding(i) \in SUBSET (1 .. n)
      OBVIOUS
    <2>2. IsFiniteSet(Preceding(i))
      BY <1>1, <2>1, FS_Subset
    <2> QED BY <2>2, FS_CardinalityType
  <1>3. \A i \in 1 .. n : Rank(rows, n, i) = Cardinality(Preceding(i))
    BY DEF Rank
  <1>4. ASSUME NEW i \in 1 .. n
        PROVE  Cardinality(Preceding(i)) < n
    <2>1. Preceding(i) \in SUBSET (1 .. n) /\ i \notin Preceding(i)
      BY BeforeOrders
    <2>2. Cardinality(Preceding(i)) <= n /\ (Cardinality(Preceding(i)) = n => Preceding(i) = 1 .. n)
      BY <1>1, <2>1, FS_Subset
    <2> QED BY <1>2, <2>1, <2>2
  <1>5. ASSUME NEW i \in 1 .. n, NEW j \in 1 .. n, Before(rows, i, j)
        PROVE  Cardinality(Preceding(i)) # Cardinality(Preceding(j))
    <2>1. i \in Preceding(j) /\ i \notin Preceding(i)
      BY <1>5, BeforeOrders
    <2>2. Preceding(i) \in SUBSET Preceding(j)
      BY <1>5, BeforeOrders
    <2>3. IsFiniteSet(Preceding(j))
      BY <1>2
    <2>4. Cardinality(Preceding(i)) = Cardinality(Preceding(j)) => Preceding(i) = Preceding(j)
      BY <2>2, <2>3, FS_Subset
    <2> QED BY <2>1, <2>4
  <1>6. \A i, j \in 1 .. n : i # j => Before(rows, i, j) \/ Before(rows, j, i)
    BY BeforeOrders
  <1> HIDE DEF Preceding
  <1>7. \A i, j \in 1 .. n : Cardinality(Preceding(i)) = Cardinality(Preceding(j)) => i = j
    BY <1>5, <1>6
  <1> QED BY <1>2, <1>3, <1>4, <1>7

\* The order is one: every row has its place and every place its row.
LEMMA AscendingPermutes ==
    ASSUME NEW n \in Nat, NEW rows, DOMAIN rows = 1 .. n, RowsOf(rows, n)
    PROVE  /\ Ascending(rows) \in [1 .. n -> 1 .. n]
           /\ \A k, l \in 1 .. n : Ascending(rows)[k] = Ascending(rows)[l] => k = l
           /\ \A i \in 1 .. n : \E k \in 1 .. n : Ascending(rows)[k] = i
  <1> DEFINE m == [i \in 1 .. n |-> Rank(rows, n, i) + 1]
  <1>1. \A i \in 1 .. n : Rank(rows, n, i) \in 0 .. (n - 1)
    BY RanksDiffer
  <1>2. \A i, j \in 1 .. n : Rank(rows, n, i) = Rank(rows, n, j) => i = j
    BY RanksDiffer
  <1>3. m \in Injection(1 .. n, 1 .. n)
    <2>1. m \in [1 .. n -> 1 .. n]
      BY <1>1
    <2>2. \A i, j \in 1 .. n : m[i] = m[j] => i = j
      BY <1>1, <1>2
    <2> HIDE DEF m
    <2> QED BY <2>1, <2>2 DEF Injection, IsInjective
  <1>4. IsFiniteSet(1 .. n)
    BY FS_Interval
  <1>5. m \in Surjection(1 .. n, 1 .. n)
    BY <1>3, <1>4, FS_Injection
  <1>6. \A k \in 1 .. n : \E i \in 1 .. n : m[i] = k
    BY <1>5 DEF Surjection
  <1>7. ASSUME NEW k \in 1 .. n PROVE \E i \in 1 .. n : Rank(rows, n, i) = k - 1
    <2>1. PICK i \in 1 .. n : Rank(rows, n, i) + 1 = k
      BY <1>6
    <2>2. Rank(rows, n, i) \in Int
      BY <1>1
    <2> QED BY <2>1, <2>2
  <1> DEFINE s == Ascending(rows)
  <1>8. s = [k \in 1 .. n |-> CHOOSE i \in 1 .. n : Rank(rows, n, i) = k - 1]
    BY DEF Ascending, Rank
  <1>9. \A k \in 1 .. n : s[k] \in 1 .. n /\ Rank(rows, n, s[k]) = k - 1
    BY <1>7, <1>8
  <1>10. s \in [1 .. n -> 1 .. n]
    BY <1>8, <1>9
  <1> HIDE DEF s
  <1>11. \A k, l \in 1 .. n : s[k] = s[l] => k = l
    BY <1>9
  <1>12. \A i \in 1 .. n : \E k \in 1 .. n : s[k] = i
    <2> SUFFICES ASSUME NEW i \in 1 .. n PROVE \E k \in 1 .. n : s[k] = i
      OBVIOUS
    <2>1. Rank(rows, n, i) + 1 \in 1 .. n
      BY <1>1
    <2>2. Rank(rows, n, s[Rank(rows, n, i) + 1]) = Rank(rows, n, i)
      BY <1>1, <1>9, <2>1
    <2> QED BY <1>2, <1>9, <2>1, <2>2
  <1> QED BY <1>10, <1>11, <1>12 DEF s

\* A sum in another order.
LEMMA TotalPermuted ==
    ASSUME NEW n \in Nat, NEW s \in [1 .. n -> 1 .. n],
           \A k, l \in 1 .. n : s[k] = s[l] => k = l,
           \A i \in 1 .. n : \E k \in 1 .. n : s[k] = i,
           NEW f, \A i \in 1 .. n : f[i] \in Nat
    PROVE  Total([k \in 1 .. n |-> f[s[k]]], 1 .. n) = Total(f, 1 .. n)
  <1> DEFINE D == 1 .. n
             g == [k \in D |-> f[s[k]]]
             m == [i \in D |-> CHOOSE k \in D : s[k] = i]
  <1>1. IsFiniteSet(D)
    BY FS_Interval
  <1>2. \A k \in D : g[k] = f[s[k]] /\ g[k] \in Nat
    OBVIOUS
  <1>3. \A i \in D : m[i] \in D /\ s[m[i]] = i
    OBVIOUS
  <1>4. m \in [D -> D]
    BY <1>3
  <1>5. s \in [D -> D] /\ (\A k, l \in D : s[k] = s[l] => k = l) /\ \A i \in D : f[i] \in Nat
    OBVIOUS
  <1> HIDE DEF D, g, m
  <1>6. Total(g, D) \in Nat /\ Total(f, D) \in Nat
    BY <1>1, <1>2, <1>5, TotalFirst
  <1>7. \A k \in D : g[k] <= f[s[k]]
    BY <1>2
  <1>8. ASSUME NEW i \in D PROVE f[i] <= g[m[i]]
    <2>1. m[i] \in D /\ s[m[i]] = i
      BY <1>3
    <2>2. g[m[i]] = f[i] /\ f[i] \in Nat
      BY <1>2, <1>5, <2>1
    <2> QED BY <2>2
  <1>9. \A i, j \in D : m[i] = m[j] => i = j
    BY <1>3
  <1>10. Total(g, D) <= Total(f, D)
    BY <1>1, <1>2, <1>5, <1>7, TotalInjection
  <1>11. Total(f, D) <= Total(g, D)
    BY <1>1, <1>2, <1>4, <1>5, <1>8, <1>9, TotalInjection
  <1>12. Total(g, D) = Total(f, D)
    BY <1>6, <1>10, <1>11
  <1> QED BY <1>12 DEF g, D

\* What a position that falls below 1 leaves to GHO.
Loss(positions, rows, i) ==
    IF Lower(rows[i].cr, <<1, 1>>) THEN GhoPart(positions[i], Short(positions[i], rows[i])) ELSE 0

\* f is what the rows lose, taken in the order q.
Losses(f, positions, rows, q, n) ==
    \A k \in 1 .. n : f[k] = Loss(positions, rows, q[k]) /\ f[k] \in Nat

\* crash_path's pass over the rows numbered by q.
Pass(positions, rows, base, q) ==
    FoldLeft(LAMBDA s, i : Liquidate(positions, rows, s, i), base, q)

Passes(positions, rows, base, q, D, h) ==
    h = [s \in D |-> IF s = {} THEN base
                     ELSE Liquidate(positions, rows, h[s \ {Max(s)}], q[Max(s)])]

\* The pass, as the fold defines it.
LEMMA PassIs ==
    ASSUME NEW positions, NEW rows, NEW base, NEW q
    PROVE  Pass(positions, rows, base, q)
              = (CHOOSE h : Passes(positions, rows, base, q, SUBSET DOMAIN q, h))[DOMAIN q]
  BY DEF Pass, FoldLeft, MapThenFoldSet, Passes

\* A fold over a sequence of any length has its function.
LEMMA PassesExist ==
    ASSUME NEW positions, NEW rows, NEW base, NEW q, NEW n \in Nat
    PROVE  \E h : Passes(positions, rows, base, q, SUBSET (1 .. n), h)
  <1> DEFINE Does(x, i) == Liquidate(positions, rows, x, i)
             Has(k) == \E h : Passes(positions, rows, base, q, SUBSET (1 .. k), h)
             B == {k \in Nat : ~Has(k)}
  <1>1. \A k \in B : k # 0
    <2> DEFINE g == [s \in SUBSET (1 .. 0) |-> IF s = {} THEN base ELSE Does(base, q[Max(s)])]
    <2>1. \A s \in SUBSET (1 .. 0) : s = {}
      OBVIOUS
    <2>2. Passes(positions, rows, base, q, SUBSET (1 .. 0), g)
      BY <2>1 DEF Passes
    <2>3. Has(0)
      BY <2>2
    <2> QED BY <2>3
  <1>2. ASSUME NEW k \in Nat \ {0}, Has(k - 1)
        PROVE  Has(k)
    <2>1. PICK h : Passes(positions, rows, base, q, SUBSET (1 .. (k - 1)), h)
      BY <1>2
    <2> DEFINE g == [s \in SUBSET (1 .. k) |->
                        IF k \in s THEN Does(h[s \ {k}], q[k]) ELSE h[s]]
    <2>2. \A s \in SUBSET (1 .. k) : s \ {k} \in SUBSET (1 .. (k - 1))
      OBVIOUS
    <2>3. \A s \in SUBSET (1 .. (k - 1)) : s \in SUBSET (1 .. k) /\ k \notin s
      OBVIOUS
    <2>4. \A s \in SUBSET (1 .. (k - 1)) : g[s] = h[s]
      BY <2>3
    <2>5. \A s \in SUBSET (1 .. k) : k \in s => g[s] = Does(h[s \ {k}], q[k])
      OBVIOUS
    <2> HIDE DEF g
    <2>6. ASSUME NEW s \in SUBSET (1 .. k)
          PROVE  g[s] = IF s = {} THEN base ELSE Does(g[s \ {Max(s)}], q[Max(s)])
      <3>1. CASE k \in s
        <4>1. Max(s) = k
          BY <3>1, LargestUpTo
        <4>2. g[s \ {k}] = h[s \ {k}]
          BY <2>2, <2>4
        <4> HIDE DEF Does
        <4> QED BY <2>5, <3>1, <4>1, <4>2
      <3>2. CASE k \notin s
        <4>1. s \in SUBSET (1 .. (k - 1))
          BY <2>2, <3>2
        <4>2. s \ {Max(s)} \in SUBSET (1 .. (k - 1))
          BY <4>1
        <4>3. h[s] = IF s = {} THEN base ELSE Does(h[s \ {Max(s)}], q[Max(s)])
          BY <2>1, <4>1 DEF Passes
        <4> HIDE DEF Does
        <4> QED BY <2>4, <4>1, <4>2, <4>3
      <3> QED BY <3>1, <3>2
    <2>7. DOMAIN g = SUBSET (1 .. k) /\ g = [s \in SUBSET (1 .. k) |-> g[s]]
      BY DEF g
    <2>8. g = [s \in SUBSET (1 .. k) |->
                  IF s = {} THEN base ELSE Does(g[s \ {Max(s)}], q[Max(s)])]
      <3> HIDE DEF Does
      <3> QED BY <2>6, <2>7
    <2>9. Passes(positions, rows, base, q, SUBSET (1 .. k), g)
      BY <2>8 DEF Passes
    <2> QED BY <2>9
  <1> HIDE DEF Has
  <1>3. \A k \in B : k # 0 /\ k - 1 \in B
    BY <1>1, <1>2
  <1>4. B = {}
    BY <1>3, NoneOf
  <1> QED BY <1>4 DEF Has

\* The last term of a sum.
LEMMA TotalUpTo ==
    ASSUME NEW n \in Nat \ {0}, NEW f, \A k \in 1 .. n : f[k] \in Nat
    PROVE  Total(f, 1 .. n) = f[n] + Total(f, 1 .. (n - 1))
  <1>1. IsFiniteSet(1 .. n)
    BY FS_Interval
  <1>2. n \in 1 .. n /\ (1 .. n) \ {n} = 1 .. (n - 1)
    OBVIOUS
  <1>3. \A k \in 1 .. n : f[k] \in Int
    OBVIOUS
  <1>4. Total(f, 1 .. n) = f[n] + Total(f, (1 .. n) \ {n})
    BY <1>1, <1>2, <1>3, TotalAdd
  <1> QED BY <1>2, <1>4

\* The bad debt of a pass is the sum of the losses, whatever the capacity.
LEMMA PassSums ==
    ASSUME NEW n \in Nat, NEW positions, NEW rows, NEW q \in [1 .. n -> 1 .. n], NEW f, NEW base,
           Losses(f, positions, rows, q, n), base.bad = 0
    PROVE  Pass(positions, rows, base, q).bad = Total(f, 1 .. n)
  <1> DEFINE h == CHOOSE g : Passes(positions, rows, base, q, SUBSET (1 .. n), g)
  <1>1. Passes(positions, rows, base, q, SUBSET (1 .. n), h)
    BY PassesExist
  <1>2. Pass(positions, rows, base, q) = h[1 .. n]
    <2>1. DOMAIN q = 1 .. n
      OBVIOUS
    <2> QED BY <2>1, PassIs
  <1>3. base.bad = 0
    OBVIOUS
  <1> HIDE DEF h
  <1>4. \A k \in 1 .. n : f[k] = Loss(positions, rows, q[k]) /\ f[k] \in Nat
    BY DEF Losses
  <1>5. \A k \in 0 .. n : IsFiniteSet(1 .. k) /\ Total(f, 1 .. k) \in Nat
    <2> SUFFICES ASSUME NEW k \in 0 .. n PROVE IsFiniteSet(1 .. k) /\ Total(f, 1 .. k) \in Nat
      OBVIOUS
    <2>1. IsFiniteSet(1 .. k)
      BY FS_Interval
    <2>2. \A x \in 1 .. k : x \in 1 .. n
      OBVIOUS
    <2>3. \A x \in 1 .. k : f[x] \in Nat
      BY <1>4, <2>2
    <2> QED BY <2>1, <2>3, TotalFirst
  <1>6. h[1 .. 0].bad = Total(f, 1 .. 0)
    <2>1. 1 .. 0 = {} /\ 1 .. 0 \in SUBSET (1 .. n)
      OBVIOUS
    <2>2. h[1 .. 0] = base
      BY <1>1, <2>1 DEF Passes
    <2>3. Total(f, {}) = 0
      BY FS_EmptySet, TotalStep
    <2> QED BY <1>3, <2>1, <2>2, <2>3
  <1>7. ASSUME NEW k \in 1 .. n, h[1 .. (k - 1)].bad = Total(f, 1 .. (k - 1))
        PROVE  h[1 .. k].bad = Total(f, 1 .. k)
    <2>1. k \in Nat \ {0} /\ k <= n /\ k \in 1 .. k
      OBVIOUS
    <2>2. 1 .. k \in SUBSET (1 .. n) /\ 1 .. k # {} /\ (1 .. k) \ {k} = 1 .. (k - 1)
      <3>1. \A x \in 1 .. k : x \in 1 .. n
        BY <2>1
      <3>2. \A x \in (1 .. k) \ {k} : x \in 1 .. (k - 1)
        BY <2>1
      <3>3. \A x \in 1 .. (k - 1) : x \in (1 .. k) \ {k}
        BY <2>1
      <3>4. (1 .. k) \ {k} = 1 .. (k - 1)
        BY <3>2, <3>3, Zenon
      <3> QED BY <2>1, <3>1, <3>4, Zenon
    <2>3. Max(1 .. k) = k
      BY <2>1, LargestUpTo
    <2>4. h[1 .. k] = Liquidate(positions, rows, h[1 .. (k - 1)], q[k])
      BY <1>1, <2>2, <2>3 DEF Passes
    <2>5. Total(f, 1 .. (k - 1)) \in Nat
      BY <1>5
    <2>6. h[1 .. k].bad = h[1 .. (k - 1)].bad + Loss(positions, rows, q[k])
      BY <1>7, <2>4, <2>5 DEF Liquidate, Loss
    <2>7. Total(f, 1 .. k) = f[k] + Total(f, 1 .. (k - 1))
      <3>1. \A x \in 1 .. k : f[x] \in Nat
        <4>1. \A x \in 1 .. k : x \in 1 .. n
          BY <2>2, Zenon
        <4> QED BY <1>4, <4>1
      <3> QED BY <2>1, <3>1, TotalUpTo
    <2>8. f[k] = Loss(positions, rows, q[k]) /\ f[k] \in Nat
      BY <1>4
    <2> QED BY <1>7, <2>5, <2>6, <2>7, <2>8
  <1> DEFINE Wrong == {k \in 0 .. n : h[1 .. k].bad # Total(f, 1 .. k)}
  <1>8. ASSUME NEW k \in Wrong PROVE k # 0 /\ k - 1 \in Wrong
    <2>1. k \in 0 .. n /\ h[1 .. k].bad # Total(f, 1 .. k)
      OBVIOUS
    <2>2. k \in 1 .. n /\ k - 1 \in 0 .. n
      <3>1. k # 0
        BY <1>6, <2>1
      <3> QED BY <2>1, <3>1
    <2>3. h[1 .. (k - 1)].bad # Total(f, 1 .. (k - 1))
      BY <1>7, <2>1, <2>2
    <2> QED BY <2>2, <2>3
  <1>9. Wrong = {}
    <2>1. Wrong \subseteq Nat
      OBVIOUS
    <2> HIDE DEF Wrong
    <2> QED BY <1>8, <2>1, NoneOf
  <1>10. h[1 .. n].bad = Total(f, 1 .. n)
    <2>1. n \in 0 .. n
      OBVIOUS
    <2> QED BY <1>9, <2>1
  <1> QED BY <1>2, <1>10

\* A floored share of a number is a number, and of a larger one no less.
LEMMA DivisionKeepsOrder ==
    \A x, y \in Nat, d \in Nat \ {0} : x \div d \in Nat /\ (x <= y => x \div d <= y \div d)
  <1> SUFFICES ASSUME NEW x \in Nat, NEW y \in Nat, NEW d \in Nat \ {0}
               PROVE  x \div d \in Nat /\ (x <= y => x \div d <= y \div d)
    OBVIOUS
  <1> DEFINE v == x \div d  w == y \div d
  <1>1. v \in Nat /\ w \in Nat /\ x % d \in 0 .. (d - 1) /\ y % d \in 0 .. (d - 1)
    OBVIOUS
  <1>2. x = d * v + (x % d) /\ y = d * w + (y % d)
    OBVIOUS
  <1> HIDE DEF v, w
  <1>3. ASSUME x <= y, ~(v <= w) PROVE FALSE
    <2>1. v - w - 1 \in Nat
      BY <1>1, <1>3
    <2>2. d * (v - w - 1) \in Nat /\ d * v = d * w + d + d * (v - w - 1)
      BY <1>1, <2>1
    <2>3. d * v \in Nat /\ d * w \in Nat
      BY <1>1
    <2> QED BY <1>1, <1>2, <1>3, <2>2, <2>3
  <1> QED BY <1>1, <1>3 DEF v, w

\* So is a product.
LEMMA ProductsKeepOrder ==
    \A x, y, k \in Nat : x * k \in Nat /\ (x <= y => x * k <= y * k /\ k * x <= k * y)
  <1> SUFFICES ASSUME NEW x \in Nat, NEW y \in Nat, NEW k \in Nat
               PROVE  x * k \in Nat /\ (x <= y => x * k <= y * k /\ k * x <= k * y)
    OBVIOUS
  <1>1. x <= y => y - x \in Nat /\ (y - x) * k \in Nat
    OBVIOUS
  <1>2. /\ y * k = x * k + (y - x) * k /\ k * x = x * k /\ k * y = y * k
        /\ x * k \in Nat /\ y * k \in Nat
    OBVIOUS
  <1> QED BY <1>1, <1>2

\* A position as it is read, and the factors of its reserves.
Holding(p, factor) ==
    /\ IsFiniteSet(DOMAIN p.collateral)
    /\ p.gho \in Nat /\ p.debt \in Nat /\ p.threshold \in Nat
    /\ \A a \in DOMAIN p.collateral : p.collateral[a] \in Nat /\ factor[a] \in Nat

\* An asset's value at the shocked price is a number.
LEMMA AssetValueType ==
    ASSUME NEW p, NEW factor, Holding(p, factor), NEW a \in DOMAIN p.collateral
    PROVE  AssetValue(p, factor, a) \in Nat
  <1>1. p.collateral[a] * factor[a] \in Nat
    BY ProductsKeepOrder DEF Holding
  <1> QED BY <1>1, CrashPathAssumption, DivisionKeepsOrder DEF AssetValue

\* So are the values and the weighted values of a position, and their sums.
LEMMA SumsType ==
    ASSUME NEW p, NEW factor, Holding(p, factor)
    PROVE  /\ \A a \in DOMAIN p.collateral : /\ AssetValues(p, factor)[a] \in Nat
                                             /\ Weighted(p, factor)[a] \in Nat
           /\ Total(AssetValues(p, factor), DOMAIN p.collateral) \in Nat
           /\ Total(Weighted(p, factor), DOMAIN p.collateral) \in Nat
  <1>1. \A a \in DOMAIN p.collateral : AssetValues(p, factor)[a] \in Nat
    BY AssetValueType DEF AssetValues
  <1>2. ASSUME NEW a \in DOMAIN p.collateral PROVE Weighted(p, factor)[a] \in Nat
    <2>1. AssetValue(p, factor, a) * p.threshold \in Nat
      BY AssetValueType, ProductsKeepOrder DEF Holding
    <2> QED BY <2>1, CrashPathAssumption, DivisionKeepsOrder DEF Weighted
  <1>3. IsFiniteSet(DOMAIN p.collateral)
    BY DEF Holding
  <1> QED BY <1>1, <1>2, <1>3, TotalFirst

\* A row has a value and a ratio.
LEMMA HealthType ==
    ASSUME NEW p, NEW factor, Holding(p, factor)
    PROVE  Health(p, factor).value \in Nat /\ Health(p, factor).cr \in Ratios
  <1>1. p.debt \in Nat
    BY DEF Holding
  <1> QED BY <1>1, SumsType, OverType DEF Health

\* p holds no more than w, under no higher a threshold, against the same debt.
Lighter(p, w) ==
    /\ DOMAIN p.collateral = DOMAIN w.collateral
    /\ \A a \in DOMAIN p.collateral : p.collateral[a] <= w.collateral[a]
    /\ p.threshold <= w.threshold
    /\ p.debt = w.debt /\ p.gho = w.gho

\* A lighter position is worth no more, and falls below 1 where the other does.
LEMMA HealthFalls ==
    ASSUME NEW p, NEW w, NEW factor, Holding(p, factor), Holding(w, factor), Lighter(p, w)
    PROVE  /\ Health(p, factor).value <= Health(w, factor).value
           /\ Lower(Health(w, factor).cr, <<1, 1>>) => Lower(Health(p, factor).cr, <<1, 1>>)
  <1> DEFINE A == DOMAIN p.collateral
  <1>1. A = DOMAIN w.collateral /\ IsFiniteSet(A)
    BY DEF Holding, Lighter
  <1>2. ASSUME NEW a \in A
        PROVE  /\ AssetValues(p, factor)[a] <= AssetValues(w, factor)[a]
               /\ Weighted(p, factor)[a] <= Weighted(w, factor)[a]
    <2>1. /\ p.collateral[a] \in Nat /\ w.collateral[a] \in Nat /\ factor[a] \in Nat
          /\ p.collateral[a] <= w.collateral[a]
          /\ p.threshold \in Nat /\ w.threshold \in Nat /\ p.threshold <= w.threshold
      BY <1>1 DEF Holding, Lighter
    <2>2. /\ p.collateral[a] * factor[a] <= w.collateral[a] * factor[a]
          /\ p.collateral[a] * factor[a] \in Nat /\ w.collateral[a] * factor[a] \in Nat
      BY <2>1, ProductsKeepOrder
    <2> DEFINE u == AssetValue(p, factor, a)  v == AssetValue(w, factor, a)
    <2>3. u \in Nat /\ v \in Nat /\ u <= v
      BY <1>1, <2>2, CrashPathAssumption, DivisionKeepsOrder, AssetValueType DEF AssetValue
    <2> HIDE DEF u, v
    <2>4. /\ u * p.threshold \in Nat /\ v * p.threshold \in Nat /\ v * w.threshold \in Nat
          /\ u * p.threshold <= v * p.threshold /\ v * p.threshold <= v * w.threshold
      BY <2>1, <2>3, ProductsKeepOrder
    <2>5. u * p.threshold <= v * w.threshold
      BY <2>4
    <2>6. (u * p.threshold) \div One <= (v * w.threshold) \div One
      BY <2>4, <2>5, CrashPathAssumption, DivisionKeepsOrder
    <2>7. AssetValues(p, factor)[a] = u /\ AssetValues(w, factor)[a] = v
      BY <1>1 DEF AssetValues, u, v
    <2>8. /\ Weighted(p, factor)[a] = (u * p.threshold) \div One
          /\ Weighted(w, factor)[a] = (v * w.threshold) \div One
      BY <1>1 DEF Weighted, u, v
    <2> QED BY <2>3, <2>6, <2>7, <2>8
  <1>3. \A a \in A : /\ AssetValues(p, factor)[a] \in Int /\ AssetValues(w, factor)[a] \in Int
                     /\ Weighted(p, factor)[a] \in Int /\ Weighted(w, factor)[a] \in Int
    BY <1>1, SumsType
  <1> DEFINE tp == Total(Weighted(p, factor), A)
             tw == Total(Weighted(w, factor), A)
  <1>4. Total(AssetValues(p, factor), A) <= Total(AssetValues(w, factor), A)
    BY <1>1, <1>2, <1>3, TotalBelow
  <1>5. tp <= tw
    BY <1>1, <1>2, <1>3, TotalBelow
  <1>6. tp \in Nat /\ tw \in Nat /\ p.debt \in Nat /\ p.debt = w.debt
    BY <1>1, SumsType DEF Holding, Lighter
  <1>7. Health(p, factor).value <= Health(w, factor).value
    BY <1>1, <1>4 DEF Health
  <1>8. Health(p, factor).cr = Over(tp, p.debt) /\ Health(w, factor).cr = Over(tw, p.debt)
    BY <1>1, <1>6 DEF Health
  <1> HIDE DEF tp, tw
  <1>9. \A t \in Nat : Lower(Over(t, p.debt), <<1, 1>>) <=> (p.debt = 0 \/ t < p.debt)
    <2> SUFFICES ASSUME NEW t \in Nat
                 PROVE  Lower(Over(t, p.debt), <<1, 1>>) <=> (p.debt = 0 \/ t < p.debt)
      OBVIOUS
    <2>1. CASE p.debt = 0
      BY <2>1 DEF Over, Lower
    <2>2. CASE p.debt # 0
      <3>1. Over(t, p.debt) = <<t, p.debt>>
        BY <2>2 DEF Over
      <3> QED BY <1>6, <2>2, <3>1 DEF Lower
    <2> QED BY <2>1, <2>2
  <1> QED BY <1>5, <1>6, <1>7, <1>8, <1>9

\* GHO's part of a figure is a number, and of a larger figure no less.
LEMMA PartType ==
    ASSUME NEW p, NEW factor, Holding(p, factor), NEW x \in Nat, NEW y \in Nat, x <= y
    PROVE  GhoPart(p, x) \in Nat /\ GhoPart(p, x) <= GhoPart(p, y)
  <1>1. p.gho \in Nat /\ p.debt \in Nat
    BY DEF Holding
  <1>2. x * p.gho \in Nat /\ y * p.gho \in Nat /\ x * p.gho <= y * p.gho
    BY <1>1, ProductsKeepOrder
  <1>3. CASE p.debt = 0
    BY <1>3 DEF GhoPart
  <1>4. CASE p.debt # 0
    <2>1. GhoPart(p, x) = (x * p.gho) \div p.debt /\ GhoPart(p, y) = (y * p.gho) \div p.debt
      BY <1>4 DEF GhoPart
    <2> QED BY <1>1, <1>2, <1>4, <2>1, DivisionKeepsOrder
  <1> QED BY <1>3, <1>4

\* The positions of a book, as they are read.
Holdings(ps, n, factor) == DOMAIN ps = 1 .. n /\ \A i \in 1 .. n : Holding(ps[i], factor)

RowsRead(ps, factor) == [i \in DOMAIN ps |-> Health(ps[i], factor)]

\* A loss is a number.
LEMMA LossType ==
    ASSUME NEW n \in Nat, NEW ps, NEW factor, Holdings(ps, n, factor), NEW i \in 1 .. n
    PROVE  /\ Short(ps[i], RowsRead(ps, factor)[i]) \in Nat
           /\ Loss(ps, RowsRead(ps, factor), i) \in Nat
  <1> DEFINE x == Short(ps[i], RowsRead(ps, factor)[i])
  <1>1. Holding(ps[i], factor) /\ RowsRead(ps, factor)[i] = Health(ps[i], factor)
    BY DEF Holdings, RowsRead
  <1>2. x \in Nat
    <2>1. ps[i].debt \in Nat /\ Health(ps[i], factor).value \in Nat
      BY <1>1, HealthType DEF Holding
    <2> QED BY <1>1, <2>1 DEF Short
  <1> HIDE DEF x
  <1>3. GhoPart(ps[i], x) \in Nat
    BY <1>1, <1>2, PartType
  <1> QED BY <1>2, <1>3 DEF Loss, x

\* ... in whichever order the rows are worked.
LEMMA OrderIsNoMatter ==
    ASSUME NEW n \in Nat, NEW ps, NEW rows, DOMAIN rows = 1 .. n, RowsOf(rows, n),
           NEW f, Losses(f, ps, rows, [i \in 1 .. n |-> i], n), NEW base, base.bad = 0
    PROVE  Pass(ps, rows, base, Ascending(rows)).bad = Total(f, 1 .. n)
  <1> DEFINE s == Ascending(rows)
  <1>1. /\ s \in [1 .. n -> 1 .. n]
        /\ \A k, l \in 1 .. n : s[k] = s[l] => k = l
        /\ \A i \in 1 .. n : \E k \in 1 .. n : s[k] = i
    BY AscendingPermutes, Zenon
  <1> HIDE DEF s
  <1>2. PICK q : q = s
    OBVIOUS
  <1>3. /\ q \in [1 .. n -> 1 .. n]
        /\ \A k, l \in 1 .. n : q[k] = q[l] => k = l
        /\ \A i \in 1 .. n : \E k \in 1 .. n : q[k] = i
    BY <1>1, <1>2
  <1>4. PICK g : g = [k \in 1 .. n |-> f[q[k]]]
    OBVIOUS
  <1>5. Losses(g, ps, rows, q, n)
    <2>1. \A i \in 1 .. n : f[i] = Loss(ps, rows, i) /\ f[i] \in Nat
      BY DEF Losses
    <2>2. \A k \in 1 .. n : q[k] \in 1 .. n /\ g[k] = f[q[k]]
      BY <1>3, <1>4
    <2> QED BY <2>1, <2>2 DEF Losses
  <1>6. q \in [1 .. n -> 1 .. n]
    BY <1>3
  <1>7. Pass(ps, rows, base, q).bad = Total(g, 1 .. n)
    BY <1>5, <1>6, PassSums
  <1>8. Total(g, 1 .. n) = Total(f, 1 .. n)
    <2>1. \A i \in 1 .. n : f[i] \in Nat
      BY DEF Losses
    <2> QED BY <1>3, <1>4, <2>1, TotalPermuted
  <1> QED BY <1>2, <1>7, <1>8 DEF s

\* The bad debt of a crash is the sum of what each position loses.
LEMMA HealthPathSums ==
    ASSUME NEW n \in Nat, NEW ps, NEW factor, Holdings(ps, n, factor), NEW capacity
    PROVE  HealthPath(ps, factor, capacity).bad
              = Total([i \in 1 .. n |-> Loss(ps, RowsRead(ps, factor), i)], 1 .. n)
  <1>1. PICK rows : rows = RowsRead(ps, factor)
    OBVIOUS
  <1>2. DOMAIN rows = 1 .. n /\ \A i \in 1 .. n : rows[i] = Health(ps[i], factor)
    BY <1>1 DEF Holdings, RowsRead
  <1>3. RowsOf(rows, n)
    BY <1>2, HealthType DEF RowsOf, Holdings
  <1>4. PICK f : f = [i \in 1 .. n |-> Loss(ps, rows, i)]
    OBVIOUS
  <1>5. Losses(f, ps, rows, [i \in 1 .. n |-> i], n)
    BY <1>1, <1>4, LossType DEF Losses
  <1>6. PICK base : base = [left |-> capacity, bad |-> 0]
    OBVIOUS
  <1>7. Pass(ps, rows, base, Ascending(rows)).bad = Total(f, 1 .. n)
    BY <1>2, <1>3, <1>5, <1>6, OrderIsNoMatter
  <1>8. HealthPath(ps, factor, capacity) = Pass(ps, rows, base, Ascending(rows))
    BY <1>1, <1>6 DEF HealthPath, Pass, RowsRead
  <1> QED BY <1>1, <1>4, <1>7, <1>8

\* What is read of each position is no more than there is: nothing less is lost.
LEMMA LighterLosesMore ==
    ASSUME NEW n \in Nat, NEW ps, NEW ws, NEW factor,
           Holdings(ps, n, factor), Holdings(ws, n, factor),
           \A i \in 1 .. n : Lighter(ps[i], ws[i]),
           NEW cp, NEW cw
    PROVE  HealthPath(ps, factor, cp).bad >= HealthPath(ws, factor, cw).bad
  <1> DEFINE f == [i \in 1 .. n |-> Loss(ps, RowsRead(ps, factor), i)]
             g == [i \in 1 .. n |-> Loss(ws, RowsRead(ws, factor), i)]
  <1>1. ASSUME NEW i \in 1 .. n
        PROVE  Loss(ws, RowsRead(ws, factor), i) <= Loss(ps, RowsRead(ps, factor), i)
    <2> DEFINE p == ps[i]  w == ws[i]
               x == Short(p, RowsRead(ps, factor)[i])
               y == Short(w, RowsRead(ws, factor)[i])
    <2>1. /\ Holding(p, factor) /\ Holding(w, factor) /\ Lighter(p, w)
          /\ RowsRead(ps, factor)[i] = Health(p, factor)
          /\ RowsRead(ws, factor)[i] = Health(w, factor)
      BY DEF Holdings, RowsRead
    <2>2. x \in Nat /\ y \in Nat /\ Loss(ps, RowsRead(ps, factor), i) \in Nat
      BY LossType
    <2> HIDE DEF p, w
    <2>3. /\ Health(p, factor).value <= Health(w, factor).value
          /\ Lower(Health(w, factor).cr, <<1, 1>>) => Lower(Health(p, factor).cr, <<1, 1>>)
      BY <2>1, HealthFalls
    <2>4. /\ Health(p, factor).value \in Nat /\ Health(w, factor).value \in Nat
          /\ p.debt \in Nat /\ p.debt = w.debt /\ p.gho = w.gho
      BY <2>1, HealthType DEF Holding, Lighter
    <2>5. y <= x
      BY <2>1, <2>3, <2>4 DEF Short
    <2> HIDE DEF x, y
    <2>6. GhoPart(w, y) <= GhoPart(w, x) /\ GhoPart(w, x) = GhoPart(p, x)
      <3>1. GhoPart(w, y) <= GhoPart(w, x)
        BY <2>1, <2>2, <2>5, PartType
      <3> QED BY <2>4, <3>1 DEF GhoPart
    <2>7. /\ Loss(ps, RowsRead(ps, factor), i)
                = IF Lower(Health(p, factor).cr, <<1, 1>>) THEN GhoPart(p, x) ELSE 0
          /\ Loss(ws, RowsRead(ws, factor), i)
                = IF Lower(Health(w, factor).cr, <<1, 1>>) THEN GhoPart(w, y) ELSE 0
      BY <2>1 DEF Loss, p, w, x, y
    <2> QED BY <2>2, <2>3, <2>6, <2>7
  <1>2. \A i \in 1 .. n : f[i] \in Int /\ g[i] \in Int /\ g[i] <= f[i]
    BY <1>1, LossType
  <1>3. IsFiniteSet(1 .. n)
    BY FS_Interval
  <1> HIDE DEF f, g
  <1>4. Total(g, 1 .. n) <= Total(f, 1 .. n) /\ Total(f, 1 .. n) \in Int /\ Total(g, 1 .. n) \in Int
    BY <1>2, <1>3, TotalBelow, TotalStep
  <1>5. /\ HealthPath(ps, factor, cp).bad = Total(f, 1 .. n)
        /\ HealthPath(ws, factor, cw).bad = Total(g, 1 .. n)
    BY HealthPathSums DEF f, g
  <1> QED BY <1>4, <1>5

\* A shocked price is a number.
LEMMA FactorType ==
    ASSUME NEW s \in Shocks, NEW d \in {0, 5, 10}, NEW a
    PROVE  Factor(s, d, a) \in Nat
  <1>1. (One - s) * (One - d) \in Nat /\ One - s \in Nat /\ One \in Nat \ {0}
    <2>1. One - s \in Nat /\ One - d \in Nat
      BY CellsAssumption DEF Shocks
    <2> QED BY <2>1, CrashPathAssumption, ProductsKeepOrder
  <1>2. ((One - s) * (One - d)) \div One \in Nat
    BY <1>1, DivisionKeepsOrder
  <1> QED BY <1>1, <1>2 DEF Factor

\* The positions of a GHO book, read with some calls lost.
LEMMA PositionsRead ==
    ASSUME NEW b \in Books, b.token = "GHO", NEW lost
    PROVE  /\ AsRead(b, lost).token = "GHO"
           /\ AsRead(b, lost).positions
                 = [i \in DOMAIN b.positions |-> PositionAsRead(b.positions[i], i, lost)]
  BY BooksAssumption DEF AsRead

\* Whatever is lost, the crash of the book as it is read loses no less.
LEMMA CrashLosesMore ==
    ASSUME NEW b \in Books, b.token = "GHO", NEW lost,
           NEW s \in Shocks, NEW d \in {0, 5, 10}, NEW lp
    PROVE  Crash(AsRead(b, lost), s, d, lp).bad >= Crash(AsRead(b, {}), s, d, lp).bad
  <1> DEFINE n == Len(b.positions)
             ps == AsRead(b, lost).positions
             ws == AsRead(b, {}).positions
             factor == [a \in Held(b) |-> Factor(s, d, a)]
  <1>1. n \in Nat /\ DOMAIN b.positions = 1 .. n /\ \A i \in 1 .. n : GhoPosition(b.positions[i])
    BY BooksAssumption
  <1>2. /\ DOMAIN ps = 1 .. n /\ \A i \in 1 .. n : ps[i] = PositionAsRead(b.positions[i], i, lost)
        /\ DOMAIN ws = 1 .. n /\ \A i \in 1 .. n : ws[i] = PositionAsRead(b.positions[i], i, {})
    <2>1. /\ ps = [i \in DOMAIN b.positions |-> PositionAsRead(b.positions[i], i, lost)]
          /\ ws = [i \in DOMAIN b.positions |-> PositionAsRead(b.positions[i], i, {})]
      BY PositionsRead
    <2> HIDE DEF ps, ws, n
    <2> QED BY <1>1, <2>1
  <1>3. \A i \in 1 .. n : \A a \in DOMAIN b.positions[i].collateral :
           a \in Held(b) /\ factor[a] \in Nat
    <2> SUFFICES ASSUME NEW i \in 1 .. n, NEW a \in DOMAIN b.positions[i].collateral
                 PROVE  a \in Held(b) /\ factor[a] \in Nat
      OBVIOUS
    <2>1. b.positions[i] \in ToSet(b.positions)
      BY <1>1 DEF ToSet
    <2>2. a \in Held(b)
      BY <2>1 DEF Held
    <2> QED BY <2>2, FactorType
  <1>4. Held(AsRead(b, lost)) = Held(b) /\ Held(AsRead(b, {})) = Held(b)
    <2>1. \A i \in 1 .. n : /\ DOMAIN ps[i].collateral = DOMAIN b.positions[i].collateral
                            /\ DOMAIN ws[i].collateral = DOMAIN b.positions[i].collateral
      <3> HIDE DEF ps, ws
      <3> SUFFICES ASSUME NEW i \in 1 .. n
                   PROVE  /\ DOMAIN ps[i].collateral = DOMAIN b.positions[i].collateral
                          /\ DOMAIN ws[i].collateral = DOMAIN b.positions[i].collateral
        OBVIOUS
      <3> DEFINE o == b.positions[i]
      <3>1. ps[i] = PositionAsRead(o, i, lost) /\ ws[i] = PositionAsRead(o, i, {})
        BY <1>2
      <3> HIDE DEF o
      <3>2. /\ ps[i].collateral = [a \in DOMAIN o.collateral |->
                                      IF Worthless(a, lost) THEN 0 ELSE o.collateral[a]]
            /\ ws[i].collateral = [a \in DOMAIN o.collateral |->
                                      IF Worthless(a, {}) THEN 0 ELSE o.collateral[a]]
        BY <3>1 DEF PositionAsRead
      <3> QED BY <3>2 DEF o
    <2>2. /\ Held(b) = UNION {DOMAIN b.positions[i].collateral : i \in 1 .. n}
          /\ Held(AsRead(b, lost)) = UNION {DOMAIN ps[i].collateral : i \in 1 .. n}
          /\ Held(AsRead(b, {})) = UNION {DOMAIN ws[i].collateral : i \in 1 .. n}
      <3>1. /\ ToSet(b.positions) = {b.positions[i] : i \in 1 .. n}
            /\ ToSet(ps) = {ps[i] : i \in 1 .. n}
            /\ ToSet(ws) = {ws[i] : i \in 1 .. n}
        BY <1>1, <1>2 DEF ToSet
      <3> QED BY <3>1 DEF Held
    <2> QED BY <2>1, <2>2
  <1> HIDE DEF ps, ws
  <1>5. ASSUME NEW i \in 1 .. n
        PROVE  Holding(ps[i], factor) /\ Holding(ws[i], factor) /\ Lighter(ps[i], ws[i])
    <2> DEFINE o == b.positions[i]
    <2>1. /\ IsFiniteSet(DOMAIN o.collateral)
          /\ \A a \in DOMAIN o.collateral : o.collateral[a] \in Nat /\ factor[a] \in Nat
          /\ o.gho \in Nat /\ o.debt \in Nat
      BY <1>1, <1>3 DEF GhoPosition
    <2> HIDE DEF o, factor
    <2>2. ps[i] = PositionAsRead(o, i, lost) /\ ws[i] = PositionAsRead(o, i, {})
      BY <1>2 DEF o
    <2>3. /\ \A a \in DOMAIN o.collateral : Worthless(a, {}) = FALSE
          /\ \A x : x \notin {}
      BY DEF Worthless, Unpriced
    <2>4. /\ DOMAIN ps[i].collateral = DOMAIN o.collateral
          /\ DOMAIN ws[i].collateral = DOMAIN o.collateral
          /\ \A a \in DOMAIN o.collateral : /\ ps[i].collateral[a] \in {0, o.collateral[a]}
                                            /\ ws[i].collateral[a] = o.collateral[a]
      BY <2>2, <2>3 DEF PositionAsRead
    <2>5. /\ ps[i].threshold \in Nat /\ ws[i].threshold \in Nat
          /\ ps[i].threshold <= ws[i].threshold
      BY <2>2, BooksAssumption DEF PositionAsRead
    <2>6. /\ ps[i].gho = o.gho /\ ws[i].gho = o.gho
          /\ ps[i].debt = o.debt /\ ws[i].debt = o.debt
      BY <2>2 DEF PositionAsRead
    <2>7. \A a \in DOMAIN o.collateral : /\ ps[i].collateral[a] \in Nat
                                        /\ ws[i].collateral[a] \in Nat
                                        /\ ps[i].collateral[a] <= ws[i].collateral[a]
      BY <2>1, <2>4
    <2> QED BY <2>1, <2>4, <2>5, <2>6, <2>7 DEF Holding, Lighter
  <1>6. Holdings(ps, n, factor) /\ Holdings(ws, n, factor)
    BY <1>2, <1>5 DEF Holdings, ps, ws
  <1> DEFINE Sold(c) == MapThenSumSet(LAMBDA a : (SellSide(c, a) * Factor(s, d, a)) \div One, DOMAIN c.sell)
  <1>7. /\ Crash(AsRead(b, lost), s, d, lp) = HealthPath(ps, factor, Sold(AsRead(b, lost)))
        /\ Crash(AsRead(b, {}), s, d, lp) = HealthPath(ws, factor, Sold(AsRead(b, {})))
    BY <1>4, PositionsRead DEF Crash, ps, ws
  <1> HIDE DEF Sold, factor, n
  <1>8. \A cp, cw : HealthPath(ps, factor, cp).bad >= HealthPath(ws, factor, cw).bad
    BY <1>1, <1>5, <1>6, LighterLosesMore
  <1> QED BY <1>7, <1>8

\* The cells of Member 1, once made, hold the loss of the book as it was read.
CellsInv ==
    /\ book \in Books
    /\ outcome = "crash" =>
          \A id \in Member1(book) : cells[id].bad = Crash(Base, id.shock, id.lst, id.lp).bad

LEMMA CellsStart == CellsInit => CellsInv
  BY DEF CellsInit, CellsInv

LEMMA CellsStep == CellsInv /\ [CellsNext]_cellsvars => CellsInv'
  <1> SUFFICES ASSUME CellsInv, [CellsNext]_cellsvars PROVE CellsInv'
    OBVIOUS
  <1> USE DEF CellsInv
  <1>1. CASE FoldCrash
    <2>1. book' = book /\ reverted' = reverted /\ Base' = Base /\ depth' = depth
      BY <1>1 DEF FoldCrash, Base
    <2>2. ASSUME outcome' = "crash", NEW id \in Member1(book)
          PROVE  cells'[id].bad = Crash(Base, id.shock, id.lst, id.lp).bad
      <3>1. cells' = [i \in Member1(book) |-> CrashCell(Base, Crash(Base, i.shock, i.lst, i.lp), i.lp)]
        BY <1>1, <2>2 DEF FoldCrash
      <3>2. cells'[id] = CrashCell(Base, Crash(Base, id.shock, id.lst, id.lp), id.lp)
        BY <3>1
      <3> QED BY <3>2 DEF CrashCell, Cell
    <2> QED BY <2>1, <2>2 DEF Member1, M1, Id, Lsts
  <1>2. CASE FoldDepeg \/ FoldJoint \/ FoldReport \/ Emit
    BY <1>2 DEF FoldDepeg, FoldJoint, FoldReport, Emit
  <1>3. CASE UNCHANGED cellsvars
    BY <1>3 DEF cellsvars, Base
  <1> QED BY <1>1, <1>2, <1>3 DEF CellsNext

\* Whichever reads of a GHO book fail and whatever the book, no crash cell shows a
\* smaller loss than the whole book would have had (read_state, crash_path).
THEOREM LossesAreNotHidden == CellsSpec => []LossNotHidden
  <1>1. CellsInv => LossNotHidden
    <2> SUFFICES ASSUME CellsInv, book.token = "GHO", outcome = "crash", NEW id \in Member1(book)
                 PROVE  cells[id].bad >= Crash(AsRead(book, {}), id.shock, id.lst, id.lp).bad
      BY DEF LossNotHidden
    <2>1. id.shock \in Shocks /\ id.lst \in {0, 5, 10}
      BY DEF Member1, M1, Id, Lsts
    <2> QED BY <2>1, CrashLosesMore DEF CellsInv, Base
  <1> QED BY <1>1, CellsStart, CellsStep, PTL DEF CellsSpec
===============================================================================
