------------------------------- MODULE ExitDepth -------------------------------
(***************************************************************************)
(* The exit-depth block of the stress report (factory/stress.py), folded   *)
(* over the promoted bundle of PoolWatch and the set file as it is now,    *)
(* and the harness rows that route the report: DET-24, 29(b), 30, 31, 35   *)
(* and 50.  The frozen rows are the bundle's; the Member-2 target is the   *)
(* set file's, which the owner may have frozen anew since, and which he    *)
(* fills from a fold that failed for want of it.                           *)
(*                                                                         *)
(* The cells that use this block are those of Cells.  Depth solves a pool; *)
(* here a market gives what the solver answers for a pool, and it depends  *)
(* on the shape the pool is taken for.  A shape is found by probing, and a *)
(* probe that fails is read as a "no".                                     *)
(***************************************************************************)
EXTENDS PoolWatch

CONSTANTS Assets,         \* by address
          Paired,         \* of a pool: the asset against the token
          Wide,           \* pools of more than two coins
          Kind,           \* "ng", "metapool" or "plain"
          Composition,    \* of a metapool's base pool: units of each constituent
          Points,         \* S_POINTS, in basis points
          Markets,        \* what the pools may be like at a bundle's block
          Venues,         \* of a token: its GSMs, as the bundle has them
          Configured,     \* of an asset: its row in [[paired_asset]] or the labels
          Linked          \* analyzed tokens whose tree is published

Headline == 200
Epsilon == 5    \* DET31_EPSILON

Shapes == {"ng", "metapool", "plain"}

ASSUME ExitAssumption ==
    /\ Assets \subseteq Nat /\ Linked \subseteq Assets
    /\ Headline \in Points /\ Points \subseteq 0 .. 10000
    /\ Kind \in [Pools -> Shapes]

ASSUME VenueAssumption ==
    \A t \in Tokens :
        /\ IsFiniteSet(DOMAIN Venues[t])
        /\ \A g \in DOMAIN Venues[t] : Venues[t][g].balance \in Nat /\ Venues[t][g].fee \in Nat

(***************************************************************************)
(* A market.  A pool is asked through the formula of the shape it is taken *)
(* for; an answer is how pool_depth ended, the depth it returns per unit   *)
(* of the pool's value, and how far below par, in basis points, the pool's *)
(* own contract prices that size.                                          *)
(***************************************************************************)
Answers == [kind : {"bound", "zero", "cap", "raised"}, depth : Nat, slip : Int]

Near(slip, s) == s - Epsilon <= slip /\ slip <= s + Epsilon

\* Of the solver only what Depth shows: no depth where nothing sells or nothing is
\* bracketed, and none that falls with s unless the pool's balance cuts it.
ASSUME SolverAssumption ==
    \A m \in Markets : \A p \in Pools : \A k \in Shapes :
        /\ m[p].reverts \in BOOLEAN /\ m[p].solved[k] \in [Points -> Answers]
        /\ \A s \in Points : m[p].solved[k][s].kind \in {"zero", "raised"} => m[p].solved[k][s].depth = 0
        /\ (\A s \in Points : m[p].solved[k][s].kind \in {"bound", "zero"}) =>
              \A s, t \in Points : s < t => m[p].solved[k][s].depth <= m[p].solved[k][t].depth

\* The port of the pool's own formula is exact, and its contract pays no better
\* price for a larger size.
ASSUME ContractAssumption ==
    /\ \A s \in Points : s < Headline - 2 * Epsilon \/ s = Headline \/ Headline + 2 * Epsilon < s
    /\ \A m \in Markets : \A p \in Pools :
          /\ \A s \in Points :
                LET own == m[p].solved[Kind[p]][s]
                IN  /\ own.kind = "bound" => Near(own.slip, s)
                    /\ own.kind = "zero" => own.slip > s
                    /\ own.kind = "cap" => own.slip <= s
          /\ \A k, l \in Shapes : \A s, t \in Points :
                LET a == m[p].solved[k][s]
                    b == m[p].solved[l][t]
                IN  a.slip < b.slip => a.depth <= b.depth

\* A base LP is worth more than par by more than the tolerance (1.0398 in
\* config/lusd_labels.toml): counted at par, it shows at any size that sells.
ASSUME BaseAssumption ==
    \A m \in Markets : \A p \in Pools : Kind[p] = "metapool" =>
        LET a == m[p].solved["plain"][Headline]
        IN  a.depth > 0 => ~Near(a.slip, Headline)

VARIABLE last   \* the last fold, or None

allvars == <<vars, last>>
-------------------------------------------------------------------------------
(***************************************************************************)
(* Reading the pools.                                                      *)
(***************************************************************************)

\* A legacy pool's shape is asked of its factory, found by its index row.
KindRead(p, F) ==
    IF Kind[p] = "ng" /\ <<"offpeg", p>> \notin F THEN "ng"
    ELSE IF Kind[p] = "metapool" /\ <<"is_meta", p>> \notin F THEN "metapool"
    ELSE "plain"

\* read_pool_states stops at a pool it cannot model.
Unreadable(b, F) ==
    {p \in b.frozen : p \in Wide \/ (KindRead(p, F) # "ng" /\ p \notin pinned)}

DepthOf(b, m, p, kind, s) == b.held[p] * m[p].solved[kind][s].depth

\* k_subsets: shortest prefix of the rows by value; 95 is the whole set.
RankedTo(b, p) ==
    {q \in b.frozen : b.tvl[q] > b.tvl[p] \/ (b.tvl[q] = b.tvl[p] /\ q <= p)}

KSubset(b, k) ==
    IF k = 95 THEN b.frozen
    ELSE {p \in b.frozen :
            LET before == RankedTo(b, p) \ {p}
            IN  before = {} \/ 100 * Total(b.tvl, before) < k * Total(b.tvl, b.frozen)}

PerPool(b, m, k, s, F) == [p \in KSubset(b, k) |-> DepthOf(b, m, p, KindRead(p, F), s)]

Depths(b, m, k, s, F) == Total(PerPool(b, m, k, s, F), KSubset(b, k))

\* The curve, over the 90 % subset.
SoldAt(b, m, F) == [s \in Points |-> Depths(b, m, 90, s, F)]

\* The solver raises, or the contract's get_dy reverts: there is no report.
Refused(b, m, F) ==
    {p \in b.frozen : m[p].solved[KindRead(p, F)][Headline].kind = "raised"}
    \cup {p \in KSubset(b, 90) :
             \/ m[p].reverts
             \/ \E s \in Points : m[p].solved[KindRead(p, F)][s].kind = "raised"}
-------------------------------------------------------------------------------
(***************************************************************************)
(* The GSM venues.                                                         *)
(***************************************************************************)
Gsms == DOMAIN Venues[token]

\* A fee that does not answer is the whole amount, and never below a bound.
FeeRead(g, F) == IF <<"fee", g>> \in F THEN 10000 ELSE Venues[token][g].fee

\* Mutant: R-19 with equality.
AtOrBelow(g, s, F) == ~Venues[token][g].closed /\ FeeRead(g, F) <= s

Enters(g, s, F) == ~Venues[token][g].closed /\ FeeRead(g, F) < s

Boxed == [g \in Gsms |-> Venues[token][g].balance]

Redeemed(s, F) == Total(Boxed, {g \in Gsms : Enters(g, s, F)})
-------------------------------------------------------------------------------
(***************************************************************************)
(* Labels, and the candidates for the Member-2 target.                     *)
(***************************************************************************)
ConfigLabel(a) ==
    IF a \notin DOMAIN Configured THEN "unlabeled"
    ELSE IF Configured[a] = "composite_passthrough" THEN "composite" ELSE Configured[a]

\* What the tree says of a paired asset wins over the row.
LabelOf(b, a) ==
    IF a \in Linked \cap DOMAIN Configured /\ \E p \in b.frozen : Paired[p] = a
    THEN "linked" ELSE ConfigLabel(a)

\* Every composite is expanded by the first base pool that was read.
BaseRead(b, F) ==
    LET metas == {p \in b.frozen : KindRead(p, F) = "metapool"}
    IN  IF metas = {} THEN None ELSE Composition[Min(metas)]

\* From the depths of the 90 % subset at the headline.
Candidates(b, perPool, base) ==
    LET deep == {p \in DOMAIN perPool : perPool[p] > 0}
        wrapping == {p \in deep : base # None /\ LabelOf(b, Paired[p]) = "composite"}
        Direct(a) == Total(perPool, {p \in deep \ wrapping : Paired[p] = a})
        Part(a) == MapThenSumSet(
                       LAMBDA p : (perPool[p] * base[a]) \div Total(base, DOMAIN base), wrapping)
        open == {g \in Gsms : ~Venues[token][g].closed}
        Venue(a) == Total(Boxed, {g \in open : Venues[token][g].asset = a})
    IN  {[asset |-> Paired[p], basis |-> "paired_direct", depth |-> Direct(Paired[p])] :
            p \in deep \ wrapping}
        \cup (IF wrapping = {} THEN {}
              ELSE {[asset |-> a, basis |-> "composite_constituent", depth |-> Part(a)] :
                       a \in DOMAIN base})
        \cup {[asset |-> Venues[token][g].asset, basis |-> "gsm_venue",
               depth |-> Venue(Venues[token][g].asset)] : g \in open}

CandidatesRead(b, m, F) == Candidates(b, PerPool(b, m, 90, Headline, F), BaseRead(b, F))

\* The deepest row that `recurses`, the lowest address among equals.
Selected(b, cands) ==
    LET eligible == {c \in cands : LabelOf(b, c.asset) = "recurses"}
        deepest == {c \in eligible : \A d \in eligible : d.depth <= c.depth}
    IN  IF eligible = {} THEN None ELSE Min({c.asset : c \in deepest})
-------------------------------------------------------------------------------
(***************************************************************************)
(* The checks of the block.                                                *)
(***************************************************************************)
\* Mutant: only an implied price below the bound is a mismatch.
NotWorse(a) == a.slip <= Headline + Epsilon

WithinEpsilon(a) == Near(a.slip, Headline)

\* DET-31's ground truth: what the contract gives at the depth that was found, over
\* the modelled pools at the headline bound.
Mismatched(b, m, F) ==
    {p \in KSubset(b, 90) : ~WithinEpsilon(m[p].solved[KindRead(p, F)][Headline])}

\* Pools taken for another shape that no ground truth shows: a base pool behind a
\* pool that is not modelled; the multiplier of a fee, a matter of a few basis
\* points; and any pool whose price is at the bound before anything is sold.
Unseen(b, m, F) ==
    {p \in b.frozen \ KSubset(b, 90) : Kind[p] = "metapool" /\ KindRead(p, F) # Kind[p]}
    \cup {p \in KSubset(b, 90) :
             /\ KindRead(p, F) # Kind[p]
             /\ Kind[p] = "ng" \/ m[p].solved[KindRead(p, F)][Headline].depth = 0}

\* The curve does not fall from a bound to the next.
CurveHolds(b, m, F) ==
    LET sold == SoldAt(b, m, F)
        redeemed == [s \in Points |-> Redeemed(s, F)]
    IN  \A s, t \in Points : s < t =>
            sold[s] <= sold[t] /\ sold[s] + redeemed[s] <= sold[t] + redeemed[t]

\* DET-35 sums the rows whose fee is below the bound by itself.
VenueSum(s, F) == Total(Boxed, {g \in Gsms : ~Venues[token][g].closed /\ FeeRead(g, F) < s})

\* With cells in the report a target that is owed fails, and with no candidate
\* at all there is none.
TargetHolds(b, cands, target) == target = Selected(b, cands)

Failing(b, m, F) ==
    {"DET-24" : x \in Keepers \ b.frozen}
    \cup {"DET-30" : x \in {k \in {<<80, 90>>, <<90, 95>>} :
              Depths(b, m, k[1], Headline, F) > Depths(b, m, k[2], Headline, F)}}
    \cup (IF Mismatched(b, m, F) = {} /\ CurveHolds(b, m, F) THEN {} ELSE {"DET-31"})
    \cup {"DET-35" : x \in {s \in Points : Redeemed(s, F) # VenueSum(s, F)}}
    \cup (IF TargetHolds(b, CandidatesRead(b, m, F), fs.target) THEN {} ELSE {"DET-50"})
-------------------------------------------------------------------------------
ExitInit == Init /\ last = None

\* One probe at most of those a fold survives fails; any other read ends it.
Probes(b) ==
    {<<"offpeg", p>> : p \in {q \in b.frozen : Kind[q] = "ng"}}
    \cup {<<"is_meta", p>> : p \in {q \in b.frozen : Kind[q] = "metapool"}}
    \cup {<<"fee", g>> : g \in Gsms}

\* Points at which no pool's own depth is cut by its balance.
Met(b, m) ==
    {s \in Points : \A p \in KSubset(b, 90) : m[p].solved[Kind[p]][s].kind \in {"bound", "zero"}}

\* Modelled pools, as they are read, that nothing of is sold at the headline bound,
\* and those that run out of the other coin before some bound is reached.
Sunk(b, m, F) == {p \in KSubset(b, 90) : m[p].solved[KindRead(p, F)][Headline].kind = "zero"}
Drained(b, m, F) ==
    {p \in KSubset(b, 90) : \E s \in Points : m[p].solved[KindRead(p, F)][s].kind = "cap"}

\* stress.main: the report is promoted or left in rehearsal; a stop writes nothing.
\* `own`, `due`, `surplus` and `blind` say what reading every probe would have
\* changed; the others what a fold may stop or fail for.
Report(b, m, F) ==
    IF Unreadable(b, F) \cup Refused(b, m, F) # {}
    THEN [outcome |-> "stopped", reads |-> F, frozen |-> b.frozen, refused |-> Refused(b, m, F)]
    ELSE [outcome |-> IF Failing(b, m, F) = {} THEN "promoted" ELSE "rehearsal",
          reads |-> F, frozen |-> b.frozen, target |-> fs.target,
          want |-> Selected(b, CandidatesRead(b, m, F)),
          due |-> Selected(b, CandidatesRead(b, m, {})),
          depth |-> Depths(b, m, 90, Headline, F),
          own |-> SoldAt(b, m, {}), met |-> Met(b, m), blind |-> Unseen(b, m, F),
          sunk |-> Sunk(b, m, F), drained |-> Drained(b, m, F),
          surplus |-> Redeemed(Headline, F) - Redeemed(Headline, {})]

Fold ==
    /\ prior # None
    /\ \E F \in {{}} \cup {{c} : c \in Probes(prior)}, m \in Markets :
          last' = Report(prior, m, F)
    /\ UNCHANGED vars

\* The owner's intake_trigger event fills the target the rehearsal shows is owed.
Fill ==
    /\ fs # None /\ fs.target = None
    /\ last # None
    /\ last.outcome = "rehearsal"
    /\ last.want # None
    /\ fs' = [fs EXCEPT !.target = last.want]
    /\ chained' = TRUE
    /\ UNCHANGED <<chain, pinned, prior, last>>

ExitNext == (Next /\ UNCHANGED last) \/ Fold \/ Fill

ExitSpec == ExitInit /\ [][ExitNext]_allvars
-------------------------------------------------------------------------------
\* What the stress cells take from a promoted report, whichever probe failed, which
\* set file is current and whenever its target was filled: the venues redeem no more
\* than they would; the headline depth is no smaller than what the pools' own shapes
\* give at a tighter point of the curve, no larger than at a wider one that no pool's
\* balance cuts; and it is exactly theirs, and the target the deepest candidate of its
\* own bundle, unless a pool was taken for another where no ground truth shows it.
StressInputsTrue ==
    last # None => (last.outcome = "promoted" =>
        /\ last.surplus <= 0
        /\ \A s \in Points :
              /\ s < Headline => last.own[s] <= last.depth
              /\ s > Headline /\ s \in last.met => last.depth <= last.own[s]
        /\ last.blind = {} => last.depth = last.own[Headline] /\ last.target = last.due)

\* When every probe answers, a bundle of the frozen set that was promoted is folded
\* unless the set holds a wider pool, or a pool that is not bracketed or refuses
\* get_dy; and its report is promoted, unless its target is owed or has moved, the
\* freeze did not find a keeper's pool, or a modelled pool is below the headline
\* bound already or runs out of the other coin before a bound is reached.
FoldHasCause ==
    last # None => (last.reads = {} =>
        /\ last.outcome = "stopped" => last.frozen \cap Wide # {} \/ last.refused # {}
        /\ last.outcome = "rehearsal" =>
              \/ last.target # last.want \/ ~(Keepers \subseteq last.frozen)
              \/ last.sunk # {} \/ last.drained # {})
===============================================================================
