------------------------------ MODULE Store_proofs ------------------------------
(* Theorems about Store for any tokens, blocks, market counts and bounds. *)
EXTENDS Store, WellFoundedInduction, TLAPS

(***************************************************************************)
(* The latest file of a shelf.                                             *)
(***************************************************************************)
LEMMA NatLeast ==
    ASSUME NEW S, S \subseteq Nat, S # {}
    PROVE  \E x \in S : \A y \in S : x <= y
  <1> DEFINE R == OpToRel(<, Nat)
  <1>1. IsWellFoundedOn(R, Nat)
    BY NatLessThanWellFounded
  <1>2. \E x \in S : \A y \in S : <<y, x>> \notin R
    <2> HIDE DEF R
    <2> QED BY <1>1, WFMin
  <1>3. \A x, y \in Nat : <<y, x>> \notin R => x <= y
    BY DEF OpToRel
  <1> HIDE DEF R
  <1> QED BY <1>2, <1>3

\* Max of blocks is the last of them: MaxBlock - Max(S) is the least distance.
LEMMA LastBlock ==
    ASSUME NEW S, S \subseteq Blocks, S # {}
    PROVE  Max(S) \in S /\ \A b \in S : b <= Max(S)
  <1> DEFINE Gaps == {n \in Nat : \E x \in S : x + n = MaxBlock}
  <1>0. FirstBlock \in Nat /\ MaxBlock \in Nat
    BY StoreAssumption
  <1>1. \A x \in S : x \in Nat /\ MaxBlock - x \in Gaps
    <2> SUFFICES ASSUME NEW x \in S PROVE x \in Nat /\ MaxBlock - x \in Gaps
      OBVIOUS
    <2>1. x \in Nat /\ x <= MaxBlock
      BY <1>0 DEF Blocks
    <2>2. MaxBlock - x \in Nat /\ x + (MaxBlock - x) = MaxBlock
      BY <2>1, <1>0
    <2> QED BY <2>1, <2>2
  <1>2. PICK n \in Gaps : \A m \in Gaps : n <= m
    <2>1. Gaps \subseteq Nat /\ Gaps # {}
      BY <1>1
    <2> HIDE DEF Gaps
    <2> QED BY <2>1, NatLeast
  <1>3. PICK x \in S : x + n = MaxBlock
    OBVIOUS
  <1>4. \A y \in S : x >= y
    <2> SUFFICES ASSUME NEW y \in S PROVE x >= y
      OBVIOUS
    <2>1. n <= MaxBlock - y /\ n \in Nat
      BY <1>1, <1>2
    <2> HIDE DEF Gaps
    <2> QED BY <1>0, <1>1, <1>3, <2>1
  <1>5. \E z \in S : \A y \in S : z >= y
    BY <1>4
  <1>6. Max(S) \in S /\ \A y \in S : Max(S) >= y
    BY <1>5 DEF Max
  <1> HIDE DEF Gaps
  <1> QED BY <1>1, <1>6

LEMMA LatestIsThere ==
    ASSUME NEW shelf, NEW t, Latest(shelf, t) # None
    PROVE  \E b \in At(shelf, t) :
               /\ Latest(shelf, t) = shelf[t][b]
               /\ \A c \in At(shelf, t) : c <= b
  BY LastBlock DEF Latest, At

\* A file at a block no other is above is the latest.
LEMMA LatestAt ==
    ASSUME NEW shelf, NEW t, NEW b \in At(shelf, t), \A c \in At(shelf, t) : c <= b
    PROVE  Latest(shelf, t) = shelf[t][b]
  <1>1. At(shelf, t) \subseteq Blocks /\ At(shelf, t) # {}
    BY DEF At
  <1>2. Max(At(shelf, t)) = b
    <2>1. Max(At(shelf, t)) \in At(shelf, t) /\ b <= Max(At(shelf, t))
      BY <1>1, LastBlock
    <2>2. \A c \in Blocks : c \in Nat
      BY StoreAssumption DEF Blocks
    <2> QED BY <1>1, <2>1, <2>2
  <1> QED BY <1>1, <1>2 DEF Latest

(***************************************************************************)
(* What the stages rely on, and no one of them checks.                     *)
(***************************************************************************)

\* A bundle is under its own token and block, at a block and of a run that were.
BundlesNamed ==
    \A t \in Tokens : \A b \in At(bundles, t) :
        /\ bundles[t][b].token = t /\ bundles[t][b].block = b
        /\ b <= head /\ bundles[t][b].run <= runs

\* The later block is the later run's.
RunsRise ==
    \A t \in Tokens : \A b, c \in At(bundles, t) :
        b < c => bundles[t][b].run < bundles[t][c].run

\* A tree lies beside a bundle: the one it folds, or one that replaced that.
TreesBeside ==
    \A t \in Tokens : \A b \in At(trees, t) :
        /\ b \in At(bundles, t) /\ trees[t][b].block = b
        /\ trees[t][b].run <= bundles[t][b].run

StressOfOwnRaw ==
    \A t \in Tokens : \A b \in At(stress, t) : stress[t][b].raw = t

\* A gated bundle goes last of its shelf, and what the gate found of its prior
\* still holds when it is promoted.
Gated(t, b) ==
    /\ b.token = t /\ b.block <= head /\ b.run <= runs
    /\ \A c \in At(bundles, t) : c <= b.block /\ bundles[t][c].run < b.run
    /\ b.first <=> Before(t, b.block) = {}
    /\ Before(t, b.block) # {} => b.count >= LoadPrior(t, b.block).count

JobsGated == \A t \in Tokens : jobs[t] # NoJob => Gated(t, jobs[t].bundle)

IInv ==
    /\ TypeOK
    /\ BundlesNamed /\ RunsRise /\ TreesBeside /\ StressOfOwnRaw /\ JobsGated
    /\ NoUnseenLoss /\ OneOrigin
-------------------------------------------------------------------------------
(***************************************************************************)
(* Types.                                                                  *)
(***************************************************************************)
LEMMA BundleRead ==
    ASSUME TypeOK, NEW t \in Tokens, Latest(bundles, t) # None
    PROVE  Latest(bundles, t) \in Pinned
  BY LatestIsThere DEF TypeOK, At

LEMMA TreeRead ==
    ASSUME TypeOK, NEW t \in Tokens, Latest(trees, t) # None
    PROVE  Latest(trees, t) \in Fold(t)
  BY LatestIsThere DEF TypeOK, At

LEMMA FoldedType ==
    ASSUME TypeOK, NEW t \in Tokens, Latest(bundles, t) # None
    PROVE  Folded(t) \in Fold(t)
  <1>1. Latest(bundles, t) \in Pinned
    BY BundleRead
  <1>2. Links(t) \in [Linkable \ {t} -> [block : Blocks, shares : Nat] \cup {None}]
    <2>1. ASSUME NEW o \in Linkable \ {t}, Latest(trees, o) # None
          PROVE  /\ Latest(trees, o).block \in Blocks
                 /\ Latest(trees, o).run \in Nat
      <3>1. Latest(trees, o) \in Fold(o)
        BY <2>1, TreeRead, StoreAssumption
      <3> QED BY <3>1 DEF Fold
    <2> QED BY <2>1 DEF Links
  <1> QED BY <1>1, <1>2 DEF Folded, Fold, Pinned

\* A run that is under way holds a bundle.
LEMMA JobBundle ==
    ASSUME TypeOK, NEW t \in Tokens, jobs[t].step \in {"raw", "bundle"}
    PROVE  jobs[t] # NoJob /\ jobs[t].bundle \in Pinned
  BY DEF TypeOK, NoJob

LEMMA TypeStep == TypeOK /\ [Next]_vars => TypeOK'
  <1> SUFFICES ASSUME TypeOK, [Next]_vars PROVE TypeOK'
    OBVIOUS
  <1>0. /\ FirstBlock \in Nat /\ MaxBlock \in Nat /\ Blocks \subseteq Nat
        /\ \A n \in Blocks : n < MaxBlock => n + 1 \in Blocks
    BY StoreAssumption DEF Blocks
  <1>1. CASE NewBlock
    BY <1>0, <1>1 DEF TypeOK, NewBlock, folds
  <1>2. ASSUME NEW t \in Tokens, EditSheet(t) \/ LogIntake(t) PROVE TypeOK'
    <2>1. mirror' \in [Tokens -> Nat] /\ logged' \in [Tokens -> Nat]
      <3>1. CASE EditSheet(t)
        BY <3>1 DEF TypeOK, EditSheet
      <3>2. CASE LogIntake(t)
        BY <3>2 DEF TypeOK, LogIntake
      <3> QED BY <1>2, <3>1, <3>2
    <2> QED BY <1>2, <2>1 DEF TypeOK, EditSheet, LogIntake, folds
  <1>3. ASSUME NEW t \in Tokens, Assemble(t) PROVE TypeOK'
    <2>1. PICK count \in Counts :
              jobs' = [jobs EXCEPT ![t] = [step |-> "raw", bundle |-> Bundle(t, count)]]
      BY <1>3 DEF Assemble
    <2>2. Bundle(t, count) \in Pinned
      BY <1>0 DEF Bundle, Pinned, TypeOK, IsFirstRun
    <2> QED BY <1>3, <2>1, <2>2 DEF TypeOK, Assemble, world, folds
  <1>4. ASSUME NEW t \in Tokens, WriteRaw(t) PROVE TypeOK'
    <2>1. jobs[t].bundle.block \in Blocks /\ jobs[t].bundle \in Pinned
      BY <1>4, JobBundle DEF WriteRaw, Pinned
    <2>2. jobs' \in [Tokens -> {NoJob} \cup [step : {"raw", "bundle"}, bundle : Pinned]]
      BY <1>4, <2>1 DEF TypeOK, WriteRaw, NoJob
    <2> QED BY <1>4, <2>1, <2>2 DEF TypeOK, WriteRaw, world, folds
  <1>5. ASSUME NEW t \in Tokens, Promote(t) PROVE TypeOK'
    <2>1. jobs[t].bundle.block \in Blocks /\ jobs[t].bundle \in Pinned
      BY <1>5, JobBundle DEF Promote, Pinned
    <2> QED BY <1>5, <2>1 DEF TypeOK, Promote, world, folds
  <1>6. ASSUME NEW t \in Tokens, StopRun(t) PROVE TypeOK'
    BY <1>6 DEF TypeOK, StopRun, world, folds
  <1>7. ASSUME NEW t \in Tokens, Tree(t) PROVE TypeOK'
    <2>1. Folded(t) \in Fold(t)
      BY <1>7, FoldedType DEF Tree
    <2> QED BY <1>7, <2>1 DEF TypeOK, Tree, world
  <1>8. ASSUME NEW t \in Tokens, Stress(t) PROVE TypeOK'
    BY <1>8 DEF TypeOK, Stress, world
  <1>9. ASSUME NEW t \in Tokens, Report(t) PROVE TypeOK'
    BY <1>9 DEF TypeOK, Report, world
  <1>10. CASE UNCHANGED vars
    BY <1>10 DEF TypeOK, vars, world, folds
  <1> QED BY <1>1, <1>2, <1>3, <1>4, <1>5, <1>6, <1>7, <1>8, <1>9, <1>10 DEF Next
-------------------------------------------------------------------------------
(***************************************************************************)
(* The steps of the invariant.                                             *)
(***************************************************************************)
Held == /\ BundlesNamed /\ RunsRise /\ TreesBeside /\ StressOfOwnRaw /\ JobsGated
        /\ NoUnseenLoss /\ OneOrigin

LEMMA SameShelf ==
    ASSUME NEW t, NEW c, UNCHANGED bundles
    PROVE  /\ At(bundles, t)' = At(bundles, t) /\ Before(t, c)' = Before(t, c)
           /\ LoadPrior(t, c)' = LoadPrior(t, c)
  <1>1. At(bundles, t)' = At(bundles, t)
    BY DEF At
  <1>2. Before(t, c)' = Before(t, c)
    BY <1>1 DEF Before
  <1> QED BY <1>1, <1>2 DEF LoadPrior

LEMMA FilesStay ==
    ASSUME Held, UNCHANGED <<bundles, folds>>
    PROVE  (RunsRise /\ TreesBeside /\ StressOfOwnRaw /\ NoUnseenLoss /\ OneOrigin)'
  <1>1. (RunsRise /\ TreesBeside /\ StressOfOwnRaw)'
    BY DEF Held, RunsRise, TreesBeside, StressOfOwnRaw, At, folds
  <1>2. NoUnseenLoss'
    BY SameShelf DEF Held, NoUnseenLoss
  <1>3. OneOrigin'
    BY DEF Held, OneOrigin, folds
  <1> QED BY <1>1, <1>2, <1>3

\* What the gate found of a bundle holds as long as nothing is promoted.
LEMMA StaysGated ==
    ASSUME TypeOK, NEW t \in Tokens, NEW b \in Pinned, Gated(t, b), UNCHANGED bundles,
           head' \in Nat, head <= head', runs' \in Nat, runs <= runs'
    PROVE  Gated(t, b)'
  <1>1. /\ At(bundles, t)' = At(bundles, t)
        /\ Before(t, b.block)' = Before(t, b.block)
        /\ LoadPrior(t, b.block)' = LoadPrior(t, b.block)
    BY SameShelf
  <1>2. head \in Nat /\ runs \in Nat /\ b.block \in Nat /\ b.run \in Nat
    BY StoreAssumption DEF TypeOK, Blocks, Pinned
  <1>3. b.block <= head' /\ b.run <= runs'
    BY <1>2 DEF Gated
  <1> QED BY <1>1, <1>3 DEF Gated

\* A stage that only folds leaves what concerns the bundles.
LEMMA RestStays ==
    ASSUME TypeOK, Held, UNCHANGED <<head, bundles, trees, jobs, runs>>,
           StressOfOwnRaw', OneOrigin' \/ UNCHANGED reports
    PROVE  Held'
  <1>1. (BundlesNamed /\ RunsRise /\ TreesBeside)'
    BY DEF Held, BundlesNamed, RunsRise, TreesBeside, At
  <1>2. NoUnseenLoss'
    BY SameShelf DEF Held, NoUnseenLoss
  <1>3. OneOrigin'
    BY DEF Held, OneOrigin
  <1>4. JobsGated'
    <2> SUFFICES ASSUME NEW t \in Tokens, jobs[t] # NoJob PROVE Gated(t, jobs[t].bundle)'
      BY DEF JobsGated
    <2>1. PICK b \in Pinned : b = jobs[t].bundle /\ Gated(t, b)
      BY DEF Held, JobsGated, TypeOK
    <2>2. head \in Nat /\ runs \in Nat /\ head <= head /\ runs <= runs
      BY StoreAssumption DEF TypeOK, Blocks
    <2>3. Gated(t, b)'
      BY <2>1, <2>2, StaysGated
    <2> QED BY <2>1, <2>3
  <1> QED BY <1>1, <1>2, <1>3, <1>4 DEF Held

\* Nothing that only moves the clock or the sheets disturbs it.
LEMMA QuietStep ==
    ASSUME TypeOK, Held, head <= head', head' \in Nat, runs' = runs,
           UNCHANGED <<bundles, folds, jobs>>
    PROVE  Held'
  <1>0. Blocks \subseteq Nat
    BY StoreAssumption DEF Blocks
  <1>1. BundlesNamed'
    BY <1>0 DEF Held, BundlesNamed, At, TypeOK
  <1>2. JobsGated'
    <2> SUFFICES ASSUME NEW t \in Tokens, jobs[t] # NoJob PROVE Gated(t, jobs[t].bundle)'
      BY DEF JobsGated
    <2>1. Gated(t, jobs[t].bundle) /\ jobs[t].bundle \in Pinned
      BY DEF Held, JobsGated, TypeOK
    <2>2. PICK b \in Pinned : b = jobs[t].bundle
      BY <2>1
    <2>3. Gated(t, b)'
      BY <2>1, <2>2, StaysGated DEF TypeOK
    <2> QED BY <2>2, <2>3
  <1>3. (RunsRise /\ TreesBeside /\ StressOfOwnRaw /\ NoUnseenLoss /\ OneOrigin)'
    BY FilesStay
  <1> QED BY <1>1, <1>2, <1>3 DEF Held

LEMMA AssembleStep ==
    ASSUME TypeOK, Held, NEW t \in Tokens, Assemble(t)
    PROVE  Held'
  <1>0. Blocks \subseteq Nat /\ runs \in Nat /\ runs' = runs + 1
    BY StoreAssumption DEF Blocks, Assemble, TypeOK
  <1>1. PICK count \in Counts :
            /\ Gate(t, Bundle(t, count))
            /\ jobs' = [jobs EXCEPT ![t] = [step |-> "raw", bundle |-> Bundle(t, count)]]
    BY DEF Assemble
  <1> DEFINE b == Bundle(t, count)
  <1>2. /\ b.token = t /\ b.block = head /\ b.run = runs + 1 /\ b.count = count
        /\ b.first <=> At(bundles, t) = {}
    BY DEF Bundle, IsFirstRun
  <1>3. UNCHANGED <<head, bundles, folds>>
    BY DEF Assemble, world
  <1>4. BundlesNamed'
    BY <1>0, <1>3 DEF Held, BundlesNamed, At, TypeOK, Pinned
  <1>5. \A c \in At(bundles, t) : c <= head /\ bundles[t][c].run < runs + 1
    <2> SUFFICES ASSUME NEW c \in At(bundles, t)
                 PROVE  c <= head /\ bundles[t][c].run < runs + 1
      OBVIOUS
    <2>1. bundles[t][c].run \in Nat
      BY DEF At, TypeOK, Pinned
    <2>2. c <= head /\ bundles[t][c].run <= runs
      BY DEF Held, BundlesNamed
    <2> QED BY <1>0, <2>1, <2>2
  <1>6. b.first <=> Before(t, head) = {}
    <2>1. b.first \/ LoadPrior(t, head) # None
      BY <1>1, <1>2 DEF Gate, PriorKnown
    <2> QED BY <1>2, <2>1 DEF LoadPrior, Before
  <1>7. Before(t, head) # {} => count >= LoadPrior(t, head).count
    <2> SUFFICES ASSUME Before(t, head) # {} PROVE count >= LoadPrior(t, head).count
      OBVIOUS
    <2>1. Max(Before(t, head)) \in At(bundles, t)
      <3>1. Before(t, head) \subseteq Blocks
        BY DEF Before, At
      <3> QED BY <3>1, LastBlock DEF Before
    <2>2. LoadPrior(t, head) # None
      BY <2>1 DEF LoadPrior, At
    <2> QED BY <1>1, <1>2, <1>6, <2>2 DEF Gate, CountHolds
  <1>8. JobsGated'
    <2> SUFFICES ASSUME NEW o \in Tokens, jobs'[o] # NoJob PROVE Gated(o, jobs[o].bundle)'
      BY DEF JobsGated
    <2>1. CASE o = t
      <3>1. PICK p : p = b
        OBVIOUS
      <3>2. jobs'[o].bundle = p
        BY <1>1, <2>1, <3>1 DEF TypeOK
      <3>3. /\ p.token = t /\ p.block = head /\ p.run = runs + 1 /\ p.count = count
            /\ p.first <=> Before(t, head) = {}
        BY <1>2, <1>6, <3>1
      <3>4. /\ At(bundles, t)' = At(bundles, t)
            /\ Before(t, p.block)' = Before(t, p.block)
            /\ LoadPrior(t, p.block)' = LoadPrior(t, p.block)
        BY <1>3, SameShelf
      <3>5. head' = head /\ bundles' = bundles /\ head <= head /\ runs + 1 <= runs'
        BY <1>0, <1>3 DEF TypeOK
      <3>6. Gated(t, p)'
        BY <1>5, <1>7, <3>3, <3>4, <3>5 DEF Gated
      <3> QED BY <2>1, <3>2, <3>6
    <2>2. CASE o # t
      <3>1. jobs'[o] = jobs[o] /\ jobs[o] # NoJob
        BY <1>1, <2>2 DEF TypeOK
      <3>2. PICK p \in Pinned : p = jobs[o].bundle /\ Gated(o, p)
        BY <3>1 DEF Held, JobsGated, TypeOK
      <3>3. Gated(o, p)'
        <4>1. head' = head /\ bundles' = bundles /\ head \in Nat /\ head <= head /\ runs <= runs'
          BY <1>0, <1>3 DEF TypeOK
        <4> QED BY <1>0, <3>2, <4>1, StaysGated
      <3> QED BY <3>1, <3>2, <3>3
    <2> QED BY <2>1, <2>2
  <1>9. (RunsRise /\ TreesBeside /\ StressOfOwnRaw /\ NoUnseenLoss /\ OneOrigin)'
    BY <1>3, FilesStay
  <1> QED BY <1>4, <1>8, <1>9 DEF Held

\* A run that ends early, or writes its raw dump, is no news to the shelves.
LEMMA JobStep ==
    ASSUME TypeOK, Held, NEW t \in Tokens, WriteRaw(t) \/ StopRun(t)
    PROVE  Held'
  <1>1. UNCHANGED <<head, bundles, folds, runs>>
    BY DEF WriteRaw, StopRun, world
  <1>2. head \in Nat /\ runs \in Nat
    BY StoreAssumption DEF TypeOK, Blocks
  <1>3. ASSUME NEW o \in Tokens, jobs'[o] # NoJob
        PROVE  jobs[o] # NoJob /\ jobs'[o].bundle = jobs[o].bundle
    <2>1. CASE WriteRaw(t)
      <3>1. jobs[t].step = "raw" /\ jobs[t] # NoJob
        BY <2>1 DEF WriteRaw, NoJob
      <3>2. CASE o = t
        BY <2>1, <3>1, <3>2 DEF WriteRaw, TypeOK, NoJob
      <3>3. CASE o # t
        BY <1>3, <2>1, <3>3 DEF WriteRaw, TypeOK
      <3> QED BY <3>2, <3>3
    <2>2. CASE StopRun(t)
      BY <1>3, <2>2 DEF StopRun, TypeOK
    <2> QED BY <2>1, <2>2
  <1>4. JobsGated'
    <2> SUFFICES ASSUME NEW o \in Tokens, jobs'[o] # NoJob PROVE Gated(o, jobs[o].bundle)'
      BY DEF JobsGated
    <2>1. PICK b \in Pinned : b = jobs[o].bundle /\ Gated(o, b)
      BY <1>3 DEF Held, JobsGated, TypeOK
    <2>2. Gated(o, b)'
      BY <1>1, <1>2, <2>1, StaysGated
    <2> QED BY <1>3, <2>1, <2>2
  <1>5. BundlesNamed'
    BY <1>1 DEF Held, BundlesNamed, At
  <1> QED BY <1>1, <1>4, <1>5, FilesStay DEF Held

\* The promoted bundle goes last of its shelf and stands for all it replaces.
LEMMA PromoteStep ==
    ASSUME TypeOK, Held, NEW t \in Tokens, Promote(t)
    PROVE  Held'
  <1>1. PICK b \in Pinned : b = jobs[t].bundle /\ Gated(t, b)
    BY JobBundle DEF Promote, Held, JobsGated
  <1>2. /\ bundles' = [bundles EXCEPT ![t][b.block] = b] /\ jobs' = [jobs EXCEPT ![t] = NoJob]
        /\ UNCHANGED <<head, folds, runs>>
    BY <1>1 DEF Promote, world
  <1>3. /\ b.block \in Blocks /\ b.run \in Nat /\ b # None /\ Blocks \subseteq Nat
        /\ b.block \in Nat /\ runs \in Nat /\ head \in Nat
    <2>1. Blocks \subseteq Nat
      BY StoreAssumption DEF Blocks
    <2>2. b.block \in Blocks /\ b.run \in Nat /\ b # None
      BY <1>1, FileAssumption DEF Pinned
    <2> QED BY <2>1, <2>2 DEF TypeOK
  <1>4. /\ At(bundles, t)' = At(bundles, t) \cup {b.block}
        /\ bundles'[t][b.block] = b
        /\ \A c \in Blocks : c # b.block => bundles'[t][c] = bundles[t][c]
    BY <1>2, <1>3 DEF At, TypeOK
  <1>5. \A o \in Tokens : o # t =>
            bundles'[o] = bundles[o] /\ At(bundles, o)' = At(bundles, o)
    BY <1>2 DEF At, TypeOK
  <1>6. \A c \in At(bundles, t) : c \in Blocks /\ c <= b.block /\ bundles[t][c].run < b.run
    BY <1>1 DEF Gated, At
  <1>7. BundlesNamed'
    <2> SUFFICES ASSUME NEW o \in Tokens, NEW c \in At(bundles, o)'
                 PROVE  /\ bundles'[o][c].token = o /\ bundles'[o][c].block = c
                        /\ c <= head' /\ bundles'[o][c].run <= runs'
      BY DEF BundlesNamed
    <2>1. CASE o = t /\ c = b.block
      BY <1>1, <1>2, <1>4, <2>1 DEF Gated
    <2>2. CASE ~(o = t /\ c = b.block)
      <3>1. c \in At(bundles, o) /\ bundles'[o][c] = bundles[o][c]
        BY <1>4, <1>5, <1>6, <2>2
      <3> QED BY <1>2, <3>1 DEF Held, BundlesNamed
    <2> QED BY <2>1, <2>2
  <1>8. RunsRise'
    <2> SUFFICES ASSUME NEW o \in Tokens, NEW c \in At(bundles, o)', NEW d \in At(bundles, o)', c < d
                 PROVE  bundles'[o][c].run < bundles'[o][d].run
      BY DEF RunsRise
    <2>1. CASE o # t
      BY <1>5, <2>1 DEF Held, RunsRise
    <2>2. CASE o = t
      <3>1. c \in Nat /\ d \in Nat /\ b.block \in Nat
        BY <1>3, <1>4, <1>6, <2>2
      <3>2. c # b.block /\ c \in At(bundles, t) /\ bundles'[t][c] = bundles[t][c]
        BY <1>3, <1>4, <1>6, <2>2, <3>1
      <3>3. CASE d = b.block
        BY <1>4, <1>6, <2>2, <3>2, <3>3
      <3>4. CASE d # b.block
        BY <1>4, <1>6, <2>2, <3>2, <3>4 DEF Held, RunsRise
      <3> QED BY <3>3, <3>4
    <2> QED BY <2>1, <2>2
  <1>9. TreesBeside'
    <2> SUFFICES ASSUME NEW o \in Tokens, NEW c \in At(trees, o)
                 PROVE  /\ c \in At(bundles, o)' /\ trees[o][c].block = c
                        /\ trees[o][c].run <= bundles'[o][c].run
      BY <1>2 DEF TreesBeside, At, folds
    <2>1. /\ c \in At(bundles, o) /\ trees[o][c].block = c
          /\ trees[o][c].run <= bundles[o][c].run
      BY DEF Held, TreesBeside
    <2>2. trees[o][c].run \in Nat /\ bundles[o][c].run \in Nat
      <3>1. trees[o][c] \in Fold(o) /\ bundles[o][c] \in Pinned
        BY <2>1 DEF At, TypeOK
      <3> QED BY <3>1 DEF Fold, Pinned
    <2>3. CASE o = t /\ c = b.block
      BY <1>3, <1>4, <1>6, <2>1, <2>2, <2>3
    <2>4. CASE ~(o = t /\ c = b.block)
      BY <1>4, <1>5, <1>6, <2>1, <2>4
    <2> QED BY <2>3, <2>4
  <1>10. (StressOfOwnRaw /\ OneOrigin)'
    BY <1>2 DEF Held, StressOfOwnRaw, OneOrigin, At, folds
  <1>11. ASSUME NEW o \in Tokens, NEW c, o = t => c <= b.block /\ c \in Nat
         PROVE  Before(o, c)' = Before(o, c) /\ LoadPrior(o, c)' = LoadPrior(o, c)
    <2>0. o = t => \A d \in Blocks : d < c => d # b.block
      BY <1>3, <1>11
    <2>1. Before(o, c)' = Before(o, c)
      <3>1. CASE o = t
        <4>1. ~(b.block < c)
          BY <1>3, <2>0, <3>1
        <4> QED BY <1>4, <3>1, <4>1 DEF Before
      <3>2. CASE o # t
        BY <1>5, <3>2 DEF Before
      <3> QED BY <3>1, <3>2
    <2>2. Before(o, c) # {} => bundles'[o][Max(Before(o, c))] = bundles[o][Max(Before(o, c))]
      <3> SUFFICES ASSUME Before(o, c) # {}
                   PROVE  bundles'[o][Max(Before(o, c))] = bundles[o][Max(Before(o, c))]
        OBVIOUS
      <3>1. Before(o, c) \subseteq Blocks
        BY DEF Before, At
      <3>2. PICK d \in Before(o, c) : d = Max(Before(o, c))
        BY <3>1, LastBlock
      <3>3. CASE o = t
        <4>1. d # b.block
          BY <2>0, <3>1, <3>3 DEF Before
        <4> QED BY <1>4, <3>1, <3>2, <3>3, <4>1
      <3>4. CASE o # t
        BY <1>5, <3>2, <3>4
      <3> QED BY <3>3, <3>4
    <2> QED BY <2>1, <2>2 DEF LoadPrior
  <1>12. JobsGated'
    <2> SUFFICES ASSUME NEW o \in Tokens, jobs'[o] # NoJob PROVE Gated(o, jobs[o].bundle)'
      BY DEF JobsGated
    <2>1. o # t /\ jobs'[o] = jobs[o]
      BY <1>2 DEF TypeOK
    <2>2. PICK p \in Pinned : p = jobs[o].bundle /\ Gated(o, p)
      BY <2>1 DEF Held, JobsGated, TypeOK
    <2>3. Before(o, p.block)' = Before(o, p.block) /\ LoadPrior(o, p.block)' = LoadPrior(o, p.block)
      BY <1>11, <2>1
    <2>4. Gated(o, p)'
      BY <1>2, <1>5, <2>1, <2>2, <2>3 DEF Gated
    <2> QED BY <2>1, <2>2, <2>4
  <1>13. NoUnseenLoss'
    <2> SUFFICES ASSUME NEW o \in Tokens, NEW c \in At(bundles, o)'
                 PROVE  /\ bundles'[o][c].first <=> Before(o, c)' = {}
                        /\ Before(o, c)' # {} => bundles'[o][c].count >= LoadPrior(o, c)'.count
      BY DEF NoUnseenLoss, LoadPrior
    <2>1. Before(o, c)' = Before(o, c) /\ LoadPrior(o, c)' = LoadPrior(o, c)
      <3>1. ASSUME o = t PROVE c \in Nat /\ c <= b.block
        <4>1. c \in At(bundles, t) \/ c = b.block
          BY <1>4, <3>1
        <4>2. CASE c \in At(bundles, t)
          BY <1>3, <1>6, <4>2
        <4>3. CASE c = b.block
          BY <1>3, <4>3
        <4> QED BY <4>1, <4>2, <4>3
      <3> QED BY <1>11, <3>1
    <2>2. CASE o = t /\ c = b.block
      BY <1>1, <1>4, <2>1, <2>2 DEF Gated
    <2>3. CASE ~(o = t /\ c = b.block)
      <3>1. c \in At(bundles, o) /\ bundles'[o][c] = bundles[o][c]
        BY <1>4, <1>5, <1>6, <2>3
      <3> QED BY <2>1, <3>1 DEF Held, NoUnseenLoss, LoadPrior
    <2> QED BY <2>2, <2>3
  <1> QED BY <1>7, <1>8, <1>9, <1>10, <1>12, <1>13 DEF Held

\* A fold lies at the block of the latest bundle and carries its run.
LEMMA TreeStep ==
    ASSUME TypeOK, Held, NEW t \in Tokens, Tree(t)
    PROVE  Held'
  <1>1. PICK b \in At(bundles, t) : Latest(bundles, t) = bundles[t][b]
    BY LatestIsThere DEF Tree
  <1>2. bundles[t][b].block = b /\ b \in Blocks
    BY <1>1 DEF Held, BundlesNamed, At
  <1>3. /\ trees' = [trees EXCEPT ![t][b] = Folded(t)]
        /\ UNCHANGED <<head, bundles, stress, reports, jobs, runs>>
    BY <1>1, <1>2 DEF Tree, world
  <1>4. Folded(t).run = bundles[t][b].run /\ Folded(t).block = b
    BY <1>1, <1>2 DEF Folded
  <1>5. bundles[t][b].run <= bundles[t][b].run
    <2>1. bundles[t][b].run \in Nat
      BY <1>1 DEF At, TypeOK, Pinned
    <2> QED BY <2>1
  <1>6. TreesBeside'
    <2> SUFFICES ASSUME NEW o \in Tokens, NEW c \in Blocks, trees'[o][c] # None
                 PROVE  /\ c \in At(bundles, o) /\ trees'[o][c].block = c
                        /\ trees'[o][c].run <= bundles[o][c].run
      BY <1>3 DEF TreesBeside, At
    <2>1. CASE o = t /\ c = b
      <3>1. trees'[o][c] = Folded(t)
        BY <1>2, <1>3, <2>1 DEF TypeOK
      <3> QED BY <1>1, <1>4, <1>5, <2>1, <3>1
    <2>2. CASE ~(o = t /\ c = b)
      <3>1. trees'[o][c] = trees[o][c]
        BY <1>3, <2>2 DEF TypeOK
      <3> QED BY <3>1 DEF Held, TreesBeside, At
    <2> QED BY <2>1, <2>2
  <1>7. (BundlesNamed /\ RunsRise /\ StressOfOwnRaw /\ OneOrigin)'
    BY <1>3 DEF Held, BundlesNamed, RunsRise, StressOfOwnRaw, OneOrigin, At
  <1>8. NoUnseenLoss'
    BY <1>3, SameShelf DEF Held, NoUnseenLoss
  <1>9. JobsGated'
    <2> SUFFICES ASSUME NEW o \in Tokens, jobs[o] # NoJob PROVE Gated(o, jobs[o].bundle)'
      BY <1>3 DEF JobsGated
    <2>1. PICK p \in Pinned : p = jobs[o].bundle /\ Gated(o, p)
      BY DEF Held, JobsGated, TypeOK
    <2>2. head \in Nat /\ runs \in Nat /\ head <= head /\ runs <= runs
      BY StoreAssumption DEF TypeOK, Blocks
    <2>3. Gated(o, p)'
      BY <1>3, <2>1, <2>2, StaysGated
    <2> QED BY <1>3, <2>1, <2>3
  <1> QED BY <1>6, <1>7, <1>8, <1>9 DEF Held

\* A stress report is made from the raw positions of the bundle's own token.
LEMMA StressStep ==
    ASSUME TypeOK, Held, NEW t \in Tokens, Stress(t)
    PROVE  StressOfOwnRaw'
  <1>1. PICK b \in At(bundles, t) : Latest(bundles, t) = bundles[t][b]
    BY LatestIsThere DEF Stress, InputsAgree
  <1>2. bundles[t][b].block = b /\ bundles[t][b].token = t /\ b \in Blocks
    BY <1>1 DEF Held, BundlesNamed, At
  <1>3. raw[b] = t
    BY <1>1, <1>2 DEF Stress, InputsAgree, RawIs
  <1> DEFINE s == [run |-> bundles[t][b].run, tree |-> Latest(trees, t), raw |-> raw[b]]
  <1>4. stress' = [stress EXCEPT ![t][b] = s] /\ s.raw = t
    BY <1>1, <1>2, <1>3 DEF Stress
  <1> HIDE DEF s
  <1>5. ASSUME NEW o \in Tokens, NEW c \in Blocks, stress'[o][c] # None
        PROVE  stress'[o][c].raw = o
    <2>1. CASE o = t /\ c = b
      <3>1. stress'[o][c] = s
        BY <1>2, <1>4, <2>1 DEF TypeOK
      <3> QED BY <1>4, <2>1, <3>1
    <2>2. CASE ~(o = t /\ c = b)
      <3>1. stress'[o][c] = stress[o][c]
        BY <1>4, <2>2 DEF TypeOK
      <3> QED BY <1>5, <3>1 DEF Held, StressOfOwnRaw, At
    <2> QED BY <2>1, <2>2
  <1> QED BY <1>5 DEF StressOfOwnRaw, At

\* What a report is made from agrees when it is made.
LEMMA ReportStep ==
    ASSUME TypeOK, Held, NEW t \in Tokens, Report(t)
    PROVE  OneOrigin'
  <1>1. PICK b \in At(bundles, t) : Latest(bundles, t) = bundles[t][b]
    BY LatestIsThere DEF Report, InputsAgree
  <1>2. Latest(bundles, t).token = t
    BY <1>1 DEF Held, BundlesNamed
  <1>3. /\ Latest(trees, t).run = Latest(bundles, t).run
        /\ Latest(stress, t) # None
        /\ Latest(stress, t).run = Latest(bundles, t).run
        /\ Latest(stress, t).tree = Latest(trees, t)
    BY DEF Report, InputsAgree, StressAgrees
  <1>4. Latest(stress, t).raw = t
    BY <1>3, LatestIsThere DEF Held, StressOfOwnRaw
  <1>5. reports' = [reports EXCEPT ![t] = [bundle |-> Latest(bundles, t), tree |-> Latest(trees, t),
                                            stress |-> Latest(stress, t)]]
    BY DEF Report
  <1> QED BY <1>2, <1>3, <1>4, <1>5 DEF OneOrigin, Held, TypeOK
-------------------------------------------------------------------------------
(***************************************************************************)
(* Theorems.                                                               *)
(***************************************************************************)
LEMMA InitHeld == Init => IInv
  <1> SUFFICES ASSUME Init PROVE IInv
    OBVIOUS
  <1>1. TypeOK
    <2>1. FirstBlock \in Blocks
      BY StoreAssumption DEF Blocks
    <2> QED BY <2>1 DEF Init, TypeOK
  <1>2. \A t \in Tokens : At(bundles, t) = {} /\ At(trees, t) = {} /\ At(stress, t) = {}
    BY DEF Init, At
  <1>3. BundlesNamed /\ RunsRise /\ TreesBeside /\ StressOfOwnRaw /\ NoUnseenLoss
    BY <1>2 DEF BundlesNamed, RunsRise, TreesBeside, StressOfOwnRaw, NoUnseenLoss
  <1>4. JobsGated /\ OneOrigin
    BY DEF Init, JobsGated, OneOrigin
  <1> QED BY <1>1, <1>3, <1>4 DEF IInv

LEMMA StepHeld == IInv /\ [Next]_vars => IInv'
  <1> SUFFICES ASSUME IInv, [Next]_vars PROVE IInv'
    OBVIOUS
  <1>1. TypeOK /\ Held /\ TypeOK'
    BY TypeStep DEF IInv, Held
  <1>2. Held'
    <2>0. Blocks \subseteq Nat /\ head \in Nat /\ head' \in Nat
      BY <1>1, StoreAssumption DEF TypeOK, Blocks
    <2>1. CASE NewBlock
      BY <1>1, <2>0, <2>1, QuietStep DEF NewBlock
    <2>2. ASSUME NEW t \in Tokens, EditSheet(t) \/ LogIntake(t) PROVE Held'
      BY <1>1, <2>0, <2>2, QuietStep DEF EditSheet, LogIntake
    <2>3. ASSUME NEW t \in Tokens, Assemble(t) PROVE Held'
      BY <1>1, <2>3, AssembleStep
    <2>4. ASSUME NEW t \in Tokens, WriteRaw(t) \/ StopRun(t) PROVE Held'
      BY <1>1, <2>4, JobStep
    <2>5. ASSUME NEW t \in Tokens, Promote(t) PROVE Held'
      BY <1>1, <2>5, PromoteStep
    <2>6. ASSUME NEW t \in Tokens, Tree(t) PROVE Held'
      BY <1>1, <2>6, TreeStep
    <2>7. ASSUME NEW t \in Tokens, Stress(t) PROVE Held'
      <3>1. UNCHANGED <<head, bundles, trees, reports, jobs, runs>>
        BY <2>7 DEF Stress, world
      <3>2. StressOfOwnRaw'
        BY <1>1, <2>7, StressStep
      <3> QED BY <1>1, <3>1, <3>2, RestStays
    <2>8. ASSUME NEW t \in Tokens, Report(t) PROVE Held'
      <3>1. UNCHANGED <<head, bundles, trees, stress, jobs, runs>>
        BY <2>8 DEF Report, world
      <3>2. OneOrigin'
        BY <1>1, <2>8, ReportStep
      <3>3. StressOfOwnRaw'
        BY <1>1, <3>1 DEF StressOfOwnRaw, Held, At
      <3> QED BY <1>1, <3>1, <3>2, <3>3, RestStays
    <2>9. CASE UNCHANGED vars
      <3>1. runs' = runs /\ head <= head' /\ UNCHANGED <<bundles, folds, jobs>>
        BY <2>0, <2>9 DEF vars, world
      <3> QED BY <1>1, <2>0, <3>1, QuietStep
    <2> QED BY <2>1, <2>2, <2>3, <2>4, <2>5, <2>6, <2>7, <2>8, <2>9 DEF Next
  <1> QED BY <1>1, <1>2 DEF IInv, Held

\* The inductive invariant: every bundle is under its name, runs rise with blocks,
\* trees lie beside their bundles and a gated bundle is still the next one.
THEOREM Invariant == Spec => []IInv
  BY InitHeld, StepHeld, PTL DEF Spec

\* A report's tree, stress report and raw positions are those of its bundle,
\* whatever another token's stages did in between (load_inputs, assert_raw_hash).
THEOREM ReportsHaveOneOrigin == Spec => []OneOrigin
  <1>1. IInv => OneOrigin
    BY DEF IInv
  <1> QED BY <1>1, Invariant, PTL

\* DET-63 and DET-86 over the whole store: what the gate compared with its prior
\* is still what precedes the bundle when it is promoted.
THEOREM LossesAreSeen == Spec => []NoUnseenLoss
  <1>1. IInv => NoUnseenLoss
    BY DEF IInv
  <1> QED BY <1>1, Invariant, PTL

LEMMA SameLatest ==
    ASSUME NEW s1, NEW s2, NEW t, s1[t] = s2[t]
    PROVE  Latest(s1, t) = Latest(s2, t)
  <1>1. At(s1, t) = At(s2, t)
    BY DEF At
  <1> QED BY <1>1 DEF Latest

\* A bundle that is folded again keeps the place its tree had: a tree of the same
\* run is a tree of the same block, for the later block is the later run's.
LEMMA FoldedAgain ==
    ASSUME IInv, NEW t \in Tokens, Tree(t), Latest(trees, t) # None,
           Latest(trees', t).run = Latest(trees, t).run
    PROVE  Latest(trees', t) # None /\ Latest(trees', t).block = Latest(trees, t).block
  <1>0. TypeOK /\ BundlesNamed /\ RunsRise /\ TreesBeside
    BY DEF IInv
  <1>1. PICK b \in At(bundles, t) : /\ Latest(bundles, t) = bundles[t][b]
                                   /\ \A c \in At(bundles, t) : c <= b
    BY LatestIsThere DEF Tree
  <1>2. PICK c \in At(trees, t) : Latest(trees, t) = trees[t][c]
    BY LatestIsThere
  <1>3. c \in At(bundles, t) /\ trees[t][c].block = c /\ trees[t][c].run <= bundles[t][c].run
    BY <1>0 DEF TreesBeside
  <1>4. bundles[t][b].block = b /\ b \in Blocks /\ c \in Blocks /\ Blocks \subseteq Nat
    BY <1>0, <1>1, <1>3, StoreAssumption DEF BundlesNamed, At, Blocks
  <1>5. trees' = [trees EXCEPT ![t][b] = Folded(t)]
    BY <1>1, <1>4 DEF Tree
  <1>6. Folded(t) # None /\ Folded(t).run = bundles[t][b].run /\ Folded(t).block = b
    <2>1. Folded(t) \in Fold(t)
      BY <1>0, FoldedType DEF Tree
    <2> QED BY <1>1, <1>4, <2>1, FileAssumption DEF Folded
  <1>7. /\ trees'[t][b] = Folded(t)
        /\ \A d \in Blocks : d # b => trees'[t][d] = trees[t][d]
    BY <1>4, <1>5 DEF IInv, TypeOK
  <1>8. b \in At(trees', t) /\ \A d \in At(trees', t) : d <= b
    <2>1. b \in At(trees', t)
      BY <1>4, <1>6, <1>7 DEF At
    <2>2. ASSUME NEW d \in At(trees', t) PROVE d <= b
      <3>1. CASE d = b
        BY <1>4, <3>1
      <3>2. CASE d # b
        <4>1. d \in At(trees, t)
          BY <1>7, <3>2 DEF At
        <4> QED BY <1>0, <1>1, <4>1 DEF TreesBeside
      <3> QED BY <3>1, <3>2
    <2> QED BY <2>1, <2>2
  <1>9. Latest(trees', t) = Folded(t)
    BY <1>7, <1>8, LatestAt
  <1>10. c = b
    <2>1. ~(c < b)
      <3> SUFFICES ASSUME c < b PROVE FALSE
        OBVIOUS
      <3>1. bundles[t][c].run < bundles[t][b].run
        BY <1>0, <1>3 DEF RunsRise
      <3>2. trees[t][c].run = bundles[t][b].run
        BY <1>2, <1>6, <1>9
      <3>3. bundles[t][c] \in Pinned /\ bundles[t][b] \in Pinned
        BY <1>0, <1>3 DEF TypeOK, At
      <3>4. bundles[t][c].run \in Nat /\ bundles[t][b].run \in Nat
        BY <3>3 DEF Pinned
      <3> QED BY <1>3, <3>1, <3>2, <3>4
    <2> QED BY <1>1, <1>3, <1>4, <2>1
  <1> QED BY <1>2, <1>3, <1>6, <1>9, <1>10

\* tree.py: re-folding one token's latest bundle never moves the links the other
\* token's fold would write, so a linked pair converges in one re-fold.
THEOREM OneRefoldSettles == Spec => RefoldSettles
  <1> DEFINE Settles(t, o) ==
          /\ t # o /\ trees'[t] # trees[t]
          /\ Latest(trees, t) # None /\ Latest(bundles, o) # None
          /\ Latest(trees, t)'.run = Latest(trees, t).run
          => Folded(o)' = Folded(o)
  <1>1. IInv /\ [Next]_vars => [\A t, o \in Linkable : Settles(t, o)]_trees
    <2> SUFFICES ASSUME IInv, Next, NEW t \in Linkable, NEW o \in Linkable,
                        t # o, trees'[t] # trees[t], Latest(trees, t) # None,
                        Latest(trees', t).run = Latest(trees, t).run
                 PROVE  Folded(o)' = Folded(o)
      BY DEF vars, folds
    <2>0. TypeOK /\ t \in Tokens /\ o \in Tokens
      BY StoreAssumption DEF IInv
    <2>1. PICK q \in Tokens : Tree(q)
      BY DEF Next, NewBlock, EditSheet, LogIntake, Assemble, WriteRaw, Promote, StopRun, Stress,
             Report, folds
    <2>2. q = t /\ bundles' = bundles /\ \A p \in Tokens : p # t => trees'[p] = trees[p]
      BY <2>0, <2>1 DEF Tree, TypeOK
    <2>3. /\ Latest(trees', t) # None
          /\ Latest(trees', t).block = Latest(trees, t).block
      BY <2>0, <2>1, <2>2, FoldedAgain
    <2>4. Latest(bundles', o) = Latest(bundles, o)
      BY <2>2
    <2>5. \A p \in Linkable \ {t} : Latest(trees', p) = Latest(trees, p)
      BY <2>2, SameLatest, StoreAssumption
    <2>6. Links(o)' = Links(o)
      BY <2>3, <2>5 DEF Links
    <2> QED BY <2>4, <2>6 DEF Folded
  <1> QED BY <1>1, Invariant, PTL DEF Spec, RefoldSettles

=================================================================================
