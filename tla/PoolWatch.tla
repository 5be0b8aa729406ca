------------------------------- MODULE PoolWatch -------------------------------
(***************************************************************************)
(* The frozen set of exit pools and the watch kept on it.  freeze.py picks *)
(* the set once, from every pool discovery found; discovery.py then reads  *)
(* it at every run beside the whole pointer catalogue, which may list more *)
(* pools, or fewer; DET-10 and DET-29(a) of the harness compare the rows   *)
(* with the signed file, the event log and the last promoted bundle.  The  *)
(* set never changes by itself: what a run finds can only stop it, until   *)
(* the owner freezes again.                                                *)
(*                                                                         *)
(* A pool is its address, a number, for the order of ties; its value is    *)
(* what its eligible coins hold at par, in units of Floor's.               *)
(***************************************************************************)
EXTENDS Integers, FiniteSets, Totals

CONSTANTS None,
          Pools,        \* every pool that holds the token, by address
          Tokens, KeepersOf,     \* of a token: its stabilizer's pools
          Structural,   \* pools against a volatile node or a wrapper of the token
          Sizes,        \* values a pool may have
          Floor,        \* DUST_FLOOR_USD
          MaxMoves      \* changes of the world and failed reads (model bound)

ASSUME PoolAssumption ==
    /\ Pools \subseteq Nat /\ IsFiniteSet(Pools)
    /\ \A t \in Tokens : KeepersOf[t] \subseteq Pools \ Structural
    /\ Structural \subseteq Pools
    /\ Sizes \subseteq Nat /\ Floor \in Nat \ {0} /\ MaxMoves \in Nat

VARIABLES token,    \* the token whose pools these are, for good
          tvl,      \* par value of each pool on chain
          listed,   \* pools the pointer catalogue lists
          indexed,  \* pools their factory enumerates at their index
          fs,       \* the set file, or None before the first freeze
          pinned,   \* pools with a [[frozen_pool_index]] row
          chained,  \* the last freeze / intake_trigger event names this file
          prior,    \* the last promoted bundle, or None
          moves

chain == <<token, tvl, listed, indexed, moves>>
signed == <<fs, pinned, chained>>
vars == <<chain, signed, prior>>

Keepers == KeepersOf[token]

Value(S) == Total(tvl, S)
-------------------------------------------------------------------------------
(***************************************************************************)
(* build_freeze.                                                           *)
(***************************************************************************)

\* classify_exclusions takes the structural pools out.
Eligible == listed \ Structural

\* The dust floor, which a keeper's pool need not clear.
Above == {p \in Eligible : tvl[p] >= Floor \/ p \in Keepers}

Reaches(S) == 100 * Value(S) >= 95 * Value(Eligible)

\* Mutant: the smallest pools come first.
Behind(p, q) == tvl[p] < tvl[q] \/ (tvl[p] = tvl[q] /\ p <= q)

Ahead(p, q) == tvl[p] > tvl[q] \/ (tvl[p] = tvl[q] /\ p <= q)

UpTo(p) == {q \in Above : Ahead(q, p)}

\* The shortest prefix, largest first, that reaches 95 % of what was found.
Prefix == {p \in Above : ~Reaches(UpTo(p) \ {p})}

Chosen == Prefix \cup (Above \cap Keepers)

\* In hundredths of a percent, half to even, as quantize("0.0001") rounds.
Coverage ==
    LET total == Value(Eligible)
        q == (10000 * Value(Chosen)) \div total
        r == (10000 * Value(Chosen)) % total
    IN  IF 2 * r > total \/ (2 * r = total /\ q % 2 = 1) THEN q + 1 ELSE q

Excluded ==
    [p \in listed \ Chosen |->
        IF p \in Structural THEN "structural"
        ELSE IF p \in Above THEN "tail" ELSE "below_dust_floor"]

-------------------------------------------------------------------------------
(***************************************************************************)
(* build_pool_rows and detectors.                                          *)
(***************************************************************************)
Members == DOMAIN fs.pools

\* An empty catalogue is a change of its shape, and no run.
Answered == listed # {}

\* What the run takes a pool to hold: a pool in F loses a side to a failed
\* balances(i), one the pointer has dropped shows nothing.
Shown(p, F) ==
    IF p \notin listed THEN 0 ELSE IF p \in F THEN tvl[p] \div 2 ELSE tvl[p]

\* A listed pool outside the set is a row if it clears the floor.
Listed(F) == {p \in listed : p \in Members \/ Shown(p, F) >= Floor}

\* New is what the freeze did not know or cut for its size alone.
Reason(p) ==
    IF p \in DOMAIN fs.excluded /\ fs.excluded[p] # "below_dust_floor"
    THEN fs.excluded[p] ELSE "added_since_freeze"

\* Mutant: the pool is compared with what it held at the freeze.
BaselineOfFreeze(p) == fs.pools[p]

\* The last promoted bundle's figure, else the set file's.
Baseline(p) ==
    IF prior # None /\ p \in DOMAIN prior.tvl THEN prior.tvl[p] ELSE fs.pools[p]

Moved(p, F) ==
    LET d == Shown(p, F) - Baseline(p)
    IN  Baseline(p) # 0 /\ 100 * (IF d < 0 THEN -d ELSE d) > 50 * Baseline(p)

NewAbove(F) == {p \in Listed(F) \ Members : Reason(p) = "added_since_freeze"}
BelowFloor(F) == {p \in Members : Shown(p, F) < Floor}
MovedPools(F) == {p \in Members : Moved(p, F)}

\* frozen_pool_index: no row, no run.
PinsComplete == Members \subseteq pinned

Disappeared == Members \ indexed

(***************************************************************************)
(* DET-29(a) and DET-10.  Level 2 keeps a bundle from promotion too.       *)
(***************************************************************************)
SetFileHolds ==
    /\ \A p \in Members : p \in Keepers \/ fs.pools[p] >= Floor
    /\ fs.coverage >= 9500 \/ fs.waiver = fs.coverage

\* Mutant: the trigger reads the detector's list, which leaves the tail out.
GrownOfNew(F) == {p \in NewAbove(F) : 10 * Shown(p, F) >= fs.total}

SizeBased == {"added_since_freeze", "tail"}

\* (d)-i: a pool outside the set that is worth a tenth of it.
Grown(F) ==
    {p \in Listed(F) \ Members : Reason(p) \in SizeBased /\ 10 * Shown(p, F) >= fs.total}

\* (d)-ii: a pool of the set that is gone and was worth a tenth at the last run.
LastRun(p) ==
    IF prior = None THEN 10 * fs.pools[p] >= fs.total
    ELSE p \in DOMAIN prior.tvl /\ 10 * prior.tvl[p] >= prior.total

Lost == {p \in Disappeared : LastRun(p)}

Bundle(F) ==
    [tvl |-> [p \in Members \cup Listed(F) |-> Shown(p, F)], frozen |-> Members,
     held |-> tvl, total |-> fs.total, misread |-> F,
     new |-> NewAbove(F), below |-> BelowFloor(F), moved |-> MovedPools(F)]
-------------------------------------------------------------------------------
Init ==
    /\ token \in Tokens /\ tvl \in [Pools -> Sizes]
    /\ listed = Pools /\ indexed = Pools
    /\ fs = None /\ pinned = {} /\ chained = FALSE
    /\ prior = None /\ moves = 0

Move == moves < MaxMoves /\ moves' = moves + 1 /\ UNCHANGED <<signed, prior>>

Resize(p) ==
    /\ Move
    /\ \E s \in Sizes \ {tvl[p]} : tvl' = [tvl EXCEPT ![p] = s]
    /\ UNCHANGED <<token, listed, indexed>>

\* The catalogue drops a pool or lists it again.
Relist(p) ==
    /\ Move
    /\ listed' = IF p \in listed THEN listed \ {p} ELSE listed \cup {p}
    /\ UNCHANGED <<token, tvl, indexed>>

Vanish(p) ==
    /\ Move /\ p \in indexed
    /\ indexed' = indexed \ {p}
    /\ UNCHANGED <<token, tvl, listed>>

\* discover_and_freeze over sources that agree, then the set file is written.
\* Below the target the freeze stops unless it is given the owner's waiver, whose
\* number is the one the stop showed.
Freeze ==
    /\ Value(Eligible) > 0
    /\ fs' = [pools |-> [p \in Chosen |-> tvl[p]], excluded |-> Excluded,
              total |-> Value(Eligible), coverage |-> Coverage,
              waiver |-> IF Coverage < 9500 THEN Coverage ELSE None, target |-> None]
    /\ chained' = FALSE
    /\ UNCHANGED <<chain, pinned, prior>>

\* pool_list walked at review time.
Pin ==
    /\ fs # None
    /\ pinned' = pinned \cup (Members \cap indexed)
    /\ pinned' # pinned
    /\ UNCHANGED <<chain, fs, chained, prior>>

\* A freeze or intake_trigger event with the file's hash, or one without.
LogEvent(named) ==
    /\ fs # None
    /\ chained' = named
    /\ UNCHANGED <<chain, fs, pinned, prior>>

\* Promotion of a run at whose block one pool at most was misread, and that
\* fired nothing at Level 2.
Promote ==
    /\ fs # None /\ Answered
    /\ PinsComplete
    /\ SetFileHolds /\ chained
    /\ Lost = {}
    /\ \E F \in {{}} \cup {{p} : p \in listed} :
          /\ moves + Cardinality(F) <= MaxMoves
          /\ moves' = moves + Cardinality(F)
          /\ Grown(F) = {}
          /\ prior' = Bundle(F)
    /\ UNCHANGED <<token, tvl, listed, indexed, signed>>

Next ==
    \/ \E p \in Pools : Resize(p) \/ Relist(p) \/ Vanish(p)
    \/ Freeze \/ Pin
    \/ \E named \in BOOLEAN : LogEvent(named)
    \/ Promote

Spec == Init /\ [][Next]_vars
-------------------------------------------------------------------------------
(***************************************************************************)
(* Properties.                                                             *)
(***************************************************************************)
\* "The shortest prefix reaching 95%": no other choice of pools above the floor
\* than a freeze's own reaches the target with fewer, and it does if any can.
FreezeIsShortest ==
    [][fs' # fs /\ ~chained' =>
          \A S \in SUBSET Above : Reaches(S) =>
              Cardinality(S) >= Cardinality(Prefix) /\ Reaches(Prefix)]_vars

\* memo 5.6(i): no bundle is promoted over a listed pool outside the set that is
\* worth a tenth of it, unless what the pool is, and not its size, kept it out at
\* the freeze, or a side of it was not read.
GrowthIsNeverPromoted ==
    [][prior' # prior =>
          \A p \in listed \ (Members \cup prior'.misread) :
              tvl[p] >= Floor /\ 10 * tvl[p] >= fs.total =>
                  p \in Structural /\ p \in DOMAIN fs.excluded]_vars

\* Whatever was stopped in between: a pool of the set that shows less than half
\* of what the last promoted bundle showed is named by the next one.
FallIsDisclosed ==
    [][prior # None /\ prior' # prior =>
          \A p \in Members \cap DOMAIN prior.tvl :
              2 * prior'.tvl[p] < prior.tvl[p] => p \in prior'.moved]_vars
===============================================================================
