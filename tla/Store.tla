--------------------------------- MODULE Store ---------------------------------
(***************************************************************************)
(* The artifacts of a token and the stages that make them from each other: *)
(* run assembles a bundle at a pinned block, gates it and promotes it      *)
(* (factory/run.py); tree folds the latest bundle (factory/tree.py),       *)
(* stress the latest bundle and its tree (factory/stress.py), and report   *)
(* takes the latest of each (factory/report/__main__.py).  Every stage     *)
(* finds its inputs by the number in the file's name and trusts nothing    *)
(* but the hashes the artifacts carry.  Stages of different tokens share   *)
(* out/raw and link each other's trees; a run may stop before its last     *)
(* write; the owner edits a sheet and may forget to log it.                *)
(*                                                                         *)
(* A bundle's hash is its run's number: the header holds the start time.   *)
(***************************************************************************)
EXTENDS Integers, FiniteSets, Sequences, FiniteSetsExt

CONSTANTS None,
          Tokens,
          Linkable,     \* LINKABLE: tokens another token's pools may pair with
          FirstBlock,   \* the first block a run may pin
          MaxBlock,     \* the last one (model bound)
          Counts,       \* what n_collaterals() of a factory may answer
          MaxRuns,      \* runs of a behaviour, all tokens together (model bound)
          MaxSheet      \* versions of the sheet that is edited (model bound)

Blocks == FirstBlock .. MaxBlock

ASSUME StoreAssumption ==
    /\ Linkable \subseteq Tokens /\ None \notin Tokens
    /\ FirstBlock \in Nat /\ MaxBlock \in Nat /\ FirstBlock <= MaxBlock
    /\ MaxRuns \in Nat /\ MaxSheet \in Nat
    /\ Counts \subseteq Nat /\ Counts # {} /\ None \notin Nat

Pinned == [run : Nat, token : Tokens, block : Blocks, sheet : Nat,
           first : BOOLEAN, count : Counts]

\* A tree names the bundle it folds and the trees it links, by block and shares.
Fold(t) ==
    [run : Nat, block : Blocks,
     links : [Linkable \ {t} -> [block : Blocks, shares : Nat] \cup {None}]]

\* No file is None.
ASSUME FileAssumption ==
    /\ None \notin Pinned
    /\ \A t \in Tokens : None \notin Fold(t)

VARIABLES head,      \* the block a run started now would pin
          mirror,    \* sheet_hash of the token's mirrored sheet
          logged,    \* the sheet of the last intake_trigger event
          bundles,   \* out/bundles/<T>/<block>.json
          raw,       \* out/raw/<block>.json: whose positions it holds
          trees,     \* out/trees/<T>/<block>.json
          stress,    \* out/stress/<T>/<block>.json
          reports,   \* what the last report of the token was made from
          jobs,      \* the run of a token between its gate and its last write
          runs       \* runs that passed the gate

world == <<head, mirror, logged>>
folds == <<trees, stress, reports>>
vars == <<world, bundles, raw, folds, jobs, runs>>

NoJob == [step |-> "idle"]
-------------------------------------------------------------------------------
(***************************************************************************)
(* Finding an artifact.                                                    *)
(***************************************************************************)

At(shelf, t) == {b \in Blocks : shelf[t][b] # None}

\* latest_bundle, latest_tree, the report's pick: by the number in the name.
Latest(shelf, t) ==
    IF At(shelf, t) = {} THEN None ELSE shelf[t][Max(At(shelf, t))]

IsFirstRun(t) == At(bundles, t) = {}

Before(t, block) == {b \in At(bundles, t) : b < block}

\* Mutant: the delta checks compare with the oldest bundle.
LoadOldest(t, block) ==
    IF Before(t, block) = {} THEN None ELSE bundles[t][Min(Before(t, block))]

\* The bundle with the highest block strictly below this run's.
LoadPrior(t, block) ==
    IF Before(t, block) = {} THEN None ELSE bundles[t][Max(Before(t, block))]

Bundle(t, count) ==
    [run |-> runs + 1, token |-> t, block |-> head, sheet |-> mirror[t],
     first |-> IsFirstRun(t), count |-> count]

(***************************************************************************)
(* The rows of the harness that look outside the bundle: DET-77 (the sheet *)
(* is the mirror's and the last logged one), DET-86 (a prior unless first) *)
(* and DET-63 (fewer markets is Level 2).  Level 2 stops a run as Level 3  *)
(* does.                                                                   *)
(***************************************************************************)
SheetChained(t, b) == b.sheet = mirror[t] /\ b.sheet = logged[t]

PriorKnown(b, prior) == b.first \/ prior # None

CountHolds(b, prior) == ~b.first /\ prior # None => b.count >= prior.count

Gate(t, b) ==
    LET prior == LoadPrior(t, b.block)
    IN  SheetChained(t, b) /\ PriorKnown(b, prior) /\ CountHolds(b, prior)

\* Mutant: the whole tree is linked, what a hash of it would name.
LinksByHash(t) == [o \in Linkable \ {t} |-> Latest(trees, o)]

\* resolve_links: the other linkable tokens' trees by block, with their shares.
Links(t) ==
    [o \in Linkable \ {t} |->
        LET tree == Latest(trees, o)
        IN  IF tree = None THEN None ELSE [block |-> tree.block, shares |-> tree.run]]

Folded(t) ==
    LET b == Latest(bundles, t)
    IN  [run |-> b.run, block |-> b.block, links |-> Links(t)]

\* Mutant: the dump at the block is taken for the bundle's.
AnyRaw(b) == raw[b.block] # None

\* assert_raw_hash
RawIs(b) == raw[b.block] = b.token

\* load_inputs: the latest bundle, ITS tree, its dump, its sheet.
InputsAgree(t) ==
    LET b == Latest(bundles, t)
        tree == Latest(trees, t)
    IN  /\ b # None /\ tree # None
        /\ tree.run = b.run
        /\ RawIs(b)
        /\ b.sheet = mirror[t]

\* The latest stress report must name the bundle and the tree of the report.
StressAgrees(t) ==
    LET s == Latest(stress, t)
    IN  s # None /\ s.run = Latest(bundles, t).run /\ s.tree = Latest(trees, t)
-------------------------------------------------------------------------------
Init ==
    /\ head = FirstBlock
    /\ mirror = [t \in Tokens |-> 1]
    /\ logged = [t \in Tokens |-> 1]
    /\ bundles = [t \in Tokens |-> [b \in Blocks |-> None]]
    /\ raw = [b \in Blocks |-> None]
    /\ trees = [t \in Tokens |-> [b \in Blocks |-> None]]
    /\ stress = [t \in Tokens |-> [b \in Blocks |-> None]]
    /\ reports = [t \in Tokens |-> None]
    /\ jobs = [t \in Tokens |-> NoJob]
    /\ runs = 0

Idle(t) == jobs[t] = NoJob

\* Blocks no run pins are not counted (model bound).
NewBlock ==
    /\ head < MaxBlock /\ head - FirstBlock < runs
    /\ head' = head + 1
    /\ UNCHANGED <<mirror, logged, bundles, raw, folds, jobs, runs>>

EditSheet(t) ==
    /\ \A o \in Tokens : mirror[o] < MaxSheet
    /\ mirror' = [mirror EXCEPT ![t] = @ + 1]
    /\ UNCHANGED <<head, logged, bundles, raw, folds, jobs, runs>>

LogIntake(t) ==
    /\ logged[t] # mirror[t]
    /\ logged' = [logged EXCEPT ![t] = mirror[t]]
    /\ UNCHANGED <<head, mirror, bundles, raw, folds, jobs, runs>>

\* Assemble and gate: a run the harness stops has written nothing (a rehearsal
\* in out/rehearsal, which no stage reads) and leaves no step.
Assemble(t) ==
    /\ Idle(t) /\ runs < MaxRuns
    /\ \E count \in Counts :
          LET b == Bundle(t, count)
          IN  /\ Gate(t, b)
              /\ jobs' = [jobs EXCEPT ![t] = [step |-> "raw", bundle |-> b]]
    /\ runs' = runs + 1
    /\ UNCHANGED <<world, bundles, raw, folds>>

\* The hand-verification sheet and the raw dump come before the bundle.
WriteRaw(t) ==
    /\ jobs[t].step = "raw"
    /\ raw' = [raw EXCEPT ![jobs[t].bundle.block] = t]
    /\ jobs' = [jobs EXCEPT ![t].step = "bundle"]
    /\ UNCHANGED <<world, bundles, folds, runs>>

Promote(t) ==
    /\ jobs[t].step = "bundle"
    /\ LET b == jobs[t].bundle
       IN  bundles' = [bundles EXCEPT ![t][b.block] = b]
    /\ jobs' = [jobs EXCEPT ![t] = NoJob]
    /\ UNCHANGED <<world, raw, folds, runs>>

\* The sheet generator raises, the disk is full, the process is stopped.
StopRun(t) ==
    /\ ~Idle(t)
    /\ jobs' = [jobs EXCEPT ![t] = NoJob]
    /\ UNCHANGED <<world, bundles, raw, folds, runs>>

\* tree: a fold whose S2 checks do not all pass goes to out/rehearsal, which
\* no stage reads.
Tree(t) ==
    /\ Idle(t) /\ Latest(bundles, t) # None
    /\ trees' = [trees EXCEPT ![t][Latest(bundles, t).block] = Folded(t)]
    /\ UNCHANGED <<world, bundles, raw, stress, reports, jobs, runs>>

\* stress: promoted with every check passing, cells, and a coherent sheet.
Stress(t) ==
    /\ Idle(t) /\ InputsAgree(t)
    /\ LET b == Latest(bundles, t)
       IN  stress' = [stress EXCEPT ![t][b.block] =
                        [run |-> b.run, tree |-> Latest(trees, t), raw |-> raw[b.block]]]
    /\ UNCHANGED <<world, bundles, raw, trees, reports, jobs, runs>>

Report(t) ==
    /\ Idle(t) /\ InputsAgree(t) /\ StressAgrees(t)
    /\ reports' = [reports EXCEPT ![t] =
                     [bundle |-> Latest(bundles, t), tree |-> Latest(trees, t),
                      stress |-> Latest(stress, t)]]
    /\ UNCHANGED <<world, bundles, raw, trees, stress, jobs, runs>>

Next ==
    \/ NewBlock
    \/ \E t \in Tokens : EditSheet(t) \/ LogIntake(t)
    \/ \E t \in Tokens : Assemble(t) \/ WriteRaw(t) \/ Promote(t) \/ StopRun(t)
    \/ \E t \in Tokens : Tree(t) \/ Stress(t) \/ Report(t)

Spec == Init /\ [][Next]_vars

TypeOK ==
    /\ head \in Blocks /\ runs \in Nat
    /\ mirror \in [Tokens -> Nat] /\ logged \in [Tokens -> Nat]
    /\ bundles \in [Tokens -> [Blocks -> Pinned \cup {None}]]
    /\ raw \in [Blocks -> Tokens \cup {None}]
    /\ DOMAIN trees = Tokens
    /\ \A t \in Tokens : trees[t] \in [Blocks -> Fold(t) \cup {None}]
    /\ DOMAIN stress = Tokens /\ \A t \in Tokens : DOMAIN stress[t] = Blocks
    /\ DOMAIN reports = Tokens
    /\ jobs \in [Tokens -> {NoJob} \cup [step : {"raw", "bundle"}, bundle : Pinned]]
-------------------------------------------------------------------------------
\* A report's figures have one origin: its tree, its stress report and the raw
\* positions under it are those of its bundle, whatever was promoted, re-folded
\* or overwritten in between by another token's run at the same block.
OneOrigin ==
    \A t \in Tokens : reports[t] # None =>
        /\ reports[t].bundle.token = t
        /\ reports[t].tree.run = reports[t].bundle.run
        /\ reports[t].stress.run = reports[t].bundle.run
        /\ reports[t].stress.tree = reports[t].tree
        /\ reports[t].stress.raw = t

\* DET-63 over the store: from one promoted bundle to the next the number of
\* mint markets never falls, and only the first of the store is a first run.
NoUnseenLoss ==
    \A t \in Tokens : \A b \in At(bundles, t) :
        /\ bundles[t][b].first <=> Before(t, b) = {}
        /\ Before(t, b) # {} =>
              bundles[t][b].count >= bundles[t][Max(Before(t, b))].count

\* tree.py: the linked pair converges in one re-fold.  Folding a bundle again
\* never changes what the other token's fold would be.
RefoldSettles ==
    [][\A t, o \in Linkable :
          /\ t # o /\ trees'[t] # trees[t]
          /\ Latest(trees, t) # None /\ Latest(bundles, o) # None
          /\ Latest(trees, t)'.run = Latest(trees, t).run
          => Folded(o)' = Folded(o)]_trees
===============================================================================
