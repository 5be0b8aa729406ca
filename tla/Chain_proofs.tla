----------------------------- MODULE Chain_proofs -----------------------------
(* Theorems about Chain for any number of tasks, stages and clock bound. *)
EXTENDS Chain, SequenceTheorems, TLAPS

(***************************************************************************)
(* Type correctness.                                                       *)
(***************************************************************************)
LEMMA PlanType == \A mode : Plan(mode) \in Seq(Stages)
  <1>1. SharedStages \in Seq(Stages)
    BY DEF SharedStages, Stages
  <1>2. TokenStages \in Seq(Stages)
    BY DEF TokenStages, Stages
  <1> QED BY <1>1, <1>2, ConcatProperties DEF Plan

\* What remains of a list of stages is one, and its head is a stage.
LEMMA HeadTail ==
    ASSUME NEW s \in Seq(Stages), s # <<>>
    PROVE  Tail(s) \in Seq(Stages) /\ Head(s) \in Stages
  BY HeadTailProperties

\* The initial local state, and the updates of a local state, are well formed.
LEMMA LocalType == Local \in LocalState
  BY DEF Local, LocalState, Kind

LEMMA LocalFields ==
    ASSUME NEW r \in LocalState
    PROVE  DOMAIN r = {"kind", "now", "todo", "stop", "failed", "wrote", "log", "code"}
  BY DEF LocalState

LEMMA LocalExit ==
    ASSUME NEW line \in {"", "not clean", "busy", "exit"}, NEW code \in {None, 0, 1, 2}
    PROVE  [Local EXCEPT !.log = line, !.code = code] \in LocalState
  BY LocalType DEF LocalState

LEMMA LocalStart ==
    ASSUME NEW r \in LocalState, NEW kind \in Kind, NEW now \in Nat
    PROVE  [r EXCEPT !.kind = kind, !.now = now] \in LocalState
  BY DEF LocalState

LEMMA LocalTodo ==
    ASSUME NEW r \in LocalState, NEW todo \in Seq(Stages)
    PROVE  [r EXCEPT !.todo = todo] \in LocalState
  BY DEF LocalState

LEMMA LocalFailed ==
    ASSUME NEW r \in LocalState,
           NEW step \in Stages \cup {"ollama", "key scan", "commit", "push"}
    PROVE  /\ [r EXCEPT !.failed = {step}, !.stop = TRUE] \in LocalState
           /\ [r EXCEPT !.failed = @ \cup {step}] \in LocalState
  BY DEF LocalState

LEMMA LocalWrote ==
    ASSUME NEW r \in LocalState, NEW x \in Changes
    PROVE  [r EXCEPT !.wrote = {x}] \in LocalState
  BY DEF LocalState

LEMMA LocalEndStage ==
    ASSUME NEW r \in LocalState, NEW todo \in Seq(Stages), NEW stage \in Stages,
           NEW stop \in BOOLEAN
    PROVE  /\ [r EXCEPT !.todo = todo, !.wrote = {}] \in LocalState
           /\ [r EXCEPT !.todo = todo, !.wrote = {}, !.failed = @ \cup {stage},
                        !.stop = @ \/ stop] \in LocalState
  BY DEF LocalState

\* Nothing is made up when one set of changes is laid over another, and all of the
\* newer one is there; only a shared file hides an older change.
LEMMA OverWithin ==
    ASSUME NEW old, NEW new
    PROVE  /\ Over(old, new) \subseteq old \cup new
           /\ new \subseteq Over(old, new)
           /\ \A x \in old : IsTokenStage(x.stage) => x \in Over(old, new)
  BY DEF Over, SameFile

\* A stage completes changes into changes.
LEMMA CompletedType ==
    ASSUME TypeOK, NEW c \in Chains
    PROVE  Completed(c) \in SUBSET Changes
  <1>1. chain[c].wrote \in SUBSET Changes
    BY DEF TypeOK, LocalState
  <1>2. \A x \in Changes : [x EXCEPT !.whole = TRUE] \in Changes
    BY DEF Changes
  <1> DEFINE old == work \ chain[c].wrote
             new == {[x EXCEPT !.whole = TRUE] : x \in chain[c].wrote}
  <1>3. old \in SUBSET Changes /\ new \in SUBSET Changes
    BY <1>1, <1>2 DEF TypeOK
  <1>4. Completed(c) = Over(old, new)
    BY DEF Completed
  <1>5. Over(old, new) \subseteq old \cup new
    BY OverWithin
  <1> HIDE DEF old, new
  <1> QED BY <1>3, <1>4, <1>5

\* A chain whose child process runs has a stage to run.
StageToRun == \A c \in Chains : pc[c] = "running" => chain[c].todo # <<>>

\* A step that moves one chain and leaves the clock, the lock and the tree.
LEMMA LocalTypeStep ==
    ASSUME TypeOK, UNCHANGED <<clock, lock>>, UNCHANGED Repo,
           pc' \in [Chains -> Labels], chain' \in [Chains -> LocalState]
    PROVE  TypeOK'
  <1>1. clock' \in Nat /\ lock' \in LockFile \cup {None}
    BY DEF TypeOK
  <1>2. /\ work' \in SUBSET Changes /\ index' \in SUBSET Changes
        /\ ahead' \in SUBSET Changes /\ remote' \in SUBSET Changes
    BY DEF TypeOK, Repo
  <1> QED BY <1>1, <1>2 DEF TypeOK

LEMMA TypeStep ==
    ASSUME TypeOK, StageToRun, [Next]_vars
    PROVE  TypeOK'
  <1> USE ChainAssumption
  <1>0. \A c \in Chains : chain[c] \in LocalState
    BY DEF TypeOK
  <1>1. ASSUME NEW c \in Chains, NEW kind \in Kinds, Start(c, kind)
        PROVE  TypeOK'
    <2>1. [chain[c] EXCEPT !.kind = kind, !.now = clock] \in LocalState
      BY <1>0, LocalStart DEF TypeOK
    <2> QED BY <1>1, <2>1 DEF TypeOK, Start, Goto, Repo, Labels
  <1>2. ASSUME NEW c \in Chains, CheckTree(c)
        PROVE  TypeOK'
    BY <1>2, LocalExit DEF TypeOK, CheckTree, Refuse, Exit, Goto, Repo, Labels, Ended
  <1>3. ASSUME NEW c \in Chains, Probe(c)
        PROVE  TypeOK'
    <2>1. UNCHANGED <<clock, lock>> /\ UNCHANGED Repo
      BY <1>3 DEF Probe
    <2>2. \/ UNCHANGED chain
          \/ chain' = [chain EXCEPT ![c] = [Local EXCEPT !.log = "busy", !.code = 1]]
      BY <1>3 DEF Probe, Refuse, Exit
    <2>3. chain' \in [Chains -> LocalState]
      BY <2>2, LocalExit DEF TypeOK
    <2>4. \E label \in {"write", "unlinkDead", "done", "unlink"} : pc' = [pc EXCEPT ![c] = label]
      BY <1>3, Zenon DEF Probe, Refuse, Exit, Goto
    <2>5. pc' \in [Chains -> Labels]
      BY <2>4 DEF TypeOK, Labels, Ended
    <2> QED BY <2>1, <2>3, <2>5, LocalTypeStep
  <1>4. ASSUME NEW c \in Chains, UnlinkDead(c)
        PROVE  TypeOK'
    BY <1>4, LocalExit DEF TypeOK, UnlinkDead, Exit, Goto, Repo, Labels, Ended
  <1>5. ASSUME NEW c \in Chains, UnlinkStale(c)
        PROVE  TypeOK'
    BY <1>5 DEF TypeOK, UnlinkStale, Goto, Repo, Labels
  <1>6. ASSUME NEW c \in Chains, WriteLock(c)
        PROVE  TypeOK'
    <2>1. [chain[c] EXCEPT !.todo = Plan(chain[c].kind.mode)] \in LocalState
      BY <1>0, PlanType, LocalTodo
    <2>2. [pid |-> c, at |-> clock] \in LockFile
      BY DEF LockFile, TypeOK
    <2> QED BY <1>6, <2>1, <2>2 DEF TypeOK, WriteLock, Goto, Repo, Labels
  <1>7. ASSUME NEW c \in Chains, AskServer(c)
        PROVE  TypeOK'
    <2>1. [chain[c] EXCEPT !.failed = {"ollama"}, !.stop = TRUE] \in LocalState
      BY <1>0, LocalFailed
    <2>2. UNCHANGED <<clock, lock>> /\ UNCHANGED Repo
      BY <1>7 DEF AskServer
    <2>3. chain' \in [Chains -> LocalState]
      BY <1>7, <2>1 DEF TypeOK, AskServer
    <2>4. pc' \in [Chains -> Labels]
      BY <1>7 DEF TypeOK, AskServer, Goto, Labels
    <2> QED BY <2>2, <2>3, <2>4, LocalTypeStep
  <1>8. ASSUME NEW c \in Chains, SkipStage(c)
        PROVE  TypeOK'
    <2>1. Tail(chain[c].todo) \in Seq(Stages)
      BY <1>0, <1>8, HeadTail DEF SkipStage, LocalState
    <2>2. [chain[c] EXCEPT !.todo = Tail(chain[c].todo)] \in LocalState
      BY <1>0, <2>1, LocalTodo
    <2> QED BY <1>8, <2>2 DEF TypeOK, SkipStage, Repo
  <1>9. ASSUME NEW c \in Chains, StartStage(c)
        PROVE  TypeOK'
    BY <1>9 DEF TypeOK, StartStage, Goto, Repo, Labels
  <1>10. ASSUME NEW c \in Chains, StageWrites(c)
         PROVE  TypeOK'
    <2>1. chain[c].todo \in Seq(Stages) /\ chain[c].todo # <<>>
      BY <1>0, <1>10 DEF StageWrites, StageToRun, LocalState
    <2>2. Head(chain[c].todo) \in Stages
      BY <2>1, HeadTail
    <2>3. PICK key \in BOOLEAN :
             LET half == [by |-> c, stage |-> Head(chain[c].todo),
                          whole |-> FALSE, key |-> key]
             IN  /\ work' = Over(work, {half})
                 /\ chain' = [chain EXCEPT ![c].wrote = {half}]
      BY <1>10 DEF StageWrites
    <2> DEFINE half == [by |-> c, stage |-> Head(chain[c].todo),
                        whole |-> FALSE, key |-> key]
    <2>4. half \in Changes
      BY <2>2 DEF Changes
    <2>5. [chain[c] EXCEPT !.wrote = {half}] \in LocalState
      BY <1>0, <2>4, LocalWrote
    <2>7. Over(work, {half}) \subseteq work \cup {half}
      BY OverWithin
    <2>8. work' = Over(work, {half}) /\ chain' = [chain EXCEPT ![c].wrote = {half}]
      BY <2>3
    <2> HIDE DEF half
    <2>6. work' \in SUBSET Changes /\ chain' \in [Chains -> LocalState]
      BY <2>4, <2>5, <2>7, <2>8 DEF TypeOK
    <2> QED BY <1>10, <2>6 DEF TypeOK, StageWrites
  <1>11. ASSUME NEW c \in Chains, EndStage(c)
         PROVE  TypeOK'
    <2> DEFINE stage == Head(chain[c].todo)
               todo  == Tail(chain[c].todo)
    <2>1. chain[c].todo \in Seq(Stages) /\ chain[c].todo # <<>>
      BY <1>0, <1>11 DEF EndStage, StageToRun, LocalState
    <2>2. stage \in Stages /\ todo \in Seq(Stages)
      BY <2>1, HeadTail
    <2>3. IsTokenStage(stage) \in BOOLEAN
      BY DEF IsTokenStage
    <2>4. /\ [chain[c] EXCEPT !.todo = todo, !.wrote = {}] \in LocalState
          /\ [chain[c] EXCEPT !.todo = todo, !.wrote = {}, !.failed = @ \cup {stage},
                              !.stop = @ \/ IsTokenStage(stage)] \in LocalState
      BY <1>0, <2>2, <2>3, LocalEndStage
    <2>5. work' \in SUBSET Changes
      BY <1>11, CompletedType DEF EndStage, TypeOK
    <2>6. chain' \in [Chains -> LocalState]
      BY <1>11, <2>4 DEF EndStage, TypeOK
    <2> QED BY <1>11, <2>5, <2>6 DEF TypeOK, EndStage, Goto, Labels
  <1>12. ASSUME NEW c \in Chains, EndStages(c) \/ Release(c)
         PROVE  TypeOK'
    BY <1>12 DEF TypeOK, EndStages, Release, Goto, Repo, Labels
  <1>13. ASSUME NEW c \in Chains, Add(c) \/ Scan(c) \/ Commit(c) \/ Push(c)
         PROVE  TypeOK'
    <2>1. \A step \in {"key scan", "commit", "push"} :
             [chain[c] EXCEPT !.failed = @ \cup {step}] \in LocalState
      BY <1>0, LocalFailed
    <2>2. chain' \in [Chains -> LocalState]
      BY <1>13, <2>1 DEF TypeOK, Add, Scan, Unstage, Commit, Push, Failed
    <2>3. OnDisk \in SUBSET Changes
      BY OverWithin DEF OnDisk, TypeOK
    <2> QED BY <1>13, <2>2, <2>3 DEF TypeOK, Add, Scan, Unstage, Commit, Push, Goto, Labels
  <1>14. ASSUME NEW c \in Chains, Finish(c) \/ Raise(c) \/ Kill(c)
         PROVE  TypeOK'
    <2>1. ExitCode(c) \in {None, 0, 1, 2}
      BY DEF ExitCode
    <2>2. \A line \in {"", "exit"}, code \in {None, 0, 1, 2} :
             [Local EXCEPT !.log = line, !.code = code] \in LocalState
      BY LocalExit
    <2>3. chain' \in [Chains -> LocalState]
      BY <1>14, <2>1, <2>2 DEF TypeOK, Finish, Raise, Kill, Exit
    <2>4. [pid |-> None, at |-> clock] \in LockFile
      BY DEF LockFile, TypeOK
    <2> QED BY <1>14, <2>3, <2>4 DEF TypeOK, Finish, Raise, Kill, Exit, Goto, Repo,
                                     Labels, Ended
  <1>15. CASE Tick \/ Tidy
    BY <1>15 DEF TypeOK, Tick, Tidy, Repo
  <1>16. CASE UNCHANGED vars
    BY <1>16 DEF TypeOK, vars
  <1> QED
    BY <1>1, <1>2, <1>3, <1>4, <1>5, <1>6, <1>7, <1>8, <1>9, <1>10, <1>11, <1>12,
       <1>13, <1>14, <1>15, <1>16 DEF Next, Step

\* What chain c may do, in one formula.
Moves(c) ==
    \/ \E kind \in Kinds : Start(c, kind)
    \/ Step(c) \/ StageWrites(c) \/ Raise(c) \/ Kill(c)

\* A chain moves its own program counter and its own variables only.
LEMMA Frame ==
    ASSUME TypeOK, NEW c \in Chains, NEW d \in Chains, c # d, Moves(c)
    PROVE  pc'[d] = pc[d] /\ chain'[d] = chain[d]
  <1>1. ASSUME NEW kind \in Kinds, Start(c, kind)
        PROVE  pc'[d] = pc[d] /\ chain'[d] = chain[d]
    BY <1>1 DEF TypeOK, Start, Goto
  <1>2. CASE \/ CheckTree(c) \/ Probe(c) \/ UnlinkDead(c) \/ UnlinkStale(c)
             \/ WriteLock(c) \/ AskServer(c)
    BY <1>2 DEF TypeOK, CheckTree, Probe, UnlinkDead, UnlinkStale, WriteLock, AskServer,
                Refuse, Exit, Goto
  <1>3. CASE \/ SkipStage(c) \/ StartStage(c) \/ EndStage(c) \/ EndStages(c)
             \/ StageWrites(c)
    BY <1>3 DEF TypeOK, SkipStage, StartStage, EndStage, EndStages, StageWrites, Goto
  <1>4. CASE Add(c) \/ Scan(c) \/ Commit(c) \/ Push(c)
    BY <1>4 DEF TypeOK, Add, Scan, Commit, Push, Failed, Goto
  <1>5. CASE Release(c) \/ Finish(c) \/ Raise(c) \/ Kill(c)
    BY <1>5 DEF TypeOK, Release, Finish, Raise, Kill, Exit, Goto
  <1> QED BY <1>1, <1>2, <1>3, <1>4, <1>5 DEF Moves, Step

\* Where a chain's own step may bring it, by the kind of step.
LEMMA OwnStep ==
    ASSUME TypeOK, NEW c \in Chains, Moves(c), pc'[c] = "running"
    PROVE  /\ StartStage(c) \/ StageWrites(c)
           /\ pc[c] \in {"stages", "running"}
  <1>1. ~ \E kind \in Kinds : Start(c, kind)
    BY DEF TypeOK, Start, Goto
  <1>2. ~ (\/ CheckTree(c) \/ Probe(c) \/ UnlinkDead(c) \/ UnlinkStale(c)
           \/ WriteLock(c) \/ AskServer(c))
    BY DEF TypeOK, CheckTree, Probe, UnlinkDead, UnlinkStale, WriteLock, AskServer,
           Refuse, Exit, Goto
  <1>3. ~ (SkipStage(c) \/ EndStage(c) \/ EndStages(c))
    BY DEF TypeOK, SkipStage, EndStage, EndStages, Goto
  <1>4. ~ (Add(c) \/ Scan(c) \/ Commit(c) \/ Push(c))
    BY DEF TypeOK, Add, Scan, Commit, Push, Goto
  <1>5. ~ (Release(c) \/ Finish(c) \/ Raise(c) \/ Kill(c))
    BY DEF TypeOK, Release, Finish, Raise, Kill, Exit, Goto
  <1>6. StartStage(c) \/ StageWrites(c)
    BY <1>1, <1>2, <1>3, <1>4, <1>5 DEF Moves, Step
  <1> QED BY <1>6 DEF StartStage, StageWrites

\* Only StartStage lets a child process run, over a list that is not empty.
LEMMA StageToRunStep ==
    ASSUME TypeOK, StageToRun, [Next]_vars
    PROVE  StageToRun'
  <1> SUFFICES ASSUME NEW d \in Chains, pc'[d] = "running"
               PROVE  chain'[d].todo # <<>>
    BY DEF StageToRun
  <1>1. ASSUME NEW c \in Chains, Moves(c), c # d
        PROVE  chain'[d].todo # <<>>
    BY <1>1, Frame DEF StageToRun
  <1>2. CASE Moves(d)
    <2>1. CASE StartStage(d)
      BY <2>1 DEF StartStage
    <2>2. CASE StageWrites(d)
      <3>1. chain[d].todo # <<>>
        BY <2>2 DEF StageWrites, StageToRun
      <3>2. PICK half : chain' = [chain EXCEPT ![d].wrote = {half}]
        BY <2>2 DEF StageWrites
      <3>3. chain'[d].todo = chain[d].todo
        BY <3>2 DEF TypeOK, LocalState
      <3> QED BY <3>1, <3>3
    <2> QED BY <1>2, <2>1, <2>2, OwnStep
  <1>3. CASE Tick \/ Tidy \/ UNCHANGED vars
    BY <1>3 DEF Tick, Tidy, vars, StageToRun
  <1> QED BY <1>1, <1>2, <1>3 DEF Next, Moves

\* The state of every chain, of the lock and of the repository keeps its shape.
THEOREM TypeCorrect == Spec => []TypeOK
  <1>1. Init => TypeOK /\ StageToRun
    BY LocalType DEF Init, TypeOK, StageToRun, Labels
  <1>2. TypeOK /\ StageToRun /\ [Next]_vars => TypeOK' /\ StageToRun'
    BY TypeStep, StageToRunStep
  <1> QED BY <1>1, <1>2, PTL DEF Spec
-------------------------------------------------------------------------------
(***************************************************************************)
(* What the stages have finished writing, with any tasks and any failures. *)
(***************************************************************************)
\* A child process that has begun to write has written half a change, in its own
\* chain's name.
OwnWrites ==
    \A c \in Chains : \A x \in chain[c].wrote : x.by = c /\ ~x.whole

\* What a chain's child process has written so far stays half a change of its own.
LEMMA OwnWritesStep ==
    ASSUME TypeOK, OwnWrites, NEW d \in Chains, Moves(d)
    PROVE  OwnWrites'
  <1>1. TypeOK /\ OwnWrites /\ chain \in [Chains -> LocalState]
    BY DEF TypeOK
  <1>2. \A c \in Chains \ {d} : chain'[c] = chain[c]
    BY <1>1, Frame
  <1>3. ASSUME \A x \in chain'[d].wrote : x.by = d /\ ~x.whole
        PROVE  OwnWrites'
    BY <1>1, <1>2, <1>3 DEF OwnWrites
  <1>4. CASE StageWrites(d)
    <2>1. PICK key \in BOOLEAN :
             chain' = [chain EXCEPT ![d].wrote =
                {[by |-> d, stage |-> Head(chain[d].todo), whole |-> FALSE, key |-> key]}]
      BY <1>4 DEF StageWrites
    <2>2. chain'[d].wrote =
             {[by |-> d, stage |-> Head(chain[d].todo), whole |-> FALSE, key |-> key]}
      BY <1>1, <2>1, LocalFields
    <2> QED BY <1>3, <2>2
  <1>5. CASE EndStage(d)
    <2> DEFINE stage == Head(chain[d].todo)
    <2>1. \/ chain'[d] = [chain[d] EXCEPT !.todo = Tail(@), !.wrote = {}]
          \/ chain'[d] = [chain[d] EXCEPT !.todo = Tail(@), !.wrote = {},
                                          !.failed = @ \cup {stage},
                                          !.stop = @ \/ IsTokenStage(stage)]
      BY <1>1, <1>5 DEF EndStage
    <2>2. chain'[d].wrote = {}
      BY <1>1, <2>1, LocalFields
    <2> QED BY <1>3, <2>2
  <1>6. CASE Finish(d) \/ Raise(d) \/ Kill(d)
    <2>1. chain'[d].wrote = {}
      BY <1>1, <1>6 DEF Finish, Raise, Kill, Exit, Local
    <2> QED BY <1>3, <2>1
  <1>7. CASE CheckTree(d) \/ Probe(d) \/ UnlinkDead(d)
    <2>1. chain'[d] = chain[d] \/ chain'[d].wrote = {}
      BY <1>1, <1>7 DEF CheckTree, Probe, UnlinkDead, Refuse, Exit, Local
    <2> QED BY <1>1, <1>3, <2>1 DEF OwnWrites
  <1>8. CASE \/ \E kind \in Kinds : Start(d, kind)
             \/ UnlinkStale(d) \/ WriteLock(d) \/ AskServer(d)
             \/ SkipStage(d) \/ StartStage(d) \/ EndStages(d) \/ Release(d)
    <2>1. chain'[d].wrote = chain[d].wrote
      <3>1. ASSUME NEW kind \in Kinds, Start(d, kind)
            PROVE  chain'[d].wrote = chain[d].wrote
        BY <1>1, <3>1, LocalFields DEF Start
      <3>2. CASE WriteLock(d) \/ SkipStage(d)
        BY <1>1, <3>2, LocalFields DEF WriteLock, SkipStage
      <3>3. CASE AskServer(d)
        <4>1. \/ chain'[d] = chain[d]
              \/ chain'[d] = [chain[d] EXCEPT !.failed = {"ollama"}, !.stop = TRUE]
          BY <1>1, <3>3 DEF AskServer
        <4> QED BY <1>1, <4>1, LocalFields
      <3>4. CASE UnlinkStale(d) \/ StartStage(d) \/ EndStages(d) \/ Release(d)
        BY <3>4 DEF UnlinkStale, StartStage, EndStages, Release
      <3> QED BY <1>8, <3>1, <3>2, <3>3, <3>4
    <2> QED BY <1>1, <1>3, <2>1 DEF OwnWrites
  <1>9. CASE Add(d) \/ Scan(d) \/ Commit(d) \/ Push(d)
    <2>1. \/ chain'[d] = chain[d]
          \/ \E step : chain'[d] = [chain[d] EXCEPT !.failed = @ \cup {step}]
      BY <1>1, <1>9 DEF Add, Scan, Commit, Push, Failed
    <2>2. chain'[d].wrote = chain[d].wrote
      BY <1>1, <2>1, LocalFields
    <2> QED BY <1>1, <1>3, <2>2 DEF OwnWrites
  <1> QED BY <1>4, <1>5, <1>6, <1>7, <1>8, <1>9 DEF Moves, Step

\* The steps of a chain that change anything git or the stages keep.
LEMMA RepoMovers ==
    ASSUME NEW d \in Chains, Moves(d), ~UNCHANGED Repo
    PROVE  \/ StageWrites(d) \/ EndStage(d) \/ Add(d) \/ Scan(d) \/ Commit(d)
           \/ Push(d)
  <1>1. ~ \E kind \in Kinds : Start(d, kind)
    BY DEF Start
  <1>2. ~ (\/ CheckTree(d) \/ Probe(d) \/ UnlinkDead(d) \/ UnlinkStale(d)
           \/ WriteLock(d) \/ AskServer(d) \/ SkipStage(d) \/ StartStage(d))
    BY DEF CheckTree, Probe, UnlinkDead, UnlinkStale, WriteLock, AskServer,
           SkipStage, StartStage
  <1>3. ~ (EndStages(d) \/ Release(d) \/ Finish(d) \/ Raise(d) \/ Kill(d))
    BY DEF EndStages, Release, Finish, Raise, Kill
  <1> QED BY <1>1, <1>2, <1>3 DEF Moves, Step

\* A step of a chain takes no finished change out of the tree, the index, the local
\* commits and the public site together: `git reset -q` puts back what it unstages.
LEMMA FinishedStep ==
    ASSUME TypeOK, OwnWrites, NEW d \in Chains, Moves(d)
    PROVE  Finished \subseteq Finished'
  <1>1. CASE UNCHANGED Repo
    BY <1>1 DEF Repo, Finished
  <1>2. CASE StageWrites(d)
    <2>1. /\ \E new : work' = Over(work, new)
          /\ UNCHANGED <<index, ahead, remote>>
      BY <1>2 DEF StageWrites
    <2>2. \A x \in work : IsTokenStage(x.stage) => x \in work'
      BY <2>1, OverWithin
    <2> QED BY <2>1, <2>2 DEF Finished
  <1>3. CASE EndStage(d)
    <2>1. work' \in {work, Completed(d)} /\ UNCHANGED <<index, ahead, remote>>
      BY <1>3 DEF EndStage
    <2>2. \A x \in work : x.whole => x \in work \ chain[d].wrote
      BY DEF OwnWrites
    <2>3. \A x \in work : x.whole /\ IsTokenStage(x.stage) => x \in Completed(d)
      BY <2>2, OverWithin DEF Completed
    <2> QED BY <2>1, <2>3 DEF Finished
  <1>4. CASE Add(d) \/ Scan(d)
    <2>1. UNCHANGED <<ahead, remote>>
      BY <1>4 DEF Add, Scan
    <2>2. \/ UNCHANGED <<work, index>>
          \/ OnDisk \subseteq work' \cup index'
      BY <1>4 DEF Add, Scan, Unstage
    <2>3. \A x \in work \cup index : IsTokenStage(x.stage) => x \in OnDisk
      BY OverWithin DEF OnDisk
    <2> QED BY <2>1, <2>2, <2>3 DEF Finished
  <1>5. CASE Commit(d) \/ Push(d)
    <2>1. /\ work' = work
          /\ index' \cup (ahead' \cup remote') = index \cup (ahead \cup remote)
      <3>1. CASE Commit(d)
        BY <3>1 DEF Commit
      <3>2. CASE Push(d)
        BY <3>2 DEF Push
      <3> QED BY <1>5, <3>1, <3>2
    <2>2. work' \cup index' \cup ahead' \cup remote' = work \cup index \cup ahead \cup remote
      BY <2>1
    <2> QED BY <2>2 DEF Finished
  <1>6. CASE ~UNCHANGED Repo
    BY <1>2, <1>3, <1>4, <1>5, <1>6, RepoMovers
  <1> QED BY <1>1, <1>6

\* Nothing a token's stage finished writing is lost while a chain is alive, for any number
\* of tasks in any order, with kills, exceptions and any failing git call.
THEOREM EvidenceSurvives == Spec => EvidenceKept
  <1>1. Init => TypeOK /\ StageToRun /\ OwnWrites
    <2> SUFFICES ASSUME Init
                 PROVE  TypeOK /\ StageToRun /\ OwnWrites
      OBVIOUS
    <2>1. TypeOK /\ StageToRun
      BY LocalType DEF Init, TypeOK, StageToRun, Labels
    <2>2. \A c \in Chains : chain[c].wrote = {}
      BY DEF Init, Local
    <2> QED BY <2>1, <2>2 DEF OwnWrites
  <1>2. TypeOK /\ StageToRun /\ OwnWrites /\ [Next]_vars
            => TypeOK' /\ StageToRun' /\ OwnWrites'
    <2> SUFFICES ASSUME TypeOK, StageToRun, OwnWrites, [Next]_vars
                 PROVE  TypeOK' /\ StageToRun' /\ OwnWrites'
      OBVIOUS
    <2>1. TypeOK' /\ StageToRun'
      BY TypeStep, StageToRunStep
    <2>2. CASE Tick \/ Tidy \/ UNCHANGED vars
      <3>1. chain' = chain
        BY <2>2 DEF Tick, Tidy, vars
      <3> QED BY <2>1, <3>1 DEF OwnWrites
    <2>3. ASSUME NEW d \in Chains, Moves(d) PROVE OwnWrites'
      BY <2>3, OwnWritesStep
    <2> QED BY <2>1, <2>2, <2>3 DEF Next, Moves
  <1>3. TypeOK /\ OwnWrites /\ [Next]_vars
            => [(\E c \in Chains : Live(c)) => Finished \subseteq Finished']_vars
    <2> SUFFICES ASSUME TypeOK, OwnWrites, [Next]_vars, \E c \in Chains : Live(c)
                 PROVE  Finished \subseteq Finished' \/ UNCHANGED vars
      OBVIOUS
    <2>1. CASE Tick \/ Tidy
      BY <2>1 DEF Tick, Tidy, Repo, Finished
    <2>2. CASE \E d \in Chains : Moves(d)
      BY <2>2, FinishedStep
    <2> QED BY <2>1, <2>2 DEF Next, Moves
  <1> QED BY <1>1, <1>2, <1>3, PTL DEF Spec, EvidenceKept
-------------------------------------------------------------------------------
(***************************************************************************)
(* The lock, when no two tasks are inside acquire at once.                 *)
(***************************************************************************)
\* The scheduler's limit bounds the age of whatever runs.
InTime ==
    \A c \in Chains : Live(c) => chain[c].now <= clock /\ clock <= chain[c].now + Limit

\* The holder wrote its lock after it started.
LockAfterStart ==
    \A c \in Chains : Running(c) => chain[c].now <= lock.at

OneAcquires ==
    \A c, d \in Chains : Acquiring(c) /\ Acquiring(d) => c = d

Taking(c) == pc[c] \in {"unlinkDead", "unlink", "write"}

\* Once acquire has decided that the lock may be taken, nobody holds it.
NoHolderWhenTaking ==
    \A c, d \in Chains : Taking(c) => ~Running(d)

LockInv ==
    /\ TypeOK
    /\ HolderOwnsLock
    /\ InTime
    /\ LockAfterStart
    /\ OneAcquires
    /\ NoHolderWhenTaking

\* The steps of a holder between acquire and release leave the lock alone.
LEMMA InnerStep ==
    ASSUME TypeOK, NEW c \in Chains,
           \/ AskServer(c) \/ SkipStage(c) \/ StartStage(c) \/ StageWrites(c)
           \/ EndStage(c) \/ EndStages(c) \/ Add(c) \/ Scan(c) \/ Commit(c) \/ Push(c)
    PROVE  /\ Running(c) /\ Running(c)'
           /\ lock' = lock /\ clock' = clock
           /\ chain'[c].now = chain[c].now
  <1>1. pc \in [Chains -> Labels] /\ chain \in [Chains -> LocalState]
    BY DEF TypeOK
  <1>2. CASE AskServer(c)
    <2>1. \/ chain'[c] = chain[c]
          \/ chain'[c] = [chain[c] EXCEPT !.failed = {"ollama"}, !.stop = TRUE]
      BY <1>1, <1>2 DEF AskServer
    <2>2. chain'[c].now = chain[c].now
      BY <1>1, <2>1, LocalFields
    <2> QED BY <1>1, <1>2, <2>2 DEF AskServer, Goto, Running
  <1>3. CASE SkipStage(c)
    BY <1>1, <1>3, LocalFields DEF SkipStage, Running
  <1>4. CASE StartStage(c) \/ EndStages(c)
    BY <1>1, <1>4 DEF StartStage, EndStages, Goto, Running
  <1>5. CASE StageWrites(c)
    <2>1. PICK half : chain' = [chain EXCEPT ![c].wrote = {half}]
      BY <1>5 DEF StageWrites
    <2>2. chain'[c].now = chain[c].now
      BY <1>1, <2>1, LocalFields
    <2> QED BY <1>5, <2>2 DEF StageWrites, Running
  <1>6. CASE EndStage(c)
    <2> DEFINE stage == Head(chain[c].todo)
    <2>1. \/ chain'[c] = [chain[c] EXCEPT !.todo = Tail(@), !.wrote = {}]
          \/ chain'[c] = [chain[c] EXCEPT !.todo = Tail(@), !.wrote = {},
                                          !.failed = @ \cup {stage},
                                          !.stop = @ \/ IsTokenStage(stage)]
      BY <1>1, <1>6 DEF EndStage
    <2>2. chain'[c].now = chain[c].now
      BY <1>1, <2>1, LocalFields
    <2> QED BY <1>1, <1>6, <2>2 DEF EndStage, Goto, Running
  <1>7. CASE Add(c) \/ Scan(c) \/ Commit(c) \/ Push(c)
    <2>1. \/ chain'[c] = chain[c]
          \/ \E step : chain'[c] = [chain[c] EXCEPT !.failed = @ \cup {step}]
      BY <1>1, <1>7 DEF Add, Scan, Commit, Push, Failed
    <2>2. chain'[c].now = chain[c].now
      BY <1>1, <2>1, LocalFields
    <2>3. Running(c) /\ Running(c)'
      BY <1>1, <1>7 DEF Add, Scan, Commit, Push, Goto, Running
    <2> QED BY <1>7, <2>2, <2>3 DEF Add, Scan, Commit, Push
  <1> QED BY <1>2, <1>3, <1>4, <1>5, <1>6, <1>7

\* A lock that may be taken has no holder: its process is gone, or it is older
\* than any task may be.
LEMMA ProbeFindsNoHolder ==
    ASSUME LockInv, NEW c \in Chains, Probe(c), pc'[c] # "done",
           NEW d \in Chains
    PROVE  ~Running(d)
  <1> SUFFICES ASSUME Running(d) PROVE FALSE
    OBVIOUS
  <1>1. lock # None /\ lock.pid = d /\ d # None
    BY ChainAssumption DEF LockInv, HolderOwnsLock
  <1>2. Live(d) /\ Live(c) /\ Alive(lock.pid) = {TRUE}
    BY <1>1 DEF Probe, Running, Live, Ended, Alive, LockInv, TypeOK
  <1>3. Age(c) >= Stale
    BY <1>1, <1>2 DEF Probe, Refuse, Exit, Goto, LockInv, TypeOK
  <1>4. /\ chain[d].now <= lock.at /\ clock <= chain[d].now + Limit
        /\ chain[c].now <= clock
    BY <1>2 DEF LockInv, InTime, LockAfterStart
  <1>5. chain[c].now \in Nat /\ chain[d].now \in Nat /\ clock \in Nat /\ lock.at \in Nat
    BY <1>1 DEF LockInv, TypeOK, LocalState, LockFile
  <1> QED BY <1>3, <1>4, <1>5, ChainAssumption DEF Age

(***************************************************************************)
(* Preservation.  Every other chain keeps its place and its start time, so *)
(* each conjunct has to be looked at for the moving chain and for the lock.*)
(***************************************************************************)
LEMMA LockInvStep ==
    ASSUME Spaced, LockInv, TypeOK', NEW c \in Chains, Moves(c)
    PROVE  LockInv'
  <1>1. TypeOK /\ pc \in [Chains -> Labels] /\ chain \in [Chains -> LocalState]
    BY DEF LockInv, TypeOK
  <1>2. \A d \in Chains \ {c} : pc'[d] = pc[d] /\ chain'[d] = chain[d]
    BY <1>1, Frame
  <1>3. clock' = clock
    BY DEF Moves, Step, Start, CheckTree, Probe, UnlinkDead, UnlinkStale, WriteLock,
           AskServer, SkipStage, StartStage, StageWrites, EndStage, EndStages, Add,
           Scan, Commit, Push, Release, Finish, Raise, Kill
  <1>4. ASSUME NEW kind \in Kinds, Start(c, kind)
        PROVE  LockInv'
    <2>1. pc'[c] = "status" /\ lock' = lock /\ \A d \in Chains : ~Acquiring(d)
      BY <1>1, <1>4 DEF Start, Goto
    <2>2. chain'[c].now = clock
      BY <1>1, <1>4 DEF Start, LocalState
    <2>3. clock \in Nat /\ Limit \in Nat
      BY <1>1, ChainAssumption DEF TypeOK
    <2>4. HolderOwnsLock' /\ LockAfterStart' /\ NoHolderWhenTaking'
      BY <1>2, <2>1 DEF LockInv, HolderOwnsLock, LockAfterStart, NoHolderWhenTaking,
                        Taking, Running
    <2>5. InTime'
      BY <1>2, <1>3, <2>1, <2>2, <2>3 DEF LockInv, InTime, Live, Ended
    <2>6. OneAcquires'
      BY <1>2, <2>1 DEF OneAcquires, Acquiring
    <2> QED BY <2>4, <2>5, <2>6 DEF LockInv
  <1>5. CASE CheckTree(c) \/ Finish(c)
    <2>1. /\ pc[c] \in {"status", "finish"} /\ lock' = lock
          /\ \/ pc'[c] = "probe" /\ pc[c] = "status" /\ chain'[c] = chain[c]
             \/ pc'[c] = "done"
      BY <1>1, <1>5 DEF CheckTree, Finish, Refuse, Exit, Goto
    <2>2. HolderOwnsLock' /\ LockAfterStart' /\ NoHolderWhenTaking'
      BY <1>2, <2>1 DEF LockInv, HolderOwnsLock, LockAfterStart, NoHolderWhenTaking,
                        Taking, Running
    <2>3. InTime'
      BY <1>2, <1>3, <2>1 DEF LockInv, InTime, Live, Ended
    <2>4. OneAcquires'
      BY <1>2, <2>1 DEF LockInv, OneAcquires, Acquiring
    <2> QED BY <2>2, <2>3, <2>4 DEF LockInv
  <1>6. CASE Probe(c)
    <2>1. /\ pc[c] = "probe" /\ lock' = lock
          /\ pc'[c] \in {"done", "unlinkDead", "unlink", "write"}
          /\ pc'[c] = "done" \/ chain'[c] = chain[c]
      BY <1>1, <1>6 DEF Probe, Refuse, Exit, Goto
    <2>2. pc'[c] # "done" => \A d \in Chains : ~Running(d)
      BY <1>6, ProbeFindsNoHolder
    <2>3. HolderOwnsLock' /\ LockAfterStart' /\ NoHolderWhenTaking'
      BY <1>2, <2>1, <2>2 DEF LockInv, HolderOwnsLock, LockAfterStart,
                              NoHolderWhenTaking, Taking, Running
    <2>4. InTime'
      BY <1>2, <1>3, <2>1 DEF LockInv, InTime, Live, Ended
    <2>5. OneAcquires'
      BY <1>2, <2>1 DEF LockInv, OneAcquires, Acquiring
    <2> QED BY <2>3, <2>4, <2>5 DEF LockInv
  <1>7. CASE UnlinkDead(c) \/ UnlinkStale(c)
    <2>1. /\ pc[c] \in {"unlinkDead", "unlink"}
          /\ \/ pc'[c] = "escaped"
             \/ pc'[c] \in {"unlink", "write"} /\ chain'[c] = chain[c]
      <3>1. CASE UnlinkStale(c)
        BY <1>1, <3>1 DEF UnlinkStale, Goto
      <3>2. CASE UnlinkDead(c) /\ lock = None
        BY <1>1, <3>2 DEF UnlinkDead, Exit, Goto
      <3>3. CASE UnlinkDead(c) /\ lock # None
        BY <1>1, <3>3 DEF UnlinkDead, Goto
      <3> QED BY <1>7, <3>1, <3>2, <3>3
    <2>2. \A d \in Chains : ~Running(d)
      BY <2>1 DEF LockInv, NoHolderWhenTaking, Taking
    <2>3. \A d \in Chains : ~Running(d)'
      BY <1>2, <2>1, <2>2 DEF Running
    <2>4. InTime'
      BY <1>2, <1>3, <2>1 DEF LockInv, InTime, Live, Ended
    <2>5. OneAcquires'
      BY <1>2, <2>1 DEF LockInv, OneAcquires, Acquiring
    <2> QED BY <2>3, <2>4, <2>5 DEF LockInv, HolderOwnsLock, LockAfterStart,
                                    NoHolderWhenTaking
  <1>8. CASE WriteLock(c)
    <2>1. /\ pc[c] = "write" /\ pc'[c] = "server"
          /\ lock' = [pid |-> c, at |-> clock] /\ lock' # None
      <3>1. [pid |-> c, at |-> clock] \in LockFile
        BY <1>1 DEF TypeOK, LockFile
      <3> QED BY <1>1, <1>8, <3>1, ChainAssumption DEF WriteLock, Goto
    <2>2. chain'[c].now = chain[c].now
      BY <1>1, <1>8 DEF WriteLock, LocalState
    <2>3. \A d \in Chains : ~Running(d)
      BY <2>1 DEF LockInv, NoHolderWhenTaking, Taking
    <2>4. \A d \in Chains \ {c} : ~Running(d)' /\ ~Acquiring(d)'
      BY <1>2, <2>1, <2>3 DEF LockInv, OneAcquires, Running, Acquiring
    <2>5. chain[c].now <= clock /\ clock <= chain[c].now + Limit
      BY <2>1 DEF LockInv, InTime, Live, Ended
    <2>6. InTime'
      BY <1>2, <1>3, <2>1, <2>2, <2>5 DEF LockInv, InTime, Live, Ended
    <2>7. HolderOwnsLock' /\ LockAfterStart'
      BY <2>1, <2>2, <2>4, <2>5 DEF HolderOwnsLock, LockAfterStart
    <2>8. ~Acquiring(c)'
      BY <2>1 DEF Acquiring
    <2>9. OneAcquires' /\ NoHolderWhenTaking'
      BY <2>4, <2>8 DEF OneAcquires, NoHolderWhenTaking, Taking, Acquiring
    <2> QED BY <2>6, <2>7, <2>9 DEF LockInv
  <1>9. CASE \/ AskServer(c) \/ SkipStage(c) \/ StartStage(c) \/ StageWrites(c)
             \/ EndStage(c) \/ EndStages(c) \/ Add(c) \/ Scan(c) \/ Commit(c) \/ Push(c)
    <2>1. /\ Running(c) /\ Running(c)' /\ lock' = lock
          /\ chain'[c].now = chain[c].now
      BY <1>1, <1>9, InnerStep
    <2>2. \A d \in Chains : Running(d)' => Running(d)
      BY <1>2, <2>1 DEF Running
    <2>3. \A d \in Chains : Taking(d)' => Taking(d)
      BY <1>2, <2>1 DEF Running, Taking
    <2>4. \A d \in Chains : Acquiring(d)' => Acquiring(d)
      BY <1>2, <2>1 DEF Running, Acquiring
    <2>5. \A d \in Chains : chain'[d].now = chain[d].now
      BY <1>2, <2>1
    <2>6. \A d \in Chains : Live(d)' => Live(d)
      BY <1>2, <2>1 DEF Live, Ended, Running
    <2>7. HolderOwnsLock' /\ LockAfterStart'
      BY <2>1, <2>2, <2>5 DEF LockInv, HolderOwnsLock, LockAfterStart
    <2>8. InTime'
      BY <1>3, <2>5, <2>6 DEF LockInv, InTime
    <2>9. OneAcquires' /\ NoHolderWhenTaking'
      BY <2>2, <2>3, <2>4 DEF LockInv, OneAcquires, NoHolderWhenTaking
    <2> QED BY <2>7, <2>8, <2>9 DEF LockInv
  <1>10. CASE Release(c) \/ Raise(c)
    <2>1. Running(c) /\ pc'[c] \in {"finish", "escaped"}
      BY <1>1, <1>10 DEF Release, Raise, Running, Exit, Goto
    <2>2. pc'[c] = "finish" => chain'[c] = chain[c]
      BY <1>1, <1>10 DEF Release, Raise, Exit, Goto
    <2>3. \A d \in Chains \ {c} : ~Running(d)
      BY <2>1 DEF LockInv, HolderOwnsLock
    <2>4. \A d \in Chains : ~Running(d)'
      BY <1>2, <2>1, <2>3 DEF Running
    <2>5. InTime'
      BY <1>2, <1>3, <2>1, <2>2 DEF LockInv, InTime, Live, Ended, Running
    <2>6. OneAcquires'
      BY <1>2, <2>1 DEF LockInv, OneAcquires, Acquiring
    <2> QED BY <2>4, <2>5, <2>6 DEF LockInv, HolderOwnsLock, LockAfterStart,
                                    NoHolderWhenTaking
  <1>11. CASE Kill(c)
    <2>1. pc'[c] = "dead" /\ (lock' = lock \/ pc[c] = "write")
      BY <1>1, <1>11 DEF Kill, Exit, Goto
    <2>2. pc[c] = "write" => \A d \in Chains : ~Running(d)
      BY DEF LockInv, NoHolderWhenTaking, Taking
    <2>3. \A d \in Chains : Running(d)' => Running(d) /\ d # c /\ lock' = lock
      BY <1>2, <2>1, <2>2 DEF Running
    <2>4. HolderOwnsLock' /\ LockAfterStart'
      BY <1>2, <2>3 DEF LockInv, HolderOwnsLock, LockAfterStart
    <2>5. InTime'
      BY <1>2, <1>3, <2>1 DEF LockInv, InTime, Live, Ended
    <2>6. OneAcquires' /\ NoHolderWhenTaking'
      BY <1>2, <2>1, <2>3 DEF LockInv, OneAcquires, NoHolderWhenTaking, Acquiring, Taking
    <2> QED BY <2>4, <2>5, <2>6 DEF LockInv
  <1> QED BY <1>4, <1>5, <1>6, <1>7, <1>8, <1>9, <1>10, <1>11 DEF Moves, Step

\* The invariant of the lock holds at first, and every step keeps it.
LEMMA LockInvNext ==
    ASSUME Spaced, LockInv, StageToRun, [Next]_vars
    PROVE  LockInv' /\ StageToRun'
  <1>1. TypeOK' /\ StageToRun'
    BY TypeStep, StageToRunStep DEF LockInv
  <1>2. ASSUME NEW c \in Chains, Moves(c) PROVE LockInv'
    BY <1>1, <1>2, LockInvStep
  <1>3. CASE Tick
    <2>1. /\ clock' = clock + 1 /\ UNCHANGED <<lock, pc, chain>>
          /\ \A c \in Chains : Live(c) => clock < chain[c].now + Limit
      BY <1>3 DEF Tick
    <2>2. /\ clock \in Nat /\ Limit \in Nat
          /\ \A c \in Chains : chain[c].now \in Nat
      BY ChainAssumption DEF LockInv, TypeOK, LocalState
    <2>3. InTime'
      BY <2>1, <2>2 DEF LockInv, InTime, Live
    <2> QED BY <1>1, <2>1, <2>3 DEF LockInv, HolderOwnsLock, LockAfterStart,
                OneAcquires, NoHolderWhenTaking, Running, Acquiring, Taking
  <1>4. CASE Tidy \/ UNCHANGED vars
    <2>1. UNCHANGED <<clock, lock, pc, chain>>
      BY <1>4 DEF Tidy, vars
    <2> QED BY <1>1, <2>1 DEF LockInv, HolderOwnsLock, InTime, LockAfterStart,
                OneAcquires, NoHolderWhenTaking, Running, Live, Acquiring, Taking
  <1> QED BY <1>1, <1>2, <1>3, <1>4 DEF Next, Moves

LEMMA LockInvInit == Init => LockInv /\ StageToRun
  <1> SUFFICES ASSUME Init PROVE LockInv /\ StageToRun
    OBVIOUS
  <1>1. TypeOK
    BY LocalType DEF Init, TypeOK, Labels
  <1>2. \A c \in Chains : pc[c] = "idle"
    BY DEF Init
  <1> QED BY <1>1, <1>2 DEF LockInv, HolderOwnsLock, InTime, LockAfterStart,
              OneAcquires, NoHolderWhenTaking, StageToRun, Running, Live, Acquiring,
              Taking

\* If no two tasks are inside Lock.acquire at once, the lock file of a running
\* chain is always its own, whatever the number of tasks, their kills, reused
\* process ids and failing steps.
THEOREM LockIsTheHolders == ASSUME Spaced PROVE Spec => []HolderOwnsLock
  <1>1. LockInv => HolderOwnsLock
    BY DEF LockInv
  <1>2. LockInv /\ StageToRun /\ [Next]_vars => LockInv' /\ StageToRun'
    BY LockInvNext
  <1> QED BY LockInvInit, <1>1, <1>2, PTL DEF Spec
-------------------------------------------------------------------------------
(***************************************************************************)
(* What is committed and pushed, when no two tasks acquire at once.        *)
(***************************************************************************)
\* What the key scan found out still holds when the index is committed.
ScannedIndex ==
    \A c \in Chains : pc[c] = "commit" => \A x \in index : ~x.key

\* Between the add and the scan nobody writes, so that the files on disk are the
\* staged ones.
DiskIsIndex ==
    \A c \in Chains : pc[c] = "scan" => work = {}

KeyInv == LockInv /\ OwnWrites /\ DiskIsIndex /\ ScannedIndex /\ KeyNeverCommitted

\* What chain c has written of a set of changes.
Of(c, S) == {x \in S : x.by = c}

\* Where the changes of a chain may be, by how far it has come, as long as no
\* step of it failed.
NotYetWritten == {"idle", "status", "probe", "unlinkDead", "unlink", "write", "server"}

Unstaged(c) == Of(c, index \cup ahead) = {}
Staged(c)   == Of(c, work \cup ahead) = {}
Committed(c) == Of(c, work \cup index) = {}
Public(c)   == Of(c, work \cup index \cup ahead) = {}

Whereabouts(c) ==
    /\ pc[c] \in NotYetWritten => Public(c)
    /\ pc[c] \in {"stages", "running", "add"} => Unstaged(c)
    /\ pc[c] \in {"scan", "commit"} => Staged(c)
    /\ pc[c] = "push" => Committed(c)
    /\ pc[c] \in {"release", "finish"} /\ chain[c].failed = {} => Public(c)
    /\ pc[c] = "done" /\ chain[c].code = 0 => Public(c)

\* A dry run starts no stage, so it has nothing to commit.
DryWritesNothing ==
    \A c \in Chains :
        /\ pc[c] = "running" => ~chain[c].kind.dry
        /\ pc[c] = "stages" /\ chain[c].kind.dry => Public(c)

PushInv ==
    /\ LockInv
    /\ DryWritesNothing
    /\ OwnWrites
    /\ \A c \in Chains : Whereabouts(c)

\* A step of the repository is one of a chain that holds the lock, and none makes
\* a change in another chain's name.
LEMMA RepoStep ==
    ASSUME TypeOK, OwnWrites, NEW d \in Chains, Moves(d)
    PROVE  /\ ~Running(d) => UNCHANGED Repo
           /\ \A x \in work' \cup index' \cup ahead' :
                 x.by # d => x \in work \cup index \cup ahead
  <1>1. CASE UNCHANGED Repo
    BY <1>1 DEF Repo
  <1>2. CASE StageWrites(d)
    <2>1. PICK key \in BOOLEAN :
             work' = Over(work, {[by |-> d, stage |-> Head(chain[d].todo),
                                  whole |-> FALSE, key |-> key]})
      BY <1>2 DEF StageWrites
    <2>2. \A x \in work' : x.by # d => x \in work
      BY <2>1, OverWithin
    <2> QED BY <1>2, <2>2 DEF StageWrites, Running
  <1>3. CASE EndStage(d)
    <2>1. work' \in {work, Completed(d)} /\ index' = index /\ ahead' = ahead
      BY <1>3 DEF EndStage
    <2>2. \A x \in chain[d].wrote : x \in Changes /\ x.by = d
      BY DEF OwnWrites, TypeOK, LocalState
    <2>3. \A x \in chain[d].wrote : [x EXCEPT !.whole = TRUE].by = d
      BY <2>2 DEF Changes
    <2>4. ASSUME NEW x \in Completed(d), x.by # d
          PROVE  x \in work
      <3>1. CASE x \in work
        BY <3>1
      <3>2. CASE \E w \in chain[d].wrote : x = [w EXCEPT !.whole = TRUE]
        BY <2>3, <2>4, <3>2
      <3> QED BY <2>4, <3>1, <3>2, OverWithin DEF Completed
    <2>5. Running(d)
      BY <1>3 DEF EndStage, Running
    <2>6. \A x \in work' : x.by # d => x \in work
      BY <2>1, <2>4
    <2> QED BY <2>1, <2>5, <2>6
  <1>4. CASE Add(d) \/ Scan(d)
    <2>1. OnDisk \subseteq index \cup work
      BY OverWithin DEF OnDisk
    <2> QED BY <1>4, <2>1 DEF Add, Scan, Unstage, Running
  <1>5. CASE Commit(d) \/ Push(d)
    BY <1>5 DEF Commit, Push, Running
  <1>6. CASE ~UNCHANGED Repo
    BY <1>2, <1>3, <1>4, <1>5, <1>6, RepoMovers
  <1> QED BY <1>1, <1>6

\* Only one chain at a time is between acquire and release.
LEMMA OneRuns ==
    ASSUME LockInv, NEW c \in Chains, NEW d \in Chains, Running(c), Running(d)
    PROVE  c = d
  BY DEF LockInv, HolderOwnsLock

\* What the scan reads when nothing unstaged covers it.
LEMMA ScanReadsIndex ==
    ASSUME Split = {}, work = {}
    PROVE  KeyHits = {x \in index : x.key}
  <1>1. OnDisk = index
    BY DEF OnDisk, Over
  <1>2. \A x : SameFile(x, x)
    BY DEF SameFile
  <1> QED BY <1>1, <1>2 DEF KeyHits, Scanned

\* Only the holder of the lock writes, and between its add and its scan it does not.
LEMMA DiskStep ==
    ASSUME "add" \notin GitFails, KeyInv, NEW d \in Chains, Moves(d)
    PROVE  DiskIsIndex'
  <1>1. TypeOK /\ LockInv /\ OwnWrites /\ pc \in [Chains -> Labels]
    BY DEF KeyInv, LockInv, TypeOK
  <1> SUFFICES ASSUME NEW c \in Chains, pc'[c] = "scan"
               PROVE  work' = {}
    BY DEF DiskIsIndex
  <1>2. CASE c # d
    <2>1. pc[c] = "scan"
      BY <1>1, <1>2, Frame
    <2>2. ~Running(d)
      BY <1>1, <1>2, <2>1, OneRuns DEF Running
    <2>3. work' = work
      BY <1>1, <2>2, RepoStep DEF Repo
    <2> QED BY <2>1, <2>3 DEF KeyInv, DiskIsIndex
  <1>3. CASE c = d
    <2>1. ~ \E kind \in Kinds : Start(d, kind)
      BY <1>1, <1>3 DEF Start, Goto
    <2>2. ~ (\/ CheckTree(d) \/ Probe(d) \/ UnlinkDead(d) \/ UnlinkStale(d)
             \/ WriteLock(d) \/ AskServer(d))
      BY <1>1, <1>3 DEF CheckTree, Probe, UnlinkDead, UnlinkStale, WriteLock, AskServer,
                        Refuse, Exit, Goto
    <2>3. ~ (\/ SkipStage(d) \/ StartStage(d) \/ EndStage(d) \/ EndStages(d)
             \/ StageWrites(d))
      BY <1>1, <1>3 DEF SkipStage, StartStage, EndStage, EndStages, StageWrites, Goto
    <2>4. ~ (Scan(d) \/ Commit(d) \/ Push(d))
      BY <1>1, <1>3 DEF Scan, Commit, Push, Goto
    <2>5. ~ (Release(d) \/ Finish(d) \/ Raise(d) \/ Kill(d))
      BY <1>1, <1>3 DEF Release, Finish, Raise, Kill, Exit, Goto
    <2>6. Add(d)
      BY <2>1, <2>2, <2>3, <2>4, <2>5 DEF Moves, Step
    <2> QED BY <2>6 DEF Add, GitResults
  <1> QED BY <1>2, <1>3

\* The scan comes before the commit of the same index: while a chain is about to
\* commit, no other one stages anything.
LEMMA KeyInvStep ==
    ASSUME "diff" \notin GitFails, "add" \notin GitFails, Split = {},
           KeyInv, LockInv', NEW d \in Chains, Moves(d)
    PROVE  KeyInv'
  <1>1. TypeOK /\ LockInv /\ pc \in [Chains -> Labels]
    BY DEF KeyInv, LockInv, TypeOK
  <1>2. \A c \in Chains \ {d} : pc'[c] = pc[c]
    BY <1>1, Frame
  <1>0. OwnWrites' /\ DiskIsIndex'
    BY <1>1, OwnWritesStep, DiskStep DEF KeyInv
  <1>3. CASE Scan(d)
    <2>1. pc'[d] = "commit" => index' = index /\ KeyHits = {}
      BY <1>1, <1>3 DEF Scan, Goto, GitResults
    <2>2. \A c \in Chains : pc'[c] = "commit" => c = d
      BY <1>1, <1>2, <1>3, OneRuns DEF Scan, Running
    <2>5. KeyHits = {x \in index : x.key}
      BY <1>3, ScanReadsIndex DEF KeyInv, DiskIsIndex, Scan
    <2>3. ScannedIndex'
      BY <2>1, <2>2, <2>5 DEF ScannedIndex
    <2>4. KeyNeverCommitted'
      BY <1>3 DEF KeyInv, KeyNeverCommitted, Scan
    <2> QED BY <1>0, <2>3, <2>4 DEF KeyInv
  <1>4. CASE Commit(d)
    <2>1. \A x \in index : ~x.key
      BY <1>4 DEF KeyInv, ScannedIndex, Commit
    <2>2. \A x \in index' \cup ahead' : x \in index \cup ahead
      BY <1>4 DEF Commit
    <2>3. remote' = remote
      BY <1>4 DEF Commit
    <2>4. \A x \in ahead' \cup remote' : ~x.key
      BY <2>1, <2>2, <2>3, <1>4 DEF KeyInv, KeyNeverCommitted, Commit
    <2>5. \A x \in index' : ~x.key
      BY <2>1, <1>4 DEF Commit
    <2> QED BY <1>0, <2>4, <2>5 DEF KeyInv, ScannedIndex, KeyNeverCommitted
  <1>5. CASE Add(d)
    <2>1. \A c \in Chains : pc'[c] # "commit"
      BY <1>1, <1>2, <1>5, OneRuns DEF Add, Goto, Running
    <2> QED BY <1>0, <1>5, <2>1 DEF KeyInv, ScannedIndex, KeyNeverCommitted, Add
  <1>6. CASE Push(d)
    <2>1. pc'[d] = "release" /\ index' = index
      BY <1>1, <1>6 DEF Push, Goto
    <2>2. ScannedIndex'
      BY <1>2, <2>1 DEF KeyInv, ScannedIndex
    <2>3. ahead' \cup remote' = ahead \cup remote
      BY <1>6 DEF Push
    <2> QED BY <1>0, <2>2, <2>3 DEF KeyInv, KeyNeverCommitted
  <1>7. ASSUME ~(Add(d) \/ Scan(d) \/ Commit(d) \/ Push(d))
        PROVE  UNCHANGED <<index, ahead, remote>> /\ pc'[d] # "commit"
    <2>1. ASSUME NEW kind \in Kinds, Start(d, kind)
          PROVE  UNCHANGED <<index, ahead, remote>> /\ pc'[d] # "commit"
      BY <1>1, <2>1 DEF Start, Goto, Repo
    <2>2. CASE \/ CheckTree(d) \/ Probe(d) \/ UnlinkDead(d) \/ UnlinkStale(d)
               \/ WriteLock(d) \/ AskServer(d)
      BY <1>1, <2>2 DEF CheckTree, Probe, UnlinkDead, UnlinkStale, WriteLock, AskServer,
                        Refuse, Exit, Goto, Repo
    <2>3. CASE \/ SkipStage(d) \/ StartStage(d) \/ EndStage(d) \/ EndStages(d)
               \/ StageWrites(d)
      BY <1>1, <2>3 DEF SkipStage, StartStage, EndStage, EndStages, StageWrites, Goto,
                        Repo
    <2>4. CASE Release(d) \/ Finish(d) \/ Raise(d) \/ Kill(d)
      BY <1>1, <2>4 DEF Release, Finish, Raise, Kill, Exit, Goto, Repo
    <2> QED BY <1>7, <2>1, <2>2, <2>3, <2>4 DEF Moves, Step
  <1>8. CASE ~(Add(d) \/ Scan(d) \/ Commit(d) \/ Push(d))
    BY <1>0, <1>2, <1>7, <1>8 DEF KeyInv, ScannedIndex, KeyNeverCommitted
  <1> QED BY <1>3, <1>4, <1>5, <1>6, <1>8

\* The scan reads the working tree and the commit takes the index.  If no two tasks
\* are inside Lock.acquire at once, the lock keeps the two the same in between: with
\* names git tells (`git add` and `git diff --cached` do not fail) and split() does
\* not break, no key is ever committed or pushed, whatever the number of tasks,
\* their kills, the files they write over and those an earlier one left staged.
THEOREM KeysStayPrivate ==
    ASSUME Spaced, "add" \notin GitFails, "diff" \notin GitFails, Split = {}
    PROVE  Spec => []KeyNeverCommitted
  <1>1. Init => KeyInv /\ StageToRun
    <2>1. Init => DiskIsIndex /\ ScannedIndex /\ KeyNeverCommitted
      BY DEF Init, DiskIsIndex, ScannedIndex, KeyNeverCommitted
    <2>2. ASSUME Init, NEW c \in Chains
          PROVE  chain[c].wrote = {}
      BY <2>2 DEF Init, Local
    <2>3. Init => OwnWrites
      BY <2>2 DEF OwnWrites
    <2> QED BY <2>1, <2>3, LockInvInit DEF KeyInv
  <1>2. KeyInv /\ StageToRun /\ [Next]_vars => KeyInv' /\ StageToRun'
    <2> SUFFICES ASSUME KeyInv, StageToRun, [Next]_vars
                 PROVE  KeyInv' /\ StageToRun'
      OBVIOUS
    <2>1. LockInv' /\ StageToRun'
      BY LockInvNext DEF KeyInv
    <2>2. ASSUME NEW d \in Chains, Moves(d) PROVE KeyInv'
      BY <2>1, <2>2, KeyInvStep
    <2>3. CASE Tick \/ Tidy \/ UNCHANGED vars
      <3>1. /\ pc' = pc /\ chain' = chain /\ ahead' = ahead /\ remote' = remote
            /\ index' \subseteq index /\ work' \subseteq work
        BY <2>3 DEF Tick, Tidy, vars, Repo
      <3> QED BY <2>1, <3>1 DEF KeyInv, OwnWrites, DiskIsIndex, ScannedIndex,
                                KeyNeverCommitted
    <2> QED BY <2>1, <2>2, <2>3 DEF Next, Moves
  <1>3. KeyInv => KeyNeverCommitted
    BY DEF KeyInv
  <1> QED BY <1>1, <1>2, <1>3, PTL DEF Spec

(***************************************************************************)
(* Where the changes of a chain are.  The moving chain is looked at step   *)
(* by step; another one either holds the lock, and then the mover does not *)
(* touch the repository, or claims only that none of its changes is left.  *)
(***************************************************************************)
LEMMA OthersWhereabouts ==
    ASSUME PushInv, NEW c \in Chains, NEW d \in Chains, c # d, Moves(d)
    PROVE  Whereabouts(c)'
  <1>1. LockInv /\ TypeOK /\ OwnWrites /\ Whereabouts(c)
    BY DEF PushInv, LockInv
  <1>2. pc'[c] = pc[c] /\ chain'[c] = chain[c]
    BY <1>1, Frame
  <1>3. CASE Running(c)
    <2>1. ~Running(d)
      BY <1>1, <1>3, OneRuns
    <2>2. UNCHANGED Repo
      BY <1>1, <2>1, RepoStep
    <2>3. work' = work /\ index' = index /\ ahead' = ahead
      BY <2>2 DEF Repo
    <2> QED BY <1>1, <1>2, <2>3 DEF Whereabouts, Public, Unstaged, Staged, Committed, Of
  <1>4. CASE ~Running(c)
    <2>1. /\ pc[c] \notin {"stages", "running", "add", "scan", "commit", "push",
                           "release", "server"}
      BY <1>4 DEF Running
    <2>2. Public(c) => Public(c)'
      <3>1. \A x \in work' \cup index' \cup ahead' :
               x.by # d => x \in work \cup index \cup ahead
        BY <1>1, RepoStep
      <3> QED BY <3>1 DEF Public, Of
    <2> QED BY <1>1, <1>2, <2>1, <2>2 DEF Whereabouts
  <1> QED BY <1>3, <1>4

\* The steps of a chain before it may write, and those that only leave.
LEMMA EarlyWhereabouts ==
    ASSUME PushInv, NEW d \in Chains,
           \/ \E kind \in Kinds : Start(d, kind)
           \/ CheckTree(d) \/ Probe(d) \/ UnlinkDead(d) \/ UnlinkStale(d)
           \/ WriteLock(d) \/ AskServer(d) \/ Raise(d) \/ Kill(d)
    PROVE  Whereabouts(d)'
  <1>1. TypeOK /\ Whereabouts(d) /\ pc \in [Chains -> Labels]
        /\ chain \in [Chains -> LocalState]
    BY DEF PushInv, LockInv, TypeOK
  <1>2. CASE \E kind \in Kinds : Start(d, kind)
    <2>1. pc[d] = "idle" /\ pc'[d] = "status" /\ UNCHANGED Repo
      BY <1>1, <1>2 DEF Start, Goto
    <2> QED BY <1>1, <2>1 DEF Whereabouts, NotYetWritten, Public, Of, Repo
  <1>3. CASE \/ CheckTree(d) \/ Probe(d)
    <2>1. \/ pc'[d] \in {"probe", "write", "unlinkDead", "unlink"}
          \/ pc'[d] = "done" /\ chain'[d].code = 1
      BY <1>1, <1>3 DEF CheckTree, Probe, Refuse, Exit, Goto, Local
    <2>2. pc[d] \in {"status", "probe"} /\ UNCHANGED Repo
      BY <1>3 DEF CheckTree, Probe
    <2> QED BY <1>1, <2>1, <2>2 DEF Whereabouts, NotYetWritten, Public, Of, Repo
  <1>4. CASE UnlinkDead(d) \/ UnlinkStale(d) \/ WriteLock(d) \/ AskServer(d)
    <2>1. pc'[d] \in {"escaped", "unlink", "write", "server", "stages"}
      BY <1>1, <1>4 DEF UnlinkDead, UnlinkStale, WriteLock, AskServer, Exit, Goto
    <2>2. pc[d] \in {"unlinkDead", "unlink", "write", "server"} /\ UNCHANGED Repo
      BY <1>4 DEF UnlinkDead, UnlinkStale, WriteLock, AskServer
    <2> QED BY <1>1, <2>1, <2>2 DEF Whereabouts, NotYetWritten, Public, Unstaged, Of, Repo
  <1>5. CASE Raise(d) \/ Kill(d)
    <2>1. pc'[d] \in {"escaped", "dead"}
      BY <1>1, <1>5 DEF Raise, Kill, Exit, Goto
    <2> QED BY <2>1 DEF Whereabouts, NotYetWritten
  <1> QED BY <1>2, <1>3, <1>4, <1>5

\* The stages: what they write stays in the working tree.
LEMMA StageWhereabouts ==
    ASSUME PushInv, NEW d \in Chains,
           SkipStage(d) \/ StartStage(d) \/ StageWrites(d) \/ EndStage(d) \/ EndStages(d)
    PROVE  Whereabouts(d)'
  <1>1. TypeOK /\ Whereabouts(d) /\ pc \in [Chains -> Labels] /\ DryWritesNothing
    BY DEF PushInv, LockInv, TypeOK
  <1>2. CASE SkipStage(d) \/ StartStage(d) \/ StageWrites(d) \/ EndStage(d)
    <2>1. pc[d] \in {"stages", "running"} /\ pc'[d] \in {"stages", "running"}
      BY <1>1, <1>2 DEF SkipStage, StartStage, StageWrites, EndStage, Goto
    <2>2. index' = index /\ ahead' = ahead
      BY <1>2 DEF SkipStage, StartStage, StageWrites, EndStage, Repo
    <2> QED BY <1>1, <2>1, <2>2 DEF Whereabouts, Unstaged, Of, NotYetWritten
  <1>3. CASE EndStages(d)
    <2>1. /\ pc[d] = "stages" /\ UNCHANGED Repo
          /\ \/ pc'[d] = "add"
             \/ pc'[d] = "release" /\ chain[d].kind.dry
      BY <1>1, <1>3 DEF EndStages, Goto
    <2>2. pc'[d] = "release" => Public(d)
      BY <2>1 DEF PushInv, DryWritesNothing
    <2> QED BY <1>1, <2>1, <2>2 DEF Whereabouts, Public, Unstaged, Of, Repo, NotYetWritten
  <1> QED BY <1>2, <1>3

\* The git calls move the chain's changes on, or one of them is counted as failed.
LEMMA GitWhereabouts ==
    ASSUME "add" \notin GitFails, PushInv, NEW d \in Chains,
           Add(d) \/ Scan(d) \/ Commit(d) \/ Push(d)
    PROVE  Whereabouts(d)'
  <1>1. TypeOK /\ Whereabouts(d) /\ pc \in [Chains -> Labels]
        /\ chain \in [Chains -> LocalState]
    BY DEF PushInv, LockInv, TypeOK
  <1>2. CASE Add(d)
    <2>1. /\ pc[d] = "add" /\ pc'[d] = "scan"
          /\ work' = {} /\ ahead' = ahead
      BY <1>1, <1>2 DEF Add, Goto, GitResults
    <2> QED BY <1>1, <2>1 DEF Whereabouts, Unstaged, Staged, Of, NotYetWritten
  <1>3. ASSUME NEW step \in {"key scan", "commit", "push"}, Failed(d, step)
        PROVE  chain'[d].failed # {}
    BY <1>1, <1>3 DEF Failed, LocalState
  <1>4. CASE Scan(d)
    <2>1. pc[d] = "scan" /\ ahead' = ahead
      BY <1>4 DEF Scan
    <2>2. \/ pc'[d] = "release" /\ chain'[d].failed # {}
          \/ pc'[d] = "release" /\ index = {} /\ UNCHANGED <<work, index>>
          \/ pc'[d] = "commit" /\ UNCHANGED <<work, index>>
      BY <1>1, <1>3, <1>4 DEF Scan, Goto
    <2> QED BY <1>1, <2>1, <2>2 DEF Whereabouts, Staged, Public, Of, NotYetWritten
  <1>5. CASE Commit(d)
    <2>1. pc[d] = "commit" /\ work' = work
      BY <1>5 DEF Commit
    <2>2. \/ pc'[d] = "release" /\ chain'[d].failed # {}
          \/ pc'[d] = "push" /\ index' = {}
      BY <1>1, <1>3, <1>5 DEF Commit, Goto
    <2> QED BY <1>1, <2>1, <2>2 DEF Whereabouts, Staged, Committed, Of, NotYetWritten
  <1>6. CASE Push(d)
    <2>1. pc[d] = "push" /\ work' = work /\ index' = index
      BY <1>6 DEF Push
    <2>2. \/ pc'[d] = "release" /\ chain'[d].failed # {}
          \/ pc'[d] = "release" /\ ahead' = {}
      BY <1>1, <1>3, <1>6 DEF Push, Goto
    <2> QED BY <1>1, <2>1, <2>2 DEF Whereabouts, Committed, Public, Of, NotYetWritten
  <1> QED BY <1>2, <1>4, <1>5, <1>6

LEMMA LastWhereabouts ==
    ASSUME PushInv, NEW d \in Chains, Release(d) \/ Finish(d)
    PROVE  Whereabouts(d)'
  <1>1. TypeOK /\ Whereabouts(d) /\ pc \in [Chains -> Labels]
        /\ chain \in [Chains -> LocalState]
    BY DEF PushInv, LockInv, TypeOK
  <1>2. CASE Release(d)
    <2>1. pc[d] = "release" /\ pc'[d] = "finish" /\ UNCHANGED <<Repo, chain>>
      BY <1>1, <1>2 DEF Release, Goto
    <2> QED BY <1>1, <2>1 DEF Whereabouts, Public, Of, Repo, NotYetWritten
  <1>3. CASE Finish(d)
    <2>1. /\ pc[d] = "finish" /\ pc'[d] = "done" /\ UNCHANGED Repo
          /\ chain'[d].code = ExitCode(d)
      BY <1>1, <1>3 DEF Finish, Exit, Goto, Local
    <2>2. chain'[d].code = 0 => chain[d].failed = {}
      BY <2>1 DEF ExitCode
    <2> QED BY <1>1, <2>1, <2>2 DEF Whereabouts, Public, Of, Repo, NotYetWritten
  <1> QED BY <1>2, <1>3

\* A dry run goes over its stages without starting one.
LEMMA DryStep ==
    ASSUME PushInv, NEW d \in Chains, Moves(d)
    PROVE  DryWritesNothing'
  <1>1. /\ TypeOK /\ LockInv /\ DryWritesNothing /\ OwnWrites
        /\ pc \in [Chains -> Labels] /\ chain \in [Chains -> LocalState]
    BY DEF PushInv, LockInv, TypeOK
  <1>2. \A c \in Chains \ {d} : pc'[c] = pc[c] /\ chain'[c] = chain[c]
    BY <1>1, Frame
  <1>3. ASSUME NEW c \in Chains, c # d
        PROVE  /\ pc'[c] = "running" => ~chain'[c].kind.dry
               /\ pc'[c] = "stages" /\ chain'[c].kind.dry => Public(c)'
    <2>1. CASE Running(c)
      <3>1. UNCHANGED Repo
        BY <1>1, <1>3, <2>1, OneRuns, RepoStep
      <3> QED BY <1>1, <1>2, <1>3, <3>1 DEF DryWritesNothing, Public, Repo
    <2>2. CASE ~Running(c)
      BY <1>2, <1>3, <2>2 DEF Running
    <2> QED BY <2>1, <2>2
  <1>4. ASSUME pc'[d] = "running"
        PROVE  ~chain'[d].kind.dry
    <2>1. CASE StartStage(d)
      BY <2>1 DEF StartStage, Skipped
    <2>2. CASE StageWrites(d)
      <3>1. PICK half : chain' = [chain EXCEPT ![d].wrote = {half}]
        BY <2>2 DEF StageWrites
      <3>2. chain'[d].kind = chain[d].kind
        BY <1>1, <3>1, LocalFields
      <3> QED BY <1>1, <2>2, <3>2 DEF DryWritesNothing, StageWrites
    <2> QED BY <1>1, <1>4, <2>1, <2>2, OwnStep
  <1>5. ASSUME pc'[d] = "stages", chain'[d].kind.dry
        PROVE  Public(d)'
    <2>1. AskServer(d) \/ SkipStage(d) \/ EndStage(d)
      <3>1. ~ \E kind \in Kinds : Start(d, kind)
        BY <1>1, <1>5 DEF Start, Goto
      <3>2. ~ (\/ CheckTree(d) \/ Probe(d) \/ UnlinkDead(d) \/ UnlinkStale(d)
               \/ WriteLock(d))
        BY <1>1, <1>5 DEF CheckTree, Probe, UnlinkDead, UnlinkStale, WriteLock,
               Refuse, Exit, Goto
      <3>3. ~ (StartStage(d) \/ EndStages(d) \/ StageWrites(d))
        BY <1>1, <1>5 DEF StartStage, EndStages, StageWrites, Goto
      <3>4. ~ (Add(d) \/ Scan(d) \/ Commit(d) \/ Push(d))
        BY <1>1, <1>5 DEF Add, Scan, Commit, Push, Goto
      <3>5. ~ (Release(d) \/ Finish(d) \/ Raise(d) \/ Kill(d))
        BY <1>1, <1>5 DEF Release, Finish, Raise, Kill, Exit, Goto
      <3> QED BY <3>1, <3>2, <3>3, <3>4, <3>5 DEF Moves, Step
    <2>2. CASE AskServer(d)
      <3>1. pc[d] = "server" /\ UNCHANGED Repo
        BY <2>2 DEF AskServer
      <3>2. Public(d)
        BY <3>1 DEF PushInv, Whereabouts, NotYetWritten
      <3> QED BY <3>1, <3>2 DEF Public, Repo
    <2>3. CASE SkipStage(d)
      <3>1. chain'[d].kind = chain[d].kind
        BY <1>1, <2>3, LocalFields DEF SkipStage
      <3>2. pc[d] = "stages" /\ UNCHANGED Repo
        BY <2>3 DEF SkipStage
      <3> QED BY <1>1, <1>5, <3>1, <3>2 DEF DryWritesNothing, Public, Repo
    <2>4. CASE EndStage(d)
      <3> DEFINE stage == Head(chain[d].todo)
      <3>1. \/ chain'[d] = [chain[d] EXCEPT !.todo = Tail(@), !.wrote = {}]
            \/ chain'[d] = [chain[d] EXCEPT !.todo = Tail(@), !.wrote = {},
                                            !.failed = @ \cup {stage},
                                            !.stop = @ \/ IsTokenStage(stage)]
        BY <1>1, <2>4 DEF EndStage
      <3>2. chain'[d].kind = chain[d].kind
        BY <1>1, <3>1, LocalFields
      <3> QED BY <1>1, <1>5, <2>4, <3>2 DEF DryWritesNothing, EndStage
    <2> QED BY <2>1, <2>2, <2>3, <2>4
  <1> QED BY <1>3, <1>4, <1>5 DEF DryWritesNothing

\* If no two tasks are inside Lock.acquire at once and `git add` does not fail, a
\* chain that exits with code 0 has left none of its changes behind: whatever other
\* tasks do to the same tree before, between and after its steps, all is pushed.
THEOREM ExitZeroIsPublic ==
    ASSUME Spaced, "add" \notin GitFails
    PROVE  Spec => []ExitZeroPushed
  <1>1. Init => PushInv /\ StageToRun
    <2> SUFFICES ASSUME Init
                 PROVE  PushInv /\ StageToRun
      OBVIOUS
    <2>1. \A c \in Chains : pc[c] = "idle" /\ chain[c].wrote = {}
      BY DEF Init, Local
    <2>2. \A c \in Chains : Public(c)
      BY DEF Init, Public, Of
    <2>3. DryWritesNothing /\ OwnWrites
      BY <2>1 DEF DryWritesNothing, OwnWrites
    <2>4. \A c \in Chains : Whereabouts(c)
      BY <2>1, <2>2 DEF Whereabouts
    <2> QED BY <2>3, <2>4, LockInvInit DEF PushInv
  <1>2. PushInv /\ StageToRun /\ [Next]_vars => PushInv' /\ StageToRun'
    <2> SUFFICES ASSUME PushInv, StageToRun, [Next]_vars
                 PROVE  PushInv' /\ StageToRun'
      OBVIOUS
    <2>1. LockInv' /\ StageToRun'
      BY LockInvNext DEF PushInv
    <2>2. ASSUME NEW d \in Chains, Moves(d) PROVE PushInv'
      <3>1. Whereabouts(d)'
        BY <2>2, EarlyWhereabouts, StageWhereabouts, GitWhereabouts, LastWhereabouts
           DEF Moves, Step
      <3>2. \A c \in Chains \ {d} : Whereabouts(c)'
        BY <2>2, OthersWhereabouts
      <3> QED BY <2>1, <2>2, <3>1, <3>2, OwnWritesStep, DryStep DEF PushInv, LockInv
    <2>3. CASE Tick \/ Tidy \/ UNCHANGED vars
      <3>1. /\ pc' = pc /\ chain' = chain /\ ahead' = ahead
            /\ work' \subseteq work /\ index' \subseteq index
        BY <2>3 DEF Tick, Tidy, vars, Repo
      <3>2. \A c \in Chains : Whereabouts(c)'
        BY <3>1 DEF PushInv, Whereabouts, Public, Unstaged, Staged, Committed, Of
      <3>3. DryWritesNothing' /\ OwnWrites'
        BY <3>1 DEF PushInv, DryWritesNothing, OwnWrites, Public, Of
      <3> QED BY <2>1, <3>2, <3>3 DEF PushInv
    <2> QED BY <2>1, <2>2, <2>3 DEF Next, Moves
  <1>3. PushInv => ExitZeroPushed
    BY DEF PushInv, Whereabouts, Public, Of, ExitZeroPushed
  <1> QED BY <1>1, <1>2, <1>3, PTL DEF Spec
===============================================================================
