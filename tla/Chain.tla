-------------------------------- MODULE Chain --------------------------------
(***************************************************************************)
(* The unattended chain (factory/chain.py): several tasks of the same      *)
(* working copy, each of which checks that the tree is clean, takes a lock *)
(* file, runs its stages as child processes, commits what they wrote under *)
(* out/ and pushes it.  Tasks overlap as the scheduler starts them, and    *)
(* any of them may be killed at any point.                                 *)
(*                                                                         *)
(* A change is what one chain's stages wrote under out/: whole, or half    *)
(* when a stage stopped between two of its writes; it may carry a key.     *)
(* The stages of a token write files of their own or append to a log; the  *)
(* behavioral and the site stage write over the same files in every chain. *)
(***************************************************************************)
EXTENDS Naturals, Sequences, FiniteSets

CONSTANTS Chains,       \* task instances, each started once
          Kinds,        \* how they are started (a subset of Kind)
          GitFails,     \* git calls that may return non-zero
          StageFails,   \* stages that may exit non-zero
          Spaced,       \* no two tasks are inside Lock.acquire at once
          Stale,        \* STALE_LOCK_S, in ticks of the clock
          Limit,        \* Task Scheduler stops a task after Limit ticks
          Writers,      \* stages that change something under out/ (bound)
          Split,        \* stages with names staged.split() breaks: they hold a space
          MaxClock,     \* last tick of the model (bound)
          None

Kind == [mode : {"monthly", "weekly"}, dry : BOOLEAN]

\* chain.lock: the process id it names, if any, and its file time.
LockFile == [pid : Chains \cup {None}, at : Nat]

\* The 12 hours of the scheduler run from the start of the task, those of the
\* lock from its file time, which is later.
ASSUME ChainAssumption ==
    /\ Kinds \subseteq Kind
    /\ Spaced \in BOOLEAN
    /\ Stale \in Nat /\ Limit \in Nat \ {0} /\ MaxClock \in Nat
    /\ Limit < Stale
    /\ None \notin Chains \cup LockFile

VARIABLES clock,
          lock,      \* the lock file: None, or its content and file time
          work,      \* changes under out/ not staged
          index,     \* changes staged
          ahead,     \* changes in local commits not pushed
          remote,    \* changes pushed: what the public site is deployed from
          pc,        \* where each chain is
          chain      \* its local variables

vars == <<clock, lock, work, index, ahead, remote, pc, chain>>

TokenStages == <<"run", "tree", "stress", "report">>

SharedStages == <<"behavioral", "site">>

Plan(mode) == IF mode = "monthly" THEN TokenStages \o SharedStages ELSE SharedStages

IsTokenStage(s) == s \in {TokenStages[i] : i \in DOMAIN TokenStages}

\* The state of a chain before its first line, and `wrote`: what the stage it
\* is running has written so far (at most one change).
Local == [kind |-> [mode |-> "weekly", dry |-> FALSE], now |-> 0, todo |-> <<>>,
          stop |-> FALSE, failed |-> {}, wrote |-> {}, log |-> "", code |-> None]

Ended == {"done", "escaped", "dead"}

Live(c) == pc[c] \notin Ended \cup {"idle"}

Acquiring(c) == pc[c] \in {"status", "probe", "unlinkDead", "unlink", "write"}

\* Between a taken lock and its release: the body of `try`.
Running(c) == pc[c] \in {"server", "stages", "running", "add", "scan", "commit",
                         "push", "release"}   \* Lock.held

Clean == work = {} /\ index = {}

Goto(c, label) == pc' = [pc EXCEPT ![c] = label]

Repo == <<work, index, ahead, remote>>

SameFile(x, y) == x = y \/ (x.stage = y.stage /\ ~IsTokenStage(x.stage))

\* What is left of `old` under the newer changes, and these.
Over(old, new) == {x \in old : \A y \in new : ~SameFile(x, y)} \cup new

\* The working tree holds what is not staged over what is.
OnDisk == Over(index, work)

GitResults(call) == IF call \in GitFails THEN {"ok", "fail"} ELSE {"ok"}
-------------------------------------------------------------------------------
Init ==
    /\ clock = 0
    /\ lock = None
    /\ work = {} /\ index = {} /\ ahead = {} /\ remote = {}
    /\ pc = [c \in Chains |-> "idle"]
    /\ chain = [c \in Chains |-> Local]

\* `now` is read once, before the tree is looked at.
Start(c, kind) ==
    /\ pc[c] = "idle"
    /\ clock + Limit <= MaxClock
    /\ Spaced => \A d \in Chains : ~Acquiring(d)
    /\ Goto(c, "status")
    /\ chain' = [chain EXCEPT ![c].kind = kind, ![c].now = clock]
    /\ UNCHANGED <<clock, lock, Repo>>

\* The process is gone, and its local variables with it: what is left of it is
\* the last line of its log and its exit code.
Exit(c, label, line, code) ==
    /\ Goto(c, label)
    /\ chain' = [chain EXCEPT ![c] = [Local EXCEPT !.log = line, !.code = code]]

\* A chain that ends before it holds the lock.
Refuse(c, line) == Exit(c, "done", line, 1)

CheckTree(c) ==
    /\ pc[c] = "status"
    /\ \E rc \in GitResults("status") :
          IF rc = "ok" /\ Clean
          THEN Goto(c, "probe") /\ UNCHANGED chain
          ELSE Refuse(c, "not clean")
    /\ UNCHANGED <<clock, lock, Repo>>

\* Mutant: OpenProcess is denied for a live holder, which is taken for dead.
AliveUnknown(pid) == BOOLEAN

\* _pid_alive: a process id may have been given to another process since; an
\* unreadable lock file names none and is not dead.
Alive(pid) == IF pid = None \/ Live(pid) THEN {TRUE} ELSE BOOLEAN

Age(c) == IF chain[c].now > lock.at THEN chain[c].now - lock.at ELSE 0

\* Lock.acquire up to its decision: the file is absent, its holder is dead, it
\* is held, or it is stale.
Probe(c) ==
    /\ pc[c] = "probe"
    /\ \/ /\ lock = None
          /\ Goto(c, "write")
          /\ UNCHANGED chain
       \/ /\ lock # None /\ FALSE \in Alive(lock.pid)
          /\ Goto(c, "unlinkDead")
          /\ UNCHANGED chain
       \/ /\ lock # None /\ TRUE \in Alive(lock.pid)
          /\ Age(c) < Stale
          /\ Refuse(c, "busy")
       \/ /\ lock # None /\ TRUE \in Alive(lock.pid)
          /\ Age(c) >= Stale
          /\ Goto(c, "unlink")
          /\ UNCHANGED chain
    /\ UNCHANGED <<clock, lock, Repo>>

\* Path.unlink raises when the file is gone: nothing is logged, no alert.
UnlinkDead(c) ==
    /\ pc[c] = "unlinkDead"
    /\ IF lock = None THEN Exit(c, "escaped", "", None)
       ELSE Goto(c, "unlink") /\ UNCHANGED chain
    /\ lock' = None
    /\ UNCHANGED <<clock, Repo>>

UnlinkStale(c) ==
    /\ pc[c] = "unlink"
    /\ lock' = None
    /\ Goto(c, "write")
    /\ UNCHANGED <<clock, Repo, chain>>

WriteLock(c) ==
    /\ pc[c] = "write"
    /\ lock' = [pid |-> c, at |-> clock]
    /\ Goto(c, "server")
    /\ chain' = [chain EXCEPT ![c].todo = Plan(chain[c].kind.mode)]
    /\ UNCHANGED <<clock, Repo>>

\* Monthly only: an unreachable model server skips the token's stages.
AskServer(c) ==
    /\ pc[c] = "server"
    /\ Goto(c, "stages")
    /\ \/ UNCHANGED chain
       \/ /\ chain[c].kind.mode = "monthly" /\ "server" \in StageFails
          /\ chain' = [chain EXCEPT ![c].failed = {"ollama"}, ![c].stop = TRUE]
    /\ UNCHANGED <<clock, lock, Repo>>

\* A token stage after a failed one is skipped; a dry run only logs its plan.
Skipped(c) ==
    chain[c].kind.dry \/ (chain[c].stop /\ IsTokenStage(Head(chain[c].todo)))

SkipStage(c) ==
    /\ pc[c] = "stages" /\ chain[c].todo # <<>> /\ Skipped(c)
    /\ chain' = [chain EXCEPT ![c].todo = Tail(@)]
    /\ UNCHANGED <<clock, lock, Repo, pc>>

StartStage(c) ==
    /\ pc[c] = "stages" /\ chain[c].todo # <<>> /\ ~Skipped(c)
    /\ Goto(c, "running")
    /\ UNCHANGED <<clock, lock, Repo, chain>>

\* The child process between its first write and its last: half a change.
StageWrites(c) ==
    /\ pc[c] = "running" /\ chain[c].wrote = {}
    /\ Head(chain[c].todo) \in Writers
    /\ \E key \in BOOLEAN :
          LET half == [by |-> c, stage |-> Head(chain[c].todo),
                       whole |-> FALSE, key |-> key]
          IN  /\ work' = Over(work, {half})
              /\ chain' = [chain EXCEPT ![c].wrote = {half}]
    /\ UNCHANGED <<clock, lock, index, ahead, remote, pc>>

Completed(c) ==
    Over(work \ chain[c].wrote, {[x EXCEPT !.whole = TRUE] : x \in chain[c].wrote})

\* The child exits: zero with its writes complete, or non-zero after any part
\* of them, which stops the later token stages.
EndStage(c) ==
    LET stage == Head(chain[c].todo)
    IN  /\ pc[c] = "running"
        /\ Goto(c, "stages")
        /\ \/ /\ work' = Completed(c)
              /\ chain' = [chain EXCEPT ![c].todo = Tail(@), ![c].wrote = {}]
           \/ /\ stage \in StageFails
              /\ work' \in {work, Completed(c)}
              /\ chain' = [chain EXCEPT ![c].todo = Tail(@), ![c].wrote = {},
                                        ![c].failed = @ \cup {stage},
                                        ![c].stop = @ \/ IsTokenStage(stage)]
        /\ UNCHANGED <<clock, lock, index, ahead, remote>>

EndStages(c) ==
    /\ pc[c] = "stages" /\ chain[c].todo = <<>>
    /\ Goto(c, IF chain[c].kind.dry THEN "release" ELSE "add")
    /\ UNCHANGED <<clock, lock, Repo, chain>>

\* git add -A out/: its result is not looked at.
Add(c) ==
    /\ pc[c] = "add"
    /\ \/ index' = OnDisk /\ work' = {}
       \/ "fail" \in GitResults("add") /\ UNCHANGED <<index, work>>
    /\ Goto(c, "scan")
    /\ UNCHANGED <<clock, lock, ahead, remote, chain>>

Failed(c, step) == chain' = [chain EXCEPT ![c].failed = @ \cup {step}]

\* The staged files git names are read on disk, as they are by then; the parts of
\* a broken name are no files.
Scanned == {x \in OnDisk : x.stage \notin Split /\ \E y \in index : SameFile(x, y)}

\* Mutant: git diff --name-only, without --cached.
KeyHitsUnstaged == {x \in OnDisk : x.key /\ \E y \in work : SameFile(x, y)}

KeyHits == {x \in Scanned : x.key}

\* Mutant: git reset --hard.
UnstageHard == index' = {} /\ UNCHANGED work

\* git reset -q
Unstage == index' = {} /\ work' = OnDisk

\* git diff --cached, the key scan of the files it names, and git reset on a hit.
\* A failing diff prints a message, whose words name no file: no hit.
Scan(c) ==
    /\ pc[c] = "scan"
    /\ \/ /\ KeyHits # {}
          /\ Unstage
          /\ Failed(c, "key scan")
          /\ Goto(c, "release")
       \/ /\ KeyHits = {}
          /\ Goto(c, IF index = {} THEN "release" ELSE "commit")
          /\ UNCHANGED <<work, index, chain>>
       \/ /\ "fail" \in GitResults("diff")
          /\ Goto(c, "commit")
          /\ UNCHANGED <<work, index, chain>>
    /\ UNCHANGED <<clock, lock, ahead, remote>>

\* git commit takes the whole index, whoever staged it.
Commit(c) ==
    /\ pc[c] = "commit"
    /\ \/ /\ index # {}
          /\ ahead' = ahead \cup index /\ index' = {}
          /\ Goto(c, "push")
          /\ UNCHANGED chain
       \/ /\ index = {} \/ "fail" \in GitResults("commit")
          /\ Failed(c, "commit")
          /\ Goto(c, "release")
          /\ UNCHANGED <<index, ahead>>
    /\ UNCHANGED <<clock, lock, work, remote>>

\* Mutant: a failing push is logged and not counted.
PushUncounted(c) ==
    /\ pc[c] = "push"
    /\ \/ remote' = remote \cup ahead /\ ahead' = {}
       \/ "fail" \in GitResults("push") /\ UNCHANGED <<remote, ahead>>
    /\ Goto(c, "release")
    /\ UNCHANGED <<clock, lock, work, index, chain>>

Push(c) ==
    /\ pc[c] = "push"
    /\ \/ /\ remote' = remote \cup ahead /\ ahead' = {}
          /\ UNCHANGED chain
       \/ /\ "fail" \in GitResults("push")
          /\ Failed(c, "push")
          /\ UNCHANGED <<remote, ahead>>
    /\ Goto(c, "release")
    /\ UNCHANGED <<clock, lock, work, index>>

\* Lock.release removes whatever file is at its path.
Release(c) ==
    /\ pc[c] = "release"
    /\ lock' = None
    /\ Goto(c, "finish")
    /\ UNCHANGED <<clock, Repo, chain>>

ExitCode(c) ==
    IF chain[c].failed = {} THEN 0
    ELSE IF chain[c].failed = {"behavioral"} THEN 2 ELSE 1

Finish(c) ==
    /\ pc[c] = "finish"
    /\ Exit(c, "done", "exit", ExitCode(c))
    /\ UNCHANGED <<clock, lock, Repo>>

\* Mutant: no `finally`.
RaiseHolding(c) ==
    /\ Running(c) /\ chain[c].wrote = {}
    /\ Exit(c, "escaped", "", None)
    /\ UNCHANGED <<clock, lock, Repo>>

\* An exception inside `try` (an unreadable status.json, no git): `finally`
\* frees the lock and the process ends with no log and no alert.
Raise(c) ==
    /\ Running(c) /\ chain[c].wrote = {}
    /\ lock' = None
    /\ Exit(c, "escaped", "", None)
    /\ UNCHANGED <<clock, Repo>>
-------------------------------------------------------------------------------
(***************************************************************************)
(* The chain's surroundings: the clock, the scheduler and the owner.       *)
(***************************************************************************)
\* No task outlives the scheduler's limit.
Tick ==
    /\ clock < MaxClock
    /\ \A c \in Chains : Live(c) => clock < chain[c].now + Limit
    /\ clock' = clock + 1
    /\ UNCHANGED <<lock, Repo, pc, chain>>

\* The task is stopped, or the laptop is: the lock and the tree stay as they
\* are.  Killed inside write_text, it leaves an empty lock file.
Kill(c) ==
    /\ Live(c)
    /\ Exit(c, "dead", "", None)
    /\ lock' \in {lock} \cup
          (IF pc[c] = "write" THEN {[pid |-> None, at |-> clock]} ELSE {})
    /\ UNCHANGED <<clock, Repo>>

\* The owner discards what a stopped run left, when nothing is running.
Tidy ==
    /\ ~Clean
    /\ \A c \in Chains : ~Live(c)
    /\ work' = {} /\ index' = {}
    /\ UNCHANGED <<clock, lock, ahead, remote, pc, chain>>

\* What chain c does by itself once started.
Step(c) ==
    \/ CheckTree(c) \/ Probe(c) \/ UnlinkDead(c) \/ UnlinkStale(c) \/ WriteLock(c)
    \/ AskServer(c) \/ SkipStage(c) \/ StartStage(c) \/ EndStage(c) \/ EndStages(c)
    \/ Add(c) \/ Scan(c) \/ Commit(c) \/ Push(c) \/ Release(c) \/ Finish(c)

Next ==
    \/ \E c \in Chains :
          \/ \E kind \in Kinds : Start(c, kind)
          \/ Step(c) \/ StageWrites(c) \/ Raise(c) \/ Kill(c)
    \/ Tick
    \/ Tidy

Spec == Init /\ [][Next]_vars

\* Every started chain goes on to its end: no call it makes waits for ever (its
\* child processes time out their own requests).  Kills, exceptions and the
\* clock are under no fairness.
FairSpec == Spec /\ \A c \in Chains : WF_vars(Step(c))
-------------------------------------------------------------------------------
(***************************************************************************)
(* Properties.                                                             *)
(***************************************************************************)
Stages == {"run", "tree", "stress", "report", "behavioral", "site"}

Changes == [by : Chains, stage : Stages, whole : BOOLEAN, key : BOOLEAN]

Labels == Ended \cup {"idle", "status", "probe", "unlinkDead", "unlink", "write",
                      "server", "stages", "running", "add", "scan", "commit", "push",
                      "release", "finish"}

LocalState ==
    [kind : Kind, now : Nat, todo : Seq(Stages), stop : BOOLEAN,
     failed : SUBSET (Stages \cup {"ollama", "key scan", "commit", "push"}),
     wrote : SUBSET Changes, log : {"", "not clean", "busy", "exit"},
     code : {None, 0, 1, 2}]

\* The shape of the state: the lock file, the repository as git sees it and the
\* local variables of each chain.
TypeOK ==
    /\ clock \in Nat
    /\ lock \in LockFile \cup {None}
    /\ work \in SUBSET Changes /\ index \in SUBSET Changes
    /\ ahead \in SUBSET Changes /\ remote \in SUBSET Changes
    /\ pc \in [Chains -> Labels]
    /\ chain \in [Chains -> LocalState]

\* While a chain is between acquire and release, the lock file is there and is
\* its own: no kill, reused process id, stale file or other chain's release takes
\* it away, so no two chains run stages over the same tree (Lock).
HolderOwnsLock ==
    \A c \in Chains : Running(c) => lock # None /\ lock.pid = c

\* No key ever gets into a commit, also when an earlier chain was killed after
\* staging it: key_hits reads the files on disk and git commits the staged ones, so
\* nobody may write between the add and the commit.
KeyNeverCommitted == \A x \in ahead \cup remote : ~x.key

\* Exit code 0 tells the scheduler that all the chain wrote is public: nothing of
\* it is left unstaged, staged or committed but not pushed.
ExitZeroPushed ==
    \A c \in Chains :
        (pc[c] = "done" /\ chain[c].code = 0) =>
            \A x \in work \cup index \cup ahead : x.by # c

\* The evidence of a token: what its stages finished writing.
Finished ==
    {x \in work \cup index \cup ahead \cup remote : x.whole /\ IsTokenStage(x.stage)}

\* Nothing a token's stage finished writing is lost before the owner looks at it: not by a
\* refused commit, a failing git call, an unstaged key or another chain at work in
\* the same tree (`git reset -q` unstages, it restores nothing).
EvidenceKept ==
    [][(\E c \in Chains : Live(c)) => Finished \subseteq Finished']_vars

\* A chain that took the lock gives it back unless it is killed, whatever stage,
\* git call or exception ends it (`finally: lock.release()`).
LockFreed ==
    \A c \in Chains : Running(c) ~> (lock = None \/ pc[c] = "dead")
===============================================================================
