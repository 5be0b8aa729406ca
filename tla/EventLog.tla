------------------------------- MODULE EventLog -------------------------------
(***************************************************************************)
(* The typed event log of one token, out/logs/events_<token>.jsonl, and    *)
(* the quarantine lifecycle planned over it (factory/eventlog.py).         *)
(*                                                                         *)
(* The file is a sequence of lines.  A quarantine entry is opened by a     *)
(* fire line and closed by a second line that repeats its (date, trigger,  *)
(* level) with a resolution; nothing is ever rewritten.  The freeze and    *)
(* intake_trigger lines take no part in the lifecycle and are left out, as *)
(* is the token field: the log modelled here is one token's.               *)
(*                                                                         *)
(* Where the code reads "the log followed by the lines this run plans",    *)
(* the operators take the set L of all quarantine lines read: an entry is  *)
(* open or closed by the lines present, whatever their order.              *)
(***************************************************************************)
EXTENDS Naturals, Sequences, FiniteSets, FiniteSetsExt

CONSTANTS Triggers,     \* trigger numbers: 2 for T-02, 28 for T-28
          None          \* Python's None

ASSUME LogAssumption ==
    Triggers \subseteq Nat /\ IsFiniteSet(Triggers) /\ None \notin Nat

Levels == 1..3

\* The levels that withhold a report.
HeavyLevels == {2, 3}

ResolutionTypes == {"template_change", "intake_change", "config_change",
                    "data_correction", "code_fix", "rubric_change"}

QuarantineEvent ==
    [type : {"quarantine"}, date : Nat, trigger : Triggers, level : Levels,
     resolution_type : ResolutionTypes \cup {None},
     resolution_date : Nat \cup {None}]

PublishedEvent == [type : {"published"}, date : Nat, bundle_hash : Nat]

Event == QuarantineEvent \cup PublishedEvent

FireLine(date, trigger, level) ==
    [type |-> "quarantine", date |-> date, trigger |-> trigger,
     level |-> level, resolution_type |-> None, resolution_date |-> None]

ResolutionLine(fire, rtype, date) ==
    [fire EXCEPT !.resolution_type = rtype, !.resolution_date = date]

PublishedLine(date, hash) ==
    [type |-> "published", date |-> date, bundle_hash |-> hash]

\* What pairs a resolution line with its fire line.
Key(e) == <<e.date, e.trigger, e.level>>

QuarantineIdx(log) == {i \in DOMAIN log : log[i].type = "quarantine"}

QuarantineLines(log) == {log[i] : i \in QuarantineIdx(log)}

Resolutions(L) == {e \in L : e.resolution_date # None}

OpenEntries(L) ==
    {e \in L \ Resolutions(L) : \A r \in Resolutions(L) : Key(r) # Key(e)}

OpenHeavy(L) == {e \in OpenEntries(L) : e.level \in HeavyLevels}

\* Position of the last published line, 0 when there is none.
LastPublished(log) ==
    LET published == {i \in DOMAIN log : log[i].type = "published"}
    IN  IF published = {} THEN 0 ELSE Max(published)

(***************************************************************************)
(* DET-59's counter: distinct dates among the open Level 2/3 fire lines    *)
(* after the last published line.  `planned` are the lines of this run.    *)
(***************************************************************************)
ConsecutiveQuarantinedRuns(log, planned) ==
    LET recent == {log[i] : i \in {j \in QuarantineIdx(log) :
                                        j > LastPublished(log)}}
        open   == OpenHeavy(QuarantineLines(log) \cup planned)
    IN  Cardinality({e.date : e \in open \cap (recent \cup planned)})

(***************************************************************************)
(* The lines a run dated `date` adds, given the (trigger, level) pairs it  *)
(* fired.  Level 1 is fired once until it is resolved, and is resolved as  *)
(* soon as it stops firing; Level 2/3 is fired once per date and is never  *)
(* resolved here.                                                          *)
(***************************************************************************)
\* Mutant: Level 2/3 lines are not looked up before they are written.
PlannedFiresAnew(L, date, fired) ==
    {FireLine(date, f[1], f[2]) :
        f \in {g \in fired :
                 g[2] = 1 => \A e \in OpenEntries(L) : ~(e.trigger = g[1] /\ e.level = 1)}}

PlannedFires(L, date, fired) ==
    {FireLine(date, f[1], f[2]) :
        f \in {g \in fired :
                 IF g[2] = 1
                 THEN \A e \in OpenEntries(L) : ~(e.trigger = g[1] /\ e.level = 1)
                 ELSE \A e \in L : Key(e) # <<date, g[1], g[2]>>}}

\* Mutant: only notices of the same date are cleared.
ClearedToday(L, date, fired) ==
    {ResolutionLine(e, "data_correction", date) :
        e \in {x \in OpenEntries(L) :
                  x.level = 1 /\ x.date = date /\ <<x.trigger, 1>> \notin fired}}

ClearedNotices(L, date, fired) ==
    {ResolutionLine(e, "data_correction", date) :
        e \in {x \in OpenEntries(L) : x.level = 1 /\ <<x.trigger, 1>> \notin fired}}

PlanQuarantine(L, date, fired) ==
    PlannedFires(L, date, fired) \cup ClearedNotices(L, date, fired)
===============================================================================
