------------------------------ MODULE ReportGate ------------------------------
(***************************************************************************)
(* The report stage of one token (factory/report/__main__.py, `build`) as  *)
(* the gate between a promoted bundle and the published page: it re-reads  *)
(* the event log, settles the S3 rows against the page it renders, plans   *)
(* the quarantine lines, decides the outcome and then writes, in this      *)
(* order, the gate record, the resolution evidence, the log lines, the     *)
(* `published` line and the site page.  The process may stop between any   *)
(* two of those writes and be run again.                                   *)
(*                                                                         *)
(* The judge is withdrawn, as in every scheduled run (A-24): the LLM rows  *)
(* are `not_evaluated`, fire nothing and decide nothing.  Hashes are       *)
(* version numbers; a check row other than the ones computed here from the *)
(* log and the site passes, fails or errors as the inputs of the run say.  *)
(***************************************************************************)
EXTENDS EventLog

CONSTANTS Absent,      \* no page, or a page set being replaced
          Flags,       \* <<trigger, level>> pairs a passing check may fire
          Inputs,      \* what the checks of a run may find (a subset of Input)
          Editable,    \* artifacts somebody may edit between two runs
          ReviewRuns,  \* quarantined runs until the page reads "Under review"
          MaxBlock, MaxDate, MaxEdits, MaxRuns       \* bounds of the model

Results == {"pass", "fail", "error"}

\* ok: the S2 rows of the report stage; prior: the S0-S2 rows before it; body:
\* the S3 rows that read only the page's body, but DET-79; missing: a prose slot is
\* empty; flags: what passing rows fire, S3's too, which the last pass carries.
Input == [ok : BOOLEAN, prior : Results, body : Results, missing : BOOLEAN,
          flags : SUBSET Flags]

Artifacts == {"template_hash", "sheet_hash", "pipeline_version", "rubric_hash",
              "frozen_set_hash"}

Fields == Artifacts \cup {"bundle_hash"}

ASSUME GateAssumption ==
    /\ Inputs \subseteq Input
    /\ {23, 25, 28} \subseteq Triggers /\ Flags \subseteq Triggers \X Levels
    /\ Editable \subseteq Artifacts
    /\ MaxBlock \in Nat \ {0} /\ MaxDate \in Nat /\ MaxEdits \in Nat /\ MaxRuns \in Nat
    /\ ReviewRuns \in Nat \ {0, 1}
    /\ Absent \notin Nat \X Nat

\* The order in which a change of artifact is looked for, as ranks.
EvidenceRank ==
    [template_hash |-> 1, sheet_hash |-> 2, pipeline_version |-> 3,
     rubric_hash |-> 4, frozen_set_hash |-> 5, bundle_hash |-> 6]

ResolutionTypeOf ==
    [template_hash |-> "template_change", sheet_hash |-> "intake_change",
     pipeline_version |-> "code_fix", rubric_hash |-> "rubric_change",
     frozen_set_hash |-> "config_change", bundle_hash |-> "data_correction"]

FieldOf(rtype) == CHOOSE f \in Fields : ResolutionTypeOf[f] = rtype

VARIABLES version,     \* the artifacts as they stand in the working tree
          bundle,      \* the latest bundle, its tree and stress report folded
          log,         \* out/logs/events_<token>.jsonl
          records,     \* out/evaluation/<T>/<block>.json
          evidence,    \* out/evaluation/<T>/resolutions.jsonl, last item per key
          site,        \* out/site/<T>: the page set, by its report hash
          job,         \* the running report stage and what it has left to write
          runs         \* report stages started (model bound)

vars == <<version, bundle, log, records, evidence, site, job, runs>>
-------------------------------------------------------------------------------
(***************************************************************************)
(* What a run reads.                                                       *)
(***************************************************************************)
Lines == QuarantineLines(log)

\* The hashes of this run: template and rubric as they are now, the rest as
\* the bundle's header carries them.
Current ==
    [f \in Fields |-> CASE f = "bundle_hash" -> bundle.block
                        [] f \in {"template_hash", "rubric_hash"} -> version[f]
                        [] OTHER -> bundle.head[f]]

ReportHash == <<bundle.block, Current["template_hash"]>>

RecordedBlocks == {b \in DOMAIN records : records[b] # None}

\* The run a fire date is resolved to: the latest record of that date on disk.
FireRuns(date) == {b \in RecordedBlocks : records[b].date = date}

FireRun(date) == Max(FireRuns(date))

\* Mutant: the bundle is missing from EVIDENCE_ORDER.
DifferingArtifacts(date) ==
    {f \in Artifacts : records[FireRun(date)].hashes[f] # Current[f]}

Differing(date) ==
    {f \in Fields : records[FireRun(date)].hashes[f] # Current[f]}

(***************************************************************************)
(* Resolution lines a green run plans: each open Level 2/3 entry, by the   *)
(* first artifact that differs between its fire run and this run.          *)
(***************************************************************************)
PlanResolutions(L) ==
    {ResolutionLine(e,
        ResolutionTypeOf[CHOOSE f \in Differing(e.date) :
                            \A g \in Differing(e.date) :
                                EvidenceRank[f] <= EvidenceRank[g]],
        bundle.date) :
     e \in {x \in OpenHeavy(L) : FireRuns(x.date) # {} /\ Differing(x.date) # {}}}

S3Rows == {"body", "DET-60", "DET-87", "DET-85", "DET-13(a)", "DET-13(d)"}

\* Whether the fire run's page stood under review: the count over the log as
\* it was after that run.
UnderReviewAt(date) ==
    LET Stood(e)  == /\ e.date <= date
                     /\ \/ e.type # "quarantine"
                        \/ e.resolution_date = None
                        \/ e.resolution_date <= date
    IN  ConsecutiveQuarantinedRuns(SelectSeq(log, Stood), {}) >= ReviewRuns

\* A-26: a source check that would no longer fire at Level 2.
Excluded(row, review) ==
    row = "DET-80" \/ (review /\ row \in S3Rows \ {"DET-13(d)"})

Sources(e) ==
    {t.source : t \in {u \in records[FireRun(e.date)].triggers :
                          u.trigger = e.trigger /\ u.level = e.level}}

Settlement ==
    {ResolutionLine(e, "template_change", bundle.date) :
        e \in {x \in OpenHeavy(Lines) :
                 /\ FireRuns(x.date) # {}
                 /\ Sources(x) # {}
                 /\ \A s \in Sources(x) : Excluded(s, UnderReviewAt(x.date))
                 /\ "template_hash" \in Differing(x.date)}}

\* The evidence kept for each planned resolution whose fire run is on disk.
EvidenceOf(planned) ==
    {[key |-> Key(e), resolution_type |-> e.resolution_type,
      resolution_date |-> e.resolution_date,
      fire_value |-> records[FireRun(e.date)].hashes[FieldOf(e.resolution_type)],
      resolution_value |-> Current[FieldOf(e.resolution_type)]] :
     e \in {x \in Resolutions(planned) : FireRuns(x.date) # {}}}

SameResolution(x, y) ==
    /\ x.key = y.key
    /\ x.resolution_type = y.resolution_type
    /\ x.resolution_date = y.resolution_date

\* Appending a batch to resolutions.jsonl: the last item of a key is the one read.
Supersede(old, new) ==
    {x \in old : \A y \in new : ~SameResolution(x, y)} \cup new

Evidences(x, e) ==
    /\ x.key = Key(e)
    /\ x.resolution_type = e.resolution_type
    /\ x.resolution_date = e.resolution_date
    /\ x.fire_value # x.resolution_value
-------------------------------------------------------------------------------
(***************************************************************************)
(* The settle loop.  A pass plans the log from the failing rows of the     *)
(* pass before, renders the page over that plan and runs the S3 rows on    *)
(* it; it is repeated until the failing rows are the same twice.           *)
(***************************************************************************)
Bad(row, result) == [row |-> row, result |-> result]

PriorBad(in) ==
    (IF in.prior = "pass" THEN {} ELSE {Bad("prior", in.prior)})
        \cup (IF in.ok THEN {} ELSE {Bad("DET-84", "fail")})

\* A-17: each failed or erring row fires its trigger; a missing slot only notices.
GateTrigger(b) ==
    [trigger |-> CASE b.row \in {"DET-13(a)", "DET-13(d)", "DET-87"} -> 23
                   [] b.row = "DET-85" -> 25
                   [] OTHER -> 28,
     level   |-> IF b.row = "DET-80" /\ b.result = "fail" THEN 1 ELSE 2,
     source  |-> b.row]

FlagTriggers(in) ==
    {[trigger |-> f[1], level |-> f[2], source |-> "flag"] : f \in in.flags}

Fired(triggers) == {<<t.trigger, t.level>> : t \in triggers}

\* Mutant: DET-87 reads the evidence on disk only.
ProofsOnDisk(planned) == evidence

\* DET-87 reads the evidence on disk and this run's own.
Proofs(planned) == Supersede(evidence, EvidenceOf(planned))

\* DET-60: the entries a fired trigger has in the log and this run's lines.
EntryCount(planned, f) ==
    IF f[2] = 1
    THEN Cardinality({e \in OpenEntries(Lines \cup planned) :
                          e.trigger = f[1] /\ e.level = 1})
    ELSE LET Fires(e) == /\ e.resolution_date = None
                         /\ Key(e) = <<bundle.date, f[1], f[2]>>
         IN  Cardinality({i \in QuarantineIdx(log) : Fires(log[i])})
                + Cardinality({e \in planned : Fires(e)})

S3Failing(in, triggers, planned) ==
    LET after  == Lines \cup planned
        review == /\ OpenHeavy(after) # {}
                  /\ ConsecutiveQuarantinedRuns(log, planned) >= ReviewRuns
        body   == IF review /\ in.body = "pass" THEN "fail" ELSE in.body
        Failing(row, cond) == IF cond THEN {Bad(row, "fail")} ELSE {}
    IN  (IF body = "pass" THEN {} ELSE {Bad("body", body)})
          \cup Failing("DET-80", in.missing \/ review)
          \cup Failing("DET-60", \E f \in Fired(triggers) : EntryCount(planned, f) # 1)
          \cup Failing("DET-87", \E e \in Resolutions(after) :
                                    \A x \in Proofs(planned) : ~Evidences(x, e))
          \cup Failing("DET-85", "error" \in {in.prior, body})
          \cup Failing("DET-13(a)", review)
          \cup Failing("DET-13(d)", ~review /\ OpenHeavy(after) # {}
                                       /\ site = ReportHash)

GateTriggers(in, seen) == {GateTrigger(b) : b \in PriorBad(in) \cup seen}

\* Settlement and the plan of the fired pairs, which are planned over it.
Noted(fired) ==
    Settlement \cup PlanQuarantine(Lines \cup Settlement, bundle.date, fired)

\* A pass plans as a green run when nothing but DET-80 failed in the pass before
\* and no check of the run fires above Level 1.
Green(in, first, seen) ==
    /\ first \/ \A b \in seen : b.row = "DET-80"
    /\ \A t \in GateTriggers(in, seen) : t.level = 1

PassLines(in, first, seen) ==
    LET noted == Noted(Fired(FlagTriggers(in) \cup GateTriggers(in, seen)))
    IN  noted \cup {e \in PlanResolutions(Lines \cup noted) : Green(in, first, seen)}

Pass(in, first, seen) ==
    LET triggers == FlagTriggers(in) \cup GateTriggers(in, seen)
        planned  == PassLines(in, first, seen)
    IN  [triggers |-> triggers, lines |-> planned,
         evidence |-> EvidenceOf(planned),
         failing  |-> S3Failing(in, triggers, planned)]

Unstable == [triggers |-> {}, lines |-> {}, evidence |-> {}, failing |-> {},
             stable |-> FALSE]

Settle(in) ==
    LET p1 == Pass(in, TRUE, {})
        p2 == Pass(in, FALSE, p1.failing)
        p3 == Pass(in, FALSE, p2.failing)
        p4 == Pass(in, FALSE, p3.failing)
        Stable(p) == [triggers |-> p.triggers, lines |-> p.lines,
                      evidence |-> p.evidence, failing |-> p.failing,
                      stable |-> TRUE]
    IN  CASE p2.failing = p1.failing -> Stable(p2)
          [] p2.failing # p1.failing /\ p3.failing = p2.failing -> Stable(p3)
          [] p2.failing # p1.failing /\ p3.failing # p2.failing
                /\ p4.failing = p3.failing -> Stable(p4)
          [] OTHER -> Unstable

\* A failing S2 row: no page is rendered, no S3 row runs, no evidence is kept.
Unrendered(in) ==
    LET triggers == FlagTriggers(in) \cup GateTriggers(in, {})
    IN  [triggers |-> triggers, lines |-> Noted(Fired(triggers)),
         evidence |-> {}, failing |-> {}, stable |-> TRUE]

\* Mutant: only the entries this run opens withhold the page.
OutcomeOfRun(in, s) ==
    CASE ~in.ok \/ \E b \in s.failing : b.row # "DET-80" -> "blocked_S3"
      [] OTHER -> IF OpenHeavy(s.lines) # {} THEN "quarantined" ELSE "published"

Outcome(in, s) ==
    CASE ~in.ok \/ \E b \in s.failing : b.row # "DET-80" -> "blocked_S3"
      [] OTHER -> IF OpenHeavy(Lines \cup s.lines) # {}
                  THEN "quarantined" ELSE "published"
-------------------------------------------------------------------------------
Init ==
    /\ version = [f \in Artifacts |-> 0]
    /\ bundle = [block |-> 1, date |-> 1, head |-> version]
    /\ log = <<>>
    /\ records = [b \in 1..MaxBlock |-> None]
    /\ evidence = {}
    /\ site = Absent
    /\ job = None
    /\ runs = 0

\* A template, sheet, config, rubric or code change between two runs.
Edit(f) ==
    /\ job = None
    /\ version[f] < MaxEdits
    /\ version' = [version EXCEPT ![f] = @ + 1]
    /\ UNCHANGED <<bundle, log, records, evidence, site, job, runs>>

\* factory.run, tree and stress of a later block: a new bundle is the latest.
NewBundle(date) ==
    /\ job = None
    /\ bundle.block < MaxBlock
    /\ date >= bundle.date
    /\ bundle' = [block |-> bundle.block + 1, date |-> date, head |-> version]
    /\ UNCHANGED <<version, log, records, evidence, site, job, runs>>

\* The stage up to its first write: everything it will write is now decided.
Report(in) ==
    /\ job = None
    /\ runs < MaxRuns
    /\ bundle.head["sheet_hash"] = version["sheet_hash"]
    /\ \E s \in {IF in.ok THEN Settle(in) ELSE Unrendered(in)} :
          job' = IF ~s.stable THEN None
                 ELSE [phase    |-> "record",
                       input    |-> in,
                       outcome  |-> Outcome(in, s),
                       record   |-> [date |-> bundle.date, hashes |-> Current,
                                     triggers |-> s.triggers],
                       evidence |-> s.evidence,
                       settled  |-> Settlement,
                       lines    |-> s.lines]
    /\ runs' = runs + 1
    /\ UNCHANGED <<version, bundle, log, records, evidence, site>>

\* Mutant: the evidence of an unpublished run is not kept.
WriteRecordOnly ==
    /\ job # None /\ job.phase = "record"
    /\ records' = [records EXCEPT ![bundle.block] = job.record]
    /\ job' = [job EXCEPT !.phase = IF job.outcome = "published"
                                    THEN "evidence" ELSE "log"]
    /\ UNCHANGED <<version, bundle, log, evidence, site, runs>>

WriteRecord ==
    /\ job # None /\ job.phase = "record"
    /\ records' = [records EXCEPT ![bundle.block] = job.record]
    /\ job' = [job EXCEPT !.phase = "evidence"]
    /\ UNCHANGED <<version, bundle, log, evidence, site, runs>>

WriteEvidence ==
    /\ job # None /\ job.phase = "evidence"
    /\ evidence' = Supersede(evidence, job.evidence)
    /\ job' = [job EXCEPT !.phase = "log"]
    /\ UNCHANGED <<version, bundle, log, records, site, runs>>

\* Position of the fire line an entry was opened by, this run's being the last ones.
FiredAt(e) ==
    Min({i \in QuarantineIdx(log) : Key(log[i]) = Key(e)} \cup {Len(log) + 1})

(***************************************************************************)
(* The order of the plan: settlement, fire lines by trigger and level,     *)
(* cleared notices, then the resolutions of a green run, each group of     *)
(* resolutions in the order of the entries it closes.                      *)
(***************************************************************************)
PlanRank(e) ==
    CASE e.resolution_date = None -> <<1, e.trigger, e.level>>
      [] e \in job.settled        -> <<0, FiredAt(e), 0>>
      [] OTHER                    -> <<IF e.level = 1 THEN 2 ELSE 3, FiredAt(e), e.trigger>>

Before(r, s) == \E i \in 1..3 : r[i] < s[i] /\ \A j \in 1..(i - 1) : r[j] = s[j]

\* One eventlog.append: the first line of the plan not yet written.
AppendLine(e) ==
    /\ job # None /\ job.phase = "log"
    /\ e \in job.lines
    /\ \A x \in job.lines : ~Before(PlanRank(x), PlanRank(e))
    /\ log' = Append(log, e)
    /\ job' = [job EXCEPT !.lines = @ \ {e}]
    /\ UNCHANGED <<version, bundle, records, evidence, site, runs>>

AppendPublished ==
    /\ job # None /\ job.phase = "log" /\ job.lines = {}
    /\ job.outcome = "published"
    /\ log' = Append(log, PublishedLine(bundle.date, bundle.block))
    /\ job' = [job EXCEPT !.phase = "remove"]
    /\ UNCHANGED <<version, bundle, records, evidence, site, runs>>

\* An outcome other than published leaves the last published pages in place.
EndUnpublished ==
    /\ job # None /\ job.phase = "log" /\ job.lines = {}
    /\ job.outcome # "published"
    /\ job' = None
    /\ UNCHANGED <<version, bundle, log, records, evidence, site, runs>>

RemovePage ==
    /\ job # None /\ job.phase = "remove"
    /\ site' = Absent
    /\ job' = [job EXCEPT !.phase = "copy"]
    /\ UNCHANGED <<version, bundle, log, records, evidence, runs>>

CopyPage ==
    /\ job # None /\ job.phase = "copy"
    /\ site' = ReportHash
    /\ job' = None
    /\ UNCHANGED <<version, bundle, log, records, evidence, runs>>

\* The process is killed, or a write fails: what it wrote so far stays.
Crash ==
    /\ job # None
    /\ job' = None
    /\ UNCHANGED <<version, bundle, log, records, evidence, site, runs>>

Next ==
    \/ \E f \in Editable : Edit(f)
    \/ \E date \in 1..MaxDate : NewBundle(date)
    \/ \E in \in Inputs : Report(in)
    \/ WriteRecord
    \/ WriteEvidence
    \/ \E e \in (IF job = None THEN {} ELSE job.lines) : AppendLine(e)
    \/ AppendPublished
    \/ EndUnpublished
    \/ RemovePage
    \/ CopyPage
    \/ Crash

Spec == Init /\ [][Next]_vars
-------------------------------------------------------------------------------
(***************************************************************************)
(* Properties.                                                             *)
(***************************************************************************)
Phases == {"record", "evidence", "log", "remove", "copy"}

Outcomes == {"blocked_S3", "quarantined", "published"}

Hashes == [Fields -> Nat]

Rows == S3Rows \cup {"DET-80", "DET-84", "prior"}

TriggerRecord == [trigger : Triggers, level : Levels, source : Rows \cup {"flag"}]

Record == [date : Nat, hashes : Hashes, triggers : SUBSET TriggerRecord]

EvidenceItem ==
    [key : Nat \X Triggers \X Levels, resolution_type : ResolutionTypes,
     resolution_date : Nat, fire_value : Nat, resolution_value : Nat]

Job == [phase : Phases, input : Input, outcome : Outcomes, record : Record,
        evidence : SUBSET EvidenceItem, settled : SUBSET QuarantineEvent,
        lines : SUBSET QuarantineEvent]

\* A block without a record is told from one with a record, and no stage
\* running from a running one.
ASSUME RecordAssumption == None \notin Record \cup Job

\* The shape of the state: the log of build's writes, the records by block,
\* the evidence file and what a running stage has left to write.
TypeOK ==
    /\ version \in [Artifacts -> Nat]
    /\ bundle \in [block : 1..MaxBlock, date : Nat, head : [Artifacts -> Nat]]
    /\ log \in Seq(Event)
    /\ records \in [1..MaxBlock -> Record \cup {None}]
    /\ evidence \in SUBSET EvidenceItem
    /\ site \in (Nat \X Nat) \cup {Absent}
    /\ job \in Job \cup {None}
    /\ runs \in Nat

\* A run that crashed between two appends and was run again has not written a
\* Level 2/3 fire line twice, and no entry is ever closed by two resolution
\* lines (plan_quarantine reads the file it appends to).
WrittenOnce ==
    \A i, j \in QuarantineIdx(log) :
        i # j => /\ log[i].level \in HeavyLevels => log[i] # log[j]
                 /\ (/\ log[i].resolution_date # None
                     /\ log[j].resolution_date # None) => Key(log[i]) # Key(log[j])

\* Every resolution line of a Level 2/3 entry in the log, whatever stopped the
\* run that wrote it, has its evidence on disk, and the evidence shows a value
\* that changed between the fire run and the resolving run (DET-87's object).
HeavyEvidenced ==
    \A i \in QuarantineIdx(log) :
        (log[i].resolution_date # None /\ log[i].level \in HeavyLevels)
            => \E x \in evidence : Evidences(x, log[i])

\* A published page shows exactly the notices its run fired, each once with the date
\* it first fired: when the published line is written, the open Level 1 entries of
\* the log are one for each Level 1 trigger of the run's record, whatever runs were
\* stopped half way before (plan_quarantine; DET-58/60).
NoticesMatchRecord ==
    (job # None /\ job.phase \in {"remove", "copy"}) =>
        LET open == {i \in QuarantineIdx(log) :
                        log[i] \in OpenEntries(Lines) /\ log[i].level = 1}
            fires == {f \in Fired(records[bundle.block].triggers) : f[2] = 1}
        IN  /\ {<<log[i].trigger, 1>> : i \in open} = fires
            /\ Cardinality(open) = Cardinality(fires)

\* The gate implements the lifecycle a reader of the log is promised: opened
\* once, closed once, nothing announced over an open quarantine, no page shown
\* that was not announced (the writes of build, in their order).
Keys(S) == {Key(e) : e \in S}

Heavy(S) == {e \in S : e.level \in HeavyLevels}

Announced == {<<i, log[i].bundle_hash>> : i \in {j \in DOMAIN log : log[j].type = "published"}}

Promise == INSTANCE QuarantineLifecycle WITH
    opened    <- Keys(Heavy(Lines \ Resolutions(Lines))),
    closed    <- Keys(Heavy(Resolutions(Lines))),
    announced <- Announced,
    page      <- IF site = Absent THEN Absent ELSE site[1]

LifecycleKept == Promise!Spec

\* The settle loop reaches its fixed point within four passes from every log
\* and record a token can have: `AssemblyStop` at its end is never raised.
SettleStable == [][runs' > runs => job' # None]_vars

Clean(in) == in.ok /\ in.prior = "pass" /\ in.body = "pass"

\* A quarantine is never a dead end: once the checks are clean again, a run
\* over a bundle not reported before settles every open Level 2/3 entry and
\* publishes - as long as no earlier run cleared a Level 1 notice of the token.
CleanNewBundlePublishes ==
    (/\ job # None /\ job.phase = "record"
     /\ Clean(job.input) /\ records[bundle.block] = None
     /\ \A e \in Resolutions(Lines) : e.level # 1)
        => job.outcome = "published"

(***************************************************************************)
(* A sentence of the repository that the code does not keep.               *)
(***************************************************************************)
\* README.md:34: "Level 2 withholds the token's report".
LevelTwoWithholds ==
    (job # None /\ job.phase = "record"
        /\ \E t \in job.record.triggers : t.level = 2) => job.outcome # "published"
===============================================================================
