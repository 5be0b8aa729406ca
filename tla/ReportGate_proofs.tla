--------------------------- MODULE ReportGate_proofs ---------------------------
(* Theorems about ReportGate for any triggers, inputs and bounds. *)
EXTENDS PromotedFlags, WellFoundedInduction, SequenceTheorems, FiniteSetTheorems, TLAPS

(***************************************************************************)
(* Extrema of sets of naturals.                                            *)
(***************************************************************************)
LEMMA NatLeast ==
    ASSUME NEW S, S \subseteq Nat, S # {}
    PROVE  \E x \in S : \A y \in S : x <= y
  <1> DEFINE R == OpToRel(<, Nat)
  <1>1. IsWellFoundedOn(R, Nat)
    BY NatLessThanWellFounded
  <1>2. \E x \in S : \A y \in S : <<y, x>> \notin R
    <2> HIDE DEF R
    <2> QED BY <1>1, WFMin
  <1>3. \A x, y \in Nat : <<y, x>> \notin R => x <= y
    BY DEF OpToRel
  <1> HIDE DEF R
  <1> QED BY <1>2, <1>3

\* The largest member of a non-empty bounded set of naturals is one of them.
LEMMA NatGreatest ==
    ASSUME NEW N \in Nat, NEW S, S \subseteq 0..N, S # {}
    PROVE  Max(S) \in S
  <1> DEFINE T == {n \in Nat : \E x \in S : x + n = N}
  <1>1. T \subseteq Nat
    OBVIOUS
  <1>2. T # {}
    <2>1. PICK x \in S : x \in 0..N
      OBVIOUS
    <2>2. N - x \in Nat /\ x + (N - x) = N
      BY <2>1
    <2>3. N - x \in T
      BY <2>1, <2>2
    <2> QED BY <2>3
  <1>3. PICK t \in T : \A u \in T : t <= u
    <2> HIDE DEF T
    <2> QED BY <1>1, <1>2, NatLeast
  <1>4. PICK x \in S : x + t = N
    OBVIOUS
  <1>5. ASSUME NEW y \in S PROVE x >= y
    <2>1. x \in 0..N /\ y \in 0..N /\ t \in Nat
      OBVIOUS
    <2>2. N - y \in Nat /\ y + (N - y) = N
      BY <2>1
    <2>3. N - y \in T
      BY <2>2
    <2>4. t <= N - y
      BY <1>3, <2>3
    <2> HIDE DEF T
    <2> QED BY <1>4, <2>1, <2>4
  <1>6. \E z \in S : \A y \in S : z >= y
    BY <1>5
  <1> QED BY <1>6 DEF Max

(***************************************************************************)
(* What a run reads is well typed.                                         *)
(***************************************************************************)
LEMMA LinesType == TypeOK => Lines \subseteq QuarantineEvent
  BY DEF TypeOK, Lines, QuarantineLines, QuarantineIdx, Event, PublishedEvent

LEMMA CurrentType == TypeOK => Current \in Hashes
  <1> SUFFICES ASSUME TypeOK PROVE Current \in Hashes
    OBVIOUS
  <1>1. /\ bundle.block \in Nat /\ bundle.head \in [Artifacts -> Nat]
        /\ version \in [Artifacts -> Nat]
    BY GateAssumption DEF TypeOK
  <1> QED BY <1>1 DEF Current, Hashes, Fields, Artifacts

LEMMA ReportHashType == TypeOK => ReportHash \in Nat \X Nat
  <1> SUFFICES ASSUME TypeOK PROVE ReportHash \in Nat \X Nat
    OBVIOUS
  <1>1. Current \in [Fields -> Nat] /\ "template_hash" \in Fields
    BY CurrentType DEF Hashes, Fields, Artifacts
  <1>2. Current["template_hash"] \in Nat
    BY <1>1
  <1>3. bundle.block \in Nat
    BY GateAssumption DEF TypeOK
  <1> QED BY <1>2, <1>3 DEF ReportHash

\* The record of a fire date, when there is one, is read and not made up.
LEMMA FireRunIsRecorded ==
    ASSUME TypeOK, NEW date, FireRuns(date) # {}
    PROVE  records[FireRun(date)] \in Record
  <1>1. FireRuns(date) \subseteq 0..MaxBlock
    BY GateAssumption DEF FireRuns, RecordedBlocks, TypeOK
  <1>2. FireRun(date) \in FireRuns(date)
    BY <1>1, NatGreatest, GateAssumption DEF FireRun
  <1> QED BY <1>2 DEF FireRuns, RecordedBlocks, TypeOK

LEMMA FieldOfType ==
    ASSUME NEW rtype \in ResolutionTypes
    PROVE  FieldOf(rtype) \in Fields
  <1>1. \E f \in Fields : ResolutionTypeOf[f] = rtype
    BY DEF ResolutionTypes, ResolutionTypeOf, Fields, Artifacts
  <1> QED BY <1>1 DEF FieldOf

\* One of a non-empty set of artifacts is looked for first.
LEMMA FirstByRank ==
    ASSUME NEW D, D \subseteq Fields, D # {}
    PROVE  (CHOOSE f \in D : \A g \in D : EvidenceRank[f] <= EvidenceRank[g]) \in D
  <1> DEFINE S == {EvidenceRank[f] : f \in D}
  <1>1. EvidenceRank \in [Fields -> Nat]
    BY DEF EvidenceRank, Fields, Artifacts
  <1>2. S \subseteq Nat /\ S # {}
    BY <1>1
  <1>3. \E x \in S : \A y \in S : x <= y
    <2> HIDE DEF S
    <2> QED BY <1>2, NatLeast
  <1> QED BY <1>3

LEMMA ResolutionTypeOfType == ResolutionTypeOf \in [Fields -> ResolutionTypes]
  BY DEF ResolutionTypeOf, ResolutionTypes, Fields, Artifacts

(***************************************************************************)
(* The lines and the evidence a run plans are well typed.                  *)
(***************************************************************************)
LEMMA ResolutionLineType ==
    ASSUME NEW e \in QuarantineEvent, NEW rtype \in ResolutionTypes, NEW date \in Nat
    PROVE  LET r == ResolutionLine(e, rtype, date)
           IN  /\ r \in QuarantineEvent
               /\ Key(r) = Key(e) /\ r.level = e.level
               /\ r.resolution_date = date /\ r.resolution_type = rtype
  BY DEF ResolutionLine, QuarantineEvent, Key

LEMMA FireLineType ==
    ASSUME NEW date \in Nat, NEW t \in Triggers, NEW level \in Levels
    PROVE  FireLine(date, t, level) \in QuarantineEvent
  BY DEF FireLine, QuarantineEvent

LEMMA OpenEntry ==
    ASSUME NEW L, NEW x \in OpenEntries(L)
    PROVE  x \in L /\ x.resolution_date = None /\ Key(x) \notin Keys(Resolutions(L))
  BY DEF OpenEntries, Resolutions, Keys

\* A fire line has neither field of a resolution - it is determined by its key -
\* and a resolution line has both.
WellFormed(L) ==
    \A e \in L : IF e.resolution_date = None THEN e.resolution_type = None
                                             ELSE e.resolution_type \in ResolutionTypes

LEMMA FireLineOfKey ==
    ASSUME NEW x \in QuarantineEvent, NEW y \in QuarantineEvent,
           x.resolution_date = None, x.resolution_type = None,
           y.resolution_date = None, y.resolution_type = None, Key(x) = Key(y)
    PROVE  x = y
  BY DEF QuarantineEvent, Key

\* Keys of the Level 2/3 entries ever fired.
Opened == Keys(Heavy(Lines \ Resolutions(Lines)))

(***************************************************************************)
(* What must be true of a set P of planned lines, whatever part of it is   *)
(* appended and in whatever order: its Level 2/3 fire lines are new, its   *)
(* resolution lines close open entries, and no entry is closed twice.      *)
(***************************************************************************)
Opens(P) ==
    \A e \in P : (e.resolution_date = None /\ e.level \in HeavyLevels) => Key(e) \notin Opened

Closes(P) ==
    \A e \in Resolutions(P) : /\ Key(e) \notin Keys(Resolutions(Lines))
                              /\ e.level \in HeavyLevels => Key(e) \in Opened

ClosesOnce(P) == \A d, e \in Resolutions(P) : Key(d) = Key(e) => d = e

Planned(P) ==
    P \subseteq QuarantineEvent /\ WellFormed(P) /\ Opens(P) /\ Closes(P) /\ ClosesOnce(P)

\* The three origins of a noted line.
LEMMA SettlementLine ==
    ASSUME NEW e \in Settlement
    PROVE  \E x \in OpenHeavy(Lines) : e = ResolutionLine(x, "template_change", bundle.date)
  BY DEF Settlement

LEMMA SettlementType ==
    ASSUME TypeOK
    PROVE  /\ Settlement \subseteq QuarantineEvent
           /\ \A e \in Settlement : /\ e.resolution_date # None
                                    /\ e.resolution_type \in ResolutionTypes
                                    /\ e.level \in HeavyLevels
                                    /\ \E x \in OpenHeavy(Lines) :
                                         /\ e = ResolutionLine(x, "template_change", bundle.date)
                                         /\ Key(e) = Key(x)
  <1>1. bundle.date \in Nat
    BY DEF TypeOK
  <1>2. ASSUME NEW e \in Settlement
        PROVE  /\ e \in QuarantineEvent /\ e.resolution_date # None /\ e.level \in HeavyLevels
               /\ e.resolution_type \in ResolutionTypes
               /\ \E x \in OpenHeavy(Lines) :
                     /\ e = ResolutionLine(x, "template_change", bundle.date)
                     /\ Key(e) = Key(x)
    <2>1. PICK x \in OpenHeavy(Lines) : e = ResolutionLine(x, "template_change", bundle.date)
      BY SettlementLine
    <2>2. x \in QuarantineEvent /\ x.level \in HeavyLevels
      BY LinesType, OpenEntry DEF OpenHeavy
    <2>3. "template_change" \in ResolutionTypes
      BY DEF ResolutionTypes
    <2> QED BY <1>1, <2>1, <2>2, <2>3, ResolutionLineType, LogAssumption
  <1> QED BY <1>2

\* A noted line is a settlement, a new fire line or a cleared notice.
LEMMA NotedLine ==
    ASSUME TypeOK, NEW F \in SUBSET (Triggers \X Levels), NEW e \in Noted(F)
    PROVE  /\ e \in QuarantineEvent
           /\ \/ e \in Settlement
              \/ /\ e.resolution_date = None /\ e.resolution_type = None
                 /\ <<e.trigger, e.level>> \in F
                 /\ e.level # 1 => Key(e) \notin Keys(Lines)
              \/ /\ e.level = 1 /\ e.resolution_date # None
                 /\ e.resolution_type \in ResolutionTypes
                 /\ \E x \in OpenEntries(Lines) :
                       /\ e = ResolutionLine(x, "data_correction", bundle.date)
                       /\ Key(e) = Key(x)
  <1> DEFINE L == Lines \cup Settlement
  <1>1. bundle.date \in Nat /\ L \subseteq QuarantineEvent
    BY LinesType, SettlementType DEF TypeOK
  <1>2. CASE e \in Settlement
    BY <1>2, SettlementType
  <1>3. CASE e \in PlannedFires(L, bundle.date, F)
    <2>1. PICK f \in F : /\ e = FireLine(bundle.date, f[1], f[2])
                         /\ f[2] # 1 => \A x \in L : Key(x) # <<bundle.date, f[1], f[2]>>
      BY <1>3 DEF PlannedFires
    <2>2. f[1] \in Triggers /\ f[2] \in Levels /\ f = <<f[1], f[2]>>
      OBVIOUS
    <2>3. e \in QuarantineEvent
      BY <1>1, <2>1, <2>2, FireLineType
    <2>4. /\ e.resolution_date = None /\ e.resolution_type = None
          /\ e.trigger = f[1] /\ e.level = f[2] /\ Key(e) = <<bundle.date, f[1], f[2]>>
      BY <2>1 DEF FireLine, Key
    <2> QED BY <2>1, <2>2, <2>3, <2>4 DEF Keys
  <1>4. CASE e \in ClearedNotices(L, bundle.date, F)
    <2>1. PICK x \in OpenEntries(L) :
              x.level = 1 /\ e = ResolutionLine(x, "data_correction", bundle.date)
      BY <1>4 DEF ClearedNotices
    <2>2. x \in L /\ x.resolution_date = None /\ Key(x) \notin Keys(Resolutions(L))
      BY OpenEntry
    <2>3. x \in OpenEntries(Lines)
      BY <2>2, SettlementType DEF OpenEntries, Resolutions, Keys
    <2>4. "data_correction" \in ResolutionTypes
      BY DEF ResolutionTypes
    <2>5. /\ e \in QuarantineEvent /\ Key(e) = Key(x)
          /\ e.level = 1 /\ e.resolution_date # None
          /\ e.resolution_type \in ResolutionTypes
      BY <1>1, <2>1, <2>2, <2>4, ResolutionLineType, LogAssumption
    <2> QED BY <2>1, <2>3, <2>5
  <1> HIDE DEF L
  <1>5. e \in Settlement \cup PlannedFires(L, bundle.date, F)
                         \cup ClearedNotices(L, bundle.date, F)
    BY DEF Noted, PlanQuarantine, L
  <1> QED BY <1>2, <1>3, <1>4, <1>5

\* Fire lines of L2/3 in the log are among the entries ever opened.
LEMMA OpenHeavyIsOpened ==
    ASSUME TypeOK, NEW x \in OpenHeavy(Lines)
    PROVE  Key(x) \in Opened /\ Key(x) \notin Keys(Resolutions(Lines))
  BY DEF OpenHeavy, OpenEntries, Opened, Heavy, Keys, Resolutions

\* What a run notes may be appended in any order.
LEMMA NotedPlanned ==
    ASSUME TypeOK, WellFormed(Lines), NEW F \in SUBSET (Triggers \X Levels)
    PROVE  Planned(Noted(F))
  <1> DEFINE P == Noted(F)
  <1>1. P \subseteq QuarantineEvent
    BY NotedLine
  <1>2. WellFormed(P)
    <2> SUFFICES ASSUME NEW e \in Noted(F)
                 PROVE  IF e.resolution_date = None THEN e.resolution_type = None
                        ELSE e.resolution_type \in ResolutionTypes
      BY DEF WellFormed
    <2> QED BY NotedLine, SettlementType
  <1>3. Opens(P)
    <2> SUFFICES ASSUME NEW e \in Noted(F), e.resolution_date = None, e.level \in HeavyLevels
                 PROVE  Key(e) \notin Opened
      BY DEF Opens
    <2>1. e \notin Settlement /\ e.level # 1
      BY SettlementType DEF HeavyLevels
    <2>2. Key(e) \notin Keys(Lines)
      BY <2>1, NotedLine
    <2> QED BY <2>2 DEF Opened, Keys, Heavy
  <1>4. Closes(P)
    <2> SUFFICES ASSUME NEW e \in Noted(F), e.resolution_date # None
                 PROVE  /\ Key(e) \notin Keys(Resolutions(Lines))
                        /\ e.level \in HeavyLevels => Key(e) \in Opened
      BY DEF Closes, Resolutions
    <2>1. CASE e \in Settlement
      BY <2>1, SettlementType, OpenHeavyIsOpened
    <2>2. CASE e \notin Settlement
      <3>1. e.level = 1 /\ \E x \in OpenEntries(Lines) : Key(e) = Key(x)
        BY <2>2, NotedLine
      <3> QED BY <3>1, OpenEntry DEF HeavyLevels
    <2> QED BY <2>1, <2>2
  <1>5. ClosesOnce(P)
    <2> SUFFICES ASSUME NEW d \in Noted(F), NEW e \in Noted(F), d.resolution_date # None,
                        e.resolution_date # None, Key(d) = Key(e)
                 PROVE  d = e
      BY DEF ClosesOnce, Resolutions
    <2>1. d.level = e.level
      BY DEF Key
    <2>2. \A x, y \in OpenEntries(Lines) : Key(x) = Key(y) => x = y
      BY LinesType, OpenEntry, FireLineOfKey DEF WellFormed
    <2>3. CASE d \in Settlement /\ e \in Settlement
      <3>1. \A x \in OpenHeavy(Lines) : x \in OpenEntries(Lines)
        BY DEF OpenHeavy
      <3> QED BY <2>2, <2>3, <3>1, SettlementType
    <2>4. CASE d \notin Settlement /\ e \notin Settlement
      <3>1. PICK x \in OpenEntries(Lines) :
                d = ResolutionLine(x, "data_correction", bundle.date) /\ Key(d) = Key(x)
        BY <2>4, NotedLine
      <3>2. PICK y \in OpenEntries(Lines) :
                e = ResolutionLine(y, "data_correction", bundle.date) /\ Key(e) = Key(y)
        BY <2>4, NotedLine
      <3>3. x = y
        BY <2>2, <3>1, <3>2
      <3> QED BY <3>1, <3>2, <3>3
    <2>5. \A x \in Settlement : x.level # 1
      BY SettlementType DEF HeavyLevels
    <2> QED BY <2>1, <2>3, <2>4, <2>5, NotedLine
  <1> QED BY <1>1, <1>2, <1>3, <1>4, <1>5 DEF Planned

\* The artifact a resolution is attributed to, as a function of the fire date.
Attributed(date) ==
    ResolutionTypeOf[CHOOSE f \in Differing(date) :
                        \A g \in Differing(date) : EvidenceRank[f] <= EvidenceRank[g]]

\* What a green run resolves: an open entry of the log it does not settle.
LEMMA GreenLine ==
    ASSUME TypeOK, NEW F \in SUBSET (Triggers \X Levels), \A f \in F : f[2] = 1,
           NEW e \in PlanResolutions(Lines \cup Noted(F))
    PROVE  /\ e \in QuarantineEvent
           /\ e.resolution_date # None /\ e.level \in HeavyLevels
           /\ e.resolution_type \in ResolutionTypes
           /\ \E x \in OpenHeavy(Lines) :
                 /\ e = ResolutionLine(x, Attributed(x.date), bundle.date)
                 /\ Key(e) = Key(x) /\ Key(x) \notin Keys(Resolutions(Noted(F)))
  <1> DEFINE L == Lines \cup Noted(F)
  <1>1. PICK x \in OpenHeavy(L) :
            /\ FireRuns(x.date) # {} /\ Differing(x.date) # {}
            /\ e = ResolutionLine(x, Attributed(x.date), bundle.date)
    BY DEF PlanResolutions, Attributed
  <1>2. /\ x \in OpenEntries(L) /\ x.level \in HeavyLevels
        /\ x.resolution_date = None /\ Key(x) \notin Keys(Resolutions(L))
    BY OpenEntry DEF OpenHeavy
  <1>3. x \in QuarantineEvent /\ L \subseteq QuarantineEvent
    BY <1>2, NotedLine, LinesType, OpenEntry
  <1>4. Attributed(x.date) \in ResolutionTypes
    <2>1. Differing(x.date) \subseteq Fields
      BY DEF Differing
    <2> QED BY <1>1, <2>1, FirstByRank, ResolutionTypeOfType DEF Attributed
  <1>5. bundle.date \in Nat
    BY DEF TypeOK
  <1>6. /\ e \in QuarantineEvent /\ Key(e) = Key(x)
        /\ e.level = x.level /\ e.resolution_date # None
        /\ e.resolution_type \in ResolutionTypes
    BY <1>1, <1>3, <1>4, <1>5, ResolutionLineType, LogAssumption
  <1>7. x \notin Noted(F)
    <2> SUFFICES ASSUME x \in Noted(F) PROVE FALSE
      OBVIOUS
    <2>1. x \notin Settlement
      BY <1>2, SettlementType
    <2>2. <<x.trigger, x.level>> \in F
      BY <1>2, <2>1, NotedLine
    <2>3. x.level = 1
      BY <2>2
    <2> QED BY <1>2, <2>3 DEF HeavyLevels
  <1>8. x \in OpenHeavy(Lines) /\ Key(x) \notin Keys(Resolutions(Noted(F)))
    <2>1. x \in Lines
      BY <1>2, <1>7, OpenEntry
    <2> QED BY <1>2, <2>1 DEF OpenHeavy, OpenEntries, Resolutions, Keys
  <1> QED BY <1>1, <1>2, <1>6, <1>8

\* What a green run writes may be appended in any order.
LEMMA GreenPlanned ==
    ASSUME TypeOK, WellFormed(Lines),
           NEW F \in SUBSET (Triggers \X Levels), \A f \in F : f[2] = 1
    PROVE  Planned(Noted(F) \cup PlanResolutions(Lines \cup Noted(F)))
  <1> DEFINE R == PlanResolutions(Lines \cup Noted(F))
  <1>1. Planned(Noted(F))
    BY NotedPlanned
  <1>2. \A x, y \in OpenHeavy(Lines) : Key(x) = Key(y) => x = y
    BY LinesType, OpenEntry, FireLineOfKey DEF WellFormed, OpenHeavy
  <1>3. \A e \in R : /\ e \in QuarantineEvent
                     /\ e.resolution_date # None /\ e.level \in HeavyLevels
                     /\ e.resolution_type \in ResolutionTypes
                     /\ Key(e) \notin Keys(Resolutions(Noted(F)))
                     /\ Key(e) \in Opened /\ Key(e) \notin Keys(Resolutions(Lines))
    BY GreenLine, OpenHeavyIsOpened
  <1>4. ASSUME NEW d \in R, NEW e \in R, Key(d) = Key(e) PROVE d = e
    <2>1. PICK x \in OpenHeavy(Lines) :
              d = ResolutionLine(x, Attributed(x.date), bundle.date) /\ Key(d) = Key(x)
      BY GreenLine
    <2>2. PICK y \in OpenHeavy(Lines) :
              e = ResolutionLine(y, Attributed(y.date), bundle.date) /\ Key(e) = Key(y)
      BY GreenLine
    <2>3. x = y
      BY <1>2, <1>4, <2>1, <2>2
    <2> QED BY <2>1, <2>2, <2>3
  <1> HIDE DEF R
  <1>5. Noted(F) \cup R \subseteq QuarantineEvent /\ WellFormed(Noted(F) \cup R)
    BY <1>1, <1>3 DEF Planned, WellFormed
  <1>6. Opens(Noted(F) \cup R) /\ Closes(Noted(F) \cup R)
    BY <1>1, <1>3 DEF Planned, Opens, Closes, Resolutions
  <1>7. ClosesOnce(Noted(F) \cup R)
    BY <1>1, <1>3, <1>4 DEF Planned, ClosesOnce, Resolutions, Keys
  <1> QED BY <1>5, <1>6, <1>7 DEF Planned, R

(***************************************************************************)
(* The passes of the settle loop.                                          *)
(***************************************************************************)
FailingRow == [row : Rows, result : Results]

LEMMA GateTriggerType ==
    ASSUME NEW b \in FailingRow
    PROVE  GateTrigger(b) \in TriggerRecord
  <1>1. {23, 25, 28} \subseteq Triggers
    BY GateAssumption
  <1>2. b.row \in Rows
    BY DEF FailingRow
  <1> QED BY <1>1, <1>2 DEF GateTrigger, TriggerRecord, Levels

LEMMA InputTriggersType ==
    ASSUME NEW in \in Input
    PROVE  FlagTriggers(in) \subseteq TriggerRecord /\ PriorBad(in) \subseteq FailingRow
  <1>1. in.flags \subseteq Triggers \X Levels /\ in.prior \in Results
    BY GateAssumption DEF Input
  <1>2. FlagTriggers(in) \subseteq TriggerRecord
    BY <1>1 DEF FlagTriggers, TriggerRecord
  <1>3. \A row \in Rows, result \in Results : Bad(row, result) \in FailingRow
    BY DEF Bad, FailingRow
  <1>4. PriorBad(in) \subseteq {Bad("prior", in.prior), Bad("DET-84", "fail")}
    BY DEF PriorBad
  <1>5. "fail" \in Results /\ {"prior", "DET-84"} \subseteq Rows
    BY DEF Results, Rows
  <1> QED BY <1>1, <1>2, <1>3, <1>4, <1>5

LEMMA FiredType ==
    ASSUME NEW T, T \subseteq TriggerRecord
    PROVE  Fired(T) \in SUBSET (Triggers \X Levels)
  BY DEF Fired, TriggerRecord

LEMMA EvidenceType ==
    ASSUME TypeOK, NEW P, P \subseteq QuarantineEvent, WellFormed(P)
    PROVE  EvidenceOf(P) \subseteq EvidenceItem
  <1> SUFFICES ASSUME NEW e \in Resolutions(P), FireRuns(e.date) # {}
               PROVE  [key |-> Key(e), resolution_type |-> e.resolution_type,
                       resolution_date |-> e.resolution_date,
                       fire_value |-> records[FireRun(e.date)].hashes[FieldOf(e.resolution_type)],
                       resolution_value |-> Current[FieldOf(e.resolution_type)]] \in EvidenceItem
    BY DEF EvidenceOf
  <1>1. /\ e \in QuarantineEvent /\ e.resolution_date \in Nat
        /\ e.resolution_type \in ResolutionTypes
    BY DEF Resolutions, QuarantineEvent, WellFormed
  <1>2. FieldOf(e.resolution_type) \in Fields
    BY <1>1, FieldOfType
  <1>3. records[FireRun(e.date)].hashes \in Hashes /\ Current \in Hashes
    BY FireRunIsRecorded, CurrentType DEF Record
  <1> QED BY <1>1, <1>2, <1>3 DEF EvidenceItem, Hashes, Key, QuarantineEvent

LEMMA S3FailingType ==
    ASSUME NEW in \in Input, NEW T, NEW P
    PROVE  S3Failing(in, T, P) \subseteq FailingRow
  <1>1. \A row \in Rows, result \in Results : Bad(row, result) \in FailingRow
    BY DEF Bad, FailingRow
  <1>2. "fail" \in Results /\ in.body \in Results /\ S3Rows \subseteq Rows
    BY DEF Results, Input, Rows
  <1>3. S3Failing(in, T, P) \subseteq
            {Bad("body", "fail"), Bad("body", in.body), Bad("DET-80", "fail"),
             Bad("DET-60", "fail"), Bad("DET-87", "fail"), Bad("DET-85", "fail"),
             Bad("DET-13(a)", "fail"), Bad("DET-13(d)", "fail")}
    BY Zenon DEF S3Failing
  <1>4. /\ "body" \in Rows /\ "DET-80" \in Rows /\ "DET-60" \in Rows /\ "DET-87" \in Rows
        /\ "DET-85" \in Rows /\ "DET-13(a)" \in Rows /\ "DET-13(d)" \in Rows
    BY DEF S3Rows, Rows
  <1>5. {Bad("body", "fail"), Bad("body", in.body), Bad("DET-80", "fail"),
         Bad("DET-60", "fail"), Bad("DET-87", "fail"), Bad("DET-85", "fail"),
         Bad("DET-13(a)", "fail"), Bad("DET-13(d)", "fail")} \subseteq FailingRow
    BY <1>1, <1>2, <1>4
  <1> QED BY <1>3, <1>5

\* What a pass, or a run without a page, hands to the writes.
WellPlanned(s) ==
    /\ s.triggers \subseteq TriggerRecord
    /\ s.evidence \subseteq EvidenceItem
    /\ Planned(s.lines)

LEMMA PassPlanned ==
    ASSUME TypeOK, WellFormed(Lines), NEW in \in Input, NEW first, NEW seen,
           seen \subseteq FailingRow
    PROVE  WellPlanned(Pass(in, first, seen)) /\ Pass(in, first, seen).failing \subseteq FailingRow
  <1> DEFINE triggers == FlagTriggers(in) \cup GateTriggers(in, seen)
             F        == Fired(triggers)
             planned  == PassLines(in, first, seen)
  <1>1. Pass(in, first, seen) = [triggers |-> triggers, lines |-> planned,
                                 evidence |-> EvidenceOf(planned),
                                 failing |-> S3Failing(in, triggers, planned)]
    BY DEF Pass
  <1>2. triggers \subseteq TriggerRecord
    BY GateTriggerType, InputTriggersType DEF GateTriggers
  <1>3. F \in SUBSET (Triggers \X Levels)
    BY <1>2, FiredType
  <1>4. Planned(planned)
    <2>1. planned = Noted(F) \cup {e \in PlanResolutions(Lines \cup Noted(F)) : Green(in, first, seen)}
      BY DEF PassLines
    <2>2. Green(in, first, seen) => \A f \in F : f[2] = 1
      BY FlagsAreNotices DEF Fired, FlagTriggers, Green, Input
    <2> HIDE DEF F, planned
    <2>3. CASE Green(in, first, seen)
      <3>1. planned = Noted(F) \cup PlanResolutions(Lines \cup Noted(F))
        BY <2>1, <2>3
      <3> QED BY <1>3, <2>2, <2>3, <3>1, GreenPlanned
    <2>4. CASE ~Green(in, first, seen)
      <3>1. planned = Noted(F)
        BY <2>1, <2>4
      <3> QED BY <1>3, <3>1, NotedPlanned
    <2> QED BY <2>3, <2>4
  <1> HIDE DEF triggers, planned
  <1>5. EvidenceOf(planned) \subseteq EvidenceItem
    BY <1>4, EvidenceType DEF Planned
  <1>6. S3Failing(in, triggers, planned) \subseteq FailingRow
    BY S3FailingType
  <1> QED BY <1>1, <1>2, <1>4, <1>5, <1>6 DEF WellPlanned

LEMMA UnrenderedPlanned ==
    ASSUME TypeOK, WellFormed(Lines), NEW in \in Input
    PROVE  WellPlanned(Unrendered(in))
  <1> DEFINE triggers == FlagTriggers(in) \cup GateTriggers(in, {})
  <1>1. Unrendered(in) = [triggers |-> triggers, lines |-> Noted(Fired(triggers)),
                          evidence |-> {}, failing |-> {}, stable |-> TRUE]
    BY DEF Unrendered
  <1>2. triggers \subseteq TriggerRecord
    BY GateTriggerType, InputTriggersType DEF GateTriggers
  <1> HIDE DEF triggers
  <1>3. Planned(Noted(Fired(triggers)))
    BY <1>2, FiredType, NotedPlanned
  <1> QED BY <1>1, <1>2, <1>3 DEF WellPlanned

\* A pass as the settle loop hands it on once it is stable.
Settled(p) ==
    [triggers |-> p.triggers, lines |-> p.lines, evidence |-> p.evidence,
     failing |-> p.failing, stable |-> TRUE]

\* What the settle loop ends with is a pass that finds what it was told.
LEMMA SettledPass ==
    ASSUME TypeOK, WellFormed(Lines), NEW in \in Input
    PROVE  \/ Settle(in) = Unstable
           \/ \E seen \in SUBSET FailingRow :
                 /\ Pass(in, FALSE, seen).failing = seen
                 /\ Settle(in) = Settled(Pass(in, FALSE, seen))
  <1> DEFINE p1 == Pass(in, TRUE, {})
             p2 == Pass(in, FALSE, p1.failing)
             p3 == Pass(in, FALSE, p2.failing)
             p4 == Pass(in, FALSE, p3.failing)
  <1>1. p1.failing \subseteq FailingRow
    BY PassPlanned
  <1>2. p2.failing \subseteq FailingRow
    <2> HIDE DEF p1
    <2> QED BY <1>1, PassPlanned
  <1>3. p3.failing \subseteq FailingRow
    <2> HIDE DEF p2
    <2> QED BY <1>2, PassPlanned
  <1>4. Settle(in) = CASE p2.failing = p1.failing -> Settled(p2)
                       [] p2.failing # p1.failing /\ p3.failing = p2.failing -> Settled(p3)
                       [] p2.failing # p1.failing /\ p3.failing # p2.failing
                            /\ p4.failing = p3.failing -> Settled(p4)
                       [] OTHER -> Unstable
    BY Zenon DEF Settle, Settled
  <1>5. \/ p2.failing = p1.failing /\ Settle(in) = Settled(p2)
        \/ p3.failing = p2.failing /\ Settle(in) = Settled(p3)
        \/ p4.failing = p3.failing /\ Settle(in) = Settled(p4)
        \/ Settle(in) = Unstable
    <2> HIDE DEF p1, p2, p3, p4
    <2> QED BY <1>4
  <1> QED BY <1>1, <1>2, <1>3, <1>5

LEMMA SettlePlanned ==
    ASSUME TypeOK, WellFormed(Lines), NEW in \in Input
    PROVE  WellPlanned(Settle(in))
  <1>1. WellPlanned(Unstable)
    BY DEF WellPlanned, Unstable, Planned, WellFormed, Opens, Closes, ClosesOnce, Resolutions
  <1>2. \A p : WellPlanned(p) => WellPlanned(Settled(p))
    BY DEF WellPlanned, Settled
  <1>3. \A seen \in SUBSET FailingRow : WellPlanned(Pass(in, FALSE, seen))
    BY PassPlanned
  <1> QED BY <1>1, <1>2, <1>3, SettledPass

(***************************************************************************)
(* The inductive invariant.                                                *)
(***************************************************************************)
\* Every Level 2/3 entry that was closed had been opened.
ClosedWereOpened == Keys(Heavy(Resolutions(Lines))) \subseteq Opened

\* What a running stage has still to append, while other lines of its plan are in.
JobPlanned ==
    (job # None /\ job.phase \in {"record", "evidence", "log"}) =>
        /\ Planned(job.lines)
        /\ job.outcome = "published" => OpenHeavy(Lines \cup job.lines) = {}

\* A page set is replaced only once its bundle is announced.
JobAnnounced ==
    (job # None /\ job.phase \in {"remove", "copy"}) =>
        \E a \in Announced : a[2] = bundle.block

GateInv ==
    TypeOK /\ WellFormed(Lines) /\ ClosedWereOpened /\ JobPlanned /\ JobAnnounced

LEMMA GateInvInit == Init => GateInv
  <1> SUFFICES ASSUME Init PROVE GateInv
    OBVIOUS
  <1>1. /\ \A f \in Artifacts : version[f] \in Nat
        /\ version \in [Artifacts -> Nat] /\ bundle.block = 1 /\ 1 \in 1..MaxBlock
    BY GateAssumption DEF Init
  <1>2. TypeOK
    BY <1>1 DEF Init, TypeOK, Event
  <1>3. Lines = {}
    BY DEF Init, Lines, QuarantineLines, QuarantineIdx
  <1>4. WellFormed(Lines) /\ ClosedWereOpened
    BY <1>3 DEF WellFormed, ClosedWereOpened, Keys, Heavy, Resolutions
  <1> QED BY <1>2, <1>4 DEF GateInv, JobPlanned, JobAnnounced, Init

(***************************************************************************)
(* Appending to the log.                                                   *)
(***************************************************************************)
LEMMA AppendedLine ==
    ASSUME TypeOK, NEW e \in QuarantineEvent, log' = Append(log, e)
    PROVE  /\ log' \in Seq(Event)
           /\ Lines' = Lines \cup {e}
           /\ Announced' = Announced
  <1>1. log \in Seq(Event) /\ e \in Event /\ e.type = "quarantine"
    BY DEF TypeOK, Event, QuarantineEvent
  <1>2. /\ log' \in Seq(Event) /\ Len(log') = Len(log) + 1 /\ log'[Len(log) + 1] = e
        /\ \A i \in 1..Len(log) : log'[i] = log[i]
    BY <1>1, AppendProperties
  <1>3. DOMAIN log = 1..Len(log) /\ DOMAIN log' = 1..(Len(log) + 1) /\ Len(log) \in Nat
    BY <1>1, <1>2
  <1>4. QuarantineIdx(log') = QuarantineIdx(log) \cup {Len(log) + 1}
    BY <1>1, <1>2, <1>3 DEF QuarantineIdx
  <1>5. Lines' = Lines \cup {e}
    BY <1>2, <1>3, <1>4 DEF Lines, QuarantineLines, QuarantineIdx
  <1>6. {j \in DOMAIN log' : log'[j].type = "published"} = {j \in DOMAIN log : log[j].type = "published"}
    BY <1>1, <1>2, <1>3
  <1>7. Announced' = Announced
    BY <1>2, <1>3, <1>6 DEF Announced
  <1> QED BY <1>2, <1>5, <1>7

LEMMA AppendedPublished ==
    ASSUME TypeOK, log' = Append(log, PublishedLine(bundle.date, bundle.block))
    PROVE  /\ log' \in Seq(Event)
           /\ Lines' = Lines
           /\ Announced' = Announced \cup {<<Len(log) + 1, bundle.block>>}
           /\ <<Len(log) + 1, bundle.block>> \notin Announced
  <1> DEFINE e == PublishedLine(bundle.date, bundle.block)
  <1>1. /\ log \in Seq(Event) /\ e \in Event /\ e.type = "published"
        /\ e.bundle_hash = bundle.block
    BY DEF TypeOK, Event, PublishedEvent, PublishedLine
  <1> HIDE DEF e
  <1>2. /\ log' \in Seq(Event) /\ Len(log') = Len(log) + 1 /\ log'[Len(log) + 1] = e
        /\ \A i \in 1..Len(log) : log'[i] = log[i]
    BY <1>1, AppendProperties DEF e
  <1>3. DOMAIN log = 1..Len(log) /\ DOMAIN log' = 1..(Len(log) + 1) /\ Len(log) \in Nat
    BY <1>1, <1>2
  <1>4. QuarantineIdx(log') = QuarantineIdx(log)
    BY <1>1, <1>2, <1>3 DEF QuarantineIdx
  <1>5. Lines' = Lines
    BY <1>2, <1>3, <1>4 DEF Lines, QuarantineLines, QuarantineIdx
  <1>6. {j \in DOMAIN log' : log'[j].type = "published"}
            = {j \in DOMAIN log : log[j].type = "published"} \cup {Len(log) + 1}
    BY <1>1, <1>2, <1>3
  <1>7. Announced' = Announced \cup {<<Len(log) + 1, bundle.block>>}
    BY <1>1, <1>2, <1>3, <1>6 DEF Announced
  <1>8. <<Len(log) + 1, bundle.block>> \notin Announced
    BY <1>3 DEF Announced
  <1> QED BY <1>2, <1>5, <1>7, <1>8

\* Appending a line of the plan leaves the rest of the plan appendable.
LEMMA AppendedPlan ==
    ASSUME TypeOK, WellFormed(Lines), ClosedWereOpened,
           NEW P, Planned(P), NEW e \in P, Lines' = Lines \cup {e}
    PROVE  /\ WellFormed(Lines)' /\ ClosedWereOpened'
           /\ P \ {e} \subseteq QuarantineEvent /\ WellFormed(P \ {e})
           /\ ClosesOnce(P \ {e})
           /\ \A x \in P \ {e} : (x.resolution_date = None /\ x.level \in HeavyLevels)
                                     => Key(x) \notin Opened'
           /\ \A x \in Resolutions(P \ {e}) :
                 /\ Key(x) \notin Keys(Resolutions(Lines'))
                 /\ x.level \in HeavyLevels => Key(x) \in Opened'
  <1> DEFINE Q == P \ {e}
  <1>1. /\ P \subseteq QuarantineEvent /\ WellFormed(P)
        /\ Opens(P) /\ Closes(P) /\ ClosesOnce(P)
    BY DEF Planned
  <1>2. WellFormed(Lines)' /\ WellFormed(Q) /\ ClosesOnce(Q) /\ Q \subseteq QuarantineEvent
    BY <1>1 DEF WellFormed, ClosesOnce, Resolutions
  <1>3. CASE e.resolution_date = None
    <2>1. Resolutions(Lines') = Resolutions(Lines)
      BY <1>3 DEF Resolutions
    <2>2. Opened' = Opened \cup (IF e.level \in HeavyLevels THEN {Key(e)} ELSE {})
      BY <1>3 DEF Opened, Keys, Heavy, Resolutions
    <2>3. \A x \in Q : (x.resolution_date = None /\ x.level \in HeavyLevels) => Key(x) \notin Opened'
      <3> SUFFICES ASSUME NEW x \in Q, x.resolution_date = None, x.level \in HeavyLevels
                   PROVE  Key(x) \notin Opened'
        OBVIOUS
      <3>1. Key(x) \notin Opened
        BY <1>1 DEF Opens
      <3>2. Key(x) # Key(e)
        BY <1>1, <1>3, FireLineOfKey DEF WellFormed
      <3> QED BY <2>2, <3>1, <3>2
    <2>4. \A x \in Resolutions(Q) : /\ Key(x) \notin Keys(Resolutions(Lines'))
                                    /\ x.level \in HeavyLevels => Key(x) \in Opened'
      BY <1>1, <2>1, <2>2 DEF Closes, Resolutions
    <2>5. ClosedWereOpened'
      BY <2>1, <2>2 DEF ClosedWereOpened
    <2> QED BY <1>2, <2>3, <2>4, <2>5
  <1>4. CASE e.resolution_date # None
    <2>1. Resolutions(Lines') = Resolutions(Lines) \cup {e} /\ e \in Resolutions(P)
      BY <1>4 DEF Resolutions
    <2>2. Opened' = Opened
      BY <1>4 DEF Opened, Keys, Heavy, Resolutions
    <2>3. \A x \in Q : (x.resolution_date = None /\ x.level \in HeavyLevels) => Key(x) \notin Opened'
      BY <1>1, <2>2 DEF Opens
    <2>4. ASSUME NEW x \in Resolutions(Q)
          PROVE  /\ Key(x) \notin Keys(Resolutions(Lines'))
                 /\ x.level \in HeavyLevels => Key(x) \in Opened'
      <3>1. x \in Resolutions(P) /\ x # e
        BY DEF Resolutions
      <3>2. Key(x) # Key(e)
        BY <1>1, <2>1, <3>1 DEF ClosesOnce
      <3>3. Key(x) \notin Keys(Resolutions(Lines))
        BY <1>1, <3>1 DEF Closes
      <3> QED BY <1>1, <2>1, <2>2, <3>1, <3>2, <3>3 DEF Closes, Keys
    <2>5. ClosedWereOpened'
      BY <1>1, <2>1, <2>2 DEF ClosedWereOpened, Closes, Keys, Heavy
    <2> QED BY <1>2, <2>3, <2>4, <2>5
  <1> QED BY <1>3, <1>4

\* What a stage has decided when it starts to write.
LEMMA ReportDecides ==
    ASSUME TypeOK, WellFormed(Lines), NEW in \in Inputs, Report(in)
    PROVE  /\ job' \in Job \cup {None}
           /\ job' # None => /\ job'.phase = "record"
                             /\ Planned(job'.lines)
                             /\ job'.outcome = "published" => OpenHeavy(Lines \cup job'.lines) = {}
  <1> DEFINE s == IF in.ok THEN Settle(in) ELSE Unrendered(in)
             r == [date |-> bundle.date, hashes |-> Current, triggers |-> s.triggers]
             j == [phase |-> "record", input |-> in, outcome |-> Outcome(in, s), record |-> r,
                   evidence |-> s.evidence, settled |-> Settlement, lines |-> s.lines]
  <1>1. job' = IF ~s.stable THEN None ELSE j
    BY DEF Report
  <1>2. in \in Input
    BY GateAssumption
  <1>3. WellPlanned(s)
    <2>1. CASE in.ok
      BY <1>2, <2>1, SettlePlanned
    <2>2. CASE ~in.ok
      BY <1>2, <2>2, UnrenderedPlanned
    <2> QED BY <2>1, <2>2
  <1> HIDE DEF s
  <1>4. r \in Record
    BY <1>3, CurrentType DEF Record, WellPlanned, TypeOK
  <1>5. /\ Outcome(in, s) \in Outcomes
        /\ Outcome(in, s) = "published" => OpenHeavy(Lines \cup s.lines) = {}
    <2>1. CASE ~in.ok \/ \E b \in s.failing : b.row # "DET-80"
      BY <2>1 DEF Outcome, Outcomes
    <2>2. CASE ~(~in.ok \/ \E b \in s.failing : b.row # "DET-80")
      <3>1. Outcome(in, s) = IF OpenHeavy(Lines \cup s.lines) # {} THEN "quarantined" ELSE "published"
        BY <2>2 DEF Outcome
      <3> QED BY <3>1 DEF Outcomes
    <2> QED BY <2>1, <2>2
  <1> HIDE DEF r
  <1>6. j \in Job
    BY <1>2, <1>3, <1>4, <1>5, SettlementType DEF Job, WellPlanned, Planned, Phases
  <1>7. j.phase = "record" /\ j.lines = s.lines /\ j.outcome = Outcome(in, s)
    OBVIOUS
  <1> HIDE DEF j
  <1> QED BY <1>1, <1>3, <1>5, <1>6, <1>7 DEF WellPlanned

\* Steps that leave the log alone leave what is read of it alone.
LEMMA LogKept ==
    ASSUME UNCHANGED log
    PROVE  /\ Lines' = Lines /\ Opened' = Opened /\ Announced' = Announced
           /\ WellFormed(Lines)' = WellFormed(Lines) /\ ClosedWereOpened' = ClosedWereOpened
           /\ \A P : Planned(P)' = Planned(P)
  BY DEF Lines, Opened, Announced, WellFormed, ClosedWereOpened, Planned, Opens, Closes,
         QuarantineLines, QuarantineIdx, Keys, Heavy, Resolutions

LEMMA AppendLineStep ==
    ASSUME GateInv, NEW e, e \in job.lines, AppendLine(e)
    PROVE  GateInv'
  <1>1. /\ job \in Job /\ job.phase = "log" /\ TypeOK /\ WellFormed(Lines) /\ ClosedWereOpened
        /\ Planned(job.lines)
        /\ job.outcome = "published" => OpenHeavy(Lines \cup job.lines) = {}
    BY DEF AppendLine, GateInv, TypeOK, JobPlanned
  <1>2. e \in QuarantineEvent
    BY <1>1 DEF Planned
  <1>3. /\ log' \in Seq(Event) /\ Lines' = Lines \cup {e} /\ Announced' = Announced
    BY <1>1, <1>2, AppendedLine DEF AppendLine
  <1>4. /\ job' = [job EXCEPT !.lines = @ \ {e}]
        /\ UNCHANGED <<version, bundle, records, evidence, site, runs>>
    BY DEF AppendLine
  <1>5. /\ job' \in Job /\ job'.phase = "log" /\ job'.outcome = job.outcome
        /\ job'.lines = job.lines \ {e}
    BY <1>1, <1>4 DEF Job
  <1>6. TypeOK'
    BY <1>1, <1>3, <1>4, <1>5 DEF TypeOK
  <1>7. WellFormed(Lines)' /\ ClosedWereOpened'
    BY <1>1, <1>3, AppendedPlan
  <1>8. Planned(job.lines)'
    <2> DEFINE Q == job.lines \ {e}
    <2>1. /\ Q \subseteq QuarantineEvent /\ WellFormed(Q) /\ ClosesOnce(Q)
          /\ \A x \in Q : (x.resolution_date = None /\ x.level \in HeavyLevels)
                              => Key(x) \notin Opened'
          /\ \A x \in Resolutions(Q) : /\ Key(x) \notin Keys(Resolutions(Lines'))
                                       /\ x.level \in HeavyLevels => Key(x) \in Opened'
      BY <1>1, <1>3, AppendedPlan
    <2>2. job'.lines = Q
      BY <1>5
    <2> QED BY <2>1, <2>2 DEF Planned, WellFormed, ClosesOnce, Opens, Closes, Resolutions, Keys
  <1>9. Lines' \cup job'.lines = Lines \cup job.lines
    BY <1>3, <1>5
  <1>10. OpenHeavy(Lines' \cup job'.lines) = OpenHeavy(Lines \cup job.lines)
    BY <1>9
  <1> QED BY <1>1, <1>3, <1>5, <1>6, <1>7, <1>8, <1>10 DEF GateInv, JobPlanned, JobAnnounced

LEMMA AppendPublishedStep ==
    ASSUME GateInv, AppendPublished
    PROVE  GateInv'
  <1>1. /\ job \in Job /\ TypeOK /\ WellFormed(Lines) /\ ClosedWereOpened
        /\ job' = [job EXCEPT !.phase = "remove"]
        /\ UNCHANGED <<version, bundle, records, evidence, site, runs>>
    BY DEF AppendPublished, GateInv, TypeOK
  <1>2. /\ log' \in Seq(Event) /\ Lines' = Lines
        /\ Announced' = Announced \cup {<<Len(log) + 1, bundle.block>>}
    BY <1>1, AppendedPublished DEF AppendPublished
  <1>3. job' \in Job /\ job'.phase = "remove"
    BY <1>1 DEF Job, Phases
  <1>4. TypeOK'
    BY <1>1, <1>2, <1>3 DEF TypeOK
  <1>5. WellFormed(Lines)' /\ ClosedWereOpened'
    BY <1>1, <1>2 DEF WellFormed, ClosedWereOpened, Opened, Keys, Heavy, Resolutions
  <1>6. JobAnnounced'
    <2>1. <<Len(log) + 1, bundle.block>> \in Announced' /\ bundle' = bundle
      BY <1>1, <1>2
    <2> QED BY <2>1 DEF JobAnnounced
  <1> QED BY <1>3, <1>4, <1>5, <1>6 DEF GateInv, JobPlanned

\* A step that leaves the log and the bundle alone and leads the job on.
LEMMA LogKeptStep ==
    ASSUME GateInv, TypeOK', UNCHANGED log,
           JobPlanned', JobAnnounced'
    PROVE  GateInv'
  BY LogKept DEF GateInv

LEMMA GateInvStep == GateInv /\ [Next]_vars => GateInv'
  <1> SUFFICES ASSUME GateInv, [Next]_vars PROVE GateInv'
    OBVIOUS
  <1>0. TypeOK /\ WellFormed(Lines)
    BY DEF GateInv
  <1>1. ASSUME NEW f \in Editable, Edit(f) PROVE GateInv'
    <2>1. f \in Artifacts
      BY GateAssumption
    <2>2. TypeOK'
      BY <1>0, <1>1, <2>1 DEF Edit, TypeOK
    <2> QED BY <1>1, <2>2, LogKeptStep DEF Edit, JobPlanned, JobAnnounced
  <1>2. ASSUME NEW date \in 1..MaxDate, NewBundle(date) PROVE GateInv'
    <2>1. bundle' \in [block : 1..MaxBlock, date : Nat, head : [Artifacts -> Nat]]
      <3>1. /\ bundle.block \in 1..MaxBlock /\ bundle.block < MaxBlock /\ date \in Nat
            /\ version \in [Artifacts -> Nat] /\ MaxBlock \in Nat /\ MaxDate \in Nat
        BY <1>0, <1>2, GateAssumption DEF NewBundle, TypeOK
      <3>2. bundle.block + 1 \in 1..MaxBlock
        BY <3>1
      <3> QED BY <1>2, <3>1, <3>2 DEF NewBundle
    <2>2. TypeOK'
      BY <1>0, <1>2, <2>1 DEF NewBundle, TypeOK
    <2> QED BY <1>2, <2>2, LogKeptStep DEF NewBundle, JobPlanned, JobAnnounced
  <1>3. ASSUME NEW in \in Inputs, Report(in) PROVE GateInv'
    <2>1. /\ job' \in Job \cup {None}
          /\ job' # None => /\ job'.phase = "record"
                            /\ Planned(job'.lines)
                            /\ job'.outcome = "published" => OpenHeavy(Lines \cup job'.lines) = {}
      BY <1>0, <1>3, ReportDecides
    <2>2. UNCHANGED <<version, bundle, log, records, evidence, site>> /\ runs' \in Nat
      BY <1>0, <1>3 DEF Report, TypeOK
    <2>3. TypeOK'
      BY <1>0, <2>1, <2>2 DEF TypeOK
    <2>4. Lines' = Lines /\ \A P : Planned(P)' = Planned(P)
      BY <2>2, LogKept
    <2>5. JobPlanned' /\ JobAnnounced'
      BY <2>1, <2>4 DEF JobPlanned, JobAnnounced, Planned, Opens, Closes, Opened
    <2> QED BY <2>2, <2>3, <2>5, LogKeptStep
  <1>4. CASE WriteRecord
    <2>1. /\ job \in Job /\ job' = [job EXCEPT !.phase = "evidence"]
          /\ records' = [records EXCEPT ![bundle.block] = job.record]
          /\ UNCHANGED <<version, bundle, log, evidence, site, runs>> /\ job.phase = "record"
          /\ job # None
      BY <1>0, <1>4 DEF WriteRecord, TypeOK
    <2>2. /\ job' \in Job /\ job'.phase = "evidence" /\ job'.lines = job.lines
          /\ job'.outcome = job.outcome
      BY <2>1 DEF Job, Phases
    <2>3. records' \in [1..MaxBlock -> Record \cup {None}]
      BY <1>0, <2>1 DEF TypeOK, Job
    <2>4. TypeOK'
      BY <1>0, <2>1, <2>2, <2>3 DEF TypeOK
    <2>5. JobPlanned' /\ JobAnnounced'
      BY <2>1, <2>2, LogKept DEF GateInv, JobPlanned, JobAnnounced, Planned, Opens, Closes, Opened
    <2> QED BY <2>1, <2>4, <2>5, LogKeptStep
  <1>5. CASE WriteEvidence
    <2>1. /\ job \in Job /\ job' = [job EXCEPT !.phase = "log"]
          /\ evidence' = Supersede(evidence, job.evidence)
          /\ UNCHANGED <<version, bundle, log, records, site, runs>> /\ job.phase = "evidence"
          /\ job # None
      BY <1>0, <1>5 DEF WriteEvidence, TypeOK
    <2>2. /\ job' \in Job /\ job'.phase = "log" /\ job'.lines = job.lines
          /\ job'.outcome = job.outcome
      BY <2>1 DEF Job, Phases
    <2>3. evidence' \in SUBSET EvidenceItem
      BY <1>0, <2>1 DEF TypeOK, Job, Supersede
    <2>4. TypeOK'
      BY <1>0, <2>1, <2>2, <2>3 DEF TypeOK
    <2>5. JobPlanned' /\ JobAnnounced'
      BY <2>1, <2>2, LogKept DEF GateInv, JobPlanned, JobAnnounced, Planned, Opens, Closes, Opened
    <2> QED BY <2>1, <2>4, <2>5, LogKeptStep
  <1>6. ASSUME NEW e \in (IF job = None THEN {} ELSE job.lines), AppendLine(e) PROVE GateInv'
    <2>1. e \in job.lines
      BY <1>6
    <2> QED BY <1>6, <2>1, AppendLineStep
  <1>7. CASE AppendPublished
    BY <1>7, AppendPublishedStep
  <1>8. CASE RemovePage
    <2>1. /\ job \in Job /\ job' = [job EXCEPT !.phase = "copy"] /\ site' = Absent
          /\ UNCHANGED <<version, bundle, log, records, evidence, runs>> /\ job.phase = "remove"
          /\ job # None
      BY <1>0, <1>8 DEF RemovePage, TypeOK
    <2>2. job' \in Job /\ job'.phase = "copy"
      BY <2>1 DEF Job, Phases
    <2>3. TypeOK'
      BY <1>0, <2>1, <2>2 DEF TypeOK
    <2>4. JobPlanned' /\ JobAnnounced'
      BY <2>1, <2>2, LogKept DEF GateInv, JobPlanned, JobAnnounced
    <2> QED BY <2>1, <2>3, <2>4, LogKeptStep
  <1>9. CASE CopyPage
    <2>1. ReportHash \in Nat \X Nat
      BY <1>0, ReportHashType
    <2>2. TypeOK'
      BY <1>0, <1>9, <2>1 DEF CopyPage, TypeOK
    <2> QED BY <1>9, <2>2, LogKeptStep DEF CopyPage, JobPlanned, JobAnnounced
  <1>10. CASE EndUnpublished \/ Crash
    <2>1. TypeOK'
      BY <1>0, <1>10 DEF EndUnpublished, Crash, TypeOK
    <2> QED BY <1>10, <2>1, LogKeptStep DEF EndUnpublished, Crash, JobPlanned, JobAnnounced
  <1>11. CASE UNCHANGED vars
    <2>0. /\ version' = version /\ bundle' = bundle /\ log' = log /\ records' = records
          /\ evidence' = evidence /\ site' = site /\ job' = job /\ runs' = runs
      BY <1>11 DEF vars
    <2>1. TypeOK'
      BY <1>0, <2>0 DEF TypeOK
    <2>2. /\ Lines' = Lines /\ Announced' = Announced
          /\ \A P : Planned(P)' = Planned(P)
      BY <2>0, LogKept
    <2>3. JobPlanned' /\ JobAnnounced'
      BY <2>0, <2>2 DEF GateInv, JobPlanned, JobAnnounced, Planned, Opens, Closes, Opened
    <2> QED BY <2>0, <2>1, <2>3, LogKeptStep
  <1> QED BY <1>1, <1>2, <1>3, <1>4, <1>5, <1>6, <1>7, <1>8, <1>9, <1>10, <1>11 DEF Next

\* Type correctness of the report stage, for any triggers, inputs and bounds.
THEOREM GateTypeCorrect == Spec => []TypeOK
  <1>1. GateInv => TypeOK
    BY DEF GateInv
  <1> QED BY GateInvInit, GateInvStep, <1>1, PTL DEF Spec

THEOREM GateInvariant == Spec => []GateInv
  BY GateInvInit, GateInvStep, PTL DEF Spec

(***************************************************************************)
(* Nothing is written twice.                                               *)
(***************************************************************************)
LEMMA WrittenOnceStep == GateInv /\ WrittenOnce /\ [Next]_vars => WrittenOnce'
  <1> SUFFICES ASSUME GateInv, WrittenOnce, [Next]_vars PROVE WrittenOnce'
    OBVIOUS
  <1>1. CASE log' = log
    BY <1>1 DEF WrittenOnce, QuarantineIdx, Key
  <1>2. ASSUME NEW e, job # None, e \in job.lines, AppendLine(e) PROVE WrittenOnce'
    <2>1. /\ job \in Job /\ job.phase = "log" /\ log \in Seq(Event)
          /\ Planned(job.lines) /\ log' = Append(log, e)
      BY <1>2 DEF AppendLine, GateInv, TypeOK, JobPlanned
    <2>2. e \in QuarantineEvent /\ e \in Event /\ e.type = "quarantine"
      BY <1>2, <2>1 DEF Planned, Event, QuarantineEvent
    <2>3. /\ Len(log') = Len(log) + 1 /\ log'[Len(log) + 1] = e
          /\ \A i \in 1..Len(log) : log'[i] = log[i]
          /\ DOMAIN log = 1..Len(log) /\ DOMAIN log' = 1..(Len(log) + 1) /\ Len(log) \in Nat
      BY <2>1, <2>2, AppendProperties
    <2>4. QuarantineIdx(log') = QuarantineIdx(log) \cup {Len(log) + 1}
      BY <2>2, <2>3 DEF QuarantineIdx
    <2>5. \A i \in QuarantineIdx(log) : /\ log'[i] = log[i] /\ log[i] \in Lines
                                        /\ i # Len(log) + 1
      BY <2>3 DEF QuarantineIdx, Lines, QuarantineLines
    <2>6. ASSUME NEW i \in QuarantineIdx(log)
          PROVE  /\ e.level \in HeavyLevels => log[i] # e
                 /\ (e.resolution_date # None /\ log[i].resolution_date # None)
                        => Key(log[i]) # Key(e)
      <3>1. log[i] \in Lines
        BY <2>5
      <3>2. CASE e.resolution_date = None
        <4>1. e.level \in HeavyLevels => Key(e) \notin Opened
          BY <1>2, <2>1, <3>2 DEF Planned, Opens
        <4> QED BY <3>1, <3>2, <4>1 DEF Opened, Keys, Heavy, Resolutions
      <3>3. CASE e.resolution_date # None
        <4>1. Key(e) \notin Keys(Resolutions(Lines))
          BY <1>2, <2>1, <3>3 DEF Planned, Closes, Resolutions
        <4> QED BY <3>1, <3>3, <4>1 DEF Keys, Resolutions
      <3> QED BY <3>2, <3>3
    <2>7. SUFFICES ASSUME NEW i \in QuarantineIdx(log'), NEW j \in QuarantineIdx(log'), i # j
                   PROVE  /\ log'[i].level \in HeavyLevels => log'[i] # log'[j]
                          /\ (/\ log'[i].resolution_date # None
                              /\ log'[j].resolution_date # None) => Key(log'[i]) # Key(log'[j])
      BY DEF WrittenOnce
    <2>8. CASE i \in QuarantineIdx(log) /\ j \in QuarantineIdx(log)
      BY <2>5, <2>7, <2>8 DEF WrittenOnce
    <2>9. CASE i = Len(log) + 1 /\ j \in QuarantineIdx(log)
      BY <2>3, <2>5, <2>6, <2>9
    <2>10. CASE j = Len(log) + 1 /\ i \in QuarantineIdx(log)
      BY <2>3, <2>5, <2>6, <2>10
    <2> QED BY <2>4, <2>7, <2>8, <2>9, <2>10
  <1>3. CASE AppendPublished
    <2>1. TypeOK /\ log' = Append(log, PublishedLine(bundle.date, bundle.block))
      BY <1>3 DEF AppendPublished, GateInv
    <2>2. log \in Seq(Event) /\ PublishedLine(bundle.date, bundle.block) \in Event
      BY <2>1 DEF TypeOK, Event, PublishedEvent, PublishedLine
    <2>3. /\ Len(log') = Len(log) + 1
          /\ log'[Len(log) + 1] = PublishedLine(bundle.date, bundle.block)
          /\ \A i \in 1..Len(log) : log'[i] = log[i]
          /\ DOMAIN log = 1..Len(log) /\ DOMAIN log' = 1..(Len(log) + 1) /\ Len(log) \in Nat
      BY <2>1, <2>2, AppendProperties
    <2>4. log'[Len(log) + 1].type # "quarantine"
      BY <2>3 DEF PublishedLine
    <2>5. QuarantineIdx(log') = QuarantineIdx(log)
      BY <2>3, <2>4 DEF QuarantineIdx
    <2>6. \A i \in QuarantineIdx(log) : log'[i] = log[i]
      BY <2>3 DEF QuarantineIdx
    <2> QED BY <2>5, <2>6 DEF WrittenOnce
  <1>4. ASSUME NEW e \in (IF job = None THEN {} ELSE job.lines), AppendLine(e)
        PROVE  WrittenOnce'
    BY <1>2, <1>4
  <1>5. \/ log' = log \/ AppendPublished
        \/ \E e \in (IF job = None THEN {} ELSE job.lines) : AppendLine(e)
    BY DEF Next, vars, Edit, NewBundle, Report, WriteRecord, WriteEvidence, EndUnpublished,
           RemovePage, CopyPage, Crash
  <1> QED BY <1>1, <1>3, <1>4, <1>5

\* No Level 2/3 fire line is written twice and no entry is closed twice, however
\* runs crash between two appends and are run again (plan_quarantine).
THEOREM NothingWrittenTwice == Spec => []WrittenOnce
  <1>1. Init => WrittenOnce
    BY DEF Init, WrittenOnce, QuarantineIdx
  <1> QED BY GateInvInit, GateInvStep, WrittenOnceStep, <1>1, PTL DEF Spec

(***************************************************************************)
(* The gate implements the promised lifecycle.                             *)
(***************************************************************************)
\* The abstract variables as functions of the log and the site.
Closed == Keys(Heavy(Resolutions(Lines)))

Page == IF site = Absent THEN Absent ELSE site[1]

LEMMA LifecycleInit == Init => Promise!Init
  <1> SUFFICES ASSUME Init PROVE Promise!Init
    OBVIOUS
  <1>1. Lines = {} /\ Announced = {} /\ site = Absent
    BY DEF Init, Lines, QuarantineLines, QuarantineIdx, Announced
  <1> QED BY <1>1 DEF Promise!Init, Keys, Heavy, Resolutions

\* A step that changes neither the log nor the page is not seen by the reader.
LEMMA UnseenStep ==
    ASSUME UNCHANGED <<log, site>>
    PROVE  UNCHANGED Promise!vars
  BY DEF Promise!vars, Lines, QuarantineLines, QuarantineIdx, Announced, Keys, Heavy, Resolutions

LEMMA AppendLineSeen ==
    ASSUME GateInv, NEW e, e \in job.lines, AppendLine(e)
    PROVE  [Promise!Next]_(Promise!vars)
  <1>1. /\ TypeOK /\ ClosedWereOpened /\ site' = site
        /\ Planned(job.lines) /\ log' = Append(log, e)
    BY DEF AppendLine, GateInv, JobPlanned
  <1>2. e \in QuarantineEvent
    BY <1>1 DEF Planned
  <1>3. Lines' = Lines \cup {e} /\ Announced' = Announced /\ Page' = Page
    BY <1>1, <1>2, AppendedLine DEF Page
  <1>4. CASE e.level \notin HeavyLevels
    <2>1. Opened' = Opened /\ Closed' = Closed
      BY <1>3, <1>4 DEF Opened, Closed, Keys, Heavy, Resolutions
    <2> QED BY <1>3, <2>1 DEF Promise!vars, Opened, Closed, Page
  <1>5. CASE e.level \in HeavyLevels /\ e.resolution_date = None
    <2>1. Key(e) \notin Opened /\ Opened' = Opened \cup {Key(e)} /\ Closed' = Closed
      BY <1>1, <1>3, <1>5 DEF Planned, Opens, Opened, Closed, Keys, Heavy, Resolutions
    <2>2. Promise!Fire(Key(e))
      BY <1>3, <2>1 DEF Promise!Fire, Opened, Closed, Page
    <2> QED BY <2>1, <2>2 DEF Promise!Next, Opened
  <1>6. CASE e.level \in HeavyLevels /\ e.resolution_date # None
    <2>1. Closed' = Closed \cup {Key(e)} /\ Opened' = Opened
      BY <1>3, <1>6 DEF Opened, Closed, Keys, Heavy, Resolutions
    <2>2. e \in Resolutions(job.lines)
      BY <1>6 DEF Resolutions
    <2>3. Key(e) \in Opened /\ Key(e) \notin Closed
      BY <1>1, <1>6, <2>2 DEF Planned, Closes, Closed, Keys, Heavy
    <2>4. Promise!Resolve(Key(e))
      BY <1>3, <2>1, <2>3 DEF Promise!Resolve, Opened, Closed, Page
    <2> QED BY <2>1, <2>4 DEF Promise!Next, Closed
  <1> QED BY <1>4, <1>5, <1>6

\* The published line is written over a log with no open Level 2/3 entry.
LEMMA AppendPublishedSeen ==
    ASSUME GateInv, AppendPublished
    PROVE  [Promise!Next]_(Promise!vars)
  <1>1. /\ TypeOK /\ ClosedWereOpened /\ site' = site
        /\ OpenHeavy(Lines) = {}
        /\ log' = Append(log, PublishedLine(bundle.date, bundle.block))
    <2>1. job # None /\ job.phase = "log" /\ job.lines = {} /\ job.outcome = "published"
      BY DEF AppendPublished
    <2>2. OpenHeavy(Lines \cup {}) = {}
      BY <2>1 DEF GateInv, JobPlanned
    <2>3. Lines \cup {} = Lines
      OBVIOUS
    <2> QED BY <2>2, <2>3 DEF AppendPublished, GateInv
  <1> DEFINE a == <<Len(log) + 1, bundle.block>>
  <1>2. Lines' = Lines /\ Announced' = Announced \cup {a} /\ a \notin Announced
    BY <1>1, AppendedPublished
  <1>3. Opened' = Opened /\ Closed' = Closed /\ Page' = Page
    BY <1>1, <1>2 DEF Opened, Closed, Page, Keys, Heavy, Resolutions
  <1>4. Opened = Closed
    <2>1. Opened \subseteq Closed
      <3> SUFFICES ASSUME NEW x \in Lines, x.resolution_date = None, x.level \in HeavyLevels
                   PROVE  Key(x) \in Closed
        BY DEF Opened, Keys, Heavy, Resolutions
      <3>1. x \notin OpenEntries(Lines)
        BY <1>1 DEF OpenHeavy
      <3>2. PICK y \in Resolutions(Lines) : Key(y) = Key(x)
        BY <3>1 DEF OpenEntries, Resolutions
      <3>3. y.level = x.level
        BY <3>2 DEF Key
      <3> QED BY <3>2, <3>3 DEF Closed, Keys, Heavy
    <2> QED BY <1>1, <2>1 DEF ClosedWereOpened, Closed
  <1> HIDE DEF a
  <1>5. Promise!Announce(a)
    BY <1>2, <1>3, <1>4 DEF Promise!Announce, Opened, Closed, Page
  <1> QED BY <1>2, <1>5 DEF Promise!Next

LEMMA LifecycleStep == GateInv /\ [Next]_vars => [Promise!Next]_(Promise!vars)
  <1> SUFFICES ASSUME GateInv, [Next]_vars PROVE [Promise!Next]_(Promise!vars)
    OBVIOUS
  <1>1. CASE UNCHANGED <<log, site>>
    BY <1>1, UnseenStep
  <1>2. ASSUME NEW e \in (IF job = None THEN {} ELSE job.lines), AppendLine(e)
        PROVE  [Promise!Next]_(Promise!vars)
    <2>1. e \in job.lines
      BY <1>2
    <2> QED BY <1>2, <2>1, AppendLineSeen
  <1>3. CASE AppendPublished
    BY <1>3, AppendPublishedSeen
  <1>4. CASE RemovePage
    <2>1. UNCHANGED log /\ site' = Absent
      BY <1>4 DEF RemovePage
    <2>2. Promise!Withdraw
      BY <2>1, LogKept DEF Promise!Withdraw, Keys, Heavy, Resolutions
    <2> QED BY <2>2 DEF Promise!Next
  <1>5. CASE CopyPage
    <2>1. /\ UNCHANGED log /\ site' = ReportHash
          /\ \E a \in Announced : a[2] = bundle.block
      BY <1>5 DEF CopyPage, GateInv, JobAnnounced
    <2>2. PICK a \in Announced : a[2] = bundle.block
      BY <2>1
    <2>3. Page' = a[2]
      <3>1. ReportHash \in Nat \X Nat /\ ReportHash[1] = bundle.block
        BY ReportHashType DEF ReportHash, GateInv
      <3>2. ReportHash # Absent
        BY <3>1, GateAssumption
      <3> QED BY <2>1, <2>2, <3>1, <3>2 DEF Page
    <2>4. Promise!Show(a)
      BY <2>1, <2>2, <2>3, LogKept DEF Promise!Show, Page, Keys, Heavy, Resolutions
    <2> QED BY <2>2, <2>4 DEF Promise!Next
  <1>6. \/ UNCHANGED <<log, site>> \/ AppendPublished \/ RemovePage \/ CopyPage
        \/ \E e \in (IF job = None THEN {} ELSE job.lines) : AppendLine(e)
    BY DEF Next, vars, Edit, NewBundle, Report, WriteRecord, WriteEvidence, EndUnpublished,
           Crash
  <1> QED BY <1>1, <1>2, <1>3, <1>4, <1>5, <1>6

\* Every behaviour of the report stage, crashes included, is one of the lifecycle a
\* reader of the log and the site is promised.
THEOREM LifecycleImplemented == Spec => LifecycleKept
  <1> QED BY GateInvInit, GateInvStep, LifecycleInit, LifecycleStep, PTL
          DEF Spec, LifecycleKept, Promise!Spec
-------------------------------------------------------------------------------
(***************************************************************************)
(* What closes a quarantine.  Every resolution line of a Level 2/3 entry   *)
(* has its evidence on disk before the line is written, and no later       *)
(* evidence takes its place.                                               *)
(***************************************************************************)
\* The Level 2/3 resolutions among the lines P have their evidence in E.
Evidenced(P, E) ==
    \A e \in Resolutions(P) : e.level \in HeavyLevels => \E x \in E : Evidences(x, e)

\* E holds evidence for resolutions among P only.
EvidenceFor(P, E) ==
    \A x \in E : \E e \in Resolutions(P) : x.key = Key(e)

\* What a running stage has still to write has its evidence, on disk already or
\* among what it writes first.
JobEvidenced ==
    job # None =>
        /\ job.phase \in {"record", "evidence"} =>
              Evidenced(job.lines, job.evidence) /\ EvidenceFor(job.lines, job.evidence)
        /\ job.phase = "log" => Evidenced(job.lines, evidence)

EvidenceInv == GateInv /\ Evidenced(Lines, evidence) /\ JobEvidenced

(***************************************************************************)
(* The notices of Level 1.                                                 *)
(***************************************************************************)
Notices(L) == {e \in OpenEntries(L) : e.level = 1}

\* The open notices of the lines L are one for each Level 1 pair of F.
OneNoticeEach(L, F) ==
    /\ \A e \in Notices(L) : <<e.trigger, 1>> \in F
    /\ \A f \in F : f[2] = 1 =>
          /\ \E e \in Notices(L) : e.trigger = f[1]
          /\ \A d, e \in Notices(L) : d.trigger = f[1] /\ e.trigger = f[1] => d = e

\* A notice that is open stands in one line of the log.
NoticesOnce ==
    \A i, j \in QuarantineIdx(log) :
        log[i] = log[j] /\ log[i] \in Notices(Lines) => i = j

\* No trigger has two open notices, nor will it when the stage has written its plan.
NoticesDistinct(L) ==
    \A d, e \in Notices(L) : d.trigger = e.trigger => d = e

JobNotices ==
    job # None =>
        /\ job.phase \in {"record", "evidence", "log"} =>
              \A e \in job.lines : (e.level = 1 /\ e.resolution_date = None) =>
                  \A x \in Notices(Lines) : x.trigger # e.trigger
        /\ job.phase \in {"record", "evidence", "log"} /\ job.outcome = "published" =>
              OneNoticeEach(Lines \cup job.lines, Fired(job.record.triggers))
        /\ job.phase \in {"remove", "copy"} =>
              OneNoticeEach(Lines, Fired(job.record.triggers))
        /\ job.phase # "record" => records[bundle.block] = job.record

(***************************************************************************)
(* The runs a bundle was reported in.                                      *)
(***************************************************************************)
\* A record is of the bundle it is filed under, and the latest bundle's is of its
\* date.
RecordsFiled ==
    \A b \in RecordedBlocks :
        /\ b <= bundle.block
        /\ records[b].hashes["bundle_hash"] = b
        /\ b = bundle.block => records[b].date = bundle.date

\* Whatever was fired was fired in a run whose record is on disk.
FiresRecorded ==
    \A e \in Lines : e.resolution_date = None => FireRuns(e.date) # {}

JobFiled ==
    job # None =>
        /\ job.phase = "record" =>
              /\ job.record.hashes["bundle_hash"] = bundle.block
              /\ job.record.date = bundle.date
        /\ \A e \in job.lines : e.resolution_date = None => e.date = bundle.date
        /\ job.phase # "record" => bundle.block \in RecordedBlocks

FiledInv == GateInv /\ RecordsFiled /\ FiresRecorded /\ JobFiled

NoticeInv == FiledInv /\ NoticesOnce /\ NoticesDistinct(Lines) /\ JobNotices

\* A resolution attributed to an artifact that differs from its fire run has its
\* evidence among the run's.
LEMMA Attested ==
    ASSUME TypeOK, NEW P, NEW e \in Resolutions(P), FireRuns(e.date) # {},
           NEW f \in Differing(e.date), e.resolution_type = ResolutionTypeOf[f]
    PROVE  \E x \in EvidenceOf(P) : Evidences(x, e)
  <1> DEFINE x == [key |-> Key(e), resolution_type |-> e.resolution_type,
                   resolution_date |-> e.resolution_date,
                   fire_value |-> records[FireRun(e.date)].hashes[FieldOf(e.resolution_type)],
                   resolution_value |-> Current[FieldOf(e.resolution_type)]]
  <1>1. x \in EvidenceOf(P)
    BY DEF EvidenceOf
  <1>2. f \in Fields /\ records[FireRun(e.date)].hashes[f] # Current[f]
    BY DEF Differing
  <1>3. FieldOf(e.resolution_type) = f
    <2>1. \A g, h \in Fields : ResolutionTypeOf[g] = ResolutionTypeOf[h] => g = h
      BY DEF Fields, Artifacts, ResolutionTypeOf
    <2>2. FieldOf(e.resolution_type) \in Fields
             /\ ResolutionTypeOf[FieldOf(e.resolution_type)] = e.resolution_type
      BY <1>2 DEF FieldOf
    <2> QED BY <1>2, <2>1, <2>2
  <1>4. Evidences(x, e)
    BY <1>2, <1>3 DEF Evidences
  <1> HIDE DEF x
  <1> QED BY <1>1, <1>4

LEMMA EvidenceForPlan ==
    ASSUME NEW P
    PROVE  EvidenceFor(P, EvidenceOf(P))
  BY DEF EvidenceFor, EvidenceOf

\* The settlement of S3 entries is evidenced by the template that changed.
LEMMA SettlementEvidenced ==
    ASSUME TypeOK, NEW P, NEW e \in Settlement, e \in P
    PROVE  \E x \in EvidenceOf(P) : Evidences(x, e)
  <1>1. PICK x \in OpenHeavy(Lines) :
           /\ FireRuns(x.date) # {} /\ "template_hash" \in Differing(x.date)
           /\ e = ResolutionLine(x, "template_change", bundle.date)
    BY DEF Settlement
  <1>2. x \in QuarantineEvent
    BY LinesType, OpenEntry DEF OpenHeavy
  <1>3. e.date = x.date /\ e.resolution_type = "template_change"
    BY <1>1, <1>2 DEF ResolutionLine, QuarantineEvent
  <1>4. e \in Resolutions(P)
    BY SettlementType DEF Resolutions
  <1>5. ResolutionTypeOf["template_hash"] = "template_change"
    BY DEF ResolutionTypeOf
  <1> QED BY <1>1, <1>3, <1>4, <1>5, Attested

\* So is what a green run resolves, by the first artifact that differs.
LEMMA GreenEvidenced ==
    ASSUME TypeOK, NEW L, L \subseteq QuarantineEvent, NEW P,
           NEW e \in PlanResolutions(L), e \in P
    PROVE  \E x \in EvidenceOf(P) : Evidences(x, e)
  <1>1. PICK x \in OpenHeavy(L) :
            /\ FireRuns(x.date) # {} /\ Differing(x.date) # {}
            /\ e = ResolutionLine(x,
                     ResolutionTypeOf[CHOOSE f \in Differing(x.date) :
                         \A g \in Differing(x.date) : EvidenceRank[f] <= EvidenceRank[g]],
                     bundle.date)
    BY DEF PlanResolutions
  <1> DEFINE f == CHOOSE f \in Differing(x.date) :
                     \A g \in Differing(x.date) : EvidenceRank[f] <= EvidenceRank[g]
  <1>2. f \in Differing(x.date)
    <2>1. Differing(x.date) \subseteq Fields
      BY DEF Differing
    <2> QED BY <1>1, <2>1, FirstByRank
  <1>3. e = ResolutionLine(x, ResolutionTypeOf[f], bundle.date)
    BY <1>1
  <1> HIDE DEF f
  <1>4. x \in QuarantineEvent
    BY OpenEntry DEF OpenHeavy
  <1>5. bundle.date \in Nat /\ ResolutionTypeOf[f] \in ResolutionTypes
    BY <1>2, ResolutionTypeOfType DEF TypeOK, Differing
  <1>6. /\ e.date = x.date /\ e.resolution_type = ResolutionTypeOf[f]
        /\ e.resolution_date # None
    BY <1>3, <1>4, <1>5, LogAssumption DEF ResolutionLine, QuarantineEvent
  <1>7. e \in Resolutions(P)
    BY <1>6 DEF Resolutions
  <1> QED BY <1>1, <1>2, <1>6, <1>7, Attested

\* Every pass keeps the evidence of what it resolves above Level 1.
LEMMA PassEvidenced ==
    ASSUME TypeOK, NEW in \in Input, NEW first, NEW seen, seen \subseteq FailingRow
    PROVE  LET p == Pass(in, first, seen)
           IN  Evidenced(p.lines, p.evidence) /\ EvidenceFor(p.lines, p.evidence)
  <1> DEFINE F       == Fired(FlagTriggers(in) \cup GateTriggers(in, seen))
             planned == PassLines(in, first, seen)
             p       == Pass(in, first, seen)
  <1>1. p.lines = planned /\ p.evidence = EvidenceOf(planned)
    BY DEF Pass
  <1>2. F \in SUBSET (Triggers \X Levels)
    BY FiredType, GateTriggerType, InputTriggersType DEF GateTriggers
  <1>3. planned \subseteq Noted(F) \cup PlanResolutions(Lines \cup Noted(F))
    BY DEF PassLines
  <1> HIDE DEF F, planned, p
  <1>4. ASSUME NEW e \in Resolutions(planned), e.level \in HeavyLevels
        PROVE  \E x \in EvidenceOf(planned) : Evidences(x, e)
    <2>1. e \in planned /\ e.resolution_date # None /\ e.level # 1
      BY <1>4 DEF Resolutions, HeavyLevels
    <2>2. CASE e \in Settlement
      BY <2>1, <2>2, SettlementEvidenced
    <2>3. CASE e \in Noted(F)
      <3>1. e \in Settlement
        BY <1>2, <2>1, <2>3, NotedLine
      <3> QED BY <2>2, <3>1
    <2>4. CASE e \in PlanResolutions(Lines \cup Noted(F))
      <3>1. Lines \cup Noted(F) \subseteq QuarantineEvent
        BY <1>2, LinesType, NotedLine
      <3> QED BY <2>1, <2>4, <3>1, GreenEvidenced
    <2> QED BY <1>3, <2>1, <2>3, <2>4
  <1>5. Evidenced(planned, EvidenceOf(planned))
    BY <1>4 DEF Evidenced
  <1> QED BY <1>1, <1>5, EvidenceForPlan DEF p

\* Evidence of lines still to be written takes the place of none that the log needs.
LEMMA SupersedeKeeps ==
    ASSUME NEW E, NEW N, NEW Q, Closes(Q), EvidenceFor(Q, N), Evidenced(Q, N),
           Evidenced(Lines, E)
    PROVE  Evidenced(Lines \cup Q, Supersede(E, N))
  <1> SUFFICES ASSUME NEW e \in Resolutions(Lines \cup Q), e.level \in HeavyLevels
               PROVE  \E x \in Supersede(E, N) : Evidences(x, e)
    BY DEF Evidenced
  <1>1. CASE e \in Resolutions(Q)
    BY <1>1 DEF Evidenced, Supersede
  <1>2. CASE e \in Resolutions(Lines)
    <2>1. PICK x \in E : Evidences(x, e)
      BY <1>2 DEF Evidenced
    <2>2. ASSUME NEW y \in N, SameResolution(x, y) PROVE FALSE
      <3>1. PICK q \in Resolutions(Q) : y.key = Key(q)
        BY <2>2 DEF EvidenceFor
      <3>2. Key(q) = Key(e)
        BY <2>1, <2>2, <3>1 DEF SameResolution, Evidences
      <3> QED BY <1>2, <3>1, <3>2 DEF Closes, Keys
    <2> QED BY <2>1, <2>2 DEF Supersede
  <1> QED BY <1>1, <1>2 DEF Resolutions

\* What the stage hands to its writes is evidenced, as long as it renders a page.
LEMMA ReportEvidenced ==
    ASSUME TypeOK, WellFormed(Lines), NEW in \in Inputs, in.ok, Report(in), job' # None
    PROVE  /\ job'.phase = "record"
           /\ Evidenced(job'.lines, job'.evidence)
           /\ EvidenceFor(job'.lines, job'.evidence)
  <1>1. in \in Input
    BY GateAssumption
  <1>2. /\ Settle(in).stable /\ job'.phase = "record"
        /\ job'.lines = Settle(in).lines /\ job'.evidence = Settle(in).evidence
    BY DEF Report
  <1>3. ~Unstable.stable
    BY DEF Unstable
  <1>4. PICK seen \in SUBSET FailingRow : Settle(in) = Settled(Pass(in, FALSE, seen))
    BY <1>1, <1>2, <1>3, SettledPass
  <1>5. /\ job'.lines = Pass(in, FALSE, seen).lines
        /\ job'.evidence = Pass(in, FALSE, seen).evidence
    BY <1>2, <1>4 DEF Settled
  <1> QED BY <1>1, <1>2, <1>5, PassEvidenced

LEMMA EvidenceInvStep ==
    ASSUME \A in \in Inputs : in.ok, EvidenceInv, [Next]_vars
    PROVE  EvidenceInv'
  <1>1. GateInv /\ GateInv' /\ TypeOK /\ WellFormed(Lines)
    BY GateInvStep DEF EvidenceInv, GateInv
  <1>2. job # None => job \in Job
    BY <1>1 DEF TypeOK
  <1>3. CASE log' = log /\ job' = None /\ evidence' = evidence
    <2>1. Lines' = Lines
      BY <1>3, LogKept
    <2> QED BY <1>1, <1>3, <2>1 DEF EvidenceInv, JobEvidenced, Evidenced, Resolutions
  <1>4. ASSUME NEW in \in Inputs, Report(in) PROVE EvidenceInv'
    <2>1. log' = log /\ evidence' = evidence
      BY <1>4 DEF Report
    <2>2. Lines' = Lines
      BY <2>1, LogKept
    <2>3. JobEvidenced'
      <3>1. in.ok
        OBVIOUS
      <3> QED BY <1>1, <1>4, <3>1, ReportEvidenced DEF JobEvidenced
    <2> QED BY <1>1, <2>1, <2>2, <2>3 DEF EvidenceInv, Evidenced, Resolutions
  <1>5. CASE WriteRecord
    <2>1. /\ job # None /\ job.phase = "record" /\ log' = log /\ evidence' = evidence
          /\ job' = [job EXCEPT !.phase = "evidence"]
      BY <1>5 DEF WriteRecord
    <2>2. /\ job'.phase = "evidence" /\ job'.lines = job.lines
          /\ job'.evidence = job.evidence
      BY <1>2, <2>1 DEF Job
    <2>3. Lines' = Lines
      BY <2>1, LogKept
    <2> QED BY <1>1, <2>1, <2>2, <2>3 DEF EvidenceInv, JobEvidenced, Evidenced, EvidenceFor
  <1>6. CASE WriteEvidence
    <2>1. /\ job # None /\ job.phase = "evidence" /\ log' = log
          /\ evidence' = Supersede(evidence, job.evidence)
          /\ job' = [job EXCEPT !.phase = "log"]
      BY <1>6 DEF WriteEvidence
    <2>2. job'.phase = "log" /\ job'.lines = job.lines
      BY <1>2, <2>1 DEF Job
    <2>3. Lines' = Lines
      BY <2>1, LogKept
    <2>4. Closes(job.lines)
      BY <1>1, <2>1 DEF GateInv, JobPlanned, Planned
    <2>5. Evidenced(Lines \cup job.lines, evidence')
      BY <2>1, <2>4, SupersedeKeeps DEF EvidenceInv, JobEvidenced
    <2>6. Evidenced(Lines, evidence') /\ Evidenced(job.lines, evidence')
      BY <2>5 DEF Evidenced, Resolutions
    <2> QED BY <1>1, <2>2, <2>3, <2>6 DEF EvidenceInv, JobEvidenced, Evidenced
  <1>7. ASSUME NEW e \in job.lines, job # None, AppendLine(e) PROVE EvidenceInv'
    <2>1. /\ job.phase = "log" /\ log' = Append(log, e) /\ evidence' = evidence
          /\ job' = [job EXCEPT !.lines = @ \ {e}]
      BY <1>7 DEF AppendLine
    <2>2. job'.phase = "log" /\ job'.lines = job.lines \ {e} /\ e \in QuarantineEvent
      BY <1>2, <1>7, <2>1 DEF Job
    <2>3. Lines' = Lines \cup {e}
      BY <1>1, <2>1, <2>2, AppendedLine
    <2>4. Evidenced(Lines, evidence) /\ Evidenced(job.lines, evidence)
      BY <1>7, <2>1 DEF EvidenceInv, JobEvidenced
    <2>5. Evidenced(Lines \cup {e}, evidence) /\ Evidenced(job.lines \ {e}, evidence)
      BY <1>7, <2>4 DEF Evidenced, Resolutions
    <2>6. Evidenced(Lines, evidence)' /\ JobEvidenced'
      BY <2>1, <2>2, <2>3, <2>5 DEF Evidenced, JobEvidenced, Resolutions
    <2> QED BY <1>1, <2>6 DEF EvidenceInv
  <1>8. CASE AppendPublished
    <2>1. /\ job # None /\ job' = [job EXCEPT !.phase = "remove"] /\ evidence' = evidence
          /\ log' = Append(log, PublishedLine(bundle.date, bundle.block))
      BY <1>8 DEF AppendPublished
    <2>2. Lines' = Lines /\ job'.phase = "remove"
      BY <1>1, <1>2, <2>1, AppendedPublished DEF Job
    <2> QED BY <1>1, <2>1, <2>2 DEF EvidenceInv, JobEvidenced, Evidenced
  <1>9. CASE RemovePage
    <2>1. /\ job # None /\ job' = [job EXCEPT !.phase = "copy"] /\ evidence' = evidence
          /\ log' = log
      BY <1>9 DEF RemovePage
    <2>2. Lines' = Lines /\ job'.phase = "copy"
      BY <1>2, <2>1, LogKept DEF Job
    <2> QED BY <1>1, <2>1, <2>2 DEF EvidenceInv, JobEvidenced, Evidenced
  <1>10. CASE \/ \E f \in Editable : Edit(f)
              \/ \E date \in 1..MaxDate : NewBundle(date)
              \/ CopyPage \/ EndUnpublished \/ Crash
    BY <1>3, <1>10 DEF Edit, NewBundle, CopyPage, EndUnpublished, Crash
  <1>11. CASE UNCHANGED vars
    <2>1. log' = log /\ evidence' = evidence /\ job' = job
      BY <1>11 DEF vars
    <2>2. Lines' = Lines
      BY <2>1, LogKept
    <2> QED BY <1>1, <2>1, <2>2 DEF EvidenceInv, JobEvidenced, Evidenced, EvidenceFor
  <1>12. ASSUME NEW e \in (IF job = None THEN {} ELSE job.lines), AppendLine(e)
         PROVE  EvidenceInv'
    BY <1>7, <1>12
  <1> QED BY <1>4, <1>5, <1>6, <1>8, <1>9, <1>10, <1>11, <1>12 DEF Next

LEMMA EvidenceInvInit == Init => EvidenceInv
  <1> SUFFICES ASSUME Init PROVE EvidenceInv
    OBVIOUS
  <1>1. Lines = {} /\ job = None
    BY DEF Init, Lines, QuarantineLines, QuarantineIdx
  <1> QED BY <1>1, GateInvInit DEF EvidenceInv, JobEvidenced, Evidenced, Resolutions

\* As long as every run renders its page (the S2 rows pass), each resolution line of a
\* Level 2/3 entry has its evidence on disk, and the evidence shows a value that
\* changed, however runs are stopped and run again.
THEOREM ResolutionsAreEvidenced ==
    ASSUME \A in \in Inputs : in.ok
    PROVE  Spec => []HeavyEvidenced
  <1>1. Init => EvidenceInv
    BY EvidenceInvInit
  <1>2. EvidenceInv /\ [Next]_vars => EvidenceInv'
    BY EvidenceInvStep
  <1>3. EvidenceInv => HeavyEvidenced
    BY DEF EvidenceInv, Evidenced, HeavyEvidenced, Lines, QuarantineLines, Resolutions
  <1> QED BY <1>1, <1>2, <1>3, PTL DEF Spec
-------------------------------------------------------------------------------
(***************************************************************************)
(* The records of the runs.                                                *)
(***************************************************************************)
\* A fire line is dated today, and a notice is fired only when none of its trigger
\* is open.
LEMMA NotedFire ==
    ASSUME TypeOK, NEW F \in SUBSET (Triggers \X Levels), NEW e \in Noted(F),
           e.resolution_date = None
    PROVE  /\ e.date = bundle.date
           /\ e.level = 1 => \A x \in Notices(Lines) : x.trigger # e.trigger
  <1> DEFINE L == Lines \cup Settlement
  <1>1. e \notin Settlement
    BY SettlementType
  <1>2. e \notin ClearedNotices(L, bundle.date, F)
    <2> SUFFICES ASSUME NEW x \in OpenEntries(L),
                        e = ResolutionLine(x, "data_correction", bundle.date)
                 PROVE  FALSE
      BY DEF ClearedNotices
    <2>1. x \in QuarantineEvent /\ bundle.date \in Nat
      BY OpenEntry, LinesType, SettlementType DEF TypeOK
    <2>2. "data_correction" \in ResolutionTypes
      BY DEF ResolutionTypes
    <2> QED BY <2>1, <2>2, ResolutionLineType, LogAssumption
  <1>3. e \in PlannedFires(L, bundle.date, F)
    BY <1>1, <1>2 DEF Noted, PlanQuarantine
  <1>4. PICK f \in F : /\ e = FireLine(bundle.date, f[1], f[2])
                       /\ f[2] = 1 => \A x \in OpenEntries(L) : ~(x.trigger = f[1] /\ x.level = 1)
    BY <1>3 DEF PlannedFires
  <1>5. e.date = bundle.date /\ e.trigger = f[1] /\ e.level = f[2]
    BY <1>4 DEF FireLine
  <1>6. \A x \in Notices(Lines) : x \in OpenEntries(L) /\ x.level = 1
    <2> SUFFICES ASSUME NEW x \in OpenEntries(Lines), x.level = 1
                 PROVE  x \in OpenEntries(L)
      BY DEF Notices
    <2>1. x \in Lines /\ x.resolution_date = None
          /\ \A r \in Resolutions(Lines) : Key(r) # Key(x)
      BY DEF OpenEntries, Resolutions
    <2>2. \A r \in Settlement : Key(r) # Key(x)
      <3> SUFFICES ASSUME NEW r \in Settlement, Key(r) = Key(x)
                   PROVE  FALSE
        OBVIOUS
      <3>1. r.level = x.level
        BY DEF Key
      <3> QED BY <3>1, SettlementType DEF HeavyLevels
    <2> QED BY <2>1, <2>2 DEF OpenEntries, Resolutions
  <1> QED BY <1>4, <1>5, <1>6

\* The pairs a pass fires.
FiredBy(in, seen) == Fired(FlagTriggers(in) \cup GateTriggers(in, seen))

LEMMA FiredByType ==
    ASSUME NEW in \in Input, NEW seen, seen \subseteq FailingRow
    PROVE  FiredBy(in, seen) \in SUBSET (Triggers \X Levels)
  BY FiredType, GateTriggerType, InputTriggersType DEF GateTriggers, FiredBy

\* What is planned of a pass beyond what it notes are resolutions above Level 1.
LEMMA PassLine ==
    ASSUME TypeOK, NEW in \in Input, NEW first, NEW seen, seen \subseteq FailingRow,
           NEW e \in PassLines(in, first, seen)
    PROVE  \/ e \in Noted(FiredBy(in, seen))
           \/ /\ e \in PlanResolutions(Lines \cup Noted(FiredBy(in, seen)))
              /\ e.resolution_date # None /\ e.level \in HeavyLevels
  <1> DEFINE F == FiredBy(in, seen)
  <1>1. F \in SUBSET (Triggers \X Levels)
    BY FiredByType
  <1>2. \/ e \in Noted(F)
        \/ e \in PlanResolutions(Lines \cup Noted(F)) /\ Green(in, first, seen)
    BY DEF PassLines, FiredBy
  <1>3. Green(in, first, seen) => \A f \in F : f[2] = 1
    BY FlagsAreNotices DEF FiredBy, Fired, FlagTriggers, Green, Input
  <1> HIDE DEF F
  <1>4. CASE e \in PlanResolutions(Lines \cup Noted(F)) /\ Green(in, first, seen)
    <2>1. \A f \in F : f[2] = 1
      BY <1>3, <1>4
    <2>2. e.resolution_date # None /\ e.level \in HeavyLevels
      BY <1>1, <1>4, <2>1, GreenLine
    <2> QED BY <1>4, <2>2 DEF F
  <1> QED BY <1>2, <1>4 DEF F

\* The lines a stage decides on, whether or not it renders a page.
LEMMA ReportedLine ==
    ASSUME TypeOK, WellFormed(Lines), NEW in \in Inputs, Report(in), job' # None,
           NEW e \in job'.lines, e.resolution_date = None
    PROVE  /\ e.date = bundle.date
           /\ e.level = 1 => \A x \in Notices(Lines) : x.trigger # e.trigger
  <1>1. in \in Input
    BY GateAssumption
  <1>2. CASE in.ok
    <2>1. Settle(in).stable /\ job'.lines = Settle(in).lines
      BY <1>2 DEF Report
    <2>2. ~Unstable.stable
      BY DEF Unstable
    <2>3. PICK seen \in SUBSET FailingRow : Settle(in) = Settled(Pass(in, FALSE, seen))
      BY <1>1, <2>1, <2>2, SettledPass
    <2>4. e \in PassLines(in, FALSE, seen)
      <3>1. Pass(in, FALSE, seen).lines = PassLines(in, FALSE, seen)
        BY DEF Pass
      <3>2. Settle(in).lines = Pass(in, FALSE, seen).lines
        BY <2>3 DEF Settled
      <3> QED BY <2>1, <3>1, <3>2
    <2>5. e \in Noted(FiredBy(in, seen))
      BY <1>1, <2>4, PassLine
    <2> QED BY <1>1, <2>5, FiredByType, NotedFire
  <1>3. CASE ~in.ok
    <2>1. job'.lines = Noted(FiredBy(in, {}))
      BY <1>3 DEF Report, Unrendered, FiredBy
    <2> QED BY <1>1, <2>1, FiredByType, NotedFire
  <1> QED BY <1>2, <1>3

\* What a stage writes as its record.
LEMMA ReportedRecord ==
    ASSUME TypeOK, NEW in \in Inputs, Report(in), job' # None
    PROVE  /\ job'.phase = "record"
           /\ job'.record.hashes["bundle_hash"] = bundle.block
           /\ job'.record.date = bundle.date
  <1>1. job'.phase = "record" /\ job'.record.date = bundle.date
        /\ job'.record.hashes = Current
    BY DEF Report
  <1>2. Current["bundle_hash"] = bundle.block
    BY DEF Current, Fields
  <1> QED BY <1>1, <1>2

\* A record written over an earlier one of the same bundle leaves every date its run.
LEMMA RecordedRuns ==
    ASSUME GateInv, RecordsFiled, job # None, job.phase = "record",
           job.record.date = bundle.date,
           records' = [records EXCEPT ![bundle.block] = job.record]
    PROVE  /\ RecordedBlocks' = RecordedBlocks \cup {bundle.block}
           /\ \A date : FireRuns(date) \subseteq FireRuns(date)'
  <1>1. /\ job \in Job /\ bundle.block \in 1..MaxBlock
        /\ records \in [1..MaxBlock -> Record \cup {None}]
    BY DEF GateInv, TypeOK
  <1>2. job.record # None
    <2>1. job.record \in Record
      BY <1>1 DEF Job
    <2> QED BY <2>1, RecordAssumption
  <1>3. RecordedBlocks' = RecordedBlocks \cup {bundle.block}
    BY <1>1, <1>2 DEF RecordedBlocks
  <1>4. \A b \in RecordedBlocks : records'[b].date = records[b].date
    BY <1>1 DEF RecordsFiled, RecordedBlocks
  <1> QED BY <1>3, <1>4 DEF FireRuns

LEMMA FiledInvStep ==
    ASSUME FiledInv, [Next]_vars
    PROVE  FiledInv'
  <1>1. GateInv /\ GateInv' /\ TypeOK /\ WellFormed(Lines)
    BY GateInvStep DEF FiledInv, GateInv
  <1>2. /\ job # None => job \in Job
        /\ bundle.block \in 1..MaxBlock /\ bundle.block \in Nat
        /\ RecordedBlocks \subseteq Nat
    BY <1>1, GateAssumption DEF TypeOK, RecordedBlocks
  <1>3. CASE /\ log' = log /\ records' = records /\ bundle' = bundle
             /\ job' \in {None, job}
    <2>1. Lines' = Lines /\ RecordedBlocks' = RecordedBlocks
      BY <1>3, LogKept DEF RecordedBlocks
    <2>2. \A date : FireRuns(date)' = FireRuns(date)
      BY <1>3, <2>1 DEF FireRuns
    <2>3. RecordsFiled' /\ FiresRecorded'
      BY <1>3, <2>1, <2>2 DEF FiledInv, RecordsFiled, FiresRecorded
    <2>4. JobFiled'
      BY <1>3, <2>1 DEF FiledInv, JobFiled
    <2> QED BY <1>1, <2>3, <2>4 DEF FiledInv
  <1>4. ASSUME NEW date \in 1..MaxDate, NewBundle(date) PROVE FiledInv'
    <2>1. /\ log' = log /\ records' = records /\ job' = None
          /\ bundle'.block = bundle.block + 1
      BY <1>4 DEF NewBundle
    <2>2. Lines' = Lines /\ RecordedBlocks' = RecordedBlocks
      BY <2>1, LogKept DEF RecordedBlocks
    <2>3. \A d : FireRuns(d)' = FireRuns(d)
      BY <2>1, <2>2 DEF FireRuns
    <2>4. RecordsFiled'
      BY <1>2, <2>1, <2>2 DEF FiledInv, RecordsFiled
    <2>5. FiresRecorded' /\ JobFiled'
      BY <2>1, <2>2, <2>3 DEF FiledInv, FiresRecorded, JobFiled
    <2> QED BY <1>1, <2>4, <2>5 DEF FiledInv
  <1>5. ASSUME NEW in \in Inputs, Report(in) PROVE FiledInv'
    <2>1. log' = log /\ records' = records /\ bundle' = bundle
      BY <1>5 DEF Report
    <2>2. Lines' = Lines /\ RecordedBlocks' = RecordedBlocks
      BY <2>1, LogKept DEF RecordedBlocks
    <2>3. \A date : FireRuns(date)' = FireRuns(date)
      BY <2>1, <2>2 DEF FireRuns
    <2>4. RecordsFiled' /\ FiresRecorded'
      BY <2>1, <2>2, <2>3 DEF FiledInv, RecordsFiled, FiresRecorded
    <2>5. JobFiled'
      BY <1>1, <1>5, <2>1, ReportedRecord, ReportedLine DEF JobFiled
    <2> QED BY <1>1, <2>4, <2>5 DEF FiledInv
  <1>6. CASE WriteRecord
    <2>1. /\ job # None /\ job.phase = "record" /\ log' = log /\ bundle' = bundle
          /\ records' = [records EXCEPT ![bundle.block] = job.record]
          /\ job' = [job EXCEPT !.phase = "evidence"]
      BY <1>6 DEF WriteRecord
    <2>2. job'.phase = "evidence" /\ job'.lines = job.lines
      BY <1>2, <2>1 DEF Job
    <2>3. /\ job.record.hashes["bundle_hash"] = bundle.block
          /\ job.record.date = bundle.date
          /\ \A e \in job.lines : e.resolution_date = None => e.date = bundle.date
      BY <2>1 DEF FiledInv, JobFiled
    <2>4. /\ RecordedBlocks' = RecordedBlocks \cup {bundle.block}
          /\ \A date : FireRuns(date) \subseteq FireRuns(date)'
      BY <1>1, <2>1, <2>3, RecordedRuns DEF FiledInv
    <2>5. Lines' = Lines
      BY <2>1, LogKept
    <2>6. RecordsFiled'
      <3> SUFFICES ASSUME NEW b \in RecordedBlocks'
                   PROVE  /\ b <= bundle.block
                          /\ records'[b].hashes["bundle_hash"] = b
                          /\ b = bundle.block => records'[b].date = bundle.date
        BY <2>1 DEF RecordsFiled
      <3>1. records \in [1..MaxBlock -> Record \cup {None}]
        BY <1>1 DEF TypeOK
      <3>2. CASE b = bundle.block
        BY <1>2, <2>1, <2>3, <3>1, <3>2
      <3>3. CASE b # bundle.block
        <4>1. b \in RecordedBlocks /\ records'[b] = records[b]
          BY <2>1, <2>4, <3>1, <3>3 DEF RecordedBlocks
        <4> QED BY <3>3, <4>1 DEF FiledInv, RecordsFiled
      <3> QED BY <3>2, <3>3
    <2>7. FiresRecorded'
      BY <2>4, <2>5 DEF FiledInv, FiresRecorded
    <2>8. JobFiled'
      BY <2>1, <2>2, <2>3, <2>4 DEF JobFiled
    <2> QED BY <1>1, <2>6, <2>7, <2>8 DEF FiledInv
  <1>7. CASE WriteEvidence \/ RemovePage
    <2>1. /\ job # None /\ job.phase # "record" /\ log' = log /\ bundle' = bundle
          /\ records' = records
          /\ \E p \in {"log", "copy"} : job' = [job EXCEPT !.phase = p]
      BY <1>7 DEF WriteEvidence, RemovePage
    <2>2. job'.phase # "record" /\ job'.lines = job.lines
      BY <1>2, <2>1 DEF Job
    <2>3. Lines' = Lines /\ RecordedBlocks' = RecordedBlocks
      BY <2>1, LogKept DEF RecordedBlocks
    <2>4. \A date : FireRuns(date)' = FireRuns(date)
      BY <2>1, <2>3 DEF FireRuns
    <2> QED BY <1>1, <2>1, <2>2, <2>3, <2>4
            DEF FiledInv, RecordsFiled, FiresRecorded, JobFiled
  <1>8. ASSUME NEW e \in job.lines, job # None, AppendLine(e) PROVE FiledInv'
    <2>1. /\ job.phase = "log" /\ log' = Append(log, e) /\ bundle' = bundle
          /\ records' = records /\ job' = [job EXCEPT !.lines = @ \ {e}]
      BY <1>8 DEF AppendLine
    <2>2. job'.phase = "log" /\ job'.lines = job.lines \ {e} /\ e \in QuarantineEvent
      BY <1>2, <1>8, <2>1 DEF Job
    <2>3. Lines' = Lines \cup {e} /\ RecordedBlocks' = RecordedBlocks
      BY <1>1, <2>1, <2>2, AppendedLine DEF RecordedBlocks
    <2>4. \A date : FireRuns(date)' = FireRuns(date)
      BY <2>1, <2>3 DEF FireRuns
    <2>5. bundle.block \in FireRuns(bundle.date)
      BY <1>8, <2>1 DEF FiledInv, JobFiled, RecordsFiled, FireRuns
    <2>6. e.resolution_date = None => FireRuns(e.date) # {}
      BY <1>8, <2>5 DEF FiledInv, JobFiled
    <2>7. RecordsFiled' /\ FiresRecorded'
      BY <2>1, <2>3, <2>4, <2>6 DEF FiledInv, RecordsFiled, FiresRecorded
    <2>8. JobFiled'
      BY <1>8, <2>1, <2>2, <2>3 DEF FiledInv, JobFiled
    <2> QED BY <1>1, <2>7, <2>8 DEF FiledInv
  <1>9. CASE AppendPublished
    <2>1. /\ job # None /\ job.phase = "log" /\ bundle' = bundle /\ records' = records
          /\ job' = [job EXCEPT !.phase = "remove"]
          /\ log' = Append(log, PublishedLine(bundle.date, bundle.block))
      BY <1>9 DEF AppendPublished
    <2>2. job'.phase = "remove" /\ job'.lines = job.lines
      BY <1>2, <2>1 DEF Job
    <2>3. Lines' = Lines /\ RecordedBlocks' = RecordedBlocks
      BY <1>1, <2>1, AppendedPublished DEF RecordedBlocks
    <2>4. \A date : FireRuns(date)' = FireRuns(date)
      BY <2>1, <2>3 DEF FireRuns
    <2> QED BY <1>1, <2>1, <2>2, <2>3, <2>4
            DEF FiledInv, RecordsFiled, FiresRecorded, JobFiled
  <1>10. CASE \/ \E f \in Editable : Edit(f)
              \/ CopyPage \/ EndUnpublished \/ Crash \/ UNCHANGED vars
    BY <1>3, <1>10 DEF Edit, CopyPage, EndUnpublished, Crash, vars
  <1>11. ASSUME NEW e \in (IF job = None THEN {} ELSE job.lines), AppendLine(e)
         PROVE  FiledInv'
    BY <1>8, <1>11
  <1> QED BY <1>4, <1>5, <1>6, <1>7, <1>9, <1>10, <1>11 DEF Next

LEMMA FiledInvInit == Init => FiledInv
  <1> SUFFICES ASSUME Init PROVE FiledInv
    OBVIOUS
  <1>1. Lines = {} /\ RecordedBlocks = {} /\ job = None
    BY DEF Init, Lines, QuarantineLines, QuarantineIdx, RecordedBlocks
  <1> QED BY <1>1, GateInvInit DEF FiledInv, RecordsFiled, FiresRecorded, JobFiled
-------------------------------------------------------------------------------
(***************************************************************************)
(* What a pass plans is finite, so that its entries may be counted.        *)
(***************************************************************************)
LEMMA FiniteImage ==
    ASSUME NEW S, IsFiniteSet(S), NEW f, NEW T, \A y \in T : \E x \in S : y = f[x]
    PROVE  IsFiniteSet(T)
  <1> DEFINE g == [x \in S |-> f[x]]
             R == {g[x] : x \in S}
  <1>1. g \in Surjection(S, R)
    BY DEF Surjection
  <1> HIDE DEF R
  <1>2. IsFiniteSet(R)
    <2> HIDE DEF g
    <2> QED BY <1>1, FS_Surjection
  <1>3. T \in SUBSET R
    BY DEF R
  <1> QED BY <1>2, <1>3, FS_Subset

LEMMA LinesFinite ==
    ASSUME TypeOK
    PROVE  IsFiniteSet(Lines) /\ IsFiniteSet(QuarantineIdx(log))
  <1>1. log \in Seq(Event) /\ DOMAIN log = 1..Len(log) /\ Len(log) \in Nat
    BY DEF TypeOK
  <1>2. IsFiniteSet(1..Len(log))
    BY <1>1, FS_Interval
  <1>3. QuarantineIdx(log) \in SUBSET (1..Len(log))
    BY <1>1 DEF QuarantineIdx
  <1>4. IsFiniteSet(QuarantineIdx(log))
    BY <1>2, <1>3, FS_Subset
  <1>5. \A e \in Lines : \E i \in QuarantineIdx(log) : e = log[i]
    BY DEF Lines, QuarantineLines
  <1> QED BY <1>4, <1>5, FiniteImage

LEMMA NotedFinite ==
    ASSUME TypeOK, NEW F \in SUBSET (Triggers \X Levels)
    PROVE  IsFiniteSet(Noted(F))
  <1>1. IsFiniteSet(Lines)
    BY LinesFinite
  <1>2. IsFiniteSet(Settlement)
    <2>1. OpenHeavy(Lines) \in SUBSET Lines
      BY DEF OpenHeavy, OpenEntries
    <2>2. IsFiniteSet(OpenHeavy(Lines))
      BY <1>1, <2>1, FS_Subset
    <2> DEFINE f == [x \in OpenHeavy(Lines) |-> ResolutionLine(x, "template_change", bundle.date)]
    <2>3. \A y \in Settlement : \E x \in OpenHeavy(Lines) : y = f[x]
      BY SettlementLine
    <2> HIDE DEF f
    <2> QED BY <2>2, <2>3, FiniteImage
  <1> DEFINE L == Lines \cup Settlement
  <1>3. IsFiniteSet(L)
    BY <1>1, <1>2, FS_Union
  <1>4. IsFiniteSet(PlannedFires(L, bundle.date, F))
    <2>1. IsFiniteSet(Triggers \X Levels)
      <3>1. IsFiniteSet(Levels)
        <4>1. Levels = {1, 2, 3}
          BY DEF Levels
        <4>2. IsFiniteSet({1, 2, 3})
          <5>1. IsFiniteSet({1})
            BY FS_Singleton
          <5>2. IsFiniteSet({1} \cup {2})
            BY <5>1, FS_AddElement
          <5>3. IsFiniteSet(({1} \cup {2}) \cup {3})
            BY <5>2, FS_AddElement
          <5>4. {1, 2, 3} = ({1} \cup {2}) \cup {3}
            OBVIOUS
          <5> QED BY <5>3, <5>4
        <4> QED BY <4>1, <4>2
      <3> QED BY <3>1, LogAssumption, FS_Product
    <2>2. IsFiniteSet(F)
      BY <2>1, FS_Subset
    <2> DEFINE f == [x \in F |-> FireLine(bundle.date, x[1], x[2])]
    <2>3. \A y \in PlannedFires(L, bundle.date, F) : \E x \in F : y = f[x]
      BY DEF PlannedFires
    <2> HIDE DEF f
    <2> QED BY <2>2, <2>3, FiniteImage
  <1>5. IsFiniteSet(ClearedNotices(L, bundle.date, F))
    <2> DEFINE f == [x \in L |-> ResolutionLine(x, "data_correction", bundle.date)]
    <2>1. \A y \in ClearedNotices(L, bundle.date, F) : \E x \in L : y = f[x]
      BY DEF ClearedNotices, OpenEntries
    <2> HIDE DEF f, L
    <2> QED BY <1>3, <2>1, FiniteImage
  <1>6. Noted(F) = Settlement \cup (PlannedFires(L, bundle.date, F)
                                       \cup ClearedNotices(L, bundle.date, F))
    BY DEF Noted, PlanQuarantine
  <1> HIDE DEF L
  <1>7. IsFiniteSet(PlannedFires(L, bundle.date, F) \cup ClearedNotices(L, bundle.date, F))
    BY <1>4, <1>5, FS_Union
  <1> QED BY <1>2, <1>6, <1>7, FS_Union

LEMMA PassFinite ==
    ASSUME TypeOK, NEW in \in Input, NEW first, NEW seen, seen \subseteq FailingRow
    PROVE  IsFiniteSet(Lines \cup PassLines(in, first, seen))
  <1> DEFINE N == Noted(FiredBy(in, seen))
             R == {e \in PlanResolutions(Lines \cup N) : Green(in, first, seen)}
  <1>1. IsFiniteSet(N) /\ IsFiniteSet(Lines)
    BY FiredByType, NotedFinite, LinesFinite
  <1>2. PassLines(in, first, seen) = N \cup R
    BY DEF PassLines, FiredBy
  <1>3. IsFiniteSet(R)
    <2> DEFINE L == Lines \cup N
               f == [x \in L |-> ResolutionLine(x, Attributed(x.date), bundle.date)]
    <2>1. IsFiniteSet(L)
      BY <1>1, FS_Union
    <2>2. \A y \in R : \E x \in L : y = f[x]
      BY DEF PlanResolutions, OpenHeavy, OpenEntries, Attributed
    <2> HIDE DEF f, L, R
    <2> QED BY <2>1, <2>2, FiniteImage
  <1> HIDE DEF N, R
  <1>4. IsFiniteSet(N \cup R)
    BY <1>1, <1>3, FS_Union
  <1> QED BY <1>1, <1>2, <1>4, FS_Union

(***************************************************************************)
(* The notices on the page.                                                *)
(***************************************************************************)
\* A pass clears the notices that are fired no more, and DET-60 holds it to one open
\* entry for each of the others.
LEMMA PassNotices ==
    ASSUME TypeOK, NEW in \in Input, NEW first, NEW seen, seen \subseteq FailingRow,
           Bad("DET-60", "fail") \notin Pass(in, first, seen).failing
    PROVE  OneNoticeEach(Lines \cup Pass(in, first, seen).lines,
                         Fired(Pass(in, first, seen).triggers))
  <1> DEFINE T       == FlagTriggers(in) \cup GateTriggers(in, seen)
             F       == FiredBy(in, seen)
             planned == PassLines(in, first, seen)
             after   == Lines \cup planned
  <1>1. /\ Pass(in, first, seen).lines = planned
        /\ Pass(in, first, seen).triggers = T
        /\ Pass(in, first, seen).failing = S3Failing(in, T, planned)
    BY DEF Pass
  <1>2. F \in SUBSET (Triggers \X Levels) /\ F = Fired(T)
    BY FiredByType DEF FiredBy
  <1>3. Noted(F) \subseteq planned
    BY DEF PassLines, FiredBy
  <1>4. \A f \in F : EntryCount(planned, f) = 1
    <2> HIDE DEF T, planned
    <2>1. ~(\E f \in Fired(T) : EntryCount(planned, f) # 1)
      BY <1>1, Zenon DEF S3Failing
    <2> QED BY <1>2, <2>1
  <1>5. IsFiniteSet(after)
    BY PassFinite
  <1>6. \A e \in planned : e \in Noted(F) \/ e.resolution_date # None
    BY PassLine
  <1> HIDE DEF T, F, planned
  <1>7. ASSUME NEW e \in Notices(after) PROVE <<e.trigger, 1>> \in F
    <2>1. /\ e \in after /\ e.level = 1 /\ e.resolution_date = None
          /\ Key(e) \notin Keys(Resolutions(after))
      BY OpenEntry DEF Notices
    <2>2. CASE e \in planned
      <3>1. e \in Noted(F) /\ e \notin Settlement
        BY <1>6, <2>1, <2>2, SettlementType
      <3> QED BY <1>2, <2>1, <3>1, NotedLine
    <2>3. CASE e \in Lines /\ <<e.trigger, 1>> \notin F
      <3> DEFINE L == Lines \cup Settlement
                 r == ResolutionLine(e, "data_correction", bundle.date)
      <3>1. e \in OpenEntries(L)
        <4>1. Settlement \subseteq Noted(F)
          BY DEF Noted
        <4> QED BY <1>3, <2>1, <2>3, <4>1 DEF OpenEntries, Resolutions, Keys
      <3>2. r \in ClearedNotices(L, bundle.date, F)
        BY <2>1, <2>3, <3>1 DEF ClearedNotices
      <3>3. r \in after
        BY <1>3, <3>2 DEF Noted, PlanQuarantine
      <3>4. Key(r) = Key(e) /\ r.resolution_date # None
        <4>1. e \in QuarantineEvent /\ bundle.date \in Nat /\ "data_correction" \in ResolutionTypes
          BY <2>3, LinesType DEF TypeOK, ResolutionTypes
        <4> QED BY <4>1, ResolutionLineType, LogAssumption
      <3> HIDE DEF r
      <3> QED BY <2>1, <3>3, <3>4 DEF Keys, Resolutions
    <2> QED BY <2>1, <2>2, <2>3
  <1>8. ASSUME NEW f \in F, f[2] = 1
        PROVE  /\ \E e \in Notices(after) : e.trigger = f[1]
               /\ \A d, e \in Notices(after) : d.trigger = f[1] /\ e.trigger = f[1] => d = e
    <2> DEFINE S == {e \in OpenEntries(after) : e.trigger = f[1] /\ e.level = 1}
    <2>1. Cardinality(S) = 1
      BY <1>4, <1>8 DEF EntryCount
    <2>2. S \in SUBSET after
      BY DEF OpenEntries
    <2>3. IsFiniteSet(S)
      <3> HIDE DEF S, after
      <3> QED BY <1>5, <2>2, FS_Subset
    <2>4. \E x : S = {x}
      <3> HIDE DEF S
      <3> QED BY <2>1, <2>3, FS_Singleton
    <2>5. PICK x : S = {x}
      BY <2>4
    <2>6. \A e : e \in S <=> e \in Notices(after) /\ e.trigger = f[1]
      BY DEF Notices
    <2> HIDE DEF S, after
    <2> QED BY <2>5, <2>6
  <1>9. OneNoticeEach(after, F)
    BY <1>7, <1>8 DEF OneNoticeEach
  <1> QED BY <1>1, <1>2, <1>9

LEMMA ReportedNotices ==
    ASSUME TypeOK, WellFormed(Lines), NEW in \in Inputs, Report(in), job' # None,
           job'.outcome = "published"
    PROVE  OneNoticeEach(Lines \cup job'.lines, Fired(job'.record.triggers))
  <1>1. in \in Input
    BY GateAssumption
  <1> DEFINE s == IF in.ok THEN Settle(in) ELSE Unrendered(in)
  <1>2. /\ s.stable /\ job'.outcome = Outcome(in, s)
        /\ job'.lines = s.lines /\ job'.record.triggers = s.triggers
    BY DEF Report
  <1>3. in.ok /\ \A b \in s.failing : b.row = "DET-80"
    <2> HIDE DEF s
    <2> QED BY <1>2 DEF Outcome
  <1>4. s = Settle(in)
    BY <1>3
  <1>5. ~Unstable.stable
    BY DEF Unstable
  <1> HIDE DEF s
  <1>6. PICK seen \in SUBSET FailingRow : s = Settled(Pass(in, FALSE, seen))
    BY <1>1, <1>2, <1>4, <1>5, SettledPass
  <1>7. /\ s.lines = Pass(in, FALSE, seen).lines
        /\ s.triggers = Pass(in, FALSE, seen).triggers
        /\ s.failing = Pass(in, FALSE, seen).failing
    BY <1>6 DEF Settled
  <1>8. Bad("DET-60", "fail") \notin Pass(in, FALSE, seen).failing
    <2>1. Bad("DET-60", "fail").row = "DET-60"
      BY DEF Bad
    <2>2. \A b \in Pass(in, FALSE, seen).failing : b.row = "DET-80"
      BY <1>3, <1>7
    <2> QED BY <2>1, <2>2
  <1>9. OneNoticeEach(Lines \cup Pass(in, FALSE, seen).lines,
                      Fired(Pass(in, FALSE, seen).triggers))
    BY <1>1, <1>8, PassNotices
  <1> QED BY <1>2, <1>7, <1>9

\* One more line in the log opens its own notice at most, and that only when no
\* line of the log is the same.
LEMMA AppendedNotices ==
    ASSUME NEW e, Lines' = Lines \cup {e}, NEW x \in Notices(Lines')
    PROVE  \/ x \in Notices(Lines)
           \/ x = e /\ e \notin Lines /\ e.level = 1 /\ e.resolution_date = None
  <1>1. /\ x \in Lines' /\ x.level = 1 /\ x.resolution_date = None
        /\ \A r \in Resolutions(Lines') : Key(r) # Key(x)
    BY DEF Notices, OpenEntries, Resolutions
  <1>2. \A r \in Resolutions(Lines) : Key(r) # Key(x)
    BY <1>1 DEF Resolutions
  <1>3. x \in Lines => x \in Notices(Lines)
    BY <1>1, <1>2 DEF Notices, OpenEntries, Resolutions
  <1> QED BY <1>1, <1>3

LEMMA AppendedIdx ==
    ASSUME TypeOK, NEW e \in Event, log' = Append(log, e)
    PROVE  /\ \A i \in QuarantineIdx(log)' : i \in QuarantineIdx(log) \/ i = Len(log) + 1
           /\ e.type = "published" => QuarantineIdx(log)' = QuarantineIdx(log)
           /\ log'[Len(log) + 1] = e
           /\ \A i \in QuarantineIdx(log) : log'[i] = log[i]
  <1>1. log \in Seq(Event)
    BY DEF TypeOK
  <1>2. /\ Len(log') = Len(log) + 1 /\ log'[Len(log) + 1] = e /\ log' \in Seq(Event)
        /\ \A i \in 1..Len(log) : log'[i] = log[i]
    BY <1>1, AppendProperties
  <1>3. DOMAIN log = 1..Len(log) /\ DOMAIN log' = 1..(Len(log) + 1) /\ Len(log) \in Nat
    BY <1>1, <1>2
  <1> QED BY <1>2, <1>3 DEF QuarantineIdx

LEMMA AppendLineNotices ==
    ASSUME NoticeInv, NEW e \in job.lines, job # None, AppendLine(e)
    PROVE  NoticesOnce' /\ NoticesDistinct(Lines)' /\ JobNotices'
  <1>1. /\ TypeOK /\ job \in Job /\ Planned(job.lines)
        /\ job.phase = "log" /\ log' = Append(log, e) /\ records' = records
        /\ bundle' = bundle /\ job' = [job EXCEPT !.lines = @ \ {e}]
    BY DEF AppendLine, NoticeInv, FiledInv, GateInv, TypeOK, JobPlanned
  <1>2. /\ job'.phase = "log" /\ job'.lines = job.lines \ {e}
        /\ job'.outcome = job.outcome /\ job'.record = job.record
    BY <1>1 DEF Job
  <1>3. e \in QuarantineEvent /\ e \in Event
    BY <1>1 DEF Planned, Event
  <1>4. Lines' = Lines \cup {e}
    BY <1>1, <1>3, AppendedLine
  <1>5. /\ \A i \in QuarantineIdx(log)' : i \in QuarantineIdx(log) \/ i = Len(log) + 1
        /\ log'[Len(log) + 1] = e
        /\ \A i \in QuarantineIdx(log) : log'[i] = log[i] /\ log[i] \in Lines
    BY <1>1, <1>3, AppendedIdx DEF Lines, QuarantineLines
  <1>6. \A x \in Notices(Lines') :
           \/ x \in Notices(Lines)
           \/ x = e /\ e \notin Lines /\ e.level = 1 /\ e.resolution_date = None
    BY <1>4, AppendedNotices
  <1>7. (e.level = 1 /\ e.resolution_date = None) =>
           \A x \in Notices(Lines) : x.trigger # e.trigger
    BY <1>1 DEF NoticeInv, JobNotices
  <1>8. NoticesDistinct(Lines)'
    BY <1>6, <1>7 DEF NoticeInv, NoticesDistinct
  <1>9. NoticesOnce'
    <2> SUFFICES ASSUME NEW i \in QuarantineIdx(log)', NEW j \in QuarantineIdx(log)',
                        log'[i] = log'[j], log'[i] \in Notices(Lines')
                 PROVE  i = j
      BY DEF NoticesOnce
    <2>1. CASE log'[i] \in Lines
      <3>1. log'[i] \in Notices(Lines)
        BY <1>6, <2>1
      <3>2. \A k \in {i, j} : k = Len(log) + 1 => FALSE
        BY <1>5, <1>7, <2>1, <3>1, <1>6 DEF Notices, OpenEntries, Resolutions
      <3>3. i \in QuarantineIdx(log) /\ j \in QuarantineIdx(log)
        BY <1>5, <3>2
      <3> QED BY <1>5, <3>1, <3>3 DEF NoticeInv, NoticesOnce
    <2>2. CASE log'[i] \notin Lines
      <3>1. i \notin QuarantineIdx(log) /\ j \notin QuarantineIdx(log)
        BY <1>5, <2>2
      <3> QED BY <1>5, <3>1
    <2> QED BY <2>1, <2>2
  <1>10. ASSUME NEW d \in job.lines \ {e}, d.level = 1, d.resolution_date = None,
                NEW x \in Notices(Lines')
         PROVE  x.trigger # d.trigger
    <2>1. CASE x \in Notices(Lines)
      BY <1>1, <1>10, <2>1 DEF NoticeInv, JobNotices
    <2>2. CASE x = e /\ e.level = 1 /\ e.resolution_date = None
      <3>1. d.date = bundle.date /\ e.date = bundle.date
        BY <1>10, <2>2 DEF NoticeInv, FiledInv, JobFiled
      <3>2. /\ d \in QuarantineEvent
            /\ d.resolution_type = None /\ e.resolution_type = None
        BY <1>1, <1>10, <2>2 DEF Planned, WellFormed
      <3>3. e.trigger = d.trigger => Key(d) = Key(e)
        BY <1>10, <2>2, <3>1 DEF Key
      <3> QED BY <1>3, <1>10, <2>2, <3>2, <3>3, FireLineOfKey
    <2> QED BY <1>6, <2>1, <2>2
  <1>11. Lines' \cup job'.lines = Lines \cup job.lines
    BY <1>2, <1>4
  <1>12. JobNotices'
    <2>1. job.outcome = "published" =>
             OneNoticeEach(Lines \cup job.lines, Fired(job.record.triggers))
      BY <1>1 DEF NoticeInv, JobNotices
    <2>2. job'.outcome = "published" =>
             OneNoticeEach(Lines' \cup job'.lines, Fired(job'.record.triggers))
      BY <1>2, <1>11, <2>1
    <2>3. records'[bundle'.block] = job'.record
      BY <1>1, <1>2 DEF NoticeInv, JobNotices
    <2> QED BY <1>2, <1>10, <2>2, <2>3 DEF JobNotices
  <1> QED BY <1>8, <1>9, <1>12

\* The log keeps its notices as long as it is not written.
LEMMA NoticesKept ==
    ASSUME NoticesOnce, NoticesDistinct(Lines), UNCHANGED log
    PROVE  NoticesOnce' /\ NoticesDistinct(Lines)' /\ Notices(Lines)' = Notices(Lines)
  BY LogKept DEF NoticesOnce, NoticesDistinct, Notices, OpenEntries, Resolutions

LEMMA NoticeInvStep ==
    ASSUME NoticeInv, [Next]_vars
    PROVE  NoticeInv'
  <1>1. FiledInv' /\ GateInv /\ TypeOK /\ WellFormed(Lines)
    BY FiledInvStep DEF NoticeInv, FiledInv, GateInv
  <1>2. /\ job # None => job \in Job
        /\ bundle.block \in 1..MaxBlock /\ records \in [1..MaxBlock -> Record \cup {None}]
    BY <1>1 DEF TypeOK
  <1>3. CASE log' = log /\ job' = None
    BY <1>1, <1>3, NoticesKept DEF NoticeInv, JobNotices
  <1>4. ASSUME NEW in \in Inputs, Report(in) PROVE NoticeInv'
    <2>1. log' = log
      BY <1>4 DEF Report
    <2>2. Lines' = Lines /\ Notices(Lines)' = Notices(Lines)
      BY <2>1, LogKept, NoticesKept DEF NoticeInv
    <2>3. JobNotices'
      <3> SUFFICES ASSUME job' # None PROVE JobNotices'
        BY DEF JobNotices
      <3>1. job'.phase = "record"
        BY <1>1, <1>4, ReportedRecord
      <3>2. \A e \in job'.lines : (e.level = 1 /\ e.resolution_date = None) =>
               \A x \in Notices(Lines) : x.trigger # e.trigger
        BY <1>1, <1>4, ReportedLine
      <3>3. job'.outcome = "published" =>
               OneNoticeEach(Lines \cup job'.lines, Fired(job'.record.triggers))
        BY <1>1, <1>4, ReportedNotices
      <3> QED BY <2>2, <3>1, <3>2, <3>3 DEF JobNotices
    <2> QED BY <1>1, <2>1, <2>3, NoticesKept DEF NoticeInv
  <1>5. CASE WriteRecord
    <2>1. /\ job # None /\ job.phase = "record" /\ log' = log /\ bundle' = bundle
          /\ records' = [records EXCEPT ![bundle.block] = job.record]
          /\ job' = [job EXCEPT !.phase = "evidence"]
      BY <1>5 DEF WriteRecord
    <2>2. /\ job'.phase = "evidence" /\ job'.lines = job.lines
          /\ job'.outcome = job.outcome /\ job'.record = job.record
      BY <1>2, <2>1 DEF Job
    <2>3. Lines' = Lines /\ Notices(Lines)' = Notices(Lines)
      BY <2>1, LogKept, NoticesKept DEF NoticeInv
    <2>4. records'[bundle'.block] = job'.record
      BY <1>2, <2>1, <2>2
    <2>5. JobNotices'
      BY <2>1, <2>2, <2>3, <2>4 DEF NoticeInv, JobNotices
    <2> QED BY <1>1, <2>1, <2>5, NoticesKept DEF NoticeInv
  <1>6. CASE WriteEvidence \/ RemovePage
    <2>1. /\ job # None /\ job.phase # "record" /\ log' = log /\ bundle' = bundle
          /\ records' = records
          /\ \/ job.phase = "evidence" /\ job' = [job EXCEPT !.phase = "log"]
             \/ job.phase = "remove" /\ job' = [job EXCEPT !.phase = "copy"]
      BY <1>6 DEF WriteEvidence, RemovePage
    <2>2. /\ job'.lines = job.lines /\ job'.outcome = job.outcome
          /\ job'.record = job.record
          /\ \/ job.phase = "evidence" /\ job'.phase = "log"
             \/ job.phase = "remove" /\ job'.phase = "copy"
      BY <1>2, <2>1 DEF Job
    <2>3. Lines' = Lines /\ Notices(Lines)' = Notices(Lines)
      BY <2>1, LogKept, NoticesKept DEF NoticeInv
    <2>4. JobNotices'
      BY <2>1, <2>2, <2>3 DEF NoticeInv, JobNotices
    <2> QED BY <1>1, <2>1, <2>4, NoticesKept DEF NoticeInv
  <1>7. ASSUME NEW e \in job.lines, job # None, AppendLine(e) PROVE NoticeInv'
    BY <1>1, <1>7, AppendLineNotices DEF NoticeInv
  <1>8. CASE AppendPublished
    <2> DEFINE p == PublishedLine(bundle.date, bundle.block)
    <2>1. /\ job # None /\ job.phase = "log" /\ job.lines = {} /\ job.outcome = "published"
          /\ log' = Append(log, p) /\ bundle' = bundle /\ records' = records
          /\ job' = [job EXCEPT !.phase = "remove"]
      BY <1>8 DEF AppendPublished
    <2>2. job'.phase = "remove" /\ job'.record = job.record
      BY <1>2, <2>1 DEF Job
    <2>3. Lines' = Lines
      BY <1>1, <2>1, AppendedPublished
    <2>4. p \in Event /\ p.type = "published"
      BY <1>1 DEF TypeOK, Event, PublishedEvent, PublishedLine
    <2> HIDE DEF p
    <2>5. QuarantineIdx(log)' = QuarantineIdx(log)
          /\ \A i \in QuarantineIdx(log) : log'[i] = log[i]
      BY <1>1, <2>1, <2>4, AppendedIdx
    <2>6. NoticesOnce' /\ NoticesDistinct(Lines)'
      <3>1. Notices(Lines)' = Notices(Lines)
        BY <2>3 DEF Notices, OpenEntries, Resolutions
      <3> QED BY <2>5, <3>1 DEF NoticeInv, NoticesOnce, NoticesDistinct
    <2>7. OneNoticeEach(Lines, Fired(job.record.triggers))
          /\ records[bundle.block] = job.record
      <3>1. Lines \cup job.lines = Lines
        BY <2>1
      <3> QED BY <2>1, <3>1 DEF NoticeInv, JobNotices
    <2>8. OneNoticeEach(Lines', Fired(job'.record.triggers))
          /\ records'[bundle'.block] = job'.record
      BY <2>1, <2>2, <2>3, <2>7
    <2>9. JobNotices'
      BY <2>2, <2>8 DEF JobNotices
    <2> QED BY <1>1, <2>6, <2>9 DEF NoticeInv
  <1>9. CASE \/ \E f \in Editable : Edit(f)
             \/ \E date \in 1..MaxDate : NewBundle(date)
             \/ CopyPage \/ EndUnpublished \/ Crash
    BY <1>3, <1>9 DEF Edit, NewBundle, CopyPage, EndUnpublished, Crash
  <1>10. CASE UNCHANGED vars
    <2>1. log' = log /\ job' = job /\ records' = records /\ bundle' = bundle
      BY <1>10 DEF vars
    <2>2. Lines' = Lines /\ Notices(Lines)' = Notices(Lines)
      BY <2>1, LogKept, NoticesKept DEF NoticeInv
    <2> QED BY <1>1, <2>1, <2>2, NoticesKept DEF NoticeInv, JobNotices
  <1>11. ASSUME NEW e \in (IF job = None THEN {} ELSE job.lines), AppendLine(e)
         PROVE  NoticeInv'
    BY <1>7, <1>11
  <1> QED BY <1>4, <1>5, <1>6, <1>8, <1>9, <1>10, <1>11 DEF Next

LEMMA NoticeInvInit == Init => NoticeInv
  <1> SUFFICES ASSUME Init PROVE NoticeInv
    OBVIOUS
  <1>1. Lines = {} /\ QuarantineIdx(log) = {} /\ job = None
    BY DEF Init, Lines, QuarantineLines, QuarantineIdx
  <1> QED BY <1>1, FiledInvInit
          DEF NoticeInv, NoticesOnce, NoticesDistinct, Notices, OpenEntries, JobNotices

\* A notice that stands in one line, one for each pair fired, is counted as the pairs are.
LEMMA NoticesCounted ==
    ASSUME NoticeInv, NEW F \in SUBSET (Triggers \X Levels), OneNoticeEach(Lines, F)
    PROVE  LET open  == {i \in QuarantineIdx(log) :
                           log[i] \in OpenEntries(Lines) /\ log[i].level = 1}
               fires == {f \in F : f[2] = 1}
           IN  /\ {<<log[i].trigger, 1>> : i \in open} = fires
               /\ Cardinality(open) = Cardinality(fires)
  <1> DEFINE open  == {i \in QuarantineIdx(log) :
                           log[i] \in OpenEntries(Lines) /\ log[i].level = 1}
             fires == {f \in F : f[2] = 1}
             g     == [i \in open |-> <<log[i].trigger, 1>>]
  <1>1. \A i \in open : log[i] \in Notices(Lines) /\ i \in QuarantineIdx(log)
    BY DEF Notices
  <1>2. \A i \in open : <<log[i].trigger, 1>> \in fires
    <2>1. \A i \in open : <<log[i].trigger, 1>> \in F
      BY <1>1 DEF OneNoticeEach
    <2> QED BY <2>1
  <1>3. \A f \in fires : \E i \in open : f = <<log[i].trigger, 1>>
    <2> SUFFICES ASSUME NEW f \in F, f[2] = 1 PROVE \E i \in open : f = <<log[i].trigger, 1>>
      OBVIOUS
    <2>1. PICK e \in Notices(Lines) : e.trigger = f[1]
      BY DEF OneNoticeEach
    <2>2. PICK i \in QuarantineIdx(log) : e = log[i]
      BY DEF Notices, OpenEntries, Lines, QuarantineLines
    <2>3. i \in open
      BY <2>2 DEF Notices
    <2>4. f = <<log[i].trigger, 1>>
      BY <2>1, <2>2
    <2> QED BY <2>3, <2>4
  <1>4. \A i, j \in open : log[i].trigger = log[j].trigger => i = j
    BY <1>1 DEF NoticeInv, NoticesDistinct, NoticesOnce
  <1>5. IsFiniteSet(open)
    <2>1. IsFiniteSet(QuarantineIdx(log)) /\ open \in SUBSET QuarantineIdx(log)
      BY LinesFinite DEF NoticeInv, FiledInv, GateInv
    <2> HIDE DEF open
    <2> QED BY <2>1, FS_Subset
  <1>6. {<<log[i].trigger, 1>> : i \in open} = fires
    <2> HIDE DEF open, fires
    <2> QED BY <1>2, <1>3
  <1>7. ExistsBijection(open, fires)
    <2> HIDE DEF open, fires
    <2>1. g \in [open -> fires]
      BY <1>2
    <2>2. \A i, j \in open : g[i] = g[j] => i = j
      BY <1>4
    <2>3. \A f \in fires : \E i \in open : g[i] = f
      BY <1>3
    <2> HIDE DEF g
    <2>4. g \in Bijection(open, fires)
      BY <2>1, <2>2, <2>3 DEF Bijection, Injection, Surjection, IsInjective
    <2> QED BY <2>4 DEF ExistsBijection
  <1>8. Cardinality(open) = Cardinality(fires)
    <2> HIDE DEF open, fires
    <2> QED BY <1>5, <1>7, FS_Bijection
  <1> QED BY <1>6, <1>8

\* When the published line is in the log, its open Level 1 entries are one for each
\* Level 1 trigger of the run's record, whatever runs were stopped half way before.
THEOREM NoticesAreTheRuns == Spec => []NoticesMatchRecord
  <1>1. Init => NoticeInv
    BY NoticeInvInit
  <1>2. NoticeInv /\ [Next]_vars => NoticeInv'
    BY NoticeInvStep
  <1>3. NoticeInv => NoticesMatchRecord
    <2> SUFFICES ASSUME NoticeInv, job # None, job.phase \in {"remove", "copy"}
                 PROVE  NoticesMatchRecord
      BY DEF NoticesMatchRecord
    <2> DEFINE F == Fired(records[bundle.block].triggers)
    <2>1. OneNoticeEach(Lines, F)
      BY DEF NoticeInv, JobNotices
    <2>2. F \in SUBSET (Triggers \X Levels)
      <3>1. job \in Job /\ records[bundle.block] = job.record
        BY DEF NoticeInv, JobNotices, FiledInv, GateInv, TypeOK
      <3>2. job.record.triggers \subseteq TriggerRecord
        BY <3>1 DEF Job, Record
      <3> QED BY <3>1, <3>2, FiredType
    <2> HIDE DEF F
    <2> QED BY <2>1, <2>2, NoticesCounted DEF NoticesMatchRecord, F
  <1> QED BY <1>1, <1>2, <1>3, PTL DEF Spec
-------------------------------------------------------------------------------
(***************************************************************************)
(* A clean run.                                                            *)
(***************************************************************************)
\* The one row a clean run may fail: a prose slot is empty.
Missing(in) == IF in.missing THEN {Bad("DET-80", "fail")} ELSE {}

\* The rows of a pass, given what its plan does.
LEMMA CleanRows ==
    ASSUME NEW in, Clean(in), NEW T, NEW planned,
           OpenHeavy(Lines \cup planned) = {},
           \A f \in Fired(T) : EntryCount(planned, f) = 1,
           \A e \in Resolutions(Lines \cup planned) :
               \E x \in Proofs(planned) : Evidences(x, e)
    PROVE  S3Failing(in, T, planned) = Missing(in)
  <1> DEFINE Failing(row, cond) == IF cond THEN {Bad(row, "fail")} ELSE {}
             rule60 == \E f \in Fired(T) : EntryCount(planned, f) # 1
             rule87 == \E e \in Resolutions(Lines \cup planned) :
                          \A x \in Proofs(planned) : ~Evidences(x, e)
  <1>1. in.body = "pass" /\ in.prior = "pass"
    BY DEF Clean
  <1>2. ~rule60 /\ ~rule87
    OBVIOUS
  <1>3. S3Failing(in, T, planned) =
            Failing("DET-80", in.missing) \cup Failing("DET-60", rule60)
               \cup Failing("DET-87", rule87)
    <2> HIDE DEF rule60, rule87
    <2>1. LET review == /\ OpenHeavy(Lines \cup planned) # {}
                        /\ ConsecutiveQuarantinedRuns(log, planned) >= ReviewRuns
          IN  ~review
      OBVIOUS
    <2>2. S3Failing(in, T, planned) =
            {} \cup Failing("DET-80", in.missing \/ FALSE) \cup Failing("DET-60", rule60)
               \cup Failing("DET-87", rule87) \cup Failing("DET-85", FALSE)
               \cup Failing("DET-13(a)", FALSE) \cup Failing("DET-13(d)", FALSE)
      BY <1>1, <2>1 DEF S3Failing, rule60, rule87
    <2> QED BY <2>2
  <1> HIDE DEF rule60, rule87
  <1> QED BY <1>2, <1>3 DEF Missing

\* Whatever was fired for an earlier bundle differs from this one by the bundle.
LEMMA BundleDiffers ==
    ASSUME FiledInv, records[bundle.block] = None, NEW date, FireRuns(date) # {}
    PROVE  "bundle_hash" \in Differing(date)
  <1>1. /\ bundle.block \in 1..MaxBlock
        /\ records \in [1..MaxBlock -> Record \cup {None}] /\ MaxBlock \in Nat
    BY GateAssumption DEF FiledInv, GateInv, TypeOK
  <1>2. FireRuns(date) \subseteq RecordedBlocks /\ RecordedBlocks \subseteq 0..MaxBlock
    BY <1>1 DEF FireRuns, RecordedBlocks
  <1>3. FireRun(date) \in FireRuns(date)
    <2>1. FireRuns(date) \subseteq 0..MaxBlock
      BY <1>2
    <2> QED BY <1>1, <2>1, NatGreatest DEF FireRun
  <1>4. FireRun(date) # bundle.block
    BY <1>2, <1>3 DEF RecordedBlocks
  <1>5. records[FireRun(date)].hashes["bundle_hash"] = FireRun(date)
    BY <1>2, <1>3 DEF FiledInv, RecordsFiled
  <1>6. Current["bundle_hash"] = bundle.block /\ "bundle_hash" \in Fields
    BY DEF Current, Fields
  <1> QED BY <1>4, <1>5, <1>6 DEF Differing

\* A pass over a bundle not reported before, told of nothing but an empty slot.
CleanPassing(in, first, seen) ==
    /\ EvidenceInv /\ NoticeInv
    /\ in \in Input /\ Clean(in)
    /\ records[bundle.block] = None
    /\ \A e \in Resolutions(Lines) : e.level # 1
    /\ seen \subseteq {Bad("DET-80", "fail")}

LEMMA CleanIsGreen ==
    ASSUME NEW in, NEW first, NEW seen, CleanPassing(in, first, seen)
    PROVE  /\ seen \subseteq FailingRow
           /\ FiredBy(in, seen) \in SUBSET (Triggers \X Levels)
           /\ \A f \in FiredBy(in, seen) : f[2] = 1
           /\ PassLines(in, first, seen) =
                 Noted(FiredBy(in, seen))
                    \cup PlanResolutions(Lines \cup Noted(FiredBy(in, seen)))
  <1>1. /\ in \in Input /\ in.ok /\ in.prior = "pass"
        /\ \A b \in seen : b.row = "DET-80" /\ b.result = "fail"
    BY DEF CleanPassing, Clean, Bad
  <1>2. seen \subseteq FailingRow
    <2>1. Bad("DET-80", "fail") \in FailingRow
      BY DEF Bad, FailingRow, Rows, Results
    <2> QED BY <2>1 DEF CleanPassing
  <1>3. PriorBad(in) = {}
    BY <1>1 DEF PriorBad
  <1>4. \A t \in GateTriggers(in, seen) : t.level = 1
    BY <1>1, <1>3 DEF GateTriggers, GateTrigger
  <1>5. Green(in, first, seen)
    BY <1>1, <1>4 DEF Green
  <1>6. \A f \in FiredBy(in, seen) : f[2] = 1
    BY <1>1, <1>4, FlagsAreNotices DEF FiredBy, Fired, FlagTriggers, Input
  <1>7. PassLines(in, first, seen) =
           Noted(FiredBy(in, seen))
              \cup PlanResolutions(Lines \cup Noted(FiredBy(in, seen)))
    BY <1>5 DEF PassLines, FiredBy
  <1> QED BY <1>1, <1>2, <1>6, <1>7, FiredByType

\* It closes every open Level 2/3 entry, since the bundle is another one.
LEMMA CleanCloses ==
    ASSUME NEW in, NEW first, NEW seen, CleanPassing(in, first, seen)
    PROVE  OpenHeavy(Lines \cup PassLines(in, first, seen)) = {}
  <1> DEFINE F       == FiredBy(in, seen)
             planned == PassLines(in, first, seen)
             after   == Lines \cup planned
  <1>1. /\ F \in SUBSET (Triggers \X Levels) /\ \A f \in F : f[2] = 1
        /\ planned = Noted(F) \cup PlanResolutions(Lines \cup Noted(F))
        /\ in \in Input /\ seen \subseteq FailingRow
    BY CleanIsGreen DEF CleanPassing
  <1>2. TypeOK /\ FiledInv /\ records[bundle.block] = None
    BY DEF CleanPassing, NoticeInv, FiledInv, GateInv
  <1> SUFFICES ASSUME NEW x \in OpenHeavy(after) PROVE FALSE
    OBVIOUS
  <1> HIDE DEF F, planned
  <1>3. /\ x \in after /\ x.resolution_date = None /\ x.level \in HeavyLevels
        /\ Key(x) \notin Keys(Resolutions(after))
    BY OpenEntry DEF OpenHeavy
  <1>4. x \in Lines
    <2> SUFFICES ASSUME x \in planned PROVE FALSE
      BY <1>3
    <2>1. x \in Noted(F)
      BY <1>1, <1>2, <1>3, PassLine DEF planned, F
    <2>2. x.level = 1
      BY <1>1, <1>2, <1>3, <2>1, NotedLine, SettlementType
    <2> QED BY <1>3, <2>2 DEF HeavyLevels
  <1>5. x \in OpenHeavy(Lines \cup Noted(F))
    BY <1>1, <1>3, <1>4 DEF OpenHeavy, OpenEntries, Resolutions, Keys
  <1>6. FireRuns(x.date) # {}
    BY <1>2, <1>3, <1>4 DEF FiledInv, FiresRecorded
  <1>7. "bundle_hash" \in Differing(x.date)
    BY <1>2, <1>6, BundleDiffers
  <1> DEFINE r == ResolutionLine(x, Attributed(x.date), bundle.date)
  <1>8. r \in PlanResolutions(Lines \cup Noted(F))
    BY <1>5, <1>6, <1>7 DEF PlanResolutions, Attributed
  <1>9. Key(r) = Key(x) /\ r.resolution_date # None
    <2>1. x \in QuarantineEvent /\ bundle.date \in Nat
      BY <1>2, <1>4, LinesType DEF TypeOK
    <2>2. Attributed(x.date) \in ResolutionTypes
      <3>1. Differing(x.date) \subseteq Fields
        BY DEF Differing
      <3>2. (CHOOSE f \in Differing(x.date) :
               \A g \in Differing(x.date) : EvidenceRank[f] <= EvidenceRank[g])
                  \in Fields
        BY <1>7, <3>1, FirstByRank
      <3> QED BY <3>2, ResolutionTypeOfType DEF Attributed
    <2> QED BY <2>1, <2>2, ResolutionLineType, LogAssumption
  <1> HIDE DEF r
  <1>10. r \in Resolutions(after)
    BY <1>1, <1>8, <1>9 DEF Resolutions
  <1> QED BY <1>3, <1>9, <1>10 DEF Keys

\* What a pass closes of Level 1 are notices that are fired no more.
LEMMA ClosedNotice ==
    ASSUME TypeOK, NEW F \in SUBSET (Triggers \X Levels), NEW r \in Noted(F),
           r.resolution_date # None, r.level = 1
    PROVE  /\ <<r.trigger, 1>> \notin F
           /\ r.resolution_type = "data_correction"
           /\ \E x \in Notices(Lines) : x.date = r.date
  <1> DEFINE L == Lines \cup Settlement
  <1>1. r \notin Settlement
    BY SettlementType DEF HeavyLevels
  <1>2. r \notin PlannedFires(L, bundle.date, F)
    BY DEF PlannedFires, FireLine
  <1>3. PICK x \in OpenEntries(L) :
            /\ x.level = 1 /\ <<x.trigger, 1>> \notin F
            /\ r = ResolutionLine(x, "data_correction", bundle.date)
    BY <1>1, <1>2 DEF Noted, PlanQuarantine, ClearedNotices
  <1>4. /\ x \in L /\ x.resolution_date = None
        /\ \A y \in Resolutions(L) : Key(y) # Key(x)
    BY DEF OpenEntries, Resolutions
  <1>5. x \in Lines
    BY <1>3, <1>4, SettlementType DEF HeavyLevels
  <1>6. x \in Notices(Lines)
    BY <1>3, <1>4, <1>5 DEF Notices, OpenEntries, Resolutions
  <1>7. x \in QuarantineEvent
    BY <1>5, LinesType
  <1>8. r.date = x.date /\ r.trigger = x.trigger /\ r.resolution_type = "data_correction"
    BY <1>3, <1>7 DEF ResolutionLine, QuarantineEvent
  <1> QED BY <1>3, <1>6, <1>8

\* DET-60 finds one open notice for each pair fired.
LEMMA CleanCounts ==
    ASSUME NEW in, NEW first, NEW seen, CleanPassing(in, first, seen),
           NEW f \in FiredBy(in, seen)
    PROVE  EntryCount(PassLines(in, first, seen), f) = 1
  <1> DEFINE F       == FiredBy(in, seen)
             planned == PassLines(in, first, seen)
             after   == Lines \cup planned
             L       == Lines \cup Settlement
             S       == {e \in OpenEntries(after) : e.trigger = f[1] /\ e.level = 1}
  <1>0. /\ F \in SUBSET (Triggers \X Levels)
        /\ planned = Noted(F) \cup PlanResolutions(Lines \cup Noted(F))
        /\ \A g \in F : g[2] = 1
        /\ in \in Input /\ seen \subseteq FailingRow
    BY CleanIsGreen DEF CleanPassing
  <1>1. /\ F \in SUBSET (Triggers \X Levels) /\ f[2] = 1 /\ f = <<f[1], 1>>
        /\ planned = Noted(F) \cup PlanResolutions(Lines \cup Noted(F))
        /\ \A g \in F : g[2] = 1
        /\ in \in Input /\ seen \subseteq FailingRow
    <2>1. f \in Triggers \X Levels /\ f[2] = 1
      BY <1>0
    <2>2. f = <<f[1], 1>>
      BY <2>1
    <2> QED BY <1>0, <2>1, <2>2
  <1>2. /\ TypeOK /\ WellFormed(Lines) /\ NoticesDistinct(Lines)
        /\ \A e \in Resolutions(Lines) : e.level # 1
    BY DEF CleanPassing, NoticeInv, FiledInv, GateInv
  <1> HIDE DEF F, planned
  <1>3. \A e \in planned :
           \/ e \in Noted(F)
           \/ e.resolution_date # None /\ e.level \in HeavyLevels
    BY <1>1, <1>2, PassLine DEF planned, F
  <1>4. ASSUME NEW r \in Resolutions(planned), r.level = 1
        PROVE  <<r.trigger, 1>> \notin F
    <2>1. r \in Noted(F) /\ r.resolution_date # None
      BY <1>3, <1>4 DEF Resolutions, HeavyLevels
    <2> QED BY <1>1, <1>2, <1>4, <2>1, ClosedNotice
  <1>5. ASSUME NEW d \in S, NEW e \in S PROVE d = e
    <2>1. \A x \in {d, e} :
             /\ x \in after /\ x.resolution_date = None /\ x.level = 1 /\ x.trigger = f[1]
             /\ \A r \in Resolutions(after) : Key(r) # Key(x)
      BY DEF OpenEntries, Resolutions
    <2>2. \A x \in {d, e} : x \in Lines => x \in Notices(Lines)
      BY <2>1 DEF Notices, OpenEntries, Resolutions
    <2>3. \A x \in {d, e} : x \notin Lines =>
             /\ x \in QuarantineEvent /\ x.resolution_type = None /\ x.date = bundle.date
             /\ \A y \in Notices(Lines) : y.trigger # x.trigger
      <3> SUFFICES ASSUME NEW x \in {d, e}, x \notin Lines
                   PROVE  /\ x \in QuarantineEvent /\ x.resolution_type = None
                          /\ x.date = bundle.date
                          /\ \A y \in Notices(Lines) : y.trigger # x.trigger
        OBVIOUS
      <3>1. x \in Noted(F) /\ x.resolution_date = None /\ x.level = 1
        BY <1>3, <2>1
      <3> QED BY <1>1, <1>2, <3>1, NotedFire, NotedLine, SettlementType
    <2>4. CASE d \in Lines /\ e \in Lines
      BY <1>2, <2>1, <2>2, <2>4 DEF NoticesDistinct
    <2>5. CASE d \notin Lines /\ e \notin Lines
      <3>1. Key(d) = Key(e)
        BY <2>1, <2>3, <2>5 DEF Key
      <3> QED BY <2>1, <2>3, <2>5, <3>1, FireLineOfKey
    <2>6. CASE ~(d \in Lines <=> e \in Lines)
      BY <2>1, <2>2, <2>3, <2>6
    <2> QED BY <2>4, <2>5, <2>6
  <1>6. \E e : e \in S
    <2>1. CASE \E x \in OpenEntries(L) : x.trigger = f[1] /\ x.level = 1
      <3>1. PICK x \in OpenEntries(L) : x.trigger = f[1] /\ x.level = 1
        BY <2>1
      <3>2. /\ x \in L /\ x.resolution_date = None
            /\ \A r \in Resolutions(L) : Key(r) # Key(x)
        BY DEF OpenEntries, Resolutions
      <3>3. x \in Lines
        BY <1>2, <3>1, <3>2, SettlementType
      <3>4. \A r \in Resolutions(planned) : Key(r) # Key(x)
        <4> SUFFICES ASSUME NEW r \in Resolutions(planned), Key(r) = Key(x) PROVE FALSE
          OBVIOUS
        <4>1. r.level = 1 /\ r.trigger = f[1]
          BY <3>1 DEF Key
        <4>2. <<r.trigger, 1>> \in F
          BY <1>1, <4>1 DEF F
        <4> QED BY <1>4, <4>1, <4>2
      <3>5. x \in OpenEntries(after)
        BY <3>2, <3>3, <3>4 DEF OpenEntries, Resolutions
      <3> QED BY <3>1, <3>5
    <2>2. CASE \A x \in OpenEntries(L) : ~(x.trigger = f[1] /\ x.level = 1)
      <3> DEFINE x == FireLine(bundle.date, f[1], f[2])
      <3>1. f \in F
        BY DEF F
      <3>2. x \in PlannedFires(L, bundle.date, F)
        BY <1>1, <2>2, <3>1 DEF PlannedFires
      <3>3. x \in planned
        BY <1>1, <3>2 DEF Noted, PlanQuarantine
      <3>4. /\ x.trigger = f[1] /\ x.level = 1 /\ x.resolution_date = None
        BY <1>1 DEF FireLine
      <3> HIDE DEF x
      <3>5. \A r \in Resolutions(after) : Key(r) # Key(x)
        <4> SUFFICES ASSUME NEW r \in Resolutions(after), Key(r) = Key(x) PROVE FALSE
          OBVIOUS
        <4>1. r.level = 1 /\ r.trigger = f[1]
          BY <3>4 DEF Key
        <4>2. r \in Resolutions(planned)
          BY <1>2, <4>1 DEF Resolutions
        <4> QED BY <1>1, <1>4, <3>1, <4>1, <4>2
      <3>6. x \in OpenEntries(after)
        BY <3>3, <3>4, <3>5 DEF OpenEntries, Resolutions
      <3> QED BY <3>4, <3>6
    <2> QED BY <2>1, <2>2
  <1>7. \E x : S = {x}
    <2> HIDE DEF S
    <2> QED BY <1>5, <1>6
  <1>8. Cardinality(S) = 1
    <2> HIDE DEF S
    <2> QED BY <1>7, FS_Singleton
  <1> QED BY <1>1, <1>8 DEF EntryCount, planned

\* DET-87 finds the evidence of every entry the log and the plan close.
LEMMA CleanProofs ==
    ASSUME NEW in, NEW first, NEW seen, CleanPassing(in, first, seen),
           NEW e \in Resolutions(Lines \cup PassLines(in, first, seen))
    PROVE  \E x \in Proofs(PassLines(in, first, seen)) : Evidences(x, e)
  <1> DEFINE F       == FiredBy(in, seen)
             planned == PassLines(in, first, seen)
  <1>1. /\ F \in SUBSET (Triggers \X Levels)
        /\ in \in Input /\ seen \subseteq FailingRow
    BY CleanIsGreen DEF CleanPassing
  <1>2. /\ TypeOK /\ WellFormed(Lines) /\ FiledInv /\ Evidenced(Lines, evidence)
        /\ records[bundle.block] = None
        /\ \A r \in Resolutions(Lines) : r.level # 1
    BY DEF CleanPassing, NoticeInv, FiledInv, GateInv, EvidenceInv
  <1>3. Pass(in, first, seen).lines = planned
        /\ Pass(in, first, seen).evidence = EvidenceOf(planned)
    BY DEF Pass
  <1> HIDE DEF F, planned
  <1>4. Planned(planned) /\ planned \subseteq QuarantineEvent
    BY <1>1, <1>2, <1>3, PassPlanned DEF WellPlanned, Planned
  <1>5. Evidenced(planned, EvidenceOf(planned)) /\ EvidenceFor(planned, EvidenceOf(planned))
    BY <1>1, <1>2, <1>3, PassEvidenced
  <1>6. Evidenced(Lines \cup planned, Proofs(planned))
    BY <1>2, <1>4, <1>5, SupersedeKeeps DEF Planned, Proofs
  <1>7. e \in Lines \cup planned /\ e.resolution_date # None /\ e.level \in Levels
    BY <1>2, <1>4, LinesType DEF Resolutions, QuarantineEvent, planned
  <1>8. CASE e.level \in HeavyLevels
    BY <1>6, <1>8 DEF Evidenced, planned
  <1>9. CASE e.level = 1
    <2>1. e \in Resolutions(planned) /\ e \in planned
      BY <1>2, <1>7, <1>9 DEF Resolutions
    <2>2. e \in Noted(F)
      <3>1. e \in Noted(F) \/ e.level \in HeavyLevels
        BY <1>1, <1>2, <2>1, PassLine DEF planned, F
      <3>2. e.level \notin HeavyLevels
        BY <1>9 DEF HeavyLevels
      <3> QED BY <3>1, <3>2
    <2>3. PICK x \in Notices(Lines) : x.date = e.date
      BY <1>1, <1>2, <1>7, <1>9, <2>2, ClosedNotice
    <2>4. e.resolution_type = "data_correction"
      BY <1>1, <1>2, <1>7, <1>9, <2>2, ClosedNotice
    <2>5. FireRuns(e.date) # {}
      BY <1>2, <2>3 DEF FiledInv, FiresRecorded, Notices, OpenEntries, Resolutions
    <2>6. "bundle_hash" \in Differing(e.date)
      BY <1>2, <2>5, BundleDiffers
    <2>7. ResolutionTypeOf["bundle_hash"] = "data_correction"
      BY DEF ResolutionTypeOf
    <2>8. \E y \in EvidenceOf(planned) : Evidences(y, e)
      BY <1>2, <2>1, <2>4, <2>5, <2>6, <2>7, Attested
    <2> QED BY <2>8 DEF Proofs, Supersede, planned
  <1> QED BY <1>7, <1>8, <1>9 DEF Levels, HeavyLevels

\* So a clean pass fails no row but the empty slot's, however often it is repeated.
LEMMA CleanPass ==
    ASSUME NEW in, NEW first, NEW seen, CleanPassing(in, first, seen)
    PROVE  /\ Pass(in, first, seen).failing = Missing(in)
           /\ OpenHeavy(Lines \cup Pass(in, first, seen).lines) = {}
  <1> DEFINE T       == FlagTriggers(in) \cup GateTriggers(in, seen)
             planned == PassLines(in, first, seen)
  <1>1. Pass(in, first, seen).failing = S3Failing(in, T, planned)
        /\ Pass(in, first, seen).lines = planned
    BY DEF Pass
  <1>2. OpenHeavy(Lines \cup planned) = {}
    BY CleanCloses
  <1>3. \A f \in Fired(T) : EntryCount(planned, f) = 1
    BY CleanCounts DEF FiredBy
  <1>4. \A e \in Resolutions(Lines \cup planned) :
           \E x \in Proofs(planned) : Evidences(x, e)
    BY CleanProofs
  <1>5. Clean(in)
    BY DEF CleanPassing
  <1> HIDE DEF T, planned
  <1>6. S3Failing(in, T, planned) = Missing(in)
    BY <1>2, <1>3, <1>4, <1>5, CleanRows
  <1> QED BY <1>1, <1>2, <1>6

LEMMA CleanReport ==
    ASSUME EvidenceInv, NoticeInv, NEW in \in Inputs, Report(in), Clean(in),
           records[bundle.block] = None, \A e \in Resolutions(Lines) : e.level # 1
    PROVE  job' # None => job'.outcome = "published"
  <1> DEFINE p1 == Pass(in, TRUE, {})
             p2 == Pass(in, FALSE, p1.failing)
  <1>1. in \in Input /\ in.ok
    BY GateAssumption DEF Clean
  <1>2. CleanPassing(in, TRUE, {})
    BY <1>1 DEF CleanPassing
  <1>3. p1.failing = Missing(in)
    BY <1>2, CleanPass
  <1>4. Missing(in) \subseteq {Bad("DET-80", "fail")}
    BY DEF Missing
  <1>5. CleanPassing(in, FALSE, Missing(in))
    BY <1>1, <1>4 DEF CleanPassing
  <1>6. Pass(in, FALSE, Missing(in)).failing = Missing(in)
        /\ OpenHeavy(Lines \cup Pass(in, FALSE, Missing(in)).lines) = {}
    BY <1>5, CleanPass
  <1>7. p2.failing = Missing(in) /\ OpenHeavy(Lines \cup p2.lines) = {}
    BY <1>3, <1>6
  <1>8. Settle(in) = Settled(p2)
    <2> DEFINE p3 == Pass(in, FALSE, p2.failing)
               p4 == Pass(in, FALSE, p3.failing)
    <2>1. Settle(in) = CASE p2.failing = p1.failing -> Settled(p2)
                         [] p2.failing # p1.failing /\ p3.failing = p2.failing -> Settled(p3)
                         [] p2.failing # p1.failing /\ p3.failing # p2.failing
                              /\ p4.failing = p3.failing -> Settled(p4)
                         [] OTHER -> Unstable
      BY Zenon DEF Settle, Settled
    <2>2. p2.failing = p1.failing
      BY <1>3, <1>7
    <2> HIDE DEF p1, p2, p3, p4
    <2> QED BY <2>1, <2>2
  <1> HIDE DEF p1, p2
  <1>9. Settle(in).failing = Missing(in) /\ Settle(in).lines = p2.lines
    BY <1>7, <1>8 DEF Settled
  <1>10. \A b \in Settle(in).failing : b.row = "DET-80"
    BY <1>4, <1>9 DEF Bad
  <1>11. Outcome(in, Settle(in)) = "published"
    BY <1>1, <1>7, <1>9, <1>10 DEF Outcome
  <1> QED BY <1>1, <1>11 DEF Report

\* A quarantine is no dead end: over a bundle not reported before, with the checks
\* clean and no notice cleared by an earlier run, the run settles whatever is open and
\* publishes, from every log, record and evidence file runs can leave behind.
THEOREM CleanRunsPublish ==
    ASSUME \A in \in Inputs : in.ok
    PROVE  Spec => []CleanNewBundlePublishes
  <1> DEFINE I == EvidenceInv /\ NoticeInv /\ CleanNewBundlePublishes
                    /\ (job # None /\ job.phase = "record" => job.input \in Inputs)
  <1>1. Init => I
    <2> SUFFICES ASSUME Init PROVE I
      OBVIOUS
    <2>1. job = None
      BY DEF Init
    <2> QED BY <2>1, EvidenceInvInit, NoticeInvInit DEF CleanNewBundlePublishes
  <1>2. I /\ [Next]_vars => I'
    <2> SUFFICES ASSUME I, [Next]_vars PROVE I'
      OBVIOUS
    <2>1. EvidenceInv' /\ NoticeInv'
      BY EvidenceInvStep, NoticeInvStep
    <2>2. job # None => job \in Job
      BY DEF NoticeInv, FiledInv, GateInv, TypeOK
    <2>3. ASSUME NEW in \in Inputs, Report(in) PROVE I'
      <3>1. /\ UNCHANGED <<bundle, log, records>>
            /\ job' # None => job'.input = in
        BY <2>3 DEF Report
      <3>2. Lines' = Lines
        BY <3>1, LogKept
      <3>3. CleanNewBundlePublishes'
        BY <2>3, <3>1, <3>2, CleanReport DEF CleanNewBundlePublishes, Resolutions, Clean
      <3> QED BY <2>1, <2>3, <3>1, <3>3
    <2>4. CASE job' = None \/ job'.phase # "record"
      BY <2>1, <2>4 DEF CleanNewBundlePublishes
    <2>5. CASE UNCHANGED vars
      <3>1. UNCHANGED <<bundle, log, records, job>>
        BY <2>5 DEF vars
      <3>2. Lines' = Lines
        BY <3>1, LogKept
      <3> QED BY <2>1, <3>1, <3>2 DEF CleanNewBundlePublishes, Resolutions
    <2>6. ASSUME NEW e \in (IF job = None THEN {} ELSE job.lines), AppendLine(e)
          PROVE  job'.phase # "record"
      BY <2>2, <2>6 DEF AppendLine, Job
    <2>7. CASE \/ WriteRecord \/ WriteEvidence \/ AppendPublished \/ RemovePage
      BY <2>2, <2>4, <2>7
         DEF WriteRecord, WriteEvidence, AppendPublished, RemovePage, Job
    <2>8. CASE \/ \E f \in Editable : Edit(f)
               \/ \E date \in 1..MaxDate : NewBundle(date)
               \/ EndUnpublished \/ CopyPage \/ Crash
      <3>1. job' = None
        BY <2>8 DEF Edit, NewBundle, EndUnpublished, CopyPage, Crash
      <3> QED BY <2>4, <3>1
    <2> QED BY <2>3, <2>4, <2>5, <2>6, <2>7, <2>8 DEF Next
  <1>3. I => CleanNewBundlePublishes
    OBVIOUS
  <1> QED BY <1>1, <1>2, <1>3, PTL DEF Spec
-------------------------------------------------------------------------------
(***************************************************************************)
(* The settle loop comes to rest.  The rows of a pass depend on three      *)
(* things only: the pairs of Level 1 it fires, whether its page stands     *)
(* under review, and whether it would stand where another page shows.      *)
(***************************************************************************)
Level1(F) == {f \in F : f[2] = 1}

AboveLevel1(F) == {f \in F : f[2] # 1}

\* A fire line a pass notes is one it plans over the settlement.
LEMMA NotedFires ==
    ASSUME TypeOK, NEW F, NEW e \in Noted(F), e.resolution_date = None
    PROVE  e \in PlannedFires(Lines \cup Settlement, bundle.date, F)
  <1> DEFINE L == Lines \cup Settlement
  <1>1. e \notin Settlement
    BY SettlementType
  <1>2. e \notin ClearedNotices(L, bundle.date, F)
    <2> SUFFICES ASSUME NEW x \in OpenEntries(L),
                        e = ResolutionLine(x, "data_correction", bundle.date)
                 PROVE  FALSE
      BY DEF ClearedNotices
    <2>1. x \in QuarantineEvent /\ bundle.date \in Nat
      BY OpenEntry, LinesType, SettlementType DEF TypeOK
    <2>2. "data_correction" \in ResolutionTypes
      BY DEF ResolutionTypes
    <2> QED BY <2>1, <2>2, ResolutionLineType, LogAssumption
  <1> QED BY <1>1, <1>2 DEF Noted, PlanQuarantine

\* The open entries a fired notice has, whatever else its pass fires.
NoticesOf(f) ==
    {e \in OpenEntries(Lines \cup PlannedFires(Lines \cup Settlement, bundle.date, {f})) :
        e.trigger = f[1] /\ e.level = 1}

LEMMA NoticeCount ==
    ASSUME TypeOK, WellFormed(Lines), NEW in \in Input, NEW first, NEW seen,
           seen \subseteq FailingRow, NEW f \in FiredBy(in, seen), f[2] = 1
    PROVE  EntryCount(PassLines(in, first, seen), f) = Cardinality(NoticesOf(f))
  <1> DEFINE F       == FiredBy(in, seen)
             planned == PassLines(in, first, seen)
             after   == Lines \cup planned
             L       == Lines \cup Settlement
             new     == PlannedFires(L, bundle.date, {f})
             S       == {e \in OpenEntries(after) : e.trigger = f[1] /\ e.level = 1}
  <1>1. F \in SUBSET (Triggers \X Levels) /\ f \in F
    BY FiredByType
  <1>2. Noted(F) \subseteq planned
    BY DEF PassLines, FiredBy
  <1>3. \A e \in planned : e \in Noted(F) \/ (e.resolution_date # None /\ e.level \in HeavyLevels)
    BY PassLine
  <1>4. new \subseteq PlannedFires(L, bundle.date, F) /\ PlannedFires(L, bundle.date, F) \subseteq Noted(F)
    BY <1>1 DEF PlannedFires, Noted, PlanQuarantine
  <1>5. \A e \in new : e.resolution_date = None
    BY DEF PlannedFires, FireLine
  <1> HIDE DEF F, planned, new
  <1>6. ASSUME NEW e \in S PROVE e \in NoticesOf(f)
    <2>1. /\ e \in after /\ e.resolution_date = None /\ e.trigger = f[1] /\ e.level = 1
          /\ \A r \in Resolutions(after) : Key(r) # Key(e)
      BY DEF OpenEntries, Resolutions
    <2>2. e \in Lines \cup new
      <3> SUFFICES ASSUME e \in planned PROVE e \in new
        BY <2>1
      <3>1. e \in PlannedFires(L, bundle.date, F)
        BY <1>3, <2>1, NotedFires
      <3>2. PICK g \in F : /\ e = FireLine(bundle.date, g[1], g[2])
                           /\ g[2] = 1 => \A x \in OpenEntries(L) : ~(x.trigger = g[1] /\ x.level = 1)
        BY <3>1 DEF PlannedFires
      <3>3. g[1] = f[1] /\ g[2] = 1
        BY <2>1, <3>2 DEF FireLine
      <3> QED BY <3>2, <3>3 DEF PlannedFires, new
    <2>3. e \in OpenEntries(Lines \cup new)
      BY <1>5, <2>1, <2>2 DEF OpenEntries, Resolutions
    <2> QED BY <2>1, <2>3 DEF NoticesOf, new
  <1>7. ASSUME NEW e \in NoticesOf(f) PROVE e \in S
    <2>1. /\ e \in Lines \cup new /\ e.resolution_date = None /\ e.trigger = f[1] /\ e.level = 1
          /\ \A r \in Resolutions(Lines) : Key(r) # Key(e)
      BY DEF NoticesOf, OpenEntries, Resolutions, new
    <2>2. ASSUME NEW r \in Resolutions(planned), Key(r) = Key(e) PROVE FALSE
      <3>1. r \in planned /\ r.resolution_date # None /\ r.level = 1 /\ r.trigger = f[1]
        BY <2>1, <2>2 DEF Key, Resolutions
      <3>2. r \in Noted(F)
        BY <1>3, <3>1 DEF HeavyLevels
      <3>3. <<f[1], 1>> \notin F
        BY <1>1, <3>1, <3>2, ClosedNotice
      <3>4. f \in Triggers \X Levels
        BY <1>1
      <3> QED BY <1>1, <3>3, <3>4
    <2>3. e \in after
      BY <1>2, <1>4, <2>1
    <2>4. e \in OpenEntries(after)
      BY <2>1, <2>2, <2>3 DEF OpenEntries, Resolutions
    <2> QED BY <2>1, <2>4
  <1>8. S = NoticesOf(f)
    <2> HIDE DEF S
    <2> QED BY <1>6, <1>7
  <1> QED BY <1>8 DEF EntryCount, planned

\* An entry above Level 1 that is fired has one fire line of today: the log's, or
\* the plan's when the log has none.
LEMMA HeavyCount ==
    ASSUME GateInv, WrittenOnce, NEW in \in Input, NEW first, NEW seen,
           seen \subseteq FailingRow, NEW f \in FiredBy(in, seen), f[2] # 1
    PROVE  EntryCount(PassLines(in, first, seen), f) = 1
  <1> DEFINE F        == FiredBy(in, seen)
             planned  == PassLines(in, first, seen)
             L        == Lines \cup Settlement
             k        == <<bundle.date, f[1], f[2]>>
             Fires(e) == e.resolution_date = None /\ Key(e) = k
             A        == {i \in QuarantineIdx(log) : Fires(log[i])}
             B        == {e \in planned : Fires(e)}
  <1>1. TypeOK /\ WellFormed(Lines) /\ ClosedWereOpened /\ Lines \subseteq QuarantineEvent
    BY LinesType DEF GateInv
  <1>2. F \in SUBSET (Triggers \X Levels) /\ f \in F /\ f[2] \in HeavyLevels
    <2>1. F \in SUBSET (Triggers \X Levels) /\ f \in F
      BY FiredByType
    <2> QED BY <2>1 DEF Levels, HeavyLevels
  <1>3. PlannedFires(L, bundle.date, F) \subseteq planned
    BY DEF PassLines, FiredBy, Noted, PlanQuarantine
  <1>4. \A e \in planned : e \in Noted(F) \/ e.resolution_date # None
    BY <1>1, PassLine
  <1> HIDE DEF F, planned
  <1>5. \A e \in B : /\ e = FireLine(bundle.date, f[1], f[2])
                     /\ \A x \in L : Key(x) # k
    <2> SUFFICES ASSUME NEW e \in B
                 PROVE  e = FireLine(bundle.date, f[1], f[2]) /\ \A x \in L : Key(x) # k
      OBVIOUS
    <2>1. e \in PlannedFires(L, bundle.date, F)
      BY <1>1, <1>4, NotedFires
    <2>2. PICK g \in F : /\ e = FireLine(bundle.date, g[1], g[2])
                         /\ g[2] # 1 => \A x \in L : Key(x) # <<bundle.date, g[1], g[2]>>
      BY <2>1 DEF PlannedFires
    <2>3. g[1] = f[1] /\ g[2] = f[2]
      BY <2>2 DEF FireLine, Key
    <2> QED BY <2>2, <2>3
  <1>6. \A i \in A : log[i] \in Lines /\ log[i] \in L
    BY DEF Lines, QuarantineLines
  <1>7. CASE \E i \in A : TRUE
    <2>1. PICK i \in A : TRUE
      BY <1>7
    <2>2. ASSUME NEW j \in A PROVE j = i
      <3>1. log[i] = log[j]
        <4>1. /\ log[i] \in QuarantineEvent /\ log[j] \in QuarantineEvent
              /\ log[i].resolution_type = None /\ log[j].resolution_type = None
          BY <1>1, <1>6 DEF WellFormed
        <4> QED BY <4>1, FireLineOfKey
      <3>2. log[i].level \in HeavyLevels
        BY <1>2 DEF Key
      <3> QED BY <3>1, <3>2 DEF WrittenOnce
    <2>3. A = {i}
      <3> HIDE DEF A
      <3> QED BY <2>1, <2>2
    <2>4. B = {}
      <3> SUFFICES ASSUME NEW e \in B PROVE FALSE
        OBVIOUS
      <3> QED BY <1>5, <1>6, <2>1
    <2>5. Cardinality(A) = 1 /\ Cardinality(B) = 0
      <3> HIDE DEF A, B
      <3> QED BY <2>3, <2>4, FS_Singleton, FS_EmptySet
    <2> HIDE DEF A, B
    <2>6. Cardinality(A) + Cardinality(B) = 1
      BY <2>5
    <2> QED BY <2>6 DEF EntryCount, planned, A, B
  <1>8. CASE \A i \in A : FALSE
    <2> DEFINE new == FireLine(bundle.date, f[1], f[2])
    <2>1. ASSUME NEW x \in L PROVE Key(x) # k
      <3> SUFFICES ASSUME Key(x) = k PROVE FALSE
        OBVIOUS
      <3>1. x.level \in HeavyLevels
        BY <1>2 DEF Key
      <3>2. \A y \in Lines : y.resolution_date = None => Key(y) # k
        <4> SUFFICES ASSUME NEW y \in Lines, y.resolution_date = None, Key(y) = k PROVE FALSE
          OBVIOUS
        <4>1. PICK i \in QuarantineIdx(log) : y = log[i]
          BY DEF Lines, QuarantineLines
        <4> QED BY <1>8, <4>1
      <3>3. k \notin Opened
        BY <3>2 DEF Opened, Keys, Heavy, Resolutions
      <3>4. x \notin Lines
        BY <1>1, <3>1, <3>2, <3>3 DEF ClosedWereOpened, Keys, Heavy, Resolutions
      <3>5. x \notin Settlement
        BY <1>1, <3>3, SettlementType, OpenHeavyIsOpened
      <3> QED BY <3>4, <3>5
    <2>2. new \in PlannedFires(L, bundle.date, F)
      BY <1>2, <2>1 DEF PlannedFires
    <2>3. Fires(new)
      BY DEF FireLine, Key
    <2> HIDE DEF new
    <2>4. B = {new}
      BY <1>3, <1>5, <2>2, <2>3 DEF new
    <2>5. A = {}
      BY <1>8
    <2>6. Cardinality(A) = 0 /\ Cardinality(B) = 1
      <3> HIDE DEF A, B
      <3> QED BY <2>4, <2>5, FS_Singleton, FS_EmptySet
    <2> HIDE DEF A, B
    <2>7. Cardinality(A) + Cardinality(B) = 1
      BY <2>6
    <2> QED BY <1>2, <2>7 DEF EntryCount, planned, A, B
  <1> QED BY <1>7, <1>8

\* What a pass that fires F closes below the resolutions of a green run.
Closing(F) == Settlement \cup ClearedNotices(Lines \cup Settlement, bundle.date, F)

\* A line of the plan has its evidence, from this run or an earlier one.
Proved(e) == \E x \in Supersede(evidence, EvidenceOf({e})) : Evidences(x, e)

LEMMA ProofOfPlanned ==
    ASSUME NEW P, ClosesOnce(P), NEW e \in Resolutions(P)
    PROVE  (\E x \in Proofs(P) : Evidences(x, e)) <=> Proved(e)
  <1>1. EvidenceOf({e}) \subseteq EvidenceOf(P)
    BY DEF EvidenceOf, Resolutions
  <1>2. ASSUME NEW y \in EvidenceOf(P), y.key = Key(e) PROVE y \in EvidenceOf({e})
    <2>1. PICK d \in Resolutions(P) :
             /\ FireRuns(d.date) # {}
             /\ y = [key |-> Key(d), resolution_type |-> d.resolution_type,
                     resolution_date |-> d.resolution_date,
                     fire_value |-> records[FireRun(d.date)].hashes[FieldOf(d.resolution_type)],
                     resolution_value |-> Current[FieldOf(d.resolution_type)]]
      BY DEF EvidenceOf
    <2>2. d = e
      BY <1>2, <2>1 DEF ClosesOnce
    <2>3. e \in Resolutions({e})
      BY DEF Resolutions
    <2> QED BY <2>1, <2>2, <2>3 DEF EvidenceOf
  <1>3. ASSUME NEW x \in Proofs(P), Evidences(x, e) PROVE x \in Supersede(evidence, EvidenceOf({e}))
    BY <1>1, <1>2, <1>3 DEF Proofs, Supersede, Evidences
  <1>4. ASSUME NEW x \in Supersede(evidence, EvidenceOf({e})), Evidences(x, e) PROVE x \in Proofs(P)
    BY <1>1, <1>2, <1>4 DEF Proofs, Supersede, Evidences, SameResolution
  <1> QED BY <1>3, <1>4 DEF Proved

LEMMA ProofOfWritten ==
    ASSUME NEW P, Closes(P), NEW e \in Resolutions(Lines)
    PROVE  (\E x \in Proofs(P) : Evidences(x, e)) <=> (\E x \in evidence : Evidences(x, e))
  <1>1. ASSUME NEW y \in EvidenceOf(P) PROVE y.key # Key(e)
    BY DEF EvidenceOf, Closes, Keys
  <1> QED BY <1>1 DEF Proofs, Supersede, Evidences, SameResolution

\* DET-87 fails for what stands in the log without evidence, or for a line to be
\* closed without any; what a green run closes never fails it.
LEMMA ProofRow ==
    ASSUME TypeOK, WellFormed(Lines), NEW in \in Input, NEW first, NEW seen,
           seen \subseteq FailingRow
    PROVE  (\E e \in Resolutions(Lines \cup PassLines(in, first, seen)) :
               \A x \in Proofs(PassLines(in, first, seen)) : ~Evidences(x, e))
           <=> \/ \E e \in Resolutions(Lines) : \A x \in evidence : ~Evidences(x, e)
               \/ \E e \in Closing(FiredBy(in, seen)) : ~Proved(e)
  <1> DEFINE F       == FiredBy(in, seen)
             planned == PassLines(in, first, seen)
             L       == Lines \cup Settlement
  <1>1. F \in SUBSET (Triggers \X Levels)
    BY FiredByType
  <1>2. Planned(planned)
    <2>1. Pass(in, first, seen).lines = planned
      BY DEF Pass
    <2> HIDE DEF planned
    <2> QED BY <2>1, PassPlanned DEF WellPlanned
  <1>3. Noted(F) \subseteq planned /\ Closing(F) \subseteq Noted(F)
    BY DEF PassLines, FiredBy, Noted, PlanQuarantine, Closing
  <1>4. \A e \in planned : \/ e \in Noted(F)
                           \/ e \in PlanResolutions(Lines \cup Noted(F)) /\ e.resolution_date # None
    BY PassLine
  <1> HIDE DEF F, planned
  <1>5. \A e \in Closing(F) : e.resolution_date # None
    <2>1. \A e \in Settlement : e.resolution_date # None
      BY SettlementType
    <2>2. ASSUME NEW e \in ClearedNotices(L, bundle.date, F) PROVE e.resolution_date # None
      <3>1. PICK x \in OpenEntries(L) : e = ResolutionLine(x, "data_correction", bundle.date)
        BY DEF ClearedNotices
      <3>2. x \in QuarantineEvent /\ bundle.date \in Nat
        BY OpenEntry, LinesType, SettlementType DEF TypeOK
      <3>3. "data_correction" \in ResolutionTypes
        BY DEF ResolutionTypes
      <3> QED BY <3>1, <3>2, <3>3, ResolutionLineType, LogAssumption
    <2> QED BY <2>1, <2>2 DEF Closing
  <1>6. Closing(F) \subseteq Resolutions(planned)
    BY <1>3, <1>5 DEF Resolutions
  <1>7. ASSUME NEW e \in Resolutions(planned) PROVE e \in Closing(F) \/ Proved(e)
    <2>1. e \in planned /\ e.resolution_date # None
      BY DEF Resolutions
    <2>2. CASE e \in Noted(F)
      <3>1. e \notin PlannedFires(L, bundle.date, F)
        BY <2>1 DEF PlannedFires, FireLine
      <3> QED BY <2>2, <3>1 DEF Noted, PlanQuarantine, Closing
    <2>3. CASE e \in PlanResolutions(Lines \cup Noted(F))
      <3>1. Lines \cup Noted(F) \subseteq QuarantineEvent
        BY <1>1, LinesType, NotedLine
      <3>2. \E x \in EvidenceOf({e}) : Evidences(x, e)
        BY <2>3, <3>1, GreenEvidenced
      <3> QED BY <3>2 DEF Proved, Supersede
    <2> QED BY <1>4, <2>1, <2>2, <2>3
  <1>8. \A e \in Resolutions(planned) : (\A x \in Proofs(planned) : ~Evidences(x, e)) <=> ~Proved(e)
    BY <1>2, ProofOfPlanned DEF Planned
  <1>9. \A e \in Resolutions(Lines) : (\A x \in Proofs(planned) : ~Evidences(x, e))
                                        <=> (\A x \in evidence : ~Evidences(x, e))
    BY <1>2, ProofOfWritten DEF Planned
  <1>10. Resolutions(Lines \cup planned) = Resolutions(Lines) \cup Resolutions(planned)
    BY DEF Resolutions
  <1>11. (\E e \in Resolutions(Lines \cup planned) : \A x \in Proofs(planned) : ~Evidences(x, e))
         <=> \/ \E e \in Resolutions(Lines) : \A x \in evidence : ~Evidences(x, e)
             \/ \E e \in Closing(F) : ~Proved(e)
    BY <1>6, <1>7, <1>8, <1>9, <1>10
  <1> QED BY <1>11 DEF F, planned

LEMMA ClosingIs ==
    ASSUME NEW F
    PROVE  Closing(F) = Closing(Level1(F))
  BY DEF Closing, ClearedNotices, Level1

(***************************************************************************)
(* The rows of a pass.                                                     *)
(***************************************************************************)
\* The page of a run that plans P stands under review, or it is held back where
\* its own page shows.
Reviewed(P) ==
    /\ OpenHeavy(Lines \cup P) # {}
    /\ ConsecutiveQuarantinedRuns(log, P) >= ReviewRuns

HeldBack(P) == ~Reviewed(P) /\ OpenHeavy(Lines \cup P) # {} /\ site = ReportHash

Unproved == \E e \in Resolutions(Lines) : \A x \in evidence : ~Evidences(x, e)

Body(in, review) == IF review /\ in.body = "pass" THEN "fail" ELSE in.body

Row(name, cond) == IF cond THEN {Bad(name, "fail")} ELSE {}

\* The rows of a pass that fires the Level 1 pairs F.
RowsOf(in, review, held, F) ==
    (IF Body(in, review) = "pass" THEN {} ELSE {Bad("body", Body(in, review))})
      \cup Row("DET-80", in.missing \/ review)
      \cup Row("DET-60", \E f \in F : Cardinality(NoticesOf(f)) # 1)
      \cup Row("DET-87", Unproved \/ \E e \in Closing(F) : ~Proved(e))
      \cup Row("DET-85", "error" \in {in.prior, Body(in, review)})
      \cup Row("DET-13(a)", review)
      \cup Row("DET-13(d)", held)

LEMMA PassRows ==
    ASSUME GateInv, WrittenOnce, NEW in \in Input, NEW first, NEW seen,
           seen \subseteq FailingRow
    PROVE  Pass(in, first, seen).failing =
               RowsOf(in, Reviewed(PassLines(in, first, seen)),
                      HeldBack(PassLines(in, first, seen)), Level1(FiredBy(in, seen)))
  <1> DEFINE T       == FlagTriggers(in) \cup GateTriggers(in, seen)
             F       == FiredBy(in, seen)
             planned == PassLines(in, first, seen)
             rule60  == \E f \in Fired(T) : EntryCount(planned, f) # 1
             rule87  == \E e \in Resolutions(Lines \cup planned) :
                           \A x \in Proofs(planned) : ~Evidences(x, e)
  <1>1. Pass(in, first, seen).failing = S3Failing(in, T, planned)
    BY DEF Pass
  <1>2. TypeOK /\ WellFormed(Lines)
    BY DEF GateInv
  <1>3. rule60 <=> \E f \in Level1(F) : Cardinality(NoticesOf(f)) # 1
    <2>1. \A f \in F : EntryCount(planned, f) = IF f[2] = 1 THEN Cardinality(NoticesOf(f)) ELSE 1
      BY <1>2, NoticeCount, HeavyCount
    <2>2. F = Fired(T)
      BY DEF FiredBy
    <2> HIDE DEF F, T, planned
    <2> QED BY <2>1, <2>2 DEF Level1
  <1>4. rule87 <=> Unproved \/ \E e \in Closing(Level1(F)) : ~Proved(e)
    <2>1. rule87 <=> Unproved \/ \E e \in Closing(F) : ~Proved(e)
      BY <1>2, ProofRow DEF Unproved
    <2> HIDE DEF F, planned
    <2> QED BY <2>1, ClosingIs
  <1>5. S3Failing(in, T, planned) =
           (IF Body(in, Reviewed(planned)) = "pass" THEN {}
            ELSE {Bad("body", Body(in, Reviewed(planned)))})
             \cup Row("DET-80", in.missing \/ Reviewed(planned))
             \cup Row("DET-60", rule60)
             \cup Row("DET-87", rule87)
             \cup Row("DET-85", "error" \in {in.prior, Body(in, Reviewed(planned))})
             \cup Row("DET-13(a)", Reviewed(planned))
             \cup Row("DET-13(d)", HeldBack(planned))
    <2> HIDE DEF T, planned
    <2> QED BY Zenon DEF S3Failing, Body, Row, Reviewed, HeldBack
  <1> HIDE DEF T, F, planned, rule60, rule87
  <1>6. Row("DET-60", rule60) = Row("DET-60", \E f \in Level1(F) : Cardinality(NoticesOf(f)) # 1)
    BY <1>3 DEF Row
  <1>7. Row("DET-87", rule87) = Row("DET-87", Unproved \/ \E e \in Closing(Level1(F)) : ~Proved(e))
    BY <1>4 DEF Row
  <1>8. S3Failing(in, T, planned) = RowsOf(in, Reviewed(planned), HeldBack(planned), Level1(F))
    BY <1>5, <1>6, <1>7, Zenon DEF RowsOf
  <1> QED BY <1>1, <1>8 DEF planned, F

\* Which rows a pass has, one by one.
RowsAre(S, in, review, held, F) ==
    /\ S \subseteq FailingRow
    /\ \A b \in S : b.row \in S3Rows \cup {"DET-80"} /\ (b.row # "body" => b.result = "fail")
    /\ (\E b \in S : b.row = "body") <=> (in.body # "pass" \/ review)
    /\ (\E b \in S : b.row = "DET-80") <=> (in.missing \/ review)
    /\ (\E b \in S : b.row = "DET-60") <=> (\E f \in F : Cardinality(NoticesOf(f)) # 1)
    /\ (\E b \in S : b.row = "DET-85") <=> (in.prior = "error" \/ in.body = "error")
    /\ (\E b \in S : b.row = "DET-13(a)") <=> review
    /\ (\E b \in S : b.row = "DET-13(d)") <=> held

LEMMA RowMember ==
    ASSUME NEW name, NEW cond, NEW b
    PROVE  b \in Row(name, cond) <=> (cond /\ b = Bad(name, "fail"))
  BY DEF Row

LEMMA RowIn ==
    ASSUME NEW in \in Input, NEW review \in BOOLEAN, NEW held \in BOOLEAN, NEW F
    PROVE  RowsAre(RowsOf(in, review, held, F), in, review, held, F)
  <1> DEFINE S == RowsOf(in, review, held, F)
             c60 == \E f \in F : Cardinality(NoticesOf(f)) # 1
             c87 == Unproved \/ \E e \in Closing(F) : ~Proved(e)
             body == Body(in, review)
             c80 == in.missing \/ review
             c85 == "error" \in {in.prior, body}
             base == IF body = "pass" THEN {} ELSE {Bad("body", body)}
  <1>1. in.body \in Results /\ in.prior \in Results /\ in.missing \in BOOLEAN
    BY DEF Input
  <1>2. /\ body \in Results
        /\ (body # "pass") <=> (in.body # "pass" \/ review)
        /\ (body = "error") <=> (in.body = "error")
    BY <1>1 DEF Body, Results
  <1>3. S = base \cup Row("DET-80", c80) \cup Row("DET-60", c60)
              \cup Row("DET-87", c87) \cup Row("DET-85", c85)
              \cup Row("DET-13(a)", review) \cup Row("DET-13(d)", held)
    BY DEF RowsOf
  <1>4. \A b : b \in base <=> (body # "pass" /\ b = Bad("body", body))
    OBVIOUS
  <1>5. c85 <=> (in.prior = "error" \/ in.body = "error")
    BY <1>2
  <1> HIDE DEF S, body, c60, c87, c80, c85, base
  <1>6. \A b : b \in S <=> \/ body # "pass" /\ b = Bad("body", body)
                           \/ c80 /\ b = Bad("DET-80", "fail")
                           \/ c60 /\ b = Bad("DET-60", "fail")
                           \/ c87 /\ b = Bad("DET-87", "fail")
                           \/ c85 /\ b = Bad("DET-85", "fail")
                           \/ review /\ b = Bad("DET-13(a)", "fail")
                           \/ held /\ b = Bad("DET-13(d)", "fail")
    <2> TAKE b
    <2>1. b \in base <=> (body # "pass" /\ b = Bad("body", body))
      BY <1>4
    <2>2. /\ b \in Row("DET-80", c80) <=> (c80 /\ b = Bad("DET-80", "fail"))
          /\ b \in Row("DET-60", c60) <=> (c60 /\ b = Bad("DET-60", "fail"))
          /\ b \in Row("DET-87", c87) <=> (c87 /\ b = Bad("DET-87", "fail"))
      BY Zenon, RowMember
    <2>3. /\ b \in Row("DET-85", c85) <=> (c85 /\ b = Bad("DET-85", "fail"))
          /\ b \in Row("DET-13(a)", review) <=> (review /\ b = Bad("DET-13(a)", "fail"))
          /\ b \in Row("DET-13(d)", held) <=> (held /\ b = Bad("DET-13(d)", "fail"))
      BY Zenon, RowMember
    <2> QED BY <1>3, <2>1, <2>2, <2>3, Zenon
  <1>7. \A r, x : Bad(r, x).row = r /\ Bad(r, x).result = x /\ Bad(r, x) = [row |-> r, result |-> x]
    BY DEF Bad
  <1>8. S \subseteq FailingRow
    <2>1. \A r \in Rows : Bad(r, "fail") \in FailingRow
      BY <1>7 DEF FailingRow, Results
    <2>2. Bad("body", body) \in FailingRow
      BY <1>2, <1>7 DEF FailingRow, Rows, S3Rows
    <2>3. {"DET-80", "DET-60", "DET-87", "DET-85", "DET-13(a)", "DET-13(d)"} \subseteq Rows
      BY DEF Rows, S3Rows
    <2> QED BY <1>6, <2>1, <2>2, <2>3
  <1>9. \A b \in S : b.row \in S3Rows \cup {"DET-80"} /\ (b.row # "body" => b.result = "fail")
    <2> SUFFICES ASSUME NEW b \in S
                 PROVE  b.row \in S3Rows \cup {"DET-80"} /\ (b.row # "body" => b.result = "fail")
      OBVIOUS
    <2>1. \/ b = Bad("body", body) \/ b = Bad("DET-80", "fail") \/ b = Bad("DET-60", "fail")
          \/ b = Bad("DET-87", "fail") \/ b = Bad("DET-85", "fail")
          \/ b = Bad("DET-13(a)", "fail") \/ b = Bad("DET-13(d)", "fail")
      BY <1>6
    <2> QED BY <1>7, <2>1 DEF S3Rows
  <1>10. (\E b \in S : b.row = "body") <=> (in.body # "pass" \/ review)
    <2>1. (\E b \in S : b.row = "body") <=> body # "pass"
      BY <1>6, <1>7
    <2> QED BY <1>2, <2>1
  <1>11. (\E b \in S : b.row = "DET-80") <=> c80
    BY <1>6, <1>7
  <1>12. (\E b \in S : b.row = "DET-60") <=> c60
    BY <1>6, <1>7
  <1>13. (\E b \in S : b.row = "DET-85") <=> c85
    BY <1>6, <1>7
  <1>14. (\E b \in S : b.row = "DET-13(a)") <=> review
    BY <1>6, <1>7
  <1>15. (\E b \in S : b.row = "DET-13(d)") <=> held
    BY <1>6, <1>7
  <1>16. (\E b \in S : b.row = "DET-85") <=> (in.prior = "error" \/ in.body = "error")
    BY <1>5, <1>13
  <1>17. (\E b \in S : b.row = "DET-80") <=> (in.missing \/ review)
    BY <1>11 DEF c80
  <1>18. (\E b \in S : b.row = "DET-60") <=> (\E f \in F : Cardinality(NoticesOf(f)) # 1)
    BY <1>12 DEF c60
  <1>19. RowsAre(S, in, review, held, F)
    BY <1>8, <1>9, <1>10, <1>14, <1>15, <1>16, <1>17, <1>18, Zenon DEF RowsAre
  <1> QED BY <1>19 DEF S

(***************************************************************************)
(* What the rows of a pass fire in the next.                               *)
(***************************************************************************)
Flagged(in) == in.flags

\* A row above DET-80's.
Withholding(S) == {b \in S : b.row # "DET-80"}

\* The level and trigger of a failing row, by row.
LEMMA GateLevel ==
    ASSUME NEW b
    PROVE  GateTrigger(b).level = IF b.row = "DET-80" /\ b.result = "fail" THEN 1 ELSE 2
  BY Zenon DEF GateTrigger

LEMMA GateTriggerOf ==
    ASSUME NEW b
    PROVE  /\ b.row \in {"DET-13(a)", "DET-13(d)", "DET-87"} => GateTrigger(b).trigger = 23
           /\ b.row = "DET-85" => GateTrigger(b).trigger = 25
           /\ b.row \in {"body", "DET-60", "DET-80"} => GateTrigger(b).trigger = 28
  <1>1. GateTrigger(b).trigger = CASE b.row \in {"DET-13(a)", "DET-13(d)", "DET-87"} -> 23
                                   [] b.row = "DET-85" -> 25
                                   [] OTHER -> 28
    BY DEF GateTrigger
  <1>2. ASSUME b.row \in {"DET-13(a)", "DET-13(d)", "DET-87"} PROVE GateTrigger(b).trigger = 23
    BY <1>1, <1>2
  <1>3. ASSUME b.row = "DET-85" PROVE GateTrigger(b).trigger = 25
    BY <1>1, <1>3
  <1>4. ASSUME b.row \in {"body", "DET-60", "DET-80"} PROVE GateTrigger(b).trigger = 28
    BY <1>1, <1>4
  <1> QED BY <1>2, <1>3, <1>4

LEMMA FlagsFire ==
    ASSUME NEW in \in Input
    PROVE  Fired(FlagTriggers(in)) = Flagged(in)
  <1>1. \A f \in in.flags : f = <<f[1], f[2]>>
    <2>1. in.flags \subseteq Triggers \X Levels
      BY GateAssumption DEF Input
    <2> QED BY <2>1
  <1>2. ASSUME NEW f \in Fired(FlagTriggers(in)) PROVE f \in Flagged(in)
    <2>1. PICK t \in FlagTriggers(in) : f = <<t.trigger, t.level>>
      BY <1>2 DEF Fired
    <2>2. PICK n \in in.flags : t = [trigger |-> n[1], level |-> n[2], source |-> "flag"]
      BY DEF FlagTriggers
    <2>3. t.trigger = n[1] /\ t.level = n[2]
      BY <2>2
    <2> QED BY <1>1, <2>1, <2>3 DEF Flagged
  <1>3. ASSUME NEW f \in Flagged(in) PROVE f \in Fired(FlagTriggers(in))
    <2> DEFINE t == [trigger |-> f[1], level |-> f[2], source |-> "flag"]
    <2>1. f \in in.flags
      BY <1>3 DEF Flagged
    <2>2. t \in FlagTriggers(in)
      BY <2>1 DEF FlagTriggers
    <2>3. f = <<t.trigger, t.level>>
      BY <1>1, <2>1
    <2> HIDE DEF t
    <2> QED BY <2>2, <2>3 DEF Fired
  <1> QED BY <1>2, <1>3

LEMMA FiredNotices ==
    ASSUME NEW in \in Input, NEW seen, \A b \in seen : b.row = "DET-80" => b.result = "fail"
    PROVE  Level1(FiredBy(in, seen)) =
               Flagged(in) \cup IF \E b \in seen : b.row = "DET-80" THEN {<<28, 1>>} ELSE {}
  <1> DEFINE G == {<<t.trigger, t.level>> : t \in GateTriggers(in, seen)}
  <1>1. FiredBy(in, seen) = Flagged(in) \cup G
    <2>1. FiredBy(in, seen) = Fired(FlagTriggers(in)) \cup G
      BY DEF FiredBy, Fired
    <2>2. Fired(FlagTriggers(in)) = Flagged(in)
      BY FlagsFire
    <2> QED BY <2>1, <2>2
  <1>2. \A b \in PriorBad(in) : b.row # "DET-80"
    BY DEF PriorBad, Bad
  <1>3. \A f : f \in G <=> \E b \in PriorBad(in) \cup seen : f = <<GateTrigger(b).trigger, GateTrigger(b).level>>
    BY DEF GateTriggers
  <1>4. \A b \in seen : b.row = "DET-80" => GateTrigger(b).trigger = 28 /\ GateTrigger(b).level = 1
    BY GateLevel, GateTriggerOf
  <1>5. \A b : b.row # "DET-80" => GateTrigger(b).level = 2
    BY GateLevel
  <1>6. \A f \in Flagged(in) : f[2] = 1
    BY FlagsAreNotices DEF Flagged, Input
  <1> HIDE DEF G
  <1>7. Level1(G) = IF \E b \in seen : b.row = "DET-80" THEN {<<28, 1>>} ELSE {}
    <2>1. \A f : f \in Level1(G) <=> f \in G /\ f[2] = 1
      BY DEF Level1
    <2>2. \A b : <<GateTrigger(b).trigger, GateTrigger(b).level>>[2] = GateTrigger(b).level
      OBVIOUS
    <2> QED BY <1>2, <1>3, <1>4, <1>5, <2>1, <2>2
  <1> QED BY <1>1, <1>6, <1>7 DEF Level1

LEMMA FiredAbove ==
    ASSUME NEW in \in Input, NEW seen, \A b \in seen : b.row = "DET-80" => b.result = "fail"
    PROVE  \A f : f \in AboveLevel1(FiredBy(in, seen))
                     <=> \E b \in PriorBad(in) \cup Withholding(seen) : f = <<GateTrigger(b).trigger, 2>>
  <1> DEFINE G == {<<t.trigger, t.level>> : t \in GateTriggers(in, seen)}
  <1>1. FiredBy(in, seen) = Flagged(in) \cup G
    <2>1. FiredBy(in, seen) = Fired(FlagTriggers(in)) \cup G
      BY DEF FiredBy, Fired
    <2>2. Fired(FlagTriggers(in)) = Flagged(in)
      BY FlagsFire
    <2> QED BY <2>1, <2>2
  <1>2. \A b \in PriorBad(in) : b.row # "DET-80"
    BY DEF PriorBad, Bad
  <1>3. \A f : f \in G <=> \E b \in PriorBad(in) \cup seen : f = <<GateTrigger(b).trigger, GateTrigger(b).level>>
    BY DEF GateTriggers
  <1>4. \A b \in seen : b.row = "DET-80" => GateTrigger(b).level = 1
    BY GateLevel
  <1>5. \A b : b.row # "DET-80" => GateTrigger(b).level = 2
    BY GateLevel
  <1>6. \A f \in Flagged(in) : f[2] = 1
    BY FlagsAreNotices DEF Flagged, Input
  <1> HIDE DEF G
  <1>7. \A f : f \in AboveLevel1(FiredBy(in, seen)) <=> f \in G /\ f[2] # 1
    BY <1>1, <1>6 DEF AboveLevel1
  <1>8. \A b : <<GateTrigger(b).trigger, GateTrigger(b).level>>[2] = GateTrigger(b).level
    OBVIOUS
  <1> QED BY <1>2, <1>3, <1>4, <1>5, <1>7, <1>8 DEF Withholding

\* A pass that sees the rows of one under review, or of one held back, fires above
\* Level 1 whatever that one fired.
LEMMA PairsKept ==
    ASSUME NEW in \in Input, NEW review \in BOOLEAN, NEW held \in BOOLEAN, NEW F,
           NEW was \in BOOLEAN, NEW stood \in BOOLEAN, NEW E, NEW seen,
           seen = {} \/ seen = RowsOf(in, was, stood, E),
           review \/ (held /\ ~was /\ E \subseteq F)
    PROVE  AboveLevel1(FiredBy(in, seen)) \subseteq AboveLevel1(FiredBy(in, RowsOf(in, review, held, F)))
  <1> DEFINE now == RowsOf(in, review, held, F)
  <1>1. RowsAre(now, in, review, held, F)
    BY RowIn
  <1>2. seen = {} \/ RowsAre(seen, in, was, stood, E)
    BY RowIn
  <1> HIDE DEF now
  <1>3. ASSUME NEW b \in Withholding(seen)
        PROVE  \E c \in Withholding(now) : GateTrigger(c).trigger = GateTrigger(b).trigger
    <2>1. RowsAre(seen, in, was, stood, E) /\ b \in seen /\ b.row \in S3Rows
      <3>1. b \in seen /\ b.row # "DET-80"
        BY <1>3 DEF Withholding
      <3>2. RowsAre(seen, in, was, stood, E)
        BY <1>2, <3>1
      <3> QED BY <3>1, <3>2 DEF RowsAre
    <2>2. \A c \in now : c.row # "DET-80" => c \in Withholding(now)
      BY DEF Withholding
    <2>3. PICK c \in now : c.row \in {"DET-13(a)", "DET-13(d)"}
      BY <1>1 DEF RowsAre
    <2>4. CASE b.row \in {"DET-87", "DET-13(a)", "DET-13(d)"}
      <3>1. GateTrigger(c).trigger = 23 /\ GateTrigger(b).trigger = 23
        BY <2>3, <2>4, GateTriggerOf
      <3> QED BY <2>2, <2>3, <3>1
    <2>5. CASE b.row = "DET-85"
      <3>1. PICK d \in now : d.row = "DET-85"
        BY <1>1, <2>1, <2>5 DEF RowsAre
      <3>2. GateTrigger(d).trigger = 25 /\ GateTrigger(b).trigger = 25
        BY <2>5, <3>1, GateTriggerOf
      <3> QED BY <2>2, <3>1, <3>2
    <2>6. CASE b.row \in {"body", "DET-60"}
      <3>1. \E d \in now : d.row \in {"body", "DET-60"}
        <4>1. CASE review
          BY <1>1, <4>1 DEF RowsAre
        <4>2. CASE ~review /\ b.row = "body"
          <5>1. in.body # "pass"
            BY <2>1, <4>2 DEF RowsAre
          <5> QED BY <1>1, <5>1 DEF RowsAre
        <4>3. CASE ~review /\ b.row = "DET-60"
          <5>1. \E f \in E : Cardinality(NoticesOf(f)) # 1
            BY <2>1, <4>3 DEF RowsAre
          <5>2. \E f \in F : Cardinality(NoticesOf(f)) # 1
            BY <4>3, <5>1
          <5> QED BY <1>1, <5>2 DEF RowsAre
        <4> QED BY <2>6, <4>1, <4>2, <4>3
      <3>2. PICK d \in now : d.row \in {"body", "DET-60"}
        BY <3>1
      <3>3. GateTrigger(d).trigger = 28 /\ GateTrigger(b).trigger = 28
        BY <2>6, <3>2, GateTriggerOf
      <3> QED BY <2>2, <3>2, <3>3
    <2>7. b.row \in {"DET-87", "DET-13(a)", "DET-13(d)"} \/ b.row = "DET-85" \/ b.row \in {"body", "DET-60"}
      BY <2>1 DEF S3Rows
    <2> QED BY <2>4, <2>5, <2>6, <2>7
  <1>4. \A b \in now : b.row = "DET-80" => b.result = "fail"
    BY <1>1 DEF RowsAre
  <1>5. \A b \in seen : b.row = "DET-80" => b.result = "fail"
    BY <1>2 DEF RowsAre
  <1>6. \A f : f \in AboveLevel1(FiredBy(in, seen))
                 <=> \E b \in PriorBad(in) \cup Withholding(seen) : f = <<GateTrigger(b).trigger, 2>>
    BY <1>5, FiredAbove
  <1>7. \A f : f \in AboveLevel1(FiredBy(in, now))
                 <=> \E b \in PriorBad(in) \cup Withholding(now) : f = <<GateTrigger(b).trigger, 2>>
    BY <1>4, FiredAbove
  <1>8. AboveLevel1(FiredBy(in, seen)) \subseteq AboveLevel1(FiredBy(in, now))
    BY <1>3, <1>6, <1>7
  <1> QED BY <1>8 DEF now

(***************************************************************************)
(* From one pass to the next.                                              *)
(***************************************************************************)
\* What a pass leaves open above Level 1, a later pass that is not green and fires
\* as much leaves open too.
LEMMA OpenGrows ==
    ASSUME TypeOK, NEW in \in Input, NEW first, NEW seen, seen \subseteq FailingRow,
           NEW next, next \subseteq FailingRow, ~Green(in, FALSE, next),
           AboveLevel1(FiredBy(in, seen)) \subseteq AboveLevel1(FiredBy(in, next)),
           NEW x \in OpenHeavy(Lines \cup PassLines(in, first, seen))
    PROVE  /\ x \in OpenHeavy(Lines \cup PassLines(in, FALSE, next))
           /\ x \in PassLines(in, first, seen) => x \in PassLines(in, FALSE, next)
  <1> DEFINE F == FiredBy(in, seen)
             G == FiredBy(in, next)
             P == PassLines(in, first, seen)
             Q == PassLines(in, FALSE, next)
             L == Lines \cup Settlement
  <1>1. G \in SUBSET (Triggers \X Levels)
    BY FiredByType
  <1>2. Q = Noted(G)
    <2>1. Q = Noted(G) \cup {e \in PlanResolutions(Lines \cup Noted(G)) : Green(in, FALSE, next)}
      BY DEF PassLines, FiredBy
    <2> HIDE DEF Q, G
    <2> QED BY <2>1
  <1>3. Settlement \subseteq P
    BY DEF PassLines, Noted
  <1>4. \A e \in P : e \in Noted(F) \/ e.resolution_date # None
    BY PassLine
  <1>5. AboveLevel1(F) \subseteq G
    BY DEF AboveLevel1
  <1>6. F \in SUBSET (Triggers \X Levels)
    BY FiredByType
  <1>7. x \in OpenHeavy(Lines \cup P)
    OBVIOUS
  <1> HIDE DEF F, G, P, Q
  <1>8. /\ x \in Lines \cup P /\ x.resolution_date = None /\ x.level \in HeavyLevels
        /\ \A r \in Lines \cup P : r.resolution_date # None => Key(r) # Key(x)
    BY <1>7 DEF OpenHeavy, OpenEntries, Resolutions
  <1>9. ASSUME x \in P PROVE x \in Q
    <2>1. x \in PlannedFires(L, bundle.date, F)
      BY <1>4, <1>6, <1>8, <1>9, NotedFires
    <2>2. PICK g \in F : /\ x = FireLine(bundle.date, g[1], g[2])
                         /\ IF g[2] = 1
                            THEN \A e \in OpenEntries(L) : ~(e.trigger = g[1] /\ e.level = 1)
                            ELSE \A e \in L : Key(e) # <<bundle.date, g[1], g[2]>>
      BY <2>1 DEF PlannedFires
    <2>3. g[2] # 1
      BY <1>8, <2>2 DEF FireLine, HeavyLevels
    <2>4. g \in G
      BY <1>5, <2>2, <2>3 DEF AboveLevel1
    <2>5. x \in PlannedFires(L, bundle.date, G)
      BY <2>2, <2>3, <2>4 DEF PlannedFires
    <2> QED BY <1>2, <2>5 DEF Noted, PlanQuarantine
  <1>10. ASSUME NEW r \in Lines \cup Q, r.resolution_date # None, Key(r) = Key(x) PROVE FALSE
    <2>1. r \notin Lines
      BY <1>8, <1>10
    <2>2. r \in Noted(G)
      BY <1>2, <1>10, <2>1
    <2>3. r \in Settlement \/ r.level = 1
      BY <1>1, <1>10, <2>2, NotedLine
    <2>4. r.level \in HeavyLevels
      BY <1>8, <1>10 DEF Key
    <2>5. r \in P
      BY <1>3, <2>3, <2>4 DEF HeavyLevels
    <2> QED BY <1>8, <1>10, <2>5
  <1>11. x \in OpenHeavy(Lines \cup Q)
    BY <1>8, <1>9, <1>10 DEF OpenHeavy, OpenEntries, Resolutions
  <1> QED BY <1>9, <1>11 DEF P, Q

\* The dates DET-59 counts.
CountedDates(P) ==
    {e.date : e \in OpenHeavy(Lines \cup P)
                       \cap ({log[i] : i \in {j \in QuarantineIdx(log) : j > LastPublished(log)}} \cup P)}

LEMMA Counted ==
    ASSUME NEW P
    PROVE  ConsecutiveQuarantinedRuns(log, P) = Cardinality(CountedDates(P))
  BY DEF ConsecutiveQuarantinedRuns, CountedDates, Lines

LEMMA CountedFinite ==
    ASSUME NEW P, IsFiniteSet(Lines \cup P)
    PROVE  IsFiniteSet(CountedDates(P))
  <1> DEFINE S == Lines \cup P
             f == [e \in S |-> e.date]
  <1>1. \A y \in CountedDates(P) : \E e \in S : y = f[e]
    BY DEF CountedDates, OpenHeavy, OpenEntries
  <1> HIDE DEF S, f
  <1>2. IsFiniteSet(S)
    BY DEF S
  <1> QED BY <1>1, <1>2, FiniteImage

LEMMA ReviewGrows ==
    ASSUME TypeOK, NEW in \in Input, NEW first, NEW seen, seen \subseteq FailingRow,
           NEW next, next \subseteq FailingRow, ~Green(in, FALSE, next),
           AboveLevel1(FiredBy(in, seen)) \subseteq AboveLevel1(FiredBy(in, next))
    PROVE  /\ OpenHeavy(Lines \cup PassLines(in, first, seen)) # {}
                => OpenHeavy(Lines \cup PassLines(in, FALSE, next)) # {}
           /\ Reviewed(PassLines(in, first, seen)) => Reviewed(PassLines(in, FALSE, next))
  <1> DEFINE P == PassLines(in, first, seen)
             Q == PassLines(in, FALSE, next)
  <1>1. \A x \in OpenHeavy(Lines \cup P) : x \in OpenHeavy(Lines \cup Q) /\ (x \in P => x \in Q)
    BY OpenGrows
  <1>2. IsFiniteSet(Lines \cup P) /\ IsFiniteSet(Lines \cup Q)
    BY PassFinite
  <1> HIDE DEF P, Q
  <1>3. CountedDates(P) \subseteq CountedDates(Q)
    BY <1>1 DEF CountedDates
  <1>4. IsFiniteSet(CountedDates(P)) /\ IsFiniteSet(CountedDates(Q))
    BY <1>2, CountedFinite
  <1>5. Cardinality(CountedDates(P)) <= Cardinality(CountedDates(Q))
    BY <1>3, <1>4, FS_Subset
  <1>6. Cardinality(CountedDates(P)) \in Nat /\ Cardinality(CountedDates(Q)) \in Nat /\ ReviewRuns \in Nat
    BY <1>4, FS_CardinalityType, GateAssumption
  <1>7. Reviewed(P) => Reviewed(Q)
    BY <1>1, <1>5, <1>6, Counted DEF Reviewed
  <1> QED BY <1>1, <1>7 DEF P, Q

\* A pass after one under review, or after one held back, is not green.
LEMMA NotGreen ==
    ASSUME NEW in \in Input, NEW review \in BOOLEAN, NEW held \in BOOLEAN, NEW F, review \/ held
    PROVE  ~Green(in, FALSE, RowsOf(in, review, held, F))
  <1> DEFINE S == RowsOf(in, review, held, F)
  <1>1. RowsAre(S, in, review, held, F)
    BY RowIn
  <1> HIDE DEF S
  <1>2. \E b \in S : b.row \in {"DET-13(a)", "DET-13(d)"}
    BY <1>1 DEF RowsAre
  <1>3. ~Green(in, FALSE, S)
    BY <1>2 DEF Green
  <1> QED BY <1>3 DEF S

(***************************************************************************)
(* What a page says of the log it stands over.                             *)
(***************************************************************************)
\* A page of this bundle was published over a log without an open Level 2/3 entry:
\* those open now were fired on this bundle's date since.
PageDated ==
    site # Absent =>
        /\ site[1] <= bundle.block
        /\ site[1] = bundle.block => \A e \in OpenHeavy(Lines) : e.date = bundle.date

\* Between the published line and the page, nothing above Level 1 stands open.
AnnouncedClean ==
    (job # None /\ job.phase \in {"remove", "copy"}) => OpenHeavy(Lines) = {}

SettleInv == FiledInv /\ WrittenOnce /\ PageDated /\ AnnouncedClean

LEMMA SettleInvInit == Init => SettleInv
  <1> SUFFICES ASSUME Init PROVE SettleInv
    OBVIOUS
  <1>1. FiledInv
    BY FiledInvInit
  <1>2. WrittenOnce
    BY DEF Init, WrittenOnce, QuarantineIdx
  <1>3. PageDated /\ AnnouncedClean
    BY DEF Init, PageDated, AnnouncedClean
  <1> QED BY <1>1, <1>2, <1>3 DEF SettleInv

LEMMA SettleInvStep == SettleInv /\ [Next]_vars => SettleInv'
  <1> SUFFICES ASSUME SettleInv, [Next]_vars PROVE SettleInv'
    OBVIOUS
  <1>1. FiledInv /\ FiledInv' /\ GateInv /\ TypeOK /\ WrittenOnce /\ WrittenOnce'
    BY FiledInvStep, WrittenOnceStep DEF SettleInv, FiledInv, GateInv
  <1>2. PageDated /\ AnnouncedClean /\ JobFiled /\ JobPlanned
    BY DEF SettleInv, FiledInv, GateInv
  <1>3. /\ bundle.block \in Nat
        /\ site \in (Nat \X Nat) \cup {Absent}
        /\ job # None => job \in Job
    BY <1>1, GateAssumption DEF TypeOK
  <1>4. CASE /\ UNCHANGED <<bundle, log, site>>
             /\ job' = job \/ job' = None \/ job'.phase \in {"record", "evidence", "log"}
    <2>1. Lines' = Lines
      BY <1>4, LogKept
    <2>2. PageDated'
      BY <1>2, <1>4, <2>1 DEF PageDated
    <2>3. AnnouncedClean'
      BY <1>2, <1>4, <2>1 DEF AnnouncedClean
    <2> QED BY <1>1, <2>2, <2>3 DEF SettleInv
  <1>5. ASSUME NEW date \in 1..MaxDate, NewBundle(date) PROVE SettleInv'
    <2>1. /\ job' = None /\ site' = site /\ bundle'.block = bundle.block + 1
      BY <1>5 DEF NewBundle
    <2>2. PageDated'
      BY <1>2, <1>3, <2>1 DEF PageDated
    <2>3. AnnouncedClean'
      BY <2>1 DEF AnnouncedClean
    <2> QED BY <1>1, <2>2, <2>3 DEF SettleInv
  <1>6. ASSUME NEW e \in job.lines, job # None, AppendLine(e) PROVE SettleInv'
    <2>1. /\ job.phase = "log" /\ log' = Append(log, e) /\ UNCHANGED <<bundle, site>>
          /\ job' = [job EXCEPT !.lines = @ \ {e}]
      BY <1>6 DEF AppendLine
    <2>2. job'.phase = "log"
      BY <1>3, <1>6, <2>1 DEF Job
    <2>3. e \in QuarantineEvent
      BY <1>3, <1>6 DEF Job
    <2>4. Lines' = Lines \cup {e}
      BY <1>1, <2>1, <2>3, AppendedLine
    <2>5. e.resolution_date = None => e.date = bundle.date
      BY <1>2, <1>6 DEF JobFiled
    <2>6. ASSUME NEW x \in OpenHeavy(Lines)' PROVE x \in OpenHeavy(Lines) \/ x.date = bundle.date
      <3>1. /\ x \in Lines \cup {e} /\ x.resolution_date = None /\ x.level \in HeavyLevels
            /\ \A r \in Lines \cup {e} : r.resolution_date # None => Key(r) # Key(x)
        BY <2>4, <2>6 DEF OpenHeavy, OpenEntries, Resolutions
      <3> QED BY <2>5, <3>1 DEF OpenHeavy, OpenEntries, Resolutions
    <2>7. PageDated'
      BY <1>2, <2>1, <2>6 DEF PageDated
    <2>8. AnnouncedClean'
      BY <2>2 DEF AnnouncedClean
    <2> QED BY <1>1, <2>7, <2>8 DEF SettleInv
  <1>7. ASSUME AppendPublished PROVE SettleInv'
    <2>1. /\ job # None /\ job.phase = "log" /\ job.lines = {} /\ job.outcome = "published"
          /\ log' = Append(log, PublishedLine(bundle.date, bundle.block))
          /\ UNCHANGED <<bundle, site>>
      BY <1>7 DEF AppendPublished
    <2>2. Lines' = Lines
      BY <1>1, <2>1, AppendedPublished
    <2>3. OpenHeavy(Lines) = {}
      <3>1. OpenHeavy(Lines \cup job.lines) = {}
        BY <1>2, <2>1 DEF JobPlanned
      <3>2. Lines \cup job.lines = Lines
        BY <2>1
      <3> QED BY <3>1, <3>2
    <2>4. PageDated'
      BY <1>2, <2>1, <2>2 DEF PageDated
    <2>5. AnnouncedClean'
      BY <2>2, <2>3 DEF AnnouncedClean
    <2> QED BY <1>1, <2>4, <2>5 DEF SettleInv
  <1>8. ASSUME RemovePage PROVE SettleInv'
    <2>1. /\ job # None /\ job.phase = "remove" /\ site' = Absent
          /\ UNCHANGED <<bundle, log>>
      BY <1>8 DEF RemovePage
    <2>2. Lines' = Lines
      BY <2>1, LogKept
    <2>3. PageDated'
      BY <2>1 DEF PageDated
    <2>4. AnnouncedClean'
      BY <1>2, <2>1, <2>2 DEF AnnouncedClean
    <2> QED BY <1>1, <2>3, <2>4 DEF SettleInv
  <1>9. ASSUME CopyPage PROVE SettleInv'
    <2>1. /\ job # None /\ job.phase = "copy" /\ site' = ReportHash /\ job' = None
          /\ UNCHANGED <<bundle, log>>
      BY <1>9 DEF CopyPage
    <2>2. Lines' = Lines
      BY <2>1, LogKept
    <2>3. OpenHeavy(Lines) = {}
      BY <1>2, <2>1 DEF AnnouncedClean
    <2>4. ReportHash[1] = bundle.block
      BY DEF ReportHash
    <2>5. PageDated'
      BY <1>3, <2>1, <2>2, <2>3, <2>4 DEF PageDated
    <2>6. AnnouncedClean'
      BY <2>1 DEF AnnouncedClean
    <2> QED BY <1>1, <2>5, <2>6 DEF SettleInv
  <1>10. ASSUME NEW f \in Editable, Edit(f) PROVE SettleInv'
    BY <1>4, <1>10 DEF Edit
  <1>11. ASSUME NEW in \in Inputs, Report(in) PROVE SettleInv'
    <2>1. job' # None => job'.phase = "record"
      BY <1>11, ReportDecides, <1>1 DEF GateInv
    <2>2. UNCHANGED <<bundle, log, site>>
      BY <1>11 DEF Report
    <2> QED BY <1>4, <2>1, <2>2
  <1>12. ASSUME WriteRecord PROVE SettleInv'
    <2>1. job'.phase = "evidence"
      BY <1>3, <1>12 DEF WriteRecord, Job
    <2> QED BY <1>4, <1>12, <2>1 DEF WriteRecord
  <1>13. ASSUME WriteEvidence PROVE SettleInv'
    <2>1. job'.phase = "log"
      BY <1>3, <1>13 DEF WriteEvidence, Job
    <2> QED BY <1>4, <1>13, <2>1 DEF WriteEvidence
  <1>14. ASSUME EndUnpublished PROVE SettleInv'
    BY <1>4, <1>14 DEF EndUnpublished
  <1>15. ASSUME Crash PROVE SettleInv'
    BY <1>4, <1>15 DEF Crash
  <1>16. ASSUME UNCHANGED vars PROVE SettleInv'
    BY <1>4, <1>16 DEF vars
  <1> QED BY <1>5, <1>6, <1>7, <1>8, <1>9, <1>10, <1>11, <1>12, <1>13, <1>14, <1>15, <1>16 DEF Next

(***************************************************************************)
(* The settle loop: four passes are enough.                                *)
(***************************************************************************)
\* The entries open over a plan made over this bundle's own page are of one date.
LEMMA NoReview ==
    ASSUME SettleInv, site = ReportHash,
           NEW in \in Input, NEW first, NEW seen, seen \subseteq FailingRow
    PROVE  ~Reviewed(PassLines(in, first, seen))
  <1> DEFINE P == PassLines(in, first, seen)
             F == FiredBy(in, seen)
  <1>1. TypeOK /\ F \in SUBSET (Triggers \X Levels)
    BY FiredByType DEF SettleInv, FiledInv, GateInv
  <1>2. \A e \in OpenHeavy(Lines) : e.date = bundle.date
    <2>1. site # Absent /\ site[1] = bundle.block
      BY <1>1, ReportHashType, GateAssumption DEF ReportHash
    <2> QED BY <2>1 DEF SettleInv, PageDated
  <1>3. \A e \in P : e \in Noted(F) \/ e.resolution_date # None
    BY <1>1, PassLine
  <1>4. IsFiniteSet(Lines \cup P)
    BY <1>1, PassFinite
  <1> HIDE DEF P, F
  <1>5. ASSUME NEW x \in OpenHeavy(Lines \cup P) PROVE x.date = bundle.date
    <2>1. /\ x \in Lines \cup P /\ x.resolution_date = None /\ x.level \in HeavyLevels
          /\ \A r \in Lines \cup P : r.resolution_date # None => Key(r) # Key(x)
      BY <1>5 DEF OpenHeavy, OpenEntries, Resolutions
    <2>2. CASE x \in Lines
      <3>1. x \in OpenHeavy(Lines)
        BY <2>1, <2>2 DEF OpenHeavy, OpenEntries, Resolutions
      <3> QED BY <1>2, <3>1
    <2>3. CASE x \in P
      BY <1>1, <1>3, <2>1, <2>3, NotedFire
    <2> QED BY <2>1, <2>2, <2>3
  <1>6. CountedDates(P) \subseteq {bundle.date}
    BY <1>5 DEF CountedDates
  <1>7. Cardinality(CountedDates(P)) <= 1
    <2>1. IsFiniteSet({bundle.date}) /\ Cardinality({bundle.date}) = 1
      BY FS_Singleton
    <2> QED BY <1>6, <2>1, FS_Subset
  <1>8. Cardinality(CountedDates(P)) \in Nat /\ ReviewRuns \in Nat /\ ReviewRuns >= 2
    BY <1>4, CountedFinite, FS_CardinalityType, GateAssumption
  <1>9. ~Reviewed(P)
    BY <1>7, <1>8, Counted DEF Reviewed
  <1> QED BY <1>9 DEF P

\* The Level 1 pairs a pass fires, as the page of the pass before stood.
NoticePairs(in, review) ==
    Flagged(in) \cup (IF in.missing \/ review THEN {<<28, 1>>} ELSE {})

LEMMA NextNotices ==
    ASSUME NEW in \in Input, NEW review \in BOOLEAN, NEW held \in BOOLEAN, NEW F
    PROVE  Level1(FiredBy(in, RowsOf(in, review, held, F))) = NoticePairs(in, review)
  <1> DEFINE S == RowsOf(in, review, held, F)
  <1>1. RowsAre(S, in, review, held, F)
    BY RowIn
  <1> HIDE DEF S
  <1>2. \A b \in S : b.row = "DET-80" => b.result = "fail"
    BY <1>1 DEF RowsAre
  <1>3. Level1(FiredBy(in, S)) =
           Flagged(in) \cup IF \E b \in S : b.row = "DET-80" THEN {<<28, 1>>} ELSE {}
    BY <1>2, FiredNotices
  <1>4. (\E b \in S : b.row = "DET-80") <=> (in.missing \/ review)
    BY <1>1 DEF RowsAre
  <1>5. Level1(FiredBy(in, S)) = NoticePairs(in, review)
    BY <1>3, <1>4 DEF NoticePairs
  <1> QED BY <1>5 DEF S

LEMMA FirstNotices ==
    ASSUME NEW in \in Input
    PROVE  Level1(FiredBy(in, {})) = Flagged(in)
  BY FiredNotices

\* What a pass that fires the notices F leaves to the next.
Goes(in, first, seen, was, F) ==
    /\ Pass(in, first, seen).failing =
          RowsOf(in, Reviewed(PassLines(in, first, seen)), HeldBack(PassLines(in, first, seen)), F)
    /\ Reviewed(PassLines(in, first, seen))
          => Reviewed(PassLines(in, FALSE, Pass(in, first, seen).failing))
    /\ HeldBack(PassLines(in, first, seen)) /\ ~was
          => HeldBack(PassLines(in, FALSE, Pass(in, first, seen).failing))
    /\ HeldBack(PassLines(in, first, seen)) => site = ReportHash
    /\ site = ReportHash => ~Reviewed(PassLines(in, first, seen))

\* One pass and the next, by what their rows depend on.  A review stays; a page
\* held back stays so when no notice is withdrawn; and only this bundle's own page
\* holds one back, which no review stands over.
LEMMA PassAfter ==
    ASSUME SettleInv, NEW in \in Input, NEW first, NEW seen, seen \subseteq FailingRow,
           NEW was \in BOOLEAN, NEW stood \in BOOLEAN, NEW E,
           seen = {} \/ seen = RowsOf(in, was, stood, E),
           E \subseteq Level1(FiredBy(in, seen))
    PROVE  Goes(in, first, seen, was, Level1(FiredBy(in, seen)))
  <1> DEFINE P == PassLines(in, first, seen)
             F == Level1(FiredBy(in, seen))
             S == RowsOf(in, Reviewed(P), HeldBack(P), F)
             Q == PassLines(in, FALSE, S)
  <1>1. TypeOK /\ GateInv /\ WrittenOnce
    BY DEF SettleInv, FiledInv, GateInv
  <1>2. Pass(in, first, seen).failing = S
    BY <1>1, PassRows
  <1>3. Reviewed(P) \in BOOLEAN /\ HeldBack(P) \in BOOLEAN
    BY DEF Reviewed, HeldBack
  <1>4. S \subseteq FailingRow
    <2> HIDE DEF P, F
    <2>1. RowsAre(S, in, Reviewed(P), HeldBack(P), F)
      BY <1>3, RowIn
    <2> HIDE DEF S
    <2> QED BY <2>1 DEF RowsAre
  <1>5. Reviewed(P) \/ HeldBack(P) => ~Green(in, FALSE, S)
    <2> HIDE DEF P, F
    <2> QED BY <1>3, NotGreen
  <1>6. Reviewed(P) \/ (HeldBack(P) /\ ~was)
           => AboveLevel1(FiredBy(in, seen)) \subseteq AboveLevel1(FiredBy(in, S))
    <2>1. E \subseteq F
      OBVIOUS
    <2> HIDE DEF P, F
    <2> QED BY <1>3, <2>1, PairsKept
  <1>7. Reviewed(P) \/ (HeldBack(P) /\ ~was)
           => /\ OpenHeavy(Lines \cup P) # {} => OpenHeavy(Lines \cup Q) # {}
              /\ Reviewed(P) => Reviewed(Q)
    <2> HIDE DEF F, S
    <2> QED BY <1>1, <1>4, <1>5, <1>6, ReviewGrows
  <1>8. site = ReportHash => ~Reviewed(P) /\ ~Reviewed(Q)
    <2> HIDE DEF S
    <2> QED BY <1>4, NoReview
  <1> HIDE DEF P, F, S, Q
  <1>9. HeldBack(P) => site = ReportHash /\ OpenHeavy(Lines \cup P) # {}
    BY DEF HeldBack
  <1>10. HeldBack(P) /\ ~was => HeldBack(Q)
    BY <1>7, <1>8, <1>9 DEF HeldBack
  <1>11. Reviewed(P) => Reviewed(Q)
    BY <1>7
  <1>12. Q = PassLines(in, FALSE, Pass(in, first, seen).failing)
    BY <1>2 DEF Q
  <1>13. Pass(in, first, seen).failing = RowsOf(in, Reviewed(P), HeldBack(P), F)
    BY <1>2 DEF S
  <1> QED BY <1>8, <1>9, <1>10, <1>11, <1>12, <1>13 DEF Goes, P, F

LEMMA RowsType ==
    ASSUME NEW in \in Input, NEW review \in BOOLEAN, NEW held \in BOOLEAN, NEW F
    PROVE  RowsOf(in, review, held, F) \subseteq FailingRow
  BY RowIn DEF RowsAre

LEMMA StandsType ==
    ASSUME NEW P
    PROVE  Reviewed(P) \in BOOLEAN /\ HeldBack(P) \in BOOLEAN
  BY DEF Reviewed, HeldBack

\* Four passes, by what their rows depend on, have two neighbours alike.
LEMMA TwoAlike ==
    ASSUME NEW in,
           NEW R1 \in BOOLEAN, NEW R2 \in BOOLEAN, NEW R3 \in BOOLEAN, NEW R4 \in BOOLEAN,
           NEW H1 \in BOOLEAN, NEW H2 \in BOOLEAN, NEW H3 \in BOOLEAN, NEW H4 \in BOOLEAN,
           R1 => R2, R2 => R3, R3 => R4, H2 => H3, H3 => H4,
           (~H1 /\ ~H2 /\ ~H3 /\ ~H4) \/ (~R1 /\ ~R2 /\ ~R3 /\ ~R4)
    PROVE  \/ RowsOf(in, R1, H1, Flagged(in)) = RowsOf(in, R2, H2, NoticePairs(in, R1))
           \/ RowsOf(in, R2, H2, NoticePairs(in, R1)) = RowsOf(in, R3, H3, NoticePairs(in, R2))
           \/ RowsOf(in, R3, H3, NoticePairs(in, R2)) = RowsOf(in, R4, H4, NoticePairs(in, R3))
  <1>1. CASE R1 = R2 /\ R2 = R3 /\ H2 = H3
    BY <1>1
  <1>2. CASE R2 = R3 /\ R3 = R4 /\ H3 = H4
    BY <1>2
  <1>3. CASE ~R2 /\ R3
    <2>1. ~R1 /\ R1 = R2 /\ R3 = R4 /\ H1 = H2 /\ H3 = H4
      BY <1>3
    <2>2. CASE in.missing
      <3>1. NoticePairs(in, R2) = NoticePairs(in, R3)
        BY <2>2 DEF NoticePairs
      <3> QED BY <2>1, <3>1
    <2>3. CASE ~in.missing
      <3>1. NoticePairs(in, R1) = Flagged(in)
        BY <2>1, <2>3 DEF NoticePairs
      <3> QED BY <2>1, <3>1
    <2> QED BY <2>2, <2>3
  <1> QED BY <1>1, <1>2, <1>3

LEMMA FirstPass ==
    ASSUME SettleInv, NEW in \in Input
    PROVE  Goes(in, TRUE, {}, FALSE, Flagged(in))
  <1>1. {} \subseteq FailingRow /\ FALSE \in BOOLEAN /\ {} \subseteq Level1(FiredBy(in, {}))
    OBVIOUS
  <1>2. Goes(in, TRUE, {}, FALSE, Level1(FiredBy(in, {})))
    BY <1>1, PassAfter
  <1> QED BY <1>2, FirstNotices

LEMMA NextPass ==
    ASSUME SettleInv, NEW in \in Input, NEW seen, NEW was \in BOOLEAN, NEW stood \in BOOLEAN,
           NEW E, seen = RowsOf(in, was, stood, E), E \subseteq NoticePairs(in, was)
    PROVE  Goes(in, FALSE, seen, was, NoticePairs(in, was))
  <1>1. seen \subseteq FailingRow
    BY RowsType
  <1>2. Level1(FiredBy(in, seen)) = NoticePairs(in, was)
    BY NextNotices
  <1>3. E \subseteq Level1(FiredBy(in, seen))
    BY <1>2
  <1>4. Goes(in, FALSE, seen, was, Level1(FiredBy(in, seen)))
    BY <1>1, <1>3, PassAfter
  <1> QED BY <1>2, <1>4

LEMMA SettlesInFour ==
    ASSUME SettleInv, NEW in \in Input
    PROVE  Settle(in).stable
  <1> DEFINE s1 == Pass(in, TRUE, {}).failing
             s2 == Pass(in, FALSE, s1).failing
             s3 == Pass(in, FALSE, s2).failing
             s4 == Pass(in, FALSE, s3).failing
             P1 == PassLines(in, TRUE, {})
             P2 == PassLines(in, FALSE, s1)
             P3 == PassLines(in, FALSE, s2)
             P4 == PassLines(in, FALSE, s3)
  <1>1. Goes(in, TRUE, {}, FALSE, Flagged(in))
    BY FirstPass
  <1>2. /\ s1 = RowsOf(in, Reviewed(P1), HeldBack(P1), Flagged(in))
        /\ Reviewed(P1) => Reviewed(P2)
        /\ HeldBack(P1) => site = ReportHash
        /\ site = ReportHash => ~Reviewed(P1)
    BY <1>1 DEF Goes
  <1>3. \A P : Reviewed(P) \in BOOLEAN /\ HeldBack(P) \in BOOLEAN
    BY StandsType
  <1>4. \A r \in BOOLEAN : Flagged(in) \subseteq NoticePairs(in, r)
    BY DEF NoticePairs
  <1> HIDE DEF s1, P1
  <1>5. Goes(in, FALSE, s1, Reviewed(P1), NoticePairs(in, Reviewed(P1)))
    BY <1>2, <1>3, <1>4, NextPass
  <1>6. /\ s2 = RowsOf(in, Reviewed(P2), HeldBack(P2), NoticePairs(in, Reviewed(P1)))
        /\ Reviewed(P2) => Reviewed(P3)
        /\ HeldBack(P2) /\ ~Reviewed(P1) => HeldBack(P3)
        /\ HeldBack(P2) => site = ReportHash
        /\ site = ReportHash => ~Reviewed(P2)
    BY <1>5 DEF Goes
  <1>7. NoticePairs(in, Reviewed(P1)) \subseteq NoticePairs(in, Reviewed(P2))
    BY <1>2 DEF NoticePairs
  <1> HIDE DEF s2, P2
  <1>8. Goes(in, FALSE, s2, Reviewed(P2), NoticePairs(in, Reviewed(P2)))
    BY <1>3, <1>6, <1>7, NextPass
  <1>9. /\ s3 = RowsOf(in, Reviewed(P3), HeldBack(P3), NoticePairs(in, Reviewed(P2)))
        /\ Reviewed(P3) => Reviewed(P4)
        /\ HeldBack(P3) /\ ~Reviewed(P2) => HeldBack(P4)
        /\ HeldBack(P3) => site = ReportHash
        /\ site = ReportHash => ~Reviewed(P3)
    BY <1>8 DEF Goes
  <1>10. NoticePairs(in, Reviewed(P2)) \subseteq NoticePairs(in, Reviewed(P3))
    BY <1>6 DEF NoticePairs
  <1> HIDE DEF s3, P3
  <1>11. Goes(in, FALSE, s3, Reviewed(P3), NoticePairs(in, Reviewed(P3)))
    BY <1>3, <1>9, <1>10, NextPass
  <1>12. /\ s4 = RowsOf(in, Reviewed(P4), HeldBack(P4), NoticePairs(in, Reviewed(P3)))
         /\ HeldBack(P4) => site = ReportHash
         /\ site = ReportHash => ~Reviewed(P4)
    BY <1>11 DEF Goes
  <1>13. s1 = s2 \/ s2 = s3 \/ s3 = s4
    <2> HIDE DEF s4, P4
    <2>1. \/ ~HeldBack(P1) /\ ~HeldBack(P2) /\ ~HeldBack(P3) /\ ~HeldBack(P4)
          \/ ~Reviewed(P1) /\ ~Reviewed(P2) /\ ~Reviewed(P3) /\ ~Reviewed(P4)
      BY <1>2, <1>6, <1>9, <1>12
    <2>2. (HeldBack(P2) => HeldBack(P3)) /\ (HeldBack(P3) => HeldBack(P4))
      BY <1>2, <1>6, <1>9
    <2>3. (Reviewed(P1) => Reviewed(P2)) /\ (Reviewed(P2) => Reviewed(P3)) /\ (Reviewed(P3) => Reviewed(P4))
      BY <1>2, <1>6, <1>9
    <2>4. \/ RowsOf(in, Reviewed(P1), HeldBack(P1), Flagged(in))
               = RowsOf(in, Reviewed(P2), HeldBack(P2), NoticePairs(in, Reviewed(P1)))
          \/ RowsOf(in, Reviewed(P2), HeldBack(P2), NoticePairs(in, Reviewed(P1)))
               = RowsOf(in, Reviewed(P3), HeldBack(P3), NoticePairs(in, Reviewed(P2)))
          \/ RowsOf(in, Reviewed(P3), HeldBack(P3), NoticePairs(in, Reviewed(P2)))
               = RowsOf(in, Reviewed(P4), HeldBack(P4), NoticePairs(in, Reviewed(P3)))
      <3>1. /\ Reviewed(P1) \in BOOLEAN /\ Reviewed(P2) \in BOOLEAN
            /\ Reviewed(P3) \in BOOLEAN /\ Reviewed(P4) \in BOOLEAN
            /\ HeldBack(P1) \in BOOLEAN /\ HeldBack(P2) \in BOOLEAN
            /\ HeldBack(P3) \in BOOLEAN /\ HeldBack(P4) \in BOOLEAN
        BY <1>3
      <3> QED BY <2>1, <2>2, <2>3, <3>1, TwoAlike, Zenon
    <2> QED BY <1>2, <1>6, <1>9, <1>12, <2>4
  <1>14. Settle(in) = CASE s2 = s1 -> Settled(Pass(in, FALSE, s1))
                        [] s2 # s1 /\ s3 = s2 -> Settled(Pass(in, FALSE, s2))
                        [] s2 # s1 /\ s3 # s2 /\ s4 = s3 -> Settled(Pass(in, FALSE, s3))
                        [] OTHER -> Unstable
    BY Zenon DEF Settle, Settled, s1, s2, s3
  <1>15. \A p : Settled(p).stable
    BY DEF Settled
  <1> HIDE DEF s4, P4
  <1>16. \/ Settle(in) = Settled(Pass(in, FALSE, s1))
         \/ Settle(in) = Settled(Pass(in, FALSE, s2))
         \/ Settle(in) = Settled(Pass(in, FALSE, s3))
    BY <1>13, <1>14
  <1> QED BY <1>15, <1>16

LEMMA ReportIsDecided ==
    ASSUME SettleInv, NEW in \in Inputs, Report(in)
    PROVE  job' # None
  <1> DEFINE s == IF in.ok THEN Settle(in) ELSE Unrendered(in)
             r == [date |-> bundle.date, hashes |-> Current, triggers |-> s.triggers]
             j == [phase |-> "record", input |-> in, outcome |-> Outcome(in, s), record |-> r,
                   evidence |-> s.evidence, settled |-> Settlement, lines |-> s.lines]
  <1>1. in \in Input /\ TypeOK /\ WellFormed(Lines)
    BY GateAssumption DEF SettleInv, FiledInv, GateInv
  <1>2. WellPlanned(s) /\ s.stable
    <2>1. CASE in.ok
      BY <1>1, <2>1, SettlePlanned, SettlesInFour
    <2>2. CASE ~in.ok
      <3>1. Unrendered(in).stable
        BY DEF Unrendered
      <3> QED BY <1>1, <2>2, <3>1, UnrenderedPlanned
    <2> QED BY <2>1, <2>2
  <1>3. job' = IF ~s.stable THEN None ELSE j
    BY DEF Report
  <1> HIDE DEF s
  <1>4. r \in Record
    BY <1>1, <1>2, CurrentType DEF Record, WellPlanned, TypeOK
  <1>5. Outcome(in, s) \in Outcomes
    <2>1. CASE ~in.ok \/ \E b \in s.failing : b.row # "DET-80"
      BY <2>1 DEF Outcome, Outcomes
    <2>2. CASE ~(~in.ok \/ \E b \in s.failing : b.row # "DET-80")
      <3>1. Outcome(in, s) = IF OpenHeavy(Lines \cup s.lines) # {} THEN "quarantined" ELSE "published"
        BY <2>2 DEF Outcome
      <3> QED BY <3>1 DEF Outcomes
    <2> QED BY <2>1, <2>2
  <1> HIDE DEF r
  <1>6. j \in Job
    BY <1>1, <1>2, <1>4, <1>5, SettlementType DEF Job, WellPlanned, Planned, Phases
  <1> HIDE DEF j
  <1> QED BY <1>2, <1>3, <1>6, RecordAssumption

\* The settle loop never gives up: whatever the log, the records, the evidence and
\* the site of a token have come to through stopped and repeated runs, and whatever
\* the checks find, two neighbours of its four passes fail the same rows, so the
\* AssemblyStop after the last one is never raised (`settle` in `build`).
THEOREM SettleLoopRests == Spec => SettleStable
  <1>1. Init => SettleInv
    BY SettleInvInit
  <1>2. SettleInv /\ [Next]_vars => SettleInv'
    BY SettleInvStep
  <1>3. SettleInv /\ [Next]_vars => [runs' > runs => job' # None]_vars
    <2> SUFFICES ASSUME SettleInv, Next, runs' > runs PROVE job' # None
      OBVIOUS
    <2>1. runs \in Nat
      BY DEF SettleInv, FiledInv, GateInv, TypeOK
    <2>2. runs' # runs
      BY <2>1
    <2>3. \E in \in Inputs : Report(in)
      BY <2>2 DEF Next, Edit, NewBundle, WriteRecord, WriteEvidence, AppendLine,
                  AppendPublished, EndUnpublished, RemovePage, CopyPage, Crash
    <2> QED BY <2>3, ReportIsDecided
  <1> QED BY <1>1, <1>2, <1>3, PTL DEF Spec, SettleStable
================================================================================
