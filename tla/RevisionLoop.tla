------------------------------ MODULE RevisionLoop ------------------------------
(***************************************************************************)
(* One report run with the local model: the prose of every slot is drafted *)
(* and guarded, the rendered page is judged criterion by criterion, and a  *)
(* page that fails on its prose alone is revised once, by span             *)
(* replacement, judged afresh and checked by a remediation call (rubric    *)
(* 2.2, R-48; factory/report/llm.py and `build` in report/__main__.py).    *)
(* With the judge withdrawn (A-24) a run drafts, guards and is done.       *)
(*                                                                         *)
(* A text is the sequence of its words, <<>> for a missing slot, and a     *)
(* span a run of words; what the model answers is nondeterministic.  The   *)
(* writes that follow the outcome are ReportGate's.  Paragraph 0 is the    *)
(* page's template text, paragraph s > 0 the text of slot s.               *)
(***************************************************************************)
EXTENDS Naturals, FiniteSets, Sequences, FiniteSetsExt, SequencesExt

CONSTANTS NSlots,         \* the declared prose slots, drafted in this order
          Parts,          \* generation calls a slot is split into
          Section,        \* page section of each paragraph
          Words,          \* what texts are made of
          Stray,          \* words the guard rejects: a figure no row prints, ...
          Normal,         \* the printed form a word is normalised to
          Figures,        \* spans whose figures are all printed forms (A-23)
          TemplateText,
          Criteria, Kinds,
          Drafts,         \* texts a generation call may answer
          Replacements,   \* what a revision call may answer: a span and its replacement
          MaxReplacements,  \* bound: replacements in one answer
          Findings,       \* defects a judge call may report
          MaxFindings,    \* bound: defects in one judgment
          Failures,       \* criteria whose call or items may fail in one judgment
          Inputs,         \* what a run may start from (a subset of Input)
          None

Slots == 1..NSlots
Paragraphs == 0..NSlots
Results == {"pass", "fail", "error"}
Texts == Seq(Words)
Spans == Texts \ {<<>>}
Defect == [criterion : Criteria, kind : Kinds, para : Paragraphs, span : Spans]

\* prior: the S0-S2 rows; held: an older Level 2/3 entry of the log, which a
\* green run can resolve if an artifact changed; rerun: the site already shows
\* this very report.
Input == [withdrawn : BOOLEAN, prior : Results,
          held : {"none", "changed", "unchanged"}, rerun : BOOLEAN]

Outcomes == {"published", "quarantined", "template_defect", "judge_instability",
             "blocked_S3"}

ASSUME LoopAssumption ==
    /\ NSlots \in Nat /\ Criteria # {}
    /\ Parts \in [Slots -> Nat \ {0}]
    /\ Section \in [Paragraphs -> STRING]
    /\ Stray \subseteq Words /\ Figures \subseteq Spans /\ TemplateText \in Texts
    /\ Normal \in [Words -> Words]
    /\ \A x \in Words : Normal[Normal[x]] = Normal[x]
    /\ Drafts \subseteq Texts
    /\ Replacements \subseteq [quoted : Texts, by : Texts]
    /\ Findings \subseteq Defect
    /\ MaxFindings \in Nat /\ MaxReplacements \in Nat
    /\ Failures \subseteq SUBSET Criteria
    /\ Inputs \subseteq Input
    /\ None \notin Outcomes

Hows == {"judged", "failed", "not_judged", "withdrawn"}

Verdict == [how : Hows, body : Results, defects : SUBSET Defect,
            erring : SUBSET Criteria, lost : BOOLEAN]

VARIABLES in,        \* what the run starts from
          phase,     \* draft, revise, remediate, done, or crashed
          slot,      \* the slot being written; NSlots + 1 when all are
          part,      \* the part of it being drafted; the replacement being applied
          asks,      \* re-asks spent on the current call
          draft,     \* the parts of the slot accepted so far; its text as replaced so far
          text,      \* the prose of the current pass
          first,     \* the prose of pass 1, once it is being revised
          own,       \* the defects each slot is revised against
          verdict,   \* the judgment of each pass
          outcome,   \* the record's outcome
          fired,     \* Level 2 gate triggers the run logs
          resolved   \* the run resolves the older entry

vars == <<in, phase, slot, part, asks, draft, text, first, own, verdict, outcome,
          fired, resolved>>

Pending == [how |-> "not_judged", body |-> "pass", defects |-> {}, erring |-> {},
            lost |-> FALSE]

Init ==
    /\ in \in Inputs
    /\ phase = "draft"
    /\ slot = 1 /\ part = 1 /\ asks = 0
    /\ draft = <<>>
    /\ text = [s \in Slots |-> <<>>]
    /\ first = [s \in Slots |-> <<>>]
    /\ own = [s \in Slots |-> {}]
    /\ verdict = [p \in 1..2 |-> Pending]
    /\ outcome = None
    /\ fired = {}
    /\ resolved = FALSE
-------------------------------------------------------------------------------
(***************************************************************************)
(* Writing the prose: every accepted text is normalised and has passed the *)
(* guard; a rejected one is asked for once more.                           *)
(***************************************************************************)
Normalised(t) == [i \in DOMAIN t |-> Normal[t[i]]]

Guard(t) == t # <<>> /\ \A i \in DOMAIN t : t[i] \notin Stray

\* The slot is settled with text t, and the next one is begun.
Settle(t) ==
    /\ text' = [text EXCEPT ![slot] = t]
    /\ slot' = slot + 1
    /\ part' = 1 /\ asks' = 0 /\ draft' = <<>>

Writing(p) == phase = p /\ slot \in Slots

DraftAccepted(reply) ==
    /\ Writing("draft")
    /\ Guard(Normalised(reply))
    /\ \/ /\ part = Parts[slot]
          /\ Settle(draft \o Normalised(reply))
       \/ /\ part < Parts[slot]
          /\ part' = part + 1 /\ asks' = 0
          /\ draft' = draft \o Normalised(reply)
          /\ UNCHANGED <<slot, text>>
    /\ UNCHANGED <<in, phase, first, own, verdict, outcome, fired, resolved>>

\* Mutant: the attempt counter is never kept.
DraftReaskedForever(reply) ==
    /\ Writing("draft")
    /\ ~Guard(Normalised(reply))
    /\ asks' = 1 - asks
    /\ UNCHANGED <<in, phase, slot, part, draft, text, first, own, verdict, outcome,
                   fired, resolved>>

DraftReasked(reply) ==
    /\ Writing("draft")
    /\ ~Guard(Normalised(reply))
    /\ asks = 0
    /\ asks' = 1
    /\ UNCHANGED <<in, phase, slot, part, draft, text, first, own, verdict, outcome,
                   fired, resolved>>

\* A failed call, or a second reply the guard rejects: the whole slot is missing.
DraftGivenUp ==
    /\ Writing("draft")
    /\ Settle(<<>>)
    /\ UNCHANGED <<in, phase, first, own, verdict, outcome, fired, resolved>>

\* The spans a text holds are its runs of words.
Holds(t, span) == span \in SubSeqs(t)

DefectSpans(s) == {d.span : d \in own[s]}

\* The slot's text once the replacements before this one are applied.
Working == IF part = 1 THEN first[slot] ELSE draft

\* Mutant: any span of the text may be quoted.
QuotesTheText(r) == r.quoted # <<>> /\ Holds(Working, r.quoted)

\* A quoted span is one of the slot's defects and stands in the text as the
\* replacements before it have left it.
Quotes(r) == r.quoted \in DefectSpans(slot) /\ Holds(Working, r.quoted)

\* Mutant: the revised text is not guarded again.
AcceptsUnguarded == Normalised(Working) # <<>>

Accepts == Guard(Normalised(Working))

\* A slot no defect can be replaced in keeps its pass-1 text and makes no call.
Carry ==
    /\ Writing("revise")
    /\ own[slot] = {} /\ first[slot] # <<>>
    /\ Settle(first[slot])
    /\ UNCHANGED <<in, phase, first, own, verdict, outcome, fired, resolved>>

\* A slot missing since pass 1 is neither carried nor has a text to revise:
\* `pass1[slot]` raises KeyError, which nothing catches.
ReviseMissing ==
    /\ Writing("revise")
    /\ own[slot] = {} /\ first[slot] = <<>>
    /\ phase' = "crashed"
    /\ UNCHANGED <<in, slot, part, asks, draft, text, first, own, verdict, outcome,
                   fired, resolved>>

\* The next replacement of the answer takes the place of the first run of words
\* that reads like the quoted span, wherever earlier replacements have left one.
ReplaceSpan(r) ==
    /\ Writing("revise")
    /\ own[slot] # {} /\ part <= MaxReplacements
    /\ Quotes(r)
    /\ draft' = ReplaceFirstSubSeq(r.by, r.quoted, Working)
    /\ part' = part + 1
    /\ UNCHANGED <<in, phase, slot, asks, text, first, own, verdict, outcome, fired,
                   resolved>>

\* The answer holds no further replacement, and the whole text passes the guard.
ReviseAccepted ==
    /\ Writing("revise")
    /\ own[slot] # {}
    /\ Accepts
    /\ Settle(Normalised(Working))
    /\ UNCHANGED <<in, phase, first, own, verdict, outcome, fired, resolved>>

\* The text fails the guard or the answer quotes something else: asked once
\* more, over the pass-1 text.
ReviseReasked ==
    /\ Writing("revise")
    /\ own[slot] # {}
    /\ ~Accepts \/ \E r \in Replacements : ~Quotes(r)
    /\ asks = 0
    /\ asks' = 1 /\ part' = 1 /\ draft' = <<>>
    /\ UNCHANGED <<in, phase, slot, text, first, own, verdict, outcome, fired, resolved>>

ReviseGivenUp ==
    /\ Writing("revise")
    /\ own[slot] # {}
    /\ Settle(<<>>)
    /\ UNCHANGED <<in, phase, first, own, verdict, outcome, fired, resolved>>
-------------------------------------------------------------------------------
(***************************************************************************)
(* Judging the page.  What a defect must survive to count: A-23's own      *)
(* figure test, the span standing in the paragraph it names, and, but for  *)
(* LLM-03, that paragraph being prose.                                     *)
(***************************************************************************)
GuardVerified(d) == d.criterion = "LLM-01" /\ d.kind = "untraceable" /\ d.span \in Figures

TextOf(p) == IF p = 0 THEN TemplateText ELSE text[p]

Located(d) == Holds(TextOf(d.para), d.span)

InScope(d) == d.criterion = "LLM-03" \/ d.para # 0

Envelope(raw, erring) ==
    LET read == {d \in raw : ~GuardVerified(d)}
    IN  [how |-> "judged", body |-> "pass", erring |-> erring,
         defects |-> {d \in read : Located(d) /\ InScope(d)},
         lost |-> \E d \in read : ~Located(d)]

NoEnvelope(how, body) ==
    [how |-> how, body |-> body, defects |-> {}, erring |-> {}, lost |-> FALSE]

Reports == UNION {kSubset(k, Findings) : k \in 0..MaxFindings}

\* The page is judged only when its deterministic rows pass; `failed`: the
\* call of every criterion failed.
Verdicts ==
    IF in.withdrawn
    THEN {NoEnvelope("withdrawn", b) : b \in Results}
    ELSE {NoEnvelope("not_judged", b) : b \in Results \ {"pass"}}
             \cup {NoEnvelope("failed", "pass")}
             \cup {Envelope(raw, erring) : raw \in Reports, erring \in Failures}

(***************************************************************************)
(* The rows of S3 once a verdict stands, and the triggers they fire.       *)
(***************************************************************************)
LLMErrors(v) ==
    CASE v.how = "judged"    -> v.erring
      [] v.how = "withdrawn" -> {}
      [] OTHER               -> Criteria

LLMFails(v, un) ==
    {c \in Criteria \ LLMErrors(v) : \E d \in v.defects \cup un : d.criterion = c}

\* DET-85: no row of the run erred.
HarnessError(v) == LLMErrors(v) # {} \/ v.body = "error" \/ in.prior = "error"

\* The entries open whatever this page's own rows say.
HeldFromBefore == in.prior # "pass" \/ in.held = "unchanged"

\* DET-13(d): this very report stands published while an entry is open.
PublishedWhileHeld(v, un) ==
    /\ in.rerun
    /\ \/ HeldFromBefore
       \/ LLMErrors(v) \cup LLMFails(v, un) # {} \/ v.body # "pass"

\* Mutant: an LLM row fires its trigger when it errs only.
GateTriggersOfErrors(v, un, instability) ==
    {IF instability THEN 24 ELSE 28 : c \in LLMErrors(v)}
        \cup (IF v.body # "pass" \/ in.prior # "pass" THEN {28} ELSE {})
        \cup (IF HarnessError(v) THEN {25} ELSE {})
        \cup (IF PublishedWhileHeld(v, un) THEN {23} ELSE {})

GateTriggers(v, un, instability) ==
    {IF instability THEN 24 ELSE 28 : c \in LLMErrors(v) \cup LLMFails(v, un)}
        \cup (IF v.body # "pass" \/ in.prior # "pass" THEN {28} ELSE {})
        \cup (IF HarnessError(v) THEN {25} ELSE {})
        \cup (IF PublishedWhileHeld(v, un) THEN {23} ELSE {})

Outcome(v, un, loop) ==
    CASE v.body # "pass"                                        -> "blocked_S3"
      [] v.body = "pass" /\ loop # None                         -> loop
      [] v.body = "pass" /\ loop = None
            /\ (\/ LLMErrors(v) \cup LLMFails(v, un) # {}
                \/ HarnessError(v) \/ PublishedWhileHeld(v, un)) -> "blocked_S3"
      [] OTHER -> IF HeldFromBefore THEN "quarantined" ELSE "published"

\* The last settlement of the page, and the record's outcome.
Finish(v, un, loop) ==
    /\ phase' = "done"
    /\ outcome' = Outcome(v, un, loop)
    /\ fired' = GateTriggers(v, un, loop = "judge_instability")
    /\ resolved' = (in.held = "changed" /\ fired' = {})

\* Only the judge's rows fail: what a revision may still put right.
OnlyProseFails(v) ==
    /\ v.how = "judged"
    /\ LLMFails(v, {}) # {}
    /\ ~HarnessError(v) /\ ~PublishedWhileHeld(v, {})

OutsideProse(v) == \A d \in v.defects : d.para = 0

\* Each defect lands on the slots whose text holds its span, else on every slot
\* of its section; only a span in the slot's own text can be replaced there.
DefectsBySlot(defects) ==
    LET Holding(d) == {s \in Slots : Holds(text[s], d.span)}
        Landing(d) == IF Holding(d) # {} THEN Holding(d)
                      ELSE {s \in Slots : text[s] # <<>> /\ Section[s] = Section[d.para]}
    IN  [s \in Slots |-> {d \in defects : s \in Landing(d) /\ Holds(text[s], d.span)}]

JudgeDraft(v) ==
    /\ phase = "draft" /\ slot = NSlots + 1
    /\ verdict' = [verdict EXCEPT ![1] = v]
    /\ \/ /\ OnlyProseFails(v) /\ ~OutsideProse(v)
          /\ phase' = "revise"
          /\ slot' = 1
          /\ first' = text
          /\ own' = DefectsBySlot(v.defects)
          /\ UNCHANGED <<outcome, fired, resolved>>
       \/ /\ OnlyProseFails(v) /\ OutsideProse(v)
          /\ Finish(v, {}, "template_defect")
          /\ UNCHANGED <<slot, first, own>>
       \/ /\ ~OnlyProseFails(v)
          /\ Finish(v, {}, None)
          /\ UNCHANGED <<slot, first, own>>
    /\ UNCHANGED <<in, part, asks, draft, text>>

JudgeRevision(v) ==
    /\ phase = "revise" /\ slot = NSlots + 1
    /\ verdict' = [verdict EXCEPT ![2] = v]
    /\ \/ /\ v.how = "not_judged"
          /\ Finish(v, {}, None)
       \/ /\ v.how # "not_judged"
          /\ phase' = "remediate"
          /\ UNCHANGED <<outcome, fired, resolved>>
    /\ UNCHANGED <<in, slot, part, asks, draft, text, first, own>>

Places(defects) == {<<d.kind, Section[d.para]>> : d \in defects}

Lost == verdict[1].lost \/ verdict[2].lost

\* Mutant: a span lost on either pass is forgotten.
LoopOutcomeIgnoringLost(un) ==
    CASE verdict[2].how = "judged" /\ verdict[2].defects = {} /\ un = {} -> None
      [] Places(verdict[1].defects) \cap Places(verdict[2].defects) # {}
            -> "template_defect"
      [] OTHER -> "judge_instability"

LoopOutcome(un) ==
    CASE verdict[2].how = "judged" /\ verdict[2].defects = {} /\ un = {} /\ ~Lost -> None
      [] ~Lost /\ Places(verdict[1].defects) \cap Places(verdict[2].defects) # {}
            -> "template_defect"
      [] OTHER -> "judge_instability"

\* The remediation call names the pass-1 defects not addressed; a failed or
\* incomplete answer counts as naming them all.
Remediate(un) ==
    /\ phase = "remediate"
    /\ Finish(verdict[2], un, LoopOutcome(un))
    /\ UNCHANGED <<in, slot, part, asks, draft, text, first, own, verdict>>

Draft == \/ DraftGivenUp
         \/ \E reply \in Drafts : DraftAccepted(reply) \/ DraftReasked(reply)

Revise == \/ Carry \/ ReviseMissing
          \/ \E r \in Replacements : ReplaceSpan(r)
          \/ ReviseAccepted \/ ReviseReasked \/ ReviseGivenUp

Judge == /\ slot = NSlots + 1 /\ phase \in {"draft", "revise"}
         /\ \E v \in Verdicts : JudgeDraft(v) \/ JudgeRevision(v)

Next == \/ Draft \/ Revise \/ Judge
        \/ \E un \in SUBSET verdict[1].defects : Remediate(un)

Spec == Init /\ [][Next]_vars

\* The report stage is one program that runs on: every call of the model ends,
\* with an answer or at its time limit.
FairSpec == Spec /\ WF_vars(Next)
-------------------------------------------------------------------------------
\* The shape of the loop's state; one call is asked at most twice.
TypeOK ==
    /\ in \in Inputs
    /\ phase \in {"draft", "revise", "remediate", "done", "crashed"}
    /\ slot \in 1..(NSlots + 1) /\ part \in Nat \ {0} /\ asks \in 0..1
    /\ draft \in Texts
    /\ text \in [Slots -> Texts]
    /\ first \in [Slots -> Texts]
    /\ own \in [Slots -> SUBSET Defect]
    /\ verdict \in [1..2 -> Verdict]
    /\ outcome \in Outcomes \cup {None}
    /\ fired \subseteq {23, 24, 25, 28}
    /\ resolved \in BOOLEAN

\* A text reaches the page only through the guard: no slot ever shows a word
\* the guard rejects, in either pass, however it was assembled.
OnlyGuardedProse ==
    \A s \in Slots : /\ \A i \in DOMAIN text[s] : text[s][i] \notin Stray
                     /\ \A i \in DOMAIN first[s] : first[s][i] \notin Stray

\* The words of t at the positions `kept` stand in u, in their order.
Survive(t, kept, u) ==
    \E at \in [kept -> DOMAIN u] :
        /\ \A i \in kept : u[at[i]] = t[i]
        /\ \A i, j \in kept : i < j => at[i] < at[j]

\* The positions of a slot's pass-1 text whose word is in none of its defects.
Unflagged(s) ==
    {i \in DOMAIN first[s] : \A span \in DefectSpans(s) :
                                 \A j \in DOMAIN span : first[s][i] # span[j]}

\* The slots pass 2 has settled with a text.
Rewritten(s) == /\ slot > s /\ phase \in {"revise", "remediate", "done"}
                /\ first[s] # <<>> /\ text[s] # <<>>

\* Pass 2 is span replacement only: whatever the order of the replacements and
\* whatever they bring in, every word of pass 1 that is in none of the slot's own
\* defects stands in pass 2, as it was and in its order, or the slot is missing
\* altogether (apply_replacements).
OutsideSpansVerbatim ==
    \A s \in Slots : Rewritten(s) => Survive(first[s], Unflagged(s), text[s])

\* The passes a run was judged in.
WasRevised == \E s \in Slots : first[s] # <<>>

LastVerdict == IF WasRevised THEN verdict[2] ELSE verdict[1]

\* What is published was judged clean by every criterion, unless the judge is
\* withdrawn; after a revision, with no span lost on either pass (R-48a, b).
PublishedIsClean ==
    outcome = "published" =>
        /\ LastVerdict.body = "pass"
        /\ LastVerdict.how \in {"judged", "withdrawn"}
        /\ LastVerdict.defects = {} /\ LastVerdict.erring = {}
        /\ WasRevised => ~Lost
        /\ ~HeldFromBefore

\* A template defect is what two judgments found in one place, or what a single
\* one found outside every slot (R-48b).
TemplateDefectConfirmed ==
    outcome = "template_defect" =>
        \/ /\ WasRevised
           /\ \E d, e \in Findings : /\ d \in verdict[1].defects /\ e \in verdict[2].defects
                                     /\ d.kind = e.kind
                                     /\ Section[d.para] = Section[e.para]
        \/ ~WasRevised /\ \A d \in verdict[1].defects : d.para = 0

\* Only a page that fails on its prose alone enters the revision path (rubric
\* section 6, item 2).
ProseOnlyRevision ==
    WasRevised => /\ ~in.withdrawn /\ in.prior # "error"
                  /\ verdict[1].how = "judged" /\ verdict[1].body = "pass"
                  /\ verdict[1].erring = {} /\ verdict[1].defects # {}
                  /\ in.rerun => in.prior = "pass"

\* A page withheld for what it says leaves a Level 2 trigger in the log, and its
\* run resolves no older entry.
WithheldIsLogged ==
    outcome \in {"template_defect", "blocked_S3"} => fired # {} /\ ~resolved

\* The loop ends: whatever the model answers, nothing is asked for ever.
LoopEnds == <>(phase \in {"done", "crashed"})
===============================================================================
