-------------------------- MODULE RevisionLoop_proofs --------------------------
(***************************************************************************)
(* What holds of the revision loop for any number of slots, parts, words   *)
(* and findings: the type invariant, the guard over every text, the        *)
(* verbatim carry of pass 2, and what a published page was judged to be.   *)
(***************************************************************************)
EXTENDS RevisionLoop, Totals_proofs, SequenceTheorems, TLAPS

\* The words an accepted text is made of: normalised, and fit for the page.
Printed == {x \in Words \ Stray : Normal[x] = x}

Proper(t) == t \in Seq(Printed)

Prose == /\ phase = "draft" => Proper(draft)
         /\ \A s \in Slots : Proper(text[s]) /\ Proper(first[s])

\* No call is under way once every slot is written.
NoneUnderWay == slot \notin Slots => part = 1

\* Half revised, a slot still has every word outside its defects.
Reworked == phase = "revise" /\ slot \in Slots =>
                Survive(first[slot], Unflagged(slot), Working)

\* first is filled when, and only when, the run enters its revision.
FirstOfRevision ==
    /\ phase = "draft" => \A s \in Slots : first[s] = <<>>
    /\ phase \in {"revise", "remediate"} => WasRevised

\* A verdict that is not an envelope carries no finding, and a page whose
\* deterministic rows pass is judged.
Shaped(v) == /\ v.how # "judged" => v.defects = {} /\ v.erring = {}
             /\ v.how = "not_judged" => v.body # "pass"
             /\ v.how = "judged" => v.body = "pass" /\ ~in.withdrawn

Verdicts2 == phase = "remediate" => Shaped(verdict[2]) /\ verdict[2].how # "not_judged"

Reported == \A p \in 1..2 : verdict[p].defects \subseteq Findings

\* The outcome is decided once, at the end.
Undecided == phase # "done" => outcome = None

LoopInv == /\ TypeOK /\ Prose /\ NoneUnderWay /\ Reworked /\ FirstOfRevision /\ Verdicts2 /\ Reported /\ Undecided
           /\ OutsideSpansVerbatim /\ PublishedIsClean
           /\ TemplateDefectConfirmed /\ ProseOnlyRevision /\ WithheldIsLogged

-------------------------------------------------------------------------------
\* What the guard accepts is fit for the page.
LEMMA GuardedProper ==
    ASSUME NEW t \in Texts, Guard(Normalised(t))
    PROVE  Proper(Normalised(t))
<1>1. t \in [1..Len(t) -> Words] /\ Len(t) \in Nat
  BY LenProperties DEF Texts
<1>2. Normalised(t) \in [1..Len(t) -> Printed]
  BY <1>1, LoopAssumption DEF Normalised, Guard, Printed
<1> QED
  BY <1>1, <1>2, SeqDef DEF Proper

LEMMA ProperTexts ==
    /\ \A t : Proper(t) => t \in Texts
    /\ <<>> \in Texts /\ Proper(<<>>)
    /\ \A t, u : Proper(t) /\ Proper(u) => Proper(t \o u)
<1>1. Printed \subseteq Words
  BY DEF Printed
<1>2. \A t : Proper(t) => t \in Texts
  BY <1>1, SeqMonotonic DEF Proper, Texts
<1>3. \A t, u : Proper(t) /\ Proper(u) => Proper(t \o u)
  BY ConcatProperties DEF Proper
<1> QED
  BY <1>2, <1>3, EmptySeq DEF Proper, Texts

\* A text keeps its own words.
LEMMA SurviveSelf ==
    ASSUME NEW t, NEW kept, kept \subseteq DOMAIN t
    PROVE  Survive(t, kept, t)
<1> DEFINE at == [i \in kept |-> i]
<1>1. /\ at \in [kept -> DOMAIN t]
      /\ \A i \in kept : t[at[i]] = t[i]
      /\ \A i, j \in kept : i < j => at[i] < at[j]
  OBVIOUS
<1> QED
  BY <1>1 DEF Survive

\* The runs of words of a text, one by one.
LEMMA Runs ==
    ASSUME NEW t, NEW span
    PROVE  span \in SubSeqs(t) <=>
              \E a \in 0..Len(t) : \E b \in 0..Len(t) : span = SubSeq(t, a + 1, b)
<1>1. ASSUME span \in SubSeqs(t)
      PROVE  \E a \in 0..Len(t) : \E b \in 0..Len(t) : span = SubSeq(t, a + 1, b)
  BY <1>1 DEF SubSeqs
<1>2. ASSUME NEW a \in 0..Len(t), NEW b \in 0..Len(t), span = SubSeq(t, a + 1, b)
      PROVE  span \in SubSeqs(t)
  BY <1>2 DEF SubSeqs
<1> QED
  BY <1>1, <1>2

\* Where a text holds a span, the first run of words that reads like it is cut out
\* and the replacement put there.
LEMMA FirstReplaced ==
    ASSUME NEW t \in Texts, NEW span \in Spans, NEW by \in Texts, Holds(t, span)
    PROVE  \E k \in Nat :
              /\ k + Len(span) <= Len(t)
              /\ SubSeq(t, k + 1, k + Len(span)) = span
              /\ ReplaceFirstSubSeq(by, span, t)
                    = SubSeq(t, 1, k) \o by \o SubSeq(t, k + Len(span) + 1, Len(t))
<1> DEFINE n == Len(span)
           Ends == {i \in 0..Len(t) : span \in SubSeqs(SubSeq(t, 1, i))}
<1>0. /\ Len(t) \in Nat /\ n \in Nat \ {0} /\ t \in Seq(Words) /\ span \in Seq(Words)
      /\ \A i \in 1..Len(t) : t[i] \in Words
  BY LenProperties, EmptySeq DEF Texts, Spans
<1>1. SubSeq(t, 1, Len(t)) = t
  BY <1>0, SubSeqFull
<1>2. Len(t) \in Ends
  <2>1. span \in SubSeqs(SubSeq(t, 1, Len(t)))
    BY <1>1 DEF Holds
  <2>2. Len(t) \in 0..Len(t)
    BY <1>0
  <2> QED
    BY <2>1, <2>2
<1>3. PICK e \in Ends : \A j \in Ends : e <= j
  <2>1. Ends \subseteq Nat
    BY <1>0
  <2> QED
    BY <1>2, <2>1, LeastOf
<1> DEFINE FirstAt(i) == /\ span \in SubSeqs(SubSeq(t, 1, i))
                         /\ \A j \in 0..(i - 1) : span \notin SubSeqs(SubSeq(t, 1, j))
<1>4. FirstAt(e)
  <2>1. \A j \in 0..(e - 1) : j \in 0..Len(t) /\ ~(e <= j)
    BY <1>0
  <2> QED
    BY <1>3, <2>1
<1> DEFINE end == CHOOSE i \in 0..Len(t) : FirstAt(i)
<1>5. end \in 0..Len(t) /\ FirstAt(end)
  BY <1>4
<1>6. IndexFirstSubSeq(span, t) = end - (n - 1)
  BY DEF IndexFirstSubSeq
<1> HIDE DEF end
<1> DEFINE p == SubSeq(t, 1, end)
<1>7. /\ Len(p) = end /\ p \in Seq(Words)
      /\ \A i \in 1..end : p[i] = t[i]
  BY <1>0, <1>5, SubSeqProperties
<1>8. PICK a \in 0..end, b \in 0..end : span = SubSeq(p, a + 1, b)
  <2>1. span \in SubSeqs(p)
    BY <1>5
  <2>2. \E a \in 0..Len(p) : \E b \in 0..Len(p) : span = SubSeq(p, a + 1, b)
    BY <2>1, Runs
  <2> QED
    BY <1>7, <2>2
<1>9. a < b /\ n = b - a
  <2>1. \A i \in (a + 1)..b : p[i] \in Words
    BY <1>0, <1>5, <1>7, <1>8
  <2>2. n = IF a + 1 <= b THEN b - (a + 1) + 1 ELSE 0
    BY <1>5, <1>8, <2>1, SubSeqProperties
  <2> QED
    BY <1>0, <1>5, <1>8, <2>2
<1>10. \A i \in 1..n : span[i] = t[a + i]
  <2>1. \A i \in (a + 1)..b : p[i] \in Words
    BY <1>0, <1>5, <1>7, <1>8
  <2>2. \A i \in 1..(b - (a + 1) + 1) : SubSeq(p, a + 1, b)[i] = p[(a + 1) + i - 1]
    BY <1>5, <1>8, <2>1, SubSeqProperties
  <2>3. \A i \in 1..n : span[i] = p[a + i]
    <3> TAKE i \in 1..n
    <3>1. i \in 1..(b - (a + 1) + 1) /\ (a + 1) + i - 1 = a + i
      BY <1>5, <1>8, <1>9
    <3> QED
      BY <1>8, <2>2, <3>1
  <2>4. \A i \in 1..n : a + i \in 1..end
    BY <1>5, <1>8, <1>9
  <2> QED
    BY <1>7, <2>3, <2>4
<1>11. SubSeq(t, a + 1, a + n) = span
  <2>1. /\ a + 1 \in Int /\ a + n \in Int
        /\ \A i \in (a + 1)..(a + n) : t[i] \in Words
    BY <1>0, <1>5, <1>8, <1>9
  <2>2. /\ SubSeq(t, a + 1, a + n) \in Seq(Words)
        /\ Len(SubSeq(t, a + 1, a + n))
              = IF a + 1 <= a + n THEN (a + n) - (a + 1) + 1 ELSE 0
        /\ \A i \in 1..((a + n) - (a + 1) + 1) :
               SubSeq(t, a + 1, a + n)[i] = t[(a + 1) + i - 1]
    BY <2>1, SubSeqProperties
  <2>3. /\ Len(SubSeq(t, a + 1, a + n)) = n
        /\ (a + n) - (a + 1) + 1 = n
        /\ \A i \in 1..n : (a + 1) + i - 1 = a + i
    BY <1>0, <1>8, <2>2
  <2>4. \A i \in 1..n : SubSeq(t, a + 1, a + n)[i] = span[i]
    BY <1>10, <2>2, <2>3
  <2> QED
    BY <1>0, <2>2, <2>3, <2>4, SeqEqual
<1>12. b = end
  <2> SUFFICES ASSUME b < end
               PROVE  FALSE
    BY <1>5, <1>8
  <2> DEFINE q == SubSeq(t, 1, b)
  <2>1. /\ b \in 0..(end - 1) /\ b \in Nat
        /\ \A i \in 1..b : t[i] \in Words
    BY <1>0, <1>5, <1>8
  <2>2. q \in Seq(Words) /\ Len(q) = b /\ \A i \in 1..b : q[i] = t[i]
    BY <2>1, SubSeqProperties
  <2>3. \A i \in (a + 1)..b : q[i] \in Words /\ q[i] = p[i]
    BY <1>5, <1>7, <1>8, <2>1, <2>2
  <2>4. /\ SubSeq(q, a + 1, b) \in Seq(Words)
        /\ Len(SubSeq(q, a + 1, b)) = IF a + 1 <= b THEN b - (a + 1) + 1 ELSE 0
        /\ \A i \in 1..(b - (a + 1) + 1) : SubSeq(q, a + 1, b)[i] = q[(a + 1) + i - 1]
    BY <1>8, <2>1, <2>3, SubSeqProperties
  <2>5. Len(SubSeq(q, a + 1, b)) = n
    BY <1>8, <1>9, <2>1, <2>4
  <2>6. \A i \in 1..n : SubSeq(q, a + 1, b)[i] = span[i]
    <3> TAKE i \in 1..n
    <3>1. /\ i \in 1..(b - (a + 1) + 1) /\ (a + 1) + i - 1 = a + i
          /\ a + i \in 1..b
      BY <1>8, <1>9, <2>1
    <3> QED
      BY <1>10, <2>2, <2>4, <3>1
  <2>7. SubSeq(q, a + 1, b) = span
    BY <1>0, <2>4, <2>5, <2>6, SeqEqual
  <2>8. span \in SubSeqs(q)
    <3>1. a \in 0..Len(q) /\ b \in 0..Len(q)
      BY <1>8, <1>9, <2>1, <2>2
    <3> QED
      BY <2>7, <3>1, Runs
  <2> QED
    BY <1>5, <2>1, <2>8
<1>13. /\ a \in Nat /\ a + n <= Len(t)
       /\ IndexFirstSubSeq(span, t) = a + 1
  BY <1>0, <1>5, <1>6, <1>8, <1>9, <1>12
<1>14. ReplaceFirstSubSeq(by, span, t)
         = SubSeq(t, 1, (a + 1) - 1) \o by \o SubSeq(t, (a + 1) + n, Len(t))
  BY <1>13 DEF Holds, ReplaceFirstSubSeq, ReplaceSubSeqAt
<1>15. (a + 1) - 1 = a /\ (a + 1) + n = a + n + 1
  BY <1>0, <1>13
<1> QED
  BY <1>11, <1>13, <1>14, <1>15

\* A replacement of a span leaves every word standing that is not one of the
\* span's, wherever it cuts.
LEMMA ReplaceKeeps ==
    ASSUME NEW t, NEW kept, kept \subseteq Nat,
           NEW u \in Texts, Survive(t, kept, u),
           NEW span \in Spans, NEW by \in Texts, Holds(u, span),
           \A i \in kept : \A j \in DOMAIN span : t[i] # span[j]
    PROVE  /\ ReplaceFirstSubSeq(by, span, u) \in Texts
           /\ Survive(t, kept, ReplaceFirstSubSeq(by, span, u))
<1> DEFINE n == Len(span)
           m == Len(by)
           w == ReplaceFirstSubSeq(by, span, u)
<1>0. /\ Len(u) \in Nat /\ n \in Nat /\ m \in Nat
      /\ DOMAIN u = 1..Len(u) /\ DOMAIN span = 1..n
      /\ u \in Seq(Words) /\ by \in Seq(Words)
      /\ \A i \in 1..Len(u) : u[i] \in Words
  BY LenProperties DEF Texts, Spans
<1>1. PICK k \in Nat : /\ k + n <= Len(u)
                       /\ SubSeq(u, k + 1, k + n) = span
                       /\ w = SubSeq(u, 1, k) \o by \o SubSeq(u, k + n + 1, Len(u))
  BY FirstReplaced
<1> DEFINE size == Len(u)
<1>a. /\ size \in Nat /\ n \in Nat /\ m \in Nat /\ k \in Nat /\ k + n <= size
      /\ Len(span) = n /\ Len(by) = m /\ Len(u) = size
  BY <1>0, <1>1
<1> HIDE DEF w, n, m, size
<1> DEFINE pre == SubSeq(u, 1, k)
           post == SubSeq(u, k + n + 1, Len(u))
<1>2. pre \in Seq(Words) /\ Len(pre) = k /\ \A i \in 1..k : pre[i] = u[i]
  <2>1. \A i \in 1..k : u[i] \in Words
    BY <1>0, <1>1
  <2> QED
    BY <1>0, <1>1, <2>1, SubSeqProperties
<1>3. /\ post \in Seq(Words) /\ Len(post) = Len(u) - (k + n)
      /\ \A i \in 1..(Len(u) - (k + n)) : post[i] = u[k + n + i]
  <2>1. /\ k + n + 1 \in Int /\ Len(u) \in Int
        /\ \A i \in (k + n + 1)..Len(u) : u[i] \in Words
    BY <1>0, <1>1
  <2>2. /\ post \in Seq(Words)
        /\ Len(post) = IF k + n + 1 <= Len(u) THEN Len(u) - (k + n + 1) + 1 ELSE 0
        /\ \A i \in 1..(Len(u) - (k + n + 1) + 1) : post[i] = u[(k + n + 1) + i - 1]
    BY <2>1, SubSeqProperties
  <2>3. /\ Len(post) = Len(u) - (k + n)
        /\ Len(u) - (k + n + 1) + 1 = Len(u) - (k + n)
        /\ \A i \in 1..(Len(u) - (k + n)) : (k + n + 1) + i - 1 = k + n + i
    <3>1. /\ Len(u) - (k + n + 1) + 1 = Len(u) - (k + n)
          /\ (IF k + n + 1 <= Len(u) THEN Len(u) - (k + n + 1) + 1 ELSE 0)
                = Len(u) - (k + n)
          /\ \A i \in 1..(Len(u) - (k + n)) : (k + n + 1) + i - 1 = k + n + i
      BY <1>a
    <3> QED
      BY <2>2, <3>1
  <2> QED
    BY <2>2, <2>3
<1> HIDE DEF pre, post
<1>4. /\ w \in Seq(Words) /\ Len(w) = k + m + (Len(u) - (k + n))
      /\ \A i \in 1..k : w[i] = u[i]
      /\ \A i \in (k + n + 1)..Len(u) : w[i - n + m] = u[i]
  <2>1. /\ pre \o by \in Seq(Words) /\ Len(pre \o by) = k + m
        /\ \A i \in 1..k : (pre \o by)[i] = pre[i]
    <3>1. /\ pre \o by \in Seq(Words) /\ Len(pre \o by) = Len(pre) + Len(by)
          /\ \A i \in 1..(Len(pre) + Len(by)) :
                (pre \o by)[i] = IF i <= Len(pre) THEN pre[i] ELSE by[i - Len(pre)]
      <4>1. pre \in Seq(Words) /\ by \in Seq(Words)
        BY <1>0, <1>2
      <4> QED
        BY ONLY <4>1, ConcatProperties, ZenonT(30)
    <3>2. \A i \in 1..k : i \in 1..(k + m) /\ i <= k
      BY <1>a
    <3> QED
      BY <1>a, <1>2, <3>1, <3>2
  <2>2. w = (pre \o by) \o post
    BY <1>1, <1>a DEF pre, post
  <2>3. /\ w \in Seq(Words) /\ Len(w) = (k + m) + (Len(u) - (k + n))
        /\ \A i \in 1..((k + m) + (Len(u) - (k + n))) :
               w[i] = IF i <= k + m THEN (pre \o by)[i] ELSE post[i - (k + m)]
    <3>1. /\ (pre \o by) \o post \in Seq(Words)
          /\ Len((pre \o by) \o post) = Len(pre \o by) + Len(post)
          /\ \A i \in 1..(Len(pre \o by) + Len(post)) :
                ((pre \o by) \o post)[i] = IF i <= Len(pre \o by) THEN (pre \o by)[i]
                                          ELSE post[i - Len(pre \o by)]
      <4>1. pre \o by \in Seq(Words) /\ post \in Seq(Words)
        BY <1>3, <2>1
      <4> HIDE DEF w
      <4> QED
        BY ONLY <4>1, ConcatProperties, ZenonT(30)
    <3> QED
      BY <1>a, <1>3, <2>1, <2>2, <3>1
  <2>4. \A i \in 1..k : w[i] = u[i]
    <3> TAKE i \in 1..k
    <3>1. i \in 1..((k + m) + (Len(u) - (k + n))) /\ i <= k + m
      BY <1>a
    <3> QED
      BY <1>2, <2>1, <2>3, <3>1
  <2>5. \A i \in (k + n + 1)..Len(u) : w[i - n + m] = u[i]
    <3> TAKE i \in (k + n + 1)..Len(u)
    <3>1. /\ i - n + m \in 1..((k + m) + (Len(u) - (k + n)))
          /\ ~(i - n + m <= k + m)
          /\ (i - n + m) - (k + m) = i - (k + n)
          /\ i - (k + n) \in 1..(Len(u) - (k + n))
          /\ k + n + (i - (k + n)) = i
      BY <1>a
    <3> QED
      BY <1>3, <2>3, <3>1
  <2> QED
    BY <1>a, <2>3, <2>4, <2>5
<1>5. PICK at \in [kept -> DOMAIN u] :
          /\ \A i \in kept : u[at[i]] = t[i]
          /\ \A i, j \in kept : i < j => at[i] < at[j]
  BY DEF Survive
<1>6. \A i \in kept : at[i] \in 1..Len(u) /\ ~(at[i] \in (k + 1)..(k + n))
  <2> SUFFICES ASSUME NEW i \in kept, NEW x \in (k + 1)..(k + n), x = at[i]
               PROVE  FALSE
    BY <1>0, <1>5
  <2>1. /\ x - k \in 1..n /\ (k + 1) + (x - k) - 1 = x
        /\ x - k \in 1..((k + n) - (k + 1) + 1)
    BY <1>a
  <2>2. /\ k + 1 \in Int /\ k + n \in Int
        /\ \A y \in (k + 1)..(k + n) : u[y] \in Words
    BY <1>0, <1>1
  <2>3. \A y \in 1..((k + n) - (k + 1) + 1) :
            SubSeq(u, k + 1, k + n)[y] = u[(k + 1) + y - 1]
    BY <2>2, SubSeqProperties
  <2>4. span[x - k] = u[x]
    BY <1>1, <2>1, <2>3
  <2> QED
    BY <1>0, <1>5, <2>1, <2>4
<1> DEFINE to == [i \in kept |-> IF at[i] <= k THEN at[i] ELSE at[i] - n + m]
<1>b. Len(w) = k + m + (size - (k + n))
  BY <1>a, <1>4
<1>c. \A i \in kept : at[i] \in 1..size /\ ~(at[i] \in (k + 1)..(k + n))
  BY <1>a, <1>6
<1>7. \A i \in kept : /\ to[i] \in 1..Len(w) /\ w[to[i]] = t[i]
  <2> TAKE i \in kept
  <2>1. CASE at[i] <= k
    <3>1. to[i] = at[i] /\ at[i] \in 1..k /\ at[i] \in 1..Len(w)
      BY <1>a, <1>b, <1>c, <2>1
    <3> QED
      BY <1>4, <1>5, <3>1
  <2>2. CASE ~(at[i] <= k)
    <3>1. PICK x \in 1..size : x = at[i] /\ ~(x \in (k + 1)..(k + n)) /\ ~(x <= k)
      BY <1>c, <2>2
    <3>2. k \in Nat /\ n \in Nat /\ m \in Nat /\ size \in Nat /\ k + n <= size
      BY <1>a
    <3>3. x \in (k + n + 1)..size /\ x - n + m \in 1..(k + m + (size - (k + n)))
      BY <3>1, <3>2
    <3>4. x \in (k + n + 1)..Len(u) /\ x - n + m \in 1..Len(w)
      BY <1>a, <1>b, <3>3
    <3>5. to[i] = x - n + m
      BY <2>2, <3>1
    <3> QED
      BY <1>4, <1>5, <3>1, <3>4, <3>5
  <2> QED
    BY <2>1, <2>2
<1>8. \A i, j \in kept : i < j => to[i] < to[j]
  <2> SUFFICES ASSUME NEW i \in kept, NEW j \in kept, i < j
               PROVE  to[i] < to[j]
    OBVIOUS
  <2>1. at[i] < at[j]
    BY <1>5
  <2> QED
    BY <1>a, <1>c, <2>1
<1>9. DOMAIN w = 1..Len(w)
  BY <1>4, LenProperties
<1>10. to \in [kept -> DOMAIN w]
  BY <1>7, <1>9
<1> HIDE DEF to
<1>11. Survive(t, kept, w)
  BY <1>7, <1>8, <1>10 DEF Survive
<1> QED
  BY <1>4, <1>11 DEF w, Texts

\* What survives is a matter of the texts and the defects alone.
LEMMA SameSurvive ==
    ASSUME UNCHANGED <<text, first, own>>
    PROVE  \A s \in Slots : Survive(first[s], Unflagged(s), text[s])'
                             <=> Survive(first[s], Unflagged(s), text[s])
  BY DEF Unflagged, DefectSpans, Survive

\* Normalising a text moves nothing, and leaves what was normalised as it was.
LEMMA NormalisedKeeps ==
    ASSUME NEW t, NEW kept, NEW u, Survive(t, kept, u),
           \A i \in kept : Normal[t[i]] = t[i]
    PROVE  Survive(t, kept, Normalised(u))
<1>1. PICK at \in [kept -> DOMAIN u] :
          /\ \A i \in kept : u[at[i]] = t[i]
          /\ \A i, j \in kept : i < j => at[i] < at[j]
  BY DEF Survive
<1>2. /\ DOMAIN Normalised(u) = DOMAIN u
      /\ \A i \in kept : Normalised(u)[at[i]] = t[i]
  BY <1>1 DEF Normalised
<1>3. at \in [kept -> DOMAIN Normalised(u)]
  BY <1>2
<1> QED
  BY <1>1, <1>2, <1>3 DEF Survive

\* Every verdict the loop may meet is well formed, and a surviving defect stands
\* in the paragraph it names.
LEMMA VerdictShape ==
    ASSUME NEW v \in Verdicts, in \in Input
    PROVE  /\ v \in Verdict
           /\ Shaped(v)
           /\ \A d \in v.defects : Located(d)
           /\ v.defects \subseteq Findings
<1>1. \A raw \in Reports : raw \subseteq Findings
  BY DEF Reports, kSubset
<1>2. CASE in.withdrawn /\ v \in {NoEnvelope("withdrawn", b) : b \in Results}
  <2>1. PICK b \in Results : v = NoEnvelope("withdrawn", b)
    BY <1>2
  <2> QED BY <2>1 DEF NoEnvelope, Verdict, Shaped, Hows, Results
<1>3. CASE v \in {NoEnvelope("not_judged", b) : b \in Results \ {"pass"}}
  <2>1. PICK b \in Results \ {"pass"} : v = NoEnvelope("not_judged", b)
    BY <1>3
  <2> QED BY <2>1 DEF NoEnvelope, Verdict, Shaped, Hows, Results
<1>4. CASE v = NoEnvelope("failed", "pass")
  BY <1>4 DEF NoEnvelope, Verdict, Shaped, Hows, Results
<1>5. CASE ~in.withdrawn /\ v \in {Envelope(raw, erring) : raw \in Reports, erring \in Failures}
  <2>1. PICK raw \in Reports, erring \in Failures : v = Envelope(raw, erring)
    BY <1>5
  <2>2. raw \subseteq Defect /\ erring \subseteq Criteria /\ raw \subseteq Findings
    BY <1>1, LoopAssumption
  <2>3. /\ v.how = "judged" /\ v.body = "pass" /\ v.erring = erring
        /\ v.defects \subseteq raw
        /\ \A d \in v.defects : Located(d)
        /\ v.lost \in BOOLEAN
    BY <2>1 DEF Envelope
  <2>4. v \in Verdict
    BY <2>1, <2>2 DEF Envelope, Verdict, Hows, Results
  <2> QED
    BY <1>5, <2>2, <2>3, <2>4 DEF Shaped
<1> QED
  BY <1>2, <1>3, <1>4, <1>5 DEF Verdicts

\* The loop's own outcomes, and when it has none: a clean second judgment with
\* nothing lost.
LEMMA LoopOutcomeType ==
    ASSUME NEW un
    PROVE  /\ LoopOutcome(un) \in {None, "template_defect", "judge_instability"}
           /\ LoopOutcome(un) = None => ~Lost
  BY LoopAssumption DEF LoopOutcome, Outcomes

\* The last settlement is well typed.
LEMMA FinishType ==
    ASSUME NEW v, NEW un, NEW loop \in {None, "template_defect", "judge_instability"},
           Finish(v, un, loop)
    PROVE  /\ phase' = "done"
           /\ outcome' \in Outcomes
           /\ fired' \subseteq {23, 24, 25, 28}
           /\ resolved' \in BOOLEAN
<1>1. Outcome(v, un, loop) \in Outcomes
  BY DEF Outcome, Outcomes
<1>2. GateTriggers(v, un, loop = "judge_instability") \subseteq {23, 24, 25, 28}
  BY DEF GateTriggers
<1> QED
  BY <1>1, <1>2 DEF Finish

\* A run publishes only over a verdict without a finding, a failed call or a
\* failing row, and with nothing older open.
LEMMA FinishPublished ==
    ASSUME NEW v \in Verdict, Shaped(v), NEW un,
           NEW loop \in {None, "template_defect", "judge_instability"},
           Finish(v, un, loop), outcome' = "published"
    PROVE  /\ loop = None
           /\ v.body = "pass"
           /\ v.how \in {"judged", "withdrawn"}
           /\ v.defects = {} /\ v.erring = {}
           /\ ~HeldFromBefore
<1>1. Outcome(v, un, loop) = "published"
  BY DEF Finish
<1>2. /\ loop = None /\ v.body = "pass"
      /\ LLMErrors(v) \cup LLMFails(v, un) = {}
      /\ ~HeldFromBefore
  BY <1>1 DEF Outcome
<1>3. v.how \in {"judged", "withdrawn"}
  BY <1>2, LoopAssumption DEF LLMErrors, Shaped, Verdict, Hows
<1>4. CASE v.how = "withdrawn"
  BY <1>2, <1>4 DEF Shaped
<1>5. CASE v.how = "judged"
  <2>1. v.erring = {}
    BY <1>2, <1>5 DEF LLMErrors
  <2>2. \A d \in v.defects : d.criterion \in Criteria \ LLMErrors(v)
    BY <1>2 DEF Verdict, Defect
  <2>3. v.defects = {}
    BY <1>2, <2>2 DEF LLMFails
  <2> QED
    BY <1>2, <1>5, <2>1, <2>3
<1> QED
  BY <1>3, <1>4, <1>5

\* A run that ends blocked fires a trigger and resolves nothing; so does one that
\* ends a template defect, of which its verdict names one.
LEMMA FinishWithheld ==
    ASSUME NEW v \in Verdict, NEW un,
           NEW loop \in {None, "template_defect", "judge_instability"},
           Finish(v, un, loop), outcome' \in {"template_defect", "blocked_S3"},
           loop = "template_defect" => v.defects # {}
    PROVE  fired' # {} /\ ~resolved'
<1>1. fired' = GateTriggers(v, un, loop = "judge_instability")
  BY DEF Finish
<1>2. CASE v.body # "pass"
  BY <1>1, <1>2 DEF GateTriggers, Finish
<1>3. CASE LLMErrors(v) \cup LLMFails(v, un) # {}
  BY <1>1, <1>3 DEF GateTriggers, Finish
<1>4. CASE HarnessError(v) \/ PublishedWhileHeld(v, un)
  BY <1>1, <1>4 DEF GateTriggers, Finish
<1>5. CASE loop = "template_defect"
  <2>1. PICK d \in v.defects : d.criterion \in Criteria
    BY <1>5 DEF Verdict, Defect
  <2> QED
    BY <2>1, <1>3 DEF LLMFails
<1>6. \/ v.body # "pass" \/ LLMErrors(v) \cup LLMFails(v, un) # {}
      \/ HarnessError(v) \/ PublishedWhileHeld(v, un)
      \/ loop = "template_defect"
  BY LoopAssumption DEF Finish, Outcome, Outcomes
<1> QED
  BY <1>2, <1>3, <1>4, <1>5, <1>6

\* The outcome is a template defect only as the loop says so.
LEMMA FinishTemplateDefect ==
    ASSUME NEW v, NEW un,
           NEW loop \in {None, "template_defect", "judge_instability"},
           Finish(v, un, loop), outcome' = "template_defect"
    PROVE  loop = "template_defect"
  BY LoopAssumption DEF Finish, Outcome, Outcomes

\* A page that fails on its prose alone was judged, with a finding, in a run
\* nothing else speaks against.
LEMMA ProseFailure ==
    ASSUME NEW v \in Verdict, Shaped(v), OnlyProseFails(v)
    PROVE  /\ ~in.withdrawn /\ in.prior # "error"
           /\ v.how = "judged" /\ v.body = "pass" /\ v.erring = {} /\ v.defects # {}
           /\ in.rerun => in.prior = "pass"
<1>1. v.how = "judged" /\ LLMErrors(v) = {} /\ in.prior # "error"
  BY DEF OnlyProseFails, HarnessError
<1>2. v.defects # {}
  BY DEF OnlyProseFails, LLMFails
<1>3. in.rerun => in.prior = "pass"
  BY DEF OnlyProseFails, PublishedWhileHeld, HeldFromBefore
<1> QED
  BY <1>1, <1>2, <1>3 DEF Shaped, LLMErrors

-------------------------------------------------------------------------------
\* No span reads in a missing slot.
LEMMA NothingHeld ==
    ASSUME NEW span \in Spans
    PROVE  ~Holds(<<>>, span)
<1> SUFFICES ASSUME Holds(<<>>, span)
             PROVE  FALSE
  OBVIOUS
<1>1. PICK i \in 0..0, j \in 0..0 : span = SubSeq(<<>>, i + 1, j)
  BY DEF Holds, SubSeqs
<1>2. span = <<>>
  BY <1>1, SubSeqEmpty
<1> QED
  BY <1>2 DEF Spans

\* A slot whose revision begins has its whole pass-1 text.
LEMMA FreshKeeps ==
    ASSUME part = 1
    PROVE  Survive(first[slot], Unflagged(slot), Working)
<1>1. Unflagged(slot) \subseteq DOMAIN first[slot] /\ Working = first[slot]
  BY DEF Unflagged, Working
<1> QED
  BY <1>1, SurviveSelf

\* Settling a slot with a proper text that, in a revision, keeps what lies
\* outside the slot's own defects.
LEMMA SettleKeeps ==
    ASSUME LoopInv, slot \in Slots, phase \in {"draft", "revise"},
           NEW t, Proper(t), Settle(t),
           phase = "revise" => \/ first[slot] = <<>> \/ t = <<>>
                               \/ Survive(first[slot], Unflagged(slot), t),
           UNCHANGED <<in, phase, first, own, verdict, outcome, fired, resolved>>
    PROVE  LoopInv'
<1> USE DEF LoopInv
<1>0. NSlots \in Nat /\ t \in Texts /\ <<>> \in Texts /\ Proper(<<>>)
  BY LoopAssumption, ProperTexts
<1>1. TypeOK'
  BY <1>0 DEF TypeOK, Settle, Slots
<1>2. Prose'
  BY <1>0 DEF TypeOK, Prose, Settle, Proper
<1>3. FirstOfRevision' /\ Verdicts2' /\ Reported' /\ Undecided'
  BY DEF FirstOfRevision, Verdicts2, Reported, Undecided, WasRevised, Shaped
<1>4. OutsideSpansVerbatim'
  <2> SUFFICES ASSUME NEW s \in Slots, Rewritten(s)'
               PROVE  Survive(first[s], Unflagged(s), text'[s])
    <3>1. \A s \in Slots : Survive(first[s], Unflagged(s), text[s])'
                          <=> Survive(first[s], Unflagged(s), text'[s])
      BY DEF Unflagged, DefectSpans, Survive
    <3> QED
      BY <3>1 DEF OutsideSpansVerbatim
  <2>0. /\ slot' > s /\ phase \in {"revise", "remediate", "done"}
        /\ first[s] # <<>> /\ text'[s] # <<>>
    BY DEF Rewritten
  <2>1. CASE s = slot
    <3>1. text'[s] = t
      BY <2>1 DEF TypeOK, Settle
    <3> QED
      BY <2>0, <2>1, <3>1
  <2>2. CASE s # slot
    <3>1. slot > s /\ text'[s] = text[s]
      BY <1>0, <2>0, <2>2 DEF TypeOK, Settle, Slots
    <3> QED
      BY <2>0, <3>1 DEF OutsideSpansVerbatim, Rewritten
  <2> QED
    BY <2>1, <2>2
<1>5. /\ PublishedIsClean' /\ TemplateDefectConfirmed'
      /\ ProseOnlyRevision' /\ WithheldIsLogged'
  BY DEF PublishedIsClean, TemplateDefectConfirmed, ProseOnlyRevision, WithheldIsLogged,
         LastVerdict, WasRevised, Lost, HeldFromBefore
<1>6. NoneUnderWay' /\ Reworked'
  <2>1. part' = 1
    BY DEF Settle
  <2>2. Survive(first[slot], Unflagged(slot), Working)'
    <3>1. Unflagged(slot)' \subseteq DOMAIN first'[slot'] /\ Working' = first'[slot']
      BY <2>1 DEF Unflagged, Working
    <3>2. Survive(first'[slot'], Unflagged(slot)', first'[slot'])
      BY <3>1, SurviveSelf
    <3> QED
      BY <3>1, <3>2 DEF Survive
  <2> QED
    BY <2>1, <2>2 DEF NoneUnderWay, Reworked
<1> QED
  BY <1>1, <1>2, <1>3, <1>4, <1>5, <1>6

\* A step within a slot - a part accepted, a re-ask, a replacement, the crash on a
\* missing slot - touches none of what is claimed, as long as the text under way
\* is fit for it.
LEMMA UnderWayKeeps ==
    ASSUME LoopInv, slot \in Slots, asks' \in 0..1, part' \in Nat \ {0},
           draft' \in Texts,
           \/ phase' = phase
           \/ phase' = "crashed" /\ phase = "revise",
           phase' = "draft" => Proper(draft'),
           phase' = "revise" => Survive(first[slot], Unflagged(slot), Working'),
           UNCHANGED <<in, slot, text, first, own, verdict, outcome, fired, resolved>>
    PROVE  LoopInv'
<1> USE DEF LoopInv
<1>1. TypeOK'
  BY DEF TypeOK
<1>2. Prose' /\ NoneUnderWay'
  BY DEF Prose, Proper, NoneUnderWay
<1>3. Reworked'
  <2> SUFFICES ASSUME phase' = "revise"
               PROVE  Survive(first[slot], Unflagged(slot), Working)'
    BY DEF Reworked
  <2>1. Unflagged(slot)' = Unflagged(slot)
    BY DEF Unflagged, DefectSpans
  <2> QED
    BY <2>1 DEF Survive
<1>4. FirstOfRevision' /\ Verdicts2' /\ Reported' /\ Undecided'
  BY DEF FirstOfRevision, Verdicts2, Reported, Undecided, WasRevised, Shaped
<1>5. OutsideSpansVerbatim'
  BY SameSurvive DEF OutsideSpansVerbatim, Rewritten
<1>6. /\ PublishedIsClean' /\ TemplateDefectConfirmed'
      /\ ProseOnlyRevision' /\ WithheldIsLogged'
  BY DEF PublishedIsClean, TemplateDefectConfirmed, ProseOnlyRevision, WithheldIsLogged,
         LastVerdict, WasRevised, Lost, HeldFromBefore
<1> QED
  BY <1>1, <1>2, <1>3, <1>4, <1>5, <1>6

\* Judging pass 1 enters the revision with the texts just judged, or ends.
LEMMA JudgeDraftKeeps ==
    ASSUME LoopInv, NEW v \in Verdicts, JudgeDraft(v)
    PROVE  LoopInv'
<1> USE DEF LoopInv
<1>0. /\ v \in Verdict /\ Shaped(v) /\ \A d \in v.defects : Located(d)
      /\ v.defects \subseteq Findings /\ NSlots \in Nat /\ phase = "draft"
      /\ verdict' = [verdict EXCEPT ![1] = v]
  BY VerdictShape, LoopAssumption DEF TypeOK, JudgeDraft
<1>1. verdict' \in [1..2 -> Verdict] /\ verdict'[1] = v
  BY <1>0 DEF TypeOK
<1>2. \A s \in Slots : first[s] = <<>>
  BY <1>0 DEF FirstOfRevision
<1>9. Reported'
  BY <1>0, <1>1 DEF Reported, TypeOK
<1>3. CASE OnlyProseFails(v) /\ ~OutsideProse(v)
  <2>1. /\ phase' = "revise" /\ slot' = 1 /\ first' = text
        /\ own' = DefectsBySlot(v.defects)
        /\ UNCHANGED <<in, part, asks, draft, text, outcome, fired, resolved>>
    BY <1>3 DEF JudgeDraft
  <2>2. own' \in [Slots -> SUBSET Defect]
    BY <1>0, <2>1 DEF DefectsBySlot, Verdict
  <2>3. TypeOK'
    BY <1>0, <1>1, <2>1, <2>2 DEF TypeOK
  <2>4. Prose' /\ NoneUnderWay' /\ Reworked'
    <3>1. part' = 1
      BY <1>3, <2>1, LoopAssumption DEF NoneUnderWay, JudgeDraft, Slots
    <3>2. Unflagged(slot)' \subseteq DOMAIN first'[slot'] /\ Working' = first'[slot']
      BY <3>1 DEF Unflagged, Working
    <3>3. Survive(first'[slot'], Unflagged(slot)', first'[slot'])
      BY <3>2, SurviveSelf
    <3>4. Survive(first[slot], Unflagged(slot), Working)'
      BY <3>2, <3>3 DEF Survive
    <3> QED
      BY <2>1, <3>1, <3>4 DEF Prose, Proper, NoneUnderWay, Reworked
  <2>5. WasRevised'
    <3>1. PICK d \in v.defects : d.para # 0
      BY <1>3 DEF OutsideProse
    <3>2. d.para \in Slots
      BY <1>0, <3>1 DEF Verdict, Defect, Paragraphs, Slots
    <3>3. Holds(text[d.para], d.span) /\ d.span \in Spans
      BY <1>0, <3>1 DEF Located, TextOf, Verdict, Defect
    <3>4. text[d.para] # <<>>
      BY <3>3, NothingHeld
    <3> QED
      BY <2>1, <3>2, <3>4 DEF WasRevised
  <2>6. FirstOfRevision' /\ Verdicts2' /\ Undecided'
    BY <1>0, <2>1, <2>5 DEF FirstOfRevision, Verdicts2, Undecided
  <2>7. OutsideSpansVerbatim'
    BY <1>0, <2>1 DEF OutsideSpansVerbatim, Rewritten, Slots
  <2>8. PublishedIsClean'
    BY <1>0, <2>1, LoopAssumption DEF PublishedIsClean, Undecided, Outcomes
  <2>9. ProseOnlyRevision'
    BY <1>0, <1>1, <1>3, <2>1, ProseFailure DEF ProseOnlyRevision
  <2>10. TemplateDefectConfirmed' /\ WithheldIsLogged'
    BY <1>0, <2>1, LoopAssumption
    DEF TemplateDefectConfirmed, WithheldIsLogged, Undecided, Outcomes
  <2> QED
    BY <1>9, <2>3, <2>4, <2>6, <2>7, <2>8, <2>9, <2>10
<1>4. ASSUME NEW loop \in {None, "template_defect", "judge_instability"},
             Finish(v, {}, loop), UNCHANGED <<slot, first, own>>,
             loop = "template_defect" => v.defects # {} /\ OutsideProse(v)
      PROVE  LoopInv'
  <2>1. UNCHANGED <<in, slot, part, asks, draft, text, first, own>>
    BY <1>4 DEF JudgeDraft
  <2>2. /\ phase' = "done" /\ outcome' \in Outcomes
        /\ fired' \subseteq {23, 24, 25, 28} /\ resolved' \in BOOLEAN
    BY <1>4, FinishType
  <2>3. TypeOK'
    BY <1>1, <2>1, <2>2 DEF TypeOK
  <2>4. Prose' /\ NoneUnderWay' /\ Reworked'
    BY <2>1, <2>2 DEF Prose, Proper, NoneUnderWay, Reworked
  <2>5. FirstOfRevision' /\ Verdicts2' /\ Undecided'
    BY <2>2 DEF FirstOfRevision, Verdicts2, Undecided
  <2>6. OutsideSpansVerbatim'
    BY <1>2, <2>1 DEF OutsideSpansVerbatim, Rewritten
  <2>7. PublishedIsClean'
    <3>1. SUFFICES ASSUME outcome' = "published"
                   PROVE  PublishedIsClean'
      BY DEF PublishedIsClean
    <3>2. /\ v.body = "pass" /\ v.how \in {"judged", "withdrawn"}
          /\ v.defects = {} /\ v.erring = {} /\ ~HeldFromBefore
      BY <1>0, <1>4, <3>1, FinishPublished
    <3>3. ~WasRevised' /\ LastVerdict' = v
      BY <1>1, <1>2, <2>1 DEF WasRevised, LastVerdict
    <3> QED
      BY <2>1, <3>2, <3>3 DEF PublishedIsClean, HeldFromBefore
  <2>8. ~WasRevised'
    BY <1>2, <2>1 DEF WasRevised
  <2>9. ProseOnlyRevision'
    BY <2>8 DEF ProseOnlyRevision
  <2>10. TemplateDefectConfirmed'
    BY <1>1, <1>4, <2>8, FinishTemplateDefect DEF TemplateDefectConfirmed, OutsideProse
  <2>11. WithheldIsLogged'
    BY <1>0, <1>4, FinishWithheld DEF WithheldIsLogged
  <2> QED
    BY <1>9, <2>3, <2>4, <2>5, <2>6, <2>7, <2>9, <2>10, <2>11
<1>5. CASE OnlyProseFails(v) /\ OutsideProse(v)
  <2>1. v.defects # {}
    BY <1>0, <1>5, ProseFailure
  <2> QED
    BY <1>4, <1>5, <2>1 DEF JudgeDraft
<1>6. CASE ~OnlyProseFails(v)
  BY <1>4, <1>6, LoopAssumption DEF JudgeDraft, Outcomes
<1> QED
  BY <1>3, <1>5, <1>6

\* Judging pass 2 ends a revision whose page no longer passes its deterministic
\* rows, or hands it to the remediation call.
LEMMA JudgeRevisionKeeps ==
    ASSUME LoopInv, NEW v \in Verdicts, JudgeRevision(v)
    PROVE  LoopInv'
<1> USE DEF LoopInv
<1>0. /\ v \in Verdict /\ Shaped(v) /\ v.defects \subseteq Findings
      /\ NSlots \in Nat /\ phase = "revise" /\ outcome = None /\ WasRevised
      /\ verdict' = [verdict EXCEPT ![2] = v]
      /\ UNCHANGED <<in, slot, part, asks, draft, text, first, own>>
  BY VerdictShape, LoopAssumption
  DEF TypeOK, JudgeRevision, Undecided, FirstOfRevision
<1>1. /\ verdict' \in [1..2 -> Verdict] /\ verdict'[1] = verdict[1]
      /\ verdict'[2] = v /\ WasRevised'
  BY <1>0 DEF TypeOK, WasRevised
<1>2. ASSUME phase' \in {"remediate", "done"}
      PROVE  Prose' /\ Reported' /\ NoneUnderWay' /\ Reworked'
  BY <1>0, <1>1, <1>2 DEF Prose, Proper, Reported, NoneUnderWay, Reworked, TypeOK
<1>3. ASSUME phase' \in {"remediate", "done"}
      PROVE  OutsideSpansVerbatim'
  BY <1>0, SameSurvive DEF OutsideSpansVerbatim, Rewritten
<1>4. ProseOnlyRevision'
  BY <1>0, <1>1 DEF ProseOnlyRevision
<1>5. CASE v.how = "not_judged" /\ Finish(v, {}, None)
  <2>1. /\ phase' = "done" /\ outcome' \in Outcomes
        /\ fired' \subseteq {23, 24, 25, 28} /\ resolved' \in BOOLEAN
    BY <1>5, FinishType
  <2>2. TypeOK'
    BY <1>0, <1>1, <2>1 DEF TypeOK
  <2>3. FirstOfRevision' /\ Verdicts2' /\ Undecided'
    BY <2>1 DEF FirstOfRevision, Verdicts2, Undecided
  <2>4. outcome' # "published"
    BY <1>0, <1>5, FinishPublished
  <2>5. outcome' # "template_defect"
    BY <1>5, LoopAssumption, FinishTemplateDefect DEF Outcomes
  <2>6. WithheldIsLogged'
    BY <1>0, <1>5, LoopAssumption, FinishWithheld DEF WithheldIsLogged, Outcomes
  <2> QED
    BY <1>2, <1>3, <1>4, <2>1, <2>2, <2>3, <2>4, <2>5, <2>6
    DEF PublishedIsClean, TemplateDefectConfirmed
<1>6. CASE /\ v.how # "not_judged" /\ phase' = "remediate"
           /\ UNCHANGED <<outcome, fired, resolved>>
  <2>1. TypeOK'
    BY <1>0, <1>1, <1>6 DEF TypeOK
  <2>2. FirstOfRevision' /\ Verdicts2' /\ Undecided'
    BY <1>0, <1>1, <1>6 DEF FirstOfRevision, Verdicts2, Undecided, Shaped
  <2>3. PublishedIsClean' /\ TemplateDefectConfirmed' /\ WithheldIsLogged'
    BY <1>0, <1>6, LoopAssumption
    DEF PublishedIsClean, TemplateDefectConfirmed, WithheldIsLogged, Outcomes
  <2> QED
    BY <1>2, <1>3, <1>4, <1>6, <2>1, <2>2, <2>3
<1> QED
  BY <1>5, <1>6 DEF JudgeRevision

\* The remediation call decides a revised page.
LEMMA RemediateKeeps ==
    ASSUME LoopInv, NEW un \in SUBSET verdict[1].defects, Remediate(un)
    PROVE  LoopInv'
<1> USE DEF LoopInv
<1> DEFINE loop == LoopOutcome(un)
<1>0. /\ phase = "remediate" /\ WasRevised
      /\ verdict[2] \in Verdict /\ Shaped(verdict[2])
      /\ Finish(verdict[2], un, loop)
      /\ UNCHANGED <<in, slot, part, asks, draft, text, first, own, verdict>>
  BY DEF TypeOK, Remediate, FirstOfRevision, Verdicts2
<1>1. loop \in {None, "template_defect", "judge_instability"} /\ (loop = None => ~Lost)
  BY LoopOutcomeType
<1>2. loop = "template_defect" =>
          \E d, e \in Findings : /\ d \in verdict[1].defects /\ e \in verdict[2].defects
                                 /\ d.kind = e.kind
                                 /\ Section[d.para] = Section[e.para]
  <2> SUFFICES ASSUME loop = "template_defect"
               PROVE  \E d, e \in Findings :
                          /\ d \in verdict[1].defects /\ e \in verdict[2].defects
                          /\ d.kind = e.kind
                          /\ Section[d.para] = Section[e.para]
    OBVIOUS
  <2>1. Places(verdict[1].defects) \cap Places(verdict[2].defects) # {}
    BY LoopAssumption DEF LoopOutcome, Outcomes
  <2>2. PICK d \in verdict[1].defects, e \in verdict[2].defects :
            <<d.kind, Section[d.para]>> = <<e.kind, Section[e.para]>>
    BY <2>1 DEF Places
  <2> QED
    BY <2>2 DEF Reported
<1> HIDE DEF loop
<1>3. /\ phase' = "done" /\ outcome' \in Outcomes
      /\ fired' \subseteq {23, 24, 25, 28} /\ resolved' \in BOOLEAN
  BY <1>0, <1>1, FinishType
<1>4. TypeOK'
  BY <1>0, <1>3 DEF TypeOK
<1>5. Prose' /\ Reported' /\ NoneUnderWay' /\ Reworked'
  BY <1>0, <1>3 DEF Prose, Proper, Reported, NoneUnderWay, Reworked
<1>6. FirstOfRevision' /\ Verdicts2' /\ Undecided'
  BY <1>3 DEF FirstOfRevision, Verdicts2, Undecided
<1>7. OutsideSpansVerbatim'
  BY <1>0, SameSurvive DEF OutsideSpansVerbatim, Rewritten
<1>8. PublishedIsClean'
  <2> SUFFICES ASSUME outcome' = "published"
               PROVE  PublishedIsClean'
    BY DEF PublishedIsClean
  <2>1. /\ loop = None
        /\ verdict[2].body = "pass" /\ verdict[2].how \in {"judged", "withdrawn"}
        /\ verdict[2].defects = {} /\ verdict[2].erring = {} /\ ~HeldFromBefore
    BY <1>0, <1>1, FinishPublished
  <2>2. WasRevised' /\ LastVerdict' = verdict[2] /\ Lost' = Lost
    BY <1>0 DEF WasRevised, LastVerdict, Lost
  <2> QED
    BY <1>0, <1>1, <2>1, <2>2 DEF PublishedIsClean, HeldFromBefore
<1>9. WasRevised'
  BY <1>0 DEF WasRevised
<1>10. TemplateDefectConfirmed'
  BY <1>0, <1>1, <1>2, <1>9, FinishTemplateDefect DEF TemplateDefectConfirmed
<1>11. ProseOnlyRevision'
  BY <1>0 DEF ProseOnlyRevision, WasRevised
<1>12. WithheldIsLogged'
  BY <1>0, <1>1, <1>2, FinishWithheld DEF WithheldIsLogged
<1> QED
  BY <1>4, <1>5, <1>6, <1>7, <1>8, <1>10, <1>11, <1>12

-------------------------------------------------------------------------------
LEMMA InitKeeps == Init => LoopInv
<1> SUFFICES ASSUME Init
             PROVE  LoopInv
  OBVIOUS
<1> USE DEF Init
<1>1. TypeOK
  <2>1. Pending \in Verdict
    BY DEF Pending, Verdict, Hows, Results
  <2>2. slot \in 1..(NSlots + 1)
    BY LoopAssumption
  <2>3. verdict \in [1..2 -> Verdict]
    BY <2>1
  <2>4. /\ text \in [Slots -> Texts] /\ first \in [Slots -> Texts]
        /\ own \in [Slots -> SUBSET Defect]
    BY ProperTexts
  <2>5. part \in Nat \ {0} /\ asks \in 0..1
    OBVIOUS
  <2>6. /\ in \in Inputs /\ draft \in Texts /\ outcome \in Outcomes \cup {None}
        /\ fired \subseteq {23, 24, 25, 28} /\ resolved \in BOOLEAN
        /\ phase \in {"draft", "revise", "remediate", "done", "crashed"}
    BY ProperTexts
  <2> HIDE DEF Init
  <2> QED
    BY <2>2, <2>3, <2>4, <2>5, <2>6 DEF TypeOK
<1>2. Prose /\ NoneUnderWay /\ Reworked /\ FirstOfRevision
  BY ProperTexts DEF Prose, NoneUnderWay, Reworked, FirstOfRevision
<1>3. Verdicts2 /\ Reported /\ Undecided
  BY DEF Verdicts2, Reported, Undecided, Pending
<1>4. ~WasRevised
  BY DEF WasRevised
<1>5. OutsideSpansVerbatim /\ ProseOnlyRevision
  BY <1>4 DEF OutsideSpansVerbatim, Rewritten, ProseOnlyRevision
<1>6. PublishedIsClean /\ TemplateDefectConfirmed /\ WithheldIsLogged
  BY LoopAssumption DEF PublishedIsClean, TemplateDefectConfirmed, WithheldIsLogged,
                        Outcomes
<1> QED
  BY <1>1, <1>2, <1>3, <1>5, <1>6 DEF LoopInv

\* Accepting a part leaves the slot's text alone until its last part is in.
LEMMA DraftAcceptedKeeps ==
    ASSUME LoopInv, NEW reply \in Drafts, DraftAccepted(reply)
    PROVE  LoopInv'
<1>0. /\ phase = "draft" /\ slot \in Slots
      /\ UNCHANGED <<in, phase, first, own, verdict, outcome, fired, resolved>>
  BY DEF DraftAccepted, Writing
<1>1. Proper(Normalised(reply)) /\ Proper(draft)
  BY <1>0, GuardedProper, LoopAssumption DEF DraftAccepted, LoopInv, Prose
<1>2. Proper(draft \o Normalised(reply)) /\ draft \o Normalised(reply) \in Texts
  BY <1>1, ProperTexts
<1>3. CASE Settle(draft \o Normalised(reply))
  BY <1>0, <1>2, <1>3, SettleKeeps
<1>4. CASE /\ part' = part + 1 /\ asks' = 0
           /\ draft' = draft \o Normalised(reply)
           /\ UNCHANGED <<slot, text>>
  <2>1. part' \in Nat \ {0} /\ asks' \in 0..1
    BY <1>4 DEF LoopInv, TypeOK
  <2> QED
    BY <1>0, <1>2, <1>4, <2>1, UnderWayKeeps
<1> QED
  BY <1>3, <1>4 DEF DraftAccepted

\* A slot's own defects quote something, and none of it stands outside them.
LEMMA OwnSpans ==
    ASSUME TypeOK, slot \in Slots
    PROVE  /\ DefectSpans(slot) \subseteq Spans
           /\ Unflagged(slot) \subseteq DOMAIN first[slot]
           /\ \A span \in DefectSpans(slot) : \A i \in Unflagged(slot) :
                 \A j \in DOMAIN span : first[slot][i] # span[j]
           /\ Working \in Texts /\ first[slot] \in Texts
  BY DEF TypeOK, DefectSpans, Unflagged, Working, Defect

\* One replacement leaves what lies outside the slot's defects.
LEMMA ReplaceSpanKeeps ==
    ASSUME LoopInv, NEW r \in Replacements, ReplaceSpan(r)
    PROVE  LoopInv'
<1>0. /\ phase = "revise" /\ slot \in Slots /\ Quotes(r)
      /\ draft' = ReplaceFirstSubSeq(r.by, r.quoted, Working) /\ part' = part + 1
      /\ UNCHANGED <<in, phase, slot, asks, text, first, own, verdict, outcome, fired,
                     resolved>>
      /\ part \in Nat \ {0} /\ asks \in 0..1
  BY DEF ReplaceSpan, Writing, LoopInv, TypeOK
<1>1. /\ r.quoted \in DefectSpans(slot) /\ r.quoted \in Spans /\ r.by \in Texts
      /\ Holds(Working, r.quoted) /\ Working \in Texts
  BY <1>0, OwnSpans, LoopAssumption DEF Quotes, LoopInv
<1>2. Unflagged(slot) \subseteq Nat
  BY <1>0, OwnSpans, LenProperties DEF LoopInv, Texts
<1>3. \A i \in Unflagged(slot) : \A j \in DOMAIN r.quoted : first[slot][i] # r.quoted[j]
  BY <1>0, <1>1, OwnSpans DEF LoopInv
<1>4. Survive(first[slot], Unflagged(slot), Working)
  BY <1>0 DEF LoopInv, Reworked
<1>5. draft' \in Texts /\ Survive(first[slot], Unflagged(slot), draft')
  BY <1>0, <1>1, <1>2, <1>3, <1>4, ReplaceKeeps
<1>6. Working' = draft' /\ part' \in Nat \ {0}
  BY <1>0 DEF Working
<1> QED
  BY <1>0, <1>5, <1>6, UnderWayKeeps

\* The revised text is accepted with all of them.
LEMMA ReviseAcceptedKeeps ==
    ASSUME LoopInv, ReviseAccepted
    PROVE  LoopInv'
<1>0. /\ phase = "revise" /\ slot \in Slots
      /\ Settle(Normalised(Working)) /\ Guard(Normalised(Working))
      /\ UNCHANGED <<in, phase, first, own, verdict, outcome, fired, resolved>>
  BY DEF ReviseAccepted, Accepts, Writing
<1>1. Proper(Normalised(Working))
  BY <1>0, OwnSpans, GuardedProper DEF LoopInv
<1>2. \A i \in Unflagged(slot) : Normal[first[slot][i]] = first[slot][i]
  <2>1. first[slot] \in Seq(Printed)
    BY <1>0 DEF LoopInv, Prose, Proper
  <2>2. \A i \in DOMAIN first[slot] : first[slot][i] \in Printed
    BY <2>1, LenProperties, ElementOfSeq
  <2> QED
    BY <2>2 DEF Unflagged, Printed
<1>3. Survive(first[slot], Unflagged(slot), Normalised(Working))
  BY <1>0, <1>2, NormalisedKeeps DEF LoopInv, Reworked
<1> QED
  BY <1>0, <1>1, <1>3, SettleKeeps

\* A re-ask begins again, in a revision with the pass-1 text.
LEMMA ReaskKeeps ==
    ASSUME LoopInv, ReviseReasked \/ ReviseMissing \/ \E reply \in Drafts : DraftReasked(reply)
    PROVE  LoopInv'
<1>1. CASE ReviseReasked
  <2>1. /\ phase = "revise" /\ slot \in Slots /\ asks' = 1 /\ part' = 1 /\ draft' = <<>>
        /\ UNCHANGED <<in, phase, slot, text, first, own, verdict, outcome, fired, resolved>>
    BY <1>1 DEF ReviseReasked, Writing
  <2>2. Unflagged(slot) \subseteq DOMAIN first[slot] /\ Working' = first[slot]
    BY <2>1 DEF Unflagged, Working
  <2>3. Survive(first[slot], Unflagged(slot), Working')
    BY <2>2, SurviveSelf
  <2> QED
    BY <2>1, <2>3, ProperTexts, UnderWayKeeps
<1>2. CASE ReviseMissing
  <2>1. /\ phase = "revise" /\ phase' = "crashed" /\ slot \in Slots
        /\ UNCHANGED <<in, slot, part, asks, draft, text, first, own, verdict, outcome,
                       fired, resolved>>
    BY <1>2 DEF ReviseMissing, Writing
  <2> QED
    BY <2>1, UnderWayKeeps DEF LoopInv, TypeOK
<1>3. ASSUME NEW reply \in Drafts, DraftReasked(reply)
      PROVE  LoopInv'
  <2>1. /\ phase = "draft" /\ slot \in Slots /\ asks' = 1
        /\ UNCHANGED <<in, phase, slot, part, draft, text, first, own, verdict, outcome,
                       fired, resolved>>
    BY <1>3 DEF DraftReasked, Writing
  <2> QED
    BY <2>1, UnderWayKeeps DEF LoopInv, TypeOK, Prose
<1> QED
  BY <1>1, <1>2, <1>3

\* A slot given up is missing; a slot carried keeps its pass-1 text.
LEMMA GivenUpOrCarriedKeeps ==
    ASSUME LoopInv, DraftGivenUp \/ ReviseGivenUp \/ Carry
    PROVE  LoopInv'
<1>2. CASE DraftGivenUp
  BY <1>2, ProperTexts, SettleKeeps DEF DraftGivenUp, Writing
<1>3. CASE ReviseGivenUp
  BY <1>3, ProperTexts, SettleKeeps DEF ReviseGivenUp, Writing
<1>4. CASE Carry
  <2>1. Proper(first[slot])
    BY <1>4 DEF Carry, Writing, LoopInv, Prose
  <2>2. Survive(first[slot], Unflagged(slot), first[slot])
    BY SurviveSelf DEF Unflagged
  <2> QED
    BY <1>4, <2>1, <2>2, SettleKeeps DEF Carry, Writing
<1> QED
  BY <1>2, <1>3, <1>4

LEMMA StepKeeps == LoopInv /\ [Next]_vars => LoopInv'
<1> SUFFICES ASSUME LoopInv, [Next]_vars
             PROVE  LoopInv'
  OBVIOUS
<1>1. CASE DraftGivenUp \/ ReviseGivenUp \/ Carry
  BY <1>1, GivenUpOrCarriedKeeps
<1>2. ASSUME NEW reply \in Drafts, DraftAccepted(reply)
      PROVE  LoopInv'
  BY <1>2, DraftAcceptedKeeps
<1>3. CASE ReviseReasked \/ ReviseMissing \/ \E reply \in Drafts : DraftReasked(reply)
  BY <1>3, ReaskKeeps
<1>4. CASE ReviseAccepted
  BY <1>4, ReviseAcceptedKeeps
<1>5. ASSUME NEW r \in Replacements, ReplaceSpan(r)
      PROVE  LoopInv'
  BY <1>5, ReplaceSpanKeeps
<1>7. CASE Judge
  BY <1>7, JudgeDraftKeeps, JudgeRevisionKeeps DEF Judge
<1>8. ASSUME NEW un \in SUBSET verdict[1].defects, Remediate(un)
      PROVE  LoopInv'
  BY <1>8, RemediateKeeps
<1>9. CASE UNCHANGED vars
  <2> USE <1>9 DEF vars, LoopInv
  <2>1. TypeOK' /\ Prose' /\ NoneUnderWay' /\ FirstOfRevision'
    BY DEF TypeOK, Prose, Proper, NoneUnderWay, FirstOfRevision, WasRevised
  <2>2. Verdicts2' /\ Reported' /\ Undecided' /\ OutsideSpansVerbatim'
    BY SameSurvive DEF Verdicts2, Shaped, Reported, Undecided, OutsideSpansVerbatim,
                       Rewritten
  <2>4. Reworked'
    <3>1. Survive(first[slot], Unflagged(slot), Working)'
             <=> Survive(first[slot], Unflagged(slot), Working)
      BY DEF Survive, Unflagged, DefectSpans, Working
    <3> QED
      BY <3>1 DEF Reworked
  <2>3. /\ PublishedIsClean' /\ TemplateDefectConfirmed'
        /\ ProseOnlyRevision' /\ WithheldIsLogged'
    BY DEF PublishedIsClean, TemplateDefectConfirmed, ProseOnlyRevision,
           WithheldIsLogged, LastVerdict, WasRevised, Lost, HeldFromBefore
  <2> QED
    BY <2>1, <2>2, <2>3, <2>4
<1> QED
  BY <1>1, <1>2, <1>3, <1>4, <1>5, <1>7, <1>8, <1>9 DEF Next, Draft, Revise

\* Every run of the loop stays within LoopInv, whatever the model answers.
THEOREM LoopInvariant == Spec => []LoopInv
  BY InitKeeps, StepKeeps, PTL DEF Spec

\* The loop's state keeps its types, whatever the model answers.
THEOREM LoopTypeCorrect == Spec => []TypeOK
<1>1. LoopInv => TypeOK
  BY DEF LoopInv
<1> QED
  BY <1>1, LoopInvariant, PTL

\* The guard of `generate` and `revise` stands between the model and the page:
\* no text of either pass ever holds a word the guard rejects.
THEOREM ProseGuarded == Spec => []OnlyGuardedProse
<1>1. LoopInv => OnlyGuardedProse
  <2> SUFFICES ASSUME LoopInv, NEW s \in Slots
               PROVE  /\ \A i \in DOMAIN text[s] : text[s][i] \notin Stray
                      /\ \A i \in DOMAIN first[s] : first[s][i] \notin Stray
    BY DEF OnlyGuardedProse
  <2>1. text[s] \in Seq(Printed) /\ first[s] \in Seq(Printed)
    BY DEF LoopInv, Prose, Proper
  <2>2. /\ \A i \in DOMAIN text[s] : text[s][i] \in Printed
        /\ \A i \in DOMAIN first[s] : first[s][i] \in Printed
    BY <2>1, LenProperties, ElementOfSeq
  <2> QED
    BY <2>2 DEF Printed
<1> QED
  BY <1>1, LoopInvariant, PTL

\* `revise` and `apply_replacements` leave every pass-1 word that is in none of the
\* slot's own defects as it was and in its order, whatever is replaced before it.
THEOREM VerbatimOutsideSpans == Spec => []OutsideSpansVerbatim
<1>1. LoopInv => OutsideSpansVerbatim
  BY DEF LoopInv
<1> QED
  BY <1>1, LoopInvariant, PTL

\* A published page was judged clean in its last pass, and a revised one lost no
\* span on either pass (R-48).
THEOREM PublishedClean == Spec => []PublishedIsClean
<1>1. LoopInv => PublishedIsClean
  BY DEF LoopInv
<1> QED
  BY <1>1, LoopInvariant, PTL

\* A template defect was found in one place by both judgments, or outside every
\* slot by the only one.
THEOREM TemplateDefects == Spec => []TemplateDefectConfirmed
<1>1. LoopInv => TemplateDefectConfirmed
  BY DEF LoopInv
<1> QED
  BY <1>1, LoopInvariant, PTL

\* Only a judged page that fails on its prose alone is ever revised.
THEOREM RevisionsProseOnly == Spec => []ProseOnlyRevision
<1>1. LoopInv => ProseOnlyRevision
  BY DEF LoopInv
<1> QED
  BY <1>1, LoopInvariant, PTL

\* A page withheld for what it says fires a Level 2 trigger and resolves no older
\* entry.
THEOREM WithheldLogged == Spec => []WithheldIsLogged
<1>1. LoopInv => WithheldIsLogged
  BY DEF LoopInv
<1> QED
  BY <1>1, LoopInvariant, PTL

===============================================================================
