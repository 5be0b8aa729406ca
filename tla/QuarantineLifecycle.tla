------------------------ MODULE QuarantineLifecycle ------------------------
(***************************************************************************)
(* What the event log and the site of one token promise their reader,      *)
(* whatever runs, re-runs and crashes produced them: a Level 2/3 entry is  *)
(* opened once and closed at most once, nothing is announced as published  *)
(* while an entry is open, and no page set is shown that was not announced.*)
(***************************************************************************)
CONSTANT Absent

VARIABLES opened,      \* keys of the Level 2/3 entries ever fired
          closed,      \* keys of those resolved
          announced,   \* announcements: <<number, bundle>>
          page         \* the bundle whose page set is in place

vars == <<opened, closed, announced, page>>

Init == opened = {} /\ closed = {} /\ announced = {} /\ page = Absent

Fire(k) ==
    /\ k \notin opened
    /\ opened' = opened \cup {k}
    /\ UNCHANGED <<closed, announced, page>>

Resolve(k) ==
    /\ k \in opened \ closed
    /\ closed' = closed \cup {k}
    /\ UNCHANGED <<opened, announced, page>>

\* Every announcement is a new one, also of a bundle announced before.
Announce(a) ==
    /\ opened = closed
    /\ a \notin announced
    /\ announced' = announced \cup {a}
    /\ UNCHANGED <<opened, closed, page>>

Withdraw ==
    /\ page' = Absent
    /\ UNCHANGED <<opened, closed, announced>>

Show(a) ==
    /\ a \in announced
    /\ page' = a[2]
    /\ UNCHANGED <<opened, closed, announced>>

\* Keys and announcements are unbounded here: a step is one of the five on whatever
\* key or announcement it changes.
Next ==
    \/ \E k \in opened' : Fire(k)
    \/ \E k \in closed' : Resolve(k)
    \/ \E a \in announced' : Announce(a)
    \/ Withdraw
    \/ \E a \in announced : Show(a)

Spec == Init /\ [][Next]_vars
=============================================================================
