------------------------------- MODULE Site_proofs ------------------------------
(***************************************************************************)
(* Theorems about the behavioral refresh and the site, for any tokens,     *)
(* answers and bounds: first about a fetch (Behavioral), then about builds *)
(* over whatever the fetches and the report stages left (Site).            *)
(***************************************************************************)
EXTENDS Site, WellFoundedInduction, SequenceTheorems, TLAPS

(***************************************************************************)
(* The newest stamp.                                                       *)
(***************************************************************************)
LEMMA NatLeast ==
    ASSUME NEW S, S \subseteq Nat, S # {}
    PROVE  \E x \in S : \A y \in S : x <= y
  <1> DEFINE R == OpToRel(<, Nat)
  <1>1. IsWellFoundedOn(R, Nat)
    BY NatLessThanWellFounded
  <1>2. \E x \in S : \A y \in S : <<y, x>> \notin R
    <2> HIDE DEF R
    <2> QED BY <1>1, WFMin
  <1>3. \A x, y \in Nat : <<y, x>> \notin R => x <= y
    BY DEF OpToRel
  <1> HIDE DEF R
  <1> QED BY <1>2, <1>3

\* Max of stamps is the newest: MaxFetches - Max(S) is the least distance.
LEMMA NewestStamp ==
    ASSUME NEW S, S \subseteq Stamps, S # {}
    PROVE  Max(S) \in S /\ \A s \in S : s <= Max(S)
  <1> DEFINE Gaps == {n \in Nat : \E x \in S : x + n = MaxFetches}
  <1>0. MaxFetches \in Nat
    BY BehavioralAssumption
  <1>1. \A x \in S : x \in Nat /\ MaxFetches - x \in Gaps
    <2> SUFFICES ASSUME NEW x \in S PROVE x \in Nat /\ MaxFetches - x \in Gaps
      OBVIOUS
    <2>1. x \in Nat /\ x <= MaxFetches
      BY <1>0 DEF Stamps
    <2>2. MaxFetches - x \in Nat /\ x + (MaxFetches - x) = MaxFetches
      BY <2>1, <1>0
    <2> QED BY <2>1, <2>2
  <1>2. PICK n \in Gaps : \A m \in Gaps : n <= m
    <2>1. Gaps \subseteq Nat /\ Gaps # {}
      BY <1>1
    <2> HIDE DEF Gaps
    <2> QED BY <2>1, NatLeast
  <1>3. PICK x \in S : x + n = MaxFetches
    OBVIOUS
  <1>4. \A y \in S : x >= y
    <2> SUFFICES ASSUME NEW y \in S PROVE x >= y
      OBVIOUS
    <2>1. n <= MaxFetches - y /\ n \in Nat
      BY <1>1, <1>2
    <2> HIDE DEF Gaps
    <2> QED BY <1>0, <1>1, <1>3, <2>1
  <1>5. \E z \in S : \A y \in S : z >= y
    BY <1>4
  <1>6. Max(S) \in S /\ \A y \in S : Max(S) >= y
    BY <1>5 DEF Max
  <1> HIDE DEF Gaps
  <1> QED BY <1>1, <1>6

(***************************************************************************)
(* Sequences taken from the front.                                         *)
(***************************************************************************)
Left(s) == {s[i] : i \in 1 .. Len(s)}

LEMMA HeadGoes ==
    ASSUME NEW S, NEW s \in Seq(S), s # <<>>
    PROVE  /\ Head(s) \in S /\ Tail(s) \in Seq(S) /\ Len(s) >= 1
           /\ Left(s) \subseteq Left(Tail(s)) \cup {Head(s)}
           /\ Len(s) = 1 => Left(s) = {Head(s)}
           /\ Len(s) # 1 => Tail(s) # <<>>
  <1>1. /\ Len(s) \in Nat /\ Len(s) >= 1 /\ Head(s) = s[1] /\ Head(s) \in S
        /\ Tail(s) \in Seq(S) /\ Len(Tail(s)) = Len(s) - 1
        /\ \A i \in 1 .. Len(Tail(s)) : Tail(s)[i] = s[i + 1]
    <2>1. Len(s) \in Nat \ {0}
      BY EmptySeq
    <2>2. Head(s) = s[1]
      BY <2>1
    <2>3. /\ Head(s) \in S /\ Tail(s) \in Seq(S) /\ Len(Tail(s)) = Len(s) - 1
          /\ \A i \in 1 .. Len(Tail(s)) : Tail(s)[i] = s[i + 1]
      BY HeadTailProperties
    <2> QED BY <2>1, <2>2, <2>3
  <1>2. \A i \in 1 .. Len(s) : i = 1 \/ (i - 1 \in 1 .. Len(Tail(s)) /\ Tail(s)[i - 1] = s[i])
    BY <1>1
  <1>3. Left(s) \subseteq Left(Tail(s)) \cup {Head(s)}
    BY <1>1, <1>2 DEF Left
  <1>4. Len(s) = 1 => Left(s) = {Head(s)}
    BY <1>1 DEF Left
  <1>5. ASSUME Len(s) # 1 PROVE Tail(s) # <<>>
    <2>1. Len(Tail(s)) # 0
      BY <1>1, <1>5
    <2>2. Len(<<>>) = 0
      BY EmptySeq
    <2> QED BY <2>1, <2>2
  <1> QED BY <1>1, <1>3, <1>4, <1>5

LEMMA OrderIs ==
    /\ Len(Order) \in Nat /\ Len(Order) >= 1
    /\ Left(Order) = Tokens
    /\ \A t \in Tokens : Position(t) \in 1 .. Len(Order)
  <1>1. Order \in Seq(Tokens) /\ Order # <<>>
    BY BehavioralAssumption
  <1>2. Len(Order) \in Nat /\ Len(Order) >= 1 /\ DOMAIN Order = 1 .. Len(Order)
    BY <1>1, EmptySeq
  <1>3. Left(Order) = Tokens
    BY <1>2 DEF Left, Tokens, ToSet
  <1>4. \A t \in Tokens : \E i \in 1 .. Len(Order) : Order[i] = t
    BY <1>3 DEF Left
  <1> QED BY <1>2, <1>3, <1>4 DEF Position
-------------------------------------------------------------------------------
(***************************************************************************)
(* The fetch.                                                              *)
(***************************************************************************)
FetchFields == {"phase", "depeg", "supply", "total", "listing", "page", "snaps", "notes", "left"}

Listing == [Tokens -> [page : Nat, row : Holders] \cup {Unlisted}]

\* What a fetch holds at each phase: the answers so far, then the rows of every
\* token, then the snapshots, of which those that are not left to write are
\* written under the fetch's own stamp.
Phased ==
    /\ fetch.page \in Nat
    /\ fetch.phase # "idle" => fetches \in Stamps
    /\ fetch.phase = "depeg" =>
          /\ fetch.depeg \in Seq(Depegs) /\ Len(fetch.depeg) < Len(Order)
          /\ fetch.supply = <<>>
    /\ fetch.phase \in {"supply", "hci", "trim"} =>
          fetch.depeg \in Seq(Depegs) /\ Len(fetch.depeg) = Len(Order)
    /\ fetch.phase = "supply" => fetch.supply \in Seq(Supplies) /\ Len(fetch.supply) < Len(Order)
    /\ fetch.phase \in {"hci", "trim"} =>
          /\ fetch.supply \in Seq(Supplies) /\ Len(fetch.supply) = Len(Order)
          /\ fetch.listing \in Listing
    /\ fetch.phase = "write" =>
          /\ fetch.left \in Seq(Tokens) /\ fetch.left # <<>>
          /\ fetch.snaps \in [Tokens -> Snapshot]
          /\ \A t \in Tokens : t \in Left(fetch.left) \/ store[t][fetches] # None
    /\ fetch.phase = "status" => \A t \in Tokens : store[t][fetches] # None
    /\ fetch.phase \in {"write", "status"} => fetch.notes \subseteq Tokens

\* Stamps only rise: no snapshot is newer than the fetch that runs or ran last.
NoneAhead == \A t \in Tokens : \A s \in Stamps : store[t][s] # None => s <= fetches

FetchInv ==
    /\ store \in [Tokens -> [Stamps -> Snapshot \cup {None}]]
    /\ status \in Status \cup {None}
    /\ fetches \in 0 .. MaxFetches
    /\ DOMAIN fetch = FetchFields /\ fetch.phase \in Phases
    /\ Phased /\ NoneAhead /\ StampEverywhere

LEMMA FetchInit == BehavioralInit => FetchInv
  <1> SUFFICES ASSUME BehavioralInit PROVE FetchInv
    OBVIOUS
  <1>1. /\ fetch = NoFetch /\ DOMAIN fetch = FetchFields /\ fetch.phase = "idle"
        /\ fetch.page = 0
    BY DEF BehavioralInit, NoFetch, FetchFields
  <1>2. Phased /\ fetch.phase \in Phases
    BY <1>1 DEF Phased, Phases
  <1>3. /\ store \in [Tokens -> [Stamps -> Snapshot \cup {None}]]
        /\ \A t \in Tokens : \A s \in Stamps : store[t][s] = None
        /\ status = None /\ fetches = 0 /\ 0 \in 0 .. MaxFetches
    BY BehavioralAssumption DEF BehavioralInit
  <1> QED BY <1>1, <1>2, <1>3 DEF FetchInv, NoneAhead, StampEverywhere

\* Before the first write a fetch only gathers answers.
LEMMA Gathers ==
    ASSUME FetchInv, UNCHANGED <<store, status, fetches>>,
           DOMAIN fetch' = FetchFields, fetch'.phase \in Phases, Phased'
    PROVE  FetchInv'
  BY DEF FetchInv, NoneAhead, StampEverywhere, Status

LEMMA StoppedIs ==
    /\ DOMAIN Stopped = FetchFields /\ Stopped.phase = "stopped" /\ Stopped.page = 0
    /\ DOMAIN NoFetch = FetchFields /\ NoFetch.phase = "idle" /\ NoFetch.page = 0
  BY DEF Stopped, NoFetch, FetchFields

\* Answers that all validate make a snapshot of every token.
LEMMA AssembleType ==
    ASSUME FetchInv, fetch.phase = "trim", NEW t \in Tokens, ~Malformed(fetch, t)
    PROVE  Assemble(fetch, t) \in Snapshot
  <1>1. /\ Position(t) \in 1 .. Len(fetch.depeg) /\ Position(t) \in 1 .. Len(fetch.supply)
        /\ fetch.depeg \in Seq(Depegs) /\ fetch.supply \in Seq(Supplies)
        /\ fetch.listing \in Listing /\ fetch.page \in Nat
    BY OrderIs DEF FetchInv, Phased
  <1>2. fetch.depeg[Position(t)] \in Depeg \ {Bad} /\ fetch.supply[Position(t)] \in Supply \ {Bad}
    <2>1. fetch.depeg[Position(t)] \in Depegs /\ fetch.supply[Position(t)] \in Supplies
      BY <1>1, ElementOfSeq
    <2> QED BY <2>1, BehavioralAssumption DEF Malformed
  <1>3. t \in Found(fetch) => fetch.listing[t].row \in Holder
    <2> SUFFICES ASSUME t \in Found(fetch) PROVE fetch.listing[t].row \in Holder
      OBVIOUS
    <2>1. fetch.listing[t] \in [page : Nat, row : Holders] \cup {Unlisted}
      BY <1>1 DEF Listing
    <2>2. fetch.listing[t] # Unlisted
      BY <1>1 DEF Found, Unlisted
    <2> QED BY <2>1, <2>2, BehavioralAssumption
  <1> QED BY <1>2, <1>3 DEF Assemble, Snapshot

\* latest_stamp: a stamp every token has, and the fetch's own when all have it.
LEMMA LatestStampIs ==
    ASSUME FetchInv
    PROVE  /\ LatestStamp \in Stamps \cup {None}
           /\ LatestStamp # None => \A t \in Tokens : store[t][LatestStamp] # None
           /\ (/\ fetches \in Stamps
               /\ \A t \in Tokens : store[t][fetches] # None) => LatestStamp = fetches
  <1> DEFINE common == {s \in Stamps : \A t \in Tokens : s \in StampsOf(t)}
  <1>1. LatestStamp = IF common = {} THEN None ELSE Max(common)
    BY DEF LatestStamp
  <1>2. \A s \in common : s \in Stamps /\ \A t \in Tokens : store[t][s] # None
    BY DEF StampsOf
  <1>3. ASSUME common # {} PROVE Max(common) \in common /\ \A s \in common : s <= Max(common)
    <2> HIDE DEF common
    <2>1. common \subseteq Stamps
      BY <1>2
    <2> QED BY <1>3, <2>1, NewestStamp
  <1>4. ASSUME fetches \in Stamps, \A t \in Tokens : store[t][fetches] # None
        PROVE  LatestStamp = fetches
    <2>1. fetches \in common
      BY <1>4 DEF StampsOf
    <2>2. \A s \in common : s <= fetches /\ s \in Nat
      <3>1. PICK t : t \in Tokens
        BY OrderIs DEF Left
      <3> QED BY <1>2, <3>1 DEF FetchInv, NoneAhead, Stamps
    <2> HIDE DEF common
    <2>3. Max(common) \in common /\ fetches <= Max(common)
      BY <1>3, <2>1
    <2> QED BY <1>1, <2>1, <2>2, <2>3
  <1> HIDE DEF common
  <1> QED BY <1>1, <1>2, <1>3, <1>4

LEMMA AnswerSteps ==
    ASSUME FetchInv, StartFetch \/ AnswerDepeg \/ AnswerPage \/ HttpError \/ Abandon
    PROVE  FetchInv'
  <1>0. /\ DOMAIN fetch = FetchFields /\ Phased /\ Len(Order) >= 1 /\ Len(Order) \in Nat
        /\ fetches \in Nat /\ MaxFetches \in Nat
    BY OrderIs, BehavioralAssumption DEF FetchInv
  <1>1. CASE StartFetch
    <2>1. fetches' \in Stamps /\ fetches' = fetches + 1
      BY <1>0, <1>1 DEF StartFetch, Stamps
    <2>2. Phased' /\ DOMAIN fetch' = FetchFields /\ fetch'.phase \in Phases
      <3>1. CASE fetch' = Stopped
        BY <2>1, <3>1, StoppedIs DEF Phased, Phases
      <3>2. CASE fetch' = [NoFetch EXCEPT !.phase = "depeg"]
        <4>1. /\ fetch'.phase = "depeg" /\ fetch'.depeg = <<>> /\ fetch'.supply = <<>>
              /\ DOMAIN fetch' = FetchFields /\ fetch'.page = 0
          BY <3>2 DEF NoFetch, FetchFields
        <4>2. <<>> \in Seq(Depegs) /\ Len(<<>>) < Len(Order)
          BY <1>0, EmptySeq
        <4> QED BY <2>1, <4>1, <4>2 DEF Phased, Phases
      <3> QED BY <1>1, <3>1, <3>2 DEF StartFetch
    <2>3. NoneAhead'
      BY <1>0, <1>1, <2>1 DEF FetchInv, NoneAhead, StartFetch, Stamps
    <2>4. StampEverywhere'
      BY <1>1 DEF FetchInv, StampEverywhere, StartFetch, Status
    <2> QED BY <1>0, <1>1, <2>1, <2>2, <2>3, <2>4 DEF FetchInv, StartFetch, Stamps
  <1>2. CASE AnswerDepeg
    <2>1. PICK b \in Depegs :
              LET got == Append(fetch.depeg, b)
              IN  fetch' = [fetch EXCEPT !.depeg = got,
                              !.phase = IF Len(got) = Len(Order) THEN "supply" ELSE "depeg"]
      BY <1>2 DEF AnswerDepeg
    <2> DEFINE got == Append(fetch.depeg, b)
    <2>2. /\ got \in Seq(Depegs) /\ Len(got) <= Len(Order) /\ Len(got) \in Nat
          /\ fetch.supply = <<>> /\ fetches \in Stamps
      <3>1. fetch.depeg \in Seq(Depegs) /\ Len(fetch.depeg) < Len(Order)
        BY <1>0, <1>2 DEF AnswerDepeg, Phased
      <3>2. got \in Seq(Depegs) /\ Len(got) = Len(fetch.depeg) + 1 /\ Len(fetch.depeg) \in Nat
        BY <3>1, AppendProperties, LenProperties
      <3>3. fetch.supply = <<>> /\ fetches \in Stamps
        BY <1>0, <1>2 DEF AnswerDepeg, Phased
      <3> HIDE DEF got
      <3> QED BY <1>0, <3>1, <3>2, <3>3
    <2>3. /\ fetch'.depeg = got /\ fetch'.supply = fetch.supply /\ DOMAIN fetch' = FetchFields
          /\ fetch'.page = fetch.page /\ fetch.page \in Nat
          /\ fetch'.phase = IF Len(got) = Len(Order) THEN "supply" ELSE "depeg"
      BY <1>0, <2>1 DEF FetchFields, Phased
    <2> HIDE DEF got
    <2>4. <<>> \in Seq(Supplies) /\ Len(<<>>) < Len(Order)
      BY <1>0, EmptySeq
    <2>5. UNCHANGED <<store, status, fetches>>
      BY <1>2 DEF AnswerDepeg
    <2>6. Phased' /\ fetch'.phase \in Phases
      <3>1. CASE Len(got) = Len(Order)
        BY <2>2, <2>3, <2>4, <2>5, <3>1 DEF Phased, Phases
      <3>2. CASE Len(got) # Len(Order)
        BY <1>0, <2>2, <2>3, <2>5, <3>2 DEF Phased, Phases
      <3> QED BY <3>1, <3>2
    <2> QED BY <2>3, <2>5, <2>6, Gathers
  <1>3. CASE AnswerPage
    <2>1. /\ fetch.depeg \in Seq(Depegs) /\ Len(fetch.depeg) = Len(Order)
          /\ fetch.supply \in Seq(Supplies) /\ Len(fetch.supply) = Len(Order)
          /\ fetch.listing \in Listing /\ fetch.page \in Nat /\ fetches \in Stamps
      BY <1>0, <1>3 DEF AnswerPage, Phased
    <2>2. CASE fetch' = Stopped
      <3>1. Phased' /\ fetch'.phase \in Phases /\ DOMAIN fetch' = FetchFields
        BY <1>3, <2>1, <2>2, StoppedIs DEF Phased, Phases, AnswerPage
      <3> QED BY <1>3, <3>1, Gathers DEF AnswerPage
    <2>3. CASE fetch' # Stopped
      <3>1. /\ fetch'.depeg = fetch.depeg /\ fetch'.supply = fetch.supply
            /\ fetch'.listing = fetch.listing /\ fetch'.page = fetch.page + 1
            /\ fetch'.phase \in {"trim", "hci"} /\ DOMAIN fetch' = FetchFields
        BY <1>0, <1>3, <2>3 DEF AnswerPage, FetchFields
      <3>2. Phased' /\ fetch'.phase \in Phases
        BY <1>3, <2>1, <3>1 DEF Phased, Phases, AnswerPage
      <3> QED BY <1>3, <3>1, <3>2, Gathers DEF AnswerPage
    <2> QED BY <2>2, <2>3
  <1>4. CASE HttpError
    <2>1. fetches \in Stamps
      BY <1>0, <1>4 DEF HttpError, Phased
    <2>2. Phased' /\ fetch'.phase \in Phases /\ DOMAIN fetch' = FetchFields
      BY <1>4, <2>1, StoppedIs DEF Phased, Phases, HttpError
    <2> QED BY <1>4, <2>2, Gathers DEF HttpError
  <1>5. CASE Abandon
    <2>1. Phased' /\ fetch'.phase \in Phases /\ DOMAIN fetch' = FetchFields
      BY <1>5, StoppedIs DEF Phased, Phases, Abandon
    <2> QED BY <1>5, <2>1, Gathers DEF Abandon
  <1> QED BY <1>1, <1>2, <1>3, <1>4, <1>5

\* The last supply row is followed by the listing of the holder list.
LEMMA SupplyStep ==
    ASSUME FetchInv, AnswerSupply
    PROVE  FetchInv'
  <1>0. /\ DOMAIN fetch = FetchFields /\ fetch.phase = "supply"
        /\ Len(Order) \in Nat /\ fetches \in Stamps
        /\ fetch.depeg \in Seq(Depegs) /\ Len(fetch.depeg) = Len(Order)
        /\ fetch.supply \in Seq(Supplies) /\ Len(fetch.supply) < Len(Order)
        /\ fetch.page \in Nat /\ UNCHANGED <<store, status, fetches>>
    BY OrderIs DEF FetchInv, Phased, AnswerSupply
  <1>1. PICK b \in Supplies :
            LET got == Append(fetch.supply, b)
            IN  IF Len(got) < Len(Order)
                THEN fetch' = [fetch EXCEPT !.supply = got]
                ELSE \E n \in 1 .. MaxPages :
                     \E listing \in [Tokens -> [page : 1 .. n, row : Holders] \cup {Unlisted}] :
                        fetch' = [fetch EXCEPT !.supply = got, !.phase = "hci",
                                    !.total = n, !.listing = listing]
    BY DEF AnswerSupply
  <1> DEFINE got == Append(fetch.supply, b)
  <1>2. got \in Seq(Supplies) /\ Len(got) = Len(fetch.supply) + 1 /\ Len(fetch.supply) \in Nat
    BY <1>0, AppendProperties, LenProperties
  <1>3. CASE Len(got) < Len(Order)
    <2>1. fetch' = [fetch EXCEPT !.supply = got]
      BY <1>1, <1>3
    <2> HIDE DEF got
    <2>2. /\ fetch'.depeg = fetch.depeg /\ fetch'.supply = got /\ fetch'.phase = "supply"
          /\ fetch'.page = fetch.page
          /\ DOMAIN fetch' = FetchFields
      BY <1>0, <2>1 DEF FetchFields
    <2>3. Phased' /\ fetch'.phase \in Phases
      BY <1>0, <1>2, <1>3, <2>2 DEF Phased, Phases
    <2> QED BY <1>0, <2>2, <2>3, Gathers
  <1>4. CASE ~(Len(got) < Len(Order))
    <2>0. PICK n \in 1 .. MaxPages :
              \E listing \in [Tokens -> [page : 1 .. n, row : Holders] \cup {Unlisted}] :
                  fetch' = [fetch EXCEPT !.supply = got, !.phase = "hci",
                              !.total = n, !.listing = listing]
      BY <1>1, <1>4
    <2>1. PICK listing \in [Tokens -> [page : 1 .. n, row : Holders] \cup {Unlisted}] :
              fetch' = [fetch EXCEPT !.supply = got, !.phase = "hci",
                          !.total = n, !.listing = listing]
      BY <2>0
    <2> HIDE DEF got
    <2>2. /\ fetch'.depeg = fetch.depeg /\ fetch'.supply = got /\ fetch'.phase = "hci"
          /\ fetch'.listing = listing /\ fetch'.page = fetch.page
          /\ DOMAIN fetch' = FetchFields
      BY <1>0, <2>1 DEF FetchFields
    <2>3. Len(got) = Len(Order)
      BY <1>0, <1>2, <1>4
    <2>4. listing \in Listing
      <3>1. 1 .. n \subseteq Nat
        BY BehavioralAssumption
      <3> QED BY <3>1 DEF Listing
    <2>6. Phased' /\ fetch'.phase \in Phases
      BY <1>0, <1>2, <2>2, <2>3, <2>4 DEF Phased, Phases
    <2> QED BY <1>0, <2>2, <2>6, Gathers
  <1> QED BY <1>3, <1>4

\* Every shape is checked before the first file is written.
LEMMA TrimStep ==
    ASSUME FetchInv, Trim
    PROVE  FetchInv'
  <1>0. fetch.phase = "trim" /\ fetches \in Stamps /\ UNCHANGED <<store, status, fetches>>
    BY DEF FetchInv, Phased, Trim
  <1>1. CASE fetch' = Stopped
    <2>1. Phased' /\ fetch'.phase \in Phases /\ DOMAIN fetch' = FetchFields
      BY <1>0, <1>1, StoppedIs DEF Phased, Phases
    <2> QED BY <1>0, <2>1, Gathers
  <1>2. CASE fetch' # Stopped
    <2>1. fetch' = Writing(fetch, Order) /\ \A t \in Tokens : ~Malformed(fetch, t)
      BY <1>2 DEF Trim
    <2>2. /\ fetch'.phase = "write" /\ fetch'.left = Order /\ fetch'.notes = Notes(fetch)
          /\ fetch'.snaps = [t \in ToSet(Order) |-> Assemble(fetch, t)]
          /\ fetch'.page = 0 /\ DOMAIN fetch' = FetchFields
      BY <2>1 DEF Writing, NoFetch, FetchFields
    <2>3. fetch'.snaps \in [Tokens -> Snapshot]
      BY <1>0, <2>1, <2>2, AssembleType DEF Tokens
    <2>4. Order \in Seq(Tokens) /\ Order # <<>> /\ Left(Order) = Tokens
      BY OrderIs, BehavioralAssumption
    <2>5. Notes(fetch) \subseteq Tokens
      BY DEF Notes, Found
    <2>6. Phased' /\ fetch'.phase \in Phases
      BY <1>0, <2>2, <2>3, <2>4, <2>5 DEF Phased, Phases
    <2> QED BY <1>0, <2>2, <2>6, Gathers
  <1> QED BY <1>1, <1>2

\* A token's snapshot is written under the fetch's stamp and leaves the list.
LEMMA WriteStep ==
    ASSUME FetchInv, WriteSnapshot
    PROVE  FetchInv'
  <1>0. /\ DOMAIN fetch = FetchFields /\ fetch.phase = "write" /\ fetches \in Stamps
        /\ fetch.left \in Seq(Tokens) /\ fetch.left # <<>>
        /\ fetch.snaps \in [Tokens -> Snapshot] /\ fetch.notes \subseteq Tokens
        /\ \A t \in Tokens : t \in Left(fetch.left) \/ store[t][fetches] # None
        /\ fetch.page \in Nat /\ UNCHANGED <<status, fetches>>
    BY DEF FetchInv, Phased, WriteSnapshot
  <1> DEFINE h == Head(fetch.left)
  <1>1. /\ h \in Tokens /\ Tail(fetch.left) \in Seq(Tokens)
        /\ Left(fetch.left) \subseteq Left(Tail(fetch.left)) \cup {h}
        /\ Len(fetch.left) = 1 => Left(fetch.left) = {h}
        /\ Len(fetch.left) # 1 => Tail(fetch.left) # <<>>
    BY <1>0, HeadGoes
  <1>2. store' = [store EXCEPT ![h][fetches] = fetch.snaps[h]]
    BY DEF WriteSnapshot
  <1>3. /\ fetch'.left = Tail(fetch.left) /\ fetch'.snaps = fetch.snaps
        /\ fetch'.page = fetch.page
        /\ fetch'.notes = fetch.notes /\ DOMAIN fetch' = FetchFields
        /\ fetch'.phase = IF Len(fetch.left) = 1 THEN "status" ELSE "write"
    BY <1>0 DEF WriteSnapshot, FetchFields
  <1> HIDE DEF h
  <1>4. fetch.snaps[h] \in Snapshot /\ fetch.snaps[h] # None
    BY <1>0, <1>1, BehavioralAssumption
  <1>5. /\ store' \in [Tokens -> [Stamps -> Snapshot \cup {None}]]
        /\ store'[h][fetches] # None
        /\ \A t \in Tokens : \A s \in Stamps :
              ~(t = h /\ s = fetches) => store'[t][s] = store[t][s]
    BY <1>0, <1>1, <1>2, <1>4 DEF FetchInv
  <1>6. NoneAhead'
    BY <1>0, <1>5 DEF FetchInv, NoneAhead, Stamps
  <1>7. \A t \in Tokens : \A s \in Stamps : store[t][s] # None => store'[t][s] # None
    BY <1>5
  <1>8. StampEverywhere'
    <2>1. status # None => status.stamp \in Stamps \cup {None}
      BY DEF FetchInv, Status
    <2> QED BY <1>0, <1>7, <2>1 DEF FetchInv, StampEverywhere
  <1>9. Phased' /\ fetch'.phase \in Phases
    <2>1. CASE Len(fetch.left) = 1
      BY <1>0, <1>1, <1>3, <1>5, <1>7, <2>1 DEF Phased, Phases
    <2>2. CASE Len(fetch.left) # 1
      BY <1>0, <1>1, <1>3, <1>5, <1>7, <2>2 DEF Phased, Phases
    <2> QED BY <2>1, <2>2
  <1> QED BY <1>0, <1>3, <1>5, <1>6, <1>8, <1>9 DEF FetchInv

\* A status names a stamp every token has; one that says ok names its own.
LEMMA StatusStep ==
    ASSUME FetchInv, WriteStatus \/ WriteFailure
    PROVE  FetchInv'
  <1>1. /\ fetch' = NoFetch /\ fetches \in Stamps /\ UNCHANGED <<store, fetches>>
        /\ Phased' /\ DOMAIN fetch' = FetchFields /\ fetch'.phase \in Phases
    BY StoppedIs DEF FetchInv, Phased, WriteStatus, WriteFailure, Phases
  <1>2. NoneAhead'
    BY <1>1 DEF FetchInv, NoneAhead
  <1>3. LatestStamp \in Stamps \cup {None} /\
        (LatestStamp # None => \A t \in Tokens : store[t][LatestStamp] # None)
    BY LatestStampIs
  <1>4. CASE WriteStatus
    <2>1. /\ status' = [run |-> fetches, ok |-> TRUE, stamp |-> LatestStamp, notes |-> fetch.notes]
          /\ fetch.notes \subseteq Tokens /\ LatestStamp = fetches
      BY <1>1, <1>4, LatestStampIs DEF WriteStatus, FetchInv, Phased
    <2>2. status' \in Status
      BY <1>1, <1>3, <2>1 DEF Status
    <2>3. StampEverywhere'
      BY <1>1, <1>3, <2>1 DEF StampEverywhere
    <2> QED BY <1>1, <1>2, <2>2, <2>3 DEF FetchInv
  <1>5. CASE WriteFailure
    <2>1. status' = [run |-> fetches, ok |-> FALSE, stamp |-> LatestStamp, notes |-> {}]
      BY <1>5 DEF WriteFailure
    <2>2. status' \in Status
      BY <1>1, <1>3, <2>1 DEF Status
    <2>3. StampEverywhere'
      BY <1>1, <1>3, <2>1 DEF StampEverywhere
    <2> QED BY <1>1, <1>2, <2>2, <2>3 DEF FetchInv
  <1> QED BY <1>4, <1>5

LEMMA FetchStepKeeps == FetchInv /\ [FetchStep]_behavioralVars => FetchInv'
  <1> SUFFICES ASSUME FetchInv, [FetchStep]_behavioralVars PROVE FetchInv'
    OBVIOUS
  <1>1. CASE UNCHANGED behavioralVars
    BY <1>1 DEF behavioralVars, FetchInv, Phased, NoneAhead, StampEverywhere
  <1>2. CASE FetchStep
    BY <1>2, AnswerSteps, SupplyStep, TrimStep, WriteStep, StatusStep DEF FetchStep
  <1> QED BY <1>1, <1>2

\* behavioral.py: whatever fetches were cut short between two tokens, the stamp a
\* status names is one every token has, and `ok` names the fetch's own.
THEOREM StampsAreEverywhere == FetchSpec => []StampEverywhere
  <1>1. FetchInv => StampEverywhere
    BY DEF FetchInv
  <1> QED BY <1>1, FetchInit, FetchStepKeeps, PTL DEF FetchSpec
-------------------------------------------------------------------------------
(***************************************************************************)
(* The site.                                                               *)
(***************************************************************************)

\* The block a page should carry now.
RegionOf(t) == IF Latest(t) = None THEN None ELSE BlockOf(t)

\* A page that shows the newest snapshot, and a reader sentence that fits it.
ShowsNow(t, page) ==
    /\ page.region = RegionOf(t)
    /\ page.region # None => page.reader.kind = ReaderOf(t)

\* A page as the report stage or a build leaves it: never in words that are yet to
\* come, with the literal or the block, and, when it is one of today's templates, with
\* every form in today's words.
Kept(page, today) ==
    /\ \A f \in Forms : page.wording[f] <= today[f]
    /\ page.literal <=> page.region = None
    /\ page.wording = today =>
          /\ page.links = today["links"]
          /\ page.reader.of = today[IF page.reader.kind = "tier" THEN "tier" ELSE "reader"]

AllKept == \A t \in Tokens : Kept(pages[t], wording) /\ (stages[t] # None => Kept(stages[t], wording))

\* A build in progress: what it planned still agrees with the pages it found, for
\* nothing else runs, and what is no longer left to write is written.
Building ==
    build.left # <<>> =>
        /\ stop = None
        /\ build.pages \in [Tokens -> Page]
        /\ build.own.notice = NoticeOf
        /\ \A t \in Tokens :
              /\ build.own.cards[t].finding = pages[t].text
              /\ build.pages[t].text = pages[t].text
              /\ build.pages[t].wording = pages[t].wording
              /\ ShowsNow(t, build.pages[t]) /\ Kept(build.pages[t], wording)
              /\ t \in Left(build.left) \/ pages[t] = build.pages[t]
        /\ \A f \in ToSet(OwnFiles) : f \in Left(build.left) \/ site[f] = build.own

\* What a finished build leaves.
Shown ==
    built =>
        /\ site["methodology.html"].cards = site["index.html"].cards
        /\ site["index.html"].notice = NoticeOf
        /\ \A t \in Tokens :
              /\ site["index.html"].cards[t].finding = pages[t].text
              /\ ShowsNow(t, pages[t])

SiteInv == FetchInv /\ TypeOK /\ AllKept /\ Building /\ Shown /\ RewritesApply

LEMMA FormsAre == wording \in Wording => \A f \in Forms : wording[f] \in Nat
  BY DEF Wording

LEMMA OriginalIs ==
    ASSUME NEW page \in Page, wording \in Wording
    PROVE  /\ Original(page) \in Page
           /\ Original(page).text = page.text /\ Original(page).wording = page.wording
           /\ Original(page).links = IF page.links = wording["links"] THEN OldLinks ELSE page.links
           /\ Original(page).literal = (page.literal \/ page.region # None)
           /\ Original(page).region = None
           /\ Original(page).reader =
                 IF page.reader.kind \in {"part", "full"} /\ page.reader.of = wording["reader"]
                 THEN [kind |-> "tier", of |-> wording["tier"]] ELSE page.reader
  <1>1. wording["tier"] \in Nat /\ OldLinks \in Nat
    BY DEF Wording, Forms, OldLinks
  <1> QED BY <1>1 DEF Page, Original

LEMMA TodayReader ==
    ASSUME NEW page \in Page, wording \in Wording, Kept(page, wording), page.wording = wording
    PROVE  Original(page).reader = [kind |-> "tier", of |-> wording["tier"]]
  <1>1. page.reader \in [kind : {"tier", "full", "part"}, of : Nat]
    BY DEF Page
  <1>2. CASE page.reader.kind = "tier"
    <2>1. page.reader.of = wording["tier"]
      BY <1>2 DEF Kept
    <2>2. page.reader = [kind |-> "tier", of |-> wording["tier"]]
      BY <1>1, <1>2, <2>1
    <2> QED BY <1>2, <2>2, OriginalIs
  <1>3. CASE page.reader.kind # "tier"
    <2>1. page.reader.of = wording["reader"] /\ page.reader.kind \in {"part", "full"}
      BY <1>1, <1>3 DEF Kept
    <2> QED BY <2>1, OriginalIs
  <1> QED BY <1>2, <1>3

\* A page of today's templates takes its rewrites, whatever was done to it since.
LEMMA TodayRewritable ==
    ASSUME NEW page \in Page, wording \in Wording, Kept(page, wording), page.wording = wording,
           NEW t \in Tokens
    PROVE  Rewritable(t, page)
  <1>1. Original(page).links = OldLinks /\ Original(page).literal
    BY OriginalIs DEF Kept
  <1> QED BY <1>1, TodayReader DEF Rewritable

\* What the templates render.
LEMMA RenderedIs ==
    ASSUME wording \in Wording, NEW text \in Nat
    PROVE  RenderedPage(text) \in Page /\ Kept(RenderedPage(text), wording)
  <1>1. /\ wording["links"] \in Nat /\ wording["tier"] \in Nat
        /\ \A f \in Forms : wording[f] <= wording[f]
    BY DEF Wording, Forms
  <1> QED BY <1>1 DEF RenderedPage, Page, Kept

LEMMA LatestIs ==
    ASSUME FetchInv, NEW t \in Tokens
    PROVE  /\ Latest(t) = None <=> StampsOf(t) = {}
           /\ Latest(t) # None =>
                 Latest(t) \in StampsOf(t) /\ \A s \in StampsOf(t) : s <= Latest(t)
           /\ StampsOf(t) \subseteq Stamps
  <1>1. StampsOf(t) \subseteq Stamps
    BY DEF StampsOf
  <1>2. StampsOf(t) # {} => /\ Max(StampsOf(t)) \in StampsOf(t)
                            /\ \A s \in StampsOf(t) : s <= Max(StampsOf(t))
    BY <1>1, NewestStamp
  <1>3. None \notin Stamps
    BY BehavioralAssumption DEF Stamps
  <1> QED BY <1>1, <1>2, <1>3 DEF Latest

LEMMA RegionType ==
    ASSUME FetchInv, NEW t \in Tokens
    PROVE  /\ RegionOf(t) \in Block \cup {None}
           /\ RegionOf(t) = None <=> StampsOf(t) = {}
           /\ RegionOf(t) # None => RegionOf(t) = BlockOf(t)
  <1>1. NoticeOf \in Status \cup {None}
    BY DEF NoticeOf, FetchInv
  <1>2. Latest(t) # None => BlockOf(t) \in Block
    BY <1>1, LatestIs DEF BlockOf, Block
  <1>3. None \notin Block
    BY SiteAssumption
  <1> QED BY <1>2, <1>3, LatestIs DEF RegionOf

LEMMA RegionStays ==
    ASSUME UNCHANGED <<store, status>>
    PROVE  /\ NoticeOf' = NoticeOf
           /\ \A t \in Tokens : RegionOf(t)' = RegionOf(t) /\ ReaderOf(t)' = ReaderOf(t)
  <1>1. NoticeOf' = NoticeOf
    BY DEF NoticeOf
  <1>2. ASSUME NEW t \in Tokens PROVE RegionOf(t)' = RegionOf(t) /\ ReaderOf(t)' = ReaderOf(t)
    <2>1. StampsOf(t)' = StampsOf(t)
      BY DEF StampsOf
    <2>2. Latest(t)' = Latest(t)
      BY <2>1 DEF Latest
    <2> QED BY <1>1, <2>2 DEF RegionOf, BlockOf, ReaderOf
  <1> QED BY <1>1, <1>2

LEMMA RewrittenIs ==
    ASSUME FetchInv, wording \in Wording, NEW t \in Tokens, NEW page \in Page, Kept(page, wording)
    PROVE  /\ Rewritten(t, Original(page)) \in Page
           /\ Rewritten(t, Original(page)).text = page.text
           /\ Rewritten(t, Original(page)).wording = page.wording
           /\ ShowsNow(t, Rewritten(t, Original(page))) /\ Kept(Rewritten(t, Original(page)), wording)
  <1> DEFINE original == Original(page)
             after == Rewritten(t, original)
  <1>1. /\ original \in Page /\ original.text = page.text /\ original.wording = page.wording
        /\ original.region = None /\ original.literal
        /\ page.wording = wording => original.reader = [kind |-> "tier", of |-> wording["tier"]]
    <2>1. page.wording = wording => original.reader = [kind |-> "tier", of |-> wording["tier"]]
      BY TodayReader
    <2> QED BY <2>1, OriginalIs DEF Kept
  <1>2. wording["links"] \in Nat /\ wording["reader"] \in Nat
    BY DEF Wording, Forms
  <1>3. \A f \in Forms : page.wording[f] <= wording[f]
    BY DEF Kept
  <1> HIDE DEF original
  <1>4. CASE Latest(t) = None
    <2>1. after = [original EXCEPT !.links = wording["links"]] /\ RegionOf(t) = None
      BY <1>4 DEF Rewritten, RegionOf
    <2>2. /\ after \in Page /\ after.text = page.text /\ after.wording = page.wording
          /\ after.region = None /\ after.literal /\ after.links = wording["links"]
          /\ after.reader = original.reader
      BY <1>1, <1>2, <2>1 DEF Page
    <2> HIDE DEF after
    <2>3. ShowsNow(t, after)
      BY <2>1, <2>2 DEF ShowsNow
    <2>4. Kept(after, wording)
      BY <1>1, <1>3, <2>2 DEF Kept
    <2> QED BY <2>2, <2>3, <2>4 DEF after, original
  <1>5. CASE Latest(t) # None
    <2>1. /\ RegionOf(t) \in Block /\ RegionOf(t) = BlockOf(t) /\ RegionOf(t) # None
          /\ ReaderOf(t) \in {"full", "part"}
      <3>1. RegionOf(t) # None
        BY <1>5, LatestIs, RegionType
      <3>2. ReaderOf(t) \in {"full", "part"}
        BY DEF ReaderOf
      <3> QED BY <3>1, <3>2, RegionType
    <2>2. after = [original EXCEPT !.links = wording["links"], !.literal = FALSE,
                      !.region = RegionOf(t),
                      !.reader = [kind |-> ReaderOf(t), of |-> wording["reader"]]]
      BY <1>5, <2>1 DEF Rewritten
    <2>3. /\ after \in Page /\ after.text = page.text /\ after.wording = page.wording
          /\ after.region = RegionOf(t) /\ ~after.literal /\ after.links = wording["links"]
          /\ after.reader = [kind |-> ReaderOf(t), of |-> wording["reader"]]
      <3> DEFINE reader == [kind |-> ReaderOf(t), of |-> wording["reader"]]
      <3>1. reader \in [kind : {"tier", "full", "part"}, of : Nat]
        BY <1>2, <2>1
      <3> HIDE DEF reader
      <3>2. after = [original EXCEPT !.links = wording["links"], !.literal = FALSE,
                        !.region = RegionOf(t), !.reader = reader]
        BY <2>2 DEF reader
      <3> HIDE DEF after
      <3>3. /\ after \in Page /\ after.text = page.text /\ after.wording = page.wording
            /\ after.region = RegionOf(t) /\ ~after.literal /\ after.links = wording["links"]
            /\ after.reader = reader
        BY <1>1, <1>2, <2>1, <3>1, <3>2 DEF Page
      <3> QED BY <3>3 DEF reader
    <2> HIDE DEF after
    <2>4. ShowsNow(t, after)
      BY <2>3 DEF ShowsNow
    <2>5. Kept(after, wording)
      BY <1>3, <2>1, <2>3 DEF Kept
    <2> QED BY <2>3, <2>4, <2>5 DEF after, original
  <1> QED BY <1>4, <1>5

\* Whether a page takes its rewrites depends on it, the snapshots and the wording.
LEMMA RewritableStays ==
    ASSUME store' = store, wording' = wording, pages' = pages, NEW t \in Tokens
    PROVE  Rewritable(t, pages[t])' <=> Rewritable(t, pages[t])
  <1>1. StampsOf(t)' = StampsOf(t)
    BY DEF StampsOf
  <1>2. Latest(t)' = Latest(t)
    BY <1>1 DEF Latest
  <1>3. Original(pages[t])' = Original(pages[t])
    BY DEF Original
  <1> QED BY <1>2, <1>3 DEF Rewritable

\* Only a page of an earlier wording cannot be rewritten.
LEMMA EarlierOnly ==
    ASSUME TypeOK, AllKept, NEW t \in Tokens, Complaint(t) = "rewrite"
    PROVE  pages[t].wording # wording
  <1>1. ~Rewritable(t, pages[t])
    BY SiteAssumption DEF Complaint
  <1>2. pages[t] \in Page /\ wording \in Wording /\ Kept(pages[t], wording)
    BY DEF TypeOK, AllKept
  <1> QED BY <1>1, <1>2, TodayRewritable

LEMMA FirstIsOne ==
    ASSUME Complaints # {}
    PROVE  \E t \in Tokens : FirstComplaint = Complaint(t)
  <1> DEFINE S == {i \in 1 .. Len(Order) : Order[i] \in Complaints}
  <1>1. S \subseteq Nat /\ S # {}
    <2>1. PICK t \in Tokens : t \in Complaints
      BY DEF Complaints
    <2>2. Position(t) \in 1 .. Len(Order) /\ Order[Position(t)] = t
      <3>1. \E i \in 1 .. Len(Order) : Order[i] = t
        BY OrderIs DEF Left
      <3> QED BY <3>1 DEF Position
    <2> QED BY <2>1, <2>2, OrderIs
  <1>2. Min(S) \in S
    <2> HIDE DEF S
    <2>1. \E x \in S : \A y \in S : x <= y
      BY <1>1, NatLeast
    <2> QED BY <2>1 DEF Min
  <1>3. Order[Min(S)] \in Tokens
    BY <1>2 DEF Complaints
  <1> QED BY <1>3 DEF FirstComplaint

LEMMA NoBuildIs == NoBuild.left = <<>> /\ DOMAIN NoBuild = {"left", "own", "pages"}
  BY DEF NoBuild

LEMMA SiteInit0 == Init => SiteInv
  <1> SUFFICES ASSUME Init PROVE SiteInv
    OBVIOUS
  <1>1. FetchInv
    BY FetchInit DEF Init
  <1>2. wording \in Wording
    BY DEF Init, SiteInit, Wording
  <1>3. RenderedPage(0) \in Page /\ Kept(RenderedPage(0), wording)
    BY <1>2, RenderedIs
  <1>4. TypeOK
    <2>1. build.left = <<>> /\ <<>> \in Seq(Tokens \cup ToSet(OwnFiles))
      BY EmptySeq DEF Init, SiteInit, NoBuild
    <2>2. DOMAIN build = {"left", "own", "pages"}
      BY NoBuildIs DEF Init, SiteInit
    <2> QED BY <1>2, <1>3, <2>1, <2>2 DEF Init, SiteInit, TypeOK, Outcomes
  <1>5. AllKept
    BY <1>3 DEF AllKept, Init, SiteInit
  <1>6. Building /\ Shown
    BY DEF Init, SiteInit, NoBuild, Building, Shown
  <1>7. RewritesApply
    BY SiteAssumption DEF Init, SiteInit, RewritesApply
  <1> QED BY <1>1, <1>4, <1>5, <1>6, <1>7 DEF SiteInv

LEMMA RefreshStep ==
    ASSUME SiteInv, Refresh
    PROVE  SiteInv'
  <1>1. FetchInv'
    BY FetchStepKeeps DEF SiteInv, Refresh
  <1>2. /\ UNCHANGED <<pages, stages, wording, records, site, build, reports>>
        /\ built' = FALSE /\ stop' = None /\ build.left = <<>>
    BY DEF Refresh
  <1>3. TypeOK' /\ AllKept'
    BY <1>2 DEF SiteInv, TypeOK, AllKept
  <1>4. (Building /\ Shown /\ RewritesApply)'
    BY <1>2, SiteAssumption DEF Building, Shown, RewritesApply
  <1> QED BY <1>1, <1>3, <1>4 DEF SiteInv

\* A report stage or a ruling runs between builds and makes the site out of date.
LEMMA ReportSteps ==
    ASSUME SiteInv, NEW t \in Tokens, Report(t) \/ PublishByRuling(t)
    PROVE  SiteInv'
  <1>1. /\ UNCHANGED behavioralVars /\ UNCHANGED <<wording, site, build>>
        /\ built' = FALSE /\ stop' = None /\ build.left = <<>>
        /\ reports' = reports + 1
    BY DEF Report, PublishByRuling, Quiet
  <1>2. FetchInv'
    BY <1>1, FetchStepKeeps DEF SiteInv
  <1>3. /\ reports \in Nat /\ reports' \in Nat /\ pages \in [Tokens -> Page]
        /\ stages \in [Tokens -> Page \cup {None}] /\ wording \in Wording
    BY <1>1 DEF SiteInv, TypeOK
  <1> DEFINE fresh == RenderedPage(reports')
             broken == [pages[t] EXCEPT !.whole = FALSE]
  <1>4. fresh \in Page /\ Kept(fresh, wording)
    BY <1>3, RenderedIs
  <1>5. broken \in Page /\ Kept(broken, wording)
    <2>1. /\ broken \in Page /\ broken.wording = pages[t].wording
          /\ broken.literal = pages[t].literal /\ broken.region = pages[t].region
          /\ broken.links = pages[t].links /\ broken.reader = pages[t].reader
      BY <1>3 DEF Page
    <2> HIDE DEF broken
    <2> QED BY <2>1 DEF Kept, SiteInv, AllKept
  <1> HIDE DEF fresh, broken
  <1>6. PICK x \in {pages[t], fresh, broken} \cup ({stages[t]} \ {None}) :
            pages' = [pages EXCEPT ![t] = x]
    <2>1. pages = [pages EXCEPT ![t] = pages[t]]
      BY <1>3
    <2>2. CASE Report(t)
      BY <2>1, <2>2 DEF Report, Publish, Withhold, BreakPage, fresh, broken
    <2>3. CASE PublishByRuling(t)
      BY <2>3 DEF PublishByRuling, broken
    <2> QED BY <2>2, <2>3
  <1>7. x \in Page /\ Kept(x, wording)
    BY <1>3, <1>4, <1>5 DEF SiteInv, AllKept
  <1>8. PICK y \in {stages[t], None, fresh} : stages' = [stages EXCEPT ![t] = y]
    <2>1. stages = [stages EXCEPT ![t] = stages[t]]
      BY <1>3
    <2>2. CASE Report(t)
      BY <2>2 DEF Report, Publish, Withhold, BreakPage, fresh
    <2>3. CASE PublishByRuling(t)
      BY <2>1, <2>3 DEF PublishByRuling
    <2> QED BY <2>2, <2>3
  <1>9. y \in Page \cup {None} /\ (y # None => Kept(y, wording))
    BY <1>3, <1>4 DEF SiteInv, AllKept
  <1>10. /\ pages' \in [Tokens -> Page] /\ stages' \in [Tokens -> Page \cup {None}]
         /\ \A u \in Tokens : pages'[u] = IF u = t THEN x ELSE pages[u]
         /\ \A u \in Tokens : stages'[u] = IF u = t THEN y ELSE stages[u]
    BY <1>3, <1>6, <1>7, <1>8, <1>9
  <1>11. AllKept'
    <2>1. \A u \in Tokens : Kept(pages[u], wording) /\ (stages[u] # None => Kept(stages[u], wording))
      BY DEF SiteInv, AllKept
    <2>2. \A u \in Tokens :
             Kept(pages'[u], wording) /\ (stages'[u] # None => Kept(stages'[u], wording))
      BY <1>7, <1>9, <1>10, <2>1
    <2>3. wording' = wording
      BY <1>1
    <2> QED BY <2>2, <2>3 DEF AllKept
  <1>12. records' \in [Tokens -> [text : Nat, outcome : Outcomes]]
    <2>1. CASE Report(t)
      <3>1. \E outcome \in {"published", "withheld"} :
                records' = [records EXCEPT ![t] = [text |-> reports', outcome |-> outcome]]
        BY <2>1 DEF Report, Publish, Withhold, BreakPage
      <3>2. records \in [Tokens -> [text : Nat, outcome : Outcomes]]
        BY DEF SiteInv, TypeOK
      <3> QED BY <1>3, <3>1, <3>2 DEF Outcomes
    <2>2. CASE PublishByRuling(t)
      <3>1. records \in [Tokens -> [text : Nat, outcome : Outcomes]]
        BY DEF SiteInv, TypeOK
      <3>2. "published_without_banner_by_ruling" \in Outcomes
        BY DEF Outcomes
      <3>3. [records[t] EXCEPT !.outcome = "published_without_banner_by_ruling"]
                \in [text : Nat, outcome : Outcomes]
        BY <3>1, <3>2
      <3>4. \/ records' = records
            \/ records' = [records EXCEPT ![t].outcome = "published_without_banner_by_ruling"]
        BY <2>2 DEF PublishByRuling
      <3> QED BY <3>1, <3>3, <3>4
    <2> QED BY <2>1, <2>2
  <1>13. TypeOK'
    BY <1>1, <1>3, <1>10, <1>12 DEF SiteInv, TypeOK
  <1>14. (Building /\ Shown /\ RewritesApply)'
    BY <1>1, SiteAssumption DEF Building, Shown, RewritesApply
  <1> QED BY <1>2, <1>11, <1>13, <1>14 DEF SiteInv

\* After an edit no page is of today's wording, until it is rendered again.
LEMMA EditStep ==
    ASSUME SiteInv, NEW f \in Forms, EditWording(f)
    PROVE  SiteInv'
  <1>1. /\ UNCHANGED behavioralVars
        /\ UNCHANGED <<pages, stages, records, site, build, reports>>
        /\ built' = FALSE /\ stop' = None /\ build.left = <<>>
        /\ wording' = [wording EXCEPT ![f] = @ + 1]
    BY DEF EditWording, Quiet
  <1>2. FetchInv'
    BY <1>1, FetchStepKeeps DEF SiteInv
  <1>3. wording \in Wording /\ wording' \in Wording
    BY <1>1 DEF SiteInv, TypeOK, Wording
  <1>4. TypeOK'
    BY <1>1, <1>3 DEF SiteInv, TypeOK
  <1>5. ASSUME NEW page \in Page, Kept(page, wording) PROVE Kept(page, wording')
    <2>1. \A g \in Forms : /\ page.wording[g] \in Nat /\ wording[g] \in Nat
                           /\ page.wording[g] <= wording[g]
                           /\ wording'[g] = IF g = f THEN wording[g] + 1 ELSE wording[g]
      BY <1>1, <1>3, <1>5 DEF Page, Wording, Kept
    <2>2. page.wording[f] # wording'[f]
      BY <2>1
    <2>3. \A g \in Forms : page.wording[g] <= wording'[g]
      BY <2>1
    <2> QED BY <1>5, <2>2, <2>3 DEF Kept
  <1>6. AllKept'
    <2>1. \A t \in Tokens : /\ pages[t] \in Page /\ Kept(pages[t], wording)
                            /\ stages[t] # None => stages[t] \in Page /\ Kept(stages[t], wording)
      BY DEF SiteInv, TypeOK, AllKept
    <2>2. \A t \in Tokens : /\ Kept(pages[t], wording')
                            /\ stages[t] # None => Kept(stages[t], wording')
      BY <1>5, <2>1
    <2> QED BY <1>1, <2>2 DEF AllKept
  <1>7. (Building /\ Shown /\ RewritesApply)'
    BY <1>1, SiteAssumption DEF Building, Shown, RewritesApply
  <1> QED BY <1>2, <1>4, <1>6, <1>7 DEF SiteInv

LEMMA OwnFilesAre == ToSet(OwnFiles) = {"index.html", "methodology.html"}
  <1>1. /\ Len(OwnFiles) = 2 /\ DOMAIN OwnFiles = 1 .. 2
        /\ OwnFiles[1] = "index.html" /\ OwnFiles[2] = "methodology.html"
    BY DEF OwnFiles
  <1> QED BY <1>1 DEF ToSet

\* A build writes the files of the site's own and every page.
LEMMA FilesAre ==
    /\ Files \in Seq(Tokens \cup ToSet(OwnFiles))
    /\ \A f \in Tokens \cup ToSet(OwnFiles) : f \in Left(Files)
  <1> DEFINE S == Tokens \cup ToSet(OwnFiles)
  <1>1. /\ OwnFiles \in Seq(S) /\ Len(OwnFiles) = 2
        /\ OwnFiles[1] = "index.html" /\ OwnFiles[2] = "methodology.html"
        /\ ToSet(OwnFiles) = {"index.html", "methodology.html"}
    <2>1. /\ Len(OwnFiles) = 2 /\ DOMAIN OwnFiles = 1 .. 2
          /\ OwnFiles[1] = "index.html" /\ OwnFiles[2] = "methodology.html"
      BY DEF OwnFiles
    <2>2. ToSet(OwnFiles) = {"index.html", "methodology.html"}
      BY <2>1 DEF ToSet
    <2>3. OwnFiles \in Seq({"index.html", "methodology.html"})
      BY DEF OwnFiles
    <2>4. OwnFiles \in Seq(S)
      BY <2>1, <2>2, <2>3
    <2> QED BY <2>1, <2>2, <2>4
  <1>2. Order \in Seq(S) /\ Len(Order) \in Nat
    <2>1. Order \in Seq(Tokens) /\ Len(Order) \in Nat
      BY BehavioralAssumption, OrderIs
    <2> QED BY <2>1
  <1> HIDE DEF S
  <1>3. /\ Files \in Seq(S) /\ Len(Files) = 2 + Len(Order)
        /\ \A i \in 1 .. 2 + Len(Order) :
              Files[i] = IF i <= 2 THEN OwnFiles[i] ELSE Order[i - 2]
    <2>1. /\ OwnFiles \o Order \in Seq(S)
          /\ Len(OwnFiles \o Order) = Len(OwnFiles) + Len(Order)
          /\ \A i \in 1 .. Len(OwnFiles) + Len(Order) :
                (OwnFiles \o Order)[i] =
                    IF i <= Len(OwnFiles) THEN OwnFiles[i] ELSE Order[i - Len(OwnFiles)]
      BY <1>1, <1>2, ConcatProperties, ZenonT(30)
    <2> QED BY <1>1, <2>1, Zenon DEF Files
  <1>4. ASSUME NEW t \in Tokens PROVE t \in Left(Files)
    <2>1. PICK i \in 1 .. Len(Order) : Order[i] = t
      BY OrderIs DEF Left
    <2>2. i + 2 \in 1 .. Len(Files) /\ Files[i + 2] = t
      BY <1>2, <1>3, <2>1
    <2> QED BY <2>2 DEF Left
  <1>5. "index.html" \in Left(Files) /\ "methodology.html" \in Left(Files)
    BY <1>1, <1>2, <1>3 DEF Left
  <1> QED BY <1>1, <1>3, <1>4, <1>5 DEF S

\* Everything is read and checked before the first write.
LEMMA PlanStep ==
    ASSUME SiteInv, Plan
    PROVE  SiteInv'
  <1>0. /\ UNCHANGED behavioralVars
        /\ UNCHANGED <<pages, stages, wording, records, site, built, reports>>
    BY DEF Plan
  <1>1. FetchInv' /\ UNCHANGED <<store, status>>
    BY <1>0, FetchStepKeeps DEF SiteInv, behavioralVars
  <1>2. Shown' /\ AllKept'
    BY <1>0, <1>1, RegionStays DEF SiteInv, Shown, ShowsNow, AllKept
  <1>3. CASE Complaints # {}
    <2>1. stop' = FirstComplaint /\ build' = build
      BY <1>3 DEF Plan
    <2>2. RewritesApply'
      <3>1. PICK t \in Tokens : FirstComplaint = Complaint(t)
        BY <1>3, FirstIsOne
      <3>2. stop' = "rewrite" => ~Rewritable(t, pages[t]) /\ pages[t].wording # wording
        BY <2>1, <3>1, EarlierOnly, SiteAssumption DEF SiteInv, Complaint
      <3>3. Rewritable(t, pages[t])' <=> Rewritable(t, pages[t])
        <4>1. store' = store /\ wording' = wording /\ pages' = pages
          BY <1>0, <1>1
        <4> QED BY ONLY <3>1, <4>1, RewritableStays
      <3>4. pages' = pages /\ wording' = wording
        BY <1>0
      <3>5. stop' = "rewrite" =>
                ~Rewritable(t, pages[t])' /\ (pages[t].wording # wording)'
        BY <3>2, <3>3, <3>4
      <3> QED BY <3>1, <3>5 DEF RewritesApply
    <2>3. TypeOK'
      BY <1>0, <2>1 DEF SiteInv, TypeOK
    <2>4. Building'
      BY <2>1 DEF Plan, Quiet, Building
    <2> QED BY <1>1, <1>2, <2>2, <2>3, <2>4 DEF SiteInv
  <1>4. CASE Complaints = {}
    <2>1. /\ stop' = None
          /\ build'.left = Files /\ build'.own = Own
          /\ build'.pages = [t \in Tokens |-> Rewritten(t, Original(pages[t]))]
      BY <1>4 DEF Plan
    <2>2. RewritesApply'
      BY <2>1, SiteAssumption DEF RewritesApply
    <2>3. \A t \in Tokens : pages[t].text = records[t].text
      <3>1. \A t \in Tokens : Complaint(t) = None
        BY <1>4 DEF Complaints
      <3> QED BY <3>1, SiteAssumption DEF Complaint
    <2>4. Own.notice = NoticeOf /\ \A t \in Tokens : Own.cards[t].finding = records[t].text
      BY DEF Own, Card
    <2>5. \A t \in Tokens : /\ build'.pages[t] \in Page
                            /\ build'.pages[t].text = pages[t].text
                            /\ build'.pages[t].wording = pages[t].wording
                            /\ ShowsNow(t, build'.pages[t])
                            /\ Kept(build'.pages[t], wording)
      BY <2>1, RewrittenIs DEF SiteInv, TypeOK, AllKept
    <2>6. /\ Files \in Seq(Tokens \cup ToSet(OwnFiles))
          /\ \A t \in Tokens \cup ToSet(OwnFiles) : t \in Left(Files)
      BY FilesAre
    <2>7. Building'
      <3>1. \A t \in Tokens : ShowsNow(t, build.pages[t])'
        BY <1>1, <2>5, RegionStays DEF ShowsNow
      <3> QED BY <1>0, <1>1, <2>1, <2>3, <2>4, <2>5, <2>6, <3>1, RegionStays DEF Building
    <2>8. TypeOK'
      <3>1. DOMAIN build' = {"left", "own", "pages"}
        BY <1>4 DEF Plan
      <3> QED BY <1>0, <2>1, <2>5, <2>6, <3>1 DEF SiteInv, TypeOK
    <2> QED BY <1>1, <1>2, <2>2, <2>7, <2>8 DEF SiteInv
  <1> QED BY <1>3, <1>4

\* The file at the head of the list is written as planned; after the last one
\* everything is.
LEMMA WriteFileStep ==
    ASSUME SiteInv, WriteFile
    PROVE  SiteInv'
  <1> DEFINE f == Head(build.left)
             last == Len(build.left) = 1
  <1>0. /\ UNCHANGED behavioralVars
        /\ UNCHANGED <<stages, wording, records, stop, reports>>
        /\ build.left # <<>>
    BY DEF WriteFile
  <1>1. FetchInv' /\ UNCHANGED <<store, status>>
    BY <1>0, FetchStepKeeps DEF SiteInv, behavioralVars
  <1>2. /\ build.pages \in [Tokens -> Page]
        /\ build.own.notice = NoticeOf
        /\ \A t \in Tokens :
              /\ build.own.cards[t].finding = pages[t].text
              /\ build.pages[t].text = pages[t].text
              /\ build.pages[t].wording = pages[t].wording
              /\ ShowsNow(t, build.pages[t]) /\ Kept(build.pages[t], wording)
              /\ t \in Left(build.left) \/ pages[t] = build.pages[t]
        /\ \A g \in ToSet(OwnFiles) : g \in Left(build.left) \/ site[g] = build.own
    BY <1>0 DEF SiteInv, Building
  <1>3. /\ f \in Tokens \cup ToSet(OwnFiles)
        /\ Tail(build.left) \in Seq(Tokens \cup ToSet(OwnFiles))
        /\ Left(build.left) \subseteq Left(Tail(build.left)) \cup {f}
        /\ last => Left(build.left) = {f}
    BY <1>0, HeadGoes DEF SiteInv, TypeOK
  <1>4. /\ f \in Tokens => pages' = [pages EXCEPT ![f] = build.pages[f]] /\ site' = site
        /\ f \notin Tokens => site' = [site EXCEPT ![f] = build.own] /\ pages' = pages
        /\ build' = IF last THEN NoBuild ELSE [build EXCEPT !.left = Tail(build.left)]
        /\ built' = last
    BY DEF WriteFile
  <1> HIDE DEF f, last
  <1>5. /\ pages' \in [Tokens -> Page] /\ DOMAIN site' = ToSet(OwnFiles)
        /\ \A t \in Tokens : pages'[t] = IF t = f THEN build.pages[t] ELSE pages[t]
        /\ \A g \in ToSet(OwnFiles) : site'[g] = IF g = f THEN build.own ELSE site[g]
    <2>1. pages \in [Tokens -> Page] /\ DOMAIN site = ToSet(OwnFiles)
      BY DEF SiteInv, TypeOK
    <2>2. CASE f \in Tokens
      <3>1. pages' = [pages EXCEPT ![f] = build.pages[f]] /\ site' = site
        BY <1>4, <2>2
      <3>2. /\ pages' \in [Tokens -> Page]
            /\ \A t \in Tokens : pages'[t] = IF t = f THEN build.pages[t] ELSE pages[t]
        BY <1>2, <2>1, <2>2, <3>1
      <3>3. f \notin ToSet(OwnFiles)
        BY <2>2, SiteAssumption
      <3>4. \A g \in ToSet(OwnFiles) : site'[g] = IF g = f THEN build.own ELSE site[g]
        BY <3>1, <3>3
      <3> QED BY <2>1, <3>1, <3>2, <3>4
    <2>3. CASE f \notin Tokens
      BY <1>3, <1>4, <2>1, <2>3
    <2> QED BY <2>2, <2>3
  <1>6. \A t \in Tokens : /\ pages'[t].text = pages[t].text
                          /\ pages'[t].wording = pages[t].wording
    BY <1>2, <1>5
  <1>7. RewritesApply' /\ AllKept'
    <2>1. \A t \in Tokens : Kept(pages'[t], wording)
      BY <1>2, <1>5 DEF SiteInv, AllKept
    <2>2. \A t \in Tokens : stages[t] # None => Kept(stages[t], wording)
      BY DEF SiteInv, AllKept
    <2>3. AllKept'
      BY <1>0, <2>1, <2>2 DEF AllKept
    <2>4. stop' = None
      BY <1>0 DEF SiteInv, Building, WriteFile
    <2> QED BY <2>3, <2>4, SiteAssumption DEF RewritesApply
  <1>8. CASE last
    <2>1. build'.left = <<>> /\ <<>> \in Seq(Tokens \cup ToSet(OwnFiles))
      BY <1>4, <1>8, EmptySeq DEF NoBuild
    <2>2. TypeOK'
      <3>1. DOMAIN build' = {"left", "own", "pages"}
        BY <1>4, <1>8, NoBuildIs
      <3> QED BY <1>0, <1>4, <1>5, <2>1, <3>1 DEF SiteInv, TypeOK, last
    <2>3. Building'
      BY <2>1 DEF Building
    <2>4. \A t \in Tokens : pages'[t] = build.pages[t]
      BY <1>2, <1>3, <1>5, <1>8
    <2>5. site'["index.html"] = build.own /\ site'["methodology.html"] = build.own
      <3>1. "index.html" \in ToSet(OwnFiles) /\ "methodology.html" \in ToSet(OwnFiles)
        BY OwnFilesAre
      <3> QED BY <1>2, <1>3, <1>5, <1>8, <3>1
    <2>6. Shown'
      <3>1. \A t \in Tokens : ShowsNow(t, pages[t])'
        BY <1>1, <1>2, <2>4, RegionStays DEF ShowsNow
      <3> QED BY <1>1, <1>2, <1>6, <2>5, <3>1, RegionStays DEF Shown
    <2> QED BY <1>1, <1>7, <2>2, <2>3, <2>6 DEF SiteInv
  <1>9. CASE ~last
    <2>1. /\ build'.left = Tail(build.left) /\ build'.own = build.own
          /\ build'.pages = build.pages /\ ~built'
      BY <1>4, <1>9 DEF SiteInv, TypeOK
    <2>2. TypeOK'
      BY <1>0, <1>2, <1>3, <1>4, <1>5, <2>1 DEF SiteInv, TypeOK, last
    <2>3. \A t \in Tokens : t \in Left(build'.left) \/ pages'[t] = build.pages[t]
      BY <1>2, <1>3, <1>5, <2>1
    <2>4. \A g \in ToSet(OwnFiles) : g \in Left(build'.left) \/ site'[g] = build.own
      BY <1>2, <1>3, <1>5, <2>1
    <2>5. Building'
      <3>1. \A t \in Tokens : ShowsNow(t, build.pages[t])'
        BY <1>1, <1>2, <2>1, RegionStays DEF ShowsNow
      <3>2. NoticeOf' = NoticeOf /\ wording' = wording
        BY <1>0, <1>1, RegionStays
      <3>3. /\ build'.pages \in [Tokens -> Page]
            /\ build'.own.notice = NoticeOf'
        BY <1>2, <2>1, <3>2
      <3>4. \A t \in Tokens :
              /\ build'.own.cards[t].finding = pages'[t].text
              /\ build'.pages[t].text = pages'[t].text
              /\ build'.pages[t].wording = pages'[t].wording
              /\ Kept(build'.pages[t], wording')
        BY <1>2, <1>6, <2>1, <3>2
      <3>5. stop' = None
        BY <1>0 DEF SiteInv, Building
      <3> QED BY <2>1, <2>3, <2>4, <3>1, <3>3, <3>4, <3>5 DEF Building
    <2>6. Shown'
      BY <2>1 DEF Shown
    <2> QED BY <1>1, <1>7, <2>2, <2>5, <2>6 DEF SiteInv
  <1> QED BY <1>8, <1>9

LEMMA CutShortStep ==
    ASSUME SiteInv, CutShort
    PROVE  SiteInv'
  <1>1. /\ UNCHANGED behavioralVars
        /\ UNCHANGED <<pages, stages, wording, records, site, stop, built, reports>>
        /\ build'.left = <<>> /\ <<>> \in Seq(Tokens \cup ToSet(OwnFiles))
        /\ DOMAIN build' = {"left", "own", "pages"}
    BY EmptySeq, NoBuildIs DEF CutShort
  <1>2. FetchInv' /\ UNCHANGED <<store, status>>
    BY <1>1, FetchStepKeeps DEF SiteInv, behavioralVars
  <1>3. (TypeOK /\ AllKept /\ Building)'
    BY <1>1 DEF SiteInv, TypeOK, AllKept, Building
  <1>5. RewritesApply'
    <2>1. stop' = None
      BY <1>1 DEF SiteInv, Building, CutShort
    <2> QED BY <2>1, SiteAssumption DEF RewritesApply
  <1>4. Shown'
    BY <1>1, <1>2, RegionStays DEF SiteInv, Shown, ShowsNow
  <1> QED BY <1>2, <1>3, <1>4, <1>5 DEF SiteInv

LEMMA SiteStep == SiteInv /\ [Next]_vars => SiteInv'
  <1> SUFFICES ASSUME SiteInv, [Next]_vars PROVE SiteInv'
    OBVIOUS
  <1>1. CASE UNCHANGED vars
    <2>1. UNCHANGED behavioralVars /\ UNCHANGED siteVars
      BY <1>1 DEF vars
    <2>2. FetchInv' /\ UNCHANGED <<store, status>>
      BY <2>1, FetchStepKeeps DEF SiteInv, behavioralVars
    <2>3. (TypeOK /\ AllKept)'
      BY <2>1 DEF SiteInv, TypeOK, AllKept, siteVars
    <2>6. RewritesApply'
      <3>1. \A t \in Tokens : Rewritable(t, pages[t])' <=> Rewritable(t, pages[t])
        BY <2>1, <2>2, RewritableStays DEF siteVars
      <3> QED BY <2>1, <3>1 DEF SiteInv, RewritesApply, siteVars
    <2>4. Building'
      BY <2>1, <2>2, RegionStays DEF SiteInv, Building, ShowsNow, siteVars
    <2>5. Shown'
      BY <2>1, <2>2, RegionStays DEF SiteInv, Shown, ShowsNow, siteVars
    <2> QED BY <2>2, <2>3, <2>4, <2>5, <2>6 DEF SiteInv
  <1>2. CASE Next
    <2>1. ASSUME NEW t \in Reported, Report(t) \/ PublishByRuling(t) PROVE SiteInv'
      BY <2>1, ReportSteps, SiteAssumption
    <2> QED BY <1>2, <2>1, EditStep, RefreshStep, PlanStep, WriteFileStep, CutShortStep DEF Next
  <1> QED BY <1>1, <1>2

\* The inductive invariant: a build's plan agrees with the pages it found until it
\* ends, and what it left agrees with store, status and records until they move.
THEOREM SiteInvariant == Spec => []SiteInv
  BY SiteInit0, SiteStep, PTL DEF Spec

\* latest_stamp over the whole site, builds and report stages included.
THEOREM StampsAreEverywhereOnSite == Spec => []StampEverywhere
  <1>1. SiteInv => StampEverywhere
    BY DEF SiteInv, FetchInv
  <1> QED BY <1>1, SiteInvariant, PTL

\* apply_rewrites: whatever was built, cut short, refreshed or published over it, a
\* page that was rendered since the last edit of the wording never stops a build.
THEOREM RewritesAlwaysApply == Spec => []RewritesApply
  <1>1. SiteInv => RewritesApply
    BY DEF SiteInv
  <1> QED BY <1>1, SiteInvariant, PTL

\* D5: after a build the finding the selector quotes is the one on the page.
THEOREM CardsQuoteTheirPages == Spec => []CardQuotesPage
  <1>1. SiteInv => CardQuotesPage
    BY DEF SiteInv, Shown, CardQuotesPage
  <1> QED BY <1>1, SiteInvariant, PTL

\* A-20 and the status file: after a build a page has the block, and not the literal,
\* exactly when there is a snapshot, with the notice exactly when the last fetch failed.
THEOREM NoticesAreEverywhere == Spec => []NoticeOnEveryPage
  <1>1. SiteInv => NoticeOnEveryPage
    <2> SUFFICES ASSUME SiteInv, built PROVE NoticeOnEveryPage
      BY DEF NoticeOnEveryPage
    <2> DEFINE failed == status # None /\ ~status.ok
    <2>1. NoticeOf = IF failed THEN status ELSE None
      BY DEF NoticeOf
    <2>2. failed <=> NoticeOf # None
      BY <2>1
    <2>3. site["index.html"].notice = NoticeOf
      BY DEF SiteInv, Shown
    <2>4. ASSUME NEW t \in Tokens
          PROVE  /\ pages[t].region = None <=> StampsOf(t) = {}
                 /\ pages[t].literal <=> pages[t].region = None
                 /\ pages[t].region # None =>
                       /\ pages[t].region.notice = (IF failed THEN status ELSE None)
                       /\ pages[t].reader.kind = ReaderOf(t)
      <3>1. /\ pages[t].region = RegionOf(t)
            /\ pages[t].region # None => pages[t].reader.kind = ReaderOf(t)
            /\ pages[t].literal <=> pages[t].region = None
        BY DEF SiteInv, Shown, ShowsNow, AllKept, Kept
      <3>2. pages[t].region = None <=> StampsOf(t) = {}
        BY <3>1, RegionType DEF SiteInv
      <3>3. pages[t].region # None => pages[t].region = BlockOf(t)
        BY <3>1, RegionType DEF SiteInv
      <3>4. BlockOf(t).notice = NoticeOf
        BY DEF BlockOf
      <3> QED BY <2>1, <3>1, <3>2, <3>3, <3>4
    <2> HIDE DEF failed
    <2>5. (failed <=> site["index.html"].notice # None)
      BY <2>2, <2>3
    <2> QED BY <2>4, <2>5 DEF NoticeOnEveryPage, failed
  <1> QED BY <1>1, SiteInvariant, PTL

\* After a build no page shows a snapshot older than the one the status names.
THEOREM NeverOlderThanStatus == Spec => []ShownNotOlder
  <1>1. SiteInv => ShownNotOlder
    <2> SUFFICES ASSUME SiteInv, built, status # None, status.stamp # None, NEW t \in Tokens
                 PROVE  pages[t].region # None /\ pages[t].region.stamp >= status.stamp
      BY DEF ShownNotOlder
    <2>1. status.stamp \in Stamps /\ store[t][status.stamp] # None
      BY DEF SiteInv, FetchInv, StampEverywhere, Status
    <2>2. status.stamp \in StampsOf(t)
      BY <2>1 DEF StampsOf
    <2>3. pages[t].region = RegionOf(t) /\ FetchInv
      BY DEF SiteInv, Shown, ShowsNow
    <2>4. pages[t].region # None /\ pages[t].region = BlockOf(t)
      BY <2>2, <2>3, RegionType
    <2>5. Latest(t) \in Stamps /\ status.stamp <= Latest(t)
      BY <2>2, <2>3, LatestIs
    <2>6. pages[t].region.stamp = Latest(t)
      BY <2>4 DEF BlockOf
    <2> QED BY <2>1, <2>4, <2>5, <2>6 DEF Stamps
  <1> QED BY <1>1, SiteInvariant, PTL

=================================================================================
