------------------------------ MODULE Behavioral ------------------------------
(***************************************************************************)
(* The refresh of the behavioral tier (factory/behavioral.py): one fetch   *)
(* asks Webacy for every token's depeg body, then for every supply row,    *)
(* then for the pages of the holder list until each token is found, checks *)
(* every shape, and only then writes one snapshot per token and the status *)
(* file that the chain and the site read.  A fetch may end by itself       *)
(* (BehavioralStop), by an exception nobody catches, or by being killed.   *)
(*                                                                         *)
(* A snapshot is what the page tells apart in it; a stamp is the number of *)
(* the fetch.  The gitignored raw files and the wording of reasons are     *)
(* left out.                                                               *)
(***************************************************************************)
EXTENDS Integers, FiniteSets, Sequences, SequencesExt, FiniteSetsExt

CONSTANTS None,
          Bad,         \* an answer that does not validate
          Order,       \* the tokens, in the order of ROOTS
          Depegs,      \* what /rwa/{address} may answer, a subset of Depeg
          Supplies,    \* what /rwa/supply/{symbol} may answer, a subset of Supply
          Holders,     \* a token's row of the holder list, a subset of Holder
          PageCap,     \* HCI_PAGE_CAP
          MaxPages,    \* pages Webacy's holder list may have (model bound)
          MaxFetches   \* fetches of a run of the model (model bound)

Tokens == ToSet(Order)

\* series: the price history has a point; liquidity: the two liquidity fields
\* are reported.
Depeg == [series : BOOLEAN, liquidity : BOOLEAN] \cup {Bad}
\* A row with or without its 7-day change, no row, or another token's row.
Supply == {"net", "no_net", "no_row", "other_address", Bad}
Holder == {"full", "no_cohort"}

Stamps == 1 .. MaxFetches

Snapshot == [depeg : Depeg \ {Bad}, supply : Supply \ {Bad},
             entry : Holder \cup {None}]

ASSUME BehavioralAssumption ==
    /\ Order \in Seq(Tokens) /\ Order # <<>> /\ IsInjective(Order)
    /\ Depegs \subseteq Depeg /\ Supplies \subseteq Supply /\ Holders \subseteq Holder
    /\ PageCap \in Nat \ {0} /\ MaxPages \in Nat \ {0} /\ MaxFetches \in Nat
    /\ None \notin Holder /\ None \notin Nat /\ None \notin Snapshot /\ Bad # None

VARIABLES store,    \* out/behavioral/<T>/<stamp>.json
          status,   \* out/behavioral/status.json
          fetch,    \* the running fetch and the answers it holds
          fetches   \* fetches started, the stamp of the last one

behavioralVars == <<store, status, fetch, fetches>>

NoFetch == [phase |-> "idle", depeg |-> <<>>, supply |-> <<>>, total |-> 1,
            listing |-> <<>>, page |-> 0, snaps |-> <<>>,
            notes |-> {}, left |-> <<>>]

Phases == {"idle", "depeg", "supply", "hci", "trim", "write", "status", "stopped"}

-------------------------------------------------------------------------------
(***************************************************************************)
(* What a fetch makes of its answers.                                      *)
(***************************************************************************)

\* The tokens whose row is on a page read so far.
Found(f) == {t \in Tokens : f.listing[t].page \in 1 .. f.page}

LastPage(f) ==
    \/ Found(f) = Tokens
    \/ f.page >= f.total
    \/ f.page >= PageCap

\* Tokens whose row leaves out a cohort: `ok` stays true, a note names them.
Notes(f) == {t \in Found(f) : f.listing[t].row = "no_cohort"}

Position(t) == CHOOSE i \in 1 .. Len(Order) : Order[i] = t

Malformed(f, t) == Bad \in {f.depeg[Position(t)], f.supply[Position(t)]}

\* The token's row from the first page that has it, or none.
Assemble(f, t) ==
    [depeg |-> f.depeg[Position(t)], supply |-> f.supply[Position(t)],
     entry |-> IF t \in Found(f) THEN f.listing[t].row ELSE None]

StampsOf(t) == {s \in Stamps : store[t][s] # None}

\* Mutant: the first file of the directory instead of the last.
Earliest(t) == IF StampsOf(t) = {} THEN None ELSE Min(StampsOf(t))

Latest(t) == IF StampsOf(t) = {} THEN None ELSE Max(StampsOf(t))

\* Mutant: the newest stamp any token has.
AnyStamp ==
    LET any == UNION {StampsOf(t) : t \in Tokens}
    IN  IF any = {} THEN None ELSE Max(any)

\* The newest stamp every token has.
LatestStamp ==
    LET common == {s \in Stamps : \A t \in Tokens : s \in StampsOf(t)}
    IN  IF common = {} THEN None ELSE Max(common)

\* R2: a supply row counts only under the token's own address.
SupplyShown(snap) == snap.supply = "net"

LiquidityShown(snap) == snap.depeg.liquidity

\* block: the chart needs a first and a last point.
Renders(snap) == snap.depeg.series
-------------------------------------------------------------------------------
(***************************************************************************)
(* A fetch.                                                                *)
(***************************************************************************)
BehavioralInit ==
    /\ store = [t \in Tokens |-> [s \in Stamps |-> None]]
    /\ status = None
    /\ fetch = NoFetch
    /\ fetches = 0

Unlisted == [page |-> 0, row |-> None]

Stopped == [NoFetch EXCEPT !.phase = "stopped"]

\* Started without a key, with a root id that is not unique, or in order.
StartFetch ==
    /\ fetch.phase = "idle" /\ fetches < MaxFetches
    /\ fetches' = fetches + 1
    /\ \/ fetch' = Stopped
       \/ fetch' = [NoFetch EXCEPT !.phase = "depeg"]
    /\ UNCHANGED <<store, status>>

AnswerDepeg ==
    /\ fetch.phase = "depeg"
    /\ \E b \in Depegs :
          LET got == Append(fetch.depeg, b)
          IN  fetch' = [fetch EXCEPT !.depeg = got,
                          !.phase = IF Len(got) = Len(Order) THEN "supply" ELSE "depeg"]
    /\ UNCHANGED <<store, status, fetches>>

\* After the last supply row the list is asked for: how many pages it has and
\* where the tokens' rows are is Webacy's.
AnswerSupply ==
    /\ fetch.phase = "supply"
    /\ \E b \in Supplies :
          LET got == Append(fetch.supply, b)
          IN  IF Len(got) < Len(Order)
              THEN fetch' = [fetch EXCEPT !.supply = got]
              ELSE \E n \in 1 .. MaxPages :
                   \E listing \in [Tokens -> [page : 1 .. n, row : Holders] \cup {Unlisted}] :
                      fetch' = [fetch EXCEPT !.supply = got, !.phase = "hci",
                                  !.total = n, !.listing = listing]
    /\ UNCHANGED <<store, status, fetches>>

\* validate_hci: a row of ours that does not validate, or any row without an
\* address, stops the fetch.
AnswerPage ==
    /\ fetch.phase = "hci"
    /\ LET read == [fetch EXCEPT !.page = @ + 1]
       IN  \/ fetch' = Stopped
           \/ fetch' = [read EXCEPT !.phase = IF LastPage(read) THEN "trim" ELSE "hci"]
    /\ UNCHANGED <<store, status, fetches>>

HttpError ==
    /\ fetch.phase \in {"depeg", "supply", "hci"}
    /\ fetch' = Stopped
    /\ UNCHANGED <<store, status, fetches>>

Writing(f, order) ==
    [NoFetch EXCEPT !.phase = "write", !.left = order, !.notes = Notes(f),
       !.snaps = [t \in ToSet(order) |-> Assemble(f, t)]]

\* Every shape is validated before the first file is written.
Trim ==
    /\ fetch.phase = "trim"
    /\ fetch' = IF \E t \in Tokens : Malformed(fetch, t) THEN Stopped
                ELSE Writing(fetch, Order)
    /\ UNCHANGED <<store, status, fetches>>

WriteSnapshot ==
    /\ fetch.phase = "write"
    /\ LET t == Head(fetch.left)
       IN  store' = [store EXCEPT ![t][fetches] = fetch.snaps[t]]
    /\ fetch' = [fetch EXCEPT !.left = Tail(@),
                   !.phase = IF Len(fetch.left) = 1 THEN "status" ELSE "write"]
    /\ UNCHANGED <<status, fetches>>

Status == [run : Stamps, ok : BOOLEAN,
           stamp : Stamps \cup {None}, notes : SUBSET Tokens]

WriteStatus ==
    /\ fetch.phase = "status"
    /\ status' = [run |-> fetches, ok |-> TRUE,
                  stamp |-> LatestStamp, notes |-> fetch.notes]
    /\ fetch' = NoFetch
    /\ UNCHANGED <<store, fetches>>

WriteFailure ==
    /\ fetch.phase = "stopped"
    /\ status' = [run |-> fetches, ok |-> FALSE,
                  stamp |-> LatestStamp, notes |-> {}]
    /\ fetch' = NoFetch
    /\ UNCHANGED <<store, fetches>>

\* A timeout, a body that is not JSON, a full disk (none is a BehavioralStop)
\* or a kill: whatever is written stays, status.json keeps its last content.
Abandon ==
    /\ fetch.phase # "idle"
    /\ fetch' = NoFetch
    /\ UNCHANGED <<store, status, fetches>>

FetchStep ==
    \/ StartFetch \/ AnswerDepeg \/ AnswerSupply \/ AnswerPage \/ HttpError
    \/ Trim \/ WriteSnapshot \/ WriteStatus \/ WriteFailure \/ Abandon

FetchSpec == BehavioralInit /\ [][FetchStep]_behavioralVars
-------------------------------------------------------------------------------
(***************************************************************************)
(* Properties of the fetch.                                                *)
(***************************************************************************)
\* The snapshot a status file names is one every token has, whatever fetches
\* were cut short between two tokens (latest_stamp), and a status that says ok
\* names the snapshot of its own fetch: no token is refreshed without the others.
StampEverywhere ==
    status # None =>
        /\ status.stamp # None => \A t \in Tokens : store[t][status.stamp] # None
        /\ status.ok => status.stamp = status.run
===============================================================================
