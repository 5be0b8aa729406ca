------------------------------- MODULE Assembly -------------------------------
(***************************************************************************)
(* The assembly of a GHO bundle from reads that may fail one by one        *)
(* (factory/adapters/gho.py over factory/rpc.py), the rows of the harness  *)
(* that stand between it and promotion, and the fold of the promoted       *)
(* bundle into its verifiability tree (factory/tree.py).                   *)
(*                                                                         *)
(* The chain is the same for every run: what differs is which calls of a   *)
(* batch revert.  Most of the adapter's reads stop the run when they fail  *)
(* (`require`); the ones below do not, and each leaves its mark: an        *)
(* unresolved class, a missing row, a zero, a default.  An asset has one   *)
(* price, whichever instance's oracle is asked.                            *)
(***************************************************************************)
EXTENDS Integers, Sequences, Totals

CONSTANTS None,
          Facilitators,
          Answers,       \* the probes of PROBE a facilitator's contract answers
          Analyst,       \* the class of its dated row, or "unresolved"
          PoolOf,        \* POOL() of a direct minter
          Instances,     \* the Aave instances,
          Listed,        \* in the order of GHO's list of facilitators,
          Address,       \* and in the order of their addresses
          Borrowers, Reserves,
          Filters,       \* the log filters of borrower_ledger
          Histories,     \* per instance and filter: the rows [block, borrower]
          Window,        \* PAGE_SIZE * MAX_PAGES
          Debt, Other,   \* per instance and borrower: debt in GHO, in the rest
          Collateral,    \* per instance, borrower and reserve
          Price, Unit,   \* of an asset: its price, 10 ** its decimals
          DefaultUnit,   \* 10 ** 18
          Label,         \* of a reserve's dated row; None for a run-time read
          Gsms, Wrapper, Underlying, Converted,   \* a GSM and its boxed asset
          Freezers, FreezerOn, GsmOf,  \* who holds SWAP_FREEZER_ROLE where; GSM()
          LivePowers,    \* powers somebody holds
          Parts,         \* DET-82 lets one part in so many differ: 10 ** 9
          MaxFails, MaxRuns            \* failing reads, runs (model bounds)

Minter == "direct_minter"

ASSUME SetsAssumption ==
    /\ IsFiniteSet(Instances) /\ IsFiniteSet(Borrowers)
    /\ IsFiniteSet(Reserves) /\ IsFiniteSet(Gsms)
    /\ None \notin Gsms
    /\ Window \in Nat \ {0} /\ Parts \in Nat \ {0} /\ MaxFails \in Nat /\ MaxRuns \in Nat

ASSUME AmountsAssumption ==
    /\ Listed \in [Instances -> Nat] /\ Address \in [Instances -> Nat]
    /\ Debt \in [Instances -> [Borrowers -> Nat]]
    /\ Other \in [Instances -> [Borrowers -> Nat]]
    /\ Collateral \in [Instances -> [Borrowers -> [Reserves -> Nat]]]
    /\ Converted \in [Gsms -> Nat]

ASSUME PricesAssumption ==
    /\ DefaultUnit \in Nat
    /\ \A r \in Reserves : Price[r] \in Nat /\ Unit[r] \in 1 .. DefaultUnit
    /\ \A g \in Gsms : Price[Underlying[g]] \in Nat /\ Unit[Underlying[g]] \in 1 .. DefaultUnit

VARIABLES logs,     \* what the chain has logged, the same for every run
          job,      \* the bundle being assembled
          bundles,  \* the promoted ones, oldest first
          tree,     \* the last tree written to out/trees
          lost,     \* reads that have failed
          runs

vars == <<logs, job, bundles, tree, lost, runs>>

Idle == [step |-> "idle"]

\* The first of a set of instances in an order.
FirstBy(order, S) == CHOOSE p \in S : \A q \in S : order[p] <= order[q]

\* The calls of a batch that fail: aggregate3 reports each on its own, and no
\* more than two of one batch do (model bound).
Failing(calls) ==
    {F \in {{}} \cup {{x, y} : x, y \in calls} : lost + Cardinality(F) <= MaxFails}
-------------------------------------------------------------------------------
(***************************************************************************)
(* Facilitators: a class is what answered, in this order.                  *)
(***************************************************************************)

ProbeCalls == UNION {{<<q, f>> : q \in Answers[f]} : f \in Facilitators}

ClassOf(f, F) ==
    LET evidence == {q \in Answers[f] : <<q, f>> \notin F}
    IN  CASE "POOL()" \in evidence -> Minter
          [] "POOL()" \notin evidence /\ "maxFlashLoan(address)" \in evidence -> "flash_minter"
          [] OTHER -> Analyst[f]

(***************************************************************************)
(* GSMs: the freezer is the first holder of the role whose GSM() points    *)
(* back; every other read of a GSM and of its boxed asset stops the run.   *)
(***************************************************************************)
FreezerCalls ==
    {<<"hasRole", g, h>> : g \in Gsms, h \in Freezers} \cup {<<"GSM()", h>> : h \in Freezers}

FreezerOf(g, F) ==
    LET closing == {h \in Freezers : /\ g \in FreezerOn[h] /\ <<"hasRole", g, h>> \notin F
                                     /\ GsmOf[h] = g /\ <<"GSM()", h>> \notin F}
    IN  IF closing = {} THEN None ELSE CHOOSE h \in closing : TRUE

(***************************************************************************)
(* Whom to ask: the walk of the event log (factory/logs_pointer.py), one   *)
(* window after another.  A full window ends in the middle of a block and  *)
(* the next one starts at the block after it.                              *)
(***************************************************************************)

\* The rows of a log the walk returns.  A page that is not what was asked for
\* raises and the run stops.
Walked(log) ==
    LET rows[i \in 1 .. Len(log) + 1] ==
            LET last == i + Window - 1
                after == {j \in last + 1 .. Len(log) : log[j].block > log[last].block}
            IN  IF last >= Len(log) THEN i .. Len(log)
                ELSE (i .. last) \cup (IF after = {} THEN {} ELSE rows[Min(after)])
    IN  {log[i] : i \in rows[1]}

\* The ledger has a line for everyone in the mints, borrows, repayments and
\* liquidations that were returned.
Candidates(p) == {b \in Borrowers : \E f \in Filters : \E r \in Walked(logs[p][f]) : r.borrower = b}

(***************************************************************************)
(* Positions of an instance.                                               *)
(***************************************************************************)
InstanceCalls(p) ==
    LET asked == Candidates(p)
    IN  {<<q, p, b>> : q \in {"debt", "configuration", "account"}, b \in asked}
          \cup {<<"collateral", p, b, r>> : b \in asked, r \in Reserves}
          \cup {<<"aToken", p, r>> : r \in Reserves} \cup {<<"price of GHO", p>>}

Live(p, F) == {b \in Candidates(p) : Debt[p][b] > 0 /\ <<"debt", p, b>> \notin F}

Posted(p, b, F) ==
    {r \in Reserves : /\ <<"configuration", p, b>> \notin F /\ <<"aToken", p, r>> \notin F
                      /\ <<"collateral", p, b, r>> \notin F /\ Collateral[p][b][r] > 0}

Position(p, b, F) ==
    [instance |-> p, borrower |-> b, gross_debt |-> Debt[p][b],
     gho_debt_base |-> IF <<"price of GHO", p>> \in F THEN 0 ELSE Debt[p][b],
     total_debt_base |-> IF <<"account", p, b>> \in F THEN 0 ELSE Debt[p][b] + Other[p][b],
     collateral |-> [r \in Posted(p, b, F) |-> Collateral[p][b][r]]]

Positions(p, F) == {Position(p, b, F) : b \in Live(p, F)}

GrossDebt(rows) == Total([x \in rows |-> x.gross_debt], rows)
TotalDebt(p) == Total(Debt[p], Borrowers)

\* DET-82's two sides: with no live borrower the debt token is not asked.
Completeness(p, F) ==
    [instance |-> p, sum |-> GrossDebt(Positions(p, F)),
     total |-> IF Live(p, F) = {} THEN 0 ELSE TotalDebt(p)]
-------------------------------------------------------------------------------
(***************************************************************************)
(* Nodes: collateral credited to GHO in the ratio of a borrower's GHO debt *)
(* to the whole of it, valued at the instance's oracle, and the boxed      *)
(* assets of the GSMs at their underlying's.                               *)
(***************************************************************************)

\* Mutant: as attribute_nodes' comment has it, a debt not read has ratio 1.
CreditAll(x, r) ==
    IF x.gho_debt_base <= 0 THEN 0
    ELSE IF x.total_debt_base <= 0 THEN x.collateral[r]
    ELSE (x.collateral[r] * Min({x.gho_debt_base, x.total_debt_base})) \div x.total_debt_base

Credit(x, r) ==
    IF x.total_debt_base <= 0 \/ x.gho_debt_base <= 0 THEN 0
    ELSE (x.collateral[r] * Min({x.gho_debt_base, x.total_debt_base})) \div x.total_debt_base

Backers(rows, r) == {x \in rows : r \in DOMAIN x.collateral}

Weight(rows, r) == Total([x \in Backers(rows, r) |-> Credit(x, r)], Backers(rows, r))

\* attribute_nodes' keys: a reserve with a counted position.
Weighted(rows) ==
    {r \in Reserves : \E x \in Backers(rows, r) : x.total_debt_base > 0 /\ x.gho_debt_base > 0}

NodeInstances(rows, r) == {x.instance : x \in Backers(rows, r)}

NodeCalls ==
    {<<"decimals", r>> : r \in Reserves} \cup {<<"price", p, r>> : p \in Instances, r \in Reserves}
      \cup {<<"boxed price", Underlying[g]>> : g \in Gsms}
      \cup {<<"registry", r>> : r \in {s \in Reserves : Label[s] = None}}

\* Every instance that holds the node is asked until one answers.
Priced(rows, F) ==
    {r \in Weighted(rows) : \E p \in NodeInstances(rows, r) : <<"price", p, r>> \notin F}

\* The label authority of an unlabelled row is the run-time read.
LabelOf(r, F) ==
    IF Label[r] # None THEN Label[r]
    ELSE IF <<"registry", r>> \in F THEN "unlisted" ELSE "terminal_other_layer"

CollateralNode(rows, r, F) ==
    LET unit == IF <<"decimals", r>> \in F THEN DefaultUnit ELSE Unit[r]
        price == IF r \in Priced(rows, F) THEN Price[r] ELSE 0
    IN  [address |-> r, label |-> LabelOf(r, F), value |-> (Weight(rows, r) * price) \div unit,
         gsm |-> None, priced |-> price > 0]

\* A boxed asset whose underlying no instance has priced asks the first one.
BoxedNode(rows, pools, g, F) ==
    LET u == Underlying[g]
        known == u \in Priced(rows, F) \/ (pools # {} /\ <<"boxed price", u>> \notin F)
    IN  [address |-> Wrapper[g], label |-> "recurses",
         value |-> IF known THEN (Converted[g] * Price[u]) \div Unit[u] ELSE 0,
         gsm |-> g, priced |-> known]

Nodes(rows, pools, F) ==
    {CollateralNode(rows, r, F) : r \in Weighted(rows)} \cup {BoxedNode(rows, pools, g, F) : g \in Gsms}

Backing(nodes) == Total([n \in nodes |-> n.value], nodes)

(***************************************************************************)
(* The admin surface and the oracle rows.                                  *)
(***************************************************************************)
AclPowers == {"pause", "freeze_asset", "set_oracle", "set_parameters"}

\* The contracts asked for the holder of a power: the ACL managers, the GSMs, or
\* the token itself.
Authorities(w, pools) ==
    CASE w \in AclPowers -> pools
      [] w = "seize" -> Gsms
      [] OTHER -> {"GhoToken"}

SurfaceCalls ==
    {<<"ACL", p>> : p \in Instances} \cup {<<"oracle", p>> : p \in Instances}
      \cup UNION {{<<"holder", w, c>> : c \in Authorities(w, Instances)} : w \in LivePowers}
      \cup {<<"freezer role", g, h>> : g \in Gsms, h \in Freezers}
      \cup {<<"source", a>> : a \in Reserves \cup {Underlying[g] : g \in Gsms}}

Held(pools, F) ==
    {w \in LivePowers :
        \E c \in Authorities(w, pools) : <<"ACL", c>> \notin F /\ <<"holder", w, c>> \notin F}

\* The rows of the swap freeze: each freezer found, over the GSMs it can pause.
PauseRows(found, F) ==
    {[holder |-> h, scope |-> {g \in FreezerOn[h] : <<"freezer role", g, h>> \notin F}] :
        h \in {found[g] : g \in Gsms} \ {None}}

\* What prices a node: itself, or the underlying of the GSM that boxes it.
AssetOf(n) == IF n.gsm = None THEN n.address ELSE Underlying[n.gsm]

\* One row per node, from the instance read first of those that hold its asset,
\* else from the one with the lowest address; an oracle or a source that does not
\* answer leaves no row.
HasRow(rows, pools, n, F) ==
    LET holding == NodeInstances(rows, AssetOf(n))
        inst == IF holding # {} THEN FirstBy(Listed, holding) ELSE FirstBy(Address, pools)
    IN  <<"oracle", inst>> \notin F /\ <<"source", AssetOf(n)>> \notin F

Covered(rows, pools, nodes, F) == {n.address : n \in {m \in nodes : HasRow(rows, pools, m, F)}}
-------------------------------------------------------------------------------
(***************************************************************************)
(* The rows of the harness (validate/harness.py) that a failed read can    *)
(* reach, over the bundle and the one before it.                           *)
(***************************************************************************)

\* The two sides of DET-82 differ by no more than one part in `Parts` of the
\* second; with a second of zero the difference is zero.
Near(c) ==
    c.total = 0 \/ Parts * c.sum \in (Parts - 1) * c.total .. (Parts + 1) * c.total

\* Mutant: any instance for all of them.
OneReconciled(b) == b.completeness # {} => \E c \in b.completeness : Near(c)

\* DET-82
Reconciled(b) == \A c \in b.completeness : Near(c)

\* DET-55
PricedHaveRow(b) == \A n \in b.nodes : n.value > 0 => n.address \in b.covered

\* DET-08: five per cent of the backing unlisted is Level 2.
UnlistedSmall(b) ==
    20 * Backing({n \in b.nodes : n.label = "unlisted"}) < Max({Backing(b.nodes), 1})

\* DET-63: fewer direct minters than the prior bundle is Level 2.
MintersKept(b, prior) == Cardinality(b.minters) >= Cardinality(prior.minters)

Gate(b) ==
    /\ Reconciled(b) /\ PricedHaveRow(b) /\ UnlistedSmall(b)
    /\ bundles # <<>> => MintersKept(b, bundles[Len(bundles)])
-------------------------------------------------------------------------------
(***************************************************************************)
(* The tree and the S2 rows a failed read can reach.                       *)
(***************************************************************************)

\* Mutant: the feed is enough, a price of zero passes.
BoxesFed(b) == \A n \in b.nodes : n.gsm # None => n.address \in b.covered

\* DET-28: each boxed asset is a node with a price read and a feed.
BoxesPriced(b) == \A n \in b.nodes : n.gsm # None => n.priced /\ n.address \in b.covered

\* DET-72: every GSM's path says pausable, so somebody held can pause it.
PathsPausable(b) == \A g \in Gsms : \E row \in b.pausers : g \in row.scope

Qualifying == {"mint", "upgrade", "set_oracle", "seize"}

Folded(b) ==
    [bundle |-> Len(bundles), backing_value |-> Backing(b.nodes),
     by_label |-> [l \in {n.label : n \in b.nodes} |-> Backing({n \in b.nodes : n.label = l})],
     qualifier |-> b.powers \cap Qualifying]
-------------------------------------------------------------------------------
Init == logs \in Histories /\ job = Idle /\ bundles = <<>> /\ tree = None /\ lost = 0 /\ runs = 0

ReadFacilitators ==
    /\ job = Idle /\ runs < MaxRuns
    /\ \E F \in Failing(ProbeCalls) :
          LET minters == {f \in Facilitators : ClassOf(f, F) = Minter}
              pools == {p \in Instances : \E f \in minters : PoolOf[f] = p}
          IN  /\ job' = [step |-> "gsms", minters |-> minters, pools |-> pools, todo |-> pools,
                         freezers |-> [g \in Gsms |-> None], positions |-> {},
                         completeness |-> {}, nodes |-> {}]
              /\ lost' = lost + Cardinality(F)
    /\ runs' = runs + 1
    /\ UNCHANGED <<logs, bundles, tree>>

ReadGsms ==
    /\ job.step = "gsms"
    /\ \E F \in Failing(FreezerCalls) :
          /\ job' = [job EXCEPT !.step = "instances", !.freezers = [g \in Gsms |-> FreezerOf(g, F)]]
          /\ lost' = lost + Cardinality(F)
    /\ UNCHANGED <<logs, bundles, tree, runs>>

ReadInstance ==
    /\ job.step = "instances" /\ job.todo # {}
    /\ LET p == FirstBy(Listed, job.todo)
       IN  \E F \in Failing(InstanceCalls(p)) :
              /\ job' = [job EXCEPT !.todo = @ \ {p}, !.positions = @ \cup Positions(p, F),
                                    !.completeness = @ \cup {Completeness(p, F)}]
              /\ lost' = lost + Cardinality(F)
    /\ UNCHANGED <<logs, bundles, tree, runs>>

ReadNodes ==
    /\ job.step = "instances" /\ job.todo = {}
    /\ \E F \in Failing(NodeCalls) :
          /\ job' = [job EXCEPT !.step = "surface", !.nodes = Nodes(job.positions, job.pools, F)]
          /\ lost' = lost + Cardinality(F)
    /\ UNCHANGED <<logs, bundles, tree, runs>>

\* The admin surface and the oracle rows end the bundle; with no instance left
\* the oracle rows have none to ask and the run stops instead.
ReadSurface ==
    /\ job.step = "surface" /\ job.pools # {}
    /\ \E F \in Failing(SurfaceCalls) :
          /\ job' = [step |-> "gate",
                     bundle |-> [minters |-> job.minters, positions |-> job.positions,
                                 completeness |-> job.completeness, nodes |-> job.nodes,
                                 covered |-> Covered(job.positions, job.pools, job.nodes, F),
                                 pausers |-> PauseRows(job.freezers, F),
                                 powers |-> Held(job.pools, F)
                                              \cup {"upgrade"}]]
          /\ lost' = lost + Cardinality(F)
    /\ UNCHANGED <<logs, bundles, tree, runs>>

Promote ==
    /\ job.step = "gate" /\ Gate(job.bundle)
    /\ bundles' = Append(bundles, job.bundle)
    /\ job' = Idle
    /\ UNCHANGED <<logs, tree, lost, runs>>

\* A read that must answer does not, a closure is broken, a row of the harness
\* fails, or the process ends: nothing of the run is kept.
StopRun ==
    /\ job # Idle
    /\ job' = Idle
    /\ UNCHANGED <<logs, bundles, tree, lost, runs>>

\* A fold whose S2 rows do not all pass is a rehearsal.
Fold ==
    /\ job = Idle /\ bundles # <<>>
    /\ LET b == bundles[Len(bundles)]
       IN  /\ Backing(b.nodes) > 0 /\ BoxesPriced(b) /\ PathsPausable(b)
           /\ tree' = Folded(b)
    /\ UNCHANGED <<logs, job, bundles, lost, runs>>

Next ==
    ReadFacilitators \/ ReadGsms \/ ReadInstance \/ ReadNodes \/ ReadSurface
    \/ Promote \/ StopRun \/ Fold

Spec == Init /\ [][Next]_vars
-------------------------------------------------------------------------------
(***************************************************************************)
(* What the same reads give when all of them answer.                       *)
(***************************************************************************)
TrueRows == UNION {{Position(p, b, {}) : b \in {c \in Borrowers : Debt[p][c] > 0}} : p \in Instances}
TrueNodes == Nodes(TrueRows, Instances, {})

TrueValue(n) == Backing({m \in TrueNodes : m.address = n.address /\ m.gsm = n.gsm})

\* Whatever reads fail, in whatever order, no node of a promoted bundle is worth
\* more than it is, and no tree shows more backing than there is: what is lost is
\* lost on the side of the reader.
NeverOverstated ==
    /\ \A i \in DOMAIN bundles : \A n \in bundles[i].nodes : n.value <= TrueValue(n)
    /\ tree # None => tree.backing_value <= Backing(TrueNodes)

\* A written tree has the whole of the GSM side: every boxed asset at its full
\* value with a feed, and for every GSM a freezer that can pause it.
GsmSideWhole ==
    tree # None =>
        LET b == bundles[tree.bundle]
        IN  \A g \in Gsms :
               /\ \E n \in b.nodes : /\ n.gsm = g /\ n.address = Wrapper[g]
                                     /\ n.address \in b.covered /\ n.value = TrueValue(n)
               /\ \E row \in b.pausers : g \in row.scope /\ g \in FreezerOn[row.holder]

\* The borrowers of an instance a bundle has no row of.
Omitted(b, p) ==
    {c \in Borrowers : \A x \in b.positions : x.instance = p => x.borrower # c}

\* Whatever calls and pages are lost, a promoted bundle has either no row of an
\* instance or rows of all its borrowers but for some that together owe at most one
\* part in `Parts` of its debt, and no fewer direct minters than the one before it.
DebtIsComplete ==
    \A i \in DOMAIN bundles :
        /\ i > 1 => Cardinality(bundles[i].minters) >= Cardinality(bundles[i - 1].minters)
        /\ \A p \in {x.instance : x \in bundles[i].positions} :
              Parts * Total(Debt[p], Omitted(bundles[i], p)) <= TotalDebt(p)
===============================================================================
