------------------------------ MODULE Controllers ------------------------------
(***************************************************************************)
(* The assembly of a crvUSD bundle (factory/run.py `assemble` over         *)
(* factory/reads.py, factory/disclosure.py), the harness rows that can     *)
(* stop it, the tree folded from it (factory/tree.py) and the keepers'     *)
(* room to mint that a stress run derives from it (factory/llamma.py).     *)
(*                                                                         *)
(* crvUSD is minted by the ControllerFactory, up to a ceiling, to three    *)
(* kinds of address: controllers, which lend it; keepers, which put it in  *)
(* pools; others.  A run reads one block: the chain moves between runs,    *)
(* and between a run and the legs that confirm its supply.  The contracts  *)
(* are modelled from what the adapter takes them to do (A-27, P-3.39).     *)
(***************************************************************************)
EXTENDS Integers, SequencesExt, Totals

CONSTANTS Absent,
          Markets,      \* controllers, in the order the factory lists them
          Keepers, Others,
          Granted,      \* the ceiling each address starts with
          CollateralOf, Worth,   \* of a controller: its token, its value per debt
          LabelRow,     \* of a token: its dated row, Absent without one
          Disclosed,    \* of a token: the form of its disclosure row
          OracleOf,     \* of a controller
          Windows,      \* the EMA window an address answers, or Absent
          Feeds,        \* the address graphs its getters and POOLS(i) may give
          Holders, Delayed,      \* of the factory: those with an [[admin_delay]] row
          Ceilings,     \* a ceiling is set to one of these
          Misreads,     \* by how much a provider's totalSupply() may be off
          Bound,        \* DET15_BOUND = 1 / Bound
          One, Alpha, Beta,      \* the regulator's fixed point, and its parameters
          Paired,       \* how much of the other coin a keeper's pool holds
          MaxMoves, MaxSlips, MaxAssemblies    \* model bounds

Controllers == ToSet(Markets)
Minters == Controllers \cup Keepers \cup Others

ASSUME MintersAssumption ==
    /\ Markets \in Seq(Controllers) /\ Markets # <<>>
    /\ IsFiniteSet(Keepers) /\ IsFiniteSet(Others)
    /\ Controllers \cap (Keepers \cup Others) = {}
    /\ \A a \in Minters : Granted[a] \in Nat \ {0}

ASSUME ControllersAssumption ==
    /\ Delayed \subseteq Holders /\ Ceilings \subseteq Nat /\ Misreads \subseteq Int
    /\ {One, Bound} \subseteq Nat \ {0} /\ {Alpha, Beta, Paired} \subseteq Nat
    /\ MaxMoves \in Nat /\ MaxSlips \in Nat /\ MaxAssemblies \in Nat

ASSUME OraclesAssumption ==
    /\ IsFiniteSet(DOMAIN Windows)
    /\ Absent \notin Nat /\ \A a \in DOMAIN Windows : Windows[a] \in Nat \cup {Absent}
    /\ \A m \in Controllers : OracleOf[m] \in DOMAIN Windows
    /\ Feeds \subseteq [DOMAIN Windows -> Seq(DOMAIN Windows)]

VARIABLES world,    \* the chain at its head
          feeds,    \* the oracle graph, the same for every run
          pending,  \* the bundle at the gate, or Absent
          promoted, \* the promoted ones, oldest first, each with what its block held
          trees,    \* out/trees, by the number of the bundle
          stresses, \* what out/stress says of the mechanism, likewise
          moves, slips, assemblies

factory == <<world, feeds, pending, promoted, trees, stresses, moves, slips, assemblies>>

Larger(x, y) == IF x > y THEN x ELSE y
Smaller(x, y) == IF x < y THEN x ELSE y
Gap(x, y) == IF x > y THEN x - y ELSE y - x
-------------------------------------------------------------------------------
(***************************************************************************)
(* The chain.  `minted` is the factory's debt_ceiling_residual: what it    *)
(* has minted to an address, used or not; `held` the address's balance;    *)
(* `debt` what it has put out, interest included for a controller, whose   *)
(* admin_fees() are that interest until they are collected.                *)
(***************************************************************************)
Supply(w) == Total(w.minted, Minters)
MarketsOf(w) == {Markets[i] : i \in 1 .. w.count}

Genesis ==
    LET start == Minters \ {Markets[i] : i \in 2 .. Len(Markets)}
        zero == [a \in Minters |-> 0]
        grant == [a \in Minters |-> IF a \in start THEN Granted[a] ELSE 0]
        out == [a \in Minters |-> IF a \in start /\ a \notin Others THEN 1 ELSE 0]
    IN  [count |-> 1, keepers |-> SetToSeq(Keepers), ceil |-> grant, minted |-> grant,
         held |-> [a \in Minters |-> grant[a] - out[a]], debt |-> out, fees |-> zero,
         principal |-> out, given |-> zero, history |-> SetToSeq(start),
         admin |-> CHOOSE h \in Delayed : TRUE,
         emergency |-> CHOOSE h \in Delayed : TRUE, feed |-> "answers",
         killed |-> FALSE, pools |-> TRUE]

\* A loan is taken, a keeper provides, another deploys; and back.
Draw(a) == /\ a \in MarketsOf(world) \cup Keepers \cup Others /\ world.held[a] > 0
           /\ world' = [world EXCEPT !.held[a] = @ - 1, !.debt[a] = @ + 1,
                                     !.principal[a] = world.debt[a] + 1]
Return(a) == /\ world.debt[a] > 0
             /\ world' = [world EXCEPT !.held[a] = @ + 1, !.debt[a] = @ - 1,
                                       !.principal[a] = world.debt[a] - 1]

Accrue(m) == /\ world.debt[m] > 0
             /\ world' = [world EXCEPT !.debt[m] = @ + 1, !.fees[m] = @ + 1]
CollectFees(m) == /\ world.fees[m] > 0 /\ world.held[m] >= world.fees[m]
                  /\ world' = [world EXCEPT !.held[m] = @ - world.fees[m], !.fees[m] = 0]

\* A higher ceiling is minted to its address, a lower one burns what is still there.
WithCeiling(w, a, c) ==
    LET burned == Smaller(w.minted[a] - c, w.held[a])
        change == IF c >= w.minted[a] THEN c - w.minted[a] ELSE 0 - burned
    IN  [w EXCEPT !.ceil[a] = c, !.minted[a] = @ + change, !.held[a] = @ + change,
                  !.history = Append(@, a)]
SetCeiling(a, c) == /\ a \in MarketsOf(world) \cup Keepers \cup Others /\ c # world.ceil[a]
                    /\ world' = WithCeiling(world, a, c)
AddMarket ==
    /\ world.count < Len(Markets)
    /\ LET m == Markets[world.count + 1]
       IN  world' = WithCeiling([world EXCEPT !.count = @ + 1], m, Granted[m])

Delist(i) == /\ i \in DOMAIN world.keepers
             /\ world' = [world EXCEPT !.keepers = RemoveAt(@, i)]
Donate == /\ Total(world.held, Minters) < Supply(world)
          /\ \E a \in Minters : world' = [world EXCEPT !.held[a] = @ + 1, !.given[a] = @ + 1]
\* The factory's admin and the registry's emergency_admin.
Offices == {"admin", "emergency"}
HandOver(o, h) == h # world[o] /\ world' = [world EXCEPT ![o] = h]
Feed(s) == s # world.feed /\ world' = [world EXCEPT !.feed = s]
Kill == world' = [world EXCEPT !.killed = ~@]
Silence == world' = [world EXCEPT !.pools = ~@]
-------------------------------------------------------------------------------
(***************************************************************************)
(* Markets: a layout is verified on live loans alone, so a market without  *)
(* any is an error and with it the run.  One position per market stands    *)
(* for the sample (model bound).                                           *)
(***************************************************************************)
SlotVerified(w, m) ==
    w.principal[m] > 0 /\ w.principal[m] <= w.debt[m] /\ w.debt[m] < 3 * w.principal[m]

\* total_debt() - admin_fees(): what was minted to borrowers less what they redeemed.
NetMinted(w, m) == w.debt[m] - w.fees[m]

\* The keepers, up to the first index that does not answer.
KeepersRead(w, n) == {w.keepers[i] : i \in 1 .. n}

\* A keeper's pool: what it provided, against one share of someone else's.
KeeperPool(w, k) == [paired |-> Paired, stable |-> w.debt[k] + 1,
                     lp |-> w.debt[k], supply |-> w.debt[k] + 1]

\* At par: the other coin its share of the pool stands for, and what that share
\* is worth beyond its debt.
Net(p) == IF p.supply = 0 THEN 0 ELSE (p.lp * p.paired) \div p.supply
Residual(p, debt) ==
    (IF p.supply = 0 THEN 0 ELSE (p.lp * (p.paired + p.stable)) \div p.supply) - debt

Operation(w, k) ==
    [debt |-> w.debt[k], balance |-> w.held[k], ceiling |-> w.ceil[k],
     pool |-> KeeperPool(w, k), net |-> Net(KeeperPool(w, k)),
     residual |-> Residual(KeeperPool(w, k), w.debt[k])]

\* A cause of the residual: a controller's or a keeper's balance, and for any
\* other recipient of a ceiling its balance plus what the ceiling leaves, at least 0.
CauseAmount(w, a, ops) ==
    IF a \in MarketsOf(w) \cup ops THEN w.held[a] ELSE w.held[a] + Larger(w.ceil[a] - w.held[a], 0)

\* residual_causes over the first n rows of the SetDebtCeiling history.
Causes(w, n, ops) ==
    [a \in ToSet(SubSeq(w.history, 1, n)) |-> CauseAmount(w, a, ops)]
-------------------------------------------------------------------------------
(***************************************************************************)
(* resolve_ema_window: a candidate with a window is a pool, any other one  *)
(* a chained oracle; an oracle that comes to no window stops the run.      *)
(***************************************************************************)
\* Mutant: the last window found, not the largest.
LastWindow(best, w) == IF w = 0 THEN best ELSE w

WindowSoFar(best, w) == Larger(best, w)

Visit(resolve, acc, a) ==
    IF ~acc.ok THEN acc
    ELSE IF Windows[a] # Absent THEN [acc EXCEPT !.best = WindowSoFar(@, Windows[a])]
    ELSE LET sub == resolve[[oracle |-> a, seen |-> acc.seen]]
         IN  [sub EXCEPT !.best = WindowSoFar(acc.best, sub.best)]

Calls == [oracle : DOMAIN Windows, seen : SUBSET DOMAIN Windows]
EmaWindow(m) ==
    LET resolve[c \in Calls] ==
            IF c.oracle \in c.seen THEN [best |-> 0, seen |-> c.seen, ok |-> TRUE]
            ELSE LET found == FoldLeft(LAMBDA acc, a : Visit(resolve, acc, a),
                                       [best |-> 0, seen |-> c.seen \cup {c.oracle}, ok |-> TRUE],
                                       feeds[c.oracle])
                 IN  [found EXCEPT !.ok = @ /\ found.best > 0]
    IN  resolve[[oracle |-> OracleOf[m], seen |-> {}]]
-------------------------------------------------------------------------------
(***************************************************************************)
(* The regulator.  A keeper may provide while its share of what it was     *)
(* given stays under a bound that the other keepers' shares set.           *)
(***************************************************************************)
Isqrt(n) == CHOOSE r \in 0 .. n : r * r <= n /\ (r + 1) * (r + 1) > n

Ratio(debt, balance) == (debt * One) \div (1 + debt + balance)

\* Over the ratios r[k] of the keepers in P.
MaxRatio(r, P) ==
    LET a == Alpha + (Beta * Total([k \in P |-> Isqrt(r[k] * One)], P)) \div One
    IN  (a * a) \div One

\* What a keeper with these ratios for peers may still provide.
Providable(r, P, debt, balance) == (MaxRatio(r, P) * (debt + balance)) \div One - debt

\* The contract's own provide_allowed, short of its price guard, over its own list;
\* and what the keepers can put out at once, which no keeper holds more of than it has.
ProvideAllowed(w, k) ==
    LET all == ToSet(w.keepers)
        r == [j \in all |-> Ratio(w.debt[j], w.held[j])]
    IN  IF w.killed THEN 0 ELSE Larger(0, Providable(r, all \ {k}, w.debt[k], w.held[k]))
RoomOf(w, k) == Smaller(ProvideAllowed(w, k), w.held[k])
RoomLeft(w) == Total([k \in ToSet(w.keepers) |-> RoomOf(w, k)], ToSet(w.keepers))

\* Mutant: a keeper's own ratio enters the sum that bounds it.
PeersAndSelf(ops, k) == DOMAIN ops

Peers(ops, k) == DOMAIN ops \ {k}

\* The memo's form (A-5): also never beyond the ceiling.
Allowed(b, k) ==
    LET o == b.ops[k]
        r == [j \in DOMAIN b.ops |-> Ratio(b.ops[j].debt, b.ops[j].balance)]
    IN  IF b.killed THEN 0
        ELSE Larger(0, Smaller(Providable(r, Peers(b.ops, k), o.debt, o.balance),
                               o.ceiling - o.debt))

Effective(b) == Total([k \in DOMAIN b.ops |-> Allowed(b, k)], DOMAIN b.ops)
Naive(b) ==
    Total([k \in DOMAIN b.ops |-> Larger(b.ops[k].ceiling - b.ops[k].debt, 0)], DOMAIN b.ops)
-------------------------------------------------------------------------------
(***************************************************************************)
(* Nodes: a token's value over its markets, its label, its disclosure.     *)
(***************************************************************************)
Tokens(w) == {CollateralOf[m] : m \in MarketsOf(w)}
NodeValue(w, t) ==
    Total([m \in MarketsOf(w) |-> Worth[m] * w.principal[m]],
          {m \in MarketsOf(w) : CollateralOf[m] = t})
Unlisted(w) == {t \in Tokens(w) : LabelRow[t] = Absent}
Recursing(w) == {t \in Tokens(w) : LabelRow[t] = "recurses"}

\* A reserve feed under another description contradicts its signed row.
DisclosureStops(w) == \E t \in Recursing(w) : Disclosed[t] = "feed" /\ w.feed = "renamed"

\* An exchange-rate row is dated by a log this assembly does not ask for.
Dated(w) ==
    {t \in Recursing(w) : Disclosed[t] = "date" \/ (Disclosed[t] = "feed" /\ w.feed = "answers")}

\* Every admin row of a live power needs the delay of its holder; the selector
\* scans for the powers nobody holds read code that does not change.
HasDelay(h) == h \in Delayed
Governed(w) == HasDelay(w.admin) /\ HasDelay(w.emergency)

\* Of the keepers' pools, those of the first n are asked.
Assembles(w, n) ==
    /\ \A m \in MarketsOf(w) : SlotVerified(w, m) /\ EmaWindow(m).ok
    /\ Governed(w)
    /\ ~DisclosureStops(w)
    /\ KeepersRead(w, n) # {} => w.pools

BackingOf(w, T) == Total([t \in T |-> NodeValue(w, t)], T)

\* DET-08 at Level 2: five per cent of the backing has no label.
FewUnlisted(w) == 20 * BackingOf(w, Unlisted(w)) < BackingOf(w, Tokens(w))

\* DET-76(e): every node that recurses has a dated disclosure.
AllDated(w) == Recursing(w) = Dated(w)

\* The bundle, with what its block held of the chain's own account.
Bundle(w, answer, ops, n) ==
    [supply |-> answer, net |-> [m \in MarketsOf(w) |-> NetMinted(w, m)],
     ops |-> [k \in ops |-> Operation(w, k)], killed |-> w.killed,
     causes |-> Causes(w, n, ops), admin |-> w.admin,
     nodes |-> [t \in Tokens(w) |-> NodeValue(w, t)],
     windows |-> [m \in MarketsOf(w) |-> EmaWindow(m).best],
     labelled |-> FewUnlisted(w), dated |-> AllDated(w),
     minted |-> w.minted, given |-> w.given, room |-> RoomLeft(w), out |-> Total(w.debt, Keepers)]
-------------------------------------------------------------------------------
(***************************************************************************)
(* The gate.                                                               *)
(***************************************************************************)
\* DET-62: a jump of more than a quarter needs both legs, each within a twentieth.
JumpConfirmed(now, prior, legs) ==
    /\ prior # 0
    /\ 4 * Gap(now, prior) > prior =>
          Absent \notin legs /\ \A v \in legs : 20 * Gap(v, now) <= now

Passes(b, legs) ==
    /\ b.labelled /\ b.dated
    /\ promoted # <<>> => JumpConfirmed(b.supply, promoted[Len(promoted)].supply, legs)

OpsDebt(b) == [k \in DOMAIN b.ops |-> b.ops[k].debt]
Amount(f, a) == IF a \in DOMAIN f THEN f[a] ELSE 0

\* What a bundle counts of the crvUSD minted to an address.
Counted(b, a) == Amount(b.net, a) + Amount(OpsDebt(b), a) + Amount(b.causes, a)
Unexplained(b) == b.supply - Total([a \in Minters |-> Counted(b, a)], Minters)

\* Mutant: only what is counted beyond the supply is held against the bound.
NotOver(b) == 0 - Bound * Unexplained(b) <= b.supply

\* DET-15(c), on the absolute value.
Decomposes(b) == Bound * Gap(Unexplained(b), 0) <= b.supply
-------------------------------------------------------------------------------
(***************************************************************************)
(* The tree and the mechanism, and the rows that replay them.              *)
(***************************************************************************)
LabelShown(t) == IF LabelRow[t] = Absent THEN "unlisted" ELSE LabelRow[t]
NodeLabels == {"terminal", "terminal_other_layer", "recurses", "recurses_truncated", "unlisted"}

\* Shares are kept as amounts over the one denominator they all have.
Shares(b) ==
    [l \in NodeLabels |-> Total(b.nodes, {t \in DOMAIN b.nodes : LabelShown(t) = l})]

Ceilinged(b) == Total([k \in DOMAIN b.ops |-> b.ops[k].ceiling], DOMAIN b.ops)

Family(b, a) == CASE a \in DOMAIN b.net -> "controller"
                  [] a \in DOMAIN b.ops -> "keeper"
                  [] OTHER -> "other"
Families(b) ==
    [f \in {Family(b, a) : a \in DOMAIN b.causes} |->
        Total(b.causes, {a \in DOMAIN b.causes : Family(b, a) = f})]

TreeOf(b) ==
    [backing |-> Total(b.nodes, DOMAIN b.nodes), shares |-> Shares(b), supply |-> b.supply,
     debt |-> Total(OpsDebt(b), DOMAIN b.ops), ceiling |-> Ceilinged(b),
     families |-> Families(b), qualifier |-> {b.admin}]

\* DET-14 and DET-19.
SharesReplay(b, t) ==
    /\ t.backing = Total(b.nodes, DOMAIN b.nodes) /\ t.shares = Shares(b)
    /\ Total(t.shares, NodeLabels) = t.backing
\* DET-16 and DET-22.
SliceReplays(b, t) ==
    b.supply > 0 /\ t.debt = Total(OpsDebt(b), DOMAIN b.ops) /\ t.ceiling = Ceilinged(b)
\* DET-05.
NettingReplays(b) ==
    /\ DOMAIN b.nodes \cap DOMAIN b.ops = {}
    /\ \A k \in DOMAIN b.ops : /\ b.ops[k].net = Net(b.ops[k].pool)
                            /\ b.ops[k].residual = Residual(b.ops[k].pool, b.ops[k].debt)
\* DET-70.
QualifierReplays(b, t) == t.qualifier = {b.admin} /\ t.shares = Shares(b)

TreeHolds(b, t) ==
    /\ Decomposes(b) /\ t.supply = b.supply
    /\ SharesReplay(b, t) /\ SliceReplays(b, t) /\ NettingReplays(b) /\ QualifierReplays(b, t)

\* The report's EMA window is the largest of the bundle's rows.
ReportWindow(b) == Max({0} \cup {b.windows[m] : m \in DOMAIN b.windows})

\* Every Member-1 cell starts, and ends, with the debt that may be burnt.
Mechanism(b) ==
    [effective |-> Effective(b), naive |-> Naive(b), keepers |-> b.ops,
     ceiling |-> Ceilinged(b), window |-> ReportWindow(b), burn |-> Total(OpsDebt(b), DOMAIN b.ops)]

\* DET-45, DET-26 and DET-27.
HeadroomReplays(b, m) ==
    m.keepers = b.ops /\ m.effective = Effective(b) /\ m.naive = Naive(b)
TrajectoryReplays(b, m) ==
    m.ceiling = Ceilinged(b) /\ m.burn >= Total(OpsDebt(b), DOMAIN b.ops)
BurnReplays(b, m) == m.burn = Total(OpsDebt(b), DOMAIN b.ops)
MechanismHolds(b, m) == HeadroomReplays(b, m) /\ TrajectoryReplays(b, m) /\ BurnReplays(b, m)
-------------------------------------------------------------------------------
FactoryInit ==
    /\ world = Genesis /\ feeds \in Feeds /\ pending = Absent /\ promoted = <<>>
    /\ trees = <<>> /\ stresses = <<>>
    /\ moves = 0 /\ slips = 0 /\ assemblies = 0

Move ==
    /\ moves < MaxMoves /\ (assemblies = MaxAssemblies => pending # Absent)
    /\ \/ \E a \in Minters : Draw(a)
       \/ \E a \in Minters : Return(a)
       \/ \E m \in Controllers : Accrue(m)
       \/ \E m \in Controllers : CollectFees(m)
       \/ \E a \in Minters, c \in Ceilings : SetCeiling(a, c)
       \/ AddMarket
       \/ \E i \in 1 .. Cardinality(Keepers) : Delist(i)
       \/ Donate
       \/ \E o \in Offices, h \in Holders : HandOver(o, h)
       \/ \E s \in {"answers", "reverts", "renamed"} : Feed(s)
       \/ Kill
       \/ Silence
    /\ moves' = moves + 1
    /\ UNCHANGED <<feeds, pending, promoted, trees, stresses, slips, assemblies>>

\* One run at one block.  The keeper walk may end early, the log pointer may lag
\* behind the block, the provider may answer a supply that is not the token's.
Assemble ==
    /\ pending = Absent /\ assemblies < MaxAssemblies
    /\ assemblies' = assemblies + 1
    /\ \E n \in 0 .. Len(world.keepers), h \in 0 .. Len(world.history),
          d \in {0} \cup Misreads :
          LET faults == {"walk" : x \in {n} \ {Len(world.keepers)}}
                          \cup {"pointer" : x \in {h} \ {Len(world.history)}}
                          \cup {"supply" : x \in {d} \ {0}}
          IN  /\ slips + Cardinality(faults) <= MaxSlips
              /\ slips' = slips + Cardinality(faults)
              /\ IF Assembles(world, n)
                 THEN pending' = Bundle(world, Supply(world) + d, KeepersRead(world, n), h)
                 ELSE UNCHANGED pending
    /\ UNCHANGED <<world, feeds, promoted, trees, stresses, moves>>

\* The legs are read after the bundle, at the head, which may have moved since.
Harness ==
    /\ pending # Absent
    /\ pending' = Absent
    /\ \E legs \in (SUBSET {Absent, Supply(world)}) \ {{}} :
          promoted' = IF Passes(pending, legs) THEN Append(promoted, pending) ELSE promoted
    /\ UNCHANGED <<world, feeds, trees, stresses, moves, slips, assemblies>>

\* An artifact over a bundle replaces the one there was.
With(artifacts, n, a) ==
    [i \in DOMAIN artifacts \cup {n} |-> IF i = n THEN a ELSE artifacts[i]]

\* python -m factory.tree, over the latest bundle: a fold that fails a row is a rehearsal.
FoldTree ==
    /\ promoted # <<>>
    /\ LET b == promoted[Len(promoted)]
           t == TreeOf(b)
       IN  /\ t.backing > 0 /\ TreeHolds(b, t)
           /\ trees' = With(trees, Len(promoted), t)
    /\ UNCHANGED <<world, feeds, pending, promoted, stresses, moves, slips, assemblies>>

\* python -m factory.stress, over the latest bundle and its tree.
Stress ==
    /\ promoted # <<>> /\ Len(promoted) \in DOMAIN trees
    /\ LET b == promoted[Len(promoted)]
           m == Mechanism(b)
       IN  /\ m.effective <= m.naive /\ MechanismHolds(b, m)
           /\ stresses' = With(stresses, Len(promoted), m)
    /\ UNCHANGED <<world, feeds, pending, promoted, trees, moves, slips, assemblies>>

FactoryNext == Move \/ Assemble \/ Harness \/ FoldTree \/ Stress

FactorySpec == FactoryInit /\ [][FactoryNext]_factory
-------------------------------------------------------------------------------
\* A tree that is kept counts each minter once: no address for more than was minted
\* and given to it, and what it leaves uncounted over all of them is within DET-15's
\* bound, but for gifts and for the supply's own misreading, however short the keeper
\* walk, the log pointer or the registry was.
TreeCountsEach ==
    \A i \in DOMAIN trees :
        LET b == promoted[i]
            short == Total([a \in Minters |-> Larger(b.minted[a] - Counted(b, a), 0)], Minters)
            missing == short - Total(b.given, Minters) - Larger(Total(b.minted, Minters) - b.supply, 0)
        IN  /\ Bound * missing <= b.supply
            /\ \A a \in Minters : Counted(b, a) <= b.minted[a] + b.given[a]

\* The room to mint that a stress artifact prints is room the keepers had at its
\* block: no more than the regulator allowed them and they held, summed over its own
\* list, and what it prints as burnable is debt they had, however short the walk was.
HeadroomWithin ==
    \A i \in DOMAIN stresses :
        /\ stresses[i].effective <= Smaller(promoted[i].room, stresses[i].naive)
        /\ stresses[i].burn <= promoted[i].out

\* A supply the provider answered too high is never shown as a tree's denominator,
\* even where a jump to it was confirmed by a head that had moved in between: beyond
\* what was minted at the bundle's own block, and given, it has DET-15's bound.
SupplyShownWithin ==
    \A i \in DOMAIN trees :
        Bound * (trees[i].supply - Total(promoted[i].minted, Minters)
                                 - Total(promoted[i].given, Minters)) <= trees[i].supply

\* What is reached from o: the least set with its candidates that has, with any
\* chained oracle, the candidates of that one.
Shut(C) == \A y \in C : Windows[y] = Absent => ToSet(feeds[y]) \subseteq C
Closure(o) ==
    {x \in DOMAIN Windows :
        \A C \in SUBSET DOMAIN Windows : Shut(C) /\ ToSet(feeds[o]) \subseteq C => x \in C}
WindowsReached(o) == {Windows[p] : p \in {x \in Closure(o) : Windows[x] # Absent}}

\* The window of a promoted row is the largest one its oracle reaches through
\* any chain of oracles, whichever way the getters are walked, and the stress
\* artifact prints the largest of them.
WindowIsMax ==
    \A i \in DOMAIN promoted : \A m \in DOMAIN promoted[i].windows :
        /\ promoted[i].windows[m] = Max(WindowsReached(OracleOf[m]))
        /\ i \in DOMAIN stresses => stresses[i].window >= promoted[i].windows[m]
===============================================================================
