--------------------------------- MODULE Cells ---------------------------------
(***************************************************************************)
(* A stress run over one bundle (factory/stress.py): `fold` builds the     *)
(* cells of the token's grid from its book, by factory/stress.py for       *)
(* crvUSD, factory/lusd_cells.py for LUSD and factory/gho_cells.py for     *)
(* GHO, and stops on a book it cannot work; `emit` runs the stress checks  *)
(* of the harness over them and writes the report to out/stress or to      *)
(* out/rehearsal.  Exit depths are what the pools give (see Depth); the    *)
(* figures no check compares are left out.                                 *)
(***************************************************************************)
EXTENDS CrashPath

CONSTANTS Unset,      \* no figure
          Books,      \* the books a bundle may hold
          Deep90,     \* K-subset(0.90)
          Curves,     \* what its pools may give: each one's depth(2%) by LP flight,
                      \* and by target and flight, [par, shocked]
          ZeroBound,  \* 0.001% of supply_ruled (R-B11.8)
          ReserveLt,  \* the liquidation threshold of a reserve
          EmodeLt,    \* and of an eMode category
          Coarse,     \* the assets that do not have 18 decimals
          Volatile,   \* nodes shocked in a crash
          LstNodes,   \* the volatile nodes that take the LST discount
          Stable,     \* the nodes of class stable
          Exposed     \* the reserves whose backing is Member 2's stable

Shocks == {20, 35, 50, 70}
Lps == {0, 30, 60}
Targets == {97, 93, 88}

\* A book is [token, ...]: crvUSD's positions, y and sell-side units by market;
\* LUSD's troves, Stability Pool and redeemable supply; GHO's positions, its
\* GSMs [balance, enters, fee, automated, lower] and sell-side units by node.  An
\* LUSD node's sell side is the exempt literal, which is no number.
Lsts(b) == IF b.token = "LUSD" THEN {0} ELSE {0, 5, 10}

\* A GHO position's figures, as the bundle records them.
GhoPosition(p) ==
    /\ {"collateral", "gho", "debt", "emode"} \subseteq DOMAIN p
    /\ IsFiniteSet(DOMAIN p.collateral) /\ \A a \in DOMAIN p.collateral : p.collateral[a] \in Nat
    /\ p.gho \in Nat /\ p.debt \in Nat

\* A category lends at least what its reserves alone would.
ASSUME BooksAssumption ==
    /\ ReserveLt \in Nat /\ EmodeLt \in Nat /\ ReserveLt <= EmodeLt
    /\ \A b \in Books : b.token = "GHO" =>
          /\ {"token", "positions"} \subseteq DOMAIN b
          /\ b.positions \in Seq(ToSet(b.positions))
          /\ \A i \in DOMAIN b.positions : GhoPosition(b.positions[i])

ASSUME CellsAssumption ==
    /\ One = 100 /\ LstNodes \subseteq Volatile /\ Volatile \cap Stable = {}
    /\ \A d \in Curves : \A p \in Deep90 : d[p].par[0] >= d[p].par[30] /\ d[p].par[30] >= d[p].par[60]

VARIABLES book,
          depth,      \* K-subset pool -> its depths
          reverted,   \* the calls that revert at the run's block
          stale,      \* the sheet moved since the bundle was assembled (R8); drawn
                      \* where it is asked for
          cells,      \* the report's cells, none before the fold
          checks,     \* entry -> the result of run_stress_checks
          outcome     \* how far the run is: "read", "crash", "depeg", "joint",
                      \* "folded", then "stopped", "promoted" or "rehearsal"

cellsvars == <<book, depth, reverted, stale, cells, checks, outcome>>
-------------------------------------------------------------------------------
(***************************************************************************)
(* The reads of a fold.  A call that reverts stops the run, but for a few  *)
(* of GHO's, which become a value.                                         *)
(***************************************************************************)
Held(b) == UNION {DOMAIN p.collateral : p \in ToSet(b.positions)}

\* The builder is taken by what the bundle holds, not by its token: keepers, else
\* GSMs, else LUSD's.
Builder(b) ==
    CASE b.token = "crvUSD" /\ b.keepers > 0 -> "crvUSD"
      [] b.token = "GHO" /\ b.gsms # <<>> -> "GHO"
      [] OTHER -> "LUSD"

\* Calls without which there is no mechanism: the regulator's views and the bands
\* and ticks of every market; the contracts and the risk parameters of every
\* reserve, and of the categories in use; LUSD's constants.
Required(b) ==
    CASE b.token = "crvUSD" -> {<<"gate">>, <<"market">>, <<"ticks">>, <<"bands">>}
      [] b.token = "LUSD" -> {<<"constants">>}
      [] b.token = "GHO" ->
            {<<"provider">>} \cup {<<"config", a>> : a \in Held(b)}
            \cup {<<"category">> : i \in {j \in DOMAIN b.positions : b.positions[j].emode}}

\* Calls whose failure reads as an answer.
Optional(b) ==
    IF b.token # "GHO" THEN {}
    ELSE {<<"price", a>> : a \in Held(b)} \cup {<<"decimals", a>> : a \in Held(b)}
         \cup {<<"emode", i>> : i \in DOMAIN b.positions}
         \cup {<<"upkeep", g>> : g \in DOMAIN b.gsms}

\* No price is 0, no decimals are 18: either way the reserve has no value, but
\* only the price counts for what can be sold.  No category is category 0.
Unpriced(a, lost) == <<"price", a>> \in lost
Worthless(a, lost) == Unpriced(a, lost) \/ (a \in Coarse /\ <<"decimals", a>> \in lost)

\* Mutant: a position with a reserve that was not read is left out.
WholeOnly(p, i, lost) ==
    [collateral |-> p.collateral,
     gho |-> p.gho, debt |-> IF \E a \in DOMAIN p.collateral : Worthless(a, lost) THEN 0 ELSE p.debt,
     threshold |-> IF p.emode /\ <<"emode", i>> \notin lost THEN EmodeLt ELSE ReserveLt]

PositionAsRead(p, i, lost) ==
    [collateral |-> [a \in DOMAIN p.collateral |-> IF Worthless(a, lost) THEN 0 ELSE p.collateral[a]],
     gho |-> p.gho, debt |-> p.debt,
     threshold |-> IF p.emode /\ <<"emode", i>> \notin lost THEN EmodeLt ELSE ReserveLt]

AsRead(b, lost) ==
    IF b.token # "GHO" THEN b
    ELSE [b EXCEPT
            !.positions = [i \in DOMAIN @ |-> PositionAsRead(@[i], i, lost)],
            !.gsms = [g \in DOMAIN @ |->
                        [@[g] EXCEPT !.automated = @ /\ <<"upkeep", g>> \notin lost]],
            !.sell = [a \in DOMAIN @ |-> IF Unpriced(a, lost) THEN 0 ELSE @[a]]]

\* The book the builder works on.
Base == AsRead(book, reverted)
-------------------------------------------------------------------------------
(***************************************************************************)
(* The grid.                                                               *)
(***************************************************************************)
Id(member, shock, lst, lp, target) ==
    [member |-> member, shock |-> shock, lst |-> lst, lp |-> lp, target |-> target]

M1(s, d, lp) == Id("M1", s, d, lp, Unset)
Joint == Id("JOINT", 50, 0, 0, 93)
Member1(b) == {M1(s, d, lp) : s \in Shocks, d \in Lsts(b), lp \in Lps}
Member2 == {Id("M2", Unset, Unset, lp, t) : lp \in Lps, t \in Targets}
Compound == Id("M2_COMPOUND", Unset, Unset, 0, 93)

\* R-B5.1: a reserve with no node is shocked like a volatile one, undiscounted.
Factor(s, d, a) ==
    CASE a \in LstNodes -> ((One - s) * (One - d)) \div One
      [] a \in Stable -> One
      [] OTHER -> One - s

\* The share of the Stability Pool the LP flight leaves.
SpEffective(b, lp) == (b.pool * (One - lp)) \div One

\* What the sheet lets a market sell; a market without a row, or with a literal
\* for a number, sells nothing.
SellSide(b, m) == IF b.sell[m] = Unset THEN 0 ELSE b.sell[m]

Crash(b, s, d, lp) ==
    CASE b.token = "crvUSD" ->
            LET price == [m \in DOMAIN b.sell |-> Factor(s, d, m)]
            IN  BandPath(b.positions, b.y, price,
                         [m \in DOMAIN b.sell |-> (SellSide(b, m) * price[m]) \div One])
      [] b.token = "LUSD" -> TrovePath(b.troves, One - s, SpEffective(b, lp))
      [] b.token = "GHO" ->
            HealthPath(b.positions, [a \in Held(b) |-> Factor(s, d, a)],
                       MapThenSumSet(LAMBDA a : (SellSide(b, a) * Factor(s, d, a)) \div One, DOMAIN b.sell))

\* gsm_enters, strict at 2%; the cells take every live GSM that enters at all.
Entering(b) == {g \in DOMAIN b.gsms : b.gsms[g].enters}
GsmHeld(b, S) == MapThenSumSet(LAMBDA g : b.gsms[g].balance, S)
GsmTerm(b) == IF b.token = "GHO" THEN GsmHeld(b, Entering(b)) ELSE 0

\* Each pool after the flight of its LPs, the paired asset withdrawn; for a target,
\* what is left sells against the stable at that price (R-B7.1).
AfterFlight(lp) == MapThenSumSet(LAMBDA p : depth[p].par[lp], Deep90)
ShockedAfterFlight(target, lp) == MapThenSumSet(LAMBDA p : depth[p].shocked[target][lp], Deep90)

\* DET-31's depth(2%), the venues included where there are any.
ExitDepth(b) ==
    AfterFlight(0) + IF b.token = "GHO" THEN GsmHeld(b, {g \in Entering(b) : b.gsms[g].fee < 2}) ELSE 0

\* DET-46: a freezer answers checkUpkeep and its band trips in the modelled range.
CheckPass(g) == g.automated /\ g.lower >= 88
Effective(b) == \A g \in DOMAIN b.gsms : CheckPass(b.gsms[g])

\* DET-42: what the GSMs hold of the stable, and GHO's part of the collateral
\* that is backed by it, at today's prices.
Member2Numerator(b) ==
    LET slice(p) == MapThenSumSet(LAMBDA a : GhoPart(p, p.collateral[a]), DOMAIN p.collateral \cap Exposed)
    IN  IF b.token # "GHO" THEN 0
        ELSE GsmHeld(b, DOMAIN b.gsms)
             + MapThenSumSet(LAMBDA i : slice(b.positions[i]), DOMAIN b.positions)

\* H4: nothing is redeemable below MCR.
Redemption(b, tcr) ==
    IF b.token # "LUSD" THEN 0
    ELSE IF Lower(tcr, <<MCR, One>>) THEN 0 ELSE b.redeemable

Cell(bad, sold, exit, defined, tcr, redeemable) ==
    [bad |-> bad, sold |-> sold, depth |-> exit, defined |-> defined,
     tcr |-> tcr, redeemable |-> redeemable]

Tcr(b, path) == IF b.token = "LUSD" THEN path.tcr ELSE Unset

\* m3_ratio: a forced sale into no depth at all has no ratio.
Defined(sold, exit) == exit > 0 \/ sold = 0

CrashCell(b, path, lp) ==
    LET exit == AfterFlight(lp) + GsmTerm(b)
    IN  Cell(path.bad, path.bad, exit, Defined(path.bad, exit), Tcr(b, path), 0)

\* DET-43: no supply of crvUSD or LUSD is backed by the stable; GHO's GSMs leave
\* the exit with an effective freezer, and its exit is the pools' at par.
DepegCell(b, tcr, sold, lp, target) ==
    IF b.token = "GHO"
    THEN LET exit == AfterFlight(lp) + IF Effective(b) THEN 0 ELSE GsmTerm(b)
         IN  Cell(0, sold, exit, exit > 0, Unset, 0)
    ELSE Cell(0, 0, ShockedAfterFlight(target, lp), TRUE, tcr, Redemption(b, tcr))

\* Half the price, no LST discount, no flight.
JointCrash(b) == Crash(b, 50, 0, 0)

\* With the stable at 0.93: crvUSD and LUSD exit at that price, GHO at par.
JointCell(b, path, numerator) ==
    LET sold == path.bad + numerator
        exit == IF b.token = "GHO" THEN AfterFlight(0) ELSE ShockedAfterFlight(93, 0)
    IN  Cell(path.bad, sold, exit,
             IF b.token = "GHO" THEN exit > 0 ELSE Defined(sold, exit),
             Tcr(b, path), Redemption(b, Tcr(b, path)))
-------------------------------------------------------------------------------
(***************************************************************************)
(* The stress checks that compare cells (validate/harness.py).             *)
(***************************************************************************)

\* Neighbouring Member-1 cells along one axis, the other two fixed.
Next4(s) == CASE s = 20 -> 35 [] s = 35 -> 50 [] s = 50 -> 70
AxisPairs(ids) ==
    {pair \in {<<M1(s, d, lp), M1(Next4(s), d, lp)>> : s \in {20, 35, 50}, d \in {0, 5, 10}, lp \in Lps}
        \cup {<<M1(s, d, lp), M1(s, d + 5, lp)>> : s \in Shocks, d \in {0, 5}, lp \in Lps}
        \cup {<<M1(s, d, lp), M1(s, d, lp + 30)>> : s \in Shocks, d \in {0, 5, 10}, lp \in {0, 30}} :
        pair[1] \in ids /\ pair[2] \in ids}

\* R-29, with R-B4.14's undefined ratio as infinity.
RatioFalls(c1, c2) ==
    /\ c2.defined
    /\ c1.defined => Lower(Over(c2.sold, c2.depth), Over(c1.sold, c1.depth))

Det40 == \A p \in AxisPairs(DOMAIN cells) : cells[p[2]].bad >= cells[p[1]].bad

Det41 ==
    /\ \A id \in Member1(book) :
          /\ id.lp = 0 => cells[id].depth = ExitDepth(book)
          /\ cells[id].depth = 0 /\ cells[id].sold > 0 => ~cells[id].defined
    /\ \A p \in AxisPairs(DOMAIN cells) :
          p[1].lp # p[2].lp => ~RatioFalls(cells[p[1]], cells[p[2]])

Insulated(b) == b.token # "GHO"

Det42 ==
    LET slice == cells[Id("M2", Unset, Unset, 0, 97)].sold
    IN  /\ Insulated(book) => \A id \in Member2 \cup {Compound} : cells[id].sold = 0
        /\ cells[Joint].sold = cells[Joint].bad + IF Insulated(book) THEN 0 ELSE slice

Det43 ==
    Insulated(book) =>
        \A id \in Member2 \cup {Compound, Joint} :
            id.lp = 0 => cells[id].depth = ShockedAfterFlight(id.target, 0)

\* DET-44: the counterfactual lines of a member's cells, and what the entry asks
\* of a bundle that holds GSMs, keepers or neither.
Lines(token, member) ==
    CASE token = "LUSD" -> {"Tellor_fallback"}
      [] token = "GHO" -> IF member = "M1" THEN {} ELSE {"H2_freezer"}
      [] token = "crvUSD" -> (IF member \in {"M1", "JOINT"} THEN {"H1_kill", "EMA_lag"} ELSE {})
                             \cup IF member = "M1" THEN {} ELSE {"H1_v1_contagion"}

Asked(b, member) ==
    IF b.token = "GHO" /\ b.gsms # <<>> THEN {"H2_freezer" : m \in {member} \ {"M1"}}
    ELSE IF b.token = "crvUSD" /\ b.keepers > 0
    THEN CASE member = "M1" -> {"H1_kill", "EMA_lag"}
           [] member = "JOINT" -> {"H1_kill", "EMA_lag", "H1_v1_contagion"}
           [] OTHER -> {"H1_v1_contagion"}
    ELSE {"Tellor_fallback"}

Det44 == \A id \in DOMAIN cells : Asked(book, id.member) \subseteq Lines(book.token, id.member)

Det48 == {id.shock : id \in {c \in DOMAIN cells : c.member = "M1"}} = Shocks

\* DET-49: no node with the LST flag backs anything, no LST axis.
LstBacking(b) ==
    CASE b.token = "crvUSD" -> \E p \in ToSet(b.positions) : p.market \in LstNodes /\ p.collateral > 0
      [] b.token = "GHO" -> \E p \in ToSet(b.positions) :
                                \E a \in DOMAIN p.collateral \cap LstNodes : p.collateral[a] > 0
      [] OTHER -> FALSE

Det49 ==
    {id.lst : id \in {c \in DOMAIN cells : c.member = "M1"}} =
        IF LstBacking(book) THEN {0, 5, 10} ELSE {0}

Det51 ==
    book.token = "LUSD" =>
        /\ book.pool > 0
        /\ \A id \in DOMAIN cells \ Member1(book) :
              (cells[id].redeemable = 0) <=> Lower(cells[id].tcr, <<MCR, One>>)

\* run_stress_checks: a check that returns, whatever it returns, passes; one that
\* raises fails.  det_46 returns its trigger, which is not looked at.
Verdict(holds) == IF holds THEN "pass" ELSE "fail"

Verdicts == [DET40 |-> Verdict(Det40), DET41 |-> Verdict(Det41), DET42 |-> Verdict(Det42),
             DET43 |-> Verdict(Det43), DET44 |-> Verdict(Det44), DET46 |-> Verdict(TRUE),
             DET48 |-> Verdict(Det48), DET49 |-> Verdict(Det49), DET51 |-> Verdict(Det51)]
-------------------------------------------------------------------------------
CellsInit ==
    /\ book \in Books /\ depth \in Curves
    /\ reverted \in {{}} \cup {{call} : call \in Required(book) \cup Optional(book)}
    /\ stale = FALSE /\ cells = <<>> /\ checks = <<>>
    /\ outcome = "read"

\* A revert stops the run, and so does a book the builder cannot read: LUSD's asks
\* a position for its owner.  Then Member 1, cell by cell: a book of troves stops
\* at the first cell whose redistribution does not conserve debt and collateral.
FoldCrash ==
    /\ outcome = "read"
    /\ LET path == [id \in Member1(book) |-> Crash(Base, id.shock, id.lst, id.lp)]
           made == [id \in Member1(book) |-> CrashCell(Base, path[id], id.lp)]
       IN  IF \/ reverted \cap Required(book) # {}
              \/ Builder(book) # book.token
              \/ book.token = "LUSD" /\ \E id \in Member1(book) : ~path[id].conserved
           THEN outcome' = "stopped" /\ cells' = cells
           ELSE outcome' = "crash" /\ cells' = made
    /\ UNCHANGED <<book, depth, reverted, stale, checks>>

FoldDepeg ==
    /\ outcome = "crash"
    /\ LET sold == Member2Numerator(Base)
           tcr == IF book.token = "LUSD" THEN TrovePath(book.troves, One, book.pool).tcr
                  ELSE Unset
       IN  cells' = cells @@ [id \in Member2 \cup {Compound} |->
                                DepegCell(Base, tcr, sold, id.lp, id.target)]
    /\ outcome' = "depeg"
    /\ UNCHANGED <<book, depth, reverted, stale, checks>>

FoldJoint ==
    /\ outcome = "depeg"
    /\ cells' = cells @@ (Joint :> JointCell(Base, JointCrash(Base), Member2Numerator(Base)))
    /\ outcome' = "joint"
    /\ UNCHANGED <<book, depth, reverted, stale, checks>>

\* R-B11.8: Member 1 leaves next to nothing.  GHO has no ruled reason to say so.
StructuralZero == \A id \in Member1(book) : cells[id].bad < ZeroBound

FoldReport ==
    /\ outcome = "joint"
    /\ outcome' = IF StructuralZero /\ book.token = "GHO" THEN "stopped" ELSE "folded"
    /\ UNCHANGED <<book, depth, reverted, stale, cells, checks>>

\* Promotion needs every check and a sheet that has not moved.
Emit ==
    /\ outcome = "folded"
    /\ checks' = Verdicts
    /\ stale' \in BOOLEAN
    /\ outcome' = IF ~stale' /\ \A e \in DOMAIN Verdicts : Verdicts[e] = "pass"
                  THEN "promoted" ELSE "rehearsal"
    /\ UNCHANGED <<book, depth, reverted, cells>>

CellsNext == FoldCrash \/ FoldDepeg \/ FoldJoint \/ FoldReport \/ Emit

CellsSpec == CellsInit /\ [][CellsNext]_cellsvars
-------------------------------------------------------------------------------
(***************************************************************************)
(* Properties.                                                             *)
(***************************************************************************)

\* What the deepest crash leaves without a survivor, the fees that close a GSM at
\* 2% and a redemption fee already at its ceiling.
NoSurvivor ==
    /\ book.token = "LUSD"
    /\ \A i \in DOMAIN book.troves : Lower(Icr(book.troves[i], 30), <<MCR, One>>)
DearGsm ==
    /\ book.token = "GHO"
    /\ \E g \in DOMAIN book.gsms :
          book.gsms[g].enters /\ book.gsms[g].fee >= 2 /\ book.gsms[g].balance > 0
NothingRedeemable ==
    /\ book.token = "LUSD" /\ book.redeemable = 0
    /\ \E id \in Member2 \cup {Compound, Joint} : ~Lower(cells[id].tcr, <<MCR, One>>)

\* The deepest crash, worked over the answers there were, costs GHO nothing.
NothingLost == book.token = "GHO" /\ Crash(Base, 70, 10, 60).bad < ZeroBound

\* R-29 asks that bad debt rises along every axis and the ratio along the LP axis,
\* though positions are absorbed whole, in an order, from a pool the LP axis
\* shrinks.  Over books whose amounts the floors do not swamp, the cells pass: a
\* run fails to promote only over a moved sheet, an empty Stability Pool or a GSM
\* that cells and curve count differently, a redemption ceiling that is reached, or
\* an LST axis over a book that holds none; it stops only for a call that reverts, a bundle whose builder
\* is gone, and where the deepest crash leaves no trove at its ratio or no loss.
OutcomeHasCause ==
    /\ outcome = "stopped" =>
          \/ NoSurvivor \/ NothingLost
          \/ reverted \cap Required(book) # {}
          \/ Builder(book) # book.token
    /\ outcome = "rehearsal" =>
          \/ stale \/ DearGsm \/ NothingRedeemable
          \/ book.token = "LUSD" /\ book.pool = 0
          \/ book.token # "LUSD" /\ ~LstBacking(book)

\* A failed price or decimals takes a reserve out of every GHO position, a failed
\* getUserEMode lowers a threshold, and no check of the report looks at any of
\* them (aave.py:100, gho_cells.py:196-209).  The loss of a crash cell is never
\* smaller for it: it is at least what the whole book would have lost, though the
\* failed read also changes who is liquidated and in which order (crash_path).
LossNotHidden ==
    book.token = "GHO" /\ outcome = "crash" =>
        \A id \in Member1(book) :
            cells[id].bad >= Crash(AsRead(book, {}), id.shock, id.lst, id.lp).bad
===============================================================================
