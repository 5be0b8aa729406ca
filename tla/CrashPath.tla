------------------------------- MODULE CrashPath -------------------------------
(***************************************************************************)
(* The liquidation pass of one stress cell, for the three books: positions *)
(* in LLAMMA bands (factory/liquidation.py), Liquity troves with a         *)
(* Stability Pool (factory/lusd_cells.py) and Aave positions               *)
(* (factory/aave.py, factory/gho_cells.py).  Prices, ratios and factors    *)
(* are whole numbers of 1/One; every floor of the code is a \div here.     *)
(***************************************************************************)
EXTENDS Integers, Sequences, SequencesExt, Totals

CONSTANTS One,        \* 1.00: a price at par, a full share, a ratio of 100%
          Edges,      \* p_oracle_up of the bands: band n is Edges[n + 1] .. Edges[n]
          Discount,   \* liquidation_discount
          MCR         \* Liquity's minimum collateral ratio

ASSUME CrashPathAssumption ==
    /\ One \in Nat \ {0} /\ Discount \in 0 .. One /\ MCR \in Nat /\ MCR > One
    /\ \A n \in 1 .. Len(Edges) - 1 : Edges[n + 1] < Edges[n]

\* One row per position, in the order of the book.
Rows(positions, row(_)) == FoldLeft(LAMBDA rs, p : Append(rs, row(p)), <<>>, positions)

\* A ratio is the pair of its terms; over nothing it is 0.
Over(n, d) == IF d = 0 THEN <<0, 1>> ELSE <<n, d>>

Lower(p, q) == p[1] * q[2] < q[1] * p[2]

\* Mutant: the best positions are absorbed first.
After(rows, i, j) == Lower(rows[j].cr, rows[i].cr) \/ (~Lower(rows[i].cr, rows[j].cr) /\ i < j)

\* R12: the lowest ratio first, ties as they come.
Before(rows, i, j) == Lower(rows[i].cr, rows[j].cr) \/ (~Lower(rows[j].cr, rows[i].cr) /\ i < j)

\* The numbers of the rows in that order: k - 1 rows come before the k-th.
Ascending(rows) ==
    [k \in DOMAIN rows |->
        CHOOSE i \in DOMAIN rows : Cardinality({j \in DOMAIN rows : Before(rows, j, i)}) = k - 1]
-------------------------------------------------------------------------------
(***************************************************************************)
(* crvUSD: a position is [market, collateral, gross, x_pos, n1, n2] and y  *)
(* is the collateral recorded in each band.                                *)
(***************************************************************************)

\* DET-06: the crvUSD a position holds in the AMM is netted against its debt.
NetDebt(p) == Max({p.gross - p.x_pos, 0})

\* The collateral over the bands in proportion to y; the remainder is the last's.
Allocated(p, y) ==
    LET bands == p.n1 .. p.n2
        total == MapThenSumSet(LAMBDA n : y[n], bands)
        share(n) == (p.collateral * y[n]) \div total
    IN  [n \in bands |->
            CASE total = 0 -> 0
              [] total # 0 /\ n < p.n2 -> share(n)
              [] OTHER -> p.collateral - MapThenSumSet(share, bands \ {n})]

\* What collateral c of band n has become at the shocked price, marked there.
Converted(n, price) ==
    LET lo == Edges[n + 1]  hi == Edges[n]
    IN  [c \in Nat |->
            CASE price >= hi -> [crvusd |-> 0, left |-> c]
              [] price <= lo -> [crvusd |-> (c * ((lo + hi) \div 2)) \div One, left |-> 0]
              [] OTHER -> LET part == (c * (hi - price)) \div (hi - lo)
                          IN  [crvusd |-> (part * ((price + hi) \div 2)) \div One,
                               left |-> c - part]]

\* convert_position over the bands, then what is left at the shocked price and
\* the position's own crvUSD leg.
PositionValue(p, y, price) ==
    LET over == FoldLeft(LAMBDA sum, c : [crvusd |-> sum.crvusd + c.crvusd,
                                          left |-> sum.left + c.left],
                         [crvusd |-> 0, left |-> 0],
                         [k \in 1 .. p.n2 - p.n1 + 1 |->
                             Converted(p.n1 + k - 1, price)[Allocated(p, y)[p.n1 + k - 1]]])
        marked == [t \in [crvusd : Nat, left : Nat] |->
                      t.crvusd + (t.left * price) \div One + p.x_pos]
    IN  marked[over]

IsEligible(value, debt) == (value * (One - Discount)) \div One < debt

BandRow(p, y, price) ==
    LET row == [v \in Nat |->
                   [market |-> p.market, value |-> v, debt |-> NetDebt(p),
                    cr |-> Over(v, NetDebt(p)), eligible |-> IsEligible(v, NetDebt(p))]]
    IN  row[PositionValue(p, y, price[p.market])]

\* run_cell: each market's sell-side capacity takes whole positions; the debt a
\* position's value does not cover is bad debt, absorbed or not.
BandPath(positions, y, price, capacity) ==
    LET rows == Rows(positions, LAMBDA p : BandRow(p, y, price))
        absorb(s, i) ==
            LET r == rows[i]
                bad == s.bad + Max({r.debt - r.value, 0})
            IN  IF ~r.eligible THEN s
                ELSE IF s.left[r.market] >= r.value
                THEN [left |-> [s.left EXCEPT ![r.market] = @ - r.value], bad |-> bad,
                      absorbed |-> s.absorbed \cup {i}]
                ELSE [s EXCEPT !.bad = bad]
    IN  FoldLeft(absorb, [left |-> capacity, bad |-> 0, absorbed |-> {}], Ascending(rows))
-------------------------------------------------------------------------------
(***************************************************************************)
(* LUSD: a trove is [debt, coll].                                          *)
(***************************************************************************)
Icr(t, price) == Over(t.coll * price, t.debt * One)

\* Pro rata by collateral, floored; the remainder to the largest survivor.
Redistributed(troves, gone, kept) ==
    LET basis == MapThenSumSet(LAMBDA i : troves[i].coll, kept)
        largest == Min({i \in kept : \A j \in kept : troves[j].coll <= troves[i].coll})
        handed(total, i) ==
            LET share(j) == (total * troves[j].coll) \div basis
            IN  share(i) + IF i = largest THEN total - MapThenSumSet(share, kept) ELSE 0
        debt == MapThenSumSet(LAMBDA i : troves[i].debt, gone)
        coll == MapThenSumSet(LAMBDA i : troves[i].coll, gone)
    IN  [i \in kept |-> [debt |-> troves[i].debt + handed(debt, i),
                         coll |-> troves[i].coll + handed(coll, i)]]

\* The Stability Pool takes a trove whole or not at all; what it does not take is
\* redistributed, and is bad debt as far as its collateral does not cover it.
TrovePath(troves, price, pool) ==
    LET rows == Rows(troves, LAMBDA t : [cr |-> Icr(t, price)])
        eligible == {i \in DOMAIN troves : Lower(rows[i].cr, <<MCR, One>>)}
        kept == DOMAIN troves \ eligible
        offset(s, i) == IF i \in eligible /\ s.left >= troves[i].debt
                        THEN [left |-> s.left - troves[i].debt, taken |-> s.taken \cup {i}]
                        ELSE s
        run == FoldLeft(offset, [left |-> pool, taken |-> {}], Ascending(rows))
        gone == eligible \ run.taken
        after == Redistributed(troves, gone, kept)
        uncovered(i) == Max({troves[i].debt * One - troves[i].coll * price, 0}) \div One
        debtOf(S) == MapThenSumSet(LAMBDA i : troves[i].debt, S)
        collOf(S) == MapThenSumSet(LAMBDA i : troves[i].coll, S)
        postDebt == MapThenSumSet(LAMBDA i : after[i].debt, kept)
        postColl == MapThenSumSet(LAMBDA i : after[i].coll, kept)
    IN  [bad |-> MapThenSumSet(uncovered, gone),
         tcr |-> Over(postColl * price, postDebt * One),
         conserved |-> /\ postDebt = debtOf(kept) + debtOf(gone)
                       /\ postColl = collOf(kept) + collOf(gone)]
-------------------------------------------------------------------------------
(***************************************************************************)
(* GHO: a position is [collateral, gho, debt, threshold]: amounts by their *)
(* base value, the GHO part of its debt, and the liquidation threshold of  *)
(* its reserves (its eMode category's where it has one).                   *)
(***************************************************************************)
AssetValue(p, factor, a) == (p.collateral[a] * factor[a]) \div One

AssetValues(p, factor) == [a \in DOMAIN p.collateral |-> AssetValue(p, factor, a)]

Weighted(p, factor) ==
    [a \in DOMAIN p.collateral |-> (AssetValue(p, factor, a) * p.threshold) \div One]

Health(p, factor) ==
    LET assets == DOMAIN p.collateral
    IN  [value |-> Total(AssetValues(p, factor), assets),
         cr |-> Over(Total(Weighted(p, factor), assets), p.debt)]

\* Memo 11.1: a position's figure is GHO's by its share of the debt.
GhoPart(p, figure) == IF p.debt = 0 THEN 0 ELSE (figure * p.gho) \div p.debt

Short(p, row) == IF p.debt > row.value THEN p.debt - row.value ELSE 0

\* A position below 1 is bad debt for what it does not cover, absorbed or not.
Liquidate(positions, rows, s, i) ==
    IF ~Lower(rows[i].cr, <<1, 1>>) THEN s
    ELSE [left |-> IF s.left >= rows[i].value THEN s.left - rows[i].value ELSE s.left,
          bad |-> s.bad + GhoPart(positions[i], Short(positions[i], rows[i]))]

HealthPath(positions, factor, capacity) ==
    LET rows == [i \in DOMAIN positions |-> Health(positions[i], factor)]
    IN  FoldLeft(LAMBDA s, i : Liquidate(positions, rows, s, i),
                 [left |-> capacity, bad |-> 0], Ascending(rows))
===============================================================================
