-------------------------------- MODULE MCCells --------------------------------
(* Small books of the three tokens, prices in hundredths. *)
EXTENDS Cells

\* Three bands from 90 down to 30; the shocked prices fall in and between them.
ThreeEdges == <<90, 70, 50, 30>>

Position(m, c, g, x, b) ==
    [market |-> m, collateral |-> c, gross |-> g, x_pos |-> x, n1 |-> b[1], n2 |-> b[2]]

OfMarket(m) == {Position(m, 200, g, x, b) : g \in {80, 110, 150}, x \in {0, 40},
                                            b \in {<<1, 1>>, <<1, 3>>, <<2, 3>>}}

CrvUsdBook(p, q, y, u, k) ==
    [token |-> "crvUSD", positions |-> <<p, q>>, y |-> y, keepers |-> k,
     sell |-> [eth |-> u, wsteth |-> u]]

\* Two markets; one of them only, which holds no LST; and no keeper left.
CrvUsdBooks ==
    {CrvUsdBook(p, q, y, u, 1) : p \in OfMarket("eth"),
                                 q \in {o \in OfMarket("wsteth") : o.x_pos = 0},
                                 y \in {<<1, 1, 1>>, <<0, 1, 2>>}, u \in {Unset, 200}}
    \cup {CrvUsdBook(p, p, <<1, 1, 1>>, 200, k) : p \in OfMarket("eth"), k \in {0, 1}}

Trove(d, c) == [debt |-> d, coll |-> c]
Troves == {Trove(4, 5), Trove(6, 5), Trove(6, 11), Trove(10, 11), Trove(10, 40)}

LusdBooks ==
    {[token |-> "LUSD", troves |-> <<t1, t2, t3>>, pool |-> sp, redeemable |-> r] :
        t1 \in Troves, t2 \in Troves, t3 \in Troves, sp \in {0, 10, 16}, r \in {0, 5}}

GhoPositions ==
    {[collateral |-> [eth |-> e, wsteth |-> w, usdt |-> u, tail |-> 5],
      gho |-> g, debt |-> 60, emode |-> em] :
        e \in {0, 80}, w \in {0, 90}, u \in {0, 50}, g \in {20, 60}, em \in BOOLEAN}

Gsms == [balance : {30}, enters : BOOLEAN, fee : {1, 2}, automated : {TRUE}, lower : {85, 88}]

GhoBook(p, q, gsms) ==
    [token |-> "GHO", positions |-> <<p, q>>, gsms |-> gsms, sell |-> [eth |-> 100, wsteth |-> Unset]]

Sound(x) == x.collateral.eth = 80 /\ x.collateral.wsteth = 90 /\ x.collateral.usdt = 50 /\ x.gho = 60
Whole(x) == x.collateral.eth = 80 /\ x.gho = 60 /\ ~x.emode /\ x.collateral.usdt = 0

GhoBooks ==
    {GhoBook(p, q, <<g>>) : p \in GhoPositions, q \in {x \in GhoPositions : Whole(x)},
                            g \in {o \in Gsms : o.enters /\ (o.fee = 1) = (o.lower = 88)}}
    \cup {GhoBook(p, p, <<g>>) : p \in {x \in GhoPositions : Whole(x)}, g \in Gsms}
    \cup {GhoBook(p, p, <<>>) : p \in {x \in GhoPositions : Whole(x)}}
    \cup {GhoBook(p, p, <<g>>) : p \in {x \in GhoPositions : Sound(x)}, g \in Gsms}

AllBooks == CrvUsdBooks \cup LusdBooks \cup GhoBooks

ByFlight(a, b, c) == [lp \in Lps |-> CASE lp = 0 -> a [] lp = 30 -> b [] lp = 60 -> c]

Curve(par) ==
    [par |-> par, shocked |-> [t \in Targets |-> [lp \in Lps |-> (par[lp] * t) \div 100]]]

Emptied == Curve(ByFlight(30, 20, 0))
Kept == Curve(ByFlight(20, 10, 10))

SomeDepths == {[p1 |-> Emptied, p2 |-> Emptied], [p1 |-> Emptied, p2 |-> Kept]}
================================================================================
