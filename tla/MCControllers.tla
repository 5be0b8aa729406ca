----------------------------- MODULE MCControllers -----------------------------
(* A small crvUSD: a controller with loans, one the factory may add, two       *)
(* keepers and a flash lender; and every oracle graph over three oracles.      *)
EXTENDS Controllers

TwoMarkets == <<"m1", "m2">>
Grants == [m1 |-> 6, m2 |-> 3, k1 |-> 2, k2 |-> 2, flash |-> 2]
Collaterals == [m1 |-> "btc", m2 |-> "new"]
Worths == [m1 |-> 30, m2 |-> 1]
Labels == [btc |-> "recurses", new |-> Absent]
Disclosures == [btc |-> "feed"]
Oracles == [m1 |-> "o1", m2 |-> "o2"]

Errors == {-1, 4}

EmaWindows == [o1 |-> Absent, o2 |-> Absent, o3 |-> Absent, p1 |-> 600, p2 |-> 866]
Straight == [o1 |-> <<"p1">>, o2 |-> <<"o3">>, o3 |-> <<"p2">>, p1 |-> <<>>, p2 |-> <<>>]
Lists(o) == {<<>>} \cup {<<x>> : x \in DOMAIN EmaWindows \ {o}}
            \cup {q \in {<<x, y>> : x, y \in DOMAIN EmaWindows \ {o}} : q[1] # q[2]}
Graphs == {[o1 |-> x, o2 |-> y, o3 |-> z, p1 |-> <<>>, p2 |-> <<>>] :
              x \in Lists("o1"), y \in Lists("o2"), z \in Lists("o3")}

\* Of the moves and the slips, two of one kind and one of the other.
\* The chain moves over one graph; over every other one a single run is made.
MCInit ==
    /\ world = Genesis /\ pending = Absent /\ promoted = <<>>
    /\ trees = <<>> /\ stresses = <<>>
    /\ \/ feeds = Straight /\ moves \in 0 .. 1 /\ slips = 1 - moves /\ assemblies = 0
       \/ feeds \in Feeds \ {Straight} /\ moves = MaxMoves /\ slips = MaxSlips
          /\ assemblies = MaxAssemblies - 1
MCSpec == MCInit /\ [][FactoryNext]_factory
===============================================================================
