------------------------------ MODULE MCAssembly ------------------------------
(* A small GHO: two instances, four reserves, two GSMs.                       *)
EXTENDS Assembly

AsListed == [core |-> 1, lido |-> 2]
ByAddress == [core |-> 2, lido |-> 1]
Probes == [coreMinter |-> {"POOL()"}, lidoMinter |-> {"POOL()"},
           flash |-> {"maxFlashLoan(address)"}, remote |-> {}]
Analysts == [coreMinter |-> "unresolved", lidoMinter |-> "unresolved",
             flash |-> "unresolved", remote |-> "off_mainnet"]
PoolsOf == [coreMinter |-> "core", lidoMinter |-> "lido", flash |-> None, remote |-> None]

\* Bob owes Lido less than DET-82 tells apart, one part in 50.
Debts == [core |-> [ann |-> 40, bob |-> 20], lido |-> [ann |-> 60, bob |-> 1]]
Others == [core |-> [ann |-> 40, bob |-> 0], lido |-> [ann |-> 0, bob |-> 1]]
Hold(w, u, t, d) == [weth |-> w, usdc |-> u, tbtc |-> t, dust |-> d]
Posts == [core |-> [ann |-> Hold(400, 60, 0, 0), bob |-> Hold(100, 0, 150, 60)],
          lido |-> [ann |-> Hold(300, 0, 0, 0), bob |-> Hold(100, 10, 0, 0)]]

\* The Ethereum log of one instance: everybody's debt was minted and borrowed; in
\* the second history core's second window would start in the middle of block 7.
Row(b, who) == [block |-> b, borrower |-> who]
Quiet == [mint |-> <<Row(4, "ann"), Row(9, "bob")>>, borrow |-> <<Row(4, "ann"), Row(9, "bob")>>]
Crowded == [mint |-> <<Row(4, "ann"), Row(7, "ann"), Row(7, "bob")>>,
            borrow |-> <<Row(4, "ann"), Row(7, "ann"), Row(7, "bob"), Row(9, "ann")>>]
TwoHistories == {[core |-> Quiet, lido |-> Quiet], [core |-> Crowded, lido |-> Quiet]}

Prices == [weth |-> 1, usdc |-> 1, usdt |-> 1, tbtc |-> 1, dust |-> 1]
Units == [weth |-> 10, usdc |-> 1, usdt |-> 1, tbtc |-> 10, dust |-> 10]
Labels == [weth |-> "terminal", usdc |-> "recurses", tbtc |-> None, dust |-> "unlisted"]

Wrappers == [gsmUsdc |-> "waUsdc", gsmUsdt |-> "waUsdt"]
Underlyings == [gsmUsdc |-> "usdc", gsmUsdt |-> "usdt"]
Boxed == [gsmUsdc |-> 30, gsmUsdt |-> 20]
\* The executor holds the role on both and answers no GSM().
Roles == [swap1 |-> {"gsmUsdc"}, swap2 |-> {"gsmUsdt"}, executor |-> {"gsmUsdc", "gsmUsdt"}]
PointsAt == [swap1 |-> "gsmUsdc", swap2 |-> "gsmUsdt", executor |-> "none"]
===============================================================================
