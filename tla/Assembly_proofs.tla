---------------------------- MODULE Assembly_proofs ----------------------------
(***************************************************************************)
(* Theorems about the two assemblies.                                      *)
(*                                                                         *)
(* First what a failed read leaves of a GHO bundle, for every chain, every *)
(* set of failing calls and any number of runs.  A row that was read is    *)
(* held against the row all of whose reads answer (TrueOf); the sums       *)
(* follow from a map of the rows, and of the nodes, that were read into    *)
(* the true ones (TotalInjection).  Then what a crvUSD bundle counts, the  *)
(* room its keepers have, over a chain that moves between the runs, and    *)
(* the oracle window its walk finds, over any graph of oracles.            *)
(***************************************************************************)
EXTENDS Assembly, Controllers, Totals_proofs, TLAPS

\* What the reads leave of a position: the debt is right, a debt base is right or zero, a reserve
\* is right or missing.
Read(x) ==
    LET p == x.instance
        b == x.borrower
    IN  /\ p \in Instances /\ b \in Borrowers /\ Debt[p][b] > 0
        /\ x.gross_debt = Debt[p][b]
        /\ x.gho_debt_base \in {0, Debt[p][b]}
        /\ x.total_debt_base \in {0, Debt[p][b] + Other[p][b]}
        /\ DOMAIN x.collateral \subseteq {r \in Reserves : Collateral[p][b][r] > 0}
        /\ \A r \in DOMAIN x.collateral : x.collateral[r] = Collateral[p][b][r]

TrueOf(x) == Position(x.instance, x.borrower, {})

RowsOK(rows) ==
    /\ IsFiniteSet(rows)
    /\ \A x \in rows : Read(x)
    /\ \A x, y \in rows : x.instance = y.instance /\ x.borrower = y.borrower => x = y

\* The same asset, as collateral or boxed by the same GSM.
Same(n, m) == n.address = m.address /\ n.gsm = m.gsm

NodesOK(nodes) ==
    /\ IsFiniteSet(nodes)
    /\ \A n, m \in nodes : Same(n, m) => n = m
    /\ \A n \in nodes : n.value \in Nat /\ \E m \in TrueNodes : Same(n, m) /\ n.value <= m.value
    /\ \A g \in Gsms : \E n \in nodes :
          /\ n.gsm = g /\ n.address = Wrapper[g]
          /\ n.priced => \E m \in TrueNodes : Same(n, m) /\ n.value = m.value

-------------------------------------------------------------------------------
LEMMA ImageFinite ==
    ASSUME NEW S, IsFiniteSet(S), NEW f
    PROVE  IsFiniteSet({f[x] : x \in S})
  <1> DEFINE g == [x \in S |-> f[x]]
  <1>1. g \in Surjection(S, {f[x] : x \in S})
    BY DEF Surjection
  <1> QED BY <1>1, FS_Surjection

LEMMA MinOfTwo ==
    ASSUME NEW a \in Nat, NEW b \in Nat
    PROVE  Min({a, b}) \in Nat
  BY DEF Min

LEMMA ShareIsNat ==
    ASSUME NEW c \in Nat, NEW m \in Nat, NEW t \in Nat, t > 0
    PROVE  (c * m) \div t \in Nat
  <1>1. c * m \in Nat
    OBVIOUS
  <1> QED BY <1>1

\* A larger amount at a higher price in a smaller unit is worth no less.
LEMMA ValueBelow ==
    ASSUME NEW a \in Nat, NEW b \in Nat, a <= b, NEW p \in Nat, NEW q \in Nat, p <= q,
           NEW u \in Nat, NEW v \in Nat, 0 < u, u <= v
    PROVE  /\ (a * p) \div v \in Nat /\ (b * q) \div u \in Nat
           /\ (a * p) \div v <= (b * q) \div u
  <1> DEFINE x == a * p
             y == b * q
  <1>1. x \in Nat /\ y \in Nat /\ x <= y
    <2>1. a * p <= b * p
      OBVIOUS
    <2>2. b * p <= b * q
      OBVIOUS
    <2>3. a * p \in Nat /\ b * p \in Nat /\ b * q \in Nat
      OBVIOUS
    <2> QED BY <2>1, <2>2, <2>3
  <1> HIDE DEF x, y
  <1> DEFINE k == x \div v
             l == y \div u
  <1>2. k \in Nat /\ l \in Nat /\ v * k <= x /\ y < u * l + u
    BY <1>1
  <1> HIDE DEF k, l
  <1>3. k <= l
    <2> SUFFICES ASSUME l + 1 <= k PROVE FALSE
      BY <1>2
    <2>1. u * (l + 1) <= u * k
      BY <1>2
    <2>2. u * k <= v * k
      BY <1>2
    <2>3. u * (l + 1) = u * l + u
      BY <1>2
    <2>4. u * l \in Nat /\ u * k \in Nat /\ v * k \in Nat
      BY <1>2
    <2> QED BY <1>1, <1>2, <2>1, <2>2, <2>3, <2>4
  <1> QED BY <1>2, <1>3 DEF k, l, x, y

\* What a position credits is what it truly credits, or nothing.
LEMMA CreditBelow ==
    ASSUME NEW x, Read(x), NEW r \in DOMAIN x.collateral
    PROVE  /\ r \in DOMAIN TrueOf(x).collateral
           /\ Credit(x, r) \in Nat /\ Credit(TrueOf(x), r) \in Nat
           /\ Credit(x, r) <= Credit(TrueOf(x), r)
  <1> DEFINE p == x.instance
             b == x.borrower
             t == TrueOf(x)
             d == Debt[p][b]
             e == Debt[p][b] + Other[p][b]
             c == Collateral[p][b][r]
  <1>1. p \in Instances /\ b \in Borrowers /\ r \in Reserves /\ c > 0 /\ d > 0
    BY DEF Read
  <1>2. d \in Nat /\ e \in Nat /\ c \in Nat /\ e > 0
    BY <1>1, AmountsAssumption
  <1>3. /\ r \in DOMAIN t.collateral /\ t.collateral[r] = c
        /\ t.gho_debt_base = d /\ t.total_debt_base = e
    BY <1>1 DEF TrueOf, Position, Posted
  <1>4. /\ x.gho_debt_base \in {0, d} /\ x.total_debt_base \in {0, e}
        /\ x.collateral[r] = c
    BY DEF Read
  <1> HIDE DEF d, e, c, t
  <1>5. (c * Min({d, e})) \div e \in Nat
    BY <1>2, MinOfTwo, ShareIsNat
  <1>6. Credit(t, r) = (c * Min({d, e})) \div e
    BY <1>1, <1>2, <1>3 DEF Credit, d
  <1>7. Credit(x, r) = 0 \/ Credit(x, r) = (c * Min({d, e})) \div e
    BY <1>4 DEF Credit
  <1> QED BY <1>3, <1>5, <1>6, <1>7 DEF t

\* The rows of one instance, from the borrowers in `owing`, whatever fails.
LEMMA RowsFinite ==
    ASSUME NEW p, NEW owing, IsFiniteSet(owing), NEW F
    PROVE  IsFiniteSet({Position(p, b, F) : b \in owing})
  <1> DEFINE row == [b \in owing |-> Position(p, b, F)]
  <1>1. IsFiniteSet({row[b] : b \in owing})
    BY ImageFinite
  <1>2. {row[b] : b \in owing} = {Position(p, b, F) : b \in owing}
    OBVIOUS
  <1> QED BY <1>1, <1>2

LEMMA PositionRead ==
    ASSUME NEW p \in Instances, NEW b \in Borrowers, Debt[p][b] > 0, NEW F
    PROVE  /\ Read(Position(p, b, F))
           /\ Position(p, b, F).instance = p /\ Position(p, b, F).borrower = b
  BY DEF Read, Position, Posted

LEMMA TrueRowsOK == RowsOK(TrueRows)
  <1> DEFINE owing(p) == {c \in Borrowers : Debt[p][c] > 0}
             rows(p) == {Position(p, b, {}) : b \in owing(p)}
             per == [p \in Instances |-> rows(p)]
  <1>1. \A p \in Instances : IsFiniteSet(rows(p))
    <2> SUFFICES ASSUME NEW p \in Instances PROVE IsFiniteSet(rows(p))
      OBVIOUS
    <2>1. IsFiniteSet(owing(p))
      BY SetsAssumption, FS_Subset
    <2> QED BY <2>1, RowsFinite
  <1>2. TrueRows = UNION {per[p] : p \in Instances}
    BY DEF TrueRows
  <1>3. IsFiniteSet({per[p] : p \in Instances})
    BY SetsAssumption, ImageFinite
  <1>4. \A T \in {per[p] : p \in Instances} : IsFiniteSet(T)
    BY <1>1
  <1>5. IsFiniteSet(TrueRows)
    <2> HIDE DEF per
    <2> QED BY <1>2, <1>3, <1>4, FS_UNION
  <1>6. \A x \in TrueRows : \E p \in Instances, b \in Borrowers :
            Debt[p][b] > 0 /\ x = Position(p, b, {})
    BY DEF TrueRows
  <1>7. \A x \in TrueRows : Read(x) /\ x = TrueOf(x)
    <2> SUFFICES ASSUME NEW x \in TrueRows PROVE Read(x) /\ x = TrueOf(x)
      OBVIOUS
    <2>1. PICK p \in Instances, b \in Borrowers : Debt[p][b] > 0 /\ x = Position(p, b, {})
      BY <1>6
    <2> QED BY <2>1, PositionRead DEF TrueOf
  <1>8. \A x, y \in TrueRows : x.instance = y.instance /\ x.borrower = y.borrower => x = y
    BY <1>7 DEF TrueOf
  <1> QED BY <1>5, <1>7, <1>8 DEF RowsOK

LEMMA TrueOfIn ==
    ASSUME NEW x, Read(x)
    PROVE  TrueOf(x) \in TrueRows
  BY DEF Read, TrueOf, TrueRows

LEMMA CreditTrue ==
    ASSUME NEW rows, RowsOK(rows), NEW r
    PROVE  /\ IsFiniteSet(Backers(rows, r))
           /\ \A x \in Backers(rows, r) : Read(x) /\ r \in DOMAIN x.collateral /\ Credit(x, r) \in Nat
  <1>1. IsFiniteSet(Backers(rows, r))
    BY FS_Subset DEF RowsOK, Backers
  <1>2. \A x \in Backers(rows, r) : Read(x) /\ r \in DOMAIN x.collateral
    BY DEF RowsOK, Backers
  <1> QED BY <1>1, <1>2, CreditBelow

\* No reserve weighs more than it does.
LEMMA WeightBelow ==
    ASSUME NEW rows, RowsOK(rows), NEW r
    PROVE  /\ Weight(rows, r) \in Nat /\ Weight(TrueRows, r) \in Nat
           /\ Weight(rows, r) <= Weight(TrueRows, r)
  <1> DEFINE S == Backers(rows, r)
             V == Backers(TrueRows, r)
             f == [x \in S |-> Credit(x, r)]
             g == [x \in V |-> Credit(x, r)]
             m == [x \in S |-> TrueOf(x)]
  <1>1. /\ IsFiniteSet(S) /\ \A x \in S : Read(x) /\ r \in DOMAIN x.collateral /\ Credit(x, r) \in Nat
        /\ IsFiniteSet(V) /\ \A x \in V : Credit(x, r) \in Nat
    BY CreditTrue, TrueRowsOK
  <1>2. m \in [S -> V]
    <2> SUFFICES ASSUME NEW x \in S PROVE TrueOf(x) \in V
      OBVIOUS
    <2>1. Read(x) /\ r \in DOMAIN x.collateral
      BY <1>1
    <2>2. TrueOf(x) \in TrueRows /\ r \in DOMAIN TrueOf(x).collateral
      BY <2>1, TrueOfIn, CreditBelow
    <2> QED BY <2>2 DEF Backers
  <1>3. \A x, y \in S : m[x] = m[y] => x = y
    <2> SUFFICES ASSUME NEW x \in S, NEW y \in S, TrueOf(x) = TrueOf(y) PROVE x = y
      OBVIOUS
    <2>1. x.instance = y.instance /\ x.borrower = y.borrower
      BY DEF TrueOf, Position
    <2>2. x \in rows /\ y \in rows
      BY DEF Backers
    <2> QED BY <2>1, <2>2 DEF RowsOK
  <1>4. /\ \A x \in S : f[x] \in Nat
        /\ \A x \in V : g[x] \in Nat
    BY <1>1
  <1>5. \A x \in S : f[x] <= g[m[x]]
    <2> SUFFICES ASSUME NEW x \in S PROVE Credit(x, r) <= g[m[x]]
      OBVIOUS
    <2>1. m[x] = TrueOf(x) /\ m[x] \in V
      BY <1>2
    <2>2. g[m[x]] = Credit(TrueOf(x), r)
      BY <2>1
    <2>3. Credit(x, r) <= Credit(TrueOf(x), r)
      BY <1>1, CreditBelow
    <2> QED BY <2>2, <2>3
  <1>6. Weight(rows, r) = Total(f, S) /\ Weight(TrueRows, r) = Total(g, V)
    BY DEF Weight
  <1> HIDE DEF S, V, f, g, m
  <1>7. Total(f, S) <= Total(g, V)
    BY <1>1, <1>2, <1>3, <1>4, <1>5, TotalInjection
  <1>8. Total(f, S) \in Nat /\ Total(g, V) \in Nat
    BY <1>1, <1>4, TotalFirst
  <1> QED BY <1>6, <1>7, <1>8

\* What counts of what was read counts, and is held by an instance.
LEMMA WeightedBelow ==
    ASSUME NEW rows, RowsOK(rows), NEW r \in Weighted(rows)
    PROVE  /\ r \in Reserves /\ r \in Weighted(TrueRows)
           /\ NodeInstances(TrueRows, r) # {} /\ NodeInstances(TrueRows, r) \subseteq Instances
  <1>1. PICK x \in Backers(rows, r) : x.total_debt_base > 0 /\ x.gho_debt_base > 0
    BY DEF Weighted
  <1>2. Read(x) /\ r \in DOMAIN x.collateral
    BY CreditTrue
  <1>3. TrueOf(x) \in Backers(TrueRows, r)
    BY <1>2, TrueOfIn, CreditBelow DEF Backers
  <1>4. TrueOf(x).total_debt_base > 0 /\ TrueOf(x).gho_debt_base > 0
    <2>1. /\ x.instance \in Instances /\ x.borrower \in Borrowers
          /\ Debt[x.instance][x.borrower] > 0
      BY <1>2 DEF Read
    <2>2. /\ Debt[x.instance][x.borrower] \in Nat
          /\ Other[x.instance][x.borrower] \in Nat
      BY <2>1, AmountsAssumption
    <2> QED BY <2>1, <2>2 DEF TrueOf, Position
  <1>5. \A y \in Backers(TrueRows, r) : y.instance \in Instances
    BY CreditTrue, TrueRowsOK DEF Read
  <1> QED BY <1>3, <1>4, <1>5 DEF Weighted, NodeInstances

LEMMA CollateralBelow ==
    ASSUME NEW rows, RowsOK(rows), NEW r \in Weighted(rows), NEW F,
           NEW n, n = CollateralNode(rows, r, F), NEW m, m = CollateralNode(TrueRows, r, {})
    PROVE  /\ m \in TrueNodes /\ Same(n, m) /\ n.address = r /\ n.gsm = None
           /\ n.value \in Nat /\ m.value \in Nat /\ n.value <= m.value
  <1> DEFINE unit == IF <<"decimals", r>> \in F THEN DefaultUnit ELSE Unit[r]
             price == IF r \in Priced(rows, F) THEN Price[r] ELSE 0
             w == Weight(rows, r)
             v == Weight(TrueRows, r)
  <1>1. r \in Reserves /\ r \in Weighted(TrueRows) /\ NodeInstances(TrueRows, r) # {}
    BY WeightedBelow
  <1>2. r \in Priced(TrueRows, {})
    BY <1>1 DEF Priced
  <1>3. w \in Nat /\ v \in Nat /\ w <= v
    BY WeightBelow
  <1>4. Price[r] \in Nat /\ Unit[r] \in Nat /\ Unit[r] > 0 /\ Unit[r] <= DefaultUnit /\ DefaultUnit \in Nat
    BY <1>1, PricesAssumption
  <1>5. unit \in Nat /\ Unit[r] <= unit /\ price \in Nat /\ price <= Price[r]
    BY <1>4
  <1>6. n.address = r /\ n.gsm = None /\ n.value = (w * price) \div unit
    BY DEF CollateralNode
  <1>7. m.address = r /\ m.gsm = None /\ m.value = (v * Price[r]) \div Unit[r]
    BY <1>2 DEF CollateralNode
  <1>8. m \in TrueNodes
    BY <1>1 DEF TrueNodes, Nodes
  <1> HIDE DEF unit, price, w, v
  <1>9. /\ (w * price) \div unit \in Nat /\ (v * Price[r]) \div Unit[r] \in Nat
        /\ (w * price) \div unit <= (v * Price[r]) \div Unit[r]
    BY <1>3, <1>4, <1>5, ValueBelow
  <1> QED BY <1>6, <1>7, <1>8, <1>9 DEF Same

LEMMA BoxedBelow ==
    ASSUME NEW rows, RowsOK(rows), NEW pools, pools \subseteq Instances, NEW g \in Gsms, NEW F,
           NEW n, n = BoxedNode(rows, pools, g, F), NEW m, m = BoxedNode(TrueRows, Instances, g, {})
    PROVE  /\ m \in TrueNodes /\ Same(n, m) /\ n.address = Wrapper[g] /\ n.gsm = g
           /\ n.value \in Nat /\ m.value \in Nat /\ n.value <= m.value
           /\ n.priced => n.value = m.value
  <1> DEFINE u == Underlying[g]
             worth == (Converted[g] * Price[u]) \div Unit[u]
  <1>1. Converted[g] \in Nat /\ Price[u] \in Nat /\ Unit[u] \in Nat /\ Unit[u] > 0
    BY AmountsAssumption, PricesAssumption
  <1>2. worth \in Nat
    BY <1>1, ShareIsNat
  <1>3. /\ n.address = Wrapper[g] /\ n.gsm = g
        /\ n.value \in {0, worth} /\ n.priced => n.value = worth
        /\ n.value = worth \/ n.value = 0
    BY DEF BoxedNode
  <1>4. m.address = Wrapper[g] /\ m.gsm = g /\ m.value \in {0, worth}
    BY DEF BoxedNode
  <1>5. m \in TrueNodes
    BY DEF TrueNodes, Nodes
  <1>6. n.priced \/ n.value = 0
    BY DEF BoxedNode
  <1>7. n.priced => m.value = worth
    <2> SUFFICES ASSUME n.priced PROVE m.value = worth
      OBVIOUS
    <2>1. u \in Priced(rows, F) \/ pools # {}
      BY DEF BoxedNode
    <2>2. Instances # {}
      <3>1. u \in Priced(rows, F) => NodeInstances(TrueRows, u) # {} /\ NodeInstances(TrueRows, u) \subseteq Instances
        BY WeightedBelow DEF Priced
      <3> QED BY <2>1, <3>1
    <2> QED BY <2>2 DEF BoxedNode
  <1> HIDE DEF worth
  <1> QED BY <1>2, <1>3, <1>4, <1>5, <1>6, <1>7 DEF Same

\* The nodes of whatever was read are right, or worth less.
LEMMA NodesRight ==
    ASSUME NEW rows, RowsOK(rows), NEW pools, pools \subseteq Instances, NEW F
    PROVE  NodesOK(Nodes(rows, pools, F))
  <1> DEFINE N == Nodes(rows, pools, F)
             collateral == [r \in Weighted(rows) |-> CollateralNode(rows, r, F)]
             boxed == [g \in Gsms |-> BoxedNode(rows, pools, g, F)]
             A == {collateral[r] : r \in Weighted(rows)}
             B == {boxed[g] : g \in Gsms}
  <1>1. N = A \cup B
    BY DEF Nodes
  <1>2. IsFiniteSet(A) /\ IsFiniteSet(B)
    <2>1. IsFiniteSet(Weighted(rows))
      BY SetsAssumption, FS_Subset DEF Weighted
    <2> HIDE DEF collateral, boxed
    <2> QED BY <2>1, SetsAssumption, ImageFinite
  <1>3. IsFiniteSet(N)
    <2> HIDE DEF A, B, N
    <2> QED BY <1>1, <1>2, FS_Union
  <1>4. \A n \in A : /\ n.gsm = None /\ n.address \in Weighted(rows)
                     /\ n = collateral[n.address]
                     /\ n.value \in Nat /\ \E m \in TrueNodes : Same(n, m) /\ n.value <= m.value
    <2> SUFFICES ASSUME NEW r \in Weighted(rows), NEW n, n = CollateralNode(rows, r, F)
                 PROVE  /\ n.gsm = None /\ n.address = r
                        /\ n.value \in Nat /\ \E m \in TrueNodes : Same(n, m) /\ n.value <= m.value
      OBVIOUS
    <2> QED BY CollateralBelow
  <1>5. \A n \in B : /\ n.gsm \in Gsms /\ n = boxed[n.gsm] /\ n.address = Wrapper[n.gsm]
                     /\ n.value \in Nat
                     /\ \E m \in TrueNodes : /\ Same(n, m) /\ n.value <= m.value
                                             /\ n.priced => n.value = m.value
    <2> SUFFICES ASSUME NEW g \in Gsms, NEW n, n = BoxedNode(rows, pools, g, F)
                 PROVE  /\ n.gsm = g /\ n.address = Wrapper[g] /\ n.value \in Nat
                        /\ \E m \in TrueNodes : /\ Same(n, m) /\ n.value <= m.value
                                                /\ n.priced => n.value = m.value
      OBVIOUS
    <2> QED BY BoxedBelow
  <1>6. \A g \in Gsms : boxed[g] \in B /\ boxed[g].gsm = g
    BY DEF BoxedNode
  <1> HIDE DEF N, A, B, collateral, boxed
  <1>7. \A n, m \in N : Same(n, m) => n = m
    <2> SUFFICES ASSUME NEW n \in N, NEW m \in N, n.address = m.address, n.gsm = m.gsm
                 PROVE  n = m
      BY DEF Same
    <2>1. CASE n \in A
      <3>1. m \in A
        BY <1>1, <1>4, <1>5, <2>1, SetsAssumption
      <3> QED BY <1>4, <2>1, <3>1
    <2>2. CASE n \in B
      <3>1. m \in B
        BY <1>1, <1>4, <1>5, <2>2, SetsAssumption
      <3> QED BY <1>5, <2>2, <3>1
    <2> QED BY <1>1, <2>1, <2>2
  <1>8. \A n \in N : n.value \in Nat /\ \E m \in TrueNodes : Same(n, m) /\ n.value <= m.value
    BY <1>1, <1>4, <1>5
  <1>9. \A g \in Gsms : \E n \in N :
            /\ n.gsm = g /\ n.address = Wrapper[g]
            /\ n.priced => \E m \in TrueNodes : Same(n, m) /\ n.value = m.value
    <2> SUFFICES ASSUME NEW g \in Gsms
                 PROVE  /\ boxed[g] \in N /\ boxed[g].gsm = g /\ boxed[g].address = Wrapper[g]
                        /\ boxed[g].priced => \E m \in TrueNodes : Same(boxed[g], m) /\ boxed[g].value = m.value
      OBVIOUS
    <2> QED BY <1>1, <1>5, <1>6
  <1>10. NodesOK(N)
    BY <1>3, <1>7, <1>8, <1>9 DEF NodesOK
  <1> QED BY <1>10 DEF N

LEMMA TrueNodesOK == NodesOK(TrueNodes)
  BY TrueRowsOK, NodesRight DEF TrueNodes

\* The true value of a node is its own, and no sum of nodes exceeds the true one.
LEMMA NodesWorth ==
    ASSUME NEW nodes, NodesOK(nodes)
    PROVE  /\ \A n \in nodes : \A m \in TrueNodes : Same(n, m) => TrueValue(n) = m.value
           /\ \A n \in nodes : n.value <= TrueValue(n)
           /\ Backing(nodes) <= Backing(TrueNodes)
  <1> DEFINE m == [n \in nodes |-> CHOOSE k \in TrueNodes : Same(n, k) /\ n.value <= k.value]
             f == [n \in nodes |-> n.value]
             g == [n \in TrueNodes |-> n.value]
  <1>1. \A n \in nodes : m[n] \in TrueNodes /\ Same(n, m[n]) /\ n.value <= m[n].value
    <2> SUFFICES ASSUME NEW n \in nodes
                 PROVE  m[n] \in TrueNodes /\ Same(n, m[n]) /\ n.value <= m[n].value
      OBVIOUS
    <2>1. \E k \in TrueNodes : Same(n, k) /\ n.value <= k.value
      BY DEF NodesOK
    <2> QED BY <2>1
  <1>2. /\ IsFiniteSet(nodes) /\ IsFiniteSet(TrueNodes)
        /\ \A n \in nodes : n.value \in Nat
        /\ \A n \in TrueNodes : n.value \in Nat
    BY TrueNodesOK DEF NodesOK
  <1>3. ASSUME NEW n \in nodes, NEW k \in TrueNodes, Same(n, k)
        PROVE  TrueValue(n) = k.value
    <2> DEFINE h == [x \in {k} |-> x.value]
    <2>1. {x \in TrueNodes : x.address = n.address /\ x.gsm = n.gsm} = {k}
      BY <1>3, TrueNodesOK DEF NodesOK, Same
    <2>2. TrueValue(n) = Total(h, {k})
      BY <2>1 DEF TrueValue, Backing
    <2>3. h[k] = k.value
      OBVIOUS
    <2> HIDE DEF h
    <2>4. Total(h, {k}) = k.value
      BY <1>2, <2>3, TotalSingle
    <2> QED BY <2>2, <2>4
  <1>4. Backing(nodes) <= Backing(TrueNodes)
    <2>1. Backing(nodes) = Total(f, nodes) /\ Backing(TrueNodes) = Total(g, TrueNodes)
      BY DEF Backing
    <2>2. m \in [nodes -> TrueNodes]
      BY <1>1
    <2>3. \A x, y \in nodes : m[x] = m[y] => x = y
      BY <1>1 DEF NodesOK, Same
    <2>4. \A n \in nodes : f[n] \in Nat /\ f[n] <= g[m[n]]
      BY <1>1, <1>2
    <2>5. \A n \in TrueNodes : g[n] \in Nat
      BY <1>2
    <2> HIDE DEF m, f, g
    <2> QED BY <1>2, <2>1, <2>2, <2>3, <2>4, <2>5, TotalInjection
  <1> HIDE DEF m
  <1>5. \A n \in nodes : n.value <= TrueValue(n)
    BY <1>1, <1>3
  <1> QED BY <1>3, <1>4, <1>5

-------------------------------------------------------------------------------
\* The first instance in an order is one of them.
LEMMA FirstByIn ==
    ASSUME NEW S, S \subseteq Instances, S # {}, NEW order \in [Instances -> Nat]
    PROVE  FirstBy(order, S) \in S
  <1> DEFINE Least(T) == \E p \in T : \A q \in T : order[p] <= order[q]
             B == {T \in SUBSET S : T # {} /\ ~Least(T)}
  <1>1. IsFiniteSet(S) /\ B \subseteq SUBSET S
    BY SetsAssumption, FS_Subset
  <1>2. B = {}
    <2> SUFFICES ASSUME B # {} PROVE FALSE
      OBVIOUS
    <2> HIDE DEF B
    <2>1. PICK T \in B : \A R \in B : R \subseteq T => R = T
      BY <1>1, SmallestSet
    <2>2. T \in SUBSET S /\ T # {} /\ ~Least(T)
      BY <2>1 DEF B
    <2>3. PICK x \in T : TRUE
      BY <2>2
    <2>4. order[x] \in Nat /\ \A y \in T : order[y] \in Nat
      BY <2>2, <2>3
    <2>5. T \ {x} # {}
      BY <2>2, <2>3, <2>4
    <2>6. T \ {x} \notin B
      BY <2>1, <2>3
    <2>7. Least(T \ {x})
      BY <2>2, <2>5, <2>6 DEF B
    <2>8. PICK y \in T \ {x} : \A q \in T \ {x} : order[y] <= order[q]
      BY <2>7
    <2>9. \/ \A q \in T : order[x] <= order[q]
          \/ \A q \in T : order[y] <= order[q]
      BY <2>4, <2>8
    <2> QED BY <2>2, <2>3, <2>8, <2>9
  <1>3. Least(S)
    BY <1>2
  <1> QED BY <1>3 DEF FirstBy

\* The rows of one instance.
LEMMA PositionsRead ==
    ASSUME NEW p \in Instances, NEW F
    PROVE  /\ IsFiniteSet(Positions(p, F))
           /\ \A x \in Positions(p, F) : Read(x) /\ x.instance = p /\ x = Position(p, x.borrower, F)
  <1>1. IsFiniteSet(Positions(p, F))
    <2>1. IsFiniteSet(Live(p, F))
      BY SetsAssumption, FS_Subset DEF Live, Candidates
    <2> QED BY <2>1, RowsFinite DEF Positions
  <1>2. ASSUME NEW x \in Positions(p, F)
        PROVE  Read(x) /\ x.instance = p /\ x = Position(p, x.borrower, F)
    <2>1. PICK b \in Borrowers : Debt[p][b] > 0 /\ x = Position(p, b, F)
      BY DEF Positions, Live, Candidates
    <2> QED BY <2>1, PositionRead
  <1> QED BY <1>1, <1>2

\* A further instance adds rows of its own.
LEMMA RowsGrow ==
    ASSUME NEW rows, RowsOK(rows), NEW p \in Instances, \A x \in rows : x.instance # p, NEW F
    PROVE  RowsOK(rows \cup Positions(p, F))
  <1>1. /\ IsFiniteSet(Positions(p, F))
        /\ \A x \in Positions(p, F) : Read(x) /\ x.instance = p /\ x = Position(p, x.borrower, F)
    BY PositionsRead
  <1>2. IsFiniteSet(rows \cup Positions(p, F))
    BY <1>1, FS_Union DEF RowsOK
  <1>3. ASSUME NEW x \in rows \cup Positions(p, F), NEW y \in rows \cup Positions(p, F),
               x.instance = y.instance, x.borrower = y.borrower
        PROVE  x = y
    <2>1. CASE x \in rows /\ y \in rows
      BY <1>3, <2>1 DEF RowsOK
    <2>2. CASE x \in Positions(p, F) /\ y \in Positions(p, F)
      BY <1>1, <1>3, <2>2
    <2> QED BY <1>1, <1>3, <2>1, <2>2
  <1> QED BY <1>1, <1>2, <1>3 DEF RowsOK

-------------------------------------------------------------------------------
\* The two sides of DET-82 are, for every instance that has a row, what its rows
\* add up to and its debt.
RowsOf(rows, p) == {x \in rows : x.instance = p}

SumsWhole(rows, sums) ==
    \A x \in rows : \E c \in sums :
        /\ c.sum = GrossDebt(RowsOf(rows, x.instance))
        /\ c.total = TotalDebt(x.instance)

BundleOK(b) ==
    /\ NodesOK(b.nodes) /\ RowsOK(b.positions) /\ SumsWhole(b.positions, b.completeness)
    /\ \A row \in b.pausers : row.scope \subseteq FreezerOn[row.holder]

\* A further instance adds its own sums, and no row to another's.
LEMMA SumsGrow ==
    ASSUME NEW rows, NEW sums, SumsWhole(rows, sums),
           NEW p \in Instances, \A x \in rows : x.instance # p, NEW F
    PROVE  SumsWhole(rows \cup Positions(p, F), sums \cup {Completeness(p, F)})
  <1> DEFINE all == rows \cup Positions(p, F)
             c == Completeness(p, F)
  <1>1. \A x \in Positions(p, F) : x.instance = p
    BY PositionsRead
  <1>2. RowsOf(all, p) = Positions(p, F)
    BY <1>1 DEF RowsOf
  <1>3. \A x \in rows : RowsOf(all, x.instance) = RowsOf(rows, x.instance)
    BY <1>1 DEF RowsOf
  <1>4. ASSUME NEW x \in Positions(p, F)
        PROVE  c.sum = GrossDebt(RowsOf(all, x.instance)) /\ c.total = TotalDebt(x.instance)
    <2>1. Live(p, F) # {}
      BY DEF Positions
    <2>2. c.sum = GrossDebt(Positions(p, F)) /\ c.total = TotalDebt(p)
      BY <2>1 DEF Completeness
    <2> HIDE DEF all, c
    <2> QED BY <1>1, <1>2, <2>2
  <1> HIDE DEF all, c
  <1>5. ASSUME NEW x \in rows
        PROVE  \E d \in sums : d.sum = GrossDebt(RowsOf(all, x.instance)) /\ d.total = TotalDebt(x.instance)
    BY <1>3 DEF SumsWhole
  <1>6. ASSUME NEW x \in all
        PROVE  \E d \in sums \cup {c} :
                  d.sum = GrossDebt(RowsOf(all, x.instance)) /\ d.total = TotalDebt(x.instance)
    BY <1>4, <1>5 DEF all
  <1>7. SumsWhole(all, sums \cup {c})
    BY <1>6 DEF SumsWhole
  <1> QED BY <1>7 DEF all, c

\* The rows of an instance do not add up to more than its listed borrowers owe.
LEMMA RowsWithin ==
    ASSUME NEW rows, RowsOK(rows), NEW p \in Instances, NEW S, S \subseteq Borrowers,
           \A x \in RowsOf(rows, p) : x.borrower \in S
    PROVE  GrossDebt(RowsOf(rows, p)) \in Nat /\ GrossDebt(RowsOf(rows, p)) <= Total(Debt[p], S)
  <1> DEFINE own == RowsOf(rows, p)
             f == [x \in own |-> x.gross_debt]
             m == [x \in own |-> x.borrower]
  <1>1. IsFiniteSet(own) /\ IsFiniteSet(S)
    BY SetsAssumption, FS_Subset DEF RowsOK, RowsOf
  <1>2. \A b \in Borrowers : Debt[p][b] \in Nat
    BY AmountsAssumption
  <1>3. \A x \in own : /\ x.instance = p /\ x.borrower \in S
                         /\ x.gross_debt = Debt[p][x.borrower]
    BY DEF RowsOf, RowsOK, Read
  <1>4. \A x, y \in own : x.borrower = y.borrower => x = y
    BY DEF RowsOf, RowsOK
  <1>5. GrossDebt(own) = Total(f, own)
    BY DEF GrossDebt
  <1> HIDE DEF own
  <1>6. m \in [own -> S] /\ \A x, y \in own : m[x] = m[y] => x = y
    BY <1>3, <1>4
  <1>7. \A x \in own : f[x] \in Nat /\ f[x] <= Debt[p][m[x]]
    BY <1>2, <1>3
  <1>8. \A b \in S : Debt[p][b] \in Nat
    BY <1>2
  <1> HIDE DEF f, m
  <1>9. Total(f, own) \in Nat
    BY <1>1, <1>7, TotalFirst
  <1>10. Total(f, own) <= Total(Debt[p], S)
    BY <1>1, <1>6, <1>7, <1>8, TotalInjection
  <1> QED BY <1>5, <1>9, <1>10 DEF own

LEMMA TimesGrows ==
    ASSUME NEW x \in Nat, NEW y \in Nat, x <= y, NEW m \in Nat
    PROVE  x * m \in Nat /\ y * m \in Nat /\ x * m <= y * m
  OBVIOUS

\* What is missing is within the tolerance if the sum without it is.
LEMMA NearIs ==
    ASSUME NEW n \in Nat, NEW sum \in Nat, NEW total \in Nat, NEW m \in Nat,
           n * sum >= (n - 1) * total, m <= total - sum
    PROVE  n * m <= total
  <1>1. (n - 1) * total = n * total - total
    OBVIOUS
  <1>2. n * m <= n * (total - sum)
    <2>1. total - sum \in Nat
      OBVIOUS
    <2> QED BY <2>1, TimesGrows
  <1>3. n * (total - sum) = n * total - n * sum
    OBVIOUS
  <1>4. n * m \in Int /\ n * total \in Int /\ n * sum \in Int
    OBVIOUS
  <1> QED BY <1>1, <1>2, <1>3, <1>4

Fields == {"step", "minters", "pools", "todo", "freezers", "positions", "completeness", "nodes"}

JobInv ==
    /\ job.step \in {"gsms", "instances", "surface"} =>
          /\ DOMAIN job = Fields
          /\ job.pools \subseteq Instances /\ job.todo \subseteq job.pools
          /\ RowsOK(job.positions) /\ \A x \in job.positions : x.instance \notin job.todo
          /\ SumsWhole(job.positions, job.completeness)
    /\ job.step = "surface" => NodesOK(job.nodes)
    /\ job.step = "gate" => BundleOK(job.bundle)

IsSequence(s) == \E S : s \in Seq(S)

BundlesInv ==
    /\ IsSequence(bundles)
    /\ \A i \in DOMAIN bundles :
          /\ BundleOK(bundles[i]) /\ Reconciled(bundles[i])
          /\ i > 1 => MintersKept(bundles[i], bundles[i - 1])

TreeInv ==
    tree # None =>
        /\ tree.bundle \in DOMAIN bundles
        /\ tree.backing_value = Backing(bundles[tree.bundle].nodes)
        /\ BoxesPriced(bundles[tree.bundle]) /\ PathsPausable(bundles[tree.bundle])

AssemblyInv == JobInv /\ BundlesInv /\ TreeInv

LEMMA AssemblyInit == Init => AssemblyInv
  <1> SUFFICES ASSUME Init PROVE AssemblyInv
    OBVIOUS
  <1>1. JobInv
    BY DEF Init, Idle, JobInv
  <1>2. BundlesInv
    <2>1. <<>> \in Seq({})
      OBVIOUS
    <2> QED BY <2>1 DEF Init, BundlesInv, IsSequence
  <1>3. TreeInv
    BY DEF Init, TreeInv
  <1> QED BY <1>1, <1>2, <1>3 DEF AssemblyInv

LEMMA PromoteKeeps ==
    ASSUME AssemblyInv, Promote
    PROVE  AssemblyInv'
  <1> DEFINE b == job.bundle
             k == Len(bundles)
  <1>1. /\ BundleOK(b) /\ Reconciled(b) /\ bundles' = Append(bundles, b) /\ tree' = tree
        /\ bundles # <<>> => MintersKept(b, bundles[k])
    BY DEF Promote, Gate, AssemblyInv, JobInv
  <1>2. JobInv'
    BY DEF Promote, JobInv, Idle
  <1>3. PICK S : bundles \in Seq(S)
    BY DEF AssemblyInv, BundlesInv, IsSequence
  <1> HIDE DEF b
  <1>4. bundles' \in Seq(S \cup {b})
    <2>1. bundles \in Seq(S \cup {b})
      BY <1>3
    <2> QED BY <1>1, <2>1
  <1>5. /\ k \in Nat /\ DOMAIN bundles = 1 .. k /\ DOMAIN bundles' = 1 .. k + 1
        /\ bundles'[k + 1] = b /\ \A i \in 1 .. k : bundles'[i] = bundles[i]
    <2>1. bundles \in Seq(S \cup {b})
      BY <1>3
    <2> QED BY <1>1, <2>1
  <1>6. BundlesInv'
    <2>1. IsSequence(bundles)'
      BY <1>4 DEF IsSequence
    <2>2. ASSUME NEW i \in DOMAIN bundles'
          PROVE  /\ BundleOK(bundles'[i]) /\ Reconciled(bundles'[i])
                 /\ i > 1 => MintersKept(bundles'[i], bundles'[i - 1])
      <3>1. CASE i = k + 1
        <4>1. i > 1 => bundles # <<>> /\ bundles'[i - 1] = bundles[k]
          BY <1>5, <3>1
        <4> QED BY <1>1, <1>5, <3>1, <4>1
      <3>2. CASE i # k + 1
        <4>1. i \in DOMAIN bundles /\ bundles'[i] = bundles[i]
          BY <1>5, <2>2, <3>2
        <4>2. i > 1 => bundles'[i - 1] = bundles[i - 1]
          BY <1>5, <4>1
        <4> QED BY <4>1, <4>2 DEF AssemblyInv, BundlesInv
      <3> QED BY <3>1, <3>2
    <2> QED BY <2>1, <2>2 DEF BundlesInv
  <1>7. TreeInv'
    <2>1. \A i \in DOMAIN bundles : i \in DOMAIN bundles' /\ bundles'[i] = bundles[i]
      BY <1>5
    <2> QED BY <1>1, <2>1 DEF AssemblyInv, TreeInv
  <1> QED BY <1>2, <1>6, <1>7 DEF AssemblyInv

LEMMA FoldKeeps ==
    ASSUME AssemblyInv, Fold
    PROVE  AssemblyInv'
  <1>1. JobInv' /\ BundlesInv'
    BY DEF Fold, AssemblyInv, JobInv, BundlesInv
  <1>2. Len(bundles) \in DOMAIN bundles
    <2>1. PICK S : bundles \in Seq(S)
      BY DEF AssemblyInv, BundlesInv, IsSequence
    <2>2. bundles # <<>>
      BY DEF Fold
    <2> QED BY <2>1, <2>2
  <1>3. /\ bundles' = bundles /\ tree'.bundle = Len(bundles)
        /\ tree'.backing_value = Backing(bundles[Len(bundles)].nodes)
        /\ BoxesPriced(bundles[Len(bundles)]) /\ PathsPausable(bundles[Len(bundles)])
    BY DEF Fold, Folded
  <1>4. TreeInv'
    BY <1>2, <1>3 DEF TreeInv
  <1> QED BY <1>1, <1>4 DEF AssemblyInv

\* A step of a run that has not been promoted yet.
LEMMA JobSteps ==
    ASSUME AssemblyInv, UNCHANGED <<bundles, tree>>, JobInv'
    PROVE  AssemblyInv'
  BY DEF AssemblyInv, BundlesInv, TreeInv

LEMMA ReadFacilitatorsKeeps ==
    ASSUME AssemblyInv, ReadFacilitators
    PROVE  AssemblyInv'
  <1>1. PICK minters, pools :
            /\ pools \subseteq Instances
            /\ job' = [step |-> "gsms", minters |-> minters, pools |-> pools, todo |-> pools,
                       freezers |-> [g \in Gsms |-> None], positions |-> {},
                       completeness |-> {}, nodes |-> {}]
    BY DEF ReadFacilitators
  <1>2. /\ job'.step = "gsms" /\ DOMAIN job' = Fields /\ job'.pools = pools /\ job'.todo = pools
        /\ job'.positions = {} /\ job'.completeness = {}
    BY <1>1 DEF Fields
  <1>3. RowsOK({})
    BY FS_EmptySet DEF RowsOK
  <1>4. JobInv'
    BY <1>1, <1>2, <1>3 DEF JobInv, SumsWhole
  <1> QED BY <1>4, JobSteps DEF ReadFacilitators

LEMMA ReadGsmsKeeps ==
    ASSUME AssemblyInv, ReadGsms
    PROVE  AssemblyInv'
  <1>1. PICK freezers : job' = [job EXCEPT !.step = "instances", !.freezers = freezers]
    BY DEF ReadGsms
  <1>2. /\ DOMAIN job = Fields /\ job.step = "gsms"
        /\ job.pools \subseteq Instances /\ job.todo \subseteq job.pools
        /\ RowsOK(job.positions) /\ \A x \in job.positions : x.instance \notin job.todo
        /\ SumsWhole(job.positions, job.completeness)
    BY DEF ReadGsms, AssemblyInv, JobInv
  <1>3. /\ job'.step = "instances" /\ DOMAIN job' = Fields
        /\ job'.pools = job.pools /\ job'.todo = job.todo
        /\ job'.positions = job.positions /\ job'.completeness = job.completeness
    BY <1>1, <1>2 DEF Fields
  <1>4. JobInv'
    BY <1>2, <1>3 DEF JobInv
  <1> QED BY <1>4, JobSteps DEF ReadGsms

LEMMA ReadInstanceKeeps ==
    ASSUME AssemblyInv, ReadInstance
    PROVE  AssemblyInv'
  <1> DEFINE p == FirstBy(Listed, job.todo)
  <1>1. PICK F : job' = [job EXCEPT !.todo = @ \ {p}, !.positions = @ \cup Positions(p, F),
                                    !.completeness = @ \cup {Completeness(p, F)}]
    BY DEF ReadInstance
  <1>2. /\ DOMAIN job = Fields /\ job.step = "instances" /\ job.todo # {}
        /\ job.pools \subseteq Instances /\ job.todo \subseteq job.pools
        /\ RowsOK(job.positions) /\ \A x \in job.positions : x.instance \notin job.todo
        /\ SumsWhole(job.positions, job.completeness)
    BY DEF ReadInstance, AssemblyInv, JobInv
  <1>3. p \in job.todo /\ p \in Instances
    <2>1. job.todo \subseteq Instances
      BY <1>2
    <2> QED BY <1>2, <2>1, FirstByIn, AmountsAssumption
  <1> HIDE DEF p
  <1>4. /\ job'.step = "instances" /\ DOMAIN job' = Fields
        /\ job'.pools = job.pools /\ job'.todo = job.todo \ {p}
        /\ job'.positions = job.positions \cup Positions(p, F)
        /\ job'.completeness = job.completeness \cup {Completeness(p, F)}
    BY <1>1, <1>2 DEF Fields
  <1>5. RowsOK(job'.positions)
    BY <1>2, <1>3, <1>4, RowsGrow
  <1>6. \A x \in job'.positions : x.instance \notin job'.todo
    BY <1>2, <1>3, <1>4, PositionsRead
  <1>7. SumsWhole(job'.positions, job'.completeness)
    BY <1>2, <1>3, <1>4, SumsGrow
  <1>8. JobInv'
    BY <1>2, <1>4, <1>5, <1>6, <1>7 DEF JobInv
  <1> QED BY <1>8, JobSteps DEF ReadInstance

LEMMA ReadNodesKeeps ==
    ASSUME AssemblyInv, ReadNodes
    PROVE  AssemblyInv'
  <1>1. PICK F : job' = [job EXCEPT !.step = "surface", !.nodes = Nodes(job.positions, job.pools, F)]
    BY DEF ReadNodes
  <1>2. /\ DOMAIN job = Fields /\ job.step = "instances"
        /\ job.pools \subseteq Instances /\ job.todo \subseteq job.pools
        /\ RowsOK(job.positions) /\ \A x \in job.positions : x.instance \notin job.todo
        /\ SumsWhole(job.positions, job.completeness)
    BY DEF ReadNodes, AssemblyInv, JobInv
  <1>3. /\ job'.step = "surface" /\ DOMAIN job' = Fields
        /\ job'.pools = job.pools /\ job'.todo = job.todo
        /\ job'.positions = job.positions /\ job'.completeness = job.completeness
        /\ job'.nodes = Nodes(job.positions, job.pools, F)
    BY <1>1, <1>2 DEF Fields
  <1>4. NodesOK(job'.nodes)
    BY <1>2, <1>3, NodesRight
  <1>5. JobInv'
    BY <1>2, <1>3, <1>4 DEF JobInv
  <1> QED BY <1>5, JobSteps DEF ReadNodes

LEMMA ReadSurfaceKeeps ==
    ASSUME AssemblyInv, ReadSurface
    PROVE  AssemblyInv'
  <1>1. PICK F : /\ job'.step = "gate"
                 /\ job'.bundle.nodes = job.nodes /\ job'.bundle.completeness = job.completeness
                 /\ job'.bundle.positions = job.positions
                 /\ job'.bundle.pausers = PauseRows(job.freezers, F)
    BY DEF ReadSurface
  <1>2. /\ NodesOK(job.nodes) /\ RowsOK(job.positions)
        /\ SumsWhole(job.positions, job.completeness)
    BY DEF ReadSurface, AssemblyInv, JobInv
  <1>3. ASSUME NEW row \in PauseRows(job.freezers, F)
        PROVE  row.scope \subseteq FreezerOn[row.holder]
    <2> DEFINE Scope(h) == {g \in FreezerOn[h] : <<"freezer role", g, h>> \notin F}
    <2>1. \A h : Scope(h) \subseteq FreezerOn[h]
      OBVIOUS
    <2>2. row \in {[holder |-> h, scope |-> Scope(h)] : h \in {job.freezers[g] : g \in Gsms} \ {None}}
      BY DEF PauseRows
    <2> HIDE DEF Scope
    <2>3. PICK h : row = [holder |-> h, scope |-> Scope(h)]
      BY <2>2
    <2> QED BY <2>1, <2>3
  <1>4. JobInv'
    BY <1>1, <1>2, <1>3 DEF JobInv, BundleOK
  <1> QED BY <1>4, JobSteps DEF ReadSurface

LEMMA StopRunKeeps ==
    ASSUME AssemblyInv, StopRun
    PROVE  AssemblyInv'
  <1>1. JobInv'
    BY DEF StopRun, JobInv, Idle
  <1> QED BY <1>1, JobSteps DEF StopRun

LEMMA AssemblyStep == AssemblyInv /\ [Next]_vars => AssemblyInv'
  <1> SUFFICES ASSUME AssemblyInv, [Next]_vars PROVE AssemblyInv'
    OBVIOUS
  <1>1. CASE UNCHANGED vars
    BY <1>1 DEF vars, AssemblyInv, JobInv, BundlesInv, TreeInv
  <1> QED BY <1>1, ReadFacilitatorsKeeps, ReadGsmsKeeps, ReadInstanceKeeps, ReadNodesKeeps,
             ReadSurfaceKeeps, PromoteKeeps, StopRunKeeps, FoldKeeps DEF Next

LEMMA AssemblyAlways == Spec => []AssemblyInv
  BY AssemblyInit, AssemblyStep, PTL DEF Spec

-------------------------------------------------------------------------------
\* Whatever reads fail, in whatever order and over any number of runs, no node of
\* a promoted bundle is worth more than it is and no tree shows more backing than
\* there is (gho.py 387-490, 834-854).
THEOREM NothingIsOverstated == Spec => []NeverOverstated
  <1>1. AssemblyInv => NeverOverstated
    <2> SUFFICES ASSUME AssemblyInv PROVE NeverOverstated
      OBVIOUS
    <2>1. \A i \in DOMAIN bundles : NodesOK(bundles[i].nodes)
      BY DEF AssemblyInv, BundlesInv, BundleOK
    <2>2. tree # None => tree.backing_value <= Backing(TrueNodes)
      BY <2>1, NodesWorth DEF AssemblyInv, TreeInv
    <2> QED BY <2>1, <2>2, NodesWorth DEF NeverOverstated
  <1> QED BY <1>1, AssemblyAlways, PTL

\* A written tree has every boxed asset at its full value with a feed, and for
\* every GSM a freezer that can pause it (DET-28, DET-72).
THEOREM GsmSidesAreWhole == Spec => []GsmSideWhole
  <1>1. AssemblyInv => GsmSideWhole
    <2> SUFFICES ASSUME AssemblyInv, tree # None, NEW g \in Gsms
                 PROVE  LET b == bundles[tree.bundle]
                        IN  /\ \E n \in b.nodes : /\ n.gsm = g /\ n.address = Wrapper[g]
                                                  /\ n.address \in b.covered /\ n.value = TrueValue(n)
                            /\ \E row \in b.pausers : g \in row.scope /\ g \in FreezerOn[row.holder]
      BY DEF GsmSideWhole
    <2> DEFINE b == bundles[tree.bundle]
    <2>1. BundleOK(b) /\ BoxesPriced(b) /\ PathsPausable(b)
      BY DEF AssemblyInv, TreeInv, BundlesInv
    <2> HIDE DEF b
    <2>2. PICK n \in b.nodes : /\ n.gsm = g /\ n.address = Wrapper[g]
                               /\ n.priced => \E m \in TrueNodes : Same(n, m) /\ n.value = m.value
      BY <2>1 DEF BundleOK, NodesOK
    <2>3. n.priced /\ n.address \in b.covered
      BY <2>1, <2>2, SetsAssumption DEF BoxesPriced
    <2>4. n.value = TrueValue(n)
      BY <2>1, <2>2, <2>3, NodesWorth DEF BundleOK
    <2>5. \E row \in b.pausers : g \in row.scope /\ g \in FreezerOn[row.holder]
      BY <2>1 DEF BundleOK, PathsPausable
    <2> QED BY <2>2, <2>3, <2>4, <2>5 DEF b
  <1> QED BY <1>1, AssemblyAlways, PTL

\* Whatever calls and pages are lost, a promoted bundle has either no row of an
\* instance or rows of all its borrowers but for some that together owe at most one
\* part in `Parts` of its debt (DET-82, schema.py 87-88), and no fewer direct
\* minters than the one before it (DET-63).
THEOREM DebtsAreComplete == Spec => []DebtIsComplete
  <1>1. ASSUME NEW b, BundleOK(b), Reconciled(b), NEW p \in {x.instance : x \in b.positions}
        PROVE  Parts * Total(Debt[p], Omitted(b, p)) <= TotalDebt(p)
    <2> DEFINE without == Omitted(b, p)
               with == Borrowers \ without
    <2>1. RowsOK(b.positions) /\ SumsWhole(b.positions, b.completeness)
      BY <1>1 DEF BundleOK
    <2>2. PICK x \in b.positions : x.instance = p
      OBVIOUS
    <2>3. p \in Instances
      BY <2>1, <2>2 DEF RowsOK, Read
    <2>4. PICK c \in b.completeness : /\ c.sum = GrossDebt(RowsOf(b.positions, p))
                                       /\ c.total = TotalDebt(p)
      BY <2>1, <2>2 DEF SumsWhole
    <2>5. \A y \in RowsOf(b.positions, p) : y.borrower \in with
      BY <2>1 DEF RowsOf, RowsOK, Read, Omitted
    <2>6. c.sum \in Nat /\ c.sum <= Total(Debt[p], with)
      BY <2>1, <2>3, <2>4, <2>5, RowsWithin
    <2>7. without \subseteq Borrowers /\ with \subseteq Borrowers
      BY DEF Omitted
    <2>8. with \cup without = Borrowers /\ with \cap without = {}
      BY <2>7
    <2>9. IsFiniteSet(with) /\ IsFiniteSet(without)
      BY <2>7, SetsAssumption, FS_Subset
    <2>10. \A d \in Borrowers : Debt[p][d] \in Nat
      BY <2>3, AmountsAssumption
    <2> HIDE DEF with, without
    <2>11. Total(Debt[p], with) \in Nat /\ Total(Debt[p], without) \in Nat
      BY <2>7, <2>9, <2>10, TotalFirst
    <2>12. TotalDebt(p) = Total(Debt[p], with) + Total(Debt[p], without)
      BY <2>7, <2>8, <2>9, <2>10, TotalJoin DEF TotalDebt
    <2>13. c.total = 0 \/ Parts * c.sum >= (Parts - 1) * c.total
      <3>1. Near(c)
        BY <1>1 DEF Reconciled
      <3> QED BY <3>1 DEF Near
    <2>14. CASE c.total = 0
      <3>1. Total(Debt[p], without) = 0
        BY <2>4, <2>11, <2>12, <2>14
      <3> QED BY <2>4, <2>14, <3>1, SetsAssumption DEF without
    <2>15. CASE c.total # 0
      <3>1. Total(Debt[p], without) <= c.total - c.sum /\ c.total \in Nat
        BY <2>4, <2>6, <2>11, <2>12
      <3>2. Parts \in Nat
        BY SetsAssumption
      <3> DEFINE missing == Total(Debt[p], without)
      <3> HIDE DEF missing
      <3>3. missing \in Nat /\ missing <= c.total - c.sum
        BY <2>11, <3>1 DEF missing
      <3>4. Parts * missing <= c.total
        BY <2>6, <2>13, <2>15, <3>1, <3>2, <3>3, NearIs
      <3> QED BY <2>4, <3>4 DEF missing, without
    <2> QED BY <2>14, <2>15
  <1>2. AssemblyInv => DebtIsComplete
    <2> SUFFICES ASSUME AssemblyInv, NEW i \in DOMAIN bundles
                 PROVE  /\ i > 1 => Cardinality(bundles[i].minters) >= Cardinality(bundles[i - 1].minters)
                        /\ \A p \in {x.instance : x \in bundles[i].positions} :
                              Parts * Total(Debt[p], Omitted(bundles[i], p)) <= TotalDebt(p)
      BY DEF DebtIsComplete
    <2>1. BundleOK(bundles[i]) /\ Reconciled(bundles[i])
      BY DEF AssemblyInv, BundlesInv
    <2>2. i > 1 => MintersKept(bundles[i], bundles[i - 1])
      BY DEF AssemblyInv, BundlesInv
    <2> QED BY <1>1, <2>1, <2>2 DEF MintersKept
  <1> QED BY <1>2, AssemblyAlways, PTL

-------------------------------------------------------------------------------
-------------------------------------------------------------------------------
(***************************************************************************)
(* The chain keeps its books: what is minted to an address and given to it *)
(* is what it holds and what it has put out, but for interest not yet      *)
(* collected; no ceiling is above what was minted; and nothing but a       *)
(* listed market earns interest.                                           *)
(***************************************************************************)
WorldFields ==
    {"count", "keepers", "ceil", "minted", "held", "debt", "fees", "principal", "given",
     "history", "admin", "emergency", "feed", "killed", "pools"}

Amounts(w) ==
    /\ w.ceil \in [Minters -> Nat] /\ w.minted \in [Minters -> Nat]
    /\ w.held \in [Minters -> Nat] /\ w.debt \in [Minters -> Nat]
    /\ w.fees \in [Minters -> Nat] /\ w.given \in [Minters -> Nat]

Balanced(w, a) ==
    /\ w.held[a] + w.debt[a] = w.minted[a] + w.given[a] + w.fees[a]
    /\ w.ceil[a] <= w.minted[a]
    /\ a \notin MarketsOf(w) => w.fees[a] = 0
    /\ a \in Controllers \ MarketsOf(w) => w.debt[a] = 0

Books(w) == \A a \in Minters : Balanced(w, a)

WorldOK(w) ==
    /\ DOMAIN w = WorldFields
    /\ w.count \in 1 .. Len(Markets) /\ w.keepers \in Seq(Keepers)
    /\ Amounts(w) /\ Books(w)

-------------------------------------------------------------------------------
LEMMA ListedIn == \A w : w.count \in 1 .. Len(Markets) => MarketsOf(w) \subseteq Controllers
  <1> SUFFICES ASSUME NEW w, w.count \in 1 .. Len(Markets), NEW i \in 1 .. w.count
               PROVE  Markets[i] \in Controllers
    BY DEF MarketsOf
  <1> QED BY MintersAssumption

LEMMA KeepersSequence == SetToSeq(Keepers) \in Seq(Keepers)
  <1> DEFINE n == Cardinality(Keepers)
  <1>1. n \in Nat /\ ExistsBijection(1 .. n, Keepers)
    BY MintersAssumption, FS_CardinalityType
  <1>2. PICK f \in Bijection(1 .. n, Keepers) : TRUE
    BY <1>1 DEF ExistsBijection
  <1>3. f \in [1 .. n -> Keepers] /\ IsInjective(f)
    BY <1>2 DEF Bijection, Injection, IsInjective
  <1>4. SetToSeq(Keepers) \in [1 .. n -> Keepers]
    BY <1>3 DEF SetToSeq
  <1> HIDE DEF n
  <1> QED BY <1>1, <1>4

LEMMA GenesisOK == WorldOK(Genesis)
  <1> DEFINE start == Minters \ {Markets[i] : i \in 2 .. Len(Markets)}
             grant == [a \in Minters |-> IF a \in start THEN Granted[a] ELSE 0]
             out == [a \in Minters |-> IF a \in start /\ a \notin Others THEN 1 ELSE 0]
             left == [a \in Minters |-> grant[a] - out[a]]
             zero == [a \in Minters |-> 0]
  <1>1. /\ DOMAIN Genesis = WorldFields
        /\ Genesis.count = 1 /\ Genesis.keepers = SetToSeq(Keepers)
        /\ Genesis.ceil = grant /\ Genesis.minted = grant /\ Genesis.held = left
        /\ Genesis.debt = out /\ Genesis.fees = zero /\ Genesis.given = zero
    BY DEF Genesis, WorldFields
  <1>2. 1 \in 1 .. Len(Markets)
    BY MintersAssumption
  <1>3. /\ grant \in [Minters -> Nat] /\ out \in [Minters -> Nat] /\ zero \in [Minters -> Nat]
        /\ left \in [Minters -> Nat]
    BY MintersAssumption
  <1>4. \A a \in Controllers \ MarketsOf(Genesis) : a \notin start
    <2>1. MarketsOf(Genesis) = {Markets[1]}
      BY <1>1 DEF MarketsOf
    <2>2. \A a \in Controllers : \E i \in 1 .. Len(Markets) : a = Markets[i]
      BY MintersAssumption DEF Controllers, ToSet
    <2> QED BY <2>1, <2>2
  <1>5. ASSUME NEW a \in Minters
        PROVE  /\ left[a] + out[a] = grant[a] + zero[a] + zero[a] /\ grant[a] <= grant[a]
               /\ zero[a] = 0 /\ (a \notin start => out[a] = 0)
    BY <1>3
  <1>6. Amounts(Genesis)
    BY <1>1, <1>3 DEF Amounts
  <1>8. Controllers \subseteq Minters
    BY DEF Minters
  <1> HIDE DEF start, grant, out, left, zero
  <1>7. Books(Genesis)
    BY <1>1, <1>4, <1>5, <1>8 DEF Books, Balanced
  <1> QED BY <1>1, <1>2, <1>6, <1>7, KeepersSequence DEF WorldOK

-------------------------------------------------------------------------------
\* A move that changes the books of one address only.
Untouched(w, v, a) ==
    /\ v.ceil[a] = w.ceil[a] /\ v.minted[a] = w.minted[a] /\ v.held[a] = w.held[a]
    /\ v.debt[a] = w.debt[a] /\ v.fees[a] = w.fees[a] /\ v.given[a] = w.given[a]

LEMMA OneChanged ==
    ASSUME NEW w, WorldOK(w), NEW v, NEW a \in Minters,
           DOMAIN v = WorldFields, v.count = w.count, v.keepers = w.keepers,
           Amounts(v), Balanced(v, a), \A b \in Minters \ {a} : Untouched(w, v, b)
    PROVE  WorldOK(v)
  <1>1. MarketsOf(v) = MarketsOf(w)
    BY DEF MarketsOf
  <1>2. ASSUME NEW b \in Minters, b # a
        PROVE  Balanced(v, b)
    <2>1. Balanced(w, b) /\ Untouched(w, v, b)
      BY <1>2 DEF WorldOK, Books
    <2> QED BY <1>1, <2>1 DEF Balanced, Untouched
  <1>3. Books(v)
    BY <1>2 DEF Books
  <1> QED BY <1>3 DEF WorldOK

\* What the books say of one address.
LEMMA BooksOf ==
    ASSUME NEW w, WorldOK(w), NEW a \in Minters
    PROVE  /\ w.ceil[a] \in Nat /\ w.minted[a] \in Nat /\ w.held[a] \in Nat
           /\ w.debt[a] \in Nat /\ w.fees[a] \in Nat /\ w.given[a] \in Nat
           /\ Balanced(w, a)
  BY DEF WorldOK, Amounts, Books

LEMMA DrawKeeps ==
    ASSUME WorldOK(world), NEW a \in Minters, Draw(a)
    PROVE  WorldOK(world')
  <1>1. DOMAIN world = WorldFields /\ Amounts(world)
    BY DEF WorldOK
  <1>2. /\ DOMAIN world' = WorldFields
        /\ world'.count = world.count /\ world'.keepers = world.keepers
        /\ world'.ceil = world.ceil /\ world'.minted = world.minted
        /\ world'.held = [world.held EXCEPT ![a] = world.held[a] - 1]
        /\ world'.debt = [world.debt EXCEPT ![a] = world.debt[a] + 1]
        /\ world'.fees = world.fees /\ world'.given = world.given
    BY <1>1 DEF Draw, WorldFields
  <1>3. world.held[a] > 0 /\ a \notin Controllers \ MarketsOf(world)
    BY MintersAssumption DEF Draw
  <1>4. Amounts(world')
    BY <1>1, <1>2, <1>3 DEF Amounts
  <1>5. \A b \in Minters \ {a} : Untouched(world, world', b)
    BY <1>1, <1>2 DEF Amounts, Untouched
  <1>6. Balanced(world', a)
    <2>1. /\ world'.held[a] = world.held[a] - 1 /\ world'.debt[a] = world.debt[a] + 1
          /\ MarketsOf(world') = MarketsOf(world)
      BY <1>1, <1>2 DEF Amounts, MarketsOf
    <2> QED BY <1>2, <1>3, <2>1, BooksOf DEF Balanced
  <1> QED BY <1>2, <1>4, <1>5, <1>6, OneChanged

LEMMA ReturnKeeps ==
    ASSUME WorldOK(world), NEW a \in Minters, Return(a)
    PROVE  WorldOK(world')
  <1>1. DOMAIN world = WorldFields /\ Amounts(world)
    BY DEF WorldOK
  <1>2. /\ DOMAIN world' = WorldFields
        /\ world'.count = world.count /\ world'.keepers = world.keepers
        /\ world'.ceil = world.ceil /\ world'.minted = world.minted
        /\ world'.held = [world.held EXCEPT ![a] = world.held[a] + 1]
        /\ world'.debt = [world.debt EXCEPT ![a] = world.debt[a] - 1]
        /\ world'.fees = world.fees /\ world'.given = world.given
    BY <1>1 DEF Return, WorldFields
  <1>3. world.debt[a] > 0
    BY DEF Return
  <1>4. Amounts(world')
    BY <1>1, <1>2, <1>3 DEF Amounts
  <1>5. \A b \in Minters \ {a} : Untouched(world, world', b)
    BY <1>1, <1>2 DEF Amounts, Untouched
  <1>6. Balanced(world', a)
    <2>1. /\ world'.held[a] = world.held[a] + 1 /\ world'.debt[a] = world.debt[a] - 1
          /\ MarketsOf(world') = MarketsOf(world)
      BY <1>1, <1>2 DEF Amounts, MarketsOf
    <2> QED BY <1>2, <1>3, <2>1, BooksOf DEF Balanced
  <1> QED BY <1>2, <1>4, <1>5, <1>6, OneChanged

LEMMA AccrueKeeps ==
    ASSUME WorldOK(world), NEW m \in Controllers, Accrue(m)
    PROVE  WorldOK(world')
  <1>1. DOMAIN world = WorldFields /\ Amounts(world) /\ m \in Minters
    BY DEF WorldOK, Minters
  <1>2. /\ DOMAIN world' = WorldFields
        /\ world'.count = world.count /\ world'.keepers = world.keepers
        /\ world'.ceil = world.ceil /\ world'.minted = world.minted
        /\ world'.held = world.held /\ world'.given = world.given
        /\ world'.debt = [world.debt EXCEPT ![m] = world.debt[m] + 1]
        /\ world'.fees = [world.fees EXCEPT ![m] = world.fees[m] + 1]
    BY <1>1 DEF Accrue, WorldFields
  <1>3. world.debt[m] > 0
    BY DEF Accrue
  <1>4. Amounts(world')
    BY <1>1, <1>2, <1>3 DEF Amounts
  <1>5. \A b \in Minters \ {m} : Untouched(world, world', b)
    BY <1>1, <1>2 DEF Amounts, Untouched
  <1>6. Balanced(world', m)
    <2>1. /\ world'.fees[m] = world.fees[m] + 1 /\ world'.debt[m] = world.debt[m] + 1
          /\ MarketsOf(world') = MarketsOf(world)
      BY <1>1, <1>2 DEF Amounts, MarketsOf
    <2> QED BY <1>1, <1>2, <1>3, <2>1, BooksOf DEF Balanced
  <1> QED BY <1>1, <1>2, <1>4, <1>5, <1>6, OneChanged

LEMMA CollectFeesKeeps ==
    ASSUME WorldOK(world), NEW m \in Controllers, CollectFees(m)
    PROVE  WorldOK(world')
  <1>1. DOMAIN world = WorldFields /\ Amounts(world) /\ m \in Minters
    BY DEF WorldOK, Minters
  <1>2. /\ DOMAIN world' = WorldFields
        /\ world'.count = world.count /\ world'.keepers = world.keepers
        /\ world'.ceil = world.ceil /\ world'.minted = world.minted
        /\ world'.debt = world.debt /\ world'.given = world.given
        /\ world'.held = [world.held EXCEPT ![m] = world.held[m] - world.fees[m]]
        /\ world'.fees = [world.fees EXCEPT ![m] = 0]
    BY <1>1 DEF CollectFees, WorldFields
  <1>3. world.held[m] >= world.fees[m]
    BY DEF CollectFees
  <1>4. Amounts(world')
    BY <1>1, <1>2, <1>3 DEF Amounts
  <1>5. \A b \in Minters \ {m} : Untouched(world, world', b)
    BY <1>1, <1>2 DEF Amounts, Untouched
  <1>6. Balanced(world', m)
    <2>1. /\ world'.fees[m] = 0 /\ world'.held[m] = world.held[m] - world.fees[m]
          /\ MarketsOf(world') = MarketsOf(world)
      BY <1>1, <1>2 DEF Amounts, MarketsOf
    <2> QED BY <1>1, <1>2, <1>3, <2>1, BooksOf DEF Balanced
  <1> QED BY <1>1, <1>2, <1>4, <1>5, <1>6, OneChanged

LEMMA CeilingKeeps ==
    ASSUME NEW w, WorldOK(w), NEW a \in Minters, NEW c \in Nat
    PROVE  WorldOK(WithCeiling(w, a, c))
  <1> DEFINE v == WithCeiling(w, a, c)
             burned == Smaller(w.minted[a] - c, w.held[a])
             change == IF c >= w.minted[a] THEN c - w.minted[a] ELSE 0 - burned
  <1>1. DOMAIN w = WorldFields /\ Amounts(w)
    BY DEF WorldOK
  <1>2. /\ DOMAIN v = WorldFields
        /\ v.count = w.count /\ v.keepers = w.keepers
        /\ v.ceil = [w.ceil EXCEPT ![a] = c]
        /\ v.minted = [w.minted EXCEPT ![a] = w.minted[a] + change]
        /\ v.held = [w.held EXCEPT ![a] = w.held[a] + change]
        /\ v.debt = w.debt /\ v.fees = w.fees /\ v.given = w.given
    BY <1>1 DEF WithCeiling, WorldFields
  <1>3. /\ change \in Int /\ w.minted[a] + change \in Nat /\ w.held[a] + change \in Nat
        /\ c <= w.minted[a] + change
    BY BooksOf DEF Smaller
  <1> HIDE DEF v, change
  <1>4. Amounts(v)
    BY <1>1, <1>2, <1>3 DEF Amounts
  <1>5. \A b \in Minters \ {a} : Untouched(w, v, b)
    BY <1>1, <1>2 DEF Amounts, Untouched
  <1>6. Balanced(v, a)
    <2>1. /\ v.held[a] = w.held[a] + change /\ v.minted[a] = w.minted[a] + change
          /\ v.ceil[a] = c /\ MarketsOf(v) = MarketsOf(w)
      BY <1>1, <1>2 DEF Amounts, MarketsOf
    <2> QED BY <1>2, <1>3, <2>1, BooksOf DEF Balanced
  <1>7. WorldOK(v)
    BY <1>2, <1>4, <1>5, <1>6, OneChanged
  <1> QED BY <1>7 DEF v

LEMMA SetCeilingKeeps ==
    ASSUME WorldOK(world), NEW a \in Minters, NEW c \in Ceilings, SetCeiling(a, c)
    PROVE  WorldOK(world')
  <1>1. c \in Nat
    BY ControllersAssumption
  <1> QED BY <1>1, CeilingKeeps DEF SetCeiling

LEMMA AddMarketKeeps ==
    ASSUME WorldOK(world), AddMarket
    PROVE  WorldOK(world')
  <1> DEFINE v == [world EXCEPT !.count = @ + 1]
             m == Markets[world.count + 1]
  <1>1. DOMAIN world = WorldFields /\ Amounts(world) /\ world.count \in 1 .. Len(Markets)
    BY DEF WorldOK
  <1>2. /\ DOMAIN v = WorldFields
        /\ v.count = world.count + 1 /\ v.keepers = world.keepers
        /\ v.ceil = world.ceil /\ v.minted = world.minted /\ v.held = world.held
        /\ v.debt = world.debt /\ v.fees = world.fees /\ v.given = world.given
    BY <1>1 DEF WorldFields
  <1>3. Len(Markets) \in Nat /\ world.count < Len(Markets)
    BY MintersAssumption DEF AddMarket
  <1> HIDE DEF v
  <1>4. MarketsOf(world) \subseteq MarketsOf(v)
    BY <1>1, <1>2, <1>3 DEF MarketsOf
  <1>5. Books(v)
    BY <1>2, <1>4 DEF WorldOK, Books, Balanced
  <1>6. v.count \in 1 .. Len(Markets)
    BY <1>1, <1>2, <1>3
  <1>7. Amounts(v) /\ v.keepers \in Seq(Keepers)
    BY <1>1, <1>2 DEF Amounts, WorldOK
  <1>8. WorldOK(v)
    BY <1>2, <1>5, <1>6, <1>7 DEF WorldOK
  <1>9. m \in Minters /\ Granted[m] \in Nat
    BY <1>1, <1>3, MintersAssumption DEF Minters
  <1>10. world' = WithCeiling(v, m, Granted[m])
    BY DEF AddMarket, v
  <1> QED BY <1>8, <1>9, <1>10, CeilingKeeps

\* What a move that leaves the books alone changes.
LEMMA BooksAlone ==
    ASSUME NEW w, WorldOK(w), NEW v, DOMAIN v = WorldFields,
           v.count = w.count, v.keepers \in Seq(Keepers),
           v.ceil = w.ceil, v.minted = w.minted, v.held = w.held,
           v.debt = w.debt, v.fees = w.fees, v.given = w.given
    PROVE  WorldOK(v)
  <1>1. Amounts(v)
    BY DEF WorldOK, Amounts
  <1>2. MarketsOf(v) = MarketsOf(w)
    BY DEF MarketsOf
  <1>3. Books(v)
    BY <1>2 DEF WorldOK, Books, Balanced
  <1> QED BY <1>1, <1>3 DEF WorldOK

LEMMA DelistKeeps ==
    ASSUME WorldOK(world), NEW i, Delist(i)
    PROVE  WorldOK(world')
  <1> DEFINE s == world.keepers
  <1>1. DOMAIN world = WorldFields /\ s \in Seq(Keepers) /\ i \in 1 .. Len(s)
    BY DEF WorldOK, Delist
  <1>2. SubSeq(s, 1, i - 1) \in Seq(Keepers) /\ SubSeq(s, i + 1, Len(s)) \in Seq(Keepers)
    BY <1>1
  <1>3. RemoveAt(s, i) \in Seq(Keepers)
    BY <1>2 DEF RemoveAt
  <1>4. /\ DOMAIN world' = WorldFields
        /\ world'.count = world.count /\ world'.keepers = RemoveAt(s, i)
        /\ world'.ceil = world.ceil /\ world'.minted = world.minted
        /\ world'.held = world.held /\ world'.debt = world.debt
        /\ world'.fees = world.fees /\ world'.given = world.given
    BY <1>1 DEF Delist, WorldFields
  <1> HIDE DEF s
  <1> QED BY <1>3, <1>4, BooksAlone

LEMMA DonateKeeps ==
    ASSUME WorldOK(world), Donate
    PROVE  WorldOK(world')
  <1>1. PICK a \in Minters : world' = [world EXCEPT !.held[a] = @ + 1, !.given[a] = @ + 1]
    BY DEF Donate
  <1>2. DOMAIN world = WorldFields /\ Amounts(world)
    BY DEF WorldOK
  <1>3. /\ DOMAIN world' = WorldFields
        /\ world'.count = world.count /\ world'.keepers = world.keepers
        /\ world'.ceil = world.ceil /\ world'.minted = world.minted
        /\ world'.debt = world.debt /\ world'.fees = world.fees
        /\ world'.held = [world.held EXCEPT ![a] = world.held[a] + 1]
        /\ world'.given = [world.given EXCEPT ![a] = world.given[a] + 1]
    BY <1>1, <1>2 DEF WorldFields
  <1>4. Amounts(world')
    BY <1>2, <1>3 DEF Amounts
  <1>5. \A b \in Minters \ {a} : Untouched(world, world', b)
    BY <1>2, <1>3 DEF Amounts, Untouched
  <1>6. Balanced(world', a)
    <2>1. /\ world'.given[a] = world.given[a] + 1 /\ world'.held[a] = world.held[a] + 1
          /\ MarketsOf(world') = MarketsOf(world)
      BY <1>2, <1>3 DEF Amounts, MarketsOf
    <2> QED BY <1>3, <2>1, BooksOf DEF Balanced
  <1> QED BY <1>3, <1>4, <1>5, <1>6, OneChanged

LEMMA OtherMovesKeep ==
    ASSUME WorldOK(world),
           Kill \/ Silence \/ (\E o \in Offices, h \in Holders : HandOver(o, h))
             \/ (\E s \in {"answers", "reverts", "renamed"} : Feed(s))
    PROVE  WorldOK(world')
  <1>1. DOMAIN world = WorldFields /\ world.keepers \in Seq(Keepers)
    BY DEF WorldOK
  <1>2. /\ DOMAIN world' = WorldFields
        /\ world'.count = world.count /\ world'.keepers = world.keepers
        /\ world'.ceil = world.ceil /\ world'.minted = world.minted
        /\ world'.held = world.held /\ world'.debt = world.debt
        /\ world'.fees = world.fees /\ world'.given = world.given
    BY <1>1 DEF Kill, Silence, HandOver, Offices, Feed, WorldFields
  <1> QED BY <1>1, <1>2, BooksAlone

LEMMA MoveKeeps ==
    ASSUME WorldOK(world), Move
    PROVE  WorldOK(world')
  BY DrawKeeps, ReturnKeeps, AccrueKeeps, CollectFeesKeeps, SetCeilingKeeps, AddMarketKeeps,
     DelistKeeps, DonateKeeps, OtherMovesKeep DEF Move

-------------------------------------------------------------------------------
(***************************************************************************)
(* What a bundle counts of an address is at most what was minted and given *)
(* to it, however few keepers and rows of the history were read.           *)
(***************************************************************************)
LEMMA KeepersReadIn ==
    ASSUME NEW w, WorldOK(w), NEW n \in 0 .. Len(w.keepers)
    PROVE  /\ KeepersRead(w, n) \subseteq ToSet(w.keepers)
           /\ ToSet(w.keepers) \subseteq Keepers
  <1>1. w.keepers \in Seq(Keepers)
    BY DEF WorldOK
  <1> QED BY <1>1 DEF KeepersRead, ToSet

LEMMA CausesBelow ==
    ASSUME NEW w, WorldOK(w), NEW a \in Minters, NEW ops
    PROVE  /\ CauseAmount(w, a, ops) \in Nat
           /\ a \in MarketsOf(w) \cup ops => CauseAmount(w, a, ops) = w.held[a]
           /\ a \notin MarketsOf(w) => CauseAmount(w, a, ops) <= w.minted[a] + w.given[a]
  BY BooksOf DEF Balanced, CauseAmount, Larger

LEMMA CountedBelow ==
    ASSUME NEW w, WorldOK(w), NEW answer, NEW ops, ops \subseteq Keepers, NEW n, NEW a \in Minters
    PROVE  LET b == Bundle(w, answer, ops, n)
           IN  Counted(b, a) \in Int /\ Counted(b, a) <= w.minted[a] + w.given[a]
  <1> DEFINE b == Bundle(w, answer, ops, n)
             D == ToSet(SubSeq(w.history, 1, n))
             cause == Amount(b.causes, a)
  <1>1. /\ b.net = [m \in MarketsOf(w) |-> w.debt[m] - w.fees[m]]
        /\ b.ops = [k \in ops |-> Operation(w, k)]
        /\ b.causes = [x \in D |-> CauseAmount(w, x, ops)]
    BY DEF Bundle, Causes, NetMinted
  <1>2. OpsDebt(b) = [k \in ops |-> w.debt[k]]
    BY <1>1 DEF OpsDebt, Operation
  <1>3. cause = IF a \in D THEN CauseAmount(w, a, ops) ELSE 0
    BY <1>1 DEF Amount
  <1>4. /\ Amount(b.net, a) = IF a \in MarketsOf(w) THEN w.debt[a] - w.fees[a] ELSE 0
        /\ Amount(OpsDebt(b), a) = IF a \in ops THEN w.debt[a] ELSE 0
    BY <1>1, <1>2 DEF Amount
  <1>5. MarketsOf(w) \cap ops = {}
    BY ListedIn, MintersAssumption DEF WorldOK
  <1>6. Counted(b, a) = Amount(b.net, a) + Amount(OpsDebt(b), a) + cause
    BY DEF Counted
  <1> HIDE DEF b, D, cause
  <1>7. CASE a \in MarketsOf(w)
    <2>1. cause \in {0, w.held[a]}
      BY <1>3, <1>7, CausesBelow
    <2> QED BY <1>4, <1>5, <1>6, <1>7, <2>1, BooksOf DEF Balanced, b
  <1>8. CASE a \in ops
    <2>1. cause \in {0, w.held[a]}
      BY <1>3, <1>8, CausesBelow
    <2> QED BY <1>4, <1>5, <1>6, <1>8, <2>1, BooksOf DEF Balanced, b
  <1>9. CASE a \notin MarketsOf(w) \cup ops
    <2>1. cause \in Nat /\ cause <= w.minted[a] + w.given[a]
      BY <1>3, <1>9, CausesBelow, BooksOf
    <2> QED BY <1>4, <1>6, <1>9, <2>1, BooksOf DEF b
  <1> QED BY <1>7, <1>8, <1>9

-------------------------------------------------------------------------------
(***************************************************************************)
(* The regulator: with fewer peers, no keeper is allowed more.             *)
(***************************************************************************)
LEMMA IsqrtIs ==
    ASSUME NEW n \in Nat
    PROVE  Isqrt(n) \in Nat
  <1> DEFINE Above == {r \in Nat : (r + 1) * (r + 1) > n}
  <1>1. (n + 1) * (n + 1) > n
    OBVIOUS
  <1>2. PICK r \in Above : \A q \in Above : r <= q
    <2>1. n \in Above
      BY <1>1
    <2> QED BY <2>1, LeastOf
  <1>3. r * r <= n
    <2>1. CASE r = 0
      BY <2>1
    <2>2. CASE r # 0
      <3>1. r - 1 \in Nat /\ r - 1 \notin Above
        BY <1>2, <2>2
      <3>2. ((r - 1) + 1) * ((r - 1) + 1) <= n
        BY <3>1
      <3>3. (r - 1) + 1 = r
        OBVIOUS
      <3> QED BY <3>2, <3>3
    <2> QED BY <2>1, <2>2
  <1>4. r <= r * r
    OBVIOUS
  <1>5. \E q \in 0 .. n : q * q <= n /\ (q + 1) * (q + 1) > n
    BY <1>2, <1>3, <1>4
  <1>6. Isqrt(n) \in 0 .. n
    BY <1>5, Zenon DEF Isqrt
  <1> QED BY <1>6

LEMMA DivGrows ==
    ASSUME NEW x \in Nat, NEW y \in Nat, x <= y, NEW n \in Nat \ {0}
    PROVE  x \div n \in Nat /\ y \div n \in Nat /\ x \div n <= y \div n
  OBVIOUS

LEMMA SquareGrows ==
    ASSUME NEW x \in Nat, NEW y \in Nat, x <= y
    PROVE  x * x \in Nat /\ y * y \in Nat /\ x * x <= y * y
  <1>1. x * x <= y * x
    BY TimesGrows
  <1>2. y * x = x * y /\ x * y <= y * y
    BY TimesGrows
  <1> QED BY <1>1, <1>2

\* The bound of Alpha, Beta and a sum of roots.
Limit(sum) == LET a == Alpha + (Beta * sum) \div One IN (a * a) \div One

LEMMA LimitGrows ==
    ASSUME NEW x \in Nat, NEW y \in Nat, x <= y
    PROVE  Limit(x) \in Nat /\ Limit(y) \in Nat /\ Limit(x) <= Limit(y)
  <1> DEFINE A(z) == Alpha + (Beta * z) \div One
  <1>1. Alpha \in Nat /\ Beta \in Nat /\ One \in Nat \ {0}
    BY ControllersAssumption
  <1>2. Beta * x \in Nat /\ Beta * y \in Nat /\ Beta * x <= Beta * y
    <2>1. Beta * x = x * Beta /\ Beta * y = y * Beta
      BY <1>1
    <2> QED BY <1>1, <2>1, TimesGrows
  <1>3. A(x) \in Nat /\ A(y) \in Nat /\ A(x) <= A(y)
    BY <1>1, <1>2, DivGrows
  <1>4. Limit(x) = (A(x) * A(x)) \div One /\ Limit(y) = (A(y) * A(y)) \div One
    BY DEF Limit
  <1> HIDE DEF A
  <1>5. A(x) * A(x) \in Nat /\ A(y) * A(y) \in Nat /\ A(x) * A(x) <= A(y) * A(y)
    BY <1>3, SquareGrows
  <1> QED BY <1>1, <1>4, <1>5, DivGrows

LEMMA RatioIs ==
    ASSUME NEW d \in Nat, NEW b \in Nat
    PROVE  Ratio(d, b) \in Nat
  <1>1. One \in Nat
    BY ControllersAssumption
  <1>2. d * One \in Nat /\ 1 + d + b \in Nat \ {0}
    BY <1>1
  <1> QED BY <1>2, DivGrows DEF Ratio

\* Over a part of the peers, with the same ratios.
LEMMA MaxRatioGrows ==
    ASSUME NEW P, NEW Q, IsFiniteSet(Q), P \subseteq Q, NEW r, NEW t,
           \A k \in Q : t[k] \in Nat, \A k \in P : r[k] = t[k]
    PROVE  MaxRatio(r, P) \in Nat /\ MaxRatio(t, Q) \in Nat /\ MaxRatio(r, P) <= MaxRatio(t, Q)
  <1> DEFINE root == [k \in P |-> Isqrt(r[k] * One)]
             all == [k \in Q |-> Isqrt(t[k] * One)]
  <1>1. \A k \in Q : Isqrt(t[k] * One) \in Nat
    <2> SUFFICES ASSUME NEW k \in Q PROVE Isqrt(t[k] * One) \in Nat
      OBVIOUS
    <2>1. t[k] * One \in Nat
      BY ControllersAssumption
    <2> QED BY <2>1, IsqrtIs
  <1>2. \A k \in Q : all[k] \in Nat
    BY <1>1
  <1>3. \A k \in P : root[k] = all[k]
    OBVIOUS
  <1>4. MaxRatio(r, P) = Limit(Total(root, P)) /\ MaxRatio(t, Q) = Limit(Total(all, Q))
    BY DEF MaxRatio, Limit
  <1>5. IsFiniteSet(P)
    BY FS_Subset
  <1> HIDE DEF root, all
  <1>6. \A k \in P : root[k] \in Int /\ all[k] \in Int /\ root[k] <= all[k]
    BY <1>2, <1>3
  <1>7. Total(root, P) <= Total(all, P)
    BY <1>5, <1>6, TotalBelow
  <1>8. Total(all, P) <= Total(all, Q) /\ Total(all, Q) \in Nat
    BY <1>2, TotalMonotone, TotalFirst
  <1>9. Total(root, P) \in Nat /\ Total(all, P) \in Nat
    BY <1>2, <1>3, <1>5, TotalFirst
  <1>10. Total(root, P) <= Total(all, Q)
    BY <1>7, <1>8, <1>9
  <1> QED BY <1>4, <1>8, <1>9, <1>10, LimitGrows

LEMMA ProvidableGrows ==
    ASSUME NEW P, NEW Q, IsFiniteSet(Q), P \subseteq Q, NEW r, NEW t,
           \A k \in Q : t[k] \in Nat, \A k \in P : r[k] = t[k],
           NEW d \in Nat, NEW b \in Nat
    PROVE  /\ Providable(r, P, d, b) \in Int /\ Providable(t, Q, d, b) \in Int
           /\ Providable(r, P, d, b) <= Providable(t, Q, d, b)
  <1> DEFINE x == MaxRatio(r, P)
             y == MaxRatio(t, Q)
  <1>1. x \in Nat /\ y \in Nat /\ x <= y
    BY MaxRatioGrows
  <1>2. One \in Nat \ {0} /\ d + b \in Nat
    BY ControllersAssumption
  <1>3. /\ Providable(r, P, d, b) = (x * (d + b)) \div One - d
        /\ Providable(t, Q, d, b) = (y * (d + b)) \div One - d
    BY DEF Providable
  <1> HIDE DEF x, y
  <1>4. x * (d + b) \in Nat /\ y * (d + b) \in Nat /\ x * (d + b) <= y * (d + b)
    BY <1>1, <1>2, TimesGrows
  <1>5. /\ (x * (d + b)) \div One \in Nat /\ (y * (d + b)) \div One \in Nat
        /\ (x * (d + b)) \div One <= (y * (d + b)) \div One
    BY <1>2, <1>4, DivGrows
  <1> QED BY <1>3, <1>5

LEMMA MintersFinite == IsFiniteSet(Minters) /\ IsFiniteSet(Keepers) /\ Keepers \subseteq Minters
  <1>1. Markets \in [1 .. Len(Markets) -> Controllers] /\ Len(Markets) \in Nat
    BY MintersAssumption
  <1>2. Markets \in Surjection(1 .. Len(Markets), Controllers)
    <2>1. \A a \in Controllers : \E i \in 1 .. Len(Markets) : Markets[i] = a
      BY <1>1 DEF Controllers, ToSet
    <2> QED BY <1>1, <2>1 DEF Surjection
  <1>3. IsFiniteSet(1 .. Len(Markets))
    BY <1>1, FS_Interval
  <1>4. IsFiniteSet(Controllers)
    BY <1>2, <1>3, FS_Surjection
  <1>5. IsFiniteSet(Controllers \cup Keepers)
    BY <1>4, MintersAssumption, FS_Union
  <1>6. IsFiniteSet(Minters)
    BY <1>5, MintersAssumption, FS_Union DEF Minters
  <1> QED BY <1>6, MintersAssumption DEF Minters

\* A keeper that was read is allowed no more than the room it had.
LEMMA AllowedBelow ==
    ASSUME NEW w, WorldOK(w), NEW answer, NEW n,
           NEW ops, ops \subseteq ToSet(w.keepers), ToSet(w.keepers) \subseteq Keepers,
           NEW k \in ops
    PROVE  /\ Allowed(Bundle(w, answer, ops, n), k) \in Nat /\ RoomOf(w, k) \in Nat
           /\ Allowed(Bundle(w, answer, ops, n), k) <= RoomOf(w, k)
  <1> DEFINE b == Bundle(w, answer, ops, n)
             all == ToSet(w.keepers)
             r == [j \in ops |-> Ratio(w.debt[j], w.held[j])]
             t == [j \in all |-> Ratio(w.debt[j], w.held[j])]
             raw == Providable(r, ops \ {k}, w.debt[k], w.held[k])
             own == Providable(t, all \ {k}, w.debt[k], w.held[k])
  <1>1. b.ops = [j \in ops |-> Operation(w, j)] /\ b.killed = w.killed
    BY DEF Bundle
  <1>2. [j \in DOMAIN b.ops |-> Ratio(b.ops[j].debt, b.ops[j].balance)] = r
    BY <1>1 DEF Operation
  <1>3. /\ Peers(b.ops, k) = ops \ {k} /\ b.ops[k].debt = w.debt[k]
        /\ b.ops[k].balance = w.held[k] /\ b.ops[k].ceiling = w.ceil[k]
    BY <1>1 DEF Peers, Operation
  <1> HIDE DEF b
  <1>4. Allowed(b, k) = IF w.killed THEN 0 ELSE Larger(0, Smaller(raw, w.ceil[k] - w.debt[k]))
    BY <1>1, <1>2, <1>3 DEF Allowed
  <1>5. RoomOf(w, k) = Smaller(IF w.killed THEN 0 ELSE Larger(0, own), w.held[k])
    BY DEF RoomOf, ProvideAllowed
  <1>6. k \in Minters /\ k \notin Controllers /\ k \notin MarketsOf(w)
    BY MintersFinite, MintersAssumption, ListedIn DEF WorldOK
  <1>7. /\ w.held[k] \in Nat /\ w.debt[k] \in Nat /\ w.ceil[k] \in Nat
        /\ w.ceil[k] - w.debt[k] <= w.held[k]
    BY <1>6, BooksOf DEF Balanced
  <1>8. raw \in Int /\ own \in Int /\ raw <= own
    <2>1. \A j \in all : t[j] \in Nat
      <3> SUFFICES ASSUME NEW j \in all PROVE Ratio(w.debt[j], w.held[j]) \in Nat
        OBVIOUS
      <3>1. j \in Minters
        BY MintersFinite
      <3> QED BY <3>1, BooksOf, RatioIs
    <2>2. \A j \in ops : r[j] = t[j]
      OBVIOUS
    <2>3. IsFiniteSet(all \ {k}) /\ ops \ {k} \subseteq all \ {k}
      BY MintersFinite, FS_Subset
    <2> HIDE DEF all, r, t
    <2>4. /\ \A j \in all \ {k} : t[j] \in Nat
          /\ \A j \in ops \ {k} : r[j] = t[j]
      BY <2>1, <2>2
    <2> QED BY <1>7, <2>3, <2>4, ProvidableGrows
  <1> HIDE DEF raw, own
  <1>9. Allowed(b, k) \in Nat /\ RoomOf(w, k) \in Nat /\ Allowed(b, k) <= RoomOf(w, k)
    BY <1>4, <1>5, <1>7, <1>8 DEF Larger, Smaller
  <1> QED BY <1>9 DEF b

LEMMA EffectiveBelow ==
    ASSUME NEW w, WorldOK(w), NEW answer, NEW n,
           NEW ops, ops \subseteq ToSet(w.keepers), ToSet(w.keepers) \subseteq Keepers
    PROVE  LET b == Bundle(w, answer, ops, n)
           IN  Effective(b) \in Nat /\ b.room \in Nat /\ Effective(b) <= b.room
  <1> DEFINE b == Bundle(w, answer, ops, n)
             all == ToSet(w.keepers)
             f == [k \in DOMAIN b.ops |-> Allowed(b, k)]
             g == [k \in all |-> RoomOf(w, k)]
  <1>1. DOMAIN b.ops = ops /\ b.room = Total(g, all)
    BY DEF Bundle, RoomLeft
  <1>2. Effective(b) = Total(f, ops)
    BY <1>1 DEF Effective
  <1>3. \A k \in ops : f[k] = Allowed(b, k) /\ g[k] = RoomOf(w, k)
    BY <1>1
  <1>4. \A k \in ops : f[k] \in Nat /\ g[k] \in Nat /\ f[k] <= g[k]
    BY <1>3, AllowedBelow
  <1>5. \A k \in all : g[k] \in Nat
    <2> SUFFICES ASSUME NEW k \in all PROVE RoomOf(w, k) \in Nat
      OBVIOUS
    <2>1. {k} \subseteq all
      OBVIOUS
    <2> QED BY <2>1, AllowedBelow
  <1>6. IsFiniteSet(ops) /\ IsFiniteSet(all)
    BY MintersFinite, FS_Subset
  <1> HIDE DEF b, all, f, g
  <1>7. Total(f, ops) \in Nat /\ Total(g, ops) \in Nat /\ Total(g, all) \in Nat
    BY <1>4, <1>5, <1>6, TotalFirst
  <1>8. Total(f, ops) <= Total(g, ops)
    BY <1>4, <1>6, TotalBelow
  <1>9. Total(g, ops) <= Total(g, all)
    BY <1>5, <1>6, TotalMonotone DEF all
  <1>10. Effective(b) \in Nat /\ b.room \in Nat /\ Effective(b) <= b.room
    BY <1>1, <1>2, <1>7, <1>8, <1>9
  <1> QED BY <1>10 DEF b

LEMMA BurnBelow ==
    ASSUME NEW w, WorldOK(w), NEW answer, NEW n, NEW ops, ops \subseteq Keepers
    PROVE  LET b == Bundle(w, answer, ops, n)
           IN  Total(OpsDebt(b), DOMAIN b.ops) \in Nat /\ Total(OpsDebt(b), DOMAIN b.ops) <= b.out
  <1> DEFINE b == Bundle(w, answer, ops, n)
             f == [k \in ops |-> w.debt[k]]
  <1>1. OpsDebt(b) = f /\ DOMAIN b.ops = ops /\ b.out = Total(w.debt, Keepers)
    BY DEF Bundle, OpsDebt, Operation
  <1>2. \A k \in Keepers : w.debt[k] \in Nat
    BY MintersFinite, BooksOf
  <1>3. \A k \in ops : f[k] = w.debt[k] /\ f[k] \in Int /\ w.debt[k] \in Int /\ f[k] <= w.debt[k]
    BY <1>2
  <1>4. IsFiniteSet(ops) /\ IsFiniteSet(Keepers)
    BY MintersFinite, FS_Subset
  <1> HIDE DEF b, f
  <1>5. Total(f, ops) <= Total(w.debt, ops)
    BY <1>3, <1>4, TotalBelow
  <1>6. Total(w.debt, ops) <= Total(w.debt, Keepers)
    BY <1>2, <1>4, TotalMonotone
  <1>7. Total(f, ops) \in Nat /\ Total(w.debt, ops) \in Nat /\ Total(w.debt, Keepers) \in Nat
    BY <1>2, <1>3, <1>4, TotalFirst
  <1>8. Total(OpsDebt(b), DOMAIN b.ops) \in Nat /\ Total(OpsDebt(b), DOMAIN b.ops) <= b.out
    BY <1>1, <1>5, <1>6, <1>7
  <1> QED BY <1>8 DEF b

-------------------------------------------------------------------------------
(***************************************************************************)
(* A bundle counts no address for more than it was minted and given, finds *)
(* no more room than there was and no more debt than there is.             *)
(***************************************************************************)
BundleFields ==
    {"supply", "net", "ops", "killed", "causes", "admin", "nodes", "windows", "labelled",
     "dated", "minted", "given", "room", "out"}

CountsWithin(b) ==
    /\ b.minted \in [Minters -> Nat] /\ b.given \in [Minters -> Nat]
    /\ \A a \in Minters : Counted(b, a) \in Int /\ Counted(b, a) <= b.minted[a] + b.given[a]

RoomWithin(b) ==
    /\ Effective(b) \in Nat /\ b.room \in Nat /\ Effective(b) <= b.room
    /\ Total(OpsDebt(b), DOMAIN b.ops) <= b.out

BundleSound(b) ==
    DOMAIN b = BundleFields /\ b.supply \in Int /\ CountsWithin(b) /\ RoomWithin(b)

LEMMA SupplyIs ==
    ASSUME NEW w, WorldOK(w)
    PROVE  Supply(w) \in Nat
  <1>1. \A a \in Minters : w.minted[a] \in Nat
    BY DEF WorldOK, Amounts
  <1> QED BY <1>1, MintersFinite, TotalFirst DEF Supply

LEMMA BundleIsSound ==
    ASSUME NEW w, WorldOK(w), NEW n \in 0 .. Len(w.keepers), NEW h, NEW d \in Int
    PROVE  BundleSound(Bundle(w, Supply(w) + d, KeepersRead(w, n), h))
  <1> DEFINE ops == KeepersRead(w, n)
             answer == Supply(w) + d
             b == Bundle(w, answer, ops, h)
  <1>1. ops \subseteq ToSet(w.keepers) /\ ToSet(w.keepers) \subseteq Keepers
    BY KeepersReadIn
  <1>2. answer \in Int
    BY SupplyIs
  <1>3. DOMAIN b = BundleFields /\ b.supply = answer /\ b.minted = w.minted /\ b.given = w.given
    BY DEF Bundle, BundleFields
  <1> HIDE DEF ops, answer
  <1>4. CountsWithin(b)
    <2>1. ops \subseteq Keepers
      BY <1>1
    <2>2. \A a \in Minters : Counted(b, a) \in Int /\ Counted(b, a) <= w.minted[a] + w.given[a]
      BY <2>1, CountedBelow
    <2> HIDE DEF b
    <2> QED BY <1>3, <2>2 DEF CountsWithin, WorldOK, Amounts
  <1>5. RoomWithin(b)
    <2>1. Effective(b) \in Nat /\ b.room \in Nat /\ Effective(b) <= b.room
      BY <1>1, EffectiveBelow
    <2>2. ops \subseteq Keepers
      BY <1>1
    <2>3. Total(OpsDebt(b), DOMAIN b.ops) <= b.out
      BY <2>2, BurnBelow
    <2> HIDE DEF b
    <2> QED BY <2>1, <2>3 DEF RoomWithin
  <1>6. BundleSound(b)
    BY <1>2, <1>3, <1>4, <1>5 DEF BundleSound
  <1> QED BY <1>6 DEF b, ops, answer

-------------------------------------------------------------------------------
(***************************************************************************)
(* The inductive invariant.                                                *)
(***************************************************************************)
Gated == pending # Absent => BundleSound(pending)

PromotedSound ==
    /\ promoted \in Seq(ToSet(promoted))
    /\ \A i \in 1 .. Len(promoted) : BundleSound(promoted[i])

TreesHold ==
    /\ DOMAIN trees \subseteq 1 .. Len(promoted)
    /\ \A i \in DOMAIN trees : Decomposes(promoted[i]) /\ trees[i].supply = promoted[i].supply

StressesHold ==
    /\ DOMAIN stresses \subseteq 1 .. Len(promoted)
    /\ \A i \in DOMAIN stresses :
          /\ stresses[i].effective = Effective(promoted[i])
          /\ stresses[i].effective <= stresses[i].naive
          /\ stresses[i].burn = Total(OpsDebt(promoted[i]), DOMAIN promoted[i].ops)

FactoryInv == WorldOK(world) /\ Gated /\ PromotedSound /\ TreesHold /\ StressesHold

LEMMA FactoryStarts == FactoryInit => FactoryInv
  <1> SUFFICES ASSUME FactoryInit PROVE FactoryInv
    OBVIOUS
  <1>1. WorldOK(world)
    BY GenesisOK DEF FactoryInit
  <1>2. promoted = <<>> /\ DOMAIN trees = {} /\ DOMAIN stresses = {} /\ pending = Absent
    BY DEF FactoryInit
  <1>3. PromotedSound
    BY <1>2 DEF PromotedSound
  <1> QED BY <1>1, <1>2, <1>3 DEF FactoryInv, Gated, TreesHold, StressesHold

\* Nothing that is kept changes.
LEMMA KeptStays ==
    ASSUME FactoryInv, UNCHANGED <<promoted, trees, stresses>>
    PROVE  PromotedSound' /\ TreesHold' /\ StressesHold'
  BY DEF FactoryInv, PromotedSound, TreesHold, StressesHold

LEMMA AssembleKeeps ==
    ASSUME FactoryInv, Assemble
    PROVE  FactoryInv'
  <1>1. UNCHANGED <<world, promoted, trees, stresses>>
    BY DEF Assemble
  <1>2. WorldOK(world)'
    BY <1>1 DEF FactoryInv
  <1>3. Gated'
    <2>1. CASE UNCHANGED pending
      BY <2>1 DEF FactoryInv, Gated
    <2>2. CASE \E n \in 0 .. Len(world.keepers), h \in 0 .. Len(world.history), d \in {0} \cup Misreads :
                   pending' = Bundle(world, Supply(world) + d, KeepersRead(world, n), h)
      <3>1. \A d \in {0} \cup Misreads : d \in Int
        BY ControllersAssumption
      <3>2. BundleSound(pending')
        BY <2>2, <3>1, BundleIsSound DEF FactoryInv
      <3> QED BY <3>2 DEF Gated
    <2> QED BY <2>1, <2>2 DEF Assemble
  <1> QED BY <1>1, <1>2, <1>3, KeptStays DEF FactoryInv

\* A sequence is one of its own elements.
LEMMA OwnSequence ==
    ASSUME NEW S, NEW t \in Seq(S)
    PROVE  t \in Seq(ToSet(t))
  <1> DEFINE T == ToSet(t)
             n == Len(t)
  <1>1. n \in Nat /\ t \in [1 .. n -> S]
    OBVIOUS
  <1>2. \A i \in 1 .. n : t[i] \in T
    BY <1>1 DEF ToSet
  <1> HIDE DEF T, n
  <1>3. t \in [1 .. n -> T]
    BY <1>1, <1>2
  <1>4. t \in Seq(T)
    BY <1>1, <1>3
  <1> QED BY <1>4 DEF T

\* A sequence with one more element.
LEMMA Appended ==
    ASSUME NEW s, s \in Seq(ToSet(s)), NEW e
    PROVE  /\ Append(s, e) \in Seq(ToSet(Append(s, e)))
           /\ Len(s) \in Nat /\ Len(Append(s, e)) = Len(s) + 1
           /\ \A i \in 1 .. Len(s) : Append(s, e)[i] = s[i]
           /\ Append(s, e)[Len(s) + 1] = e
  <1> DEFINE S == ToSet(s) \cup {e}
             t == Append(s, e)
  <1>1. ToSet(s) \subseteq S /\ e \in S
    OBVIOUS
  <1> HIDE DEF S
  <1>2. s \in Seq(S)
    BY <1>1
  <1>3. /\ t \in Seq(S) /\ Len(s) \in Nat /\ Len(t) = Len(s) + 1
        /\ \A i \in 1 .. Len(s) : t[i] = s[i]
        /\ t[Len(s) + 1] = e
    BY <1>1, <1>2
  <1> HIDE DEF t
  <1>4. t \in Seq(ToSet(t))
    BY <1>3, OwnSequence
  <1> QED BY <1>3, <1>4 DEF t

LEMMA HarnessKeeps ==
    ASSUME FactoryInv, Harness
    PROVE  FactoryInv'
  <1>1. pending # Absent /\ pending' = Absent /\ UNCHANGED <<world, trees, stresses>>
    BY DEF Harness
  <1>2. WorldOK(world)' /\ Gated'
    BY <1>1 DEF FactoryInv, Gated
  <1> DEFINE b == pending
  <1>3. PICK legs \in (SUBSET {Absent, Supply(world)}) \ {{}} :
           promoted' = IF Passes(pending, legs) THEN Append(promoted, b) ELSE promoted
    BY DEF Harness
  <1>4. BundleSound(b)
    BY <1>1 DEF FactoryInv, Gated
  <1> HIDE DEF b
  <1>5. CASE ~Passes(pending, legs)
    BY <1>1, <1>2, <1>3, <1>5, KeptStays DEF FactoryInv
  <1>6. CASE Passes(pending, legs)
    <2> DEFINE last == Len(promoted)
    <2>1. promoted \in Seq(ToSet(promoted)) /\ promoted' = Append(promoted, b)
      BY <1>3, <1>6 DEF FactoryInv, PromotedSound
    <2>2. /\ promoted' \in Seq(ToSet(promoted')) /\ last \in Nat /\ Len(promoted') = last + 1
          /\ \A i \in 1 .. last : promoted'[i] = promoted[i]
          /\ promoted'[last + 1] = b
      BY <2>1, Appended
    <2> HIDE DEF last
    <2>6. \A i \in 1 .. last + 1 : BundleSound(promoted'[i])
      <3>1. \A i \in 1 .. last + 1 : i \in 1 .. last \/ i = last + 1
        BY <2>2
      <3> QED BY <1>4, <2>2, <3>1 DEF FactoryInv, PromotedSound, last
    <2>7. PromotedSound'
      BY <2>2, <2>6 DEF PromotedSound
    <2>8. 1 .. last \subseteq 1 .. last + 1
      BY <2>2
    <2>9. TreesHold' /\ StressesHold'
      BY <1>1, <2>2, <2>8 DEF FactoryInv, TreesHold, StressesHold, last
    <2> QED BY <1>1, <1>2, <2>7, <2>9 DEF FactoryInv
  <1> QED BY <1>5, <1>6

\* An artifact over the last bundle.
LEMMA WithLast ==
    ASSUME NEW s, NEW n \in Nat \ {0}, DOMAIN s \subseteq 1 .. n, NEW a
    PROVE  /\ DOMAIN With(s, n, a) \subseteq 1 .. n
           /\ \A i \in DOMAIN With(s, n, a) :
                 \/ With(s, n, a)[i] = a /\ i = n
                 \/ With(s, n, a)[i] = s[i] /\ i \in DOMAIN s
  <1> DEFINE t == With(s, n, a)
  <1>1. t = [i \in DOMAIN s \cup {n} |-> IF i = n THEN a ELSE s[i]]
    BY DEF With
  <1> HIDE DEF t
  <1>2. DOMAIN t = DOMAIN s \cup {n} /\ n \in 1 .. n
    BY <1>1
  <1>3. \A i \in DOMAIN t : (t[i] = a /\ i = n) \/ (t[i] = s[i] /\ i \in DOMAIN s)
    BY <1>1
  <1>4. DOMAIN t \subseteq 1 .. n
    BY <1>2
  <1> QED BY <1>3, <1>4 DEF t

LEMMA LastPromoted ==
    ASSUME FactoryInv, promoted # <<>>
    PROVE  Len(promoted) \in Nat \ {0}
  BY DEF FactoryInv, PromotedSound

LEMMA FoldTreeKeeps ==
    ASSUME FactoryInv, FoldTree
    PROVE  FactoryInv'
  <1> DEFINE n == Len(promoted)
             b == promoted[n]
  <1>1. UNCHANGED <<world, pending, promoted, stresses>> /\ n \in Nat \ {0}
    BY LastPromoted DEF FoldTree
  <1>2. Decomposes(b) /\ trees' = With(trees, n, TreeOf(b)) /\ TreeOf(b).supply = b.supply
    BY DEF FoldTree, TreeHolds, TreeOf
  <1>3. TreesHold'
    <2>1. /\ DOMAIN trees \subseteq 1 .. n
          /\ \A i \in DOMAIN trees : Decomposes(promoted[i]) /\ trees[i].supply = promoted[i].supply
      BY DEF FactoryInv, TreesHold
    <2> DEFINE t == TreeOf(b)
    <2>2. t.supply = b.supply
      BY <1>2
    <2> HIDE DEF t
    <2>3. /\ DOMAIN trees' \subseteq 1 .. n
          /\ \A i \in DOMAIN trees' : (trees'[i] = t /\ i = n) \/ (trees'[i] = trees[i] /\ i \in DOMAIN trees)
      BY <1>1, <1>2, <2>1, WithLast DEF t
    <2> QED BY <1>1, <1>2, <2>1, <2>2, <2>3 DEF TreesHold
  <1>4. WorldOK(world)' /\ Gated' /\ PromotedSound' /\ StressesHold'
    BY <1>1 DEF FactoryInv, Gated, PromotedSound, StressesHold
  <1> QED BY <1>3, <1>4 DEF FactoryInv

LEMMA StressKeeps ==
    ASSUME FactoryInv, Stress
    PROVE  FactoryInv'
  <1> DEFINE n == Len(promoted)
             b == promoted[n]
             m == Mechanism(b)
             OK(x, i) == /\ x.effective = Effective(promoted[i])
                         /\ x.effective <= x.naive
                         /\ x.burn = Total(OpsDebt(promoted[i]), DOMAIN promoted[i].ops)
  <1>1. UNCHANGED <<world, pending, promoted, trees>> /\ n \in Nat \ {0}
    BY LastPromoted DEF Stress
  <1>2. OK(m, n) /\ stresses' = With(stresses, n, m)
    BY DEF Stress, Mechanism
  <1>3. StressesHold'
    <2>1. DOMAIN stresses \subseteq 1 .. n /\ \A i \in DOMAIN stresses : OK(stresses[i], i)
      BY DEF FactoryInv, StressesHold
    <2> HIDE DEF m, OK
    <2>2. /\ DOMAIN stresses' \subseteq 1 .. n
          /\ \A i \in DOMAIN stresses' :
                \/ stresses'[i] = m /\ i = n
                \/ stresses'[i] = stresses[i] /\ i \in DOMAIN stresses
      BY <1>1, <1>2, <2>1, WithLast
    <2>3. \A i \in DOMAIN stresses' : OK(stresses'[i], i)
      BY <1>2, <2>1, <2>2
    <2> QED BY <1>1, <2>2, <2>3 DEF StressesHold, OK
  <1>4. WorldOK(world)' /\ Gated' /\ PromotedSound' /\ TreesHold'
    BY <1>1 DEF FactoryInv, Gated, PromotedSound, TreesHold
  <1> QED BY <1>3, <1>4 DEF FactoryInv

LEMMA FactoryStep == FactoryInv /\ [FactoryNext]_factory => FactoryInv'
  <1> SUFFICES ASSUME FactoryInv, [FactoryNext]_factory PROVE FactoryInv'
    OBVIOUS
  <1>1. CASE Move
    <2>1. WorldOK(world)'
      BY <1>1, MoveKeeps DEF FactoryInv
    <2>2. UNCHANGED <<pending, promoted, trees, stresses>>
      BY <1>1 DEF Move
    <2> QED BY <2>1, <2>2, KeptStays DEF FactoryInv, Gated
  <1>2. CASE UNCHANGED factory
    <2>1. UNCHANGED <<world, pending, promoted, trees, stresses>>
      BY <1>2 DEF factory
    <2> QED BY <2>1, KeptStays DEF FactoryInv, Gated
  <1> QED BY <1>1, <1>2, AssembleKeeps, HarnessKeeps, FoldTreeKeeps, StressKeeps DEF FactoryNext

-------------------------------------------------------------------------------
\* What a bundle that decomposes leaves uncounted.
LEMMA UncountedWithin ==
    ASSUME NEW b, BundleSound(b), Decomposes(b)
    PROVE  LET short == Total([a \in Minters |-> Larger(b.minted[a] - Counted(b, a), 0)], Minters)
               missing == short - Total(b.given, Minters)
                            - Larger(Total(b.minted, Minters) - b.supply, 0)
           IN  Bound * missing <= b.supply
  <1> DEFINE lacking == [a \in Minters |-> Larger(b.minted[a] - Counted(b, a), 0)]
             short == Total(lacking, Minters)
             minted == Total(b.minted, Minters)
             given == Total(b.given, Minters)
             counted == [a \in Minters |-> Counted(b, a)]
             both == [a \in Minters |-> b.minted[a] + b.given[a]]
             rest == [a \in Minters |-> both[a] - counted[a]]
             missing == short - given - Larger(minted - b.supply, 0)
  <1>1. IsFiniteSet(Minters)
    BY MintersFinite
  <1>2. \A a \in Minters : b.minted[a] \in Nat /\ b.given[a] \in Nat
    BY DEF BundleSound, CountsWithin
  <1>3. \A a \in Minters : counted[a] \in Int /\ counted[a] <= b.minted[a] + b.given[a]
    BY DEF BundleSound, CountsWithin
  <1>4. \A a \in Minters : both[a] = b.minted[a] + b.given[a] /\ both[a] \in Int
    BY <1>2
  <1>5. \A a \in Minters : rest[a] = both[a] - counted[a] /\ rest[a] \in Int
    BY <1>3, <1>4
  <1>6. \A a \in Minters : lacking[a] = Larger(b.minted[a] - counted[a], 0)
    OBVIOUS
  <1>7. Unexplained(b) = b.supply - Total(counted, Minters)
    BY DEF Unexplained
  <1> HIDE DEF lacking, counted, both, rest
  <1>8. \A a \in Minters : lacking[a] \in Int /\ lacking[a] <= rest[a]
    BY <1>2, <1>3, <1>4, <1>5, <1>6 DEF Larger
  <1>9. short <= Total(rest, Minters)
    BY <1>1, <1>5, <1>8, TotalBelow
  <1>10. Total(both, Minters) = minted + given
    BY <1>1, <1>2, <1>4, TotalPlus
  <1>11. Total(both, Minters) = Total(counted, Minters) + Total(rest, Minters)
    <2>1. \A a \in Minters : both[a] = counted[a] + rest[a]
      BY <1>3, <1>4, <1>5
    <2> QED BY <1>1, <1>3, <1>5, <2>1, TotalPlus
  <1>12. /\ minted \in Int /\ given \in Int /\ short \in Int
         /\ Total(counted, Minters) \in Int /\ Total(rest, Minters) \in Int
    <2>1. \A a \in Minters : b.minted[a] \in Int /\ b.given[a] \in Int
      BY <1>2
    <2>2. minted \in Int /\ given \in Int
      BY <1>1, <2>1, TotalStep
    <2>3. short \in Int
      BY <1>1, <1>8, TotalStep
    <2> QED BY <1>1, <1>3, <1>5, <2>2, <2>3, TotalStep
  <1> HIDE DEF short, minted, given
  <1>13. b.supply \in Int
    BY DEF BundleSound
  <1>14. missing \in Int /\ missing <= Unexplained(b) /\ Unexplained(b) \in Int
    BY <1>7, <1>9, <1>10, <1>11, <1>12, <1>13 DEF Larger
  <1> HIDE DEF missing
  <1> DEFINE gap == Gap(Unexplained(b), 0)
  <1>15. gap \in Nat /\ missing <= gap
    BY <1>14 DEF Gap
  <1>16. Bound * gap <= b.supply /\ Bound \in Nat
    BY ControllersAssumption DEF Decomposes
  <1> HIDE DEF gap
  <1>17. Bound * missing <= Bound * gap
    <2>1. Bound * (gap - missing) >= 0
      <3>1. gap - missing \in Nat
        BY <1>14, <1>15
      <3> QED BY <1>16, <3>1
    <2>2. Bound * (gap - missing) = Bound * gap - Bound * missing
      BY <1>14, <1>15, <1>16
    <2> QED BY <1>14, <1>15, <1>16, <2>1, <2>2
  <1>18. Bound * missing <= b.supply
    BY <1>13, <1>14, <1>15, <1>16, <1>17
  <1> QED BY <1>18 DEF missing, short, lacking, minted, given

\* Whatever the chain does between the runs, however short the keeper walk or the
\* log, a kept tree counts no minter for more than was minted and given to it, and
\* leaves uncounted no more than DET-15's bound (tree.py, harness.py 1112-1148).
THEOREM TreesCountEach == FactorySpec => []TreeCountsEach
  <1>1. FactoryInv => TreeCountsEach
    <2> SUFFICES ASSUME FactoryInv, NEW i \in DOMAIN trees
                 PROVE  LET b == promoted[i]
                            short == Total([a \in Minters |-> Larger(b.minted[a] - Counted(b, a), 0)],
                                           Minters)
                            missing == short - Total(b.given, Minters)
                                         - Larger(Total(b.minted, Minters) - b.supply, 0)
                        IN  /\ Bound * missing <= b.supply
                            /\ \A a \in Minters : Counted(b, a) <= b.minted[a] + b.given[a]
      BY DEF TreeCountsEach
    <2> DEFINE c == promoted[i]
    <2>1. BundleSound(c) /\ Decomposes(c)
      BY DEF FactoryInv, TreesHold, PromotedSound
    <2>2. \A a \in Minters : Counted(c, a) <= c.minted[a] + c.given[a]
      BY <2>1 DEF BundleSound, CountsWithin
    <2> HIDE DEF c
    <2>3. LET short == Total([a \in Minters |-> Larger(c.minted[a] - Counted(c, a), 0)], Minters)
              missing == short - Total(c.given, Minters) - Larger(Total(c.minted, Minters) - c.supply, 0)
          IN  Bound * missing <= c.supply
      BY <2>1, UncountedWithin
    <2> QED BY <2>2, <2>3 DEF c
  <1> QED BY <1>1, FactoryStarts, FactoryStep, PTL DEF FactorySpec

\* No stress artifact prints room to mint that the regulator did not allow or the
\* keepers did not hold, or debt to burn that they did not have (llamma.py, DET-45).
THEOREM HeadroomIsWithin == FactorySpec => []HeadroomWithin
  <1>1. FactoryInv => HeadroomWithin
    <2> SUFFICES ASSUME FactoryInv, NEW i \in DOMAIN stresses
                 PROVE  /\ stresses[i].effective <= Smaller(promoted[i].room, stresses[i].naive)
                        /\ stresses[i].burn <= promoted[i].out
      BY DEF HeadroomWithin
    <2>1. RoomWithin(promoted[i])
      BY DEF FactoryInv, StressesHold, PromotedSound, BundleSound
    <2> QED BY <2>1 DEF FactoryInv, StressesHold, RoomWithin, Smaller
  <1> QED BY <1>1, FactoryStarts, FactoryStep, PTL DEF FactorySpec

\* A supply answered too high, and confirmed by a head that had moved, is no tree's
\* denominator but for DET-15's bound: the counts it is held against are each at most
\* what was minted and given (DET-62, DET-15; harness.py 417-484, 1112-1148).
THEOREM SuppliesAreWithin == FactorySpec => []SupplyShownWithin
  <1>1. ASSUME NEW b, BundleSound(b), Decomposes(b)
        PROVE  Bound * (b.supply - Total(b.minted, Minters) - Total(b.given, Minters)) <= b.supply
    <2> DEFINE counted == [a \in Minters |-> Counted(b, a)]
               both == [a \in Minters |-> b.minted[a] + b.given[a]]
               minted == Total(b.minted, Minters)
               given == Total(b.given, Minters)
               all == Total(counted, Minters)
    <2>1. IsFiniteSet(Minters)
      BY MintersFinite
    <2>2. \A a \in Minters : b.minted[a] \in Int /\ b.given[a] \in Int
      BY <1>1 DEF BundleSound, CountsWithin
    <2>3. \A a \in Minters : counted[a] \in Int /\ counted[a] <= both[a]
      BY <1>1 DEF BundleSound, CountsWithin
    <2>4. \A a \in Minters : both[a] = b.minted[a] + b.given[a] /\ both[a] \in Int
      BY <2>2
    <2>5. Unexplained(b) = b.supply - all
      BY DEF Unexplained
    <2> HIDE DEF counted, both
    <2>6. all <= Total(both, Minters)
      BY <2>1, <2>3, <2>4, TotalBelow
    <2>7. Total(both, Minters) = minted + given
      BY <2>1, <2>2, <2>4, TotalPlus
    <2>8. minted \in Int /\ given \in Int /\ all \in Int
      BY <2>1, <2>2, <2>3, TotalStep
    <2>9. b.supply \in Int /\ Bound \in Nat
      BY <1>1, ControllersAssumption DEF BundleSound
    <2> HIDE DEF minted, given, all
    <2> DEFINE over == b.supply - minted - given
               gap == Gap(Unexplained(b), 0)
    <2>10. over \in Int /\ gap \in Nat /\ over <= gap
      BY <2>5, <2>6, <2>7, <2>8, <2>9 DEF Gap
    <2>11. Bound * gap <= b.supply
      BY <1>1 DEF Decomposes
    <2> HIDE DEF over, gap
    <2>12. Bound * over <= Bound * gap
      <3>1. gap - over \in Nat
        BY <2>10
      <3>2. Bound * (gap - over) \in Nat /\ Bound * (gap - over) = Bound * gap - Bound * over
        BY <2>9, <2>10, <3>1
      <3>3. Bound * gap \in Int /\ Bound * over \in Int
        BY <2>9, <2>10
      <3> QED BY <3>2, <3>3
    <2>13. Bound * gap \in Int /\ Bound * over \in Int
      BY <2>9, <2>10
    <2>14. Bound * over <= b.supply
      BY <2>9, <2>11, <2>12, <2>13
    <2> QED BY <2>14 DEF over, minted, given
  <1>2. FactoryInv => SupplyShownWithin
    <2> SUFFICES ASSUME FactoryInv, NEW i \in DOMAIN trees
                 PROVE  Bound * (trees[i].supply - Total(promoted[i].minted, Minters)
                                                 - Total(promoted[i].given, Minters)) <= trees[i].supply
      BY DEF SupplyShownWithin
    <2>1. /\ BundleSound(promoted[i]) /\ Decomposes(promoted[i])
          /\ trees[i].supply = promoted[i].supply
      BY DEF FactoryInv, TreesHold, PromotedSound
    <2> QED BY <1>1, <2>1
  <1> QED BY <1>2, FactoryStarts, FactoryStep, PTL DEF FactorySpec

-------------------------------------------------------------------------------
(***************************************************************************)
(* resolve_ema_window.  The recursion is over oracles not yet seen: a call *)
(* with fewer of them left is decided first, so that the function there is *)
(* exists, and what each call returns is said of the calls it makes.       *)
(***************************************************************************)
\* The candidates of an oracle, one after another, where r answers for chained ones.
Walk(r, base, q) == FoldLeft(LAMBDA acc, a : Visit(r, acc, a), base, q)

Walks(r, base, q, D, h) ==
    h = [s \in D |-> IF s = {} THEN base ELSE Visit(r, h[s \ {Max(s)}], q[Max(s)])]

LEMMA WalkIs ==
    ASSUME NEW r, NEW base, NEW q
    PROVE  Walk(r, base, q) = (CHOOSE h : Walks(r, base, q, SUBSET DOMAIN q, h))[DOMAIN q]
  BY DEF Walk, FoldLeft, MapThenFoldSet, Walks

\* What a call starts with, how it ends, and what it returns where r answers its own.
Entry(c) == [best |-> 0, seen |-> c.seen \cup {c.oracle}, ok |-> TRUE]
Ended(found) == [found EXCEPT !.ok = @ /\ found.best > 0]
Heard(r, c) ==
    IF c.oracle \in c.seen THEN [best |-> 0, seen |-> c.seen, ok |-> TRUE]
    ELSE Ended(Walk(r, Entry(c), feeds[c.oracle]))

Resolves(r) == r = [c \in Calls |-> Heard(r, c)]

LEMMA EmaWindowIs ==
    ASSUME NEW m
    PROVE  EmaWindow(m) = (CHOOSE r : Resolves(r))[[oracle |-> OracleOf[m], seen |-> {}]]
  BY DEF EmaWindow, Resolves, Heard, Entry, Walk, Ended

LEMMA WalksExist ==
    ASSUME NEW r, NEW base, NEW q, NEW n \in Nat
    PROVE  \E h : Walks(r, base, q, SUBSET (1 .. n), h)
  <1> DEFINE Has(k) == \E h : Walks(r, base, q, SUBSET (1 .. k), h)
             B == {k \in Nat : ~Has(k)}
  <1>1. \A k \in B : k # 0
    <2> DEFINE g == [s \in SUBSET (1 .. 0) |->
                        IF s = {} THEN base ELSE Visit(r, base, q[Max(s)])]
    <2>1. \A s \in SUBSET (1 .. 0) : s = {}
      OBVIOUS
    <2>2. Walks(r, base, q, SUBSET (1 .. 0), g)
      BY <2>1 DEF Walks
    <2>3. Has(0)
      BY <2>2
    <2> QED BY <2>3
  <1>2. ASSUME NEW k \in Nat \ {0}, Has(k - 1)
        PROVE  Has(k)
    <2>1. PICK h : Walks(r, base, q, SUBSET (1 .. (k - 1)), h)
      BY <1>2
    <2> DEFINE g == [s \in SUBSET (1 .. k) |->
                        IF k \in s THEN Visit(r, h[s \ {k}], q[k]) ELSE h[s]]
    <2>2. \A s \in SUBSET (1 .. k) : s \ {k} \in SUBSET (1 .. (k - 1))
      OBVIOUS
    <2>3. \A s \in SUBSET (1 .. (k - 1)) : s \in SUBSET (1 .. k) /\ k \notin s
      OBVIOUS
    <2>4. \A s \in SUBSET (1 .. (k - 1)) : g[s] = h[s]
      BY <2>3
    <2>5. \A s \in SUBSET (1 .. k) : k \in s => g[s] = Visit(r, h[s \ {k}], q[k])
      OBVIOUS
    <2> HIDE DEF g
    <2>6. \A s \in SUBSET (1 .. k) :
             g[s] = IF s = {} THEN base ELSE Visit(r, g[s \ {Max(s)}], q[Max(s)])
      <3> SUFFICES ASSUME NEW s \in SUBSET (1 .. k)
                   PROVE  g[s] = IF s = {} THEN base ELSE Visit(r, g[s \ {Max(s)}], q[Max(s)])
        OBVIOUS
      <3>1. CASE k \in s
        <4>1. Max(s) = k
          BY <3>1, LargestUpTo
        <4>2. g[s \ {k}] = h[s \ {k}]
          BY <2>2, <2>4
        <4> QED BY <2>5, <3>1, <4>1, <4>2
      <3>2. CASE k \notin s
        <4>1. s \in SUBSET (1 .. (k - 1))
          BY <2>2, <3>2
        <4>2. s \ {Max(s)} \in SUBSET (1 .. (k - 1))
          BY <4>1
        <4>3. h[s] = IF s = {} THEN base ELSE Visit(r, h[s \ {Max(s)}], q[Max(s)])
          BY <2>1, <4>1 DEF Walks
        <4> QED BY <2>4, <4>1, <4>2, <4>3
      <3> QED BY <3>1, <3>2
    <2>7. g = [s \in SUBSET (1 .. k) |->
                  IF s = {} THEN base ELSE Visit(r, g[s \ {Max(s)}], q[Max(s)])]
      BY <2>6 DEF g
    <2>8. Walks(r, base, q, SUBSET (1 .. k), g)
      BY <2>7 DEF Walks
    <2> QED BY <2>8
  <1> HIDE DEF Has
  <1>3. \A k \in B : k # 0 /\ k - 1 \in B
    BY <1>1, <1>2
  <1>4. B = {}
    BY <1>3, NoneOf
  <1> QED BY <1>4 DEF Has

LEMMA WalkRuns ==
    ASSUME NEW r, NEW base, NEW X, NEW q \in Seq(X)
    PROVE  \E t : /\ t[0] = base
                  /\ \A k \in 1 .. Len(q) : t[k] = Visit(r, t[k - 1], q[k])
                  /\ Walk(r, base, q) = t[Len(q)]
  <1> DEFINE n == Len(q)
             h == CHOOSE g : Walks(r, base, q, SUBSET (1 .. n), g)
             t == [k \in 0 .. n |-> h[1 .. k]]
  <1>1. n \in Nat /\ DOMAIN q = 1 .. n
    OBVIOUS
  <1>2. Walks(r, base, q, SUBSET (1 .. n), h)
    BY <1>1, WalksExist
  <1>3. Walk(r, base, q) = h[1 .. n]
    BY <1>1, WalkIs
  <1> HIDE DEF h, n
  <1>4. \A k \in 0 .. n : t[k] = h[1 .. k]
    OBVIOUS
  <1>5. t[0] = base /\ t[n] = Walk(r, base, q)
    <2>1. 1 .. 0 = {} /\ 1 .. 0 \in SUBSET (1 .. n)
      OBVIOUS
    <2>2. h[1 .. 0] = base
      BY <1>2, <2>1 DEF Walks
    <2> QED BY <1>1, <1>3, <1>4, <2>2
  <1>6. ASSUME NEW k \in 1 .. n
        PROVE  t[k] = Visit(r, t[k - 1], q[k])
    <2>1. 1 .. k \in SUBSET (1 .. n) /\ 1 .. k # {} /\ (1 .. k) \ {k} = 1 .. (k - 1)
      BY <1>1
    <2>2. Max(1 .. k) = k
      BY <1>1, LargestUpTo
    <2>3. h[1 .. k] = Visit(r, h[(1 .. k) \ {k}], q[k])
      BY <1>2, <2>1, <2>2 DEF Walks
    <2>4. k \in 0 .. n /\ k - 1 \in 0 .. n
      BY <1>1
    <2> QED BY <1>4, <2>1, <2>3, <2>4
  <1> HIDE DEF t
  <1> QED BY <1>5, <1>6 DEF n

\* What a call returns.
Results == [best : Nat, seen : SUBSET DOMAIN Windows, ok : BOOLEAN]

\* A candidate is done with: its window is counted, or it is one of the oracles heard.
Settled(res, a) == IF Windows[a] = Absent THEN a \in res.seen ELSE Windows[a] <= res.best
Settles(res, x) == \A a \in ToSet(feeds[x]) : Settled(res, a)

\* A window is one that is reached from o.
Reaches(o, w) ==
    w # 0 => \A C \in SUBSET DOMAIN Windows :
                 Shut(C) /\ ToSet(feeds[o]) \subseteq C => \E a \in C : Windows[a] = w

\* A call returns only what is reached, and, unless it stops, with the candidates of
\* each oracle it has come to settled.
Good(c, res) ==
    /\ res \in Results /\ c.seen \cup {c.oracle} \subseteq res.seen
    /\ res.ok => /\ c.oracle \in c.seen \/ res.best > 0
                 /\ \A x \in res.seen \ c.seen : Settles(res, x)
    /\ Reaches(c.oracle, res.best)

\* Half way, with the candidates V visited.
HalfGood(c, acc, V) ==
    /\ acc \in Results /\ c.seen \cup {c.oracle} \subseteq acc.seen
    /\ acc.ok => /\ \A a \in V : Settled(acc, a)
                 /\ \A x \in acc.seen \ (c.seen \cup {c.oracle}) : Settles(acc, x)
    /\ Reaches(c.oracle, acc.best)

\* The calls with fewer than n oracles left to see.
Within(n) == {c \in Calls : Cardinality(DOMAIN Windows \ c.seen) < n}
GoodOn(r, n) == \A c \in Within(n) : Good(c, r[c])

\* The graph is one of addresses.
FeedsOK == feeds \in [DOMAIN Windows -> Seq(DOMAIN Windows)]

LEMMA CandidatesIn ==
    ASSUME FeedsOK, NEW o \in DOMAIN Windows
    PROVE  feeds[o] \in Seq(DOMAIN Windows) /\ ToSet(feeds[o]) \subseteq DOMAIN Windows
  <1> DEFINE q == feeds[o]
  <1>1. q \in Seq(DOMAIN Windows)
    BY DEF FeedsOK
  <1> HIDE DEF q
  <1>2. ToSet(q) \subseteq DOMAIN Windows
    BY <1>1 DEF ToSet
  <1> QED BY <1>1, <1>2 DEF q

LEMMA FewerLeft ==
    ASSUME NEW n \in Nat, NEW c \in Within(n + 1), c.oracle \notin c.seen,
           NEW S \in SUBSET DOMAIN Windows, c.seen \cup {c.oracle} \subseteq S,
           NEW a \in DOMAIN Windows
    PROVE  [oracle |-> a, seen |-> S] \in Within(n)
  <1> DEFINE D == DOMAIN Windows
             left == D \ c.seen
             d == [oracle |-> a, seen |-> S]
  <1>1. c.oracle \in D /\ c.seen \subseteq D /\ Cardinality(left) < n + 1
    BY DEF Within, Calls
  <1>2. IsFiniteSet(D) /\ IsFiniteSet(left) /\ IsFiniteSet(left \ {c.oracle})
    BY OraclesAssumption, FS_Subset
  <1>3. Cardinality(left) \in Nat /\ Cardinality(left \ {c.oracle}) = Cardinality(left) - 1
    BY <1>1, <1>2, FS_CardinalityType, FS_RemoveElement
  <1>4. D \ S \subseteq left \ {c.oracle}
    OBVIOUS
  <1>5. Cardinality(D \ S) \in Nat /\ Cardinality(D \ S) <= Cardinality(left \ {c.oracle})
    BY <1>2, <1>4, FS_Subset, FS_CardinalityType
  <1>6. Cardinality(D \ S) < n
    BY <1>1, <1>3, <1>5
  <1>7. d \in Calls /\ d.seen = S
    BY DEF Calls
  <1> QED BY <1>6, <1>7 DEF Within

\* What is settled stays so.
LEMMA StaysSettled ==
    ASSUME NEW acc \in Results, NEW res \in Results,
           acc.seen \subseteq res.seen, acc.best <= res.best,
           NEW a \in DOMAIN Windows, Settled(acc, a)
    PROVE  Settled(res, a)
  <1>1. Windows[a] \in Nat \cup {Absent} /\ acc.best \in Nat /\ res.best \in Nat
    BY OraclesAssumption DEF Results
  <1> QED BY <1>1 DEF Settled

LEMMA StillSettles ==
    ASSUME FeedsOK, NEW acc \in Results, NEW res \in Results,
           acc.seen \subseteq res.seen, acc.best <= res.best,
           NEW x \in DOMAIN Windows, Settles(acc, x)
    PROVE  Settles(res, x)
  BY CandidatesIn, StaysSettled DEF Settles

LEMMA VisitPool ==
    ASSUME FeedsOK, NEW r, NEW c \in Calls, NEW acc, NEW V, V \subseteq ToSet(feeds[c.oracle]),
           HalfGood(c, acc, V), acc.ok, NEW a \in ToSet(feeds[c.oracle]), Windows[a] # Absent
    PROVE  HalfGood(c, Visit(r, acc, a), V \cup {a})
  <1> DEFINE res == [acc EXCEPT !.best = Larger(@, Windows[a])]
  <1>1. Visit(r, acc, a) = res
    BY DEF Visit, WindowSoFar
  <1>2. c.oracle \in DOMAIN Windows /\ ToSet(feeds[c.oracle]) \subseteq DOMAIN Windows
    BY CandidatesIn DEF Calls
  <1>3. Windows[a] \in Nat /\ acc \in Results /\ acc.best \in Nat
    BY <1>2, OraclesAssumption DEF HalfGood, Results
  <1>4. /\ res \in Results /\ res.seen = acc.seen /\ res.ok = acc.ok
        /\ res.best = Larger(acc.best, Windows[a])
    BY <1>3 DEF Results, Larger
  <1> HIDE DEF res
  <1>5. acc.best <= res.best /\ Windows[a] <= res.best /\ res.best \in {acc.best, Windows[a]}
    BY <1>3, <1>4 DEF Larger
  <1>6. \A b \in V \cup {a} : Settled(res, b)
    <2>1. Settled(res, a)
      BY <1>5 DEF Settled
    <2>2. \A b \in V : Settled(res, b)
      BY <1>2, <1>3, <1>4, <1>5, StaysSettled DEF HalfGood
    <2> QED BY <2>1, <2>2
  <1>7. \A x \in res.seen \ (c.seen \cup {c.oracle}) : Settles(res, x)
    <2> SUFFICES ASSUME NEW x \in res.seen \ (c.seen \cup {c.oracle}) PROVE Settles(res, x)
      OBVIOUS
    <2>1. x \in DOMAIN Windows /\ Settles(acc, x)
      BY <1>3, <1>4 DEF HalfGood, Results
    <2> QED BY <1>3, <1>4, <1>5, <2>1, StillSettles
  <1>8. Reaches(c.oracle, res.best)
    BY <1>5 DEF HalfGood, Reaches
  <1> QED BY <1>1, <1>4, <1>6, <1>7, <1>8 DEF HalfGood

LEMMA VisitOracle ==
    ASSUME FeedsOK, NEW n \in Nat, NEW r, GoodOn(r, n),
           NEW c \in Within(n + 1), c.oracle \notin c.seen,
           NEW acc, NEW V, V \subseteq ToSet(feeds[c.oracle]),
           HalfGood(c, acc, V), acc.ok, NEW a \in ToSet(feeds[c.oracle]), Windows[a] = Absent
    PROVE  HalfGood(c, Visit(r, acc, a), V \cup {a})
  <1> DEFINE d == [oracle |-> a, seen |-> acc.seen]
             sub == r[d]
             res == [sub EXCEPT !.best = Larger(acc.best, sub.best)]
  <1>1. Visit(r, acc, a) = res
    BY DEF Visit, WindowSoFar
  <1>2. /\ c.oracle \in DOMAIN Windows /\ ToSet(feeds[c.oracle]) \subseteq DOMAIN Windows
        /\ acc \in Results /\ acc.best \in Nat /\ acc.seen \subseteq DOMAIN Windows
        /\ c.seen \cup {c.oracle} \subseteq acc.seen
    BY CandidatesIn DEF Within, Calls, HalfGood, Results
  <1>3. d \in Within(n) /\ d.oracle = a /\ d.seen = acc.seen
    BY <1>2, FewerLeft
  <1> HIDE DEF d
  <1>4. Good(d, sub)
    BY <1>3 DEF GoodOn
  <1> HIDE DEF sub
  <1>5. sub \in Results /\ sub.best \in Nat /\ acc.seen \cup {a} \subseteq sub.seen
    BY <1>3, <1>4 DEF Good, Results
  <1>6. /\ res \in Results /\ res.seen = sub.seen /\ res.ok = sub.ok
        /\ res.best = Larger(acc.best, sub.best)
    BY <1>2, <1>5 DEF Results, Larger
  <1> HIDE DEF res
  <1>7. acc.best <= res.best /\ sub.best <= res.best /\ res.best \in {acc.best, sub.best}
    BY <1>2, <1>5, <1>6 DEF Larger
  <1>8. \A b \in V \cup {a} : Settled(res, b)
    <2>1. Settled(res, a)
      BY <1>5, <1>6 DEF Settled
    <2>2. \A b \in V : b \in DOMAIN Windows /\ Settled(acc, b)
      BY <1>2 DEF HalfGood
    <2>3. \A b \in V : Settled(res, b)
      BY <1>2, <1>5, <1>6, <1>7, <2>2, StaysSettled
    <2> QED BY <2>1, <2>3
  <1>9. ASSUME res.ok
        PROVE  \A x \in res.seen \ (c.seen \cup {c.oracle}) : Settles(res, x)
    <2> SUFFICES ASSUME NEW x \in res.seen \ (c.seen \cup {c.oracle}) PROVE Settles(res, x)
      OBVIOUS
    <2>1. x \in DOMAIN Windows
      BY <1>6 DEF Results
    <2>2. CASE x \in acc.seen
      <3>1. Settles(acc, x)
        BY <2>2 DEF HalfGood
      <3> QED BY <1>2, <1>5, <1>6, <1>7, <2>1, <3>1, StillSettles
    <2>3. CASE x \notin acc.seen
      <3>1. x \in sub.seen \ d.seen /\ sub.ok
        BY <1>3, <1>6, <1>9, <2>3
      <3>2. Settles(sub, x)
        BY <1>4, <3>1 DEF Good
      <3> QED BY <1>5, <1>6, <1>7, <2>1, <3>2, StillSettles
    <2> QED BY <2>2, <2>3
  <1>10. Reaches(c.oracle, sub.best)
    <2> SUFFICES ASSUME sub.best # 0, NEW C \in SUBSET DOMAIN Windows, Shut(C),
                        ToSet(feeds[c.oracle]) \subseteq C
                 PROVE  \E b \in C : Windows[b] = sub.best
      BY DEF Reaches
    <2>1. ToSet(feeds[a]) \subseteq C
      BY DEF Shut
    <2> QED BY <1>3, <1>4, <2>1 DEF Good, Reaches
  <1>11. Reaches(c.oracle, res.best)
    BY <1>7, <1>10 DEF HalfGood
  <1> QED BY <1>1, <1>2, <1>5, <1>6, <1>8, <1>9, <1>11 DEF HalfGood

LEMMA VisitGood ==
    ASSUME FeedsOK, NEW n \in Nat, NEW r, GoodOn(r, n),
           NEW c \in Within(n + 1), c.oracle \notin c.seen,
           NEW acc, NEW V, V \subseteq ToSet(feeds[c.oracle]),
           HalfGood(c, acc, V), NEW a \in ToSet(feeds[c.oracle])
    PROVE  HalfGood(c, Visit(r, acc, a), V \cup {a})
  <1>1. CASE ~acc.ok
    <2>1. Visit(r, acc, a) = acc
      BY <1>1 DEF Visit
    <2> QED BY <1>1, <2>1 DEF HalfGood
  <1>2. c \in Calls
    BY DEF Within
  <1>3. CASE acc.ok /\ Windows[a] # Absent
    BY <1>2, <1>3, VisitPool
  <1>4. CASE acc.ok /\ Windows[a] = Absent
    BY <1>4, VisitOracle
  <1> QED BY <1>1, <1>3, <1>4

\* The candidates up to the k-th one.
UpTo(q, k) == {q[i] : i \in 1 .. k}

Trail(r, base, q, t) ==
    /\ t[0] = base
    /\ \A k \in 1 .. Len(q) : t[k] = Visit(r, t[k - 1], q[k])

LEMMA TrailGood ==
    ASSUME FeedsOK, NEW n \in Nat, NEW r, GoodOn(r, n),
           NEW c \in Within(n + 1), c.oracle \notin c.seen,
           NEW t, Trail(r, Entry(c), feeds[c.oracle], t)
    PROVE  \A k \in 0 .. Len(feeds[c.oracle]) : HalfGood(c, t[k], UpTo(feeds[c.oracle], k))
  <1> DEFINE q == feeds[c.oracle]
             len == Len(q)
             Bad == {k \in 0 .. len : ~HalfGood(c, t[k], UpTo(q, k))}
  <1>1. /\ c.oracle \in DOMAIN Windows /\ c.seen \subseteq DOMAIN Windows
        /\ q \in Seq(DOMAIN Windows) /\ len \in Nat
    BY CandidatesIn DEF Within, Calls
  <1>2. HalfGood(c, t[0], UpTo(q, 0))
    <2>1. UpTo(q, 0) = {} /\ t[0] = Entry(c)
      BY DEF Trail, UpTo
    <2>2. /\ Entry(c) \in Results /\ Entry(c).best = 0
          /\ Entry(c).seen = c.seen \cup {c.oracle}
      BY <1>1 DEF Entry, Results
    <2> QED BY <2>1, <2>2 DEF HalfGood, Reaches
  <1>3. ASSUME NEW k \in 1 .. len, HalfGood(c, t[k - 1], UpTo(q, k - 1))
        PROVE  HalfGood(c, t[k], UpTo(q, k))
    <2>1. t[k] = Visit(r, t[k - 1], q[k])
      BY DEF Trail
    <2>2. \A i \in 1 .. len : q[i] \in ToSet(q)
      BY <1>1 DEF ToSet
    <2>3. /\ UpTo(q, k) = UpTo(q, k - 1) \cup {q[k]}
          /\ UpTo(q, k - 1) \subseteq ToSet(q) /\ q[k] \in ToSet(q)
      <3>1. 1 .. k = (1 .. (k - 1)) \cup {k} /\ 1 .. (k - 1) \subseteq 1 .. len
        BY <1>1
      <3> QED BY <2>2, <3>1 DEF UpTo
    <2> QED BY <1>3, <2>1, <2>3, VisitGood
  <1>4. \A k \in Bad : k # 0 /\ k - 1 \in Bad
    <2> SUFFICES ASSUME NEW k \in Bad PROVE k # 0 /\ k - 1 \in Bad
      OBVIOUS
    <2>1. k # 0
      BY <1>2
    <2>2. k \in 1 .. len /\ k - 1 \in 0 .. len
      BY <1>1, <2>1
    <2> QED BY <1>3, <2>1, <2>2
  <1>5. Bad \subseteq Nat
    BY <1>1
  <1> HIDE DEF Bad
  <1>6. Bad = {}
    BY <1>4, <1>5, NoneOf
  <1> QED BY <1>6 DEF Bad

LEMMA EndedIs ==
    ASSUME NEW found \in Results
    PROVE  /\ Ended(found) \in Results
           /\ Ended(found).best = found.best /\ Ended(found).seen = found.seen
           /\ Ended(found).ok <=> found.ok /\ found.best > 0
  <1> DEFINE v == found.ok /\ found.best > 0
             e == [found EXCEPT !.ok = v]
  <1>1. v \in BOOLEAN /\ (v <=> found.ok /\ found.best > 0)
    OBVIOUS
  <1>2. Ended(found) = e
    BY DEF Ended
  <1> HIDE DEF v
  <1>3. e \in Results /\ e.best = found.best /\ e.seen = found.seen /\ e.ok = v
    BY <1>1 DEF Results
  <1> HIDE DEF e
  <1> QED BY <1>1, <1>2, <1>3

LEMMA HeardGood ==
    ASSUME FeedsOK, NEW n \in Nat, NEW r, GoodOn(r, n), NEW c \in Within(n + 1)
    PROVE  Good(c, Heard(r, c))
  <1>1. /\ c.oracle \in DOMAIN Windows /\ c.seen \in SUBSET DOMAIN Windows
        /\ feeds[c.oracle] \in Seq(DOMAIN Windows)
    BY CandidatesIn DEF Within, Calls
  <1>2. CASE c.oracle \in c.seen
    <2> DEFINE res == [best |-> 0, seen |-> c.seen, ok |-> TRUE]
    <2>1. Heard(r, c) = res
      BY <1>2 DEF Heard
    <2>2. res \in Results /\ res.best = 0 /\ res.seen = c.seen
      BY <1>1 DEF Results
    <2> HIDE DEF res
    <2> QED BY <1>2, <2>1, <2>2 DEF Good, Reaches
  <1>3. CASE c.oracle \notin c.seen
    <2> DEFINE q == feeds[c.oracle]
               found == Walk(r, Entry(c), q)
               res == Ended(found)
    <2>1. PICK t : Trail(r, Entry(c), q, t) /\ found = t[Len(q)]
      BY <1>1, WalkRuns DEF Trail
    <2>2. HalfGood(c, found, UpTo(q, Len(q)))
      <3>1. Len(q) \in 0 .. Len(q)
        BY <1>1
      <3> QED BY <1>3, <2>1, <3>1, TrailGood
    <2>3. Heard(r, c) = res
      BY <1>3 DEF Heard
    <2>4. found \in Results
      BY <2>2 DEF HalfGood
    <2>5. /\ res \in Results /\ res.best = found.best /\ res.seen = found.seen
          /\ res.ok => found.ok /\ res.best > 0
      BY <2>4, EndedIs
    <2>6. UpTo(q, Len(q)) = ToSet(q)
      BY <1>1 DEF UpTo, ToSet
    <2> HIDE DEF res, found
    <2>7. \A a : Settled(res, a) <=> Settled(found, a)
      BY <2>5 DEF Settled
    <2>8. ASSUME res.ok, NEW x \in res.seen \ c.seen
          PROVE  Settles(res, x)
      <3>1. CASE x = c.oracle
        BY <2>2, <2>5, <2>6, <2>7, <2>8, <3>1 DEF HalfGood, Settles
      <3>2. CASE x # c.oracle
        BY <2>2, <2>5, <2>7, <2>8, <3>2 DEF HalfGood, Settles
      <3> QED BY <3>1, <3>2
    <2>9. c.seen \cup {c.oracle} \subseteq res.seen /\ Reaches(c.oracle, res.best)
      BY <2>2, <2>5 DEF HalfGood
    <2> QED BY <2>3, <2>5, <2>8, <2>9 DEF Good
  <1> QED BY <1>2, <1>3

\* Two that agree where fewer oracles are left agree on what they make of it.
LEMMA HeardAlike ==
    ASSUME FeedsOK, NEW n \in Nat, NEW r, GoodOn(r, n), NEW g,
           \A d \in Within(n) : g[d] = r[d], NEW c \in Within(n + 1)
    PROVE  Heard(g, c) = Heard(r, c)
  <1>1. /\ c.oracle \in DOMAIN Windows /\ c.seen \in SUBSET DOMAIN Windows
        /\ feeds[c.oracle] \in Seq(DOMAIN Windows)
    BY CandidatesIn DEF Within, Calls
  <1>2. CASE c.oracle \in c.seen
    BY <1>2 DEF Heard
  <1>3. CASE c.oracle \notin c.seen
    <2> DEFINE q == feeds[c.oracle]
               len == Len(q)
    <2>1. PICK t : Trail(r, Entry(c), q, t) /\ Walk(r, Entry(c), q) = t[len]
      BY <1>1, WalkRuns DEF Trail
    <2>2. PICK u : Trail(g, Entry(c), q, u) /\ Walk(g, Entry(c), q) = u[len]
      BY <1>1, WalkRuns DEF Trail
    <2>3. \A k \in 0 .. len : HalfGood(c, t[k], UpTo(q, k))
      BY <1>3, <2>1, TrailGood
    <2> DEFINE Bad == {k \in 0 .. len : u[k] # t[k]}
    <2>4. len \in Nat
      BY <1>1
    <2>5. ASSUME NEW k \in 1 .. len, u[k - 1] = t[k - 1]
          PROVE  u[k] = t[k]
      <3> DEFINE acc == t[k - 1]
                 d == [oracle |-> q[k], seen |-> acc.seen]
      <3>1. t[k] = Visit(r, acc, q[k]) /\ u[k] = Visit(g, acc, q[k])
        BY <2>1, <2>2, <2>5 DEF Trail
      <3>2. HalfGood(c, acc, UpTo(q, k - 1)) /\ q[k] \in DOMAIN Windows
        BY <1>1, <2>3, <2>4
      <3>3. d \in Within(n)
        <4>1. c.seen \cup {c.oracle} \subseteq acc.seen /\ acc.seen \in SUBSET DOMAIN Windows
          BY <3>2 DEF HalfGood, Results
        <4> HIDE DEF acc
        <4> QED BY <1>3, <3>2, <4>1, FewerLeft
      <3>4. g[d] = r[d]
        BY <3>3
      <3> HIDE DEF acc
      <3>5. Visit(g, acc, q[k]) = Visit(r, acc, q[k])
        BY <3>4, Zenon DEF Visit
      <3> QED BY <3>1, <3>5
    <2>6. u[0] = t[0]
      BY <2>1, <2>2 DEF Trail
    <2>7. Bad \subseteq Nat /\ \A k \in Bad : k # 0 /\ k - 1 \in Bad
      <3> SUFFICES ASSUME NEW k \in Bad PROVE k # 0 /\ k - 1 \in Bad
        BY <2>4
      <3>1. k # 0
        BY <2>6
      <3>2. k \in 1 .. len /\ k - 1 \in 0 .. len
        BY <2>4, <3>1
      <3> QED BY <2>5, <3>1, <3>2
    <2> HIDE DEF Bad
    <2>8. Bad = {}
      BY <2>7, NoneOf
    <2>9. u[len] = t[len]
      BY <2>4, <2>8 DEF Bad
    <2> QED BY <1>3, <2>1, <2>2, <2>9 DEF Heard
  <1> QED BY <1>2, <1>3

LEMMA CallsWithin ==
    /\ Within(0) = {}
    /\ Within(Cardinality(DOMAIN Windows) + 1) = Calls
  <1> DEFINE D == DOMAIN Windows
  <1>1. ASSUME NEW c \in Calls
        PROVE  /\ Cardinality(D \ c.seen) \in Nat
               /\ Cardinality(D \ c.seen) < Cardinality(D) + 1
    <2>1. IsFiniteSet(D) /\ D \ c.seen \subseteq D
      BY OraclesAssumption
    <2>2. /\ Cardinality(D) \in Nat /\ Cardinality(D \ c.seen) \in Nat
          /\ Cardinality(D \ c.seen) <= Cardinality(D)
      BY <2>1, FS_Subset, FS_CardinalityType
    <2> QED BY <2>2
  <1> QED BY <1>1 DEF Within

LEMMA ResolveExists ==
    ASSUME FeedsOK
    PROVE  \E r : Resolves(r)
  <1> DEFINE Sound(r, n) == /\ r = [c \in Calls |-> r[c]] /\ GoodOn(r, n)
                            /\ \A c \in Within(n) : r[c] = Heard(r, c)
             Has(n) == \E r : Sound(r, n)
             Bad == {n \in Nat : ~Has(n)}
             all == Cardinality(DOMAIN Windows) + 1
  <1>1. Has(0)
    <2> DEFINE r == [c \in Calls |-> 0]
    <2>1. r = [c \in Calls |-> r[c]]
      OBVIOUS
    <2> HIDE DEF r
    <2>2. Sound(r, 0)
      BY <2>1, CallsWithin DEF GoodOn
    <2> QED BY <2>2
  <1>2. ASSUME NEW n \in Nat, Has(n)
        PROVE  Has(n + 1)
    <2>1. PICK r : Sound(r, n)
      BY <1>2
    <2> DEFINE g == [c \in Calls |-> Heard(r, c)]
    <2>2. \A k : Within(k) \subseteq Calls
      BY DEF Within
    <2>3. \A c \in Calls : g[c] = Heard(r, c)
      OBVIOUS
    <2>4. g = [c \in Calls |-> g[c]]
      OBVIOUS
    <2> HIDE DEF g
    <2>5. \A d \in Within(n) : g[d] = r[d]
      BY <2>1, <2>2, <2>3
    <2>6. \A c \in Within(n + 1) : Heard(g, c) = Heard(r, c)
      BY <2>1, <2>5, HeardAlike
    <2>7. GoodOn(g, n + 1)
      <3> SUFFICES ASSUME NEW c \in Within(n + 1) PROVE Good(c, g[c])
        BY DEF GoodOn
      <3>1. Good(c, Heard(r, c))
        BY <2>1, HeardGood
      <3> QED BY <2>2, <2>3, <3>1
    <2>8. Sound(g, n + 1)
      BY <2>2, <2>3, <2>4, <2>6, <2>7
    <2> QED BY <2>8
  <1> HIDE DEF Has
  <1>3. \A n \in Bad : n # 0 /\ n - 1 \in Bad
    <2> SUFFICES ASSUME NEW n \in Bad PROVE n # 0 /\ n - 1 \in Bad
      OBVIOUS
    <2>1. n # 0
      BY <1>1
    <2>2. n - 1 \in Nat /\ (n - 1) + 1 = n
      BY <2>1
    <2> QED BY <1>2, <2>1, <2>2
  <1>4. Bad = {}
    <2>1. Bad \subseteq Nat
      OBVIOUS
    <2> HIDE DEF Bad
    <2> QED BY <1>3, <2>1, NoneOf
  <1>5. all \in Nat
    BY OraclesAssumption, FS_CardinalityType
  <1>6. Has(all)
    BY <1>4, <1>5
  <1>7. PICK r : Sound(r, all)
    BY <1>6 DEF Has
  <1>8. \A c \in Calls : r[c] = Heard(r, c)
    BY <1>7, CallsWithin
  <1>9. Resolves(r)
    BY <1>7, <1>8 DEF Resolves
  <1> QED BY <1>9

LEMMA ResolveGood ==
    ASSUME FeedsOK, NEW r, Resolves(r), NEW c \in Calls
    PROVE  Good(c, r[c])
  <1> DEFINE Bad == {n \in Nat : ~GoodOn(r, n)}
             all == Cardinality(DOMAIN Windows) + 1
  <1>1. GoodOn(r, 0)
    BY CallsWithin DEF GoodOn
  <1>2. ASSUME NEW n \in Nat, GoodOn(r, n)
        PROVE  GoodOn(r, n + 1)
    <2> SUFFICES ASSUME NEW d \in Within(n + 1) PROVE Good(d, r[d])
      BY DEF GoodOn
    <2>1. Good(d, Heard(r, d))
      BY <1>2, HeardGood
    <2>2. d \in Calls
      BY DEF Within
    <2>3. r[d] = Heard(r, d)
      BY <2>2 DEF Resolves
    <2> QED BY <2>1, <2>3
  <1>3. \A n \in Bad : n # 0 /\ n - 1 \in Bad
    <2> SUFFICES ASSUME NEW n \in Bad PROVE n # 0 /\ n - 1 \in Bad
      OBVIOUS
    <2>1. n # 0
      BY <1>1
    <2>2. n - 1 \in Nat /\ (n - 1) + 1 = n
      BY <2>1
    <2> QED BY <1>2, <2>1, <2>2
  <1>4. Bad = {}
    <2>1. Bad \subseteq Nat
      OBVIOUS
    <2> HIDE DEF Bad
    <2> QED BY <1>3, <2>1, NoneOf
  <1>5. all \in Nat
    BY OraclesAssumption, FS_CardinalityType
  <1>6. GoodOn(r, all)
    BY <1>4, <1>5
  <1> QED BY <1>6, CallsWithin DEF GoodOn

\* What the walk ends with is the largest window there is to reach.
LEMMA EmaWindowIsLargest ==
    ASSUME FeedsOK, NEW m \in Controllers, EmaWindow(m).ok
    PROVE  EmaWindow(m).best \in Nat /\ EmaWindow(m).best = Max(WindowsReached(OracleOf[m]))
  <1> DEFINE o == OracleOf[m]
             c == [oracle |-> o, seen |-> {}]
             r == CHOOSE g : Resolves(g)
             res == r[c]
  <1>1. EmaWindow(m) = res
    BY EmaWindowIs
  <1>2. Resolves(r)
    BY ResolveExists
  <1> HIDE DEF r
  <1>3. o \in DOMAIN Windows
    BY OraclesAssumption
  <1> HIDE DEF o
  <1>4. c \in Calls /\ c.oracle = o /\ c.seen = {}
    BY <1>3 DEF Calls
  <1> HIDE DEF c
  <1>5. Good(c, res)
    BY <1>2, <1>4, ResolveGood
  <1>6. res \in Results /\ res.best \in Nat /\ res.ok
    BY <1>1, <1>5 DEF Good, Results
  <1>7. res.best > 0
    BY <1>4, <1>5, <1>6 DEF Good
  <1> HIDE DEF res
  <1>8. Closure(o) \in SUBSET DOMAIN Windows /\ Shut(Closure(o)) /\ ToSet(feeds[o]) \subseteq Closure(o)
    <2>1. ToSet(feeds[o]) \subseteq Closure(o)
      BY <1>3, CandidatesIn DEF Closure
    <2>2. ASSUME NEW y \in Closure(o), Windows[y] = Absent, NEW a \in ToSet(feeds[y])
          PROVE  a \in Closure(o)
      <3>1. y \in DOMAIN Windows /\ a \in DOMAIN Windows
        BY CandidatesIn DEF Closure
      <3>2. ASSUME NEW C \in SUBSET DOMAIN Windows, Shut(C), ToSet(feeds[o]) \subseteq C
            PROVE  a \in C
        BY <2>2, <3>2 DEF Closure, Shut
      <3> QED BY <3>1, <3>2 DEF Closure
    <2> QED BY <2>1, <2>2 DEF Shut, Closure
  <1> DEFINE W == {a \in DOMAIN Windows : Settled(res, a)}
  <1>9. Shut(W) /\ ToSet(feeds[o]) \subseteq W
    <2>1. \A x \in res.seen : x \in DOMAIN Windows /\ Settles(res, x)
      BY <1>4, <1>5, <1>6 DEF Good, Results
    <2>2. o \in res.seen
      BY <1>4, <1>5 DEF Good
    <2>3. \A x \in res.seen : ToSet(feeds[x]) \subseteq W
      BY <2>1, CandidatesIn DEF Settles
    <2>4. \A y \in W : Windows[y] = Absent => y \in res.seen
      BY DEF Settled
    <2> QED BY <2>2, <2>3, <2>4 DEF Shut
  <1>10. Closure(o) \subseteq W
    BY <1>9 DEF Closure
  <1>11. \A w \in WindowsReached(o) : w \in Nat /\ w <= res.best
    <2> SUFFICES ASSUME NEW p \in Closure(o), Windows[p] # Absent
                 PROVE  Windows[p] \in Nat /\ Windows[p] <= res.best
      BY DEF WindowsReached
    <2>1. p \in DOMAIN Windows /\ Settled(res, p)
      BY <1>10
    <2> QED BY <2>1, OraclesAssumption DEF Settled
  <1>12. res.best \in WindowsReached(o)
    <2>1. PICK a \in Closure(o) : Windows[a] = res.best
      BY <1>4, <1>5, <1>7, <1>6, <1>8 DEF Good, Reaches
    <2>2. Windows[a] # Absent
      BY <1>6, <2>1, OraclesAssumption
    <2> QED BY <2>1, <2>2 DEF WindowsReached
  <1>13. Max(WindowsReached(o)) = res.best
    <2> DEFINE S == WindowsReached(o)
    <2> HIDE DEF S
    <2>1. \A x \in S : (\A y \in S : x >= y) => x = res.best
      BY <1>6, <1>11, <1>12 DEF S
    <2>2. \A y \in S : res.best >= y
      BY <1>6, <1>11 DEF S
    <2> QED BY <1>12, <2>1, <2>2 DEF Max, S
  <1> QED BY <1>1, <1>6, <1>13 DEF o

-------------------------------------------------------------------------------
(***************************************************************************)
(* The windows of the bundles, and of the stress artifacts.                *)
(***************************************************************************)
LEMMA LargestOf ==
    ASSUME NEW S, IsFiniteSet(S)
    PROVE  S \subseteq Nat /\ S # {} => Max(S) \in S /\ \A y \in S : y <= Max(S)
  <1> DEFINE HasMax(T) == \E x \in T : \A y \in T : x >= y
             B == {T \in SUBSET S : T # {} /\ ~HasMax(T)}
  <1>1. B # {} => \E T \in B : \A R \in B : R \subseteq T => R = T
    <2>1. B \subseteq SUBSET S
      OBVIOUS
    <2> HIDE DEF B, HasMax
    <2> QED BY <2>1, SmallestSet
  <1> SUFFICES ASSUME S \subseteq Nat, S # {} PROVE Max(S) \in S /\ \A y \in S : y <= Max(S)
    OBVIOUS
  <1>2. B = {}
    <2> SUFFICES ASSUME B # {} PROVE FALSE
      OBVIOUS
    <2> HIDE DEF B, HasMax
    <2>1. PICK T \in B : \A R \in B : R \subseteq T => R = T
      BY <1>1
    <2>2. T \in SUBSET S /\ T # {} /\ ~HasMax(T)
      BY <2>1 DEF B
    <2>3. PICK x \in T : TRUE
      BY <2>2
    <2>4. T \ {x} \notin B
      BY <2>1, <2>3
    <2>5. T \ {x} = {} \/ HasMax(T \ {x})
      <3>1. T \ {x} \in SUBSET S
        BY <2>2
      <3> QED BY <2>4, <3>1 DEF B
    <2>6. T \subseteq Nat
      BY <2>2
    <2>7. HasMax(T)
      <3> USE DEF HasMax
      <3>1. CASE T \ {x} = {}
        <4>1. \A y \in T : y = x
          BY <3>1
        <4> QED BY <2>3, <4>1, <2>6
      <3>2. CASE HasMax(T \ {x})
        <4>1. PICK z \in T \ {x} : \A y \in T \ {x} : z >= y
          BY <3>2
        <4>2. x \in Nat /\ z \in Nat
          BY <2>3, <2>6, <4>1
        <4>3. \A y \in T : y \in Nat /\ (y = x \/ z >= y)
          BY <2>6, <4>1
        <4>4. CASE z >= x
          BY <4>1, <4>2, <4>3, <4>4
        <4>5. CASE ~(z >= x)
          <5>1. \A y \in T : x >= y
            BY <4>2, <4>3, <4>5
          <5> QED BY <2>3, <5>1
        <4> QED BY <4>4, <4>5
      <3> QED BY <2>5, <3>1, <3>2
    <2> QED BY <2>2, <2>7
  <1>3. HasMax(S)
    BY <1>2
  <1>4. Max(S) \in S /\ \A y \in S : Max(S) >= y
    BY <1>3 DEF Max
  <1> QED BY <1>4

WindowsRight(b) ==
    /\ IsFiniteSet(DOMAIN b.windows)
    /\ \A m \in DOMAIN b.windows :
          b.windows[m] \in Nat /\ b.windows[m] = Max(WindowsReached(OracleOf[m]))

\* The graph is the same for every run.
WindowsInv ==
    /\ FeedsOK
    /\ pending # Absent => WindowsRight(pending)
    /\ \A i \in 1 .. Len(promoted) : WindowsRight(promoted[i])
    /\ \A i \in DOMAIN stresses : stresses[i].window = ReportWindow(promoted[i])

LEMMA BundleWindows ==
    ASSUME FeedsOK, WorldOK(world), NEW n, Assembles(world, n), NEW answer, NEW ops, NEW h
    PROVE  WindowsRight(Bundle(world, answer, ops, h))
  <1> DEFINE b == Bundle(world, answer, ops, h)
  <1>1. b.windows = [m \in MarketsOf(world) |-> EmaWindow(m).best]
    BY DEF Bundle
  <1>2. MarketsOf(world) \subseteq Controllers /\ IsFiniteSet(MarketsOf(world))
    <2>1. world.count \in 1 .. Len(Markets) /\ IsFiniteSet(1 .. world.count)
      BY FS_Interval DEF WorldOK
    <2>2. IsFiniteSet({Markets[i] : i \in 1 .. world.count})
      BY <2>1, ImageFinite
    <2> QED BY <2>1, <2>2, ListedIn DEF MarketsOf
  <1>3. \A m \in MarketsOf(world) :
           EmaWindow(m).best \in Nat /\ EmaWindow(m).best = Max(WindowsReached(OracleOf[m]))
    BY <1>2, EmaWindowIsLargest DEF Assembles
  <1> HIDE DEF b
  <1> QED BY <1>1, <1>2, <1>3 DEF WindowsRight, b

LEMMA ReportWindowCovers ==
    ASSUME NEW b, WindowsRight(b), NEW m \in DOMAIN b.windows
    PROVE  ReportWindow(b) >= b.windows[m]
  <1> DEFINE shown == {b.windows[k] : k \in DOMAIN b.windows}
             S == {0} \cup shown
  <1>1. IsFiniteSet(shown) /\ shown \subseteq Nat
    BY ImageFinite DEF WindowsRight
  <1>2. b.windows[m] \in S /\ ReportWindow(b) = Max(S)
    BY DEF ReportWindow
  <1> HIDE DEF shown
  <1>3. IsFiniteSet(S) /\ S \subseteq Nat
    <2>1. IsFiniteSet({0})
      BY FS_Singleton
    <2>2. IsFiniteSet({0} \cup shown)
      BY <1>1, <2>1, FS_Union
    <2> QED BY <1>1, <2>2
  <1> HIDE DEF S
  <1>4. Max(S) \in S /\ \A y \in S : y <= Max(S)
    BY <1>2, <1>3, LargestOf
  <1> QED BY <1>2, <1>3, <1>4

LEMMA SameReach ==
    ASSUME UNCHANGED feeds
    PROVE  /\ FeedsOK' <=> FeedsOK
           /\ \A o : WindowsReached(o)' = WindowsReached(o)
  <1>1. \A o : Closure(o)' = Closure(o)
    BY DEF Closure, Shut
  <1> QED BY <1>1 DEF WindowsReached, FeedsOK

LEMMA WindowsStart == FactoryInit => WindowsInv
  <1> SUFFICES ASSUME FactoryInit PROVE WindowsInv
    OBVIOUS
  <1>1. pending = Absent /\ promoted = <<>> /\ DOMAIN stresses = {} /\ feeds \in Feeds
    BY DEF FactoryInit
  <1>2. FeedsOK
    BY <1>1, OraclesAssumption DEF FeedsOK
  <1> QED BY <1>1, <1>2 DEF WindowsInv

LEMMA WindowsStay ==
    ASSUME WindowsInv, UNCHANGED <<feeds, pending, promoted, stresses>>
    PROVE  WindowsInv'
  BY SameReach DEF WindowsInv, WindowsRight, ReportWindow

LEMMA AssembleWindows ==
    ASSUME FactoryInv, WindowsInv, Assemble
    PROVE  WindowsInv'
  <1>1. UNCHANGED <<feeds, promoted, stresses>>
    BY DEF Assemble
  <1>2. CASE UNCHANGED pending
    BY <1>1, <1>2, WindowsStay
  <1>3. CASE \E n, answer, ops, h :
                 Assembles(world, n) /\ pending' = Bundle(world, answer, ops, h)
    <2>1. WindowsRight(pending')
      BY <1>3, BundleWindows DEF FactoryInv, WindowsInv
    <2>2. WindowsRight(pending)'
      BY <1>1, <2>1, SameReach DEF WindowsRight
    <2> QED BY <1>1, <2>2, SameReach DEF WindowsInv, WindowsRight, ReportWindow
  <1> QED BY <1>2, <1>3 DEF Assemble

LEMMA HarnessWindows ==
    ASSUME FactoryInv, WindowsInv, Harness
    PROVE  WindowsInv'
  <1> DEFINE b == pending
             last == Len(promoted)
  <1>1. /\ pending # Absent /\ pending' = Absent /\ UNCHANGED <<feeds, stresses>>
        /\ promoted' = promoted \/ promoted' = Append(promoted, b)
    BY DEF Harness
  <1>2. WindowsRight(b)
    BY <1>1 DEF WindowsInv
  <1> HIDE DEF b
  <1>3. FeedsOK' /\ \A o : WindowsReached(o)' = WindowsReached(o)
    BY <1>1, SameReach DEF WindowsInv
  <1>4. CASE promoted' = promoted
    BY <1>1, <1>3, <1>4 DEF WindowsInv, WindowsRight, ReportWindow
  <1>5. CASE promoted' = Append(promoted, b)
    <2>1. /\ last \in Nat /\ Len(promoted') = last + 1 /\ promoted'[last + 1] = b
          /\ \A i \in 1 .. last : promoted'[i] = promoted[i]
      BY <1>5, Appended DEF FactoryInv, PromotedSound
    <2>2. \A i \in 1 .. last + 1 : WindowsRight(promoted'[i])
      <3>1. \A i \in 1 .. last + 1 : i \in 1 .. last \/ i = last + 1
        BY <2>1
      <3> QED BY <1>2, <2>1, <3>1 DEF WindowsInv
    <2>3. (\A i \in 1 .. Len(promoted) : WindowsRight(promoted[i]))'
      BY <1>3, <2>1, <2>2 DEF WindowsRight
    <2>4. DOMAIN stresses \subseteq 1 .. last
      BY DEF FactoryInv, StressesHold
    <2>5. \A i \in DOMAIN stresses : ReportWindow(promoted'[i]) = stresses[i].window
      BY <2>1, <2>4 DEF WindowsInv
    <2> QED BY <1>1, <1>3, <2>3, <2>5 DEF WindowsInv, ReportWindow
  <1> QED BY <1>1, <1>4, <1>5

LEMMA StressWindows ==
    ASSUME FactoryInv, WindowsInv, Stress
    PROVE  WindowsInv'
  <1> DEFINE n == Len(promoted)
             b == promoted[n]
             m == Mechanism(b)
  <1>1. UNCHANGED <<feeds, pending, promoted>> /\ n \in Nat \ {0}
    BY LastPromoted DEF Stress
  <1>2. m.window = ReportWindow(promoted[n]) /\ stresses' = With(stresses, n, m)
    BY DEF Stress, Mechanism
  <1>3. DOMAIN stresses \subseteq 1 .. n
    BY DEF FactoryInv, StressesHold
  <1> HIDE DEF m
  <1>4. \A i \in DOMAIN stresses' :
           \/ stresses'[i] = m /\ i = n
           \/ stresses'[i] = stresses[i] /\ i \in DOMAIN stresses
    BY <1>1, <1>2, <1>3, WithLast
  <1>5. \A i \in DOMAIN stresses' : stresses'[i].window = ReportWindow(promoted[i])
    BY <1>2, <1>4 DEF WindowsInv
  <1>6. FeedsOK' /\ \A o : WindowsReached(o)' = WindowsReached(o)
    BY <1>1, SameReach DEF WindowsInv
  <1> QED BY <1>1, <1>5, <1>6 DEF WindowsInv, WindowsRight, ReportWindow

LEMMA WindowsStep == FactoryInv /\ WindowsInv /\ [FactoryNext]_factory => WindowsInv'
  <1> SUFFICES ASSUME FactoryInv, WindowsInv, [FactoryNext]_factory PROVE WindowsInv'
    OBVIOUS
  <1>1. CASE Move \/ FoldTree \/ UNCHANGED factory
    <2>1. UNCHANGED <<feeds, pending, promoted, stresses>>
      BY <1>1 DEF Move, FoldTree, factory
    <2> QED BY <2>1, WindowsStay
  <1> QED BY <1>1, AssembleWindows, HarnessWindows, StressWindows DEF FactoryNext

\* A row's window is the largest its oracle reaches by any chain of oracles, although
\* resolve_ema_window shares one `seen` over all of them and so looks at most once at
\* each, and the stress artifact prints no smaller one than any row has.
THEOREM WindowsAreLargest == FactorySpec => []WindowIsMax
  <1>1. FactoryInv /\ WindowsInv => WindowIsMax
    <2> SUFFICES ASSUME FactoryInv, WindowsInv,
                        NEW i \in DOMAIN promoted, NEW m \in DOMAIN promoted[i].windows
                 PROVE  /\ promoted[i].windows[m] = Max(WindowsReached(OracleOf[m]))
                        /\ i \in DOMAIN stresses => stresses[i].window >= promoted[i].windows[m]
      BY DEF WindowIsMax
    <2>1. i \in 1 .. Len(promoted)
      BY DEF FactoryInv, PromotedSound
    <2>2. WindowsRight(promoted[i])
      BY <2>1 DEF WindowsInv
    <2>3. ReportWindow(promoted[i]) >= promoted[i].windows[m]
      BY <2>2, ReportWindowCovers
    <2> QED BY <2>2, <2>3 DEF WindowsInv, WindowsRight
  <1> QED BY <1>1, FactoryStarts, FactoryStep, WindowsStart, WindowsStep, PTL DEF FactorySpec
===============================================================================
