------------------------------ MODULE Totals_proofs ------------------------------
(***************************************************************************)
(* Lemmas about numbers and about sums over finite sets, for any function  *)
(* into the numbers.                                                       *)
(* A sum is a recursive function chosen by the community modules; what     *)
(* holds of every finite set is shown by a smallest set of which it does   *)
(* not hold, so no induction theorem is instantiated.                      *)
(***************************************************************************)
EXTENDS Integers, FiniteSets, Totals, FiniteSetTheorems, WellFoundedInduction, TLAPS

\* The least number of a set.
LEMMA LeastOf ==
    ASSUME NEW S, S \subseteq Nat, S # {}
    PROVE  \E n \in S : \A m \in S : n <= m
  <1> DEFINE O == OpToRel(<, Nat)
  <1>1. IsWellFoundedOn(O, Nat)
    BY NatLessThanWellFounded
  <1>2. \A n, m \in Nat : <<m, n>> \notin O => n <= m
    BY DEF OpToRel
  <1> HIDE DEF O
  <1>3. \E n \in S : \A m \in S : <<m, n>> \notin O
    BY <1>1, WFMin
  <1> QED BY <1>2, <1>3

\* A set of numbers that has, with each, the one before it is empty.
LEMMA NoneOf ==
    ASSUME NEW S, S \subseteq Nat, \A n \in S : n # 0 /\ n - 1 \in S
    PROVE  S = {}
  <1> SUFFICES ASSUME S # {} PROVE FALSE
    OBVIOUS
  <1>1. PICK n \in S : \A m \in S : n <= m
    BY LeastOf
  <1> QED BY <1>1

\* The greatest number up to n is n, in a set that has it.
LEMMA LargestUpTo ==
    ASSUME NEW n \in Nat \ {0}, NEW s, s \subseteq 1 .. n, n \in s
    PROVE  Max(s) = n
  <1>1. \A y \in s : y \in Int /\ n >= y
    OBVIOUS
  <1>2. \A x \in s : (\A y \in s : x >= y) => x = n
    BY <1>1
  <1> QED BY <1>1, <1>2 DEF Max

\* Among the subsets of a finite set that have a property, one is smallest.
LEMMA SmallestSet ==
    ASSUME NEW S, IsFiniteSet(S), NEW B, B \subseteq SUBSET S, B # {}
    PROVE  \E T \in B : \A R \in B : R \subseteq T => R = T
  <1> DEFINE Order == StrictSubsetOrdering(S)
  <1>1. IsWellFoundedOn(Order, FiniteSubsetsOf(S))
    BY FS_StrictSubsetOrderingWellFounded
  <1>2. B \subseteq FiniteSubsetsOf(S)
    <2> SUFFICES ASSUME NEW T \in B PROVE T \in FiniteSubsetsOf(S)
      OBVIOUS
    <2>1. T \in SUBSET S /\ IsFiniteSet(T)
      BY FS_Subset
    <2> QED BY <2>1 DEF FiniteSubsetsOf
  <1>3. PICK T \in B : \A R \in B : <<R, T>> \notin Order
    <2> HIDE DEF Order
    <2> QED BY <1>1, <1>2, WFMin
  <1>4. \A R \in B : R \subseteq T /\ R # T => <<R, T>> \in Order
    <2> SUFFICES ASSUME NEW R \in B, R \subseteq T, R # T PROVE <<R, T>> \in Order
      OBVIOUS
    <2>1. <<R, T>> \in (SUBSET S) \X (SUBSET S)
      OBVIOUS
    <2> QED BY <2>1 DEF StrictSubsetOrdering
  <1> HIDE DEF Order
  <1>5. \A R \in B : R \subseteq T => R = T
    BY <1>3, <1>4, Zenon
  <1> QED BY <1>5

\* The element a sum starts with.
First(s) == CHOOSE x \in s : TRUE

LEMMA FirstIn == \A s : s # {} => First(s) \in s
  BY DEF First

\* The sums of f over the sets in D.
Sums(f, D, h) ==
    h = [s \in D |-> IF s = {} THEN 0 ELSE f[First(s)] + h[s \ {First(s)}]]

LEMMA TotalIs ==
    ASSUME NEW f, NEW S
    PROVE  Total(f, S) = (CHOOSE h : Sums(f, SUBSET S, h))[S]
  BY DEF Total, MapThenSumSet, MapThenFoldSet, Sums, First

LEMMA SumsAgree ==
    ASSUME NEW f, NEW U, NEW V, IsFiniteSet(U), NEW h, NEW g,
           Sums(f, SUBSET U, h), Sums(f, SUBSET V, g),
           NEW t, t \subseteq U, t \subseteq V
    PROVE  h[t] = g[t]
  <1> DEFINE B == {s \in SUBSET U : s \subseteq V /\ h[s] # g[s]}
  <1> SUFFICES ASSUME B # {} PROVE FALSE
    OBVIOUS
  <1>1. B \subseteq SUBSET U
    OBVIOUS
  <1> HIDE DEF B
  <1>2. PICK s \in B : \A r \in B : r \subseteq s => r = s
    BY <1>1, SmallestSet
  <1>3. s \in SUBSET U /\ s \in SUBSET V /\ h[s] # g[s]
    BY <1>2 DEF B
  <1>4. /\ h[s] = IF s = {} THEN 0 ELSE f[First(s)] + h[s \ {First(s)}]
        /\ g[s] = IF s = {} THEN 0 ELSE f[First(s)] + g[s \ {First(s)}]
    BY <1>3 DEF Sums
  <1>5. s # {}
    BY <1>3, <1>4
  <1>6. s \ {First(s)} \in SUBSET U /\ s \ {First(s)} \subseteq V /\ s \ {First(s)} # s
    BY <1>3, <1>5, FirstIn
  <1>7. h[s \ {First(s)}] = g[s \ {First(s)}]
    BY <1>2, <1>6 DEF B
  <1> QED BY <1>3, <1>4, <1>7

LEMMA SumsExist ==
    ASSUME NEW S, IsFiniteSet(S), NEW f, \A x \in S : f[x] \in Int
    PROVE  \E h \in [SUBSET S -> Int] : Sums(f, SUBSET S, h)
  <1> DEFINE B == {T \in SUBSET S : ~\E h \in [SUBSET T -> Int] : Sums(f, SUBSET T, h)}
  <1> SUFFICES ASSUME B # {} PROVE FALSE
    OBVIOUS
  <1>1. B \subseteq SUBSET S
    OBVIOUS
  <1> HIDE DEF B
  <1>2. PICK T \in B : \A R \in B : R \subseteq T => R = T
    BY <1>1, SmallestSet
  <1>3. T \in SUBSET S /\ IsFiniteSet(T) /\ ~\E h \in [SUBSET T -> Int] : Sums(f, SUBSET T, h)
    BY <1>2, FS_Subset DEF B
  <1> DEFINE R(x) == T \ {x}
             H(x) == CHOOSE h \in [SUBSET (T \ {x}) -> Int] : Sums(f, SUBSET (T \ {x}), h)
  <1>4. \A x \in T : H(x) \in [SUBSET (T \ {x}) -> Int] /\ Sums(f, SUBSET (T \ {x}), H(x))
    <2> SUFFICES ASSUME NEW x \in T
                 PROVE  \E h \in [SUBSET (T \ {x}) -> Int] : Sums(f, SUBSET (T \ {x}), h)
      OBVIOUS
    <2>1. T \ {x} \in SUBSET S /\ T \ {x} \subseteq T /\ T \ {x} # T
      BY <1>3
    <2> QED BY <1>2, <2>1 DEF B
  <1> DEFINE G == [s \in SUBSET T |->
                     IF s = {} THEN 0 ELSE f[First(s)] + H(First(s))[s \ {First(s)}]]
  <1> HIDE DEF H
  <1>5. G \in [SUBSET T -> Int]
    <2> SUFFICES ASSUME NEW s \in SUBSET T, s # {}
                 PROVE  f[First(s)] + H(First(s))[s \ {First(s)}] \in Int
      OBVIOUS
    <2>0. First(s) \in s /\ s \subseteq T /\ T \subseteq S
      BY <1>3, FirstIn
    <2>1. First(s) \in T /\ f[First(s)] \in Int
      BY <2>0
    <2>2. s \ {First(s)} \in SUBSET (T \ {First(s)})
      BY <2>0
    <2>3. H(First(s)) \in [SUBSET (T \ {First(s)}) -> Int]
      BY <1>4, <2>1
    <2>4. H(First(s))[s \ {First(s)}] \in Int
      BY <2>2, <2>3
    <2> QED BY <2>1, <2>4
  <1>6. ASSUME NEW s \in SUBSET T, s # {}
        PROVE  H(First(s))[s \ {First(s)}] = G[s \ {First(s)}]
    <2> DEFINE x == First(s)
               r == s \ {x}
    <2>1. x \in T /\ r \in SUBSET (T \ {x}) /\ r \in SUBSET T
      BY <1>6, FirstIn
    <2> HIDE DEF x, r
    <2>2. Sums(f, SUBSET (T \ {x}), H(x))
      BY <1>4, <2>1
    <2>3. H(x)[r] = IF r = {} THEN 0 ELSE f[First(r)] + H(x)[r \ {First(r)}]
      BY <2>1, <2>2 DEF Sums
    <2>4. CASE r = {}
      BY <2>1, <2>3, <2>4 DEF x, r
    <2>5. CASE r # {}
      <3> DEFINE y == First(r)
                 q == r \ {y}
                 U == T \ {x}
                 V == T \ {y}
      <3>1. /\ y \in r /\ y \in T /\ q \subseteq U /\ q \subseteq V
        BY <2>1, <2>5, FirstIn
      <3>2. Sums(f, SUBSET V, H(y)) /\ Sums(f, SUBSET U, H(x))
        BY <1>4, <2>2, <3>1
      <3>3. IsFiniteSet(U)
        BY <1>3, FS_Subset
      <3> HIDE DEF y, q, U, V
      <3>7. H(x)[q] = H(y)[q]
        BY <3>1, <3>2, <3>3, SumsAgree, SMTT(30)
      <3>8. G[r] = f[y] + H(y)[q]
        BY <2>1, <2>5 DEF y, q
      <3> QED BY <2>3, <2>5, <3>7, <3>8 DEF x, r, y, q
    <2> QED BY <2>4, <2>5
  <1>7. Sums(f, SUBSET T, G)
    BY <1>6 DEF Sums
  <1> QED BY <1>3, <1>5, <1>7

\* A sum is its first element and the sum of the rest.
LEMMA TotalStep ==
    ASSUME NEW S, IsFiniteSet(S), NEW f, \A x \in S : f[x] \in Int
    PROVE  /\ Total(f, S) \in Int
           /\ Total(f, S) = IF S = {} THEN 0 ELSE f[First(S)] + Total(f, S \ {First(S)})
  <1> DEFINE h == CHOOSE h : Sums(f, SUBSET S, h)
             R == S \ {First(S)}
             g == CHOOSE g : Sums(f, SUBSET R, g)
  <1>1. PICK k \in [SUBSET S -> Int] : Sums(f, SUBSET S, k)
    BY SumsExist
  <1>2. Sums(f, SUBSET S, h)
    BY <1>1
  <1>3. Total(f, S) = h[S] /\ Total(f, R) = g[R]
    BY TotalIs
  <1>4. IsFiniteSet(R) /\ R \in SUBSET S /\ \A x \in R : f[x] \in Int
    BY FS_Subset
  <1> HIDE DEF h, R
  <1>5. Sums(f, SUBSET R, g)
    <2>1. \E q \in [SUBSET R -> Int] : Sums(f, SUBSET R, q)
      BY <1>4, SumsExist
    <2> QED BY <2>1
  <1> HIDE DEF g
  <1>6. h[R] = g[R]
    BY <1>2, <1>4, <1>5, SumsAgree
  <1>7. h[S] = k[S]
    BY <1>1, <1>2, SumsAgree
  <1>8. h[S] = IF S = {} THEN 0 ELSE f[First(S)] + h[R]
    BY <1>2 DEF Sums, R
  <1> QED BY <1>1, <1>3, <1>6, <1>7, <1>8 DEF R

\* A sum of natural numbers is one.
LEMMA TotalFirst ==
    ASSUME NEW S, IsFiniteSet(S), NEW f, \A x \in S : f[x] \in Nat
    PROVE  /\ Total(f, S) \in Nat
           /\ Total(f, S) = IF S = {} THEN 0 ELSE f[First(S)] + Total(f, S \ {First(S)})
  <1> DEFINE B == {T \in SUBSET S : Total(f, T) \notin Nat}
  <1> SUFFICES ASSUME B # {} PROVE FALSE
    <2>1. \A x \in S : f[x] \in Int
      OBVIOUS
    <2>2. Total(f, S) = IF S = {} THEN 0 ELSE f[First(S)] + Total(f, S \ {First(S)})
      BY <2>1, TotalStep
    <2> QED BY <2>2
  <1>1. B \subseteq SUBSET S
    OBVIOUS
  <1> HIDE DEF B
  <1>2. PICK T \in B : \A R \in B : R \subseteq T => R = T
    BY <1>1, SmallestSet
  <1>3. T \in SUBSET S /\ IsFiniteSet(T) /\ Total(f, T) \notin Nat
    BY <1>2, FS_Subset DEF B
  <1>4. \A x \in T : f[x] \in Nat /\ f[x] \in Int
    BY <1>3
  <1>5. Total(f, T) = IF T = {} THEN 0 ELSE f[First(T)] + Total(f, T \ {First(T)})
    BY <1>3, <1>4, TotalStep
  <1>6. T # {}
    BY <1>3, <1>5
  <1> DEFINE R == T \ {First(T)}
  <1>7. First(T) \in T /\ R \in SUBSET S /\ R \subseteq T /\ R # T
    BY <1>3, <1>6, FirstIn
  <1>8. Total(f, R) \in Nat
    BY <1>2, <1>7 DEF B
  <1>9. f[First(T)] \in Nat
    BY <1>4, <1>7
  <1> QED BY <1>3, <1>5, <1>6, <1>8, <1>9

\* ... whichever element comes first.
LEMMA TotalAdd ==
    ASSUME NEW S, IsFiniteSet(S), NEW f, \A x \in S : f[x] \in Int, NEW x \in S
    PROVE  Total(f, S) = f[x] + Total(f, S \ {x})
  <1> DEFINE B == {T \in SUBSET S : \E y \in T : Total(f, T) # f[y] + Total(f, T \ {y})}
  <1> SUFFICES ASSUME B # {} PROVE FALSE
    OBVIOUS
  <1>1. B \subseteq SUBSET S
    OBVIOUS
  <1> HIDE DEF B
  <1>2. PICK T \in B : \A R \in B : R \subseteq T => R = T
    BY <1>1, SmallestSet
  <1>3. PICK y \in T : T \in SUBSET S /\ Total(f, T) # f[y] + Total(f, T \ {y})
    BY <1>2 DEF B
  <1> DEFINE a == First(T)
  <1>4. a \in T
    BY <1>3, FirstIn
  <1> DEFINE A == T \ {a}
             Y == T \ {y}
             W == A \ {y}
  <1>5. /\ IsFiniteSet(T) /\ \A z \in T : f[z] \in Int
        /\ IsFiniteSet(A) /\ \A z \in A : f[z] \in Int
        /\ IsFiniteSet(Y) /\ \A z \in Y : f[z] \in Int
        /\ IsFiniteSet(W) /\ \A z \in W : f[z] \in Int
    BY <1>3, FS_Subset
  <1>6. A \in SUBSET S /\ Y \in SUBSET S /\ A \subseteq T /\ Y \subseteq T /\ A # T /\ Y # T
    BY <1>3, <1>4
  <1>7. W = Y \ {a}
    OBVIOUS
  <1>8. Total(f, T) = f[a] + Total(f, A)
    BY <1>4, <1>5, TotalStep
  <1>9. Total(f, A) \in Int /\ Total(f, Y) \in Int /\ Total(f, W) \in Int
    BY <1>5, TotalStep
  <1>10. y # a
    BY <1>3, <1>8
  <1> HIDE DEF a, A, Y, W
  <1>11. A \notin B /\ Y \notin B
    BY <1>2, <1>6
  <1>12. Total(f, A) = f[y] + Total(f, W)
    <2>1. y \in A
      BY <1>10 DEF A
    <2> QED BY <1>6, <1>11, <2>1 DEF B, W
  <1>13. Total(f, Y) = f[a] + Total(f, W)
    <2>1. a \in Y
      BY <1>4, <1>10 DEF Y
    <2> QED BY <1>6, <1>7, <1>11, <2>1 DEF B
  <1>14. f[a] \in Int /\ f[y] \in Int
    BY <1>4, <1>5
  <1>15. Total(f, T) = f[y] + Total(f, Y)
    BY <1>8, <1>9, <1>12, <1>13, <1>14
  <1> QED BY <1>3, <1>15 DEF Y

\* Fewer terms do not add up to more.
LEMMA TotalMonotone ==
    ASSUME NEW S, IsFiniteSet(S), NEW f, \A x \in S : f[x] \in Nat, NEW R, R \subseteq S
    PROVE  Total(f, R) <= Total(f, S)
  <1> DEFINE B == {T \in SUBSET S : R \subseteq T /\ ~(Total(f, R) <= Total(f, T))}
  <1> SUFFICES ASSUME B # {} PROVE FALSE
    OBVIOUS
  <1>1. B \subseteq SUBSET S
    OBVIOUS
  <1> HIDE DEF B
  <1>2. PICK T \in B : \A Q \in B : Q \subseteq T => Q = T
    BY <1>1, SmallestSet
  <1>3. T \in SUBSET S /\ R \subseteq T /\ ~(Total(f, R) <= Total(f, T))
    BY <1>2 DEF B
  <1>4. /\ IsFiniteSet(T) /\ \A z \in T : f[z] \in Nat
        /\ IsFiniteSet(R) /\ \A z \in R : f[z] \in Nat
    BY <1>3, FS_Subset
  <1>5. Total(f, T) \in Nat /\ Total(f, R) \in Nat
    BY <1>4, TotalFirst
  <1>6. PICK x \in T : x \notin R
    BY <1>3, <1>5
  <1> DEFINE Q == T \ {x}
  <1>7. Q \in SUBSET S /\ R \subseteq Q /\ Q \subseteq T /\ Q # T
    BY <1>3, <1>6
  <1>8. IsFiniteSet(Q) /\ \A z \in Q : f[z] \in Nat
    BY <1>4, FS_Subset
  <1>9. Total(f, T) = f[x] + Total(f, Q)
    BY <1>4, TotalAdd
  <1>10. Total(f, Q) \in Nat
    BY <1>8, TotalFirst
  <1> HIDE DEF Q
  <1>11. Total(f, R) <= Total(f, Q)
    BY <1>2, <1>7 DEF B
  <1>12. f[x] \in Nat
    BY <1>4
  <1> QED BY <1>3, <1>5, <1>9, <1>10, <1>11, <1>12

\* No term is greater, so the sum is not.
LEMMA TotalBelow ==
    ASSUME NEW S, IsFiniteSet(S), NEW f, NEW g,
           \A x \in S : f[x] \in Int /\ g[x] \in Int /\ f[x] <= g[x]
    PROVE  Total(f, S) <= Total(g, S)
  <1> DEFINE B == {T \in SUBSET S : ~(Total(f, T) <= Total(g, T))}
  <1> SUFFICES ASSUME B # {} PROVE FALSE
    OBVIOUS
  <1>1. B \subseteq SUBSET S
    OBVIOUS
  <1> HIDE DEF B
  <1>2. PICK T \in B : \A R \in B : R \subseteq T => R = T
    BY <1>1, SmallestSet
  <1>3. T \in SUBSET S /\ ~(Total(f, T) <= Total(g, T))
    BY <1>2 DEF B
  <1>4. /\ IsFiniteSet(T)
        /\ \A x \in T : f[x] \in Int /\ g[x] \in Int /\ f[x] <= g[x]
    BY <1>3, FS_Subset
  <1>5. T # {}
    <2> SUFFICES ASSUME T = {} PROVE FALSE
      OBVIOUS
    <2>1. Total(f, T) = 0 /\ Total(g, T) = 0
      BY <1>4, TotalStep
    <2> QED BY <1>3, <2>1
  <1>6. PICK x \in T : TRUE
    BY <1>5
  <1> DEFINE R == T \ {x}
  <1>7. /\ R \in SUBSET S /\ R \subseteq T /\ R # T /\ IsFiniteSet(R)
        /\ \A y \in R : f[y] \in Int /\ g[y] \in Int
    BY <1>3, <1>4, FS_Subset
  <1>8. Total(f, T) = f[x] + Total(f, R) /\ Total(g, T) = g[x] + Total(g, R)
    BY <1>4, TotalAdd
  <1>9. Total(f, R) \in Int /\ Total(g, R) \in Int
    BY <1>7, TotalStep
  <1>10. f[x] \in Int /\ g[x] \in Int /\ f[x] <= g[x]
    BY <1>4
  <1> HIDE DEF R
  <1>11. Total(f, R) <= Total(g, R)
    BY <1>2, <1>7 DEF B
  <1> QED BY <1>3, <1>8, <1>9, <1>10, <1>11

\* As few terms or fewer, none greater than any of the others.
LEMMA TotalExchange ==
    ASSUME NEW S, NEW V, IsFiniteSet(S), IsFiniteSet(V), Cardinality(S) <= Cardinality(V),
           NEW f, \A x \in S \cup V : f[x] \in Nat, \A x \in S, y \in V : f[x] <= f[y]
    PROVE  Total(f, S) <= Total(f, V)
  <1> DEFINE B == {T \in SUBSET S :
                     \E W \in SUBSET V : /\ Cardinality(T) <= Cardinality(W)
                                         /\ ~(Total(f, T) <= Total(f, W))}
  <1> SUFFICES ASSUME B # {} PROVE FALSE
    OBVIOUS
  <1>1. B \subseteq SUBSET S
    OBVIOUS
  <1> HIDE DEF B
  <1>2. PICK T \in B : \A R \in B : R \subseteq T => R = T
    BY <1>1, SmallestSet
  <1>3. PICK W \in SUBSET V : /\ T \in SUBSET S
                              /\ Cardinality(T) <= Cardinality(W)
                              /\ ~(Total(f, T) <= Total(f, W))
    BY <1>2 DEF B
  <1>4. /\ IsFiniteSet(T) /\ IsFiniteSet(W)
        /\ \A x \in T : f[x] \in Nat
        /\ \A y \in W : f[y] \in Nat
    BY <1>3, FS_Subset
  <1>5. Total(f, T) \in Nat /\ Total(f, W) \in Nat
    BY <1>4, TotalFirst
  <1>6. T # {}
    <2> SUFFICES ASSUME T = {} PROVE FALSE
      OBVIOUS
    <2>1. Total(f, T) = 0
      BY <1>4, TotalFirst
    <2> QED BY <1>3, <1>5, <2>1
  <1>7. W # {}
    <2>1. Cardinality(T) \in Nat /\ Cardinality(T) # 0
      BY <1>4, <1>6, FS_CardinalityType, FS_EmptySet
    <2>2. Cardinality({}) = 0
      BY FS_EmptySet
    <2> QED BY <1>3, <2>1, <2>2
  <1>8. PICK x \in T : TRUE
    BY <1>6
  <1>9. PICK y \in W : TRUE
    BY <1>7
  <1> DEFINE R == T \ {x}
             Q == W \ {y}
  <1>10. /\ R \in SUBSET S /\ R \subseteq T /\ R # T /\ IsFiniteSet(R)
         /\ Q \in SUBSET V /\ IsFiniteSet(Q)
         /\ \A z \in R : f[z] \in Nat
         /\ \A z \in Q : f[z] \in Nat
    BY <1>3, <1>4, FS_Subset
  <1>11. Cardinality(R) = Cardinality(T) - 1 /\ Cardinality(Q) = Cardinality(W) - 1
    BY <1>4, FS_RemoveElement
  <1>12. Cardinality(T) \in Nat /\ Cardinality(W) \in Nat
    BY <1>4, FS_CardinalityType
  <1>13. Total(f, T) = f[x] + Total(f, R) /\ Total(f, W) = f[y] + Total(f, Q)
    BY <1>4, TotalAdd
  <1>14. Total(f, R) \in Nat /\ Total(f, Q) \in Nat
    BY <1>10, TotalFirst
  <1>15. f[x] \in Nat /\ f[y] \in Nat /\ f[x] <= f[y]
    BY <1>3, <1>4
  <1> HIDE DEF R, Q
  <1>16. Cardinality(R) <= Cardinality(Q)
    BY <1>3, <1>11, <1>12
  <1>17. Total(f, R) <= Total(f, Q)
    BY <1>2, <1>10, <1>16 DEF B
  <1> QED BY <1>3, <1>13, <1>14, <1>15, <1>17

\* Two parts of a set add up to the whole.
LEMMA TotalJoin ==
    ASSUME NEW S, NEW V, IsFiniteSet(S), IsFiniteSet(V), S \cap V = {},
           NEW f, \A x \in S \cup V : f[x] \in Nat
    PROVE  Total(f, S \cup V) = Total(f, S) + Total(f, V)
  <1> DEFINE B == {T \in SUBSET S : Total(f, T \cup V) # Total(f, T) + Total(f, V)}
  <1> SUFFICES ASSUME B # {} PROVE FALSE
    OBVIOUS
  <1>1. B \subseteq SUBSET S
    OBVIOUS
  <1> HIDE DEF B
  <1>2. PICK T \in B : \A R \in B : R \subseteq T => R = T
    BY <1>1, SmallestSet
  <1>3. T \in SUBSET S /\ Total(f, T \cup V) # Total(f, T) + Total(f, V)
    BY <1>2 DEF B
  <1>4. IsFiniteSet(T) /\ IsFiniteSet(T \cup V) /\ \A x \in T \cup V : f[x] \in Nat
    BY <1>3, FS_Subset, FS_Union
  <1>5. Total(f, V) \in Nat
    BY TotalFirst
  <1>6. T # {}
    <2> SUFFICES ASSUME T = {} PROVE FALSE
      OBVIOUS
    <2>1. Total(f, T) = 0 /\ T \cup V = V
      BY <1>4, TotalFirst
    <2> QED BY <1>3, <1>5, <2>1
  <1>7. PICK x \in T : TRUE
    BY <1>6
  <1> DEFINE R == T \ {x}
  <1>8. /\ R \in SUBSET S /\ R \subseteq T /\ R # T /\ IsFiniteSet(R)
        /\ \A y \in R : f[y] \in Nat
        /\ (T \cup V) \ {x} = R \cup V
    BY <1>3, <1>4, FS_Subset
  <1>9. Total(f, T) = f[x] + Total(f, R)
    BY <1>4, TotalAdd
  <1>10. Total(f, T \cup V) = f[x] + Total(f, (T \cup V) \ {x})
    BY <1>4, TotalAdd
  <1>11. Total(f, R) \in Nat /\ f[x] \in Nat
    BY <1>4, <1>8, TotalFirst
  <1> HIDE DEF R
  <1>12. Total(f, R \cup V) = Total(f, R) + Total(f, V)
    BY <1>2, <1>8 DEF B
  <1> QED BY <1>3, <1>5, <1>8, <1>9, <1>10, <1>11, <1>12

\* Term by term.
LEMMA TotalPlus ==
    ASSUME NEW S, IsFiniteSet(S), NEW f, NEW g, NEW h,
           \A x \in S : f[x] \in Int /\ g[x] \in Int /\ h[x] = f[x] + g[x]
    PROVE  Total(h, S) = Total(f, S) + Total(g, S)
  <1> DEFINE B == {T \in SUBSET S : Total(h, T) # Total(f, T) + Total(g, T)}
  <1> SUFFICES ASSUME B # {} PROVE FALSE
    OBVIOUS
  <1>1. B \subseteq SUBSET S
    OBVIOUS
  <1> HIDE DEF B
  <1>2. PICK T \in B : \A R \in B : R \subseteq T => R = T
    BY <1>1, SmallestSet
  <1>3. T \in SUBSET S /\ Total(h, T) # Total(f, T) + Total(g, T)
    BY <1>2 DEF B
  <1>4. /\ IsFiniteSet(T)
        /\ \A x \in T : f[x] \in Int /\ g[x] \in Int /\ h[x] \in Int /\ h[x] = f[x] + g[x]
    BY <1>3, FS_Subset
  <1>5. T # {}
    <2> SUFFICES ASSUME T = {} PROVE FALSE
      OBVIOUS
    <2>1. Total(f, T) = 0 /\ Total(g, T) = 0 /\ Total(h, T) = 0
      BY <1>4, TotalStep
    <2> QED BY <1>3, <2>1
  <1>6. PICK x \in T : TRUE
    BY <1>5
  <1> DEFINE R == T \ {x}
  <1>7. /\ R \in SUBSET S /\ R \subseteq T /\ R # T /\ IsFiniteSet(R)
        /\ \A y \in R : f[y] \in Int /\ g[y] \in Int /\ h[y] \in Int
    BY <1>3, <1>4, FS_Subset
  <1>8. /\ Total(f, T) = f[x] + Total(f, R) /\ Total(g, T) = g[x] + Total(g, R)
        /\ Total(h, T) = h[x] + Total(h, R)
    BY <1>4, TotalAdd
  <1>9. Total(f, R) \in Int /\ Total(g, R) \in Int /\ Total(h, R) \in Int
    BY <1>7, TotalStep
  <1>10. f[x] \in Int /\ g[x] \in Int /\ h[x] = f[x] + g[x]
    BY <1>4
  <1> HIDE DEF R
  <1>11. Total(h, R) = Total(f, R) + Total(g, R)
    BY <1>2, <1>7 DEF B
  <1> QED BY <1>3, <1>8, <1>9, <1>10, <1>11

\* A sum of one term.
LEMMA TotalSingle ==
    ASSUME NEW f, NEW x, f[x] \in Nat
    PROVE  Total(f, {x}) = f[x]
  <1>1. IsFiniteSet({x}) /\ IsFiniteSet({}) /\ {x} \ {x} = {}
    BY FS_Singleton, FS_EmptySet
  <1>2. Total(f, {x}) = f[x] + Total(f, {})
    BY <1>1, TotalAdd
  <1>3. Total(f, {}) = 0
    BY <1>1, TotalFirst
  <1> QED BY <1>2, <1>3

\* Each term has one of its own in the other sum that is no smaller.
LEMMA TotalInjection ==
    ASSUME NEW S, IsFiniteSet(S), NEW V, IsFiniteSet(V), NEW m \in [S -> V],
           \A x, y \in S : m[x] = m[y] => x = y,
           NEW f, \A x \in S : f[x] \in Nat, NEW g, \A y \in V : g[y] \in Nat,
           \A x \in S : f[x] <= g[m[x]]
    PROVE  Total(f, S) <= Total(g, V)
  <1> DEFINE B == {T \in SUBSET S :
                     \E W \in SUBSET V : /\ \A x \in T : m[x] \in W
                                         /\ ~(Total(f, T) <= Total(g, W))}
  <1> SUFFICES ASSUME B # {} PROVE FALSE
    OBVIOUS
  <1>1. B \subseteq SUBSET S
    OBVIOUS
  <1> HIDE DEF B
  <1>2. PICK T \in B : \A R \in B : R \subseteq T => R = T
    BY <1>1, SmallestSet
  <1>3. PICK W \in SUBSET V : /\ T \in SUBSET S
                              /\ \A x \in T : m[x] \in W
                              /\ ~(Total(f, T) <= Total(g, W))
    BY <1>2 DEF B
  <1>4. /\ IsFiniteSet(T) /\ IsFiniteSet(W)
        /\ \A x \in T : f[x] \in Nat
        /\ \A y \in W : g[y] \in Nat
    BY <1>3, FS_Subset
  <1>5. Total(f, T) \in Nat /\ Total(g, W) \in Nat
    BY <1>4, TotalFirst
  <1>6. T # {}
    <2> SUFFICES ASSUME T = {} PROVE FALSE
      OBVIOUS
    <2>1. Total(f, T) = 0
      BY <1>4, TotalFirst
    <2> QED BY <1>3, <1>5, <2>1
  <1>7. PICK x \in T : TRUE
    BY <1>6
  <1> DEFINE R == T \ {x}
             Q == W \ {m[x]}
  <1>8. /\ R \in SUBSET S /\ R \subseteq T /\ R # T /\ IsFiniteSet(R)
        /\ Q \in SUBSET V /\ IsFiniteSet(Q) /\ m[x] \in W
        /\ \A z \in R : f[z] \in Nat
        /\ \A z \in Q : g[z] \in Nat
    BY <1>3, <1>4, FS_Subset
  <1>9. \A z \in R : m[z] \in Q
    BY <1>3
  <1>10. Total(f, T) = f[x] + Total(f, R) /\ Total(g, W) = g[m[x]] + Total(g, Q)
    BY <1>4, <1>8, TotalAdd
  <1>11. Total(f, R) \in Nat /\ Total(g, Q) \in Nat
    BY <1>8, TotalFirst
  <1>12. f[x] \in Nat /\ g[m[x]] \in Nat /\ f[x] <= g[m[x]]
    BY <1>3, <1>4, <1>8
  <1> HIDE DEF R, Q
  <1>13. Total(f, R) <= Total(g, Q)
    BY <1>2, <1>8, <1>9 DEF B
  <1> QED BY <1>3, <1>10, <1>11, <1>12, <1>13
================================================================================
