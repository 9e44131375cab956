------------------------------ MODULE Induction ------------------------------
(***************************************************************************)
(* Induction over the natural numbers, stated of sets: what holds of every *)
(* number is the set of the numbers it holds of; and recursion, stated of  *)
(* functions.  The proofs use them for what the models define by           *)
(* recursion, such as a chain of clusters, and for what they count.        *)
(***************************************************************************)
EXTENDS Integers, FiniteSets, FiniteSetTheorems, WellFoundedInduction, TLAPS

\* Every set of naturals has a least one.
LEMMA LeastElement ==
    ASSUME NEW T \in SUBSET Nat, T # {}
    PROVE  \E m \in T : \A n \in T : m <= n
<1>. DEFINE R == OpToRel(<, Nat)
<1>1. IsWellFoundedOn(R, Nat)
  BY NatLessThanWellFounded
<1>2. \A n, m \in Nat : n < m => <<n, m>> \in R
  BY DEF OpToRel
<1>. HIDE DEF R
<1>3. PICK m \in T : \A n \in T : <<n, m>> \notin R
  BY <1>1, WFMin
<1>4. \A n \in T : ~ (n < m)
  BY <1>2, <1>3, Zenon
<1>5. m \in Nat /\ T \subseteq Nat
  OBVIOUS
<1>. QED  BY <1>4, <1>5

\* A set with 0 and with the successor of each of its numbers has them all.
LEMMA EveryNatural ==
    ASSUME NEW T, 0 \in T, \A n \in Nat : n \in T => n + 1 \in T
    PROVE  \A n \in Nat : n \in T
<1>. SUFFICES ASSUME Nat \ T # {}  PROVE FALSE
  OBVIOUS
<1>1. PICK m \in Nat \ T : \A n \in Nat \ T : m <= n
  BY LeastElement
<1>2. m # 0 /\ m - 1 \in Nat /\ ~ (m <= m - 1)
  BY <1>1
<1>3. m - 1 \in T
  BY <1>1, <1>2
<1>. QED  BY <1>1, <1>2, <1>3

\* So has one that grows from 0 through the numbers up to a bound.
LEMMA EveryUpTo ==
    ASSUME NEW N \in Nat, NEW T, 0 \in T, \A n \in 0 .. N - 1 : n \in T => n + 1 \in T
    PROVE  \A n \in 0 .. N : n \in T
<1>. DEFINE S == T \union {n \in Nat : n > N}
<1>1. \A n \in Nat : n \in S => n + 1 \in S
  <2>1. ASSUME NEW n \in Nat, n \in S PROVE n + 1 \in S
    <3>1. CASE n < N
      BY <2>1, <3>1
    <3>2. CASE ~ (n < N)
      BY <3>2
    <3>. QED  BY <3>1, <3>2
  <2>. QED  BY <2>1
<1>2. 0 \in S
  OBVIOUS
<1>. HIDE DEF S
<1>3. \A n \in Nat : n \in S
  BY <1>1, <1>2, EveryNatural
<1>. QED  BY <1>3 DEF S

\* How a value comes from the number of its place and from the value before.
Turns(V) == [Nat \X V -> V]

\* The function that a definition by recursion gives.
Recurs(g, first, last, V, base, turn) ==
    /\ g \in [first .. last -> V]
    /\ \A n \in first .. last : g[n] = IF n = first THEN base ELSE turn[<<n, g[n - 1]>>]

\* There is one.
LEMMA FunctionByRecursion ==
    ASSUME NEW first \in Nat, NEW last \in Nat, first <= last, NEW V, NEW base \in V,
           NEW turn \in Turns(V)
    PROVE  \E g : Recurs(g, first, last, V, base, turn)
<1>. DEFINE N == last - first
<1>0. N \in Nat /\ first + N = last /\ turn \in [Nat \X V -> V]
  BY DEF Turns
<1>. HIDE DEF N
<1>. DEFINE Good(n, g) == /\ g \in [first .. first + n -> V]
                          /\ \A i \in first .. first + n :
                                g[i] = IF i = first THEN base ELSE turn[<<i, g[i - 1]>>]
            T == {n \in Nat : \E g : Good(n, g)}
<1>1. 0 \in T
  <2>1. Good(0, [i \in first .. first + 0 |-> base])
    OBVIOUS
  <2>. QED  BY <2>1
<1>2. ASSUME NEW n \in 0 .. N - 1, n \in T PROVE n + 1 \in T
  <2>. DEFINE m == first + (n + 1)
  <2>1. PICK g : Good(n, g)
    BY <1>2
  <2>2. /\ m \in Nat /\ m - 1 = first + n /\ n + 1 \in Nat /\ n \in Nat
        /\ first .. m = (first .. first + n) \union {m} /\ m \notin first .. first + n
        /\ first # m /\ first \in first .. first + n /\ first + n \in first .. first + n
    BY <1>0
  <2>. HIDE DEF m
  <2>3. turn[<<m, g[first + n]>>] \in V
    BY <1>0, <2>1, <2>2
  <2>. DEFINE h == [i \in first .. m |-> IF i = m THEN turn[<<m, g[first + n]>>] ELSE g[i]]
  <2>4. h \in [first .. m -> V]
    BY <2>1, <2>2, <2>3
  <2>5. ASSUME NEW i \in first .. m
        PROVE  h[i] = IF i = first THEN base ELSE turn[<<i, h[i - 1]>>]
    <3>1. CASE i = m
      BY <2>2, <3>1
    <3>2. CASE i # m
      <4>1. i \in first .. first + n /\ (i # first => i - 1 \in first .. m /\ i - 1 # m)
        BY <2>2, <3>2
      <4>2. h[i] = g[i] /\ (i # first => h[i - 1] = g[i - 1])
        BY <3>2, <4>1
      <4>. QED  BY <2>1, <4>1, <4>2
    <3>. QED  BY <3>1, <3>2
  <2>. HIDE DEF h
  <2>6. Good(n + 1, h)
    BY <2>4, <2>5 DEF m
  <2>. QED  BY <2>2, <2>6
<1>. HIDE DEF T
<1>3. N \in T
  BY <1>0, <1>1, <1>2, EveryUpTo
<1>. QED  BY <1>0, <1>3 DEF T, Recurs
=============================================================================
