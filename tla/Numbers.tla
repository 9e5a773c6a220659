------------------------------- MODULE Numbers -------------------------------
(***************************************************************************)
(* Induction and recursion over the natural numbers, for sets and          *)
(* functions: what the proofs about compile order rest on.                 *)
(***************************************************************************)
EXTENDS Naturals, FiniteSetTheorems, FunctionTheorems, TLAPS

(* A set that holds 0 and the successor of each of its numbers holds every *)
(* number: below a number n it does not hold, the successor would be an    *)
(* injection of its finitely many elements that misses 0.                  *)
LEMMA SetInduction ==
    ASSUME NEW T \in SUBSET Nat, 0 \in T, \A n \in T : n + 1 \in T,
           NEW n \in Nat
    PROVE  n \in T
<1> SUFFICES ASSUME n \notin T PROVE FALSE
  OBVIOUS
<1> DEFINE A == T \intersect (0..n)
<1> DEFINE s == [x \in A |-> x + 1]
<1>1. IsFiniteSet(A)
  <2>1. IsFiniteSet(0..n)
    BY FS_Interval
  <2> QED
    BY <2>1, FS_Subset
<1>2. s \in Injection(A, A)
  <2>1. s \in [A -> A]
    OBVIOUS
  <2>2. \A x, y \in A : s[x] = s[y] => x = y
    OBVIOUS
  <2> QED
    BY <2>1, <2>2 DEF Injection, IsInjective
<1>3. s \in Surjection(A, A)
  BY <1>1, <1>2, FS_Injection
<1>4. 0 \in A
  OBVIOUS
<1>5. PICK x \in A : s[x] = 0
  BY <1>3, <1>4 DEF Surjection
<1> QED
  BY <1>5

(* Every nonempty set of numbers has a least one.                          *)
LEMMA LeastNumber ==
    ASSUME NEW I \in SUBSET Nat, I # {}
    PROVE  \E i \in I : \A j \in I : i <= j
<1> SUFFICES ASSUME \A i \in I : \E j \in I : ~(i <= j) PROVE FALSE
  OBVIOUS
<1> DEFINE T == {n \in Nat : \A i \in I : n < i}
<1>1. 0 \in T
  OBVIOUS
<1>2. \A n \in T : n + 1 \in T
  <2> SUFFICES ASSUME NEW n \in T, NEW i \in I, i <= n + 1 PROVE FALSE
    OBVIOUS
  <2>1. PICK j \in I : ~(i <= j)
    OBVIOUS
  <2>2. n < i /\ n < j
    OBVIOUS
  <2> QED
    BY <2>1, <2>2
<1>3. PICK i \in I : TRUE
  OBVIOUS
<1> HIDE DEF T
<1>4. T \in SUBSET Nat
  BY DEF T
<1>5. i \in T
  BY <1>1, <1>2, <1>4, SetInduction
<1> QED
  BY <1>5 DEF T

(* Every nonempty set of numbers up to n has a greatest one.               *)
LEMMA GreatestNumber ==
    ASSUME NEW I \in SUBSET Nat, I # {}, NEW n \in Nat, \A i \in I : i <= n
    PROVE  \E i \in I : \A j \in I : j <= i
<1> DEFINE J == {n - i : i \in I}
<1>1. J \in SUBSET Nat /\ J # {}
  <2>1. \A i \in I : n - i \in Nat
    OBVIOUS
  <2> QED
    BY <2>1
<1>2. PICK a \in J : \A b \in J : a <= b
  <2> HIDE DEF J
  <2> QED BY <1>1, LeastNumber
<1>3. PICK i \in I : a = n - i
  BY <1>2
<1>4. ASSUME NEW j \in I PROVE j <= i
  <2>1. n - j \in J
    OBVIOUS
  <2>2. n - i <= n - j
    BY <1>2, <1>3, <2>1
  <2> QED
    BY <2>2
<1> QED
  BY <1>4

(* The functions with a given first value and a given step.                *)
Recursive(N, R, a, step) ==
    {g \in [0 .. N -> R] : g[0] = a /\ \A k \in 1 .. N : g[k] = step[<<k, g[k - 1]>>]}

(* There is one.                                                           *)
LEMMA Recursion ==
    ASSUME NEW N \in Nat, NEW R, NEW a \in R, NEW step \in [(1 .. N) \X R -> R]
    PROVE  \E g : g \in Recursive(N, R, a, step)
<1> DEFINE Follows(n, g) == g[0] = a /\ \A k \in 1 .. n : g[k] = step[<<k, g[k - 1]>>]
           T == {n \in Nat : n <= N => \E g \in [0 .. n -> R] : Follows(n, g)}
<1>1. 0 \in T
  <2> DEFINE g == [k \in 0 .. 0 |-> a]
  <2>1. g \in [0 .. 0 -> R] /\ Follows(0, g)
    OBVIOUS
  <2> HIDE DEF g, Follows
  <2> QED BY <2>1
<1>2. \A n \in T : n + 1 \in T
  <2> SUFFICES ASSUME NEW n \in T, n + 1 <= N
               PROVE  \E g \in [0 .. n + 1 -> R] : Follows(n + 1, g)
    OBVIOUS
  <2>1. n \in Nat /\ n <= N /\ n + 1 \in 1 .. N
    OBVIOUS
  <2>2. PICK g \in [0 .. n -> R] : Follows(n, g)
    BY <2>1
  <2> DEFINE last == step[<<n + 1, g[n]>>]
             h == [k \in 0 .. n + 1 |-> IF k = n + 1 THEN last ELSE g[k]]
  <2>3. g[n] \in R
    BY <2>1
  <2>4. last \in R
    BY <2>1, <2>3
  <2>5. h \in [0 .. n + 1 -> R]
    BY <2>1, <2>4
  <2>6. h[n + 1] = last /\ \A k \in 0 .. n : h[k] = g[k]
    BY <2>1
  <2> HIDE DEF h
  <2>7. Follows(n + 1, h)
    <3>1. h[0] = a
      BY <2>1, <2>2, <2>6
    <3>2. ASSUME NEW k \in 1 .. n + 1 PROVE h[k] = step[<<k, h[k - 1]>>]
      <4>1. k - 1 \in 0 .. n /\ h[k - 1] = g[k - 1]
        BY <2>1, <2>6
      <4>2. CASE k = n + 1
        <5>1. k - 1 = n
          BY <4>2, <2>1
        <5> QED BY <2>6, <4>1, <4>2, <5>1
      <4>3. CASE k # n + 1
        <5>1. k \in 1 .. n /\ k \in 0 .. n
          BY <4>3, <2>1
        <5> QED BY <2>2, <2>6, <4>1, <5>1
      <4> QED BY <4>2, <4>3
    <3> QED BY <3>1, <3>2
  <2> HIDE DEF Follows
  <2> QED BY <2>5, <2>7
<1>3. T \in SUBSET Nat
  OBVIOUS
<1> HIDE DEF T
<1>4. N \in T
  BY <1>1, <1>2, <1>3, SetInduction
<1> QED BY <1>4 DEF T, Recursive

(* What does not change from one number to the next does not change.       *)
LEMMA Constant ==
    ASSUME NEW g, NEW i \in Nat, NEW j \in Nat, i <= j,
           \A k \in i + 1 .. j : g[k] = g[k - 1]
    PROVE  g[j] = g[i]
<1> DEFINE T == {n \in Nat : i + n <= j => g[i + n] = g[i]}
<1>1. 0 \in T
  OBVIOUS
<1>2. \A n \in T : n + 1 \in T
  <2> SUFFICES ASSUME NEW n \in T, i + (n + 1) <= j PROVE g[i + (n + 1)] = g[i]
    OBVIOUS
  <2>1. i + (n + 1) \in i + 1 .. j /\ (i + (n + 1)) - 1 = i + n /\ i + n <= j
    OBVIOUS
  <2> QED BY <2>1
<1>3. T \in SUBSET Nat /\ j - i \in Nat
  OBVIOUS
<1> HIDE DEF T
<1>4. j - i \in T
  BY <1>1, <1>2, <1>3, SetInduction
<1>5. i + (j - i) = j /\ i + (j - i) <= j
  OBVIOUS
<1> QED BY <1>4, <1>5 DEF T
=============================================================================
