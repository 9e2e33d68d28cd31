------------------------------ MODULE Induction ------------------------------
(***************************************************************************)
(* Induction over the naturals, as a statement about sets: what a function *)
(* that is defined by recursion returns follows from it.                   *)
(***************************************************************************)
EXTENDS Naturals, WellFoundedInduction, TLAPS

LEMMA NatsHaveLeast ==
    ASSUME NEW T, T \subseteq Nat, T # {}
    PROVE  \E x \in T : \A y \in T : x <= y
<1> DEFINE R == {ss \in Nat \X Nat : ss[1] < ss[2]}
<1>1. IsWellFoundedOn(R, Nat)
    BY NatLessThanWellFounded DEF OpToRel
<1>2. PICK x \in T : \A y \in T : ~(<<y, x>> \in R)
    BY <1>1, WFMin
<1>3. ASSUME NEW y \in T PROVE x <= y
  <2>1. <<y, x>> \in Nat \X Nat
    OBVIOUS
  <2>2. ~(y < x)
    BY <1>2, <2>1
  <2>3. QED
    BY <2>2
<1>4. QED
    BY <1>3

LEMMA SetInduction ==
    ASSUME NEW T, 0 \in T, \A n \in Nat : n \in T => n + 1 \in T
    PROVE  Nat \subseteq T
<1> SUFFICES ASSUME NEW n \in Nat, n \notin T PROVE FALSE
    OBVIOUS
<1>1. PICK x \in Nat \ T : \A y \in Nat \ T : x <= y
    BY NatsHaveLeast
<1>2. x - 1 \in Nat /\ x - 1 \in T
    BY <1>1
<1>3. QED
    BY <1>1, <1>2

\* A recursion from 0 to N has a function that satisfies it.
Recursive(g, N, V, base, step) ==
    /\ g \in [0..N -> V] /\ g[0] = base
    /\ \A n \in 1..N : g[n - 1] \in V /\ g[n] = step[<<g[n - 1], n>>]

LEMMA RecursionExists ==
    ASSUME NEW N \in Nat, NEW V, NEW base \in V, NEW step \in [V \X (1..N) -> V]
    PROVE  \E g : Recursive(g, N, V, base, step)
<1> DEFINE Made(f, n) == /\ f \in [0..n -> V] /\ f[0] = base
                         /\ \A i \in 1..n : f[i] = step[<<f[i - 1], i>>]
           S == {n \in Nat : n <= N => \E f : Made(f, n)}
<1>1. 0 \in S
  <2>1. Made([i \in 0..0 |-> base], 0)
    OBVIOUS
  <2>2. QED
    BY <2>1
<1>2. ASSUME NEW n \in Nat, n \in S PROVE n + 1 \in S
  <2>0. n + 1 \in Nat /\ (n + 1 <= N => n <= N)
    OBVIOUS
  <2> SUFFICES ASSUME n + 1 <= N PROVE \E f : Made(f, n + 1)
    <3> HIDE DEF Made
    <3>1. QED
        BY <2>0
  <2>1. PICK f : Made(f, n)
    <3> HIDE DEF Made
    <3>1. QED
        BY <1>2, <2>0
  <2>2. PICK v \in V : v = step[<<f[n], n + 1>>]
    <3>1. n + 1 \in 1..N /\ f[n] \in V
        BY <2>1
    <3>2. QED
        BY <3>1
  <2> DEFINE g == [i \in 0..n + 1 |-> IF i <= n THEN f[i] ELSE v]
  <2>3. g \in [0..n + 1 -> V] /\ g[0] = base
    BY <2>1, <2>2
  <2>4. ASSUME NEW i \in 1..n + 1 PROVE g[i] = step[<<g[i - 1], i>>]
    <3>1. CASE i <= n
        BY <2>1, <3>1
    <3>2. CASE i = n + 1
      <4>1. i - 1 = n /\ g[i] = v /\ g[n] = f[n]
        BY <3>2
      <4>2. QED
        BY <2>2, <3>2, <4>1
    <3>3. QED
        BY <3>1, <3>2
  <2>5. QED
    BY <2>3, <2>4
<1>3. Nat \subseteq S
  <2> HIDE DEF S
  <2>1. QED
    BY <1>1, <1>2, SetInduction
<1>4. PICK f : Made(f, N)
  <2> HIDE DEF Made
  <2>1. N \in S /\ N <= N
    BY <1>3
  <2>2. QED
    BY <2>1
<1>5. \A n \in 1..N : f[n - 1] \in V
  <2>1. ASSUME NEW n \in 1..N PROVE f[n - 1] \in V
    <3>1. n - 1 \in 0..N
        OBVIOUS
    <3>2. QED
        BY <1>4, <3>1
  <2>2. QED
    BY <2>1
<1>6. Recursive(f, N, V, base, step)
    BY <1>4, <1>5 DEF Recursive
<1>7. QED
    BY <1>6

\* What satisfies it stays in the set.
LEMMA RecursionStays ==
    ASSUME NEW N \in Nat, NEW V, NEW h, h[0] \in V,
           \A n \in 1..N : h[n - 1] \in V => h[n] \in V
    PROVE  \A n \in 0..N : h[n] \in V
<1> DEFINE T == {n \in Nat : n <= N => h[n] \in V}
<1>1. 0 \in T
    OBVIOUS
<1>2. ASSUME NEW n \in Nat, n \in T PROVE n + 1 \in T
  <2>1. ASSUME n + 1 <= N PROVE h[n + 1] \in V
    <3>1. h[n] \in V /\ n + 1 \in 1..N /\ (n + 1) - 1 = n
        BY <1>2, <2>1
    <3>2. QED
        BY <3>1
  <2>2. QED
    BY <2>1
<1>3. Nat \subseteq T
  <2> HIDE DEF T
  <2>1. QED
    BY <1>1, <1>2, SetInduction
<1>4. QED
    BY <1>3
=============================================================================
