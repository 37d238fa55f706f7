------------------------------- MODULE Recursion -------------------------------
(***************************************************************************)
(* Induction and recursion over the naturals, for the proofs about the     *)
(* searches of the routers and of the graph.  They are stated for sets and *)
(* functions: the instances of a theorem about operators are beyond the    *)
(* provers.                                                                *)
(***************************************************************************)
EXTENDS FiniteSetsExt, WellFoundedInduction, TLAPS

\* A set of numbers has a least one.
LEMMA LeastNumber ==
  ASSUME NEW T, T \subseteq Nat, T # {}
  PROVE  \E x \in T : \A y \in T : x <= y
<1>1. PICK x \in T : \A y \in T : ~ (<<y, x>> \in OpToRel(<, Nat))
  BY WFMin, NatLessThanWellFounded
<1>2. \A y \in T : ~ (y < x)
  BY <1>1 DEF OpToRel
<1>3. QED
  BY <1>2

LEMMA MinIsLeast ==
  ASSUME NEW S, S \subseteq Nat, S # {}
  PROVE  Min(S) \in S /\ \A y \in S : Min(S) <= y
<1>1. \E x \in S : \A y \in S : x <= y
  BY LeastNumber
<1>2. QED
  BY <1>1 DEF Min

\* What holds of 0, and of n + 1 if of n, holds of all numbers.
LEMMA ByInduction ==
  ASSUME NEW S, 0 \in S, \A n \in Nat : n \in S => n + 1 \in S
  PROVE  \A n \in Nat : n \in S
<1> DEFINE T == Nat \ S
<1> SUFFICES ASSUME T # {} PROVE FALSE
  OBVIOUS
<1>1. PICK x \in T : \A y \in T : x <= y
  BY LeastNumber
<1>2. x # 0 /\ x - 1 \in Nat
  OBVIOUS
<1>3. x - 1 \in S
  BY <1>1, <1>2
<1>4. QED
  BY <1>2, <1>3
-----------------------------------------------------------------------------
\* The beginnings of a sequence that starts with a and goes on by step.
Beginnings(D, a, step, n) ==
  {g \in [0 .. n -> D] : g[0] = a /\ \A i \in 0 .. n - 1 : g[i + 1] = step[i][g[i]]}

LEMMA BeginningsExist ==
  ASSUME NEW D, NEW a \in D, NEW step \in [Nat -> [D -> D]]
  PROVE  \A n \in Nat : Beginnings(D, a, step, n) # {}
<1> DEFINE S == {n \in Nat : Beginnings(D, a, step, n) # {}}
<1>1. 0 \in S
  <2>1. [i \in 0 .. 0 |-> a] \in Beginnings(D, a, step, 0)
    BY DEF Beginnings
  <2>2. QED
    BY <2>1
<1>2. ASSUME NEW n \in Nat, n \in S
      PROVE  n + 1 \in S
  <2>1. PICK g \in [0 .. n -> D] : g[0] = a /\ \A i \in 0 .. n - 1 : g[i + 1] = step[i][g[i]]
    BY <1>2 DEF Beginnings
  <2> DEFINE h == [i \in 0 .. n + 1 |-> IF i = n + 1 THEN step[n][g[n]] ELSE g[i]]
  <2>2. h \in [0 .. n + 1 -> D]
    OBVIOUS
  <2>3. h[0] = a
    BY <2>1
  <2>4. \A i \in 0 .. (n + 1) - 1 : h[i + 1] = step[i][h[i]]
    <3>0. (n + 1) - 1 = n
      OBVIOUS
    <3> SUFFICES ASSUME NEW i \in 0 .. n PROVE h[i + 1] = step[i][h[i]]
      BY <3>0, Zenon
    <3>1. CASE i = n
      BY <3>1
    <3>2. CASE i # n
      <4>1. i \in 0 .. n - 1 /\ i + 1 \in 0 .. n /\ i + 1 # n + 1 /\ i # n + 1
        BY <3>2
      <4>2. h[i + 1] = g[i + 1] /\ h[i] = g[i]
        BY <4>1
      <4>3. QED
        BY <2>1, <4>1, <4>2
    <3>3. QED
      BY <3>1, <3>2
  <2> HIDE DEF h
  <2>5. h \in Beginnings(D, a, step, n + 1)
    BY <2>2, <2>3, <2>4 DEF Beginnings
  <2>6. QED
    BY <2>5
<1>3. \A n \in Nat : n \in S
  <2> HIDE DEF S
  <2>1. QED
    BY <1>1, <1>2, ByInduction
<1>4. QED
  BY <1>3

LEMMA BeginningsAgree ==
  ASSUME NEW D, NEW a, NEW step, NEW n \in Nat, NEW m \in Nat,
         NEW g \in Beginnings(D, a, step, n), NEW h \in Beginnings(D, a, step, m)
  PROVE  \A i \in Nat : i <= n /\ i <= m => g[i] = h[i]
<1> DEFINE S == {i \in Nat : i <= n /\ i <= m => g[i] = h[i]}
<1>1. 0 \in S
  BY DEF Beginnings
<1>2. ASSUME NEW i \in Nat, i \in S
      PROVE  i + 1 \in S
  <2> SUFFICES ASSUME i + 1 <= n, i + 1 <= m PROVE g[i + 1] = h[i + 1]
    OBVIOUS
  <2>1. i \in 0 .. n - 1 /\ i \in 0 .. m - 1 /\ g[i] = h[i]
    BY <1>2
  <2>2. QED
    BY <2>1 DEF Beginnings
<1>3. \A i \in Nat : i \in S
  <2> HIDE DEF S
  <2>1. QED
    BY <1>1, <1>2, ByInduction
<1>4. QED
  BY <1>3

Follows(D, a, step, f) ==
  /\ f \in [Nat -> D]
  /\ f[0] = a
  /\ \A n \in Nat : f[n + 1] = step[n][f[n]]

\* A function can be defined by its first value and by how the next one follows.
LEMMA RecursionHolds ==
  ASSUME NEW D, NEW a \in D, NEW step \in [Nat -> [D -> D]]
  PROVE  \E f : Follows(D, a, step, f)
<1> DEFINE some(n) == CHOOSE g : g \in Beginnings(D, a, step, n)
           f == [n \in Nat |-> some(n)[n]]
<1>1. \A n \in Nat : some(n) \in Beginnings(D, a, step, n)
  BY BeginningsExist
<1> HIDE DEF some
<1>2. \A n \in Nat : some(n) \in [0 .. n -> D] /\ some(n)[0] = a
  BY <1>1 DEF Beginnings
<1>3. f \in [Nat -> D] /\ f[0] = a
  BY <1>2
<1>4. ASSUME NEW n \in Nat
      PROVE  f[n + 1] = step[n][f[n]]
  <2>1. some(n + 1)[n + 1] = step[n][some(n + 1)[n]]
    BY <1>1 DEF Beginnings
  <2>2. some(n + 1)[n] = some(n)[n]
    BY <1>1, BeginningsAgree
  <2>3. QED
    BY <2>1, <2>2
<1>5. Follows(D, a, step, f)
  BY <1>3, <1>4 DEF Follows
<1>6. QED
  BY <1>5
=============================================================================
