----------------------------- MODULE DataLemmas -----------------------------
(***************************************************************************)
(* What the proofs of several components need of their data: queues, and   *)
(* induction and recursion over numbers.                                   *)
(*                                                                         *)
(* A property of numbers is the set of the numbers that have it, and the   *)
(* step of a recursion is a function: both are values, so the theorems     *)
(* below can be cited for any of them.                                     *)
(***************************************************************************)
EXTENDS Integers, Sequences, SequenceTheorems, WellFoundedInduction, TLAPS

-----------------------------------------------------------------------------
(* Queues: sequences that are appended to at their end and taken from at   *)
(* their head.                                                             *)

\* What appending to a queue does to its length and its elements.
LEMMA QueueAppend ==
  ASSUME NEW S, NEW q \in Seq(S), NEW e \in S
  PROVE  /\ Append(q, e) \in Seq(S)
         /\ Len(q) \in Nat
         /\ Len(Append(q, e)) = Len(q) + 1
         /\ DOMAIN q = 1 .. Len(q)
         /\ DOMAIN Append(q, e) = 1 .. Len(q) + 1
         /\ \A k \in 1 .. Len(q) : q[k] \in S /\ Append(q, e)[k] = q[k]
         /\ Append(q, e)[Len(q) + 1] = e
  BY AppendProperties, LenProperties, ElementOfSeq

\* What taking the head of a queue that is not empty does to them.
LEMMA QueueTail ==
  ASSUME NEW S, NEW q \in Seq(S), q # <<>>
  PROVE  /\ Head(q) \in S
         /\ Head(q) = q[1]
         /\ Tail(q) \in Seq(S)
         /\ Len(q) \in Nat \ {0}
         /\ Len(Tail(q)) = Len(q) - 1
         /\ DOMAIN q = 1 .. Len(q)
         /\ DOMAIN Tail(q) = 1 .. Len(q) - 1
         /\ \A k \in 1 .. Len(q) - 1 : Tail(q)[k] = q[k + 1]
         /\ \A k \in 1 .. Len(q) : q[k] \in S
  <1>1. Head(q) = q[1]
    OBVIOUS
  <1>2. QED
    BY <1>1, HeadTailProperties, LenProperties, ElementOfSeq, EmptySeq

-----------------------------------------------------------------------------
(* Induction and recursion over the numbers up to n.                       *)

\* Of the numbers with a property, one is the least.
LEMMA LeastNumber ==
  ASSUME NEW T \in SUBSET Nat, T # {}
  PROVE  \E m \in T : \A y \in T : m <= y
  <1>1. IsWellFoundedOn(OpToRel(<, Nat), Nat)
    BY NatLessThanWellFounded
  <1>2. PICK m \in T : \A y \in T : ~(<<y, m>> \in OpToRel(<, Nat))
    BY <1>1, WFMin
  <1>3. \A y \in T : ~(y < m)
    BY <1>2 DEF OpToRel
  <1>4. QED
    BY <1>3

\* A property of 0 that goes from each number to the next holds up to n.
LEMMA Induction ==
  ASSUME NEW n \in Nat, NEW T, 0 \in T, \A i \in 0 .. (n - 1) : i \in T => i + 1 \in T
  PROVE  \A i \in 0 .. n : i \in T
  <1> DEFINE Others == {i \in 0 .. n : i \notin T}
  <1>1. SUFFICES ASSUME Others # {} PROVE FALSE
    OBVIOUS
  <1>2. Others \in SUBSET Nat
    OBVIOUS
  <1>3. PICK m \in Others : \A y \in Others : m <= y
    <2> HIDE DEF Others
    <2> QED
      BY <1>1, <1>2, LeastNumber
  <1>4. m \in 1 .. n /\ m \notin T
    OBVIOUS
  <1>5. m - 1 \in 0 .. (n - 1) /\ ~(m <= m - 1) /\ m - 1 + 1 = m
    BY <1>4
  <1>6. m - 1 \in T
    BY <1>3, <1>5
  <1>7. QED
    BY <1>4, <1>5, <1>6

\* g starts with a and goes on as step says, up to m.
Follows(g, a, step, m) == g[0] = a /\ \A i \in 1 .. m : g[i] = step[<<i, g[i - 1]>>]

\* There is a function that starts with a and goes on as step says.
LEMMA Recursion ==
  ASSUME NEW S, NEW a \in S, NEW n \in Nat, NEW step \in [(1 .. n) \X S -> S]
  PROVE  \E g \in [0 .. n -> S] : Follows(g, a, step, n)
  <1> DEFINE T == {m \in 0 .. n : \E g \in [0 .. m -> S] : Follows(g, a, step, m)}
  <1>1. 0 \in T
    <2>1. [i \in 0 .. 0 |-> a] \in [0 .. 0 -> S] /\ Follows([i \in 0 .. 0 |-> a], a, step, 0)
      BY DEF Follows
    <2>2. 0 \in 0 .. n
      OBVIOUS
    <2>3. QED
      BY <2>1, <2>2, Zenon
  <1>2. ASSUME NEW m \in 0 .. (n - 1), m \in T
        PROVE  m + 1 \in T
    <2>1. PICK g \in [0 .. m -> S] : Follows(g, a, step, m)
      BY <1>2
    <2> DEFINE h == [i \in 0 .. (m + 1) |-> IF i = m + 1 THEN step[<<m + 1, g[m]>>] ELSE g[i]]
    <2>2. m + 1 \in 1 .. n /\ g[m] \in S
      OBVIOUS
    <2>3. step[<<m + 1, g[m]>>] \in S
      BY <2>2
    <2>4. h \in [0 .. (m + 1) -> S]
      BY <2>3
    <2>5. h[0] = a
      BY <2>1 DEF Follows
    <2>6. ASSUME NEW i \in 1 .. (m + 1) PROVE h[i] = step[<<i, h[i - 1]>>]
      <3>1. CASE i = m + 1
        <4>1. h[i] = step[<<m + 1, g[m]>>] /\ h[i - 1] = g[m]
          BY <3>1
        <4>2. QED
          BY <3>1, <4>1
      <3>2. CASE i \in 1 .. m
        <4>1. h[i] = g[i] /\ h[i - 1] = g[i - 1]
          BY <3>2
        <4>2. g[i] = step[<<i, g[i - 1]>>]
          BY <2>1, <3>2 DEF Follows
        <4>3. QED
          BY <4>1, <4>2
      <3>3. QED
        BY <3>1, <3>2
    <2>7. Follows(h, a, step, m + 1)
      BY <2>5, <2>6 DEF Follows
    <2>8. m + 1 \in 0 .. n
      OBVIOUS
    <2>9. QED
      <3> HIDE DEF h
      <3> QED
        BY <2>4, <2>7, <2>8, Zenon
  <1>3. \A m \in 0 .. n : m \in T
    <2> HIDE DEF T
    <2> QED
      BY <1>1, <1>2, Induction
  <1>4. n \in T
    BY <1>3
  <1>5. QED
    BY <1>4

=============================================================================
