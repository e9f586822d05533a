----------------------------- MODULE PbWireProofs ---------------------------
(***************************************************************************)
(* What nanopb writes byte by byte it reads back, for every value of 64    *)
(* bits and whatever follows it in the stream.                             *)
(*                                                                         *)
(* Between the two stands what the wire format says of a varint: bytes     *)
(* that spell a value, seven bits in each, the lowest first.  Every        *)
(* spelling is decoded to the value it spells, those of other encoders     *)
(* with their padding too, and what nanopb encodes is a spelling.          *)
(***************************************************************************)
EXTENDS PbDescriptor, DataLemmas, FiniteSetTheorems

Bytes == Seq(Byte)

UInt32 == SUBSET (0..31)
UInt64 == SUBSET (0..63)

-----------------------------------------------------------------------------
(* The operations on bits, one bit at a time.                              *)

LEMMA LowBit ==
  ASSUME NEW v, NEW n \in Int, NEW x
  PROVE  x \in Low(v, n) <=> x \in v /\ x \in Int /\ 0 <= x /\ x < n
  BY DEF Low

LEMMA LowAll ==
  ASSUME NEW n \in Int, NEW v \in SUBSET (0..(n - 1))
  PROVE  Low(v, n) = v
  BY DEF Low

LEMMA ShlBit ==
  ASSUME NEW v \in SUBSET Int, NEW n \in Int, NEW x
  PROVE  x \in Shl(v, n) <=> x \in Int /\ x - n \in v
  BY DEF Shl

LEMMA ShrBit ==
  ASSUME NEW v \in SUBSET Int, NEW n \in Int, NEW x
  PROVE  x \in Shr(v, n) <=> x \in Int /\ x >= 0 /\ x + n \in v
  BY DEF Shr

LEMMA FlipBit ==
  ASSUME NEW v, NEW n \in Int, NEW x
  PROVE  x \in Flip(v, n) <=> x \in Int /\ 0 <= x /\ x < n /\ x \notin v
  BY DEF Flip

LEMMA MinIs ==
  ASSUME NEW S \in SUBSET Int, NEW m \in S, \A y \in S : m <= y
  PROVE  Min(S) = m
  <1>1. Min(S) \in S /\ \A y \in S : Min(S) <= y
    BY DEF Min
  <1>2. m \in Int /\ Min(S) \in Int /\ m <= Min(S) /\ Min(S) <= m
    BY <1>1
  <1>3. QED
    BY <1>2

\* The least of a few numbers is one of them.
LEMMA MinOfFew ==
  ASSUME NEW S \in SUBSET (0..5), S # {}
  PROVE  Min(S) \in S /\ \A y \in S : Min(S) <= y
  <1>1. \E m \in S : \A y \in S : m <= y
    <2>1. \A y \in S : y \in {0, 1, 2, 3, 4, 5}
      OBVIOUS
    <2>2. \/ 0 \in S
          \/ 0 \notin S /\ 1 \in S
          \/ {0, 1} \cap S = {} /\ 2 \in S
          \/ {0, 1, 2} \cap S = {} /\ 3 \in S
          \/ {0, 1, 2, 3} \cap S = {} /\ 4 \in S
          \/ {0, 1, 2, 3, 4} \cap S = {} /\ 5 \in S
      BY <2>1
    <2>3. QED
      BY <2>1, <2>2
  <1>2. QED
    BY <1>1 DEF Min

-----------------------------------------------------------------------------
(* Streams.                                                                *)

\* What follows a string of bytes is left when the string has been read.
LEMMA RestOfStream ==
  ASSUME NEW s \in Bytes, NEW rest \in Bytes
  PROVE  /\ s \o rest \in Bytes
         /\ Len(s) \in Nat /\ Len(rest) \in Nat
         /\ Len(s \o rest) = Len(s) + Len(rest)
         /\ \A i \in 1..Len(s) : (s \o rest)[i] = s[i]
         /\ SubSeq(s \o rest, Len(s) + 1, Len(s \o rest)) = rest
         /\ SubSeq(s \o rest, 1, Len(s)) = s
  <1>1. /\ s \o rest \in Bytes /\ Len(s) \in Nat /\ Len(rest) \in Nat
        /\ Len(s \o rest) = Len(s) + Len(rest)
        /\ \A i \in 1..Len(s) + Len(rest) : (s \o rest)[i] =
             IF i <= Len(s) THEN s[i] ELSE rest[i - Len(s)]
    BY ConcatProperties, LenProperties DEF Bytes
  <1>2. \A i \in 1..Len(s) : (s \o rest)[i] = s[i]
    BY <1>1
  <1>3. \A i \in 1..Len(s) + Len(rest) : (s \o rest)[i] \in Byte
    BY <1>1, ElementOfSeq DEF Bytes
  <1>4. SubSeq(s \o rest, Len(s) + 1, Len(s \o rest)) = rest
    <2> DEFINE t == SubSeq(s \o rest, Len(s) + 1, Len(s) + Len(rest))
    <2>1. \A i \in Len(s) + 1..Len(s) + Len(rest) : (s \o rest)[i] \in Byte
      BY <1>1, <1>3
    <2>2. /\ t \in Seq(Byte)
          /\ Len(t) = (IF Len(s) + 1 <= Len(s) + Len(rest)
                       THEN Len(s) + Len(rest) - (Len(s) + 1) + 1 ELSE 0)
          /\ \A i \in 1..Len(s) + Len(rest) - (Len(s) + 1) + 1 : t[i] = (s \o rest)[Len(s) + 1 + i - 1]
      BY <1>1, <2>1, SubSeqProperties
    <2>3. Len(t) = Len(rest) /\ \A i \in 1..Len(rest) : t[i] = rest[i]
      BY <1>1, <2>2
    <2>4. t = rest
      BY <2>2, <2>3, SeqEqual DEF Bytes
    <2>5. QED
      BY <1>1, <2>4
  <1>5. SubSeq(s \o rest, 1, Len(s)) = s
    <2> DEFINE t == SubSeq(s \o rest, 1, Len(s))
    <2>1. \A i \in 1..Len(s) : (s \o rest)[i] \in Byte
      BY <1>1, <1>3
    <2>2. /\ t \in Seq(Byte)
          /\ Len(t) = (IF 1 <= Len(s) THEN Len(s) - 1 + 1 ELSE 0)
          /\ \A i \in 1..Len(s) - 1 + 1 : t[i] = (s \o rest)[1 + i - 1]
      BY <1>1, <2>1, SubSeqProperties
    <2>3. Len(t) = Len(s) /\ \A i \in 1..Len(s) : t[i] = s[i]
      BY <1>1, <1>2, <2>2
    <2>4. QED
      BY <2>2, <2>3, SeqEqual DEF Bytes
  <1>6. QED
    BY <1>1, <1>2, <1>4, <1>5

\* The same result with another value.
LEMMA DecodedAnew ==
  ASSUME NEW v, NEW u, NEW rest
  PROVE  [Decoded(v, rest) EXCEPT !.v = u] = Decoded(u, rest)
  <1>1. \A ok : [[ok |-> ok, v |-> v, rest |-> rest] EXCEPT !.v = u] = [ok |-> ok, v |-> u, rest |-> rest]
    OBVIOUS
  <1>2. QED
    BY <1>1, Zenon DEF Decoded

-----------------------------------------------------------------------------
(* Varints.                                                                *)

\* The bytes s spell the value v: seven bits each, the lowest first, and bit 7
\* set in all but the last.  A spelling may be longer than it has to be.
Spells(s, v) ==
  /\ s \in Bytes /\ Len(s) >= 1
  /\ \A i \in 1..Len(s), b \in 0..6 : b \in s[i] <=> b + 7 * (i - 1) \in v
  /\ \A i \in 1..Len(s) : 7 \in s[i] <=> i < Len(s)
  /\ v \subseteq 0..(7 * Len(s) - 1)

\* The decoders take ten bytes at most.
ShortSpelling(s, v) == Spells(s, v) /\ Len(s) <= 10

\* The decoder finds the end of a spelling, and its bits in as many bytes as
\* hold them.
LEMMA SpellingRead ==
  ASSUME NEW v, NEW s, Spells(s, v), NEW rest \in Bytes,
         NEW k \in 1..Len(s), v \subseteq 0..(7 * k - 1)
  PROVE  /\ VarintLength(s \o rest) = Len(s)
         /\ Septets(s \o rest, k) = v
  <1>1. /\ Len(s) \in Nat \ {0} /\ Len(rest) \in Nat /\ Len(s \o rest) = Len(s) + Len(rest)
        /\ \A i \in 1..Len(s) : (s \o rest)[i] = s[i]
    BY RestOfStream DEF Spells
  <1>2. VarintLength(s \o rest) = Len(s)
    <2> DEFINE ends == {n \in 1..Len(s \o rest) : 7 \notin (s \o rest)[n]}
    <2>1. \A i \in 1..Len(s) : 7 \in s[i] <=> i < Len(s)
      BY DEF Spells
    <2>2. ends \in SUBSET Int /\ Len(s) \in ends /\ \A y \in ends : Len(s) <= y
      BY <1>1, <2>1
    <2>3. Min(ends) = Len(s) /\ ends # {}
      BY <2>2, MinIs
    <2>4. QED
      BY <2>3 DEF VarintLength
  <1>3. Septets(s \o rest, k) = v
    <2> DEFINE part(i) == Shl(Low((s \o rest)[i], 7), 7 * (i - 1))
    <2>1. \A i \in 1..k : \A x : x \in part(i) <=> x \in Int /\ x - 7 * (i - 1) \in 0..6 /\ x \in v
      <3> SUFFICES ASSUME NEW i \in 1..k, NEW x
                   PROVE  x \in part(i) <=> x \in Int /\ x - 7 * (i - 1) \in 0..6 /\ x \in v
        OBVIOUS
      <3>1. Low(s[i], 7) \in SUBSET Int /\ 7 * (i - 1) \in Int /\ (s \o rest)[i] = s[i]
        BY <1>1 DEF Low
      <3>2. x \in part(i) <=> x \in Int /\ x - 7 * (i - 1) \in Low(s[i], 7)
        BY <3>1, ShlBit
      <3>3. x \in Int => (x - 7 * (i - 1) \in Low(s[i], 7)
                            <=> x - 7 * (i - 1) \in s[i] /\ x - 7 * (i - 1) \in 0..6)
        BY <3>1 DEF Low
      <3>4. ASSUME x \in Int, x - 7 * (i - 1) \in 0..6
            PROVE  x - 7 * (i - 1) \in s[i] <=> x \in v
        <4> DEFINE b == x - 7 * (i - 1)
        <4>1. b \in s[i] <=> b + 7 * (i - 1) \in v
          <5>1. i \in 1..Len(s) /\ b \in 0..6
            BY <1>1, <3>4
          <5>2. QED
            BY <5>1 DEF Spells
        <4>2. b + 7 * (i - 1) = x
          BY <3>4
        <4>3. QED
          BY <4>1, <4>2
      <3>5. QED
        BY <3>2, <3>3, <3>4
    <2>2. ASSUME NEW x \in v PROVE \E i \in 1..k : x \in part(i)
      <3>1. x \in Int /\ 0 <= x /\ x <= 7 * k - 1
        OBVIOUS
      <3>2. PICK i \in 1..k : x - 7 * (i - 1) \in 0..6
        <4>1. PICK i \in Int : i = (x \div 7) + 1
          BY <3>1
        <4>2. i \in 1..k /\ x - 7 * (i - 1) \in 0..6
          BY <1>1, <3>1, <4>1
        <4>3. QED
          BY <4>2
      <3>3. QED
        BY <2>1, <3>1, <3>2
    <2>3. \A x : x \in Septets(s \o rest, k) <=> \E i \in 1..k : x \in part(i)
      BY DEF Septets
    <2>4. QED
      BY <2>1, <2>2, <2>3
  <1>4. QED
    BY <1>2, <1>3

\* pb_decode_varint reads every spelling of a 64-bit value that the wire format
\* allows, at most ten bytes, whatever follows it.
THEOREM VarintDecoded ==
  ASSUME NEW v \in UInt64, NEW s, ShortSpelling(s, v), NEW rest \in Bytes
  PROVE  DecodeVarint(s \o rest) = Decoded(v, rest)
  <1> DEFINE t == s \o rest
             n == Len(s)
  <1>1. s \in Bytes /\ Spells(s, v) /\ n >= 1 /\ n <= 10 /\ v \subseteq 0..(7 * n - 1)
    BY DEF ShortSpelling, Spells
  <1>2. n \in Nat /\ SubSeq(t, n + 1, Len(t)) = rest
    BY <1>1, RestOfStream
  <1>3. \A k \in 1..n : v \subseteq 0..(7 * k - 1) => VarintLength(t) = n /\ Septets(t, k) = v
    BY <1>1, SpellingRead
  <1>4. Low(v, 64) = v
    BY LowAll DEF UInt64
  <1> HIDE DEF t, n
  <1>5. n \in 1..n /\ n \in 1..10
    BY <1>1, <1>2
  <1>6. VarintLength(t) = n /\ Septets(t, n) = v
    BY <1>1, <1>3, <1>5
  <1>7. DecodeVarint(t) = Decoded(v, rest)
    BY <1>2, <1>4, <1>5, <1>6 DEF DecodeVarint
  <1>8. QED
    BY <1>7 DEF t

\* pb_decode_varint32 reads every spelling of a 32-bit value of at most ten
\* bytes: padding with zeros is no overflow.
THEOREM Varint32Decoded ==
  ASSUME NEW v \in UInt32, NEW s, ShortSpelling(s, v), NEW rest \in Bytes
  PROVE  DecodeVarint32(s \o rest) = Decoded(v, rest)
  <1> DEFINE t == s \o rest
             n == Len(s)
             few == Min({n, 5})
  <1>1. s \in Bytes /\ Spells(s, v) /\ n >= 1 /\ n <= 10 /\ v \subseteq 0..(7 * n - 1)
    BY DEF ShortSpelling, Spells
  <1>2. n \in Nat /\ SubSeq(t, n + 1, Len(t)) = rest /\ \A i \in 1..n : t[i] = s[i]
    BY <1>1, RestOfStream
  <1>3. \A k \in 1..n : v \subseteq 0..(7 * k - 1) => VarintLength(t) = n /\ Septets(t, k) = v
    BY <1>1, SpellingRead
  <1>4. v \in SUBSET (0..31)
    BY DEF UInt32
  <1>5. \A i \in 1..n, b \in 0..6 : b \in t[i] => b + 7 * (i - 1) \in v
    BY <1>1, <1>2 DEF Spells
  <1> HIDE DEF t, n
  <1>6. few = IF n <= 5 THEN n ELSE 5
    <2>1. CASE n <= 5
      <3>1. {n, 5} \in SUBSET Int /\ n \in {n, 5} /\ \A y \in {n, 5} : n <= y
        BY <1>2, <2>1
      <3>2. QED
        BY <2>1, <3>1, MinIs
    <2>2. CASE n > 5
      <3>1. {n, 5} \in SUBSET Int /\ 5 \in {n, 5} /\ \A y \in {n, 5} : 5 <= y
        BY <1>2, <2>2
      <3>2. Min({n, 5}) = 5
        BY <3>1, MinIs
      <3>3. QED
        BY <1>2, <2>2, <3>2
    <2>3. QED
      BY <1>2, <2>1, <2>2
  <1> HIDE DEF few
  <1>7. few \in 1..n /\ v \subseteq 0..(7 * few - 1)
    BY <1>1, <1>2, <1>4, <1>6
  <1>8. VarintLength(t) = n /\ Septets(t, few) = v
    BY <1>3, <1>7
  <1>9. Low(Septets(t, few), 32) = v
    BY <1>4, <1>8, LowAll
  <1>10. \A i \in 6..n : Low(t[i], 7) = {}
    <2> SUFFICES ASSUME NEW i \in 6..n, NEW b \in Low(t[i], 7) PROVE FALSE
      OBVIOUS
    <2>1. i \in 1..n /\ b \in t[i] /\ b \in 0..6
      BY <1>2 DEF Low
    <2>2. b + 7 * (i - 1) \in 0..31
      BY <1>4, <1>5, <2>1
    <2>3. QED
      BY <1>2, <2>1, <2>2
  <1>11. ~(n = 5 /\ t[5] \cap 4..6 # {})
    <2> SUFFICES ASSUME n = 5, NEW b \in 4..6, b \in t[5] PROVE FALSE
      OBVIOUS
    <2>1. b + 7 * (5 - 1) \in 0..31
      BY <1>4, <1>5
    <2>2. QED
      BY <2>1
  <1>12. n # 0 /\ ~(n > 10)
    BY <1>1, <1>2
  <1>13. DecodeVarint32(t) = Decoded(v, rest)
    BY <1>2, <1>8, <1>9, <1>10, <1>11, <1>12 DEF DecodeVarint32, few
  <1>14. QED
    BY <1>13 DEF t

\* A spelling that is cut short is refused by both decoders, wherever the cut
\* is: they never take the part they have seen for a value.
THEOREM VarintCutShort ==
  ASSUME NEW v, NEW s, Spells(s, v), NEW k \in 0..(Len(s) - 1)
  PROVE  DecodeVarint(SubSeq(s, 1, k)) = Malformed /\ DecodeVarint32(SubSeq(s, 1, k)) = Malformed
  <1> DEFINE t == SubSeq(s, 1, k)
  <1>1. s \in Seq(Byte) /\ Len(s) \in Nat /\ \A i \in 1..Len(s) : s[i] \in Byte
    <2>1. s \in Seq(Byte)
      BY DEF Spells, Bytes
    <2>2. QED
      BY <2>1, LenProperties, ElementOfSeq
  <1>2. k \in Nat /\ \A i \in 1..k : i \in 1..Len(s) /\ i < Len(s)
    BY <1>1
  <1>3. Len(t) = k /\ \A i \in 1..k : t[i] = s[i]
    <2>1. \A i \in 1..k : s[i] \in Byte
      BY <1>1, <1>2
    <2>2. /\ Len(t) = (IF 1 <= k THEN k - 1 + 1 ELSE 0)
          /\ \A i \in 1..k - 1 + 1 : t[i] = s[1 + i - 1]
      BY <1>2, <2>1, SubSeqProperties
    <2>3. QED
      BY <1>2, <2>2
  <1>4. \A i \in 1..k : 7 \in t[i]
    <2>1. \A i \in 1..Len(s) : 7 \in s[i] <=> i < Len(s)
      BY DEF Spells
    <2>2. QED
      BY <1>2, <1>3, <2>1
  <1>5. VarintLength(t) = 0
    <2>1. {n \in 1..Len(t) : 7 \notin t[n]} = {}
      BY <1>3, <1>4
    <2>2. QED
      BY <2>1 DEF VarintLength
  <1>6. QED
    BY <1>5 DEF DecodeVarint, DecodeVarint32

-----------------------------------------------------------------------------
(* What the encoder writes is a spelling.                                   *)

\* Seven bits of v from bit k on.
LEMMA SeptetBits ==
  ASSUME NEW v \in SUBSET Int, NEW k \in Nat
  PROVE  /\ Low(Shr(v, k), 7) \in Byte
         /\ \A b \in 0..6 : b \in Low(Shr(v, k), 7) <=> b + k \in v
         /\ 7 \notin Low(Shr(v, k), 7)
  <1>1. \A b : b \in Low(Shr(v, k), 7) <=> b \in 0..6 /\ b + k \in v
    <2> SUFFICES ASSUME NEW b PROVE b \in Low(Shr(v, k), 7) <=> b \in 0..6 /\ b + k \in v
      OBVIOUS
    <2>1. b \in Low(Shr(v, k), 7) <=> b \in Shr(v, k) /\ b \in 0..6
      BY DEF Low
    <2>2. b \in 0..6 => (b \in Shr(v, k) <=> b + k \in v)
      BY ShrBit
    <2>3. QED
      BY <2>1, <2>2
  <1>2. QED
    BY <1>1 DEF Byte

\* The counts of septets the encoder takes from either half.
LowSeptets(low, high) == Min({n \in 0..4 : n = 4 \/ (high = {} /\ Shr(low, 7 * (n + 1)) = {})})
HighSeptets(high) == Min({n \in 0..5 : Shr(high, 3 + 7 * n) = {}})

\* The byte in the middle is the last one unless the high half has bits left.
CountsFit(low, high, lows, highs) ==
  /\ lows \in 0..4 /\ highs \in 0..5
  /\ lows = 4 \/ (high = {} /\ \A b \in low : b < 7 * (lows + 1))
  /\ \A b \in high : b < 3 + 7 * highs
  /\ high = {} => highs = 0

LEMMA SeptetCounts ==
  ASSUME NEW low \in SUBSET (0..31), NEW high \in SUBSET (0..31), NEW lows, NEW highs,
         lows = LowSeptets(low, high), highs = HighSeptets(high)
  PROVE  CountsFit(low, high, lows, highs)
  <1> DEFINE L == {n \in 0..4 : n = 4 \/ (high = {} /\ Shr(low, 7 * (n + 1)) = {})}
             H == {n \in 0..5 : Shr(high, 3 + 7 * n) = {}}
  <1>1. Shr(high, 3 + 7 * 5) = {}
    BY DEF Shr
  <1>2. L \in SUBSET (0..5) /\ 4 \in L /\ H \in SUBSET (0..5) /\ 5 \in H
    BY <1>1
  <1>3. lows \in L /\ highs \in H /\ \A y \in H : highs <= y
    <2> HIDE DEF L, H
    <2>1. Min(L) \in L /\ Min(H) \in H /\ \A y \in H : Min(H) <= y
      BY <1>2, MinOfFew
    <2>2. QED
      BY <2>1 DEF L, H, LowSeptets, HighSeptets
  <1>4. /\ lows \in 0..4 /\ highs \in 0..5
        /\ lows = 4 \/ (high = {} /\ Shr(low, 7 * (lows + 1)) = {})
        /\ Shr(high, 3 + 7 * highs) = {}
    BY <1>3
  <1>5. \A w \in SUBSET (0..31), k \in Nat : Shr(w, k) = {} => \A b \in w : b < k
    <2> SUFFICES ASSUME NEW w \in SUBSET (0..31), NEW k \in Nat, Shr(w, k) = {}, NEW b \in w, b >= k
                 PROVE  FALSE
      OBVIOUS
    <2>1. b - k \in Shr(w, k)
      BY DEF Shr
    <2>2. QED
      BY <2>1
  <1>6. 7 * (lows + 1) \in Nat /\ 3 + 7 * highs \in Nat
    BY <1>4
  <1>7. high = {} => highs = 0
    <2> SUFFICES ASSUME high = {} PROVE highs = 0
      OBVIOUS
    <2>1. Shr(high, 3 + 7 * 0) = {}
      BY DEF Shr
    <2>2. 0 \in H
      BY <2>1
    <2>3. highs <= 0
      BY <1>3, <2>2
    <2>4. QED
      BY <1>4, <2>3
  <1>8. QED
    BY <1>4, <1>5, <1>6, <1>7 DEF CountsFit

\* Septets become a spelling when all but the last get bit 7.
LEMMA SeptetsSpell ==
  ASSUME NEW v, NEW q \in Bytes, Len(q) >= 1, v \subseteq 0..(7 * Len(q) - 1),
         \A i \in 1..Len(q) : /\ 7 \notin q[i]
                              /\ \A b \in 0..6 : b \in q[i] <=> b + 7 * (i - 1) \in v
  PROVE  LET s == [i \in DOMAIN q |-> q[i] \cup (IF i < Len(q) THEN {7} ELSE {})]
         IN  Spells(s, v) /\ Len(s) = Len(q)
  <1> DEFINE s == [i \in DOMAIN q |-> q[i] \cup (IF i < Len(q) THEN {7} ELSE {})]
             n == Len(q)
  <1>1. n \in Nat /\ DOMAIN q = 1..n /\ \A i \in 1..n : q[i] \in Byte
    BY LenProperties, ElementOfSeq DEF Bytes
  <1>2. \A i \in 1..n : s[i] = q[i] \cup (IF i < n THEN {7} ELSE {})
    BY <1>1
  <1>3. \A i \in 1..n : s[i] \in Byte
    BY <1>1, <1>2 DEF Byte
  <1>4. s \in [1..n -> Byte]
    <2>1. s = [i \in 1..n |-> q[i] \cup (IF i < n THEN {7} ELSE {})]
      BY <1>1
    <2>2. QED
      BY <1>2, <1>3, <2>1
  <1>5. s \in Bytes /\ Len(s) = n
    BY <1>1, <1>4, LenProperties DEF Bytes
  <1>6. \A i \in 1..n : 7 \in s[i] <=> i < n
    BY <1>2
  <1>7. \A i \in 1..n, b \in 0..6 : b \in s[i] <=> b + 7 * (i - 1) \in v
    <2> SUFFICES ASSUME NEW i \in 1..n, NEW b \in 0..6 PROVE b \in s[i] <=> b \in q[i]
      OBVIOUS
    <2>1. b # 7
      OBVIOUS
    <2>2. QED
      BY <1>2, <2>1
  <1> HIDE DEF s
  <1>8. QED
    BY <1>5, <1>6, <1>7 DEF Spells, s

\* pb_encode_varint_32 spells the value whose halves it is given.
LEMMA EncodeVarint32Spells ==
  ASSUME NEW v \in UInt64
  PROVE  ShortSpelling(EncodeVarint32(Low(v, 32), Shr(v, 32)), v)
  <1> DEFINE low == Low(v, 32)
             high == Shr(v, 32)
             lows == Min({n \in 0..4 : n = 4 \/ (high = {} /\ Shr(low, 7 * (n + 1)) = {})})
             highs == Min({n \in 0..5 : Shr(high, 3 + 7 * n) = {}})
             A == [i \in 1..lows |-> Low(Shr(low, 7 * (i - 1)), 7)]
             B == Shr(low, 7 * lows) \cup Shl(Low(high, 3), 4)
             C == [i \in 1..highs |-> Low(Shr(high, 3 + 7 * (i - 1)), 7)]
             q == A \o <<B>> \o C
  <1>1. /\ low \in SUBSET (0..31) /\ high \in SUBSET (0..31)
        /\ \A x \in 0..31 : x \in low <=> x \in v
        /\ \A x \in 0..31 : x \in high <=> x + 32 \in v
        /\ \A x \in v : x \in Int /\ (x \in low \/ x - 32 \in high)
    <2>1. v \in SUBSET (0..63)
      BY DEF UInt64
    <2>2. \A x : x \in low <=> x \in v /\ x \in 0..31
      BY DEF Low
    <2>3. \A x \in Int : x \in high <=> x >= 0 /\ x + 32 \in v
      BY <2>1, ShrBit
    <2>4. \A x \in high : x \in Int
      BY <2>1, ShrBit
    <2> HIDE DEF low, high
    <2>5. high \in SUBSET (0..31)
      <3> SUFFICES ASSUME NEW x \in high PROVE x \in 0..31
        OBVIOUS
      <3>1. x \in Int /\ x >= 0 /\ x + 32 \in 0..63
        BY <2>1, <2>3, <2>4
      <3>2. QED
        BY <3>1
    <2>6. ASSUME NEW x \in v PROVE x \in Int /\ (x \in low \/ x - 32 \in high)
      <3>1. x \in 0..63
        BY <2>1
      <3>2. CASE x <= 31
        BY <2>2, <3>1, <3>2
      <3>3. CASE x > 31
        <4>1. x - 32 \in Int /\ x - 32 >= 0 /\ (x - 32) + 32 = x
          BY <3>1, <3>3
        <4>2. QED
          BY <2>3, <3>1, <4>1
      <3>4. QED
        BY <3>1, <3>2, <3>3
    <2>7. \A x \in 0..31 : x \in high <=> x + 32 \in v
      BY <2>3
    <2>8. QED
      BY <2>2, <2>5, <2>6, <2>7
  <1>2. /\ lows \in 0..4 /\ highs \in 0..5
        /\ lows = 4 \/ (high = {} /\ \A b \in low : b < 7 * (lows + 1))
        /\ \A b \in high : b < 3 + 7 * highs
        /\ high = {} => highs = 0
    <2> HIDE DEF low, high
    <2>1. lows = LowSeptets(low, high) /\ highs = HighSeptets(high)
      BY DEF LowSeptets, HighSeptets
    <2> HIDE DEF lows, highs
    <2>2. low \in SUBSET (0..31) /\ high \in SUBSET (0..31)
      BY <1>1
    <2>3. CountsFit(low, high, lows, highs)
      BY <2>1, <2>2, SeptetCounts
    <2>4. QED
      BY <2>3 DEF CountsFit
  <1> HIDE DEF low, high, lows, highs
  <1>3. /\ A \in Bytes /\ Len(A) = lows
        /\ \A i \in 1..lows : /\ 7 \notin A[i]
                              /\ \A b \in 0..6 : b \in A[i] <=> b + 7 * (i - 1) \in low
    <2>1. ASSUME NEW i \in 1..lows
          PROVE  /\ A[i] \in Byte /\ 7 \notin A[i]
                 /\ \A b \in 0..6 : b \in A[i] <=> b + 7 * (i - 1) \in low
      <3>1. 7 * (i - 1) \in Nat /\ low \in SUBSET Int
        BY <1>1, <1>2
      <3>2. A[i] = Low(Shr(low, 7 * (i - 1)), 7)
        OBVIOUS
      <3>3. QED
        BY <3>1, <3>2, SeptetBits
    <2>2. A \in [1..lows -> Byte]
      <3>1. A = [i \in 1..lows |-> A[i]]
        OBVIOUS
      <3>2. QED
        BY <2>1, <3>1
    <2>3. lows \in Nat
      BY <1>2
    <2> HIDE DEF A
    <2>4. A \in Bytes /\ Len(A) = lows
      BY <2>2, <2>3 DEF Bytes
    <2>5. QED
      BY <2>1, <2>4
  <1>4. /\ C \in Bytes /\ Len(C) = highs
        /\ \A i \in 1..highs : /\ 7 \notin C[i]
                               /\ \A b \in 0..6 : b \in C[i] <=> b + (3 + 7 * (i - 1)) \in high
    <2>1. ASSUME NEW i \in 1..highs
          PROVE  /\ C[i] \in Byte /\ 7 \notin C[i]
                 /\ \A b \in 0..6 : b \in C[i] <=> b + (3 + 7 * (i - 1)) \in high
      <3>1. 3 + 7 * (i - 1) \in Nat /\ high \in SUBSET Int
        BY <1>1, <1>2
      <3>2. C[i] = Low(Shr(high, 3 + 7 * (i - 1)), 7)
        OBVIOUS
      <3>3. QED
        BY <3>1, <3>2, SeptetBits
    <2>2. C \in [1..highs -> Byte]
      <3>1. C = [i \in 1..highs |-> C[i]]
        OBVIOUS
      <3>2. QED
        BY <2>1, <3>1
    <2>3. highs \in Nat
      BY <1>2
    <2> HIDE DEF C
    <2>4. C \in Bytes /\ Len(C) = highs
      BY <2>2, <2>3 DEF Bytes
    <2>5. QED
      BY <2>1, <2>4
  <1>5. \A b : b \in B <=> /\ b \in 0..6
                           /\ \/ b + 7 * lows \in low
                              \/ b >= 4 /\ b - 4 \in 0..2 /\ b - 4 \in high
    <2> SUFFICES ASSUME NEW b
                 PROVE  b \in B <=> /\ b \in 0..6
                                    /\ \/ b + 7 * lows \in low
                                       \/ b >= 4 /\ b - 4 \in 0..2 /\ b - 4 \in high
      OBVIOUS
    <2>1. low \in SUBSET Int /\ 7 * lows \in Int /\ Low(high, 3) \in SUBSET Int
      BY <1>1, <1>2 DEF Low
    <2>2. b \in Shr(low, 7 * lows) <=> b \in Int /\ b >= 0 /\ b + 7 * lows \in low
      BY <2>1, ShrBit
    <2>3. b \in Shl(Low(high, 3), 4) <=> b \in Int /\ b - 4 \in Low(high, 3)
      BY <2>1, ShlBit
    <2>4. b \in Int => (b - 4 \in Low(high, 3) <=> b - 4 \in high /\ b - 4 \in 0..2)
      BY DEF Low
    <2>5. ASSUME b \in Int, b >= 0, b + 7 * lows \in low PROVE b \in 0..6
      <3>1. b + 7 * lows \in 0..31
        BY <1>1, <2>5
      <3>2. CASE lows = 4
        BY <2>5, <3>1, <3>2
      <3>3. CASE lows # 4
        <4>1. b + 7 * lows < 7 * (lows + 1)
          BY <1>2, <2>5, <3>3
        <4>2. QED
          BY <1>2, <2>5, <4>1
      <3>4. QED
        BY <3>2, <3>3
    <2>6. b \in Int /\ b - 4 \in 0..2 => b \in 0..6 /\ b >= 4
      OBVIOUS
    <2>7. b \in 0..6 => b \in Int /\ b >= 0
      OBVIOUS
    <2> HIDE DEF B
    <2>8. b \in B <=> b \in Shr(low, 7 * lows) \/ b \in Shl(Low(high, 3), 4)
      BY DEF B
    <2>9. QED
      BY <2>2, <2>3, <2>4, <2>5, <2>6, <2>7, <2>8
  <1> HIDE DEF A, B, C
  <1>6. B \in Byte /\ 7 \notin B /\ \A b \in 0..6 : b \in B <=> b + 7 * lows \in v
    <2>1. B \in Byte /\ 7 \notin B
      BY <1>5 DEF Byte
    <2>2. ASSUME NEW b \in 0..6 PROVE b \in B <=> b + 7 * lows \in v
      <3>1. CASE high = {}
        <4>1. b \in B <=> b + 7 * lows \in low
          BY <1>5, <3>1
        <4>2. b + 7 * lows \in Int /\ (b + 7 * lows \in v => b + 7 * lows \in low)
          BY <1>1, <1>2, <3>1
        <4>3. b + 7 * lows \in low => b + 7 * lows \in v
          BY <1>1
        <4>4. QED
          BY <4>1, <4>2, <4>3
      <3>2. CASE high # {}
        <4>1. lows = 4
          BY <1>2, <3>2
        <4>2. b + 7 * lows = b + 28
          BY <4>1
        <4>3. CASE b \in 0..3
          <5>1. ~(b >= 4) /\ b + 28 \in 0..31
            BY <4>3
          <5>2. QED
            BY <1>1, <1>5, <4>2, <5>1
        <4>4. CASE b \in 4..6
          <5>1. b - 4 \in 0..2 /\ b - 4 \in 0..31 /\ (b - 4) + 32 = b + 28 /\ b >= 4
            BY <4>4
          <5>2. b + 28 \notin 0..31
            BY <4>4
          <5>3. b + 28 \notin low
            BY <1>1, <5>2
          <5>4. b - 4 \in high <=> b + 28 \in v
            BY <1>1, <5>1
          <5>5. QED
            BY <1>5, <4>2, <5>1, <5>3, <5>4
        <4>5. b \in 0..3 \/ b \in 4..6
          OBVIOUS
        <4>6. QED
          BY <4>3, <4>4, <4>5
      <3>3. QED
        BY <3>1, <3>2
    <2>3. QED
      BY <2>1, <2>2

  <1>7. /\ q \in Bytes /\ Len(q) = lows + 1 + highs
        /\ \A i \in 1..(lows + 1 + highs) : q[i] = IF i <= lows THEN A[i]
                                                   ELSE IF i = lows + 1 THEN B
                                                   ELSE C[i - (lows + 1)]
    <2> DEFINE P == A \o <<B>>
    <2>1. <<B>> \in Seq(Byte) /\ Len(<<B>>) = 1 /\ <<B>>[1] = B
      BY <1>6
    <2>2. A \in Seq(Byte) /\ C \in Seq(Byte)
      BY <1>3, <1>4 DEF Bytes
    <2>3. /\ P \in Seq(Byte) /\ Len(P) = lows + 1
          /\ \A i \in 1..(lows + 1) : P[i] = IF i <= lows THEN A[i] ELSE <<B>>[i - lows]
      <3>1. /\ P \in Seq(Byte) /\ Len(P) = Len(A) + Len(<<B>>)
            /\ \A i \in 1..(Len(A) + Len(<<B>>)) : P[i] = IF i <= Len(A) THEN A[i] ELSE <<B>>[i - Len(A)]
        BY <2>1, <2>2, ConcatProperties
      <3>2. QED
        BY <1>3, <2>1, <3>1
    <2> HIDE DEF P
    <2>4. /\ P \o C \in Seq(Byte) /\ Len(P \o C) = lows + 1 + highs
          /\ \A i \in 1..(lows + 1 + highs) : (P \o C)[i] = IF i <= lows + 1 THEN P[i] ELSE C[i - (lows + 1)]
      <3>1. /\ P \o C \in Seq(Byte) /\ Len(P \o C) = Len(P) + Len(C)
            /\ \A i \in 1..(Len(P) + Len(C)) : (P \o C)[i] = IF i <= Len(P) THEN P[i] ELSE C[i - Len(P)]
        BY <2>2, <2>3, ConcatProperties
      <3>2. QED
        BY <1>4, <2>3, <3>1
    <2>5. P \o C = q
      BY DEF P
    <2> HIDE DEF q
    <2>6. ASSUME NEW i \in 1..(lows + 1 + highs)
          PROVE  q[i] = IF i <= lows THEN A[i] ELSE IF i = lows + 1 THEN B ELSE C[i - (lows + 1)]
      <3>1. q[i] = IF i <= lows + 1 THEN P[i] ELSE C[i - (lows + 1)]
        BY <2>4, <2>5
      <3>2. i \in Int /\ lows \in Nat /\ i >= 1
        BY <1>2
      <3>3. CASE i <= lows
        <4>1. P[i] = A[i] /\ i <= lows + 1
          BY <2>3, <3>2, <3>3
        <4>2. QED
          BY <3>1, <3>3, <4>1
      <3>4. CASE i = lows + 1
        <4>1. P[i] = <<B>>[i - lows] /\ i - lows = 1 /\ ~(i <= lows)
          BY <2>3, <3>2, <3>4
        <4>2. QED
          BY <2>1, <3>1, <3>2, <3>4, <4>1
      <3>5. CASE i > lows + 1
        BY <3>1, <3>2, <3>5
      <3>6. QED
        BY <3>2, <3>3, <3>4, <3>5
    <2>7. QED
      BY <2>4, <2>5, <2>6 DEF Bytes
  <1> HIDE DEF q
  <1>8. ASSUME NEW i \in 1..(lows + 1 + highs)
        PROVE  7 \notin q[i] /\ \A b \in 0..6 : b \in q[i] <=> b + 7 * (i - 1) \in v
    <2>1. i \in Int /\ i >= 1 /\ lows \in Int /\ highs \in Int /\ lows \in 0..4
      BY <1>2
    <2>2. CASE i <= lows
      <3>1. i \in 1..lows /\ q[i] = A[i]
        BY <1>7, <2>1, <2>2
      <3>2. \A b \in 0..6 : b + 7 * (i - 1) \in 0..31
        BY <2>1, <2>2
      <3>3. QED
        BY <1>1, <1>3, <3>1, <3>2
    <2>3. CASE i = lows + 1
      <3>1. q[i] = B /\ i - 1 = lows
        BY <1>7, <2>1, <2>3
      <3>2. QED
        BY <1>6, <3>1
    <2>4. CASE i > lows + 1
      <3> DEFINE j == i - (lows + 1)
      <3>1. j \in 1..highs /\ q[i] = C[j]
        BY <1>7, <2>1, <2>4
      <3>2. lows = 4 /\ j = i - 5
        <4>1. highs # 0
          BY <2>1, <2>4
        <4>2. QED
          BY <1>2, <4>1
      <3>3. \A b \in 0..6 : b \in C[j] <=> b + (3 + 7 * (j - 1)) \in high
        BY <1>4, <3>1
      <3>4. ASSUME NEW b \in 0..6
            PROVE  b + (3 + 7 * (j - 1)) \in high <=> b + 7 * (i - 1) \in v
        <4> DEFINE x == b + (3 + 7 * (j - 1))
        <4>1. x \in Int /\ x >= 0 /\ x + 32 = b + 7 * (i - 1) /\ (b + 7 * (i - 1)) - 32 = x
          BY <2>1, <3>1, <3>2
        <4>2. b + 7 * (i - 1) \notin 0..31
          BY <4>1
        <4>3. ASSUME x \in high PROVE b + 7 * (i - 1) \in v
          BY <1>1, <4>1, <4>3
        <4>4. ASSUME b + 7 * (i - 1) \in v PROVE x \in high
          <5> HIDE DEF x
          <5>1. b + 7 * (i - 1) \notin low
            BY <1>1, <4>2
          <5>2. QED
            BY <1>1, <4>1, <4>4, <5>1
        <4>5. QED
          BY <4>3, <4>4
      <3>5. QED
        BY <1>4, <3>1, <3>3, <3>4
    <2>5. QED
      BY <2>1, <2>2, <2>3, <2>4
  <1>9. v \subseteq 0..(7 * (lows + 1 + highs) - 1)
    <2> SUFFICES ASSUME NEW x \in v PROVE x \in 0..(7 * (lows + 1 + highs) - 1)
      OBVIOUS
    <2>1. x \in Int /\ lows \in 0..4 /\ highs \in 0..5
      BY <1>1, <1>2
    <2>2. CASE x \in low
      <3>1. x \in 0..31 /\ (lows = 4 \/ x < 7 * (lows + 1))
        BY <1>1, <1>2, <2>2
      <3>2. QED
        BY <2>1, <3>1
    <2>3. CASE x - 32 \in high
      <3>1. x - 32 >= 0 /\ x - 32 < 3 + 7 * highs /\ lows = 4
        BY <1>1, <1>2, <2>3
      <3>2. QED
        BY <2>1, <3>1
    <2>4. QED
      BY <1>1, <2>2, <2>3
  <1> DEFINE s == [i \in DOMAIN q |-> q[i] \cup (IF i < Len(q) THEN {7} ELSE {})]
  <1>10. Spells(s, v) /\ Len(s) = Len(q)
    <2>1. Len(q) >= 1 /\ v \subseteq 0..(7 * Len(q) - 1)
      BY <1>2, <1>7, <1>9
    <2>2. \A i \in 1..Len(q) : /\ 7 \notin q[i]
                               /\ \A b \in 0..6 : b \in q[i] <=> b + 7 * (i - 1) \in v
      BY <1>7, <1>8
    <2> HIDE DEF s
    <2>3. QED
      BY <1>7, <2>1, <2>2, SeptetsSpell DEF s
  <1>11. Len(q) <= 10
    BY <1>2, <1>7
  <1>12. s = EncodeVarint32(low, high)
    BY DEF EncodeVarint32, q, A, B, C, lows, highs
  <1> HIDE DEF s
  <1>13. ShortSpelling(s, v)
    BY <1>10, <1>11 DEF ShortSpelling
  <1>14. QED
    BY <1>12, <1>13 DEF low, high


\* pb_encode_varint writes a spelling of at most ten bytes for every value.
THEOREM VarintSpelled ==
  ASSUME NEW v \in UInt64
  PROVE  ShortSpelling(EncodeVarint(v), v)
  <1>1. CASE v \subseteq 0..6
    <2> DEFINE s == <<v>>
    <2>1. v \in Byte
      BY <1>1 DEF Byte
    <2>2. s \in Bytes /\ Len(s) = 1 /\ s[1] = v
      BY <2>1 DEF Bytes
    <2>3. 7 \notin v
      BY <1>1
    <2> HIDE DEF s
    <2>4. \A i \in 1..Len(s) : i = 1 /\ s[i] = v
      BY <2>2
    <2>5. \A i \in 1..Len(s), b \in 0..6 : b \in s[i] <=> b + 7 * (i - 1) \in v
      BY <2>4
    <2>6. \A i \in 1..Len(s) : 7 \in s[i] <=> i < Len(s)
      BY <2>2, <2>3, <2>4
    <2>7. v \subseteq 0..(7 * Len(s) - 1) /\ Len(s) >= 1 /\ Len(s) <= 10
      BY <1>1, <2>2
    <2>8. ShortSpelling(s, v)
      BY <2>2, <2>5, <2>6, <2>7 DEF ShortSpelling, Spells
    <2>9. QED
      BY <1>1, <2>8 DEF EncodeVarint, s
  <1>2. CASE ~(v \subseteq 0..6)
    BY <1>2, EncodeVarint32Spells DEF EncodeVarint
  <1>3. QED
    BY <1>1, <1>2

\* What pb_encode_varint writes pb_decode_varint reads back and leaves what
\* follows, for every 64-bit value.
THEOREM VarintRoundTrip ==
  ASSUME NEW v \in UInt64, NEW rest \in Bytes
  PROVE  DecodeVarint(EncodeVarint(v) \o rest) = Decoded(v, rest)
  BY VarintSpelled, VarintDecoded

\* The decoder of tags, lengths and 32-bit fields reads every 32-bit value back.
THEOREM Varint32RoundTrip ==
  ASSUME NEW v \in UInt32, NEW rest \in Bytes
  PROVE  DecodeVarint32(EncodeVarint(v) \o rest) = Decoded(v, rest)
  <1>1. v \in UInt64
    BY DEF UInt32, UInt64
  <1>2. QED
    BY <1>1, VarintSpelled, Varint32Decoded

\* The zigzag of pb_encode_svarint loses nothing, the most negative value
\* included: pb_decode_svarint turns it back.
THEOREM SvarintRoundTrip ==
  ASSUME NEW v \in UInt64, NEW rest \in Bytes
  PROVE  DecodeSvarint(EncodeSvarint(v) \o rest) = Decoded(v, rest)
  <1> DEFINE shifted == Low(Shl(v, 1), 64)
             z == IF 63 \in v THEN Flip(shifted, 64) ELSE shifted
             half == Shr(z, 1)
  <1>1. v \in SUBSET (0..63)
    BY DEF UInt64
  <1>2. \A x : x \in shifted <=> x \in 0..63 /\ x - 1 \in v
    <2> SUFFICES ASSUME NEW x PROVE x \in shifted <=> x \in 0..63 /\ x - 1 \in v
      OBVIOUS
    <2>1. x \in shifted <=> x \in Shl(v, 1) /\ x \in 0..63
      BY DEF Low
    <2>2. x \in 0..63 => (x \in Shl(v, 1) <=> x - 1 \in v)
      BY <1>1, ShlBit
    <2>3. QED
      BY <2>1, <2>2
  <1> HIDE DEF shifted
  <1>3. \A x : x \in Flip(shifted, 64) <=> x \in 0..63 /\ x - 1 \notin v
    <2> SUFFICES ASSUME NEW x PROVE x \in Flip(shifted, 64) <=> x \in 0..63 /\ x - 1 \notin v
      OBVIOUS
    <2>1. x \in Flip(shifted, 64) <=> x \in 0..63 /\ x \notin shifted
      BY DEF Flip
    <2>2. QED
      BY <1>2, <2>1
  <1>4. \A x : x \in z <=> x \in 0..63 /\ (x - 1 \in v <=> 63 \notin v)
    BY <1>2, <1>3
  <1> HIDE DEF z
  <1>5. z \in UInt64
    BY <1>4 DEF UInt64
  <1>6. 0 \in z <=> 63 \in v
    <2>1. 0 \in 0..63 /\ 0 - 1 \notin v
      BY <1>1
    <2>2. QED
      BY <1>4, <2>1
  <1>7. \A y : y \in half <=> y \in 0..62 /\ (y \in v <=> 63 \notin v)
    <2> SUFFICES ASSUME NEW y PROVE y \in half <=> y \in 0..62 /\ (y \in v <=> 63 \notin v)
      OBVIOUS
    <2>1. z \in SUBSET Int
      BY <1>5 DEF UInt64
    <2>2. y \in half <=> y \in Int /\ y >= 0 /\ y + 1 \in z
      BY <2>1, ShrBit
    <2>3. y \in Int => (y + 1) - 1 = y
      OBVIOUS
    <2>4. y \in Int /\ y >= 0 => (y + 1 \in 0..63 <=> y \in 0..62)
      OBVIOUS
    <2>5. y \in 0..62 => y \in Int /\ y >= 0
      OBVIOUS
    <2> HIDE DEF half
    <2>6. QED
      BY <1>4, <2>2, <2>3, <2>4, <2>5
  <1> HIDE DEF half
  <1>8. DecodeVarint(EncodeSvarint(v) \o rest) = Decoded(z, rest)
    <2>1. EncodeSvarint(v) = EncodeVarint(z)
      BY DEF EncodeSvarint, z, shifted
    <2>2. QED
      BY <1>5, <2>1, VarintRoundTrip
  <1>9. DecodeSvarint(EncodeSvarint(v) \o rest) =
          IF 63 \in v THEN Decoded(Flip(half, 64), rest) ELSE Decoded(half, rest)
    <2> DEFINE d == Decoded(z, rest)
    <2>1. d.ok /\ d.v = z
      BY DEF Decoded
    <2> HIDE DEF d
    <2>2. DecodeSvarint(EncodeSvarint(v) \o rest) =
            IF d.ok /\ 0 \in d.v THEN [d EXCEPT !.v = Flip(Shr(d.v, 1), 64)]
            ELSE [d EXCEPT !.v = Shr(d.v, 1)]
      BY <1>8 DEF DecodeSvarint, d
    <2>3. QED
      BY <1>6, <2>1, <2>2, DecodedAnew DEF half, d
  <1>10. CASE 63 \in v
    <2>1. \A x : x \in Flip(half, 64) <=> x \in 0..63 /\ x \notin half
      BY DEF Flip
    <2>2. \A x : x \in 0..63 => x \in 0..62 \/ x = 63
      OBVIOUS
    <2>3. 63 \notin half
      BY <1>7
    <2>4. \A x : x \in Flip(half, 64) <=> x \in v
      <3> SUFFICES ASSUME NEW x PROVE x \in Flip(half, 64) <=> x \in v
        OBVIOUS
      <3>1. CASE x \in 0..62
        <4>1. x \in 0..63
          BY <3>1
        <4>2. QED
          BY <1>7, <1>10, <2>1, <3>1, <4>1
      <3>2. CASE x = 63
        BY <1>10, <2>1, <2>3, <3>2
      <3>3. CASE x \notin 0..63
        BY <1>1, <2>1, <3>3
      <3>4. QED
        BY <2>2, <3>1, <3>2, <3>3
    <2> HIDE DEF half
    <2>5. Flip(half, 64) = v
      BY <2>4
    <2>6. QED
      BY <1>9, <1>10, <2>5
  <1>11. CASE 63 \notin v
    <2>1. \A x \in v : x \in 0..62
      BY <1>1, <1>11
    <2>2. half = v
      BY <1>7, <1>11, <2>1
    <2>3. QED
      BY <1>9, <1>11, <2>2
  <1>12. QED
    BY <1>10, <1>11


-----------------------------------------------------------------------------
(* Integers of fixed width, and fields nobody knows.                       *)

\* The bytes of a fixed-width integer, one by one.
LEMMA FixedBytes ==
  ASSUME NEW n \in Nat, NEW v \in SUBSET Int
  PROVE  /\ EncodeFixed(v, n) \in Bytes /\ Len(EncodeFixed(v, n)) = n
         /\ \A i \in 1..n : \A b : b \in EncodeFixed(v, n)[i] <=> b \in 0..7 /\ b + 8 * (i - 1) \in v
  <1> DEFINE s == EncodeFixed(v, n)
  <1>1. s = [i \in 1..n |-> Low(Shr(v, 8 * (i - 1)), 8)]
    BY DEF EncodeFixed
  <1>2. ASSUME NEW i \in 1..n, NEW b
        PROVE  b \in s[i] <=> b \in 0..7 /\ b + 8 * (i - 1) \in v
    <2>1. s[i] = Low(Shr(v, 8 * (i - 1)), 8) /\ 8 * (i - 1) \in Int
      BY <1>1
    <2>2. b \in s[i] <=> b \in Shr(v, 8 * (i - 1)) /\ b \in 0..7
      BY <2>1 DEF Low
    <2>3. b \in 0..7 => (b \in Shr(v, 8 * (i - 1)) <=> b + 8 * (i - 1) \in v)
      <3>1. b \in Shr(v, 8 * (i - 1)) <=> b \in Int /\ b >= 0 /\ b + 8 * (i - 1) \in v
        BY <2>1, ShrBit
      <3>2. b \in 0..7 => b \in Int /\ b >= 0
        OBVIOUS
      <3>3. QED
        BY <3>1, <3>2
    <2>4. QED
      BY <2>2, <2>3
  <1>3. \A i \in 1..n : s[i] \in Byte
    BY <1>2 DEF Byte
  <1>4. s \in [1..n -> Byte]
    BY <1>1, <1>3
  <1> HIDE DEF s
  <1>5. s \in Bytes /\ Len(s) = n
    BY <1>4 DEF Bytes
  <1>6. QED
    BY <1>2, <1>5 DEF s

\* pb_read of as many bytes as were written takes those and leaves the rest.
LEMMA ReadBack ==
  ASSUME NEW s \in Bytes, NEW rest \in Bytes
  PROVE  Read(s \o rest, Len(s)) = Decoded(s, rest)
  <1> DEFINE t == s \o rest
             n == Len(s)
  <1>1. n \in Nat /\ Len(rest) \in Nat /\ Len(t) = n + Len(rest)
    BY RestOfStream
  <1>2. SubSeq(t, 1, n) = s /\ SubSeq(t, n + 1, Len(t)) = rest
    BY RestOfStream
  <1> HIDE DEF t, n
  <1>3. ~(Len(t) < n)
    BY <1>1
  <1>4. Read(t, n) = Decoded(s, rest)
    BY <1>2, <1>3 DEF Read
  <1>5. QED
    BY <1>4 DEF t, n

\* What pb_encode_fixed32 and pb_encode_fixed64 write is read back, for any
\* number of bytes.
THEOREM FixedRoundTrip ==
  ASSUME NEW n \in Nat, NEW v \in SUBSET (0..(8 * n - 1)), NEW rest \in Bytes
  PROVE  DecodeFixed(EncodeFixed(v, n) \o rest, n) = Decoded(v, rest)
  <1> DEFINE s == EncodeFixed(v, n)
             part(i) == Shl(s[i], 8 * (i - 1))
             bits == UNION {part(i) : i \in 1..n}
  <1>1. v \in SUBSET Int
    OBVIOUS
  <1>2. /\ s \in Bytes /\ Len(s) = n
        /\ \A i \in 1..n : \A b : b \in s[i] <=> b \in 0..7 /\ b + 8 * (i - 1) \in v
    BY <1>1, FixedBytes
  <1>3. Read(s \o rest, n) = Decoded(s, rest)
    BY <1>2, ReadBack
  <1> HIDE DEF s
  <1>4. ASSUME NEW i \in 1..n, NEW x
        PROVE  x \in part(i) <=> x \in Int /\ x - 8 * (i - 1) \in 0..7 /\ x \in v
    <2>1. s[i] \in SUBSET Int /\ 8 * (i - 1) \in Int
      BY <1>2
    <2>2. x \in part(i) <=> x \in Int /\ x - 8 * (i - 1) \in s[i]
      BY <2>1, ShlBit
    <2>3. x \in Int => (x - 8 * (i - 1)) + 8 * (i - 1) = x
      BY <2>1
    <2>4. QED
      BY <1>2, <2>2, <2>3
  <1>5. ASSUME NEW x \in v PROVE \E i \in 1..n : x \in part(i)
    <2>1. x \in Int /\ 0 <= x /\ x <= 8 * n - 1
      OBVIOUS
    <2>2. PICK i \in Int : i = (x \div 8) + 1
      BY <2>1
    <2>3. i \in 1..n /\ x - 8 * (i - 1) \in 0..7
      BY <2>1, <2>2
    <2>4. QED
      BY <1>4, <2>1, <2>3
  <1>6. bits = v
    <2>1. \A x : x \in bits <=> \E i \in 1..n : x \in part(i)
      OBVIOUS
    <2>2. QED
      BY <1>4, <1>5, <2>1
  <1>7. DecodeFixed(s \o rest, n) = Decoded(bits, rest)
    <2> DEFINE d == Decoded(s, rest)
    <2>1. d.ok /\ d.v = s
      BY DEF Decoded
    <2>2. DecodeFixed(s \o rest, n) =
            [d EXCEPT !.v = UNION {Shl(d.v[i], 8 * (i - 1)) : i \in 1..n}]
      <3> HIDE DEF d
      <3>1. QED
        BY <1>3, <2>1 DEF DecodeFixed, d
    <2>3. UNION {Shl(d.v[i], 8 * (i - 1)) : i \in 1..n} = bits
      BY <2>1
    <2> HIDE DEF bits
    <2>4. QED
      BY <2>2, <2>3, DecodedAnew
  <1>8. QED
    BY <1>6, <1>7 DEF s

\* pb_skip_varint passes any spelling of any value, however long, and nothing
\* behind it.
THEOREM VarintSkipped ==
  ASSUME NEW v, NEW s, Spells(s, v), NEW rest \in Bytes
  PROVE  SkipVarint(s \o rest) = Decoded({}, rest)
  <1> DEFINE t == s \o rest
             n == Len(s)
  <1>1. s \in Bytes /\ n >= 1 /\ v \subseteq 0..(7 * n - 1)
    BY DEF Spells
  <1>2. n \in Nat /\ SubSeq(t, n + 1, Len(t)) = rest
    BY <1>1, RestOfStream
  <1>3. \A k \in 1..n : v \subseteq 0..(7 * k - 1) => VarintLength(t) = n
    BY SpellingRead
  <1> HIDE DEF t, n
  <1>4. n \in 1..n /\ n # 0
    BY <1>1, <1>2
  <1>5. SkipVarint(t) = Decoded({}, rest)
    BY <1>1, <1>2, <1>3, <1>4 DEF SkipVarint
  <1>6. QED
    BY <1>5 DEF t

\* A field that the receiver does not know is passed by its wire type alone,
\* and the stream stands at the next tag: what pb_encode_varint,
\* pb_encode_fixed64 and pb_encode_fixed32 write, whatever the value.
THEOREM UnknownFieldSkipped ==
  ASSUME NEW v \in UInt64, NEW rest \in Bytes
  PROVE  /\ SkipField(EncodeVarint(v) \o rest, 0) = Decoded({}, rest)
         /\ SkipField(EncodeFixed(v, 8) \o rest, 1) = Decoded(EncodeFixed(v, 8), rest)
         /\ SkipField(EncodeFixed(v, 4) \o rest, 5) = Decoded(EncodeFixed(v, 4), rest)
  <1>1. v \in SUBSET Int
    BY DEF UInt64
  <1>2. SkipVarint(EncodeVarint(v) \o rest) = Decoded({}, rest)
    BY VarintSpelled, VarintSkipped DEF ShortSpelling
  <1>3. \A n \in Nat : Read(EncodeFixed(v, n) \o rest, n) = Decoded(EncodeFixed(v, n), rest)
    BY <1>1, FixedBytes, ReadBack
  <1>4. \A s : /\ SkipField(s, 0) = SkipVarint(s)
               /\ SkipField(s, 1) = Read(s, 8)
               /\ SkipField(s, 5) = Read(s, 4)
    BY DEF SkipField
  <1>5. QED
    BY <1>2, <1>3, <1>4

-----------------------------------------------------------------------------
(* Numbers and their bits.                                                 *)

\* What Num computes, from the highest bit down.
Counted(v, top) ==
  top[0] = 0 /\ \A i \in 1 .. 31 : top[i] = 2 * top[i - 1] + (IF 31 - i \in v THEN 1 ELSE 0)

LEMMA NumCounts ==
  ASSUME NEW v
  PROVE  \E top \in [0 .. 31 -> Nat] : Counted(v, top) /\ Num(v) = top[31]
  <1> DEFINE step == [p \in (1 .. 31) \X Nat |-> 2 * p[2] + (IF 31 - p[1] \in v THEN 1 ELSE 0)]
  <1>1. step \in [(1 .. 31) \X Nat -> Nat]
    OBVIOUS
  <1>2. PICK g \in [0 .. 31 -> Nat] : Follows(g, 0, step, 31)
    <2> HIDE DEF step
    <2> QED
      BY <1>1, Recursion
  <1>3. Counted(v, g)
    <2>1. ASSUME NEW i \in 1 .. 31 PROVE g[i] = 2 * g[i - 1] + (IF 31 - i \in v THEN 1 ELSE 0)
      <3>1. i - 1 \in 0 .. 31
        OBVIOUS
      <3>2. <<i, g[i - 1]>> \in (1 .. 31) \X Nat
        BY <3>1
      <3>3. step[<<i, g[i - 1]>>] = 2 * g[i - 1] + (IF 31 - i \in v THEN 1 ELSE 0)
        BY <3>2
      <3>4. QED
        BY <1>2, <3>3 DEF Follows
    <2>2. QED
      BY <1>2, <2>1 DEF Counted, Follows
  <1> DEFINE F(h) == [i \in 0 .. 31 |-> IF i = 0 THEN 0 ELSE 2 * h[i - 1] + (IF 31 - i \in v THEN 1 ELSE 0)]
             h == CHOOSE h : h = F(h)
  <1> HIDE DEF step
  <1>4. g = F(g)
    <2>1. \A i \in 0 .. 31 : i # 0 => i \in 1 .. 31
      OBVIOUS
    <2>2. ASSUME NEW i \in 0 .. 31
          PROVE  g[i] = IF i = 0 THEN 0 ELSE 2 * g[i - 1] + (IF 31 - i \in v THEN 1 ELSE 0)
      BY <1>3, <2>1 DEF Counted
    <2>3. QED
      BY <2>2, Zenon
  <1>5. h = F(h)
    BY <1>4
  <1>6. Num(v) = h[31]
    BY DEF Num
  <1> HIDE DEF h
  <1>7. Counted(v, h) /\ h[0] = 0
    <2>1. 0 \in 0 .. 31 /\ \A i \in 1 .. 31 : i \in 0 .. 31 /\ i # 0
      OBVIOUS
    <2>2. QED
      BY <1>5, <2>1 DEF Counted
  <1> DEFINE T == {j \in 0 .. 31 : h[j] \in Nat}
  <1>8. 0 \in T
    BY <1>7
  <1>9. ASSUME NEW i \in 0 .. (31 - 1), i \in T PROVE i + 1 \in T
    <2>1. i + 1 \in 1 .. 31 /\ i + 1 \in 0 .. 31 /\ (i + 1) - 1 = i
      OBVIOUS
    <2>2. h[i + 1] = 2 * h[i] + (IF 31 - (i + 1) \in v THEN 1 ELSE 0)
      BY <1>7, <2>1 DEF Counted
    <2>3. QED
      BY <1>9, <2>1, <2>2
  <1>10. \A i \in 0 .. 31 : i \in T
    <2> HIDE DEF T
    <2> QED
      BY <1>8, <1>9, Induction
  <1>11. h \in [0 .. 31 -> Nat]
    <2>1. \A i \in 0 .. 31 : h[i] \in Nat
      BY <1>10
    <2>2. h = [i \in 0 .. 31 |-> h[i]]
      BY <1>5
    <2>3. QED
      BY <2>1, <2>2
  <1>12. QED
    BY <1>6, <1>7, <1>11

\* The powers of two up to that of 31.
LEMMA Powers ==
  /\ 2 ^ 0 = 1
  /\ \A i \in 0 .. 30 : 2 ^ i \in Nat \ {0} /\ 2 ^ (i + 1) = 2 * 2 ^ i
  /\ 2 ^ 31 \in Nat \ {0}
  <1>1. ASSUME NEW i \in 0 .. 30 PROVE 2 ^ i \in Nat \ {0} /\ 2 ^ (i + 1) = 2 * 2 ^ i
    <2>0. CASE i = 0  BY <2>0
    <2>1. CASE i = 1  BY <2>1
    <2>2. CASE i = 2  BY <2>2
    <2>3. CASE i = 3  BY <2>3
    <2>4. CASE i = 4  BY <2>4
    <2>5. CASE i = 5  BY <2>5
    <2>6. CASE i = 6  BY <2>6
    <2>7. CASE i = 7  BY <2>7
    <2>8. CASE i = 8  BY <2>8
    <2>9. CASE i = 9  BY <2>9
    <2>10. CASE i = 10  BY <2>10
    <2>11. CASE i = 11  BY <2>11
    <2>12. CASE i = 12  BY <2>12
    <2>13. CASE i = 13  BY <2>13
    <2>14. CASE i = 14  BY <2>14
    <2>15. CASE i = 15  BY <2>15
    <2>16. CASE i = 16  BY <2>16
    <2>17. CASE i = 17  BY <2>17
    <2>18. CASE i = 18  BY <2>18
    <2>19. CASE i = 19  BY <2>19
    <2>20. CASE i = 20  BY <2>20
    <2>21. CASE i = 21  BY <2>21
    <2>22. CASE i = 22  BY <2>22
    <2>23. CASE i = 23  BY <2>23
    <2>24. CASE i = 24  BY <2>24
    <2>25. CASE i = 25  BY <2>25
    <2>26. CASE i = 26  BY <2>26
    <2>27. CASE i = 27  BY <2>27
    <2>28. CASE i = 28  BY <2>28
    <2>29. CASE i = 29  BY <2>29
    <2>30. CASE i = 30  BY <2>30
    <2>31. QED
      BY <2>0, <2>1, <2>2, <2>3, <2>4, <2>5, <2>6, <2>7, <2>8, <2>9, <2>10, <2>11, <2>12, <2>13, <2>14,
         <2>15, <2>16, <2>17, <2>18, <2>19, <2>20, <2>21, <2>22, <2>23, <2>24, <2>25, <2>26, <2>27, <2>28, <2>29, <2>30
  <1>2. QED
    BY <1>1

\* A quotient is known by its rest.
LEMMA Quotient ==
  ASSUME NEW q \in Nat \ {0}, NEW h \in Nat, NEW s \in 0 .. (q - 1), NEW n, n = q * h + s
  PROVE  n \div q = h
  <1>1. PICK d \in Nat, e \in 0 .. (q - 1) : n = q * d + e /\ n \div q = d
    <2>1. n \in Nat
      OBVIOUS
    <2>2. n \div q \in Nat /\ n % q \in 0 .. (q - 1) /\ n = q * (n \div q) + (n % q)
      BY <2>1
    <2>3. QED
      BY <2>2
  <1>2. \A x \in Nat, y \in Nat : x < y => q * x + q <= q * y
    <2>1. ASSUME NEW x \in Nat, NEW y \in Nat, x < y PROVE q * x + q <= q * y
      <3>1. PICK z \in Nat : y = x + 1 + z
        <4>1. y - x - 1 \in Nat /\ y = x + 1 + (y - x - 1)
          BY <2>1
        <4>2. QED
          BY <4>1
      <3>2. q * y = q * x + q + q * z /\ q * z \in Nat /\ q * x \in Nat
        BY <3>1
      <3>3. QED
        BY <3>2
    <2>2. QED
      BY <2>1
  <1>3. ~(h < d)
    <2>1. h < d => q * h + q <= q * d
      BY <1>1, <1>2
    <2>2. q * h \in Nat /\ q * d \in Nat
      OBVIOUS
    <2>3. QED
      BY <1>1, <2>1, <2>2
  <1>4. ~(d < h)
    <2>1. d < h => q * d + q <= q * h
      BY <1>1, <1>2
    <2>2. q * h \in Nat /\ q * d \in Nat
      OBVIOUS
    <2>3. QED
      BY <1>1, <2>1, <2>2
  <1>5. QED
    BY <1>1, <1>3, <1>4

LEMMA Halving ==
  ASSUME NEW n \in Nat, NEW p \in Nat \ {0}, NEW q, q = 2 * p
  PROVE  /\ n \div p \in Nat /\ n \div q \in Nat
         /\ n \div p = 2 * (n \div q) + ((n \div p) % 2)
  <1>1. PICK h \in Nat, b \in 0 .. 1 : n \div p = 2 * h + b /\ (n \div p) % 2 = b
    <2>1. n \div p \in Nat
      OBVIOUS
    <2>2. \A m \in Nat : m \div 2 \in Nat /\ m % 2 \in 0 .. 1 /\ m = 2 * (m \div 2) + (m % 2)
      OBVIOUS
    <2>3. QED
      BY <2>1, <2>2
  <1>2. PICK r \in 0 .. (p - 1) : n = p * (2 * h + b) + r
    <2>1. n % p \in 0 .. (p - 1) /\ n = p * (n \div p) + (n % p)
      OBVIOUS
    <2>2. QED
      BY <2>1, <1>1
  <1>3. PICK s \in 0 .. (q - 1) : n = q * h + s
    <2>1. p * (2 * h + b) = q * h + p * b
      OBVIOUS
    <2>2. p * b = 0 \/ p * b = p
      BY b = 0 \/ b = 1
    <2>3. p * b + r \in 0 .. (q - 1)
      BY <2>2
    <2>4. n = q * h + (p * b + r)
      BY <1>2, <2>1, <2>2
    <2>5. QED
      BY <2>3, <2>4
  <1>4. q \in Nat \ {0} /\ n \div q = h
    BY <1>3, Quotient
  <1>5. QED
    BY <1>1, <1>4


\* The powers of two grow.
LEMMA PowersGrow ==
  ASSUME NEW k \in 0 .. 31, NEW i \in k .. 31
  PROVE  2 ^ k \in Nat \ {0} /\ 2 ^ i \in Nat \ {0} /\ 2 ^ k <= 2 ^ i
  <1> DEFINE T == {j \in 0 .. (31 - k) : 2 ^ (k + j) \in Nat \ {0} /\ 2 ^ k <= 2 ^ (k + j)}
  <1>1. ASSUME NEW j \in 0 .. 31 PROVE 2 ^ j \in Nat \ {0}
    <2>1. CASE j = 31
      BY <2>1, Powers
    <2>2. CASE j \in 0 .. 30
      BY <2>2, Powers
    <2>3. QED
      BY <2>1, <2>2
  <1>2. 0 \in T
    <2>1. k + 0 = k /\ 0 \in 0 .. (31 - k)
      OBVIOUS
    <2>2. PICK a \in Nat \ {0} : a = 2 ^ k
      BY <1>1
    <2>3. 2 ^ (k + 0) = a
      BY <2>1, <2>2
    <2>4. QED
      BY <2>1, <2>2, <2>3
  <1>3. ASSUME NEW j \in 0 .. ((31 - k) - 1), j \in T PROVE j + 1 \in T
    <2>1. k + j \in 0 .. 30 /\ (k + j) + 1 = k + (j + 1) /\ j + 1 \in 0 .. (31 - k)
      OBVIOUS
    <2>2. 2 ^ (k + (j + 1)) = 2 * 2 ^ (k + j)
      BY <2>1, Powers
    <2>3. PICK a \in Nat \ {0}, b \in Nat \ {0} : a = 2 ^ k /\ b = 2 ^ (k + j) /\ a <= b
      BY <1>1, <1>3
    <2>4. 2 ^ (k + (j + 1)) = 2 * b /\ a <= 2 * b /\ 2 * b \in Nat \ {0}
      BY <2>2, <2>3
    <2>5. QED
      BY <2>1, <2>3, <2>4
  <1>4. \A j \in 0 .. (31 - k) : j \in T
    <2> HIDE DEF T
    <2>1. 31 - k \in Nat
      OBVIOUS
    <2> QED
      BY <1>2, <1>3, <2>1, Induction
  <1>5. i - k \in 0 .. (31 - k) /\ k + (i - k) = i
    OBVIOUS
  <1>6. i - k \in T
    BY <1>4, <1>5
  <1>7. QED
    BY <1>1, <1>5, <1>6

\* A number below 2^k has its bits below k.
LEMMA BitsBelow ==
  ASSUME NEW k \in 0 .. 31, NEW n \in Nat, n < 2 ^ k
  PROVE  Bits(n) \in SUBSET (0 .. (k - 1))
  <1>1. ASSUME NEW i \in 0 .. 30, (n \div 2 ^ i) % 2 = 1 PROVE i < k
    <2>1. SUFFICES ASSUME i >= k PROVE FALSE
      OBVIOUS
    <2>2. PICK p \in Nat \ {0} : p = 2 ^ i /\ n < p
      <3>1. i \in k .. 31
        BY <2>1
      <3>2. 2 ^ k \in Nat \ {0} /\ 2 ^ i \in Nat \ {0} /\ 2 ^ k <= 2 ^ i
        BY <3>1, PowersGrow
      <3>3. QED
        BY <3>2
    <2>3. n \div p = 0
      BY <2>2
    <2>4. QED
      BY <1>1, <2>2, <2>3
  <1>2. ASSUME NEW i \in Bits(n) PROVE i \in 0 .. (k - 1)
    <2>1. i \in 0 .. 30 /\ (n \div 2 ^ i) % 2 = 1
      BY DEF Bits
    <2>2. i < k
      BY <2>1, <1>1
    <2>3. QED
      BY <2>1, <2>2
  <1>3. QED
    BY <1>2

\* What Bits takes apart, Num puts together.
THEOREM NumBits ==
  ASSUME NEW n \in Nat, n < 2 ^ 31
  PROVE  Num(Bits(n)) = n
  <1>1. PICK top \in [0 .. 31 -> Nat] : Counted(Bits(n), top) /\ Num(Bits(n)) = top[31]
    BY NumCounts
  <1> DEFINE T == {i \in 0 .. 31 : top[i] = n \div 2 ^ (31 - i)}
  <1>2. 0 \in T
    <2>1. n \div 2 ^ 31 = 0 /\ 31 - 0 = 31
      BY Powers
    <2>2. top[0] = 0
      BY <1>1 DEF Counted
    <2>3. QED
      BY <2>1, <2>2
  <1>3. ASSUME NEW i \in 0 .. (31 - 1), i \in T PROVE i + 1 \in T
    <2>1. PICK j \in 0 .. 30 : j = 31 - (i + 1) /\ 31 - i = j + 1
      <3>1. 31 - (i + 1) \in 0 .. 30 /\ 31 - i = (31 - (i + 1)) + 1
        OBVIOUS
      <3>2. QED
        BY <3>1
    <2>2. i + 1 \in 1 .. 31 /\ (i + 1) - 1 = i /\ i + 1 \in 0 .. 31
      OBVIOUS
    <2>3. top[i + 1] = 2 * top[i] + (IF j \in Bits(n) THEN 1 ELSE 0)
      BY <1>1, <2>1, <2>2 DEF Counted
    <2>4. PICK p \in Nat \ {0}, q \in Nat \ {0} : p = 2 ^ j /\ q = 2 ^ (j + 1) /\ q = 2 * p
      <3>1. 2 ^ j \in Nat \ {0} /\ 2 ^ (j + 1) = 2 * 2 ^ j
        BY Powers
      <3>2. QED
        BY <3>1
    <2>5. n \div p \in Nat /\ n \div q \in Nat /\ n \div p = 2 * (n \div q) + ((n \div p) % 2)
      BY <2>4, Halving
    <2>6. (IF j \in Bits(n) THEN 1 ELSE 0) = (n \div p) % 2
      <3>1. (n \div p) % 2 \in {0, 1}
        BY <2>5
      <3>2. j \in Bits(n) <=> (n \div p) % 2 = 1
        BY <2>4 DEF Bits
      <3>3. QED
        BY <3>1, <3>2
    <2>7. top[i] = n \div q
      BY <1>3, <2>1, <2>4
    <2>8. top[i + 1] = n \div p
      BY <2>3, <2>5, <2>6, <2>7
    <2>9. QED
      BY <2>1, <2>2, <2>4, <2>8
  <1>4. \A i \in 0 .. 31 : i \in T
    <2> HIDE DEF T
    <2> QED
      BY <1>2, <1>3, Induction
  <1>5. 31 \in T
    BY <1>4
  <1>6. top[31] = n \div 2 ^ 0
    <2>1. 31 - 31 = 0
      OBVIOUS
    <2>2. QED
      BY <1>5, <2>1
  <1>7. n \div 1 = n
    OBVIOUS
  <1>8. QED
    BY <1>1, <1>6, <1>7, Powers


LEMMA SmallBits == Bits(0) = {} /\ Bits(1) = {0}
  <1>1. Bits(0) \in SUBSET (0 .. (0 - 1))
    BY Powers, BitsBelow
  <1>2. 2 ^ 1 = 2
    OBVIOUS
  <1>3. Bits(1) \in SUBSET (0 .. (1 - 1))
    BY <1>2, BitsBelow
  <1>4. 0 \in Bits(1)
    <2>1. (1 \div 1) % 2 = 1
      OBVIOUS
    <2>2. QED
      BY <2>1, Powers DEF Bits
  <1>5. QED
    BY <1>1, <1>3, <1>4

\* A tag is read as it was written, whatever follows it.
THEOREM TagRoundTrip ==
  ASSUME NEW wiretype \in 0 .. 7, NEW number \in Nat, number < 2 ^ 28, NEW rest \in Bytes
  PROVE  /\ \E v \in UInt32 : ShortSpelling(EncodeTag(wiretype, number), v)
         /\ DecodeTag(EncodeTag(wiretype, number) \o rest)
              = [ok |-> TRUE, tag |-> number, wiretype |-> wiretype, rest |-> rest]
  <1> DEFINE v == Shl(Bits(number), 3) \cup Bits(wiretype)
  <1>1. Bits(number) \in SUBSET (0 .. 27) /\ Bits(wiretype) \in SUBSET (0 .. 2)
    <2>1. 2 ^ 3 = 8
      OBVIOUS
    <2>2. Bits(number) \in SUBSET (0 .. (28 - 1)) /\ Bits(wiretype) \in SUBSET (0 .. (3 - 1))
      BY <2>1, BitsBelow
    <2>3. QED
      BY <2>2
  <1>2. \A x : x \in v <=> (x \in Int /\ x - 3 \in Bits(number)) \/ x \in Bits(wiretype)
    BY <1>1, ShlBit
  <1>3. v \in UInt32 /\ v \in SUBSET Int
    <2>1. ASSUME NEW x \in v PROVE x \in 0 .. 31
      BY <1>1, <1>2
    <2>2. QED
      BY <2>1 DEF UInt32
  <1> HIDE DEF v
  <1>4. Shr(v, 3) = Bits(number)
    <2>1. ASSUME NEW x PROVE x \in Shr(v, 3) <=> x \in Bits(number)
      <3>1. x \in Shr(v, 3) <=> x \in Int /\ x >= 0 /\ x + 3 \in v
        BY <1>3, ShrBit
      <3>2. x \in Int /\ x >= 0 => (x + 3 \in v <=> x \in Bits(number))
        BY <1>1, <1>2
      <3>3. QED
        BY <1>1, <3>1, <3>2
    <2>2. QED
      BY <2>1
  <1>5. Low(v, 3) = Bits(wiretype)
    <2>1. ASSUME NEW x PROVE x \in Low(v, 3) <=> x \in Bits(wiretype)
      <3>1. x \in Low(v, 3) <=> x \in v /\ x \in Int /\ 0 <= x /\ x < 3
        BY LowBit
      <3>2. QED
        BY <1>1, <1>2, <3>1
    <2>2. QED
      BY <2>1
  <1>6. Num(Bits(number)) = number /\ Num(Bits(wiretype)) = wiretype
    <2>1. 2 ^ 28 < 2 ^ 31 /\ 7 < 2 ^ 31
      OBVIOUS
    <2>2. 2 ^ 28 \in Nat /\ 2 ^ 31 \in Nat
      OBVIOUS
    <2>3. number < 2 ^ 31 /\ wiretype < 2 ^ 31
      BY <2>1, <2>2
    <2>4. QED
      BY <2>3, NumBits
  <1>7. EncodeTag(wiretype, number) = EncodeVarint(v)
    BY DEF EncodeTag, v
  <1>8. DecodeVarint32(EncodeTag(wiretype, number) \o rest) = Decoded(v, rest)
    BY <1>3, <1>7, Varint32RoundTrip
  <1>9. v \in UInt64
    BY <1>3 DEF UInt32, UInt64
  <1>10. ShortSpelling(EncodeTag(wiretype, number), v)
    BY <1>7, <1>9, VarintSpelled
  <1>11. ASSUME NEW s, DecodeVarint32(s) = Decoded(v, rest)
         PROVE  DecodeTag(s) = [ok |-> TRUE, tag |-> Num(Shr(v, 3)), wiretype |-> Num(Low(v, 3)),
                                rest |-> rest]
    BY <1>11 DEF DecodeTag, Decoded
  <1>12. DecodeTag(EncodeTag(wiretype, number) \o rest)
           = [ok |-> TRUE, tag |-> number, wiretype |-> wiretype, rest |-> rest]
    BY <1>4, <1>5, <1>6, <1>8, <1>11, Zenon
  <1>13. QED
    BY <1>3, <1>10, <1>12, Zenon

\* A tag that is cut short is refused.
LEMMA TagCutShort ==
  ASSUME NEW v, NEW s, Spells(s, v), NEW k \in 0 .. (Len(s) - 1)
  PROVE  ~DecodeTag(SubSeq(s, 1, k)).ok
  <1>1. DecodeVarint32(SubSeq(s, 1, k)) = Malformed
    BY VarintCutShort
  <1>2. ~Malformed.ok
    BY DEF Malformed
  <1>3. QED
    BY <1>1, <1>2 DEF DecodeTag

-----------------------------------------------------------------------------
(* Sequences put end to end.                                               *)

\* Where the parts of a flattened sequence begin: at[i - 1] is how many
\* elements come before the i-th part.
Parts(ss, at) ==
  /\ at \in [0 .. Len(ss) -> Nat]
  /\ at[0] = 0
  /\ \A i \in 1 .. Len(ss) : at[i] = at[i - 1] + Len(ss[i])

\* The first m parts are found in t where they begin.
Laid(ss, at, t, m) ==
  /\ Len(t) = at[m]
  /\ \A i \in 1 .. m : at[i] <= at[m] /\ \A k \in 1 .. Len(ss[i]) : t[at[i - 1] + k] = ss[i][k]

\* What is joined after each part.
Joins(ss, g) == g[0] = <<>> /\ \A i \in 1 .. Len(ss) : g[i] = g[i - 1] \o ss[i]

LEMMA Concatenated ==
  ASSUME NEW S, NEW s \in Seq(S), NEW t \in Seq(S)
  PROVE  /\ s \o t \in Seq(S)
         /\ Len(s) \in Nat /\ Len(t) \in Nat
         /\ Len(s \o t) = Len(s) + Len(t)
         /\ \A k \in 1 .. Len(s) : (s \o t)[k] = s[k]
         /\ \A k \in 1 .. Len(t) : (s \o t)[Len(s) + k] = t[k]
  OBVIOUS

\* FlattenSeq is the last of them.
LEMMA FlattenJoins ==
  ASSUME NEW S, NEW ss \in Seq(Seq(S))
  PROVE  \E g \in [0 .. Len(ss) -> Seq(S)] : Joins(ss, g) /\ FlattenSeq(ss) = g[Len(ss)]
  <1> DEFINE n == Len(ss)
             step == [p \in (1 .. n) \X Seq(S) |-> p[2] \o ss[p[1]]]
  <1>1. n \in Nat /\ \A i \in 1 .. n : ss[i] \in Seq(S)
    OBVIOUS
  <1>2. \A i \in 1 .. n, s \in Seq(S) : s \o ss[i] \in Seq(S)
    BY <1>1, Concatenated
  <1>3. step \in [(1 .. n) \X Seq(S) -> Seq(S)]
    <2> HIDE DEF n
    <2> QED
      BY <1>2
  <1>4. PICK g \in [0 .. n -> Seq(S)] : Follows(g, <<>>, step, n)
    <2> HIDE DEF step, n
    <2>1. <<>> \in Seq(S)
      OBVIOUS
    <2> QED
      BY <1>1, <1>3, <2>1, Recursion
  <1>5. Joins(ss, g)
    <2>1. ASSUME NEW i \in 1 .. n PROVE g[i] = g[i - 1] \o ss[i]
      <3> HIDE DEF n
      <3>1. i - 1 \in 0 .. n
        BY <1>1
      <3>2. <<i, g[i - 1]>> \in (1 .. n) \X Seq(S)
        BY <3>1
      <3>3. step[<<i, g[i - 1]>>] = g[i - 1] \o ss[i]
        BY <3>2
      <3>4. QED
        BY <1>4, <3>3 DEF Follows
    <2>2. QED
      BY <1>4, <2>1 DEF Joins, Follows
  <1>6. CASE n = 0
    <2>1. FlattenSeq(ss) = <<>>
      BY <1>6, EmptySeq DEF FlattenSeq
    <2>2. QED
      <3> HIDE DEF step
      <3> QED
        BY <1>5, <1>6, <2>1 DEF Joins
  <1>7. CASE n # 0
    <2> DEFINE f == [i \in 1 .. n |-> g[i]]
               h == CHOOSE h : h = [i \in 1 .. Len(ss) |-> IF i = 1 THEN ss[i] ELSE h[i - 1] \o ss[i]]
    <2> HIDE DEF step
    <2>1. ASSUME NEW i \in 1 .. n
          PROVE  g[i] = IF i = 1 THEN ss[i] ELSE f[i - 1] \o ss[i]
      <3>1. g[i] = g[i - 1] \o ss[i] /\ g[0] = <<>>
        BY <1>5 DEF Joins
      <3>2. CASE i = 1
        <4>1. i - 1 = 0
          BY <3>2
        <4>2. g[i] = <<>> \o ss[1]
          BY <3>1, <3>2, <4>1, Zenon
        <4>3. QED
          BY <4>2, <1>1, <3>2
      <3>3. CASE i # 1
        <4>1. i - 1 \in 1 .. n
          BY <1>1, <3>3
        <4>2. f[i - 1] = g[i - 1]
          BY <4>1, Zenon
        <4>3. QED
          <5> HIDE DEF f
          <5> QED
            BY <3>1, <3>3, <4>2, Zenon
      <3>4. QED
        BY <3>2, <3>3
    <2>2. f = [i \in 1 .. n |-> IF i = 1 THEN ss[i] ELSE f[i - 1] \o ss[i]]
      BY <2>1, Zenon
    <2>3. h = [i \in 1 .. Len(ss) |-> IF i = 1 THEN ss[i] ELSE h[i - 1] \o ss[i]]
      <3> HIDE DEF f
      <3> QED
        BY <2>2
    <2>4. FlattenSeq(ss) = h[Len(ss)]
      BY <1>7 DEF FlattenSeq
    <2> HIDE DEF h, f
    <2>5. h[1] = ss[1] /\ \A i \in 2 .. n : h[i] = h[i - 1] \o ss[i]
      <3>1. 1 \in 1 .. Len(ss) /\ \A i \in 2 .. n : i \in 1 .. Len(ss) /\ i # 1
        BY <1>1, <1>7
      <3>2. QED
        BY <2>3, <3>1, Zenon
    <2> DEFINE T == {j \in 0 .. n : j = 0 \/ h[j] = g[j]}
    <2>6. 0 \in T
      BY <1>1
    <2>7. ASSUME NEW i \in 0 .. (n - 1), i \in T PROVE i + 1 \in T
      <3>1. i + 1 \in 1 .. n /\ (i + 1) - 1 = i /\ i + 1 \in 0 .. n
        BY <1>1
      <3>2. g[i + 1] = g[i] \o ss[i + 1]
        BY <1>5, <3>1 DEF Joins
      <3>3. h[i + 1] = g[i + 1]
        <4>1. CASE i = 0
          <5>1. g[i + 1] = <<>> \o ss[1] /\ h[i + 1] = ss[1] /\ ss[1] \in Seq(S)
            BY <4>1, <3>1, <3>2, <2>5, <1>1, <1>5 DEF Joins
          <5>2. QED
            BY <5>1
        <4>2. CASE i # 0
          <5>1. i + 1 \in 2 .. n /\ h[i] = g[i]
            BY <2>7, <4>2, <3>1, <1>1
          <5>2. QED
            BY <5>1, <2>5, <3>1, <3>2
        <4>3. QED
          BY <4>1, <4>2
      <3>4. QED
        BY <3>1, <3>3
    <2>8. \A i \in 0 .. n : i \in T
      <3> HIDE DEF T, n
      <3> QED
        BY <1>1, <2>6, <2>7, Induction
    <2>9. h[n] = g[n]
      BY <2>8, <1>1, <1>7
    <2>10. QED
      BY <2>4, <2>9, <1>5
  <1>8. QED
    BY <1>6, <1>7

LEMMA PlaceWithin ==
  ASSUME NEW a \in Nat, NEW len \in Nat, NEW b, b = a + len, NEW c \in Nat, b <= c, NEW k \in 1 .. len
  PROVE  a + k \in 1 .. c
  OBVIOUS

\* One part more.
LEMMA LaidMore ==
  ASSUME NEW S, NEW ss \in Seq(Seq(S)), NEW at, Parts(ss, at),
         NEW m \in 0 .. (Len(ss) - 1), NEW t \in Seq(S), Laid(ss, at, t, m)
  PROVE  Laid(ss, at, t \o ss[m + 1], m + 1)
  <1>1. PICK n \in Nat : n = Len(ss)
    OBVIOUS
  <1>2. m + 1 \in 1 .. n /\ (m + 1) - 1 = m /\ m \in 0 .. n
    BY <1>1
  <1>3. \A i \in 1 .. n : ss[i] \in Seq(S) /\ Len(ss[i]) \in Nat
    BY <1>1
  <1>4. \A i \in 1 .. n : at[i] = at[i - 1] + Len(ss[i]) /\ at[i - 1] \in Nat /\ at[i] \in Nat
    <2>1. at \in [0 .. n -> Nat] /\ \A i \in 1 .. n : at[i] = at[i - 1] + Len(ss[i])
      BY <1>1 DEF Parts
    <2>2. \A i \in 1 .. n : i - 1 \in 0 .. n /\ i \in 0 .. n
      OBVIOUS
    <2>3. QED
      BY <2>1, <2>2, Zenon
  <1>5. ss[m + 1] \in Seq(S) /\ at[m + 1] = at[m] + Len(ss[m + 1]) /\ at[m] \in Nat
    BY <1>2, <1>3, <1>4
  <1>6. Len(t) = at[m]
    BY DEF Laid
  <1> DEFINE u == t \o ss[m + 1]
  <1>7. /\ Len(u) = at[m + 1]
        /\ \A k \in 1 .. at[m] : u[k] = t[k]
        /\ \A k \in 1 .. Len(ss[m + 1]) : u[at[m] + k] = ss[m + 1][k]
    <2>1. Len(u) = Len(t) + Len(ss[m + 1])
      BY <1>5, Concatenated
    <2>2. \A k \in 1 .. Len(t) : u[k] = t[k]
      BY <1>5, Concatenated
    <2>3. \A k \in 1 .. Len(ss[m + 1]) : u[Len(t) + k] = ss[m + 1][k]
      BY <1>5, Concatenated
    <2>4. QED
      <3> HIDE DEF u
      <3> QED
        BY <1>5, <1>6, <2>1, <2>2, <2>3, Zenon
  <1> HIDE DEF u
  <1>8. ASSUME NEW i \in 1 .. (m + 1), NEW k \in 1 .. Len(ss[i])
        PROVE  u[at[i - 1] + k] = ss[i][k]
    <2>1. CASE i = m + 1
      BY <2>1, <1>7, <1>2
    <2>2. CASE i \in 1 .. m
      <3>1. at[i] <= at[m] /\ t[at[i - 1] + k] = ss[i][k]
        BY <2>2 DEF Laid
      <3>2. i \in 1 .. n
        BY <2>2, <1>2
      <3>3. at[i] = at[i - 1] + Len(ss[i]) /\ at[i - 1] \in Nat /\ Len(ss[i]) \in Nat
        BY <3>2, <1>3, <1>4
      <3>4. at[i - 1] + k \in 1 .. at[m]
        BY <3>1, <3>3, <1>5, PlaceWithin
      <3>5. QED
        BY <3>1, <3>4, <1>7
    <2>3. QED
      BY <2>1, <2>2, <1>2
  <1>9. ASSUME NEW i \in 1 .. (m + 1)
        PROVE  at[i] <= at[m + 1]
    <2>1. CASE i = m + 1
      BY <2>1, <1>2, <1>4
    <2>2. CASE i \in 1 .. m
      <3>1. at[i] <= at[m] /\ i \in 1 .. n
        BY <2>2, <1>2 DEF Laid
      <3>2. at[i] \in Nat /\ Len(ss[m + 1]) \in Nat
        BY <3>1, <1>2, <1>3, <1>4
      <3>3. QED
        BY <3>1, <3>2, <1>5
    <2>3. QED
      BY <2>1, <2>2, <1>2
  <1>10. QED
    BY <1>7, <1>8, <1>9 DEF Laid, u

\* The parts of a flattened sequence are found in it one behind the other.
LEMMA Flattened ==
  ASSUME NEW S, NEW ss \in Seq(Seq(S))
  PROVE  /\ FlattenSeq(ss) \in Seq(S)
         /\ \E at : Parts(ss, at) /\ Laid(ss, at, FlattenSeq(ss), Len(ss))
  <1>1. PICK n \in Nat : n = Len(ss)
    OBVIOUS
  <1>2. PICK g \in [0 .. n -> Seq(S)] : Joins(ss, g) /\ FlattenSeq(ss) = g[n]
    BY <1>1, FlattenJoins
  <1> DEFINE at == [i \in 0 .. n |-> Len(g[i])]
  <1>3. Parts(ss, at)
    <2>1. at \in [0 .. n -> Nat] /\ at[0] = 0
      BY <1>2 DEF Joins
    <2>2. ASSUME NEW i \in 1 .. n PROVE at[i] = at[i - 1] + Len(ss[i])
      <3>1. i - 1 \in 0 .. n /\ i \in 0 .. n /\ ss[i] \in Seq(S)
        BY <1>1
      <3>2. g[i - 1] \in Seq(S) /\ g[i] = g[i - 1] \o ss[i]
        BY <3>1, <1>1, <1>2 DEF Joins
      <3>3. Len(g[i]) = Len(g[i - 1]) + Len(ss[i])
        BY <3>1, <3>2, Concatenated
      <3>4. QED
        BY <3>1, <3>3
    <2>3. QED
      <3> HIDE DEF at
      <3> QED
        BY <2>1, <2>2, <1>1 DEF Parts
  <1> DEFINE T == {m \in 0 .. n : Laid(ss, at, g[m], m)}
  <1>4. 0 \in T
    <2>1. Len(g[0]) = at[0] /\ 0 \in 0 .. n
      OBVIOUS
    <2>2. QED
      <3> HIDE DEF at
      <3> QED
        BY <2>1 DEF Laid
  <1>5. ASSUME NEW m \in 0 .. (n - 1), m \in T PROVE m + 1 \in T
    <2> HIDE DEF at
    <2>1. m \in 0 .. (Len(ss) - 1) /\ m \in 0 .. n /\ m + 1 \in 0 .. n /\ m + 1 \in 1 .. Len(ss) /\ (m + 1) - 1 = m
      BY <1>1
    <2>2. g[m] \in Seq(S) /\ g[m + 1] = g[m] \o ss[m + 1]
      BY <2>1, <1>2 DEF Joins
    <2>3. Laid(ss, at, g[m], m)
      BY <1>5
    <2>4. Laid(ss, at, g[m] \o ss[m + 1], m + 1)
      BY <1>3, <2>1, <2>2, <2>3, LaidMore
    <2>5. QED
      BY <2>1, <2>2, <2>4
  <1>6. \A m \in 0 .. n : m \in T
    <2> HIDE DEF T
    <2> QED
      BY <1>4, <1>5, Induction
  <1>7. QED
    <2> HIDE DEF at
    <2>1. Laid(ss, at, g[n], n) /\ g[n] \in Seq(S)
      BY <1>6
    <2>2. QED
      BY <1>1, <1>2, <1>3, <2>1

-----------------------------------------------------------------------------
(* The words of a descriptor.  A word is put together from pieces, and a   *)
(* piece is read back from where it was put because the others stay clear  *)
(* of it.                                                                  *)

\* The numbers of one line, as PB_FIELDINFO gets them.
Declarations ==
  [tag : Nat, type : Nat, data_offset : Nat, data_size : Nat, size_offset : Nat, array_size : Nat]

\* The n bits from first on are those of the number; none of them is set.
Holds(w, first, n, number) ==
  /\ w \in SUBSET Int
  /\ \A x \in Int : x >= 0 /\ x < n => (x + first \in w <=> x \in Bits(number))
Clear(w, first, n) ==
  /\ w \in SUBSET Int
  /\ \A x \in w : x < first \/ x >= first + n

LEMMA LowShrBit ==
  ASSUME NEW w \in SUBSET Int, NEW first \in Nat, NEW n \in Nat, NEW x
  PROVE  x \in Low(Shr(w, first), n) <=> x \in Int /\ 0 <= x /\ x < n /\ x + first \in w
  BY LowBit, ShrBit

LEMMA BitsInt ==
  ASSUME NEW n
  PROVE  Bits(n) \in SUBSET Int
  BY DEF Bits

LEMMA HoldsPiece ==
  ASSUME NEW first \in Nat, NEW n \in Nat, NEW number
  PROVE  Holds(Shl(Bits(number), first), first, n, number)
  <1>1. \A x : x \in Shl(Bits(number), first) <=> x \in Int /\ x - first \in Bits(number)
    BY BitsInt, ShlBit
  <1>2. Shl(Bits(number), first) \in SUBSET Int
    BY <1>1
  <1>3. \A x \in Int : (x + first) - first = x
    OBVIOUS
  <1>4. QED
    BY <1>1, <1>2, <1>3 DEF Holds

LEMMA HoldsBits ==
  ASSUME NEW n \in Nat, NEW number
  PROVE  Holds(Bits(number), 0, n, number)
  BY BitsInt DEF Holds

LEMMA HoldsMore ==
  ASSUME NEW first \in Nat, NEW n \in Nat, NEW number, NEW w, Holds(w, first, n, number),
         NEW r, Clear(r, first, n)
  PROVE  Holds(w \cup r, first, n, number) /\ Holds(r \cup w, first, n, number)
  <1>1. ASSUME NEW x \in Int, x >= 0 /\ x < n PROVE x + first \notin r
    BY <1>1 DEF Clear
  <1>2. w \cup r \in SUBSET Int /\ r \cup w \in SUBSET Int
    BY DEF Clear, Holds
  <1>3. QED
    BY <1>1, <1>2 DEF Holds

LEMMA ClearPiece ==
  ASSUME NEW k \in 0 .. 31, NEW number \in Nat, number < 2 ^ k, NEW at \in Nat,
         NEW first \in Nat, NEW n \in Nat, at + k <= first \/ at >= first + n
  PROVE  Clear(Shl(Bits(number), at), first, n)
  <1>1. Bits(number) \in SUBSET (0 .. (k - 1))
    BY BitsBelow
  <1>2. \A x : x \in Shl(Bits(number), at) <=> x \in Int /\ x - at \in Bits(number)
    BY BitsInt, ShlBit
  <1>3. ASSUME NEW x \in Shl(Bits(number), at) PROVE x \in Int /\ (x < first \/ x >= first + n)
    <2>1. x \in Int /\ x - at >= 0 /\ x - at <= k - 1
      BY <1>1, <1>2
    <2>2. QED
      BY <2>1
  <1>4. QED
    BY <1>3 DEF Clear

\* A piece of k bits put into a word at some place.
Put(w, at, k, number) ==
  /\ Holds(w, at, k, number)
  /\ \A first \in Nat, n \in Nat : at + k <= first \/ at >= first + n => Clear(w, first, n)

LEMMA PiecePut ==
  ASSUME NEW k \in 0 .. 31, NEW number \in Nat, number < 2 ^ k, NEW at \in Nat
  PROVE  Put(Shl(Bits(number), at), at, k, number)
  <1>1. Holds(Shl(Bits(number), at), at, k, number)
    BY HoldsPiece
  <1>2. ASSUME NEW first \in Nat, NEW n \in Nat, at + k <= first \/ at >= first + n
        PROVE  Clear(Shl(Bits(number), at), first, n)
    BY <1>2, ClearPiece
  <1>3. QED
    BY <1>1, <1>2 DEF Put

LEMMA ClearBits ==
  ASSUME NEW k \in 0 .. 31, NEW number \in Nat, number < 2 ^ k, NEW first \in Nat, NEW n \in Nat, k <= first
  PROVE  Clear(Bits(number), first, n)
  <1>1. Bits(number) \in SUBSET (0 .. (k - 1))
    BY BitsBelow
  <1>2. QED
    BY <1>1 DEF Clear

LEMMA ClearBoth ==
  ASSUME NEW first, NEW n, NEW a, NEW b, Clear(a, first, n), Clear(b, first, n)
  PROVE  Clear(a \cup b, first, n)
  <1>1. a \cup b \in SUBSET Int
    BY DEF Clear
  <1>2. QED
    BY <1>1 DEF Clear

LEMMA HeldRead ==
  ASSUME NEW first \in Nat, NEW n \in 0 .. 31, NEW number \in Nat, number < 2 ^ n,
         NEW w, Holds(w, first, n, number)
  PROVE  /\ Low(Shr(w, first), n) = Bits(number)
         /\ Field(w, first, n) = number
         /\ Num(Bits(number)) = number
         /\ Low(Bits(number), n) = Bits(number)
  <1>1. Bits(number) \in SUBSET (0 .. (n - 1))
    BY BitsBelow
  <1>2. w \in SUBSET Int /\ n \in Nat
    BY DEF Holds
  <1>3. ASSUME NEW x PROVE x \in Low(Shr(w, first), n) <=> x \in Bits(number)
    <2>1. x \in Low(Shr(w, first), n) <=> x \in Int /\ 0 <= x /\ x < n /\ x + first \in w
      BY <1>2, LowShrBit
    <2>2. x \in Int /\ x >= 0 /\ x < n => (x + first \in w <=> x \in Bits(number))
      BY DEF Holds
    <2>3. x \in Bits(number) => x \in Int /\ 0 <= x /\ x < n
      BY <1>1
    <2>4. QED
      BY <2>1, <2>2, <2>3
  <1>4. Low(Shr(w, first), n) = Bits(number)
    BY <1>3
  <1>5. Num(Bits(number)) = number
    <2>1. n \in 0 .. 31 /\ 31 \in n .. 31
      OBVIOUS
    <2>2. 2 ^ n \in Nat \ {0} /\ 2 ^ 31 \in Nat \ {0} /\ 2 ^ n <= 2 ^ 31
      BY <2>1, PowersGrow
    <2>3. number < 2 ^ 31
      BY <2>2
    <2>4. QED
      BY <2>3, NumBits
  <1>6. Low(Bits(number), n) = Bits(number)
    BY <1>1, LowAll
  <1>7. QED
    BY <1>4, <1>5, <1>6 DEF Field

-----------------------------------------------------------------------------
(* The first word: how many words there are, the low bits of the tag and   *)
(* the type, in the lower half.                                            *)

LEMMA WordHalf ==
  ASSUME NEW len \in 0 .. 3, NEW d \in Declarations, d.type < 256
  PROVE  \A x : x \in Word0(len, d) <=>
           \/ x \in Bits(len)
           \/ x \in Int /\ 0 <= x /\ x < 8 /\ x - 2 \in Bits(d.tag)
           \/ x \in Int /\ x - 8 \in Bits(d.type)
  <1>1. \A x : x \in Low(Shl(Bits(d.tag), 2), 8) <=> x \in Int /\ 0 <= x /\ x < 8 /\ x - 2 \in Bits(d.tag)
    BY BitsInt, ShlBit, LowBit
  <1>2. \A x : x \in Shl(Bits(d.type), 8) <=> x \in Int /\ x - 8 \in Bits(d.type)
    BY BitsInt, ShlBit
  <1>3. QED
    BY <1>1, <1>2 DEF Word0

LEMMA FirstWord ==
  ASSUME NEW len \in 0 .. 3, NEW d \in Declarations, d.type < 256, NEW r, Clear(r, 0, 16),
         NEW w, w = Word0(len, d) \cup r
  PROVE  /\ Field(w, 0, 2) = len
         /\ Field(w, 8, 8) = d.type
         /\ Low(Shr(w, 2), 6) = Low(Bits(d.tag), 6)
         /\ w \in SUBSET Int
  <1>1. 2 ^ 2 = 4 /\ 2 ^ 8 = 256 /\ len \in Nat /\ d.type \in Nat
    BY DEF Declarations
  <1>2. Bits(len) \in SUBSET (0 .. 1) /\ Bits(d.type) \in SUBSET (0 .. 7)
    <2>1. Bits(len) \in SUBSET (0 .. (2 - 1)) /\ Bits(d.type) \in SUBSET (0 .. (8 - 1))
      BY <1>1, BitsBelow
    <2>2. QED
      BY <2>1
  <1>3. Bits(d.tag) \in SUBSET Nat
    BY DEF Bits
  <1>4. r \in SUBSET Int /\ \A x \in r : x < 0 \/ x >= 16
    BY DEF Clear
  <1>5. \A x : x \in w <=> \/ x \in Bits(len) \/ x \in r
                           \/ x \in Int /\ 0 <= x /\ x < 8 /\ x - 2 \in Bits(d.tag)
                           \/ x \in Int /\ x - 8 \in Bits(d.type)
    BY WordHalf
  <1>6. w \in SUBSET Int
    <2>1. ASSUME NEW x \in w PROVE x \in Int
      <3>1. Bits(len) \in SUBSET Int
        BY BitsInt
      <3>2. QED
        BY <1>4, <1>5, <3>1
    <2>2. QED
      BY <2>1, Zenon
  <1>7. Holds(w, 0, 2, len)
    BY <1>2, <1>3, <1>4, <1>5, <1>6 DEF Holds
  <1>8. Holds(w, 8, 8, d.type)
    BY <1>2, <1>3, <1>4, <1>5, <1>6 DEF Holds
  <1>9. Low(Shr(w, 2), 6) = Low(Bits(d.tag), 6)
    <2>1. ASSUME NEW x PROVE x \in Low(Shr(w, 2), 6) <=> x \in Low(Bits(d.tag), 6)
      <3>1. x \in Low(Shr(w, 2), 6) <=> x \in Int /\ 0 <= x /\ x < 6 /\ x + 2 \in w
        BY <1>6, LowShrBit
      <3>2. x \in Low(Bits(d.tag), 6) <=> x \in Bits(d.tag) /\ x \in Int /\ 0 <= x /\ x < 6
        BY LowBit
      <3>3. QED
        BY <1>2, <1>4, <1>5, <3>1, <3>2
    <2>2. QED
      BY <2>1
  <1>10. Field(w, 0, 2) = len /\ Field(w, 8, 8) = d.type
    <2>1. 2 \in 0 .. 31 /\ 8 \in 0 .. 31 /\ len < 2 ^ 2 /\ d.type < 2 ^ 8
      BY <1>1
    <2>2. QED
      BY <1>1, <1>7, <1>8, <2>1, HeldRead
  <1>11. QED
    BY <1>6, <1>9, <1>10

\* The lower half is clear of the upper.
LEMMA WordClear ==
  ASSUME NEW len \in 0 .. 3, NEW d \in Declarations, d.type < 256, NEW first \in Nat, first >= 16, NEW n \in Nat
  PROVE  Clear(Word0(len, d), first, n)
  <1>1. 2 ^ 2 = 4 /\ 2 ^ 8 = 256 /\ len \in Nat /\ d.type \in Nat
    BY DEF Declarations
  <1>2. Bits(len) \in SUBSET (0 .. 1) /\ Bits(d.type) \in SUBSET (0 .. 7)
    <2>1. Bits(len) \in SUBSET (0 .. (2 - 1)) /\ Bits(d.type) \in SUBSET (0 .. (8 - 1))
      BY <1>1, BitsBelow
    <2>2. QED
      BY <2>1
  <1>3. \A x \in Word0(len, d) : x \in Int /\ x < 16
    BY <1>2, WordHalf
  <1>4. Word0(len, d) \in SUBSET Int
    BY <1>3, Zenon
  <1>5. QED
    BY <1>3, <1>4 DEF Clear

LEMMA DeclarationNumbers ==
  ASSUME NEW d \in Declarations
  PROVE  /\ d.tag \in Nat /\ d.type \in Nat /\ d.data_offset \in Nat /\ d.data_size \in Nat
         /\ d.size_offset \in Nat /\ d.array_size \in Nat
  BY DEF Declarations

\* A number with few bits, cut to them.
LEMMA CutToFit ==
  ASSUME NEW n \in 0 .. 31, NEW number \in Nat, number < 2 ^ n
  PROVE  Low(Bits(number), n) = Bits(number) /\ Num(Bits(number)) = number
  <1>1. Holds(Bits(number), 0, n, number)
    BY HoldsBits
  <1>2. QED
    BY <1>1, HeldRead

\* One word: the tag below 64, the offset below 256, the rest below 16.
LEMMA WordsOf1 ==
  ASSUME NEW d \in Declarations, d.type < 256, d.array_size # 0, Fits(1, d), NEW w, FieldInfo1(d) = <<w>>
  PROVE  /\ Field(w, 0, 2) = 0 /\ Field(w, 8, 8) = d.type
         /\ Low(Shr(w, 2), 6) = Low(Bits(d.tag), 6) /\ Num(Low(Shr(w, 2), 6)) = d.tag
         /\ Field(w, 16, 8) = d.data_offset /\ Field(w, 24, 4) = d.size_offset
         /\ Field(w, 28, 4) = d.data_size /\ d.array_size = 1
  <1>1. /\ d.tag < 2 ^ 6 /\ d.data_offset < 2 ^ 8 /\ d.size_offset < 2 ^ 4 /\ d.data_size < 2 ^ 4
        /\ d.array_size < 2 ^ 1
    BY DEF Fits
  <1>2. d.array_size = 1
    BY <1>1, DeclarationNumbers
  <1>3. /\ Low(Bits(d.tag), 6) = Bits(d.tag) /\ Num(Bits(d.tag)) = d.tag
        /\ Low(Bits(d.data_offset), 8) = Bits(d.data_offset)
        /\ Low(Bits(d.size_offset), 4) = Bits(d.size_offset)
        /\ Low(Bits(d.data_size), 4) = Bits(d.data_size)
    BY <1>1, DeclarationNumbers, CutToFit
  <1> DEFINE a == Shl(Bits(d.data_offset), 16)
             b == Shl(Bits(d.size_offset), 24)
             c == Shl(Bits(d.data_size), 28)
             h == Word0(0, d)
  <1>4. w = h \cup a \cup b \cup c
    BY <1>3 DEF FieldInfo1
  <1>5. Put(a, 16, 8, d.data_offset) /\ Put(b, 24, 4, d.size_offset) /\ Put(c, 28, 4, d.data_size)
    BY <1>1, DeclarationNumbers, PiecePut
  <1> HIDE DEF a, b, c
  <1>6. /\ Clear(a, 0, 16) /\ Clear(a, 24, 4) /\ Clear(a, 28, 4) /\ Holds(a, 16, 8, d.data_offset)
        /\ Clear(b, 0, 16) /\ Clear(b, 16, 8) /\ Clear(b, 28, 4) /\ Holds(b, 24, 4, d.size_offset)
        /\ Clear(c, 0, 16) /\ Clear(c, 16, 8) /\ Clear(c, 24, 4) /\ Holds(c, 28, 4, d.data_size)
    <2>1. Clear(a, 0, 16) /\ Clear(a, 24, 4) /\ Clear(a, 28, 4) /\ Holds(a, 16, 8, d.data_offset)
      <3>1. Holds(a, 16, 8, d.data_offset)
        BY <1>5 DEF Put
      <3>2. \A first \in Nat, n \in Nat : 16 + 8 <= first \/ 16 >= first + n => Clear(a, first, n)
        BY <1>5 DEF Put
      <3>3. 16 >= 0 + 16 /\ 16 + 8 <= 24 /\ 16 + 8 <= 28
        OBVIOUS
      <3>4. QED
        BY <3>1, <3>2, <3>3
    <2>2. Clear(b, 0, 16) /\ Clear(b, 16, 8) /\ Clear(b, 28, 4) /\ Holds(b, 24, 4, d.size_offset)
      BY <1>5 DEF Put
    <2>3. Clear(c, 0, 16) /\ Clear(c, 16, 8) /\ Clear(c, 24, 4) /\ Holds(c, 28, 4, d.data_size)
      BY <1>5 DEF Put
    <2>4. QED
      BY <2>1, <2>2, <2>3
  <1>7. Clear(h, 16, 8) /\ Clear(h, 24, 4) /\ Clear(h, 28, 4)
    BY WordClear
  <1>8. /\ Field(w, 0, 2) = 0 /\ Field(w, 8, 8) = d.type /\ Low(Shr(w, 2), 6) = Low(Bits(d.tag), 6)
    <2>1. Clear(a \cup b \cup c, 0, 16)
      BY <1>6, ClearBoth
    <2>2. w = Word0(0, d) \cup (a \cup b \cup c)
      BY <1>4
    <2>3. QED
      BY <2>1, <2>2, FirstWord
  <1> HIDE DEF h
  <1>9. Holds(w, 16, 8, d.data_offset) /\ Holds(w, 24, 4, d.size_offset) /\ Holds(w, 28, 4, d.data_size)
    <2>1. Holds(h \cup a, 16, 8, d.data_offset)
      BY <1>6, <1>7, HoldsMore
    <2>2. Holds(h \cup a \cup b, 16, 8, d.data_offset)
      BY <1>6, <2>1, HoldsMore
    <2>3. Holds(h \cup a \cup b \cup c, 16, 8, d.data_offset)
      BY <1>6, <2>2, HoldsMore
    <2>4. Clear(h \cup a, 24, 4) /\ Clear(h \cup a, 28, 4)
      BY <1>6, <1>7, ClearBoth
    <2>5. Holds(h \cup a \cup b, 24, 4, d.size_offset) /\ Clear(h \cup a \cup b, 28, 4)
      BY <1>6, <2>4, HoldsMore, ClearBoth
    <2>6. Holds(h \cup a \cup b \cup c, 24, 4, d.size_offset) /\ Holds(h \cup a \cup b \cup c, 28, 4, d.data_size)
      BY <1>6, <2>5, HoldsMore
    <2>7. QED
      BY <1>4, <2>3, <2>6
  <1>10. Field(w, 16, 8) = d.data_offset /\ Field(w, 24, 4) = d.size_offset /\ Field(w, 28, 4) = d.data_size
    BY <1>1, <1>9, DeclarationNumbers, HeldRead
  <1>11. QED
    BY <1>2, <1>3, <1>8, <1>10

\* The bits of a tag from the sixth on, put behind the first six.
LEMMA TagTogether ==
  ASSUME NEW v \in SUBSET Nat, NEW low, low = Low(v, 6), NEW high \in SUBSET Nat,
         \A x \in Nat : x \in high <=> x + 6 \in v
  PROVE  low \cup Shl(high, 6) = v
  <1>1. \A x : x \in low <=> x \in v /\ x \in Int /\ 0 <= x /\ x < 6
    BY LowBit
  <1>2. \A x : x \in Shl(high, 6) <=> x \in Int /\ x - 6 \in high
    BY ShlBit
  <1>3. ASSUME NEW x PROVE x \in low \cup Shl(high, 6) <=> x \in v
    <2>1. CASE x \in Nat /\ x >= 6
      <3>1. x - 6 \in Nat /\ (x - 6) + 6 = x
        BY <2>1
      <3>2. x - 6 \in high <=> x \in v
        BY <3>1
      <3>3. QED
        BY <1>1, <1>2, <2>1, <3>2
    <2>2. CASE ~(x \in Nat /\ x >= 6)
      <3>1. x \notin Shl(high, 6)
        <4>1. SUFFICES ASSUME x \in Shl(high, 6) PROVE FALSE
          OBVIOUS
        <4>2. x \in Int /\ x - 6 \in Nat
          BY <1>2, <4>1
        <4>3. QED
          BY <2>2, <4>2
      <3>2. x \in v => x \in Int /\ 0 <= x /\ x < 6
        BY <2>2
      <3>3. QED
        BY <1>1, <3>1, <3>2
    <2>3. QED
      BY <2>1, <2>2
  <1>4. QED
    BY <1>3

\* Two words: the tag below 1024, the offset below 65536, the size of the
\* prefix below 16, the size and the length of an array below 4096.
LEMMA WordsOf2 ==
  ASSUME NEW d \in Declarations, d.type < 256, Fits(2, d), NEW w, NEW y, FieldInfo2(d) = <<w, y>>
  PROVE  /\ Field(w, 0, 2) = 1 /\ Field(w, 8, 8) = d.type
         /\ Low(Shr(w, 2), 6) = Low(Bits(d.tag), 6)
         /\ Num(Low(Shr(w, 2), 6) \cup Shl(Shr(y, 28), 6)) = d.tag
         /\ Field(y, 0, 16) = d.data_offset /\ Field(w, 28, 4) = d.size_offset
         /\ Field(y, 16, 12) = d.data_size /\ Field(w, 16, 12) = d.array_size
  <1>1. /\ d.tag < 2 ^ 10 /\ d.data_offset < 2 ^ 16 /\ d.size_offset < 2 ^ 4 /\ d.data_size < 2 ^ 12
        /\ d.array_size < 2 ^ 12
    BY DEF Fits
  <1>2. /\ Num(Bits(d.tag)) = d.tag
        /\ Low(Bits(d.data_offset), 16) = Bits(d.data_offset)
        /\ Low(Bits(d.size_offset), 4) = Bits(d.size_offset)
        /\ Low(Bits(d.data_size), 12) = Bits(d.data_size)
        /\ Low(Bits(d.array_size), 12) = Bits(d.array_size)
    BY <1>1, DeclarationNumbers, CutToFit
  <1> DEFINE a == Shl(Bits(d.array_size), 16)
             b == Shl(Bits(d.size_offset), 28)
             h == Word0(1, d)
             o == Bits(d.data_offset)
             s == Shl(Bits(d.data_size), 16)
             t == Shl(Bits(d.tag) \cap 6 .. 9, 22)
  <1>3. w = h \cup a \cup b /\ y = o \cup s \cup t
    BY <1>2 DEF FieldInfo2
  <1>4. Put(a, 16, 12, d.array_size) /\ Put(b, 28, 4, d.size_offset) /\ Put(s, 16, 12, d.data_size)
    BY <1>1, DeclarationNumbers, PiecePut
  <1>5. Clear(h, 16, 12) /\ Clear(h, 28, 4)
    BY WordClear
  <1>6. Holds(o, 0, 16, d.data_offset) /\ Clear(o, 16, 12)
    <2>1. 16 \in 0 .. 31 /\ 16 <= 16
      OBVIOUS
    <2>2. QED
      BY <1>1, <2>1, DeclarationNumbers, HoldsBits, ClearBits
  <1>7. \A x : x \in t <=> x \in Int /\ x - 22 \in Bits(d.tag) /\ x - 22 \in 6 .. 9
    <2>1. Bits(d.tag) \cap 6 .. 9 \in SUBSET Int
      OBVIOUS
    <2>2. QED
      BY <2>1, ShlBit
  <1>8. \A x \in o : x \in 0 .. 15
    <2>1. Bits(d.data_offset) \in SUBSET (0 .. (16 - 1))
      BY <1>1, DeclarationNumbers, BitsBelow
    <2>2. QED
      BY <2>1
  <1>9. \A x \in s : x \in Int /\ x < 28
    <2>1. \A x : x \in s <=> x \in Int /\ x - 16 \in Bits(d.data_size)
      BY BitsInt, ShlBit
    <2>2. Bits(d.data_size) \in SUBSET (0 .. (12 - 1))
      BY <1>1, DeclarationNumbers, BitsBelow
    <2> HIDE DEF s
    <2>3. QED
      BY <2>1, <2>2
  <1>10. y \in SUBSET Int
    <2>1. ASSUME NEW x \in y PROVE x \in Int
      <3> HIDE DEF o, s, t
      <3>1. x \in o \/ x \in s \/ x \in t
        BY <1>3
      <3>2. QED
        BY <1>7, <1>8, <1>9, <3>1
    <2>2. QED
      BY <2>1, Zenon
  <1>11. Low(Shr(w, 2), 6) \cup Shl(Shr(y, 28), 6) = Bits(d.tag) /\ Low(Shr(w, 2), 6) = Low(Bits(d.tag), 6)
         /\ Field(w, 0, 2) = 1 /\ Field(w, 8, 8) = d.type
    <2>1. Clear(a, 0, 16) /\ Clear(b, 0, 16)
      BY <1>4 DEF Put
    <2>2. Clear(a \cup b, 0, 16) /\ w = Word0(1, d) \cup (a \cup b)
      BY <1>3, <2>1, ClearBoth
    <2>3. Field(w, 0, 2) = 1 /\ Field(w, 8, 8) = d.type /\ Low(Shr(w, 2), 6) = Low(Bits(d.tag), 6)
      BY <2>2, FirstWord
    <2>4. \A x : x \in Shr(y, 28) <=> x \in Int /\ 0 <= x /\ x + 28 \in y
      BY <1>10, ShrBit
    <2>5. Bits(d.tag) \in SUBSET (0 .. (10 - 1))
      BY <1>1, DeclarationNumbers, BitsBelow
    <2>6. \A x \in Nat : x \in Shr(y, 28) <=> x + 6 \in Bits(d.tag)
      <3>1. ASSUME NEW x \in Nat PROVE x + 28 \in y <=> x + 6 \in Bits(d.tag)
        <4>1. x + 28 \in Int /\ (x + 28) - 22 = x + 6 /\ x + 28 \notin 0 .. 15 /\ ~(x + 28 < 28)
          OBVIOUS
        <4>2. x + 28 \notin o /\ x + 28 \notin s
          BY <1>8, <1>9, <4>1
        <4>3. x + 28 \in t <=> x + 6 \in Bits(d.tag) /\ x + 6 \in 6 .. 9
          BY <1>7, <4>1
        <4>4. x + 6 \in Bits(d.tag) => x + 6 \in 6 .. 9
          BY <2>5
        <4>5. QED
          BY <1>3, <4>2, <4>3, <4>4, Zenon
      <3>2. QED
        BY <2>4, <3>1
    <2>7. Shr(y, 28) \in SUBSET Nat /\ Bits(d.tag) \in SUBSET Nat
      BY <2>4, <2>5
    <2>8. Low(Shr(w, 2), 6) \cup Shl(Shr(y, 28), 6) = Bits(d.tag)
      <3> HIDE DEF a, b, h, o, s, t
      <3>1. Low(Shr(w, 2), 6) = Low(Bits(d.tag), 6)
        BY <2>3
      <3> DEFINE high == Shr(y, 28)
                 low == Low(Shr(w, 2), 6)
                 v == Bits(d.tag)
      <3>2. v \in SUBSET Nat /\ low = Low(v, 6) /\ high \in SUBSET Nat /\ \A x \in Nat : x \in high <=> x + 6 \in v
        BY <2>6, <2>7, <3>1
      <3> HIDE DEF high, low, v
      <3>3. low \cup Shl(high, 6) = v
        BY <3>2, TagTogether
      <3>4. QED
        BY <3>3 DEF high, low, v
    <2>9. QED
      BY <2>3, <2>8, Zenon
  <1> HIDE DEF a, b, h, o, s, t
  <1>12. Holds(w, 16, 12, d.array_size) /\ Holds(w, 28, 4, d.size_offset)
    <2>1. Clear(b, 16, 12) /\ Clear(a, 28, 4) /\ Holds(a, 16, 12, d.array_size) /\ Holds(b, 28, 4, d.size_offset)
      BY <1>4 DEF Put
    <2>2. Holds(h \cup a, 16, 12, d.array_size) /\ Clear(h \cup a, 28, 4)
      BY <1>5, <2>1, HoldsMore, ClearBoth
    <2>3. QED
      BY <1>3, <2>1, <2>2, HoldsMore
  <1>13. Holds(y, 0, 16, d.data_offset) /\ Holds(y, 16, 12, d.data_size)
    <2>1. Clear(s, 0, 16) /\ Holds(s, 16, 12, d.data_size)
      BY <1>4 DEF Put
    <2>2. Clear(t, 0, 16) /\ Clear(t, 16, 12)
      <3>1. ASSUME NEW x \in t PROVE x \in Int /\ x >= 28
        BY <1>7
      <3>2. t \in SUBSET Int
        BY <3>1, Zenon
      <3>3. QED
        BY <3>1, <3>2 DEF Clear
    <2>3. Holds(o \cup s, 0, 16, d.data_offset) /\ Holds(o \cup s, 16, 12, d.data_size)
      BY <1>6, <2>1, HoldsMore
    <2>4. QED
      BY <1>3, <2>2, <2>3, HoldsMore
  <1>14. /\ Field(y, 0, 16) = d.data_offset /\ Field(w, 28, 4) = d.size_offset
         /\ Field(y, 16, 12) = d.data_size /\ Field(w, 16, 12) = d.array_size
    <2>1. 16 \in 0 .. 31 /\ 12 \in 0 .. 31 /\ 4 \in 0 .. 31
      OBVIOUS
    <2>2. QED
      BY <1>1, <1>12, <1>13, <2>1, DeclarationNumbers, HeldRead
  <1>15. QED
    BY <1>2, <1>11, <1>14, Zenon

\* The word with the size of the prefix and the bits of the tag from the sixth on.
LEMMA TagWord ==
  ASSUME NEW d \in Declarations, d.tag < 2 ^ 16, d.size_offset < 2 ^ 7, NEW w,
         Low(Shr(w, 2), 6) = Low(Bits(d.tag), 6), NEW y, y = TagAndSize(d)
  PROVE  /\ Num(Low(Shr(w, 2), 6) \cup Shl(Shr(y, 8), 6)) = d.tag
         /\ Field(y, 0, 8) = d.size_offset
  <1>1. Bits(d.tag) \in SUBSET (0 .. (16 - 1)) /\ Bits(d.size_offset) \in SUBSET (0 .. (7 - 1))
    <2>1. 16 \in 0 .. 31 /\ 7 \in 0 .. 31
      OBVIOUS
    <2>2. QED
      BY <2>1, DeclarationNumbers, BitsBelow
  <1>2. \A x : x \in y <=> x \in Bits(d.size_offset) \/ (x \in Int /\ x - 2 \in Bits(d.tag) /\ x \notin 0 .. 7)
    <2>1. \A x : x \in Shl(Bits(d.tag), 2) <=> x \in Int /\ x - 2 \in Bits(d.tag)
      BY BitsInt, ShlBit
    <2>2. QED
      BY <2>1 DEF TagAndSize
  <1>3. y \in SUBSET Int
    <2>1. ASSUME NEW x \in y PROVE x \in Int
      BY <1>1, <1>2
    <2>2. QED
      BY <2>1, Zenon
  <1>4. \A x : x \in Shr(y, 8) <=> x \in Int /\ 0 <= x /\ x + 8 \in y
    BY <1>3, ShrBit
  <1>5. \A x \in Nat : x \in Shr(y, 8) <=> x + 6 \in Bits(d.tag)
    <2>1. ASSUME NEW x \in Nat PROVE x + 8 \in y <=> x + 6 \in Bits(d.tag)
      <3>1. x + 8 \in Int /\ (x + 8) - 2 = x + 6 /\ x + 8 \notin 0 .. 7 /\ x + 8 \notin 0 .. (7 - 1)
        OBVIOUS
      <3>2. QED
        BY <1>1, <1>2, <3>1
    <2>2. QED
      BY <1>4, <2>1
  <1>6. Low(Shr(w, 2), 6) \cup Shl(Shr(y, 8), 6) = Bits(d.tag)
    <2>1. Shr(y, 8) \in SUBSET Nat /\ Bits(d.tag) \in SUBSET Nat
      BY <1>1, <1>4
    <2>2. QED
      BY <1>5, <2>1, TagTogether
  <1>7. Num(Bits(d.tag)) = d.tag
    <2>1. 16 \in 0 .. 31
      OBVIOUS
    <2>2. QED
      BY <2>1, DeclarationNumbers, CutToFit
  <1>8. Holds(y, 0, 8, d.size_offset)
    <2>1. ASSUME NEW x \in Int, x >= 0 /\ x < 8 PROVE x + 0 \in y <=> x \in Bits(d.size_offset)
      BY <1>2, <2>1
    <2>2. QED
      BY <1>3, <2>1 DEF Holds
  <1>9. Field(y, 0, 8) = d.size_offset
    <2>1. d.size_offset < 2 ^ 8 /\ 8 \in 0 .. 31
      BY DeclarationNumbers
    <2>2. QED
      BY <1>8, <2>1, DeclarationNumbers, HeldRead
  <1>10. QED
    BY <1>6, <1>7, <1>9

\* Four words.
LEMMA WordsOf4 ==
  ASSUME NEW d \in Declarations, d.type < 256, Fits(4, d), NEW w, NEW y, NEW o, NEW s,
         FieldInfo4(d) = <<w, y, o, s>>
  PROVE  /\ Field(w, 0, 2) = 2 /\ Field(w, 8, 8) = d.type
         /\ Low(Shr(w, 2), 6) = Low(Bits(d.tag), 6)
         /\ Num(Low(Shr(w, 2), 6) \cup Shl(Shr(y, 8), 6)) = d.tag
         /\ Num(o) = d.data_offset /\ Field(y, 0, 8) = d.size_offset
         /\ Num(s) = d.data_size /\ Field(w, 16, 16) = d.array_size
  <1>1. /\ d.tag < 2 ^ 16 /\ d.data_offset < 2 ^ 16 /\ d.size_offset < 2 ^ 7 /\ d.data_size < 2 ^ 16
        /\ d.array_size < 2 ^ 16
    BY DEF Fits
  <1>2. /\ Num(Bits(d.data_offset)) = d.data_offset /\ Num(Bits(d.data_size)) = d.data_size
        /\ Low(Bits(d.array_size), 16) = Bits(d.array_size)
    BY <1>1, DeclarationNumbers, CutToFit
  <1> DEFINE a == Shl(Bits(d.array_size), 16)
             h == Word0(2, d)
  <1>3. w = h \cup a /\ y = TagAndSize(d) /\ o = Bits(d.data_offset) /\ s = Bits(d.data_size)
    BY <1>2 DEF FieldInfo4
  <1>4. Put(a, 16, 16, d.array_size)
    BY <1>1, DeclarationNumbers, PiecePut
  <1>5. Clear(a, 0, 16) /\ Holds(a, 16, 16, d.array_size)
    BY <1>4 DEF Put
  <1>6. Field(w, 0, 2) = 2 /\ Field(w, 8, 8) = d.type /\ Low(Shr(w, 2), 6) = Low(Bits(d.tag), 6)
    BY <1>3, <1>5, FirstWord
  <1>7. Clear(h, 16, 16)
    BY WordClear
  <1> HIDE DEF a, h
  <1>8. Holds(w, 16, 16, d.array_size)
    BY <1>3, <1>5, <1>7, HoldsMore
  <1>9. Field(w, 16, 16) = d.array_size
    <2>1. 16 \in 0 .. 31
      OBVIOUS
    <2>2. QED
      BY <1>1, <1>8, <2>1, DeclarationNumbers, HeldRead
  <1>10. /\ Num(Low(Shr(w, 2), 6) \cup Shl(Shr(y, 8), 6)) = d.tag
         /\ Field(y, 0, 8) = d.size_offset
    BY <1>1, <1>3, <1>6, TagWord
  <1>11. QED
    BY <1>2, <1>3, <1>6, <1>9, <1>10, Zenon

\* Eight words, three of them unused.
LEMMA WordsOf8 ==
  ASSUME NEW d \in Declarations, d.type < 256, Fits(8, d), NEW w, NEW y, NEW o, NEW s, NEW n,
         FieldInfo8(d) = <<w, y, o, s, n, {}, {}, {}>>
  PROVE  /\ Field(w, 0, 2) = 3 /\ Field(w, 8, 8) = d.type
         /\ Low(Shr(w, 2), 6) = Low(Bits(d.tag), 6)
         /\ Num(Low(Shr(w, 2), 6) \cup Shl(Shr(y, 8), 6)) = d.tag
         /\ Num(o) = d.data_offset /\ Field(y, 0, 8) = d.size_offset
         /\ Num(s) = d.data_size /\ Num(n) = d.array_size
  <1>1. /\ d.tag < 2 ^ 16 /\ d.data_offset < 2 ^ 16 /\ d.size_offset < 2 ^ 7 /\ d.data_size < 2 ^ 16
        /\ d.array_size < 2 ^ 16
    BY DEF Fits
  <1>2. /\ Num(Bits(d.data_offset)) = d.data_offset /\ Num(Bits(d.data_size)) = d.data_size
        /\ Num(Bits(d.array_size)) = d.array_size
    BY <1>1, DeclarationNumbers, CutToFit
  <1>3. /\ w = Word0(3, d) /\ y = TagAndSize(d) /\ o = Bits(d.data_offset) /\ s = Bits(d.data_size)
        /\ n = Bits(d.array_size)
    BY DEF FieldInfo8
  <1>4. Clear({}, 0, 16) /\ w = Word0(3, d) \cup {}
    BY <1>3 DEF Clear
  <1>5. Field(w, 0, 2) = 3 /\ Field(w, 8, 8) = d.type /\ Low(Shr(w, 2), 6) = Low(Bits(d.tag), 6)
    BY <1>4, FirstWord
  <1>6. /\ Num(Low(Shr(w, 2), 6) \cup Shl(Shr(y, 8), 6)) = d.tag
        /\ Field(y, 0, 8) = d.size_offset
    BY <1>1, <1>3, <1>5, TagWord
  <1>7. QED
    BY <1>2, <1>3, <1>5, <1>6, Zenon

-----------------------------------------------------------------------------
(* The struct and what PB_FIELDINFO is told of it.                         *)

LEMMA LineParts ==
  ASSUME NEW f \in FieldLine
  PROVE  /\ f.htype \in {"REQUIRED", "OPTIONAL", "SINGULAR", "REPEATED"}
         /\ f.ltype \in DOMAIN LTypeMap
         /\ f.tag \in Nat \ {0} /\ f.size \in {1, 2, 4, 8} /\ f.count \in Nat \ {0}
         /\ PrefixSize(f) \in {0, 1, 2}
         /\ PrefixSize(f) = 0 <=> f.htype \in {"REQUIRED", "SINGULAR"}
  BY DEF FieldLine, HType, PrefixSize

\* Aligning goes forward, by less than the size.
LEMMA AlignForward ==
  ASSUME NEW n \in Nat, NEW size \in {1, 2, 4, 8}
  PROVE  Align(n, size) \in Nat /\ n <= Align(n, size)
  BY DEF Align

LEMMA SizeTimes ==
  ASSUME NEW size \in {1, 2, 4, 8}, NEW k \in Nat
  PROVE  size * k \in Nat /\ size * k >= k
  OBVIOUS

Places == [prefix : Nat, at : Nat, end : Nat]

\* A member is laid out behind the one before it, its prefix before its data.
LEMMA PlaceBehind ==
  ASSUME NEW f \in FieldLine, NEW end \in Nat
  PROVE  /\ Place(f, end) \in Places
         /\ end <= Place(f, end).prefix
         /\ Place(f, end).prefix + PrefixSize(f) <= Place(f, end).at
         /\ Place(f, end).end = Place(f, end).at + f.size * f.count
         /\ Place(f, end).at < Place(f, end).end
  <1> DEFINE prefix == IF PrefixSize(f) = 0 THEN end ELSE Align(end, PrefixSize(f))
             at == Align(prefix + PrefixSize(f), f.size)
             total == f.size * f.count
  <1>1. f.size \in {1, 2, 4, 8} /\ f.count \in Nat \ {0} /\ PrefixSize(f) \in {0, 1, 2}
    BY LineParts
  <1>2. prefix \in Nat /\ end <= prefix
    BY <1>1, AlignForward
  <1>3. total \in Nat /\ total > 0
    BY <1>1, SizeTimes
  <1>4. at \in Nat /\ prefix + PrefixSize(f) <= at
    <2> HIDE DEF prefix
    <2>1. prefix + PrefixSize(f) \in Nat
      BY <1>1, <1>2
    <2>2. QED
      BY <1>1, <2>1, AlignForward
  <1>5. Place(f, end) = [prefix |-> prefix, at |-> at, end |-> at + total]
    BY DEF Place
  <1> HIDE DEF prefix, at, total
  <1>6. at + total \in Nat /\ at < at + total
    BY <1>3, <1>4
  <1>7. QED
    BY <1>2, <1>4, <1>5, <1>6 DEF Places, total

LEMMA LayoutPlaces ==
  ASSUME NEW fs \in Seq(FieldLine)
  PROVE  /\ Layout(fs) \in [1 .. Len(fs) -> Places]
         /\ \A i \in 1 .. Len(fs) :
              Layout(fs)[i] = Place(fs[i], IF i = 1 THEN 0 ELSE Layout(fs)[i - 1].end)
  <1>1. PICK n \in Nat : n = Len(fs)
    OBVIOUS
  <1> DEFINE step == [p \in (1 .. n) \X Places |-> Place(fs[p[1]], p[2].end)]
             a == [prefix |-> 0, at |-> 0, end |-> 0]
  <1>2. ASSUME NEW p \in (1 .. n) \X Places PROVE Place(fs[p[1]], p[2].end) \in Places
    <2>1. fs[p[1]] \in FieldLine /\ p[2].end \in Nat
      BY <1>1 DEF Places
    <2>2. QED
      BY <2>1, PlaceBehind
  <1>3. step \in [(1 .. n) \X Places -> Places] /\ a \in Places
    BY <1>2 DEF Places
  <1>4. PICK g \in [0 .. n -> Places] : Follows(g, a, step, n)
    <2> HIDE DEF step, a
    <2> QED
      BY <1>3, Recursion
  <1>5. g[0].end = 0
    BY <1>4 DEF Follows
  <1>6. ASSUME NEW i \in 1 .. n PROVE g[i] = Place(fs[i], g[i - 1].end)
    <2>1. i - 1 \in 0 .. n
      OBVIOUS
    <2>2. <<i, g[i - 1]>> \in (1 .. n) \X Places
      BY <2>1
    <2>3. step[<<i, g[i - 1]>>] = Place(fs[i], g[i - 1].end)
      BY <2>2
    <2>4. QED
      BY <1>4, <2>3 DEF Follows
  <1> DEFINE f == [i \in 1 .. n |-> g[i]]
             F(h) == [i \in DOMAIN fs |-> Place(fs[i], IF i = 1 THEN 0 ELSE h[i - 1].end)]
             h == CHOOSE h : h = F(h)
  <1> HIDE DEF step, a
  <1>7. f = F(f)
    <2>1. DOMAIN fs = 1 .. n
      BY <1>1
    <2>2. ASSUME NEW i \in 1 .. n
          PROVE  g[i] = Place(fs[i], IF i = 1 THEN 0 ELSE f[i - 1].end)
      <3>1. CASE i = 1
        <4>1. g[i] = Place(fs[i], g[0].end)
          BY <1>6, <3>1
        <4>2. QED
          BY <1>5, <3>1, <4>1
      <3>2. CASE i # 1
        <4>1. i - 1 \in 1 .. n
          BY <3>2
        <4>2. f[i - 1] = g[i - 1]
          BY <4>1
        <4>3. QED
          <5> HIDE DEF f
          <5> QED
            BY <1>6, <3>2, <4>2
      <3>3. QED
        BY <3>1, <3>2
    <2>3. QED
      BY <2>1, <2>2, Zenon
  <1>8. h = F(h)
    <2> HIDE DEF f
    <2>1. \E x : x = F(x)
      BY <1>7
    <2> HIDE DEF F
    <2> QED
      BY <2>1, Zenon
  <1>9. Layout(fs) = h
    BY DEF Layout
  <1> HIDE DEF h, f
  <1>10. \A i \in 1 .. n : h[i] = Place(fs[i], IF i = 1 THEN 0 ELSE h[i - 1].end)
    <2>1. DOMAIN fs = 1 .. n
      BY <1>1
    <2>2. h = [i \in 1 .. n |-> Place(fs[i], IF i = 1 THEN 0 ELSE h[i - 1].end)]
      BY <1>8, <2>1, Zenon
    <2> HIDE DEF F
    <2>3. QED
      BY <2>2, Zenon
  <1> DEFINE T == {j \in 0 .. n : j = 0 \/ h[j] = g[j]}
  <1>11. 0 \in T
    OBVIOUS
  <1>12. ASSUME NEW j \in 0 .. (n - 1), j \in T PROVE j + 1 \in T
    <2>1. j + 1 \in 1 .. n /\ (j + 1) - 1 = j /\ j + 1 \in 0 .. n
      OBVIOUS
    <2>2. h[j + 1] = Place(fs[j + 1], IF j + 1 = 1 THEN 0 ELSE h[j].end)
      BY <1>10, <2>1
    <2>3. g[j + 1] = Place(fs[j + 1], g[j].end)
      BY <1>6, <2>1
    <2>4. (IF j + 1 = 1 THEN 0 ELSE h[j].end) = g[j].end
      <3>1. CASE j = 0
        BY <3>1, <1>5
      <3>2. CASE j # 0
        BY <3>2, <1>12
      <3>3. QED
        BY <3>1, <3>2
    <2>5. QED
      BY <2>1, <2>2, <2>3, <2>4
  <1>13. \A j \in 0 .. n : j \in T
    <2> HIDE DEF T
    <2> QED
      BY <1>11, <1>12, Induction
  <1>14. \A i \in 1 .. n : h[i] = g[i] /\ g[i] \in Places
    <2>1. \A i \in 1 .. n : i \in 0 .. n /\ i # 0
      OBVIOUS
    <2>2. QED
      BY <1>13, <2>1
  <1>15. h \in [1 .. n -> Places]
    <2>1. DOMAIN h = 1 .. n /\ h = [i \in 1 .. n |-> h[i]]
      BY <1>1, <1>8
    <2>2. QED
      BY <2>1, <1>14
  <1>16. QED
    <2> HIDE DEF F, T
    <2> QED
      BY <1>1, <1>9, <1>10, <1>15, Zenon

-----------------------------------------------------------------------------
\* The members of a struct do not overlap.
LEMMA Disjoint ==
  ASSUME NEW fs \in Seq(FieldLine), NEW i \in 1 .. Len(fs), NEW j \in 1 .. Len(fs), i < j
  PROVE  Layout(fs)[i].end <= Layout(fs)[j].prefix
  <1>1. PICK n \in Nat : n = Len(fs)
    OBVIOUS
  <1> DEFINE h == Layout(fs)
  <1>2. /\ h \in [1 .. n -> Places]
        /\ \A k \in 1 .. n : h[k] = Place(fs[k], IF k = 1 THEN 0 ELSE h[k - 1].end)
    BY <1>1, LayoutPlaces
  <1> HIDE DEF h
  <1>3. \A k \in 1 .. n : fs[k] \in FieldLine /\ h[k].prefix \in Nat /\ h[k].at \in Nat /\ h[k].end \in Nat
    <2>1. ASSUME NEW k \in 1 .. n PROVE fs[k] \in FieldLine /\ h[k] \in Places
      BY <1>1, <1>2
    <2>2. QED
      BY <2>1 DEF Places
  <1>4. ASSUME NEW k \in 1 .. (n - 1) PROVE h[k].end <= h[k + 1].prefix
    <2>1. k + 1 \in 1 .. n /\ k + 1 # 1 /\ (k + 1) - 1 = k /\ k \in 1 .. n
      OBVIOUS
    <2>2. h[k + 1] = Place(fs[k + 1], h[k].end) /\ h[k].end \in Nat /\ fs[k + 1] \in FieldLine
      BY <1>2, <1>3, <2>1
    <2>3. QED
      BY <2>2, PlaceBehind
  <1>5. ASSUME NEW k \in 1 .. n PROVE h[k].prefix <= h[k].end
    <2>1. PICK e \in Nat : h[k] = Place(fs[k], e)
      <3>1. CASE k = 1
        BY <3>1, <1>2
      <3>2. CASE k # 1
        <4>1. k - 1 \in 1 .. n
          BY <3>2
        <4>2. QED
          BY <4>1, <3>2, <1>2, <1>3
      <3>3. QED
        BY <3>1, <3>2
    <2>2. fs[k] \in FieldLine /\ PrefixSize(fs[k]) \in {0, 1, 2}
      BY <1>3, LineParts
    <2>3. h[k].prefix + PrefixSize(fs[k]) <= h[k].at /\ h[k].at < h[k].end
      BY <2>1, <2>2, PlaceBehind
    <2>4. QED
      BY <2>2, <2>3, <1>3
  <1> DEFINE T == {m \in 0 .. n : m <= i \/ h[i].end <= h[m].prefix}
  <1>6. 0 \in T
    BY <1>1
  <1>7. ASSUME NEW m \in 0 .. (n - 1), m \in T PROVE m + 1 \in T
    <2>1. i \in 1 .. n /\ m + 1 \in 0 .. n
      BY <1>1
    <2>2. CASE m < i
      BY <2>1, <2>2
    <2>3. CASE m = i
      <3>1. m \in 1 .. (n - 1)
        BY <2>1, <2>3
      <3>2. QED
        BY <1>4, <2>1, <2>3, <3>1
    <2>4. CASE m > i
      <3>1. m \in 1 .. (n - 1) /\ m \in 1 .. n /\ m + 1 \in 1 .. n
        BY <2>1, <2>4
      <3>2. h[i].end <= h[m].prefix
        BY <1>7, <2>1, <2>4
      <3>3. h[m].end <= h[m + 1].prefix /\ h[m].prefix <= h[m].end
        BY <1>4, <1>5, <3>1
      <3>4. h[i].end <= h[m + 1].prefix
        BY <1>3, <2>1, <3>1, <3>2, <3>3
      <3>5. QED
        BY <2>1, <3>4
    <2>5. QED
      BY <2>1, <2>2, <2>3, <2>4
  <1>8. \A m \in 0 .. n : m \in T
    <2> HIDE DEF T
    <2> QED
      BY <1>6, <1>7, Induction
  <1>9. QED
    <2>1. j \in T /\ i \in 1 .. n /\ j \in 1 .. n
      BY <1>1, <1>8
    <2>2. QED
      BY <2>1 DEF h

\* Each member: its prefix, its items and its end.
LEMMA MemberPlace ==
  ASSUME NEW fs \in Seq(FieldLine), NEW i \in 1 .. Len(fs)
  PROVE  /\ fs[i] \in FieldLine
         /\ Layout(fs)[i].prefix \in Nat /\ Layout(fs)[i].at \in Nat /\ Layout(fs)[i].end \in Nat
         /\ Layout(fs)[i].prefix + PrefixSize(fs[i]) <= Layout(fs)[i].at
         /\ Layout(fs)[i].end = Layout(fs)[i].at + fs[i].size * fs[i].count
         /\ Layout(fs)[i].at < Layout(fs)[i].end
  <1>1. PICK n \in Nat : n = Len(fs)
    OBVIOUS
  <1> DEFINE h == Layout(fs)
  <1>2. /\ h \in [1 .. n -> Places]
        /\ \A k \in 1 .. n : h[k] = Place(fs[k], IF k = 1 THEN 0 ELSE h[k - 1].end)
    BY <1>1, LayoutPlaces
  <1> HIDE DEF h
  <1>3. \A k \in 1 .. n : fs[k] \in FieldLine /\ h[k].prefix \in Nat /\ h[k].at \in Nat /\ h[k].end \in Nat
    <2>1. ASSUME NEW k \in 1 .. n PROVE fs[k] \in FieldLine /\ h[k] \in Places
      BY <1>1, <1>2
    <2>2. QED
      BY <2>1 DEF Places
  <1>4. i \in 1 .. n
    BY <1>1
  <1>5. PICK e \in Nat : h[i] = Place(fs[i], e)
    <2>1. CASE i = 1
      BY <2>1, <1>2, <1>4
    <2>2. CASE i # 1
      <3>1. i - 1 \in 1 .. n
        BY <2>2, <1>4
      <3>2. QED
        BY <3>1, <2>2, <1>2, <1>3, <1>4
    <2>3. QED
      BY <2>1, <2>2
  <1>6. QED
    BY <1>3, <1>4, <1>5, PlaceBehind DEF h

\* The type byte says which type it was put together from.
LEMMA TypeByte ==
  ASSUME NEW f \in FieldLine
  PROVE  /\ HType[f.htype] + LType[LTypeMap[f.ltype]] \in 0 .. 255
         /\ HTypeOf(HType[f.htype] + LType[LTypeMap[f.ltype]]) = HType[f.htype]
         /\ LTypeOf(HType[f.htype] + LType[LTypeMap[f.ltype]]) = LType[LTypeMap[f.ltype]]
  <1>1. HType[f.htype] \in {0, 16, 32}
    BY LineParts DEF HType
  <1>2. LTypeMap[f.ltype] \in {"BOOL", "VARINT", "UVARINT", "SVARINT", "FIXED32", "FIXED64"}
    BY LineParts DEF LTypeMap
  <1>3. LType[LTypeMap[f.ltype]] \in 0 .. 5
    BY <1>2 DEF LType
  <1>4. QED
    BY <1>1, <1>3 DEF HTypeOf, LTypeOf

LEMMA DeclaredParts ==
  ASSUME NEW fs \in Seq(FieldLine), NEW i \in 1 .. Len(fs)
  PROVE  /\ Declared(fs, i) \in Declarations
         /\ Declared(fs, i).type < 256
         /\ Declared(fs, i).array_size # 0
         /\ Declared(fs, i).tag = fs[i].tag
         /\ Declared(fs, i).data_offset = Layout(fs)[i].at
         /\ Declared(fs, i).data_size = fs[i].size
         /\ Declared(fs, i).array_size = fs[i].count
         /\ HTypeOf(Declared(fs, i).type) = HType[fs[i].htype]
         /\ LTypeOf(Declared(fs, i).type) = LType[LTypeMap[fs[i].ltype]]
         /\ PrefixSize(fs[i]) = 0 => Declared(fs, i).size_offset = 0
         /\ PrefixSize(fs[i]) # 0 => /\ Declared(fs, i).size_offset # 0
                                     /\ Declared(fs, i).data_offset - Declared(fs, i).size_offset = Layout(fs)[i].prefix
  <1> DEFINE pl == Layout(fs)[i]
             f == fs[i]
             type == HType[f.htype] + LType[LTypeMap[f.ltype]]
             so == IF PrefixSize(f) = 0 THEN 0 ELSE pl.at - pl.prefix
  <1>1. /\ f \in FieldLine /\ pl.prefix \in Nat /\ pl.at \in Nat
        /\ pl.prefix + PrefixSize(f) <= pl.at
    BY MemberPlace
  <1>2. /\ f.tag \in Nat \ {0} /\ f.size \in Nat /\ f.count \in Nat \ {0} /\ PrefixSize(f) \in {0, 1, 2}
    BY <1>1, LineParts
  <1>3. /\ type \in 0 .. 255 /\ HTypeOf(type) = HType[f.htype] /\ LTypeOf(type) = LType[LTypeMap[f.ltype]]
    BY <1>1, TypeByte
  <1>4. Declared(fs, i) = [tag |-> f.tag, type |-> type, data_offset |-> pl.at, data_size |-> f.size,
                           size_offset |-> so, array_size |-> f.count]
    BY DEF Declared
  <1> HIDE DEF pl, f, type
  <1>5. so \in Nat /\ (PrefixSize(f) = 0 => so = 0) /\ (PrefixSize(f) # 0 => so # 0 /\ pl.at - so = pl.prefix)
    BY <1>1, <1>2
  <1> HIDE DEF so
  <1>6. Declared(fs, i) \in Declarations
    <2>1. f.tag \in Nat /\ type \in Nat /\ pl.at \in Nat /\ f.size \in Nat /\ so \in Nat /\ f.count \in Nat
      BY <1>1, <1>2, <1>3, <1>5
    <2>2. QED
      BY <1>4, <2>1 DEF Declarations
  <1>7. QED
    BY <1>2, <1>3, <1>4, <1>5, <1>6 DEF f, pl

-----------------------------------------------------------------------------
(* The field iterator.                                                     *)

Iterators ==
  [index : Nat, field_info_index : Nat, required_field_index : Nat, type : Nat, tag : Nat,
   data_offset : Nat, size_offset : Nat, data_size : Nat, array_size : Nat]

\* An iterator that has found its field, and one that has found it as declared.
Found(p, type, tag, offset, sizeoff, size, array) ==
  [p EXCEPT !.type = type, !.tag = tag, !.data_offset = offset,
            !.size_offset = sizeoff, !.data_size = size, !.array_size = array]
With(p, d) == Found(p, d.type, d.tag, d.data_offset, d.size_offset, d.data_size, d.array_size)

\* The iterator stands in front of the words of d.
Before(p, ds, width, d) ==
  /\ width \in {1, 2, 4, 8} /\ d \in Declarations /\ d.type < 256 /\ d.array_size # 0
  /\ Fits(width, d)
  /\ p \in Iterators /\ ~(p.index >= ds.field_count)
  /\ \A k \in 1 .. width : ds.field_info[p.field_info_index + k] = FieldInfo(width, d)[k]

\* Whatever its width, a descriptor gives back what was declared.
LEMMA Loaded ==
  ASSUME NEW p, NEW ds, NEW width, NEW d, Before(p, ds, width, d)
  PROVE  /\ LoadDescriptor(ds, p) = With(p, d)
         /\ 2 ^ Field(ds.field_info[p.field_info_index + 1], 0, 2) = width
         /\ Field(ds.field_info[p.field_info_index + 1], 8, 8) = d.type
         /\ Low(Shr(ds.field_info[p.field_info_index + 1], 2), 6) = Low(Bits(d.tag), 6)
  <1> DEFINE at == p.field_info_index
             w == ds.field_info[at + 1]
             y == ds.field_info[at + 2]
             o == ds.field_info[at + 3]
             s == ds.field_info[at + 4]
             m == ds.field_info[at + 5]
  <1>1. /\ width \in {1, 2, 4, 8} /\ d \in Declarations /\ d.type < 256 /\ d.array_size # 0
        /\ Fits(width, d) /\ p \in Iterators /\ ~(p.index >= ds.field_count)
        /\ \A k \in 1 .. width : ds.field_info[p.field_info_index + k] = FieldInfo(width, d)[k]
    BY Zenon DEF Before
  <1>2. at \in Nat
    BY <1>1 DEF Iterators
  <1>3. /\ ds.field_info[p.field_info_index + 0 + 1] = w /\ ds.field_info[p.field_info_index + 1 + 1] = y
        /\ ds.field_info[p.field_info_index + 2 + 1] = o /\ ds.field_info[p.field_info_index + 3 + 1] = s
        /\ ds.field_info[p.field_info_index + 4 + 1] = m
    <2>1. at + 0 + 1 = at + 1 /\ at + 1 + 1 = at + 2 /\ at + 2 + 1 = at + 3 /\ at + 3 + 1 = at + 4 /\ at + 4 + 1 = at + 5
      BY <1>2
    <2>2. QED
      BY <2>1
  <1> DEFINE low_tag == Low(Shr(w, 2), 6)
             loaded == LoadDescriptor(ds, p)
             type == Field(w, 8, 8)
             A0 == Found(p, type, Num(low_tag), Field(w, 16, 8), Field(w, 24, 4), Field(w, 28, 4), 1)
             A1 == Found(p, type, Num(low_tag \cup Shl(Shr(y, 28), 6)), Field(y, 0, 16),
                         Field(w, 28, 4), Field(y, 16, 12), Field(w, 16, 12))
             A2 == Found(p, type, Num(low_tag \cup Shl(Shr(y, 8), 6)), Num(o), Field(y, 0, 8), Num(s), Field(w, 16, 16))
             A3 == Found(p, type, Num(low_tag \cup Shl(Shr(y, 8), 6)), Num(o), Field(y, 0, 8), Num(s), Num(m))
  <1>4. loaded = CASE Field(w, 0, 2) = 0 -> A0 [] Field(w, 0, 2) = 1 -> A1 [] Field(w, 0, 2) = 2 -> A2 [] OTHER -> A3
    BY <1>1, <1>3 DEF LoadDescriptor, Found
  <1>5. /\ Field(w, 0, 2) = 0 => loaded = A0
        /\ Field(w, 0, 2) = 1 => loaded = A1
        /\ Field(w, 0, 2) = 2 => loaded = A2
        /\ Field(w, 0, 2) = 3 => loaded = A3
    <2> HIDE DEF A0, A1, A2, A3, loaded, w
    <2>1. QED
      BY <1>4
  <1> HIDE DEF loaded
  <1> HIDE DEF at, w, y, o, s, m
  <1>6. /\ loaded = With(p, d)
        /\ 2 ^ Field(w, 0, 2) = width
        /\ Field(w, 8, 8) = d.type
        /\ Low(Shr(w, 2), 6) = Low(Bits(d.tag), 6)
    <2>1. CASE width = 1
      <3>1. FieldInfo1(d) = FieldInfo(width, d) /\ FieldInfo1(d) = <<FieldInfo1(d)[1]>> /\ 1 \in 1 .. width
        BY <2>1 DEF FieldInfo, FieldInfo1
      <3>2. FieldInfo1(d) = <<w>>
        BY <1>1, <3>1 DEF w, at
      <3>3. /\ Field(w, 0, 2) = 0 /\ Field(w, 8, 8) = d.type
            /\ Low(Shr(w, 2), 6) = Low(Bits(d.tag), 6) /\ Num(Low(Shr(w, 2), 6)) = d.tag
            /\ Field(w, 16, 8) = d.data_offset /\ Field(w, 24, 4) = d.size_offset
            /\ Field(w, 28, 4) = d.data_size /\ d.array_size = 1
        BY <1>1, <2>1, <3>2, WordsOf1
      <3>4. loaded = A0
        BY <1>5, <3>3
      <3>5. A0 = With(p, d)
        BY <3>3, Zenon DEF With
      <3>6. 2 ^ Field(w, 0, 2) = width
        <4>1. 2 ^ 0 = 1
          OBVIOUS
        <4>2. QED
          BY <2>1, <3>3, <4>1, Zenon
      <3>7. QED
        BY <3>3, <3>4, <3>5, <3>6, Zenon
    <2>2. CASE width = 2
      <3>1. /\ FieldInfo2(d) = FieldInfo(width, d) /\ FieldInfo2(d) = <<FieldInfo2(d)[1], FieldInfo2(d)[2]>>
            /\ 1 \in 1 .. width /\ 2 \in 1 .. width
        BY <2>2 DEF FieldInfo, FieldInfo2
      <3>2. FieldInfo2(d) = <<w, y>>
        BY <1>1, <3>1 DEF w, y, at
      <3>3. /\ Field(w, 0, 2) = 1 /\ Field(w, 8, 8) = d.type
            /\ Low(Shr(w, 2), 6) = Low(Bits(d.tag), 6)
            /\ Num(Low(Shr(w, 2), 6) \cup Shl(Shr(y, 28), 6)) = d.tag
            /\ Field(y, 0, 16) = d.data_offset /\ Field(w, 28, 4) = d.size_offset
            /\ Field(y, 16, 12) = d.data_size /\ Field(w, 16, 12) = d.array_size
        BY <1>1, <2>2, <3>2, WordsOf2
      <3>4. loaded = A1
        BY <1>5, <3>3
      <3>5. A1 = With(p, d)
        BY <3>3, Zenon DEF With
      <3>6. 2 ^ Field(w, 0, 2) = width
        <4>1. 2 ^ 1 = 2
          OBVIOUS
        <4>2. QED
          BY <2>2, <3>3, <4>1, Zenon
      <3>7. QED
        BY <3>3, <3>4, <3>5, <3>6, Zenon
    <2>3. CASE width = 4
      <3>1. /\ FieldInfo4(d) = FieldInfo(width, d)
            /\ FieldInfo4(d) = <<FieldInfo4(d)[1], FieldInfo4(d)[2], FieldInfo4(d)[3], FieldInfo4(d)[4]>>
            /\ 1 \in 1 .. width /\ 2 \in 1 .. width /\ 3 \in 1 .. width /\ 4 \in 1 .. width
        BY <2>3 DEF FieldInfo, FieldInfo4
      <3>2. FieldInfo4(d) = <<w, y, o, s>>
        BY <1>1, <3>1 DEF w, y, o, s, at
      <3>3. /\ Field(w, 0, 2) = 2 /\ Field(w, 8, 8) = d.type
            /\ Low(Shr(w, 2), 6) = Low(Bits(d.tag), 6)
            /\ Num(Low(Shr(w, 2), 6) \cup Shl(Shr(y, 8), 6)) = d.tag
            /\ Num(o) = d.data_offset /\ Field(y, 0, 8) = d.size_offset
            /\ Num(s) = d.data_size /\ Field(w, 16, 16) = d.array_size
        BY <1>1, <2>3, <3>2, WordsOf4
      <3>4. loaded = A2
        BY <1>5, <3>3
      <3>5. A2 = With(p, d)
        BY <3>3, Zenon DEF With
      <3>6. 2 ^ Field(w, 0, 2) = width
        <4>1. 2 ^ 2 = 4
          OBVIOUS
        <4>2. QED
          BY <2>3, <3>3, <4>1, Zenon
      <3>7. QED
        BY <3>3, <3>4, <3>5, <3>6, Zenon
    <2>4. CASE width = 8
      <3>1. /\ FieldInfo8(d) = FieldInfo(width, d)
            /\ FieldInfo8(d) = <<FieldInfo8(d)[1], FieldInfo8(d)[2], FieldInfo8(d)[3], FieldInfo8(d)[4],
                                 FieldInfo8(d)[5], {}, {}, {}>>
            /\ 1 \in 1 .. width /\ 2 \in 1 .. width /\ 3 \in 1 .. width /\ 4 \in 1 .. width /\ 5 \in 1 .. width
        BY <2>4 DEF FieldInfo, FieldInfo8
      <3>2. FieldInfo8(d) = <<w, y, o, s, m, {}, {}, {}>>
        BY <1>1, <3>1 DEF w, y, o, s, m, at
      <3>3. /\ Field(w, 0, 2) = 3 /\ Field(w, 8, 8) = d.type
            /\ Low(Shr(w, 2), 6) = Low(Bits(d.tag), 6)
            /\ Num(Low(Shr(w, 2), 6) \cup Shl(Shr(y, 8), 6)) = d.tag
            /\ Num(o) = d.data_offset /\ Field(y, 0, 8) = d.size_offset
            /\ Num(s) = d.data_size /\ Num(m) = d.array_size
        BY <1>1, <2>4, <3>2, WordsOf8
      <3>4. loaded = A3
        BY <1>5, <3>3
      <3>5. A3 = With(p, d)
        BY <3>3, Zenon DEF With
      <3>6. 2 ^ Field(w, 0, 2) = width
        <4>1. 2 ^ 3 = 8
          OBVIOUS
        <4>2. QED
          BY <2>4, <3>3, <4>1, Zenon
      <3>7. QED
        BY <3>3, <3>4, <3>5, <3>6, Zenon
    <2>5. QED
      BY <1>1, <2>1, <2>2, <2>3, <2>4
  <1>7. QED
    BY <1>6 DEF w, at, loaded

-----------------------------------------------------------------------------
\* A field list with its width, as PB_BIND takes them.
Bindable(fs, width) ==
  fs \in Seq(FieldLine) /\ fs # <<>> /\ width \in {0, 1, 2, 4, 8} /\ Compiles(fs, width)

\* The words of the i-th line, and where they are: at[i - 1] words come before them.
InfoOf(fs, width, i) == FieldInfo(WidthOf(fs, i, width), Declared(fs, i))
WordsAt(fs, width, at) ==
  /\ at \in [0 .. Len(fs) -> Nat]
  /\ at[0] = 0
  /\ \A i \in 1 .. Len(fs) :
       /\ at[i] = at[i - 1] + WidthOf(fs, i, width)
       /\ \A k \in 1 .. WidthOf(fs, i, width) :
            Bind(fs, width).field_info[at[i - 1] + k] = InfoOf(fs, width, i)[k]

LEMMA InfoWords ==
  ASSUME NEW fs, NEW width, Bindable(fs, width), NEW i \in 1 .. Len(fs)
  PROVE  /\ WidthOf(fs, i, width) \in {1, 2, 4, 8}
         /\ Fits(WidthOf(fs, i, width), Declared(fs, i))
         /\ InfoOf(fs, width, i) \in Seq(SUBSET Int)
         /\ Len(InfoOf(fs, width, i)) = WidthOf(fs, i, width)
  <1> DEFINE wd == WidthOf(fs, i, width)
             d == Declared(fs, i)
  <1>1. wd \in {1, 2, 4, 8}
    BY DEF Bindable, WidthOf, WidthAuto
  <1>2. Fits(wd, d)
    BY DEF Bindable, Compiles
  <1>3. \A n, len : Bits(n) \in SUBSET Int /\ Word0(len, d) \in SUBSET Int
    <2>1. ASSUME NEW n, NEW len PROVE Word0(len, d) \in SUBSET Int
      <3>1. Bits(len) \in SUBSET Int /\ Bits(d.tag) \in SUBSET Int /\ Bits(d.type) \in SUBSET Int
        BY BitsInt
      <3>2. Low(Shl(Bits(d.tag), 2), 8) \in SUBSET Int /\ Shl(Bits(d.type), 8) \in SUBSET Int
        BY <3>1 DEF Low, Shl
      <3>3. QED
        BY <3>1, <3>2 DEF Word0
    <2>2. QED
      BY <2>1, BitsInt
  <1>4. \A v \in SUBSET Int : \A n \in Nat, m \in Nat : Low(v, n) \in SUBSET Int /\ Shl(v, m) \in SUBSET Int
    BY DEF Low, Shl
  <1>5. TagAndSize(d) \in SUBSET Int
    <2>1. Bits(d.size_offset) \in SUBSET Int /\ Bits(d.tag) \in SUBSET Int
      BY BitsInt
    <2>2. Shl(Bits(d.tag), 2) \in SUBSET Int
      BY <2>1, <1>4
    <2>3. QED
      BY <2>1, <2>2 DEF TagAndSize
  <1>6. FieldInfo(wd, d) \in Seq(SUBSET Int) /\ Len(FieldInfo(wd, d)) = wd
    <2> HIDE DEF wd, d
    <2>1. CASE wd = 1
      <3>1. /\ Shl(Low(Bits(d.data_offset), 8), 16) \in SUBSET Int
            /\ Shl(Low(Bits(d.size_offset), 4), 24) \in SUBSET Int
            /\ Shl(Low(Bits(d.data_size), 4), 28) \in SUBSET Int
        BY <1>3, <1>4
      <3>2. Word0(0, d) \in SUBSET Int
        BY <1>3
      <3>3. \E w \in SUBSET Int : FieldInfo1(d) = <<w>>
        BY <3>1, <3>2 DEF FieldInfo1
      <3>4. QED
        BY <2>1, <3>3 DEF FieldInfo
    <2>2. CASE wd = 2
      <3>1. /\ Shl(Low(Bits(d.array_size), 12), 16) \in SUBSET Int
            /\ Shl(Low(Bits(d.size_offset), 4), 28) \in SUBSET Int
            /\ Low(Bits(d.data_offset), 16) \in SUBSET Int
            /\ Shl(Low(Bits(d.data_size), 12), 16) \in SUBSET Int
        BY <1>3, <1>4
      <3>2. Bits(d.tag) \cap 6 .. 9 \in SUBSET Int
        OBVIOUS
      <3>3. Shl(Bits(d.tag) \cap 6 .. 9, 22) \in SUBSET Int /\ Word0(1, d) \in SUBSET Int
        BY <1>3, <1>4, <3>2
      <3>4. \E w \in SUBSET Int, y \in SUBSET Int : FieldInfo2(d) = <<w, y>>
        BY <3>1, <3>3 DEF FieldInfo2
      <3>5. QED
        BY <2>2, <3>4 DEF FieldInfo
    <2>3. CASE wd = 4
      <3>1. Shl(Low(Bits(d.array_size), 16), 16) \in SUBSET Int /\ Word0(2, d) \in SUBSET Int
            /\ Bits(d.data_offset) \in SUBSET Int /\ Bits(d.data_size) \in SUBSET Int
        BY <1>3, <1>4
      <3>2. \E w \in SUBSET Int, y \in SUBSET Int, o \in SUBSET Int, s \in SUBSET Int : FieldInfo4(d) = <<w, y, o, s>>
        BY <3>1, <1>5 DEF FieldInfo4
      <3>3. QED
        BY <2>3, <3>2 DEF FieldInfo
    <2>4. CASE wd = 8
      <3>1. Word0(3, d) \in SUBSET Int /\ Bits(d.data_offset) \in SUBSET Int /\ Bits(d.data_size) \in SUBSET Int
            /\ Bits(d.array_size) \in SUBSET Int /\ {} \in SUBSET Int
        BY <1>3
      <3>2. \E w \in SUBSET Int, y \in SUBSET Int, o \in SUBSET Int, s \in SUBSET Int, n \in SUBSET Int :
              FieldInfo8(d) = <<w, y, o, s, n, {}, {}, {}>>
        BY <3>1, <1>5 DEF FieldInfo8
      <3>3. QED
        BY <2>4, <3>1, <3>2 DEF FieldInfo
    <2>5. QED
      BY <1>1, <2>1, <2>2, <2>3, <2>4
  <1>7. QED
    BY <1>1, <1>2, <1>6 DEF InfoOf

LEMMA BoundWords ==
  ASSUME NEW fs, NEW width, Bindable(fs, width)
  PROVE  \E at : WordsAt(fs, width, at)
  <1>1. PICK n \in Nat : n = Len(fs)
    BY DEF Bindable
  <1> DEFINE ss == [i \in 1 .. n |-> InfoOf(fs, width, i)]
             S == SUBSET Int
             all == FlattenSeq(ss)
  <1>2. \A i \in 1 .. n : /\ InfoOf(fs, width, i) \in Seq(S)
                          /\ Len(InfoOf(fs, width, i)) = WidthOf(fs, i, width)
    BY <1>1, InfoWords
  <1>3. ss \in Seq(Seq(S)) /\ Len(ss) = n /\ \A i \in 1 .. n : ss[i] = InfoOf(fs, width, i)
    <2> HIDE DEF S
    <2> QED
      BY <1>2
  <1>4. Bind(fs, width).field_info = all \o <<{}>>
    BY <1>1 DEF Bind, InfoOf
  <1> HIDE DEF ss
  <1>5. PICK at : Parts(ss, at) /\ Laid(ss, at, all, n)
    BY <1>3, Flattened
  <1>6. all \in Seq(S) /\ <<{}>> \in Seq(S)
    BY <1>3, Flattened
  <1> HIDE DEF all, S
  <1>7. at \in [0 .. n -> Nat] /\ at[0] = 0
    BY <1>3, <1>5 DEF Parts
  <1>8. ASSUME NEW i \in 1 .. n
        PROVE  /\ at[i] = at[i - 1] + WidthOf(fs, i, width)
               /\ \A k \in 1 .. WidthOf(fs, i, width) :
                    Bind(fs, width).field_info[at[i - 1] + k] = InfoOf(fs, width, i)[k]
    <2>1. at[i] = at[i - 1] + Len(ss[i])
      BY <1>3, <1>5 DEF Parts
    <2>2. at[i] <= at[n] /\ Len(all) = at[n] /\ \A k \in 1 .. Len(ss[i]) : all[at[i - 1] + k] = ss[i][k]
      BY <1>5 DEF Laid
    <2>3. Len(ss[i]) = WidthOf(fs, i, width) /\ ss[i] = InfoOf(fs, width, i) /\ WidthOf(fs, i, width) \in Nat
      <3>1. WidthOf(fs, i, width) \in {1, 2, 4, 8}
        BY <1>1, InfoWords
      <3>2. QED
        BY <1>2, <1>3, <3>1
    <2>4. at[i - 1] \in Nat /\ at[i] \in Nat /\ at[n] \in Nat
      <3>1. i - 1 \in 0 .. n /\ i \in 0 .. n /\ n \in 0 .. n
        OBVIOUS
      <3>2. QED
        BY <1>7, <3>1
    <2>5. ASSUME NEW k \in 1 .. WidthOf(fs, i, width)
          PROVE  Bind(fs, width).field_info[at[i - 1] + k] = InfoOf(fs, width, i)[k]
      <3>1. at[i - 1] + k \in 1 .. at[n]
        BY <2>1, <2>2, <2>3, <2>4, PlaceWithin
      <3>2. at[i - 1] + k \in 1 .. Len(all)
        BY <2>2, <3>1
      <3>3. (all \o <<{}>>)[at[i - 1] + k] = all[at[i - 1] + k]
        BY <1>6, <3>2, Concatenated
      <3>4. QED
        BY <1>4, <2>2, <2>3, <3>3
    <2>6. QED
      BY <2>1, <2>3, <2>5
  <1>9. QED
    BY <1>1, <1>7, <1>8 DEF WordsAt

-----------------------------------------------------------------------------
(* The iterator on its way.                                                *)

Iter(a, b, c, t, g, o, s, z, n) ==
  [index |-> a, field_info_index |-> b, required_field_index |-> c, type |-> t, tag |-> g,
   data_offset |-> o, size_offset |-> s, data_size |-> z, array_size |-> n]
Moved(p, i, f, r) == [p EXCEPT !.index = i, !.field_info_index = f, !.required_field_index = r]

LEMMA WithParts ==
  ASSUME NEW p \in Iterators, NEW d
  PROVE  With(p, d) = Iter(p.index, p.field_info_index, p.required_field_index, d.type, d.tag,
                           d.data_offset, d.size_offset, d.data_size, d.array_size)
  <1> DEFINE I(t, g, o, s, z, n) == Iter(p.index, p.field_info_index, p.required_field_index, t, g, o, s, z, n)
             x1 == [p EXCEPT !.type = d.type]
             x2 == [x1 EXCEPT !.tag = d.tag]
             x3 == [x2 EXCEPT !.data_offset = d.data_offset]
             x4 == [x3 EXCEPT !.size_offset = d.size_offset]
             x5 == [x4 EXCEPT !.data_size = d.data_size]
             x6 == [x5 EXCEPT !.array_size = d.array_size]
  <1>1. With(p, d) = x6
    BY Zenon DEF With, Found
  <1>2. p = I(p.type, p.tag, p.data_offset, p.size_offset, p.data_size, p.array_size)
    BY DEF Iterators, Iter
  <1>3. x1 = I(d.type, p.tag, p.data_offset, p.size_offset, p.data_size, p.array_size)
    BY <1>2 DEF Iter
  <1> HIDE DEF x1
  <1>4. x2 = I(d.type, d.tag, p.data_offset, p.size_offset, p.data_size, p.array_size)
    BY <1>3 DEF Iter
  <1> HIDE DEF x2
  <1>5. x3 = I(d.type, d.tag, d.data_offset, p.size_offset, p.data_size, p.array_size)
    BY <1>4 DEF Iter
  <1> HIDE DEF x3
  <1>6. x4 = I(d.type, d.tag, d.data_offset, d.size_offset, p.data_size, p.array_size)
    BY <1>5 DEF Iter
  <1> HIDE DEF x4
  <1>7. x5 = I(d.type, d.tag, d.data_offset, d.size_offset, d.data_size, p.array_size)
    BY <1>6 DEF Iter
  <1> HIDE DEF x5
  <1>8. x6 = I(d.type, d.tag, d.data_offset, d.size_offset, d.data_size, d.array_size)
    BY <1>7 DEF Iter
  <1>9. QED
    BY <1>1, <1>8, Zenon

Begin(fs, width) == CHOOSE at : WordsAt(fs, width, at)

LEMMA BeginsAt ==
  ASSUME NEW fs, NEW width, Bindable(fs, width)
  PROVE  WordsAt(fs, width, Begin(fs, width))
  BY BoundWords DEF Begin

RequiredBefore(fs, k) == {i \in 1 .. k : fs[i].htype = "REQUIRED"}

\* In front of the line after the k-th.
Positioned(p, fs, width, k) ==
  /\ p \in Iterators
  /\ p.index = k
  /\ p.field_info_index = Begin(fs, width)[k]
  /\ p.required_field_index = Cardinality(RequiredBefore(fs, k))

LEMMA MovedThere ==
  ASSUME NEW fs, NEW width, NEW p \in Iterators, NEW k \in Nat,
         NEW f \in Nat, f = Begin(fs, width)[k],
         NEW r \in Nat, r = Cardinality(RequiredBefore(fs, k))
  PROVE  Positioned(Moved(p, k, f, r), fs, width, k)
  <1> DEFINE m == Moved(p, k, f, r)
  <1>1. m \in Iterators
    BY DEF Moved, Iterators
  <1>2. m.index = k /\ m.field_info_index = f /\ m.required_field_index = r
    BY DEF Moved, Iterators
  <1> HIDE DEF m
  <1>3. Positioned(m, fs, width, k)
    BY <1>1, <1>2 DEF Positioned
  <1>4. QED
    BY <1>3 DEF m

\* On that line, with all that was declared for it.
Standing(fs, width, k) ==
  LET d == Declared(fs, k + 1)
  IN  Iter(k, Begin(fs, width)[k], Cardinality(RequiredBefore(fs, k)), d.type, d.tag,
           d.data_offset, d.size_offset, d.data_size, d.array_size)

LEMMA RequiredCount ==
  ASSUME NEW fs, NEW k \in Nat
  PROVE  /\ Cardinality(RequiredBefore(fs, k)) \in 0 .. k
         /\ IsFiniteSet(RequiredBefore(fs, k))
         /\ RequiredBefore(fs, 0) = {}
         /\ Cardinality(RequiredBefore(fs, k + 1)) =
              Cardinality(RequiredBefore(fs, k)) + (IF fs[k + 1].htype = "REQUIRED" THEN 1 ELSE 0)
  <1>1. IsFiniteSet(1 .. k) /\ Cardinality(1 .. k) = k
    BY FS_Interval
  <1>2. RequiredBefore(fs, k) \in SUBSET (1 .. k)
    BY DEF RequiredBefore
  <1>3. IsFiniteSet(RequiredBefore(fs, k)) /\ Cardinality(RequiredBefore(fs, k)) <= k
    BY <1>1, <1>2, FS_Subset
  <1>4. Cardinality(RequiredBefore(fs, k)) \in Nat
    BY <1>3, FS_CardinalityType
  <1>5. RequiredBefore(fs, 0) = {}
    BY DEF RequiredBefore
  <1>6. CASE fs[k + 1].htype = "REQUIRED"
    <2>1. RequiredBefore(fs, k + 1) = RequiredBefore(fs, k) \cup {k + 1}
      BY <1>6 DEF RequiredBefore
    <2>2. k + 1 \notin RequiredBefore(fs, k)
      BY <1>2
    <2>3. QED
      BY <1>3, <1>4, <1>5, <1>6, <2>1, <2>2, FS_AddElement
  <1>7. CASE fs[k + 1].htype # "REQUIRED"
    <2>1. RequiredBefore(fs, k + 1) = RequiredBefore(fs, k)
      BY <1>7 DEF RequiredBefore
    <2>2. QED
      BY <1>3, <1>4, <1>5, <1>7, <2>1
  <1>8. QED
    BY <1>6, <1>7

\* What is read of the words there.
LEMMA WordsThere ==
  ASSUME NEW fs, NEW width, Bindable(fs, width), NEW k \in 0 .. (Len(fs) - 1),
         NEW p, Positioned(p, fs, width, k)
  PROVE  /\ LoadDescriptor(Bind(fs, width), p) = With(p, Declared(fs, k + 1))
         /\ 2 ^ Field(Bind(fs, width).field_info[p.field_info_index + 1], 0, 2) = WidthOf(fs, k + 1, width)
         /\ Field(Bind(fs, width).field_info[p.field_info_index + 1], 8, 8) = Declared(fs, k + 1).type
         /\ Low(Shr(Bind(fs, width).field_info[p.field_info_index + 1], 2), 6) = Low(Bits(fs[k + 1].tag), 6)
  <1>1. PICK n \in Nat : n = Len(fs)
    BY DEF Bindable
  <1> DEFINE i == k + 1
             at == Begin(fs, width)
             d == Declared(fs, i)
             wd == WidthOf(fs, i, width)
             ds == Bind(fs, width)
  <1>2. i \in 1 .. Len(fs) /\ i - 1 = k
    BY <1>1
  <1>3. d \in Declarations /\ d.type < 256 /\ d.array_size # 0 /\ d.tag = fs[i].tag
    BY <1>2, DeclaredParts DEF Bindable
  <1>4. wd \in {1, 2, 4, 8} /\ Fits(wd, d)
    BY <1>2, InfoWords
  <1>5. p \in Iterators /\ p.index = k /\ p.field_info_index = at[i - 1]
    BY <1>2 DEF Positioned
  <1>6. ds.field_count = Len(fs)
    BY DEF Bind
  <1>7. ~(p.index >= ds.field_count)
    BY <1>1, <1>5, <1>6
  <1>8. \A j \in 1 .. wd : ds.field_info[at[i - 1] + j] = InfoOf(fs, width, i)[j]
    BY <1>2, BeginsAt DEF WordsAt
  <1>9. \A j \in 1 .. wd : ds.field_info[p.field_info_index + j] = FieldInfo(wd, d)[j]
    BY <1>5, <1>8 DEF InfoOf
  <1> HIDE DEF d, wd, ds, at, i
  <1>10. /\ LoadDescriptor(ds, p) = With(p, d)
         /\ 2 ^ Field(ds.field_info[p.field_info_index + 1], 0, 2) = wd
         /\ Field(ds.field_info[p.field_info_index + 1], 8, 8) = d.type
         /\ Low(Shr(ds.field_info[p.field_info_index + 1], 2), 6) = Low(Bits(d.tag), 6)
    <2>1. d \in Declarations /\ d.type < 256 /\ d.array_size # 0 /\ wd \in {1, 2, 4, 8} /\ Fits(wd, d)
          /\ p \in Iterators
      BY <1>3, <1>4, <1>5
    <2>2. Before(p, ds, wd, d)
      BY <1>7, <1>9, <2>1, Zenon DEF Before
    <2>3. QED
      BY <2>2, Loaded, Zenon
  <1>11. QED
    BY <1>3, <1>10 DEF d, wd, ds, i

LEMMA LoadedLine ==
  ASSUME NEW fs, NEW width, Bindable(fs, width), NEW k \in 0 .. (Len(fs) - 1),
         NEW p, Positioned(p, fs, width, k)
  PROVE  LoadDescriptor(Bind(fs, width), p) = Standing(fs, width, k)
  <1> DEFINE d == Declared(fs, k + 1)
  <1>1. LoadDescriptor(Bind(fs, width), p) = With(p, d)
    BY WordsThere
  <1>2. /\ p \in Iterators /\ p.index = k /\ p.field_info_index = Begin(fs, width)[k]
        /\ p.required_field_index = Cardinality(RequiredBefore(fs, k))
    BY DEF Positioned
  <1>3. With(p, d) = Iter(p.index, p.field_info_index, p.required_field_index, d.type, d.tag,
                          d.data_offset, d.size_offset, d.data_size, d.array_size)
    BY <1>2, WithParts
  <1>4. QED
    BY <1>1, <1>2, <1>3, Zenon DEF Standing

\* One line further, and from the last line back to the first.
LEMMA Advanced ==
  ASSUME NEW fs, NEW width, Bindable(fs, width), NEW k \in 0 .. (Len(fs) - 1),
         NEW p, Positioned(p, fs, width, k)
  PROVE  Positioned(AdvanceIterator(Bind(fs, width), p), fs, width, IF k + 1 = Len(fs) THEN 0 ELSE k + 1)
  <1>1. PICK n \in Nat : n = Len(fs)
    BY DEF Bindable
  <1> DEFINE ds == Bind(fs, width)
             at == Begin(fs, width)
             next == AdvanceIterator(ds, p)
             prev == ds.field_info[p.field_info_index + 1]
  <1>2. /\ p \in Iterators /\ p.index = k /\ p.field_info_index = at[k]
        /\ p.required_field_index = Cardinality(RequiredBefore(fs, k))
    BY DEF Positioned
  <1>3. ds.field_count = n
    BY <1>1 DEF Bind
  <1>4. /\ 2 ^ Field(prev, 0, 2) = WidthOf(fs, k + 1, width)
        /\ Field(prev, 8, 8) = Declared(fs, k + 1).type
    BY WordsThere
  <1>5. WordsAt(fs, width, at)
    BY BeginsAt
  <1>6. k \in Nat /\ k \in 0 .. n /\ k + 1 \in 1 .. n
    BY <1>1
  <1>7. CASE k + 1 = n
    <2>1. next = Moved(p, 0, 0, 0)
      BY <1>2, <1>3, <1>7, <1>6 DEF AdvanceIterator, Moved
    <2>2. at[0] = 0
      BY <1>5 DEF WordsAt
    <2>3. Cardinality(RequiredBefore(fs, 0)) = 0
      BY <1>6, RequiredCount, FS_EmptySet
    <2>4. Positioned(Moved(p, 0, 0, 0), fs, width, 0)
      <3>1. 0 \in Nat /\ p \in Iterators
        BY <1>2
      <3>2. QED
        BY <2>2, <2>3, <3>1, MovedThere, Zenon DEF at
    <2>5. QED
      BY <1>1, <1>7, <2>1, <2>4, Zenon
  <1>8. CASE k + 1 # n
    <2> DEFINE more == IF HTypeOf(Field(prev, 8, 8)) = HType.REQUIRED THEN 1 ELSE 0
    <2>1. ~(p.index + 1 >= ds.field_count)
      BY <1>2, <1>3, <1>6, <1>8
    <2>2. next = Moved(p, p.index + 1, p.field_info_index + 2 ^ Field(prev, 0, 2), p.required_field_index + more)
      BY <2>1 DEF AdvanceIterator, Moved
    <2>3. WidthOf(fs, k + 1, width) \in Nat /\ at[k + 1] = at[k] + WidthOf(fs, k + 1, width) /\ at[k] \in Nat
      <3>1. WidthOf(fs, k + 1, width) \in {1, 2, 4, 8}
        BY <1>1, <1>6, InfoWords
      <3>2. at \in [0 .. n -> Nat] /\ \A i \in 1 .. n : at[i] = at[i - 1] + WidthOf(fs, i, width)
        BY <1>1, <1>5 DEF WordsAt
      <3>3. (k + 1) - 1 = k
        BY <1>6
      <3>4. QED
        BY <1>6, <3>1, <3>2, <3>3
    <2>4. more = IF fs[k + 1].htype = "REQUIRED" THEN 1 ELSE 0
      <3>1. fs[k + 1] \in FieldLine /\ HTypeOf(Declared(fs, k + 1).type) = HType[fs[k + 1].htype]
        BY <1>1, <1>6, DeclaredParts, MemberPlace DEF Bindable
      <3>2. HType[fs[k + 1].htype] = HType.REQUIRED <=> fs[k + 1].htype = "REQUIRED"
        BY <3>1, LineParts DEF HType
      <3>3. QED
        BY <1>4, <3>1, <3>2
    <2> DEFINE c == Cardinality(RequiredBefore(fs, k))
    <2>5. c \in Nat /\ Cardinality(RequiredBefore(fs, k + 1)) = c + more
      BY <1>6, <2>4, RequiredCount
    <2>6. Positioned(next, fs, width, k + 1)
      <3> DEFINE f == at[k] + WidthOf(fs, k + 1, width)
                 r == c + more
      <3>1. more \in Nat
        OBVIOUS
      <3> HIDE DEF more, next, c
      <3>2. p.required_field_index = c
        BY <1>2 DEF c
      <3>3. next = Moved(p, k + 1, f, r)
        BY <1>2, <1>4, <2>2, <3>2
      <3>4. k + 1 \in Nat /\ f \in Nat /\ r \in Nat /\ p \in Iterators
        BY <1>2, <1>6, <2>3, <2>5, <3>1
      <3>5. f = at[k + 1] /\ r = Cardinality(RequiredBefore(fs, k + 1))
        BY <2>3, <2>5
      <3> HIDE DEF f, r
      <3>6. Positioned(Moved(p, k + 1, f, r), fs, width, k + 1)
        BY <3>4, <3>5, MovedThere, Zenon DEF at
      <3>7. QED
        BY <3>3, <3>6, Zenon
    <2>7. QED
      BY <1>1, <1>8, <2>6, Zenon
  <1>9. QED
    BY <1>7, <1>8

\* Behind the last line, where a search backwards begins, the first line is next.
LEMMA AdvancedBack ==
  ASSUME NEW fs, NEW width, Bindable(fs, width), NEW p \in Iterators, p.index = Len(fs)
  PROVE  Positioned(AdvanceIterator(Bind(fs, width), p), fs, width, 0)
  <1>1. PICK n \in Nat : n = Len(fs)
    BY DEF Bindable
  <1> DEFINE next == AdvanceIterator(Bind(fs, width), p)
             at == Begin(fs, width)
  <1>2. Bind(fs, width).field_count = n
    BY <1>1 DEF Bind
  <1>3. next = Moved(p, 0, 0, 0)
    BY <1>1, <1>2 DEF AdvanceIterator, Moved
  <1>4. at[0] = 0
    BY BeginsAt DEF WordsAt
  <1>5. Cardinality(RequiredBefore(fs, 0)) = 0
    BY RequiredCount, FS_EmptySet
  <1>6. Positioned(Moved(p, 0, 0, 0), fs, width, 0)
    <2>1. 0 \in Nat
      OBVIOUS
    <2>2. QED
      BY <1>4, <1>5, <2>1, MovedThere, Zenon DEF at
  <1>7. QED
    BY <1>3, <1>6, Zenon

\* An iterator on a line is positioned there, with what was declared for it.
LEMMA StandingParts ==
  ASSUME NEW fs, NEW width, Bindable(fs, width), NEW k \in 0 .. (Len(fs) - 1)
  PROVE  /\ Positioned(Standing(fs, width, k), fs, width, k)
         /\ \A x \in {"tag", "type", "data_offset", "data_size", "size_offset", "array_size"} :
              Standing(fs, width, k)[x] = Declared(fs, k + 1)[x]
  <1> DEFINE d == Declared(fs, k + 1)
             b == Begin(fs, width)[k]
             c == Cardinality(RequiredBefore(fs, k))
  <1>1. PICK n \in Nat : n = Len(fs)
    BY DEF Bindable
  <1>2. k \in Nat /\ k \in 0 .. n /\ k + 1 \in 1 .. Len(fs)
    BY <1>1
  <1>3. b \in Nat
    BY <1>1, <1>2, BeginsAt DEF WordsAt
  <1>4. c \in Nat
    BY <1>2, RequiredCount
  <1>5. d \in Declarations
    BY <1>2, DeclaredParts DEF Bindable
  <1>6. Standing(fs, width, k) =
          [index |-> k, field_info_index |-> b, required_field_index |-> c,
           type |-> d.type, tag |-> d.tag, data_offset |-> d.data_offset, size_offset |-> d.size_offset,
           data_size |-> d.data_size, array_size |-> d.array_size]
    BY DEF Standing, Iter
  <1> HIDE DEF d
  <1>7. d.type \in Nat /\ d.tag \in Nat /\ d.data_offset \in Nat /\ d.size_offset \in Nat
        /\ d.data_size \in Nat /\ d.array_size \in Nat
    BY <1>5 DEF Declarations
  <1>8. QED
    BY <1>2, <1>3, <1>4, <1>6, <1>7 DEF Positioned, Iterators, d

LEMMA IterSteps ==
  ASSUME NEW fs, NEW width, Bindable(fs, width)
  PROVE  /\ IterBegin(Bind(fs, width)) = Standing(fs, width, 0)
         /\ \A k \in 0 .. (Len(fs) - 1) :
              IterNext(Bind(fs, width), Standing(fs, width, k)) =
                Standing(fs, width, IF k + 1 = Len(fs) THEN 0 ELSE k + 1)
  <1>1. PICK n \in Nat \ {0} : n = Len(fs)
    BY EmptySeq DEF Bindable
  <1> DEFINE z == [index |-> 0, field_info_index |-> 0, required_field_index |-> 0, type |-> 0, tag |-> 0,
                   data_offset |-> 0, size_offset |-> 0, data_size |-> 0, array_size |-> 0]
  <1>2. Positioned(z, fs, width, 0)
    <2>1. Begin(fs, width)[0] = 0
      BY BeginsAt DEF WordsAt
    <2>2. Cardinality(RequiredBefore(fs, 0)) = 0
      BY RequiredCount, FS_EmptySet
    <2>3. QED
      BY <2>1, <2>2 DEF Positioned, Iterators
  <1>3. IterBegin(Bind(fs, width)) = LoadDescriptor(Bind(fs, width), z)
    BY DEF IterBegin
  <1> HIDE DEF z
  <1>4. IterBegin(Bind(fs, width)) = Standing(fs, width, 0)
    <2>1. 0 \in 0 .. (Len(fs) - 1)
      BY <1>1
    <2>2. QED
      BY <1>2, <1>3, <2>1, LoadedLine
  <1>5. ASSUME NEW k \in 0 .. (Len(fs) - 1)
        PROVE  IterNext(Bind(fs, width), Standing(fs, width, k)) =
                 Standing(fs, width, IF k + 1 = Len(fs) THEN 0 ELSE k + 1)
    <2> DEFINE j == IF k + 1 = Len(fs) THEN 0 ELSE k + 1
               next == AdvanceIterator(Bind(fs, width), Standing(fs, width, k))
    <2>1. Positioned(next, fs, width, j)
      BY StandingParts, Advanced
    <2>2. j \in 0 .. (Len(fs) - 1)
      BY <1>1
    <2> HIDE DEF j, next
    <2>3. LoadDescriptor(Bind(fs, width), next) = Standing(fs, width, j)
      BY <2>1, <2>2, LoadedLine
    <2>4. QED
      BY <2>3 DEF IterNext, next, j
  <1>6. QED
    BY <1>4, <1>5

=============================================================================
