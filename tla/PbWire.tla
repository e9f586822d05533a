------------------------------- MODULE PbWire -------------------------------
(* The byte level of the vendored nanopb runtime: varints, tags, fixed-width *)
(* integers and the input stream (pb_encode.c, pb_decode.c).                  *)
(*                                                                            *)
(* An unsigned integer of w bits is the set of its one bits, a subset of      *)
(* 0..w-1, so that 32- and 64-bit values keep their width; a byte is a subset *)
(* of 0..7 and bit 7 of a varint byte says that another byte follows.         *)
EXTENDS Integers, Sequences, FiniteSetsExt

-----------------------------------------------------------------------------
(* Machine integers. *)

Byte == SUBSET (0..7)

\* The number n >= 0 as a set of bits, and back.
Bits(n) == {i \in 0..30 : (n \div 2^i) % 2 = 1}
Num(v) ==
    LET top[i \in 0..31] == IF i = 0 THEN 0 ELSE 2 * top[i - 1] + (IF 31 - i \in v THEN 1 ELSE 0)
    IN  top[31]

Low(v, n) == v \cap (0..(n - 1))
Shl(v, n) == {i + n : i \in v}
Shr(v, n) == {i - n : i \in {j \in v : j >= n}}
Flip(v, n) == (0..(n - 1)) \ v

\* (int64_t) of a signed integer of n bits.
SignExtend(v, n) == IF n - 1 \in v THEN v \cup (n..63) ELSE v

-----------------------------------------------------------------------------
(* Encoding. *)

\* pb_encode_varint_32: seven bits of low at a time, at most four times; a byte
\* with the last bits of low and the first three of high; seven bits of high at
\* a time.  All bytes but the last say that there is another one.
EncodeVarint32(low, high) ==
    LET lows == Min({n \in 0..4 : n = 4 \/ (high = {} /\ Shr(low, 7 * (n + 1)) = {})})
        highs == Min({n \in 0..5 : Shr(high, 3 + 7 * n) = {}})
        septets == [i \in 1..lows |-> Low(Shr(low, 7 * (i - 1)), 7)]
                     \o <<Shr(low, 7 * lows) \cup Shl(Low(high, 3), 4)>>
                     \o [i \in 1..highs |-> Low(Shr(high, 3 + 7 * (i - 1)), 7)]
    IN  [i \in DOMAIN septets |-> septets[i] \cup (IF i < Len(septets) THEN {7} ELSE {})]

EncodeVarint(value) ==
    IF value \subseteq 0..6 THEN <<value>>
    ELSE EncodeVarint32(Low(value, 32), Shr(value, 32))

\* Zigzag: the sign goes to bit 0.
EncodeSvarint(value) ==
    LET shifted == Low(Shl(value, 1), 64)
    IN  EncodeVarint(IF 63 \in value THEN Flip(shifted, 64) ELSE shifted)

\* pb_encode_fixed32 and pb_encode_fixed64: n bytes, least significant first.
EncodeFixed(value, n) == [i \in 1..n |-> Low(Shr(value, 8 * (i - 1)), 8)]

EncodeTag(wiretype, number) == EncodeVarint(Shl(Bits(number), 3) \cup Bits(wiretype))

\* Writing without a look at the size of the buffer.
WriteAnyway(stream, bytes) == [stream EXCEPT !.out = @ \o bytes]
\* An output stream: what was written, the room of its buffer, and whether
\* every write so far fitted.  A refused write leaves the stream as it is.
Write(stream, bytes) ==
    IF ~stream.ok THEN stream
    ELSE IF Len(stream.out) + Len(bytes) > stream.room THEN [stream EXCEPT !.ok = FALSE]
    ELSE [stream EXCEPT !.out = @ \o bytes]

-----------------------------------------------------------------------------
(* Decoding.  An input stream is the sequence of the bytes left; a decoder    *)
(* returns whether it succeeded, the value, and the bytes left after it.      *)

Decoded(v, rest) == [ok |-> TRUE, v |-> v, rest |-> rest]
Malformed == [ok |-> FALSE, v |-> {}, rest |-> <<>>]

\* pb_read of count bytes.
Read(s, count) ==
    IF Len(s) < count THEN Malformed
    ELSE Decoded(SubSeq(s, 1, count), SubSeq(s, count + 1, Len(s)))

\* How many bytes the varint at the head of the stream has, 0 when the stream
\* ends before it does; and the value of its first n bytes.
VarintLength(s) ==
    LET ends == {n \in 1..Len(s) : 7 \notin s[n]} IN IF ends = {} THEN 0 ELSE Min(ends)
Septets(s, n) == UNION {Shl(Low(s[i], 7), 7 * (i - 1)) : i \in 1..n}

\* pb_decode_varint32_eof.  Bytes beyond the 32 bits may only pad with zeros or
\* extend the sign of a negative number, and of a fifth and last byte only four
\* bits fit.
DecodeVarint32(s) ==
    LET n == VarintLength(s)
        result == Low(Septets(s, Min({n, 5})), 32)
        sign_extension(i) == IF 7 * (i - 1) < 63 THEN 0..7 ELSE {0}
        valid_extension(i) == Low(s[i], 7) = {} \/ (31 \in result /\ s[i] = sign_extension(i))
        overflow == n > 10 \/ (n = 5 /\ s[5] \cap 4..6 # {}) \/ \E i \in 6..n : ~valid_extension(i)
    IN  IF n = 0 \/ overflow THEN Malformed
        ELSE Decoded(result, SubSeq(s, n + 1, Len(s)))

\* pb_decode_varint: at most ten bytes, bits beyond the 64th fall off.
DecodeVarint(s) ==
    LET n == VarintLength(s)
    IN  IF n \notin 1..10 THEN Malformed
        ELSE Decoded(Low(Septets(s, n), 64), SubSeq(s, n + 1, Len(s)))

DecodeSvarint(s) ==
    LET d == DecodeVarint(s)
        half == Shr(d.v, 1)
    IN  IF d.ok /\ 0 \in d.v THEN [d EXCEPT !.v = Flip(half, 64)] ELSE [d EXCEPT !.v = half]

DecodeFixed(s, n) ==
    LET d == Read(s, n)
    IN  IF ~d.ok THEN d
        ELSE [d EXCEPT !.v = UNION {Shl(d.v[i], 8 * (i - 1)) : i \in 1..n}]

DecodeTag(s) ==
    LET d == DecodeVarint32(s)
    IN  [ok |-> d.ok, tag |-> Num(Shr(d.v, 3)), wiretype |-> Num(Low(d.v, 3)), rest |-> d.rest]

-----------------------------------------------------------------------------
(* Skipping a field nobody knows. *)

SkipVarint(s) ==
    LET n == VarintLength(s)
    IN  IF n = 0 THEN Malformed ELSE Decoded({}, SubSeq(s, n + 1, Len(s)))

\* A length of 2^31 or more is longer than any stream.
SkipString(s) ==
    LET d == DecodeVarint32(s)
    IN  IF ~d.ok \/ 31 \in d.v THEN Malformed ELSE Read(d.rest, Num(d.v))

SkipField(s, wiretype) ==
    CASE wiretype = 0 -> SkipVarint(s)
      [] wiretype = 1 -> Read(s, 8)
      [] wiretype = 2 -> SkipString(s)
      [] wiretype = 5 -> Read(s, 4)
      [] OTHER -> Malformed
=============================================================================
