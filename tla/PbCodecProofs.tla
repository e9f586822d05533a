---------------------------- MODULE PbCodecProofs ---------------------------
(***************************************************************************)
(* The codec, for every field list that compiles and every message of it.  *)
(*                                                                         *)
(* Three invariants, each of which is kept by every step given the ones    *)
(* before it:                                                              *)
(*   Iterates   the field iterator stands on a line of its list, or is on  *)
(*              its way to one while a tag is searched;                    *)
(*   Journeys   for a message of the encoder: how much of it is written,   *)
(*              which of its bytes are left to read, which members of the  *)
(*              struct have been read back and which have their defaults;  *)
(*   Typed      whatever bytes arrive: what was written is within its      *)
(*              buffer, and the members of the struct within theirs.       *)
(***************************************************************************)
EXTENDS PbCodec, PbWireProofs

-----------------------------------------------------------------------------
(* The iterator of a run.                                                  *)

Fields(n) == Schemas[n].list
Width(n) == Schemas[n].width

\* On a line of its list, with all that was declared for it; and on its way
\* from one line to the next, which may be the one behind the last.
OnLine(p, n) == \E k \in 0 .. (Len(Fields(n)) - 1) : p = Standing(Fields(n), Width(n), k)
OnItsWay(p, n) ==
  /\ p \in Iterators
  /\ p.index = Len(Fields(n)) \/ \E k \in 0 .. (Len(Fields(n)) - 1) : Positioned(p, Fields(n), Width(n), k)

LEMMA SchemaParts ==
  ASSUME NEW n \in DOMAIN Schemas
  PROVE  /\ Bindable(Fields(n), Width(n))
         /\ Fields(n) \in Seq(FieldLine) /\ Fields(n) # <<>>
         /\ Descs[n] = Bind(Fields(n), Width(n))
         /\ Layouts[n] = Layout(Fields(n))
         /\ Descs[n].field_count = Len(Fields(n))
         /\ Descs[n].largest_tag \in Nat
  <1>1. /\ Bindable(Fields(n), Width(n))
        /\ Fields(n) \in Seq(FieldLine) /\ Fields(n) # <<>>
        /\ Descs[n] = Bind(Fields(n), Width(n))
        /\ Layouts[n] = Layout(Fields(n))
    BY SchemasAssumption DEF Bindable, Fields, Width, Descs, Layouts
  <1>2. /\ Bind(Fields(n), Width(n)).field_count = Len(Fields(n))
        /\ Bind(Fields(n), Width(n)).largest_tag = Last(Fields(n)).tag
    BY DEF Bind
  <1>3. Last(Fields(n)) \in FieldLine
    <2>1. Fields(n)[Len(Fields(n))] \in FieldLine
      BY <1>1, EmptySeq, LenProperties, ElementOfSeq
    <2>2. QED
      BY <2>1 DEF Last
  <1>4. Last(Fields(n)).tag \in Nat
    BY <1>3, LineParts
  <1>5. QED
    BY <1>1, <1>2, <1>4

LEMMA NumNat ==
  ASSUME NEW v
  PROVE  Num(v) \in Nat
  <1>1. PICK top \in [0 .. 31 -> Nat] : Counted(v, top) /\ Num(v) = top[31]
    BY NumCounts
  <1>2. QED
    BY <1>1

LEMMA OnLineBegin ==
  ASSUME NEW n \in DOMAIN Schemas
  PROVE  OnLine(IterBegin(Descs[n]), n)
  <1>1. IterBegin(Descs[n]) = Standing(Fields(n), Width(n), 0)
    BY SchemaParts, IterSteps
  <1>2. 0 \in 0 .. (Len(Fields(n)) - 1)
    BY SchemaParts, EmptySeq, LenProperties
  <1>3. QED
    BY <1>1, <1>2 DEF OnLine

LEMMA OnLineNext ==
  ASSUME NEW n \in DOMAIN Schemas, NEW p, OnLine(p, n)
  PROVE  OnLine(IterNext(Descs[n], p), n)
  <1>1. PICK k \in 0 .. (Len(Fields(n)) - 1) : p = Standing(Fields(n), Width(n), k)
    BY DEF OnLine
  <1> DEFINE j == IF k + 1 = Len(Fields(n)) THEN 0 ELSE k + 1
  <1>2. IterNext(Descs[n], p) = Standing(Fields(n), Width(n), j)
    <2>1. IterNext(Bind(Fields(n), Width(n)), Standing(Fields(n), Width(n), k)) = Standing(Fields(n), Width(n), j)
      BY SchemaParts, IterSteps
    <2>2. QED
      BY <1>1, <2>1, SchemaParts
  <1>3. j \in 0 .. (Len(Fields(n)) - 1)
    <2>1. PICK m \in Nat : m = Len(Fields(n))
      BY SchemaParts, LenProperties
    <2>2. QED
      BY <2>1
  <1> HIDE DEF j
  <1>4. QED
    BY <1>2, <1>3 DEF OnLine

LEMMA OnLineParts ==
  ASSUME NEW n \in DOMAIN Schemas, NEW p, OnLine(p, n)
  PROVE  /\ p \in Iterators
         /\ p.index \in 0 .. (Len(Fields(n)) - 1)
         /\ p.required_field_index = Cardinality(RequiredBefore(Fields(n), p.index))
         /\ \A x \in {"tag", "type", "data_offset", "data_size", "size_offset", "array_size"} :
              p[x] = Declared(Fields(n), p.index + 1)[x]
         /\ OnItsWay(p, n)
  <1>1. PICK k \in 0 .. (Len(Fields(n)) - 1) : p = Standing(Fields(n), Width(n), k)
    BY DEF OnLine
  <1>2. Positioned(p, Fields(n), Width(n), k)
    BY <1>1, SchemaParts, StandingParts
  <1>3. \A x \in {"tag", "type", "data_offset", "data_size", "size_offset", "array_size"} :
              p[x] = Declared(Fields(n), k + 1)[x]
    BY <1>1, SchemaParts, StandingParts
  <1>4. p \in Iterators /\ p.index = k /\ p.required_field_index = Cardinality(RequiredBefore(Fields(n), k))
    BY <1>2 DEF Positioned
  <1>5. QED
    BY <1>2, <1>3, <1>4, Zenon DEF OnItsWay

LEMMA OnLineRewind ==
  ASSUME NEW n \in DOMAIN Schemas, NEW p, OnLine(p, n)
  PROVE  OnItsWay([p EXCEPT !.index = Descs[n].field_count], n)
  <1>1. PICK m \in Nat : m = Len(Fields(n))
    BY SchemaParts, LenProperties
  <1>2. Descs[n].field_count = m
    BY <1>1, SchemaParts
  <1>3. p \in Iterators
    BY OnLineParts
  <1>4. [p EXCEPT !.index = m] \in Iterators /\ [p EXCEPT !.index = m].index = m
    BY <1>3 DEF Iterators
  <1>5. QED
    BY <1>1, <1>2, <1>4, Zenon DEF OnItsWay

LEMMA GoesOn ==
  ASSUME NEW n \in DOMAIN Schemas, NEW p, OnItsWay(p, n)
  PROVE  /\ \E k \in 0 .. (Len(Fields(n)) - 1) : Positioned(AdvanceIterator(Descs[n], p), Fields(n), Width(n), k)
         /\ OnItsWay(AdvanceIterator(Descs[n], p), n)
         /\ OnLine(LoadDescriptor(Descs[n], AdvanceIterator(Descs[n], p)), n)
  <1> DEFINE next == AdvanceIterator(Descs[n], p)
  <1>1. PICK m \in Nat \ {0} : m = Len(Fields(n))
    BY SchemaParts, EmptySeq, LenProperties
  <1>2. Bindable(Fields(n), Width(n)) /\ Descs[n] = Bind(Fields(n), Width(n))
    BY SchemaParts
  <1>3. \E k \in 0 .. (Len(Fields(n)) - 1) : Positioned(next, Fields(n), Width(n), k)
    <2>1. CASE p.index = Len(Fields(n))
      <3>1. Positioned(next, Fields(n), Width(n), 0)
        BY <1>2, <2>1, AdvancedBack DEF OnItsWay
      <3>2. 0 \in 0 .. (Len(Fields(n)) - 1)
        BY <1>1
      <3>3. QED
        BY <3>1, <3>2, Zenon
    <2>2. ASSUME NEW k \in 0 .. (Len(Fields(n)) - 1), Positioned(p, Fields(n), Width(n), k)
          PROVE  \E j \in 0 .. (Len(Fields(n)) - 1) : Positioned(next, Fields(n), Width(n), j)
      <3> DEFINE j == IF k + 1 = Len(Fields(n)) THEN 0 ELSE k + 1
      <3>1. Positioned(next, Fields(n), Width(n), j)
        BY <1>2, <2>2, Advanced
      <3>2. j \in 0 .. (Len(Fields(n)) - 1)
        BY <1>1
      <3> HIDE DEF j
      <3>3. QED
        BY <3>1, <3>2, Zenon
    <2>3. QED
      BY <2>1, <2>2, Zenon DEF OnItsWay
  <1> HIDE DEF next
  <1>4. PICK k \in 0 .. (Len(Fields(n)) - 1) : Positioned(next, Fields(n), Width(n), k)
    BY <1>3
  <1>5. OnItsWay(next, n)
    BY <1>4, Zenon DEF OnItsWay, Positioned
  <1>6. LoadDescriptor(Descs[n], next) = Standing(Fields(n), Width(n), k)
    BY <1>2, <1>4, LoadedLine
  <1>7. QED
    BY <1>3, <1>5, <1>6, Zenon DEF next, OnLine

Iterates ==
  /\ input \in Outgoing \cup Foreign
  /\ input.schema \in DOMAIN Schemas
  /\ IF stage = "search" THEN OnItsWay(it, input.schema) ELSE OnLine(it, input.schema)

LEMMA IteratesInit == Init => Iterates
  <1> SUFFICES ASSUME Init PROVE Iterates
    OBVIOUS
  <1>1. input \in Outgoing \cup Foreign /\ stage \in {"encode", "defaults"} /\ it = IterBegin(desc)
    BY DEF Init
  <1>2. input.schema \in DOMAIN Schemas
    BY <1>1, OutgoingAssumption, ForeignAssumption
  <1>3. OnLine(it, input.schema)
    BY <1>1, <1>2, OnLineBegin DEF desc
  <1>4. QED
    BY <1>1, <1>2, <1>3 DEF Iterates

LEMMA IteratesNext == Iterates /\ [Next]_vars => Iterates'
  <1> SUFFICES ASSUME Iterates, [Next]_vars PROVE Iterates'
    OBVIOUS
  <1> USE DEF Iterates
  <1>1. CASE EncodeField
    <2>1. stage # "search" /\ stage' # "search" /\ input' = input /\ (it' = it \/ it' = IterNext(desc, it))
      BY <1>1 DEF EncodeField
    <2>2. OnLine(IterNext(desc, it), input.schema)
      BY <2>1, OnLineNext DEF desc
    <2>3. QED
      BY <2>1, <2>2
  <1>2. CASE Deliver
    <2>1. stage' # "search" /\ input' = input /\ it' = IterBegin(desc)
      BY <1>2 DEF Deliver
    <2>2. QED
      BY <2>1, OnLineBegin DEF desc
  <1>3. CASE SetDefault
    <2>1. stage # "search" /\ stage' # "search" /\ input' = input /\ it' = IterNext(desc, it)
      BY <1>3 DEF SetDefault
    <2>2. QED
      BY <2>1, OnLineNext DEF desc
  <1>4. CASE ReadTag
    <2>1. stage # "search" /\ input' = input
      BY <1>4 DEF ReadTag
    <2>2. OnLine(it, input.schema)
      BY <2>1
    <2>3. \/ stage' = "rejected" /\ it' = it
          \/ \E tag \in Nat : stage' = FindBegins(tag).stage /\ it' = FindBegins(tag).it
      <3>1. DecodeTag(left).tag \in Nat
        BY NumNat DEF DecodeTag
      <3>2. QED
        BY <1>4, <3>1 DEF ReadTag
    <2>4. ASSUME NEW tag \in Nat, stage' = FindBegins(tag).stage, it' = FindBegins(tag).it
          PROVE  IF stage' = "search" THEN OnItsWay(it', input.schema) ELSE OnLine(it', input.schema)
      <3> DEFINE back == it.tag # tag /\ tag <= desc.largest_tag /\ tag < it.tag
      <3>1. /\ stage' = IF it.tag = tag THEN "field" ELSE IF tag > desc.largest_tag THEN "skip" ELSE "search"
            /\ it' = IF back THEN [it EXCEPT !.index = desc.field_count] ELSE it
        BY <2>4 DEF FindBegins
      <3>2. CASE back
        <4>1. desc.largest_tag \in Nat
          BY SchemaParts DEF desc
        <4>2. stage' = "search"
          BY <3>1, <3>2, <4>1
        <4>3. QED
          BY <2>2, <3>1, <3>2, <4>2, OnLineRewind DEF desc
      <3>3. CASE ~back
        BY <2>2, <3>1, <3>3, OnLineParts
      <3>4. QED
        BY <3>2, <3>3
    <2>5. QED
      BY <2>1, <2>2, <2>3, <2>4
  <1>5. CASE Search
    <2> DEFINE next == AdvanceIterator(desc, it)
    <2>1. /\ stage = "search" /\ input' = input
          /\ it' = (IF LowBitsMatch(cur.tag, next) \/ next.index = cur.start THEN LoadDescriptor(desc, next) ELSE next)
          /\ stage' = (IF Matches(cur.tag, next) THEN "field" ELSE IF next.index = cur.start THEN "skip" ELSE "search")
      BY <1>5 DEF Search
    <2>2. OnItsWay(next, input.schema) /\ OnLine(LoadDescriptor(desc, next), input.schema)
      BY <2>1, GoesOn DEF desc
    <2>3. OnItsWay(LoadDescriptor(desc, next), input.schema)
      BY <2>2, OnLineParts
    <2>4. Matches(cur.tag, next) => LowBitsMatch(cur.tag, next)
      BY DEF Matches
    <2> HIDE DEF next
    <2>5. QED
      BY <2>1, <2>2, <2>3, <2>4
  <1>6. CASE Skip
    BY <1>6 DEF Skip
  <1>7. CASE DecodeField
    BY <1>7 DEF DecodeField
  <1>8. CASE Finish
    BY <1>8 DEF Finish
  <1>9. CASE Done \/ UNCHANGED vars
    BY <1>9 DEF Done, vars
  <1>10. QED
    BY <1>1, <1>2, <1>3, <1>4, <1>5, <1>6, <1>7, <1>8, <1>9 DEF Next

LEMMA IteratesDeclared == Iterates => LoadedAsDeclared
  <1> SUFFICES ASSUME Iterates, stage # "search" PROVE LoadedAsDeclared
    BY DEF LoadedAsDeclared
  <1> DEFINE n == input.schema
             d == Declared(list, it.index + 1)
  <1>1. n \in DOMAIN Schemas /\ OnLine(it, n) /\ list = Fields(n)
    BY DEF Iterates, list, Fields
  <1>2. /\ it.required_field_index = Cardinality(RequiredBefore(list, it.index))
        /\ \A x \in {"tag", "type", "data_offset", "data_size", "size_offset", "array_size"} : it[x] = d[x]
    BY <1>1, OnLineParts
  <1>3. DOMAIN d = {"tag", "type", "data_offset", "data_size", "size_offset", "array_size"}
        /\ d = [x \in DOMAIN d |-> d[x]]
    BY DEF Declared
  <1>4. [x \in DOMAIN d |-> it[x]] = d
    <2> HIDE DEF d
    <2> QED
      BY <1>2, <1>3
  <1>5. QED
    BY <1>2, <1>4 DEF LoadedAsDeclared, RequiredBefore

\* Whatever call is running, the field iterator of pb_common.c holds a line of the
\* field list as pb.h packed it: for every field list that compiles, in every
\* descriptor width, and through every circular search of pb_field_iter_find.
THEOREM IteratorLoaded == Spec => []LoadedAsDeclared
  <1>1. Init => Iterates
    BY IteratesInit
  <1>2. Iterates /\ [Next]_vars => Iterates'
    BY IteratesNext
  <1>3. Iterates => LoadedAsDeclared
    BY IteratesDeclared
  <1>4. QED
    BY <1>1, <1>2, <1>3, PTL DEF Spec

-----------------------------------------------------------------------------
(* One value on the wire.                                                  *)

\* The iterator stands on this line.
On(p, f) ==
  /\ f \in FieldLine
  /\ p.tag = f.tag /\ p.data_size = f.size /\ p.array_size = f.count
  /\ HTypeOf(p.type) = HType[f.htype] /\ LTypeOf(p.type) = LType[LTypeMap[f.ltype]]

\* What is written of a value behind the tag of its field.
Payload(f, v) == EncodeItem(LType[LTypeMap[f.ltype]], f.size, v)

LEMMA SizeBits ==
  ASSUME NEW f \in FieldLine
  PROVE  8 * f.size \in {8, 16, 32, 64} /\ f.size \in Nat /\ (f.size = 8 <=> 8 * f.size = 64)
  BY LineParts

LEMMA Extended ==
  ASSUME NEW bits \in {8, 16, 32, 64}, NEW v \in SUBSET (0 .. (bits - 1))
  PROVE  /\ SignExtend(v, bits) \in UInt64
         /\ Low(SignExtend(v, bits), bits) = v
         /\ bits # 64 => SignExtend(Low(SignExtend(v, bits), 32), 32) = SignExtend(v, bits)
         /\ v \in UInt64
         /\ Low(v, bits) = v
         /\ Low(Low(SignExtend(v, bits), 64), bits) = v
  <1> DEFINE w == SignExtend(v, bits)
  <1>1. \A x : x \in w <=> x \in v \/ (bits - 1 \in v /\ x \in bits .. 63)
    BY DEF SignExtend
  <1> HIDE DEF w
  <1>2. v \in UInt64 /\ w \in UInt64
    <2>1. \A x \in v : x \in 0 .. 63
      OBVIOUS
    <2>2. ASSUME NEW x \in w PROVE x \in 0 .. 63
      <3>1. x \in v \/ x \in bits .. 63
        BY <1>1, Zenon
      <3>2. \A y \in bits .. 63 : y \in 0 .. 63
        OBVIOUS
      <3>3. QED
        BY <2>1, <3>1, <3>2, Zenon
    <2>3. QED
      BY <2>1, <2>2, Zenon DEF UInt64
  <1>3. \A n \in Int : \A x : x \in Low(w, n) <=> x \in w /\ x \in Int /\ 0 <= x /\ x < n
    BY LowBit
  <1>4. Low(w, bits) = v
    <2>1. ASSUME NEW x PROVE x \in Low(w, bits) <=> x \in v
      <3>1. x \in v => x \in Int /\ 0 <= x /\ x < bits
        OBVIOUS
      <3>2. x \in bits .. 63 => ~(x < bits)
        OBVIOUS
      <3>3. bits \in Int
        OBVIOUS
      <3>4. x \in Low(w, bits) <=> x \in w /\ x \in Int /\ 0 <= x /\ x < bits
        BY <1>3, <3>3
      <3>5. QED
        BY <1>1, <3>1, <3>2, <3>4, Zenon
    <2>2. QED
      BY <2>1
  <1>5. ASSUME bits # 64 PROVE SignExtend(Low(w, 32), 32) = w
    <2>1. bits \in {8, 16, 32}
      BY <1>5
    <2>2. \A x : x \in SignExtend(Low(w, 32), 32) <=> x \in Low(w, 32) \/ (31 \in Low(w, 32) /\ x \in 32 .. 63)
      BY DEF SignExtend
    <2>3. 31 \in w <=> bits - 1 \in v
      BY <1>1, <2>1
    <2>4. ASSUME NEW x PROVE x \in SignExtend(Low(w, 32), 32) <=> x \in w
      <3>1. x \in Low(w, 32) <=> x \in w /\ x \in Int /\ 0 <= x /\ x < 32
        BY <1>3
      <3>2. 31 \in Low(w, 32) <=> 31 \in w
        BY <1>3
      <3>3. x \in w => x \in 0 .. 63
        BY <1>2 DEF UInt64
      <3>4. CASE bits - 1 \in v
        BY <1>1, <2>1, <2>2, <2>3, <3>1, <3>2, <3>3, <3>4
      <3>5. CASE bits - 1 \notin v
        BY <1>1, <2>1, <2>2, <2>3, <3>1, <3>2, <3>3, <3>5
      <3>6. QED
        BY <3>4, <3>5
    <2>5. QED
      BY <2>4
  <1>6. Low(v, bits) = v /\ Low(w, 64) = w
    <2>1. bits \in Int /\ 64 \in Int
      OBVIOUS
    <2>2. w \in SUBSET (0 .. (64 - 1))
      BY <1>2 DEF UInt64
    <2>3. QED
      BY <2>1, <2>2, LowAll
  <1>7. QED
    BY <1>2, <1>4, <1>5, <1>6 DEF w

LEMMA ValueBits ==
  ASSUME NEW f \in FieldLine, NEW v \in Values(f)
  PROVE  v \in SUBSET (0 .. (8 * f.size - 1))
  <1>1. 8 * f.size \in {8, 16, 32, 64}
    BY SizeBits
  <1>2. QED
    BY <1>1 DEF Values

\* What an ltype can be, and what is written for each.
LEMMA LTypes ==
  ASSUME NEW f \in FieldLine
  PROVE  /\ LType[LTypeMap[f.ltype]] \in {0, 1, 2, 3, 4, 5}
         /\ LType[LTypeMap[f.ltype]] = 0 => f.ltype = "BOOL"
  <1>1. LTypeMap[f.ltype] \in {"BOOL", "VARINT", "UVARINT", "SVARINT", "FIXED32", "FIXED64"}
    BY LineParts DEF LTypeMap
  <1>2. LTypeMap[f.ltype] = "BOOL" => f.ltype = "BOOL"
    BY LineParts DEF LTypeMap
  <1>3. QED
    BY <1>1, <1>2 DEF LType

LEMMA Payloads ==
  ASSUME NEW f \in FieldLine, NEW v \in Values(f), NEW t, t = LType[LTypeMap[f.ltype]]
  PROVE  /\ t = 0 => Payload(f, v) = EncodeVarint(v) /\ v \in UInt32 /\ v = (IF v = {} THEN {} ELSE {0})
         /\ t = 1 => Payload(f, v) = EncodeVarint(SignExtend(v, 8 * f.size))
         /\ t = 2 => Payload(f, v) = EncodeVarint(v)
         /\ t = 3 => Payload(f, v) = EncodeSvarint(SignExtend(v, 8 * f.size))
         /\ t \in {4, 5} => Payload(f, v) = EncodeFixed(v, f.size)
  <1>1. LType.UVARINT = 2 /\ LType.SVARINT = 3 /\ LType.FIXED32 = 4 /\ LType.FIXED64 = 5
    BY DEF LType
  <1>2. CASE t = 0
    <2>1. Payload(f, v) = EncodeVarint(SignExtend(v, 8 * f.size))
      BY <1>1, <1>2 DEF Payload, EncodeItem
    <2>2. v \in {{}, {0}}
      BY <1>2, LTypes DEF Values
    <2>3. 8 * f.size \in {8, 16, 32, 64}
      BY SizeBits
    <2>4. SignExtend(v, 8 * f.size) = v
      BY <2>2, <2>3 DEF SignExtend
    <2>5. QED
      BY <1>2, <2>1, <2>2, <2>4 DEF UInt32
  <1>3. CASE t # 0
    BY <1>1, <1>3 DEF Payload, EncodeItem
  <1>4. QED
    BY <1>2, <1>3

\* The bytes of a value; those of a varint spell something.
LEMMA PayloadBytes ==
  ASSUME NEW f \in FieldLine, NEW v \in Values(f)
  PROVE  /\ Payload(f, v) \in Bytes /\ Len(Payload(f, v)) \in 1 .. 10
         /\ LType[LTypeMap[f.ltype]] \in {0, 1, 2, 3} => \E u : Spells(Payload(f, v), u)
         /\ LType[LTypeMap[f.ltype]] \in {4, 5} => Len(Payload(f, v)) = f.size
  <1> DEFINE t == LType[LTypeMap[f.ltype]]
             w == SignExtend(v, 8 * f.size)
  <1>1. t \in {0, 1, 2, 3, 4, 5}
    BY LTypes
  <1>2. v \in UInt64 /\ w \in UInt64
    BY SizeBits, ValueBits, Extended
  <1> HIDE DEF w
  <1>3. \A x \in UInt64 : ShortSpelling(EncodeVarint(x), x)
    BY VarintSpelled
  <1>4. ASSUME NEW s, NEW x, ShortSpelling(s, x)
        PROVE  s \in Bytes /\ Len(s) \in 1 .. 10 /\ Spells(s, x)
    <2>1. s \in Bytes /\ Len(s) >= 1 /\ Len(s) <= 10 /\ Spells(s, x)
      BY <1>4 DEF ShortSpelling, Spells
    <2>2. Len(s) \in Nat
      BY <2>1, LenProperties DEF Bytes
    <2>3. \A m \in Nat : m >= 1 /\ m <= 10 => m \in 1 .. 10
      OBVIOUS
    <2>4. QED
      BY <2>1, <2>2, <2>3, Zenon
  <1>5. CASE t \in {0, 2}
    BY <1>2, <1>3, <1>4, <1>5, Payloads
  <1>6. CASE t = 1
    BY <1>2, <1>3, <1>4, <1>6, Payloads DEF w
  <1>7. CASE t = 3
    <2> DEFINE shifted == Low(Shl(w, 1), 64)
               z == IF 63 \in w THEN Flip(shifted, 64) ELSE shifted
    <2>1. Payload(f, v) = EncodeVarint(z)
      BY <1>7, Payloads DEF w, EncodeSvarint
    <2>2. z \in UInt64
      <3>1. \A x : x \in shifted => x \in Int /\ 0 <= x /\ x < 64
        BY LowBit
      <3>2. \A x : x \in Flip(shifted, 64) => x \in Int /\ 0 <= x /\ x < 64
        BY FlipBit
      <3> HIDE DEF shifted
      <3>3. QED
        BY <3>1, <3>2 DEF UInt64
    <2> HIDE DEF z
    <2>3. QED
      BY <2>1, <2>2, <1>3, <1>4, <1>7
  <1>8. CASE t \in {4, 5}
    <2>1. v \in SUBSET Int
      BY <1>2 DEF UInt64
    <2>2. f.size \in {1, 2, 4, 8} /\ f.size \in Nat
      BY LineParts
    <2>3. EncodeFixed(v, f.size) \in Bytes /\ Len(EncodeFixed(v, f.size)) = f.size
      BY <2>1, <2>2, FixedBytes
    <2>4. Payload(f, v) = EncodeFixed(v, f.size)
      BY <1>8, Payloads
    <2>5. f.size \in 1 .. 10 /\ t \notin {0, 1, 2, 3}
      BY <1>8, <2>2
    <2>6. QED
      BY <2>3, <2>4, <2>5, Zenon
  <1>9. QED
    BY <1>1, <1>5, <1>6, <1>7, <1>8

-----------------------------------------------------------------------------
\* What is written of a value, packed or behind its tag, is read again.
WireFor(f) == WireTypeOf(LType[LTypeMap[f.ltype]])
Fetched(v, rest) == [read |-> TRUE, ok |-> TRUE, v |-> v, rest |-> rest]

\* Which decoder reads a value, and what is made of what it read.
Forms(f, s, res) ==
  LET t == LType[LTypeMap[f.ltype]]
      bits == 8 * f.size
      d == IF t = 3 THEN DecodeSvarint(s) ELSE DecodeVarint(s)
      d32 == DecodeVarint32(s)
      fixed == DecodeFixed(s, f.size)
      svalue == IF t = 3 \/ f.size = 8 THEN d.v ELSE SignExtend(Low(d.v, 32), 32)
  IN  /\ t = 0 => res = Checked(d32, IF d32.v = {} THEN {} ELSE {0}, TRUE)
      /\ t = 2 => res = Checked(d, Low(d.v, bits), Low(d.v, bits) = d.v)
      /\ t \in {1, 3} => res = Checked(d, Low(svalue, bits), SignExtend(Low(svalue, bits), bits) = svalue)
      /\ t \in {4, 5} => res = Checked(fixed, fixed.v, TRUE)

LEMMA BasicForm ==
  ASSUME NEW f, NEW p, On(p, f), NEW s, NEW wt \in {255, WireFor(f)}
  PROVE  Forms(f, s, DecodeBasic(p, wt, s))
  <1> DEFINE t == LType[LTypeMap[f.ltype]]
             bits == 8 * f.size
             d == IF t = 3 THEN DecodeSvarint(s) ELSE DecodeVarint(s)
             d32 == DecodeVarint32(s)
             fixed == DecodeFixed(s, f.size)
             svalue == IF t = 3 \/ f.size = 8 THEN d.v ELSE SignExtend(Low(d.v, 32), 32)
             res == DecodeBasic(p, wt, s)
  <1>1. f \in FieldLine /\ p.data_size = f.size /\ LTypeOf(p.type) = t
    BY DEF On
  <1>2. t \in {0, 1, 2, 3, 4, 5} /\ wt \in {WireTypeOf(t), 255}
    BY <1>1, LTypes DEF WireFor
  <1>3. LType.BOOL = 0 /\ LType.VARINT = 1 /\ LType.UVARINT = 2 /\ LType.SVARINT = 3
    BY DEF LType
  <1> HIDE DEF t
  <1> DEFINE Goal == /\ t = 0 => res = Checked(d32, IF d32.v = {} THEN {} ELSE {0}, TRUE)
                     /\ t = 2 => res = Checked(d, Low(d.v, bits), Low(d.v, bits) = d.v)
                     /\ t \in {1, 3} => res = Checked(d, Low(svalue, bits), SignExtend(Low(svalue, bits), bits) = svalue)
                     /\ t \in {4, 5} => res = Checked(fixed, fixed.v, TRUE)
  <1>4. t = 0 => Goal
    BY <1>1, <1>2, <1>3 DEF DecodeBasic
  <1>5. t = 2 => Goal
    BY <1>1, <1>2, <1>3 DEF DecodeBasic, Clamped
  <1>6. t = 1 => Goal
    BY <1>1, <1>2, <1>3 DEF DecodeBasic
  <1>7. t = 3 => Goal
    BY <1>1, <1>2, <1>3 DEF DecodeBasic
  <1>8. t = 4 => Goal
    BY <1>1, <1>2, <1>3 DEF DecodeBasic
  <1>9. t = 5 => Goal
    BY <1>1, <1>2, <1>3 DEF DecodeBasic
  <1>10. Goal
    <2> HIDE DEF Goal
    <2> QED
      BY <1>2, <1>4, <1>5, <1>6, <1>7, <1>8, <1>9
  <1>11. QED
    BY <1>10 DEF Forms, t

LEMMA BasicRead ==
  ASSUME NEW f, NEW p, On(p, f), NEW v \in Values(f), NEW rest \in Bytes,
         NEW wt \in {255, WireFor(f)}
  PROVE  DecodeBasic(p, wt, Payload(f, v) \o rest) = Fetched(v, rest)
  <1> DEFINE t == LType[LTypeMap[f.ltype]]
             s == Payload(f, v) \o rest
             bits == 8 * f.size
             w == SignExtend(v, bits)
  <1>1. f \in FieldLine /\ p.data_size = f.size /\ LTypeOf(p.type) = t
    BY DEF On
  <1>2. t \in {0, 1, 2, 3, 4, 5}
    BY <1>1, LTypes
  <1>3. bits \in {8, 16, 32, 64} /\ (f.size = 8 <=> bits = 64) /\ f.size \in Nat
    BY <1>1, SizeBits
  <1>4. v \in SUBSET (0 .. (bits - 1))
    BY <1>1, ValueBits
  <1>5. /\ w \in UInt64 /\ Low(w, bits) = v /\ v \in UInt64 /\ Low(v, bits) = v
        /\ bits # 64 => SignExtend(Low(w, 32), 32) = w
    BY <1>3, <1>4, Extended
  <1>6. /\ t = 0 => Payload(f, v) = EncodeVarint(v) /\ v \in UInt32 /\ v = (IF v = {} THEN {} ELSE {0})
        /\ t = 1 => Payload(f, v) = EncodeVarint(w)
        /\ t = 2 => Payload(f, v) = EncodeVarint(v)
        /\ t = 3 => Payload(f, v) = EncodeSvarint(w)
        /\ t \in {4, 5} => Payload(f, v) = EncodeFixed(v, f.size)
    BY <1>1, Payloads
  <1>7. LType.BOOL = 0 /\ LType.VARINT = 1 /\ LType.UVARINT = 2 /\ LType.SVARINT = 3
    BY DEF LType
  <1>8. wt \in {WireTypeOf(t), 255}
    BY DEF WireFor
  <1>9. \A u, r : Decoded(u, r).ok = TRUE /\ Decoded(u, r).v = u /\ Decoded(u, r).rest = r
    BY DEF Decoded
  <1> DEFINE d == IF t = 3 THEN DecodeSvarint(s) ELSE DecodeVarint(s)
             d32 == DecodeVarint32(s)
             fixed == DecodeFixed(s, f.size)
             svalue == IF t = 3 \/ f.size = 8 THEN d.v ELSE SignExtend(Low(d.v, 32), 32)
             res == DecodeBasic(p, wt, s)
  <1>10. /\ t = 0 => res = Checked(d32, IF d32.v = {} THEN {} ELSE {0}, TRUE)
         /\ t = 2 => res = Checked(d, Low(d.v, bits), Low(d.v, bits) = d.v)
         /\ t \in {1, 3} => res = Checked(d, Low(svalue, bits), SignExtend(Low(svalue, bits), bits) = svalue)
         /\ t \in {4, 5} => res = Checked(fixed, fixed.v, TRUE)
    <2>1. Forms(f, s, res)
      <3> HIDE DEF s
      <3> QED
        BY BasicForm
    <2>2. QED
      BY <2>1, Zenon DEF Forms
  <1> HIDE DEF res, w
  <1>11. CASE t = 0
    <2>1. d32 = Decoded(v, rest)
      BY <1>6, <1>11, Varint32RoundTrip
    <2>2. d32.v = v
      BY <2>1, <1>9
    <2> HIDE DEF d32
    <2>3. (IF d32.v = {} THEN {} ELSE {0}) = v
      BY <1>6, <1>11, <2>2
    <2> DEFINE u == IF d32.v = {} THEN {} ELSE {0}
    <2>4. d32.ok = TRUE /\ d32.rest = rest
      BY <2>1, <1>9
    <2>5. Checked(d32, u, TRUE) = [read |-> d32.ok, ok |-> (d32.ok /\ TRUE), v |-> u, rest |-> d32.rest]
      BY DEF Checked
    <2>6. Checked(d32, u, TRUE) = Fetched(v, rest)
      BY <2>3, <2>4, <2>5 DEF Fetched
    <2>7. QED
      BY <1>10, <1>11, <2>6 DEF res, s
  <1>12. CASE t = 2
    <2>1. DecodeVarint(s) = Decoded(v, rest)
      BY <1>5, <1>6, <1>12, VarintRoundTrip
    <2>2. d = Decoded(v, rest) /\ d.v = v
      BY <1>9, <1>12, <2>1
    <2> HIDE DEF d
    <2>3. Low(d.v, bits) = v
      BY <1>5, <2>2
    <2>11. d.ok = TRUE /\ d.rest = rest
      BY <2>2, <1>9
    <2>12. Checked(d, Low(d.v, bits), Low(d.v, bits) = d.v) = [read |-> d.ok, ok |-> (d.ok /\ Low(d.v, bits) = d.v), v |-> Low(d.v, bits), rest |-> d.rest]
      BY DEF Checked
    <2>13. Checked(d, Low(d.v, bits), Low(d.v, bits) = d.v) = Fetched(v, rest)
      BY <2>2, <2>3, <2>11, <2>12 DEF Fetched
    <2>14. QED
      BY <1>10, <1>12, <2>13 DEF res, s
  <1>13. CASE t = 1
    <2>1. DecodeVarint(s) = Decoded(w, rest)
      BY <1>5, <1>6, <1>13, VarintRoundTrip
    <2>2. d = Decoded(w, rest) /\ d.v = w
      BY <1>9, <1>13, <2>1
    <2> HIDE DEF d
    <2>3. svalue = w
      BY <1>3, <1>5, <1>13, <2>2
    <2> HIDE DEF svalue
    <2>4. Low(svalue, bits) = v /\ SignExtend(v, bits) = svalue
      BY <1>5, <2>3 DEF w
    <2>11. d.ok = TRUE /\ d.rest = rest
      BY <2>2, <1>9
    <2>12. Checked(d, Low(svalue, bits), SignExtend(Low(svalue, bits), bits) = svalue) = [read |-> d.ok, ok |-> (d.ok /\ SignExtend(Low(svalue, bits), bits) = svalue), v |-> Low(svalue, bits), rest |-> d.rest]
      BY DEF Checked
    <2>13. Checked(d, Low(svalue, bits), SignExtend(Low(svalue, bits), bits) = svalue) = Fetched(v, rest)
      BY <2>4, <2>11, <2>12 DEF Fetched
    <2>14. QED
      BY <1>10, <1>13, <2>13 DEF res, s
  <1>14. CASE t = 3
    <2>1. DecodeSvarint(s) = Decoded(w, rest)
      BY <1>5, <1>6, <1>14, SvarintRoundTrip
    <2>2. d = Decoded(w, rest) /\ d.v = w
      BY <1>9, <1>14, <2>1
    <2> HIDE DEF d
    <2>3. svalue = w
      BY <1>14, <2>2
    <2> HIDE DEF svalue
    <2>4. Low(svalue, bits) = v /\ SignExtend(v, bits) = svalue
      BY <1>5, <2>3 DEF w
    <2>11. d.ok = TRUE /\ d.rest = rest
      BY <2>2, <1>9
    <2>12. Checked(d, Low(svalue, bits), SignExtend(Low(svalue, bits), bits) = svalue) = [read |-> d.ok, ok |-> (d.ok /\ SignExtend(Low(svalue, bits), bits) = svalue), v |-> Low(svalue, bits), rest |-> d.rest]
      BY DEF Checked
    <2>13. Checked(d, Low(svalue, bits), SignExtend(Low(svalue, bits), bits) = svalue) = Fetched(v, rest)
      BY <2>4, <2>11, <2>12 DEF Fetched
    <2>14. QED
      BY <1>10, <1>14, <2>13 DEF res, s
  <1>15. CASE t \in {4, 5}
    <2>1. fixed = Decoded(v, rest)
      BY <1>3, <1>4, <1>6, <1>15, FixedRoundTrip
    <2>2. fixed.v = v
      BY <2>1, <1>9
    <2> HIDE DEF fixed
    <2>11. fixed.ok = TRUE /\ fixed.rest = rest
      BY <2>1, <1>9
    <2>12. Checked(fixed, fixed.v, TRUE) = [read |-> fixed.ok, ok |-> (fixed.ok /\ TRUE), v |-> fixed.v, rest |-> fixed.rest]
      BY DEF Checked
    <2>13. Checked(fixed, fixed.v, TRUE) = Fetched(v, rest)
      BY <2>2, <2>11, <2>12 DEF Fetched
    <2>14. QED
      BY <1>10, <1>15, <2>13 DEF res, s
  <1>16. QED
    BY <1>2, <1>11, <1>12, <1>13, <1>14, <1>15

\* If it is cut short, nothing is taken of it.
LEMMA BasicCut ==
  ASSUME NEW f, NEW p, On(p, f), NEW v \in Values(f), NEW k \in 0 .. (Len(Payload(f, v)) - 1), NEW wt
  PROVE  ~DecodeBasic(p, wt, SubSeq(Payload(f, v), 1, k)).ok
  <1> DEFINE t == LType[LTypeMap[f.ltype]]
             s == SubSeq(Payload(f, v), 1, k)
  <1>1. f \in FieldLine /\ p.data_size = f.size /\ LTypeOf(p.type) = t
    BY DEF On
  <1>2. t \in {0, 1, 2, 3, 4, 5}
    BY <1>1, LTypes
  <1>3. ~Malformed.ok
    BY DEF Malformed
  <1>4. \A e, u, b : ~e.ok => ~Checked(e, u, b).ok
    BY DEF Checked
  <1>5. t \in {0, 1, 2, 3} => DecodeVarint(s) = Malformed /\ DecodeVarint32(s) = Malformed
    <2>1. SUFFICES ASSUME t \in {0, 1, 2, 3} PROVE DecodeVarint(s) = Malformed /\ DecodeVarint32(s) = Malformed
      OBVIOUS
    <2>2. PICK u : Spells(Payload(f, v), u)
      BY <1>1, <2>1, PayloadBytes
    <2>3. QED
      BY <2>2, VarintCutShort
  <1>6. t \in {0, 1, 2, 3} => ~DecodeSvarint(s).ok
    <2>1. \A h : [Malformed EXCEPT !.v = h].ok = FALSE
      BY DEF Malformed
    <2>2. QED
      BY <1>3, <1>5, <2>1 DEF DecodeSvarint
  <1>7. t \in {4, 5} => ~DecodeFixed(s, f.size).ok
    <2>1. SUFFICES ASSUME t \in {4, 5} PROVE ~DecodeFixed(s, f.size).ok
      OBVIOUS
    <2>2. Payload(f, v) \in Bytes /\ Len(Payload(f, v)) = f.size /\ f.size \in Nat
      BY <1>1, <2>1, PayloadBytes, LineParts
    <2>3. Len(s) < f.size
      <3>1. PICK m \in Nat : m = Len(Payload(f, v))
        BY <2>2
      <3>2. k \in 0 .. (m - 1)
        BY <3>1
      <3>3. Len(s) = k
        <4> HIDE DEF t
        <4> QED
          BY <2>2, <3>1, <3>2, SubSeqProperties DEF Bytes
      <3>4. k < m
        BY <3>2
      <3>5. QED
        BY <2>2, <3>1, <3>3, <3>4
    <2>4. Read(s, f.size) = Malformed
      BY <2>3 DEF Read
    <2>5. QED
      BY <2>4, <1>3 DEF DecodeFixed
  <1> HIDE DEF s, t
  <1>8. LType.BOOL = 0 /\ LType.VARINT = 1 /\ LType.UVARINT = 2 /\ LType.SVARINT = 3
    BY DEF LType
  <1>9. CASE wt \notin {WireTypeOf(t), 255}
    BY <1>1, <1>3, <1>4, <1>9 DEF DecodeBasic
  <1>10. CASE wt \in {WireTypeOf(t), 255}
    <2> DEFINE d == IF t = 3 THEN DecodeSvarint(s) ELSE DecodeVarint(s)
               svalue == IF t = 3 \/ f.size = 8 THEN d.v ELSE SignExtend(Low(d.v, 32), 32)
               d32 == DecodeVarint32(s)
               fixed == DecodeFixed(s, f.size)
               bits == 8 * f.size
               res == DecodeBasic(p, wt, s)
    <2>0. /\ t = 0 => res = Checked(d32, IF d32.v = {} THEN {} ELSE {0}, TRUE)
          /\ t = 2 => res = Checked(d, Low(d.v, bits), Low(d.v, bits) = d.v)
          /\ t \in {1, 3} => res = Checked(d, Low(svalue, bits), SignExtend(Low(svalue, bits), bits) = svalue)
          /\ t \in {4, 5} => res = Checked(fixed, fixed.v, TRUE)
      <3>1. wt \in {255, WireFor(f)}
        BY <1>10 DEF WireFor, t
      <3>2. Forms(f, s, res)
        BY <3>1, BasicForm
      <3>3. QED
        BY <3>2, Zenon DEF Forms, t
    <2>1. t = 0 => ~d32.ok
      BY <1>3, <1>5
    <2>2. t \in {1, 2} => ~d.ok
      BY <1>3, <1>5
    <2>3. t = 3 => ~d.ok
      BY <1>6
    <2>4. t \in {4, 5} => ~fixed.ok
      BY <1>7
    <2> HIDE DEF d, svalue, d32, fixed, bits, res
    <2> DEFINE u == IF d32.v = {} THEN {} ELSE {0}
               sized == Low(d.v, bits)
               signed == Low(svalue, bits)
    <2>5. /\ Checked(d32, u, TRUE).ok => d32.ok
          /\ Checked(d, sized, sized = d.v).ok => d.ok
          /\ Checked(d, signed, SignExtend(signed, bits) = svalue).ok => d.ok
          /\ Checked(fixed, fixed.v, TRUE).ok => fixed.ok
      <3> HIDE DEF u, sized, signed
      <3> QED
        BY DEF Checked
    <2>6. t = 0 => ~res.ok
      BY <2>0, <2>1, <2>5
    <2>7. t = 2 => ~res.ok
      BY <2>0, <2>2, <2>5
    <2>8. t \in {1, 3} => ~res.ok
      BY <2>0, <2>2, <2>3, <2>5
    <2>11. t \in {4, 5} => ~res.ok
      BY <2>0, <2>4, <2>5
    <2>9. ~res.ok
      BY <1>2, <2>6, <2>7, <2>8, <2>11
    <2>10. QED
      BY <2>9 DEF res, s
  <1>11. QED
    BY <1>9, <1>10 DEF s

-----------------------------------------------------------------------------
(* A string of parts, read from its head.                                  *)

\* What is left of the parts when the first k have been taken.
Rests(ss, r) == r[Len(ss)] = <<>> /\ \A i \in 1 .. Len(ss) : r[i - 1] = ss[i] \o r[i]

\* Three strings, the first two and the last two put together.
Glued(S, a, b, c, ab, bc) ==
  a \in Seq(S) /\ b \in Seq(S) /\ c \in Seq(S) /\ ab = a \o b /\ bc = b \o c
Agree(a, c, ab, bc) == ab \o c = a \o bc

LEMMA Regrouped ==
  ASSUME NEW S, NEW a, NEW b, NEW c, NEW ab, NEW bc, Glued(S, a, b, c, ab, bc)
  PROVE  Agree(a, c, ab, bc)
  BY ConcatAssociative DEF Glued, Agree

LEMMA FlattenRests ==
  ASSUME NEW S, NEW ss \in Seq(Seq(S))
  PROVE  \E r \in [0 .. Len(ss) -> Seq(S)] : Rests(ss, r) /\ FlattenSeq(ss) = r[0]
  <1>1. PICK n \in Nat : n = Len(ss)
    BY LenProperties
  <1>2. \A i \in 1 .. n : ss[i] \in Seq(S)
    BY <1>1, ElementOfSeq
  <1> DEFINE T == Seq(S)
             step == [x \in (1 .. n) \X T |-> ss[n + 1 - x[1]] \o x[2]]
  <1>3. step \in [(1 .. n) \X T -> T]
    <2>1. ASSUME NEW x \in (1 .. n) \X T PROVE ss[n + 1 - x[1]] \o x[2] \in T
      <3>1. x[1] \in 1 .. n /\ x[2] \in T
        OBVIOUS
      <3>2. n + 1 - x[1] \in 1 .. n
        BY <3>1
      <3>3. ss[n + 1 - x[1]] \in Seq(S)
        BY <1>2, <3>2
      <3>4. QED
        BY <3>1, <3>3, Concatenated
    <2> HIDE DEF T
    <2>2. QED
      BY <2>1
  <1>4. <<>> \in T
    OBVIOUS
  <1>5. PICK x \in [0 .. n -> T] : Follows(x, <<>>, step, n)
    <2> HIDE DEF step, T
    <2> QED
      BY <1>3, <1>4, Recursion
  <1> DEFINE r == [k \in 0 .. n |-> x[n - k]]
  <1>6. r \in [0 .. n -> T]
    <2> HIDE DEF T
    <2>1. \A k \in 0 .. n : n - k \in 0 .. n
      OBVIOUS
    <2>2. QED
      BY <1>5, <2>1
  <1>7. r[n] = <<>>
    BY <1>5 DEF Follows
  <1>8. \A i \in 1 .. n : r[i - 1] = ss[i] \o r[i]
    <2> SUFFICES ASSUME NEW i \in 1 .. n PROVE r[i - 1] = ss[i] \o r[i]
      OBVIOUS
    <2> DEFINE j == n + 1 - i
    <2>1. j \in 1 .. n /\ j - 1 \in 0 .. n /\ n + 1 - j = i /\ j - 1 = n - i /\ n - (i - 1) = j
          /\ i - 1 \in 0 .. n /\ i \in 0 .. n
      OBVIOUS
    <2>2. r[i - 1] = x[j] /\ r[i] = x[j - 1]
      BY <2>1
    <2>3. x[j] = step[<<j, x[j - 1]>>]
      BY <1>5, <2>1 DEF Follows
    <2>4. <<j, x[j - 1]>> \in (1 .. n) \X T
      <3> HIDE DEF j, T
      <3> QED
        BY <1>5, <2>1
    <2>5. step[<<j, x[j - 1]>>] = ss[n + 1 - j] \o x[j - 1]
      <3> HIDE DEF j, T
      <3> QED
        BY <2>4
    <2> HIDE DEF j, r, step
    <2>6. QED
      BY <2>1, <2>2, <2>3, <2>5
  <1> HIDE DEF r, step, T
  <1>9. PICK g \in [0 .. n -> Seq(S)] : Joins(ss, g) /\ FlattenSeq(ss) = g[n]
    BY <1>1, FlattenJoins
  <1> DEFINE U == {k \in 0 .. n : g[k] \o r[k] = r[0]}
  <1>10. \A k \in 0 .. n : r[k] \in Seq(S) /\ g[k] \in Seq(S)
    BY <1>6, <1>9 DEF T
  <1>11. 0 \in U
    <2>1. 0 \in 0 .. n
      OBVIOUS
    <2>2. g[0] = <<>> /\ r[0] \in Seq(S)
      BY <1>9, <1>10, <2>1 DEF Joins
    <2>3. QED
      BY <2>1, <2>2, ConcatEmptySeq
  <1>12. ASSUME NEW k \in 0 .. (n - 1), k \in U
         PROVE  k + 1 \in U
    <2>1. k \in 0 .. n /\ k + 1 \in 0 .. n /\ k + 1 \in 1 .. n /\ (k + 1) - 1 = k
      OBVIOUS
    <2>2. g[k + 1] = g[k] \o ss[k + 1]
      BY <1>1, <1>9, <2>1 DEF Joins
    <2>3. r[k] = ss[k + 1] \o r[k + 1]
      BY <1>8, <2>1
    <2>4. g[k] \in Seq(S) /\ ss[k + 1] \in Seq(S) /\ r[k + 1] \in Seq(S)
      BY <1>2, <1>10, <2>1
    <2>5. g[k + 1] \o r[k + 1] = g[k] \o r[k]
      <3>1. Glued(S, g[k], ss[k + 1], r[k + 1], g[k + 1], r[k])
        BY <2>2, <2>3, <2>4, Zenon DEF Glued
      <3>2. Agree(g[k], r[k + 1], g[k + 1], r[k])
        BY <3>1, Regrouped
      <3>3. QED
        BY <3>2, Zenon DEF Agree
    <2>6. QED
      BY <1>12, <2>1, <2>5
  <1>13. \A k \in 0 .. n : k \in U
    <2> HIDE DEF U
    <2> QED
      BY <1>11, <1>12, Induction
  <1>14. FlattenSeq(ss) = r[0]
    <2>1. n \in 0 .. n
      OBVIOUS
    <2>2. g[n] \o r[n] = r[0] /\ g[n] \in Seq(S)
      BY <1>10, <1>13, <2>1
    <2>3. QED
      BY <1>7, <1>9, <2>2, ConcatEmptySeq
  <1>15. QED
    BY <1>1, <1>6, <1>7, <1>8, <1>14, Zenon DEF Rests, T

\* Of a string that begins with F, the first part a has arrived, and t is missing:
\* F has arrived with what follows it, or only a part of F has.
Taken(S, F, a, t, R) == \E b \in Seq(S) : a = F \o b /\ b \o t = R
Broken(F, a, t) == \E k \in 0 .. (Len(F) - 1) : a = SubSeq(F, 1, k) /\ t # <<>>

LEMMA FirstPart ==
  ASSUME NEW S, NEW a \in Seq(S), NEW t \in Seq(S), NEW F \in Seq(S), NEW R \in Seq(S), Agree(F, t, a, R)
  PROVE  Taken(S, F, a, t, R) \/ Broken(F, a, t)
  <1>1. a \o t = F \o R
    BY Zenon DEF Agree
  <1>2. PICK la \in Nat : la = Len(a)
    BY LenProperties
  <1>3. PICK lt \in Nat : lt = Len(t)
    BY LenProperties
  <1>4. PICK lf \in Nat : lf = Len(F)
    BY LenProperties
  <1>5. PICK lr \in Nat : lr = Len(R)
    BY LenProperties
  <1>6. /\ Len(a \o t) = la + lt /\ Len(F \o R) = lf + lr
        /\ \A i \in 1 .. (la + lt) : (a \o t)[i] = IF i <= la THEN a[i] ELSE t[i - la]
        /\ \A i \in 1 .. (lf + lr) : (F \o R)[i] = IF i <= lf THEN F[i] ELSE R[i - lf]
    BY <1>2, <1>3, <1>4, <1>5, ConcatProperties
  <1>7. la + lt = lf + lr
    BY <1>1, <1>6
  <1>8. \A i \in 1 .. (la + lt) : (IF i <= la THEN a[i] ELSE t[i - la]) = (IF i <= lf THEN F[i] ELSE R[i - lf])
    BY <1>1, <1>6, <1>7, Zenon
  <1>9. ASSUME la >= lf PROVE \E b \in Seq(S) : a = F \o b /\ b \o t = R
    <2> DEFINE b == SubSeq(a, lf + 1, la)
    <2>1. /\ b \in Seq(S) /\ Len(b) = la - lf
          /\ \A i \in 1 .. (la - lf) : b[i] = a[lf + i]
      <3>1. \A i \in (lf + 1) .. la : a[i] \in S
        BY <1>2, ElementOfSeq
      <3>2. QED
        BY <1>9, <3>1, SubSeqProperties
    <2>2. F = SubSeq(a, 1, lf)
      <3>1. \A i \in 1 .. lf : a[i] \in S
        BY <1>2, <1>9, ElementOfSeq
      <3>2. SubSeq(a, 1, lf) \in Seq(S) /\ Len(SubSeq(a, 1, lf)) = lf
            /\ \A i \in 1 .. lf : SubSeq(a, 1, lf)[i] = a[i]
        BY <3>1, SubSeqProperties
      <3>3. ASSUME NEW i \in 1 .. lf PROVE F[i] = a[i]
        <4>1. i \in 1 .. (la + lt) /\ i <= la /\ i <= lf
          BY <1>9
        <4>2. QED
          BY <1>8, <4>1
      <3>4. QED
        BY <1>4, <3>2, <3>3, SeqEqual
    <2> HIDE DEF b
    <2>3. Len(F \o b) = la /\ F \o b \in Seq(S)
          /\ \A i \in 1 .. la : (F \o b)[i] = IF i <= lf THEN F[i] ELSE b[i - lf]
      <3>1. Len(F \o b) = lf + (la - lf) /\ F \o b \in Seq(S)
            /\ \A i \in 1 .. (lf + (la - lf)) : (F \o b)[i] = IF i <= lf THEN F[i] ELSE b[i - lf]
        BY <1>4, <2>1, ConcatProperties
      <3>2. lf + (la - lf) = la
        OBVIOUS
      <3>3. QED
        BY <3>1, <3>2
    <2>4. \A i \in 1 .. la : (F \o b)[i] = a[i]
      <3> SUFFICES ASSUME NEW i \in 1 .. la PROVE (F \o b)[i] = a[i]
        OBVIOUS
      <3>1. CASE i <= lf
        <4>1. i \in 1 .. (la + lt) /\ i \in 1 .. (lf + lr) /\ i <= la
          BY <3>1
        <4>2. QED
          BY <1>8, <2>3, <3>1, <4>1
      <3>2. CASE ~(i <= lf)
        <4>1. i - lf \in 1 .. (la - lf) /\ lf + (i - lf) = i
          BY <3>2
        <4>2. QED
          BY <2>1, <2>3, <3>2, <4>1
      <3>3. QED
        BY <3>1, <3>2
    <2>5. a = F \o b
      BY <1>2, <2>3, <2>4, SeqEqual
    <2>6. F \o (b \o t) = F \o R
      <3>1. Glued(S, F, b, t, a, b \o t)
        BY <2>1, <2>5, Zenon DEF Glued
      <3>2. Agree(F, t, a, b \o t)
        BY <3>1, Regrouped
      <3>3. QED
        BY <1>1, <3>2, Zenon DEF Agree
    <2>7. b \o t \in Seq(S)
      BY <2>1, Concatenated
    <2>8. b \o t = R
      BY <2>6, <2>7, ConcatSimplifications
    <2>9. QED
      BY <2>1, <2>5, <2>8
  <1>10. ASSUME ~(la >= lf) PROVE \E k \in 0 .. (Len(F) - 1) : a = SubSeq(F, 1, k) /\ t # <<>>
    <2>1. la \in 0 .. (lf - 1) /\ lt # 0
      BY <1>7, <1>10
    <2>2. \A i \in 1 .. la : F[i] \in S
      BY <1>4, <2>1, ElementOfSeq
    <2>3. SubSeq(F, 1, la) \in Seq(S) /\ Len(SubSeq(F, 1, la)) = la
          /\ \A i \in 1 .. la : SubSeq(F, 1, la)[i] = F[i]
      BY <2>2, SubSeqProperties
    <2>4. \A i \in 1 .. la : F[i] = a[i]
      <3> SUFFICES ASSUME NEW i \in 1 .. la PROVE F[i] = a[i]
        OBVIOUS
      <3>1. i \in 1 .. (la + lt) /\ i \in 1 .. (lf + lr) /\ i <= la /\ i <= lf
        BY <2>1
      <3>2. QED
        BY <1>8, <3>1
    <2>5. a = SubSeq(F, 1, la)
      BY <1>2, <2>3, <2>4, SeqEqual
    <2>6. t # <<>>
      BY <1>3, <2>1, EmptySeq
    <2>7. QED
      BY <1>4, <2>1, <2>5, <2>6
  <1>11. QED
    BY <1>9, <1>10, Zenon DEF Taken, Broken

-----------------------------------------------------------------------------
(* The bytes of a field.                                                   *)

\* A line of a compiled list and the values its owner gives it; and an array
\* that is not longer than its member.
Given(f, vs) ==
  /\ f \in FieldLine /\ f.tag < 2 ^ 16 /\ f.count < 2 ^ 16
  /\ vs \in Seq(Values(f)) /\ Len(vs) \in Counts(f)
Fitting(f, vs) == f.htype = "REPEATED" => Len(vs) <= f.count

\* What the wire format makes of them: nothing of an optional field without a
\* value, of an empty array and of a proto3 field of zero; a tag and a value;
\* a tag, a length and the values of an array.
LeftOut(f, vs) ==
  \/ f.htype \in {"OPTIONAL", "REPEATED"} /\ vs = <<>>
  \/ f.htype = "SINGULAR" /\ vs[1] = {}
Wire(f) == IF f.htype = "REPEATED" THEN 2 ELSE WireFor(f)
TagBytes(f) == EncodeTag(Wire(f), f.tag)
Items(f, vs) == [k \in 1 .. Len(vs) |-> Payload(f, vs[k])]
Packed(f, vs) == FlattenSeq(Items(f, vs))
Body(f, vs) ==
  IF f.htype = "REPEATED" THEN EncodeVarint(Bits(Len(Packed(f, vs)))) \o Packed(f, vs)
  ELSE Payload(f, vs[1])
FieldBytes(f, vs) == IF LeftOut(f, vs) THEN <<>> ELSE TagBytes(f) \o Body(f, vs)

LEMMA GivenCount ==
  ASSUME NEW f, NEW vs, Given(f, vs)
  PROVE  /\ Len(vs) \in 0 .. (2 ^ 16 - 1)
         /\ f.htype \in {"REQUIRED", "SINGULAR"} => Len(vs) = 1
         /\ f.htype = "OPTIONAL" => Len(vs) \in {0, 1}
         /\ Fitting(f, vs) => Len(vs) <= f.count
         /\ \A k \in 1 .. Len(vs) : vs[k] \in Values(f)
         /\ f.htype # "REPEATED" /\ ~LeftOut(f, vs) => Len(vs) = 1
  <1>1. PICK n \in Nat : n = Len(vs)
    BY LenProperties DEF Given
  <1>2. f \in FieldLine /\ f.htype \in {"REQUIRED", "OPTIONAL", "SINGULAR", "REPEATED"} /\ f.count \in Nat \ {0}
    BY LineParts DEF Given
  <1>3. /\ n \in 0 .. (2 ^ 16 - 1)
        /\ f.htype \in {"REQUIRED", "SINGULAR"} => n = 1
        /\ f.htype = "OPTIONAL" => n \in {0, 1}
    <2>1. n \in Counts(f)
      BY <1>1, Zenon DEF Given
    <2>2. /\ n \in 0 .. (2 ^ 16 - 1)
          /\ f.htype = "OPTIONAL" => n <= 1
          /\ f.htype \in {"REQUIRED", "SINGULAR"} => n = 1
      BY <2>1 DEF Counts
    <2>3. QED
      BY <2>2
  <1>4. \A k \in 1 .. n : vs[k] \in Values(f)
    BY <1>1, ElementOfSeq DEF Given
  <1>5. vs = <<>> <=> n = 0
    BY <1>1, EmptySeq DEF Given
  <1>6. Fitting(f, vs) => n <= f.count
    BY <1>1, <1>2, <1>3 DEF Fitting
  <1>7. f.htype # "REPEATED" /\ ~LeftOut(f, vs) => n = 1
    BY <1>2, <1>3, <1>5 DEF LeftOut
  <1>8. QED
    BY <1>1, <1>3, <1>4, <1>6, <1>7

\* The values of an array, one behind the other: none without bytes, ten bytes
\* at most each.
LEMMA PackedParts ==
  ASSUME NEW f, NEW vs, Given(f, vs)
  PROVE  /\ Items(f, vs) \in Seq(Bytes) /\ Len(Items(f, vs)) = Len(vs)
         /\ \A k \in 1 .. Len(vs) :
              /\ Items(f, vs)[k] = Payload(f, vs[k])
              /\ Items(f, vs)[k] \in Bytes /\ Len(Items(f, vs)[k]) \in 1 .. 10
         /\ Packed(f, vs) \in Bytes /\ Len(Packed(f, vs)) \in 0 .. (2 ^ 20)
  <1>1. PICK n \in Nat : n = Len(vs)
    BY LenProperties DEF Given
  <1>2. n \in 0 .. (2 ^ 16 - 1) /\ f \in FieldLine
    BY <1>1, GivenCount DEF Given
  <1>3. \A k \in 1 .. n : vs[k] \in Values(f)
    BY <1>1, GivenCount
  <1> DEFINE ss == Items(f, vs)
  <1>4. \A k \in 1 .. n : Payload(f, vs[k]) \in Bytes /\ Len(Payload(f, vs[k])) \in 1 .. 10
    BY <1>2, <1>3, PayloadBytes
  <1>5. /\ ss \in Seq(Bytes) /\ Len(ss) = n
        /\ \A k \in 1 .. n : ss[k] = Payload(f, vs[k])
    BY <1>1, <1>4 DEF Items
  <1> HIDE DEF ss
  <1>6. ss \in Seq(Seq(Byte)) /\ FlattenSeq(ss) \in Seq(Byte)
    BY <1>5, Flattened DEF Bytes
  <1>7. PICK at : Parts(ss, at) /\ Laid(ss, at, FlattenSeq(ss), n)
    BY <1>5, <1>6, Flattened
  <1> DEFINE T == {k \in 0 .. n : at[k] <= 10 * k}
  <1>8. at[0] = 0 /\ at \in [0 .. n -> Nat] /\ \A i \in 1 .. n : at[i] = at[i - 1] + Len(ss[i])
    BY <1>5, <1>7 DEF Parts
  <1>9. 0 \in T
    BY <1>8
  <1>10. ASSUME NEW k \in 0 .. (n - 1), k \in T PROVE k + 1 \in T
    <2>1. k + 1 \in 1 .. n /\ k + 1 \in 0 .. n /\ k \in 0 .. n /\ (k + 1) - 1 = k
      OBVIOUS
    <2>2. PICK m \in 1 .. 10 : m = Len(ss[k + 1])
      BY <1>4, <1>5, <2>1
    <2>3. at[k + 1] = at[k] + m
      BY <1>8, <2>1, <2>2
    <2>4. at[k] \in Nat /\ at[k] <= 10 * k
      BY <1>8, <1>10, <2>1
    <2>5. at[k + 1] <= 10 * (k + 1)
      <3>1. PICK a \in Nat : a = at[k]
        BY <2>4
      <3>2. a <= 10 * k => a + m <= 10 * (k + 1)
        OBVIOUS
      <3>3. QED
        BY <2>3, <2>4, <3>1, <3>2
    <2>6. QED
      BY <2>1, <2>5
  <1>11. \A k \in 0 .. n : k \in T
    <2> HIDE DEF T
    <2> QED
      BY <1>9, <1>10, Induction
  <1>12. Len(FlattenSeq(ss)) = at[n] /\ n \in 0 .. n
    BY <1>7 DEF Laid
  <1>13. at[n] \in Nat /\ at[n] <= 10 * n
    BY <1>8, <1>11, <1>12
  <1>14. at[n] \in 0 .. (2 ^ 20)
    BY <1>2, <1>13
  <1>15. QED
    BY <1>1, <1>4, <1>5, <1>6, <1>12, <1>14 DEF Packed, ss, Bytes

LEMMA WireTypes ==
  ASSUME NEW f \in FieldLine
  PROVE  Wire(f) \in 0 .. 7 /\ WireFor(f) \in 0 .. 7
  <1>1. WireFor(f) \in {0, 1, 5}
    BY DEF WireFor, WireTypeOf
  <1>2. QED
    BY <1>1 DEF Wire

LEMMA TagOfField ==
  ASSUME NEW f \in FieldLine, f.tag < 2 ^ 16
  PROVE  /\ TagBytes(f) \in Bytes /\ TagBytes(f) # <<>>
         /\ \E v : Spells(TagBytes(f), v)
         /\ \A rest \in Bytes : DecodeTag(TagBytes(f) \o rest)
              = [ok |-> TRUE, tag |-> f.tag, wiretype |-> Wire(f), rest |-> rest]
  <1>1. Wire(f) \in 0 .. 7 /\ f.tag \in Nat
    BY WireTypes, LineParts
  <1>2. f.tag < 2 ^ 28
    BY <1>1
  <1>3. ASSUME NEW rest \in Bytes
        PROVE  /\ \E v \in UInt32 : ShortSpelling(TagBytes(f), v)
               /\ DecodeTag(TagBytes(f) \o rest) = [ok |-> TRUE, tag |-> f.tag, wiretype |-> Wire(f), rest |-> rest]
    BY <1>1, <1>2, TagRoundTrip DEF TagBytes
  <1>4. <<>> \in Bytes
    BY DEF Bytes
  <1>5. PICK v \in UInt32 : Spells(TagBytes(f), v)
    BY <1>3, <1>4, Zenon DEF ShortSpelling
  <1>6. TagBytes(f) \in Bytes /\ Len(TagBytes(f)) >= 1
    BY <1>5, Zenon DEF Spells
  <1>7. TagBytes(f) # <<>>
    <2>1. Len(<<>>) = 0
      OBVIOUS
    <2>2. ~(0 >= 1)
      OBVIOUS
    <2>3. QED
      BY <1>6, <2>1, <2>2, Zenon
  <1>8. QED
    BY <1>3, <1>5, <1>6, <1>7, Zenon

LEMMA LengthBits ==
  ASSUME NEW n \in 0 .. (2 ^ 20)
  PROVE  Bits(n) \in UInt32 /\ 31 \notin Bits(n) /\ Num(Bits(n)) = n
  <1>1. n \in Nat /\ n < 2 ^ 31
    OBVIOUS
  <1>2. \A i \in Bits(n) : i \in 0 .. 30
    BY DEF Bits
  <1>3. QED
    BY <1>1, <1>2, NumBits DEF UInt32

LEMMA BodyOfField ==
  ASSUME NEW f, NEW vs, Given(f, vs)
  PROVE  /\ ~LeftOut(f, vs) => Body(f, vs) \in Bytes
         /\ FieldBytes(f, vs) \in Bytes
         /\ FieldBytes(f, vs) = <<>> <=> LeftOut(f, vs)
  <1>1. f \in FieldLine /\ f.tag < 2 ^ 16
    BY DEF Given
  <1>2. ASSUME ~LeftOut(f, vs) PROVE Body(f, vs) \in Bytes
    <2>1. CASE f.htype = "REPEATED"
      <3>1. Packed(f, vs) \in Bytes /\ Len(Packed(f, vs)) \in 0 .. (2 ^ 20)
        BY PackedParts
      <3>2. Bits(Len(Packed(f, vs))) \in UInt32
        BY <3>1, LengthBits
      <3>3. Bits(Len(Packed(f, vs))) \in UInt64
        BY <3>2 DEF UInt32, UInt64
      <3>4. EncodeVarint(Bits(Len(Packed(f, vs)))) \in Bytes
        BY <3>3, VarintSpelled DEF ShortSpelling, Spells
      <3>5. QED
        BY <2>1, <3>1, <3>4, RestOfStream DEF Body
    <2>2. CASE f.htype # "REPEATED"
      <3>1. Len(vs) = 1 /\ 1 \in 1 .. Len(vs)
        BY <1>2, <2>2, GivenCount
      <3>2. vs[1] \in Values(f)
        BY <3>1, GivenCount
      <3>3. QED
        BY <1>1, <2>2, <3>2, PayloadBytes DEF Body
    <2>3. QED
      BY <2>1, <2>2
  <1>3. TagBytes(f) \in Bytes /\ TagBytes(f) # <<>>
    BY <1>1, TagOfField
  <1>4. ASSUME ~LeftOut(f, vs) PROVE FieldBytes(f, vs) \in Bytes /\ FieldBytes(f, vs) # <<>>
    <2>1. FieldBytes(f, vs) = TagBytes(f) \o Body(f, vs)
      BY <1>4 DEF FieldBytes
    <2>2. QED
      BY <1>2, <1>3, <1>4, <2>1, ConcatProperties, ConcatEqualIffEmpty DEF Bytes
  <1>5. LeftOut(f, vs) => FieldBytes(f, vs) = <<>> /\ <<>> \in Bytes
    BY DEF FieldBytes, Bytes
  <1>6. QED
    BY <1>2, <1>4, <1>5

-----------------------------------------------------------------------------
(* A member of the struct.                                                 *)

Memories(D) == [D -> SUBSET Nat]

\* The iterator stands on the line of a member that is laid out there.
Slotted(p, f, pl) ==
  /\ On(p, f)
  /\ pl.prefix \in Nat /\ pl.at \in Nat /\ pl.end \in Nat
  /\ pl.prefix + PrefixSize(f) <= pl.at
  /\ pl.end = pl.at + f.size * f.count
  /\ p.data_offset = pl.at
  /\ PrefixSize(f) = 0 => p.size_offset = 0
  /\ PrefixSize(f) # 0 => p.size_offset # 0 /\ p.data_offset - p.size_offset = pl.prefix

Own(f, pl) == {pl.prefix} \cup {pl.at + k * f.size : k \in 0 .. (f.count - 1)}

\* What the member holds: its values, with its flag or count in front of them;
\* nothing yet.  Other members are as they were.
Keeps(mem, f, pl, vs) ==
  /\ PrefixSize(f) # 0 => mem[pl.prefix] = Bits(Len(vs))
  /\ \A k \in 1 .. Len(vs) : k <= f.count => mem[pl.at + (k - 1) * f.size] = vs[k]
Fresh(mem, f, pl) ==
  /\ PrefixSize(f) # 0 => mem[pl.prefix] = {}
  /\ f.htype # "REPEATED" => mem[pl.at] = {}
Untouched(mem, after, pl) ==
  \A a \in Nat : a < pl.prefix \/ a >= pl.end => after[a] = mem[a]

LEMMA SlotParts ==
  ASSUME NEW p, NEW f, NEW pl, Slotted(p, f, pl)
  PROVE  /\ f \in FieldLine
         /\ HTypeOf(p.type) = HType.REPEATED <=> f.htype = "REPEATED"
         /\ HTypeOf(p.type) = HType.OPTIONAL <=> f.htype \in {"OPTIONAL", "SINGULAR"}
         /\ HTypeOf(p.type) = HType.REQUIRED <=> f.htype = "REQUIRED"
         /\ f.htype \in {"REPEATED", "OPTIONAL"} <=> PrefixSize(f) # 0
         /\ p.size_offset # 0 <=> PrefixSize(f) # 0
         /\ PrefixSize(f) # 0 => PSize(p) = pl.prefix /\ pl.prefix < pl.at
         /\ pl.prefix \in Nat /\ pl.prefix \in Own(f, pl) /\ pl.prefix < pl.end /\ pl.end \in Nat
         /\ p.array_size = f.count
         /\ \A k \in 0 .. (f.count - 1) :
              /\ PData(p, k) = pl.at + k * f.size
              /\ PData(p, k) \in Own(f, pl) /\ PData(p, k) \in Nat
              /\ pl.at <= PData(p, k) /\ pl.prefix <= PData(p, k) /\ PData(p, k) < pl.end
         /\ 0 \in 0 .. (f.count - 1) /\ pl.at + 0 * f.size = pl.at
  <1>1. /\ f \in FieldLine /\ p.data_size = f.size /\ p.array_size = f.count
        /\ HTypeOf(p.type) = HType[f.htype]
        /\ pl.prefix \in Nat /\ pl.at \in Nat /\ pl.end \in Nat
        /\ pl.prefix + PrefixSize(f) <= pl.at
        /\ pl.end = pl.at + f.size * f.count
        /\ p.data_offset = pl.at
        /\ PrefixSize(f) = 0 => p.size_offset = 0
        /\ PrefixSize(f) # 0 => p.size_offset # 0 /\ p.data_offset - p.size_offset = pl.prefix
    BY Zenon DEF Slotted, On
  <1>2. /\ f.htype \in {"REQUIRED", "OPTIONAL", "SINGULAR", "REPEATED"}
        /\ f.size \in {1, 2, 4, 8} /\ f.count \in Nat \ {0} /\ PrefixSize(f) \in {0, 1, 2}
        /\ PrefixSize(f) = 0 <=> f.htype \in {"REQUIRED", "SINGULAR"}
    BY <1>1, LineParts
  <1>3. /\ HTypeOf(p.type) = HType.REPEATED <=> f.htype = "REPEATED"
        /\ HTypeOf(p.type) = HType.OPTIONAL <=> f.htype \in {"OPTIONAL", "SINGULAR"}
        /\ HTypeOf(p.type) = HType.REQUIRED <=> f.htype = "REQUIRED"
    BY <1>1, <1>2 DEF HType
  <1>4. PrefixSize(f) # 0 => PSize(p) = pl.prefix /\ pl.prefix < pl.at
    <2>1. PrefixSize(f) # 0 => pl.prefix < pl.at
      BY <1>1, <1>2
    <2>2. QED
      BY <1>1, <2>1 DEF PSize
  <1>5. ASSUME NEW k \in 0 .. (f.count - 1)
        PROVE  /\ PData(p, k) = pl.at + k * f.size
               /\ PData(p, k) \in Own(f, pl) /\ PData(p, k) \in Nat
               /\ pl.at <= PData(p, k) /\ pl.prefix <= PData(p, k) /\ PData(p, k) < pl.end
    <2>1. PData(p, k) = pl.at + k * f.size
      BY <1>1 DEF PData
    <2>2. PICK z \in {1, 2, 4, 8} : z = f.size
      BY <1>2
    <2>3. PICK c \in Nat \ {0} : c = f.count
      BY <1>2
    <2>4. k \in Nat /\ k < c
      BY <2>3
    <2>5. k * z \in Nat /\ k * z < z * c
      BY <2>4
    <2>6. pl.at + k * z \in Own(f, pl)
      BY <2>2 DEF Own
    <2>7. PICK x \in Nat : x = k * z
      BY <2>5
    <2>8. PICK y \in Nat : y = z * c
      OBVIOUS
    <2>9. x < y /\ PData(p, k) = pl.at + x /\ pl.end = pl.at + y
      BY <1>1, <2>1, <2>2, <2>3, <2>5, <2>7, <2>8
    <2>10. pl.prefix <= pl.at
      BY <1>1, <1>2
    <2>11. QED
      BY <1>1, <2>1, <2>2, <2>6, <2>7, <2>9, <2>10
  <1>6. 0 \in 0 .. (f.count - 1) /\ pl.at + 0 * f.size = pl.at
    BY <1>1, <1>2
  <1>7. pl.prefix \in Own(f, pl)
    BY DEF Own
  <1>8. pl.prefix < pl.end
    <2>1. pl.prefix <= PData(p, 0) /\ PData(p, 0) < pl.end /\ PData(p, 0) \in Nat
      BY <1>5, <1>6
    <2>2. QED
      BY <1>1, <2>1
  <1>9. QED
    BY <1>1, <1>2, <1>3, <1>4, <1>5, <1>6, <1>7, <1>8

\* pb_field_set_to_default.
LEMMA DefaultSet ==
  ASSUME NEW p, NEW f, NEW pl, Slotted(p, f, pl), NEW D, Own(f, pl) \subseteq D, NEW mem \in Memories(D)
  PROVE  /\ SetToDefault(p, mem) \in Memories(D)
         /\ Fresh(SetToDefault(p, mem), f, pl)
         /\ Untouched(mem, SetToDefault(p, mem), pl)
  <1> DEFINE sized == IF p.size_offset # 0 THEN [mem EXCEPT ![PSize(p)] = {}] ELSE mem
             after == IF f.htype = "REPEATED" THEN sized ELSE [sized EXCEPT ![PData(p, 0)] = {}]
  <1>1. SetToDefault(p, mem) = after
    BY SlotParts DEF SetToDefault
  <1>2. /\ p.size_offset # 0 <=> PrefixSize(f) # 0
        /\ PrefixSize(f) # 0 => PSize(p) = pl.prefix /\ pl.prefix < pl.at
        /\ pl.prefix \in Nat /\ pl.prefix \in D /\ pl.prefix < pl.end /\ pl.end \in Nat
        /\ PData(p, 0) = pl.at /\ pl.at \in D /\ pl.at \in Nat /\ pl.prefix <= pl.at /\ pl.at < pl.end
    <2>1. 0 \in 0 .. (f.count - 1) /\ pl.at + 0 * f.size = pl.at
      BY SlotParts
    <2>2. PData(p, 0) = pl.at /\ PData(p, 0) \in Own(f, pl) /\ PData(p, 0) \in Nat /\ pl.prefix <= PData(p, 0)
          /\ PData(p, 0) < pl.end
      BY <2>1, SlotParts
    <2>3. QED
      BY <2>2, SlotParts
  <1>3. mem \in [D -> SUBSET Nat]
    BY DEF Memories
  <1>4. /\ sized \in [D -> SUBSET Nat]
        /\ PrefixSize(f) # 0 => sized[pl.prefix] = {}
        /\ \A a : a # pl.prefix => sized[a] = mem[a]
    BY <1>2, <1>3
  <1> HIDE DEF sized
  <1>5. /\ after \in [D -> SUBSET Nat]
        /\ f.htype # "REPEATED" => after[pl.at] = {}
        /\ \A a : a # pl.at => after[a] = sized[a]
    BY <1>2, <1>4
  <1> HIDE DEF after
  <1>6. Fresh(after, f, pl)
    <2>1. PrefixSize(f) # 0 => pl.prefix # pl.at
      BY <1>2
    <2>2. QED
      BY <1>4, <1>5, <2>1 DEF Fresh
  <1>7. Untouched(mem, after, pl)
    <2> SUFFICES ASSUME NEW a \in Nat, a < pl.prefix \/ a >= pl.end PROVE after[a] = mem[a]
      BY DEF Untouched
    <2>1. PICK x \in Nat, y \in Nat, z \in Nat : x = pl.prefix /\ y = pl.at /\ z = pl.end
      BY <1>2
    <2>2. x < z /\ x <= y /\ y < z /\ (a < x \/ a >= z)
      BY <1>2, <2>1
    <2>3. a # x /\ a # y
      BY <2>2
    <2>4. a # pl.prefix /\ a # pl.at
      BY <2>1, <2>3
    <2>5. QED
      BY <1>4, <1>5, <2>4
  <1>8. QED
    BY <1>1, <1>5, <1>6, <1>7 DEF Memories

-----------------------------------------------------------------------------
(* A field is written.                                                     *)

\* What was written is never more than the buffer has room for.
Streams == {s \in [out : Bytes, room : Int, ok : BOOLEAN] : Len(s.out) <= s.room}

\* A stream after some bytes: they are there unless something was refused.
Takes(s, e, b) == e \in Streams /\ e.room = s.room /\ (e.ok => s.ok /\ e.out = s.out \o b)

LEMMA WriteTakes ==
  ASSUME NEW s \in Streams, NEW b \in Bytes
  PROVE  Takes(s, Write(s, b), b)
  <1>1. s.out \in Seq(Byte) /\ b \in Seq(Byte) /\ s.ok \in BOOLEAN /\ s.room \in Int
    BY DEF Streams, Bytes
  <1>2. s.out \o b \in Bytes
    BY <1>1, Concatenated DEF Bytes
  <1>3. /\ [s EXCEPT !.ok = FALSE] \in Streams /\ ~[s EXCEPT !.ok = FALSE].ok
        /\ [s EXCEPT !.ok = FALSE].room = s.room
        /\ [s EXCEPT !.out = @ \o b].room = s.room
        /\ [s EXCEPT !.out = @ \o b].out = s.out \o b
        /\ [s EXCEPT !.out = @ \o b].ok = s.ok
        /\ [s EXCEPT !.out = @ \o b] \in [out : Bytes, room : Int, ok : BOOLEAN]
    BY <1>2 DEF Streams
  <1>4. CASE ~s.ok
    BY <1>4 DEF Write, Takes
  <1>5. CASE s.ok /\ Len(s.out) + Len(b) > s.room
    BY <1>3, <1>5 DEF Write, Takes
  <1>6. CASE s.ok /\ ~(Len(s.out) + Len(b) > s.room)
    <2>1. Len(s.out \o b) <= s.room
      <3>1. Len(s.out \o b) = Len(s.out) + Len(b) /\ Len(s.out) \in Nat /\ Len(b) \in Nat
        BY <1>1, Concatenated
      <3>2. QED
        BY <1>1, <1>6, <3>1
    <2>2. [s EXCEPT !.out = @ \o b] \in Streams
      BY <1>3, <2>1 DEF Streams
    <2>3. QED
      BY <1>3, <1>6, <2>2 DEF Write, Takes
  <1>7. QED
    BY <1>4, <1>5, <1>6

LEMMA TakesMore ==
  ASSUME NEW s \in Streams, NEW e, NEW a \in Bytes, Takes(s, e, a), NEW x, NEW b \in Bytes, Takes(e, x, b)
  PROVE  Takes(s, x, a \o b)
  <1>1. s.out \in Seq(Byte) /\ a \in Seq(Byte) /\ b \in Seq(Byte)
    BY DEF Streams, Bytes
  <1>2. Agree(s.out, b, s.out \o a, a \o b)
    BY <1>1, Regrouped DEF Glued
  <1>3. (s.out \o a) \o b = s.out \o (a \o b)
    BY <1>2 DEF Agree
  <1>4. QED
    BY <1>3, Zenon DEF Takes

LEMMA TakesNothing ==
  ASSUME NEW s \in Streams
  PROVE  Takes(s, s, <<>>)
  <1>1. s.out \in Seq(Byte)
    BY DEF Streams, Bytes
  <1>2. s.out \o <<>> = s.out
    BY <1>1
  <1>3. QED
    BY <1>2 DEF Takes

\* encode_basic_field.
LEMMA BasicWritten ==
  ASSUME NEW p, NEW f, On(p, f), f.tag < 2 ^ 16, f.htype # "REPEATED", NEW v \in Values(f), NEW s \in Streams
  PROVE  Takes(s, EncodeBasic(p, v, s), TagBytes(f) \o Payload(f, v))
  <1> DEFINE t == LTypeOf(p.type)
             tagged == Write(s, EncodeTag(WireTypeOf(t), p.tag))
  <1>1. /\ f \in FieldLine /\ p.tag = f.tag /\ p.data_size = f.size /\ t = LType[LTypeMap[f.ltype]]
    BY DEF On
  <1>2. EncodeTag(WireTypeOf(t), p.tag) = TagBytes(f) /\ TagBytes(f) \in Bytes
    BY <1>1, TagOfField DEF TagBytes, Wire, WireFor
  <1>3. Takes(s, tagged, TagBytes(f)) /\ tagged \in Streams
    BY <1>2, WriteTakes DEF Takes
  <1>4. Payload(f, v) \in Bytes
    BY <1>1, PayloadBytes
  <1>5. EncodeBasic(p, v, s) = Write(tagged, Payload(f, v))
    <2>1. CASE t = LType.BOOL
      <3>1. t = 0
        BY <2>1 DEF LType
      <3>2. Payload(f, v) = EncodeVarint(v) /\ v = (IF v = {} THEN {} ELSE {0})
        BY <1>1, <3>1, Payloads
      <3>3. EncodeBasic(p, v, s) = Write(tagged, EncodeVarint(IF v = {} THEN {} ELSE {0}))
        BY <2>1 DEF EncodeBasic
      <3>4. QED
        BY <3>2, <3>3
    <2>2. CASE t # LType.BOOL
      <3>1. EncodeBasic(p, v, s) = Write(tagged, EncodeItem(t, p.data_size, v))
        BY <2>2 DEF EncodeBasic
      <3>2. QED
        BY <1>1, <3>1 DEF Payload
    <2>3. QED
      BY <2>1, <2>2
  <1>6. Takes(tagged, Write(tagged, Payload(f, v)), Payload(f, v))
    BY <1>3, <1>4, WriteTakes
  <1> HIDE DEF tagged
  <1>7. QED
    BY <1>2, <1>3, <1>4, <1>5, <1>6, TakesMore

\* The items of an array are written one by one.
LEMMA ItemsWritten ==
  ASSUME NEW ss \in Seq(Bytes), NEW s \in Streams, NEW n \in Nat, n = Len(ss), NEW w,
         w = [k \in 0 .. n |-> IF k = 0 THEN s ELSE Write(w[k - 1], ss[k])]
  PROVE  Takes(s, w[n], FlattenSeq(ss))
  <1>1. ss \in Seq(Seq(Byte))
    BY DEF Bytes
  <1>2. PICK g \in [0 .. Len(ss) -> Seq(Byte)] : Joins(ss, g) /\ FlattenSeq(ss) = g[Len(ss)]
    BY <1>1, FlattenJoins
  <1>3. g \in [0 .. n -> Bytes] /\ g[0] = <<>> /\ FlattenSeq(ss) = g[n] /\ \A i \in 1 .. n : g[i] = g[i - 1] \o ss[i]
    BY <1>2 DEF Joins, Bytes
  <1> DEFINE T == {k \in 0 .. n : Takes(s, w[k], g[k])}
  <1>4. w[0] = s /\ \A k \in 1 .. n : w[k] = Write(w[k - 1], ss[k])
    <2>1. \A k \in 0 .. n : w[k] = IF k = 0 THEN s ELSE Write(w[k - 1], ss[k])
      BY Zenon
    <2>2. 0 \in 0 .. n /\ \A k \in 1 .. n : k \in 0 .. n /\ k # 0
      OBVIOUS
    <2>3. QED
      BY <2>1, <2>2
  <1>5. 0 \in T
    BY <1>3, <1>4, TakesNothing
  <1>6. ASSUME NEW k \in 0 .. (n - 1), k \in T PROVE k + 1 \in T
    <2>1. k + 1 \in 1 .. n /\ k + 1 \in 0 .. n /\ k \in 0 .. n /\ (k + 1) - 1 = k
      OBVIOUS
    <2>2. Takes(s, w[k], g[k]) /\ w[k] \in Streams /\ g[k] \in Bytes
      BY <1>3, <1>6, <2>1 DEF Takes
    <2>3. ss[k + 1] \in Bytes
      BY <2>1, ElementOfSeq
    <2>4. Takes(w[k], Write(w[k], ss[k + 1]), ss[k + 1])
      BY <2>2, <2>3, WriteTakes
    <2>5. Takes(s, Write(w[k], ss[k + 1]), g[k] \o ss[k + 1])
      BY <2>2, <2>3, <2>4, TakesMore
    <2>6. w[k + 1] = Write(w[k], ss[k + 1]) /\ g[k + 1] = g[k] \o ss[k + 1]
      BY <1>3, <1>4, <2>1
    <2>7. Takes(s, w[k + 1], g[k + 1])
      BY <2>5, <2>6
    <2>8. QED
      BY <2>1, <2>7
  <1>7. \A k \in 0 .. n : k \in T
    <2> HIDE DEF T
    <2> QED
      BY <1>5, <1>6, Induction
  <1>8. QED
    BY <1>3, <1>7

LEMMA LengthSpelled ==
  ASSUME NEW n \in 0 .. (2 ^ 20)
  PROVE  /\ EncodeVarint(Bits(n)) \in Bytes /\ Spells(EncodeVarint(Bits(n)), Bits(n))
         /\ EncodeVarint(Bits(n)) # <<>>
         /\ \A rest \in Bytes : DecodeVarint32(EncodeVarint(Bits(n)) \o rest) = Decoded(Bits(n), rest)
  <1>1. PICK v \in UInt32 : v = Bits(n)
    BY LengthBits
  <1>2. v \in UInt64
    BY DEF UInt32, UInt64
  <1>3. EncodeVarint(v) \in Bytes /\ Len(EncodeVarint(v)) >= 1 /\ Spells(EncodeVarint(v), v)
    BY <1>2, VarintSpelled DEF ShortSpelling, Spells
  <1>4. EncodeVarint(v) # <<>>
    <2>1. Len(<<>>) = 0 /\ ~(0 >= 1)
      OBVIOUS
    <2>2. QED
      BY <1>3, <2>1
  <1>5. \A rest \in Bytes : DecodeVarint32(EncodeVarint(v) \o rest) = Decoded(v, rest)
    BY Varint32RoundTrip
  <1>6. QED
    BY <1>1, <1>3, <1>4, <1>5

\* What the encoder finds in a member that keeps its values.
LEMMA KeptRead ==
  ASSUME NEW p, NEW f, NEW pl, Slotted(p, f, pl), NEW vs, Given(f, vs), NEW mem, Keeps(mem, f, pl, vs)
  PROVE  /\ PrefixSize(f) # 0 => Num(mem[PSize(p)]) = Len(vs) /\ (mem[PSize(p)] = {} <=> Len(vs) = 0)
         /\ \A k \in 1 .. Len(vs) : k <= f.count => mem[PData(p, k - 1)] = vs[k]
  <1>1. PICK n \in Nat : n = Len(vs)
    BY LenProperties DEF Given
  <1>2. n \in 0 .. (2 ^ 16 - 1) /\ f.count \in Nat
    BY <1>1, GivenCount, LineParts DEF Given
  <1>3. n \in 0 .. (2 ^ 20)
    BY <1>2
  <1>4. Num(Bits(n)) = n
    BY <1>3, LengthBits
  <1>5. Bits(n) = {} <=> n = 0
    <2>1. ASSUME n = 0 PROVE Bits(n) = {}
      BY <2>1, SmallBits
    <2>2. ASSUME Bits(n) = {} PROVE n = 0
      <3>1. Bits(0) = {}
        BY SmallBits
      <3>2. Num(Bits(0)) = 0
        <4>1. 0 \in 0 .. (2 ^ 20)
          OBVIOUS
        <4>2. QED
          BY <4>1, LengthBits
      <3>3. QED
        BY <1>4, <2>2, <3>1, <3>2
    <2>3. QED
      BY <2>1, <2>2
  <1>6. ASSUME PrefixSize(f) # 0 PROVE mem[PSize(p)] = Bits(n)
    BY <1>1, <1>6, SlotParts DEF Keeps
  <1>7. ASSUME NEW k \in 1 .. n, k <= f.count PROVE mem[PData(p, k - 1)] = vs[k]
    <2>1. k - 1 \in 0 .. (f.count - 1)
      BY <1>2, <1>7
    <2>2. PData(p, k - 1) = pl.at + (k - 1) * f.size
      BY <2>1, SlotParts
    <2>3. mem[pl.at + (k - 1) * f.size] = vs[k]
      BY <1>1, <1>7, Zenon DEF Keeps
    <2>4. QED
      BY <2>2, <2>3
  <1>8. QED
    BY <1>1, <1>4, <1>5, <1>6, <1>7

\* The size of an array of a fixed-width type, which encode_array computes from
\* its count, is what its items take.
LEMMA PackedLength ==
  ASSUME NEW f, NEW vs, Given(f, vs)
  PROVE  /\ LType[LTypeMap[f.ltype]] = LType.FIXED32 => Len(Packed(f, vs)) = 4 * Len(vs)
         /\ LType[LTypeMap[f.ltype]] = LType.FIXED64 => Len(Packed(f, vs)) = 8 * Len(vs)
  <1>1. PICK n \in Nat : n = Len(vs)
    BY LenProperties DEF Given
  <1>2. f \in FieldLine
    BY DEF Given
  <1>3. /\ LType[LTypeMap[f.ltype]] = LType.FIXED32 => f.size = 4
        /\ LType[LTypeMap[f.ltype]] = LType.FIXED64 => f.size = 8
    BY <1>2 DEF FieldLine, LType, LTypeMap
  <1> DEFINE ss == Items(f, vs)
  <1>4. ASSUME LType[LTypeMap[f.ltype]] \in {LType.FIXED32, LType.FIXED64}
        PROVE  Len(Packed(f, vs)) = f.size * n
    <2>1. /\ ss \in Seq(Bytes) /\ Len(ss) = n
          /\ \A k \in 1 .. n : ss[k] = Payload(f, vs[k])
      BY <1>1, PackedParts
    <2>2. ASSUME NEW k \in 1 .. n PROVE Len(ss[k]) = f.size
      <3>1. vs[k] \in Values(f)
        BY <1>1, <2>2, GivenCount
      <3>2. LType[LTypeMap[f.ltype]] \in {4, 5}
        BY <1>4 DEF LType
      <3>3. QED
        BY <1>2, <2>1, <3>1, <3>2, PayloadBytes
    <2> HIDE DEF ss
    <2>3. PICK at : Parts(ss, at) /\ Laid(ss, at, FlattenSeq(ss), n)
      BY <2>1, Flattened DEF Bytes
    <2>4. at[0] = 0 /\ at \in [0 .. n -> Nat] /\ \A i \in 1 .. n : at[i] = at[i - 1] + Len(ss[i])
      BY <2>1, <2>3 DEF Parts
    <2> DEFINE T == {k \in 0 .. n : at[k] = f.size * k}
    <2>5. f.size \in {4, 8}
      BY <1>3, <1>4
    <2>6. 0 \in T
      BY <2>4, <2>5
    <2>7. ASSUME NEW k \in 0 .. (n - 1), k \in T PROVE k + 1 \in T
      <3>1. k + 1 \in 1 .. n /\ k + 1 \in 0 .. n /\ k \in 0 .. n /\ (k + 1) - 1 = k
        OBVIOUS
      <3>2. at[k + 1] = f.size * k + f.size
        BY <2>2, <2>4, <2>7, <3>1
      <3>3. f.size * k + f.size = f.size * (k + 1)
        BY <2>5
      <3>4. QED
        BY <3>1, <3>2, <3>3
    <2>8. \A k \in 0 .. n : k \in T
      <3> HIDE DEF T
      <3> QED
        BY <2>6, <2>7, Induction
    <2>9. Len(FlattenSeq(ss)) = at[n] /\ n \in 0 .. n
      BY <2>3 DEF Laid
    <2>10. QED
      BY <2>8, <2>9 DEF Packed, ss
  <1>5. QED
    BY <1>1, <1>3, <1>4

\* encode_array.
LEMMA ArrayWritten ==
  ASSUME NEW p, NEW f, NEW pl, Slotted(p, f, pl), NEW vs, Given(f, vs), f.htype = "REPEATED",
         NEW mem, Keeps(mem, f, pl, vs), NEW s \in Streams
  PROVE  /\ Takes(s, EncodeArray(p, mem, s), FieldBytes(f, vs))
         /\ EncodeArray(p, mem, s).ok => Fitting(f, vs)
  <1> DEFINE n == Num(mem[PSize(p)])
             items == [k \in 1 .. n |-> EncodeItem(LTypeOf(p.type), p.data_size, mem[PData(p, k - 1)])]
             size == CASE LTypeOf(p.type) = LType.FIXED32 -> 4 * n
                       [] LTypeOf(p.type) = LType.FIXED64 -> 8 * n
                       [] OTHER -> Len(FlattenSeq(items))
             head == Write(Write(s, EncodeTag(2, p.tag)), EncodeVarint(Bits(size)))
             w == CHOOSE h : h = [k \in 0 .. n |-> IF k = 0 THEN head ELSE Write(h[k - 1], items[k])]
             F(h) == [k \in 0 .. n |-> IF k = 0 THEN head ELSE Write(h[k - 1], items[k])]
  <1>1. EncodeArray(p, mem, s) = IF n = 0 THEN s ELSE IF n > p.array_size THEN [s EXCEPT !.ok = FALSE] ELSE w[n]
    BY DEF EncodeArray
  <1>2. /\ f \in FieldLine /\ f.tag < 2 ^ 16 /\ p.tag = f.tag /\ p.data_size = f.size /\ p.array_size = f.count
        /\ LTypeOf(p.type) = LType[LTypeMap[f.ltype]] /\ f.count \in Nat /\ PrefixSize(f) # 0
    BY LineParts, SlotParts DEF Slotted, On, Given
  <1>3. n = Len(vs) /\ n \in 0 .. (2 ^ 16 - 1)
    BY <1>2, KeptRead, GivenCount
  <1>4. CASE n = 0
    <2>1. vs = <<>>
      BY <1>3, <1>4, EmptySeq DEF Given
    <2>2. FieldBytes(f, vs) = <<>>
      BY <2>1 DEF FieldBytes, LeftOut
    <2>3. Fitting(f, vs)
      BY <1>2, <1>3, <1>4 DEF Fitting
    <2>4. QED
      BY <1>1, <1>4, <2>2, <2>3, TakesNothing
  <1>5. CASE n # 0 /\ n > p.array_size
    <2>1. [s EXCEPT !.ok = FALSE] \in Streams /\ ~[s EXCEPT !.ok = FALSE].ok
      BY DEF Streams
    <2>2. QED
      BY <1>1, <1>5, <2>1 DEF Takes
  <1>6. CASE n # 0 /\ ~(n > p.array_size)
    <2>1. n <= f.count
      BY <1>2, <1>3, <1>6
    <2>2. Fitting(f, vs)
      BY <1>3, <2>1 DEF Fitting
    <2>3. ASSUME NEW k \in 1 .. n PROVE items[k] = Payload(f, vs[k])
      <3>1. mem[PData(p, k - 1)] = vs[k]
        <4>1. k <= f.count
          BY <1>2, <1>3, <2>1
        <4>2. QED
          BY <1>3, <4>1, KeptRead
      <3>2. QED
        BY <1>2, <3>1 DEF Payload
    <2>4. items = Items(f, vs)
      BY <1>3, <2>3 DEF Items
    <2>5. /\ items \in Seq(Bytes) /\ Len(items) = n /\ FlattenSeq(items) = Packed(f, vs)
          /\ Packed(f, vs) \in Bytes /\ size = Len(Packed(f, vs)) /\ size \in 0 .. (2 ^ 20)
      <3>1. /\ items \in Seq(Bytes) /\ Len(items) = n /\ FlattenSeq(items) = Packed(f, vs)
            /\ Packed(f, vs) \in Bytes /\ Len(Packed(f, vs)) \in 0 .. (2 ^ 20)
        BY <1>3, <2>4, PackedParts DEF Packed
      <3>2. size = Len(Packed(f, vs))
        <4> HIDE DEF items, n
        <4>1. /\ LTypeOf(p.type) = LType.FIXED32 => Len(Packed(f, vs)) = 4 * n
              /\ LTypeOf(p.type) = LType.FIXED64 => Len(Packed(f, vs)) = 8 * n
          BY <1>2, <1>3, PackedLength
        <4>2. QED
          BY <3>1, <4>1, Zenon
      <3>3. QED
        BY <3>1, <3>2
    <2>6. EncodeTag(2, p.tag) = TagBytes(f) /\ TagBytes(f) \in Bytes
      BY <1>2, TagOfField DEF TagBytes, Wire
    <2>7. EncodeVarint(Bits(size)) \in Bytes
      <3>1. size \in 0 .. (2 ^ 20)
        BY <2>5
      <3> HIDE DEF size
      <3>2. PICK z \in 0 .. (2 ^ 20) : z = size
        BY <3>1, Zenon
      <3>3. EncodeVarint(Bits(z)) \in Bytes
        BY <3>2, LengthSpelled, Zenon
      <3>4. QED
        BY <3>2, <3>3, Zenon
    <2>8. Takes(s, Write(s, EncodeTag(2, p.tag)), TagBytes(f)) /\ Write(s, EncodeTag(2, p.tag)) \in Streams
      BY <2>6, WriteTakes DEF Takes
    <2>9. Takes(Write(s, EncodeTag(2, p.tag)), head, EncodeVarint(Bits(size))) /\ head \in Streams
      <3> HIDE DEF size, items
      <3> QED
        BY <2>7, <2>8, WriteTakes DEF Takes
    <2> DEFINE len == EncodeVarint(Bits(size))
    <2> HIDE DEF len
    <2>10. Takes(s, head, TagBytes(f) \o len) /\ len \in Bytes
      <3> HIDE DEF head
      <3> QED
        BY <2>6, <2>7, <2>8, <2>9, TakesMore DEF len
    <2>11. \E h : h = F(h)
      <3> HIDE DEF items, head, n
      <3> DEFINE step == [x \in (1 .. n) \X Streams |-> Write(x[2], items[x[1]])]
      <3>1. ASSUME NEW i \in 1 .. n, NEW e \in Streams PROVE Write(e, items[i]) \in Streams
        <4>1. items[i] \in Bytes
          BY <2>5, ElementOfSeq
        <4>2. QED
          BY <4>1, WriteTakes DEF Takes
      <3>2. step \in [(1 .. n) \X Streams -> Streams]
        BY <3>1
      <3>3. \A i \in 1 .. n, e \in Streams : step[<<i, e>>] = Write(e, items[i])
        OBVIOUS
      <3> HIDE DEF step
      <3>4. n \in Nat
        BY <1>3
      <3>5. PICK g \in [0 .. n -> Streams] : Follows(g, head, step, n)
        BY <2>9, <3>2, <3>4, Recursion
      <3>6. g = F(g)
        <4>1. \A k \in 0 .. n : g[k] = IF k = 0 THEN head ELSE Write(g[k - 1], items[k])
          <5> SUFFICES ASSUME NEW k \in 0 .. n PROVE g[k] = IF k = 0 THEN head ELSE Write(g[k - 1], items[k])
            OBVIOUS
          <5>1. CASE k = 0
            BY <3>5, <5>1 DEF Follows
          <5>2. CASE k # 0
            <6>1. k \in 1 .. n /\ k - 1 \in 0 .. n
              BY <3>4, <5>2
            <6>2. g[k] = step[<<k, g[k - 1]>>] /\ g[k - 1] \in Streams
              BY <3>5, <6>1 DEF Follows
            <6>3. QED
              BY <3>3, <5>2, <6>1, <6>2
          <5>3. QED
            BY <5>1, <5>2
        <4>2. QED
          BY <4>1
      <3>7. QED
        BY <3>6
    <2>12. w = [k \in 0 .. n |-> IF k = 0 THEN head ELSE Write(w[k - 1], items[k])]
      <3> HIDE DEF items, head, n
      <3>1. w = F(w)
        BY <2>11, Zenon
      <3>2. QED
        BY <3>1, Zenon
    <2>13. Takes(head, w[n], FlattenSeq(items))
      <3> HIDE DEF items, head, n, w
      <3>1. n \in Nat
        BY <1>3
      <3>2. QED
        BY <2>5, <2>9, <2>12, <3>1, ItemsWritten
    <2>14. Takes(s, w[n], (TagBytes(f) \o len) \o Packed(f, vs))
      <3> HIDE DEF items, head, n, w
      <3>1. TagBytes(f) \o len \in Bytes
        BY <2>6, <2>10, Concatenated DEF Bytes
      <3>2. QED
        BY <2>5, <2>10, <2>13, <3>1, TakesMore
    <2>15. (TagBytes(f) \o len) \o Packed(f, vs) = FieldBytes(f, vs)
      <3>1. Agree(TagBytes(f), Packed(f, vs), TagBytes(f) \o len, len \o Packed(f, vs))
        BY <2>5, <2>6, <2>10, Regrouped DEF Glued, Bytes
      <3>2. vs # <<>>
        <4>1. Len(vs) # 0
          BY <1>3, <1>6
        <4>2. QED
          BY <4>1, EmptySeq DEF Given
      <3>3. ~LeftOut(f, vs)
        BY <3>2 DEF LeftOut
      <3>4. Body(f, vs) = len \o Packed(f, vs)
        BY <2>5 DEF Body, len
      <3>5. QED
        BY <3>1, <3>3, <3>4 DEF FieldBytes, Agree
    <2>16. QED
      BY <1>1, <1>6, <2>2, <2>14, <2>15
  <1>7. QED
    BY <1>4, <1>5, <1>6

\* encode_field: what is written of a member is its bytes on the wire, and an
\* array that is too long is refused.
LEMMA OneWritten ==
  ASSUME NEW p, NEW f, NEW pl, Slotted(p, f, pl), NEW vs, Given(f, vs),
         NEW mem, Keeps(mem, f, pl, vs), NEW s \in Streams
  PROVE  /\ Takes(s, EncodeOne(p, mem, s), FieldBytes(f, vs))
         /\ EncodeOne(p, mem, s).ok => Fitting(f, vs)
  <1>1. /\ f \in FieldLine /\ f.tag < 2 ^ 16 /\ On(p, f)
        /\ f.htype \in {"REQUIRED", "OPTIONAL", "SINGULAR", "REPEATED"}
    BY LineParts DEF Slotted, Given
  <1>2. /\ HTypeOf(p.type) = HType.REPEATED <=> f.htype = "REPEATED"
        /\ HTypeOf(p.type) = HType.OPTIONAL <=> f.htype \in {"OPTIONAL", "SINGULAR"}
        /\ f.htype \in {"REPEATED", "OPTIONAL"} <=> PrefixSize(f) # 0
        /\ p.size_offset # 0 <=> PrefixSize(f) # 0
    BY SlotParts
  <1>3. f.htype # "REPEATED" => Fitting(f, vs)
    BY DEF Fitting
  <1>4. CASE f.htype = "REPEATED"
    <2>1. EncodeOne(p, mem, s) = EncodeArray(p, mem, s)
      BY <1>2, <1>4 DEF EncodeOne, Absent
    <2>2. QED
      BY <1>4, <2>1, ArrayWritten
  <1>5. CASE f.htype # "REPEATED"
    <2>1. Absent(p, mem) <=> LeftOut(f, vs)
      <3>1. CASE f.htype = "REQUIRED"
        BY <1>2, <3>1 DEF Absent, LeftOut
      <3>2. CASE f.htype = "OPTIONAL"
        <4>1. mem[PSize(p)] = {} <=> Len(vs) = 0
          BY <1>2, <3>2, KeptRead
        <4>2. vs = <<>> <=> Len(vs) = 0
          BY EmptySeq DEF Given
        <4>3. Absent(p, mem) <=> mem[PSize(p)] = {}
          BY <1>2, <3>2 DEF Absent
        <4>4. LeftOut(f, vs) <=> vs = <<>>
          BY <3>2 DEF LeftOut
        <4>5. QED
          BY <4>1, <4>2, <4>3, <4>4
      <3>3. CASE f.htype = "SINGULAR"
        <4>1. Len(vs) = 1 /\ f.count \in Nat \ {0}
          BY <1>1, <3>3, GivenCount, LineParts
        <4>2. mem[PData(p, 1 - 1)] = vs[1]
          <5>1. 1 \in 1 .. Len(vs) /\ 1 <= f.count
            BY <4>1
          <5>2. QED
            BY <5>1, KeptRead
        <4>3. mem[PData(p, 0)] = vs[1]
          BY <4>2
        <4>4. Absent(p, mem) <=> mem[PData(p, 0)] = {}
          BY <1>2, <3>3 DEF Absent
        <4>5. QED
          BY <3>3, <4>3, <4>4 DEF LeftOut
      <3>4. QED
        BY <1>1, <1>5, <3>1, <3>2, <3>3
    <2>2. CASE LeftOut(f, vs)
      BY <1>3, <1>5, <2>1, <2>2, TakesNothing DEF EncodeOne, FieldBytes
    <2>3. CASE ~LeftOut(f, vs)
      <3>1. Len(vs) = 1 /\ vs[1] \in Values(f)
        <4>1. Len(vs) = 1
          BY <1>5, <2>3, GivenCount
        <4>2. 1 \in 1 .. Len(vs)
          BY <4>1
        <4>3. QED
          BY <4>1, <4>2, GivenCount
      <3>2. mem[PData(p, 0)] = vs[1]
        <4>1. 1 \in 1 .. Len(vs) /\ 1 <= f.count
          BY <1>1, <3>1, LineParts
        <4>2. mem[PData(p, 1 - 1)] = vs[1]
          BY <4>1, KeptRead
        <4>3. QED
          BY <4>2
      <3>3. EncodeOne(p, mem, s) = EncodeBasic(p, vs[1], s)
        BY <1>2, <1>5, <2>1, <2>3, <3>2 DEF EncodeOne
      <3>4. FieldBytes(f, vs) = TagBytes(f) \o Payload(f, vs[1])
        BY <1>5, <2>3 DEF FieldBytes, Body
      <3>5. Takes(s, EncodeBasic(p, vs[1], s), TagBytes(f) \o Payload(f, vs[1]))
        BY <1>1, <1>5, <3>1, BasicWritten
      <3>6. QED
        BY <1>3, <1>5, <3>3, <3>4, <3>5
    <2>4. QED
      BY <2>2, <2>3
  <1>6. QED
    BY <1>4, <1>5

-----------------------------------------------------------------------------
(* The struct.                                                             *)

Slot(n, i) == Layouts[n][i]

LEMMA OwnOffsets ==
  ASSUME NEW n \in DOMAIN Schemas, NEW i \in 1 .. Len(Fields(n))
  PROVE  Own(Fields(n)[i], Slot(n, i)) \subseteq AllOffsets[n]
  <1>1. Fields(n) \in Seq(FieldLine) /\ Layouts[n] = Layout(Fields(n))
    BY SchemaParts
  <1>2. DOMAIN Layouts[n] = 1 .. Len(Fields(n))
    BY <1>1, LayoutPlaces
  <1>3. AllOffsets[n] = Offsets(n)
    BY DEF AllOffsets
  <1>4. Own(Fields(n)[i], Slot(n, i)) \subseteq Offsets(n)
    <2> SUFFICES ASSUME NEW a \in Own(Fields(n)[i], Slot(n, i)) PROVE a \in Offsets(n)
      OBVIOUS
    <2>1. a \in {Layouts[n][i].prefix}
             \cup {Layouts[n][i].at + k * Schemas[n].list[i].size : k \in 0 .. (Schemas[n].list[i].count - 1)}
      BY DEF Own, Slot, Fields
    <2>2. QED
      BY <1>2, <2>1 DEF Offsets
  <1>5. QED
    BY <1>3, <1>4

LEMMA OnSlot ==
  ASSUME NEW n \in DOMAIN Schemas, NEW p, OnLine(p, n)
  PROVE  Slotted(p, Fields(n)[p.index + 1], Slot(n, p.index + 1))
  <1> DEFINE i == p.index + 1
             fs == Fields(n)
  <1>1. fs \in Seq(FieldLine) /\ Layouts[n] = Layout(fs)
    BY SchemaParts
  <1>2. /\ p.index \in 0 .. (Len(fs) - 1)
        /\ \A x \in {"tag", "type", "data_offset", "data_size", "size_offset", "array_size"} :
              p[x] = Declared(fs, i)[x]
    BY OnLineParts
  <1>3. i \in 1 .. Len(fs)
    <2>1. Len(fs) \in Nat
      BY <1>1, LenProperties
    <2>2. QED
      BY <1>2, <2>1
  <1>4. /\ p.tag = Declared(fs, i).tag /\ p.type = Declared(fs, i).type
        /\ p.data_offset = Declared(fs, i).data_offset /\ p.data_size = Declared(fs, i).data_size
        /\ p.size_offset = Declared(fs, i).size_offset /\ p.array_size = Declared(fs, i).array_size
    BY <1>2
  <1> HIDE DEF i, fs
  <1>5. /\ Declared(fs, i).tag = fs[i].tag
        /\ Declared(fs, i).data_offset = Layout(fs)[i].at
        /\ Declared(fs, i).data_size = fs[i].size
        /\ Declared(fs, i).array_size = fs[i].count
        /\ HTypeOf(Declared(fs, i).type) = HType[fs[i].htype]
        /\ LTypeOf(Declared(fs, i).type) = LType[LTypeMap[fs[i].ltype]]
        /\ PrefixSize(fs[i]) = 0 => Declared(fs, i).size_offset = 0
        /\ PrefixSize(fs[i]) # 0 => /\ Declared(fs, i).size_offset # 0
                                    /\ Declared(fs, i).data_offset - Declared(fs, i).size_offset = Layout(fs)[i].prefix
    BY <1>1, <1>3, DeclaredParts
  <1>6. /\ fs[i] \in FieldLine
        /\ Layout(fs)[i].prefix \in Nat /\ Layout(fs)[i].at \in Nat /\ Layout(fs)[i].end \in Nat
        /\ Layout(fs)[i].prefix + PrefixSize(fs[i]) <= Layout(fs)[i].at
        /\ Layout(fs)[i].end = Layout(fs)[i].at + fs[i].size * fs[i].count
    BY <1>1, <1>3, MemberPlace
  <1>7. Slot(n, i) = Layout(fs)[i]
    BY <1>1 DEF Slot
  <1>8. Slotted(p, fs[i], Slot(n, i))
    BY <1>4, <1>5, <1>6, <1>7, Zenon DEF Slotted, On
  <1>9. QED
    BY <1>8 DEF i, fs

\* A list whose descriptor compiles has no line too large for its words.
LEMMA LineFits ==
  ASSUME NEW n \in DOMAIN Schemas, NEW i \in 1 .. Len(Fields(n))
  PROVE  Fields(n)[i] \in FieldLine /\ Fields(n)[i].tag < 2 ^ 16 /\ Fields(n)[i].count < 2 ^ 16
  <1> DEFINE fs == Fields(n)
  <1>1. Bindable(fs, Width(n)) /\ fs \in Seq(FieldLine)
    BY SchemaParts
  <1>2. fs[i] \in FieldLine
    BY <1>1, ElementOfSeq
  <1>3. /\ WidthOf(fs, i, Width(n)) \in {1, 2, 4, 8} /\ Fits(WidthOf(fs, i, Width(n)), Declared(fs, i))
    BY <1>1, InfoWords
  <1>4. Declared(fs, i).tag = fs[i].tag /\ Declared(fs, i).array_size = fs[i].count
    BY <1>1, DeclaredParts
  <1>5. fs[i].tag \in Nat /\ fs[i].count \in Nat
    BY <1>2, LineParts
  <1>6. ASSUME NEW w \in {1, 2, 4, 8}, NEW d, Fits(w, d), d.tag \in Nat, d.array_size \in Nat
        PROVE  d.tag < 2 ^ 16 /\ d.array_size < 2 ^ 16
    <2>1. CASE w = 1
      <3>1. d.tag < 2 ^ 6 /\ d.array_size < 2 ^ 1
        BY <1>6, <2>1 DEF Fits
      <3>2. QED
        BY <1>6, <3>1
    <2>2. CASE w = 2
      <3>1. d.tag < 2 ^ 10 /\ d.array_size < 2 ^ 12
        BY <1>6, <2>2 DEF Fits
      <3>2. QED
        BY <1>6, <3>1
    <2>3. CASE w \in {4, 8}
      BY <1>6, <2>3 DEF Fits
    <2>4. QED
      BY <2>1, <2>2, <2>3
  <1>7. QED
    BY <1>2, <1>3, <1>4, <1>5, <1>6

\* What a line of a schema and the values of a message are.
LEMMA GivenThere ==
  ASSUME NEW m \in Outgoing, NEW i \in 1 .. Len(Fields(m.schema))
  PROVE  Given(Fields(m.schema)[i], m.values[i])
  <1>1. m.schema \in DOMAIN Schemas
    BY OutgoingAssumption
  <1>2. DOMAIN Fields(m.schema) = 1 .. Len(Fields(m.schema))
    BY <1>1, SchemaParts
  <1>3. m.values[i] \in Seq(Values(Fields(m.schema)[i])) /\ Len(m.values[i]) \in Counts(Fields(m.schema)[i])
    BY <1>2, OutgoingAssumption DEF Fields
  <1>4. QED
    BY <1>1, <1>3, LineFits DEF Given

LEMMA LineSlot ==
  ASSUME NEW n \in DOMAIN Schemas, NEW i \in 1 .. Len(Fields(n))
  PROVE  \E p : OnLine(p, n) /\ p.index + 1 = i /\ Slotted(p, Fields(n)[i], Slot(n, i))
  <1> DEFINE p == Standing(Fields(n), Width(n), i - 1)
  <1>1. Bindable(Fields(n), Width(n)) /\ Fields(n) \in Seq(FieldLine)
    BY SchemaParts
  <1>2. i - 1 \in 0 .. (Len(Fields(n)) - 1) /\ (i - 1) + 1 = i
    <2>1. Len(Fields(n)) \in Nat
      BY <1>1, LenProperties
    <2>2. QED
      BY <2>1
  <1>3. p.index = i - 1
    BY <1>1, <1>2, StandingParts DEF Positioned
  <1>4. OnLine(p, n)
    BY <1>2 DEF OnLine
  <1> HIDE DEF p
  <1>5. p.index + 1 = i
    BY <1>2, <1>3
  <1>6. Slotted(p, Fields(n)[i], Slot(n, i))
    BY <1>4, <1>5, OnSlot
  <1>7. QED
    BY <1>4, <1>5, <1>6

LEMMA Apart ==
  ASSUME NEW n \in DOMAIN Schemas, NEW i \in 1 .. Len(Fields(n)), NEW j \in 1 .. Len(Fields(n)), i # j
  PROVE  Slot(n, i).end <= Slot(n, j).prefix \/ Slot(n, j).end <= Slot(n, i).prefix
  <1>1. Fields(n) \in Seq(FieldLine) /\ Layouts[n] = Layout(Fields(n))
    BY SchemaParts
  <1>2. i < j \/ j < i
    OBVIOUS
  <1>3. QED
    BY <1>1, <1>2, Disjoint DEF Slot

\* A member's own offsets lie between its prefix and its end, and no others do.
LEMMA WhoseOffset ==
  ASSUME NEW n \in DOMAIN Schemas, NEW i \in 1 .. Len(Fields(n)), NEW a \in Own(Fields(n)[i], Slot(n, i))
  PROVE  /\ a \in Nat /\ Slot(n, i).prefix <= a /\ a < Slot(n, i).end
         /\ \A j \in 1 .. Len(Fields(n)) : j # i => a < Slot(n, j).prefix \/ a >= Slot(n, j).end
         /\ (CHOOSE j \in 1 .. Len(Fields(n)) : a >= Slot(n, j).prefix /\ a < Slot(n, j).end) = i
  <1> DEFINE In(j) == a >= Slot(n, j).prefix /\ a < Slot(n, j).end
  <1>1. \A j \in 1 .. Len(Fields(n)) :
          /\ Slot(n, j).prefix \in Nat /\ Slot(n, j).end \in Nat
    <2> SUFFICES ASSUME NEW j \in 1 .. Len(Fields(n)) PROVE Slot(n, j).prefix \in Nat /\ Slot(n, j).end \in Nat
      OBVIOUS
    <2>1. PICK p : Slotted(p, Fields(n)[j], Slot(n, j))
      BY LineSlot
    <2>2. QED
      BY <2>1 DEF Slotted
  <1>2. a \in Nat /\ Slot(n, i).prefix <= a /\ a < Slot(n, i).end
    <2>1. PICK p : Slotted(p, Fields(n)[i], Slot(n, i))
      BY LineSlot
    <2>2. CASE a = Slot(n, i).prefix
      BY <2>1, <2>2, SlotParts
    <2>3. CASE a # Slot(n, i).prefix
      <3>1. PICK k \in 0 .. (Fields(n)[i].count - 1) : a = Slot(n, i).at + k * Fields(n)[i].size
        BY <2>3 DEF Own
      <3>2. PData(p, k) = a /\ PData(p, k) \in Nat /\ Slot(n, i).prefix <= PData(p, k) /\ PData(p, k) < Slot(n, i).end
        BY <2>1, <3>1, SlotParts
      <3>3. QED
        BY <3>2
    <2>4. QED
      BY <2>2, <2>3
  <1>3. ASSUME NEW j \in 1 .. Len(Fields(n)), j # i
        PROVE  a < Slot(n, j).prefix \/ a >= Slot(n, j).end
    <2>1. Slot(n, i).end <= Slot(n, j).prefix \/ Slot(n, j).end <= Slot(n, i).prefix
      BY <1>3, Apart
    <2>2. PICK x \in Nat, y \in Nat, u \in Nat, v \in Nat :
            x = Slot(n, i).prefix /\ y = Slot(n, i).end /\ u = Slot(n, j).prefix /\ v = Slot(n, j).end
      BY <1>1
    <2>3. a < u \/ a >= v
      BY <1>2, <2>1, <2>2
    <2>4. QED
      BY <2>2, <2>3
  <1>4. In(i)
    BY <1>1, <1>2
  <1>5. ASSUME NEW j \in 1 .. Len(Fields(n)), In(j) PROVE j = i
    <2>1. PICK u \in Nat, v \in Nat : u = Slot(n, j).prefix /\ v = Slot(n, j).end
      BY <1>1
    <2>2. a >= u /\ a < v
      BY <1>5, <2>1
    <2>3. ~(a < u \/ a >= v)
      BY <1>2, <2>2
    <2>4. QED
      BY <1>3, <2>1, <2>3
  <1> HIDE DEF In
  <1>6. (CHOOSE j \in 1 .. Len(Fields(n)) : In(j)) = i
    BY <1>4, <1>5
  <1>7. QED
    BY <1>2, <1>3, <1>6 DEF In

\* The owner of a message fills in each member.
LEMMA StructKeeps ==
  ASSUME NEW m \in Outgoing, NEW i \in 1 .. Len(Fields(m.schema))
  PROVE  Keeps(Struct(m.schema, m.values), Fields(m.schema)[i], Slot(m.schema, i), m.values[i])
  <1> DEFINE n == m.schema
             fs == Fields(n)
             f == fs[i]
             pl == Slot(n, i)
             vs == m.values[i]
             whose(a) == CHOOSE j \in DOMAIN fs : a >= Layouts[n][j].prefix /\ a < Layouts[n][j].end
             kth(a) == (a - Layouts[n][whose(a)].at) \div fs[whose(a)].size + 1
  <1>1. n \in DOMAIN Schemas
    BY OutgoingAssumption
  <1>2. fs \in Seq(FieldLine) /\ DOMAIN fs = 1 .. Len(fs)
    BY <1>1, SchemaParts
  <1>3. Own(f, pl) \subseteq AllOffsets[n]
    BY <1>1, OwnOffsets
  <1>4. ASSUME NEW a \in Own(f, pl)
        PROVE  Struct(n, m.values)[a] =
                 IF PrefixSize(f) > 0 /\ a = pl.prefix THEN Bits(Len(vs))
                 ELSE IF (a - pl.at) \div f.size + 1 \in DOMAIN vs
                      THEN vs[(a - pl.at) \div f.size + 1] ELSE {}
    <2>1. whose(a) = i
      BY <1>1, <1>2, WhoseOffset DEF Slot
    <2>2. a \in AllOffsets[n]
      BY <1>3
    <2> HIDE DEF whose
    <2>3. Struct(n, m.values)[a] =
            IF PrefixSize(fs[whose(a)]) > 0 /\ a = Layouts[n][whose(a)].prefix THEN Bits(Len(m.values[whose(a)]))
            ELSE IF kth(a) \in DOMAIN m.values[whose(a)] THEN m.values[whose(a)][kth(a)] ELSE {}
      BY <2>2 DEF Struct, Fields, whose
    <2>4. QED
      BY <2>1, <2>3 DEF Slot
  <1>5. PICK p : Slotted(p, f, pl)
    BY <1>1, LineSlot
  <1>6. Given(f, vs)
    BY GivenThere
  <1>7. PICK len \in Nat : len = Len(vs)
    BY <1>6, LenProperties DEF Given
  <1>8. DOMAIN vs = 1 .. len
    BY <1>6, <1>7 DEF Given
  <1>9. /\ f \in FieldLine /\ f.size \in {1, 2, 4, 8} /\ f.count \in Nat /\ PrefixSize(f) \in {0, 1, 2}
    <2>1. f \in FieldLine
      BY <1>6 DEF Given
    <2>2. QED
      BY <2>1, LineParts
  <1> HIDE DEF n, fs, f, pl, vs
  <1>10. ASSUME PrefixSize(f) # 0 PROVE Struct(n, m.values)[pl.prefix] = Bits(Len(vs))
    <2>1. pl.prefix \in Own(f, pl) /\ PrefixSize(f) > 0
      BY <1>5, <1>9, <1>10, SlotParts
    <2>2. QED
      BY <1>4, <2>1
  <1>11. ASSUME NEW k \in 1 .. len, k <= f.count
         PROVE  Struct(n, m.values)[pl.at + (k - 1) * f.size] = vs[k]
    <2>1. k - 1 \in 0 .. (f.count - 1)
      BY <1>9, <1>11
    <2>2. PICK a \in Nat : a = pl.at + (k - 1) * f.size
      BY <1>5, <2>1, SlotParts
    <2>3. a \in Own(f, pl)
      BY <2>1, <2>2 DEF Own
    <2>4. ~(PrefixSize(f) > 0 /\ a = pl.prefix)
      <3>1. CASE PrefixSize(f) = 0
        BY <3>1
      <3>2. CASE PrefixSize(f) # 0
        <4>1. PData(p, k - 1) = a /\ pl.at <= PData(p, k - 1) /\ pl.prefix < pl.at
          BY <1>5, <2>1, <2>2, <3>2, SlotParts
        <4>2. pl.at \in Nat /\ pl.prefix \in Nat
          BY <1>5 DEF Slotted
        <4>3. QED
          BY <4>1, <4>2
      <3>3. QED
        BY <3>1, <3>2
    <2>5. (a - pl.at) \div f.size + 1 = k
      <3>1. PICK z \in {1, 2, 4, 8} : z = f.size
        BY <1>9
      <3>2. PICK x \in Nat : x = pl.at
        BY <1>5 DEF Slotted
      <3>3. PICK q \in Nat : q = k - 1
        BY <2>1
      <3>4. a - x = q * z
        <4>1. q * z \in Nat
          OBVIOUS
        <4>2. a = x + q * z
          BY <2>2, <3>1, <3>2, <3>3
        <4>3. QED
          BY <4>1, <4>2
      <3>5. (q * z) \div z = q
        <4>1. (q * 1) \div 1 = q /\ (q * 2) \div 2 = q /\ (q * 4) \div 4 = q /\ (q * 8) \div 8 = q
          OBVIOUS
        <4>2. QED
          BY <4>1
      <3>6. (a - x) \div z = q
        BY <3>4, <3>5
      <3>7. QED
        BY <3>1, <3>2, <3>3, <3>6
    <2>6. Struct(n, m.values)[a] = vs[k]
      BY <1>4, <1>8, <2>3, <2>4, <2>5
    <2>7. QED
      BY <2>2, <2>6
  <1>12. Keeps(Struct(n, m.values), f, pl, vs)
    BY <1>7, <1>10, <1>11, Zenon DEF Keeps
  <1>13. QED
    BY <1>12 DEF n, fs, f, pl, vs

-----------------------------------------------------------------------------
(* A field is read back.                                                   *)

LEMMA OwnWithin ==
  ASSUME NEW p, NEW f, NEW pl, Slotted(p, f, pl), NEW a \in Own(f, pl)
  PROVE  a \in Nat /\ ~(a < pl.prefix) /\ ~(a >= pl.end)
  <1>1. pl.prefix \in Nat /\ pl.end \in Nat /\ pl.prefix < pl.end
    BY SlotParts
  <1>2. CASE a = pl.prefix
    BY <1>1, <1>2
  <1>3. CASE a # pl.prefix
    <2>1. PICK k \in 0 .. (f.count - 1) : a = pl.at + k * f.size
      BY <1>3 DEF Own
    <2>2. PData(p, k) = a /\ PData(p, k) \in Nat /\ pl.prefix <= PData(p, k) /\ PData(p, k) < pl.end
      BY <2>1, SlotParts
    <2>3. QED
      BY <1>1, <2>2
  <1>4. QED
    BY <1>2, <1>3

\* The struct when v has been stored at a.
After(D, mem, pl, m, a, v, after) ==
  /\ after \in Memories(D)
  /\ after[a] = v
  /\ \A b : b # a => after[b] = m[b]
  /\ Untouched(mem, after, pl)

\* Storing in a member leaves the others alone.
LEMMA StoredHere ==
  ASSUME NEW p, NEW f, NEW pl, Slotted(p, f, pl), NEW D, Own(f, pl) \subseteq D,
         NEW mem, NEW m \in Memories(D), Untouched(mem, m, pl),
         NEW a \in Own(f, pl), NEW v \in SUBSET Nat
  PROVE  After(D, mem, pl, m, a, v, [m EXCEPT ![a] = v])
  <1>1. a \in Nat /\ ~(a < pl.prefix) /\ ~(a >= pl.end) /\ a \in D
    BY OwnWithin
  <1>2. m \in [D -> SUBSET Nat]
    BY DEF Memories
  <1>3. /\ [m EXCEPT ![a] = v] \in [D -> SUBSET Nat]
        /\ [m EXCEPT ![a] = v][a] = v
        /\ \A b : b # a => [m EXCEPT ![a] = v][b] = m[b]
    BY <1>1, <1>2
  <1>4. ASSUME NEW b \in Nat, b < pl.prefix \/ b >= pl.end PROVE [m EXCEPT ![a] = v][b] = mem[b]
    <2>1. b # a
      BY <1>1, <1>4
    <2>2. m[b] = mem[b]
      BY <1>4 DEF Untouched
    <2>3. QED
      BY <1>3, <2>1, <2>2
  <1>5. QED
    BY <1>3, <1>4 DEF Memories, Untouched, After

LEMMA ValueStored ==
  ASSUME NEW f \in FieldLine, NEW v \in Values(f)
  PROVE  v \in SUBSET Nat
  <1>1. PICK z \in {1, 2, 4, 8} : z = f.size
    BY LineParts
  <1>2. v \in SUBSET (0 .. (8 * z - 1))
    BY <1>1, ValueBits
  <1>3. QED
    BY <1>2

LEMMA BitsStored == \A n : Bits(n) \in SUBSET Nat
  BY DEF Bits

\* What decoding a field has to do: take its bytes and keep its values.
Delivers(D, d, mem, f, pl, vs, rest) ==
  /\ d.ok /\ d.rest = rest
  /\ d.mem \in Memories(D)
  /\ Keeps(d.mem, f, pl, vs)
  /\ Untouched(mem, d.mem, pl)

LEMMA SingleRead ==
  ASSUME NEW p, NEW f, NEW pl, Slotted(p, f, pl), NEW D, Own(f, pl) \subseteq D,
         NEW mem \in Memories(D), NEW vs, Given(f, vs), f.htype # "REPEATED", ~LeftOut(f, vs), NEW rest \in Bytes
  PROVE  Delivers(D, DecodeStatic(p, Wire(f), mem, Body(f, vs) \o rest), mem, f, pl, vs, rest)
  <1> DEFINE has == IF HTypeOf(p.type) = HType.OPTIONAL /\ p.size_offset # 0 THEN [mem EXCEPT ![PSize(p)] = {0}] ELSE mem
             v == vs[1]
             s == Body(f, vs) \o rest
             d == DecodeStatic(p, Wire(f), mem, s)
  <1>1. /\ f \in FieldLine /\ On(p, f) /\ Len(vs) = 1 /\ v \in Values(f)
    <2>1. Len(vs) = 1
      BY GivenCount
    <2>2. 1 \in 1 .. Len(vs)
      BY <2>1
    <2>3. QED
      BY <2>1, <2>2, GivenCount DEF Slotted, Given
  <1>2. /\ HTypeOf(p.type) = HType.REPEATED <=> f.htype = "REPEATED"
        /\ HTypeOf(p.type) = HType.OPTIONAL <=> f.htype \in {"OPTIONAL", "SINGULAR"}
        /\ f.htype \in {"REPEATED", "OPTIONAL"} <=> PrefixSize(f) # 0
        /\ p.size_offset # 0 <=> PrefixSize(f) # 0
        /\ PrefixSize(f) # 0 => PSize(p) = pl.prefix /\ pl.prefix < pl.at
        /\ pl.prefix \in Own(f, pl)
    BY SlotParts
  <1>3. PData(p, 0) = pl.at /\ pl.at \in Own(f, pl) /\ pl.at \in Nat /\ pl.prefix \in Nat
    <2>1. 0 \in 0 .. (f.count - 1) /\ pl.at + 0 * f.size = pl.at
      BY SlotParts
    <2>2. PData(p, 0) = pl.at /\ PData(p, 0) \in Own(f, pl) /\ PData(p, 0) \in Nat
      BY <2>1, SlotParts
    <2>3. QED
      BY <2>2 DEF Slotted
  <1>4. d = Stored(p, 0, has, DecodeBasic(p, Wire(f), s))
    BY <1>2 DEF DecodeStatic
  <1>5. DecodeBasic(p, Wire(f), s) = Fetched(v, rest)
    <2>1. Wire(f) = WireFor(f) /\ Body(f, vs) = Payload(f, v)
      BY DEF Wire, Body
    <2>2. QED
      BY <1>1, <2>1, BasicRead
  <1>6. d = [ok |-> TRUE, rest |-> rest, mem |-> [has EXCEPT ![PData(p, 0)] = v]]
    BY <1>4, <1>5 DEF Stored, Fetched
  <1>7. /\ has \in Memories(D) /\ Untouched(mem, has, pl)
        /\ PrefixSize(f) # 0 => has[pl.prefix] = {0}
    <2>1. Untouched(mem, mem, pl)
      BY DEF Untouched
    <2>2. CASE PrefixSize(f) # 0
      <3>1. has = [mem EXCEPT ![pl.prefix] = {0}]
        BY <1>2, <2>2
      <3>2. {0} \in SUBSET Nat
        OBVIOUS
      <3>3. /\ [mem EXCEPT ![pl.prefix] = {0}] \in Memories(D)
            /\ [mem EXCEPT ![pl.prefix] = {0}][pl.prefix] = {0}
            /\ Untouched(mem, [mem EXCEPT ![pl.prefix] = {0}], pl)
        <4>1. PICK a \in Own(f, pl) : a = pl.prefix
          BY <1>2
        <4>2. PICK one \in SUBSET Nat : one = {0}
          BY <3>2
        <4>3. After(D, mem, pl, mem, a, one, [mem EXCEPT ![a] = one])
          BY <2>1, StoredHere, Zenon
        <4>4. QED
          BY <4>1, <4>2, <4>3, Zenon DEF After
      <3>4. QED
        BY <3>1, <3>3
    <2>3. CASE PrefixSize(f) = 0
      BY <1>2, <2>1, <2>3
    <2>4. QED
      BY <2>2, <2>3
  <1> HIDE DEF has, d
  <1> DEFINE after == [has EXCEPT ![pl.at] = v]
  <1>8. /\ after \in Memories(D) /\ after[pl.at] = v /\ Untouched(mem, after, pl)
        /\ \A b : b # pl.at => after[b] = has[b]
    <2>1. v \in SUBSET Nat
      BY <1>1, ValueStored
    <2>2. PICK a \in Own(f, pl) : a = pl.at
      BY <1>3
    <2>3. PICK u \in SUBSET Nat : u = v
      BY <2>1
    <2>4. PICK h \in Memories(D) : h = has /\ Untouched(mem, h, pl)
      BY <1>7
    <2>5. After(D, mem, pl, h, a, u, [h EXCEPT ![a] = u])
      BY <2>4, StoredHere, Zenon
    <2>6. QED
      BY <2>2, <2>3, <2>4, <2>5, Zenon DEF After
  <1> HIDE DEF after
  <1>9. Keeps(after, f, pl, vs)
    <2>1. ASSUME PrefixSize(f) # 0 PROVE after[pl.prefix] = Bits(Len(vs))
      <3>1. pl.prefix # pl.at
        BY <1>2, <1>3, <2>1
      <3>2. after[pl.prefix] = {0}
        BY <1>7, <1>8, <2>1, <3>1
      <3>3. QED
        BY <1>1, <3>2, SmallBits
    <2>2. ASSUME NEW k \in 1 .. Len(vs) PROVE after[pl.at + (k - 1) * f.size] = vs[k]
      <3>1. k = 1
        BY <1>1
      <3>2. pl.at + (k - 1) * f.size = pl.at
        <4>1. PICK z \in {1, 2, 4, 8} : z = f.size
          BY <1>1, LineParts
        <4>2. QED
          BY <1>3, <3>1, <4>1
      <3>3. QED
        BY <1>8, <3>1, <3>2
    <2>3. QED
      BY <2>1, <2>2 DEF Keeps
  <1>10. d.ok /\ d.rest = rest /\ d.mem = after
    BY <1>3, <1>6 DEF after
  <1>11. QED
    BY <1>8, <1>9, <1>10 DEF Delivers, d

\* A value that is cut short is refused.
LEMMA SingleCut ==
  ASSUME NEW p, NEW f, NEW pl, Slotted(p, f, pl), NEW mem, NEW vs, Given(f, vs),
         f.htype # "REPEATED", ~LeftOut(f, vs), NEW k \in 0 .. (Len(Body(f, vs)) - 1)
  PROVE  ~DecodeStatic(p, Wire(f), mem, SubSeq(Body(f, vs), 1, k)).ok
  <1>1. /\ f \in FieldLine /\ On(p, f) /\ Len(vs) = 1 /\ vs[1] \in Values(f)
    <2>1. Len(vs) = 1
      BY GivenCount
    <2>2. 1 \in 1 .. Len(vs)
      BY <2>1
    <2>3. QED
      BY <2>1, <2>2, GivenCount DEF Slotted, Given
  <1>2. HTypeOf(p.type) # HType.REPEATED
    BY SlotParts
  <1>3. Body(f, vs) = Payload(f, vs[1])
    BY DEF Body
  <1>4. ~DecodeBasic(p, Wire(f), SubSeq(Body(f, vs), 1, k)).ok
    BY <1>1, <1>3, BasicCut
  <1>5. QED
    BY <1>2, <1>4 DEF DecodeStatic, Stored

-----------------------------------------------------------------------------
(* An array is read back.                                                  *)

\* One round of the loop of decode_static_field.
OneItem(f, p) ==
  LET count == Num(p.mem[PSize(f)])
      one == Stored(f, count, p.mem, DecodeBasic(f, 255, p.rest))
  IN  IF ~p.ok \/ p.rest = <<>> \/ count >= f.array_size THEN p
      ELSE IF one.ok THEN [one EXCEPT !.mem = [@ EXCEPT ![PSize(f)] = Bits(count + 1)]]
      ELSE one

\* The state of the loop.
Steps(D) == [ok : BOOLEAN, rest : Bytes, mem : Memories(D)]

\* The first k items have been read and r is left.
Partly(D, s, mem, f, pl, vs, k, r) ==
  /\ s \in Steps(D) /\ s.ok /\ s.rest = r
  /\ s.mem[pl.prefix] = Bits(k)
  /\ \A j \in 1 .. k : s.mem[pl.at + (j - 1) * f.size] = vs[j]
  /\ Untouched(mem, s.mem, pl)

\* r is what follows a in q.
Heads(q, f, vs, k, r) == q = Payload(f, vs[k + 1]) \o r
Ahead(k, vs) == k < Len(vs)

Reached(D, s, r, m) == s \in Steps(D) /\ s.ok /\ s.rest = r /\ s.mem = m
Storing(D, p, k, mem, v, r, d, after) ==
  r \in Bytes /\ d = Fetched(v, r) /\ after \in Memories(D) /\ after = [mem EXCEPT ![PData(p, k)] = v]

LEMMA StoredFetched ==
  ASSUME NEW D, NEW p, NEW k, NEW mem, NEW v, NEW r, NEW d, NEW after, Storing(D, p, k, mem, v, r, d, after)
  PROVE  Reached(D, Stored(p, k, mem, d), r, after)
  BY DEF Stored, Fetched, Steps, Storing, Reached

LEMMA MemorySet ==
  ASSUME NEW D, NEW one, NEW r, NEW x, Reached(D, one, r, x), NEW y \in Memories(D)
  PROVE  Reached(D, [one EXCEPT !.mem = y], r, y)
  BY DEF Steps, Reached

LEMMA ItemsApart ==
  ASSUME NEW z \in {1, 2, 4, 8}, NEW x \in Nat, NEW y \in Nat, x < y, NEW at \in Nat
  PROVE  at + x * z # at + y * z
  <1>1. x * 1 < y * 1 /\ x * 2 < y * 2 /\ x * 4 < y * 4 /\ x * 8 < y * 8
    OBVIOUS
  <1>2. x * z < y * z
    BY <1>1
  <1>3. PICK a \in Nat, b \in Nat : a = x * z /\ b = y * z
    OBVIOUS
  <1>4. QED
    BY <1>2, <1>3

LEMMA NotEmpty ==
  ASSUME NEW a \in Bytes, Len(a) >= 1, NEW r \in Bytes
  PROVE  a \o r # <<>>
  <1>1. PICK x \in Nat, y \in Nat : x = Len(a) /\ y = Len(r) /\ Len(a \o r) = x + y
    BY RestOfStream
  <1>2. x + y # 0
    BY <1>1
  <1>3. Len(<<>>) = 0
    OBVIOUS
  <1>4. QED
    BY <1>1, <1>2, <1>3

LEMMA ItemNext ==
  ASSUME NEW p, NEW f, NEW pl, Slotted(p, f, pl), NEW D, Own(f, pl) \subseteq D, f.htype = "REPEATED",
         NEW mem, NEW vs, Given(f, vs), Fitting(f, vs), NEW k \in Nat, Ahead(k, vs), NEW r \in Bytes,
         NEW q, Heads(q, f, vs, k, r), NEW s, Partly(D, s, mem, f, pl, vs, k, q)
  PROVE  Partly(D, OneItem(p, s), mem, f, pl, vs, k + 1, r)
  <1>1. PICK n \in Nat : n = Len(vs)
    BY LenProperties DEF Given
  <1>2. /\ f \in FieldLine /\ On(p, f) /\ f.size \in {1, 2, 4, 8} /\ f.count \in Nat /\ p.array_size = f.count
        /\ PSize(p) = pl.prefix /\ pl.prefix < pl.at /\ pl.at \in Nat /\ pl.prefix \in Nat
        /\ pl.prefix \in Own(f, pl)
    <2>1. f \in FieldLine /\ On(p, f) /\ pl.at \in Nat /\ pl.prefix \in Nat
      BY DEF Slotted, Given
    <2>2. PrefixSize(f) # 0
      BY <2>1, LineParts
    <2>3. QED
      BY <2>1, <2>2, SlotParts, LineParts
  <1>3. n \in 0 .. (2 ^ 16 - 1) /\ n <= f.count /\ k < n /\ k + 1 \in 1 .. n
    BY <1>1, GivenCount DEF Ahead
  <1>4. PICK v \in Values(f) : v = vs[k + 1]
    BY <1>1, <1>3, GivenCount
  <1>5. /\ s.ok /\ s.rest = q /\ s.mem \in Memories(D) /\ s.mem[pl.prefix] = Bits(k)
        /\ \A j \in 1 .. k : s.mem[pl.at + (j - 1) * f.size] = vs[j]
        /\ Untouched(mem, s.mem, pl)
    BY <1>4 DEF Partly, Steps
  <1>6. q = Payload(f, v) \o r /\ q # <<>>
    <2>1. Payload(f, v) \in Bytes /\ Len(Payload(f, v)) \in 1 .. 10
      BY <1>2, PayloadBytes
    <2>2. Payload(f, v) \in Bytes /\ Len(Payload(f, v)) >= 1
      <3>1. \A x \in 1 .. 10 : x >= 1
        OBVIOUS
      <3>2. QED
        BY <2>1, <3>1, Zenon
    <2>3. q = Payload(f, v) \o r
      BY <1>4 DEF Heads
    <2>4. QED
      BY <2>2, <2>3, NotEmpty
  <1>7. Num(s.mem[PSize(p)]) = k
    <2>1. k \in 0 .. (2 ^ 20)
      BY <1>3
    <2>2. QED
      BY <1>2, <1>5, <2>1, LengthBits
  <1>8. DecodeBasic(p, 255, s.rest) = Fetched(v, r)
    <2>1. 255 \in {255, WireFor(f)}
      OBVIOUS
    <2>2. DecodeBasic(p, 255, Payload(f, v) \o r) = Fetched(v, r)
      BY <1>2, <2>1, BasicRead
    <2>3. QED
      BY <1>5, <1>6, <2>2
  <1>9. PICK a \in Own(f, pl) : a = PData(p, k) /\ a = pl.at + k * f.size /\ a \in Nat /\ pl.at <= a
    <2>1. k \in 0 .. (f.count - 1)
      BY <1>2, <1>3
    <2>2. QED
      BY <2>1, SlotParts
  <1>10. PICK c \in Own(f, pl) : c = pl.prefix
    BY <1>2
  <1>11. c # a
    BY <1>2, <1>9, <1>10
  <1>12. PICK u \in SUBSET Nat : u = v
    BY <1>2, ValueStored
  <1>13. PICK b \in SUBSET Nat : b = Bits(k + 1)
    BY BitsStored
  <1>14. PICK m \in Memories(D) : m = s.mem /\ Untouched(mem, m, pl)
    BY <1>5
  <1> DEFINE m1 == [m EXCEPT ![a] = u]
             m2 == [m1 EXCEPT ![c] = b]
  <1>15. After(D, mem, pl, m, a, u, m1)
    BY <1>14, StoredHere, Zenon
  <1> HIDE DEF m1
  <1>16. After(D, mem, pl, m1, c, b, m2)
    <2>1. m1 \in Memories(D) /\ Untouched(mem, m1, pl)
      BY <1>15 DEF After
    <2>2. QED
      BY <2>1, StoredHere, Zenon
  <1> HIDE DEF m2
  <1>17. PICK one : one = Stored(p, k, m, DecodeBasic(p, 255, s.rest)) /\ Reached(D, one, r, m1)
    <2>1. PICK d : d = DecodeBasic(p, 255, s.rest) /\ d = Fetched(u, r)
      BY <1>8, <1>12, Zenon
    <2>2. m1 \in Memories(D) /\ m1 = [m EXCEPT ![PData(p, k)] = u]
      BY <1>9, <1>15 DEF m1, After
    <2>3. Storing(D, p, k, m, u, r, d, m1)
      BY <2>1, <2>2, Zenon DEF Storing
    <2>4. QED
      BY <2>1, <2>3, StoredFetched, Zenon
  <1>18. OneItem(p, s) = [one EXCEPT !.mem = [@ EXCEPT ![PSize(p)] = Bits(k + 1)]]
    <2>1. ~(~s.ok \/ s.rest = <<>> \/ k >= p.array_size)
      BY <1>2, <1>3, <1>5, <1>6
    <2>2. OneItem(p, s) = IF ~s.ok \/ s.rest = <<>> \/ k >= p.array_size THEN s
                          ELSE IF one.ok THEN [one EXCEPT !.mem = [@ EXCEPT ![PSize(p)] = Bits(k + 1)]]
                          ELSE one
      BY <1>7, <1>17, <1>14, Zenon DEF OneItem
    <2>3. one.ok
      BY <1>17 DEF Reached
    <2>4. QED
      BY <1>17, <2>1, <2>2, <2>3, Zenon
  <1>19. Reached(D, OneItem(p, s), r, m2)
    <2>1. PSize(p) = c
      BY <1>2, <1>10
    <2>2. one.mem = m1
      BY <1>17 DEF Reached
    <2>3. [one EXCEPT !.mem = [@ EXCEPT ![c] = b]] = [one EXCEPT !.mem = m2]
      BY <2>2, Zenon DEF m2
    <2>4. m2 \in Memories(D)
      BY <1>16 DEF After
    <2>5. Reached(D, [one EXCEPT !.mem = m2], r, m2)
      BY <1>17, <2>4, MemorySet, Zenon
    <2>6. OneItem(p, s) = [one EXCEPT !.mem = m2]
      BY <1>18, <1>13, <2>1, <2>3, Zenon
    <2>7. QED
      BY <2>5, <2>6, Zenon
  <1>20. m2[pl.prefix] = Bits(k + 1)
    BY <1>10, <1>13, <1>16 DEF After
  <1>21. ASSUME NEW j \in 1 .. (k + 1) PROVE m2[pl.at + (j - 1) * f.size] = vs[j]
    <2>1. PICK x \in Own(f, pl) : x = pl.at + (j - 1) * f.size /\ x \in Nat /\ pl.at <= x
      <3>1. j - 1 \in 0 .. (f.count - 1)
        BY <1>2, <1>3
      <3>2. QED
        BY <3>1, SlotParts
    <2>2. x # c
      BY <1>2, <1>10, <2>1
    <2>3. m2[x] = m1[x]
      BY <1>16, <2>2 DEF After
    <2>4. CASE j = k + 1
      <3>1. j - 1 = k
        BY <2>4
      <3>2. x = a
        BY <1>9, <2>1, <3>1
      <3>3. m1[a] = u
        BY <1>15 DEF After
      <3>4. QED
        BY <1>4, <1>12, <2>1, <2>3, <2>4, <3>2, <3>3
    <2>5. CASE j # k + 1
      <3>1. j \in 1 .. k /\ j - 1 \in Nat /\ j - 1 < k
        BY <2>5
      <3>2. x # a
        BY <1>2, <1>9, <2>1, <3>1, ItemsApart
      <3>3. m1[x] = m[x]
        BY <1>15, <3>2 DEF After
      <3>4. m[x] = vs[j]
        BY <1>5, <1>14, <2>1, <3>1
      <3>5. QED
        BY <2>1, <2>3, <3>3, <3>4
    <2>6. QED
      BY <2>4, <2>5
  <1>22. m2 \in Memories(D) /\ Untouched(mem, m2, pl)
    BY <1>16 DEF After
  <1>23. QED
    BY <1>19, <1>20, <1>21, <1>22 DEF Partly, Reached

\* The recursion of the loop.
Loops(p, D, a, c, g) ==
  /\ g \in [0 .. c -> Steps(D)]
  /\ g[0] = a
  /\ \A k \in 1 .. c : OneItem(p, g[k - 1]) \in Steps(D) => g[k] = OneItem(p, g[k - 1])

LEMMA ItemsRecursion ==
  ASSUME NEW p, NEW c \in Nat, NEW D, NEW a \in Steps(D)
  PROVE  \E g : Loops(p, D, a, c, g)
  <1> DEFINE step == [x \in (1 .. c) \X Steps(D) |->
                        IF OneItem(p, x[2]) \in Steps(D) THEN OneItem(p, x[2]) ELSE x[2]]
  <1>1. step \in [(1 .. c) \X Steps(D) -> Steps(D)]
    OBVIOUS
  <1>2. \A i \in 1 .. c, e \in Steps(D) : OneItem(p, e) \in Steps(D) => step[<<i, e>>] = OneItem(p, e)
    OBVIOUS
  <1> HIDE DEF step
  <1>3. PICK g \in [0 .. c -> Steps(D)] : Follows(g, a, step, c)
    BY <1>1, Recursion
  <1>4. \A k \in 1 .. c : k - 1 \in 0 .. c /\ g[k - 1] \in Steps(D) /\ g[k] = step[<<k, g[k - 1]>>]
    BY <1>3 DEF Follows
  <1>5. QED
    BY <1>2, <1>3, <1>4 DEF Follows, Loops

AllRead(D, p, mem, f, pl, vs) ==
  \E s : /\ Partly(D, s, mem, f, pl, vs, Len(vs), <<>>)
         /\ PackedItems(p, mem, Packed(f, vs)) = [s EXCEPT !.ok = @ /\ s.rest = <<>>]

LEMMA PackedRead ==
  ASSUME NEW p, NEW f, NEW pl, Slotted(p, f, pl), NEW D, Own(f, pl) \subseteq D, f.htype = "REPEATED",
         NEW mem \in Memories(D), Fresh(mem, f, pl), NEW vs, Given(f, vs), Fitting(f, vs)
  PROVE  AllRead(D, p, mem, f, pl, vs)
  <1> DEFINE c == p.array_size
             a == [ok |-> TRUE, rest |-> Packed(f, vs), mem |-> mem]
             F(h) == [k \in 0 .. c |-> IF k = 0 THEN a ELSE OneItem(p, h[k - 1])]
             w == CHOOSE h : h = [k \in 0 .. c |-> IF k = 0 THEN a ELSE OneItem(p, h[k - 1])]
             ss == Items(f, vs)
  <1>1. PackedItems(p, mem, Packed(f, vs)) = [w[c] EXCEPT !.ok = @ /\ w[c].rest = <<>>]
    BY DEF PackedItems, OneItem
  <1>2. PICK n \in Nat : n = Len(vs)
    BY LenProperties DEF Given
  <1>3. f \in FieldLine /\ c \in Nat /\ n <= c /\ PrefixSize(f) # 0
    <2>1. f \in FieldLine
      BY DEF Given
    <2>2. n <= f.count /\ f.count \in Nat
      BY <1>2, <2>1, GivenCount, LineParts
    <2>3. p.array_size = f.count
      BY SlotParts
    <2>4. QED
      BY <2>1, <2>2, <2>3, LineParts
  <1>4. /\ ss \in Seq(Bytes) /\ Len(ss) = n /\ Packed(f, vs) \in Bytes
        /\ \A k \in 1 .. n : ss[k] = Payload(f, vs[k])
    BY <1>2, PackedParts
  <1> HIDE DEF ss
  <1>5. PICK R \in [0 .. n -> Bytes] :
          R[0] = Packed(f, vs) /\ R[n] = <<>> /\ \A k \in 1 .. n : R[k - 1] = Payload(f, vs[k]) \o R[k]
    <2>1. ss \in Seq(Seq(Byte))
      BY <1>4 DEF Bytes
    <2>2. PICK r \in [0 .. Len(ss) -> Seq(Byte)] : Rests(ss, r) /\ FlattenSeq(ss) = r[0]
      BY <2>1, FlattenRests
    <2>3. /\ r \in [0 .. n -> Bytes] /\ r[0] = Packed(f, vs) /\ r[n] = <<>>
          /\ \A k \in 1 .. n : r[k - 1] = ss[k] \o r[k]
      BY <1>4, <2>2 DEF Rests, Packed, ss, Bytes
    <2>4. \A k \in 1 .. n : r[k - 1] = Payload(f, vs[k]) \o r[k]
      BY <1>4, <2>3
    <2>5. QED
      BY <2>3, <2>4
  <1>6. a \in Steps(D) /\ a.ok /\ a.rest = Packed(f, vs) /\ a.mem = mem
    BY <1>4 DEF Steps
  <1>7. Partly(D, a, mem, f, pl, vs, 0, R[0])
    <2>1. mem[pl.prefix] = Bits(0)
      BY <1>3, SmallBits DEF Fresh
    <2>2. Untouched(mem, mem, pl)
      BY DEF Untouched
    <2>3. \A j \in 1 .. 0 : FALSE
      OBVIOUS
    <2> HIDE DEF a
    <2>4. QED
      BY <1>5, <1>6, <2>1, <2>2, <2>3 DEF Partly
  <1> HIDE DEF a, c
  <1>8. PICK g \in [0 .. c -> Steps(D)] :
          /\ g[0] = a
          /\ \A k \in 1 .. c : OneItem(p, g[k - 1]) \in Steps(D) => g[k] = OneItem(p, g[k - 1])
    <2>1. PICK g : Loops(p, D, a, c, g)
      BY <1>3, <1>6, ItemsRecursion, Zenon
    <2>2. QED
      BY <2>1, Zenon DEF Loops
  <1> DEFINE Upto(k) == IF k <= n THEN k ELSE n
             Right(k) == Partly(D, g[k], mem, f, pl, vs, Upto(k), R[Upto(k)])
             T == {k \in 0 .. c : Right(k) /\ (k = 0 \/ g[k] = OneItem(p, g[k - 1]))}
  <1>9. 0 \in T
    BY <1>2, <1>3, <1>7, <1>8
  <1>10. ASSUME NEW k \in 0 .. (c - 1), k \in T PROVE k + 1 \in T
    <2>1. k + 1 \in 1 .. c /\ k + 1 \in 0 .. c /\ k \in 0 .. c /\ (k + 1) - 1 = k /\ k \in Nat /\ k + 1 # 0
      BY <1>3
    <2>2. g[k] \in Steps(D) /\ Right(k)
      BY <1>8, <1>10, <2>1
    <2>3. OneItem(p, g[k]) \in Steps(D) => g[k + 1] = OneItem(p, g[k])
      BY <1>8, <2>1
    <2>4. CASE k < n
      <3>1. Upto(k) = k /\ Upto(k + 1) = k + 1 /\ k + 1 \in 1 .. n /\ k + 1 \in 0 .. n
        BY <2>1, <2>4
      <3>2. PICK q : q = R[k]
        OBVIOUS
      <3>3. PICK r \in Bytes : r = R[k + 1]
        BY <1>5, <3>1
      <3>4. Partly(D, g[k], mem, f, pl, vs, k, q)
        BY <2>2, <3>1, <3>2
      <3>5. Heads(q, f, vs, k, r) /\ Ahead(k, vs)
        <4>1. R[(k + 1) - 1] = Payload(f, vs[k + 1]) \o R[k + 1]
          BY <1>5, <3>1
        <4>2. QED
          BY <1>2, <2>1, <2>4, <3>2, <3>3, <4>1 DEF Heads, Ahead
      <3>6. Partly(D, OneItem(p, g[k]), mem, f, pl, vs, k + 1, r)
        BY <2>1, <3>4, <3>5, ItemNext
      <3>7. OneItem(p, g[k]) \in Steps(D)
        BY <3>6 DEF Partly
      <3>8. Right(k + 1)
        BY <2>3, <3>1, <3>3, <3>6, <3>7
      <3> HIDE DEF Right
      <3>9. QED
        BY <2>1, <2>3, <3>7, <3>8
    <2>5. CASE ~(k < n)
      <3>1. Upto(k) = n /\ Upto(k + 1) = n
        BY <2>1, <2>5
      <3>2. g[k].rest = <<>>
        BY <1>5, <2>2, <3>1 DEF Partly
      <3>3. OneItem(p, g[k]) = g[k]
        BY <3>2 DEF OneItem
      <3>4. g[k + 1] = OneItem(p, g[k]) /\ g[k + 1] = g[k]
        BY <2>2, <2>3, <3>3
      <3>5. Right(k + 1)
        BY <2>2, <3>1, <3>4
      <3> HIDE DEF Right
      <3>6. QED
        BY <2>1, <3>4, <3>5
    <2>6. QED
      BY <2>4, <2>5
  <1>11. \A k \in 0 .. c : k \in T
    <2> HIDE DEF T
    <2> QED
      BY <1>3, <1>9, <1>10, Induction
  <1>12. g = F(g)
    <2>1. \A k \in 0 .. c : g[k] = IF k = 0 THEN a ELSE OneItem(p, g[k - 1])
      BY <1>8, <1>11
    <2> HIDE DEF T
    <2>2. QED
      BY <1>8, <2>1
  <1>13. \A h : h = F(h) => h = g
    <2> SUFFICES ASSUME NEW h, h = F(h) PROVE h = g
      OBVIOUS
    <2>1. h[0] = a /\ \A k \in 1 .. c : h[k] = OneItem(p, h[k - 1])
      <3>1. \A k \in 0 .. c : h[k] = IF k = 0 THEN a ELSE OneItem(p, h[k - 1])
        BY Zenon
      <3>2. 0 \in 0 .. c /\ \A k \in 1 .. c : k \in 0 .. c /\ k # 0
        BY <1>3
      <3>3. QED
        BY <3>1, <3>2
    <2> DEFINE U == {k \in 0 .. c : h[k] = g[k]}
    <2>2. 0 \in U
      BY <1>3, <1>8, <2>1
    <2>3. ASSUME NEW k \in 0 .. (c - 1), k \in U PROVE k + 1 \in U
      <3>1. k + 1 \in 1 .. c /\ k + 1 \in 0 .. c /\ (k + 1) - 1 = k /\ k + 1 # 0
        BY <1>3
      <3>2. h[k + 1] = OneItem(p, h[k]) /\ h[k] = g[k]
        BY <2>1, <2>3, <3>1
      <3>3. g[k + 1] = OneItem(p, g[k])
        BY <1>11, <3>1
      <3>4. QED
        BY <3>1, <3>2, <3>3
    <2>4. \A k \in 0 .. c : k \in U
      <3> HIDE DEF U
      <3> QED
        BY <1>3, <2>2, <2>3, Induction
    <2>5. \A k \in 0 .. c : h[k] = g[k]
      BY <2>4
    <2>6. h = [k \in 0 .. c |-> h[k]] /\ g = [k \in 0 .. c |-> g[k]]
      BY <1>12
    <2>7. QED
      BY <2>5, <2>6
  <1> HIDE DEF T
  <1>14. w = g
    <2>1. w = F(w)
      BY <1>12, Zenon
    <2>2. QED
      BY <1>13, <2>1, Zenon
  <1>15. Partly(D, g[c], mem, f, pl, vs, n, <<>>)
    <2>1. c \in 0 .. c
      BY <1>3
    <2>2. Upto(c) = n
      BY <1>3
    <2>3. QED
      BY <1>5, <1>11, <2>1, <2>2 DEF T
  <1> HIDE DEF w
  <1>16. QED
    BY <1>1, <1>2, <1>14, <1>15 DEF AllRead

LEMMA ArrayRead ==
  ASSUME NEW p, NEW f, NEW pl, Slotted(p, f, pl), NEW D, Own(f, pl) \subseteq D, f.htype = "REPEATED",
         NEW mem \in Memories(D), Fresh(mem, f, pl), NEW vs, Given(f, vs), Fitting(f, vs), NEW rest \in Bytes
  PROVE  Delivers(D, DecodeStatic(p, Wire(f), mem, Body(f, vs) \o rest), mem, f, pl, vs, rest)
  <1>1. PICK n \in Nat : n = Len(vs)
    BY LenProperties DEF Given
  <1>2. f \in FieldLine /\ HTypeOf(p.type) = HType.REPEATED /\ Wire(f) = 2
    BY SlotParts DEF Given, Wire
  <1>3. PICK P \in Bytes, len \in 0 .. (2 ^ 20) : P = Packed(f, vs) /\ len = Len(P)
    BY PackedParts
  <1>4. PICK E \in Bytes : E = EncodeVarint(Bits(len))
    BY LengthSpelled
  <1>5. PICK q \in Bytes : q = P \o rest
    BY RestOfStream
  <1>6. PICK s : s = Body(f, vs) \o rest /\ s = E \o q
    <2>1. Body(f, vs) = E \o P
      BY <1>3, <1>4 DEF Body
    <2>2. Agree(E, rest, E \o P, q)
      BY <1>5, Regrouped DEF Glued, Bytes
    <2>3. QED
      BY <2>1, <2>2 DEF Agree
  <1>7. DecodeVarint32(s) = Decoded(Bits(len), q)
    BY <1>4, <1>6, LengthSpelled
  <1>8. 31 \notin Bits(len) /\ Num(Bits(len)) = len
    BY LengthBits
  <1>9. Read(q, len) = Decoded(P, rest)
    BY <1>3, <1>5, ReadBack
  <1>10. PICK t : Partly(D, t, mem, f, pl, vs, n, <<>>)
                  /\ PackedItems(p, mem, P) = [t EXCEPT !.ok = @ /\ t.rest = <<>>]
    <2>1. PICK t : Partly(D, t, mem, f, pl, vs, Len(vs), <<>>)
                   /\ PackedItems(p, mem, Packed(f, vs)) = [t EXCEPT !.ok = @ /\ t.rest = <<>>]
      <3>1. AllRead(D, p, mem, f, pl, vs)
        BY PackedRead
      <3>2. QED
        BY <3>1, Zenon DEF AllRead
    <2>2. QED
      BY <1>1, <1>3, <2>1, Zenon
  <1>11. DecodeStatic(p, Wire(f), mem, s) = DecodeArray(p, 2, mem, s)
    BY <1>2 DEF DecodeStatic
  <1>12. DecodeArray(p, 2, mem, s) = [PackedItems(p, mem, P) EXCEPT !.rest = rest]
    <2>1. ASSUME NEW size, size = Decoded(Bits(len), q) PROVE size.ok /\ size.v = Bits(len) /\ size.rest = q
      BY <2>1 DEF Decoded
    <2>2. PICK size : size = DecodeVarint32(s) /\ size.ok /\ size.v = Bits(len) /\ size.rest = q
      BY <1>7, <2>1
    <2>3. PICK sub : sub = Read(q, len) /\ sub.ok /\ sub.v = P /\ sub.rest = rest
      BY <1>9 DEF Decoded
    <2>4. (IF 31 \in size.v THEN Malformed ELSE Read(size.rest, Num(size.v))) = sub
      BY <1>8, <2>2, <2>3, Zenon
    <2>5. DecodeArray(p, 2, mem, s) =
            IF size.ok /\ sub.ok THEN [PackedItems(p, mem, sub.v) EXCEPT !.rest = sub.rest]
            ELSE [ok |-> FALSE, rest |-> s, mem |-> mem]
      BY <2>2, <2>4, Zenon DEF DecodeArray
    <2>6. QED
      BY <2>2, <2>3, <2>5, Zenon
  <1>13. /\ t \in Steps(D) /\ t.ok /\ t.rest = <<>> /\ t.mem[pl.prefix] = Bits(n)
         /\ \A j \in 1 .. n : t.mem[pl.at + (j - 1) * f.size] = vs[j]
         /\ Untouched(mem, t.mem, pl)
    BY <1>10, Zenon DEF Partly
  <1> DEFINE t1 == [t EXCEPT !.ok = @ /\ t.rest = <<>>]
             t2 == [t1 EXCEPT !.rest = rest]
  <1>14. t1 \in Steps(D) /\ t1.ok /\ t1.mem = t.mem
    BY <1>13 DEF Steps
  <1> HIDE DEF t1
  <1>15. t2.ok /\ t2.rest = rest /\ t2.mem = t.mem /\ t2.mem \in Memories(D)
    BY <1>13, <1>14 DEF Steps
  <1>16. Keeps(t.mem, f, pl, vs)
    BY <1>1, <1>13 DEF Keeps
  <1> HIDE DEF t2
  <1>17. Delivers(D, t2, mem, f, pl, vs, rest)
    BY <1>13, <1>15, <1>16 DEF Delivers
  <1>18. DecodeStatic(p, Wire(f), mem, s) = t2
    BY <1>10, <1>11, <1>12, Zenon DEF t1, t2
  <1>19. QED
    BY <1>6, <1>17, <1>18, Zenon

\* decode_field, and with it decode_static_field: what was written of a member
\* is read back into it, and into no other.
LEMMA FieldRead ==
  ASSUME NEW p, NEW f, NEW pl, Slotted(p, f, pl), NEW D, Own(f, pl) \subseteq D,
         NEW mem \in Memories(D), Fresh(mem, f, pl), NEW vs, Given(f, vs), Fitting(f, vs), ~LeftOut(f, vs),
         NEW rest \in Bytes
  PROVE  Delivers(D, DecodeStatic(p, Wire(f), mem, Body(f, vs) \o rest), mem, f, pl, vs, rest)
  BY ArrayRead, SingleRead, Zenon

\* What is left out was there before: the defaults.
LEMMA AbsentKeeps ==
  ASSUME NEW f, NEW pl, NEW mem, Fresh(mem, f, pl), NEW vs, Given(f, vs), LeftOut(f, vs), pl.at \in Nat
  PROVE  Keeps(mem, f, pl, vs)
  <1>1. PICK n \in Nat : n = Len(vs)
    BY LenProperties DEF Given
  <1>2. f \in FieldLine
    BY DEF Given
  <1>3. CASE f.htype \in {"OPTIONAL", "REPEATED"}
    <2>1. vs = <<>>
      BY <1>3 DEF LeftOut
    <2>2. Len(vs) = 0
      BY <2>1
    <2>3. Bits(Len(vs)) = {}
      BY <2>2, SmallBits
    <2>4. \A k \in 1 .. Len(vs) : FALSE
      BY <2>2
    <2>5. QED
      BY <2>3, <2>4 DEF Keeps, Fresh
  <1>4. CASE f.htype = "SINGULAR"
    <2>1. vs[1] = {} /\ PrefixSize(f) = 0 /\ mem[pl.at] = {} /\ Len(vs) = 1
      BY <1>2, <1>4, GivenCount, LineParts DEF LeftOut, Fresh
    <2>2. PICK z \in {1, 2, 4, 8} : z = f.size
      BY <1>2, LineParts
    <2>3. ASSUME NEW k \in 1 .. Len(vs) PROVE mem[pl.at + (k - 1) * f.size] = vs[k]
      <3>1. k = 1
        BY <2>1
      <3>2. pl.at + (k - 1) * f.size = pl.at
        BY <2>2, <3>1
      <3>3. QED
        BY <2>1, <3>1, <3>2
    <2>4. QED
      BY <2>1, <2>3 DEF Keeps
  <1>5. QED
    BY <1>3, <1>4 DEF LeftOut

\* What a member holds depends on its own offsets.
LEMMA KeptElsewhere ==
  ASSUME NEW p, NEW f, NEW pl, Slotted(p, f, pl), NEW vs, Given(f, vs), NEW mem, NEW after,
         \A a \in Own(f, pl) : after[a] = mem[a]
  PROVE  /\ Keeps(mem, f, pl, vs) => Keeps(after, f, pl, vs)
         /\ Fresh(mem, f, pl) => Fresh(after, f, pl)
  <1>1. pl.prefix \in Own(f, pl) /\ pl.at \in Own(f, pl)
    <2>1. 0 \in 0 .. (f.count - 1) /\ pl.at + 0 * f.size = pl.at
      BY SlotParts
    <2>2. PData(p, 0) = pl.at /\ PData(p, 0) \in Own(f, pl)
      BY <2>1, SlotParts
    <2>3. QED
      BY <2>2, SlotParts
  <1>2. PICK n \in Nat : n = Len(vs)
    BY LenProperties DEF Given
  <1>3. f.count \in Nat
    BY LineParts DEF Given
  <1>4. ASSUME NEW k \in 1 .. n, k <= f.count PROVE pl.at + (k - 1) * f.size \in Own(f, pl)
    <2>1. k - 1 \in 0 .. (f.count - 1)
      BY <1>3, <1>4
    <2>2. QED
      BY <2>1 DEF Own
  <1>5. ASSUME Keeps(mem, f, pl, vs) PROVE Keeps(after, f, pl, vs)
    <2>1. PrefixSize(f) # 0 => after[pl.prefix] = Bits(Len(vs))
      BY <1>1, <1>5 DEF Keeps
    <2>2. ASSUME NEW k \in 1 .. n, k <= f.count PROVE after[pl.at + (k - 1) * f.size] = vs[k]
      <3>1. PICK a \in Own(f, pl) : a = pl.at + (k - 1) * f.size
        BY <1>4, <2>2
      <3>2. mem[a] = vs[k]
        BY <1>2, <1>5, <2>2, <3>1, Zenon DEF Keeps
      <3>3. after[a] = mem[a]
        OBVIOUS
      <3>4. QED
        BY <3>1, <3>2, <3>3
    <2>3. QED
      BY <1>2, <2>1, <2>2, Zenon DEF Keeps
  <1>6. Fresh(mem, f, pl) => Fresh(after, f, pl)
    BY <1>1 DEF Fresh
  <1>7. QED
    BY <1>5, <1>6

\* What happens in one member does not happen in the others.
LEMMA OthersStay ==
  ASSUME NEW n \in DOMAIN Schemas, NEW i \in 1 .. Len(Fields(n)), NEW j \in 1 .. Len(Fields(n)), i # j,
         NEW vs, Given(Fields(n)[j], vs), NEW mem, NEW after, Untouched(mem, after, Slot(n, i))
  PROVE  /\ Keeps(mem, Fields(n)[j], Slot(n, j), vs) => Keeps(after, Fields(n)[j], Slot(n, j), vs)
         /\ Fresh(mem, Fields(n)[j], Slot(n, j)) => Fresh(after, Fields(n)[j], Slot(n, j))
  <1>1. PICK p : Slotted(p, Fields(n)[j], Slot(n, j))
    BY LineSlot
  <1>2. ASSUME NEW a \in Own(Fields(n)[j], Slot(n, j)) PROVE after[a] = mem[a]
    <2>1. a \in Nat /\ (a < Slot(n, i).prefix \/ a >= Slot(n, i).end)
      BY WhoseOffset
    <2>2. QED
      BY <2>1 DEF Untouched
  <1>3. QED
    BY <1>1, <1>2, KeptElsewhere, Zenon

-----------------------------------------------------------------------------
(* A field that is cut short is refused.                                   *)

Parted(S, n, k, F, a, b) ==
  /\ n \in Nat /\ k \in 0 .. n
  /\ F \in Seq(S) /\ Len(F) = n /\ a \in Seq(S) /\ Len(a) = k /\ b \in Seq(S) /\ Len(b) = n - k
  /\ \A i \in 1 .. k : a[i] = F[i]
  /\ \A i \in 1 .. (n - k) : b[i] = F[k + i]

LEMMA JoinedAgain ==
  ASSUME NEW S, NEW n, NEW k, NEW F, NEW a, NEW b, Parted(S, n, k, F, a, b)
  PROVE  a \o b = F
  <1>1. /\ n \in Nat /\ k \in 0 .. n
        /\ F \in Seq(S) /\ Len(F) = n /\ a \in Seq(S) /\ Len(a) = k /\ b \in Seq(S) /\ Len(b) = n - k
        /\ \A i \in 1 .. k : a[i] = F[i]
        /\ \A i \in 1 .. (n - k) : b[i] = F[k + i]
    BY DEF Parted
  <1>2. Len(a \o b) = n /\ a \o b \in Seq(S)
    BY <1>1, Concatenated
  <1>3. ASSUME NEW i \in 1 .. n PROVE (a \o b)[i] = F[i]
    <2>1. CASE i <= k
      BY <1>1, <2>1, Concatenated
    <2>2. CASE ~(i <= k)
      <3>1. i - k \in 1 .. (n - k) /\ k + (i - k) = i
        BY <1>1, <2>2
      <3>2. (a \o b)[k + (i - k)] = b[i - k] /\ b[i - k] = F[k + (i - k)]
        BY <1>1, <3>1, Concatenated
      <3>3. QED
        BY <3>1, <3>2
    <2>3. QED
      BY <2>1, <2>2
  <1>4. QED
    BY <1>1, <1>2, <1>3

LEMMA WhatIsMissing ==
  ASSUME NEW F \in Bytes, NEW k \in 0 .. (Len(F) - 1)
  PROVE  /\ SubSeq(F, 1, k) \in Bytes /\ SubSeq(F, k + 1, Len(F)) \in Bytes
         /\ SubSeq(F, k + 1, Len(F)) # <<>>
         /\ SubSeq(F, 1, k) \o SubSeq(F, k + 1, Len(F)) = F
         /\ Len(SubSeq(F, k + 1, Len(F))) = Len(F) - k
  <1>1. PICK n \in Nat : n = Len(F)
    BY DEF Bytes
  <1>2. F \in Seq(Byte) /\ \A i \in 1 .. n : F[i] \in Byte
    BY <1>1 DEF Bytes
  <1> DEFINE a == SubSeq(F, 1, k)
             b == SubSeq(F, k + 1, n)
  <1>3. /\ a \in Seq(Byte) /\ Len(a) = k /\ \A i \in 1 .. k : a[i] = F[i]
    BY <1>1, <1>2
  <1>4. /\ b \in Seq(Byte) /\ Len(b) = n - k /\ \A i \in 1 .. (n - k) : b[i] = F[k + i]
    BY <1>1, <1>2
  <1> HIDE DEF a, b
  <1>5. b # <<>>
    <2>1. Len(b) # 0
      BY <1>1, <1>4
    <2>2. QED
      BY <2>1
  <1>6. a \o b = F
    <2>1. k \in 0 .. n /\ Len(F) = n
      BY <1>1
    <2>2. QED
      <3>1. Parted(Byte, n, k, F, a, b)
        BY <1>1, <1>2, <1>3, <1>4, <2>1, Zenon DEF Parted
      <3>2. QED
        BY <3>1, JoinedAgain, Zenon
  <1>7. QED
    BY <1>1, <1>3, <1>4, <1>5, <1>6 DEF a, b, Bytes

\* Of the bytes that begin with F, the first have arrived, and t is missing: all
\* of F, or only a part of it.
Whole(F, a, t, R) == \E b \in Bytes : a = F \o b /\ b \o t = R
Short(F, a, t) == t # <<>> /\ \E k \in 0 .. (Len(F) - 1) : a = SubSeq(F, 1, k)

LEMMA FirstBytes ==
  ASSUME NEW F \in Bytes, NEW a \in Bytes, NEW t \in Bytes, NEW R \in Bytes, Agree(F, t, a, R)
  PROVE  Whole(F, a, t, R) \/ Short(F, a, t)
  <1>1. F \in Seq(Byte) /\ a \in Seq(Byte) /\ t \in Seq(Byte) /\ R \in Seq(Byte)
    BY DEF Bytes
  <1>2. Taken(Byte, F, a, t, R) \/ Broken(F, a, t)
    BY <1>1, FirstPart, Zenon
  <1>3. ASSUME Taken(Byte, F, a, t, R) PROVE Whole(F, a, t, R)
    BY <1>3, Zenon DEF Taken, Whole, Bytes
  <1>4. ASSUME Broken(F, a, t) PROVE Short(F, a, t)
    BY <1>4, Zenon DEF Broken, Short
  <1>5. QED
    BY <1>2, <1>3, <1>4, Zenon

LEMMA ArrayCut ==
  ASSUME NEW p, NEW f, NEW pl, Slotted(p, f, pl), NEW mem, NEW vs, Given(f, vs),
         f.htype = "REPEATED", NEW k \in 0 .. (Len(Body(f, vs)) - 1)
  PROVE  ~DecodeStatic(p, Wire(f), mem, SubSeq(Body(f, vs), 1, k)).ok
  <1>1. HTypeOf(p.type) = HType.REPEATED /\ Wire(f) = 2
    BY SlotParts DEF Wire
  <1>2. PICK P \in Bytes, len \in 0 .. (2 ^ 20) : P = Packed(f, vs) /\ len = Len(P)
    BY PackedParts
  <1>3. PICK E \in Bytes : E = EncodeVarint(Bits(len)) /\ Spells(E, Bits(len))
    BY LengthSpelled
  <1>4. PICK B \in Bytes : B = Body(f, vs) /\ B = E \o P
    <2>1. Body(f, vs) = E \o P
      BY <1>2, <1>3 DEF Body
    <2>2. E \o P \in Bytes
      BY RestOfStream
    <2>3. QED
      BY <2>1, <2>2
  <1>5. PICK a \in Bytes, t \in Bytes : a = SubSeq(Body(f, vs), 1, k) /\ t # <<>> /\ a \o t = B
    BY <1>4, WhatIsMissing
  <1>6. DecodeStatic(p, Wire(f), mem, a) = DecodeArray(p, 2, mem, a)
    BY <1>1 DEF DecodeStatic
  <1>7. ASSUME ~DecodeVarint32(a).ok PROVE ~DecodeArray(p, 2, mem, a).ok
    <2>1. DecodeArray(p, 2, mem, a) = [ok |-> FALSE, rest |-> a, mem |-> mem]
      BY <1>7, Zenon DEF DecodeArray
    <2>2. QED
      BY <2>1
  <1>8. ASSUME NEW q, DecodeVarint32(a) = Decoded(Bits(len), q), Read(q, len) = Malformed
        PROVE  ~DecodeArray(p, 2, mem, a).ok
    <2>1. PICK size : size = DecodeVarint32(a) /\ size.v = Bits(len) /\ size.rest = q
      BY <1>8 DEF Decoded
    <2>2. Num(Bits(len)) = len
      BY LengthBits
    <2>3. (IF 31 \in size.v THEN Malformed ELSE Read(size.rest, Num(size.v))) = Malformed
      BY <1>8, <2>1, <2>2, Zenon
    <2>4. ~Malformed.ok
      BY DEF Malformed
    <2>5. DecodeArray(p, 2, mem, a) = [ok |-> FALSE, rest |-> a, mem |-> mem]
      BY <2>1, <2>3, <2>4, Zenon DEF DecodeArray
    <2>6. QED
      BY <2>5
  <1>9. Whole(E, a, t, P) \/ Short(E, a, t)
    <2>1. Agree(E, t, a, P)
      BY <1>4, <1>5 DEF Agree
    <2>2. QED
      BY <2>1, FirstBytes
  <1>10. CASE Whole(E, a, t, P)
    <2>1. PICK b \in Bytes : a = E \o b /\ b \o t = P
      BY <1>10 DEF Whole
    <2>2. DecodeVarint32(a) = Decoded(Bits(len), b)
      BY <1>3, <2>1, LengthSpelled
    <2>3. Len(b) < len
      <3>1. PICK x \in Nat, y \in Nat : x = Len(b) /\ y = Len(t) /\ Len(b \o t) = x + y
        BY RestOfStream
      <3>2. y # 0
        BY <1>5, <3>1, EmptySeq DEF Bytes
      <3>3. len = x + y
        BY <1>2, <2>1, <3>1
      <3>4. QED
        BY <3>1, <3>2, <3>3
    <2>4. Read(b, len) = Malformed
      BY <2>3 DEF Read
    <2>5. QED
      BY <1>5, <1>6, <1>8, <2>2, <2>4
  <1>11. CASE Short(E, a, t)
    <2>1. PICK i \in 0 .. (Len(E) - 1) : a = SubSeq(E, 1, i)
      BY <1>11 DEF Short
    <2>2. DecodeVarint32(a) = Malformed
      BY <1>3, <2>1, VarintCutShort
    <2>3. ~DecodeVarint32(a).ok
      BY <2>2 DEF Malformed
    <2>4. QED
      BY <1>5, <1>6, <1>7, <2>3
  <1>12. QED
    BY <1>9, <1>10, <1>11

LEMMA FieldCut ==
  ASSUME NEW p, NEW f, NEW pl, Slotted(p, f, pl), NEW mem, NEW vs, Given(f, vs),
         ~LeftOut(f, vs), NEW k \in 0 .. (Len(Body(f, vs)) - 1)
  PROVE  ~DecodeStatic(p, Wire(f), mem, SubSeq(Body(f, vs), 1, k)).ok
  BY ArrayCut, SingleCut, Zenon

-----------------------------------------------------------------------------
(* The bytes of a message.                                                 *)

Lines(m) == Len(Fields(m.schema))
Line(m, i) == Fields(m.schema)[i]
Out(m, i) == LeftOut(Line(m, i), m.values[i])
Part(m, i) == FieldBytes(Line(m, i), m.values[i])
Inside(m, i) == Body(Line(m, i), m.values[i])

\* The bytes of the lines after the k-th.
Ends(m, r) ==
  /\ r \in [0 .. Lines(m) -> Bytes] /\ r[Lines(m)] = <<>>
  /\ \A i \in 1 .. Lines(m) : r[i - 1] = Part(m, i) \o r[i]
Rest(m) == CHOOSE r : Ends(m, r)

LEMMA LineOf ==
  ASSUME NEW m \in Outgoing
  PROVE  /\ m.schema \in DOMAIN Schemas /\ Lines(m) \in Nat \ {0}
         /\ \A i \in 1 .. Lines(m) : Given(Line(m, i), m.values[i])
  <1>1. m.schema \in DOMAIN Schemas
    BY OutgoingAssumption
  <1>2. Lines(m) \in Nat \ {0}
    BY <1>1, SchemaParts, EmptySeq, LenProperties DEF Lines
  <1>3. ASSUME NEW i \in 1 .. Lines(m) PROVE Given(Line(m, i), m.values[i])
    BY <1>3, GivenThere DEF Lines, Line
  <1>4. QED
    BY <1>1, <1>2, <1>3

LEMMA RestParts ==
  ASSUME NEW m \in Outgoing
  PROVE  Ends(m, Rest(m))
  <1>1. PICK n \in Nat : n = Lines(m)
    BY LineOf
  <1> DEFINE ss == [i \in 1 .. n |-> Part(m, i)]
  <1>2. \A i \in 1 .. n : Part(m, i) \in Bytes
    BY <1>1, LineOf, BodyOfField DEF Part
  <1>3. ss \in Seq(Seq(Byte)) /\ Len(ss) = n
    BY <1>2 DEF Bytes
  <1>4. \A i \in 1 .. n : ss[i] = Part(m, i)
    OBVIOUS
  <1> HIDE DEF ss
  <1>5. PICK r \in [0 .. Len(ss) -> Seq(Byte)] : Rests(ss, r)
    BY <1>3, FlattenRests
  <1>6. Ends(m, r)
    BY <1>1, <1>3, <1>4, <1>5, Zenon DEF Ends, Rests, Bytes
  <1>7. QED
    BY <1>6, Zenon DEF Rest

LEMMA RestAt ==
  ASSUME NEW m \in Outgoing
  PROVE  /\ \A i \in 0 .. Lines(m) : Rest(m)[i] \in Bytes
         /\ Rest(m)[Lines(m)] = <<>>
         /\ \A i \in 1 .. Lines(m) :
              Rest(m)[i - 1] = (IF Out(m, i) THEN Rest(m)[i] ELSE TagBytes(Line(m, i)) \o (Inside(m, i) \o Rest(m)[i]))
  <1> DEFINE r == Rest(m)
  <1>1. Ends(m, r)
    BY RestParts
  <1> HIDE DEF r
  <1>2. PICK n \in Nat : n = Lines(m)
    BY LineOf
  <1>3. \A i \in 0 .. n : r[i] \in Bytes
    BY <1>1, <1>2 DEF Ends
  <1>4. ASSUME NEW i \in 1 .. n
        PROVE  r[i - 1] = (IF Out(m, i) THEN r[i] ELSE TagBytes(Line(m, i)) \o (Inside(m, i) \o r[i]))
    <2>1. r[i - 1] = Part(m, i) \o r[i] /\ Given(Line(m, i), m.values[i])
      BY <1>1, <1>2, LineOf DEF Ends
    <2>2. i \in 0 .. n
      OBVIOUS
    <2>3. PICK q \in Bytes : q = r[i]
      BY <1>3, <2>2
    <2>4. CASE Out(m, i)
      <3>1. Part(m, i) = <<>>
        BY <2>4 DEF Out, Part, FieldBytes
      <3>2. <<>> \o q = q
        BY ConcatEmptySeq DEF Bytes
      <3>3. QED
        BY <2>1, <2>3, <2>4, <3>1, <3>2, Zenon
    <2>5. CASE ~Out(m, i)
      <3>1. PICK h \in Bytes, b \in Bytes : h = TagBytes(Line(m, i)) /\ b = Inside(m, i)
        BY <2>1, <2>5, TagOfField, BodyOfField DEF Given, Out, Inside
      <3>2. Part(m, i) = h \o b
        BY <2>5, <3>1, Zenon DEF Out, Part, FieldBytes, Inside
      <3>3. Agree(h, q, h \o b, b \o q)
        <4>1. Glued(Byte, h, b, q, h \o b, b \o q)
          BY Zenon DEF Glued, Bytes
        <4>2. QED
          BY <4>1, Regrouped
      <3>4. QED
        BY <2>1, <2>3, <2>5, <3>1, <3>2, <3>3, Zenon DEF Agree
    <2>6. QED
      BY <2>4, <2>5
  <1>5. QED
    BY <1>1, <1>2, <1>3, <1>4, Zenon DEF r, Ends

LEMMA SameRest ==
  ASSUME NEW m \in Outgoing, NEW k \in 0 .. Lines(m), NEW l \in k .. Lines(m),
         \A i \in (k + 1) .. l : Out(m, i)
  PROVE  Rest(m)[l] = Rest(m)[k]
  <1>1. PICK n \in Nat : n = Lines(m)
    BY LineOf
  <1> DEFINE r == Rest(m)
             T == {d \in 0 .. (l - k) : r[k + d] = r[k]}
  <1>2. \A i \in 1 .. n : Out(m, i) => r[i - 1] = r[i]
    BY <1>1, RestAt
  <1> HIDE DEF r
  <1>3. 0 \in T
    BY <1>1
  <1>4. ASSUME NEW d \in 0 .. ((l - k) - 1), d \in T PROVE d + 1 \in T
    <2>1. PICK i \in 1 .. n : i = k + (d + 1) /\ i \in (k + 1) .. l /\ i - 1 = k + d /\ d + 1 \in 0 .. (l - k)
      BY <1>1
    <2>2. r[i - 1] = r[i]
      BY <1>2, <2>1
    <2>3. QED
      BY <1>4, <2>1, <2>2
  <1>5. l - k \in Nat /\ k + (l - k) = l
    BY <1>1
  <1>6. \A d \in 0 .. (l - k) : d \in T
    <2> HIDE DEF T
    <2>1. QED
      BY <1>3, <1>4, <1>5, Induction
  <1>7. QED
    BY <1>5, <1>6 DEF r

\* The next line with bytes: all between it and the k-th are left out.
NextUp(m, k, j) == ~Out(m, j) /\ \A i \in (k + 1) .. (j - 1) : Out(m, i)

LEMMA WhatIsNext ==
  ASSUME NEW m \in Outgoing, NEW k \in 0 .. Lines(m)
  PROVE  \/ \A i \in (k + 1) .. Lines(m) : Out(m, i)
         \/ \E j \in (k + 1) .. Lines(m) : NextUp(m, k, j)
  <1>1. PICK n \in Nat : n = Lines(m)
    BY LineOf
  <1> DEFINE J == {j \in (k + 1) .. n : ~Out(m, j)}
  <1>2. J \in SUBSET Nat
    BY <1>1
  <1>3. CASE J = {}
    BY <1>1, <1>3
  <1>4. CASE J # {}
    <2>1. PICK j \in J : \A y \in J : j <= y
      <3> HIDE DEF J
      <3>1. QED
        BY <1>2, <1>4, LeastNumber
    <2>2. ASSUME NEW i \in (k + 1) .. (j - 1) PROVE Out(m, i)
      BY <1>1, <2>1
    <2>3. QED
      BY <1>1, <2>1, <2>2 DEF NextUp
  <1>5. QED
    BY <1>3, <1>4

-----------------------------------------------------------------------------
(* The struct of the decoder, line by line.                                *)

Spot(m, i) == Slot(m.schema, i)
Held(m, mem, i) == Keeps(mem, Line(m, i), Spot(m, i), m.values[i])
Blank(m, mem, i) == Fresh(mem, Line(m, i), Spot(m, i))
Structs(m) == Memories(AllOffsets[m.schema])
AllFit(m) == \A i \in 1 .. Lines(m) : Fitting(Line(m, i), m.values[i])

\* The lines up to the k-th are read, the others have their defaults.
Upto(m, mem, k) ==
  /\ mem \in Structs(m)
  /\ \A i \in 1 .. k : Held(m, mem, i)
  /\ \A i \in (k + 1) .. Lines(m) : Blank(m, mem, i)
\* The first k have them already.
Defaults(m, mem, k) == mem \in Structs(m) /\ \A i \in 1 .. k : Blank(m, mem, i)

\* The required fields among the first k.
Noted(m, k) == 0 .. (Cardinality(RequiredBefore(Fields(m.schema), k)) - 1)

LEMMA NoneNoted ==
  ASSUME NEW m
  PROVE  Noted(m, 0) = {}
  <1>1. RequiredBefore(Fields(m.schema), 0) = {}
    BY DEF RequiredBefore
  <1>2. Cardinality(RequiredBefore(Fields(m.schema), 0)) = 0
    BY <1>1, FS_EmptySet
  <1>3. QED
    BY <1>2 DEF Noted

LEMMA OneNoted ==
  ASSUME NEW m, NEW k \in Nat
  PROVE  Noted(m, k + 1) = IF Line(m, k + 1).htype = "REQUIRED"
                           THEN Noted(m, k) \cup {Cardinality(RequiredBefore(Fields(m.schema), k))} ELSE Noted(m, k)
  <1>1. PICK c \in Nat : c = Cardinality(RequiredBefore(Fields(m.schema), k))
    BY RequiredCount
  <1>2. Cardinality(RequiredBefore(Fields(m.schema), k + 1)) = c + (IF Line(m, k + 1).htype = "REQUIRED" THEN 1 ELSE 0)
    BY <1>1, RequiredCount DEF Line
  <1>3. CASE Line(m, k + 1).htype = "REQUIRED"
    <2>1. Cardinality(RequiredBefore(Fields(m.schema), k + 1)) = c + 1
      BY <1>2, <1>3
    <2>2. 0 .. ((c + 1) - 1) = (0 .. (c - 1)) \cup {c}
      OBVIOUS
    <2>3. QED
      BY <1>1, <1>3, <2>1, <2>2 DEF Noted
  <1>4. CASE Line(m, k + 1).htype # "REQUIRED"
    <2>1. Cardinality(RequiredBefore(Fields(m.schema), k + 1)) = c
      BY <1>2, <1>4
    <2>2. QED
      BY <1>1, <1>4, <2>1 DEF Noted
  <1>5. QED
    BY <1>3, <1>4

\* A field that is left out is not a required one, and has its default.
LEMMA SkipsLeftOut ==
  ASSUME NEW m \in Outgoing, NEW k \in 0 .. Lines(m), NEW l \in k .. Lines(m),
         \A i \in (k + 1) .. l : Out(m, i)
  PROVE  /\ Noted(m, l) = Noted(m, k)
         /\ \A mem : Upto(m, mem, k) => Upto(m, mem, l)
  <1>1. PICK n \in Nat : n = Lines(m)
    BY LineOf
  <1>2. ASSUME NEW i \in (k + 1) .. l
        PROVE  Line(m, i).htype # "REQUIRED" /\ \A mem : Blank(m, mem, i) => Held(m, mem, i)
    <2>1. i \in 1 .. n /\ Out(m, i)
      BY <1>1
    <2>2. Given(Line(m, i), m.values[i])
      BY <1>1, <2>1, LineOf
    <2>3. PICK p : Slotted(p, Line(m, i), Spot(m, i))
      BY <1>1, <2>1, LineOf, LineSlot DEF Line, Lines, Spot
    <2>4. Spot(m, i).at \in Nat
      BY <2>3 DEF Slotted
    <2>5. ASSUME NEW mem, Blank(m, mem, i) PROVE Held(m, mem, i)
      BY <2>1, <2>2, <2>4, <2>5, AbsentKeeps DEF Blank, Held, Out
    <2>6. QED
      BY <2>1, <2>5 DEF Out, LeftOut
  <1>3. Noted(m, l) = Noted(m, k)
    <2>1. RequiredBefore(Fields(m.schema), l) = RequiredBefore(Fields(m.schema), k)
      <3>1. ASSUME NEW i \in 1 .. l, Line(m, i).htype = "REQUIRED" PROVE i \in 1 .. k
        BY <1>1, <1>2, <3>1
      <3>2. 1 .. k \subseteq 1 .. l
        BY <1>1
      <3>3. QED
        BY <3>1, <3>2 DEF RequiredBefore, Line
    <2>2. QED
      BY <2>1 DEF Noted
  <1>4. ASSUME NEW mem, Upto(m, mem, k) PROVE Upto(m, mem, l)
    <2>1. ASSUME NEW i \in 1 .. l PROVE Held(m, mem, i)
      <3>1. CASE i <= k
        <4>1. i \in 1 .. k
          BY <1>1, <3>1
        <4>2. QED
          BY <1>4, <4>1 DEF Upto
      <3>2. CASE ~(i <= k)
        <4>1. i \in (k + 1) .. l /\ i \in (k + 1) .. n
          BY <1>1, <3>2
        <4>2. QED
          BY <1>1, <1>2, <1>4, <4>1 DEF Upto
      <3>3. QED
        BY <3>1, <3>2
    <2>2. \A i \in (l + 1) .. n : i \in (k + 1) .. n
      BY <1>1
    <2>3. QED
      BY <1>1, <1>4, <2>1, <2>2 DEF Upto
  <1>5. QED
    BY <1>3, <1>4

LEMMA AllOwn ==
  ASSUME NEW m \in Outgoing, NEW i \in 1 .. Lines(m)
  PROVE  Own(Line(m, i), Spot(m, i)) \subseteq AllOffsets[m.schema]
  BY LineOf, OwnOffsets DEF Line, Lines, Spot

\* Something happened in the i-th member only.
LEMMA OnlyThere ==
  ASSUME NEW m \in Outgoing, NEW i \in 1 .. Lines(m), NEW j \in 1 .. Lines(m), i # j,
         NEW mem, NEW after, Untouched(mem, after, Spot(m, i))
  PROVE  /\ Held(m, mem, j) => Held(m, after, j)
         /\ Blank(m, mem, j) => Blank(m, after, j)
  <1>1. m.schema \in DOMAIN Schemas /\ Given(Line(m, j), m.values[j])
    BY LineOf
  <1>2. QED
    BY <1>1, OthersStay DEF Held, Blank, Line, Lines, Spot

LEMMA OneMoreRead ==
  ASSUME NEW m \in Outgoing, NEW k \in 0 .. (Lines(m) - 1), ~Out(m, k + 1), AllFit(m),
         NEW mem, Upto(m, mem, k), NEW p, OnLine(p, m.schema), p.index = k, NEW rest \in Bytes,
         NEW d, d = DecodeStatic(p, Wire(Line(m, k + 1)), mem, Inside(m, k + 1) \o rest)
  PROVE  d.ok /\ d.rest = rest /\ Upto(m, d.mem, k + 1)
  <1>1. PICK n \in Nat : n = Lines(m)
    BY LineOf
  <1>2. PICK j \in 1 .. n : j = k + 1
    BY <1>1
  <1>3. Slotted(p, Line(m, j), Spot(m, j))
    BY <1>2, LineOf, OnSlot DEF Line, Spot
  <1>4. Own(Line(m, j), Spot(m, j)) \subseteq AllOffsets[m.schema]
    BY <1>1, AllOwn
  <1>5. Given(Line(m, j), m.values[j]) /\ Fitting(Line(m, j), m.values[j]) /\ ~LeftOut(Line(m, j), m.values[j])
    BY <1>1, <1>2, LineOf DEF AllFit, Out
  <1>6. mem \in Memories(AllOffsets[m.schema]) /\ Fresh(mem, Line(m, j), Spot(m, j))
    <2>1. j \in (k + 1) .. n
      BY <1>1, <1>2
    <2>2. QED
      BY <1>1, <2>1 DEF Upto, Structs, Blank
  <1>7. Delivers(AllOffsets[m.schema], d, mem, Line(m, j), Spot(m, j), m.values[j], rest)
    <2>1. Delivers(AllOffsets[m.schema],
                   DecodeStatic(p, Wire(Line(m, j)), mem, Body(Line(m, j), m.values[j]) \o rest),
                   mem, Line(m, j), Spot(m, j), m.values[j], rest)
      BY <1>3, <1>4, <1>5, <1>6, FieldRead
    <2>2. QED
      BY <1>2, <2>1, Zenon DEF Inside
  <1>8. /\ d.ok /\ d.rest = rest /\ d.mem \in Structs(m) /\ Held(m, d.mem, j)
        /\ Untouched(mem, d.mem, Spot(m, j))
    BY <1>7, Zenon DEF Delivers, Structs, Held
  <1>9. ASSUME NEW i \in 1 .. n, i # j
        PROVE  (Held(m, mem, i) => Held(m, d.mem, i)) /\ (Blank(m, mem, i) => Blank(m, d.mem, i))
    BY <1>1, <1>8, <1>9, OnlyThere
  <1>10. ASSUME NEW i \in 1 .. (k + 1) PROVE Held(m, d.mem, i)
    <2>1. CASE i = j
      BY <1>8, <2>1
    <2>2. CASE i # j
      <3>1. i \in 1 .. n /\ i \in 1 .. k
        BY <1>1, <1>2, <2>2
      <3>2. QED
        BY <1>9, <2>2, <3>1 DEF Upto
    <2>3. QED
      BY <2>1, <2>2
  <1>11. ASSUME NEW i \in ((k + 1) + 1) .. n PROVE Blank(m, d.mem, i)
    <2>1. i \in 1 .. n /\ i \in (k + 1) .. n /\ i # j
      BY <1>1, <1>2
    <2>2. QED
      BY <1>1, <1>9, <2>1 DEF Upto
  <1>12. QED
    BY <1>1, <1>8, <1>10, <1>11 DEF Upto

LEMMA OneMoreDefault ==
  ASSUME NEW m \in Outgoing, NEW k \in 0 .. (Lines(m) - 1),
         NEW mem, Defaults(m, mem, k), NEW p, OnLine(p, m.schema), p.index = k
  PROVE  Defaults(m, SetToDefault(p, mem), k + 1)
  <1>1. PICK n \in Nat : n = Lines(m)
    BY LineOf
  <1>2. PICK j \in 1 .. n : j = k + 1
    BY <1>1
  <1>3. Slotted(p, Line(m, j), Spot(m, j))
    BY <1>2, LineOf, OnSlot DEF Line, Spot
  <1>4. Own(Line(m, j), Spot(m, j)) \subseteq AllOffsets[m.schema]
    BY <1>1, AllOwn
  <1>5. mem \in Memories(AllOffsets[m.schema])
    BY DEF Defaults, Structs
  <1>6. PICK after : after = SetToDefault(p, mem)
    OBVIOUS
  <1>7. after \in Structs(m) /\ Blank(m, after, j) /\ Untouched(mem, after, Spot(m, j))
    BY <1>3, <1>4, <1>5, <1>6, DefaultSet DEF Structs, Blank
  <1>8. ASSUME NEW i \in 1 .. (k + 1) PROVE Blank(m, after, i)
    <2>1. CASE i = j
      BY <1>7, <2>1
    <2>2. CASE i # j
      <3>1. i \in 1 .. n /\ i \in 1 .. k
        BY <1>1, <1>2, <2>2
      <3>2. QED
        BY <1>1, <1>7, <2>2, <3>1, OnlyThere DEF Defaults
    <2>3. QED
      BY <2>1, <2>2
  <1>9. QED
    BY <1>6, <1>7, <1>8 DEF Defaults

-----------------------------------------------------------------------------
(* Bytes that may have been cut short.                                     *)

\* a is R without its last n bytes.
Cut(a, n, R) == a \in Bytes /\ R \in Bytes /\ \E t \in Bytes : Len(t) = n /\ a \o t = R
\* Of F and X, what follows it, the bytes a have arrived: F and a part of X, or
\* not even all of F.
Arrived(F, a, n, X) == \E b \in Bytes : a = F \o b /\ Cut(b, n, X)
Torn(F, a, n) == n # 0 /\ \E k \in 0 .. (Len(F) - 1) : a = SubSeq(F, 1, k)

LEMMA CutParts ==
  ASSUME NEW F \in Bytes, NEW X \in Bytes, NEW R, R = F \o X, NEW a, NEW n, Cut(a, n, R)
  PROVE  Arrived(F, a, n, X) \/ Torn(F, a, n)
  <1>1. PICK t \in Bytes : Len(t) = n /\ a \o t = R
    BY Zenon DEF Cut
  <1>2. a \in Bytes
    BY Zenon DEF Cut
  <1>3. Agree(F, t, a, X)
    BY <1>1, Zenon DEF Agree
  <1>4. Whole(F, a, t, X) \/ Short(F, a, t)
    BY <1>2, <1>3, FirstBytes
  <1>5. ASSUME Whole(F, a, t, X) PROVE Arrived(F, a, n, X)
    BY <1>1, <1>5, Zenon DEF Whole, Arrived, Cut
  <1>6. ASSUME Short(F, a, t) PROVE Torn(F, a, n)
    <2>1. t # <<>> /\ \E k \in 0 .. (Len(F) - 1) : a = SubSeq(F, 1, k)
      BY <1>6, Zenon DEF Short
    <2>2. Len(t) # 0
      BY <2>1, EmptySeq DEF Bytes
    <2>3. QED
      BY <1>1, <2>1, <2>2, Zenon DEF Torn
  <1>7. QED
    BY <1>4, <1>5, <1>6

LEMMA CutEnds ==
  ASSUME NEW a, NEW n, NEW R, Cut(a, n, R)
  PROVE  /\ a = <<>> => Len(R) = n
         /\ R = <<>> => a = <<>> /\ n = 0
         /\ n \in Nat
  <1>1. PICK t \in Bytes : Len(t) = n /\ a \o t = R
    BY DEF Cut
  <1>2. a \in Bytes /\ R \in Bytes
    BY DEF Cut
  <1>3. PICK x \in Nat, y \in Nat : x = Len(a) /\ y = Len(t) /\ Len(a \o t) = x + y
    BY <1>2, RestOfStream
  <1>4. Len(<<>>) = 0
    OBVIOUS
  <1>5. ASSUME a = <<>> PROVE Len(R) = n
    <2>1. x = 0
      BY <1>3, <1>4, <1>5
    <2>2. QED
      BY <1>1, <1>3, <2>1
  <1>6. ASSUME R = <<>> PROVE a = <<>> /\ n = 0
    <2>1. x + y = 0
      BY <1>1, <1>3, <1>4, <1>6
    <2>2. x = 0 /\ y = 0
      BY <2>1
    <2>3. QED
      BY <1>1, <1>2, <1>3, <2>2, EmptySeq DEF Bytes
  <1>7. QED
    BY <1>1, <1>3, <1>5, <1>6

\* pb_decode_tag finds the tag, or the bytes end in it.
TagFound(f, a, n, X) ==
  \E b \in Bytes : /\ DecodeTag(a) = [ok |-> TRUE, tag |-> f.tag, wiretype |-> Wire(f), rest |-> b]
                   /\ Cut(b, n, X)
LEMMA TagCut ==
  ASSUME NEW f \in FieldLine, f.tag < 2 ^ 16, NEW X \in Bytes, NEW R, R = TagBytes(f) \o X,
         NEW a, NEW n, Cut(a, n, R)
  PROVE  \/ TagFound(f, a, n, X)
         \/ n # 0 /\ ~DecodeTag(a).ok
  <1>1. PICK h \in Bytes : h = TagBytes(f)
    BY TagOfField
  <1>2. Arrived(h, a, n, X) \/ Torn(h, a, n)
    BY <1>1, CutParts
  <1>3. ASSUME Arrived(h, a, n, X) PROVE TagFound(f, a, n, X)
    <2>1. PICK b \in Bytes : a = h \o b /\ Cut(b, n, X)
      BY <1>3 DEF Arrived
    <2>2. DecodeTag(TagBytes(f) \o b) = [ok |-> TRUE, tag |-> f.tag, wiretype |-> Wire(f), rest |-> b]
      BY TagOfField
    <2>3. QED
      BY <1>1, <2>1, <2>2, Zenon DEF TagFound
  <1>4. ASSUME Torn(h, a, n) PROVE n # 0 /\ ~DecodeTag(a).ok
    <2>1. PICK k \in 0 .. (Len(h) - 1) : a = SubSeq(h, 1, k) /\ n # 0
      BY <1>4 DEF Torn
    <2>2. PICK v : Spells(h, v)
      BY <1>1, TagOfField
    <2>3. DecodeVarint32(a) = Malformed
      BY <2>1, <2>2, VarintCutShort
    <2>4. ~Malformed.ok
      BY DEF Malformed
    <2>5. QED
      BY <2>1, <2>3, <2>4 DEF DecodeTag
  <1>5. QED
    BY <1>2, <1>3, <1>4

\* A line is decoded, or the bytes end in it.
LineRead(m, k, d, n) == d.ok /\ Upto(m, d.mem, k + 1) /\ Cut(d.rest, n, Rest(m)[k + 1])
LEMMA LineCut ==
  ASSUME NEW m \in Outgoing, NEW k \in 0 .. (Lines(m) - 1), ~Out(m, k + 1), AllFit(m),
         NEW mem, Upto(m, mem, k), NEW p, OnLine(p, m.schema), p.index = k,
         NEW a, NEW n, Cut(a, n, Inside(m, k + 1) \o Rest(m)[k + 1]),
         NEW d, d = DecodeStatic(p, Wire(Line(m, k + 1)), mem, a)
  PROVE  LineRead(m, k, d, n) \/ (n # 0 /\ ~d.ok)
  <1>1. PICK j \in 1 .. Lines(m) : j = k + 1
    BY LineOf
  <1>2. Given(Line(m, j), m.values[j]) /\ ~LeftOut(Line(m, j), m.values[j])
    BY <1>1, LineOf DEF Out
  <1>3. PICK F \in Bytes : F = Inside(m, j)
    BY <1>2, BodyOfField DEF Inside
  <1>4. j \in 0 .. Lines(m)
    BY LineOf
  <1>5. PICK X \in Bytes : X = Rest(m)[j]
    BY <1>4, RestAt
  <1>6. Arrived(F, a, n, X) \/ Torn(F, a, n)
    BY <1>1, <1>3, <1>5, CutParts, Zenon
  <1>7. ASSUME Arrived(F, a, n, X) PROVE LineRead(m, k, d, n)
    <2>1. PICK b \in Bytes : a = F \o b /\ Cut(b, n, X)
      BY <1>7 DEF Arrived
    <2>2. d = DecodeStatic(p, Wire(Line(m, k + 1)), mem, Inside(m, k + 1) \o b)
      BY <1>1, <1>3, <2>1, Zenon
    <2>3. d.ok /\ d.rest = b /\ Upto(m, d.mem, k + 1)
      BY <2>2, OneMoreRead
    <2>4. QED
      BY <1>1, <1>5, <2>1, <2>3, Zenon DEF LineRead
  <1>8. ASSUME Torn(F, a, n) PROVE n # 0 /\ ~d.ok
    <2>1. PICK c \in 0 .. (Len(F) - 1) : a = SubSeq(F, 1, c) /\ n # 0
      BY <1>8 DEF Torn
    <2>2. Slotted(p, Line(m, j), Spot(m, j))
      BY <1>1, LineOf, OnSlot DEF Line, Spot
    <2>3. F = Body(Line(m, j), m.values[j])
      BY <1>3 DEF Inside
    <2>4. c \in 0 .. (Len(Body(Line(m, j), m.values[j])) - 1)
      BY <2>3, Zenon
    <2>5. ~DecodeStatic(p, Wire(Line(m, j)), mem, SubSeq(Body(Line(m, j), m.values[j]), 1, c)).ok
      BY <1>2, <2>2, <2>4, FieldCut
    <2>6. QED
      BY <1>1, <2>1, <2>3, <2>5, Zenon
  <1>9. QED
    BY <1>6, <1>7, <1>8

-----------------------------------------------------------------------------
(* The steps of a message.                                                 *)

LEMMA LineTag ==
  ASSUME NEW n \in DOMAIN Schemas, NEW p, OnLine(p, n)
  PROVE  /\ p.tag = Fields(n)[p.index + 1].tag /\ p.tag \in Nat
         /\ (HTypeOf(p.type) = HType.REQUIRED <=> Fields(n)[p.index + 1].htype = "REQUIRED")
         /\ p.required_field_index = Cardinality(RequiredBefore(Fields(n), p.index))
  <1>1. p.tag = Declared(Fields(n), p.index + 1).tag /\ p \in Iterators
    BY OnLineParts
  <1>2. p.tag = Fields(n)[p.index + 1].tag
    BY <1>1 DEF Declared
  <1>3. Slotted(p, Fields(n)[p.index + 1], Slot(n, p.index + 1))
    BY OnSlot
  <1>4. HTypeOf(p.type) = HType.REQUIRED <=> Fields(n)[p.index + 1].htype = "REQUIRED"
    BY <1>3, SlotParts
  <1>5. QED
    BY <1>1, <1>2, <1>4, OnLineParts DEF Iterators

LEMMA TagsAscend ==
  ASSUME NEW n \in DOMAIN Schemas, NEW i \in 1 .. Len(Fields(n)), NEW j \in 1 .. Len(Fields(n))
  PROVE  /\ i < j => Fields(n)[i].tag < Fields(n)[j].tag
         /\ Fields(n)[i].tag <= Descs[n].largest_tag
         /\ Fields(n)[i].tag \in Nat \ {0}
  <1>1. Fields(n) \in Seq(FieldLine) /\ Fields(n) # <<>>
    BY SchemaParts
  <1>2. PICK k \in Nat \ {0} : k = Len(Fields(n))
    BY <1>1, EmptySeq, LenProperties
  <1>3. DOMAIN Fields(n) = 1 .. k
    BY <1>1, <1>2
  <1>4. \A x, y \in 1 .. k : x < y => Fields(n)[x].tag < Fields(n)[y].tag
    BY <1>3, SchemasAssumption DEF Fields
  <1>5. \A x \in 1 .. k : Fields(n)[x].tag \in Nat \ {0}
    <2>1. ASSUME NEW x \in 1 .. k PROVE Fields(n)[x].tag \in Nat \ {0}
      <3>1. Fields(n)[x] \in FieldLine
        BY <1>1, <1>2, ElementOfSeq
      <3>2. QED
        BY <3>1 DEF FieldLine
    <2>2. QED
      BY <2>1
  <1>6. Descs[n].largest_tag = Fields(n)[k].tag
    <2>1. Bind(Fields(n), Width(n)).largest_tag = Last(Fields(n)).tag
      BY DEF Bind
    <2>2. QED
      BY <1>2, <2>1, SchemaParts DEF Last
  <1>7. Fields(n)[i].tag <= Fields(n)[k].tag
    <2>1. k \in 1 .. k /\ i \in 1 .. k /\ (i = k \/ i < k)
      BY <1>2
    <2>2. PICK a \in Nat, b \in Nat : a = Fields(n)[i].tag /\ b = Fields(n)[k].tag
      BY <1>5, <2>1
    <2>3. i < k => a < b
      BY <1>4, <2>1, <2>2
    <2>4. i = k => a = b
      BY <2>2
    <2>5. a <= b
      BY <2>1, <2>3, <2>4
    <2>6. QED
      BY <2>2, <2>5
  <1>8. QED
    BY <1>2, <1>4, <1>5, <1>6, <1>7

At(p, n, c) == Positioned(p, Fields(n), Width(n), c)

LEMMA LineAt ==
  ASSUME NEW n \in DOMAIN Schemas, NEW p, OnLine(p, n)
  PROVE  At(p, n, p.index)
  <1>1. PICK k \in 0 .. (Len(Fields(n)) - 1) : p = Standing(Fields(n), Width(n), k)
    BY DEF OnLine
  <1>2. Positioned(p, Fields(n), Width(n), k)
    BY <1>1, SchemaParts, StandingParts
  <1>3. p.index = k
    BY <1>2 DEF Positioned
  <1>4. QED
    BY <1>2, <1>3, Zenon DEF At

LEMMA NextIndex ==
  ASSUME NEW n \in DOMAIN Schemas, NEW p, OnLine(p, n)
  PROVE  IterNext(Descs[n], p).index = IF p.index + 1 = Len(Fields(n)) THEN 0 ELSE p.index + 1
  <1>1. PICK m \in Nat : m = Len(Fields(n))
    BY SchemaParts, LenProperties
  <1>2. PICK k \in 0 .. (m - 1) : p = Standing(Fields(n), Width(n), k)
    BY <1>1 DEF OnLine
  <1>3. Positioned(p, Fields(n), Width(n), k)
    BY <1>1, <1>2, SchemaParts, StandingParts
  <1>4. p.index = k
    BY <1>3 DEF Positioned
  <1>5. PICK j \in 0 .. (m - 1) : j = IF k + 1 = m THEN 0 ELSE k + 1
    BY <1>1
  <1>6. IterNext(Descs[n], p) = Standing(Fields(n), Width(n), j)
    <2>1. IterNext(Bind(Fields(n), Width(n)), Standing(Fields(n), Width(n), k))
            = Standing(Fields(n), Width(n), IF k + 1 = Len(Fields(n)) THEN 0 ELSE k + 1)
      BY <1>1, SchemaParts, IterSteps
    <2>2. QED
      BY <1>1, <1>2, <1>5, <2>1, SchemaParts
  <1>7. Positioned(Standing(Fields(n), Width(n), j), Fields(n), Width(n), j)
    BY <1>1, SchemaParts, StandingParts
  <1>8. IterNext(Descs[n], p).index = j
    BY <1>6, <1>7 DEF Positioned
  <1>9. QED
    BY <1>1, <1>4, <1>5, <1>8

\* The search goes to the next line, and compares its tag.
LEMMA OneLineOn ==
  ASSUME NEW n \in DOMAIN Schemas, NEW c \in Nat, c + 1 < Len(Fields(n)), NEW p, At(p, n, c),
         NEW next, next = AdvanceIterator(Descs[n], p)
  PROVE  /\ At(next, n, c + 1) /\ next.index = c + 1
         /\ LoadDescriptor(Descs[n], next) = Standing(Fields(n), Width(n), c + 1)
         /\ LoadDescriptor(Descs[n], next).index = c + 1
         /\ At(LoadDescriptor(Descs[n], next), n, c + 1)
         /\ LoadDescriptor(Descs[n], next).tag = Fields(n)[c + 2].tag
         /\ Low(Shr(Descs[n].field_info[next.field_info_index + 1], 2), 6) = Low(Bits(Fields(n)[c + 2].tag), 6)
  <1>1. PICK m \in Nat : m = Len(Fields(n))
    BY SchemaParts, LenProperties
  <1>2. PICK j \in 0 .. (m - 1) : j = c + 1
    BY <1>1
  <1>3. c \in 0 .. (m - 1) /\ ~(c + 1 = m) /\ j + 1 = c + 2
    BY <1>1, <1>2
  <1>4. Bindable(Fields(n), Width(n)) /\ Descs[n] = Bind(Fields(n), Width(n))
    BY SchemaParts
  <1>5. Positioned(next, Fields(n), Width(n), j)
    <2>1. Positioned(p, Fields(n), Width(n), c)
      BY DEF At
    <2>2. Positioned(AdvanceIterator(Bind(Fields(n), Width(n)), p), Fields(n), Width(n),
                     IF c + 1 = Len(Fields(n)) THEN 0 ELSE c + 1)
      BY <1>1, <1>3, <1>4, <2>1, Advanced
    <2>3. (IF c + 1 = Len(Fields(n)) THEN 0 ELSE c + 1) = j
      BY <1>1, <1>2, <1>3
    <2>4. QED
      BY <1>4, <2>2, <2>3, Zenon
  <1>6. LoadDescriptor(Descs[n], next) = Standing(Fields(n), Width(n), j)
    BY <1>1, <1>4, <1>5, LoadedLine
  <1>7. OnLine(LoadDescriptor(Descs[n], next), n)
    BY <1>1, <1>6 DEF OnLine
  <1>8. Positioned(LoadDescriptor(Descs[n], next), Fields(n), Width(n), j)
    BY <1>1, <1>4, <1>6, StandingParts
  <1>9. LoadDescriptor(Descs[n], next).index = j /\ next.index = j
    BY <1>5, <1>8 DEF Positioned
  <1>10. LoadDescriptor(Descs[n], next).tag = Fields(n)[j + 1].tag
    BY <1>7, <1>9, LineTag
  <1>11. Low(Shr(Descs[n].field_info[next.field_info_index + 1], 2), 6) = Low(Bits(Fields(n)[j + 1].tag), 6)
    BY <1>1, <1>4, <1>5, WordsThere
  <1>12. QED
    BY <1>2, <1>3, <1>5, <1>6, <1>8, <1>9, <1>10, <1>11, Zenon DEF At

\* The bytes of the first k lines are written, and their arrays are not too long.
Sofar(m, o, k) ==
  /\ o \in Bytes /\ Len(o) <= m.room /\ o \o Rest(m)[k] = Rest(m)[0]
  /\ \A i \in 1 .. k : Fitting(Line(m, i), m.values[i])

LEMMA WriteMore ==
  ASSUME NEW m \in Outgoing, NEW k \in 0 .. (Lines(m) - 1), NEW o, Sofar(m, o, k),
         NEW p, OnLine(p, m.schema), p.index = k,
         NEW e, e = EncodeOne(p, Struct(m.schema, m.values), [out |-> o, room |-> m.room, ok |-> TRUE])
  PROVE  /\ e.out \in Bytes /\ Len(e.out) <= m.room
         /\ e.ok => Sofar(m, e.out, k + 1)
  <1>1. PICK n \in Nat : n = Lines(m)
    BY LineOf
  <1>2. PICK j \in 1 .. n : j = k + 1
    BY <1>1
  <1>3. Slotted(p, Line(m, j), Spot(m, j))
    BY <1>2, LineOf, OnSlot DEF Line, Spot
  <1>4. Given(Line(m, j), m.values[j])
    BY <1>1, LineOf
  <1>5. Keeps(Struct(m.schema, m.values), Line(m, j), Spot(m, j), m.values[j])
    BY <1>1, StructKeeps DEF Line, Lines, Spot
  <1>6. PICK s \in Streams : s = [out |-> o, room |-> m.room, ok |-> TRUE] /\ s.out = o
    <2>1. m.room \in Int
      <3>1. m.room \in 0 .. 2 ^ 30
        BY OutgoingAssumption, Zenon
      <3>2. QED
        BY <3>1
    <2>2. o \in Bytes
      BY Zenon DEF Sofar
    <2>3. /\ [out |-> o, room |-> m.room, ok |-> TRUE] \in [out : Bytes, room : Int, ok : BOOLEAN]
          /\ [out |-> o, room |-> m.room, ok |-> TRUE].out = o
          /\ [out |-> o, room |-> m.room, ok |-> TRUE].room = m.room
      BY <2>1, <2>2
    <2>4. Len(o) <= m.room
      BY Zenon DEF Sofar
    <2>5. [out |-> o, room |-> m.room, ok |-> TRUE] \in Streams
      BY <2>3, <2>4 DEF Streams
    <2>6. QED
      BY <2>3, <2>5, Zenon
  <1>7. PICK mem : mem = Struct(m.schema, m.values)
    OBVIOUS
  <1>8. Takes(s, e, Part(m, j)) /\ (e.ok => Fitting(Line(m, j), m.values[j]))
    <2>1. e = EncodeOne(p, mem, s)
      BY <1>6, <1>7, Zenon
    <2>2. Takes(s, EncodeOne(p, mem, s), FieldBytes(Line(m, j), m.values[j]))
          /\ (EncodeOne(p, mem, s).ok => Fitting(Line(m, j), m.values[j]))
      BY <1>3, <1>4, <1>5, <1>7, OneWritten
    <2>3. QED
      BY <2>1, <2>2, Zenon DEF Part
  <1>9. e \in Streams /\ e.room = m.room /\ (e.ok => e.out = o \o Part(m, j))
    BY <1>6, <1>8 DEF Takes
  <1>10. e.out \in Bytes /\ Len(e.out) <= m.room
    BY <1>9 DEF Streams
  <1>11. PICK r \in [0 .. n -> Bytes] : r = Rest(m) /\ r[j - 1] = Part(m, j) \o r[j]
    BY <1>1, RestParts DEF Ends
  <1>12. PICK q \in Bytes, h \in Bytes : q = r[j] /\ h = Part(m, j)
    <2>1. j \in 0 .. n
      BY <1>1
    <2>2. Part(m, j) \in Bytes
      BY <1>4, BodyOfField DEF Part
    <2>3. QED
      BY <1>11, <2>1, <2>2
  <1>13. Agree(o, q, o \o h, h \o q)
    <2>1. Glued(Byte, o, h, q, o \o h, h \o q)
      BY Zenon DEF Glued, Bytes, Sofar
    <2>2. QED
      BY <2>1, Regrouped
  <1>14. j - 1 = k
    BY <1>2
  <1>15. o \o r[k] = r[0]
    BY <1>11, Zenon DEF Sofar
  <1>16. e.ok => e.out \o q = r[0]
    BY <1>9, <1>11, <1>12, <1>13, <1>14, <1>15, Zenon DEF Agree
  <1>17. ASSUME e.ok, NEW i \in 1 .. j PROVE Fitting(Line(m, i), m.values[i])
    <2>1. i = j \/ i \in 1 .. k
      BY <1>1, <1>2
    <2>2. QED
      BY <1>8, <1>17, <2>1 DEF Sofar
  <1>18. QED
    BY <1>2, <1>10, <1>11, <1>12, <1>16, <1>17, Zenon DEF Sofar

LEMMA AllWritten ==
  ASSUME NEW m \in Outgoing, NEW o, Sofar(m, o, Lines(m))
  PROVE  o = Rest(m)[0] /\ AllFit(m)
  <1>1. o \in Seq(Byte) /\ Rest(m)[Lines(m)] = <<>> /\ o \o Rest(m)[Lines(m)] = Rest(m)[0]
    BY RestAt DEF Sofar, Bytes
  <1>2. QED
    BY <1>1, ConcatEmptySeq DEF Sofar, AllFit

LEMMA CutDelivered ==
  ASSUME NEW o \in Bytes, NEW n \in 0 .. Len(o)
  PROVE  Cut(SubSeq(o, 1, Len(o) - n), n, o)
  <1>1. PICK l \in Nat : l = Len(o)
    BY DEF Bytes
  <1>2. <<>> \in Bytes /\ Len(<<>>) = 0
    BY DEF Bytes
  <1>3. CASE n = 0
    <2>1. SubSeq(o, 1, Len(o)) = o /\ o \o <<>> = o
      BY RestOfStream, <1>2, ConcatEmptySeq DEF Bytes
    <2>2. Len(o) - n = Len(o)
      BY <1>1, <1>3
    <2>3. QED
      BY <1>2, <1>3, <2>1, <2>2, Zenon DEF Cut
  <1>4. CASE n # 0
    <2>1. PICK k \in 0 .. (l - 1) : k = Len(o) - n /\ l - k = n
      <3>1. PICK c \in 1 .. l : c = n
        BY <1>1, <1>4
      <3>2. l - c \in 0 .. (l - 1) /\ l - (l - c) = c
        OBVIOUS
      <3>3. QED
        BY <1>1, <3>1, <3>2
    <2>2. PICK a \in Bytes, t \in Bytes : a = SubSeq(o, 1, k) /\ t = SubSeq(o, k + 1, l) /\ a \o t = o
                                         /\ Len(t) = l - k
      BY <1>1, <2>1, WhatIsMissing
    <2>3. QED
      BY <2>1, <2>2, Zenon DEF Cut
  <1>5. QED
    BY <1>3, <1>4

-----------------------------------------------------------------------------
(* A message of the encoder on its way.                                    *)

\* The decoder is at the bytes of the line after the k-th, and has its tag.
Upon(m, a, n, mem, s, c, k) ==
  /\ k \in 0 .. (Lines(m) - 1) /\ ~Out(m, k + 1)
  /\ Cut(a, n, Inside(m, k + 1) \o Rest(m)[k + 1])
  /\ Upto(m, mem, k) /\ s = Noted(m, k)
  /\ c.tag = Line(m, k + 1).tag /\ c.wiretype = Wire(Line(m, k + 1))
\* The decoder is between two lines, with the iterator at one of the first k or at the next.
Between(m, a, n, mem, s, p, k) ==
  /\ k \in 0 .. Lines(m) /\ p.index <= k
  /\ Cut(a, n, Rest(m)[k])
  /\ Upto(m, mem, k) /\ s = Noted(m, k)
\* What the decoder accepts: the bytes of the first k lines have come, and no
\* required field is among the others.
Accepts(m, n, mem, k) ==
  /\ k \in 0 .. Lines(m)
  /\ Upto(m, mem, k) /\ Len(Rest(m)[k]) = n
  /\ Noted(m, k) = Noted(m, Lines(m))

Begun == left = <<>> /\ seen = {} /\ dest = Garbage
Writing == Begun /\ lost = 0 /\ src = Struct(input.schema, input.values) /\ Sofar(input, out, it.index)
Written == Begun /\ lost = 0 /\ Sofar(input, out, Lines(input))
Clearing == Cut(left, lost, Rest(input)[0]) /\ AllFit(input) /\ seen = {} /\ Defaults(input, dest, it.index)
Reading == AllFit(input) /\ \E k \in 0 .. Lines(input) : Between(input, left, lost, dest, seen, it, k)
Searching ==
  /\ AllFit(input)
  /\ \E k \in 0 .. (Lines(input) - 1) :
       /\ Upon(input, left, lost, dest, seen, cur, k)
       /\ it.index \in 0 .. (k - 1) /\ At(it, input.schema, it.index)
       /\ cur.start \in 0 .. it.index
Finding == AllFit(input) /\ Upon(input, left, lost, dest, seen, cur, it.index)
Accepted == AllFit(input) /\ \E k \in 0 .. Lines(input) : Accepts(input, lost, dest, k)

Journey ==
  /\ stage = "encode" => Writing
  /\ stage = "written" => Written
  /\ stage = "defaults" => Clearing
  /\ stage = "tag" => Reading
  /\ stage = "search" => Searching
  /\ stage = "field" => Finding
  /\ stage # "skip"
  /\ stage = "rejected" => lost # 0
  /\ stage = "accepted" => Accepted
Journeys ==
  IF input \in Outgoing THEN Journey ELSE lost = 0 /\ stage \notin {"encode", "written"}

LEMMA JourneysInit == Init => Journeys
  <1> SUFFICES ASSUME Init PROVE Journeys
    OBVIOUS
  <1>1. /\ out = <<>> /\ lost = 0 /\ seen = {} /\ it = IterBegin(desc) /\ dest = Garbage
        /\ \/ input \in Outgoing /\ stage = "encode" /\ left = <<>> /\ src = Struct(input.schema, input.values)
           \/ input \in Foreign /\ stage = "defaults"
    BY DEF Init
  <1>2. CASE input \in Foreign /\ stage = "defaults"
    BY <1>1, <1>2, ForeignAssumption DEF Journeys
  <1>3. CASE input \in Outgoing /\ stage = "encode" /\ left = <<>> /\ src = Struct(input.schema, input.values)
    <2>1. it.index = 0
      <3>1. input.schema \in DOMAIN Schemas
        BY <1>3, LineOf
      <3>2. it = Standing(Fields(input.schema), Width(input.schema), 0)
        BY <1>1, <3>1, SchemaParts, IterSteps DEF desc
      <3>3. 0 \in 0 .. (Len(Fields(input.schema)) - 1)
        BY <3>1, SchemaParts, EmptySeq, LenProperties
      <3>4. Positioned(it, Fields(input.schema), Width(input.schema), 0)
        BY <3>1, <3>2, <3>3, SchemaParts, StandingParts
      <3>5. QED
        BY <3>4 DEF Positioned
    <2>2. Sofar(input, out, 0)
      <3>1. 0 \in 0 .. Lines(input)
        BY <1>3, LineOf
      <3>2. Rest(input)[0] \in Seq(Byte)
        BY <1>3, <3>1, RestAt DEF Bytes
      <3>3. <<>> \o Rest(input)[0] = Rest(input)[0] /\ <<>> \in Seq(Byte)
        BY <3>2, ConcatEmptySeq
      <3>4. \A i \in 1 .. 0 : FALSE
        OBVIOUS
      <3>5. Len(<<>>) <= input.room
        <4>1. input.room \in 0 .. 2 ^ 30
          BY <1>3, OutgoingAssumption, Zenon
        <4>2. QED
          BY <4>1
      <3>6. QED
        BY <1>1, <3>3, <3>4, <3>5, Zenon DEF Sofar, Bytes
    <2>3. Writing
      BY <1>1, <1>3, <2>1, <2>2, Zenon DEF Writing, Begun
    <2>4. Journey
      BY <1>3, <2>3 DEF Journey
    <2>5. QED
      BY <1>3, <2>4 DEF Journeys
  <1>4. QED
    BY <1>1, <1>2, <1>3

LEMMA StillForeign ==
  ASSUME Journeys, input \notin Outgoing, [Next]_vars
  PROVE  Journeys'
  <1>1. lost = 0 /\ stage \notin {"encode", "written"}
    BY DEF Journeys
  <1>2. input' = input /\ lost' = 0 /\ stage' \notin {"encode", "written"}
    BY <1>1 DEF Next, vars, EncodeField, Deliver, SetDefault, ReadTag, Search, Skip, DecodeField, Finish, Done, FindBegins
  <1>3. QED
    BY <1>2 DEF Journeys

LEMMA EncodeFieldJourney ==
  ASSUME Iterates, Journey, input \in Outgoing, EncodeField
  PROVE  Journey'
  <1> DEFINE e == EncodeOne(it, src, [out |-> out, room |-> input.room, ok |-> TRUE])
  <1>1. /\ stage = "encode" /\ out' = e.out
        /\ it' = (IF e.ok THEN IterNext(desc, it) ELSE it)
        /\ stage' = (IF ~e.ok THEN "refused" ELSE IF it'.index # 0 THEN "encode" ELSE "written")
        /\ input' = input /\ src' = src /\ lost' = lost /\ left' = left /\ dest' = dest /\ seen' = seen
    BY DEF EncodeField
  <1>2. Writing /\ OnLine(it, input.schema) /\ input.schema \in DOMAIN Schemas
    BY <1>1 DEF Journey, Iterates
  <1> HIDE DEF e
  <1>3. CASE ~e.ok
    <2>1. stage' = "refused"
      BY <1>1, <1>3
    <2>2. QED
      BY <2>1 DEF Journey
  <1>4. CASE e.ok
    <2>1. PICK n \in Nat \ {0} : n = Lines(input)
      BY LineOf
    <2>2. PICK k \in 0 .. (n - 1) : k = it.index
      BY <1>2, <2>1, OnLineParts DEF Lines
    <2>3. Sofar(input, out', k + 1)
      <3>1. Sofar(input, out, k) /\ src = Struct(input.schema, input.values)
        BY <1>2, <2>2, Zenon DEF Writing
      <3>2. e = EncodeOne(it, Struct(input.schema, input.values), [out |-> out, room |-> input.room, ok |-> TRUE])
        BY <3>1, Zenon DEF e
      <3>3. Sofar(input, e.out, k + 1)
        BY <1>2, <1>4, <2>1, <2>2, <3>1, <3>2, WriteMore
      <3>4. QED
        BY <1>1, <3>3, Zenon
    <2>4. it'.index = IF k + 1 = n THEN 0 ELSE k + 1
      BY <1>1, <1>2, <1>4, <2>1, <2>2, NextIndex DEF desc, Lines
    <2>5. lost = 0 /\ Begun /\ src = Struct(input.schema, input.values)
      BY <1>2, Zenon DEF Writing
    <2>6. Begun'
      BY <1>1, <2>5 DEF Begun, Garbage
    <2>7. CASE k + 1 = n
      <3>1. stage' = "written"
        BY <1>1, <1>4, <2>4, <2>7
      <3>2. Written'
        BY <1>1, <2>1, <2>3, <2>5, <2>6, <2>7, Zenon DEF Written
      <3>3. QED
        BY <3>1, <3>2 DEF Journey
    <2>8. CASE k + 1 # n
      <3>1. it'.index = k + 1
        BY <2>4, <2>8
      <3>2. k + 1 # 0
        OBVIOUS
      <3>3. stage' = "encode"
        BY <1>1, <1>4, <3>1, <3>2
      <3>4. Writing'
        BY <1>1, <2>3, <2>5, <2>6, <3>1, Zenon DEF Writing
      <3>5. QED
        BY <3>3, <3>4 DEF Journey
    <2>9. QED
      BY <2>7, <2>8
  <1>5. QED
    BY <1>3, <1>4

LEMMA DeliverJourney ==
  ASSUME Iterates, Journey, input \in Outgoing, Deliver
  PROVE  Journey'
  <1>1. /\ stage = "written" /\ stage' = "defaults" /\ lost' \in 0 .. Len(out)
        /\ left' = SubSeq(out, 1, Len(out) - lost') /\ it' = IterBegin(desc)
        /\ input' = input /\ out' = out /\ dest' = dest /\ seen' = seen
    <2>1. (IF input.cuts THEN 0 .. Len(out) ELSE {0}) \subseteq 0 .. Len(out)
      <3>1. out \in Bytes
        <4>1. Sofar(input, out, Lines(input))
          BY DEF Deliver, Journey, Written
        <4>2. QED
          BY <4>1, Zenon DEF Sofar
      <3>2. Len(out) \in Nat
        BY <3>1 DEF Bytes
      <3>3. QED
        BY <3>2
    <2>2. QED
      BY <2>1 DEF Deliver
  <1>2. Written
    BY <1>1 DEF Journey
  <1>3. out = Rest(input)[0] /\ AllFit(input) /\ out \in Bytes
    <2>1. Sofar(input, out, Lines(input))
      BY <1>2 DEF Written
    <2>2. out \in Bytes
      BY <2>1, Zenon DEF Sofar
    <2>3. QED
      BY <2>1, <2>2, AllWritten
  <1>4. Cut(left', lost', Rest(input)[0])
    BY <1>1, <1>3, CutDelivered
  <1>5. it'.index = 0
    <2>1. input.schema \in DOMAIN Schemas
      BY LineOf
    <2>2. it' = Standing(Fields(input.schema), Width(input.schema), 0)
      BY <1>1, <2>1, SchemaParts, IterSteps DEF desc
    <2>3. 0 \in 0 .. (Len(Fields(input.schema)) - 1)
      BY <2>1, SchemaParts, EmptySeq, LenProperties
    <2>4. Positioned(it', Fields(input.schema), Width(input.schema), 0)
      BY <2>1, <2>2, <2>3, SchemaParts, StandingParts
    <2>5. QED
      BY <2>4 DEF Positioned
  <1>6. Defaults(input, dest, 0) /\ seen = {}
    <2>1. dest = Garbage /\ seen = {}
      BY <1>2 DEF Written, Begun
    <2>2. dest \in Structs(input)
      BY <2>1 DEF Garbage, Structs, Memories
    <2>3. \A i \in 1 .. 0 : FALSE
      OBVIOUS
    <2>4. QED
      BY <2>1, <2>2, <2>3, Zenon DEF Defaults
  <1>7. Clearing'
    BY <1>1, <1>3, <1>4, <1>5, <1>6, Zenon DEF Clearing
  <1>8. QED
    BY <1>1, <1>7 DEF Journey

LEMMA SetDefaultJourney ==
  ASSUME Iterates, Journey, input \in Outgoing, SetDefault
  PROVE  Journey'
  <1>1. /\ stage = "defaults" /\ dest' = SetToDefault(it, dest) /\ it' = IterNext(desc, it)
        /\ stage' = (IF it'.index # 0 THEN "defaults" ELSE "tag")
        /\ input' = input /\ lost' = lost /\ left' = left /\ seen' = seen
    BY DEF SetDefault
  <1>2. Clearing /\ OnLine(it, input.schema) /\ input.schema \in DOMAIN Schemas
    BY <1>1 DEF Journey, Iterates
  <1>3. PICK n \in Nat \ {0} : n = Lines(input)
    BY LineOf
  <1>4. PICK k \in 0 .. (n - 1) : k = it.index
    BY <1>2, <1>3, OnLineParts DEF Lines
  <1>5. Defaults(input, dest', k + 1)
    BY <1>1, <1>2, <1>3, <1>4, OneMoreDefault DEF Clearing
  <1>6. it'.index = IF k + 1 = n THEN 0 ELSE k + 1
    BY <1>1, <1>2, <1>3, <1>4, NextIndex DEF desc, Lines
  <1>7. Cut(left, lost, Rest(input)[0]) /\ AllFit(input) /\ seen = {}
    BY <1>2 DEF Clearing
  <1>8. CASE k + 1 = n
    <2>1. stage' = "tag" /\ it'.index = 0
      BY <1>1, <1>6, <1>8
    <2>2. Upto(input, dest', 0)
      <3>1. dest' \in Structs(input) /\ \A i \in 1 .. n : Blank(input, dest', i)
        BY <1>5, <1>8 DEF Defaults
      <3>2. 0 + 1 = 1 /\ \A i \in 1 .. 0 : FALSE
        OBVIOUS
      <3>3. QED
        BY <1>3, <3>1, <3>2 DEF Upto
    <2>3. Between(input, left', lost', dest', seen', it', 0)
      <3>1. 0 \in 0 .. Lines(input) /\ it'.index <= 0
        BY <1>3, <2>1
      <3>2. QED
        BY <1>1, <1>7, <2>2, <3>1, NoneNoted, Zenon DEF Between
    <2>4. Reading'
      <3>1. 0 \in 0 .. Lines(input)
        BY <1>3
      <3>2. QED
        BY <1>1, <1>7, <2>3, <3>1, Zenon DEF Reading
    <2>5. QED
      BY <2>1, <2>4 DEF Journey
  <1>9. CASE k + 1 # n
    <2>1. it'.index = k + 1 /\ k + 1 # 0
      BY <1>6, <1>9
    <2>2. stage' = "defaults"
      BY <1>1, <2>1
    <2>3. Clearing'
      BY <1>1, <1>5, <1>7, <2>1, Zenon DEF Clearing
    <2>4. QED
      BY <2>2, <2>3 DEF Journey
  <1>10. QED
    BY <1>8, <1>9

\* What is read at the beginning of a line that was not left out.
LEMMA NextRead ==
  ASSUME NEW m \in Outgoing, NEW a, NEW n, NEW mem, NEW s, NEW p, NEW k, Between(m, a, n, mem, s, p, k), p.index \in Nat,
         a # <<>>
  PROVE  \E j \in 0 .. (Lines(m) - 1) :
           /\ p.index <= j /\ ~Out(m, j + 1) /\ Upto(m, mem, j) /\ s = Noted(m, j)
           /\ \/ TagFound(Line(m, j + 1), a, n, Inside(m, j + 1) \o Rest(m)[j + 1])
              \/ n # 0 /\ ~DecodeTag(a).ok
  <1>1. PICK N \in Nat : N = Lines(m)
    BY LineOf
  <1>2. /\ k \in 0 .. N /\ p.index <= k /\ Cut(a, n, Rest(m)[k]) /\ Upto(m, mem, k) /\ s = Noted(m, k)
    BY <1>1 DEF Between
  <1>3. CASE \A i \in (k + 1) .. N : Out(m, i)
    <2>1. N \in k .. N
      BY <1>2
    <2>2. Rest(m)[N] = Rest(m)[k]
      BY <1>1, <1>2, <1>3, <2>1, SameRest
    <2>3. Rest(m)[k] = <<>>
      BY <1>1, <2>2, RestAt
    <2>4. a = <<>>
      BY <1>2, <2>3, CutEnds
    <2>5. QED
      BY <2>4
  <1>4. ASSUME NEW c \in (k + 1) .. N, NextUp(m, k, c)
        PROVE  \E j \in 0 .. (Lines(m) - 1) :
           /\ p.index <= j /\ ~Out(m, j + 1) /\ Upto(m, mem, j) /\ s = Noted(m, j)
           /\ \/ TagFound(Line(m, j + 1), a, n, Inside(m, j + 1) \o Rest(m)[j + 1])
              \/ n # 0 /\ ~DecodeTag(a).ok
    <2>1. PICK j \in k .. N : j = c - 1 /\ j + 1 = c /\ j \in 0 .. (N - 1) /\ p.index <= j
      BY <1>2, <1>4
    <2>2. ~Out(m, c) /\ \A i \in (k + 1) .. j : Out(m, i)
      BY <1>4, <2>1 DEF NextUp
    <2>3. Rest(m)[j] = Rest(m)[k]
      BY <1>1, <1>2, <2>1, <2>2, SameRest
    <2>4. Noted(m, j) = Noted(m, k) /\ Upto(m, mem, j)
      BY <1>1, <1>2, <2>1, <2>2, SkipsLeftOut
    <2>5. c \in 1 .. N /\ c - 1 = j
      BY <1>2, <2>1
    <2>6. Rest(m)[j] = TagBytes(Line(m, c)) \o (Inside(m, c) \o Rest(m)[c])
      BY <1>1, <2>2, <2>5, RestAt
    <2>7. Given(Line(m, c), m.values[c])
      BY <1>1, <2>5, LineOf
    <2>8. PICK X \in Bytes : X = Inside(m, c) \o Rest(m)[c]
      <3>1. Inside(m, c) \in Bytes
        BY <2>2, <2>7, BodyOfField DEF Inside, Out
      <3>2. c \in 0 .. N
        BY <2>5
      <3>3. Rest(m)[c] \in Bytes
        BY <1>1, <3>2, RestAt
      <3>4. QED
        BY <3>1, <3>3, RestOfStream
    <2>9. Cut(a, n, TagBytes(Line(m, c)) \o X)
      BY <1>2, <2>3, <2>6, <2>8, Zenon
    <2>10. TagFound(Line(m, c), a, n, X) \/ (n # 0 /\ ~DecodeTag(a).ok)
      BY <2>7, <2>9, TagCut DEF Given
    <2>11. QED
      BY <1>1, <1>2, <2>1, <2>2, <2>4, <2>8, <2>10, Zenon
  <1>5. QED
    BY <1>1, <1>2, <1>3, <1>4, WhatIsNext

LEMMA ReadTagJourney ==
  ASSUME Iterates, Journey, input \in Outgoing, ReadTag
  PROVE  Journey'
  <1> DEFINE d == DecodeTag(left)
             find == FindBegins(d.tag)
  <1>1. /\ stage = "tag" /\ left # <<>>
        /\ IF ~d.ok \/ d.tag = 0
           THEN stage' = "rejected" /\ UNCHANGED <<it, left, cur>>
           ELSE /\ left' = d.rest
                /\ cur' = [tag |-> d.tag, wiretype |-> d.wiretype, start |-> find.start]
                /\ it' = find.it
                /\ stage' = find.stage
        /\ input' = input /\ lost' = lost /\ dest' = dest /\ seen' = seen
    BY DEF ReadTag
  <1>2. Reading /\ OnLine(it, input.schema) /\ input.schema \in DOMAIN Schemas
    BY <1>1 DEF Journey, Iterates
  <1>3. AllFit(input) /\ \E k \in 0 .. Lines(input) : Between(input, left, lost, dest, seen, it, k)
    BY <1>2 DEF Reading
  <1>4. PICK n \in Nat : n = Lines(input)
    BY LineOf
  <1>5. PICK c \in 0 .. (n - 1) : c = it.index
    BY <1>2, <1>4, OnLineParts DEF Lines
  <1>6. PICK j \in 0 .. (n - 1) :
           /\ c <= j /\ ~Out(input, j + 1) /\ Upto(input, dest, j) /\ seen = Noted(input, j)
           /\ \/ TagFound(Line(input, j + 1), left, lost, Inside(input, j + 1) \o Rest(input)[j + 1])
              \/ lost # 0 /\ ~DecodeTag(left).ok
    <2>1. it.index \in Nat
      BY <1>5
    <2>2. \E j \in 0 .. (Lines(input) - 1) :
           /\ it.index <= j /\ ~Out(input, j + 1) /\ Upto(input, dest, j) /\ seen = Noted(input, j)
           /\ \/ TagFound(Line(input, j + 1), left, lost, Inside(input, j + 1) \o Rest(input)[j + 1])
              \/ lost # 0 /\ ~DecodeTag(left).ok
      BY <1>1, <1>3, <2>1, NextRead
    <2>3. QED
      BY <1>4, <1>5, <2>2, Zenon
  <1>7. CASE lost # 0 /\ ~d.ok
    <2>1. stage' = "rejected" /\ lost' # 0
      BY <1>1, <1>7
    <2>2. QED
      BY <2>1 DEF Journey
  <1>8. CASE TagFound(Line(input, j + 1), left, lost, Inside(input, j + 1) \o Rest(input)[j + 1])
    <2>1. PICK b \in Bytes :
            /\ d = [ok |-> TRUE, tag |-> Line(input, j + 1).tag, wiretype |-> Wire(Line(input, j + 1)), rest |-> b]
            /\ Cut(b, lost, Inside(input, j + 1) \o Rest(input)[j + 1])
      BY <1>8, Zenon DEF TagFound
    <2>2. d.ok /\ d.tag = Line(input, j + 1).tag /\ d.wiretype = Wire(Line(input, j + 1)) /\ d.rest = b
      <3> HIDE DEF d
      <3>1. ASSUME NEW t, NEW w, d = [ok |-> TRUE, tag |-> t, wiretype |-> w, rest |-> b]
            PROVE  d.ok /\ d.tag = t /\ d.wiretype = w /\ d.rest = b
        BY <3>1
      <3>2. QED
        BY <2>1, <3>1, Zenon
    <2> HIDE DEF d
    <2>3. PICK x \in 1 .. n, y \in 1 .. n : x = c + 1 /\ y = j + 1
      BY <1>5, <1>6
    <2>4. PICK g \in Nat \ {0}, h \in Nat \ {0}, top \in Nat :
            /\ g = it.tag /\ h = d.tag /\ top = desc.largest_tag
            /\ (x < y => g < h) /\ h <= top
      <3>1. /\ Fields(input.schema)[x].tag \in Nat \ {0} /\ Fields(input.schema)[y].tag \in Nat \ {0}
            /\ x < y => Fields(input.schema)[x].tag < Fields(input.schema)[y].tag
            /\ Fields(input.schema)[y].tag <= Descs[input.schema].largest_tag
        BY <1>2, <1>4, TagsAscend DEF Lines
      <3>2. it.tag = Fields(input.schema)[x].tag
        BY <1>2, <1>5, <2>3, LineTag
      <3>3. d.tag = Fields(input.schema)[y].tag
        BY <2>2, <2>3 DEF Line
      <3>4. Descs[input.schema].largest_tag \in Nat /\ desc.largest_tag = Descs[input.schema].largest_tag
        BY <1>2, SchemaParts DEF desc
      <3>5. QED
        BY <3>1, <3>2, <3>3, <3>4
    <2>5. /\ left' = b /\ it' = find.it /\ stage' = find.stage
          /\ cur'.tag = Line(input, j + 1).tag /\ cur'.wiretype = Wire(Line(input, j + 1)) /\ cur'.start = find.start
      <3>1. ~(~d.ok \/ d.tag = 0)
        BY <2>2, <2>4
      <3>2. QED
        BY <1>1, <2>2, <3>1
    <2>6. Upon(input, left', lost', dest', seen', cur', j)
      BY <1>1, <1>4, <1>6, <2>1, <2>5, Zenon DEF Upon
    <2>7. CASE c = j
      <3>1. Line(input, j + 1).tag = it.tag
        <4>1. it.tag = Fields(input.schema)[it.index + 1].tag
          BY <1>2, LineTag
        <4>2. it.index + 1 = j + 1
          BY <1>5, <2>7
        <4>3. QED
          BY <4>1, <4>2, Zenon DEF Line
      <3>2. it.tag = d.tag
        BY <2>2, <3>1
      <3>3. find.stage = "field" /\ find.it = it
        BY <3>2 DEF FindBegins
      <3>4. stage' = "field" /\ it' = it /\ it'.index = j
        BY <1>5, <2>5, <2>7, <3>3
      <3>5. Finding'
        BY <1>1, <1>3, <2>6, <3>4, Zenon DEF Finding
      <3>6. QED
        BY <3>4, <3>5 DEF Journey
    <2>8. CASE c # j
      <3>1. x < y
        BY <1>6, <2>3, <2>8
      <3>2. g < h /\ ~(g = h) /\ ~(h > top) /\ ~(h < g)
        BY <2>4, <3>1
      <3>3. it.tag # d.tag /\ ~(d.tag > desc.largest_tag) /\ ~(d.tag < it.tag)
        BY <2>4, <3>2
      <3>4. find.stage = "search" /\ find.it = it /\ find.start = it.index
        BY <3>3 DEF FindBegins
      <3>5. stage' = "search" /\ it' = it /\ cur'.start = it.index
        BY <2>5, <3>4
      <3>6. it'.index \in 0 .. (j - 1) /\ cur'.start \in 0 .. it'.index
        BY <1>5, <1>6, <2>8, <3>5
      <3>7. At(it', input'.schema, it'.index)
        BY <1>1, <1>2, <3>5, LineAt
      <3>8. Searching'
        <4>1. AllFit(input')
          BY <1>1, <1>3
        <4>2. j \in 0 .. (Lines(input') - 1)
          BY <1>1, <1>4
        <4>3. Upon(input', left', lost', dest', seen', cur', j)
          BY <1>1, <2>6
        <4>4. QED
          BY <3>6, <3>7, <4>1, <4>2, <4>3, Zenon DEF Searching
      <3>9. QED
        BY <3>5, <3>8 DEF Journey
    <2>9. QED
      BY <2>7, <2>8
  <1>9. QED
    BY <1>6, <1>7, <1>8

LEMMA SearchJourney ==
  ASSUME Iterates, Journey, input \in Outgoing, Search
  PROVE  Journey'
  <1> DEFINE next == AdvanceIterator(desc, it)
             found == Matches(cur.tag, next)
             around == next.index = cur.start
  <1>1. /\ stage = "search"
        /\ it' = (IF LowBitsMatch(cur.tag, next) \/ around THEN LoadDescriptor(desc, next) ELSE next)
        /\ stage' = (IF found THEN "field" ELSE IF around THEN "skip" ELSE "search")
        /\ input' = input /\ lost' = lost /\ left' = left /\ dest' = dest /\ seen' = seen /\ cur' = cur
    BY DEF Search
  <1>2. Searching /\ input.schema \in DOMAIN Schemas
    BY <1>1 DEF Journey, Iterates
  <1>3. AllFit(input)
    BY <1>2 DEF Searching
  <1>4. PICK n \in Nat : n = Lines(input)
    BY LineOf
  <1>5. PICK k \in 0 .. (n - 1) :
          /\ Upon(input, left, lost, dest, seen, cur, k)
          /\ it.index \in 0 .. (k - 1) /\ At(it, input.schema, it.index)
          /\ cur.start \in 0 .. it.index
    BY <1>2, <1>4 DEF Searching
  <1>6. PICK c \in 0 .. (k - 1) : c = it.index
    BY <1>5
  <1>7. PICK s \in 0 .. c : s = cur.start
    BY <1>5, <1>6
  <1>8. /\ At(next, input.schema, c + 1) /\ next.index = c + 1
        /\ LoadDescriptor(desc, next).index = c + 1
        /\ At(LoadDescriptor(desc, next), input.schema, c + 1)
        /\ LoadDescriptor(desc, next).tag = Fields(input.schema)[c + 2].tag
        /\ Low(Shr(desc.field_info[next.field_info_index + 1], 2), 6) = Low(Bits(Fields(input.schema)[c + 2].tag), 6)
    <2>1. c \in Nat /\ c + 1 < Len(Fields(input.schema))
      BY <1>4, <1>5, <1>6 DEF Lines
    <2>2. At(it, input.schema, c)
      BY <1>5, <1>6
    <2>3. QED
      BY <1>2, <2>1, <2>2, OneLineOn DEF desc
  <1> HIDE DEF next
  <1>9. ~around
    <2>1. c + 1 # s
      BY <1>7
    <2>2. QED
      BY <1>6, <1>7, <1>8, <2>1
  <1>10. cur.tag = Line(input, k + 1).tag
    BY <1>5 DEF Upon
  <1>11. CASE c + 1 = k
    <2>1. c + 2 = k + 1
      BY <1>11
    <2>2. Fields(input.schema)[c + 2].tag = cur.tag
      BY <1>10, <2>1 DEF Line
    <2>3. LowBitsMatch(cur.tag, next) /\ found
      BY <1>8, <2>2, Zenon DEF LowBitsMatch, Matches
    <2>4. stage' = "field" /\ it' = LoadDescriptor(desc, next)
      BY <1>1, <2>3
    <2>5. it'.index = k
      BY <1>8, <1>11, <2>4
    <2>6. Finding'
      BY <1>1, <1>3, <1>5, <2>5, Zenon DEF Finding
    <2>7. QED
      BY <2>4, <2>6 DEF Journey
  <1>12. CASE c + 1 # k
    <2>1. PICK x \in 1 .. n, y \in 1 .. n : x = c + 2 /\ y = k + 1 /\ x < y
      BY <1>4, <1>5, <1>6, <1>12
    <2>2. Fields(input.schema)[x].tag < Fields(input.schema)[y].tag /\ Fields(input.schema)[x].tag \in Nat \ {0}
          /\ Fields(input.schema)[y].tag \in Nat \ {0}
      BY <1>2, <1>4, <2>1, TagsAscend DEF Lines
    <2>3. LoadDescriptor(desc, next).tag # cur.tag
      <3>1. PICK a \in Nat, b \in Nat : a = Fields(input.schema)[x].tag /\ b = Fields(input.schema)[y].tag /\ a < b
        BY <2>2
      <3>2. a # b
        BY <3>1
      <3>3. LoadDescriptor(desc, next).tag = a /\ cur.tag = b
        BY <1>8, <1>10, <2>1, <3>1 DEF Line
      <3>4. QED
        BY <3>2, <3>3
    <2>4. ~found
      BY <2>3 DEF Matches
    <2>5. stage' = "search"
      BY <1>1, <1>9, <2>4
    <2>6. it'.index = c + 1 /\ At(it', input.schema, c + 1)
      BY <1>1, <1>8
    <2>7. it'.index \in 0 .. (k - 1) /\ cur'.start \in 0 .. it'.index
      <3>1. c + 1 \in 0 .. (k - 1) /\ s \in 0 .. (c + 1)
        BY <1>6, <1>7, <1>12
      <3>2. QED
        BY <1>1, <1>7, <2>6, <3>1
    <2>8. At(it', input'.schema, it'.index)
      BY <1>1, <2>6, Zenon
    <2>9. Searching'
      <3>1. AllFit(input') /\ k \in 0 .. (Lines(input') - 1) /\ Upon(input', left', lost', dest', seen', cur', k)
        BY <1>1, <1>3, <1>4, <1>5
      <3>2. QED
        BY <2>7, <2>8, <3>1, Zenon DEF Searching
    <2>10. QED
      BY <2>5, <2>9 DEF Journey
  <1>13. QED
    BY <1>11, <1>12

LEMMA RequiredIndex ==
  ASSUME NEW m \in Outgoing, NEW k \in 0 .. (Lines(m) - 1), Line(m, k + 1).htype = "REQUIRED"
  PROVE  Cardinality(RequiredBefore(Fields(m.schema), k)) < PB_MAX_REQUIRED_FIELDS
  <1>1. PICK n \in Nat : n = Lines(m) /\ n = Len(Fields(m.schema))
    BY LineOf DEF Lines
  <1>2. PICK c \in Nat : c = Cardinality(RequiredBefore(Fields(m.schema), k))
    BY RequiredCount
  <1>3. Cardinality(RequiredBefore(Fields(m.schema), k + 1)) = c + 1
    BY <1>1, <1>2, RequiredCount DEF Line
  <1>4. RequiredBefore(Fields(m.schema), k + 1) \subseteq RequiredBefore(Fields(m.schema), n)
    BY <1>1 DEF RequiredBefore
  <1>5. PICK a \in Nat : a = Cardinality(RequiredBefore(Fields(m.schema), n))
    BY RequiredCount
  <1>6. c + 1 <= a
    <2>1. IsFiniteSet(RequiredBefore(Fields(m.schema), n))
      BY RequiredCount
    <2>2. Cardinality(RequiredBefore(Fields(m.schema), k + 1)) <= Cardinality(RequiredBefore(Fields(m.schema), n))
      BY <1>4, <2>1, FS_Subset
    <2>3. QED
      BY <1>3, <1>5, <2>2
  <1>7. a <= 64
    <2>1. Bind(Fields(m.schema), Width(m.schema)).required_field_count <= PB_MAX_REQUIRED_FIELDS
      BY LineOf, SchemasAssumption DEF Fields, Width
    <2>2. Bind(Fields(m.schema), Width(m.schema)).required_field_count = a
      BY <1>1, <1>5 DEF Bind, RequiredBefore
    <2>3. QED
      BY <2>1, <2>2 DEF PB_MAX_REQUIRED_FIELDS
  <1>8. QED
    BY <1>2, <1>5, <1>6, <1>7 DEF PB_MAX_REQUIRED_FIELDS

LEMMA RestEmpty ==
  ASSUME NEW m \in Outgoing, NEW k \in 0 .. Lines(m), Len(Rest(m)[k]) = 0
  PROVE  \A i \in (k + 1) .. Lines(m) : Out(m, i)
  <1>1. PICK n \in Nat : n = Lines(m)
    BY LineOf
  <1>2. ASSUME NEW j \in (k + 1) .. n, NextUp(m, k, j) PROVE FALSE
    <2>1. PICK c \in k .. n : c = j - 1 /\ c + 1 = j /\ j \in 1 .. n
      BY <1>2
    <2>2. ~Out(m, j) /\ \A i \in (k + 1) .. c : Out(m, i)
      BY <1>2, <2>1 DEF NextUp
    <2>3. Rest(m)[c] = Rest(m)[k]
      BY <1>1, <2>1, <2>2, SameRest
    <2>4. Rest(m)[c] = TagBytes(Line(m, j)) \o (Inside(m, j) \o Rest(m)[j])
      BY <1>1, <2>1, <2>2, RestAt
    <2>5. Given(Line(m, j), m.values[j])
      BY <1>1, <2>1, LineOf
    <2>6. PICK h \in Bytes, b \in Bytes : h = TagBytes(Line(m, j)) /\ h # <<>> /\ b = Inside(m, j)
      BY <2>2, <2>5, TagOfField, BodyOfField DEF Given, Out, Inside
    <2>7. PICK q \in Bytes : q = Rest(m)[j]
      <3>1. j \in 0 .. n
        BY <2>1
      <3>2. QED
        BY <1>1, <3>1, RestAt
    <2>8. PICK x \in Bytes : x = b \o q
      BY RestOfStream
    <2>9. PICK l \in Nat, y \in Nat : l = Len(h) /\ y = Len(x) /\ Len(h \o x) = l + y
      BY RestOfStream
    <2>10. l # 0
      BY <2>6, <2>9, EmptySeq DEF Bytes
    <2>11. Len(h \o x) = 0
      BY <2>3, <2>4, <2>6, <2>7, <2>8, Zenon
    <2>12. QED
      BY <2>9, <2>10, <2>11
  <1>3. QED
    BY <1>1, <1>2, WhatIsNext

LEMMA DecodeFieldJourney ==
  ASSUME Iterates, Journey, input \in Outgoing, DecodeField
  PROVE  Journey'
  <1> DEFINE d == DecodeStatic(it, cur.wiretype, dest, left)
  <1>1. /\ stage = "field"
        /\ seen' = (IF HTypeOf(it.type) = HType.REQUIRED /\ it.required_field_index < PB_MAX_REQUIRED_FIELDS
                    THEN seen \cup {it.required_field_index} ELSE seen)
        /\ dest' = d.mem /\ left' = d.rest
        /\ stage' = (IF d.ok THEN "tag" ELSE "rejected")
        /\ input' = input /\ it' = it /\ lost' = lost
    BY DEF DecodeField
  <1> HIDE DEF d
  <1>2. Finding /\ OnLine(it, input.schema) /\ input.schema \in DOMAIN Schemas
    BY <1>1 DEF Journey, Iterates
  <1>3. PICK n \in Nat : n = Lines(input)
    BY LineOf
  <1>4. PICK k \in 0 .. (n - 1) : k = it.index
    BY <1>2, <1>3, OnLineParts DEF Lines
  <1>5. AllFit(input) /\ Upon(input, left, lost, dest, seen, cur, k)
    BY <1>2, <1>4 DEF Finding
  <1>6. /\ ~Out(input, k + 1) /\ Upto(input, dest, k) /\ seen = Noted(input, k)
        /\ Cut(left, lost, Inside(input, k + 1) \o Rest(input)[k + 1])
        /\ cur.wiretype = Wire(Line(input, k + 1))
    BY <1>5, Zenon DEF Upon
  <1>7. LineRead(input, k, d, lost) \/ (lost # 0 /\ ~d.ok)
    <2>1. d = DecodeStatic(it, Wire(Line(input, k + 1)), dest, left)
      BY <1>6, Zenon DEF d
    <2>2. QED
      BY <1>2, <1>3, <1>4, <1>5, <1>6, <2>1, LineCut
  <1>8. CASE lost # 0 /\ ~d.ok
    <2>1. stage' = "rejected" /\ lost' # 0
      BY <1>1, <1>8
    <2>2. QED
      BY <2>1 DEF Journey
  <1>9. CASE LineRead(input, k, d, lost)
    <2>1. stage' = "tag" /\ Upto(input, dest', k + 1) /\ Cut(left', lost', Rest(input)[k + 1])
      BY <1>1, <1>9, Zenon DEF LineRead
    <2>2. seen' = Noted(input, k + 1)
      <3>1. it.required_field_index = Cardinality(RequiredBefore(Fields(input.schema), k))
        BY <1>2, <1>4, LineTag
      <3>2. HTypeOf(it.type) = HType.REQUIRED <=> Line(input, k + 1).htype = "REQUIRED"
        <4>1. HTypeOf(it.type) = HType.REQUIRED <=> Fields(input.schema)[it.index + 1].htype = "REQUIRED"
          BY <1>2, LineTag
        <4>2. it.index + 1 = k + 1
          BY <1>4
        <4>3. QED
          BY <4>1, <4>2, Zenon DEF Line
      <3>3. Line(input, k + 1).htype = "REQUIRED" => it.required_field_index < PB_MAX_REQUIRED_FIELDS
        BY <1>3, <3>1, RequiredIndex
      <3>4. Noted(input, k + 1) = IF Line(input, k + 1).htype = "REQUIRED"
                           THEN Noted(input, k) \cup {Cardinality(RequiredBefore(Fields(input.schema), k))}
                           ELSE Noted(input, k)
        <4>1. k \in Nat
          OBVIOUS
        <4>2. QED
          BY <4>1, OneNoted, Zenon
      <3>5. QED
        BY <1>1, <1>6, <3>1, <3>2, <3>3, <3>4, Zenon
    <2>3. k + 1 \in 0 .. Lines(input) /\ it'.index <= k + 1
      BY <1>1, <1>3, <1>4
    <2>4. Between(input, left', lost', dest', seen', it', k + 1)
      BY <2>1, <2>2, <2>3, Zenon DEF Between
    <2>5. Reading'
      BY <1>1, <1>5, <2>3, <2>4, Zenon DEF Reading
    <2>6. QED
      BY <2>1, <2>5 DEF Journey
  <1>10. QED
    BY <1>7, <1>8, <1>9

LEMMA FinishJourney ==
  ASSUME Iterates, Journey, input \in Outgoing, Finish
  PROVE  Journey'
  <1>1. /\ stage = "tag" /\ left = <<>> /\ stage' = (IF RequiredSeen THEN "accepted" ELSE "rejected")
        /\ input' = input /\ lost' = lost /\ dest' = dest
    BY DEF Finish
  <1>2. AllFit(input) /\ \E k \in 0 .. Lines(input) : Between(input, left, lost, dest, seen, it, k)
    BY <1>1 DEF Journey, Reading
  <1>3. PICK n \in Nat : n = Lines(input) /\ n = Len(Fields(input.schema))
    BY LineOf DEF Lines
  <1>4. PICK k \in 0 .. n : /\ Cut(left, lost, Rest(input)[k])
                            /\ Upto(input, dest, k) /\ seen = Noted(input, k)
    BY <1>2, <1>3 DEF Between
  <1>5. Len(Rest(input)[k]) = lost
    BY <1>1, <1>4, CutEnds
  <1>6. RequiredSeen <=> Noted(input, k) = Noted(input, n)
    <2>1. input.schema \in DOMAIN Schemas
      BY LineOf
    <2>2. desc = Bind(Fields(input.schema), Width(input.schema))
      BY <2>1, SchemaParts DEF desc
    <2>3. desc.required_field_count = Cardinality(RequiredBefore(Fields(input.schema), n))
      BY <1>3, <2>2 DEF Bind, RequiredBefore
    <2>4. QED
      BY <1>4, <2>3 DEF RequiredSeen, Noted
  <1>7. CASE RequiredSeen
    <2>1. stage' = "accepted"
      BY <1>1, <1>7
    <2>2. Accepts(input, lost', dest', k)
      BY <1>1, <1>3, <1>4, <1>5, <1>6, <1>7, Zenon DEF Accepts
    <2>3. Accepted'
      BY <1>1, <1>2, <1>3, <2>2, Zenon DEF Accepted
    <2>4. QED
      BY <2>1, <2>3 DEF Journey
  <1>8. CASE ~RequiredSeen
    <2>1. stage' = "rejected"
      BY <1>1, <1>8
    <2>2. ASSUME lost = 0 PROVE FALSE
      <3>1. \A i \in (k + 1) .. n : Out(input, i)
        BY <1>3, <1>5, <2>2, RestEmpty
      <3>2. n \in k .. n
        OBVIOUS
      <3>3. Noted(input, n) = Noted(input, k)
        BY <1>3, <3>1, <3>2, SkipsLeftOut
      <3>4. QED
        BY <1>6, <1>8, <3>3
    <2>3. QED
      BY <1>1, <2>1, <2>2 DEF Journey
  <1>9. QED
    BY <1>7, <1>8

LEMMA JourneysNext == Iterates /\ Journeys /\ [Next]_vars => Journeys'
  <1> SUFFICES ASSUME Iterates, Journeys, [Next]_vars PROVE Journeys'
    OBVIOUS
  <1>1. CASE input \notin Outgoing
    BY <1>1, StillForeign
  <1>2. CASE input \in Outgoing
    <2>1. Journey
      BY <1>2 DEF Journeys
    <2>2. input' = input
      BY DEF Next, vars, EncodeField, Deliver, SetDefault, ReadTag, Search, Skip, DecodeField, Finish, Done
    <2>3. Journey'
      <3>1. CASE Skip
        BY <2>1, <3>1 DEF Skip, Journey
      <3>2. CASE UNCHANGED vars
        BY <2>1, <3>2 DEF vars, Journey, Writing, Written, Clearing, Reading, Searching, Finding, Accepted, Begun, Garbage
      <3>3. Done => UNCHANGED vars
        BY DEF Done
      <3>4. QED
        BY <1>2, <2>1, <3>1, <3>2, <3>3, EncodeFieldJourney, DeliverJourney, SetDefaultJourney, ReadTagJourney,
           SearchJourney, DecodeFieldJourney, FinishJourney DEF Next
    <2>4. QED
      BY <1>2, <2>2, <2>3 DEF Journeys
  <1>3. QED
    BY <1>1, <1>2

-----------------------------------------------------------------------------
(* What comes out.                                                         *)

LEMMA ContentsKept ==
  ASSUME input \in Outgoing, AllFit(input), Upto(input, dest, Lines(input))
  PROVE  Contents(dest) = input.values
  <1> DEFINE fs == Fields(input.schema)
             vs == input.values
             many(i) == IF PrefixSize(list[i]) > 0 THEN Num(dest[place[i].prefix]) ELSE 1
             row(i) == [k \in 1 .. many(i) |-> dest[place[i].at + (k - 1) * list[i].size]]
  <1>1. PICK n \in Nat : n = Lines(input) /\ n = Len(fs)
    BY LineOf DEF Lines
  <1>2. list = fs /\ place = Layouts[input.schema] /\ input.schema \in DOMAIN Schemas
    BY LineOf DEF list, place, Fields
  <1>3. DOMAIN fs = 1 .. n
    BY <1>1, <1>2, SchemaParts
  <1>4. vs = [i \in 1 .. n |-> vs[i]]
    <2>1. vs = [i \in DOMAIN Schemas[input.schema].list |-> vs[i]]
      BY OutgoingAssumption
    <2>2. Schemas[input.schema].list = fs
      BY DEF Fields
    <2>3. QED
      BY <1>3, <2>1, <2>2, Zenon
  <1>5. ASSUME NEW i \in 1 .. n PROVE row(i) = vs[i]
    <2>1. PICK f, pl, v : f = Line(input, i) /\ pl = Spot(input, i) /\ v = vs[i]
      OBVIOUS
    <2>2. Given(f, v) /\ Fitting(f, v)
      BY <1>1, <2>1, LineOf DEF AllFit
    <2>3. Keeps(dest, f, pl, v)
      BY <1>1, <2>1, Zenon DEF Upto, Held
    <2>4. f \in FieldLine /\ v \in Seq(Values(f))
      BY <2>2 DEF Given
    <2>5. PICK l \in 0 .. (2 ^ 16 - 1) : l = Len(v) /\ l <= f.count
      BY <2>2, GivenCount
    <2>6. list[i] = f /\ place[i] = pl
      BY <1>2, <2>1 DEF Line, Spot, Slot
    <2>7. many(i) = l
      <3>1. CASE PrefixSize(f) = 0
        <4>1. f.htype \in {"REQUIRED", "SINGULAR"}
          BY <2>4, <3>1 DEF PrefixSize, FieldLine, HType
        <4>2. l = 1
          BY <2>2, <2>5, <4>1, GivenCount
        <4>3. ~(PrefixSize(f) > 0)
          BY <3>1
        <4>4. QED
          BY <2>6, <4>2, <4>3
      <3>2. CASE PrefixSize(f) # 0
        <4>1. dest[pl.prefix] = Bits(l)
          BY <2>3, <2>5, <3>2 DEF Keeps
        <4>2. l \in 0 .. (2 ^ 20)
          BY <2>5
        <4>3. Num(Bits(l)) = l
          BY <4>2, LengthBits
        <4>4. PrefixSize(f) > 0
          BY <3>2 DEF PrefixSize
        <4>5. QED
          BY <2>6, <4>1, <4>3, <4>4
      <3>3. QED
        BY <3>1, <3>2
    <2>8. \A k \in 1 .. l : dest[pl.at + (k - 1) * f.size] = v[k]
      <3>1. \A k \in 1 .. l : k <= f.count
        BY <2>5, <2>4, LineParts
      <3>2. QED
        BY <2>3, <2>5, <3>1, Zenon DEF Keeps
    <2>9. row(i) = [k \in 1 .. l |-> dest[pl.at + (k - 1) * f.size]]
      BY <2>6, <2>7, Zenon
    <2>10. [k \in 1 .. l |-> dest[pl.at + (k - 1) * f.size]] = [k \in 1 .. l |-> v[k]]
      BY <2>8, Zenon
    <2>11. [k \in 1 .. l |-> v[k]] = v
      BY <2>4, <2>5
    <2>12. QED
      BY <2>1, <2>9, <2>10, <2>11, Zenon
  <1>6. Contents(dest) = [i \in 1 .. n |-> row(i)]
    BY <1>2, <1>3, Zenon DEF Contents
  <1>7. [i \in 1 .. n |-> row(i)] = [i \in 1 .. n |-> vs[i]]
    <2> HIDE DEF row, vs
    <2> QED
      BY <1>5, Zenon
  <1>8. QED
    BY <1>4, <1>6, <1>7, Zenon

LEMMA JourneysRoundTrip == Iterates /\ Journeys => RoundTrip
  <1> SUFFICES ASSUME Journeys, input \in Outgoing, lost = 0, stage \in {"accepted", "rejected"}
               PROVE  stage = "accepted" /\ Contents(dest) = input.values
    BY DEF RoundTrip, Encoded
  <1>1. Journey
    BY DEF Journeys
  <1>2. stage = "accepted"
    BY <1>1 DEF Journey
  <1>3. AllFit(input) /\ \E k \in 0 .. Lines(input) : Accepts(input, lost, dest, k)
    BY <1>1, <1>2 DEF Journey, Accepted
  <1>4. PICK k \in 0 .. Lines(input) : Upto(input, dest, k) /\ Len(Rest(input)[k]) = 0
    BY <1>3 DEF Accepts
  <1>5. \A i \in (k + 1) .. Lines(input) : Out(input, i)
    BY <1>4, RestEmpty
  <1>6. Lines(input) \in k .. Lines(input)
    BY LineOf
  <1>7. Upto(input, dest, Lines(input))
    BY <1>4, <1>5, <1>6, SkipsLeftOut
  <1>8. QED
    BY <1>2, <1>3, <1>7, ContentsKept

LEMMA JourneysCutShort == Iterates /\ Journeys => CutShortRefused
  <1> SUFFICES ASSUME Iterates, Journeys, lost > 0, AllRequired, stage = "accepted" PROVE FALSE
    BY DEF CutShortRefused
  <1>1. input \in Outgoing /\ Journey
    <2>1. lost # 0
      OBVIOUS
    <2>2. QED
      BY <2>1 DEF Journeys
  <1>2. PICK n \in Nat : n = Lines(input) /\ n = Len(Fields(input.schema))
    BY <1>1, LineOf DEF Lines
  <1>3. PICK k \in 0 .. n : Noted(input, k) = Noted(input, n) /\ Len(Rest(input)[k]) = lost
    BY <1>1, <1>2 DEF Journey, Accepted, Accepts
  <1>4. \A i \in 1 .. n : Fields(input.schema)[i].htype = "REQUIRED"
    <2>1. list = Fields(input.schema) /\ DOMAIN Fields(input.schema) = 1 .. n
      BY <1>1, <1>2, LineOf, SchemaParts DEF list, Fields
    <2>2. QED
      BY <2>1 DEF AllRequired
  <1>5. ASSUME NEW c \in 0 .. n PROVE Noted(input, c) = 0 .. (c - 1)
    <2>1. RequiredBefore(Fields(input.schema), c) = 1 .. c
      BY <1>4 DEF RequiredBefore
    <2>2. Cardinality(1 .. c) = c
      BY FS_Interval
    <2>3. QED
      BY <2>1, <2>2 DEF Noted
  <1>6. 0 .. (k - 1) = 0 .. (n - 1)
    <2>1. n \in 0 .. n
      OBVIOUS
    <2>2. QED
      BY <1>3, <1>5, <2>1
  <1>7. k = n
    <2>1. n - 1 \in 0 .. (n - 1) \/ n = 0
      OBVIOUS
    <2>2. n - 1 \in 0 .. (k - 1) \/ n = 0
      BY <1>6, <2>1
    <2>3. QED
      BY <2>2
  <1>8. Rest(input)[n] = <<>>
    BY <1>1, <1>2, RestAt
  <1>9. Len(<<>>) = 0
    OBVIOUS
  <1>10. lost = 0
    BY <1>3, <1>7, <1>8, <1>9
  <1>11. QED
    BY <1>10

\* A struct that pb_encode wrote completely and that arrived completely is
\* accepted by pb_decode and read back with the values it was given, for every
\* field list that compiles and every message it has.
THEOREM RoundTripSafe == Spec => []RoundTrip
  <1>1. Init => Iterates /\ Journeys
    BY IteratesInit, JourneysInit
  <1>2. Iterates /\ Journeys /\ [Next]_vars => (Iterates /\ Journeys)'
    BY IteratesNext, JourneysNext
  <1>3. Iterates /\ Journeys => RoundTrip
    BY JourneysRoundTrip
  <1>4. QED
    BY <1>1, <1>2, <1>3, PTL DEF Spec

\* A message whose fields are all required and that was cut short anywhere is
\* refused by pb_decode.
THEOREM CutShortNeverAccepted == Spec => []CutShortRefused
  <1>1. Init => Iterates /\ Journeys
    BY IteratesInit, JourneysInit
  <1>2. Iterates /\ Journeys /\ [Next]_vars => (Iterates /\ Journeys)'
    BY IteratesNext, JourneysNext
  <1>3. Iterates /\ Journeys => CutShortRefused
    BY JourneysCutShort
  <1>4. QED
    BY <1>1, <1>2, <1>3, PTL DEF Spec

-----------------------------------------------------------------------------
(* The decoder on any bytes.                                               *)

\* What a decoder returns: whether it succeeded, and bytes.
Shrinks(d) == d.ok \in BOOLEAN /\ d.rest \in Bytes

LEMMA Pieces ==
  ASSUME NEW s \in Bytes, NEW n \in Nat
  PROVE  /\ Len(s) \in Nat
         /\ SubSeq(s, n + 1, Len(s)) \in Bytes
         /\ n <= Len(s) => /\ SubSeq(s, 1, n) \in Bytes
                           /\ \A i \in 1 .. n : SubSeq(s, 1, n)[i] \in Byte
  <1>1. s \in Seq(Byte) /\ Len(s) \in Nat
    BY LenProperties DEF Bytes
  <1>2. \A i \in 1 .. Len(s) : s[i] \in Byte
    BY <1>1, ElementOfSeq
  <1>3. SubSeq(s, n + 1, Len(s)) \in Seq(Byte)
    BY <1>1, <1>2, SubSeqProperties
  <1>4. ASSUME n <= Len(s) PROVE SubSeq(s, 1, n) \in Seq(Byte) /\ \A i \in 1 .. n : SubSeq(s, 1, n)[i] \in Byte
    <2>1. SubSeq(s, 1, n) \in Seq(Byte) /\ Len(SubSeq(s, 1, n)) = n
      BY <1>1, <1>2, <1>4, SubSeqProperties
    <2>2. QED
      BY <2>1, ElementOfSeq
  <1>5. QED
    BY <1>1, <1>3, <1>4 DEF Bytes

LEMMA LengthNumber ==
  ASSUME NEW s \in Bytes
  PROVE  VarintLength(s) \in Nat /\ VarintLength(s) <= Len(s)
  <1> DEFINE ends == {n \in 1 .. Len(s) : 7 \notin s[n]}
  <1>1. Len(s) \in Nat
    BY DEF Bytes
  <1>2. CASE ends = {}
    BY <1>1, <1>2 DEF VarintLength
  <1>3. CASE ends # {}
    <2>1. PICK n \in ends : \A m \in ends : n <= m
      <3>1. ends \in SUBSET Nat
        BY <1>1
      <3> HIDE DEF ends
      <3>2. QED
        BY <1>3, <3>1, LeastNumber
    <2>2. Min(ends) = n
      <3>1. ends \in SUBSET Int
        BY <1>1
      <3> HIDE DEF ends
      <3>2. QED
        BY <2>1, <3>1, MinIs
    <2>3. VarintLength(s) = n
      BY <1>3, <2>2 DEF VarintLength
    <2>4. QED
      BY <1>1, <2>1, <2>3
  <1>4. QED
    BY <1>2, <1>3

LEMMA MalformedShrinks == Malformed.ok = FALSE /\ Malformed.v = {} /\ Malformed.rest = <<>> /\ Malformed.rest \in Bytes
  BY DEF Malformed, Bytes

LEMMA VarintShrinks ==
  ASSUME NEW s \in Bytes
  PROVE  /\ Shrinks(DecodeVarint32(s)) /\ Shrinks(DecodeVarint(s)) /\ Shrinks(DecodeSvarint(s))
         /\ Shrinks(SkipVarint(s))
  <1>1. PICK n \in Nat : n = VarintLength(s)
    BY LengthNumber
  <1>2. SubSeq(s, n + 1, Len(s)) \in Bytes
    BY Pieces
  <1>3. \A v : Shrinks(Decoded(v, SubSeq(s, n + 1, Len(s))))
    BY <1>2 DEF Decoded, Shrinks
  <1>4. Shrinks(Malformed)
    BY MalformedShrinks DEF Shrinks
  <1>5. Shrinks(DecodeVarint32(s))
    BY <1>1, <1>3, <1>4 DEF DecodeVarint32
  <1>6. Shrinks(DecodeVarint(s))
    BY <1>1, <1>3, <1>4 DEF DecodeVarint
  <1>7. Shrinks(SkipVarint(s))
    BY <1>1, <1>3, <1>4 DEF SkipVarint
  <1>8. \A v : [DecodeVarint(s) EXCEPT !.v = v].ok = DecodeVarint(s).ok
               /\ [DecodeVarint(s) EXCEPT !.v = v].rest = DecodeVarint(s).rest
    <2>1. DecodeVarint(s) = Malformed \/ \E v : DecodeVarint(s) = Decoded(v, SubSeq(s, n + 1, Len(s)))
      BY <1>1 DEF DecodeVarint
    <2>2. QED
      BY <2>1 DEF Malformed, Decoded
  <1>9. Shrinks(DecodeSvarint(s))
    BY <1>6, <1>8 DEF DecodeSvarint, Shrinks
  <1>10. QED
    BY <1>5, <1>6, <1>7, <1>9

LEMMA ReadShrinks ==
  ASSUME NEW s \in Bytes, NEW n \in Nat
  PROVE  /\ Shrinks(Read(s, n))
         /\ Read(s, n).ok => Read(s, n).v \in Bytes /\ \A i \in 1 .. n : Read(s, n).v[i] \in Byte
  <1>1. CASE Len(s) < n
    BY <1>1, MalformedShrinks DEF Read, Shrinks
  <1>2. CASE ~(Len(s) < n)
    <2>1. /\ SubSeq(s, n + 1, Len(s)) \in Bytes /\ SubSeq(s, 1, n) \in Bytes
          /\ \A i \in 1 .. n : SubSeq(s, 1, n)[i] \in Byte
      <3>1. n <= Len(s)
        BY <1>2, Pieces
      <3>2. QED
        BY <3>1, Pieces
    <2>2. Read(s, n) = [ok |-> TRUE, v |-> SubSeq(s, 1, n), rest |-> SubSeq(s, n + 1, Len(s))]
      BY <1>2 DEF Read, Decoded
    <2>3. QED
      BY <2>1, <2>2 DEF Shrinks
  <1>3. QED
    BY <1>1, <1>2

LEMMA FixedShrinks ==
  ASSUME NEW s \in Bytes, NEW z \in {1, 2, 4, 8}
  PROVE  /\ Shrinks(DecodeFixed(s, z))
         /\ DecodeFixed(s, z).ok => DecodeFixed(s, z).v \in SUBSET (0 .. (8 * z - 1))
  <1> DEFINE d == Read(s, z)
             v == UNION {Shl(d.v[i], 8 * (i - 1)) : i \in 1 .. z}
  <1>1. Shrinks(d) /\ (d.ok => \A i \in 1 .. z : d.v[i] \in Byte)
    BY ReadShrinks
  <1>2. CASE ~d.ok
    BY <1>1, <1>2 DEF DecodeFixed
  <1>3. CASE d.ok
    <2>1. ASSUME NEW x \in v PROVE x \in 0 .. (8 * z - 1)
      <3>1. PICK i \in 1 .. z : x \in Shl(d.v[i], 8 * (i - 1))
        OBVIOUS
      <3>2. PICK j \in d.v[i] : x = j + 8 * (i - 1)
        BY <3>1 DEF Shl
      <3>3. j \in 0 .. 7
        BY <1>1, <1>3 DEF Byte
      <3>4. QED
        BY <3>2, <3>3
    <2>2. DecodeFixed(s, z) = [d EXCEPT !.v = v]
      BY <1>3 DEF DecodeFixed
    <2>3. \E w, r : d = [ok |-> TRUE, v |-> w, rest |-> r]
      BY <1>3 DEF Read, Decoded, Malformed
    <2> HIDE DEF v, d
    <2>4. [d EXCEPT !.v = v].v = v /\ [d EXCEPT !.v = v].ok = d.ok /\ [d EXCEPT !.v = v].rest = d.rest
      BY <2>3
    <2>5. v \in SUBSET (0 .. (8 * z - 1))
      BY <2>1
    <2>6. QED
      BY <1>1, <2>2, <2>4, <2>5, Zenon DEF Shrinks
  <1>4. QED
    BY <1>2, <1>3

LEMMA TagShrinks ==
  ASSUME NEW s \in Bytes
  PROVE  Shrinks(DecodeTag(s))
  BY VarintShrinks DEF DecodeTag, Shrinks

LEMMA SkipShrinks ==
  ASSUME NEW s \in Bytes, NEW wt
  PROVE  Shrinks(SkipField(s, wt))
  <1>1. Shrinks(SkipVarint(s)) /\ Shrinks(Read(s, 8)) /\ Shrinks(Read(s, 4)) /\ Shrinks(Malformed)
    BY VarintShrinks, ReadShrinks, MalformedShrinks DEF Shrinks
  <1>2. Shrinks(SkipString(s))
    <2>1. PICK d : d = DecodeVarint32(s) /\ Shrinks(d)
      BY VarintShrinks
    <2>2. Num(d.v) \in Nat
      BY NumNat
    <2>3. Shrinks(Read(d.rest, Num(d.v)))
      BY <2>1, <2>2, ReadShrinks DEF Shrinks
    <2>4. SkipString(s) = IF ~d.ok \/ 31 \in d.v THEN Malformed ELSE Read(d.rest, Num(d.v))
      BY <2>1 DEF SkipString
    <2>5. QED
      BY <1>1, <2>3, <2>4
  <1>3. SkipField(s, wt) \in {SkipVarint(s), Read(s, 8), SkipString(s), Read(s, 4), Malformed}
    BY DEF SkipField
  <1>4. QED
    BY <1>1, <1>2, <1>3

\* decode_basic_field stores nothing that is too large for its field.
Sound(d, f) ==
  /\ Shrinks(d) /\ d.read \in BOOLEAN /\ (d.ok => d.read)
  /\ d.read => d.v \in SUBSET (0 .. (8 * f.size - 1))

LEMMA CheckedSound ==
  ASSUME NEW f, NEW d, Shrinks(d), NEW v, d.ok => v \in SUBSET (0 .. (8 * f.size - 1)), NEW fits \in BOOLEAN
  PROVE  Sound(Checked(d, v, fits), f)
  BY DEF Sound, Checked, Shrinks

LEMMA BasicSound ==
  ASSUME NEW p, NEW f, On(p, f), NEW wt, NEW s \in Bytes
  PROVE  Sound(DecodeBasic(p, wt, s), f)
  <1>1. f \in FieldLine /\ LTypeOf(p.type) = LType[LTypeMap[f.ltype]]
    BY DEF On
  <1>2. PICK z \in {1, 2, 4, 8} : z = f.size
    BY <1>1, LineParts
  <1>3. CASE wt \notin {WireTypeOf(LTypeOf(p.type)), 255}
    <2>1. DecodeBasic(p, wt, s) = Checked(Malformed, {}, FALSE)
      BY <1>3 DEF DecodeBasic
    <2>2. Shrinks(Malformed) /\ ~Malformed.ok
      BY MalformedShrinks DEF Shrinks
    <2>3. QED
      BY <2>1, <2>2, CheckedSound
  <1>4. CASE wt \in {WireTypeOf(LTypeOf(p.type)), 255}
    <2> DEFINE t == LType[LTypeMap[f.ltype]]
               bits == 8 * z
               d == IF t = 3 THEN DecodeSvarint(s) ELSE DecodeVarint(s)
               d32 == DecodeVarint32(s)
               fixed == DecodeFixed(s, z)
               svalue == IF t = 3 \/ z = 8 THEN d.v ELSE SignExtend(Low(d.v, 32), 32)
               res == DecodeBasic(p, wt, s)
    <2>1. wt \in {255, WireFor(f)}
      BY <1>1, <1>4 DEF WireFor
    <2>2. Forms(f, s, res)
      BY <2>1, BasicForm
    <2>3. t \in {0, 1, 2, 3, 4, 5}
      BY <1>1, LTypes
    <2>4. /\ t = 0 => res = Checked(d32, IF d32.v = {} THEN {} ELSE {0}, TRUE)
          /\ t = 2 => res = Checked(d, Low(d.v, bits), Low(d.v, bits) = d.v)
          /\ t \in {1, 3} => res = Checked(d, Low(svalue, bits), SignExtend(Low(svalue, bits), bits) = svalue)
          /\ t \in {4, 5} => res = Checked(fixed, fixed.v, TRUE)
      <3> HIDE DEF res
      <3> QED
        BY <1>2, <2>2 DEF Forms
    <2> HIDE DEF res, t
    <2>5. Shrinks(d) /\ Shrinks(d32) /\ Shrinks(fixed)
      BY VarintShrinks, FixedShrinks
    <2>6. \A v : Low(v, bits) \in SUBSET (0 .. (bits - 1))
      BY DEF Low
    <2>7. (IF d32.v = {} THEN {} ELSE {0}) \in SUBSET (0 .. (bits - 1))
      <3> HIDE DEF d32
      <3>1. 0 \in 0 .. (bits - 1)
        OBVIOUS
      <3> HIDE DEF bits
      <3>2. QED
        BY <3>1
    <2>8. fixed.ok => fixed.v \in SUBSET (0 .. (bits - 1))
      BY FixedShrinks
    <2> HIDE DEF d, d32, fixed, svalue
    <2>9. bits = 8 * f.size
      BY <1>2
    <2> HIDE DEF bits
    <2>10. ASSUME t = 0 PROVE Sound(res, f)
      <3>1. res = Checked(d32, IF d32.v = {} THEN {} ELSE {0}, TRUE)
        BY <2>4, <2>10
      <3>2. QED
        BY <2>5, <2>7, <2>9, <3>1, CheckedSound
    <2>11. ASSUME t = 2 PROVE Sound(res, f)
      <3>1. res = Checked(d, Low(d.v, bits), Low(d.v, bits) = d.v)
        BY <2>4, <2>11
      <3>2. QED
        BY <2>5, <2>6, <2>9, <3>1, CheckedSound
    <2>12. ASSUME t \in {1, 3} PROVE Sound(res, f)
      <3>1. res = Checked(d, Low(svalue, bits), SignExtend(Low(svalue, bits), bits) = svalue)
        BY <2>4, <2>12
      <3>2. QED
        BY <2>5, <2>6, <2>9, <3>1, CheckedSound
    <2>13. ASSUME t \in {4, 5} PROVE Sound(res, f)
      <3>1. res = Checked(fixed, fixed.v, TRUE)
        BY <2>4, <2>13
      <3>2. QED
        BY <2>5, <2>8, <2>9, <3>1, CheckedSound
    <2>14. QED
      BY <2>3, <2>10, <2>11, <2>12, <2>13 DEF res
  <1>5. QED
    BY <1>3, <1>4

\* The values of a member have its size, and an array counts no more of them
\* than it has room for.
Sized(mem, f, pl) == \A k \in 0 .. (f.count - 1) : mem[pl.at + k * f.size] \in SUBSET (0 .. (8 * f.size - 1))
Within(mem, f, pl) == f.htype = "REPEATED" => Num(mem[pl.prefix]) <= f.count

\* The struct when something has happened in one member.
Tidy(D, mem, f, pl, m) == m \in Memories(D) /\ Untouched(mem, m, pl) /\ Sized(m, f, pl)
\* Its flag or count is the same, or is v.
SameCount(m, to, f, pl) == PrefixSize(f) # 0 => to[pl.prefix] = m[pl.prefix]
HasCount(to, pl, v) == to[pl.prefix] = v

LEMMA StoreTidy ==
  ASSUME NEW p, NEW f, NEW pl, Slotted(p, f, pl), NEW D, Own(f, pl) \subseteq D,
         NEW mem, NEW m, Tidy(D, mem, f, pl, m),
         NEW k \in 0 .. (f.count - 1), NEW v \in SUBSET (0 .. (8 * f.size - 1)),
         NEW to, to = [m EXCEPT ![PData(p, k)] = v]
  PROVE  Tidy(D, mem, f, pl, to) /\ SameCount(m, to, f, pl)
  <1>1. PICK a \in Own(f, pl) : a = PData(p, k) /\ a = pl.at + k * f.size /\ a \in Nat /\ pl.at <= a
    BY SlotParts
  <1>2. PICK u \in SUBSET Nat : u = v
    <2>1. f \in FieldLine
      BY SlotParts
    <2>2. PICK z \in {1, 2, 4, 8} : z = f.size
      BY <2>1, LineParts
    <2>3. QED
      BY <2>2
  <1>3. PICK x \in Memories(D) : x = m /\ Untouched(mem, x, pl)
    BY DEF Tidy
  <1> DEFINE after == [x EXCEPT ![a] = u]
  <1>4. After(D, mem, pl, x, a, u, after)
    BY <1>3, StoredHere, Zenon
  <1> HIDE DEF after
  <1>5. after = to
    BY <1>1, <1>2, <1>3 DEF after
  <1>6. Sized(after, f, pl)
    <2> SUFFICES ASSUME NEW j \in 0 .. (f.count - 1) PROVE after[pl.at + j * f.size] \in SUBSET (0 .. (8 * f.size - 1))
      BY DEF Sized
    <2>1. CASE pl.at + j * f.size = a
      BY <1>2, <1>4, <2>1 DEF After
    <2>2. CASE pl.at + j * f.size # a
      <3>1. after[pl.at + j * f.size] = m[pl.at + j * f.size]
        BY <1>3, <1>4, <2>2, Zenon DEF After
      <3>2. QED
        BY <3>1 DEF Tidy, Sized
    <2>3. QED
      BY <2>1, <2>2
  <1>7. SameCount(m, after, f, pl)
    <2>1. PrefixSize(f) # 0 => pl.prefix < pl.at /\ pl.prefix \in Nat /\ pl.at \in Nat
      BY SlotParts DEF Slotted
    <2>2. PrefixSize(f) # 0 => pl.prefix # a
      BY <1>1, <2>1
    <2>3. QED
      BY <1>3, <1>4, <2>2, Zenon DEF After, SameCount
  <1>8. QED
    BY <1>4, <1>5, <1>6, <1>7, Zenon DEF After, Tidy

LEMMA PrefixTidy ==
  ASSUME NEW p, NEW f, NEW pl, Slotted(p, f, pl), NEW D, Own(f, pl) \subseteq D,
         NEW mem, NEW m, Tidy(D, mem, f, pl, m), PrefixSize(f) # 0, NEW v \in SUBSET Nat,
         NEW to, to = [m EXCEPT ![PSize(p)] = v]
  PROVE  Tidy(D, mem, f, pl, to) /\ HasCount(to, pl, v)
  <1>1. PICK a \in Own(f, pl) : a = PSize(p) /\ a = pl.prefix /\ a < pl.at
    BY SlotParts
  <1>2. PICK x \in Memories(D) : x = m /\ Untouched(mem, x, pl)
    BY DEF Tidy
  <1> DEFINE after == [x EXCEPT ![a] = v]
  <1>3. After(D, mem, pl, x, a, v, after)
    BY <1>2, StoredHere, Zenon
  <1> HIDE DEF after
  <1>4. after = to
    BY <1>1, <1>2 DEF after
  <1>5. Sized(after, f, pl)
    <2> SUFFICES ASSUME NEW j \in 0 .. (f.count - 1) PROVE after[pl.at + j * f.size] \in SUBSET (0 .. (8 * f.size - 1))
      BY DEF Sized
    <2>1. PICK y \in Nat : y = pl.at + j * f.size /\ pl.at <= y
      BY SlotParts
    <2>2. y # a
      <3>1. pl.at \in Nat /\ pl.prefix \in Nat
        BY DEF Slotted
      <3>2. QED
        BY <1>1, <2>1, <3>1
    <2>3. after[y] = m[y]
      BY <1>2, <1>3, <2>2, Zenon DEF After
    <2>4. QED
      BY <2>1, <2>3 DEF Tidy, Sized
  <1>6. QED
    BY <1>1, <1>3, <1>4, <1>5, Zenon DEF After, Tidy, HasCount

\* pb_field_set_to_default.
LEMMA DefaultTidy ==
  ASSUME NEW p, NEW f, NEW pl, Slotted(p, f, pl), NEW D, Own(f, pl) \subseteq D,
         NEW mem \in Memories(D), Sized(mem, f, pl)
  PROVE  Tidy(D, mem, f, pl, SetToDefault(p, mem)) /\ Within(SetToDefault(p, mem), f, pl)
  <1>1. /\ SetToDefault(p, mem) \in Memories(D)
        /\ Fresh(SetToDefault(p, mem), f, pl)
        /\ Untouched(mem, SetToDefault(p, mem), pl)
    BY DefaultSet
  <1>2. /\ HTypeOf(p.type) = HType.REPEATED <=> f.htype = "REPEATED"
        /\ p.size_offset # 0 <=> PrefixSize(f) # 0
        /\ f.htype = "REPEATED" => PrefixSize(f) # 0
        /\ f \in FieldLine
    BY SlotParts
  <1>3. f.count \in Nat /\ 0 \in 0 .. (f.count - 1) /\ {} \in SUBSET (0 .. (8 * f.size - 1))
    BY <1>2, LineParts
  <1> DEFINE sized == IF p.size_offset # 0 THEN [mem EXCEPT ![PSize(p)] = {}] ELSE mem
  <1>4. Tidy(D, mem, f, pl, mem)
    BY DEF Tidy, Untouched
  <1>5. Tidy(D, mem, f, pl, sized)
    <2>1. PrefixSize(f) # 0 => Tidy(D, mem, f, pl, [mem EXCEPT ![PSize(p)] = {}])
      BY <1>4, PrefixTidy
    <2>2. QED
      BY <1>2, <1>4, <2>1
  <1>6. SetToDefault(p, mem) = IF f.htype = "REPEATED" THEN sized ELSE [sized EXCEPT ![PData(p, 0)] = {}]
    BY <1>2 DEF SetToDefault
  <1> HIDE DEF sized
  <1>7. Tidy(D, mem, f, pl, [sized EXCEPT ![PData(p, 0)] = {}])
    BY <1>3, <1>5, StoreTidy
  <1>8. Within(SetToDefault(p, mem), f, pl)
    <2> SUFFICES ASSUME f.htype = "REPEATED" PROVE Num(SetToDefault(p, mem)[pl.prefix]) <= f.count
      BY DEF Within
    <2>1. Num({}) = 0
      <3>1. 0 \in 0 .. (2 ^ 20)
        OBVIOUS
      <3>2. QED
        BY <3>1, SmallBits, LengthBits
    <2>2. SetToDefault(p, mem)[pl.prefix] = {}
      BY <1>1, <1>2 DEF Fresh
    <2>3. PICK c \in Nat : c = f.count
      BY <1>3
    <2>4. Num(SetToDefault(p, mem)[pl.prefix]) = 0
      BY <2>1, <2>2, Zenon
    <2>5. QED
      BY <2>3, <2>4
  <1>9. QED
    BY <1>5, <1>6, <1>7, <1>8

\* The struct after one item was stored, if it could be read.
LEMMA ItemTidy ==
  ASSUME NEW p, NEW f, NEW pl, Slotted(p, f, pl), NEW D, Own(f, pl) \subseteq D,
         NEW mem, NEW m, Tidy(D, mem, f, pl, m), NEW k \in 0 .. (f.count - 1), NEW d, Sound(d, f)
  PROVE  /\ Stored(p, k, m, d).ok = d.ok /\ Stored(p, k, m, d).rest = d.rest
         /\ Stored(p, k, m, d) \in Steps(D)
         /\ Tidy(D, mem, f, pl, Stored(p, k, m, d).mem)
         /\ SameCount(m, Stored(p, k, m, d).mem, f, pl)
  <1> DEFINE after == IF d.read THEN [m EXCEPT ![PData(p, k)] = d.v] ELSE m
  <1>1. Tidy(D, mem, f, pl, after) /\ SameCount(m, after, f, pl)
    <2>1. CASE d.read
      <3>1. PICK v \in SUBSET (0 .. (8 * f.size - 1)) : v = d.v
        BY <2>1 DEF Sound
      <3>2. PICK x : x = [m EXCEPT ![PData(p, k)] = v]
        OBVIOUS
      <3>3. Tidy(D, mem, f, pl, x) /\ SameCount(m, x, f, pl)
        BY <3>2, StoreTidy, Zenon
      <3>4. after = x
        BY <2>1, <3>1, <3>2
      <3>5. QED
        BY <3>3, <3>4, Zenon
    <2>2. CASE ~d.read
      BY <2>2 DEF SameCount
    <2>3. QED
      BY <2>1, <2>2
  <1>2. Stored(p, k, m, d) = [ok |-> d.ok, rest |-> d.rest, mem |-> after]
    BY DEF Stored
  <1> HIDE DEF after
  <1>3. d.ok \in BOOLEAN /\ d.rest \in Bytes /\ after \in Memories(D)
    BY <1>1, Zenon DEF Sound, Shrinks, Tidy
  <1>4. QED
    BY <1>1, <1>2, <1>3 DEF Steps

\* The array has no more items than its room, at each round of the loop.
LoopTidy(D, mem, f, pl) == {s \in Steps(D) : Tidy(D, mem, f, pl, s.mem) /\ Within(s.mem, f, pl)}

LEMMA RoundTidy ==
  ASSUME NEW p, NEW f, NEW pl, Slotted(p, f, pl), NEW D, Own(f, pl) \subseteq D, f.htype = "REPEATED", f.count < 2 ^ 16,
         NEW mem, NEW s \in LoopTidy(D, mem, f, pl)
  PROVE  OneItem(p, s) \in LoopTidy(D, mem, f, pl)
  <1>1. f \in FieldLine /\ On(p, f) /\ PSize(p) = pl.prefix /\ PrefixSize(f) # 0
    <2>1. f \in FieldLine /\ On(p, f)
      BY SlotParts DEF Slotted
    <2>2. QED
      BY <2>1, LineParts, SlotParts
  <1>2. PICK c \in Nat : c = f.count /\ p.array_size = c /\ c < 2 ^ 16
    BY <1>1, LineParts, SlotParts
  <1>3. PICK n \in Nat : n = Num(s.mem[PSize(p)])
    BY NumNat
  <1>4. s \in Steps(D) /\ s.rest \in Bytes /\ Tidy(D, mem, f, pl, s.mem) /\ Within(s.mem, f, pl)
    BY DEF LoopTidy, Steps
  <1>5. PICK d : d = DecodeBasic(p, 255, s.rest) /\ Sound(d, f)
    BY <1>1, <1>4, BasicSound
  <1>6. PICK one : one = Stored(p, n, s.mem, d)
    OBVIOUS
  <1>7. OneItem(p, s) = IF ~s.ok \/ s.rest = <<>> \/ n >= c THEN s
                        ELSE IF one.ok THEN [one EXCEPT !.mem = [@ EXCEPT ![PSize(p)] = Bits(n + 1)]]
                        ELSE one
    BY <1>2, <1>3, <1>5, <1>6, Zenon DEF OneItem
  <1>8. CASE ~s.ok \/ s.rest = <<>> \/ n >= c
    BY <1>7, <1>8
  <1>9. CASE ~(~s.ok \/ s.rest = <<>> \/ n >= c)
    <2>1. n \in 0 .. (f.count - 1)
      BY <1>2, <1>9
    <2>2. /\ one \in Steps(D) /\ Tidy(D, mem, f, pl, one.mem)
          /\ one.mem[pl.prefix] = s.mem[pl.prefix]
      BY <1>1, <1>4, <1>5, <1>6, <2>1, ItemTidy DEF SameCount
    <2>3. CASE ~one.ok
      <3>1. Within(one.mem, f, pl)
        BY <1>4, <2>2 DEF Within
      <3>2. QED
        BY <1>7, <1>9, <2>2, <2>3, <3>1 DEF LoopTidy
    <2>4. CASE one.ok
      <3>1. PICK v \in SUBSET Nat : v = Bits(n + 1)
        BY BitsStored
      <3>2. PICK after : after = [one.mem EXCEPT ![PSize(p)] = v]
        OBVIOUS
      <3>3. Tidy(D, mem, f, pl, after) /\ HasCount(after, pl, v)
        BY <1>1, <2>2, <3>2, PrefixTidy
      <3>4. Within(after, f, pl)
        <4>1. n + 1 \in 0 .. (2 ^ 20) /\ n + 1 <= c
          BY <1>2, <2>1
        <4>2. Num(v) = n + 1
          BY <3>1, <4>1, LengthBits
        <4>3. QED
          BY <1>2, <3>3, <4>1, <4>2 DEF Within, HasCount
      <3>5. OneItem(p, s) = [one EXCEPT !.mem = after]
        BY <1>7, <1>9, <2>4, <3>1, <3>2, Zenon
      <3>6. after \in Memories(D)
        BY <3>3 DEF Tidy
      <3>7. [one EXCEPT !.mem = after] \in Steps(D) /\ [one EXCEPT !.mem = after].mem = after
        BY <2>2, <3>6 DEF Steps
      <3>8. QED
        BY <3>3, <3>4, <3>5, <3>7 DEF LoopTidy
    <2>5. QED
      BY <2>3, <2>4
  <1>10. QED
    BY <1>8, <1>9

\* What every round of the loop of a packed array keeps holds at its end.
Kept(p, S, mem, q) ==
  /\ [ok |-> TRUE, rest |-> q, mem |-> mem] \in S
  /\ \A s \in S : OneItem(p, s) \in S
Ended(p, S, mem, q) == \E s \in S : PackedItems(p, mem, q) = [s EXCEPT !.ok = @ /\ s.rest = <<>>]

LEMMA LoopEnds ==
  ASSUME NEW p, p.array_size \in Nat, NEW S, NEW mem, NEW q, Kept(p, S, mem, q)
  PROVE  Ended(p, S, mem, q)
  <1> DEFINE c == p.array_size
             a == [ok |-> TRUE, rest |-> q, mem |-> mem]
             F(h) == [k \in 0 .. c |-> IF k = 0 THEN a ELSE OneItem(p, h[k - 1])]
             w == CHOOSE h : h = [k \in 0 .. c |-> IF k = 0 THEN a ELSE OneItem(p, h[k - 1])]
  <1>1. PackedItems(p, mem, q) = [w[c] EXCEPT !.ok = @ /\ w[c].rest = <<>>]
    BY DEF PackedItems, OneItem
  <1>2. c \in Nat /\ a \in S /\ \A s \in S : OneItem(p, s) \in S
    BY DEF Kept
  <1> HIDE DEF a, c
  <1> DEFINE step == [x \in (1 .. c) \X S |-> OneItem(p, x[2])]
  <1>3. step \in [(1 .. c) \X S -> S] /\ \A i \in 1 .. c, e \in S : step[<<i, e>>] = OneItem(p, e)
    BY <1>2
  <1> HIDE DEF step
  <1>4. PICK g \in [0 .. c -> S] : Follows(g, a, step, c)
    BY <1>2, <1>3, Recursion
  <1>5. g = F(g)
    <2>1. ASSUME NEW k \in 0 .. c PROVE g[k] = IF k = 0 THEN a ELSE OneItem(p, g[k - 1])
      <3>1. CASE k = 0
        BY <1>4, <3>1 DEF Follows
      <3>2. CASE k # 0
        <4>1. k \in 1 .. c /\ k - 1 \in 0 .. c
          BY <1>2, <3>2
        <4>2. g[k] = step[<<k, g[k - 1]>>] /\ g[k - 1] \in S
          BY <1>4, <4>1 DEF Follows
        <4>3. QED
          BY <1>3, <3>2, <4>1, <4>2
      <3>3. QED
        BY <3>1, <3>2
    <2>2. QED
      BY <2>1
  <1>6. w = F(w)
    BY <1>5, Zenon
  <1> HIDE DEF w
  <1>7. \A k \in 0 .. c : w[k] = IF k = 0 THEN a ELSE OneItem(p, w[k - 1])
    BY <1>6, Zenon
  <1> DEFINE T == {k \in 0 .. c : w[k] \in S}
  <1>8. 0 \in T
    BY <1>2, <1>7
  <1>9. ASSUME NEW k \in 0 .. (c - 1), k \in T PROVE k + 1 \in T
    <2>1. k + 1 \in 0 .. c /\ k + 1 # 0 /\ (k + 1) - 1 = k
      BY <1>2
    <2>2. w[k + 1] = OneItem(p, w[k])
      BY <1>7, <2>1
    <2>3. QED
      BY <1>2, <1>9, <2>1, <2>2
  <1>10. \A k \in 0 .. c : k \in T
    <2> HIDE DEF T
    <2> QED
      BY <1>2, <1>8, <1>9, Induction
  <1>11. w[c] \in S
    BY <1>2, <1>10
  <1>12. QED
    BY <1>1, <1>11 DEF Ended

\* Whatever the bytes, decoding a field stays in its member.
Careful(D, d, mem, f, pl) ==
  /\ Shrinks(d)
  /\ Tidy(D, mem, f, pl, d.mem)
  /\ d.ok => Within(d.mem, f, pl)

LEMMA PackedTidy ==
  ASSUME NEW p, NEW f, NEW pl, Slotted(p, f, pl), NEW D, Own(f, pl) \subseteq D, f.htype = "REPEATED", f.count < 2 ^ 16,
         NEW mem \in Memories(D), Sized(mem, f, pl), Within(mem, f, pl), NEW s \in Bytes
  PROVE  Careful(D, DecodeArray(p, 2, mem, s), mem, f, pl)
  <1>1. Tidy(D, mem, f, pl, mem)
    BY DEF Tidy, Untouched
  <1>2. PICK size : size = DecodeVarint32(s) /\ Shrinks(size)
    BY VarintShrinks
  <1>3. PICK n \in Nat : n = Num(size.v)
    BY NumNat
  <1>4. PICK sub : sub = IF 31 \in size.v THEN Malformed ELSE Read(size.rest, n)
    OBVIOUS
  <1>5. sub.ok => sub.v \in Bytes /\ sub.rest \in Bytes
    <2>1. ~Malformed.ok
      BY MalformedShrinks
    <2>2. Shrinks(Read(size.rest, n)) /\ (Read(size.rest, n).ok => Read(size.rest, n).v \in Bytes)
      BY <1>2, ReadShrinks DEF Shrinks
    <2>3. QED
      BY <1>4, <2>1, <2>2 DEF Shrinks
  <1>6. DecodeArray(p, 2, mem, s) =
          IF size.ok /\ sub.ok THEN [PackedItems(p, mem, sub.v) EXCEPT !.rest = sub.rest]
          ELSE [ok |-> FALSE, rest |-> s, mem |-> mem]
    BY <1>2, <1>3, <1>4, Zenon DEF DecodeArray
  <1>7. CASE ~(size.ok /\ sub.ok)
    <2>1. PICK d : d = [ok |-> FALSE, rest |-> s, mem |-> mem]
      OBVIOUS
    <2>2. ~d.ok /\ d.ok \in BOOLEAN /\ d.rest \in Bytes /\ d.mem = mem
      BY <2>1
    <2>3. DecodeArray(p, 2, mem, s) = d
      BY <1>6, <1>7, <2>1
    <2>4. QED
      BY <1>1, <2>2, <2>3 DEF Careful, Shrinks
  <1>8. CASE size.ok /\ sub.ok
    <2>1. PICK q \in Bytes, r \in Bytes : q = sub.v /\ r = sub.rest
      BY <1>5, <1>8
    <2>2. PICK t \in LoopTidy(D, mem, f, pl) : PackedItems(p, mem, q) = [t EXCEPT !.ok = @ /\ t.rest = <<>>]
      <3>1. [ok |-> TRUE, rest |-> q, mem |-> mem] \in LoopTidy(D, mem, f, pl)
        BY <1>1 DEF LoopTidy, Steps
      <3>2. p.array_size \in Nat
        BY SlotParts, LineParts
      <3>3. \A e \in LoopTidy(D, mem, f, pl) : OneItem(p, e) \in LoopTidy(D, mem, f, pl)
        BY RoundTidy
      <3>4. Ended(p, LoopTidy(D, mem, f, pl), mem, q)
        <4>1. Kept(p, LoopTidy(D, mem, f, pl), mem, q)
          BY <3>1, <3>3, Zenon DEF Kept
        <4>2. QED
          BY <3>2, <4>1, LoopEnds
      <3>5. QED
        BY <3>4, Zenon DEF Ended
    <2>3. t \in Steps(D) /\ Tidy(D, mem, f, pl, t.mem) /\ Within(t.mem, f, pl)
      BY DEF LoopTidy
    <2> DEFINE t1 == [t EXCEPT !.ok = @ /\ t.rest = <<>>]
               t2 == [t1 EXCEPT !.rest = r]
    <2>4. t1 \in Steps(D) /\ t1.mem = t.mem
      BY <2>3 DEF Steps
    <2> HIDE DEF t1
    <2>5. t2.ok \in BOOLEAN /\ t2.rest \in Bytes /\ t2.mem = t.mem
      BY <2>4 DEF Steps
    <2> HIDE DEF t2
    <2>6. DecodeArray(p, 2, mem, s) = t2
      BY <1>6, <1>8, <2>1, <2>2, Zenon DEF t1, t2
    <2>7. QED
      BY <2>3, <2>5, <2>6 DEF Careful, Shrinks
  <1>9. QED
    BY <1>7, <1>8

LEMMA UnpackedTidy ==
  ASSUME NEW p, NEW f, NEW pl, Slotted(p, f, pl), NEW D, Own(f, pl) \subseteq D, f.htype = "REPEATED", f.count < 2 ^ 16,
         NEW mem \in Memories(D), Sized(mem, f, pl), NEW s \in Bytes, NEW wt, wt # 2
  PROVE  Careful(D, DecodeArray(p, wt, mem, s), mem, f, pl)
  <1>1. Tidy(D, mem, f, pl, mem)
    BY DEF Tidy, Untouched
  <1>2. f \in FieldLine /\ On(p, f) /\ PSize(p) = pl.prefix /\ PrefixSize(f) # 0
    <2>1. f \in FieldLine /\ On(p, f)
      BY SlotParts DEF Slotted
    <2>2. QED
      BY <2>1, LineParts, SlotParts
  <1>3. PICK c \in Nat : c = f.count /\ p.array_size = c /\ c < 2 ^ 16
    BY <1>2, LineParts, SlotParts
  <1>4. PICK n \in Nat : n = Num(mem[PSize(p)])
    BY NumNat
  <1>5. PICK v \in SUBSET Nat : v = Bits(n + 1)
    BY BitsStored
  <1>6. PICK counted : counted = [mem EXCEPT ![PSize(p)] = v]
    OBVIOUS
  <1>7. Tidy(D, mem, f, pl, counted) /\ HasCount(counted, pl, v)
    BY <1>1, <1>2, <1>6, PrefixTidy
  <1>8. PICK d : d = DecodeBasic(p, wt, s) /\ Sound(d, f)
    BY <1>2, BasicSound
  <1>9. DecodeArray(p, wt, mem, s) = IF n >= c THEN [ok |-> FALSE, rest |-> s, mem |-> counted]
                                     ELSE Stored(p, n, counted, d)
    BY <1>3, <1>4, <1>5, <1>6, <1>8, Zenon DEF DecodeArray
  <1>10. CASE n >= c
    <2>1. PICK e : e = [ok |-> FALSE, rest |-> s, mem |-> counted]
      OBVIOUS
    <2>2. ~e.ok /\ e.ok \in BOOLEAN /\ e.rest \in Bytes /\ e.mem = counted
      BY <2>1
    <2>3. DecodeArray(p, wt, mem, s) = e
      BY <1>9, <1>10, <2>1
    <2>4. QED
      BY <1>7, <2>2, <2>3 DEF Careful, Shrinks
  <1>11. CASE ~(n >= c)
    <2>1. n \in 0 .. (f.count - 1)
      BY <1>3, <1>11
    <2>2. PICK e : e = Stored(p, n, counted, d)
      OBVIOUS
    <2>3. e.ok = d.ok /\ e.rest = d.rest /\ Tidy(D, mem, f, pl, e.mem) /\ SameCount(counted, e.mem, f, pl)
      BY <1>7, <1>8, <2>1, <2>2, ItemTidy
    <2>4. Within(e.mem, f, pl)
      <3>1. n + 1 \in 0 .. (2 ^ 20) /\ n + 1 <= c
        BY <1>3, <2>1
      <3>2. Num(v) = n + 1
        BY <1>5, <3>1, LengthBits
      <3>3. e.mem[pl.prefix] = v
        BY <1>2, <1>7, <2>3 DEF SameCount, HasCount
      <3>4. QED
        BY <1>3, <3>1, <3>2, <3>3 DEF Within
    <2>5. Shrinks(e)
      BY <1>8, <2>3 DEF Sound, Shrinks
    <2>6. DecodeArray(p, wt, mem, s) = e
      BY <1>9, <1>11, <2>2
    <2>7. QED
      BY <2>3, <2>4, <2>5, <2>6 DEF Careful
  <1>12. QED
    BY <1>10, <1>11

\* decode_static_field.
LEMMA StaticTidy ==
  ASSUME NEW p, NEW f, NEW pl, Slotted(p, f, pl), NEW D, Own(f, pl) \subseteq D, f.count < 2 ^ 16,
         NEW mem \in Memories(D), Sized(mem, f, pl), Within(mem, f, pl), NEW s \in Bytes, NEW wt
  PROVE  Careful(D, DecodeStatic(p, wt, mem, s), mem, f, pl)
  <1>1. CASE f.htype = "REPEATED"
    <2>1. DecodeStatic(p, wt, mem, s) = DecodeArray(p, wt, mem, s)
      BY <1>1, SlotParts DEF DecodeStatic
    <2>2. Careful(D, DecodeArray(p, wt, mem, s), mem, f, pl)
      <3>1. CASE wt = 2
        BY <1>1, <3>1, PackedTidy
      <3>2. CASE wt # 2
        BY <1>1, <3>2, UnpackedTidy
      <3>3. QED
        BY <3>1, <3>2
    <2>3. QED
      BY <2>1, <2>2
  <1>2. CASE f.htype # "REPEATED"
    <2> DEFINE has == IF HTypeOf(p.type) = HType.OPTIONAL /\ p.size_offset # 0 THEN [mem EXCEPT ![PSize(p)] = {0}] ELSE mem
    <2>1. Tidy(D, mem, f, pl, mem)
      BY DEF Tidy, Untouched
    <2>2. Tidy(D, mem, f, pl, has)
      <3>1. PICK one \in SUBSET Nat : one = {0}
        <4>1. {0} \in SUBSET Nat
          OBVIOUS
        <4>2. QED
          BY <4>1, Zenon
      <3>2. PICK x : x = [mem EXCEPT ![PSize(p)] = one]
        OBVIOUS
      <3>3. PrefixSize(f) # 0 => Tidy(D, mem, f, pl, x)
        BY <2>1, <3>2, PrefixTidy
      <3>4. p.size_offset # 0 <=> PrefixSize(f) # 0
        BY SlotParts
      <3>5. has = x \/ has = mem
        BY <3>1, <3>2
      <3>6. p.size_offset = 0 => has = mem
        OBVIOUS
      <3> HIDE DEF has
      <3>7. QED
        BY <2>1, <3>3, <3>4, <3>5, <3>6
    <2>3. PICK d : d = DecodeBasic(p, wt, s) /\ Sound(d, f)
      BY BasicSound DEF Slotted
    <2>4. DecodeStatic(p, wt, mem, s) = Stored(p, 0, has, d)
      BY <1>2, <2>3, SlotParts DEF DecodeStatic
    <2> HIDE DEF has
    <2>5. PICK e : e = Stored(p, 0, has, d)
      OBVIOUS
    <2>6. 0 \in 0 .. (f.count - 1)
      BY SlotParts
    <2>7. e.ok = d.ok /\ e.rest = d.rest /\ Tidy(D, mem, f, pl, e.mem)
      BY <2>2, <2>3, <2>5, <2>6, ItemTidy
    <2>8. Shrinks(e) /\ Within(e.mem, f, pl)
      BY <1>2, <2>3, <2>7 DEF Sound, Shrinks, Within
    <2>9. QED
      BY <2>4, <2>5, <2>7, <2>8 DEF Careful
  <1>3. QED
    BY <1>1, <1>2

-----------------------------------------------------------------------------
(* The decoder's struct, whatever bytes arrive.                            *)

\* Each member of the struct has its size, and the first k no more items than
\* their room.
Members(n, mem, k) ==
  /\ mem \in Memories(AllOffsets[n])
  /\ \A i \in 1 .. Len(Fields(n)) : Sized(mem, Fields(n)[i], Slot(n, i))
  /\ \A i \in 1 .. k : Within(mem, Fields(n)[i], Slot(n, i))

LEMMA MembersStay ==
  ASSUME NEW n \in DOMAIN Schemas, NEW i \in 1 .. Len(Fields(n)), NEW j \in 1 .. Len(Fields(n)), i # j,
         NEW mem, NEW after, Untouched(mem, after, Slot(n, i))
  PROVE  /\ Sized(mem, Fields(n)[j], Slot(n, j)) => Sized(after, Fields(n)[j], Slot(n, j))
         /\ Within(mem, Fields(n)[j], Slot(n, j)) => Within(after, Fields(n)[j], Slot(n, j))
  <1>1. ASSUME NEW a \in Own(Fields(n)[j], Slot(n, j)) PROVE after[a] = mem[a]
    <2>1. a \in Nat /\ (a < Slot(n, i).prefix \/ a >= Slot(n, i).end)
      BY WhoseOffset
    <2>2. QED
      BY <2>1 DEF Untouched
  <1>2. PICK f, pl : f = Fields(n)[j] /\ pl = Slot(n, j)
    OBVIOUS
  <1>3. after[pl.prefix] = mem[pl.prefix]
    BY <1>1, <1>2 DEF Own
  <1>4. ASSUME NEW k \in 0 .. (f.count - 1) PROVE after[pl.at + k * f.size] = mem[pl.at + k * f.size]
    <2>1. pl.at + k * f.size \in Own(f, pl)
      BY DEF Own
    <2>2. QED
      BY <1>1, <1>2, <2>1
  <1>5. Sized(mem, f, pl) => Sized(after, f, pl)
    BY <1>4 DEF Sized
  <1>6. Within(mem, f, pl) => Within(after, f, pl)
    BY <1>3 DEF Within
  <1>7. QED
    BY <1>2, <1>5, <1>6

\* What happens in the i-th member leaves the others as they were.
LEMMA MembersTidy ==
  ASSUME NEW n \in DOMAIN Schemas, NEW i \in 1 .. Len(Fields(n)), NEW mem, NEW k \in 0 .. Len(Fields(n)), Members(n, mem, k),
         NEW to, Tidy(AllOffsets[n], mem, Fields(n)[i], Slot(n, i), to),
         NEW l \in 0 .. Len(Fields(n)), \A j \in 1 .. l : j # i => j \in 1 .. k,
         i \in 1 .. l => Within(to, Fields(n)[i], Slot(n, i))
  PROVE  Members(n, to, l)
  <1>1. PICK m \in Nat : m = Len(Fields(n))
    BY SchemaParts, LenProperties
  <1>2. to \in Memories(AllOffsets[n]) /\ Untouched(mem, to, Slot(n, i)) /\ Sized(to, Fields(n)[i], Slot(n, i))
    BY Zenon DEF Tidy
  <1>3. ASSUME NEW j \in 1 .. m PROVE Sized(to, Fields(n)[j], Slot(n, j))
    <2>1. Sized(mem, Fields(n)[j], Slot(n, j))
      BY <1>1, <1>3 DEF Members
    <2>2. QED
      BY <1>1, <1>2, <2>1, MembersStay
  <1>4. ASSUME NEW j \in 1 .. l PROVE Within(to, Fields(n)[j], Slot(n, j))
    <2>1. CASE j = i
      BY <1>4, <2>1
    <2>2. CASE j # i
      <3>1. j \in 1 .. k /\ j \in 1 .. m
        BY <1>1, <1>4, <2>2
      <3>2. Within(mem, Fields(n)[j], Slot(n, j))
        BY <3>1 DEF Members
      <3>3. QED
        BY <1>1, <1>2, <2>2, <3>1, <3>2, MembersStay
    <2>3. QED
      BY <2>1, <2>2
  <1>5. QED
    BY <1>1, <1>2, <1>3, <1>4 DEF Members

LEMMA MembersGarbage ==
  ASSUME NEW n \in DOMAIN Schemas
  PROVE  Members(n, [a \in AllOffsets[n] |-> {0}], 0)
  <1>1. PICK mem : mem = [a \in AllOffsets[n] |-> {0}]
    OBVIOUS
  <1>2. mem \in Memories(AllOffsets[n])
    BY <1>1 DEF Memories
  <1>3. ASSUME NEW i \in 1 .. Len(Fields(n)) PROVE Sized(mem, Fields(n)[i], Slot(n, i))
    <2>1. PICK f, pl : f = Fields(n)[i] /\ pl = Slot(n, i)
      OBVIOUS
    <2>2. PICK z \in {1, 2, 4, 8} : z = f.size
      BY <2>1, LineFits, LineParts
    <2>3. ASSUME NEW k \in 0 .. (f.count - 1) PROVE mem[pl.at + k * f.size] \in SUBSET (0 .. (8 * f.size - 1))
      <3>1. pl.at + k * f.size \in AllOffsets[n]
        BY <2>1, OwnOffsets DEF Own
      <3>2. mem[pl.at + k * f.size] = {0}
        BY <1>1, <3>1
      <3>3. 0 \in 0 .. (8 * z - 1)
        OBVIOUS
      <3>4. QED
        BY <2>2, <3>2, <3>3
    <2>4. QED
      BY <2>1, <2>3 DEF Sized
  <1>4. \A i \in 1 .. 0 : FALSE
    OBVIOUS
  <1>5. QED
    BY <1>1, <1>2, <1>3, <1>4 DEF Members

LEMMA MembersDefault ==
  ASSUME NEW n \in DOMAIN Schemas, NEW p, OnLine(p, n), NEW mem, Members(n, mem, p.index)
  PROVE  Members(n, SetToDefault(p, mem), p.index + 1)
  <1>1. PICK m \in Nat : m = Len(Fields(n))
    BY SchemaParts, LenProperties
  <1>2. PICK k \in 0 .. (m - 1) : k = p.index
    BY <1>1, OnLineParts
  <1>3. PICK i \in 1 .. m : i = k + 1
    BY <1>1, <1>2
  <1>4. Slotted(p, Fields(n)[i], Slot(n, i)) /\ Own(Fields(n)[i], Slot(n, i)) \subseteq AllOffsets[n]
    BY <1>1, <1>2, <1>3, OnSlot, OwnOffsets
  <1>5. mem \in Memories(AllOffsets[n]) /\ Sized(mem, Fields(n)[i], Slot(n, i))
    BY <1>1 DEF Members
  <1>6. PICK to : to = SetToDefault(p, mem)
    OBVIOUS
  <1>7. Tidy(AllOffsets[n], mem, Fields(n)[i], Slot(n, i), to) /\ Within(to, Fields(n)[i], Slot(n, i))
    BY <1>4, <1>5, <1>6, DefaultTidy
  <1>8. k \in 0 .. m /\ k + 1 \in 0 .. m /\ \A j \in 1 .. (k + 1) : j # i => j \in 1 .. k
    BY <1>3
  <1>9. Members(n, to, k + 1)
    BY <1>1, <1>2, <1>7, <1>8, MembersTidy
  <1>10. QED
    BY <1>2, <1>6, <1>9

LEMMA MembersRead ==
  ASSUME NEW n \in DOMAIN Schemas, NEW p, OnLine(p, n), NEW mem, Members(n, mem, Len(Fields(n))),
         NEW s \in Bytes, NEW wt, NEW d, d = DecodeStatic(p, wt, mem, s)
  PROVE  Shrinks(d) /\ Members(n, d.mem, IF d.ok THEN Len(Fields(n)) ELSE 0)
  <1>1. PICK m \in Nat : m = Len(Fields(n))
    BY SchemaParts, LenProperties
  <1>2. PICK i \in 1 .. m : i = p.index + 1
    <2>1. p.index \in 0 .. (m - 1)
      BY <1>1, OnLineParts
    <2>2. QED
      BY <2>1
  <1>3. /\ Slotted(p, Fields(n)[i], Slot(n, i)) /\ Own(Fields(n)[i], Slot(n, i)) \subseteq AllOffsets[n]
        /\ Fields(n)[i].count < 2 ^ 16
    BY <1>1, <1>2, OnSlot, OwnOffsets, LineFits
  <1>4. mem \in Memories(AllOffsets[n]) /\ Sized(mem, Fields(n)[i], Slot(n, i)) /\ Within(mem, Fields(n)[i], Slot(n, i))
    BY <1>1 DEF Members
  <1>5. Careful(AllOffsets[n], d, mem, Fields(n)[i], Slot(n, i))
    BY <1>3, <1>4, StaticTidy
  <1>6. PICK to : to = d.mem
    OBVIOUS
  <1>7. /\ Shrinks(d) /\ Tidy(AllOffsets[n], mem, Fields(n)[i], Slot(n, i), to)
        /\ d.ok => Within(to, Fields(n)[i], Slot(n, i))
    BY <1>5, <1>6 DEF Careful
  <1>8. m \in 0 .. m /\ 0 \in 0 .. m /\ (\A j \in 1 .. m : j # i => j \in 1 .. m)
        /\ i \notin 1 .. 0 /\ (\A j \in 1 .. 0 : j # i => j \in 1 .. m)
    OBVIOUS
  <1>9. ASSUME d.ok PROVE Members(n, to, m)
    BY <1>1, <1>7, <1>8, <1>9, MembersTidy
  <1>10. Members(n, to, 0)
    BY <1>1, <1>7, <1>8, MembersTidy
  <1>11. QED
    BY <1>1, <1>6, <1>7, <1>9, <1>10

-----------------------------------------------------------------------------
(* Type correctness.                                                       *)

\* How many members count no more items than their room: those that were set to
\* their defaults, then all of them until the decoder gives up.
Bounded(st, k, n) ==
  IF st = "defaults" THEN k
  ELSE IF st \in {"tag", "search", "skip", "field", "accepted"} THEN Len(Fields(n)) ELSE 0

Typed ==
  /\ stage \in Over \cup {"encode", "written", "defaults", "tag", "search", "skip", "field"}
  /\ out \in Bytes /\ left \in Bytes
  /\ input \in Outgoing => Len(out) <= input.room
  /\ seen \subseteq 0 .. 63
  /\ Members(input.schema, dest, Bounded(stage, it.index, input.schema))

LEMMA BeginsFirst ==
  ASSUME NEW n \in DOMAIN Schemas
  PROVE  IterBegin(Descs[n]).index = 0
  <1>1. IterBegin(Descs[n]) = Standing(Fields(n), Width(n), 0)
    BY SchemaParts, IterSteps
  <1>2. 0 \in 0 .. (Len(Fields(n)) - 1)
    BY SchemaParts, EmptySeq, LenProperties
  <1>3. Positioned(IterBegin(Descs[n]), Fields(n), Width(n), 0)
    BY <1>1, <1>2, SchemaParts, StandingParts
  <1>4. QED
    BY <1>3 DEF Positioned

LEMMA TypedInit == Init => Typed
  <1> SUFFICES ASSUME Init PROVE Typed
    OBVIOUS
  <1>1. /\ out = <<>> /\ seen = {} /\ it = IterBegin(desc) /\ dest = Garbage
        /\ \/ input \in Outgoing /\ stage = "encode" /\ left = <<>>
           \/ input \in Foreign /\ stage = "defaults" /\ left = RefBytes(input.records)
    BY DEF Init
  <1>2. input.schema \in DOMAIN Schemas
    BY <1>1, OutgoingAssumption, ForeignAssumption
  <1>3. out \in Bytes /\ left \in Bytes
    <2>1. <<>> \in Bytes
      BY DEF Bytes
    <2>2. input \in Foreign => RefBytes(input.records) \in Bytes
      BY ForeignAssumption, Zenon DEF Bytes
    <2>3. QED
      BY <1>1, <2>1, <2>2, Zenon
  <1>4. input \in Outgoing => Len(out) <= input.room
    <2>1. input \in Outgoing => input.room \in 0 .. 2 ^ 30
      BY OutgoingAssumption, Zenon
    <2>2. Len(<<>>) = 0
      OBVIOUS
    <2>3. QED
      BY <1>1, <2>1, <2>2
  <1>5. it.index = 0
    BY <1>1, <1>2, BeginsFirst DEF desc
  <1>6. Members(input.schema, dest, 0)
    BY <1>1, <1>2, MembersGarbage DEF Garbage
  <1>7. Bounded(stage, it.index, input.schema) = 0 /\ stage \in {"encode", "defaults"}
    BY <1>1, <1>5 DEF Bounded
  <1>8. QED
    BY <1>1, <1>3, <1>4, <1>6, <1>7 DEF Typed

LEMMA EncodeFieldTyped ==
  ASSUME Iterates, Journeys, Typed, EncodeField
  PROVE  Typed'
  <1> DEFINE e == EncodeOne(it, src, [out |-> out, room |-> input.room, ok |-> TRUE])
  <1>1. /\ stage = "encode" /\ out' = e.out
        /\ stage' = (IF ~e.ok THEN "refused" ELSE IF it'.index # 0 THEN "encode" ELSE "written")
        /\ input' = input /\ left' = left /\ dest' = dest /\ seen' = seen
    BY DEF EncodeField
  <1>2. input \in Outgoing /\ Writing /\ OnLine(it, input.schema) /\ input.schema \in DOMAIN Schemas
    BY <1>1 DEF Journeys, Journey, Iterates
  <1>3. PICK k \in 0 .. (Lines(input) - 1) : k = it.index
    BY <1>2, OnLineParts DEF Lines
  <1>4. Sofar(input, out, k) /\ src = Struct(input.schema, input.values)
    BY <1>2, <1>3, Zenon DEF Writing
  <1>5. e = EncodeOne(it, Struct(input.schema, input.values), [out |-> out, room |-> input.room, ok |-> TRUE])
    BY <1>4, Zenon DEF e
  <1> HIDE DEF e
  <1>6. e.out \in Bytes /\ Len(e.out) <= input.room
    BY <1>2, <1>3, <1>4, <1>5, WriteMore
  <1>7. stage' \in {"refused", "encode", "written"}
    BY <1>1
  <1>8. Bounded(stage, it.index, input.schema) = 0 /\ Bounded(stage', it'.index, input'.schema) = 0
    BY <1>1, <1>7 DEF Bounded
  <1>9. QED
    BY <1>1, <1>6, <1>7, <1>8 DEF Typed, Over

LEMMA DeliverTyped ==
  ASSUME Iterates, Typed, Deliver
  PROVE  Typed'
  <1>1. /\ stage = "written" /\ stage' = "defaults" /\ lost' \in 0 .. Len(out)
        /\ left' = SubSeq(out, 1, Len(out) - lost') /\ it' = IterBegin(desc)
        /\ input' = input /\ out' = out /\ dest' = dest /\ seen' = seen
    <2>1. (IF input.cuts THEN 0 .. Len(out) ELSE {0}) \subseteq 0 .. Len(out)
      <3>1. Len(out) \in Nat
        BY DEF Typed, Bytes
      <3>2. QED
        BY <3>1
    <2>2. QED
      BY <2>1 DEF Deliver
  <1>2. left' \in Bytes
    <2>1. PICK l \in Nat : l = Len(out)
      BY DEF Typed, Bytes
    <2>2. PICK n \in Nat : n = Len(out) - lost' /\ n <= Len(out)
      BY <1>1, <2>1
    <2>3. SubSeq(out, 1, n) \in Bytes
      BY <2>2, Pieces DEF Typed
    <2>4. QED
      BY <1>1, <2>2, <2>3
  <1>3. it'.index = 0
    BY <1>1, BeginsFirst DEF Iterates, desc
  <1>4. Bounded(stage, it.index, input.schema) = 0 /\ Bounded(stage', it'.index, input'.schema) = 0
    BY <1>1, <1>3 DEF Bounded
  <1>5. QED
    BY <1>1, <1>2, <1>4 DEF Typed

LEMMA SetDefaultTyped ==
  ASSUME Iterates, Typed, SetDefault
  PROVE  Typed'
  <1>1. /\ stage = "defaults" /\ dest' = SetToDefault(it, dest) /\ it' = IterNext(desc, it)
        /\ stage' = (IF it'.index # 0 THEN "defaults" ELSE "tag")
        /\ input' = input /\ out' = out /\ left' = left /\ seen' = seen
    BY DEF SetDefault
  <1>2. OnLine(it, input.schema) /\ input.schema \in DOMAIN Schemas
    BY <1>1 DEF Iterates
  <1>3. PICK m \in Nat : m = Len(Fields(input.schema))
    BY <1>2, SchemaParts, LenProperties
  <1>4. PICK k \in 0 .. (m - 1) : k = it.index
    BY <1>2, <1>3, OnLineParts
  <1>5. Members(input.schema, dest, k)
    BY <1>1, <1>4 DEF Typed, Bounded
  <1>6. Members(input.schema, dest', k + 1)
    BY <1>1, <1>2, <1>4, <1>5, MembersDefault
  <1>7. it'.index = IF k + 1 = m THEN 0 ELSE k + 1
    BY <1>1, <1>2, <1>3, <1>4, NextIndex DEF desc
  <1>8. Bounded(stage', it'.index, input'.schema) = k + 1 /\ stage' \in {"defaults", "tag"}
    <2>1. CASE k + 1 = m
      BY <1>1, <1>3, <1>7, <2>1 DEF Bounded
    <2>2. CASE k + 1 # m
      <3>1. it'.index = k + 1 /\ k + 1 # 0
        BY <1>7, <2>2
      <3>2. QED
        BY <1>1, <3>1 DEF Bounded
    <2>3. QED
      BY <2>1, <2>2
  <1>9. QED
    BY <1>1, <1>6, <1>8 DEF Typed

\* The steps that do not change the decoder's struct.
LEMMA ReadTagTyped ==
  ASSUME Typed, ReadTag
  PROVE  Typed'
  <1> DEFINE d == DecodeTag(left)
             find == FindBegins(d.tag)
  <1>1. /\ stage = "tag"
        /\ left' \in {left, d.rest} /\ stage' \in {"rejected", find.stage}
        /\ input' = input /\ out' = out /\ dest' = dest /\ seen' = seen
    BY DEF ReadTag
  <1>2. left' \in Bytes
    <2>1. Shrinks(d)
      BY TagShrinks DEF Typed
    <2>2. QED
      BY <1>1, <2>1 DEF Shrinks, Typed
  <1>3. find.stage \in {"field", "skip", "search"}
    BY DEF FindBegins
  <1> HIDE DEF find
  <1>4. stage' \in {"rejected", "field", "skip", "search"}
    BY <1>1, <1>3
  <1>5. /\ Bounded(stage, it.index, input.schema) = Len(Fields(input.schema))
        /\ Bounded(stage', it'.index, input'.schema) \in {0, Len(Fields(input.schema))}
    BY <1>1, <1>4 DEF Bounded
  <1>6. Members(input.schema, dest', Bounded(stage', it'.index, input'.schema))
    <2>1. Members(input.schema, dest, Len(Fields(input.schema)))
      BY <1>5 DEF Typed
    <2>2. Members(input.schema, dest, 0)
      <3>1. \A i \in 1 .. 0 : FALSE
        OBVIOUS
      <3>2. QED
        BY <2>1, <3>1 DEF Members
    <2>3. QED
      BY <1>1, <1>5, <2>1, <2>2
  <1>7. QED
    BY <1>1, <1>2, <1>4, <1>6 DEF Typed, Over

LEMMA SkipTyped ==
  ASSUME Typed, Search \/ Skip \/ Finish
  PROVE  Typed'
  <1>1. /\ stage \in {"search", "skip", "tag"}
        /\ left' \in {left, SkipField(left, cur.wiretype).rest}
        /\ stage' \in {"field", "skip", "search", "tag", "accepted", "rejected"}
        /\ input' = input /\ out' = out /\ dest' = dest /\ seen' = seen
    BY DEF Search, Skip, Finish
  <1>2. left' \in Bytes
    <2>1. Shrinks(SkipField(left, cur.wiretype))
      BY SkipShrinks DEF Typed
    <2>2. QED
      BY <1>1, <2>1 DEF Shrinks, Typed
  <1>3. /\ Bounded(stage, it.index, input.schema) = Len(Fields(input.schema))
        /\ Bounded(stage', it'.index, input'.schema) \in {0, Len(Fields(input.schema))}
    BY <1>1 DEF Bounded
  <1>4. Members(input.schema, dest', Bounded(stage', it'.index, input'.schema))
    <2>1. Members(input.schema, dest, Len(Fields(input.schema)))
      BY <1>3 DEF Typed
    <2>2. Members(input.schema, dest, 0)
      <3>1. \A i \in 1 .. 0 : FALSE
        OBVIOUS
      <3>2. QED
        BY <2>1, <3>1 DEF Members
    <2>3. QED
      BY <1>1, <1>3, <2>1, <2>2
  <1>5. QED
    BY <1>1, <1>2, <1>4 DEF Typed, Over

LEMMA DecodeFieldTyped ==
  ASSUME Iterates, Typed, DecodeField
  PROVE  Typed'
  <1> DEFINE d == DecodeStatic(it, cur.wiretype, dest, left)
  <1>1. /\ stage = "field"
        /\ seen' = (IF HTypeOf(it.type) = HType.REQUIRED /\ it.required_field_index < PB_MAX_REQUIRED_FIELDS
                    THEN seen \cup {it.required_field_index} ELSE seen)
        /\ dest' = d.mem /\ left' = d.rest
        /\ stage' = (IF d.ok THEN "tag" ELSE "rejected")
        /\ input' = input /\ out' = out
    BY DEF DecodeField
  <1>2. OnLine(it, input.schema) /\ input.schema \in DOMAIN Schemas
    BY <1>1 DEF Iterates
  <1>3. Members(input.schema, dest, Len(Fields(input.schema))) /\ left \in Bytes
    BY <1>1 DEF Typed, Bounded
  <1>4. Shrinks(d) /\ Members(input.schema, d.mem, IF d.ok THEN Len(Fields(input.schema)) ELSE 0)
    BY <1>2, <1>3, MembersRead
  <1> HIDE DEF d
  <1>5. Bounded(stage', it'.index, input'.schema) = (IF d.ok THEN Len(Fields(input.schema)) ELSE 0)
    BY <1>1 DEF Bounded
  <1>6. seen' \subseteq 0 .. 63
    <2>1. it.required_field_index \in Nat
      BY <1>2, OnLineParts DEF Iterators
    <2>2. it.required_field_index < PB_MAX_REQUIRED_FIELDS => it.required_field_index \in 0 .. 63
      BY <2>1 DEF PB_MAX_REQUIRED_FIELDS
    <2>3. QED
      BY <1>1, <2>2 DEF Typed
  <1>7. left' \in Bytes
    BY <1>1, <1>4 DEF Shrinks
  <1>8. stage' \in {"tag", "rejected"}
    BY <1>1
  <1>9. QED
    BY <1>1, <1>4, <1>5, <1>6, <1>7, <1>8 DEF Typed, Over

LEMMA TypedNext == Iterates /\ Journeys /\ Typed /\ [Next]_vars => Typed'
  <1> SUFFICES ASSUME Iterates, Journeys, Typed, [Next]_vars PROVE Typed'
    OBVIOUS
  <1>1. CASE UNCHANGED vars
    BY <1>1 DEF vars, Typed
  <1>2. Done => UNCHANGED vars
    BY DEF Done
  <1>3. QED
    BY <1>1, <1>2, EncodeFieldTyped, DeliverTyped, SetDefaultTyped, ReadTagTyped, SkipTyped, DecodeFieldTyped DEF Next

LEMMA TypedTypeOK == Iterates /\ Typed => TypeOK
  <1> SUFFICES ASSUME Iterates, Typed PROVE TypeOK
    OBVIOUS
  <1>1. PICK n \in DOMAIN Schemas : n = input.schema
    BY DEF Iterates
  <1>2. PICK m \in Nat : m = Len(Fields(n)) /\ DOMAIN Fields(n) = 1 .. m
    BY SchemaParts, LenProperties
  <1>3. list = Fields(n) /\ place = Layouts[n]
    BY <1>1 DEF list, place, Fields
  <1>4. it.index \in 0 .. Len(list)
    <2>1. ASSUME OnLine(it, n) PROVE it.index \in 0 .. m
      <3>1. it.index \in 0 .. (m - 1)
        BY <1>2, <2>1, OnLineParts
      <3>2. QED
        BY <3>1
    <2>2. ASSUME OnItsWay(it, n) PROVE it.index \in 0 .. m
      <3>1. it.index = m \/ \E k \in 0 .. (m - 1) : it.index = k
        BY <1>2, <2>2 DEF OnItsWay, Positioned
      <3>2. QED
        BY <3>1
    <2>3. QED
      BY <1>1, <1>2, <1>3, <2>1, <2>2 DEF Iterates
  <1>5. (\A i \in DOMAIN out : out[i] \in Byte) /\ \A i \in DOMAIN left : left[i] \in Byte
    BY DEF Typed, Bytes
  <1>6. ASSUME NEW i \in DOMAIN list
        PROVE  /\ \A k \in 0 .. (list[i].count - 1) :
                    dest[place[i].at + k * list[i].size] \subseteq 0 .. (8 * list[i].size - 1)
               /\ list[i].htype = "REPEATED" /\ stage \in {"tag", "search", "skip", "field", "accepted"} =>
                    Num(dest[place[i].prefix]) <= list[i].count
    <2>1. PICK f, pl : f = list[i] /\ pl = place[i]
      OBVIOUS
    <2>2. i \in 1 .. m /\ f = Fields(n)[i] /\ pl = Slot(n, i)
      BY <1>2, <1>3, <2>1 DEF Slot
    <2>3. Members(n, dest, Bounded(stage, it.index, n))
      BY <1>1 DEF Typed
    <2>4. Sized(dest, f, pl)
      BY <1>2, <2>2, <2>3 DEF Members
    <2>5. stage \in {"tag", "search", "skip", "field", "accepted"} => Within(dest, f, pl)
      <3>1. stage \in {"tag", "search", "skip", "field", "accepted"} => Bounded(stage, it.index, n) = m
        BY <1>2 DEF Bounded
      <3>2. QED
        BY <2>2, <2>3, <3>1 DEF Members
    <2>6. \A k \in 0 .. (f.count - 1) : dest[pl.at + k * f.size] \subseteq 0 .. (8 * f.size - 1)
      BY <2>4 DEF Sized
    <2>7. f.htype = "REPEATED" /\ stage \in {"tag", "search", "skip", "field", "accepted"} =>
            Num(dest[pl.prefix]) <= f.count
      BY <2>5 DEF Within
    <2>8. QED
      BY <2>1, <2>6, <2>7
  <1>7. /\ input \in Outgoing \cup Foreign
        /\ stage \in Over \cup {"encode", "written", "defaults", "tag", "search", "skip", "field"}
        /\ seen \subseteq 0 .. 63
    BY DEF Iterates, Typed
  <1>8. QED
    BY <1>4, <1>5, <1>6, <1>7 DEF TypeOK

LEMMA CodecInvariant == Spec => [](Iterates /\ Journeys /\ Typed)
  <1>1. Init => Iterates /\ Journeys /\ Typed
    BY IteratesInit, JourneysInit, TypedInit
  <1>2. Iterates /\ Journeys /\ Typed /\ [Next]_vars => (Iterates /\ Journeys /\ Typed)'
    BY IteratesNext, JourneysNext, TypedNext
  <1>3. QED
    BY <1>1, <1>2, PTL DEF Spec

\* Every variable keeps its type whatever bytes arrive: pb_decode stores in a
\* member only what has the member's size, and goes on only while every array
\* counts no more items than it has room for.
THEOREM CodecTyped == Spec => []TypeOK
  BY CodecInvariant, TypedTypeOK, PTL

\* pb_encode never writes past its buffer, for any message its owner may fill
\* in and a buffer of any size, not even when it gives up half way.
THEOREM EncoderInBuffer == Spec => []InBuffer
  <1>1. Typed => InBuffer
    BY DEF Typed, InBuffer, Encoded
  <1>2. QED
    BY <1>1, CodecInvariant, PTL

\* Outside the member the iterator stands on, the struct of the decoder stays
\* as it is: neither setting a default nor decoding a field, whatever its bytes
\* are, reaches into another member.
OtherMembersStay ==
  \A a \in Nat : a < place[it.index + 1].prefix \/ a >= place[it.index + 1].end => dest'[a] = dest[a]

LEMMA StepsInside == Iterates /\ Typed /\ [Next]_vars => OtherMembersStay
  <1> SUFFICES ASSUME Iterates, Typed, [Next]_vars PROVE OtherMembersStay
    OBVIOUS
  <1>1. CASE stage \notin {"defaults", "field"} \/ UNCHANGED vars
    <2>1. dest' = dest
      BY <1>1 DEF Next, vars, EncodeField, Deliver, SetDefault, ReadTag, Search, Skip, DecodeField, Finish, Done
    <2>2. QED
      BY <2>1 DEF OtherMembersStay
  <1>2. CASE SetDefault \/ DecodeField
    <2>1. PICK n \in DOMAIN Schemas : n = input.schema /\ OnLine(it, n) /\ stage \in {"defaults", "field"}
      BY <1>2 DEF Iterates, SetDefault, DecodeField
    <2>2. PICK m \in Nat : m = Len(Fields(n))
      BY SchemaParts, LenProperties
    <2>3. PICK i \in 1 .. m : i = it.index + 1
      <3>1. it.index \in 0 .. (m - 1)
        BY <2>1, <2>2, OnLineParts
      <3>2. QED
        BY <3>1
    <2>4. PICK D, f, pl : D = AllOffsets[n] /\ f = Fields(n)[i] /\ pl = Slot(n, i) /\ pl = place[i]
      BY <2>1 DEF Slot, place
    <2>5. Slotted(it, f, pl) /\ Own(f, pl) \subseteq D /\ f.count < 2 ^ 16
      BY <2>1, <2>2, <2>3, <2>4, OnSlot, OwnOffsets, LineFits
    <2>6. Members(n, dest, Bounded(stage, it.index, n))
      BY <2>1 DEF Typed
    <2>7. dest \in Memories(D) /\ Sized(dest, f, pl)
      BY <2>2, <2>4, <2>6 DEF Members
    <2>8. Untouched(dest, dest', pl)
      <3>1. CASE SetDefault
        <4>1. dest' = SetToDefault(it, dest)
          BY <3>1 DEF SetDefault
        <4>2. QED
          BY <2>5, <2>7, <4>1, DefaultSet
      <3>2. CASE DecodeField
        <4>1. dest' = DecodeStatic(it, cur.wiretype, dest, left).mem /\ Bounded(stage, it.index, n) = m
          BY <2>2, <3>2 DEF DecodeField, Bounded
        <4>2. Within(dest, f, pl) /\ left \in Bytes
          BY <2>4, <2>6, <4>1 DEF Members, Typed
        <4>3. Careful(D, DecodeStatic(it, cur.wiretype, dest, left), dest, f, pl)
          BY <2>5, <2>7, <4>2, StaticTidy
        <4>4. QED
          BY <4>1, <4>3 DEF Careful, Tidy
      <3>3. QED
        BY <1>2, <3>1, <3>2
    <2>9. QED
      BY <2>3, <2>4, <2>8 DEF OtherMembersStay, Untouched
  <1>3. QED
    BY <1>1, <1>2 DEF Next, EncodeField, Deliver, ReadTag, Search, Skip, Finish, Done

\* Setting a default and decoding a field, of any bytes, write in the member of
\* their own field only.
THEOREM DecoderInside == Spec => [][OtherMembersStay]_vars
  <1>1. Iterates /\ Typed /\ [Next]_vars => [OtherMembersStay]_vars
    BY StepsInside
  <1>2. Spec => [][Next]_vars
    BY PTL DEF Spec
  <1>3. QED
    BY <1>1, <1>2, CodecInvariant, PTL

=============================================================================
