---------------------------- MODULE PbDescriptor ----------------------------
(* How a message type reaches the nanopb runtime: the field list of a .pb.h   *)
(* header is bound to a table of 32-bit words (PB_BIND and the PB_FIELDINFO   *)
(* macros of pb.h), and the field iterator of pb_common.c reads the words     *)
(* back, one field at a time.  Numeric fields with static allocation.         *)
EXTENDS PbWire, SequencesExt

-----------------------------------------------------------------------------
(* The field types of pb.h. *)

LType == [BOOL |-> 0, VARINT |-> 1, UVARINT |-> 2, SVARINT |-> 3, FIXED32 |-> 4, FIXED64 |-> 5]
HType == [REQUIRED |-> 0, OPTIONAL |-> 16, SINGULAR |-> 16, REPEATED |-> 32]
LTypeMap == [BOOL |-> "BOOL", ENUM |-> "VARINT", UENUM |-> "UVARINT",
             INT32 |-> "VARINT", INT64 |-> "VARINT", UINT32 |-> "UVARINT", UINT64 |-> "UVARINT",
             SINT32 |-> "SVARINT", SINT64 |-> "SVARINT",
             FIXED32 |-> "FIXED32", SFIXED32 |-> "FIXED32", FLOAT |-> "FIXED32",
             FIXED64 |-> "FIXED64", SFIXED64 |-> "FIXED64", DOUBLE |-> "FIXED64"]

\* PB_LTYPE and PB_HTYPE of a type byte (PB_ATYPE_STATIC is 0).
LTypeOf(type) == type % 16
HTypeOf(type) == ((type \div 16) % 4) * 16

-----------------------------------------------------------------------------
(* The struct. *)

\* A line of a field list: size is that of one item, count the length of an array.
\* A member of a fixed-width type has its width (uint32_t, float, double ...).
FieldLine ==
    {f \in [htype : DOMAIN HType, ltype : DOMAIN LTypeMap, tag : Nat \ {0}, size : {1, 2, 4, 8},
            count : Nat \ {0}] :
        /\ LTypeMap[f.ltype] = "FIXED32" => f.size = 4
        /\ LTypeMap[f.ltype] = "FIXED64" => f.size = 8}

\* What the compiler lays out before a member: a has_ flag of one byte or an
\* element count of two.
PrefixSize(f) == CASE f.htype = "OPTIONAL" -> 1 [] f.htype = "REPEATED" -> 2 [] OTHER -> 0
Align(n, size) == ((n + size - 1) \div size) * size

\* offsetof the has_ or _count member, of the member itself, and the end.
Place(f, end) ==
    LET prefix == IF PrefixSize(f) = 0 THEN end ELSE Align(end, PrefixSize(f))
        at == Align(prefix + PrefixSize(f), f.size)
    IN  [prefix |-> prefix, at |-> at, end |-> at + f.size * f.count]
Layout(list) ==
    LET place[i \in DOMAIN list] == Place(list[i], IF i = 1 THEN 0 ELSE place[i - 1].end)
    IN  place

-----------------------------------------------------------------------------
(* Binding. *)

\* The six arguments of PB_FIELDINFO for the i-th line of a field list.
Declared(list, i) ==
    LET f == list[i]
        place == Layout(list)[i]
    IN  [tag |-> f.tag, type |-> HType[f.htype] + LType[LTypeMap[f.ltype]],
         data_offset |-> place.at, data_size |-> f.size,
         size_offset |-> IF PrefixSize(f) = 0 THEN 0 ELSE place.at - place.prefix,
         array_size |-> f.count]

\* PB_FIELDINFO_WIDTH_AUTO.
WidthAuto(f) == IF f.htype = "REPEATED" THEN 2 ELSE 1

Word0(len, d) == Bits(len) \cup Low(Shl(Bits(d.tag), 2), 8) \cup Shl(Bits(d.type), 8)
TagAndSize(d) == Bits(d.size_offset) \cup (Shl(Bits(d.tag), 2) \ (0..7))

\* PB_FIELDINFO_1, _2, _4 and _8.
FieldInfo1(d) ==
    <<Word0(0, d) \cup Shl(Low(Bits(d.data_offset), 8), 16)
        \cup Shl(Low(Bits(d.size_offset), 4), 24) \cup Shl(Low(Bits(d.data_size), 4), 28)>>
FieldInfo2(d) ==
    <<Word0(1, d) \cup Shl(Low(Bits(d.array_size), 12), 16) \cup Shl(Low(Bits(d.size_offset), 4), 28),
      Low(Bits(d.data_offset), 16) \cup Shl(Low(Bits(d.data_size), 12), 16)
        \cup Shl(Bits(d.tag) \cap 6..9, 22)>>
FieldInfo4(d) ==
    <<Word0(2, d) \cup Shl(Low(Bits(d.array_size), 16), 16), TagAndSize(d),
      Bits(d.data_offset), Bits(d.data_size)>>
FieldInfo8(d) ==
    <<Word0(3, d), TagAndSize(d), Bits(d.data_offset), Bits(d.data_size), Bits(d.array_size),
      {}, {}, {}>>
FieldInfo(width, d) ==
    CASE width = 1 -> FieldInfo1(d) [] width = 2 -> FieldInfo2(d)
      [] width = 4 -> FieldInfo4(d) [] width = 8 -> FieldInfo8(d)

\* PB_FIELDINFO_ASSERT: a list that does not fit its words does not compile.
Fits(width, d) ==
    LET Limit(tag, offset, sizeoff, size, array) ==
            /\ d.tag < 2^tag /\ d.data_offset < 2^offset /\ d.size_offset < 2^sizeoff
            /\ d.data_size < 2^size /\ d.array_size < 2^array
    IN  CASE width = 1 -> Limit(6, 8, 4, 4, 1)
          [] width = 2 -> Limit(10, 16, 4, 12, 12)
          [] OTHER -> Limit(16, 16, 7, 16, 16)

\* PB_BIND; width 0 is AUTO.  The last line's tag is taken for the largest.
WidthOf(list, i, width) == IF width = 0 THEN WidthAuto(list[i]) ELSE width
Compiles(list, width) == \A i \in 1..Len(list) : Fits(WidthOf(list, i, width), Declared(list, i))
Bind(list, width) ==
    [field_info |-> FlattenSeq([i \in 1..Len(list) |->
                        FieldInfo(WidthOf(list, i, width), Declared(list, i))]) \o <<{}>>,
     field_count |-> Len(list),
     required_field_count |-> Cardinality({i \in 1..Len(list) : list[i].htype = "REQUIRED"}),
     largest_tag |-> Last(list).tag]

-----------------------------------------------------------------------------
(* The field iterator: index of the field, of its words (from 0) and among    *)
(* the required fields, and what load_descriptor_values read.                 *)

Field(w, first, n) == Num(Low(Shr(w, first), n))

LoadDescriptor(desc, it) ==
    IF it.index >= desc.field_count THEN it
    ELSE LET word(n) == desc.field_info[it.field_info_index + n + 1]
             w0 == word(0)
             Found(tag, offset, sizeoff, size, array) ==
                 [it EXCEPT !.type = Field(w0, 8, 8), !.tag = tag, !.data_offset = offset,
                            !.size_offset = sizeoff, !.data_size = size, !.array_size = array]
             low_tag == Low(Shr(w0, 2), 6)
         IN  CASE Field(w0, 0, 2) = 0 ->
                    Found(Num(low_tag), Field(w0, 16, 8), Field(w0, 24, 4), Field(w0, 28, 4), 1)
               [] Field(w0, 0, 2) = 1 ->
                    Found(Num(low_tag \cup Shl(Shr(word(1), 28), 6)), Field(word(1), 0, 16),
                          Field(w0, 28, 4), Field(word(1), 16, 12), Field(w0, 16, 12))
               [] Field(w0, 0, 2) = 2 ->
                    Found(Num(low_tag \cup Shl(Shr(word(1), 8), 6)), Num(word(2)),
                          Field(word(1), 0, 8), Num(word(3)), Field(w0, 16, 16))
               [] OTHER ->
                    Found(Num(low_tag \cup Shl(Shr(word(1), 8), 6)), Num(word(2)),
                          Field(word(1), 0, 8), Num(word(3)), Num(word(4)))

\* Going back to the first field without counting the required fields anew.
RestartsHalfway(desc, it) ==
    IF it.index + 1 >= desc.field_count
    THEN [it EXCEPT !.index = 0, !.field_info_index = 0]
    ELSE LET prev == desc.field_info[it.field_info_index + 1]
         IN  [it EXCEPT !.index = @ + 1, !.field_info_index = @ + 2 ^ Field(prev, 0, 2),
                        !.required_field_index =
                            @ + (IF HTypeOf(Field(prev, 8, 8)) = HType.REQUIRED THEN 1 ELSE 0)]
AdvanceIterator(desc, it) ==
    IF it.index + 1 >= desc.field_count
    THEN [it EXCEPT !.index = 0, !.field_info_index = 0, !.required_field_index = 0]
    ELSE LET prev == desc.field_info[it.field_info_index + 1]
         IN  [it EXCEPT !.index = @ + 1,
                        !.field_info_index = @ + 2 ^ Field(prev, 0, 2),
                        !.required_field_index =
                            @ + (IF HTypeOf(Field(prev, 8, 8)) = HType.REQUIRED THEN 1 ELSE 0)]

IterBegin(desc) ==
    LoadDescriptor(desc, [index |-> 0, field_info_index |-> 0, required_field_index |-> 0,
                          type |-> 0, tag |-> 0, data_offset |-> 0, size_offset |-> 0,
                          data_size |-> 0, array_size |-> 0])
IterNext(desc, it) == LoadDescriptor(desc, AdvanceIterator(desc, it))

\* pData of an item and pSize (the has_ flag or the count) in the struct.
PData(it, item) == it.data_offset + item * it.data_size
PSize(it) == it.data_offset - it.size_offset
=============================================================================
