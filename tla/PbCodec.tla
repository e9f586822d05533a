------------------------------ MODULE PbCodec ------------------------------
(* One message on its way: pb_encode writes a struct field by field into a    *)
(* buffer, the bytes travel, possibly cut short, and pb_decode reads them     *)
(* into another struct, tag by tag, looking each tag up with the circular     *)
(* field iterator.  The message may also come from another implementation of  *)
(* protobuf, which orders, repeats, pads and adds fields as the wire format   *)
(* allows.                                                                    *)
EXTENDS PbDescriptor

CONSTANTS
    Schemas,     \* a sequence of [list, width, sizes]: a field list, its descriptor width
                 \* (0: AUTO), and the sizes its messages are declared to have
    Outgoing,    \* messages for the encoder: [schema, values, room, cuts];
                 \* cuts says that the bytes may be cut short on their way
    Foreign      \* messages of another encoder: [schema, records]

\* The values a struct member of one line of a field list can have, and how many
\* its owner may say it has: a bool is 0 or 1, a count of an array (pb_size_t) may
\* be larger than the array.
Values(f) == IF f.ltype = "BOOL" THEN {{}, {0}} ELSE SUBSET (0..(8 * f.size - 1))
Counts(f) ==
    {n \in 0..(2^16 - 1) : /\ f.htype = "OPTIONAL" => n <= 1
                           /\ f.htype \in {"REQUIRED", "SINGULAR"} => n = 1}

\* No list has more required fields than pb_decode looks out for.
PB_MAX_REQUIRED_FIELDS == 64

ASSUME SchemasAssumption ==
    \A n \in DOMAIN Schemas :
        /\ Schemas[n].list \in Seq(FieldLine) /\ Schemas[n].list # <<>>
        /\ Schemas[n].width \in {0, 1, 2, 4, 8}
        /\ Compiles(Schemas[n].list, Schemas[n].width)
        /\ \A i, j \in DOMAIN Schemas[n].list : i < j => Schemas[n].list[i].tag < Schemas[n].list[j].tag
        /\ Bind(Schemas[n].list, Schemas[n].width).required_field_count <= PB_MAX_REQUIRED_FIELDS
ASSUME OutgoingAssumption ==
    \A m \in Outgoing :
        /\ m.schema \in DOMAIN Schemas /\ m.room \in 0..2^30
        /\ LET fs == Schemas[m.schema].list
           IN  /\ m.values = [i \in DOMAIN fs |-> m.values[i]]
               /\ \A i \in DOMAIN fs :
                    m.values[i] \in Seq(Values(fs[i])) /\ Len(m.values[i]) \in Counts(fs[i])

VARIABLES
    input,       \* the message of this run, a member of Outgoing or of Foreign
    stage,       \* where the encoder or the decoder stands
    it,          \* the field iterator
    src,         \* the struct of the encoder, a function from offsets to values
    out,         \* what the encoder wrote
    lost,        \* how many of its last bytes did not arrive
    left,        \* what the decoder has not read
    dest,        \* the struct of the decoder
    seen,        \* the required fields seen (fields_seen.bitfield)
    cur          \* the tag being decoded, its wire type, and where its search began

vars == <<input, stage, it, src, out, lost, left, dest, seen, cur>>

Descs == [n \in DOMAIN Schemas |-> Bind(Schemas[n].list, Schemas[n].width)]
Layouts == [n \in DOMAIN Schemas |-> Layout(Schemas[n].list)]
list == Schemas[input.schema].list
desc == Descs[input.schema]
place == Layouts[input.schema]

-----------------------------------------------------------------------------
(* The struct: the values of a field are a sequence, of one value for a       *)
(* required or proto3 field, of at most one for an optional field.            *)

Offsets(n) ==
    UNION {{Layouts[n][i].prefix}
             \cup {Layouts[n][i].at + k * Schemas[n].list[i].size :
                     k \in 0..(Schemas[n].list[i].count - 1)} : i \in DOMAIN Layouts[n]}
AllOffsets == [n \in DOMAIN Schemas |-> Offsets(n)]

\* The struct as its owner fills it in.  A member nobody sets is zero.
Struct(n, values) ==
    [a \in AllOffsets[n] |->
        LET fs == Schemas[n].list
            i == CHOOSE j \in DOMAIN fs : a >= Layouts[n][j].prefix /\ a < Layouts[n][j].end
            k == (a - Layouts[n][i].at) \div fs[i].size + 1
        IN  IF PrefixSize(fs[i]) > 0 /\ a = Layouts[n][i].prefix THEN Bits(Len(values[i]))
            ELSE IF k \in DOMAIN values[i] THEN values[i][k] ELSE {}]

\* The values its owner finds in a struct.
Contents(mem) ==
    [i \in DOMAIN list |->
        [k \in 1..(IF PrefixSize(list[i]) > 0 THEN Num(mem[place[i].prefix]) ELSE 1) |->
            mem[place[i].at + (k - 1) * list[i].size]]]

\* The struct on the decoder's stack is not initialised.
Garbage == [a \in AllOffsets[input.schema] |-> {0}]

-----------------------------------------------------------------------------
(* Encoding a field. *)

WireTypeOf(ltype) == CASE ltype = LType.FIXED32 -> 5 [] ltype = LType.FIXED64 -> 1 [] OTHER -> 0

\* pb_enc_varint and pb_enc_fixed.
EncodeItem(ltype, size, v) ==
    CASE ltype = LType.UVARINT -> EncodeVarint(v)
      [] ltype = LType.SVARINT -> EncodeSvarint(SignExtend(v, 8 * size))
      [] ltype \in {LType.FIXED32, LType.FIXED64} -> EncodeFixed(v, size)
      [] OTHER -> EncodeVarint(SignExtend(v, 8 * size))

\* encode_basic_field; a bool is written as 0 or 1 whatever its byte holds.
EncodeBasic(f, v, s) ==
    LET ltype == LTypeOf(f.type)
        tagged == Write(s, EncodeTag(WireTypeOf(ltype), f.tag))
    IN  IF ltype = LType.BOOL THEN Write(tagged, EncodeVarint(IF v = {} THEN {} ELSE {0}))
        ELSE Write(tagged, EncodeItem(ltype, f.data_size, v))

\* encode_array: arrays of numbers are packed behind their size in bytes, which
\* for a fixed-width type is computed and for the others is what the items take
\* in a stream that only counts.
EncodeArray(f, mem, s) ==
    LET count == Num(mem[PSize(f)])
        items == [k \in 1..count |->
                    EncodeItem(LTypeOf(f.type), f.data_size, mem[PData(f, k - 1)])]
        size == CASE LTypeOf(f.type) = LType.FIXED32 -> 4 * count
                  [] LTypeOf(f.type) = LType.FIXED64 -> 8 * count
                  [] OTHER -> Len(FlattenSeq(items))
        written[k \in 0..count] ==
            IF k = 0 THEN Write(Write(s, EncodeTag(2, f.tag)), EncodeVarint(Bits(size)))
            ELSE Write(written[k - 1], items[k])
    IN  IF count = 0 THEN s
        ELSE IF count > f.array_size THEN [s EXCEPT !.ok = FALSE]
        ELSE written[count]

\* encode_field: an absent optional field and a proto3 field of zero are left out.
Absent(f, mem) ==
    /\ HTypeOf(f.type) = HType.OPTIONAL
    /\ mem[IF f.size_offset # 0 THEN PSize(f) ELSE PData(f, 0)] = {}
EncodeOne(f, mem, s) ==
    IF Absent(f, mem) THEN s
    ELSE IF HTypeOf(f.type) = HType.REPEATED THEN EncodeArray(f, mem, s)
    ELSE EncodeBasic(f, mem[PData(f, 0)], s)

-----------------------------------------------------------------------------
(* Decoding a field. *)

\* An unsigned value cast to the size of its field.  Mutant: it is not.
WholeValue(v, bits) == v
Clamped(v, bits) == Low(v, bits)

\* What a decoder stores of d, if it could read it, and whether it then agrees.
Checked(d, v, fits) == [read |-> d.ok, ok |-> d.ok /\ fits, v |-> v, rest |-> d.rest]

\* decode_basic_field with pb_dec_varint, pb_dec_bool and pb_decode_fixed; wire
\* type 255 stands for an item of a packed array.  A value too large for the
\* field is stored in part and refused.
DecodeBasic(f, wiretype, s) ==
    LET ltype == LTypeOf(f.type)
        bits == 8 * f.data_size
        d == IF ltype = LType.SVARINT THEN DecodeSvarint(s) ELSE DecodeVarint(s)
        d32 == DecodeVarint32(s)
        fixed == DecodeFixed(s, f.data_size)
        svalue == IF ltype = LType.SVARINT \/ f.data_size = 8 THEN d.v ELSE SignExtend(Low(d.v, 32), 32)
    IN  IF wiretype \notin {WireTypeOf(ltype), 255} THEN Checked(Malformed, {}, FALSE)
        ELSE CASE ltype = LType.BOOL -> Checked(d32, IF d32.v = {} THEN {} ELSE {0}, TRUE)
               [] ltype = LType.UVARINT -> Checked(d, Clamped(d.v, bits), Clamped(d.v, bits) = d.v)
               [] ltype \in {LType.VARINT, LType.SVARINT} ->
                    Checked(d, Low(svalue, bits), SignExtend(Low(svalue, bits), bits) = svalue)
               [] OTHER -> Checked(fixed, fixed.v, TRUE)

\* The struct and the stream after one item of field f, the k-th counting from 0.
Stored(f, k, mem, d) ==
    [ok |-> d.ok, rest |-> d.rest, mem |-> IF d.read THEN [mem EXCEPT ![PData(f, k)] = d.v] ELSE mem]

\* The packed array of decode_static_field: items until the substream is used
\* up or the array is full.
PackedItems(f, mem, s) ==
    LET Item(p) ==
            LET count == Num(p.mem[PSize(f)])
                one == Stored(f, count, p.mem, DecodeBasic(f, 255, p.rest))
            IN  IF ~p.ok \/ p.rest = <<>> \/ count >= f.array_size THEN p
                ELSE IF one.ok THEN [one EXCEPT !.mem = [@ EXCEPT ![PSize(f)] = Bits(count + 1)]]
                ELSE one
        after[k \in 0..f.array_size] ==
            IF k = 0 THEN [ok |-> TRUE, rest |-> s, mem |-> mem] ELSE Item(after[k - 1])
        last == after[f.array_size]
    IN  [last EXCEPT !.ok = @ /\ last.rest = <<>>]

DecodeArray(f, wiretype, mem, s) ==
    LET count == Num(mem[PSize(f)])
        size == DecodeVarint32(s)
        sub == IF 31 \in size.v THEN Malformed ELSE Read(size.rest, Num(size.v))
        packed == PackedItems(f, mem, sub.v)
        counted == [mem EXCEPT ![PSize(f)] = Bits(count + 1)]
    IN  IF wiretype = 2
        THEN IF size.ok /\ sub.ok THEN [packed EXCEPT !.rest = sub.rest]
             ELSE [ok |-> FALSE, rest |-> s, mem |-> mem]
        ELSE IF count >= f.array_size THEN [ok |-> FALSE, rest |-> s, mem |-> counted]
        ELSE Stored(f, count, counted, DecodeBasic(f, wiretype, s))

DecodeStatic(f, wiretype, mem, s) ==
    LET has == IF HTypeOf(f.type) = HType.OPTIONAL /\ f.size_offset # 0
               THEN [mem EXCEPT ![PSize(f)] = {0}] ELSE mem
    IN  IF HTypeOf(f.type) = HType.REPEATED THEN DecodeArray(f, wiretype, mem, s)
        ELSE Stored(f, 0, has, DecodeBasic(f, wiretype, s))

\* Clearing the data but not the has_ flag or the count.
ClearsDataOnly(f, mem) ==
    IF HTypeOf(f.type) = HType.REPEATED THEN mem ELSE [mem EXCEPT ![PData(f, 0)] = {}]
\* pb_field_set_to_default: an array only loses its count.
SetToDefault(f, mem) ==
    LET sized == IF f.size_offset # 0 THEN [mem EXCEPT ![PSize(f)] = {}] ELSE mem
    IN  IF HTypeOf(f.type) = HType.REPEATED THEN sized ELSE [sized EXCEPT ![PData(f, 0)] = {}]

-----------------------------------------------------------------------------
(* The bytes another encoder writes.  A record has a tag, a wire type, the    *)
(* items it carries with their own wire type "as" (one item, or several in a  *)
(* length-delimited record), and the bytes its varints are padded with.       *)

RefVarint(v, pad) ==
    LET n == (IF v = {} THEN 1 ELSE Max(v) \div 7 + 1) + pad
    IN  [i \in 1..n |-> Low(Shr(v, 7 * (i - 1)), 7) \cup (IF i < n THEN {7} ELSE {})]
RefItem(as, v, pad) ==
    CASE as = 0 -> RefVarint(v, pad) [] as = 1 -> EncodeFixed(v, 8) [] as = 5 -> EncodeFixed(v, 4)
RefRecord(r) ==
    LET body == FlattenSeq([k \in DOMAIN r.items |-> RefItem(r.as, r.items[k], r.pad)])
        head == RefVarint(Shl(Bits(r.tag), 3) \cup Bits(r.wt), r.pad)
    IN  head \o (IF r.wt = 2 THEN RefVarint(Bits(Len(body)), 0) ELSE <<>>) \o body
RefBytes(records) == FlattenSeq([k \in DOMAIN records |-> RefRecord(records[k])])

\* The wire type of one value of a field.
WireOf(f) == WireTypeOf(LType[LTypeMap[f.ltype]])

\* A record that the wire format knows: no varint is longer than ten bytes, a
\* number is one item in its own wire type, a length-delimited record for an array
\* has items of the array's type, and the wire types of groups and those that do
\* not exist carry nothing.
WellFormed(fields, r) ==
    /\ r.tag \in 0..(2^29 - 1) /\ r.wt \in 0..7 /\ r.as \in {0, 1, 5} /\ r.pad \in Nat
    /\ r.items \in Seq(SUBSET (0..63))
    /\ \A v \in {Shl(Bits(r.tag), 3) \cup Bits(r.wt)} \cup (IF r.as = 0 THEN ToSet(r.items) ELSE {}) :
         Len(RefVarint(v, r.pad)) <= 10
    /\ r.wt \in {0, 1, 5} => r.as = r.wt /\ Len(r.items) = 1
    /\ r.wt \in {3, 4, 6, 7} => r.items = <<>>
    /\ \A f \in ToSet(fields) : r.wt = 2 /\ f.tag = r.tag /\ f.htype = "REPEATED" => r.as = WireOf(f)

ASSUME ForeignAssumption ==
    /\ Outgoing \cap Foreign = {}
    /\ \A m \in Foreign :
         /\ m.schema \in DOMAIN Schemas /\ RefBytes(m.records) \in Seq(Byte)
         /\ \A k \in DOMAIN m.records : WellFormed(Schemas[m.schema].list, m.records[k])

-----------------------------------------------------------------------------
(* The steps. *)

\* The stages in which no call is running any more.
Over == {"refused", "accepted", "rejected"}
NoTag == [tag |-> 0, wiretype |-> 0, start |-> 0]

Init ==
    /\ out = <<>> /\ lost = 0 /\ seen = {} /\ cur = NoTag
    /\ \/ /\ input \in Outgoing
          /\ stage = "encode" /\ left = <<>> /\ src = Struct(input.schema, input.values)
       \/ /\ input \in Foreign
          /\ stage = "defaults" /\ left = RefBytes(input.records) /\ src = Garbage
    /\ it = IterBegin(desc)
    /\ dest = Garbage

\* One round of the loop of pb_encode.
EncodeField ==
    /\ stage = "encode"
    /\ \E s \in {EncodeOne(it, src, [out |-> out, room |-> input.room, ok |-> TRUE])} :
         /\ out' = s.out
         /\ it' = IF s.ok THEN IterNext(desc, it) ELSE it
         /\ stage' = IF ~s.ok THEN "refused" ELSE IF it'.index # 0 THEN "encode" ELSE "written"
    /\ UNCHANGED <<input, src, lost, left, dest, seen, cur>>

\* The bytes arrive, all of them or the first few, and pb_decode begins.
Deliver ==
    /\ stage = "written"
    /\ lost' \in IF input.cuts THEN 0..Len(out) ELSE {0}
    /\ left' = SubSeq(out, 1, Len(out) - lost')
    /\ it' = IterBegin(desc)
    /\ stage' = "defaults"
    /\ UNCHANGED <<input, src, out, dest, seen, cur>>

\* One round of the loop of pb_message_set_to_defaults.
SetDefault ==
    /\ stage = "defaults"
    /\ dest' = SetToDefault(it, dest)
    /\ it' = IterNext(desc, it)
    /\ stage' = IF it'.index # 0 THEN "defaults" ELSE "tag"
    /\ UNCHANGED <<input, src, out, lost, left, seen, cur>>

\* Remembering where the search began after going back to the first field.
StartsAfterRewind(tag) ==
    LET back == it.tag # tag /\ tag <= desc.largest_tag /\ tag < it.tag
    IN  [stage |-> IF it.tag = tag THEN "field"
                   ELSE IF tag > desc.largest_tag THEN "skip" ELSE "search",
         it |-> IF back THEN [it EXCEPT !.index = desc.field_count] ELSE it,
         start |-> IF back THEN desc.field_count ELSE it.index]
\* The beginning of pb_field_iter_find: where it stands after it, and the
\* iterator with the search at its starting point.
FindBegins(tag) ==
    [stage |-> IF it.tag = tag THEN "field" ELSE IF tag > desc.largest_tag THEN "skip" ELSE "search",
     it |-> IF it.tag # tag /\ tag <= desc.largest_tag /\ tag < it.tag
            THEN [it EXCEPT !.index = desc.field_count] ELSE it,
     start |-> it.index]

ReadTag ==
    /\ stage = "tag" /\ left # <<>>
    /\ \E d \in {DecodeTag(left)} : \E find \in {FindBegins(d.tag)} :
           IF ~d.ok \/ d.tag = 0
           THEN stage' = "rejected" /\ UNCHANGED <<it, left, cur>>
           ELSE /\ left' = d.rest
                /\ cur' = [tag |-> d.tag, wiretype |-> d.wiretype, start |-> find.start]
                /\ it' = find.it
                /\ stage' = find.stage
    /\ UNCHANGED <<input, src, out, lost, dest, seen>>

\* Taking the low bits of the tag for the tag.
LowBitsMatch(tag, next) ==
    Low(Shr(desc.field_info[next.field_info_index + 1], 2), 6) = Low(Bits(tag), 6)
\* The low bits of the tag are compared before the rest of the field is loaded.
Matches(tag, next) ==
    LowBitsMatch(tag, next) /\ LoadDescriptor(desc, next).tag = tag

\* One round of the loop of pb_field_iter_find.
Search ==
    /\ stage = "search"
    /\ LET next == AdvanceIterator(desc, it)
           found == Matches(cur.tag, next)
           around == next.index = cur.start
       IN  /\ it' = IF LowBitsMatch(cur.tag, next) \/ around THEN LoadDescriptor(desc, next) ELSE next
           /\ stage' = IF found THEN "field" ELSE IF around THEN "skip" ELSE "search"
    /\ UNCHANGED <<input, src, out, lost, left, dest, seen, cur>>

Skip ==
    /\ stage = "skip"
    /\ \E d \in {SkipField(left, cur.wiretype)} :
         /\ left' = d.rest
         /\ stage' = IF d.ok THEN "tag" ELSE "rejected"
    /\ UNCHANGED <<input, src, it, out, lost, dest, seen, cur>>

\* The end of the loop of pb_decode_inner: a required field is noted as seen
\* before it is decoded.
DecodeField ==
    /\ stage = "field"
    /\ seen' = IF HTypeOf(it.type) = HType.REQUIRED /\ it.required_field_index < PB_MAX_REQUIRED_FIELDS
               THEN seen \cup {it.required_field_index} ELSE seen
    /\ \E d \in {DecodeStatic(it, cur.wiretype, dest, left)} :
         /\ dest' = d.mem
         /\ left' = d.rest
         /\ stage' = IF d.ok THEN "tag" ELSE "rejected"
    /\ UNCHANGED <<input, src, it, out, lost, cur>>

\* Content with the end of the bytes.
NoneMissing == TRUE
RequiredSeen == seen = 0..(desc.required_field_count - 1)

Finish ==
    /\ stage = "tag" /\ left = <<>>
    /\ stage' = IF RequiredSeen THEN "accepted" ELSE "rejected"
    /\ UNCHANGED <<input, src, it, out, lost, left, dest, seen, cur>>

Done == stage \in Over /\ UNCHANGED vars

Next ==
    EncodeField \/ Deliver \/ SetDefault \/ ReadTag \/ Search \/ Skip \/ DecodeField \/ Finish \/ Done

\* A call of pb_encode or pb_decode does not stop half way.  This is WF_vars(Next)
\* with ENABLED <<Next>>_vars spelled out: that a step is possible in every other
\* stage is what the deadlock check of the run shows.
Spec == Init /\ [][Next]_vars /\ ([]<>(stage \in Over) \/ []<><<Next>>_vars)

-----------------------------------------------------------------------------
(* Properties. *)

Encoded == input \in Outgoing
AllRequired == \A i \in DOMAIN list : list[i].htype = "REQUIRED"

\* Every variable keeps its type, whatever bytes arrive: a member of the decoder's
\* struct holds a value of its size, and while pb_decode goes on no array counts
\* more items than it has room for.
TypeOK ==
    /\ input \in Outgoing \cup Foreign
    /\ stage \in Over \cup {"encode", "written", "defaults", "tag", "search", "skip", "field"}
    /\ it.index \in 0..Len(list)
    /\ \A i \in DOMAIN out : out[i] \in Byte
    /\ \A i \in DOMAIN left : left[i] \in Byte
    /\ seen \subseteq 0..63
    /\ \A i \in DOMAIN list :
         /\ \A k \in 0..(list[i].count - 1) :
              dest[place[i].at + k * list[i].size] \subseteq 0..(8 * list[i].size - 1)
         /\ list[i].htype = "REPEATED" /\ stage \in {"tag", "search", "skip", "field", "accepted"} =>
              Num(dest[place[i].prefix]) <= list[i].count

\* The field iterator of pb_common.c always stands on a line of the field list,
\* with the tag, the type and the struct offsets that pb.h packed for that
\* line, whatever the descriptor width and whichever tag was searched last; in
\* the middle of a search only its position is meaningful.
LoadedAsDeclared ==
    stage # "search" =>
        LET d == Declared(list, it.index + 1)
            before == {i \in 1..it.index : list[i].htype = "REQUIRED"}
        IN  /\ [f \in DOMAIN d |-> it[f]] = d
            /\ it.required_field_index = Cardinality(before)

\* A struct that pb_encode wrote completely and that arrived completely is
\* accepted by pb_decode, and the struct of the decoder has the same values in
\* the same fields: nothing of what its memory held before shows through.
RoundTrip ==
    Encoded /\ lost = 0 /\ stage \in {"accepted", "rejected"} =>
        stage = "accepted" /\ Contents(dest) = input.values

\* pb_encode never writes past its buffer.
InBuffer == Encoded => Len(out) <= input.room

\* Besides, an offload request takes no more than the OffloadReq_size bytes of
\* common.pb.h and never so few that the server would take it for the one-byte
\* message that ends the session (main_bf.c:619).
SizesHold ==
    /\ InBuffer
    /\ Encoded /\ stage = "written" => Len(out) \in Schemas[input.schema].sizes

\* A message whose fields are all required and that was cut short, between two
\* fields or in the middle of one, is refused: the server never acts on part of
\* a request.
CutShortRefused == lost > 0 /\ AllRequired => stage # "accepted"

\* What the records of another encoder say, read off the records and not off the
\* bytes: a record with the tag of a field carries its values in the field's own
\* wire type, or packed if the field is an array; records with other tags are
\* skipped.  A value must fit its member: that is nanopb's rule ("integer too
\* large"), other runtimes cut it.  A bool is read as 32 bits, and whether a wider
\* one passes depends on its bytes: "wide" lets it.
RefFits(f, v, wide) ==
    LET bits == 8 * f.size
        sign == Low(v, 32) \cap ((bits - 1)..31)
    IN  CASE LTypeMap[f.ltype] \in {"UVARINT", "SVARINT"} -> v \subseteq 0..(bits - 1)
          [] LTypeMap[f.ltype] = "VARINT" -> bits >= 32 \/ sign \in {{}, (bits - 1)..31}
          [] LTypeMap[f.ltype] = "BOOL" ->
               wide \/ v \ (0..31) = {} \/ (31 \in v /\ v \ (0..31) = 32..63)
          [] OTHER -> TRUE
RefMeaning(f, v) ==
    LET bits == 8 * f.size
    IN  CASE LTypeMap[f.ltype] = "BOOL" -> IF Low(v, 32) = {} THEN {} ELSE {0}
          [] LTypeMap[f.ltype] = "SVARINT" -> IF 0 \in v THEN Flip(Shr(v, 1), bits) ELSE Shr(v, 1)
          [] OTHER -> Low(v, bits)
RefItems(records, f) ==
    LET mine == SelectSeq(records, LAMBDA r : r.tag = f.tag)
        items == FlattenSeq([k \in DOMAIN mine |-> mine[k].items])
    IN  [k \in DOMAIN items |-> RefMeaning(f, items[k])]
RefRecordLegal(r, wide) ==
    LET fields == {f \in ToSet(list) : f.tag = r.tag}
    IN  /\ r.tag # 0
        /\ fields = {} => r.wt \in {0, 1, 2, 5}
        /\ \A f \in fields :
             /\ r.wt = WireOf(f) \/ (r.wt = 2 /\ f.htype = "REPEATED")
             /\ \A k \in DOMAIN r.items : RefFits(f, r.items[k], wide)
RefLegal(records, wide) ==
    /\ \A k \in DOMAIN records : RefRecordLegal(records[k], wide)
    /\ \A f \in ToSet(list) :
         LET n == Len(RefItems(records, f))
         IN  (f.htype = "REQUIRED" => n > 0) /\ (f.htype = "REPEATED" => n <= f.count)
RefContents(records) ==
    [i \in DOMAIN list |->
        LET items == RefItems(records, list[i])
        IN  CASE list[i].htype = "REPEATED" -> items
              [] items # <<>> -> <<Last(items)>>
              [] items = <<>> -> IF list[i].htype = "OPTIONAL" THEN <<>> ELSE <<{}>>]

\* Whatever encoder a well-formed message comes from, in any order of the fields,
\* with padded varints and unknown fields between them: pb_decode accepts it if
\* all its values fit their fields and every required one is there, and refuses
\* it otherwise; and what it then finds in the struct are the values of the
\* records, the last one of a field that comes several times.  A bool of more
\* than 32 bits is the exception: refused or cut to 32, by how it is padded.
DecodedAsReference ==
    ~Encoded /\ stage \in {"accepted", "rejected"} =>
        /\ RefLegal(input.records, FALSE) => stage = "accepted"
        /\ stage = "accepted" =>
             RefLegal(input.records, TRUE) /\ Contents(dest) = RefContents(input.records)

\* Every call of pb_encode and of pb_decode comes to an end, the circular
\* search for a tag included.
CodecEnds == <>(stage \in Over)
=============================================================================
