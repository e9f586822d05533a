----------------------------- MODULE MCPbCodec -----------------------------
(* Message types and messages for model checking PbCodec. *)
EXTENDS PbCodec

Line(htype, ltype, tag, size, count) ==
    [htype |-> htype, ltype |-> ltype, tag |-> tag, size |-> size, count |-> count]

\* The message types of common.pb.h, with OffloadReq_size and OffloadCompletion_size.
OffloadReq ==
    [list |-> [i \in 1..9 |-> IF i \in {1, 3, 5, 7} THEN Line("REQUIRED", "UINT64", i, 8, 1)
                              ELSE Line("REQUIRED", "UINT32", i, 4, 1)],
     width |-> 0, sizes |-> 18..74]
OffloadCompletion ==
    [list |-> [i \in 1..2 |-> Line("REQUIRED", "UINT32", i, 4, 1)], width |-> 0, sizes |-> 4..12]

\* A message type with the other kinds of fields; the low bits of tags 3 and 67 are the same.
Kinds(width) ==
    [list |-> <<Line("REQUIRED", "INT32", 1, 4, 1), Line("OPTIONAL", "SINT64", 2, 8, 1),
                Line("REPEATED", "SINT32", 3, 4, 2), Line("SINGULAR", "BOOL", 4, 1, 1),
                Line("OPTIONAL", "INT32", 5, 1, 1), Line("REQUIRED", "FIXED64", 8, 8, 1),
                Line("SINGULAR", "UINT32", 40, 2, 1), Line("REPEATED", "FIXED32", 67, 4, 3)>>,
     width |-> width, sizes |-> 0..100]

AllSchemas == <<OffloadReq, OffloadCompletion, Kinds(0), Kinds(2), Kinds(4), Kinds(8)>>

-----------------------------------------------------------------------------
Wide == {{}, 0..6, {7}, 0..27, {28}, {31}, 0..31, {32}, 0..34, {35}, {62}, {63}, 0..63}
Narrow == {v \in Wide : v \subseteq 0..31}
Page == 4096

Sent(schema, values, room, cuts) ==
    [schema |-> schema, values |-> values, room |-> room, cuts |-> cuts]
Requests ==
    {Sent(1, [i \in 1..9 |-> <<IF i = f THEN v ELSE IF i = 9 THEN {3} ELSE {}>>], Page, FALSE) :
        f \in {1, 9}, v \in Narrow}
    \cup {Sent(1, [i \in 1..9 |-> <<IF i = 3 THEN v ELSE {8}>>], Page, FALSE) : v \in Wide}
Extremes ==
    {Sent(1, [i \in 1..9 |-> <<IF i \in {1, 3, 5, 7} THEN 0..63 ELSE 0..31>>], room, room = Page) :
        room \in {Page, 30, 73}}
    \cup {Sent(1, [i \in 1..9 |-> <<{}>>], Page, TRUE), Sent(2, <<<<{0}>>, <<0..31>>>>, Page, TRUE)}
Mixed(schema, values) == Sent(schema, values, Page, FALSE)
Others ==
    {Mixed(n, <<<<0..31>>, <<>>, <<{0}, 0..31>>, <<{0}>>, <<0..7>>, <<0..63>>, <<{15}>>, <<0..31, {}, {9}>>>>) :
        n \in 3..6}
    \cup {Mixed(3, <<<<{4}>>, <<v>>, <<>>, <<{}>>, <<{7}>>, <<{0}>>, <<{}>>, <<>>>>) : v \in Wide}
    \cup {Mixed(3, <<<<{}>>, <<{0}>>, <<{1}, {2}, {3}>>, <<{}>>, <<>>, <<{}>>, <<{}>>, <<>>>>)}
AllOutgoing == Requests \cup Extremes \cup Others

-----------------------------------------------------------------------------
Rec(tag, wt, as, items, pad) == [tag |-> tag, wt |-> wt, as |-> as, items |-> items, pad |-> pad]
Plain == [i \in 1..9 |-> Rec(i, 0, 0, <<{i, 8}>>, 0)]
Come(schema, records) == [schema |-> schema, records |-> records]
Unknown ==
    {Rec(tag, wt, 0, IF wt = 0 THEN <<{40}>> ELSE <<>>, 0) : tag \in {0, 35, 65}, wt \in {0, 3, 6}}
    \cup {Rec(tag, 2, 0, <<{3}, {9}>>, 0) : tag \in {1, 30}}
    \cup {Rec(tag, 1, 1, <<{50}>>, 0) : tag \in {4, 70}} \cup {Rec(12, 5, 5, <<{31}>>, 1)}
ForeignRequests ==
    {Reverse(Plain)}
    \cup {InsertAt(Plain, i, r) : i \in {1, 5, 10}, r \in Unknown}
    \cup {RemoveAt(Plain, i) : i \in {1, 5, 9}}
    \cup {Append(Plain, Rec(f, 0, 0, <<v>>, pad)) : f \in {3, 9}, v \in {{}, {31}, {32}}, pad \in 0..3}
ForeignKinds ==
    LET needed == <<Rec(8, 1, 1, <<{63}>>, 0), Rec(1, 0, 0, <<31..63>>, 0)>>
    IN  {needed \o <<r>> \o t :
            r \in {Rec(3, 0, 0, <<{0}>>, 0), Rec(3, 2, 0, <<0..31, {5}>>, 1), Rec(3, 2, 0, <<{}, {}, {}>>, 0),
                   Rec(67, 2, 5, <<{1}, {2}>>, 0), Rec(67, 5, 5, <<{1}>>, 0), Rec(3, 5, 5, <<{1}>>, 0),
                   Rec(5, 0, 0, <<7..63>>, 0), Rec(5, 0, 0, <<{7}>>, 0), Rec(40, 0, 0, <<{16}>>, 0),
                   Rec(4, 0, 0, <<{5}>>, 0), Rec(2, 0, 0, <<0..63>>, 0), Rec(1, 2, 0, <<{}>>, 0)},
            t \in {<<>>, <<Rec(3, 0, 0, <<{1}>>, 0)>>, <<Rec(67, 2, 5, <<{3}, {4}>>, 0)>>,
                  <<Rec(6, 0, 0, <<{1}>>, 0)>>}}

\* One value of every kind of number, without padding, with little and with all
\* that ten bytes have room for (a tag of 40 takes two of them).
Odd == Wide \cup {{8}, {15}, 7..31, 15..63, 7..63, 31..63, {31, 32}, {31} \cup 35..41, {3, 33}, {40}}
Pads(v) == LET most == IF v = {} THEN 8 ELSE Min({8, 9 - Max(v) \div 7}) IN {0, Min({2, most}), most}
ForeignValues ==
    {<<Rec(8, 1, 1, <<{63}>>, 0), Rec(1, 0, 0, <<31..63>>, 0), r>> :
        r \in UNION {{Rec(tag, 0, 0, <<v>>, pad) : tag \in (1..5) \cup {40}, pad \in Pads(v)} : v \in Odd}}
AllForeign ==
    {Come(1, rs) : rs \in ForeignRequests} \cup {Come(n, rs) : n \in {3, 5}, rs \in ForeignKinds}
    \cup {Come(3, rs) : rs \in ForeignValues}
=============================================================================
