--------------------------- MODULE MCRequestSizes ---------------------------
(* RequestSizes with the 42 datatypes of dpucommon.h, a width of 8 bits for   *)
(* int and uint32_t, and the sizes and aliases of Open MPI on x86-64.         *)
EXTENDS RequestSizes, TLC

AllHandle ==
    [n \in {PackChain[k][1] : k \in DOMAIN PackChain} |->
        CASE n = "C_FLOAT_COMPLEX" -> "C_COMPLEX"
          [] n = "CXX_FLOAT_COMPLEX" -> "CXX_COMPLEX"
          [] OTHER -> n]

\* "derived" is a type of the program's own making.
Two == {"SHORT", "UNSIGNED_SHORT", "INT16_T", "UINT16_T"}
Four == {"INT", "UNSIGNED", "FLOAT", "UINT32_T", "INT32_T"}
Six == {"SHORT_INT"}
Twelve == {"DOUBLE_INT", "LONG_INT", "derived"}
Sixteen == {"LONG_DOUBLE", "C_DOUBLE_COMPLEX", "CXX_DOUBLE_COMPLEX"}
Twenty == {"LONG_DOUBLE_INT"}
ThirtyTwo == {"C_LONG_DOUBLE_COMPLEX", "CXX_LONG_DOUBLE_COMPLEX"}
One == {"CHAR", "UNSIGNED_CHAR", "BYTE", "PACKED", "INT8_T", "SIGNED_CHAR", "UINT8_T",
        "C_BOOL", "CXX_BOOL"}

Handles == {AllHandle[n] : n \in DOMAIN AllHandle} \cup {"derived"}

Sizes ==
    [h \in Handles \ {"DATATYPE_NULL"} |->
        CASE h \in One -> 1 [] h \in Two -> 2 [] h \in Four -> 4 [] h \in Six -> 6
          [] h \in Twelve -> 12 [] h \in Sixteen -> 16 [] h \in Twenty -> 20
          [] h \in ThirtyTwo -> 32 [] OTHER -> 8]

\* Every pair of types, and a few of each size with counts at the boundaries.
Few == {"CHAR", "SHORT", "DOUBLE", "LONG_DOUBLE", "LONG_DOUBLE_INT", "C_COMPLEX",
        "C_LONG_DOUBLE_COMPLEX", "DATATYPE_NULL", "derived"}
AllCalls ==
    [sendtype : Handles, sendcount : {1}, recvtype : Handles, recvcount : {1}, world : {2}]
    \cup [sendtype : Few, sendcount : {0, 1, 3, 5},
          recvtype : Few, recvcount : {0, 1, 3, 5}, world : {1, 2}]

FreeRegions == {[send |-> 8, recv |-> 64], [send |-> 200, recv |-> 100]}
=============================================================================
