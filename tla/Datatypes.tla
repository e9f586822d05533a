------------------------------ MODULE Datatypes ------------------------------
(* The two tables that translate an MPI_Datatype to the code that travels in  *)
(* a request and back (dpucommon.c).  They are written apart, the first as a  *)
(* chain of tests and the second as a switch, so each is copied here as it    *)
(* stands.  A code is its enumerator: dpucommon.h gives the 42 of them        *)
(* different values, none of them -1.  The prefixes MPI_ and DPU_MPI_ are     *)
(* left out.                                                                  *)
EXTENDS Integers, Sequences

CONSTANTS
    Handle,      \* the MPI_Datatype each MPI name stands for: some are aliases
    Null         \* the handle 0

\* What is tested, in this order, and the code returned.
PackChain == <<
    <<"CHAR", "CHAR">>, <<"UNSIGNED_CHAR", "UNSIGNED_CHAR">>,
    <<"SHORT", "SHORT">>, <<"UNSIGNED_SHORT", "UNSIGNED_SHORT">>,
    <<"INT", "INT">>, <<"UNSIGNED", "UNSIGNED">>,
    <<"LONG", "LONG">>, <<"UNSIGNED_LONG", "UNSIGNED_LONG">>,
    <<"LONG_LONG_INT", "LONG_LONG_INT">>, <<"FLOAT", "FLOAT">>,
    <<"DOUBLE", "DOUBLE">>, <<"LONG_DOUBLE", "LONG_DOUBLE">>,
    <<"BYTE", "BYTE">>, <<"UINT32_T", "UINT32_T">>,
    <<"DATATYPE_NULL", "DATATYPE_NULL">>, <<"PACKED", "PACKED">>,
    <<"INT8_T", "INT8_T">>, <<"SIGNED_CHAR", "SIGNED_CHAR">>,
    <<"FLOAT_INT", "FLOAT_INT">>, <<"DOUBLE_INT", "DOUBLE_INT">>,
    <<"LONG_DOUBLE_INT", "LONG_DOUBLE_INT">>, <<"UINT8_T", "UINT8_T">>,
    <<"LONG_INT", "LONG_INT">>, <<"SHORT_INT", "SHORT_INT">>,
    <<"INT16_T", "INT16_T">>, <<"2INT", "2INT">>,
    <<"UINT16_T", "UINT16_T">>, <<"INT32_T", "INT32_T">>,
    <<"INT64_T", "INT64_T">>, <<"UINT64_T", "UINT64_T">>,
    <<"AINT", "AINT">>, <<"OFFSET", "OFFSET">>,
    <<"C_BOOL", "C_BOOL">>, <<"C_COMPLEX", "C_COMPLEX">>,
    <<"C_FLOAT_COMPLEX", "C_FLOAT_COMPLEX">>,
    <<"C_DOUBLE_COMPLEX", "C_DOUBLE_COMPLEX">>,
    <<"C_LONG_DOUBLE_COMPLEX", "C_LONG_DOUBLE_COMPLEX">>,
    <<"CXX_BOOL", "CXX_BOOL">>, <<"CXX_COMPLEX", "CXX_COMPLEX">>,
    <<"CXX_DOUBLE_COMPLEX", "CXX_DOUBLE_COMPLEX">>,
    <<"CXX_FLOAT_COMPLEX", "CXX_FLOAT_COMPLEX">>,
    <<"CXX_LONG_DOUBLE_COMPLEX", "CXX_LONG_DOUBLE_COMPLEX">> >>

\* The codes of the switch, and what is returned for each.
UnpackCases == {
    <<"CHAR", "CHAR">>, <<"UNSIGNED_CHAR", "UNSIGNED_CHAR">>,
    <<"SIGNED_CHAR", "SIGNED_CHAR">>, <<"SHORT", "SHORT">>,
    <<"UNSIGNED_SHORT", "UNSIGNED_SHORT">>, <<"INT", "INT">>,
    <<"UNSIGNED", "UNSIGNED">>, <<"LONG", "LONG">>,
    <<"UNSIGNED_LONG", "UNSIGNED_LONG">>, <<"LONG_LONG_INT", "LONG_LONG_INT">>,
    <<"FLOAT", "FLOAT">>, <<"DOUBLE", "DOUBLE">>,
    <<"LONG_DOUBLE", "LONG_DOUBLE">>, <<"BYTE", "BYTE">>,
    <<"UINT32_T", "UINT32_T">>, <<"DATATYPE_NULL", "DATATYPE_NULL">>,
    <<"PACKED", "PACKED">>, <<"FLOAT_INT", "FLOAT_INT">>,
    <<"DOUBLE_INT", "DOUBLE_INT">>, <<"LONG_DOUBLE_INT", "LONG_DOUBLE_INT">>,
    <<"LONG_INT", "LONG_INT">>, <<"SHORT_INT", "SHORT_INT">>,
    <<"2INT", "2INT">>, <<"INT8_T", "INT8_T">>,
    <<"UINT8_T", "UINT8_T">>, <<"INT16_T", "INT16_T">>,
    <<"UINT16_T", "UINT16_T">>, <<"INT32_T", "INT32_T">>,
    <<"INT64_T", "INT64_T">>, <<"UINT64_T", "UINT64_T">>,
    <<"AINT", "AINT">>, <<"OFFSET", "OFFSET">>,
    <<"C_BOOL", "C_BOOL">>, <<"C_COMPLEX", "C_COMPLEX">>,
    <<"C_FLOAT_COMPLEX", "C_FLOAT_COMPLEX">>,
    <<"C_DOUBLE_COMPLEX", "C_DOUBLE_COMPLEX">>,
    <<"C_LONG_DOUBLE_COMPLEX", "C_LONG_DOUBLE_COMPLEX">>,
    <<"CXX_BOOL", "CXX_BOOL">>, <<"CXX_COMPLEX", "CXX_COMPLEX">>,
    <<"CXX_FLOAT_COMPLEX", "CXX_FLOAT_COMPLEX">>,
    <<"CXX_DOUBLE_COMPLEX", "CXX_DOUBLE_COMPLEX">>,
    <<"CXX_LONG_DOUBLE_COMPLEX", "CXX_LONG_DOUBLE_COMPLEX">> }

\* Every MPI name of the tables stands for a handle.
ASSUME HandleAssumption ==
    /\ \A k \in DOMAIN PackChain : PackChain[k][1] \in DOMAIN Handle
    /\ \A c \in UnpackCases : c[2] \in DOMAIN Handle

NoCode == "-1"

\* The first test that the handle passes: of two names for one handle, the
\* second is never reached.
FirstTest(k, h) ==
    /\ k \in DOMAIN PackChain /\ Handle[PackChain[k][1]] = h
    /\ \A j \in 1..(k - 1) : Handle[PackChain[j][1]] # h

Pack(h) ==
    IF \E k \in DOMAIN PackChain : FirstTest(k, h)
    THEN PackChain[CHOOSE k \in DOMAIN PackChain : FirstTest(k, h)][2]
    ELSE NoCode

CasesOf(code) == {c \in UnpackCases : c[1] = code}

\* What a case returns.  Mutant: the return of one case is missing, and it
\* falls through to the next.
FallsThrough(c) == IF c[1] = "SHORT" THEN Handle["UNSIGNED_SHORT"] ELSE Handle[c[2]]
Returned(c)     == Handle[c[2]]

Unpack(code) ==
    IF CasesOf(code) = {} THEN Null ELSE Returned(CHOOSE c \in CasesOf(code) : TRUE)

\* The handles that Pack has a code for.
Listed(h) == \E k \in DOMAIN PackChain : Handle[PackChain[k][1]] = h
=============================================================================
