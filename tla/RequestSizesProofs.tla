------------------------ MODULE RequestSizesProofs ------------------------
(***************************************************************************)
(* Sizes and types of a request, for every table, every width of an int,   *)
(* every number of DPUs and every pool of regions.                         *)
(***************************************************************************)
EXTENDS RequestSizes, TLAPS, WellFoundedInduction

USE SizesAssumption

-----------------------------------------------------------------------------
(* Arithmetic.                                                             *)

LEMMA ModBelow ==
  ASSUME NEW n \in Nat, NEW m \in Nat \ {0}
  PROVE  /\ n % m \in Nat
         /\ n % m <= n
         /\ n < m => n % m = n
<1>1. n % m \in 0 .. (m - 1) /\ n = m * (n \div m) + (n % m) /\ n \div m \in Nat
  OBVIOUS
<1>2. m * (n \div m) \in Nat
  BY <1>1
<1>3. n < m => n \div m = 0
  <2> SUFFICES ASSUME n < m, n \div m # 0 PROVE FALSE
    OBVIOUS
  <2>1. n \div m >= 1
    BY <1>1
  <2>2. m * (n \div m) >= m
    BY <2>1, <1>1
  <2> QED
    BY <2>2, <1>1, <1>2
<1> QED
  BY <1>1, <1>2, <1>3

LEMMA WrapNone ==
  ASSUME NEW n \in Nat, n < Half
  PROVE  Wrapped(n) = n
<1>1. n + Half \in Nat /\ 2 * Half \in Nat \ {0} /\ n + Half < 2 * Half
  OBVIOUS
<1>2. (n + Half) % (2 * Half) = n + Half
  BY <1>1, ModBelow
<1> QED
  BY <1>2 DEF Wrapped

LEMMA ProductNat ==
  ASSUME NEW a \in Nat, NEW b \in Nat, NEW c \in Nat
  PROVE  a * b * c \in Nat
<1>1. a * b \in Nat
  OBVIOUS
<1> QED
  BY <1>1

\* The bytes of a type that has a size.
LEMMA BytesNat ==
  ASSUME NEW h, HasSize(h), NEW count \in Nat, NEW world \in Nat
  PROVE  Bytes(h, count, world) \in Nat
BY ProductNat DEF Bytes, HasSize

-----------------------------------------------------------------------------
(* The tables.                                                             *)

\* Of the tests that a handle passes, one is the first.
LEMMA FirstCode ==
  ASSUME NEW h, Listed(h)
  PROVE  \E k \in DOMAIN PackChain : FirstTest(k, h)
<1> DEFINE T == {k \in DOMAIN PackChain : Handle[PackChain[k][1]] = h}
<1>1. DOMAIN PackChain = 1 .. 42
  BY DEF PackChain
<1>2. T \subseteq Nat /\ T # {}
  BY <1>1 DEF Listed
<1>3. PICK k \in T : \A j \in T : ~ (<<j, k>> \in OpToRel(<, Nat))
  <2> HIDE DEF T
  <2> QED
    BY <1>2, NatLessThanWellFounded, WFMin
<1>4. \A j \in T : ~ (j < k)
  BY <1>2, <1>3 DEF OpToRel
<1>5. \A j \in 1 .. (k - 1) : j \in DOMAIN PackChain /\ j < k
  BY <1>1
<1> QED
  BY <1>3, <1>4, <1>5 DEF FirstTest

\* The code of each test has a case in the switch.
LEMMA EachCode == \A k \in DOMAIN PackChain : PackChain[k] \in UnpackCases
<1>1. DOMAIN PackChain = 1 .. 42
  BY DEF PackChain
<1>2. \A k \in 1 .. 10 : PackChain[k] \in UnpackCases
  BY SMTT(60) DEF PackChain, UnpackCases
<1>3. \A k \in 11 .. 20 : PackChain[k] \in UnpackCases
  BY SMTT(60) DEF PackChain, UnpackCases
<1>4. \A k \in 21 .. 30 : PackChain[k] \in UnpackCases
  BY SMTT(60) DEF PackChain, UnpackCases
<1>5. \A k \in 31 .. 42 : PackChain[k] \in UnpackCases
  BY SMTT(60) DEF PackChain, UnpackCases
<1> QED
  BY <1>1, <1>2, <1>3, <1>4, <1>5

\* A code has one case only.
LEMMA OneCase == \A c, d \in UnpackCases : c[1] = d[1] => c = d
<1>1. \A c \in UnpackCases : c = <<c[1], c[1]>>
  BY DEF UnpackCases
<1> QED
  BY <1>1

\* A handle comes back from the tables as itself, or as no handle.
LEMMA PackUnpack ==
  ASSUME NEW h
  PROVE  /\ Unpack(Pack(h)) \in {h, Null}
         /\ Listed(h) => Unpack(Pack(h)) = h
<1>1. CASE \E k \in DOMAIN PackChain : FirstTest(k, h)
  <2> DEFINE k == CHOOSE k \in DOMAIN PackChain : FirstTest(k, h)
  <2>1. k \in DOMAIN PackChain /\ FirstTest(k, h)
    BY <1>1
  <2>2. Pack(h) = PackChain[k][2]
    BY <1>1 DEF Pack
  <2> HIDE DEF k
  <2>3. PICK c \in UnpackCases : c = PackChain[k]
    BY <2>1, EachCode
  <2>4. c[1] = c[2]
    BY DEF UnpackCases
  <2>5. c \in CasesOf(Pack(h))
    BY <2>2, <2>3, <2>4 DEF CasesOf
  <2>6. \A d \in CasesOf(Pack(h)) : d = c
    BY <2>2, <2>3, <2>4, OneCase DEF CasesOf
  <2>7. Unpack(Pack(h)) = Returned(c)
    <3>1. (CHOOSE d \in CasesOf(Pack(h)) : TRUE) = c
      BY <2>5, <2>6
    <3> QED
      BY <2>5, <3>1 DEF Unpack
  <2>8. Returned(c) = h
    BY <2>1, <2>3, <2>4 DEF Returned, FirstTest
  <2> QED
    BY <2>7, <2>8
<1>2. CASE ~ \E k \in DOMAIN PackChain : FirstTest(k, h)
  <2>1. Pack(h) = NoCode
    BY <1>2 DEF Pack
  <2>2. \A c \in UnpackCases : c[1] # NoCode
    BY DEF UnpackCases, NoCode
  <2>3. CasesOf(NoCode) = {}
    BY <2>2 DEF CasesOf
  <2>4. ~ Listed(h)
    BY <1>2, FirstCode
  <2> QED
    BY <2>1, <2>3, <2>4 DEF Unpack
<1> QED
  BY <1>1, <1>2

-----------------------------------------------------------------------------
(* The invariant.                                                          *)

Requested == stage \notin {"call", "refused"}
Sized == stage \in {"reading", "read", "mpi", "served", "broken"}

SendTrue == Bytes(call.sendtype, call.sendcount, World)
RecvTrue == Bytes(call.recvtype, call.recvcount, World)

\* The types of the request are the caller's, as codes.
CodesInv ==
  /\ call \in Calls
  /\ stage \in {"call", "refused", "requested", "failed", "reading", "read", "mpi",
                "served", "broken"}
  /\ Requested => req = [send |-> Pack(call.sendtype), recv |-> Pack(call.recvtype)]
  /\ Sized => HasSize(Unpack(req.send)) /\ HasSize(Unpack(req.recv))

\* The buffers hold what the job is said to use.
BufferInv ==
  Sized =>
    /\ used = [send |-> DpuProduct(SendBytes), recv |-> DpuProduct(RecvBytes)]
    /\ buffer.send \in Nat /\ buffer.recv \in Nat
    /\ used.send <= buffer.send /\ used.recv <= buffer.recv

\* The collective has the arguments of the request.
CallInv ==
  /\ coll # <<>> => Sized
  /\ coll # <<>> =>
       coll = <<Unpack(req.send), call.sendcount, Unpack(req.recv), call.recvcount>>
  /\ moved \in [send : Nat, recv : Nat]
  /\ stage = "served" => moved.recv = WriteLength

\* An ordinary request is never turned down: the host registers both buffers,
\* and the DPU reads the whole of the first.
OrdinaryInv ==
  Ordinary =>
    /\ stage \notin {"refused", "failed", "broken"}
    /\ Requested => region = [send |-> SendTrue, recv |-> RecvTrue]
    /\ stage \in {"read", "mpi", "served"} => moved.send = SendTrue

SizesInv == CodesInv /\ BufferInv /\ CallInv

\* A request past its sizing has the types of the caller, both with a size.
LEMMA SizedTypes ==
  ASSUME CodesInv, Sized
  PROVE  /\ Unpack(req.send) = call.sendtype /\ Unpack(req.recv) = call.recvtype
         /\ SendBytes = SendTrue /\ RecvBytes = RecvTrue
         /\ SendBytes \in Nat /\ RecvBytes \in Nat
<1>1. /\ call.sendtype \in Types /\ call.recvtype \in Types
      /\ call.sendcount \in Nat /\ call.recvcount \in Nat
  BY DEF CodesInv
<1>2. req = [send |-> Pack(call.sendtype), recv |-> Pack(call.recvtype)]
  BY DEF CodesInv, Sized, Requested
<1>3. Unpack(req.send) # Null /\ Unpack(req.recv) # Null
  BY DEF CodesInv, HasSize
<1>4. Unpack(req.send) = call.sendtype /\ Unpack(req.recv) = call.recvtype
  BY <1>1, <1>2, <1>3, PackUnpack
<1>5. SendBytes \in Nat /\ RecvBytes \in Nat
  BY <1>1, BytesNat DEF CodesInv, SendBytes, RecvBytes
<1> QED
  BY <1>4, <1>5 DEF SendBytes, RecvBytes, SendTrue, RecvTrue

LEMMA InitSizesInv == Init => SizesInv
BY DEF Init, SizesInv, CodesInv, BufferInv, CallInv, Requested, Sized, Nothing

LEMMA NextSizesInv == SizesInv /\ [Next]_vars => SizesInv'
<1> SUFFICES ASSUME SizesInv, [Next]_vars PROVE SizesInv'
  OBVIOUS
<1> USE DEF SizesInv
<1>1. CASE Ialltoall
  <2>1. coll = <<>>
    BY <1>1 DEF CallInv, Sized, Ialltoall
  <2>2. CodesInv'
    BY <1>1 DEF Ialltoall, CodesInv, Requested, Sized
  <2>3. BufferInv' /\ CallInv'
    BY <1>1, <2>1 DEF Ialltoall, BufferInv, CallInv, Sized
  <2> QED
    BY <2>2, <2>3
<1>2. CASE OffloadRead
  <2>1. coll = <<>>
    BY <1>2 DEF CallInv, Sized, OffloadRead
  <2>2. UNCHANGED <<call, region, req, coll, moved>>
    BY <1>2 DEF OffloadRead
  <2>3. CodesInv'
    BY <1>2, <2>2 DEF OffloadRead, CodesInv, Requested, Sized, Unpack
  <2>4. CallInv'
    BY <1>2, <2>1, <2>2 DEF OffloadRead, CallInv
  <2>5. BufferInv'
    <3> SUFFICES ASSUME Sized' PROVE BufferInv'
      BY DEF BufferInv
    <3>1. used' = [send |-> DpuProduct(SendBytes), recv |-> DpuProduct(RecvBytes)]
      BY <1>2 DEF OffloadRead, Sized
    <3>2. DpuProduct(SendBytes)' = DpuProduct(SendBytes) /\ DpuProduct(RecvBytes)' = DpuProduct(RecvBytes)
      BY <2>2 DEF DpuProduct, SendBytes, RecvBytes, Unpack, Bytes
    <3>3. \/ buffer' \in Pool /\ LargeEnough(buffer', used')
          \/ buffer' = used' /\ Registers(used'.send) /\ Registers(used'.recv)
      BY <1>2 DEF OffloadRead, Sized
    <3>4. /\ buffer'.send \in Nat /\ buffer'.recv \in Nat
          /\ used'.send <= buffer'.send /\ used'.recv <= buffer'.recv
      BY <3>3 DEF LargeEnough, Registers
    <3> QED
      BY <3>1, <3>2, <3>4 DEF BufferInv
  <2> QED
    BY <2>3, <2>4, <2>5
<1>3. CASE Read
  <2>1. UNCHANGED <<call, region, req, used, buffer, coll>>
    BY <1>3 DEF Read
  <2>2. stage = "reading" /\ stage' \in {"read", "broken"}
    BY <1>3 DEF Read
  <2>3. CodesInv'
    BY <2>1, <2>2 DEF CodesInv, Requested, Sized, Unpack
  <2>4. BufferInv'
    BY <2>1, <2>2 DEF BufferInv, Sized, DpuProduct, SendBytes, RecvBytes, Unpack, Bytes
  <2>5. CallInv'
    <3>1. used.send \in Nat
      <4>1. SendBytes \in Nat /\ 2 * Half \in Nat \ {0}
        BY <2>2, SizedTypes DEF Sized
      <4>2. DpuProduct(SendBytes) \in Nat
        BY <4>1, ModBelow DEF DpuProduct
      <4> QED
        BY <2>2, <4>2 DEF Sized, BufferInv
    <3>2. moved' \in [send : Nat, recv : Nat]
      BY <1>3, <3>1 DEF Read, CallInv
    <3> QED
      BY <2>1, <2>2, <3>2 DEF CallInv, Sized, Unpack
  <2> QED
    BY <2>3, <2>4, <2>5
<1>4. CASE OffloadIalltoall
  <2>1. UNCHANGED <<call, region, req, used, buffer, moved>>
    BY <1>4 DEF OffloadIalltoall
  <2>2. stage = "read" /\ stage' = "mpi"
    BY <1>4 DEF OffloadIalltoall
  <2>3. CodesInv'
    BY <2>1, <2>2 DEF CodesInv, Requested, Sized, Unpack
  <2>4. BufferInv'
    BY <2>1, <2>2 DEF BufferInv, Sized, DpuProduct, SendBytes, RecvBytes, Unpack, Bytes
  <2>5. CallInv'
    BY <1>4, <2>1, <2>2 DEF OffloadIalltoall, CallInv, Sized, Unpack
  <2> QED
    BY <2>3, <2>4, <2>5
<1>5. CASE OffloadWrite
  <2>1. UNCHANGED <<call, region, req, used, buffer, coll>>
    BY <1>5 DEF OffloadWrite
  <2>2. stage = "mpi" /\ stage' \in {"served", "broken"}
    BY <1>5 DEF OffloadWrite
  <2>3. CodesInv'
    BY <2>1, <2>2 DEF CodesInv, Requested, Sized, Unpack
  <2>4. BufferInv'
    BY <2>1, <2>2 DEF BufferInv, Sized, DpuProduct, SendBytes, RecvBytes, Unpack, Bytes
  <2>5. CallInv'
    <3>1. WriteLength' = WriteLength
      BY <2>1 DEF WriteLength, DpuProduct, RecvBytes, Unpack, Bytes
    <3>2. WriteLength \in Nat
      BY <2>2, SizedTypes, ModBelow DEF Sized, WriteLength, DpuProduct
    <3>3. /\ moved' \in [send : Nat, recv : Nat]
          /\ stage' = "served" => moved'.recv = WriteLength
      BY <1>5, <3>2 DEF OffloadWrite, CallInv
    <3> QED
      BY <2>1, <2>2, <3>1, <3>3 DEF CallInv, Sized, Unpack
  <2> QED
    BY <2>3, <2>4, <2>5
<1>6. CASE UNCHANGED vars
  BY <1>6 DEF vars, CodesInv, BufferInv, CallInv, Requested, Sized, DpuProduct, SendBytes,
              RecvBytes, WriteLength, Unpack, Bytes
<1> QED
  BY <1>1, <1>2, <1>3, <1>4, <1>5, <1>6 DEF Next, Done

-----------------------------------------------------------------------------
(* Ordinary requests.                                                      *)

LEMMA OrdinaryFacts ==
  ASSUME CodesInv, Ordinary
  PROVE  /\ SendTrue \in 1 .. (Half - 1) /\ RecvTrue \in 1 .. (Half - 1)
         /\ HasSize(call.sendtype) /\ HasSize(call.recvtype)
         /\ Requested => /\ Unpack(req.send) = call.sendtype
                         /\ Unpack(req.recv) = call.recvtype
                         /\ SendBytes = SendTrue /\ RecvBytes = RecvTrue
                         /\ DpuProduct(SendBytes) = SendTrue
                         /\ DpuProduct(RecvBytes) = RecvTrue
<1>1. SendTrue \in 1 .. (Half - 1) /\ RecvTrue \in 1 .. (Half - 1)
  BY DEF Ordinary, SendTrue, RecvTrue
<1>2. HasSize(call.sendtype) /\ HasSize(call.recvtype)
  BY DEF Ordinary, Listed
<1>3. ASSUME Requested
      PROVE  Unpack(req.send) = call.sendtype /\ Unpack(req.recv) = call.recvtype
  <2>1. call.sendtype \in Types /\ call.recvtype \in Types
    BY DEF CodesInv
  <2> QED
    BY <1>3, <2>1, PackUnpack DEF CodesInv, Ordinary
<1>4. ASSUME Requested
      PROVE  SendBytes = SendTrue /\ RecvBytes = RecvTrue
  BY <1>3, <1>4 DEF SendBytes, RecvBytes, SendTrue, RecvTrue
<1>5. DpuProduct(SendTrue) = SendTrue /\ DpuProduct(RecvTrue) = RecvTrue
  <2>1. SendTrue \in Nat /\ RecvTrue \in Nat /\ 2 * Half \in Nat \ {0}
    BY <1>1
  <2>2. SendTrue < 2 * Half /\ RecvTrue < 2 * Half
    BY <1>1
  <2> QED
    BY <2>1, <2>2, ModBelow DEF DpuProduct
<1> QED
  BY <1>1, <1>2, <1>3, <1>4, <1>5

LEMMA InitOrdinary == Init => OrdinaryInv
BY DEF Init, OrdinaryInv, Requested

LEMMA NextOrdinary == SizesInv /\ OrdinaryInv /\ [Next]_vars => OrdinaryInv'
<1> SUFFICES ASSUME SizesInv, OrdinaryInv, [Next]_vars, Ordinary' PROVE OrdinaryInv'
  BY DEF OrdinaryInv
<1>0. call' = call
  BY DEF Next, vars, Ialltoall, OffloadRead, Read, OffloadIalltoall, OffloadWrite, Done
<1>1. Ordinary /\ SendTrue' = SendTrue /\ RecvTrue' = RecvTrue
  BY <1>0 DEF Ordinary, Listed, HasSize, Bytes, SendTrue, RecvTrue
<1>2. /\ SendTrue \in 1 .. (Half - 1) /\ RecvTrue \in 1 .. (Half - 1)
      /\ HasSize(call.sendtype) /\ HasSize(call.recvtype)
      /\ Requested => /\ Unpack(req.send) = call.sendtype
                      /\ Unpack(req.recv) = call.recvtype
                      /\ DpuProduct(SendBytes) = SendTrue
                      /\ DpuProduct(RecvBytes) = RecvTrue
  BY <1>1, OrdinaryFacts DEF SizesInv
<1>3. \A n \in {SendTrue, RecvTrue} :
        Registers(n) /\ ~ Refuses(n, n) /\ HostProducts(n) = {n}
  <2> SUFFICES ASSUME NEW n \in 1 .. (Half - 1)
               PROVE  Registers(n) /\ ~ Refuses(n, n) /\ HostProducts(n) = {n}
    BY <1>2
  <2>1. Wrapped(n) = n
    BY WrapNone
  <2> QED
    BY <2>1 DEF Registers, Refuses, HostProducts
<1>4. CASE Ialltoall
  <2>1. stage = "call"
    BY <1>4 DEF Ialltoall
  <2>2. /\ Owned(call.sendtype, call.sendcount) = SendTrue
        /\ Owned(call.recvtype, call.recvcount) = RecvTrue
        /\ Bytes(call.sendtype, call.sendcount, call.world) = SendTrue
        /\ Bytes(call.sendtype, call.recvcount, call.world) = RecvTrue
    BY <1>1, <1>2 DEF Owned, Ordinary, SendTrue, RecvTrue, Bytes
  <2>3. stage' = "requested" /\ region' = [send |-> SendTrue, recv |-> RecvTrue]
    BY <1>4, <1>2, <1>3, <2>2 DEF Ialltoall
  <2> QED
    BY <1>1, <2>3 DEF OrdinaryInv
<1>5. CASE OffloadRead
  <2>1. stage = "requested" /\ Requested
    BY <1>5 DEF OffloadRead, Requested
  <2>2. stage' = "reading"
    <3>1. HasSize(Unpack(req.send)) /\ HasSize(Unpack(req.recv))
      BY <1>2, <2>1
    <3>2. used' = [send |-> SendTrue, recv |-> RecvTrue]
      BY <1>5, <1>2, <2>1, <3>1 DEF OffloadRead
    <3>3. ~ Refuses(used'.send, used'.send) /\ ~ Refuses(used'.recv, used'.recv)
      BY <3>2, <1>3
    <3> QED
      BY <1>5, <3>1, <3>3 DEF OffloadRead
  <2>3. UNCHANGED region
    BY <1>5 DEF OffloadRead
  <2> QED
    BY <1>1, <2>1, <2>2, <2>3 DEF OrdinaryInv
<1>6. CASE Read
  <2>1. stage = "reading" /\ Requested /\ Sized /\ UNCHANGED region
    BY <1>6 DEF Read, Requested, Sized
  <2>2. used.send = SendTrue /\ region.send = SendTrue
    BY <1>1, <1>2, <2>1 DEF SizesInv, BufferInv, OrdinaryInv
  <2>3. stage' = "read" /\ moved' = [moved EXCEPT !.send = SendTrue]
    BY <1>6, <1>2, <2>2 DEF Read
  <2>4. moved'.send = SendTrue
    BY <2>3 DEF SizesInv, CallInv
  <2> QED
    BY <1>1, <2>1, <2>3, <2>4 DEF OrdinaryInv
<1>7. CASE OffloadIalltoall
  BY <1>1, <1>7 DEF OffloadIalltoall, OrdinaryInv, Requested
<1>8. CASE OffloadWrite
  <2>1. stage = "mpi" /\ Requested /\ UNCHANGED region
    BY <1>8 DEF OffloadWrite, Requested
  <2>2. WriteLength = RecvTrue /\ region.recv = RecvTrue /\ moved.send = SendTrue
    BY <1>1, <1>2, <2>1 DEF WriteLength, OrdinaryInv
  <2>3. stage' = "served" /\ moved' = [moved EXCEPT !.recv = RecvTrue]
    BY <1>8, <1>2, <2>2 DEF OffloadWrite
  <2>4. moved'.send = SendTrue
    BY <2>2, <2>3 DEF SizesInv, CallInv
  <2> QED
    BY <1>1, <2>1, <2>2, <2>3, <2>4 DEF OrdinaryInv
<1>9. CASE UNCHANGED vars
  BY <1>1, <1>9 DEF vars, OrdinaryInv, Requested
<1> QED
  BY <1>4, <1>5, <1>6, <1>7, <1>8, <1>9 DEF Next, Done

-----------------------------------------------------------------------------
(* The theorems.                                                           *)

LEMMA SizesInvariant == Spec => []SizesInv
BY InitSizesInv, NextSizesInv, PTL DEF Spec

\* Whatever handles the names stand for, two for the same one included, and the
\* types a program passes, the tables of pack and unpack undo each other: the
\* collective has the caller's types and counts (dpucommon.c:3 and 51).
THEOREM RequestTypesAgree == Spec => []TypesAgree
<1>1. SizesInv => TypesAgree
  BY SizedTypes DEF SizesInv, CallInv, TypesAgree
<1> QED
  BY <1>1, SizesInvariant, PTL

\* Whatever the width of an int, the counts and the regions of earlier jobs,
\* the collective stays inside the buffers of the DPU and the write inside the
\* receive buffer of the caller (main_bf.c:275 and 421).
THEOREM RequestInsideBuffers == Spec => []InsideBuffers
<1>1. SizesInv => InsideBuffers
  <2> SUFFICES ASSUME SizesInv PROVE InsideBuffers
    OBVIOUS
  <2>1. ASSUME coll # <<>>, SendBytes < 2 * Half, RecvBytes < 2 * Half
        PROVE  SendBytes <= buffer.send /\ RecvBytes <= buffer.recv
    <3>1. Sized
      BY <2>1 DEF SizesInv, CallInv
    <3>2. SendBytes \in Nat /\ RecvBytes \in Nat
      BY <3>1, SizedTypes DEF SizesInv
    <3>3. DpuProduct(SendBytes) = SendBytes /\ DpuProduct(RecvBytes) = RecvBytes
      BY <2>1, <3>2, ModBelow DEF DpuProduct
    <3> QED
      BY <3>1, <3>3 DEF SizesInv, BufferInv
  <2>2. ASSUME stage = "served", call.world = World
        PROVE  moved.recv <= Bytes(call.recvtype, call.recvcount, World)
    <3>1. RecvBytes \in Nat /\ RecvBytes = RecvTrue
      BY <2>2, SizedTypes DEF SizesInv, Sized
    <3>2. DpuProduct(RecvBytes) <= RecvBytes
      BY <3>1, ModBelow DEF DpuProduct
    <3> QED
      BY <2>2, <3>1, <3>2 DEF SizesInv, CallInv, WriteLength, RecvTrue
  <2> QED
    BY <2>1, <2>2 DEF InsideBuffers
<1> QED
  BY <1>1, SizesInvariant, PTL

\* Whatever handles the names stand for and their sizes, a request whose products fit
\* an int is served, to its last byte (dpulib.c:154, main_bf.c:275 and 421).
THEOREM RequestServedExactly == Spec => []ServedExactly
<1>1. SizesInv /\ OrdinaryInv => ServedExactly
  <2> SUFFICES ASSUME SizesInv, OrdinaryInv, Ordinary
               PROVE  /\ stage \notin {"refused", "failed", "broken"}
                      /\ stage = "served" => moved = [send |-> SendTrue, recv |-> RecvTrue]
    BY DEF ServedExactly, SendTrue, RecvTrue
  <2>1. stage \notin {"refused", "failed", "broken"}
    BY DEF OrdinaryInv
  <2>2. ASSUME stage = "served"
        PROVE  moved = [send |-> SendTrue, recv |-> RecvTrue]
    <3>1. moved.send = SendTrue
      BY <2>2 DEF OrdinaryInv
    <3>2. moved.recv = RecvTrue
      BY <2>2, OrdinaryFacts DEF SizesInv, CallInv, WriteLength, Requested
    <3> QED
      BY <3>1, <3>2 DEF SizesInv, CallInv
  <2> QED
    BY <2>1, <2>2
<1>2. SizesInv /\ OrdinaryInv /\ [Next]_vars => OrdinaryInv'
  BY NextOrdinary
<1>3. Spec => []OrdinaryInv
  BY InitOrdinary, SizesInvariant, <1>2, PTL DEF Spec
<1> QED
  BY <1>1, <1>3, SizesInvariant, PTL
=============================================================================
