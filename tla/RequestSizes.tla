---------------------------- MODULE RequestSizes ----------------------------
(* The sizes and the types of one request, from the call in the host's        *)
(* program to the write into its receive buffer.  Host and DPU compute the    *)
(* sizes apart, each with its own width and sign, and the two datatypes       *)
(* travel as codes (Datatypes).  Scheduling, failures of the fabric and the   *)
(* other requests are left to DpuServer and HostLib.                          *)
EXTENDS Datatypes

CONSTANTS
    SizeOf,      \* what MPI_Type_size says of a handle, for those it accepts
    Types,       \* the handles a program may pass, in the table or not
    Calls,       \* the arguments it may pass
    World,       \* the number of DPUs
    Pool,        \* [send, recv]: what the pool of completed jobs may offer
    Half,        \* 2^31: an int is below it, a uint32_t below its double
    Room         \* the largest region either side can register

ASSUME SizesAssumption ==
    /\ Half \in Nat \ {0} /\ Room \in Nat /\ Half <= Room
    /\ World \in Nat \ {0}
    /\ Calls \subseteq [sendtype : Types, sendcount : Nat,
                       recvtype : Types, recvcount : Nat, world : Nat \ {0}]
    /\ \A h \in DOMAIN SizeOf : SizeOf[h] \in Nat
    /\ Null \notin DOMAIN SizeOf
    /\ Pool \subseteq [send : Nat, recv : Nat]

VARIABLES
    call,        \* the arguments of DPU_MPI_Ialltoall
    stage,       \* how far the request got
    region,      \* the bytes the host registered
    req,         \* the types in the request
    used,        \* send_used and recv_used of the job
    buffer,      \* the bytes behind bf_send_mr and bf_recv_mr
    coll,        \* the arguments of the collective
    moved        \* the bytes read from the host and written to it

vars == <<call, stage, region, req, used, buffer, coll, moved>>

-----------------------------------------------------------------------------
(* The sizes.                                                                 *)

HasSize(h) == h \in DOMAIN SizeOf

Bytes(h, count, world) == SizeOf[h] * count * world

\* The host multiplies ints and widens the product to a uint64_t.  An int that
\* overflows has no defined value: the build wraps, or multiplies in 64 bits.
Wrapped(n) == ((n + Half) % (2 * Half)) - Half
HostProducts(n) == {n, Wrapped(n)}

\* The DPU multiplies in uint32_t, whose first factor comes from the request.
DpuProduct(n) == n % (2 * Half)

SendBytes == Bytes(Unpack(req.send), call.sendcount, World)
RecvBytes == Bytes(Unpack(req.recv), call.recvcount, World)

\* A region of no bytes may be refused; one past the end of the buffer of the
\* program may be too.
Registers(n) == n \in 0..Room
Refuses(n, owned) == ~Registers(n) \/ n = 0 \/ n > owned

-----------------------------------------------------------------------------
Nothing == [send |-> 0, recv |-> 0]

Init ==
    /\ call \in Calls
    /\ stage = "call"
    /\ region = Nothing /\ used = Nothing /\ buffer = Nothing /\ moved = Nothing
    /\ req = [send |-> NoCode, recv |-> NoCode]
    /\ coll = <<>>

\* The bytes of the buffers the program passes.
Owned(type, count) == IF HasSize(type) THEN Bytes(type, count, call.world) ELSE 0

\* DPU_MPI_Ialltoall: both element sizes are the send type's.
Ialltoall ==
    /\ stage = "call"
    /\ \/ /\ ~HasSize(call.sendtype)
          /\ stage' = "refused"
          /\ UNCHANGED <<region, req>>
       \/ /\ HasSize(call.sendtype)
          /\ \E s \in HostProducts(Bytes(call.sendtype, call.sendcount, call.world)),
                r \in HostProducts(Bytes(call.sendtype, call.recvcount, call.world)) :
               \/ /\ \/ Refuses(s, Owned(call.sendtype, call.sendcount))
                     \/ Refuses(r, Owned(call.recvtype, call.recvcount))
                  /\ stage' = "refused"
                  /\ UNCHANGED <<region, req>>
               \/ /\ Registers(s) /\ Registers(r)
                  /\ stage' = "requested"
                  /\ region' = [send |-> s, recv |-> r]
                  /\ req' = [send |-> Pack(call.sendtype), recv |-> Pack(call.recvtype)]
    /\ UNCHANGED <<call, used, buffer, coll, moved>>

\* dpu_reuse_mr finds regions large enough, or the job gets its own.  Mutant:
\* the two sizes are passed in the wrong order.
Swapped(p, need) == p.send >= need.recv /\ p.recv >= need.send
LargeEnough(p, need) == p.send >= need.send /\ p.recv >= need.recv

OffloadRead ==
    /\ stage = "requested"
    /\ \/ /\ ~HasSize(Unpack(req.send)) \/ ~HasSize(Unpack(req.recv))
          /\ stage' = "failed"
          /\ UNCHANGED <<used, buffer>>
       \/ /\ HasSize(Unpack(req.send)) /\ HasSize(Unpack(req.recv))
          /\ used' = [send |-> DpuProduct(SendBytes), recv |-> DpuProduct(RecvBytes)]
          /\ \/ /\ \E p \in Pool : LargeEnough(p, used') /\ buffer' = p
                /\ stage' = "reading"
             \/ /\ Registers(used'.send) /\ Registers(used'.recv)
                /\ buffer' = used'
                /\ stage' = "reading"
             \/ /\ Refuses(used'.send, used'.send) \/ Refuses(used'.recv, used'.recv)
                /\ stage' = "failed"
                /\ UNCHANGED buffer
    /\ UNCHANGED <<call, region, req, coll, moved>>

\* The network card moves what is inside the host's region, and breaks the
\* connection otherwise.
Read ==
    /\ stage = "reading"
    /\ IF used.send <= region.send
       THEN stage' = "read" /\ moved' = [moved EXCEPT !.send = used.send]
       ELSE stage' = "broken" /\ UNCHANGED moved
    /\ UNCHANGED <<call, region, req, used, buffer, coll>>

\* offload_ialltoall passes the element counts, whose product nobody wraps.
OffloadIalltoall ==
    /\ stage = "read"
    /\ coll' = <<Unpack(req.send), call.sendcount, Unpack(req.recv), call.recvcount>>
    /\ stage' = "mpi"
    /\ UNCHANGED <<call, region, req, used, buffer, moved>>

\* offload_write computes the size once more.  Mutant: of the wrong buffer.
SendLength == DpuProduct(SendBytes)
WriteLength == DpuProduct(RecvBytes)

OffloadWrite ==
    /\ stage = "mpi"
    /\ IF WriteLength <= region.recv
       THEN stage' = "served" /\ moved' = [moved EXCEPT !.recv = WriteLength]
       ELSE stage' = "broken" /\ UNCHANGED moved
    /\ UNCHANGED <<call, region, req, used, buffer, coll>>

Over == {"refused", "failed", "broken", "served"}
Done == stage \in Over /\ UNCHANGED vars

Next == Ialltoall \/ OffloadRead \/ Read \/ OffloadIalltoall \/ OffloadWrite \/ Done

Spec == Init /\ [][Next]_vars

-----------------------------------------------------------------------------
(* A request the library is made for: both types have a code and one size,    *)
(* the host counts the DPUs, and an int holds the products.                   *)
Ordinary ==
    /\ Listed(call.sendtype) /\ Listed(call.recvtype)
    /\ HasSize(call.sendtype) /\ HasSize(call.recvtype)
    /\ SizeOf[call.sendtype] = SizeOf[call.recvtype]
    /\ call.world = World
    /\ Bytes(call.sendtype, call.sendcount, World) \in 1..(Half - 1)
    /\ Bytes(call.recvtype, call.recvcount, World) \in 1..(Half - 1)

\* Such a request is never turned down nor does it break the connection, and
\* every byte of both buffers is moved, although the host, offload_read and
\* offload_write compute the sizes apart (dpulib.c:154, main_bf.c:275 and 421).
ServedExactly ==
    Ordinary =>
        /\ stage \notin {"refused", "failed", "broken"}
        /\ stage = "served" =>
             moved = [send |-> Bytes(call.sendtype, call.sendcount, World),
                      recv |-> Bytes(call.recvtype, call.recvcount, World)]

\* Unless a product needs more than 32 bits, the collective stays inside the
\* buffers of the DPU, which may come from another job (main_bf.c:279); and the
\* DPU never writes past the receive buffer of a program that counts the DPUs,
\* although the region it was given is sized by the send type (dpulib.c:148).
InsideBuffers ==
    /\ coll # <<>> /\ SendBytes < 2 * Half /\ RecvBytes < 2 * Half =>
         SendBytes <= buffer.send /\ RecvBytes <= buffer.recv
    /\ stage = "served" /\ call.world = World =>
         moved.recv <= Bytes(call.recvtype, call.recvcount, World)

\* The collective runs with the types and counts of the caller, also for a
\* handle with two names, and never for one the tables do not hold
\* (dpucommon.c:3 and 51).
TypesAgree ==
    coll # <<>> =>
        coll = <<call.sendtype, call.sendcount, call.recvtype, call.recvcount>>
=============================================================================
