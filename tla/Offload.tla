------------------------------ MODULE Offload ------------------------------
(***************************************************************************)
(* The whole system: one host and one DPU per rank (dpulib.c, main_bf.c),  *)
(* their connection, and MPI between the DPUs.                             *)
(*                                                                         *)
(* The parts are coarser than in DpuServer and HostLib: slots, regions and *)
(* the completion table are left out, because those modules show that they *)
(* serve one request like another.  What remains is what the ranks owe     *)
(* each other: the order of requests, reads and collectives, and when a    *)
(* host or a DPU may go.                                                   *)
(***************************************************************************)
EXTENDS Integers, Sequences

CONSTANTS
  Rank,    \* hosts, each with its DPU
  Hasty,   \* hosts that may call DPU_Exit() with operations open
  MaxOp,   \* bound: operations of a host
  Faults   \* TRUE when a DPU may fail

ASSUME OffloadAssumption ==
  /\ Hasty \subseteq Rank
  /\ MaxOp \in Nat
  /\ Faults \in BOOLEAN

Op == 1 .. MaxOp

VARIABLES
  called,    \* calls of DPU_MPI_Ialltoall() by each host
  recv,      \* its one receive: None, Posted, or the operation it brought
  told,      \* operations its library has booked as complete
  tested,    \* operations DPU_MPI_Test() or _Wait() has reported to it
  left,      \* the host has called DPU_Exit()
  received,  \* its receive buffers: whose block of which operation
  wire,      \* messages sent to the DPU and not taken by its loop
  job,       \* of the DPU: status of the job of each operation
  sq, cq,    \* its work requests: posted; executed and not polled
  coll,      \* its calls of MPI_Ialltoall(), in order
  server     \* its process

hostVars == <<called, recv, told, tested, left>>
dpuVars  == <<job, sq, cq, coll, server>>
vars == <<hostVars, received, wire, dpuVars>>

-----------------------------------------------------------------------------

Goodbye == 0
None   == 0
Posted == -1
NoBlocks == [q \in Rank |-> 0]

\* job_list[].status without the slots; "none" is an operation that has not
\* come in.
JobStatus == {"none", "RS_READ", "RS_MPI", "RS_PUT", "RS_CPIN"}

Init ==
  /\ called   = [r \in Rank |-> 0]
  /\ recv     = [r \in Rank |-> None]
  /\ told     = [r \in Rank |-> {}]
  /\ tested   = [r \in Rank |-> {}]
  /\ left     = [r \in Rank |-> FALSE]
  /\ received = [r \in Rank |-> [o \in Op |-> NoBlocks]]
  /\ wire     = [r \in Rank |-> <<>>]
  /\ job      = [r \in Rank |-> [o \in Op |-> "none"]]
  /\ sq       = [r \in Rank |-> <<>>]
  /\ cq       = [r \in Rank |-> <<>>]
  /\ coll     = [r \in Rank |-> <<>>]
  /\ server   = [r \in Rank |-> "running"]

-----------------------------------------------------------------------------
(* The host.                                                               *)

\* DPU_MPI_Ialltoall(): the request is sent.
HostCalls(r) ==
  /\ ~left[r] /\ called[r] < MaxOp
  /\ called' = [called EXCEPT ![r] = @ + 1]
  /\ wire' = [wire EXCEPT ![r] = Append(@, called[r] + 1)]
  /\ UNCHANGED <<recv, told, tested, left, received, dpuVars>>

\* The library posts a receive only when it is called to poll and the one
\* before has been used up.
HostPosts(r) ==
  /\ ~left[r] /\ recv[r] = None
  /\ recv' = [recv EXCEPT ![r] = Posted]
  /\ UNCHANGED <<called, told, tested, left, received, wire, dpuVars>>

\* A completion has come in.  Mutant: the result of ibv_poll_cq() is not
\* looked at.
Unchecked(r) == recv[r] # None

Arrived(r) == recv[r] \in Op

\* What pending_recvs becomes.  Mutant: it is not decremented.
StillPending(r) == recv[r]

UsedUp(r) == None

\* It polls a completion and books the operation.
HostPolls(r) ==
  /\ ~left[r] /\ Arrived(r)
  /\ told' = [told EXCEPT ![r] = @ \cup {recv[r]}]
  /\ recv' = [recv EXCEPT ![r] = UsedUp(r)]
  /\ UNCHANGED <<called, tested, left, received, wire, dpuVars>>

\* What a test may report.  Mutant: anything the host has asked for.
AnyCalled(r) == 1 .. called[r]

Booked(r) == told[r]

\* DPU_MPI_Test() or DPU_MPI_Wait() finds the operation completed, and
\* releases its buffers.
HostTests(r, o) ==
  /\ ~left[r]
  /\ o \in Booked(r) \ tested[r]
  /\ tested' = [tested EXCEPT ![r] = @ \cup {o}]
  /\ UNCHANGED <<called, recv, told, left, received, wire, dpuVars>>

\* DPU_Exit(): the goodbye.
HostExits(r) ==
  /\ ~left[r]
  /\ r \in Hasty \/ tested[r] = 1 .. called[r]
  /\ left' = [left EXCEPT ![r] = TRUE]
  /\ wire' = [wire EXCEPT ![r] = Append(@, Goodbye)]
  /\ UNCHANGED <<called, recv, told, tested, received, dpuVars>>

-----------------------------------------------------------------------------
(* The DPU.                                                                *)

Post(r, o, opcode) == sq' = [sq EXCEPT ![r] = Append(@, [op |-> o, opcode |-> opcode])]

Message(r, m) ==
  /\ server[r] = "running" /\ wire[r] # <<>>
  /\ m = Head(wire[r])
  /\ wire' = [wire EXCEPT ![r] = Tail(@)]

\* A request becomes a job, and its RDMA read is posted.
ServerAccepts(r, o) ==
  /\ Message(r, o)
  /\ job' = [job EXCEPT ![r][o] = "RS_READ"]
  /\ Post(r, o, "READ")
  /\ UNCHANGED <<hostVars, received, cq, coll, server>>

\* The goodbye: the loop ends at once, whatever jobs are in flight, and the
\* connection goes with it.
ServerLeaves(r) ==
  /\ Message(r, Goodbye)
  /\ server' = [server EXCEPT ![r] = "disconnected"]
  /\ UNCHANGED <<hostVars, received, job, sq, cq, coll>>

\* Anything that ends DpuServer with "failed" or "queue_full".
ServerFails(r) ==
  /\ Faults /\ server[r] = "running"
  /\ server' = [server EXCEPT ![r] = "failed"]
  /\ UNCHANGED <<hostVars, received, wire, job, sq, cq, coll>>

\* A completion goes to the job that its wr_id names.  Mutant: to the job the
\* loop is at, which may be another that waits for the same.
PolledForAny(r, wr) ==
  /\ server[r] = "running" /\ cq[r] # <<>>
  /\ wr.opcode = Head(cq[r]).opcode
  /\ cq' = [cq EXCEPT ![r] = Tail(@)]

Polled(r, wr) ==
  /\ server[r] = "running" /\ cq[r] # <<>>
  /\ wr = Head(cq[r])
  /\ cq' = [cq EXCEPT ![r] = Tail(@)]

\* bf_advance() and offload_ialltoall().
StartCollective(r, o) ==
  /\ Polled(r, [op |-> o, opcode |-> "READ"])
  /\ job[r][o] = "RS_READ"
  /\ job' = [job EXCEPT ![r][o] = "RS_MPI"]
  /\ coll' = [coll EXCEPT ![r] = Append(@, o)]
  /\ UNCHANGED <<hostVars, received, wire, sq, server>>

CompleteJob(r, o) ==
  /\ Polled(r, [op |-> o, opcode |-> "WRITE"])
  /\ job[r][o] = "RS_PUT"
  /\ job' = [job EXCEPT ![r][o] = "RS_CPIN"]
  /\ UNCHANGED <<hostVars, received, wire, sq, coll, server>>

\* MPI matches the k-th collective of each rank, and none is complete before
\* every rank has started it.
Matched(k) == \A q \in Rank : k <= Len(coll[q])

\* MPI_Test() reports the k-th collective, and offload_write() posts the
\* write of its result.
StartWrite(r, k) ==
  /\ server[r] = "running"
  /\ k \in DOMAIN coll[r] /\ Matched(k)
  /\ LET o == coll[r][k] IN
       /\ job[r][o] = "RS_MPI"
       /\ job' = [job EXCEPT ![r][o] = "RS_PUT"]
       /\ Post(r, o, "WRITE")
  /\ UNCHANGED <<hostVars, received, wire, cq, coll, server>>

\* The result of operation o at rank r is the blocks of the operations the
\* ranks gave to the same collective.
Result(r, o) ==
  LET k == CHOOSE i \in DOMAIN coll[r] : coll[r][i] = o
  IN  [q \in Rank |-> IF k \in DOMAIN coll[q] THEN coll[q][k] ELSE 0]

-----------------------------------------------------------------------------
(* The NIC executes the work requests of a rank in order.                  *)

Executed(r, wr) ==
  /\ server[r] = "running" /\ sq[r] # <<>>
  /\ wr = Head(sq[r])
  /\ sq' = [sq EXCEPT ![r] = Tail(@)]
  /\ cq' = [cq EXCEPT ![r] = Append(@, wr)]

NicReads(r, o) ==
  /\ Executed(r, [op |-> o, opcode |-> "READ"])
  /\ UNCHANGED <<hostVars, received, wire, job, coll, server>>

\* A write puts the result into the buffer and its immediate data into the
\* host's receive.  Until the host has one posted, the write is retried, and
\* what is posted behind it waits.
NicWrites(r, o) ==
  /\ recv[r] = Posted
  /\ Executed(r, [op |-> o, opcode |-> "WRITE"])
  /\ received' = [received EXCEPT ![r][o] = Result(r, o)]
  /\ recv' = [recv EXCEPT ![r] = o]
  /\ UNCHANGED <<called, told, tested, left, wire, job, coll, server>>

-----------------------------------------------------------------------------

Host(r) ==
  \/ HostCalls(r) \/ HostPosts(r) \/ HostPolls(r) \/ HostExits(r)
  \/ \E o \in Op : HostTests(r, o)

Serve(r) ==
  \/ ServerLeaves(r)
  \/ \E o \in Op : ServerAccepts(r, o) \/ StartCollective(r, o) \/ CompleteJob(r, o)
  \/ \E k \in Op : StartWrite(r, k)

Nic(r) == \E o \in Op : NicReads(r, o) \/ NicWrites(r, o)

Next == \E r \in Rank : Host(r) \/ Serve(r) \/ ServerFails(r) \/ Nic(r)

Spec == Init /\ [][Next]_vars

\* A DPU that runs does its work; a host with operations open polls, as
\* DPU_MPI_Wait() does.
Fairness ==
  \A r \in Rank :
    /\ WF_vars(Serve(r))
    /\ WF_vars(Nic(r))
    /\ WF_vars(HostPosts(r) \/ HostPolls(r))

FairSpec == Spec /\ Fairness

-----------------------------------------------------------------------------
(* Properties.                                                             *)

Request == [op : Op, opcode : {"READ", "WRITE"}]

\* Every variable has a value of its type.
TypeOK ==
  /\ called \in [Rank -> 0 .. MaxOp]
  /\ recv \in [Rank -> Op \cup {None, Posted}]
  /\ told \in [Rank -> SUBSET Op]
  /\ tested \in [Rank -> SUBSET Op]
  /\ left \in [Rank -> BOOLEAN]
  /\ received \in [Rank -> [Op -> [Rank -> Op \cup {0}]]]
  /\ wire \in [Rank -> Seq(Op \cup {Goodbye})]
  /\ job \in [Rank -> [Op -> JobStatus]]
  /\ sq \in [Rank -> Seq(Request)]
  /\ cq \in [Rank -> Seq(Request)]
  /\ coll \in [Rank -> Seq(Op)]
  /\ server \in [Rank -> {"running", "disconnected", "failed"}]

\* The host reuses its buffers once an operation is reported: by then no work
\* request of the operation can still reach them.
BuffersQuiet ==
  \A r \in Rank : \A k \in DOMAIN sq[r] : sq[r][k].op \notin tested[r]

\* The system implements the service.  It is broken when a DPU has failed, or
\* a host left before its operations were reported to it: the other ranks may
\* then wait for ever, but are not given wrong results.
Broken ==
  \E r \in Rank : server[r] = "failed" \/ (left[r] /\ tested[r] # 1 .. called[r])

Service == INSTANCE AlltoallService WITH broken <- Broken

ServiceSafety == Service!Spec
ServiceLive   == Service!Served

=============================================================================
