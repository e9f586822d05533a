----------------------------- MODULE DpuServer -----------------------------
(***************************************************************************)
(* The offload server of one DPU (main_bf.c): the job list, the pool of    *)
(* registered memory regions, and the polling loop offload_main().         *)
(*                                                                         *)
(* Around it stands what the loop polls: the send queue and the completion *)
(* queue of the NIC, the requests of the one connected host, and the       *)
(* progress of the MPI library.  One action is one operation of the loop   *)
(* between two of those polls.                                             *)
(***************************************************************************)
EXTENDS Integers, Sequences, FiniteSets

CONSTANTS
  MaxQueue,       \* MAX_QUEUE: length of the job list (32 in server_opts.h)
  LazyUnpinning,  \* LAZY_UNPINNING: keep the regions of completed jobs
  SqDepth,        \* max_send_wr: work requests the send queue holds (10)
  Mr,             \* addresses rdma_reg_msgs() can return
  NoMr,           \* the NULL region
  Sizes,          \* transfer sizes a host asks for
  HostDepth,      \* requests the host keeps outstanding at most
  MaxOp,          \* bound: requests the host sends in all
  Faults          \* TRUE when library calls and the link may fail

ASSUME ServerAssumption ==
  /\ MaxQueue \in Nat \ {0}
  /\ LazyUnpinning \in BOOLEAN
  /\ SqDepth \in Nat
  /\ NoMr \notin Mr
  /\ Sizes \subseteq Nat
  /\ HostDepth \in Nat
  /\ MaxOp \in Nat
  /\ Faults \in BOOLEAN

Slots  == 0 .. MaxQueue - 1
Side   == {"send", "recv"}
Holder == Slots \X Side           \* <<s, "send">> is job_list[s].bf_send_mr

\* The ReqCode values a job has between two polls.  RS_READOK and RS_MPIOK
\* exist only inside bf_advance() and bf_poll().
ReqCode == {"RS_UNALLOC", "RS_READ", "RS_MPI", "RS_PUT", "RS_CPIN", "RS_FAIL"}
Active  == {"RS_READ", "RS_MPI", "RS_PUT"}

\* An OffloadReq: its position in the host's stream of requests stands for
\* buffers, keys and cookie; "send" and "recv" are the sizes it asks for.
OffloadReq == [op : 1 .. MaxOp, send : Sizes, recv : Sizes]
NoReq      == [op |-> 0, send |-> 0, recv |-> 0]

VARIABLES
  status, req, mr, alloc, mpi_req, \* job_list, one function per field
  pinned,        \* regions registered with the NIC
  len,           \* their real lengths
  sq, executed,  \* posted work requests; how many the peer has executed
  cq,            \* completions not polled yet
  qp,            \* state of the queue pair
  recv_status, recv_posted, recv_cq,
  pc, cur,       \* where the loop is, and i of bf_poll()
  server,        \* running, or how offload_main() returned
  sent, left,    \* requests the host has sent; whether it called DPU_Exit
  delivered,     \* history: operations whose completion reached the host
  collectives,   \* history: operations in the order of MPI_Ialltoall calls
  unread,        \* history: operations whose RDMA read failed
  purged         \* history: dpu_free_all_completed() has freed a region

jobVars  == <<status, req, mr, alloc, mpi_req>>
poolVars == <<pinned, len>>
nicVars  == <<sq, executed, cq, qp>>
recvVars == <<recv_status, recv_posted, recv_cq>>
loopVars == <<pc, cur, server>>
hostVars == <<sent, left, delivered>>
histVars == <<collectives, unread, purged>>
vars == <<jobVars, poolVars, nicVars, recvVars, loopVars, hostVars, histVars>>

-----------------------------------------------------------------------------
(* Initial state: main() clears the job list, then calls offload_main().   *)

Init ==
  /\ status  = [s \in Slots |-> "RS_UNALLOC"]
  /\ req     = [s \in Slots |-> NoReq]
  /\ mr      = [h \in Holder |-> NoMr]
  /\ alloc   = [h \in Holder |-> 0]
  /\ mpi_req = [s \in Slots |-> "null"]
  /\ pinned = {} /\ len = [m \in Mr |-> 0]
  /\ sq = <<>> /\ executed = 0 /\ cq = <<>> /\ qp = "up"
  /\ recv_status = 0 /\ recv_posted = FALSE /\ recv_cq = <<>>
  /\ pc = "post_recv" /\ cur = 0 /\ server = "running"
  /\ sent = 0 /\ left = FALSE /\ delivered = {}
  /\ collectives = <<>> /\ unread = {} /\ purged = FALSE

At(label) == server = "running" /\ pc = label

\* offload_main() returns: the process finalizes MPI and ends.
Return(why) == server' = why /\ UNCHANGED <<pc, cur>>
Goto(label) == pc' = label /\ UNCHANGED <<cur, server>>

-----------------------------------------------------------------------------
(* The job list and the pool.                                              *)

\* The first free queue slot.
FreeSlot(s) ==
  /\ status[s] = "RS_UNALLOC"
  /\ \A t \in Slots : t < s => status[t] # "RS_UNALLOC"

\* The scan of dpu_reuse_mr() keeps the smallest region; among equals the
\* lowest slot, and in a slot the send side before the recv side.
Before(g, h) ==
  \/ alloc[g] < alloc[h]
  \/ alloc[g] = alloc[h] /\ g[1] < h[1]
  \/ alloc[g] = alloc[h] /\ g[1] = h[1] /\ g[2] = "send"

IsFirst(h, S) == h \in S /\ \A g \in S \ {h} : Before(h, g)

\* Mutant: the region need not be long enough.
SendFitsAnyLength(n) ==
  {h \in Holder : status[h[1]] = "RS_CPIN" /\ mr[h] # NoMr}

\* Mutant: the regions of a job still writing back are taken as well.
SendFitsInUse(n) ==
  {h \in Holder : /\ status[h[1]] \in {"RS_CPIN", "RS_PUT"}
                  /\ mr[h] # NoMr
                  /\ alloc[h] >= n}

SendFits(n) ==
  {h \in Holder : /\ status[h[1]] = "RS_CPIN"
                  /\ mr[h] # NoMr
                  /\ alloc[h] >= n}

\* Mutant: the region chosen for the send buffer is not excluded.
RecvFitsTwice(n, taken) ==
  {h \in Holder : /\ status[h[1]] = "RS_CPIN"
                  /\ mr[<<h[1], "send">>] # NoMr
                  /\ alloc[h] >= n}

\* For the receive buffer both sides are tested for bf_send_mr, also where
\* bf_recv_mr is what is taken.
RecvFits(n, taken) ==
  {h \in Holder : /\ status[h[1]] = "RS_CPIN"
                  /\ mr[<<h[1], "send">>] # NoMr
                  /\ alloc[h] >= n
                  /\ mr[h] # taken}

Reusable(q, g, h) ==
  /\ IsFirst(g, SendFits(q.send))
  /\ IsFirst(h, RecvFits(q.recv, mr[g]))
  /\ mr[h] # NoMr

\* The regions left to the jobs when g and h have handed on theirs.
\* Mutant: the whole entry of such a job is cleared.
RestCleared(g, h) == [x \in Holder |-> IF x[1] \in {g[1], h[1]} THEN NoMr ELSE mr[x]]

Rest(g, h) == [x \in Holder |-> IF x \in {g, h} THEN NoMr ELSE mr[x]]

\* "Free any items with all empty entries".  Mutant: never.
NothingEmptied(g, h) == {}

Emptied(g, h) == {t \in {g[1], h[1]} : \A d \in Side : Rest(g, h)[<<t, d>>] = NoMr}

\* dpu_reuse_mr() finds both regions: the slots they come from lose them, a
\* slot that has none left is free again, and job s owns them.
Reuse(s, g, h) ==
  /\ mr' = [Rest(g, h) EXCEPT ![<<s, "send">>] = mr[g], ![<<s, "recv">>] = mr[h]]
  /\ alloc' = [[x \in Holder |-> IF x \in {g, h} THEN 0 ELSE alloc[x]]
                 EXCEPT ![<<s, "send">>] = alloc[g], ![<<s, "recv">>] = alloc[h]]
  /\ status' = [t \in Slots |-> IF t = s THEN "RS_READ"
                                ELSE IF t \in Emptied(g, h) THEN "RS_UNALLOC"
                                ELSE status[t]]
  /\ UNCHANGED <<pinned, len, purged>>

\* The regions dpu_free_all_completed() deregisters and frees, slot by slot.
\* It keeps the status and the pointers of the jobs it frees.
Completed == {h \in Holder : status[h[1]] \in {"RS_CPIN", "RS_FAIL"} /\ mr[h] # NoMr}
Freed(S)  == {mr[h] : h \in S}

Sooner(g, h) == g[1] < h[1] \/ (g[1] = h[1] /\ g[2] = "send" /\ h[2] = "recv")

\* What one call of it gets through: a region that rdma_dereg_mr() refuses
\* ends the call, and dpu_reuse_mr() does not look at how it ended.
Purges ==
  IF Faults
  THEN {S \in SUBSET Completed : \A h \in S, g \in Completed : Sooner(g, h) => g \in S}
  ELSE {Completed}

\* The new regions a and b of job s, allocated and registered after the
\* regions of S have been freed.
Allocate(s, q, a, b, S) ==
  /\ {a, b} \subseteq Mr \ (pinned \ Freed(S))
  /\ a # b
  /\ pinned' = (pinned \ Freed(S)) \cup {a, b}
  /\ len'    = [len EXCEPT ![a] = q.send, ![b] = q.recv]
  /\ mr'     = [mr EXCEPT ![<<s, "send">>] = a, ![<<s, "recv">>] = b]
  /\ alloc'  = [alloc EXCEPT ![<<s, "send">>] = q.send, ![<<s, "recv">>] = q.recv]
  /\ status' = [status EXCEPT ![s] = "RS_READ"]
  /\ purged' = (purged \/ S # {})

-----------------------------------------------------------------------------
(* The top of the loop, and the request that a receive completion brings.   *)

\* What a receive completion holds: a request, the one-byte goodbye of
\* DPU_Exit(), or a transport error.
Goodbye == [op |-> 0, send |-> 0, recv |-> 0]
Broken  == [op |-> -1, send |-> 0, recv |-> 0]

PostRecv ==
  /\ At("post_recv")
  /\ recv_status' = 1
  /\ recv_posted' = (recv_posted \/ recv_status = 0)
  /\ Goto("poll_cq")
  /\ UNCHANGED <<recv_cq, jobVars, poolVars, nicVars, hostVars, histVars>>

PostRecvFails ==
  /\ Faults /\ At("post_recv") /\ recv_status = 0
  /\ Return("failed")
  /\ UNCHANGED <<jobVars, poolVars, nicVars, recvVars, hostVars, histVars>>

\* Mutant: a completion in error is dropped.
NoMessageOrError ==
  /\ At("poll_recv") /\ recv_cq \in {<<>>, <<Broken>>}
  /\ recv_cq' = <<>>
  /\ Goto("post_recv")
  /\ UNCHANGED <<recv_status, recv_posted, jobVars, poolVars, nicVars, hostVars, histVars>>

NoMessage ==
  /\ At("poll_recv") /\ recv_cq = <<>>
  /\ Goto("post_recv")
  /\ UNCHANGED <<jobVars, poolVars, nicVars, recvVars, hostVars, histVars>>

Received(m) ==
  /\ At("poll_recv") /\ recv_cq # <<>>
  /\ m = Head(recv_cq)
  /\ recv_cq' = Tail(recv_cq)
  /\ UNCHANGED <<recv_posted, hostVars>>

\* A completion in error; or the poll itself or the decoding fails.
ReceiveFails ==
  LET m == Head(recv_cq) IN
    /\ Received(m)
    /\ Faults \/ m = Broken
    /\ Return("failed")
    /\ UNCHANGED <<recv_status, jobVars, poolVars, nicVars, histVars>>

Disconnect ==
  /\ Received(Goodbye)
  /\ Return("disconnected")
  /\ UNCHANGED <<recv_status, jobVars, poolVars, nicVars, histVars>>

QueueFull ==
  LET q == Head(recv_cq) IN
    /\ Received(q) /\ q.op > 0
    /\ \A s \in Slots : status[s] # "RS_UNALLOC"
    /\ Return("queue_full")
    /\ UNCHANGED <<recv_status, jobVars, poolVars, nicVars, histVars>>

\* A request takes slot s, and offload_read() posts the RDMA read.
Room == Len(sq) + Len(cq) < SqDepth
Post(s, opcode) ==
  /\ sq' = Append(sq, [slot |-> s, opcode |-> opcode])
  /\ UNCHANGED <<executed, cq, qp>>

AcceptRequest(s, q) ==
  /\ Received(q) /\ q.op > 0
  /\ FreeSlot(s)
  /\ req' = [req EXCEPT ![s] = q]
  /\ UNCHANGED mpi_req

AcceptWithReuse(s, g, h) ==
  LET q == Head(recv_cq) IN
    /\ AcceptRequest(s, q)
    /\ Reusable(q, g, h)
    /\ Reuse(s, g, h)
    /\ Room /\ Post(s, "READ")
    /\ recv_status' = 0
    /\ Goto("post_recv")
    /\ UNCHANGED <<collectives, unread, hostVars>>

AcceptWithAllocation(s, a, b) ==
  LET q == Head(recv_cq) IN
    /\ AcceptRequest(s, q)
    /\ ~ \E g, h \in Holder : Reusable(q, g, h)
    /\ \E S \in Purges : Allocate(s, q, a, b, S)
    /\ Room /\ Post(s, "READ")
    /\ recv_status' = 0
    /\ Goto("post_recv")
    /\ UNCHANGED <<collectives, unread, hostVars>>

\* offload_read() fails: no memory or no region for the buffers, a full send
\* queue, or, where a stale region is freed a second time, the allocator
\* aborts.  The process ends, so only the status it leaves is modelled.
ReadOffloadFails(s) ==
  LET q == Head(recv_cq) IN
    /\ AcceptRequest(s, q)
    /\ LET reuses == \E g, h \in Holder : Reusable(q, g, h)
       IN \/ Faults \/ ~Room
          \/ ~reuses /\ ~ \E a, b \in Mr \ (pinned \ Freed(Completed)) : a # b
          \/ ~reuses /\ ~ Freed(Completed) \subseteq pinned
    /\ status' = [status EXCEPT ![s] = "RS_FAIL"]
    /\ Return("failed")
    /\ UNCHANGED <<recv_status, mr, alloc, poolVars, nicVars, histVars>>

-----------------------------------------------------------------------------
(* bf_poll(): one pass over the job list.                                  *)

\* Mutants: the pass runs one slot too far, or stops one slot short.
LastSlotBeyond == MaxQueue
LastSlotShort  == MaxQueue - 2

LastSlot == MaxQueue - 1

NextSlot ==
  /\ IF cur = LastSlot THEN pc' = "poll_recv" /\ cur' = 0
                        ELSE pc' = "poll_cq" /\ cur' = cur + 1
  /\ UNCHANGED server

\* Job cur waits for no completion, or there is none yet.
NothingToPoll ==
  /\ At("poll_cq")
  /\ status[cur] # "RS_MPI"
  /\ status[cur] \in {"RS_READ", "RS_PUT"} => cq = <<>>
  /\ NextSlot
  /\ UNCHANGED <<jobVars, poolVars, nicVars, recvVars, hostVars, histVars>>

\* ibv_poll_cq() hands out the oldest completion, which may be of any job.
Polled(c) ==
  /\ At("poll_cq")
  /\ status[cur] \in {"RS_READ", "RS_PUT"}
  /\ cq # <<>> /\ c = Head(cq) /\ cq' = Tail(cq)
  /\ UNCHANGED <<sq, executed, qp>>

\* The job a completion is about, (OffloadJob *) wc.wr_id.
\* Mutant: the job of the loop that polled it.
JobOfLoop(c) == cur

JobOf(c) == c.slot

\* The regions of a job.
RegionsOf(s) == {mr[<<s, d>>] : d \in Side}

\* bf_advance() of a job that was reading: offload_ialltoall() starts the
\* collective.  Nothing looks at wc.status, and wc.opcode is undefined in a
\* completion that failed: it may pass for a read or a write.
StartCollective ==
  LET c == Head(cq) s == JobOf(c) IN
    /\ Polled(c)
    /\ status[s] = "RS_READ"
    /\ status'  = [status EXCEPT ![s] = "RS_MPI"]
    /\ mpi_req' = [mpi_req EXCEPT ![s] = "active"]
    /\ collectives' = Append(collectives, req[s].op)
    /\ Goto("poll_mpi")
    /\ UNCHANGED <<req, mr, alloc, poolVars, recvVars, hostVars, unread, purged>>

\* bf_advance() of a job that was writing back.  Its regions stay pinned, or,
\* without LAZY_UNPINNING, are freed and the job is cleared.
CompleteJob ==
  LET c == Head(cq) s == JobOf(c) IN
    /\ Polled(c)
    /\ status[s] = "RS_PUT"
    /\ IF LazyUnpinning
       THEN /\ status' = [status EXCEPT ![s] = "RS_CPIN"]
            /\ UNCHANGED <<req, mr, alloc, pinned>>
       ELSE /\ status' = [status EXCEPT ![s] = "RS_UNALLOC"]
            /\ req'    = [req EXCEPT ![s] = NoReq]
            /\ mr'     = [h \in Holder |-> IF h[1] = s THEN NoMr ELSE mr[h]]
            /\ alloc'  = [h \in Holder |-> IF h[1] = s THEN 0 ELSE alloc[h]]
            /\ pinned' = pinned \ RegionsOf(s)
    /\ Goto("poll_mpi")
    /\ UNCHANGED <<mpi_req, len, recvVars, hostVars, histVars>>

\* MPI_Ialltoall() fails, or returns no request.
CollectiveFails(s) ==
  /\ Faults /\ status[s] = "RS_READ"
  /\ status' = [status EXCEPT ![s] = "RS_FAIL"]
  /\ UNCHANGED <<pinned, purged>>

\* Without LAZY_UNPINNING a region of the finished job is not deregistered.
UnpinningFails(s) ==
  /\ Faults /\ ~LazyUnpinning /\ status[s] = "RS_PUT"
  /\ status' = [status EXCEPT ![s] = "RS_CPIN"]
  /\ pinned' \in {pinned, pinned \ {mr[<<s, "send">>]}}
  /\ purged' = TRUE

\* bf_poll() gives up on a completion: it shows an unknown opcode, its job is
\* in no state to be advanced, or advancing the job fails.
AdvanceFails ==
  LET c == Head(cq) s == JobOf(c) IN
    /\ Polled(c)
    /\ \/ CollectiveFails(s)
       \/ UnpinningFails(s)
       \/ /\ ~c.ok \/ status[s] \notin {"RS_READ", "RS_PUT"}
          /\ UNCHANGED <<status, pinned, purged>>
    /\ Return("failed")
    /\ UNCHANGED <<req, mr, alloc, mpi_req, len, recvVars, hostVars, collectives, unread>>

\* Job cur is tested: it was in the collective when the loop came to it, or
\* the completion just polled has put it there.
Tested == At("poll_mpi") \/ (At("poll_cq") /\ status[cur] = "RS_MPI")

MpiPending ==
  /\ Tested
  /\ status[cur] = "RS_MPI" => mpi_req[cur] = "active"
  /\ NextSlot
  /\ UNCHANGED <<jobVars, poolVars, nicVars, recvVars, hostVars, histVars>>

\* MPI_Test() reports the collective done, and offload_write() posts the
\* write of the result, whose immediate data tells the host.
StartWrite ==
  /\ Tested /\ status[cur] = "RS_MPI" /\ mpi_req[cur] = "complete"
  /\ Room /\ Post(cur, "WRITE")
  /\ mpi_req' = [mpi_req EXCEPT ![cur] = "null"]
  /\ status'  = [status EXCEPT ![cur] = "RS_PUT"]
  /\ NextSlot
  /\ UNCHANGED <<req, mr, alloc, poolVars, recvVars, hostVars, histVars>>

\* Mutant: the job is marked as writing before the post is checked.
WriteUnposted ==
  /\ Tested /\ status[cur] = "RS_MPI" /\ mpi_req[cur] = "complete"
  /\ Faults \/ ~Room
  /\ mpi_req' = [mpi_req EXCEPT ![cur] = "null"]
  /\ status'  = [status EXCEPT ![cur] = "RS_PUT"]
  /\ NextSlot
  /\ UNCHANGED <<req, mr, alloc, poolVars, nicVars, recvVars, hostVars, histVars>>

WriteOffloadFails ==
  /\ Tested /\ status[cur] = "RS_MPI" /\ mpi_req[cur] = "complete"
  /\ Faults \/ ~Room
  /\ mpi_req' = [mpi_req EXCEPT ![cur] = "null"]
  /\ status'  = [status EXCEPT ![cur] = "RS_FAIL"]
  /\ Return("failed")
  /\ UNCHANGED <<req, mr, alloc, poolVars, nicVars, recvVars, hostVars, histVars>>

\* ibv_poll_cq() or MPI_Test() itself fails.
PollFails ==
  /\ Faults
  /\ \/ At("poll_cq") /\ status[cur] \in {"RS_READ", "RS_PUT"}
     \/ Tested /\ status[cur] = "RS_MPI"
     \/ At("poll_recv")
  /\ Return("failed")
  /\ UNCHANGED <<jobVars, poolVars, nicVars, recvVars, hostVars, histVars>>

-----------------------------------------------------------------------------
(* What surrounds the server.  It is observed while the server runs: the   *)
(* end of the process destroys the queue pair.                             *)

\* Work requests are executed at the peer in order.  Executing a write with
\* immediate data takes a receive the host has posted and shows the host that
\* the operation is complete.
NicExecute ==
  /\ server = "running" /\ qp = "up" /\ executed < Len(sq)
  /\ executed' = executed + 1
  /\ delivered' = LET wr == sq[executed + 1]
                  IN IF wr.opcode = "WRITE" THEN delivered \cup {req[wr.slot].op}
                                            ELSE delivered
  /\ UNCHANGED <<sq, cq, qp, sent, left, jobVars, poolVars, recvVars, loopVars, histVars>>

\* The acknowledgement of the oldest executed request arrives.
NicComplete ==
  /\ server = "running" /\ qp = "up" /\ executed > 0
  /\ executed' = executed - 1
  /\ sq' = Tail(sq)
  /\ cq' = Append(cq, [slot |-> Head(sq).slot, ok |-> TRUE])
  /\ UNCHANGED <<qp, jobVars, poolVars, recvVars, loopVars, hostVars, histVars>>

\* The region the NIC reads or writes locally for a work request.
Local(wr) == mr[<<wr.slot, IF wr.opcode = "READ" THEN "send" ELSE "recv">>]

\* The connection breaks, or the NIC refuses a region that is not registered.
LinkError ==
  /\ server = "running" /\ qp = "up"
  /\ Faults \/ \E k \in DOMAIN sq : Local(sq[k]) \notin pinned
  /\ qp' = "error"
  /\ UNCHANGED <<sq, executed, cq, jobVars, poolVars, recvVars, loopVars, hostVars, histVars>>

\* A broken queue pair completes everything posted to it in error.
FlushSend ==
  /\ server = "running" /\ qp = "error" /\ sq # <<>>
  /\ sq' = Tail(sq)
  /\ executed' = IF executed > 0 THEN executed - 1 ELSE 0
  /\ cq' = Append(cq, [slot |-> Head(sq).slot, ok |-> FALSE])
  /\ unread' = IF Head(sq).opcode = "READ" THEN unread \cup {req[Head(sq).slot].op}
                                           ELSE unread
  /\ UNCHANGED <<qp, jobVars, poolVars, recvVars, loopVars, hostVars, collectives, purged>>

FlushRecv ==
  /\ server = "running" /\ qp = "error" /\ recv_posted
  /\ recv_posted' = FALSE
  /\ recv_cq' = Append(recv_cq, Broken)
  /\ UNCHANGED <<recv_status, jobVars, poolVars, nicVars, loopVars, hostVars, histVars>>

\* The collective of job s is finished as far as this rank is concerned.
MpiProgress(s) ==
  /\ server = "running" /\ mpi_req[s] = "active"
  /\ mpi_req' = [mpi_req EXCEPT ![s] = "complete"]
  /\ UNCHANGED <<status, req, mr, alloc, poolVars, nicVars, recvVars, loopVars, hostVars, histVars>>

\* A message of the host lands in the posted receive; without one it waits.
Deliver(m) ==
  /\ server = "running" /\ qp = "up" /\ recv_posted /\ ~left
  /\ recv_posted' = FALSE
  /\ recv_cq' = Append(recv_cq, m)
  /\ UNCHANGED <<recv_status, delivered, jobVars, poolVars, nicVars, loopVars, histVars>>

HostRequest(n, k) ==
  /\ sent < MaxOp
  /\ sent - Cardinality(delivered) < HostDepth
  /\ sent' = sent + 1
  /\ Deliver([op |-> sent + 1, send |-> n, recv |-> k])
  /\ UNCHANGED left

HostExit ==
  /\ Deliver(Goodbye)
  /\ left' = TRUE
  /\ UNCHANGED sent

-----------------------------------------------------------------------------

Serve ==
  \/ PostRecv \/ PostRecvFails
  \/ NoMessage \/ ReceiveFails \/ Disconnect \/ QueueFull
  \/ \E s \in Slots, g, h \in Holder : AcceptWithReuse(s, g, h)
  \/ \E s \in Slots, a, b \in Mr : AcceptWithAllocation(s, a, b)
  \/ \E s \in Slots : ReadOffloadFails(s)
  \/ NothingToPoll \/ StartCollective \/ CompleteJob \/ AdvanceFails
  \/ MpiPending \/ StartWrite \/ WriteOffloadFails \/ PollFails

Nic == NicExecute \/ NicComplete \/ LinkError \/ FlushSend \/ FlushRecv

Host == HostExit \/ \E n, k \in Sizes : HostRequest(n, k)

Stopped == server # "running" /\ UNCHANGED vars

Next == Serve \/ Nic \/ Host \/ (\E s \in Slots : MpiProgress(s)) \/ Stopped

Spec == Init /\ [][Next]_vars

\* The loop never sleeps; the NIC and MPI finish what was handed to them.
Fairness ==
  /\ WF_vars(Serve)
  /\ WF_vars(NicExecute) /\ WF_vars(NicComplete) /\ WF_vars(FlushSend) /\ WF_vars(FlushRecv)
  /\ \A s \in Slots : WF_vars(MpiProgress(s))

FairSpec == Spec /\ Fairness

-----------------------------------------------------------------------------
(* Properties.                                                             *)

WorkRequest == [slot : Slots, opcode : {"READ", "WRITE"}]
Completion  == [slot : Slots, ok : BOOLEAN]

\* Every variable has a value of its type.
TypeOK ==
  /\ status \in [Slots -> ReqCode]
  /\ req \in [Slots -> OffloadReq \cup {NoReq}]
  /\ mr \in [Holder -> Mr \cup {NoMr}]
  /\ alloc \in [Holder -> Sizes \cup {0}]
  /\ mpi_req \in [Slots -> {"null", "active", "complete"}]
  /\ pinned \subseteq Mr
  /\ len \in [Mr -> Sizes \cup {0}]
  /\ sq \in Seq(WorkRequest)
  /\ executed \in 0 .. Len(sq)
  /\ cq \in Seq(Completion)
  /\ qp \in {"up", "error"}
  /\ recv_status \in {0, 1}
  /\ recv_posted \in BOOLEAN
  /\ recv_cq \in Seq(OffloadReq \cup {Goodbye, Broken})
  /\ pc \in {"post_recv", "poll_cq", "poll_mpi", "poll_recv"}
  /\ cur \in Slots
  /\ server \in {"running", "failed", "queue_full", "disconnected"}
  /\ sent \in 0 .. MaxOp
  /\ left \in BOOLEAN
  /\ delivered \subseteq 1 .. MaxOp
  /\ collectives \in Seq(1 .. MaxOp)
  /\ unread \subseteq 1 .. MaxOp
  /\ purged \in BOOLEAN

\* Until regions have been freed behind a completed job's back, no region
\* belongs to two jobs, or to both sides of one: dpu_reuse_mr() hands each
\* region on to exactly one new owner.
RegionsExclusive ==
  ~purged => \A g, h \in Holder : g # h /\ mr[g] # NoMr => mr[g] # mr[h]

\* Until then, a job that is being served has two registered regions, long
\* enough for what it reads and for what it writes back, and the lengths the
\* job list records are the real ones.
ActiveRegionsPinned ==
  ~purged =>
    /\ \A h \in Holder : mr[h] # NoMr => mr[h] \in pinned /\ len[mr[h]] = alloc[h]
    /\ \A s \in Slots : status[s] \in Active =>
         /\ mr[<<s, "send">>] # NoMr /\ alloc[<<s, "send">>] >= req[s].send
         /\ mr[<<s, "recv">>] # NoMr /\ alloc[<<s, "recv">>] >= req[s].recv

\* No registered region is lost: the job list can still find each of them.
NoRegionLost == \A m \in pinned : \E h \in Holder : mr[h] = m

\* Work requests and jobs agree: a posted or completed work request belongs to
\* a job in the matching state, no job has two, and a job that waits for a
\* completion has one.  bf_advance() relies on it: it takes the job from the
\* completion and refuses one in any other state.
CompletionsMatchJobs ==
  /\ \A k \in DOMAIN sq :
       status[sq[k].slot] = (IF sq[k].opcode = "READ" THEN "RS_READ" ELSE "RS_PUT")
  /\ \A k \in DOMAIN cq : status[cq[k].slot] \in {"RS_READ", "RS_PUT"}
  /\ \A j, k \in DOMAIN sq : j # k => sq[j].slot # sq[k].slot
  /\ \A j, k \in DOMAIN cq : j # k => cq[j].slot # cq[k].slot
  /\ \A j \in DOMAIN sq, k \in DOMAIN cq : sq[j].slot # cq[k].slot
  /\ server = "running" =>
       \A s \in Slots : status[s] \in {"RS_READ", "RS_PUT"} =>
         \/ \E k \in DOMAIN sq : sq[k].slot = s
         \/ \E k \in DOMAIN cq : cq[k].slot = s

\* Collectives start in the order in which the host asked for them, whatever
\* slots the jobs sit in: MPI matches the calls of the ranks by their order.
CollectivesInOrder == \A k \in DOMAIN collectives : collectives[k] = k

\* The regions of a job stay the same from its RDMA read to the end of its
\* write-back, whatever other jobs reuse, allocate and free meanwhile.
ActiveJobKeepsRegions ==
  [][\A s \in Slots : (status[s] \in Active /\ status'[s] \in Active) =>
       \A d \in Side : mr'[<<s, d>>] = mr[<<s, d>>]]_vars

\* The server only stops because the host left it or something failed under
\* it: not for want of a queue slot, a send queue entry or a region.
StopsOnlyWhenTold == server \in {"running", "disconnected"}

\* Every request the host has sent is completed at the host, unless the host
\* leaves first.
RequestsServed ==
  \A o \in 1 .. MaxOp : (sent >= o) ~> (o \in delivered \/ left)

\* A server whose connection is broken notices and stops; it does not spin on.
BrokenLinkStopsServer == qp = "error" ~> server # "running"

\* main_bf.c:23 of RS_CPIN: "Completed, but memory is still pinned."
CpinMeansPinned ==
  \A h \in Holder : status[h[1]] = "RS_CPIN" /\ mr[h] # NoMr => mr[h] \in pinned

\* main_bf.c:15 of RS_READOK, from which the collective starts: "Read OK".
CollectiveAfterReadOk == \A k \in DOMAIN collectives : collectives[k] \notin unread

=============================================================================
