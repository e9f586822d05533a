------------------------------ MODULE HostLib ------------------------------
(***************************************************************************)
(* The host library (dpulib.c): the completion table of a DPUContext, its  *)
(* count of pending receives, and the memory regions of its operations.    *)
(*                                                                         *)
(* One application thread calls the library.  Around it stand the receive  *)
(* queue of the NIC and a DPU that completes the operations it was sent,   *)
(* in any order: the library does not rely on one.  One action is what a   *)
(* function does between two looks at the NIC.                             *)
(***************************************************************************)
EXTENDS Integers, Sequences, FiniteSets

CONSTANTS
  QueueDepth,  \* queue_depth: entries of the completion table
  Cookie,      \* what rand() returns
  Repeats,     \* TRUE when rand() may return a cookie that is still known
  Calls,       \* the functions the application polls with
  MaxOpen,     \* operations the application has in the table at most
  MaxOp,       \* bound: calls of DPU_MPI_Ialltoall() in all
  Faults       \* TRUE when calls below the library and the link may fail

ASSUME HostAssumption ==
  /\ QueueDepth \in Nat
  /\ Cookie \subseteq Nat
  /\ Repeats \in BOOLEAN
  /\ Calls \subseteq {"Poll", "Longpoll", "Test", "Wait"}
  /\ MaxOpen \in Nat
  /\ MaxOp \in Nat
  /\ Faults \in BOOLEAN

Entry  == 0 .. QueueDepth - 1
Op     == 1 .. MaxOp
Side   == {"send", "recv"}
Region == Op \X Side        \* <<o, "send">> is the send_mr of operation o

\* COMP_STATUS_ERROR is stored for a completion whose immediate data is the
\* negated cookie.  rand() is never negative, so no table reaches it: where
\* both tests hold, for zero, the first one wins.
CompStatus == {"EMPTY", "PENDING", "OK"}

VARIABLES
  cookie, status, held,   \* ctx->status; held is the operation of the regions
  pending_recvs,          \* ctx->pending_recvs
  registered,             \* regions registered and not released
  posted, recv_cq,        \* receives posted; completions not polled
  qp,                     \* state of the queue pair
  outbox, running,        \* requests on their way; operations the DPU serves
  acked,                  \* completions of sends that were not polled
  called, used,           \* calls of DPU_MPI_Ialltoall(); the cookie of each
  pc, fn, arg,            \* where the library is, for which call
  handles,                \* operations the application has not tested yet
  completed,              \* history: operations whose result is written
  tested,                 \* history: operations reported complete
  unmatched               \* history: a completion matched no entry

tableVars == <<cookie, status, held>>
nicVars   == <<pending_recvs, posted, recv_cq, qp>>
dpuVars   == <<outbox, running, completed, acked>>
opVars    == <<registered, called, used, handles, tested>>
callVars  == <<pc, fn, arg>>
vars == <<tableVars, nicVars, dpuVars, opVars, callVars, unmatched>>

-----------------------------------------------------------------------------
(* Initial state: DPU_Init() has returned a context with a zeroed table.   *)

Init ==
  /\ cookie = [i \in Entry |-> 0]
  /\ status = [i \in Entry |-> "EMPTY"]
  /\ held   = [i \in Entry |-> 0]
  /\ pending_recvs = 0 /\ posted = 0 /\ recv_cq = <<>> /\ qp = "up"
  /\ outbox = {} /\ running = {} /\ completed = {} /\ acked = 0
  /\ registered = {} /\ called = 0 /\ used = [o \in Op |-> 0]
  /\ handles = {} /\ tested = {}
  /\ pc = "app" /\ fn = "none" /\ arg = 0
  /\ unmatched = FALSE

\* The immediate data of a receive that completed in error.
Broken == -1

Goto(label) == pc' = label /\ UNCHANGED <<fn, arg>>

\* The function returns to the application.
Return == pc' = "app" /\ fn' = "none" /\ arg' = 0

First(i, S) == i \in S /\ \A j \in S : i <= j

-----------------------------------------------------------------------------
(* DPU_MPI_Ialltoall().                                                    *)

\* The cookies that can still arrive or be compared with.
Known == {cookie[i] : i \in Entry} \cup {used[o] : o \in handles \cup outbox \cup running}
           \cup {recv_cq[k] : k \in DOMAIN recv_cq}

\* Both buffers are registered and the request is posted.
Ialltoall(c) ==
  /\ pc = "app"
  /\ called < MaxOp /\ Cardinality(handles) < MaxOpen
  /\ c \notin Known \/ Repeats
  /\ called' = called + 1
  /\ used' = [used EXCEPT ![called + 1] = c]
  /\ registered' = registered \cup {called + 1} \X Side
  /\ outbox' = outbox \cup {called + 1}
  /\ fn' = "Ialltoall" /\ pc' = "send_comp" /\ UNCHANGED arg
  /\ UNCHANGED <<tableVars, nicVars, running, completed, acked, handles, tested, unmatched>>

\* The call returns -1: a type, the first or the second registration, the
\* encoding or the post failed.  What was registered before stays registered.
IalltoallFails(done) ==
  /\ Faults /\ pc = "app"
  /\ called < MaxOp
  /\ done \in {{}, {"send"}, Side}
  /\ called' = called + 1
  /\ registered' = registered \cup {called + 1} \X done
  /\ UNCHANGED <<tableVars, nicVars, dpuVars, callVars, used, handles, tested, unmatched>>

\* The wait for the send ends with a completion of it, of an earlier send or of
\* a flushed one, nothing looks at wc.status; or rdma_get_send_comp() fails,
\* and the request may not even have left.
Sent ==
  /\ pc = "send_comp"
  /\ \/ acked > 0 /\ acked' = acked - 1
     \/ (qp = "error" \/ Faults) /\ UNCHANGED acked

\* Mutant: an entry that is pending is free too.
FreeUnlessOk == {i \in Entry : status[i] # "OK"}

Free == {i \in Entry : status[i] = "EMPTY"}

\* The operation enters the table and the application gets its index.
EnterTable(i) ==
  /\ Sent /\ First(i, Free)
  /\ cookie' = [cookie EXCEPT ![i] = used[called]]
  /\ status' = [status EXCEPT ![i] = "PENDING"]
  /\ held'   = [held EXCEPT ![i] = called]
  /\ handles' = handles \cup {called}
  /\ Return
  /\ UNCHANGED <<nicVars, outbox, running, completed, registered, called, used, tested, unmatched>>

\* No entry is free: the call returns -1, though the request has been sent.
TableFull ==
  /\ Sent /\ Free = {}
  /\ Return
  /\ UNCHANGED <<tableVars, nicVars, outbox, running, completed, opVars, unmatched>>

-----------------------------------------------------------------------------
(* DPU_MPI_Poll() and DPU_MPI_Longpoll(); DPU_MPI_Test() polls and then    *)
(* looks for its cookie, DPU_MPI_Wait() repeats that until it is there.    *)

CallPoll(f) ==
  /\ pc = "app" /\ f \in Calls \cap {"Poll", "Longpoll"}
  /\ fn' = f /\ pc' = "post_recv" /\ UNCHANGED arg
  /\ UNCHANGED <<tableVars, nicVars, dpuVars, opVars, unmatched>>

CallTest(f, o) ==
  /\ pc = "app" /\ f \in Calls \cap {"Test", "Wait"}
  /\ o \in handles
  /\ fn' = f /\ arg' = o /\ pc' = "post_recv"
  /\ UNCHANGED <<tableVars, nicVars, dpuVars, opVars, unmatched>>

\* One receive is kept posted.  Mutant: one more with every poll.
PostsAlways == TRUE

Posts == pending_recvs = 0

PostReceive ==
  /\ pc = "post_recv"
  /\ IF Posts THEN posted' = posted + 1 /\ pending_recvs' = pending_recvs + 1
              ELSE UNCHANGED <<posted, pending_recvs>>
  /\ Goto("poll_cq")
  /\ UNCHANGED <<tableVars, recv_cq, qp, dpuVars, opVars, unmatched>>

PostReceiveFails ==
  /\ Faults /\ pc = "post_recv" /\ Posts
  /\ Return
  /\ UNCHANGED <<tableVars, nicVars, dpuVars, opVars, unmatched>>

Polled == IF fn \in {"Test", "Wait"} THEN Goto("scan") ELSE Return

\* DPU_MPI_Longpoll() waits for a completion instead.
NoEvent ==
  /\ pc = "poll_cq" /\ recv_cq = <<>> /\ fn # "Longpoll"
  /\ Polled
  /\ UNCHANGED <<tableVars, nicVars, dpuVars, opVars, unmatched>>

\* pending_recvs once a message is taken.  Mutant: it is not counted.
Uncounted == pending_recvs

Counted == pending_recvs - 1

Event(imm) ==
  /\ pc = "poll_cq" /\ recv_cq # <<>>
  /\ imm = Head(recv_cq)
  /\ recv_cq' = Tail(recv_cq)
  /\ UNCHANGED <<posted, qp>>

\* Any entry with the cookie matches, whatever its status.
Matching(imm) == {i \in Entry : cookie[i] = imm}

Match(i) ==
  LET imm == Head(recv_cq) IN
    /\ Event(imm) /\ imm # Broken
    /\ First(i, Matching(imm))
    /\ status' = [status EXCEPT ![i] = "OK"]
    /\ pending_recvs' = Counted
    /\ Polled
    /\ UNCHANGED <<cookie, held, dpuVars, opVars, unmatched>>

\* "Invalid completion event from DPU!"
NoMatch ==
  LET imm == Head(recv_cq) IN
    /\ Event(imm) /\ imm # Broken
    /\ Matching(imm) = {}
    /\ pending_recvs' = Counted
    /\ unmatched' = TRUE
    /\ Return
    /\ UNCHANGED <<tableVars, dpuVars, opVars>>

\* A completion in error is not subtracted from pending_recvs.
TransportFailure ==
  /\ Event(Broken)
  /\ Return
  /\ UNCHANGED <<tableVars, pending_recvs, dpuVars, opVars, unmatched>>

PollFails ==
  /\ Faults /\ pc = "poll_cq"
  /\ Return
  /\ UNCHANGED <<tableVars, nicVars, dpuVars, opVars, unmatched>>

\* The entries that answer a test for cookie c.
\* Mutant: whether they are completed or not.
AnyWith(c) == {i \in Entry : cookie[i] = c /\ status[i] # "EMPTY"}

DoneWith(c) == {i \in Entry : cookie[i] = c /\ status[i] = "OK"}

\* What ibv_dereg_mr() is called for.  Mutant: only the send region.
SendRegion(o) == {<<o, "send">>}

RegionsOf(o) == {o} \X Side

\* Either call may fail: the region stays, and nothing else is different.
Released(o) == IF Faults THEN SUBSET RegionsOf(o) ELSE {RegionsOf(o)}

\* DPU_MPI_Test() finds its cookie, releases the regions of the entry and
\* returns its index.
TestDone(i) ==
  /\ pc = "scan" /\ First(i, DoneWith(used[arg]))
  /\ \E R \in Released(held[i]) : registered' = registered \ R
  /\ status' = [status EXCEPT ![i] = "EMPTY"]
  /\ tested'  = tested \cup {arg}
  /\ handles' = handles \ {arg}
  /\ Return
  /\ UNCHANGED <<cookie, held, nicVars, dpuVars, called, used, unmatched>>

TestNotDone ==
  /\ pc = "scan" /\ DoneWith(used[arg]) = {}
  /\ IF fn = "Wait" THEN Goto("post_recv") ELSE Return
  /\ UNCHANGED <<tableVars, nicVars, dpuVars, opVars, unmatched>>

\* DPU_Exit(): the goodbye, then the connection and the context are gone.
Exit ==
  /\ pc = "app"
  /\ Goto("exited")
  /\ UNCHANGED <<tableVars, nicVars, dpuVars, opVars, unmatched>>

-----------------------------------------------------------------------------
(* The NIC and the DPU.                                                    *)

Connected == qp = "up" /\ pc # "exited"

\* Requests arrive in the order of the calls.
DpuReceives(o) ==
  /\ Connected /\ First(o, outbox)
  /\ running' = running \cup {o}
  /\ outbox' = outbox \ {o}
  /\ acked' = acked + 1
  /\ UNCHANGED <<tableVars, nicVars, completed, opVars, callVars, unmatched>>

\* The write with immediate data: the result is in the receive buffer, and
\* the immediate data takes a posted receive.  Without one the DPU retries.
DpuCompletes(o) ==
  /\ Connected /\ o \in running /\ posted > 0
  /\ posted' = posted - 1
  /\ recv_cq' = Append(recv_cq, used[o])
  /\ running' = running \ {o}
  /\ completed' = completed \cup {o}
  /\ UNCHANGED <<tableVars, pending_recvs, qp, outbox, acked, opVars, callVars, unmatched>>

\* The connection breaks, and with it all the DPU was doing for this host.
LinkError ==
  /\ Faults /\ Connected
  /\ qp' = "error"
  /\ running' = {}
  /\ UNCHANGED <<tableVars, pending_recvs, posted, recv_cq, outbox, completed, acked, opVars, callVars, unmatched>>

FlushRecv ==
  /\ qp = "error" /\ pc # "exited" /\ posted > 0
  /\ posted' = posted - 1
  /\ recv_cq' = Append(recv_cq, Broken)
  /\ UNCHANGED <<tableVars, pending_recvs, qp, dpuVars, opVars, callVars, unmatched>>

-----------------------------------------------------------------------------

Application ==
  \/ \E c \in Cookie : Ialltoall(c)
  \/ \E done \in SUBSET Side : IalltoallFails(done)
  \/ \E f \in Calls : CallPoll(f)
  \/ \E f \in Calls, o \in handles : CallTest(f, o)
  \/ Exit

Library ==
  \/ \E i \in Entry : EnterTable(i) \/ Match(i) \/ TestDone(i)
  \/ TableFull
  \/ PostReceive \/ PostReceiveFails
  \/ NoEvent \/ NoMatch \/ TransportFailure \/ PollFails
  \/ TestNotDone

Dpu == LinkError \/ FlushRecv \/ \E o \in Op : DpuReceives(o) \/ DpuCompletes(o)

Stopped == pc = "exited" /\ UNCHANGED vars

Next == Application \/ Library \/ Dpu \/ Stopped

Spec == Init /\ [][Next]_vars

\* A call that is running runs on; the DPU serves each operation it has.  The
\* application need not call anything.
Fairness ==
  /\ WF_vars(Library)
  /\ WF_vars(FlushRecv)
  /\ \A o \in Op : WF_vars(DpuReceives(o)) /\ WF_vars(DpuCompletes(o))

FairSpec == Spec /\ Fairness

-----------------------------------------------------------------------------
(* Properties.                                                             *)

\* Every variable has a value of its type.
TypeOK ==
  /\ cookie \in [Entry -> Cookie \cup {0}]
  /\ status \in [Entry -> CompStatus]
  /\ held \in [Entry -> Op \cup {0}]
  /\ pending_recvs \in {0, 1}
  /\ registered \subseteq Region
  /\ posted \in {0, 1}
  /\ recv_cq \in Seq(Cookie \cup {0, Broken})
  /\ qp \in {"up", "error"}
  /\ outbox \subseteq Op
  /\ acked \in Nat
  /\ running \subseteq Op
  /\ called \in 0 .. MaxOp
  /\ used \in [Op -> Cookie \cup {0}]
  /\ pc \in {"app", "send_comp", "post_recv", "poll_cq", "scan", "exited"}
  /\ fn \in {"none", "Ialltoall", "Poll", "Longpoll", "Test", "Wait"}
  /\ arg \in Op \cup {0}
  /\ handles \subseteq Op
  /\ completed \subseteq Op
  /\ tested \subseteq Op
  /\ unmatched \in BOOLEAN

\* pending_recvs is what is posted or completed and not polled, so that a
\* receive is posted exactly when there is none: one too few and the DPU
\* retries its write for ever, one too many and two results share the buffer.
ReceivesCounted ==
  /\ posted + Len(recv_cq) <= 1
  /\ qp = "up" => pending_recvs = posted + Len(recv_cq)

\* dpulib.c:361-364 of DPU_MPI_Test(): "Returns the index if completed."  The
\* result of an operation that was reported complete is in the receive buffer.
TestedIsCompleted == tested \subseteq completed

\* While the DPU serves an operation both its buffers are registered: it reads
\* the one and writes the other without asking the host.
ServedIsRegistered == running \X Side \subseteq registered

\* The library holds the regions of exactly the operations that are not tested
\* yet: none is forgotten when entries are reused.
OnlyOpenRegistered ==
  registered = (handles \cup (IF pc = "send_comp" THEN {called} ELSE {})) \X Side

\* Polls book a completion on the first entry that has its cookie, whatever its
\* status, and a released entry keeps its cookie (dpulib.c:269 and 337).  That
\* entry is one that waits: for an operation whose result is written and that
\* was not reported yet.
CompletionsAwaited ==
  \A k \in DOMAIN recv_cq, i \in Entry :
    recv_cq[k] # Broken /\ First(i, Matching(recv_cq[k])) =>
      status[i] = "PENDING" /\ held[i] \in completed \ tested

\* dpulib.c:285 calls a completion without an entry an "Invalid completion
\* event from DPU!": each completion of an operation the host asked for has
\* an entry.
CompletionsMatch == ~unmatched

\* DPU_MPI_Wait() for an operation of the table returns and reports it.
WaitReports == \A o \in Op : (fn = "Wait" /\ arg = o) ~> o \in tested

=============================================================================
