--------------------------- MODULE HostLibProofs ---------------------------
(***************************************************************************)
(* Theorems about the host library, for every table length, every set of   *)
(* cookies and every number of operations, with and without faults.        *)
(***************************************************************************)
EXTENDS HostLib, DataLemmas, FiniteSetTheorems

-----------------------------------------------------------------------------
(* Type correctness and the count of receives.  pending_recvs keeps its    *)
(* type because it is never less than what is posted or waits to be        *)
(* polled, so the invariant is inductive together with that count.         *)

\* What a call knows while it runs.
CallOK ==
  /\ pc = "send_comp" => called \in Op
  /\ pc \in {"post_recv", "poll_cq", "scan"} /\ fn \in {"Test", "Wait"} => arg \in handles
  /\ pc = "scan" => fn \in {"Test", "Wait"}

\* While the link is up each receive is counted; a broken one is counted but
\* no longer there.
ReceiveInv ==
  /\ posted + Len(recv_cq) <= 1
  /\ posted + Len(recv_cq) <= pending_recvs
  /\ qp = "up" => /\ pending_recvs = posted + Len(recv_cq)
                  /\ \A k \in DOMAIN recv_cq : recv_cq[k] # Broken

TypedInv == TypeOK /\ CallOK /\ ReceiveInv

LEMMA TypedInit == Init => TypedInv
  <1> SUFFICES ASSUME Init PROVE TypedInv
    OBVIOUS
  <1>1. TypeOK
    <2>1. recv_cq \in Seq(Cookie \cup {0, Broken})
      BY EmptySeq DEF Init
    <2>2. called \in 0 .. MaxOp
      BY HostAssumption DEF Init
    <2>3. /\ cookie \in [Entry -> Cookie \cup {0}] /\ status \in [Entry -> CompStatus]
          /\ held \in [Entry -> Op \cup {0}] /\ used \in [Op -> Cookie \cup {0}]
      BY DEF Init, CompStatus
    <2>4. QED
      BY <2>1, <2>2, <2>3 DEF Init, TypeOK
  <1>2. CallOK
    BY DEF Init, CallOK
  <1>3. ReceiveInv
    BY EmptySeq DEF Init, ReceiveInv
  <1>4. QED
    BY <1>1, <1>2, <1>3 DEF TypedInv

\* What is polled from the receive queue: there is nothing behind it.
LEMMA ReceiveQueue ==
  ASSUME TypedInv
  PROVE  /\ Len(recv_cq) \in {0, 1} /\ DOMAIN recv_cq = 1 .. Len(recv_cq)
         /\ recv_cq # <<>> =>
              /\ Head(recv_cq) = recv_cq[1] /\ Len(recv_cq) = 1 /\ posted = 0
              /\ Tail(recv_cq) \in Seq(Cookie \cup {0, Broken}) /\ Len(Tail(recv_cq)) = 0
              /\ DOMAIN Tail(recv_cq) = {} /\ pending_recvs = 1
              /\ Head(recv_cq) = Broken => qp = "error"
  <1>1. recv_cq \in Seq(Cookie \cup {0, Broken}) /\ posted \in {0, 1} /\ pending_recvs \in {0, 1}
        /\ qp \in {"up", "error"}
    BY DEF TypedInv, TypeOK
  <1>2. Len(recv_cq) \in Nat /\ DOMAIN recv_cq = 1 .. Len(recv_cq)
    BY <1>1, LenProperties
  <1>3. Len(recv_cq) \in {0, 1}
    BY <1>1, <1>2 DEF TypedInv, ReceiveInv
  <1>4. ASSUME recv_cq # <<>>
        PROVE  /\ Head(recv_cq) = recv_cq[1] /\ Len(recv_cq) = 1 /\ posted = 0
               /\ Tail(recv_cq) \in Seq(Cookie \cup {0, Broken}) /\ Len(Tail(recv_cq)) = 0
               /\ DOMAIN Tail(recv_cq) = {} /\ pending_recvs = 1
               /\ Head(recv_cq) = Broken => qp = "error"
    <2>1. /\ Head(recv_cq) = recv_cq[1] /\ Tail(recv_cq) \in Seq(Cookie \cup {0, Broken})
          /\ Len(recv_cq) \in Nat \ {0} /\ Len(Tail(recv_cq)) = Len(recv_cq) - 1
          /\ DOMAIN Tail(recv_cq) = 1 .. Len(recv_cq) - 1
      BY <1>1, <1>4, QueueTail
    <2>2. Len(recv_cq) = 1 /\ posted = 0 /\ pending_recvs = 1
      BY <1>1, <1>3, <2>1 DEF TypedInv, ReceiveInv
    <2>3. 1 \in DOMAIN recv_cq
      BY <1>2, <2>2
    <2>4. QED
      BY <1>1, <2>1, <2>2, <2>3 DEF TypedInv, ReceiveInv
  <1>5. QED
    BY <1>2, <1>3, <1>4

\* A completion is appended by the DPU or by the broken link.
LEMMA ReceiveAppended ==
  ASSUME TypedInv, posted > 0, NEW e \in Cookie \cup {0, Broken}
  PROVE  /\ Append(recv_cq, e) \in Seq(Cookie \cup {0, Broken})
         /\ recv_cq = <<>> /\ posted = 1 /\ pending_recvs = 1
         /\ Len(Append(recv_cq, e)) = 1
         /\ DOMAIN Append(recv_cq, e) = {1} /\ Append(recv_cq, e)[1] = e
  <1>1. recv_cq \in Seq(Cookie \cup {0, Broken}) /\ posted = 1 /\ pending_recvs \in {0, 1}
    BY DEF TypedInv, TypeOK
  <1>2. Len(recv_cq) = 0 /\ pending_recvs = 1
    BY <1>1, ReceiveQueue DEF TypedInv, ReceiveInv
  <1>3. QED
    BY <1>1, <1>2, QueueAppend, EmptySeq, ReceiveQueue

LEMMA TypedIalltoall ==
  ASSUME TypedInv, NEW c \in Cookie, Ialltoall(c)
  PROVE  TypedInv'
  <1>1. called + 1 \in Op /\ called + 1 \in 0 .. MaxOp
    BY HostAssumption DEF TypedInv, TypeOK, Ialltoall, Op
  <1>2. TypeOK'
    BY <1>1 DEF TypedInv, TypeOK, Ialltoall, Region, tableVars, nicVars
  <1>3. CallOK' /\ ReceiveInv'
    BY <1>1 DEF TypedInv, CallOK, ReceiveInv, Ialltoall, nicVars
  <1>4. QED
    BY <1>2, <1>3 DEF TypedInv

LEMMA TypedIalltoallFails ==
  ASSUME TypedInv, NEW done \in SUBSET Side, IalltoallFails(done)
  PROVE  TypedInv'
  <1>1. called + 1 \in Op /\ called + 1 \in 0 .. MaxOp
    BY HostAssumption DEF TypedInv, TypeOK, IalltoallFails, Op
  <1>2. TypeOK'
    BY <1>1 DEF TypedInv, TypeOK, IalltoallFails, Region, tableVars, nicVars, dpuVars, callVars
  <1>3. CallOK' /\ ReceiveInv'
    BY <1>1 DEF TypedInv, CallOK, ReceiveInv, IalltoallFails, nicVars, callVars
  <1>4. QED
    BY <1>2, <1>3 DEF TypedInv

LEMMA TypedTable ==
  ASSUME TypedInv, TableFull \/ \E i \in Entry : EnterTable(i)
  PROVE  TypedInv'
  <1>1. called \in Op /\ pc = "send_comp" /\ acked' \in Nat
    BY DEF TypedInv, TypeOK, CallOK, TableFull, EnterTable, Sent
  <1>2. CASE TableFull
    BY <1>1, <1>2 DEF TypedInv, TypeOK, CallOK, ReceiveInv, TableFull, Return, tableVars, nicVars, opVars
  <1>3. ASSUME NEW i \in Entry, EnterTable(i) PROVE TypedInv'
    <2>1. TypeOK'
      BY <1>1, <1>3 DEF TypedInv, TypeOK, EnterTable, Return, CompStatus, nicVars
    <2>2. CallOK' /\ ReceiveInv'
      BY <1>3 DEF TypedInv, CallOK, ReceiveInv, EnterTable, Return, nicVars
    <2>3. QED
      BY <2>1, <2>2 DEF TypedInv
  <1>4. QED
    BY <1>2, <1>3

\* The application calls a function, or a function goes on without a receive.
LEMMA TypedCalls ==
  ASSUME TypedInv,
         \/ \E f \in Calls : CallPoll(f)
         \/ \E f \in Calls, o \in handles : CallTest(f, o)
         \/ Exit \/ PostReceiveFails \/ NoEvent \/ PollFails \/ TestNotDone
  PROVE  TypedInv'
  <1>1. UNCHANGED <<tableVars, nicVars, dpuVars, opVars, unmatched>>
    BY DEF CallPoll, CallTest, Exit, PostReceiveFails, NoEvent, PollFails, TestNotDone
  <1>2. pc' \in {"app", "post_recv", "scan", "exited"}
    BY DEF CallPoll, CallTest, Exit, PostReceiveFails, NoEvent, PollFails, TestNotDone, Polled,
       Goto, Return
  <1>3. fn' \in {"none", "Ialltoall", "Poll", "Longpoll", "Test", "Wait"} /\ arg' \in Op \cup {0}
    BY HostAssumption DEF TypedInv, TypeOK, CallPoll, CallTest, Exit, PostReceiveFails, NoEvent,
       PollFails, TestNotDone, Polled, Goto, Return
  <1>4. CallOK'
    BY <1>1 DEF TypedInv, CallOK, CallPoll, CallTest, Exit, PostReceiveFails, NoEvent, PollFails,
       TestNotDone, Polled, Goto, Return, opVars
  <1>5. QED
    BY <1>1, <1>2, <1>3, <1>4 DEF TypedInv, TypeOK, ReceiveInv, tableVars, nicVars, dpuVars, opVars

LEMMA TypedPostReceive ==
  ASSUME TypedInv, PostReceive
  PROVE  TypedInv'
  <1>1. Len(recv_cq) \in Nat
    BY ReceiveQueue
  <1>2. posted' \in {0, 1} /\ pending_recvs' \in {0, 1} /\ ReceiveInv'
    BY <1>1 DEF TypedInv, TypeOK, ReceiveInv, PostReceive, Posts
  <1>3. CallOK'
    BY DEF TypedInv, CallOK, PostReceive, Goto, opVars
  <1>4. QED
    BY <1>2, <1>3 DEF TypedInv, TypeOK, PostReceive, Goto, tableVars, dpuVars, opVars

\* A completion is polled.
LEMMA TypedEvent ==
  ASSUME TypedInv, NoMatch \/ TransportFailure \/ \E i \in Entry : Match(i)
  PROVE  TypedInv'
  <1>1. recv_cq # <<>> /\ recv_cq' = Tail(recv_cq) /\ UNCHANGED <<posted, qp>> /\ pc = "poll_cq"
    BY DEF NoMatch, TransportFailure, Match, Event
  <1>2. /\ recv_cq' \in Seq(Cookie \cup {0, Broken}) /\ Len(recv_cq') = 0 /\ DOMAIN recv_cq' = {}
        /\ posted = 0 /\ pending_recvs = 1 /\ Len(recv_cq) = 1
        /\ Head(recv_cq) = Broken => qp = "error"
    BY <1>1, ReceiveQueue
  <1>3. pending_recvs' = 0 \/ (pending_recvs' = 1 /\ qp = "error")
    BY <1>2 DEF NoMatch, TransportFailure, Match, Event, Counted
  <1>4. ReceiveInv'
    BY <1>1, <1>2, <1>3 DEF TypedInv, TypeOK, ReceiveInv
  <1>5. CallOK'
    BY <1>1 DEF TypedInv, CallOK, NoMatch, TransportFailure, Match, Polled, Goto, Return, opVars
  <1>6. status' \in [Entry -> CompStatus]
    BY DEF TypedInv, TypeOK, NoMatch, TransportFailure, Match, CompStatus, tableVars
  <1>7. /\ pc' \in {"app", "scan"} /\ fn' \in {fn, "none"} /\ arg' \in {arg, 0}
        /\ unmatched' \in {unmatched, TRUE}
        /\ UNCHANGED <<cookie, held, dpuVars, opVars>>
    BY DEF NoMatch, TransportFailure, Match, Polled, Goto, Return, tableVars
  <1>8. TypeOK'
    BY <1>1, <1>2, <1>3, <1>6, <1>7 DEF TypedInv, TypeOK, dpuVars, opVars
  <1>9. QED
    BY <1>4, <1>5, <1>8 DEF TypedInv

LEMMA TypedTestDone ==
  ASSUME TypedInv, NEW i \in Entry, TestDone(i)
  PROVE  TypedInv'
  <1>1. arg \in handles /\ arg \in Op
    BY DEF TypedInv, TypeOK, CallOK, TestDone
  <1>2. TypeOK'
    BY <1>1 DEF TypedInv, TypeOK, TestDone, Return, CompStatus, nicVars, dpuVars
  <1>3. CallOK' /\ ReceiveInv'
    BY DEF TypedInv, CallOK, ReceiveInv, TestDone, Return, nicVars
  <1>4. QED
    BY <1>2, <1>3 DEF TypedInv

LEMMA TypedDpu ==
  ASSUME TypedInv, Dpu
  PROVE  TypedInv'
  <1>1. CASE LinkError \/ \E o \in Op : DpuReceives(o)
    <2>1. TypeOK'
      BY <1>1 DEF TypedInv, TypeOK, DpuReceives, LinkError, tableVars, nicVars, opVars, callVars
    <2>2. CallOK' /\ ReceiveInv'
      BY <1>1 DEF TypedInv, TypeOK, CallOK, ReceiveInv, DpuReceives, LinkError, nicVars, opVars, callVars
    <2>3. QED
      BY <2>1, <2>2 DEF TypedInv
  <1>2. ASSUME NEW e \in Cookie \cup {0, Broken}, posted > 0, e = Broken => qp = "error",
               posted' = posted - 1, recv_cq' = Append(recv_cq, e),
               UNCHANGED <<tableVars, pending_recvs, qp, outbox, acked, opVars, callVars, unmatched>>,
               running' \subseteq running, completed' \subseteq Op
        PROVE  TypedInv'
    <2>1. /\ recv_cq' \in Seq(Cookie \cup {0, Broken})
          /\ posted' = 0 /\ Len(recv_cq') = 1 /\ pending_recvs = 1
          /\ DOMAIN recv_cq' = {1} /\ recv_cq'[1] = e
      BY <1>2, ReceiveAppended
    <2>2. TypeOK'
      BY <1>2, <2>1 DEF TypedInv, TypeOK, tableVars, opVars, callVars
    <2>3. ReceiveInv'
      BY <1>2, <2>1 DEF TypedInv, ReceiveInv
    <2>4. CallOK'
      BY <1>2 DEF TypedInv, CallOK, opVars, callVars
    <2>5. QED
      BY <2>2, <2>3, <2>4 DEF TypedInv
  <1>3. CASE FlushRecv
    BY <1>2, <1>3 DEF FlushRecv, dpuVars, TypedInv, TypeOK
  <1>4. ASSUME NEW o \in Op, DpuCompletes(o) PROVE TypedInv'
    <2>1. used[o] \in Cookie \cup {0, Broken} /\ used[o] # Broken
      BY HostAssumption DEF TypedInv, TypeOK, Broken
    <2>2. running' \subseteq running /\ completed' \subseteq Op
      BY <1>4 DEF DpuCompletes, TypedInv, TypeOK
    <2>3. QED
      BY <1>2, <1>4, <2>1, <2>2 DEF DpuCompletes
  <1>5. QED
    BY <1>1, <1>3, <1>4 DEF Dpu

LEMMA TypedNext == TypedInv /\ [Next]_vars => TypedInv'
  <1> SUFFICES ASSUME TypedInv, [Next]_vars PROVE TypedInv'
    OBVIOUS
  <1>1. CASE Application
    BY <1>1, TypedIalltoall, TypedIalltoallFails, TypedCalls DEF Application
  <1>2. CASE Library
    BY <1>2, TypedTable, TypedCalls, TypedPostReceive, TypedEvent, TypedTestDone DEF Library
  <1>3. CASE Dpu
    BY <1>3, TypedDpu
  <1>4. CASE Stopped \/ UNCHANGED vars
    BY <1>4 DEF Stopped, TypedInv, TypeOK, CallOK, ReceiveInv, vars, tableVars, nicVars, dpuVars,
       opVars, callVars
  <1>5. QED
    BY <1>1, <1>2, <1>3, <1>4 DEF Next

LEMMA TypedAlways == Spec => []TypedInv
  BY TypedInit, TypedNext, PTL DEF Spec

\* Every variable keeps its type; pending_recvs is never more than one.
THEOREM HostTyped == Spec => []TypeOK
  <1>1. TypedInv => TypeOK
    BY DEF TypedInv
  <1>2. QED
    BY <1>1, TypedAlways, PTL

\* The library's count of receives is right for as long as the link is up.
THEOREM HostReceivesCounted == Spec => []ReceivesCounted
  <1>1. TypedInv => ReceivesCounted
    BY DEF TypedInv, ReceiveInv, ReceivesCounted
  <1>2. QED
    BY <1>1, TypedAlways, PTL

-----------------------------------------------------------------------------
(* Ownership: which entry, which cookie and which regions belong to an     *)
(* operation.  As long as rand() returns no cookie that is still known,    *)
(* a cookie leads to one operation wherever it turns up: in the table, in  *)
(* a completion, or in a request on its way.                               *)

InUse(i) == status[i] # "EMPTY"

\* Operations are numbered by the calls; one being served is not complete.
OpsOK ==
  /\ running \subseteq 1 .. called /\ completed \subseteq 1 .. called
  /\ handles \subseteq 1 .. called
  /\ outbox \subseteq 1 .. called /\ outbox \cap running = {}
  /\ (outbox \cup running) \cap completed = {} /\ handles \cap tested = {}
  /\ (outbox \cup running) \X Side \subseteq registered

\* Every open operation has an entry, and the entry its cookie; no other
\* entry, not even an unused one, has a cookie of an entry in use.
TableOK ==
  /\ \A i \in Entry : InUse(i) => held[i] \in handles /\ cookie[i] = used[held[i]]
  /\ \A i, j \in Entry : InUse(i) /\ i # j => cookie[i] # cookie[j]
  /\ \A o \in handles : \E i \in Entry : InUse(i) /\ held[i] = o
  /\ \A i \in Entry : status[i] = "OK" => held[i] \in completed

\* An entry with the cookie of a request on its way, of an operation being
\* served, or of a completion not polled yet, is waiting for just that.
CookiesOK ==
  /\ \A o \in outbox \cup running, i \in Entry :
       cookie[i] = used[o] => status[i] = "PENDING" /\ held[i] = o
  /\ \A k \in DOMAIN recv_cq, i \in Entry :
       recv_cq[k] # Broken /\ cookie[i] = recv_cq[k] =>
         status[i] = "PENDING" /\ held[i] \in completed

\* The cookie of the request being sent is known nowhere else.
CallFresh ==
  pc = "send_comp" =>
    /\ called \notin handles \cup tested
    /\ \A i \in Entry : cookie[i] # used[called]
    /\ \A o \in outbox \cup running : used[o] = used[called] => o = called
    /\ \A k \in DOMAIN recv_cq :
         recv_cq[k] # Broken /\ recv_cq[k] = used[called] => called \in completed

OwnedInv == OpsOK /\ TableOK /\ CookiesOK /\ CallFresh /\ TestedIsCompleted

LEMMA OwnedInit == Init => OwnedInv
  <1> SUFFICES ASSUME Init PROVE OwnedInv
    OBVIOUS
  <1>1. OpsOK /\ TableOK /\ CallFresh /\ TestedIsCompleted
    BY DEF Init, OpsOK, TableOK, InUse, CallFresh, TestedIsCompleted
  <1>2. CookiesOK
    BY DEF Init, CookiesOK
  <1>3. QED
    BY <1>1, <1>2 DEF OwnedInv

\* A cookie that is not known is neither in the table nor on its way back,
\* and it is new.
LEMMA OwnedIalltoall ==
  ASSUME ~Repeats, TypedInv, OwnedInv, NEW c \in Cookie, Ialltoall(c)
  PROVE  OwnedInv'
  <1>1. /\ called \in 0 .. MaxOp /\ called < MaxOp /\ called + 1 \in Op
        /\ pc = "app" /\ pc' = "send_comp" /\ called' = called + 1
        /\ outbox' = outbox \cup {called + 1} /\ running' = running
    BY HostAssumption DEF TypedInv, TypeOK, Ialltoall, Op
  <1>2. /\ \A o \in 1 .. called : o \in Op /\ used'[o] = used[o]
        /\ used'[called + 1] = c
    BY <1>1, HostAssumption DEF TypedInv, TypeOK, Ialltoall, Op
  <1>3. /\ \A i \in Entry : cookie[i] # c
        /\ \A o \in outbox \cup running : used[o] # c
        /\ \A k \in DOMAIN recv_cq : recv_cq[k] # c
    BY DEF Ialltoall, Known
  <1>4. OpsOK'
    BY <1>1 DEF OwnedInv, OpsOK, Ialltoall
  <1>5. TableOK'
    BY <1>2 DEF OwnedInv, OpsOK, TableOK, InUse, Ialltoall, tableVars
  <1>6. /\ \A o \in outbox \cup running : o \in 1 .. called /\ used'[o] = used[o]
        /\ outbox' \cup running' = (outbox \cup running) \cup {called + 1}
        /\ UNCHANGED <<tableVars, recv_cq, completed, handles, tested>>
    BY <1>1, <1>2 DEF OwnedInv, OpsOK, Ialltoall, nicVars
  <1>7. CookiesOK'
    BY <1>2, <1>3, <1>6 DEF OwnedInv, CookiesOK, tableVars
  <1>8. called + 1 \notin handles \cup tested
    BY <1>1 DEF OwnedInv, OpsOK, TestedIsCompleted
  <1>9. CallFresh'
    BY <1>1, <1>2, <1>3, <1>6, <1>8 DEF CallFresh, tableVars
  <1>10. QED
    BY <1>4, <1>5, <1>7, <1>9 DEF OwnedInv, TestedIsCompleted, Ialltoall

LEMMA OwnedIalltoallFails ==
  ASSUME TypedInv, OwnedInv, NEW done \in SUBSET Side, IalltoallFails(done)
  PROVE  OwnedInv'
  <1>1. called \in Nat /\ called' = called + 1 /\ pc = "app" /\ pc' = pc
    BY DEF TypedInv, TypeOK, IalltoallFails, callVars
  <1>2. OpsOK'
    BY <1>1 DEF OwnedInv, OpsOK, IalltoallFails, dpuVars
  <1>3. QED
    BY <1>1, <1>2 DEF OwnedInv, TableOK, InUse, CookiesOK, CallFresh, TestedIsCompleted, IalltoallFails,
       tableVars, nicVars, dpuVars

LEMMA OwnedEnterTable ==
  ASSUME TypedInv, OwnedInv, NEW i \in Entry, EnterTable(i)
  PROVE  OwnedInv'
  <1>1. /\ called \in Op /\ pc = "send_comp" /\ pc' = "app" /\ outbox' = outbox
        /\ status[i] = "EMPTY" /\ called \in 1 .. called
    BY DEF TypedInv, TypeOK, CallOK, EnterTable, Sent, First, Free, Return, Op
  <1>2. /\ cookie'[i] = used[called] /\ status'[i] = "PENDING" /\ held'[i] = called
        /\ \A j \in Entry \ {i} : /\ cookie'[j] = cookie[j] /\ status'[j] = status[j]
                                  /\ held'[j] = held[j]
        /\ UNCHANGED <<used, running, completed, called, registered, recv_cq, tested>>
        /\ handles' = handles \cup {called}
    BY DEF TypedInv, TypeOK, EnterTable, nicVars
  <1>3. /\ called \notin handles \cup tested
        /\ \A j \in Entry : cookie[j] # used[called]
        /\ \A o \in outbox \cup running : used[o] = used[called] => o = called
        /\ \A k \in DOMAIN recv_cq :
             recv_cq[k] # Broken /\ recv_cq[k] = used[called] => called \in completed
    BY <1>1 DEF OwnedInv, CallFresh
  <1>4. OpsOK'
    BY <1>1, <1>2, <1>3 DEF OwnedInv, OpsOK
  <1>5. TableOK'
    <2>1. \A j \in Entry : InUse(j)' => j = i \/ InUse(j)
      BY <1>2 DEF InUse
    <2>2. \A j \in Entry : InUse(j)' => held'[j] \in handles' /\ cookie'[j] = used'[held'[j]]
      BY <1>2, <2>1 DEF OwnedInv, TableOK
    <2>3. \A j, k \in Entry : InUse(j)' /\ j # k => cookie'[j] # cookie'[k]
      BY <1>2, <1>3, <2>1 DEF OwnedInv, TableOK
    <2>4. \A o \in handles' : \E j \in Entry : InUse(j)' /\ held'[j] = o
      <3> SUFFICES ASSUME NEW o \in handles' PROVE \E j \in Entry : InUse(j)' /\ held'[j] = o
        OBVIOUS
      <3>1. CASE o = called
        BY <1>2, <3>1 DEF InUse
      <3>2. CASE o \in handles
        <4>1. PICK j \in Entry : InUse(j) /\ held[j] = o
          BY <3>2 DEF OwnedInv, TableOK
        <4>2. j # i
          BY <1>1, <4>1 DEF InUse
        <4>3. QED
          BY <1>2, <4>1, <4>2 DEF InUse
      <3>3. QED
        BY <1>2, <3>1, <3>2
    <2>5. \A j \in Entry : status'[j] = "OK" => held'[j] \in completed'
      BY <1>2 DEF OwnedInv, TableOK
    <2>6. QED
      BY <2>2, <2>3, <2>4, <2>5 DEF TableOK
  <1>6. CookiesOK'
    <2>1. ASSUME NEW o \in outbox \cup running, NEW j \in Entry, cookie'[j] = used[o]
          PROVE  status'[j] = "PENDING" /\ held'[j] = o
      BY <1>2, <1>3, <2>1 DEF OwnedInv, CookiesOK
    <2>2. ASSUME NEW k \in DOMAIN recv_cq, NEW j \in Entry, recv_cq[k] # Broken,
                 cookie'[j] = recv_cq[k]
          PROVE  status'[j] = "PENDING" /\ held'[j] \in completed
      BY <1>2, <1>3, <2>2 DEF OwnedInv, CookiesOK
    <2>3. QED
      BY <1>1, <1>2, <2>1, <2>2 DEF CookiesOK
  <1>7. QED
    BY <1>1, <1>2, <1>4, <1>5, <1>6 DEF OwnedInv, CallFresh, TestedIsCompleted

\* Steps that touch neither the table nor what the DPU does.
LEMMA OwnedCalls ==
  ASSUME OwnedInv,
         \/ TableFull
         \/ \E f \in Calls : CallPoll(f)
         \/ \E f \in Calls, o \in handles : CallTest(f, o)
         \/ Exit \/ PostReceive \/ PostReceiveFails \/ NoEvent \/ PollFails \/ TestNotDone
  PROVE  OwnedInv'
  <1>1. UNCHANGED <<tableVars, recv_cq, outbox, running, completed, opVars>> /\ pc' # "send_comp"
    BY DEF TableFull, CallPoll, CallTest, Exit, PostReceive, PostReceiveFails, NoEvent, PollFails,
       TestNotDone, Polled, Goto, Return, nicVars, dpuVars
  <1>2. QED
    BY <1>1 DEF OwnedInv, OpsOK, TableOK, InUse, CookiesOK, CallFresh, TestedIsCompleted, tableVars,
       opVars

\* The completion at the head of the queue marks the entry of its operation.
LEMMA OwnedEvent ==
  ASSUME TypedInv, OwnedInv, NoMatch \/ TransportFailure \/ \E i \in Entry : Match(i)
  PROVE  OwnedInv'
  <1>1. /\ recv_cq # <<>> /\ recv_cq' = Tail(recv_cq) /\ pc = "poll_cq" /\ pc' # "send_comp"
        /\ UNCHANGED <<cookie, held, dpuVars, opVars>>
    BY DEF NoMatch, TransportFailure, Match, Event, Polled, Goto, Return, tableVars
  <1>2. DOMAIN recv_cq' = {} /\ 1 \in DOMAIN recv_cq /\ Head(recv_cq) = recv_cq[1]
    BY <1>1, ReceiveQueue
  <1>3. OpsOK' /\ CallFresh' /\ TestedIsCompleted'
    BY <1>1 DEF OwnedInv, OpsOK, CallFresh, TestedIsCompleted, dpuVars, opVars
  <1>4. CASE UNCHANGED status
    BY <1>1, <1>2, <1>3, <1>4 DEF OwnedInv, TableOK, InUse, CookiesOK, dpuVars, opVars
  <1>5. ASSUME NEW i \in Entry, Match(i) PROVE OwnedInv'
    <2>1. status[i] = "PENDING" /\ held[i] \in completed
      BY <1>2, <1>5 DEF Match, First, Matching, OwnedInv, CookiesOK
    <2>2. status'[i] = "OK" /\ \A j \in Entry \ {i} : status'[j] = status[j]
      BY <1>5 DEF Match, TypedInv, TypeOK
    <2>3. TableOK'
      BY <1>1, <2>1, <2>2 DEF OwnedInv, TableOK, InUse, dpuVars, opVars
    <2>4. held[i] \notin outbox \cup running
      BY <2>1 DEF OwnedInv, OpsOK
    <2>5. CookiesOK'
      BY <1>1, <1>2, <2>2, <2>4 DEF OwnedInv, CookiesOK, dpuVars, opVars
    <2>6. QED
      BY <1>3, <2>3, <2>5 DEF OwnedInv
  <1>6. QED
    BY <1>4, <1>5 DEF NoMatch, TransportFailure, tableVars

\* The entry that answers a test is the one of the operation asked for.
LEMMA OwnedTestDone ==
  ASSUME TypedInv, OwnedInv, NEW i \in Entry, TestDone(i)
  PROVE  OwnedInv'
  <1>1. /\ arg \in handles /\ pc = "scan" /\ pc' = "app"
        /\ status[i] = "OK" /\ cookie[i] = used[arg]
    BY DEF TypedInv, CallOK, TestDone, First, DoneWith, Return
  <1>2. PICK j \in Entry : InUse(j) /\ held[j] = arg
    BY <1>1 DEF OwnedInv, TableOK
  <1>3. j = i
    BY <1>1, <1>2 DEF OwnedInv, TableOK
  <1>4. held[i] = arg /\ arg \in completed /\ arg \notin outbox \cup running
    BY <1>1, <1>2, <1>3 DEF OwnedInv, TableOK, OpsOK
  <1>5. /\ status'[i] = "EMPTY" /\ \A k \in Entry \ {i} : status'[k] = status[k]
        /\ UNCHANGED <<cookie, held, recv_cq, dpuVars, called, used>>
        /\ handles' = handles \ {arg} /\ tested' = tested \cup {arg}
        /\ \E R \in SUBSET ({arg} \X Side) : registered' = registered \ R
    BY <1>4 DEF TestDone, Released, RegionsOf, TypedInv, TypeOK, nicVars
  <1>6. OpsOK'
    BY <1>1, <1>4, <1>5 DEF OwnedInv, OpsOK, dpuVars
  <1>7. TableOK'
    <2>1. \A k \in Entry : InUse(k)' <=> InUse(k) /\ k # i
      BY <1>5 DEF InUse
    <2>2. \A k \in Entry : InUse(k) /\ k # i => held[k] # arg
      BY <1>1, <1>4 DEF OwnedInv, TableOK, InUse
    <2>3. \A o \in handles' : \E k \in Entry : InUse(k)' /\ held'[k] = o
      BY <1>4, <1>5, <2>1 DEF OwnedInv, TableOK
    <2>4. QED
      BY <1>5, <2>1, <2>2, <2>3 DEF OwnedInv, TableOK, dpuVars
  <1>8. CookiesOK'
    BY <1>1, <1>5 DEF OwnedInv, CookiesOK, dpuVars
  <1>9. QED
    BY <1>1, <1>4, <1>5, <1>6, <1>7, <1>8 DEF OwnedInv, CallFresh, TestedIsCompleted, dpuVars

LEMMA OwnedDpuReceives ==
  ASSUME TypedInv, OwnedInv, NEW o \in Op, DpuReceives(o)
  PROVE  OwnedInv'
  <1>1. /\ outbox' \cup running' = outbox \cup running
        /\ UNCHANGED <<tableVars, nicVars, completed, opVars, callVars>>
    BY DEF DpuReceives, First
  <1>2. /\ outbox' \subseteq outbox \cup running /\ running' \subseteq outbox \cup running
        /\ outbox' \cap running' = {}
    BY <1>1 DEF DpuReceives, OwnedInv, OpsOK
  <1>3. OpsOK'
    BY <1>1, <1>2 DEF OwnedInv, OpsOK, opVars, callVars
  <1>4. CookiesOK' /\ CallFresh'
    BY <1>1 DEF OwnedInv, CookiesOK, CallFresh, tableVars, nicVars, opVars, callVars
  <1>5. QED
    BY <1>1, <1>3, <1>4 DEF OwnedInv, TableOK, InUse, TestedIsCompleted, tableVars, opVars

LEMMA OwnedDpuCompletes ==
  ASSUME TypedInv, OwnedInv, NEW o \in Op, DpuCompletes(o)
  PROVE  OwnedInv'
  <1>1. /\ o \in running /\ used[o] \in Cookie \cup {0, Broken} /\ posted > 0
        /\ running' = running \ {o} /\ completed' = completed \cup {o}
        /\ recv_cq' = Append(recv_cq, used[o])
        /\ UNCHANGED <<tableVars, outbox, opVars, callVars>>
    BY DEF DpuCompletes, TypedInv, TypeOK
  <1>2. DOMAIN recv_cq' = {1} /\ recv_cq'[1] = used[o]
    BY <1>1, ReceiveAppended
  <1>3. \A i \in Entry : cookie[i] = used[o] => status[i] = "PENDING" /\ held[i] = o
    BY <1>1 DEF OwnedInv, CookiesOK
  <1>4. OpsOK'
    BY <1>1 DEF OwnedInv, OpsOK, opVars, callVars
  <1>5. TableOK' /\ TestedIsCompleted'
    BY <1>1 DEF OwnedInv, TableOK, InUse, TestedIsCompleted, tableVars, opVars
  <1>6. CookiesOK'
    BY <1>1, <1>2, <1>3 DEF OwnedInv, CookiesOK, tableVars, opVars
  <1>7. CallFresh'
    BY <1>1, <1>2 DEF OwnedInv, CallFresh, tableVars, opVars, callVars
  <1>8. QED
    BY <1>4, <1>5, <1>6, <1>7 DEF OwnedInv

LEMMA OwnedLink ==
  ASSUME TypedInv, OwnedInv, LinkError \/ FlushRecv
  PROVE  OwnedInv'
  <1>1. CASE LinkError
    BY <1>1 DEF LinkError, OwnedInv, OpsOK, TableOK, InUse, CookiesOK, CallFresh, TestedIsCompleted,
       tableVars, opVars, callVars
  <1>2. CASE FlushRecv
    <2>1. DOMAIN recv_cq' = {1} /\ recv_cq'[1] = Broken
      BY <1>2, ReceiveAppended DEF FlushRecv
    <2>2. QED
      BY <1>2, <2>1 DEF FlushRecv, OwnedInv, OpsOK, TableOK, InUse, CookiesOK, CallFresh,
         TestedIsCompleted, tableVars, dpuVars, opVars, callVars
  <1>3. QED
    BY <1>1, <1>2

LEMMA OwnedNext ==
  ASSUME ~Repeats
  PROVE  TypedInv /\ OwnedInv /\ [Next]_vars => OwnedInv'
  <1> SUFFICES ASSUME TypedInv, OwnedInv, [Next]_vars PROVE OwnedInv'
    OBVIOUS
  <1>1. CASE Application
    BY <1>1, OwnedIalltoall, OwnedIalltoallFails, OwnedCalls DEF Application
  <1>2. CASE Library
    BY <1>2, OwnedEnterTable, OwnedCalls, OwnedEvent, OwnedTestDone DEF Library
  <1>3. CASE Dpu
    BY <1>3, OwnedDpuReceives, OwnedDpuCompletes, OwnedLink DEF Dpu
  <1>4. CASE Stopped \/ UNCHANGED vars
    <2>1. UNCHANGED <<tableVars, nicVars, dpuVars, opVars, callVars>>
      BY <1>4 DEF Stopped, vars
    <2>2. OpsOK' /\ TestedIsCompleted'
      BY <2>1 DEF OwnedInv, OpsOK, TestedIsCompleted, dpuVars, opVars, callVars
    <2>3. TableOK'
      BY <2>1 DEF OwnedInv, TableOK, InUse, tableVars, dpuVars, opVars
    <2>4. CookiesOK' /\ CallFresh'
      BY <2>1 DEF OwnedInv, CookiesOK, CallFresh, tableVars, nicVars, dpuVars, opVars, callVars
    <2>5. QED
      BY <2>2, <2>3, <2>4 DEF OwnedInv
  <1>5. QED
    BY <1>1, <1>2, <1>3, <1>4 DEF Next

LEMMA OwnedAlways ==
  ASSUME ~Repeats
  PROVE  Spec => []OwnedInv
  BY OwnedInit, OwnedNext, TypedAlways, PTL DEF Spec

\* As long as rand() returns no cookie that is still known, an operation that
\* DPU_MPI_Test() or DPU_MPI_Wait() reports complete is complete: also with a
\* full table, a broken link and calls that fail.
THEOREM HostTestedIsCompleted ==
  ASSUME ~Repeats
  PROVE  Spec => []TestedIsCompleted
  <1>1. OwnedInv => TestedIsCompleted
    BY DEF OwnedInv
  <1>2. QED
    BY <1>1, OwnedAlways, PTL

\* Under the same condition a completion is booked on the entry of an operation
\* that waits for it, whose result is written and that was not reported yet,
\* however often entries and cookies were used before.
THEOREM HostCompletionsAwaited ==
  ASSUME ~Repeats
  PROVE  Spec => []CompletionsAwaited
  <1>1. OwnedInv => CompletionsAwaited
    <2> SUFFICES ASSUME OwnedInv, NEW k \in DOMAIN recv_cq, NEW i \in Entry,
                        recv_cq[k] # Broken, First(i, Matching(recv_cq[k]))
                 PROVE  status[i] = "PENDING" /\ held[i] \in completed \ tested
      BY DEF CompletionsAwaited
    <2>1. status[i] = "PENDING" /\ held[i] \in completed
      BY DEF OwnedInv, CookiesOK, First, Matching
    <2>2. held[i] \in handles
      BY <2>1 DEF OwnedInv, TableOK, InUse
    <2>3. QED
      BY <2>1, <2>2 DEF OwnedInv, OpsOK
  <1>2. QED
    BY <1>1, OwnedAlways, PTL

\* Under the same condition the DPU never reads or writes a buffer that is
\* not registered.
THEOREM HostServedIsRegistered ==
  ASSUME ~Repeats
  PROVE  Spec => []ServedIsRegistered
  <1>1. OwnedInv => ServedIsRegistered
    BY DEF OwnedInv, OpsOK, ServedIsRegistered
  <1>2. QED
    BY <1>1, OwnedAlways, PTL

-----------------------------------------------------------------------------
(* The application keeps to the table: it never has more operations open    *)
(* than the table has entries.  Then the table is never full when a request *)
(* has been sent, so that every operation the DPU completes finds its       *)
(* entry, also when the completion overtakes DPU_MPI_Ialltoall() itself.    *)

LEMMA FiniteHandles ==
  ASSUME TypedInv
  PROVE  IsFiniteSet(handles)
  <1>1. IsFiniteSet(Op)
    BY HostAssumption, FS_Interval DEF Op
  <1>2. QED
    BY <1>1, FS_Subset DEF TypedInv, TypeOK

\* Entries in use belong to different operations, each of them not tested
\* yet: a full table means as many of these as it has entries.
LEMMA FullTable ==
  ASSUME TypedInv, OwnedInv, Free = {}
  PROVE  QueueDepth <= Cardinality(handles)
  <1>1. /\ held \in [Entry -> handles]
        /\ \A i, j \in Entry : held[i] = held[j] => i = j
    <2>1. \A i \in Entry : InUse(i)
      BY DEF Free, InUse
    <2>2. QED
      BY <2>1 DEF TypedInv, TypeOK, OwnedInv, TableOK
  <1>2. held \in Injection(Entry, handles)
    BY <1>1 DEF Injection, IsInjective
  <1>3. IsFiniteSet(handles)
    BY FiniteHandles
  <1>4. Cardinality(Entry) = QueueDepth
    <2>1. /\ QueueDepth \in Nat
          /\ Cardinality(0 .. QueueDepth - 1) =
               IF 0 > QueueDepth - 1 THEN 0 ELSE (QueueDepth - 1) - 0 + 1
      BY HostAssumption, FS_Interval
    <2>2. QED
      BY <2>1 DEF Entry
  <1>5. QED
    BY <1>2, <1>3, <1>4, FS_Injection

\* The requests on their way, the operations being served, and the completions
\* not polled, are those of the table and the one that is about to enter it.
AnsweredInv ==
  /\ CompletionsMatch
  /\ pc = "send_comp" => Cardinality(handles) < MaxOpen
  /\ \A o \in outbox \cup running : o \in handles \/ (pc = "send_comp" /\ o = called)
  /\ \A k \in DOMAIN recv_cq : recv_cq[k] # Broken =>
       \/ \E i \in Entry : cookie[i] = recv_cq[k]
       \/ pc = "send_comp" /\ recv_cq[k] = used[called]

LEMMA AnsweredInit == Init => AnsweredInv
  BY DEF Init, AnsweredInv, CompletionsMatch

\* A request is sent for an operation that finds an entry.
LEMMA AnsweredNotFull ==
  ASSUME MaxOpen <= QueueDepth, TypedInv, OwnedInv, AnsweredInv
  PROVE  ~TableFull
  <1> SUFFICES ASSUME TableFull PROVE FALSE
    OBVIOUS
  <1>1. QueueDepth <= Cardinality(handles)
    BY FullTable DEF TableFull
  <1>2. Cardinality(handles) < MaxOpen
    BY DEF TableFull, Sent, AnsweredInv
  <1>3. Cardinality(handles) \in Nat
    BY FiniteHandles, FS_CardinalityType
  <1>4. QED
    BY <1>1, <1>2, <1>3, HostAssumption

LEMMA AnsweredEnterTable ==
  ASSUME TypedInv, OwnedInv, AnsweredInv, NEW i \in Entry, EnterTable(i)
  PROVE  AnsweredInv'
  <1>1. /\ pc = "send_comp" /\ pc' = "app" /\ status[i] = "EMPTY"
        /\ cookie'[i] = used[called] /\ \A j \in Entry \ {i} : cookie'[j] = cookie[j]
        /\ handles' = handles \cup {called}
        /\ UNCHANGED <<recv_cq, outbox, running, called, used, unmatched>>
    BY DEF TypedInv, TypeOK, EnterTable, Sent, First, Free, Return, nicVars
  <1>2. \A k \in DOMAIN recv_cq : recv_cq[k] # Broken => recv_cq[k] # cookie[i]
    BY <1>1 DEF OwnedInv, CookiesOK
  <1>3. \A k \in DOMAIN recv_cq : recv_cq[k] # Broken => \E j \in Entry : cookie'[j] = recv_cq[k]
    <2> SUFFICES ASSUME NEW k \in DOMAIN recv_cq, recv_cq[k] # Broken
                 PROVE  \E j \in Entry : cookie'[j] = recv_cq[k]
      OBVIOUS
    <2>1. CASE recv_cq[k] = used[called]
      BY <1>1, <2>1
    <2>2. CASE recv_cq[k] # used[called]
      <3>1. PICK j \in Entry : cookie[j] = recv_cq[k]
        BY <2>2 DEF AnsweredInv
      <3>2. j # i
        BY <1>2, <3>1
      <3>3. QED
        BY <1>1, <3>1, <3>2
    <2>3. QED
      BY <2>1, <2>2
  <1>4. QED
    BY <1>1, <1>3 DEF AnsweredInv, CompletionsMatch

\* What arrives has an entry.
LEMMA AnsweredEvent ==
  ASSUME TypedInv, AnsweredInv, NoMatch \/ TransportFailure \/ \E i \in Entry : Match(i)
  PROVE  AnsweredInv'
  <1>1. /\ recv_cq # <<>> /\ recv_cq' = Tail(recv_cq) /\ pc = "poll_cq" /\ pc' # "send_comp"
        /\ UNCHANGED <<cookie, handles, outbox, running>>
    BY DEF NoMatch, TransportFailure, Match, Event, Polled, Goto, Return, tableVars, dpuVars, opVars
  <1>2. DOMAIN recv_cq' = {} /\ 1 \in DOMAIN recv_cq /\ Head(recv_cq) = recv_cq[1]
    BY <1>1, ReceiveQueue
  <1>3. ~NoMatch
    BY <1>1, <1>2 DEF NoMatch, Matching, AnsweredInv
  <1>4. unmatched' = unmatched
    BY <1>3 DEF TransportFailure, Match
  <1>5. QED
    BY <1>1, <1>2, <1>4 DEF AnsweredInv, CompletionsMatch

\* The DPU completes an operation of the table, or the one about to enter it.
LEMMA AnsweredDpu ==
  ASSUME TypedInv, OwnedInv, AnsweredInv, Dpu
  PROVE  AnsweredInv'
  <1>1. ASSUME NEW o \in Op, DpuReceives(o) PROVE AnsweredInv'
    <2>1. /\ outbox' \cup running' = outbox \cup running
          /\ UNCHANGED <<tableVars, nicVars, opVars, callVars, unmatched>>
      BY <1>1 DEF DpuReceives, First
    <2>2. QED
      BY <2>1 DEF AnsweredInv, CompletionsMatch, tableVars, nicVars, opVars, callVars
  <1>2. CASE LinkError
    BY <1>2 DEF LinkError, AnsweredInv, CompletionsMatch, tableVars, opVars, callVars
  <1>3. CASE FlushRecv
    <2>1. DOMAIN recv_cq' = {1} /\ recv_cq'[1] = Broken
      BY <1>3, ReceiveAppended DEF FlushRecv
    <2>2. QED
      BY <1>3, <2>1 DEF FlushRecv, AnsweredInv, CompletionsMatch, tableVars, dpuVars, opVars, callVars
  <1>4. ASSUME NEW o \in Op, DpuCompletes(o) PROVE AnsweredInv'
    <2>1. /\ o \in running /\ used[o] \in Cookie \cup {0, Broken} /\ posted > 0
          /\ running' = running \ {o} /\ recv_cq' = Append(recv_cq, used[o])
          /\ UNCHANGED <<tableVars, outbox, opVars, callVars, unmatched>>
      BY <1>4 DEF DpuCompletes, TypedInv, TypeOK
    <2>2. DOMAIN recv_cq' = {1} /\ recv_cq'[1] = used[o]
      BY <2>1, ReceiveAppended
    <2>3. (\E i \in Entry : cookie[i] = used[o]) \/ (pc = "send_comp" /\ used[o] = used[called])
      BY <2>1 DEF AnsweredInv, OwnedInv, TableOK
    <2>4. QED
      BY <2>1, <2>2, <2>3 DEF AnsweredInv, CompletionsMatch, tableVars, opVars, callVars
  <1>5. QED
    BY <1>1, <1>2, <1>3, <1>4 DEF Dpu

LEMMA AnsweredNext ==
  ASSUME MaxOpen <= QueueDepth
  PROVE  TypedInv /\ OwnedInv /\ AnsweredInv /\ [Next]_vars => AnsweredInv'
  <1> SUFFICES ASSUME TypedInv, OwnedInv, AnsweredInv, [Next]_vars PROVE AnsweredInv'
    OBVIOUS
  <1>1. ASSUME NEW c \in Cookie, Ialltoall(c) PROVE AnsweredInv'
    <2>1. /\ pc = "app" /\ pc' = "send_comp" /\ Cardinality(handles') < MaxOpen
          /\ UNCHANGED <<cookie, recv_cq, running, handles, unmatched>>
          /\ outbox' = outbox \cup {called'}
      BY <1>1 DEF Ialltoall, tableVars, nicVars
    <2>2. QED
      BY <2>1 DEF AnsweredInv, CompletionsMatch
  <1>2. ASSUME NEW i \in Entry, TestDone(i) PROVE AnsweredInv'
    <2>1. /\ pc = "scan" /\ pc' = "app" /\ handles' = handles \ {arg} /\ arg \in handles
          /\ status[i] = "OK" /\ cookie[i] = used[arg]
          /\ UNCHANGED <<cookie, recv_cq, outbox, running, unmatched>>
      BY <1>2 DEF TestDone, First, DoneWith, Return, TypedInv, CallOK, nicVars, dpuVars
    <2>2. arg \notin outbox \cup running
      BY <2>1 DEF OwnedInv, CookiesOK
    <2>3. QED
      BY <2>1, <2>2 DEF AnsweredInv, CompletionsMatch
  <1>3. ~TableFull
    BY AnsweredNotFull
  <1>4. CASE \/ \E done \in SUBSET Side : IalltoallFails(done)
             \/ \E f \in Calls : CallPoll(f)
             \/ \E f \in Calls, o \in handles : CallTest(f, o)
             \/ Exit \/ PostReceive \/ PostReceiveFails \/ NoEvent \/ PollFails \/ TestNotDone
    <2>1. /\ UNCHANGED <<cookie, recv_cq, outbox, running, handles, unmatched>>
          /\ pc # "send_comp" /\ pc' # "send_comp"
      BY <1>4 DEF IalltoallFails, CallPoll, CallTest, Exit, PostReceive, PostReceiveFails, NoEvent,
         PollFails, TestNotDone, Polled, Goto, Return, tableVars, nicVars, dpuVars, opVars, callVars
    <2>2. QED
      BY <2>1 DEF AnsweredInv, CompletionsMatch
  <1>5. CASE Stopped \/ UNCHANGED vars
    BY <1>5 DEF Stopped, AnsweredInv, CompletionsMatch, vars, tableVars, nicVars, dpuVars, opVars,
       callVars
  <1>6. QED
    BY <1>1, <1>2, <1>3, <1>4, <1>5, AnsweredEnterTable, AnsweredEvent, AnsweredDpu
       DEF Next, Application, Library

LEMMA AnsweredAlways ==
  ASSUME ~Repeats, MaxOpen <= QueueDepth
  PROVE  Spec => []AnsweredInv
  BY AnsweredInit, AnsweredNext, TypedAlways, OwnedAlways, PTL DEF Spec

\* As long as rand() returns no cookie that is still known and the application
\* opens no more operations than the table has entries, no completion of the
\* DPU is an invalid one to DPU_MPI_Poll(): the table is never full when it is
\* looked at, and an entry is never taken over while its completion is on its
\* way, also when the link breaks and calls fail.
THEOREM HostCompletionsMatch ==
  ASSUME ~Repeats, MaxOpen <= QueueDepth
  PROVE  Spec => []CompletionsMatch
  <1>1. AnsweredInv => CompletionsMatch
    BY DEF AnsweredInv
  <1>2. QED
    BY <1>1, AnsweredAlways, PTL

-----------------------------------------------------------------------------
(* Regions, when no call fails: DPU_MPI_Test() releases what the call of   *)
(* DPU_MPI_Ialltoall() registered, whatever entry it went through.         *)

\* What is open: not tested yet, or being sent.
Open == handles \cup (IF pc = "send_comp" THEN {called} ELSE {})

LEMMA OpenRegistered ==
  ASSUME ~Faults, MaxOpen <= QueueDepth
  PROVE  TypedInv /\ OwnedInv /\ AnsweredInv /\ OnlyOpenRegistered /\ [Next]_vars
           => OnlyOpenRegistered'
  <1> SUFFICES ASSUME TypedInv, OwnedInv, AnsweredInv, OnlyOpenRegistered, [Next]_vars
               PROVE  OnlyOpenRegistered'
    OBVIOUS
  <1>1. registered = Open \X Side
    BY DEF OnlyOpenRegistered, Open
  <1>2. ASSUME registered' = Open' \X Side PROVE OnlyOpenRegistered'
    BY <1>2 DEF OnlyOpenRegistered, Open
  <1>3. ASSUME NEW c \in Cookie, Ialltoall(c) PROVE OnlyOpenRegistered'
    <2>1. Open' = Open \cup {called + 1}
      BY <1>3 DEF Ialltoall, Open
    <2>2. registered' = registered \cup {called + 1} \X Side
      BY <1>3 DEF Ialltoall
    <2>3. registered' = Open' \X Side
      BY <1>1, <2>1, <2>2
    <2>4. QED
      BY <1>2, <2>3
  <1>4. ASSUME NEW i \in Entry, EnterTable(i) PROVE OnlyOpenRegistered'
    <2>1. Open' = Open /\ registered' = registered
      BY <1>4 DEF EnterTable, Sent, Return, Open
    <2>2. QED
      BY <1>1, <1>2, <2>1
  <1>5. ASSUME NEW i \in Entry, TestDone(i) PROVE OnlyOpenRegistered'
    <2>1. held[i] = arg
      <3>1. arg \in handles /\ status[i] = "OK" /\ cookie[i] = used[arg]
        BY <1>5 DEF TypedInv, CallOK, TestDone, First, DoneWith
      <3>2. PICK j \in Entry : InUse(j) /\ held[j] = arg
        BY <3>1 DEF OwnedInv, TableOK
      <3>3. QED
        BY <3>1, <3>2 DEF OwnedInv, TableOK
    <2>2. Open' = Open \ {arg} /\ registered' = registered \ ({arg} \X Side)
      BY <1>5, <2>1 DEF TestDone, Released, RegionsOf, Return, Open
    <2>3. registered' = Open' \X Side
      BY <1>1, <2>2
    <2>4. QED
      BY <1>2, <2>3
  <1>6. CASE ~ \/ \E c \in Cookie : Ialltoall(c)
               \/ \E i \in Entry : EnterTable(i) \/ TestDone(i)
    <2>1. ~TableFull
      BY AnsweredNotFull
    <2>2. UNCHANGED <<registered, handles>>
      BY <1>6, <2>1 DEF Next, Application, IalltoallFails, CallPoll, CallTest, Exit, Library, Match,
         PostReceive, PostReceiveFails, NoEvent, NoMatch, TransportFailure, PollFails, TestNotDone,
         Dpu, DpuReceives, LinkError, FlushRecv, DpuCompletes, Stopped, vars, opVars
    <2>3. (IF pc' = "send_comp" THEN {called'} ELSE {}) = (IF pc = "send_comp" THEN {called} ELSE {})
      BY <1>6, <2>1 DEF Next, Application, IalltoallFails, CallPoll, CallTest, Exit, Library, Match,
         PostReceive, PostReceiveFails, NoEvent, NoMatch, TransportFailure, PollFails, TestNotDone,
         Dpu, DpuReceives, LinkError, FlushRecv, DpuCompletes, Stopped, vars, opVars, callVars, Event,
         Polled, Goto, Return
    <2>4. QED
      BY <1>1, <1>2, <2>2, <2>3 DEF Open
  <1>7. QED
    BY <1>3, <1>4, <1>5, <1>6

\* As long as rand() returns no cookie that is still known, the application
\* opens no more operations than the table has entries and no call fails, the
\* library holds the regions of exactly the operations that are not tested
\* yet, whatever order they complete and are tested in.
THEOREM HostOnlyOpenRegistered ==
  ASSUME ~Repeats, ~Faults, MaxOpen <= QueueDepth
  PROVE  Spec => []OnlyOpenRegistered
  <1>1. Init => OnlyOpenRegistered
    BY DEF Init, OnlyOpenRegistered
  <1>2. Spec => []AnsweredInv
    BY AnsweredAlways
  <1>3. QED
    BY <1>1, <1>2, OpenRegistered, TypedAlways, OwnedAlways, PTL DEF Spec

=============================================================================
