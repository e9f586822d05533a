-------------------------- MODULE DpuServerProofs --------------------------
(***************************************************************************)
(* Theorems about the offload server, for every length of the job list,    *)
(* depth of the send queue, number of requests and set of sizes.           *)
(***************************************************************************)
EXTENDS DpuServer, DataLemmas, FiniteSetTheorems

-----------------------------------------------------------------------------
(* Type correctness.  A work request names an operation of the host, so    *)
(* the job it belongs to has to be known to hold a request: the invariant  *)
(* is inductive together with CompletionsMatchJobs.                        *)

ActiveRequests == \A s \in Slots : status[s] \in Active => req[s] \in OffloadReq

TypedInv == TypeOK /\ CompletionsMatchJobs /\ ActiveRequests

LEMMA TypedInit == Init => TypedInv
  <1> SUFFICES ASSUME Init PROVE TypedInv
    OBVIOUS
  <1>1. TypeOK
    <2>1. cur \in Slots
      BY ServerAssumption DEF Init, Slots
    <2>2. executed \in 0 .. Len(sq)
      BY DEF Init
    <2>3. QED
      BY <2>1, <2>2, ServerAssumption, EmptySeq DEF Init, TypeOK, ReqCode
  <1>2. CompletionsMatchJobs /\ ActiveRequests
    BY DEF Init, CompletionsMatchJobs, ActiveRequests, Active
  <1>3. QED
    BY <1>1, <1>2 DEF TypedInv

\* What is polled from the receive queue and from the completion queue.
LEMMA MessageTyped ==
  ASSUME TypeOK, recv_cq # <<>>
  PROVE  /\ Head(recv_cq) \in OffloadReq \cup {Goodbye, Broken}
         /\ Tail(recv_cq) \in Seq(OffloadReq \cup {Goodbye, Broken})
         /\ Head(recv_cq).op > 0 => Head(recv_cq) \in OffloadReq
  BY QueueTail DEF TypeOK, Goodbye, Broken

LEMMA CompletionTyped ==
  ASSUME TypeOK, cq # <<>>
  PROVE  /\ Head(cq) \in Completion
         /\ JobOf(Head(cq)) \in Slots
         /\ Tail(cq) \in Seq(Completion)
  <1>1. Head(cq) \in Completion /\ Tail(cq) \in Seq(Completion)
    BY QueueTail DEF TypeOK
  <1>2. QED
    BY <1>1 DEF Completion, JobOf

LEMMA QueuesTyped ==
  ASSUME TypeOK
  PROVE  /\ \A k \in DOMAIN sq : sq[k] \in WorkRequest
         /\ \A k \in DOMAIN cq : cq[k] \in Completion
  BY LenProperties, ElementOfSeq DEF TypeOK

\* The steps that leave the job list and the send queues alone.
LEMMA TypedQuiet ==
  ASSUME TypedInv,
         PostRecv \/ PostRecvFails \/ NoMessage \/ ReceiveFails \/ Disconnect \/ QueueFull
           \/ PollFails \/ FlushRecv \/ HostExit \/ LinkError \/ NothingToPoll \/ MpiPending
  PROVE  TypedInv'
  <1> USE DEF TypedInv
  <1>1. ActiveRequests'
    BY DEF ActiveRequests, PostRecv, PostRecvFails, NoMessage, ReceiveFails, Disconnect, QueueFull,
       PollFails, FlushRecv, HostExit, Deliver, LinkError, NothingToPoll, MpiPending, jobVars
  <1>2. CompletionsMatchJobs'
    <2>1. UNCHANGED <<status, sq, cq>> /\ (server' = "running" => server = "running")
      BY DEF PostRecv, PostRecvFails, NoMessage, ReceiveFails, Disconnect, QueueFull, Deliver, At,
         PollFails, FlushRecv, HostExit, LinkError, NothingToPoll, MpiPending, jobVars, nicVars,
         loopVars, Return, Goto, NextSlot
    <2>2. QED
      BY <2>1 DEF CompletionsMatchJobs
  <1>3. TypeOK'
    <2>1. CASE PostRecv \/ PostRecvFails \/ NoMessage
      BY <2>1 DEF TypeOK, PostRecv, PostRecvFails, NoMessage, At, Goto, Return,
         jobVars, poolVars, nicVars, recvVars, hostVars, histVars
    <2>2. CASE ReceiveFails \/ Disconnect \/ QueueFull
      BY <2>2, MessageTyped DEF TypeOK, ReceiveFails, Disconnect, QueueFull, Received, Return,
         jobVars, poolVars, nicVars, hostVars, histVars
    <2>3. CASE PollFails \/ LinkError
      BY <2>3 DEF TypeOK, PollFails, LinkError, At, Return,
         jobVars, poolVars, nicVars, recvVars, hostVars, histVars, loopVars
    <2>4. CASE FlushRecv \/ HostExit
      <3>1. Broken \in OffloadReq \cup {Goodbye, Broken} /\ Goodbye \in OffloadReq \cup {Goodbye, Broken}
        OBVIOUS
      <3>2. Append(recv_cq, Broken) \in Seq(OffloadReq \cup {Goodbye, Broken})
        BY <3>1, QueueAppend DEF TypeOK
      <3>3. Append(recv_cq, Goodbye) \in Seq(OffloadReq \cup {Goodbye, Broken})
        BY <3>1, QueueAppend DEF TypeOK
      <3>4. QED
        BY <2>4, <3>2, <3>3 DEF TypeOK, FlushRecv, HostExit, Deliver,
         jobVars, poolVars, nicVars, recvVars, hostVars, histVars, loopVars
    <2>5. CASE NothingToPoll \/ MpiPending
      <3>1. cur' \in Slots
        BY <2>5, ServerAssumption DEF TypeOK, NothingToPoll, MpiPending, NextSlot, LastSlot, Slots
      <3>2. QED
        BY <2>5, <3>1 DEF TypeOK, NothingToPoll, MpiPending, NextSlot,
         jobVars, poolVars, nicVars, recvVars, hostVars, histVars
    <2>6. QED
      BY <2>1, <2>2, <2>3, <2>4, <2>5
  <1>4. QED
    BY <1>1, <1>2, <1>3

Waiting == {"RS_READ", "RS_PUT"}

\* A work request is posted for a job that waited for none.
LEMMA QueuesAfterPost ==
  ASSUME TypedInv, server = "running", NEW s \in Slots, NEW opcode \in {"READ", "WRITE"},
         Post(s, opcode), status[s] \notin Waiting,
         status'[s] = (IF opcode = "READ" THEN "RS_READ" ELSE "RS_PUT"),
         \A t \in Slots \ {s} : status'[t] # status[t] => {status[t], status'[t]} \cap Waiting = {}
  PROVE  /\ sq' \in Seq(WorkRequest)
         /\ executed' \in 0 .. Len(sq')
         /\ CompletionsMatchJobs'
  <1> DEFINE wr == [slot |-> s, opcode |-> opcode]
  <1>1. wr \in WorkRequest /\ sq \in Seq(WorkRequest) /\ cq \in Seq(Completion)
    BY DEF WorkRequest, TypedInv, TypeOK
  <1>2. /\ sq' \in Seq(WorkRequest) /\ Len(sq) \in Nat /\ Len(sq') = Len(sq) + 1
        /\ DOMAIN sq = 1 .. Len(sq) /\ DOMAIN sq' = 1 .. Len(sq) + 1
        /\ \A k \in 1 .. Len(sq) : sq[k] \in WorkRequest /\ sq'[k] = sq[k]
        /\ sq'[Len(sq) + 1] = wr
    BY <1>1, QueueAppend DEF Post
  <1>3. executed' \in 0 .. Len(sq')
    BY <1>2 DEF Post, TypedInv, TypeOK
  <1>4. \A k \in DOMAIN sq : sq[k].slot \in Slots \ {s} /\ status[sq[k].slot] \in Waiting
    BY <1>2 DEF WorkRequest, TypedInv, CompletionsMatchJobs, Waiting
  <1>5. \A k \in DOMAIN cq : cq[k].slot \in Slots \ {s} /\ status[cq[k].slot] \in Waiting
    <2>1. \A k \in DOMAIN cq : cq[k] \in Completion
      BY QueuesTyped DEF TypedInv
    <2>2. QED
      BY <2>1 DEF Completion, TypedInv, CompletionsMatchJobs, Waiting
  <1>6. \A t \in Slots \ {s} : status[t] \in Waiting => status'[t] = status[t]
    OBVIOUS
  <1>7. \A k \in DOMAIN sq' :
          status'[sq'[k].slot] = (IF sq'[k].opcode = "READ" THEN "RS_READ" ELSE "RS_PUT")
    <2>1. \A k \in DOMAIN sq :
            status[sq[k].slot] = (IF sq[k].opcode = "READ" THEN "RS_READ" ELSE "RS_PUT")
      BY DEF TypedInv, CompletionsMatchJobs
    <2>2. QED
      BY <1>2, <1>4, <1>6, <2>1
  <1>8. \A k \in DOMAIN cq' : status'[cq'[k].slot] \in Waiting
    BY <1>5, <1>6 DEF Post
  <1>9. \A j, k \in DOMAIN sq' : j # k => sq'[j].slot # sq'[k].slot
    <2>1. \A j, k \in DOMAIN sq : j # k => sq[j].slot # sq[k].slot
      BY DEF TypedInv, CompletionsMatchJobs
    <2>2. QED
      BY <1>2, <1>4, <2>1
  <1>10. \A j \in DOMAIN sq', k \in DOMAIN cq' : sq'[j].slot # cq'[k].slot
    <2>1. \A j \in DOMAIN sq, k \in DOMAIN cq : sq[j].slot # cq[k].slot
      BY DEF TypedInv, CompletionsMatchJobs
    <2>2. QED
      BY <1>2, <1>5, <2>1 DEF Post
  <1>11. ASSUME NEW t \in Slots, status'[t] \in Waiting
         PROVE  (\E k \in DOMAIN sq' : sq'[k].slot = t) \/ (\E k \in DOMAIN cq' : cq'[k].slot = t)
    <2>1. CASE t = s
      BY <1>2, <2>1
    <2>2. CASE t # s
      <3>1. status[t] \in Waiting
        BY <1>11, <2>2
      <3>2. (\E k \in DOMAIN sq : sq[k].slot = t) \/ (\E k \in DOMAIN cq : cq[k].slot = t)
        BY <3>1 DEF TypedInv, CompletionsMatchJobs, Waiting
      <3>3. QED
        BY <1>2, <3>2 DEF Post
    <2>3. QED
      BY <2>1, <2>2
  <1>12. UNCHANGED cq /\ \A j, k \in DOMAIN cq : j # k => cq[j].slot # cq[k].slot
    BY DEF Post, TypedInv, CompletionsMatchJobs
  <1>13. CompletionsMatchJobs'
    BY <1>7, <1>8, <1>9, <1>10, <1>11, <1>12 DEF CompletionsMatchJobs, Waiting
  <1>14. QED
    BY <1>2, <1>3, <1>13

\* A completion is polled and its job no longer waits, or the server stops.
LEMMA QueuesAfterPoll ==
  ASSUME TypedInv, NEW c, Polled(c), NEW s, s = JobOf(c),
         \A t \in Slots \ {s} : status'[t] = status[t],
         status'[s] \notin Waiting \/ (status'[s] = status[s] /\ server' # "running"),
         server' = "running" => server = "running"
  PROVE  CompletionsMatchJobs'
  <1>1. /\ c \in Completion /\ s = cq[1].slot /\ s \in Slots
        /\ Len(cq) \in Nat \ {0} /\ DOMAIN cq = 1 .. Len(cq) /\ DOMAIN cq' = 1 .. Len(cq) - 1
        /\ \A k \in 1 .. Len(cq) - 1 : cq'[k] = cq[k + 1]
        /\ \A k \in 1 .. Len(cq) : cq[k] \in Completion
    <2>1. cq \in Seq(Completion) /\ cq # <<>>
      BY DEF TypedInv, TypeOK, Polled
    <2>2. QED
      BY <2>1, QueueTail, CompletionTyped DEF Polled, JobOf, TypedInv
  <1>2. UNCHANGED sq /\ \A k \in DOMAIN sq : sq[k].slot \in Slots \ {s}
    <2>1. \A k \in DOMAIN sq : sq[k] \in WorkRequest
      BY QueuesTyped DEF TypedInv
    <2>2. \A k \in DOMAIN sq : sq[k].slot # cq[1].slot
      BY <1>1 DEF TypedInv, CompletionsMatchJobs
    <2>3. QED
      BY <1>1, <2>1, <2>2 DEF Polled, WorkRequest
  <1>3. \A k \in DOMAIN cq' : k + 1 \in DOMAIN cq /\ cq'[k] = cq[k + 1] /\ cq'[k].slot \in Slots \ {s}
    <2>1. \A j, k \in DOMAIN cq : j # k => cq[j].slot # cq[k].slot
      BY DEF TypedInv, CompletionsMatchJobs
    <2>2. \A k \in DOMAIN cq' : k + 1 \in DOMAIN cq /\ k + 1 # 1 /\ cq'[k] = cq[k + 1]
      BY <1>1
    <2>3. 1 \in DOMAIN cq /\ \A k \in DOMAIN cq : cq[k].slot \in Slots
      BY <1>1 DEF Completion
    <2>4. QED
      BY <1>1, <2>1, <2>2, <2>3
  <1>4. \A k \in DOMAIN sq' :
          status'[sq'[k].slot] = (IF sq'[k].opcode = "READ" THEN "RS_READ" ELSE "RS_PUT")
    BY <1>2 DEF TypedInv, CompletionsMatchJobs
  <1>5. \A k \in DOMAIN cq' : status'[cq'[k].slot] \in Waiting
    BY <1>3 DEF TypedInv, CompletionsMatchJobs, Waiting
  <1>6. /\ \A j, k \in DOMAIN sq' : j # k => sq'[j].slot # sq'[k].slot
        /\ \A j, k \in DOMAIN cq' : j # k => cq'[j].slot # cq'[k].slot
        /\ \A j \in DOMAIN sq', k \in DOMAIN cq' : sq'[j].slot # cq'[k].slot
    <2>1. \A j, k \in DOMAIN cq' : j # k => j + 1 # k + 1
      BY <1>1
    <2>2. QED
      BY <1>2, <1>3, <2>1 DEF TypedInv, CompletionsMatchJobs
  <1>7. ASSUME server' = "running", NEW t \in Slots, status'[t] \in Waiting
        PROVE  (\E k \in DOMAIN sq' : sq'[k].slot = t) \/ (\E k \in DOMAIN cq' : cq'[k].slot = t)
    <2>1. t # s /\ status[t] \in Waiting
      BY <1>7
    <2>2. (\E k \in DOMAIN sq : sq[k].slot = t) \/ (\E k \in DOMAIN cq : cq[k].slot = t)
      BY <1>7, <2>1 DEF TypedInv, CompletionsMatchJobs, Waiting
    <2>3. CASE \E k \in DOMAIN cq : cq[k].slot = t
      <3>1. PICK k \in DOMAIN cq : cq[k].slot = t
        BY <2>3
      <3>2. k # 1 /\ k - 1 \in DOMAIN cq' /\ cq'[k - 1] = cq[k]
        BY <1>1, <2>1, <3>1
      <3>3. QED
        BY <3>1, <3>2
    <2>4. QED
      BY <1>2, <2>2, <2>3
  <1>8. QED
    BY <1>4, <1>5, <1>6, <1>7 DEF CompletionsMatchJobs, Waiting

\* The oldest work request becomes a completion.
LEMMA QueuesAfterDone ==
  ASSUME TypedInv, sq # <<>>, NEW ok \in BOOLEAN,
         sq' = Tail(sq), cq' = Append(cq, [slot |-> Head(sq).slot, ok |-> ok]),
         UNCHANGED <<status, server>>
  PROVE  /\ sq' \in Seq(WorkRequest) /\ cq' \in Seq(Completion)
         /\ Head(sq) \in WorkRequest /\ Head(sq) = sq[1] /\ 1 \in DOMAIN sq
         /\ Len(sq) \in Nat \ {0} /\ Len(sq') = Len(sq) - 1
         /\ CompletionsMatchJobs'
  <1> DEFINE c == [slot |-> Head(sq).slot, ok |-> ok]
  <1>1. /\ sq' \in Seq(WorkRequest) /\ Head(sq) \in WorkRequest /\ Head(sq) = sq[1]
        /\ Len(sq) \in Nat \ {0} /\ Len(sq') = Len(sq) - 1
        /\ DOMAIN sq = 1 .. Len(sq) /\ DOMAIN sq' = 1 .. Len(sq) - 1
        /\ \A k \in 1 .. Len(sq) - 1 : sq'[k] = sq[k + 1]
    BY QueueTail DEF TypedInv, TypeOK
  <1>2. c \in Completion /\ c.slot = sq[1].slot
    BY <1>1 DEF Completion, WorkRequest
  <1>3. /\ cq' \in Seq(Completion) /\ Len(cq) \in Nat
        /\ DOMAIN cq = 1 .. Len(cq) /\ DOMAIN cq' = 1 .. Len(cq) + 1
        /\ \A k \in 1 .. Len(cq) : cq'[k] = cq[k]
        /\ cq'[Len(cq) + 1] = c
    BY <1>2, QueueAppend DEF TypedInv, TypeOK
  <1>4. \A k \in DOMAIN sq' : k + 1 \in DOMAIN sq /\ k + 1 # 1 /\ sq'[k] = sq[k + 1]
    BY <1>1
  <1>5. 1 \in DOMAIN sq
    BY <1>1
  <1>6. /\ \A k \in DOMAIN sq' :
             status'[sq'[k].slot] = (IF sq'[k].opcode = "READ" THEN "RS_READ" ELSE "RS_PUT")
        /\ \A k \in DOMAIN cq' : status'[cq'[k].slot] \in Waiting
    BY <1>2, <1>3, <1>4, <1>5 DEF TypedInv, CompletionsMatchJobs, Waiting
  <1>7. \A j, k \in DOMAIN sq' : j # k => sq'[j].slot # sq'[k].slot
    <2>1. \A j, k \in DOMAIN sq' : j # k => j + 1 # k + 1
      BY <1>1
    <2>2. QED
      BY <1>4, <2>1 DEF TypedInv, CompletionsMatchJobs
  <1>8. \A j, k \in DOMAIN cq' : j # k => cq'[j].slot # cq'[k].slot
    BY <1>2, <1>3, <1>5 DEF TypedInv, CompletionsMatchJobs
  <1>9. \A j \in DOMAIN sq', k \in DOMAIN cq' : sq'[j].slot # cq'[k].slot
    <2>1. \A j \in DOMAIN sq, k \in DOMAIN cq : sq[j].slot # cq[k].slot
      BY DEF TypedInv, CompletionsMatchJobs
    <2>2. \A j \in DOMAIN sq' : sq'[j].slot # sq[1].slot
      BY <1>4, <1>5 DEF TypedInv, CompletionsMatchJobs
    <2>3. QED
      BY <1>2, <1>3, <1>4, <2>1, <2>2
  <1>10. ASSUME server' = "running", NEW t \in Slots, status'[t] \in Waiting
         PROVE  (\E k \in DOMAIN sq' : sq'[k].slot = t) \/ (\E k \in DOMAIN cq' : cq'[k].slot = t)
    <2>1. (\E k \in DOMAIN sq : sq[k].slot = t) \/ (\E k \in DOMAIN cq : cq[k].slot = t)
      BY <1>10 DEF TypedInv, CompletionsMatchJobs, Waiting
    <2>2. CASE \E k \in DOMAIN cq : cq[k].slot = t
      BY <1>3, <2>2
    <2>3. CASE \E k \in DOMAIN sq : sq[k].slot = t
      <3>1. PICK k \in DOMAIN sq : sq[k].slot = t
        BY <2>3
      <3>2. CASE k = 1
        BY <1>2, <1>3, <3>1, <3>2
      <3>3. CASE k # 1
        <4>1. k - 1 \in DOMAIN sq' /\ sq'[k - 1] = sq[k]
          BY <1>1, <3>3
        <4>2. QED
          BY <3>1, <4>1
      <3>4. QED
        BY <3>2, <3>3
    <2>4. QED
      BY <2>1, <2>2, <2>3
  <1>11. QED
    BY <1>1, <1>3, <1>5, <1>6, <1>7, <1>8, <1>9, <1>10 DEF CompletionsMatchJobs, Waiting

\* The job list after dpu_reuse_mr() has found regions g and h for job s.
LEMMA ReuseStatus ==
  ASSUME TypeOK, NEW s \in Slots, NEW g \in Holder, NEW h \in Holder,
         FreeSlot(s), NEW q, Reusable(q, g, h), Reuse(s, g, h)
  PROVE  /\ status[s] = "RS_UNALLOC" /\ status'[s] = "RS_READ"
         /\ g[1] \in Slots \ {s} /\ h[1] \in Slots \ {s}
         /\ status[g[1]] = "RS_CPIN" /\ status[h[1]] = "RS_CPIN"
         /\ \A t \in Slots \ {s} :
              status'[t] # status[t] => status[t] = "RS_CPIN" /\ status'[t] = "RS_UNALLOC"
         /\ status' \in [Slots -> ReqCode]
  <1>1. status[g[1]] = "RS_CPIN" /\ status[h[1]] = "RS_CPIN" /\ status[s] = "RS_UNALLOC"
    BY DEF Reusable, IsFirst, SendFits, RecvFits, FreeSlot
  <1>2. g[1] \in Slots \ {s} /\ h[1] \in Slots \ {s}
    BY <1>1 DEF Holder
  <1>3. Emptied(g, h) \subseteq {g[1], h[1]}
    BY DEF Emptied
  <1>4. QED
    BY <1>1, <1>2, <1>3 DEF Reuse, TypeOK, ReqCode

LEMMA TypedReuse ==
  ASSUME TypedInv, NEW s \in Slots, NEW g \in Holder, NEW h \in Holder,
         AcceptWithReuse(s, g, h)
  PROVE  TypedInv'
  <1> DEFINE q == Head(recv_cq)
  <1>1. /\ TypeOK /\ server = "running" /\ q \in OffloadReq
        /\ recv_cq' \in Seq(OffloadReq \cup {Goodbye, Broken})
    BY MessageTyped DEF TypedInv, AcceptWithReuse, AcceptRequest, Received, At
  <1>2. /\ FreeSlot(s) /\ Reusable(q, g, h) /\ Reuse(s, g, h) /\ Post(s, "READ")
        /\ req' = [req EXCEPT ![s] = q]
    BY DEF AcceptWithReuse, AcceptRequest
  <1>3. /\ status[s] = "RS_UNALLOC" /\ status'[s] = "RS_READ"
        /\ \A t \in Slots \ {s} :
             status'[t] # status[t] => status[t] = "RS_CPIN" /\ status'[t] = "RS_UNALLOC"
        /\ status' \in [Slots -> ReqCode]
    BY <1>1, <1>2, ReuseStatus
  <1>4. sq' \in Seq(WorkRequest) /\ executed' \in 0 .. Len(sq') /\ CompletionsMatchJobs'
    BY <1>1, <1>2, <1>3, QueuesAfterPost DEF Waiting
  <1>5. req' \in [Slots -> OffloadReq \cup {NoReq}] /\ ActiveRequests'
    BY <1>1, <1>2, <1>3 DEF TypedInv, TypeOK, ActiveRequests, Active
  <1>6. <<s, "send">> \in Holder /\ <<s, "recv">> \in Holder
    BY DEF Holder, Side
  <1>7. mr' \in [Holder -> Mr \cup {NoMr}] /\ alloc' \in [Holder -> Sizes \cup {0}]
    BY <1>1, <1>2, <1>6 DEF Reuse, Rest, TypeOK
  <1>8. TypeOK'
    BY <1>1, <1>2, <1>3, <1>4, <1>5, <1>7
       DEF TypeOK, AcceptWithReuse, AcceptRequest, Received, Reuse, Post, Goto, hostVars
  <1>9. QED
    BY <1>4, <1>5, <1>8 DEF TypedInv

LEMMA TypedAllocation ==
  ASSUME TypedInv, NEW s \in Slots, NEW a \in Mr, NEW b \in Mr,
         AcceptWithAllocation(s, a, b)
  PROVE  TypedInv'
  <1> DEFINE q == Head(recv_cq)
  <1>1. /\ TypeOK /\ server = "running" /\ q \in OffloadReq /\ q.send \in Sizes /\ q.recv \in Sizes
        /\ recv_cq' \in Seq(OffloadReq \cup {Goodbye, Broken})
    <2>1. /\ TypeOK /\ server = "running" /\ q \in OffloadReq
          /\ recv_cq' \in Seq(OffloadReq \cup {Goodbye, Broken})
      BY MessageTyped DEF TypedInv, AcceptWithAllocation, AcceptRequest, Received, At
    <2>2. QED
      BY <2>1 DEF OffloadReq
  <1>2. PICK S \in Purges : /\ FreeSlot(s) /\ Allocate(s, q, a, b, S) /\ Post(s, "READ")
                           /\ req' = [req EXCEPT ![s] = q]
    BY DEF AcceptWithAllocation, AcceptRequest
  <1>3. /\ status[s] = "RS_UNALLOC" /\ status'[s] = "RS_READ"
        /\ \A t \in Slots \ {s} : status'[t] = status[t]
        /\ status' \in [Slots -> ReqCode]
    BY <1>1, <1>2 DEF FreeSlot, Allocate, TypeOK, ReqCode
  <1>4. sq' \in Seq(WorkRequest) /\ executed' \in 0 .. Len(sq') /\ CompletionsMatchJobs'
    BY <1>1, <1>2, <1>3, QueuesAfterPost DEF Waiting
  <1>5. req' \in [Slots -> OffloadReq \cup {NoReq}] /\ ActiveRequests'
    BY <1>1, <1>2, <1>3 DEF TypedInv, TypeOK, ActiveRequests
  <1>6. /\ mr' \in [Holder -> Mr \cup {NoMr}] /\ alloc' \in [Holder -> Sizes \cup {0}]
        /\ len' \in [Mr -> Sizes \cup {0}] /\ pinned' \subseteq Mr /\ purged' \in BOOLEAN
    BY <1>1, <1>2 DEF Allocate, TypeOK
  <1>7. TypeOK'
    BY <1>1, <1>2, <1>3, <1>4, <1>5, <1>6
       DEF TypeOK, AcceptWithAllocation, AcceptRequest, Received, Post, Goto, hostVars
  <1>8. QED
    BY <1>4, <1>5, <1>7 DEF TypedInv

\* offload_read() and offload_write() fail: the job waits for nothing.
LEMMA TypedOffloadFails ==
  ASSUME TypedInv, WriteOffloadFails \/ \E s \in Slots : ReadOffloadFails(s)
  PROVE  TypedInv'
  <1>1. CompletionsMatchJobs'
    <2>1. PICK s \in Slots : /\ status[s] \notin Waiting
                             /\ status' = [status EXCEPT ![s] = "RS_FAIL"]
                             /\ UNCHANGED <<sq, cq>> /\ server' # "running"
      BY DEF WriteOffloadFails, ReadOffloadFails, AcceptRequest, FreeSlot, Return, nicVars, Waiting,
         TypedInv, TypeOK
    <2>2. \A k \in DOMAIN sq : sq[k].slot \in Slots
      BY QueuesTyped DEF TypedInv, WorkRequest
    <2>3. \A k \in DOMAIN cq : cq[k].slot \in Slots
      BY QueuesTyped DEF TypedInv, Completion
    <2>4. \A t \in Slots : status[t] \in Waiting => status'[t] = status[t]
      BY <2>1 DEF TypedInv, TypeOK
    <2>5. QED
      BY <2>1, <2>2, <2>3, <2>4 DEF TypedInv, CompletionsMatchJobs, Waiting
  <1>2. CASE WriteOffloadFails
    BY <1>1, <1>2 DEF TypedInv, TypeOK, ActiveRequests, Active, ReqCode, WriteOffloadFails, Return,
       poolVars, nicVars, recvVars, hostVars, histVars
  <1>3. ASSUME NEW s \in Slots, ReadOffloadFails(s) PROVE TypedInv'
    <2>1. /\ Head(recv_cq) \in OffloadReq
          /\ recv_cq' \in Seq(OffloadReq \cup {Goodbye, Broken})
      BY <1>3, MessageTyped DEF TypedInv, ReadOffloadFails, AcceptRequest, Received
    <2>2. QED
      BY <1>1, <1>3, <2>1 DEF TypedInv, TypeOK, ActiveRequests, Active, ReqCode, ReadOffloadFails,
         AcceptRequest, Received, Return, poolVars, nicVars, hostVars, histVars
  <1>4. QED
    BY <1>2, <1>3

LEMMA TypedAdvance ==
  ASSUME TypedInv, StartCollective \/ CompleteJob \/ AdvanceFails
  PROVE  TypedInv'
  <1> DEFINE c == Head(cq) s == JobOf(c)
  <1>1. Polled(c) /\ cq # <<>>
    BY DEF StartCollective, CompleteJob, AdvanceFails, Polled
  <1>2. s \in Slots /\ cq' \in Seq(Completion)
    BY <1>1, CompletionTyped DEF TypedInv, Polled
  <1>3. CASE StartCollective
    <2>1. CompletionsMatchJobs'
      BY <1>1, <1>2, <1>3, QueuesAfterPoll DEF StartCollective, TypedInv, TypeOK, Waiting, Goto
    <2>2. req[s].op \in 1 .. MaxOp
      BY <1>2, <1>3 DEF StartCollective, TypedInv, ActiveRequests, Active, OffloadReq
    <2>3. collectives' \in Seq(1 .. MaxOp)
      BY <1>3, <2>2, QueueAppend DEF StartCollective, TypedInv, TypeOK
    <2>4. QED
      BY <1>2, <1>3, <2>1, <2>3 DEF StartCollective, Polled, TypedInv, TypeOK, ActiveRequests, Active,
         ReqCode, Goto, poolVars, recvVars, hostVars
  <1>4. CASE CompleteJob
    <2>1. /\ status' = [status EXCEPT ![s] = IF LazyUnpinning THEN "RS_CPIN" ELSE "RS_UNALLOC"]
          /\ status' \in [Slots -> ReqCode] /\ UNCHANGED server
      BY <1>4 DEF CompleteJob, TypedInv, TypeOK, ReqCode, Goto
    <2>2. CompletionsMatchJobs'
      BY <1>1, <1>2, <2>1, QueuesAfterPoll DEF TypedInv, TypeOK, Waiting
    <2>3. /\ req' \in [Slots -> OffloadReq \cup {NoReq}]
          /\ mr' \in [Holder -> Mr \cup {NoMr}]
          /\ alloc' \in [Holder -> Sizes \cup {0}]
          /\ pinned' \subseteq Mr
      BY <1>4 DEF CompleteJob, TypedInv, TypeOK
    <2>4. ActiveRequests'
      BY <1>2, <1>4, <2>1 DEF CompleteJob, TypedInv, TypeOK, ActiveRequests, Active
    <2>5. QED
      BY <1>2, <1>4, <2>1, <2>2, <2>3, <2>4 DEF CompleteJob, Polled, TypedInv, TypeOK, Goto,
         recvVars, hostVars, histVars
  <1>5. CASE AdvanceFails
    <2>1. \/ /\ status[s] \in Active
             /\ \E x \in {"RS_FAIL", "RS_CPIN"} : status' = [status EXCEPT ![s] = x]
          \/ UNCHANGED status
      BY <1>5 DEF AdvanceFails, CollectiveFails, UnpinningFails, Active
    <2>2. /\ \A t \in Slots \ {s} : status'[t] = status[t]
          /\ status'[s] \notin Waiting \/ status'[s] = status[s]
          /\ status'[s] \in Active => status'[s] = status[s]
          /\ status' \in [Slots -> ReqCode]
      BY <1>2, <2>1 DEF TypedInv, TypeOK, Waiting, Active, ReqCode
    <2>3. server' = "failed" /\ UNCHANGED <<req, mr, alloc, mpi_req, len, pc, cur>>
      BY <1>5 DEF AdvanceFails, Return
    <2>4. CompletionsMatchJobs'
      BY <1>1, <1>2, <2>2, <2>3, QueuesAfterPoll
    <2>5. ActiveRequests'
      BY <2>2, <2>3 DEF TypedInv, ActiveRequests
    <2>6. pinned' \subseteq Mr /\ purged' \in BOOLEAN
      BY <1>5 DEF AdvanceFails, CollectiveFails, UnpinningFails, TypedInv, TypeOK
    <2>7. TypeOK'
      BY <1>2, <1>5, <2>2, <2>3, <2>6 DEF AdvanceFails, Polled, TypedInv, TypeOK, recvVars, hostVars
    <2>8. QED
      BY <2>4, <2>5, <2>7 DEF TypedInv
  <1>6. QED
    BY <1>3, <1>4, <1>5

LEMMA TypedStartWrite ==
  ASSUME TypedInv, StartWrite
  PROVE  TypedInv'
  <1>1. cur \in Slots /\ cur' \in Slots /\ server = "running"
    BY ServerAssumption DEF StartWrite, Tested, At, NextSlot, LastSlot, Slots, TypedInv, TypeOK
  <1>2. sq' \in Seq(WorkRequest) /\ executed' \in 0 .. Len(sq') /\ CompletionsMatchJobs'
    BY <1>1, QueuesAfterPost DEF StartWrite, TypedInv, TypeOK, Waiting
  <1>3. QED
    BY <1>1, <1>2 DEF StartWrite, Post, NextSlot, TypedInv, TypeOK, ActiveRequests, Active, ReqCode,
       poolVars, recvVars, hostVars, histVars

LEMMA TypedNic ==
  ASSUME TypedInv, NicExecute \/ NicComplete \/ FlushSend
  PROVE  TypedInv'
  <1>1. CASE NicExecute
    <2>1. executed + 1 \in DOMAIN sq /\ executed + 1 \in 0 .. Len(sq) /\ executed' = executed + 1
      <3>1. Len(sq) \in Nat /\ DOMAIN sq = 1 .. Len(sq)
        BY LenProperties DEF TypedInv, TypeOK
      <3>2. QED
        BY <1>1, <3>1 DEF NicExecute, TypedInv, TypeOK
    <2>2. sq[executed + 1] \in WorkRequest
      BY <2>1, LenProperties, ElementOfSeq DEF TypedInv, TypeOK
    <2>3. sq[executed + 1].opcode = "WRITE" => req[sq[executed + 1].slot].op \in 1 .. MaxOp
      BY <2>1, <2>2 DEF WorkRequest, TypedInv, CompletionsMatchJobs, ActiveRequests, Active, OffloadReq
    <2>4. delivered' \subseteq 1 .. MaxOp
      BY <1>1, <2>3 DEF NicExecute, TypedInv, TypeOK
    <2>5. QED
      BY <1>1, <2>1, <2>4 DEF NicExecute, TypedInv, TypeOK, CompletionsMatchJobs, ActiveRequests,
         jobVars, poolVars, recvVars, loopVars, histVars
  <1>2. CASE NicComplete \/ FlushSend
    <2>1. sq # <<>>
      BY <1>2, EmptySeq DEF NicComplete, FlushSend, TypedInv, TypeOK
    <2>2. PICK ok \in BOOLEAN : cq' = Append(cq, [slot |-> Head(sq).slot, ok |-> ok])
      BY <1>2 DEF NicComplete, FlushSend
    <2>3. UNCHANGED <<status, server, req>> /\ sq' = Tail(sq)
      BY <1>2 DEF NicComplete, FlushSend, jobVars, loopVars
    <2>4. /\ sq' \in Seq(WorkRequest) /\ cq' \in Seq(Completion)
          /\ Head(sq) \in WorkRequest /\ Head(sq) = sq[1] /\ 1 \in DOMAIN sq
          /\ Len(sq) \in Nat \ {0} /\ Len(sq') = Len(sq) - 1
          /\ CompletionsMatchJobs'
      BY <2>1, <2>2, <2>3, QueuesAfterDone
    <2>5. executed' \in 0 .. Len(sq')
      BY <1>2, <2>4 DEF NicComplete, FlushSend, TypedInv, TypeOK
    <2>6. req[Head(sq).slot].op \in 1 .. MaxOp
      BY <2>4 DEF WorkRequest, TypedInv, CompletionsMatchJobs, ActiveRequests, Active, OffloadReq
    <2>7. unread' \subseteq 1 .. MaxOp
      BY <1>2, <2>6 DEF NicComplete, FlushSend, histVars, TypedInv, TypeOK
    <2>8. ActiveRequests'
      BY <2>3 DEF TypedInv, ActiveRequests
    <2>9. QED
      BY <1>2, <2>4, <2>5, <2>7, <2>8 DEF NicComplete, FlushSend, TypedInv, TypeOK,
         jobVars, poolVars, recvVars, loopVars, hostVars, histVars
  <1>3. QED
    BY <1>1, <1>2

LEMMA TypedOutside ==
  ASSUME TypedInv, (\E s \in Slots : MpiProgress(s)) \/ \E n, k \in Sizes : HostRequest(n, k)
  PROVE  TypedInv'
  <1>1. CASE \E s \in Slots : MpiProgress(s)
    BY <1>1 DEF MpiProgress, TypedInv, TypeOK, CompletionsMatchJobs, ActiveRequests,
       poolVars, nicVars, recvVars, loopVars, hostVars, histVars
  <1>2. ASSUME NEW n \in Sizes, NEW k \in Sizes, HostRequest(n, k) PROVE TypedInv'
    <2>1. sent + 1 \in 1 .. MaxOp
      BY <1>2, ServerAssumption DEF HostRequest, TypedInv, TypeOK
    <2>2. [op |-> sent + 1, send |-> n, recv |-> k] \in OffloadReq \cup {Goodbye, Broken}
      BY <2>1 DEF OffloadReq
    <2>3. recv_cq' \in Seq(OffloadReq \cup {Goodbye, Broken})
      BY <1>2, <2>2, QueueAppend DEF HostRequest, Deliver, TypedInv, TypeOK
    <2>4. sent' \in 0 .. MaxOp
      BY <1>2, <2>1 DEF HostRequest
    <2>5. TypeOK'
      BY <1>2, <2>3, <2>4 DEF HostRequest, Deliver, TypedInv, TypeOK,
         jobVars, poolVars, nicVars, loopVars, histVars
    <2>6. QED
      BY <1>2, <2>5 DEF HostRequest, Deliver, TypedInv, CompletionsMatchJobs, ActiveRequests,
         jobVars, nicVars, loopVars
  <1>3. QED
    BY <1>1, <1>2

LEMMA TypedNext == TypedInv /\ [Next]_vars => TypedInv'
  <1> SUFFICES ASSUME TypedInv, [Next]_vars PROVE TypedInv'
    OBVIOUS
  <1>1. CASE UNCHANGED vars
    BY <1>1 DEF TypedInv, TypeOK, CompletionsMatchJobs, ActiveRequests,
       vars, jobVars, poolVars, nicVars, recvVars, loopVars, hostVars, histVars
  <1>2. CASE Serve
    BY <1>2, TypedQuiet, TypedReuse, TypedAllocation, TypedOffloadFails, TypedAdvance, TypedStartWrite
       DEF Serve
  <1>3. CASE Nic
    BY <1>3, TypedQuiet, TypedNic DEF Nic
  <1>4. CASE Host \/ \E s \in Slots : MpiProgress(s)
    BY <1>4, TypedQuiet, TypedOutside DEF Host
  <1>5. QED
    BY <1>1, <1>2, <1>3, <1>4 DEF Next, Stopped

LEMMA TypedAlways == Spec => []TypedInv
  BY TypedInit, TypedNext, PTL DEF Spec

\* Every variable of the server has a value of its type, always: no step
\* leaves the job list, the pool or a queue malformed.
THEOREM ServerTyped == Spec => []TypeOK
  <1>1. TypedInv => TypeOK
    BY DEF TypedInv
  <1>2. QED
    BY <1>1, TypedAlways, PTL

\* Every posted or polled-for work request belongs to a job in the state it is
\* about, with or without faults: bf_advance() is never called for a job it
\* would refuse, and no job waits for a completion that cannot come.
THEOREM ServerCompletionsMatchJobs == Spec => []CompletionsMatchJobs
  <1>1. TypedInv => CompletionsMatchJobs
    BY DEF TypedInv
  <1>2. QED
    BY <1>1, TypedAlways, PTL

-----------------------------------------------------------------------------
(* The pool of regions.  That a free slot holds no region is what makes    *)
(* the pool invariants inductive: the regions of a new job replace nothing.*)

FreeSlotsEmpty == \A h \in Holder : status[h[1]] = "RS_UNALLOC" => mr[h] = NoMr

PoolInv == FreeSlotsEmpty /\ RegionsExclusive /\ ActiveRegionsPinned /\ NoRegionLost

LEMMA PoolInit == Init => PoolInv
  <1> SUFFICES ASSUME Init PROVE PoolInv
    OBVIOUS
  <1>1. FreeSlotsEmpty /\ RegionsExclusive /\ NoRegionLost
    BY DEF Init, FreeSlotsEmpty, RegionsExclusive, NoRegionLost
  <1>2. ActiveRegionsPinned
    BY DEF Init, ActiveRegionsPinned, Active
  <1>3. QED
    BY <1>1, <1>2 DEF PoolInv

LEMMA Sides ==
  ASSUME NEW s \in Slots
  PROVE  /\ <<s, "send">> \in Holder /\ <<s, "recv">> \in Holder
         /\ \A h \in Holder : h[1] = s => h = <<s, "send">> \/ h = <<s, "recv">>
  BY DEF Holder, Side

\* Steps that leave the pool alone, and change no job, or only the status of a
\* job that keeps its slot, and become active only where it was active before.
LEMMA PoolKept ==
  ASSUME PoolInv, UNCHANGED <<mr, alloc, pinned, len, purged>>,
         \A s \in Slots : status'[s] = "RS_UNALLOC" => status[s] = "RS_UNALLOC",
         \A s \in Slots : status'[s] \in Active => status[s] \in Active /\ req'[s] = req[s]
  PROVE  PoolInv'
  <1>1. FreeSlotsEmpty'
    BY DEF PoolInv, FreeSlotsEmpty, Holder
  <1>2. RegionsExclusive' /\ NoRegionLost'
    BY DEF PoolInv, RegionsExclusive, NoRegionLost
  <1>3. ActiveRegionsPinned'
    BY DEF PoolInv, ActiveRegionsPinned
  <1>4. QED
    BY <1>1, <1>2, <1>3 DEF PoolInv

LEMMA PoolReuse ==
  ASSUME TypedInv, PoolInv, NEW s \in Slots, NEW g \in Holder, NEW h \in Holder,
         AcceptWithReuse(s, g, h)
  PROVE  PoolInv'
  <1> DEFINE q == Head(recv_cq) hs == <<s, "send">> hr == <<s, "recv">>
  <1>1. /\ FreeSlot(s) /\ Reusable(q, g, h) /\ Reuse(s, g, h) /\ req' = [req EXCEPT ![s] = q]
        /\ req \in [Slots -> OffloadReq \cup {NoReq}] /\ TypeOK
    BY DEF AcceptWithReuse, AcceptRequest, TypedInv, TypeOK
  <1>2. /\ status[s] = "RS_UNALLOC" /\ status'[s] = "RS_READ"
        /\ g[1] \in Slots \ {s} /\ h[1] \in Slots \ {s}
        /\ \A t \in Slots \ {s} :
             status'[t] # status[t] => status[t] = "RS_CPIN" /\ status'[t] = "RS_UNALLOC"
    BY <1>1, ReuseStatus
  <1>3. hs \in Holder /\ hr \in Holder /\ hs # hr /\ hs \notin {g, h} /\ hr \notin {g, h}
    BY <1>2, Sides
  <1>4. mr[hs] = NoMr /\ mr[hr] = NoMr
    BY <1>2, <1>3 DEF PoolInv, FreeSlotsEmpty
  <1>5. /\ mr[g] # NoMr /\ mr[h] # NoMr /\ g # h
        /\ alloc[g] >= q.send /\ alloc[h] >= q.recv
    BY <1>1 DEF Reusable, IsFirst, SendFits, RecvFits
  <1>6. /\ mr'[hs] = mr[g] /\ mr'[hr] = mr[h] /\ mr'[g] = NoMr /\ mr'[h] = NoMr
        /\ \A x \in Holder \ {g, h, hs, hr} : mr'[x] = mr[x]
    BY <1>1, <1>3 DEF Reuse, Rest, TypeOK
  <1>7. /\ alloc'[hs] = alloc[g] /\ alloc'[hr] = alloc[h]
        /\ \A x \in Holder \ {g, h, hs, hr} : alloc'[x] = alloc[x]
    BY <1>1, <1>3 DEF Reuse, TypeOK
  <1>8. UNCHANGED <<pinned, len, purged>>
    BY <1>1 DEF Reuse
  <1>9. FreeSlotsEmpty'
    <2> SUFFICES ASSUME NEW x \in Holder, status'[x[1]] = "RS_UNALLOC" PROVE mr'[x] = NoMr
      BY DEF FreeSlotsEmpty
    <2>1. x[1] \in Slots /\ x[1] # s /\ x # hs /\ x # hr
      BY <1>2 DEF Holder
    <2>2. CASE status[x[1]] = "RS_UNALLOC"
      BY <1>6, <2>1, <2>2 DEF PoolInv, FreeSlotsEmpty
    <2>3. CASE status[x[1]] # "RS_UNALLOC"
      <3>1. x[1] \in Emptied(g, h)
        BY <1>1, <2>1, <2>3 DEF Reuse
      <3>2. Rest(g, h)[x] = NoMr
        <4>1. x[2] \in Side /\ x = <<x[1], x[2]>>
          BY DEF Holder
        <4>2. QED
          BY <3>1, <4>1 DEF Emptied
      <3>3. Rest(g, h)[x] = (IF x \in {g, h} THEN NoMr ELSE mr[x])
        BY DEF Rest
      <3>4. QED
        BY <1>6, <2>1, <3>2, <3>3
    <2>4. QED
      BY <2>2, <2>3
  <1>10. RegionsExclusive'
    <2> SUFFICES ASSUME ~purged, NEW x \in Holder, NEW y \in Holder, x # y, mr'[x] # NoMr
                 PROVE  mr'[x] # mr'[y]
      BY <1>8 DEF RegionsExclusive
    <2> DEFINE Source(z) == IF z = hs THEN g ELSE IF z = hr THEN h ELSE z
    <2>1. \A z \in Holder : mr'[z] # NoMr => z \notin {g, h} /\ mr'[z] = mr[Source(z)] /\ Source(z) \in Holder
      BY <1>3, <1>6
    <2>2. CASE mr'[y] = NoMr
      BY <2>2
    <2>3. CASE mr'[y] # NoMr
      <3>1. Source(x) # Source(y)
        BY <1>3, <1>5, <2>1, <2>3
      <3>2. QED
        BY <2>1, <2>3, <3>1 DEF PoolInv, RegionsExclusive
    <2>4. QED
      BY <2>2, <2>3
  <1>11. ActiveRegionsPinned'
    <2> SUFFICES ASSUME ~purged PROVE ActiveRegionsPinned'
      BY <1>8 DEF ActiveRegionsPinned
    <2>1. \A x \in Holder : mr[x] # NoMr => mr[x] \in pinned /\ len[mr[x]] = alloc[x]
      BY DEF PoolInv, ActiveRegionsPinned
    <2>2. \A x \in Holder : mr'[x] # NoMr => mr'[x] \in pinned' /\ len'[mr'[x]] = alloc'[x]
      BY <1>3, <1>6, <1>7, <1>8, <2>1
    <2>3. ASSUME NEW t \in Slots, status'[t] \in Active
          PROVE  /\ mr'[<<t, "send">>] # NoMr /\ alloc'[<<t, "send">>] >= req'[t].send
                 /\ mr'[<<t, "recv">>] # NoMr /\ alloc'[<<t, "recv">>] >= req'[t].recv
      <3>1. CASE t = s
        BY <1>1, <1>5, <1>6, <1>7, <3>1
      <3>2. CASE t # s
        <4>1. status[t] = status'[t] /\ status[t] # "RS_CPIN" /\ req'[t] = req[t]
          BY <1>1, <1>2, <2>3, <3>2 DEF Active
        <4>2. status[g[1]] = "RS_CPIN" /\ status[h[1]] = "RS_CPIN"
          BY <1>1, ReuseStatus
        <4>3. /\ <<t, "send">> \in Holder \ {g, h, hs, hr}
              /\ <<t, "recv">> \in Holder \ {g, h, hs, hr}
          BY <3>2, <4>1, <4>2, Sides
        <4>4. QED
          BY <1>6, <1>7, <2>3, <4>1, <4>3 DEF PoolInv, ActiveRegionsPinned
      <3>3. QED
        BY <3>1, <3>2
    <2>4. QED
      BY <2>2, <2>3 DEF ActiveRegionsPinned
  <1>12. NoRegionLost'
    <2> SUFFICES ASSUME NEW m \in pinned PROVE \E x \in Holder : mr'[x] = m
      BY <1>8 DEF NoRegionLost
    <2>1. PICK x \in Holder : mr[x] = m
      BY DEF PoolInv, NoRegionLost
    <2>2. m # NoMr
      BY <1>1, ServerAssumption DEF TypeOK
    <2>3. QED
      BY <1>3, <1>4, <1>6, <2>1, <2>2
  <1>13. QED
    BY <1>9, <1>10, <1>11, <1>12 DEF PoolInv

LEMMA PoolAllocation ==
  ASSUME TypedInv, PoolInv, NEW s \in Slots, NEW a \in Mr, NEW b \in Mr,
         AcceptWithAllocation(s, a, b)
  PROVE  PoolInv'
  <1> DEFINE q == Head(recv_cq) hs == <<s, "send">> hr == <<s, "recv">>
  <1>1. PICK S \in Purges :
          /\ FreeSlot(s) /\ Allocate(s, q, a, b, S) /\ req' = [req EXCEPT ![s] = q] /\ TypeOK
          /\ req \in [Slots -> OffloadReq \cup {NoReq}] /\ status[s] = "RS_UNALLOC"
    BY DEF AcceptWithAllocation, AcceptRequest, TypedInv, TypeOK, FreeSlot
  <1>2. /\ q \in OffloadReq /\ q.send \in Nat /\ q.recv \in Nat
    <2>1. q \in OffloadReq
      BY MessageTyped DEF TypedInv, AcceptWithAllocation, AcceptRequest, Received
    <2>2. QED
      BY <2>1, ServerAssumption DEF OffloadReq
  <1>3. /\ a # b /\ a # NoMr /\ b # NoMr /\ a \notin pinned \ Freed(S) /\ b \notin pinned \ Freed(S)
        /\ pinned' = (pinned \ Freed(S)) \cup {a, b}
    BY <1>1, ServerAssumption DEF Allocate
  <1>4. /\ hs \in Holder /\ hr \in Holder /\ hs # hr /\ mr[hs] = NoMr /\ mr[hr] = NoMr
        /\ \A h \in Holder \ {hs, hr} : h[1] # s /\ h[1] \in Slots
    BY <1>1, Sides DEF PoolInv, FreeSlotsEmpty, Holder
  <1>5. /\ mr'[hs] = a /\ mr'[hr] = b /\ \A h \in Holder \ {hs, hr} : mr'[h] = mr[h]
        /\ alloc'[hs] = q.send /\ alloc'[hr] = q.recv
        /\ \A h \in Holder \ {hs, hr} : alloc'[h] = alloc[h]
    BY <1>1, <1>4 DEF Allocate, TypeOK
  <1>6. /\ len'[a] = q.send /\ len'[b] = q.recv
        /\ \A m \in Mr \ {a, b} : len'[m] = len[m]
    BY <1>1, <1>3 DEF Allocate, TypeOK
  <1>7. status'[s] = "RS_READ" /\ \A t \in Slots \ {s} : status'[t] = status[t]
    BY <1>1 DEF Allocate, TypeOK
  <1>8. ~purged' => ~purged /\ Freed(S) = {}
    BY <1>1 DEF Allocate, Freed
  <1>9. FreeSlotsEmpty'
    BY <1>4, <1>5, <1>7 DEF PoolInv, FreeSlotsEmpty
  <1>10. ~purged' => \A h \in Holder \ {hs, hr} : mr[h] # NoMr =>
           mr[h] \in pinned' /\ mr[h] \notin {a, b} /\ len'[mr[h]] = alloc[h]
    BY <1>1, <1>3, <1>6, <1>8 DEF PoolInv, ActiveRegionsPinned, TypeOK
  <1>11. RegionsExclusive'
    BY <1>3, <1>4, <1>5, <1>8, <1>10 DEF PoolInv, RegionsExclusive
  <1>12. ActiveRegionsPinned'
    <2> SUFFICES ASSUME ~purged' PROVE ActiveRegionsPinned'
      BY DEF ActiveRegionsPinned
    <2>1. \A h \in Holder : mr'[h] # NoMr => mr'[h] \in pinned' /\ len'[mr'[h]] = alloc'[h]
      BY <1>3, <1>4, <1>5, <1>6, <1>10
    <2>2. ASSUME NEW t \in Slots, status'[t] \in Active
          PROVE  /\ mr'[<<t, "send">>] # NoMr /\ alloc'[<<t, "send">>] >= req'[t].send
                 /\ mr'[<<t, "recv">>] # NoMr /\ alloc'[<<t, "recv">>] >= req'[t].recv
      <3>1. CASE t = s
        BY <1>1, <1>2, <1>3, <1>5, <3>1
      <3>2. CASE t # s
        <4>1. <<t, "send">> \in Holder \ {hs, hr} /\ <<t, "recv">> \in Holder \ {hs, hr}
          BY <3>2, Sides
        <4>2. req'[t] = req[t] /\ status[t] \in Active
          BY <1>1, <1>7, <2>2, <3>2
        <4>3. QED
          BY <1>5, <1>8, <4>1, <4>2 DEF PoolInv, ActiveRegionsPinned
      <3>3. QED
        BY <3>1, <3>2
    <2>3. QED
      BY <2>1, <2>2 DEF ActiveRegionsPinned
  <1>13. NoRegionLost'
    <2> SUFFICES ASSUME NEW m \in pinned' PROVE \E h \in Holder : mr'[h] = m
      BY DEF NoRegionLost
    <2>1. CASE m \in {a, b}
      BY <1>4, <1>5, <2>1
    <2>2. CASE m \in pinned
      <3>1. PICK h \in Holder : mr[h] = m
        BY <2>2 DEF PoolInv, NoRegionLost
      <3>2. m # NoMr
        BY <1>1, <2>2, ServerAssumption DEF TypeOK
      <3>3. QED
        BY <1>4, <1>5, <3>1, <3>2
    <2>3. QED
      BY <1>3, <2>1, <2>2
  <1>14. QED
    BY <1>9, <1>11, <1>12, <1>13 DEF PoolInv

LEMMA PoolComplete ==
  ASSUME TypedInv, PoolInv, CompleteJob
  PROVE  PoolInv'
  <1> DEFINE s == JobOf(Head(cq))
  <1>1. s \in Slots /\ status[s] = "RS_PUT" /\ TypeOK
    BY CompletionTyped DEF TypedInv, CompleteJob, Polled
  <1>2. CASE LazyUnpinning
    <2>1. /\ status' = [status EXCEPT ![s] = "RS_CPIN"]
          /\ UNCHANGED <<req, mr, alloc, pinned, len, purged>>
      BY <1>2 DEF CompleteJob, histVars
    <2>2. QED
      BY <1>1, <2>1, PoolKept DEF TypeOK, Active
  <1>3. CASE ~LazyUnpinning
    <2>1. /\ status' = [status EXCEPT ![s] = "RS_UNALLOC"]
          /\ req' = [req EXCEPT ![s] = NoReq]
          /\ mr' = [h \in Holder |-> IF h[1] = s THEN NoMr ELSE mr[h]]
          /\ alloc' = [h \in Holder |-> IF h[1] = s THEN 0 ELSE alloc[h]]
          /\ pinned' = pinned \ RegionsOf(s)
          /\ UNCHANGED <<len, purged>>
      BY <1>3 DEF CompleteJob, histVars
    <2>2. \A t \in Slots : t # s => status'[t] = status[t] /\ req'[t] = req[t]
      BY <2>1 DEF TypedInv, TypeOK
    <2>3. status'[s] = "RS_UNALLOC"
      BY <1>1, <2>1 DEF TypeOK
    <2>4. RegionsOf(s) = {mr[<<s, "send">>], mr[<<s, "recv">>]}
      BY DEF RegionsOf, Side
    <2>5. \A h \in Holder : /\ h[1] \in Slots
                            /\ h[1] = s => mr'[h] = NoMr /\ mr[h] \in RegionsOf(s)
                            /\ h[1] # s => mr'[h] = mr[h] /\ alloc'[h] = alloc[h]
      BY <1>1, <2>1, <2>4, Sides DEF Holder
    <2>6. FreeSlotsEmpty'
      BY <2>2, <2>5 DEF PoolInv, FreeSlotsEmpty
    <2>7. RegionsExclusive'
      BY <2>1, <2>5 DEF PoolInv, RegionsExclusive
    <2>8. NoRegionLost'
      BY <2>1, <2>5 DEF PoolInv, NoRegionLost
    <2>9. ~purged => \A h \in Holder : h[1] # s /\ mr[h] # NoMr => mr[h] \notin RegionsOf(s)
      BY <1>1, <2>4, Sides DEF PoolInv, RegionsExclusive
    <2>10. ActiveRegionsPinned'
      <3> SUFFICES ASSUME ~purged PROVE ActiveRegionsPinned'
        BY <2>1 DEF ActiveRegionsPinned
      <3>1. \A h \in Holder : mr'[h] # NoMr => mr'[h] \in pinned' /\ len'[mr'[h]] = alloc'[h]
        BY <2>1, <2>5, <2>9 DEF PoolInv, ActiveRegionsPinned
      <3>2. ASSUME NEW t \in Slots, status'[t] \in Active
            PROVE  /\ mr'[<<t, "send">>] # NoMr /\ alloc'[<<t, "send">>] >= req'[t].send
                   /\ mr'[<<t, "recv">>] # NoMr /\ alloc'[<<t, "recv">>] >= req'[t].recv
        <4>1. t # s
          BY <2>3, <3>2 DEF Active
        <4>2. /\ mr'[<<t, "send">>] = mr[<<t, "send">>] /\ alloc'[<<t, "send">>] = alloc[<<t, "send">>]
              /\ mr'[<<t, "recv">>] = mr[<<t, "recv">>] /\ alloc'[<<t, "recv">>] = alloc[<<t, "recv">>]
          BY <2>5, <4>1, Sides
        <4>3. QED
          BY <2>2, <3>2, <4>1, <4>2 DEF PoolInv, ActiveRegionsPinned
      <3>3. QED
        BY <3>1, <3>2 DEF ActiveRegionsPinned
    <2>11. QED
      BY <2>6, <2>7, <2>8, <2>10 DEF PoolInv
  <1>4. QED
    BY <1>2, <1>3

\* Every other step keeps the pool as it is.
LEMMA PoolOther ==
  ASSUME TypedInv, PoolInv, [Next]_vars,
         ~CompleteJob,
         ~ \E s \in Slots, g, h \in Holder : AcceptWithReuse(s, g, h),
         ~ \E s \in Slots, a, b \in Mr : AcceptWithAllocation(s, a, b)
  PROVE  PoolInv'
  <1>1. CASE \E s \in Slots : ReadOffloadFails(s)
    <2>1. PICK s \in Slots : ReadOffloadFails(s)
      BY <1>1
    <2>2. /\ status' = [status EXCEPT ![s] = "RS_FAIL"] /\ UNCHANGED <<mr, alloc, pinned, len, purged>>
          /\ req' = [req EXCEPT ![s] = Head(recv_cq)]
      BY <2>1 DEF ReadOffloadFails, AcceptRequest, poolVars, histVars
    <2>3. QED
      BY <2>2, PoolKept DEF TypedInv, TypeOK, Active
  <1>2. CASE StartCollective \/ StartWrite \/ WriteOffloadFails
    <2>1. UNCHANGED <<req, mr, alloc, pinned, len, purged>>
      BY <1>2 DEF StartCollective, StartWrite, WriteOffloadFails, poolVars, histVars
    <2>2. \E s \in Slots : /\ status[s] \in Active
                           /\ \/ status' = [status EXCEPT ![s] = "RS_MPI"]
                              \/ status' = [status EXCEPT ![s] = "RS_PUT"]
                              \/ status' = [status EXCEPT ![s] = "RS_FAIL"]
      BY <1>2, CompletionTyped DEF StartCollective, StartWrite, WriteOffloadFails, Polled,
         TypedInv, TypeOK, Active
    <2>3. QED
      BY <2>1, <2>2, PoolKept DEF TypedInv, TypeOK, Active
  <1>3. CASE AdvanceFails
    <2> DEFINE s == JobOf(Head(cq))
    <2>1. /\ s \in Slots /\ TypeOK /\ UNCHANGED <<req, mr, alloc, len>>
      BY <1>3, CompletionTyped DEF AdvanceFails, Polled, TypedInv
    <2>2. CASE CollectiveFails(s) \/ UNCHANGED <<status, pinned, purged>>
      BY <2>1, <2>2, PoolKept DEF CollectiveFails, TypeOK, Active
    <2>3. CASE UnpinningFails(s)
      <3>1. /\ status' = [status EXCEPT ![s] = "RS_CPIN"]
            /\ pinned' \subseteq pinned /\ purged'
        BY <2>3 DEF UnpinningFails
      <3>2. FreeSlotsEmpty'
        BY <2>1, <3>1 DEF PoolInv, FreeSlotsEmpty, TypeOK, Holder
      <3>3. RegionsExclusive' /\ ActiveRegionsPinned'
        BY <3>1 DEF RegionsExclusive, ActiveRegionsPinned
      <3>4. NoRegionLost'
        BY <2>1, <3>1 DEF PoolInv, NoRegionLost
      <3>5. QED
        BY <3>2, <3>3, <3>4 DEF PoolInv
    <2>4. QED
      BY <1>3, <2>2, <2>3 DEF AdvanceFails
  <1>4. CASE UNCHANGED <<status, req, mr, alloc, pinned, len, purged>>
    BY <1>4, PoolKept
  <1>5. QED
    <2>1. ASSUME ~(\E s \in Slots : ReadOffloadFails(s)), ~StartCollective, ~StartWrite,
                 ~WriteOffloadFails, ~AdvanceFails
          PROVE  UNCHANGED <<status, req, mr, alloc, pinned, len, purged>>
      <3>1. CASE UNCHANGED vars
        BY <3>1 DEF vars, jobVars, poolVars, histVars
      <3>2. CASE Serve
        BY <2>1, <3>2 DEF Serve, PostRecv, PostRecvFails, NoMessage, ReceiveFails, Disconnect, QueueFull,
           NothingToPoll, MpiPending, PollFails, jobVars, poolVars, histVars
      <3>3. CASE Nic
        BY <3>3 DEF Nic, NicExecute, NicComplete, LinkError, FlushSend, FlushRecv,
           jobVars, poolVars, histVars
      <3>4. CASE Host \/ \E s \in Slots : MpiProgress(s)
        BY <3>4 DEF Host, HostExit, HostRequest, Deliver, MpiProgress, jobVars, poolVars, histVars
      <3>5. QED
        BY <3>1, <3>2, <3>3, <3>4 DEF Next, Stopped
    <2>2. QED
      BY <1>1, <1>2, <1>3, <1>4, <2>1

LEMMA PoolNext == TypedInv /\ PoolInv /\ [Next]_vars => PoolInv'
  BY PoolReuse, PoolAllocation, PoolComplete, PoolOther

LEMMA PoolAlways == Spec => []PoolInv
  BY TypedAlways, PoolInit, PoolNext, PTL DEF Spec

\* As long as no region has been freed behind a completed job's back, each
\* region has one owner: dpu_reuse_mr() never hands one region to two jobs or
\* to both sides of one job.
THEOREM ServerRegionsExclusive == Spec => []RegionsExclusive
  <1>1. PoolInv => RegionsExclusive
    BY DEF PoolInv
  <1>2. QED
    BY <1>1, PoolAlways, PTL

\* As long as no region has been freed behind a completed job's back, every
\* job being served owns two registered regions that are long enough.
THEOREM ServerActiveRegionsPinned == Spec => []ActiveRegionsPinned
  <1>1. PoolInv => ActiveRegionsPinned
    BY DEF PoolInv
  <1>2. QED
    BY <1>1, PoolAlways, PTL

\* The server never loses a registered region: each is in the job list.
THEOREM ServerNoRegionLost == Spec => []NoRegionLost
  <1>1. PoolInv => NoRegionLost
    BY DEF PoolInv
  <1>2. QED
    BY <1>1, PoolAlways, PTL

\* A job keeps its regions while it is served: what dpu_reuse_mr() takes
\* belongs to completed jobs, and what it gives goes to a job not yet served.
THEOREM ServerJobKeepsRegions == Spec => ActiveJobKeepsRegions
  <1> DEFINE Keeps == \A s \in Slots : (status[s] \in Active /\ status'[s] \in Active) =>
                        \A d \in Side : mr'[<<s, d>>] = mr[<<s, d>>]
  <1>1. TypedInv /\ [Next]_vars => Keeps \/ UNCHANGED vars
    <2> SUFFICES ASSUME TypedInv, [Next]_vars, NEW t \in Slots, NEW d \in Side,
                        status[t] \in Active, status'[t] \in Active, ~ UNCHANGED vars
                 PROVE  mr'[<<t, d>>] = mr[<<t, d>>]
      OBVIOUS
    <2>1. CASE UNCHANGED mr
      BY <2>1
    <2>2. ASSUME NEW s \in Slots, NEW g \in Holder, NEW h \in Holder, AcceptWithReuse(s, g, h)
          PROVE  mr'[<<t, d>>] = mr[<<t, d>>]
      <3>1. /\ FreeSlot(s) /\ Reusable(Head(recv_cq), g, h) /\ Reuse(s, g, h) /\ TypeOK
        BY <2>2 DEF AcceptWithReuse, AcceptRequest, TypedInv
      <3>2. status[s] = "RS_UNALLOC" /\ status[g[1]] = "RS_CPIN" /\ status[h[1]] = "RS_CPIN"
        BY <3>1, ReuseStatus
      <3>3. <<t, d>> \in Holder /\ <<t, d>> \notin {g, h, <<s, "send">>, <<s, "recv">>}
        BY <3>2 DEF Holder, Active
      <3>4. QED
        BY <3>1, <3>3, Sides DEF Reuse, Rest
    <2>3. ASSUME NEW s \in Slots, NEW a \in Mr, NEW b \in Mr, AcceptWithAllocation(s, a, b)
          PROVE  mr'[<<t, d>>] = mr[<<t, d>>]
      <3>1. FreeSlot(s) /\ \E S \in Purges : Allocate(s, Head(recv_cq), a, b, S)
        BY <2>3 DEF AcceptWithAllocation, AcceptRequest
      <3>2. <<t, d>> \in Holder /\ <<t, d>> \notin {<<s, "send">>, <<s, "recv">>}
        BY <3>1 DEF Holder, FreeSlot, Active
      <3>3. QED
        BY <3>1, <3>2 DEF Allocate, TypedInv, TypeOK
    <2>4. CASE CompleteJob
      <3>1. JobOf(Head(cq)) \in Slots
        BY <2>4, CompletionTyped DEF TypedInv, CompleteJob, Polled
      <3>2. t # JobOf(Head(cq)) /\ <<t, d>> \in Holder
        BY <2>4, <3>1 DEF CompleteJob, TypedInv, TypeOK, Active, Holder
      <3>3. QED
        BY <2>4, <3>2 DEF CompleteJob
    <2>5. QED
      <3>1. ASSUME mr' # mr
            PROVE  \/ CompleteJob
                   \/ \E s \in Slots, g, h \in Holder : AcceptWithReuse(s, g, h)
                   \/ \E s \in Slots, a, b \in Mr : AcceptWithAllocation(s, a, b)
        <4>1. Serve \/ Nic \/ Host \/ \E s \in Slots : MpiProgress(s)
          BY DEF Next, Stopped
        <4>2. CASE Serve
          BY <3>1, <4>2 DEF Serve, PostRecv, PostRecvFails, NoMessage, ReceiveFails, Disconnect,
             QueueFull, NothingToPoll, AdvanceFails, MpiPending, PollFails, ReadOffloadFails,
             StartCollective, StartWrite, WriteOffloadFails, jobVars
        <4>3. CASE Nic
          BY <3>1, <4>3 DEF Nic, NicExecute, NicComplete, LinkError, FlushSend, FlushRecv, jobVars
        <4>4. CASE Host \/ \E s \in Slots : MpiProgress(s)
          BY <3>1, <4>4 DEF Host, HostExit, HostRequest, Deliver, MpiProgress, jobVars
        <4>5. QED
          BY <4>1, <4>2, <4>3, <4>4
      <3>2. QED
        BY <2>1, <2>2, <2>3, <2>4, <3>1
  <1>2. TypedInv /\ [Next]_vars => [Keeps]_vars
    BY <1>1
  <1>3. QED
    BY <1>2, TypedAlways, PTL DEF ActiveJobKeepsRegions, Spec

-----------------------------------------------------------------------------
(* What becomes of the requests of the host: the collectives start in      *)
(* their order, and a host that waits for each of them is served for ever. *)
(*                                                                         *)
(* The order: requests reach the server one at a time, so they are         *)
(* accepted in order; each posts its RDMA read to the one send queue; the  *)
(* reads move through the send and the completion queue in that order; so  *)
(* the first read completion that is polled is that of the oldest job      *)
(* still reading, whichever slot it sits in.                               *)

-----------------------------------------------------------------------------
(* One receive is posted at a time, so at most one message is in hand, and *)
(* if it is a request, it is the last one the host has sent.               *)

OneMessage ==
  /\ Len(recv_cq) <= 1
  /\ recv_posted => recv_cq = <<>> /\ recv_status = 1
  /\ server = "running" /\ recv_status = 0 => recv_cq = <<>>
  /\ recv_cq # <<>> /\ Head(recv_cq).op > 0 => Head(recv_cq).op = sent

LEMMA OneMessageInit == Init => OneMessage
  BY DEF Init, OneMessage

\* A message lands in an empty receive queue.
LEMMA Landed ==
  ASSUME NEW m, recv_cq = <<>>, recv_cq' = Append(recv_cq, m)
  PROVE  recv_cq' # <<>> /\ Len(recv_cq') = 1 /\ Head(recv_cq') = m
  <1>1. Append(<<>>, m) = <<m>>
    OBVIOUS
  <1>2. <<m>> # <<>> /\ Len(<<m>>) = 1 /\ Head(<<m>>) = m
    OBVIOUS
  <1>3. QED
    BY <1>1, <1>2

LEMMA MessageTaken ==
  ASSUME TypeOK, OneMessage, NEW m, Received(m)
  PROVE  recv_cq' = <<>> /\ recv_posted = FALSE
  <1>1. /\ recv_cq # <<>> /\ recv_cq' = Tail(recv_cq) /\ Len(recv_cq) <= 1
        /\ recv_cq \in Seq(OffloadReq \cup {Goodbye, Broken})
    BY DEF Received, OneMessage, TypeOK
  <1> DEFINE M == OffloadReq \cup {Goodbye, Broken}
  <1>2. Len(Tail(recv_cq)) = 0 /\ Tail(recv_cq) \in Seq(M)
    <2> HIDE DEF M
    <2>1. recv_cq \in Seq(M) /\ recv_cq # <<>>
      BY <1>1 DEF M
    <2>2. Tail(recv_cq) \in Seq(M) /\ Len(recv_cq) \in Nat \ {0} /\ Len(Tail(recv_cq)) = Len(recv_cq) - 1
      BY <2>1, QueueTail
    <2>3. QED
      BY <1>1, <2>2
  <1>3. Tail(recv_cq) = <<>>
    BY <1>2, EmptySeq
  <1>4. QED
    BY <1>1, <1>3 DEF OneMessage, TypeOK

LEMMA OneMessageNext == TypedInv /\ OneMessage /\ [Next]_vars => OneMessage'
  <1> SUFFICES ASSUME TypedInv, OneMessage, [Next]_vars PROVE OneMessage'
    OBVIOUS
  <1>1. CASE UNCHANGED <<recvVars, sent>> /\ (server' = "running" => server = "running")
    BY <1>1 DEF OneMessage, recvVars
  <1>2. CASE PostRecv
    <2>1. UNCHANGED <<recv_cq, sent>> /\ recv_status' = 1
      BY <1>2 DEF PostRecv, hostVars
    <2>2. recv_posted' => recv_cq = <<>>
      BY <1>2 DEF PostRecv, At, OneMessage
    <2>3. QED
      BY <2>1, <2>2 DEF OneMessage
  <1>3. ASSUME NEW m, Received(m), server' # "running" \/ recv_status' = 0
        PROVE  OneMessage'
    <2>1. recv_cq' = <<>> /\ recv_posted' = FALSE
      BY <1>3, MessageTaken DEF TypedInv, Received
    <2>2. QED
      BY <2>1 DEF OneMessage
  <1>4. ASSUME NEW m, recv_posted, recv_posted' = FALSE, recv_cq' = Append(recv_cq, m),
               UNCHANGED recv_status, m.op > 0 => sent' = m.op
        PROVE  OneMessage'
    <2>1. recv_cq = <<>> /\ recv_status' = 1
      BY <1>4 DEF OneMessage
    <2>2. Len(recv_cq') = 1 /\ Head(recv_cq') = m
      BY <1>4, <2>1, Landed
    <2>3. QED
      BY <1>4, <2>1, <2>2 DEF OneMessage
  <1>5. CASE Serve
    <2>1. CASE PostRecvFails \/ NoMessage \/ NothingToPoll \/ StartCollective \/ CompleteJob \/ AdvanceFails
                 \/ MpiPending \/ StartWrite \/ WriteOffloadFails \/ PollFails
      <3>1. UNCHANGED <<recvVars, sent>> /\ (server' = "running" => server = "running")
        BY <2>1 DEF PostRecvFails, NoMessage, NothingToPoll, StartCollective, CompleteJob, AdvanceFails,
           MpiPending, StartWrite, WriteOffloadFails, PollFails, Return, Goto, NextSlot, hostVars
      <3>2. QED
        BY <1>1, <3>1
    <2>2. CASE ReceiveFails \/ Disconnect \/ QueueFull \/ \E s \in Slots : ReadOffloadFails(s)
      <3>1. PICK m : Received(m) /\ server' # "running"
        BY <2>2 DEF ReceiveFails, Disconnect, QueueFull, ReadOffloadFails, AcceptRequest, Return
      <3>2. QED
        BY <1>3, <3>1
    <2>3. CASE \/ \E s \in Slots, g, h \in Holder : AcceptWithReuse(s, g, h)
               \/ \E s \in Slots, a, b \in Mr : AcceptWithAllocation(s, a, b)
      <3>1. PICK m : Received(m) /\ recv_status' = 0
        BY <2>3 DEF AcceptWithReuse, AcceptWithAllocation, AcceptRequest
      <3>2. QED
        BY <1>3, <3>1
    <2>4. QED
      BY <1>2, <1>5, <2>1, <2>2, <2>3 DEF Serve
  <1>6. CASE Nic
    <2>1. CASE FlushRecv
      <3>1. /\ recv_posted /\ recv_posted' = FALSE /\ recv_cq' = Append(recv_cq, Broken)
            /\ UNCHANGED recv_status /\ ~(Broken.op > 0)
        BY <2>1 DEF FlushRecv, Broken
      <3>2. QED
        BY <1>4, <3>1
    <2>2. CASE NicExecute \/ NicComplete \/ LinkError \/ FlushSend
      BY <1>1, <2>2 DEF NicExecute, NicComplete, LinkError, FlushSend, loopVars, hostVars
    <2>3. QED
      BY <1>6, <2>1, <2>2 DEF Nic
  <1>7. CASE Host \/ \E s \in Slots : MpiProgress(s)
    <2>1. CASE HostExit
      <3>1. /\ recv_posted /\ recv_posted' = FALSE /\ recv_cq' = Append(recv_cq, Goodbye)
            /\ UNCHANGED recv_status /\ ~(Goodbye.op > 0)
        BY <2>1 DEF HostExit, Deliver, Goodbye
      <3>2. QED
        BY <1>4, <3>1
    <2>2. ASSUME NEW n \in Sizes, NEW k \in Sizes, HostRequest(n, k) PROVE OneMessage'
      <3> DEFINE m == [op |-> sent + 1, send |-> n, recv |-> k]
      <3>1. /\ recv_posted /\ recv_posted' = FALSE /\ recv_cq' = Append(recv_cq, m)
            /\ UNCHANGED recv_status /\ sent' = m.op
        BY <2>2 DEF HostRequest, Deliver
      <3>2. QED
        BY <1>4, <3>1
    <2>3. CASE \E s \in Slots : MpiProgress(s)
      BY <1>1, <2>3 DEF MpiProgress, loopVars, hostVars
    <2>4. QED
      BY <1>7, <2>1, <2>2, <2>3 DEF Host
  <1>8. CASE UNCHANGED vars
    BY <1>1, <1>8 DEF vars, loopVars, hostVars
  <1>9. QED
    BY <1>5, <1>6, <1>7, <1>8 DEF Next, Stopped

-----------------------------------------------------------------------------
(* The jobs that are still reading hold exactly the operations accepted    *)
(* and not yet started, and their reads are queued in that order.          *)

\* The number of requests the server has taken out of the receive queue.
Accepted == IF recv_cq # <<>> /\ Head(recv_cq).op > 0 THEN sent - 1 ELSE sent

LEMMA AcceptedTyped ==
  ASSUME TypeOK
  PROVE  Accepted \in Int /\ sent \in Nat
  BY ServerAssumption DEF TypeOK, Accepted

Reading(s) == status[s] = "RS_READ"
\* The same of the state after a step.
StillReading(s) == status'[s] = "RS_READ"

Queued(s)  == (\E k \in DOMAIN sq : sq[k].slot = s) \/ \E k \in DOMAIN cq : cq[k].slot = s

ReadsPending ==
  /\ Len(collectives) <= Accepted
  /\ \A s \in Slots : Reading(s) => req[s].op \in Len(collectives) + 1 .. Accepted
  /\ server = "running" =>
       \A o \in Len(collectives) + 1 .. Accepted : \E s \in Slots : Reading(s) /\ req[s].op = o

Earlier(s, t)      == Reading(s) /\ Reading(t) => req[s].op < req[t].op
StillEarlier(s, t) == StillReading(s) /\ StillReading(t) => req'[s].op < req'[t].op

ReadsQueuedInOrder ==
  /\ \A j, k \in DOMAIN cq : j < k => Earlier(cq[j].slot, cq[k].slot)
  /\ \A j \in DOMAIN cq, k \in DOMAIN sq : Earlier(cq[j].slot, sq[k].slot)
  /\ \A j, k \in DOMAIN sq : j < k => Earlier(sq[j].slot, sq[k].slot)

OrderInv == ReadsPending /\ ReadsQueuedInOrder /\ CollectivesInOrder

LEMMA OrderInit == Init => OrderInv
  <1> SUFFICES ASSUME Init PROVE OrderInv
    OBVIOUS
  <1>1. ReadsPending
    <2>1. Accepted = 0 /\ Len(collectives) = 0
      BY DEF Init, Accepted
    <2>2. QED
      BY <2>1 DEF Init, ReadsPending, Reading
  <1>2. ReadsQueuedInOrder /\ CollectivesInOrder
    BY DEF Init, ReadsQueuedInOrder, CollectivesInOrder
  <1>3. QED
    BY <1>1, <1>2 DEF OrderInv

\* Steps in which no job starts or stops reading.
LEMMA OrderKept ==
  ASSUME TypedInv, OrderInv,
         \A s \in Slots : StillReading(s) <=> Reading(s),
         \A s \in Slots : Reading(s) => req'[s] = req[s],
         UNCHANGED <<sq, cq, collectives>>, Accepted' \in Int, Accepted' >= Accepted,
         server' = "running" => server = "running" /\ Accepted' = Accepted
  PROVE  OrderInv'
  <1>1. ReadsPending'
    <2>1. Accepted \in Int /\ Len(collectives) \in Nat
      BY AcceptedTyped, LenProperties DEF TypedInv, TypeOK
    <2>2. QED
      BY <2>1 DEF OrderInv, ReadsPending, Reading, StillReading
  <1>2. /\ \A k \in DOMAIN sq : sq[k].slot \in Slots
        /\ \A k \in DOMAIN cq : cq[k].slot \in Slots
    BY QueuesTyped DEF TypedInv, WorkRequest, Completion
  <1>3. ReadsQueuedInOrder'
    BY <1>2 DEF OrderInv, ReadsQueuedInOrder, Earlier, StillEarlier, Reading, StillReading
  <1>4. CollectivesInOrder'
    BY DEF OrderInv, CollectivesInOrder
  <1>5. QED
    BY <1>1, <1>3, <1>4 DEF OrderInv

\* The oldest completion is polled; no job starts reading.
LEMMA QueuesPolled ==
  ASSUME TypedInv, ReadsQueuedInOrder, NEW c, Polled(c),
         \A t \in Slots : StillReading(t) => Reading(t) /\ req'[t] = req[t]
  PROVE  /\ ReadsQueuedInOrder'
         /\ \A t \in Slots : Queued(t) /\ t # JobOf(c) => Earlier(JobOf(c), t)
  <1>1. cq \in Seq(Completion) /\ cq # <<>> /\ cq' = Tail(cq) /\ UNCHANGED sq /\ JobOf(c) = cq[1].slot
    BY QueueTail DEF TypedInv, TypeOK, Polled, JobOf
  <1>2. /\ Len(cq) \in Nat \ {0} /\ DOMAIN cq = 1 .. Len(cq) /\ DOMAIN cq' = 1 .. Len(cq) - 1
        /\ \A k \in 1 .. Len(cq) - 1 : cq'[k] = cq[k + 1]
    BY <1>1, QueueTail
  <1>3. /\ \A k \in DOMAIN cq' : k + 1 \in DOMAIN cq /\ cq'[k] = cq[k + 1]
        /\ \A j, k \in DOMAIN cq' : j < k => j + 1 < k + 1
        /\ \A k \in DOMAIN cq : k # 1 => 1 < k
        /\ 1 \in DOMAIN cq
    BY <1>2
  <1>4. /\ \A k \in DOMAIN sq : sq[k].slot \in Slots
        /\ \A k \in DOMAIN cq : cq[k].slot \in Slots
    BY QueuesTyped DEF TypedInv, WorkRequest, Completion
  <1>5. \A t, u \in Slots : Earlier(t, u) => StillEarlier(t, u)
    BY DEF Earlier, StillEarlier
  <1>6. ReadsQueuedInOrder'
    <2>1. \A j, k \in DOMAIN cq' : j < k => StillEarlier(cq'[j].slot, cq'[k].slot)
      BY <1>3, <1>4, <1>5 DEF ReadsQueuedInOrder
    <2>2. \A j \in DOMAIN cq', k \in DOMAIN sq' : StillEarlier(cq'[j].slot, sq'[k].slot)
      BY <1>1, <1>3, <1>4, <1>5 DEF ReadsQueuedInOrder
    <2>3. \A j, k \in DOMAIN sq' : j < k => StillEarlier(sq'[j].slot, sq'[k].slot)
      BY <1>1, <1>4, <1>5 DEF ReadsQueuedInOrder
    <2>4. QED
      BY <2>1, <2>2, <2>3 DEF ReadsQueuedInOrder, Earlier, StillEarlier, Reading, StillReading
  <1>7. ASSUME NEW t \in Slots, Queued(t), t # JobOf(c) PROVE Earlier(JobOf(c), t)
    BY <1>1, <1>3, <1>7 DEF Queued, ReadsQueuedInOrder
  <1>8. QED
    BY <1>6, <1>7

LEMMA OrderStart ==
  ASSUME TypedInv, OrderInv, OneMessage, StartCollective
  PROVE  OrderInv'
  <1> DEFINE c == Head(cq) s == JobOf(c) n == Len(collectives)
  <1>1. /\ Polled(c) /\ cq # <<>> /\ server = "running" /\ Reading(s)
        /\ status' = [status EXCEPT ![s] = "RS_MPI"]
        /\ collectives' = Append(collectives, req[s].op)
        /\ UNCHANGED <<req, sent, recv_cq, server>>
    BY DEF StartCollective, Polled, At, Reading, Goto, recvVars, hostVars
  <1>2. s \in Slots /\ n \in Nat /\ Accepted \in Int /\ UNCHANGED Accepted
    BY <1>1, CompletionTyped, AcceptedTyped, LenProperties DEF TypedInv, TypeOK, Accepted
  <1>3. /\ ~StillReading(s)
        /\ \A t \in Slots \ {s} : StillReading(t) <=> Reading(t)
    BY <1>1, <1>2 DEF Reading, StillReading, TypedInv, TypeOK
  <1>4. /\ ReadsQueuedInOrder'
        /\ \A t \in Slots : Queued(t) /\ t # s => Earlier(s, t)
    BY <1>1, <1>3, QueuesPolled DEF OrderInv
  <1>5. \A t \in Slots \ {s} : Reading(t) => req[s].op < req[t].op
    <2>1. \A t \in Slots : Reading(t) => Queued(t)
      BY <1>1 DEF TypedInv, CompletionsMatchJobs, Reading, Queued
    <2>2. QED
      BY <1>1, <1>4, <2>1 DEF Earlier
  <1>6. /\ \A t \in Slots : Reading(t) => req[t].op \in n + 1 .. Accepted
        /\ \A o \in n + 1 .. Accepted : \E t \in Slots : Reading(t) /\ req[t].op = o
    BY <1>1 DEF OrderInv, ReadsPending
  <1>7. req[s].op = n + 1
    <2>1. req[s].op \in n + 1 .. Accepted
      BY <1>1, <1>2, <1>6
    <2>2. n + 1 \in n + 1 .. Accepted
      BY <1>2, <2>1
    <2>3. PICK t \in Slots : Reading(t) /\ req[t].op = n + 1
      BY <1>6, <2>2
    <2>4. QED
      BY <1>2, <1>5, <2>1, <2>3
  <1>8. /\ Len(collectives') = n + 1
        /\ DOMAIN collectives = 1 .. n /\ DOMAIN collectives' = 1 .. n + 1
        /\ \A k \in 1 .. n : collectives'[k] = collectives[k]
        /\ collectives'[n + 1] = n + 1
    <2>1. req[s].op \in 1 .. MaxOp
      BY <1>1, <1>2 DEF Reading, StillReading, TypedInv, ActiveRequests, Active, OffloadReq
    <2>2. QED
      BY <1>1, <1>7, <2>1, QueueAppend DEF TypedInv, TypeOK
  <1>9. CollectivesInOrder'
    BY <1>2, <1>8 DEF OrderInv, CollectivesInOrder
  <1>10. ReadsPending'
    <2>1. \A t \in Slots : StillReading(t) => req'[t].op \in n + 2 .. Accepted
      BY <1>1, <1>2, <1>3, <1>5, <1>6, <1>7
    <2>2. \A o \in n + 2 .. Accepted : \E t \in Slots : StillReading(t) /\ req'[t].op = o
      <3> SUFFICES ASSUME NEW o \in n + 2 .. Accepted PROVE \E t \in Slots : StillReading(t) /\ req'[t].op = o
        OBVIOUS
      <3>1. o \in n + 1 .. Accepted /\ o # n + 1
        BY <1>2
      <3>2. PICK t \in Slots : Reading(t) /\ req[t].op = o
        BY <1>6, <3>1
      <3>3. QED
        BY <1>1, <1>3, <1>7, <3>1, <3>2
    <2>3. Len(collectives') + 1 = n + 2 /\ Len(collectives') <= Accepted
      BY <1>1, <1>2, <1>6, <1>7, <1>8
    <2>4. QED
      BY <1>2, <2>1, <2>2, <2>3 DEF ReadsPending, Reading, StillReading
  <1>11. QED
    BY <1>4, <1>9, <1>10 DEF OrderInv

LEMMA OrderPolled ==
  ASSUME TypedInv, OrderInv, CompleteJob \/ AdvanceFails
  PROVE  OrderInv'
  <1> DEFINE c == Head(cq) s == JobOf(c)
  <1>1. /\ Polled(c) /\ cq # <<>>
        /\ UNCHANGED <<collectives, sent, recv_cq>>
        /\ server' = "running" => server = "running"
    BY DEF CompleteJob, AdvanceFails, Polled, At, Goto, Return, recvVars, hostVars, histVars
  <1>2. s \in Slots /\ UNCHANGED Accepted
    BY <1>1, CompletionTyped DEF TypedInv, Accepted
  <1>3. /\ \A t \in Slots : StillReading(t) => Reading(t) /\ req'[t] = req[t]
        /\ server' = "running" => \A t \in Slots : Reading(t) => StillReading(t)
    <2>1. CASE CompleteJob
      BY <1>2, <2>1 DEF CompleteJob, Reading, StillReading, TypedInv, TypeOK
    <2>2. CASE AdvanceFails
      BY <1>2, <2>2 DEF AdvanceFails, CollectiveFails, UnpinningFails, Return,
         Reading, StillReading, TypedInv, TypeOK
    <2>3. QED
      BY <2>1, <2>2
  <1>4. ReadsQueuedInOrder'
    BY <1>1, <1>3, QueuesPolled DEF OrderInv
  <1>5. ReadsPending'
    <2>1. \A o \in Int : (\E t \in Slots : Reading(t) /\ req[t].op = o) /\ server' = "running"
                        => \E t \in Slots : StillReading(t) /\ req'[t].op = o
      BY <1>3
    <2>2. Accepted \in Int /\ Len(collectives) \in Nat
      BY AcceptedTyped, LenProperties DEF TypedInv, TypeOK
    <2>3. \A o \in Len(collectives) + 1 .. Accepted : o \in Int
      BY <2>2
    <2>4. QED
      BY <1>1, <1>2, <1>3, <2>1, <2>3 DEF OrderInv, ReadsPending, Reading, StillReading
  <1>6. CollectivesInOrder'
    BY <1>1 DEF OrderInv, CollectivesInOrder
  <1>7. QED
    BY <1>4, <1>5, <1>6 DEF OrderInv

\* A work request is posted last: its job reads, if at all, the last operation.
LEMMA QueuesPosted ==
  ASSUME TypedInv, ReadsQueuedInOrder, NEW s \in Slots, NEW opcode \in {"READ", "WRITE"}, Post(s, opcode),
         status[s] \notin Waiting,
         \A t \in Slots \ {s} : (StillReading(t) <=> Reading(t)) /\ (Reading(t) => req'[t] = req[t]),
         StillReading(s) => \A t \in Slots : Reading(t) => req[t].op < req'[s].op
  PROVE  ReadsQueuedInOrder'
  <1> DEFINE wr == [slot |-> s, opcode |-> opcode]
  <1>1. wr \in WorkRequest /\ sq \in Seq(WorkRequest) /\ sq' = Append(sq, wr) /\ UNCHANGED cq
    BY DEF WorkRequest, TypedInv, TypeOK, Post
  <1>2. /\ Len(sq) \in Nat /\ DOMAIN sq = 1 .. Len(sq) /\ DOMAIN sq' = 1 .. Len(sq) + 1
        /\ \A k \in 1 .. Len(sq) : sq'[k] = sq[k]
        /\ sq'[Len(sq) + 1] = wr
    BY <1>1, QueueAppend
  <1>3. /\ \A k \in DOMAIN sq : sq[k].slot \in Slots \ {s}
        /\ \A k \in DOMAIN cq : cq[k].slot \in Slots \ {s}
    <2>1. /\ \A k \in DOMAIN sq : sq[k].slot \in Slots
          /\ \A k \in DOMAIN cq : cq[k].slot \in Slots
      BY QueuesTyped DEF TypedInv, WorkRequest, Completion
    <2>2. QED
      BY <2>1 DEF TypedInv, CompletionsMatchJobs, Waiting
  <1>4. /\ \A t, u \in Slots \ {s} : Earlier(t, u) => StillEarlier(t, u)
        /\ \A t \in Slots \ {s} : StillEarlier(t, s)
    BY DEF Earlier, StillEarlier
  <1>5. \A j, k \in DOMAIN cq' : j < k => StillEarlier(cq'[j].slot, cq'[k].slot)
    BY <1>1, <1>3, <1>4 DEF ReadsQueuedInOrder
  <1>6. \A j \in DOMAIN cq', k \in DOMAIN sq' : StillEarlier(cq'[j].slot, sq'[k].slot)
    BY <1>1, <1>2, <1>3, <1>4 DEF ReadsQueuedInOrder
  <1>7. \A j, k \in DOMAIN sq' : j < k => StillEarlier(sq'[j].slot, sq'[k].slot)
    BY <1>2, <1>3, <1>4 DEF ReadsQueuedInOrder
  <1>8. QED
    BY <1>5, <1>6, <1>7 DEF ReadsQueuedInOrder, Earlier, StillEarlier, Reading, StillReading

LEMMA OrderAccept ==
  ASSUME TypedInv, OrderInv, OneMessage, NEW s \in Slots,
         \/ \E g, h \in Holder : AcceptWithReuse(s, g, h)
         \/ \E a, b \in Mr : AcceptWithAllocation(s, a, b)
  PROVE  OrderInv'
  <1> DEFINE q == Head(recv_cq)
  <1>1. /\ Received(q) /\ q.op > 0 /\ FreeSlot(s) /\ Post(s, "READ") /\ server = "running"
        /\ req' = [req EXCEPT ![s] = q] /\ UNCHANGED <<collectives, sent, server>>
    BY DEF AcceptWithReuse, AcceptWithAllocation, AcceptRequest, Received, At, Goto, hostVars
  <1>2. /\ status[s] = "RS_UNALLOC" /\ StillReading(s)
        /\ \A t \in Slots \ {s} : StillReading(t) <=> Reading(t)
    <2>1. CASE \E g, h \in Holder : AcceptWithReuse(s, g, h)
      BY <2>1, ReuseStatus DEF AcceptWithReuse, AcceptRequest, Reading, StillReading, TypedInv
    <2>2. CASE \E a, b \in Mr : AcceptWithAllocation(s, a, b)
      BY <2>2 DEF AcceptWithAllocation, AcceptRequest, Allocate, FreeSlot, Reading, StillReading, TypedInv, TypeOK
    <2>3. QED
      BY <2>1, <2>2
  <1>3. /\ q.op = sent /\ Accepted = sent - 1 /\ Accepted' = sent /\ sent \in Nat
        /\ Len(collectives) \in Nat
    <2>1. recv_cq' = <<>> /\ recv_cq # <<>>
      BY <1>1, MessageTaken DEF TypedInv, Received
    <2>2. QED
      BY <1>1, <2>1, AcceptedTyped, LenProperties DEF OneMessage, Accepted, TypedInv, TypeOK
  <1>4. /\ req'[s] = q /\ \A t \in Slots \ {s} : req'[t] = req[t]
    BY <1>1 DEF TypedInv, TypeOK
  <1>5. /\ \A t \in Slots : Reading(t) => req[t].op \in Len(collectives) + 1 .. Accepted
        /\ \A o \in Len(collectives) + 1 .. Accepted : \E t \in Slots : Reading(t) /\ req[t].op = o
    BY <1>1 DEF OrderInv, ReadsPending
  <1>6. ReadsQueuedInOrder'
    <2>1. \A t \in Slots : Reading(t) => req[t].op < req'[s].op
      BY <1>3, <1>4, <1>5
    <2>2. QED
      BY <1>1, <1>2, <1>4, <2>1, QueuesPosted DEF OrderInv, Waiting
  <1>7. ReadsPending'
    <2>1. \A t \in Slots : StillReading(t) => req'[t].op \in Len(collectives) + 1 .. Accepted'
      <3> SUFFICES ASSUME NEW t \in Slots, StillReading(t)
                   PROVE  req'[t].op \in Len(collectives) + 1 .. Accepted'
        OBVIOUS
      <3>1. CASE t = s
        <4>1. Len(collectives) + 1 <= sent
          BY <1>3 DEF OrderInv, ReadsPending
        <4>2. QED
          BY <1>3, <1>4, <3>1, <4>1
      <3>2. CASE t # s
        BY <1>2, <1>3, <1>4, <1>5, <3>2
      <3>3. QED
        BY <3>1, <3>2
    <2>2. \A o \in Len(collectives) + 1 .. Accepted' : \E t \in Slots : StillReading(t) /\ req'[t].op = o
      <3> SUFFICES ASSUME NEW o \in Len(collectives) + 1 .. Accepted'
                   PROVE  \E t \in Slots : StillReading(t) /\ req'[t].op = o
        OBVIOUS
      <3>1. CASE o = sent
        BY <1>2, <1>3, <1>4, <3>1
      <3>2. CASE o # sent
        <4>1. o \in Len(collectives) + 1 .. Accepted
          BY <1>3, <3>2
        <4>2. PICK t \in Slots : Reading(t) /\ req[t].op = o
          BY <1>5, <4>1
        <4>3. t # s
          BY <1>2, <4>2 DEF Reading
        <4>4. QED
          BY <1>2, <1>4, <4>2, <4>3
      <3>3. QED
        BY <3>1, <3>2
    <2>3. Len(collectives') <= Accepted'
      BY <1>1, <1>3 DEF OrderInv, ReadsPending
    <2>4. QED
      BY <1>1, <2>1, <2>2, <2>3 DEF ReadsPending, Reading, StillReading
  <1>8. CollectivesInOrder'
    BY <1>1 DEF OrderInv, CollectivesInOrder
  <1>9. QED
    BY <1>6, <1>7, <1>8 DEF OrderInv

\* The oldest work request becomes the newest completion.
LEMMA OrderMoved ==
  ASSUME TypedInv, OrderInv, NicComplete \/ FlushSend
  PROVE  OrderInv'
  <1>1. PICK ok \in BOOLEAN : cq' = Append(cq, [slot |-> Head(sq).slot, ok |-> ok])
    BY DEF NicComplete, FlushSend
  <1>2. /\ sq' = Tail(sq) /\ UNCHANGED <<status, req, recv_cq, sent, server, collectives>>
        /\ sq # <<>> /\ sq \in Seq(WorkRequest) /\ cq \in Seq(Completion)
    BY EmptySeq DEF NicComplete, FlushSend, jobVars, recvVars, loopVars, hostVars, histVars, TypedInv, TypeOK
  <1>3. /\ Head(sq) = sq[1] /\ sq[1] \in WorkRequest
        /\ Len(sq) \in Nat \ {0} /\ DOMAIN sq = 1 .. Len(sq) /\ DOMAIN sq' = 1 .. Len(sq) - 1
        /\ \A k \in 1 .. Len(sq) - 1 : sq'[k] = sq[k + 1]
    BY <1>2, QueueTail
  <1>4. [slot |-> Head(sq).slot, ok |-> ok] \in Completion
    BY <1>3 DEF WorkRequest, Completion
  <1>5. /\ Len(cq) \in Nat /\ DOMAIN cq = 1 .. Len(cq) /\ DOMAIN cq' = 1 .. Len(cq) + 1
        /\ \A k \in 1 .. Len(cq) : cq'[k] = cq[k]
        /\ cq'[Len(cq) + 1].slot = sq[1].slot
    BY <1>1, <1>2, <1>3, <1>4, QueueAppend
  <1>6. /\ \A k \in DOMAIN sq' : k + 1 \in DOMAIN sq /\ 1 < k + 1 /\ sq'[k] = sq[k + 1]
        /\ \A j, k \in DOMAIN sq' : j < k => j + 1 < k + 1
        /\ 1 \in DOMAIN sq
    BY <1>3
  <1>7. /\ \A k \in DOMAIN cq' : (k \in DOMAIN cq /\ cq'[k] = cq[k])
                                   \/ (k = Len(cq) + 1 /\ cq'[k].slot = sq[1].slot)
        /\ \A j, k \in DOMAIN cq' : j < k => j \in DOMAIN cq
    BY <1>5
  <1>8. \A t, u : Earlier(t, u) <=> StillEarlier(t, u)
    BY <1>2 DEF Earlier, StillEarlier, Reading, StillReading
  <1>9. ASSUME NEW j \in DOMAIN cq', NEW k \in DOMAIN cq', j < k
        PROVE  StillEarlier(cq'[j].slot, cq'[k].slot)
    <2>1. j \in DOMAIN cq /\ cq'[j] = cq[j]
      BY <1>5, <1>7, <1>9
    <2>2. CASE k \in DOMAIN cq /\ cq'[k] = cq[k]
      <3>1. Earlier(cq[j].slot, cq[k].slot)
        BY <1>9, <2>1, <2>2 DEF OrderInv, ReadsQueuedInOrder
      <3>2. QED
        BY <1>8, <2>1, <2>2, <3>1
    <2>3. CASE cq'[k].slot = sq[1].slot
      <3>1. Earlier(cq[j].slot, sq[1].slot)
        BY <1>6, <2>1 DEF OrderInv, ReadsQueuedInOrder
      <3>2. QED
        BY <1>8, <2>1, <2>3, <3>1
    <2>4. QED
      BY <1>7, <2>2, <2>3
  <1>10. \A j \in DOMAIN cq', k \in DOMAIN sq' : StillEarlier(cq'[j].slot, sq'[k].slot)
    BY <1>6, <1>7, <1>8 DEF OrderInv, ReadsQueuedInOrder
  <1>11. \A j, k \in DOMAIN sq' : j < k => StillEarlier(sq'[j].slot, sq'[k].slot)
    BY <1>6, <1>8 DEF OrderInv, ReadsQueuedInOrder
  <1>12. ReadsQueuedInOrder'
    BY <1>9, <1>10, <1>11 DEF ReadsQueuedInOrder, Earlier, StillEarlier, Reading, StillReading
  <1>13. ReadsPending' /\ CollectivesInOrder'
    BY <1>2 DEF OrderInv, ReadsPending, CollectivesInOrder, Reading, Accepted
  <1>14. QED
    BY <1>12, <1>13 DEF OrderInv

LEMMA OrderWrite ==
  ASSUME TypedInv, OrderInv, StartWrite
  PROVE  OrderInv'
  <1>1. /\ cur \in Slots /\ status[cur] = "RS_MPI" /\ Post(cur, "WRITE")
        /\ status' = [status EXCEPT ![cur] = "RS_PUT"]
        /\ UNCHANGED <<req, recv_cq, sent, server, collectives>>
    BY DEF StartWrite, TypedInv, TypeOK, NextSlot, recvVars, hostVars, histVars
  <1>2. ~StillReading(cur) /\ \A t \in Slots : (StillReading(t) <=> Reading(t)) /\ req'[t] = req[t]
    BY <1>1 DEF Reading, StillReading, TypedInv, TypeOK
  <1>3. ReadsQueuedInOrder'
    BY <1>1, <1>2, QueuesPosted DEF OrderInv, Waiting
  <1>4. ReadsPending' /\ CollectivesInOrder'
    BY <1>1, <1>2 DEF OrderInv, ReadsPending, CollectivesInOrder, Reading, StillReading, Accepted
  <1>5. QED
    BY <1>3, <1>4 DEF OrderInv

\* What the other steps do to the jobs and to the requests in hand.
LEMMA OrderOther ==
  ASSUME TypedInv, OrderInv, OneMessage, [Next]_vars,
         ~StartCollective, ~CompleteJob, ~AdvanceFails, ~StartWrite, ~NicComplete, ~FlushSend,
         ~ \E s \in Slots, g, h \in Holder : AcceptWithReuse(s, g, h),
         ~ \E s \in Slots, a, b \in Mr : AcceptWithAllocation(s, a, b)
  PROVE  OrderInv'
  <1>1. Accepted \in Int /\ sent \in Nat /\ Accepted <= sent
    BY AcceptedTyped DEF TypedInv, Accepted
  <1>2. CASE UNCHANGED <<status, req, sq, cq, collectives, recv_cq, sent>>
             /\ (server' = "running" => server = "running")
    <2>1. UNCHANGED Accepted
      BY <1>2 DEF Accepted
    <2>2. QED
      BY <1>1, <1>2, <2>1, OrderKept DEF Reading, StillReading
  <1>3. ASSUME NEW m, Received(m), server' # "running", UNCHANGED <<sq, cq, collectives>>,
               \A t \in Slots : StillReading(t) <=> Reading(t),
               \A t \in Slots : Reading(t) => req'[t] = req[t]
        PROVE  OrderInv'
    <2>1. Accepted' = sent
      <3>1. recv_cq' = <<>> /\ UNCHANGED sent
        BY <1>3, MessageTaken DEF TypedInv, Received, hostVars
      <3>2. QED
        BY <3>1 DEF Accepted
    <2>2. QED
      BY <1>1, <1>3, <2>1, OrderKept
  <1>4. ASSUME NEW m, recv_posted, recv_cq' = Append(recv_cq, m),
               sent' = (IF m.op > 0 THEN sent + 1 ELSE sent),
               UNCHANGED <<status, req, sq, cq, collectives, server>>
        PROVE  OrderInv'
    <2>1. recv_cq = <<>>
      BY <1>4 DEF OneMessage
    <2>2. recv_cq' # <<>> /\ Head(recv_cq') = m
      BY <1>4, <2>1, Landed
    <2>3. UNCHANGED Accepted
      BY <1>1, <1>4, <2>1, <2>2 DEF Accepted
    <2>4. QED
      BY <1>1, <1>4, <2>3, OrderKept DEF Reading, StillReading
  <1>5. CASE Serve
    <2>1. CASE PostRecv \/ PostRecvFails \/ NoMessage \/ NothingToPoll \/ MpiPending \/ PollFails
      <3>1. UNCHANGED <<status, req, sq, cq, collectives, recv_cq, sent>>
              /\ (server' = "running" => server = "running")
        BY <2>1 DEF PostRecv, PostRecvFails, NoMessage, NothingToPoll, MpiPending, PollFails, Return,
           Goto, NextSlot, At, jobVars, nicVars, recvVars, hostVars, histVars
      <3>2. QED
        BY <1>2, <3>1
    <2>2. CASE WriteOffloadFails
      <3>1. UNCHANGED <<req, sq, cq, collectives, recv_cq, sent>> /\ server' # "running"
        BY <2>2 DEF WriteOffloadFails, Return, nicVars, recvVars, hostVars, histVars
      <3>2. \A t \in Slots : StillReading(t) <=> Reading(t)
        BY <2>2 DEF WriteOffloadFails, Reading, StillReading, TypedInv, TypeOK
      <3>3. UNCHANGED Accepted
        BY <3>1 DEF Accepted
      <3>4. QED
        BY <1>1, <3>1, <3>2, <3>3, OrderKept
    <2>3. CASE ReceiveFails \/ Disconnect \/ QueueFull
      <3>1. PICK m : Received(m) /\ server' # "running" /\ UNCHANGED <<status, req, sq, cq, collectives>>
        BY <2>3 DEF ReceiveFails, Disconnect, QueueFull, Return, jobVars, nicVars, histVars
      <3>2. QED
        BY <1>3, <3>1 DEF Reading, StillReading
    <2>4. ASSUME NEW s \in Slots, ReadOffloadFails(s) PROVE OrderInv'
      <3>1. PICK m : Received(m) /\ server' # "running" /\ UNCHANGED <<sq, cq, collectives>>
                     /\ status[s] = "RS_UNALLOC" /\ status' = [status EXCEPT ![s] = "RS_FAIL"]
                     /\ req' = [req EXCEPT ![s] = m]
        BY <2>4 DEF ReadOffloadFails, AcceptRequest, FreeSlot, Return, nicVars, histVars
      <3>2. \A t \in Slots : (StillReading(t) <=> Reading(t)) /\ (Reading(t) => req'[t] = req[t])
        BY <3>1 DEF Reading, StillReading, TypedInv, TypeOK
      <3>3. QED
        BY <1>3, <3>1, <3>2
    <2>5. QED
      BY <1>5, <2>1, <2>2, <2>3, <2>4 DEF Serve
  <1>6. CASE Nic
    <2>1. CASE NicExecute \/ LinkError
      BY <1>2, <2>1 DEF NicExecute, LinkError, jobVars, recvVars, loopVars, hostVars, histVars
    <2>2. CASE FlushRecv
      <3>1. /\ recv_posted /\ recv_cq' = Append(recv_cq, Broken) /\ ~(Broken.op > 0)
            /\ UNCHANGED <<status, req, sq, cq, collectives, server, sent>>
        BY <2>2 DEF FlushRecv, Broken, jobVars, nicVars, loopVars, hostVars, histVars
      <3>2. QED
        BY <1>4, <3>1
    <2>3. QED
      BY <1>6, <2>1, <2>2 DEF Nic
  <1>7. CASE Host
    <2>1. CASE HostExit
      <3>1. /\ recv_posted /\ recv_cq' = Append(recv_cq, Goodbye) /\ ~(Goodbye.op > 0)
            /\ UNCHANGED <<status, req, sq, cq, collectives, server, sent>>
        BY <2>1 DEF HostExit, Deliver, Goodbye, jobVars, nicVars, loopVars, histVars
      <3>2. QED
        BY <1>4, <3>1
    <2>2. ASSUME NEW n \in Sizes, NEW k \in Sizes, HostRequest(n, k) PROVE OrderInv'
      <3> DEFINE m == [op |-> sent + 1, send |-> n, recv |-> k]
      <3>1. /\ recv_posted /\ recv_cq' = Append(recv_cq, m) /\ m.op > 0 /\ sent' = sent + 1
            /\ UNCHANGED <<status, req, sq, cq, collectives, server>>
        BY <1>1, <2>2 DEF HostRequest, Deliver, jobVars, nicVars, loopVars, histVars
      <3>2. QED
        BY <1>4, <3>1
    <2>3. QED
      BY <1>7, <2>1, <2>2 DEF Host
  <1>8. CASE (\E s \in Slots : MpiProgress(s)) \/ UNCHANGED vars
    BY <1>2, <1>8 DEF MpiProgress, vars, jobVars, nicVars, recvVars, loopVars, hostVars, histVars
  <1>9. QED
    BY <1>5, <1>6, <1>7, <1>8 DEF Next, Stopped

LEMMA OrderNext == TypedInv /\ OneMessage /\ OrderInv /\ [Next]_vars => OrderInv'
  BY OrderStart, OrderPolled, OrderAccept, OrderMoved, OrderWrite, OrderOther

\* Whatever slots the jobs sit in and however the queues interleave, the k-th
\* collective this rank starts is that of the k-th request of its host, so
\* that ranks whose hosts make the same calls start matching collectives.
THEOREM ServerCollectivesInOrder == Spec => []CollectivesInOrder
  <1>1. Init => OneMessage /\ OrderInv
    BY OneMessageInit, OrderInit
  <1>2. TypedInv /\ OneMessage /\ OrderInv /\ [Next]_vars => OneMessage' /\ OrderInv'
    BY OneMessageNext, OrderNext
  <1>3. OrderInv => CollectivesInOrder
    BY DEF OrderInv
  <1>4. QED
    BY <1>1, <1>2, <1>3, TypedAlways, PTL DEF Spec

-----------------------------------------------------------------------------
(* Steady service.  The host waits for each request before the next and,   *)
(* with LAZY_UNPINNING, asks for one size only.  Then at most two slots    *)
(* are taken at a time: that of the last job, which is still to be polled  *)
(* out, and that of the one before it or the one after it.  A completed    *)
(* job hands both its regions to the next, so a region is allocated only   *)
(* where no completed job is left to take from, and nothing runs out.      *)

SteadyService ==
  /\ ~Faults
  /\ HostDepth <= 1
  /\ MaxQueue >= 2
  /\ SqDepth >= 2
  /\ LazyUnpinning => MaxQueue >= 3 /\ \A n, k \in Sizes : n = k
  /\ \E a, b, c, d \in Mr : a # b /\ a # c /\ a # d /\ b # c /\ b # d /\ c # d

Busy(s)   == status[s] # "RS_UNALLOC"
Requested == recv_cq # <<>> /\ Head(recv_cq).op > 0

\* The job serves an operation whose result the host has not been given.
Undelivered(s) == status[s] \in Active /\ req[s].op \notin delivered

\* One operation is in progress at most, and it is the last one asked for.
OneOperation ==
  /\ delivered = 1 .. sent \/ delivered = 1 .. sent - 1
  /\ Requested => Head(recv_cq).op = sent /\ sent \notin delivered
  /\ \A s \in Slots : status[s] \in Active => req[s].op <= sent
  /\ \A s \in Slots : Undelivered(s) => ~Requested
  /\ \A s \in Slots : status[s] \in {"RS_READ", "RS_MPI"} => Undelivered(s)
  /\ \A s, t \in Slots : Undelivered(s) /\ Undelivered(t) => s = t

\* An RDMA read is the last thing in the queues, so that they are empty when
\* its job is in the collective; one job at most is writing back.
QueuesShort ==
  /\ \A k \in DOMAIN sq : sq[k].opcode = "READ" => k = Len(sq)
  /\ \A k \in DOMAIN cq : status[cq[k].slot] = "RS_READ" => k = Len(cq) /\ sq = <<>>
  /\ \A s \in Slots : status[s] = "RS_MPI" => sq = <<>> /\ cq = <<>>
  /\ \A s, t \in Slots : status[s] = "RS_PUT" /\ status[t] = "RS_PUT" => s = t

\* Two slots are taken at most, and each has both its regions.  Completed jobs
\* stay only with LAZY_UNPINNING.
TwoSlots ==
  /\ \A r, s, t \in Slots : Busy(r) /\ Busy(s) /\ Busy(t) => r = s \/ s = t \/ r = t
  /\ \A h \in Holder : Busy(h[1]) => mr[h] # NoMr /\ alloc[h] \in Sizes
  /\ ~LazyUnpinning => \A s \in Slots : status[s] # "RS_CPIN"

NothingFails ==
  /\ qp = "up" /\ ~purged /\ server \in {"running", "disconnected"}
  /\ \A k \in DOMAIN recv_cq : recv_cq[k] # Broken
  /\ \A k \in DOMAIN cq : cq[k].ok
  /\ \A s \in Slots : status[s] # "RS_FAIL"

SteadyInv == OneOperation /\ QueuesShort /\ TwoSlots /\ NothingFails

ServerInv == TypedInv /\ PoolInv /\ OneMessage /\ SteadyInv

LEMMA SteadyInit == Init => SteadyInv
  <1> SUFFICES ASSUME Init PROVE SteadyInv
    OBVIOUS
  <1>1. OneOperation
    <2>1. 1 .. 0 = {} /\ delivered = {} /\ sent = 0 /\ recv_cq = <<>>
      BY DEF Init
    <2>2. QED
      BY <2>1 DEF Init, OneOperation, Undelivered, Requested, Active
  <1>2. QueuesShort /\ TwoSlots /\ NothingFails
    BY DEF Init, QueuesShort, TwoSlots, NothingFails, Busy, Holder
  <1>3. QED
    BY <1>1, <1>2 DEF SteadyInv

\* The request in hand, and the jobs that are there when it is.
LEMMA InHand ==
  ASSUME ServerInv, NEW q, Received(q), q.op > 0
  PROVE  /\ q \in OffloadReq /\ q.send \in Sizes /\ q.recv \in Sizes
         /\ Requested /\ q.op = sent /\ sent \notin delivered
         /\ recv_cq' = <<>> /\ ~Requested' /\ server = "running"
         /\ UNCHANGED <<sent, delivered>>
         /\ \A t \in Slots : ~Undelivered(t) /\ status[t] \in {"RS_UNALLOC", "RS_PUT", "RS_CPIN"}
  <1>1. /\ q = Head(recv_cq) /\ recv_cq # <<>> /\ server = "running" /\ UNCHANGED <<sent, delivered>>
        /\ TypeOK /\ OneMessage
    BY DEF Received, At, hostVars, ServerInv, TypedInv
  <1>2. q \in OffloadReq /\ recv_cq' = <<>>
    BY <1>1, MessageTyped, MessageTaken
  <1>3. Requested /\ ~Requested' /\ q.op = sent /\ sent \notin delivered
    BY <1>1, <1>2 DEF Requested, ServerInv, SteadyInv, OneOperation
  <1>4. \A t \in Slots : ~Undelivered(t) /\ status[t] \in {"RS_UNALLOC", "RS_PUT", "RS_CPIN"}
    BY <1>1, <1>3 DEF ServerInv, SteadyInv, OneOperation, NothingFails, TypeOK, ReqCode
  <1>5. QED
    BY <1>1, <1>2, <1>3, <1>4 DEF OffloadReq

\* Two slots can be compared: of the completed jobs, one has the lowest slot.
LEMMA LowestCompleted ==
  ASSUME TwoSlots, NEW c \in Slots, status[c] = "RS_CPIN"
  PROVE  \E p \in Slots : /\ status[p] = "RS_CPIN"
                          /\ \A t \in Slots : status[t] = "RS_CPIN" => p <= t
  <1>1. CASE \A t \in Slots : status[t] = "RS_CPIN" => c <= t
    BY <1>1
  <1>2. CASE ~ \A t \in Slots : status[t] = "RS_CPIN" => c <= t
    <2>1. PICK p \in Slots : status[p] = "RS_CPIN" /\ ~(c <= p)
      BY <1>2
    <2>2. p <= p /\ p <= c /\ p # c
      BY <2>1 DEF Slots
    <2>3. \A t \in Slots : status[t] = "RS_CPIN" => t = p \/ t = c
      BY <2>1, <2>2 DEF TwoSlots, Busy
    <2>4. QED
      BY <2>1, <2>2, <2>3
  <1>3. QED
    BY <1>1, <1>2

\* Where a job has completed, the next takes both regions of one such job.
LEMMA BothRegions ==
  ASSUME ServerInv, SteadyService, NEW q, q \in OffloadReq,
         NEW p \in Slots, status[p] = "RS_CPIN",
         \A t \in Slots : status[t] = "RS_CPIN" => p <= t
  PROVE  /\ Reusable(q, <<p, "send">>, <<p, "recv">>)
         /\ \A g, h \in Holder : Reusable(q, g, h) => g = <<p, "send">> /\ h = <<p, "recv">>
  <1> DEFINE ps == <<p, "send">> pr == <<p, "recv">>
             Last == {x \in Holder : status[x[1]] = "RS_CPIN"}
  <1>1. /\ ps \in Last /\ pr \in Last /\ ps # pr /\ ps[1] = p /\ pr[1] = p
        /\ ps[2] = "send" /\ pr[2] = "recv"
    BY Sides
  <1>2. \A x \in Holder : x[1] \in Slots /\ x = <<x[1], x[2]>> /\ x[2] \in Side
    BY DEF Holder
  <1>3. \A x \in Last : mr[x] # NoMr /\ alloc[x] \in Sizes /\ mr[<<x[1], "send">>] # NoMr
    <2>1. \A x \in Last : x[1] \in Slots /\ Busy(x[1]) /\ <<x[1], "send">> \in Holder
      BY <1>2, Sides DEF Busy
    <2>2. QED
      BY <2>1 DEF ServerInv, SteadyInv, TwoSlots, Busy
  <1>4. \A x \in Last : alloc[x] = q.send /\ alloc[x] = q.recv /\ alloc[x] \in Int
    <2>1. q.send \in Sizes /\ q.recv \in Sizes
      BY DEF OffloadReq
    <2>2. \A x \in Last : alloc[x] = q.send /\ alloc[x] = q.recv
      <3>1. LazyUnpinning
        BY DEF ServerInv, SteadyInv, TwoSlots
      <3>2. QED
        BY <1>3, <2>1, <3>1 DEF SteadyService
    <2>3. Sizes \subseteq Int
      BY ServerAssumption
    <2>4. \A x \in Last : alloc[x] \in Int
      <3> HIDE DEF Last
      <3>1. QED
        BY <1>3, <2>3
    <2>5. QED
      BY <2>2, <2>4
  <1>5. SendFits(q.send) = Last
    <2>1. \A x \in Last : mr[x] # NoMr /\ alloc[x] >= q.send
      <3> TAKE x \in Last
      <3>1. mr[x] # NoMr /\ alloc[x] = q.send /\ alloc[x] \in Int
        BY <1>3, <1>4
      <3> HIDE DEF Last
      <3>2. alloc[x] >= alloc[x]
        BY <3>1
      <3>3. QED
        BY <3>1, <3>2
    <2>2. QED
      BY <2>1 DEF SendFits
  <1>6. \A x, y \in Last : mr[x] = mr[y] => x = y
    BY <1>3 DEF ServerInv, PoolInv, RegionsExclusive, SteadyInv, NothingFails
  <1>7. \A g \in Last : RecvFits(q.recv, mr[g]) = Last \ {g}
    BY <1>3, <1>4, <1>6 DEF RecvFits
  <1>8. \A x \in Last : p <= x[1] /\ x[1] \in Int /\ p \in Int
    BY <1>2 DEF Slots
  <1>9. \A x \in Last : x # ps => Before(ps, x)
    BY <1>1, <1>4, <1>8 DEF Before
  <1>10. \A x \in Last : x # ps /\ x # pr => Before(pr, x)
    <2>1. \A x \in Last : x # ps /\ x # pr => x[1] # p
      BY <1>2 DEF Side
    <2>2. QED
      BY <1>1, <1>4, <1>8, <2>1 DEF Before
  <1>11. \A x \in Last : x # ps => ~Before(x, ps)
    <2>1. \A x \in Last : x[1] = p /\ x[2] = "send" => x = ps
      BY <1>2
    <2>2. QED
      BY <1>1, <1>4, <1>8, <2>1 DEF Before
  <1>12. \A x \in Last : x # ps /\ x # pr => ~Before(x, pr)
    <2>1. \A x \in Last : x # ps /\ x # pr => x[1] # p
      BY <1>2 DEF Side
    <2>2. QED
      BY <1>1, <1>4, <1>8, <2>1 DEF Before
  <1>13. Reusable(q, ps, pr)
    BY <1>1, <1>3, <1>5, <1>7, <1>9, <1>10 DEF Reusable, IsFirst
  <1>14. ASSUME NEW g \in Holder, NEW h \in Holder, Reusable(q, g, h) PROVE g = ps /\ h = pr
    <2>1. g \in Last /\ \A x \in Last \ {g} : Before(g, x)
      BY <1>5, <1>14 DEF Reusable, IsFirst
    <2>2. g = ps
      BY <1>1, <1>11, <2>1
    <2>3. h \in Last \ {ps} /\ \A x \in Last \ {ps, h} : Before(h, x)
      BY <1>7, <1>14, <2>1, <2>2 DEF Reusable, IsFirst
    <2>4. h = pr
      BY <1>1, <1>12, <2>3
    <2>5. QED
      BY <2>2, <2>4
  <1>15. QED
    BY <1>13, <1>14

\* Where none has, at most one slot is taken, by a job that is writing back,
\* and the registered regions are its own.
LEMMA OneWriting ==
  ASSUME ServerInv, NEW q, Received(q), q.op > 0,
         \A t \in Slots : status[t] # "RS_CPIN"
  PROVE  /\ Completed = {} /\ Freed({}) = {}
         /\ \A t \in Slots : Busy(t) => status[t] = "RS_PUT"
         /\ \E a, b : pinned \subseteq {a, b}
  <1>1. \A t \in Slots : status[t] \in {"RS_UNALLOC", "RS_PUT"}
    BY InHand
  <1>2. Completed = {} /\ Freed({}) = {}
    BY <1>1 DEF Completed, Freed, Holder
  <1>3. \A m \in pinned : \E x \in Holder : mr[x] = m /\ status[x[1]] = "RS_PUT"
    <2>1. \A x \in Holder : x[1] \in Slots
      BY DEF Holder
    <2>2. \A m \in pinned : m # NoMr /\ \E x \in Holder : mr[x] = m
      BY ServerAssumption DEF ServerInv, PoolInv, NoRegionLost, TypedInv, TypeOK
    <2>3. QED
      BY <1>1, <2>1, <2>2 DEF ServerInv, PoolInv, FreeSlotsEmpty
  <1>4. \E a, b : pinned \subseteq {a, b}
    <2>1. CASE \E p \in Slots : status[p] = "RS_PUT"
      <3>1. PICK p \in Slots : status[p] = "RS_PUT"
        BY <2>1
      <3>2. \A x \in Holder : status[x[1]] = "RS_PUT" => x \in {<<p, "send">>, <<p, "recv">>}
        BY <3>1 DEF Holder, Side, ServerInv, SteadyInv, QueuesShort
      <3>3. pinned \subseteq {mr[<<p, "send">>], mr[<<p, "recv">>]}
        BY <1>3, <3>2
      <3>4. QED
        BY <3>3
    <2>2. CASE ~ \E p \in Slots : status[p] = "RS_PUT"
      <3>1. pinned \subseteq {0, 0}
        BY <1>3, <2>2 DEF Holder
      <3>2. QED
        BY <3>1
    <2>3. QED
      BY <2>1, <2>2
  <1>5. QED
    BY <1>1, <1>2, <1>4 DEF Busy

\* While a request is in hand the queues hold one work request at most.
LEMMA RoomForRequest ==
  ASSUME ServerInv, SteadyService, NEW q, Received(q), q.op > 0
  PROVE  Room
  <1>1. /\ sq \in Seq(WorkRequest) /\ cq \in Seq(Completion)
        /\ CompletionsMatchJobs
    BY DEF ServerInv, TypedInv, TypeOK
  <1>2. /\ Len(sq) \in Nat /\ DOMAIN sq = 1 .. Len(sq) /\ Len(cq) \in Nat /\ DOMAIN cq = 1 .. Len(cq)
        /\ \A k \in DOMAIN sq : sq[k].slot \in Slots
        /\ \A k \in DOMAIN cq : cq[k].slot \in Slots
    BY <1>1, LenProperties, QueuesTyped DEF ServerInv, TypedInv, WorkRequest, Completion
  <1>3. \A t \in Slots : status[t] # "RS_READ"
    BY InHand
  <1>4. /\ \A k \in DOMAIN sq : status[sq[k].slot] = "RS_PUT"
        /\ \A k \in DOMAIN cq : status[cq[k].slot] = "RS_PUT"
    BY <1>1, <1>2, <1>3 DEF CompletionsMatchJobs
  <1>5. \A s, t \in Slots : status[s] = "RS_PUT" /\ status[t] = "RS_PUT" => s = t
    BY DEF ServerInv, SteadyInv, QueuesShort
  <1>6. /\ \A j, k \in DOMAIN sq : j = k
        /\ \A j, k \in DOMAIN cq : j = k
        /\ \A j \in DOMAIN sq, k \in DOMAIN cq : FALSE
    BY <1>1, <1>2, <1>4, <1>5 DEF CompletionsMatchJobs
  <1>7. Len(sq) <= 1 /\ Len(cq) <= 1 /\ (Len(sq) = 0 \/ Len(cq) = 0)
    <2>1. Len(sq) <= 1
      <3>1. Len(sq) >= 2 => 1 \in DOMAIN sq /\ 2 \in DOMAIN sq
        BY <1>2
      <3>2. QED
        BY <1>2, <1>6, <3>1
    <2>2. Len(cq) <= 1
      <3>1. Len(cq) >= 2 => 1 \in DOMAIN cq /\ 2 \in DOMAIN cq
        BY <1>2
      <3>2. QED
        BY <1>2, <1>6, <3>1
    <2>3. Len(sq) = 0 \/ Len(cq) = 0
      <3>1. Len(sq) # 0 /\ Len(cq) # 0 => 1 \in DOMAIN sq /\ 1 \in DOMAIN cq
        BY <1>2
      <3>2. QED
        BY <1>6, <3>1
    <2>4. QED
      BY <2>1, <2>2, <2>3
  <1>8. QED
    BY <1>2, <1>7, ServerAssumption DEF Room, SteadyService

\* What reading or writing back a job needs is there when it is needed.
LEMMA RequestAccepted ==
  ASSUME ServerInv, SteadyService, NEW q, Received(q), q.op > 0
  PROVE  /\ ~ QueueFull
         /\ ~ \E s \in Slots : ReadOffloadFails(s)
  <1>1. q = Head(recv_cq) /\ q \in OffloadReq
    BY InHand DEF Received
  <1>2. ~QueueFull
    <2>1. 0 \in Slots /\ 1 \in Slots
      BY ServerAssumption DEF Slots, SteadyService
    <2>2. CASE LazyUnpinning
      <3>1. 2 \in Slots
        BY <2>2, ServerAssumption DEF Slots, SteadyService
      <3>2. ~ (Busy(0) /\ Busy(1) /\ Busy(2))
        BY <2>1, <3>1 DEF ServerInv, SteadyInv, TwoSlots
      <3>3. QED
        BY <2>1, <3>1, <3>2 DEF QueueFull, Busy
    <2>3. CASE ~LazyUnpinning
      <3>1. \A t \in Slots : Busy(t) => status[t] = "RS_PUT"
        BY <2>3, OneWriting DEF ServerInv, SteadyInv, TwoSlots
      <3>2. ~ (Busy(0) /\ Busy(1))
        BY <2>1, <3>1 DEF ServerInv, SteadyInv, QueuesShort
      <3>3. QED
        BY <2>1, <3>2 DEF QueueFull, Busy
    <2>4. QED
      BY <2>2, <2>3
  <1>3. ASSUME NEW s \in Slots, ReadOffloadFails(s) PROVE FALSE
    <2>1. Room /\ ~Faults
      BY RoomForRequest DEF SteadyService
    <2>2. /\ ~ \E g, h \in Holder : Reusable(q, g, h)
          /\ \/ ~ \E a, b \in Mr \ (pinned \ Freed(Completed)) : a # b
             \/ ~ Freed(Completed) \subseteq pinned
      BY <1>1, <1>3, <2>1 DEF ReadOffloadFails
    <2>3. \A c \in Slots : status[c] # "RS_CPIN"
      <3> SUFFICES ASSUME NEW c \in Slots, status[c] = "RS_CPIN" PROVE FALSE
        OBVIOUS
      <3>1. PICK p \in Slots : /\ status[p] = "RS_CPIN"
                               /\ \A t \in Slots : status[t] = "RS_CPIN" => p <= t
        BY LowestCompleted DEF ServerInv, SteadyInv
      <3>2. Reusable(q, <<p, "send">>, <<p, "recv">>)
        BY <1>1, <3>1, BothRegions
      <3>3. QED
        BY <2>2, <3>2, Sides
    <2>4. Freed(Completed) = {} /\ \E a, b : pinned \subseteq {a, b}
      BY <2>3, OneWriting
    <2>5. \E a, b \in Mr \ pinned : a # b
      BY <2>4 DEF SteadyService
    <2>6. QED
      BY <2>2, <2>4, <2>5
  <1>4. QED
    BY <1>2, <1>3

LEMMA ResultWritten ==
  ASSUME ServerInv, SteadyService, Tested, status[cur] = "RS_MPI"
  PROVE  /\ cur \in Slots /\ sq = <<>> /\ cq = <<>> /\ Room /\ server = "running"
         /\ \A t \in Slots : status[t] # "RS_PUT"
         /\ \A t \in Slots : status[t] = "RS_MPI" => t = cur
  <1>1. cur \in Slots /\ sq = <<>> /\ cq = <<>> /\ server = "running"
    BY DEF ServerInv, TypedInv, TypeOK, SteadyInv, QueuesShort, Tested, At
  <1>2. Room
    BY <1>1, ServerAssumption DEF Room, SteadyService
  <1>3. \A t \in Slots : status[t] # "RS_PUT"
    BY <1>1 DEF ServerInv, TypedInv, CompletionsMatchJobs
  <1>4. \A t \in Slots : status[t] = "RS_MPI" => t = cur
    BY <1>1 DEF ServerInv, SteadyInv, OneOperation
  <1>5. QED
    BY <1>1, <1>2, <1>3, <1>4

\* None of the failures can happen.
LEMMA NoFailure ==
  ASSUME ServerInv, SteadyService
  PROVE  /\ ~PostRecvFails /\ ~ReceiveFails /\ ~QueueFull /\ ~PollFails
         /\ ~ \E s \in Slots : ReadOffloadFails(s)
         /\ ~AdvanceFails /\ ~WriteOffloadFails
         /\ ~LinkError /\ ~FlushSend /\ ~FlushRecv
  <1>1. ~Faults /\ qp = "up" /\ TypeOK
    BY DEF SteadyService, ServerInv, SteadyInv, NothingFails, TypedInv
  <1>2. ~PostRecvFails /\ ~PollFails /\ ~FlushSend /\ ~FlushRecv
    BY <1>1 DEF PostRecvFails, PollFails, FlushSend, FlushRecv
  <1>3. ~ReceiveFails
    <2> SUFFICES ASSUME ReceiveFails PROVE FALSE
      OBVIOUS
    <2>1. Head(recv_cq) = Broken /\ recv_cq # <<>>
      BY <1>1 DEF ReceiveFails, Received
    <2>2. Head(recv_cq) = recv_cq[1] /\ 1 \in DOMAIN recv_cq
      BY <1>1, <2>1, QueueTail DEF TypeOK
    <2>3. QED
      BY <2>1, <2>2 DEF ServerInv, SteadyInv, NothingFails
  <1>4. ~QueueFull
    BY RequestAccepted DEF QueueFull
  <1>5. ~ \E s \in Slots : ReadOffloadFails(s)
    BY RequestAccepted DEF ReadOffloadFails, AcceptRequest
  <1>6. ~AdvanceFails
    <2> SUFFICES ASSUME AdvanceFails PROVE FALSE
      OBVIOUS
    <2> DEFINE c == Head(cq) s == JobOf(c)
    <2>1. /\ cq # <<>>
          /\ ~c.ok \/ status[s] \notin {"RS_READ", "RS_PUT"}
      BY <1>1 DEF AdvanceFails, CollectiveFails, UnpinningFails, Polled
    <2>2. c = cq[1] /\ 1 \in DOMAIN cq
      BY <1>1, <2>1, QueueTail DEF TypeOK
    <2>3. c.ok /\ status[s] \in {"RS_READ", "RS_PUT"}
      BY <2>2 DEF ServerInv, SteadyInv, NothingFails, TypedInv, CompletionsMatchJobs, JobOf
    <2>4. QED
      BY <1>1, <2>1, <2>3
  <1>7. ~WriteOffloadFails
    BY <1>1, ResultWritten DEF WriteOffloadFails
  <1>8. ~LinkError
    <2> SUFFICES ASSUME NEW k \in DOMAIN sq PROVE Local(sq[k]) \in pinned
      BY <1>1 DEF LinkError
    <2>1. sq[k].slot \in Slots /\ status[sq[k].slot] \in Active
      BY QueuesTyped DEF ServerInv, TypedInv, CompletionsMatchJobs, WorkRequest, Active
    <2>2. <<sq[k].slot, "send">> \in Holder /\ <<sq[k].slot, "recv">> \in Holder
      BY <2>1, Sides
    <2>3. mr[<<sq[k].slot, "send">>] \in pinned /\ mr[<<sq[k].slot, "recv">>] \in pinned
      BY <2>1, <2>2 DEF ServerInv, PoolInv, ActiveRegionsPinned, SteadyInv, NothingFails
    <2>4. QED
      BY <2>3 DEF Local
  <1>9. QED
    BY <1>2, <1>3, <1>4, <1>5, <1>6, <1>7, <1>8

\* The steps that change neither the jobs nor the queues.
LEMMA SteadyQuiet ==
  ASSUME SteadyInv,
         \/ UNCHANGED vars \/ PostRecv \/ NoMessage \/ NothingToPoll \/ MpiPending
         \/ \E s \in Slots : MpiProgress(s)
  PROVE  SteadyInv'
  <1>1. UNCHANGED <<status, req, mr, alloc, sq, cq, qp, recv_cq, sent, delivered, purged, server>>
    BY DEF PostRecv, NoMessage, NothingToPoll, MpiPending, MpiProgress, At, NextSlot, Goto,
       vars, jobVars, poolVars, nicVars, recvVars, loopVars, hostVars, histVars
  <1>2. OneOperation'
    BY <1>1 DEF SteadyInv, OneOperation, Undelivered, Requested
  <1>3. QueuesShort' /\ TwoSlots' /\ NothingFails'
    BY <1>1 DEF SteadyInv, QueuesShort, TwoSlots, NothingFails, Busy
  <1>4. QED
    BY <1>2, <1>3 DEF SteadyInv

\* The host asks for the next operation only when the last is complete.
LEMMA SteadyRequest ==
  ASSUME ServerInv, SteadyService, NEW n \in Sizes, NEW k \in Sizes, HostRequest(n, k)
  PROVE  SteadyInv'
  <1> DEFINE m == [op |-> sent + 1, send |-> n, recv |-> k]
  <1>1. /\ sent \in Nat /\ sent' = sent + 1 /\ recv_cq = <<>> /\ recv_cq' = Append(recv_cq, m)
        /\ UNCHANGED <<status, req, mr, alloc, sq, cq, qp, delivered, purged, server>>
    BY ServerAssumption DEF HostRequest, Deliver, ServerInv, TypedInv, TypeOK, OneMessage,
       jobVars, nicVars, poolVars, loopVars, histVars
  <1>2. delivered = 1 .. sent
    <2>1. Cardinality(1 .. sent - 1) = (IF 1 > sent - 1 THEN 0 ELSE sent - 1)
      BY <1>1, FS_Interval
    <2>2. sent - Cardinality(delivered) < 1
      <3>1. IsFiniteSet(delivered)
        BY <1>1, FS_Interval DEF ServerInv, SteadyInv, OneOperation
      <3>2. Cardinality(delivered) \in Nat
        BY <3>1, FS_CardinalityType
      <3>3. QED
        BY <1>1, <3>2, ServerAssumption DEF HostRequest, SteadyService
    <2>3. CASE delivered = 1 .. sent - 1
      <3>1. sent = 0
        BY <1>1, <2>1, <2>2, <2>3
      <3>2. QED
        BY <2>3, <3>1
    <2>4. QED
      BY <2>3 DEF ServerInv, SteadyInv, OneOperation
  <1>3. /\ recv_cq' # <<>> /\ Head(recv_cq') = m /\ Len(recv_cq') = 1
        /\ DOMAIN recv_cq' = {1} /\ recv_cq'[1] = m
    <2>1. Append(<<>>, m) = <<m>>
      OBVIOUS
    <2>2. /\ <<m>> # <<>> /\ Head(<<m>>) = m /\ Len(<<m>>) = 1
          /\ DOMAIN <<m>> = {1} /\ <<m>>[1] = m
      OBVIOUS
    <2>3. QED
      BY <1>1, <2>1, <2>2
  <1>4. \A s \in Slots : status[s] \in Active => req[s].op \in 1 .. sent
    <2>1. \A s \in Slots : status[s] \in Active => req[s].op \in 1 .. MaxOp /\ req[s].op <= sent
      BY DEF ServerInv, TypedInv, ActiveRequests, OffloadReq, SteadyInv, OneOperation
    <2>2. QED
      BY <1>1, <2>1
  <1>5. \A s \in Slots : ~Undelivered(s)
    BY <1>2, <1>4 DEF Undelivered
  <1>6. OneOperation'
    <2>1. delivered' = 1 .. sent' - 1 /\ sent' \notin delivered'
      BY <1>1, <1>2
    <2>2. \A s \in Slots : ~Undelivered(s)'
      BY <1>1, <1>5 DEF Undelivered
    <2>3. \A s \in Slots : status'[s] \notin {"RS_READ", "RS_MPI"}
      BY <1>1, <1>5 DEF ServerInv, SteadyInv, OneOperation
    <2>4. \A s \in Slots : status'[s] \in Active => req'[s].op <= sent'
      BY <1>1, <1>4
    <2>5. Head(recv_cq').op = sent'
      BY <1>1, <1>3
    <2>6. QED
      BY <2>1, <2>2, <2>3, <2>4, <2>5 DEF OneOperation, Undelivered
  <1>7. QueuesShort' /\ TwoSlots'
    BY <1>1 DEF ServerInv, SteadyInv, QueuesShort, TwoSlots, Busy
  <1>8. NothingFails'
    <2>1. m # Broken
      <3>1. m.op = sent + 1 /\ Broken.op = -1
        BY DEF Broken
      <3>2. QED
        BY <1>1, <3>1
    <2>2. QED
      BY <1>1, <1>3, <2>1 DEF ServerInv, SteadyInv, NothingFails
  <1>9. QED
    BY <1>6, <1>7, <1>8 DEF SteadyInv

\* The goodbye of the host arrives, and the server leaves its loop.
LEMMA SteadyGoodbye ==
  ASSUME ServerInv, HostExit \/ Disconnect
  PROVE  SteadyInv'
  <1>1. /\ UNCHANGED <<status, req, mr, alloc, sq, cq, qp, sent, delivered, purged>>
        /\ server' \in {"running", "disconnected"}
    BY DEF HostExit, Deliver, Disconnect, Received, Return, ServerInv, SteadyInv, NothingFails,
       jobVars, nicVars, poolVars, loopVars, hostVars, histVars
  <1>2. /\ Requested' => FALSE
        /\ \A k \in DOMAIN recv_cq' : recv_cq'[k] # Broken
    <2>1. CASE HostExit
      <3>1. recv_cq = <<>> /\ recv_cq' = Append(recv_cq, Goodbye)
        BY <2>1 DEF HostExit, Deliver, ServerInv, OneMessage
      <3>2. Append(<<>>, Goodbye) = <<Goodbye>>
        OBVIOUS
      <3>3. Head(<<Goodbye>>) = Goodbye /\ DOMAIN <<Goodbye>> = {1} /\ <<Goodbye>>[1] = Goodbye
        OBVIOUS
      <3>4. Goodbye.op = 0 /\ Broken.op = -1
        BY DEF Goodbye, Broken
      <3>5. QED
        BY <3>1, <3>2, <3>3, <3>4 DEF Requested
    <2>2. CASE Disconnect
      <3>1. recv_cq' = <<>>
        BY <2>2, MessageTaken DEF Disconnect, ServerInv, TypedInv
      <3>2. QED
        BY <3>1 DEF Requested
    <2>3. QED
      BY <2>1, <2>2
  <1>3. OneOperation'
    BY <1>1, <1>2 DEF ServerInv, SteadyInv, OneOperation, Undelivered
  <1>4. QueuesShort' /\ TwoSlots' /\ NothingFails'
    BY <1>1, <1>2 DEF ServerInv, SteadyInv, QueuesShort, TwoSlots, NothingFails, Busy
  <1>5. QED
    BY <1>3, <1>4 DEF SteadyInv

\* What accepting a request in slot s does: slot s is taken, and at most one
\* other slot stays taken.
LEMMA SteadyAccepted ==
  ASSUME ServerInv, SteadyService, NEW s \in Slots, NEW q, AcceptRequest(s, q), Post(s, "READ"),
         status'[s] = "RS_READ", UNCHANGED server, ~purged',
         \A t \in Slots \ {s} : status'[t] # status[t] => status[t] = "RS_CPIN" /\ status'[t] = "RS_UNALLOC",
         \A t, u \in Slots \ {s} :
           status'[t] # "RS_UNALLOC" /\ status'[u] # "RS_UNALLOC" => t = u,
         \A h \in Holder : status'[h[1]] # "RS_UNALLOC" => mr'[h] # NoMr /\ alloc'[h] \in Sizes
  PROVE  SteadyInv'
  <1>1. /\ Received(q) /\ q.op > 0 /\ status[s] = "RS_UNALLOC"
        /\ req'[s] = q /\ \A t \in Slots \ {s} : req'[t] = req[t]
    BY DEF AcceptRequest, FreeSlot, ServerInv, TypedInv, TypeOK
  <1>2. /\ q.op = sent /\ sent \notin delivered /\ recv_cq' = <<>> /\ ~Requested'
        /\ UNCHANGED <<sent, delivered>>
        /\ \A t \in Slots : ~Undelivered(t) /\ status[t] \in {"RS_UNALLOC", "RS_PUT", "RS_CPIN"}
    BY <1>1, InHand
  <1>3. OneOperation'
    <2>1. \A t \in Slots \ {s} : /\ status'[t] \in Active => status[t] \in Active
                                 /\ status'[t] \notin {"RS_READ", "RS_MPI"}
                                 /\ status'[t] \in Active => req'[t].op \in delivered'
      BY <1>1, <1>2 DEF Undelivered, Active
    <2>2. \A t \in Slots : status'[t] \in Active => req'[t].op <= sent'
      <3>1. \A t \in Slots \ {s} : status'[t] \in Active => req'[t].op <= sent'
        BY <1>1, <1>2, <2>1 DEF ServerInv, SteadyInv, OneOperation
      <3>2. req'[s].op <= sent'
        <4>1. sent \in Int
          BY DEF ServerInv, TypedInv, TypeOK
        <4>2. QED
          BY <1>1, <1>2, <4>1
      <3>3. QED
        BY <3>1, <3>2
    <2>3. \A t \in Slots : status'[t] \in {"RS_READ", "RS_MPI"} =>
             status'[t] \in Active /\ req'[t].op \notin delivered'
      BY <1>1, <1>2, <2>1 DEF Active
    <2>4. \A t \in Slots : status'[t] \in Active /\ req'[t].op \notin delivered' => t = s
      BY <2>1
    <2>5. delivered' = 1 .. sent' \/ delivered' = 1 .. sent' - 1
      BY <1>2 DEF ServerInv, SteadyInv, OneOperation
    <2>6. QED
      BY <1>2, <2>2, <2>3, <2>4, <2>5 DEF OneOperation, Undelivered, Requested
  <1>4. /\ sq \in Seq(WorkRequest) /\ sq' = Append(sq, [slot |-> s, opcode |-> "READ"]) /\ UNCHANGED <<cq, qp>>
    BY DEF Post, ServerInv, TypedInv, TypeOK
  <1>5. /\ DOMAIN sq' = 1 .. Len(sq) + 1 /\ Len(sq') = Len(sq) + 1 /\ Len(sq) \in Nat
        /\ DOMAIN sq = 1 .. Len(sq) /\ \A k \in 1 .. Len(sq) : sq'[k] = sq[k]
    <2>1. [slot |-> s, opcode |-> "READ"] \in WorkRequest
      BY DEF WorkRequest
    <2>2. QED
      BY <1>4, <2>1, QueueAppend
  <1>6. /\ \A k \in DOMAIN sq : sq[k].opcode # "READ"
        /\ \A k \in DOMAIN cq : cq[k].slot \in Slots \ {s}
    <2>1. /\ \A k \in DOMAIN sq : sq[k].slot \in Slots
          /\ \A k \in DOMAIN cq : cq[k].slot \in Slots
      BY QueuesTyped DEF ServerInv, TypedInv, WorkRequest, Completion
    <2>2. QED
      BY <1>1, <1>2, <2>1 DEF ServerInv, TypedInv, CompletionsMatchJobs
  <1>7. QueuesShort'
    <2>1. \A k \in DOMAIN sq' : sq'[k].opcode = "READ" => k = Len(sq')
      BY <1>5, <1>6
    <2>2. \A t \in Slots \ {s} : status'[t] \notin {"RS_READ", "RS_MPI"}
      BY <1>2
    <2>3. \A k \in DOMAIN cq' : status'[cq'[k].slot] # "RS_READ"
      BY <1>4, <1>6, <2>2
    <2>4. QED
      BY <2>1, <2>2, <2>3 DEF QueuesShort
  <1>8. TwoSlots'
    <2>1. \A t \in Slots : status'[t] = "RS_CPIN" => status[t] = "RS_CPIN"
      BY <1>1
    <2>2. ~LazyUnpinning => \A t \in Slots : status'[t] # "RS_CPIN"
      BY <2>1 DEF ServerInv, SteadyInv, TwoSlots
    <2>3. QED
      BY <2>2 DEF TwoSlots, Busy
  <1>9. NothingFails'
    <2>1. \A t \in Slots : status'[t] # "RS_FAIL"
      BY <1>2
    <2>2. QED
      BY <1>2, <1>4, <2>1 DEF ServerInv, SteadyInv, NothingFails
  <1>10. QED
    BY <1>3, <1>7, <1>8, <1>9 DEF SteadyInv

LEMMA SteadyReuse ==
  ASSUME ServerInv, SteadyService, NEW s \in Slots, NEW g \in Holder, NEW h \in Holder,
         AcceptWithReuse(s, g, h)
  PROVE  SteadyInv'
  <1> DEFINE q == Head(recv_cq)
  <1>1. /\ AcceptRequest(s, q) /\ Reusable(q, g, h) /\ Reuse(s, g, h) /\ Post(s, "READ")
        /\ UNCHANGED <<server, purged>> /\ TypeOK /\ FreeSlot(s)
        /\ Received(q) /\ q.op > 0
    BY DEF AcceptWithReuse, AcceptRequest, Reuse, Goto, ServerInv, TypedInv
  <1>2. /\ status[s] = "RS_UNALLOC" /\ status'[s] = "RS_READ"
        /\ g[1] \in Slots \ {s} /\ h[1] \in Slots \ {s} /\ status[g[1]] = "RS_CPIN"
        /\ \A t \in Slots \ {s} :
             status'[t] # status[t] => status[t] = "RS_CPIN" /\ status'[t] = "RS_UNALLOC"
    BY <1>1, ReuseStatus
  <1>3. q \in OffloadReq
    BY <1>1, InHand
  <1>4. PICK p \in Slots : /\ status[p] = "RS_CPIN"
                           /\ \A t \in Slots : status[t] = "RS_CPIN" => p <= t
    BY <1>2, LowestCompleted DEF ServerInv, SteadyInv
  <1>5. g = <<p, "send">> /\ h = <<p, "recv">>
    BY <1>1, <1>3, <1>4, BothRegions
  <1>6. p # s /\ status'[p] = "RS_UNALLOC"
    <2>1. p \in Emptied(g, h)
      <3>1. \A d \in Side : <<p, d>> \in Holder /\ <<p, d>> \in {g, h}
        BY <1>4, <1>5 DEF Side, Holder
      <3>2. QED
        BY <1>5, <3>1 DEF Emptied, Rest
    <2>2. QED
      BY <1>1, <1>2, <1>4, <2>1 DEF Reuse
  <1>7. ASSUME NEW t \in Slots \ {s}, NEW u \in Slots \ {s},
               status'[t] # "RS_UNALLOC", status'[u] # "RS_UNALLOC"
        PROVE  t = u
    <2>1. status[t] # "RS_UNALLOC" /\ status[u] # "RS_UNALLOC" /\ t # p /\ u # p
      BY <1>2, <1>6, <1>7
    <2>2. QED
      BY <1>4, <2>1 DEF ServerInv, SteadyInv, TwoSlots, Busy
  <1>8. ASSUME NEW x \in Holder, status'[x[1]] # "RS_UNALLOC"
        PROVE  mr'[x] # NoMr /\ alloc'[x] \in Sizes
    <2>1. x[1] \in Slots /\ g \notin {<<s, "send">>, <<s, "recv">>} /\ h \notin {<<s, "send">>, <<s, "recv">>}
      BY <1>5, <1>6 DEF Holder
    <2>2. mr[g] # NoMr /\ alloc[g] \in Sizes /\ mr[h] # NoMr /\ alloc[h] \in Sizes
      BY <1>4, <1>5, Sides DEF ServerInv, SteadyInv, TwoSlots, Busy
    <2>3. CASE x[1] = s
      <3>1. x = <<s, "send">> \/ x = <<s, "recv">>
        BY <2>3, Sides
      <3>2. mr'[<<s, "send">>] = mr[g] /\ mr'[<<s, "recv">>] = mr[h]
        BY <1>1, Sides DEF Reuse, Rest
      <3>3. alloc'[<<s, "send">>] = alloc[g] /\ alloc'[<<s, "recv">>] = alloc[h]
        BY <1>1, Sides DEF Reuse
      <3>4. QED
        BY <2>2, <3>1, <3>2, <3>3
    <2>4. CASE x[1] # s
      <3>1. x \notin {<<s, "send">>, <<s, "recv">>, g, h}
        BY <1>5, <1>6, <1>8, <2>4
      <3>2. mr'[x] = mr[x]
        BY <1>1, <3>1, Sides DEF Reuse, Rest
      <3>3. alloc'[x] = alloc[x]
        BY <1>1, <3>1, Sides DEF Reuse
      <3>4. Busy(x[1])
        BY <1>2, <1>8, <2>1, <2>4 DEF Busy
      <3>5. QED
        BY <3>2, <3>3, <3>4 DEF ServerInv, SteadyInv, TwoSlots
    <2>5. QED
      BY <2>3, <2>4
  <1>9. ~purged'
    BY <1>1 DEF ServerInv, SteadyInv, NothingFails
  <1>10. QED
    BY <1>1, <1>2, <1>7, <1>8, <1>9, SteadyAccepted

LEMMA SteadyAllocation ==
  ASSUME ServerInv, SteadyService, NEW s \in Slots, NEW a \in Mr, NEW b \in Mr,
         AcceptWithAllocation(s, a, b)
  PROVE  SteadyInv'
  <1> DEFINE q == Head(recv_cq)
  <1>1. PICK S \in Purges :
          /\ AcceptRequest(s, q) /\ Allocate(s, q, a, b, S) /\ Post(s, "READ")
          /\ ~ \E g, h \in Holder : Reusable(q, g, h)
          /\ UNCHANGED server /\ TypeOK /\ FreeSlot(s) /\ Received(q) /\ q.op > 0
    BY DEF AcceptWithAllocation, AcceptRequest, Goto, ServerInv, TypedInv
  <1>2. /\ status[s] = "RS_UNALLOC" /\ status'[s] = "RS_READ"
        /\ \A t \in Slots \ {s} : status'[t] = status[t]
    BY <1>1 DEF FreeSlot, Allocate, TypeOK
  <1>3. q \in OffloadReq /\ q.send \in Sizes /\ q.recv \in Sizes
    BY <1>1, InHand
  <1>4. \A c \in Slots : status[c] # "RS_CPIN"
    <2> SUFFICES ASSUME NEW c \in Slots, status[c] = "RS_CPIN" PROVE FALSE
      OBVIOUS
    <2>1. PICK p \in Slots : /\ status[p] = "RS_CPIN"
                             /\ \A t \in Slots : status[t] = "RS_CPIN" => p <= t
      BY LowestCompleted DEF ServerInv, SteadyInv
    <2>2. Reusable(q, <<p, "send">>, <<p, "recv">>)
      BY <1>3, <2>1, BothRegions
    <2>3. QED
      BY <1>1, <2>2, Sides
  <1>5. Completed = {} /\ \A t \in Slots : Busy(t) => status[t] = "RS_PUT"
    BY <1>1, <1>4, OneWriting
  <1>6. \A t, u \in Slots \ {s} : status'[t] # "RS_UNALLOC" /\ status'[u] # "RS_UNALLOC" => t = u
    BY <1>2, <1>5 DEF ServerInv, SteadyInv, QueuesShort, Busy
  <1>7. ASSUME NEW x \in Holder, status'[x[1]] # "RS_UNALLOC"
        PROVE  mr'[x] # NoMr /\ alloc'[x] \in Sizes
    <2>1. x[1] \in Slots
      BY DEF Holder
    <2>2. CASE x[1] = s
      <3>1. x = <<s, "send">> \/ x = <<s, "recv">>
        BY <2>2, Sides
      <3>2. mr'[<<s, "send">>] = a /\ mr'[<<s, "recv">>] = b
        BY <1>1, Sides DEF Allocate, TypeOK
      <3>3. alloc'[<<s, "send">>] = q.send /\ alloc'[<<s, "recv">>] = q.recv
        BY <1>1, Sides DEF Allocate, TypeOK
      <3>4. a # NoMr /\ b # NoMr
        BY ServerAssumption
      <3>5. QED
        BY <1>3, <3>1, <3>2, <3>3, <3>4
    <2>3. CASE x[1] # s
      <3>1. x \notin {<<s, "send">>, <<s, "recv">>}
        BY <2>3
      <3>2. mr'[x] = mr[x] /\ alloc'[x] = alloc[x]
        BY <1>1, <3>1 DEF Allocate, TypeOK
      <3>3. Busy(x[1])
        BY <1>2, <1>7, <2>1, <2>3 DEF Busy
      <3>4. QED
        BY <3>2, <3>3 DEF ServerInv, SteadyInv, TwoSlots
    <2>4. QED
      BY <2>2, <2>3
  <1>8. ~purged'
    <2>1. S = {}
      BY <1>1, <1>5 DEF Purges
    <2>2. QED
      BY <1>1, <2>1 DEF Allocate, ServerInv, SteadyInv, NothingFails
  <1>9. QED
    BY <1>1, <1>2, <1>6, <1>7, <1>8, SteadyAccepted

\* A completion is polled: its job joins the collective, or is complete.
LEMMA SteadyAdvance ==
  ASSUME ServerInv, StartCollective \/ CompleteJob
  PROVE  SteadyInv'
  <1> DEFINE c == Head(cq) s == JobOf(c)
  <1>1. /\ Polled(c) /\ cq # <<>> /\ cq' = Tail(cq) /\ cq \in Seq(Completion)
        /\ UNCHANGED <<sq, qp, server, purged, recv_cq, sent, delivered>>
    BY DEF StartCollective, CompleteJob, Polled, Goto, recvVars, hostVars, histVars,
       ServerInv, TypedInv, TypeOK
  <1>2. s \in Slots /\ TypeOK /\ s = cq[1].slot
    BY <1>1, CompletionTyped, QueueTail DEF ServerInv, TypedInv, JobOf
  <1>3. /\ Len(cq) \in Nat \ {0} /\ DOMAIN cq = 1 .. Len(cq) /\ DOMAIN cq' = 1 .. Len(cq) - 1
        /\ Len(cq') = Len(cq) - 1 /\ \A k \in 1 .. Len(cq) - 1 : cq'[k] = cq[k + 1]
    BY <1>1, QueueTail
  <1>4. /\ \A k \in DOMAIN cq' : cq[k + 1].slot \in Slots \ {s} /\ k + 1 \in DOMAIN cq
        /\ \A k \in DOMAIN cq' : cq'[k] = cq[k + 1]
    <2>1. \A k \in DOMAIN cq : cq[k].slot \in Slots
      BY QueuesTyped DEF ServerInv, TypedInv, Completion
    <2>2. \A k \in DOMAIN cq' : k + 1 \in DOMAIN cq /\ 1 \in DOMAIN cq /\ k + 1 # 1 /\ cq'[k] = cq[k + 1]
      BY <1>3
    <2>3. QED
      BY <1>2, <2>1, <2>2 DEF ServerInv, TypedInv, CompletionsMatchJobs
  <1>5. \A t \in Slots \ {s} : status'[t] = status[t] /\ req'[t] = req[t]
    BY <1>2 DEF StartCollective, CompleteJob, TypeOK
  <1>6. \/ status[s] = "RS_READ" /\ status'[s] = "RS_MPI" /\ req'[s] = req[s]
        \/ status[s] = "RS_PUT" /\ status'[s] \in {"RS_CPIN", "RS_UNALLOC"}
    BY <1>2 DEF StartCollective, CompleteJob, TypeOK
  <1>7. OneOperation'
    <2>1. \A t \in Slots : /\ status'[t] \in Active => status[t] \in Active /\ req'[t] = req[t]
                           /\ status'[t] \in {"RS_READ", "RS_MPI"} => status[t] \in {"RS_READ", "RS_MPI"}
                           /\ status'[t] \in {"RS_READ", "RS_MPI"} => status'[t] \in Active
      BY <1>5, <1>6 DEF Active
    <2>2. QED
      BY <1>1, <2>1 DEF ServerInv, SteadyInv, OneOperation, Undelivered, Requested
  <1>8. \A k \in DOMAIN cq' : status'[cq'[k].slot] = status[cq[k + 1].slot]
    BY <1>4, <1>5
  <1>9. QueuesShort'
    <2>1. \A k \in DOMAIN cq' : status'[cq'[k].slot] = "RS_READ" => k = Len(cq') /\ sq' = <<>>
      <3>1. \A k \in DOMAIN cq' : status[cq[k + 1].slot] = "RS_READ" => k + 1 = Len(cq) /\ sq = <<>>
        BY <1>4 DEF ServerInv, SteadyInv, QueuesShort
      <3>2. QED
        BY <1>1, <1>3, <1>8, <3>1
    <2>2. \A t \in Slots : status'[t] = "RS_MPI" => sq' = <<>> /\ cq' = <<>>
      <3>1. \A t \in Slots : status[t] # "RS_MPI"
        BY <1>1 DEF ServerInv, SteadyInv, QueuesShort
      <3>2. CASE status[s] = "RS_READ"
        <4>1. 1 = Len(cq) /\ sq = <<>>
          BY <1>2, <1>3, <3>2 DEF ServerInv, SteadyInv, QueuesShort
        <4>2. cq' \in Seq(Completion) /\ Len(cq') = 0
          BY <1>1, <1>3, <4>1, QueueTail
        <4>3. QED
          BY <1>1, <4>1, <4>2, EmptySeq
      <3>3. CASE status[s] # "RS_READ"
        BY <1>5, <1>6, <3>1, <3>3
      <3>4. QED
        BY <3>2, <3>3
    <2>3. \A t, u \in Slots : status'[t] = "RS_PUT" /\ status'[u] = "RS_PUT" => t = u
      BY <1>5, <1>6 DEF ServerInv, SteadyInv, QueuesShort
    <2>4. \A k \in DOMAIN sq' : sq'[k].opcode = "READ" => k = Len(sq')
      BY <1>1 DEF ServerInv, SteadyInv, QueuesShort
    <2>5. QED
      BY <2>1, <2>2, <2>3, <2>4 DEF QueuesShort
  <1>10. TwoSlots'
    <2>1. \A t \in Slots : status'[t] # "RS_UNALLOC" => status[t] # "RS_UNALLOC"
      BY <1>5, <1>6
    <2>2. ASSUME NEW x \in Holder, status'[x[1]] # "RS_UNALLOC"
          PROVE  mr'[x] = mr[x] /\ alloc'[x] = alloc[x]
      <3>1. x[1] \in Slots
        BY DEF Holder
      <3>2. CASE UNCHANGED <<mr, alloc>>
        BY <3>2
      <3>3. CASE CompleteJob /\ ~LazyUnpinning
        <4>1. /\ status' = [status EXCEPT ![s] = "RS_UNALLOC"]
              /\ mr' = [h \in Holder |-> IF h[1] = s THEN NoMr ELSE mr[h]]
              /\ alloc' = [h \in Holder |-> IF h[1] = s THEN 0 ELSE alloc[h]]
          BY <3>3 DEF CompleteJob
        <4>2. x[1] # s
          BY <1>2, <2>2, <4>1 DEF TypeOK
        <4>3. QED
          BY <4>1, <4>2
      <3>4. QED
        BY <3>2, <3>3 DEF StartCollective, CompleteJob
    <2>3. \A x \in Holder : status'[x[1]] # "RS_UNALLOC" => mr'[x] # NoMr /\ alloc'[x] \in Sizes
      <3>1. \A x \in Holder : x[1] \in Slots
        BY DEF Holder
      <3>2. QED
        BY <2>1, <2>2, <3>1 DEF ServerInv, SteadyInv, TwoSlots, Busy
    <2>4. ~LazyUnpinning => \A t \in Slots : status'[t] # "RS_CPIN"
      <3>1. ~LazyUnpinning => status'[s] # "RS_CPIN"
        BY <1>2 DEF StartCollective, CompleteJob, TypeOK
      <3>2. QED
        BY <1>5, <3>1 DEF ServerInv, SteadyInv, TwoSlots
    <2>5. QED
      BY <2>1, <2>3, <2>4 DEF ServerInv, SteadyInv, TwoSlots, Busy
  <1>11. NothingFails'
    <2>1. \A k \in DOMAIN cq' : cq'[k].ok
      BY <1>4 DEF ServerInv, SteadyInv, NothingFails
    <2>2. \A t \in Slots : status'[t] # "RS_FAIL"
      BY <1>5, <1>6 DEF ServerInv, SteadyInv, NothingFails
    <2>3. QED
      BY <1>1, <2>1, <2>2 DEF ServerInv, SteadyInv, NothingFails
  <1>12. QED
    BY <1>7, <1>9, <1>10, <1>11 DEF SteadyInv

\* The collective is done, and the write of its result is all that is queued.
LEMMA SteadyWrite ==
  ASSUME ServerInv, SteadyService, StartWrite
  PROVE  SteadyInv'
  <1>1. /\ cur \in Slots /\ sq = <<>> /\ cq = <<>>
        /\ \A t \in Slots : status[t] # "RS_PUT"
        /\ \A t \in Slots : status[t] = "RS_MPI" => t = cur
        /\ status[cur] = "RS_MPI"
    BY ResultWritten DEF StartWrite
  <1>2. /\ status'[cur] = "RS_PUT" /\ \A t \in Slots \ {cur} : status'[t] = status[t]
        /\ sq' = Append(<<>>, [slot |-> cur, opcode |-> "WRITE"])
        /\ UNCHANGED <<req, mr, alloc, cq, qp, recv_cq, sent, delivered, purged, server>>
    BY <1>1 DEF StartWrite, Post, NextSlot, recvVars, hostVars, histVars, ServerInv, TypedInv, TypeOK
  <1>3. \A k \in DOMAIN sq' : sq'[k].opcode # "READ"
    <2> DEFINE wr == [slot |-> cur, opcode |-> "WRITE"]
    <2>1. Append(<<>>, wr) = <<wr>> /\ DOMAIN <<wr>> = {1} /\ <<wr>>[1] = wr
      OBVIOUS
    <2>2. QED
      BY <1>2, <2>1
  <1>4. OneOperation'
    <2>1. \A t \in Slots : /\ status'[t] \in Active <=> status[t] \in Active
                           /\ status'[t] \in {"RS_READ", "RS_MPI"} => status[t] \in {"RS_READ", "RS_MPI"}
      BY <1>1, <1>2 DEF Active
    <2>2. QED
      BY <1>2, <2>1 DEF ServerInv, SteadyInv, OneOperation, Undelivered, Requested
  <1>5. QueuesShort'
    <2>1. \A t \in Slots : status'[t] # "RS_MPI"
      BY <1>1, <1>2
    <2>2. \A k \in DOMAIN cq' : FALSE
      BY <1>1, <1>2
    <2>3. QED
      BY <1>1, <1>2, <1>3, <2>1, <2>2 DEF QueuesShort
  <1>6. TwoSlots' /\ NothingFails'
    <2>1. \A t \in Slots : /\ status'[t] # "RS_UNALLOC" => status[t] # "RS_UNALLOC"
                           /\ status'[t] # "RS_FAIL"
      BY <1>1, <1>2 DEF ServerInv, SteadyInv, NothingFails
    <2>2. \A x \in Holder : x[1] \in Slots
      BY DEF Holder
    <2>3. TwoSlots'
      BY <1>2, <2>1, <2>2 DEF ServerInv, SteadyInv, TwoSlots, Busy
    <2>4. QED
      BY <1>2, <2>1, <2>3 DEF ServerInv, SteadyInv, NothingFails
  <1>7. QED
    BY <1>4, <1>5, <1>6 DEF SteadyInv

\* The write reaches the host: no operation is in progress any more.
LEMMA SteadyExecute ==
  ASSUME ServerInv, NicExecute
  PROVE  SteadyInv'
  <1> DEFINE s == sq[executed + 1].slot
  <1>1. /\ UNCHANGED <<status, req, mr, alloc, sq, cq, qp, recv_cq, sent, purged, server>>
        /\ delivered' = (IF sq[executed + 1].opcode = "WRITE" THEN delivered \cup {req[s].op} ELSE delivered)
    BY DEF NicExecute, jobVars, nicVars, recvVars, loopVars, histVars
  <1>2. executed + 1 \in DOMAIN sq /\ TypeOK
    <2>1. sq \in Seq(WorkRequest) /\ executed \in 0 .. Len(sq) /\ executed < Len(sq) /\ TypeOK
      BY DEF NicExecute, ServerInv, TypedInv, TypeOK
    <2>2. Len(sq) \in Nat /\ DOMAIN sq = 1 .. Len(sq)
      BY <2>1, LenProperties
    <2>3. QED
      BY <2>1, <2>2
  <1>3. QueuesShort' /\ TwoSlots' /\ NothingFails'
    BY <1>1 DEF ServerInv, SteadyInv, QueuesShort, TwoSlots, NothingFails, Busy
  <1>4. CASE UNCHANGED delivered
    <2>1. OneOperation'
      BY <1>1, <1>4 DEF ServerInv, SteadyInv, OneOperation, Undelivered, Requested
    <2>2. QED
      BY <1>3, <2>1 DEF SteadyInv
  <1>5. CASE ~ UNCHANGED delivered
    <2>1. sq[executed + 1].opcode = "WRITE" /\ delivered' = delivered \cup {req[s].op} /\ req[s].op \notin delivered
      BY <1>1, <1>5
    <2>2. s \in Slots /\ status[s] = "RS_PUT" /\ Undelivered(s)
      BY <1>2, <2>1, QueuesTyped DEF ServerInv, TypedInv, CompletionsMatchJobs, WorkRequest, Active, Undelivered
    <2>3. req[s].op \in 1 .. sent
      <3>1. req[s].op \in 1 .. MaxOp /\ req[s].op <= sent
        BY <2>2 DEF ServerInv, TypedInv, ActiveRequests, OffloadReq, SteadyInv, OneOperation, Undelivered
      <3>2. sent \in Int
        BY <1>2 DEF TypeOK
      <3>3. QED
        BY <3>1, <3>2, ServerAssumption
    <2>4. delivered = 1 .. sent - 1 /\ req[s].op = sent
      <3>1. delivered = 1 .. sent - 1
        BY <2>1, <2>3 DEF ServerInv, SteadyInv, OneOperation
      <3>2. sent \in Int
        BY <1>2 DEF TypeOK
      <3>3. QED
        BY <2>1, <2>3, <3>1, <3>2
    <2>5. delivered' = 1 .. sent
      <3>1. sent \in Int /\ sent >= 1
        BY <1>2, <2>3, <2>4 DEF TypeOK
      <3>2. QED
        BY <2>1, <2>4, <3>1
    <2>6. /\ ~Requested
          /\ \A t \in Slots : status[t] \notin {"RS_READ", "RS_MPI"}
          /\ \A t \in Slots : Undelivered(t) => t = s
      BY <2>2 DEF ServerInv, SteadyInv, OneOperation
    <2>7. \A t \in Slots : ~(status[t] \in Active /\ req[t].op \notin delivered')
      BY <2>1, <2>6 DEF Undelivered
    <2>8. OneOperation'
      BY <1>1, <2>5, <2>6, <2>7 DEF ServerInv, SteadyInv, OneOperation, Undelivered, Requested
    <2>9. QED
      BY <1>3, <2>8 DEF SteadyInv
  <1>6. QED
    BY <1>4, <1>5

\* The oldest work request becomes the newest completion.
LEMMA SteadyComplete ==
  ASSUME ServerInv, NicComplete
  PROVE  SteadyInv'
  <1>1. /\ UNCHANGED <<status, req, mr, alloc, qp, recv_cq, sent, delivered, purged, server>>
        /\ sq' = Tail(sq) /\ cq' = Append(cq, [slot |-> Head(sq).slot, ok |-> TRUE])
        /\ sq # <<>> /\ sq \in Seq(WorkRequest) /\ cq \in Seq(Completion)
    BY EmptySeq DEF NicComplete, jobVars, poolVars, recvVars, loopVars, hostVars, histVars,
       ServerInv, TypedInv, TypeOK
  <1>2. /\ Head(sq) = sq[1] /\ sq[1] \in WorkRequest /\ sq' \in Seq(WorkRequest)
        /\ Len(sq) \in Nat \ {0} /\ DOMAIN sq = 1 .. Len(sq) /\ DOMAIN sq' = 1 .. Len(sq) - 1
        /\ Len(sq') = Len(sq) - 1 /\ \A k \in 1 .. Len(sq) - 1 : sq'[k] = sq[k + 1]
    BY <1>1, QueueTail
  <1>3. /\ Len(cq) \in Nat /\ DOMAIN cq = 1 .. Len(cq) /\ DOMAIN cq' = 1 .. Len(cq) + 1
        /\ Len(cq') = Len(cq) + 1 /\ \A k \in 1 .. Len(cq) : cq'[k] = cq[k]
        /\ cq'[Len(cq) + 1] = [slot |-> sq[1].slot, ok |-> TRUE]
    <2> DEFINE c == [slot |-> sq[1].slot, ok |-> TRUE]
    <2>1. c \in Completion
      BY <1>2 DEF WorkRequest, Completion
    <2>2. cq' = Append(cq, c)
      BY <1>1, <1>2
    <2> HIDE DEF c
    <2>3. Len(cq') = Len(cq) + 1 /\ cq'[Len(cq) + 1] = c
      BY <1>1, <2>1, <2>2, QueueAppend
    <2>4. /\ Len(cq) \in Nat /\ DOMAIN cq = 1 .. Len(cq) /\ DOMAIN cq' = 1 .. Len(cq) + 1
          /\ \A k \in 1 .. Len(cq) : cq'[k] = cq[k]
      BY <1>1, <2>1, <2>2, QueueAppend
    <2>5. QED
      BY <2>3, <2>4 DEF c
  <1>4. OneOperation' /\ TwoSlots'
    BY <1>1 DEF ServerInv, SteadyInv, OneOperation, Undelivered, Requested, TwoSlots, Busy
  <1>5. NothingFails'
    <2>1. \A k \in DOMAIN cq' : cq'[k].ok
      <3>1. \A k \in 1 .. Len(cq) : cq'[k].ok
        BY <1>3 DEF ServerInv, SteadyInv, NothingFails
      <3>2. cq'[Len(cq) + 1].ok
        BY <1>3
      <3>3. QED
        BY <1>3, <3>1, <3>2
    <2>2. QED
      BY <1>1, <2>1 DEF ServerInv, SteadyInv, NothingFails
  <1>6. QueuesShort'
    <2>1. \A k \in DOMAIN sq' : sq'[k].opcode = "READ" => k = Len(sq')
      <3>1. \A k \in DOMAIN sq' : k + 1 \in DOMAIN sq /\ sq'[k] = sq[k + 1]
        BY <1>2
      <3>2. \A k \in DOMAIN sq' : sq[k + 1].opcode = "READ" => k + 1 = Len(sq)
        BY <3>1 DEF ServerInv, SteadyInv, QueuesShort
      <3>3. QED
        BY <1>2, <3>1, <3>2
    <2>2. \A k \in 1 .. Len(cq) : status[cq[k].slot] # "RS_READ"
      BY <1>1, <1>3 DEF ServerInv, SteadyInv, QueuesShort
    <2>3. status[sq[1].slot] = "RS_READ" => sq' = <<>>
      <3> SUFFICES ASSUME status[sq[1].slot] = "RS_READ" PROVE sq' = <<>>
        OBVIOUS
      <3>1. 1 \in DOMAIN sq
        BY <1>2
      <3>2. sq[1].opcode = "READ"
        BY <3>1 DEF ServerInv, TypedInv, CompletionsMatchJobs
      <3>3. 1 = Len(sq)
        BY <3>1, <3>2 DEF ServerInv, SteadyInv, QueuesShort
      <3>4. Len(sq') = Len(sq) - 1 /\ sq' \in Seq(WorkRequest)
        BY <1>2
      <3>5. Len(sq') = 0
        BY <3>3, <3>4
      <3>6. QED
        BY <3>4, <3>5, EmptySeq
    <2>4. \A k \in DOMAIN cq' : status'[cq'[k].slot] = "RS_READ" => k = Len(cq') /\ sq' = <<>>
      <3>1. \A k \in DOMAIN cq' : k \in 1 .. Len(cq) \/ k = Len(cq')
        BY <1>3
      <3>2. \A k \in 1 .. Len(cq) : status'[cq'[k].slot] # "RS_READ"
        BY <1>1, <1>3, <2>2
      <3>3. status'[cq'[Len(cq')].slot] = "RS_READ" => sq' = <<>>
        BY <1>1, <1>3, <2>3
      <3>4. QED
        BY <3>1, <3>2, <3>3
    <2>5. \A t \in Slots : status[t] # "RS_MPI"
      BY <1>1 DEF ServerInv, SteadyInv, QueuesShort
    <2>6. \A t, u \in Slots : status[t] = "RS_PUT" /\ status[u] = "RS_PUT" => t = u
      BY DEF ServerInv, SteadyInv, QueuesShort
    <2>7. QED
      BY <1>1, <2>1, <2>4, <2>5, <2>6 DEF QueuesShort
  <1>7. QED
    BY <1>4, <1>5, <1>6 DEF SteadyInv

LEMMA SteadyNext ==
  ASSUME ServerInv, SteadyService, [Next]_vars
  PROVE  SteadyInv'
  <1>1. CASE Serve
    BY <1>1, NoFailure, SteadyQuiet, SteadyGoodbye, SteadyReuse, SteadyAllocation, SteadyAdvance, SteadyWrite
       DEF Serve, ServerInv
  <1>2. CASE Nic
    BY <1>2, NoFailure, SteadyExecute, SteadyComplete DEF Nic
  <1>3. CASE Host
    BY <1>3, SteadyGoodbye, SteadyRequest DEF Host
  <1>4. CASE (\E s \in Slots : MpiProgress(s)) \/ UNCHANGED vars
    BY <1>4, SteadyQuiet DEF ServerInv
  <1>5. QED
    BY <1>1, <1>2, <1>3, <1>4 DEF Next, Stopped

\* A host that waits for each operation and, with LAZY_UNPINNING, always asks
\* for the same size is served for ever: with three slots (two without), four
\* regions and room for two work requests, the server never finds its job list
\* full, its send queue full, no region to register or a completion it cannot
\* use, however many requests come.  It stops when the host leaves it.
THEOREM ServerStopsOnlyWhenTold ==
  ASSUME SteadyService
  PROVE  Spec => []StopsOnlyWhenTold
  <1>1. Init => OneMessage /\ SteadyInv
    BY OneMessageInit, SteadyInit
  <1>2. TypedInv /\ PoolInv /\ OneMessage /\ SteadyInv /\ [Next]_vars => OneMessage' /\ SteadyInv'
    BY OneMessageNext, SteadyNext DEF ServerInv
  <1>3. SteadyInv => StopsOnlyWhenTold
    BY DEF SteadyInv, NothingFails, StopsOnlyWhenTold
  <1>4. QED
    BY <1>1, <1>2, <1>3, TypedAlways, PoolAlways, PTL DEF Spec

=============================================================================
