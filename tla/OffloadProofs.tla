--------------------------- MODULE OffloadProofs ---------------------------
(***************************************************************************)
(* The system implements the service, for every set of ranks, every number *)
(* of operations, with hosts that leave early and DPUs that fail.          *)
(***************************************************************************)
EXTENDS Offload, DataLemmas

-----------------------------------------------------------------------------
(* The invariant.                                                          *)

\* The requests on the wire are those that have not become jobs.
Waiting(r) ==
  \A k \in DOMAIN wire[r] : wire[r][k] # Goodbye =>
    /\ job[r][wire[r][k]] = "none"
    /\ wire[r][k] <= called[r]
    /\ \A o \in Op : job[r][o] # "none" => o < wire[r][k]

\* They keep their order, and nothing follows the goodbye.
WireOrdered(r) ==
  \A i, j \in DOMAIN wire[r] : i < j =>
    /\ wire[r][i] # Goodbye
    /\ wire[r][j] # Goodbye => wire[r][i] < wire[r][j]

GoodbyeSaid(r) == \A k \in DOMAIN wire[r] : wire[r][k] = Goodbye => left[r]

\* A request is a job or on the wire.
NoneLost(r) ==
  \A o \in Op :
    /\ o > called[r] => job[r][o] = "none"
    /\ o <= called[r] /\ job[r][o] = "none" => \E k \in DOMAIN wire[r] : wire[r][k] = o

WireInv(r) == Waiting(r) /\ WireOrdered(r) /\ GoodbyeSaid(r) /\ NoneLost(r)

\* The work requests in the order in which the loop will poll them.
Flight(r) == cq[r] \o sq[r]

\* A job has one work request at a time, and the reads keep the order of the
\* requests.
FlightInv(r) ==
  /\ \A i, j \in DOMAIN Flight(r) : i < j =>
       /\ Flight(r)[i] # Flight(r)[j]
       /\ Flight(r)[i].opcode = "READ" /\ Flight(r)[j].opcode = "READ" =>
            Flight(r)[i].op < Flight(r)[j].op
  /\ \A i \in DOMAIN Flight(r) :
       job[r][Flight(r)[i].op] = IF Flight(r)[i].opcode = "READ" THEN "RS_READ" ELSE "RS_PUT"
  /\ \A o \in Op : job[r][o] = "RS_READ" =>
       \E i \in DOMAIN Flight(r) : Flight(r)[i] = [op |-> o, opcode |-> "READ"]

\* The collectives of a rank are its operations, in order.
CollInv(r) ==
  /\ \A k \in DOMAIN coll[r] : coll[r][k] = k
  /\ \A o \in Op : job[r][o] \in {"RS_MPI", "RS_PUT", "RS_CPIN"} <=> o <= Len(coll[r])

\* The host knows only what has been written, and it is written once.
Known(r, o) == recv[r] = o \/ o \in told[r]

ResultInv(r) ==
  /\ \A o \in Op : Known(r, o) =>
       /\ job[r][o] \in {"RS_PUT", "RS_CPIN"}
       /\ received[r][o] = [q \in Rank |-> o]
  /\ \A o \in Op : job[r][o] \in {"RS_PUT", "RS_CPIN"} => \A q \in Rank : o <= Len(coll[q])
  /\ \A i \in DOMAIN sq[r] : sq[r][i].opcode = "WRITE" => ~Known(r, sq[r][i].op)
  /\ tested[r] \subseteq told[r]

OffloadInv ==
  /\ TypeOK
  /\ \A r \in Rank : WireInv(r) /\ FlightInv(r) /\ CollInv(r) /\ ResultInv(r)

-----------------------------------------------------------------------------
(* Queues.                                                                 *)

\* Executing a work request moves it within the flight, posting one adds it
\* at the end, and polling one takes it from the head.
LEMMA FlightSteps ==
  ASSUME NEW c \in Seq(Request), NEW q \in Seq(Request), NEW e \in Request
  PROVE  /\ q # <<>> => Append(c, Head(q)) \o Tail(q) = c \o q
         /\ c \o Append(q, e) = Append(c \o q, e)
         /\ c # <<>> => Tail(c) \o q = Tail(c \o q) /\ Head(c \o q) = Head(c)
         /\ c \o q \in Seq(Request) /\ (c # <<>> => c \o q # <<>>)
  <1>1. c \o q \in Seq(Request) /\ c \o Append(q, e) \in Seq(Request) /\ Append(c \o q, e) \in Seq(Request)
        /\ Append(q, e) \in Seq(Request)
    BY ConcatProperties, AppendProperties
  <1>2. ASSUME q # <<>> PROVE Append(c, Head(q)) \o Tail(q) = c \o q
    BY <1>2, ConcatProperties, AppendProperties, HeadTailProperties, SeqEqual
  <1>3. c \o Append(q, e) = Append(c \o q, e)
    BY AppendIsConcat, ConcatAssociative, <1>1, ConcatProperties, AppendProperties
  <1>4. ASSUME c # <<>> PROVE Tail(c) \o q = Tail(c \o q) /\ Head(c \o q) = Head(c)
    BY <1>4, ConcatProperties, HeadTailProperties, SeqEqual
  <1>5. c # <<>> => c \o q # <<>>
    BY ConcatEqualIffEmpty
  <1>6. QED
    BY <1>1, <1>2, <1>3, <1>4, <1>5

-----------------------------------------------------------------------------
(* Initially.                                                              *)

LEMMA OffloadInit == Init => OffloadInv
  <1> SUFFICES ASSUME Init PROVE OffloadInv
    OBVIOUS
  <1>1. \A r \in Rank : /\ wire[r] = <<>> /\ sq[r] = <<>> /\ cq[r] = <<>> /\ coll[r] = <<>>
                         /\ recv[r] = None /\ told[r] = {} /\ tested[r] = {} /\ called[r] = 0
                         /\ \A o \in Op : job[r][o] = "none"
    BY DEF Init
  <1>2. \A S : <<>> \in Seq(S)
    BY EmptySeq
  <1>3. TypeOK
    <2>1. wire \in [Rank -> Seq(Op \cup {Goodbye})] /\ coll \in [Rank -> Seq(Op)]
      BY <1>2 DEF Init
    <2>2. sq \in [Rank -> Seq(Request)] /\ cq \in [Rank -> Seq(Request)]
      BY <1>2 DEF Init
    <2>3. received \in [Rank -> [Op -> [Rank -> Op \cup {0}]]]
      BY DEF Init, NoBlocks
    <2>4. job \in [Rank -> [Op -> JobStatus]]
      BY DEF Init, JobStatus
    <2>5. /\ called \in [Rank -> 0 .. MaxOp] /\ recv \in [Rank -> Op \cup {None, Posted}]
          /\ told \in [Rank -> SUBSET Op] /\ tested \in [Rank -> SUBSET Op]
          /\ left \in [Rank -> BOOLEAN] /\ server \in [Rank -> {"running", "disconnected", "failed"}]
      BY OffloadAssumption DEF Init
    <2>6. QED
      BY <2>1, <2>2, <2>3, <2>4, <2>5 DEF TypeOK
  <1>4. ASSUME NEW r \in Rank PROVE WireInv(r) /\ FlightInv(r) /\ CollInv(r) /\ ResultInv(r)
    <2>1. Flight(r) = <<>>
      BY <1>1, <1>2, ConcatEmptySeq DEF Flight
    <2>2. DOMAIN <<>> = {} /\ Len(<<>>) = 0
      BY EmptySeq
    <2>3. WireInv(r)
      BY <1>1, <2>2 DEF WireInv, Waiting, WireOrdered, GoodbyeSaid, NoneLost, Op
    <2>4. FlightInv(r)
      BY <1>1, <2>1, <2>2 DEF FlightInv
    <2>5. CollInv(r)
      BY <1>1, <2>2 DEF CollInv, Op
    <2>6. ResultInv(r)
      BY <1>1, <2>2 DEF ResultInv, Known, None, Op
    <2>7. QED
      BY <2>3, <2>4, <2>5, <2>6
  <1>5. QED
    BY <1>3, <1>4 DEF OffloadInv

-----------------------------------------------------------------------------
(* Steps.                                                                  *)

\* What a step does not touch keeps its part of the invariant.
LEMMA WireKept ==
  ASSUME NEW r \in Rank, WireInv(r), called'[r] = called[r], left'[r] = left[r],
         wire'[r] = wire[r], job'[r] = job[r]
  PROVE  WireInv(r)'
  BY DEF WireInv, Waiting, WireOrdered, GoodbyeSaid, NoneLost

LEMMA FlightKept ==
  ASSUME NEW r \in Rank, FlightInv(r), Flight(r)' = Flight(r), job'[r] = job[r]
  PROVE  FlightInv(r)'
  BY DEF FlightInv

LEMMA SameFlight ==
  ASSUME NEW r \in Rank, sq'[r] = sq[r], cq'[r] = cq[r]
  PROVE  Flight(r)' = Flight(r)
  BY DEF Flight

LEMMA CollKept ==
  ASSUME NEW r \in Rank, CollInv(r), coll'[r] = coll[r], job'[r] = job[r]
  PROVE  CollInv(r)'
  BY DEF CollInv

\* The collectives of other ranks only grow.
LEMMA ResultKept ==
  ASSUME NEW r \in Rank, ResultInv(r), recv'[r] = recv[r], told'[r] = told[r],
         tested'[r] = tested[r], received'[r] = received[r], job'[r] = job[r], sq'[r] = sq[r],
         coll \in [Rank -> Seq(Op)], coll' \in [Rank -> Seq(Op)],
         \A q \in Rank : Len(coll[q]) <= Len(coll'[q])
  PROVE  ResultInv(r)'
  <1>1. \A q \in Rank : Len(coll[q]) \in Nat /\ Len(coll'[q]) \in Nat
    BY LenProperties
  <1>2. QED
    BY <1>1 DEF ResultInv, Known, Op

\* The step is of rank r alone.
Only(r) ==
  \A q \in Rank \ {r} :
    /\ called'[q] = called[q] /\ recv'[q] = recv[q] /\ told'[q] = told[q]
    /\ tested'[q] = tested[q] /\ left'[q] = left[q] /\ received'[q] = received[q]
    /\ wire'[q] = wire[q] /\ job'[q] = job[q] /\ sq'[q] = sq[q] /\ cq'[q] = cq[q]
    /\ coll'[q] = coll[q]

LEMMA RankStep ==
  ASSUME OffloadInv, NEW r \in Rank, Only(r), TypeOK', Len(coll[r]) <= Len(coll'[r]),
         WireInv(r)', FlightInv(r)', CollInv(r)', ResultInv(r)'
  PROVE  OffloadInv'
  <1>1. coll \in [Rank -> Seq(Op)] /\ coll' \in [Rank -> Seq(Op)]
    BY DEF OffloadInv, TypeOK
  <1>2. \A q \in Rank : Len(coll[q]) <= Len(coll'[q])
    BY <1>1, LenProperties DEF Only
  <1>3. ASSUME NEW q \in Rank, q # r
        PROVE WireInv(q)' /\ FlightInv(q)' /\ CollInv(q)' /\ ResultInv(q)'
    <2>1. WireInv(q) /\ FlightInv(q) /\ CollInv(q) /\ ResultInv(q)
      BY DEF OffloadInv
    <2>2. QED
      BY <1>1, <1>2, <1>3, <2>1, WireKept, FlightKept, SameFlight, CollKept, ResultKept DEF Only
  <1>4. QED
    BY <1>3 DEF OffloadInv

\* What is in a queue of work requests.
LEMMA Requests ==
  ASSUME TypeOK, NEW r \in Rank
  PROVE  /\ sq[r] \in Seq(Request) /\ cq[r] \in Seq(Request) /\ Flight(r) \in Seq(Request)
         /\ \A i \in DOMAIN sq[r] : sq[r][i].op \in Op
         /\ \A i \in DOMAIN Flight(r) : Flight(r)[i] \in Request /\ Flight(r)[i].op \in Op
  <1>1. sq[r] \in Seq(Request) /\ cq[r] \in Seq(Request)
    BY DEF TypeOK
  <1>2. Flight(r) \in Seq(Request)
    BY <1>1, ConcatProperties DEF Flight
  <1>3. ASSUME NEW s \in Seq(Request), NEW i \in DOMAIN s PROVE s[i] \in Request /\ s[i].op \in Op
    <2>1. i \in 1 .. Len(s)
      BY <1>3, LenProperties
    <2>2. s[i] \in Request
      BY <2>1, <1>3, ElementOfSeq
    <2>3. QED
      BY <2>2 DEF Request
  <1>4. QED
    BY <1>1, <1>2, <1>3

\* A work request posted for an operation that has none in flight.
LEMMA FlightPost ==
  ASSUME TypeOK, NEW r \in Rank, FlightInv(r), NEW wr \in Request,
         sq'[r] = Append(sq[r], wr), cq'[r] = cq[r],
         \A p \in Op \ {wr.op} : job'[r][p] = job[r][p],
         job'[r][wr.op] = IF wr.opcode = "READ" THEN "RS_READ" ELSE "RS_PUT",
         \A i \in DOMAIN Flight(r) :
           Flight(r)[i].op # wr.op /\ (wr.opcode = "READ" => Flight(r)[i].op < wr.op)
  PROVE  FlightInv(r)'
  <1>1. sq[r] \in Seq(Request) /\ cq[r] \in Seq(Request) /\ Flight(r) \in Seq(Request)
    BY Requests
  <1>2. Flight(r)' = Append(Flight(r), wr)
    <2>1. cq[r] \o Append(sq[r], wr) = Append(cq[r] \o sq[r], wr)
      BY <1>1, FlightSteps
    <2>2. QED
      BY <2>1 DEF Flight
  <1>3. /\ Len(Flight(r)) \in Nat /\ DOMAIN Flight(r) = 1 .. Len(Flight(r))
        /\ DOMAIN Flight(r)' = 1 .. Len(Flight(r)) + 1
        /\ \A i \in 1 .. Len(Flight(r)) : Flight(r)'[i] = Flight(r)[i]
        /\ Flight(r)'[Len(Flight(r)) + 1] = wr
    BY <1>1, <1>2, QueueAppend
  <1>4. ASSUME NEW i \in DOMAIN Flight(r)
        PROVE  job'[r][Flight(r)[i].op] = job[r][Flight(r)[i].op]
    BY Requests
  <1>5. ASSUME NEW i \in DOMAIN Flight(r)', NEW j \in DOMAIN Flight(r)', i < j
        PROVE  /\ Flight(r)'[i] # Flight(r)'[j]
               /\ Flight(r)'[i].opcode = "READ" /\ Flight(r)'[j].opcode = "READ" =>
                    Flight(r)'[i].op < Flight(r)'[j].op
    <2>1. i \in DOMAIN Flight(r) /\ Flight(r)'[i] = Flight(r)[i]
      BY <1>3, <1>5
    <2>2. CASE j \in DOMAIN Flight(r)
      BY <1>3, <1>5, <2>1, <2>2 DEF FlightInv
    <2>3. CASE j = Len(Flight(r)) + 1
      BY <1>3, <2>1, <2>3
    <2>4. QED
      BY <1>3, <2>2, <2>3
  <1>6. ASSUME NEW i \in DOMAIN Flight(r)'
        PROVE  job'[r][Flight(r)'[i].op] = IF Flight(r)'[i].opcode = "READ" THEN "RS_READ" ELSE "RS_PUT"
    <2>1. CASE i \in DOMAIN Flight(r)
      BY <1>3, <1>4, <2>1 DEF FlightInv
    <2>2. CASE i = Len(Flight(r)) + 1
      BY <1>3, <2>2
    <2>3. QED
      BY <1>3, <2>1, <2>2
  <1>7. ASSUME NEW p \in Op, job'[r][p] = "RS_READ"
        PROVE  \E i \in DOMAIN Flight(r)' : Flight(r)'[i] = [op |-> p, opcode |-> "READ"]
    <2>1. CASE p = wr.op
      <3>1. wr = [op |-> p, opcode |-> "READ"]
        BY <1>7, <2>1 DEF Request
      <3>2. QED
        BY <1>3, <3>1
    <2>2. CASE p # wr.op
      BY <1>3, <1>7, <2>2 DEF FlightInv
    <2>3. QED
      BY <2>1, <2>2
  <1>8. QED
    BY <1>5, <1>6, <1>7 DEF FlightInv

\* A work request polled, and its job moved on.
LEMMA FlightPoll ==
  ASSUME TypeOK, NEW r \in Rank, FlightInv(r), cq[r] # <<>>, NEW wr, wr = Head(cq[r]),
         sq'[r] = sq[r], cq'[r] = Tail(cq[r]),
         \A p \in Op \ {wr.op} : job'[r][p] = job[r][p],
         job'[r][wr.op] # "RS_READ"
  PROVE  /\ FlightInv(r)'
         /\ 1 \in DOMAIN Flight(r) /\ Flight(r)[1] = wr /\ wr \in Request
  <1>1. sq[r] \in Seq(Request) /\ cq[r] \in Seq(Request) /\ Flight(r) \in Seq(Request)
    BY Requests
  <1>2. wr \in Request
    BY <1>1, QueueTail
  <1>3. Flight(r)' = Tail(Flight(r)) /\ wr = Head(Flight(r)) /\ Flight(r) # <<>>
    <2>1. Tail(cq[r]) \o sq[r] = Tail(cq[r] \o sq[r]) /\ Head(cq[r] \o sq[r]) = Head(cq[r])
          /\ cq[r] \o sq[r] # <<>>
      BY <1>1, <1>2, FlightSteps
    <2>2. QED
      BY <2>1 DEF Flight
  <1>4. /\ Len(Flight(r)) \in Nat \ {0} /\ DOMAIN Flight(r) = 1 .. Len(Flight(r))
        /\ DOMAIN Flight(r)' = 1 .. Len(Flight(r)) - 1 /\ Flight(r)[1] = wr
        /\ \A i \in 1 .. Len(Flight(r)) - 1 : Flight(r)'[i] = Flight(r)[i + 1]
    BY <1>1, <1>3, QueueTail
  <1>5. ASSUME NEW i \in DOMAIN Flight(r)'
        PROVE  /\ i + 1 \in DOMAIN Flight(r) /\ Flight(r)'[i] = Flight(r)[i + 1]
               /\ Flight(r)[i + 1].op # wr.op
               /\ job'[r][Flight(r)[i + 1].op] = job[r][Flight(r)[i + 1].op]
    <2>1. i + 1 \in DOMAIN Flight(r) /\ Flight(r)'[i] = Flight(r)[i + 1] /\ 1 < i + 1 /\ 1 \in DOMAIN Flight(r)
      BY <1>4
    <2>2. Flight(r)[i + 1] # wr
      BY <1>4, <2>1 DEF FlightInv
    <2>3. Flight(r)[i + 1].op # wr.op
      <3>1. Flight(r)[i + 1] \in Request
        BY <2>1, Requests
      <3>2. Flight(r)[i + 1].op = wr.op => Flight(r)[i + 1].opcode = wr.opcode
        BY <1>2, <1>4, <2>1, <3>1 DEF FlightInv, Request
      <3>3. QED
        BY <1>2, <2>2, <3>1, <3>2 DEF Request
    <2>4. QED
      BY <2>1, <2>3, Requests
  <1>6. ASSUME NEW i \in DOMAIN Flight(r)', NEW j \in DOMAIN Flight(r)', i < j
        PROVE  /\ Flight(r)'[i] # Flight(r)'[j]
               /\ Flight(r)'[i].opcode = "READ" /\ Flight(r)'[j].opcode = "READ" =>
                    Flight(r)'[i].op < Flight(r)'[j].op
    <2>1. i + 1 < j + 1
      BY <1>4, <1>6
    <2>2. QED
      BY <1>5, <2>1 DEF FlightInv
  <1>7. ASSUME NEW i \in DOMAIN Flight(r)'
        PROVE  job'[r][Flight(r)'[i].op] = IF Flight(r)'[i].opcode = "READ" THEN "RS_READ" ELSE "RS_PUT"
    BY <1>5 DEF FlightInv
  <1>8. ASSUME NEW p \in Op, job'[r][p] = "RS_READ"
        PROVE  \E i \in DOMAIN Flight(r)' : Flight(r)'[i] = [op |-> p, opcode |-> "READ"]
    <2>1. p # wr.op /\ job[r][p] = "RS_READ"
      BY <1>8
    <2>2. PICK i \in DOMAIN Flight(r) : Flight(r)[i] = [op |-> p, opcode |-> "READ"]
      BY <2>1 DEF FlightInv
    <2>3. i # 1
      BY <1>4, <2>1, <2>2
    <2>4. i - 1 \in 1 .. Len(Flight(r)) - 1 /\ (i - 1) + 1 = i
      BY <1>4, <2>3
    <2>5. QED
      BY <1>4, <2>2, <2>4
  <1>9. QED
    BY <1>2, <1>4, <1>6, <1>7, <1>8 DEF FlightInv

\* Where nothing but the host moves.
LEMMA HostStep ==
  ASSUME OffloadInv, NEW r \in Rank, UNCHANGED dpuVars, UNCHANGED received
  PROVE  /\ FlightInv(r)' /\ CollInv(r)' /\ Len(coll[r]) <= Len(coll'[r])
         /\ \A q \in Rank : coll'[q] = coll[q] /\ Len(coll[q]) <= Len(coll'[q])
  <1>1. FlightInv(r) /\ CollInv(r) /\ \A q \in Rank : Len(coll[q]) \in Nat
    BY LenProperties DEF OffloadInv, TypeOK
  <1>2. QED
    BY <1>1, FlightKept, SameFlight, CollKept DEF dpuVars

LEMMA CallsStep ==
  ASSUME OffloadInv, NEW r \in Rank, HostCalls(r)
  PROVE  OffloadInv'
  <1> DEFINE n == called[r] + 1
  <1>0. TypeOK /\ WireInv(r) /\ ResultInv(r)
    BY DEF OffloadInv
  <1>1. n \in Op /\ called' = [called EXCEPT ![r] = n] /\ ~left[r]
    BY <1>0, OffloadAssumption DEF TypeOK, Op, HostCalls
  <1>2. wire[r] \in Seq(Op \cup {Goodbye}) /\ wire' = [wire EXCEPT ![r] = Append(wire[r], n)]
    BY <1>0 DEF TypeOK, HostCalls
  <1>3. UNCHANGED <<recv, told, tested, left, received, dpuVars>>
    BY DEF HostCalls
  <1>4. TypeOK'
    BY <1>0, <1>1, <1>2, <1>3, AppendProperties DEF TypeOK, dpuVars, Op
  <1>5. Only(r)
    BY <1>0, <1>1, <1>2, <1>3 DEF TypeOK, Only, dpuVars
  <1>6. FlightInv(r)' /\ CollInv(r)' /\ ResultInv(r)' /\ Len(coll[r]) <= Len(coll'[r])
    BY <1>0, <1>3, <1>4, HostStep, ResultKept DEF dpuVars, TypeOK
  <1>7. WireInv(r)'
    <2>1. /\ DOMAIN wire[r] = 1 .. Len(wire[r]) /\ Len(wire[r]) \in Nat
          /\ DOMAIN wire'[r] = 1 .. Len(wire[r]) + 1
          /\ \A k \in 1 .. Len(wire[r]) : wire[r][k] \in Op \cup {Goodbye} /\ wire'[r][k] = wire[r][k]
          /\ wire'[r][Len(wire[r]) + 1] = n
      BY <1>0, <1>1, <1>2, QueueAppend DEF TypeOK
    <2>2. /\ called'[r] = n /\ job' = job /\ left' = left /\ called[r] \in Nat
          /\ n # Goodbye /\ job[r][n] = "none"
      BY <1>0, <1>1, <1>3 DEF TypeOK, dpuVars, WireInv, NoneLost, Goodbye, Op
    <2>0. \A k \in 1 .. Len(wire[r]) : wire[r][k] # Goodbye /\ wire[r][k] < n
      BY <1>0, <1>1, <2>1, <2>2 DEF WireInv, Waiting, GoodbyeSaid, Op
    <2>3. Waiting(r)'
      <3> SUFFICES ASSUME NEW k \in 1 .. Len(wire[r]) + 1
                   PROVE  /\ job[r][wire'[r][k]] = "none" /\ wire'[r][k] <= n
                          /\ \A o \in Op : job[r][o] # "none" => o < wire'[r][k]
        BY <2>1, <2>2 DEF Waiting
      <3>1. CASE k = Len(wire[r]) + 1
        BY <1>0, <1>1, <2>1, <2>2, <3>1 DEF WireInv, NoneLost, Op
      <3>2. CASE k \in 1 .. Len(wire[r])
        <4>1. job[r][wire[r][k]] = "none" /\ \A o \in Op : job[r][o] # "none" => o < wire[r][k]
          BY <1>0, <2>0, <2>1, <3>2 DEF WireInv, Waiting
        <4>2. wire[r][k] \in Op /\ wire[r][k] < n
          BY <2>0, <2>1, <3>2 DEF Goodbye
        <4>3. QED
          BY <1>1, <2>1, <3>2, <4>1, <4>2 DEF Op
      <3>3. QED
        BY <2>1, <3>1, <3>2
    <2>4. WireOrdered(r)'
      <3> SUFFICES ASSUME NEW i \in 1 .. Len(wire[r]) + 1, NEW j \in 1 .. Len(wire[r]) + 1, i < j
                   PROVE  /\ wire'[r][i] # Goodbye
                          /\ wire'[r][j] # Goodbye => wire'[r][i] < wire'[r][j]
        BY <2>1 DEF WireOrdered
      <3>1. i \in 1 .. Len(wire[r]) /\ wire'[r][i] = wire[r][i]
        BY <2>1
      <3>2. CASE j = Len(wire[r]) + 1
        BY <2>0, <2>1, <3>1, <3>2
      <3>3. CASE j \in 1 .. Len(wire[r])
        BY <1>0, <2>1, <3>1, <3>3 DEF WireInv, WireOrdered
      <3>4. QED
        BY <2>1, <3>2, <3>3
    <2>5. GoodbyeSaid(r)'
      BY <1>0, <2>1, <2>2 DEF WireInv, GoodbyeSaid
    <2>6. NoneLost(r)'
      <3> SUFFICES ASSUME NEW o \in Op
                   PROVE  /\ o > n => job[r][o] = "none"
                          /\ o <= n /\ job[r][o] = "none" =>
                               \E k \in 1 .. Len(wire[r]) + 1 : wire'[r][k] = o
        BY <2>1, <2>2 DEF NoneLost
      <3>1. /\ o > called[r] => job[r][o] = "none"
            /\ o <= called[r] /\ job[r][o] = "none" => \E k \in 1 .. Len(wire[r]) : wire[r][k] = o
        BY <1>0, <2>1 DEF WireInv, NoneLost
      <3>2. o <= n => o = n \/ o <= called[r]
        BY <2>2 DEF Op
      <3>3. o > n => o > called[r]
        BY <2>2 DEF Op
      <3>4. QED
        BY <2>1, <2>2, <3>1, <3>2, <3>3
    <2>7. QED
      BY <2>3, <2>4, <2>5, <2>6 DEF WireInv
  <1>8. QED
    BY <1>4, <1>5, <1>6, <1>7, RankStep

LEMMA PostsStep ==
  ASSUME OffloadInv, NEW r \in Rank, HostPosts(r)
  PROVE  OffloadInv'
  <1>0. TypeOK /\ WireInv(r) /\ ResultInv(r)
    BY DEF OffloadInv
  <1>1. recv' = [recv EXCEPT ![r] = Posted] /\ UNCHANGED <<called, told, tested, left, received, wire, dpuVars>>
    BY DEF HostPosts
  <1>2. TypeOK'
    BY <1>0, <1>1 DEF TypeOK, dpuVars
  <1>3. Only(r)
    BY <1>0, <1>1 DEF TypeOK, Only, dpuVars
  <1>4. FlightInv(r)' /\ CollInv(r)' /\ WireInv(r)' /\ Len(coll[r]) <= Len(coll'[r])
    BY <1>0, <1>1, HostStep, WireKept DEF dpuVars
  <1>5. ResultInv(r)'
    <2>1. \A o \in Op : Known(r, o)' => Known(r, o)
      BY <1>0, <1>1 DEF Known, TypeOK, Posted, Op
    <2>2. \A i \in DOMAIN sq[r] : sq[r][i].op \in Op
      BY <1>0, Requests
    <2>3. QED
      BY <1>0, <1>1, <2>1, <2>2 DEF ResultInv, dpuVars
  <1>6. QED
    BY <1>2, <1>3, <1>4, <1>5, RankStep

LEMMA PollsStep ==
  ASSUME OffloadInv, NEW r \in Rank, HostPolls(r)
  PROVE  OffloadInv'
  <1>0. TypeOK /\ WireInv(r) /\ ResultInv(r)
    BY DEF OffloadInv
  <1>1. /\ recv[r] \in Op /\ recv' = [recv EXCEPT ![r] = None]
        /\ told' = [told EXCEPT ![r] = @ \cup {recv[r]}]
        /\ UNCHANGED <<called, tested, left, received, wire, dpuVars>>
    BY DEF HostPolls, Arrived, UsedUp
  <1>2. TypeOK'
    BY <1>0, <1>1 DEF TypeOK, dpuVars
  <1>3. Only(r)
    BY <1>0, <1>1 DEF TypeOK, Only, dpuVars
  <1>4. FlightInv(r)' /\ CollInv(r)' /\ WireInv(r)' /\ Len(coll[r]) <= Len(coll'[r])
    BY <1>0, <1>1, HostStep, WireKept DEF dpuVars
  <1>5. ResultInv(r)'
    <2>1. \A o \in Op : Known(r, o)' => Known(r, o)
      BY <1>0, <1>1 DEF Known, TypeOK, None, Op
    <2>2. \A i \in DOMAIN sq[r] : sq[r][i].op \in Op
      BY <1>0, Requests
    <2>3. tested'[r] \subseteq told'[r]
      BY <1>0, <1>1 DEF ResultInv, TypeOK
    <2>4. QED
      BY <1>0, <1>1, <2>1, <2>2, <2>3 DEF ResultInv, dpuVars
  <1>6. QED
    BY <1>2, <1>3, <1>4, <1>5, RankStep

LEMMA TestsStep ==
  ASSUME OffloadInv, NEW r \in Rank, NEW o \in Op, HostTests(r, o)
  PROVE  OffloadInv'
  <1>0. TypeOK /\ WireInv(r) /\ ResultInv(r)
    BY DEF OffloadInv
  <1>1. /\ o \in told[r] /\ tested' = [tested EXCEPT ![r] = @ \cup {o}]
        /\ UNCHANGED <<called, recv, told, left, received, wire, dpuVars>>
    BY DEF HostTests, Booked
  <1>2. TypeOK'
    BY <1>0, <1>1 DEF TypeOK, dpuVars
  <1>3. Only(r)
    BY <1>0, <1>1 DEF TypeOK, Only, dpuVars
  <1>4. FlightInv(r)' /\ CollInv(r)' /\ WireInv(r)' /\ Len(coll[r]) <= Len(coll'[r])
    BY <1>0, <1>1, HostStep, WireKept DEF dpuVars
  <1>5. ResultInv(r)'
    <2>1. tested'[r] \subseteq told'[r]
      BY <1>0, <1>1 DEF ResultInv, TypeOK
    <2>2. QED
      BY <1>0, <1>1, <2>1 DEF ResultInv, Known, dpuVars
  <1>6. QED
    BY <1>2, <1>3, <1>4, <1>5, RankStep

\* What the server's loop sees of its receive queue.
LEMMA WireFacts ==
  ASSUME TypeOK, NEW r \in Rank
  PROVE  /\ Len(wire[r]) \in Nat /\ DOMAIN wire[r] = 1 .. Len(wire[r])
         /\ \A k \in 1 .. Len(wire[r]) : wire[r][k] \in Op \cup {Goodbye}
         /\ wire[r] # <<>> =>
              /\ Head(wire[r]) = wire[r][1] /\ Len(wire[r]) > 0
              /\ Tail(wire[r]) \in Seq(Op \cup {Goodbye})
              /\ DOMAIN Tail(wire[r]) = 1 .. Len(wire[r]) - 1
              /\ \A k \in 1 .. Len(wire[r]) - 1 : Tail(wire[r])[k] = wire[r][k + 1]
  <1>1. wire[r] \in Seq(Op \cup {Goodbye})
    BY DEF TypeOK
  <1>2. /\ Len(wire[r]) \in Nat /\ DOMAIN wire[r] = 1 .. Len(wire[r])
        /\ \A k \in 1 .. Len(wire[r]) : wire[r][k] \in Op \cup {Goodbye}
    BY <1>1, LenProperties, ElementOfSeq
  <1>3. QED
    BY <1>1, <1>2, QueueTail

LEMMA ExitsStep ==
  ASSUME OffloadInv, NEW r \in Rank, HostExits(r)
  PROVE  OffloadInv'
  <1>0. TypeOK /\ WireInv(r) /\ ResultInv(r)
    BY DEF OffloadInv
  <1>1. /\ left' = [left EXCEPT ![r] = TRUE] /\ wire' = [wire EXCEPT ![r] = Append(@, Goodbye)]
        /\ UNCHANGED <<called, recv, told, tested, received, dpuVars>> /\ ~left[r]
    BY DEF HostExits
  <1>2. TypeOK'
    BY <1>0, <1>1, AppendProperties DEF TypeOK, dpuVars
  <1>3. Only(r)
    BY <1>0, <1>1 DEF TypeOK, Only, dpuVars
  <1>4. FlightInv(r)' /\ CollInv(r)' /\ ResultInv(r)' /\ Len(coll[r]) <= Len(coll'[r])
    BY <1>0, <1>1, <1>2, HostStep, ResultKept DEF dpuVars, TypeOK
  <1>5. WireInv(r)'
    <2>1. /\ DOMAIN wire[r] = 1 .. Len(wire[r]) /\ Len(wire[r]) \in Nat
          /\ DOMAIN wire'[r] = 1 .. Len(wire[r]) + 1
          /\ \A k \in 1 .. Len(wire[r]) : wire'[r][k] = wire[r][k] /\ wire[r][k] # Goodbye
          /\ wire'[r][Len(wire[r]) + 1] = Goodbye
      <3>1. wire[r] \in Seq(Op \cup {Goodbye}) /\ wire'[r] = Append(wire[r], Goodbye)
        BY <1>0, <1>1 DEF TypeOK
      <3>2. QED
        BY <1>0, <1>1, <3>1, QueueAppend DEF WireInv, GoodbyeSaid
    <2>2. called' = called /\ job' = job /\ left'[r] = TRUE
      BY <1>0, <1>1 DEF TypeOK, dpuVars
    <2>3. Waiting(r)'
      BY <1>0, <2>1, <2>2 DEF WireInv, Waiting
    <2>4. WireOrdered(r)'
      BY <1>0, <2>1 DEF WireInv, WireOrdered
    <2>5. GoodbyeSaid(r)'
      BY <2>2 DEF GoodbyeSaid
    <2>6. NoneLost(r)'
      BY <1>0, <2>1, <2>2 DEF WireInv, NoneLost
    <2>7. QED
      BY <2>3, <2>4, <2>5, <2>6 DEF WireInv
  <1>6. QED
    BY <1>2, <1>3, <1>4, <1>5, RankStep

LEMMA LeavesStep ==
  ASSUME OffloadInv, NEW r \in Rank, ServerLeaves(r)
  PROVE  OffloadInv'
  <1>0. TypeOK /\ WireInv(r) /\ ResultInv(r) /\ FlightInv(r) /\ CollInv(r)
    BY DEF OffloadInv
  <1>1. /\ wire[r] # <<>> /\ Goodbye = Head(wire[r]) /\ wire' = [wire EXCEPT ![r] = Tail(@)]
        /\ server' = [server EXCEPT ![r] = "disconnected"]
        /\ UNCHANGED <<hostVars, received, job, sq, cq, coll>>
    BY DEF ServerLeaves, Message
  <1>2. TypeOK'
    <2>1. Tail(wire[r]) \in Seq(Op \cup {Goodbye})
      BY <1>0, <1>1, WireFacts
    <2>2. QED
      BY <1>0, <1>1, <2>1 DEF TypeOK, hostVars
  <1>3. Only(r)
    BY <1>0, <1>1 DEF TypeOK, Only, hostVars
  <1>4. \A q \in Rank : Len(coll[q]) <= Len(coll'[q])
    BY <1>0, <1>1, LenProperties DEF TypeOK
  <1>5. FlightInv(r)' /\ CollInv(r)' /\ ResultInv(r)'
    BY <1>0, <1>1, <1>2, <1>4, FlightKept, SameFlight, CollKept, ResultKept DEF hostVars, TypeOK
  <1>6. WireInv(r)'
    <2>0. /\ Len(wire[r]) \in Nat /\ Len(wire[r]) > 0 /\ DOMAIN wire[r] = 1 .. Len(wire[r])
          /\ wire[r][1] = Goodbye /\ wire'[r] = Tail(wire[r])
          /\ DOMAIN Tail(wire[r]) = 1 .. Len(wire[r]) - 1
      <3>1. wire'[r] = Tail(wire[r])
        BY <1>0, <1>1 DEF TypeOK
      <3>2. QED
        BY <1>0, <1>1, <3>1, WireFacts
    <2>1. Len(wire[r]) = 1
      <3>1. \A i, j \in DOMAIN wire[r] : i < j => wire[r][i] # Goodbye
        BY <1>0 DEF WireInv, WireOrdered
      <3>2. ASSUME Len(wire[r]) > 1 PROVE FALSE
        <4>1. 1 \in DOMAIN wire[r] /\ 2 \in DOMAIN wire[r]
          BY <2>0, <3>2
        <4>2. QED
          BY <2>0, <3>1, <4>1
      <3>3. \A n \in Nat : n > 0 /\ ~(n > 1) => n = 1
        OBVIOUS
      <3>4. Len(wire[r]) \in Nat /\ Len(wire[r]) > 0 /\ ~(Len(wire[r]) > 1)
        BY <2>0, <3>2
      <3>5. QED
        BY <3>3, <3>4
    <2>2. DOMAIN wire'[r] = {} /\ wire'[r] = Tail(wire[r])
      BY <2>0, <2>1
    <2>3. NoneLost(r)'
      BY <1>0, <1>1, <2>1, WireFacts DEF WireInv, NoneLost, hostVars, Goodbye, Op
    <2>4. QED
      BY <2>2, <2>3 DEF WireInv, Waiting, WireOrdered, GoodbyeSaid
  <1>7. QED
    BY <1>2, <1>3, <1>4, <1>5, <1>6, RankStep

LEMMA FailsStep ==
  ASSUME OffloadInv, NEW r \in Rank, ServerFails(r)
  PROVE  OffloadInv'
  <1>0. TypeOK /\ WireInv(r) /\ ResultInv(r) /\ FlightInv(r) /\ CollInv(r)
    BY DEF OffloadInv
  <1>1. server' = [server EXCEPT ![r] = "failed"] /\ UNCHANGED <<hostVars, received, wire, job, sq, cq, coll>>
    BY DEF ServerFails
  <1>2. TypeOK'
    BY <1>0, <1>1 DEF TypeOK, hostVars
  <1>3. Only(r)
    BY <1>1 DEF Only, hostVars
  <1>4. \A q \in Rank : Len(coll[q]) <= Len(coll'[q])
    BY <1>0, <1>1, LenProperties DEF TypeOK
  <1>5. QED
    BY <1>0, <1>1, <1>2, <1>3, <1>4, RankStep, WireKept, FlightKept, SameFlight, CollKept, ResultKept
       DEF hostVars, TypeOK

LEMMA AcceptsStep ==
  ASSUME OffloadInv, NEW r \in Rank, NEW o \in Op, ServerAccepts(r, o)
  PROVE  OffloadInv'
  <1> DEFINE wr == [op |-> o, opcode |-> "READ"]
  <1>0. TypeOK /\ WireInv(r) /\ ResultInv(r) /\ FlightInv(r) /\ CollInv(r)
    BY DEF OffloadInv
  <1>1. /\ wire[r] # <<>> /\ o = Head(wire[r]) /\ wire' = [wire EXCEPT ![r] = Tail(@)]
        /\ job' = [job EXCEPT ![r][o] = "RS_READ"]
        /\ sq' = [sq EXCEPT ![r] = Append(@, wr)]
        /\ UNCHANGED <<hostVars, received, cq, coll, server>>
    BY DEF ServerAccepts, Message, Post
  <1>2. wr \in Request /\ sq[r] \in Seq(Request) /\ cq[r] \in Seq(Request)
    BY <1>0, Requests DEF Request
  <1>3. TypeOK'
    <2>1. Tail(wire[r]) \in Seq(Op \cup {Goodbye}) /\ Append(sq[r], wr) \in Seq(Request)
      BY <1>0, <1>1, <1>2, WireFacts, AppendProperties
    <2>2. QED
      BY <1>0, <1>1, <2>1 DEF TypeOK, hostVars, JobStatus
  <1>4. Only(r)
    BY <1>0, <1>1 DEF TypeOK, Only, hostVars
  <1>5. Len(coll[r]) <= Len(coll'[r])
    BY <1>0, <1>1, LenProperties DEF TypeOK
  <1>6. /\ wire[r][1] = o /\ o # Goodbye /\ 1 \in DOMAIN wire[r] /\ wire'[r] = Tail(wire[r])
        /\ job'[r][o] = "RS_READ" /\ \A p \in Op \ {o} : job'[r][p] = job[r][p]
    <2>1. wire'[r] = Tail(wire[r])
      BY <1>0, <1>1 DEF TypeOK
    <2>2. job'[r][o] = "RS_READ" /\ \A p \in Op \ {o} : job'[r][p] = job[r][p]
      BY <1>0, <1>1 DEF TypeOK
    <2>3. wire[r][1] = o /\ o # Goodbye /\ 1 \in DOMAIN wire[r]
      BY <1>0, <1>1, WireFacts DEF Goodbye, Op
    <2>4. QED
      BY <2>1, <2>2, <2>3
  <1>7. job[r][o] = "none" /\ o <= called[r] /\ \A p \in Op : job[r][p] # "none" => p < o
    BY <1>0, <1>6 DEF WireInv, Waiting
  <1>8. WireInv(r)'
    <2>1. ASSUME NEW k \in DOMAIN wire'[r]
          PROVE  k + 1 \in DOMAIN wire[r] /\ k \in Nat /\ wire'[r][k] = wire[r][k + 1]
                 /\ (wire'[r][k] # Goodbye => o < wire'[r][k])
      <3>1. k \in 1 .. Len(wire[r]) - 1 /\ Len(wire[r]) \in Nat
        BY <1>0, <1>1, <1>6, <2>1, WireFacts
      <3>2. k + 1 \in DOMAIN wire[r] /\ wire'[r][k] = wire[r][k + 1] /\ 1 < k + 1
        <4>1. k + 1 \in 1 .. Len(wire[r]) /\ 1 < k + 1
          BY <3>1
        <4>2. Tail(wire[r])[k] = wire[r][k + 1] /\ DOMAIN wire[r] = 1 .. Len(wire[r])
          BY <1>0, <1>1, <3>1, WireFacts
        <4>3. QED
          BY <1>6, <4>1, <4>2
      <3>3. QED
        BY <1>0, <1>6, <3>1, <3>2 DEF WireInv, WireOrdered
    <2>2. Waiting(r)'
      <3> SUFFICES ASSUME NEW k \in DOMAIN wire'[r], wire'[r][k] # Goodbye
                   PROVE  /\ job'[r][wire'[r][k]] = "none" /\ wire'[r][k] <= called[r]
                          /\ \A p \in Op : job'[r][p] # "none" => p < wire'[r][k]
        BY <1>1 DEF Waiting, hostVars
      <3>1. wire'[r][k] \in Op /\ o < wire'[r][k]
        BY <1>0, <2>1, WireFacts DEF Goodbye
      <3>2. /\ job[r][wire'[r][k]] = "none" /\ wire'[r][k] <= called[r]
            /\ \A p \in Op : job[r][p] # "none" => p < wire'[r][k]
        BY <1>0, <2>1 DEF WireInv, Waiting
      <3>3. QED
        BY <1>6, <3>1, <3>2 DEF Op
    <2>3. WireOrdered(r)'
      <3> SUFFICES ASSUME NEW i \in DOMAIN wire'[r], NEW j \in DOMAIN wire'[r], i < j
                   PROVE  wire'[r][i] # Goodbye /\ (wire'[r][j] # Goodbye => wire'[r][i] < wire'[r][j])
        BY DEF WireOrdered
      <3>1. i + 1 < j + 1
        BY <2>1
      <3>2. QED
        BY <1>0, <2>1, <3>1 DEF WireInv, WireOrdered
    <2>4. GoodbyeSaid(r)'
      BY <1>0, <1>1, <2>1 DEF WireInv, GoodbyeSaid, hostVars
    <2>5. NoneLost(r)'
      <3> SUFFICES ASSUME NEW p \in Op
                   PROVE  /\ p > called[r] => job'[r][p] = "none"
                          /\ p <= called[r] /\ job'[r][p] = "none" =>
                               \E k \in DOMAIN wire'[r] : wire'[r][k] = p
        BY <1>1 DEF NoneLost, hostVars
      <3>1. p > called[r] => p # o /\ job'[r][p] = "none"
        <4>1. called[r] \in Nat /\ (p > called[r] => job[r][p] = "none")
          BY <1>0 DEF WireInv, NoneLost, TypeOK
        <4>2. p > called[r] => p # o
          BY <1>7, <4>1 DEF Op
        <4>3. QED
          BY <1>6, <4>1, <4>2
      <3>2. ASSUME p <= called[r], job'[r][p] = "none"
            PROVE  \E k \in DOMAIN wire'[r] : wire'[r][k] = p
        <4>1. p # o /\ job[r][p] = "none"
          BY <1>6, <3>2
        <4>2. PICK k \in DOMAIN wire[r] : wire[r][k] = p
          BY <1>0, <3>2, <4>1 DEF WireInv, NoneLost
        <4>3. k - 1 \in DOMAIN wire'[r] /\ wire'[r][k - 1] = p
          <5>1. k \in 1 .. Len(wire[r]) /\ k # 1 /\ Len(wire[r]) \in Nat
            BY <1>0, <1>6, <4>1, <4>2, WireFacts
          <5>2. k - 1 \in 1 .. Len(wire[r]) - 1 /\ (k - 1) + 1 = k
            BY <5>1
          <5>3. QED
            BY <1>0, <1>1, <1>6, <4>2, <5>2, WireFacts
        <4>4. QED
          BY <4>3
      <3>3. QED
        BY <3>1, <3>2
    <2>6. QED
      BY <2>2, <2>3, <2>4, <2>5 DEF WireInv
  <1>9. FlightInv(r)'
    <2>1. ASSUME NEW i \in DOMAIN Flight(r) PROVE Flight(r)[i].op # o /\ Flight(r)[i].op < o
      <3>1. Flight(r)[i].op \in Op
        BY <1>0, Requests
      <3>2. job[r][Flight(r)[i].op] # "none"
        BY <1>0 DEF FlightInv
      <3>3. QED
        BY <1>7, <3>1, <3>2
    <2>2. sq'[r] = Append(sq[r], wr) /\ cq'[r] = cq[r]
      BY <1>0, <1>1 DEF TypeOK
    <2>3. QED
      BY <1>0, <1>2, <1>6, <2>1, <2>2, FlightPost
  <1>10. CollInv(r)'
    BY <1>0, <1>1, <1>6, <1>7 DEF CollInv
  <1>11. ResultInv(r)'
    <2>1. \A p \in Op : Known(r, p)' <=> Known(r, p)
      BY <1>1 DEF Known, hostVars
    <2>2. ~Known(r, o)
      BY <1>0, <1>7 DEF ResultInv
    <2>3. \A i \in DOMAIN sq'[r] : sq'[r][i].opcode = "WRITE" => i \in DOMAIN sq[r] /\ sq'[r][i] = sq[r][i]
      <3>1. sq'[r] = Append(sq[r], wr)
        BY <1>0, <1>1 DEF TypeOK
      <3>2. /\ DOMAIN sq'[r] = 1 .. Len(sq[r]) + 1 /\ DOMAIN sq[r] = 1 .. Len(sq[r])
            /\ \A i \in 1 .. Len(sq[r]) : sq'[r][i] = sq[r][i]
            /\ sq'[r][Len(sq[r]) + 1] = wr /\ Len(sq[r]) \in Nat
        BY <1>2, <3>1, QueueAppend
      <3>3. QED
        BY <3>2
    <2>4. \A i \in DOMAIN sq'[r] : sq'[r][i].opcode = "WRITE" => ~Known(r, sq[r][i].op)'
      <3> SUFFICES ASSUME NEW i \in DOMAIN sq'[r], sq'[r][i].opcode = "WRITE"
                   PROVE  ~Known(r, sq[r][i].op)'
        OBVIOUS
      <3>1. sq[r][i] = sq'[r][i] /\ i \in DOMAIN sq[r] /\ sq[r][i].op \in Op
        BY <1>0, <2>3, Requests
      <3>2. ~Known(r, sq[r][i].op)
        BY <1>0, <3>1 DEF ResultInv
      <3>3. QED
        BY <1>1, <3>1, <3>2 DEF Known, hostVars
    <2>5. \A p \in Op : Known(r, p)' => /\ job'[r][p] \in {"RS_PUT", "RS_CPIN"}
                                        /\ received'[r][p] = [q \in Rank |-> p]
      BY <1>0, <1>1, <1>6, <2>1, <2>2 DEF ResultInv
    <2>6. \A p \in Op : job'[r][p] \in {"RS_PUT", "RS_CPIN"} => \A q \in Rank : p <= Len(coll'[q])
      BY <1>0, <1>1, <1>6 DEF ResultInv
    <2>7. QED
      BY <1>0, <1>1, <2>4, <2>5, <2>6 DEF ResultInv, hostVars
  <1>12. QED
    BY <1>3, <1>4, <1>5, <1>8, <1>9, <1>10, <1>11, RankStep

\* A job that moves on is still a job.
LEMMA JobsMove ==
  ASSUME TypeOK, NEW r \in Rank, WireInv(r), called'[r] = called[r], left'[r] = left[r],
         wire'[r] = wire[r], \A p \in Op : job'[r][p] = "none" <=> job[r][p] = "none"
  PROVE  WireInv(r)'
  <1>1. Waiting(r)'
    <2>1. \A k \in DOMAIN wire[r] : wire[r][k] # Goodbye => wire[r][k] \in Op
      BY WireFacts
    <2>2. QED
      BY <2>1 DEF WireInv, Waiting
  <1>2. WireOrdered(r)' /\ GoodbyeSaid(r)'
    BY DEF WireInv, WireOrdered, GoodbyeSaid
  <1>3. NoneLost(r)'
    BY DEF WireInv, NoneLost
  <1>4. QED
    BY <1>1, <1>2, <1>3 DEF WireInv

\* A collective is started: it is the next operation, because the reads are
\* polled in the order of the requests.
LEMMA StartCollectiveStep ==
  ASSUME OffloadInv, NEW r \in Rank, NEW o \in Op, StartCollective(r, o)
  PROVE  OffloadInv'
  <1> DEFINE wr == [op |-> o, opcode |-> "READ"]
             n == Len(coll[r])
  <1>0. TypeOK /\ WireInv(r) /\ ResultInv(r) /\ FlightInv(r) /\ CollInv(r)
    BY DEF OffloadInv
  <1>1. /\ cq[r] # <<>> /\ wr = Head(cq[r]) /\ cq' = [cq EXCEPT ![r] = Tail(@)]
        /\ job[r][o] = "RS_READ" /\ job' = [job EXCEPT ![r][o] = "RS_MPI"]
        /\ coll' = [coll EXCEPT ![r] = Append(@, o)]
        /\ UNCHANGED <<hostVars, received, wire, sq, server>>
    BY DEF StartCollective, Polled
  <1>2. /\ cq'[r] = Tail(cq[r]) /\ coll'[r] = Append(coll[r], o) /\ job'[r][o] = "RS_MPI"
        /\ \A p \in Op \ {o} : job'[r][p] = job[r][p]
    BY <1>0, <1>1 DEF TypeOK
  <1>3. coll[r] \in Seq(Op) /\ cq[r] \in Seq(Request)
    BY <1>0 DEF TypeOK
  <1>4. TypeOK'
    <2>1. Tail(cq[r]) \in Seq(Request) /\ Append(coll[r], o) \in Seq(Op)
      BY <1>1, <1>3, QueueTail, AppendProperties
    <2>2. QED
      BY <1>0, <1>1, <2>1 DEF TypeOK, hostVars, JobStatus
  <1>5. Only(r)
    BY <1>0, <1>1 DEF TypeOK, Only, hostVars
  <1>6. /\ n \in Nat /\ DOMAIN coll[r] = 1 .. n /\ DOMAIN coll'[r] = 1 .. n + 1
        /\ \A k \in 1 .. n : coll'[r][k] = coll[r][k]
        /\ coll'[r][n + 1] = o /\ Len(coll'[r]) = n + 1
    BY <1>2, <1>3, QueueAppend
  <1>7. FlightInv(r)' /\ 1 \in DOMAIN Flight(r) /\ Flight(r)[1] = wr
    <2>1. sq'[r] = sq[r] /\ wr.op = o
      BY <1>1
    <2>2. QED
      BY <1>0, <1>1, <1>2, <2>1, FlightPoll
  <1>8. o = n + 1
    <2>1. ~(o <= n)
      BY <1>0, <1>1 DEF CollInv
    <2>2. ASSUME n + 1 < o PROVE FALSE
      <3> DEFINE p == n + 1
      <3>1. p \in Op /\ p # o
        BY <1>6, <2>2, OffloadAssumption DEF Op
      <3>2. job[r][p] \notin {"RS_MPI", "RS_PUT", "RS_CPIN"}
        BY <1>0, <1>6, <3>1 DEF CollInv
      <3>3. CASE job[r][p] = "none"
        <4>1. o <= called[r] /\ called[r] \in Nat
          <5>1. called[r] \in Nat
            BY <1>0 DEF TypeOK
          <5>2. ~(o > called[r])
            BY <1>0, <1>1 DEF WireInv, NoneLost
          <5>3. QED
            BY <5>1, <5>2 DEF Op
        <4>2. p <= called[r]
          BY <1>6, <2>2, <4>1 DEF Op
        <4>3. PICK k \in DOMAIN wire[r] : wire[r][k] = p
          BY <1>0, <3>1, <3>3, <4>2 DEF WireInv, NoneLost
        <4>4. p # Goodbye
          BY <3>1 DEF Op, Goodbye
        <4>5. o < p
          BY <1>0, <1>1, <4>3, <4>4 DEF WireInv, Waiting
        <4>6. QED
          BY <1>6, <2>2, <4>5 DEF Op
      <3>4. CASE job[r][p] = "RS_READ"
        <4>1. PICK i \in DOMAIN Flight(r) : Flight(r)[i] = [op |-> p, opcode |-> "READ"]
          BY <1>0, <3>1, <3>4 DEF FlightInv
        <4>2. i # 1
          BY <1>7, <3>1, <4>1
        <4>3. 1 < i
          BY <1>0, <4>1, <4>2, Requests, LenProperties
        <4>4. o < p
          BY <1>0, <1>7, <4>1, <4>3 DEF FlightInv
        <4>5. QED
          BY <1>6, <2>2, <4>4 DEF Op
      <3>5. QED
        BY <1>0, <3>1, <3>2, <3>3, <3>4 DEF TypeOK, JobStatus
    <2>3. QED
      BY <1>6, <2>1, <2>2 DEF Op
  <1>9. CollInv(r)'
    <2>1. \A k \in DOMAIN coll'[r] : coll'[r][k] = k
      BY <1>0, <1>6, <1>8 DEF CollInv
    <2>2. ASSUME NEW p \in Op
          PROVE  job'[r][p] \in {"RS_MPI", "RS_PUT", "RS_CPIN"} <=> p <= n + 1
      <3>1. job[r][p] \in {"RS_MPI", "RS_PUT", "RS_CPIN"} <=> p <= n
        BY <1>0 DEF CollInv
      <3>2. p <= n + 1 <=> p <= n \/ p = o
        BY <1>6, <1>8 DEF Op
      <3>3. QED
        BY <1>2, <3>1, <3>2
    <2>3. QED
      BY <1>6, <2>1, <2>2 DEF CollInv
  <1>10. WireInv(r)'
    <2>1. \A p \in Op : job'[r][p] = "none" <=> job[r][p] = "none"
      BY <1>1, <1>2
    <2>2. QED
      BY <1>0, <1>1, <2>1, JobsMove DEF hostVars
  <1>11. ResultInv(r)'
    <2>1. \A p \in Op : Known(r, p)' => Known(r, p) /\ p # o
      BY <1>0, <1>1 DEF Known, hostVars, ResultInv
    <2>2. \A p \in Op : Known(r, p)' => /\ job'[r][p] \in {"RS_PUT", "RS_CPIN"}
                                        /\ received'[r][p] = [q \in Rank |-> p]
      BY <1>0, <1>1, <1>2, <2>1 DEF ResultInv
    <2>3. \A q \in Rank : Len(coll[q]) \in Nat /\ Len(coll'[q]) \in Nat /\ Len(coll[q]) <= Len(coll'[q])
      <3>1. \A q \in Rank : coll[q] \in Seq(Op) /\ coll'[q] \in Seq(Op)
        BY <1>0, <1>4 DEF TypeOK
      <3>2. \A q \in Rank \ {r} : coll'[q] = coll[q]
        BY <1>5 DEF Only
      <3>3. \A q \in Rank : Len(coll[q]) \in Nat /\ Len(coll'[q]) \in Nat
        BY <3>1, LenProperties
      <3>4. QED
        BY <1>6, <3>2, <3>3
    <2>4. ASSUME NEW p \in Op, job'[r][p] \in {"RS_PUT", "RS_CPIN"}, NEW q \in Rank
          PROVE  p <= Len(coll'[q])
      <3>1. p <= Len(coll[q])
        BY <1>0, <1>2, <2>4 DEF ResultInv
      <3>2. QED
        BY <2>3, <3>1 DEF Op
    <2>5. \A i \in DOMAIN sq'[r] : sq'[r][i].opcode = "WRITE" => ~Known(r, sq[r][i].op)'
      BY <1>0, <1>1 DEF ResultInv, Known, hostVars
    <2>6. QED
      BY <1>0, <1>1, <2>2, <2>4, <2>5 DEF ResultInv, hostVars
  <1>12. Len(coll[r]) <= Len(coll'[r])
    BY <1>6
  <1>13. QED
    BY <1>4, <1>5, <1>7, <1>9, <1>10, <1>11, <1>12, RankStep

LEMMA CompleteStep ==
  ASSUME OffloadInv, NEW r \in Rank, NEW o \in Op, CompleteJob(r, o)
  PROVE  OffloadInv'
  <1> DEFINE wr == [op |-> o, opcode |-> "WRITE"]
  <1>0. TypeOK /\ WireInv(r) /\ ResultInv(r) /\ FlightInv(r) /\ CollInv(r)
    BY DEF OffloadInv
  <1>1. /\ cq[r] # <<>> /\ wr = Head(cq[r]) /\ cq' = [cq EXCEPT ![r] = Tail(@)]
        /\ job[r][o] = "RS_PUT" /\ job' = [job EXCEPT ![r][o] = "RS_CPIN"]
        /\ UNCHANGED <<hostVars, received, wire, sq, coll, server>>
    BY DEF CompleteJob, Polled
  <1>2. /\ cq'[r] = Tail(cq[r]) /\ job'[r][o] = "RS_CPIN"
        /\ \A p \in Op \ {o} : job'[r][p] = job[r][p]
    BY <1>0, <1>1 DEF TypeOK
  <1>3. TypeOK'
    <2>1. cq[r] \in Seq(Request)
      BY <1>0 DEF TypeOK
    <2>2. Tail(cq[r]) \in Seq(Request)
      BY <1>1, <2>1, QueueTail
    <2>3. QED
      BY <1>0, <1>1, <2>2 DEF TypeOK, hostVars, JobStatus
  <1>4. Only(r)
    BY <1>0, <1>1 DEF TypeOK, Only, hostVars
  <1>5. FlightInv(r)'
    <2>1. sq'[r] = sq[r] /\ wr.op = o
      BY <1>1
    <2>2. QED
      BY <1>0, <1>1, <1>2, <2>1, FlightPoll
  <1>6. CollInv(r)'
    BY <1>0, <1>1, <1>2 DEF CollInv
  <1>7. WireInv(r)'
    <2>1. \A p \in Op : job'[r][p] = "none" <=> job[r][p] = "none"
      BY <1>1, <1>2
    <2>2. QED
      BY <1>0, <1>1, <2>1, JobsMove DEF hostVars
  <1>8. ResultInv(r)'
    <2>1. \A p \in Op : job'[r][p] \in {"RS_PUT", "RS_CPIN"} <=> job[r][p] \in {"RS_PUT", "RS_CPIN"}
      BY <1>1, <1>2
    <2>2. \A p \in Op : Known(r, p)' = Known(r, p)
      BY <1>1 DEF Known, hostVars
    <2>3. \A i \in DOMAIN sq'[r] : sq'[r][i].opcode = "WRITE" => ~Known(r, sq[r][i].op)'
      BY <1>0, <1>1 DEF ResultInv, Known, hostVars
    <2>4. QED
      BY <1>0, <1>1, <2>1, <2>2, <2>3 DEF ResultInv, hostVars
  <1>9. Len(coll[r]) <= Len(coll'[r])
    BY <1>0, <1>1, LenProperties DEF TypeOK
  <1>10. QED
    BY <1>3, <1>4, <1>5, <1>6, <1>7, <1>8, <1>9, RankStep

\* The write of a result is posted once every rank has started the collective.
LEMMA StartWriteStep ==
  ASSUME OffloadInv, NEW r \in Rank, NEW k \in Op, StartWrite(r, k)
  PROVE  OffloadInv'
  <1> DEFINE wr == [op |-> k, opcode |-> "WRITE"]
  <1>0. TypeOK /\ WireInv(r) /\ ResultInv(r) /\ FlightInv(r) /\ CollInv(r)
    BY DEF OffloadInv
  <1>1. /\ k \in DOMAIN coll[r] /\ \A q \in Rank : k <= Len(coll[q])
        /\ coll[r][k] = k
        /\ job[r][k] = "RS_MPI" /\ job' = [job EXCEPT ![r][k] = "RS_PUT"]
        /\ sq' = [sq EXCEPT ![r] = Append(@, wr)]
        /\ UNCHANGED <<hostVars, received, wire, cq, coll, server>>
    BY <1>0 DEF StartWrite, Matched, Post, CollInv
  <1>2. wr \in Request /\ sq[r] \in Seq(Request) /\ cq[r] \in Seq(Request)
    BY <1>0, Requests DEF Request
  <1>3. TypeOK'
    <2>1. Append(sq[r], wr) \in Seq(Request)
      BY <1>2, AppendProperties
    <2>2. QED
      BY <1>0, <1>1, <2>1 DEF TypeOK, hostVars, JobStatus
  <1>4. Only(r)
    BY <1>0, <1>1 DEF TypeOK, Only, hostVars
  <1>5. Len(coll[r]) <= Len(coll'[r])
    BY <1>0, <1>1, LenProperties DEF TypeOK
  <1>6. /\ sq'[r] = Append(sq[r], wr) /\ cq'[r] = cq[r] /\ job'[r][k] = "RS_PUT"
        /\ \A p \in Op \ {k} : job'[r][p] = job[r][p]
    BY <1>0, <1>1 DEF TypeOK
  <1>7. FlightInv(r)'
    <2>1. \A i \in DOMAIN Flight(r) : Flight(r)[i].op # k
      BY <1>0, <1>1 DEF FlightInv
    <2>2. QED
      BY <1>0, <1>2, <1>6, <2>1, FlightPost
  <1>8. CollInv(r)'
    BY <1>0, <1>1, <1>6 DEF CollInv
  <1>9. WireInv(r)'
    <2>1. \A p \in Op : job'[r][p] = "none" <=> job[r][p] = "none"
      BY <1>1, <1>6
    <2>2. QED
      BY <1>0, <1>1, <2>1, JobsMove DEF hostVars
  <1>10. ResultInv(r)'
    <2>1. \A p \in Op : Known(r, p)' <=> Known(r, p)
      BY <1>1 DEF Known, hostVars
    <2>2. ~Known(r, k)
      BY <1>0, <1>1 DEF ResultInv
    <2>3. \A i \in DOMAIN sq'[r] : sq'[r][i].opcode = "WRITE" => ~Known(r, sq'[r][i].op)
      <3>1. /\ DOMAIN sq'[r] = 1 .. Len(sq[r]) + 1 /\ DOMAIN sq[r] = 1 .. Len(sq[r])
            /\ \A i \in 1 .. Len(sq[r]) : sq'[r][i] = sq[r][i]
            /\ sq'[r][Len(sq[r]) + 1] = wr /\ Len(sq[r]) \in Nat
        BY <1>2, <1>6, QueueAppend
      <3>2. ASSUME NEW i \in DOMAIN sq'[r], sq'[r][i].opcode = "WRITE" PROVE ~Known(r, sq'[r][i].op)
        <4>1. CASE i \in DOMAIN sq[r]
          BY <1>0, <3>1, <3>2, <4>1 DEF ResultInv
        <4>2. CASE i = Len(sq[r]) + 1
          BY <2>2, <3>1, <4>2
        <4>3. QED
          BY <3>1, <4>1, <4>2
      <3>3. QED
        BY <3>2
    <2>4. \A i \in DOMAIN sq'[r] : sq'[r][i].opcode = "WRITE" => ~(Known(r, sq[r][i].op)')
      BY <1>1, <2>3 DEF Known, hostVars
    <2>5. \A p \in Op : Known(r, p)' => /\ job'[r][p] \in {"RS_PUT", "RS_CPIN"}
                                        /\ received'[r][p] = [q \in Rank |-> p]
      BY <1>0, <1>1, <1>6, <2>1, <2>2 DEF ResultInv
    <2>6. \A p \in Op : job'[r][p] \in {"RS_PUT", "RS_CPIN"} => \A q \in Rank : p <= Len(coll'[q])
      BY <1>0, <1>1, <1>6 DEF ResultInv
    <2>7. QED
      BY <1>0, <1>1, <2>4, <2>5, <2>6 DEF ResultInv, hostVars
  <1>11. QED
    BY <1>3, <1>4, <1>5, <1>7, <1>8, <1>9, <1>10, RankStep

\* Where the posted work requests are in the flight.
LEMMA FlightParts ==
  ASSUME TypeOK, NEW r \in Rank
  PROVE  /\ Len(cq[r]) \in Nat /\ Len(sq[r]) \in Nat /\ DOMAIN sq[r] = 1 .. Len(sq[r])
         /\ \A k \in 1 .. Len(sq[r]) : /\ Len(cq[r]) + k \in DOMAIN Flight(r)
                                      /\ Flight(r)[Len(cq[r]) + k] = sq[r][k]
  <1>1. sq[r] \in Seq(Request) /\ cq[r] \in Seq(Request) /\ Flight(r) \in Seq(Request)
    BY Requests
  <1>2. /\ Len(Flight(r)) = Len(cq[r]) + Len(sq[r])
        /\ \A i \in 1 .. Len(cq[r]) + Len(sq[r]) :
             Flight(r)[i] = IF i <= Len(cq[r]) THEN cq[r][i] ELSE sq[r][i - Len(cq[r])]
    BY <1>1, ConcatProperties DEF Flight
  <1>3. /\ Len(cq[r]) \in Nat /\ Len(sq[r]) \in Nat /\ DOMAIN sq[r] = 1 .. Len(sq[r])
        /\ DOMAIN Flight(r) = 1 .. Len(cq[r]) + Len(sq[r])
    BY <1>1, <1>2, LenProperties
  <1>4. ASSUME NEW k \in 1 .. Len(sq[r])
        PROVE  Len(cq[r]) + k \in DOMAIN Flight(r) /\ Flight(r)[Len(cq[r]) + k] = sq[r][k]
    <2>1. /\ Len(cq[r]) + k \in 1 .. Len(cq[r]) + Len(sq[r])
          /\ ~(Len(cq[r]) + k <= Len(cq[r])) /\ (Len(cq[r]) + k) - Len(cq[r]) = k
      <3>1. \A a, b \in Nat : \A i \in 1 .. b :
              a + i \in 1 .. a + b /\ ~(a + i <= a) /\ (a + i) - a = i
        OBVIOUS
      <3>2. QED
        BY <1>3, <3>1
    <2>2. QED
      BY <1>2, <1>3, <2>1
  <1>5. QED
    BY <1>3, <1>4

\* A work request is executed.
LEMMA NicFlight ==
  ASSUME TypeOK, NEW r \in Rank, NEW wr, Executed(r, wr)
  PROVE  /\ Flight(r)' = Flight(r) /\ wr = sq[r][1]
         /\ sq'[r] = Tail(sq[r]) /\ sq' \in [Rank -> Seq(Request)] /\ cq' \in [Rank -> Seq(Request)]
         /\ DOMAIN sq'[r] = 1 .. Len(sq[r]) - 1 /\ Len(sq[r]) \in Nat \ {0}
         /\ DOMAIN sq[r] = 1 .. Len(sq[r])
         /\ \A i \in 1 .. Len(sq[r]) - 1 : sq'[r][i] = sq[r][i + 1]
         /\ \A q \in Rank \ {r} : sq'[q] = sq[q] /\ cq'[q] = cq[q]
  <1>1. sq[r] \in Seq(Request) /\ cq[r] \in Seq(Request)
    BY Requests
  <1>2. /\ sq[r] # <<>> /\ wr = Head(sq[r]) /\ sq' = [sq EXCEPT ![r] = Tail(@)]
        /\ cq' = [cq EXCEPT ![r] = Append(@, wr)]
    BY DEF Executed
  <1>3. sq'[r] = Tail(sq[r]) /\ cq'[r] = Append(cq[r], Head(sq[r]))
    BY <1>2 DEF TypeOK
  <1>4. /\ wr = sq[r][1] /\ wr \in Request /\ Tail(sq[r]) \in Seq(Request)
        /\ DOMAIN Tail(sq[r]) = 1 .. Len(sq[r]) - 1 /\ Len(sq[r]) \in Nat \ {0}
        /\ DOMAIN sq[r] = 1 .. Len(sq[r])
        /\ \A i \in 1 .. Len(sq[r]) - 1 : Tail(sq[r])[i] = sq[r][i + 1]
    BY <1>1, <1>2, QueueTail
  <1>5. Flight(r)' = Flight(r)
    <2>1. Append(cq[r], Head(sq[r])) \o Tail(sq[r]) = cq[r] \o sq[r]
      BY <1>1, <1>2, <1>4, FlightSteps
    <2>2. QED
      BY <1>3, <2>1 DEF Flight
  <1>6. sq' \in [Rank -> Seq(Request)] /\ cq' \in [Rank -> Seq(Request)]
    <2>1. Append(cq[r], wr) \in Seq(Request)
      BY <1>1, <1>4, AppendProperties
    <2>2. QED
      BY <1>2, <1>4, <2>1 DEF TypeOK
  <1>7. QED
    BY <1>2, <1>3, <1>4, <1>5, <1>6 DEF TypeOK

LEMMA NicReadsStep ==
  ASSUME OffloadInv, NEW r \in Rank, NEW o \in Op, NicReads(r, o)
  PROVE  OffloadInv'
  <1>0. TypeOK /\ WireInv(r) /\ ResultInv(r) /\ FlightInv(r) /\ CollInv(r)
    BY DEF OffloadInv
  <1>1. Executed(r, [op |-> o, opcode |-> "READ"]) /\ UNCHANGED <<hostVars, received, wire, job, coll, server>>
    BY DEF NicReads
  <1>2. TypeOK'
    BY <1>0, <1>1, NicFlight DEF TypeOK, hostVars
  <1>3. Only(r)
    BY <1>0, <1>1, NicFlight DEF Only, hostVars
  <1>4. WireInv(r)' /\ CollInv(r)' /\ FlightInv(r)'
    BY <1>0, <1>1, NicFlight, WireKept, CollKept, FlightKept DEF hostVars
  <1>5. ResultInv(r)'
    <2>1. \A i \in DOMAIN sq'[r] : sq'[r][i].opcode = "WRITE" => ~Known(r, sq'[r][i].op)
      <3>1. \A i \in DOMAIN sq'[r] : i + 1 \in DOMAIN sq[r] /\ sq'[r][i] = sq[r][i + 1]
        <4>1. /\ DOMAIN sq'[r] = 1 .. Len(sq[r]) - 1 /\ Len(sq[r]) \in Nat \ {0}
              /\ DOMAIN sq[r] = 1 .. Len(sq[r])
              /\ \A i \in 1 .. Len(sq[r]) - 1 : sq'[r][i] = sq[r][i + 1]
          BY <1>0, <1>1, NicFlight
        <4>2. QED
          BY <4>1
      <3>2. QED
        BY <1>0, <3>1 DEF ResultInv
    <2>2. QED
      BY <1>0, <1>1, <2>1 DEF ResultInv, Known, hostVars
  <1>6. Len(coll[r]) <= Len(coll'[r])
    BY <1>0, <1>1, LenProperties DEF TypeOK
  <1>7. QED
    BY <1>2, <1>3, <1>4, <1>5, <1>6, RankStep

\* What a write puts into the receive buffer.
LEMMA WriteResult ==
  ASSUME OffloadInv, NEW r \in Rank, NEW o \in Op, NicWrites(r, o)
  PROVE  /\ Result(r, o) = [q \in Rank |-> o]
         /\ job[r][o] = "RS_PUT" /\ ~Known(r, o)
         /\ \A q \in Rank : o <= Len(coll[q]) /\ o <= called[q]
  <1> DEFINE wr == [op |-> o, opcode |-> "WRITE"]
  <1>0. TypeOK /\ ResultInv(r) /\ FlightInv(r) /\ CollInv(r)
    BY DEF OffloadInv
  <1>1. wr = sq[r][1] /\ 1 \in DOMAIN sq[r]
    BY <1>0, NicFlight DEF NicWrites
  <1>2. ~Known(r, o)
    <2>1. sq[r][1].opcode = "WRITE" /\ sq[r][1].op = o
      BY <1>1
    <2>2. QED
      BY <1>0, <1>1, <2>1 DEF ResultInv
  <1>3. job[r][o] = "RS_PUT"
    <2>1. PICK i \in DOMAIN Flight(r) : Flight(r)[i] = wr
      <3>1. 1 \in 1 .. Len(sq[r])
        BY <1>0, <1>1, FlightParts
      <3>2. QED
        BY <1>0, <1>1, <3>1, FlightParts
    <2>2. QED
      BY <1>0, <2>1 DEF FlightInv
  <1>4. \A q \in Rank : o <= Len(coll[q])
    BY <1>0, <1>3 DEF ResultInv
  <1>5. ASSUME NEW q \in Rank
        PROVE  o \in DOMAIN coll[q] /\ coll[q][o] = o /\ o <= called[q]
    <2>1. TypeOK /\ CollInv(q) /\ WireInv(q) /\ coll[q] \in Seq(Op) /\ called[q] \in Nat
      BY DEF OffloadInv, TypeOK
    <2>2. o \in DOMAIN coll[q]
      BY <1>4, <2>1, LenProperties DEF Op
    <2>3. job[q][o] # "none"
      BY <1>4, <2>1 DEF CollInv
    <2>4. ~(o > called[q])
      BY <2>1, <2>3 DEF WireInv, NoneLost
    <2>5. QED
      BY <2>1, <2>2, <2>4 DEF CollInv, Op
  <1>6. (CHOOSE i \in DOMAIN coll[r] : coll[r][i] = o) = o
    <2>1. \A i \in DOMAIN coll[r] : coll[r][i] = i
      BY <1>0 DEF CollInv
    <2>2. \E i \in DOMAIN coll[r] : coll[r][i] = o
      BY <1>5
    <2>3. QED
      BY <2>1, <2>2
  <1>7. Result(r, o) = [q \in Rank |-> o]
    BY <1>5, <1>6 DEF Result
  <1>8. QED
    BY <1>2, <1>3, <1>4, <1>5, <1>7

LEMMA NicWritesStep ==
  ASSUME OffloadInv, NEW r \in Rank, NEW o \in Op, NicWrites(r, o)
  PROVE  OffloadInv'
  <1> DEFINE wr == [op |-> o, opcode |-> "WRITE"]
  <1>0. TypeOK /\ WireInv(r) /\ ResultInv(r) /\ FlightInv(r) /\ CollInv(r)
    BY DEF OffloadInv
  <1>1. /\ Executed(r, wr) /\ recv' = [recv EXCEPT ![r] = o]
        /\ received' = [received EXCEPT ![r][o] = [q \in Rank |-> o]]
        /\ UNCHANGED <<called, told, tested, left, wire, job, coll, server>>
    BY WriteResult DEF NicWrites
  <1>2. /\ recv'[r] = o /\ received'[r][o] = [q \in Rank |-> o]
        /\ \A p \in Op \ {o} : received'[r][p] = received[r][p]
        /\ \A q \in Rank \ {r} : recv'[q] = recv[q] /\ received'[q] = received[q]
    BY <1>0, <1>1 DEF TypeOK
  <1>3. TypeOK'
    <2>1. sq' \in [Rank -> Seq(Request)] /\ cq' \in [Rank -> Seq(Request)]
      BY <1>0, <1>1, NicFlight
    <2>2. recv' \in [Rank -> Op \cup {None, Posted}]
      BY <1>0, <1>1 DEF TypeOK
    <2>3. received' \in [Rank -> [Op -> [Rank -> Op \cup {0}]]]
      BY <1>0, <1>1 DEF TypeOK
    <2>4. QED
      BY <1>0, <1>1, <2>1, <2>2, <2>3 DEF TypeOK
  <1>4. Only(r)
    BY <1>0, <1>1, <1>2, NicFlight DEF Only
  <1>5. WireInv(r)' /\ CollInv(r)' /\ FlightInv(r)'
    BY <1>0, <1>1, NicFlight, WireKept, CollKept, FlightKept
  <1>6. ResultInv(r)'
    <2>1. \A p \in Op : Known(r, p)' => Known(r, p) \/ p = o
      BY <1>1, <1>2 DEF Known
    <2>2. job[r][o] = "RS_PUT"
      BY WriteResult
    <2>3. ASSUME NEW i \in DOMAIN sq'[r], sq'[r][i].opcode = "WRITE"
          PROVE  ~(Known(r, sq'[r][i].op)) /\ sq'[r][i].op # o /\ sq'[r][i].op \in Op
      <3>1. /\ i + 1 \in DOMAIN sq[r] /\ sq'[r][i] = sq[r][i + 1] /\ 1 < i + 1 /\ i \in Nat
            /\ 1 \in DOMAIN sq[r] /\ sq[r][1] = wr /\ DOMAIN sq[r] = 1 .. Len(sq[r])
        <4>1. /\ DOMAIN sq'[r] = 1 .. Len(sq[r]) - 1 /\ Len(sq[r]) \in Nat \ {0}
              /\ DOMAIN sq[r] = 1 .. Len(sq[r]) /\ wr = sq[r][1]
              /\ \A j \in 1 .. Len(sq[r]) - 1 : sq'[r][j] = sq[r][j + 1]
          BY <1>0, <1>1, NicFlight
        <4>2. QED
          BY <2>3, <4>1
      <3>2. ~Known(r, sq[r][i + 1].op) /\ sq[r][i + 1] \in Request
        <4>1. sq[r] \in Seq(Request)
          BY <1>0, Requests
        <4>2. QED
          BY <1>0, <2>3, <3>1, <4>1, ElementOfSeq DEF ResultInv
      <3>3. sq[r][i + 1] # wr
        <4>1. Len(cq[r]) \in Nat /\ 1 \in 1 .. Len(sq[r]) /\ i + 1 \in 1 .. Len(sq[r])
          BY <1>0, <3>1, FlightParts
        <4>2. /\ Len(cq[r]) + 1 \in DOMAIN Flight(r) /\ Flight(r)[Len(cq[r]) + 1] = sq[r][1]
              /\ Len(cq[r]) + (i + 1) \in DOMAIN Flight(r)
              /\ Flight(r)[Len(cq[r]) + (i + 1)] = sq[r][i + 1]
          BY <1>0, <4>1, FlightParts
        <4>3. Len(cq[r]) + 1 < Len(cq[r]) + (i + 1)
          BY <3>1, <4>1
        <4>4. Flight(r)[Len(cq[r]) + 1] # Flight(r)[Len(cq[r]) + (i + 1)]
          BY <1>0, <4>2, <4>3 DEF FlightInv
        <4>5. QED
          BY <3>1, <4>2, <4>4
      <3>4. QED
        BY <2>3, <3>1, <3>2, <3>3 DEF Request
    <2>4. \A i \in DOMAIN sq'[r] : sq'[r][i].opcode = "WRITE" => sq'[r][i].op \notin told'[r] /\ recv'[r] # sq'[r][i].op
      BY <1>1, <1>2, <2>3 DEF Known
    <2>5. \A p \in Op : Known(r, p)' => /\ job'[r][p] \in {"RS_PUT", "RS_CPIN"}
                                        /\ received'[r][p] = [q \in Rank |-> p]
      BY <1>0, <1>1, <1>2, <2>1, <2>2 DEF ResultInv
    <2>6. QED
      BY <1>0, <1>1, <2>4, <2>5 DEF ResultInv, Known
  <1>7. Len(coll[r]) <= Len(coll'[r])
    BY <1>0, <1>1, LenProperties DEF TypeOK
  <1>8. QED
    BY <1>3, <1>4, <1>5, <1>6, <1>7, RankStep

-----------------------------------------------------------------------------
(* Theorems.                                                               *)

LEMMA OffloadNext == OffloadInv /\ [Next]_vars => OffloadInv'
  <1> SUFFICES ASSUME OffloadInv, [Next]_vars PROVE OffloadInv'
    OBVIOUS
  <1>1. CASE UNCHANGED vars
    <2>1. UNCHANGED <<called, recv, told, tested, left, received, wire, job, sq, cq, coll, server>>
      BY <1>1 DEF vars, hostVars, dpuVars
    <2>2. TypeOK'
      BY <2>1 DEF OffloadInv, TypeOK
    <2>3. \A q \in Rank : Len(coll[q]) <= Len(coll'[q])
      BY <2>1, LenProperties DEF OffloadInv, TypeOK
    <2>4. ASSUME NEW r \in Rank PROVE WireInv(r)' /\ FlightInv(r)' /\ CollInv(r)' /\ ResultInv(r)'
      BY <2>1, <2>2, <2>3, WireKept, FlightKept, SameFlight, CollKept, ResultKept DEF OffloadInv, TypeOK
    <2>5. QED
      BY <2>2, <2>4 DEF OffloadInv
  <1>2. ASSUME NEW r \in Rank, Host(r) PROVE OffloadInv'
    BY <1>2, CallsStep, PostsStep, PollsStep, ExitsStep, TestsStep DEF Host
  <1>3. ASSUME NEW r \in Rank, Serve(r) PROVE OffloadInv'
    BY <1>3, LeavesStep, AcceptsStep, StartCollectiveStep, CompleteStep, StartWriteStep DEF Serve
  <1>4. ASSUME NEW r \in Rank, Nic(r) PROVE OffloadInv'
    BY <1>4, NicReadsStep, NicWritesStep DEF Nic
  <1>5. QED
    BY <1>1, <1>2, <1>3, <1>4, FailsStep DEF Next

LEMMA OffloadInvariance == Spec => []OffloadInv
  BY OffloadInit, OffloadNext, PTL DEF Spec

\* Every variable keeps its type.
THEOREM OffloadTyped == Spec => []TypeOK
  <1>1. OffloadInv => TypeOK
    BY DEF OffloadInv
  <1>2. QED
    BY <1>1, OffloadInvariance, PTL

\* When an operation is reported to its host, none of its work requests is left
\* that could reach the host's buffers.
THEOREM OffloadBuffersQuiet == Spec => []BuffersQuiet
  <1>1. OffloadInv => BuffersQuiet
    <2> SUFFICES ASSUME OffloadInv, NEW r \in Rank, NEW k \in DOMAIN sq[r], sq[r][k].op \in tested[r]
                 PROVE  FALSE
      BY DEF BuffersQuiet
    <2>1. TypeOK /\ FlightInv(r) /\ ResultInv(r)
      BY DEF OffloadInv
    <2>2. sq[r][k] \in Request /\ sq[r][k].op \in Op
      <3>1. sq[r] \in Seq(Request) /\ k \in 1 .. Len(sq[r])
        BY <2>1, Requests, FlightParts
      <3>2. QED
        BY <2>1, <3>1, ElementOfSeq, Requests
    <2>3. Known(r, sq[r][k].op) /\ job[r][sq[r][k].op] \in {"RS_PUT", "RS_CPIN"}
      BY <2>1, <2>2 DEF ResultInv, Known
    <2>4. sq[r][k].opcode = "READ"
      BY <2>1, <2>2, <2>3 DEF ResultInv, Request
    <2>5. job[r][sq[r][k].op] = "RS_READ"
      <3>1. k \in 1 .. Len(sq[r])
        BY <2>1, FlightParts
      <3>2. Len(cq[r]) + k \in DOMAIN Flight(r) /\ Flight(r)[Len(cq[r]) + k] = sq[r][k]
        BY <2>1, <3>1, FlightParts
      <3>3. QED
        BY <2>1, <2>4, <3>2 DEF FlightInv
    <2>6. QED
      BY <2>3, <2>5
  <1>2. QED
    BY <1>1, OffloadInvariance, PTL

-----------------------------------------------------------------------------
(* The refinement.                                                         *)

LEMMA ServiceInit == Init => Service!Init
  <1> SUFFICES ASSUME Init PROVE Service!Init
    OBVIOUS
  <1>1. Broken = FALSE
    <2>1. \A r \in Rank : server[r] # "failed" /\ ~left[r]
      BY DEF Init
    <2>2. QED
      BY <2>1 DEF Broken
  <1>2. received = [r \in Rank |-> [o \in Service!Op |-> [q \in Rank |-> 0]]]
    BY DEF Init, NoBlocks, Op, Service!Op
  <1>3. QED
    BY <1>1, <1>2 DEF Init, Service!Init

\* What Broken reads.
LEMMA BrokenKept ==
  ASSUME UNCHANGED <<server, left>>,
         \A r \in Rank : left[r] => called'[r] = called[r] /\ tested'[r] = tested[r]
  PROVE  Broken' = Broken
  BY DEF Broken

\* A host that calls or tests has not left.
LEMMA ServiceCall ==
  ASSUME OffloadInv, NEW r \in Rank, HostCalls(r)
  PROVE  Service!Call(r)
  <1>1. /\ ~left[r] /\ called[r] < MaxOp /\ called' = [called EXCEPT ![r] = @ + 1]
        /\ UNCHANGED <<tested, received, left, server>>
    BY DEF HostCalls, dpuVars
  <1>2. \A q \in Rank : left[q] => called'[q] = called[q] /\ tested'[q] = tested[q]
    BY <1>1 DEF OffloadInv, TypeOK
  <1>3. Broken' = Broken
    BY <1>1, <1>2, BrokenKept
  <1>4. QED
    BY <1>1, <1>3 DEF Service!Call

LEMMA ServiceComplete ==
  ASSUME OffloadInv, NEW r \in Rank, NEW o \in Op, HostTests(r, o)
  PROVE  Service!Complete(r, o)
  <1>1. /\ ~left[r] /\ o \in told[r] /\ o \notin tested[r]
        /\ tested' = [tested EXCEPT ![r] = @ \cup {o}]
        /\ UNCHANGED <<called, received, left, server>>
    BY DEF HostTests, Booked, dpuVars
  <1>2. \A q \in Rank : left[q] => called'[q] = called[q] /\ tested'[q] = tested[q]
    BY <1>1 DEF OffloadInv, TypeOK
  <1>3. Broken' = Broken
    BY <1>1, <1>2, BrokenKept
  <1>4. received[r][o] = [q \in Rank |-> o]
    BY <1>1 DEF OffloadInv, ResultInv, Known
  <1>5. QED
    BY <1>1, <1>3, <1>4 DEF Service!Complete

LEMMA ServiceReceive ==
  ASSUME OffloadInv, NEW r \in Rank, NEW o \in Op, NicWrites(r, o)
  PROVE  Service!Receive(r, o)
  <1>1. /\ received' = [received EXCEPT ![r][o] = [q \in Rank |-> o]]
        /\ UNCHANGED <<called, tested, left, server>>
    BY WriteResult DEF NicWrites
  <1>2. Broken' = Broken
    BY <1>1, BrokenKept
  <1>3. o \notin tested[r]
    BY WriteResult DEF OffloadInv, ResultInv, Known
  <1>4. \A q \in Rank : o <= called[q]
    BY WriteResult
  <1>5. QED
    BY <1>1, <1>2, <1>3, <1>4 DEF Service!Receive

\* A step that changes neither calls, reports nor buffers can only break.
LEMMA ServiceBreak ==
  ASSUME UNCHANGED <<called, tested, received>>, Broken => Broken'
  PROVE  Service!Break \/ UNCHANGED <<called, tested, received, Broken>>
  <1>1. Broken \in BOOLEAN /\ Broken' \in BOOLEAN
    BY DEF Broken
  <1>2. CASE Broken'
    BY <1>1, <1>2 DEF Service!Break
  <1>3. CASE ~Broken'
    BY <1>1, <1>3
  <1>4. QED
    BY <1>2, <1>3

LEMMA ServiceStep == OffloadInv /\ [Next]_vars => [Service!Next]_(Service!vars)
  <1> SUFFICES ASSUME OffloadInv, [Next]_vars
               PROVE  Service!Next \/ UNCHANGED <<called, tested, received, Broken>>
    BY DEF Service!vars
  <1>1. CASE UNCHANGED vars
    <2>1. UNCHANGED <<called, tested, received, left, server>>
      BY <1>1 DEF vars, hostVars, dpuVars
    <2>2. QED
      BY <2>1, BrokenKept
  <1>2. ASSUME NEW r \in Rank, Host(r)
        PROVE  Service!Next \/ UNCHANGED <<called, tested, received, Broken>>
    <2>1. CASE HostCalls(r)
      BY <2>1, ServiceCall DEF Service!Next
    <2>2. CASE HostPosts(r) \/ HostPolls(r)
      <3>1. UNCHANGED <<called, tested, received, left, server>>
        BY <2>2 DEF HostPosts, HostPolls, dpuVars
      <3>2. QED
        BY <3>1, BrokenKept
    <2>3. CASE HostExits(r)
      <3>1. /\ UNCHANGED <<called, tested, received, server>> /\ left' = [left EXCEPT ![r] = TRUE]
        BY <2>3 DEF HostExits, dpuVars
      <3>2. \A q \in Rank : left[q] => left'[q]
        BY <3>1 DEF OffloadInv, TypeOK
      <3>3. Broken => Broken'
        BY <3>1, <3>2 DEF Broken
      <3>4. QED
        BY <3>1, <3>3, ServiceBreak DEF Service!Next
    <2>4. ASSUME NEW o \in Op, HostTests(r, o)
          PROVE  Service!Next \/ UNCHANGED <<called, tested, received, Broken>>
      BY <2>4, ServiceComplete DEF Service!Next, Service!Op, Op
    <2>5. QED
      BY <1>2, <2>1, <2>2, <2>3, <2>4 DEF Host
  <1>3. ASSUME NEW r \in Rank, Serve(r) \/ ServerFails(r)
        PROVE  Service!Next \/ UNCHANGED <<called, tested, received, Broken>>
    <2>1. /\ UNCHANGED <<called, tested, received, left>>
          /\ \/ UNCHANGED server
             \/ server[r] = "running" /\ \E x : server' = [server EXCEPT ![r] = x]
      BY <1>3 DEF Serve, ServerFails, ServerLeaves, ServerAccepts, StartCollective, CompleteJob,
                  StartWrite, Message, hostVars
    <2>2. \A q \in Rank : server[q] = "failed" => server'[q] = "failed"
      BY <2>1 DEF OffloadInv, TypeOK
    <2>3. Broken => Broken'
      BY <2>1, <2>2 DEF Broken
    <2>4. QED
      BY <2>1, <2>3, ServiceBreak DEF Service!Next
  <1>4. ASSUME NEW r \in Rank, Nic(r)
        PROVE  Service!Next \/ UNCHANGED <<called, tested, received, Broken>>
    <2>1. ASSUME NEW o \in Op, NicReads(r, o)
          PROVE  UNCHANGED <<called, tested, received, Broken>>
      <3>1. UNCHANGED <<called, tested, received, left, server>>
        BY <2>1 DEF NicReads, hostVars
      <3>2. QED
        BY <3>1, BrokenKept
    <2>2. ASSUME NEW o \in Op, NicWrites(r, o) PROVE Service!Next
      BY <2>2, ServiceReceive DEF Service!Next, Service!Op, Op
    <2>3. QED
      BY <1>4, <2>1, <2>2 DEF Nic
  <1>5. QED
    BY <1>1, <1>2, <1>3, <1>4 DEF Next

\* The system implements the service: no operation is reported before every
\* host has called it, and its buffer then holds the blocks of that operation
\* from every rank, also when DPUs fail and hosts leave early.
THEOREM OffloadImplementsService == Spec => ServiceSafety
  <1>1. Spec => Service!Init /\ [][Service!Next]_(Service!vars)
    BY ServiceInit, ServiceStep, OffloadInvariance, PTL DEF Spec
  <1>2. QED
    BY <1>1 DEF ServiceSafety, Service!Spec

=============================================================================
