------------------------------ MODULE Session ------------------------------
(* A run of the demonstration client, from the two calls of mpirun to the end *)
(* of the last process: on each DPU main() of main_bf.c, on each host main()  *)
(* of main_host_use_lib.c with DPU_Init() and DPU_Exit().  An operation is    *)
(* three steps here, DpuServer and HostLib have its detail.                   *)
EXTENDS IfAddr

CONSTANTS
    Size,        \* the hosts, and as many DPUs
    Ops,         \* the operations of the client (100)
    Setups,      \* [host, dpu]: the interfaces of each machine
    Offset,      \* the argument of the client
    Modes        \* [faults, orderly]: whether calls may fail, and whether the
                 \* hosts are started when the DPUs listen

Rank == 0..(Size - 1)
Group == {"host", "dpu"}
IfName == "ib0_mlx5"

\* getifaddrs lists at least the loopback interface; an address is one of the
\* 2^32, and neither NULL nor a crash is one.
Interface == [name : STRING, family : STRING, addr : 0..(AddrSpace - 1)]

ASSUME SessionAssumption ==
    /\ Size \in Nat /\ Ops \in Nat /\ Offset \in Int /\ AddrSpace \in Nat \ {0}
    /\ Modes \subseteq [faults : BOOLEAN, orderly : BOOLEAN]
    /\ \A s \in Setups, r \in Rank :
         s.host[r] \in Seq(Interface) \ {<<>>} /\ s.dpu[r] \in Seq(Interface) \ {<<>>}
    /\ NoAddr \notin 0..(AddrSpace - 1) /\ Crash \notin 0..(AddrSpace - 1)

VARIABLES
    mode, setup,
    pc,          \* where each process stands
    stat,        \* the exit status a DPU will have
    target,      \* the DPU a host has asked for a connection
    client,      \* the host whose connection a DPU took up
    link,        \* the connection of a host
    asked,       \* the requests a host has sent
    bye,         \* the hosts that said goodbye
    coll,        \* the collectives a DPU has started
    answered,    \* the operations a DPU has completed
    result       \* what the receive buffer of a host holds

vars == <<mode, setup, pc, stat, target, client, link, asked, bye, coll, answered, result>>
work == <<asked, bye, coll, answered, result>>

Nobody == -1
Ended == {"ok", "bad", "gone"}     \* exit(0), exit(1), and the ends that skip MPI_Finalize
Goes(g, r, from, to) == pc[g][r] = from /\ pc' = [pc EXCEPT ![g][r] = to]
Fails(g, r, from) == mode.faults /\ Goes(g, r, from, "gone")

\* The connection a process takes down with it.
Down(g, r) ==
    [h \in Rank |-> IF link[h] # "none" /\ (IF g = "host" THEN h = r ELSE target[h] = r)
                    THEN "down" ELSE link[h]]

Init ==
    /\ mode \in Modes /\ setup \in Setups
    /\ pc = [g \in Group |-> [r \in Rank |-> "start"]]
    /\ stat = [r \in Rank |-> 0]
    /\ target = [r \in Rank |-> Nobody] /\ client = [r \in Rank |-> Nobody]
    /\ link = [r \in Rank |-> "none"]
    /\ asked = [r \in Rank |-> 0] /\ bye = {}
    /\ coll = [r \in Rank |-> 0] /\ answered = [r \in Rank |-> 0]
    /\ result = [r \in Rank |-> <<>>]

-----------------------------------------------------------------------------
(* MPI, on either side.  init_mpi and test_mpi wait for the others.           *)

Listening == {"listening", "accepted", "serving"}
Launched(g) == g = "dpu" \/ ~mode.orderly \/ \A d \in Rank : pc["dpu"][d] \in Listening

MpiInit(g, r) ==
    /\ Launched(g)
    /\ Goes(g, r, "start", "init") \/ (g = "dpu" /\ Fails(g, r, "start"))
    /\ UNCHANGED <<mode, setup, stat, target, client, link, work>>

MpiUp(g, r) ==
    /\ \A q \in Rank : pc[g][q] # "start"
    /\ Goes(g, r, "init", "up")
    /\ UNCHANGED <<mode, setup, stat, target, client, link, work>>

\* test_mpi: the number comes from rank 0.
Tested(g, r) ==
    /\ \/ (r = 0 \/ pc[g][0] \notin {"start", "init", "up"}) /\ Goes(g, r, "up", "checked")
       \/ Fails(g, r, "up")
    /\ UNCHANGED <<mode, setup, stat, target, client, link, work>>

\* MPI_Finalize waits for all, and the process ends.
MpiFinalize(g, r) ==
    /\ \A q \in Rank : pc[g][q] \in {"finalizing", "ok", "bad"}
    /\ Goes(g, r, "finalizing", IF g = "dpu" /\ stat[r] = 1 THEN "bad" ELSE "ok")
    /\ link' = Down(g, r)
    /\ UNCHANGED <<mode, setup, stat, target, client, work>>

\* mpirun ends the others when a process of its call skips MPI_Finalize.
MpirunKills(g, r) ==
    /\ \E q \in Rank : pc[g][q] = "gone"
    /\ pc[g][r] \notin Ended
    /\ pc' = [pc EXCEPT ![g][r] = "gone"]
    /\ link' = Down(g, r)
    /\ UNCHANGED <<mode, setup, stat, target, client, work>>

-----------------------------------------------------------------------------
(* main_bf.c.                                                                 *)

\* Prints its address, resolves, creates the endpoint and listens.
Listen(d) ==
    /\ \/ Goes("dpu", d, "checked", "listening") /\ find_addr(setup.dpu[d], IfName, -1) # Crash
       \/ Goes("dpu", d, "checked", "gone") /\ find_addr(setup.dpu[d], IfName, -1) = Crash
       \/ Fails("dpu", d, "checked")
    /\ UNCHANGED <<mode, setup, stat, target, client, link, work>>

\* rdma_get_request blocks until a host asks, rdma_accept answers it.
Accept(d) ==
    \E r \in Rank :
        /\ target[r] = d /\ link[r] = "asked"
        /\ Goes("dpu", d, "listening", "accepted")
        /\ client' = [client EXCEPT ![d] = r]
        /\ link' = [link EXCEPT ![r] = "up"]
        /\ UNCHANGED <<mode, setup, stat, target, work>>

\* Between the call of rdma_listen and its answer to a host it may run out of
\* memory or fail to answer, whether a host has asked or not.
AcceptFails(d) ==
    /\ Fails("dpu", d, "listening")
    /\ link' = Down("dpu", d)
    /\ UNCHANGED <<mode, setup, stat, target, client, work>>

\* The buffers are registered, and the first receive is posted.
Register(d) ==
    /\ \/ Goes("dpu", d, "accepted", "serving") /\ UNCHANGED link
       \/ Fails("dpu", d, "accepted") /\ link' = Down("dpu", d)
    /\ UNCHANGED <<mode, setup, stat, target, client, work>>

Collect(d) ==
    /\ pc["dpu"][d] = "serving"
    /\ link[client[d]] = "up"
    /\ coll[d] < asked[client[d]]
    /\ coll' = [coll EXCEPT ![d] = @ + 1]
    /\ UNCHANGED <<mode, setup, pc, stat, target, client, link, asked, bye, answered, result>>

\* The collective is over and the result written into the buffer of the host.
Answer(d) ==
    LET k == answered[d] + 1 IN
    /\ pc["dpu"][d] = "serving"
    /\ link[client[d]] = "up"
    /\ \A q \in Rank : coll[q] >= k
    /\ answered' = [answered EXCEPT ![d] = k]
    /\ result' = [result EXCEPT ![client[d]] = [q \in Rank |-> <<client[q], k>>]]
    /\ UNCHANGED <<mode, setup, pc, stat, target, client, link, asked, bye, coll>>

\* offload_main returns 0 on a goodbye, else 1, and MPI_Finalize follows.
Goodbye(d) == client[d] \in bye /\ coll[d] = asked[client[d]]

Stop(d) ==
    /\ Goes("dpu", d, "serving", "finalizing")
    /\ \/ Goodbye(d) /\ UNCHANGED stat
       \/ /\ \/ mode.faults
             \/ link[client[d]] = "down" /\ client[d] \notin bye
          /\ stat' = [stat EXCEPT ![d] = 1]
    /\ link' = [link EXCEPT ![client[d]] = "down"]
    /\ UNCHANGED <<mode, setup, target, client, work>>

-----------------------------------------------------------------------------
(* main_host_use_lib.c.                                                       *)

\* The address of the DPU.
DpuAddr(r) == offset_addr(setup.host[r], IfName, Offset)
Offers(ifaddrs, a) == \E n \in DOMAIN ifaddrs : ifaddrs[n].family = "INET" /\ ifaddrs[n].addr = a
Has(d, a) == Offers(setup.dpu[d], a)

\* DPU_Init resolves the address and asks for a connection.
Connect(r) ==
    LET reached == {d \in Rank : Has(d, DpuAddr(r)) /\ pc["dpu"][d] \in Listening} IN
    /\ \/ \E d \in reached :
            /\ Goes("host", r, "checked", "connecting")
            /\ target' = [target EXCEPT ![r] = d]
            /\ link' = [link EXCEPT ![r] = "asked"]
       \/ /\ reached = {} /\ Goes("host", r, "checked", "gone")
          /\ UNCHANGED <<target, link>>
       \/ /\ Fails("host", r, "checked")
          /\ UNCHANGED <<target, link>>
    /\ UNCHANGED <<mode, setup, stat, client, work>>

\* The rest of DPU_Init.  When the endpoint cannot be queried it is destroyed,
\* and the context is returned all the same (dpulib.c:65).
Connected(r) ==
    /\ \/ link[r] = "up" /\ Goes("host", r, "connecting", "open") /\ UNCHANGED link
       \/ link[r] = "down" /\ Goes("host", r, "connecting", "gone") /\ UNCHANGED link
       \/ Fails("host", r, "connecting") /\ link' = Down("host", r)
       \/ /\ mode.faults /\ link[r] = "up" /\ Goes("host", r, "connecting", "open")
          /\ link' = Down("host", r)
    /\ UNCHANGED <<mode, setup, stat, target, client, work>>

\* DPU_MPI_Ialltoall clears nothing: the client has, before it.
Ialltoall(r) ==
    /\ asked[r] < Ops
    /\ \/ /\ link[r] = "up" /\ Goes("host", r, "open", "waiting")
          /\ asked' = [asked EXCEPT ![r] = @ + 1]
          /\ result' = [result EXCEPT ![r] = <<>>]
          /\ UNCHANGED link
       \/ /\ link[r] = "down" \/ mode.faults
          /\ Goes("host", r, "open", "gone")
          /\ link' = Down("host", r)
          /\ UNCHANGED <<asked, result>>
    /\ UNCHANGED <<mode, setup, stat, target, client, bye, coll, answered>>

\* DPU_MPI_Wait.
Wait(r) ==
    /\ Goes("host", r, "waiting", "open") /\ answered[target[r]] = asked[r]
    /\ UNCHANGED <<mode, setup, stat, target, client, link, work>>

\* On a broken link it may fail, and may spin for ever.
WaitFails(r) ==
    /\ link[r] = "down" \/ mode.faults
    /\ Goes("host", r, "waiting", "gone")
    /\ link' = Down("host", r)
    /\ UNCHANGED <<mode, setup, stat, target, client, work>>

\* DPU_Exit, whose result the client does not look at.  Mutant: the loop of the
\* client ends one early.
OneShort(r) == asked[r] >= Ops - 1
Through(r) == asked[r] = Ops

Exit(r) ==
    /\ Through(r)
    /\ Goes("host", r, "open", "finalizing")
    /\ \/ link[r] = "up" /\ bye' = bye \cup {r} /\ link' = Down("host", r)
       \/ (link[r] = "down" \/ mode.faults) /\ UNCHANGED <<bye, link>>
    /\ UNCHANGED <<mode, setup, stat, target, client, asked, coll, answered, result>>

-----------------------------------------------------------------------------
Mpi(g, r) == MpiInit(g, r) \/ MpiUp(g, r) \/ Tested(g, r) \/ MpiFinalize(g, r)
Dpu(d) == Mpi("dpu", d) \/ Listen(d) \/ Accept(d) \/ Register(d) \/ Collect(d) \/ Answer(d) \/ Stop(d)
Host(r) == Mpi("host", r) \/ Connect(r) \/ Connected(r) \/ Ialltoall(r) \/ Wait(r) \/ Exit(r)

Next ==
    \/ \E r \in Rank : Dpu(r) \/ Host(r)
    \/ \E r \in Rank : AcceptFails(r) \/ WaitFails(r)
    \/ \E g \in Group, r \in Rank : MpirunKills(g, r)

\* Each process runs on while it can; that a DPU with no host gives up, or a host
\* a broken connection, is not promised.
Spec == Init /\ [][Next]_vars /\ \A r \in Rank : WF_vars(Dpu(r)) /\ WF_vars(Host(r))
-----------------------------------------------------------------------------
(* The addresses of the network interface, read off the list.                 *)
Own(ifaddrs) == {n \in DOMAIN ifaddrs : ifaddrs[n].name = IfName /\ ifaddrs[n].family = "INET"}

\* A list in which the interface has one, is not the last and has no entry
\* without an address.
Plain(ifaddrs) ==
    /\ \E n \in Own(ifaddrs) : n < Len(ifaddrs)
    /\ \A n \in DOMAIN ifaddrs : ifaddrs[n].family # "NONE"

\* The first of them; a list of one interface, and not of this one.
FirstOwn(ifaddrs) == {n \in Own(ifaddrs) : \A m \in Own(ifaddrs) : n <= m}
Alone(ifaddrs) == Len(ifaddrs) = 1 /\ Own(ifaddrs) = {}

\* How the addresses are dealt: the one Offset away from the first of a host is
\* that of no DPU but that of its rank, and when the host has a plain list that
\* DPU has it, unless it has no such interface at all.
Ahead(ifaddrs, n) == (ifaddrs[n].addr + Offset) % AddrSpace
AddressesDealt ==
    \A s \in Setups, r, d \in Rank : \A n \in FirstOwn(s.host[r]) :
        Offers(s.dpu[d], Ahead(s.host[r], n)) => d = r
AddressesListed ==
    \A s \in Setups, r \in Rank : Plain(s.host[r]) =>
        \/ \E n \in FirstOwn(s.host[r]) : Offers(s.dpu[r], Ahead(s.host[r], n))
        \/ Alone(s.dpu[r])

\* A host asks the DPU of its own rank and no other, although neither knows the
\* rank of the other and the address is the only clue (get_ip.c:48); and with
\* plain lists it finds it: no host gives up (get_ip.c:62).
RightPartner ==
    \A r \in Rank :
        /\ target[r] # Nobody => target[r] = r
        /\ Plain(setup.host[r]) /\ mode.orderly /\ ~mode.faults /\ pc["host"][r] = "gone" =>
             \E q \in Rank : ~Plain(setup.host[q])

\* What a host finds in its buffer is the data of the present operation, of each
\* host in the order of the ranks: ranks on hosts and DPUs are told apart only
\* by the addresses (main_host_use_lib.c:35, main_bf.c:768).
ResultsInRankOrder ==
    \A r \in Rank : result[r] # <<>> =>
        /\ result[r] = [q \in Rank |-> <<q, asked[r]>>]
        /\ client[target[r]] = r

\* One exit status 0 says that all hosts had all their results, or that the host
\* of this DPU had, whatever failed (main_bf.c:800, main_host_use_lib.c:101).
SuccessMeansAll ==
    \A r \in Rank :
        /\ pc["host"][r] = "ok" =>
             \A q \in Rank : asked[q] = Ops /\ answered[target[q]] = Ops
        /\ pc["dpu"][r] = "ok" =>
             /\ client[r] \in bye
             /\ asked[client[r]] = Ops /\ answered[r] = Ops

\* With the DPUs started first, interfaces that are found and no failure, every
\* process ends with status 0 (main_host_use_lib.c:104, main_bf.c:807).
SessionCompletes ==
    (/\ mode.orderly /\ ~mode.faults
     /\ \A r \in Rank : Plain(setup.host[r]) /\ Plain(setup.dpu[r]))
        ~> \A g \in Group, r \in Rank : pc[g][r] = "ok"
=============================================================================
