--------------------------- MODULE SessionProofs ---------------------------
(***************************************************************************)
(* Theorems about a run of the demonstration client, for every number of   *)
(* hosts and DPUs, of operations, and every list of interfaces.            *)
(***************************************************************************)
EXTENDS Session, SequenceTheorems, TLAPS

-----------------------------------------------------------------------------
(* Types.                                                                  *)

Early     == {"start", "init", "up", "checked"}
HostState == Early \cup {"connecting", "open", "waiting", "finalizing", "ok", "gone"}
DpuState  == Early \cup Listening \cup {"finalizing", "ok", "bad", "gone"}

TypeOK ==
  /\ mode \in Modes /\ setup \in Setups
  /\ pc \in [Group -> [Rank -> HostState \cup DpuState]]
  /\ \A r \in Rank : pc["host"][r] \in HostState /\ pc["dpu"][r] \in DpuState
  /\ stat \in [Rank -> {0, 1}]
  /\ target \in [Rank -> Rank \cup {Nobody}]
  /\ client \in [Rank -> Rank \cup {Nobody}]
  /\ link \in [Rank -> {"none", "asked", "up", "down"}]
  /\ asked \in [Rank -> 0 .. Ops]
  /\ bye \subseteq Rank
  /\ coll \in [Rank -> 0 .. Ops]
  /\ answered \in [Rank -> 0 .. Ops]
  /\ result \in [Rank -> {<<>>} \cup [Rank -> (Rank \cup {Nobody}) \X (1 .. Ops)]]

\* A host and a DPU belong together from the request for a connection on: the
\* host has asked that DPU, and the DPU, once it accepts, serves no other.
PartnersOK ==
  /\ \A r \in Rank : link[r] = "none" <=> target[r] = Nobody
  /\ \A r \in Rank : pc["host"][r] \in Early => target[r] = Nobody
  /\ \A r \in Rank : link[r] = "asked" => pc["host"][r] = "connecting"
  /\ \A r \in Rank : link[r] = "up" => client[target[r]] = r
  /\ \A r \in Rank : pc["host"][r] \in {"open", "waiting", "finalizing", "ok"} \/ r \in bye =>
       target[r] # Nobody /\ client[target[r]] = r
  /\ \A d \in Rank : client[d] # Nobody => target[client[d]] = d
  /\ \A d \in Rank : pc["dpu"][d] \in Early \cup {"listening"} => client[d] = Nobody
  /\ \A d \in Rank : pc["dpu"][d] \in {"accepted", "serving"} => client[d] # Nobody

\* The operations of a host and its DPU: the DPU is at most one behind, and
\* level when the host may ask for the next.
CountsOK ==
  /\ \A r \in Rank : pc["host"][r] \in Early \cup {"connecting"} => asked[r] = 0
  /\ \A d \in Rank : answered[d] <= coll[d]
  /\ \A d \in Rank : client[d] = Nobody => coll[d] = 0
  /\ \A d \in Rank : client[d] # Nobody =>
       coll[d] <= asked[client[d]] /\ asked[client[d]] <= answered[d] + 1
  /\ \A r \in Rank : pc["host"][r] = "open" => answered[target[r]] = asked[r]
  /\ \A r \in Rank : pc["host"][r] \in {"finalizing", "ok"} \/ r \in bye =>
       asked[r] = Ops /\ answered[target[r]] = Ops

\* A host ends with status 0 when all hosts are through, a DPU when its own
\* host has said goodbye.
EndsOK ==
  /\ \A r \in Rank : pc["host"][r] = "ok" =>
       \A q \in Rank : pc["host"][q] \in {"finalizing", "ok"}
  /\ \A d \in Rank : pc["dpu"][d] \in {"finalizing", "ok"} /\ stat[d] = 0 => client[d] \in bye
  /\ \A d \in Rank : pc["dpu"][d] = "ok" => stat[d] = 0

SessionInv == TypeOK /\ PartnersOK /\ CountsOK /\ EndsOK

LEMMA SessionInit == Init => SessionInv
  <1> SUFFICES ASSUME Init PROVE SessionInv
    OBVIOUS
  <1>1. Ops \in Nat /\ 0 \in 0 .. Ops
    BY SessionAssumption
  <1>2. TypeOK
    BY <1>1 DEF Init, TypeOK, HostState, DpuState, Early, Group
  <1>3. PartnersOK /\ EndsOK
    BY DEF Init, PartnersOK, EndsOK, Early, Group, Nobody
  <1>4. CountsOK
    BY DEF Init, CountsOK, Early, Group
  <1>5. QED
    BY <1>2, <1>3, <1>4 DEF SessionInv

-----------------------------------------------------------------------------
(* Most steps move one process on and may take its connection down.        *)

\* Connections only go down.
LinksFall ==
  /\ link' \in [Rank -> {"none", "asked", "up", "down"}]
  /\ \A h \in Rank : link'[h] = link[h] \/ (link[h] # "none" /\ link'[h] = "down")

LEMMA DownFalls ==
  ASSUME TypeOK, NEW g \in Group, NEW r \in Rank, link' = Down(g, r)
  PROVE  LinksFall /\ (g = "host" => link'[r] \in {"none", "down"})
  BY DEF TypeOK, Down, LinksFall

\* Process r of a group goes to state "to".
Moves(g, r, to) ==
  /\ pc' \in [Group -> [Rank -> HostState \cup DpuState]]
  /\ pc'[g][r] = to
  /\ \A h \in Group, q \in Rank : h # g \/ q # r => pc'[h][q] = pc[h][q]

LEMMA ExceptMoves ==
  ASSUME TypeOK, NEW g \in Group, NEW r \in Rank, NEW to \in HostState \cup DpuState,
         pc' = [pc EXCEPT ![g][r] = to]
  PROVE  Moves(g, r, to)
  BY DEF TypeOK, Moves

\* What a host may do in such a step, given where it stands.
HostMove(r, to) ==
  /\ Moves("host", r, to)
  /\ \/ to \in Early /\ pc["host"][r] \in Early
     \/ to = "open" /\ pc["host"][r] = "connecting" /\ link[r] = "up" /\ link'[r] # "asked"
     \/ to = "open" /\ pc["host"][r] = "waiting" /\ answered[target[r]] = asked[r]
     \/ /\ to = "ok" /\ pc["host"][r] = "finalizing"
        /\ \A q \in Rank : pc["host"][q] \in {"finalizing", "ok", "bad"}
     \/ /\ to = "gone" /\ link'[r] # "asked"
        /\ pc["host"][r] \notin {"finalizing", "ok"} \/ \E q \in Rank : pc["host"][q] = "gone"

\* What a DPU may do.
DpuMove(d, to) ==
  /\ Moves("dpu", d, to)
  /\ \/ to \in Early \cup {"listening"} /\ pc["dpu"][d] \in Early
     \/ to = "serving" /\ pc["dpu"][d] = "accepted"
     \/ to = "ok" /\ pc["dpu"][d] = "finalizing" /\ stat[d] = 0
     \/ to = "bad" /\ pc["dpu"][d] = "finalizing"
     \/ to = "gone"

LEMMA HostMoveKeeps ==
  ASSUME SessionInv, NEW r \in Rank, NEW to \in HostState, HostMove(r, to), LinksFall,
         UNCHANGED <<mode, setup, stat, target, client, work>>
  PROVE  SessionInv'
  <1> DEFINE from == pc["host"][r]
  <1>1. /\ pc'["host"][r] = to /\ \A q \in Rank \ {r} : pc'["host"][q] = pc["host"][q]
        /\ \A d \in Rank : pc'["dpu"][d] = pc["dpu"][d]
        /\ UNCHANGED <<mode, setup, stat, target, client, asked, bye, coll, answered, result>>
    BY DEF HostMove, Moves, Group, work
  <1>2. TypeOK'
    BY <1>1 DEF SessionInv, TypeOK, LinksFall, HostMove, Moves
  <1>3. PartnersOK'
    <2>1. \A q \in Rank : link'[q] = "none" <=> target[q] = Nobody
      BY DEF SessionInv, PartnersOK, LinksFall
    <2>2. \A q \in Rank : pc'["host"][q] \in Early => target[q] = Nobody
      BY <1>1 DEF HostMove, SessionInv, PartnersOK, Early
    <2>3. \A q \in Rank : link'[q] = "asked" => pc'["host"][q] = "connecting"
      BY <1>1 DEF HostMove, SessionInv, PartnersOK, LinksFall, Early
    <2>4. \A q \in Rank : link'[q] = "up" => client[target[q]] = q
      BY DEF SessionInv, PartnersOK, LinksFall
    <2>5. \A q \in Rank : pc'["host"][q] \in {"open", "waiting", "finalizing", "ok"} \/ q \in bye =>
            target[q] # Nobody /\ client[target[q]] = q
      BY <1>1 DEF HostMove, SessionInv, PartnersOK, Early
    <2>6. QED
      BY <1>1, <2>1, <2>2, <2>3, <2>4, <2>5 DEF SessionInv, PartnersOK
  <1>4. CountsOK'
    <2>1. \A q \in Rank : pc'["host"][q] \in Early \cup {"connecting"} => asked[q] = 0
      BY <1>1 DEF HostMove, SessionInv, CountsOK, Early
    <2>2. \A q \in Rank : pc'["host"][q] = "open" => answered[target[q]] = asked[q]
      <3>1. ASSUME to = "open" PROVE answered[target[r]] = asked[r]
        <4>1. CASE from = "waiting"
          BY <3>1, <4>1 DEF HostMove, Early
        <4>2. CASE from = "connecting" /\ link[r] = "up"
          <5>1. asked[r] = 0 /\ client[target[r]] = r /\ target[r] \in Rank
            BY <4>2 DEF SessionInv, TypeOK, PartnersOK, CountsOK
          <5>2. coll[target[r]] <= asked[r] /\ answered[target[r]] <= coll[target[r]]
            BY <5>1 DEF SessionInv, CountsOK, Rank, Nobody
          <5>3. answered[target[r]] \in Nat /\ coll[target[r]] \in Nat
            BY <5>1 DEF SessionInv, TypeOK
          <5>4. QED
            BY <5>1, <5>2, <5>3
        <4>3. QED
          BY <3>1, <4>1, <4>2 DEF HostMove, Early
      <3>2. QED
        BY <1>1, <3>1 DEF SessionInv, CountsOK
    <2>3. \A q \in Rank : pc'["host"][q] \in {"finalizing", "ok"} \/ q \in bye =>
            asked[q] = Ops /\ answered[target[q]] = Ops
      BY <1>1 DEF HostMove, SessionInv, CountsOK, Early
    <2>4. QED
      BY <1>1, <2>1, <2>2, <2>3 DEF SessionInv, CountsOK
  <1>5. EndsOK'
    <2>1. ASSUME NEW p \in Rank, pc'["host"][p] = "ok", NEW q \in Rank
          PROVE  pc'["host"][q] \in {"finalizing", "ok"}
      <3>1. CASE to = "ok"
        BY <1>1, <3>1 DEF HostMove, SessionInv, TypeOK, HostState, Early
      <3>2. CASE to # "ok"
        <4>1. p # r /\ pc["host"][p] = "ok"
          BY <1>1, <2>1, <3>2
        <4>2. \A h \in Rank : pc["host"][h] \in {"finalizing", "ok"}
          BY <4>1 DEF SessionInv, EndsOK
        <4>3. FALSE
          BY <3>2, <4>2 DEF HostMove, Early
        <4>4. QED
          BY <4>3
      <3>3. QED
        BY <3>1, <3>2
    <2>2. QED
      BY <1>1, <2>1 DEF SessionInv, EndsOK
  <1>6. QED
    BY <1>2, <1>3, <1>4, <1>5 DEF SessionInv

LEMMA DpuMoveKeeps ==
  ASSUME SessionInv, NEW d \in Rank, NEW to \in DpuState, DpuMove(d, to), LinksFall,
         UNCHANGED <<mode, setup, stat, target, client, work>>
  PROVE  SessionInv'
  <1>1. /\ pc'["dpu"][d] = to /\ \A q \in Rank \ {d} : pc'["dpu"][q] = pc["dpu"][q]
        /\ \A r \in Rank : pc'["host"][r] = pc["host"][r]
        /\ UNCHANGED <<mode, setup, stat, target, client, asked, bye, coll, answered, result>>
    BY DEF DpuMove, Moves, Group, work
  <1>2. TypeOK'
    BY <1>1 DEF SessionInv, TypeOK, LinksFall, DpuMove, Moves
  <1>3. PartnersOK'
    <2>1. \A q \in Rank : /\ link'[q] = "none" <=> target[q] = Nobody
                          /\ link'[q] = "asked" => pc["host"][q] = "connecting"
                          /\ link'[q] = "up" => client[target[q]] = q
      BY DEF SessionInv, PartnersOK, LinksFall
    <2>2. \A q \in Rank : /\ pc'["dpu"][q] \in Early \cup {"listening"} => client[q] = Nobody
                          /\ pc'["dpu"][q] \in {"accepted", "serving"} => client[q] # Nobody
      BY <1>1 DEF DpuMove, SessionInv, PartnersOK, Early
    <2>3. QED
      BY <1>1, <2>1, <2>2 DEF SessionInv, PartnersOK
  <1>4. CountsOK'
    BY <1>1 DEF SessionInv, CountsOK
  <1>5. EndsOK'
    BY <1>1 DEF DpuMove, SessionInv, EndsOK, Early
  <1>6. QED
    BY <1>2, <1>3, <1>4, <1>5 DEF SessionInv

\* The steps of either side that are such moves.
LEMMA HostMoves ==
  ASSUME SessionInv, NEW r \in Rank,
         Mpi("host", r) \/ Connected(r) \/ Wait(r) \/ WaitFails(r) \/ MpirunKills("host", r)
  PROVE  /\ \E to \in HostState : HostMove(r, to)
         /\ LinksFall
         /\ UNCHANGED <<mode, setup, stat, target, client, work>>
  <1>1. UNCHANGED <<mode, setup, stat, target, client, work>>
    BY DEF Mpi, MpiInit, MpiUp, Tested, MpiFinalize, Connected, Wait, WaitFails, MpirunKills
  <1>2. link' \in {link, Down("host", r)}
    BY DEF Mpi, MpiInit, MpiUp, Tested, MpiFinalize, Connected, Wait, WaitFails, MpirunKills
  <1>3. LinksFall
    <2>1. CASE link' = link
      BY <2>1 DEF LinksFall, SessionInv, TypeOK
    <2>2. CASE link' = Down("host", r)
      BY <2>2, DownFalls DEF SessionInv, Group
    <2>3. QED
      BY <1>2, <2>1, <2>2
  <1>4. ASSUME NEW to \in HostState, pc' = [pc EXCEPT !["host"][r] = to]
        PROVE  Moves("host", r, to)
    BY <1>4, ExceptMoves DEF SessionInv, Group
  <1>5. link' = Down("host", r) => link'[r] # "asked"
    BY DownFalls DEF SessionInv, Group
  <1>6. CASE MpiInit("host", r) \/ MpiUp("host", r)
    <2>1. PICK to \in {"init", "up"} :
            pc["host"][r] \in {"start", "init"} /\ pc' = [pc EXCEPT !["host"][r] = to]
      BY <1>6 DEF MpiInit, MpiUp, Goes
    <2>2. HostMove(r, to) /\ to \in HostState
      BY <1>4, <2>1 DEF HostMove, HostState, Early
    <2>3. QED
      BY <1>1, <1>3, <2>2
  <1>7. CASE Tested("host", r)
    <2>1. PICK to \in {"checked", "gone"} :
            pc["host"][r] = "up" /\ pc' = [pc EXCEPT !["host"][r] = to] /\ link' = link
      BY <1>7 DEF Tested, Goes, Fails
    <2>2. link[r] # "asked"
      BY <2>1 DEF SessionInv, PartnersOK
    <2>3. HostMove(r, to) /\ to \in HostState
      BY <1>4, <2>1, <2>2 DEF HostMove, HostState, Early
    <2>4. QED
      BY <1>1, <1>3, <2>3
  <1>8. CASE MpiFinalize("host", r)
    <2>1. /\ pc["host"][r] = "finalizing" /\ pc' = [pc EXCEPT !["host"][r] = "ok"]
          /\ \A q \in Rank : pc["host"][q] \in {"finalizing", "ok", "bad"}
      BY <1>8 DEF MpiFinalize, Goes
    <2>2. HostMove(r, "ok") /\ "ok" \in HostState
      BY <1>4, <2>1 DEF HostMove, HostState
    <2>3. QED
      BY <1>1, <1>3, <2>2
  <1>9. CASE Connected(r)
    <2>1. CASE pc' = [pc EXCEPT !["host"][r] = "open"]
      <3>1. pc["host"][r] = "connecting" /\ link[r] = "up"
        BY <1>9, <2>1 DEF Connected, Goes, Fails, SessionInv, TypeOK, Group
      <3>2. HostMove(r, "open") /\ "open" \in HostState
        BY <1>2, <1>4, <1>5, <2>1, <3>1 DEF HostMove, HostState
      <3>3. QED
        BY <1>1, <1>3, <3>2
    <2>2. CASE pc' = [pc EXCEPT !["host"][r] = "gone"]
      <3>1. pc["host"][r] = "connecting" /\ link'[r] # "asked"
        BY <1>5, <1>9, <2>2 DEF Connected, Goes, Fails, SessionInv, TypeOK, Group
      <3>2. HostMove(r, "gone") /\ "gone" \in HostState
        BY <1>4, <2>2, <3>1 DEF HostMove, HostState
      <3>3. QED
        BY <1>1, <1>3, <3>2
    <2>3. QED
      BY <1>9, <2>1, <2>2 DEF Connected, Goes, Fails
  <1>10. CASE Wait(r) \/ WaitFails(r)
    <2>1. pc["host"][r] = "waiting"
      BY <1>10 DEF Wait, WaitFails, Goes
    <2>2. CASE pc' = [pc EXCEPT !["host"][r] = "open"] /\ answered[target[r]] = asked[r]
      <3>1. HostMove(r, "open") /\ "open" \in HostState
        BY <1>4, <2>1, <2>2 DEF HostMove, HostState
      <3>2. QED
        BY <1>1, <1>3, <3>1
    <2>3. CASE pc' = [pc EXCEPT !["host"][r] = "gone"] /\ link' = Down("host", r)
      <3>1. HostMove(r, "gone") /\ "gone" \in HostState
        BY <1>4, <1>5, <2>1, <2>3 DEF HostMove, HostState
      <3>2. QED
        BY <1>1, <1>3, <3>1
    <2>4. QED
      BY <1>10, <2>2, <2>3 DEF Wait, WaitFails, Goes
  <1>11. CASE MpirunKills("host", r)
    <2>1. /\ pc' = [pc EXCEPT !["host"][r] = "gone"] /\ link' = Down("host", r)
          /\ \E q \in Rank : pc["host"][q] = "gone"
      BY <1>11 DEF MpirunKills
    <2>2. HostMove(r, "gone") /\ "gone" \in HostState
      BY <1>4, <1>5, <2>1 DEF HostMove, HostState
    <2>3. QED
      BY <1>1, <1>3, <2>2
  <1>12. QED
    BY <1>6, <1>7, <1>8, <1>9, <1>10, <1>11 DEF Mpi

LEMMA DpuMoves ==
  ASSUME SessionInv, NEW d \in Rank,
         Mpi("dpu", d) \/ Listen(d) \/ AcceptFails(d) \/ Register(d) \/ MpirunKills("dpu", d)
  PROVE  /\ \E to \in DpuState : DpuMove(d, to)
         /\ LinksFall
         /\ UNCHANGED <<mode, setup, stat, target, client, work>>
  <1>1. UNCHANGED <<mode, setup, stat, target, client, work>>
    BY DEF Mpi, MpiInit, MpiUp, Tested, MpiFinalize, Listen, AcceptFails, Register, MpirunKills
  <1>2. link' \in {link, Down("dpu", d)}
    BY DEF Mpi, MpiInit, MpiUp, Tested, MpiFinalize, Listen, AcceptFails, Register, MpirunKills
  <1>3. LinksFall
    <2>1. CASE link' = link
      BY <2>1 DEF LinksFall, SessionInv, TypeOK
    <2>2. CASE link' = Down("dpu", d)
      BY <2>2, DownFalls DEF SessionInv, Group
    <2>3. QED
      BY <1>2, <2>1, <2>2
  <1>4. PICK to \in DpuState :
          /\ pc' = [pc EXCEPT !["dpu"][d] = to]
          /\ \/ to \in Early \cup {"listening"} /\ pc["dpu"][d] \in Early
             \/ to = "serving" /\ pc["dpu"][d] = "accepted"
             \/ to = "ok" /\ pc["dpu"][d] = "finalizing" /\ stat[d] = 0
             \/ to = "bad" /\ pc["dpu"][d] = "finalizing"
             \/ to = "gone"
    <2>1. CASE MpiInit("dpu", d) \/ MpiUp("dpu", d) \/ Tested("dpu", d) \/ Listen(d)
      BY <2>1 DEF MpiInit, MpiUp, Tested, Listen, Goes, Fails, DpuState, Early, Listening
    <2>2. CASE MpiFinalize("dpu", d) \/ AcceptFails(d) \/ Register(d) \/ MpirunKills("dpu", d)
      BY <2>2 DEF SessionInv, TypeOK, MpiFinalize, AcceptFails, Register, MpirunKills, Goes, Fails, DpuState, Listening
    <2>3. QED
      BY <2>1, <2>2 DEF Mpi
  <1>5. DpuMove(d, to)
    BY <1>4, ExceptMoves DEF DpuMove, SessionInv, Group
  <1>6. QED
    BY <1>1, <1>3, <1>5

-----------------------------------------------------------------------------
(* The other steps of a DPU.                                               *)

LEMMA AcceptKeeps ==
  ASSUME SessionInv, NEW d \in Rank, Accept(d)
  PROVE  SessionInv'
  <1>1. PICK r \in Rank :
          /\ target[r] = d /\ link[r] = "asked" /\ pc["dpu"][d] = "listening"
          /\ pc' = [pc EXCEPT !["dpu"][d] = "accepted"]
          /\ client' = [client EXCEPT ![d] = r]
          /\ link' = [link EXCEPT ![r] = "up"]
          /\ UNCHANGED <<mode, setup, stat, target, work>>
    BY DEF Accept, Goes
  <1>2. /\ pc'["dpu"][d] = "accepted" /\ \A q \in Rank \ {d} : pc'["dpu"][q] = pc["dpu"][q]
        /\ \A q \in Rank : pc'["host"][q] = pc["host"][q]
        /\ pc' \in [Group -> [Rank -> HostState \cup DpuState]]
    <2>1. "accepted" \in DpuState
      BY DEF DpuState, Listening
    <2>2. Moves("dpu", d, "accepted")
      BY <1>1, <2>1, ExceptMoves DEF SessionInv, Group
    <2>3. QED
      BY <2>2 DEF Moves, Group
  <1>3. /\ client'[d] = r /\ \A q \in Rank \ {d} : client'[q] = client[q]
        /\ link'[r] = "up" /\ \A q \in Rank \ {r} : link'[q] = link[q]
        /\ client' \in [Rank -> Rank \cup {Nobody}]
        /\ link' \in [Rank -> {"none", "asked", "up", "down"}]
        /\ UNCHANGED <<mode, setup, stat, target, asked, bye, coll, answered, result>>
    BY <1>1 DEF SessionInv, TypeOK, work
  <1>4. \A q \in Rank : q # Nobody
    BY SessionAssumption DEF Rank, Nobody
  <1>5. TypeOK'
    BY <1>2, <1>3 DEF SessionInv, TypeOK, DpuState, Listening
  <1>6. client[d] = Nobody /\ pc["host"][r] = "connecting" /\ asked[r] = 0
        /\ coll[d] = 0 /\ answered[d] = 0
    <2>1. client[d] = Nobody /\ pc["host"][r] = "connecting" /\ asked[r] = 0 /\ coll[d] = 0
          /\ answered[d] <= 0
      BY <1>1 DEF SessionInv, PartnersOK, CountsOK
    <2>2. QED
      BY <2>1 DEF SessionInv, TypeOK
  <1>7. PartnersOK'
    <2>1. \A q \in Rank : /\ link'[q] = "none" <=> target[q] = Nobody
                          /\ pc["host"][q] \in Early => target[q] = Nobody
                          /\ link'[q] = "asked" => pc["host"][q] = "connecting"
      BY <1>1, <1>3, <1>4 DEF SessionInv, PartnersOK
    <2>2. \A q \in Rank : link'[q] = "up" => client'[target[q]] = q
      <3>1. \A q \in Rank : link[q] = "up" =>
              client[target[q]] = q /\ target[q] \in Rank \ {d}
        BY <1>4, <1>6 DEF SessionInv, TypeOK, PartnersOK
      <3>2. QED
        BY <1>1, <1>3, <3>1
    <2>3. \A q \in Rank : pc["host"][q] \in {"open", "waiting", "finalizing", "ok"} \/ q \in bye =>
            target[q] # Nobody /\ client'[target[q]] = q
      <3>1. \A q \in Rank : pc["host"][q] \in {"open", "waiting", "finalizing", "ok"} \/ q \in bye =>
              target[q] # Nobody /\ client[target[q]] = q /\ target[q] # d /\ target[q] \in Rank
        BY <1>4, <1>6 DEF SessionInv, TypeOK, PartnersOK, Rank, Nobody
      <3>2. QED
        BY <1>3, <3>1
    <2>4. \A q \in Rank : client'[q] # Nobody => target[client'[q]] = q
      BY <1>1, <1>3 DEF SessionInv, PartnersOK
    <2>5. \A q \in Rank : /\ pc'["dpu"][q] \in Early \cup {"listening"} => client'[q] = Nobody
                          /\ pc'["dpu"][q] \in {"accepted", "serving"} => client'[q] # Nobody
      BY <1>2, <1>3, <1>4 DEF SessionInv, PartnersOK, Early
    <2>6. QED
      BY <1>2, <1>3, <2>1, <2>2, <2>3, <2>4, <2>5 DEF PartnersOK
  <1>8. CountsOK'
    BY <1>2, <1>3, <1>6 DEF SessionInv, CountsOK
  <1>9. EndsOK'
    BY <1>2, <1>3 DEF SessionInv, EndsOK
  <1>10. QED
    BY <1>5, <1>7, <1>8, <1>9 DEF SessionInv

LEMMA CollectKeeps ==
  ASSUME SessionInv, NEW d \in Rank, Collect(d)
  PROVE  SessionInv'
  <1>1. /\ coll[d] < asked[client[d]] /\ client[d] # Nobody /\ client[d] \in Rank
        /\ coll' = [coll EXCEPT ![d] = coll[d] + 1]
        /\ UNCHANGED <<mode, setup, pc, stat, target, client, link, asked, bye, answered, result>>
    BY DEF Collect, SessionInv, TypeOK, PartnersOK
  <1>2. coll[d] \in Nat /\ answered[d] \in Nat /\ asked[client[d]] \in 0 .. Ops /\ Ops \in Nat
    BY <1>1, SessionAssumption DEF SessionInv, TypeOK
  <1>3. /\ coll'[d] = coll[d] + 1 /\ \A q \in Rank \ {d} : coll'[q] = coll[q]
        /\ coll' \in [Rank -> 0 .. Ops]
    BY <1>1, <1>2 DEF SessionInv, TypeOK
  <1>4. TypeOK' /\ PartnersOK' /\ EndsOK'
    BY <1>1, <1>3 DEF SessionInv, TypeOK, PartnersOK, EndsOK
  <1>5. answered[d] <= coll'[d] /\ coll'[d] <= asked[client[d]]
    BY <1>1, <1>2, <1>3 DEF SessionInv, CountsOK
  <1>6. CountsOK'
    BY <1>1, <1>3, <1>5 DEF SessionInv, CountsOK
  <1>7. QED
    BY <1>4, <1>6 DEF SessionInv

\* What Answer(d) finds: the operation it answers is the one its host asked
\* for last, that host does not ask for another, and every DPU has a client.
LEMMA AnswersPresent ==
  ASSUME SessionInv, NEW d \in Rank, Answer(d)
  PROVE  /\ client[d] \in Rank /\ target[client[d]] = d
         /\ answered[d] + 1 = asked[client[d]] /\ coll[d] = asked[client[d]]
         /\ asked[client[d]] \in 1 .. Ops
         /\ pc["host"][client[d]] # "open"
         /\ \A q \in Rank : client[q] \in Rank
  <1>1. client[d] # Nobody /\ client[d] \in Rank /\ target[client[d]] = d
    BY DEF Answer, SessionInv, TypeOK, PartnersOK
  <1>2. answered[d] \in Nat /\ coll[d] \in Nat /\ asked[client[d]] \in 0 .. Ops
    BY <1>1 DEF SessionInv, TypeOK
  <1>3. \A q \in Rank : coll[q] >= answered[d] + 1
    BY DEF Answer
  <1>4. coll[d] <= asked[client[d]] /\ asked[client[d]] <= answered[d] + 1
    BY <1>1 DEF SessionInv, CountsOK
  <1>5. answered[d] + 1 = asked[client[d]] /\ coll[d] = asked[client[d]] /\ asked[client[d]] \in 1 .. Ops
    BY <1>2, <1>3, <1>4, SessionAssumption
  <1>6. pc["host"][client[d]] # "open"
    BY <1>1, <1>2, <1>5 DEF SessionInv, CountsOK
  <1>7. \A q \in Rank : client[q] # Nobody
    <2> SUFFICES ASSUME NEW q \in Rank, client[q] = Nobody PROVE FALSE
      OBVIOUS
    <2>1. coll[q] = 0
      BY DEF SessionInv, CountsOK
    <2>2. QED
      BY <1>2, <1>3, <2>1
  <1>8. QED
    BY <1>1, <1>5, <1>6, <1>7 DEF SessionInv, TypeOK

LEMMA AnswerKeeps ==
  ASSUME SessionInv, NEW d \in Rank, Answer(d)
  PROVE  SessionInv'
  <1> DEFINE r == client[d]
             k == answered[d] + 1
  <1>1. /\ r \in Rank /\ target[r] = d /\ k = asked[r] /\ coll[d] = asked[r] /\ asked[r] \in 1 .. Ops
        /\ pc["host"][r] # "open" /\ \A q \in Rank : client[q] \in Rank
    BY AnswersPresent
  <1>2. /\ answered' = [answered EXCEPT ![d] = k]
        /\ result' = [result EXCEPT ![r] = [q \in Rank |-> <<client[q], k>>]]
        /\ UNCHANGED <<mode, setup, pc, stat, target, client, link, asked, bye, coll>>
    BY DEF Answer
  <1>3. /\ answered'[d] = asked[r] /\ \A q \in Rank \ {d} : answered'[q] = answered[q]
        /\ answered' \in [Rank -> 0 .. Ops]
    BY <1>1, <1>2 DEF SessionInv, TypeOK
  <1>4. TypeOK'
    <2>1. result' \in [Rank -> {<<>>} \cup [Rank -> (Rank \cup {Nobody}) \X (1 .. Ops)]]
      BY <1>1, <1>2 DEF SessionInv, TypeOK
    <2>2. QED
      BY <1>2, <1>3, <2>1 DEF SessionInv, TypeOK
  <1>5. CountsOK'
    <2>1. \A q \in Rank : answered'[q] <= coll[q]
      BY <1>1, <1>3 DEF SessionInv, CountsOK
    <2>2. \A q \in Rank : client[q] # Nobody =>
            coll[q] <= asked[client[q]] /\ asked[client[q]] <= answered'[q] + 1
      BY <1>1, <1>3 DEF SessionInv, CountsOK
    <2>3. \A q \in Rank : pc["host"][q] = "open" => answered'[target[q]] = asked[q]
      <3> SUFFICES ASSUME NEW q \in Rank, pc["host"][q] = "open"
                   PROVE  answered'[target[q]] = asked[q]
        OBVIOUS
      <3>1. client[target[q]] = q /\ target[q] \in Rank /\ q # r
        BY <1>1 DEF SessionInv, TypeOK, PartnersOK
      <3>2. QED
        BY <1>3, <3>1 DEF SessionInv, CountsOK
    <2>4. \A q \in Rank : pc["host"][q] \in {"finalizing", "ok"} \/ q \in bye =>
            asked[q] = Ops /\ answered'[target[q]] = Ops
      <3> SUFFICES ASSUME NEW q \in Rank, pc["host"][q] \in {"finalizing", "ok"} \/ q \in bye
                   PROVE  asked[q] = Ops /\ answered'[target[q]] = Ops
        OBVIOUS
      <3>1. client[target[q]] = q /\ target[q] \in Rank
        BY DEF SessionInv, TypeOK, PartnersOK
      <3>2. asked[q] = Ops /\ answered[target[q]] = Ops
        BY DEF SessionInv, CountsOK
      <3>3. CASE target[q] = d
        BY <1>3, <3>1, <3>2, <3>3
      <3>4. CASE target[q] # d
        BY <1>3, <3>1, <3>2, <3>4
      <3>5. QED
        BY <3>3, <3>4
    <2>5. QED
      BY <1>2, <2>1, <2>2, <2>3, <2>4 DEF SessionInv, CountsOK
  <1>6. PartnersOK' /\ EndsOK'
    BY <1>2 DEF SessionInv, PartnersOK, EndsOK
  <1>7. QED
    BY <1>4, <1>5, <1>6 DEF SessionInv

LEMMA StopKeeps ==
  ASSUME SessionInv, NEW d \in Rank, Stop(d)
  PROVE  SessionInv'
  <1>1. /\ pc["dpu"][d] = "serving" /\ pc' = [pc EXCEPT !["dpu"][d] = "finalizing"]
        /\ client[d] \in Rank /\ target[client[d]] = d
        /\ (client[d] \in bye /\ stat' = stat) \/ stat' = [stat EXCEPT ![d] = 1]
        /\ link' = [link EXCEPT ![client[d]] = "down"]
        /\ UNCHANGED <<mode, setup, target, client, asked, bye, coll, answered, result>>
    BY DEF Stop, Goes, Goodbye, work, SessionInv, TypeOK, PartnersOK
  <1>2. link[client[d]] # "none"
    BY <1>1, SessionAssumption DEF SessionInv, PartnersOK, Rank, Nobody
  <1>3. LinksFall
    BY <1>1, <1>2 DEF LinksFall, SessionInv, TypeOK
  <1>4. /\ pc'["dpu"][d] = "finalizing" /\ \A q \in Rank \ {d} : pc'["dpu"][q] = pc["dpu"][q]
        /\ \A q \in Rank : pc'["host"][q] = pc["host"][q]
        /\ pc' \in [Group -> [Rank -> HostState \cup DpuState]]
    <2>1. "finalizing" \in DpuState
      BY DEF DpuState
    <2>2. Moves("dpu", d, "finalizing")
      BY <1>1, <2>1, ExceptMoves DEF SessionInv, Group
    <2>3. QED
      BY <2>2 DEF Moves, Group
  <1>5. stat' \in [Rank -> {0, 1}] /\ (stat'[d] = 0 => client[d] \in bye)
        /\ \A q \in Rank \ {d} : stat'[q] = stat[q]
    <2>1. CASE client[d] \in bye /\ stat' = stat
      BY <2>1 DEF SessionInv, TypeOK
    <2>2. CASE stat' = [stat EXCEPT ![d] = 1]
      BY <2>2 DEF SessionInv, TypeOK
    <2>3. QED
      BY <1>1, <2>1, <2>2
  <1>6. TypeOK'
    BY <1>1, <1>3, <1>4, <1>5 DEF SessionInv, TypeOK, LinksFall, DpuState
  <1>7. PartnersOK'
    <2>1. \A q \in Rank : /\ link'[q] = "none" <=> target[q] = Nobody
                          /\ link'[q] = "asked" => pc["host"][q] = "connecting"
                          /\ link'[q] = "up" => client[target[q]] = q
      BY <1>3 DEF SessionInv, PartnersOK, LinksFall
    <2>2. \A q \in Rank : /\ pc'["dpu"][q] \in Early \cup {"listening"} => client[q] = Nobody
                          /\ pc'["dpu"][q] \in {"accepted", "serving"} => client[q] # Nobody
      BY <1>4 DEF SessionInv, PartnersOK, Early
    <2>3. QED
      BY <1>1, <1>4, <2>1, <2>2 DEF SessionInv, PartnersOK
  <1>8. CountsOK'
    BY <1>1, <1>4 DEF SessionInv, CountsOK
  <1>9. EndsOK'
    BY <1>1, <1>4, <1>5 DEF SessionInv, EndsOK
  <1>10. QED
    BY <1>6, <1>7, <1>8, <1>9 DEF SessionInv

-----------------------------------------------------------------------------
(* The other steps of a host.                                              *)

LEMMA ConnectKeeps ==
  ASSUME SessionInv, NEW r \in Rank, Connect(r)
  PROVE  SessionInv'
  <1>1. pc["host"][r] = "checked" /\ target[r] = Nobody /\ link[r] = "none" /\ asked[r] = 0
        /\ r \notin bye /\ UNCHANGED <<mode, setup, stat, client, work>>
    BY DEF Connect, Goes, Fails, SessionInv, PartnersOK, CountsOK, Early
  <1>2. CASE pc' = [pc EXCEPT !["host"][r] = "gone"] /\ UNCHANGED <<target, link>>
    <2>1. HostMove(r, "gone") /\ "gone" \in HostState /\ LinksFall
      BY <1>1, <1>2, ExceptMoves DEF HostMove, HostState, LinksFall, SessionInv, TypeOK, Group
    <2>2. QED
      BY <1>1, <1>2, <2>1, HostMoveKeeps
  <1>3. ASSUME NEW d \in Rank, pc' = [pc EXCEPT !["host"][r] = "connecting"],
               target' = [target EXCEPT ![r] = d], link' = [link EXCEPT ![r] = "asked"]
        PROVE  SessionInv'
    <2>1. /\ pc'["host"][r] = "connecting" /\ \A q \in Rank \ {r} : pc'["host"][q] = pc["host"][q]
          /\ \A q \in Rank : pc'["dpu"][q] = pc["dpu"][q]
          /\ pc' \in [Group -> [Rank -> HostState \cup DpuState]]
      <3>1. "connecting" \in HostState
        BY DEF HostState
      <3>2. Moves("host", r, "connecting")
        BY <1>3, <3>1, ExceptMoves DEF SessionInv, Group
      <3>3. QED
        BY <3>2 DEF Moves, Group
    <2>2. /\ target'[r] = d /\ \A q \in Rank \ {r} : target'[q] = target[q]
          /\ link'[r] = "asked" /\ \A q \in Rank \ {r} : link'[q] = link[q]
          /\ target' \in [Rank -> Rank \cup {Nobody}]
          /\ link' \in [Rank -> {"none", "asked", "up", "down"}]
          /\ UNCHANGED <<mode, setup, stat, client, asked, bye, coll, answered, result>>
      BY <1>1, <1>3 DEF SessionInv, TypeOK, work
    <2>3. \A q \in Rank : q # Nobody
      BY SessionAssumption DEF Rank, Nobody
    <2>4. TypeOK'
      BY <2>1, <2>2 DEF SessionInv, TypeOK, HostState
    <2>5. \A q \in Rank : client[q] # r
      BY <1>1, <2>3 DEF SessionInv, PartnersOK
    <2>6. PartnersOK'
      <3>1. \A q \in Rank : /\ link'[q] = "none" <=> target'[q] = Nobody
                            /\ pc'["host"][q] \in Early => target'[q] = Nobody
                            /\ link'[q] = "asked" => pc'["host"][q] = "connecting"
                            /\ link'[q] = "up" => client[target'[q]] = q
        BY <2>1, <2>2, <2>3 DEF SessionInv, PartnersOK, Early
      <3>2. \A q \in Rank : pc'["host"][q] \in {"open", "waiting", "finalizing", "ok"} \/ q \in bye =>
              target'[q] # Nobody /\ client[target'[q]] = q
        BY <1>1, <2>1, <2>2 DEF SessionInv, PartnersOK
      <3>3. \A q \in Rank : client[q] # Nobody => target'[client[q]] = q
        BY <2>2, <2>5 DEF SessionInv, TypeOK, PartnersOK
      <3>4. QED
        BY <2>1, <2>2, <3>1, <3>2, <3>3 DEF SessionInv, PartnersOK
    <2>7. CountsOK'
      BY <1>1, <2>1, <2>2 DEF SessionInv, CountsOK, Early
    <2>8. EndsOK'
      BY <1>1, <2>1, <2>2 DEF SessionInv, EndsOK
    <2>9. QED
      BY <2>4, <2>6, <2>7, <2>8 DEF SessionInv
  <1>4. QED
    BY <1>2, <1>3 DEF Connect, Goes, Fails

LEMMA IalltoallKeeps ==
  ASSUME SessionInv, NEW r \in Rank, Ialltoall(r)
  PROVE  SessionInv'
  <1>1. /\ pc["host"][r] = "open" /\ asked[r] < Ops
        /\ UNCHANGED <<mode, setup, stat, target, client, bye, coll, answered>>
        /\ target[r] \in Rank /\ client[target[r]] = r /\ answered[target[r]] = asked[r]
    BY DEF Ialltoall, Goes, SessionInv, TypeOK, PartnersOK, CountsOK
  <1>2. CASE /\ pc' = [pc EXCEPT !["host"][r] = "gone"] /\ link' = Down("host", r)
             /\ UNCHANGED <<asked, result>>
    <2>1. HostMove(r, "gone") /\ "gone" \in HostState /\ LinksFall
      BY <1>1, <1>2, ExceptMoves, DownFalls DEF HostMove, HostState, SessionInv, Group
    <2>2. UNCHANGED work
      BY <1>1, <1>2 DEF work
    <2>3. QED
      BY <1>1, <1>2, <2>1, <2>2, HostMoveKeeps
  <1>3. CASE /\ link[r] = "up" /\ pc' = [pc EXCEPT !["host"][r] = "waiting"]
             /\ asked' = [asked EXCEPT ![r] = @ + 1]
             /\ result' = [result EXCEPT ![r] = <<>>]
             /\ UNCHANGED link
    <2>1. /\ pc'["host"][r] = "waiting" /\ \A q \in Rank \ {r} : pc'["host"][q] = pc["host"][q]
          /\ \A q \in Rank : pc'["dpu"][q] = pc["dpu"][q]
          /\ pc' \in [Group -> [Rank -> HostState \cup DpuState]]
      <3>1. "waiting" \in HostState
        BY DEF HostState
      <3>2. Moves("host", r, "waiting")
        BY <1>3, <3>1, ExceptMoves DEF SessionInv, Group
      <3>3. QED
        BY <3>2 DEF Moves, Group
    <2>2. asked[r] \in 0 .. Ops /\ Ops \in Nat
      BY SessionAssumption DEF SessionInv, TypeOK
    <2>3. asked[r] + 1 \in 0 .. Ops
      BY <1>1, <2>2
    <2>4. /\ asked'[r] = asked[r] + 1 /\ \A q \in Rank \ {r} : asked'[q] = asked[q]
          /\ asked' \in [Rank -> 0 .. Ops]
      BY <1>3, <2>3 DEF SessionInv, TypeOK
    <2>5. TypeOK'
      <3>1. result' \in [Rank -> {<<>>} \cup [Rank -> (Rank \cup {Nobody}) \X (1 .. Ops)]]
        BY <1>3 DEF SessionInv, TypeOK
      <3>2. QED
        BY <1>1, <1>3, <2>1, <2>4, <3>1 DEF SessionInv, TypeOK, HostState
    <2>6. PartnersOK'
      BY <1>1, <1>3, <2>1 DEF SessionInv, PartnersOK, Early
    <2>7. \A q \in Rank : client[q] # Nobody =>
            coll[q] <= asked'[client[q]] /\ asked'[client[q]] <= answered[q] + 1
      <3> SUFFICES ASSUME NEW q \in Rank, client[q] # Nobody
                   PROVE  coll[q] <= asked'[client[q]] /\ asked'[client[q]] <= answered[q] + 1
        OBVIOUS
      <3>1. coll[q] <= asked[client[q]] /\ asked[client[q]] <= answered[q] + 1
            /\ target[client[q]] = q /\ client[q] \in Rank
        BY DEF SessionInv, TypeOK, PartnersOK, CountsOK
      <3>2. CASE client[q] = r
        <4>1. q = target[r] /\ coll[q] \in Nat
          BY <3>1, <3>2 DEF SessionInv, TypeOK
        <4>2. QED
          BY <1>1, <2>2, <2>4, <3>1, <3>2, <4>1
      <3>3. CASE client[q] # r
        BY <2>4, <3>1, <3>3
      <3>4. QED
        BY <3>2, <3>3
    <2>8. \A q \in Rank : pc'["host"][q] \in {"finalizing", "ok"} \/ q \in bye =>
            asked'[q] = Ops /\ answered[target[q]] = Ops
      <3>1. r \notin bye
        BY <1>1, <2>2 DEF SessionInv, CountsOK
      <3>2. QED
        BY <2>1, <2>4, <3>1 DEF SessionInv, CountsOK
    <2>9. \A q \in Rank : /\ pc'["host"][q] \in Early \cup {"connecting"} => asked'[q] = 0
                          /\ pc'["host"][q] = "open" => answered[target[q]] = asked'[q]
      BY <2>1, <2>4 DEF SessionInv, CountsOK, Early
    <2>10. CountsOK'
      BY <1>1, <2>7, <2>8, <2>9 DEF SessionInv, CountsOK
    <2>11. EndsOK'
      BY <1>1, <2>1 DEF SessionInv, EndsOK
    <2>12. QED
      BY <2>5, <2>6, <2>10, <2>11 DEF SessionInv
  <1>4. QED
    BY <1>2, <1>3 DEF Ialltoall, Goes

LEMMA ExitKeeps ==
  ASSUME SessionInv, NEW r \in Rank, Exit(r)
  PROVE  SessionInv'
  <1>1. /\ pc["host"][r] = "open" /\ asked[r] = Ops
        /\ pc' = [pc EXCEPT !["host"][r] = "finalizing"]
        /\ bye' \in {bye, bye \cup {r}} /\ link' \in {link, Down("host", r)}
        /\ UNCHANGED <<mode, setup, stat, target, client, asked, coll, answered, result>>
        /\ target[r] # Nobody /\ client[target[r]] = r /\ answered[target[r]] = Ops
    BY DEF Exit, Goes, Through, SessionInv, PartnersOK, CountsOK
  <1>2. LinksFall
    <2>1. CASE link' = link
      BY <2>1 DEF LinksFall, SessionInv, TypeOK
    <2>2. CASE link' = Down("host", r)
      BY <2>2, DownFalls DEF SessionInv, Group
    <2>3. QED
      BY <1>1, <2>1, <2>2
  <1>3. /\ pc'["host"][r] = "finalizing" /\ \A q \in Rank \ {r} : pc'["host"][q] = pc["host"][q]
        /\ \A q \in Rank : pc'["dpu"][q] = pc["dpu"][q]
        /\ pc' \in [Group -> [Rank -> HostState \cup DpuState]]
    <2>1. "finalizing" \in HostState
      BY DEF HostState
    <2>2. Moves("host", r, "finalizing")
      BY <1>1, <2>1, ExceptMoves DEF SessionInv, Group
    <2>3. QED
      BY <2>2 DEF Moves, Group
  <1>4. TypeOK'
    BY <1>1, <1>2, <1>3 DEF SessionInv, TypeOK, LinksFall, HostState
  <1>5. PartnersOK'
    <2>1. \A q \in Rank : /\ link'[q] = "none" <=> target[q] = Nobody
                          /\ link'[q] = "asked" => pc'["host"][q] = "connecting"
                          /\ link'[q] = "up" => client[target[q]] = q
      BY <1>1, <1>2, <1>3 DEF SessionInv, PartnersOK, LinksFall
    <2>2. \A q \in Rank : /\ pc'["host"][q] \in Early => target[q] = Nobody
                          /\ pc'["host"][q] \in {"open", "waiting", "finalizing", "ok"} \/ q \in bye' =>
                               target[q] # Nobody /\ client[target[q]] = q
      BY <1>1, <1>3 DEF SessionInv, PartnersOK, Early
    <2>3. QED
      BY <1>1, <1>3, <2>1, <2>2 DEF SessionInv, PartnersOK
  <1>6. CountsOK'
    BY <1>1, <1>3 DEF SessionInv, CountsOK, Early
  <1>7. EndsOK'
    BY <1>1, <1>3 DEF SessionInv, EndsOK
  <1>8. QED
    BY <1>4, <1>5, <1>6, <1>7 DEF SessionInv

-----------------------------------------------------------------------------

LEMMA SessionNext == SessionInv /\ [Next]_vars => SessionInv'
  <1> SUFFICES ASSUME SessionInv, [Next]_vars PROVE SessionInv'
    OBVIOUS
  <1>1. ASSUME NEW d \in Rank, Dpu(d) \/ AcceptFails(d) \/ MpirunKills("dpu", d) PROVE SessionInv'
    BY <1>1, DpuMoves, DpuMoveKeeps, AcceptKeeps, CollectKeeps, AnswerKeeps, StopKeeps DEF Dpu
  <1>2. ASSUME NEW r \in Rank, Host(r) \/ WaitFails(r) \/ MpirunKills("host", r) PROVE SessionInv'
    BY <1>2, HostMoves, HostMoveKeeps, ConnectKeeps, IalltoallKeeps, ExitKeeps DEF Host
  <1>3. CASE UNCHANGED vars
    BY <1>3 DEF vars, SessionInv, TypeOK, PartnersOK, CountsOK, EndsOK
  <1>4. QED
    BY <1>1, <1>2, <1>3 DEF Next, Group

LEMMA SessionAlways == Spec => []SessionInv
  BY SessionInit, SessionNext, PTL DEF Spec

\* Whatever fails, and however the addresses are dealt: when a host ends with
\* status 0, every host has asked for all its operations and the DPU it asked
\* has completed them; when a DPU does, its own host has, and has said goodbye.
THEOREM SessionSuccessMeansAll == Spec => []SuccessMeansAll
  <1>1. SessionInv => SuccessMeansAll
    <2> SUFFICES ASSUME SessionInv PROVE SuccessMeansAll
      OBVIOUS
    <2>1. ASSUME NEW r \in Rank, pc["host"][r] = "ok", NEW q \in Rank
          PROVE  asked[q] = Ops /\ answered[target[q]] = Ops
      BY <2>1 DEF SessionInv, EndsOK, CountsOK
    <2>2. ASSUME NEW r \in Rank, pc["dpu"][r] = "ok"
          PROVE  client[r] \in bye /\ asked[client[r]] = Ops /\ answered[r] = Ops
      <3>1. client[r] \in bye
        BY <2>2 DEF SessionInv, EndsOK
      <3>2. client[r] \in Rank /\ client[r] # Nobody
        BY <3>1, SessionAssumption DEF SessionInv, TypeOK, Rank, Nobody
      <3>3. target[client[r]] = r
        BY <3>2 DEF SessionInv, PartnersOK
      <3>4. QED
        BY <3>1, <3>2, <3>3 DEF SessionInv, CountsOK
    <2>3. QED
      BY <2>1, <2>2 DEF SuccessMeansAll
  <1>2. QED
    BY <1>1, SessionAlways, PTL

-----------------------------------------------------------------------------
(* What a host finds in its buffer.                                        *)

\* A DPU that has taken up a host keeps it, and a host the DPU it has asked.
LEMMA PartnersStay ==
  ASSUME SessionInv, [Next]_vars
  PROVE  /\ \A d \in Rank : client[d] # Nobody => client'[d] = client[d]
         /\ \A r \in Rank : target[r] # Nobody => target'[r] = target[r]
         /\ setup' = setup /\ mode' = mode
  <1>1. ASSUME NEW d \in Rank, Accept(d)
        PROVE  \A q \in Rank : client[q] # Nobody => client'[q] = client[q]
    <2>1. client[d] = Nobody
      BY <1>1 DEF Accept, Goes, Fails, SessionInv, PartnersOK
    <2>2. QED
      BY <1>1, <2>1 DEF Accept, SessionInv, TypeOK
  <1>2. ASSUME NEW r \in Rank, Connect(r)
        PROVE  \A q \in Rank : target[q] # Nobody => target'[q] = target[q]
    <2>1. target[r] = Nobody
      BY <1>2 DEF Connect, Goes, Fails, SessionInv, PartnersOK, Early
    <2>2. QED
      BY <1>2, <2>1 DEF Connect, SessionInv, TypeOK
  <1>3. client' = client \/ \E d \in Rank : Accept(d)
    BY DEF Next, Dpu, Host, Mpi, MpiInit, MpiUp, Tested, MpiFinalize, MpirunKills, Listen, Register,
       Collect, Answer, Stop, Connect, Connected, Ialltoall, Wait, Exit, AcceptFails, WaitFails, vars
  <1>4. target' = target \/ \E r \in Rank : Connect(r)
    BY DEF Next, Dpu, Host, Mpi, MpiInit, MpiUp, Tested, MpiFinalize, MpirunKills, Listen, Accept,
       Register, Collect, Answer, Stop, Connected, Ialltoall, Wait, Exit, AcceptFails, WaitFails, vars
  <1>5. setup' = setup /\ mode' = mode
    BY DEF Next, Dpu, Host, Mpi, MpiInit, MpiUp, Tested, MpiFinalize, MpirunKills, Listen, Accept,
       Register, Collect, Answer, Stop, Connect, Connected, Ialltoall, Wait, Exit, AcceptFails, WaitFails, vars
  <1>6. QED
    BY <1>1, <1>2, <1>3, <1>4, <1>5

\* A result is that of the last operation its host asked for, with one block
\* for each DPU: that of the host the DPU serves.
ResultsOK ==
  \A r \in Rank : result[r] # <<>> =>
    /\ result[r] = [q \in Rank |-> <<client[q], asked[r]>>]
    /\ \A q \in Rank : client[q] # Nobody
    /\ target[r] # Nobody /\ client[target[r]] = r

LEMMA ResultsNext == SessionInv /\ ResultsOK /\ [Next]_vars => ResultsOK'
  <1> SUFFICES ASSUME SessionInv, ResultsOK, [Next]_vars, NEW r \in Rank, result'[r] # <<>>
               PROVE  /\ result'[r] = [q \in Rank |-> <<client'[q], asked'[r]>>]
                      /\ \A q \in Rank : client'[q] # Nobody
                      /\ target'[r] # Nobody /\ client'[target'[r]] = r
    BY DEF ResultsOK
  <1>1. CASE result'[r] = result[r] /\ asked'[r] = asked[r]
    <2>1. /\ result[r] = [q \in Rank |-> <<client[q], asked[r]>>]
          /\ \A q \in Rank : client[q] # Nobody
          /\ target[r] # Nobody /\ target[r] \in Rank /\ client[target[r]] = r
      BY <1>1 DEF ResultsOK, SessionInv, TypeOK
    <2>2. target'[r] = target[r] /\ \A q \in Rank : client'[q] = client[q]
      BY <2>1, PartnersStay
    <2>3. QED
      BY <1>1, <2>1, <2>2
  <1>2. ASSUME NEW d \in Rank, Answer(d), r = client[d]
        PROVE  /\ result'[r] = [q \in Rank |-> <<client'[q], asked'[r]>>]
               /\ \A q \in Rank : client'[q] # Nobody
               /\ target'[r] # Nobody /\ client'[target'[r]] = r
    <2>1. /\ result'[r] = [q \in Rank |-> <<client[q], answered[d] + 1>>]
          /\ UNCHANGED <<target, client, asked>>
      BY <1>2 DEF Answer, SessionInv, TypeOK
    <2>2. /\ target[r] = d /\ answered[d] + 1 = asked[r] /\ \A q \in Rank : client[q] \in Rank
      BY <1>2, AnswersPresent
    <2>3. \A q \in Rank : q # Nobody
      BY SessionAssumption DEF Rank, Nobody
    <2>4. QED
      BY <1>2, <2>1, <2>2, <2>3
  <1>3. ASSUME NEW d \in Rank, Answer(d), r # client[d]
        PROVE  result'[r] = result[r] /\ asked'[r] = asked[r]
    BY <1>3 DEF Answer, SessionInv, TypeOK
  <1>4. ASSUME NEW q \in Rank, Ialltoall(q)
        PROVE  result'[r] = result[r] /\ asked'[r] = asked[r]
    BY <1>4 DEF Ialltoall, SessionInv, TypeOK
  <1>5. \/ UNCHANGED <<result, asked>>
        \/ \E q \in Rank : Answer(q) \/ Ialltoall(q)
    BY DEF Next, Dpu, Host, Mpi, MpiInit, MpiUp, Tested, MpiFinalize, MpirunKills, Listen, Accept,
       Register, Collect, Stop, Connect, Connected, Wait, Exit, AcceptFails, WaitFails, vars, work
  <1>6. QED
    BY <1>1, <1>2, <1>3, <1>4, <1>5

\* The DPU a host has asked listens on the address the host has computed.
TargetsOK == \A r \in Rank : target[r] # Nobody => Has(target[r], DpuAddr(r))

LEMMA TargetsNext == SessionInv /\ TargetsOK /\ [Next]_vars => TargetsOK'
  <1> SUFFICES ASSUME SessionInv, TargetsOK, [Next]_vars, NEW r \in Rank, target'[r] # Nobody
               PROVE  Has(target[r], DpuAddr(r))'
    BY DEF TargetsOK
  <1>1. setup' = setup
    BY PartnersStay
  <1>2. CASE target[r] # Nobody
    <2>1. target'[r] = target[r]
      BY <1>2, PartnersStay
    <2>2. QED
      BY <1>1, <1>2, <2>1 DEF TargetsOK, Has, DpuAddr
  <1>3. CASE target[r] = Nobody
    <2>1. PICK q \in Rank : Connect(q)
      BY <1>3 DEF Next, Dpu, Host, Mpi, MpiInit, MpiUp, Tested, MpiFinalize, MpirunKills, Listen,
         Accept, Register, Collect, Answer, Stop, Connected, Ialltoall, Wait, Exit, AcceptFails, WaitFails, vars
    <2>2. q = r
      BY <1>3, <2>1 DEF Connect, SessionInv, TypeOK
    <2>3. PICK d \in Rank : Has(d, DpuAddr(r)) /\ target' = [target EXCEPT ![r] = d]
      BY <1>3, <2>1, <2>2 DEF Connect
    <2>4. QED
      BY <1>1, <2>3 DEF Has, DpuAddr, SessionInv, TypeOK
  <1>4. QED
    BY <1>2, <1>3

LEMMA TargetsAlways == Spec => [](ResultsOK /\ TargetsOK)
  <1>1. Init => ResultsOK /\ TargetsOK
    BY DEF Init, ResultsOK, TargetsOK
  <1>2. QED
    BY <1>1, ResultsNext, TargetsNext, SessionAlways, PTL DEF Spec

-----------------------------------------------------------------------------
(* What offset_addr finds.                                                 *)

LEMMA ExaminedListed ==
  ASSUME NEW ifaddrs \in Seq(Interface) \ {<<>>}
  PROVE  /\ Len(ifaddrs) \in Nat \ {0} /\ DOMAIN ifaddrs = 1 .. Len(ifaddrs)
         /\ \A n \in Examined(ifaddrs) : n \in 1 .. Len(ifaddrs)
  <1>1. Len(ifaddrs) \in Nat \ {0} /\ DOMAIN ifaddrs = 1 .. Len(ifaddrs)
    BY EmptySeq, LenProperties
  <1>2. \A n \in Examined(ifaddrs) : n \in 1 .. Len(ifaddrs)
    BY <1>1 DEF Examined
  <1>3. QED
    BY <1>1, <1>2

\* The loop stops at the first address of the interface and nowhere else.
LEMMA FirstOfOwn ==
  ASSUME NEW ifaddrs \in Seq(Interface) \ {<<>>}, NEW n \in 1 .. Len(ifaddrs)
  PROVE  FirstOf(ifaddrs, IfName, n) <=> n \in FirstOwn(ifaddrs)
  <1>1. Len(ifaddrs) \in Nat \ {0} /\ DOMAIN ifaddrs = 1 .. Len(ifaddrs)
    BY ExaminedListed
  <1>2. \A m : m \in Own(ifaddrs) <=> m \in 1 .. Len(ifaddrs) /\ Matches(ifaddrs[m], IfName)
    BY <1>1 DEF Own, Matches
  <1>3. \A m \in 1 .. Len(ifaddrs) : n <= m <=> ~(m \in 1 .. (n - 1))
    BY <1>1
  <1>4. \A m \in 1 .. (n - 1) : m \in 1 .. Len(ifaddrs)
    BY <1>1
  <1>5. QED
    BY <1>2, <1>3, <1>4 DEF FirstOf, FirstOwn

\* An address that a machine lists and offset_addr computes is the first of
\* the interface, moved by the offset: neither NULL nor a crash.
LEMMA OffsetAddrOwn ==
  ASSUME NEW ifaddrs \in Seq(Interface) \ {<<>>}, NEW others \in Seq(Interface),
         Offers(others, offset_addr(ifaddrs, IfName, Offset))
  PROVE  \E n \in FirstOwn(ifaddrs) : offset_addr(ifaddrs, IfName, Offset) = Ahead(ifaddrs, n)
  <1> DEFINE Found(n) == FirstOf(ifaddrs, IfName, n)
             Safe(n)  == Dereferenced(ifaddrs, IfName, n)
             first    == CHOOSE n \in Examined(ifaddrs) : Found(n)
  <1>1. offset_addr(ifaddrs, IfName, Offset) \in 0 .. (AddrSpace - 1)
    <2>1. PICK n \in DOMAIN others : others[n].addr = offset_addr(ifaddrs, IfName, Offset)
      BY DEF Offers
    <2>2. others[n] \in Interface
      BY ElementOfSeq, LenProperties
    <2>3. QED
      BY <2>1, <2>2 DEF Interface
  <1>2. offset_addr(ifaddrs, IfName, Offset) # NoAddr /\ offset_addr(ifaddrs, IfName, Offset) # Crash
    BY <1>1, SessionAssumption
  <1>3. \E n \in Examined(ifaddrs) : Found(n) /\ Safe(n)
    BY <1>2 DEF offset_addr
  <1>4. first \in Examined(ifaddrs) /\ Found(first)
    BY <1>3
  <1>5. offset_addr(ifaddrs, IfName, Offset) = Ahead(ifaddrs, first)
    BY <1>3 DEF offset_addr, Ahead
  <1>6. first \in FirstOwn(ifaddrs)
    BY <1>4, ExaminedListed, FirstOfOwn
  <1>7. QED
    BY <1>5, <1>6

\* In a plain list the loop finds it.
LEMMA OffsetAddrPlain ==
  ASSUME NEW ifaddrs \in Seq(Interface) \ {<<>>}, Plain(ifaddrs), NEW n \in FirstOwn(ifaddrs)
  PROVE  offset_addr(ifaddrs, IfName, Offset) = Ahead(ifaddrs, n)
  <1>1. /\ Len(ifaddrs) \in Nat \ {0} /\ DOMAIN ifaddrs = 1 .. Len(ifaddrs)
        /\ n \in 1 .. Len(ifaddrs)
    BY ExaminedListed DEF FirstOwn, Own
  <1>2. n \in Examined(ifaddrs)
    <2>1. PICK m \in Own(ifaddrs) : m < Len(ifaddrs)
      BY DEF Plain
    <2>2. n <= m /\ m \in 1 .. Len(ifaddrs)
      BY <1>1, <2>1 DEF FirstOwn, Own
    <2>3. n \in 1 .. (Len(ifaddrs) - 1)
      BY <1>1, <2>1, <2>2
    <2>4. QED
      BY <2>3 DEF Examined
  <1>3. FirstOf(ifaddrs, IfName, n)
    BY <1>1, FirstOfOwn
  <1>4. Dereferenced(ifaddrs, IfName, n)
    BY <1>1 DEF Dereferenced, Plain
  <1>5. \A k \in Examined(ifaddrs) : FirstOf(ifaddrs, IfName, k) => k = n
    <2> SUFFICES ASSUME NEW k \in Examined(ifaddrs), FirstOf(ifaddrs, IfName, k) PROVE k = n
      OBVIOUS
    <2>1. k \in 1 .. Len(ifaddrs)
      BY ExaminedListed
    <2>2. k \in FirstOwn(ifaddrs)
      BY <2>1, FirstOfOwn
    <2>3. k <= n /\ n <= k
      BY <2>2 DEF FirstOwn
    <2>4. QED
      BY <1>1, <2>1, <2>3
  <1> DEFINE first == CHOOSE k \in Examined(ifaddrs) : FirstOf(ifaddrs, IfName, k)
  <1>6. first = n
    BY <1>2, <1>3, <1>5
  <1>7. QED
    BY <1>2, <1>3, <1>4, <1>6 DEF offset_addr, Ahead

\* A DPU with nothing but another interface ends before it listens.
LEMMA AloneCrashes ==
  ASSUME NEW ifaddrs \in Seq(Interface) \ {<<>>}, Alone(ifaddrs)
  PROVE  find_addr(ifaddrs, IfName, -1) = Crash
  <1>1. \A n \in Examined(ifaddrs) : ~FirstOf(ifaddrs, IfName, n)
    <2>1. \A n \in Examined(ifaddrs) : n \in 1 .. Len(ifaddrs)
      BY ExaminedListed
    <2>2. QED
      BY <2>1, FirstOfOwn DEF Alone, FirstOwn
  <1>2. Len(ifaddrs) = 1
    BY DEF Alone
  <1>3. QED
    BY <1>1, <1>2 DEF find_addr, offset_addr

\* Where the addresses are dealt by rank, a host and the DPU it has asked have
\* the same one.
LEMMA PairsByRank ==
  ASSUME AddressesDealt, SessionInv, TargetsOK
  PROVE  /\ \A r \in Rank : target[r] # Nobody => target[r] = r
         /\ \A d \in Rank : client[d] # Nobody => client[d] = d
  <1>1. ASSUME NEW r \in Rank, target[r] # Nobody PROVE target[r] = r
    <2>1. target[r] \in Rank /\ setup \in Setups
      BY <1>1 DEF SessionInv, TypeOK
    <2>2. Offers(setup.dpu[target[r]], offset_addr(setup.host[r], IfName, Offset))
      BY <1>1 DEF TargetsOK, Has, DpuAddr
    <2>3. setup.host[r] \in Seq(Interface) \ {<<>>} /\ setup.dpu[target[r]] \in Seq(Interface)
      BY <2>1, SessionAssumption
    <2>4. PICK n \in FirstOwn(setup.host[r]) :
                offset_addr(setup.host[r], IfName, Offset) = Ahead(setup.host[r], n)
      BY <2>2, <2>3, OffsetAddrOwn
    <2>5. QED
      BY <2>1, <2>2, <2>4 DEF AddressesDealt
  <1>2. ASSUME NEW d \in Rank, client[d] # Nobody PROVE client[d] = d
    <2>1. client[d] \in Rank /\ target[client[d]] = d
      BY <1>2 DEF SessionInv, TypeOK, PartnersOK
    <2>2. d # Nobody
      BY SessionAssumption DEF Rank, Nobody
    <2>3. QED
      BY <1>1, <2>1, <2>2
  <1>3. QED
    BY <1>1, <1>2

\* Whatever fails: where the addresses are dealt by rank, the blocks a host
\* finds in its buffer are those of the hosts in the order of the ranks, all
\* of the operation it asked for last.
THEOREM SessionResultsInRankOrder ==
  ASSUME AddressesDealt
  PROVE  Spec => []ResultsInRankOrder
  <1>1. SessionInv /\ ResultsOK /\ TargetsOK => ResultsInRankOrder
    <2> SUFFICES ASSUME SessionInv, ResultsOK, TargetsOK, NEW r \in Rank, result[r] # <<>>
                 PROVE  /\ result[r] = [q \in Rank |-> <<q, asked[r]>>]
                        /\ client[target[r]] = r
      BY DEF ResultsInRankOrder
    <2>1. /\ result[r] = [q \in Rank |-> <<client[q], asked[r]>>]
          /\ \A q \in Rank : client[q] # Nobody
          /\ client[target[r]] = r
      BY DEF ResultsOK
    <2>2. \A q \in Rank : client[q] = q
      BY <2>1, PairsByRank
    <2>3. QED
      BY <2>1, <2>2
  <1>2. QED
    BY <1>1, SessionAlways, TargetsAlways, PTL

-----------------------------------------------------------------------------
(* Whom a host asks.                                                       *)

\* A run in which the hosts are started when the DPUs listen, each host has a
\* plain list of interfaces and no call fails.
Smooth == mode.orderly /\ ~mode.faults /\ \A r \in Rank : Plain(setup.host[r])

\* No host gives up and no connection breaks before its host said goodbye: a
\* DPU is there for its host from before the hosts start until then.
UnbrokenOK ==
  /\ \A r \in Rank : pc["host"][r] # "gone"
  /\ \A r \in Rank : link[r] = "down" => r \in bye
  /\ \A r \in Rank : r \in bye <=> pc["host"][r] \in {"finalizing", "ok"}
  /\ \A d \in Rank : pc["dpu"][d] \in Listening => find_addr(setup.dpu[d], IfName, -1) # Crash
  /\ \A r, d \in Rank : pc["host"][r] # "start" =>
       \/ pc["dpu"][d] \in Listening
       \/ d \in bye /\ pc["dpu"][d] \in {"finalizing", "ok", "bad"}

UnbrokenInv == Smooth => UnbrokenOK

\* A connection is that of a host and the DPU of its rank.  Once a host has
\* started, every DPU is there until its own host has said goodbye.
LEMMA ThereForHosts ==
  ASSUME AddressesDealt, SessionInv, TargetsOK, UnbrokenOK
  PROVE  /\ \A r \in Rank : link[r] # "none" => target[r] = r /\ pc["host"][r] \notin Early
         /\ \A r, d \in Rank : pc["host"][r] # "start" => pc["dpu"][d] \notin Early \cup {"gone"}
         /\ \A r, d \in Rank : pc["host"][r] # "start" /\ d \notin bye => pc["dpu"][d] \in Listening
         /\ \A d \in Rank : pc["dpu"][d] \in {"accepted", "serving"} =>
              client[d] = d /\ link[d] # "none"
  <1>1. \A r \in Rank : link[r] # "none" => target[r] = r /\ pc["host"][r] \notin Early
    BY PairsByRank DEF SessionInv, PartnersOK
  <1>2. \A r, d \in Rank : pc["host"][r] # "start" => pc["dpu"][d] \notin Early \cup {"gone"}
    BY DEF UnbrokenOK, Listening, Early
  <1>3. \A d \in Rank : pc["dpu"][d] \in {"accepted", "serving"} => client[d] = d /\ link[d] # "none"
    <2> SUFFICES ASSUME NEW d \in Rank, pc["dpu"][d] \in {"accepted", "serving"}
                 PROVE  client[d] = d /\ link[d] # "none"
      OBVIOUS
    <2>1. client[d] # Nobody /\ d # Nobody
      BY SessionAssumption DEF SessionInv, PartnersOK, Rank, Nobody
    <2>2. client[d] = d
      BY <2>1, PairsByRank
    <2>3. QED
      BY <2>1, <2>2 DEF SessionInv, PartnersOK
  <1>4. QED
    BY <1>1, <1>2, <1>3 DEF UnbrokenOK

\* A step of DPU d, described by where it goes and what happens to the
\* connections.
LEMMA DpuStepUnbroken ==
  ASSUME AddressesDealt, SessionInv, TargetsOK, UnbrokenOK,
         NEW d \in Rank, NEW to \in DpuState, Moves("dpu", d, to),
         UNCHANGED <<setup, bye>>,
         to \in Listening => \/ pc["dpu"][d] \in Listening
                             \/ find_addr(setup.dpu[d], IfName, -1) # Crash,
         to \notin Listening => \/ pc["dpu"][d] \in Early
                                \/ d \in bye /\ to \in {"finalizing", "ok", "bad"}
                                \/ to = "gone" /\ \E q \in Rank : pc["dpu"][q] = "gone",
         \A r \in Rank : link'[r] = "down" => link[r] = "down" \/ r \in bye
  PROVE  UnbrokenOK'
  <1>1. /\ pc'["dpu"][d] = to /\ \A q \in Rank \ {d} : pc'["dpu"][q] = pc["dpu"][q]
        /\ \A r \in Rank : pc'["host"][r] = pc["host"][r]
    BY DEF Moves, Group
  <1>2. \A q \in Rank : pc'["dpu"][q] \in Listening => find_addr(setup.dpu[q], IfName, -1) # Crash
    BY <1>1 DEF UnbrokenOK
  <1>3. ASSUME NEW r \in Rank, NEW q \in Rank, pc["host"][r] # "start"
        PROVE  \/ pc'["dpu"][q] \in Listening
               \/ q \in bye /\ pc'["dpu"][q] \in {"finalizing", "ok", "bad"}
    <2>1. \A p \in Rank : pc["dpu"][p] \notin Early \cup {"gone"}
      BY <1>3, ThereForHosts
    <2>2. QED
      BY <1>1, <1>3, <2>1 DEF UnbrokenOK
  <1>4. QED
    BY <1>1, <1>2, <1>3 DEF UnbrokenOK

LEMMA DpuUnbroken ==
  ASSUME AddressesDealt, SessionInv, TargetsOK, UnbrokenOK, Smooth,
         NEW d \in Rank, Dpu(d) \/ AcceptFails(d) \/ MpirunKills("dpu", d)
  PROVE  UnbrokenOK'
  <1>1. ~mode.faults
    BY DEF Smooth
  <1>2. ASSUME NEW to \in DpuState, pc' = [pc EXCEPT !["dpu"][d] = to]
        PROVE  Moves("dpu", d, to)
    BY <1>2, ExceptMoves DEF SessionInv, Group
  <1>3. CASE MpiInit("dpu", d) \/ MpiUp("dpu", d) \/ Tested("dpu", d) \/ Listen(d)
    <2>1. PICK to \in Early \cup {"listening", "gone"} :
            /\ pc["dpu"][d] \in Early /\ pc' = [pc EXCEPT !["dpu"][d] = to]
            /\ to = "listening" => find_addr(setup.dpu[d], IfName, -1) # Crash
      BY <1>1, <1>3 DEF MpiInit, MpiUp, Tested, Listen, Goes, Fails, Early
    <2>2. UNCHANGED <<setup, bye, link>>
      BY <1>3 DEF MpiInit, MpiUp, Tested, Listen, work
    <2>3. to \in DpuState
      BY DEF DpuState, Listening
    <2>4. QED
      BY <1>2, <2>1, <2>2, <2>3, DpuStepUnbroken DEF Listening, Early
  <1>4. CASE MpiFinalize("dpu", d)
    <2>1. PICK to \in {"ok", "bad"} : pc' = [pc EXCEPT !["dpu"][d] = to]
      BY <1>4 DEF MpiFinalize, Goes
    <2>2. pc["dpu"][d] = "finalizing" /\ link' = Down("dpu", d) /\ UNCHANGED <<setup, bye>>
      BY <1>4 DEF MpiFinalize, Goes, work
    <2>3. to \in DpuState
      BY DEF DpuState
    <2>4. \A r \in Rank : link'[r] = "down" => link[r] = "down" \/ r \in bye
      <3> SUFFICES ASSUME NEW r \in Rank, link'[r] = "down", link[r] # "down"
                   PROVE  r \in bye
        OBVIOUS
      <3>1. link[r] # "none" /\ target[r] = d
        BY <2>2 DEF Down, SessionInv, TypeOK
      <3>2. d = r /\ pc["host"][r] # "start"
        BY <3>1, ThereForHosts DEF Early
      <3>3. QED
        BY <2>2, <3>2 DEF UnbrokenOK, Listening
    <2>5. QED
      <3>1. Moves("dpu", d, to)
        BY <1>2, <2>1, <2>3
      <3>2. CASE d \in bye
        BY <2>1, <2>2, <2>3, <2>4, <3>1, <3>2, DpuStepUnbroken DEF Listening
      <3>3. CASE d \notin bye
        <4>1. \A r \in Rank : pc["host"][r] = "start"
          BY <2>2, <3>3 DEF UnbrokenOK, Listening
        <4>2. QED
          BY <2>1, <2>2, <2>4, <3>1, <4>1 DEF UnbrokenOK, Moves, Group, Listening
      <3>4. QED
        BY <3>2, <3>3
  <1>5. CASE MpirunKills("dpu", d)
    <2>1. /\ pc' = [pc EXCEPT !["dpu"][d] = "gone"] /\ link' = Down("dpu", d)
          /\ \E q \in Rank : pc["dpu"][q] = "gone"
          /\ UNCHANGED <<setup, bye>>
      BY <1>5 DEF MpirunKills, work
    <2>2. \A r \in Rank : link[r] = "none"
      BY <2>1, ThereForHosts DEF Early
    <2>3. \A r \in Rank : link'[r] = "none"
      BY <2>1, <2>2 DEF Down
    <2>4. "gone" \in DpuState
      BY DEF DpuState
    <2>5. QED
      BY <1>2, <2>1, <2>3, <2>4, DpuStepUnbroken DEF Listening
  <1>6. CASE Accept(d) \/ Register(d)
    <2>1. PICK to \in {"accepted", "serving"} :
            pc' = [pc EXCEPT !["dpu"][d] = to] /\ pc["dpu"][d] \in Listening
      BY <1>1, <1>6 DEF Accept, Register, Goes, Fails, Listening
    <2>2. UNCHANGED <<setup, bye>>
      BY <1>6 DEF Accept, Register, work
    <2>3. \A r \in Rank : link'[r] = "down" => link[r] = "down"
      BY <1>1, <1>6 DEF Accept, Register, Goes, Fails, SessionInv, TypeOK
    <2>4. to \in DpuState
      BY DEF DpuState, Listening
    <2>5. QED
      BY <1>2, <2>1, <2>2, <2>3, <2>4, DpuStepUnbroken DEF Listening
  <1>7. CASE Collect(d) \/ Answer(d)
    BY <1>7 DEF Collect, Answer, UnbrokenOK
  <1>8. CASE Stop(d)
    <2>1. /\ pc["dpu"][d] = "serving" /\ pc' = [pc EXCEPT !["dpu"][d] = "finalizing"]
          /\ Goodbye(d) \/ (link[client[d]] = "down" /\ client[d] \notin bye)
          /\ link' = [link EXCEPT ![client[d]] = "down"]
          /\ UNCHANGED <<setup, bye>>
      BY <1>1, <1>8 DEF Stop, Goes, work
    <2>2. client[d] = d
      BY <2>1, ThereForHosts
    <2>3. d \in bye
      BY <2>1, <2>2 DEF Goodbye, UnbrokenOK
    <2>4. \A r \in Rank : link'[r] = "down" => link[r] = "down" \/ r \in bye
      BY <2>1, <2>2, <2>3 DEF SessionInv, TypeOK
    <2>5. "finalizing" \in DpuState
      BY DEF DpuState
    <2>6. QED
      BY <1>2, <2>1, <2>3, <2>4, <2>5, DpuStepUnbroken DEF Listening
  <1>9. ~AcceptFails(d)
    BY <1>1 DEF AcceptFails, Fails
  <1>10. QED
    BY <1>3, <1>4, <1>5, <1>6, <1>7, <1>8, <1>9 DEF Dpu, Mpi

\* A step of host r.
LEMMA HostStepUnbroken ==
  ASSUME SessionInv, UnbrokenOK,
         NEW r \in Rank, NEW to \in HostState \ {"gone"}, Moves("host", r, to),
         setup' = setup,
         to # "start",
         pc["host"][r] = "start" => \A d \in Rank : pc["dpu"][d] \in Listening,
         \/ bye' = bye /\ (to \in {"finalizing", "ok"} <=> r \in bye)
         \/ bye' = bye \cup {r} /\ to \in {"finalizing", "ok"},
         \A q \in Rank : link'[q] = "down" => link[q] = "down" \/ q \in bye'
  PROVE  UnbrokenOK'
  <1>1. /\ pc'["host"][r] = to /\ \A q \in Rank \ {r} : pc'["host"][q] = pc["host"][q]
        /\ \A d \in Rank : pc'["dpu"][d] = pc["dpu"][d]
    BY DEF Moves, Group
  <1>2. bye \subseteq bye' /\ (r \in bye' <=> to \in {"finalizing", "ok"})
        /\ \A q \in Rank \ {r} : q \in bye' <=> q \in bye
    OBVIOUS
  <1>3. \A q \in Rank : link'[q] = "down" => q \in bye'
    BY <1>2 DEF UnbrokenOK
  <1>4. \A q \in Rank : /\ pc'["host"][q] # "gone"
                        /\ q \in bye' <=> pc'["host"][q] \in {"finalizing", "ok"}
    BY <1>1, <1>2 DEF UnbrokenOK
  <1>5. \A d \in Rank : \/ pc["dpu"][d] \in Listening
                        \/ d \in bye' /\ pc["dpu"][d] \in {"finalizing", "ok", "bad"}
    BY <1>2 DEF UnbrokenOK
  <1>6. QED
    BY <1>1, <1>3, <1>4, <1>5 DEF UnbrokenOK

LEMMA HostUnbroken ==
  ASSUME AddressesDealt, AddressesListed, SessionInv, TargetsOK, UnbrokenOK, Smooth,
         NEW r \in Rank, Host(r) \/ WaitFails(r) \/ MpirunKills("host", r)
  PROVE  UnbrokenOK'
  <1>1. ~mode.faults /\ mode.orderly /\ Plain(setup.host[r])
    BY DEF Smooth
  <1>2. ASSUME NEW to \in HostState, pc' = [pc EXCEPT !["host"][r] = to]
        PROVE  Moves("host", r, to)
    BY <1>2, ExceptMoves DEF SessionInv, Group
  <1>3. link[r] = "down" => pc["host"][r] \in {"finalizing", "ok"}
    BY DEF UnbrokenOK
  <1>4. CASE MpiInit("host", r) \/ MpiUp("host", r) \/ Tested("host", r)
    <2>1. PICK to \in {"init", "up", "checked"} : pc' = [pc EXCEPT !["host"][r] = to]
      BY <1>1, <1>4 DEF MpiInit, MpiUp, Tested, Goes, Fails
    <2>2. pc["host"][r] \in Early /\ UNCHANGED <<setup, bye, link>>
      BY <1>1, <1>4 DEF MpiInit, MpiUp, Tested, Goes, Fails, work, Early
    <2>3. pc["host"][r] = "start" => \A d \in Rank : pc["dpu"][d] \in Listening
      BY <1>1, <1>4 DEF MpiInit, MpiUp, Tested, Goes, Fails, Launched
    <2>4. to \in HostState
      BY DEF HostState, Early
    <2>5. r \notin bye
      BY <2>2 DEF UnbrokenOK, Early
    <2>6. QED
      BY <1>2, <2>1, <2>2, <2>3, <2>4, <2>5, HostStepUnbroken
  <1>5. CASE MpiFinalize("host", r)
    <2>1. /\ pc["host"][r] = "finalizing" /\ pc' = [pc EXCEPT !["host"][r] = "ok"]
          /\ link' = Down("host", r) /\ UNCHANGED <<setup, bye>>
      BY <1>5 DEF MpiFinalize, Goes, work
    <2>2. r \in bye
      BY <2>1 DEF UnbrokenOK
    <2>3. \A q \in Rank : link'[q] = "down" => link[q] = "down" \/ q = r
      BY <2>1 DEF Down
    <2>4. "ok" \in HostState
      BY DEF HostState
    <2>5. QED
      BY <1>2, <2>1, <2>2, <2>3, <2>4, HostStepUnbroken
  <1>6. CASE Connect(r)
    <2>1. pc["host"][r] = "checked" /\ UNCHANGED <<setup, bye>>
      BY <1>6 DEF Connect, Goes, Fails, work
    <2>2. r \notin bye
      BY <2>1 DEF UnbrokenOK
    <2>3. pc["dpu"][r] \in Listening
      BY <2>1, <2>2, ThereForHosts
    <2>4. Has(r, DpuAddr(r))
      <3>1. find_addr(setup.dpu[r], IfName, -1) # Crash
        BY <2>3 DEF UnbrokenOK
      <3>2. setup \in Setups
        BY DEF SessionInv, TypeOK
      <3>3. /\ setup.host[r] \in Seq(Interface) \ {<<>>}
            /\ setup.dpu[r] \in Seq(Interface) \ {<<>>}
        BY <3>2, SessionAssumption
      <3>4. ~Alone(setup.dpu[r])
        BY <3>1, <3>3, AloneCrashes
      <3>5. PICK n \in FirstOwn(setup.host[r]) : Offers(setup.dpu[r], Ahead(setup.host[r], n))
        BY <1>1, <3>2, <3>4 DEF AddressesListed
      <3>6. QED
        BY <1>1, <3>3, <3>5, OffsetAddrPlain DEF Has, DpuAddr
    <2>5. \E d \in Rank : link' = [link EXCEPT ![r] = "asked"]
                          /\ pc' = [pc EXCEPT !["host"][r] = "connecting"]
      BY <1>1, <1>6, <2>3, <2>4 DEF Connect, Goes, Fails
    <2>6. \A q \in Rank : link'[q] = "down" => link[q] = "down"
      BY <2>5 DEF SessionInv, TypeOK
    <2>7. "connecting" \in HostState
      BY DEF HostState
    <2>8. QED
      BY <1>2, <2>1, <2>2, <2>5, <2>6, <2>7, HostStepUnbroken
  <1>7. CASE Connected(r) \/ Ialltoall(r) \/ Wait(r)
    <2>1. pc["host"][r] \in {"connecting", "open", "waiting"} /\ UNCHANGED <<setup, bye>>
      BY <1>7 DEF Connected, Ialltoall, Wait, Goes, Fails, work
    <2>2. link[r] # "down" /\ r \notin bye
      BY <1>3, <2>1 DEF UnbrokenOK
    <2>3. PICK to \in {"open", "waiting"} :
            pc' = [pc EXCEPT !["host"][r] = to] /\ UNCHANGED link
      BY <1>1, <1>7, <2>2 DEF Connected, Ialltoall, Wait, Goes, Fails
    <2>4. to \in HostState
      BY DEF HostState
    <2>5. QED
      BY <1>2, <2>1, <2>2, <2>3, <2>4, HostStepUnbroken
  <1>8. CASE Exit(r)
    <2>1. pc["host"][r] = "open" /\ pc' = [pc EXCEPT !["host"][r] = "finalizing"] /\ setup' = setup
      BY <1>8 DEF Exit, Goes
    <2>2. bye' = bye \cup {r} /\ link' = Down("host", r)
      BY <1>1, <1>3, <1>8, <2>1 DEF Exit
    <2>3. \A q \in Rank : link'[q] = "down" => link[q] = "down" \/ q = r
      BY <2>2 DEF Down
    <2>4. "finalizing" \in HostState
      BY DEF HostState
    <2>5. QED
      BY <1>2, <2>1, <2>2, <2>3, <2>4, HostStepUnbroken
  <1>9. ~MpirunKills("host", r)
    BY DEF MpirunKills, UnbrokenOK
  <1>10. ~WaitFails(r)
    BY <1>1, <1>3 DEF WaitFails, Goes
  <1>11. QED
    BY <1>4, <1>5, <1>6, <1>7, <1>8, <1>9, <1>10 DEF Host, Mpi

LEMMA UnbrokenNext ==
  ASSUME AddressesDealt, AddressesListed
  PROVE  SessionInv /\ TargetsOK /\ UnbrokenInv /\ [Next]_vars => UnbrokenInv'
  <1> SUFFICES ASSUME SessionInv, TargetsOK, UnbrokenInv, [Next]_vars, Smooth'
               PROVE  UnbrokenOK'
    BY DEF UnbrokenInv
  <1>1. Smooth /\ UnbrokenOK
    BY PartnersStay DEF Smooth, UnbrokenInv
  <1>2. CASE UNCHANGED vars
    BY <1>1, <1>2 DEF vars, work, UnbrokenOK
  <1>3. CASE Next
    BY <1>1, <1>3, DpuUnbroken, HostUnbroken DEF Next, Group
  <1>4. QED
    BY <1>2, <1>3

\* Where the addresses are dealt by rank, a host asks the DPU of its rank and no
\* other, whatever fails.  When the DPUs are started first, nothing fails and
\* each host has a plain list, no host gives up, whatever the number of hosts
\* and of operations.
THEOREM SessionRightPartner ==
  ASSUME AddressesDealt, AddressesListed
  PROVE  Spec => []RightPartner
  <1>1. SessionInv /\ TargetsOK /\ UnbrokenInv => RightPartner
    <2> SUFFICES ASSUME SessionInv, TargetsOK, UnbrokenInv, NEW r \in Rank
                 PROVE  /\ target[r] # Nobody => target[r] = r
                        /\ Plain(setup.host[r]) /\ mode.orderly /\ ~mode.faults
                             /\ pc["host"][r] = "gone" =>
                             \E q \in Rank : ~Plain(setup.host[q])
      BY DEF RightPartner
    <2>1. target[r] # Nobody => target[r] = r
      BY PairsByRank
    <2>2. ASSUME mode.orderly, ~mode.faults, pc["host"][r] = "gone"
          PROVE  \E q \in Rank : ~Plain(setup.host[q])
      BY <2>2 DEF UnbrokenInv, UnbrokenOK, Smooth
    <2>3. QED
      BY <2>1, <2>2
  <1>2. Init => UnbrokenInv
    BY DEF Init, UnbrokenInv, UnbrokenOK, Group, Listening
  <1>3. Spec => []UnbrokenInv
    BY <1>2, UnbrokenNext, SessionAlways, TargetsAlways, PTL DEF Spec
  <1>4. QED
    BY <1>1, <1>3, SessionAlways, TargetsAlways, PTL

=============================================================================
