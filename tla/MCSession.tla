----------------------------- MODULE MCSession -----------------------------
(* Session with two hosts and two DPUs: what getifaddrs may list.             *)
EXTENDS Session, TLC

If(name, family, addr) == [name |-> name, family |-> family, addr |-> addr]
At(r) == 60 + r
Other(r) == 61 - r

\* The usual list, by family; an interface with a second address; one that is
\* alone; the last one; one without an address.
Usual(r) ==
    { <<If("lo", "PACKET", 0), If(IfName, "PACKET", Other(r)), If("lo", "INET", 1),
        If(IfName, "INET", At(r)), If(IfName, "INET6", Other(r))>>,
      <<If(IfName, "INET", At(r)), If(IfName, "INET", Other(r)), If("lo", "INET", 1)>> }
Lists(r) ==
    Usual(r) \cup
    { <<If(IfName, "INET", At(r))>>,
      <<If("lo", "INET", 1), If(IfName, "INET", At(r))>>,
      <<If(IfName, "NONE", 0), If(IfName, "INET", At(r)), If("lo", "INET", 1)>> }

DpuList(r) == <<If("lo", "INET", 1), If(IfName, "INET", (At(r) + Offset) % AddrSpace),
             If("lo", "INET6", 1)>>
Lonely == <<If("lo", "INET", 1)>>

AllSetups ==
    [host : {h \in [Rank -> Lists(0) \cup Lists(1)] : h[0] \in Lists(0) /\ h[1] \in Usual(1)},
     dpu : {d \in [Rank -> UNION {{DpuList(r), Lonely} : r \in Rank}] :
              d[0] = DpuList(0) /\ d[1] \in {DpuList(1), Lonely}}]
AllModes == [faults : BOOLEAN, orderly : BOOLEAN]

\* What the theorems of SessionProofs suppose of the addresses holds here.
ASSUME InstanceAssumption == AddressesDealt /\ AddressesListed
=============================================================================
