-------------------------- MODULE AlltoallService --------------------------
(***************************************************************************)
(* What dpu_mpi promises to the applications on the hosts.  Operation o of *)
(* a host is its o-th call of DPU_MPI_Ialltoall().  It may be reported     *)
(* complete once every host has made its o-th call, and its receive buffer *)
(* then holds the block each host sent with its own o-th call.             *)
(*                                                                         *)
(* Neither DPUs, messages nor MPI appear here.                             *)
(***************************************************************************)
EXTENDS Integers

CONSTANTS
  Rank,   \* hosts
  MaxOp   \* bound: operations of a host

Op == 1 .. MaxOp

VARIABLES
  called,    \* calls of DPU_MPI_Ialltoall() each host has made
  tested,    \* operations reported complete to it
  received,  \* per operation: the operations whose blocks are in its buffer
  broken     \* a part has failed, or a host has left its operations open

vars == <<called, tested, received, broken>>

Init ==
  /\ called   = [r \in Rank |-> 0]
  /\ tested   = [r \in Rank |-> {}]
  /\ received = [r \in Rank |-> [o \in Op |-> [q \in Rank |-> 0]]]
  /\ broken = FALSE

Call(r) ==
  /\ called[r] < MaxOp
  /\ called' = [called EXCEPT ![r] = @ + 1]
  /\ UNCHANGED <<tested, received, broken>>

\* The result is in the buffer; the host is not told yet.
Receive(r, o) ==
  /\ \A q \in Rank : o <= called[q]
  /\ o \notin tested[r]
  /\ received' = [received EXCEPT ![r][o] = [q \in Rank |-> o]]
  /\ UNCHANGED <<called, tested, broken>>

Complete(r, o) ==
  /\ received[r][o] = [q \in Rank |-> o]
  /\ o \notin tested[r]
  /\ tested' = [tested EXCEPT ![r] = @ \cup {o}]
  /\ UNCHANGED <<called, received, broken>>

Break ==
  /\ broken' = TRUE
  /\ UNCHANGED <<called, tested, received>>

Next ==
  \/ \E r \in Rank : Call(r)
  \/ \E r \in Rank, o \in Op : Receive(r, o) \/ Complete(r, o)
  \/ Break

Spec == Init /\ [][Next]_vars

\* While nothing is broken, an operation that every host has called has its
\* result delivered at every host.
Served ==
  \A r \in Rank, o \in Op :
    (\A q \in Rank : called[q] >= o) ~> (received[r][o] # [q \in Rank |-> 0] \/ broken)

=============================================================================
