----------------------------- MODULE MCOffload -----------------------------
(* Instances of Offload for model checking. *)
EXTENDS Offload

=============================================================================
