---------------------------- MODULE MCDpuServer ----------------------------
(* DpuServer on small instances.  Regions are interchangeable addresses.   *)
EXTENDS DpuServer, TLC

RegionSymmetry == Permutations(Mr)

=============================================================================
