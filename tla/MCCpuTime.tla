------------------------------ MODULE MCCpuTime ------------------------------
(* CpuTime for TLC. *)
EXTENDS CpuTime, TLC

Symmetry == Permutations(Procs)
=============================================================================
