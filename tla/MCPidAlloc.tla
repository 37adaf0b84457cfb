----------------------------- MODULE MCPidAlloc ------------------------------
EXTENDS PidAlloc, TLC

PcbSymmetry == Permutations(Pcbs)
=============================================================================
