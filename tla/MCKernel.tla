------------------------------ MODULE MCKernel ------------------------------
EXTENDS KernelProps, TLC

\* A process of low priority that time slicing reaches, and one of high
\* priority that runs with interrupts masked and has a support structure.
LowAttr     == [p_prio |-> PROCESS_PRIO_LOW,  im |-> TRUE,  support |-> FALSE]
HighAttr    == [p_prio |-> PROCESS_PRIO_HIGH, im |-> FALSE, support |-> TRUE]
\* A high priority process whose status word lets interrupts in.
HighOpen    == [p_prio |-> PROCESS_PRIO_HIGH, im |-> TRUE,  support |-> FALSE]

LowAndHigh == {LowAttr, HighAttr}
LowOnly    == {LowAttr}
LowAndOpen == {LowAttr, HighOpen}

PcbSymmetry == Permutations(Pcbs)
=============================================================================
