-------------------------------- MODULE ProcQ -------------------------------
(***************************************************************************)
(* A process queue of phase1/pcb.c as the sequence of its PCBs.  A PCB has *)
(* one p_list, so it is in one queue at most and there only once.          *)
(* insertProcQ is Append, removeProcQ is Head and Tail.                    *)
(***************************************************************************)
EXTENDS Integers, SequencesExt

\* No PCB is linked twice.
Distinct(q) == \A i, j \in DOMAIN q : q[i] = q[j] => i = j

\* outProcQ, on the sequence: p is unlinked where it is first found, if it is found.
Without(q, p) ==
  IF p \in ToSet(q) THEN RemoveAt(q, CHOOSE i \in DOMAIN q : q[i] = p) ELSE q
=============================================================================
