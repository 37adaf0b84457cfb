------------------------------- MODULE BinSem --------------------------------
(***************************************************************************)
(* The binary semaphores of NSYS3 and NSYS4 as the processes above the     *)
(* nucleus see them.  P blocks on 0 and V blocks on 1; otherwise each of   *)
(* them wakes the first blocked process and leaves the value alone, or     *)
(* changes the value when nobody is blocked.  A process that was blocked   *)
(* resumes after its call: it does not repeat it.  The variables are       *)
(* functions on the semaphores of the module that extends this one.        *)
(***************************************************************************)
EXTENDS Integers, ProcQ

VARIABLES
  val,     \* value of each semaphore
  semq     \* queue of the processes blocked on it

Blocked(p) == \E s \in DOMAIN semq : p \in ToSet(semq[s])

SemCall(s, p, full, change) ==
  \/ /\ val[s] = full
     /\ semq' = [semq EXCEPT ![s] = Append(@, p)]
     /\ UNCHANGED val
  \/ /\ val[s] # full /\ semq[s] # <<>>
     /\ semq' = [semq EXCEPT ![s] = Tail(@)]
     /\ UNCHANGED val
  \/ /\ val[s] # full /\ semq[s] = <<>>
     /\ val' = [val EXCEPT ![s] = @ + change]
     /\ UNCHANGED semq

passeren(s, p) == SemCall(s, p, 0, -1)
verhogen_M(s, p) == SemCall(s, p, 2, 1)
verhogen(s, p) == SemCall(s, p, 1, 1)
=============================================================================
