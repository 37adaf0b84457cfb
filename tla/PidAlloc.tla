------------------------------ MODULE PidAlloc -------------------------------
(***************************************************************************)
(* Process identifiers: allocPid and createProcess, findPcb and            *)
(* terminateProcess.  Where a process waits matters only for findPcb,      *)
(* which searches the ready queues and the queues of the semaphores, and   *)
(* not the processor: "ready" and "blocked" are the PCBs in those queues.  *)
(* Dispatching is left open, as Kernel says what it may be.                *)
(***************************************************************************)
EXTENDS Integers, FiniteSets

CONSTANTS
  Pcbs,
  PID_MIN, PID_MAX,
  INT_MAX,          \* largest value of a pid_t, a signed int
  MaxLastPid,       \* bound: no NSYS1 once lastpid has reached it
  NULL

VARIABLES
  lastpid,
  p_pid, p_parent,
  free, ready, blocked,
  currentProcess

vars == <<lastpid, p_pid, p_parent, free, ready, blocked, currentProcess>>

Span == PID_MAX - PID_MIN + 1

ASSUME PidAssumption ==
  /\ IsFiniteSet(Pcbs) /\ NULL \notin Pcbs
  /\ {PID_MIN, PID_MAX, INT_MAX, MaxLastPid} \subseteq Nat
  /\ PID_MIN = 2              \* lastpid starts just before it
  /\ PID_MIN < PID_MAX /\ PID_MAX <= INT_MAX
  /\ Cardinality(Pcbs) <= Span

-----------------------------------------------------------------------------

\* Two's complement arithmetic, and the remainder of C.
Wrap(i)   == ((i + INT_MAX + 1) % (2 * (INT_MAX + 1))) - (INT_MAX + 1)
Rem(i, n) == IF i >= 0 THEN i % n ELSE -((-i) % n)

\* The PID that the value of lastpid stands for.
PidOf_M1(last) == PID_MIN + Rem(Wrap(last - PID_MIN), Span - 1)
PidOf_M2(last) == last
PidOf(last) == PID_MIN + Rem(Wrap(last - PID_MIN), Span)

\* The PCBs that findPcb(pid) may return: the order of the queues is not modelled.
findPcb_M(pid) == {p \in ready : p_pid[p] = pid}
findPcb(pid) == {p \in ready \cup blocked : p_pid[p] = pid}

\* allocPid advances lastpid until the PID is not found, Span times at most.
Advances == CHOOSE n \in 1..Span :
              /\ n = Span \/ findPcb(PidOf(Wrap(lastpid + n))) = {}
              /\ \A m \in 1..(n - 1) : findPcb(PidOf(Wrap(lastpid + m))) # {}
AllocPid ==
  LET pid == PidOf(Wrap(lastpid + Advances))
  IN  IF Advances = Span - 1 /\ findPcb(pid) # {} THEN -1 ELSE pid

\* NSYS1: a PCB first, then a PID.  A PCB that gets no PID is not given back.
CreateProcess ==
  /\ currentProcess # NULL
  /\ lastpid < MaxLastPid
  /\ lastpid' = Wrap(lastpid + Advances)
  /\ \/ /\ free = {}
        /\ UNCHANGED <<p_pid, p_parent, free, ready>>
     \/ \E p \in free :
          /\ free' = free \ {p}
          /\ IF AllocPid = -1
             THEN UNCHANGED <<p_pid, p_parent, ready>>
             ELSE /\ p_pid' = [p_pid EXCEPT ![p] = AllocPid]
                  /\ p_parent' = [p_parent EXCEPT ![p] = currentProcess]
                  /\ ready' = ready \cup {p}
  /\ UNCHANGED <<blocked, currentProcess>>

\* What kill(p) frees: p and its descendants.
Progeny_M(p) == {p} \cup {c \in Pcbs : p_parent[c] = p}
Progeny(p) ==
  {q \in Pcbs : \A S \in SUBSET Pcbs :
     p \in S /\ (\A c \in Pcbs : p_parent[c] \in S => c \in S) => q \in S}

\* NSYS2 with 0, or with a PID that findPcb finds.
TerminateProcess ==
  /\ currentProcess # NULL
  /\ \E p \in {currentProcess} \cup UNION {findPcb(pid) : pid \in {p_pid[q] : q \in Pcbs}} :
       LET gone == Progeny(p) IN
       /\ p_parent' = [q \in Pcbs |-> IF q \in gone THEN NULL ELSE p_parent[q]]
       /\ free' = free \cup gone
       /\ ready' = ready \ gone /\ blocked' = blocked \ gone
       /\ currentProcess' = IF currentProcess \in gone THEN NULL ELSE currentProcess
  /\ UNCHANGED <<lastpid, p_pid>>

\* The process yields, is preempted or blocks; a process is dispatched; a
\* process is woken.
Deschedule ==
  /\ currentProcess # NULL
  /\ \/ ready' = ready \cup {currentProcess} /\ UNCHANGED blocked
     \/ blocked' = blocked \cup {currentProcess} /\ UNCHANGED ready
  /\ currentProcess' = NULL
  /\ UNCHANGED <<lastpid, p_pid, p_parent, free>>

Dispatch ==
  /\ currentProcess = NULL
  /\ \E p \in ready : currentProcess' = p /\ ready' = ready \ {p}
  /\ UNCHANGED <<lastpid, p_pid, p_parent, free, blocked>>

Wake ==
  /\ \E p \in blocked : blocked' = blocked \ {p} /\ ready' = ready \cup {p}
  /\ UNCHANGED <<lastpid, p_pid, p_parent, free, currentProcess>>

\* main() gives PID 1 to the first process; the p_pid of the others is 0.
Init ==
  /\ lastpid = 1
  /\ \E p \in Pcbs :
       /\ p_pid = [q \in Pcbs |-> IF q = p THEN 1 ELSE 0]
       /\ free = Pcbs \ {p}
       /\ currentProcess = p
  /\ p_parent = [p \in Pcbs |-> NULL]
  /\ ready = {} /\ blocked = {}

Next == CreateProcess \/ TerminateProcess \/ Deschedule \/ Dispatch \/ Wake

Spec == Init /\ [][Next]_vars

-----------------------------------------------------------------------------

Live == Pcbs \ free

\* The variables keep their types, a live process is in one place, and its
\* parent is live: kill() leaves no orphan behind.
PidTypeOK ==
  /\ lastpid \in -(INT_MAX + 1)..INT_MAX
  /\ p_pid \in [Pcbs -> Int]
  /\ p_parent \in [Pcbs -> Live \cup {NULL}]
  /\ free \subseteq Pcbs
  /\ Live = ready \cup blocked \cup (IF currentProcess = NULL THEN {} ELSE {currentProcess})
  /\ ready \cap blocked = {} /\ currentProcess \notin ready \cup blocked \cup free

\* doc.md:105: a process made by NSYS1 has a PID from PID_MIN to PID_MAX.
\* It does as long as lastpid does not overflow (MaxLastPid <= INT_MAX).
PidInRange == \A p \in Live : p_pid[p] \in {1} \cup PID_MIN..PID_MAX

\* syscalls.c:153, "make sure the pid is unique": until lastpid has gone once
\* through the range, no two live processes have the same PID.
UniqueBeforeWrap == lastpid <= PID_MAX => \A p, q \in Live : p_pid[p] = p_pid[q] => p = q

\* Afterwards, two processes with the same PID are always parent and child:
\* allocPid misses nobody but the caller.
DuplicateIsChild ==
  \A p, q \in Live : p # q /\ p_pid[p] = p_pid[q] => p_parent[p] = q \/ p_parent[q] = p

\* The PID that NSYS1 returns finds the new process and no other one, so its
\* parent can terminate it.
ChildIsFound ==
  [][CreateProcess => \A p \in free \ free' : {q \in ready' \cup blocked' : p_pid'[q] = p_pid'[p]} = {p}]_vars
=============================================================================
