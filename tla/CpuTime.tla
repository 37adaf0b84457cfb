------------------------------- MODULE CpuTime -------------------------------
(***************************************************************************)
(* CPU time: which ticks of the time of day clock end up in the p_time of  *)
(* which process.  Time passes between any two steps of the nucleus, also  *)
(* between the two readings of the clock that updateCpuTime takes.         *)
(*                                                                         *)
(* STCK is a macro of the emulator's headers: here it reads a clock that   *)
(* wraps where cpu_t does, at ClockRange.  Which ready process comes next  *)
(* is the matter of Kernel: here it is any of them.                        *)
(*                                                                         *)
(* A definition whose name ends in _M is a mutation of the one after it.   *)
(***************************************************************************)
EXTENDS Integers

CONSTANTS
  Procs,        \* PCBs
  ClockRange,   \* values of cpu_t
  MaxTicks,     \* bound: ticks until the model stops the clock
  NULL

ASSUME CpuTimeAssumption ==
  /\ ClockRange \in Nat \ {0} /\ MaxTicks \in Nat
  /\ NULL \notin Procs

VARIABLES
  tod,              \* time of day clock
  schedulingTime,
  p_time,
  currentProcess,
  ready, blocked,   \* sets of processes
  pc,               \* where the processor is
  then,             \* what follows updateCpuTime: "return" or "switch"
  \* For the property only: ticks since a process was created
  user,             \* ... at which it ran
  kern,             \* ... at which the nucleus ran on its behalf
  ticks             \* ticks altogether

vars == <<tod, schedulingTime, p_time, currentProcess, ready, blocked, pc, then,
          user, kern, ticks>>

clock  == <<tod, user, kern, ticks>>
queues == <<ready, blocked>>

-----------------------------------------------------------------------------

Tick ==
  /\ ticks < MaxTicks
  /\ ticks' = ticks + 1
  /\ tod' = (tod + 1) % ClockRange
  /\ IF currentProcess = NULL THEN UNCHANGED <<user, kern>>
     ELSE IF pc = "user"
          THEN user' = [user EXCEPT ![currentProcess] = @ + 1] /\ UNCHANGED kern
          ELSE kern' = [kern EXCEPT ![currentProcess] = @ + 1] /\ UNCHANGED user
  /\ UNCHANGED <<schedulingTime, p_time, currentProcess, queues, pc, then>>

\* An exception: the processor enters the nucleus, from a process or from WAIT.
Enter ==
  /\ pc \in {"user", "wait"}
  /\ pc' = "nucleus"
  /\ UNCHANGED <<clock, schedulingTime, p_time, currentProcess, queues, then>>

\* The first half of updateCpuTime.
updateCpuTime ==
  /\ pc = "charge"
  /\ p_time' = [p_time EXCEPT ![currentProcess] =
                  (@ + (tod - schedulingTime)) % ClockRange]
  /\ pc' = "charged"
  /\ UNCHANGED <<clock, schedulingTime, currentProcess, queues, then>>

\* Its second half, and what the callers do after it.
Restart_M == UNCHANGED schedulingTime
Restart == schedulingTime' = tod
Charged ==
  /\ pc = "charged"
  /\ Restart
  /\ pc' = IF then = "return" THEN "user" ELSE "scheduler"
  /\ UNCHANGED <<clock, p_time, currentProcess, queues, then>>

-----------------------------------------------------------------------------
(* Handlers, by what they do to the time and to the current process *)

InNucleus == pc = "nucleus" /\ currentProcess # NULL

\* NSYS6
getCpuTime ==
  /\ InNucleus
  /\ pc' = "charge" /\ then' = "return"
  /\ UNCHANGED <<clock, schedulingTime, p_time, currentProcess, queues>>

\* NSYS3, NSYS4, NSYS5 and NSYS7 when they block.
Block ==
  /\ InNucleus
  /\ blocked' = blocked \cup {currentProcess}
  /\ pc' = "charge" /\ then' = "switch"
  /\ UNCHANGED <<clock, schedulingTime, p_time, currentProcess, ready>>

\* NSYS10 and the interrupt of the processor local timer.
Deschedule ==
  /\ InNucleus
  /\ ready' = ready \cup {currentProcess}
  /\ pc' = "charge" /\ then' = "switch"
  /\ UNCHANGED <<clock, schedulingTime, p_time, currentProcess, blocked>>

\* NSYS1: a PCB that is in use by nobody, with its time reset by allocPcb.
Unused == Procs \ (ready \cup blocked \cup {currentProcess})
ResetTime(p) == p_time' = [p_time EXCEPT ![p] = 0]
createProcess ==
  /\ InNucleus
  /\ \E p \in Unused :
       /\ ResetTime(p)
       /\ ready' = ready \cup {p}
       /\ user' = [user EXCEPT ![p] = 0]
       /\ kern' = [kern EXCEPT ![p] = 0]
  /\ pc' = "user"
  /\ UNCHANGED <<tod, ticks, schedulingTime, currentProcess, blocked, then>>

\* NSYS2, and passUpOrDie without a support structure.
Terminate ==
  /\ InNucleus
  /\ \E dead \in SUBSET Procs :
       /\ dead \cap Unused = {}
       /\ ready' = ready \ dead
       /\ blocked' = blocked \ dead
       /\ IF currentProcess \in dead
          THEN currentProcess' = NULL /\ pc' = "scheduler"
          ELSE UNCHANGED currentProcess /\ pc' = "user"
  /\ UNCHANGED <<clock, schedulingTime, p_time, then>>

\* The other interrupts, and NSYS3 and NSYS4 when they do not block: they may
\* wake processes up.  returnFromIntException calls the scheduler after WAIT.
Return ==
  /\ pc = "nucleus"
  /\ \E woken \in SUBSET blocked :
       /\ ready' = ready \cup woken
       /\ blocked' = blocked \ woken
  /\ pc' = IF currentProcess = NULL THEN "scheduler" ELSE "user"
  /\ UNCHANGED <<clock, schedulingTime, p_time, currentProcess, then>>

-----------------------------------------------------------------------------
(* scheduler *)

Dispatch ==
  /\ pc = "scheduler"
  /\ \E p \in ready : currentProcess' = p /\ ready' = ready \ {p}
  /\ pc' = "dispatch"
  /\ UNCHANGED <<clock, schedulingTime, p_time, blocked, then>>

Load ==
  /\ pc = "dispatch"
  /\ schedulingTime' = tod
  /\ pc' = "user"
  /\ UNCHANGED <<clock, p_time, currentProcess, queues, then>>

\* With no process left the system halts.
Wait ==
  /\ pc = "scheduler" /\ ready = {} /\ blocked # {}
  /\ currentProcess' = NULL
  /\ pc' = "wait"
  /\ UNCHANGED <<clock, schedulingTime, p_time, queues, then>>

-----------------------------------------------------------------------------

Init ==
  /\ tod \in 0..(ClockRange - 1)
  /\ schedulingTime = 0
  /\ p_time = [p \in Procs |-> 0]
  /\ currentProcess = NULL
  /\ \E p \in Procs : ready = {p}
  /\ blocked = {}
  /\ pc = "scheduler" /\ then = "return"
  /\ user = [p \in Procs |-> 0]
  /\ kern = [p \in Procs |-> 0]
  /\ ticks = 0

Next ==
  \/ Tick \/ Enter \/ updateCpuTime \/ Charged
  \/ getCpuTime \/ Block \/ Deschedule \/ createProcess \/ Terminate \/ Return
  \/ Dispatch \/ Load \/ Wait

Spec == Init /\ [][Next]_vars

-----------------------------------------------------------------------------

\* Time since the last reading of the clock that p has yet to be charged.
Pending(p) ==
  IF p = currentProcess /\ pc \in {"user", "nucleus", "charge"} THEN tod - schedulingTime ELSE 0

\* What updateCpuTime and the scheduler together promise: each tick at which a
\* process runs is charged to it, once and to nobody else, and of the others at
\* most those at which the nucleus works for it.  The time in WAIT is charged
\* to nobody.  That holds modulo the range of cpu_t, so it holds for every
\* process that runs for less than that, wherever the clock wraps.
ChargedRight ==
  \A p \in Procs \ Unused :
    \E k \in 0..kern[p] : (user[p] + k) % ClockRange = (p_time[p] + Pending(p)) % ClockRange
=============================================================================
