------------------------------- MODULE Kernel -------------------------------
(***************************************************************************)
(* The nucleus of Panda+ (phase2): the ready queues and the scheduler, the *)
(* binary semaphores of NSYS3/NSYS4, the blocking I/O and clock calls of   *)
(* NSYS5/NSYS7, process creation, termination of a process with its        *)
(* progeny, yield, and the PLT, interval-timer and device interrupts.      *)
(*                                                                         *)
(* The nucleus runs with interrupts masked, so a handler is one action     *)
(* from the exception to the LDST, WAIT, HALT or PANIC that ends it.  The  *)
(* two handlers that loop over an unbounded set, kill and the interval     *)
(* timer, are one action per iteration: "mode" holds the loop and nothing  *)
(* else is enabled until it ends.                                          *)
(*                                                                         *)
(* phase1 is seen through what it promises: a queue of PCBs is a sequence, *)
(* the ASL is the function "semq" from a semaphore to its queue of blocked *)
(* PCBs, the free list is a set (any free PCB may be the head), and the    *)
(* list of the children of a process is the set of those whose p_parent it *)
(* is.  The counters are mathematical integers: "unsigned > 0" is "# 0".   *)
(*                                                                         *)
(* A definition whose name ends in _M is a mutation of the one after it: a *)
(* plausible mistake that one of the properties must notice.               *)
(***************************************************************************)
EXTENDS Integers, FiniteSets, ProcQ

CONSTANTS
  Pcbs,             \* pcbFree_table, the MAXPROC process control blocks
  Sems,             \* semaphores of the processes, reached with NSYS3/NSYS4
  Devices,          \* device semaphores: devSems and termSems, one per (sub)device
  pseudoClockSem,   \* the semaphore of the interval timer
  NULL,
  Attrs,            \* what NSYS1 may be asked to create, see AttrType
  MaxSoftBlock      \* bound: no NSYS5/NSYS7 once softBlockCount has reached it

VARIABLES
  procQLow, procQHigh,   \* ready queues
  semq,                  \* the ASL: [semaphore -> queue of blocked PCBs]
  semVal,                \* value of each semaphore
  p_semAdd,              \* semaphore a PCB is blocked on, or NULL
  p_parent,              \* process tree
  attr,                  \* p_prio, p_s.status and p_supportStruct of a PCB
  pcbFree,               \* free PCBs
  currentProcess,
  processCount, softBlockCount, forceLowQ,
  plt,                   \* TRUE iff the PLT holds a time slice (not 0xFFFFFFFF)
  busy,                  \* devices with an operation whose interrupt is to come
  mode,                  \* what processor 0 is doing
  killStack              \* activations of kill(), innermost last

vars == <<procQLow, procQHigh, semq, semVal, p_semAdd, p_parent, attr, pcbFree,
          currentProcess, processCount, softBlockCount, forceLowQ, plt, busy,
          mode, killStack>>

PROCESS_PRIO_LOW  == 0
PROCESS_PRIO_HIGH == 1

SoftSems == Devices \cup {pseudoClockSem}
AllSems  == Sems \cup SoftSems

\* "im": the status word lets interrupts reach the process (IEPON and IMON);
\* "support": p_supportStruct is not NULL.
AttrType == [p_prio  : {PROCESS_PRIO_LOW, PROCESS_PRIO_HIGH},
             im      : BOOLEAN,
             support : BOOLEAN]

\* main() gives the first process TEBITON | IMON | IEPON and no support struct.
FirstAttr == [p_prio |-> PROCESS_PRIO_LOW, im |-> TRUE, support |-> FALSE]

Modes == {"user",    \* currentProcess executes
          "kill",    \* inside kill()
          "tick",    \* inside the loop of itInterruptHandler()
          "wait",    \* WAIT(), no process to run
          "halt",    \* HALT()
          "panic",   \* PANIC()
          "corrupt"} \* freePcb() relinked a PCB that is still in a ready queue

ASSUME KernelAssumption ==
  /\ IsFiniteSet(Pcbs)
  /\ NULL \notin Pcbs \cup AllSems
  /\ Sems \cap SoftSems = {}
  /\ pseudoClockSem \notin Devices
  /\ Attrs \subseteq AttrType
  /\ MaxSoftBlock \in Nat

-----------------------------------------------------------------------------
(* Queues of PCBs *)

\* insertPrioProcQ, as the two queues it leaves behind.
LowWith_M(p) == IF attr[p].p_prio = PROCESS_PRIO_LOW THEN <<p>> \o procQLow ELSE procQLow
LowWith(p) == IF attr[p].p_prio = PROCESS_PRIO_LOW  THEN Append(procQLow, p)  ELSE procQLow
HighWith_M(p) == Append(procQHigh, p)
HighWith(p) == IF attr[p].p_prio = PROCESS_PRIO_HIGH THEN Append(procQHigh, p) ELSE procQHigh

InsertPrioProcQ_M(p) == procQLow' = LowWith(p) /\ procQHigh' = procQHigh
InsertPrioProcQ(p) == procQLow' = LowWith(p) /\ procQHigh' = HighWith(p)

\* outPrioProcQ: the queue searched is the one of p's priority.
OutPrioProcQ_M(p) == UNCHANGED <<procQLow, procQHigh>>
OutPrioProcQ(p) ==
  /\ procQLow'  = IF attr[p].p_prio = PROCESS_PRIO_LOW  THEN Without(procQLow, p)  ELSE procQLow
  /\ procQHigh' = IF attr[p].p_prio = PROCESS_PRIO_HIGH THEN Without(procQHigh, p) ELSE procQHigh

-----------------------------------------------------------------------------
(* Scheduler.  lo, hi and force are the ready queues and forceLowQ when it *)
(* is called, cur is currentProcess and timer the state of the PLT;        *)
(* processCount' and softBlockCount' are fixed by the caller.              *)

\* forceLowQ counts only if there is a low priority process to dispatch.
ForceLow_M1(lo, force) == lo # <<>>
ForceLow_M2(lo, force) == FALSE
ForceLow(lo, force) == force /\ lo # <<>>

\* The process to dispatch, when one of the queues is not empty.
NextProcess(lo, hi, force) ==
  IF hi # <<>> /\ ~ForceLow(lo, force) THEN Head(hi) ELSE Head(lo)

Scheduler(lo, hi, force, cur, timer) ==
  /\ forceLowQ' = FALSE
  /\ \/ /\ hi # <<>> /\ ~ForceLow(lo, force)
        /\ currentProcess' = NextProcess(lo, hi, force)
        /\ procQHigh' = Tail(hi) /\ procQLow' = lo
        /\ plt' = timer                       \* no setTIMER on this path
        /\ mode' = "user"
     \/ /\ lo # <<>> /\ (hi = <<>> \/ ForceLow(lo, force))
        /\ currentProcess' = NextProcess(lo, hi, force)
        /\ procQLow' = Tail(lo) /\ procQHigh' = hi
        /\ plt' = TRUE
        /\ mode' = "user"
     \/ /\ lo = <<>> /\ hi = <<>>
        /\ procQLow' = lo /\ procQHigh' = hi
        /\ \/ /\ processCount' # 0 /\ softBlockCount' # 0
              /\ mode' = "wait" /\ currentProcess' = NULL /\ plt' = FALSE
           \/ /\ processCount' = 0 \/ softBlockCount' = 0
              /\ mode' = IF processCount' = 0 THEN "halt" ELSE "panic"
              /\ currentProcess' = cur /\ plt' = timer

\* returnFromIntException: resume the interrupted process, if there is one.
ReturnFromInt(lo, hi) ==
  \/ /\ currentProcess = NULL
     /\ Scheduler(lo, hi, forceLowQ, NULL, plt)
  \/ /\ currentProcess # NULL
     /\ procQLow' = lo /\ procQHigh' = hi
     /\ mode' = "user"
     /\ UNCHANGED <<currentProcess, forceLowQ, plt>>

-----------------------------------------------------------------------------
(* Semaphores *)

\* insertBlocked succeeds: the semaphore has a SEMD or one of the MAXPROC is free.
SemdAvailable(s) ==
  semq[s] # <<>> \/ Cardinality({t \in AllSems : semq[t] # <<>>}) < Cardinality(Pcbs)

\* semSuspend and sysContextSwitch
Suspend(s) ==
  \/ /\ SemdAvailable(s)
     /\ semq' = [semq EXCEPT ![s] = Append(@, currentProcess)]
     /\ p_semAdd' = [p_semAdd EXCEPT ![currentProcess] = s]
     /\ Scheduler(procQLow, procQHigh, forceLowQ, currentProcess, plt)
  \/ /\ ~SemdAvailable(s)
     /\ mode' = "panic"
     /\ UNCHANGED <<semq, p_semAdd, procQLow, procQHigh, currentProcess, forceLowQ, plt>>

\* removeBlocked, on a semaphore with a blocked process
RemoveBlocked_M(s) == semq' = [semq EXCEPT ![s] = Tail(@)] /\ UNCHANGED p_semAdd
RemoveBlocked(s) ==
  /\ semq' = [semq EXCEPT ![s] = Tail(@)]
  /\ p_semAdd' = [p_semAdd EXCEPT ![Head(semq[s])] = NULL]

\* The code of passeren and of verhogen: block at the value "full", otherwise
\* wake the first blocked process or, if there is none, change the value.
SemOp(s, full, change) ==
  \/ /\ semVal[s] = full
     /\ Suspend(s)
     /\ UNCHANGED semVal
  \/ /\ semVal[s] # full
     /\ \/ /\ semq[s] # <<>>
           /\ RemoveBlocked(s)
           /\ InsertPrioProcQ(Head(semq[s]))
           /\ UNCHANGED semVal
        \/ /\ semq[s] = <<>>
           /\ semVal' = [semVal EXCEPT ![s] = @ + change]
           /\ UNCHANGED <<semq, p_semAdd, procQLow, procQHigh>>
     /\ UNCHANGED <<currentProcess, forceLowQ, plt, mode>>

Passeren(s) == SemOp(s, 0, -1)
Verhogen_M(s) == SemOp(s, 2, 1)
Verhogen(s) == SemOp(s, 1, 1)

-----------------------------------------------------------------------------
(* System calls of the current process *)

\* NSYS3 and NSYS4 on a semaphore of the processes
SysSemaphore ==
  /\ mode = "user"
  /\ UNCHANGED <<p_parent, attr, pcbFree, processCount, softBlockCount, busy, killStack>>
  /\ \E s \in Sems : Passeren(s) \/ Verhogen(s)

\* NSYS5: start the operation, then wait for its interrupt.
DoIoDevice ==
  /\ mode = "user"
  /\ softBlockCount < MaxSoftBlock
  /\ \E d \in Devices :
       /\ busy' = busy \cup {d}
       /\ softBlockCount' = softBlockCount + 1
       /\ UNCHANGED processCount
       /\ Passeren(d)
  /\ UNCHANGED <<p_parent, attr, pcbFree, killStack>>

\* NSYS7
WaitForClock_M ==
  /\ mode = "user"
  /\ softBlockCount < MaxSoftBlock
  /\ UNCHANGED <<processCount, softBlockCount>>
  /\ Passeren(pseudoClockSem)
  /\ UNCHANGED <<p_parent, attr, pcbFree, busy, killStack>>
WaitForClock ==
  /\ mode = "user"
  /\ softBlockCount < MaxSoftBlock
  /\ softBlockCount' = softBlockCount + 1
  /\ UNCHANGED processCount
  /\ Passeren(pseudoClockSem)
  /\ UNCHANGED <<p_parent, attr, pcbFree, busy, killStack>>

\* allocPcb, insertChild and insertPrioProcQ
NewProcess(p, a) ==
  /\ pcbFree' = pcbFree \ {p}
  /\ attr' = [attr EXCEPT ![p] = a]
  /\ p_parent' = [p_parent EXCEPT ![p] = currentProcess]
  /\ p_semAdd' = [p_semAdd EXCEPT ![p] = NULL]
  /\ procQLow'  = IF a.p_prio = PROCESS_PRIO_LOW  THEN Append(procQLow, p)  ELSE procQLow
  /\ procQHigh' = IF a.p_prio = PROCESS_PRIO_HIGH THEN Append(procQHigh, p) ELSE procQHigh
  /\ UNCHANGED <<semq, semVal, currentProcess, softBlockCount, forceLowQ, plt, busy,
                 mode, killStack>>

\* NSYS1.  With no free PCB the call returns -1 and changes nothing here.
CreateProcess_M ==
  /\ mode = "user"
  /\ \E p \in pcbFree, a \in Attrs : NewProcess(p, a)
  /\ UNCHANGED processCount
CreateProcess ==
  /\ mode = "user"
  /\ \E p \in pcbFree, a \in Attrs : NewProcess(p, a)
  /\ processCount' = processCount + 1

\* headProcQ returns NULL on an empty queue, and NULL is 0xFFFFFFFF: the test of
\* the code is true whether or not procQHigh is empty.
YieldForcesLow == forceLowQ \/ attr[currentProcess].p_prio = PROCESS_PRIO_HIGH

\* NSYS10
Yield ==
  /\ mode = "user"
  /\ UNCHANGED <<processCount, softBlockCount>>
  /\ Scheduler(LowWith(currentProcess), HighWith(currentProcess), YieldForcesLow,
               currentProcess, plt)
  /\ UNCHANGED <<semq, semVal, p_semAdd, p_parent, attr, pcbFree, busy, killStack>>

-----------------------------------------------------------------------------
(* kill(): one activation per process of the subtree *)

\* The list p_child of p
Children_M(p) == {c \in Pcbs : p_parent[c] = p /\ p_semAdd[c] = NULL}
Children(p) == {c \in Pcbs : p_parent[c] = p}

FreePcb_M(p) == UNCHANGED pcbFree
FreePcb(p) == pcbFree' = pcbFree \cup {p}

\* isDeviceSemaphore
IsDeviceSemaphore_M(s) == s \notin SoftSems
IsDeviceSemaphore(s) == s \in SoftSems

\* Entry of kill(p), up to the loop over the children.  outBlocked sets
\* p_semAdd to NULL before isDeviceSemaphore looks at it.
EnterKill(p) ==
  /\ mode' = "kill"
  /\ killStack' = Append(killStack, p)
  /\ p_parent' = [p_parent EXCEPT ![p] = NULL]
  /\ processCount' = processCount - 1
  /\ IF p_semAdd[p] # NULL
     THEN /\ semq' = [semq EXCEPT ![p_semAdd[p]] = Without(@, p)]
          /\ p_semAdd' = [p_semAdd EXCEPT ![p] = NULL]
          /\ softBlockCount' = IF IsDeviceSemaphore(p_semAdd'[p])
                               THEN softBlockCount - 1 ELSE softBlockCount
          /\ UNCHANGED <<procQLow, procQHigh>>
     ELSE /\ OutPrioProcQ(p)
          /\ UNCHANGED <<semq, p_semAdd, softBlockCount>>
  /\ UNCHANGED <<semVal, attr, pcbFree, currentProcess, forceLowQ, plt, busy>>

\* NSYS2: the caller (pid 0) or any process that findPcb finds in a queue.
TerminateProcess ==
  /\ mode = "user"
  /\ \E p \in Pcbs :
       /\ \/ p = currentProcess
          \/ p \in ToSet(procQLow) \cup ToSet(procQHigh)
          \/ \E s \in AllSems : p \in ToSet(semq[s])
       /\ EnterKill(p)

\* passUpOrDie: a trap of a process without support structure kills it.  With
\* one, the handler only moves the process to its support level.
PassUpOrDie ==
  /\ mode = "user"
  /\ ~attr[currentProcess].support
  /\ EnterKill(currentProcess)

\* kill(removeChild(top)), for any child: their order is not modelled.
KillChild ==
  /\ mode = "kill"
  /\ \E c \in Children(Last(killStack)) : EnterKill(c)

\* The end of an activation.  The outermost one returns to its caller, which
\* calls the scheduler iff currentProcess is gone.
KillReturn ==
  LET top == Last(killStack)
      cur == IF currentProcess = top THEN NULL ELSE currentProcess
      resume(m) == /\ mode' = m /\ currentProcess' = cur
                   /\ UNCHANGED <<procQLow, procQHigh, forceLowQ, plt>>
  IN  /\ mode = "kill"
      /\ Children(top) = {}
      /\ FreePcb(top)
      /\ killStack' = Front(killStack)
      /\ UNCHANGED <<semq, semVal, p_semAdd, p_parent, attr, processCount, softBlockCount, busy>>
      /\ IF top \in ToSet(procQLow) \cup ToSet(procQHigh) THEN resume("corrupt")
         ELSE IF Len(killStack) > 1 THEN resume("kill")
         ELSE IF cur # NULL THEN resume("user")
         ELSE Scheduler(procQLow, procQHigh, forceLowQ, cur, plt)

-----------------------------------------------------------------------------
(* Interrupts.  They reach the processor in WAIT, and while a process runs *)
(* whose status word enables them.                                         *)

Interruptible ==
  \/ mode = "wait"
  \/ mode = "user" /\ attr[currentProcess].im

\* pltInterruptHandler: whatever its priority, the process goes to procQLow.
PltInterrupt ==
  /\ mode = "user" /\ Interruptible
  /\ plt
  /\ UNCHANGED <<processCount, softBlockCount>>
  /\ Scheduler(Append(procQLow, currentProcess), procQHigh, forceLowQ, currentProcess, FALSE)
  /\ UNCHANGED <<semq, semVal, p_semAdd, p_parent, attr, pcbFree, busy, killStack>>

\* itInterruptHandler: entry, one iteration of its loop, and its return.
ItInterrupt ==
  /\ Interruptible
  /\ mode' = "tick"
  /\ UNCHANGED <<procQLow, procQHigh, semq, semVal, p_semAdd, p_parent, attr, pcbFree,
                 currentProcess, processCount, softBlockCount, forceLowQ, plt, busy, killStack>>

ItWakeup ==
  /\ mode = "tick"
  /\ semq[pseudoClockSem] # <<>>
  /\ RemoveBlocked(pseudoClockSem)
  /\ InsertPrioProcQ(Head(semq[pseudoClockSem]))
  /\ softBlockCount' = softBlockCount - 1
  /\ UNCHANGED <<semVal, p_parent, attr, pcbFree, currentProcess, processCount, forceLowQ,
                 plt, busy, mode, killStack>>

ItReturn_M ==
  /\ mode = "tick"
  /\ UNCHANGED <<processCount, softBlockCount>>
  /\ ReturnFromInt(procQLow, procQHigh)
  /\ UNCHANGED <<semq, semVal, p_semAdd, p_parent, attr, pcbFree, busy, killStack>>
ItReturn ==
  /\ mode = "tick"
  /\ semq[pseudoClockSem] = <<>>
  /\ UNCHANGED <<processCount, softBlockCount>>
  /\ ReturnFromInt(procQLow, procQHigh)
  /\ UNCHANGED <<semq, semVal, p_semAdd, p_parent, attr, pcbFree, busy, killStack>>

\* deviceInterruptHandler and terminalInterruptHandler: one (sub)device is
\* acknowledged and the process that waits for it, if it still lives, is woken.
DeviceInterrupt ==
  /\ Interruptible
  /\ UNCHANGED processCount
  /\ \E d \in busy :
       /\ busy' = busy \ {d}
       /\ IF semq[d] = <<>>
          THEN /\ UNCHANGED <<semq, p_semAdd, softBlockCount>>
               /\ ReturnFromInt(procQLow, procQHigh)
          ELSE /\ RemoveBlocked(d)
               /\ softBlockCount' = softBlockCount - 1
               /\ ReturnFromInt(LowWith(Head(semq[d])), HighWith(Head(semq[d])))
  /\ UNCHANGED <<semVal, p_parent, attr, pcbFree, killStack>>

-----------------------------------------------------------------------------

\* main() up to and including the first call of the scheduler.
Init ==
  /\ \E p \in Pcbs :
       /\ currentProcess = p
       /\ pcbFree = Pcbs \ {p}
  /\ procQLow = <<>> /\ procQHigh = <<>>
  /\ semq = [s \in AllSems |-> <<>>]
  /\ \E v \in [Sems -> {0, 1}] : semVal = [s \in AllSems |-> IF s \in Sems THEN v[s] ELSE 0]
  /\ p_semAdd = [p \in Pcbs |-> NULL]
  /\ p_parent = [p \in Pcbs |-> NULL]
  /\ attr = [p \in Pcbs |-> FirstAttr]
  /\ processCount = 1 /\ softBlockCount = 0
  /\ forceLowQ = FALSE
  /\ plt = TRUE
  /\ busy = {}
  /\ mode = "user"
  /\ killStack = <<>>

\* HALT, PANIC and a corrupted list end the system as far as it is modelled.
Stopped == mode \in {"halt", "panic", "corrupt"} /\ UNCHANGED vars

Syscall   == SysSemaphore \/ DoIoDevice \/ WaitForClock \/ CreateProcess \/ Yield
             \/ TerminateProcess \/ PassUpOrDie
Interrupt == PltInterrupt \/ ItInterrupt \/ DeviceInterrupt
Loop      == KillChild \/ KillReturn \/ ItWakeup \/ ItReturn

Next == Syscall \/ Interrupt \/ Loop \/ Stopped

Spec == Init /\ [][Next]_vars

\* The time slice of currentProcess ends: the PLT fires or, before it does, the
\* process yields, blocks or is killed.
SliceEnds ==
  \/ PltInterrupt
  \/ Interruptible /\ (Yield \/ (Syscall /\ currentProcess' # currentProcess))
  \/ KillReturn /\ Last(killStack) = currentProcess

\* The loops of the nucleus run to their end.  The PLT counts down while a
\* process runs and the interval timer is periodic; both stay pending until
\* they are delivered, which is why their fairness is strong.
FairSpec == Spec /\ WF_vars(Loop) /\ SF_vars(SliceEnds) /\ SF_vars(ItInterrupt)

=============================================================================
