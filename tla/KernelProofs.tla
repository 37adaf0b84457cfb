---------------------------- MODULE KernelProofs ----------------------------
(***************************************************************************)
(* Theorems about the nucleus for every set of PCBs, semaphores, devices   *)
(* and process attributes: its variables keep their types, and no process  *)
(* is lost, duplicated or freed while it is still queued; processes are    *)
(* counted exactly and form one tree, the system stops only when nothing   *)
(* can go on, and low priority processes overtake high ones only after a   *)
(* yield.  Nobody is overtaken in a queue, the loops of the nucleus end,   *)
(* P and V are those of BinSem, and phase 1 is used as Phase1Api allows.   *)
(* All but the types holds when high priority processes run with           *)
(* interrupts masked (QuietHigh).                                          *)
(***************************************************************************)
EXTENDS KernelProps, Lemmas, FiniteSetTheorems

-----------------------------------------------------------------------------
(* Type correctness *)

\* The part of TypeOK that the scheduler decides.
SchedulerOutputs ==
  /\ procQLow \in Seq(Pcbs) /\ procQHigh \in Seq(Pcbs)
  /\ currentProcess \in Pcbs \cup {NULL}
  /\ plt \in BOOLEAN
  /\ mode \in {"user", "wait", "halt", "panic"}
  /\ mode = "user" => currentProcess \in Pcbs

\* The scheduler keeps the types of what it assigns, and consumes forceLowQ.
LEMMA SchedulerType ==
  ASSUME NEW lo \in Seq(Pcbs), NEW hi \in Seq(Pcbs), NEW force,
         NEW cur \in Pcbs \cup {NULL}, NEW timer \in BOOLEAN,
         Scheduler(lo, hi, force, cur, timer)
  PROVE  SchedulerOutputs' /\ forceLowQ' = FALSE
<1>1. CASE hi # <<>> /\ currentProcess' = Head(hi) /\ procQHigh' = Tail(hi)
           /\ procQLow' = lo /\ plt' = timer /\ mode' = "user"
  BY <1>1 DEF Scheduler, NextProcess, SchedulerOutputs
<1>2. CASE lo # <<>> /\ currentProcess' = Head(lo) /\ procQLow' = Tail(lo)
           /\ procQHigh' = hi /\ plt' = TRUE /\ mode' = "user"
  BY <1>2 DEF Scheduler, NextProcess, SchedulerOutputs
<1>3. CASE /\ procQLow' = lo /\ procQHigh' = hi
           /\ plt' \in {FALSE, timer} /\ currentProcess' \in {NULL, cur}
           /\ mode' \in {"wait", "halt", "panic"}
  BY <1>3 DEF Scheduler, NextProcess, SchedulerOutputs
<1> QED  BY <1>1, <1>2, <1>3 DEF Scheduler, NextProcess

\* main leaves the nucleus with well-typed variables.
LEMMA InitType == Init => TypeOK
<1> SUFFICES ASSUME Init PROVE TypeOK
  OBVIOUS
<1> USE DEF Init
<1>1. semVal \in [AllSems -> {0, 1}]
  BY DEF AllSems, SoftSems
<1>2. semq \in [AllSems -> Seq(Pcbs)] /\ <<>> \in Seq(Pcbs)
  OBVIOUS
<1>3. attr \in [Pcbs -> AttrType]
  BY DEF FirstAttr, AttrType, PROCESS_PRIO_LOW, PROCESS_PRIO_HIGH
<1>4. pcbFree \subseteq Pcbs /\ currentProcess \in Pcbs
  OBVIOUS
<1> QED  BY <1>1, <1>2, <1>3, <1>4 DEF TypeOK, Modes

\* The queues a woken or yielding process is inserted in.
LEMMA WithType ==
  ASSUME TypeOK, NEW p \in Pcbs
  PROVE  LowWith(p) \in Seq(Pcbs) /\ HighWith(p) \in Seq(Pcbs)
BY AppendToSet DEF TypeOK, LowWith, HighWith

\* A queue that is not empty has a head to wake.
LEMMA HeadType ==
  ASSUME TypeOK, NEW s \in AllSems, semq[s] # <<>>
  PROVE  Head(semq[s]) \in Pcbs /\ Tail(semq[s]) \in Seq(Pcbs)
BY DEF TypeOK

\* P and V keep the types, whichever way they go.
LEMMA SemOpType ==
  ASSUME TypeOK, mode = "user", NEW s \in AllSems,
         Passeren(s) \/ Verhogen(s)
  PROVE  /\ SchedulerOutputs' /\ forceLowQ' = FALSE
         /\ semq' \in [AllSems -> Seq(Pcbs)]
         /\ semVal' \in [AllSems -> {0, 1}]
         /\ p_semAdd' \in [Pcbs -> AllSems \cup {NULL}]
<1> DEFINE full == IF Passeren(s) THEN 0 ELSE 1
           change == IF Passeren(s) THEN -1 ELSE 1
<1>1. SemOp(s, full, change)
  BY DEF Passeren, Verhogen
<1>2. full \in {0, 1} /\ change = (IF full = 0 THEN -1 ELSE 1)
  OBVIOUS
<1> HIDE DEF full, change
<1>3. CASE semVal[s] = full /\ Suspend(s) /\ UNCHANGED semVal
  <2>1. CASE SemdAvailable(s)
    <3>1. Scheduler(procQLow, procQHigh, forceLowQ, currentProcess, plt)
      BY <1>3, <2>1 DEF Suspend
    <3>2. SchedulerOutputs' /\ forceLowQ' = FALSE
      BY <3>1, SchedulerType DEF TypeOK
    <3>3. Append(semq[s], currentProcess) \in Seq(Pcbs)
      BY AppendToSet DEF TypeOK
    <3>4. /\ semq' = [semq EXCEPT ![s] = Append(semq[s], currentProcess)]
          /\ p_semAdd' = [p_semAdd EXCEPT ![currentProcess] = s]
      BY <1>3, <2>1 DEF Suspend
    <3> QED  BY <1>3, <3>2, <3>3, <3>4 DEF TypeOK
  <2>2. CASE ~SemdAvailable(s)
    BY <1>3, <2>2 DEF Suspend, TypeOK, SchedulerOutputs
  <2> QED  BY <2>1, <2>2
<1>4. CASE semVal[s] # full /\ semq[s] # <<>> /\ RemoveBlocked(s)
           /\ InsertPrioProcQ(Head(semq[s]))
           /\ UNCHANGED <<semVal, currentProcess, forceLowQ, plt, mode>>
  BY <1>4, HeadType, WithType DEF TypeOK, RemoveBlocked, InsertPrioProcQ, SchedulerOutputs
<1>5. CASE /\ semVal[s] # full
           /\ semVal' = [semVal EXCEPT ![s] = semVal[s] + change]
           /\ UNCHANGED <<semq, p_semAdd, procQLow, procQHigh>>
           /\ UNCHANGED <<currentProcess, forceLowQ, plt, mode>>
  <2>1. semVal[s] + change \in {0, 1}
    BY <1>2, <1>5 DEF TypeOK
  <2> QED  BY <1>5, <2>1 DEF TypeOK, SchedulerOutputs
<1> QED  BY <1>1, <1>3, <1>4, <1>5 DEF SemOp

\* The entry of kill() keeps the types.
LEMMA EnterKillType ==
  ASSUME TypeOK, KernelAssumption, NEW p \in Pcbs, EnterKill(p), mode \in {"user", "kill"}
  PROVE  TypeOK'
<1>1. killStack' \in Seq(Pcbs) /\ killStack' # <<>> /\ mode' = "kill"
  BY AppendToSet DEF TypeOK, EnterKill
<1>2. CASE p_semAdd[p] # NULL
  <2>1. p_semAdd[p] \in AllSems
    BY <1>2 DEF TypeOK
  <2>2. Without(semq[p_semAdd[p]], p) \in Seq(Pcbs)
    BY <2>1, OutProcQToSet DEF TypeOK
  <2>3. semq' \in [AllSems -> Seq(Pcbs)]
    BY <1>2, <2>1, <2>2 DEF EnterKill, TypeOK
  <2>4. p_semAdd' \in [Pcbs -> AllSems \cup {NULL}]
    BY <1>2 DEF EnterKill, TypeOK
  <2>5. softBlockCount' \in Int
    <3>1. softBlockCount' \in {softBlockCount - 1, softBlockCount}
      BY <1>2 DEF EnterKill
    <3> QED  BY <3>1 DEF TypeOK
  <2>6. procQLow' = procQLow /\ procQHigh' = procQHigh
    BY <1>2 DEF EnterKill
  <2>7. /\ p_parent' \in [Pcbs -> Pcbs \cup {NULL}] /\ processCount' \in Int
        /\ UNCHANGED <<semVal, attr, pcbFree, currentProcess, forceLowQ, plt, busy>>
    BY DEF EnterKill, TypeOK
  <2> QED  BY <1>1, <2>3, <2>4, <2>5, <2>6, <2>7 DEF TypeOK, Modes
<1>3. CASE p_semAdd[p] = NULL
  <2>1. procQLow' \in Seq(Pcbs) /\ procQHigh' \in Seq(Pcbs)
    BY <1>3, OutProcQToSet DEF EnterKill, OutPrioProcQ, TypeOK
  <2> QED  BY <1>1, <1>3, <2>1 DEF EnterKill, TypeOK, Modes
<1> QED  BY <1>2, <1>3

\* So does a birth,
LEMMA NewProcessType ==
  ASSUME TypeOK, KernelAssumption, mode = "user", NEW p \in pcbFree, NEW a \in Attrs, NewProcess(p, a),
         processCount' = processCount + 1
  PROVE  TypeOK'
<1>1. a \in AttrType /\ p \in Pcbs /\ currentProcess \in Pcbs
  BY DEF KernelAssumption, TypeOK
<1>2. procQLow' \in Seq(Pcbs) /\ procQHigh' \in Seq(Pcbs)
  BY <1>1, AppendToSet DEF NewProcess, TypeOK
<1> QED  BY <1>1, <1>2 DEF NewProcess, TypeOK

\* the return of an activation of kill(),
LEMMA KillReturnType ==
  ASSUME TypeOK, KernelAssumption, KillReturn
  PROVE  TypeOK'
<1> DEFINE top == Last(killStack)
           cur == IF currentProcess = top THEN NULL ELSE currentProcess
<1>1. killStack # <<>> /\ top \in Pcbs /\ Front(killStack) \in Seq(Pcbs)
  BY FrontLastToSet, ToSetProperties DEF TypeOK, KillReturn
<1>2. cur \in Pcbs \cup {NULL}
  BY DEF TypeOK
<1>3. /\ killStack' = Front(killStack) /\ pcbFree' = pcbFree \cup {top}
      /\ UNCHANGED <<semq, semVal, p_semAdd, p_parent, attr, processCount, softBlockCount, busy>>
  BY DEF KillReturn, FreePcb
<1>4. ASSUME NEW m \in {"corrupt", "kill", "user"},
             m = "kill" => Front(killStack) # <<>>,
             m = "user" => Front(killStack) = <<>> /\ cur # NULL,
             mode' = m, currentProcess' = cur,
             UNCHANGED <<procQLow, procQHigh, forceLowQ, plt>>
      PROVE  TypeOK'
  BY <1>1, <1>2, <1>3, <1>4 DEF TypeOK, Modes
<1>5. ASSUME Front(killStack) = <<>>, Scheduler(procQLow, procQHigh, forceLowQ, cur, plt)
      PROVE  TypeOK'
  <2> HIDE DEF cur
  <2>a. procQLow \in Seq(Pcbs) /\ procQHigh \in Seq(Pcbs) /\ plt \in BOOLEAN
    BY DEF TypeOK
  <2>1. SchedulerOutputs' /\ forceLowQ' = FALSE
    BY <1>2, <1>5, <2>a, SchedulerType
  <2> QED  BY <1>1, <1>3, <1>5, <2>1 DEF TypeOK, SchedulerOutputs, Modes
<1>6. Len(killStack) > 1 <=> Front(killStack) # <<>>
  BY <1>1, FrontLastToSet DEF TypeOK
<1> HIDE DEF top, cur
<1> QED  BY <1>4, <1>5, <1>6 DEF KillReturn, top, cur

\* and the end of an interrupt handler.
LEMMA ReturnFromIntType ==
  ASSUME TypeOK, NEW lo \in Seq(Pcbs), NEW hi \in Seq(Pcbs), ReturnFromInt(lo, hi)
  PROVE  SchedulerOutputs' /\ forceLowQ' = FALSE
<1>1. CASE Scheduler(lo, hi, forceLowQ, NULL, plt)
  BY <1>1, SchedulerType DEF TypeOK
<1>2. CASE /\ currentProcess # NULL /\ procQLow' = lo /\ procQHigh' = hi /\ mode' = "user"
           /\ UNCHANGED <<currentProcess, forceLowQ, plt>>
  BY <1>2 DEF TypeOK, SchedulerOutputs
<1> QED  BY <1>1, <1>2 DEF ReturnFromInt

\* Every handler keeps the types.
LEMMA NextType == TypeOK /\ KernelAssumption /\ [Next]_vars => TypeOK'
<1> SUFFICES ASSUME TypeOK, KernelAssumption, [Next]_vars PROVE TypeOK'
  OBVIOUS
<1>1. CASE SysSemaphore
  <2>1. PICK s \in Sems : Passeren(s) \/ Verhogen(s)
    BY <1>1 DEF SysSemaphore
  <2>2. s \in AllSems /\ mode = "user"
    BY <1>1 DEF SysSemaphore, AllSems
  <2> QED  BY <1>1, <2>1, <2>2, SemOpType DEF SysSemaphore, TypeOK, SchedulerOutputs, Modes
<1>2. CASE DoIoDevice
  <2>1. PICK d \in Devices : busy' = busy \cup {d} /\ softBlockCount' = softBlockCount + 1
                             /\ UNCHANGED processCount /\ Passeren(d)
    BY <1>2 DEF DoIoDevice
  <2>2. d \in AllSems /\ mode = "user"
    BY <1>2 DEF DoIoDevice, AllSems, SoftSems
  <2>3. /\ SchedulerOutputs' /\ forceLowQ' = FALSE
        /\ semq' \in [AllSems -> Seq(Pcbs)]
        /\ semVal' \in [AllSems -> {0, 1}]
        /\ p_semAdd' \in [Pcbs -> AllSems \cup {NULL}]
    BY <2>1, <2>2, SemOpType
  <2>4. softBlockCount' \in Int /\ processCount' \in Int /\ busy' \subseteq Devices
    BY <2>1 DEF TypeOK
  <2> QED  BY <1>2, <2>3, <2>4 DEF DoIoDevice, TypeOK, SchedulerOutputs, Modes
<1>3. CASE WaitForClock
  <2>1. pseudoClockSem \in AllSems /\ mode = "user" /\ Passeren(pseudoClockSem)
    BY <1>3 DEF WaitForClock, AllSems, SoftSems
  <2>2. /\ SchedulerOutputs' /\ forceLowQ' = FALSE
        /\ semq' \in [AllSems -> Seq(Pcbs)]
        /\ semVal' \in [AllSems -> {0, 1}]
        /\ p_semAdd' \in [Pcbs -> AllSems \cup {NULL}]
    BY <2>1, SemOpType
  <2>3. softBlockCount' \in Int /\ processCount' \in Int
    BY <1>3 DEF WaitForClock, TypeOK
  <2> QED  BY <1>3, <2>2, <2>3 DEF WaitForClock, TypeOK, SchedulerOutputs, Modes
<1>4. CASE CreateProcess
  BY <1>4, NewProcessType DEF CreateProcess
<1>5. CASE Yield
  <2>1. currentProcess \in Pcbs
    BY <1>5 DEF Yield, TypeOK
  <2> DEFINE lo == LowWith(currentProcess)
             hi == HighWith(currentProcess)
             force == YieldForcesLow
  <2>a. Scheduler(lo, hi, force, currentProcess, plt)
    BY <1>5 DEF Yield
  <2>b. lo \in Seq(Pcbs) /\ hi \in Seq(Pcbs)
    BY <2>1, WithType
  <2>c. plt \in BOOLEAN /\ currentProcess \in Pcbs \cup {NULL}
    BY DEF TypeOK
  <2> HIDE DEF lo, hi, force
  <2>2. SchedulerOutputs' /\ forceLowQ' = FALSE
    BY <2>a, <2>b, <2>c, SchedulerType
  <2> QED  BY <1>5, <2>2 DEF Yield, TypeOK, SchedulerOutputs, Modes
<1>6. CASE TerminateProcess
  BY <1>6, EnterKillType DEF TerminateProcess
<1>7. CASE PassUpOrDie
  BY <1>7, EnterKillType DEF PassUpOrDie, TypeOK
<1>8. CASE PltInterrupt
  <2>1. Append(procQLow, currentProcess) \in Seq(Pcbs)
    BY <1>8, AppendToSet DEF PltInterrupt, TypeOK
  <2>2. SchedulerOutputs' /\ forceLowQ' = FALSE
    BY <1>8, <2>1, SchedulerType DEF PltInterrupt, TypeOK
  <2> QED  BY <1>8, <2>2 DEF PltInterrupt, TypeOK, SchedulerOutputs, Modes
<1>9. CASE ItInterrupt
  BY <1>9 DEF ItInterrupt, Interruptible, TypeOK, Modes
<1>10. CASE DeviceInterrupt
  <2>1. PICK d \in busy :
          /\ busy' = busy \ {d}
          /\ \/ /\ semq[d] = <<>> /\ UNCHANGED <<semq, p_semAdd, softBlockCount>>
                /\ ReturnFromInt(procQLow, procQHigh)
             \/ /\ semq[d] # <<>> /\ RemoveBlocked(d) /\ softBlockCount' = softBlockCount - 1
                /\ ReturnFromInt(LowWith(Head(semq[d])), HighWith(Head(semq[d])))
    BY <1>10 DEF DeviceInterrupt
  <2>2. d \in AllSems
    BY DEF TypeOK, AllSems, SoftSems
  <2>3. SchedulerOutputs' /\ forceLowQ' = FALSE
    <3>1. CASE semq[d] = <<>>  BY <2>1, <3>1, ReturnFromIntType DEF TypeOK
    <3>2. CASE semq[d] # <<>>  BY <2>1, <2>2, <3>2, ReturnFromIntType, WithType, HeadType
    <3> QED  BY <3>1, <3>2
  <2>4. /\ semq' \in [AllSems -> Seq(Pcbs)] /\ p_semAdd' \in [Pcbs -> AllSems \cup {NULL}]
        /\ softBlockCount' \in Int
    <3>1. CASE semq[d] = <<>>  BY <2>1, <3>1 DEF TypeOK
    <3>2. CASE semq[d] # <<>>
      <4>1. Head(semq[d]) \in Pcbs /\ Tail(semq[d]) \in Seq(Pcbs)
        BY <2>2, <3>2, HeadType
      <4>2. /\ semq' = [semq EXCEPT ![d] = Tail(semq[d])]
            /\ p_semAdd' = [p_semAdd EXCEPT ![Head(semq[d])] = NULL]
            /\ softBlockCount' = softBlockCount - 1
        BY <2>1, <3>2 DEF RemoveBlocked
      <4>3. semq' \in [AllSems -> Seq(Pcbs)]  BY <4>1, <4>2 DEF TypeOK
      <4>4. p_semAdd' \in [Pcbs -> AllSems \cup {NULL}]  BY <4>1, <4>2 DEF TypeOK
      <4>5. softBlockCount' \in Int  BY <4>2 DEF TypeOK
      <4> QED  BY <4>3, <4>4, <4>5
    <3> QED  BY <3>1, <3>2
  <2> QED  BY <1>10, <2>1, <2>3, <2>4 DEF DeviceInterrupt, Interruptible, TypeOK, SchedulerOutputs, Modes
<1>11. CASE KillChild
  <2>1. PICK c \in Children(Last(killStack)) : EnterKill(c)
    BY <1>11 DEF KillChild
  <2>2. c \in Pcbs /\ mode = "kill"
    BY <1>11 DEF KillChild, Children
  <2> QED  BY <2>1, <2>2, EnterKillType
<1>12. CASE KillReturn
  BY <1>12, KillReturnType
<1>13. CASE ItWakeup
  <2>1. pseudoClockSem \in AllSems
    BY DEF AllSems, SoftSems
  <2>2. Head(semq[pseudoClockSem]) \in Pcbs /\ Tail(semq[pseudoClockSem]) \in Seq(Pcbs)
    BY <1>13, <2>1, HeadType DEF ItWakeup
  <2>3. procQLow' \in Seq(Pcbs) /\ procQHigh' \in Seq(Pcbs)
    BY <1>13, <2>2, WithType DEF ItWakeup, InsertPrioProcQ
  <2>4. semq' \in [AllSems -> Seq(Pcbs)] /\ p_semAdd' \in [Pcbs -> AllSems \cup {NULL}]
    BY <1>13, <2>1, <2>2 DEF ItWakeup, RemoveBlocked, TypeOK
  <2> QED  BY <1>13, <2>3, <2>4 DEF ItWakeup, TypeOK
<1>14. CASE ItReturn
  <2>1. SchedulerOutputs' /\ forceLowQ' = FALSE
    BY <1>14, ReturnFromIntType DEF ItReturn, TypeOK
  <2> QED  BY <1>14, <2>1 DEF ItReturn, TypeOK, SchedulerOutputs, Modes
<1>15. CASE UNCHANGED vars
  BY <1>15 DEF vars, TypeOK
<1> QED
  BY <1>1, <1>2, <1>3, <1>4, <1>5, <1>6, <1>7, <1>8, <1>9, <1>10, <1>11, <1>12, <1>13,
     <1>14, <1>15 DEF Next, Syscall, Interrupt, Loop, Stopped

\* In every reachable state of the nucleus the variables have their types: the
\* semaphores stay binary, user mode always has a process to execute.
THEOREM TypeCorrect == Spec => []TypeOK
<1>1. Init => TypeOK  BY InitType
<1>2. TypeOK /\ [Next]_vars => TypeOK'  BY NextType, KernelAssumption
<1> QED  BY <1>1, <1>2, PTL DEF Spec

-----------------------------------------------------------------------------
(* Where every PCB is: the inductive invariant *)

\* The high priority processes that exist are quiet, too.
QuietAttrs == \A p \in Pcbs : attr[p].p_prio = PROCESS_PRIO_HIGH => ~attr[p].im

\* A PCB that is free or in the hands of kill() has been taken out of the tree.
DeadDetached == \A p \in pcbFree \cup Dying : p_parent[p] = NULL

\* The inductive invariant: where every PCB is.
PlaceInv ==
  /\ TypeOK
  /\ ProcessPartition
  /\ SemAddMatchesQueue
  /\ ReadyByPriority
  /\ KillUnlinks
  /\ QuietAttrs
  /\ DeadDetached

-----------------------------------------------------------------------------
(* What the pieces of the actions do to the places *)

\* The scheduler moves at most one ready process, to the processor.
LEMMA DispatchSets ==
  ASSUME NEW lo \in Seq(Pcbs), NEW hi \in Seq(Pcbs), NEW force, NEW cur, NEW timer,
         Distinct(lo), Distinct(hi), Scheduler(lo, hi, force, cur, timer)
  PROVE  /\ Distinct(procQLow') /\ Distinct(procQHigh')
         /\ \/ /\ mode' = "user" /\ currentProcess' \in ToSet(hi)
               /\ ToSet(procQHigh') = ToSet(hi) \ {currentProcess'}
               /\ ToSet(procQLow') = ToSet(lo)
            \/ /\ mode' = "user" /\ currentProcess' \in ToSet(lo)
               /\ ToSet(procQLow') = ToSet(lo) \ {currentProcess'}
               /\ ToSet(procQHigh') = ToSet(hi)
            \/ /\ lo = <<>> /\ hi = <<>>
               /\ ToSet(procQLow') = ToSet(lo) /\ ToSet(procQHigh') = ToSet(hi)
               /\ \/ mode' = "wait" /\ currentProcess' = NULL
                  \/ mode' = "halt" /\ processCount' = 0
                  \/ mode' = "panic" /\ processCount' # 0 /\ softBlockCount' = 0
<1>1. CASE hi # <<>> /\ currentProcess' = Head(hi) /\ procQHigh' = Tail(hi)
           /\ procQLow' = lo /\ mode' = "user"
  BY <1>1, TailToSet
<1>2. CASE lo # <<>> /\ currentProcess' = Head(lo) /\ procQLow' = Tail(lo)
           /\ procQHigh' = hi /\ mode' = "user"
  BY <1>2, TailToSet
<1>3. CASE /\ lo = <<>> /\ hi = <<>> /\ procQLow' = lo /\ procQHigh' = hi
           /\ \/ mode' = "wait" /\ currentProcess' = NULL
              \/ processCount' = 0 /\ mode' = "halt"
              \/ processCount' # 0 /\ softBlockCount' = 0 /\ mode' = "panic"
  BY <1>3
<1> QED  BY <1>1, <1>2, <1>3 DEF Scheduler, NextProcess

\* If every process but those on the processor and in the hands of kill() has
\* its place when the scheduler is called, every process has one afterwards.
LEMMA DispatchPlaces ==
  ASSUME NEW lo \in Seq(Pcbs), NEW hi \in Seq(Pcbs), NEW force, NEW cur, NEW timer,
         KernelAssumption, Scheduler(lo, hi, force, cur, timer),
         Partition(lo, hi, semq', pcbFree', {}, {}),
         ByPriority(lo, hi, attr'),
         killStack' = <<>>
  PROVE  ProcessPartition' /\ ReadyByPriority' /\ KillUnlinks'
<1>1. Distinct(lo) /\ Distinct(hi)
  BY DEF Partition
<1>2. ToSet(lo) \subseteq Pcbs /\ ToSet(hi) \subseteq Pcbs /\ NULL \notin Pcbs
  BY ToSetProperties DEF KernelAssumption
<1>3. Dying' = {} /\ Distinct(killStack')
  <2>1. ToSet(<<>>) = {}  BY DEF ToSet
  <2>2. Distinct(<<>>)  BY DEF Distinct
  <2> QED  BY <2>1, <2>2 DEF Dying
<1>4. CASE /\ mode' = "user" /\ currentProcess' \in ToSet(hi)
           /\ ToSet(procQHigh') = ToSet(hi) \ {currentProcess'}
           /\ ToSet(procQLow') = ToSet(lo)
           /\ Distinct(procQLow') /\ Distinct(procQHigh')
  <2>1. Running' = {currentProcess'}
    BY <1>2, <1>3, <1>4 DEF Running
  <2>2. Partition(procQLow', procQHigh', semq', pcbFree', {}, {currentProcess'})
    BY <1>2, <1>4 DEF Partition
  <2> QED  BY <1>3, <1>4, <2>1, <2>2 DEF ProcessPartition, ReadyByPriority, ByPriority, KillUnlinks
<1>5. CASE /\ mode' = "user" /\ currentProcess' \in ToSet(lo)
           /\ ToSet(procQLow') = ToSet(lo) \ {currentProcess'}
           /\ ToSet(procQHigh') = ToSet(hi)
           /\ Distinct(procQLow') /\ Distinct(procQHigh')
  <2>1. Running' = {currentProcess'}
    BY <1>2, <1>3, <1>5 DEF Running
  <2>2. Partition(procQLow', procQHigh', semq', pcbFree', {}, {currentProcess'})
    BY <1>2, <1>5 DEF Partition
  <2> QED  BY <1>3, <1>5, <2>1, <2>2 DEF ProcessPartition, ReadyByPriority, ByPriority, KillUnlinks
<1>6. CASE /\ ToSet(procQLow') = ToSet(lo) /\ ToSet(procQHigh') = ToSet(hi)
           /\ Distinct(procQLow') /\ Distinct(procQHigh')
           /\ \/ mode' = "wait" /\ currentProcess' = NULL
              \/ mode' \in {"halt", "panic"}
  <2>1. Running' = {}
    BY <1>6 DEF Running
  <2>2. Partition(procQLow', procQHigh', semq', pcbFree', {}, {})
    BY <1>6 DEF Partition
  <2> QED  BY <1>3, <1>6, <2>1, <2>2 DEF ProcessPartition, ReadyByPriority, ByPriority, KillUnlinks
<1> QED  BY <1>1, <1>4, <1>5, <1>6, DispatchSets

\* insertPrioProcQ puts a process that was nowhere else in its ready queue.
LEMMA InsertPlaces ==
  ASSUME TypeOK, ReadyByPriority, NEW p \in Pcbs, NEW sq, NEW running,
         Partition(procQLow, procQHigh, sq, pcbFree, {}, running \cup {p}),
         p \notin running
  PROVE  /\ LowWith(p) \in Seq(Pcbs) /\ HighWith(p) \in Seq(Pcbs)
         /\ Partition(LowWith(p), HighWith(p), sq, pcbFree, {}, running)
         /\ ByPriority(LowWith(p), HighWith(p), attr)
<1>1. /\ procQLow \in Seq(Pcbs) /\ procQHigh \in Seq(Pcbs)
      /\ attr[p].p_prio \in {PROCESS_PRIO_LOW, PROCESS_PRIO_HIGH}
      /\ PROCESS_PRIO_LOW # PROCESS_PRIO_HIGH
  BY DEF TypeOK, AttrType, PROCESS_PRIO_LOW, PROCESS_PRIO_HIGH
<1>2. /\ p \notin ToSet(procQLow) /\ p \notin ToSet(procQHigh)
      /\ Distinct(procQLow) /\ Distinct(procQHigh)
  BY DEF Partition
<1>3. CASE attr[p].p_prio = PROCESS_PRIO_LOW
  <2>1. LowWith(p) = Append(procQLow, p) /\ HighWith(p) = procQHigh
    BY <1>1, <1>3 DEF LowWith, HighWith
  <2>2. /\ LowWith(p) \in Seq(Pcbs) /\ ToSet(LowWith(p)) = ToSet(procQLow) \cup {p}
        /\ Distinct(LowWith(p))
    BY <1>1, <1>2, <2>1, AppendToSet
  <2>3. Partition(LowWith(p), HighWith(p), sq, pcbFree, {}, running)
    BY <2>1, <2>2 DEF Partition
  <2> QED  BY <1>1, <1>3, <2>1, <2>2, <2>3 DEF ReadyByPriority, ByPriority
<1>4. CASE attr[p].p_prio = PROCESS_PRIO_HIGH
  <2>1. HighWith(p) = Append(procQHigh, p) /\ LowWith(p) = procQLow
    BY <1>1, <1>4 DEF LowWith, HighWith
  <2>2. /\ HighWith(p) \in Seq(Pcbs) /\ ToSet(HighWith(p)) = ToSet(procQHigh) \cup {p}
        /\ Distinct(HighWith(p))
    BY <1>1, <1>2, <2>1, AppendToSet
  <2>3. Partition(LowWith(p), HighWith(p), sq, pcbFree, {}, running)
    BY <2>1, <2>2 DEF Partition
  <2> QED  BY <1>1, <1>4, <2>1, <2>2, <2>3 DEF ReadyByPriority, ByPriority
<1> QED  BY <1>1, <1>3, <1>4

\* removeBlocked takes the first process blocked on s out of its queue.
LEMMA RemovePlaces ==
  ASSUME PlaceInv, KernelAssumption, NEW s \in AllSems, semq[s] # <<>>, RemoveBlocked(s),
         killStack = <<>>
  PROVE  /\ Head(semq[s]) \in Pcbs /\ Head(semq[s]) \notin Running
         /\ Partition(procQLow, procQHigh, semq', pcbFree, {}, Running \cup {Head(semq[s])})
         /\ SemAddMatchesQueue'
<1> DEFINE h == Head(semq[s])
<1>1. semq \in [AllSems -> Seq(Pcbs)] /\ p_semAdd \in [Pcbs -> AllSems \cup {NULL}]
      /\ NULL \notin AllSems
  BY DEF PlaceInv, TypeOK, KernelAssumption
<1>2. /\ semq' = [semq EXCEPT ![s] = Tail(semq[s])]
      /\ p_semAdd' = [p_semAdd EXCEPT ![h] = NULL]
  BY DEF RemoveBlocked
<1>3. Distinct(semq[s]) /\ semq[s] \in Seq(Pcbs)
  BY <1>1 DEF PlaceInv, ProcessPartition, Partition
<1>4. /\ h \in ToSet(semq[s]) /\ ToSet(Tail(semq[s])) = ToSet(semq[s]) \ {h}
      /\ Distinct(Tail(semq[s])) /\ h \in Pcbs
  BY <1>3, TailToSet, ToSetProperties
<1> HIDE DEF h
<1>5. p_semAdd[h] = s
  BY <1>4 DEF PlaceInv, SemAddMatchesQueue
<1>6. \A t \in AllSems : ToSet(semq'[t]) = ToSet(semq[t]) \ {h}
  <2> TAKE t \in AllSems
  <2>1. CASE t = s  BY <2>1, <1>1, <1>2, <1>4
  <2>2. CASE t # s
    <3>1. h \notin ToSet(semq[t])  BY <2>2, <1>4, <1>5 DEF PlaceInv, SemAddMatchesQueue
    <3> QED  BY <3>1, <2>2, <1>1, <1>2
  <2> QED  BY <2>1, <2>2
<1>7. \A t \in AllSems : Distinct(semq'[t])
  BY <1>1, <1>2, <1>4 DEF PlaceInv, ProcessPartition, Partition
<1>8. Queued(semq') = Queued(semq) \ {h} /\ h \in Queued(semq)
  BY <1>4, <1>6 DEF Queued
<1>9. SemAddMatchesQueue'
  <2> SUFFICES ASSUME NEW p \in Pcbs, NEW t \in AllSems
               PROVE  p_semAdd'[p] = t <=> p \in ToSet(semq'[t])
    BY DEF SemAddMatchesQueue
  <2>1. CASE p = h  BY <2>1, <1>1, <1>2, <1>6
  <2>2. CASE p # h
    BY <2>2, <1>1, <1>2, <1>6 DEF PlaceInv, SemAddMatchesQueue
  <2> QED  BY <2>1, <2>2
<1>10. Dying = {}
  BY DEF Dying, ToSet
<1>11. Partition(procQLow, procQHigh, semq, pcbFree, {}, Running)
  BY <1>10 DEF PlaceInv, ProcessPartition
<1>12. h \notin Running /\ Partition(procQLow, procQHigh, semq', pcbFree, {}, Running \cup {h})
  BY <1>7, <1>8, <1>11, <1>4 DEF Partition, Blocked
<1> QED  BY <1>4, <1>9, <1>12 DEF h

\* A running process is nowhere else.
LEMMA RunningPlaces ==
  ASSUME PlaceInv, KernelAssumption, mode = "user"
  PROVE  /\ currentProcess \in Pcbs /\ Running = {currentProcess} /\ Dying = {}
         /\ killStack = <<>>
         /\ Partition(procQLow, procQHigh, semq, pcbFree, {}, {} \cup {currentProcess})
<1>1. currentProcess \in Pcbs /\ killStack = <<>> /\ NULL \notin Pcbs
  BY DEF PlaceInv, TypeOK, KernelAssumption
<1>2. Dying = {}
  BY <1>1 DEF Dying, ToSet
<1>3. Running = {currentProcess}
  BY <1>1, <1>2 DEF Running
<1>4. {} \cup {currentProcess} = {currentProcess}
  OBVIOUS
<1> QED  BY <1>1, <1>2, <1>3, <1>4 DEF PlaceInv, ProcessPartition

\* The SEMDs are never exhausted: there are as many as PCBs, every active one
\* holds a blocked process of its own, and the caller is not blocked.
LEMMA SemdsSuffice ==
  ASSUME PlaceInv, KernelAssumption, mode = "user", NEW s \in AllSems
  PROVE  SemdAvailable(s)
<1> DEFINE active == {t \in AllSems : semq[t] # <<>>}
           others == Pcbs \ {currentProcess}
           f == [t \in active |-> Head(semq[t])]
<1>1. IsFiniteSet(others) /\ Cardinality(others) = Cardinality(Pcbs) - 1
      /\ Cardinality(Pcbs) \in Nat
  BY RunningPlaces, FS_RemoveElement, FS_CardinalityType DEF KernelAssumption
<1>2. ASSUME NEW t \in active
      PROVE  /\ Head(semq[t]) \in ToSet(semq[t]) /\ Head(semq[t]) \in Pcbs
             /\ p_semAdd[Head(semq[t])] = t
  <2>1. semq[t] \in Seq(Pcbs) /\ semq[t] # <<>>
    BY DEF PlaceInv, TypeOK
  <2>2. Head(semq[t]) \in ToSet(semq[t]) /\ Head(semq[t]) \in Pcbs
    BY <2>1, ToSetProperties
  <2> QED  BY <2>2 DEF PlaceInv, SemAddMatchesQueue
<1>3. ASSUME NEW t \in active PROVE f[t] \in others
  <2>1. Head(semq[t]) \in Queued(semq)
    BY <1>2 DEF Queued
  <2>2. Head(semq[t]) # currentProcess
    BY <2>1, RunningPlaces DEF Partition
  <2> QED  BY <1>2, <2>2
<1>4. \A t, u \in active : f[t] = f[u] => t = u
  BY <1>2
<1>5. f \in Injection(active, others)
  BY <1>3, <1>4 DEF Injection, IsInjective
<1>6. IsFiniteSet(active) /\ Cardinality(active) <= Cardinality(others)
  BY <1>1, <1>5, FS_Injection
<1>7. Cardinality(active) \in Nat
  BY <1>6, FS_CardinalityType
<1>8. Cardinality(active) < Cardinality(Pcbs)
  BY <1>1, <1>6, <1>7
<1> QED  BY <1>8 DEF SemdAvailable

\* insertBlocked moves the current process to the queue of s.
LEMMA BlockPlaces ==
  ASSUME PlaceInv, KernelAssumption, mode = "user", NEW s \in AllSems,
         semq' = [semq EXCEPT ![s] = Append(semq[s], currentProcess)],
         p_semAdd' = [p_semAdd EXCEPT ![currentProcess] = s]
  PROVE  /\ Partition(procQLow, procQHigh, semq', pcbFree, {}, {})
         /\ SemAddMatchesQueue'
<1> DEFINE c == currentProcess
<1>1. /\ semq \in [AllSems -> Seq(Pcbs)] /\ p_semAdd \in [Pcbs -> AllSems \cup {NULL}]
      /\ c \in Pcbs
  BY RunningPlaces DEF PlaceInv, TypeOK
<1>2. Partition(procQLow, procQHigh, semq, pcbFree, {}, {} \cup {c})
  BY RunningPlaces
<1> HIDE DEF c
<1>3. \A t \in AllSems : c \notin ToSet(semq[t]) /\ Distinct(semq[t])
  BY <1>1, <1>2 DEF Partition, Queued
<1>4. /\ ToSet(Append(semq[s], c)) = ToSet(semq[s]) \cup {c}
      /\ Distinct(Append(semq[s], c))
  BY <1>1, <1>3, AppendToSet
<1>5. /\ ToSet(semq'[s]) = ToSet(semq[s]) \cup {c}
      /\ \A t \in AllSems : t # s => ToSet(semq'[t]) = ToSet(semq[t])
      /\ \A t \in AllSems : Distinct(semq'[t])
  BY <1>1, <1>3, <1>4 DEF c
<1>6. Queued(semq') = Queued(semq) \cup {c}
  BY <1>1, <1>5 DEF Queued
<1>7. Partition(procQLow, procQHigh, semq', pcbFree, {}, {})
  BY <1>2, <1>5, <1>6 DEF Partition
<1>8. SemAddMatchesQueue'
  <2> SUFFICES ASSUME NEW p \in Pcbs, NEW t \in AllSems
               PROVE  p_semAdd'[p] = t <=> p \in ToSet(semq'[t])
    BY DEF SemAddMatchesQueue
  <2>1. p_semAdd'[p] = IF p = c THEN s ELSE p_semAdd[p]
    BY <1>1 DEF c
  <2>a. p \in ToSet(semq'[t]) <=> p \in ToSet(semq[t]) \/ (t = s /\ p = c)
    <3>1. CASE t = s  BY <3>1, <1>5
    <3>2. CASE t # s  BY <3>2, <1>5
    <3> QED  BY <3>1, <3>2
  <2>b. p_semAdd[p] = t <=> p \in ToSet(semq[t])
    BY DEF PlaceInv, SemAddMatchesQueue
  <2>2. CASE p = c  BY <2>1, <2>2, <2>a, <1>3
  <2>3. CASE p # c  BY <2>1, <2>3, <2>a, <2>b
  <2> QED  BY <2>2, <2>3
<1> QED  BY <1>7, <1>8

\* An activation of kill() takes its process out of wherever it was.
LEMMA EnterKillPlaces ==
  ASSUME PlaceInv, KernelAssumption, mode \in {"user", "kill"},
         NEW p \in Pcbs, p \notin pcbFree, p \notin Dying, EnterKill(p)
  PROVE  /\ ProcessPartition' /\ SemAddMatchesQueue' /\ ReadyByPriority' /\ KillUnlinks'
         /\ DeadDetached'
<1>1. /\ procQLow \in Seq(Pcbs) /\ procQHigh \in Seq(Pcbs)
      /\ semq \in [AllSems -> Seq(Pcbs)] /\ p_semAdd \in [Pcbs -> AllSems \cup {NULL}]
      /\ killStack \in Seq(Pcbs) /\ p_parent \in [Pcbs -> Pcbs \cup {NULL}]
      /\ pcbFree \subseteq Pcbs
      /\ attr[p].p_prio \in {PROCESS_PRIO_LOW, PROCESS_PRIO_HIGH}
      /\ PROCESS_PRIO_LOW # PROCESS_PRIO_HIGH /\ NULL \notin AllSems
  BY DEF PlaceInv, TypeOK, KernelAssumption, AttrType, PROCESS_PRIO_LOW, PROCESS_PRIO_HIGH
<1>2. /\ Partition(procQLow, procQHigh, semq, pcbFree, Dying, Running) /\ Distinct(killStack)
  BY DEF PlaceInv, ProcessPartition
<1>3. Distinct(procQLow) /\ Distinct(procQHigh) /\ \A s \in AllSems : Distinct(semq[s])
  BY <1>2 DEF Partition
<1>4. /\ mode' = "kill" /\ killStack' = Append(killStack, p)
      /\ p_parent' = [p_parent EXCEPT ![p] = NULL]
      /\ UNCHANGED <<pcbFree, currentProcess, attr>>
  BY DEF EnterKill
<1>5. Dying' = Dying \cup {p} /\ Distinct(killStack')
  BY <1>1, <1>2, <1>4, AppendToSet DEF Dying
<1>6. Running' = Running \ {p}
  BY <1>4, <1>5 DEF Running
<1>7. /\ ToSet(procQLow') = ToSet(procQLow) \ {p} /\ Distinct(procQLow')
      /\ ToSet(procQHigh') = ToSet(procQHigh) \ {p} /\ Distinct(procQHigh')
      /\ \A s \in AllSems : ToSet(semq'[s]) = ToSet(semq[s]) \ {p} /\ Distinct(semq'[s])
      /\ p_semAdd' = [p_semAdd EXCEPT ![p] = NULL]
  <2>1. CASE p_semAdd[p] # NULL
    <3> DEFINE s == p_semAdd[p]
    <3>1. s \in AllSems /\ semq' = [semq EXCEPT ![s] = Without(semq[s], p)]
          /\ p_semAdd' = [p_semAdd EXCEPT ![p] = NULL]
          /\ UNCHANGED <<procQLow, procQHigh>>
      BY <2>1, <1>1 DEF EnterKill
    <3>2. p \in ToSet(semq[s])
      BY <3>1 DEF PlaceInv, SemAddMatchesQueue
    <3>3. p \in Queued(semq)
      BY <3>1, <3>2 DEF Queued
    <3>4. p \notin ToSet(procQLow) /\ p \notin ToSet(procQHigh)
      BY <3>3, <1>2 DEF Partition
    <3>5. \A t \in AllSems : t # s => p \notin ToSet(semq[t])
      BY DEF PlaceInv, SemAddMatchesQueue
    <3> HIDE DEF s
    <3>6. ToSet(Without(semq[s], p)) = ToSet(semq[s]) \ {p} /\ Distinct(Without(semq[s], p))
      BY <3>1, <1>1, <1>3, OutProcQToSet
    <3>7. \A t \in AllSems : ToSet(semq'[t]) = ToSet(semq[t]) \ {p} /\ Distinct(semq'[t])
      BY <3>1, <3>5, <3>6, <1>1, <1>3
    <3> QED  BY <3>1, <3>4, <3>7, <1>3
  <2>2. CASE p_semAdd[p] = NULL
    <3>1. OutPrioProcQ(p) /\ UNCHANGED <<semq, p_semAdd>>
      BY <2>2 DEF EnterKill
    <3>2. \A t \in AllSems : p \notin ToSet(semq[t])
      BY <2>2, <1>1 DEF PlaceInv, SemAddMatchesQueue
    <3>3. p_semAdd' = [p_semAdd EXCEPT ![p] = NULL]
      BY <3>1, <2>2, <1>1
    <3>4. \A q \in {procQLow, procQHigh} :
            ToSet(Without(q, p)) = ToSet(q) \ {p} /\ Distinct(Without(q, p))
      BY <1>1, <1>3, OutProcQToSet
    <3>5. CASE attr[p].p_prio = PROCESS_PRIO_LOW
      <4>1. p \notin ToSet(procQHigh)
        BY <3>5, <1>1 DEF PlaceInv, ReadyByPriority, ByPriority
      <4>2. procQLow' = Without(procQLow, p) /\ procQHigh' = procQHigh
        BY <3>1, <3>5, <1>1 DEF OutPrioProcQ
      <4>3. /\ ToSet(procQLow') = ToSet(procQLow) \ {p} /\ Distinct(procQLow')
            /\ ToSet(procQHigh') = ToSet(procQHigh) \ {p} /\ Distinct(procQHigh')
        BY <3>4, <4>1, <4>2, <1>3
      <4>4. \A s \in AllSems : ToSet(semq'[s]) = ToSet(semq[s]) \ {p} /\ Distinct(semq'[s])
        BY <3>1, <3>2, <1>3
      <4> QED  BY <3>3, <4>3, <4>4
    <3>6. CASE attr[p].p_prio = PROCESS_PRIO_HIGH
      <4>1. p \notin ToSet(procQLow)
        BY <3>6, <1>1 DEF PlaceInv, ReadyByPriority, ByPriority
      <4>2. procQHigh' = Without(procQHigh, p) /\ procQLow' = procQLow
        BY <3>1, <3>6, <1>1 DEF OutPrioProcQ
      <4>3. /\ ToSet(procQLow') = ToSet(procQLow) \ {p} /\ Distinct(procQLow')
            /\ ToSet(procQHigh') = ToSet(procQHigh) \ {p} /\ Distinct(procQHigh')
        BY <3>4, <4>1, <4>2, <1>3
      <4>4. \A s \in AllSems : ToSet(semq'[s]) = ToSet(semq[s]) \ {p} /\ Distinct(semq'[s])
        BY <3>1, <3>2, <1>3
      <4> QED  BY <3>3, <4>3, <4>4
    <3> QED  BY <3>5, <3>6, <1>1
  <2> QED  BY <2>1, <2>2
<1>8. Queued(semq') = Queued(semq) \ {p}
  BY <1>7 DEF Queued
<1>9. Partition(procQLow', procQHigh', semq', pcbFree', Dying', Running')
  <2>1. Partition(procQLow', procQHigh', semq', pcbFree, Dying \cup {p}, Running \ {p})
    BY <1>2, <1>7, <1>8 DEF Partition
  <2> QED  BY <2>1, <1>4, <1>5, <1>6
<1>10. SemAddMatchesQueue'
  <2> SUFFICES ASSUME NEW q \in Pcbs, NEW t \in AllSems
               PROVE  p_semAdd'[q] = t <=> q \in ToSet(semq'[t])
    BY DEF SemAddMatchesQueue
  <2> QED  BY <1>1, <1>7 DEF PlaceInv, SemAddMatchesQueue
<1>11. ReadyByPriority'
  BY <1>4, <1>7 DEF PlaceInv, ReadyByPriority, ByPriority
<1>12. DeadDetached'
  BY <1>1, <1>4, <1>5 DEF PlaceInv, DeadDetached
<1> QED  BY <1>4, <1>5, <1>9, <1>10, <1>11, <1>12 DEF ProcessPartition, KillUnlinks

\* The end of an activation frees its process, which no queue holds.
LEMMA KillReturnPlaces ==
  ASSUME PlaceInv, KernelAssumption, KillReturn
  PROVE  /\ ProcessPartition' /\ SemAddMatchesQueue' /\ ReadyByPriority' /\ KillUnlinks'
         /\ DeadDetached'
<1> DEFINE top == Last(killStack)
           cur == IF currentProcess = top THEN NULL ELSE currentProcess
<1>1. /\ procQLow \in Seq(Pcbs) /\ procQHigh \in Seq(Pcbs) /\ killStack \in Seq(Pcbs)
      /\ mode = "kill" /\ killStack # <<>> /\ currentProcess \in Pcbs \cup {NULL}
      /\ NULL \notin Pcbs /\ plt \in BOOLEAN
  BY DEF PlaceInv, TypeOK, KillReturn, KernelAssumption
<1>2. /\ Partition(procQLow, procQHigh, semq, pcbFree, Dying, Running) /\ Distinct(killStack)
  BY DEF PlaceInv, ProcessPartition
<1>3. /\ top \in Dying /\ ToSet(Front(killStack)) = Dying \ {top} /\ Distinct(Front(killStack))
      /\ (Len(killStack) > 1 <=> Front(killStack) # <<>>) /\ top \in Pcbs
  BY <1>1, <1>2, FrontLastToSet, ToSetProperties DEF Dying
<1>4. /\ killStack' = Front(killStack) /\ pcbFree' = pcbFree \cup {top}
      /\ UNCHANGED <<semq, p_semAdd, p_parent, attr>>
  BY DEF KillReturn, FreePcb
<1>5. top \notin ToSet(procQLow) \cup ToSet(procQHigh)
  BY <1>2, <1>3 DEF Partition
<1>6. Running = IF currentProcess = NULL THEN {} ELSE {currentProcess} \ Dying
  BY <1>1 DEF Running
<1>7. Dying' = Dying \ {top} /\ Distinct(killStack')
  BY <1>3, <1>4 DEF Dying
<1> HIDE DEF top
<1>8. Partition(procQLow, procQHigh, semq', pcbFree', Dying', Running)
  <2>1. Partition(procQLow, procQHigh, semq, pcbFree \cup {top}, Dying \ {top}, Running)
    BY <1>2, <1>3 DEF Partition
  <2> QED  BY <2>1, <1>4, <1>7
<1>9. SemAddMatchesQueue' /\ DeadDetached' /\ ByPriority(procQLow, procQHigh, attr')
  <2>1. SemAddMatchesQueue'
    BY <1>4 DEF PlaceInv, SemAddMatchesQueue
  <2>2. DeadDetached'
    BY <1>3, <1>4, <1>7 DEF PlaceInv, DeadDetached
  <2>3. ByPriority(procQLow, procQHigh, attr')
    BY <1>4 DEF PlaceInv, ReadyByPriority
  <2> QED  BY <2>1, <2>2, <2>3
<1>10. \/ /\ mode' \in {"kill", "user"} /\ currentProcess' = cur
          /\ procQLow' = procQLow /\ procQHigh' = procQHigh
       \/ /\ Front(killStack) = <<>> /\ cur = NULL
          /\ Scheduler(procQLow, procQHigh, forceLowQ, cur, plt)
  BY <1>3, <1>5 DEF KillReturn, top
<1>11. CASE /\ mode' \in {"kill", "user"} /\ currentProcess' = cur
            /\ procQLow' = procQLow /\ procQHigh' = procQHigh
  <2>1. Running' = Running
    BY <1>1, <1>3, <1>6, <1>7, <1>11 DEF Running
  <2> QED  BY <1>7, <1>8, <1>9, <1>11, <2>1 DEF ProcessPartition, ReadyByPriority, KillUnlinks
<1>12. CASE /\ Front(killStack) = <<>> /\ cur = NULL
            /\ Scheduler(procQLow, procQHigh, forceLowQ, cur, plt)
  <2>1. Running = {}
    BY <1>1, <1>3, <1>6, <1>12
  <2>2. killStack' = <<>> /\ Dying' = {}
    BY <1>4, <1>12 DEF Dying, ToSet
  <2>3. Partition(procQLow, procQHigh, semq', pcbFree', {}, {})
    BY <1>8, <2>1, <2>2
  <2> HIDE DEF cur
  <2>4. ProcessPartition' /\ ReadyByPriority' /\ KillUnlinks'
    BY <1>1, <1>9, <1>12, <2>2, <2>3, DispatchPlaces
  <2> QED  BY <1>9, <2>4
<1> QED  BY <1>10, <1>11, <1>12

\* After an interrupt the interrupted process resumes or the scheduler runs.
LEMMA ReturnFromIntPlaces ==
  ASSUME PlaceInv, KernelAssumption, mode \in {"user", "wait", "tick"},
         NEW lo \in Seq(Pcbs), NEW hi \in Seq(Pcbs), ReturnFromInt(lo, hi),
         Partition(lo, hi, semq', pcbFree, {}, Running), ByPriority(lo, hi, attr),
         UNCHANGED <<pcbFree, attr, killStack>>
  PROVE  ProcessPartition' /\ ReadyByPriority' /\ KillUnlinks'
<1>1. killStack = <<>> /\ Dying = {} /\ Distinct(killStack) /\ plt \in BOOLEAN
  BY DEF PlaceInv, TypeOK, Dying, ToSet, Distinct
<1>2. CASE currentProcess = NULL /\ Scheduler(lo, hi, forceLowQ, NULL, plt)
  <2>1. Running = {}
    BY <1>2 DEF Running
  <2>2. Partition(lo, hi, semq', pcbFree', {}, {}) /\ ByPriority(lo, hi, attr') /\ killStack' = <<>>
    BY <1>1, <2>1
  <2> QED  BY <1>2, <2>2, DispatchPlaces
<1>3. CASE /\ procQLow' = lo /\ procQHigh' = hi /\ mode' = "user"
           /\ UNCHANGED currentProcess
  <2>1. Dying' = {} /\ Running' = Running
    BY <1>1, <1>3 DEF Running, Dying
  <2> QED  BY <1>1, <1>3, <2>1 DEF ProcessPartition, ReadyByPriority, KillUnlinks
<1> QED  BY <1>2, <1>3 DEF ReturnFromInt

\* main leaves one process, which runs, and all other PCBs free.
LEMMA InitPlaces == KernelAssumption /\ Init => PlaceInv
<1> SUFFICES ASSUME KernelAssumption, Init PROVE PlaceInv
  OBVIOUS
<1>1. TypeOK
  BY InitType
<1>2. /\ procQLow = <<>> /\ procQHigh = <<>> /\ killStack = <<>>
      /\ semq = [s \in AllSems |-> <<>>] /\ p_semAdd = [p \in Pcbs |-> NULL]
      /\ p_parent = [p \in Pcbs |-> NULL] /\ attr = [p \in Pcbs |-> FirstAttr]
      /\ currentProcess \in Pcbs /\ pcbFree = Pcbs \ {currentProcess} /\ mode = "user"
      /\ NULL \notin Pcbs /\ NULL \notin AllSems
  BY DEF Init, KernelAssumption
<1>3. ToSet(<<>>) = {} /\ Distinct(<<>>)
  BY DEF ToSet, Distinct
<1>4. Dying = {} /\ Running = {currentProcess} /\ Queued(semq) = {}
  BY <1>2, <1>3 DEF Dying, Running, Queued
<1>5. ProcessPartition
  BY <1>2, <1>3, <1>4 DEF ProcessPartition, Partition
<1>6. SemAddMatchesQueue
  BY <1>2, <1>3 DEF SemAddMatchesQueue
<1>7. ReadyByPriority /\ KillUnlinks
  BY <1>2, <1>3 DEF ReadyByPriority, ByPriority, KillUnlinks
<1>8. QuietAttrs
  BY <1>2 DEF QuietAttrs, FirstAttr, PROCESS_PRIO_LOW, PROCESS_PRIO_HIGH
<1>9. DeadDetached
  BY <1>2, <1>4 DEF DeadDetached
<1> QED  BY <1>1, <1>5, <1>6, <1>7, <1>8, <1>9 DEF PlaceInv

-----------------------------------------------------------------------------
(* The actions *)

\* Waking the first process blocked on s, outside kill().
LEMMA WakePlaces ==
  ASSUME PlaceInv, KernelAssumption, NEW s \in AllSems, semq[s] # <<>>, RemoveBlocked(s),
         killStack = <<>>
  PROVE  LET h == Head(semq[s])
         IN  /\ LowWith(h) \in Seq(Pcbs) /\ HighWith(h) \in Seq(Pcbs)
             /\ Partition(LowWith(h), HighWith(h), semq', pcbFree, {}, Running)
             /\ ByPriority(LowWith(h), HighWith(h), attr)
             /\ SemAddMatchesQueue'
<1> DEFINE h == Head(semq[s])
<1>1. /\ h \in Pcbs /\ h \notin Running /\ SemAddMatchesQueue'
      /\ Partition(procQLow, procQHigh, semq', pcbFree, {}, Running \cup {h})
  BY RemovePlaces
<1> HIDE DEF h
<1>2. /\ LowWith(h) \in Seq(Pcbs) /\ HighWith(h) \in Seq(Pcbs)
      /\ Partition(LowWith(h), HighWith(h), semq', pcbFree, {}, Running)
      /\ ByPriority(LowWith(h), HighWith(h), attr)
  <2>1. TypeOK /\ ReadyByPriority
    BY DEF PlaceInv
  <2> QED  BY <1>1, <2>1, InsertPlaces
<1> QED  BY <1>1, <1>2 DEF h

\* P and V move the caller or the first process that waits, from one place to another.
LEMMA SemOpPlaces ==
  ASSUME PlaceInv, KernelAssumption, mode = "user", NEW s \in AllSems,
         Passeren(s) \/ Verhogen(s),
         UNCHANGED <<pcbFree, attr, killStack>>
  PROVE  ProcessPartition' /\ SemAddMatchesQueue' /\ ReadyByPriority' /\ KillUnlinks'
<1>1. /\ currentProcess \in Pcbs /\ Running = {currentProcess} /\ Dying = {}
      /\ killStack = <<>>
  BY RunningPlaces
<1>2. /\ procQLow \in Seq(Pcbs) /\ procQHigh \in Seq(Pcbs)
      /\ ByPriority(procQLow, procQHigh, attr) /\ ProcessPartition /\ SemAddMatchesQueue
  BY DEF PlaceInv, TypeOK, ReadyByPriority
<1>3. CASE Suspend(s)
  <2>1. /\ semq' = [semq EXCEPT ![s] = Append(semq[s], currentProcess)]
        /\ p_semAdd' = [p_semAdd EXCEPT ![currentProcess] = s]
        /\ Scheduler(procQLow, procQHigh, forceLowQ, currentProcess, plt)
    BY <1>3, SemdsSuffice DEF Suspend
  <2>2. Partition(procQLow, procQHigh, semq', pcbFree, {}, {}) /\ SemAddMatchesQueue'
    BY <2>1, BlockPlaces
  <2>3. /\ Partition(procQLow, procQHigh, semq', pcbFree', {}, {}) /\ killStack' = <<>>
        /\ ByPriority(procQLow, procQHigh, attr')
    BY <2>2, <1>1, <1>2
  <2> QED  BY <2>1, <2>2, <2>3, <1>2, DispatchPlaces
<1>4. CASE semq[s] # <<>> /\ RemoveBlocked(s) /\ InsertPrioProcQ(Head(semq[s]))
           /\ UNCHANGED <<currentProcess, mode>>
  <2> DEFINE h == Head(semq[s])
  <2>1. /\ Partition(LowWith(h), HighWith(h), semq', pcbFree, {}, Running)
        /\ ByPriority(LowWith(h), HighWith(h), attr) /\ SemAddMatchesQueue'
    BY <1>1, <1>4, WakePlaces
  <2>2. procQLow' = LowWith(h) /\ procQHigh' = HighWith(h)
    BY <1>4 DEF InsertPrioProcQ
  <2>3. Dying' = {} /\ Running' = Running /\ Distinct(killStack')
    BY <1>1, <1>2, <1>4 DEF Dying, Running, ProcessPartition
  <2> HIDE DEF h
  <2>4. ReadyByPriority'
    BY <2>1, <2>2 DEF ReadyByPriority
  <2>5. ProcessPartition'
    BY <2>1, <2>2, <2>3 DEF ProcessPartition
  <2> QED  BY <1>4, <2>1, <2>4, <2>5 DEF KillUnlinks
<1>5. CASE UNCHANGED <<semq, p_semAdd, procQLow, procQHigh, currentProcess, mode>>
  BY <1>2, <1>5 DEF PlaceInv, ProcessPartition, SemAddMatchesQueue, ReadyByPriority, KillUnlinks,
     Dying, Running
<1> QED  BY <1>3, <1>4, <1>5 DEF Passeren, Verhogen, SemOp

\* NSYS1 takes a PCB from the free list to the ready queue of its priority.
LEMMA CreatePlaces ==
  ASSUME PlaceInv, KernelAssumption, QuietHigh, mode = "user",
         NEW p \in pcbFree, NEW a \in Attrs, NewProcess(p, a)
  PROVE  /\ ProcessPartition' /\ SemAddMatchesQueue' /\ ReadyByPriority' /\ KillUnlinks'
         /\ QuietAttrs' /\ DeadDetached'
<1>1. /\ procQLow \in Seq(Pcbs) /\ procQHigh \in Seq(Pcbs) /\ p \in Pcbs
      /\ p_semAdd \in [Pcbs -> AllSems \cup {NULL}] /\ p_parent \in [Pcbs -> Pcbs \cup {NULL}]
      /\ attr \in [Pcbs -> AttrType] /\ a \in AttrType /\ NULL \notin AllSems
      /\ a.p_prio \in {PROCESS_PRIO_LOW, PROCESS_PRIO_HIGH}
      /\ PROCESS_PRIO_LOW # PROCESS_PRIO_HIGH
  BY DEF PlaceInv, TypeOK, KernelAssumption, AttrType, PROCESS_PRIO_LOW, PROCESS_PRIO_HIGH
<1>2. /\ currentProcess \in Pcbs /\ Running = {currentProcess} /\ Dying = {}
  BY RunningPlaces
<1>3. Partition(procQLow, procQHigh, semq, pcbFree, {}, Running) /\ Distinct(killStack)
  BY <1>2 DEF PlaceInv, ProcessPartition
<1>4. /\ pcbFree' = pcbFree \ {p} /\ attr' = [attr EXCEPT ![p] = a]
      /\ p_parent' = [p_parent EXCEPT ![p] = currentProcess]
      /\ p_semAdd' = [p_semAdd EXCEPT ![p] = NULL]
      /\ procQLow'  = IF a.p_prio = PROCESS_PRIO_LOW  THEN Append(procQLow, p)  ELSE procQLow
      /\ procQHigh' = IF a.p_prio = PROCESS_PRIO_HIGH THEN Append(procQHigh, p) ELSE procQHigh
      /\ UNCHANGED <<semq, currentProcess, mode, killStack>>
  BY DEF NewProcess
<1>5. Dying' = {} /\ Running' = Running /\ Distinct(killStack')
  BY <1>2, <1>3, <1>4 DEF Dying, Running
<1>6. /\ p \notin ToSet(procQLow) /\ p \notin ToSet(procQHigh) /\ p \notin Queued(semq)
      /\ Distinct(procQLow) /\ Distinct(procQHigh)
  BY <1>3 DEF Partition
<1>7. \A q \in {procQLow, procQHigh} :
        ToSet(Append(q, p)) = ToSet(q) \cup {p} /\ Distinct(Append(q, p))
  BY <1>1, <1>6, AppendToSet
<1>8. attr'[p] = a /\ \A q \in Pcbs : q # p => attr'[q] = attr[q]
  BY <1>1, <1>4
<1>9. ToSet(procQLow) \subseteq Pcbs /\ ToSet(procQHigh) \subseteq Pcbs
  BY <1>1, ToSetProperties
<1>10. ByPriority(procQLow, procQHigh, attr')
  BY <1>6, <1>8, <1>9 DEF PlaceInv, ReadyByPriority, ByPriority
<1>11. ASSUME a.p_prio = PROCESS_PRIO_LOW PROVE ProcessPartition' /\ ReadyByPriority'
  <2>1. procQLow' = Append(procQLow, p) /\ procQHigh' = procQHigh
    BY <1>1, <1>4, <1>11
  <2>2. ToSet(procQLow') = ToSet(procQLow) \cup {p} /\ Distinct(procQLow')
    BY <2>1, <1>7
  <2>3. Partition(procQLow', procQHigh', semq, pcbFree \ {p}, {}, Running)
    BY <1>3, <1>6, <2>1, <2>2 DEF Partition
  <2>4. ReadyByPriority'
    BY <1>8, <1>10, <1>11, <2>1, <2>2 DEF ReadyByPriority, ByPriority
  <2>5. Partition(procQLow', procQHigh', semq', pcbFree', Dying', Running')
    BY <1>4, <1>5, <2>3
  <2> QED  BY <1>5, <2>4, <2>5 DEF ProcessPartition
<1>12. ASSUME a.p_prio = PROCESS_PRIO_HIGH PROVE ProcessPartition' /\ ReadyByPriority'
  <2>1. procQHigh' = Append(procQHigh, p) /\ procQLow' = procQLow
    BY <1>1, <1>4, <1>12
  <2>2. ToSet(procQHigh') = ToSet(procQHigh) \cup {p} /\ Distinct(procQHigh')
    BY <2>1, <1>7
  <2>3. Partition(procQLow', procQHigh', semq, pcbFree \ {p}, {}, Running)
    BY <1>3, <1>6, <2>1, <2>2 DEF Partition
  <2>4. ReadyByPriority'
    BY <1>8, <1>10, <1>12, <2>1, <2>2 DEF ReadyByPriority, ByPriority
  <2>5. Partition(procQLow', procQHigh', semq', pcbFree', Dying', Running')
    BY <1>4, <1>5, <2>3
  <2> QED  BY <1>5, <2>4, <2>5 DEF ProcessPartition
<1>13. ProcessPartition' /\ ReadyByPriority'
  BY <1>1, <1>11, <1>12
<1>14. SemAddMatchesQueue'
  <2> SUFFICES ASSUME NEW q \in Pcbs, NEW t \in AllSems
               PROVE  p_semAdd'[q] = t <=> q \in ToSet(semq'[t])
    BY DEF SemAddMatchesQueue
  <2>1. CASE q = p  BY <2>1, <1>1, <1>4, <1>6 DEF Queued
  <2>2. CASE q # p  BY <2>2, <1>1, <1>4 DEF PlaceInv, SemAddMatchesQueue
  <2> QED  BY <2>1, <2>2
<1>15. QuietAttrs'
  BY <1>8 DEF PlaceInv, QuietAttrs, QuietHigh
<1>16. DeadDetached'
  BY <1>1, <1>2, <1>4, <1>5 DEF PlaceInv, TypeOK, DeadDetached
<1>17. KillUnlinks'
  BY <1>4 DEF PlaceInv, KillUnlinks
<1> QED  BY <1>13, <1>14, <1>15, <1>16, <1>17

\* Every handler keeps every process in one place.
LEMMA NextPlaces ==
  KernelAssumption /\ QuietHigh /\ PlaceInv /\ [Next]_vars => PlaceInv'
<1> SUFFICES ASSUME KernelAssumption, QuietHigh, PlaceInv, [Next]_vars PROVE PlaceInv'
  OBVIOUS
<1>1. TypeOK'
  BY NextType DEF PlaceInv
<1> SUFFICES /\ ProcessPartition' /\ SemAddMatchesQueue' /\ ReadyByPriority'
             /\ KillUnlinks' /\ QuietAttrs' /\ DeadDetached'
  BY <1>1 DEF PlaceInv
<1>2. ASSUME UNCHANGED attr PROVE QuietAttrs'
  BY <1>2 DEF PlaceInv, QuietAttrs
<1>3. ASSUME UNCHANGED <<pcbFree, killStack, p_parent>> PROVE DeadDetached'
  BY <1>3 DEF PlaceInv, DeadDetached, Dying
<1>4. CASE SysSemaphore
  <2>1. PICK s \in Sems : Passeren(s) \/ Verhogen(s)
    BY <1>4 DEF SysSemaphore
  <2>2. s \in AllSems /\ mode = "user" /\ UNCHANGED <<pcbFree, attr, killStack, p_parent>>
    BY <1>4 DEF SysSemaphore, AllSems
  <2> QED  BY <2>1, <2>2, <1>2, <1>3, SemOpPlaces
<1>5. CASE DoIoDevice
  <2>1. PICK d \in Devices : Passeren(d)
    BY <1>5 DEF DoIoDevice
  <2>2. d \in AllSems /\ mode = "user" /\ UNCHANGED <<pcbFree, attr, killStack, p_parent>>
    BY <1>5 DEF DoIoDevice, AllSems, SoftSems
  <2> QED  BY <2>1, <2>2, <1>2, <1>3, SemOpPlaces
<1>6. CASE WaitForClock
  <2>1. /\ Passeren(pseudoClockSem) /\ pseudoClockSem \in AllSems /\ mode = "user"
        /\ UNCHANGED <<pcbFree, attr, killStack, p_parent>>
    BY <1>6 DEF WaitForClock, AllSems, SoftSems
  <2> QED  BY <2>1, <1>2, <1>3, SemOpPlaces
<1>7. CASE CreateProcess
  <2>1. PICK p \in pcbFree, a \in Attrs : NewProcess(p, a)
    BY <1>7 DEF CreateProcess
  <2> QED  BY <1>7, <2>1, CreatePlaces DEF CreateProcess
<1>8. CASE Yield
  <2> DEFINE lo == LowWith(currentProcess)
             hi == HighWith(currentProcess)
             force == YieldForcesLow
  <2>1. Scheduler(lo, hi, force, currentProcess, plt)
    BY <1>8 DEF Yield
  <2>2. /\ mode = "user"
        /\ UNCHANGED <<semq, p_semAdd, pcbFree, attr, killStack, p_parent>>
    BY <1>8 DEF Yield
  <2>3. /\ currentProcess \in Pcbs /\ currentProcess \notin {} /\ killStack = <<>>
        /\ Partition(procQLow, procQHigh, semq, pcbFree, {}, {} \cup {currentProcess})
    BY <2>2, RunningPlaces
  <2>4. TypeOK /\ ReadyByPriority /\ SemAddMatchesQueue
    BY DEF PlaceInv
  <2>5. /\ lo \in Seq(Pcbs) /\ hi \in Seq(Pcbs)
        /\ Partition(lo, hi, semq, pcbFree, {}, {}) /\ ByPriority(lo, hi, attr)
    BY <2>3, <2>4, InsertPlaces
  <2> HIDE DEF lo, hi, force
  <2>6. /\ Partition(lo, hi, semq', pcbFree', {}, {}) /\ ByPriority(lo, hi, attr')
        /\ killStack' = <<>>
    BY <2>2, <2>3, <2>5
  <2>7. ProcessPartition' /\ ReadyByPriority' /\ KillUnlinks'
    BY <2>1, <2>5, <2>6, DispatchPlaces
  <2>8. SemAddMatchesQueue'
    BY <2>2, <2>4 DEF SemAddMatchesQueue
  <2> QED  BY <2>2, <2>7, <2>8, <1>2, <1>3
<1>9. CASE TerminateProcess
  <2>1. PICK p \in Pcbs :
          /\ p = currentProcess \/ p \in ToSet(procQLow) \cup ToSet(procQHigh) \/ p \in Queued(semq)
          /\ EnterKill(p)
    BY <1>9 DEF TerminateProcess, Queued
  <2>2. mode = "user" /\ UNCHANGED attr
    BY <1>9, <2>1 DEF TerminateProcess, EnterKill
  <2>3. p \notin pcbFree /\ p \notin Dying
    BY <2>1, <2>2, RunningPlaces DEF Partition
  <2> QED  BY <2>1, <2>2, <2>3, <1>2, EnterKillPlaces
<1>10. CASE PassUpOrDie
  <2>1. mode = "user" /\ EnterKill(currentProcess) /\ UNCHANGED attr
    BY <1>10 DEF PassUpOrDie, EnterKill
  <2>2. currentProcess \in Pcbs /\ currentProcess \notin pcbFree /\ currentProcess \notin Dying
    BY <2>1, RunningPlaces DEF Partition
  <2> QED  BY <2>1, <2>2, <1>2, EnterKillPlaces
<1>11. CASE PltInterrupt
  <2> DEFINE lo == Append(procQLow, currentProcess)
  <2>1. /\ mode = "user" /\ attr[currentProcess].im
        /\ Scheduler(lo, procQHigh, forceLowQ, currentProcess, FALSE)
        /\ UNCHANGED <<semq, p_semAdd, pcbFree, attr, killStack, p_parent>>
    BY <1>11 DEF PltInterrupt, Interruptible
  <2>2. /\ currentProcess \in Pcbs /\ killStack = <<>>
        /\ Partition(procQLow, procQHigh, semq, pcbFree, {}, {} \cup {currentProcess})
    BY <2>1, RunningPlaces
  <2>3. /\ procQLow \in Seq(Pcbs) /\ procQHigh \in Seq(Pcbs)
        /\ ByPriority(procQLow, procQHigh, attr) /\ SemAddMatchesQueue
        /\ attr[currentProcess].p_prio \in {PROCESS_PRIO_LOW, PROCESS_PRIO_HIGH}
    BY <2>2 DEF PlaceInv, TypeOK, ReadyByPriority, AttrType
  <2>4. attr[currentProcess].p_prio = PROCESS_PRIO_LOW
    BY <2>1, <2>2, <2>3 DEF PlaceInv, QuietAttrs
  <2>5. currentProcess \notin ToSet(procQLow) /\ Distinct(procQLow)
    BY <2>2 DEF Partition
  <2>6. /\ lo \in Seq(Pcbs) /\ ToSet(lo) = ToSet(procQLow) \cup {currentProcess} /\ Distinct(lo)
    BY <2>2, <2>3, <2>5, AppendToSet
  <2> HIDE DEF lo
  <2>7. Partition(lo, procQHigh, semq, pcbFree, {}, {}) /\ ByPriority(lo, procQHigh, attr)
    BY <2>2, <2>3, <2>4, <2>6 DEF Partition, ByPriority
  <2>8. /\ Partition(lo, procQHigh, semq', pcbFree', {}, {}) /\ ByPriority(lo, procQHigh, attr')
        /\ killStack' = <<>>
    BY <2>1, <2>2, <2>7
  <2>9. ProcessPartition' /\ ReadyByPriority' /\ KillUnlinks'
    BY <2>1, <2>3, <2>6, <2>8, DispatchPlaces
  <2>10. SemAddMatchesQueue'
    BY <2>1, <2>3 DEF SemAddMatchesQueue
  <2> QED  BY <2>1, <2>9, <2>10, <1>2, <1>3
<1>12. CASE ItInterrupt
  <2>1. /\ mode \in {"user", "wait"} /\ mode' = "tick"
        /\ UNCHANGED <<procQLow, procQHigh, semq, p_semAdd, p_parent, attr, pcbFree,
                       currentProcess, killStack>>
    BY <1>12 DEF ItInterrupt, Interruptible
  <2>2. Dying' = Dying /\ Running' = Running
    BY <2>1 DEF Dying, Running
  <2>3. ProcessPartition'
    BY <2>1, <2>2 DEF PlaceInv, ProcessPartition
  <2> QED  BY <2>1, <2>3, <1>2, <1>3
           DEF PlaceInv, SemAddMatchesQueue, ReadyByPriority, KillUnlinks
<1>13. CASE DeviceInterrupt
  <2>1. PICK d \in busy :
          \/ /\ semq[d] = <<>> /\ UNCHANGED <<semq, p_semAdd>>
             /\ ReturnFromInt(procQLow, procQHigh)
          \/ /\ semq[d] # <<>> /\ RemoveBlocked(d)
             /\ ReturnFromInt(LowWith(Head(semq[d])), HighWith(Head(semq[d])))
    BY <1>13 DEF DeviceInterrupt
  <2>2. /\ d \in AllSems /\ mode \in {"user", "wait", "tick"} /\ killStack = <<>>
        /\ UNCHANGED <<pcbFree, attr, killStack, p_parent>>
    BY <1>13 DEF PlaceInv, TypeOK, AllSems, SoftSems, DeviceInterrupt, Interruptible
  <2>3. CASE /\ UNCHANGED <<semq, p_semAdd>> /\ ReturnFromInt(procQLow, procQHigh)
    <3>1. Dying = {}
      BY <2>2 DEF Dying, ToSet
    <3>2. /\ procQLow \in Seq(Pcbs) /\ procQHigh \in Seq(Pcbs)
          /\ Partition(procQLow, procQHigh, semq', pcbFree, {}, Running)
          /\ ByPriority(procQLow, procQHigh, attr)
      BY <2>3, <3>1 DEF PlaceInv, TypeOK, ProcessPartition, ReadyByPriority
    <3>3. ProcessPartition' /\ ReadyByPriority' /\ KillUnlinks'
      BY <2>2, <2>3, <3>2, ReturnFromIntPlaces
    <3>4. SemAddMatchesQueue'
      BY <2>3 DEF PlaceInv, SemAddMatchesQueue
    <3> QED  BY <2>2, <3>3, <3>4, <1>2, <1>3
  <2>4. CASE /\ semq[d] # <<>> /\ RemoveBlocked(d)
             /\ ReturnFromInt(LowWith(Head(semq[d])), HighWith(Head(semq[d])))
    <3> DEFINE lo == LowWith(Head(semq[d]))
               hi == HighWith(Head(semq[d]))
    <3>1. /\ lo \in Seq(Pcbs) /\ hi \in Seq(Pcbs)
          /\ Partition(lo, hi, semq', pcbFree, {}, Running)
          /\ ByPriority(lo, hi, attr) /\ SemAddMatchesQueue'
      BY <2>2, <2>4, WakePlaces
    <3>2. ReturnFromInt(lo, hi)
      BY <2>4
    <3> HIDE DEF lo, hi
    <3>3. ProcessPartition' /\ ReadyByPriority' /\ KillUnlinks'
      BY <2>2, <3>1, <3>2, ReturnFromIntPlaces
    <3> QED  BY <2>2, <3>1, <3>3, <1>2, <1>3
  <2> QED  BY <2>1, <2>3, <2>4
<1>14. CASE KillChild
  <2>1. PICK c \in Children(Last(killStack)) : EnterKill(c)
    BY <1>14 DEF KillChild
  <2>2. mode = "kill" /\ UNCHANGED attr /\ c \in Pcbs /\ p_parent[c] = Last(killStack)
    BY <1>14, <2>1 DEF KillChild, EnterKill, Children
  <2>3. Last(killStack) \in Pcbs
    BY <2>2, FrontLastToSet, ToSetProperties DEF PlaceInv, TypeOK
  <2>4. c \notin pcbFree /\ c \notin Dying
    BY <2>2, <2>3 DEF PlaceInv, DeadDetached, KernelAssumption
  <2> QED  BY <2>1, <2>2, <2>4, <1>2, EnterKillPlaces
<1>15. CASE KillReturn
  <2>1. UNCHANGED attr
    BY <1>15 DEF KillReturn
  <2> QED  BY <1>15, <2>1, <1>2, KillReturnPlaces
<1>16. CASE ItWakeup
  <2> DEFINE h == Head(semq[pseudoClockSem])
  <2>1. /\ pseudoClockSem \in AllSems /\ semq[pseudoClockSem] # <<>>
        /\ RemoveBlocked(pseudoClockSem) /\ mode = "tick" /\ mode' = mode
        /\ UNCHANGED <<pcbFree, attr, killStack, p_parent, currentProcess>>
    BY <1>16 DEF ItWakeup, AllSems, SoftSems
  <2>2. procQLow' = LowWith(h) /\ procQHigh' = HighWith(h)
    BY <1>16 DEF ItWakeup, InsertPrioProcQ
  <2>3. killStack = <<>> /\ Distinct(killStack)
    BY <2>1 DEF PlaceInv, TypeOK, ProcessPartition
  <2>4. /\ Partition(LowWith(h), HighWith(h), semq', pcbFree, {}, Running)
        /\ ByPriority(LowWith(h), HighWith(h), attr) /\ SemAddMatchesQueue'
    BY <2>1, <2>3, WakePlaces
  <2>5. Dying' = {} /\ Running' = Running /\ Distinct(killStack')
    BY <2>1, <2>3 DEF Dying, Running, ToSet
  <2> HIDE DEF h
  <2>6. ProcessPartition' /\ ReadyByPriority'
    BY <2>1, <2>2, <2>4, <2>5 DEF ProcessPartition, ReadyByPriority
  <2>7. KillUnlinks'
    BY <2>1 DEF KillUnlinks
  <2> QED  BY <2>1, <2>4, <2>6, <2>7, <1>2, <1>3
<1>17. CASE ItReturn
  <2>1. /\ ReturnFromInt(procQLow, procQHigh) /\ mode \in {"user", "wait", "tick"}
        /\ UNCHANGED <<semq, p_semAdd, p_parent, attr, pcbFree, killStack>>
    BY <1>17 DEF ItReturn
  <2>2. killStack = <<>>
    BY <1>17 DEF PlaceInv, TypeOK, ItReturn
  <2>3. Dying = {}
    BY <2>2 DEF Dying, ToSet
  <2>4. /\ procQLow \in Seq(Pcbs) /\ procQHigh \in Seq(Pcbs)
        /\ Partition(procQLow, procQHigh, semq', pcbFree, {}, Running)
        /\ ByPriority(procQLow, procQHigh, attr)
    BY <2>1, <2>3 DEF PlaceInv, TypeOK, ProcessPartition, ReadyByPriority
  <2>5. ProcessPartition' /\ ReadyByPriority' /\ KillUnlinks'
    BY <2>1, <2>4, ReturnFromIntPlaces
  <2>6. SemAddMatchesQueue'
    BY <2>1 DEF PlaceInv, SemAddMatchesQueue
  <2> QED  BY <2>1, <2>5, <2>6, <1>2, <1>3
<1>18. CASE UNCHANGED vars
  <2>1. UNCHANGED <<procQLow, procQHigh, semq, p_semAdd, p_parent, attr, pcbFree,
                    currentProcess, mode, killStack>>
    BY <1>18 DEF vars
  <2>2. Dying' = Dying /\ Running' = Running
    BY <2>1 DEF Dying, Running
  <2>3. ProcessPartition'
    BY <2>1, <2>2 DEF PlaceInv, ProcessPartition
  <2> QED  BY <2>1, <2>3, <1>2, <1>3
           DEF PlaceInv, SemAddMatchesQueue, ReadyByPriority, KillUnlinks
<1> QED
  BY <1>4, <1>5, <1>6, <1>7, <1>8, <1>9, <1>10, <1>11, <1>12, <1>13, <1>14, <1>15, <1>16,
     <1>17, <1>18 DEF Next, Syscall, Interrupt, Loop, Stopped

\* PlaceInv always holds.
LEMMA PlaceInvariant == QuietHigh => (Spec => []PlaceInv)
<1> SUFFICES ASSUME QuietHigh PROVE Spec => []PlaceInv
  OBVIOUS
<1>1. Init => PlaceInv  BY InitPlaces, KernelAssumption
<1>2. PlaceInv /\ [Next]_vars => PlaceInv'  BY NextPlaces, KernelAssumption
<1> QED  BY <1>1, <1>2, PTL DEF Spec

\* Every PCB is in exactly one place in every reachable state: no interleaving
\* of system calls, interrupts and terminations loses or duplicates a process.
THEOREM NoProcessLost == QuietHigh => (Spec => []ProcessPartition)
<1>1. PlaceInv => ProcessPartition  BY DEF PlaceInv
<1> QED  BY <1>1, PlaceInvariant, PTL

\* p_semAdd names the queue a process is blocked in, so kill() and the wake up
\* of a semaphore always find it.
THEOREM SemAddCorrect == QuietHigh => (Spec => []SemAddMatchesQueue)
<1>1. PlaceInv => SemAddMatchesQueue  BY DEF PlaceInv
<1> QED  BY <1>1, PlaceInvariant, PTL

\* A ready process is in the queue of its priority.
THEOREM ReadyQueuesSound == QuietHigh => (Spec => []ReadyByPriority)
<1>1. PlaceInv => ReadyByPriority  BY DEF PlaceInv
<1> QED  BY <1>1, PlaceInvariant, PTL

\* kill() finds its victim in the queue it looks in: it never frees a PCB that a
\* ready queue still holds.
THEOREM KillFindsVictim == QuietHigh => (Spec => []KillUnlinks)
<1>1. PlaceInv => KillUnlinks  BY DEF PlaceInv
<1> QED  BY <1>1, PlaceInvariant, PTL

-----------------------------------------------------------------------------
(* Counts, the process tree and the end: the inductive invariant *)

\* What the scheduler had found when it stopped the system.
StopInv ==
  /\ mode = "halt"  => processCount = 0
  /\ mode = "panic" => softBlockCount = 0 /\ procQLow = <<>> /\ procQHigh = <<>>

LifeInv == PlaceInv /\ CountExact /\ SoftBlockCovers /\ StopInv /\ OneTree

-----------------------------------------------------------------------------
(* The population: births and deaths *)

PopulationKept == UNCHANGED <<pcbFree, killStack, p_parent, processCount>>

\* Only NSYS1 and kill() change which processes live and who their parents are.
LEMMA PopulationSteps ==
  [Next]_vars => \/ PopulationKept \/ CreateProcess \/ KillReturn
                 \/ TerminateProcess \/ PassUpOrDie \/ KillChild
BY DEF PopulationKept, Next, Syscall, Interrupt, Loop, Stopped, SysSemaphore, DoIoDevice, WaitForClock,
       Yield, PltInterrupt, ItInterrupt, DeviceInterrupt, ItWakeup, ItReturn, vars

\* kill() is entered with a process that lives: the caller, one in a queue, or
\* a child, which is still in the tree.
LEMMA VictimLives ==
  ASSUME PlaceInv, KernelAssumption, TerminateProcess \/ PassUpOrDie \/ KillChild
  PROVE  \E p \in Live : EnterKill(p) /\ mode \in {"user", "kill"}
<1>1. CASE TerminateProcess \/ PassUpOrDie
  <2>1. PICK p \in Pcbs :
          /\ \/ p = currentProcess
             \/ p \in ToSet(procQLow) \cup ToSet(procQHigh)
             \/ p \in Queued(semq)
          /\ EnterKill(p) /\ mode = "user"
    BY <1>1 DEF TerminateProcess, PassUpOrDie, Queued, PlaceInv, TypeOK
  <2>2. Dying = {} /\ Partition(procQLow, procQHigh, semq, pcbFree, {}, {} \cup {currentProcess})
    BY <2>1, RunningPlaces
  <2>3. p \notin pcbFree
    BY <2>1, <2>2 DEF Partition
  <2> QED  BY <2>1, <2>2, <2>3 DEF Live
<1>2. CASE KillChild
  <2>1. PICK c \in Pcbs : p_parent[c] = Last(killStack) /\ EnterKill(c) /\ mode = "kill"
    BY <1>2 DEF KillChild, Children
  <2>2. Last(killStack) \in Pcbs
    BY <2>1, FrontLastToSet, ToSetProperties DEF PlaceInv, TypeOK
  <2>3. c \notin pcbFree \cup Dying
    BY <2>1, <2>2 DEF PlaceInv, DeadDetached, KernelAssumption
  <2> QED  BY <2>1, <2>3 DEF Live
<1> QED  BY <1>1, <1>2

\* NSYS1 adds a process to the living, whose parent is the current process.
LEMMA Birth ==
  ASSUME PlaceInv, KernelAssumption, CreateProcess
  PROVE  \E p \in Pcbs \ (Live \cup Dying) :
           /\ Live' = Live \cup {p} /\ Dying' = Dying
           /\ p_parent' = [p_parent EXCEPT ![p] = currentProcess]
           /\ currentProcess \in Live /\ processCount' = processCount + 1
<1>1. PICK p \in pcbFree :
        /\ pcbFree' = pcbFree \ {p} /\ killStack' = killStack
        /\ p_parent' = [p_parent EXCEPT ![p] = currentProcess]
  BY DEF CreateProcess, NewProcess
<1>2. mode = "user" /\ processCount' = processCount + 1
  BY DEF CreateProcess
<1>3. /\ currentProcess \in Pcbs /\ Dying = {}
      /\ Partition(procQLow, procQHigh, semq, pcbFree, {}, {} \cup {currentProcess})
  BY <1>2, RunningPlaces
<1>4. currentProcess \notin pcbFree /\ pcbFree \subseteq Pcbs
  BY <1>3 DEF Partition
<1>5. Dying' = Dying
  BY <1>1 DEF Dying
<1>6. p \in Pcbs \ (Live \cup Dying) /\ currentProcess \in Live /\ Live' = Live \cup {p}
  BY <1>1, <1>3, <1>4, <1>5 DEF Live
<1> QED  BY <1>1, <1>2, <1>5, <1>6

\* Entering kill() moves its victim from the living to the dying.
LEMMA Death ==
  ASSUME PlaceInv, NEW p \in Live, EnterKill(p)
  PROVE  /\ Live' = Live \ {p} /\ Dying' = Dying \cup {p}
         /\ p_parent' = [p_parent EXCEPT ![p] = NULL]
         /\ processCount' = processCount - 1
<1>1. /\ killStack' = Append(killStack, p) /\ pcbFree' = pcbFree
      /\ p_parent' = [p_parent EXCEPT ![p] = NULL] /\ processCount' = processCount - 1
  BY DEF EnterKill
<1>2. Dying' = Dying \cup {p}
  BY <1>1, AppendToSet DEF Dying, Live, PlaceInv, TypeOK
<1> QED  BY <1>1, <1>2 DEF Live

\* Its end frees a PCB that no process names as its parent any more.
LEMMA Burial ==
  ASSUME PlaceInv, KillReturn
  PROVE  \E p \in Dying :
           /\ Live' = Live /\ Dying' = Dying \ {p}
           /\ Children(p) = {} /\ UNCHANGED <<p_parent, processCount>>
<1> DEFINE top == Last(killStack)
<1>1. /\ Children(top) = {} /\ pcbFree' = pcbFree \cup {top} /\ killStack' = Front(killStack)
      /\ UNCHANGED <<p_parent, processCount>>
  BY DEF KillReturn, FreePcb
<1>2. top \in Dying /\ Dying' = Dying \ {top}
  BY <1>1, FrontLastToSet DEF KillReturn, Dying, PlaceInv, TypeOK, ProcessPartition
<1> HIDE DEF top
<1>3. Live' = Live
  BY <1>1, <1>2 DEF Live
<1> QED  BY <1>1, <1>2, <1>3

-----------------------------------------------------------------------------
(* Counters *)

\* processCount changes by one exactly when a process is born or killed.
LEMMA CountStep ==
  ASSUME PlaceInv, KernelAssumption, CountExact, [Next]_vars
  PROVE  CountExact'
<1>1. IsFiniteSet(Live)
  BY FS_Subset DEF KernelAssumption, Live
<1>2. CASE PopulationKept
  BY <1>2 DEF PopulationKept, CountExact, Live, Dying
<1>3. CASE CreateProcess
  <2>1. PICK p : p \notin Live /\ Live' = Live \cup {p} /\ processCount' = processCount + 1
    BY <1>3, Birth
  <2> QED  BY <1>1, <2>1, FS_AddElement DEF CountExact
<1>4. CASE TerminateProcess \/ PassUpOrDie \/ KillChild
  <2>1. PICK p \in Live : Live' = Live \ {p} /\ processCount' = processCount - 1
    BY <1>4, VictimLives, Death
  <2> QED  BY <1>1, <2>1, FS_RemoveElement DEF CountExact
<1>5. CASE KillReturn
  BY <1>5, Burial DEF CountExact
<1> QED  BY <1>2, <1>3, <1>4, <1>5, PopulationSteps

\* One more is counted than blocks, or one less than is woken.
SoftStep ==
  \/ softBlockCount' = softBlockCount + 1 /\ SoftBlocked' \subseteq SoftBlocked \cup {currentProcess}
  \/ softBlockCount' = softBlockCount - 1 /\ \E h \in SoftBlocked : SoftBlocked' \subseteq SoftBlocked \ {h}
  \/ softBlockCount' = softBlockCount /\ SoftBlocked' \subseteq SoftBlocked

\* A step that moves a process and the counter together keeps the counter sufficient.
LEMMA SoftCount ==
  ASSUME KernelAssumption, TypeOK, SoftBlockCovers, SoftStep
  PROVE  SoftBlockCovers'
<1>1. IsFiniteSet(SoftBlocked) /\ softBlockCount \in Int
  BY FS_Subset DEF KernelAssumption, SoftBlocked, TypeOK
<1>2. ASSUME NEW T, IsFiniteSet(T), SoftBlocked' \subseteq T
      PROVE  Cardinality(SoftBlocked') <= Cardinality(T)
  BY <1>2, FS_Subset
<1>3. Cardinality(SoftBlocked) \in Nat
  BY <1>1, FS_CardinalityType
<1>c. IsFiniteSet(SoftBlocked') /\ Cardinality(SoftBlocked') \in Nat
  <2>1. SoftBlocked' \subseteq Pcbs
    BY DEF SoftBlocked
  <2> QED  BY <2>1, FS_Subset, FS_CardinalityType DEF KernelAssumption
<1>4. CASE /\ softBlockCount' = softBlockCount + 1
           /\ SoftBlocked' \subseteq SoftBlocked \cup {currentProcess}
  <2>1. /\ IsFiniteSet(SoftBlocked \cup {currentProcess})
        /\ Cardinality(SoftBlocked \cup {currentProcess}) <= Cardinality(SoftBlocked) + 1
        /\ Cardinality(SoftBlocked \cup {currentProcess}) \in Nat
    <3>1. PICK c : c = currentProcess
      OBVIOUS
    <3>2. /\ IsFiniteSet(SoftBlocked \cup {c})
          /\ Cardinality(SoftBlocked \cup {c}) \in {Cardinality(SoftBlocked), Cardinality(SoftBlocked) + 1}
      BY <1>1, FS_AddElement
    <3> QED  BY <1>3, <3>1, <3>2
  <2>2. Cardinality(SoftBlocked') <= Cardinality(SoftBlocked \cup {currentProcess})
    BY <1>2, <1>4, <2>1
  <2> QED  BY <1>1, <1>3, <1>c, <1>4, <2>1, <2>2 DEF SoftBlockCovers
<1>5. ASSUME NEW h \in SoftBlocked, softBlockCount' = softBlockCount - 1,
             SoftBlocked' \subseteq SoftBlocked \ {h}
      PROVE  SoftBlockCovers'
  <2>1. /\ IsFiniteSet(SoftBlocked \ {h})
        /\ Cardinality(SoftBlocked \ {h}) = Cardinality(SoftBlocked) - 1
    BY <1>1, FS_RemoveElement
  <2>2. Cardinality(SoftBlocked') <= Cardinality(SoftBlocked \ {h})
    BY <1>2, <1>5, <2>1
  <2> QED  BY <1>1, <1>3, <1>c, <1>5, <2>1, <2>2 DEF SoftBlockCovers
<1>6. CASE softBlockCount' = softBlockCount /\ SoftBlocked' \subseteq SoftBlocked
  <2>1. Cardinality(SoftBlocked') <= Cardinality(SoftBlocked)
    BY <1>1, <1>2, <1>6
  <2> QED  BY <1>1, <1>3, <1>c, <1>6, <2>1 DEF SoftBlockCovers
<1> QED  BY <1>4, <1>5, <1>6 DEF SoftStep

\* P and V change the queue of their semaphore only.
LEMMA SemOpQueues ==
  ASSUME PlaceInv, mode = "user", NEW s \in AllSems, Passeren(s) \/ Verhogen(s)
  PROVE  /\ \A t \in AllSems : t # s => semq'[t] = semq[t]
         /\ ToSet(semq'[s]) \subseteq ToSet(semq[s]) \cup {currentProcess}
<1>1. semq \in [AllSems -> Seq(Pcbs)] /\ currentProcess \in Pcbs /\ Distinct(semq[s])
  BY DEF PlaceInv, TypeOK, ProcessPartition, Partition
<1>2. CASE semq' = [semq EXCEPT ![s] = Append(semq[s], currentProcess)]
  BY <1>1, <1>2, AppendToSet
<1>3. CASE semq[s] # <<>> /\ semq' = [semq EXCEPT ![s] = Tail(semq[s])]
  BY <1>1, <1>3, TailToSet
<1>4. CASE semq' = semq
  BY <1>4
<1> QED  BY <1>2, <1>3, <1>4 DEF Passeren, Verhogen, SemOp, Suspend, RemoveBlocked

\* A process that is woken is blocked nowhere else.
LEMMA Woken ==
  ASSUME PlaceInv, NEW s \in SoftSems, semq[s] # <<>>, RemoveBlocked(s)
  PROVE  \E h \in SoftBlocked : SoftBlocked' \subseteq SoftBlocked \ {h}
<1> DEFINE h == Head(semq[s])
<1>1. semq \in [AllSems -> Seq(Pcbs)] /\ s \in AllSems /\ Distinct(semq[s])
  BY DEF PlaceInv, TypeOK, ProcessPartition, Partition, AllSems
<1>2. semq' = [semq EXCEPT ![s] = Tail(semq[s])]
  BY DEF RemoveBlocked
<1>3. h \in ToSet(semq[s]) /\ h \in Pcbs /\ ToSet(Tail(semq[s])) = ToSet(semq[s]) \ {h}
  BY <1>1, TailToSet, ToSetProperties
<1> HIDE DEF h
<1>4. \A t \in AllSems : h \in ToSet(semq[t]) => t = s
  BY <1>1, <1>3 DEF PlaceInv, SemAddMatchesQueue
<1>5. h \in SoftBlocked /\ SoftBlocked' \subseteq SoftBlocked \ {h}
  BY <1>1, <1>2, <1>3, <1>4 DEF SoftBlocked, AllSems
<1> QED  BY <1>5

\* kill() never lowers softBlockCount, and blocks nobody.
LEMMA KillSoft ==
  ASSUME PlaceInv, KernelAssumption, NEW p \in Pcbs, EnterKill(p)
  PROVE  SoftStep
<1>1. semq \in [AllSems -> Seq(Pcbs)] /\ \A s \in AllSems : Distinct(semq[s])
  BY DEF PlaceInv, TypeOK, ProcessPartition, Partition
<1>2. CASE p_semAdd[p] # NULL
  <2>1. p_semAdd'[p] = NULL
    BY <1>2 DEF EnterKill, PlaceInv, TypeOK
  <2>2. softBlockCount' = softBlockCount
    BY <1>2, <2>1 DEF EnterKill, IsDeviceSemaphore, KernelAssumption, AllSems
  <2>3. PICK s \in AllSems : semq' = [semq EXCEPT ![s] = Without(semq[s], p)]
    BY <1>2 DEF EnterKill, PlaceInv, TypeOK
  <2>4. \A t \in AllSems : ToSet(semq'[t]) \subseteq ToSet(semq[t])
    <3>1. ToSet(Without(semq[s], p)) = ToSet(semq[s]) \ {p}
      BY <1>1, OutProcQToSet
    <3> QED  BY <1>1, <2>3, <3>1
  <2> QED  BY <2>2, <2>4 DEF SoftStep, SoftBlocked, AllSems
<1>3. CASE p_semAdd[p] = NULL
  BY <1>3 DEF EnterKill, SoftStep, SoftBlocked
<1> QED  BY <1>2, <1>3

\* Every step does: the queues of soft semaphores change with softBlockCount, but for kill().
LEMMA SoftSteps ==
  ASSUME PlaceInv, KernelAssumption, [Next]_vars
  PROVE  SoftStep
<1>1. ASSUME UNCHANGED <<semq, softBlockCount>> PROVE SoftStep
  BY <1>1 DEF SoftStep, SoftBlocked
<1>2. CASE SysSemaphore
  <2>1. PICK s \in Sems : Passeren(s) \/ Verhogen(s)
    BY <1>2 DEF SysSemaphore
  <2>2. s \in AllSems /\ s \notin SoftSems /\ mode = "user" /\ softBlockCount' = softBlockCount
    BY <1>2 DEF SysSemaphore, AllSems, KernelAssumption
  <2>3. \A t \in SoftSems : semq'[t] = semq[t]
    BY <2>1, <2>2, SemOpQueues DEF AllSems
  <2> QED  BY <2>2, <2>3 DEF SoftStep, SoftBlocked
<1>3. CASE DoIoDevice \/ WaitForClock
  <2>1. PICK s \in SoftSems : Passeren(s)
    BY <1>3 DEF DoIoDevice, WaitForClock, SoftSems
  <2>2. s \in AllSems /\ mode = "user" /\ softBlockCount' = softBlockCount + 1
    BY <1>3 DEF DoIoDevice, WaitForClock, AllSems
  <2>3. \A t \in AllSems : ToSet(semq'[t]) \subseteq ToSet(semq[t]) \cup {currentProcess}
    BY <2>1, <2>2, SemOpQueues
  <2> QED  BY <2>2, <2>3 DEF SoftStep, SoftBlocked, AllSems
<1>4. CASE TerminateProcess \/ PassUpOrDie \/ KillChild
  BY <1>4, VictimLives, KillSoft DEF Live
<1>5. CASE ItWakeup
  <2>1. pseudoClockSem \in SoftSems
    BY DEF SoftSems
  <2> QED  BY <1>5, <2>1, Woken DEF ItWakeup, SoftStep
<1>6. CASE DeviceInterrupt
  <2>1. PICK d \in busy : \/ UNCHANGED <<semq, softBlockCount>>
                          \/ semq[d] # <<>> /\ RemoveBlocked(d) /\ softBlockCount' = softBlockCount - 1
    BY <1>6 DEF DeviceInterrupt
  <2>2. d \in SoftSems
    BY DEF PlaceInv, TypeOK, SoftSems
  <2> QED  BY <1>1, <2>1, <2>2, Woken DEF SoftStep
<1>7. CASE CreateProcess \/ Yield \/ PltInterrupt \/ ItInterrupt
  BY <1>1, <1>7 DEF CreateProcess, NewProcess, Yield, PltInterrupt, ItInterrupt
<1>8. CASE KillReturn \/ ItReturn \/ Stopped \/ UNCHANGED vars
  BY <1>1, <1>8 DEF KillReturn, ItReturn, Stopped, vars
<1> QED  BY <1>2, <1>3, <1>4, <1>5, <1>6, <1>7, <1>8 DEF Next, Syscall, Interrupt, Loop

-----------------------------------------------------------------------------
(* Stops *)

\* When the scheduler stops, it has seen what StopInv says.
LEMMA SchedulerStops ==
  ASSUME NEW lo, NEW hi, NEW force, NEW cur, NEW timer, Scheduler(lo, hi, force, cur, timer)
  PROVE  StopInv'
BY DEF Scheduler, NextProcess, StopInv

\* P and V stop the system through the scheduler only, as SEMDs suffice.
LEMMA SemOpStops ==
  ASSUME PlaceInv, KernelAssumption, mode = "user", NEW s \in AllSems, Passeren(s) \/ Verhogen(s)
  PROVE  StopInv'
<1>1. SemdAvailable(s)
  BY SemdsSuffice
<1>2. CASE Suspend(s)
  BY <1>1, <1>2, SchedulerStops DEF Suspend
<1>3. CASE mode' = mode
  BY <1>3 DEF StopInv
<1> QED  BY <1>2, <1>3 DEF Passeren, Verhogen, SemOp

\* Only the scheduler stops the system, and once stopped nothing moves.
LEMMA StopStep ==
  ASSUME PlaceInv, KernelAssumption, StopInv, [Next]_vars
  PROVE  StopInv'
<1>1. ASSUME mode' \in {"user", "kill", "tick", "corrupt"} PROVE StopInv'
  BY <1>1 DEF StopInv
<1>2. CASE SysSemaphore \/ DoIoDevice \/ WaitForClock
  BY <1>2, SemOpStops DEF SysSemaphore, DoIoDevice, WaitForClock, AllSems, SoftSems
<1>3. CASE Yield \/ PltInterrupt
  BY <1>3, SchedulerStops DEF Yield, PltInterrupt
<1>4. CASE CreateProcess \/ TerminateProcess \/ PassUpOrDie \/ KillChild \/ ItInterrupt \/ ItWakeup
  BY <1>1, <1>4 DEF CreateProcess, NewProcess, TerminateProcess, PassUpOrDie, KillChild, EnterKill,
     ItInterrupt, ItWakeup
<1>5. CASE KillReturn
  BY <1>1, <1>5, SchedulerStops DEF KillReturn
<1>6. ASSUME NEW lo, NEW hi, ReturnFromInt(lo, hi) PROVE StopInv'
  BY <1>1, <1>6, SchedulerStops DEF ReturnFromInt
<1>7. CASE ItReturn \/ DeviceInterrupt
  BY <1>6, <1>7 DEF ItReturn, DeviceInterrupt
<1>8. CASE Stopped \/ UNCHANGED vars
  BY <1>8 DEF Stopped, vars, StopInv
<1> QED  BY <1>2, <1>3, <1>4, <1>5, <1>7, <1>8 DEF Next, Syscall, Interrupt, Loop

-----------------------------------------------------------------------------
(* The tree *)

\* A birth adds a leaf and kill() takes one away: the live processes stay a tree.
LEMMA TreeStep ==
  ASSUME PlaceInv, KernelAssumption, OneTree, [Next]_vars
  PROVE  OneTree'
<1>1. /\ p_parent \in [Pcbs -> Pcbs \cup {NULL}] /\ NULL \notin Pcbs
      /\ Live \subseteq Pcbs /\ Live \cap Dying = {}
  BY DEF PlaceInv, TypeOK, KernelAssumption, Live
<1>2. CASE PopulationKept
  BY <1>2 DEF PopulationKept, OneTree, Live, Dying
<1>3. CASE CreateProcess
  <2>1. PICK p \in Pcbs \ (Live \cup Dying) :
          /\ Live' = Live \cup {p} /\ Dying' = Dying
          /\ p_parent' = [p_parent EXCEPT ![p] = currentProcess] /\ currentProcess \in Live
    BY <1>3, Birth
  <2>2. p_parent'[p] = currentProcess /\ \A q \in Live : p_parent'[q] = p_parent[q]
    BY <1>1, <2>1
  <2>3. \A q \in Live' : p_parent'[q] \in Live' \cup Dying' \cup {NULL}
    BY <2>1, <2>2 DEF OneTree
  <2>4. \A q, r \in Live' : p_parent'[q] = NULL /\ p_parent'[r] = NULL => q = r
    BY <1>1, <2>1, <2>2 DEF OneTree
  <2>5. ASSUME NEW P \in SUBSET Live', P # {} PROVE \E q \in P : p_parent'[q] \notin P
    <3>1. CASE P \ {p} = {}
      BY <2>1, <2>2, <2>5, <3>1
    <3>2. CASE P \ {p} # {}
      <4>1. PICK q \in P \ {p} : p_parent[q] \notin P \ {p}
        BY <2>1, <3>2 DEF OneTree
      <4>2. q \in Live /\ p_parent[q] # p
        BY <1>1, <2>1, <4>1 DEF OneTree
      <4> QED  BY <2>2, <4>1, <4>2
    <3> QED  BY <3>1, <3>2
  <2> QED  BY <2>3, <2>4, <2>5 DEF OneTree
<1>4. CASE TerminateProcess \/ PassUpOrDie \/ KillChild
  <2>1. PICK p \in Live : /\ Live' = Live \ {p} /\ Dying' = Dying \cup {p}
                          /\ p_parent' = [p_parent EXCEPT ![p] = NULL]
    BY <1>4, VictimLives, Death
  <2>2. \A q \in Live' : q \in Live /\ p_parent'[q] = p_parent[q]
    BY <1>1, <2>1
  <2>3. \A q \in Live' : p_parent'[q] \in Live' \cup Dying' \cup {NULL}
    BY <2>1, <2>2 DEF OneTree
  <2>4. \A q, r \in Live' : p_parent'[q] = NULL /\ p_parent'[r] = NULL => q = r
    BY <2>2 DEF OneTree
  <2>5. ASSUME NEW P \in SUBSET Live', P # {} PROVE \E q \in P : p_parent'[q] \notin P
    <3>1. PICK q \in P : p_parent[q] \notin P
      BY <2>1, <2>5 DEF OneTree
    <3> QED  BY <2>2, <3>1
  <2> QED  BY <2>3, <2>4, <2>5 DEF OneTree
<1>5. CASE KillReturn
  <2>1. PICK p \in Dying : /\ Live' = Live /\ Dying' = Dying \ {p}
                           /\ Children(p) = {} /\ p_parent' = p_parent
    BY <1>5, Burial
  <2>2. \A q \in Live : p_parent[q] # p
    BY <1>1, <2>1 DEF Children
  <2> QED  BY <2>1, <2>2 DEF OneTree
<1> QED  BY <1>2, <1>3, <1>4, <1>5, PopulationSteps

-----------------------------------------------------------------------------
(* Priorities *)

\* The scheduler prefers a low priority process only if it is told to.
LEMMA DispatchOrder ==
  ASSUME NEW lo \in Seq(Pcbs), NEW hi \in Seq(Pcbs), NEW force, NEW cur, NEW timer,
         Scheduler(lo, hi, force, cur, timer), ToSet(hi) \cap ToSet(procQLow) = {},
         DispatchesLow, procQHigh' # <<>>
  PROVE  force /\ procQHigh' = hi
<1>1. hi # <<>> => Head(hi) \in ToSet(hi)
  BY ToSetProperties
<1> QED  BY <1>1 DEF Scheduler, NextProcess, ForceLow, DispatchesLow

\* Only a yield of a high priority process tells it to.
LEMMA OrderStep ==
  ASSUME PlaceInv, KernelAssumption, Next, DispatchesLow, procQHigh' # <<>>
  PROVE  /\ currentProcess \in ToSet(procQHigh')
         /\ attr[currentProcess].p_prio = PROCESS_PRIO_HIGH
<1>1. /\ procQLow \in Seq(Pcbs) /\ procQHigh \in Seq(Pcbs) /\ forceLowQ = FALSE
      /\ ToSet(procQHigh) \cap ToSet(procQLow) = {}
      /\ \A s \in AllSems : ToSet(semq[s]) \cap ToSet(procQLow) = {}
  BY ToSetProperties DEF PlaceInv, TypeOK, ProcessPartition, Partition, Queued
<1>2. currentProcess' # currentProcess /\ mode' = "user" /\ currentProcess' # NULL
  BY DEF DispatchesLow
<1>3. ASSUME NEW lo \in Seq(Pcbs), NEW cur, NEW timer,
             Scheduler(lo, procQHigh, forceLowQ, cur, timer)
      PROVE  FALSE
  BY <1>1, <1>3, DispatchOrder
<1>4. ASSUME NEW s \in AllSems, mode = "user", Passeren(s) \/ Verhogen(s) PROVE FALSE
  <2>1. Suspend(s)
    BY <1>2, <1>4 DEF Passeren, Verhogen, SemOp
  <2>2. Scheduler(procQLow, procQHigh, forceLowQ, currentProcess, plt)
    BY <1>4, <2>1, SemdsSuffice DEF Suspend
  <2> QED  BY <1>1, <1>3, <2>2
<1>5. ASSUME SysSemaphore \/ DoIoDevice \/ WaitForClock PROVE FALSE
  BY <1>4, <1>5 DEF SysSemaphore, DoIoDevice, WaitForClock, AllSems, SoftSems
<1>6. CASE Yield
  <2> DEFINE c == currentProcess
             lo == LowWith(c)
             hi == HighWith(c)
             force == YieldForcesLow
  <2>1. c \in Pcbs /\ c \notin ToSet(procQLow)
    BY <1>6, RunningPlaces DEF Yield, Partition
  <2>2. lo \in Seq(Pcbs) /\ hi \in Seq(Pcbs) /\ Scheduler(lo, hi, force, c, plt)
    BY <1>6, <2>1, WithType DEF Yield, PlaceInv
  <2>3. ToSet(hi) \subseteq ToSet(procQHigh) \cup {c}
    BY <1>1, <2>1, AppendToSet DEF HighWith
  <2>4. ToSet(hi) \cap ToSet(procQLow) = {}
    BY <1>1, <2>1, <2>3
  <2> HIDE DEF lo, hi, force
  <2>5. force /\ procQHigh' = hi
    BY <2>2, <2>4, DispatchOrder
  <2>6. attr[c].p_prio = PROCESS_PRIO_HIGH
    BY <1>1, <2>5 DEF force, YieldForcesLow
  <2>7. c \in ToSet(hi)
    BY <1>1, <2>1, <2>6, AppendToSet DEF hi, HighWith
  <2> QED  BY <2>5, <2>6, <2>7
<1>7. ASSUME PltInterrupt PROVE FALSE
  <2>1. Append(procQLow, currentProcess) \in Seq(Pcbs)
    BY <1>1, <1>7, AppendToSet DEF PltInterrupt, PlaceInv, TypeOK
  <2> QED  BY <1>3, <1>7, <2>1 DEF PltInterrupt
<1>8. ASSUME KillReturn PROVE FALSE
  BY <1>1, <1>2, <1>3, <1>8 DEF KillReturn
<1>9. ASSUME ItReturn PROVE FALSE
  BY <1>1, <1>2, <1>3, <1>9 DEF ItReturn, ReturnFromInt
<1>10. ASSUME DeviceInterrupt PROVE FALSE
  <2>1. PICK d \in busy :
          \/ ReturnFromInt(procQLow, procQHigh)
          \/ /\ semq[d] # <<>>
             /\ ReturnFromInt(LowWith(Head(semq[d])), HighWith(Head(semq[d])))
    BY <1>10 DEF DeviceInterrupt
  <2>2. CASE ReturnFromInt(procQLow, procQHigh)
    BY <1>1, <1>2, <1>3, <2>2 DEF ReturnFromInt
  <2>3. CASE /\ semq[d] # <<>>
             /\ ReturnFromInt(LowWith(Head(semq[d])), HighWith(Head(semq[d])))
    <3> DEFINE h == Head(semq[d])
    <3>1. d \in AllSems /\ semq[d] \in Seq(Pcbs)
      BY DEF PlaceInv, TypeOK, AllSems, SoftSems
    <3>2. h \in ToSet(semq[d]) /\ h \in Pcbs
      BY <2>3, <3>1, ToSetProperties
    <3>3. h \notin ToSet(procQLow)
      BY <1>1, <3>1, <3>2
    <3>4. Scheduler(LowWith(h), HighWith(h), forceLowQ, NULL, plt)
      BY <1>2, <2>3 DEF ReturnFromInt
    <3> HIDE DEF h
    <3>5. LowWith(h) \in Seq(Pcbs) /\ HighWith(h) \in Seq(Pcbs)
      BY <3>2, WithType DEF PlaceInv
    <3>6. ToSet(HighWith(h)) \subseteq ToSet(procQHigh) \cup {h}
      BY <1>1, <3>2, AppendToSet DEF HighWith
    <3>7. ToSet(HighWith(h)) \cap ToSet(procQLow) = {}
      BY <1>1, <3>3, <3>6
    <3> QED  BY <1>1, <3>4, <3>5, <3>7, DispatchOrder
  <2> QED  BY <2>1, <2>2, <2>3
<1>11. ASSUME CreateProcess \/ ItWakeup \/ Stopped PROVE FALSE
  BY <1>2, <1>11 DEF CreateProcess, NewProcess, ItWakeup, Stopped, vars
<1>12. ASSUME TerminateProcess \/ PassUpOrDie \/ KillChild \/ ItInterrupt PROVE FALSE
  BY <1>2, <1>12 DEF TerminateProcess, PassUpOrDie, KillChild, EnterKill, ItInterrupt
<1> QED  BY <1>5, <1>6, <1>7, <1>8, <1>9, <1>10, <1>11, <1>12 DEF Next, Syscall, Interrupt, Loop

-----------------------------------------------------------------------------
(* Theorems *)

\* main leaves one live process, the root.
LEMMA InitLife == KernelAssumption /\ Init => CountExact /\ SoftBlockCovers /\ StopInv /\ OneTree
<1> SUFFICES ASSUME KernelAssumption, Init
             PROVE  CountExact /\ SoftBlockCovers /\ StopInv /\ OneTree
  OBVIOUS
<1>1. PICK c \in Pcbs : pcbFree = Pcbs \ {c}
  BY DEF Init
<1>2. Dying = {} /\ Live = {c}
  <2>1. Dying = {}
    BY DEF Init, Dying, ToSet
  <2> QED  BY <1>1, <2>1 DEF Live
<1>3. CountExact
  BY <1>2, FS_Singleton DEF Init, CountExact
<1>4. SoftBlocked = {}
  <2>1. \A s \in SoftSems : semq[s] = <<>>
    BY DEF Init, AllSems
  <2> QED  BY <2>1 DEF SoftBlocked, ToSet
<1>5. SoftBlockCovers
  BY <1>4, FS_EmptySet DEF Init, SoftBlockCovers
<1>6. StopInv
  BY DEF Init, StopInv
<1>7. \A p \in Live : p_parent[p] = NULL
  BY DEF Init, Live
<1>8. OneTree
  BY <1>2, <1>7 DEF OneTree, KernelAssumption
<1> QED  BY <1>3, <1>5, <1>6, <1>8

\* LifeInv always holds.
LEMMA LifeAlways == QuietHigh => (Spec => []LifeInv)
<1> SUFFICES ASSUME QuietHigh PROVE Spec => []LifeInv
  OBVIOUS
<1>1. Init => LifeInv
  BY InitPlaces, InitLife, KernelAssumption DEF LifeInv
<1>2. LifeInv /\ [Next]_vars => LifeInv'
  BY NextPlaces, CountStep, SoftSteps, SoftCount, StopStep, TreeStep, KernelAssumption
     DEF LifeInv, PlaceInv
<1> QED  BY <1>1, <1>2, PTL DEF Spec

\* processCount is exact at every point of every handler, in the middle of
\* kill() too: the system cannot halt early, nor run on with nobody alive.
THEOREM ProcessCountExact == QuietHigh => (Spec => []CountExact)
<1>1. LifeInv => CountExact  BY DEF LifeInv
<1> QED  BY <1>1, LifeAlways, PTL

\* softBlockCount never falls below the number of processes that an interrupt
\* will wake, whoever is killed meanwhile.
THEOREM SoftBlockCountCovers == QuietHigh => (Spec => []SoftBlockCovers)
<1>1. LifeInv => SoftBlockCovers  BY DEF LifeInv
<1> QED  BY <1>1, LifeAlways, PTL

\* NSYS1, NSYS2 and kill() keep the live processes one tree without cycles,
\* and leave no orphan behind.
THEOREM ProcessTree == QuietHigh => (Spec => []OneTree)
<1>1. LifeInv => OneTree  BY DEF LifeInv
<1> QED  BY <1>1, LifeAlways, PTL

\* HALT means that everybody is dead, PANIC that everybody who lives sleeps on
\* a semaphore of the processes, which no interrupt releases.
THEOREM StopsCorrectly == QuietHigh => (Spec => []StopsOnlyWhenStuck)
<1>1. LifeInv => StopsOnlyWhenStuck
  <2> SUFFICES ASSUME LifeInv PROVE StopsOnlyWhenStuck
    OBVIOUS
  <2>1. IsFiniteSet(Live) /\ IsFiniteSet(SoftBlocked) /\ pcbFree \subseteq Pcbs
    BY KernelAssumption, FS_Subset DEF KernelAssumption, Live, SoftBlocked, LifeInv, PlaceInv, TypeOK
  <2>2. ASSUME mode \in {"halt", "panic"} PROVE Dying = {} /\ Running = {}
    BY <2>2 DEF LifeInv, PlaceInv, TypeOK, Dying, ToSet, Running
  <2>3. ASSUME mode = "halt" PROVE pcbFree = Pcbs
    <3>1. Cardinality(Live) = 0
      BY <2>3 DEF LifeInv, StopInv, CountExact
    <3>2. Live = {}
      BY <2>1, <3>1, FS_EmptySet
    <3> QED  BY <2>1, <2>2, <2>3, <3>2 DEF Live
  <2>4. ASSUME mode = "panic" PROVE Live = {p \in Pcbs : \E s \in Sems : p \in ToSet(semq[s])}
    <3>1. Cardinality(SoftBlocked) <= 0 /\ procQLow = <<>> /\ procQHigh = <<>>
      BY <2>4 DEF LifeInv, StopInv, SoftBlockCovers
    <3>2. SoftBlocked = {}
      BY <2>1, <3>1, FS_EmptySet, FS_CardinalityType
    <3>3. ToSet(procQLow) = {} /\ ToSet(procQHigh) = {}
      BY <3>1 DEF ToSet
    <3>4. Live = Queued(semq)
      BY <2>2, <2>4, <3>3 DEF LifeInv, PlaceInv, ProcessPartition, Partition, Live, Queued
    <3> QED  BY <3>2, <3>4 DEF Queued, SoftBlocked, AllSems
  <2> QED  BY <2>3, <2>4 DEF StopsOnlyWhenStuck
<1> QED  BY <1>1, LifeAlways, PTL

\* A low priority process overtakes a ready high priority one only in the one
\* dispatch after a high priority process yields.
THEOREM PriorityCorrect == QuietHigh => (Spec => PriorityRespected)
<1> SUFFICES ASSUME QuietHigh PROVE Spec => PriorityRespected
  OBVIOUS
<1> DEFINE Respected == DispatchesLow /\ procQHigh' # <<>> =>
                          /\ currentProcess \in ToSet(procQHigh')
                          /\ attr[currentProcess].p_prio = PROCESS_PRIO_HIGH
<1>1. PlaceInv /\ [Next]_vars => [Respected]_vars
  BY OrderStep, KernelAssumption
<1> QED  BY <1>1, PlaceInvariant, PTL DEF Spec, PriorityRespected

\* In its own queue the caller is behind everybody else, and forceLowQ decides
\* between the two queues; it is only ever set during a yield.
LEMMA CallerGivesWay == PlaceInv => YieldGivesWay
<1> DEFINE p == currentProcess
           lo == LowWith(p)
           hi == HighWith(p)
<1> SUFFICES ASSUME PlaceInv, mode = "user", p = NextProcess(lo, hi, YieldForcesLow)
             PROVE Ready = {}
  BY DEF YieldGivesWay
<1>1. p \in Pcbs /\ p \notin ToSet(procQLow) /\ p \notin ToSet(procQHigh)
  <2>1. p \in Pcbs /\ p # NULL /\ Dying = {}
    BY KernelAssumption DEF KernelAssumption, PlaceInv, TypeOK, Dying, ToSet
  <2>2. p \in Running
    BY <2>1 DEF Running
  <2> QED  BY <2>1, <2>2 DEF PlaceInv, ProcessPartition, Partition
<1>2. procQLow \in Seq(Pcbs) /\ procQHigh \in Seq(Pcbs) /\ attr[p].p_prio \in {PROCESS_PRIO_LOW, PROCESS_PRIO_HIGH}
  BY <1>1 DEF PlaceInv, TypeOK, AttrType
<1>3. \A s \in Seq(Pcbs) : p \notin ToSet(s) /\ Head(Append(s, p)) = p => s = <<>>
  BY <1>1 DEF ToSet
<1>4. \A s \in Seq(Pcbs) : p \notin ToSet(s) /\ s # <<>> => Head(s) # p
  BY DEF ToSet
<1>5. p = IF hi # <<>> /\ ~ForceLow(lo, YieldForcesLow) THEN Head(hi) ELSE Head(lo)
  BY DEF NextProcess
<1>6. CASE attr[p].p_prio = PROCESS_PRIO_LOW
  <2>1. lo = Append(procQLow, p) /\ hi = procQHigh /\ lo # <<>>
    BY <1>2, <1>6 DEF LowWith, HighWith, PROCESS_PRIO_LOW, PROCESS_PRIO_HIGH
  <2>2. ~ForceLow(lo, YieldForcesLow)
    BY <1>6 DEF ForceLow, YieldForcesLow, PlaceInv, TypeOK, PROCESS_PRIO_LOW, PROCESS_PRIO_HIGH
  <2>3. hi = <<>> /\ p = Head(lo)
    BY <1>1, <1>2, <1>4, <1>5, <2>1, <2>2
  <2>4. procQLow = <<>> /\ procQHigh = <<>>
    BY <1>1, <1>2, <1>3, <2>1, <2>3
  <2> QED  BY <2>4 DEF Ready, ToSet
<1>7. CASE attr[p].p_prio = PROCESS_PRIO_HIGH
  <2>1. hi = Append(procQHigh, p) /\ lo = procQLow /\ hi # <<>>
    BY <1>2, <1>7 DEF LowWith, HighWith, PROCESS_PRIO_LOW, PROCESS_PRIO_HIGH
  <2>2. YieldForcesLow
    BY <1>7 DEF YieldForcesLow
  <2>3. lo = <<>> /\ p = Head(hi)
    BY <1>1, <1>2, <1>4, <1>5, <2>1, <2>2 DEF ForceLow
  <2>4. procQLow = <<>> /\ procQHigh = <<>>
    BY <1>1, <1>2, <1>3, <2>1, <2>3
  <2> QED  BY <2>4 DEF Ready, ToSet
<1> QED  BY <1>2, <1>6, <1>7

\* A yield never runs the process that gives way again while any other process,
\* of either priority, is ready (NSYS10 and the scheduler).
THEOREM YieldRunsAnother == QuietHigh => (Spec => []YieldGivesWay)
<1> SUFFICES ASSUME QuietHigh PROVE Spec => []YieldGivesWay
  OBVIOUS
<1> QED  BY CallerGivesWay, PlaceInvariant, PTL

-----------------------------------------------------------------------------
(* First come, first served *)

\* No queue of processes is jumped: neither ready queue, nor the queue of a
\* semaphore.
OrderKept ==
  /\ KeepsOrder(procQLow, procQLow') /\ KeepsOrder(procQHigh, procQHigh')
  /\ \A s \in AllSems : KeepsOrder(semq[s], semq'[s])

\* A queue that stays as it is keeps its order.
LEMMA SameOrder == \A q : KeepsOrder(q, q)
BY DEF KeepsOrder

\* insertPrioProcQ of a process that is not ready.
LEMMA InsertOrder ==
  ASSUME TypeOK, NEW p \in Pcbs, p \notin ToSet(procQLow), p \notin ToSet(procQHigh)
  PROVE  KeepsOrder(procQLow, LowWith(p)) /\ KeepsOrder(procQHigh, HighWith(p))
BY SameOrder, AppendOrder DEF TypeOK, LowWith, HighWith

\* The scheduler takes a head.
LEMMA SchedulerOrder ==
  ASSUME NEW lo \in Seq(Pcbs), NEW hi \in Seq(Pcbs), NEW force, NEW cur, NEW timer,
         Scheduler(lo, hi, force, cur, timer),
         KeepsOrder(procQLow, lo), KeepsOrder(procQHigh, hi), TypeOK
  PROVE  KeepsOrder(procQLow, procQLow') /\ KeepsOrder(procQHigh, procQHigh')
<1>1. procQLow \in Seq(Pcbs) /\ procQHigh \in Seq(Pcbs)
  BY DEF TypeOK
<1>2. lo # <<>> => KeepsOrder(procQLow, Tail(lo))
  BY <1>1, ThenTailOrder
<1>3. hi # <<>> => KeepsOrder(procQHigh, Tail(hi))
  BY <1>1, ThenTailOrder
<1> QED  BY <1>2, <1>3 DEF Scheduler, NextProcess

\* returnFromIntException takes at most a head.
LEMMA ReturnOrder ==
  ASSUME NEW lo \in Seq(Pcbs), NEW hi \in Seq(Pcbs), ReturnFromInt(lo, hi),
         KeepsOrder(procQLow, lo), KeepsOrder(procQHigh, hi), TypeOK
  PROVE  KeepsOrder(procQLow, procQLow') /\ KeepsOrder(procQHigh, procQHigh')
BY SchedulerOrder DEF ReturnFromInt

\* A process that is blocked is in no ready queue.
LEMMA WakeOrder ==
  ASSUME PlaceInv, NEW s \in AllSems, semq[s] # <<>>, RemoveBlocked(s)
  PROVE  /\ \A t \in AllSems : KeepsOrder(semq[t], semq'[t])
         /\ Head(semq[s]) \in Pcbs
         /\ KeepsOrder(procQLow, LowWith(Head(semq[s])))
         /\ KeepsOrder(procQHigh, HighWith(Head(semq[s])))
<1> DEFINE h == Head(semq[s])
<1>1. TypeOK /\ semq \in [AllSems -> Seq(Pcbs)] /\ semq' = [semq EXCEPT ![s] = Tail(semq[s])]
  BY DEF PlaceInv, TypeOK, RemoveBlocked
<1>2. h \in Pcbs /\ h \in Queued(semq)
  BY <1>1, ToSetProperties DEF Queued
<1>3. h \notin ToSet(procQLow) /\ h \notin ToSet(procQHigh)
  BY <1>2 DEF PlaceInv, ProcessPartition, Partition
<1>4. \A t \in AllSems : KeepsOrder(semq[t], semq'[t])
  BY <1>1, SameOrder, ThenTailOrder
<1> QED  BY <1>1, <1>2, <1>3, <1>4, InsertOrder

\* The process that P or V blocks goes behind the others; one that it wakes too.
LEMMA SemOpOrder ==
  ASSUME PlaceInv, KernelAssumption, mode = "user", NEW s \in AllSems, Passeren(s) \/ Verhogen(s)
  PROVE  OrderKept
<1>t. TypeOK /\ semq \in [AllSems -> Seq(Pcbs)] /\ procQLow \in Seq(Pcbs) /\ procQHigh \in Seq(Pcbs)
  BY DEF PlaceInv, TypeOK
<1>1. CASE Suspend(s)
  <2>1. /\ semq' = [semq EXCEPT ![s] = Append(semq[s], currentProcess)]
        /\ Scheduler(procQLow, procQHigh, forceLowQ, currentProcess, plt)
    BY <1>1, SemdsSuffice DEF Suspend
  <2>2. currentProcess \in Pcbs /\ currentProcess \notin ToSet(semq[s])
    BY RunningPlaces DEF Partition, Queued
  <2>3. \A t \in AllSems : KeepsOrder(semq[t], semq'[t])
    BY <1>t, <2>1, <2>2, SameOrder, AppendOrder
  <2>4. KeepsOrder(procQLow, procQLow') /\ KeepsOrder(procQHigh, procQHigh')
    BY <1>t, <2>1, SameOrder, SchedulerOrder
  <2> QED  BY <2>3, <2>4 DEF OrderKept
<1>2. CASE semq[s] # <<>> /\ RemoveBlocked(s) /\ InsertPrioProcQ(Head(semq[s]))
  BY <1>2, WakeOrder DEF OrderKept, InsertPrioProcQ
<1>3. CASE UNCHANGED <<semq, procQLow, procQHigh>>
  BY <1>3, SameOrder DEF OrderKept
<1> QED  BY <1>1, <1>2, <1>3 DEF Passeren, Verhogen, SemOp

\* kill() takes processes out, wherever they are.
LEMMA EnterKillOrder ==
  ASSUME TypeOK, KernelAssumption, NEW p \in Pcbs, EnterKill(p)
  PROVE  OrderKept
<1>t. /\ semq \in [AllSems -> Seq(Pcbs)] /\ procQLow \in Seq(Pcbs) /\ procQHigh \in Seq(Pcbs)
      /\ p_semAdd[p] \in AllSems \cup {NULL}
  BY DEF TypeOK
<1>1. CASE p_semAdd[p] # NULL
  <2>1. semq' = [semq EXCEPT ![p_semAdd[p]] = Without(semq[p_semAdd[p]], p)]
        /\ UNCHANGED <<procQLow, procQHigh>>
    BY <1>1 DEF EnterKill
  <2> QED  BY <1>t, <1>1, <2>1, SameOrder, OutProcQOrder DEF OrderKept
<1>2. CASE p_semAdd[p] = NULL
  <2>1. OutPrioProcQ(p) /\ semq' = semq
    BY <1>2 DEF EnterKill
  <2> QED  BY <1>t, <2>1, SameOrder, OutProcQOrder DEF OrderKept, OutPrioProcQ
<1> QED  BY <1>1, <1>2

\* Every step of the nucleus keeps the order of every queue.
LEMMA OrderSteps ==
  ASSUME PlaceInv, KernelAssumption, [Next]_vars
  PROVE  OrderKept
<1>t. TypeOK /\ procQLow \in Seq(Pcbs) /\ procQHigh \in Seq(Pcbs) /\ KillUnlinks
  BY DEF PlaceInv, TypeOK
<1>q. \A lo, hi : KeepsOrder(procQLow, procQLow) /\ KeepsOrder(procQHigh, procQHigh)
  BY SameOrder
<1>1. CASE SysSemaphore \/ DoIoDevice \/ WaitForClock
  BY <1>1, SemOpOrder DEF SysSemaphore, DoIoDevice, WaitForClock, AllSems, SoftSems
<1>2. ASSUME mode = "user"
      PROVE  /\ currentProcess \in Pcbs /\ currentProcess \notin ToSet(procQLow)
             /\ currentProcess \notin ToSet(procQHigh)
  BY <1>2, RunningPlaces DEF Partition
<1>3. CASE CreateProcess
  <2>1. PICK p \in pcbFree, a \in Attrs : NewProcess(p, a)
    BY <1>3 DEF CreateProcess
  <2>2. p \in Pcbs /\ p \notin ToSet(procQLow) /\ p \notin ToSet(procQHigh)
    BY <2>1 DEF PlaceInv, TypeOK, ProcessPartition, Partition
  <2> QED  BY <1>t, <2>1, <2>2, SameOrder, AppendOrder DEF NewProcess, OrderKept
<1>4. CASE Yield
  <2> DEFINE lo == LowWith(currentProcess)
             hi == HighWith(currentProcess)
  <2>1. /\ lo \in Seq(Pcbs) /\ hi \in Seq(Pcbs) /\ semq' = semq
        /\ KeepsOrder(procQLow, lo) /\ KeepsOrder(procQHigh, hi)
    BY <1>t, <1>2, <1>4, WithType, InsertOrder DEF Yield
  <2>2. \E force : Scheduler(lo, hi, force, currentProcess, plt)
    BY <1>4 DEF Yield
  <2> HIDE DEF lo, hi
  <2> QED  BY <1>t, <2>1, <2>2, SchedulerOrder, SameOrder DEF OrderKept
<1>5. CASE PltInterrupt
  <2> DEFINE lo == Append(procQLow, currentProcess)
  <2>1. /\ lo \in Seq(Pcbs) /\ semq' = semq /\ KeepsOrder(procQLow, lo)
        /\ Scheduler(lo, procQHigh, forceLowQ, currentProcess, FALSE)
    BY <1>t, <1>2, <1>5, AppendToSet, AppendOrder DEF PltInterrupt
  <2> HIDE DEF lo
  <2> QED  BY <1>t, <1>q, <2>1, SchedulerOrder, SameOrder DEF OrderKept
<1>6. CASE TerminateProcess \/ PassUpOrDie \/ KillChild
  BY <1>t, <1>6, VictimLives, EnterKillOrder DEF Live
<1>7. CASE KillReturn
  <2>1. semq' = semq /\ (UNCHANGED <<procQLow, procQHigh>> \/
                           \E cur : Scheduler(procQLow, procQHigh, forceLowQ, cur, plt))
    BY <1>7 DEF KillReturn
  <2> QED  BY <1>t, <1>q, <2>1, SchedulerOrder, SameOrder DEF OrderKept
<1>8. CASE ItReturn
  BY <1>t, <1>q, <1>8, ReturnOrder, SameOrder DEF ItReturn, OrderKept
<1>9. CASE ItWakeup
  <2>1. pseudoClockSem \in AllSems
    BY DEF AllSems, SoftSems
  <2> QED  BY <1>9, <2>1, WakeOrder DEF ItWakeup, InsertPrioProcQ, OrderKept
<1>10. CASE DeviceInterrupt
  <2>1. PICK d \in busy :
          IF semq[d] = <<>> THEN semq' = semq /\ ReturnFromInt(procQLow, procQHigh)
          ELSE RemoveBlocked(d) /\ ReturnFromInt(LowWith(Head(semq[d])), HighWith(Head(semq[d])))
    BY <1>10 DEF DeviceInterrupt
  <2>2. d \in AllSems
    BY DEF PlaceInv, TypeOK, AllSems, SoftSems
  <2>3. CASE semq[d] = <<>>
    BY <1>t, <1>q, <2>1, <2>3, ReturnOrder, SameOrder DEF OrderKept
  <2>4. CASE semq[d] # <<>>
    <3> DEFINE h == Head(semq[d])
    <3>1. /\ \A t \in AllSems : KeepsOrder(semq[t], semq'[t])
          /\ h \in Pcbs /\ KeepsOrder(procQLow, LowWith(h)) /\ KeepsOrder(procQHigh, HighWith(h))
          /\ ReturnFromInt(LowWith(h), HighWith(h))
      BY <2>1, <2>2, <2>4, WakeOrder
    <3> HIDE DEF h
    <3>2. LowWith(h) \in Seq(Pcbs) /\ HighWith(h) \in Seq(Pcbs)
      BY <1>t, <3>1, WithType
    <3> QED  BY <1>t, <3>1, <3>2, ReturnOrder DEF OrderKept
  <2> QED  BY <2>3, <2>4
<1>11. CASE ItInterrupt \/ Stopped \/ UNCHANGED vars
  BY <1>11, SameOrder DEF ItInterrupt, Stopped, vars, OrderKept
<1> QED  BY <1>1, <1>3, <1>4, <1>5, <1>6, <1>7, <1>8, <1>9, <1>10, <1>11
         DEF Next, Syscall, Interrupt, Loop

\* Nobody is overtaken in a queue: whoever is ahead of a process, in a ready
\* queue or on a semaphore, was ahead of it when it was inserted, through every
\* wakeup, preemption, yield and kill.  The processes ahead only diminish,
\* which is the safety core of RoundRobin.
THEOREM NoOvertaking == QuietHigh => (Spec => [][OrderKept]_vars)
<1> SUFFICES ASSUME QuietHigh PROVE Spec => [][OrderKept]_vars
  OBVIOUS
<1>1. PlaceInv /\ [Next]_vars => OrderKept
  BY OrderSteps, KernelAssumption
<1> QED  BY <1>1, PlaceInvariant, PTL DEF Spec

-----------------------------------------------------------------------------
(* The loops of the nucleus end *)

\* Iterations that kill() has before it, at most: it enters and leaves each
\* living process once, and leaves those that it has entered.
KillLeft == 2 * processCount + Len(killStack)

\* An iteration of a loop of the nucleus; nothing else can happen meanwhile.
LoopAdvances ==
  /\ mode = "kill" => /\ KillLeft \in Nat /\ KillLeft' \in Nat /\ KillLeft' < KillLeft
                      /\ \A p \in Dying : p \in Dying' \cup pcbFree'
  /\ mode = "tick" => \/ mode' # "tick" /\ semq[pseudoClockSem] = <<>>
                      \/ Len(semq'[pseudoClockSem]) < Len(semq[pseudoClockSem])

\* The count of living processes makes KillLeft a natural number.
LEMMA KillLeftNat == ASSUME LifeInv, KernelAssumption PROVE KillLeft \in Nat /\ processCount \in Nat
<1>1. IsFiniteSet(Live)
  BY FS_Subset DEF KernelAssumption, Live
<1>2. processCount \in Nat
  BY <1>1, FS_CardinalityType DEF LifeInv, CountExact
<1>3. Len(killStack) \in Nat
  BY DEF LifeInv, PlaceInv, TypeOK
<1> QED  BY <1>2, <1>3 DEF KillLeft

\* kill() enters a child that is alive, or frees the process on top.
LEMMA KillAdvances ==
  ASSUME LifeInv, LifeInv', KernelAssumption, KillChild \/ KillReturn
  PROVE  KillLeft' < KillLeft /\ \A p \in Dying : p \in Dying' \cup pcbFree'
<1>t. PlaceInv /\ processCount \in Nat /\ killStack \in Seq(Pcbs) /\ Len(killStack) \in Nat
  <2>1. processCount \in Nat
    BY KillLeftNat
  <2>2. PlaceInv /\ killStack \in Seq(Pcbs)
    BY DEF LifeInv, PlaceInv, TypeOK
  <2> QED  BY <2>1, <2>2
<1>1. CASE KillChild
  <2>1. PICK p \in Live : EnterKill(p)
    BY <1>t, <1>1, VictimLives
  <2>2. p \in Pcbs /\ killStack' = Append(killStack, p) /\ processCount' = processCount - 1
    BY <2>1 DEF EnterKill, Live
  <2>3. Len(killStack') = Len(killStack) + 1 /\ Dying' = Dying \cup {p}
    BY <1>t, <2>2, AppendToSet DEF Dying
  <2> QED  BY <1>t, <2>2, <2>3 DEF KillLeft
<1>2. CASE KillReturn
  <2>1. /\ killStack # <<>> /\ killStack' = Front(killStack) /\ processCount' = processCount
        /\ pcbFree' = pcbFree \cup {Last(killStack)}
    BY <1>t, <1>2 DEF KillReturn, FreePcb, PlaceInv, TypeOK
  <2>2. Len(killStack') = Len(killStack) - 1
    BY <1>t, <2>1, FrontLastToSet
  <2>3. Dying' = Dying \ {Last(killStack)}
    BY <1>t, <2>1, FrontLastToSet DEF Dying, PlaceInv, ProcessPartition
  <2> QED  BY <1>t, <2>1, <2>2, <2>3 DEF KillLeft
<1> QED  BY <1>1, <1>2

\* kill() of any subtree and the loop of itInterruptHandler are done after a
\* number of iterations that is known when they start: at most two for each
\* living process, and one for each process that waits for the clock.  Nothing
\* runs in between, and no process that kill() has entered is forgotten.
THEOREM LoopsEnd == QuietHigh => (Spec => [][LoopAdvances]_vars)
<1> SUFFICES ASSUME QuietHigh PROVE Spec => [][LoopAdvances]_vars
  OBVIOUS
<1>1. LifeInv /\ LifeInv' /\ Next => LoopAdvances
  <2> SUFFICES ASSUME LifeInv, LifeInv', Next PROVE LoopAdvances
    OBVIOUS
  <2>t. PlaceInv /\ TypeOK /\ KernelAssumption /\ pseudoClockSem \in AllSems
    BY KernelAssumption DEF LifeInv, PlaceInv, AllSems, SoftSems
  <2>1. ASSUME mode = "kill"
        PROVE  /\ KillLeft \in Nat /\ KillLeft' \in Nat /\ KillLeft' < KillLeft
               /\ \A p \in Dying : p \in Dying' \cup pcbFree'
    <3>1. KillChild \/ KillReturn
      BY <2>1 DEF Next, Syscall, Interrupt, Loop, Stopped, SysSemaphore, DoIoDevice, WaitForClock,
         CreateProcess, Yield, TerminateProcess, PassUpOrDie, PltInterrupt, ItInterrupt,
         DeviceInterrupt, Interruptible, ItWakeup, ItReturn
    <3>2. KillLeft \in Nat
      BY <2>t, KillLeftNat
    <3>3. KillLeft' \in Nat
      <4>1. LifeInv' /\ KernelAssumption'
        BY <2>t DEF KernelAssumption
      <4>2. IsFiniteSet(Live')
        BY <2>t, FS_Subset DEF KernelAssumption, Live
      <4>3. processCount' \in Nat
        BY <4>2, FS_CardinalityType DEF LifeInv, CountExact
      <4>4. Len(killStack') \in Nat
        BY DEF LifeInv, PlaceInv, TypeOK
      <4> QED  BY <4>3, <4>4 DEF KillLeft
    <3> QED  BY <2>t, <3>1, <3>2, <3>3, KillAdvances
  <2>2. ASSUME mode = "tick"
        PROVE  \/ mode' # "tick" /\ semq[pseudoClockSem] = <<>>
               \/ Len(semq'[pseudoClockSem]) < Len(semq[pseudoClockSem])
    <3>1. ItWakeup \/ ItReturn
      BY <2>2 DEF Next, Syscall, Interrupt, Loop, Stopped, SysSemaphore, DoIoDevice, WaitForClock,
         CreateProcess, Yield, TerminateProcess, PassUpOrDie, PltInterrupt, ItInterrupt,
         DeviceInterrupt, Interruptible, KillChild, KillReturn
    <3>2. CASE ItReturn
      BY <2>t, <3>2 DEF ItReturn, ReturnFromInt, Scheduler, NextProcess
    <3>3. CASE ItWakeup
      <4>1. /\ semq[pseudoClockSem] \in Seq(Pcbs) /\ semq[pseudoClockSem] # <<>>
            /\ semq'[pseudoClockSem] = Tail(semq[pseudoClockSem])
        BY <2>t, <3>3 DEF ItWakeup, RemoveBlocked, TypeOK
      <4> QED  BY <4>1
    <3> QED  BY <3>1, <3>2, <3>3
  <2> QED  BY <2>1, <2>2 DEF LoopAdvances
<1>2. LifeInv /\ LifeInv' /\ [Next]_vars => [LoopAdvances]_vars
  BY <1>1
<1> QED  BY <1>2, LifeAlways, PTL DEF Spec

-----------------------------------------------------------------------------
(* What the support level is built on *)

\* NSYS3 and NSYS4 as the processes see them.
B == INSTANCE BinSem WITH val <- semVal

\* A step of the nucleus is a P or V of a process that runs and is blocked on
\* nothing, takes a process that is killed out of a queue, or does not concern
\* the semaphores of the processes.
SemStep ==
  \/ \E s \in Sems : /\ mode = "user" /\ ~B!Blocked(currentProcess)
                     /\ B!passeren(s, currentProcess) \/ B!verhogen(s, currentProcess)
  \/ \E s \in Sems : \E p \in ToSet(semq[s]) :
       p \in Dying' /\ semVal' = semVal /\ semq' = [semq EXCEPT ![s] = Without(semq[s], p)]
  \/ \A s \in Sems : semVal'[s] = semVal[s] /\ semq'[s] = semq[s]

\* Who leaves the queue of a semaphore is ready to run or killed: its P or V is
\* over and is not tried again.
WaitersResume ==
  \A s \in Sems : \A p \in ToSet(semq[s]) \ ToSet(semq'[s]) : p \in Ready' \cup Dying'

\* NSYS3 and NSYS4 do what BinSem says.
LEMMA SysSemaphoreServes ==
  ASSUME PlaceInv, KernelAssumption, SysSemaphore
  PROVE  SemStep /\ WaitersResume
<1> DEFINE c == currentProcess
<1>1. PICK s \in Sems : Passeren(s) \/ Verhogen(s)
  BY DEF SysSemaphore
<1>2. /\ mode = "user" /\ s \in AllSems /\ c \in Pcbs
      /\ semq \in [AllSems -> Seq(Pcbs)] /\ semVal \in [AllSems -> {0, 1}]
      /\ procQLow \in Seq(Pcbs) /\ procQHigh \in Seq(Pcbs)
      /\ \A p \in Pcbs : attr[p].p_prio \in {PROCESS_PRIO_LOW, PROCESS_PRIO_HIGH}
      /\ \A t \in AllSems : Distinct(semq[t]) /\ c \notin ToSet(semq[t])
  BY RunningPlaces DEF SysSemaphore, AllSems, PlaceInv, TypeOK, AttrType, ProcessPartition, Partition, Queued
<1>3. ~B!Blocked(c)
  BY <1>2 DEF B!Blocked, B!ToSet, ToSet
<1>4. PICK full \in {0, 1} : SemOp(s, full, IF full = 0 THEN -1 ELSE 1)
  BY <1>1 DEF Passeren, Verhogen
<1> HIDE DEF c
<1>5. B!SemCall(s, c, full, IF full = 0 THEN -1 ELSE 1) => B!passeren(s, c) \/ B!verhogen(s, c)
  BY DEF B!passeren, B!verhogen
<1>6. CASE semVal[s] = full /\ Suspend(s) /\ UNCHANGED semVal
  <2>1. semq' = [semq EXCEPT ![s] = Append(semq[s], c)]
    BY <1>2, <1>6, SemdsSuffice DEF Suspend, c
  <2>2. B!SemCall(s, c, full, IF full = 0 THEN -1 ELSE 1)
    BY <1>6, <2>1 DEF B!SemCall
  <2>3. ToSet(semq'[s]) = ToSet(semq[s]) \cup {c} /\ \A t \in AllSems : t # s => semq'[t] = semq[t]
    BY <1>2, <2>1, AppendToSet
  <2>4. WaitersResume
    BY <2>3 DEF WaitersResume, AllSems
  <2> QED  BY <1>2, <1>3, <1>5, <2>2, <2>4 DEF SemStep, c
<1>7. CASE semVal[s] # full /\ semq[s] # <<>> /\ RemoveBlocked(s) /\ InsertPrioProcQ(Head(semq[s])) /\ UNCHANGED semVal
  <2> DEFINE h == Head(semq[s])
  <2>1. semq' = [semq EXCEPT ![s] = Tail(semq[s])]
    BY <1>7 DEF RemoveBlocked
  <2>2. B!SemCall(s, c, full, IF full = 0 THEN -1 ELSE 1)
    BY <1>7, <2>1 DEF B!SemCall
  <2>3. /\ ToSet(semq'[s]) = ToSet(semq[s]) \ {h} /\ h \in ToSet(semq[s])
        /\ \A t \in AllSems : t # s => semq'[t] = semq[t]
    BY <1>2, <1>7, <2>1, TailToSet
  <2>4. h \in Pcbs /\ procQLow' = LowWith(h) /\ procQHigh' = HighWith(h)
    BY <1>2, <1>7, <2>3, ToSetProperties DEF InsertPrioProcQ
  <2> HIDE DEF h
  <2>5. h \in Ready'
    BY <1>2, <2>4, AppendToSet DEF LowWith, HighWith, Ready
  <2>6. WaitersResume
    BY <2>3, <2>5 DEF WaitersResume, AllSems
  <2> QED  BY <1>2, <1>3, <1>5, <2>2, <2>6 DEF SemStep, c
<1>8. CASE /\ semVal[s] # full /\ semq[s] = <<>> /\ semq' = semq
           /\ semVal' = [semVal EXCEPT ![s] = semVal[s] + IF full = 0 THEN -1 ELSE 1]
  <2>1. B!SemCall(s, c, full, IF full = 0 THEN -1 ELSE 1)
    BY <1>8 DEF B!SemCall
  <2>2. WaitersResume
    BY <1>8 DEF WaitersResume
  <2> QED  BY <1>2, <1>3, <1>5, <2>1, <2>2 DEF SemStep, c
<1> QED  BY <1>4, <1>6, <1>7, <1>8 DEF SemOp

\* NSYS5, NSYS7 and the interrupts act on the semaphores of devices and the clock,
LEMMA SoftServes ==
  ASSUME PlaceInv, KernelAssumption, DoIoDevice \/ WaitForClock \/ DeviceInterrupt \/ ItWakeup
  PROVE  SemStep /\ WaitersResume
<1>1. Devices \subseteq SoftSems /\ pseudoClockSem \in SoftSems /\ Sems \cap SoftSems = {} /\ busy \subseteq Devices
        /\ semq \in [AllSems -> Seq(Pcbs)] /\ semVal \in [AllSems -> {0, 1}]
  BY DEF SoftSems, KernelAssumption, PlaceInv, TypeOK
<1>2. ASSUME NEW d \in SoftSems, Passeren(d) PROVE \A s \in Sems : semVal'[s] = semVal[s] /\ semq'[s] = semq[s]
  BY <1>1, <1>2 DEF Passeren, SemOp, Suspend, RemoveBlocked, AllSems
<1>3. ASSUME NEW d \in SoftSems, RemoveBlocked(d) PROVE \A s \in Sems : semq'[s] = semq[s]
  BY <1>1, <1>3 DEF RemoveBlocked, AllSems
<1>4. \A s \in Sems : semVal'[s] = semVal[s] /\ semq'[s] = semq[s]
  BY <1>1, <1>2, <1>3 DEF DoIoDevice, WaitForClock, DeviceInterrupt, ItWakeup
<1> QED  BY <1>4 DEF SemStep, WaitersResume

\* kill() takes its victim out of the queue that it is in,
LEMMA KillServes ==
  ASSUME PlaceInv, KernelAssumption, NEW p \in Pcbs, EnterKill(p)
  PROVE  SemStep /\ WaitersResume
<1>1. /\ semq \in [AllSems -> Seq(Pcbs)] /\ p_semAdd[p] \in AllSems \cup {NULL} /\ killStack \in Seq(Pcbs)
      /\ \A t \in AllSems : Distinct(semq[t])
  BY DEF PlaceInv, TypeOK, ProcessPartition, Partition
<1>2. p \in Dying' /\ semVal' = semVal
  BY <1>1, AppendToSet DEF EnterKill, Dying
<1>3. CASE p_semAdd[p] = NULL
  BY <1>2, <1>3 DEF EnterKill, SemStep, WaitersResume
<1>4. CASE p_semAdd[p] # NULL
  <2> DEFINE t == p_semAdd[p]
  <2>1. t \in AllSems /\ semq' = [semq EXCEPT ![t] = Without(semq[t], p)] /\ p \in ToSet(semq[t])
    BY <1>1, <1>4 DEF EnterKill, PlaceInv, SemAddMatchesQueue
  <2> HIDE DEF t
  <2>2. ToSet(semq'[t]) = ToSet(semq[t]) \ {p} /\ \A s \in AllSems : s # t => semq'[s] = semq[s]
    BY <1>1, <2>1, OutProcQToSet
  <2>3. WaitersResume
    BY <1>2, <2>2 DEF WaitersResume, AllSems
  <2>4. SemStep
    BY <1>2, <2>1, <2>2 DEF SemStep, AllSems
  <2> QED  BY <2>3, <2>4
<1> QED  BY <1>3, <1>4

\* The semaphores of NSYS3 and NSYS4 behave as BinSem says in every step, so
\* the support level, which is modelled and proved over BinSem, may rely on it:
\* no scheduling, interrupt, time slice or kill ever gives a semaphore another
\* value or another queue, and a P or V that blocked is not repeated.
THEOREM KernelImplementsBinSem == QuietHigh => (Spec => [][SemStep /\ WaitersResume]_vars)
<1> SUFFICES ASSUME QuietHigh PROVE Spec => [][SemStep /\ WaitersResume]_vars
  OBVIOUS
<1>1. PlaceInv /\ [Next]_vars => SemStep /\ WaitersResume
  <2> SUFFICES ASSUME PlaceInv, [Next]_vars PROVE SemStep /\ WaitersResume
    OBVIOUS
  <2>1. CASE TerminateProcess \/ PassUpOrDie \/ KillChild
    BY <2>1, VictimLives, KillServes, KernelAssumption DEF Live
  <2>2. CASE UNCHANGED <<semVal, semq>>
    BY <2>2 DEF SemStep, WaitersResume
  <2>3. CASE SysSemaphore \/ DoIoDevice \/ WaitForClock \/ DeviceInterrupt \/ ItWakeup
    BY <2>3, SysSemaphoreServes, SoftServes, KernelAssumption
  <2>4. CreateProcess \/ Yield \/ PltInterrupt \/ ItInterrupt \/ ItReturn \/ KillReturn \/ Stopped \/ UNCHANGED vars
          => UNCHANGED <<semVal, semq>>
    BY DEF CreateProcess, NewProcess, Yield, PltInterrupt, ItInterrupt, ItReturn, KillReturn, Stopped, vars
  <2> QED  BY <2>1, <2>2, <2>3, <2>4 DEF Next, Syscall, Interrupt, Loop
<1> QED  BY <1>1, PlaceInvariant, PTL DEF Spec

-----------------------------------------------------------------------------
(* How the nucleus uses phase 1 *)

\* The state of phase 1 as Phase1Api has it; of the free list and of the lists of
\* children the nucleus only knows the sets.
View(free, low, high, blocked, parent) ==
  [free |-> free, low |-> low, high |-> high, semq |-> blocked, parent |-> parent]
PhaseOne == View(pcbFree, procQLow, procQHigh, semq, p_parent)

\* The PCBs that are allocated and in no queue: "held" in Phase1Api.
HeldIn(x) == Pcbs \ (x.free \cup ToSet(x.low) \cup ToSet(x.high) \cup Queued(x.semq))
Unrelated(x, p) == x.parent[p] = NULL /\ \A c \in Pcbs : x.parent[c] # p
SemdIn(x, s) ==
  x.semq[s] # <<>> \/ Cardinality({t \in AllSems : x.semq[t] # <<>>}) < Cardinality(Pcbs)

\* The calls that Phase1Api allows in x, each as the set of the states it leads to.
AllocPcbs(x) == {[x EXCEPT !.free = x.free \ {p}] : p \in x.free}
FreePcbs(x) == {[x EXCEPT !.free = x.free \cup {p}] : p \in {h \in HeldIn(x) : Unrelated(x, h)}}
InsertProcQs(x) ==
  {[x EXCEPT !.low = Append(x.low, p)] : p \in HeldIn(x)}
  \cup {[x EXCEPT !.high = Append(x.high, p)] : p \in HeldIn(x)}
RemoveProcQs(x) ==
  (IF x.low = <<>> THEN {} ELSE {[x EXCEPT !.low = Tail(x.low)]})
  \cup (IF x.high = <<>> THEN {} ELSE {[x EXCEPT !.high = Tail(x.high)]})
OutProcQs(x) ==
  {[x EXCEPT !.low = Without(x.low, p)] : p \in ToSet(x.low)}
  \cup {[x EXCEPT !.high = Without(x.high, p)] : p \in ToSet(x.high)}
InsertBlockeds(x) ==
  {[x EXCEPT !.semq = [x.semq EXCEPT ![s] = Append(x.semq[s], p)]] :
     s \in {t \in AllSems : SemdIn(x, t)}, p \in HeldIn(x)}
RemoveBlockeds(x) ==
  {[x EXCEPT !.semq = [x.semq EXCEPT ![s] = Tail(x.semq[s])]] : s \in {t \in AllSems : x.semq[t] # <<>>}}
OutBlockeds(x) ==
  UNION {{[x EXCEPT !.semq = [x.semq EXCEPT ![s] = Without(x.semq[s], p)]] : p \in ToSet(x.semq[s])} :
           s \in AllSems}
InsertChildren(x) ==
  UNION {{[x EXCEPT !.parent = [x.parent EXCEPT ![c] = r]] : r \in Pcbs \ (x.free \cup {c})} :
           c \in {h \in HeldIn(x) : Unrelated(x, h)}}
OutChildren(x) ==
  {[x EXCEPT !.parent = [x.parent EXCEPT ![c] = NULL]] : c \in {p \in Pcbs : x.parent[p] # NULL}}

\* At most one call.
AfterCall(x) ==
  {x} \cup AllocPcbs(x) \cup FreePcbs(x) \cup InsertProcQs(x) \cup RemoveProcQs(x) \cup OutProcQs(x)
      \cup InsertBlockeds(x) \cup RemoveBlockeds(x) \cup OutBlockeds(x)
      \cup InsertChildren(x) \cup OutChildren(x)

\* A step of the nucleus is at most three calls of phase 1, all of them allowed.
CallsAllowed == \E a \in AfterCall(PhaseOne) : \E b \in AfterCall(a) : PhaseOne' \in AfterCall(b)

\* What one call does, in terms of the parts of the state.
LEMMA CallResults ==
  ASSUME NEW fr, NEW lo, NEW hi, NEW sq, NEW par
  PROVE  LET x == View(fr, lo, hi, sq, par) IN
         /\ x \in AfterCall(x)
         /\ \A p \in fr : View(fr \ {p}, lo, hi, sq, par) \in AfterCall(x)
         /\ \A p \in HeldIn(x) :
              /\ Unrelated(x, p) => View(fr \cup {p}, lo, hi, sq, par) \in AfterCall(x)
              /\ View(fr, Append(lo, p), hi, sq, par) \in AfterCall(x)
              /\ View(fr, lo, Append(hi, p), sq, par) \in AfterCall(x)
              /\ \A s \in AllSems :
                   SemdIn(x, s) =>
                     View(fr, lo, hi, [sq EXCEPT ![s] = Append(sq[s], p)], par) \in AfterCall(x)
              /\ \A r \in Pcbs \ (fr \cup {p}) :
                   Unrelated(x, p) => View(fr, lo, hi, sq, [par EXCEPT ![p] = r]) \in AfterCall(x)
         /\ lo # <<>> => View(fr, Tail(lo), hi, sq, par) \in AfterCall(x)
         /\ hi # <<>> => View(fr, lo, Tail(hi), sq, par) \in AfterCall(x)
         /\ \A p \in ToSet(lo) : View(fr, Without(lo, p), hi, sq, par) \in AfterCall(x)
         /\ \A p \in ToSet(hi) : View(fr, lo, Without(hi, p), sq, par) \in AfterCall(x)
         /\ \A s \in AllSems :
              /\ sq[s] # <<>> =>
                   View(fr, lo, hi, [sq EXCEPT ![s] = Tail(sq[s])], par) \in AfterCall(x)
              /\ \A p \in ToSet(sq[s]) :
                   View(fr, lo, hi, [sq EXCEPT ![s] = Without(sq[s], p)], par) \in AfterCall(x)
         /\ \A p \in Pcbs : par[p] # NULL =>
              View(fr, lo, hi, sq, [par EXCEPT ![p] = NULL]) \in AfterCall(x)
<1> DEFINE x == View(fr, lo, hi, sq, par)
<1>1. x.free = fr /\ x.low = lo /\ x.high = hi /\ x.semq = sq /\ x.parent = par
  BY DEF View
<1>2. /\ \A v : [x EXCEPT !.free = v] = View(v, lo, hi, sq, par)
      /\ \A v : [x EXCEPT !.low = v] = View(fr, v, hi, sq, par)
      /\ \A v : [x EXCEPT !.high = v] = View(fr, lo, v, sq, par)
      /\ \A v : [x EXCEPT !.semq = v] = View(fr, lo, hi, v, par)
      /\ \A v : [x EXCEPT !.parent = v] = View(fr, lo, hi, sq, v)
  BY DEF View
<1> HIDE DEF x
<1>3. x \in AfterCall(x)
  BY DEF AfterCall
<1>4. \A p \in fr : View(fr \ {p}, lo, hi, sq, par) \in AfterCall(x)
  <2>1. \A p \in fr : View(fr \ {p}, lo, hi, sq, par) \in AllocPcbs(x)
    BY <1>1, <1>2 DEF AllocPcbs
  <2> QED  BY <2>1 DEF AfterCall
<1>5. \A p \in HeldIn(x) : Unrelated(x, p) => View(fr \cup {p}, lo, hi, sq, par) \in AfterCall(x)
  <2>1. \A p \in HeldIn(x) : Unrelated(x, p) => View(fr \cup {p}, lo, hi, sq, par) \in FreePcbs(x)
    BY <1>1, <1>2 DEF FreePcbs
  <2> QED  BY <2>1 DEF AfterCall
<1>6. \A p \in HeldIn(x) : /\ View(fr, Append(lo, p), hi, sq, par) \in AfterCall(x)
                           /\ View(fr, lo, Append(hi, p), sq, par) \in AfterCall(x)
  <2>1. ASSUME NEW p \in HeldIn(x)
        PROVE  /\ View(fr, Append(lo, p), hi, sq, par) \in InsertProcQs(x)
               /\ View(fr, lo, Append(hi, p), sq, par) \in InsertProcQs(x)
    <3>1. /\ View(fr, Append(lo, p), hi, sq, par) = [x EXCEPT !.low = Append(x.low, p)]
          /\ View(fr, lo, Append(hi, p), sq, par) = [x EXCEPT !.high = Append(x.high, p)]
      BY <1>1, <1>2
    <3> QED  BY <3>1 DEF InsertProcQs
  <2> QED  BY <2>1 DEF AfterCall
<1>7. \A p \in HeldIn(x), s \in AllSems :
        SemdIn(x, s) => View(fr, lo, hi, [sq EXCEPT ![s] = Append(sq[s], p)], par) \in AfterCall(x)
  <2>1. \A p \in HeldIn(x), s \in AllSems :
          SemdIn(x, s) =>
            View(fr, lo, hi, [sq EXCEPT ![s] = Append(sq[s], p)], par) \in InsertBlockeds(x)
    <3> SUFFICES ASSUME NEW p \in HeldIn(x), NEW s \in AllSems, SemdIn(x, s)
                 PROVE  View(fr, lo, hi, [sq EXCEPT ![s] = Append(sq[s], p)], par) \in InsertBlockeds(x)
      OBVIOUS
    <3>1. View(fr, lo, hi, [sq EXCEPT ![s] = Append(sq[s], p)], par)
            = [x EXCEPT !.semq = [x.semq EXCEPT ![s] = Append(x.semq[s], p)]]
      BY <1>1, <1>2
    <3> QED  BY <3>1 DEF InsertBlockeds
  <2> QED  BY <2>1 DEF AfterCall
<1>8. \A p \in HeldIn(x) : \A r \in Pcbs \ (fr \cup {p}) :
        Unrelated(x, p) => View(fr, lo, hi, sq, [par EXCEPT ![p] = r]) \in AfterCall(x)
  <2> SUFFICES ASSUME NEW p \in HeldIn(x), NEW r \in Pcbs \ (fr \cup {p}), Unrelated(x, p)
               PROVE  View(fr, lo, hi, sq, [par EXCEPT ![p] = r]) \in AfterCall(x)
    OBVIOUS
  <2>1. View(fr, lo, hi, sq, [par EXCEPT ![p] = r]) = [x EXCEPT !.parent = [x.parent EXCEPT ![p] = r]]
    BY <1>1, <1>2
  <2>2. View(fr, lo, hi, sq, [par EXCEPT ![p] = r]) \in InsertChildren(x)
    BY <1>1, <2>1 DEF InsertChildren
  <2> QED  BY <2>2 DEF AfterCall
<1>9. /\ lo # <<>> => View(fr, Tail(lo), hi, sq, par) \in AfterCall(x)
      /\ hi # <<>> => View(fr, lo, Tail(hi), sq, par) \in AfterCall(x)
  <2>1. /\ lo # <<>> => View(fr, Tail(lo), hi, sq, par) \in RemoveProcQs(x)
        /\ hi # <<>> => View(fr, lo, Tail(hi), sq, par) \in RemoveProcQs(x)
    BY <1>1, <1>2 DEF RemoveProcQs
  <2> QED  BY <2>1 DEF AfterCall
<1>10. /\ \A p \in ToSet(lo) : View(fr, Without(lo, p), hi, sq, par) \in AfterCall(x)
       /\ \A p \in ToSet(hi) : View(fr, lo, Without(hi, p), sq, par) \in AfterCall(x)
  <2>1. /\ \A p \in ToSet(lo) : View(fr, Without(lo, p), hi, sq, par) \in OutProcQs(x)
        /\ \A p \in ToSet(hi) : View(fr, lo, Without(hi, p), sq, par) \in OutProcQs(x)
    BY <1>1, <1>2 DEF OutProcQs
  <2> QED  BY <2>1 DEF AfterCall
<1>11. \A s \in AllSems : sq[s] # <<>> =>
         View(fr, lo, hi, [sq EXCEPT ![s] = Tail(sq[s])], par) \in AfterCall(x)
  <2>1. ASSUME NEW s \in AllSems, sq[s] # <<>>
        PROVE  View(fr, lo, hi, [sq EXCEPT ![s] = Tail(sq[s])], par) \in RemoveBlockeds(x)
    <3>1. View(fr, lo, hi, [sq EXCEPT ![s] = Tail(sq[s])], par)
            = [x EXCEPT !.semq = [x.semq EXCEPT ![s] = Tail(x.semq[s])]]
      BY <1>1, <1>2
    <3> QED  BY <1>1, <2>1, <3>1 DEF RemoveBlockeds
  <2> QED  BY <2>1 DEF AfterCall
<1>12. \A s \in AllSems : \A p \in ToSet(sq[s]) :
         View(fr, lo, hi, [sq EXCEPT ![s] = Without(sq[s], p)], par) \in AfterCall(x)
  <2> SUFFICES ASSUME NEW s \in AllSems, NEW p \in ToSet(sq[s])
               PROVE  View(fr, lo, hi, [sq EXCEPT ![s] = Without(sq[s], p)], par) \in AfterCall(x)
    OBVIOUS
  <2>1. View(fr, lo, hi, [sq EXCEPT ![s] = Without(sq[s], p)], par)
          = [x EXCEPT !.semq = [x.semq EXCEPT ![s] = Without(x.semq[s], p)]]
    BY <1>1, <1>2
  <2>2. View(fr, lo, hi, [sq EXCEPT ![s] = Without(sq[s], p)], par) \in OutBlockeds(x)
    BY <1>1, <2>1 DEF OutBlockeds
  <2> QED  BY <2>2 DEF AfterCall
<1>13. \A p \in Pcbs : par[p] # NULL => View(fr, lo, hi, sq, [par EXCEPT ![p] = NULL]) \in AfterCall(x)
  <2>1. \A p \in Pcbs : par[p] # NULL =>
          View(fr, lo, hi, sq, [par EXCEPT ![p] = NULL]) \in OutChildren(x)
    BY <1>1, <1>2 DEF OutChildren
  <2> QED  BY <2>1 DEF AfterCall
<1> QED  BY <1>3, <1>4, <1>5, <1>6, <1>7, <1>8, <1>9, <1>10, <1>11, <1>12, <1>13 DEF x
LEMMA NextPhaseOne == PhaseOne' = View(pcbFree', procQLow', procQHigh', semq', p_parent')
BY DEF PhaseOne, View

\* The calls of a step, one after the other.
LEMMA InSequence ==
  ASSUME NEW a, NEW b, a \in AfterCall(PhaseOne), b \in AfterCall(a), PhaseOne' \in AfterCall(b)
  PROVE  CallsAllowed
BY DEF CallsAllowed

LEMMA NoCall == \A fr, lo, hi, sq, par : View(fr, lo, hi, sq, par) \in AfterCall(View(fr, lo, hi, sq, par))
BY CallResults

\* A process on the processor or in the hands of kill() is in no list of phase 1.
LEMMA HeldPlace ==
  ASSUME NEW fr, NEW lo, NEW hi, NEW sq, NEW par, NEW dying, NEW running,
         Partition(lo, hi, sq, fr, dying, running), NEW p \in dying \cup running
  PROVE  p \in HeldIn(View(fr, lo, hi, sq, par))
BY DEF Partition, HeldIn, View

\* removeProcQ of the scheduler
LEMMA DispatchCall ==
  ASSUME NEW lo, NEW hi, NEW force, NEW cur, NEW timer, Scheduler(lo, hi, force, cur, timer),
         NEW fr, NEW sq, NEW par
  PROVE  View(fr, procQLow', procQHigh', sq, par) \in AfterCall(View(fr, lo, hi, sq, par))
<1>1. \/ hi # <<>> /\ procQHigh' = Tail(hi) /\ procQLow' = lo
      \/ lo # <<>> /\ procQLow' = Tail(lo) /\ procQHigh' = hi
      \/ procQLow' = lo /\ procQHigh' = hi
  BY DEF Scheduler
<1>2. CASE hi # <<>> /\ procQHigh' = Tail(hi) /\ procQLow' = lo
  BY <1>2, CallResults
<1>3. CASE lo # <<>> /\ procQLow' = Tail(lo) /\ procQHigh' = hi
  BY <1>3, CallResults
<1>4. CASE procQLow' = lo /\ procQHigh' = hi
  BY <1>4, NoCall
<1> QED  BY <1>1, <1>2, <1>3, <1>4

LEMMA ReturnCall ==
  ASSUME NEW lo, NEW hi, ReturnFromInt(lo, hi), NEW fr, NEW sq, NEW par
  PROVE  View(fr, procQLow', procQHigh', sq, par) \in AfterCall(View(fr, lo, hi, sq, par))
<1>1. CASE Scheduler(lo, hi, forceLowQ, NULL, plt)
  BY <1>1, DispatchCall
<1>2. CASE procQLow' = lo /\ procQHigh' = hi
  BY <1>2, NoCall
<1> QED  BY <1>1, <1>2 DEF ReturnFromInt

\* insertPrioProcQ of a process that is held
LEMMA ReadyCall ==
  ASSUME TypeOK, NEW p \in Pcbs, NEW fr, NEW sq, NEW par,
         p \in HeldIn(View(fr, procQLow, procQHigh, sq, par))
  PROVE  View(fr, LowWith(p), HighWith(p), sq, par)
           \in AfterCall(View(fr, procQLow, procQHigh, sq, par))
<1>1. \/ LowWith(p) = Append(procQLow, p) /\ HighWith(p) = procQHigh
      \/ LowWith(p) = procQLow /\ HighWith(p) = Append(procQHigh, p)
  BY DEF TypeOK, AttrType, LowWith, HighWith, PROCESS_PRIO_LOW, PROCESS_PRIO_HIGH
<1>2. CASE LowWith(p) = Append(procQLow, p) /\ HighWith(p) = procQHigh
  BY <1>2, CallResults
<1>3. CASE LowWith(p) = procQLow /\ HighWith(p) = Append(procQHigh, p)
  BY <1>3, CallResults
<1> QED  BY <1>1, <1>2, <1>3

\* removeBlocked and insertPrioProcQ of the first process that waits
LEMMA WakeCalls ==
  ASSUME PlaceInv, KernelAssumption, NEW s \in AllSems, semq[s] # <<>>, RemoveBlocked(s),
         killStack = <<>>
  PROVE  LET h == Head(semq[s])
             a == View(pcbFree, procQLow, procQHigh, semq', p_parent)
         IN  /\ a \in AfterCall(PhaseOne)
             /\ View(pcbFree, LowWith(h), HighWith(h), semq', p_parent) \in AfterCall(a)
<1> DEFINE h == Head(semq[s])
           a == View(pcbFree, procQLow, procQHigh, semq', p_parent)
<1>1. semq' = [semq EXCEPT ![s] = Tail(semq[s])]
  BY DEF RemoveBlocked
<1>2. a \in AfterCall(PhaseOne)
  BY <1>1, CallResults DEF PhaseOne
<1>3. h \in Pcbs /\ Partition(procQLow, procQHigh, semq', pcbFree, {}, Running \cup {h})
  BY RemovePlaces
<1> HIDE DEF h
<1>4. h \in HeldIn(a)
  BY <1>3, HeldPlace
<1>5. View(pcbFree, LowWith(h), HighWith(h), semq', p_parent) \in AfterCall(a)
  BY <1>3, <1>4, ReadyCall DEF PlaceInv
<1> QED  BY <1>2, <1>5 DEF h

\* P and V: insertBlocked and the scheduler, or a wakeup, or no call.
LEMMA SemOpCalls ==
  ASSUME PlaceInv, KernelAssumption, mode = "user", NEW s \in AllSems,
         Passeren(s) \/ Verhogen(s), UNCHANGED <<pcbFree, p_parent>>
  PROVE  CallsAllowed
<1>1. CASE Suspend(s)
  <2> DEFINE a == View(pcbFree, procQLow, procQHigh, semq', p_parent)
  <2>1. /\ SemdAvailable(s) /\ semq' = [semq EXCEPT ![s] = Append(semq[s], currentProcess)]
        /\ Scheduler(procQLow, procQHigh, forceLowQ, currentProcess, plt)
    BY <1>1, SemdsSuffice DEF Suspend
  <2>2. currentProcess \in HeldIn(PhaseOne)
    BY RunningPlaces, HeldPlace DEF PhaseOne
  <2>3. SemdIn(PhaseOne, s)
    BY <2>1 DEF SemdAvailable, SemdIn, PhaseOne, View
  <2>4. a \in AfterCall(PhaseOne)
    BY <2>1, <2>2, <2>3, CallResults DEF PhaseOne
  <2>5. PhaseOne' \in AfterCall(a)
    BY <2>1, DispatchCall, NextPhaseOne
  <2> HIDE DEF a
  <2>6. PhaseOne' \in AfterCall(PhaseOne')
    BY NoCall, NextPhaseOne
  <2> QED  BY <2>4, <2>5, <2>6, InSequence
<1>2. CASE semq[s] # <<>> /\ RemoveBlocked(s) /\ InsertPrioProcQ(Head(semq[s]))
  <2> DEFINE a == View(pcbFree, procQLow, procQHigh, semq', p_parent)
  <2>1. killStack = <<>>
    BY RunningPlaces
  <2>2. a \in AfterCall(PhaseOne) /\ PhaseOne' \in AfterCall(a)
    BY <1>2, <2>1, WakeCalls, NextPhaseOne DEF InsertPrioProcQ
  <2> HIDE DEF a
  <2>3. PhaseOne' \in AfterCall(PhaseOne')
    BY NoCall, NextPhaseOne
  <2> QED  BY <2>2, <2>3, InSequence
<1>3. CASE UNCHANGED <<semq, procQLow, procQHigh>>
  <2>1. PhaseOne' = PhaseOne /\ PhaseOne \in AfterCall(PhaseOne)
    BY <1>3, NoCall, NextPhaseOne DEF PhaseOne
  <2> QED  BY <2>1, InSequence
<1> QED  BY <1>1, <1>2, <1>3 DEF Passeren, Verhogen, SemOp

\* kill(): outChild, and outBlocked or outProcQ
LEMMA EnterKillCalls ==
  ASSUME PlaceInv, KernelAssumption, NEW p \in Pcbs, EnterKill(p)
  PROVE  CallsAllowed
<1> DEFINE a == View(pcbFree, procQLow, procQHigh, semq, p_parent')
<1>t. /\ p_parent \in [Pcbs -> Pcbs \cup {NULL}] /\ p_semAdd \in [Pcbs -> AllSems \cup {NULL}]
      /\ attr[p].p_prio \in {PROCESS_PRIO_LOW, PROCESS_PRIO_HIGH}
      /\ PROCESS_PRIO_LOW # PROCESS_PRIO_HIGH
  BY DEF PlaceInv, TypeOK, AttrType, PROCESS_PRIO_LOW, PROCESS_PRIO_HIGH
<1>1. p_parent' = [p_parent EXCEPT ![p] = NULL] /\ pcbFree' = pcbFree
  BY DEF EnterKill
<1>2. a \in AfterCall(PhaseOne)
  <2>1. CASE p_parent[p] # NULL
    BY <1>1, <2>1, CallResults DEF PhaseOne
  <2>2. CASE p_parent[p] = NULL
    <3>1. p_parent' = p_parent
      BY <1>t, <1>1, <2>2
    <3> QED  BY <3>1, NoCall DEF PhaseOne
  <2> QED  BY <2>1, <2>2
<1>3. PhaseOne' \in AfterCall(a)
  <2>1. CASE p_semAdd[p] # NULL
    <3>1. PICK s \in AllSems : s = p_semAdd[p]
      BY <1>t, <2>1
    <3>2. semq' = [semq EXCEPT ![s] = Without(semq[s], p)] /\ UNCHANGED <<procQLow, procQHigh>>
      BY <2>1, <3>1 DEF EnterKill
    <3>3. p \in ToSet(semq[s])
      BY <3>1 DEF PlaceInv, SemAddMatchesQueue
    <3> QED  BY <1>1, <3>2, <3>3, CallResults, NextPhaseOne
  <2>2. CASE p_semAdd[p] = NULL
    <3>1. /\ semq' = semq
          /\ procQLow' = IF attr[p].p_prio = PROCESS_PRIO_LOW THEN Without(procQLow, p) ELSE procQLow
          /\ procQHigh' = IF attr[p].p_prio = PROCESS_PRIO_HIGH THEN Without(procQHigh, p) ELSE procQHigh
      BY <2>2 DEF EnterKill, OutPrioProcQ
    <3>2. \A q : p \notin ToSet(q) => Without(q, p) = q
      BY DEF Without
    <3>3. \/ procQLow' = procQLow /\ procQHigh' = procQHigh
          \/ p \in ToSet(procQLow) /\ procQLow' = Without(procQLow, p) /\ procQHigh' = procQHigh
          \/ p \in ToSet(procQHigh) /\ procQHigh' = Without(procQHigh, p) /\ procQLow' = procQLow
      BY <1>t, <3>1, <3>2
    <3>4. View(pcbFree, procQLow', procQHigh', semq, p_parent') \in AfterCall(a)
      BY <3>3, CallResults
    <3> QED  BY <1>1, <3>1, <3>4, NextPhaseOne
  <2> QED  BY <2>1, <2>2
<1> HIDE DEF a
<1>4. PhaseOne' \in AfterCall(PhaseOne')
  BY NoCall, NextPhaseOne
<1> QED  BY <1>2, <1>3, <1>4, InSequence
\* NSYS1: allocPcb, insertChild and insertPrioProcQ.  The new process has no
\* relatives, as nobody's parent is dead.
LEMMA CreateCalls ==
  ASSUME PlaceInv, OneTree, KernelAssumption, CreateProcess
  PROVE  CallsAllowed
<1>1. PICK p \in pcbFree, at \in Attrs : NewProcess(p, at)
  BY DEF CreateProcess
<1> DEFINE c == currentProcess
           a == View(pcbFree \ {p}, procQLow, procQHigh, semq, p_parent)
           b == View(pcbFree \ {p}, procQLow, procQHigh, semq, [p_parent EXCEPT ![p] = c])
<1>2. /\ pcbFree' = pcbFree \ {p} /\ p_parent' = [p_parent EXCEPT ![p] = c] /\ semq' = semq
      /\ procQLow'  = IF at.p_prio = PROCESS_PRIO_LOW  THEN Append(procQLow, p)  ELSE procQLow
      /\ procQHigh' = IF at.p_prio = PROCESS_PRIO_HIGH THEN Append(procQHigh, p) ELSE procQHigh
  BY <1>1 DEF NewProcess
<1>3. /\ c \in Pcbs /\ Dying = {}
      /\ Partition(procQLow, procQHigh, semq, pcbFree, {}, {} \cup {c})
  BY RunningPlaces DEF CreateProcess
<1>4. /\ p \in Pcbs /\ p # c /\ c \notin pcbFree /\ p_parent[p] = NULL /\ NULL \notin Pcbs
      /\ at.p_prio \in {PROCESS_PRIO_LOW, PROCESS_PRIO_HIGH} /\ PROCESS_PRIO_LOW # PROCESS_PRIO_HIGH
  BY <1>3 DEF PlaceInv, TypeOK, DeadDetached, Partition, KernelAssumption, AttrType,
     PROCESS_PRIO_LOW, PROCESS_PRIO_HIGH
<1>5. \A r \in Pcbs : p_parent[r] # p
  BY <1>3, <1>4 DEF PlaceInv, DeadDetached, OneTree, Live
<1> HIDE DEF c
<1>6. a \in AfterCall(PhaseOne)
  BY CallResults DEF PhaseOne
<1>7. p \in HeldIn(a) /\ p \in HeldIn(b)
  BY <1>3, <1>4 DEF HeldIn, View, Partition
<1>8. b \in AfterCall(a)
  <2>1. Unrelated(a, p)
    BY <1>4, <1>5 DEF Unrelated, View
  <2>2. c \in Pcbs \ ((pcbFree \ {p}) \cup {p})
    BY <1>3, <1>4
  <2> QED  BY <1>7, <2>1, <2>2, CallResults
<1>9. PhaseOne' \in AfterCall(b)
  <2>1. \/ procQLow' = Append(procQLow, p) /\ procQHigh' = procQHigh
        \/ procQLow' = procQLow /\ procQHigh' = Append(procQHigh, p)
    BY <1>2, <1>4
  <2>2. View(pcbFree \ {p}, procQLow', procQHigh', semq, [p_parent EXCEPT ![p] = c]) \in AfterCall(b)
    BY <1>7, <2>1, CallResults
  <2> QED  BY <1>2, <2>2, NextPhaseOne
<1> QED  BY <1>6, <1>8, <1>9, InSequence

\* The end of kill(): freePcb of a process that is in no list and has neither
\* parent nor children, and the scheduler.
LEMMA KillReturnCalls ==
  ASSUME PlaceInv, KernelAssumption, KillReturn
  PROVE  CallsAllowed
<1> DEFINE top == Last(killStack)
           a == View(pcbFree', procQLow, procQHigh, semq, p_parent)
<1>1. /\ pcbFree' = pcbFree \cup {top} /\ UNCHANGED <<semq, p_parent>>
      /\ \A c \in Pcbs : p_parent[c] # top
      /\ \/ UNCHANGED <<procQLow, procQHigh>>
         \/ \E cur : Scheduler(procQLow, procQHigh, forceLowQ, cur, plt)
  BY DEF KillReturn, FreePcb, Children
<1>2. top \in Dying
  BY FrontLastToSet DEF PlaceInv, TypeOK, KillReturn, Dying
<1>3. top \in HeldIn(PhaseOne)
  BY <1>2, HeldPlace DEF PlaceInv, ProcessPartition, PhaseOne
<1>4. Unrelated(PhaseOne, top)
  BY <1>1, <1>2 DEF PlaceInv, DeadDetached, Unrelated, PhaseOne, View
<1> HIDE DEF top
<1>5. a \in AfterCall(PhaseOne)
  BY <1>1, <1>3, <1>4, CallResults DEF PhaseOne
<1>6. PhaseOne' \in AfterCall(a)
  BY <1>1, DispatchCall, NoCall, NextPhaseOne
<1> HIDE DEF a
<1>7. PhaseOne' \in AfterCall(PhaseOne')
  BY NoCall, NextPhaseOne
<1> QED  BY <1>5, <1>6, <1>7, InSequence

\* yield and the PLT: insertProcQ of the caller, and the scheduler.
LEMMA GiveWayCalls ==
  ASSUME PlaceInv, KernelAssumption, Yield \/ PltInterrupt
  PROVE  CallsAllowed
<1> DEFINE c == currentProcess
<1>1. /\ c \in Pcbs /\ c \in HeldIn(PhaseOne) /\ TypeOK
      /\ UNCHANGED <<pcbFree, semq, p_parent>>
  <2>1. mode = "user" /\ UNCHANGED <<pcbFree, semq, p_parent>>
    BY DEF Yield, PltInterrupt
  <2>2. c \in Pcbs /\ Partition(procQLow, procQHigh, semq, pcbFree, {}, {} \cup {c})
    BY <2>1, RunningPlaces
  <2>3. c \in HeldIn(PhaseOne)
    BY <2>2, HeldPlace DEF PhaseOne
  <2> QED  BY <2>1, <2>2, <2>3 DEF PlaceInv
<1>2. PICK lo, hi : /\ View(pcbFree, lo, hi, semq, p_parent) \in AfterCall(PhaseOne)
                    /\ \E force, timer : Scheduler(lo, hi, force, c, timer)
  <2>1. CASE Yield
    <3>1. View(pcbFree, LowWith(c), HighWith(c), semq, p_parent) \in AfterCall(PhaseOne)
      BY <1>1, ReadyCall DEF PhaseOne
    <3> QED  BY <2>1, <3>1 DEF Yield
  <2>2. CASE PltInterrupt
    <3>1. View(pcbFree, Append(procQLow, c), procQHigh, semq, p_parent) \in AfterCall(PhaseOne)
      BY <1>1, CallResults DEF PhaseOne
    <3> QED  BY <2>2, <3>1 DEF PltInterrupt
  <2> QED  BY <2>1, <2>2
<1> DEFINE a == View(pcbFree, lo, hi, semq, p_parent)
<1>3. PhaseOne' \in AfterCall(a)
  BY <1>1, <1>2, DispatchCall, NextPhaseOne
<1>4. PhaseOne' \in AfterCall(PhaseOne')
  BY NoCall, NextPhaseOne
<1> QED  BY <1>2, <1>3, <1>4, InSequence

\* The interrupt of a device: a wakeup, and the scheduler if nobody ran.
LEMMA DeviceCalls ==
  ASSUME PlaceInv, KernelAssumption, DeviceInterrupt
  PROVE  CallsAllowed
<1>1. PICK d \in busy :
        IF semq[d] = <<>> THEN semq' = semq /\ ReturnFromInt(procQLow, procQHigh)
        ELSE RemoveBlocked(d) /\ ReturnFromInt(LowWith(Head(semq[d])), HighWith(Head(semq[d])))
  BY DEF DeviceInterrupt
<1>2. d \in AllSems /\ killStack = <<>> /\ UNCHANGED <<pcbFree, p_parent>>
  BY DEF PlaceInv, TypeOK, AllSems, SoftSems, DeviceInterrupt, Interruptible
<1>3. PhaseOne' \in AfterCall(PhaseOne') /\ PhaseOne \in AfterCall(PhaseOne)
  BY NoCall, NextPhaseOne DEF PhaseOne
<1>4. CASE semq[d] = <<>>
  <2>1. PhaseOne' \in AfterCall(PhaseOne)
    BY <1>1, <1>2, <1>4, ReturnCall, NextPhaseOne DEF PhaseOne
  <2> QED  BY <1>3, <2>1, InSequence
<1>5. CASE semq[d] # <<>>
  <2> DEFINE h == Head(semq[d])
             a == View(pcbFree, procQLow, procQHigh, semq', p_parent)
             b == View(pcbFree, LowWith(h), HighWith(h), semq', p_parent)
  <2>1. a \in AfterCall(PhaseOne) /\ b \in AfterCall(a)
    BY <1>1, <1>2, <1>5, WakeCalls
  <2>2. PhaseOne' \in AfterCall(b)
    BY <1>1, <1>2, <1>5, ReturnCall, NextPhaseOne
  <2> QED  BY <2>1, <2>2, InSequence
<1> QED  BY <1>4, <1>5

\* The nucleus keeps to the interface of phase 1.  Whatever processes and
\* interrupts do, a handler changes the queues, the ASL, the free list and the
\* tree only by calls that Phase1Api allows: it inserts only PCBs that are in no
\* list, frees none with relatives, adopts none that has a parent, and finds a
\* SEMD when it blocks one.  So what Phase1Proofs shows of pcb.c and asl.c holds
\* under the nucleus.
THEOREM PhaseOneUsedWell == QuietHigh => (Spec => [][CallsAllowed]_vars)
<1> SUFFICES ASSUME QuietHigh PROVE Spec => [][CallsAllowed]_vars
  OBVIOUS
<1>1. LifeInv /\ Next => CallsAllowed
  <2> SUFFICES ASSUME LifeInv, Next PROVE CallsAllowed
    OBVIOUS
  <2>t. PlaceInv /\ OneTree /\ KernelAssumption /\ PhaseOne' \in AfterCall(PhaseOne')
        /\ PhaseOne \in AfterCall(PhaseOne)
    BY KernelAssumption, NoCall, NextPhaseOne DEF LifeInv, PhaseOne
  <2>1. CASE SysSemaphore \/ DoIoDevice \/ WaitForClock
    BY <2>t, <2>1, SemOpCalls DEF SysSemaphore, DoIoDevice, WaitForClock, AllSems, SoftSems
  <2>2. CASE CreateProcess
    BY <2>t, <2>2, CreateCalls
  <2>3. CASE Yield \/ PltInterrupt
    BY <2>t, <2>3, GiveWayCalls
  <2>4. CASE TerminateProcess \/ PassUpOrDie \/ KillChild
    BY <2>t, <2>4, VictimLives, EnterKillCalls DEF Live
  <2>5. CASE KillReturn
    BY <2>t, <2>5, KillReturnCalls
  <2>6. CASE ItWakeup
    <3> DEFINE a == View(pcbFree, procQLow, procQHigh, semq', p_parent)
    <3>1. /\ pseudoClockSem \in AllSems /\ semq[pseudoClockSem] # <<>> /\ killStack = <<>>
          /\ RemoveBlocked(pseudoClockSem) /\ InsertPrioProcQ(Head(semq[pseudoClockSem]))
          /\ UNCHANGED <<pcbFree, p_parent>>
      BY <2>t, <2>6 DEF AllSems, SoftSems, ItWakeup, PlaceInv, TypeOK
    <3>2. a \in AfterCall(PhaseOne) /\ PhaseOne' \in AfterCall(a)
      BY <2>t, <3>1, WakeCalls, NextPhaseOne DEF InsertPrioProcQ
    <3> HIDE DEF a
    <3> QED  BY <2>t, <3>2, InSequence
  <2>7. CASE ItReturn
    <3>1. PhaseOne' \in AfterCall(PhaseOne)
      BY <2>7, ReturnCall, NextPhaseOne DEF ItReturn, PhaseOne
    <3> QED  BY <2>t, <3>1, InSequence
  <2>8. CASE DeviceInterrupt
    BY <2>t, <2>8, DeviceCalls
  <2>9. CASE ItInterrupt \/ Stopped
    <3>1. PhaseOne' = PhaseOne
      BY <2>9, NextPhaseOne DEF ItInterrupt, Stopped, vars, PhaseOne
    <3> QED  BY <2>t, <3>1, InSequence
  <2> QED  BY <2>1, <2>2, <2>3, <2>4, <2>5, <2>6, <2>7, <2>8, <2>9 DEF Next, Syscall, Interrupt, Loop
<1> QED  BY <1>1, LifeAlways, PTL DEF Spec
=============================================================================
