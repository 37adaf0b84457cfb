---------------------------- MODULE KernelProps -----------------------------
(***************************************************************************)
(* What the nucleus promises, stated over the states and steps of Kernel.  *)
(***************************************************************************)
EXTENDS Kernel

Ready   == ToSet(procQLow) \cup ToSet(procQHigh)
Queued(sq) == {p \in Pcbs : \E s \in AllSems : p \in ToSet(sq[s])}
Blocked == Queued(semq)
Dying   == ToSet(killStack)

\* kill() has unlinked currentProcess but has not cleared it yet; on PANIC it
\* still points to the process that blocked last.
Running == IF currentProcess = NULL \/ mode \in {"halt", "panic"}
           THEN {} ELSE {currentProcess} \ Dying

\* Processes that exist for processCount.
Live == Pcbs \ (pcbFree \cup Dying)

\* High priority processes run with interrupts masked: the stale PLT of the
\* process before them cannot reach them.
QuietHigh == \A a \in Attrs : a.p_prio = PROCESS_PRIO_HIGH => ~a.im

-----------------------------------------------------------------------------

\* The variables keep their types.  A semaphore is never anything but 0 or 1,
\* a process executes whenever the processor is in user mode, and forceLowQ
\* never outlives the call of the scheduler it was set for.
TypeOK ==
  /\ procQLow \in Seq(Pcbs) /\ procQHigh \in Seq(Pcbs)
  /\ semq \in [AllSems -> Seq(Pcbs)]
  /\ semVal \in [AllSems -> {0, 1}]
  /\ p_semAdd \in [Pcbs -> AllSems \cup {NULL}]
  /\ p_parent \in [Pcbs -> Pcbs \cup {NULL}]
  /\ attr \in [Pcbs -> AttrType]
  /\ pcbFree \subseteq Pcbs
  /\ currentProcess \in Pcbs \cup {NULL}
  /\ processCount \in Int /\ softBlockCount \in Int
  /\ forceLowQ = FALSE
  /\ plt \in BOOLEAN
  /\ busy \subseteq Devices
  /\ mode \in Modes
  /\ killStack \in Seq(Pcbs)
  /\ mode = "user" => currentProcess \in Pcbs
  /\ mode = "kill" => killStack # <<>>
  /\ mode \notin {"kill", "corrupt"} => killStack = <<>>

\* Every PCB is in exactly one of these places, and queued there only once.
Partition(lo, hi, sq, free, dying, running) ==
  /\ Distinct(lo) /\ Distinct(hi) /\ \A s \in AllSems : Distinct(sq[s])
  /\ Pcbs = free \cup ToSet(lo) \cup ToSet(hi) \cup Queued(sq) \cup dying \cup running
  /\ ToSet(lo) \cap ToSet(hi) = {}
  /\ (ToSet(lo) \cup ToSet(hi)) \cap (Queued(sq) \cup free \cup dying \cup running) = {}
  /\ Queued(sq) \cap (free \cup dying \cup running) = {}
  /\ free \cap (dying \cup running) = {}
  /\ dying \cap running = {}

\* No process is lost or duplicated: a PCB is in exactly one of the free list,
\* the two ready queues, the queues of the semaphores, the hands of kill() and
\* the processor, whatever interleaving of calls, interrupts and terminations.
ProcessPartition ==
  /\ Partition(procQLow, procQHigh, semq, pcbFree, Dying, Running)
  /\ Distinct(killStack)

\* p_semAdd tells where a process is blocked, so it is blocked on one semaphore
\* at most: kill() relies on it to choose between the queue of a semaphore and
\* the ready queues.
SemAddMatchesQueue ==
  \A p \in Pcbs, s \in AllSems : p_semAdd[p] = s <=> p \in ToSet(semq[s])

\* processCount is the number of live processes at every point of every
\* handler, including between the iterations of kill().
CountExact == processCount = Cardinality(Live)

\* softBlockCount counts at least the processes blocked on a device or on the
\* clock, so an empty machine that waits for an interrupt never panics.
SoftBlocked == {p \in Pcbs : \E s \in SoftSems : p \in ToSet(semq[s])}
SoftBlockCovers == softBlockCount >= Cardinality(SoftBlocked)

\* variables.h:11: whenever a process runs, softBlockCount is the "number of
\* blocked processes (due to an I/O or timer request)".
SoftBlockExact == mode = "user" => softBlockCount = Cardinality(SoftBlocked)

\* The system halts only when every process is dead, and panics only in a
\* genuine deadlock: every live process sleeps on a semaphore that no interrupt
\* will release.  In particular the SEMDs are never exhausted.
StopsOnlyWhenStuck ==
  /\ mode = "halt" => pcbFree = Pcbs
  /\ mode = "panic" => Live = {p \in Pcbs : \E s \in Sems : p \in ToSet(semq[s])}

\* The live processes form one tree: the parent of a live process is live or
\* being killed, at most one live process has none, and no live process is
\* among its own ancestors.  Once kill() is over there is nothing left of the
\* progeny of its victim.
OneTree ==
  /\ \A p \in Live : p_parent[p] \in Live \cup Dying \cup {NULL}
  /\ \A p, q \in Live : p_parent[p] = NULL /\ p_parent[q] = NULL => p = q
  /\ \A P \in SUBSET Live : P # {} => \E p \in P : p_parent[p] \notin P

\* A ready process waits in the queue of its priority.
ByPriority(lo, hi, at) ==
  /\ \A p \in ToSet(lo) : at[p].p_prio = PROCESS_PRIO_LOW
  /\ \A p \in ToSet(hi) : at[p].p_prio = PROCESS_PRIO_HIGH
ReadyByPriority == ByPriority(procQLow, procQHigh, attr)

\* helpers.c:145, "remove proc from the ready queue": freePcb() never relinks a
\* PCB that a ready queue still holds.
KillUnlinks == mode # "corrupt"

-----------------------------------------------------------------------------
(* Steps *)

\* The scheduler takes p from the low priority queue.
DispatchesLow ==
  /\ mode' = "user" /\ currentProcess' # NULL
  /\ currentProcess # currentProcess'
  /\ currentProcess' \in ToSet(procQLow)

\* A low priority process is dispatched over a ready high priority one only
\* when a high priority process has just yielded: forceLowQ lasts one dispatch.
PriorityRespected ==
  [][DispatchesLow /\ procQHigh' # <<>> =>
       /\ currentProcess \in ToSet(procQHigh')
       /\ attr[currentProcess].p_prio = PROCESS_PRIO_HIGH]_vars

\* doc.md:138: a yield never runs the process that gives way again while any
\* other process, of either priority, is ready.  (Such a yield could change
\* nothing, so it is not seen by an action property.)
YieldGivesWay ==
  /\ mode = "user"
  /\ currentProcess =
       NextProcess(LowWith(currentProcess), HighWith(currentProcess), YieldForcesLow)
  => Ready = {}

-----------------------------------------------------------------------------
(* Liveness *)

\* Killing a subtree ends, and its processes go back to the free list.
KillTerminates == \A p \in Pcbs : p \in Dying ~> p \in pcbFree

\* Time sharing: a ready low priority process runs, or is killed.
RoundRobin == \A p \in Pcbs : p \in ToSet(procQLow) ~> p \in Running \cup Dying \cup pcbFree

\* NSYS7: a process that waits for the clock is woken, or is killed.
ClockWaitEnds == \A p \in Pcbs : p_semAdd[p] = pseudoClockSem ~> p_semAdd[p] # pseudoClockSem
=============================================================================
