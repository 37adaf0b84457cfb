---------------------------- MODULE SupportProps -----------------------------
(***************************************************************************)
(* What the support level promises.                                        *)
(***************************************************************************)
EXTENDS Support

PoolStates  == {"frame", "flash", "release", "read", "map"}
CallStates  == {"load", "receive", "store", "done", "nul"}
States      == PoolStates \cup CallStates \cup {"new", "user", "quit", "dead"}
Versions    == 0..MaxVersion

\* The variables keep their types, and a semaphore is never but 0 or 1.
SupportTypeOK ==
  /\ pc \in [Uprocs -> States]
  /\ back \in [Uprocs -> {"user", "load", "store", "nul"}]
  /\ vpn \in [Uprocs -> Pages \cup {0}]
  /\ io \in [Uprocs -> {"out", "in"}]
  /\ pte \in [PageIds -> [valid : BOOLEAN, pfn : Frames]]
  /\ tlb \subseteq [id : PageIds, valid : BOOLEAN, pfn : Frames]
  /\ swap \in [Frames -> PageIds \cup {NoPage}]
  /\ lastFrame \in Frames
  /\ frame \in [Frames -> [id : PageIds \cup {NoPage}, ver : Versions]]
  /\ flash \in [PageIds -> Versions]
  /\ failed \subseteq Uprocs
  /\ val \in [Sems -> {0, 1}]
  /\ semq \in [Sems -> Seq(Uprocs \cup {0})]
  /\ gen \in [Uprocs -> CallType \cup {NoCall}]
  /\ left \in [Uprocs -> Nat]
  /\ step \in 0..(2 * UPROCMAX + 1)

-----------------------------------------------------------------------------
(* Memory *)

\* The contents of a page: its frame's while it is valid or on its way out,
\* otherwise what its owner's flash device holds.
Contents(id) ==
  LET f == pte[id].pfn
  IN  IF pte[id].valid \/ (swap[f] = id /\ frame[f].id = id) THEN frame[f].ver ELSE flash[id]

Abstract == INSTANCE Memory WITH mem <- [id \in PageIds |-> Contents(id)]

\* Demand paging is invisible: through faults, evictions, flash errors and
\* reloads, pages change by stores only, one at a time.
ImplementsMemory == Abstract!MemorySpec

\* Whatever a process may load or store through the TLB is the present
\* contents of its own page: no stale entry survives an eviction, and no
\* entry leads into the page of another process.
LoadsSeeMemory ==
  \A e \in tlb : e.valid => frame[e.pfn] = [id |-> e.id, ver |-> Contents(e.id)]

\* The swap pool table names the page of each frame that a valid page table
\* entry leads to, so no two pages share a frame and an eviction writes a page
\* to its owner's flash device, under its own number.
SwapPoolAgrees == \A id \in PageIds : pte[id].valid => swap[pte[id].pfn] = id

-----------------------------------------------------------------------------
(* Mutual exclusion *)

\* Between its P and its V, as the program counter tells.
Inside(s, q) ==
  /\ q \notin ToSet(semq[s])
  /\ \/ s = swapPoolSem /\ pc[q] \in PoolStates
     \/ s[1] = "flash" /\ s[2] = FlashNo(q) /\ pc[q] \in {"flash", "release"}
     \/ s = DeviceSem(gen[q].call, q)
        /\ (IF pc[q] \in PoolStates THEN back[q] ELSE pc[q])
             \in {"load", "receive", "store", "done"}

\* A U-proc whose flash operation failed never comes to the V of the pool and
\* of the device, whatever it does next.
Keeps(s, q) == q \in failed /\ (s = swapPoolSem \/ s = flashSems(FlashNo(q)))

\* Each mutex of the support level (swapPoolSem, flashSems, printerSems,
\* termSems) is 0 exactly while one process is between its P and its V, and
\* nobody waits for a free one.  The device mutexes of a U-proc that serves a
\* call a second time, after a flash error, are out of order.
MutexHeld ==
  \A s \in MutexIds :
    LET holders == {q \in Uprocs : Inside(s, q) \/ Keeps(s, q)}
    IN  \/ s[1] \in Kinds /\ s[2] \in failed
        \/ val[s] = 1 /\ holders = {} /\ semq[s] = <<>>
        \/ val[s] = 0 /\ \E q \in Uprocs : holders = {q}

-----------------------------------------------------------------------------
(* Termination *)

\* initProc.c:64: the instantiator goes on to end the system only when every
\* U-proc has announced its end, so its NSYS2 never kills one that is still at
\* work or waits for a semaphore.
InstantiatorLast ==
  step = UPROCMAX + Waits /\ ~Blocked(0) =>
    \A q \in Uprocs : pc[q] \in {"quit", "dead"} /\ ~Blocked(q)

\* Every U-proc gives way infinitely often: it waits for a semaphore, is about
\* to wait for a device, or is not alive.  U-procs cannot be preempted, so one
\* that computes for ever stops all the others.
GivesWay(q) == Blocked(q) \/ pc[q] \in {"new", "dead", "flash", "load", "receive"}
AllGiveWay == \A q \in Uprocs : []<>GivesWay(q)

\* A page fault ends: the U-proc gets the pool, a frame and its page, and goes
\* back to the instruction that faulted, unless a flash error stops the Pager.
FaultResolved ==
  AllGiveWay => \A q \in Uprocs : pc[q] \in PoolStates ~> (pc[q] \notin PoolStates \/ failed # {})

\* U-procs that have decided to terminate all come to an end, and then so does
\* the instantiator: no V or P on masterSem is lost, in whichever order they come.
TestEnds ==
  AllGiveWay => (\A q \in Uprocs : pc[q] \in {"quit", "dead"}) ~> step = UPROCMAX + Waits + 1
=============================================================================
