# A TLA+ verification of Panda+

Panda+ is a small operating system for the µMPS3 machine emulator, in three phases: queues (phase 1), the nucleus (phase 2) and a support level with virtual memory and character devices (phase 3). This directory holds TLA+ modules translated from its source, TLC configurations that check them on small instances, and TLAPS proofs for every value of their constants. Paths below are relative to `src/pandaplus/src/` unless they name `doc.md`, which is `src/doc.md`.

## 1. Inventory

| Component | State | Operations | Used by / uses |
|---|---|---|---|
| Lists (`include/listx.h`) | `next`, `prev` of every `list_head` | `list_add`, `list_add_tail`, `list_del`, `list_empty`, `list_for_each_entry` | phase 1 |
| PCBs (`phase1/pcb.c`) | free list, process queues, process trees (`p_parent`, `p_child`, `p_sib`) | `allocPcb`, `freePcb`, `insertProcQ`, `removeProcQ`, `outProcQ`, `headProcQ`, `insertChild`, `removeChild`, `outChild` | ASL, nucleus |
| ASL (`phase1/asl.c`) | free and active SEMDs, `s_key`, `s_procq`, `p_semAdd` | `insertBlocked`, `removeBlocked`, `outBlocked`, `headBlocked` | nucleus |
| Scheduler (`phase2/scheduler.c`) | `procQLow`, `procQHigh`, `forceLowQ`, `currentProcess`, the PLT | `scheduler`: dispatch, WAIT, HALT or PANIC | called at the end of the handlers |
| System calls (`phase2/syscalls.c`) | `semVal` words, `processCount`, `softBlockCount`, `lastpid` | NSYS1 to NSYS10 | called by processes, by SYSCALL |
| Kill and helpers (`phase2/helpers.c`) | the recursion of `kill()` | `kill`, `findPcb`, `insertPrioProcQ`, `outPrioProcQ`, `semSuspend`, `semWakeup`, `isDeviceSemaphore`, `generateException` | syscalls, exceptions, interrupts |
| Interrupts (`phase2/interrupts.c`) | device registers, `devSems`, `termSems`, `pseudoClockSem` | PLT, interval timer, devices, terminals | wakes processes that NSYS5 and NSYS7 blocked |
| Exceptions (`phase2/exceptions.c`) | the saved state, `p_supportStruct` | dispatch by cause, pass up or die | first function of every exception |
| Boot (`phase2/initial.c`) | all of the above | `main` | runs once |
| Instantiator (`phase3/initProc.c`) | support structures, `masterSem` | creates the U-procs, waits for their terminations | NSYS1, NSYS3, NSYS2 |
| Support calls (`phase3/sysSupport.c`) | `printerSems`, `termSems` (of phase 3) | SYS1 to SYS5, traps of U-procs | entered by pass-up; NSYS3, NSYS4, NSYS5, NSYS2 |
| Pager (`phase3/vmSupport.c`) | `swapPoolTable`, page tables, TLB, `swapPoolSem`, `flashSems` | TLB refill, page fault, eviction, flash I/O | entered by pass-up; NSYS3, NSYS4, NSYS5; re-enters the support calls after a flash error |
| CPU time (`helpers.c`, `scheduler.c`) | `schedulingTime`, `p_time` | `updateCpuTime`, NSYS6 | the handlers that deschedule a process, the scheduler |
| `utils.c`, `testers/`, Makefile | none | `memcpy`, `msb`, `lsb`; user programs | - |

### How they interact, and what is hard

The nucleus runs with interrupts masked, on one processor: a handler is a transaction between an exception and the LDST, WAIT, HALT or PANIC that ends it. What interleaves is the *order* of handlers: any process may call, trap, be preempted, be killed by another (at any point of its life: ready, running, blocked on a semaphore, a device or the clock), and the interrupt of an operation comes at any later time, perhaps when its requester is dead. Four queues, two counters, the process tree and `p_semAdd` repeat the same facts in different words and must agree after each handler. Intrusive lists add that a PCB has *one* `p_list`: filed twice, it corrupts both lists.

The support level is ordinary concurrent code: processes in kernel mode that can be switched at each system call, using binary semaphores as mutexes (`swapPoolSem`, `flashSems`, `printerSems`, `termSems`) and as a counter of terminations (`masterSem`).

Nothing is persisted, so crash recovery does not arise; a message is never lost or duplicated. The only timeouts are time slices and the interval timer.

### What makes each part correct

- **Lists, PCBs, ASL.** Every list is circular in both directions; a PCB is in one place; an active SEMD has a non-empty queue and its own key; back pointers agree with the lists; there is always a SEMD for a process that blocks. Together: phase 1 implements sequences and functions.
- **Nucleus.** No process is lost or duplicated; a ready process is in the queue of its priority; `p_semAdd` names the queue of a blocked process; `processCount` is the number of live processes, `softBlockCount` covers those an interrupt will wake; the machine halts only when all are dead and panics only in a real deadlock; live processes form one tree and `kill()` removes a whole subtree; high priority comes first except right after a high-priority yield; low priority processes share the processor; a wait for the clock ends.
- **PIDs.** In range, unique, and they find the process they were given to.
- **Exceptions.** Each is handled, kernel calls only from kernel mode, contexts loaded only where there is one.
- **Devices.** The address a caller gives NSYS5 and the bit the hardware sets mean the same device; the status goes to who asked; no end of an operation is missed.
- **CPU time.** A tick is charged to the process that ran, once.
- **Support level.** Mutual exclusion per device; paging is invisible: a page of a U-proc is a memory of its own; every page fault is resolved with the frame, page table, swap pool and TLB in agreement; the instantiator terminates after, and only after, its children.

The hazards of this code, each at its line, are in `PROJECT.json` under `hazards`, with the properties that watch them.

## 2. Modules

| Module | What it is |
|---|---|
| `ProcQ` | queues of PCBs as sequences, `outProcQ` on them (`Without`) |
| `Kernel` | the nucleus: scheduler, NSYS1-5, 7 and 10, kill, pass-up-or-die, the interrupts, boot |
| `KernelProps` | its properties |
| `MCKernel` | its instances: the attributes processes can be created with, symmetry |
| `Lemmas` | what several proofs need: what taking an element out of a sequence and the operations of `ProcQ` do to its members, order and distinctness, loops written as recursive functions, remainders, least numbers |
| `KernelProofs` | type correctness and the placement invariant of `Kernel`, its counters, process tree, stop conditions and priorities, the order of its queues, the end of its loops, its P and V against `BinSem` and its calls against `Phase1Api`, proved |
| `ListX` | the assignments of `listx.h` on a heap of links |
| `Phase1` | `pcb.c` and `asl.c` on those links |
| `Phase1Api` | what phase 1 promises, with sequences and functions instead of links |
| `Phase1Props` | the invariants of the links, and the refinement of `Phase1Api` by `Phase1` |
| `Phase1Proofs` | the invariants of the links and the refinement of `Phase1Api`, proved |
| `PidAlloc` | `allocPid`, `findPcb`, NSYS1 and NSYS2 as far as PIDs go, and their properties |
| `Exceptions` | the calls between the handlers of an exception, and their properties |
| `BinSem` | P and V on binary semaphores, for the processes above the nucleus |
| `Pager` | `vmSupport.c`: TLB refill, page faults, eviction, flash devices |
| `Support` | `sysSupport.c` and `initProc.c`, composed with `Pager` |
| `Memory` | what the Pager promises: each page is a word of its own |
| `SupportProps` | the properties of the support level, and the refinement of `Memory` |
| `SupportProofs` | type correctness of `Support`, its mutexes and why they do not deadlock, the end of the instantiator, the swap pool, the TLB, the refinement of `Memory`, the isolation of pages and the progress of a page fault, proved |
| `Devices` | NSYS5 and the interrupt handlers down to the device registers, and their properties |
| `CpuTime` | `updateCpuTime`, NSYS6 and the clock of the scheduler, and their property |
| `PidProofs`, `ExceptionsProofs`, `DevicesProofs`, `CpuTimeProofs` | the safety properties of `PidAlloc`, `Exceptions`, `Devices` and `CpuTime`, proved |
| `MCPhase1`, `MCPidAlloc`, `MCExceptions`, `MCSupport`, `MCDevices`, `MCCpuTime` | their instances |

An operator whose name ends in `_M` (or `_M1`, `_M2`) is a mutation of the definition after it: a plausible mistake, one per property, that shows that the property can fail. No action uses them.

### How `Kernel` corresponds to the code

The variables are the globals of `include/phase2/variables.h` and the fields of `pcb_t`. One action is one handler, from the exception to its end, with the tail call of `scheduler()` included (`Scheduler` takes the queues as they are when it is called). Two handlers loop over a set of unbounded size, `kill()` and the interval timer: they are one action per iteration (`KillChild`/`KillReturn` with the activation stack `killStack`; `ItInterrupt`/`ItWakeup`/`ItReturn`), so that the invariants also hold between iterations.

Two abstractions are used. Phase 1 is seen through what it promises (`Phase1Api`): a queue is a sequence, the ASL is a function, the children of a process are a set. What the processes *do* is arbitrary: any legal call at any time. A device is a semaphore with at most one operation in progress per (sub)device; `busy` is the hardware's memory of it, and survives the death of the requester.

`attr` collects the three things that NSYS1's caller chooses and the nucleus looks at: priority, whether the status word lets interrupts in, whether there is a support structure. Processes only come with the attributes in the constant `Attrs`; `AttrType` limits priorities to 0 and 1, which is the contract of NSYS1. (With another number `insertPrioProcQ` files the process nowhere: listed as a hazard.)

`mode = "corrupt"` marks the moment when `freePcb()` relinks a PCB that a ready queue still holds. From there the lists are garbage and nothing sensible can be said: the model stops.

The counters are integers. In the code they are `unsigned`, and the scheduler tests `> 0`; the model tests `# 0`, which is the same of the wrapped value.

### How `Phase1` corresponds to the code

A heap is two functions, `next` and `prev`, over cells `<<field, object>>`. Each C function is one action that performs its assignments to the heap; calls that find nothing and return NULL leave everything unchanged. `held` has no counterpart in the code: it is the set of PCBs in the caller's hands (allocated and in no queue), and the guards on it are how phase 2 uses the functions - a PCB is inserted only by who holds it. The order of the tables at boot is arbitrary. Fields that say nothing about lists (the state, the time) are left out.

`Phase1Props!Api` instantiates `Phase1Api` with the sequences of owners that a `list_for_each_entry` visits; the PROPERTY `ImplementsApi` says that each call on links is the same call on sequences.

### How `PidAlloc` and `Exceptions` correspond to the code

`PidAlloc` keeps `lastpid`, the arithmetic of `allocPid` with C's remainder and the width of `int` (`Wrap`, `Rem`), and for each PCB only whether `findPcb` can see it: `ready` and `blocked` are the queues it searches, `currentProcess` it does not search. Dispatching is arbitrary, so it allows every schedule `Kernel` has.

`Exceptions` has one step per call between `exceptionHandler`, `syscallExceptionHandler` and `interruptExceptionHandler`; `generateException` calls the first of them again. A step that leaves the nucleus records how. `at = "returned"` is a return from `exceptionHandler`, which has no caller.

### How `Pager` and `Support` correspond to the code

Each U-proc has a program counter, `pc`, and an action is what it does from one system call to the next (`TakeFrame` is `pageFaultHandler` from its P on `swapPoolSem` to the P on the first flash semaphore). A process that blocks has made its call: it is in `semq`, its `pc` is where it will go on, and `Awake` holds it back. Any U-proc may take the next step: a superset of the code's schedules, where a U-proc gives up the processor at some of these calls only (`initProc.c:28` enables no interrupt).

| State | Code |
|---|---|
| `pc` = `frame`, `flash`, `release`, `read`, `map` | `pageFaultHandler` and `flashInit`: owner of the pool; before NSYS5; before V of the flash device; before the second `flashInit`; before the tables are updated |
| `pc` = `load`, `receive`, `store`, `done`, `nul` | the loops of SYS3 to SYS5, before V, before the final `'\0'` |
| `pc` = `quit`, `dead` | between the two system calls of `terminate`; after |
| `back`, `vpn` | `sup_exceptState[PGFAULTEXCEPT]`: where to resume, and the page |
| `gen`, `left` | `sup_exceptState[GENERALEXCEPT]` and the locals of the call being served |
| `pte`, `swap`, `lastFrame`, `tlb` | page tables, `swapPoolTable`, `lastFrameNo` modulo `POOLSIZE`, the hardware's TLB |
| `frame`, `flash` | what is in the frames and on the flash devices: whose page it is, and how many times it was stored to |
| `step` | progress of the instantiator |

A U-proc in user mode is arbitrary: it reads and stores through the TLB and makes the calls in `Calls`, at any time. The TLB holds any recent entries, invalid ones included, since `uTLB_RefillHandler` copies the entry as it is; that is why the processor can then raise the page fault. `EvictFrame` merges `evictPage`'s section with interrupts off; `FlashIo` and `SendChar` merge an NSYS5 with its answer, because the mutex keeps everybody else from the device (that it does is `MutexHeld`, that the answer is the caller's is `Devices`). What SYS1 and the calls return is not modelled, and a character is any character.

A flash error (`FlashFails`) calls `generalExceptionHandler` inside the Pager. That function reads the *last* general exception of the U-proc: the call being served if there is one (a page fault of the support level on its string), otherwise an older one. The model keeps no history of finished calls: the older one is any call the U-proc can make, or none, which is handled as a trap. The U-proc goes on without ever releasing the pool; `failed` remembers it.

`Memory` is the abstract specification: `mem` maps `<<asid, page>>` to a number of stores and the only step is a store. The refinement maps `mem` to what a page currently is (`Contents`): the contents of its frame while it is valid or on its way out, otherwise the block on the flash device.

### How `Devices` and `CpuTime` correspond to the code

`Devices` names a (sub)device by the address of its command register, with the constants of the µMPS3 headers; `getDeviceSemAddr` and `DeviceIndex` are the two computations of a semaphore, from the address and from line and bit. `terminalInterruptHandler` looks at both status words, transmitter first. A device takes a command unless it is busy, ends it well or badly at any later time, and is idle after the acknowledgement. Processes may be killed while they wait. `starter`, `asked` and `answer` are history for the properties. As in the code, the callers are supposed to take turns on a device (the mutexes of the support level).

`CpuTime` abstracts from priorities and queues (the next process is any ready one) and keeps the readings of the clock apart: `updateCpuTime` and `Charged` are its two halves, `Load` is the reading at dispatch, and a `Tick` may come between any two steps. `user` and `kern` count the ticks of each process for the property. `STCK` belongs to the emulator's headers and divides the clock by a scale; it is taken to wrap where `cpu_t` does.

## 3. Runs

| Run | Spec | Result | Question |
|---|---|---|---|
| `kernel_prio` | `Spec`, 4 PCBs, 1 semaphore, 1 device, the clock, both priorities | holds, 465 904 states | do queues, counters, tree and priorities stay consistent under all orders of calls, interrupts and kills? |
| `kernel_live` | `FairSpec`, 3 PCBs, low priority | holds, 19 744 states | does kill end, do processes share the processor, does a wait for the clock end? |
| `phase1_api` | `Spec`, 3 PCBs and SEMDs, 3 semaphores, 2 queues | holds, 2 090 states up to symmetry | do the links implement the queues that `Kernel` assumes? |
| `pid_alloc` | `Spec`, 4 PCBs, PIDs 2 to 5 | holds, 60 616 states | how unique are PIDs? |
| `exceptions_handled` | `FairSpec`, all causes, lines 1 to 7, `reg_a0` -12 to 2 | holds, 1 761 states | is every exception with a handler handled? |
| `uprocs` | `Spec`, 2 U-procs with 2 pages each (one of them stored to), 2 frames, 1 TLB entry; one reads lines | holds, 782 450 states | does paging, with flash errors, implement a memory? |
| `uprocs_live` | `FairSpec`, 2 U-procs with 2 pages each, 1 frame; both print and read lines | holds, 54 020 states | do the mutexes exclude, do page faults end, does the test end, and in the right order? |
| `devices` | `FairSpec`, a flash device, a printer, a terminal, 2 processes, any number of operations | holds, 39 752 states | do statuses and wake-ups reach the right process, and which interrupts can starve? |
| `cpu_time` | `Spec`, 2 PCBs, 5 clock values, 6 ticks | holds, 1 425 435 states | is each tick charged to who ran? |
| `kernel_softblock` | `SoftBlockExact` | violated | finding 1 |
| `kernel_kill_unlinks` | `KillUnlinks` with interruptible high priority processes | violated | finding 2 |
| `exceptions_illegal` | `IllegalCallEnds` | violated | finding 3 |

### What the properties say

`kernel_prio`. `ProcessPartition`: a PCB is in exactly one of the free list, the ready queues, the semaphore queues, the hands of `kill()`, the processor. `SemAddMatchesQueue`: `p_semAdd` is that queue. `CountExact`, `SoftBlockCovers`: the counters, also between two iterations of kill and of the timer loop. `StopsOnlyWhenStuck`: HALT means all dead; PANIC means every live process sleeps on a semaphore no interrupt releases, and SEMDs are never exhausted. `OneTree`: no live process is left without its parent; no cycles. `ReadyByPriority`, `KillUnlinks`: queues by priority, and no PCB is freed while linked. `PriorityRespected`: low is dispatched over high only right after a high-priority yield. `YieldGivesWay`: a yield never picks the caller again while somebody else is ready.

`kernel_live`. `KillTerminates`, `RoundRobin`, `ClockWaitEnds`.

`phase1_api`. `Circular`, `OnePlace`, `AslSound`, `BackPointers`, `SemdForEveryProcess`, `ImplementsApi`, as in section 1.

`pid_alloc`. `PidInRange`; `UniqueBeforeWrap`; `DuplicateIsChild`: after the wrap, equal PIDs are always those of a process and its child; `ChildIsFound`: the PID NSYS1 returns finds the new process and nobody else *at that moment*.

`exceptions_handled`. `HandlingEnds`; that kernel calls are executed for processes in kernel mode only is a conjunct of `ExceptionsTypeOK`.

`uprocs`. `ImplementsMemory`: pages change by stores of their owner only, one at a time, through faults, evictions and flash errors. `LoadsSeeMemory`: an entry of the TLB through which a process can load or store leads to the present contents of its own page. `SwapPoolAgrees`: a valid page table entry and the swap pool table entry of its frame name each other, so no two pages share a frame.

`uprocs_live`. `MutexHeld`: each mutex is 0 exactly while one process is between its P and V, and nobody waits for a free one (a U-proc that had a flash error keeps the pool for ever, and its device mutexes are out of order). `InstantiatorLast`: the final NSYS2 kills nobody at work. `FaultResolved`, `TestEnds`: liveness.

`devices`. `OwnStatus`: NSYS5 returns with a status, which is about the caller's device and operation, or about that of a process killed while the device worked for it. `WaiterServed`: a process waits only for a device that will interrupt. `AnswerDelivered`: an ended operation is acknowledged, unless operations keep ending for ever on the (sub)devices that are served before it (`EndedBefore`): those on lower lines or with lower numbers, and the transmitter of a terminal before its receiver. The other half of a terminal that is merely busy does not keep an interrupt away, nor do any operations on the devices served after it. The exception is needed: as the lowest pending line and number always go first, nothing in the code bounds how often another device is served before a given one, and without it TLC shows a flash device, used again and again, that starves the printer.

`cpu_time`. `ChargedRight`: modulo the range of `cpu_t`, a process is charged all the ticks at which it ran and of the others at most those at which the nucleus worked for it; nobody is charged for WAIT.

### Bounds, and why they are enough

- Four PCBs give a root, a child with a child, and a bystander: kill of a proper subtree with members at every place, from inside and outside it, with two processes in one queue and one in another. PCBs are interchangeable in the nucleus, hence SYMMETRY in the safety run (`kernel_live` has none).
- One semaphore of the processes suffices for P and V on both sides and for a queue of three; processes never hold two keys at once in the nucleus, since a process is blocked on one. Both initial values are taken.
- `MaxSoftBlock` caps NSYS5 and NSYS7: as `softBlockCount` is never decremented for a killed process (finding 1), it would grow without bound. 3 (2 in the other runs) lets all but one process block and the leak happen.
- Phase 1: three PCBs reach insertion and removal at the head, in the middle and at the tail; as many SEMDs as PCBs, as in the code. `VIEW` leaves out the links of cells in no list and the key of free SEMDs, which the code leaves behind and never reads: they cannot influence a later step.
- PIDs: as many PIDs as PCBs, the tightest range the assumption allows, and `MaxLastPid` ends the run after the range has been used three times. `INT_MAX` is above it: the overflow of `lastpid` is a known limit, seen as a violation of `PidInRange` when `MaxLastPid` is raised above `INT_MAX`.
- Support level: two U-procs are the smallest number that compete for the pool, evict each other's pages and terminate together on `masterSem`; with three V operations on it, the queue would be longer but each call would meet the same three cases (value free, value full, somebody waiting). `uprocs` has more pages than frames, so evictions of one's own and of the other's page happen; `uprocs_live` has a single frame, so every fault evicts, and a line printed across two pages evicts the page it comes from. `MaxVersion` 1 tells a page that was stored to from one that was not; a second store to the same page would not be told from the first, and a stale copy is the one with version 0. `DataPages` limits the stores to one page per U-proc. One TLB entry keeps the states few: it stays there when another process runs and while its page is evicted, which is the case that clearing the TLB is for.
- `devices` has no bound on operations: processes use the devices for ever, so an interrupt that would starve behind others does starve in the run. Two processes let one use a device that still works for the other, which was killed, and use both halves of the terminal, or two lines, at once.
- `MaxTicks` is above `ClockRange`, and the clock starts anywhere: both the clock and the time of a process wrap.
- `CHECK_DEADLOCK FALSE` where the system really stops: `PidAlloc` and `CpuTime` (all processes dead, or the clock at its bound) and `Devices` (nobody asks for anything any more, devices need not end). `Kernel`, `Exceptions` and `Support` have a named step (`Stopped`, `Returned`) for the places where the system stops; in `Support` these are the end of the test and a flash error that has locked the pool, so the runs also show that the semaphores alone never lead to a deadlock.

### Fairness

`Kernel!FairSpec`: the loops of kill and of the timer run to their end (`WF(Loop)`: the nucleus is not interruptible). Time slices end and the interval timer is delivered (`SF(SliceEnds)`, `SF(ItInterrupt)`): the PLT is loaded at each dispatch of a low priority process and counts while it runs, the interval timer is reloaded by its handler, and an interrupt that is pending stays so until a moment when it is enabled; that moment recurs, but does not last, hence strong fairness. A slice that ends before the PLT fires, by a yield, a blocking call or death, counts as ended. No fairness is assumed of processes (they may do nothing) or devices (an operation may never finish). `Exceptions!FairSpec`: the nucleus executes.

`Devices!FairSpec`: while interrupts are pending, one is taken, the first in the order of the code (weak fairness of the two handlers together). No handler has fairness of its own, so a device that is served late may starve, which `AnswerDelivered` says; devices need not end.

`Support!FairSpec`: the instantiator and each U-proc go on when they can (the ready queue is a FIFO), and a flash device answers, well or not; printers and terminals need not, and nothing makes a U-proc leave user mode. As U-procs are never preempted, one that computes for ever stops the others, so `FaultResolved` and `TestEnds` are stated under `AllGiveWay`: each U-proc comes to wait for a semaphore or a device, or dies, infinitely often.

## 4. Proofs

| Theorem | Statement |
|---|---|
| `KernelProofs!TypeCorrect` | `Spec => []TypeOK` |
| `KernelProofs!NoProcessLost` | `QuietHigh => (Spec => []ProcessPartition)` |
| `KernelProofs!SemAddCorrect` | `QuietHigh => (Spec => []SemAddMatchesQueue)` |
| `KernelProofs!ReadyQueuesSound` | `QuietHigh => (Spec => []ReadyByPriority)` |
| `KernelProofs!KillFindsVictim` | `QuietHigh => (Spec => []KillUnlinks)` |
| `KernelProofs!ProcessCountExact` | `QuietHigh => (Spec => []CountExact)` |
| `KernelProofs!SoftBlockCountCovers` | `QuietHigh => (Spec => []SoftBlockCovers)` |
| `KernelProofs!ProcessTree` | `QuietHigh => (Spec => []OneTree)` |
| `KernelProofs!StopsCorrectly` | `QuietHigh => (Spec => []StopsOnlyWhenStuck)` |
| `KernelProofs!PriorityCorrect` | `QuietHigh => (Spec => PriorityRespected)` |
| `KernelProofs!YieldRunsAnother` | `QuietHigh => (Spec => []YieldGivesWay)` |
| `KernelProofs!NoOvertaking` | `QuietHigh => (Spec => [][OrderKept]_vars)` |
| `KernelProofs!LoopsEnd` | `QuietHigh => (Spec => [][LoopAdvances]_vars)` |
| `KernelProofs!KernelImplementsBinSem` | `QuietHigh => (Spec => [][SemStep /\ WaitersResume]_vars)` |
| `KernelProofs!PhaseOneUsedWell` | `QuietHigh => (Spec => [][CallsAllowed]_vars)` |
| `Phase1Proofs!LinksImplementApi` | `Spec => ImplementsApi` |
| `Phase1Proofs!LinksTypeCorrect` | `Spec => []Phase1TypeOK` |
| `Phase1Proofs!ListsAreCircles` | `Spec => []Circular` |
| `Phase1Proofs!PcbInOnePlace` | `Spec => []OnePlace` |
| `Phase1Proofs!AslCorrect` | `Spec => []AslSound` |
| `Phase1Proofs!BackPointersAgree` | `Spec => []BackPointers` |
| `Phase1Proofs!SemdsSuffice` | `Spec => []SemdForEveryProcess` |
| `SupportProofs!SupportTypeCorrect` | `Spec => []SupportTypeOK` |
| `SupportProofs!MutexesExclude` | `Spec => []MutexHeld` |
| `SupportProofs!InstantiatorEndsLast` | `Spec => []InstantiatorLast` |
| `SupportProofs!SwapPoolCorrect` | `Spec => []SwapPoolAgrees` |
| `SupportProofs!TlbCorrect` | `Spec => []LoadsSeeMemory` |
| `SupportProofs!PagerImplementsMemory` | `Spec => ImplementsMemory` |
| `SupportProofs!PagesAreIsolated` | `Spec => [][PagesIsolated]_vars` |
| `SupportProofs!NoDeadlock` | `Spec => [](WaitersAreServed /\ SomebodyRuns)` |
| `SupportProofs!FaultsAdvance` | `Spec => [][FaultAdvances]_vars` |
| `CpuTimeProofs!CpuTimeCharged` | `Spec => []ChargedRight` |
| `DevicesProofs!NoLostInterrupt` | `Spec => []WaiterServed` |
| `DevicesProofs!StatusIsOwn` | `Spec => []OwnStatus` |
| `PidProofs!PidTypeCorrect` | `NoOverflow => (Spec => []PidTypeOK)` |
| `PidProofs!PidsInRange` | `NoOverflow => (Spec => []PidInRange)` |
| `PidProofs!PidsUniqueBeforeWrap` | `NoOverflow => (Spec => []UniqueBeforeWrap)` |
| `PidProofs!PidSharedByChild` | `NoOverflow => (Spec => []DuplicateIsChild)` |
| `PidProofs!NewChildIsFound` | `NoOverflow => (Spec => ChildIsFound)` |
| `ExceptionsProofs!ExceptionsTypeCorrect` | `Spec => []ExceptionsTypeOK` |
| `ExceptionsProofs!IllegalCallNeverEnds` | `Spec => [](Decoding => []Decoding)` |
| `ExceptionsProofs!LegalExceptionsAdvance` | `Spec => [][HandlingAdvances]_vars` |

They hold for all values of the constants that the `...Assumption` of each model allows: any finite set of PCBs (and for phase 1 as many SEMDs, as both tables have `MAXPROC` entries), any semaphores and process queues, devices, U-procs, pages, frames, TLB entries, calls, clock range and range of PIDs, and any bound. Two hypotheses are made besides. `QuietHigh` says that high priority processes are created with interrupts masked; it cannot be dropped, as finding 2 is a counterexample without it. `NoOverflow` says that `lastpid` does not reach 2^31; without it the remainder of C is negative and PIDs leave their range.

Before the proof each inductive invariant was an invariant of the instances of the runs (`kernel_prio`, `phase1_api`, `uprocs`, `uprocs_live`, `devices`, `pid_alloc`, `cpu_time`); for phase 1, whose invariant says that a layout exists, TLC checked the layout that a walk over the lists reads. The action properties that only the proofs state (`OrderKept`, `LoopAdvances`, `SemStep`, `CallsAllowed`, `PagesIsolated`, `FaultAdvances`, `HandlingAdvances`) were checked in the same way, `CallsAllowed` to the end with three PCBs.

### The nucleus

`TypeOK` is inductive by itself; it includes that semaphores are binary, that `user` mode has a process, and that `forceLowQ` is consumed by the scheduler call it was set for. `ProcessPartition` is not inductive. A blocked process is removed from the queue `p_semAdd` names, so `SemAddMatchesQueue` is needed; a killed ready process is removed from the queue of its priority, so `ReadyByPriority` is; the PLT files the interrupted process in the low queue, so it must be of low priority: `QuietAttrs` (no high priority process has interrupts on). `KillChild` needs that the child is not already dying or free: `DeadDetached` (such a PCB has no parent). `PlaceInv` is the conjunction. `SemdsSuffice` shows that `semSuspend` never panics: at most one queue per process *other than the current one* is in use, by an injection of active semaphores into processes. The step lemmas (`EnterKillPlaces`, `KillReturnPlaces`, `SemOpPlaces`, ...) treat the handlers, `DispatchPlaces` the scheduler they end in, and `NextPlaces` joins them, one case per action.

`LifeInv` adds to `PlaceInv` what is counted, related and decided. `CountExact` needs that the victim of `kill()` is live when it is entered (`VictimLives`) and that NSYS1 takes a PCB that is not (`Birth`). `SoftBlockCovers` follows because a process enters and leaves the queue of a soft semaphore together with the counter, or leaves it alone, in `kill()` (finding 1). `OneTree` is inductive with `DeadDetached`: a birth adds a leaf below a live process, and `kill()` moves a process from the living to the dying with its children still pointing to it. `StopInv` records what the scheduler saw when it stopped: `processCount = 0` at HALT, no ready process and `softBlockCount = 0` at PANIC, from which `StopsOnlyWhenStuck` follows with `ProcessPartition`. `PriorityRespected` is an action property: the only steps that dispatch from the low queue over a ready high priority process are those of `Yield`.

`YieldGivesWay` says of a state which process a yield would dispatch: a yield that dispatches its caller again may change nothing at all, so an action property would not see it. By `PlaceInv` the caller is in no ready queue, so after `yield` it is the last of its own; `YieldForcesLow` decides between the two queues, and `forceLowQ` is only ever set during this call.

`NoOvertaking` is first come, first served: if `p` is ahead of `q` in a ready queue or on a semaphore and both are still there after a step, `p` is ahead of `q`; and nobody gets in ahead of who was there. `Before` and `KeepsOrder` (in `Lemmas`) say it of two sequences, and one lemma for each of `Append`, `Tail` and `Without` carries it through the actions. So the processes ahead of a ready one only become fewer, as `RoundRobin` needs.

`LoopsEnd` gives the two loops a rank. `kill()` enters and leaves a living process once: each iteration lowers `2 * processCount + Len(killStack)`, a natural number by `CountExact`, and who is in its hands stays there or is freed. The loop of the interval timer shortens the queue of the clock and ends only when it is empty. No other step is enabled meanwhile.

### Between the levels

Three results join the models, each of which takes the one below it as more abstract than it is.

- *Phase 1 below the nucleus* (`PhaseOneUsedWell`). `Phase1Proofs` shows that the links implement `Phase1Api` as long as it is called as it allows. `CallsAllowed` says that the nucleus does: each step is at most three calls, and in the state in between each of them is one that `Phase1Api` allows. A handler is one action of `Kernel`, so the steps of `Phase1Api` are stated as sets of results (`AllocPcbs`, `InsertBlockeds`, ...) that are composed. The proof finds the states between the calls: a PCB that is inserted is in no list (`Partition`, for the running process and those in the hands of kill); a PCB that is freed has no parent (`DeadDetached`) and, as `kill()` has seen, no children; a PCB that NSYS1 links has no relatives (`OneTree` and `DeadDetached`: nobody's parent is dead); a SEMD is found for a process that blocks (`SemdsSuffice`).
- *The semaphores below the support level* (`KernelImplementsBinSem`). `Support` uses the P and V of `BinSem`. `SemStep` says that on the semaphores of the processes every step of the nucleus is a P or V of a running process as `BinSem` defines it, or takes a killed process out of a queue, or leaves them alone; `WaitersResume` that whoever leaves a queue is then ready or killed, so a call that blocked is not repeated.
- *The Pager below the U-procs* (`PagerImplementsMemory` and `PagesAreIsolated`, below).

### Phase 1

The links alone are hard to reason about: a wrong `next` in one list can end up in another. The proof therefore gives every list head the *sequence* of its cells, a `layout`. `LaidOut` says that the heap is that of the layout: for each head, `next` and `prev` lead round the circle of the head and its cells, and no cell is in two lists or twice in one. The invariant `LinksInv` is: there is a layout that *describes* the state. `Describes` adds to `LaidOut` which cells each list may hold (`p_list` of PCBs in queues and in the free list, `p_sib` in lists of children, `s_link` in the two lists of SEMDs), that every PCB is in one queue or held and every SEMD free or active, that the queue of an active SEMD is not empty and its key its own, and that `p_semAdd` and `p_parent` are what the lists say.

1. *Lists.* `CircleAdd` and `CircleDel` are about the assignments of `__list_add` and `__list_del` on one circle, `CircleFrame` about the others. `LayoutAdd`, `LayoutAddTail` and `LayoutDel` lift them to layouts: `list_add` puts a cell that was in no list in front, `list_add_tail` at the end, `list_del` takes it out, and every other list is as before. `WalkOfCircle` says that the walk of `list_for_each` (a recursive function) visits the cells of the circle in order (by a least counterexample, `LeastNumber`, in place of an induction); so reading a list reads the layout (`ReadLists`).
2. *Operations.* A `Step...` lemma for each kind of update shows that the new layout describes the new state (`StepBlockNew`, where `insertBlocked` takes a SEMD from the free list, files it and starts its queue, changes three lists). A `Do...` lemma for each function shows that the step is the one of `Phase1Api`, or a stutter for a call that finds nothing: the owners of the cells of a list change as `Append`, `Tail`, `Without` and sets say (`NamesAdd`, `NamesDel`). `getSemd` finds the active SEMD with the key (`GetSemdFinds`).
3. *Boot.* `initPcbs` and `initASL` are loops; `LayoutFill` says what a loop of `list_add` leaves, by the same means.
4. *SEMDs.* `SemdsSuffice`: if no SEMD is free, all have a process in their queue, and `headProcQ` maps SEMDs one to one to PCBs, but not to a PCB that is held. With as many SEMDs as PCBs this is impossible. The refinement needs it: an `insertBlocked` that fails has no counterpart in `Phase1Api`.

The other invariants are consequences of `LinksInv` in the same state. Together with `Kernel`'s theorems this says that what is proved of the nucleus on sequences and functions is about the links of the code, as long as it calls phase 1 as `held` says.

### The support level

`SafeInv` = `TypeInv` (types, and that a process in the Pager has a page it missed, one that serves a call a call and its page) with `MutexInv`. The heart of the latter is `PoolInv`: at most one U-proc owns the swap pool, by being inside or by having failed there. `FlashInv` says that only the owner of the pool takes a flash mutex, `DeviceInv` that a printer or terminal mutex is taken exactly while its U-proc is in a call on it, also while it is in the Pager in the middle of the call (`At`); `QueueInv` that each queue holds only processes that are at the P of that semaphore; `MasterInv` that `masterSem` is the number of V operations that are complete less that of P operations that are; `StepInv` that the instantiator has started exactly the U-procs that are not new. `InstantiatorLast` is then arithmetic: when all its P operations are over, all V operations are.

`MemInv` is about the one frame that is being replaced, `lastFrame`, from its choice to the update of the tables. `SwapInv` and `ValidInv` say that all *other* frames, the page tables and the swap pool table agree; `MissedInv` that nobody else makes valid the page that a U-proc waits for; `FillInv` follows the frame through the write of the old page (`Writing`, `OnItsWay`, `Saved`), the read of the new one (`Reading`) and the update (`Loaded`); `TlbInv` that the TLB never holds what the page tables do not say. That one process at a time fills a frame is `PoolInv` again. `PagerImplementsMemory` maps a page to its `Contents` (the frame while it is valid or on its way out, otherwise the flash device): every step but a store leaves `Contents` alone, and a store changes one page. `PagesAreIsolated` adds whose step that is: the contents of a page change only while its owner executes and is about to touch it.

`NoDeadlock` follows the waits. The owner of the pool waits for nothing (`OwnerAwake`: nobody ever waits for a flash or a device mutex), so whoever waits for the pool waits for a process that runs. The instantiator waits for a U-proc that has not been counted (`EndedCount` against the P operations that are complete), which runs or waits for the pool; a U-proc that waits at `masterSem` to be counted waits for the instantiator, which is not blocked then. Hence until the instantiator is through, somebody runs. It needs that no flash operation failed, as one that fails leaves the pool locked.

`FaultsAdvance` ranks the states of the Pager from seven steps to none: each step of the U-proc lowers its rank, no step of another one changes it. With `NoDeadlock` this is all of `FaultResolved` but the fairness.

### CPU time, devices, PIDs

`ChargedRight` is about remainders of the clock range, which is not inductive as it stands. `BalanceInv` replaces them by an equation between integers: the ticks at which a process ran, and some of those that the nucleus spent on it, are what it was charged plus what is pending plus a whole number of rounds of the clock. Each wrap of the clock and each wrap of `p_time` changes the number of rounds; `ModShift` takes the equation back to remainders.

`AddressAgrees` shows that the semaphore `getDeviceSemAddr` computes from an address is the one the interrupt handlers compute from line and number, for all lines, numbers and halves of a terminal, and `OwnSemaphore` gives the inverse, so no two (sub)devices share a semaphore. `DevicesInv` adds that a process waits alone, at the semaphore of the register it asked (`WaitInv`), and that a device which is not ready works for that process or for one that was killed (`WorkInv`): `WaiterServed` and `OwnStatus` need each other's parts.

`PidInv` adds to the properties that `lastpid` is the greatest PID until it has gone once through the range (`GreatestPid`). `SomePidFree` is a pigeonhole argument: `allocPid` tries `Span` different PIDs, the queues hold fewer processes because the caller is in none, so one of the PIDs is not found, and the error return (`syscalls.c:160`) is never taken.

### Exceptions

`ExceptionsTypeOK` is inductive: it is about a chain of calls of any length, through which the saved state does not change. `IllegalCallNeverEnds` generalises finding 3: the states between `exceptionHandler` and `syscallExceptionHandler` with a call that is not `Legal` are never left. `LegalExceptionsAdvance` is the other side: an exception that is not such a call is handled in at most two nested calls, each handler is entered for its own cause only (`OwnCause`), and only an interrupt of a line without a handler makes `exceptionHandler` return to nowhere.

### Model-checked only

- Liveness, under fairness: `KillTerminates`, `RoundRobin`, `ClockWaitEnds`, `HandlingEnds`, `FaultResolved`, `TestEnds`, `AnswerDelivered`. It is not in the prover's reach. What is proved is the safety at its core, for every size: `LoopsEnd` for `KillTerminates` and `ClockWaitEnds`, `NoOvertaking` for `RoundRobin`, `LegalExceptionsAdvance` for `HandlingEnds`, `NoDeadlock` and `FaultsAdvance` for `FaultResolved` and `TestEnds`, `NoLostInterrupt` for `AnswerDelivered`. That the scheduler and the devices go on, which turns a rank that falls into an end, is fairness.

All other properties of the passing runs, invariants, action properties and refinements, are proved.

## 5. Findings

1. **`softBlockCount` leaks** (`phase2/helpers.c:141`). `kill()` tests `isDeviceSemaphore(proc->p_semAdd)` after `outBlocked()` has set the field to NULL. `variables.h:11` calls it the "number of blocked processes (due to an I/O or timer request)"; after a kill it is larger, and a deadlocked machine waits where it should PANIC. `SoftBlockCovers` shows that it is never too small.
2. **A PCB is freed while still linked** (`phase2/interrupts.c:81`). The scheduler does not reload the PLT for a high priority process (`scheduler.c:18`), so the previous slice may preempt it, against the comment "preemption is applied only to low priority processes!" (`interrupts.c:80`); it is filed in `procQLow`, where `kill()` does not look for it.
3. **`generateException` generates none** (`phase2/helpers.c:166`). It edits the status and not the cause, and the same call is decoded without end.

Also seen while modelling, without a run of their own:

- `yield` tests `headProcQ(procQHigh)` (`phase2/syscalls.c:344`), a pointer that is never 0 (NULL is `0xFFFFFFFF`), where the comment at `:338` says "the queue of high priority processes is empty": a high priority process that yields gives way to a low one while other high ones are ready. `PriorityRespected` and `YieldGivesWay` bound the effect.
- `findPcb` does not look at `currentProcess` (`phase2/syscalls.c:155`): after the PIDs wrap around, a process can give its own PID to its child, and NSYS2 with that PID kills the child. `DuplicateIsChild` says that nobody else shares one.
- U-procs cannot be preempted: their status word (`phase3/initProc.c:28`) has no interrupt mask bit although the comment promises interrupts. With such processes `RoundRobin` is violated; hence `AllGiveWay` in the support level.
- A flash error (`phase3/vmSupport.c:211`) leaves the pool and the flash device locked, and serves the U-proc's last system call once more.
- The interrupt of a network device (line 5) has no case in `interruptExceptionHandler`; `lastpid` and `lastFrameNo` overflow after 2^31 calls; the error return of `allocPid` (`syscalls.c:160`) cannot be taken before that; the VPN of a page fault is not checked against the page table (`vmSupport.c:65`, `:154`); an unknown user system call returns to nowhere (`sysSupport.c:115`).

## 6. Plan

The components are modelled; their safety properties and refinements, and that each level uses the one below as its model allows, are proved. Two things are left:

1. Liveness for every size, with a prover that has `ENABLED` and induction; the ranks are there.
2. The finite walks of phase 1 (`list_for_each`) are recursive functions whose result is proved by a least counterexample; a prover with induction would shorten that.

## 7. Not modelled

- The layout of memory, of status words and of page table entries beyond the bits named above; the values that system calls return, except the status of NSYS5 and the time of NSYS6.
- NSYS8 and NSYS9, which only read; SYS1, of which only the return is modelled.
- Virtual addresses outside the 32 pages of a U-proc, user system calls other than SYS1 to SYS5, priorities other than 0 and 1: the code does nothing defined with them (hazards).
- The unreachable branches: `EXC_MOD` in the Pager, a terminal interrupt with neither half ended.
- `memcpy`, `msb`, the debug variables, the test programs and the build files.
