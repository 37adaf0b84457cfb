-------------------------------- MODULE Pager --------------------------------
(***************************************************************************)
(* The Pager (phase3/vmSupport.c): TLB refill, page faults, eviction and   *)
(* the flash devices that hold the pages.                                  *)
(*                                                                         *)
(* A U-proc is named by its ASID.  The initialised swap pool, page tables  *)
(* and mutexes are in Support's Init, whose Next composes these actions    *)
(* with the system calls.  A U-proc may be switched between any two        *)
(* actions; the ends of an action are its system calls, so a process that  *)
(* blocks has already moved its pc and is held back by Awake.              *)
(*                                                                         *)
(* The contents of a page is <<page, version>>: whose page it is, and the  *)
(* number of stores to it.                                                 *)
(*                                                                         *)
(* A definition whose name ends in _M is a mutation of the one after it: a *)
(* plausible mistake that one of the properties must notice.               *)
(***************************************************************************)
EXTENDS BinSem, FiniteSets

CONSTANTS
  UPROCMAX,     \* number of U-procs
  Pages,        \* page numbers of a U-proc, indices of its page table
  DataPages,    \* bound: the pages that U-procs store to; they only read the others
  POOLSIZE,     \* number of frames in the swap pool
  TLBSIZE,      \* number of entries of the TLB
  MaxVersion    \* bound: further stores to a page are not told apart

ASSUME PagerAssumption ==
  /\ UPROCMAX \in Nat \ {0}
  /\ Pages \subseteq Nat \ {0} /\ DataPages \subseteq Pages
  /\ POOLSIZE \in Nat \ {0}
  /\ TLBSIZE \in Nat \ {0}
  /\ MaxVersion \in Nat

VARIABLES
  pc,          \* what each U-proc does next
  back,        \* sup_exceptState[PGFAULTEXCEPT]: where LDST resumes it
  vpn,         \* the page of the fault, or of the string being touched
  io,          \* flash operation of the pageFaultHandler: "out" or "in"
  pte,         \* page tables: VALIDON and PFN of each page
  tlb,         \* entries of the TLB
  swap,        \* swapPoolTable: the page each frame is said to hold
  lastFrame,   \* lastFrameNo modulo POOLSIZE
  frame,       \* contents of the frames
  flash,       \* version of each page on its owner's flash device
  failed       \* U-procs whose flash operation ended in an error

pagerVars == <<pc, back, vpn, io, pte, tlb, swap, lastFrame, frame, flash, failed>>

Uprocs  == 1..UPROCMAX
Frames  == 0..(POOLSIZE - 1)
PageIds == Uprocs \X Pages
NoVpn   == 0                   \* vpn of a process with no fault and no string
NoPage  == <<0, NoVpn>>        \* sw_pte = NULL

swapPoolSem  == <<"swapPool", 0>>
flashSems(n) == <<"flash", n>>

\* The process can execute: it exists and is not in the queue of a semaphore.
Awake(q) == pc[q] \notin {"new", "dead"} /\ ~Blocked(q)

-----------------------------------------------------------------------------
(* Addresses *)

\* The pages that q may be about to touch: any page of its own in user mode,
\* the page of the string while the support level copies a character.
Touches(q, v) ==
  /\ Awake(q)
  /\ \/ pc[q] = "user" /\ v \in Pages
     \/ pc[q] \in {"load", "store", "nul"} /\ v = vpn[q]

Cached(id) == {e \in tlb : e.id = id}
Hits(id) == {e \in Cached(id) : e.valid}

\* uTLB_RefillHandler copies the page table entry, valid or not; TLBWR writes
\* a slot that the processor picks, so any older entry may go.
uTLB_RefillHandler(q, v) ==
  /\ Touches(q, v)
  /\ Cached(<<q, v>>) = {}
  /\ \E kept \in SUBSET tlb :
       /\ Cardinality(tlb \ kept) <= 1 /\ Cardinality(kept) < TLBSIZE
       /\ tlb' = kept \cup {[id |-> <<q, v>>, valid |-> pte[<<q, v>>].valid,
                             pfn |-> pte[<<q, v>>].pfn]}
  /\ UNCHANGED <<pc, back, vpn, io, pte, swap, lastFrame, frame, flash, failed, val, semq>>

Stored(ver) == IF ver < MaxVersion THEN ver + 1 ELSE ver

\* The processor stores through a valid entry, to whatever its frame holds.
StoreThrough(id) ==
  \E e \in Hits(id) : frame' = [frame EXCEPT ![e.pfn].ver = Stored(@)]

UserStore(q) ==
  /\ pc[q] = "user" /\ Awake(q)
  /\ \E v \in DataPages : StoreThrough(<<q, v>>)
  /\ UNCHANGED <<pc, back, vpn, io, pte, tlb, swap, lastFrame, flash, failed, val, semq>>

-----------------------------------------------------------------------------
(* Page faults *)

\* A page whose TLB entry is not valid is touched: the exception is passed up
\* to tlbExceptionHandler, which calls pageFaultHandler and waits for the pool.
PageFault(q, v) ==
  /\ Touches(q, v)
  /\ Cached(<<q, v>>) # {} /\ Hits(<<q, v>>) = {}
  /\ back' = [back EXCEPT ![q] = pc[q]]
  /\ vpn' = [vpn EXCEPT ![q] = v]
  /\ pc' = [pc EXCEPT ![q] = "frame"]
  /\ passeren(swapPoolSem, q)
  /\ UNCHANGED <<io, pte, tlb, swap, lastFrame, frame, flash, failed>>

getFirstInFrame == (lastFrame + 1) % POOLSIZE

\* The frame is in use: its page is still marked valid.
InUse(f) == swap[f] # NoPage /\ pte[swap[f]].valid

\* evictPage, up to the flash operation: the owner's entry is no longer valid
\* and the TLB is empty.  The two happen with interrupts off.
Evict_M1(id) == pte' = [pte EXCEPT ![id].valid = FALSE] /\ tlb' = tlb
Evict_M2(id) == pte' = pte /\ tlb' = {}
Evict(id) == pte' = [pte EXCEPT ![id].valid = FALSE] /\ tlb' = {}

\* The flash devices and their mutexes are named by the owner of the page.
FlashPage(q) == IF io[q] = "out" THEN swap[lastFrame] ELSE <<q, vpn[q]>>
FlashNo_M(q) == q
FlashNo(q) == FlashPage(q)[1]

\* A frame in use is written back first.
EvictFrame_M(q, f) ==
  /\ IF InUse(f) THEN Evict(swap[f]) ELSE UNCHANGED <<pte, tlb>>
  /\ io' = [io EXCEPT ![q] = "in"]
  /\ passeren(flashSems(q), q)
EvictFrame(q, f) ==
  IF InUse(f)
  THEN /\ Evict(swap[f])
       /\ io' = [io EXCEPT ![q] = "out"]
       /\ passeren(flashSems(swap[f][1]), q)
  ELSE /\ io' = [io EXCEPT ![q] = "in"]
       /\ passeren(flashSems(q), q)
       /\ UNCHANGED <<pte, tlb>>

\* The frame is chosen and, if need be, its page is evicted; then P of the
\* flash device of the first operation.
TakeFrame(q) ==
  /\ pc[q] = "frame" /\ Awake(q)
  /\ lastFrame' = getFirstInFrame
  /\ EvictFrame(q, getFirstInFrame)
  /\ pc' = [pc EXCEPT ![q] = "flash"]
  /\ UNCHANGED <<back, vpn, swap, frame, flash, failed>>

\* NSYS5 of flashInit: the device copies a block and answers READY.  Nothing
\* else can reach the device in between, so the call is one step.
FlashIo(q) ==
  /\ pc[q] = "flash" /\ Awake(q)
  /\ \/ /\ io[q] = "out"
        /\ flash' = [flash EXCEPT ![FlashPage(q)] = frame[lastFrame].ver]
        /\ UNCHANGED frame
     \/ /\ io[q] = "in"
        /\ frame' = [frame EXCEPT ![lastFrame] =
                       [id |-> FlashPage(q), ver |-> flash[FlashPage(q)]]]
        /\ UNCHANGED flash
  /\ pc' = [pc EXCEPT ![q] = "release"]
  /\ UNCHANGED <<back, vpn, io, pte, tlb, swap, lastFrame, failed, val, semq>>

\* The end of flashInit.  After a page was written out, the missed one is read.
ReleaseFlash(q) ==
  /\ pc[q] = "release" /\ Awake(q)
  /\ pc' = [pc EXCEPT ![q] = IF io[q] = "out" THEN "read" ELSE "map"]
  /\ io' = [io EXCEPT ![q] = "in"]
  /\ verhogen(flashSems(FlashNo(q)), q)
  /\ UNCHANGED <<back, vpn, pte, tlb, swap, lastFrame, frame, flash, failed>>

\* flashRead, up to P of the process's own flash device.
ReadMissed(q) ==
  /\ pc[q] = "read" /\ Awake(q)
  /\ pc' = [pc EXCEPT ![q] = "flash"]
  /\ passeren(flashSems(q), q)
  /\ UNCHANGED <<back, vpn, io, pte, tlb, swap, lastFrame, frame, flash, failed>>

\* The end of pageFaultHandler: swap pool table, page table entry, TLBCLR, V,
\* and LDST to the instruction that faulted.
LeavePool_M(q) == UNCHANGED <<val, semq>>
LeavePool(q) == verhogen(swapPoolSem, q)

MapPage(q) ==
  /\ pc[q] = "map" /\ Awake(q)
  /\ swap' = [swap EXCEPT ![lastFrame] = <<q, vpn[q]>>]
  /\ pte' = [pte EXCEPT ![<<q, vpn[q]>>] = [valid |-> TRUE, pfn |-> lastFrame]]
  /\ tlb' = {}
  /\ LeavePool(q)
  /\ pc' = [pc EXCEPT ![q] = back[q]]
  /\ back' = [back EXCEPT ![q] = "user"]
  /\ vpn' = [vpn EXCEPT ![q] = IF back[q] = "user" THEN NoVpn ELSE @]
  /\ UNCHANGED <<io, lastFrame, frame, flash, failed>>
=============================================================================
