---------------------------- MODULE SupportProofs ----------------------------
(***************************************************************************)
(* Theorems about the support level for any number of U-procs, pages,      *)
(* frames, TLB entries and any calls: its variables keep their types, its  *)
(* mutexes exclude and never leave everybody waiting, and the instantiator *)
(* is the last to end.  Demand paging is correct: the swap pool table and  *)
(* the TLB are never stale, the Pager implements the abstract Memory,      *)
(* leaves the pages of others alone and gets ahead with every step.        *)
(***************************************************************************)
EXTENDS SupportProps, Lemmas, FiniteSetTheorems

-----------------------------------------------------------------------------
(* Types: the inductive invariant *)

\* Where a U-proc is in its program, page faults left aside.
At(q) == IF pc[q] \in PoolStates THEN back[q] ELSE pc[q]

\* A U-proc in the Pager has a page that it missed; one that serves a call has
\* the call, its page and, in the loop of a write, characters to send.
Equipped(q) ==
  /\ pc[q] \in PoolStates => vpn[q] \in Pages
  /\ At(q) \in CallStates => gen[q].call \in Kinds /\ vpn[q] \in Pages
  /\ At(q) = "load" => left[q] > 0

TypeInv == SupportTypeOK /\ \A q \in Uprocs : Equipped(q)

-----------------------------------------------------------------------------
(* Semaphore calls *)

\* The mutexes, and which constants are semaphores.
LEMMA SemsFacts ==
  /\ MutexIds \subseteq Sems
  /\ swapPoolSem \in MutexIds /\ masterSem \in Sems \ MutexIds
  /\ \A n \in Uprocs : flashSems(n) \in MutexIds
  /\ \A k \in Kinds, n \in Uprocs : DeviceSem(k, n) \in MutexIds
  /\ \A s \in MutexIds : \/ s = swapPoolSem
                         \/ \E n \in Uprocs : s = flashSems(n)
                         \/ \E k \in Kinds, n \in Uprocs : s = DeviceSem(k, n)
BY DEF Sems, MutexIds, swapPoolSem, masterSem, flashSems, DeviceSem, Kinds

\* The three things that P and V can do: block, wake the first one, or change
\* the value.
SemOutcome(s, p, full) ==
  \/ /\ val[s] = full /\ val' = val
     /\ semq'[s] = Append(semq[s], p)
     /\ ToSet(semq'[s]) = ToSet(semq[s]) \cup {p}
  \/ /\ val[s] = 1 - full /\ semq[s] # <<>> /\ val' = val
     /\ Head(semq[s]) \in ToSet(semq[s])
     /\ ToSet(semq'[s]) = ToSet(semq[s]) \ {Head(semq[s])}
  \/ /\ val[s] = 1 - full /\ semq[s] = <<>> /\ semq' = semq
     /\ val' = [val EXCEPT ![s] = full]

\* A P or V finds the semaphore as it can leave it (and the caller waits), hands it
\* to the first who waits, or changes its value.
LEMMA SemCallOutcome ==
  ASSUME val \in [Sems -> {0, 1}], semq \in [Sems -> Seq(Uprocs \cup {0})],
         \A s \in Sems : Distinct(semq[s]),
         NEW s \in Sems, NEW p \in Uprocs \cup {0}, ~Blocked(p),
         NEW full \in {0, 1}, SemCall(s, p, full, IF full = 0 THEN -1 ELSE 1)
  PROVE  /\ SemOutcome(s, p, full)
         /\ val' \in [Sems -> {0, 1}]
         /\ semq' \in [Sems -> Seq(Uprocs \cup {0})]
         /\ \A t \in Sems : Distinct(semq'[t])
         /\ \A t \in Sems : t # s => semq'[t] = semq[t] /\ val'[t] = val[t]
<1> DEFINE P == Uprocs \cup {0}
<1>1. semq[s] \in Seq(P) /\ Distinct(semq[s]) /\ p \notin ToSet(semq[s])
  BY DEF Blocked
<1>2. CASE val[s] = full /\ semq' = [semq EXCEPT ![s] = Append(semq[s], p)] /\ UNCHANGED val
  BY <1>1, <1>2, AppendToSet DEF SemOutcome
<1>3. CASE /\ val[s] # full /\ semq[s] # <<>>
           /\ semq' = [semq EXCEPT ![s] = Tail(semq[s])] /\ UNCHANGED val
  BY <1>1, <1>3, TailToSet DEF SemOutcome
<1>4. CASE /\ val[s] # full /\ semq[s] = <<>> /\ UNCHANGED semq
           /\ val' = [val EXCEPT ![s] = val[s] + IF full = 0 THEN -1 ELSE 1]
  <2>1. val[s] = 1 - full /\ val[s] + (IF full = 0 THEN -1 ELSE 1) = full
    BY <1>4
  <2>2. val' = [val EXCEPT ![s] = full] /\ semq' = semq
    BY <1>4, <2>1, Zenon
  <2> QED  BY <1>1, <1>4, <2>1, <2>2 DEF SemOutcome
<1> QED  BY <1>2, <1>3, <1>4 DEF SemCall

\* The same for passeren and verhogen.
LEMMA PVOutcome ==
  ASSUME TypeInv, \A s \in Sems : Distinct(semq[s]),
         NEW s \in Sems, NEW p \in Uprocs \cup {0}, ~Blocked(p)
  PROVE  /\ passeren(s, p) => SemOutcome(s, p, 0)
         /\ verhogen(s, p) => SemOutcome(s, p, 1)
         /\ passeren(s, p) \/ verhogen(s, p) =>
              /\ val' \in [Sems -> {0, 1}]
              /\ semq' \in [Sems -> Seq(Uprocs \cup {0})]
              /\ \A t \in Sems : Distinct(semq'[t])
              /\ \A t \in Sems : t # s => semq'[t] = semq[t] /\ val'[t] = val[t]
<1>1. passeren(s, p) => SemCall(s, p, 0, IF 0 = 0 THEN -1 ELSE 1)
  BY DEF passeren
<1>2. verhogen(s, p) => SemCall(s, p, 1, IF 1 = 0 THEN -1 ELSE 1)
  BY DEF verhogen
<1> QED  BY <1>1, <1>2, SemCallOutcome DEF TypeInv, SupportTypeOK

-----------------------------------------------------------------------------
(* Type correctness *)

\* A call on anything that is not one of the semaphores would change nothing.
LEMMA SemCallType ==
  ASSUME val \in [Sems -> {0, 1}], semq \in [Sems -> Seq(Uprocs \cup {0})],
         NEW s, NEW p \in Uprocs \cup {0}, passeren(s, p) \/ verhogen(s, p)
  PROVE  val' \in [Sems -> {0, 1}] /\ semq' \in [Sems -> Seq(Uprocs \cup {0})]
<1>1. CASE s \notin Sems
  <2>1. ASSUME NEW x, NEW f, NEW g, f = [g EXCEPT ![s] = x], DOMAIN g = Sems,
               g = [t \in DOMAIN g |-> g[t]]
        PROVE  f = g
    BY <1>1, <2>1
  <2> QED  BY <1>1, <2>1 DEF passeren, verhogen, SemCall
<1>2. CASE s \in Sems
  <2> DEFINE full == IF passeren(s, p) THEN 0 ELSE 1
             change == IF passeren(s, p) THEN -1 ELSE 1
  <2>1. SemCall(s, p, full, change)
    BY DEF passeren, verhogen
  <2>2. full \in {0, 1} /\ change = (IF full = 0 THEN -1 ELSE 1)
    OBVIOUS
  <2> HIDE DEF full, change
  <2>3. val[s] # full => val[s] + change \in {0, 1}
    BY <1>2, <2>2
  <2>4. Append(semq[s], p) \in Seq(Uprocs \cup {0})
    BY <1>2
  <2>5. semq[s] # <<>> => Tail(semq[s]) \in Seq(Uprocs \cup {0})
    BY <1>2
  <2> QED  BY <2>1, <2>3, <2>4, <2>5 DEF SemCall
<1> QED  BY <1>1, <1>2

\* The initial state is well-typed.
LEMMA SupportInitType == Init => TypeInv
<1> SUFFICES ASSUME Init PROVE TypeInv
  OBVIOUS
<1> USE DEF Init
<1>1. pte \in [PageIds -> [valid : BOOLEAN, pfn : Frames]] /\ lastFrame \in Frames
  BY PagerAssumption DEF Frames
<1>2. swap \in [Frames -> PageIds \cup {NoPage}]
  OBVIOUS
<1>3. frame \in [Frames -> [id : PageIds \cup {NoPage}, ver : Versions]] /\ flash \in [PageIds -> Versions]
  BY PagerAssumption DEF Versions
<1>4. val \in [Sems -> {0, 1}]
  OBVIOUS
<1>5. semq \in [Sems -> Seq(Uprocs \cup {0})]
  OBVIOUS
<1>6. step \in 0..(2 * UPROCMAX + 1)
  BY PagerAssumption
<1>7. /\ pc \in [Uprocs -> States] /\ back \in [Uprocs -> {"user", "load", "store", "nul"}]
      /\ vpn \in [Uprocs -> Pages \cup {0}] /\ io \in [Uprocs -> {"out", "in"}]
      /\ tlb \subseteq [id : PageIds, valid : BOOLEAN, pfn : Frames] /\ failed \subseteq Uprocs
      /\ gen \in [Uprocs -> CallType \cup {NoCall}] /\ left \in [Uprocs -> Nat]
  BY DEF States
<1>8. \A q \in Uprocs : Equipped(q)
  BY DEF Equipped, At, PoolStates, CallStates
<1> QED  BY <1>1, <1>2, <1>3, <1>4, <1>5, <1>6, <1>7, <1>8 DEF TypeInv, SupportTypeOK

\* The type invariant by what its variables are for.
SemType == val \in [Sems -> {0, 1}] /\ semq \in [Sems -> Seq(Uprocs \cup {0})]

MemType ==
  /\ pte \in [PageIds -> [valid : BOOLEAN, pfn : Frames]]
  /\ tlb \subseteq [id : PageIds, valid : BOOLEAN, pfn : Frames]
  /\ swap \in [Frames -> PageIds \cup {NoPage}]
  /\ lastFrame \in Frames
  /\ frame \in [Frames -> [id : PageIds \cup {NoPage}, ver : Versions]]
  /\ flash \in [PageIds -> Versions]

ControlType ==
  /\ pc \in [Uprocs -> States]
  /\ back \in [Uprocs -> {"user", "load", "store", "nul"}]
  /\ vpn \in [Uprocs -> Pages \cup {0}]
  /\ io \in [Uprocs -> {"out", "in"}]
  /\ failed \subseteq Uprocs
  /\ gen \in [Uprocs -> CallType \cup {NoCall}]
  /\ left \in [Uprocs -> Nat]
  /\ step \in 0..(2 * UPROCMAX + 1)
  /\ \A q \in Uprocs : Equipped(q)

\* The types in three parts, as most actions touch only one,
LEMMA TypeParts == TypeInv <=> SemType /\ MemType /\ ControlType
BY DEF TypeInv, SupportTypeOK, SemType, MemType, ControlType

\* and the same in the next state.
LEMMA TypePartsNext == TypeInv' <=> SemType' /\ MemType' /\ ControlType'
BY DEF TypeInv, SupportTypeOK, SemType, MemType, ControlType

memVars == <<pte, tlb, swap, lastFrame, frame, flash>>
ctlVars == <<pc, back, vpn, io, failed, gen, left, step>>

\* Actions that leave memory and TLB alone keep their types.
LEMMA MemUnchanged == ASSUME MemType, UNCHANGED memVars PROVE MemType'
BY DEF MemType, memVars

\* A store through the TLB keeps the types of memory,
LEMMA StoreType ==
  ASSUME MemType, NEW id \in PageIds, StoreThrough(id),
         UNCHANGED <<pte, tlb, swap, lastFrame, flash>>
  PROVE  MemType'
<1>1. PICK e \in Hits(id) : frame' = [frame EXCEPT ![e.pfn].ver = Stored(frame[e.pfn].ver)]
  BY DEF StoreThrough
<1>2. e \in tlb /\ e.pfn \in Frames
  BY DEF Hits, Cached, MemType
<1>3. \A v \in Versions : Stored(v) \in Versions
  BY PagerAssumption DEF Stored, Versions
<1> QED  BY <1>1, <1>2, <1>3 DEF MemType

\* so does uTLB_RefillHandler,
LEMMA RefillType ==
  ASSUME TypeInv, NEW q \in Uprocs, NEW v \in Pages, uTLB_RefillHandler(q, v)
  PROVE  MemType'
<1>1. <<q, v>> \in PageIds
  BY DEF PageIds
<1>2. pte[<<q, v>>] \in [valid : BOOLEAN, pfn : Frames]
  BY <1>1 DEF TypeInv, SupportTypeOK
<1>3. PICK kept \in SUBSET tlb :
        tlb' = kept \cup {[id |-> <<q, v>>, valid |-> pte[<<q, v>>].valid,
                          pfn |-> pte[<<q, v>>].pfn]}
  BY DEF uTLB_RefillHandler
<1>4. tlb' \subseteq [id : PageIds, valid : BOOLEAN, pfn : Frames]
  <2> DEFINE e == [id |-> <<q, v>>, valid |-> pte[<<q, v>>].valid, pfn |-> pte[<<q, v>>].pfn]
  <2>1. e \in [id : PageIds, valid : BOOLEAN, pfn : Frames]
    BY <1>1, <1>2
  <2>2. kept \subseteq [id : PageIds, valid : BOOLEAN, pfn : Frames]
    BY DEF TypeInv, SupportTypeOK
  <2> HIDE DEF e
  <2> QED  BY <2>1, <2>2, <1>3 DEF e
<1> QED  BY <1>4, TypeParts DEF uTLB_RefillHandler, MemType

\* the choice of a frame,
LEMMA TakeFrameType ==
  ASSUME TypeInv, NEW q \in Uprocs, TakeFrame(q)
  PROVE  MemType' /\ io' \in [Uprocs -> {"out", "in"}]
<1>1. lastFrame' \in Frames
  BY PagerAssumption DEF TakeFrame, getFirstInFrame, Frames, TypeInv, SupportTypeOK
<1>2. \/ UNCHANGED <<pte, tlb>>
      \/ \E f : pte' = [pte EXCEPT ![f].valid = FALSE] /\ tlb' = {}
  BY DEF TakeFrame, EvictFrame, Evict
<1>3. /\ pte' \in [PageIds -> [valid : BOOLEAN, pfn : Frames]]
      /\ tlb' \subseteq [id : PageIds, valid : BOOLEAN, pfn : Frames]
  <2>1. CASE UNCHANGED <<pte, tlb>>
    BY <2>1 DEF TypeInv, SupportTypeOK
  <2>2. ASSUME NEW f, pte' = [pte EXCEPT ![f].valid = FALSE], tlb' = {}
        PROVE  /\ pte' \in [PageIds -> [valid : BOOLEAN, pfn : Frames]]
               /\ tlb' \subseteq [id : PageIds, valid : BOOLEAN, pfn : Frames]
    <3>1. f \in PageIds => pte[f] \in [valid : BOOLEAN, pfn : Frames]
      BY DEF TypeInv, SupportTypeOK
    <3> QED  BY <2>2, <3>1 DEF TypeInv, SupportTypeOK
  <2> QED  BY <1>2, <2>1, <2>2
<1>4. io' \in [Uprocs -> {"out", "in"}]
  BY DEF TakeFrame, EvictFrame, TypeInv, SupportTypeOK
<1> QED  BY <1>1, <1>3, <1>4, TypeParts DEF TakeFrame, MemType

\* the transfer of a page from or to the flash device,
LEMMA FlashIoType ==
  ASSUME TypeInv, NEW q \in Uprocs, FlashIo(q)
  PROVE  MemType'
<1>1. frame[lastFrame].ver \in Versions
  BY DEF TypeInv, SupportTypeOK
<1>2. pc[q] = "flash"
  BY DEF FlashIo
<1>3. <<q, vpn[q]>> \in PageIds
  BY <1>2 DEF TypeInv, SupportTypeOK, Equipped, PoolStates, PageIds
<1>4. CASE /\ flash' = [flash EXCEPT ![FlashPage(q)] = frame[lastFrame].ver]
           /\ UNCHANGED frame
  <2>1. flash' \in [PageIds -> Versions]
    BY <1>1, <1>4 DEF TypeInv, SupportTypeOK
  <2> QED  BY <1>4, <2>1, TypeParts DEF FlashIo, MemType
<1>5. CASE /\ io[q] = "in"
           /\ frame' = [frame EXCEPT ![lastFrame] =
                          [id |-> FlashPage(q), ver |-> flash[FlashPage(q)]]]
           /\ UNCHANGED flash
  <2>1. FlashPage(q) = <<q, vpn[q]>>
    BY <1>5 DEF FlashPage
  <2>2. [id |-> FlashPage(q), ver |-> flash[FlashPage(q)]]
          \in [id : PageIds \cup {NoPage}, ver : Versions]
    BY <1>3, <2>1 DEF TypeInv, SupportTypeOK
  <2>3. frame' \in [Frames -> [id : PageIds \cup {NoPage}, ver : Versions]]
    BY <1>5, <2>2 DEF TypeInv, SupportTypeOK
  <2> QED  BY <1>5, <2>3, TypeParts DEF FlashIo, MemType
<1> QED  BY <1>4, <1>5 DEF FlashIo

\* and the update of the tables.
LEMMA MapPageType ==
  ASSUME TypeInv, NEW q \in Uprocs, MapPage(q)
  PROVE  MemType'
<1>1. <<q, vpn[q]>> \in PageIds
  BY DEF MapPage, TypeInv, SupportTypeOK, Equipped, PoolStates, PageIds
<1>2. /\ swap' = [swap EXCEPT ![lastFrame] = <<q, vpn[q]>>]
      /\ pte' = [pte EXCEPT ![<<q, vpn[q]>>] = [valid |-> TRUE, pfn |-> lastFrame]]
      /\ tlb' = {} /\ UNCHANGED <<lastFrame, frame, flash>>
  BY DEF MapPage
<1>3. [valid |-> TRUE, pfn |-> lastFrame] \in [valid : BOOLEAN, pfn : Frames]
  BY DEF TypeInv, SupportTypeOK
<1> QED  BY <1>1, <1>2, <1>3, TypeParts DEF MemType

\* The Pager moves program counters from its states to its states, then back.
LEMMA PagerControlType ==
  ASSUME ControlType, NEW q \in Uprocs, UNCHANGED <<gen, left, step>>
  PROVE  /\ \A v \in Pages : uTLB_RefillHandler(q, v) \/ PageFault(q, v) => ControlType'
         /\ TakeFrame(q) \/ FlashIo(q) \/ ReleaseFlash(q) \/ ReadMissed(q) => ControlType'
         /\ MapPage(q) => ControlType'
<1> USE DEF ControlType, Equipped, At, PoolStates, CallStates, States
<1>1. ASSUME NEW v \in Pages, uTLB_RefillHandler(q, v) PROVE ControlType'
  BY <1>1 DEF uTLB_RefillHandler
<1>2. ASSUME NEW v \in Pages, PageFault(q, v) PROVE ControlType'
  BY <1>2 DEF PageFault, Touches
<1>3. ASSUME TakeFrame(q) PROVE ControlType'
  BY <1>3 DEF TakeFrame, EvictFrame
<1>4. ASSUME FlashIo(q) PROVE ControlType'
  BY <1>4 DEF FlashIo
<1>5. ASSUME ReleaseFlash(q) PROVE ControlType'
  BY <1>5 DEF ReleaseFlash
<1>6. ASSUME ReadMissed(q) PROVE ControlType'
  BY <1>6 DEF ReadMissed
<1>7. ASSUME MapPage(q) PROVE ControlType'
  BY <1>7 DEF MapPage, NoVpn
<1> QED  BY <1>1, <1>2, <1>3, <1>4, <1>5, <1>6, <1>7

\* A system call, a trap or a flash error starts a call with a page, or terminates.
LEMMA HandlerControlType ==
  ASSUME ControlType, NEW q \in Uprocs, GeneralException(q) \/ FlashFails(q)
  PROVE  ControlType'
<1>1. PICK c \in Calls[q] : generalExceptionHandler(q, c)
  BY DEF GeneralException, FlashFails
<1>2. /\ c \in CallType
      /\ c.call \in Kinds => c.page \in Pages
      /\ c.len \in Nat /\ c.page \in Pages \cup {0}
  BY SupportAssumption DEF CallType, Kinds
<1>3. /\ back' \in [Uprocs -> {"user", "load", "store", "nul"}]
      /\ \A r \in Uprocs : r # q => back'[r] = back[r]
      /\ failed' \subseteq Uprocs
  BY DEF GeneralException, FlashFails, ControlType
<1> USE DEF ControlType, Equipped, At, PoolStates, CallStates, States, generalExceptionHandler
<1>4. CASE terminate(q) /\ Forget(q)
  BY <1>1, <1>3, <1>4 DEF terminate, Forget, NoVpn
<1>5. CASE pc' = [pc EXCEPT ![q] = "user"] /\ Forget(q)
  BY <1>1, <1>3, <1>5 DEF Forget, NoVpn
<1>6. CASE StartCall(q, c)
  <2>1. PICK n \in {"receive", "done", "load"} :
          pc' = [pc EXCEPT ![q] = n] /\ (n = "load" => c.len > 0)
    <3>1. CASE c.call = "receive"
      BY <3>1, <1>6 DEF StartCall
    <3>2. CASE c.call # "receive" /\ c.len = 0
      BY <3>2, <1>6 DEF StartCall
    <3>3. CASE c.call # "receive" /\ c.len # 0
      BY <3>3, <1>2, <1>6 DEF StartCall
    <3> QED  BY <3>1, <3>2, <3>3
  <2>2. /\ vpn' = [vpn EXCEPT ![q] = c.page] /\ left' = [left EXCEPT ![q] = c.len]
        /\ gen' = [gen EXCEPT ![q] = c] /\ c.call \in Kinds /\ c.page \in Pages
        /\ UNCHANGED <<io, step>>
    BY <1>1, <1>2, <1>6 DEF StartCall, Kinds
  <2>3. Equipped(q)'
    BY <2>1, <2>2
  <2>4. ASSUME NEW r \in Uprocs, r # q PROVE Equipped(r)'
    BY <2>1, <2>2, <2>4, <1>3
  <2> HIDE DEF Equipped
  <2> QED  BY <2>1, <2>2, <2>3, <2>4, <1>2, <1>3
<1> QED  BY <1>1, <1>4, <1>5, <1>6

\* The loops of SYS3 to SYS5 and terminate keep the types.
LEMMA CallControlType ==
  ASSUME ControlType, NEW q \in Uprocs
  PROVE  /\ SendChar(q) \/ ReceiveChar(q) => ControlType'
         /\ StoreChar(q) \/ EndCall(q) \/ StoreNul(q) \/ TerminateSelf(q) => ControlType'
<1> USE DEF ControlType, Equipped, At, PoolStates, CallStates, States
<1>1. ASSUME SendChar(q) PROVE ControlType'
  <2>1. /\ vpn[q] \in Pages /\ left[q] \in Nat \ {0} /\ gen[q].call \in Kinds
    BY <1>1 DEF SendChar
  <2>2. PICK more \in {left[q] - 1, 0}, v \in NextPage(vpn[q]) \cup {vpn[q]} :
          /\ left' = [left EXCEPT ![q] = more]
          /\ pc' = [pc EXCEPT ![q] = IF more = 0 THEN "done" ELSE "load"]
          /\ vpn' = [vpn EXCEPT ![q] = v]
    BY <1>1 DEF SendChar
  <2>3. more \in Nat /\ v \in Pages
    BY <2>1 DEF NextPage
  <2> QED  BY <1>1, <2>1, <2>2, <2>3 DEF SendChar
<1>2. ASSUME ReceiveChar(q) PROVE ControlType'
  BY <1>2 DEF ReceiveChar
<1>3. ASSUME StoreChar(q) PROVE ControlType'
  <2>1. PICK v \in Pages : vpn' = [vpn EXCEPT ![q] = v]
    BY <1>3 DEF StoreChar, NextPage
  <2>2. PICK n \in {"receive", "done"} : pc' = [pc EXCEPT ![q] = n]
    BY <1>3 DEF StoreChar
  <2>3. pc[q] = "store" /\ UNCHANGED <<back, io, failed, gen, left, step>>
    BY <1>3 DEF StoreChar
  <2> QED  BY <2>1, <2>2, <2>3
<1>4. ASSUME EndCall(q) PROVE ControlType'
  BY <1>4 DEF EndCall, Forget, NoVpn
<1>5. ASSUME StoreNul(q) PROVE ControlType'
  BY <1>5 DEF StoreNul, Forget, NoVpn
<1>6. ASSUME TerminateSelf(q) PROVE ControlType'
  BY <1>6 DEF TerminateSelf
<1> QED  BY <1>1, <1>2, <1>3, <1>4, <1>5, <1>6

\* So does the instantiator.
LEMMA TestControlType ==
  ASSUME ControlType, TestStep
  PROVE  ControlType'
<1> USE DEF ControlType, Equipped, At, PoolStates, CallStates, States
<1>1. CASE CreateUproc
  <2>1. step + 1 \in Uprocs /\ step' \in 0..(2 * UPROCMAX + 1)
    BY <1>1, PagerAssumption DEF CreateUproc, Uprocs
  <2> QED  BY <1>1, <2>1 DEF CreateUproc
<1>2. CASE AwaitUproc
  <2>1. step' \in 0..(2 * UPROCMAX + 1)
    BY <1>2, PagerAssumption DEF AwaitUproc, Waits
  <2> QED  BY <1>2, <2>1 DEF AwaitUproc, pagerVars
<1>3. CASE EndTest
  <2>1. step' \in 0..(2 * UPROCMAX + 1)
    BY <1>3, PagerAssumption DEF EndTest, Waits
  <2> QED  BY <1>3, <2>1 DEF EndTest
<1> QED  BY <1>1, <1>2, <1>3 DEF TestStep

\* What the acting U-proc does to the semaphores is at most one call.
LEMMA StepSems ==
  ASSUME TypeInv, [Next]_vars
  PROVE  \/ UNCHANGED <<val, semq>>
         \/ EndTest
         \/ \E p \in Uprocs \cup {0} : \E s : passeren(s, p) \/ verhogen(s, p)
<1>1. ASSUME NEW q \in Uprocs, NEW c, generalExceptionHandler(q, c)
      PROVE  UNCHANGED <<val, semq>> \/ \E s : passeren(s, q) \/ verhogen(s, q)
  BY <1>1 DEF generalExceptionHandler, terminate, StartCall
<1>2. ASSUME NEW q \in Uprocs, TakeFrame(q)
      PROVE  \E s : passeren(s, q)
  BY <1>2 DEF TakeFrame, EvictFrame
<1>3. ASSUME NEW q \in Uprocs, PagerStep(q)
      PROVE  UNCHANGED <<val, semq>> \/ \E s : passeren(s, q) \/ verhogen(s, q)
  BY <1>2, <1>3 DEF PagerStep, uTLB_RefillHandler, PageFault, FlashIo, ReleaseFlash,
     ReadMissed, MapPage, LeavePool
<1>4. ASSUME NEW q \in Uprocs, UserStep(q) \/ CallStep(q) \/ DeviceStep(q) \/ FlashFails(q)
      PROVE  UNCHANGED <<val, semq>> \/ \E s : passeren(s, q) \/ verhogen(s, q)
  BY <1>1, <1>4 DEF UserStep, GeneralException, UserStore, CallStep, EndCall, StoreChar, StoreNul,
     TerminateSelf, DeviceStep, SendChar, ReceiveChar, FlashFails
<1>5. ASSUME TestStep
      PROVE  UNCHANGED <<val, semq>> \/ EndTest \/ \E s : passeren(s, 0)
  BY <1>5 DEF TestStep, CreateUproc, AwaitUproc
<1> QED  BY <1>3, <1>4, <1>5 DEF Next, Stopped, vars

\* Every step keeps the types.
LEMMA SupportTypeStep == TypeInv /\ [Next]_vars => TypeInv'
<1> SUFFICES ASSUME TypeInv, [Next]_vars PROVE SemType' /\ MemType' /\ ControlType'
  BY TypePartsNext
<1>a. SemType /\ MemType /\ ControlType
  BY TypeParts
<1>1. SemType'
  <2>1. CASE UNCHANGED <<val, semq>>
    BY <1>a, <2>1 DEF SemType
  <2>2. CASE EndTest
    BY <1>a, <2>2 DEF SemType, EndTest
  <2>3. ASSUME NEW p \in Uprocs \cup {0}, NEW s, passeren(s, p) \/ verhogen(s, p)
        PROVE  SemType'
    BY <1>a, <2>3, SemCallType DEF SemType
  <2> QED  BY <2>1, <2>2, <2>3, StepSems
<1>2. ASSUME NEW q \in Uprocs, PagerStep(q) PROVE MemType' /\ ControlType'
  <2>1. ControlType'
    BY <1>a, <1>2, PagerControlType DEF PagerStep
  <2>2. CASE \E v \in Pages : uTLB_RefillHandler(q, v)
    BY <2>1, <2>2, RefillType
  <2>3. CASE TakeFrame(q) \/ FlashIo(q) \/ MapPage(q)
    BY <2>1, <2>3, TakeFrameType, FlashIoType, MapPageType
  <2>4. CASE (\E v \in Pages : PageFault(q, v)) \/ ReleaseFlash(q) \/ ReadMissed(q)
    <3>1. UNCHANGED memVars
      BY <2>4 DEF PageFault, ReleaseFlash, ReadMissed, memVars
    <3> QED  BY <1>a, <2>1, <3>1, MemUnchanged
  <2> QED  BY <1>2, <2>1, <2>2, <2>3, <2>4 DEF PagerStep
<1>3. ASSUME NEW q \in Uprocs, UserStep(q) PROVE MemType' /\ ControlType'
  <2>1. CASE GeneralException(q)
    <3>1. UNCHANGED memVars
      BY <2>1 DEF GeneralException, generalExceptionHandler, memVars
    <3> QED  BY <1>a, <2>1, <3>1, MemUnchanged, HandlerControlType
  <2>2. CASE UserStore(q) /\ UNCHANGED <<gen, left, step>>
    <3>1. PICK v \in DataPages : StoreThrough(<<q, v>>)
      BY <2>2 DEF UserStore
    <3>2. <<q, v>> \in PageIds
      BY PagerAssumption DEF PageIds
    <3>3. MemType'
      BY <1>a, <2>2, <3>1, <3>2, StoreType DEF UserStore
    <3> QED  BY <1>a, <2>2, <3>3 DEF UserStore, ControlType, Equipped, At
  <2> QED  BY <1>3, <2>1, <2>2 DEF UserStep
<1>4. ASSUME NEW q \in Uprocs, CallStep(q) \/ DeviceStep(q) PROVE MemType' /\ ControlType'
  <2>1. ControlType'
    BY <1>a, <1>4, CallControlType DEF CallStep, DeviceStep
  <2>2. CASE StoreChar(q) \/ StoreNul(q)
    <3>1. <<q, vpn[q]>> \in PageIds
      BY <2>2, <1>a DEF StoreChar, StoreNul, ControlType, Equipped, At, PoolStates, CallStates, PageIds
    <3>2. /\ StoreThrough(<<q, vpn[q]>>)
          /\ UNCHANGED <<pte, tlb, swap, lastFrame, flash>>
      BY <2>2 DEF StoreChar, StoreNul
    <3> QED  BY <1>a, <2>1, <3>1, <3>2, StoreType
  <2>3. CASE EndCall(q) \/ TerminateSelf(q) \/ DeviceStep(q)
    <3>1. UNCHANGED memVars
      BY <2>3 DEF EndCall, TerminateSelf, DeviceStep, SendChar, ReceiveChar, memVars
    <3> QED  BY <1>a, <2>1, <3>1, MemUnchanged
  <2> QED  BY <1>4, <2>2, <2>3 DEF CallStep
<1>5. ASSUME NEW q \in Uprocs, FlashFails(q) PROVE MemType' /\ ControlType'
  <2>1. UNCHANGED memVars
    BY <1>5 DEF FlashFails, generalExceptionHandler, memVars
  <2> QED  BY <1>a, <1>5, <2>1, MemUnchanged, HandlerControlType
<1>6. ASSUME TestStep PROVE MemType' /\ ControlType'
  <2>1. UNCHANGED memVars
    BY <1>6 DEF TestStep, CreateUproc, AwaitUproc, EndTest, memVars, pagerVars
  <2> QED  BY <1>a, <1>6, <2>1, MemUnchanged, TestControlType
<1>7. CASE Stopped \/ UNCHANGED vars
  <2>1. UNCHANGED memVars
    BY <1>7 DEF Stopped, vars, pagerVars, memVars
  <2>2. UNCHANGED ctlVars
    BY <1>7 DEF Stopped, vars, pagerVars, ctlVars
  <2>3. ControlType'
    BY <1>a, <2>2 DEF ctlVars, ControlType, Equipped, At
  <2> QED  BY <1>1, <1>a, <2>1, <2>3, MemUnchanged
<1> QED  BY <1>1, <1>2, <1>3, <1>4, <1>5, <1>6, <1>7 DEF Next

\* Every variable of the support level keeps its type: semaphores are binary,
\* whatever order P and V come in, a U-proc in the Pager has a page of its own,
\* and one in the loop of a write has characters left.
THEOREM SupportTypeCorrect == Spec => []SupportTypeOK
<1>1. TypeInv => SupportTypeOK
  BY DEF TypeInv
<1> QED  BY <1>1, SupportInitType, SupportTypeStep, PTL DEF Spec

-----------------------------------------------------------------------------
(* Mutual exclusion: the inductive invariant *)

\* What a process in the queue of s is doing.
WaitsFor(p, s) ==
  \/ s = swapPoolSem /\ p \in Uprocs /\ pc[p] = "frame"
  \/ s[1] \in Kinds /\ p = s[2] /\ p \in failed /\ pc[p] \in CallStates \cup {"user"}
  \/ s = masterSem /\ p = 0
  \/ s = masterSem /\ p \in Uprocs /\ pc[p] = "quit"

QueueInv ==
  \A s \in Sems : Distinct(semq[s]) /\ \A p \in ToSet(semq[s]) : WaitsFor(p, s)

\* swapPoolSem: at most one U-proc owns the pool.
InPool(q) == pc[q] \in PoolStates /\ q \notin ToSet(semq[swapPoolSem])
Owner(q)  == InPool(q) \/ q \in failed

PoolInv ==
  /\ \A q, r \in Uprocs : Owner(q) /\ Owner(r) => q = r
  /\ \A q \in failed : ~InPool(q)
  /\ val[swapPoolSem] = 0 => \E q \in Uprocs : Owner(q)
  /\ val[swapPoolSem] = 1 => semq[swapPoolSem] = <<>> /\ \A q \in Uprocs : ~Owner(q)

\* The mutex of a flash device is taken by the owner of the pool only.
FlashUser(q) == pc[q] \in {"flash", "release"} \/ q \in failed

FlashInv ==
  /\ \A q \in Uprocs : FlashUser(q) => FlashNo(q) \in Uprocs
  /\ \A q \in Uprocs : pc[q] = "read" => io[q] = "in"
  /\ \A n \in Uprocs : val[flashSems(n)] = 0 <=> \E q \in Uprocs : FlashUser(q) /\ FlashNo(q) = n

\* The mutexes of the other devices have one user each.
Holding == {"load", "receive", "store", "done"}

DeviceInv ==
  \A k \in Kinds, n \in Uprocs \ failed :
    val[DeviceSem(k, n)] = 0 <=> gen[n].call = k /\ At(n) \in Holding

\* masterSem: V operations that are complete, less P operations that are.
Ended    == {q \in Uprocs : pc[q] \in {"quit", "dead"}} \ ToSet(semq[masterSem])
Awaited  == (IF step > UPROCMAX THEN step - UPROCMAX ELSE 0)
              - (IF 0 \in ToSet(semq[masterSem]) THEN 1 ELSE 0)

MasterInv ==
  /\ step <= UPROCMAX + Waits => val[masterSem] = Cardinality(Ended) - Awaited
  /\ val[masterSem] = 0 => ToSet(semq[masterSem]) \subseteq {0}
  /\ val[masterSem] = 1 => 0 \notin ToSet(semq[masterSem])
  /\ 0 \in ToSet(semq[masterSem]) => step > UPROCMAX

StepInv ==
  /\ \A q \in Uprocs : pc[q] = "new" <=> q > step
  /\ step > UPROCMAX + Waits => \A q \in Uprocs : pc[q] = "dead"

MutexInv == QueueInv /\ PoolInv /\ FlashInv /\ DeviceInv /\ MasterInv /\ StepInv

-----------------------------------------------------------------------------
(* Queues *)

\* The step is q's: nothing that concerns another U-proc only has changed.
OthersStay(q) ==
  /\ \A r \in Uprocs \ {q} : pc'[r] = pc[r] /\ back'[r] = back[r] /\ io'[r] = io[r] /\ gen'[r] = gen[r]
  /\ step' = step

\* The mutex of a flash device is never waited for, nor is a device mutex
\* before a flash error.
LEMMA NobodyWaits ==
  ASSUME TypeInv, QueueInv, NEW n \in Uprocs
  PROVE  /\ semq[flashSems(n)] = <<>>
         /\ n \notin failed => \A k \in Kinds : semq[DeviceSem(k, n)] = <<>>
<1>1. ASSUME NEW s \in Sems, ToSet(semq[s]) = {} PROVE semq[s] = <<>>
  BY <1>1, ToSetProperties DEF TypeInv, SupportTypeOK
<1>2. flashSems(n) \in Sems /\ \A k \in Kinds : DeviceSem(k, n) \in Sems
  BY SemsFacts
<1>3. ToSet(semq[flashSems(n)]) = {}
  BY <1>2 DEF QueueInv, WaitsFor, flashSems, swapPoolSem, masterSem, Kinds
<1>4. ASSUME n \notin failed, NEW k \in Kinds PROVE ToSet(semq[DeviceSem(k, n)]) = {}
  BY <1>2, <1>4 DEF QueueInv, WaitsFor, DeviceSem, swapPoolSem, masterSem, Kinds
<1> QED  BY <1>1, <1>2, <1>3, <1>4

\* Who waits for the pool is before it, who waits on masterSem is about to die.
LEMMA WaitersPc ==
  ASSUME TypeInv, QueueInv
  PROVE  /\ \A p \in ToSet(semq[swapPoolSem]) : p \in Uprocs /\ pc[p] = "frame"
         /\ \A p \in ToSet(semq[masterSem]) : p = 0 \/ (p \in Uprocs /\ pc[p] = "quit")
<1>1. swapPoolSem \in Sems /\ masterSem \in Sems
  BY SemsFacts
<1>2. swapPoolSem[1] \notin Kinds /\ masterSem[1] \notin Kinds /\ swapPoolSem # masterSem
  BY DEF swapPoolSem, masterSem, Kinds
<1>3. ASSUME NEW s \in Sems, NEW p \in ToSet(semq[s]) PROVE WaitsFor(p, s)
  BY DEF QueueInv
<1> HIDE DEF swapPoolSem, masterSem
<1> QED  BY <1>1, <1>2, <1>3 DEF WaitsFor

\* A step that adds nobody to a queue but a process that is at the P keeps QueueInv;
LEMMA QueueStep ==
  ASSUME TypeInv, QueueInv, NEW q \in Uprocs, ~Blocked(q), OthersStay(q), failed \subseteq failed',
         \A t \in Sems : Distinct(semq'[t]),
         \A t \in Sems : \A p \in ToSet(semq'[t]) : p \in ToSet(semq[t]) \/ (p = q /\ WaitsFor(q, t)')
  PROVE  QueueInv'
<1> SUFFICES ASSUME NEW t \in Sems, NEW p \in ToSet(semq[t]) PROVE WaitsFor(p, t)'
  BY DEF QueueInv
<1>1. WaitsFor(p, t)
  BY DEF QueueInv
<1>2. p # q
  BY DEF Blocked, TypeInv, SupportTypeOK
<1>3. p \in Uprocs => pc'[p] = pc[p]
  BY <1>2 DEF OthersStay
<1>4. CASE t = swapPoolSem /\ p \in Uprocs /\ pc[p] = "frame"
  BY <1>3, <1>4 DEF WaitsFor
<1>5. CASE t[1] \in Kinds /\ p = t[2] /\ p \in failed /\ pc[p] \in CallStates \cup {"user"}
  <2>1. p \in Uprocs
    BY <1>5 DEF TypeInv, SupportTypeOK
  <2> QED  BY <1>3, <1>5, <2>1 DEF WaitsFor
<1>6. CASE t = masterSem /\ p = 0
  BY <1>6 DEF WaitsFor
<1>7. CASE t = masterSem /\ p \in Uprocs /\ pc[p] = "quit"
  BY <1>3, <1>7 DEF WaitsFor
<1> QED  BY <1>1, <1>4, <1>5, <1>6, <1>7 DEF WaitsFor

\* so does one without a call,
LEMMA QueueSame ==
  ASSUME TypeInv, QueueInv, NEW q \in Uprocs, ~Blocked(q), OthersStay(q), failed \subseteq failed',
         semq' = semq
  PROVE  QueueInv'
<1>1. \A t \in Sems : Distinct(semq'[t])
  BY DEF QueueInv
<1>2. \A t \in Sems : \A p \in ToSet(semq'[t]) : p \in ToSet(semq[t]) \/ (p = q /\ WaitsFor(q, t)')
  OBVIOUS
<1> QED  BY <1>1, <1>2, QueueStep

\* and one P or V at the right place.
LEMMA QueueCall ==
  ASSUME TypeInv, QueueInv, NEW q \in Uprocs, ~Blocked(q), OthersStay(q), failed \subseteq failed',
         NEW s \in Sems, passeren(s, q) \/ verhogen(s, q),
         q \in ToSet(semq'[s]) => WaitsFor(q, s)'
  PROVE  QueueInv'
<1>1. \A t \in Sems : Distinct(semq[t])
  BY DEF QueueInv
<1>2. /\ SemOutcome(s, q, 0) \/ SemOutcome(s, q, 1)
      /\ \A t \in Sems : Distinct(semq'[t])
      /\ \A t \in Sems : t # s => semq'[t] = semq[t]
  BY <1>1, PVOutcome
<1>3. \A p \in ToSet(semq'[s]) : p \in ToSet(semq[s]) \/ p = q
  BY <1>2 DEF SemOutcome
<1>4. \A t \in Sems : \A p \in ToSet(semq'[t]) : p \in ToSet(semq[t]) \/ (p = q /\ WaitsFor(q, t)')
  <2> SUFFICES ASSUME NEW t \in Sems, NEW p \in ToSet(semq'[t]), p \notin ToSet(semq[t])
               PROVE  p = q /\ WaitsFor(q, t)'
    OBVIOUS
  <2>1. t = s /\ p = q
    BY <1>2, <1>3
  <2> QED  BY <2>1 DEF WaitsFor
<1> QED  BY <1>2, <1>4, QueueStep

-----------------------------------------------------------------------------
(* What a step leaves alone *)

\* PoolInv looks only at who is in the Pager and at the semaphore of the pool,
LEMMA PoolSame ==
  ASSUME TypeInv, PoolInv,
         \A r \in Uprocs : pc'[r] \in PoolStates <=> pc[r] \in PoolStates,
         failed' = failed, val'[swapPoolSem] = val[swapPoolSem],
         semq'[swapPoolSem] = semq[swapPoolSem]
  PROVE  PoolInv'
<1>1. \A r \in Uprocs : (InPool(r)' <=> InPool(r)) /\ (Owner(r)' <=> Owner(r))
  BY DEF InPool, Owner
<1> QED  BY <1>1 DEF PoolInv, TypeInv, SupportTypeOK

\* FlashInv only at who uses the flash devices,
LEMMA FlashSame ==
  ASSUME FlashInv,
         \A r \in Uprocs : FlashUser(r)' <=> FlashUser(r),
         \A r \in Uprocs : FlashUser(r) => FlashNo(r)' = FlashNo(r),
         \A r \in Uprocs : pc'[r] = "read" => pc[r] = "read" /\ io'[r] = io[r],
         \A n \in Uprocs : val'[flashSems(n)] = val[flashSems(n)]
  PROVE  FlashInv'
BY DEF FlashInv

\* DeviceInv only at who is in a call on a device,
LEMMA DeviceSame ==
  ASSUME DeviceInv, failed \subseteq failed',
         \A k \in Kinds, n \in Uprocs \ failed' :
           (gen'[n].call = k /\ At(n)' \in Holding) <=> (gen[n].call = k /\ At(n) \in Holding),
         \A k \in Kinds, n \in Uprocs : val'[DeviceSem(k, n)] = val[DeviceSem(k, n)]
  PROVE  DeviceInv'
BY DEF DeviceInv

\* MasterInv only at who has ended,
LEMMA MasterSame ==
  ASSUME MasterInv, step' = step, val'[masterSem] = val[masterSem], semq'[masterSem] = semq[masterSem],
         \A r \in Uprocs : pc'[r] \in {"quit", "dead"} <=> pc[r] \in {"quit", "dead"}
  PROVE  MasterInv'
<1>1. Ended' = Ended
  BY DEF Ended
<1> QED  BY <1>1 DEF MasterInv, Awaited

\* StepInv only at who is new.
LEMMA StepSame ==
  ASSUME StepInv, NEW q \in Uprocs, OthersStay(q), pc[q] # "new", pc[q] # "dead", pc'[q] # "new"
  PROVE  StepInv'
BY DEF StepInv, OthersStay

-----------------------------------------------------------------------------
(* Steps without a semaphore call *)

\* q takes no notice of any mutex.
Ignores(q) ==
  /\ pc[q] \notin {"new", "dead"} /\ pc'[q] # "new"
  /\ pc'[q] \in PoolStates <=> pc[q] \in PoolStates
  /\ pc'[q] \in {"flash", "release"} <=> pc[q] \in {"flash", "release"}
  /\ pc'[q] = "read" => pc[q] = "read"
  /\ pc'[q] \in {"quit", "dead"} <=> pc[q] \in {"quit", "dead"}
  /\ At(q)' \in Holding <=> At(q) \in Holding
  /\ At(q) \in Holding => gen'[q] = gen[q]

\* A step that calls no semaphore and stays where it is, as far as mutexes go, keeps them.
LEMMA QuietMutex ==
  ASSUME TypeInv, MutexInv, NEW q \in Uprocs, ~Blocked(q), OthersStay(q), Ignores(q),
         UNCHANGED <<val, semq, failed, io, lastFrame, swap>>
  PROVE  MutexInv'
<1> USE DEF MutexInv
<1>1. QueueInv'
  BY QueueSame
<1>2. PoolInv'
  BY PoolSame DEF OthersStay, Ignores
<1>3. FlashInv'
  BY FlashSame DEF OthersStay, Ignores, FlashUser, FlashNo, FlashPage
<1>4. DeviceInv'
  BY DeviceSame DEF OthersStay, Ignores, At
<1>5. MasterInv'
  BY MasterSame DEF OthersStay, Ignores
<1>6. StepInv'
  BY StepSame DEF Ignores
<1> QED  BY <1>1, <1>2, <1>3, <1>4, <1>5, <1>6

\* The steps of that kind.
LEMMA QuietSteps ==
  ASSUME TypeInv, MutexInv, NEW q \in Uprocs,
         \/ \E v \in Pages : uTLB_RefillHandler(q, v) /\ UNCHANGED <<gen, left, step>>
         \/ FlashIo(q) /\ UNCHANGED <<gen, left, step>>
         \/ UserStore(q) /\ UNCHANGED <<gen, left, step>>
         \/ SendChar(q) \/ ReceiveChar(q) \/ StoreChar(q) \/ StoreNul(q) \/ TerminateSelf(q)
  PROVE  MutexInv'
<1> DEFINE Done == /\ ~Blocked(q) /\ OthersStay(q) /\ Ignores(q)
                   /\ UNCHANGED <<val, semq, failed, io, lastFrame, swap>>
<1> SUFFICES Done
  BY QuietMutex
<1>t. pc \in [Uprocs -> States] /\ gen \in [Uprocs -> CallType \cup {NoCall}]
  BY DEF TypeInv, SupportTypeOK
<1> USE DEF OthersStay, Ignores, At, Holding, PoolStates, Awake
<1>1. ASSUME NEW v \in Pages, uTLB_RefillHandler(q, v), UNCHANGED <<gen, left, step>> PROVE Done
  BY <1>1 DEF uTLB_RefillHandler, Touches
<1>2. ASSUME FlashIo(q), UNCHANGED <<gen, left, step>> PROVE Done
  BY <1>t, <1>2 DEF FlashIo
<1>3. ASSUME UserStore(q), UNCHANGED <<gen, left, step>> PROVE Done
  BY <1>3 DEF UserStore
<1>4. ASSUME SendChar(q) PROVE Done
  BY <1>t, <1>4 DEF SendChar
<1>5. ASSUME ReceiveChar(q) PROVE Done
  BY <1>t, <1>5 DEF ReceiveChar
<1>6. ASSUME StoreChar(q) PROVE Done
  BY <1>t, <1>6 DEF StoreChar
<1>7. ASSUME StoreNul(q) PROVE Done
  BY <1>t, <1>7 DEF StoreNul, Forget
<1>8. ASSUME TerminateSelf(q) PROVE Done
  BY <1>t, <1>8 DEF TerminateSelf
<1> QED  BY <1>1, <1>2, <1>3, <1>4, <1>5, <1>6, <1>7, <1>8

-----------------------------------------------------------------------------
(* The Pager *)

\* While an Awake process is in the Pager nobody else has the pool or a flash
\* device, and no flash operation has failed.
LEMMA PoolToOneself ==
  ASSUME TypeInv, MutexInv, NEW q \in Uprocs, Awake(q), pc[q] \in PoolStates
  PROVE  /\ InPool(q) /\ val[swapPoolSem] = 0 /\ failed = {}
         /\ \A r \in Uprocs : FlashUser(r) => r = q
         /\ \A r \in Uprocs : InPool(r) => r = q
<1>1. InPool(q)
  BY SemsFacts DEF Awake, Blocked, InPool, TypeInv, SupportTypeOK
<1>2. val[swapPoolSem] \in {0, 1}
  BY SemsFacts DEF TypeInv, SupportTypeOK
<1>3. failed \subseteq Uprocs
  BY DEF TypeInv, SupportTypeOK
<1>4. val[swapPoolSem] = 0 /\ failed = {} /\ \A r \in Uprocs : Owner(r) => r = q
  BY <1>1, <1>2, <1>3 DEF MutexInv, PoolInv, Owner
<1>5. \A r \in Uprocs : FlashUser(r) => Owner(r)
  BY <1>4, WaitersPc DEF MutexInv, FlashUser, Owner, InPool, PoolStates
<1> QED  BY <1>1, <1>4, <1>5 DEF Owner

\* A P or V leaves the other semaphores alone.
LEMMA OneCall ==
  ASSUME TypeInv, MutexInv, NEW q \in Uprocs \cup {0}, ~Blocked(q), NEW s \in Sems
  PROVE  /\ passeren(s, q) => SemOutcome(s, q, 0)
         /\ verhogen(s, q) => SemOutcome(s, q, 1)
         /\ passeren(s, q) \/ verhogen(s, q) =>
              /\ val' \in [Sems -> {0, 1}]
              /\ \A t \in Sems : t # s => semq'[t] = semq[t] /\ val'[t] = val[t]
BY PVOutcome DEF MutexInv, QueueInv

\* A page fault starts with a P on the pool: the caller gets it, or waits for it.
LEMMA PageFaultMutex ==
  ASSUME TypeInv, MutexInv, NEW q \in Uprocs, NEW v \in Pages, PageFault(q, v), UNCHANGED <<gen, left, step>>
  PROVE  MutexInv'
<1> DEFINE s == swapPoolSem
<1>1. /\ pc' = [pc EXCEPT ![q] = "frame"] /\ back' = [back EXCEPT ![q] = pc[q]] /\ ~Blocked(q)
      /\ pc[q] \in {"user", "load", "store", "nul"} /\ passeren(s, q)
      /\ UNCHANGED <<io, swap, lastFrame, failed, gen, step>>
  BY DEF PageFault, Touches, Awake
<1>2. pc \in [Uprocs -> States] /\ back \in [Uprocs -> {"user", "load", "store", "nul"}]
  BY DEF TypeInv, SupportTypeOK
<1>3. OthersStay(q)
  BY <1>1, <1>2 DEF OthersStay
<1>4. s \in Sems /\ SemOutcome(s, q, 0) /\ \A t \in Sems : t # s => semq'[t] = semq[t] /\ val'[t] = val[t]
  BY <1>1, OneCall, SemsFacts
<1>5. QueueInv'
  <2>1. WaitsFor(q, s)'
    BY <1>1, <1>2 DEF WaitsFor
  <2> QED  BY <1>1, <1>3, <1>4, <2>1, QueueCall DEF MutexInv
<1>6. ToSet(semq'[s]) \in {ToSet(semq[s]), ToSet(semq[s]) \cup {q}}
  BY <1>4 DEF SemOutcome, MutexInv, PoolInv
<1>a. ASSUME NEW r \in Uprocs, r # q PROVE (InPool(r)' <=> InPool(r)) /\ (Owner(r)' <=> Owner(r))
  BY <1>1, <1>2, <1>6, <1>a DEF InPool, Owner
<1>7. PoolInv'
  <2>1. CASE val[s] = 0 /\ val' = val /\ ToSet(semq'[s]) = ToSet(semq[s]) \cup {q}
    <3>1. ~InPool(q) /\ ~InPool(q)'
      BY <1>1, <2>1 DEF InPool, PoolStates
    <3>2. Owner(q)' <=> Owner(q)
      BY <1>1, <3>1 DEF Owner
    <3>3. \A r \in Uprocs : (Owner(r)' <=> Owner(r)) /\ (InPool(r)' <=> InPool(r))
      BY <1>a, <3>1, <3>2
    <3>4. failed' = failed /\ failed \subseteq Uprocs /\ val'[s] # 1
      BY <1>1, <2>1 DEF TypeInv, SupportTypeOK
    <3> QED  BY <2>1, <3>3, <3>4 DEF MutexInv, PoolInv
  <2>2. CASE val[s] = 1 /\ semq[s] = <<>> /\ semq' = semq /\ val' = [val EXCEPT ![s] = 0]
    <3>1. val'[s] = 0
      BY <1>4, <2>2 DEF TypeInv, SupportTypeOK
    <3>2. InPool(q)'
      <4>1. ToSet(semq[s]) = {}
        BY <2>2 DEF ToSet
      <4> QED  BY <1>1, <1>2, <2>2, <4>1 DEF InPool, PoolStates
    <3>3. \A r \in Uprocs : ~Owner(r)
      BY <2>2 DEF MutexInv, PoolInv
    <3>4. \A r \in Uprocs : Owner(r)' => r = q
      BY <1>a, <3>3
    <3>5. failed' = {} /\ Owner(q)'
      BY <1>1, <3>2, <3>3 DEF Owner, TypeInv, SupportTypeOK
    <3> QED  BY <3>1, <3>4, <3>5 DEF PoolInv
  <2> QED  BY <1>4, <2>1, <2>2 DEF SemOutcome, MutexInv, PoolInv
<1>8. \A n \in Uprocs : /\ val'[flashSems(n)] = val[flashSems(n)]
                        /\ \A k \in Kinds : val'[DeviceSem(k, n)] = val[DeviceSem(k, n)]
  <2>1. \A n \in Uprocs : flashSems(n) # s /\ \A k \in Kinds : DeviceSem(k, n) # s
    BY DEF flashSems, swapPoolSem, DeviceSem, Kinds
  <2> QED  BY <1>4, <2>1, SemsFacts
<1>9. FlashInv'
  BY <1>1, <1>2, <1>8, FlashSame DEF MutexInv, FlashUser, FlashNo, FlashPage
<1>10. DeviceInv'
  BY <1>1, <1>2, <1>8, DeviceSame DEF MutexInv, At, PoolStates
<1>11. MasterInv'
  <2>1. masterSem # s /\ masterSem \in Sems
    BY SemsFacts
  <2> QED  BY <1>1, <1>2, <1>4, <2>1, MasterSame DEF MutexInv
<1>12. StepInv'
  BY <1>1, <1>2, <1>3, StepSame DEF MutexInv
<1> QED  BY <1>5, <1>7, <1>9, <1>10, <1>11, <1>12 DEF MutexInv

\* P and V of a flash device never block: the owner of the pool is alone.
LEMMA FlashCall ==
  ASSUME TypeInv, MutexInv, NEW q \in Uprocs, ~Blocked(q), NEW n \in Uprocs
  PROVE  LET s == flashSems(n)
         IN  /\ passeren(s, q) /\ val[s] # 0 => semq' = semq /\ val' = [val EXCEPT ![s] = 0]
             /\ verhogen(s, q) /\ val[s] # 1 => semq' = semq /\ val' = [val EXCEPT ![s] = 1]
<1>1. flashSems(n) \in Sems /\ semq[flashSems(n)] = <<>>
  BY SemsFacts, NobodyWaits DEF MutexInv
<1> QED  BY <1>1, OneCall DEF SemOutcome

\* In the Pager only the owner of the pool moves, and it touches flash semaphores only.
LEMMA FlashStepMutex ==
  ASSUME TypeInv, MutexInv, NEW q \in Uprocs, ~Blocked(q), OthersStay(q),
         pc[q] \in PoolStates, pc'[q] \in PoolStates,
         UNCHANGED <<back, gen, failed, semq>>, FlashInv',
         \A s \in Sems : (\A n \in Uprocs : s # flashSems(n)) => val'[s] = val[s]
  PROVE  MutexInv'
<1>1. /\ \A n \in Uprocs : flashSems(n) # swapPoolSem /\ flashSems(n) # masterSem
      /\ \A n, m \in Uprocs : \A k \in Kinds : flashSems(n) # DeviceSem(k, m)
  BY DEF flashSems, swapPoolSem, masterSem, DeviceSem, Kinds
<1>2. /\ val'[swapPoolSem] = val[swapPoolSem] /\ val'[masterSem] = val[masterSem]
      /\ \A k \in Kinds, n \in Uprocs : val'[DeviceSem(k, n)] = val[DeviceSem(k, n)]
  BY <1>1, SemsFacts
<1>3. QueueInv'
  BY QueueSame DEF MutexInv
<1>4. PoolInv'
  BY <1>2, PoolSame DEF MutexInv, OthersStay
<1>5. DeviceInv'
  BY <1>2, DeviceSame DEF MutexInv, OthersStay, At
<1>6. MasterInv'
  BY <1>2, MasterSame DEF MutexInv, OthersStay, PoolStates
<1>7. StepInv'
  BY StepSame DEF MutexInv, PoolStates
<1> QED  BY <1>3, <1>4, <1>5, <1>6, <1>7 DEF MutexInv

\* flashInit begins with a P on the flash device,
LEMMA TakeFrameMutex ==
  ASSUME TypeInv, MutexInv, NEW q \in Uprocs, TakeFrame(q), UNCHANGED <<gen, left, step>>
  PROVE  MutexInv'
<1> DEFINE f == getFirstInFrame
           n == IF InUse(f) THEN swap[f][1] ELSE q
<1>1. /\ pc[q] = "frame" /\ Awake(q) /\ lastFrame' = f /\ f \in Frames
      /\ pc' = [pc EXCEPT ![q] = "flash"]
      /\ io' = [io EXCEPT ![q] = IF InUse(f) THEN "out" ELSE "in"]
      /\ passeren(flashSems(n), q) /\ UNCHANGED <<back, swap, failed, gen, step>>
  BY PagerAssumption DEF TakeFrame, EvictFrame, getFirstInFrame, Frames, TypeInv, SupportTypeOK
<1>2. pc \in [Uprocs -> States] /\ io \in [Uprocs -> {"out", "in"}]
  BY DEF TypeInv, SupportTypeOK
<1>3. n \in Uprocs
  BY <1>1 DEF InUse, TypeInv, SupportTypeOK, PageIds
<1>4. OthersStay(q) /\ ~Blocked(q) /\ pc[q] \in PoolStates /\ pc'[q] \in PoolStates
  BY <1>1, <1>2 DEF OthersStay, Awake, PoolStates
<1>5. failed = {} /\ \A r \in Uprocs : ~FlashUser(r)
  BY <1>1, <1>4, PoolToOneself DEF FlashUser
<1>6. \A m \in Uprocs : val[flashSems(m)] # 0
  BY <1>5 DEF MutexInv, FlashInv
<1>7. semq' = semq /\ val' = [val EXCEPT ![flashSems(n)] = 0]
  BY <1>1, <1>3, <1>4, <1>6, FlashCall
<1>8. FlashNo(q)' = n
  BY <1>1, <1>2 DEF FlashNo, FlashPage
<1>9. \A r \in Uprocs : FlashUser(r)' <=> r = q
  BY <1>1, <1>2, <1>5 DEF FlashUser
<1>10. \A m \in Uprocs : val'[flashSems(m)] = 0 <=> m = n
  BY <1>3, <1>6, <1>7, SemsFacts DEF TypeInv, SupportTypeOK, flashSems
<1>11. FlashInv'
  BY <1>1, <1>2, <1>3, <1>8, <1>9, <1>10 DEF MutexInv, FlashInv
<1>12. \A s \in Sems : (\A m \in Uprocs : s # flashSems(m)) => val'[s] = val[s]
  BY <1>3, <1>7
<1> QED  BY <1>1, <1>4, <1>7, <1>11, <1>12, FlashStepMutex

\* and ends with a V on it,
LEMMA ReleaseFlashMutex ==
  ASSUME TypeInv, MutexInv, NEW q \in Uprocs, ReleaseFlash(q), UNCHANGED <<gen, left, step>>
  PROVE  MutexInv'
<1> DEFINE n == FlashNo(q)
<1>1. /\ pc[q] = "release" /\ Awake(q) /\ io' = [io EXCEPT ![q] = "in"]
      /\ pc' = [pc EXCEPT ![q] = IF io[q] = "out" THEN "read" ELSE "map"]
      /\ verhogen(flashSems(n), q) /\ UNCHANGED <<back, failed, gen, step>>
  BY DEF ReleaseFlash
<1>2. pc \in [Uprocs -> States] /\ io \in [Uprocs -> {"out", "in"}]
  BY DEF TypeInv, SupportTypeOK
<1>3. n \in Uprocs /\ val[flashSems(n)] = 0
  BY <1>1 DEF MutexInv, FlashInv, FlashUser
<1>4. OthersStay(q) /\ ~Blocked(q) /\ pc[q] \in PoolStates /\ pc'[q] \in PoolStates
  BY <1>1, <1>2 DEF OthersStay, Awake, PoolStates
<1>5. failed = {} /\ \A r \in Uprocs : FlashUser(r) => r = q
  BY <1>1, <1>4, PoolToOneself
<1>6. \A m \in Uprocs : val[flashSems(m)] = 0 => m = n
  BY <1>5 DEF MutexInv, FlashInv
<1>7. semq' = semq /\ val' = [val EXCEPT ![flashSems(n)] = 1]
  BY <1>1, <1>3, <1>4, FlashCall
<1>8. \A r \in Uprocs : ~FlashUser(r)'
  BY <1>1, <1>2, <1>5 DEF FlashUser
<1> HIDE DEF n
<1>9. ASSUME NEW m \in Uprocs PROVE val'[flashSems(m)] # 0
  <2>1. flashSems(m) \in Sems /\ flashSems(n) \in Sems
    BY <1>3, SemsFacts
  <2> QED  BY <1>6, <1>7, <2>1 DEF TypeInv, SupportTypeOK
<1>10. FlashInv'
  BY <1>1, <1>2, <1>8, <1>9 DEF MutexInv, FlashInv
<1>11. \A s \in Sems : (\A m \in Uprocs : s # flashSems(m)) => val'[s] = val[s]
  BY <1>3, <1>7
<1> QED  BY <1>1, <1>4, <1>7, <1>10, <1>11, FlashStepMutex

\* for the page that is missing too.
LEMMA ReadMissedMutex ==
  ASSUME TypeInv, MutexInv, NEW q \in Uprocs, ReadMissed(q), UNCHANGED <<gen, left, step>>
  PROVE  MutexInv'
<1>1. /\ pc[q] = "read" /\ Awake(q) /\ pc' = [pc EXCEPT ![q] = "flash"]
      /\ passeren(flashSems(q), q) /\ UNCHANGED <<back, io, swap, lastFrame, failed, gen, step>>
  BY DEF ReadMissed
<1>2. pc \in [Uprocs -> States]
  BY DEF TypeInv, SupportTypeOK
<1>3. OthersStay(q) /\ ~Blocked(q) /\ pc[q] \in PoolStates /\ pc'[q] \in PoolStates
  BY <1>1, <1>2 DEF OthersStay, Awake, PoolStates
<1>4. failed = {} /\ \A r \in Uprocs : ~FlashUser(r)
  BY <1>1, <1>3, PoolToOneself DEF FlashUser
<1>5. \A m \in Uprocs : val[flashSems(m)] # 0
  BY <1>4 DEF MutexInv, FlashInv
<1>6. semq' = semq /\ val' = [val EXCEPT ![flashSems(q)] = 0]
  BY <1>1, <1>3, <1>5, FlashCall
<1>7. FlashNo(q)' = q
  BY <1>1 DEF FlashNo, FlashPage, MutexInv, FlashInv
<1>8. \A r \in Uprocs : FlashUser(r)' <=> r = q
  BY <1>1, <1>2, <1>4 DEF FlashUser
<1>9. \A m \in Uprocs : val'[flashSems(m)] = 0 <=> m = q
  BY <1>5, <1>6, SemsFacts DEF TypeInv, SupportTypeOK, flashSems
<1>10. FlashInv'
  BY <1>1, <1>2, <1>7, <1>8, <1>9 DEF MutexInv, FlashInv
<1>11. \A s \in Sems : (\A m \in Uprocs : s # flashSems(m)) => val'[s] = val[s]
  BY <1>6
<1> QED  BY <1>1, <1>3, <1>6, <1>10, <1>11, FlashStepMutex

\* The fault ends with a V on the pool, given to the next in the queue.
LEMMA MapPageMutex ==
  ASSUME TypeInv, MutexInv, NEW q \in Uprocs, MapPage(q), UNCHANGED <<gen, left, step>>
  PROVE  MutexInv'
<1> DEFINE s == swapPoolSem
<1>1. /\ pc[q] = "map" /\ Awake(q) /\ pc' = [pc EXCEPT ![q] = back[q]] /\ verhogen(s, q)
      /\ back' = [back EXCEPT ![q] = "user"] /\ UNCHANGED <<io, failed, gen, step>>
  BY DEF MapPage, LeavePool
<1>2. pc \in [Uprocs -> States] /\ back \in [Uprocs -> {"user", "load", "store", "nul"}]
  BY DEF TypeInv, SupportTypeOK
<1>3. OthersStay(q) /\ ~Blocked(q) /\ pc[q] \in PoolStates /\ pc'[q] \in {"user", "load", "store", "nul"}
  BY <1>1, <1>2 DEF OthersStay, Awake, PoolStates
<1>4. s \in Sems /\ SemOutcome(s, q, 1) /\ \A t \in Sems : t # s => semq'[t] = semq[t] /\ val'[t] = val[t]
  BY <1>1, <1>3, OneCall, SemsFacts
<1>5. /\ InPool(q) /\ val[s] = 0 /\ failed = {}
      /\ \A r \in Uprocs : FlashUser(r) => r = q
      /\ \A r \in Uprocs : InPool(r) => r = q
  BY <1>1, <1>3, PoolToOneself
<1>6. ~InPool(q)' /\ ~Owner(q)' /\ failed' = {}
  BY <1>1, <1>3, <1>5 DEF InPool, Owner, PoolStates
<1>7. \A r \in Uprocs : pc'[r] \in PoolStates <=> r # q /\ pc[r] \in PoolStates
  BY <1>1, <1>2, <1>3 DEF PoolStates
<1>8. PoolInv'
  <2>1. CASE semq[s] # <<>> /\ val' = val /\ ToSet(semq'[s]) = ToSet(semq[s]) \ {Head(semq[s])}
             /\ Head(semq[s]) \in ToSet(semq[s])
    <3>0. PICK h \in Uprocs : h = Head(semq[s])
      BY <2>1, WaitersPc DEF MutexInv
    <3>1. pc[h] = "frame" /\ h # q
      BY <1>1, <2>1, <3>0, WaitersPc DEF MutexInv
    <3>2. InPool(h)'
      <4>1. h \notin ToSet(semq'[s])
        BY <2>1, <3>0
      <4>2. pc'[h] \in PoolStates
        BY <1>7, <3>1 DEF PoolStates
      <4> QED  BY <4>1, <4>2 DEF InPool
    <3>3. ASSUME NEW r \in Uprocs, InPool(r)' PROVE r = h
      BY <1>5, <1>6, <1>7, <2>1, <3>0, <3>1, <3>3 DEF InPool
    <3>4. val'[s] = 0
      BY <1>5, <2>1
    <3> QED  BY <1>6, <3>1, <3>2, <3>3, <3>4 DEF PoolInv, Owner
  <2>2. CASE semq[s] = <<>> /\ semq' = semq /\ val' = [val EXCEPT ![s] = 1]
    <3>1. \A r \in Uprocs : ~InPool(r)'
      BY <1>5, <1>7, <2>2 DEF InPool
    <3>2. val'[s] = 1
      BY <1>4, <2>2 DEF TypeInv, SupportTypeOK
    <3> QED  BY <1>6, <2>2, <3>1, <3>2 DEF PoolInv, Owner
  <2> QED  BY <1>4, <1>5, <2>1, <2>2 DEF SemOutcome
<1>9. QueueInv'
  <2>1. q \notin ToSet(semq'[s])
    BY <1>3, <1>4, <1>5 DEF SemOutcome, InPool
  <2> QED  BY <1>1, <1>3, <1>4, <2>1, QueueCall DEF MutexInv
<1>10. \A n \in Uprocs : /\ val'[flashSems(n)] = val[flashSems(n)]
                         /\ \A k \in Kinds : val'[DeviceSem(k, n)] = val[DeviceSem(k, n)]
  <2>1. \A n \in Uprocs : flashSems(n) # s /\ \A k \in Kinds : DeviceSem(k, n) # s
    BY DEF flashSems, swapPoolSem, DeviceSem, Kinds
  <2> QED  BY <1>4, <2>1, SemsFacts
<1>11. FlashInv'
  <2>1. \A r \in Uprocs : ~FlashUser(r) /\ ~FlashUser(r)'
    BY <1>1, <1>2, <1>3, <1>5, <1>6 DEF FlashUser
  <2>2. \A r \in Uprocs : pc'[r] = "read" => pc[r] = "read" /\ io'[r] = io[r]
    BY <1>1, <1>2, <1>3
  <2> QED  BY <1>10, <2>1, <2>2, FlashSame DEF MutexInv
<1>12. DeviceInv'
  BY <1>1, <1>2, <1>10, DeviceSame DEF MutexInv, At, PoolStates
<1>13. MasterInv'
  <2>1. masterSem # s /\ masterSem \in Sems
    BY SemsFacts
  <2> QED  BY <1>1, <1>2, <1>3, <1>4, <2>1, MasterSame DEF MutexInv
<1>14. StepInv'
  BY <1>1, <1>3, StepSame DEF MutexInv
<1> QED  BY <1>8, <1>9, <1>11, <1>12, <1>13, <1>14 DEF MutexInv

-----------------------------------------------------------------------------
(* masterSem *)

\* The U-procs that have ended are counted.
LEMMA EndedCount ==
  /\ IsFiniteSet(Ended) /\ Cardinality(Ended) \in Nat /\ Ended \subseteq Uprocs
  /\ \A q \in Uprocs \ Ended : Cardinality(Ended \cup {q}) = Cardinality(Ended) + 1
  /\ Cardinality(Ended) >= UPROCMAX => Ended = Uprocs
<1>1. IsFiniteSet(Uprocs) /\ Cardinality(Uprocs) = UPROCMAX
  BY PagerAssumption, FS_Interval DEF Uprocs
<1>2. Ended \subseteq Uprocs
  BY DEF Ended
<1>3. IsFiniteSet(Ended) /\ Cardinality(Ended) \in Nat /\ Cardinality(Ended) <= UPROCMAX
        /\ (Cardinality(Ended) = UPROCMAX => Ended = Uprocs)
  BY <1>1, <1>2, FS_Subset, FS_CardinalityType
<1>4. \A q \in Uprocs \ Ended : Cardinality(Ended \cup {q}) = Cardinality(Ended) + 1
  BY <1>3, FS_AddElement
<1> QED  BY <1>2, <1>3, <1>4, PagerAssumption

\* terminate does a V on masterSem,
LEMMA TerminateMaster ==
  ASSUME TypeInv, MutexInv, NEW q \in Uprocs, ~Blocked(q), verhogen(masterSem, q), step' = step,
         pc[q] \notin {"quit", "dead"}, pc' = [pc EXCEPT ![q] = "quit"]
  PROVE  MasterInv'
<1> DEFINE s == masterSem
           Dead == {r \in Uprocs : pc[r] \in {"quit", "dead"}}
<1>1. s \in Sems /\ SemOutcome(s, q, 1) /\ val' \in [Sems -> {0, 1}] /\ val \in [Sems -> {0, 1}]
  BY OneCall, SemsFacts DEF TypeInv, SupportTypeOK
<1>2. Dead' = Dead \cup {q} /\ q \notin Dead
  BY DEF TypeInv, SupportTypeOK
<1>3. Ended = Dead \ ToSet(semq[s]) /\ Ended' = Dead' \ ToSet(semq'[s])
  BY DEF Ended
<1>4. q # 0 /\ q \notin ToSet(semq[s]) /\ 0 \notin Dead
  BY <1>1 DEF Uprocs, Blocked, TypeInv, SupportTypeOK
<1>5. Cardinality(Ended \cup {q}) = Cardinality(Ended) + 1 /\ Cardinality(Ended) \in Nat
  BY <1>2, <1>3, EndedCount
<1>6. step \in Int /\ UPROCMAX \in Int
  BY PagerAssumption DEF TypeInv, SupportTypeOK
<1>7. CASE val[s] = 1 /\ val' = val /\ ToSet(semq'[s]) = ToSet(semq[s]) \cup {q}
  <2>1. Ended' = Ended
    BY <1>2, <1>3, <1>7
  <2> QED  BY <1>4, <1>7, <2>1 DEF MutexInv, MasterInv, Awaited
<1>8. CASE /\ val[s] = 0 /\ semq[s] # <<>> /\ val' = val
           /\ Head(semq[s]) \in ToSet(semq[s]) /\ ToSet(semq'[s]) = ToSet(semq[s]) \ {Head(semq[s])}
  <2>1. ToSet(semq[s]) = {0} /\ ToSet(semq'[s]) = {}
    BY <1>8 DEF MutexInv, MasterInv
  <2>2. Ended' = Ended \cup {q}
    BY <1>2, <1>3, <1>4, <2>1
  <2>3. Cardinality(Ended') = Cardinality(Ended) + 1
    BY <1>5, <2>2
  <2>4. Awaited' = Awaited + 1
    BY <1>6, <2>1 DEF Awaited
  <2>5. Awaited \in Int
    BY <1>6 DEF Awaited
  <2> QED  BY <1>5, <1>8, <2>1, <2>3, <2>4, <2>5 DEF MutexInv, MasterInv
<1>9. CASE val[s] = 0 /\ semq[s] = <<>> /\ semq' = semq /\ val' = [val EXCEPT ![s] = 1]
  <2>1. ToSet(semq[s]) = {} /\ val'[s] = 1
    BY <1>1, <1>9 DEF ToSet
  <2>2. Ended' = Ended \cup {q}
    BY <1>2, <1>3, <1>9, <2>1
  <2>3. Cardinality(Ended') = Cardinality(Ended) + 1
    BY <1>5, <2>2
  <2>4. Awaited' = Awaited /\ Awaited \in Int
    BY <1>6, <1>9, <2>1 DEF Awaited
  <2> QED  BY <1>5, <1>9, <2>1, <2>3, <2>4 DEF MutexInv, MasterInv
<1> QED  BY <1>1, <1>7, <1>8, <1>9 DEF SemOutcome

\* and the instantiator a P: the value is the difference.
LEMMA AwaitMaster ==
  ASSUME TypeInv, MutexInv, AwaitUproc
  PROVE  MasterInv'
<1> DEFINE s == masterSem
           Dead == {r \in Uprocs : pc[r] \in {"quit", "dead"}}
<1>1. s \in Sems /\ SemOutcome(s, 0, 0) /\ val' \in [Sems -> {0, 1}] /\ val \in [Sems -> {0, 1}]
  BY OneCall, SemsFacts DEF TypeInv, SupportTypeOK, AwaitUproc
<1>2. Ended = Dead \ ToSet(semq[s]) /\ Ended' = Dead \ ToSet(semq'[s])
  BY DEF Ended, AwaitUproc, pagerVars
<1>3. step \in Int /\ UPROCMAX \in Int /\ step' = step + 1 /\ step >= UPROCMAX /\ Waits \in Int
  BY PagerAssumption DEF TypeInv, SupportTypeOK, AwaitUproc, Waits
<1>4. 0 \notin ToSet(semq[s]) /\ 0 \notin Dead
  BY <1>1 DEF Uprocs, Blocked, TypeInv, SupportTypeOK, AwaitUproc
<1>5. Awaited = step - UPROCMAX
  BY <1>3, <1>4 DEF Awaited
<1>6. Awaited' = step + 1 - UPROCMAX - (IF 0 \in ToSet(semq'[s]) THEN 1 ELSE 0)
  BY <1>3 DEF Awaited
<1>7. step <= UPROCMAX + Waits /\ Cardinality(Ended) \in Nat
  BY <1>3, EndedCount DEF AwaitUproc
<1>8. val[s] = Cardinality(Ended) - (step - UPROCMAX)
  BY <1>5, <1>7 DEF MutexInv, MasterInv
<1>9. CASE val[s] = 0 /\ val' = val /\ ToSet(semq'[s]) = ToSet(semq[s]) \cup {0}
  <2>1. Ended' = Ended
    BY <1>2, <1>4, <1>9
  <2>2. Awaited' = step - UPROCMAX
    BY <1>3, <1>6, <1>9
  <2> QED  BY <1>3, <1>8, <1>9, <2>1, <2>2 DEF MutexInv, MasterInv
<1>10. CASE /\ val[s] = 1 /\ semq[s] # <<>> /\ val' = val
            /\ Head(semq[s]) \in ToSet(semq[s]) /\ ToSet(semq'[s]) = ToSet(semq[s]) \ {Head(semq[s])}
  <2>1. PICK h \in ToSet(semq[s]) : h = Head(semq[s])
    BY <1>10
  <2>2. h \in Dead /\ h \in Uprocs
    BY <1>4, WaitersPc DEF MutexInv
  <2>3. Ended' = Ended \cup {h} /\ h \notin Ended
    BY <1>2, <1>10, <2>1, <2>2
  <2>4. Cardinality(Ended') = Cardinality(Ended) + 1
    BY <2>2, <2>3, EndedCount
  <2>5. Awaited' = step + 1 - UPROCMAX /\ 0 \notin ToSet(semq'[s])
    BY <1>3, <1>4, <1>6, <1>10
  <2> QED  BY <1>3, <1>7, <1>8, <1>10, <2>4, <2>5 DEF MasterInv
<1>11. CASE val[s] = 1 /\ semq[s] = <<>> /\ semq' = semq /\ val' = [val EXCEPT ![s] = 0]
  <2>1. ToSet(semq'[s]) = {} /\ val'[s] = 0
    BY <1>1, <1>11 DEF ToSet
  <2>2. Ended' = Ended
    BY <1>2, <1>11
  <2>3. Awaited' = step + 1 - UPROCMAX
    BY <1>3, <1>6, <2>1
  <2> QED  BY <1>3, <1>7, <1>8, <1>11, <2>1, <2>2, <2>3 DEF MasterInv
<1> QED  BY <1>1, <1>9, <1>10, <1>11 DEF SemOutcome

-----------------------------------------------------------------------------
(* generalExceptionHandler, called for a system call or a flash error *)

\* The two ways into the handler.
Enters(q) ==
  \/ pc[q] = "user" /\ UNCHANGED <<back, failed>>
  \/ pc[q] = "flash" /\ failed' = failed \cup {q} /\ back' = [back EXCEPT ![q] = "user"]

\* After a flash error the pool and the flash device stay with the U-proc.
LEMMA HandlerPool ==
  ASSUME TypeInv, MutexInv, NEW q \in Uprocs, Awake(q), Enters(q), OthersStay(q),
         pc'[q] \notin PoolStates, UNCHANGED <<io, swap, lastFrame>>,
         val'[swapPoolSem] = val[swapPoolSem], semq'[swapPoolSem] = semq[swapPoolSem],
         \A n \in Uprocs : val'[flashSems(n)] = val[flashSems(n)]
  PROVE  PoolInv' /\ FlashInv'
<1>1. \A r \in Uprocs : FlashNo(r)' = FlashNo(r)
  BY DEF FlashNo, FlashPage
<1>2. CASE pc[q] = "user" /\ failed' = failed
  <2>1. PoolInv'
    BY <1>2, PoolSame DEF MutexInv, OthersStay, PoolStates
  <2>2. \A r \in Uprocs : FlashUser(r)' <=> FlashUser(r)
    BY <1>2 DEF FlashUser, OthersStay, PoolStates
  <2>3. \A r \in Uprocs : pc'[r] = "read" => pc[r] = "read" /\ io'[r] = io[r]
    BY DEF OthersStay, PoolStates
  <2> QED  BY <1>1, <2>1, <2>2, <2>3, FlashSame DEF MutexInv
<1>3. CASE pc[q] = "flash" /\ failed' = failed \cup {q}
  <2>1. /\ InPool(q) /\ val[swapPoolSem] = 0 /\ failed' = {q}
        /\ \A r \in Uprocs : FlashUser(r) => r = q
        /\ \A r \in Uprocs : InPool(r) => r = q
    BY <1>3, PoolToOneself DEF PoolStates
  <2>2. ASSUME NEW r \in Uprocs PROVE ~InPool(r)'
    BY <2>1, <2>2 DEF InPool, OthersStay
  <2>3. PoolInv'
    BY <2>1, <2>2 DEF PoolInv, Owner
  <2>4. \A r \in Uprocs : FlashUser(r)' <=> FlashUser(r)
    BY <1>3, <2>1 DEF FlashUser, OthersStay
  <2>5. \A r \in Uprocs : pc'[r] = "read" => pc[r] = "read" /\ io'[r] = io[r]
    BY DEF OthersStay, PoolStates
  <2> QED  BY <1>1, <2>3, <2>4, <2>5, FlashSame DEF MutexInv
<1> QED  BY <1>2, <1>3 DEF Enters

\* generalExceptionHandler changes the state of its caller only.
LEMMA HandlerEntry ==
  ASSUME TypeInv, NEW q \in Uprocs, NEW c \in Calls[q], generalExceptionHandler(q, c),
         \/ GeneralException(q) /\ UNCHANGED <<back, failed>>
         \/ FlashFails(q)
  PROVE  Enters(q) /\ Awake(q) /\ ~Blocked(q) /\ OthersStay(q) /\ pc[q] \notin {"new", "dead", "quit"}
         /\ failed \subseteq failed' /\ UNCHANGED <<io, swap, lastFrame, step>>
<1>1. Enters(q) /\ Awake(q) /\ ~Blocked(q) /\ failed \subseteq failed'
  BY DEF Enters, GeneralException, FlashFails, Awake
<1>2. pc \in [Uprocs -> States] /\ gen \in [Uprocs -> CallType \cup {NoCall}]
      /\ back \in [Uprocs -> {"user", "load", "store", "nul"}]
  BY DEF TypeInv, SupportTypeOK
<1>3. UNCHANGED <<io, swap, lastFrame, step>>
  BY DEF generalExceptionHandler
<1>4. \A r \in Uprocs \ {q} : back'[r] = back[r]
  BY <1>1, <1>2 DEF Enters
<1>5. \A r \in Uprocs \ {q} : pc'[r] = pc[r] /\ gen'[r] = gen[r]
  BY <1>2 DEF generalExceptionHandler, terminate, Forget, StartCall
<1> QED  BY <1>1, <1>3, <1>4, <1>5 DEF OthersStay, Enters

\* A call starts with a P on its device, SYS2 and a trap with terminate.
LEMMA HandlerMutex ==
  ASSUME TypeInv, MutexInv, NEW q \in Uprocs, NEW c \in Calls[q], generalExceptionHandler(q, c),
         \/ GeneralException(q) /\ UNCHANGED <<back, failed>>
         \/ FlashFails(q)
  PROVE  MutexInv'
<1>e. Enters(q) /\ Awake(q) /\ ~Blocked(q) /\ OthersStay(q) /\ pc[q] \notin {"new", "dead", "quit"}
      /\ failed \subseteq failed' /\ UNCHANGED <<io, swap, lastFrame, step>>
  BY HandlerEntry
<1>t. pc \in [Uprocs -> States] /\ gen \in [Uprocs -> CallType \cup {NoCall}]
      /\ back \in [Uprocs -> {"user", "load", "store", "nul"}] /\ val \in [Sems -> {0, 1}]
  BY DEF TypeInv, SupportTypeOK
<1>s. /\ swapPoolSem # masterSem /\ swapPoolSem \in Sems /\ masterSem \in Sems
      /\ \A n \in Uprocs : flashSems(n) \in Sems /\ flashSems(n) # masterSem
      /\ \A k \in Kinds, n \in Uprocs : DeviceSem(k, n) \in Sems /\ DeviceSem(k, n) \notin {masterSem, swapPoolSem}
      /\ \A k \in Kinds, m, n \in Uprocs : DeviceSem(k, m) # flashSems(n)
  BY SemsFacts DEF swapPoolSem, masterSem, flashSems, DeviceSem, Kinds
<1>1. CASE pc' = [pc EXCEPT ![q] = "quit"] /\ verhogen(masterSem, q)
  <2>1. \A t \in Sems : t # masterSem => semq'[t] = semq[t] /\ val'[t] = val[t]
    BY <1>e, <1>s, <1>1, OneCall
  <2>2. QueueInv'
    <3>1. WaitsFor(q, masterSem)'
      BY <1>1, <1>t DEF WaitsFor
    <3> QED  BY <1>e, <1>s, <1>1, <3>1, QueueCall DEF MutexInv
  <2>3. PoolInv' /\ FlashInv'
    BY <1>e, <1>s, <1>t, <1>1, <2>1, HandlerPool DEF PoolStates
  <2>4. DeviceInv'
    BY <1>e, <1>s, <1>t, <1>1, <2>1, DeviceSame DEF MutexInv, Enters, OthersStay, At, Holding, PoolStates
  <2>5. MasterInv'
    BY <1>e, <1>1, TerminateMaster
  <2>6. StepInv'
    BY <1>e, <1>t, <1>1, StepSame DEF MutexInv
  <2> QED  BY <2>2, <2>3, <2>4, <2>5, <2>6 DEF MutexInv
<1>2. CASE pc' = [pc EXCEPT ![q] = "user"] /\ UNCHANGED <<val, semq>>
  <2>1. QueueInv'
    BY <1>e, <1>2, QueueSame DEF MutexInv
  <2>2. PoolInv' /\ FlashInv'
    BY <1>e, <1>t, <1>2, HandlerPool DEF PoolStates
  <2>3. DeviceInv'
    BY <1>e, <1>t, <1>2, DeviceSame DEF MutexInv, Enters, OthersStay, At, Holding, PoolStates
  <2>4. MasterInv'
    BY <1>e, <1>t, <1>2, MasterSame DEF MutexInv
  <2>5. StepInv'
    BY <1>e, <1>t, <1>2, StepSame DEF MutexInv
  <2> QED  BY <2>1, <2>2, <2>3, <2>4, <2>5 DEF MutexInv
<1>3. CASE StartCall(q, c)
  <2> DEFINE s == DeviceSem(c.call, q)
  <2>1. /\ c.call \in Kinds /\ passeren(s, q) /\ gen' = [gen EXCEPT ![q] = c]
        /\ pc'[q] \in {"load", "receive", "done"}
        /\ \A r \in Uprocs \ {q} : pc'[r] = pc[r]
    BY <1>t, <1>3 DEF StartCall
  <2>2. SemOutcome(s, q, 0) /\ \A t \in Sems : t # s => semq'[t] = semq[t] /\ val'[t] = val[t]
    BY <1>e, <1>s, <2>1, OneCall
  <2>3. PoolInv' /\ FlashInv'
    BY <1>e, <1>s, <2>1, <2>2, HandlerPool DEF PoolStates
  <2>4. MasterInv'
    BY <1>e, <1>s, <2>1, <2>2, MasterSame DEF MutexInv
  <2>5. StepInv'
    BY <1>e, <2>1, StepSame DEF MutexInv
  <2>6. \A k \in Kinds, n \in Uprocs : n # q => val'[DeviceSem(k, n)] = val[DeviceSem(k, n)]
    BY <1>s, <2>1, <2>2 DEF DeviceSem
  <2>7. \A n \in Uprocs \ {q} : gen'[n] = gen[n] /\ At(n)' = At(n)
    BY <1>e DEF OthersStay, At
  <2>8. CASE q \in failed'
    <3>1. DeviceInv'
      BY <1>e, <2>6, <2>7, <2>8 DEF MutexInv, DeviceInv
    <3>2. QueueInv'
      <4>1. WaitsFor(q, s)'
        BY <2>1, <2>8 DEF WaitsFor, DeviceSem, CallStates
      <4> QED  BY <1>e, <1>s, <2>1, <4>1, QueueCall DEF MutexInv
    <3> QED  BY <2>3, <2>4, <2>5, <3>1, <3>2 DEF MutexInv
  <2>9. CASE q \notin failed'
    <3>1. pc[q] = "user" /\ q \notin failed
      BY <1>e, <2>9 DEF Enters
    <3>2. \A k \in Kinds : val[DeviceSem(k, q)] # 0 /\ semq[DeviceSem(k, q)] = <<>>
      BY <3>1, NobodyWaits DEF MutexInv, DeviceInv, At, Holding, PoolStates
    <3>3. semq' = semq /\ val' = [val EXCEPT ![s] = 0]
      BY <2>1, <2>2, <3>2 DEF SemOutcome
    <3>4. \A k \in Kinds : val'[DeviceSem(k, q)] = 0 <=> k = c.call
      BY <1>s, <1>t, <2>1, <3>2, <3>3 DEF DeviceSem
    <3>5. gen'[q] = c /\ At(q)' \in Holding
      BY <1>t, <2>1 DEF At, Holding, PoolStates
    <3>6. ASSUME NEW k \in Kinds, NEW n \in Uprocs \ failed'
          PROVE  val'[DeviceSem(k, n)] = 0 <=> gen'[n].call = k /\ At(n)' \in Holding
      <4>1. CASE n = q
        BY <2>1, <3>4, <3>5, <4>1 DEF At
      <4>2. CASE n # q
        BY <1>e, <2>6, <2>7, <4>2 DEF MutexInv, DeviceInv
      <4> QED  BY <4>1, <4>2
    <3>7. DeviceInv'
      BY <3>6 DEF DeviceInv
    <3>8. QueueInv'
      BY <1>e, <3>3, QueueSame DEF MutexInv
    <3> QED  BY <2>3, <2>4, <2>5, <3>7, <3>8 DEF MutexInv
  <2> QED  BY <2>8, <2>9
<1> QED  BY <1>1, <1>2, <1>3 DEF generalExceptionHandler, terminate

\* A call ends with a V on its device.
LEMMA EndCallMutex ==
  ASSUME TypeInv, MutexInv, NEW q \in Uprocs, EndCall(q)
  PROVE  MutexInv'
<1> DEFINE k == gen[q].call
           s == DeviceSem(k, q)
<1>1. /\ pc[q] = "done" /\ ~Blocked(q) /\ verhogen(s, q)
      /\ UNCHANGED <<back, io, swap, lastFrame, failed, step>>
  BY DEF EndCall, Awake
<1>t. pc \in [Uprocs -> States] /\ gen \in [Uprocs -> CallType \cup {NoCall}] /\ val \in [Sems -> {0, 1}]
  BY DEF TypeInv, SupportTypeOK
<1>2. /\ pc'[q] \in {"nul", "user"} /\ k \in Kinds
      /\ \A r \in Uprocs \ {q} : pc'[r] = pc[r] /\ gen'[r] = gen[r]
  BY <1>1, <1>t DEF EndCall, Forget, TypeInv, Equipped, At, PoolStates, CallStates
<1>3. OthersStay(q)
  BY <1>1, <1>2 DEF OthersStay
<1>s. /\ swapPoolSem \in Sems /\ masterSem \in Sems /\ s \in Sems
      /\ \A n \in Uprocs : flashSems(n) \in Sems /\ flashSems(n) # s
      /\ s # masterSem /\ s # swapPoolSem
      /\ \A l \in Kinds, n \in Uprocs : DeviceSem(l, n) \in Sems /\ (DeviceSem(l, n) = s <=> l = k /\ n = q)
  BY <1>2, SemsFacts DEF swapPoolSem, masterSem, flashSems, DeviceSem, Kinds
<1>4. SemOutcome(s, q, 1) /\ \A t \in Sems : t # s => semq'[t] = semq[t] /\ val'[t] = val[t]
  BY <1>1, <1>s, OneCall
<1>5. PoolInv'
  BY <1>1, <1>2, <1>s, <1>4, PoolSame DEF MutexInv, PoolStates
<1>6. FlashInv'
  <2>1. \A n \in Uprocs : val'[flashSems(n)] = val[flashSems(n)]
    BY <1>s, <1>4
  <2> QED  BY <1>1, <1>2, <2>1, FlashSame DEF MutexInv, FlashUser, FlashNo, FlashPage
<1>7. MasterInv'
  BY <1>1, <1>2, <1>s, <1>4, MasterSame DEF MutexInv
<1>8. StepInv'
  BY <1>1, <1>2, <1>3, StepSame DEF MutexInv
<1>9. CASE q \in failed
  <2>1. DeviceInv'
    <3>1. ASSUME NEW l \in Kinds, NEW n \in Uprocs, n # q PROVE val'[DeviceSem(l, n)] = val[DeviceSem(l, n)]
      BY <1>s, <1>4, <3>1
    <3>2. \A n \in Uprocs \ {q} : gen'[n] = gen[n] /\ At(n)' = At(n)
      BY <1>1, <1>2 DEF At
    <3> QED  BY <1>1, <1>9, <3>1, <3>2 DEF MutexInv, DeviceInv
  <2>2. PICK t \in Sems : t = s
    BY <1>s
  <2>3. WaitsFor(q, t)'
    <3>1. t[1] \in Kinds /\ q = t[2]
      BY <1>2, <2>2 DEF DeviceSem
    <3>2. q \in failed' /\ pc'[q] \in CallStates \cup {"user"}
      BY <1>1, <1>2, <1>9 DEF CallStates
    <3> QED  BY <3>1, <3>2 DEF WaitsFor
  <2>4. QueueInv'
    BY <1>1, <1>3, <2>2, <2>3, QueueCall DEF MutexInv
  <2> QED  BY <1>5, <1>6, <1>7, <1>8, <2>1, <2>4 DEF MutexInv
<1>10. CASE q \notin failed
  <2>1. val[s] = 0 /\ semq[s] = <<>>
    BY <1>1, <1>2, <1>10, NobodyWaits DEF MutexInv, DeviceInv, At, Holding, PoolStates
  <2>2. semq' = semq /\ val' = [val EXCEPT ![s] = 1]
    BY <1>4, <2>1 DEF SemOutcome
  <2>3. ASSUME NEW l \in Kinds, NEW n \in Uprocs \ failed'
        PROVE  val'[DeviceSem(l, n)] = 0 <=> gen'[n].call = l /\ At(n)' \in Holding
    <3>1. CASE n = q
      <4>1. At(q)' \notin Holding /\ At(q) \in Holding
        BY <1>1, <1>2 DEF At, Holding, PoolStates
      <4>2. l # k => val[DeviceSem(l, q)] # 0
        BY <1>10 DEF MutexInv, DeviceInv
      <4>3. val'[DeviceSem(l, q)] # 0
        BY <1>s, <1>t, <2>2, <4>2
      <4> QED  BY <3>1, <4>1, <4>3 DEF At
    <3>2. CASE n # q
      <4>1. val'[DeviceSem(l, n)] = val[DeviceSem(l, n)] /\ gen'[n] = gen[n] /\ At(n)' = At(n)
        BY <1>1, <1>2, <1>s, <1>4, <3>2 DEF At
      <4> QED  BY <1>1, <4>1 DEF MutexInv, DeviceInv
    <3> QED  BY <3>1, <3>2
  <2>4. DeviceInv'
    BY <2>3 DEF DeviceInv
  <2>5. QueueInv'
    BY <1>1, <1>3, <2>2, QueueSame DEF MutexInv
  <2> QED  BY <1>5, <1>6, <1>7, <1>8, <2>4, <2>5 DEF MutexInv
<1> QED  BY <1>9, <1>10

-----------------------------------------------------------------------------
(* The instantiator *)

\* When its last P is over, each U-proc has completed its V.
LEMMA AllEnded ==
  ASSUME TypeInv, MutexInv, step = UPROCMAX + Waits, ~Blocked(0)
  PROVE  \A q \in Uprocs : pc[q] \in {"quit", "dead"} /\ ~Blocked(q)
<1>1. masterSem \in Sems /\ 0 \notin ToSet(semq[masterSem])
  BY SemsFacts DEF Blocked, TypeInv, SupportTypeOK
<1>2. Awaited = UPROCMAX
  BY <1>1, PagerAssumption DEF Awaited, Waits
<1>3. val[masterSem] = Cardinality(Ended) - UPROCMAX /\ val[masterSem] \in {0, 1}
  BY <1>1, <1>2, PagerAssumption DEF MutexInv, MasterInv, Waits, TypeInv, SupportTypeOK
<1>4. Ended = Uprocs
  BY <1>3, EndedCount, PagerAssumption
<1>5. \A q \in Uprocs : pc[q] \in {"quit", "dead"} /\ q \notin ToSet(semq[masterSem])
  BY <1>4 DEF Ended
<1>6. ASSUME NEW q \in Uprocs, NEW s \in Sems, q \in ToSet(semq[s]) PROVE FALSE
  <2>1. WaitsFor(q, s) /\ q # 0
    BY <1>6 DEF MutexInv, QueueInv, Uprocs
  <2> QED  BY <1>5, <1>6, <2>1 DEF WaitsFor, CallStates
<1>7. DOMAIN semq = Sems
  BY DEF TypeInv, SupportTypeOK
<1> QED  BY <1>5, <1>6, <1>7 DEF Blocked

\* The instantiator touches no mutex of the U-procs.
LEMMA TestMutex ==
  ASSUME TypeInv, MutexInv, TestStep
  PROVE  MutexInv'
<1>t. /\ pc \in [Uprocs -> States] /\ val \in [Sems -> {0, 1}] /\ step \in Int /\ UPROCMAX \in Nat \ {0}
      /\ Waits = UPROCMAX /\ failed \subseteq Uprocs
  BY PagerAssumption DEF TypeInv, SupportTypeOK, Waits
<1>1. CASE CreateUproc
  <2> DEFINE q == step + 1
  <2>1. q \in Uprocs /\ pc[q] = "new" /\ pc' = [pc EXCEPT ![q] = "user"] /\ step' = step + 1 /\ step < UPROCMAX
    BY <1>1, <1>t DEF CreateUproc, Uprocs, MutexInv, StepInv, TypeInv, SupportTypeOK
  <2>2. UNCHANGED <<back, io, swap, lastFrame, failed, gen, val, semq>>
    BY <1>1 DEF CreateUproc
  <2> HIDE DEF q
  <2>3. PICK p \in Uprocs : p = q
    BY <2>1
  <2>4. /\ pc[p] = "new" /\ pc' = [pc EXCEPT ![p] = "user"]
        /\ \A r \in Uprocs \ {p} : pc'[r] = pc[r]
    BY <2>1, <2>3, <1>t
  <2>5. QueueInv'
    <3>1. ASSUME NEW s \in Sems, NEW r \in ToSet(semq'[s]) PROVE WaitsFor(r, s)'
      <4>1. WaitsFor(r, s)
        BY <2>2 DEF MutexInv, QueueInv
      <4>2. r # p
        BY <2>4, <4>1, <1>t DEF WaitsFor, CallStates, Uprocs
      <4>3. r \in Uprocs => pc'[r] = pc[r]
        BY <2>4, <4>2
      <4> QED  BY <2>2, <4>1, <4>3, <1>t DEF WaitsFor
    <3>2. \A s \in Sems : Distinct(semq'[s])
      BY <2>2 DEF MutexInv, QueueInv
    <3> QED  BY <3>1, <3>2 DEF QueueInv
  <2>6. PoolInv'
    BY <2>2, <2>4, <1>t, PoolSame DEF MutexInv, PoolStates
  <2>7. FlashInv'
    BY <2>2, <2>4, <1>t, FlashSame DEF MutexInv, FlashUser, FlashNo, FlashPage
  <2>8. DeviceInv'
    BY <2>2, <2>4, <1>t, DeviceSame DEF MutexInv, At, PoolStates, Holding
  <2>9. MasterInv'
    <3>1. Ended' = Ended
      BY <2>2, <2>4, <1>t DEF Ended
    <3>2. Awaited' = Awaited
      BY <2>1, <2>2, <1>t DEF Awaited
    <3>3. 0 \notin ToSet(semq[masterSem])
      BY <2>1, <1>t DEF MutexInv, MasterInv
    <3> QED  BY <2>1, <2>2, <3>1, <3>2, <3>3, <1>t DEF MutexInv, MasterInv
  <2>10. StepInv'
    <3>1. \A r \in Uprocs : r \in Int
      BY DEF Uprocs
    <3>2. p = step + 1
      BY <2>3 DEF q
    <3> QED  BY <2>1, <2>4, <3>1, <3>2, <1>t DEF MutexInv, StepInv
  <2> QED  BY <2>5, <2>6, <2>7, <2>8, <2>9, <2>10 DEF MutexInv
<1>2. CASE AwaitUproc
  <2>1. /\ UNCHANGED <<pc, back, io, swap, lastFrame, failed, gen>> /\ ~Blocked(0)
        /\ passeren(masterSem, 0) /\ step >= UPROCMAX /\ step < UPROCMAX + Waits /\ step' = step + 1
    BY <1>2 DEF AwaitUproc, pagerVars
  <2>2. SemOutcome(masterSem, 0, 0) /\ \A t \in Sems : t # masterSem => semq'[t] = semq[t] /\ val'[t] = val[t]
    BY <2>1, OneCall, SemsFacts
  <2>3. /\ swapPoolSem # masterSem /\ swapPoolSem \in Sems
        /\ \A n \in Uprocs : flashSems(n) \in Sems /\ flashSems(n) # masterSem
        /\ \A k \in Kinds, n \in Uprocs : DeviceSem(k, n) \in Sems /\ DeviceSem(k, n) # masterSem
    BY SemsFacts DEF masterSem, flashSems, DeviceSem, Kinds
  <2>4. QueueInv'
    <3>1. \A t \in Sems : Distinct(semq'[t])
      BY <2>1, PVOutcome, SemsFacts DEF MutexInv, QueueInv
    <3>2. ASSUME NEW t \in Sems, NEW p \in ToSet(semq'[t]) PROVE WaitsFor(p, t)'
      <4>1. p \in ToSet(semq[t]) \/ (t = masterSem /\ p = 0)
        BY <2>2 DEF SemOutcome
      <4> QED  BY <2>1, <4>1 DEF MutexInv, QueueInv, WaitsFor
    <3> QED  BY <3>1, <3>2 DEF QueueInv
  <2>5. PoolInv'
    BY <2>1, <2>2, <2>3, PoolSame DEF MutexInv
  <2>6. FlashInv'
    BY <2>1, <2>2, <2>3, FlashSame DEF MutexInv, FlashUser, FlashNo, FlashPage
  <2>7. DeviceInv'
    BY <2>1, <2>2, <2>3, DeviceSame DEF MutexInv, At
  <2>8. MasterInv'
    BY <1>2, AwaitMaster
  <2>9. StepInv'
    BY <2>1, <1>t DEF MutexInv, StepInv, Uprocs
  <2> QED  BY <2>4, <2>5, <2>6, <2>7, <2>8, <2>9 DEF MutexInv
<1>3. CASE EndTest
  <2>1. /\ step = UPROCMAX + Waits /\ step' = step + 1 /\ pc' = [q \in Uprocs |-> "dead"]
        /\ semq' = [s \in Sems |-> <<>>] /\ UNCHANGED <<back, io, swap, lastFrame, failed, gen, val>>
    BY <1>3 DEF EndTest
  <2>2. \A q \in Uprocs : pc[q] \in {"quit", "dead"} /\ ~Blocked(q)
    BY <1>3, AllEnded DEF EndTest
  <2>3. \A s \in Sems : semq'[s] = <<>> /\ ToSet(semq'[s]) = {} /\ Distinct(semq'[s])
    BY <2>1 DEF ToSet, Distinct
  <2>4. QueueInv'
    BY <2>3 DEF QueueInv
  <2>5. PoolInv'
    <3>1. \A q \in Uprocs : ~InPool(q) /\ ~InPool(q)'
      BY <2>1, <2>2 DEF InPool, PoolStates
    <3>2. semq'[swapPoolSem] = <<>>
      BY <2>3, SemsFacts
    <3> QED  BY <2>1, <3>1, <3>2, <1>t DEF MutexInv, PoolInv, Owner
  <2>6. FlashInv'
    BY <2>1, <2>2, FlashSame DEF MutexInv, FlashUser, FlashNo, FlashPage
  <2>7. DeviceInv'
    BY <2>1, <2>2, DeviceSame DEF MutexInv, At, PoolStates, Holding
  <2>8. MasterInv'
    <3>1. ToSet(semq'[masterSem]) = {}
      BY <2>3, SemsFacts
    <3> QED  BY <2>1, <3>1, <1>t DEF MasterInv
  <2>9. StepInv'
    BY <2>1, <1>t DEF StepInv, Uprocs
  <2> QED  BY <2>4, <2>5, <2>6, <2>7, <2>8, <2>9 DEF MutexInv
<1> QED  BY <1>1, <1>2, <1>3 DEF TestStep

-----------------------------------------------------------------------------
(* The invariant *)

\* At boot every mutex is free.
LEMMA MutexInit == Init => MutexInv
<1> SUFFICES ASSUME Init PROVE MutexInv
  OBVIOUS
<1>1. /\ pc = [q \in Uprocs |-> "new"] /\ failed = {} /\ step = 0
      /\ val = [s \in Sems |-> IF s = masterSem THEN 0 ELSE 1] /\ semq = [s \in Sems |-> <<>>]
  BY DEF Init
<1>2. \A s \in Sems : semq[s] = <<>> /\ ToSet(semq[s]) = {} /\ Distinct(semq[s])
  BY <1>1 DEF ToSet, Distinct
<1>3. QueueInv
  BY <1>2 DEF QueueInv
<1>4. \A s \in Sems : val[s] = IF s = masterSem THEN 0 ELSE 1
  BY <1>1
<1>5. PoolInv
  BY <1>1, <1>2, <1>4, SemsFacts DEF PoolInv, Owner, InPool, PoolStates
<1>6. FlashInv
  <2>1. \A n \in Uprocs : val[flashSems(n)] = 1
    BY <1>4, SemsFacts
  <2>2. \A q \in Uprocs : ~FlashUser(q) /\ pc[q] # "read"
    BY <1>1 DEF FlashUser
  <2> QED  BY <2>1, <2>2 DEF FlashInv
<1>7. DeviceInv
  <2>1. \A k \in Kinds, n \in Uprocs : val[DeviceSem(k, n)] = 1
    BY <1>4, SemsFacts
  <2> QED  BY <1>1, <2>1 DEF DeviceInv, At, Holding, PoolStates
<1>8. MasterInv
  <2>1. Ended = {}
    BY <1>1 DEF Ended
  <2>2. Cardinality(Ended) = 0
    BY <2>1, FS_EmptySet
  <2>3. ToSet(semq[masterSem]) = {} /\ val[masterSem] = 0
    BY <1>2, <1>4, SemsFacts
  <2> QED  BY <1>1, <2>2, <2>3, PagerAssumption DEF MasterInv, Awaited
<1>9. StepInv
  BY <1>1, PagerAssumption DEF StepInv, Uprocs, Waits
<1> QED  BY <1>3, <1>5, <1>6, <1>7, <1>8, <1>9 DEF MutexInv

\* Every step keeps the mutexes.
LEMMA MutexStep == TypeInv /\ MutexInv /\ [Next]_vars => MutexInv'
<1> SUFFICES ASSUME TypeInv, MutexInv, [Next]_vars PROVE MutexInv'
  OBVIOUS
<1>1. ASSUME NEW q \in Uprocs, PagerStep(q) PROVE MutexInv'
  BY <1>1, QuietSteps, PageFaultMutex, TakeFrameMutex, ReleaseFlashMutex, ReadMissedMutex,
     MapPageMutex DEF PagerStep
<1>2. ASSUME NEW q \in Uprocs, UserStep(q) PROVE MutexInv'
  <2>1. CASE GeneralException(q)
    BY <2>1, HandlerMutex DEF GeneralException
  <2>2. CASE UserStore(q) /\ UNCHANGED <<gen, left, step>>
    BY <2>2, QuietSteps
  <2> QED  BY <1>2, <2>1, <2>2 DEF UserStep
<1>3. ASSUME NEW q \in Uprocs, CallStep(q) \/ DeviceStep(q) PROVE MutexInv'
  BY <1>3, QuietSteps, EndCallMutex DEF CallStep, DeviceStep
<1>4. ASSUME NEW q \in Uprocs, FlashFails(q) PROVE MutexInv'
  BY <1>4, HandlerMutex DEF FlashFails
<1>5. CASE TestStep
  BY <1>5, TestMutex
<1>6. CASE Stopped \/ UNCHANGED vars
  <2>1. UNCHANGED <<pc, back, io, swap, lastFrame, failed, gen, step, val, semq>>
    BY <1>6 DEF Stopped, vars, pagerVars
  <2> QED  BY <2>1 DEF MutexInv, QueueInv, WaitsFor, PoolInv, Owner, InPool, FlashInv, FlashUser, FlashNo,
             FlashPage, DeviceInv, At, MasterInv, Ended, Awaited, StepInv
<1> QED  BY <1>1, <1>2, <1>3, <1>4, <1>5, <1>6 DEF Next

\* TypeInv and MutexInv together.
SafeInv == TypeInv /\ MutexInv

\* SafeInv always holds.
LEMMA SafeAlways == Spec => []SafeInv
<1>1. Init => SafeInv
  BY SupportInitType, MutexInit DEF SafeInv
<1>2. SafeInv /\ [Next]_vars => SafeInv'
  BY SupportTypeStep, MutexStep DEF SafeInv
<1> QED  BY <1>1, <1>2, PTL DEF Spec

-----------------------------------------------------------------------------
(* Theorems on types, mutexes and the instantiator *)

\* The pool is taken exactly while a U-proc is inside, or has failed there,
LEMMA PoolMutexHeld ==
  ASSUME SafeInv
  PROVE  LET s == swapPoolSem
             holders == {q \in Uprocs : Inside(s, q) \/ Keeps(s, q)}
         IN  \/ val[s] = 1 /\ holders = {} /\ semq[s] = <<>>
             \/ val[s] = 0 /\ \E q \in Uprocs : holders = {q}
<1> DEFINE s == swapPoolSem
<1>1. ASSUME NEW q \in Uprocs PROVE Inside(s, q) \/ Keeps(s, q) <=> Owner(q)
  <2>1. s[1] # "flash" /\ s # DeviceSem(gen[q].call, q)
    BY DEF swapPoolSem, DeviceSem, Uprocs
  <2> QED  BY <2>1 DEF Inside, Keeps, Owner, InPool
<1>2. val[s] \in {0, 1}
  BY SemsFacts DEF SafeInv, TypeInv, SupportTypeOK
<1>3. PoolInv
  BY DEF SafeInv, MutexInv
<1>4. CASE val[s] = 1
  BY <1>1, <1>3, <1>4 DEF PoolInv
<1>5. CASE val[s] = 0
  <2>1. PICK q \in Uprocs : Owner(q)
    BY <1>3, <1>5 DEF PoolInv
  <2>2. \A r \in Uprocs : Owner(r) <=> r = q
    BY <1>3, <2>1 DEF PoolInv
  <2> QED  BY <1>1, <1>5, <2>2
<1> QED  BY <1>2, <1>4, <1>5

\* a flash device exactly while a U-proc is between its P and V,
LEMMA FlashMutexHeld ==
  ASSUME SafeInv, NEW n \in Uprocs
  PROVE  LET s == flashSems(n)
             holders == {q \in Uprocs : Inside(s, q) \/ Keeps(s, q)}
         IN  \/ val[s] = 1 /\ holders = {} /\ semq[s] = <<>>
             \/ val[s] = 0 /\ \E q \in Uprocs : holders = {q}
<1> DEFINE s == flashSems(n)
<1>1. s \in Sems /\ val[s] \in {0, 1} /\ semq[s] = <<>>
  BY SemsFacts, NobodyWaits DEF SafeInv, TypeInv, SupportTypeOK, MutexInv
<1>2. ToSet(semq[s]) = {}
  BY <1>1 DEF ToSet
<1>3. ASSUME NEW q \in Uprocs PROVE Inside(s, q) \/ Keeps(s, q) <=> FlashUser(q) /\ FlashNo(q) = n
  <2>1. gen[q].call # "flash"
    <3>1. gen[q] \in CallType \/ gen[q] = NoCall
      BY DEF SafeInv, TypeInv, SupportTypeOK
    <3> QED  BY <3>1 DEF CallType, NoCall
  <2>2. s # swapPoolSem /\ s # DeviceSem(gen[q].call, q)
    BY <2>1 DEF flashSems, swapPoolSem, DeviceSem
  <2>3. s[1] = "flash" /\ s[2] = n /\ (s = flashSems(FlashNo(q)) <=> FlashNo(q) = n)
    BY DEF flashSems
  <2> HIDE DEF s
  <2> QED  BY <1>2, <2>2, <2>3 DEF Inside, Keeps, FlashUser
<1>4. /\ val[s] = 0 <=> \E q \in Uprocs : FlashUser(q) /\ FlashNo(q) = n
  BY DEF SafeInv, MutexInv, FlashInv
<1>5. \A q, r \in Uprocs : FlashUser(q) /\ FlashUser(r) => q = r
  <2>1. \A q \in Uprocs : FlashUser(q) => Owner(q)
    BY WaitersPc DEF SafeInv, MutexInv, FlashUser, Owner, InPool, PoolStates
  <2> QED  BY <2>1 DEF SafeInv, MutexInv, PoolInv
<1> HIDE DEF s
<1>6. CASE val[s] = 1
  BY <1>1, <1>3, <1>4, <1>6 DEF s
<1>7. CASE val[s] = 0
  <2>1. PICK q \in Uprocs : FlashUser(q) /\ FlashNo(q) = n
    BY <1>4, <1>7
  <2>2. \A r \in Uprocs : Inside(s, r) \/ Keeps(s, r) <=> r = q
    BY <1>3, <1>5, <2>1
  <2> QED  BY <1>7, <2>2 DEF s
<1> QED  BY <1>1, <1>6, <1>7

\* and a printer or terminal exactly while its U-proc is in a call on it.
LEMMA DeviceMutexHeld ==
  ASSUME SafeInv, NEW k \in Kinds, NEW n \in Uprocs \ failed
  PROVE  LET s == DeviceSem(k, n)
             holders == {q \in Uprocs : Inside(s, q) \/ Keeps(s, q)}
         IN  \/ val[s] = 1 /\ holders = {} /\ semq[s] = <<>>
             \/ val[s] = 0 /\ \E q \in Uprocs : holders = {q}
<1> DEFINE s == DeviceSem(k, n)
<1>1. s \in Sems /\ val[s] \in {0, 1} /\ semq[s] = <<>>
  BY SemsFacts, NobodyWaits DEF SafeInv, TypeInv, SupportTypeOK, MutexInv
<1>2. ToSet(semq[s]) = {}
  BY <1>1 DEF ToSet
<1>3. ASSUME NEW q \in Uprocs
      PROVE  Inside(s, q) \/ Keeps(s, q) <=> q = n /\ gen[n].call = k /\ At(n) \in Holding
  <2>1. s # swapPoolSem /\ s # flashSems(FlashNo(q)) /\ s[1] # "flash"
    BY DEF flashSems, swapPoolSem, DeviceSem, Kinds
  <2>2. s = DeviceSem(gen[q].call, q) <=> q = n /\ gen[q].call = k
    BY DEF DeviceSem
  <2> HIDE DEF s
  <2> QED  BY <1>2, <2>1, <2>2 DEF Inside, Keeps, At, Holding
<1>4. val[s] = 0 <=> gen[n].call = k /\ At(n) \in Holding
  BY DEF SafeInv, MutexInv, DeviceInv
<1> HIDE DEF s
<1>5. CASE val[s] = 1
  BY <1>1, <1>3, <1>4, <1>5 DEF s
<1>6. CASE val[s] = 0
  <2>1. \A q \in Uprocs : Inside(s, q) \/ Keeps(s, q) <=> q = n
    BY <1>3, <1>4, <1>6
  <2> QED  BY <1>6, <2>1 DEF s
<1> QED  BY <1>1, <1>5, <1>6

\* Mutual exclusion: swapPoolSem, the mutex of each flash device and, for a
\* U-proc whose flash never failed, those of its printer and terminal are 0
\* exactly while one process is between P and V, whatever the U-procs call.
THEOREM MutexesExclude == Spec => []MutexHeld
<1>1. SafeInv => MutexHeld
  <2> SUFFICES ASSUME SafeInv, NEW s \in MutexIds, ~(s[1] \in Kinds /\ s[2] \in failed)
               PROVE  LET holders == {q \in Uprocs : Inside(s, q) \/ Keeps(s, q)}
                      IN  \/ val[s] = 1 /\ holders = {} /\ semq[s] = <<>>
                          \/ val[s] = 0 /\ \E q \in Uprocs : holders = {q}
    BY DEF MutexHeld
  <2>1. CASE s = swapPoolSem
    BY <2>1, PoolMutexHeld
  <2>2. ASSUME NEW n \in Uprocs, s = flashSems(n)
        PROVE  LET holders == {q \in Uprocs : Inside(s, q) \/ Keeps(s, q)}
               IN  \/ val[s] = 1 /\ holders = {} /\ semq[s] = <<>>
                   \/ val[s] = 0 /\ \E q \in Uprocs : holders = {q}
    BY <2>2, FlashMutexHeld
  <2>3. ASSUME NEW k \in Kinds, NEW n \in Uprocs, s = DeviceSem(k, n)
        PROVE  LET holders == {q \in Uprocs : Inside(s, q) \/ Keeps(s, q)}
               IN  \/ val[s] = 1 /\ holders = {} /\ semq[s] = <<>>
                   \/ val[s] = 0 /\ \E q \in Uprocs : holders = {q}
    <3>1. n \notin failed
      BY <2>3 DEF DeviceSem
    <3> QED  BY <2>3, <3>1, DeviceMutexHeld
  <2> QED  BY <2>1, <2>2, <2>3, SemsFacts
<1> QED  BY <1>1, SafeAlways, PTL

\* The instantiator ends the system only when every U-proc has completed its
\* V of masterSem and waits for nothing: its NSYS2 kills nobody at work.
THEOREM InstantiatorEndsLast == Spec => []InstantiatorLast
<1>1. SafeInv => InstantiatorLast
  BY AllEnded DEF SafeInv, InstantiatorLast
<1> QED  BY <1>1, SafeAlways, PTL

-----------------------------------------------------------------------------
(* Nobody waits for ever on a process that waits too *)

\* The P and V of the instantiator that are still to come.
InstantiatorGoesOn == step < UPROCMAX + Waits /\ ~Blocked(0)

\* Who is in the pool waits for nothing more.
LEMMA OwnerAwake ==
  ASSUME SafeInv, NEW r \in Uprocs, InPool(r)
  PROVE  Awake(r)
<1> USE DEF SafeInv, MutexInv
<1>1. pc[r] \in PoolStates /\ r \notin ToSet(semq[swapPoolSem]) /\ DOMAIN semq = Sems
  BY DEF InPool, TypeInv, SupportTypeOK
<1>2. ASSUME NEW s \in Sems, r \in ToSet(semq[s]) PROVE FALSE
  <2>1. WaitsFor(r, s)
    BY <1>2 DEF QueueInv
  <2> QED  BY <1>1, <1>2, <2>1 DEF WaitsFor, PoolStates, CallStates, Uprocs
<1> QED  BY <1>1, <1>2 DEF Awake, Blocked, PoolStates

\* As long as no flash operation has failed, whoever waits for the pool waits
\* for a process that runs,
LEMMA PoolServed ==
  ASSUME SafeInv, failed = {}, semq[swapPoolSem] # <<>>
  PROVE  \E r \in Uprocs : InPool(r) /\ Awake(r)
<1>1. val[swapPoolSem] = 0
  BY SemsFacts DEF SafeInv, MutexInv, PoolInv, TypeInv, SupportTypeOK
<1>2. PICK r \in Uprocs : Owner(r)
  BY <1>1 DEF SafeInv, MutexInv, PoolInv
<1>3. InPool(r)
  BY <1>2 DEF Owner
<1> QED  BY <1>3, OwnerAwake

\* the instantiator waits for a U-proc that runs, or for one that waits for
\* such a one,
LEMMA MasterServed ==
  ASSUME SafeInv, failed = {}, 0 \in ToSet(semq[masterSem]), step <= UPROCMAX + Waits
  PROVE  \E r \in Uprocs : Awake(r)
<1> USE DEF SafeInv, MutexInv
<1>1. val[masterSem] = 0 /\ step > UPROCMAX /\ step \in Nat /\ masterSem \in Sems
  BY SemsFacts, PagerAssumption DEF MasterInv, TypeInv, SupportTypeOK
<1>2. Cardinality(Ended) = step - UPROCMAX - 1
  BY <1>1, EndedCount, PagerAssumption DEF MasterInv, Awaited
<1>3. PICK r \in Uprocs : r \notin Ended
  <2>1. Cardinality(Uprocs) = UPROCMAX
    BY PagerAssumption, FS_Interval DEF Uprocs
  <2>2. Cardinality(Ended) < UPROCMAX
    BY <1>1, <1>2, PagerAssumption DEF Waits
  <2>3. Ended # Uprocs
    BY <2>1, <2>2, PagerAssumption
  <2> QED  BY <2>3, EndedCount
<1>4. ToSet(semq[masterSem]) \subseteq {0} /\ r # 0
  BY <1>1 DEF MasterInv, Uprocs
<1>5. pc[r] \notin {"quit", "dead", "new"}
  BY <1>1, <1>3, <1>4, PagerAssumption DEF Ended, StepInv, Uprocs
<1>6. CASE Blocked(r)
  <2>1. PICK s \in Sems : r \in ToSet(semq[s])
    BY <1>6 DEF Blocked, TypeInv, SupportTypeOK
  <2>2. s = swapPoolSem
    BY <1>4, <1>5, <2>1 DEF QueueInv, WaitsFor
  <2>3. semq[swapPoolSem] # <<>>
    BY <2>1, <2>2, SemsFacts, ToSetProperties DEF TypeInv, SupportTypeOK
  <2> QED  BY <2>3, PoolServed
<1>7. CASE ~Blocked(r)
  BY <1>5, <1>7 DEF Awake
<1> QED  BY <1>6, <1>7

\* and a U-proc that waits to be counted waits for the instantiator.
LEMMA QuitServed ==
  ASSUME SafeInv, NEW q \in Uprocs, q \in ToSet(semq[masterSem])
  PROVE  InstantiatorGoesOn
<1> USE DEF SafeInv, MutexInv
<1>1. masterSem \in Sems /\ val[masterSem] = 1 /\ 0 \notin ToSet(semq[masterSem]) /\ step \in Nat
  BY SemsFacts, PagerAssumption DEF MasterInv, TypeInv, SupportTypeOK, Uprocs
<1>2. pc[q] = "quit" /\ q \notin Ended
  BY WaitersPc DEF Uprocs, Ended
<1>3. step <= UPROCMAX + Waits
  BY <1>1, <1>2, PagerAssumption DEF StepInv, Waits
<1>4. Cardinality(Ended) = 1 + Awaited
  BY <1>1, <1>3, EndedCount, PagerAssumption DEF MasterInv, Awaited
<1>5. Cardinality(Ended) < UPROCMAX
  BY <1>2, EndedCount, PagerAssumption
<1>6. step < UPROCMAX + Waits
  BY <1>1, <1>4, <1>5, PagerAssumption DEF Awaited, Waits
<1>7. ASSUME NEW s \in Sems, 0 \in ToSet(semq[s]) PROVE FALSE
  <2>1. WaitsFor(0, s)
    BY <1>7 DEF QueueInv
  <2>2. s = masterSem
    BY <2>1 DEF WaitsFor, TypeInv, SupportTypeOK, Uprocs
  <2> QED  BY <1>1, <1>7, <2>2
<1> QED  BY <1>6, <1>7 DEF InstantiatorGoesOn, Blocked, TypeInv, SupportTypeOK

\* Until EndTest, who waits, waits for somebody who runs or whose own wait leads
\* to somebody who does; nobody ever waits for a device mutex of sysSupport.c or vmSupport.c.
WaitersAreServed ==
  failed = {} /\ step <= UPROCMAX + Waits =>
    /\ semq[swapPoolSem] # <<>> => \E r \in Uprocs : InPool(r) /\ Awake(r)
    /\ 0 \in ToSet(semq[masterSem]) => \E r \in Uprocs : Awake(r)
    /\ ToSet(semq[masterSem]) \cap Uprocs # {} => InstantiatorGoesOn
    /\ \A s \in Sems \ {swapPoolSem, masterSem} : semq[s] = <<>>

\* Until the instantiator is through with its P operations, it or a U-proc can
\* execute: the semaphores never leave everybody waiting.
SomebodyRuns ==
  failed = {} /\ step < UPROCMAX + Waits => InstantiatorGoesOn \/ \E q \in Uprocs : Awake(q)

\* The swap pool, flash, device and master semaphores cannot deadlock, for any
\* number of U-procs making any calls, unless a flash operation fails.
THEOREM NoDeadlock == Spec => [](WaitersAreServed /\ SomebodyRuns)
<1> USE DEF SafeInv, MutexInv
<1>1. SafeInv => WaitersAreServed
  <2> SUFFICES ASSUME SafeInv, failed = {}, step <= UPROCMAX + Waits PROVE WaitersAreServed
    BY DEF WaitersAreServed
  <2>1. semq[swapPoolSem] # <<>> => \E r \in Uprocs : InPool(r) /\ Awake(r)
    BY PoolServed
  <2>2. 0 \in ToSet(semq[masterSem]) => \E r \in Uprocs : Awake(r)
    BY MasterServed
  <2>3. ToSet(semq[masterSem]) \cap Uprocs # {} => InstantiatorGoesOn
    BY QuitServed
  <2>4. \A s \in Sems \ {swapPoolSem, masterSem} : semq[s] = <<>>
    <3> SUFFICES ASSUME NEW s \in MutexIds, s # swapPoolSem PROVE semq[s] = <<>>
      BY DEF Sems
    <3> QED  BY SemsFacts, NobodyWaits
  <2> QED  BY <2>1, <2>2, <2>3, <2>4 DEF WaitersAreServed
<1>2. SafeInv => SomebodyRuns
  <2> SUFFICES ASSUME SafeInv, failed = {}, step < UPROCMAX + Waits, Blocked(0)
               PROVE  \E q \in Uprocs : Awake(q)
    BY DEF SomebodyRuns, InstantiatorGoesOn
  <2>1. PICK s \in Sems : 0 \in ToSet(semq[s])
    BY DEF Blocked, TypeInv, SupportTypeOK
  <2>2. s = masterSem
    BY <2>1 DEF QueueInv, WaitsFor, TypeInv, SupportTypeOK, Uprocs
  <2>3. step <= UPROCMAX + Waits
    BY PagerAssumption DEF Waits, TypeInv, SupportTypeOK
  <2> QED  BY <2>1, <2>2, <2>3, MasterServed
<1> QED  BY <1>1, <1>2, SafeAlways, PTL

-----------------------------------------------------------------------------
(* Paging: the inductive invariant *)

\* The TLB agrees with the page tables: entries that change are flushed.
TlbInv == \A e \in tlb : e.valid = pte[e.id].valid /\ e.pfn = pte[e.id].pfn

\* A valid page table entry leads to a frame that is said to hold, and holds,
\* that page.
ValidInv ==
  \A id \in PageIds : pte[id].valid => swap[pte[id].pfn] = id /\ frame[pte[id].pfn].id = id

\* The frame lastFrame is being filled, from its choice to the update of the
\* tables, in which the flash device is written, then read, then the page is there.
Filling(q) == pc[q] \in {"flash", "release", "read", "map"}
Writing(q) == pc[q] \in {"flash", "release"} /\ io[q] = "out"
Reading(q) == pc[q] = "read" \/ (pc[q] = "flash" /\ io[q] = "in")
Loaded(q)  == pc[q] = "map" \/ (pc[q] = "release" /\ io[q] = "in")

\* An entry of the swap pool table is that of a valid page, but for the frame
\* being filled and the one where a flash operation failed.
Settled(f) == f = lastFrame => failed = {} /\ \A q \in Uprocs : ~Filling(q)
SwapInv ==
  \A f \in Frames : swap[f] # NoPage /\ Settled(f) => pte[swap[f]].valid /\ pte[swap[f]].pfn = f

\* A page that is waited for does not become valid by other means.
Missed(q) == <<q, vpn[q]>>
MissedInv == \A q \in Uprocs : pc[q] \in PoolStates => ~pte[Missed(q)].valid

\* The page evicted from lastFrame is still in it, and has been written back.
OnItsWay ==
  /\ swap[lastFrame] # NoPage
  /\ pte[swap[lastFrame]].pfn = lastFrame
  /\ frame[lastFrame].id = swap[lastFrame]
Saved == flash[swap[lastFrame]] = frame[lastFrame].ver

FillInv ==
  \A q \in Uprocs : Filling(q) =>
    /\ \A id \in PageIds : pte[id].valid => pte[id].pfn # lastFrame
    /\ swap[lastFrame] # Missed(q)
    /\ Writing(q) => OnItsWay /\ (pc[q] = "release" => Saved)
    /\ Reading(q) => (OnItsWay => Saved)
    /\ Loaded(q) => frame[lastFrame] = [id |-> Missed(q), ver |-> flash[Missed(q)]]

MemInv == TlbInv /\ ValidInv /\ SwapInv /\ MissedInv /\ FillInv

-----------------------------------------------------------------------------
(* Paging: facts *)

\* The types of memory, one by one.
LEMMA MemFacts ==
  ASSUME SafeInv
  PROVE  /\ pte \in [PageIds -> [valid : BOOLEAN, pfn : Frames]]
         /\ tlb \subseteq [id : PageIds, valid : BOOLEAN, pfn : Frames]
         /\ swap \in [Frames -> PageIds \cup {NoPage}]
         /\ lastFrame \in Frames
         /\ frame \in [Frames -> [id : PageIds \cup {NoPage}, ver : Versions]]
         /\ flash \in [PageIds -> Versions]
         /\ NoPage \notin PageIds
         /\ \A q \in Uprocs : pc[q] \in PoolStates => Missed(q) \in PageIds
<1>1. NoPage \notin PageIds
  BY DEF NoPage, PageIds, Uprocs
<1>2. \A q \in Uprocs : pc[q] \in PoolStates => Missed(q) \in PageIds
  BY DEF SafeInv, TypeInv, Equipped, Missed, PageIds
<1> QED  BY <1>1, <1>2 DEF SafeInv, TypeInv, SupportTypeOK

\* One U-proc at a time fills a frame, and none after a flash error.
LEMMA OneFills ==
  ASSUME SafeInv, NEW q \in Uprocs, Filling(q)
  PROVE  failed = {} /\ \A r \in Uprocs : Filling(r) => r = q
<1>1. \A r \in Uprocs : Filling(r) => InPool(r)
  BY WaitersPc DEF SafeInv, MutexInv, Filling, InPool, PoolStates
<1> QED  BY <1>1 DEF SafeInv, MutexInv, PoolInv, Owner, TypeInv, SupportTypeOK

\* While an Awake process is in the Pager nobody else fills a frame.
LEMMA FillsAlone ==
  ASSUME SafeInv, NEW q \in Uprocs, Awake(q), pc[q] \in PoolStates
  PROVE  failed = {} /\ \A r \in Uprocs : Filling(r) => r = q
<1>1. \A r \in Uprocs : Filling(r) => InPool(r)
  BY WaitersPc DEF SafeInv, MutexInv, Filling, InPool, PoolStates
<1> QED  BY <1>1, PoolToOneself DEF SafeInv

\* Whatever an entry of the TLB leads to is the present contents of its page.
LEMMA HitIsValid ==
  ASSUME SafeInv, MemInv, NEW e \in tlb, e.valid
  PROVE  /\ e.id \in PageIds /\ pte[e.id].valid /\ pte[e.id].pfn = e.pfn /\ e.pfn \in Frames
         /\ swap[e.pfn] = e.id /\ frame[e.pfn].id = e.id
         /\ Contents(e.id) = frame[e.pfn].ver
         /\ \A q \in Uprocs : Filling(q) => e.pfn # lastFrame
<1>1. e.id \in PageIds /\ e.pfn \in Frames
  BY MemFacts
<1>2. pte[e.id].valid /\ pte[e.id].pfn = e.pfn
  BY DEF MemInv, TlbInv
<1>3. swap[e.pfn] = e.id /\ frame[e.pfn].id = e.id
  BY <1>1, <1>2 DEF MemInv, ValidInv
<1>4. Contents(e.id) = frame[e.pfn].ver
  BY <1>2 DEF Contents
<1>5. \A q \in Uprocs : Filling(q) => e.pfn # lastFrame
  BY <1>1, <1>2 DEF MemInv, FillInv
<1> QED  BY <1>1, <1>2, <1>3, <1>4, <1>5

-----------------------------------------------------------------------------
(* Steps that change no page *)

Keep == \A id \in PageIds : Contents(id)' = Contents(id)

\* What leaves memory alone keeps what the pages are.
LEMMA ContentsKept == UNCHANGED memVars => Keep
BY DEF memVars, Keep, Contents

\* Nor does it disturb MemInv, if who fills a frame goes on doing so.
LEMMA MemSame ==
  ASSUME SafeInv, MemInv, UNCHANGED memVars,
         \A r \in Uprocs : Filling(r)' => pc'[r] = pc[r] /\ io'[r] = io[r] /\ vpn'[r] = vpn[r],
         \A r \in Uprocs : pc'[r] \in PoolStates => ~pte[Missed(r)'].valid,
         failed' = {} => failed = {} /\ \A r \in Uprocs : Filling(r) => Filling(r)'
  PROVE  MemInv' /\ Keep
<1> USE DEF MemInv
<1>1. Keep
  BY ContentsKept
<1>2. TlbInv' /\ ValidInv'
  BY DEF memVars, TlbInv, ValidInv
<1>3. SwapInv'
  <2>1. \A f \in Frames : Settled(f)' => Settled(f)
    BY DEF Settled, memVars
  <2> QED  BY <2>1 DEF SwapInv, memVars
<1>4. MissedInv'
  BY DEF MissedInv, memVars, Missed
<1>5. FillInv'
  BY DEF FillInv, Filling, Writing, Reading, Loaded, OnItsWay, Saved, Missed, memVars
<1> QED  BY <1>1, <1>2, <1>3, <1>4, <1>5

-----------------------------------------------------------------------------
(* Stores *)

\* The page of id, and no other, is stored to.
StoredTo(id) ==
  \A j \in PageIds : Contents(j)' = IF j = id THEN Stored(Contents(j)) ELSE Contents(j)

\* A store through the TLB reaches the page it is meant for and no other.
LEMMA StoreMem ==
  ASSUME SafeInv, MemInv, NEW id \in PageIds, StoreThrough(id),
         UNCHANGED <<pte, tlb, swap, lastFrame, flash, failed>>,
         \A r \in Uprocs : Filling(r)' <=> Filling(r),
         \A r \in Uprocs : Filling(r) => pc'[r] = pc[r] /\ io'[r] = io[r] /\ vpn'[r] = vpn[r],
         \A r \in Uprocs : pc'[r] \in PoolStates => pc[r] \in PoolStates /\ Missed(r)' = Missed(r)
  PROVE  MemInv' /\ StoredTo(id)
<1>1. PICK e \in tlb : /\ e.id = id /\ e.valid
                       /\ frame' = [frame EXCEPT ![e.pfn].ver = Stored(frame[e.pfn].ver)]
  BY DEF StoreThrough, Hits, Cached
<1> DEFINE f == e.pfn
<1>2. /\ pte[id].valid /\ pte[id].pfn = f /\ f \in Frames
      /\ swap[f] = id /\ frame[f].id = id
      /\ \A q \in Uprocs : Filling(q) => f # lastFrame
  BY <1>1, HitIsValid
<1>3. /\ \A g \in Frames : frame'[g].id = frame[g].id
      /\ \A g \in Frames : g # f => frame'[g] = frame[g]
      /\ frame'[f].ver = Stored(frame[f].ver)
  BY <1>1, <1>2, MemFacts
<1>4. \A j \in PageIds : pte[j].pfn \in Frames /\ (pte[j].valid => swap[pte[j].pfn] = j)
  BY MemFacts DEF MemInv, ValidInv
<1> HIDE DEF f
<1>5. StoredTo(id)
  <2>1. Contents(id)' = Stored(Contents(id))
    BY <1>2, <1>3 DEF Contents
  <2>2. ASSUME NEW j \in PageIds, j # id PROVE Contents(j)' = Contents(j)
    <3>1. CASE pte[j].pfn = f
      BY <1>2, <1>3, <1>4, <2>2, <3>1 DEF Contents
    <3>2. CASE pte[j].pfn # f
      BY <1>3, <1>4, <3>2 DEF Contents
    <3> QED  BY <3>1, <3>2
  <2> QED  BY <2>1, <2>2 DEF StoredTo
<1>6. TlbInv' /\ ValidInv'
  BY <1>3, <1>4 DEF MemInv, TlbInv, ValidInv
<1>7. SwapInv' /\ MissedInv'
  <2>1. \A g \in Frames : Settled(g)' => Settled(g)
    BY DEF Settled
  <2> QED  BY <2>1 DEF MemInv, SwapInv, MissedInv
<1>8. FillInv'
  <2> SUFFICES ASSUME NEW q \in Uprocs, Filling(q)
               PROVE  /\ \A j \in PageIds : pte[j].valid => pte[j].pfn # lastFrame
                      /\ swap[lastFrame] # Missed(q)'
                      /\ Writing(q)' => OnItsWay' /\ (pc'[q] = "release" => Saved')
                      /\ Reading(q)' => (OnItsWay' => Saved')
                      /\ Loaded(q)' => frame'[lastFrame] = [id |-> Missed(q)', ver |-> flash[Missed(q)']]
    BY DEF FillInv
  <2>1. frame'[lastFrame] = frame[lastFrame]
    BY <1>2, <1>3, MemFacts
  <2>2. (OnItsWay' <=> OnItsWay) /\ (Saved' <=> Saved) /\ Missed(q)' = Missed(q)
    BY <2>1 DEF OnItsWay, Saved, Missed
  <2>3. (Writing(q)' <=> Writing(q)) /\ (Reading(q)' <=> Reading(q)) /\ (Loaded(q)' <=> Loaded(q))
    BY DEF Writing, Reading, Loaded
  <2> QED  BY <2>1, <2>2, <2>3 DEF MemInv, FillInv
<1> QED  BY <1>5, <1>6, <1>7, <1>8 DEF MemInv

\* The steps that store: a U-proc stores to a page that it is about to touch.
LEMMA StoreSteps ==
  ASSUME SafeInv, MemInv, NEW q \in Uprocs, UserStore(q) \/ StoreChar(q) \/ StoreNul(q)
  PROVE  MemInv' /\ \E id \in PageIds : Touches(id[1], id[2]) /\ StoredTo(id)
<1>t. pc \in [Uprocs -> States] /\ vpn \in [Uprocs -> Pages \cup {0}]
  BY DEF SafeInv, TypeInv, SupportTypeOK
<1>1. PICK id \in PageIds : Touches(id[1], id[2]) /\ StoreThrough(id)
  <2>1. CASE UserStore(q)
    BY <2>1, PagerAssumption DEF UserStore, PageIds, Touches
  <2>2. CASE StoreChar(q) \/ StoreNul(q)
    <3>1. <<q, vpn[q]>> \in PageIds
      BY <2>2 DEF SafeInv, TypeInv, Equipped, At, StoreChar, StoreNul, PoolStates, CallStates, PageIds
    <3> QED  BY <2>2, <3>1 DEF StoreChar, StoreNul, Touches
  <2> QED  BY <2>1, <2>2
<1>2. /\ UNCHANGED <<pte, tlb, swap, lastFrame, flash, failed, io>>
      /\ pc[q] \notin PoolStates /\ pc'[q] \notin PoolStates
      /\ \A r \in Uprocs : r # q => pc'[r] = pc[r] /\ vpn'[r] = vpn[r]
  BY <1>t DEF UserStore, StoreChar, StoreNul, PoolStates, Forget
<1>3. \A r \in Uprocs : Filling(r)' <=> Filling(r)
  BY <1>2 DEF Filling, PoolStates
<1>4. \A r \in Uprocs : Filling(r) => pc'[r] = pc[r] /\ io'[r] = io[r] /\ vpn'[r] = vpn[r]
  BY <1>2 DEF Filling, PoolStates
<1>5. \A r \in Uprocs : pc'[r] \in PoolStates => pc[r] \in PoolStates /\ Missed(r)' = Missed(r)
  BY <1>2 DEF Missed
<1> QED  BY <1>1, <1>2, <1>3, <1>4, <1>5, StoreMem

-----------------------------------------------------------------------------
(* The Pager, and the pages it moves *)

\* In a step of q nothing that the Pager knows of another U-proc changes.
OthersFill(q) ==
  \A r \in Uprocs : r # q => pc'[r] = pc[r] /\ io'[r] = io[r] /\ vpn'[r] = vpn[r]

\* The TLB is refilled from the page tables.
LEMMA RefillMem ==
  ASSUME SafeInv, MemInv, NEW q \in Uprocs, NEW v \in Pages, uTLB_RefillHandler(q, v)
  PROVE  MemInv' /\ Keep
<1>1. /\ \A e \in tlb' : e \in tlb \/ (e.valid = pte[e.id].valid /\ e.pfn = pte[e.id].pfn)
      /\ UNCHANGED <<pc, vpn, io, pte, swap, lastFrame, frame, flash, failed>>
  BY DEF uTLB_RefillHandler
<1>2. TlbInv'
  BY <1>1 DEF MemInv, TlbInv
<1>3. Keep
  BY <1>1 DEF Keep, Contents
<1>4. ValidInv' /\ SwapInv' /\ MissedInv'
  BY <1>1 DEF MemInv, ValidInv, SwapInv, Settled, Filling, MissedInv, Missed
<1>5. FillInv'
  BY <1>1 DEF MemInv, FillInv, Filling, Writing, Reading, Loaded, OnItsWay, Saved, Missed
<1> QED  BY <1>2, <1>3, <1>4, <1>5 DEF MemInv

\* A frame in use loses its page, which stays in it until the flash device
\* has it; any other frame has no valid page.
LEMMA TakeFrameMem ==
  ASSUME SafeInv, MemInv, NEW q \in Uprocs, TakeFrame(q)
  PROVE  MemInv' /\ Keep
<1> DEFINE f == getFirstInFrame
           id == swap[f]
<1>1. /\ pc[q] = "frame" /\ Awake(q) /\ lastFrame' = f /\ f \in Frames
      /\ pc' = [pc EXCEPT ![q] = "flash"]
      /\ io' = [io EXCEPT ![q] = IF InUse(f) THEN "out" ELSE "in"]
      /\ UNCHANGED <<vpn, swap, frame, flash, failed>>
  BY PagerAssumption DEF TakeFrame, EvictFrame, getFirstInFrame, Frames, SafeInv, TypeInv, SupportTypeOK
<1>2. \/ InUse(f) /\ pte' = [pte EXCEPT ![id].valid = FALSE] /\ tlb' = {}
      \/ ~InUse(f) /\ UNCHANGED <<pte, tlb>>
  BY DEF TakeFrame, EvictFrame, Evict
<1>3. pc \in [Uprocs -> States] /\ io \in [Uprocs -> {"out", "in"}]
  BY DEF SafeInv, TypeInv, SupportTypeOK
<1>4. failed = {} /\ \A r \in Uprocs : ~Filling(r)
  BY <1>1, FillsAlone DEF Filling, PoolStates
<1>5. \A g \in Frames : swap[g] # NoPage => pte[swap[g]].valid /\ pte[swap[g]].pfn = g
  BY <1>4 DEF MemInv, SwapInv, Settled
<1>6. InUse(f) <=> id # NoPage
  BY <1>1, <1>5 DEF InUse
<1>7. InUse(f) => id \in PageIds /\ pte[id].valid /\ pte[id].pfn = f /\ frame[f].id = id
  BY <1>1, <1>5, MemFacts DEF InUse, MemInv, ValidInv
<1> HIDE DEF f
<1>8. \A j \in PageIds : /\ pte'[j].pfn = pte[j].pfn
                         /\ pte'[j].valid <=> pte[j].valid /\ j # id
  <2>1. CASE InUse(f)
    BY <1>2, <1>7, <2>1, MemFacts
  <2>2. CASE ~InUse(f)
    BY <1>2, <1>6, <2>2, MemFacts
  <2> QED  BY <2>1, <2>2
<1>9. \A j \in PageIds : pte[j].valid => pte[j].pfn \in Frames /\ swap[pte[j].pfn] = j /\ frame[pte[j].pfn].id = j
  BY MemFacts DEF MemInv, ValidInv
<1>10. Keep
  BY <1>1, <1>8, <1>9 DEF Keep, Contents
<1>11. TlbInv'
  BY <1>2 DEF MemInv, TlbInv
<1>12. ValidInv'
  BY <1>1, <1>8, <1>9 DEF ValidInv
<1>13. SwapInv'
  <2>1. \A g \in Frames : Settled(g)' => g # f
    BY <1>1, <1>3 DEF Settled, Filling
  <2>2. ASSUME NEW g \in Frames, swap[g] # NoPage, g # f
        PROVE  pte'[swap[g]].valid /\ pte'[swap[g]].pfn = g
    <3>1. pte[swap[g]].valid /\ pte[swap[g]].pfn = g /\ swap[g] \in PageIds
      BY <1>5, <2>2, MemFacts
    <3>2. swap[g] # id
      BY <1>6, <1>7, <2>2, <3>1
    <3> QED  BY <1>8, <3>1, <3>2
  <2> QED  BY <1>1, <2>1, <2>2 DEF SwapInv
<1>14. \A r \in Uprocs : pc'[r] \in PoolStates => ~pte[Missed(r)].valid /\ Missed(r) \in PageIds
  BY <1>1, <1>3, MemFacts DEF PoolStates, MemInv, MissedInv
<1>15. MissedInv'
  BY <1>1, <1>8, <1>14 DEF MissedInv, Missed
<1>16. FillInv'
  <2>1. ASSUME NEW r \in Uprocs, Filling(r)' PROVE r = q
    BY <1>1, <1>3, <1>4, <2>1 DEF Filling
  <2>2. \A j \in PageIds : pte'[j].valid => pte'[j].pfn # f
    BY <1>8, <1>9
  <2>3. id # Missed(q)
    <3>1. ~pte[Missed(q)].valid /\ Missed(q) \in PageIds
      BY <1>1, <1>3, <1>14 DEF PoolStates
    <3> QED  BY <1>6, <1>7, <3>1, MemFacts
  <2>4. pc'[q] = "flash" /\ io'[q] = (IF InUse(f) THEN "out" ELSE "in")
    BY <1>1, <1>3
  <2>5. Writing(q)' => OnItsWay'
    <3>1. Writing(q)' => InUse(f)
      BY <2>4 DEF Writing
    <3> QED  BY <1>1, <1>6, <1>7, <1>8, <3>1 DEF OnItsWay
  <2>6. Reading(q)' => ~OnItsWay'
    <3>1. Reading(q)' => ~InUse(f)
      BY <2>4 DEF Reading
    <3> QED  BY <1>1, <1>6, <3>1 DEF OnItsWay
  <2>7. ~Loaded(q)' /\ pc'[q] # "release"
    BY <2>4 DEF Loaded
  <2> QED  BY <1>1, <2>1, <2>2, <2>3, <2>5, <2>6, <2>7 DEF FillInv, Missed
<1> QED  BY <1>10, <1>11, <1>12, <1>13, <1>15, <1>16 DEF MemInv

\* A step of the one who fills the frame keeps what does not concern filling.
LEMMA FillerSame ==
  ASSUME SafeInv, MemInv, NEW q \in Uprocs, Awake(q), Filling(q), Filling(q)',
         OthersFill(q), vpn' = vpn,
         UNCHANGED <<pte, tlb, swap, lastFrame, failed>>,
         \A g \in Frames : g # lastFrame => frame'[g] = frame[g]
  PROVE  /\ TlbInv' /\ ValidInv' /\ SwapInv' /\ MissedInv'
         /\ \A r \in Uprocs : Filling(r)' => r = q
         /\ \A j \in PageIds : pte[j].valid => pte[j].pfn # lastFrame
         /\ Missed(q)' = Missed(q) /\ swap[lastFrame] # Missed(q) /\ Missed(q) \in PageIds
<1>1. \A r \in Uprocs : Filling(r) => r = q
  BY OneFills
<1>2. /\ \A j \in PageIds : pte[j].valid => pte[j].pfn # lastFrame
      /\ swap[lastFrame] # Missed(q) /\ Missed(q) \in PageIds
  BY MemFacts DEF MemInv, FillInv, Filling, PoolStates
<1>3. TlbInv'
  BY DEF MemInv, TlbInv
<1>4. ValidInv'
  BY <1>2, MemFacts DEF MemInv, ValidInv
<1>5. SwapInv'
  <2>1. \A g \in Frames : Settled(g)' => Settled(g)
    BY DEF Settled
  <2> QED  BY <2>1 DEF MemInv, SwapInv
<1>6. MissedInv'
  BY DEF MemInv, MissedInv, Missed, OthersFill, Filling, PoolStates
<1>7. \A r \in Uprocs : Filling(r)' => r = q
  BY <1>1 DEF OthersFill, Filling
<1> QED  BY <1>2, <1>3, <1>4, <1>5, <1>6, <1>7 DEF Missed

\* FillInv follows when one process at most fills a frame.
LEMMA FillInvOf ==
  ASSUME NEW q \in Uprocs,
         \A r \in Uprocs : Filling(r)' => r = q,
         \A id \in PageIds : pte'[id].valid => pte'[id].pfn # lastFrame',
         swap'[lastFrame'] # Missed(q)',
         Writing(q)' => OnItsWay' /\ (pc'[q] = "release" => Saved'),
         Reading(q)' => (OnItsWay' => Saved'),
         Loaded(q)' => frame'[lastFrame'] = [id |-> Missed(q)', ver |-> flash'[Missed(q)']]
  PROVE  FillInv'
BY DEF FillInv

\* NSYS5 of the write: the page that is on its way out reaches its own block.
LEMMA FlashOutMem ==
  ASSUME SafeInv, MemInv, NEW q \in Uprocs, FlashIo(q), io[q] = "out"
  PROVE  MemInv' /\ Keep
<1>1. /\ pc[q] = "flash" /\ Awake(q) /\ pc' = [pc EXCEPT ![q] = "release"]
      /\ flash' = [flash EXCEPT ![swap[lastFrame]] = frame[lastFrame].ver]
      /\ UNCHANGED <<vpn, io, pte, tlb, swap, lastFrame, frame, failed>>
  BY DEF FlashIo, FlashPage
<1>2. pc \in [Uprocs -> States]
  BY DEF SafeInv, TypeInv, SupportTypeOK
<1>3. Filling(q) /\ Filling(q)' /\ OthersFill(q) /\ pc'[q] = "release"
  BY <1>1, <1>2 DEF Filling, OthersFill
<1>4. OnItsWay /\ swap[lastFrame] \in PageIds
  BY <1>1, <1>3, MemFacts DEF MemInv, FillInv, Writing, OnItsWay
<1>5. Keep
  BY <1>1, <1>4, MemFacts DEF Keep, Contents, OnItsWay
<1>6. OnItsWay' /\ Saved'
  BY <1>1, <1>4, MemFacts DEF OnItsWay, Saved
<1>7. ~Loaded(q)'
  BY <1>1, <1>3 DEF Loaded
<1>8. /\ TlbInv' /\ ValidInv' /\ SwapInv' /\ MissedInv'
      /\ \A r \in Uprocs : Filling(r)' => r = q
      /\ \A j \in PageIds : pte[j].valid => pte[j].pfn # lastFrame
      /\ Missed(q)' = Missed(q) /\ swap[lastFrame] # Missed(q)
  BY <1>1, <1>3, FillerSame
<1>9. FillInv'
  BY <1>1, <1>6, <1>7, <1>8, FillInvOf
<1> QED  BY <1>5, <1>8, <1>9 DEF MemInv

\* NSYS5 of the read: the missed page is in the frame, and what it overwrites
\* is nobody's only copy.
LEMMA FlashInMem ==
  ASSUME SafeInv, MemInv, NEW q \in Uprocs, FlashIo(q), io[q] = "in"
  PROVE  MemInv' /\ Keep
<1> DEFINE new == [id |-> Missed(q), ver |-> flash[Missed(q)]]
<1>1. /\ pc[q] = "flash" /\ Awake(q) /\ pc' = [pc EXCEPT ![q] = "release"]
      /\ frame' = [frame EXCEPT ![lastFrame] = new]
      /\ UNCHANGED <<vpn, io, pte, tlb, swap, lastFrame, flash, failed>>
  BY DEF FlashIo, FlashPage, Missed
<1>2. pc \in [Uprocs -> States]
  BY DEF SafeInv, TypeInv, SupportTypeOK
<1>3. Filling(q) /\ Filling(q)' /\ OthersFill(q) /\ pc'[q] = "release"
  BY <1>1, <1>2 DEF Filling, OthersFill
<1>4. frame'[lastFrame] = new /\ \A g \in Frames : g # lastFrame => frame'[g] = frame[g]
  BY <1>1, MemFacts
<1>5. /\ TlbInv' /\ ValidInv' /\ SwapInv' /\ MissedInv'
      /\ \A r \in Uprocs : Filling(r)' => r = q
      /\ \A j \in PageIds : pte[j].valid => pte[j].pfn # lastFrame
      /\ Missed(q)' = Missed(q) /\ swap[lastFrame] # Missed(q)
  BY <1>1, <1>3, <1>4, FillerSame
<1>6. OnItsWay => Saved
  BY <1>1, <1>3 DEF MemInv, FillInv, Reading
<1>7. ASSUME NEW j \in PageIds PROVE Contents(j)' = Contents(j)
  <2>1. CASE pte[j].pfn # lastFrame
    BY <1>1, <1>4, <2>1, MemFacts DEF Contents
  <2>2. CASE pte[j].pfn = lastFrame
    <3>1. ~pte[j].valid
      BY <1>5, <2>2
    <3>2. Contents(j)' = flash[j]
      BY <1>1, <1>4, <1>5, <2>2, <3>1 DEF Contents
    <3>3. Contents(j) = flash[j]
      <4>1. CASE swap[lastFrame] = j /\ frame[lastFrame].id = j
        <5>1. OnItsWay
          BY <2>2, <4>1, MemFacts DEF OnItsWay
        <5> QED  BY <1>6, <2>2, <3>1, <4>1, <5>1 DEF Contents, Saved
      <4>2. CASE ~(swap[lastFrame] = j /\ frame[lastFrame].id = j)
        BY <2>2, <3>1, <4>2 DEF Contents
      <4> QED  BY <4>1, <4>2
    <3> QED  BY <3>2, <3>3
  <2> QED  BY <2>1, <2>2
<1>8. ~OnItsWay' /\ ~Writing(q)'
  BY <1>1, <1>3, <1>4, <1>5 DEF OnItsWay, Writing
<1>9. FillInv'
  BY <1>1, <1>4, <1>5, <1>8, FillInvOf
<1> QED  BY <1>5, <1>7, <1>9 DEF MemInv, Keep

\* The ends of flashInit and flashRead move no data.
LEMMA ReleaseMem ==
  ASSUME SafeInv, MemInv, NEW q \in Uprocs, ReleaseFlash(q) \/ ReadMissed(q)
  PROVE  MemInv' /\ Keep
<1>1. /\ Awake(q) /\ OthersFill(q)
      /\ UNCHANGED <<vpn, pte, tlb, swap, lastFrame, frame, flash, failed>>
  BY DEF ReleaseFlash, ReadMissed, OthersFill, SafeInv, TypeInv, SupportTypeOK
<1>2. /\ pc \in [Uprocs -> States] /\ io \in [Uprocs -> {"out", "in"}]
      /\ pc[q] = "read" => io[q] = "in"
  BY DEF SafeInv, TypeInv, SupportTypeOK, MutexInv, FlashInv
<1>3. \/ pc[q] = "release" /\ pc'[q] = (IF io[q] = "out" THEN "read" ELSE "map")
      \/ pc[q] = "read" /\ pc'[q] = "flash" /\ io[q] = "in" /\ io'[q] = "in"
  BY <1>2 DEF ReleaseFlash, ReadMissed
<1>4. Filling(q) /\ Filling(q)'
  BY <1>3 DEF Filling
<1>5. Keep
  BY <1>1 DEF Keep, Contents
<1>6. /\ TlbInv' /\ ValidInv' /\ SwapInv' /\ MissedInv'
      /\ \A r \in Uprocs : Filling(r)' => r = q
      /\ \A j \in PageIds : pte[j].valid => pte[j].pfn # lastFrame
      /\ Missed(q)' = Missed(q) /\ swap[lastFrame] # Missed(q)
  BY <1>1, <1>4, FillerSame
<1>7. (OnItsWay' <=> OnItsWay) /\ (Saved' <=> Saved)
  BY <1>1 DEF OnItsWay, Saved
<1>8. ~Writing(q)' /\ (Reading(q)' => (OnItsWay => Saved))
  <2>1. CASE pc[q] = "read"
    BY <1>2, <1>3, <1>4, <2>1 DEF Writing, MemInv, FillInv, Reading
  <2>2. CASE pc[q] = "release" /\ io[q] = "out"
    BY <1>3, <1>4, <2>2 DEF Writing, MemInv, FillInv
  <2>3. CASE pc[q] = "release" /\ io[q] # "out"
    BY <1>3, <2>3 DEF Writing, Reading
  <2> QED  BY <1>3, <2>1, <2>2, <2>3
<1>9. Loaded(q)' => Loaded(q)
  BY <1>2, <1>3 DEF Loaded
<1>10. Loaded(q)' => frame[lastFrame] = [id |-> Missed(q), ver |-> flash[Missed(q)]]
  BY <1>4, <1>9 DEF MemInv, FillInv
<1>11. FillInv'
  BY <1>1, <1>6, <1>7, <1>8, <1>10, FillInvOf
<1> QED  BY <1>5, <1>6, <1>11 DEF MemInv

\* The end of pageFaultHandler: the tables name the page that was loaded.
LEMMA MapPageMem ==
  ASSUME SafeInv, MemInv, NEW q \in Uprocs, MapPage(q)
  PROVE  MemInv' /\ Keep
<1> DEFINE f == lastFrame
<1>0. PICK m \in PageIds : m = Missed(q)
  BY MemFacts DEF MapPage, PoolStates
<1>1. /\ pc[q] = "map" /\ Awake(q) /\ pc' = [pc EXCEPT ![q] = back[q]]
      /\ swap' = [swap EXCEPT ![f] = m]
      /\ pte' = [pte EXCEPT ![m] = [valid |-> TRUE, pfn |-> f]]
      /\ tlb' = {} /\ UNCHANGED <<io, lastFrame, frame, flash, failed>>
      /\ \A r \in Uprocs : r # q => vpn'[r] = vpn[r]
  BY <1>0 DEF MapPage, Missed, SafeInv, TypeInv, SupportTypeOK
<1>2. /\ pc \in [Uprocs -> States] /\ back[q] \notin PoolStates
      /\ \A r \in Uprocs : pc[r] \in PoolStates => r = q \/ pc[r] = "frame"
  BY <1>1, OneFills DEF SafeInv, TypeInv, SupportTypeOK, Filling, PoolStates
<1>3. failed = {} /\ f \in Frames /\ m \in PageIds /\ m # NoPage
  BY <1>1, FillsAlone, MemFacts DEF PoolStates
<1>4. /\ \A j \in PageIds : pte[j].valid => pte[j].pfn # f
      /\ swap[f] # m /\ frame[f] = [id |-> m, ver |-> flash[m]]
  BY <1>0, <1>1 DEF MemInv, FillInv, Filling, Loaded
<1>5. ~pte[m].valid
  BY <1>0, <1>1 DEF MemInv, MissedInv, PoolStates
<1>6. \A g \in Frames : g # f /\ swap[g] # NoPage =>
        pte[swap[g]].valid /\ pte[swap[g]].pfn = g /\ swap[g] # m
  BY <1>5 DEF MemInv, SwapInv, Settled
<1>7. /\ pte'[m] = [valid |-> TRUE, pfn |-> f]
      /\ \A j \in PageIds : j # m => pte'[j] = pte[j]
      /\ swap'[f] = m /\ \A g \in Frames : g # f => swap'[g] = swap[g]
  BY <1>1, <1>3, MemFacts
<1>8. \A j \in PageIds : pte[j].pfn \in Frames
  BY MemFacts
<1> HIDE DEF f
<1>9. TlbInv'
  BY <1>1 DEF TlbInv
<1>10. ValidInv'
  BY <1>1, <1>4, <1>7, <1>8 DEF MemInv, ValidInv
<1>11. SwapInv'
  <2>1. ASSUME NEW g \in Frames, swap'[g] # NoPage PROVE pte'[swap'[g]].valid /\ pte'[swap'[g]].pfn = g
    <3>1. CASE g = f
      BY <1>7, <3>1
    <3>2. CASE g # f
      <4>1. swap'[g] = swap[g] /\ swap[g] \in PageIds /\ swap[g] # m /\ pte[swap[g]].valid /\ pte[swap[g]].pfn = g
        BY <1>6, <1>7, <2>1, <3>2, MemFacts
      <4> QED  BY <1>7, <4>1
    <3> QED  BY <3>1, <3>2
  <2> QED  BY <2>1 DEF SwapInv
<1>12. Keep
  <2>1. Contents(m)' = Contents(m)
    <3>1. Contents(m)' = flash[m]
      BY <1>1, <1>3, <1>4, <1>7 DEF Contents
    <3>2. swap[pte[m].pfn] # m
      BY <1>3, <1>4, <1>6, <1>8
    <3> QED  BY <1>5, <3>1, <3>2 DEF Contents
  <2>2. ASSUME NEW j \in PageIds, j # m PROVE Contents(j)' = Contents(j)
    <3>1. CASE pte[j].pfn # f
      BY <1>1, <1>7, <1>8, <2>2, <3>1 DEF Contents
    <3>2. CASE pte[j].pfn = f
      <4>1. ~pte[j].valid /\ pte'[j] = pte[j] /\ frame[f].id # j
        BY <1>4, <1>7, <2>2, <3>2
      <4> QED  BY <1>1, <3>2, <4>1 DEF Contents
    <3> QED  BY <3>1, <3>2
  <2> QED  BY <2>1, <2>2 DEF Keep
<1>13. MissedInv'
  <2>1. ASSUME NEW r \in Uprocs, pc'[r] \in PoolStates PROVE ~pte'[Missed(r)'].valid
    <3>1. r # q /\ pc[r] \in PoolStates /\ Missed(r)' = Missed(r)
      BY <1>1, <1>2, <2>1 DEF Missed
    <3>2. Missed(r) # m /\ Missed(r) \in PageIds /\ ~pte[Missed(r)].valid
      BY <1>0, <3>1, MemFacts DEF MemInv, MissedInv, Missed
    <3> QED  BY <1>7, <3>1, <3>2
  <2> QED  BY <2>1 DEF MissedInv
<1>14. FillInv'
  <2>1. \A r \in Uprocs : ~Filling(r)'
    BY <1>1, <1>2 DEF Filling, PoolStates
  <2> QED  BY <2>1 DEF FillInv
<1> QED  BY <1>9, <1>10, <1>11, <1>12, <1>13, <1>14 DEF MemInv

-----------------------------------------------------------------------------
(* Steps of everybody else *)

\* A step of q after which it is not in the Pager, or waits for it.
LEMMA LeaveMem ==
  ASSUME SafeInv, MemInv, NEW q, UNCHANGED memVars, OthersFill(q), failed \subseteq failed',
         q \in Uprocs => ~Filling(q)',
         q \in Uprocs /\ Filling(q) => failed' # {},
         q \in Uprocs /\ pc'[q] \in PoolStates => ~pte[Missed(q)'].valid
  PROVE  MemInv' /\ Keep
<1>1. \A r \in Uprocs : r # q => Missed(r)' = Missed(r) /\ (Filling(r)' <=> Filling(r))
  BY DEF OthersFill, Missed, Filling
<1>2. \A r \in Uprocs : Filling(r)' => pc'[r] = pc[r] /\ io'[r] = io[r] /\ vpn'[r] = vpn[r]
  BY DEF OthersFill
<1>3. \A r \in Uprocs : pc'[r] \in PoolStates => ~pte[Missed(r)'].valid
  BY <1>1 DEF MemInv, MissedInv, OthersFill
<1>4. failed' = {} => failed = {} /\ \A r \in Uprocs : Filling(r) => Filling(r)'
  BY <1>1
<1> QED  BY <1>2, <1>3, <1>4, MemSame

\* A page fault is for a page that is not valid.
LEMMA PageFaultMem ==
  ASSUME SafeInv, MemInv, NEW q \in Uprocs, NEW v \in Pages, PageFault(q, v)
  PROVE  MemInv' /\ Keep
<1>1. /\ pc' = [pc EXCEPT ![q] = "frame"] /\ vpn' = [vpn EXCEPT ![q] = v] /\ io' = io
      /\ pc[q] \in {"user", "load", "store", "nul"}
      /\ Cached(<<q, v>>) # {} /\ Hits(<<q, v>>) = {}
      /\ UNCHANGED memVars /\ failed' = failed
  BY DEF PageFault, Touches, memVars
<1>2. pc \in [Uprocs -> States] /\ vpn \in [Uprocs -> Pages \cup {0}]
  BY DEF SafeInv, TypeInv, SupportTypeOK
<1>3. Missed(q)' = <<q, v>> /\ pc'[q] = "frame"
  BY <1>1, <1>2 DEF Missed
<1>4. ~pte[<<q, v>>].valid
  <2>1. PICK e \in tlb : e.id = <<q, v>> /\ ~e.valid
    BY <1>1 DEF Hits, Cached
  <2> QED  BY <2>1 DEF MemInv, TlbInv
<1>5. ~Filling(q) /\ ~Filling(q)' /\ OthersFill(q)
  BY <1>1, <1>2 DEF Filling, OthersFill
<1> QED  BY <1>1, <1>3, <1>4, <1>5, LeaveMem

\* The support calls change no page when they start,
LEMMA HandlerMem ==
  ASSUME SafeInv, MemInv, NEW q \in Uprocs, GeneralException(q) \/ FlashFails(q)
  PROVE  MemInv' /\ Keep
<1>1. PICK c \in Calls[q] : generalExceptionHandler(q, c)
  BY DEF GeneralException, FlashFails
<1>2. pc \in [Uprocs -> States] /\ vpn \in [Uprocs -> Pages \cup {0}]
  BY DEF SafeInv, TypeInv, SupportTypeOK
<1>3. UNCHANGED memVars /\ io' = io
  BY <1>1 DEF generalExceptionHandler, memVars
<1>4. pc'[q] \notin PoolStates /\ OthersFill(q)
  BY <1>1, <1>2, <1>3 DEF generalExceptionHandler, terminate, Forget, StartCall, OthersFill, PoolStates
<1>5. ~Filling(q)'
  BY <1>4 DEF Filling, PoolStates
<1>6. failed \subseteq failed' /\ (Filling(q) => failed' # {})
  BY DEF GeneralException, FlashFails, Filling
<1> QED  BY <1>3, <1>4, <1>5, <1>6, LeaveMem

\* go on, or end.
LEMMA CallMem ==
  ASSUME SafeInv, MemInv, NEW q \in Uprocs,
         SendChar(q) \/ ReceiveChar(q) \/ EndCall(q) \/ TerminateSelf(q)
  PROVE  MemInv' /\ Keep
<1>1. pc \in [Uprocs -> States] /\ vpn \in [Uprocs -> Pages \cup {0}]
  BY DEF SafeInv, TypeInv, SupportTypeOK
<1>2. UNCHANGED memVars /\ io' = io /\ failed' = failed
  BY DEF SendChar, ReceiveChar, EndCall, TerminateSelf, memVars
<1>3. pc[q] \notin PoolStates /\ pc'[q] \notin PoolStates /\ OthersFill(q)
  BY <1>1, <1>2 DEF SendChar, ReceiveChar, EndCall, TerminateSelf, Forget, OthersFill, PoolStates
<1>4. ~Filling(q) /\ ~Filling(q)'
  BY <1>3 DEF Filling, PoolStates
<1> QED  BY <1>2, <1>3, <1>4, LeaveMem

\* Nor does the instantiator.
LEMMA TestMem ==
  ASSUME SafeInv, MemInv, TestStep
  PROVE  MemInv' /\ Keep
<1>1. UNCHANGED memVars /\ io' = io /\ vpn' = vpn /\ failed' = failed
  BY DEF TestStep, CreateUproc, AwaitUproc, EndTest, memVars, pagerVars
<1>2. \A r \in Uprocs : pc'[r] \in {pc[r], "user", "dead"}
  BY DEF TestStep, CreateUproc, AwaitUproc, EndTest, pagerVars, SafeInv, TypeInv, SupportTypeOK
<1>3. ASSUME NEW r \in Uprocs, Filling(r) PROVE Filling(r)'
  <2>1. ~EndTest
    BY <1>3, AllEnded DEF EndTest, SafeInv, Filling
  <2>2. CASE CreateUproc
    <3>1. pc[step + 1] = "new" \/ step + 1 \notin Uprocs
      BY <2>2 DEF CreateUproc, SafeInv, TypeInv, SupportTypeOK, MutexInv, StepInv
    <3> QED  BY <1>3, <2>2, <3>1 DEF CreateUproc, Filling, SafeInv, TypeInv, SupportTypeOK
  <2>3. CASE AwaitUproc
    BY <1>3, <2>3 DEF AwaitUproc, pagerVars, Filling
  <2> QED  BY <2>1, <2>2, <2>3 DEF TestStep
<1>4. \A r \in Uprocs : Filling(r)' => pc'[r] = pc[r]
  BY <1>2 DEF Filling
<1>5. \A r \in Uprocs : pc'[r] \in PoolStates => ~pte[Missed(r)'].valid
  BY <1>1, <1>2 DEF MemInv, MissedInv, Missed, PoolStates
<1> QED  BY <1>1, <1>3, <1>4, <1>5, MemSame

-----------------------------------------------------------------------------
(* The inductive invariant, and what a step does to the pages *)

\* At the start every page is on its flash device, and nothing was stored to.
LEMMA MemInit == Init => MemInv /\ \A id \in PageIds : Contents(id) = 0
<1> SUFFICES ASSUME Init PROVE MemInv /\ \A id \in PageIds : Contents(id) = 0
  OBVIOUS
<1>1. /\ pc = [q \in Uprocs |-> "new"] /\ tlb = {} /\ failed = {}
      /\ \A id \in PageIds : ~pte[id].valid /\ pte[id].pfn = 0 /\ flash[id] = 0
      /\ \A f \in Frames : swap[f] = NoPage
  BY DEF Init
<1>2. 0 \in Frames /\ NoPage \notin PageIds
  BY PagerAssumption DEF Frames, NoPage, PageIds, Uprocs
<1>3. \A id \in PageIds : Contents(id) = 0
  BY <1>1, <1>2 DEF Contents
<1>4. \A q \in Uprocs : pc[q] \notin PoolStates /\ ~Filling(q)
  BY <1>1 DEF PoolStates, Filling
<1> QED  BY <1>1, <1>3, <1>4 DEF MemInv, TlbInv, ValidInv, SwapInv, MissedInv, FillInv

\* A step keeps the pages, or is a store to one of them by its owner.
LEMMA MemStep ==
  SafeInv /\ MemInv /\ [Next]_vars => MemInv' /\ (Keep \/ \E id \in PageIds : Touches(id[1], id[2]) /\ StoredTo(id))
<1> SUFFICES ASSUME SafeInv, MemInv, [Next]_vars
             PROVE  MemInv' /\ (Keep \/ \E id \in PageIds : Touches(id[1], id[2]) /\ StoredTo(id))
  OBVIOUS
<1>1. ASSUME NEW q \in Uprocs, PagerStep(q) PROVE MemInv' /\ Keep
  <2>1. ASSUME FlashIo(q) PROVE MemInv' /\ Keep
    BY <2>1, FlashOutMem, FlashInMem DEF FlashIo
  <2> QED  BY <1>1, <2>1, RefillMem, PageFaultMem, TakeFrameMem, ReleaseMem, MapPageMem DEF PagerStep
<1>2. ASSUME NEW q \in Uprocs, UserStep(q) \/ CallStep(q) \/ DeviceStep(q) \/ FlashFails(q)
      PROVE  MemInv' /\ (Keep \/ \E id \in PageIds : Touches(id[1], id[2]) /\ StoredTo(id))
  BY <1>2, StoreSteps, HandlerMem, CallMem DEF UserStep, CallStep, DeviceStep
<1>3. CASE TestStep
  BY <1>3, TestMem
<1>4. CASE Stopped \/ UNCHANGED vars
  <2>1. UNCHANGED <<pc, vpn, io, failed>> /\ UNCHANGED memVars
    BY <1>4 DEF Stopped, vars, pagerVars, memVars
  <2>2. \A r \in Uprocs : Filling(r)' <=> Filling(r)
    BY <2>1 DEF Filling
  <2>3. \A r \in Uprocs : pc'[r] \in PoolStates => ~pte[Missed(r)'].valid
    BY <2>1 DEF MemInv, MissedInv, Missed
  <2> QED  BY <2>1, <2>2, <2>3, MemSame
<1> QED  BY <1>1, <1>2, <1>3, <1>4 DEF Next

\* SafeInv and MemInv always hold.
LEMMA MemAlways == Spec => [](SafeInv /\ MemInv)
<1>1. Init => MemInv
  BY MemInit
<1>2. SafeInv /\ MemInv /\ [Next]_vars => MemInv'
  BY MemStep
<1> QED  BY <1>1, <1>2, SafeAlways, PTL DEF Spec

-----------------------------------------------------------------------------
(* Theorems on paging *)

\* The swap pool table names the page of every frame that a valid page table
\* entry leads to: no two pages ever share a frame, whoever faults and whatever
\* is evicted in the meantime.
THEOREM SwapPoolCorrect == Spec => []SwapPoolAgrees
<1>1. MemInv => SwapPoolAgrees
  BY DEF MemInv, ValidInv, SwapPoolAgrees
<1> QED  BY <1>1, MemAlways, PTL

\* No TLB entry is ever stale: a load or store through it reaches the present
\* contents of the page of the process it was made for.
THEOREM TlbCorrect == Spec => []LoadsSeeMemory
<1>1. SafeInv /\ MemInv => LoadsSeeMemory
  <2> SUFFICES ASSUME SafeInv, MemInv, NEW e \in tlb, e.valid
               PROVE  frame[e.pfn] = [id |-> e.id, ver |-> Contents(e.id)]
    BY DEF LoadsSeeMemory
  <2>1. e.pfn \in Frames /\ frame[e.pfn].id = e.id /\ Contents(e.id) = frame[e.pfn].ver
    BY HitIsValid
  <2>2. frame[e.pfn] \in [id : PageIds \cup {NoPage}, ver : Versions]
    BY <2>1, MemFacts
  <2> QED  BY <2>1, <2>2
<1> QED  BY <1>1, MemAlways, PTL

\* Demand paging is invisible: under the mapping of a page to its frame while it
\* is valid or on its way out, and to its flash block otherwise, the support
\* level implements the abstract memory, in which pages change by stores only.
THEOREM PagerImplementsMemory == Spec => ImplementsMemory
<1> DEFINE mem == [id \in PageIds |-> Contents(id)]
<1>1. Init => Abstract!MemoryInit
  BY MemInit DEF Abstract!MemoryInit
<1>2. SafeInv /\ MemInv /\ [Next]_vars => [\E id \in PageIds : Abstract!StoreTo(id)]_mem
  <2> SUFFICES ASSUME SafeInv, MemInv, [Next]_vars
               PROVE  (\E id \in PageIds : Abstract!StoreTo(id)) \/ mem' = mem
    OBVIOUS
  <2>1. ASSUME Keep PROVE mem' = mem
    BY <2>1 DEF Keep
  <2>2. ASSUME NEW id \in PageIds, StoredTo(id) PROVE Abstract!StoreTo(id)
    BY <2>2 DEF StoredTo, Abstract!StoreTo, Stored, Abstract!Stored
  <2> QED  BY <2>1, <2>2, MemStep
<1> QED  BY <1>1, <1>2, MemAlways, PTL DEF Spec, ImplementsMemory, Abstract!MemorySpec

\* A page is changed by its owner only: in a step in which the contents of a
\* page change, the owner of the page executes and is about to touch that page,
\* whatever the others do to frames, page tables and flash devices.
PagesIsolated ==
  \A id \in PageIds : Contents(id)' # Contents(id) => Touches(id[1], id[2])

\* Neither the Pager nor another U-proc ever changes a page of a U-proc.
THEOREM PagesAreIsolated == Spec => [][PagesIsolated]_vars
<1>1. SafeInv /\ MemInv /\ [Next]_vars => PagesIsolated
  BY MemStep DEF Keep, StoredTo, PagesIsolated
<1> QED  BY <1>1, MemAlways, PTL DEF Spec

-----------------------------------------------------------------------------
(* A page fault gets nearer its end *)

\* Steps of the pageFaultHandler that q has before it, at most.
StepsLeft(q) ==
  CASE pc[q] = "frame"   -> 7
    [] pc[q] = "flash"   -> IF io[q] = "out" THEN 6 ELSE 3
    [] pc[q] = "release" -> IF io[q] = "out" THEN 5 ELSE 2
    [] pc[q] = "read"    -> 4
    [] pc[q] = "map"     -> 1
    [] OTHER             -> 0

\* Whatever moves a U-proc in the Pager moves it forward, but for a flash error,
\* and each of its steps does.
FaultAdvances ==
  \A q \in Uprocs : pc[q] \in PoolStates =>
    IF pc'[q] = pc[q] THEN StepsLeft(q)' = StepsLeft(q)
    ELSE StepsLeft(q)' < StepsLeft(q) \/ q \in failed'

\* The actions of the Pager that have the pool come nearer the end,
LEMMA PagerAdvances ==
  ASSUME SafeInv, NEW q \in Uprocs, pc[q] \in PoolStates,
         TakeFrame(q) \/ FlashIo(q) \/ ReleaseFlash(q) \/ ReadMissed(q) \/ MapPage(q)
  PROVE  pc'[q] # pc[q] /\ StepsLeft(q)' < StepsLeft(q)
<1>t. /\ pc \in [Uprocs -> States] /\ io \in [Uprocs -> {"out", "in"}]
      /\ back \in [Uprocs -> {"user", "load", "store", "nul"}]
  BY DEF SafeInv, TypeInv, SupportTypeOK
<1> USE DEF StepsLeft, PoolStates
<1>1. CASE TakeFrame(q)
  <2>1. pc[q] = "frame" /\ pc'[q] = "flash"
    BY <1>t, <1>1 DEF TakeFrame
  <2> QED  BY <2>1
<1>2. CASE FlashIo(q)
  <2>1. pc[q] = "flash" /\ pc'[q] = "release" /\ io' = io
    BY <1>t, <1>2 DEF FlashIo
  <2> QED  BY <2>1
<1>3. CASE ReleaseFlash(q)
  <2>1. pc[q] = "release" /\ pc'[q] = IF io[q] = "out" THEN "read" ELSE "map"
    BY <1>t, <1>3 DEF ReleaseFlash
  <2> QED  BY <2>1
<1>4. CASE ReadMissed(q)
  <2>1. pc[q] = "read" /\ pc'[q] = "flash" /\ io'[q] = "in"
    BY <1>t, <1>4 DEF ReadMissed, SafeInv, MutexInv, FlashInv
  <2> QED  BY <2>1
<1>5. CASE MapPage(q)
  <2>1. pc[q] = "map" /\ pc'[q] = back[q]
    BY <1>t, <1>5 DEF MapPage
  <2>2. pc'[q] \in {"user", "load", "store", "nul"}
    BY <1>t, <2>1
  <2> QED  BY <2>1, <2>2
<1> QED  BY <1>1, <1>2, <1>3, <1>4, <1>5

\* and those of other processes leave it where it is.
LEMMA OthersKeepPlace ==
  ASSUME SafeInv, NEW q \in Uprocs, NEW r \in Uprocs \ {q},
         PagerStep(r) \/ UserStep(r) \/ CallStep(r) \/ DeviceStep(r) \/ FlashFails(r)
  PROVE  pc'[q] = pc[q] /\ io'[q] = io[q]
<1>t. pc \in [Uprocs -> States] /\ io \in [Uprocs -> {"out", "in"}]
  BY DEF SafeInv, TypeInv, SupportTypeOK
<1>1. CASE PagerStep(r)
  BY <1>t, <1>1 DEF PagerStep, uTLB_RefillHandler, PageFault, TakeFrame, EvictFrame, FlashIo,
       ReleaseFlash, ReadMissed, MapPage
<1>2. CASE UserStep(r) \/ FlashFails(r)
  BY <1>t, <1>2 DEF UserStep, GeneralException, FlashFails, UserStore, generalExceptionHandler,
       terminate, StartCall
<1>3. CASE CallStep(r) \/ DeviceStep(r)
  BY <1>t, <1>3 DEF CallStep, DeviceStep, EndCall, StoreChar, StoreNul, TerminateSelf, SendChar,
       ReceiveChar
<1> QED  BY <1>1, <1>2, <1>3

\* A page fault takes its process at most seven steps: it never goes back in the
\* pageFaultHandler, and no step of another process sends it back.  With NoDeadlock
\* this is why FaultResolved holds under the fairness of FairSpec.
THEOREM FaultsAdvance == Spec => [][FaultAdvances]_vars
<1>1. SafeInv /\ [Next]_vars => FaultAdvances
  <2> SUFFICES ASSUME SafeInv, [Next]_vars, NEW q \in Uprocs, pc[q] \in PoolStates
               PROVE  \/ pc'[q] = pc[q] /\ StepsLeft(q)' = StepsLeft(q)
                      \/ pc'[q] # pc[q] /\ (StepsLeft(q)' < StepsLeft(q) \/ q \in failed')
    BY DEF FaultAdvances
  <2>t. pc \in [Uprocs -> States] /\ StepsLeft(q) > 0
    BY DEF SafeInv, TypeInv, SupportTypeOK, PoolStates, StepsLeft
  <2>1. ASSUME pc'[q] = pc[q], io'[q] = io[q] PROVE StepsLeft(q)' = StepsLeft(q)
    BY <2>1 DEF StepsLeft
  <2>2. CASE PagerStep(q)
    <3>1. CASE TakeFrame(q) \/ FlashIo(q) \/ ReleaseFlash(q) \/ ReadMissed(q) \/ MapPage(q)
      BY <3>1, PagerAdvances
    <3>2. CASE \E v \in Pages : uTLB_RefillHandler(q, v) \/ PageFault(q, v)
      BY <3>2 DEF uTLB_RefillHandler, PageFault, Touches, PoolStates
    <3> QED  BY <2>2, <3>1, <3>2 DEF PagerStep
  <2>3. CASE UserStep(q) \/ CallStep(q) \/ DeviceStep(q)
    BY <2>3 DEF UserStep, GeneralException, UserStore, CallStep, EndCall, StoreChar, StoreNul,
         TerminateSelf, DeviceStep, SendChar, ReceiveChar, PoolStates
  <2>4. CASE FlashFails(q)
    <3>1. q \in failed' /\ pc[q] = "flash" /\ (pc' = [pc EXCEPT ![q] = "quit"] \/ pc' = [pc EXCEPT ![q] = "user"]
             \/ \E x \in CallStates : pc' = [pc EXCEPT ![q] = x])
      BY <2>4 DEF FlashFails, generalExceptionHandler, terminate, StartCall, CallStates
    <3> QED  BY <2>t, <3>1 DEF CallStates
  <2>5. CASE \E r \in Uprocs \ {q} :
               PagerStep(r) \/ UserStep(r) \/ CallStep(r) \/ DeviceStep(r) \/ FlashFails(r)
    BY <2>1, <2>5, OthersKeepPlace
  <2>6. CASE TestStep
    <3>1. CASE CreateUproc
      <4>1. step + 1 \in Uprocs => pc[step + 1] = "new"
        BY <3>1 DEF CreateUproc, SafeInv, MutexInv, StepInv, TypeInv, SupportTypeOK, Uprocs
      <4>2. pc'[q] = pc[q] /\ io' = io
        BY <2>t, <3>1, <4>1 DEF CreateUproc, PoolStates
      <4> QED  BY <2>1, <4>2
    <3>2. CASE AwaitUproc
      BY <2>1, <3>2 DEF AwaitUproc, pagerVars
    <3>3. CASE EndTest
      <4>1. pc'[q] = "dead"
        BY <3>3 DEF EndTest
      <4> QED  BY <2>t, <4>1 DEF StepsLeft, PoolStates
    <3> QED  BY <2>6, <3>1, <3>2, <3>3 DEF TestStep
  <2>7. CASE Stopped \/ UNCHANGED vars
    BY <2>1, <2>7 DEF Stopped, vars, pagerVars
  <2> QED  BY <2>2, <2>3, <2>4, <2>5, <2>6, <2>7 DEF Next
<1> QED  BY <1>1, SafeAlways, PTL DEF Spec
=============================================================================
