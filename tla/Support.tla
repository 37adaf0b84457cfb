------------------------------- MODULE Support -------------------------------
(***************************************************************************)
(* The support level (phase 3) as a whole: the instantiator process of     *)
(* initProc.c, the U-procs with their system calls and traps               *)
(* (sysSupport.c), and the Pager underneath.                               *)
(*                                                                         *)
(* What a U-proc does in user mode is arbitrary: it touches its pages and  *)
(* makes its calls in Calls, in any order.   A character and a status are   *)
(* not modelled, only whether the device answers well.                     *)
(***************************************************************************)
EXTENDS Pager

CONSTANT
  Calls       \* the general exceptions that each U-proc may cause, see CallType

VARIABLES
  gen,        \* sup_exceptState[GENERALEXCEPT] while it is served, or NoCall
  left,       \* characters that a write has still to send
  step        \* progress of the instantiator

vars == <<pagerVars, val, semq, gen, left, step>>

\* "quit": SYS2, a trap, or a call with a bad address or length.  "tod": SYS1.
CallType == [call : {"quit", "tod", "print", "transmit", "receive"},
             page : Pages \cup {0}, len : Nat]
Quit   == [call |-> "quit", page |-> 0, len |-> 0]
NoCall == [call |-> "none", page |-> 0, len |-> 0]

ASSUME SupportAssumption ==
  /\ Calls \in [Uprocs -> SUBSET CallType]
  /\ \A q \in Uprocs : Quit \in Calls[q]
  /\ \A q \in Uprocs : \A c \in Calls[q] : c.call \in {"print", "transmit", "receive"} => c.page \in Pages

masterSem        == <<"master", 0>>
DeviceSem(k, q)  == <<k, q>>        \* printerSems, termSems[0], termSems[1]
Kinds            == {"print", "transmit", "receive"}
MutexIds         == {swapPoolSem} \cup ({"flash"} \cup Kinds) \X Uprocs
Sems             == MutexIds \cup {masterSem}

-----------------------------------------------------------------------------
(* generalExceptionHandler and the system calls *)

\* writeToPrinter and writeToTerminal up to their loop, readFromTerminal up to
\* its first DOIO.
StartCall(q, c) ==
  /\ c.call \in Kinds
  /\ pc' = [pc EXCEPT ![q] = IF c.call = "receive" THEN "receive"
                             ELSE IF c.len = 0 THEN "done" ELSE "load"]
  /\ vpn' = [vpn EXCEPT ![q] = c.page]
  /\ left' = [left EXCEPT ![q] = c.len]
  /\ gen' = [gen EXCEPT ![q] = c]
  /\ passeren(DeviceSem(c.call, q), q)

\* The process is back in user mode, or has no more use for its string.
Forget(q) ==
  /\ gen' = [gen EXCEPT ![q] = NoCall]
  /\ vpn' = [vpn EXCEPT ![q] = NoVpn]
  /\ left' = [left EXCEPT ![q] = 0]

\* terminate: V, then NSYS2, which is TerminateSelf.
terminate_M(q) ==
  /\ pc' = [pc EXCEPT ![q] = "quit"]
  /\ UNCHANGED <<val, semq>>
terminate(q) ==
  /\ pc' = [pc EXCEPT ![q] = "quit"]
  /\ verhogen(masterSem, q)

\* getTod changes nothing that is modelled.
generalExceptionHandler(q, c) ==
  /\ \/ c.call = "quit" /\ terminate(q) /\ Forget(q)
     \/ c.call = "tod" /\ pc' = [pc EXCEPT ![q] = "user"] /\ Forget(q) /\ UNCHANGED <<val, semq>>
     \/ StartCall(q, c)
  /\ UNCHANGED <<io, pte, tlb, swap, lastFrame, frame, flash, step>>

\* A system call or trap in user mode.
GeneralException(q) ==
  /\ pc[q] = "user" /\ Awake(q)
  /\ \E c \in Calls[q] : generalExceptionHandler(q, c)
  /\ UNCHANGED <<back, failed>>

\* flashInit, status != READY: generalExceptionHandler is called in the middle
\* of the Pager.  It reads the last general exception of the U-proc: the call
\* being served, otherwise whichever the U-proc made before.  If it made none
\* the cause is 0, which is handled as a trap.
FlashFails(q) ==
  /\ pc[q] = "flash" /\ Awake(q)
  /\ failed' = failed \cup {q}
  /\ \E c \in Calls[q] : (gen[q] = NoCall \/ gen[q] = c) /\ generalExceptionHandler(q, c)
  /\ back' = [back EXCEPT ![q] = "user"]

\* The next character is on the same page or, after its end, on the next one.
NextPage(v) == {v, v + 1} \cap Pages

\* A write reads a character through the TLB and sends it with NSYS5.  The
\* device answers well, or with an error that ends the loop.
SendChar(q) ==
  /\ pc[q] = "load" /\ Awake(q)
  /\ Hits(<<q, vpn[q]>>) # {}
  /\ \E more \in {left[q] - 1, 0} :
       /\ left' = [left EXCEPT ![q] = more]
       /\ pc' = [pc EXCEPT ![q] = IF more = 0 THEN "done" ELSE "load"]
       /\ \E v \in (IF more = 0 THEN {vpn[q]} ELSE NextPage(vpn[q])) : vpn' = [vpn EXCEPT ![q] = v]
  /\ UNCHANGED <<back, io, pte, tlb, swap, lastFrame, frame, flash, failed, val, semq, gen, step>>

\* NSYS5 of a read: a character to store, or an error.
ReceiveChar(q) ==
  /\ pc[q] = "receive" /\ Awake(q)
  /\ \E next \in {"store", "done"} : pc' = [pc EXCEPT ![q] = next]
  /\ UNCHANGED <<back, vpn, io, pte, tlb, swap, lastFrame, frame, flash, failed, val, semq,
                 gen, left, step>>

\* A read stores the character, and goes on unless it was a newline.
StoreChar(q) ==
  /\ pc[q] = "store" /\ Awake(q)
  /\ StoreThrough(<<q, vpn[q]>>)
  /\ \E next \in {"receive", "done"} : pc' = [pc EXCEPT ![q] = next]
  /\ \E v \in NextPage(vpn[q]) : vpn' = [vpn EXCEPT ![q] = v]
  /\ UNCHANGED <<back, io, pte, tlb, swap, lastFrame, flash, failed, val, semq, gen, left, step>>

\* V of the device.  A write returns to the U-proc, a read has a '\0' to store.
EndCall(q) ==
  /\ pc[q] = "done" /\ Awake(q)
  /\ verhogen(DeviceSem(gen[q].call, q), q)
  /\ IF gen[q].call = "receive"
     THEN pc' = [pc EXCEPT ![q] = "nul"] /\ UNCHANGED <<gen, vpn, left>>
     ELSE pc' = [pc EXCEPT ![q] = "user"] /\ Forget(q)
  /\ UNCHANGED <<back, io, pte, tlb, swap, lastFrame, frame, flash, failed, step>>

StoreNul(q) ==
  /\ pc[q] = "nul" /\ Awake(q)
  /\ StoreThrough(<<q, vpn[q]>>)
  /\ pc' = [pc EXCEPT ![q] = "user"] /\ Forget(q)
  /\ UNCHANGED <<back, io, pte, tlb, swap, lastFrame, flash, failed, val, semq, step>>

\* NSYS2 of terminate.
TerminateSelf(q) ==
  /\ pc[q] = "quit" /\ Awake(q)
  /\ pc' = [pc EXCEPT ![q] = "dead"]
  /\ UNCHANGED <<back, vpn, io, pte, tlb, swap, lastFrame, frame, flash, failed, val, semq,
                 gen, left, step>>

-----------------------------------------------------------------------------
(* The instantiator, process 0: "step" counts its NSYS1 and then its P. *)

CreateUproc ==
  /\ step < UPROCMAX
  /\ step' = step + 1
  /\ pc' = [pc EXCEPT ![step + 1] = "user"]
  /\ UNCHANGED <<back, vpn, io, pte, tlb, swap, lastFrame, frame, flash, failed, val, semq,
                 gen, left>>

Waits_M == UPROCMAX - 1
Waits == UPROCMAX

AwaitUproc ==
  /\ step >= UPROCMAX /\ step < UPROCMAX + Waits /\ ~Blocked(0)
  /\ step' = step + 1
  /\ passeren(masterSem, 0)
  /\ UNCHANGED <<pagerVars, gen, left>>

\* NSYS2 kills what is left of its progeny, and takes it out of the queues.
EndTest ==
  /\ step = UPROCMAX + Waits /\ ~Blocked(0)
  /\ step' = step + 1
  /\ pc' = [q \in Uprocs |-> "dead"]
  /\ semq' = [s \in Sems |-> <<>>]
  /\ UNCHANGED <<back, vpn, io, pte, tlb, swap, lastFrame, frame, flash, failed, val, gen, left>>

\* The machine halts, or hangs after a flash error.
Stopped ==
  /\ step = UPROCMAX + Waits + 1 \/ failed # {}
  /\ UNCHANGED vars

-----------------------------------------------------------------------------

Init ==
  /\ pc = [q \in Uprocs |-> "new"]
  /\ back = [q \in Uprocs |-> "user"]
  /\ vpn = [q \in Uprocs |-> 0]
  /\ io = [q \in Uprocs |-> "in"]
  /\ pte = [id \in PageIds |-> [valid |-> FALSE, pfn |-> 0]]
  /\ tlb = {}
  /\ swap = [f \in Frames |-> NoPage]
  /\ lastFrame = POOLSIZE - 1
  /\ frame = [f \in Frames |-> [id |-> NoPage, ver |-> 0]]
  /\ flash = [id \in PageIds |-> 0]
  /\ failed = {}
  /\ val = [s \in Sems |-> IF s = masterSem THEN 0 ELSE 1]
  /\ semq = [s \in Sems |-> <<>>]
  /\ gen = [q \in Uprocs |-> NoCall]
  /\ left = [q \in Uprocs |-> 0]
  /\ step = 0

PagerStep(q) ==
  /\ \/ \E v \in Pages : uTLB_RefillHandler(q, v) \/ PageFault(q, v)
     \/ TakeFrame(q) \/ FlashIo(q) \/ ReleaseFlash(q) \/ ReadMissed(q) \/ MapPage(q)
  /\ UNCHANGED <<gen, left, step>>

UserStep(q) == GeneralException(q) \/ (UserStore(q) /\ UNCHANGED <<gen, left, step>>)

CallStep(q) == EndCall(q) \/ StoreChar(q) \/ StoreNul(q) \/ TerminateSelf(q)

DeviceStep(q) == SendChar(q) \/ ReceiveChar(q)

TestStep == CreateUproc \/ AwaitUproc \/ EndTest

Next ==
  \/ \E q \in Uprocs :
       PagerStep(q) \/ UserStep(q) \/ CallStep(q) \/ DeviceStep(q) \/ FlashFails(q)
  \/ TestStep
  \/ Stopped

Spec == Init /\ [][Next]_vars

\* The nucleus runs each ready process in turn, and a flash device answers.
\* A character device need not, and what a U-proc does in user mode is its affair.
Proceeds(q) ==
  \/ pc[q] # "user" /\ PagerStep(q)
  \/ FlashFails(q)
  \/ CallStep(q)

FairSpec == Spec /\ WF_vars(TestStep) /\ \A q \in Uprocs : WF_vars(Proceeds(q))
=============================================================================
