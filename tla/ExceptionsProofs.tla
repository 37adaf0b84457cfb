-------------------------- MODULE ExceptionsProofs ---------------------------
(***************************************************************************)
(* Exception dispatch for any interrupt lines and any values of reg_a0:    *)
(* what the handlers never do, that they get ahead with every other        *)
(* exception, and the system calls they never end with.                    *)
(***************************************************************************)
EXTENDS Exceptions, TLAPS

\* The handlers keep the types; none loads a context of the support level that
\* is not there, and none executes a kernel system call for a process in user
\* mode, through any chain of calls from exceptionHandler.
THEOREM ExceptionsTypeCorrect == Spec => []ExceptionsTypeOK
<1> USE DEF ExceptionsTypeOK
<1>1. Init => ExceptionsTypeOK
  BY DEF Init, ExcCodes
<1>2. ExceptionsTypeOK /\ [Next]_vars => ExceptionsTypeOK'
  <2> SUFFICES ASSUME ExceptionsTypeOK, [Next]_vars PROVE ExceptionsTypeOK'
    OBVIOUS
  <2>1. CASE Raise
    BY <2>1 DEF Raise
  <2>2. CASE ExceptionHandler
    BY <2>2 DEF ExceptionHandler, Saved, PassUp, Leave
  <2>3. CASE SyscallExceptionHandler
    BY <2>3 DEF SyscallExceptionHandler, Saved, PassUp, Leave, GenerateException
  <2>4. CASE InterruptExceptionHandler
    BY <2>4 DEF InterruptExceptionHandler, Saved, Leave
  <2>5. CASE Returned \/ UNCHANGED vars
    BY <2>5 DEF Returned, vars
  <2> QED  BY <2>1, <2>2, <2>3, <2>4, <2>5 DEF Next, Handler
<1> QED  BY <1>1, <1>2, PTL DEF Spec

\* The nucleus is between exceptionHandler and syscallExceptionHandler with a
\* system call that it does not accept.
Decoding ==
  /\ at \in {"exceptionHandler", "syscallExceptionHandler"}
  /\ cause = "SYS" /\ ~Legal

\* generateException (helpers.c:166) sends every illegal system call back to
\* exceptionHandler as the same system call: once there, the nucleus is never
\* done with it, whatever the number and the mode (finding 3).
THEOREM IllegalCallNeverEnds == Spec => [](Decoding => []Decoding)
<1>1. Decoding /\ [Next]_vars => Decoding'
  <2> SUFFICES ASSUME Decoding, [Next]_vars PROVE Decoding'
    OBVIOUS
  <2>1. CASE ExceptionHandler
    BY <2>1 DEF ExceptionHandler, Decoding, Legal, Saved, TlbCodes, TrapCodes
  <2>2. CASE SyscallExceptionHandler
    BY <2>2 DEF SyscallExceptionHandler, Decoding, Legal, Saved, GenerateException
  <2>3. CASE Raise \/ InterruptExceptionHandler \/ Returned \/ UNCHANGED vars
    BY <2>3 DEF Raise, InterruptExceptionHandler, Returned, vars, Decoding, Legal
  <2> QED  BY <2>1, <2>2, <2>3 DEF Next, Handler
<1> QED  BY <1>1, PTL DEF Spec

\* An exception that HandlingEnds speaks of.
Accepted == (cause = "SYS" => Legal) /\ (cause = "INT" => Lowest \in Handled)

\* The handlers of phase 2 that can still be entered before the nucleus is done.
CallsLeft ==
  CASE at = "exceptionHandler" -> 2
    [] at \in {"syscallExceptionHandler", "interruptExceptionHandler"} -> 1
    [] at = "process" -> 0
    [] OTHER -> 3

\* exceptionHandler calls the other handlers for their own cause only.
OwnCause ==
  /\ at = "syscallExceptionHandler" => cause = "SYS"
  /\ at = "interruptExceptionHandler" => cause = "INT"

\* An accepted exception stays one and each call brings its end nearer; the only
\* one from which exceptionHandler returns into nowhere is an interrupt of a
\* line without a handler.
HandlingAdvances ==
  /\ Handler /\ Accepted => Accepted' /\ CallsLeft' < CallsLeft
  /\ at # "returned" /\ at' = "returned" => cause = "INT" /\ Lowest \notin Handled

\* Every trap, every legal system call and every interrupt of a handled line is
\* dealt with in at most two nested calls: with the fairness of FairSpec this is
\* why HandlingEnds holds.
THEOREM LegalExceptionsAdvance == Spec => [][HandlingAdvances]_vars
<1> USE DEF OwnCause
<1>1. Init => OwnCause
  BY DEF Init
<1>2. OwnCause /\ [Next]_vars => OwnCause'
  BY DEF Next, Handler, Raise, ExceptionHandler, SyscallExceptionHandler, InterruptExceptionHandler,
     Returned, vars, Saved, PassUp, Leave, GenerateException
<1>3. ExceptionsTypeOK /\ OwnCause /\ [Next]_vars => HandlingAdvances
  <2> SUFFICES ASSUME ExceptionsTypeOK, OwnCause, [Next]_vars PROVE HandlingAdvances
    OBVIOUS
  <2>t. reg_a0 \in Int
    BY ExceptionsAssumption DEF ExceptionsTypeOK
  <2> USE DEF HandlingAdvances, Accepted, Legal, CallsLeft, Saved, Lowest
  <2>1. CASE ExceptionHandler
    BY <2>1 DEF ExceptionHandler, Handler, SyscallExceptionHandler, InterruptExceptionHandler, PassUp, Leave
  <2>2. CASE SyscallExceptionHandler
    <3>1. at' \in {"exceptionHandler", "process"} /\ at = "syscallExceptionHandler" /\ UNCHANGED Saved
      BY <2>2 DEF SyscallExceptionHandler, PassUp, Leave, GenerateException
    <3>2. Accepted => at' = "process"
      BY <2>t, <2>2 DEF SyscallExceptionHandler, PassUp, Leave
    <3> QED  BY <3>1, <3>2
  <2>3. CASE InterruptExceptionHandler
    BY <2>3 DEF InterruptExceptionHandler, Leave
  <2>4. CASE Raise \/ Returned \/ UNCHANGED vars
    BY <2>4 DEF Raise, Returned, vars, Handler, ExceptionHandler, SyscallExceptionHandler,
       InterruptExceptionHandler, PassUp, Leave, GenerateException
  <2> QED  BY <2>1, <2>2, <2>3, <2>4 DEF Next, Handler
<1> QED  BY <1>1, <1>2, <1>3, ExceptionsTypeCorrect, PTL DEF Spec
=============================================================================
