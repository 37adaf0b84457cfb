----------------------------- MODULE Exceptions ------------------------------
(***************************************************************************)
(* What becomes of an exception: exceptionHandler, syscallExceptionHandler *)
(* interruptExceptionHandler, passUpOrDie and generateException call one   *)
(* another until one of them leaves the nucleus by LDST, LDCXT or the      *)
(* scheduler.  A step is one such call.  What a system call or an          *)
(* interrupt does to the processes is the subject of Kernel.               *)
(***************************************************************************)
EXTENDS Integers

CONSTANTS
  Lines,     \* interrupt lines that can be pending: 1 is the PLT, 7 the terminals
  Numbers    \* values of reg_a0 at a SYSCALL

VARIABLES
  at,        \* the function that runs, "process", or "returned": exceptionHandler
             \* has returned, to an address that it never set
  cause,     \* ExcCode in the saved state
  kup,       \* USERPON in the saved status: the process was in user mode
  reg_a0,
  pending,   \* interrupt lines in the saved cause
  support,   \* p_supportStruct # NULL
  outcome    \* how the last exception was handled

vars == <<at, cause, kup, reg_a0, pending, support, outcome>>

TlbCodes  == {"MOD", "TLBL", "TLBS"}
TrapCodes == {"ADEL", "ADES", "IBE", "DBE", "BP", "RI", "CPU", "OV"}
ExcCodes  == {"INT", "SYS"} \cup TlbCodes \cup TrapCodes

NSYS == -10..-1                \* YIELD to CREATEPROCESS
Handled == {1, 2, 3, 4, 6, 7}  \* the cases of interruptExceptionHandler

ASSUME ExceptionsAssumption == Lines \subseteq 1..7 /\ Numbers \subseteq Int

Saved == <<cause, kup, reg_a0, pending, support>>

-----------------------------------------------------------------------------

\* The process runs into an exception of any kind.
Raise ==
  /\ at = "process"
  /\ at' = "exceptionHandler"
  /\ cause' \in ExcCodes
  /\ kup' \in BOOLEAN /\ support' \in BOOLEAN
  /\ reg_a0' \in IF cause' = "SYS" THEN Numbers ELSE {0}
  /\ pending' \in IF cause' = "INT" THEN SUBSET Lines \ {{}} ELSE {{}}
  /\ outcome' = "none"

\* LDST, LDCXT or the scheduler: the nucleus is done until the next exception.
Leave(how) == at' = "process" /\ outcome' = how

\* passUpOrDie: without a support structure there is no context to load.
PassUp_M(slot) == Leave(slot)
PassUp(slot) == Leave(IF support THEN slot ELSE "killed")

\* The argument is not used: the code clears bits of the saved status and leaves
\* the saved cause alone.  USERPON is among the bits it keeps.
GenerateException(code) ==
  /\ at' = "exceptionHandler"
  /\ UNCHANGED <<Saved, outcome>>

ExceptionHandler_M ==
  /\ at = "exceptionHandler"
  /\ UNCHANGED Saved
  /\ \/ cause = "INT" /\ at' = "interruptExceptionHandler" /\ UNCHANGED outcome
     \/ cause = "SYS" /\ at' = "syscallExceptionHandler" /\ UNCHANGED outcome
     \/ cause \in {"TLBL", "TLBS"} /\ PassUp("PGFAULTEXCEPT")
     \/ cause \in TrapCodes /\ PassUp("GENERALEXCEPT")
     \/ cause = "MOD" /\ at' = "returned" /\ UNCHANGED outcome
ExceptionHandler ==
  /\ at = "exceptionHandler"
  /\ UNCHANGED Saved
  /\ \/ cause = "INT" /\ at' = "interruptExceptionHandler" /\ UNCHANGED outcome
     \/ cause = "SYS" /\ at' = "syscallExceptionHandler" /\ UNCHANGED outcome
     \/ cause \in TlbCodes /\ PassUp("PGFAULTEXCEPT")
     \/ cause \in TrapCodes /\ PassUp("GENERALEXCEPT")

SyscallExceptionHandler ==
  /\ at = "syscallExceptionHandler"
  /\ \/ kup /\ reg_a0 < 0 /\ GenerateException("RI")
     \/ reg_a0 >= 1 /\ PassUp("GENERALEXCEPT") /\ UNCHANGED Saved
     \/ ~kup /\ reg_a0 \in NSYS /\ Leave("nsys") /\ UNCHANGED Saved
     \/ (kup => reg_a0 = 0) /\ reg_a0 < 1 /\ reg_a0 \notin NSYS /\ GenerateException("RI")

\* lsb(cause & IMON): the lowest pending line is served.  A line without a case
\* falls through, and so does exceptionHandler.
Lowest == CHOOSE l \in pending : \A m \in pending : l <= m
InterruptExceptionHandler ==
  /\ at = "interruptExceptionHandler"
  /\ UNCHANGED Saved
  /\ \/ Lowest \in Handled /\ Leave("interrupt")
     \/ Lowest \notin Handled /\ at' = "returned" /\ UNCHANGED outcome

Returned == at = "returned" /\ UNCHANGED vars

Init ==
  /\ at = "process"
  /\ cause = "INT" /\ kup = FALSE /\ reg_a0 = 0 /\ pending = {} /\ support = FALSE
  /\ outcome = "none"

Handler == ExceptionHandler \/ SyscallExceptionHandler \/ InterruptExceptionHandler

Next == Raise \/ Handler \/ Returned

Spec == Init /\ [][Next]_vars

\* The processor executes the nucleus without interruption.
FairSpec == Spec /\ WF_vars(Handler)

-----------------------------------------------------------------------------

\* Types; a context of the support level is loaded only where there is one, and
\* no chain of handlers executes a kernel system call for a process in user
\* mode (syscalls.c:53).
ExceptionsTypeOK ==
  /\ at \in {"process", "returned", "exceptionHandler", "syscallExceptionHandler",
             "interruptExceptionHandler"}
  /\ cause \in ExcCodes /\ kup \in BOOLEAN /\ support \in BOOLEAN
  /\ reg_a0 \in Numbers \cup {0} /\ pending \subseteq Lines
  /\ outcome \in {"none", "killed", "nsys", "interrupt", "PGFAULTEXCEPT", "GENERALEXCEPT"}
  /\ outcome \in {"PGFAULTEXCEPT", "GENERALEXCEPT"} => support
  /\ outcome = "nsys" => ~kup

\* A system call that the code accepts: a user one, or from kernel mode one of
\* NSYS1 to NSYS10.
Legal == reg_a0 >= 1 \/ (~kup /\ reg_a0 \in NSYS)

\* The nucleus is done, sooner or later, with every trap, every legal system
\* call and every interrupt of a line it has a handler for.
HandlingEnds ==
  at = "exceptionHandler"
    /\ (cause = "SYS" => Legal) /\ (cause = "INT" => Lowest \in Handled) ~> at = "process"

\* exceptions.c:60-69: "program traps ... are either passed up ... or
\* terminated", and the reserved instruction exception that syscalls.c:57 and
\* :104 generate is one: an illegal system call ends too.
IllegalCallEnds == at = "exceptionHandler" /\ cause = "SYS" /\ ~Legal ~> at = "process"
=============================================================================
