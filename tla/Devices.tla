------------------------------- MODULE Devices -------------------------------
(***************************************************************************)
(* NSYS5 down to the device registers: the address of a command register   *)
(* picks the semaphore in doIoDevice, the interrupt line and the bitmap of *)
(* pending devices pick it in the interrupt handlers, and both must mean   *)
(* the same device.  A terminal has two sub-devices behind one line and    *)
(* one bit.                                                                *)
(*                                                                         *)
(* A (sub)device is named by the address of its command register.  Device  *)
(* semaphores are always 0, so NSYS5 always blocks.  A process may be      *)
(* killed while it waits; its operation goes on without it.                *)
(*                                                                         *)
(* A definition whose name ends in _M is a mutation of the one after it.   *)
(***************************************************************************)
EXTENDS ProcQ

CONSTANTS
  Procs,
  Registers,    \* <<line, number>> of the installed devices
  NULL

VARIABLES
  status,       \* of each (sub)device: "READY", "BUSY" or how it ended
  semq,         \* devSems and termSems: queues of blocked processes
  alive,        \* processes that were not killed
  \* For the properties only:
  starter,      \* process whose command the (sub)device took last
  asked,        \* command register and process of the last NSYS5 of a process
  answer        \* what the status that it returned with is about

vars == <<status, semq, alive, starter, asked, answer>>

-----------------------------------------------------------------------------
(* Addresses *)

DEV_REG_START == 84      \* 0x10000054, without its upper half
DEV_REG_SIZE  == 16
DEVPERINT     == 8
DISKINT       == 3       \* the first line with device registers
TERMINT       == 7

DEV_REG_ADDR(line, no) ==
  DEV_REG_START + (line - DISKINT) * DEVPERINT * DEV_REG_SIZE + no * DEV_REG_SIZE

\* Offsets of the command registers of dtpreg_t and termreg_t.
Command(line, no)       == DEV_REG_ADDR(line, no) + 4
RecvCommand(no)         == DEV_REG_ADDR(TERMINT, no) + 4
TransmCommand(no)       == DEV_REG_ADDR(TERMINT, no) + 12

ASSUME DevicesAssumption ==
  /\ Registers \subseteq (DISKINT..TERMINT) \X (0..(DEVPERINT - 1))
  /\ NULL \notin Procs

Commands ==
  UNION {IF r[1] = TERMINT THEN {RecvCommand(r[2]), TransmCommand(r[2])}
                           ELSE {Command(r[1], r[2])} : r \in Registers}

devSems(i)     == <<"dev", i, 0>>
termSems(r, i) == <<"term", i, r>>     \* r = 1: the receiver
Sems == {devSems(i) : i \in 0..(4 * DEVPERINT - 1)}
          \cup {termSems(r, i) : r \in {0, 1}, i \in 0..(DEVPERINT - 1)}

\* getDeviceSemAddr
TermStart == DEV_REG_ADDR(TERMINT, 0)
TermEnd   == DEV_REG_ADDR(TERMINT, DEVPERINT)
getDeviceSemAddr(addr) ==
  IF addr >= TermStart /\ addr < TermEnd
  THEN termSems(IF (addr - TermStart) % DEV_REG_SIZE = 4 THEN 1 ELSE 0,
                (addr - TermStart) \div DEV_REG_SIZE)
  ELSE devSems((addr - DEV_REG_START) \div DEV_REG_SIZE)

\* The index that deviceInterruptHandler computes.
DeviceIndex_M(line, no) == (line - 1 - DISKINT) * DEVPERINT + no
DeviceIndex(line, no) == (line - DISKINT) * DEVPERINT + no

-----------------------------------------------------------------------------
(* The devices *)

Ended(c) == status[c] \notin {"BUSY", "READY"}

\* A device takes a command, unless it is busy.
Take(c, p) ==
  IF status[c] = "BUSY" THEN UNCHANGED <<status, starter>>
  ELSE /\ status' = [status EXCEPT ![c] = "BUSY"]
       /\ starter' = [starter EXCEPT ![c] = p]

Acknowledged(c) == IF status[c] = "BUSY" THEN "BUSY" ELSE "READY"

Complete(c) ==
  /\ status[c] = "BUSY"
  /\ \E s \in {"DONE", "ERROR"} : status' = [status EXCEPT ![c] = s]
  /\ UNCHANGED <<semq, alive, starter, asked, answer>>

\* A bit of a bitmap of pending interrupts: both sub-devices share it.
Pending(line, no) ==
  /\ <<line, no>> \in Registers
  /\ IF line = TERMINT THEN Ended(RecvCommand(no)) \/ Ended(TransmCommand(no))
                       ELSE Ended(Command(line, no))

-----------------------------------------------------------------------------
(* The nucleus *)

\* The answer of a process that has none to its last NSYS5, for the properties.
NoAnswer == [command |-> 0, status |-> "READY", by |-> NULL]

Waiting(p) == \E s \in Sems : p \in ToSet(semq[s])

\* NSYS5.  The callers take turns on a device, so none waits for it yet.
doIoDevice(p) ==
  /\ p \in alive /\ ~Waiting(p)
  /\ \E c \in Commands :
       /\ semq[getDeviceSemAddr(c)] = <<>>
       /\ Take(c, p)
       /\ semq' = [semq EXCEPT ![getDeviceSemAddr(c)] = Append(@, p)]
       /\ asked' = [asked EXCEPT ![p] = c]
  /\ answer' = [answer EXCEPT ![p] = NoAnswer]
  /\ UNCHANGED alive

\* ACK the (sub)device c, wake the first process of semaphore s, if there is
\* one, and hand it the status.
Serve(c, s) ==
  /\ status' = [status EXCEPT ![c] = Acknowledged(c)]
  /\ IF semq[s] = <<>>
     THEN UNCHANGED <<semq, answer>>
     ELSE /\ semq' = [semq EXCEPT ![s] = Tail(@)]
          /\ answer' = [answer EXCEPT ![Head(semq[s])] =
                          [command |-> c, status |-> status[c], by |-> starter[c]]]
  /\ UNCHANGED <<alive, starter, asked>>

deviceInterruptHandler(line, no) == Serve(Command(line, no), devSems(DeviceIndex(line, no)))

\* The transmitter first.  That one of the two has ended is the hardware's
\* promise: the last branch of the code leaves proc uninitialised.
TransmEnded_M(no) == status[TransmCommand(no)] # "READY"
TransmEnded(no) == Ended(TransmCommand(no))
terminalInterruptHandler(no) ==
  \/ TransmEnded(no) /\ Serve(TransmCommand(no), termSems(0, no))
  \/ /\ ~TransmEnded(no) /\ Ended(RecvCommand(no))
     /\ Serve(RecvCommand(no), termSems(1, no))

\* The lowest pending line, and the lowest bit of its bitmap.
First(line, no) ==
  /\ Pending(line, no)
  /\ \A r \in Registers :
       Pending(r[1], r[2]) => line < r[1] \/ (line = r[1] /\ no <= r[2])

DeviceInterrupt ==
  \E r \in Registers :
    /\ r[1] # TERMINT /\ First(r[1], r[2])
    /\ deviceInterruptHandler(r[1], r[2])

TerminalInterrupt ==
  \E r \in Registers :
    /\ r[1] = TERMINT /\ First(r[1], r[2])
    /\ terminalInterruptHandler(r[2])

\* kill() takes a process out of the queue it waits in.
Kill(p) ==
  /\ p \in alive
  /\ alive' = alive \ {p}
  /\ semq' = [s \in Sems |-> Without(semq[s], p)]
  /\ UNCHANGED <<status, starter, asked, answer>>

-----------------------------------------------------------------------------

Init ==
  /\ status = [c \in Commands |-> "READY"]
  /\ semq = [s \in Sems |-> <<>>]
  /\ alive = Procs
  /\ starter = [c \in Commands |-> NULL]
  /\ asked = [p \in Procs |-> 0]
  /\ answer = [p \in Procs |-> NoAnswer]

Next ==
  \/ \E p \in Procs : doIoDevice(p) \/ Kill(p)
  \/ \E c \in Commands : Complete(c)
  \/ DeviceInterrupt \/ TerminalInterrupt

Spec == Init /\ [][Next]_vars

\* A pending interrupt is taken: the nucleus waits for interrupts whenever no
\* process is ready.  A device need not ever end its operation.
FairSpec == Spec /\ WF_vars(DeviceInterrupt \/ TerminalInterrupt)

-----------------------------------------------------------------------------

\* NSYS5 returns with a status, the one of the device the caller asked,
\* after the operation ended, and of the caller's own operation - or of that
\* of a process that was killed while the same device worked for it.
OwnStatus ==
  \A p \in alive :
    asked[p] # 0 /\ ~Waiting(p) =>
      /\ answer[p].command = asked[p]
      /\ answer[p].status \notin {"BUSY", "READY"}
      /\ answer[p].by = p \/ answer[p].by \notin alive

\* No wake-up is lost: the device that a process waits for is at work or has
\* an interrupt to come, even if it was started for a process since killed.
WaiterServed ==
  \A c \in Commands : semq[getDeviceSemAddr(c)] # <<>> => status[c] # "READY"

\* The order in which interrupts are served: the lower line and number, which
\* is the lower register, and the transmitter before the receiver.
ServedBefore(b, c) ==
  LET Device(x) == (x - DEV_REG_START) \div DEV_REG_SIZE
  IN  Device(b) < Device(c) \/ (Device(b) = Device(c) /\ b > c)
EndedBefore(c) == \E b \in Commands : Ended(b) /\ ServedBefore(b, c)

\* Each ended operation is acknowledged, unless there is no end of operations
\* that end on the (sub)devices served before it, which the selection in
\* interruptExceptionHandler and in the handlers lets starve it.  The other
\* half of a terminal delays it only so, not while it is busy; the devices
\* served after it never do, whatever their processes start.
AnswerDelivered ==
  \A c \in Commands : (Ended(c) ~> ~Ended(c)) \/ []<>EndedBefore(c)
=============================================================================
