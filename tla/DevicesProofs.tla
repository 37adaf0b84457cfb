---------------------------- MODULE DevicesProofs ----------------------------
(***************************************************************************)
(* The process that waits for a device is served, with the status of its   *)
(* own operation, whatever devices are installed, whichever processes use  *)
(* them and whoever is killed.                                             *)
(***************************************************************************)
EXTENDS Devices, Lemmas

-----------------------------------------------------------------------------
(* Addresses *)

\* Registers of one half of a terminal, or of another device.
IsCommand(c, line, no) == line # TERMINT /\ c = Command(line, no)
IsTransm(c, line, no)  == line = TERMINT /\ c = TransmCommand(no)
IsRecv(c, line, no)    == line = TERMINT /\ c = RecvCommand(no)

\* A command register is that of a device or of one half of a terminal.
LEMMA CommandCases ==
  ASSUME NEW c \in Commands
  PROVE  \E line \in DISKINT..TERMINT, no \in 0..(DEVPERINT - 1) :
           /\ <<line, no>> \in Registers
           /\ IsCommand(c, line, no) \/ IsTransm(c, line, no) \/ IsRecv(c, line, no)
<1>1. PICK r \in Registers :
        c \in IF r[1] = TERMINT THEN {RecvCommand(r[2]), TransmCommand(r[2])}
                                ELSE {Command(r[1], r[2])}
  BY DEF Commands
<1>2. /\ r[1] \in DISKINT..TERMINT /\ r[2] \in 0..(DEVPERINT - 1)
      /\ <<r[1], r[2]>> \in Registers
  BY DevicesAssumption
<1> QED  BY <1>1, <1>2 DEF IsCommand, IsTransm, IsRecv

\* The semaphore that doIoDevice computes from the address of a command register
\* is the one that the interrupt handlers compute from the line and the number.
LEMMA AddressAgrees ==
  ASSUME NEW line \in DISKINT..TERMINT, NEW no \in 0..(DEVPERINT - 1)
  PROVE  /\ line # TERMINT =>
              getDeviceSemAddr(Command(line, no)) = devSems(DeviceIndex(line, no))
         /\ getDeviceSemAddr(TransmCommand(no)) = termSems(0, no)
         /\ getDeviceSemAddr(RecvCommand(no)) = termSems(1, no)
<1> USE DEF DEV_REG_START, DEV_REG_SIZE, DEVPERINT, DISKINT, TERMINT
<1>1. ASSUME line # TERMINT
      PROVE  getDeviceSemAddr(Command(line, no)) = devSems(DeviceIndex(line, no))
  <2> DEFINE addr == Command(line, no)
  <2>1. addr = 88 + 128 * (line - 3) + 16 * no /\ addr < 596
    BY <1>1 DEF Command, DEV_REG_ADDR
  <2>2. (addr - DEV_REG_START) \div DEV_REG_SIZE = DeviceIndex(line, no)
    BY <2>1 DEF DeviceIndex
  <2>3. ~(addr >= TermStart)
    BY <2>1 DEF TermStart, DEV_REG_ADDR
  <2> QED  BY <2>2, <2>3 DEF getDeviceSemAddr
<1>2. getDeviceSemAddr(TransmCommand(no)) = termSems(0, no)
  <2> DEFINE addr == TransmCommand(no)
  <2>1. /\ addr = TermStart + 12 + 16 * no /\ addr >= TermStart /\ addr < TermEnd
        /\ TermStart \in Nat
    BY DEF TransmCommand, TermStart, TermEnd, DEV_REG_ADDR
  <2> HIDE DEF addr
  <2>2. (addr - TermStart) % 16 = 12 /\ (addr - TermStart) \div 16 = no
    BY <2>1
  <2> QED  BY <2>1, <2>2 DEF getDeviceSemAddr, addr
<1>3. getDeviceSemAddr(RecvCommand(no)) = termSems(1, no)
  <2> DEFINE addr == RecvCommand(no)
  <2>1. /\ addr = TermStart + 4 + 16 * no /\ addr >= TermStart /\ addr < TermEnd
        /\ TermStart \in Nat
    BY DEF RecvCommand, TermStart, TermEnd, DEV_REG_ADDR
  <2> HIDE DEF addr
  <2>2. (addr - TermStart) % 16 = 4 /\ (addr - TermStart) \div 16 = no
    BY <2>1
  <2> QED  BY <2>1, <2>2 DEF getDeviceSemAddr, addr
<1> QED  BY <1>1, <1>2, <1>3

\* The command register that a device semaphore is for.
RegisterOf(s) ==
  IF s[1] = "dev" THEN 88 + 16 * s[2]
  ELSE IF s[3] = 1 THEN 600 + 16 * s[2] ELSE 608 + 16 * s[2]

\* Every (sub)device has a semaphore, and one of its own.
LEMMA OwnSemaphore ==
  ASSUME NEW c \in Commands
  PROVE  getDeviceSemAddr(c) \in Sems /\ RegisterOf(getDeviceSemAddr(c)) = c
<1> USE DEF DEV_REG_START, DEV_REG_SIZE, DEVPERINT, DISKINT, TERMINT
<1>1. PICK line \in DISKINT..TERMINT, no \in 0..(DEVPERINT - 1) :
        IsCommand(c, line, no) \/ IsTransm(c, line, no) \/ IsRecv(c, line, no)
  BY CommandCases
<1>2. CASE IsCommand(c, line, no)
  <2>1. getDeviceSemAddr(c) = <<"dev", DeviceIndex(line, no), 0>>
    BY <1>2, AddressAgrees DEF IsCommand, devSems
  <2>2. DeviceIndex(line, no) \in 0..31 /\ c = 88 + 16 * DeviceIndex(line, no)
    BY <1>2 DEF IsCommand, Command, DEV_REG_ADDR, DeviceIndex
  <2>3. getDeviceSemAddr(c) \in Sems
    BY <2>1, <2>2 DEF Sems, devSems
  <2> QED  BY <2>1, <2>2, <2>3 DEF RegisterOf
<1>3. CASE IsTransm(c, line, no)
  <2>1. getDeviceSemAddr(c) = <<"term", no, 0>>
    BY <1>3, AddressAgrees DEF IsTransm, termSems
  <2>2. c = 608 + 16 * no
    BY <1>3 DEF IsTransm, TransmCommand, DEV_REG_ADDR
  <2>3. getDeviceSemAddr(c) \in Sems
    BY <2>1 DEF Sems, termSems
  <2> QED  BY <2>1, <2>2, <2>3 DEF RegisterOf
<1>4. CASE IsRecv(c, line, no)
  <2>1. getDeviceSemAddr(c) = <<"term", no, 1>>
    BY <1>4, AddressAgrees DEF IsRecv, termSems
  <2>2. c = 600 + 16 * no
    BY <1>4 DEF IsRecv, RecvCommand, DEV_REG_ADDR
  <2>3. getDeviceSemAddr(c) \in Sems
    BY <2>1 DEF Sems, termSems
  <2> QED  BY <2>1, <2>2, <2>3 DEF RegisterOf
<1> QED  BY <1>1, <1>2, <1>3, <1>4

\* Two (sub)devices never share a semaphore.
LEMMA SemaphoresDiffer ==
  ASSUME NEW c \in Commands, NEW d \in Commands, getDeviceSemAddr(c) = getDeviceSemAddr(d)
  PROVE  c = d
BY OwnSemaphore

-----------------------------------------------------------------------------
(* The inductive invariant *)

Status == {"READY", "BUSY", "DONE", "ERROR"}
SemOf(p) == getDeviceSemAddr(asked[p])

DevicesType ==
  /\ status \in [Commands -> Status]
  /\ semq \in [Sems -> Seq(Procs)]
  /\ alive \subseteq Procs
  /\ starter \in [Commands -> Procs \cup {NULL}]
  /\ asked \in [Procs -> Int]
  /\ DOMAIN answer = Procs

\* A process waits alone, at the semaphore of the register that it asked.
WaitInv ==
  \A s \in Sems, p \in Procs : p \in ToSet(semq[s]) =>
    /\ p \in alive
    /\ asked[p] \in Commands /\ s = SemOf(p)
    /\ semq[s] = <<p>>

\* A device that is not ready works, or has worked, for the process that waits
\* for it, or else for one that was killed.
WorkInv ==
  \A c \in Commands : status[c] # "READY" =>
    starter[c] \notin alive \/ semq[getDeviceSemAddr(c)] = <<starter[c]>>

DevicesInv == DevicesType /\ WaitInv /\ WorkInv /\ WaiterServed /\ OwnStatus

\* At boot nobody waits and no device works.
LEMMA DevicesInit == Init => DevicesInv
<1> SUFFICES ASSUME Init PROVE DevicesInv
  OBVIOUS
<1>1. DevicesType
  BY DEF Init, DevicesType, Status
<1>2. \A s \in Sems : semq[s] = <<>> /\ ToSet(semq[s]) = {}
  BY DEF Init, ToSet
<1>3. WaitInv
  BY <1>2 DEF WaitInv
<1>4. WorkInv
  BY DEF Init, WorkInv
<1>5. WaiterServed
  BY <1>2, OwnSemaphore DEF WaiterServed
<1>6. OwnStatus
  BY DevicesAssumption DEF Init, OwnStatus
<1> QED  BY <1>1, <1>3, <1>4, <1>5, <1>6 DEF DevicesInv

-----------------------------------------------------------------------------
(* Steps *)

\* A queue of one.
LEMMA OneElement ==
  ASSUME NEW p \in Procs
  PROVE  /\ <<p>> \in Seq(Procs) /\ ToSet(<<p>>) = {p} /\ Distinct(<<p>>)
         /\ Append(<<>>, p) = <<p>> /\ Head(<<p>>) = p /\ Tail(<<p>>) = <<>>
         /\ ToSet(<<>>) = {}
<1>1. DOMAIN <<p>> = {1} /\ <<p>>[1] = p
  OBVIOUS
<1> QED  BY <1>1 DEF ToSet, Distinct

\* The queue of a device semaphore holds one process at most.
LEMMA WaiterAlone ==
  ASSUME DevicesType, WaitInv, NEW s \in Sems, semq[s] # <<>>
  PROVE  \E p \in alive : /\ semq[s] = <<p>> /\ p \in ToSet(semq[s])
                          /\ asked[p] \in Commands /\ s = SemOf(p)
<1>1. semq[s] \in Seq(Procs)
  BY DEF DevicesType
<1>2. Head(semq[s]) \in ToSet(semq[s]) /\ ToSet(semq[s]) \subseteq Procs
  BY <1>1, ToSetProperties
<1> QED  BY <1>2 DEF WaitInv

\* A device may end its operation at any time.
LEMMA CompleteInv ==
  ASSUME DevicesInv, NEW c \in Commands, Complete(c)
  PROVE  DevicesInv'
<1>1. PICK r \in {"DONE", "ERROR"} : status' = [status EXCEPT ![c] = r]
  BY DEF Complete
<1>2. status[c] = "BUSY" /\ UNCHANGED <<semq, alive, starter, asked, answer>>
  BY DEF Complete
<1>3. \A d \in Commands : status'[d] # "READY" <=> status[d] # "READY"
  BY <1>1, <1>2 DEF DevicesInv, DevicesType
<1>4. DevicesType'
  BY <1>1, <1>2 DEF DevicesInv, DevicesType, Status
<1>5. WaitInv' /\ WorkInv' /\ WaiterServed' /\ OwnStatus'
  BY <1>2, <1>3 DEF DevicesInv, WaitInv, WorkInv, WaiterServed, OwnStatus, Waiting, SemOf
<1> QED  BY <1>4, <1>5 DEF DevicesInv

\* NSYS5 puts the caller alone on the semaphore of the device it commands.
LEMMA DoIoInv ==
  ASSUME DevicesInv, NEW p \in Procs, doIoDevice(p)
  PROVE  DevicesInv'
<1>1. PICK c \in Commands :
        /\ semq[getDeviceSemAddr(c)] = <<>>
        /\ Take(c, p)
        /\ semq' = [semq EXCEPT ![getDeviceSemAddr(c)] = Append(@, p)]
        /\ asked' = [asked EXCEPT ![p] = c]
        /\ answer' = [answer EXCEPT ![p] = NoAnswer]
  BY DEF doIoDevice
<1>2. p \in alive /\ ~Waiting(p) /\ UNCHANGED alive
  BY DEF doIoDevice
<1>t. DevicesType
  BY DEF DevicesInv
<1> DEFINE s == getDeviceSemAddr(c)
<1>3. s \in Sems /\ semq'[s] = <<p>> /\ \A t \in Sems \ {s} : semq'[t] = semq[t]
  BY <1>1, <1>t, OwnSemaphore, OneElement DEF DevicesType
<1>4. \A d \in Commands \ {c} : getDeviceSemAddr(d) \in Sems \ {s}
  BY OwnSemaphore
<1>5. /\ \A d \in Commands \ {c} : status'[d] = status[d] /\ starter'[d] = starter[d]
      /\ \/ status[c] = "BUSY" /\ status'[c] = "BUSY" /\ starter'[c] = starter[c]
         \/ status'[c] = "BUSY" /\ starter'[c] = p
  BY <1>1, <1>t DEF Take, DevicesType
<1>6. asked'[p] = c /\ \A q \in Procs \ {p} : asked'[q] = asked[q]
  BY <1>1, <1>t DEF DevicesType
<1>7. DevicesType'
  <2>1. semq' \in [Sems -> Seq(Procs)]
    BY <1>1, <1>t, <1>3, OneElement DEF DevicesType
  <2>2. c \in Int
    <3>1. PICK line \in DISKINT..TERMINT, no \in 0..(DEVPERINT - 1) :
            IsCommand(c, line, no) \/ IsTransm(c, line, no) \/ IsRecv(c, line, no)
      BY CommandCases
    <3> QED  BY <3>1 DEF IsCommand, IsTransm, IsRecv, Command, TransmCommand, RecvCommand,
         DEV_REG_ADDR, DEV_REG_START, DEV_REG_SIZE, DEVPERINT, DISKINT, TERMINT
  <2> QED  BY <1>1, <1>2, <1>t, <2>1, <2>2 DEF DevicesType, Take, Status
<1>8. WaitInv'
  <2> SUFFICES ASSUME NEW t \in Sems, NEW q \in Procs, q \in ToSet(semq'[t])
               PROVE  q \in alive' /\ asked'[q] \in Commands
                      /\ t = getDeviceSemAddr(asked'[q]) /\ semq'[t] = <<q>>
    BY DEF WaitInv, SemOf
  <2>1. CASE t = s
    <3>1. q = p
      BY <1>3, <2>1, OneElement
    <3> QED  BY <1>2, <1>3, <1>6, <2>1, <3>1
  <2>2. CASE t # s
    <3>1. semq'[t] = semq[t] /\ q \in ToSet(semq[t])
      BY <1>3, <2>2
    <3>2. q # p
      BY <1>2, <3>1 DEF Waiting
    <3> QED  BY <1>2, <1>6, <3>1, <3>2 DEF DevicesInv, WaitInv, SemOf
  <2> QED  BY <2>1, <2>2
<1>9. WorkInv'
  <2> SUFFICES ASSUME NEW d \in Commands, status'[d] # "READY"
               PROVE  starter'[d] \notin alive' \/ semq'[getDeviceSemAddr(d)] = <<starter'[d]>>
    BY DEF WorkInv
  <2>1. CASE d # c
    BY <1>2, <1>3, <1>4, <1>5, <2>1 DEF DevicesInv, WorkInv
  <2>2. CASE d = c /\ starter'[c] = p
    BY <1>3, <2>2
  <2>3. CASE d = c /\ status[c] = "BUSY" /\ starter'[c] = starter[c]
    <3>1. starter[c] \notin alive
      BY <1>1, <2>3 DEF DevicesInv, WorkInv
    <3> QED  BY <1>2, <2>3, <3>1
  <2> QED  BY <1>5, <2>1, <2>2, <2>3
<1>10. WaiterServed'
  <2>1. status'[c] = "BUSY"
    BY <1>5
  <2> QED  BY <1>3, <1>4, <1>5, <2>1 DEF DevicesInv, WaiterServed
<1>11. OwnStatus'
  <2> SUFFICES ASSUME NEW q \in alive, asked'[q] # 0, ~Waiting(q)'
               PROVE  /\ answer'[q].command = asked'[q]
                      /\ answer'[q].status \notin {"BUSY", "READY"}
                      /\ answer'[q].by = q \/ answer'[q].by \notin alive
    BY <1>2 DEF OwnStatus
  <2>1. q # p
    BY <1>3, OneElement DEF Waiting
  <2>2. ~Waiting(q)
    <3> SUFFICES ASSUME NEW t \in Sems, q \in ToSet(semq[t]) PROVE FALSE
      BY DEF Waiting
    <3>1. t # s
      BY <1>1, OneElement
    <3> QED  BY <1>3, <3>1 DEF Waiting
  <2>3. asked'[q] = asked[q] /\ answer'[q] = answer[q]
    BY <1>1, <1>6, <2>1, <1>t DEF DevicesType
  <2> QED  BY <2>2, <2>3 DEF DevicesInv, OwnStatus
<1> QED  BY <1>7, <1>8, <1>9, <1>10, <1>11 DEF DevicesInv

\* An interrupt handler, for a (sub)device that has ended and its semaphore.
LEMMA ServeInv ==
  ASSUME DevicesInv, NEW c \in Commands, Ended(c), Serve(c, getDeviceSemAddr(c))
  PROVE  DevicesInv'
<1> DEFINE s == getDeviceSemAddr(c)
<1>t. DevicesType
  BY DEF DevicesInv
<1>1. status[c] \notin {"BUSY", "READY"} /\ s \in Sems
  BY OwnSemaphore DEF Ended
<1>2. /\ status' = [status EXCEPT ![c] = "READY"]
      /\ UNCHANGED <<alive, starter, asked>>
  BY <1>1 DEF Serve, Acknowledged
<1>3. \A d \in Commands \ {c} : status'[d] = status[d] /\ getDeviceSemAddr(d) \in Sems \ {s}
  BY <1>2, <1>t, OwnSemaphore DEF DevicesType
<1>4. status'[c] = "READY"
  BY <1>2, <1>t DEF DevicesType
<1>5. CASE semq[s] = <<>>
  <2>1. UNCHANGED <<semq, answer>>
    BY <1>5 DEF Serve
  <2>2. DevicesType'
    BY <1>2, <1>t, <2>1 DEF DevicesType, Status
  <2>3. WaitInv' /\ OwnStatus'
    BY <1>2, <2>1 DEF DevicesInv, WaitInv, SemOf, OwnStatus, Waiting
  <2>4. WorkInv' /\ WaiterServed'
    BY <1>2, <1>3, <1>4, <1>5, <2>1 DEF DevicesInv, WorkInv, WaiterServed
  <2> QED  BY <2>2, <2>3, <2>4 DEF DevicesInv
<1>6. CASE semq[s] # <<>>
  <2>1. PICK p \in alive : /\ semq[s] = <<p>> /\ p \in ToSet(semq[s])
                           /\ asked[p] \in Commands /\ s = SemOf(p)
    BY <1>1, <1>6, <1>t, WaiterAlone DEF DevicesInv
  <2>2. p \in Procs /\ asked[p] = c
    BY <1>t, <2>1, SemaphoresDiffer DEF DevicesType, SemOf
  <2>3. /\ semq' = [semq EXCEPT ![s] = Tail(@)]
        /\ answer' = [answer EXCEPT ![Head(semq[s])] =
                        [command |-> c, status |-> status[c], by |-> starter[c]]]
    BY <1>6 DEF Serve
  <2>4. semq'[s] = <<>> /\ \A t \in Sems \ {s} : semq'[t] = semq[t]
    BY <1>1, <1>t, <2>1, <2>2, <2>3, OneElement DEF DevicesType
  <2>5. /\ answer'[p] = [command |-> c, status |-> status[c], by |-> starter[c]]
        /\ \A q \in Procs \ {p} : answer'[q] = answer[q]
    BY <1>t, <2>1, <2>2, <2>3, OneElement DEF DevicesType
  <2>6. DevicesType'
    <3>1. semq' \in [Sems -> Seq(Procs)]
      BY <1>1, <1>t, <2>1, <2>2, <2>3, OneElement DEF DevicesType
    <3> QED  BY <1>2, <1>t, <2>3, <3>1 DEF DevicesType, Status
  <2>7. WaitInv'
    <3> SUFFICES ASSUME NEW t \in Sems, NEW q \in Procs, q \in ToSet(semq'[t])
                 PROVE  q \in alive /\ asked[q] \in Commands
                        /\ t = getDeviceSemAddr(asked[q]) /\ semq'[t] = <<q>>
      BY <1>2 DEF WaitInv, SemOf
    <3>1. t # s
      BY <2>2, <2>4, OneElement
    <3> QED  BY <2>4, <3>1 DEF DevicesInv, WaitInv, SemOf
  <2>8. WorkInv' /\ WaiterServed'
    BY <1>2, <1>3, <1>4, <2>4 DEF DevicesInv, WorkInv, WaiterServed
  <2>9. OwnStatus'
    <3> SUFFICES ASSUME NEW q \in alive, asked[q] # 0, ~Waiting(q)'
                 PROVE  /\ answer'[q].command = asked[q]
                        /\ answer'[q].status \notin {"BUSY", "READY"}
                        /\ answer'[q].by = q \/ answer'[q].by \notin alive
      BY <1>2 DEF OwnStatus
    <3>1. CASE q = p
      <4>1. starter[c] \notin alive \/ <<p>> = <<starter[c]>>
        BY <1>1, <2>1 DEF DevicesInv, WorkInv
      <4> QED  BY <1>1, <2>2, <2>5, <3>1, <4>1
    <3>2. CASE q # p
      <4>1. q \in Procs /\ answer'[q] = answer[q]
        BY <1>t, <2>5, <3>2 DEF DevicesType
      <4>2. ~Waiting(q)
        <5> SUFFICES ASSUME NEW t \in Sems, q \in ToSet(semq[t]) PROVE FALSE
          BY DEF Waiting
        <5>1. t # s
          BY <2>1, <2>2, <3>2, OneElement
        <5> QED  BY <2>4, <5>1 DEF Waiting
      <4> QED  BY <4>1, <4>2 DEF DevicesInv, OwnStatus
    <3> QED  BY <3>1, <3>2
  <2> QED  BY <2>6, <2>7, <2>8, <2>9 DEF DevicesInv
<1> QED  BY <1>5, <1>6

\* A process that is killed leaves its semaphore, the device works on.
LEMMA KillInv ==
  ASSUME DevicesInv, NEW p \in Procs, Kill(p)
  PROVE  DevicesInv'
<1>1. /\ alive' = alive \ {p} /\ semq' = [s \in Sems |-> Without(semq[s], p)]
      /\ UNCHANGED <<status, starter, asked, answer>>
  BY DEF Kill
<1>t. DevicesType
  BY DEF DevicesInv
<1>2. ASSUME NEW s \in Sems
      PROVE  /\ semq'[s] \in Seq(Procs)
             /\ \/ p \notin ToSet(semq[s]) /\ semq'[s] = semq[s]
                \/ semq[s] = <<p>> /\ semq'[s] = <<>>
  <2>1. semq[s] \in Seq(Procs) /\ semq'[s] = Without(semq[s], p)
    BY <1>1, <1>t DEF DevicesType
  <2>2. CASE p \notin ToSet(semq[s])
    BY <2>1, <2>2 DEF Without
  <2>3. CASE p \in ToSet(semq[s])
    <3>1. semq[s] = <<p>>
      BY <2>3 DEF DevicesInv, WaitInv
    <3>2. semq'[s] \in Seq(Procs) /\ ToSet(semq'[s]) = {}
      <4>1. ToSet(Without(semq[s], p)) = ToSet(semq[s]) \ {p}
        <5>1. Distinct(semq[s])
          BY <3>1, OneElement
        <5> QED  BY <2>1, <5>1, OutProcQToSet
      <4>2. Without(semq[s], p) \in Seq(Procs)
        BY <2>1, OutProcQToSet
      <4> QED  BY <2>1, <3>1, <4>1, <4>2, OneElement
    <3>3. semq'[s] = <<>>
      BY <3>2, ToSetProperties
    <3> QED  BY <3>1, <3>2, <3>3
  <2> QED  BY <2>2, <2>3
<1>3. DevicesType'
  <2>1. semq' \in [Sems -> Seq(Procs)]
    BY <1>1, <1>2
  <2> QED  BY <1>1, <1>t, <2>1 DEF DevicesType
<1>4. ASSUME NEW s \in Sems, NEW q \in Procs
      PROVE  q \in ToSet(semq'[s]) <=> q # p /\ q \in ToSet(semq[s])
  BY <1>2, OneElement
<1>5. WaitInv'
  <2> SUFFICES ASSUME NEW t \in Sems, NEW q \in Procs, q \in ToSet(semq'[t])
               PROVE  q \in alive' /\ asked[q] \in Commands
                      /\ t = getDeviceSemAddr(asked[q]) /\ semq'[t] = <<q>>
    BY <1>1 DEF WaitInv, SemOf
  <2>1. q # p /\ q \in ToSet(semq[t])
    BY <1>4
  <2>2. q \in alive /\ asked[q] \in Commands /\ t = getDeviceSemAddr(asked[q]) /\ semq[t] = <<q>>
    BY <2>1 DEF DevicesInv, WaitInv, SemOf
  <2>3. semq'[t] = semq[t]
    BY <1>2, <2>1, <2>2
  <2> QED  BY <1>1, <2>1, <2>2, <2>3
<1>6. WorkInv'
  <2> SUFFICES ASSUME NEW c \in Commands, status[c] # "READY"
               PROVE  starter[c] \notin alive' \/ semq'[getDeviceSemAddr(c)] = <<starter[c]>>
    BY <1>1 DEF WorkInv
  <2>1. starter[c] \notin alive \/ semq[getDeviceSemAddr(c)] = <<starter[c]>>
    BY DEF DevicesInv, WorkInv
  <2>2. CASE semq[getDeviceSemAddr(c)] = <<p>>
    BY <1>1, <2>1, <2>2
  <2>3. CASE semq[getDeviceSemAddr(c)] # <<p>>
    BY <1>1, <1>2, <2>1, <2>3, OwnSemaphore
  <2> QED  BY <2>2, <2>3
<1>7. WaiterServed'
  BY <1>1, <1>2, OwnSemaphore DEF DevicesInv, WaiterServed
<1>8. OwnStatus'
  <2> SUFFICES ASSUME NEW q \in alive \ {p}, asked[q] # 0, ~Waiting(q)'
               PROVE  /\ answer[q].command = asked[q]
                      /\ answer[q].status \notin {"BUSY", "READY"}
                      /\ answer[q].by = q \/ answer[q].by \notin alive'
    BY <1>1 DEF OwnStatus
  <2>1. ~Waiting(q)
    BY <1>4, <1>t DEF Waiting, DevicesType
  <2> QED  BY <1>1, <2>1 DEF DevicesInv, OwnStatus
<1> QED  BY <1>3, <1>5, <1>6, <1>7, <1>8 DEF DevicesInv

\* The handlers serve a (sub)device that has ended, at the semaphore of its address.
LEMMA InterruptInv ==
  ASSUME DevicesInv, DeviceInterrupt \/ TerminalInterrupt
  PROVE  DevicesInv'
<1>1. PICK r \in Registers :
        \/ r[1] # TERMINT /\ First(r[1], r[2]) /\ deviceInterruptHandler(r[1], r[2])
        \/ r[1] = TERMINT /\ First(r[1], r[2]) /\ terminalInterruptHandler(r[2])
  BY DEF DeviceInterrupt, TerminalInterrupt
<1>2. /\ r[1] \in DISKINT..TERMINT /\ r[2] \in 0..(DEVPERINT - 1)
  BY DevicesAssumption
<1>3. CASE r[1] # TERMINT /\ First(r[1], r[2]) /\ deviceInterruptHandler(r[1], r[2])
  <2> DEFINE c == Command(r[1], r[2])
  <2>1. c \in Commands
    BY <1>3 DEF Commands
  <2>2. Ended(c)
    BY <1>3 DEF First, Pending
  <2>3. Serve(c, getDeviceSemAddr(c))
    BY <1>2, <1>3, AddressAgrees DEF deviceInterruptHandler
  <2> QED  BY <2>1, <2>2, <2>3, ServeInv
<1>4. CASE r[1] = TERMINT /\ terminalInterruptHandler(r[2])
  <2>1. RecvCommand(r[2]) \in Commands /\ TransmCommand(r[2]) \in Commands
    BY <1>4 DEF Commands
  <2>2. CASE TransmEnded(r[2]) /\ Serve(TransmCommand(r[2]), termSems(0, r[2]))
    BY <1>2, <2>1, <2>2, AddressAgrees, ServeInv DEF TransmEnded
  <2>3. CASE Ended(RecvCommand(r[2])) /\ Serve(RecvCommand(r[2]), termSems(1, r[2]))
    BY <1>2, <2>1, <2>3, AddressAgrees, ServeInv
  <2> QED  BY <1>4, <2>2, <2>3 DEF terminalInterruptHandler
<1> QED  BY <1>1, <1>3, <1>4

\* DevicesInv always holds.
LEMMA DevicesAlways == Spec => []DevicesInv
<1>1. ASSUME DevicesInv, UNCHANGED vars PROVE DevicesInv'
  BY <1>1 DEF vars, DevicesInv, DevicesType, WaitInv, WorkInv, WaiterServed, OwnStatus, Waiting, SemOf
<1>2. DevicesInv /\ [Next]_vars => DevicesInv'
  BY <1>1, DoIoInv, KillInv, CompleteInv, InterruptInv DEF Next
<1> QED  BY <1>2, DevicesInit, PTL DEF Spec

-----------------------------------------------------------------------------

\* No wake-up of NSYS5 is lost: the device that a process waits for is at work or
\* has an interrupt to come, even if it was started for a process since killed.
THEOREM NoLostInterrupt == Spec => []WaiterServed
<1>1. DevicesInv => WaiterServed
  BY DEF DevicesInv
<1> QED  BY <1>1, DevicesAlways, PTL

\* The status that NSYS5 returns is the one of the device that the caller asked,
\* and of its own operation or of that of a process killed meanwhile.
THEOREM StatusIsOwn == Spec => []OwnStatus
<1>1. DevicesInv => OwnStatus
  BY DEF DevicesInv
<1> QED  BY <1>1, DevicesAlways, PTL
=============================================================================
