---------------------------- MODULE CpuTimeProofs ----------------------------
(***************************************************************************)
(* Every process is charged the time it runs, for any set of processes,    *)
(* any range of the clock and however long the system runs.                *)
(***************************************************************************)
EXTENDS CpuTime, Lemmas

-----------------------------------------------------------------------------
(* The inductive invariant *)

Clock == 0..(ClockRange - 1)

TimeType ==
  /\ tod \in Clock /\ schedulingTime \in Clock
  /\ p_time \in [Procs -> Clock]
  /\ currentProcess \in Procs \cup {NULL}
  /\ ready \subseteq Procs /\ blocked \subseteq Procs
  /\ user \in [Procs -> Nat] /\ kern \in [Procs -> Nat]
  /\ pc = "wait" => currentProcess = NULL

\* p is charged right, k of the ticks of the nucleus included, when its account
\* has gone m times round the clock.
Balanced(p, k, m) == user[p] + k = p_time[p] + Pending(p) + m * ClockRange

BalanceInv == \A p \in Procs \ Unused : \E k \in 0..kern[p], m \in Int : Balanced(p, k, m)

TimeInv == TimeType /\ BalanceInv

\* Before the first process runs, nothing is charged or owed.
LEMMA TimeInit == Init => TimeInv
<1> SUFFICES ASSUME Init PROVE TimeInv
  OBVIOUS
<1>1. TimeType
  BY CpuTimeAssumption DEF Init, TimeType, Clock
<1>2. ASSUME NEW p \in Procs PROVE 0 \in 0..kern[p] /\ Balanced(p, 0, 0)
  BY CpuTimeAssumption DEF Init, Balanced, Pending
<1>3. BalanceInv
  <2>1. 0 \in Int
    OBVIOUS
  <2> QED  BY <1>2, <2>1, Zenon DEF BalanceInv
<1> QED  BY <1>1, <1>3 DEF TimeInv

-----------------------------------------------------------------------------
(* Steps *)

\* Nothing that the account of p depends on changes.
SameAccount(p) ==
  user'[p] = user[p] /\ kern'[p] = kern[p] /\ p_time'[p] = p_time[p] /\ Pending(p)' = Pending(p)

\* A step that leaves the accounts of the processes alone keeps the balance.
LEMMA BalanceKept ==
  ASSUME BalanceInv,
         \A p \in Procs \ Unused' : p \notin Unused /\ SameAccount(p)
  PROVE  BalanceInv'
<1> SUFFICES ASSUME NEW p \in Procs \ Unused'
             PROVE  \E k \in 0..kern'[p], m \in Int : user'[p] + k = p_time'[p] + Pending(p)' + m * ClockRange
  BY DEF BalanceInv, Balanced
<1>1. PICK k \in 0..kern[p], m \in Int : Balanced(p, k, m)
  BY DEF BalanceInv
<1> QED  BY <1>1 DEF Balanced, SameAccount

\* The clock advances by one, or wraps.
LEMMA TickBalance ==
  ASSUME TimeInv, Tick
  PROVE  TimeInv'
<1> DEFINE n == ClockRange
<1>1. n \in Nat \ {0} /\ NULL \notin Procs
  BY CpuTimeAssumption
<1>2. /\ tod \in 0..(n - 1) /\ schedulingTime \in 0..(n - 1) /\ p_time \in [Procs -> 0..(n - 1)]
      /\ user \in [Procs -> Nat] /\ kern \in [Procs -> Nat]
  BY DEF TimeInv, TimeType, Clock
<1>3. PICK w \in {0, 1} : tod' = tod + 1 - w * n /\ tod' \in 0..(n - 1)
  <2>1. CASE tod + 1 = n
    <3>1. (tod + 1) % n = 0
      BY <1>1, <2>1, ModUnique
    <3> QED  BY <1>1, <1>2, <2>1, <3>1 DEF Tick
  <2>2. CASE tod + 1 < n
    <3>1. (tod + 1) % n = tod + 1
      BY <1>1, <1>2, <2>2, ModUnique
    <3> QED  BY <1>1, <1>2, <2>2, <3>1 DEF Tick
  <2> QED  BY <1>1, <1>2, <2>1, <2>2
<1>4. UNCHANGED <<schedulingTime, p_time, currentProcess, ready, blocked, pc>>
  BY DEF Tick, queues
<1>5. TimeType'
  BY <1>1, <1>2, <1>3, <1>4 DEF TimeInv, TimeType, Tick, Clock
<1>6. BalanceInv'
  <2> SUFFICES ASSUME NEW p \in Procs \ Unused
               PROVE  \E k \in 0..kern'[p], m \in Int : user'[p] + k = p_time'[p] + Pending(p)' + m * n
    BY <1>4 DEF BalanceInv, Balanced, Unused
  <2>1. PICK k \in 0..kern[p], m \in Int : user[p] + k = p_time[p] + Pending(p) + m * n
    BY DEF TimeInv, BalanceInv, Balanced
  <2>2. m + w \in Int /\ (m + w) * n = m * n + w * n /\ w * n \in Int /\ m * n \in Int
    BY <1>1
  <2>3. CASE p # currentProcess
    <3>1. Pending(p) = 0 /\ Pending(p)' = 0
      BY <1>4, <2>3 DEF Pending
    <3>2. user'[p] = user[p] /\ kern'[p] = kern[p] /\ p_time'[p] = p_time[p]
      BY <1>2, <1>4, <2>3 DEF Tick
    <3> QED  BY <2>1, <3>1, <3>2
  <2>4. CASE p = currentProcess /\ pc = "user"
    <3>1. user'[p] = user[p] + 1 /\ kern'[p] = kern[p]
      BY <1>1, <1>2, <2>4 DEF Tick
    <3>2. Pending(p) = tod - schedulingTime /\ Pending(p)' = tod + 1 - w * n - schedulingTime
      <4>1. Pending(p) = tod - schedulingTime /\ Pending(p)' = tod' - schedulingTime
        BY <1>4, <2>4 DEF Pending
      <4> HIDE DEF n
      <4>2. w * n \in Int
        BY <1>1
      <4> QED  BY <1>2, <1>3, <4>1, <4>2
    <3> DEFINE a == m * n
               b == w * n
    <3>3. user[p] + k = p_time[p] + (tod - schedulingTime) + a /\ a \in Int /\ b \in Int
      BY <2>1, <2>2, <3>2
    <3> HIDE DEF n, a, b
    <3>4. user'[p] + k = p_time'[p] + (tod + 1 - b - schedulingTime) + (a + b)
      BY <1>2, <1>4, <3>1, <3>3
    <3>5. user'[p] + k = p_time'[p] + Pending(p)' + (m + w) * n
      BY <2>2, <3>2, <3>4 DEF a, b
    <3> QED  BY <2>2, <3>1, <3>5
  <2>5. CASE p = currentProcess /\ pc # "user"
    <3>1. user'[p] = user[p] /\ kern'[p] = kern[p] + 1
      BY <1>1, <1>2, <2>5 DEF Tick
    <3>2. CASE pc \in {"nucleus", "charge"}
      <4>1. Pending(p) = tod - schedulingTime /\ Pending(p)' = tod + 1 - w * n - schedulingTime
        <5>1. Pending(p) = tod - schedulingTime /\ Pending(p)' = tod' - schedulingTime
          BY <1>4, <2>5, <3>2 DEF Pending
        <5> HIDE DEF n
        <5>2. w * n \in Int
          BY <1>1
        <5> QED  BY <1>2, <1>3, <5>1, <5>2
      <4> DEFINE a == m * n
                 b == w * n
      <4>2. user[p] + k = p_time[p] + (tod - schedulingTime) + a /\ a \in Int /\ b \in Int
        BY <2>1, <2>2, <4>1
      <4> HIDE DEF n, a, b
      <4>3. user'[p] + (k + 1) = p_time'[p] + (tod + 1 - b - schedulingTime) + (a + b)
        BY <1>2, <1>4, <3>1, <4>2
      <4>4. user'[p] + (k + 1) = p_time'[p] + Pending(p)' + (m + w) * n
        BY <2>2, <4>1, <4>3 DEF a, b
      <4>5. k + 1 \in 0..kern'[p]
        BY <1>2, <3>1
      <4> QED  BY <2>2, <4>4, <4>5
    <3>3. CASE pc \notin {"nucleus", "charge"}
      <4>1. Pending(p) = 0 /\ Pending(p)' = 0
        BY <1>4, <2>5, <3>3 DEF Pending
      <4>2. k \in 0..kern'[p]
        BY <1>2, <3>1
      <4> QED  BY <1>4, <2>1, <3>1, <4>1, <4>2
    <3> QED  BY <3>2, <3>3
  <2> QED  BY <2>3, <2>4, <2>5
<1> QED  BY <1>5, <1>6 DEF TimeInv

\* What has been pending is charged, modulo the range of the clock.
LEMMA ChargeBalance ==
  ASSUME TimeInv, updateCpuTime
  PROVE  TimeInv'
<1> DEFINE n == ClockRange
           c == currentProcess
           total == p_time[c] + (tod - schedulingTime)
<1>1. n \in Nat \ {0} /\ NULL \notin Procs
  BY CpuTimeAssumption
<1>2. /\ tod \in 0..(n - 1) /\ schedulingTime \in 0..(n - 1) /\ p_time \in [Procs -> 0..(n - 1)]
      /\ user \in [Procs -> Nat] /\ kern \in [Procs -> Nat]
  BY DEF TimeInv, TimeType, Clock
<1>3. /\ pc = "charge" /\ pc' = "charged" /\ p_time' = [p_time EXCEPT ![c] = total % n]
      /\ UNCHANGED <<tod, user, kern, schedulingTime, currentProcess, ready, blocked>>
  BY DEF updateCpuTime, clock, queues
<1>4. c \in Procs => total \in Int /\ total % n \in 0..(n - 1)
                     /\ total \div n \in Int /\ total = (total \div n) * n + (total % n)
  BY <1>1, <1>2
<1>5. TimeType'
  <2>1. p_time' \in [Procs -> 0..(n - 1)]
    BY <1>2, <1>3, <1>4
  <2> QED  BY <1>3, <2>1 DEF TimeInv, TimeType, Clock
<1>6. BalanceInv'
  <2> SUFFICES ASSUME NEW p \in Procs \ Unused
               PROVE  \E k \in 0..kern[p], m \in Int : user[p] + k = p_time'[p] + Pending(p)' + m * n
    BY <1>3 DEF BalanceInv, Balanced, Unused
  <2>1. PICK k \in 0..kern[p], m \in Int : user[p] + k = p_time[p] + Pending(p) + m * n
    BY DEF TimeInv, BalanceInv, Balanced
  <2>2. CASE p # c
    <3>1. Pending(p) = 0 /\ Pending(p)' = 0
      BY <1>3, <2>2 DEF Pending
    <3>2. p_time'[p] = p_time[p]
      BY <1>2, <1>3, <2>2
    <3> QED  BY <2>1, <3>1, <3>2
  <2>3. CASE p = c
    <3> DEFINE q == total \div n
               r == total % n
    <3>1. q \in Int /\ total = q * n + r /\ p_time'[p] = r /\ r \in Int
      BY <1>2, <1>3, <1>4, <2>3
    <3>2. Pending(p) = tod - schedulingTime /\ Pending(p)' = 0
      BY <1>3, <2>3 DEF Pending
    <3>3. user[p] + k = total + m * n
      BY <1>2, <2>1, <2>3, <3>2
    <3> HIDE DEF n, q, r, total
    <3>4. m + q \in Int /\ (m + q) * n = m * n + q * n
      BY <1>1, <3>1
    <3>5. user[p] + k = p_time'[p] + Pending(p)' + (m + q) * n
      BY <1>1, <3>1, <3>2, <3>3, <3>4
    <3> QED  BY <3>4, <3>5
  <2> QED  BY <2>2, <2>3
<1> QED  BY <1>5, <1>6 DEF TimeInv

\* A new process has no account yet.
LEMMA CreateBalance ==
  ASSUME TimeInv, createProcess
  PROVE  TimeInv'
<1>1. PICK p \in Unused :
        /\ p_time' = [p_time EXCEPT ![p] = 0] /\ ready' = ready \cup {p}
        /\ user' = [user EXCEPT ![p] = 0] /\ kern' = [kern EXCEPT ![p] = 0]
  BY DEF createProcess, ResetTime
<1>2. /\ pc = "nucleus" /\ pc' = "user"
      /\ UNCHANGED <<tod, schedulingTime, currentProcess, blocked>>
  BY DEF createProcess, InNucleus
<1>3. ClockRange \in Nat \ {0}
  BY CpuTimeAssumption
<1>4. TimeType'
  BY <1>1, <1>2, <1>3 DEF TimeInv, TimeType, Clock, Unused
<1>5. BalanceInv'
  <2> SUFFICES ASSUME NEW q \in Procs \ Unused'
               PROVE  \E k \in 0..kern'[q], m \in Int : user'[q] + k = p_time'[q] + Pending(q)' + m * ClockRange
    BY DEF BalanceInv, Balanced
  <2>1. CASE q = p
    <3>1. user'[q] = 0 /\ kern'[q] = 0 /\ p_time'[q] = 0
      BY <1>1, <2>1 DEF TimeInv, TimeType
    <3>2. Pending(q)' = 0
      BY <1>1, <1>2, <2>1 DEF Pending, Unused
    <3>3. 0 \in 0..kern'[q] /\ 0 \in Int /\ user'[q] + 0 = p_time'[q] + Pending(q)' + 0 * ClockRange
      BY <1>3, <3>1, <3>2
    <3> QED  BY <3>3
  <2>2. CASE q # p
    <3>1. q \notin Unused
      BY <1>1, <1>2, <2>2 DEF Unused
    <3>2. PICK k \in 0..kern[q], m \in Int : user[q] + k = p_time[q] + Pending(q) + m * ClockRange
      BY <3>1 DEF TimeInv, BalanceInv, Balanced
    <3>3. user'[q] = user[q] /\ kern'[q] = kern[q] /\ p_time'[q] = p_time[q] /\ Pending(q)' = Pending(q)
      BY <1>1, <1>2, <2>2 DEF TimeInv, TimeType, Pending
    <3> QED  BY <3>2, <3>3
  <2> QED  BY <2>1, <2>2
<1> QED  BY <1>4, <1>5 DEF TimeInv

\* Every other step moves processes about or reads the clock, when nothing is pending.
LEMMA OtherBalance ==
  ASSUME TimeInv,
         \/ Enter \/ Charged \/ getCpuTime \/ Block \/ Deschedule \/ Terminate \/ Return
         \/ Dispatch \/ Load \/ Wait \/ UNCHANGED vars
  PROVE  TimeInv'
<1> USE CpuTimeAssumption DEF clock, queues, InNucleus
<1>t. TimeType
  BY DEF TimeInv
<1>1. UNCHANGED <<tod, user, kern, p_time>>
  BY DEF Enter, Charged, getCpuTime, Block, Deschedule, Terminate, Return, Dispatch, Load, Wait, vars
<1>2. TimeType'
  BY <1>t, <1>1 DEF TimeType, Enter, Charged, Restart, getCpuTime, Block, Deschedule, Terminate, Return,
     Dispatch, Load, Wait, vars, Clock
<1>3. \A p \in Procs : p \notin Unused' => p \notin Unused
  BY <1>t DEF TimeType, Unused, Enter, Charged, getCpuTime, Block, Deschedule, Terminate, Return, Dispatch,
     Load, Wait, vars
<1>4. ASSUME NEW p \in Procs \ Unused' PROVE Pending(p)' = Pending(p)
  <2> USE DEF Pending
  <2>1. CASE Enter \/ getCpuTime \/ Block \/ Deschedule
    BY <1>t, <1>1, <2>1 DEF TimeType, Enter, getCpuTime, Block, Deschedule
  <2>2. CASE Charged \/ Load
    <3>1. /\ schedulingTime' = tod /\ tod' - schedulingTime' = 0 /\ currentProcess' = currentProcess
          /\ pc \in {"charged", "dispatch"}
      BY <1>t, <1>1, <2>2 DEF TimeType, Clock, Charged, Restart, Load
    <3> QED  BY <3>1
  <2>3. CASE Terminate
    <3>1. CASE p = currentProcess
      <4>1. currentProcess' = currentProcess /\ pc' = "user"
        BY <1>t, <2>3, <3>1 DEF TimeType, Terminate, Unused
      <4> QED  BY <1>1, <2>3, <3>1, <4>1 DEF Terminate
    <3>2. CASE p # currentProcess
      <4>1. p # currentProcess'
        BY <2>3, <3>2 DEF Terminate
      <4> QED  BY <3>2, <4>1
    <3> QED  BY <3>1, <3>2
  <2>5. CASE Return
    <3>1. currentProcess' = currentProcess /\ schedulingTime' = schedulingTime
          /\ pc = "nucleus" /\ (p = currentProcess => pc' = "user")
      BY <2>5 DEF Return
    <3> QED  BY <1>1, <3>1
  <2>4. CASE Dispatch \/ Wait \/ UNCHANGED vars
    BY <1>t, <1>1, <2>4 DEF TimeType, Dispatch, Wait, vars
  <2> QED  BY <2>1, <2>2, <2>3, <2>4, <2>5
<1>5. BalanceInv'
  BY <1>1, <1>3, <1>4, BalanceKept DEF TimeInv, SameAccount
<1> QED  BY <1>2, <1>5 DEF TimeInv

\* TimeInv always holds.
LEMMA TimeAlways == Spec => []TimeInv
<1>1. TimeInv /\ [Next]_vars => TimeInv'
  BY TickBalance, ChargeBalance, CreateBalance, OtherBalance DEF Next
<1> QED  BY <1>1, TimeInit, PTL DEF Spec

-----------------------------------------------------------------------------

\* Each tick at which a process runs is charged to it, once and to nobody else,
\* and of the other ticks at most those at which the nucleus works for it,
\* wherever the clock wraps between two readings.
THEOREM CpuTimeCharged == Spec => []ChargedRight
<1>1. TimeInv => ChargedRight
  <2> SUFFICES ASSUME TimeInv, NEW p \in Procs \ Unused
               PROVE  \E k \in 0..kern[p] :
                        (user[p] + k) % ClockRange = (p_time[p] + Pending(p)) % ClockRange
    BY DEF ChargedRight
  <2>1. PICK k \in 0..kern[p], m \in Int : Balanced(p, k, m)
    BY DEF TimeInv, BalanceInv
  <2>2. Pending(p) \in Int /\ p_time[p] \in Int /\ ClockRange \in Nat \ {0}
    BY CpuTimeAssumption DEF TimeInv, TimeType, Clock, Pending
  <2>3. (p_time[p] + Pending(p) + m * ClockRange) % ClockRange = (p_time[p] + Pending(p)) % ClockRange
    <3> DEFINE x == p_time[p] + Pending(p)
    <3>1. x \in Int
      BY <2>2
    <3> HIDE DEF x
    <3>2. (x + m * ClockRange) % ClockRange = x % ClockRange
      BY <2>1, <2>2, <3>1, ModShift
    <3> QED  BY <3>2 DEF x
  <2>4. user[p] + k = p_time[p] + Pending(p) + m * ClockRange
    BY <2>1 DEF Balanced
  <2> QED  BY <2>3, <2>4
<1> QED  BY <1>1, TimeAlways, PTL
=============================================================================
