------------------------------ MODULE PidProofs ------------------------------
(***************************************************************************)
(* PIDs are in their range, are reused by the caller's child at most, and  *)
(* find the process they were given to, for any number of PCBs, any range  *)
(* and any order of creations and terminations, until lastpid overflows.   *)
(***************************************************************************)
EXTENDS PidAlloc, Lemmas, FiniteSetTheorems

\* lastpid does not overflow: there are no 2^31 system calls.
NoOverflow == MaxLastPid + Span <= INT_MAX + 1

-----------------------------------------------------------------------------
(* Arithmetic *)

\* Without overflow the PIDs go round and round from PID_MIN to PID_MAX.
LEMMA PidValue ==
  ASSUME NEW n \in 2..INT_MAX
  PROVE  /\ Wrap(n) = n
         /\ PidOf(n) = 2 + ((n - 2) % Span)
         /\ PidOf(n) \in PID_MIN..PID_MAX
         /\ n <= PID_MAX => PidOf(n) = n
<1>1. Span \in Nat \ {0} /\ Span = PID_MAX - 1 /\ INT_MAX \in Nat /\ PID_MIN = 2 /\ PID_MAX \in Nat
  BY PidAssumption DEF Span
<1>2. ASSUME NEW i \in 0..INT_MAX PROVE Wrap(i) = i
  <2> DEFINE w == 2 * (INT_MAX + 1)
             a == i + INT_MAX + 1
  <2>1. w \in Nat \ {0} /\ a \in 0..(w - 1) /\ a = 0 * w + a /\ 0 \in Int
    BY <1>1
  <2> HIDE DEF w, a
  <2>2. a % w = a
    BY <2>1, ModUnique
  <2> QED  BY <1>1, <2>2 DEF Wrap, w, a
<1>3. Wrap(n) = n /\ Wrap(n - PID_MIN) = n - 2
  BY <1>1, <1>2
<1>4. PidOf(n) = 2 + ((n - 2) % Span)
  BY <1>1, <1>3 DEF PidOf, Rem
<1>5. (n - 2) % Span \in 0..(Span - 1)
  BY <1>1
<1>6. ASSUME n <= PID_MAX PROVE (n - 2) % Span = n - 2
  <2>1. n - 2 \in 0..(Span - 1) /\ n - 2 = 0 * Span + (n - 2)
    BY <1>1, <1>6
  <2> QED  BY <1>1, <2>1, ModUnique
<1> QED  BY <1>1, <1>3, <1>4, <1>5, <1>6

-----------------------------------------------------------------------------
(* The inductive invariant *)

\* Before lastpid has gone once through the range, it is the greatest PID.
GreatestPid == lastpid <= PID_MAX => \A p \in Live : p_pid[p] <= lastpid

PidInv ==
  /\ PidTypeOK
  /\ lastpid \in 1..INT_MAX
  /\ PidInRange
  /\ GreatestPid
  /\ UniqueBeforeWrap
  /\ DuplicateIsChild

\* The first process has PID 1.
LEMMA PidInit == Init => PidInv
<1> SUFFICES ASSUME Init PROVE PidInv
  OBVIOUS
<1>1. PICK p \in Pcbs : /\ p_pid = [q \in Pcbs |-> IF q = p THEN 1 ELSE 0]
                        /\ free = Pcbs \ {p} /\ currentProcess = p
  BY DEF Init
<1>2. /\ lastpid = 1 /\ p_parent = [q \in Pcbs |-> NULL] /\ ready = {} /\ blocked = {}
  BY DEF Init
<1>3. Live = {p}
  BY <1>1 DEF Live
<1>4. 1 \in 1..INT_MAX /\ lastpid \in -(INT_MAX + 1)..INT_MAX
  BY <1>2, PidAssumption
<1>5. PidTypeOK
  BY <1>1, <1>2, <1>3, <1>4, PidAssumption DEF PidTypeOK
<1>6. PidInRange /\ GreatestPid /\ UniqueBeforeWrap /\ DuplicateIsChild
  BY <1>1, <1>2, <1>3 DEF PidInRange, GreatestPid, UniqueBeforeWrap, DuplicateIsChild
<1> QED  BY <1>2, <1>4, <1>5, <1>6 DEF PidInv

-----------------------------------------------------------------------------
(* allocPid *)

CanCreate == PidInv /\ NoOverflow /\ currentProcess # NULL /\ lastpid < MaxLastPid

\* The values that allocPid tries.
Tried(m) == findPcb(PidOf(Wrap(lastpid + m)))

\* allocPid tries numbers that fit an int.
LEMMA TriedRange ==
  ASSUME CanCreate, NEW m \in 1..Span
  PROVE  lastpid + m \in 2..INT_MAX
BY PidAssumption DEF CanCreate, PidInv, NoOverflow, Span

\* The caller is not in a queue, so the queued processes have fewer PIDs than
\* there are: one of those that allocPid tries is not found.
LEMMA SomePidFree ==
  ASSUME CanCreate
  PROVE  \E m \in 1..Span : Tried(m) = {}
<1> SUFFICES ASSUME \A m \in 1..Span : Tried(m) # {}
             PROVE  FALSE
  OBVIOUS
<1> DEFINE Q == ready \cup blocked
           f == [m \in 1..Span |-> CHOOSE q \in Q : q \in Tried(m)]
<1>1. Span \in Nat \ {0}
  BY PidAssumption DEF Span
<1>2. IsFiniteSet(1..Span) /\ Cardinality(1..Span) = Span
  BY <1>1, FS_Interval
<1>3. IsFiniteSet(Q) /\ Cardinality(Q) < Span
  <2>1. Q \subseteq Pcbs \ {currentProcess} /\ currentProcess \in Pcbs
    BY DEF CanCreate, PidInv, PidTypeOK, Live
  <2>2. IsFiniteSet(Pcbs) /\ Cardinality(Pcbs) <= Span
    BY PidAssumption
  <2>3. /\ IsFiniteSet(Pcbs \ {currentProcess})
        /\ Cardinality(Pcbs \ {currentProcess}) = Cardinality(Pcbs) - 1
    BY <2>1, <2>2, FS_RemoveElement
  <2>4. IsFiniteSet(Q) /\ Cardinality(Q) <= Cardinality(Pcbs \ {currentProcess})
    BY <2>1, <2>3, FS_Subset
  <2>5. Cardinality(Pcbs) \in Nat /\ Cardinality(Q) \in Nat
    BY <2>2, <2>4, FS_CardinalityType
  <2> QED  BY <1>1, <2>2, <2>3, <2>4, <2>5
<1>4. \A m \in 1..Span : f[m] \in Q /\ f[m] \in Tried(m)
  BY DEF Tried, findPcb
<1>5. f \in [1..Span -> Q]
  BY <1>4
<1> HIDE DEF f, Q
<1>6. PICK x, y \in 1..Span : x # y /\ f[x] = f[y]
  BY <1>2, <1>3, <1>5, FS_PigeonHole
<1>7. PidOf(Wrap(lastpid + x)) = PidOf(Wrap(lastpid + y))
  BY <1>4, <1>6 DEF Tried, findPcb
<1> DEFINE a == lastpid + x
           b == lastpid + y
<1>8. a \in 2..INT_MAX /\ b \in 2..INT_MAX /\ a # b /\ a - b < Span /\ b - a < Span
  <2>1. lastpid \in Int
    BY DEF CanCreate, PidInv
  <2> QED  BY <1>1, <1>6, <2>1, TriedRange
<1> HIDE DEF a, b
<1>9. (a - 2) % Span = (b - 2) % Span
  <2>1. Wrap(a) = a /\ PidOf(a) = 2 + ((a - 2) % Span) /\ Wrap(b) = b /\ PidOf(b) = 2 + ((b - 2) % Span)
    BY <1>8, PidValue
  <2>2. PidOf(a) = PidOf(b)
    BY <1>7, <2>1 DEF a, b
  <2>3. (a - 2) % Span \in Int /\ (b - 2) % Span \in Int
    BY <1>1, <1>8
  <2> QED  BY <2>1, <2>2, <2>3
<1>10. CASE a < b
  <2>1. a - 2 \in Int /\ b - 2 \in Int /\ a - 2 < b - 2 /\ (b - 2) - (a - 2) < Span
    BY <1>8, <1>10
  <2> QED  BY <1>1, <1>9, <2>1, ModDistinct
<1>11. CASE b < a
  <2>1. a - 2 \in Int /\ b - 2 \in Int /\ b - 2 < a - 2 /\ (a - 2) - (b - 2) < Span
    BY <1>8, <1>11
  <2> QED  BY <1>1, <1>9, <2>1, ModDistinct
<1> QED  BY <1>8, <1>10, <1>11

\* The PID that allocPid returns is in the range and is not found.
LEMMA AllocPidFresh ==
  ASSUME CanCreate
  PROVE  /\ Advances \in 1..Span
         /\ Wrap(lastpid + Advances) = lastpid + Advances
         /\ lastpid + Advances \in 2..INT_MAX
         /\ AllocPid = PidOf(lastpid + Advances)
         /\ AllocPid \in PID_MIN..PID_MAX
         /\ findPcb(AllocPid) = {}
<1> DEFINE Stop(n) == /\ n = Span \/ Tried(n) = {}
                      /\ \A m \in 1..(n - 1) : Tried(m) # {}
<1>1. Span \in Nat \ {0} /\ PID_MIN = 2
  BY PidAssumption DEF Span
<1>2. PICK k \in 1..Span : Tried(k) = {} /\ \A m \in 1..Span : Tried(m) = {} => k <= m
  <2> DEFINE T == {m \in 1..Span : Tried(m) = {}}
  <2>1. T \in SUBSET Nat /\ T # {}
    BY SomePidFree
  <2> HIDE DEF T
  <2>2. PICK n \in T : \A m \in T : n <= m
    BY <2>1, LeastNumber
  <2> QED  BY <2>2 DEF T
<1>3. Stop(k)
  BY <1>1, <1>2
<1>4. Advances \in 1..Span /\ Stop(Advances)
  <2>1. Advances = CHOOSE n \in 1..Span : Stop(n)
    BY DEF Advances, Tried
  <2> HIDE DEF Stop
  <2> QED  BY <1>3, <2>1
<1>5. Tried(Advances) = {}
  <2>1. CASE Advances = Span
    <3>1. ~(k < Advances)
      BY <1>1, <1>2, <1>4
    <3>2. k = Advances
      BY <1>1, <1>4, <2>1, <3>1
    <3> QED  BY <1>2, <3>2
  <2>2. CASE Advances # Span
    BY <1>4, <2>2
  <2> QED  BY <2>1, <2>2
<1>6. lastpid + Advances \in 2..INT_MAX
  BY <1>4, TriedRange
<1>7. Wrap(lastpid + Advances) = lastpid + Advances /\ PidOf(lastpid + Advances) \in PID_MIN..PID_MAX
  BY <1>6, PidValue
<1>8. findPcb(PidOf(lastpid + Advances)) = {}
  BY <1>5, <1>7 DEF Tried
<1>9. AllocPid = PidOf(lastpid + Advances)
  BY <1>7, <1>8 DEF AllocPid
<1> QED  BY <1>4, <1>6, <1>7, <1>8, <1>9

-----------------------------------------------------------------------------
(* Steps *)

\* NSYS1 gives a PID that no process in a queue has.
LEMMA CreateInv ==
  ASSUME PidInv, NoOverflow, CreateProcess
  PROVE  PidInv'
<1>1. CanCreate
  BY DEF CanCreate, CreateProcess
<1> DEFINE n == lastpid + Advances
           pid == AllocPid
<1>2. /\ Advances \in 1..Span /\ n \in 2..INT_MAX /\ lastpid' = n
      /\ pid = PidOf(n) /\ pid \in PID_MIN..PID_MAX /\ findPcb(pid) = {}
      /\ lastpid \in 1..INT_MAX /\ lastpid < n
  <2>1. lastpid' = Wrap(n)
    BY DEF CreateProcess
  <2>2. lastpid \in 1..INT_MAX
    BY DEF PidInv
  <2>3. Span \in Nat
    BY PidAssumption DEF Span
  <2> QED  BY <1>1, <2>1, <2>2, <2>3, AllocPidFresh
<1>3. /\ PID_MIN = 2 /\ PID_MAX \in Nat /\ INT_MAX \in Nat /\ NULL \notin Pcbs
      /\ (n <= PID_MAX => pid = n)
  BY <1>2, PidAssumption, PidValue
<1> HIDE DEF n, pid
<1>4. UNCHANGED <<blocked, currentProcess>> /\ currentProcess # NULL
  BY DEF CreateProcess
<1>t. PidTypeOK
  BY DEF PidInv
<1>5. CASE free = {} /\ UNCHANGED <<p_pid, p_parent, free, ready>>
  <2>1. PidTypeOK'
    BY <1>2, <1>3, <1>4, <1>5, <1>t DEF PidTypeOK, Live
  <2>2. PidInRange' /\ GreatestPid' /\ UniqueBeforeWrap' /\ DuplicateIsChild'
    <3>1. Live' = Live /\ p_pid \in [Pcbs -> Int] /\ Live \subseteq Pcbs
      BY <1>5, <1>t DEF Live, PidTypeOK
    <3> QED  BY <1>2, <1>3, <1>5, <3>1 DEF PidInv, PidInRange, GreatestPid, UniqueBeforeWrap, DuplicateIsChild
  <2> QED  BY <1>2, <2>1, <2>2 DEF PidInv
<1>6. ASSUME NEW p \in free,
             free' = free \ {p},
             p_pid' = [p_pid EXCEPT ![p] = pid],
             p_parent' = [p_parent EXCEPT ![p] = currentProcess],
             ready' = ready \cup {p}
      PROVE  PidInv'
  <2>1. /\ p \in Pcbs /\ Live' = Live \cup {p} /\ p \notin Live /\ Live \subseteq Pcbs
        /\ currentProcess \in Live /\ p \notin ready \cup blocked
    BY <1>4, <1>6, <1>t DEF PidTypeOK, Live
  <2>2. /\ p_pid'[p] = pid /\ \A q \in Live : p_pid'[q] = p_pid[q] /\ p_pid[q] \in Int
        /\ p_parent'[p] = currentProcess /\ \A q \in Live : p_parent'[q] = p_parent[q]
    BY <1>6, <1>t, <2>1 DEF PidTypeOK
  <2>3. PidTypeOK'
    <3>1. p_pid' \in [Pcbs -> Int] /\ lastpid' \in -(INT_MAX + 1)..INT_MAX
      BY <1>2, <1>3, <1>6, <1>t DEF PidTypeOK
    <3>2. p_parent' \in [Pcbs -> Live' \cup {NULL}]
      BY <1>6, <1>t, <2>1 DEF PidTypeOK
    <3>3. free' \subseteq Pcbs /\ Live' = ready' \cup blocked' \cup {currentProcess'}
      BY <1>4, <1>6, <1>t, <2>1 DEF PidTypeOK
    <3>4. ready' \cap blocked' = {} /\ currentProcess' \notin ready' \cup blocked' \cup free'
      BY <1>4, <1>6, <1>t, <2>1 DEF PidTypeOK, Live
    <3> QED  BY <1>4, <3>1, <3>2, <3>3, <3>4 DEF PidTypeOK
  <2>4. PidInRange'
    BY <1>2, <2>1, <2>2 DEF PidInv, PidInRange
  <2>5. ASSUME n <= PID_MAX PROVE \A q \in Live : p_pid[q] < n
    BY <1>2, <1>3, <2>2, <2>5 DEF PidInv, GreatestPid
  <2>6. GreatestPid'
    BY <1>2, <1>3, <2>1, <2>2, <2>5 DEF GreatestPid
  <2>7. UniqueBeforeWrap'
    <3> SUFFICES ASSUME n <= PID_MAX, NEW q \in Live', NEW r \in Live', p_pid'[q] = p_pid'[r]
                 PROVE  q = r
      BY <1>2 DEF UniqueBeforeWrap
    <3>1. CASE q \in Live /\ r \in Live
      BY <1>2, <1>3, <2>2, <3>1 DEF PidInv, UniqueBeforeWrap
    <3>2. CASE q = p \/ r = p
      BY <1>2, <1>3, <2>1, <2>2, <2>5, <3>2
    <3> QED  BY <2>1, <3>1, <3>2
  <2>8. ASSUME NEW q \in Live, p_pid[q] = pid PROVE q = currentProcess
    BY <1>2, <1>t, <2>8 DEF findPcb, PidTypeOK
  <2>9. DuplicateIsChild'
    <3> SUFFICES ASSUME NEW q \in Live', NEW r \in Live', q # r, p_pid'[q] = p_pid'[r]
                 PROVE  p_parent'[q] = r \/ p_parent'[r] = q
      BY DEF DuplicateIsChild
    <3>1. CASE q \in Live /\ r \in Live
      BY <2>2, <3>1 DEF PidInv, DuplicateIsChild
    <3>2. CASE q = p \/ r = p
      BY <2>1, <2>2, <2>8, <3>2
    <3> QED  BY <2>1, <3>1, <3>2
  <2> QED  BY <1>2, <2>3, <2>4, <2>6, <2>7, <2>9 DEF PidInv
<1>7. pid # -1
  BY <1>2, <1>3
<1> QED  BY <1>5, <1>6, <1>7 DEF CreateProcess, pid

\* kill(p) takes all the descendants of p along.
LEMMA ProgenyClosed ==
  ASSUME NEW p \in Pcbs
  PROVE  /\ Progeny(p) \subseteq Pcbs
         /\ p \in Progeny(p)
         /\ \A c \in Pcbs : p_parent[c] \in Progeny(p) => c \in Progeny(p)
<1>1. \A c \in Pcbs : p_parent[c] \in Progeny(p) => c \in Progeny(p)
  <2> SUFFICES ASSUME NEW c \in Pcbs, p_parent[c] \in Progeny(p), NEW S \in SUBSET Pcbs,
                      p \in S, \A d \in Pcbs : p_parent[d] \in S => d \in S
               PROVE  c \in S
    BY DEF Progeny
  <2>1. p_parent[c] \in S
    BY DEF Progeny
  <2> QED  BY <2>1
<1> QED  BY <1>1 DEF Progeny

\* NSYS2 frees PCBs, and keeps the PIDs of the others.
LEMMA TerminateInv ==
  ASSUME PidInv, TerminateProcess
  PROVE  PidInv'
<1>t. PidTypeOK
  BY DEF PidInv
<1>1. PICK p \in Pcbs :
        /\ p_parent' = [q \in Pcbs |-> IF q \in Progeny(p) THEN NULL ELSE p_parent[q]]
        /\ free' = free \cup Progeny(p)
        /\ ready' = ready \ Progeny(p) /\ blocked' = blocked \ Progeny(p)
        /\ currentProcess' = IF currentProcess \in Progeny(p) THEN NULL ELSE currentProcess
  BY <1>t DEF TerminateProcess, findPcb, PidTypeOK, Live
<1> DEFINE gone == Progeny(p)
<1>2. /\ gone \subseteq Pcbs /\ NULL \notin gone
      /\ \A c \in Pcbs : p_parent[c] \in gone => c \in gone
  BY ProgenyClosed, PidAssumption
<1> HIDE DEF gone
<1>3. UNCHANGED <<lastpid, p_pid>> /\ currentProcess # NULL
  BY DEF TerminateProcess
<1>4. Live' = Live \ gone /\ Live \subseteq Pcbs
  BY <1>1, <1>t DEF gone, Live, PidTypeOK
<1>5. \A q \in Live' : p_parent'[q] = p_parent[q]
  BY <1>1, <1>4 DEF gone
<1>6. PidTypeOK'
  <2>1. p_parent' \in [Pcbs -> Live' \cup {NULL}]
    BY <1>1, <1>2, <1>4, <1>t DEF gone, PidTypeOK
  <2>2. free' \subseteq Pcbs
    BY <1>1, <1>2, <1>t DEF gone, PidTypeOK
  <2>3. ready' \cap blocked' = {} /\ currentProcess' \notin ready' \cup blocked' \cup free'
    BY <1>1, <1>2, <1>3, <1>t, PidAssumption DEF gone, PidTypeOK, Live
  <2>4. Live' = ready' \cup blocked' \cup (IF currentProcess' = NULL THEN {} ELSE {currentProcess'})
    BY <1>1, <1>3, <1>4, <1>t DEF gone, PidTypeOK
  <2> QED  BY <1>3, <1>t, <2>1, <2>2, <2>3, <2>4 DEF PidTypeOK
<1>7. PidInRange' /\ GreatestPid' /\ UniqueBeforeWrap'
  BY <1>3, <1>4 DEF PidInv, PidInRange, GreatestPid, UniqueBeforeWrap
<1>8. DuplicateIsChild'
  BY <1>3, <1>4, <1>5 DEF PidInv, DuplicateIsChild
<1> QED  BY <1>3, <1>6, <1>7, <1>8 DEF PidInv

\* The other steps move a live process from one place to another.
LEMMA MoveInv ==
  ASSUME PidInv, Deschedule \/ Dispatch \/ Wake \/ UNCHANGED vars
  PROVE  PidInv'
<1>t. PidTypeOK
  BY DEF PidInv
<1>1. UNCHANGED <<lastpid, p_pid, p_parent, free>>
  BY DEF Deschedule, Dispatch, Wake, vars
<1>2. PidTypeOK'
  <2>1. Live' = Live
    BY <1>1 DEF Live
  <2>2. CASE Deschedule
    BY <1>1, <1>t, <2>1, <2>2, PidAssumption DEF PidTypeOK, Deschedule, Live
  <2>3. CASE Dispatch
    BY <1>1, <1>t, <2>1, <2>3, PidAssumption DEF PidTypeOK, Dispatch, Live
  <2>4. CASE Wake
    BY <1>1, <1>t, <2>1, <2>4 DEF PidTypeOK, Wake, Live
  <2>5. CASE UNCHANGED vars
    BY <1>t, <2>1, <2>5 DEF PidTypeOK, vars
  <2> QED  BY <2>2, <2>3, <2>4, <2>5
<1>3. PidInRange' /\ GreatestPid' /\ UniqueBeforeWrap' /\ DuplicateIsChild'
  BY <1>1 DEF PidInv, PidInRange, GreatestPid, UniqueBeforeWrap, DuplicateIsChild, Live
<1> QED  BY <1>1, <1>2, <1>3 DEF PidInv

\* PidInv always holds.
LEMMA PidAlways == NoOverflow => (Spec => []PidInv)
<1> SUFFICES ASSUME NoOverflow PROVE Spec => []PidInv
  OBVIOUS
<1>1. PidInv /\ [Next]_vars => PidInv'
  BY CreateInv, TerminateInv, MoveInv DEF Next
<1> QED  BY <1>1, PidInit, PTL DEF Spec

-----------------------------------------------------------------------------

\* A live process is in one place, its parent is live, and no PCB is lost to a
\* PID that could not be allocated.
THEOREM PidTypeCorrect == NoOverflow => (Spec => []PidTypeOK)
<1>1. PidInv => PidTypeOK
  BY DEF PidInv
<1> QED  BY <1>1, PidAlways, PTL

\* The processes that NSYS1 makes have PIDs from PID_MIN to PID_MAX.
THEOREM PidsInRange == NoOverflow => (Spec => []PidInRange)
<1>1. PidInv => PidInRange
  BY DEF PidInv
<1> QED  BY <1>1, PidAlways, PTL

\* PIDs are unique until lastpid has gone once through the range ...
THEOREM PidsUniqueBeforeWrap == NoOverflow => (Spec => []UniqueBeforeWrap)
<1>1. PidInv => UniqueBeforeWrap
  BY DEF PidInv
<1> QED  BY <1>1, PidAlways, PTL

\* ... and shared by a parent and its child at most from then on.
THEOREM PidSharedByChild == NoOverflow => (Spec => []DuplicateIsChild)
<1>1. PidInv => DuplicateIsChild
  BY DEF PidInv
<1> QED  BY <1>1, PidAlways, PTL

\* The PID that NSYS1 returns finds the new process, and no other one.
THEOREM NewChildIsFound == NoOverflow => (Spec => ChildIsFound)
<1> SUFFICES ASSUME NoOverflow PROVE Spec => ChildIsFound
  OBVIOUS
<1> DEFINE Found(p) == {q \in ready' \cup blocked' : p_pid'[q] = p_pid'[p]}
<1>1. ASSUME PidInv, CreateProcess, NEW p \in free \ free'
      PROVE  Found(p) = {p}
  <2>1. AllocPid # -1 /\ findPcb(AllocPid) = {}
    BY <1>1, AllocPidFresh, PidAssumption DEF CanCreate, CreateProcess
  <2>2. /\ p_pid' = [p_pid EXCEPT ![p] = AllocPid]
        /\ ready' = ready \cup {p} /\ blocked' = blocked
    BY <1>1, <2>1 DEF CreateProcess
  <2>3. /\ p \notin ready \cup blocked /\ ready \cup blocked \subseteq Pcbs /\ p \in Pcbs
        /\ p_pid \in [Pcbs -> Int]
    BY <1>1 DEF PidInv, PidTypeOK, Live
  <2>4. \A q \in ready \cup blocked : p_pid'[q] = p_pid[q] /\ p_pid[q] # AllocPid
    BY <2>1, <2>2, <2>3 DEF findPcb
  <2>5. p_pid'[p] = AllocPid
    BY <2>2, <2>3
  <2> QED  BY <2>2, <2>4, <2>5
<1>2. PidInv /\ [Next]_vars =>
        [CreateProcess => \A p \in free \ free' : Found(p) = {p}]_vars
  BY <1>1
<1> QED  BY <1>2, PidAlways, PTL DEF Spec, ChildIsFound
=============================================================================
