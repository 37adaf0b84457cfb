------------------------------ MODULE Phase1Api ------------------------------
(***************************************************************************)
(* What phase1 promises to the nucleus: the free list and the queues are   *)
(* sequences of PCBs, the ASL is a function from semaphores to queues of   *)
(* which at most MAXPROC are not empty, and a process has the sequence of  *)
(* its children.  This is the view of them that Kernel takes.              *)
(***************************************************************************)
EXTENDS Integers, FiniteSets, ProcQ

CONSTANTS Pcbs, Keys, Queues,
          MAXPROC          \* number of SEMDs

VARIABLES free, held, queue, semq, children

vars == <<free, held, queue, semq, children>>

Allocated    == Pcbs \ ToSet(free)
HasParent(p) == \E r \in Pcbs : p \in ToSet(children[r])

AllocPcb ==
  /\ free # <<>>
  /\ free' = Tail(free)
  /\ held' = held \cup {Head(free)}
  /\ UNCHANGED <<queue, semq, children>>

FreePcb(p) ==
  /\ p \in held /\ children[p] = <<>> /\ ~HasParent(p)
  /\ free' = <<p>> \o free
  /\ held' = held \ {p}
  /\ UNCHANGED <<queue, semq, children>>

InsertProcQ(q, p) ==
  /\ p \in held
  /\ queue' = [queue EXCEPT ![q] = Append(@, p)]
  /\ held' = held \ {p}
  /\ UNCHANGED <<free, semq, children>>

RemoveProcQ(q) ==
  /\ queue[q] # <<>>
  /\ queue' = [queue EXCEPT ![q] = Tail(@)]
  /\ held' = held \cup {Head(queue[q])}
  /\ UNCHANGED <<free, semq, children>>

OutProcQ(q, p) ==
  /\ p \in ToSet(queue[q])
  /\ queue' = [queue EXCEPT ![q] = Without(@, p)]
  /\ held' = held \cup {p}
  /\ UNCHANGED <<free, semq, children>>

InsertBlocked(k, p) ==
  /\ p \in held
  /\ semq[k] # <<>> \/ Cardinality({j \in Keys : semq[j] # <<>>}) < MAXPROC
  /\ semq' = [semq EXCEPT ![k] = Append(@, p)]
  /\ held' = held \ {p}
  /\ UNCHANGED <<free, queue, children>>

RemoveBlocked(k) ==
  /\ semq[k] # <<>>
  /\ semq' = [semq EXCEPT ![k] = Tail(@)]
  /\ held' = held \cup {Head(semq[k])}
  /\ UNCHANGED <<free, queue, children>>

\* From whatever semaphore it is blocked on.
OutBlocked(p) ==
  /\ \E k \in Keys : p \in ToSet(semq[k]) /\ semq' = [semq EXCEPT ![k] = Without(@, p)]
  /\ held' = held \cup {p}
  /\ UNCHANGED <<free, queue, children>>

InsertChild(prnt, p) ==
  /\ prnt \in Allocated /\ p \in held /\ prnt # p
  /\ children[p] = <<>> /\ ~HasParent(p)
  /\ children' = [children EXCEPT ![prnt] = <<p>> \o @]
  /\ UNCHANGED <<free, held, queue, semq>>

RemoveChild(p) ==
  /\ children[p] # <<>>
  /\ children' = [children EXCEPT ![p] = Tail(@)]
  /\ UNCHANGED <<free, held, queue, semq>>

OutChild(p) ==
  /\ \E r \in Pcbs :
       p \in ToSet(children[r]) /\ children' = [children EXCEPT ![r] = Without(@, p)]
  /\ UNCHANGED <<free, held, queue, semq>>

Init ==
  /\ free \in SetToSeqs(Pcbs)
  /\ held = {}
  /\ queue = [q \in Queues |-> <<>>]
  /\ semq = [k \in Keys |-> <<>>]
  /\ children = [p \in Pcbs |-> <<>>]

Next ==
  \/ AllocPcb
  \/ \E p \in Pcbs : FreePcb(p) \/ RemoveChild(p) \/ OutChild(p) \/ OutBlocked(p)
  \/ \E q \in Queues : RemoveProcQ(q) \/ \E p \in Pcbs : InsertProcQ(q, p) \/ OutProcQ(q, p)
  \/ \E prnt, p \in Pcbs : InsertChild(prnt, p)
  \/ \E k \in Keys : RemoveBlocked(k) \/ \E p \in Pcbs : InsertBlocked(k, p)

Spec == Init /\ [][Next]_vars
=============================================================================
