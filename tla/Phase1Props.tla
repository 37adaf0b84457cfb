----------------------------- MODULE Phase1Props ------------------------------
(***************************************************************************)
(* Phase1 implements Phase1Api, and why: the invariants of its links.      *)
(***************************************************************************)
EXTENDS Phase1

FreePcbs  == Owners(heap, pcbFree_h)
FreeSemds == Owners(heap, semdFree_h)
Queue(k)  == LET s == getSemd(k) IN IF s = NULL THEN <<>> ELSE Owners(heap, s_procq(s))

\* Heads that are lists at the moment, the sentinels of free objects excluded.
Heads == {pcbFree_h, semdFree_h, semd_h} \cup {procQ(q) : q \in Queues}
         \cup {p_child(p) : p \in Allocated} \cup {s_procq(s) : s \in ToSet(Active)}

\* The links point to cells or to nowhere; the fields to objects or to NULL.
Phase1TypeOK ==
  /\ heap \in [next : [Cells -> Cells \cup {NULL}], prev : [Cells -> Cells \cup {NULL}]]
  /\ p_parent \in [Pcbs -> Pcbs \cup {NULL}]
  /\ p_semAdd \in [Pcbs -> Keys \cup {NULL}]
  /\ s_key \in [Semds -> Keys \cup {NULL}]
  /\ held \subseteq Pcbs

\* Every list is a circle that prev walks backwards, whatever sequence of
\* insertions and removals, from either end and from the middle, made it.
Circular ==
  \A h \in Heads :
    LET cells == <<h>> \o Entries(heap, h)
        n     == Len(cells)
    IN  /\ \A i \in 1..n : heap.next[cells[i]] = cells[(i % n) + 1]
        /\ \A i \in 1..n : heap.prev[cells[(i % n) + 1]] = cells[i]

\* A PCB has one p_list: it is in one place only.  phase2 relies on it when it
\* moves a process from a queue to another.
OnePlace ==
  \A p \in Pcbs :
    Cardinality({h \in Heads : p_list(p) \in ToSet(Entries(heap, h))})
      = IF p \in held THEN 0 ELSE 1

\* The SEMDs are shared out between the two lists; an active one has processes
\* in its queue and a key of its own.  removeBlocked dereferences the head of
\* the queue of any active SEMD, and getSemd stops at the first with the key.
AslSound ==
  /\ ToSet(Active) \cap ToSet(FreeSemds) = {}
  /\ ToSet(Active) \cup ToSet(FreeSemds) = Semds
  /\ \A s \in ToSet(Active) : ~list_empty(heap, s_procq(s))
  /\ \A s, t \in ToSet(Active) : s_key[s] = s_key[t] => s = t

\* p_semAdd is the key of the queue a process is in, and p_parent the process
\* in whose list of children it is: the back pointers agree with the lists.
BackPointers ==
  /\ \A p \in Pcbs, k \in Keys : p_semAdd[p] = k <=> p \in ToSet(Queue(k))
  /\ \A p \in Pcbs, r \in Allocated :
       p_parent[p] = r <=> p_sib(p) \in ToSet(Entries(heap, p_child(r)))

\* insertBlocked never fails: a SEMD is free for every process the caller holds,
\* so semSuspend of phase2 never panics.
SemdForEveryProcess == held # {} => ~list_empty(heap, semdFree_h)

Api == INSTANCE Phase1Api WITH
  free     <- FreePcbs,
  queue    <- [q \in Queues |-> Owners(heap, procQ(q))],
  semq     <- [k \in Keys |-> Queue(k)],
  children <- [p \in Pcbs |-> IF p \in Allocated THEN Owners(heap, p_child(p)) ELSE <<>>],
  MAXPROC  <- Cardinality(Semds)

\* The linked lists implement the sequences and functions of Phase1Api.
ImplementsApi == Api!Spec
=============================================================================
