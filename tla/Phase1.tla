------------------------------- MODULE Phase1 --------------------------------
(***************************************************************************)
(* phase1: the free list of PCBs, queues of PCBs, process trees and the    *)
(* active semaphore list (ASL), on the links of listx.h.                   *)
(*                                                                         *)
(* A cell <<field, object>> is the list_head "field" of "object", so that  *)
(* container_of is the second component.  Every function of pcb.c and      *)
(* asl.c that changes a list is an action; a call that finds nothing and   *)
(* returns NULL is a stutter.  "held" is not a variable of the code: it is *)
(* the set of the PCBs in the hands of the caller (allocated, and in no    *)
(* queue), that is the PCB a call took as its argument or returned.  The   *)
(* guards on it are how phase2 uses the functions.                         *)
(***************************************************************************)
EXTENDS ListX, FiniteSets, SequencesExt

CONSTANTS
  Pcbs,            \* pcbFree_table
  Semds,           \* semd_table
  Keys,            \* addresses of semaphores
  Queues,          \* process queues that do not belong to a SEMD
  NULL

VARIABLES
  heap,            \* next and prev of every list_head
  p_parent, p_semAdd,
  s_key,
  held

vars == <<heap, p_parent, p_semAdd, s_key, held>>

\* Both tables have MAXPROC entries.
ASSUME Phase1Assumption ==
  /\ IsFiniteSet(Pcbs) /\ IsFiniteSet(Semds) /\ IsFiniteSet(Queues)
  /\ Cardinality(Pcbs) = Cardinality(Semds)
  /\ NULL \notin Pcbs \cup Semds \cup Keys

pcbFree_h  == <<"pcbFree", NULL>>
semdFree_h == <<"semdFree", NULL>>
semd_h     == <<"semd", NULL>>
procQ(q)   == <<"procQ", q>>
p_list(p)  == <<"p_list", p>>
p_child(p) == <<"p_child", p>>
p_sib(p)   == <<"p_sib", p>>
s_procq(s) == <<"s_procq", s>>
s_link(s)  == <<"s_link", s>>

Cells == {pcbFree_h, semdFree_h, semd_h} \cup {procQ(q) : q \in Queues}
         \cup {p_list(p) : p \in Pcbs} \cup {p_child(p) : p \in Pcbs} \cup {p_sib(p) : p \in Pcbs}
         \cup {s_procq(s) : s \in Semds} \cup {s_link(s) : s \in Semds}

\* The cells a list_for_each visits, in its order, until it is back at the head.  A
\* walk that would leave the heap, or not end, is cut at the number of cells.
Entries(h, head) ==
  LET from[n \in 0..Cardinality(Cells)] ==
        [c \in Cells \cup {NULL} |->
           IF n = 0 \/ c \notin Cells \ {head} THEN <<>> ELSE <<c>> \o from[n - 1][h.next[c]]]
  IN  from[Cardinality(Cells)][h.next[head]]

Owner(cell) == cell[2]
Owners(h, head) == LET cells == Entries(h, head) IN [i \in DOMAIN cells |-> Owner(cells[i])]
SetNull(h, cell) == [h EXCEPT !.next[cell] = NULL, !.prev[cell] = NULL]

-----------------------------------------------------------------------------
(* pcb.c *)

Allocated == Pcbs \ ToSet(Owners(heap, pcbFree_h))

\* phase2 frees a process without parent and children.
freePcb(p) ==
  /\ p \in held /\ p_parent[p] = NULL /\ list_empty(heap, p_child(p))
  /\ heap' = list_add(heap, p_list(p), pcbFree_h)
  /\ held' = held \ {p}
  /\ UNCHANGED <<p_parent, p_semAdd, s_key>>

allocPcb ==
  LET p == Owner(heap.next[pcbFree_h])
      h == SetNull(SetNull(list_del(heap, p_list(p)), p_list(p)), p_sib(p))
  IN  /\ ~list_empty(heap, pcbFree_h)
      /\ heap' = INIT_LIST_HEAD(h, p_child(p))
      /\ p_parent' = [p_parent EXCEPT ![p] = NULL]
      /\ p_semAdd' = [p_semAdd EXCEPT ![p] = NULL]
      /\ held' = held \cup {p}
      /\ UNCHANGED s_key

insertProcQ(q, p) ==
  /\ p \in held
  /\ heap' = list_add_tail(heap, p_list(p), procQ(q))
  /\ held' = held \ {p}
  /\ UNCHANGED <<p_parent, p_semAdd, s_key>>

headProcQ(head) == IF list_empty(heap, head) THEN NULL ELSE Owner(heap.next[head])

\* p leaves the process queue that holds it and is returned.
Unlink_M(p) == UNCHANGED heap /\ held' = held \cup {p}
Unlink(p) ==
  /\ heap' = list_del(heap, p_list(p))
  /\ held' = held \cup {p}

removeProcQ(q) ==
  /\ headProcQ(procQ(q)) # NULL
  /\ Unlink(headProcQ(procQ(q)))
  /\ UNCHANGED <<p_parent, p_semAdd, s_key>>

\* The search of outProcQ(head, p).
FoundIn(head, p) == p_list(p) \in ToSet(Entries(heap, head))

outProcQ(q, p) ==
  /\ p \in Allocated /\ FoundIn(procQ(q), p)
  /\ Unlink(p)
  /\ UNCHANGED <<p_parent, p_semAdd, s_key>>

\* phase2 gives a process its parent once, when it is new.
insertChild(prnt, p) ==
  /\ prnt \in Allocated /\ p \in held /\ prnt # p
  /\ p_parent[p] = NULL /\ list_empty(heap, p_child(p))
  /\ heap' = list_add(heap, p_sib(p), p_child(prnt))
  /\ p_parent' = [p_parent EXCEPT ![p] = prnt]
  /\ UNCHANGED <<p_semAdd, s_key, held>>

removeChild_M(p) ==
  /\ p \in Allocated /\ ~list_empty(heap, p_child(p))
  /\ heap' = list_del(heap, heap.next[p_child(p)])
  /\ UNCHANGED <<p_parent, p_semAdd, s_key, held>>
removeChild(p) ==
  /\ p \in Allocated /\ ~list_empty(heap, p_child(p))
  /\ heap' = list_del(heap, heap.next[p_child(p)])
  /\ p_parent' = [p_parent EXCEPT ![Owner(heap.next[p_child(p)])] = NULL]
  /\ UNCHANGED <<p_semAdd, s_key, held>>

outChild(p) ==
  /\ p \in Allocated /\ p_parent[p] # NULL
  /\ heap' = list_del(heap, p_sib(p))
  /\ p_parent' = [p_parent EXCEPT ![p] = NULL]
  /\ UNCHANGED <<p_semAdd, s_key, held>>

-----------------------------------------------------------------------------
(* asl.c *)

Active == Owners(heap, semd_h)

\* getSemd: the first active SEMD with that key, or NULL.
getSemd(k) ==
  LET active == Active
      hits   == {i \in DOMAIN active : s_key[active[i]] = k}
  IN  IF hits = {} THEN NULL ELSE active[CHOOSE i \in hits : \A j \in hits : i <= j]

\* allocSemd, as the heap it leaves: s, the first free SEMD, becomes the first
\* active one, with an empty queue.
allocSemd(h, s) ==
  INIT_LIST_HEAD(list_add(list_del(h, s_link(s)), s_link(s), semd_h), s_procq(s))

freeSemd_M(h, s) == h
freeSemd(h, s) == list_add(list_del(h, s_link(s)), s_link(s), semdFree_h)

\* insertProcQ in the queue of the SEMD s, whose key is k.
Block_M(h, s, k, p) ==
  /\ heap' = list_add_tail(h, p_list(p), s_procq(s))
  /\ p_semAdd' = [p_semAdd EXCEPT ![p] = s]
  /\ held' = held \ {p}
Block(h, s, k, p) ==
  /\ heap' = list_add_tail(h, p_list(p), s_procq(s))
  /\ p_semAdd' = [p_semAdd EXCEPT ![p] = k]
  /\ held' = held \ {p}

\* With neither a SEMD for k nor a free one the call returns 1.
insertBlocked_M(k, p) ==
  LET new == Owner(heap.next[semdFree_h]) IN
  /\ p \in held
  /\ ~list_empty(heap, semdFree_h)
  /\ s_key' = [s_key EXCEPT ![new] = k] /\ Block(allocSemd(heap, new), new, k, p)
  /\ UNCHANGED p_parent
insertBlocked(k, p) ==
  LET s   == getSemd(k)
      new == Owner(heap.next[semdFree_h])
  IN  /\ p \in held
      /\ \/ s # NULL /\ Block(heap, s, k, p) /\ UNCHANGED s_key
         \/ /\ s = NULL /\ ~list_empty(heap, semdFree_h)
            /\ s_key' = [s_key EXCEPT ![new] = k] /\ Block(allocSemd(heap, new), new, k, p)
      /\ UNCHANGED p_parent

\* What removeBlocked and outBlocked do once they have p and its SEMD.
Unblock(s, p) ==
  LET h == list_del(heap, p_list(p)) IN
  /\ heap' = IF list_empty(h, s_procq(s)) THEN freeSemd(h, s) ELSE h
  /\ p_semAdd' = [p_semAdd EXCEPT ![p] = NULL]
  /\ held' = held \cup {p}
  /\ UNCHANGED <<p_parent, s_key>>

removeBlocked(k) ==
  LET s == getSemd(k) IN
  /\ s # NULL /\ headProcQ(s_procq(s)) # NULL
  /\ Unblock(s, headProcQ(s_procq(s)))

outBlocked(p) ==
  LET s == getSemd(p_semAdd[p]) IN
  /\ p \in Allocated
  /\ s # NULL /\ FoundIn(s_procq(s), p)
  /\ Unblock(s, p)

-----------------------------------------------------------------------------

\* Cells in static storage; the sentinels and the process queues are initialised.
Blank ==
  LET heads == {pcbFree_h, semdFree_h, semd_h} \cup {procQ(q) : q \in Queues}
      self  == [c \in Cells |-> IF c \in heads THEN c ELSE NULL]
  IN  [next |-> self, prev |-> self]

\* The arrays, in their order.
initPcbs(h, table) ==
  LET after[n \in 0..Len(table)] ==
        IF n = 0 THEN h ELSE list_add(after[n - 1], p_list(table[n]), pcbFree_h)
  IN  after[Len(table)]
initASL(h, table) ==
  LET after[n \in 0..Len(table)] ==
        IF n = 0 THEN h ELSE list_add(after[n - 1], s_link(table[n]), semdFree_h)
  IN  after[Len(table)]

Init ==
  /\ \E pcbFree_table \in SetToSeqs(Pcbs), semd_table \in SetToSeqs(Semds) :
       heap = initASL(initPcbs(Blank, pcbFree_table), semd_table)
  /\ p_parent = [p \in Pcbs |-> NULL]
  /\ p_semAdd = [p \in Pcbs |-> NULL]
  /\ s_key = [s \in Semds |-> NULL]
  /\ held = {}

Next ==
  \/ allocPcb
  \/ \E p \in Pcbs : freePcb(p) \/ removeChild(p) \/ outChild(p) \/ outBlocked(p)
  \/ \E q \in Queues : removeProcQ(q) \/ \E p \in Pcbs : insertProcQ(q, p) \/ outProcQ(q, p)
  \/ \E prnt, p \in Pcbs : insertChild(prnt, p)
  \/ \E k \in Keys : removeBlocked(k) \/ \E p \in Pcbs : insertBlocked(k, p)

Spec == Init /\ [][Next]_vars
=============================================================================
