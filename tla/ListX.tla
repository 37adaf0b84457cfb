-------------------------------- MODULE ListX --------------------------------
(***************************************************************************)
(* listx.h: circular, doubly linked, intrusive lists.                      *)
(*                                                                         *)
(* A heap is a record [next, prev] of two functions over the list_head's   *)
(* of the program.  A function of listx.h is an operator from the heap it  *)
(* is called in to the heap it leaves; its assignments are the parts of an *)
(* EXCEPT, in the order of the code.                                       *)
(***************************************************************************)
EXTENDS Integers, Sequences

\* The assignments of __list_add.
Link(h, new, prev, next) ==
  [h EXCEPT !.prev[next] = new, !.next[new] = next, !.prev[new] = prev, !.next[prev] = new]

INIT_LIST_HEAD(h, list) == [h EXCEPT !.next[list] = list, !.prev[list] = list]

list_add(h, new, head) == Link(h, new, head, h.next[head])
list_add_tail_M(h, new, head) == Link(h, new, head, h.next[head])
list_add_tail(h, new, head) == Link(h, new, h.prev[head], head)

list_del_M(h, entry) == [h EXCEPT !.next[h.prev[entry]] = h.next[entry]]
list_del(h, entry) ==
  [h EXCEPT !.prev[h.next[entry]] = h.prev[entry], !.next[h.prev[entry]] = h.next[entry]]

list_empty(h, head) == h.next[head] = head
=============================================================================
