------------------------------- MODULE Memory --------------------------------
(***************************************************************************)
(* What the Pager promises: every page of every U-proc is a word of its    *)
(* own, which changes when it is stored to and at no other time.  There    *)
(* are no frames, flash devices, page tables or TLB here.                  *)
(***************************************************************************)
EXTENDS Naturals

CONSTANTS
  PageIds,     \* <<asid, page>>
  MaxVersion   \* bound: further stores to a page are not told apart

VARIABLE mem

\* The contents of a page is the number of stores to it.
Stored(ver) == IF ver < MaxVersion THEN ver + 1 ELSE ver

MemoryInit == mem = [id \in PageIds |-> 0]

\* A store of its owner, or of the support level on behalf of its owner.
StoreTo(id) == mem' = [mem EXCEPT ![id] = Stored(@)]

MemorySpec == MemoryInit /\ [][\E id \in PageIds : StoreTo(id)]_mem
=============================================================================
