------------------------------ MODULE MCPhase1 -------------------------------
EXTENDS Phase1Props

Symmetry == {a @@ b @@ c : a \in Permutations(Pcbs), b \in Permutations(Semds),
                           c \in Permutations(Keys)}

\* The state without the stale links of cells in no list and the stale keys of
\* free SEMDs: list_del and freeSemd leave them behind and nothing reads them.
Linked == UNION {ToSet(Entries(heap, h)) \cup {h} : h \in Heads}
View == <<[c \in Linked |-> <<heap.next[c], heap.prev[c]>>], p_parent, p_semAdd,
          [s \in ToSet(Active) |-> s_key[s]], held>>
=============================================================================
