---------------------------- MODULE Phase1Proofs -----------------------------
(***************************************************************************)
(* The links of phase1, for any number of PCBs, SEMDs, semaphores and      *)
(* process queues: every list is a circle, a PCB and a SEMD are where      *)
(* their fields say they are, and Phase1 implements Phase1Api.             *)
(*                                                                         *)
(* The proofs give every head the sequence of the cells of its list        *)
(* (a layout), show what the operations of listx.h do to the sequences,    *)
(* and reason about the sequences from there on.                           *)
(***************************************************************************)
EXTENDS Phase1Props, Lemmas, FiniteSetTheorems

-----------------------------------------------------------------------------
(* Circles of links *)

Heaps == [next : [Cells -> Cells \cup {NULL}], prev : [Cells -> Cells \cup {NULL}]]

\* The i-th cell of the list of head a whose entries are s, the head being cell 0
\* and the one after the last.
Cyc(a, s, i) == IF i \in 1..Len(s) THEN s[i] ELSE a

Circle(h, a, s) ==
  \A i \in 0..Len(s) : /\ h.next[Cyc(a, s, i)] = Cyc(a, s, i + 1)
                       /\ h.prev[Cyc(a, s, i + 1)] = Cyc(a, s, i)

\* No cell comes twice in a list, and the head is none of its entries.
Simple(a, s) == \A i, j \in 0..Len(s) : Cyc(a, s, i) = Cyc(a, s, j) => i = j

\* What the assignments of __list_add do.
LEMMA LinkEffect ==
  ASSUME NEW h \in Heaps, NEW new \in Cells, NEW prev \in Cells, NEW next \in Cells,
         new # prev, new # next
  PROVE  LET g == Link(h, new, prev, next) IN
         /\ g \in Heaps
         /\ \A c \in Cells : g.next[c] = IF c = new THEN next ELSE IF c = prev THEN new ELSE h.next[c]
         /\ \A c \in Cells : g.prev[c] = IF c = new THEN prev ELSE IF c = next THEN new ELSE h.prev[c]
BY DEF Link, Heaps

\* What the assignments of __list_del do.
LEMMA DelEffect ==
  ASSUME NEW h \in Heaps, NEW e \in Cells, h.prev[e] \in Cells, h.next[e] \in Cells
  PROVE  LET g == list_del(h, e) IN
         /\ g \in Heaps
         /\ \A c \in Cells : g.next[c] = IF c = h.prev[e] THEN h.next[e] ELSE h.next[c]
         /\ \A c \in Cells : g.prev[c] = IF c = h.next[e] THEN h.prev[e] ELSE h.prev[c]
BY DEF list_del, Heaps

\* Cell 0 and the cell after the last are the head.
LEMMA CycProperties ==
  ASSUME NEW a \in Cells, NEW s \in Seq(Cells)
  PROVE  /\ \A i \in Int : Cyc(a, s, i) \in Cells
         /\ Cyc(a, s, 0) = a /\ Cyc(a, s, Len(s) + 1) = a
         /\ \A i \in 1..Len(s) : Cyc(a, s, i) = s[i]
BY DEF Cyc

\* __list_add between cell k and the next makes new the cell k + 1.
LEMMA CircleAdd ==
  ASSUME NEW h \in Heaps, NEW a \in Cells, NEW s \in Seq(Cells), NEW new \in Cells,
         Circle(h, a, s), Simple(a, s), NEW k \in 0..Len(s),
         \A i \in 0..Len(s) : Cyc(a, s, i) # new,
         NEW t \in Seq(Cells), Len(t) = Len(s) + 1, t[k + 1] = new,
         \A i \in 1..k : t[i] = s[i],
         \A i \in (k + 1)..Len(s) : t[i + 1] = s[i]
  PROVE  /\ Circle(Link(h, new, Cyc(a, s, k), Cyc(a, s, k + 1)), a, t)
         /\ Simple(a, t)
<1> DEFINE c(i) == Cyc(a, s, i)
           d(i) == Cyc(a, t, i)
           n == Len(s)
           g == Link(h, new, c(k), c(k + 1))
<1>1. n \in Nat /\ Len(t) = n + 1 /\ k \in Nat /\ k <= n
  OBVIOUS
<1>2. /\ \A i \in 0..n + 1 : c(i) \in Cells
      /\ \A i \in 0..n : c(i) # new
      /\ c(n + 1) = c(0)
  BY <1>1, CycProperties
<1>3. \A i \in 0..k : d(i) = c(i)
  BY <1>1 DEF Cyc
<1>4. d(k + 1) = new
  BY <1>1 DEF Cyc
<1>5. \A i \in (k + 1)..(n + 1) : d(i + 1) = c(i)
  BY <1>1 DEF Cyc
<1>6. /\ \A x \in Cells : g.next[x] = IF x = new THEN c(k + 1) ELSE IF x = c(k) THEN new ELSE h.next[x]
      /\ \A x \in Cells : g.prev[x] = IF x = new THEN c(k) ELSE IF x = c(k + 1) THEN new ELSE h.prev[x]
  <2>1. c(k) \in Cells /\ c(k + 1) \in Cells /\ c(k) # new /\ c(k + 1) # new
    <3>1. k + 1 \in 0..n \/ k + 1 = n + 1  BY <1>1
    <3> QED  BY <1>1, <1>2, <3>1
  <2> HIDE DEF c
  <2> QED  BY <2>1, LinkEffect
<1>7. \A i, j \in 0..n : c(i) = c(j) => i = j
  BY DEF Simple
<1>8. \A i \in 0..n : h.next[c(i)] = c(i + 1) /\ h.prev[c(i + 1)] = c(i)
  BY DEF Circle
<1> HIDE DEF c, d, g, n
<1>9. ASSUME NEW i \in 0..n + 1 PROVE g.next[d(i)] = d(i + 1) /\ g.prev[d(i + 1)] = d(i)
  <2>1. CASE i < k
    <3>1. i \in 0..n /\ i + 1 \in 0..n /\ i \in 0..k /\ i + 1 \in 0..k /\ k \in 0..n
      BY <1>1, <2>1
    <3>2. c(i) # c(k) /\ c(i) # new /\ c(i + 1) # new /\ c(i) \in Cells /\ c(i + 1) \in Cells
      BY <1>1, <1>2, <1>7, <2>1, <3>1
    <3>3. c(i + 1) # c(k + 1)
      <4>1. CASE k + 1 = n + 1  BY <1>1, <1>2, <1>7, <2>1, <3>1, <4>1
      <4>2. CASE k + 1 \in 0..n  BY <1>1, <1>7, <2>1, <3>1, <4>2
      <4> QED  BY <1>1, <4>1, <4>2
    <3> QED  BY <1>3, <1>6, <1>8, <3>1, <3>2, <3>3
  <2>2. CASE i = k
    <3>1. k \in 0..k /\ k \in 0..n  BY <1>1
    <3> QED  BY <1>2, <1>3, <1>4, <1>6, <2>2, <3>1
  <2>3. CASE i = k + 1
    <3>1. k + 1 \in (k + 1)..(n + 1) /\ k + 1 \in 0..n + 1  BY <1>1
    <3>2. d(i) = new /\ d(i + 1) = c(k + 1) /\ c(k + 1) \in Cells  BY <1>2, <1>4, <1>5, <2>3, <3>1
    <3>3. c(k + 1) # new
      <4>1. k + 1 \in 0..n \/ k + 1 = n + 1  BY <1>1
      <4> QED  BY <1>1, <1>2, <4>1
    <3> QED  BY <1>6, <3>2, <3>3
  <2>4. CASE i > k + 1
    <3>1. PICK j \in (k + 1)..n : i = j + 1
      <4>1. i - 1 \in (k + 1)..n /\ i = (i - 1) + 1  BY <1>1, <2>4
      <4> QED  BY <4>1
    <3>2. j \in 0..n /\ j \in (k + 1)..(n + 1) /\ j + 1 \in (k + 1)..(n + 1) /\ k \in 0..n /\ j > k
      BY <1>1, <3>1
    <3>3. d(i) = c(j) /\ d(i + 1) = c(j + 1)  BY <1>5, <3>1, <3>2
    <3>4. c(j) # c(k) /\ c(j) # new /\ c(j) \in Cells  BY <1>2, <1>7, <3>2
    <3>5. c(j + 1) # c(k + 1) /\ c(j + 1) # new /\ c(j + 1) \in Cells
      <4>1. k + 1 \in 0..n /\ k + 1 # 0  BY <1>1, <3>2
      <4>2. CASE j + 1 = n + 1
        BY <1>1, <1>2, <1>7, <4>1, <4>2
      <4>3. CASE j + 1 \in 0..n
        BY <1>1, <1>2, <1>7, <3>2, <4>1, <4>3
      <4> QED  BY <1>1, <3>2, <4>2, <4>3
    <3> QED  BY <1>6, <1>8, <3>2, <3>3, <3>4, <3>5
  <2> QED  BY <1>1, <2>1, <2>2, <2>3, <2>4
<1>10. ASSUME NEW i \in 0..n + 1, NEW j \in 0..n + 1, d(i) = d(j) PROVE i = j
  <2> DEFINE old(x) == IF x <= k THEN x ELSE x - 1
  <2>1. \A x \in 0..n + 1 : x # k + 1 => old(x) \in 0..n /\ d(x) = c(old(x))
    <3> SUFFICES ASSUME NEW x \in 0..n + 1, x # k + 1 PROVE old(x) \in 0..n /\ d(x) = c(old(x))
      OBVIOUS
    <3>1. CASE x <= k  BY <1>1, <1>3, <3>1
    <3>2. CASE x > k + 1
      <4>1. x - 1 \in (k + 1)..(n + 1) /\ x = (x - 1) + 1 /\ x - 1 \in 0..n  BY <1>1, <3>2
      <4> QED  BY <1>1, <1>5, <3>2, <4>1
    <3> QED  BY <1>1, <3>1, <3>2
  <2>2. \A x, y \in 0..n + 1 : x # k + 1 /\ y # k + 1 /\ old(x) = old(y) => x = y
    BY <1>1
  <2> HIDE DEF old
  <2>3. CASE i # k + 1 /\ j # k + 1
    <3>1. /\ old(i) \in 0..n /\ old(j) \in 0..n
          /\ d(i) = c(old(i)) /\ d(j) = c(old(j))
      BY <2>1, <2>3
    <3>2. old(i) = old(j)
      BY <1>7, <1>10, <3>1
    <3> QED  BY <2>2, <2>3, <3>2
  <2>4. CASE i = k + 1 /\ j # k + 1
    <3>1. old(j) \in 0..n /\ d(j) = c(old(j))
      BY <2>1, <2>4
    <3>2. d(i) = new
      BY <1>4, <2>4
    <3> QED  BY <1>2, <1>10, <3>1, <3>2
  <2>5. CASE i # k + 1 /\ j = k + 1
    <3>1. old(i) \in 0..n /\ d(i) = c(old(i))
      BY <2>1, <2>5
    <3>2. d(j) = new
      BY <1>4, <2>5
    <3> QED  BY <1>2, <1>10, <3>1, <3>2
  <2> QED  BY <2>3, <2>4, <2>5
<1> QED
  BY <1>1, <1>9, <1>10 DEF c, d, g, n, Circle, Simple
\* __list_del takes the cell k out.
LEMMA CircleDel ==
  ASSUME NEW h \in Heaps, NEW a \in Cells, NEW s \in Seq(Cells),
         Circle(h, a, s), Simple(a, s), NEW k \in 1..Len(s),
         NEW t \in Seq(Cells), Len(t) = Len(s) - 1,
         \A i \in 1..(k - 1) : t[i] = s[i],
         \A i \in k..(Len(s) - 1) : t[i] = s[i + 1]
  PROVE  /\ Circle(list_del(h, s[k]), a, t)
         /\ Simple(a, t)
<1> DEFINE c(i) == Cyc(a, s, i)
           d(i) == Cyc(a, t, i)
           n == Len(s)
           g == list_del(h, s[k])
<1>1. n \in Nat /\ Len(t) = n - 1 /\ k \in Nat /\ 1 <= k /\ k <= n
  OBVIOUS
<1>2. /\ \A i \in 0..n + 1 : c(i) \in Cells
      /\ c(n + 1) = c(0) /\ c(k) = s[k]
  BY <1>1, CycProperties
<1>3. \A i \in 0..(k - 1) : d(i) = c(i)
  BY <1>1 DEF Cyc
<1>4. \A i \in k..n : d(i) = c(i + 1)
  BY <1>1 DEF Cyc
<1>5. \A i \in 0..n : h.next[c(i)] = c(i + 1) /\ h.prev[c(i + 1)] = c(i)
  BY DEF Circle
<1>6. \A i, j \in 0..n : c(i) = c(j) => i = j
  BY DEF Simple
<1> HIDE DEF c, d, n
<1>7. /\ \A x \in Cells : g.next[x] = IF x = c(k - 1) THEN c(k + 1) ELSE h.next[x]
      /\ \A x \in Cells : g.prev[x] = IF x = c(k + 1) THEN c(k - 1) ELSE h.prev[x]
  <2>1. k - 1 \in 0..n /\ (k - 1) + 1 = k /\ k \in 0..n /\ k \in 0..n + 1 /\ k - 1 \in 0..n + 1 /\ k + 1 \in 0..n + 1
    BY <1>1
  <2>2. h.prev[c(k)] = c(k - 1) /\ h.next[c(k)] = c(k + 1)
    BY <1>5, <2>1
  <2>3. c(k) \in Cells /\ c(k - 1) \in Cells /\ c(k + 1) \in Cells
    BY <1>2, <2>1
  <2> QED  BY <1>2, <2>2, <2>3, DelEffect
<1> HIDE DEF g
<1>8. ASSUME NEW i \in 0..n - 1 PROVE g.next[d(i)] = d(i + 1) /\ g.prev[d(i + 1)] = d(i)
  <2>1. CASE i < k - 1
    <3>1. i \in 0..n /\ i + 1 \in 0..(k - 1) /\ i \in 0..(k - 1) /\ k - 1 \in 0..n /\ i + 1 \in 0..n
      BY <1>1, <2>1
    <3>2. d(i) = c(i) /\ d(i + 1) = c(i + 1) /\ c(i) \in Cells /\ c(i + 1) \in Cells
      BY <1>1, <1>2, <1>3, <3>1
    <3>3. c(i) # c(k - 1)  BY <1>1, <1>6, <2>1, <3>1
    <3>4. c(i + 1) # c(k + 1)
      <4>1. CASE k = n  BY <1>1, <1>2, <1>6, <2>1, <3>1, <4>1
      <4>2. CASE k + 1 \in 0..n  BY <1>1, <1>6, <2>1, <3>1, <4>2
      <4> QED  BY <1>1, <4>1, <4>2
    <3> QED  BY <1>5, <1>7, <3>1, <3>2, <3>3, <3>4
  <2>2. CASE i = k - 1
    <3>1. k - 1 \in 0..(k - 1) /\ k \in k..n /\ (k - 1) + 1 = k /\ k - 1 \in 0..n + 1 /\ k + 1 \in 0..n + 1
      BY <1>1
    <3>2. d(i) = c(k - 1) /\ d(i + 1) = c(k + 1) /\ c(k - 1) \in Cells /\ c(k + 1) \in Cells
      BY <1>2, <1>3, <1>4, <2>2, <3>1
    <3> QED  BY <1>7, <3>2
  <2>3. CASE i > k - 1
    <3>1. i \in k..n /\ i + 1 \in k..n /\ i + 1 \in 0..n /\ i + 2 \in 0..n + 1 /\ (i + 1) + 1 = i + 2
      BY <1>1, <2>3
    <3>2. d(i) = c(i + 1) /\ d(i + 1) = c(i + 2) /\ c(i + 1) \in Cells /\ c(i + 2) \in Cells
      BY <1>1, <1>2, <1>4, <3>1
    <3>3. c(i + 1) # c(k - 1)
      <4>1. k - 1 \in 0..n /\ k - 1 # i + 1  BY <1>1, <2>3
      <4> QED  BY <1>6, <3>1, <4>1
    <3>4. c(i + 2) # c(k + 1)
      <4>0. k + 1 \in 0..n /\ k + 1 # i + 2 /\ k + 1 # 0  BY <1>1, <2>3
      <4>1. CASE i + 2 = n + 1
        <5>1. c(i + 2) = c(0) /\ 0 \in 0..n  BY <1>1, <1>2, <4>1
        <5> QED  BY <1>6, <4>0, <5>1
      <4>2. CASE i + 2 \in 0..n  BY <1>6, <4>0, <4>2
      <4> QED  BY <1>1, <3>1, <4>1, <4>2
    <3> QED  BY <1>5, <1>7, <3>1, <3>2, <3>3, <3>4
  <2> QED  BY <1>1, <2>1, <2>2, <2>3
<1>9. ASSUME NEW i \in 0..n - 1, NEW j \in 0..n - 1, d(i) = d(j) PROVE i = j
  <2> DEFINE old(x) == IF x <= k - 1 THEN x ELSE x + 1
  <2>1. \A x \in 0..n - 1 : old(x) \in 0..n /\ d(x) = c(old(x))
    BY <1>1, <1>3, <1>4
  <2>2. \A x, y \in 0..n - 1 : old(x) = old(y) => x = y
    BY <1>1
  <2> HIDE DEF old
  <2> QED  BY <1>6, <1>9, <2>1, <2>2
<1> QED
  BY <1>1, <1>8, <1>9 DEF c, d, g, n, Circle, Simple

\* What happens to other cells leaves a list as it is.
LEMMA CircleFrame ==
  ASSUME NEW h, NEW g, NEW a \in Cells, NEW s \in Seq(Cells), Circle(h, a, s),
         \A i \in 0..Len(s) : LET x == Cyc(a, s, i) IN g.next[x] = h.next[x] /\ g.prev[x] = h.prev[x]
  PROVE  Circle(g, a, s)
<1>1. Cyc(a, s, Len(s) + 1) = Cyc(a, s, 0)
  BY DEF Cyc
<1>2. \A i \in 0..Len(s) : g.prev[Cyc(a, s, i + 1)] = h.prev[Cyc(a, s, i + 1)]
  <2> SUFFICES ASSUME NEW i \in 0..Len(s)
               PROVE g.prev[Cyc(a, s, i + 1)] = h.prev[Cyc(a, s, i + 1)]
    OBVIOUS
  <2>1. i + 1 \in 0..Len(s) \/ i + 1 = Len(s) + 1
    OBVIOUS
  <2>2. 0 \in 0..Len(s)
    OBVIOUS
  <2> QED  BY <1>1, <2>1, <2>2
<1> QED  BY <1>2 DEF Circle

-----------------------------------------------------------------------------
(* Walks *)

\* A list has fewer entries than there are cells.
LEMMA ListFits ==
  ASSUME NEW a \in Cells, NEW s \in Seq(Cells), Simple(a, s), IsFiniteSet(Cells)
  PROVE  Len(s) <= Cardinality(Cells) /\ Cardinality(Cells) \in Nat
<1>1. s \in [1..Len(s) -> Cells]
  OBVIOUS
<1>2. \A i, j \in 1..Len(s) : s[i] = s[j] => i = j
  BY DEF Simple, Cyc
<1>3. s \in Injection(1..Len(s), Cells)
  BY <1>1, <1>2 DEF Injection, IsInjective
<1>4. Cardinality(1..Len(s)) <= Cardinality(Cells)
  BY <1>3, FS_Injection
<1>5. Cardinality(1..Len(s)) = Len(s)
  <2>1. Len(s) \in Nat /\ 1 \in Int /\ Len(s) \in Int
    OBVIOUS
  <2>2. Cardinality(1..Len(s)) = IF 1 > Len(s) THEN 0 ELSE Len(s) - 1 + 1
    BY <2>1, FS_Interval
  <2> QED  BY <2>1, <2>2
<1> QED  BY <1>4, <1>5, FS_CardinalityType

\* list_for_each visits the entries of a circle, in their order.
LEMMA WalkOfCircle ==
  ASSUME NEW h \in Heaps, NEW a \in Cells, NEW s \in Seq(Cells),
         Circle(h, a, s), Simple(a, s), IsFiniteSet(Cells)
  PROVE  Entries(h, a) = s
<1> DEFINE N == Cardinality(Cells)
           Targets == Cells \cup {NULL}
           Walks == [Targets -> Seq(Cells)]
           Step(r) == [c \in Targets |-> IF c \notin Cells \ {a} THEN <<>> ELSE <<c>> \o r[h.next[c]]]
           Body(f) == [m \in 0..N |->
                         [c \in Targets |->
                            IF m = 0 \/ c \notin Cells \ {a} THEN <<>> ELSE <<c>> \o f[m - 1][h.next[c]]]]
           from == CHOOSE f : f = Body(f)
           n == Len(s)
<1>1. N \in Nat /\ n \in Nat /\ n <= N
  BY ListFits
<1>2. Entries(h, a) = from[N][h.next[a]]
  BY DEF Entries
<1> HIDE DEF N
<1>3. \E f : f = Body(f)
  <2> DEFINE G == [m \in 1..N |-> [r \in Walks |-> Step(r)]]
             v == [c \in Targets |-> <<>>]
  <2>1. v \in Walks
    <3>1. <<>> \in Seq(Cells)  OBVIOUS
    <3> QED  BY <3>1
  <2>2. \A r \in Walks : Step(r) \in Walks
    <3> SUFFICES ASSUME NEW r \in Walks, NEW c \in Targets, c \in Cells
                 PROVE  <<c>> \o r[h.next[c]] \in Seq(Cells)
      <4>1. <<>> \in Seq(Cells)  OBVIOUS
      <4> QED  BY <4>1
    <3>1. h.next[c] \in Targets  BY DEF Heaps
    <3> QED  BY <3>1
  <2>3. G \in [1..N -> [Walks -> Walks]]
    BY <2>2
  <2>4. PICK f \in [0..N -> Walks] : f[0] = v /\ \A m \in 1..N : f[m] = G[m][f[m - 1]]
    <3> HIDE DEF G, v, Walks
    <3>1. \E f : IsLoop(f, Walks, v, N, G)
      BY <1>1, <2>1, <2>3, LoopExists
    <3> QED  BY <3>1 DEF IsLoop
  <2>5. \A m \in 1..N : f[m] = Step(f[m - 1])
    <3> SUFFICES ASSUME NEW m \in 1..N PROVE f[m] = Step(f[m - 1])
      OBVIOUS
    <3> HIDE DEF Step, Walks
    <3>1. f[m - 1] \in Walks
      <4>1. m - 1 \in 0..N  BY <1>1
      <4> QED  BY <2>4, <4>1
    <3>2. f[m] = G[m][f[m - 1]]
      <4> HIDE DEF G
      <4> QED  BY <2>4
    <3> QED  BY <3>1, <3>2
  <2>6. ASSUME NEW m \in 0..N PROVE f[m] = Body(f)[m]
    <3>1. CASE m = 0
      <4>1. Body(f)[m] = [c \in Targets |-> <<>>]  BY <3>1
      <4> QED  BY <2>4, <3>1, <4>1
    <3>2. CASE m # 0
      <4>1. m \in 1..N  BY <1>1, <3>2
      <4>2. Body(f)[m] = Step(f[m - 1])  BY <3>2
      <4> QED  BY <2>5, <4>1, <4>2
    <3> QED  BY <3>1, <3>2
  <2>7. f = Body(f)
    <3>1. f = [m \in 0..N |-> f[m]]  BY <2>4
    <3>2. Body(f) = [m \in 0..N |-> Body(f)[m]]  OBVIOUS
    <3> HIDE DEF Body
    <3> QED  BY <2>6, <3>1, <3>2
  <2> QED  BY <2>7
<1>4. from = Body(from)
  <2> HIDE DEF Body
  <2> QED  BY <1>3
<1> HIDE DEF from
<1>5. \A m \in 0..N, c \in Targets :
        from[m][c] = IF m = 0 \/ c \notin Cells \ {a} THEN <<>> ELSE <<c>> \o from[m - 1][h.next[c]]
  <2> SUFFICES ASSUME NEW m \in 0..N, NEW c \in Targets
               PROVE from[m][c] = IF m = 0 \/ c \notin Cells \ {a} THEN <<>> ELSE <<c>> \o from[m - 1][h.next[c]]
    OBVIOUS
  <2>1. from[m][c] = Body(from)[m][c]
    <3> HIDE DEF Body
    <3> QED  BY <1>4
  <2> QED  BY <2>1
<1> HIDE DEF Body, n
<1> DEFINE Rest(j) == [i \in 1..j |-> s[n - j + i]]
           Good(j) == \A m \in j..N : from[m][Cyc(a, s, n + 1 - j)] = Rest(j)
           T == {j \in 0..n : ~Good(j)}
<1>6. Good(0)
  <2> SUFFICES ASSUME NEW m \in 0..N PROVE from[m][Cyc(a, s, n + 1)] = <<>>
    BY <1>1
  <2>1. Cyc(a, s, n + 1) = a  BY DEF Cyc, n
  <2> QED  BY <1>5, <2>1
<1>7. ASSUME NEW j \in 1..n, Good(j - 1) PROVE Good(j)
  <2> SUFFICES ASSUME NEW m \in j..N PROVE from[m][Cyc(a, s, n + 1 - j)] = Rest(j)
    OBVIOUS
  <2> DEFINE k == n + 1 - j
  <2>1. k \in 1..n /\ k \in 0..n /\ k + 1 = n + 1 - (j - 1) /\ m \in 0..N /\ m - 1 \in (j - 1)..N /\ m # 0
    BY <1>1
  <2>2. Cyc(a, s, k) = s[k] /\ s[k] \in Cells
    BY <2>1 DEF Cyc, n
  <2>3. s[k] # a
    <3>1. Cyc(a, s, 0) = a /\ 0 \in 0..n /\ k # 0  BY <1>1, <2>1 DEF Cyc
    <3> QED  BY <2>1, <2>2, <3>1 DEF Simple, n
  <2>4. h.next[s[k]] = Cyc(a, s, k + 1)
    BY <2>1, <2>2 DEF Circle, n
  <2>5. from[m][s[k]] = <<s[k]>> \o from[m - 1][Cyc(a, s, k + 1)]
    BY <1>5, <2>1, <2>2, <2>3, <2>4
  <2>6. from[m - 1][Cyc(a, s, k + 1)] = Rest(j - 1)
    BY <1>7, <2>1
  <2>7. <<s[k]>> \o Rest(j - 1) = Rest(j)
    <3>1. Rest(j - 1) \in Seq(Cells) /\ Len(Rest(j - 1)) = j - 1
      <4>1. \A i \in 1..j - 1 : s[n - (j - 1) + i] \in Cells  BY <1>1 DEF n
      <4> QED  BY <4>1, <1>1
    <3>2. Rest(j) \in Seq(Cells) /\ Len(Rest(j)) = j
      <4>1. \A i \in 1..j : s[n - j + i] \in Cells  BY <1>1 DEF n
      <4> QED  BY <4>1, <1>1
    <3>3. \A i \in 1..j - 1 : Rest(j - 1)[i] = Rest(j)[i + 1]
      BY <1>1
    <3>4. Rest(j)[1] = s[k]
      BY <1>1
    <3> HIDE DEF Rest, k
    <3> DEFINE u == <<s[k]>> \o Rest(j - 1)
    <3>5. u \in Seq(Cells) /\ Len(u) = j /\ u[1] = s[k]
      BY <2>2, <3>1
    <3>6. \A i \in 2..j : u[i] = Rest(j - 1)[i - 1]
      BY <2>2, <3>1
    <3>7. \A i \in 1..j : u[i] = Rest(j)[i]
      <4> SUFFICES ASSUME NEW i \in 1..j PROVE u[i] = Rest(j)[i]
        OBVIOUS
      <4>1. CASE i = 1  BY <3>4, <3>5, <4>1
      <4>2. CASE i # 1
        <5>1. i \in 2..j /\ i - 1 \in 1..j - 1 /\ (i - 1) + 1 = i  BY <4>2
        <5> HIDE DEF u
        <5> QED  BY <3>3, <3>6, <5>1
      <4> QED  BY <4>1, <4>2
    <3> HIDE DEF u
    <3>8. u = Rest(j)  BY <3>2, <3>5, <3>7, SeqEqual
    <3> QED  BY <3>8 DEF u
  <2> QED  BY <2>2, <2>5, <2>6, <2>7
<1> HIDE DEF Good
<1>8. ASSUME T # {} PROVE FALSE
  <2>1. T \in SUBSET Nat  BY <1>1
  <2>2. PICK j \in T : \A i \in T : j <= i  BY <1>8, <2>1, LeastNumber
  <2>3. j \in 1..n /\ j - 1 \in 0..n /\ ~Good(j)  BY <1>1, <1>6, <2>2
  <2>4. Good(j - 1)  BY <1>1, <2>2, <2>3
  <2> QED  BY <1>7, <2>3, <2>4
<1>9. Good(n)
  BY <1>1, <1>8
<1>10. h.next[a] = Cyc(a, s, 1)
  BY <1>1 DEF Circle, Cyc, n
<1>11. from[N][h.next[a]] = Rest(n)
  <2>1. n + 1 - n = 1 /\ N \in n..N  BY <1>1
  <2> QED  BY <1>9, <1>10, <2>1 DEF Good
<1>12. Rest(n) = s
  <2>1. Rest(n) = [i \in 1..n |-> s[i]]  BY <1>1
  <2>2. s = [i \in 1..Len(s) |-> s[i]]  OBVIOUS
  <2> QED  BY <2>1, <2>2 DEF n
<1> QED  BY <1>2, <1>11, <1>12

-----------------------------------------------------------------------------
(* Kinds of cells *)

\* The cells that head a list, and those that are linked into one.
HeadCells == {pcbFree_h, semdFree_h, semd_h} \cup {procQ(q) : q \in Queues}
             \cup {p_child(p) : p \in Pcbs} \cup {s_procq(s) : s \in Semds}
PLists == {p_list(p) : p \in Pcbs}
PSibs  == {p_sib(p) : p \in Pcbs}
SLinks == {s_link(s) : s \in Semds}
Items  == PLists \cup PSibs \cup SLinks

\* A cell is one field of one object: the kinds of cells do not overlap.
LEMMA CellNames ==
  /\ \A x : /\ Owner(p_list(x)) = x /\ Owner(p_sib(x)) = x /\ Owner(s_link(x)) = x
            /\ Owner(procQ(x)) = x /\ Owner(p_child(x)) = x /\ Owner(s_procq(x)) = x
  /\ \A x, y : p_list(x) # p_sib(y) /\ p_list(x) # s_link(y) /\ p_sib(x) # s_link(y)
  /\ \A x, y : procQ(x) # p_child(y) /\ procQ(x) # s_procq(y) /\ p_child(x) # s_procq(y)
  /\ \A x : \A f \in {pcbFree_h, semdFree_h, semd_h} :
       f # procQ(x) /\ f # p_child(x) /\ f # s_procq(x)
  /\ pcbFree_h # semdFree_h /\ pcbFree_h # semd_h /\ semdFree_h # semd_h
BY DEF Owner, p_list, p_sib, s_link, procQ, p_child, s_procq, pcbFree_h, semdFree_h, semd_h

\* A cell heads a list or is linked into one, never both.
LEMMA CellKinds ==
  /\ Cells = HeadCells \cup Items
  /\ HeadCells \cap Items = {}
BY DEF Cells, HeadCells, Items, PLists, PSibs, SLinks, p_list, p_sib, s_link, procQ, p_child,
       s_procq, pcbFree_h, semdFree_h, semd_h

\* There are finitely many cells, so a walk can be cut.
LEMMA CellsFinite == Phase1Assumption => IsFiniteSet(Cells)
<1> SUFFICES ASSUME Phase1Assumption PROVE IsFiniteSet(Cells)
  OBVIOUS
<1>1. IsFiniteSet(Pcbs) /\ IsFiniteSet(Semds) /\ IsFiniteSet(Queues)
  BY DEF Phase1Assumption
<1>2. ASSUME NEW S, IsFiniteSet(S), NEW T, NEW f \in [S -> T], \A y \in T : \E x \in S : f[x] = y
      PROVE  IsFiniteSet(T)
  <2>1. f \in Surjection(S, T)  BY <1>2 DEF Surjection
  <2> QED  BY <1>2, <2>1, FS_Surjection
<1>3. IsFiniteSet({procQ(q) : q \in Queues})
  <2> DEFINE f == [q \in Queues |-> procQ(q)]
             T == {procQ(q) : q \in Queues}
  <2>1. f \in [Queues -> T]  OBVIOUS
  <2>2. \A y \in T : \E x \in Queues : f[x] = y  OBVIOUS
  <2> HIDE DEF f, T
  <2>3. IsFiniteSet(T)  BY <1>1, <1>2, <2>1, <2>2
  <2> QED  BY <2>3 DEF T
<1>4. IsFiniteSet({p_child(p) : p \in Pcbs})
  <2> DEFINE f == [p \in Pcbs |-> p_child(p)]
             T == {p_child(p) : p \in Pcbs}
  <2>1. f \in [Pcbs -> T]  OBVIOUS
  <2>2. \A y \in T : \E x \in Pcbs : f[x] = y  OBVIOUS
  <2> HIDE DEF f, T
  <2>3. IsFiniteSet(T)  BY <1>1, <1>2, <2>1, <2>2
  <2> QED  BY <2>3 DEF T
<1>5. IsFiniteSet({s_procq(s) : s \in Semds})
  <2> DEFINE f == [s \in Semds |-> s_procq(s)]
             T == {s_procq(s) : s \in Semds}
  <2>1. f \in [Semds -> T]  OBVIOUS
  <2>2. \A y \in T : \E x \in Semds : f[x] = y  OBVIOUS
  <2> HIDE DEF f, T
  <2>3. IsFiniteSet(T)  BY <1>1, <1>2, <2>1, <2>2
  <2> QED  BY <2>3 DEF T
<1>6. IsFiniteSet(PLists)
  <2> DEFINE f == [p \in Pcbs |-> p_list(p)]
  <2>1. f \in [Pcbs -> PLists]  BY DEF PLists
  <2>2. \A y \in PLists : \E x \in Pcbs : f[x] = y  BY DEF PLists
  <2> HIDE DEF f
  <2> QED  BY <1>1, <1>2, <2>1, <2>2
<1>7. IsFiniteSet(PSibs)
  <2> DEFINE f == [p \in Pcbs |-> p_sib(p)]
  <2>1. f \in [Pcbs -> PSibs]  BY DEF PSibs
  <2>2. \A y \in PSibs : \E x \in Pcbs : f[x] = y  BY DEF PSibs
  <2> HIDE DEF f
  <2> QED  BY <1>1, <1>2, <2>1, <2>2
<1>8. IsFiniteSet(SLinks)
  <2> DEFINE f == [s \in Semds |-> s_link(s)]
  <2>1. f \in [Semds -> SLinks]  BY DEF SLinks
  <2>2. \A y \in SLinks : \E x \in Semds : f[x] = y  BY DEF SLinks
  <2> HIDE DEF f
  <2> QED  BY <1>1, <1>2, <2>1, <2>2
<1>9. IsFiniteSet({pcbFree_h, semdFree_h, semd_h})
  <2>1. IsFiniteSet({} \cup {pcbFree_h})  BY FS_EmptySet, FS_AddElement
  <2>2. IsFiniteSet(({} \cup {pcbFree_h}) \cup {semdFree_h})  BY <2>1, FS_AddElement
  <2>3. IsFiniteSet((({} \cup {pcbFree_h}) \cup {semdFree_h}) \cup {semd_h})  BY <2>2, FS_AddElement
  <2>4. (({} \cup {pcbFree_h}) \cup {semdFree_h}) \cup {semd_h} = {pcbFree_h, semdFree_h, semd_h}
    OBVIOUS
  <2> QED  BY <2>3, <2>4
<1>10. IsFiniteSet(Items)
  <2>1. IsFiniteSet(PLists \cup PSibs)  BY <1>6, <1>7, FS_Union
  <2> QED  BY <2>1, <1>8, FS_Union DEF Items
<1>11. IsFiniteSet(HeadCells)
  <2>1. IsFiniteSet({pcbFree_h, semdFree_h, semd_h} \cup {procQ(q) : q \in Queues})
    BY <1>3, <1>9, FS_Union
  <2>2. IsFiniteSet(({pcbFree_h, semdFree_h, semd_h} \cup {procQ(q) : q \in Queues})
                    \cup {p_child(p) : p \in Pcbs})
    BY <1>4, <2>1, FS_Union
  <2> QED  BY <1>5, <2>2, FS_Union DEF HeadCells
<1> QED  BY <1>10, <1>11, FS_Union, CellKinds

-----------------------------------------------------------------------------
(* Layouts: the entries of every list *)

Layouts == [HeadCells -> Seq(Items)]

\* No cell is linked twice, in one list or in two.
Once(F) ==
  \A a, b \in HeadCells : \A i \in DOMAIN F[a], j \in DOMAIN F[b] :
    F[a][i] = F[b][j] => a = b /\ i = j

\* In the heap h the cells H head lists, the ones F gives; the other heads have none.
LaidOut(h, F, H) ==
  /\ h \in Heaps
  /\ H \in SUBSET HeadCells
  /\ F \in Layouts
  /\ Once(F)
  /\ \A a \in H : Circle(h, a, F[a])
  /\ \A a \in HeadCells \ H : F[a] = <<>>

\* The lists of a layout share no cell.
LEMMA ListsApart ==
  ASSUME NEW F \in Layouts, Once(F), NEW a \in HeadCells
  PROVE  /\ F[a] \in Seq(Items) /\ F[a] \in Seq(Cells) /\ a \in Cells
         /\ Simple(a, F[a])
         /\ Distinct(F[a])
         /\ \A b \in HeadCells \ {a} : \A i \in 0..Len(F[a]), j \in 0..Len(F[b]) :
              Cyc(a, F[a], i) # Cyc(b, F[b], j)
<1>1. \A b \in HeadCells : /\ F[b] \in Seq(Items)
                           /\ \A i \in 1..Len(F[b]) : F[b][i] \in Items
                           /\ DOMAIN F[b] = 1..Len(F[b])
  BY DEF Layouts
<1>2. a \in Cells /\ Items \subseteq Cells /\ \A b \in HeadCells : b \notin Items
  BY CellKinds
<1>3. F[a] \in Seq(Cells)
  BY <1>1, <1>2
<1>4. Simple(a, F[a])
  BY <1>1, <1>2 DEF Simple, Cyc, Once
<1>5. Distinct(F[a])
  BY DEF Distinct, Once
<1>6. ASSUME NEW b \in HeadCells \ {a}, NEW i \in 0..Len(F[a]), NEW j \in 0..Len(F[b])
      PROVE  Cyc(a, F[a], i) # Cyc(b, F[b], j)
  BY <1>1, <1>2 DEF Cyc, Once
<1> QED  BY <1>1, <1>2, <1>3, <1>4, <1>5, <1>6

\* To walk a list is to read its layout.
LEMMA WalkOfLayout ==
  ASSUME Phase1Assumption, NEW h, NEW F, NEW H, LaidOut(h, F, H), NEW a \in H
  PROVE  Entries(h, a) = F[a]
<1>1. F \in Layouts /\ Once(F) /\ a \in HeadCells /\ Circle(h, a, F[a]) /\ h \in Heaps
  BY DEF LaidOut
<1>2. F[a] \in Seq(Cells) /\ a \in Cells /\ Simple(a, F[a])
  BY <1>1, ListsApart
<1> QED  BY <1>1, <1>2, CellsFinite, WalkOfCircle

\* list_empty tells an empty list, and next of the head its first cell.
LEMMA FirstOfLayout ==
  ASSUME NEW h, NEW F, NEW H, LaidOut(h, F, H), NEW a \in H
  PROVE  /\ list_empty(h, a) <=> F[a] = <<>>
         /\ F[a] # <<>> => h.next[a] = Head(F[a]) /\ Head(F[a]) \in ToSet(F[a])
<1>1. F[a] \in Seq(Items) /\ a \in HeadCells /\ Circle(h, a, F[a])
  BY DEF LaidOut, Layouts
<1>2. h.next[a] = Cyc(a, F[a], 1)
  <2>1. 0 \in 0..Len(F[a]) /\ Cyc(a, F[a], 0) = a  BY <1>1 DEF Cyc
  <2> QED  BY <1>1, <2>1 DEF Circle
<1>3. CASE F[a] = <<>>
  BY <1>2, <1>3 DEF list_empty, Cyc
<1>4. CASE F[a] # <<>>
  <2>1. 1 \in 1..Len(F[a]) /\ Head(F[a]) = F[a][1] /\ F[a][1] \in Items /\ DOMAIN F[a] = 1..Len(F[a])
    BY <1>1, <1>4
  <2>2. h.next[a] = Head(F[a]) /\ Head(F[a]) # a
    BY <1>1, <1>2, <2>1, CellKinds DEF Cyc
  <2>3. Head(F[a]) \in ToSet(F[a])
    BY <2>1 DEF ToSet
  <2> QED  BY <1>4, <2>2, <2>3 DEF list_empty
<1> QED  BY <1>3, <1>4

\* __list_add changes one list.
LEMMA LayoutLink ==
  ASSUME NEW h, NEW F, NEW H, LaidOut(h, F, H), NEW a \in H, NEW new \in Items,
         \A b \in HeadCells : new \notin ToSet(F[b]),
         NEW k \in 0..Len(F[a]), NEW t \in Seq(Items), Len(t) = Len(F[a]) + 1, t[k + 1] = new,
         \A i \in 1..k : t[i] = F[a][i],
         \A i \in (k + 1)..Len(F[a]) : t[i + 1] = F[a][i]
  PROVE  LaidOut(Link(h, new, Cyc(a, F[a], k), Cyc(a, F[a], k + 1)), [F EXCEPT ![a] = t], H)
<1> DEFINE g == Link(h, new, Cyc(a, F[a], k), Cyc(a, F[a], k + 1))
           G == [F EXCEPT ![a] = t]
<1>1. /\ h \in Heaps /\ F \in Layouts /\ Once(F) /\ a \in HeadCells /\ H \in SUBSET HeadCells
      /\ \A b \in H : Circle(h, b, F[b])
      /\ \A b \in HeadCells \ H : F[b] = <<>>
  BY DEF LaidOut
<1>2. G \in Layouts /\ G[a] = t /\ \A b \in HeadCells \ {a} : G[b] = F[b]
  BY <1>1 DEF Layouts
<1>3. \A b \in HeadCells : /\ F[b] \in Seq(Cells) /\ F[b] \in Seq(Items) /\ b \in Cells
                           /\ DOMAIN F[b] = 1..Len(F[b]) /\ Simple(b, F[b])
  BY <1>1, ListsApart
<1>4. new \in Cells /\ new \notin HeadCells /\ t \in Seq(Cells) /\ Len(F[a]) \in Nat
  BY <1>1, <1>3, CellKinds
<1>5. \A b \in HeadCells : \A i \in 0..Len(F[b]) : Cyc(b, F[b], i) # new
  BY <1>3, <1>4 DEF Cyc, ToSet
<1>6. /\ g \in Heaps
      /\ \A c \in Cells : c # new /\ c # Cyc(a, F[a], k) /\ c # Cyc(a, F[a], k + 1)
                          => g.next[c] = h.next[c] /\ g.prev[c] = h.prev[c]
  <2>1. Cyc(a, F[a], k) \in Cells /\ Cyc(a, F[a], k + 1) \in Cells
    BY <1>1, <1>3, CycProperties
  <2>2. Cyc(a, F[a], k) # new
    BY <1>1, <1>5
  <2>3. Cyc(a, F[a], k + 1) # new
    <3>1. Cyc(a, F[a], Len(F[a]) + 1) = Cyc(a, F[a], 0) /\ 0 \in 0..Len(F[a])
      BY <1>4 DEF Cyc
    <3>2. k + 1 \in 0..Len(F[a]) \/ k + 1 = Len(F[a]) + 1
      BY <1>4
    <3> QED  BY <1>1, <1>5, <3>1, <3>2
  <2> QED  BY <1>1, <1>4, <2>1, <2>2, <2>3, LinkEffect
<1>7. Circle(g, a, t)
  BY <1>1, <1>3, <1>4, <1>5, CircleAdd
<1>8. ASSUME NEW b \in H, b # a PROVE Circle(g, b, F[b])
  <2>1. \A i \in 0..Len(F[b]) : LET x == Cyc(b, F[b], i) IN g.next[x] = h.next[x] /\ g.prev[x] = h.prev[x]
    <3> SUFFICES ASSUME NEW i \in 0..Len(F[b])
                 PROVE LET x == Cyc(b, F[b], i) IN g.next[x] = h.next[x] /\ g.prev[x] = h.prev[x]
      OBVIOUS
    <3>1. Cyc(b, F[b], i) \in Cells
      BY <1>1, <1>3, CycProperties
    <3>2. Cyc(b, F[b], i) # new /\ Cyc(b, F[b], i) # Cyc(a, F[a], k)
      BY <1>1, <1>5, <1>8, ListsApart
    <3>3. Cyc(b, F[b], i) # Cyc(a, F[a], k + 1)
      <4>1. Cyc(a, F[a], Len(F[a]) + 1) = Cyc(a, F[a], 0) /\ 0 \in 0..Len(F[a])
        BY <1>4 DEF Cyc
      <4>2. k + 1 \in 0..Len(F[a]) \/ k + 1 = Len(F[a]) + 1
        BY <1>4
      <4> QED  BY <1>1, <1>8, <4>1, <4>2, ListsApart
    <3> HIDE DEF g
    <3> QED  BY <1>6, <3>1, <3>2, <3>3
  <2>2. Circle(h, b, F[b])  BY <1>1, <1>8
  <2> HIDE DEF g
  <2> QED  BY <1>1, <1>3, <2>1, <2>2, CircleFrame
<1>9. Once(G)
  <2>1. DOMAIN t = 1..Len(F[a]) + 1
    OBVIOUS
  <2> DEFINE old(i) == IF i <= k THEN i ELSE i - 1
  <2>2. \A i \in DOMAIN t : i # k + 1 => old(i) \in DOMAIN F[a] /\ t[i] = F[a][old(i)]
    <3> SUFFICES ASSUME NEW i \in 1..Len(F[a]) + 1, i # k + 1
                 PROVE  old(i) \in DOMAIN F[a] /\ t[i] = F[a][old(i)]
      BY <2>1
    <3>1. CASE i <= k  BY <1>1, <1>3, <1>4, <3>1
    <3>2. CASE i > k + 1
      <4>1. i - 1 \in (k + 1)..Len(F[a]) /\ (i - 1) + 1 = i /\ i - 1 \in 1..Len(F[a])  BY <1>4, <3>2
      <4>2. t[i] = F[a][i - 1]  BY <4>1
      <4> QED  BY <1>1, <1>3, <1>4, <3>2, <4>1, <4>2
    <3> QED  BY <1>4, <3>1, <3>2
  <2>3. \A i, j \in DOMAIN t : i # k + 1 /\ j # k + 1 /\ old(i) = old(j) => i = j
    BY <1>4, <2>1
  <2> HIDE DEF old, G
  <2>4. ASSUME NEW b \in HeadCells, NEW c \in HeadCells,
               NEW i \in DOMAIN G[b], NEW j \in DOMAIN G[c], G[b][i] = G[c][j]
        PROVE  b = c /\ i = j
    <3>1. \A d \in HeadCells : \A m \in DOMAIN F[d] : F[d][m] # new
      BY DEF ToSet
    <3>2. CASE b # a /\ c # a
      BY <1>1, <1>2, <2>4, <3>2 DEF Once
    <3>3. CASE b = a /\ c # a
      <4>1. i # k + 1  BY <1>2, <2>4, <3>1, <3>3
      <4> QED  BY <1>1, <1>2, <2>2, <2>4, <3>3, <4>1 DEF Once
    <3>4. CASE b # a /\ c = a
      <4>1. j # k + 1  BY <1>2, <2>4, <3>1, <3>4
      <4> QED  BY <1>1, <1>2, <2>2, <2>4, <3>4, <4>1 DEF Once
    <3>5. CASE b = a /\ c = a
      <4>1. CASE i = k + 1 \/ j = k + 1
        BY <1>2, <2>2, <2>4, <3>1, <3>5, <4>1
      <4>2. CASE i # k + 1 /\ j # k + 1
        BY <1>1, <1>2, <2>2, <2>3, <2>4, <3>5, <4>2 DEF Once
      <4> QED  BY <4>1, <4>2
    <3> QED  BY <3>2, <3>3, <3>4, <3>5
  <2> QED  BY <2>4 DEF Once
<1> HIDE DEF g, G
<1>10. \A b \in H : Circle(g, b, G[b])
  BY <1>1, <1>2, <1>7, <1>8
<1>11. \A b \in HeadCells \ H : G[b] = <<>>
  BY <1>1, <1>2
<1>12. LaidOut(g, G, H)
  BY <1>1, <1>2, <1>6, <1>9, <1>10, <1>11 DEF LaidOut
<1> QED  BY <1>12 DEF g, G

\* list_add puts a cell that is in no list in front.
LEMMA LayoutAdd ==
  ASSUME NEW h, NEW F, NEW H, LaidOut(h, F, H), NEW a \in H, NEW new \in Items,
         \A b \in HeadCells : new \notin ToSet(F[b])
  PROVE  LaidOut(list_add(h, new, a), [F EXCEPT ![a] = <<new>> \o F[a]], H)
<1> DEFINE t == <<new>> \o F[a]
<1>1. F[a] \in Seq(Items) /\ Circle(h, a, F[a]) /\ Len(F[a]) \in Nat
  BY DEF LaidOut, Layouts
<1>2. t \in Seq(Items) /\ Len(t) = Len(F[a]) + 1 /\ t[1] = new /\ \A i \in 1..Len(F[a]) : t[i + 1] = F[a][i]
  BY <1>1, ConsToSet
<1>3. list_add(h, new, a) = Link(h, new, Cyc(a, F[a], 0), Cyc(a, F[a], 1))
  <2>1. 0 \in 0..Len(F[a]) /\ 0 + 1 = 1 /\ Cyc(a, F[a], 0) = a
    BY <1>1 DEF Cyc
  <2>2. h.next[a] = Cyc(a, F[a], 1)
    BY <1>1, <2>1 DEF Circle
  <2> QED  BY <2>1, <2>2 DEF list_add
<1> HIDE DEF t
<1>4. LaidOut(Link(h, new, Cyc(a, F[a], 0), Cyc(a, F[a], 0 + 1)), [F EXCEPT ![a] = t], H)
  <2>1. 0 \in 0..Len(F[a]) /\ t[0 + 1] = new /\ (\A i \in 1..0 : t[i] = F[a][i])
        /\ \A i \in (0 + 1)..Len(F[a]) : t[i + 1] = F[a][i]
    BY <1>1, <1>2
  <2> QED  BY <1>2, <2>1, LayoutLink
<1> QED  BY <1>3, <1>4 DEF t

\* list_add_tail puts it at the end.
LEMMA LayoutAddTail ==
  ASSUME NEW h, NEW F, NEW H, LaidOut(h, F, H), NEW a \in H, NEW new \in Items,
         \A b \in HeadCells : new \notin ToSet(F[b])
  PROVE  LaidOut(list_add_tail(h, new, a), [F EXCEPT ![a] = Append(F[a], new)], H)
<1> DEFINE t == Append(F[a], new)
           n == Len(F[a])
<1>1. F[a] \in Seq(Items) /\ Circle(h, a, F[a]) /\ n \in Nat /\ a \in Cells
  BY CellKinds DEF LaidOut, Layouts
<1>2. t \in Seq(Items) /\ Len(t) = n + 1 /\ t[n + 1] = new /\ \A i \in 1..n : t[i] = F[a][i]
  BY <1>1
<1>3. list_add_tail(h, new, a) = Link(h, new, Cyc(a, F[a], n), Cyc(a, F[a], n + 1))
  <2>1. n \in 0..n /\ Cyc(a, F[a], n + 1) = a
    BY <1>1 DEF Cyc
  <2>2. h.prev[a] = Cyc(a, F[a], n)
    BY <1>1, <2>1 DEF Circle
  <2> QED  BY <2>1, <2>2 DEF list_add_tail
<1> HIDE DEF t
<1>4. LaidOut(Link(h, new, Cyc(a, F[a], n), Cyc(a, F[a], n + 1)), [F EXCEPT ![a] = t], H)
  <2>1. n \in 0..n /\ \A i \in (n + 1)..n : t[i + 1] = F[a][i]
    BY <1>1
  <2> QED  BY <1>1, <1>2, <2>1, LayoutLink
<1> QED  BY <1>3, <1>4 DEF t

\* list_del takes a cell out of the list that holds it.
LEMMA LayoutDel ==
  ASSUME NEW h, NEW F, NEW H, LaidOut(h, F, H), NEW a \in H, NEW c \in ToSet(F[a])
  PROVE  LaidOut(list_del(h, c), [F EXCEPT ![a] = Without(F[a], c)], H)
<1> DEFINE t == Without(F[a], c)
           g == list_del(h, c)
           G == [F EXCEPT ![a] = t]
<1>1. /\ h \in Heaps /\ F \in Layouts /\ Once(F) /\ a \in HeadCells /\ H \in SUBSET HeadCells
      /\ \A b \in H : Circle(h, b, F[b])
      /\ \A b \in HeadCells \ H : F[b] = <<>>
  BY DEF LaidOut
<1>2. \A b \in HeadCells : /\ F[b] \in Seq(Cells) /\ F[b] \in Seq(Items) /\ b \in Cells
                           /\ DOMAIN F[b] = 1..Len(F[b]) /\ Simple(b, F[b])
  BY <1>1, ListsApart
<1>3. PICK k \in 1..Len(F[a]) : F[a][k] = c /\ t = RemoveAt(F[a], k)
  BY <1>1, <1>2, OutProcQPlace
<1> DEFINE n == Len(F[a])
<1>4. n \in Nat /\ k \in 1..n /\ k - 1 \in 0..n /\ k \in 0..n /\ (k - 1) + 1 = k
  BY <1>1, <1>2, <1>3
<1>5. /\ t \in Seq(Items) /\ Len(t) = n - 1
      /\ \A i \in 1..(k - 1) : t[i] = F[a][i]
      /\ \A i \in k..(n - 1) : t[i] = F[a][i + 1]
  BY <1>1, <1>2, <1>3, RemoveAtProperties
<1>6. t \in Seq(Cells)
  BY <1>5, CellKinds
<1> HIDE DEF t
<1>7. G \in Layouts /\ G[a] = t /\ \A b \in HeadCells \ {a} : G[b] = F[b]
  BY <1>1, <1>5 DEF Layouts
<1>8. Circle(g, a, t)
  BY <1>1, <1>2, <1>3, <1>5, <1>6, CircleDel
<1>9. /\ Cyc(a, F[a], k) = c /\ c \in Cells
      /\ h.prev[c] = Cyc(a, F[a], k - 1) /\ h.next[c] = Cyc(a, F[a], k + 1)
      /\ Cyc(a, F[a], k - 1) \in Cells /\ Cyc(a, F[a], k + 1) \in Cells
  <2>1. Cyc(a, F[a], k) = c /\ c \in Cells
    BY <1>1, <1>2, <1>3, <1>4, CycProperties
  <2>2. h.prev[c] = Cyc(a, F[a], k - 1) /\ h.next[c] = Cyc(a, F[a], k + 1)
    BY <1>1, <1>4, <2>1 DEF Circle
  <2>3. Cyc(a, F[a], k - 1) \in Cells /\ Cyc(a, F[a], k + 1) \in Cells
    BY <1>1, <1>2, <1>4, CycProperties
  <2> QED  BY <2>1, <2>2, <2>3
<1>10. /\ g \in Heaps
       /\ \A x \in Cells : x # Cyc(a, F[a], k - 1) /\ x # Cyc(a, F[a], k + 1)
                           => g.next[x] = h.next[x] /\ g.prev[x] = h.prev[x]
  BY <1>1, <1>9, DelEffect
<1> HIDE DEF g
<1>11. ASSUME NEW b \in H, b # a PROVE Circle(g, b, F[b])
  <2>1. \A i \in 0..Len(F[b]) : LET x == Cyc(b, F[b], i) IN g.next[x] = h.next[x] /\ g.prev[x] = h.prev[x]
    <3> SUFFICES ASSUME NEW i \in 0..Len(F[b])
                 PROVE LET x == Cyc(b, F[b], i) IN g.next[x] = h.next[x] /\ g.prev[x] = h.prev[x]
      OBVIOUS
    <3>1. Cyc(b, F[b], i) \in Cells
      BY <1>1, <1>2, CycProperties
    <3>2. Cyc(b, F[b], i) # Cyc(a, F[a], k - 1)
      BY <1>1, <1>4, <1>11, ListsApart
    <3>3. Cyc(b, F[b], i) # Cyc(a, F[a], k + 1)
      <4>1. Cyc(a, F[a], n + 1) = Cyc(a, F[a], 0) /\ 0 \in 0..n
        BY <1>4 DEF Cyc
      <4>2. k + 1 \in 0..n \/ k + 1 = n + 1
        BY <1>4
      <4> QED  BY <1>1, <1>11, <4>1, <4>2, ListsApart
    <3> QED  BY <1>10, <3>1, <3>2, <3>3
  <2>2. Circle(h, b, F[b])  BY <1>1, <1>11
  <2> QED  BY <1>1, <1>2, <2>1, <2>2, CircleFrame
<1>12. Once(G)
  <2> DEFINE old(b, i) == IF b = a /\ i >= k THEN i + 1 ELSE i
  <2>1. \A b \in HeadCells : \A i \in DOMAIN G[b] : /\ old(b, i) \in DOMAIN F[b]
                                                    /\ G[b][i] = F[b][old(b, i)]
    <3> SUFFICES ASSUME NEW b \in HeadCells, NEW i \in DOMAIN G[b]
                 PROVE  old(b, i) \in DOMAIN F[b] /\ G[b][i] = F[b][old(b, i)]
      OBVIOUS
    <3>1. CASE b = a
      <4>1. DOMAIN G[b] = 1..(n - 1)  BY <1>4, <1>5, <1>7, <3>1
      <4>2. CASE i < k
        <5>1. i \in 1..(k - 1)  BY <1>4, <4>1, <4>2
        <5> QED  BY <1>1, <1>2, <1>4, <1>5, <1>7, <3>1, <4>1, <4>2, <5>1
      <4>3. CASE i >= k
        <5>1. i \in k..(n - 1)  BY <1>4, <4>1, <4>3
        <5> QED  BY <1>1, <1>2, <1>4, <1>5, <1>7, <3>1, <4>1, <4>3, <5>1
      <4> QED  BY <1>4, <4>1, <4>2, <4>3
    <3>2. CASE b # a  BY <1>7, <3>2
    <3> QED  BY <3>1, <3>2
  <2>2. \A b \in HeadCells : \A i, j \in DOMAIN G[b] : old(b, i) = old(b, j) => i = j
    <3>1. \A b \in HeadCells : DOMAIN G[b] \subseteq Nat
      BY <1>7 DEF Layouts
    <3> HIDE DEF G
    <3> QED  BY <1>4, <3>1
  <2> HIDE DEF old, G
  <2> QED  BY <1>1, <2>1, <2>2 DEF Once
<1> HIDE DEF G
<1>13. \A b \in H : Circle(g, b, G[b])
  BY <1>1, <1>7, <1>8, <1>11
<1>14. \A b \in HeadCells \ H : G[b] = <<>>
  BY <1>1, <1>7
<1>15. LaidOut(g, G, H)
  BY <1>1, <1>7, <1>10, <1>12, <1>13, <1>14 DEF LaidOut
<1> QED  BY <1>15 DEF g, G, t

\* INIT_LIST_HEAD makes an empty list of a head that is none.
LEMMA LayoutInit ==
  ASSUME NEW h, NEW F, NEW H, LaidOut(h, F, H), NEW a \in HeadCells \ H
  PROVE  LaidOut(INIT_LIST_HEAD(h, a), F, H \cup {a})
<1> DEFINE g == INIT_LIST_HEAD(h, a)
<1>1. /\ h \in Heaps /\ F \in Layouts /\ Once(F) /\ H \in SUBSET HeadCells
      /\ \A b \in H : Circle(h, b, F[b])
      /\ \A b \in HeadCells \ H : F[b] = <<>>
  BY DEF LaidOut
<1>2. /\ g \in Heaps
      /\ g.next[a] = a /\ g.prev[a] = a
      /\ \A c \in Cells : c # a => g.next[c] = h.next[c] /\ g.prev[c] = h.prev[c]
  BY <1>1, CellKinds DEF Heaps, INIT_LIST_HEAD
<1> HIDE DEF g
<1>3. Circle(g, a, F[a])
  <2>1. F[a] = <<>>  BY <1>1
  <2> QED  BY <1>2, <2>1 DEF Circle, Cyc
<1>4. ASSUME NEW b \in H PROVE Circle(g, b, F[b])
  <2>1. F[b] \in Seq(Cells) /\ b \in Cells /\ b # a /\ F[a] = <<>>
    BY <1>1, ListsApart
  <2>2. \A i \in 0..Len(F[b]) : LET x == Cyc(b, F[b], i) IN g.next[x] = h.next[x] /\ g.prev[x] = h.prev[x]
    <3> SUFFICES ASSUME NEW i \in 0..Len(F[b])
                 PROVE LET x == Cyc(b, F[b], i) IN g.next[x] = h.next[x] /\ g.prev[x] = h.prev[x]
      OBVIOUS
    <3>1. Cyc(b, F[b], i) \in Cells  BY <2>1, CycProperties
    <3>2. Cyc(b, F[b], i) # Cyc(a, F[a], 0) /\ Cyc(a, F[a], 0) = a
      <4>1. 0 \in 0..Len(F[a]) /\ Cyc(a, F[a], 0) = a  BY <2>1 DEF Cyc
      <4> QED  BY <1>1, <2>1, <4>1, ListsApart
    <3> QED  BY <1>2, <3>1, <3>2
  <2> QED  BY <1>1, <2>1, <2>2, CircleFrame
<1>5. LaidOut(g, F, H \cup {a})
  BY <1>1, <1>2, <1>3, <1>4 DEF LaidOut
<1> QED  BY <1>5 DEF g

\* A link that is in no list can be cleared.
LEMMA LayoutNull ==
  ASSUME NEW h, NEW F, NEW H, LaidOut(h, F, H), NEW c \in Items,
         \A b \in HeadCells : c \notin ToSet(F[b])
  PROVE  LaidOut(SetNull(h, c), F, H)
<1> DEFINE g == SetNull(h, c)
<1>1. /\ h \in Heaps /\ F \in Layouts /\ Once(F) /\ H \in SUBSET HeadCells
      /\ \A b \in H : Circle(h, b, F[b])
      /\ \A b \in HeadCells \ H : F[b] = <<>>
  BY DEF LaidOut
<1>2. /\ g \in Heaps
      /\ \A x \in Cells : x # c => g.next[x] = h.next[x] /\ g.prev[x] = h.prev[x]
  BY <1>1, CellKinds DEF Heaps, SetNull
<1> HIDE DEF g
<1>3. ASSUME NEW b \in H PROVE Circle(g, b, F[b])
  <2>1. F[b] \in Seq(Cells) /\ b \in Cells /\ b # c /\ DOMAIN F[b] = 1..Len(F[b])
    BY <1>1, ListsApart, CellKinds
  <2>2. \A i \in 0..Len(F[b]) : LET x == Cyc(b, F[b], i) IN g.next[x] = h.next[x] /\ g.prev[x] = h.prev[x]
    <3> SUFFICES ASSUME NEW i \in 0..Len(F[b])
                 PROVE LET x == Cyc(b, F[b], i) IN g.next[x] = h.next[x] /\ g.prev[x] = h.prev[x]
      OBVIOUS
    <3>1. Cyc(b, F[b], i) \in Cells  BY <2>1, CycProperties
    <3>2. Cyc(b, F[b], i) # c
      BY <1>1, <2>1 DEF Cyc, ToSet
    <3> QED  BY <1>2, <3>1, <3>2
  <2> QED  BY <1>1, <2>1, <2>2, CircleFrame
<1>4. LaidOut(g, F, H)
  BY <1>1, <1>2, <1>3 DEF LaidOut
<1> QED  BY <1>4 DEF g

\* A list that is empty need not be one any more.
LEMMA LayoutDrop ==
  ASSUME NEW h, NEW F, NEW H, LaidOut(h, F, H), NEW a, a \in HeadCells => F[a] = <<>>
  PROVE  LaidOut(h, F, H \ {a})
BY DEF LaidOut

\* How the cells of a layout move.
LEMMA CellsOfLayout ==
  ASSUME NEW F \in Layouts, Once(F), NEW a \in HeadCells
  PROVE  /\ \A new \in Items : /\ ToSet(<<new>> \o F[a]) = ToSet(F[a]) \cup {new}
                               /\ ToSet(Append(F[a], new)) = ToSet(F[a]) \cup {new}
         /\ \A c : ToSet(Without(F[a], c)) = ToSet(F[a]) \ {c}
         /\ ToSet(F[a]) \subseteq Items
         /\ F[a] = <<>> <=> ToSet(F[a]) = {}
         /\ \A b \in HeadCells : b # a => ToSet(F[a]) \cap ToSet(F[b]) = {}
<1>1. F[a] \in Seq(Items) /\ Distinct(F[a])
  BY ListsApart
<1>2. \A b \in HeadCells : b # a => ToSet(F[a]) \cap ToSet(F[b]) = {}
  BY DEF Once, ToSet
<1>3. \A new \in Items : ToSet(<<new>> \o F[a]) = ToSet(F[a]) \cup {new}
  BY <1>1, ConsToSet
<1>4. \A new \in Items : ToSet(Append(F[a], new)) = ToSet(F[a]) \cup {new}
  BY <1>1, AppendToSet
<1>5. \A c : ToSet(Without(F[a], c)) = ToSet(F[a]) \ {c}
  BY <1>1, OutProcQToSet
<1>6. ToSet(F[a]) \subseteq Items /\ (F[a] = <<>> <=> ToSet(F[a]) = {})
  BY <1>1, ToSetProperties
<1> QED  BY <1>2, <1>3, <1>4, <1>5, <1>6

-----------------------------------------------------------------------------
(* The inductive invariant: some layout describes the state *)

Free(F)     == {p \in Pcbs : p_list(p) \in ToSet(F[pcbFree_h])}
InASL(F)    == {s \in Semds : s_link(s) \in ToSet(F[semd_h])}
HeadsOf(F)  == {pcbFree_h, semdFree_h, semd_h} \cup {procQ(q) : q \in Queues}
               \cup {p_child(p) : p \in Pcbs \ Free(F)} \cup {s_procq(s) : s \in InASL(F)}

\* What the list of head a may hold.
KindOf(a) == IF a \in {semdFree_h, semd_h} THEN SLinks
             ELSE IF a \in {p_child(p) : p \in Pcbs} THEN PSibs ELSE PLists
Sorted(F) == \A a \in HeadCells : ToSet(F[a]) \subseteq KindOf(a)

FieldsOK ==
  /\ p_parent \in [Pcbs -> Pcbs \cup {NULL}]
  /\ p_semAdd \in [Pcbs -> Keys \cup {NULL}]
  /\ s_key \in [Semds -> Keys \cup {NULL}]
  /\ held \subseteq Pcbs

\* The caller holds the PCBs that are in no list.
HeldOf(F) == \A p \in Pcbs : p \in held <=> \A a \in HeadCells : p_list(p) \notin ToSet(F[a])

\* A SEMD is free or active, and an active one has processes and a key of its own.
SemdsOf(F) ==
  /\ \A s \in Semds : s_link(s) \in ToSet(F[semdFree_h]) \cup ToSet(F[semd_h])
  /\ \A s \in InASL(F) : F[s_procq(s)] # <<>> /\ s_key[s] \in Keys
  /\ \A s, t \in InASL(F) : s_key[s] = s_key[t] => s = t

\* p_semAdd says in which queue of a SEMD a process is, p_parent in which list
\* of children; a free PCB has no parent.
SemAddOf(F) ==
  \A p \in Pcbs :
    /\ \A s \in Semds : p_list(p) \in ToSet(F[s_procq(s)]) => p_semAdd[p] = s_key[s]
    /\ (\A s \in Semds : p_list(p) \notin ToSet(F[s_procq(s)])) => p_semAdd[p] = NULL
ParentOf(F) ==
  /\ \A p, r \in Pcbs : p_sib(p) \in ToSet(F[p_child(r)]) <=> p_parent[p] = r
  /\ \A p \in Free(F) : p_parent[p] = NULL

Describes(F) ==
  /\ LaidOut(heap, F, HeadsOf(F))
  /\ Sorted(F)
  /\ FieldsOK
  /\ HeldOf(F)
  /\ SemdsOf(F)
  /\ SemAddOf(F)
  /\ ParentOf(F)

LinksInv == \E F : Describes(F)

-----------------------------------------------------------------------------
(* Reading the state off its layout *)

Names(cells) == [i \in DOMAIN cells |-> Owner(cells[i])]

\* The owners of the cells of a list.
LEMMA NamesToSet ==
  ASSUME NEW cells
  PROVE  \A x : x \in ToSet(Names(cells)) <=> \E c \in ToSet(cells) : x = Owner(c)
BY DEF ToSet, Names

\* Which cells are heads and items, and which heads are lists in a layout.
LEMMA HeadFacts ==
  /\ pcbFree_h \in HeadCells /\ semdFree_h \in HeadCells /\ semd_h \in HeadCells
  /\ \A q \in Queues : procQ(q) \in HeadCells
  /\ \A p \in Pcbs : p_child(p) \in HeadCells
  /\ \A s \in Semds : s_procq(s) \in HeadCells
  /\ \A p \in Pcbs : p_list(p) \in Items /\ p_sib(p) \in Items /\ p_list(p) \in PLists /\ p_sib(p) \in PSibs
  /\ \A s \in Semds : s_link(s) \in Items /\ s_link(s) \in SLinks
  /\ \A F : /\ HeadsOf(F) \subseteq HeadCells
            /\ {pcbFree_h, semdFree_h, semd_h} \subseteq HeadsOf(F)
            /\ \A q \in Queues : procQ(q) \in HeadsOf(F)
            /\ \A p \in Pcbs : p_child(p) \in HeadsOf(F) <=> p \notin Free(F)
            /\ \A s \in Semds : s_procq(s) \in HeadsOf(F) <=> s \in InASL(F)
<1>1. \A p, r : p_child(p) = p_child(r) => p = r
  BY CellNames
<1>2. \A s, t : s_procq(s) = s_procq(t) => s = t
  BY CellNames
<1>3. ASSUME NEW F, NEW p \in Pcbs PROVE p_child(p) \in HeadsOf(F) <=> p \notin Free(F)
  BY <1>1, CellNames DEF HeadsOf
<1>4. ASSUME NEW F, NEW s \in Semds PROVE s_procq(s) \in HeadsOf(F) <=> s \in InASL(F)
  BY <1>2, CellNames DEF HeadsOf
<1>5. ASSUME NEW F PROVE HeadsOf(F) \subseteq HeadCells
  BY DEF HeadsOf, HeadCells, Free, InASL
<1> QED  BY <1>3, <1>4, <1>5 DEF HeadCells, HeadsOf, Items, PLists, PSibs, SLinks

\* What each list may hold, and that a cell of a kind has an owner of that kind.
LEMMA KindFacts ==
  /\ KindOf(pcbFree_h) = PLists /\ KindOf(semdFree_h) = SLinks /\ KindOf(semd_h) = SLinks
  /\ \A q : KindOf(procQ(q)) = PLists
  /\ \A s : KindOf(s_procq(s)) = PLists
  /\ \A p \in Pcbs : KindOf(p_child(p)) = PSibs
  /\ PLists \cap PSibs = {} /\ PLists \cap SLinks = {} /\ PSibs \cap SLinks = {}
  /\ \A p \in Pcbs : p_list(p) \in PLists /\ p_sib(p) \in PSibs
  /\ \A s \in Semds : s_link(s) \in SLinks
  /\ \A c \in PLists : Owner(c) \in Pcbs /\ c = p_list(Owner(c))
  /\ \A c \in PSibs : Owner(c) \in Pcbs /\ c = p_sib(Owner(c))
  /\ \A c \in SLinks : Owner(c) \in Semds /\ c = s_link(Owner(c))
<1>1. KindOf(pcbFree_h) = PLists /\ KindOf(semdFree_h) = SLinks /\ KindOf(semd_h) = SLinks
  BY CellNames DEF KindOf
<1>2. \A q : KindOf(procQ(q)) = PLists
  BY CellNames DEF KindOf
<1>3. \A s : KindOf(s_procq(s)) = PLists
  BY CellNames DEF KindOf
<1>4. \A p \in Pcbs : KindOf(p_child(p)) = PSibs
  BY CellNames DEF KindOf
<1>5. PLists \cap PSibs = {} /\ PLists \cap SLinks = {} /\ PSibs \cap SLinks = {}
  BY CellNames DEF PLists, PSibs, SLinks
<1>6. /\ \A c \in PLists : Owner(c) \in Pcbs /\ c = p_list(Owner(c))
      /\ \A c \in PSibs : Owner(c) \in Pcbs /\ c = p_sib(Owner(c))
      /\ \A c \in SLinks : Owner(c) \in Semds /\ c = s_link(Owner(c))
  BY CellNames DEF PLists, PSibs, SLinks
<1>7. /\ \A p \in Pcbs : p_list(p) \in PLists /\ p_sib(p) \in PSibs
      /\ \A s \in Semds : s_link(s) \in SLinks
  BY DEF PLists, PSibs, SLinks
<1> QED  BY <1>1, <1>2, <1>3, <1>4, <1>5, <1>6, <1>7

\* In a state that a layout describes, walking the lists reads the layout.
LEMMA ReadLists ==
  ASSUME Phase1Assumption, NEW F, Describes(F)
  PROVE  /\ \A a \in HeadsOf(F) : Entries(heap, a) = F[a] /\ Owners(heap, a) = Names(F[a])
         /\ Allocated = Pcbs \ Free(F)
         /\ ToSet(Active) = InASL(F)
<1>1. LaidOut(heap, F, HeadsOf(F)) /\ Sorted(F)
  BY DEF Describes
<1>2. ASSUME NEW a \in HeadsOf(F) PROVE Entries(heap, a) = F[a] /\ Owners(heap, a) = Names(F[a])
  <2>1. Entries(heap, a) = F[a]  BY <1>1, WalkOfLayout
  <2> QED  BY <2>1 DEF Owners, Names
<1>3. ToSet(Owners(heap, pcbFree_h)) = Free(F)
  <2>1. Owners(heap, pcbFree_h) = Names(F[pcbFree_h])  BY <1>2, HeadFacts
  <2>2. ToSet(F[pcbFree_h]) \subseteq PLists  BY <1>1, HeadFacts, KindFacts DEF Sorted
  <2>3. ASSUME NEW p PROVE p \in ToSet(Names(F[pcbFree_h])) <=> p \in Free(F)
    <3>1. ASSUME NEW c \in ToSet(F[pcbFree_h]), p = Owner(c) PROVE p \in Free(F)
      BY <2>2, <3>1, KindFacts DEF Free
    <3>2. ASSUME p \in Free(F) PROVE \E c \in ToSet(F[pcbFree_h]) : p = Owner(c)
      BY <3>2, CellNames DEF Free
    <3> QED  BY <3>1, <3>2, NamesToSet
  <2> QED  BY <2>1, <2>3
<1>4. ToSet(Owners(heap, semd_h)) = InASL(F)
  <2>1. Owners(heap, semd_h) = Names(F[semd_h])  BY <1>2, HeadFacts
  <2>2. ToSet(F[semd_h]) \subseteq SLinks  BY <1>1, HeadFacts, KindFacts DEF Sorted
  <2>3. ASSUME NEW s PROVE s \in ToSet(Names(F[semd_h])) <=> s \in InASL(F)
    <3>1. ASSUME NEW c \in ToSet(F[semd_h]), s = Owner(c) PROVE s \in InASL(F)
      BY <2>2, <3>1, KindFacts DEF InASL
    <3>2. ASSUME s \in InASL(F) PROVE \E c \in ToSet(F[semd_h]) : s = Owner(c)
      BY <3>2, CellNames DEF InASL
    <3> QED  BY <3>1, <3>2, NamesToSet
  <2> QED  BY <2>1, <2>3
<1> QED  BY <1>2, <1>3, <1>4 DEF Allocated, Active

\* getSemd finds the SEMD of a semaphore that has one.
LEMMA GetSemdFinds ==
  ASSUME Phase1Assumption, NEW F, Describes(F), NEW k
  PROVE  /\ \A s \in InASL(F) : s_key[s] = k => getSemd(k) = s
         /\ (\A s \in InASL(F) : s_key[s] # k) => getSemd(k) = NULL
         /\ getSemd(k) # NULL => getSemd(k) \in InASL(F) /\ s_key[getSemd(k)] = k
<1> DEFINE active == Active
           hits == {i \in DOMAIN active : s_key[active[i]] = k}
           least == CHOOSE i \in hits : \A j \in hits : i <= j
<1>1. ToSet(active) = InASL(F)
  BY ReadLists
<1>2. DOMAIN active \subseteq Nat
  <2>1. active = Names(F[semd_h])
    BY ReadLists, HeadFacts DEF Active
  <2>2. F[semd_h] \in Seq(Items)
    BY HeadFacts DEF Describes, LaidOut, Layouts
  <2> QED  BY <2>1, <2>2 DEF Names
<1>3. getSemd(k) = IF hits = {} THEN NULL ELSE active[least]
  BY DEF getSemd
<1>4. \A i \in hits : active[i] \in InASL(F) /\ s_key[active[i]] = k
  BY <1>1 DEF ToSet
<1>5. \A s \in InASL(F) : s_key[s] = k => \E i \in hits : active[i] = s
  BY <1>1 DEF ToSet
<1>6. hits # {} => least \in hits
  <2>1. hits \in SUBSET Nat  BY <1>2
  <2> HIDE DEF hits
  <2> QED  BY <2>1, LeastNumber
<1> HIDE DEF hits, least, active
<1>7. \A s, t \in InASL(F) : s_key[s] = s_key[t] => s = t
  BY DEF Describes, SemdsOf
<1>8. NULL \notin InASL(F)
  BY DEF InASL, Phase1Assumption
<1>9. ASSUME NEW s \in InASL(F), s_key[s] = k PROVE getSemd(k) = s
  <2>1. hits # {}  BY <1>5, <1>9
  <2>2. getSemd(k) \in InASL(F) /\ s_key[getSemd(k)] = k  BY <1>3, <1>4, <1>6, <2>1
  <2> QED  BY <1>7, <1>9, <2>2
<1>10. ASSUME \A s \in InASL(F) : s_key[s] # k PROVE getSemd(k) = NULL
  BY <1>3, <1>4, <1>10
<1>11. ASSUME getSemd(k) # NULL PROVE getSemd(k) \in InASL(F) /\ s_key[getSemd(k)] = k
  BY <1>3, <1>4, <1>6, <1>11
<1> QED  BY <1>9, <1>10, <1>11

-----------------------------------------------------------------------------
(* What the operations do to the cells of a layout *)

\* The lists of G are those of F, c being in the list of a too.
Adds(F, G, a, c) ==
  \A b \in HeadCells : /\ ToSet(G[b]) = IF b = a THEN ToSet(F[b]) \cup {c} ELSE ToSet(F[b])
                       /\ b # a => G[b] = F[b]

\* The lists of G are those of F, c being out of the list of a.
Takes(F, G, a, c) ==
  \A b \in HeadCells : /\ ToSet(G[b]) = IF b = a THEN ToSet(F[b]) \ {c} ELSE ToSet(F[b])
                       /\ b # a => G[b] = F[b]

\* A list that grows gains one cell and the others keep theirs.
LEMMA EffectOfAdd ==
  ASSUME NEW F \in Layouts, Once(F), NEW a \in HeadCells, NEW c \in Items
  PROVE  /\ Adds(F, [F EXCEPT ![a] = <<c>> \o F[a]], a, c)
         /\ Adds(F, [F EXCEPT ![a] = Append(F[a], c)], a, c)
<1>1. ToSet(<<c>> \o F[a]) = ToSet(F[a]) \cup {c}
  BY CellsOfLayout
<1>2. ToSet(Append(F[a], c)) = ToSet(F[a]) \cup {c}
  BY CellsOfLayout
<1> DEFINE A == [F EXCEPT ![a] = <<c>> \o F[a]]
           B == [F EXCEPT ![a] = Append(F[a], c)]
<1>3. A[a] = <<c>> \o F[a] /\ \A b \in HeadCells \ {a} : A[b] = F[b]
  BY DEF Layouts
<1>4. B[a] = Append(F[a], c) /\ \A b \in HeadCells \ {a} : B[b] = F[b]
  BY DEF Layouts
<1> HIDE DEF A, B
<1>5. Adds(F, A, a, c) /\ Adds(F, B, a, c)
  BY <1>1, <1>2, <1>3, <1>4 DEF Adds
<1> QED  BY <1>5 DEF A, B

\* A list that shrinks loses one cell and the others keep theirs.
LEMMA EffectOfDel ==
  ASSUME NEW F \in Layouts, Once(F), NEW a \in HeadCells, NEW c
  PROVE  Takes(F, [F EXCEPT ![a] = Without(F[a], c)], a, c)
<1> DEFINE G == [F EXCEPT ![a] = Without(F[a], c)]
<1>1. G[a] = Without(F[a], c) /\ \A b \in HeadCells \ {a} : G[b] = F[b]
  BY DEF Layouts
<1> HIDE DEF G
<1>2. ToSet(G[a]) = ToSet(F[a]) \ {c}
  <2>1. ToSet(Without(F[a], c)) = ToSet(F[a]) \ {c}  BY CellsOfLayout
  <2> QED  BY <1>1, <2>1
<1>3. Takes(F, G, a, c)
  BY <1>1, <1>2 DEF Takes
<1> QED  BY <1>3 DEF G

\* What a layout that describes the state gives for every list.
LEMMA LayoutTypes ==
  ASSUME NEW F, Describes(F)
  PROVE  /\ F \in Layouts /\ Once(F) /\ LaidOut(heap, F, HeadsOf(F))
         /\ \A a \in HeadCells : F[a] = <<>> <=> ToSet(F[a]) = {}
         /\ \A a, b \in HeadCells : a # b => ToSet(F[a]) \cap ToSet(F[b]) = {}
         /\ \A a \in HeadCells : ToSet(F[a]) \subseteq KindOf(a)
         /\ \A a \in HeadCells \ HeadsOf(F) : F[a] = <<>>
<1>1. LaidOut(heap, F, HeadsOf(F)) /\ Sorted(F)
  BY DEF Describes
<1>2. F \in Layouts /\ Once(F) /\ \A a \in HeadCells \ HeadsOf(F) : F[a] = <<>>
  BY <1>1 DEF LaidOut
<1> QED  BY <1>1, <1>2, CellsOfLayout DEF Sorted

-----------------------------------------------------------------------------
(* The steps *)

\* insertProcQ appends the PCB to the queue.
LEMMA StepInsertProcQ ==
  ASSUME Phase1Assumption, NEW F, Describes(F), NEW q \in Queues, NEW p \in Pcbs, insertProcQ(q, p)
  PROVE  Describes([F EXCEPT ![procQ(q)] = Append(F[procQ(q)], p_list(p))])'
<1> DEFINE a == procQ(q)
           c == p_list(p)
           G == [F EXCEPT ![a] = Append(F[a], c)]
<1>1. F \in Layouts /\ Once(F) /\ LaidOut(heap, F, HeadsOf(F))
  BY LayoutTypes
<1>2. /\ p \in held
      /\ heap' = list_add_tail(heap, c, a)
      /\ held' = held \ {p}
      /\ UNCHANGED <<p_parent, p_semAdd, s_key>>
  BY DEF insertProcQ
<1>3. a \in HeadCells /\ a \in HeadsOf(F) /\ c \in Items /\ c \in PLists
  BY HeadFacts
<1>4. \A b \in HeadCells : c \notin ToSet(F[b])
  BY <1>2 DEF Describes, HeldOf
<1> HIDE DEF a, c, G
<1>5. LaidOut(heap', G, HeadsOf(F))
  BY <1>1, <1>2, <1>3, <1>4, LayoutAddTail DEF G
<1>6. Adds(F, G, a, c)
  BY <1>1, <1>3, EffectOfAdd DEF G
<1>7. /\ \A b \in HeadCells : ToSet(G[b]) = IF b = a THEN ToSet(F[b]) \cup {c} ELSE ToSet(F[b])
      /\ \A b \in HeadCells : b # a => G[b] = F[b]
  BY <1>6 DEF Adds
<1>8. /\ a # pcbFree_h /\ a # semd_h /\ a # semdFree_h /\ KindOf(a) = PLists
      /\ \A r : a # p_child(r) /\ \A s : a # s_procq(s)
  BY CellNames, KindFacts DEF a
<1>9. Free(G) = Free(F) /\ InASL(G) = InASL(F) /\ HeadsOf(G) = HeadsOf(F)
  BY <1>7, <1>8, HeadFacts DEF Free, InASL, HeadsOf
<1>10. Sorted(G)
  BY <1>3, <1>7, <1>8, LayoutTypes DEF Sorted
<1>11. FieldsOK'
  BY <1>2 DEF Describes, FieldsOK
<1>12. HeldOf(G)'
  <2>1. \A r \in Pcbs : r # p => p_list(r) # c
    BY CellNames DEF c
  <2> QED  BY <1>2, <1>3, <1>7, <2>1 DEF Describes, HeldOf, c
<1>13. SemdsOf(G)'
  BY <1>2, <1>7, <1>8, <1>9, HeadFacts DEF Describes, SemdsOf, InASL
<1>14. SemAddOf(G)'
  BY <1>2, <1>7, <1>8, HeadFacts DEF Describes, SemAddOf
<1>15. ParentOf(G)'
  BY <1>2, <1>7, <1>8, <1>9, HeadFacts DEF Describes, ParentOf
<1>16. Describes(G)'
  BY <1>5, <1>9, <1>10, <1>11, <1>12, <1>13, <1>14, <1>15 DEF Describes
<1> QED  BY <1>16 DEF G, a, c

\* The first entry of a list.
LEMMA HeadOfList ==
  ASSUME NEW F, Describes(F), NEW a \in HeadsOf(F)
  PROVE  /\ list_empty(heap, a) <=> F[a] = <<>>
         /\ F[a] # <<>> => /\ heap.next[a] = Head(F[a]) /\ Head(F[a]) \in ToSet(F[a])
                           /\ Head(F[a]) \in KindOf(a)
<1>1. LaidOut(heap, F, HeadsOf(F)) /\ a \in HeadCells /\ ToSet(F[a]) \subseteq KindOf(a)
  BY HeadFacts, LayoutTypes
<1> QED  BY <1>1, FirstOfLayout

\* headProcQ is the owner of the first cell, or NULL.
LEMMA HeadOfQueue ==
  ASSUME Phase1Assumption, NEW F, Describes(F), NEW a \in HeadsOf(F), KindOf(a) = PLists
  PROVE  /\ headProcQ(a) # NULL <=> F[a] # <<>>
         /\ F[a] # <<>> => /\ headProcQ(a) \in Pcbs
                           /\ p_list(headProcQ(a)) = Head(F[a])
                           /\ p_list(headProcQ(a)) \in ToSet(F[a])
<1>1. CASE F[a] = <<>>
  BY <1>1, HeadOfList DEF headProcQ
<1>2. CASE F[a] # <<>>
  <2>1. headProcQ(a) = Owner(Head(F[a])) /\ Head(F[a]) \in PLists /\ Head(F[a]) \in ToSet(F[a])
    BY <1>2, HeadOfList DEF headProcQ
  <2>2. Owner(Head(F[a])) \in Pcbs /\ Head(F[a]) = p_list(Owner(Head(F[a])))
    BY <2>1, KindFacts
  <2>3. NULL \notin Pcbs  BY DEF Phase1Assumption
  <2> QED  BY <1>2, <2>1, <2>2, <2>3
<1> QED  BY <1>1, <1>2

\* A process leaves a process queue, from the front or from anywhere.
LEMMA StepUnlink ==
  ASSUME Phase1Assumption, NEW F, Describes(F), NEW q \in Queues, NEW p \in Pcbs,
         p_list(p) \in ToSet(F[procQ(q)]), Unlink(p), UNCHANGED <<p_parent, p_semAdd, s_key>>
  PROVE  Describes([F EXCEPT ![procQ(q)] = Without(F[procQ(q)], p_list(p))])'
<1> DEFINE a == procQ(q)
           c == p_list(p)
           G == [F EXCEPT ![a] = Without(F[a], c)]
<1>1. F \in Layouts /\ Once(F) /\ LaidOut(heap, F, HeadsOf(F))
  BY LayoutTypes
<1>2. heap' = list_del(heap, c) /\ held' = held \cup {p}
  BY DEF Unlink
<1>3. a \in HeadCells /\ a \in HeadsOf(F) /\ c \in ToSet(F[a])
  BY HeadFacts
<1> HIDE DEF a, c, G
<1>4. LaidOut(heap', G, HeadsOf(F))
  BY <1>1, <1>2, <1>3, LayoutDel DEF G
<1>5. Takes(F, G, a, c)
  BY <1>1, <1>3, EffectOfDel DEF G
<1>6. /\ \A b \in HeadCells : ToSet(G[b]) = IF b = a THEN ToSet(F[b]) \ {c} ELSE ToSet(F[b])
      /\ \A b \in HeadCells : b # a => G[b] = F[b]
  BY <1>5 DEF Takes
<1>7. /\ a # pcbFree_h /\ a # semd_h /\ a # semdFree_h
      /\ \A r : a # p_child(r) /\ \A s : a # s_procq(s)
  BY CellNames DEF a
<1>8. Free(G) = Free(F) /\ InASL(G) = InASL(F) /\ HeadsOf(G) = HeadsOf(F)
  BY <1>6, <1>7, HeadFacts DEF Free, InASL, HeadsOf
<1>9. Sorted(G)
  BY <1>6, LayoutTypes DEF Sorted
<1>10. FieldsOK'
  BY <1>2 DEF Describes, FieldsOK
<1>11. HeldOf(G)'
  <2>1. \A r \in Pcbs : r # p => p_list(r) # c
    BY CellNames DEF c
  <2>2. \A b \in HeadCells : c \notin ToSet(G[b])
    BY <1>3, <1>6, LayoutTypes
  <2> QED  BY <1>2, <1>3, <1>6, <2>1, <2>2 DEF Describes, HeldOf, c
<1>12. SemdsOf(G)'
  BY <1>6, <1>7, <1>8, HeadFacts DEF Describes, SemdsOf, InASL
<1>13. SemAddOf(G)'
  BY <1>6, <1>7, HeadFacts DEF Describes, SemAddOf
<1>14. ParentOf(G)'
  BY <1>6, <1>7, <1>8, HeadFacts DEF Describes, ParentOf
<1>15. Describes(G)'
  BY <1>4, <1>8, <1>9, <1>10, <1>11, <1>12, <1>13, <1>14 DEF Describes
<1> QED  BY <1>15 DEF G, a, c

\* freePcb puts the PCB in front of the free list.
LEMMA StepFreePcb ==
  ASSUME Phase1Assumption, NEW F, Describes(F), NEW p \in Pcbs, freePcb(p)
  PROVE  Describes([F EXCEPT ![pcbFree_h] = <<p_list(p)>> \o F[pcbFree_h]])'
<1> DEFINE a == pcbFree_h
           c == p_list(p)
           G == [F EXCEPT ![a] = <<c>> \o F[a]]
<1>1. F \in Layouts /\ Once(F) /\ LaidOut(heap, F, HeadsOf(F))
  BY LayoutTypes
<1>2. /\ p \in held /\ p_parent[p] = NULL /\ list_empty(heap, p_child(p))
      /\ heap' = list_add(heap, c, a)
      /\ held' = held \ {p}
      /\ UNCHANGED <<p_parent, p_semAdd, s_key>>
  BY DEF freePcb
<1>3. a \in HeadCells /\ a \in HeadsOf(F) /\ c \in Items /\ c \in PLists
  BY HeadFacts
<1>4. \A b \in HeadCells : c \notin ToSet(F[b])
  BY <1>2 DEF Describes, HeldOf
<1>5. p \notin Free(F) /\ p_child(p) \in HeadsOf(F) /\ F[p_child(p)] = <<>>
  <2>1. p \notin Free(F)  BY <1>3, <1>4 DEF Free
  <2>2. p_child(p) \in HeadsOf(F)  BY <2>1, HeadFacts
  <2> QED  BY <1>2, <2>1, <2>2, HeadOfList
<1> HIDE DEF c, G
<1>6. LaidOut(heap', G, HeadsOf(F))
  BY <1>1, <1>2, <1>3, <1>4, LayoutAdd DEF G
<1>7. Adds(F, G, a, c)
  BY <1>1, <1>3, EffectOfAdd DEF G
<1>8. /\ \A b \in HeadCells : ToSet(G[b]) = IF b = a THEN ToSet(F[b]) \cup {c} ELSE ToSet(F[b])
      /\ \A b \in HeadCells : b # a => G[b] = F[b]
  BY <1>7 DEF Adds
<1>9. /\ a # semd_h /\ a # semdFree_h /\ KindOf(a) = PLists
      /\ \A r : a # p_child(r) /\ \A s : a # s_procq(s)
  BY CellNames, KindFacts
<1> HIDE DEF a
<1>10. Free(G) = Free(F) \cup {p} /\ InASL(G) = InASL(F)
  <2>1. \A r : p_list(r) = c => r = p
    BY CellNames DEF c
  <2> QED  BY <1>3, <1>8, <1>9, <2>1, HeadFacts DEF Free, InASL, a, c
<1>11. HeadsOf(G) = HeadsOf(F) \ {p_child(p)}
  <2>1. p_child(p) \notin {pcbFree_h, semdFree_h, semd_h} /\ p_child(p) \notin {procQ(q) : q \in Queues}
        /\ p_child(p) \notin {s_procq(s) : s \in InASL(F)} /\ \A r : p_child(r) = p_child(p) => r = p
    BY CellNames
  <2> QED  BY <1>10, <2>1 DEF HeadsOf
<1>12. LaidOut(heap', G, HeadsOf(G))
  <2>1. G[p_child(p)] = <<>>  BY <1>5, <1>8, <1>9, HeadFacts
  <2>2. LaidOut(heap', G, HeadsOf(F) \ {p_child(p)})  BY <1>6, <2>1, LayoutDrop
  <2> QED  BY <1>11, <2>2
<1>13. Sorted(G)
  BY <1>3, <1>8, <1>9, LayoutTypes DEF Sorted
<1>14. FieldsOK'
  BY <1>2 DEF Describes, FieldsOK
<1>15. HeldOf(G)'
  <2>1. \A r \in Pcbs : r # p => p_list(r) # c
    BY CellNames DEF c
  <2> QED  BY <1>2, <1>3, <1>8, <2>1 DEF Describes, HeldOf, c
<1>16. SemdsOf(G)'
  BY <1>2, <1>8, <1>9, <1>10, HeadFacts DEF Describes, SemdsOf, InASL
<1>17. SemAddOf(G)'
  BY <1>2, <1>8, <1>9, HeadFacts DEF Describes, SemAddOf
<1>18. ParentOf(G)'
  BY <1>2, <1>8, <1>9, <1>10, HeadFacts DEF Describes, ParentOf
<1>19. Describes(G)'
  BY <1>12, <1>13, <1>14, <1>15, <1>16, <1>17, <1>18 DEF Describes
<1> QED  BY <1>19 DEF G, a, c

\* allocPcb takes the first free PCB, whose list of children it makes empty.
LEMMA StepAllocPcb ==
  ASSUME Phase1Assumption, NEW F, Describes(F), NEW p, p = Owner(heap.next[pcbFree_h]), allocPcb
  PROVE  /\ p \in Pcbs /\ F[pcbFree_h] # <<>> /\ p_list(p) = Head(F[pcbFree_h])
         /\ held' = held \cup {p}
         /\ Describes([F EXCEPT ![pcbFree_h] = Without(F[pcbFree_h], p_list(p))])'
<1> DEFINE a == pcbFree_h
           c == p_list(p)
           G == [F EXCEPT ![a] = Without(F[a], c)]
           h1 == list_del(heap, c)
           h2 == SetNull(h1, c)
           h3 == SetNull(h2, p_sib(p))
           h4 == INIT_LIST_HEAD(h3, p_child(p))
<1>1. F \in Layouts /\ Once(F) /\ LaidOut(heap, F, HeadsOf(F))
  BY LayoutTypes
<1>2. /\ ~list_empty(heap, a)
      /\ heap' = h4
      /\ p_parent' = [p_parent EXCEPT ![p] = NULL]
      /\ p_semAdd' = [p_semAdd EXCEPT ![p] = NULL]
      /\ held' = held \cup {p}
      /\ UNCHANGED s_key
  BY DEF allocPcb
<1>3. a \in HeadCells /\ a \in HeadsOf(F)
  BY HeadFacts
<1>4. F[a] # <<>> /\ heap.next[a] = Head(F[a]) /\ Head(F[a]) \in ToSet(F[a]) /\ Head(F[a]) \in PLists
  BY <1>2, <1>3, HeadOfList, KindFacts
<1>5. p \in Pcbs /\ c = Head(F[a]) /\ c \in ToSet(F[a]) /\ p \in Free(F)
  BY <1>4, KindFacts DEF Free
<1>6. p_parent[p] = NULL /\ c \in Items /\ p_sib(p) \in Items /\ p_child(p) \in HeadCells \ HeadsOf(F)
  BY <1>5, HeadFacts DEF Describes, ParentOf
<1>7. p_semAdd[p] = NULL
  <2>1. \A s \in Semds : s_procq(s) # a /\ s_procq(s) \in HeadCells
    BY CellNames, HeadFacts
  <2>2. \A s \in Semds : c \notin ToSet(F[s_procq(s)])
    BY <1>3, <1>5, <2>1, LayoutTypes
  <2> QED  BY <1>5, <2>2 DEF Describes, SemAddOf
<1>8. p_parent' = p_parent /\ p_semAdd' = p_semAdd
  BY <1>2, <1>5, <1>6, <1>7 DEF Describes, FieldsOK
<1> HIDE DEF c, G, a
<1>9. LaidOut(h1, G, HeadsOf(F))
  BY <1>1, <1>3, <1>5, LayoutDel DEF G
<1>10. Takes(F, G, a, c)
  BY <1>1, <1>3, EffectOfDel DEF G
<1>11. /\ \A b \in HeadCells : ToSet(G[b]) = IF b = a THEN ToSet(F[b]) \ {c} ELSE ToSet(F[b])
       /\ \A b \in HeadCells : b # a => G[b] = F[b]
  BY <1>10 DEF Takes
<1>12. /\ a # semd_h /\ a # semdFree_h /\ KindOf(a) = PLists
       /\ \A r : a # p_child(r) /\ \A s : a # s_procq(s)
  BY CellNames, KindFacts DEF a
<1>13. \A b \in HeadCells : c \notin ToSet(G[b])
  BY <1>3, <1>5, <1>11, LayoutTypes
<1>14. \A b \in HeadCells : p_sib(p) \notin ToSet(G[b])
  <2> SUFFICES ASSUME NEW b \in HeadCells, p_sib(p) \in ToSet(F[b]) PROVE FALSE
    BY <1>11
  <2>1. p_sib(p) \in KindOf(b) /\ p_sib(p) \in PSibs
    BY <1>5, LayoutTypes, KindFacts
  <2>2. PICK r \in Pcbs : b = p_child(r)
    BY <2>1, KindFacts DEF KindOf
  <2>3. p_parent[p] = r
    BY <1>5, <2>2 DEF Describes, ParentOf
  <2> QED  BY <1>6, <2>3 DEF Phase1Assumption
<1> HIDE DEF h1
<1>15. LaidOut(h2, G, HeadsOf(F))
  BY <1>6, <1>9, <1>13, LayoutNull
<1> HIDE DEF h2
<1>16. LaidOut(h3, G, HeadsOf(F))
  BY <1>6, <1>14, <1>15, LayoutNull
<1> HIDE DEF h3
<1>17. LaidOut(heap', G, HeadsOf(F) \cup {p_child(p)})
  BY <1>2, <1>6, <1>16, LayoutInit
<1>18. Free(G) = Free(F) \ {p} /\ InASL(G) = InASL(F)
  <2>1. \A r : p_list(r) = c => r = p
    BY CellNames DEF c
  <2> QED  BY <1>3, <1>11, <1>12, <2>1, HeadFacts DEF Free, InASL, a, c
<1>19. HeadsOf(G) = HeadsOf(F) \cup {p_child(p)}
  BY <1>5, <1>18 DEF HeadsOf
<1>20. Sorted(G)
  BY <1>11, LayoutTypes DEF Sorted
<1>21. FieldsOK'
  BY <1>2, <1>5, <1>8 DEF Describes, FieldsOK
<1>22. HeldOf(G)'
  <2>1. \A r \in Pcbs : r # p => p_list(r) # c
    BY CellNames DEF c
  <2> QED  BY <1>2, <1>3, <1>11, <1>13, <2>1 DEF Describes, HeldOf, c
<1>23. SemdsOf(G)'
  BY <1>2, <1>11, <1>12, <1>18, HeadFacts DEF Describes, SemdsOf, InASL
<1>24. SemAddOf(G)'
  BY <1>2, <1>8, <1>11, <1>12, HeadFacts DEF Describes, SemAddOf
<1>25. ParentOf(G)'
  BY <1>2, <1>8, <1>11, <1>12, <1>18, HeadFacts DEF Describes, ParentOf
<1>26. Describes(G)'
  BY <1>17, <1>19, <1>20, <1>21, <1>22, <1>23, <1>24, <1>25 DEF Describes
<1> QED  BY <1>2, <1>4, <1>5, <1>26 DEF G, a, c

\* insertChild puts the process in front of the children of its parent.
LEMMA StepInsertChild ==
  ASSUME Phase1Assumption, NEW F, Describes(F), NEW prnt \in Pcbs, NEW p \in Pcbs, insertChild(prnt, p)
  PROVE  Describes([F EXCEPT ![p_child(prnt)] = <<p_sib(p)>> \o F[p_child(prnt)]])'
<1> DEFINE a == p_child(prnt)
           c == p_sib(p)
           G == [F EXCEPT ![a] = <<c>> \o F[a]]
<1>1. F \in Layouts /\ Once(F) /\ LaidOut(heap, F, HeadsOf(F))
  BY LayoutTypes
<1>2. /\ prnt \in Allocated /\ p \in held /\ p_parent[p] = NULL
      /\ heap' = list_add(heap, c, a)
      /\ p_parent' = [p_parent EXCEPT ![p] = prnt]
      /\ UNCHANGED <<p_semAdd, s_key, held>>
  BY DEF insertChild
<1>3. a \in HeadCells /\ a \in HeadsOf(F) /\ c \in Items /\ c \in PSibs
  BY <1>2, ReadLists, HeadFacts
<1>4. \A b \in HeadCells : c \notin ToSet(F[b])
  <2> SUFFICES ASSUME NEW b \in HeadCells, c \in ToSet(F[b]) PROVE FALSE
    OBVIOUS
  <2>1. c \in KindOf(b)
    BY LayoutTypes
  <2>2. PICK r \in Pcbs : b = p_child(r)
    BY <1>3, <2>1, KindFacts DEF KindOf
  <2>3. p_parent[p] = r
    BY <2>2 DEF Describes, ParentOf
  <2> QED  BY <1>2, <2>3 DEF Phase1Assumption
<1>5. p \notin Free(F)
  BY <1>2, HeadFacts DEF Free, Describes, HeldOf
<1> HIDE DEF c, G
<1>6. LaidOut(heap', G, HeadsOf(F))
  BY <1>1, <1>2, <1>3, <1>4, LayoutAdd DEF G
<1>7. Adds(F, G, a, c)
  BY <1>1, <1>3, EffectOfAdd DEF G
<1>8. /\ \A b \in HeadCells : ToSet(G[b]) = IF b = a THEN ToSet(F[b]) \cup {c} ELSE ToSet(F[b])
      /\ \A b \in HeadCells : b # a => G[b] = F[b]
  BY <1>7 DEF Adds
<1>9. /\ a # pcbFree_h /\ a # semd_h /\ a # semdFree_h /\ KindOf(a) = PSibs
      /\ (\A q : a # procQ(q)) /\ (\A s : a # s_procq(s)) /\ \A r : a = p_child(r) => r = prnt
  BY CellNames, KindFacts
<1>10. c \notin PLists /\ \A r : p_sib(r) = c => r = p
  BY <1>3, KindFacts, CellNames DEF c
<1> HIDE DEF a
<1>11. Free(G) = Free(F) /\ InASL(G) = InASL(F) /\ HeadsOf(G) = HeadsOf(F)
  BY <1>8, <1>9, HeadFacts DEF Free, InASL, HeadsOf
<1>12. Sorted(G)
  BY <1>3, <1>8, <1>9, LayoutTypes DEF Sorted
<1>13. FieldsOK'
  BY <1>2 DEF Describes, FieldsOK
<1>14. HeldOf(G)'
  <2>1. \A r \in Pcbs : p_list(r) # c
    BY <1>10, HeadFacts
  <2> QED  BY <1>2, <1>8, <2>1 DEF Describes, HeldOf
<1>15. SemdsOf(G)'
  BY <1>2, <1>8, <1>9, <1>11, HeadFacts DEF Describes, SemdsOf, InASL
<1>16. SemAddOf(G)'
  BY <1>2, <1>8, <1>9, HeadFacts DEF Describes, SemAddOf
<1>17. ParentOf(G)'
  <2>1. p_parent'[p] = prnt /\ \A r \in Pcbs : r # p => p_parent'[r] = p_parent[r]
    BY <1>2 DEF Describes, FieldsOK
  <2>2. ASSUME NEW x \in Pcbs, NEW r \in Pcbs
        PROVE  p_sib(x) \in ToSet(G[p_child(r)]) <=> p_parent'[x] = r
    <3>0. p_child(r) \in HeadCells  BY HeadFacts
    <3>1. p_sib(x) \in ToSet(F[p_child(r)]) <=> p_parent[x] = r
      BY DEF Describes, ParentOf
    <3>2. CASE x # p
      BY <1>8, <1>10, <2>1, <3>0, <3>1, <3>2
    <3>3. CASE x = p
      <4>1. c \in ToSet(G[p_child(r)]) <=> p_child(r) = a
        BY <1>4, <1>8, <3>0
      <4>2. p_child(r) = a <=> r = prnt
        BY <1>9 DEF a
      <4> QED  BY <2>1, <3>3, <4>1, <4>2 DEF c
    <3> QED  BY <3>2, <3>3
  <2>3. \A x \in Free(G) : p_parent'[x] = NULL
    BY <1>5, <1>11, <2>1 DEF Describes, ParentOf, Free
  <2> QED  BY <2>2, <2>3 DEF ParentOf
<1>18. Describes(G)'
  BY <1>6, <1>11, <1>12, <1>13, <1>14, <1>15, <1>16, <1>17 DEF Describes
<1> QED  BY <1>18 DEF G, a, c

\* A child leaves its parent.
LEMMA StepUnchild ==
  ASSUME Phase1Assumption, NEW F, Describes(F), NEW r \in Pcbs, NEW p \in Pcbs,
         p_sib(p) \in ToSet(F[p_child(r)]),
         heap' = list_del(heap, p_sib(p)), p_parent' = [p_parent EXCEPT ![p] = NULL],
         UNCHANGED <<p_semAdd, s_key, held>>
  PROVE  Describes([F EXCEPT ![p_child(r)] = Without(F[p_child(r)], p_sib(p))])'
<1> DEFINE a == p_child(r)
           c == p_sib(p)
           G == [F EXCEPT ![a] = Without(F[a], c)]
<1>1. F \in Layouts /\ Once(F) /\ LaidOut(heap, F, HeadsOf(F))
  BY LayoutTypes
<1>2. a \in HeadCells /\ c \in ToSet(F[a]) /\ F[a] # <<>> /\ a \in HeadsOf(F) /\ c \in PSibs
  <2>1. a \in HeadCells /\ c \in PSibs  BY HeadFacts
  <2>2. F[a] # <<>>  BY <2>1, LayoutTypes
  <2> QED  BY <2>1, <2>2, LayoutTypes
<1>3. /\ a # pcbFree_h /\ a # semd_h /\ a # semdFree_h
      /\ (\A q : a # procQ(q)) /\ (\A s : a # s_procq(s)) /\ \A x : a = p_child(x) => x = r
  BY CellNames
<1>4. c \notin PLists /\ \A x : p_sib(x) = c => x = p
  BY <1>2, KindFacts, CellNames
<1> HIDE DEF a, c, G
<1>5. LaidOut(heap', G, HeadsOf(F))
  BY <1>1, <1>2, LayoutDel DEF G, c
<1>6. Takes(F, G, a, c)
  BY <1>1, <1>2, EffectOfDel DEF G
<1>7. /\ \A b \in HeadCells : ToSet(G[b]) = IF b = a THEN ToSet(F[b]) \ {c} ELSE ToSet(F[b])
      /\ \A b \in HeadCells : b # a => G[b] = F[b]
  BY <1>6 DEF Takes
<1>8. Free(G) = Free(F) /\ InASL(G) = InASL(F) /\ HeadsOf(G) = HeadsOf(F)
  BY <1>3, <1>7, HeadFacts DEF Free, InASL, HeadsOf
<1>9. Sorted(G)
  BY <1>7, LayoutTypes DEF Sorted
<1>10. FieldsOK'
  BY DEF Describes, FieldsOK
<1>11. HeldOf(G)'
  <2>1. \A x \in Pcbs : p_list(x) # c
    BY <1>4, HeadFacts
  <2> QED  BY <1>7, <2>1 DEF Describes, HeldOf
<1>12. SemdsOf(G)'
  BY <1>3, <1>7, <1>8, HeadFacts DEF Describes, SemdsOf, InASL
<1>13. SemAddOf(G)'
  BY <1>3, <1>7, HeadFacts DEF Describes, SemAddOf
<1>14. ParentOf(G)'
  <2>1. p_parent'[p] = NULL /\ \A x \in Pcbs : x # p => p_parent'[x] = p_parent[x]
    BY DEF Describes, FieldsOK
  <2>2. ASSUME NEW x \in Pcbs, NEW y \in Pcbs
        PROVE  p_sib(x) \in ToSet(G[p_child(y)]) <=> p_parent'[x] = y
    <3>0. p_child(y) \in HeadCells  BY HeadFacts
    <3>1. p_sib(x) \in ToSet(F[p_child(y)]) <=> p_parent[x] = y
      BY DEF Describes, ParentOf
    <3>2. CASE x # p
      BY <1>4, <1>7, <2>1, <3>0, <3>1, <3>2
    <3>3. CASE x = p
      <4>1. c \notin ToSet(G[p_child(y)])
        BY <1>2, <1>7, <3>0, LayoutTypes
      <4>2. p_parent'[p] # y
        BY <2>1 DEF Phase1Assumption
      <4> QED  BY <3>3, <4>1, <4>2 DEF c
    <3> QED  BY <3>2, <3>3
  <2>3. \A x \in Free(G) : p_parent'[x] = NULL
    BY <1>8, <2>1 DEF Describes, ParentOf, Free
  <2> QED  BY <2>2, <2>3 DEF ParentOf
<1>15. Describes(G)'
  BY <1>5, <1>8, <1>9, <1>10, <1>11, <1>12, <1>13, <1>14 DEF Describes
<1> QED  BY <1>15 DEF G, a, c

\* A process joins the queue of an active SEMD.
LEMMA StepBlock ==
  ASSUME Phase1Assumption, NEW F, Describes(F), NEW s \in InASL(F), NEW k, k = s_key[s],
         NEW p \in Pcbs, p \in held, Block(heap, s, k, p), UNCHANGED <<p_parent, s_key>>
  PROVE  Describes([F EXCEPT ![s_procq(s)] = Append(F[s_procq(s)], p_list(p))])'
<1> DEFINE a == s_procq(s)
           c == p_list(p)
           G == [F EXCEPT ![a] = Append(F[a], c)]
<1>1. F \in Layouts /\ Once(F) /\ LaidOut(heap, F, HeadsOf(F))
  BY LayoutTypes
<1>2. /\ heap' = list_add_tail(heap, c, a)
      /\ p_semAdd' = [p_semAdd EXCEPT ![p] = k]
      /\ held' = held \ {p}
  BY DEF Block
<1>3. s \in Semds /\ a \in HeadCells /\ a \in HeadsOf(F) /\ c \in Items /\ c \in PLists
  BY HeadFacts DEF InASL
<1>4. \A b \in HeadCells : c \notin ToSet(F[b])
  BY DEF Describes, HeldOf
<1>5. /\ a # pcbFree_h /\ a # semd_h /\ a # semdFree_h /\ KindOf(a) = PLists
      /\ (\A q : a # procQ(q)) /\ (\A r : a # p_child(r)) /\ \A t : a = s_procq(t) => t = s
  BY CellNames, KindFacts
<1>6. k \in Keys
  BY DEF Describes, SemdsOf
<1>7. \A r : p_list(r) = c => r = p
  BY CellNames
<1> HIDE DEF a, c, G
<1>8. LaidOut(heap', G, HeadsOf(F))
  BY <1>1, <1>2, <1>3, <1>4, LayoutAddTail DEF G
<1>9. Adds(F, G, a, c)
  BY <1>1, <1>3, EffectOfAdd DEF G
<1>10. /\ \A b \in HeadCells : ToSet(G[b]) = IF b = a THEN ToSet(F[b]) \cup {c} ELSE ToSet(F[b])
       /\ \A b \in HeadCells : b # a => G[b] = F[b]
  BY <1>9 DEF Adds
<1>11. Free(G) = Free(F) /\ InASL(G) = InASL(F) /\ HeadsOf(G) = HeadsOf(F)
  BY <1>5, <1>10, HeadFacts DEF Free, InASL, HeadsOf
<1>12. Sorted(G)
  BY <1>3, <1>5, <1>10, LayoutTypes DEF Sorted
<1>13. FieldsOK'
  BY <1>2, <1>6 DEF Describes, FieldsOK
<1>14. HeldOf(G)'
  BY <1>2, <1>3, <1>7, <1>10 DEF Describes, HeldOf, c
<1>15. G \in Layouts /\ Once(G)
  BY <1>8 DEF LaidOut
<1>16. SemdsOf(G)'
  <2>1. \A t \in InASL(G) : G[s_procq(t)] # <<>>
    <3> SUFFICES ASSUME NEW t \in InASL(F) PROVE G[s_procq(t)] # <<>>
      BY <1>11
    <3>1. s_procq(t) \in HeadCells /\ F[s_procq(t)] # <<>>
      BY HeadFacts DEF InASL, Describes, SemdsOf
    <3>2. ToSet(F[s_procq(t)]) # {}
      BY <3>1, LayoutTypes
    <3>3. ToSet(G[s_procq(t)]) # {}
      BY <1>10, <3>1, <3>2
    <3> QED  BY <1>15, <3>1, <3>3, CellsOfLayout
  <2> QED  BY <1>5, <1>10, <1>11, <2>1, HeadFacts DEF Describes, SemdsOf, InASL
<1>17. SemAddOf(G)'
  <2>1. p_semAdd'[p] = k /\ \A r \in Pcbs : r # p => p_semAdd'[r] = p_semAdd[r]
    BY <1>2, <1>6 DEF Describes, FieldsOK
  <2>2. ASSUME NEW x \in Pcbs, NEW t \in Semds, p_list(x) \in ToSet(G[s_procq(t)])
        PROVE  p_semAdd'[x] = s_key[t]
    <3>0. s_procq(t) \in HeadCells  BY HeadFacts
    <3>1. CASE x = p
      <4>1. s_procq(t) = a  BY <1>4, <1>10, <2>2, <3>0, <3>1 DEF c
      <4> QED  BY <1>5, <2>1, <3>1, <4>1
    <3>2. CASE x # p
      <4>1. p_list(x) \in ToSet(F[s_procq(t)])  BY <1>7, <1>10, <2>2, <3>0, <3>2
      <4> QED  BY <2>1, <3>2, <4>1 DEF Describes, SemAddOf
    <3> QED  BY <3>1, <3>2
  <2>3. ASSUME NEW x \in Pcbs, \A t \in Semds : p_list(x) \notin ToSet(G[s_procq(t)])
        PROVE  p_semAdd'[x] = NULL
    <3>1. x # p
      BY <1>3, <1>10, <2>3 DEF a, c
    <3>2. \A t \in Semds : p_list(x) \notin ToSet(F[s_procq(t)])
      BY <1>10, <2>3, HeadFacts
    <3> QED  BY <2>1, <3>1, <3>2 DEF Describes, SemAddOf
  <2> QED  BY <2>2, <2>3 DEF SemAddOf
<1>18. ParentOf(G)'
  BY <1>5, <1>10, <1>11, HeadFacts DEF Describes, ParentOf
<1>19. Describes(G)'
  BY <1>8, <1>11, <1>12, <1>13, <1>14, <1>16, <1>17, <1>18 DEF Describes
<1> QED  BY <1>19 DEF G, a, c

\* From the layout F to G the SEMD new becomes active, with p in its queue.
SemdTaken(F, G, new, p) ==
  /\ new \in Semds \ InASL(F) /\ InASL(G) = InASL(F) \cup {new}
  /\ G[s_procq(new)] = <<p_list(p)>>
  /\ \A b \in HeadCells \ {semdFree_h, semd_h, s_procq(new)} : G[b] = F[b]

\* insertBlocked(k, p) for a semaphore that has no SEMD; new is the one it gets.
BlockNew(new, k, p) ==
  /\ new = Owner(heap.next[semdFree_h]) /\ ~list_empty(heap, semdFree_h)
  /\ p \in held
  /\ s_key' = [s_key EXCEPT ![new] = k] /\ Block(allocSemd(heap, new), new, k, p)
  /\ UNCHANGED p_parent

\* A process joins the queue of a SEMD that is taken from the free list for it.
LEMMA StepBlockNew ==
  ASSUME Phase1Assumption, NEW F, Describes(F), NEW k \in Keys, \A s \in InASL(F) : s_key[s] # k,
         NEW new, NEW p \in Pcbs, BlockNew(new, k, p)
  PROVE  \E G : Describes(G)' /\ SemdTaken(F, G, new, p)
<1> DEFINE a == s_procq(new)
           c == p_list(p)
           l == s_link(new)
           F1 == [F EXCEPT ![semdFree_h] = Without(F[semdFree_h], l)]
           F2 == [F1 EXCEPT ![semd_h] = <<l>> \o F1[semd_h]]
           G == [F2 EXCEPT ![a] = Append(F2[a], c)]
           h1 == list_del(heap, l)
           h2 == list_add(h1, l, semd_h)
           h3 == INIT_LIST_HEAD(h2, a)
<1> USE DEF BlockNew
<1>1. F \in Layouts /\ Once(F) /\ LaidOut(heap, F, HeadsOf(F))
  BY LayoutTypes
<1>2. semdFree_h \in HeadsOf(F) /\ semd_h \in HeadsOf(F) /\ semdFree_h \in HeadCells /\ semd_h \in HeadCells
      /\ semdFree_h # semd_h /\ semd_h # pcbFree_h /\ semdFree_h # pcbFree_h
  BY HeadFacts, CellNames
<1>3. /\ F[semdFree_h] # <<>> /\ heap.next[semdFree_h] = Head(F[semdFree_h])
      /\ Head(F[semdFree_h]) \in ToSet(F[semdFree_h]) /\ Head(F[semdFree_h]) \in SLinks
  BY <1>2, HeadOfList, KindFacts
<1>4. new \in Semds /\ l \in ToSet(F[semdFree_h]) /\ l \in SLinks /\ l \in Items
  BY <1>3, KindFacts, HeadFacts
<1>5. new \notin InASL(F)
  BY <1>2, <1>4, LayoutTypes DEF InASL
<1>6. a \in HeadCells /\ a \notin HeadsOf(F) /\ F[a] = <<>> /\ c \in Items /\ c \in PLists
  BY <1>4, <1>5, HeadFacts, LayoutTypes
<1>7. \A b \in HeadCells : c \notin ToSet(F[b])
  BY DEF Describes, HeldOf
<1>8. /\ a # pcbFree_h /\ a # semd_h /\ a # semdFree_h /\ KindOf(a) = PLists
      /\ (\A q : a # procQ(q)) /\ (\A r : a # p_child(r)) /\ \A t : a = s_procq(t) => t = new
  BY CellNames, KindFacts
<1>9. /\ heap' = list_add_tail(h3, c, a)
      /\ p_semAdd' = [p_semAdd EXCEPT ![p] = k]
      /\ held' = held \ {p}
  BY DEF Block, allocSemd
<1>10. (\A r : p_list(r) = c => r = p) /\ (\A t : s_link(t) = l => t = new) /\ c # l
       /\ KindOf(semd_h) = SLinks /\ KindOf(semdFree_h) = SLinks
       /\ (\A r : p_list(r) # l) /\ (\A t : s_link(t) # c) /\ \A r : p_sib(r) # c /\ p_sib(r) # l
  BY CellNames, KindFacts
<1> HIDE DEF a, c, l
<1> HIDE DEF F1
<1>11. LaidOut(h1, F1, HeadsOf(F)) /\ Takes(F, F1, semdFree_h, l)
  BY <1>1, <1>2, <1>4, LayoutDel, EffectOfDel DEF F1
<1>12. F1 \in Layouts /\ Once(F1) /\ \A b \in HeadCells : l \notin ToSet(F1[b])
  BY <1>2, <1>4, <1>11, LayoutTypes DEF LaidOut, Takes
<1> HIDE DEF F2, h1
<1>13. LaidOut(h2, F2, HeadsOf(F)) /\ Adds(F1, F2, semd_h, l)
  BY <1>2, <1>4, <1>11, <1>12, LayoutAdd, EffectOfAdd DEF F2
<1> HIDE DEF h2
<1>14. LaidOut(h3, F2, HeadsOf(F) \cup {a})
  BY <1>6, <1>13, LayoutInit
<1>15. F2 \in Layouts /\ Once(F2) /\ F2[a] = <<>> /\ \A b \in HeadCells : c \notin ToSet(F2[b])
  BY <1>2, <1>6, <1>7, <1>8, <1>10, <1>11, <1>13 DEF LaidOut, Takes, Adds
<1> HIDE DEF G, h3
<1>16. LaidOut(heap', G, HeadsOf(F) \cup {a}) /\ Adds(F2, G, a, c)
  BY <1>6, <1>9, <1>14, <1>15, LayoutAddTail, EffectOfAdd DEF G
<1>17. /\ \A b \in HeadCells : b # a /\ b # semd_h /\ b # semdFree_h => G[b] = F[b]
       /\ ToSet(G[semdFree_h]) = ToSet(F[semdFree_h]) \ {l}
       /\ ToSet(G[semd_h]) = ToSet(F[semd_h]) \cup {l}
       /\ ToSet(G[a]) = {c}
  <2>1. ToSet(F2[a]) = {}  BY <1>6, <1>15, CellsOfLayout
  <2> QED  BY <1>2, <1>6, <1>8, <1>11, <1>13, <1>16, <2>1 DEF Takes, Adds
<1>18. G[a] = <<c>>
  <2>1. G[a] = Append(F2[a], c)  BY <1>6, <1>15 DEF G, Layouts
  <2> QED  BY <1>15, <2>1
<1>19. Free(G) = Free(F) /\ InASL(G) = InASL(F) \cup {new}
  BY <1>2, <1>4, <1>8, <1>10, <1>17, HeadFacts DEF Free, InASL, l
<1>20. HeadsOf(G) = HeadsOf(F) \cup {a}
  BY <1>19 DEF HeadsOf, a
<1>21. Sorted(G)
  <2> SUFFICES ASSUME NEW b \in HeadCells PROVE ToSet(G[b]) \subseteq KindOf(b)
    BY DEF Sorted
  <2>1. ToSet(F[b]) \subseteq KindOf(b)  BY LayoutTypes
  <2> QED  BY <1>4, <1>6, <1>8, <1>10, <1>17, <2>1
<1>22. FieldsOK'
  BY <1>4, <1>9 DEF Describes, FieldsOK
<1>23. HeldOf(G)'
  <2> SUFFICES ASSUME NEW r \in Pcbs
               PROVE r \in held' <=> \A b \in HeadCells : p_list(r) \notin ToSet(G[b])
    BY DEF HeldOf
  <2>1. CASE r = p
    BY <1>6, <1>9, <1>17, <2>1 DEF c
  <2>2. CASE r # p
    <3>1. r \in held <=> \A b \in HeadCells : p_list(r) \notin ToSet(F[b])
      BY DEF Describes, HeldOf
    <3>2. \A b \in HeadCells : p_list(r) \in ToSet(F[b]) <=> p_list(r) \in ToSet(G[b])
      <4>1. ToSet(F[a]) = {}  BY <1>6, LayoutTypes
      <4> QED  BY <1>10, <1>17, <2>2, <4>1
    <3> QED  BY <1>9, <2>2, <3>1, <3>2
  <2> QED  BY <2>1, <2>2
<1>24. s_key'[new] = k /\ \A t \in Semds : t # new => s_key'[t] = s_key[t]
  BY <1>4 DEF Describes, FieldsOK
<1>25. SemdsOf(G)'
  <2>1. \A s \in Semds : s_link(s) \in ToSet(G[semdFree_h]) \cup ToSet(G[semd_h])
    <3> SUFFICES ASSUME NEW s \in Semds PROVE s_link(s) \in ToSet(G[semdFree_h]) \cup ToSet(G[semd_h])
      OBVIOUS
    <3>1. s_link(s) \in ToSet(F[semdFree_h]) \cup ToSet(F[semd_h])  BY DEF Describes, SemdsOf
    <3> QED  BY <1>17, <3>1
  <2>2. \A s \in InASL(F) : G[s_procq(s)] = F[s_procq(s)] /\ s \in Semds /\ s # new
    BY <1>5, <1>8, <1>17, HeadFacts, CellNames DEF InASL
  <2>3. \A s \in InASL(G) : G[s_procq(s)] # <<>> /\ s_key'[s] \in Keys
    <3>1. G[a] # <<>>  BY <1>18
    <3> QED  BY <1>19, <1>24, <2>2, <3>1 DEF Describes, SemdsOf, a
  <2>4. \A s, t \in InASL(G) : s_key'[s] = s_key'[t] => s = t
    BY <1>19, <1>24, <2>2 DEF Describes, SemdsOf
  <2> QED  BY <2>1, <2>3, <2>4 DEF SemdsOf
<1>26. SemAddOf(G)'
  <2>1. p_semAdd'[p] = k /\ \A r \in Pcbs : r # p => p_semAdd'[r] = p_semAdd[r]
    BY <1>9 DEF Describes, FieldsOK
  <2>2. ASSUME NEW x \in Pcbs, NEW t \in Semds, p_list(x) \in ToSet(G[s_procq(t)])
        PROVE  p_semAdd'[x] = s_key'[t]
    <3>0. s_procq(t) \in HeadCells /\ s_procq(t) # semd_h /\ s_procq(t) # semdFree_h
      BY HeadFacts, CellNames
    <3>1. CASE s_procq(t) = a
      <4>1. x = p /\ t = new  BY <1>8, <1>10, <1>17, <2>2, <3>1
      <4> QED  BY <1>24, <2>1, <4>1
    <3>2. CASE s_procq(t) # a
      <4>1. p_list(x) \in ToSet(F[s_procq(t)])  BY <1>17, <2>2, <3>0, <3>2
      <4>2. x # p /\ t # new  BY <1>7, <3>0, <3>2, <4>1 DEF c, a
      <4> QED  BY <1>24, <2>1, <4>1, <4>2 DEF Describes, SemAddOf
    <3> QED  BY <3>1, <3>2
  <2>3. ASSUME NEW x \in Pcbs, \A t \in Semds : p_list(x) \notin ToSet(G[s_procq(t)])
        PROVE  p_semAdd'[x] = NULL
    <3>1. x # p
      BY <1>4, <1>17, <2>3 DEF a, c
    <3>2. \A t \in Semds : p_list(x) \notin ToSet(F[s_procq(t)])
      <4> SUFFICES ASSUME NEW t \in Semds, p_list(x) \in ToSet(F[s_procq(t)]) PROVE FALSE
        OBVIOUS
      <4>1. s_procq(t) # a  BY <1>6, LayoutTypes
      <4> QED  BY <1>17, <2>3, <4>1, HeadFacts, CellNames
    <3> QED  BY <2>1, <3>1, <3>2 DEF Describes, SemAddOf
  <2> QED  BY <2>2, <2>3 DEF SemAddOf
<1>27. ParentOf(G)'
  <2>1. \A r \in Pcbs : G[p_child(r)] = F[p_child(r)]
    BY <1>8, <1>17, HeadFacts, CellNames
  <2> QED  BY <1>19, <2>1 DEF Describes, ParentOf
<1>28. Describes(G)'
  BY <1>16, <1>20, <1>21, <1>22, <1>23, <1>25, <1>26, <1>27 DEF Describes
<1>29. /\ Describes(G)'
       /\ new \in Semds \ InASL(F) /\ InASL(G) = InASL(F) \cup {new}
       /\ G[s_procq(new)] = <<p_list(p)>>
       /\ \A b \in HeadCells \ {semdFree_h, semd_h, s_procq(new)} : G[b] = F[b]
  BY <1>4, <1>5, <1>17, <1>18, <1>19, <1>28 DEF a, c
<1> QED  BY <1>29 DEF SemdTaken

\* A process leaves the queue of a SEMD, which is freed if it was the last one.
LEMMA StepUnblock ==
  ASSUME Phase1Assumption, NEW F, Describes(F), NEW s \in InASL(F), NEW p \in Pcbs,
         p_list(p) \in ToSet(F[s_procq(s)]), Unblock(s, p)
  PROVE  \E G : /\ Describes(G)'
                /\ G[s_procq(s)] = Without(F[s_procq(s)], p_list(p))
                /\ InASL(G) = IF G[s_procq(s)] = <<>> THEN InASL(F) \ {s} ELSE InASL(F)
                /\ \A b \in HeadCells \ {semdFree_h, semd_h, s_procq(s)} : G[b] = F[b]
<1> DEFINE a == s_procq(s)
           c == p_list(p)
           l == s_link(s)
           h == list_del(heap, c)
           F1 == [F EXCEPT ![a] = Without(F[a], c)]
           last == F1[a] = <<>>
           F2 == [F1 EXCEPT ![semd_h] = Without(F1[semd_h], l)]
           F3 == [F2 EXCEPT ![semdFree_h] = <<l>> \o F2[semdFree_h]]
           G == IF last THEN F3 ELSE F1
<1>1. F \in Layouts /\ Once(F) /\ LaidOut(heap, F, HeadsOf(F))
  BY LayoutTypes
<1>2. /\ heap' = IF list_empty(h, a) THEN freeSemd(h, s) ELSE h
      /\ p_semAdd' = [p_semAdd EXCEPT ![p] = NULL]
      /\ held' = held \cup {p}
      /\ UNCHANGED <<p_parent, s_key>>
  BY DEF Unblock
<1>3. /\ s \in Semds /\ a \in HeadCells /\ a \in HeadsOf(F) /\ c \in ToSet(F[a])
      /\ l \in Items /\ l \in SLinks /\ c \in PLists
  BY HeadFacts DEF InASL
<1>4. /\ a # pcbFree_h /\ a # semd_h /\ a # semdFree_h /\ KindOf(a) = PLists
      /\ (\A q : a # procQ(q)) /\ (\A r : a # p_child(r)) /\ \A t : a = s_procq(t) => t = s
  BY CellNames, KindFacts
<1>5. semdFree_h \in HeadsOf(F) /\ semd_h \in HeadsOf(F) /\ semdFree_h \in HeadCells /\ semd_h \in HeadCells
      /\ semdFree_h # semd_h /\ semd_h # pcbFree_h /\ semdFree_h # pcbFree_h
  BY HeadFacts, CellNames
<1>6. (\A r : p_list(r) = c => r = p) /\ (\A t : s_link(t) = l => t = s) /\ c # l
      /\ KindOf(semd_h) = SLinks /\ KindOf(semdFree_h) = SLinks
      /\ (\A r : p_list(r) # l) /\ (\A t : s_link(t) # c) /\ \A r : p_sib(r) # c /\ p_sib(r) # l
  BY CellNames, KindFacts
<1>7. l \in ToSet(F[semd_h]) /\ \A b \in HeadCells : b # semd_h => l \notin ToSet(F[b])
  <2>1. l \in ToSet(F[semd_h])  BY DEF InASL
  <2> QED  BY <1>5, <2>1, LayoutTypes
<1> HIDE DEF a, c, l, h, F1
<1>8. LaidOut(h, F1, HeadsOf(F)) /\ Takes(F, F1, a, c)
  BY <1>1, <1>3, LayoutDel, EffectOfDel DEF F1, h
<1>9. list_empty(h, a) <=> F1[a] = <<>>
  BY <1>3, <1>8, FirstOfLayout
<1>10. F1 \in Layouts /\ Once(F1) /\ l \in ToSet(F1[semd_h])
  BY <1>4, <1>5, <1>7, <1>8 DEF LaidOut, Takes
<1> HIDE DEF F2, F3
<1>11. LaidOut(list_del(h, l), F2, HeadsOf(F)) /\ Takes(F1, F2, semd_h, l)
  BY <1>5, <1>8, <1>10, LayoutDel, EffectOfDel DEF F2
<1>12. F2 \in Layouts /\ Once(F2) /\ \A b \in HeadCells : l \notin ToSet(F2[b])
  BY <1>3, <1>5, <1>7, <1>8, <1>11 DEF LaidOut, Takes
<1>13. LaidOut(freeSemd(h, s), F3, HeadsOf(F)) /\ Adds(F2, F3, semdFree_h, l)
  <2>1. freeSemd(h, s) = list_add(list_del(h, l), l, semdFree_h)  BY DEF freeSemd, l
  <2> QED  BY <1>3, <1>5, <1>11, <1>12, <2>1, LayoutAdd, EffectOfAdd DEF F3
<1>14. LaidOut(heap', G, HeadsOf(F))
  BY <1>2, <1>8, <1>9, <1>13
<1>15. /\ \A b \in HeadCells : b # a /\ b # semd_h /\ b # semdFree_h => G[b] = F[b]
       /\ G[a] = F1[a]
       /\ ToSet(G[a]) = ToSet(F[a]) \ {c}
       /\ ToSet(G[semd_h]) = IF last THEN ToSet(F[semd_h]) \ {l} ELSE ToSet(F[semd_h])
       /\ ToSet(G[semdFree_h]) = IF last THEN ToSet(F[semdFree_h]) \cup {l} ELSE ToSet(F[semdFree_h])
  <2>1. CASE last
    BY <1>3, <1>4, <1>5, <1>8, <1>11, <1>13, <2>1 DEF Takes, Adds
  <2>2. CASE ~last
    BY <1>3, <1>4, <1>5, <1>8, <2>2 DEF Takes
  <2> QED  BY <2>1, <2>2
<1>16. G \in Layouts /\ Once(G) /\ (last <=> ToSet(G[a]) = {})
  <2>1. G \in Layouts /\ Once(G)  BY <1>14 DEF LaidOut
  <2>2. G[a] = <<>> <=> ToSet(G[a]) = {}  BY <1>3, <2>1, CellsOfLayout
  <2> QED  BY <1>15, <2>1, <2>2
<1>17. G[a] = Without(F[a], c)
  BY <1>1, <1>3, <1>15 DEF F1, Layouts
<1> HIDE DEF G, last
<1>18. Free(G) = Free(F) /\ InASL(G) = IF last THEN InASL(F) \ {s} ELSE InASL(F)
  <2>1. Free(G) = Free(F)  BY <1>4, <1>5, <1>15, HeadFacts DEF Free
  <2>2. InASL(G) = IF last THEN InASL(F) \ {s} ELSE InASL(F)
    BY <1>6, <1>15 DEF InASL, l
  <2> QED  BY <2>1, <2>2
<1>19. HeadsOf(G) = IF last THEN HeadsOf(F) \ {a} ELSE HeadsOf(F)
  <2>1. CASE last
    BY <1>4, <1>18, <2>1 DEF HeadsOf, a
  <2>2. CASE ~last
    BY <1>18, <2>2 DEF HeadsOf
  <2> QED  BY <2>1, <2>2
<1>20. LaidOut(heap', G, HeadsOf(G))
  <2>1. CASE last
    <3>1. G[a] = <<>>  BY <1>3, <1>16, <2>1, CellsOfLayout
    <3>2. LaidOut(heap', G, HeadsOf(F) \ {a})  BY <1>14, <3>1, LayoutDrop
    <3> QED  BY <1>19, <2>1, <3>2
  <2>2. CASE ~last
    BY <1>14, <1>19, <2>2
  <2> QED  BY <2>1, <2>2
<1>21. Sorted(G)
  <2> SUFFICES ASSUME NEW b \in HeadCells PROVE ToSet(G[b]) \subseteq KindOf(b)
    BY DEF Sorted
  <2>1. ToSet(F[b]) \subseteq KindOf(b)  BY LayoutTypes
  <2> QED  BY <1>3, <1>4, <1>6, <1>15, <2>1
<1>22. FieldsOK'
  BY <1>2 DEF Describes, FieldsOK
<1>23. HeldOf(G)'
  <2> SUFFICES ASSUME NEW r \in Pcbs
               PROVE r \in held' <=> \A b \in HeadCells : p_list(r) \notin ToSet(G[b])
    BY DEF HeldOf
  <2>0. \A b \in HeadCells : b # a => c \notin ToSet(F[b])
    BY <1>3, LayoutTypes
  <2>1. CASE r = p
    <3>1. \A b \in HeadCells : c \notin ToSet(G[b])
      BY <1>6, <1>15, <2>0
    <3> QED  BY <1>2, <2>1, <3>1 DEF c
  <2>2. CASE r # p
    <3>1. r \in held <=> \A b \in HeadCells : p_list(r) \notin ToSet(F[b])
      BY DEF Describes, HeldOf
    <3>2. \A b \in HeadCells : p_list(r) \in ToSet(F[b]) <=> p_list(r) \in ToSet(G[b])
      BY <1>6, <1>15, <2>2
    <3> QED  BY <1>2, <2>2, <3>1, <3>2
  <2> QED  BY <2>1, <2>2
<1>24. SemdsOf(G)'
  <2>1. \A t \in Semds : s_link(t) \in ToSet(G[semdFree_h]) \cup ToSet(G[semd_h])
    <3> SUFFICES ASSUME NEW t \in Semds PROVE s_link(t) \in ToSet(G[semdFree_h]) \cup ToSet(G[semd_h])
      OBVIOUS
    <3>1. s_link(t) \in ToSet(F[semdFree_h]) \cup ToSet(F[semd_h])  BY DEF Describes, SemdsOf
    <3> QED  BY <1>15, <3>1
  <2>2. ASSUME NEW t \in InASL(G) PROVE t \in InASL(F) /\ G[s_procq(t)] # <<>>
    <3>1. t \in InASL(F) /\ t \in Semds  BY <1>18 DEF InASL
    <3>2. CASE t = s
      <4>1. ~last  BY <1>18, <3>2
      <4> QED  BY <1>3, <1>16, <3>1, <3>2, <4>1, CellsOfLayout DEF a
    <3>3. CASE t # s
      <4>1. G[s_procq(t)] = F[s_procq(t)]  BY <1>4, <1>15, <3>1, <3>3, HeadFacts, CellNames
      <4> QED  BY <3>1, <4>1 DEF Describes, SemdsOf
    <3> QED  BY <3>2, <3>3
  <2> QED  BY <1>2, <2>1, <2>2 DEF Describes, SemdsOf
<1>25. SemAddOf(G)'
  <2>1. p_semAdd'[p] = NULL /\ \A r \in Pcbs : r # p => p_semAdd'[r] = p_semAdd[r]
    BY <1>2 DEF Describes, FieldsOK
  <2>2. \A t \in Semds : \A r \in Pcbs : p_list(r) \in ToSet(G[s_procq(t)])
          <=> r # p /\ p_list(r) \in ToSet(F[s_procq(t)])
    <3> SUFFICES ASSUME NEW t \in Semds, NEW r \in Pcbs
                 PROVE  p_list(r) \in ToSet(G[s_procq(t)]) <=> r # p /\ p_list(r) \in ToSet(F[s_procq(t)])
      OBVIOUS
    <3>0. s_procq(t) \in HeadCells /\ s_procq(t) # semd_h /\ s_procq(t) # semdFree_h
      BY HeadFacts, CellNames
    <3>1. CASE s_procq(t) = a  BY <1>6, <1>15, <3>1 DEF c
    <3>2. CASE s_procq(t) # a
      <4>1. c \notin ToSet(F[s_procq(t)])  BY <1>3, <3>0, <3>2, LayoutTypes
      <4> QED  BY <1>15, <3>0, <3>2, <4>1 DEF c
    <3> QED  BY <3>1, <3>2
  <2>3. ASSUME NEW x \in Pcbs, NEW t \in Semds, p_list(x) \in ToSet(G[s_procq(t)])
        PROVE  p_semAdd'[x] = s_key'[t]
    BY <1>2, <2>1, <2>2, <2>3 DEF Describes, SemAddOf
  <2>4. ASSUME NEW x \in Pcbs, \A t \in Semds : p_list(x) \notin ToSet(G[s_procq(t)])
        PROVE  p_semAdd'[x] = NULL
    BY <2>1, <2>2, <2>4 DEF Describes, SemAddOf
  <2> QED  BY <2>3, <2>4 DEF SemAddOf
<1>26. ParentOf(G)'
  <2>1. \A r \in Pcbs : G[p_child(r)] = F[p_child(r)]
    BY <1>4, <1>15, HeadFacts, CellNames
  <2> QED  BY <1>2, <1>18, <2>1 DEF Describes, ParentOf
<1>27. Describes(G)'
  BY <1>20, <1>21, <1>22, <1>23, <1>24, <1>25, <1>26 DEF Describes
<1>28. G[a] = <<>> <=> last
  BY <1>3, <1>16, CellsOfLayout
<1>29. /\ Describes(G)'
       /\ G[s_procq(s)] = Without(F[s_procq(s)], p_list(p))
       /\ InASL(G) = IF G[s_procq(s)] = <<>> THEN InASL(F) \ {s} ELSE InASL(F)
       /\ \A b \in HeadCells \ {semdFree_h, semd_h, s_procq(s)} : G[b] = F[b]
  BY <1>15, <1>17, <1>18, <1>27, <1>28 DEF a, c
<1> QED  BY <1>29

-----------------------------------------------------------------------------
(* From the cells of a list to the sequence of their owners *)

\* The owners of a list are as many as its cells, and in their order.
LEMMA NamesSeq ==
  ASSUME NEW S, NEW s \in Seq(S)
  PROVE  /\ Names(s) \in Seq({Owner(c) : c \in S})
         /\ Len(Names(s)) = Len(s)
         /\ \A i \in 1..Len(s) : Names(s)[i] = Owner(s[i])
         /\ Names(s) = <<>> <=> s = <<>>
<1> DEFINE n == Names(s)
           T == {Owner(c) : c \in S}
<1>1. DOMAIN s = 1..Len(s) /\ Len(s) \in Nat /\ \A i \in 1..Len(s) : s[i] \in S
  OBVIOUS
<1>2. n = [i \in 1..Len(s) |-> Owner(s[i])]
  BY <1>1 DEF Names
<1> HIDE DEF n
<1>3. n \in Seq(T)
  BY <1>1, <1>2
<1>4. Len(n) = Len(s)
  BY <1>1, <1>2
<1>5. n = <<>> <=> s = <<>>
  BY <1>3, <1>4
<1> QED  BY <1>2, <1>3, <1>4, <1>5 DEF n

\* list_add and list_add_tail, on the owners.
LEMMA NamesAdd ==
  ASSUME NEW S, NEW s \in Seq(S), NEW c \in S
  PROVE  /\ Names(<<c>> \o s) = <<Owner(c)>> \o Names(s)
         /\ Names(Append(s, c)) = Append(Names(s), Owner(c))
<1> DEFINE n == Names(s)
           T == {Owner(d) : d \in S}
           x == <<c>> \o s
           y == <<Owner(c)>> \o n
           v == Append(s, c)
           w == Append(n, Owner(c))
<1>b. n \in Seq(T) /\ Len(n) = Len(s) /\ \A i \in 1..Len(s) : n[i] = Owner(s[i])
  BY NamesSeq
<1>1. n \in Seq(T) /\ Len(n) = Len(s) /\ (\A i \in 1..Len(s) : n[i] = Owner(s[i])) /\ Len(s) \in Nat
  BY <1>b
<1>a. Owner(c) \in T
  OBVIOUS
<1> HIDE DEF n, T
<1>2. x \in Seq(S) /\ Len(x) = Len(s) + 1 /\ x[1] = c /\ \A i \in 1..Len(s) : x[i + 1] = s[i]
  BY ConsToSet
<1>3. y \in Seq(T) /\ Len(y) = Len(n) + 1 /\ y[1] = Owner(c) /\ \A i \in 1..Len(n) : y[i + 1] = n[i]
  BY <1>1, <1>a, ConsToSet
<1>4. v \in Seq(S) /\ Len(v) = Len(s) + 1 /\ v[Len(s) + 1] = c /\ \A i \in 1..Len(s) : v[i] = s[i]
  OBVIOUS
<1>5. w \in Seq(T) /\ Len(w) = Len(n) + 1 /\ w[Len(n) + 1] = Owner(c) /\ \A i \in 1..Len(n) : w[i] = n[i]
  BY <1>1, <1>a
<1> HIDE DEF x, y, v, w
<1>6. /\ Names(x) \in Seq(T) /\ Len(Names(x)) = Len(x) /\ \A i \in 1..Len(x) : Names(x)[i] = Owner(x[i])
  BY <1>2, NamesSeq DEF T
<1>7. /\ Names(v) \in Seq(T) /\ Len(Names(v)) = Len(v) /\ \A i \in 1..Len(v) : Names(v)[i] = Owner(v[i])
  BY <1>4, NamesSeq DEF T
<1>8. Names(x) = y
  <2>1. ASSUME NEW i \in 1..Len(x) PROVE Names(x)[i] = y[i]
    <3>1. CASE i = 1  BY <1>2, <1>3, <1>6, <3>1
    <3>2. CASE i # 1
      <4>1. i - 1 \in 1..Len(s) /\ (i - 1) + 1 = i  BY <1>1, <1>2, <3>2
      <4>2. x[(i - 1) + 1] = s[i - 1] /\ y[(i - 1) + 1] = n[i - 1]  BY <1>1, <1>2, <1>3, <4>1
      <4>3. x[i] = s[i - 1] /\ y[i] = n[i - 1]  BY <4>1, <4>2
      <4> QED  BY <1>1, <1>6, <4>1, <4>3
    <3> QED  BY <3>1, <3>2
  <2> QED  BY <1>1, <1>2, <1>3, <1>6, <2>1, SeqEqual
<1>9. Names(v) = w
  <2>1. ASSUME NEW i \in 1..Len(v) PROVE Names(v)[i] = w[i]
    BY <1>1, <1>4, <1>5, <1>7
  <2> QED  BY <1>1, <1>4, <1>5, <1>7, <2>1, SeqEqual
<1> QED  BY <1>8, <1>9 DEF n, x, y, v, w

\* list_del, on the owners, which are no two the same.
LEMMA NamesDel ==
  ASSUME NEW S, NEW s \in Seq(S),
         \A x, y \in S : Owner(x) = Owner(y) => x = y, Distinct(s), NEW c \in ToSet(s)
  PROVE  /\ Names(Without(s, c)) = Without(Names(s), Owner(c))
         /\ Distinct(Names(s))
         /\ Owner(c) \in ToSet(Names(s))
         /\ Names(s) # <<>> /\ Head(Names(s)) = Owner(Head(s))
         /\ c = Head(s) => Names(Without(s, c)) = Tail(Names(s))
<1> DEFINE n == Names(s)
           T == {Owner(d) : d \in S}
           p == Owner(c)
<1>1. /\ n \in Seq(T) /\ Len(n) = Len(s) /\ (\A i \in 1..Len(s) : n[i] = Owner(s[i])) /\ Len(s) \in Nat
      /\ n = <<>> <=> s = <<>>
  BY NamesSeq
<1>2. p \in ToSet(n)
  BY NamesToSet
<1>3. (\A i \in 1..Len(s) : s[i] \in S) /\ DOMAIN s = 1..Len(s) /\ DOMAIN n = 1..Len(n)
  BY <1>1
<1>4. c \in S
  BY <1>3 DEF ToSet
<1> HIDE DEF n, T
<1>5. Distinct(n)
  BY <1>1, <1>3 DEF Distinct
<1>6. PICK k \in 1..Len(s) : s[k] = c /\ Without(s, c) = RemoveAt(s, k)
  BY OutProcQPlace
<1>7. PICK j \in 1..Len(n) : n[j] = p /\ Without(n, p) = RemoveAt(n, j)
  BY <1>1, <1>2, OutProcQPlace
<1>8. j = k
  BY <1>1, <1>3, <1>5, <1>6, <1>7 DEF Distinct
<1> DEFINE x == RemoveAt(s, k)
           y == RemoveAt(n, k)
<1>9. /\ x \in Seq(S) /\ Len(x) = Len(s) - 1
      /\ \A i \in 1..k - 1 : x[i] = s[i]
      /\ \A i \in k..Len(s) - 1 : x[i] = s[i + 1]
  BY RemoveAtProperties
<1>10. /\ y \in Seq(T) /\ Len(y) = Len(n) - 1
       /\ \A i \in 1..k - 1 : y[i] = n[i]
       /\ \A i \in k..Len(n) - 1 : y[i] = n[i + 1]
  BY <1>1, RemoveAtProperties
<1> HIDE DEF x, y
<1>11. Names(x) \in Seq(T) /\ Len(Names(x)) = Len(x) /\ \A i \in 1..Len(x) : Names(x)[i] = Owner(x[i])
  BY <1>9, NamesSeq DEF T
<1>12. Names(x) = y
  <2>1. ASSUME NEW i \in 1..Len(x) PROVE Names(x)[i] = y[i]
    <3>1. CASE i \in 1..k - 1  BY <1>1, <1>9, <1>10, <1>11, <3>1
    <3>2. CASE i \notin 1..k - 1
      <4>1. i \in k..Len(s) - 1 /\ i + 1 \in 1..Len(s)  BY <1>1, <1>9, <3>2
      <4> QED  BY <1>1, <1>9, <1>10, <1>11, <4>1
    <3> QED  BY <3>1, <3>2
  <2> QED  BY <1>1, <1>9, <1>10, <1>11, <2>1, SeqEqual
<1>13. Names(Without(s, c)) = Without(n, p)
  BY <1>6, <1>7, <1>8, <1>12 DEF x, y
<1>14. s # <<>> /\ n # <<>>
  BY <1>1, <1>2, ToSetProperties
<1>15. Head(n) = Owner(Head(s))
  <2>1. 1 \in 1..Len(s) /\ Head(s) = s[1]  BY <1>14
  <2>2. Head(n) = n[1]  BY <1>1, <1>14
  <2> QED  BY <1>1, <2>1, <2>2
<1>16. ASSUME c = Head(s) PROVE Names(Without(s, c)) = Tail(n)
  BY <1>1, <1>5, <1>13, <1>14, <1>15, <1>16, TailIsOut
<1> QED  BY <1>2, <1>5, <1>13, <1>14, <1>15, <1>16 DEF n

\* The lists of a layout, on the owners of their cells.
LEMMA ListNames ==
  ASSUME NEW F, Describes(F), NEW a \in HeadCells
  PROVE  /\ \A c \in KindOf(a) : /\ Names(<<c>> \o F[a]) = <<Owner(c)>> \o Names(F[a])
                                 /\ Names(Append(F[a], c)) = Append(Names(F[a]), Owner(c))
         /\ \A c \in ToSet(F[a]) :
              /\ Names(Without(F[a], c)) = Without(Names(F[a]), Owner(c))
              /\ Owner(c) \in ToSet(Names(F[a]))
              /\ c = Head(F[a]) => /\ Names(Without(F[a], c)) = Tail(Names(F[a]))
                                   /\ Head(Names(F[a])) = Owner(c)
         /\ Names(F[a]) = <<>> <=> F[a] = <<>>
         /\ \A x : x \in ToSet(Names(F[a])) <=> \E c \in ToSet(F[a]) : x = Owner(c)
<1> DEFINE S == KindOf(a)
           s == F[a]
<1>1. s \in Seq(S) /\ Distinct(s)
  <2>1. F \in Layouts /\ Once(F) /\ ToSet(s) \subseteq S
    BY LayoutTypes
  <2>2. s \in Seq(Items) /\ Distinct(s)
    BY <2>1, ListsApart
  <2>3. \A i \in 1..Len(s) : s[i] \in S
    BY <2>1, <2>2 DEF ToSet
  <2> HIDE DEF s, S
  <2> QED  BY <2>2, <2>3
<1>2. \A x, y \in S : Owner(x) = Owner(y) => x = y
  BY KindFacts DEF KindOf
<1> HIDE DEF s, S
<1>3. \A c \in S : /\ Names(<<c>> \o s) = <<Owner(c)>> \o Names(s)
                   /\ Names(Append(s, c)) = Append(Names(s), Owner(c))
  BY <1>1, NamesAdd
<1>4. \A c \in ToSet(s) : /\ Names(Without(s, c)) = Without(Names(s), Owner(c))
                          /\ Owner(c) \in ToSet(Names(s))
                          /\ Head(Names(s)) = Owner(Head(s))
                          /\ c = Head(s) => Names(Without(s, c)) = Tail(Names(s))
  BY <1>1, <1>2, NamesDel
<1>5. Names(s) = <<>> <=> s = <<>>
  BY <1>1, NamesSeq
<1> QED  BY <1>3, <1>4, <1>5, NamesToSet DEF s, S

\* To add a cell to a list is to add its owner to the owners.
LEMMA NamesOfAdd ==
  ASSUME NEW F, Describes(F), NEW a \in HeadCells, NEW c \in KindOf(a)
  PROVE  /\ Names(<<c>> \o F[a]) = <<Owner(c)>> \o Names(F[a])
         /\ Names(Append(F[a], c)) = Append(Names(F[a]), Owner(c))
BY ListNames

\* To take a cell out of a list is to take its owner out, the head out if it was first.
LEMMA NamesOfDel ==
  ASSUME NEW F, Describes(F), NEW a \in HeadCells, NEW c \in ToSet(F[a])
  PROVE  /\ Names(Without(F[a], c)) = Without(Names(F[a]), Owner(c))
         /\ Owner(c) \in ToSet(Names(F[a])) /\ Names(F[a]) # <<>>
         /\ c = Head(F[a]) => Names(Without(F[a], c)) = Tail(Names(F[a])) /\ Head(Names(F[a])) = Owner(c)
<1>1. F[a] # <<>>
  BY LayoutTypes
<1> QED  BY <1>1, ListNames

-----------------------------------------------------------------------------
(* The view of Phase1Api *)

\* The operators of Phase1Api on sequences are those of the proofs.
LEMMA ApiOperators ==
  /\ \A q : Api!ToSet(q) = ToSet(q)
  /\ \A q, p : Api!Without(q, p) = Without(q, p)
  /\ \A S : Api!Cardinality(S) = Cardinality(S)
<1>1. \A S : Api!Cardinality(S) = Cardinality(S)
  BY DEF Api!Cardinality, Cardinality
<1> QED  BY <1>1 DEF Api!Without, Without, Api!ToSet, ToSet, Api!RemoveAt, RemoveAt

ApiQueue    == [q \in Queues |-> Owners(heap, procQ(q))]
ApiSemq     == [k \in Keys |-> Queue(k)]
ApiChildren == [p \in Pcbs |-> IF p \in Allocated THEN Owners(heap, p_child(p)) ELSE <<>>]

\* The sequences of Phase1Api, off a layout.
Mirrors(F) ==
  /\ FreePcbs = Names(F[pcbFree_h])
  /\ \A q \in Queues : ApiQueue[q] = Names(F[procQ(q)])
  /\ \A s \in InASL(F) : Queue(s_key[s]) = Names(F[s_procq(s)])
  /\ \A k : (\A s \in InASL(F) : s_key[s] # k) => Queue(k) = <<>>
  /\ \A p \in Pcbs : ApiChildren[p] = Names(F[p_child(p)])

\* The variables of Phase1Api are the owners of the cells of the layout.
LEMMA LayoutMirrors == Phase1Assumption => \A F : Describes(F) => Mirrors(F)
<1> SUFFICES ASSUME Phase1Assumption, NEW F, Describes(F) PROVE Mirrors(F)
  OBVIOUS
<1>1. \A a \in HeadsOf(F) : Owners(heap, a) = Names(F[a])
  BY ReadLists
<1>2. FreePcbs = Names(F[pcbFree_h])
  BY <1>1, HeadFacts DEF FreePcbs
<1>3. \A q \in Queues : ApiQueue[q] = Names(F[procQ(q)])
  BY <1>1, HeadFacts DEF ApiQueue
<1>4. ASSUME NEW s \in InASL(F) PROVE Queue(s_key[s]) = Names(F[s_procq(s)])
  <2>1. getSemd(s_key[s]) = s
    BY GetSemdFinds
  <2>2. s \in Semds /\ s # NULL /\ s_procq(s) \in HeadsOf(F)
    BY HeadFacts DEF InASL, Phase1Assumption
  <2> QED  BY <1>1, <2>1, <2>2 DEF Queue
<1>5. ASSUME NEW k, \A s \in InASL(F) : s_key[s] # k PROVE Queue(k) = <<>>
  <2>1. getSemd(k) = NULL
    BY <1>5, GetSemdFinds
  <2> QED  BY <2>1 DEF Queue
<1>6. ASSUME NEW p \in Pcbs PROVE ApiChildren[p] = Names(F[p_child(p)])
  <2>1. CASE p \in Allocated
    <3>1. p_child(p) \in HeadsOf(F)  BY <2>1, ReadLists, HeadFacts
    <3> QED  BY <1>1, <2>1, <3>1 DEF ApiChildren
  <2>2. CASE p \notin Allocated
    <3>1. p_child(p) \in HeadCells \ HeadsOf(F)  BY <2>2, ReadLists, HeadFacts
    <3>2. F[p_child(p)] = <<>>  BY <3>1, LayoutTypes
    <3>3. Names(F[p_child(p)]) = <<>>  BY <3>1, <3>2, ListNames
    <3> QED  BY <2>2, <3>3 DEF ApiChildren
  <2> QED  BY <2>1, <2>2
<1> QED  BY <1>2, <1>3, <1>4, <1>5, <1>6 DEF Mirrors

\* p_parent says whose child a process is.
LEMMA ChildOf ==
  ASSUME NEW F, Describes(F), Mirrors(F)
  PROVE  \A p, r \in Pcbs : p \in ToSet(ApiChildren[r]) <=> p_parent[p] = r
<1> SUFFICES ASSUME NEW p \in Pcbs, NEW r \in Pcbs
             PROVE  p \in ToSet(ApiChildren[r]) <=> p_parent[p] = r
  OBVIOUS
<1>1. p_child(r) \in HeadCells /\ KindOf(p_child(r)) = PSibs /\ ToSet(F[p_child(r)]) \subseteq PSibs
  BY HeadFacts, KindFacts, LayoutTypes
<1>2. p \in ToSet(ApiChildren[r]) <=> \E c \in ToSet(F[p_child(r)]) : p = Owner(c)
  BY <1>1, ListNames DEF Mirrors
<1>3. (\E c \in ToSet(F[p_child(r)]) : p = Owner(c)) <=> p_sib(p) \in ToSet(F[p_child(r)])
  BY <1>1, KindFacts, CellNames
<1> QED  BY <1>2, <1>3 DEF Describes, ParentOf

\* What a step leaves alone.
LEMMA ApiSame ==
  ASSUME NEW F, NEW G, Mirrors(F), Mirrors(G)'
  PROVE  /\ G[pcbFree_h] = F[pcbFree_h] => FreePcbs' = FreePcbs
         /\ (\A q \in Queues : G[procQ(q)] = F[procQ(q)]) => ApiQueue' = ApiQueue
         /\ (\A p \in Pcbs : G[p_child(p)] = F[p_child(p)]) => ApiChildren' = ApiChildren
         /\ G[semd_h] = F[semd_h] /\ s_key' = s_key /\ (\A s \in Semds : G[s_procq(s)] = F[s_procq(s)])
              => ApiSemq' = ApiSemq
<1>1. ASSUME G[pcbFree_h] = F[pcbFree_h] PROVE FreePcbs' = FreePcbs
  BY <1>1 DEF Mirrors
<1>2. ASSUME \A q \in Queues : G[procQ(q)] = F[procQ(q)] PROVE ApiQueue' = ApiQueue
  <2>1. \A q \in Queues : ApiQueue'[q] = ApiQueue[q]  BY <1>2 DEF Mirrors
  <2> QED  BY <2>1 DEF ApiQueue
<1>3. ASSUME \A p \in Pcbs : G[p_child(p)] = F[p_child(p)] PROVE ApiChildren' = ApiChildren
  <2>1. \A p \in Pcbs : ApiChildren'[p] = ApiChildren[p]  BY <1>3 DEF Mirrors
  <2> QED  BY <2>1 DEF ApiChildren
<1>4. ASSUME G[semd_h] = F[semd_h], s_key' = s_key, \A s \in Semds : G[s_procq(s)] = F[s_procq(s)]
      PROVE  ApiSemq' = ApiSemq
  <2>1. InASL(G) = InASL(F)  BY <1>4 DEF InASL
  <2>2. ASSUME NEW k \in Keys PROVE Queue(k)' = Queue(k)
    <3>1. CASE \E s \in InASL(F) : s_key[s] = k
      BY <1>4, <2>1, <3>1 DEF Mirrors, InASL
    <3>2. CASE \A s \in InASL(F) : s_key[s] # k
      BY <1>4, <2>1, <3>2 DEF Mirrors
    <3> QED  BY <3>1, <3>2
  <2> QED  BY <2>2 DEF ApiSemq
<1> QED  BY <1>1, <1>2, <1>3, <1>4

\* The layout of the next state gives the next sequences too.
LEMMA NextMirrors == (\A F : Describes(F) => Mirrors(F))'
<1>1. \A F : Describes(F) => Mirrors(F)
  BY LayoutMirrors, Phase1Assumption
<1> QED  BY <1>1, PTL

\* The sequence of the queue of a semaphore changes, and no other of the ASL.
LEMMA ApiSemqChange ==
  ASSUME NEW k \in Keys, NEW v, \A j \in Keys : Queue(j)' = IF j = k THEN v ELSE Queue(j)
  PROVE  ApiSemq' = [ApiSemq EXCEPT ![k] = v]
BY DEF ApiSemq

-----------------------------------------------------------------------------
(* Each operation keeps a layout and is an operation of Phase1Api *)

\* insertProcQ implements InsertProcQ.
LEMMA DoInsertProcQ ==
  ASSUME Phase1Assumption, NEW F, Describes(F), NEW q \in Queues, NEW p \in Pcbs, insertProcQ(q, p)
  PROVE  LinksInv' /\ Api!InsertProcQ(q, p)
<1> DEFINE a == procQ(q)
           G == [F EXCEPT ![a] = Append(F[a], p_list(p))]
<1>1. Describes(G)'
  BY StepInsertProcQ
<1>2. Mirrors(F) /\ Mirrors(G)'
  BY <1>1, LayoutMirrors, NextMirrors
<1>3. G[a] = Append(F[a], p_list(p)) /\ \A b \in HeadCells : b # a => G[b] = F[b]
  BY LayoutTypes, HeadFacts DEF Layouts
<1> HIDE DEF G
<1>4. FreePcbs' = FreePcbs /\ ApiSemq' = ApiSemq /\ ApiChildren' = ApiChildren
  <2>1. (\A s : a # s_procq(s)) /\ (\A r : a # p_child(r)) /\ a # pcbFree_h /\ a # semd_h
    BY CellNames
  <2> QED  BY <1>2, <1>3, <2>1, HeadFacts, ApiSame DEF insertProcQ
<1>5. ApiQueue' = [ApiQueue EXCEPT ![q] = Append(ApiQueue[q], p)]
  <2>1. \A r \in Queues : r # q => procQ(r) # a
    BY CellNames
  <2>2. ApiQueue'[q] = Append(ApiQueue[q], p)
    <3>1. a \in HeadCells /\ p_list(p) \in KindOf(a) /\ Owner(p_list(p)) = p
      BY HeadFacts, KindFacts, CellNames
    <3>2. Names(Append(F[a], p_list(p))) = Append(Names(F[a]), p)
      BY <3>1, NamesOfAdd
    <3> QED  BY <1>2, <1>3, <3>2 DEF Mirrors
  <2>3. \A r \in Queues : r # q => ApiQueue'[r] = ApiQueue[r]
    BY <1>2, <1>3, <2>1, HeadFacts DEF Mirrors
  <2> QED  BY <2>2, <2>3 DEF ApiQueue
<1>6. Api!InsertProcQ(q, p)
  BY <1>4, <1>5 DEF Api!InsertProcQ, insertProcQ, ApiQueue, ApiSemq, ApiChildren
<1> QED  BY <1>1, <1>6 DEF LinksInv

\* To unlink a PCB from a process queue is Without, and Tail for the first one.
LEMMA DoUnlink ==
  ASSUME Phase1Assumption, NEW F, Describes(F), NEW q \in Queues, NEW p \in Pcbs,
         p_list(p) \in ToSet(F[procQ(q)]), Unlink(p), UNCHANGED <<p_parent, p_semAdd, s_key>>
  PROVE  /\ LinksInv'
         /\ FreePcbs' = FreePcbs /\ ApiSemq' = ApiSemq /\ ApiChildren' = ApiChildren
         /\ p \in ToSet(ApiQueue[q]) /\ ApiQueue[q] # <<>>
         /\ ApiQueue' = [ApiQueue EXCEPT ![q] = Without(ApiQueue[q], p)]
         /\ p_list(p) = Head(F[procQ(q)])
              => Head(ApiQueue[q]) = p /\ Without(ApiQueue[q], p) = Tail(ApiQueue[q])
<1> DEFINE a == procQ(q)
           c == p_list(p)
           G == [F EXCEPT ![a] = Without(F[a], c)]
<1>1. Describes(G)'
  BY StepUnlink
<1>2. Mirrors(F) /\ Mirrors(G)'
  BY <1>1, LayoutMirrors, NextMirrors
<1>3. G[a] = Without(F[a], c) /\ \A b \in HeadCells : b # a => G[b] = F[b]
  BY LayoutTypes, HeadFacts DEF Layouts
<1> HIDE DEF G
<1>4. FreePcbs' = FreePcbs /\ ApiSemq' = ApiSemq /\ ApiChildren' = ApiChildren
  <2>1. (\A s : a # s_procq(s)) /\ (\A r : a # p_child(r)) /\ a # pcbFree_h /\ a # semd_h
    BY CellNames
  <2> QED  BY <1>2, <1>3, <2>1, HeadFacts, ApiSame
<1>5. a \in HeadCells /\ Owner(c) = p
  BY HeadFacts, CellNames
<1>6. /\ Names(Without(F[a], c)) = Without(Names(F[a]), p)
      /\ p \in ToSet(Names(F[a])) /\ Names(F[a]) # <<>>
      /\ c = Head(F[a]) => Names(Without(F[a], c)) = Tail(Names(F[a])) /\ Head(Names(F[a])) = p
  BY <1>5, NamesOfDel
<1>7. ApiQueue[q] = Names(F[a]) /\ ApiQueue'[q] = Names(G[a])
  BY <1>2 DEF Mirrors
<1>8. ApiQueue' = [ApiQueue EXCEPT ![q] = Without(ApiQueue[q], p)]
  <2>1. \A r \in Queues : r # q => procQ(r) # a
    BY CellNames
  <2>2. \A r \in Queues : r # q => ApiQueue'[r] = ApiQueue[r]
    BY <1>2, <1>3, <2>1, HeadFacts DEF Mirrors
  <2>3. ApiQueue'[q] = Without(ApiQueue[q], p)
    BY <1>3, <1>6, <1>7
  <2> QED  BY <2>2, <2>3 DEF ApiQueue
<1>9. LinksInv'
  BY <1>1 DEF LinksInv
<1> QED  BY <1>4, <1>6, <1>7, <1>8, <1>9

\* removeProcQ implements RemoveProcQ.
LEMMA DoRemoveProcQ ==
  ASSUME Phase1Assumption, NEW F, Describes(F), NEW q \in Queues, removeProcQ(q)
  PROVE  LinksInv' /\ Api!RemoveProcQ(q)
<1>1. procQ(q) \in HeadsOf(F) /\ KindOf(procQ(q)) = PLists
  BY HeadFacts, KindFacts
<1>2. F[procQ(q)] # <<>>
  BY <1>1, HeadOfQueue DEF removeProcQ
<1>3. PICK p \in Pcbs : /\ p = headProcQ(procQ(q)) /\ p_list(p) = Head(F[procQ(q)])
                        /\ p_list(p) \in ToSet(F[procQ(q)])
  BY <1>1, <1>2, HeadOfQueue
<1>4. Unlink(p) /\ UNCHANGED <<p_parent, p_semAdd, s_key>>
  BY <1>3 DEF removeProcQ
<1>5. /\ LinksInv'
      /\ FreePcbs' = FreePcbs /\ ApiSemq' = ApiSemq /\ ApiChildren' = ApiChildren
      /\ ApiQueue[q] # <<>> /\ Head(ApiQueue[q]) = p
      /\ ApiQueue' = [ApiQueue EXCEPT ![q] = Tail(ApiQueue[q])]
  BY <1>3, <1>4, DoUnlink
<1>6. held' = held \cup {p}
  BY <1>4 DEF Unlink
<1>7. Api!RemoveProcQ(q)
  BY <1>5, <1>6 DEF Api!RemoveProcQ, ApiQueue, ApiSemq, ApiChildren
<1> QED  BY <1>5, <1>7

\* outProcQ implements OutProcQ.
LEMMA DoOutProcQ ==
  ASSUME Phase1Assumption, NEW F, Describes(F), NEW q \in Queues, NEW p \in Pcbs, outProcQ(q, p)
  PROVE  LinksInv' /\ Api!OutProcQ(q, p)
<1>1. p_list(p) \in ToSet(F[procQ(q)])
  BY ReadLists, HeadFacts DEF outProcQ, FoundIn
<1>2. Unlink(p) /\ UNCHANGED <<p_parent, p_semAdd, s_key>>
  BY DEF outProcQ
<1>3. /\ LinksInv'
      /\ FreePcbs' = FreePcbs /\ ApiSemq' = ApiSemq /\ ApiChildren' = ApiChildren
      /\ p \in ToSet(ApiQueue[q])
      /\ ApiQueue' = [ApiQueue EXCEPT ![q] = Without(ApiQueue[q], p)]
  BY <1>1, <1>2, DoUnlink
<1>4. held' = held \cup {p}
  BY <1>2 DEF Unlink
<1>5. Api!OutProcQ(q, p)
  BY <1>3, <1>4, ApiOperators DEF Api!OutProcQ, ApiQueue, ApiSemq, ApiChildren
<1> QED  BY <1>3, <1>5

\* freePcb implements FreePcb.
LEMMA DoFreePcb ==
  ASSUME Phase1Assumption, NEW F, Describes(F), NEW p \in Pcbs, freePcb(p)
  PROVE  LinksInv' /\ Api!FreePcb(p)
<1> DEFINE a == pcbFree_h
           c == p_list(p)
           G == [F EXCEPT ![a] = <<c>> \o F[a]]
<1>1. Describes(G)'
  BY StepFreePcb
<1>2. Mirrors(F) /\ Mirrors(G)'
  BY <1>1, LayoutMirrors, NextMirrors
<1>3. G[a] = <<c>> \o F[a] /\ \A b \in HeadCells : b # a => G[b] = F[b]
  BY LayoutTypes, HeadFacts DEF Layouts
<1> HIDE DEF G
<1>4. ApiQueue' = ApiQueue /\ ApiSemq' = ApiSemq /\ ApiChildren' = ApiChildren
  <2>1. /\ (\A s : a # s_procq(s)) /\ (\A r : a # p_child(r)) /\ (\A q : a # procQ(q)) /\ a # semd_h
    BY CellNames
  <2> QED  BY <1>2, <1>3, <2>1, HeadFacts, ApiSame DEF freePcb
<1>5. FreePcbs' = <<p>> \o FreePcbs
  <2>1. a \in HeadCells /\ c \in KindOf(a) /\ Owner(c) = p
    BY HeadFacts, KindFacts, CellNames
  <2>2. Names(<<c>> \o F[a]) = <<p>> \o Names(F[a])
    BY <2>1, NamesOfAdd
  <2> QED  BY <1>2, <1>3, <2>2 DEF Mirrors
<1>6. ApiChildren[p] = <<>>
  <2>1. p \notin Free(F)
    BY HeadFacts DEF freePcb, Free, Describes, HeldOf
  <2>2. p_child(p) \in HeadsOf(F) /\ p_child(p) \in HeadCells
    BY <2>1, HeadFacts
  <2>3. F[p_child(p)] = <<>>
    BY <2>2, HeadOfList DEF freePcb
  <2>4. Names(F[p_child(p)]) = <<>>
    BY <2>2, <2>3, ListNames
  <2> QED  BY <1>2, <2>4 DEF Mirrors
<1>7. \A r \in Pcbs : p \notin ToSet(ApiChildren[r])
  <2>1. p_parent[p] = NULL /\ NULL \notin Pcbs
    BY DEF freePcb, Phase1Assumption
  <2> QED  BY <1>2, <2>1, ChildOf
<1>8. Api!FreePcb(p)
  BY <1>4, <1>5, <1>6, <1>7, ApiOperators
  DEF Api!FreePcb, Api!HasParent, freePcb, ApiQueue, ApiSemq, ApiChildren
<1> QED  BY <1>1, <1>8 DEF LinksInv

\* allocPcb implements AllocPcb.
LEMMA DoAllocPcb ==
  ASSUME Phase1Assumption, NEW F, Describes(F), allocPcb
  PROVE  LinksInv' /\ Api!AllocPcb
<1>1. PICK p : p = Owner(heap.next[pcbFree_h])
  OBVIOUS
<1> DEFINE a == pcbFree_h
           c == p_list(p)
           G == [F EXCEPT ![a] = Without(F[a], c)]
<1>2. /\ p \in Pcbs /\ F[a] # <<>> /\ c = Head(F[a])
      /\ held' = held \cup {p}
      /\ Describes(G)'
  BY <1>1, StepAllocPcb
<1>3. Mirrors(F) /\ Mirrors(G)'
  BY <1>2, LayoutMirrors, NextMirrors
<1>4. G[a] = Without(F[a], c) /\ \A b \in HeadCells : b # a => G[b] = F[b]
  BY LayoutTypes, HeadFacts DEF Layouts
<1> HIDE DEF G
<1>5. ApiQueue' = ApiQueue /\ ApiSemq' = ApiSemq /\ ApiChildren' = ApiChildren
  <2>1. /\ (\A s : a # s_procq(s)) /\ (\A r : a # p_child(r)) /\ (\A q : a # procQ(q)) /\ a # semd_h
    BY CellNames
  <2> QED  BY <1>3, <1>4, <2>1, HeadFacts, ApiSame DEF allocPcb
<1>6. FreePcbs # <<>> /\ Head(FreePcbs) = p /\ FreePcbs' = Tail(FreePcbs)
  <2>1. a \in HeadCells /\ a \in HeadsOf(F) /\ Owner(c) = p
    BY HeadFacts, CellNames
  <2>2. c \in ToSet(F[a])
    BY <1>2, <2>1, HeadOfList
  <2>3. Names(F[a]) # <<>> /\ Names(Without(F[a], c)) = Tail(Names(F[a])) /\ Head(Names(F[a])) = p
    BY <1>2, <2>1, <2>2, NamesOfDel
  <2> QED  BY <1>3, <1>4, <2>3 DEF Mirrors
<1>7. Api!AllocPcb
  BY <1>2, <1>5, <1>6 DEF Api!AllocPcb, ApiQueue, ApiSemq, ApiChildren
<1> QED  BY <1>2, <1>7 DEF LinksInv

\* insertChild implements InsertChild.
LEMMA DoInsertChild ==
  ASSUME Phase1Assumption, NEW F, Describes(F), NEW prnt \in Pcbs, NEW p \in Pcbs, insertChild(prnt, p)
  PROVE  LinksInv' /\ Api!InsertChild(prnt, p)
<1> DEFINE a == p_child(prnt)
           c == p_sib(p)
           G == [F EXCEPT ![a] = <<c>> \o F[a]]
<1>1. Describes(G)'
  BY StepInsertChild
<1>2. Mirrors(F) /\ Mirrors(G)'
  BY <1>1, LayoutMirrors, NextMirrors
<1>3. G[a] = <<c>> \o F[a] /\ \A b \in HeadCells : b # a => G[b] = F[b]
  BY LayoutTypes, HeadFacts DEF Layouts
<1> HIDE DEF G
<1>4. FreePcbs' = FreePcbs /\ ApiQueue' = ApiQueue /\ ApiSemq' = ApiSemq
  <2>1. /\ (\A s : a # s_procq(s)) /\ (\A q : a # procQ(q)) /\ a # pcbFree_h /\ a # semd_h
    BY CellNames
  <2> QED  BY <1>2, <1>3, <2>1, HeadFacts, ApiSame DEF insertChild
<1>5. ApiChildren' = [ApiChildren EXCEPT ![prnt] = <<p>> \o ApiChildren[prnt]]
  <2>1. a \in HeadCells /\ c \in KindOf(a) /\ Owner(c) = p
    BY HeadFacts, KindFacts, CellNames
  <2>2. Names(<<c>> \o F[a]) = <<p>> \o Names(F[a])
    BY <2>1, NamesOfAdd
  <2>3. ApiChildren'[prnt] = <<p>> \o ApiChildren[prnt]
    BY <1>2, <1>3, <2>2 DEF Mirrors
  <2>4. \A r \in Pcbs : r # prnt => p_child(r) # a
    BY CellNames
  <2>5. \A r \in Pcbs : r # prnt => ApiChildren'[r] = ApiChildren[r]
    BY <1>2, <1>3, <2>4, HeadFacts DEF Mirrors
  <2> QED  BY <2>3, <2>5 DEF ApiChildren
<1>6. ApiChildren[p] = <<>>
  <2>1. p \notin Free(F)
    BY HeadFacts DEF insertChild, Free, Describes, HeldOf
  <2>2. p_child(p) \in HeadsOf(F) /\ p_child(p) \in HeadCells
    BY <2>1, HeadFacts
  <2>3. F[p_child(p)] = <<>>
    BY <2>2, HeadOfList DEF insertChild
  <2>4. Names(F[p_child(p)]) = <<>>
    BY <2>2, <2>3, ListNames
  <2> QED  BY <1>2, <2>4 DEF Mirrors
<1>7. \A r \in Pcbs : p \notin ToSet(ApiChildren[r])
  <2>1. p_parent[p] = NULL /\ NULL \notin Pcbs
    BY DEF insertChild, Phase1Assumption
  <2> QED  BY <1>2, <2>1, ChildOf
<1>8. Api!InsertChild(prnt, p)
  BY <1>4, <1>5, <1>6, <1>7, ApiOperators
  DEF Api!InsertChild, Api!HasParent, Api!Allocated, Allocated, FreePcbs, insertChild,
      ApiQueue, ApiSemq, ApiChildren
<1> QED  BY <1>1, <1>8 DEF LinksInv

\* To unlink a child from its siblings is Without, and Tail for the first one.
LEMMA DoUnchild ==
  ASSUME Phase1Assumption, NEW F, Describes(F), NEW r \in Pcbs, NEW p \in Pcbs,
         p_sib(p) \in ToSet(F[p_child(r)]),
         heap' = list_del(heap, p_sib(p)), p_parent' = [p_parent EXCEPT ![p] = NULL],
         UNCHANGED <<p_semAdd, s_key, held>>
  PROVE  /\ LinksInv'
         /\ FreePcbs' = FreePcbs /\ ApiSemq' = ApiSemq /\ ApiQueue' = ApiQueue
         /\ p \in ToSet(ApiChildren[r]) /\ ApiChildren[r] # <<>>
         /\ ApiChildren' = [ApiChildren EXCEPT ![r] = Without(ApiChildren[r], p)]
         /\ p_sib(p) = Head(F[p_child(r)]) => Without(ApiChildren[r], p) = Tail(ApiChildren[r])
<1> DEFINE a == p_child(r)
           c == p_sib(p)
           G == [F EXCEPT ![a] = Without(F[a], c)]
<1>1. Describes(G)'
  BY StepUnchild
<1>2. Mirrors(F) /\ Mirrors(G)'
  BY <1>1, LayoutMirrors, NextMirrors
<1>3. G[a] = Without(F[a], c) /\ \A b \in HeadCells : b # a => G[b] = F[b]
  BY LayoutTypes, HeadFacts DEF Layouts
<1> HIDE DEF G
<1>4. FreePcbs' = FreePcbs /\ ApiSemq' = ApiSemq /\ ApiQueue' = ApiQueue
  <2>1. /\ (\A s : a # s_procq(s)) /\ (\A q : a # procQ(q)) /\ a # pcbFree_h /\ a # semd_h
    BY CellNames
  <2> QED  BY <1>2, <1>3, <2>1, HeadFacts, ApiSame
<1>5. a \in HeadCells /\ Owner(c) = p
  BY HeadFacts, CellNames
<1>6. /\ Names(Without(F[a], c)) = Without(Names(F[a]), p)
      /\ p \in ToSet(Names(F[a])) /\ Names(F[a]) # <<>>
      /\ c = Head(F[a]) => Names(Without(F[a], c)) = Tail(Names(F[a]))
  BY <1>5, NamesOfDel
<1>7. ApiChildren[r] = Names(F[a]) /\ ApiChildren'[r] = Names(G[a])
  BY <1>2 DEF Mirrors
<1>8. ApiChildren' = [ApiChildren EXCEPT ![r] = Without(ApiChildren[r], p)]
  <2>1. \A x \in Pcbs : x # r => p_child(x) # a
    BY CellNames
  <2>2. \A x \in Pcbs : x # r => ApiChildren'[x] = ApiChildren[x]
    BY <1>2, <1>3, <2>1, HeadFacts DEF Mirrors
  <2>3. ApiChildren'[r] = Without(ApiChildren[r], p)
    BY <1>3, <1>6, <1>7
  <2> QED  BY <2>2, <2>3 DEF ApiChildren
<1>9. LinksInv'
  BY <1>1 DEF LinksInv
<1> QED  BY <1>4, <1>6, <1>7, <1>8, <1>9

\* removeChild implements RemoveChild.
LEMMA DoRemoveChild ==
  ASSUME Phase1Assumption, NEW F, Describes(F), NEW p \in Pcbs, removeChild(p)
  PROVE  LinksInv' /\ Api!RemoveChild(p)
<1>1. p_child(p) \in HeadsOf(F) /\ KindOf(p_child(p)) = PSibs
  BY ReadLists, HeadFacts, KindFacts DEF removeChild
<1>2. /\ heap.next[p_child(p)] = Head(F[p_child(p)]) /\ Head(F[p_child(p)]) \in ToSet(F[p_child(p)])
      /\ Head(F[p_child(p)]) \in PSibs
  BY <1>1, HeadOfList DEF removeChild
<1>3. PICK c \in Pcbs : /\ c = Owner(heap.next[p_child(p)]) /\ p_sib(c) = heap.next[p_child(p)]
                        /\ p_sib(c) = Head(F[p_child(p)]) /\ p_sib(c) \in ToSet(F[p_child(p)])
  BY <1>2, KindFacts
<1>4. /\ heap' = list_del(heap, p_sib(c)) /\ p_parent' = [p_parent EXCEPT ![c] = NULL]
      /\ UNCHANGED <<p_semAdd, s_key, held>>
  BY <1>3 DEF removeChild
<1>5. /\ LinksInv'
      /\ FreePcbs' = FreePcbs /\ ApiSemq' = ApiSemq /\ ApiQueue' = ApiQueue
      /\ ApiChildren[p] # <<>>
      /\ ApiChildren' = [ApiChildren EXCEPT ![p] = Tail(ApiChildren[p])]
  <2>1. /\ LinksInv'
        /\ FreePcbs' = FreePcbs /\ ApiSemq' = ApiSemq /\ ApiQueue' = ApiQueue
        /\ ApiChildren[p] # <<>>
        /\ ApiChildren' = [ApiChildren EXCEPT ![p] = Without(ApiChildren[p], c)]
        /\ p_sib(c) = Head(F[p_child(p)]) => Without(ApiChildren[p], c) = Tail(ApiChildren[p])
    <3>1. p_sib(c) \in ToSet(F[p_child(p)])  BY <1>3
    <3> QED  BY <3>1, <1>4, DoUnchild
  <2> QED  BY <1>3, <2>1
<1>6. Api!RemoveChild(p)
  BY <1>4, <1>5 DEF Api!RemoveChild, ApiQueue, ApiSemq, ApiChildren
<1> QED  BY <1>5, <1>6

\* outChild implements OutChild.
LEMMA DoOutChild ==
  ASSUME Phase1Assumption, NEW F, Describes(F), NEW p \in Pcbs, outChild(p)
  PROVE  LinksInv' /\ Api!OutChild(p)
<1>1. PICK r \in Pcbs : p_parent[p] = r
  BY DEF outChild, Describes, FieldsOK
<1>2. p_sib(p) \in ToSet(F[p_child(r)])
  BY <1>1 DEF Describes, ParentOf
<1>3. /\ heap' = list_del(heap, p_sib(p)) /\ p_parent' = [p_parent EXCEPT ![p] = NULL]
      /\ UNCHANGED <<p_semAdd, s_key, held>>
  BY DEF outChild
<1>4. /\ LinksInv'
      /\ FreePcbs' = FreePcbs /\ ApiSemq' = ApiSemq /\ ApiQueue' = ApiQueue
      /\ p \in ToSet(ApiChildren[r])
      /\ ApiChildren' = [ApiChildren EXCEPT ![r] = Without(ApiChildren[r], p)]
  BY <1>2, <1>3, DoUnchild
<1>5. Api!OutChild(p)
  BY <1>3, <1>4, ApiOperators DEF Api!OutChild, ApiQueue, ApiSemq, ApiChildren
<1> QED  BY <1>4, <1>5

\* The queues of the semaphores whose SEMD a step leaves alone.
LEMMA OtherQueues ==
  ASSUME NEW F, NEW G, Mirrors(F), Mirrors(G)', s_key \in [Semds -> Keys \cup {NULL}],
         NEW s \in Semds, NEW k,
         \A t \in Semds \ {s} : /\ t \in InASL(G) <=> t \in InASL(F)
                                /\ t \in InASL(F) => /\ s_key'[t] = s_key[t]
                                                     /\ G[s_procq(t)] = F[s_procq(t)],
         s \in InASL(F) => s_key[s] = k, s \in InASL(G) => s_key'[s] = k
  PROVE  \A j : j # k => Queue(j)' = Queue(j)
<1> SUFFICES ASSUME NEW j, j # k PROVE Queue(j)' = Queue(j)
  OBVIOUS
<1>1. InASL(F) \subseteq Semds /\ InASL(G) \subseteq Semds
  BY DEF InASL
<1>2. CASE \E t \in InASL(F) : s_key[t] = j
  <2>1. PICK t \in InASL(F) : s_key[t] = j
    BY <1>2
  <2>2. t \in Semds \ {s} /\ t \in InASL(G) /\ s_key'[t] = j /\ G[s_procq(t)] = F[s_procq(t)]
    BY <1>1, <2>1
  <2>3. Queue(j) = Names(F[s_procq(t)])
    BY <2>1 DEF Mirrors
  <2>4. Queue(j)' = Names(G[s_procq(t)])
    BY <2>2 DEF Mirrors
  <2> QED  BY <2>2, <2>3, <2>4
<1>3. CASE \A t \in InASL(F) : s_key[t] # j
  <2>1. \A t \in InASL(G) : s_key'[t] # j
    BY <1>1, <1>3
  <2>2. Queue(j) = <<>>
    BY <1>3 DEF Mirrors
  <2>3. Queue(j)' = <<>>
    BY <2>1 DEF Mirrors
  <2> QED  BY <2>2, <2>3
<1> QED  BY <1>2, <1>3

\* What a step on the queue of a SEMD leaves alone.
LEMMA ApiRest ==
  ASSUME NEW F, NEW G, Mirrors(F), Mirrors(G)', NEW s \in Semds,
         \A b \in HeadCells \ {semdFree_h, semd_h, s_procq(s)} : G[b] = F[b]
  PROVE  FreePcbs' = FreePcbs /\ ApiQueue' = ApiQueue /\ ApiChildren' = ApiChildren
<1>1. pcbFree_h \in HeadCells \ {semdFree_h, semd_h, s_procq(s)}
  BY CellNames, HeadFacts
<1>2. \A q \in Queues : procQ(q) \in HeadCells \ {semdFree_h, semd_h, s_procq(s)}
  BY CellNames, HeadFacts
<1>3. \A p \in Pcbs : p_child(p) \in HeadCells \ {semdFree_h, semd_h, s_procq(s)}
  BY CellNames, HeadFacts
<1> QED  BY <1>1, <1>2, <1>3, ApiSame

\* insertBlocked implements InsertBlocked when the semaphore has a SEMD.
LEMMA DoBlock ==
  ASSUME Phase1Assumption, NEW F, Describes(F), NEW s \in InASL(F), NEW k, k = s_key[s],
         NEW p \in Pcbs, p \in held, Block(heap, s, k, p), UNCHANGED <<p_parent, s_key>>
  PROVE  LinksInv' /\ (k \in Keys => Api!InsertBlocked(k, p))
<1> DEFINE a == s_procq(s)
           G == [F EXCEPT ![a] = Append(F[a], p_list(p))]
<1>1. Describes(G)'
  BY StepBlock
<1>2. Mirrors(F) /\ Mirrors(G)'
  BY <1>1, LayoutMirrors, NextMirrors
<1>3. s \in Semds /\ a \in HeadCells /\ p_list(p) \in KindOf(a) /\ Owner(p_list(p)) = p
  BY HeadFacts, KindFacts, CellNames DEF InASL
<1>4. G[a] = Append(F[a], p_list(p)) /\ \A b \in HeadCells : b # a => G[b] = F[b]
  BY <1>3, LayoutTypes DEF Layouts
<1> HIDE DEF G
<1>5. (\A t \in Semds : t # s => s_procq(t) # a) /\ a # semd_h
  BY CellNames
<1>6. InASL(G) = InASL(F)
  BY <1>4, <1>5, HeadFacts DEF InASL
<1>7. FreePcbs' = FreePcbs /\ ApiQueue' = ApiQueue /\ ApiChildren' = ApiChildren
  BY <1>2, <1>3, <1>4, ApiRest
<1>8. \A j : j # k => Queue(j)' = Queue(j)
  <2>1. \A t \in Semds \ {s} : /\ t \in InASL(G) <=> t \in InASL(F)
                               /\ t \in InASL(F) => s_key'[t] = s_key[t] /\ G[s_procq(t)] = F[s_procq(t)]
    BY <1>4, <1>5, <1>6, HeadFacts
  <2>2. s_key \in [Semds -> Keys \cup {NULL}] /\ s_key'[s] = k
    BY DEF Describes, FieldsOK
  <2> QED  BY <1>2, <1>3, <2>1, <2>2, OtherQueues
<1>9. Names(Append(F[a], p_list(p))) = Append(Names(F[a]), p)
  BY <1>3, NamesOfAdd
<1>10. Queue(k) = Names(F[a]) /\ Queue(k)' = Append(Names(F[a]), p)
  <2>1. Queue(k) = Names(F[a])
    BY <1>2 DEF Mirrors
  <2>2. Queue(k)' = Names(G[a])
    BY <1>2, <1>6 DEF Mirrors
  <2> QED  BY <1>4, <1>9, <2>1, <2>2
<1>11. Names(F[a]) # <<>>
  <2>1. F[a] # <<>>
    BY DEF Describes, SemdsOf
  <2> QED  BY <1>3, <2>1, ListNames
<1>12. ASSUME k \in Keys PROVE Api!InsertBlocked(k, p)
  <2>1. ApiSemq' = [ApiSemq EXCEPT ![k] = Append(Queue(k), p)]
    BY <1>8, <1>10, <1>12, ApiSemqChange
  <2>2. ApiSemq[k] = Queue(k) /\ ApiSemq[k] # <<>>
    BY <1>10, <1>11, <1>12 DEF ApiSemq
  <2> QED  BY <1>7, <2>1, <2>2 DEF Api!InsertBlocked, Block, ApiQueue, ApiSemq, ApiChildren
<1> QED  BY <1>1, <1>12 DEF LinksInv

\* A one-to-one function that misses an element has a smaller domain.
LEMMA ShortOfOne ==
  ASSUME NEW S, NEW T, IsFiniteSet(T), NEW x \in T, NEW f \in [S -> T \ {x}],
         \A y, z \in S : f[y] = f[z] => y = z
  PROVE  Cardinality(S) \in Nat /\ Cardinality(T) \in Nat /\ Cardinality(S) < Cardinality(T)
<1>1. IsFiniteSet(T \ {x}) /\ Cardinality(T \ {x}) = Cardinality(T) - 1
  BY FS_RemoveElement
<1>2. f \in Injection(S, T \ {x})
  BY DEF Injection, IsInjective
<1>3. IsFiniteSet(S) /\ Cardinality(S) <= Cardinality(T \ {x})
  BY <1>1, <1>2, FS_Injection
<1>4. Cardinality(S) \in Nat /\ Cardinality(T) \in Nat
  BY <1>3, FS_CardinalityType
<1> QED  BY <1>1, <1>3, <1>4

\* While a SEMD is free fewer semaphores have processes than there are SEMDs.
LEMMA BusyFewer ==
  ASSUME Phase1Assumption, NEW F, Describes(F), Mirrors(F), NEW new \in Semds \ InASL(F)
  PROVE  Cardinality({j \in Keys : ApiSemq[j] # <<>>}) < Cardinality(Semds)
<1> DEFINE S == {j \in Keys : ApiSemq[j] # <<>>}
           f == [j \in S |-> CHOOSE s \in InASL(F) : s_key[s] = j]
<1>1. \A j \in S : \E s \in InASL(F) : s_key[s] = j
  BY DEF Mirrors, ApiSemq
<1>2. \A j \in S : f[j] \in InASL(F) /\ s_key[f[j]] = j
  BY <1>1
<1>3. f \in [S -> Semds \ {new}]
  BY <1>2 DEF InASL
<1> HIDE DEF f, S
<1>4. \A y, z \in S : f[y] = f[z] => y = z
  BY <1>2
<1>5. IsFiniteSet(Semds)
  BY DEF Phase1Assumption
<1>6. Cardinality(S) < Cardinality(Semds)
  BY <1>3, <1>4, <1>5, ShortOfOne
<1> QED  BY <1>6 DEF S

\* insertBlocked implements InsertBlocked when it takes a free SEMD.
LEMMA DoBlockNew ==
  ASSUME Phase1Assumption, NEW F, Describes(F), NEW k \in Keys, \A s \in InASL(F) : s_key[s] # k,
         NEW new, NEW p \in Pcbs, BlockNew(new, k, p)
  PROVE  LinksInv' /\ Api!InsertBlocked(k, p)
<1>1. PICK G : /\ Describes(G)'
               /\ new \in Semds \ InASL(F) /\ InASL(G) = InASL(F) \cup {new}
               /\ G[s_procq(new)] = <<p_list(p)>>
               /\ \A b \in HeadCells \ {semdFree_h, semd_h, s_procq(new)} : G[b] = F[b]
  BY StepBlockNew DEF SemdTaken
<1>2. Mirrors(F) /\ Mirrors(G)'
  BY <1>1, LayoutMirrors, NextMirrors
<1>3. FreePcbs' = FreePcbs /\ ApiQueue' = ApiQueue /\ ApiChildren' = ApiChildren
  BY <1>1, <1>2, ApiRest
<1>4. s_key \in [Semds -> Keys \cup {NULL}] /\ s_key'[new] = k
  BY <1>1 DEF BlockNew, Describes, FieldsOK
<1>5. \A j : j # k => Queue(j)' = Queue(j)
  <2>1. \A t \in Semds : t # new => s_procq(t) \in HeadCells \ {semdFree_h, semd_h, s_procq(new)}
    BY CellNames, HeadFacts
  <2>2. \A t \in Semds \ {new} : /\ t \in InASL(G) <=> t \in InASL(F)
                                 /\ t \in InASL(F) => s_key'[t] = s_key[t] /\ G[s_procq(t)] = F[s_procq(t)]
    BY <1>1, <1>4, <2>1 DEF BlockNew, SemdTaken, InASL
  <2> QED  BY <1>1, <1>2, <1>4, <2>2, OtherQueues
<1>6. Queue(k) = <<>>
  BY <1>2 DEF Mirrors
<1>7. Queue(k)' = Append(Queue(k), p)
  <2>1. Queue(k)' = Names(<<p_list(p)>>)
    BY <1>1, <1>2, <1>4 DEF Mirrors
  <2>2. Names(<<p_list(p)>>) = <<p>>
    BY CellNames DEF Names
  <2> QED  BY <1>6, <2>1, <2>2
<1>8. ApiSemq' = [ApiSemq EXCEPT ![k] = Append(Queue(k), p)]
  BY <1>5, <1>7, ApiSemqChange
<1>9. Cardinality({j \in Keys : ApiSemq[j] # <<>>}) < Cardinality(Semds)
  BY <1>1, <1>2, BusyFewer
<1>10. ApiSemq[k] = Queue(k)
  BY DEF ApiSemq
<1>11. Api!InsertBlocked(k, p)
  BY <1>3, <1>8, <1>9, <1>10, ApiOperators DEF Api!InsertBlocked, BlockNew, Block, ApiQueue, ApiSemq, ApiChildren
<1> QED  BY <1>1, <1>11 DEF LinksInv

\* insertBlocked implements InsertBlocked.
LEMMA DoInsertBlocked ==
  ASSUME Phase1Assumption, NEW F, Describes(F), NEW k \in Keys, NEW p \in Pcbs, insertBlocked(k, p)
  PROVE  LinksInv' /\ Api!InsertBlocked(k, p)
<1>1. p \in held /\ UNCHANGED p_parent
  BY DEF insertBlocked
<1>2. CASE getSemd(k) # NULL
  <2>1. PICK s \in InASL(F) : s = getSemd(k) /\ s_key[s] = k
    BY <1>2, GetSemdFinds
  <2>2. Block(heap, s, k, p) /\ UNCHANGED s_key
    BY <1>2, <2>1 DEF insertBlocked
  <2> QED  BY <1>1, <2>1, <2>2, DoBlock
<1>3. CASE getSemd(k) = NULL
  <2>1. \A s \in InASL(F) : s_key[s] # k
    BY <1>3, GetSemdFinds DEF InASL, Phase1Assumption
  <2>2. PICK new : new = Owner(heap.next[semdFree_h])
    OBVIOUS
  <2>3. BlockNew(new, k, p)
    BY <1>1, <1>3, <2>2 DEF insertBlocked, BlockNew
  <2> QED  BY <2>1, <2>3, DoBlockNew
<1> QED  BY <1>2, <1>3

\* To unlink a PCB from the queue of a SEMD is Without, whether or not the SEMD is freed.
LEMMA DoUnblock ==
  ASSUME Phase1Assumption, NEW F, Describes(F), NEW s \in InASL(F), NEW k, k = s_key[s], NEW p \in Pcbs,
         p_list(p) \in ToSet(F[s_procq(s)]), Unblock(s, p)
  PROVE  /\ LinksInv'
         /\ FreePcbs' = FreePcbs /\ ApiQueue' = ApiQueue /\ ApiChildren' = ApiChildren
         /\ k \in Keys /\ p \in ToSet(ApiSemq[k]) /\ ApiSemq[k] # <<>>
         /\ ApiSemq' = [ApiSemq EXCEPT ![k] = Without(ApiSemq[k], p)]
         /\ p_list(p) = Head(F[s_procq(s)])
              => Head(ApiSemq[k]) = p /\ Without(ApiSemq[k], p) = Tail(ApiSemq[k])
<1> DEFINE a == s_procq(s)
           c == p_list(p)
<1>1. PICK G : /\ Describes(G)'
               /\ G[a] = Without(F[a], c)
               /\ InASL(G) = IF G[a] = <<>> THEN InASL(F) \ {s} ELSE InASL(F)
               /\ \A b \in HeadCells \ {semdFree_h, semd_h, a} : G[b] = F[b]
  BY StepUnblock
<1>2. Mirrors(F) /\ Mirrors(G)'
  BY <1>1, LayoutMirrors, NextMirrors
<1>3. s \in Semds /\ k \in Keys /\ a \in HeadCells /\ Owner(c) = p
  BY HeadFacts, CellNames DEF InASL, Describes, SemdsOf
<1>4. FreePcbs' = FreePcbs /\ ApiQueue' = ApiQueue /\ ApiChildren' = ApiChildren
  BY <1>1, <1>2, <1>3, ApiRest
<1>5. s_key' = s_key /\ s_key \in [Semds -> Keys \cup {NULL}]
  BY DEF Unblock, Describes, FieldsOK
<1>6. \A j : j # k => Queue(j)' = Queue(j)
  <2>1. \A t \in Semds : t # s => s_procq(t) \in HeadCells \ {semdFree_h, semd_h, a}
    BY CellNames, HeadFacts
  <2>2. \A t \in Semds \ {s} : /\ t \in InASL(G) <=> t \in InASL(F)
                               /\ t \in InASL(F) => s_key'[t] = s_key[t] /\ G[s_procq(t)] = F[s_procq(t)]
    BY <1>1, <1>5, <2>1
  <2> QED  BY <1>2, <1>3, <1>5, <2>2, OtherQueues
<1>7. /\ Names(Without(F[a], c)) = Without(Names(F[a]), p)
      /\ p \in ToSet(Names(F[a])) /\ Names(F[a]) # <<>>
      /\ c = Head(F[a]) => Names(Without(F[a], c)) = Tail(Names(F[a])) /\ Head(Names(F[a])) = p
  BY <1>3, NamesOfDel
<1>8. ApiSemq[k] = Names(F[a])
  BY <1>2, <1>3 DEF Mirrors, ApiSemq
<1>9. Queue(k)' = Names(Without(F[a], c))
  <2>1. CASE G[a] = <<>>
    <3>1. \A t \in InASL(G) : s_key'[t] # k
      BY <1>1, <1>5, <2>1 DEF Describes, SemdsOf
    <3>2. Queue(k)' = <<>>
      BY <1>2, <3>1 DEF Mirrors
    <3>3. Names(<<>>) = <<>>
      BY DEF Names
    <3> QED  BY <1>1, <2>1, <3>2, <3>3
  <2>2. CASE G[a] # <<>>
    BY <1>1, <1>2, <1>5, <2>2 DEF Mirrors
  <2> QED  BY <2>1, <2>2
<1>10. ApiSemq' = [ApiSemq EXCEPT ![k] = Without(ApiSemq[k], p)]
  <2>1. \A j \in Keys : Queue(j)' = IF j = k THEN Names(Without(F[a], c)) ELSE Queue(j)
    BY <1>6, <1>9
  <2>2. ApiSemq' = [ApiSemq EXCEPT ![k] = Names(Without(F[a], c))]
    BY <1>3, <2>1, ApiSemqChange
  <2> QED  BY <1>7, <1>8, <2>2
<1>11. LinksInv'
  BY <1>1 DEF LinksInv
<1> QED  BY <1>3, <1>4, <1>7, <1>8, <1>10, <1>11

\* removeBlocked implements RemoveBlocked.
LEMMA DoRemoveBlocked ==
  ASSUME Phase1Assumption, NEW F, Describes(F), NEW k \in Keys, removeBlocked(k)
  PROVE  LinksInv' /\ Api!RemoveBlocked(k)
<1>1. PICK s \in InASL(F) : s = getSemd(k) /\ s_key[s] = k
  BY GetSemdFinds DEF removeBlocked
<1>2. s_procq(s) \in HeadsOf(F) /\ KindOf(s_procq(s)) = PLists
  BY HeadFacts, KindFacts DEF InASL
<1>3. F[s_procq(s)] # <<>>
  BY DEF Describes, SemdsOf
<1>4. PICK p \in Pcbs : /\ p = headProcQ(s_procq(s)) /\ p_list(p) = Head(F[s_procq(s)])
                        /\ p_list(p) \in ToSet(F[s_procq(s)])
  BY <1>2, <1>3, HeadOfQueue
<1>5. Unblock(s, p)
  BY <1>1, <1>4 DEF removeBlocked
<1>6. /\ LinksInv'
      /\ FreePcbs' = FreePcbs /\ ApiQueue' = ApiQueue /\ ApiChildren' = ApiChildren
      /\ ApiSemq[k] # <<>> /\ Head(ApiSemq[k]) = p
      /\ ApiSemq' = [ApiSemq EXCEPT ![k] = Tail(ApiSemq[k])]
  <2>1. k = s_key[s] /\ p_list(p) \in ToSet(F[s_procq(s)])
    BY <1>1, <1>4
  <2>2. /\ LinksInv'
        /\ FreePcbs' = FreePcbs /\ ApiQueue' = ApiQueue /\ ApiChildren' = ApiChildren
        /\ ApiSemq[k] # <<>>
        /\ ApiSemq' = [ApiSemq EXCEPT ![k] = Without(ApiSemq[k], p)]
        /\ p_list(p) = Head(F[s_procq(s)])
             => Head(ApiSemq[k]) = p /\ Without(ApiSemq[k], p) = Tail(ApiSemq[k])
    BY <1>5, <2>1, DoUnblock
  <2> QED  BY <1>4, <2>2
<1>7. held' = held \cup {p}
  BY <1>5 DEF Unblock
<1>8. Api!RemoveBlocked(k)
  BY <1>6, <1>7 DEF Api!RemoveBlocked, ApiQueue, ApiSemq, ApiChildren
<1> QED  BY <1>6, <1>8

\* outBlocked implements OutBlocked.
LEMMA DoOutBlocked ==
  ASSUME Phase1Assumption, NEW F, Describes(F), NEW p \in Pcbs, outBlocked(p)
  PROVE  LinksInv' /\ Api!OutBlocked(p)
<1>1. PICK s \in InASL(F) : s = getSemd(p_semAdd[p])
  BY GetSemdFinds DEF outBlocked
<1>2. s_procq(s) \in HeadsOf(F)
  BY HeadFacts DEF InASL
<1>3. p_list(p) \in ToSet(F[s_procq(s)]) /\ Unblock(s, p)
  BY <1>1, <1>2, ReadLists DEF outBlocked, FoundIn
<1>4. PICK k : k = s_key[s]
  OBVIOUS
<1>5. /\ LinksInv'
      /\ FreePcbs' = FreePcbs /\ ApiQueue' = ApiQueue /\ ApiChildren' = ApiChildren
      /\ k \in Keys /\ p \in ToSet(ApiSemq[k])
      /\ ApiSemq' = [ApiSemq EXCEPT ![k] = Without(ApiSemq[k], p)]
  BY <1>3, <1>4, DoUnblock
<1>6. held' = held \cup {p}
  BY <1>3 DEF Unblock
<1>7. Api!OutBlocked(p)
  BY <1>5, <1>6, ApiOperators DEF Api!OutBlocked, ApiQueue, ApiSemq, ApiChildren
<1> QED  BY <1>5, <1>7

\* Every step keeps a layout, and is a step of Phase1Api or leaves its variables alone.
LEMMA LinksStep == LinksInv /\ [Next]_vars => LinksInv' /\ [Api!Next]_(Api!vars)
<1> SUFFICES ASSUME LinksInv, [Next]_vars PROVE LinksInv' /\ [Api!Next]_(Api!vars)
  OBVIOUS
<1> USE Phase1Assumption
<1>1. PICK F : Describes(F)
  BY DEF LinksInv
<1>2. CASE allocPcb
  BY <1>1, <1>2, DoAllocPcb DEF Api!Next
<1>3. ASSUME NEW p \in Pcbs, freePcb(p) PROVE LinksInv' /\ Api!Next
  BY <1>1, <1>3, DoFreePcb DEF Api!Next
<1>4. ASSUME NEW p \in Pcbs, removeChild(p) PROVE LinksInv' /\ Api!Next
  BY <1>1, <1>4, DoRemoveChild DEF Api!Next
<1>5. ASSUME NEW p \in Pcbs, outChild(p) PROVE LinksInv' /\ Api!Next
  BY <1>1, <1>5, DoOutChild DEF Api!Next
<1>6. ASSUME NEW p \in Pcbs, outBlocked(p) PROVE LinksInv' /\ Api!Next
  BY <1>1, <1>6, DoOutBlocked DEF Api!Next
<1>7. ASSUME NEW q \in Queues, removeProcQ(q) PROVE LinksInv' /\ Api!Next
  BY <1>1, <1>7, DoRemoveProcQ DEF Api!Next
<1>8. ASSUME NEW q \in Queues, NEW p \in Pcbs, insertProcQ(q, p) PROVE LinksInv' /\ Api!Next
  BY <1>1, <1>8, DoInsertProcQ DEF Api!Next
<1>9. ASSUME NEW q \in Queues, NEW p \in Pcbs, outProcQ(q, p) PROVE LinksInv' /\ Api!Next
  BY <1>1, <1>9, DoOutProcQ DEF Api!Next
<1>10. ASSUME NEW prnt \in Pcbs, NEW p \in Pcbs, insertChild(prnt, p) PROVE LinksInv' /\ Api!Next
  BY <1>1, <1>10, DoInsertChild DEF Api!Next
<1>11. ASSUME NEW k \in Keys, removeBlocked(k) PROVE LinksInv' /\ Api!Next
  BY <1>1, <1>11, DoRemoveBlocked DEF Api!Next
<1>12. ASSUME NEW k \in Keys, NEW p \in Pcbs, insertBlocked(k, p) PROVE LinksInv' /\ Api!Next
  BY <1>1, <1>12, DoInsertBlocked DEF Api!Next
<1>13. CASE UNCHANGED vars
  <2>1. Describes(F)'
    BY <1>1, <1>13
    DEF vars, Describes, FieldsOK, HeldOf, SemdsOf, SemAddOf, ParentOf
  <2>2. Mirrors(F) /\ Mirrors(F)'
    BY <1>1, <2>1, LayoutMirrors, NextMirrors
  <2>3. FreePcbs' = FreePcbs /\ ApiQueue' = ApiQueue /\ ApiChildren' = ApiChildren /\ ApiSemq' = ApiSemq
    BY <1>13, <2>2, ApiSame DEF vars
  <2>4. UNCHANGED Api!vars
    BY <1>13, <2>3 DEF vars, Api!vars, ApiQueue, ApiChildren, ApiSemq
  <2> QED  BY <2>1, <2>4 DEF LinksInv
<1> QED
  BY <1>2, <1>3, <1>4, <1>5, <1>6, <1>7, <1>8, <1>9, <1>10, <1>11, <1>12, <1>13 DEF Next

-----------------------------------------------------------------------------
(* The initial state *)

\* f is the heap after each step of a loop that gives list_add the cells of C.
Fills(f, h, C, a) == f[0] = h /\ \A n \in 1..Len(C) : f[n] = list_add(f[n - 1], C[n], a)

\* The loops of initPcbs and initASL.
LEMMA FillDefined ==
  ASSUME NEW h \in Heaps, NEW a \in Cells, NEW C \in Seq(Cells)
  PROVE  \E f \in [0..Len(C) -> Heaps] : Fills(f, h, C, a)
<1> DEFINE N == Len(C)
           G == [n \in 1..N |-> [g \in Heaps |-> list_add(g, C[n], a)]]
<1>1. \A g \in Heaps, c \in Cells : list_add(g, c, a) \in Heaps
  BY DEF list_add, Link, Heaps
<1>2. G \in [1..N -> [Heaps -> Heaps]]
  BY <1>1
<1>3. PICK f \in [0..N -> Heaps] : f[0] = h /\ \A n \in 1..N : f[n] = G[n][f[n - 1]]
  <2> HIDE DEF G, Heaps
  <2>1. \E f : IsLoop(f, Heaps, h, N, G)
    BY <1>2, LoopExists
  <2> QED  BY <2>1 DEF IsLoop
<1>4. \A n \in 1..N : f[n] = list_add(f[n - 1], C[n], a)
  <2> SUFFICES ASSUME NEW n \in 1..N PROVE f[n] = list_add(f[n - 1], C[n], a)
    OBVIOUS
  <2> HIDE DEF Heaps
  <2>1. f[n - 1] \in Heaps
    <3>1. n - 1 \in 0..N  OBVIOUS
    <3> QED  BY <3>1
  <2>2. G[n][f[n - 1]] = list_add(f[n - 1], C[n], a)
    BY <2>1
  <2> QED  BY <1>3, <2>2
<1> QED  BY <1>3, <1>4 DEF Fills

\* They put every cell into the list.
LEMMA LayoutFill ==
  ASSUME NEW h, NEW F, NEW H, LaidOut(h, F, H), NEW a \in H, F[a] = <<>>,
         NEW C \in Seq(Items), Distinct(C),
         \A b \in HeadCells : ToSet(C) \cap ToSet(F[b]) = {},
         NEW f, Fills(f, h, C, a)
  PROVE  \E s \in Seq(Items) : /\ ToSet(s) = ToSet(C) /\ Len(s) = Len(C)
                               /\ LaidOut(f[Len(C)], [F EXCEPT ![a] = s], H)
<1> DEFINE N == Len(C)
           Upto(n, s) == /\ ToSet(s) = {C[i] : i \in 1..n} /\ Len(s) = n
                         /\ LaidOut(f[n], [F EXCEPT ![a] = s], H)
           P(n) == \E s \in Seq(Items) : Upto(n, s)
           T == {n \in 0..N : ~P(n)}
<1>0. F \in Layouts /\ a \in HeadCells
  BY DEF LaidOut
<1>a. N \in Nat /\ DOMAIN C = 1..N /\ (\A i \in 1..N : C[i] \in Items) /\ ToSet(C) = {C[i] : i \in 1..N}
  BY DEF ToSet
<1>b. \A i, j \in 1..N : C[i] = C[j] => i = j
  BY <1>a DEF Distinct
<1>c. \A i \in 1..N : \A b \in HeadCells : C[i] \notin ToSet(F[b])
  BY <1>a
<1>d. f[0] = h /\ \A n \in 1..N : f[n] = list_add(f[n - 1], C[n], a)
  BY DEF Fills
<1> HIDE DEF N
<1>1. P(0)
  <2>1. [F EXCEPT ![a] = <<>>] = F
    BY <1>0 DEF Layouts
  <2>2. <<>> \in Seq(Items) /\ Len(<<>>) = 0 /\ ToSet(<<>>) = {C[i] : i \in 1..0}
    BY DEF ToSet
  <2>3. Upto(0, <<>>)
    BY <1>d, <2>1, <2>2
  <2> QED  BY <2>2, <2>3
<1>2. ASSUME NEW n \in 1..N, P(n - 1) PROVE P(n)
  <2>1. PICK s \in Seq(Items) : Upto(n - 1, s)
    BY <1>2
  <2> DEFINE G == [F EXCEPT ![a] = s]
             t == <<C[n]>> \o s
  <2>2. LaidOut(f[n - 1], G, H) /\ G[a] = s /\ C[n] \in Items /\ \A b \in HeadCells : b # a => G[b] = F[b]
    BY <1>0, <1>a, <2>1 DEF Layouts
  <2>3. C[n] \notin ToSet(s)
    BY <1>a, <1>b, <2>1
  <2>4. \A b \in HeadCells : C[n] \notin ToSet(G[b])
    BY <1>c, <2>2, <2>3
  <2>5. LaidOut(list_add(f[n - 1], C[n], a), [G EXCEPT ![a] = <<C[n]>> \o G[a]], H)
    <3> HIDE DEF G
    <3> QED  BY <2>2, <2>4, LayoutAdd
  <2>6. [G EXCEPT ![a] = <<C[n]>> \o G[a]] = [F EXCEPT ![a] = t]
    BY <1>0, <2>2 DEF Layouts
  <2>7. t \in Seq(Items) /\ Len(t) = Len(s) + 1 /\ ToSet(t) = ToSet(s) \cup {C[n]}
    BY <2>2, ConsToSet
  <2> HIDE DEF G, t
  <2>8. LaidOut(f[n], [F EXCEPT ![a] = t], H)
    BY <1>d, <2>5, <2>6
  <2>9. ToSet(t) = {C[i] : i \in 1..n} /\ Len(t) = n
    <3>1. 1..n = 1..n - 1 \cup {n}  BY <1>a
    <3>2. ToSet(s) = {C[i] : i \in 1..n - 1} /\ Len(s) = n - 1  BY <2>1
    <3> QED  BY <2>7, <3>1, <3>2
  <2> QED  BY <2>7, <2>8, <2>9
<1> HIDE DEF P
<1>3. ASSUME T # {} PROVE FALSE
  <2>1. T \in SUBSET Nat
    OBVIOUS
  <2>2. PICK m \in T : \A k \in T : m <= k
    BY <1>3, <2>1, LeastNumber
  <2>3. m \in 1..N /\ m - 1 \in 0..N /\ ~P(m)
    BY <1>1, <1>a, <2>2
  <2>4. P(m - 1)
    BY <2>2, <2>3
  <2> QED  BY <1>2, <2>3, <2>4
<1>4. P(N)
  BY <1>3, <1>a
<1> QED  BY <1>4, <1>a DEF P, N


\* initPcbs makes the free list of the PCBs.
LEMMA InitPcbsFills ==
  ASSUME NEW h, NEW F, NEW H, LaidOut(h, F, H), pcbFree_h \in H, F[pcbFree_h] = <<>>,
         NEW table \in Seq(Pcbs), Distinct(table),
         \A x \in Pcbs : \A b \in HeadCells : p_list(x) \notin ToSet(F[b])
  PROVE  \E s \in Seq(Items) : /\ ToSet(s) = {p_list(x) : x \in ToSet(table)}
                               /\ Len(s) = Len(table)
                               /\ LaidOut(initPcbs(h, table), [F EXCEPT ![pcbFree_h] = s], H)
<1> DEFINE a == pcbFree_h
           N == Len(table)
           C == [i \in 1..N |-> p_list(table[i])]
           Body(f) == [n \in 0..N |-> IF n = 0 THEN h ELSE list_add(f[n - 1], p_list(table[n]), pcbFree_h)]
           after == CHOOSE f : f = Body(f)
<1>1. initPcbs(h, table) = after[N]
  BY DEF initPcbs
<1>2. N \in Nat /\ h \in Heaps /\ a \in Cells /\ DOMAIN table = 1..N /\ \A i \in 1..N : table[i] \in Pcbs
  BY CellKinds DEF LaidOut
<1>3. C \in Seq(Items) /\ C \in Seq(Cells) /\ Len(C) = N /\ \A i \in 1..N : C[i] = p_list(table[i])
  BY <1>2, HeadFacts, CellKinds
<1> HIDE DEF C, N, a
<1>4. Distinct(C)
  BY <1>2, <1>3, CellNames DEF Distinct
<1>5. ToSet(C) = {p_list(x) : x \in ToSet(table)}
  BY <1>2, <1>3 DEF ToSet
<1>6. \A b \in HeadCells : ToSet(C) \cap ToSet(F[b]) = {}
  BY <1>2, <1>5 DEF ToSet
<1>7. \E f : f = Body(f)
  <2>1. PICK f \in [0..N -> Heaps] : Fills(f, h, C, a)
    <3> HIDE DEF Body
    <3>1. \E f \in [0..Len(C) -> Heaps] : Fills(f, h, C, a)
      BY <1>2, <1>3, FillDefined
    <3> QED  BY <1>3, <3>1
  <2>2. ASSUME NEW n \in 0..N PROVE f[n] = Body(f)[n]
    <3>1. CASE n = 0  BY <2>1, <3>1 DEF Fills
    <3>2. CASE n # 0
      <4>1. n \in 1..N  BY <1>2, <3>2
      <4>2. f[n] = list_add(f[n - 1], p_list(table[n]), pcbFree_h)  BY <1>3, <2>1, <4>1 DEF Fills, a
      <4> QED  BY <3>2, <4>2
    <3> QED  BY <3>1, <3>2
  <2>3. f = [n \in 0..N |-> f[n]] /\ Body(f) = [n \in 0..N |-> Body(f)[n]]
    BY <2>1
  <2> HIDE DEF Body
  <2>4. f = Body(f)
    BY <2>2, <2>3
  <2> QED  BY <2>4
<1>8. after = Body(after)
  <2> HIDE DEF Body
  <2> QED  BY <1>7
<1> HIDE DEF after
<1>9. Fills(after, h, C, a)
  <2>1. ASSUME NEW n \in 0..N PROVE after[n] = IF n = 0 THEN h ELSE list_add(after[n - 1], p_list(table[n]), pcbFree_h)
    <3>1. after[n] = Body(after)[n]  BY <1>8
    <3> QED  BY <3>1
  <2>2. 0 \in 0..N /\ \A n \in 1..N : n \in 0..N /\ n # 0
    BY <1>2
  <2> QED  BY <1>3, <2>1, <2>2 DEF a, Fills
<1>10. \E s \in Seq(Items) : /\ ToSet(s) = ToSet(C) /\ Len(s) = Len(C)
                             /\ LaidOut(after[Len(C)], [F EXCEPT ![a] = s], H)
  <2> HIDE DEF Body
  <2>1. a \in H /\ F[a] = <<>> /\ C \in Seq(Items)
    BY <1>3 DEF a
  <2> QED  BY <1>4, <1>6, <1>9, <2>1, LayoutFill
<1> QED  BY <1>1, <1>3, <1>5, <1>10 DEF a, N

\* initASL makes the free list of the SEMDs.
LEMMA InitASLFills ==
  ASSUME NEW h, NEW F, NEW H, LaidOut(h, F, H), semdFree_h \in H, F[semdFree_h] = <<>>,
         NEW table \in Seq(Semds), Distinct(table),
         \A x \in Semds : \A b \in HeadCells : s_link(x) \notin ToSet(F[b])
  PROVE  \E s \in Seq(Items) : /\ ToSet(s) = {s_link(x) : x \in ToSet(table)}
                               /\ Len(s) = Len(table)
                               /\ LaidOut(initASL(h, table), [F EXCEPT ![semdFree_h] = s], H)
<1> DEFINE a == semdFree_h
           N == Len(table)
           C == [i \in 1..N |-> s_link(table[i])]
           Body(f) == [n \in 0..N |-> IF n = 0 THEN h ELSE list_add(f[n - 1], s_link(table[n]), semdFree_h)]
           after == CHOOSE f : f = Body(f)
<1>1. initASL(h, table) = after[N]
  BY DEF initASL
<1>2. N \in Nat /\ h \in Heaps /\ a \in Cells /\ DOMAIN table = 1..N /\ \A i \in 1..N : table[i] \in Semds
  BY CellKinds DEF LaidOut
<1>3. C \in Seq(Items) /\ C \in Seq(Cells) /\ Len(C) = N /\ \A i \in 1..N : C[i] = s_link(table[i])
  BY <1>2, HeadFacts, CellKinds
<1> HIDE DEF C, N, a
<1>4. Distinct(C)
  BY <1>2, <1>3, CellNames DEF Distinct
<1>5. ToSet(C) = {s_link(x) : x \in ToSet(table)}
  BY <1>2, <1>3 DEF ToSet
<1>6. \A b \in HeadCells : ToSet(C) \cap ToSet(F[b]) = {}
  BY <1>2, <1>5 DEF ToSet
<1>7. \E f : f = Body(f)
  <2>1. PICK f \in [0..N -> Heaps] : Fills(f, h, C, a)
    <3> HIDE DEF Body
    <3>1. \E f \in [0..Len(C) -> Heaps] : Fills(f, h, C, a)
      BY <1>2, <1>3, FillDefined
    <3> QED  BY <1>3, <3>1
  <2>2. ASSUME NEW n \in 0..N PROVE f[n] = Body(f)[n]
    <3>1. CASE n = 0  BY <2>1, <3>1 DEF Fills
    <3>2. CASE n # 0
      <4>1. n \in 1..N  BY <1>2, <3>2
      <4>2. f[n] = list_add(f[n - 1], s_link(table[n]), semdFree_h)  BY <1>3, <2>1, <4>1 DEF Fills, a
      <4> QED  BY <3>2, <4>2
    <3> QED  BY <3>1, <3>2
  <2>3. f = [n \in 0..N |-> f[n]] /\ Body(f) = [n \in 0..N |-> Body(f)[n]]
    BY <2>1
  <2> HIDE DEF Body
  <2>4. f = Body(f)
    BY <2>2, <2>3
  <2> QED  BY <2>4
<1>8. after = Body(after)
  <2> HIDE DEF Body
  <2> QED  BY <1>7
<1> HIDE DEF after
<1>9. Fills(after, h, C, a)
  <2>1. ASSUME NEW n \in 0..N PROVE after[n] = IF n = 0 THEN h ELSE list_add(after[n - 1], s_link(table[n]), semdFree_h)
    <3>1. after[n] = Body(after)[n]  BY <1>8
    <3> QED  BY <3>1
  <2>2. 0 \in 0..N /\ \A n \in 1..N : n \in 0..N /\ n # 0
    BY <1>2
  <2> QED  BY <1>3, <2>1, <2>2 DEF a, Fills
<1>10. \E s \in Seq(Items) : /\ ToSet(s) = ToSet(C) /\ Len(s) = Len(C)
                             /\ LaidOut(after[Len(C)], [F EXCEPT ![a] = s], H)
  <2> HIDE DEF Body
  <2>1. a \in H /\ F[a] = <<>> /\ C \in Seq(Items)
    BY <1>3 DEF a
  <2> QED  BY <1>4, <1>6, <1>9, <2>1, LayoutFill
<1> QED  BY <1>1, <1>3, <1>5, <1>10 DEF a, N

\* The two tables name every entry once.
LEMMA TableFacts ==
  ASSUME NEW S, IsFiniteSet(S), NEW table \in SetToSeqs(S)
  PROVE  table \in Seq(S) /\ Len(table) = Cardinality(S) /\ Distinct(table) /\ ToSet(table) = S
<1> DEFINE N == Cardinality(S)
<1>1. N \in Nat
  BY FS_CardinalityType
<1>2. table \in [1..N -> S] /\ \A i, j \in 1..N : i # j => table[i] # table[j]
  BY DEF SetToSeqs
<1> HIDE DEF N
<1>3. table \in Seq(S) /\ Len(table) = N /\ DOMAIN table = 1..N
  BY <1>1, <1>2
<1>4. Distinct(table)
  BY <1>2, <1>3 DEF Distinct
<1>5. table \in Injection(1..N, S)
  BY <1>2 DEF Injection, IsInjective
<1>6. Cardinality(1..N) = N
  <2>1. 1 \in Int /\ N \in Int
    BY <1>1
  <2>2. Cardinality(1..N) = IF 1 > N THEN 0 ELSE N - 1 + 1
    BY <2>1, FS_Interval
  <2> QED  BY <1>1, <2>2
<1>7. table \in Surjection(1..N, S)
  <2>1. Cardinality(1..N) = Cardinality(S)
    BY <1>6 DEF N
  <2> QED  BY <1>5, <2>1, FS_Injection
<1>8. ToSet(table) = S
  BY <1>2, <1>3, <1>7 DEF Surjection, ToSet
<1> QED  BY <1>3, <1>4, <1>8 DEF N

\* The cells in static storage, but for the heads that exist, are in no list.
Empty == [a \in HeadCells |-> <<>>]
Static == {pcbFree_h, semdFree_h, semd_h} \cup {procQ(q) : q \in Queues}

\* Before initPcbs and initASL the lists that exist are empty.
LEMMA BlankLayout == LaidOut(Blank, Empty, Static)
<1>1. Static \subseteq HeadCells /\ Static \subseteq Cells
  BY CellKinds DEF Static, HeadCells
<1>2. Blank \in Heaps /\ \A c \in Static : Blank.next[c] = c /\ Blank.prev[c] = c
  BY <1>1 DEF Blank, Heaps, Static
<1>3. Empty \in Layouts /\ Once(Empty) /\ \A a \in HeadCells : Empty[a] = <<>>
  <2>1. <<>> \in Seq(Items)  OBVIOUS
  <2> QED  BY <2>1 DEF Empty, Layouts, Once
<1>4. \A a \in Static : Circle(Blank, a, Empty[a])
  BY <1>1, <1>2, <1>3 DEF Circle, Cyc
<1> QED  BY <1>1, <1>2, <1>3, <1>4 DEF LaidOut

\* The initial state has a layout, in which every PCB and every SEMD is free.
LEMMA InitLayout ==
  ASSUME Phase1Assumption, Init
  PROVE  \E F : Describes(F) /\ Len(F[pcbFree_h]) = Cardinality(Pcbs)
                /\ ToSet(F[pcbFree_h]) = PLists /\ \A a \in HeadCells \ {pcbFree_h, semdFree_h} : F[a] = <<>>
<1>1. IsFiniteSet(Pcbs) /\ IsFiniteSet(Semds)
  BY DEF Phase1Assumption
<1>2. PICK pt \in SetToSeqs(Pcbs), st \in SetToSeqs(Semds) : heap = initASL(initPcbs(Blank, pt), st)
  BY DEF Init
<1>3. /\ pt \in Seq(Pcbs) /\ Len(pt) = Cardinality(Pcbs) /\ Distinct(pt) /\ ToSet(pt) = Pcbs
      /\ st \in Seq(Semds) /\ Len(st) = Cardinality(Semds) /\ Distinct(st) /\ ToSet(st) = Semds
  BY <1>1, TableFacts
<1>4. /\ pcbFree_h \in Static /\ semdFree_h \in Static /\ pcbFree_h # semdFree_h
      /\ pcbFree_h \in HeadCells /\ semdFree_h \in HeadCells /\ semd_h \in HeadCells
      /\ semd_h # pcbFree_h /\ semd_h # semdFree_h
      /\ \A a \in HeadCells : Empty[a] = <<>>
      /\ ToSet(<<>>) = {}
  BY CellNames, HeadFacts DEF Static, Empty, ToSet
<1>5. PICK s \in Seq(Items) : /\ ToSet(s) = {p_list(x) : x \in ToSet(pt)} /\ Len(s) = Len(pt)
                              /\ LaidOut(initPcbs(Blank, pt), [Empty EXCEPT ![pcbFree_h] = s], Static)
  <2>1. \A x \in Pcbs : \A b \in HeadCells : p_list(x) \notin ToSet(Empty[b])
    BY <1>4
  <2>2. Empty[pcbFree_h] = <<>>
    BY <1>4
  <2> QED  BY <1>3, <1>4, <2>1, <2>2, BlankLayout, InitPcbsFills
<1> DEFINE E == [Empty EXCEPT ![pcbFree_h] = s]
<1>6. ToSet(s) = PLists /\ Len(s) = Cardinality(Pcbs)
  BY <1>3, <1>5 DEF PLists
<1>7. /\ E[pcbFree_h] = s /\ \A a \in HeadCells : a # pcbFree_h => E[a] = <<>>
      /\ E \in Layouts
  BY <1>4, <1>5 DEF LaidOut, Layouts
<1> HIDE DEF E
<1>8. PICK t \in Seq(Items) : /\ ToSet(t) = {s_link(x) : x \in ToSet(st)}
                              /\ LaidOut(heap, [E EXCEPT ![semdFree_h] = t], Static)
  <2>1. \A x \in Semds : \A b \in HeadCells : s_link(x) \notin ToSet(E[b])
    <3>1. \A x \in Semds : s_link(x) \notin PLists
      BY KindFacts
    <3> QED  BY <1>4, <1>6, <1>7, <3>1
  <2>2. E[semdFree_h] = <<>> /\ LaidOut(initPcbs(Blank, pt), E, Static)
    BY <1>4, <1>5, <1>7 DEF E
  <2> QED  BY <1>2, <1>3, <1>4, <2>1, <2>2, InitASLFills
<1> DEFINE F == [E EXCEPT ![semdFree_h] = t]
<1>9. /\ F[pcbFree_h] = s /\ F[semdFree_h] = t
      /\ \A a \in HeadCells \ {pcbFree_h, semdFree_h} : F[a] = <<>>
  BY <1>4, <1>7 DEF Layouts
<1>10. ToSet(t) = SLinks
  BY <1>3, <1>8 DEF SLinks
<1>11. LaidOut(heap, F, Static)
  BY <1>8
<1> HIDE DEF F
<1>12. Free(F) = Pcbs /\ InASL(F) = {}
  BY <1>4, <1>6, <1>9, HeadFacts DEF Free, InASL
<1>13. HeadsOf(F) = Static
  BY <1>12 DEF HeadsOf, Static
<1>14. Sorted(F)
  <2> SUFFICES ASSUME NEW a \in HeadCells PROVE ToSet(F[a]) \subseteq KindOf(a)
    BY DEF Sorted
  <2> QED  BY <1>4, <1>6, <1>9, <1>10, KindFacts
<1>15. FieldsOK
  BY DEF Init, FieldsOK
<1>16. HeldOf(F)
  BY <1>4, <1>6, <1>9, KindFacts DEF Init, HeldOf
<1>17. SemdsOf(F)
  BY <1>9, <1>10, <1>12, HeadFacts DEF SemdsOf
<1>18. \A s0 \in Semds : ToSet(F[s_procq(s0)]) = {}
  BY <1>4, <1>9, HeadFacts, CellNames
<1>19. SemAddOf(F)
  BY <1>18 DEF Init, SemAddOf
<1>20. ParentOf(F)
  <2>1. \A r \in Pcbs : ToSet(F[p_child(r)]) = {}
    BY <1>4, <1>9, HeadFacts, CellNames
  <2>2. \A p \in Pcbs : p_parent[p] = NULL
    BY DEF Init
  <2>3. NULL \notin Pcbs
    BY DEF Phase1Assumption
  <2> QED  BY <2>1, <2>2, <2>3 DEF ParentOf, Free
<1>21. Describes(F)
  BY <1>11, <1>13, <1>14, <1>15, <1>16, <1>17, <1>19, <1>20 DEF Describes
<1> QED  BY <1>6, <1>9, <1>21

\* The initial state has a layout and is an initial state of Phase1Api.
LEMMA LinksInit == Init => LinksInv /\ Api!Init
<1> SUFFICES ASSUME Init PROVE LinksInv /\ Api!Init
  OBVIOUS
<1> USE Phase1Assumption
<1>1. PICK F : /\ Describes(F) /\ Len(F[pcbFree_h]) = Cardinality(Pcbs)
               /\ ToSet(F[pcbFree_h]) = PLists
               /\ \A a \in HeadCells \ {pcbFree_h, semdFree_h} : F[a] = <<>>
  BY InitLayout
<1>2. Mirrors(F)
  BY <1>1, LayoutMirrors
<1> DEFINE s == F[pcbFree_h]
           n == Names(s)
<1>3. s \in Seq(Items) /\ Distinct(s) /\ \A i \in 1..Len(s) : s[i] \in PLists
  <2>1. F \in Layouts /\ Once(F) /\ pcbFree_h \in HeadCells
    BY <1>1, LayoutTypes, HeadFacts
  <2>2. s \in Seq(Items) /\ Distinct(s)
    BY <2>1, ListsApart
  <2> QED  BY <1>1, <2>2 DEF ToSet
<1>4. n \in [1..Cardinality(Pcbs) -> Pcbs] /\ \A i, j \in 1..Cardinality(Pcbs) : i # j => n[i] # n[j]
  <2>1. DOMAIN s = 1..Cardinality(Pcbs) /\ n = [i \in 1..Cardinality(Pcbs) |-> Owner(s[i])]
    BY <1>1, <1>3 DEF Names
  <2> HIDE DEF s, n
  <2>2. \A i \in 1..Cardinality(Pcbs) : s[i] \in PLists
    BY <1>1, <1>3 DEF s
  <2>3. \A i \in 1..Cardinality(Pcbs) : Owner(s[i]) \in Pcbs /\ s[i] = p_list(Owner(s[i]))
    BY <2>2, KindFacts
  <2> QED  BY <1>3, <2>1, <2>3 DEF Distinct
<1>5. FreePcbs \in Api!SetToSeqs(Pcbs)
  <2> HIDE DEF n
  <2>1. FreePcbs = n
    BY <1>2 DEF Mirrors, n
  <2> QED  BY <1>4, <2>1, ApiOperators DEF Api!SetToSeqs
<1>6. Names(<<>>) = <<>>
  BY DEF Names
<1>7. \A q \in Queues : ApiQueue[q] = <<>>
  <2>1. \A q \in Queues : procQ(q) \in HeadCells \ {pcbFree_h, semdFree_h}
    BY CellNames, HeadFacts
  <2> QED  BY <1>1, <1>2, <1>6, <2>1 DEF Mirrors
<1>8. \A p \in Pcbs : ApiChildren[p] = <<>>
  <2>1. \A p \in Pcbs : p_child(p) \in HeadCells \ {pcbFree_h, semdFree_h}
    BY CellNames, HeadFacts
  <2> QED  BY <1>1, <1>2, <1>6, <2>1 DEF Mirrors
<1>9. \A k : Queue(k) = <<>>
  <2>1. semd_h \in HeadCells \ {pcbFree_h, semdFree_h}
    BY CellNames, HeadFacts
  <2>2. InASL(F) = {}
    BY <1>1, <2>1 DEF InASL, ToSet
  <2> QED  BY <1>2, <2>2 DEF Mirrors
<1>10. Api!Init
  BY <1>5, <1>7, <1>8, <1>9 DEF Api!Init, Init, ApiQueue, ApiChildren
<1> QED  BY <1>1, <1>10 DEF LinksInv

\* In every reachable state some layout describes the links.
LEMMA LinksAlways == Spec => []LinksInv
<1> QED  BY LinksInit, LinksStep, PTL DEF Spec

\* The linked lists of phase1 implement Phase1Api: every function of pcb.c and
\* asl.c does to the circles what the operation of that name does to sequences
\* and functions, so that phase2 may reason about its queues as such.
THEOREM LinksImplementApi == Spec => ImplementsApi
<1> QED  BY LinksInit, LinksStep, LinksAlways, PTL DEF Spec, ImplementsApi, Api!Spec

-----------------------------------------------------------------------------
(* What the invariant says of the lists *)

\* The lists there are, and where a cell is looked for.
LEMMA ReadHeads ==
  ASSUME Phase1Assumption, NEW F, Describes(F)
  PROVE  /\ Heads = HeadsOf(F)
         /\ \A a \in Heads : Entries(heap, a) = F[a] /\ a \in HeadCells
         /\ \A a \in HeadCells : \A c \in ToSet(F[a]) : a \in Heads
<1>1. Heads = HeadsOf(F)
  BY ReadLists DEF Heads, HeadsOf
<1>2. \A a \in HeadCells : \A c \in ToSet(F[a]) : a \in HeadsOf(F)
  BY LayoutTypes
<1> QED  BY <1>1, <1>2, ReadLists, HeadFacts

\* A state with a layout is well-typed.
LEMMA LinksType == LinksInv => Phase1TypeOK
BY DEF LinksInv, Describes, LaidOut, Heaps, FieldsOK, Phase1TypeOK

\* The lists of a layout are circles.
LEMMA LinksCircular == LinksInv => Circular
<1> SUFFICES ASSUME LinksInv PROVE Circular
  OBVIOUS
<1>1. PICK F : Describes(F)
  BY DEF LinksInv
<1> SUFFICES ASSUME NEW h \in Heads
             PROVE  LET cells == <<h>> \o Entries(heap, h)
                        n     == Len(cells)
                    IN  /\ \A i \in 1..n : heap.next[cells[i]] = cells[(i % n) + 1]
                        /\ \A i \in 1..n : heap.prev[cells[(i % n) + 1]] = cells[i]
  BY DEF Circular
<1> DEFINE s == F[h]
           cells == <<h>> \o s
           n == Len(cells)
<1>2. Entries(heap, h) = s /\ h \in HeadsOf(F) /\ h \in HeadCells
  BY <1>1, ReadHeads, Phase1Assumption
<1>3. Circle(heap, h, s) /\ s \in Seq(Items)
  BY <1>1, <1>2, LayoutTypes DEF LaidOut, Layouts
<1> HIDE DEF s
<1>4. /\ n = Len(s) + 1 /\ Len(s) \in Nat
      /\ cells[1] = h /\ \A i \in 1..Len(s) : cells[i + 1] = s[i]
  BY <1>3
<1> HIDE DEF cells, n
<1>5. ASSUME NEW i \in 1..n
      PROVE  cells[i] = Cyc(h, s, i - 1) /\ cells[(i % n) + 1] = Cyc(h, s, (i - 1) + 1)
  <2>1. cells[i] = Cyc(h, s, i - 1)
    <3>1. CASE i = 1  BY <1>4, <3>1 DEF Cyc
    <3>2. CASE i # 1
      <4>1. i - 1 \in 1..Len(s) /\ (i - 1) + 1 = i  BY <1>4, <3>2
      <4>2. cells[(i - 1) + 1] = s[i - 1]  BY <1>4, <4>1
      <4> QED  BY <4>1, <4>2 DEF Cyc
    <3> QED  BY <3>1, <3>2
  <2>2. cells[(i % n) + 1] = Cyc(h, s, i)
    <3>1. CASE i = n
      <4>1. i % n = 0  BY <1>4, <3>1
      <4> QED  BY <1>4, <3>1, <4>1 DEF Cyc
    <3>2. CASE i # n
      <4>1. i \in 1..Len(s) /\ i \in 0..(n - 1) /\ n \in Nat \ {0} /\ i = 0 * n + i  BY <1>4, <3>2
      <4>2. i % n = i  BY <4>1, ModUnique
      <4> QED  BY <1>4, <4>1, <4>2 DEF Cyc
    <3> QED  BY <3>1, <3>2
  <2>3. (i - 1) + 1 = i
    BY <1>4
  <2> QED  BY <2>1, <2>2, <2>3
<1>6. ASSUME NEW i \in 1..n
      PROVE  heap.next[cells[i]] = cells[(i % n) + 1] /\ heap.prev[cells[(i % n) + 1]] = cells[i]
  <2>1. i - 1 \in 0..Len(s)
    BY <1>4
  <2> QED  BY <1>3, <1>5, <2>1 DEF Circle
<1> QED  BY <1>2, <1>6 DEF cells, n

\* A layout has each PCB that is not held once.
LEMMA LinksOnePlace == LinksInv => OnePlace
<1> SUFFICES ASSUME LinksInv, NEW p \in Pcbs
             PROVE  Cardinality({h \in Heads : p_list(p) \in ToSet(Entries(heap, h))})
                      = IF p \in held THEN 0 ELSE 1
  BY DEF OnePlace
<1>1. PICK F : Describes(F)
  BY DEF LinksInv
<1> DEFINE places == {h \in Heads : p_list(p) \in ToSet(Entries(heap, h))}
<1>2. \A h : h \in places <=> h \in HeadCells /\ p_list(p) \in ToSet(F[h])
  BY <1>1, ReadHeads, Phase1Assumption
<1> HIDE DEF places
<1>3. CASE p \in held
  <2>1. places = {}
    BY <1>1, <1>2, <1>3 DEF Describes, HeldOf
  <2> QED  BY <1>3, <2>1, FS_EmptySet DEF places
<1>4. CASE p \notin held
  <2>1. PICK a \in HeadCells : p_list(p) \in ToSet(F[a])
    BY <1>1, <1>4 DEF Describes, HeldOf
  <2>2. \A h \in places : h = a
    BY <1>1, <1>2, <2>1, LayoutTypes
  <2>3. places = {a}
    BY <1>2, <2>1, <2>2
  <2>4. Cardinality({a}) = 1
    BY FS_Singleton
  <2> QED  BY <1>4, <2>3, <2>4 DEF places
<1> QED  BY <1>3, <1>4

\* What a layout says of SEMDs is what the ASL promises.
LEMMA LinksAsl == LinksInv => AslSound
<1> SUFFICES ASSUME LinksInv PROVE AslSound
  OBVIOUS
<1>1. PICK F : Describes(F)
  BY DEF LinksInv
<1>2. ToSet(Active) = InASL(F)
  BY <1>1, ReadLists, Phase1Assumption
<1>3. \A s : s \in ToSet(FreeSemds) <=> s \in Semds /\ s_link(s) \in ToSet(F[semdFree_h])
  <2>1. FreeSemds = Names(F[semdFree_h])
    BY <1>1, ReadLists, HeadFacts, Phase1Assumption DEF FreeSemds
  <2>2. ToSet(F[semdFree_h]) \subseteq SLinks
    BY <1>1, LayoutTypes, HeadFacts, KindFacts
  <2>3. \A s : s \in ToSet(FreeSemds) <=> \E c \in ToSet(F[semdFree_h]) : s = Owner(c)
    BY <2>1, NamesToSet
  <2> QED  BY <2>2, <2>3, KindFacts, CellNames
<1>4. ToSet(F[semdFree_h]) \cap ToSet(F[semd_h]) = {}
  BY <1>1, LayoutTypes, HeadFacts, CellNames
<1>5. ToSet(Active) \cap ToSet(FreeSemds) = {} /\ ToSet(Active) \cup ToSet(FreeSemds) = Semds
  BY <1>1, <1>2, <1>3, <1>4 DEF InASL, Describes, SemdsOf
<1>6. \A s \in InASL(F) : ~list_empty(heap, s_procq(s))
  <2> SUFFICES ASSUME NEW s \in InASL(F) PROVE ~list_empty(heap, s_procq(s))
    OBVIOUS
  <2>1. s_procq(s) \in HeadsOf(F) /\ F[s_procq(s)] # <<>>
    BY <1>1, HeadFacts DEF InASL, Describes, SemdsOf
  <2> QED  BY <1>1, <2>1, HeadOfList
<1>7. \A s, t \in InASL(F) : s_key[s] = s_key[t] => s = t
  BY <1>1 DEF Describes, SemdsOf
<1> QED  BY <1>2, <1>5, <1>6, <1>7 DEF AslSound

\* What a layout says of p_semAdd and p_parent is what the lists say.
LEMMA LinksBackPointers == LinksInv => BackPointers
<1> SUFFICES ASSUME LinksInv PROVE BackPointers
  OBVIOUS
<1> USE Phase1Assumption
<1>1. PICK F : Describes(F)
  BY DEF LinksInv
<1>2. Mirrors(F)
  BY <1>1, LayoutMirrors
<1>3. ASSUME NEW p \in Pcbs, NEW s \in InASL(F)
      PROVE  p \in ToSet(Queue(s_key[s])) <=> p_list(p) \in ToSet(F[s_procq(s)])
  <2>1. s_procq(s) \in HeadCells /\ ToSet(F[s_procq(s)]) \subseteq PLists
    BY <1>1, LayoutTypes, HeadFacts, KindFacts DEF InASL
  <2>2. p \in ToSet(Queue(s_key[s])) <=> \E c \in ToSet(F[s_procq(s)]) : p = Owner(c)
    BY <1>2, NamesToSet DEF Mirrors
  <2> QED  BY <2>1, <2>2, KindFacts, CellNames
<1>4. ASSUME NEW p \in Pcbs, NEW s \in Semds, p_list(p) \in ToSet(F[s_procq(s)])
      PROVE  s \in InASL(F) /\ p_semAdd[p] = s_key[s]
  <2>1. s_procq(s) \in HeadsOf(F)
    BY <1>1, <1>4, HeadFacts, LayoutTypes
  <2> QED  BY <1>1, <1>4, <2>1, HeadFacts DEF Describes, SemAddOf
<1>5. ASSUME NEW p \in Pcbs, NEW k \in Keys
      PROVE  p_semAdd[p] = k <=> p \in ToSet(Queue(k))
  <2>1. ASSUME p_semAdd[p] = k PROVE p \in ToSet(Queue(k))
    <3>1. p_semAdd[p] # NULL
      BY <2>1 DEF Phase1Assumption
    <3>2. PICK s \in Semds : p_list(p) \in ToSet(F[s_procq(s)])
      BY <1>1, <3>1 DEF Describes, SemAddOf
    <3>3. s \in InASL(F) /\ s_key[s] = k
      BY <1>4, <2>1, <3>2
    <3> QED  BY <1>3, <3>2, <3>3
  <2>2. ASSUME p \in ToSet(Queue(k)) PROVE p_semAdd[p] = k
    <3>1. Queue(k) # <<>>
      BY <2>2 DEF ToSet
    <3>2. PICK s \in InASL(F) : s_key[s] = k
      BY <1>2, <3>1 DEF Mirrors
    <3>3. p_list(p) \in ToSet(F[s_procq(s)]) /\ s \in Semds
      BY <1>3, <2>2, <3>2 DEF InASL
    <3> QED  BY <1>4, <3>2, <3>3
  <2> QED  BY <2>1, <2>2
<1>6. ASSUME NEW p \in Pcbs, NEW r \in Allocated
      PROVE  p_parent[p] = r <=> p_sib(p) \in ToSet(Entries(heap, p_child(r)))
  <2>1. r \in Pcbs /\ Entries(heap, p_child(r)) = F[p_child(r)]
    BY <1>1, ReadLists, HeadFacts
  <2> QED  BY <1>1, <2>1 DEF Describes, ParentOf
<1> QED  BY <1>5, <1>6 DEF BackPointers

\* By counting: every active SEMD has a process of its own, so that if all were active
\* no PCB would be left to hold.
LEMMA LinksSemds == LinksInv => SemdForEveryProcess
<1> SUFFICES ASSUME LinksInv, held # {}, list_empty(heap, semdFree_h) PROVE FALSE
  BY DEF SemdForEveryProcess
<1> USE Phase1Assumption
<1>1. PICK F : Describes(F)
  BY DEF LinksInv
<1>2. ToSet(F[semdFree_h]) = {}
  BY <1>1, HeadFacts, HeadOfList, LayoutTypes
<1>3. InASL(F) = Semds
  BY <1>1, <1>2 DEF InASL, Describes, SemdsOf
<1>4. PICK x \in Pcbs : x \in held
  BY <1>1 DEF Describes, FieldsOK
<1> DEFINE f == [s \in Semds |-> headProcQ(s_procq(s))]
<1>5. \A s \in Semds : f[s] \in Pcbs /\ p_list(f[s]) \in ToSet(F[s_procq(s)])
  <2> SUFFICES ASSUME NEW s \in Semds
               PROVE  LET q == headProcQ(s_procq(s)) IN q \in Pcbs /\ p_list(q) \in ToSet(F[s_procq(s)])
    OBVIOUS
  <2>1. s_procq(s) \in HeadsOf(F) /\ KindOf(s_procq(s)) = PLists /\ F[s_procq(s)] # <<>>
    BY <1>1, <1>3, HeadFacts, KindFacts DEF Describes, SemdsOf
  <2> QED  BY <1>1, <2>1, HeadOfQueue
<1>6. \A s \in Semds : f[s] # x
  BY <1>1, <1>4, <1>5, HeadFacts DEF Describes, HeldOf
<1>7. f \in [Semds -> Pcbs \ {x}]
  BY <1>5, <1>6
<1> HIDE DEF f
<1>8. \A s, t \in Semds : f[s] = f[t] => s = t
  <2> SUFFICES ASSUME NEW s \in Semds, NEW t \in Semds, f[s] = f[t] PROVE s = t
    OBVIOUS
  <2>1. s_procq(s) = s_procq(t)
    BY <1>1, <1>5, HeadFacts, LayoutTypes
  <2> QED  BY <2>1, CellNames
<1>9. IsFiniteSet(Pcbs) /\ Cardinality(Pcbs) = Cardinality(Semds)
  BY DEF Phase1Assumption
<1>10. Cardinality(Semds) < Cardinality(Pcbs) /\ Cardinality(Pcbs) \in Nat
  BY <1>4, <1>7, <1>8, <1>9, ShortOfOne
<1> QED  BY <1>9, <1>10

-----------------------------------------------------------------------------
(* The theorems *)

\* Links lead to cells or to nowhere, fields to objects or NULL.
THEOREM LinksTypeCorrect == Spec => []Phase1TypeOK
<1> QED  BY LinksAlways, LinksType, PTL

\* Every list of phase1 is a circle, forwards and backwards, after any sequence
\* of calls.
THEOREM ListsAreCircles == Spec => []Circular
<1> QED  BY LinksAlways, LinksCircular, PTL

\* A PCB is in one list, or in the hands of the caller.
THEOREM PcbInOnePlace == Spec => []OnePlace
<1> QED  BY LinksAlways, LinksOnePlace, PTL

\* SEMDs are free or active, and an active one has processes and a key of its
\* own: insertBlocked, removeBlocked and outBlocked never break the ASL.
THEOREM AslCorrect == Spec => []AslSound
<1> QED  BY LinksAlways, LinksAsl, PTL

\* p_semAdd and p_parent agree with the lists.
THEOREM BackPointersAgree == Spec => []BackPointers
<1> QED  BY LinksAlways, LinksBackPointers, PTL

\* insertBlocked never runs out of SEMDs, whatever MAXPROC is.
THEOREM SemdsSuffice == Spec => []SemdForEveryProcess
<1> QED  BY LinksAlways, LinksSemds, PTL
=============================================================================
