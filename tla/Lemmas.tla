------------------------------- MODULE Lemmas --------------------------------
(***************************************************************************)
(* What the proofs about several components need: what the queue           *)
(* operations do to the set of queued PCBs, remainders, least numbers and  *)
(* loops.                                                                  *)
(***************************************************************************)
EXTENDS ProcQ, SequenceTheorems, WellFoundedInduction, TLAPS

-----------------------------------------------------------------------------
(* Process queues *)

\* The elements of a queue are PCBs; only the empty queue has none.
LEMMA ToSetProperties ==
  ASSUME NEW S, NEW q \in Seq(S)
  PROVE  /\ ToSet(q) \subseteq S
         /\ q = <<>> <=> ToSet(q) = {}
         /\ q # <<>> => Head(q) \in ToSet(q)
BY DEF ToSet

\* insertProcQ adds its argument and nothing else.
LEMMA AppendToSet ==
  ASSUME NEW S, NEW q \in Seq(S), NEW p \in S
  PROVE  /\ Append(q, p) \in Seq(S)
         /\ ToSet(Append(q, p)) = ToSet(q) \cup {p}
         /\ Distinct(q) /\ p \notin ToSet(q) => Distinct(Append(q, p))
<1> DEFINE a == Append(q, p)
<1>1. a \in Seq(S) /\ Len(a) = Len(q) + 1 /\ a[Len(q) + 1] = p
  OBVIOUS
<1>2. \A i \in 1..Len(q) : a[i] = q[i]
  OBVIOUS
<1>3. DOMAIN a = 1..Len(q) + 1 /\ DOMAIN q = 1..Len(q)
  BY <1>1
<1>4. ASSUME NEW x PROVE x \in ToSet(a) <=> x \in ToSet(q) \cup {p}
  <2>1. ASSUME x \in ToSet(a) PROVE x \in ToSet(q) \cup {p}
    <3>1. PICK i \in 1..Len(q) + 1 : a[i] = x  BY <2>1, <1>3 DEF ToSet
    <3>2. CASE i \in 1..Len(q)  BY <3>1, <3>2, <1>2, <1>3 DEF ToSet
    <3>3. CASE i = Len(q) + 1   BY <3>1, <3>3, <1>1
    <3> QED  BY <3>1, <3>2, <3>3
  <2>2. ASSUME x \in ToSet(q) PROVE x \in ToSet(a)
    <3>1. PICK i \in 1..Len(q) : q[i] = x  BY <2>2, <1>3 DEF ToSet
    <3> QED  BY <3>1, <1>2, <1>3 DEF ToSet
  <2>3. p \in ToSet(a)  BY <1>1, <1>3 DEF ToSet
  <2> QED  BY <2>1, <2>2, <2>3
<1>5. ASSUME Distinct(q), p \notin ToSet(q) PROVE Distinct(a)
  BY <1>5, <1>1, <1>2, <1>3 DEF Distinct, ToSet
<1> QED  BY <1>1, <1>4, <1>5

\* removeProcQ takes the head out.
LEMMA TailToSet ==
  ASSUME NEW S, NEW q \in Seq(S), q # <<>>, Distinct(q)
  PROVE  /\ Head(q) \in ToSet(q)
         /\ Tail(q) \in Seq(S)
         /\ ToSet(Tail(q)) = ToSet(q) \ {Head(q)}
         /\ Distinct(Tail(q))
<1> DEFINE t == Tail(q)
<1>1. t \in Seq(S) /\ Len(t) = Len(q) - 1 /\ Head(q) = q[1] /\ Len(q) \in Nat \ {0}
  OBVIOUS
<1>2. \A i \in 1..Len(q) - 1 : t[i] = q[i + 1]
  OBVIOUS
<1>3. DOMAIN t = 1..Len(q) - 1 /\ DOMAIN q = 1..Len(q)
  BY <1>1
<1>4. ASSUME NEW x PROVE x \in ToSet(t) <=> x \in ToSet(q) /\ x # Head(q)
  <2>1. ASSUME x \in ToSet(t) PROVE x \in ToSet(q) /\ x # Head(q)
    <3>1. PICK i \in 1..Len(q) - 1 : t[i] = x  BY <2>1, <1>3 DEF ToSet
    <3>2. q[i + 1] = x /\ i + 1 \in DOMAIN q /\ 1 \in DOMAIN q /\ i + 1 # 1
      BY <3>1, <1>1, <1>2, <1>3
    <3> QED  BY <3>2, <1>1 DEF Distinct, ToSet
  <2>2. ASSUME x \in ToSet(q), x # Head(q) PROVE x \in ToSet(t)
    <3>1. PICK i \in 1..Len(q) : q[i] = x  BY <2>2, <1>3 DEF ToSet
    <3>2. i - 1 \in 1..Len(q) - 1  BY <3>1, <2>2, <1>1
    <3>3. t[i - 1] = q[(i - 1) + 1]  BY <3>2, <1>2
    <3>4. t[i - 1] = x /\ i - 1 \in DOMAIN t  BY <3>1, <3>2, <3>3, <1>3
    <3> QED  BY <3>4 DEF ToSet
  <2> QED  BY <2>1, <2>2
<1>5. Distinct(t)
  <2> SUFFICES ASSUME NEW i \in DOMAIN t, NEW j \in DOMAIN t, t[i] = t[j] PROVE i = j
    BY DEF Distinct
  <2>1. q[i + 1] = q[j + 1] /\ i + 1 \in DOMAIN q /\ j + 1 \in DOMAIN q
    BY <1>1, <1>2, <1>3
  <2>2. i + 1 = j + 1  BY <2>1 DEF Distinct
  <2> QED  BY <2>2, <1>1, <1>3
<1> QED  BY <1>1, <1>4, <1>5, ToSetProperties

\* What RemoveAt leaves, place by place.
LEMMA RemoveAtProperties ==
  ASSUME NEW S, NEW q \in Seq(S), NEW k \in 1..Len(q)
  PROVE  /\ RemoveAt(q, k) \in Seq(S)
         /\ Len(RemoveAt(q, k)) = Len(q) - 1
         /\ \A i \in 1..k - 1 : RemoveAt(q, k)[i] = q[i]
         /\ \A i \in k..Len(q) - 1 : RemoveAt(q, k)[i] = q[i + 1]
<1> DEFINE o == RemoveAt(q, k)
           l == SubSeq(q, 1, k - 1)
           r == SubSeq(q, k + 1, Len(q))
<1>1. o = l \o r
  BY DEF RemoveAt
<1>2. l \in Seq(S) /\ Len(l) = k - 1 /\ \A i \in 1..k - 1 : l[i] = q[i]
  OBVIOUS
<1>3. r \in Seq(S) /\ Len(r) = Len(q) - k /\ \A i \in 1..Len(q) - k : r[i] = q[k + i]
  <2>1. k + 1 \in Int /\ Len(q) \in Int /\ \A i \in k + 1..Len(q) : q[i] \in S
    OBVIOUS
  <2>2. /\ r \in Seq(S)
        /\ Len(r) = IF k + 1 <= Len(q) THEN Len(q) - (k + 1) + 1 ELSE 0
        /\ \A i \in 1..Len(q) - (k + 1) + 1 : r[i] = q[(k + 1) + i - 1]
    BY <2>1, SubSeqProperties
  <2> QED  BY <2>2
<1> HIDE DEF l, r, o
<1>4. /\ o \in Seq(S) /\ Len(o) = Len(l) + Len(r)
      /\ \A i \in 1..Len(l) + Len(r) : o[i] = IF i <= Len(l) THEN l[i] ELSE r[i - Len(l)]
  BY <1>1, <1>2, <1>3, ConcatProperties
<1>5. o \in Seq(S) /\ Len(o) = Len(q) - 1
  BY <1>2, <1>3, <1>4
<1>6. ASSUME NEW i \in 1..k - 1 PROVE o[i] = q[i]
  <2>1. Len(q) \in Nat /\ i \in 1..Len(l) + Len(r) /\ i <= Len(l)
    BY <1>2, <1>3
  <2> QED  BY <2>1, <1>2, <1>4
<1>7. ASSUME NEW i \in k..Len(q) - 1 PROVE o[i] = q[i + 1]
  <2>1. o[i] = r[i - (k - 1)]
    BY <1>2, <1>3, <1>4
  <2>2. i - (k - 1) \in 1..Len(q) - k /\ k + (i - (k - 1)) = i + 1
    OBVIOUS
  <2> QED  BY <2>1, <2>2, <1>3
<1> QED  BY <1>5, <1>6, <1>7 DEF o

\* outProcQ takes its argument out.
LEMMA OutProcQToSet ==
  ASSUME NEW S, NEW q \in Seq(S), NEW p
  PROVE  /\ Without(q, p) \in Seq(S)
         /\ Distinct(q) => /\ ToSet(Without(q, p)) = ToSet(q) \ {p}
                           /\ Distinct(Without(q, p))
<1>1. CASE p \notin ToSet(q)
  BY <1>1 DEF Without
<1>2. CASE p \in ToSet(q)
  <2> DEFINE k == CHOOSE i \in DOMAIN q : q[i] = p
             o == Without(q, p)
  <2>1. k \in DOMAIN q /\ q[k] = p  BY <1>2 DEF ToSet
  <2>2. DOMAIN q = 1..Len(q) /\ Len(q) \in Nat  OBVIOUS
  <2>3. o = RemoveAt(q, k)
    BY <1>2 DEF Without
  <2> HIDE DEF k, o
  <2>4. o \in Seq(S) /\ Len(o) = Len(q) - 1
    BY <2>1, <2>2, <2>3, RemoveAtProperties
  <2>5. \A i \in 1..k - 1 : o[i] = q[i]
    BY <2>1, <2>2, <2>3, RemoveAtProperties
  <2>6. ASSUME NEW i \in k..Len(q) - 1 PROVE o[i] = q[i + 1]
    BY <2>1, <2>2, <2>3, RemoveAtProperties
  <2>7. DOMAIN o = 1..Len(q) - 1  BY <2>4, <2>2
  <2>8. ASSUME Distinct(q), NEW x PROVE x \in ToSet(o) <=> x \in ToSet(q) \ {p}
    <3>1. ASSUME x \in ToSet(o) PROVE x \in ToSet(q) \ {p}
      <4>1. PICK i \in 1..Len(q) - 1 : o[i] = x  BY <3>1, <2>7 DEF ToSet
      <4>2. CASE i < k
        BY <4>1, <4>2, <2>1, <2>2, <2>5, <2>8 DEF Distinct, ToSet
      <4>3. CASE i >= k
        <5>1. o[i] = q[i + 1] /\ i + 1 \in DOMAIN q /\ i + 1 # k
          BY <4>1, <4>3, <2>1, <2>2, <2>6
        <5> QED  BY <5>1, <4>1, <2>1, <2>8 DEF Distinct, ToSet
      <4> QED  BY <4>1, <4>2, <4>3, <2>1, <2>2
    <3>2. ASSUME x \in ToSet(q), x # p PROVE x \in ToSet(o)
      <4>1. PICK i \in 1..Len(q) : q[i] = x  BY <3>2, <2>2 DEF ToSet
      <4>2. i # k  BY <4>1, <3>2, <2>1
      <4>3. CASE i < k
        <5>1. i \in 1..k - 1 /\ i \in DOMAIN o
          BY <4>1, <4>3, <2>1, <2>2, <2>7
        <5>2. o[i] = x  BY <5>1, <4>1, <2>5
        <5> QED  BY <5>1, <5>2 DEF ToSet
      <4>4. CASE i > k
        <5>1. i - 1 \in k..Len(q) - 1 /\ i - 1 \in DOMAIN o
          BY <4>1, <4>4, <2>1, <2>2, <2>7
        <5>2. o[i - 1] = q[(i - 1) + 1]  BY <5>1, <2>6
        <5>3. (i - 1) + 1 = i  BY <4>1
        <5>4. o[i - 1] = x  BY <5>2, <5>3, <4>1
        <5> QED  BY <5>1, <5>4 DEF ToSet
      <4> QED  BY <4>1, <4>2, <4>3, <4>4, <2>1, <2>2
    <3> QED  BY <3>1, <3>2
  <2>9. ASSUME Distinct(q) PROVE Distinct(o)
    <3> DEFINE pos(i) == IF i < k THEN i ELSE i + 1
    <3>1. \A i \in DOMAIN o : o[i] = q[pos(i)] /\ pos(i) \in DOMAIN q
      BY <2>1, <2>2, <2>5, <2>6, <2>7
    <3>2. \A i, j \in DOMAIN o : pos(i) = pos(j) => i = j
      BY <2>1, <2>2, <2>7
    <3> HIDE DEF pos
    <3> QED  BY <3>1, <3>2, <2>9 DEF Distinct
  <2> QED  BY <2>4, <2>8, <2>9 DEF o
<1> QED  BY <1>1, <1>2

\* It takes it out of the one place that holds it.
LEMMA OutProcQPlace ==
  ASSUME NEW S, NEW q \in Seq(S), NEW p \in ToSet(q)
  PROVE  \E k \in 1..Len(q) : q[k] = p /\ Without(q, p) = RemoveAt(q, k)
<1> DEFINE k == CHOOSE i \in DOMAIN q : q[i] = p
<1>1. k \in DOMAIN q /\ q[k] = p  BY DEF ToSet
<1>2. Without(q, p) = RemoveAt(q, k)  BY DEF Without
<1> HIDE DEF k
<1> QED  BY <1>1, <1>2

\* To take the head out is to take out what the head is.
LEMMA TailIsOut ==
  ASSUME NEW S, NEW q \in Seq(S), q # <<>>, Distinct(q)
  PROVE  Without(q, Head(q)) = Tail(q)
<1>1. Head(q) \in ToSet(q) /\ Head(q) = q[1] /\ Len(q) \in Nat /\ Len(q) > 0
  BY DEF ToSet
<1>2. PICK k \in 1..Len(q) : q[k] = q[1] /\ Without(q, Head(q)) = RemoveAt(q, k)
  BY <1>1, OutProcQPlace
<1>3. k = 1
  BY <1>1, <1>2 DEF Distinct
<1> DEFINE o == RemoveAt(q, 1)
<1>4. o \in Seq(S) /\ Len(o) = Len(q) - 1 /\ \A i \in 1..Len(q) - 1 : o[i] = q[i + 1]
  BY <1>1, RemoveAtProperties
<1> HIDE DEF o
<1>5. Tail(q) \in Seq(S) /\ Len(Tail(q)) = Len(q) - 1 /\ \A i \in 1..Len(q) - 1 : Tail(q)[i] = q[i + 1]
  BY <1>1
<1>6. o = Tail(q)
  BY <1>4, <1>5, SeqEqual
<1> QED  BY <1>2, <1>3, <1>6 DEF o

\* A queue with an element in front.
LEMMA ConsToSet ==
  ASSUME NEW S, NEW q \in Seq(S), NEW p \in S
  PROVE  /\ <<p>> \o q \in Seq(S)
         /\ Len(<<p>> \o q) = Len(q) + 1
         /\ (<<p>> \o q)[1] = p
         /\ \A i \in 1..Len(q) : (<<p>> \o q)[i + 1] = q[i]
         /\ ToSet(<<p>> \o q) = ToSet(q) \cup {p}
<1> DEFINE o == <<p>> \o q
<1>1. o \in Seq(S) /\ Len(o) = Len(q) + 1 /\ o[1] = p
  OBVIOUS
<1>2. \A i \in 1..Len(q) : o[i + 1] = q[i]
  OBVIOUS
<1>3. DOMAIN o = 1..Len(q) + 1 /\ DOMAIN q = 1..Len(q) /\ Len(q) \in Nat
  BY <1>1
<1> HIDE DEF o
<1>4. ASSUME NEW x PROVE x \in ToSet(o) <=> x \in ToSet(q) \cup {p}
  <2>1. ASSUME x \in ToSet(o) PROVE x \in ToSet(q) \cup {p}
    <3>1. PICK i \in 1..Len(q) + 1 : o[i] = x  BY <2>1, <1>3 DEF ToSet
    <3>2. CASE i = 1  BY <3>1, <3>2, <1>1
    <3>3. CASE i # 1
      <4>1. i - 1 \in 1..Len(q) /\ o[(i - 1) + 1] = q[i - 1] /\ (i - 1) + 1 = i
        BY <3>3, <1>2, <1>3
      <4> QED  BY <3>1, <4>1, <1>3 DEF ToSet
    <3> QED  BY <3>2, <3>3
  <2>2. ASSUME x \in ToSet(q) PROVE x \in ToSet(o)
    <3>1. PICK i \in 1..Len(q) : q[i] = x  BY <2>2, <1>3 DEF ToSet
    <3>2. i + 1 \in DOMAIN o  BY <1>3
    <3> QED  BY <3>1, <3>2, <1>2 DEF ToSet
  <2>3. p \in ToSet(o)
    <3>1. 1 \in DOMAIN o  BY <1>3
    <3> QED  BY <1>1, <3>1 DEF ToSet
  <2> QED  BY <2>1, <2>2, <2>3
<1>5. ToSet(o) = ToSet(q) \cup {p}
  BY <1>4
<1> QED  BY <1>1, <1>2, <1>5 DEF o

\* The last activation of kill() and the ones below it.
LEMMA FrontLastToSet ==
  ASSUME NEW S, NEW q \in Seq(S), q # <<>>
  PROVE  /\ Front(q) \in Seq(S) /\ Len(Front(q)) = Len(q) - 1
         /\ Last(q) \in ToSet(q)
         /\ Len(q) > 1 <=> Front(q) # <<>>
         /\ Distinct(q) => /\ ToSet(Front(q)) = ToSet(q) \ {Last(q)}
                           /\ Distinct(Front(q))
<1> DEFINE f == Front(q)
<1>a. f = SubSeq(q, 1, Len(q) - 1) /\ Last(q) = q[Len(q)]
  BY DEF Front, Last
<1> HIDE DEF f
<1>b. Len(q) \in Nat \ {0} /\ \A i \in 1..Len(q) - 1 : q[i] \in S
  OBVIOUS
<1>c. f \in Seq(S) /\ Len(f) = IF 1 <= Len(q) - 1 THEN (Len(q) - 1) - 1 + 1 ELSE 0
  BY <1>a, <1>b, SubSeqProperties
<1>d. Len(f) = Len(q) - 1
  <2>1. \A n \in Nat \ {0} : (IF 1 <= n - 1 THEN (n - 1) - 1 + 1 ELSE 0) = n - 1
    OBVIOUS
  <2> QED  BY <2>1, <1>b, <1>c, Zenon
<1>1. f \in Seq(S) /\ Len(f) = Len(q) - 1 /\ Last(q) = q[Len(q)] /\ Len(q) \in Nat \ {0}
  <2>1. Last(q) = q[Len(q)]  BY <1>a
  <2> QED  BY <2>1, <1>b, <1>c, <1>d
<1>2. \A i \in 1..Len(q) - 1 : f[i] = q[i]
  BY <1>a
<1>3. DOMAIN f = 1..Len(q) - 1 /\ DOMAIN q = 1..Len(q)
  BY <1>1
<1>4. ASSUME Distinct(q), NEW x PROVE x \in ToSet(f) <=> x \in ToSet(q) /\ x # Last(q)
  <2>1. ASSUME x \in ToSet(f) PROVE x \in ToSet(q) /\ x # Last(q)
    <3>1. PICK i \in 1..Len(q) - 1 : f[i] = x  BY <2>1, <1>3 DEF ToSet
    <3>2. q[i] = x /\ i \in DOMAIN q /\ Len(q) \in DOMAIN q /\ i # Len(q)
      BY <3>1, <1>1, <1>2, <1>3
    <3> QED  BY <3>2, <1>1, <1>4 DEF Distinct, ToSet
  <2>2. ASSUME x \in ToSet(q), x # Last(q) PROVE x \in ToSet(f)
    <3>1. PICK i \in 1..Len(q) : q[i] = x  BY <2>2, <1>3 DEF ToSet
    <3>2. i \in 1..Len(q) - 1  BY <3>1, <2>2, <1>1
    <3> QED  BY <3>1, <3>2, <1>2, <1>3 DEF ToSet
  <2> QED  BY <2>1, <2>2
<1>5. ASSUME Distinct(q) PROVE Distinct(f)
  BY <1>5, <1>1, <1>2, <1>3 DEF Distinct
<1>6. Last(q) \in ToSet(q)  BY <1>1, <1>3 DEF ToSet
<1>7. Len(q) > 1 <=> f # <<>>  BY <1>1
<1> QED  BY <1>1, <1>4, <1>5, <1>6, <1>7 DEF f

-----------------------------------------------------------------------------
(* The order in a queue *)

\* x is ahead of p in q.
Before(q, x, p) == \E i, j \in DOMAIN q : i < j /\ q[i] = x /\ q[j] = p

\* Nobody gets ahead of a PCB of q that was not ahead of it: t is q after some
\* PCBs have left and others have joined at its end.
KeepsOrder(q, t) == \A x \in ToSet(t) : \A p \in ToSet(q) : Before(t, x, p) => Before(q, x, p)

\* insertProcQ keeps the order of the queue: its argument goes behind the others.
LEMMA AppendOrder ==
  ASSUME NEW S, NEW q \in Seq(S), NEW p \in S, p \notin ToSet(q)
  PROVE  KeepsOrder(q, Append(q, p))
<1> DEFINE a == Append(q, p)
<1>1. DOMAIN a = 1..Len(q) + 1 /\ DOMAIN q = 1..Len(q) /\ a[Len(q) + 1] = p /\ Len(q) \in Nat
  OBVIOUS
<1>2. \A i \in 1..Len(q) : a[i] = q[i]
  OBVIOUS
<1> HIDE DEF a
<1> SUFFICES ASSUME NEW x, NEW r \in ToSet(q), NEW i \in DOMAIN a, NEW j \in DOMAIN a,
                    i < j, a[i] = x, a[j] = r
             PROVE  Before(q, x, r)
  BY DEF KeepsOrder, Before, a
<1>3. j # Len(q) + 1
  BY <1>1
<1>4. i \in 1..Len(q) /\ j \in 1..Len(q)
  BY <1>1, <1>3
<1> QED  BY <1>1, <1>2, <1>4 DEF Before

\* So does removeProcQ,
LEMMA TailOrder ==
  ASSUME NEW S, NEW q \in Seq(S), q # <<>>
  PROVE  \A x, p : Before(Tail(q), x, p) => Before(q, x, p)
<1> DEFINE t == Tail(q)
<1>1. DOMAIN t = 1..Len(q) - 1 /\ DOMAIN q = 1..Len(q) /\ Len(q) \in Nat
  OBVIOUS
<1>2. \A i \in 1..Len(q) - 1 : t[i] = q[i + 1]
  OBVIOUS
<1> HIDE DEF t
<1> SUFFICES ASSUME NEW x, NEW p, NEW i \in DOMAIN t, NEW j \in DOMAIN t,
                    i < j, t[i] = x, t[j] = p
             PROVE  Before(q, x, p)
  BY DEF Before, t
<1>3. i + 1 \in DOMAIN q /\ j + 1 \in DOMAIN q /\ i + 1 < j + 1
  BY <1>1
<1> QED  BY <1>1, <1>2, <1>3 DEF Before

\* and outProcQ.
LEMMA OutProcQOrder ==
  ASSUME NEW S, NEW q \in Seq(S), NEW p
  PROVE  KeepsOrder(q, Without(q, p))
<1>1. CASE p \notin ToSet(q)
  BY <1>1 DEF Without, KeepsOrder
<1>2. CASE p \in ToSet(q)
  <2>1. PICK k \in 1..Len(q) : Without(q, p) = RemoveAt(q, k)
    BY <1>2, OutProcQPlace
  <2> DEFINE o == Without(q, p)
             pos(i) == IF i < k THEN i ELSE i + 1
  <2>2. DOMAIN o = 1..Len(q) - 1 /\ DOMAIN q = 1..Len(q) /\ Len(q) \in Nat
    BY <2>1, RemoveAtProperties
  <2>a. /\ \A i \in 1..k - 1 : o[i] = q[i]
        /\ \A i \in k..Len(q) - 1 : o[i] = q[i + 1]
    BY <2>1, RemoveAtProperties
  <2> HIDE DEF o
  <2>3. \A i \in DOMAIN o : o[i] = q[pos(i)] /\ pos(i) \in DOMAIN q
    BY <2>2, <2>a
  <2>4. \A i, j \in DOMAIN o : i < j => pos(i) < pos(j)
    BY <2>2
  <2> HIDE DEF pos
  <2>5. \A x, r : Before(o, x, r) => Before(q, x, r)
    BY <2>3, <2>4 DEF Before
  <2> QED  BY <2>5 DEF KeepsOrder, o
<1> QED  BY <1>1, <1>2

\* To take out the head of a queue that has kept its order keeps the order.
LEMMA ThenTailOrder ==
  ASSUME NEW S, NEW q \in Seq(S), NEW t \in Seq(S), t # <<>>, KeepsOrder(q, t)
  PROVE  KeepsOrder(q, Tail(t))
<1>1. \A x, p : Before(t, x, p) => x \in ToSet(t)
  BY DEF Before, ToSet
<1> QED  BY <1>1, TailOrder DEF KeepsOrder

-----------------------------------------------------------------------------
(* Remainders *)

\* A remainder is determined by its range.
LEMMA ModUnique ==
  ASSUME NEW n \in Nat \ {0}, NEW q \in Int, NEW r \in 0..(n - 1), NEW a \in Int, a = q * n + r
  PROVE  a % n = r
<1> DEFINE d == a \div n
           s == a % n
<1>1. d \in Int /\ s \in 0..(n - 1) /\ a = d * n + s
  OBVIOUS
<1> HIDE DEF d, s
<1>2. ASSUME q > d PROVE FALSE
  <2>1. PICK k \in Nat : q = d + 1 + k
    <3>1. q - d - 1 \in Nat /\ q = d + 1 + (q - d - 1)
      BY <1>1, <1>2
    <3> QED  BY <3>1
  <2>2. q * n = d * n + n + k * n /\ k * n >= 0
    BY <1>1, <2>1
  <2> QED  BY <1>1, <2>1, <2>2
<1>3. ASSUME q < d PROVE FALSE
  <2>1. PICK k \in Nat : d = q + 1 + k
    <3>1. d - q - 1 \in Nat /\ d = q + 1 + (d - q - 1)
      BY <1>1, <1>3
    <3> QED  BY <3>1
  <2>2. d * n = q * n + n + k * n /\ k * n >= 0
    BY <1>1, <2>1
  <2> QED  BY <1>1, <2>1, <2>2
<1>4. q = d
  BY <1>1, <1>2, <1>3
<1> QED  BY <1>1, <1>4 DEF s

\* Going round the clock changes no remainder.
LEMMA ModShift ==
  ASSUME NEW n \in Nat \ {0}, NEW x \in Int, NEW m \in Int
  PROVE  (x + m * n) % n = x % n
<1> DEFINE q == x \div n
           r == x % n
<1>1. q \in Int /\ r \in 0..(n - 1) /\ x = q * n + r
  OBVIOUS
<1> HIDE DEF q, r
<1>2. x + m * n = (q + m) * n + r /\ x + m * n \in Int /\ q + m \in Int
  BY <1>1
<1>3. (x + m * n) % n = r
  BY <1>1, <1>2, ModUnique
<1> QED  BY <1>3 DEF r

\* Two numbers that are less than n apart have different remainders.
LEMMA ModDistinct ==
  ASSUME NEW n \in Nat \ {0}, NEW a \in Int, NEW b \in Int, a < b, b - a < n
  PROVE  a % n # b % n
<1> SUFFICES ASSUME a % n = b % n PROVE FALSE
  OBVIOUS
<1> DEFINE q == a \div n
           p == b \div n
           r == a % n
<1>1. q \in Int /\ p \in Int /\ r \in 0..(n - 1) /\ a = q * n + r /\ b = p * n + r
  OBVIOUS
<1> HIDE DEF p, q, r
<1>2. (p - q) * n = b - a /\ p - q \in Int
  BY <1>1
<1>3. CASE p - q >= 1
  <2>1. (p - q) * n >= n
    BY <1>2, <1>3
  <2> QED  BY <1>2, <2>1
<1>4. CASE p - q <= 0
  <2>1. (p - q) * n <= 0
    BY <1>2, <1>4
  <2> QED  BY <1>2, <2>1
<1> QED  BY <1>2, <1>3, <1>4

-----------------------------------------------------------------------------
(* Least numbers *)

\* A set of numbers that is not empty has a least one.
LEMMA LeastNumber ==
  ASSUME NEW T \in SUBSET Nat, T # {}
  PROVE  \E n \in T : \A m \in T : n <= m
<1> DEFINE R == OpToRel(<, Nat)
<1>1. IsWellFoundedOn(R, Nat)
  BY NatLessThanWellFounded, Zenon
<1>2. PICK n \in T : \A m \in T : <<m, n>> \notin R
  <2> HIDE DEF R
  <2> QED  BY <1>1, WFMin
<1>3. ASSUME NEW m \in T PROVE n <= m
  <2>1. ~(m < n)
    BY <1>2 DEF OpToRel
  <2> QED  BY <2>1
<1> QED  BY <1>3
-----------------------------------------------------------------------------
(* Recursive functions *)

\* f[n] is the value v has after n steps of a loop, step n being G[n].
IsLoop(f, V, v, N, G) ==
  /\ f \in [0..N -> V]
  /\ f[0] = v
  /\ \A n \in 1..N : f[n] = G[n][f[n - 1]]

\* The values of a loop of N steps exist as a function.
LEMMA LoopExists ==
  ASSUME NEW V, NEW v \in V, NEW N \in Nat, NEW G \in [1..N -> [V -> V]]
  PROVE  \E f : IsLoop(f, V, v, N, G)
<1> DEFINE Upto(m) == \E f \in [0..m -> V] : f[0] = v /\ \A n \in 1..m : f[n] = G[n][f[n - 1]]
           T == {m \in 0..N : ~Upto(m)}
<1>1. Upto(0)
  <2> DEFINE f == [i \in 0..0 |-> v]
  <2>1. f \in [0..0 -> V] /\ f[0] = v /\ \A n \in 1..0 : f[n] = G[n][f[n - 1]]
    OBVIOUS
  <2> HIDE DEF f
  <2> QED  BY <2>1
<1>2. ASSUME NEW m \in 1..N, Upto(m - 1) PROVE Upto(m)
  <2>1. PICK f \in [0..m - 1 -> V] : f[0] = v /\ \A n \in 1..m - 1 : f[n] = G[n][f[n - 1]]
    BY <1>2
  <2> DEFINE g == [i \in 0..m |-> IF i = m THEN G[m][f[m - 1]] ELSE f[i]]
  <2>2. g \in [0..m -> V]
    <3>1. f[m - 1] \in V /\ G[m] \in [V -> V]  BY <2>1
    <3> QED  BY <3>1
  <2>3. g[0] = v /\ \A n \in 1..m : g[n] = G[n][g[n - 1]]
    <3>1. g[0] = v  BY <2>1
    <3>2. ASSUME NEW n \in 1..m PROVE g[n] = G[n][g[n - 1]]
      <4>1. n - 1 \in 0..m /\ n - 1 # m /\ g[n - 1] = f[n - 1]
        OBVIOUS
      <4>2. CASE n = m  BY <4>1, <4>2
      <4>3. CASE n # m
        <5>1. n \in 1..m - 1 /\ g[n] = f[n]  BY <4>3
        <5> QED  BY <2>1, <4>1, <5>1
      <4> QED  BY <4>2, <4>3
    <3> QED  BY <3>1, <3>2
  <2> QED  BY <2>2, <2>3
<1> HIDE DEF Upto
<1>3. ASSUME T # {} PROVE FALSE
  <2>1. T \in SUBSET Nat
    OBVIOUS
  <2>2. PICK m \in T : \A k \in T : m <= k
    BY <1>3, <2>1, LeastNumber
  <2>3. m \in 1..N /\ m - 1 \in 0..N /\ ~Upto(m)
    BY <1>1, <2>2
  <2>4. Upto(m - 1)
    BY <2>2, <2>3
  <2> QED  BY <1>2, <2>3, <2>4
<1>4. Upto(N)
  BY <1>3
<1> QED  BY <1>4 DEF Upto, IsLoop
=============================================================================
