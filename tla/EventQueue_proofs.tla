------------------------- MODULE EventQueue_proofs -------------------------
(***************************************************************************)
(* Proofs about the event queue and about the dots of a caster, whose      *)
(* ticks and whose rotation are queued there.                              *)
(*                                                                         *)
(* The event queue, for any number of actions, priorities and iterations:  *)
(* it stays sorted, complete and free of duplicates, nothing in it is      *)
(* overtaken by the clock, recycled structs are in nobody's hands, and a   *)
(* cancelled action is never performed.                                    *)
(*                                                                         *)
(* The dots, for any number of dots and channels, tick lengths, haste and  *)
(* delays: no tick is performed twice, none is lost, and the end of a      *)
(* channel leaves the rotation a wake-up.                                  *)
(***************************************************************************)
EXTENDS PendingActions, DotTicks, FiniteSetTheorems, SequenceTheorems, WellFoundedInduction, TLAPS

-----------------------------------------------------------------------------
(* Sequences.                                                              *)

Distinct(q) == \A i, j \in 1..Len(q) : i # j => q[i] # q[j]

\* What InsertAt returns.
LEMMA InsertAtProperties ==
  ASSUME NEW S, NEW s \in Seq(S), NEW e \in S, NEW i \in 1..Len(s) + 1
  PROVE  /\ InsertAt(s, i, e) \in Seq(S)
         /\ Len(InsertAt(s, i, e)) = Len(s) + 1
         /\ \A j \in 1..Len(s) + 1 :
              InsertAt(s, i, e)[j] = IF j < i THEN s[j]
                                     ELSE IF j = i THEN e ELSE s[j - 1]
<1> DEFINE a == SubSeq(s, 1, i - 1)
           b == SubSeq(s, i, Len(s))
<1>1. /\ a \in Seq(S) /\ Len(a) = i - 1
      /\ \A j \in 1..i - 1 : a[j] = s[j]
  BY SubSeqProperties
<1>2. /\ b \in Seq(S) /\ Len(b) = Len(s) - i + 1
      /\ \A j \in 1..Len(s) - i + 1 : b[j] = s[i + j - 1]
  BY SubSeqProperties
<1> HIDE DEF a, b
<1>3. <<e>> \in Seq(S) /\ Len(<<e>>) = 1 /\ <<e>>[1] = e
  OBVIOUS
<1> DEFINE c == a \o <<e>>
<1>4. /\ c \in Seq(S) /\ Len(c) = i
      /\ \A j \in 1..i : c[j] = IF j < i THEN s[j] ELSE e
  BY <1>1, <1>3, ConcatProperties
<1> HIDE DEF c
<1>5. /\ c \o b \in Seq(S) /\ Len(c \o b) = Len(s) + 1
      /\ \A j \in 1..Len(s) + 1 : (c \o b)[j] = IF j <= i THEN c[j] ELSE b[j - i]
  <2>1. Len(c) + Len(b) = Len(s) + 1
    BY <1>2, <1>4
  <2>2. /\ c \o b \in Seq(S) /\ Len(c \o b) = Len(c) + Len(b)
        /\ \A j \in 1..Len(c) + Len(b) :
             (c \o b)[j] = IF j <= Len(c) THEN c[j] ELSE b[j - Len(c)]
    BY <1>2, <1>4, ConcatProperties
  <2> QED
    BY <1>4, <2>1, <2>2
<1>6. InsertAt(s, i, e) = c \o b
  BY DEF InsertAt, a, b, c
<1>7. ASSUME NEW j \in 1..Len(s) + 1
      PROVE  (c \o b)[j] = IF j < i THEN s[j] ELSE IF j = i THEN e ELSE s[j - 1]
  <2>1. CASE j <= i
    BY <1>4, <1>5, <2>1
  <2>2. CASE j > i
    <3>1. j - i \in 1..Len(s) - i + 1 /\ i + (j - i) - 1 = j - 1
      BY <2>2
    <3> QED
      BY <1>2, <1>5, <2>2, <3>1
  <2>3. j <= i \/ j > i
    OBVIOUS
  <2> QED
    BY <2>1, <2>2, <2>3
<1> QED
  BY <1>5, <1>6, <1>7

\* What RemoveAt returns.
LEMMA RemoveAtProperties ==
  ASSUME NEW S, NEW s \in Seq(S), NEW i \in 1..Len(s)
  PROVE  /\ RemoveAt(s, i) \in Seq(S)
         /\ Len(RemoveAt(s, i)) = Len(s) - 1
         /\ \A j \in 1..Len(s) - 1 :
              RemoveAt(s, i)[j] = IF j < i THEN s[j] ELSE s[j + 1]
<1> DEFINE a == SubSeq(s, 1, i - 1)
           b == SubSeq(s, i + 1, Len(s))
<1>1. /\ a \in Seq(S) /\ Len(a) = i - 1
      /\ \A j \in 1..i - 1 : a[j] = s[j]
  BY SubSeqProperties
<1>2. /\ b \in Seq(S) /\ Len(b) = Len(s) - i
      /\ \A j \in 1..Len(s) - i : b[j] = s[i + j]
  BY SubSeqProperties
<1> HIDE DEF a, b
<1>3. /\ a \o b \in Seq(S) /\ Len(a \o b) = Len(s) - 1
      /\ \A j \in 1..Len(s) - 1 : (a \o b)[j] = IF j <= i - 1 THEN a[j] ELSE b[j - (i - 1)]
  <2>1. Len(a) + Len(b) = Len(s) - 1
    BY <1>1, <1>2
  <2>2. /\ a \o b \in Seq(S) /\ Len(a \o b) = Len(a) + Len(b)
        /\ \A j \in 1..Len(a) + Len(b) :
             (a \o b)[j] = IF j <= Len(a) THEN a[j] ELSE b[j - Len(a)]
    BY <1>1, <1>2, ConcatProperties
  <2> QED
    BY <1>1, <2>1, <2>2
<1>4. RemoveAt(s, i) = a \o b
  BY DEF RemoveAt, a, b
<1>5. ASSUME NEW j \in 1..Len(s) - 1
      PROVE  (a \o b)[j] = IF j < i THEN s[j] ELSE s[j + 1]
  <2>1. CASE j < i
    BY <1>1, <1>3, <2>1
  <2>2. CASE j >= i
    <3>1. j - (i - 1) \in 1..Len(s) - i /\ i + (j - (i - 1)) = j + 1
      BY <2>2
    <3> QED
      BY <1>2, <1>3, <2>2, <3>1
  <2>3. j < i \/ j >= i
    OBVIOUS
  <2> QED
    BY <2>1, <2>2, <2>3
<1> QED
  BY <1>3, <1>4, <1>5

\* A non-empty set of indices has a least one.
LEMMA MinProperties ==
  ASSUME NEW I \in SUBSET Nat, I # {}
  PROVE  Min(I) \in I /\ \A i \in I : Min(I) <= i
<1>1. IsWellFoundedOn(OpToRel(<, Nat), Nat)
  BY NatLessThanWellFounded
<1>2. PICK m \in I : \A k \in I : ~ (<<k, m>> \in OpToRel(<, Nat))
  BY <1>1, WFMin
<1>3. \A k \in I : m <= k
  <2> SUFFICES ASSUME NEW k \in I PROVE ~ (k < m)
    OBVIOUS
  <2>1. <<k, m>> \in Nat \X Nat /\ ~ (<<k, m>> \in OpToRel(<, Nat))
    BY <1>2
  <2> QED
    BY <2>1 DEF OpToRel
<1> QED
  BY <1>3 DEF Min

\* Removing an element that occurs at most once: the others keep their order.
LEMMA RemoveFirstProperties ==
  ASSUME NEW S, NEW q \in Seq(S), Distinct(q), NEW p
  PROVE  /\ RemoveFirst(q, p) \in Seq(S)
         /\ ToSet(RemoveFirst(q, p)) = ToSet(q) \ {p}
         /\ Distinct(RemoveFirst(q, p))
         /\ \A i, j \in 1..Len(RemoveFirst(q, p)) : i < j =>
              \E k, l \in 1..Len(q) : /\ k < l
                                      /\ RemoveFirst(q, p)[i] = q[k]
                                      /\ RemoveFirst(q, p)[j] = q[l]
<1>1. CASE \E i \in 1..Len(q) : q[i] = p
  <2> DEFINE I == {i \in 1..Len(q) : q[i] = p}
  <2>1. Min(I) \in I
    <3>1. I \in SUBSET Nat /\ I # {}
      BY <1>1
    <3> HIDE DEF I
    <3> QED
      BY <3>1, MinProperties
  <2>2. RemoveFirst(q, p) = RemoveAt(q, Min(I))
    BY <1>1 DEF RemoveFirst, SelectInSeq
  <2>3. PICK n \in 1..Len(q) : q[n] = p /\ RemoveFirst(q, p) = RemoveAt(q, n)
    BY <2>1, <2>2
  <2> HIDE DEF I
  <2> DEFINE r == RemoveFirst(q, p)
  <2>4. /\ r \in Seq(S) /\ Len(r) = Len(q) - 1
        /\ \A j \in 1..Len(q) - 1 : r[j] = IF j < n THEN q[j] ELSE q[j + 1]
    BY <2>3, RemoveAtProperties
  <2> HIDE DEF r
  <2>5. Len(q) \in Nat /\ Len(r) \in Nat
    BY <2>4
  <2>6. \A i, j \in 1..Len(r) : i < j =>
          \E k, l \in 1..Len(q) : k < l /\ r[i] = q[k] /\ r[j] = q[l]
    <3> SUFFICES ASSUME NEW i \in 1..Len(r), NEW j \in 1..Len(r), i < j
                 PROVE  \E k, l \in 1..Len(q) : k < l /\ r[i] = q[k] /\ r[j] = q[l]
      OBVIOUS
    <3> DEFINE k == IF i < n THEN i ELSE i + 1
               l == IF j < n THEN j ELSE j + 1
    <3>1. k \in 1..Len(q) /\ l \in 1..Len(q) /\ k < l /\ r[i] = q[k] /\ r[j] = q[l]
      BY <2>4, <2>5
    <3> QED
      BY <3>1
  <2>7. ToSet(r) = ToSet(q) \ {p}
    <3>1. ASSUME NEW x \in ToSet(r) PROVE x \in ToSet(q) \ {p}
      BY <2>3, <2>4, <2>5 DEF ToSet, Distinct
    <3>2. ASSUME NEW x \in ToSet(q) \ {p} PROVE x \in ToSet(r)
      <4>1. PICK j \in 1..Len(q) : q[j] = x
        BY DEF ToSet
      <4>2. CASE j < n
        BY <2>3, <2>4, <2>5, <4>1, <4>2 DEF ToSet
      <4>3. CASE j > n
        <5>1. j - 1 \in 1..Len(r) /\ r[j - 1] = q[j]
          BY <2>4, <2>5, <4>3
        <5> QED
          BY <2>4, <5>1, <4>1 DEF ToSet
      <4> QED
        BY <2>3, <4>1, <4>2, <4>3
    <3> QED
      BY <3>1, <3>2
  <2>8. Distinct(r)
    BY <2>4, <2>5 DEF Distinct
  <2> QED
    BY <2>4, <2>6, <2>7, <2>8 DEF r
<1>2. CASE ~ \E i \in 1..Len(q) : q[i] = p
  <2>1. RemoveFirst(q, p) = q /\ p \notin ToSet(q)
    BY <1>2 DEF RemoveFirst, ToSet
  <2> QED
    BY <2>1
<1> QED
  BY <1>1, <1>2

\* What holds at 0 and is passed on by every number below n holds up to n.
LEMMA CountUp ==
  ASSUME NEW n \in Nat, NEW S, 0 \in S, \A i \in 1..n : i - 1 \in S => i \in S
  PROVE  n \in S
<1> DEFINE B == {i \in 0..n : i \notin S}
<1> SUFFICES ASSUME B # {} PROVE FALSE
  OBVIOUS
<1>1. PICK m : m = Min(B)
  OBVIOUS
<1>2. m \in B /\ \A i \in B : m <= i
  <2>1. B \in SUBSET Nat
    OBVIOUS
  <2> HIDE DEF B
  <2> QED
    BY <1>1, <2>1, MinProperties
<1>3. m \in 1..n /\ m \notin S
  BY <1>2
<1>4. m - 1 \in 0..n /\ m - 1 \in S
  BY <1>2, <1>3
<1> QED
  BY <1>3, <1>4

\* SetToSeq lists a finite set.
LEMMA SetToSeqFacts ==
  ASSUME NEW S, IsFiniteSet(S)
  PROVE  SetToSeq(S) \in Seq(S) /\ ToSet(SetToSeq(S)) = S
<1>1. PICK n \in Nat : n = Cardinality(S) /\ ExistsBijection(1..n, S)
  BY FS_CardinalityType
<1>2. PICK g : g \in [1..n -> S] /\ IsInjective(g)
  BY <1>1 DEF ExistsBijection, Bijection, Injection
<1>3. PICK f : f = SetToSeq(S)
  OBVIOUS
<1>4. f \in [1..n -> S] /\ IsInjective(f)
  BY <1>1, <1>2, <1>3 DEF SetToSeq
<1>5. f \in Injection(1..n, S)
  BY <1>4 DEF Injection, IsInjective
<1>6. IsFiniteSet(1..n) /\ Cardinality(1..n) = n
  BY FS_Interval
<1>7. f \in Surjection(1..n, S)
  BY <1>1, <1>5, <1>6, FS_Injection
<1> QED
  BY <1>3, <1>4, <1>7 DEF ToSet, Surjection

-----------------------------------------------------------------------------
(* The event queue.                                                        *)

\* Removing a struct that is queued at most once.
LEMMA WithoutProperties ==
  ASSUME NEW q \in Seq(Actions), Distinct(q), NEW p
  PROVE  /\ Without(q, p) \in Seq(Actions)
         /\ ToSet(Without(q, p)) = ToSet(q) \ {p}
         /\ Distinct(Without(q, p))
         /\ \A i, j \in 1..Len(Without(q, p)) : i < j =>
              \E k, l \in 1..Len(q) : /\ k < l
                                      /\ Without(q, p)[i] = q[k]
                                      /\ Without(q, p)[j] = q[l]
BY RemoveFirstProperties DEF Without

-----------------------------------------------------------------------------
(* AddPendingAction.                                                       *)

SortedBy(q, a, pr) ==
  \A i, j \in 1..Len(q) :
    i < j => \/ a[q[j]] < a[q[i]]
             \/ a[q[j]] = a[q[i]] /\ pr[q[j]] >= pr[q[i]]

\* The slot is the first one whose action is performed before the new one.
LEMMA SlotProperties ==
  ASSUME TypeOK, NEW q \in Seq(Actions), NEW t, NEW pr
  PROVE  /\ Slot(q, t, pr) \in 1..Len(q) + 1
         /\ \A i \in 1..Slot(q, t, pr) - 1 : ~DueBefore(q[i], t, pr)
         /\ Slot(q, t, pr) <= Len(q) => DueBefore(q[Slot(q, t, pr)], t, pr)
<1> DEFINE I == {i \in 1..Len(q) : DueBefore(q[i], t, pr)}
<1>1. CASE I = {}
  <2>1. Slot(q, t, pr) = Len(q) + 1
    BY <1>1 DEF Slot
  <2> QED
    BY <1>1, <2>1
<1>2. CASE I # {}
  <2>1. I \in SUBSET Nat
    OBVIOUS
  <2>2. Slot(q, t, pr) = Min(I)
    BY <1>2 DEF Slot
  <2>3. Min(I) \in I /\ \A i \in I : Min(I) <= i
    <3> HIDE DEF I
    <3> QED
      BY <1>2, <2>1, MinProperties
  <2>4. Min(I) \in 1..Len(q) /\ DueBefore(q[Min(I)], t, pr)
    BY <2>3
  <2>5. \A i \in 1..Len(q) : i < Min(I) => ~DueBefore(q[i], t, pr)
    BY <2>3, <2>4
  <2> HIDE DEF I
  <2> QED
    BY <2>2, <2>4, <2>5
<1> QED
  BY <1>1, <1>2

\* AddPendingAction of a struct that is not queued: it is queued once, the queue
\* stays sorted, and it does not overtake those that are due before it.
LEMMA AddToProperties ==
  ASSUME TypeOK, NEW q \in Seq(Actions), Distinct(q), SortedBy(q, at, prio),
         NEW p \in Actions, p \notin ToSet(q),
         NEW t \in Times, NEW pr \in Priorities, AddTo(q, p, t, pr)
  PROVE  /\ queue' \in Seq(Actions)
         /\ ToSet(queue') = ToSet(q) \cup {p}
         /\ Distinct(queue')
         /\ SortedBy(queue', at', prio')
         /\ \A i, j \in 1..Len(queue') :
              /\ queue'[j] = p /\ queue'[i] # p
              /\ at'[queue'[i]] = t /\ prio'[queue'[i]] >= pr
              => j < i
<1> DEFINE n == Slot(q, t, pr)
           r == queue'
<1>1. /\ n \in 1..Len(q) + 1
      /\ \A i \in 1..n - 1 : ~DueBefore(q[i], t, pr)
      /\ n <= Len(q) => DueBefore(q[n], t, pr)
  BY SlotProperties
<1>2. r = InsertAt(q, n, p)
  BY DEF AddTo, Inserted
<1> HIDE DEF n, r
<1>3. /\ r \in Seq(Actions) /\ Len(r) = Len(q) + 1
      /\ \A j \in 1..Len(q) + 1 :
           r[j] = IF j < n THEN q[j] ELSE IF j = n THEN p ELSE q[j - 1]
  <2>1. n \in 1..Len(q) + 1
    BY <1>1
  <2>2. /\ InsertAt(q, n, p) \in Seq(Actions)
        /\ Len(InsertAt(q, n, p)) = Len(q) + 1
        /\ \A j \in 1..Len(q) + 1 :
             InsertAt(q, n, p)[j] = IF j < n THEN q[j] ELSE IF j = n THEN p ELSE q[j - 1]
    BY <2>1, InsertAtProperties
  <2> QED
    BY <1>2, <2>2
<1>4. /\ Len(q) \in Nat
      /\ \A j \in 1..Len(q) : q[j] \in Actions /\ q[j] # p
  BY DEF ToSet
<1>5. /\ at' = [at EXCEPT ![p] = t] /\ prio' = [prio EXCEPT ![p] = pr]
      /\ at'[p] = t /\ prio'[p] = pr
      /\ \A j \in 1..Len(q) : at'[q[j]] = at[q[j]] /\ prio'[q[j]] = prio[q[j]]
  BY <1>4 DEF AddTo, TypeOK
<1>6. /\ t \in Int /\ pr \in Int
      /\ \A j \in 1..Len(q) : at[q[j]] \in Int /\ prio[q[j]] \in Int
  <2>1. Times \subseteq Int /\ Priorities \subseteq Int
    BY PendingActionsAssumption DEF Times
  <2>2. at \in [Actions -> Times] /\ prio \in [Actions -> Priorities]
    BY DEF TypeOK
  <2> QED
    BY <1>4, <2>1, <2>2
<1>7. ToSet(r) = ToSet(q) \cup {p}
  <2>1. ASSUME NEW x \in ToSet(r) PROVE x \in ToSet(q) \cup {p}
    BY <1>1, <1>3, <1>4 DEF ToSet
  <2>2. p \in ToSet(r)
    BY <1>1, <1>3, <1>4 DEF ToSet
  <2>3. ASSUME NEW x \in ToSet(q) PROVE x \in ToSet(r)
    <3>1. PICK j \in 1..Len(q) : q[j] = x
      BY DEF ToSet
    <3>2. CASE j < n
      <4>1. j \in 1..Len(r) /\ r[j] = q[j]
        BY <1>1, <1>3, <1>4, <3>2
      <4> QED
        BY <1>3, <3>1, <4>1 DEF ToSet
    <3>3. CASE j >= n
      <4>1. j + 1 \in 1..Len(r) /\ r[j + 1] = q[j]
        BY <1>1, <1>3, <1>4, <3>3
      <4> QED
        BY <1>3, <3>1, <4>1 DEF ToSet
    <3> QED
      BY <1>1, <1>4, <3>2, <3>3
  <2> QED
    BY <2>1, <2>2, <2>3
<1>8. Distinct(r)
  <2> SUFFICES ASSUME NEW i \in 1..Len(r), NEW j \in 1..Len(r), i < j
               PROVE  r[i] # r[j]
    BY <1>3 DEF Distinct
  <2>1. CASE i = n
    <3>1. r[i] = p /\ r[j] = q[j - 1] /\ j - 1 \in 1..Len(q)
      BY <1>1, <1>3, <1>4, <2>1
    <3> QED
      BY <1>4, <3>1
  <2>3. CASE j = n
    <3>1. r[j] = p /\ r[i] = q[i] /\ i \in 1..Len(q)
      BY <1>1, <1>3, <1>4, <2>3
    <3> QED
      BY <1>4, <3>1
  <2>2. CASE i # n /\ j # n
    <3> DEFINE k == IF i < n THEN i ELSE i - 1
               l == IF j < n THEN j ELSE j - 1
    <3>1. k \in 1..Len(q) /\ l \in 1..Len(q) /\ k # l /\ r[i] = q[k] /\ r[j] = q[l]
      BY <1>1, <1>3, <1>4, <2>2
    <3> QED
      BY <3>1 DEF Distinct
  <2> QED
    BY <2>1, <2>2, <2>3
<1>9. SortedBy(r, at', prio')
  <2> SUFFICES ASSUME NEW i \in 1..Len(r), NEW j \in 1..Len(r), i < j
               PROVE  \/ at'[r[j]] < at'[r[i]]
                      \/ at'[r[j]] = at'[r[i]] /\ prio'[r[j]] >= prio'[r[i]]
    BY DEF SortedBy
  <2>1. CASE i = n
    <3>1. /\ n \in 1..Len(q) /\ j - 1 \in 1..Len(q) /\ n <= j - 1
          /\ r[i] = p /\ r[j] = q[j - 1]
      BY <1>1, <1>3, <1>4, <2>1
    <3>2. DueBefore(q[n], t, pr)
      BY <1>1, <1>4, <3>1
    <3>3. \/ j - 1 = n
          \/ at[q[j - 1]] < at[q[n]]
          \/ at[q[j - 1]] = at[q[n]] /\ prio[q[j - 1]] >= prio[q[n]]
      BY <3>1 DEF SortedBy
    <3>4. /\ at'[r[i]] = t /\ prio'[r[i]] = pr
          /\ at'[r[j]] = at[q[j - 1]] /\ prio'[r[j]] = prio[q[j - 1]]
      BY <1>5, <3>1
    <3>5. /\ at[q[n]] \in Int /\ prio[q[n]] \in Int
          /\ at[q[j - 1]] \in Int /\ prio[q[j - 1]] \in Int
      BY <1>6, <3>1
    <3>6. at[q[n]] < t \/ (at[q[n]] = t /\ prio[q[n]] >= pr)
      BY <3>2 DEF DueBefore
    <3>7. CASE j - 1 = n
      BY <3>4, <3>6, <3>7
    <3>8. CASE at[q[j - 1]] < at[q[n]]
      BY <1>6, <3>4, <3>5, <3>6, <3>8
    <3>9. CASE at[q[j - 1]] = at[q[n]] /\ prio[q[j - 1]] >= prio[q[n]]
      BY <1>6, <3>4, <3>5, <3>6, <3>9
    <3> QED
      BY <3>3, <3>7, <3>8, <3>9
  <2>2. CASE j = n
    <3>1. i \in 1..Len(q) /\ i \in 1..n - 1 /\ r[i] = q[i] /\ r[j] = p
      BY <1>1, <1>3, <1>4, <2>2
    <3> QED
      BY <1>1, <1>5, <1>6, <3>1 DEF DueBefore
  <2>3. CASE i # n /\ j # n
    <3>1. PICK k \in 1..Len(q), l \in 1..Len(q) : k < l /\ r[i] = q[k] /\ r[j] = q[l]
      <4> DEFINE k == IF i < n THEN i ELSE i - 1
                 l == IF j < n THEN j ELSE j - 1
      <4>1. k \in 1..Len(q) /\ l \in 1..Len(q) /\ k < l /\ r[i] = q[k] /\ r[j] = q[l]
        BY <1>1, <1>3, <1>4, <2>3
      <4> QED
        BY <4>1
    <3> QED
      BY <1>5, <3>1 DEF SortedBy
  <2> QED
    BY <2>1, <2>2, <2>3
<1>10. ASSUME NEW i \in 1..Len(r), NEW j \in 1..Len(r), r[j] = p, r[i] # p,
              at'[r[i]] = t, prio'[r[i]] >= pr
       PROVE  j < i
  <2>1. j = n /\ i # n
    BY <1>1, <1>3, <1>4, <1>10
  <2>2. CASE i < n
    <3>1. i \in 1..Len(q) /\ i \in 1..n - 1 /\ r[i] = q[i]
      BY <1>1, <1>3, <1>4, <2>2
    <3> QED
      BY <1>1, <1>5, <1>6, <1>10, <3>1 DEF DueBefore
  <2> QED
    BY <1>1, <1>3, <1>4, <2>1, <2>2
<1> QED
  BY <1>3, <1>7, <1>8, <1>9, <1>10 DEF r

-----------------------------------------------------------------------------
(* The inductive invariant.                                                *)

\* The event loop works on an action exactly between its pop and its end; the
\* structs of its units are never recreated; a periodic action it has popped is
\* out of the queue until it re-adds itself.
LoopInv ==
  /\ running # Nobody <=> phase \in {"popped", "advancing", "acting"}
  /\ running # Nobody => running \in made
  /\ running \in Periodic => running \in consumed
  /\ Held \subseteq made

\* Everything queued is wanted and nothing cancelled is; an action that was popped
\* is wanted until it is cancelled.
WantedInv ==
  /\ Queued \subseteq wanted
  /\ wanted \cap cancelled = {}
  /\ phase \in {"popped", "advancing"} /\ running \notin cancelled => running \in wanted

QueueInv == QueueSorted /\ QueuedOnce /\ NothingOverdue

IInv == TypeOK /\ QueueInv /\ PoolSafe /\ LoopInv /\ WantedInv /\ NothingLost

NewcomersWaitStep ==
  \A i, j \in 1..Len(queue') :
    LET new == queue'[j]  old == queue'[i] IN
    /\ new \notin Queued /\ old \in Queued
    /\ at'[old] = at'[new] /\ prio'[old] >= prio'[new]
    => j < i

\* Any order-preserving part of the queue is sorted.
LEMMA WithoutSorted ==
  ASSUME IInv, NEW p
  PROVE  /\ Without(queue, p) \in Seq(Actions)
         /\ ToSet(Without(queue, p)) = Queued \ {p}
         /\ Distinct(Without(queue, p))
         /\ SortedBy(Without(queue, p), at, prio)
<1>1. queue \in Seq(Actions) /\ Distinct(queue) /\ SortedBy(queue, at, prio)
  BY DEF IInv, TypeOK, QueueInv, QueuedOnce, QueueSorted, Distinct, SortedBy
<1>2. /\ Without(queue, p) \in Seq(Actions)
      /\ ToSet(Without(queue, p)) = ToSet(queue) \ {p}
      /\ Distinct(Without(queue, p))
      /\ \A i, j \in 1..Len(Without(queue, p)) : i < j =>
           \E k, l \in 1..Len(queue) : /\ k < l
                                       /\ Without(queue, p)[i] = queue[k]
                                       /\ Without(queue, p)[j] = queue[l]
  BY <1>1, WithoutProperties
<1>3. SortedBy(Without(queue, p), at, prio)
  <2> DEFINE r == Without(queue, p)
  <2> HIDE DEF r
  <2> SUFFICES ASSUME NEW i \in 1..Len(r), NEW j \in 1..Len(r), i < j
               PROVE  \/ at[r[j]] < at[r[i]]
                      \/ at[r[j]] = at[r[i]] /\ prio[r[j]] >= prio[r[i]]
    BY DEF SortedBy, r
  <2>1. PICK k \in 1..Len(queue), l \in 1..Len(queue) :
          k < l /\ r[i] = queue[k] /\ r[j] = queue[l]
    BY <1>2 DEF r
  <2> QED
    BY <1>1, <2>1 DEF SortedBy
<1> QED
  BY <1>2, <1>3 DEF Queued

\* Scheduling an action that is not queued, or after its entry was cancelled.
LEMMA AddingStep ==
  ASSUME IInv, NEW p \in Actions, NEW t \in now..MaxTime, NEW pr \in Priorities,
         NEW q, q = queue \/ q = Without(queue, p), p \notin ToSet(q),
         AddTo(q, p, t, pr), now' = now, made \cup {p} \subseteq made'
  PROVE  /\ queue' \in Seq(Actions) /\ at' \in [Actions -> Times]
         /\ prio' \in [Actions -> Priorities] /\ cancelled' \subseteq Actions
         /\ consumed' \subseteq Actions /\ wanted' \subseteq Actions
         /\ Queued' = Queued \cup {p}
         /\ QueueInv'
         /\ Queued' \subseteq wanted' /\ wanted' \cap cancelled' = {}
         /\ NewcomersWaitStep
<1>1. t \in Times
  BY PendingActionsAssumption DEF IInv, TypeOK, Times
<1>2. /\ q \in Seq(Actions) /\ Distinct(q) /\ SortedBy(q, at, prio)
      /\ ToSet(q) \cup {p} = Queued \cup {p} /\ ToSet(q) \subseteq Queued
  <2>1. CASE q = queue
    BY <2>1 DEF IInv, TypeOK, QueueInv, QueuedOnce, QueueSorted, Distinct, SortedBy, Queued
  <2>2. CASE q = Without(queue, p)
    BY <2>2, WithoutSorted
  <2> QED
    BY <2>1, <2>2
<1>3. /\ queue' \in Seq(Actions)
      /\ ToSet(queue') = ToSet(q) \cup {p}
      /\ Distinct(queue')
      /\ SortedBy(queue', at', prio')
      /\ \A i, j \in 1..Len(queue') :
           /\ queue'[j] = p /\ queue'[i] # p
           /\ at'[queue'[i]] = t /\ prio'[queue'[i]] >= pr
           => j < i
  BY <1>1, <1>2, AddToProperties DEF IInv
<1>4. /\ at' = [at EXCEPT ![p] = t] /\ prio' = [prio EXCEPT ![p] = pr]
      /\ consumed' = consumed \ {p} /\ cancelled' = cancelled \ {p}
      /\ wanted' = wanted \cup {p}
  BY DEF AddTo
<1>5. Queued' = Queued \cup {p}
  BY <1>2, <1>3 DEF Queued
<1>6. /\ at' \in [Actions -> Times] /\ prio' \in [Actions -> Priorities]
      /\ cancelled' \subseteq Actions /\ consumed' \subseteq Actions
      /\ wanted' \subseteq Actions
  BY <1>1, <1>4 DEF IInv, TypeOK
<1>7. QueueSorted'
  BY <1>3 DEF QueueSorted, SortedBy
<1>8. QueuedOnce'
  BY <1>3, <1>4, <1>5 DEF QueuedOnce, Distinct, IInv, QueueInv
<1>9. NothingOverdue'
  BY <1>4, <1>5 DEF NothingOverdue, IInv, QueueInv, TypeOK, Times
<1>10. Queued' \subseteq wanted' /\ wanted' \cap cancelled' = {}
  BY <1>4, <1>5 DEF IInv, WantedInv
<1>11. NewcomersWaitStep
  <2> SUFFICES ASSUME NEW i \in 1..Len(queue'), NEW j \in 1..Len(queue'),
                      queue'[j] \notin Queued, queue'[i] \in Queued,
                      at'[queue'[i]] = at'[queue'[j]],
                      prio'[queue'[i]] >= prio'[queue'[j]]
               PROVE  j < i
    BY DEF NewcomersWaitStep
  <2>1. queue'[j] = p
    <3>1. queue'[j] \in ToSet(queue')
      BY DEF ToSet
    <3> QED
      BY <1>2, <1>3, <3>1
  <2>2. at'[p] = t /\ prio'[p] = pr
    BY <1>4 DEF IInv, TypeOK
  <2> QED
    BY <1>3, <2>1, <2>2
<1> QED
  BY <1>3, <1>5, <1>6, <1>7, <1>8, <1>9, <1>10, <1>11 DEF QueueInv

\* Taking an action out of the queue for good.
LEMMA RemovingStep ==
  ASSUME IInv, NEW p \in Actions, queue' = Without(queue, p), wanted' = wanted \ {p},
         cancelled' = cancelled \cup {p}, UNCHANGED <<now, at, prio, consumed, made>>
  PROVE  /\ queue' \in Seq(Actions)
         /\ Queued' = Queued \ {p}
         /\ QueueInv'
         /\ Queued' \subseteq wanted' /\ wanted' \cap cancelled' = {}
<1>1. /\ queue' \in Seq(Actions) /\ ToSet(queue') = Queued \ {p}
      /\ Distinct(queue') /\ SortedBy(queue', at, prio)
  BY WithoutSorted
<1>2. Queued' = Queued \ {p}
  BY <1>1 DEF Queued
<1>3. QueueSorted'
  BY <1>1 DEF QueueSorted, SortedBy
<1>4. QueuedOnce'
  BY <1>1, <1>2 DEF QueuedOnce, Distinct, IInv, QueueInv
<1>5. NothingOverdue'
  BY <1>2 DEF NothingOverdue, IInv, QueueInv
<1>6. Queued' \subseteq wanted' /\ wanted' \cap cancelled' = {}
  BY <1>2 DEF IInv, WantedInv
<1> QED
  BY <1>1, <1>2, <1>3, <1>4, <1>5, <1>6 DEF QueueInv

\* The queue is as it was, and so are the fields the queue is sorted by.
LEMMA QuietStep ==
  ASSUME IInv, UNCHANGED <<queue, flags, now, made>>
  PROVE  QueueInv' /\ Queued' = Queued
  BY DEF IInv, QueueInv, QueueSorted, QueuedOnce, NothingOverdue, Queued, flags

-----------------------------------------------------------------------------
(* Every step preserves the invariant.                                     *)

LEMMA InitIInv == Init => IInv
<1> SUFFICES ASSUME Init PROVE IInv
  OBVIOUS
<1> USE PendingActionsAssumption DEF Init
<1>1. TypeOK
  BY DEF TypeOK, Times, Actions
<1>2. Queued = {}
  BY DEF Queued, ToSet
<1>3. QueueInv
  BY <1>2 DEF QueueInv, QueueSorted, QueuedOnce, NothingOverdue
<1>4. PoolSafe
  BY DEF PoolSafe
<1>5. LoopInv
  BY DEF LoopInv, Actions
<1>6. WantedInv /\ NothingLost
  BY <1>2 DEF WantedInv, NothingLost
<1> QED
  BY <1>1, <1>3, <1>4, <1>5, <1>6 DEF IInv

LEMMA RescheduleStep ==
  ASSUME IInv, NEW p \in Held, NEW t \in now..MaxTime, Reschedule(p, t)
  PROVE  IInv' /\ NewcomersWaitStep
<1> DEFINE q == IF p \in consumed \/ p \in cancelled THEN queue ELSE Without(queue, p)
<1>1. /\ p \in Actions /\ p \in made /\ p \notin Pooled /\ prio[p] \in Priorities
  BY PendingActionsAssumption DEF IInv, TypeOK, LoopInv, Actions
<1>2. p \notin ToSet(q) /\ (q = queue \/ q = Without(queue, p))
  BY WithoutSorted DEF IInv, QueueInv, QueuedOnce, Queued
<1>3. /\ AddTo(q, p, t, prio[p])
      /\ UNCHANGED <<now, made, pool, running, phase, iteration>>
  BY DEF Reschedule
<1> HIDE DEF q
<1>4. /\ queue' \in Seq(Actions) /\ at' \in [Actions -> Times]
      /\ prio' \in [Actions -> Priorities] /\ cancelled' \subseteq Actions
      /\ consumed' \subseteq Actions /\ wanted' \subseteq Actions
      /\ Queued' = Queued \cup {p}
      /\ QueueInv'
      /\ Queued' \subseteq wanted' /\ wanted' \cap cancelled' = {}
      /\ NewcomersWaitStep
  BY <1>1, <1>2, <1>3, AddingStep
<1>5. /\ consumed' = consumed \ {p} /\ cancelled' = cancelled \ {p}
      /\ wanted' = wanted \cup {p}
  BY <1>3 DEF AddTo
<1>6. TypeOK'
  BY <1>3, <1>4 DEF IInv, TypeOK
<1>7. PoolSafe'
  BY <1>1, <1>3, <1>4 DEF IInv, PoolSafe
<1>8. LoopInv'
  BY <1>1, <1>3, <1>5, PendingActionsAssumption DEF IInv, LoopInv
<1>9. WantedInv'
  BY <1>3, <1>4, <1>5 DEF IInv, WantedInv
<1>10. NothingLost'
  BY <1>3, <1>4, <1>5 DEF IInv, NothingLost
<1> QED
  BY <1>4, <1>6, <1>7, <1>8, <1>9, <1>10 DEF IInv

LEMMA StartPeriodicStep ==
  ASSUME IInv, NEW p \in Periodic, NEW t \in now..MaxTime, NEW pr \in Priorities,
         StartPeriodic(p, t, pr)
  PROVE  IInv' /\ NewcomersWaitStep
<1>1. /\ p \in Actions /\ p \notin made /\ p \notin Pooled /\ p # running
      /\ p \notin ToSet(queue)
  BY PendingActionsAssumption
     DEF IInv, LoopInv, QueueInv, QueuedOnce, Queued, Actions, StartPeriodic
<1>2. /\ AddTo(queue, p, t, pr) /\ made' = made \cup {p}
      /\ UNCHANGED <<now, pool, running, phase, iteration>>
  BY DEF StartPeriodic
<1>3. /\ queue' \in Seq(Actions) /\ at' \in [Actions -> Times]
      /\ prio' \in [Actions -> Priorities] /\ cancelled' \subseteq Actions
      /\ consumed' \subseteq Actions /\ wanted' \subseteq Actions
      /\ Queued' = Queued \cup {p}
      /\ QueueInv'
      /\ Queued' \subseteq wanted' /\ wanted' \cap cancelled' = {}
      /\ NewcomersWaitStep
  BY <1>1, <1>2, AddingStep
<1>4. /\ consumed' = consumed \ {p} /\ cancelled' = cancelled \ {p}
      /\ wanted' = wanted \cup {p}
  BY <1>2 DEF AddTo
<1>5. TypeOK'
  BY <1>1, <1>2, <1>3 DEF IInv, TypeOK
<1>6. PoolSafe'
  BY <1>1, <1>2, <1>3 DEF IInv, PoolSafe
<1>7. LoopInv'
  BY <1>1, <1>2, <1>4 DEF IInv, LoopInv
<1>8. WantedInv'
  BY <1>2, <1>3, <1>4 DEF IInv, WantedInv
<1>9. NothingLost'
  BY <1>2, <1>3, <1>4 DEF IInv, NothingLost
<1> QED
  BY <1>3, <1>5, <1>6, <1>7, <1>8, <1>9 DEF IInv

LEMMA FireStep ==
  ASSUME IInv, NEW p \in Pooled, NEW t \in now..MaxTime, NEW pr \in Priorities,
         Fire(p, t, pr)
  PROVE  IInv' /\ NewcomersWaitStep
<1>1. p \in Actions /\ p \notin Periodic /\ pool[p] \in Nat
  BY PendingActionsAssumption DEF IInv, TypeOK, Actions
<1>2. /\ AddTo(queue, p, t, pr) /\ made' = made \cup {p} /\ pool' \in [Pooled -> Nat]
      /\ pool'[p] = 0 /\ \A r \in Pooled : r # p => pool'[r] = pool[r]
      /\ p # running /\ p \notin Queued
      /\ UNCHANGED <<now, running, phase, iteration>>
  <2>1. CASE p \notin made
    <3>1. pool[p] = 0 /\ p \notin Queued
      BY <2>1 DEF IInv, PoolSafe, QueueInv, QueuedOnce
    <3>2. p # running
      BY <1>1, <2>1, PendingActionsAssumption DEF IInv, LoopInv
    <3> QED
      BY <1>1, <2>1, <3>1, <3>2 DEF Fire, IInv, TypeOK
  <2>2. CASE pool[p] > 0 /\ pool' = [pool EXCEPT ![p] = @ - 1] /\ made' = made
    BY <1>1, <2>2 DEF Fire, IInv, TypeOK, PoolSafe
  <2> QED
    BY <2>1, <2>2 DEF Fire
<1>3. p \notin ToSet(queue)
  BY <1>2 DEF Queued
<1>4. /\ queue' \in Seq(Actions) /\ at' \in [Actions -> Times]
      /\ prio' \in [Actions -> Priorities] /\ cancelled' \subseteq Actions
      /\ consumed' \subseteq Actions /\ wanted' \subseteq Actions
      /\ Queued' = Queued \cup {p}
      /\ QueueInv'
      /\ Queued' \subseteq wanted' /\ wanted' \cap cancelled' = {}
      /\ NewcomersWaitStep
  BY <1>1, <1>2, <1>3, AddingStep
<1>5. /\ consumed' = consumed \ {p} /\ cancelled' = cancelled \ {p}
      /\ wanted' = wanted \cup {p}
  BY <1>2 DEF AddTo
<1>6. TypeOK'
  BY <1>1, <1>2, <1>4 DEF IInv, TypeOK
<1>7. PoolSafe'
  BY <1>2, <1>4 DEF IInv, PoolSafe
<1>8. LoopInv'
  BY <1>1, <1>2, <1>5 DEF IInv, LoopInv
<1>9. WantedInv'
  BY <1>2, <1>4, <1>5 DEF IInv, WantedInv
<1>10. NothingLost'
  BY <1>2, <1>4, <1>5 DEF IInv, NothingLost
<1> QED
  BY <1>4, <1>6, <1>7, <1>8, <1>9, <1>10 DEF IInv

LEMMA RepeatStep ==
  ASSUME IInv, NEW t \in now..MaxTime, Repeat(t)
  PROVE  IInv' /\ NewcomersWaitStep
<1> DEFINE p == running
<1>1. /\ p \in Actions /\ p \in made /\ p \in Pooled /\ p \notin Periodic /\ p # Nobody
      /\ p \notin ToSet(queue) /\ prio[p] \in Priorities /\ pool[p] = 0
  BY PendingActionsAssumption
     DEF Repeat, IInv, TypeOK, PoolSafe, LoopInv, QueueInv, QueuedOnce, Queued, Actions
<1>2. /\ AddTo(queue, p, t, prio[p]) /\ phase = "acting"
      /\ UNCHANGED <<now, made, pool, running, phase, iteration>>
  BY DEF Repeat
<1> HIDE DEF p
<1>3. /\ queue' \in Seq(Actions) /\ at' \in [Actions -> Times]
      /\ prio' \in [Actions -> Priorities] /\ cancelled' \subseteq Actions
      /\ consumed' \subseteq Actions /\ wanted' \subseteq Actions
      /\ Queued' = Queued \cup {p}
      /\ QueueInv'
      /\ Queued' \subseteq wanted' /\ wanted' \cap cancelled' = {}
      /\ NewcomersWaitStep
  BY <1>1, <1>2, AddingStep
<1>4. /\ consumed' = consumed \ {p} /\ cancelled' = cancelled \ {p}
      /\ wanted' = wanted \cup {p}
  BY <1>2 DEF AddTo
<1>5. TypeOK'
  BY <1>2, <1>3 DEF IInv, TypeOK
<1>6. PoolSafe'
  BY <1>1, <1>2, <1>3 DEF IInv, PoolSafe
<1>7. LoopInv'
  BY <1>1, <1>2, <1>4 DEF IInv, LoopInv, p
<1>8. WantedInv'
  BY <1>2, <1>3, <1>4 DEF IInv, WantedInv
<1>9. NothingLost'
  BY <1>2, <1>3, <1>4 DEF IInv, NothingLost
<1> QED
  BY <1>3, <1>5, <1>6, <1>7, <1>8, <1>9 DEF IInv

\* A step that leaves no action in the queue that was not there brings no newcomer.
LEMMA NoNewcomer ==
  ASSUME Queued' \subseteq Queued
  PROVE  NewcomersWaitStep
  BY DEF NewcomersWaitStep, Queued, ToSet

LEMMA CancelStep ==
  ASSUME IInv, NEW p \in Held \cup Periodic, Cancel(p)
  PROVE  IInv' /\ NewcomersWaitStep
<1>1. p \in Actions /\ p \notin Pooled
  BY PendingActionsAssumption DEF Actions
<1>2. /\ queue' = Without(queue, p) /\ wanted' = wanted \ {p}
      /\ cancelled' = cancelled \cup {p}
      /\ UNCHANGED <<now, at, prio, consumed, made, pool, running, phase, iteration>>
  BY DEF Cancel
<1>3. /\ queue' \in Seq(Actions)
      /\ Queued' = Queued \ {p}
      /\ QueueInv'
      /\ Queued' \subseteq wanted' /\ wanted' \cap cancelled' = {}
  BY <1>1, <1>2, RemovingStep
<1>4. TypeOK'
  BY <1>1, <1>2, <1>3 DEF IInv, TypeOK
<1>5. PoolSafe'
  BY <1>2, <1>3 DEF IInv, PoolSafe
<1>6. LoopInv'
  BY <1>2 DEF IInv, LoopInv
<1>7. WantedInv'
  BY <1>2, <1>3 DEF IInv, WantedInv
<1>8. NothingLost'
  BY <1>2, <1>3 DEF IInv, NothingLost
<1> QED
  BY <1>3, <1>4, <1>5, <1>6, <1>7, <1>8, NoNewcomer DEF IInv

LEMMA StartStep ==
  ASSUME IInv, Start \/ FightEnds \/ EndSwing
  PROVE  IInv' /\ NewcomersWaitStep
<1>1. /\ UNCHANGED <<now, queue, flags, made, pool, running, iteration, wanted>>
      /\ phase \in {"setup", "idle", "swinging"} /\ phase' \in {"idle", "over"}
  BY DEF Start, FightEnds, EndSwing
<1>2. QueueInv' /\ Queued' = Queued
  BY <1>1, QuietStep
<1>3. TypeOK' /\ PoolSafe' /\ LoopInv' /\ WantedInv' /\ NothingLost'
  BY <1>1, <1>2 DEF IInv, TypeOK, PoolSafe, LoopInv, WantedInv, NothingLost, flags
<1> QED
  BY <1>2, <1>3, NoNewcomer DEF IInv

\* The last slot holds an action that is due no later than any other, and once.
LEMMA PopProperties ==
  ASSUME IInv, queue # <<>>
  PROVE  /\ Last(queue) \in Queued
         /\ Front(queue) \in Seq(Actions)
         /\ ToSet(Front(queue)) = Queued \ {Last(queue)}
         /\ Distinct(Front(queue))
         /\ SortedBy(Front(queue), at, prio)
         /\ \A p \in Queued : at[Last(queue)] <= at[p]
<1>1. /\ queue \in Seq(Actions) /\ Len(queue) \in Nat /\ Len(queue) \in 1..Len(queue)
      /\ Distinct(queue) /\ SortedBy(queue, at, prio)
  BY DEF IInv, TypeOK, QueueInv, QueuedOnce, QueueSorted, Distinct, SortedBy
<1>2. /\ Front(queue) \in Seq(Actions) /\ Len(Front(queue)) = Len(queue) - 1
      /\ \A i \in 1..Len(queue) - 1 : Front(queue)[i] = queue[i]
  <2>1. \A i \in 1..Len(queue) - 1 : queue[i] \in Actions
    BY <1>1
  <2> DEFINE n == Len(queue) - 1
  <2>2. n \in Nat
    BY <1>1
  <2> HIDE DEF n
  <2>3. /\ SubSeq(queue, 1, n) \in Seq(Actions)
        /\ Len(SubSeq(queue, 1, n)) = IF 1 <= n THEN n - 1 + 1 ELSE 0
        /\ \A i \in 1..n - 1 + 1 : SubSeq(queue, 1, n)[i] = queue[1 + i - 1]
    BY <2>1, <2>2, SubSeqProperties DEF n
  <2>4. Front(queue) = SubSeq(queue, 1, n)
    BY DEF Front, n
  <2>5. /\ Front(queue) \in Seq(Actions) /\ Len(Front(queue)) = n
        /\ \A i \in 1..n : Front(queue)[i] = queue[i]
    BY <2>2, <2>3, <2>4
  <2> QED
    BY <2>5 DEF n
<1>3. Last(queue) = queue[Len(queue)] /\ Last(queue) \in Queued
  BY <1>1 DEF Last, Queued, ToSet
<1>4. ToSet(Front(queue)) = Queued \ {Last(queue)}
  <2>1. ASSUME NEW x \in ToSet(Front(queue)) PROVE x \in Queued \ {Last(queue)}
    <3>1. PICK i \in 1..Len(queue) - 1 : queue[i] = x
      BY <1>2 DEF ToSet
    <3>2. i \in 1..Len(queue) /\ i # Len(queue)
      BY <1>1
    <3> QED
      BY <1>1, <1>3, <3>1, <3>2 DEF Queued, ToSet, Distinct
  <2>2. ASSUME NEW x \in Queued \ {Last(queue)} PROVE x \in ToSet(Front(queue))
    <3>1. PICK i \in 1..Len(queue) : queue[i] = x
      BY DEF Queued, ToSet
    <3>2. i \in 1..Len(queue) - 1
      BY <1>1, <1>3, <3>1
    <3> QED
      BY <1>2, <3>1, <3>2 DEF ToSet
  <2> QED
    BY <2>1, <2>2
<1>5. Distinct(Front(queue)) /\ SortedBy(Front(queue), at, prio)
  <2>1. 1..Len(Front(queue)) \subseteq 1..Len(queue)
    BY <1>1, <1>2
  <2> QED
    BY <1>1, <1>2, <2>1 DEF Distinct, SortedBy
<1>6. ASSUME NEW p \in Queued PROVE at[Last(queue)] <= at[p]
  <2>1. PICK i \in 1..Len(queue) : queue[i] = p
    BY DEF Queued, ToSet
  <2>2. at[queue[Len(queue)]] \in Int /\ at[queue[i]] \in Int
    BY <1>1 DEF IInv, TypeOK, Times
  <2>3. CASE i = Len(queue)
    BY <1>3, <2>1, <2>2, <2>3
  <2>4. CASE i # Len(queue)
    <3>1. i < Len(queue)
      BY <1>1, <2>4
    <3> QED
      BY <1>1, <1>3, <2>1, <2>2, <3>1 DEF SortedBy
  <2> QED
    BY <2>3, <2>4
<1> QED
  BY <1>2, <1>3, <1>4, <1>5, <1>6

\* A swing comes no later than the last slot, and so no later than the queue.
LEMMA SwingStep ==
  ASSUME IInv, NEW t \in now..EndTime, Swing(t)
  PROVE  IInv' /\ NewcomersWaitStep
<1>1. /\ UNCHANGED <<queue, flags, made, pool, running, iteration, wanted>>
      /\ phase = "idle" /\ phase' = "swinging" /\ now' = t
      /\ queue # <<>> => t <= at[Last(queue)]
  BY DEF Swing
<1>2. Queued' = Queued
  BY <1>1 DEF Queued
<1>3. t \in Times
  BY PendingActionsAssumption DEF IInv, TypeOK, Times
<1>4. NothingOverdue'
  <2> SUFFICES ASSUME NEW p \in Queued PROVE at[p] >= t
    BY <1>1, <1>2 DEF NothingOverdue, flags
  <2>1. queue # <<>>
    BY DEF Queued, ToSet
  <2>2. Last(queue) \in Queued /\ at[Last(queue)] <= at[p]
    BY <2>1, PopProperties
  <2>3. /\ at[p] \in Int /\ at[Last(queue)] \in Int /\ t \in Int
    BY <1>3, <2>2 DEF IInv, TypeOK, QueueInv, QueuedOnce, Times
  <2> QED
    BY <1>1, <2>1, <2>2, <2>3
<1>5. QueueSorted' /\ QueuedOnce'
  BY <1>1, <1>2 DEF IInv, QueueInv, QueueSorted, QueuedOnce, flags
<1>6. TypeOK' /\ PoolSafe' /\ LoopInv' /\ WantedInv' /\ NothingLost'
  BY <1>1, <1>2, <1>3
     DEF IInv, TypeOK, PoolSafe, LoopInv, WantedInv, NothingLost, flags
<1> QED
  BY <1>2, <1>4, <1>5, <1>6, NoNewcomer DEF IInv, QueueInv

LEMMA StepStep ==
  ASSUME IInv, Step
  PROVE  IInv' /\ NewcomersWaitStep
<1> DEFINE p == Last(queue)
<1>1. /\ p \in Queued
      /\ Front(queue) \in Seq(Actions)
      /\ ToSet(Front(queue)) = Queued \ {p}
      /\ Distinct(Front(queue))
      /\ SortedBy(Front(queue), at, prio)
      /\ \A r \in Queued : at[p] <= at[r]
  BY PopProperties DEF Step
<1>2. /\ phase = "idle" /\ queue' = Front(queue) /\ consumed' = consumed \cup {p}
      /\ UNCHANGED <<at, prio, cancelled, made, iteration, wanted>>
      /\ \/ /\ pool' = Disposed(p, consumed') /\ phase' \in {"idle", "over"}
            /\ UNCHANGED <<now, running>>
            /\ phase' = IF p \in cancelled THEN "idle" ELSE "over"
         \/ /\ p \notin cancelled /\ at[p] <= EndTime
            /\ running' = p
            /\ now' = IF at[p] > now THEN at[p] ELSE now
            /\ phase' \in {"popped", "advancing"}
            /\ UNCHANGED pool
  BY DEF Step
<1> HIDE DEF p
<1>3. /\ p \in Actions /\ p \in made /\ p \notin cancelled /\ p \in wanted
      /\ running = Nobody /\ p # Nobody /\ at[p] \in Times
      /\ p \in Pooled => pool[p] = 0
  <2>1. p \in made /\ p \notin cancelled /\ p \in wanted /\ p \in Actions
    BY <1>1 DEF IInv, QueueInv, QueuedOnce, WantedInv, TypeOK
  <2>2. running = Nobody
    BY <1>2 DEF IInv, LoopInv
  <2>3. p \in Pooled => pool[p] = 0
    BY <1>1 DEF IInv, PoolSafe
  <2> QED
    BY <2>1, <2>2, <2>3, PendingActionsAssumption DEF IInv, TypeOK
<1>4. Queued' = Queued \ {p}
  BY <1>1, <1>2 DEF Queued
<1>5. QueueSorted'
  BY <1>1, <1>2 DEF QueueSorted, SortedBy
<1>6. QueuedOnce'
  BY <1>1, <1>2, <1>4 DEF QueuedOnce, Distinct, IInv, QueueInv
<1>7. now' \in Times /\ \A r \in Queued : at[r] >= now'
  BY <1>1, <1>2, <1>3 DEF IInv, TypeOK, QueueInv, NothingOverdue
<1>8. NothingOverdue'
  BY <1>2, <1>4, <1>7 DEF NothingOverdue
<1>9. pool' \in [Pooled -> Nat] /\ PoolSafe'
  <2>1. CASE pool' = pool /\ running' = p
    BY <1>2, <1>3, <1>4, <2>1 DEF IInv, TypeOK, PoolSafe
  <2>2. CASE pool' = Disposed(p, consumed') /\ running' = running
    <3>1. /\ pool' = IF p \in Pooled THEN [pool EXCEPT ![p] = @ + 1] ELSE pool
      BY <1>2, <2>2 DEF Disposed
    <3>2. pool' \in [Pooled -> Nat]
      BY <3>1 DEF IInv, TypeOK
    <3>3. ASSUME NEW r \in Pooled, pool'[r] # 0
          PROVE  pool'[r] = 1 /\ r \in made /\ r \notin Queued' /\ r # running'
      <4>1. CASE r = p
        BY <1>3, <1>4, <2>2, <3>1, <4>1 DEF IInv, TypeOK
      <4>2. CASE r # p
        BY <1>4, <2>2, <3>1, <3>3, <4>2 DEF IInv, TypeOK, PoolSafe
      <4> QED
        BY <4>1, <4>2
    <3> QED
      BY <1>2, <3>2, <3>3 DEF PoolSafe
  <2> QED
    BY <1>2, <2>1, <2>2
<1>10. TypeOK'
  BY <1>1, <1>2, <1>3, <1>7, <1>9 DEF IInv, TypeOK
<1>11. LoopInv'
  BY <1>2, <1>3 DEF IInv, LoopInv
<1>12. WantedInv'
  BY <1>2, <1>3, <1>4 DEF IInv, WantedInv
<1>13. NothingLost'
  BY <1>2, <1>3, <1>4 DEF IInv, NothingLost
<1> QED
  BY <1>4, <1>5, <1>6, <1>8, <1>9, <1>10, <1>11, <1>12, <1>13, NoNewcomer
     DEF IInv, QueueInv

\* A struct that leaves the loop's hands goes to the pool at most once.
LEMMA DisposeRunning ==
  ASSUME IInv, running \in Actions, running \in made,
         pool' = Disposed(running, consumed), UNCHANGED <<queue, made>>,
         running' = Nobody
  PROVE  pool' \in [Pooled -> Nat] /\ PoolSafe'
<1>1. Queued' = Queued
  BY DEF Queued
<1>2. pool' = IF running \in Pooled /\ running \in consumed
              THEN [pool EXCEPT ![running] = @ + 1] ELSE pool
  BY DEF Disposed
<1>3. pool' \in [Pooled -> Nat]
  BY <1>2 DEF IInv, TypeOK
<1>4. ASSUME NEW r \in Pooled, pool'[r] # 0
      PROVE  pool'[r] = 1 /\ r \in made /\ r \notin Queued /\ r # Nobody
  <2>1. r # Nobody /\ pool[r] \in Nat
    BY PendingActionsAssumption DEF IInv, TypeOK, Actions
  <2>2. CASE r = running /\ running \in consumed
    <3>1. pool[r] = 0 /\ r \notin Queued
      BY <2>2 DEF IInv, PoolSafe, QueueInv, QueuedOnce
    <3>2. pool'[r] = pool[r] + 1
      BY <1>2, <2>2 DEF IInv, TypeOK
    <3> QED
      BY <2>1, <2>2, <3>1, <3>2
  <2>3. CASE ~(r = running /\ running \in consumed)
    <3>1. pool'[r] = pool[r]
      BY <1>2, <2>3 DEF IInv, TypeOK
    <3> QED
      BY <1>4, <2>1, <3>1 DEF IInv, PoolSafe
  <2> QED
    BY <2>2, <2>3
<1> QED
  BY <1>1, <1>3, <1>4 DEF PoolSafe

LEMMA ActStep ==
  ASSUME IInv, Act
  PROVE  /\ IInv' /\ NewcomersWaitStep
         /\ phase' = "acting" => running \in wanted
<1>1. /\ phase \in {"popped", "advancing"} /\ running \in made /\ running \in Actions
      /\ running # Nobody
      /\ UNCHANGED <<now, queue, flags, made, iteration>>
  BY DEF Act, IInv, LoopInv, TypeOK
<1>2. QueueInv' /\ Queued' = Queued
  BY <1>1, QuietStep
<1>3. CASE running \in cancelled
  <2>1. /\ phase' = "idle" /\ running' = Nobody /\ pool' = Disposed(running, consumed)
        /\ UNCHANGED wanted
    BY <1>3 DEF Act
  <2>2. pool' \in [Pooled -> Nat] /\ PoolSafe'
    BY <1>1, <2>1, DisposeRunning
  <2>3. Nobody \notin Periodic /\ running \notin wanted
    BY <1>3, PendingActionsAssumption DEF Actions, IInv, WantedInv
  <2>4. TypeOK' /\ LoopInv' /\ WantedInv' /\ NothingLost'
    BY <1>1, <1>2, <2>1, <2>2, <2>3
       DEF IInv, TypeOK, LoopInv, WantedInv, NothingLost, flags
  <2> QED
    BY <1>2, <2>1, <2>2, <2>4, NoNewcomer DEF IInv
<1>4. CASE running \notin cancelled
  <2>1. /\ phase' = "acting" /\ UNCHANGED <<running, pool>>
        /\ wanted' = IF running \in Queued THEN wanted ELSE wanted \ {running}
    BY <1>4 DEF Act, Queued
  <2>2. running \in wanted
    BY <1>1, <1>4 DEF IInv, WantedInv
  <2>3. TypeOK' /\ PoolSafe' /\ LoopInv' /\ WantedInv' /\ NothingLost'
    BY <1>1, <1>2, <2>1
       DEF IInv, TypeOK, PoolSafe, LoopInv, WantedInv, NothingLost, flags
  <2> QED
    BY <1>2, <2>2, <2>3, NoNewcomer DEF IInv
<1> QED
  BY <1>3, <1>4

LEMMA FinishStep ==
  ASSUME IInv, Finish
  PROVE  IInv' /\ NewcomersWaitStep
<1>1. /\ phase = "acting" /\ phase' = "idle" /\ running' = Nobody
      /\ running \in made /\ running \in Actions /\ running # Nobody
      /\ UNCHANGED <<now, made, iteration>>
      /\ Nobody \notin Actions /\ Nobody \notin Periodic
  BY PendingActionsAssumption DEF Finish, IInv, LoopInv, TypeOK, Actions
<1>2. CASE /\ running \notin Periodic /\ pool' = Disposed(running, consumed)
           /\ UNCHANGED <<queue, flags, wanted>>
  <2>1. QueueInv' /\ Queued' = Queued
    BY <1>1, <1>2, QuietStep
  <2>2. pool' \in [Pooled -> Nat] /\ PoolSafe'
    BY <1>1, <1>2, DisposeRunning
  <2>3. TypeOK' /\ LoopInv' /\ WantedInv' /\ NothingLost'
    BY <1>1, <1>2, <2>1, <2>2
       DEF IInv, TypeOK, LoopInv, WantedInv, NothingLost, flags
  <2> QED
    BY <2>1, <2>2, <2>3, NoNewcomer DEF IInv
<1>3. ASSUME running \in Periodic, UNCHANGED pool, NEW t \in now + 1 .. MaxTime,
             AddTo(queue, running, t, prio[running])
      PROVE  IInv' /\ NewcomersWaitStep
  <2> DEFINE p == running
  <2>1. p \in consumed /\ p \notin ToSet(queue) /\ prio[p] \in Priorities
    BY <1>1, <1>3 DEF IInv, LoopInv, QueueInv, QueuedOnce, Queued, TypeOK
  <2>2. t \in now..MaxTime /\ p \notin Pooled
    BY <1>3, PendingActionsAssumption DEF IInv, TypeOK, Times
  <2>3. AddTo(queue, p, t, prio[p]) /\ made \cup {p} \subseteq made' /\ p \in Actions
    BY <1>1, <1>3
  <2> HIDE DEF p
  <2>4. /\ queue' \in Seq(Actions) /\ at' \in [Actions -> Times]
        /\ prio' \in [Actions -> Priorities] /\ cancelled' \subseteq Actions
        /\ consumed' \subseteq Actions /\ wanted' \subseteq Actions
        /\ Queued' = Queued \cup {p}
        /\ QueueInv'
        /\ Queued' \subseteq wanted' /\ wanted' \cap cancelled' = {}
        /\ NewcomersWaitStep
    BY <1>1, <2>1, <2>2, <2>3, AddingStep
  <2>5. wanted' = wanted \cup {p}
    BY <2>3 DEF AddTo
  <2>6. TypeOK' /\ LoopInv'
    BY <1>1, <1>3, <2>4 DEF IInv, TypeOK, LoopInv
  <2>7. PoolSafe'
    BY <1>1, <1>3, <2>2, <2>4 DEF IInv, PoolSafe, Actions
  <2>8. WantedInv' /\ NothingLost'
    BY <1>1, <2>4, <2>5 DEF IInv, WantedInv, NothingLost
  <2> QED
    BY <2>4, <2>6, <2>7, <2>8 DEF IInv
<1>4. CASE /\ running \in Periodic /\ UNCHANGED <<at, prio, consumed, pool>>
           /\ cancelled' = cancelled \cup {running}
           /\ queue' = Without(queue, running)
           /\ wanted' = wanted \ {running}
  <2>1. /\ queue' \in Seq(Actions)
        /\ Queued' = Queued \ {running}
        /\ QueueInv'
        /\ Queued' \subseteq wanted' /\ wanted' \cap cancelled' = {}
    BY <1>1, <1>4, RemovingStep
  <2>2. TypeOK' /\ LoopInv'
    BY <1>1, <1>4, <2>1 DEF IInv, TypeOK, LoopInv
  <2>3. PoolSafe'
    BY <1>1, <1>4, <2>1 DEF IInv, PoolSafe, Actions
  <2>4. WantedInv' /\ NothingLost'
    BY <1>1, <1>4, <2>1 DEF IInv, WantedInv, NothingLost
  <2> QED
    BY <2>1, <2>2, <2>3, <2>4, NoNewcomer DEF IInv
<1> QED
  BY <1>2, <1>3, <1>4 DEF Finish

LEMMA NextIterationStep ==
  ASSUME IInv, NextIteration
  PROVE  IInv' /\ NewcomersWaitStep
<1>1. /\ phase = "over" /\ phase' = "setup" /\ iteration < MaxIterations
      /\ queue' = <<>> /\ wanted' = {} /\ now' = 0
      /\ made' = made \ Periodic /\ cancelled' = cancelled \ Periodic
      /\ consumed' = consumed \ Periodic /\ iteration' = iteration + 1
      /\ UNCHANGED <<at, prio, running>>
  BY DEF NextIteration
<1>2. running = Nobody /\ Nobody \notin Actions /\ Nobody \notin Periodic
  BY <1>1, PendingActionsAssumption DEF IInv, LoopInv, Actions
<1>3. Queued' = {} /\ Len(queue') = 0
  BY <1>1 DEF Queued, ToSet
<1>4. \A p \in Pooled : pool'[p] = pool[p] /\ pool'[p] \in Nat
  <2> SUFFICES ASSUME NEW p \in Pooled PROVE pool'[p] = pool[p] /\ pool'[p] \in Nat
    OBVIOUS
  <2>1. ~(p \in ToSet(queue) /\ p \in consumed)
    BY DEF IInv, QueueInv, QueuedOnce, Queued
  <2>2. pool'[p] = pool[p] + 0 /\ pool[p] \in Nat
    BY <2>1 DEF NextIteration, IInv, TypeOK
  <2> QED
    BY <2>2
<1>5. pool' = [p \in Pooled |-> pool'[p]]
  BY DEF NextIteration
<1>6. TypeOK'
  <2>1. pool' \in [Pooled -> Nat]
    BY <1>4, <1>5
  <2>2. iteration' \in 1..MaxIterations /\ now' \in Times
    BY <1>1, PendingActionsAssumption DEF IInv, TypeOK, Times
  <2> QED
    BY <1>1, <2>1, <2>2 DEF IInv, TypeOK
<1>7. QueueInv'
  BY <1>3 DEF QueueInv, QueueSorted, QueuedOnce, NothingOverdue
<1>8. PoolSafe'
  BY <1>1, <1>3, <1>4, PendingActionsAssumption DEF IInv, PoolSafe
<1>9. LoopInv' /\ WantedInv' /\ NothingLost'
  BY <1>1, <1>2, <1>3, PendingActionsAssumption DEF IInv, LoopInv, WantedInv, NothingLost
<1> QED
  BY <1>3, <1>6, <1>7, <1>8, <1>9, NoNewcomer DEF IInv

\* A step keeps the invariant, brings no newcomer in front of its elders and
\* performs only what is wanted.
LEMMA NextStep ==
  ASSUME IInv, [Next]_vars
  PROVE  /\ IInv'
         /\ NewcomersWaitStep
         /\ phase # "acting" /\ phase' = "acting" => running \in wanted
<1>1. CASE Next
  <2>1. ASSUME NEW t \in now..MaxTime, NEW p \in Held, Reschedule(p, t)
        PROVE  IInv' /\ NewcomersWaitStep /\ phase' = phase
    BY <2>1, RescheduleStep DEF Reschedule
  <2>2. ASSUME NEW t \in now..MaxTime, NEW p \in Periodic, NEW pr \in Priorities,
               StartPeriodic(p, t, pr)
        PROVE  IInv' /\ NewcomersWaitStep /\ phase' = phase
    BY <2>2, StartPeriodicStep DEF StartPeriodic
  <2>3. ASSUME NEW t \in now..MaxTime, NEW p \in Pooled, NEW pr \in Priorities,
               Fire(p, t, pr)
        PROVE  IInv' /\ NewcomersWaitStep /\ phase' = phase
    BY <2>3, FireStep DEF Fire
  <2>4. ASSUME NEW t \in now..MaxTime, Repeat(t)
        PROVE  IInv' /\ NewcomersWaitStep /\ phase' = phase
    BY <2>4, RepeatStep DEF Repeat
  <2>5. ASSUME NEW p \in Held \cup Periodic, Cancel(p)
        PROVE  IInv' /\ NewcomersWaitStep /\ phase' = phase
    BY <2>5, CancelStep DEF Cancel
  <2>6. CASE Start \/ FightEnds \/ EndSwing
    BY <2>6, StartStep DEF Start, FightEnds, EndSwing
  <2>7. CASE Step
    BY <2>7, StepStep DEF Step
  <2>8. CASE Act
    BY <2>8, ActStep
  <2>9. CASE Finish
    BY <2>9, FinishStep DEF Finish
  <2>10. ASSUME NEW t \in now..EndTime, Swing(t)
         PROVE  IInv' /\ NewcomersWaitStep /\ phase' = "swinging"
    BY <2>10, SwingStep DEF Swing
  <2>11. CASE NextIteration
    BY <2>11, NextIterationStep DEF NextIteration
  <2> QED
    BY <1>1, <2>1, <2>2, <2>3, <2>4, <2>5, <2>6, <2>7, <2>8, <2>9, <2>10, <2>11
       DEF Next, Callback
<1>2. CASE UNCHANGED vars
  <2>1. QueueInv' /\ Queued' = Queued
    BY <1>2, QuietStep DEF vars, flags
  <2> QED
    BY <1>2, <2>1, NoNewcomer
       DEF vars, flags, IInv, TypeOK, PoolSafe, LoopInv, WantedInv, NothingLost
<1> QED
  BY <1>1, <1>2

-----------------------------------------------------------------------------
(* The theorems.                                                           *)

LEMMA Invariance == Spec => []IInv
<1>1. IInv /\ [Next]_vars => IInv'
  BY NextStep
<1> QED
  BY InitIInv, <1>1, PTL DEF Spec

\* The queue keeps its order, no action is queued twice or while a flag says that
\* it is not, and none is left behind by the clock (AddPendingAction, Cancel and
\* Step of sim/core).
THEOREM QueueOrdered == Spec => [](TypeOK /\ QueueOrderly)
<1>1. IInv => TypeOK /\ QueueOrderly
  BY DEF IInv, QueueInv, QueueOrderly
<1> QED
  BY Invariance, <1>1, PTL

\* The actions, the queue, the pool and the loop keep their types.
THEOREM TypeCorrect == Spec => []TypeOK
<1>1. IInv => TypeOK
  BY DEF IInv
<1> QED
  BY Invariance, <1>1, PTL

\* A recycled struct is in nobody's hands (GetConsumedPendingActionFromPool and
\* dispose).
THEOREM PoolIsSafe == Spec => []PoolSafe
<1>1. IInv => PoolSafe
  BY DEF IInv
<1> QED
  BY Invariance, <1>1, PTL

\* What was scheduled and not cancelled stays queued until it is performed.
THEOREM NothingIsLost == Spec => []NothingLost
<1>1. IInv => NothingLost
  BY DEF IInv
<1> QED
  BY Invariance, <1>1, PTL

\* An action that joins the queue waits for those that are due when it is and have
\* at least its priority.
THEOREM NewcomersDoWait == Spec => NewcomersWait
<1>1. IInv /\ [Next]_vars => [NewcomersWaitStep]_vars
  BY NextStep
<1> QED
  BY Invariance, <1>1, PTL DEF Spec, NewcomersWait, NewcomersWaitStep

\* A cancelled action is not performed, whatever cancelled it and when.
THEOREM CancelledIsNotPerformed == Spec => CancelledNeverActs
<1>1. IInv /\ [Next]_vars =>
        [phase # "acting" /\ phase' = "acting" => running \in wanted]_vars
  BY NextStep
<1> QED
  BY Invariance, <1>1, PTL DEF Spec, CancelledNeverActs

-----------------------------------------------------------------------------
(* Damage over time: what the inductive invariant says.                    *)

Items == Dots \cup {Rotation}

DotRecord == [expires : 0..Never, period : TickLengths, remaining : Int, next : 0..Never,
              began : 0..FightEnd, fade : 0..FightEnd, made : Nat]

SharedType == [active : SUBSET Dots, dots : [Dots -> DotRecord], agenda : Seq(Items),
               wake : 0..Never, channel : Channels \cup {NoDot}, cut : SUBSET Dots]

\* The agenda holds nothing twice and, apart from E, is sorted and not behind time t.
InOrder(s, t, E) ==
  /\ Distinct(s.agenda)
  /\ \A i, j \in 1..Len(s.agenda) :
        i < j /\ s.agenda[i] \notin E /\ s.agenda[j] \notin E
           => At(s, s.agenda[i]) <= At(s, s.agenda[j])
  /\ \A i \in 1..Len(s.agenda) : s.agenda[i] \notin E => t <= At(s, s.agenda[i])

\* The ticks on the agenda are those of the active dots, apart from X that is being performed.
Ticking(s, X) == \A d \in Dots : d \in ToSet(s.agenda) <=> d \in s.active /\ d \notin X

\* The channel is the active dot of a channelled spell.
Channelling(s) == \A d \in Channels : d \in s.active <=> s.channel = d

Beat(r, k) == r.began + (r.made + k) * r.period

\* An active dot has performed the ticks up to time t and is about to perform the next one.
OnBeat(s, d, t) ==
  LET r == s.dots[d]
  IN  /\ Beat(r, 0) <= t /\ t <= r.next /\ r.next = Beat(r, 1)
      /\ d \in Channels => r.expires = Beat(r, r.remaining)

\* A dot that faded at time t has performed the ticks up to then.
Performed(r, d, t, c) ==
  /\ Beat(r, IF d \in OwnEnding THEN -1 ELSE 0) <= t
  /\ t < Beat(r, 1) \/ (t = Beat(r, 1) /\ d \in c)

Beats(s, t, D) ==
  \A d \in D : IF d \in s.active THEN OnBeat(s, d, t)
                                 ELSE Performed(s.dots[d], d, s.dots[d].fade, s.cut)

\* No dot is active at its end, apart from F that are about to fade.
Lasting(s, t, F) == \A d \in s.active \ F : t < s.dots[d].expires

Sound(s, t, F, X) ==
  /\ s \in SharedType
  /\ InOrder(s, t, {}) /\ Ticking(s, X) /\ Channelling(s)
  /\ Beats(s, t, Dots) /\ Lasting(s, t, F)

\* What happens at time t costs the rotation no wake-up, and the end of a channel leaves one.
Wakes(r, s, t) ==
  /\ Rotation \in ToSet(s.agenda) => Rotation \in ToSet(r.agenda)
  /\ r.wake # s.wake => Rotation \in ToSet(r.agenda)
  /\ r.channel # s.channel =>
        r.channel = NoDot /\ (gcd <= t => Rotation \in ToSet(r.agenda))
  /\ r.channel # NoDot => r.wake = s.wake

\* The rotation has a wake-up to come, or the end of a channel will give it one.
Wakeful ==
  /\ acting = Rotation /\ Rotation \notin ToSet(agenda) => wake = clock
  /\ ~disturbed =>
        /\ \/ Rotation \in ToSet(agenda)
           \/ channel # NoDot /\ gcd <= clock
           \/ acting = Rotation
        /\ channel # NoDot => gcd <= wake

DotInv ==
  /\ clock \in 0..FightEnd /\ gcd \in 0..Never
  /\ acting \in Items \cup {Event, Idle}
  /\ disturbed \in BOOLEAN
  /\ Sound(Shared, clock, {}, {acting})
  /\ acting \in Dots => acting \in active /\ dots[acting].next = clock
  /\ Wakeful

-----------------------------------------------------------------------------
(* The agenda of a caster.                                                 *)

LEMMA DotFacts ==
  /\ Rotation \notin Dots /\ NoDot \notin Dots /\ IsFiniteSet(Dots)
  /\ Channels \subseteq Dots /\ Hasted \subseteq Dots /\ OwnEnding \subseteq Dots
  /\ BaseCount \in Nat /\ BaseCount >= 1 /\ BaseLength \in Nat /\ BaseLength >= 1
  /\ Periods \subseteq TickLengths /\ BaseLength \in TickLengths
  /\ \A p \in TickLengths : p \in Nat /\ p >= 1
  /\ GCD \in Nat /\ Reaction \in Nat /\ Clip \in Nat /\ Window \in Nat
  /\ FightEnd \in Nat /\ Never \in Nat
  /\ Idle \notin Items /\ Event \notin Items /\ Idle # Event
<1>1. Idle \notin Items /\ Event \notin Items /\ Idle # Event
  BY DotAssumption DEF Items, Idle, Event, Rotation
<1>2. PICK c \in Nat, l \in Nat : c = BaseCount /\ l = BaseLength /\ c >= 1 /\ l >= 1
  BY DotAssumption
<1>3. l <= c * l /\ 2 * c * l = c * l + c * l
  BY <1>2
<1>4. BaseLength \in TickLengths
  BY <1>2, <1>3 DEF TickLengths
<1>5. \A p \in TickLengths : p \in Nat /\ p >= 1
  BY <1>2 DEF TickLengths
<1> QED
  BY <1>1, <1>4, <1>5, DotAssumption

\* Two states of the caster that differ in nothing but the agenda.
SameBut(r, s) ==
  /\ r.active = s.active /\ r.dots = s.dots /\ r.wake = s.wake
  /\ r.channel = s.channel /\ r.cut = s.cut

LEMMA WithAgenda ==
  ASSUME NEW s \in SharedType, NEW q \in Seq(Items)
  PROVE  LET r == [s EXCEPT !.agenda = q]
         IN  r \in SharedType /\ SameBut(r, s) /\ r.agenda = q
BY DEF SharedType, SameBut

LEMMA AtType ==
  ASSUME NEW s \in SharedType, NEW x \in Items
  PROVE  At(s, x) \in Nat /\ At(s, x) <= Never
<1>1. CASE x = Rotation
  BY <1>1, DotFacts DEF At, SharedType
<1>2. CASE x # Rotation
  <2>1. x \in Dots /\ s.dots \in [Dots -> DotRecord]
    BY <1>2 DEF Items, SharedType
  <2>2. s.dots[x].next \in 0..Never
    BY <2>1 DEF DotRecord
  <2> QED
    BY <1>2, <2>2, DotFacts DEF At
<1> QED
  BY <1>1, <1>2

\* Where something is due depends on nothing but the timers.
LEMMA SameTimes ==
  ASSUME NEW s, NEW r, SameBut(r, s), NEW x
  PROVE  At(r, x) = At(s, x)
BY DEF At, SameBut

LEMMA DequeueFacts ==
  ASSUME NEW s \in SharedType, Distinct(s.agenda), NEW x
  PROVE  LET r == Dequeue(s, x)
         IN  /\ r \in SharedType /\ SameBut(r, s)
             /\ ToSet(r.agenda) = ToSet(s.agenda) \ {x}
             /\ \A t, E : InOrder(s, t, E) => InOrder(r, t, E \ {x})
<1>1. PICK q : q = s.agenda
  OBVIOUS
<1>2. q \in Seq(Items) /\ Distinct(q)
  BY <1>1 DEF SharedType
<1>3. PICK v : v = RemoveFirst(q, x)
  OBVIOUS
<1>4. /\ v \in Seq(Items) /\ ToSet(v) = ToSet(q) \ {x} /\ Distinct(v)
      /\ \A i, j \in 1..Len(v) : i < j =>
           \E k, l \in 1..Len(q) : k < l /\ v[i] = q[k] /\ v[j] = q[l]
  BY <1>2, <1>3, RemoveFirstProperties
<1>5. PICK r : r = Dequeue(s, x)
  OBVIOUS
<1>6. r = [s EXCEPT !.agenda = v]
  BY <1>1, <1>3, <1>5 DEF Dequeue
<1>7. r \in SharedType /\ SameBut(r, s) /\ r.agenda = v
  BY <1>4, <1>6, WithAgenda
<1>8. ASSUME NEW t, NEW E, InOrder(s, t, E) PROVE InOrder(r, t, E \ {x})
  <2>1. Len(v) \in Nat /\ Len(q) \in Nat
    BY <1>2, <1>4, LenProperties
  <2>2. \A i \in 1..Len(v) : v[i] # x /\ \E k \in 1..Len(q) : v[i] = q[k]
    <3> SUFFICES ASSUME NEW i \in 1..Len(v) PROVE v[i] \in ToSet(q) \ {x}
      BY <1>2, LenProperties DEF ToSet
    <3>1. v[i] \in ToSet(v)
      BY <1>4, LenProperties DEF ToSet
    <3> QED
      BY <1>4, <3>1
  <2>3. \A i, j \in 1..Len(v) :
           i < j /\ v[i] \notin E \ {x} /\ v[j] \notin E \ {x} => At(s, v[i]) <= At(s, v[j])
    <3> SUFFICES ASSUME NEW i \in 1..Len(v), NEW j \in 1..Len(v), i < j,
                        v[i] \notin E \ {x}, v[j] \notin E \ {x}
                 PROVE  At(s, v[i]) <= At(s, v[j])
      OBVIOUS
    <3>1. PICK k \in 1..Len(q), l \in 1..Len(q) : k < l /\ v[i] = q[k] /\ v[j] = q[l]
      BY <1>4
    <3>2. q[k] \notin E /\ q[l] \notin E
      BY <2>2, <3>1
    <3> QED
      BY <1>1, <1>8, <3>1, <3>2 DEF InOrder
  <2>4. \A i \in 1..Len(v) : v[i] \notin E \ {x} => t <= At(s, v[i])
    <3> SUFFICES ASSUME NEW i \in 1..Len(v), v[i] \notin E \ {x} PROVE t <= At(s, v[i])
      OBVIOUS
    <3>1. PICK k \in 1..Len(q) : v[i] = q[k]
      BY <2>2
    <3>2. q[k] \notin E
      BY <2>2, <3>1
    <3> QED
      BY <1>1, <1>8, <3>1, <3>2 DEF InOrder
  <2>5. \A y : At(r, y) = At(s, y)
    BY <1>7, SameTimes
  <2> QED
    BY <1>4, <1>7, <2>3, <2>4, <2>5 DEF InOrder
<1> QED
  BY <1>1, <1>4, <1>5, <1>7, <1>8

\* What is due no later than a new entry comes first on a sorted agenda.
LEMMA AheadIsPrefix ==
  ASSUME NEW s \in SharedType, NEW t, InOrder(s, t, {}), NEW x \in Items
  PROVE  LET k == Cardinality({i \in DOMAIN s.agenda : At(s, s.agenda[i]) <= At(s, x)})
         IN  /\ k \in 0..Len(s.agenda)
             /\ \A i \in 1..Len(s.agenda) : i <= k <=> At(s, s.agenda[i]) <= At(s, x)
<1>1. PICK q : q = s.agenda
  OBVIOUS
<1>2. q \in Seq(Items)
  BY <1>1 DEF SharedType
<1>3. PICK n \in Nat : n = Len(q) /\ DOMAIN q = 1..n
  BY <1>2, LenProperties
<1>4. PICK u \in Nat : u = At(s, x)
  BY AtType
<1>5. PICK f : f = [i \in 1..n |-> At(s, q[i])]
  OBVIOUS
<1>6. \A i \in 1..n : f[i] \in Nat /\ f[i] = At(s, q[i])
  BY <1>2, <1>3, <1>5, AtType
<1>7. \A i, j \in 1..n : i < j => f[i] <= f[j]
  <2>1. \A i \in 1..n : q[i] \notin {}
    OBVIOUS
  <2> QED
    BY <1>1, <1>3, <1>6, <2>1 DEF InOrder
<1> DEFINE A == {i \in 1..n : f[i] <= u}
           B == {i \in 1..n : f[i] > u}
<1>8. \E k \in 0..n : \A i \in 1..n : i <= k <=> f[i] <= u
  <2>1. CASE B = {}
    <3>1. \A i \in 1..n : i <= n /\ f[i] <= u
      BY <1>6, <2>1
    <3> QED
      BY <3>1
  <2>2. CASE B # {}
    <3>1. B \in SUBSET Nat
      OBVIOUS
    <3>2. PICK m : m = Min(B)
      OBVIOUS
    <3>3. m \in B /\ \A i \in B : m <= i
      <4> HIDE DEF B
      <4> QED
        BY <2>2, <3>1, <3>2, MinProperties
    <3>4. m \in 1..n /\ f[m] > u
      BY <3>3
    <3>5. ASSUME NEW i \in 1..n PROVE i <= m - 1 <=> f[i] <= u
      <4>1. CASE i <= m - 1
        <5>1. i \notin B
          <6> HIDE DEF B
          <6> QED
            BY <3>3, <3>4, <4>1
        <5> QED
          BY <1>6, <4>1, <5>1
      <4>2. CASE i = m
        BY <1>6, <3>4, <4>2
      <4>3. CASE i > m
        BY <1>6, <1>7, <3>4, <4>3
      <4> QED
        BY <3>4, <4>1, <4>2, <4>3
    <3>6. m - 1 \in 0..n
      BY <3>4
    <3> QED
      BY <3>5, <3>6
  <2> QED
    BY <2>1, <2>2
<1>9. PICK k \in 0..n : \A i \in 1..n : i <= k <=> f[i] <= u
  BY <1>8
<1>10. A = 1..k
  BY <1>9
<1>11. Cardinality(A) = k
  <2>1. Cardinality(1..k) = k
    BY FS_Interval
  <2> QED
    BY <1>10, <2>1
<1>12. {i \in DOMAIN s.agenda : At(s, s.agenda[i]) <= At(s, x)} = A
  BY <1>1, <1>3, <1>4, <1>6
<1> HIDE DEF A, B
<1> QED
  BY <1>1, <1>3, <1>4, <1>6, <1>9, <1>11, <1>12

\* AddPendingAction of something that is not on the agenda.
LEMMA EnqueueFacts ==
  ASSUME NEW s \in SharedType, NEW t \in Int, InOrder(s, t, {}),
         NEW x \in Items, x \notin ToSet(s.agenda), t <= At(s, x)
  PROVE  LET r == Enqueue(s, x)
         IN  /\ r \in SharedType /\ SameBut(r, s)
             /\ ToSet(r.agenda) = ToSet(s.agenda) \cup {x}
             /\ InOrder(r, t, {})
<1>1. PICK q : q = s.agenda
  OBVIOUS
<1>2. q \in Seq(Items)
  BY <1>1 DEF SharedType
<1>3. PICK n \in Nat : n = Len(q) /\ DOMAIN q = 1..n
  BY <1>2, LenProperties
<1>4. PICK k : k = Cardinality({i \in DOMAIN s.agenda : At(s, s.agenda[i]) <= At(s, x)})
  OBVIOUS
<1>5. k \in 0..n /\ \A i \in 1..n : i <= k <=> At(s, q[i]) <= At(s, x)
  BY <1>1, <1>3, <1>4, AheadIsPrefix
<1>6. PICK v : v = InsertAt(q, k + 1, x)
  OBVIOUS
<1>7. k + 1 \in 1..n + 1
  BY <1>5
<1>8. /\ v \in Seq(Items) /\ Len(v) = n + 1
      /\ \A j \in 1..n + 1 : v[j] = IF j < k + 1 THEN q[j] ELSE IF j = k + 1 THEN x ELSE q[j - 1]
  <2>1. k + 1 \in 1..Len(q) + 1
    BY <1>3, <1>7
  <2>2. /\ InsertAt(q, k + 1, x) \in Seq(Items) /\ Len(InsertAt(q, k + 1, x)) = Len(q) + 1
        /\ \A j \in 1..Len(q) + 1 :
             InsertAt(q, k + 1, x)[j] = IF j < k + 1 THEN q[j]
                                        ELSE IF j = k + 1 THEN x ELSE q[j - 1]
    <3>1. PICK m : m = k + 1
      OBVIOUS
    <3>2. m \in 1..Len(q) + 1
      BY <2>1, <3>1
    <3>3. /\ InsertAt(q, m, x) \in Seq(Items) /\ Len(InsertAt(q, m, x)) = Len(q) + 1
          /\ \A j \in 1..Len(q) + 1 :
               InsertAt(q, m, x)[j] = IF j < m THEN q[j] ELSE IF j = m THEN x ELSE q[j - 1]
      BY <1>2, <3>2, InsertAtProperties
    <3> QED
      BY <3>1, <3>3
  <2> QED
    BY <1>3, <1>6, <2>2
<1>9. DOMAIN v = 1..(n + 1)
  BY <1>3, <1>8, LenProperties
<1>10. PICK r : r = Enqueue(s, x)
  OBVIOUS
<1>11. r = [s EXCEPT !.agenda = v]
  BY <1>1, <1>4, <1>6, <1>10 DEF Enqueue
<1>12. r \in SharedType /\ SameBut(r, s) /\ r.agenda = v
  BY <1>8, <1>11, WithAgenda
<1>13. \A i \in 1..n : q[i] # x
  BY <1>1, <1>3 DEF ToSet
<1>14. \A i, j \in 1..n : i # j => q[i] # q[j]
  BY <1>1, <1>3 DEF InOrder, Distinct
\* The place of an old entry.
<1>15. ASSUME NEW j \in 1..(n + 1)
       PROVE  \/ j < k + 1 /\ j \in 1..n /\ v[j] = q[j]
              \/ j = k + 1 /\ v[j] = x
              \/ j > k + 1 /\ j - 1 \in 1..n /\ v[j] = q[j - 1]
  BY <1>5, <1>8
<1>16. ToSet(v) = ToSet(q) \cup {x}
  <2>1. \A y \in ToSet(v) : y \in ToSet(q) \cup {x}
    <3> SUFFICES ASSUME NEW j \in 1..(n + 1) PROVE v[j] \in ToSet(q) \cup {x}
      BY <1>9 DEF ToSet
    <3> QED
      BY <1>3, <1>15 DEF ToSet
  <2>2. x \in ToSet(v)
    <3>1. k + 1 \in 1..(n + 1) /\ v[k + 1] = x
      BY <1>7, <1>8
    <3> QED
      BY <1>9, <3>1 DEF ToSet
  <2>3. \A y \in ToSet(q) : y \in ToSet(v)
    <3> SUFFICES ASSUME NEW j \in 1..n PROVE q[j] \in ToSet(v)
      BY <1>3 DEF ToSet
    <3>1. CASE j < k + 1
      <4>1. j \in 1..(n + 1) /\ v[j] = q[j]
        BY <1>8, <3>1
      <4> QED
        BY <1>9, <4>1 DEF ToSet
    <3>2. CASE j >= k + 1
      <4>1. j + 1 \in 1..(n + 1) /\ v[j + 1] = q[(j + 1) - 1] /\ (j + 1) - 1 = j
        BY <1>5, <1>8, <3>2
      <4> QED
        BY <1>9, <4>1 DEF ToSet
    <3> QED
      BY <1>5, <3>1, <3>2
  <2> QED
    BY <2>1, <2>2, <2>3
<1>17. ASSUME NEW i \in 1..(n + 1), NEW j \in 1..(n + 1), i < j
       PROVE  v[i] # v[j] /\ At(s, v[i]) <= At(s, v[j])
  <2>1. \A l \in 1..n : At(s, q[l]) \in Nat
    BY <1>2, <1>3, AtType
  <2>2. At(s, x) \in Nat
    BY AtType
  <2>3. \A l, m \in 1..n : l < m => At(s, q[l]) <= At(s, q[m])
    BY <1>1, <1>3 DEF InOrder
  <2>4. \A l \in 1..n : l > k => At(s, x) <= At(s, q[l])
    BY <1>5, <2>1, <2>2
  <2>5. CASE i < k + 1 /\ j < k + 1
    <3>1. i \in 1..n /\ j \in 1..n /\ v[i] = q[i] /\ v[j] = q[j]
      BY <1>5, <1>15, <2>5
    <3> QED
      BY <1>14, <1>17, <2>3, <3>1
  <2>6. CASE i < k + 1 /\ j = k + 1
    <3>1. i \in 1..n /\ i <= k /\ v[i] = q[i] /\ v[j] = x
      BY <1>5, <1>15, <2>6
    <3> QED
      BY <1>5, <1>13, <3>1
  <2>7. CASE i < k + 1 /\ j > k + 1
    <3>1. i \in 1..n /\ j - 1 \in 1..n /\ i < j - 1 /\ v[i] = q[i] /\ v[j] = q[j - 1]
      BY <1>5, <1>15, <2>7
    <3> QED
      BY <1>14, <2>3, <3>1
  <2>8. CASE i = k + 1
    <3>1. j > k + 1 /\ j - 1 \in 1..n /\ j - 1 > k /\ v[i] = x /\ v[j] = q[j - 1]
      BY <1>5, <1>15, <1>17, <2>8
    <3> QED
      BY <1>13, <2>4, <3>1
  <2>9. CASE i > k + 1
    <3>1. /\ i - 1 \in 1..n /\ j - 1 \in 1..n /\ i - 1 < j - 1
          /\ v[i] = q[i - 1] /\ v[j] = q[j - 1]
      BY <1>5, <1>15, <1>17, <2>9
    <3> QED
      BY <1>14, <2>3, <3>1
  <2> QED
    BY <1>5, <1>17, <2>5, <2>6, <2>7, <2>8, <2>9
<1>18. Distinct(v)
  <2> SUFFICES ASSUME NEW i \in 1..(n + 1), NEW j \in 1..(n + 1), i # j PROVE v[i] # v[j]
    BY <1>8 DEF Distinct
  <2>1. i < j \/ j < i
    OBVIOUS
  <2> QED
    BY <1>17, <2>1
<1>19. \A j \in 1..(n + 1) : t <= At(s, v[j])
  <2>1. \A l \in 1..n : t <= At(s, q[l])
    BY <1>1, <1>3 DEF InOrder
  <2> QED
    BY <1>15, <2>1
<1>20. \A y : At(r, y) = At(s, y)
  BY <1>12, SameTimes
<1>21. InOrder(r, t, {})
  BY <1>8, <1>12, <1>17, <1>18, <1>19, <1>20 DEF InOrder
<1> QED
  BY <1>1, <1>10, <1>12, <1>16, <1>21

\* WaitUntil: the rotation is on the agenda once, for the time u.
LEMMA WaitUntilFacts ==
  ASSUME NEW s \in SharedType, NEW t \in Int, InOrder(s, t, {}), NEW u \in 0..Never, t <= u
  PROVE  LET r == WaitUntil(s, u)
         IN  /\ r \in SharedType /\ InOrder(r, t, {})
             /\ ToSet(r.agenda) = ToSet(s.agenda) \cup {Rotation}
             /\ r.active = s.active /\ r.dots = s.dots /\ r.channel = s.channel
             /\ r.cut = s.cut /\ r.wake = u
<1>1. PICK a : a = Dequeue(s, Rotation)
  OBVIOUS
<1>2. /\ a \in SharedType /\ SameBut(a, s) /\ ToSet(a.agenda) = ToSet(s.agenda) \ {Rotation}
      /\ InOrder(a, t, {})
  <2>1. Distinct(s.agenda)
    BY DEF InOrder
  <2>2. {} \ {Rotation} = {}
    OBVIOUS
  <2> QED
    BY <1>1, <2>1, <2>2, DequeueFacts
<1>3. PICK b : b = [a EXCEPT !.wake = u]
  OBVIOUS
<1>4. /\ b \in SharedType /\ b.agenda = a.agenda /\ b.active = a.active /\ b.dots = a.dots
      /\ b.channel = a.channel /\ b.cut = a.cut /\ b.wake = u
  BY <1>2, <1>3 DEF SharedType
<1>5. \A y : y # Rotation => At(b, y) = At(a, y)
  BY <1>4 DEF At
<1>6. InOrder(b, t, {})
  <2>1. \A i \in 1..Len(a.agenda) : a.agenda[i] # Rotation
    <3>1. a.agenda \in Seq(Items)
      BY <1>2 DEF SharedType
    <3> QED
      BY <1>2, <3>1, LenProperties DEF ToSet
  <2>2. \A i \in 1..Len(a.agenda) : At(b, a.agenda[i]) = At(a, a.agenda[i])
    BY <1>5, <2>1
  <2> QED
    BY <1>2, <1>4, <2>2 DEF InOrder
<1>7. Rotation \in Items /\ At(b, Rotation) = u
  BY <1>4 DEF Items, At
<1>8. PICK r : r = Enqueue(b, Rotation)
  OBVIOUS
<1>9. /\ r \in SharedType /\ SameBut(r, b) /\ InOrder(r, t, {})
      /\ ToSet(r.agenda) = ToSet(b.agenda) \cup {Rotation}
  BY <1>2, <1>4, <1>6, <1>7, <1>8, EnqueueFacts
<1>10. r = WaitUntil(s, u)
  BY <1>1, <1>3, <1>8 DEF WaitUntil
<1> QED
  BY <1>2, <1>4, <1>9, <1>10 DEF SameBut

-----------------------------------------------------------------------------
(* The aura of a dot fades.                                                *)

LEMMA DotRecordFacts ==
  ASSUME NEW r \in DotRecord
  PROVE  /\ r.period \in Nat /\ r.period >= 1 /\ r.began \in Nat /\ r.made \in Nat
         /\ r.next \in Nat /\ r.expires \in Nat /\ r.fade \in Nat /\ r.remaining \in Int
<1>1. /\ r.period \in TickLengths /\ r.began \in 0..FightEnd /\ r.made \in Nat
      /\ r.next \in 0..Never /\ r.remaining \in Int /\ r.expires \in 0..Never
      /\ r.fade \in 0..FightEnd
  BY DEF DotRecord
<1>2. r.period \in Nat /\ r.period >= 1
  BY <1>1, DotFacts
<1> QED
  BY <1>1, <1>2

LEMMA RecordFacts ==
  ASSUME NEW s \in SharedType, NEW d \in Dots
  PROVE  /\ s.dots[d] \in DotRecord
         /\ s.dots[d].period \in Nat /\ s.dots[d].period >= 1
         /\ s.dots[d].began \in Nat /\ s.dots[d].made \in Nat /\ s.dots[d].next \in Nat
         /\ s.dots[d].remaining \in Int /\ s.dots[d].expires \in Nat /\ s.dots[d].fade \in Nat
<1>1. s.dots[d] \in DotRecord
  BY DEF SharedType
<1> QED
  BY <1>1, DotRecordFacts

LEMMA TickedFacts ==
  ASSUME NEW r \in DotRecord, NEW n \in Nat
  PROVE  /\ Ticked(r, n) \in DotRecord
         /\ Ticked(r, n).made = r.made + n /\ Ticked(r, n).remaining = r.remaining - n
         /\ Ticked(r, n).began = r.began /\ Ticked(r, n).period = r.period
         /\ Ticked(r, n).next = r.next /\ Ticked(r, n).expires = r.expires
         /\ Ticked(r, n).fade = r.fade
<1>1. r.remaining \in Int /\ r.made \in Nat
  BY DEF DotRecord
<1>2. PICK a, b : a = r.remaining - n /\ b = r.made + n
  OBVIOUS
<1>3. a \in Int /\ b \in Nat
  BY <1>1, <1>2
<1>4. Ticked(r, n) = [r EXCEPT !.remaining = a, !.made = b]
  BY <1>2 DEF Ticked
<1> QED
  BY <1>2, <1>3, <1>4 DEF DotRecord

\* The record of one dot is replaced.
LEMMA WithDot ==
  ASSUME NEW s \in SharedType, NEW d \in Dots, NEW v \in DotRecord
  PROVE  LET r == [s EXCEPT !.dots[d] = v]
         IN  /\ r \in SharedType /\ r.dots = [s.dots EXCEPT ![d] = v]
             /\ r.dots[d] = v /\ \A e \in Dots : e # d => r.dots[e] = s.dots[e]
             /\ r.active = s.active /\ r.agenda = s.agenda /\ r.wake = s.wake
             /\ r.channel = s.channel /\ r.cut = s.cut
BY DEF SharedType

\* Two states of the caster agree on everything but the record of d.
LEMMA OrderBut ==
  ASSUME NEW s \in SharedType, NEW r, NEW d, NEW t, InOrder(s, t, {d}), r.agenda = s.agenda,
         \A y \in Items : y # d => At(r, y) = At(s, y)
  PROVE  InOrder(r, t, {d})
<1>1. s.agenda \in Seq(Items)
  BY DEF SharedType
<1>2. \A i \in 1..Len(s.agenda) :
         s.agenda[i] \notin {d} => At(r, s.agenda[i]) = At(s, s.agenda[i])
  BY <1>1, LenProperties
<1> QED
  BY <1>2 DEF InOrder

\* What the aura of d leaves behind when it fades at time t.
FadesWell(s, d, t) ==
  Performed(Ticked(s.dots[d], IF s.dots[d].next = t THEN 1 ELSE 0), d, t, s.cut)

\* The aura is no longer active ...
Faded(s, d, t) ==
  [s EXCEPT !.active = @ \ {d}, !.dots[d] = [@ EXCEPT !.expires = 0, !.fade = t]]

\* ... and the tick that is due is performed.
FadedTicking(s, d, t) ==
  LET a == Faded(s, d, t)
  IN  [a EXCEPT !.dots[d] = Ticked(@, IF a.dots[d].next = t THEN 1 ELSE 0)]

LEMMA FadedFacts ==
  ASSUME NEW s \in SharedType, NEW t \in 0..FightEnd, NEW d \in s.active
  PROVE  LET last == IF s.dots[d].next = t THEN 1 ELSE 0
             r == FadedTicking(s, d, t)
         IN  /\ r \in SharedType /\ r.active = s.active \ {d}
             /\ \A e \in Dots : e # d => r.dots[e] = s.dots[e]
             /\ r.dots[d].fade = t /\ r.dots[d].began = s.dots[d].began
             /\ r.dots[d].period = s.dots[d].period
             /\ r.dots[d].made = s.dots[d].made + last
             /\ r.agenda = s.agenda /\ r.wake = s.wake
             /\ r.channel = s.channel /\ r.cut = s.cut
<1>1. d \in Dots
  BY DEF SharedType
<1>2. PICK v : v = s.dots[d]
  OBVIOUS
<1>3. v \in DotRecord
  BY <1>1, <1>2, RecordFacts
<1>4. PICK w : w = [v EXCEPT !.expires = 0, !.fade = t]
  OBVIOUS
<1>5. /\ w \in DotRecord /\ w.fade = t /\ w.began = v.began /\ w.period = v.period
      /\ w.made = v.made /\ w.next = v.next
  <2>1. 0 \in 0..Never
    BY DotFacts
  <2> QED
    BY <1>3, <1>4, <2>1 DEF DotRecord
<1>6. PICK a : a = Faded(s, d, t)
  OBVIOUS
<1>7. a = [s EXCEPT !.active = s.active \ {d}, !.dots[d] = w]
  <2>1. s.dots[d] = v
    BY <1>2
  <2> QED
    BY <1>1, <1>4, <1>6, <2>1 DEF Faded, SharedType
<1>8. /\ a \in SharedType /\ a.active = s.active \ {d} /\ a.dots[d] = w
      /\ \A e \in Dots : e # d => a.dots[e] = s.dots[e]
      /\ a.agenda = s.agenda /\ a.wake = s.wake /\ a.channel = s.channel /\ a.cut = s.cut
  BY <1>1, <1>5, <1>7 DEF SharedType
<1>9. PICK last \in Nat : last = IF v.next = t THEN 1 ELSE 0
  OBVIOUS
<1>10. PICK x : x = Ticked(w, last)
  OBVIOUS
<1>11. /\ x \in DotRecord /\ x.made = w.made + last /\ x.began = w.began
       /\ x.period = w.period /\ x.fade = w.fade
  BY <1>5, <1>10, TickedFacts
<1>12. PICK r : r = FadedTicking(s, d, t)
  OBVIOUS
<1>13. r = [a EXCEPT !.dots[d] = x]
  <2>1. (IF a.dots[d].next = t THEN 1 ELSE 0) = last
    BY <1>5, <1>8, <1>9
  <2>2. r = [a EXCEPT !.dots[d] = Ticked(@, last)]
    BY <1>6, <1>12, <2>1 DEF FadedTicking
  <2>3. Ticked(a.dots[d], last) = x
    BY <1>8, <1>10
  <2> QED
    BY <1>1, <1>8, <2>2, <2>3 DEF SharedType
<1>14. /\ r \in SharedType /\ r.dots[d] = x /\ \A e \in Dots : e # d => r.dots[e] = a.dots[e]
       /\ r.active = a.active /\ r.agenda = a.agenda /\ r.wake = a.wake
       /\ r.channel = a.channel /\ r.cut = a.cut
  BY <1>1, <1>8, <1>11, <1>13, WithDot
<1> QED
  BY <1>2, <1>5, <1>6, <1>8, <1>9, <1>11, <1>12, <1>14

LEMMA BeatsKept ==
  ASSUME NEW s, NEW r, NEW t, NEW D, Beats(s, t, D),
         \A e \in D : /\ r.dots[e] = s.dots[e]
                      /\ e \in r.active <=> e \in s.active
                      /\ e \in r.cut <=> e \in s.cut
  PROVE  Beats(r, t, D)
<1> SUFFICES ASSUME NEW d \in D
             PROVE  IF d \in r.active THEN OnBeat(r, d, t)
                                      ELSE Performed(r.dots[d], d, r.dots[d].fade, r.cut)
  BY DEF Beats
<1>1. CASE d \in s.active
  <2>1. OnBeat(s, d, t) /\ r.dots[d] = s.dots[d] /\ d \in r.active
    BY <1>1 DEF Beats
  <2> QED
    BY <2>1 DEF OnBeat
<1>2. CASE d \notin s.active
  <2>1. Performed(s.dots[d], d, s.dots[d].fade, s.cut) /\ d \notin r.active
    BY <1>2 DEF Beats
  <2> QED
    BY <2>1 DEF Performed
<1> QED
  BY <1>1, <1>2

LEMMA Later ==
  ASSUME NEW t \in 0..FightEnd
  PROVE  /\ t \in Int /\ t < Never
         /\ t + Clip \in 0..Never /\ t + Reaction \in 0..Never /\ t + GCD \in 0..Never
         /\ t <= t + Clip /\ t <= t + Reaction /\ t <= t + GCD
<1>1. PICK b \in Nat : b = 3 * BaseCount * BaseCount * BaseLength
  BY DotFacts
<1>2. FightEnd + b + GCD + Reaction + Clip < Never
  BY <1>1, DotAssumption
<1> QED
  BY <1>1, <1>2, DotFacts

\* Deactivate: whatever made the dot fade, nothing of it stays on the agenda, the ticks up to
\* now are performed, and the end of a channel leaves a wake-up.
LEMMA DeactivateFacts ==
  ASSUME NEW s \in SharedType, NEW t \in 0..FightEnd, NEW d \in s.active, NEW F, NEW X,
         InOrder(s, t, {d}), Ticking(s, X), Channelling(s),
         Beats(s, t, Dots \ {d}), Lasting(s, t, F \cup {d}), FadesWell(s, d, t)
  PROVE  LET r == Deactivate(s, d, t)
         IN  /\ Sound(r, t, F, X) /\ Wakes(r, s, t)
             /\ r.active = s.active \ {d}
             /\ \A e \in Dots : e # d => r.dots[e] = s.dots[e]
<1>0. d \in Dots /\ d # Rotation /\ d # NoDot
  BY DotFacts DEF SharedType
<1> DEFINE last == IF s.dots[d].next = t THEN 1 ELSE 0
<1>1. PICK b : b = FadedTicking(s, d, t)
  OBVIOUS
<1>2. Deactivate(s, d, t) =
        LET c == Dequeue(FadedTicking(s, d, t), d)
            e == [c EXCEPT !.channel = NoDot]
        IN IF d \notin Channels THEN c ELSE IF gcd <= t THEN WaitUntil(e, t + Clip) ELSE e
  BY DEF Deactivate, OnExpire, FadedTicking, Faded
<1>3. /\ b \in SharedType /\ b.active = s.active \ {d}
      /\ \A e \in Dots : e # d => b.dots[e] = s.dots[e]
      /\ b.dots[d].fade = t /\ b.dots[d].began = s.dots[d].began
      /\ b.dots[d].period = s.dots[d].period /\ b.dots[d].made = s.dots[d].made + last
      /\ b.agenda = s.agenda /\ b.wake = s.wake /\ b.channel = s.channel /\ b.cut = s.cut
  BY <1>1, FadedFacts
<1>4. PICK c : c = Dequeue(b, d)
  OBVIOUS
<1>5. /\ c \in SharedType /\ SameBut(c, b) /\ ToSet(c.agenda) = ToSet(s.agenda) \ {d}
      /\ InOrder(c, t, {})
  <2>1. \A y \in Items : y # d => At(b, y) = At(s, y)
    BY <1>3 DEF At, Items
  <2>2. InOrder(b, t, {d})
    BY <1>3, <2>1, OrderBut
  <2>3. Distinct(b.agenda) /\ {d} \ {d} = {}
    BY <2>2 DEF InOrder
  <2> QED
    BY <1>3, <1>4, <2>2, <2>3, DequeueFacts
<1>6. PICK r : r = Deactivate(s, d, t)
  OBVIOUS
<1>7. r = LET e == [c EXCEPT !.channel = NoDot]
          IN IF d \notin Channels THEN c ELSE IF gcd <= t THEN WaitUntil(e, t + Clip) ELSE e
  BY <1>1, <1>2, <1>4, <1>6
\* Whether the dot was a channel or not:
<1>8. /\ r \in SharedType /\ InOrder(r, t, {})
      /\ r.active = b.active /\ r.dots = b.dots /\ r.cut = b.cut
      /\ \A y \in Items \ {d} : y \in ToSet(s.agenda) => y \in ToSet(r.agenda)
      /\ \A e \in Dots : e \in ToSet(r.agenda) <=> e \in ToSet(s.agenda) /\ e # d
      /\ r.channel = IF d \in Channels THEN NoDot ELSE s.channel
      /\ r.wake = s.wake \/ Rotation \in ToSet(r.agenda)
      /\ d \in Channels /\ gcd <= t => Rotation \in ToSet(r.agenda)
      /\ d \notin Channels => r.wake = s.wake
  <2>1. CASE d \notin Channels
    BY <1>3, <1>5, <1>7, <2>1 DEF SameBut
  <2>2. CASE d \in Channels
    <3>1. PICK e : e = [c EXCEPT !.channel = NoDot]
      OBVIOUS
    <3>2. /\ e \in SharedType /\ e.channel = NoDot /\ e.active = c.active /\ e.dots = c.dots
          /\ e.agenda = c.agenda /\ e.wake = c.wake /\ e.cut = c.cut
      BY <1>5, <3>1 DEF SharedType
    <3>3. InOrder(e, t, {})
      <4>1. \A y : At(e, y) = At(c, y)
        BY <3>2 DEF At
      <4> QED
        BY <1>5, <3>2, <4>1 DEF InOrder
    <3>4. CASE gcd <= t
      <4>1. r = WaitUntil(e, t + Clip)
        BY <1>7, <2>2, <3>1, <3>4
      <4>2. /\ r \in SharedType /\ InOrder(r, t, {})
            /\ ToSet(r.agenda) = ToSet(e.agenda) \cup {Rotation}
            /\ r.active = e.active /\ r.dots = e.dots /\ r.channel = e.channel /\ r.cut = e.cut
        BY <3>2, <3>3, <4>1, Later, WaitUntilFacts
      <4>3. \A y \in Dots : y # Rotation
        BY DotFacts
      <4> QED
        BY <1>3, <1>5, <2>2, <3>2, <4>2, <4>3 DEF SameBut
    <3>5. CASE ~ (gcd <= t)
      <4>1. r = e
        BY <1>7, <2>2, <3>1, <3>5
      <4> QED
        BY <1>3, <1>5, <2>2, <3>2, <3>3, <3>5, <4>1 DEF SameBut
    <3> QED
      BY <3>4, <3>5
  <2> QED
    BY <2>1, <2>2
<1>9. Ticking(r, X)
  BY <1>3, <1>8 DEF Ticking
<1>10. Channelling(r)
  <2>1. \A e \in Channels : e \in s.active <=> s.channel = e
    BY DEF Channelling
  <2>2. NoDot \notin Channels
    BY DotFacts
  <2> QED
    BY <1>3, <1>8, <2>1, <2>2 DEF Channelling
<1>11. Beats(r, t, Dots)
  <2>1. Beats(r, t, Dots \ {d})
    <3>1. \A e \in Dots \ {d} : /\ r.dots[e] = s.dots[e]
                                /\ e \in r.active <=> e \in s.active
                                /\ e \in r.cut <=> e \in s.cut
      BY <1>3, <1>8
    <3> QED
      BY <3>1, BeatsKept
  <2>2. Performed(r.dots[d], d, t, r.cut)
    <3>1. PICK v, n : v = s.dots[d] /\ n = last
      OBVIOUS
    <3>2. v \in DotRecord /\ n \in Nat
      BY <1>0, <3>1, RecordFacts
    <3>3. Performed(Ticked(v, n), d, t, s.cut)
      BY <3>1 DEF FadesWell
    <3>4. /\ Ticked(v, n).made = v.made + n /\ Ticked(v, n).began = v.began
          /\ Ticked(v, n).period = v.period
      BY <3>2, TickedFacts
    <3>5. \A k : Beat(r.dots[d], k) = Beat(Ticked(v, n), k)
      BY <1>3, <1>8, <3>1, <3>4 DEF Beat
    <3> QED
      BY <1>3, <1>8, <3>3, <3>5 DEF Performed
  <2>3. d \notin r.active /\ r.dots[d].fade = t
    BY <1>3, <1>8
  <2> QED
    BY <2>1, <2>2, <2>3 DEF Beats
<1>12. Lasting(r, t, F)
  <2>1. \A e \in r.active : e # d /\ e \in s.active /\ e \in Dots
    BY <1>3, <1>8 DEF SharedType
  <2>2. \A e \in r.active : r.dots[e] = s.dots[e]
    BY <1>3, <1>8, <2>1
  <2> QED
    BY <2>1, <2>2 DEF Lasting
<1>13. Wakes(r, s, t)
  <2>1. Rotation \in Items \ {d}
    BY <1>0 DEF Items
  <2>2. d \in Channels => s.channel = d
    BY DEF Channelling
  <2> QED
    BY <1>0, <1>8, <2>1, <2>2 DEF Wakes
<1> QED
  BY <1>3, <1>6, <1>8, <1>9, <1>10, <1>11, <1>12, <1>13 DEF Sound

LEMMA WakesTwice ==
  ASSUME NEW s, NEW r, NEW v, NEW t, Wakes(r, s, t), Wakes(v, r, t)
  PROVE  Wakes(v, s, t)
BY DEF Wakes

LEMMA WakesStill ==
  ASSUME NEW s, NEW t
  PROVE  Wakes(s, s, t)
BY DEF Wakes

\* One tick more.
LEMMA BeatStep ==
  ASSUME NEW b \in Int, NEW m \in Int, NEW p \in Nat, p >= 1
  PROVE  /\ b + (m + 1) * p = (b + m * p) + p
         /\ b + (m + 1) * p > b + m * p
<1>1. (m + 1) * p = m * p + p
  OBVIOUS
<1>2. PICK q \in Int : q = m * p
  OBVIOUS
<1> QED
  BY <1>1, <1>2

\* The records after n ticks at the time of the next one.
LEMMA PerformedFacts ==
  ASSUME NEW v \in DotRecord, NEW d, NEW t \in Nat, NEW c, NEW n \in Nat,
         Beat(v, n) <= t \/ (d \in OwnEnding /\ Beat(v, n - 1) <= t),
         t < Beat(v, n + 1) \/ (t = Beat(v, n + 1) /\ d \in c)
  PROVE  Performed(Ticked(v, n), d, t, c)
<1>1. PICK b \in Nat, m \in Nat, p \in Nat : b = v.began /\ m = v.made /\ p = v.period /\ p >= 1
  BY DotRecordFacts
<1>2. PICK w : w = Ticked(v, n)
  OBVIOUS
<1>3. w.began = b /\ w.made = m + n /\ w.period = p
  BY <1>1, <1>2, TickedFacts
<1>4. /\ Beat(v, n) = b + (m + n) * p /\ Beat(v, n - 1) = b + (m + (n - 1)) * p
      /\ Beat(v, n + 1) = b + (m + (n + 1)) * p
  BY <1>1 DEF Beat
<1>5. /\ Beat(w, 0) = b + ((m + n) + 0) * p /\ Beat(w, -1) = b + ((m + n) + -1) * p
      /\ Beat(w, 1) = b + ((m + n) + 1) * p
  BY <1>3 DEF Beat
<1>6. (m + n) + 0 = m + n /\ (m + n) + -1 = m + (n - 1) /\ (m + n) + 1 = m + (n + 1)
  BY <1>1
<1>7. /\ Beat(w, 0) = Beat(v, n) /\ Beat(w, -1) = Beat(v, n - 1)
      /\ Beat(w, 1) = Beat(v, n + 1)
  BY <1>4, <1>5, <1>6
<1>8. Beat(v, n - 1) < Beat(v, n) /\ Beat(v, n) \in Int /\ Beat(v, n - 1) \in Int
  <2>1. PICK l \in Int : l = m + (n - 1)
    BY <1>1
  <2>2. l + 1 = m + n
    BY <1>1, <2>1
  <2>3. b + (l + 1) * p > b + l * p /\ b + (l + 1) * p \in Int /\ b + l * p \in Int
    BY <1>1, BeatStep
  <2> QED
    BY <1>4, <2>1, <2>2, <2>3
<1>9. /\ Beat(w, IF d \in OwnEnding THEN -1 ELSE 0) <= t
      /\ t < Beat(w, 1) \/ (t = Beat(w, 1) /\ d \in c)
  <2>1. CASE d \in OwnEnding
    BY <1>7, <1>8, <2>1
  <2>2. CASE d \notin OwnEnding
    BY <1>7, <2>2
  <2> QED
    BY <2>1, <2>2
<1> QED
  BY <1>2, <1>9 DEF Performed

\* An active dot may fade at any time.
LEMMA BeatFadesWell ==
  ASSUME NEW s \in SharedType, NEW t \in 0..FightEnd, NEW d \in s.active, OnBeat(s, d, t)
  PROVE  FadesWell(s, d, t)
<1>1. PICK v : v = s.dots[d]
  OBVIOUS
<1>2. v \in DotRecord /\ v.next \in Nat
  <2>1. d \in Dots
    BY DEF SharedType
  <2> QED
    BY <1>1, <2>1, RecordFacts
<1>3. Beat(v, 0) <= t /\ t <= v.next /\ v.next = Beat(v, 1)
  BY <1>1 DEF OnBeat
<1>4. t \in Nat /\ 1 \in Nat /\ 0 \in Nat
  OBVIOUS
<1>5. CASE v.next = t
  <2>1. t < Beat(v, 2)
    <3>1. PICK b \in Nat, m \in Nat, p \in Nat :
             b = v.began /\ m = v.made /\ p = v.period /\ p >= 1
      BY <1>2, DotRecordFacts
    <3>2. PICK l \in Int : l = m + 1
      BY <3>1
    <3>3. Beat(v, 1) = b + l * p /\ Beat(v, 2) = b + (l + 1) * p
      <4>1. m + 2 = l + 1
        BY <3>1, <3>2
      <4> QED
        BY <3>1, <3>2, <4>1 DEF Beat
    <3> QED
      BY <1>3, <1>5, <3>1, <3>3, BeatStep
  <2>2. Beat(v, 1) <= t
    BY <1>3, <1>4, <1>5
  <2>3. 1 + 1 = 2
    OBVIOUS
  <2>4. Performed(Ticked(v, 1), d, t, s.cut)
    BY <1>2, <1>4, <2>1, <2>2, <2>3, PerformedFacts
  <2> QED
    BY <1>1, <1>5, <2>4 DEF FadesWell
<1>6. CASE v.next # t
  <2>1. t < Beat(v, 1)
    BY <1>2, <1>3, <1>4, <1>6
  <2>2. 0 + 1 = 1
    OBVIOUS
  <2>3. Performed(Ticked(v, 0), d, t, s.cut)
    BY <1>2, <1>3, <1>4, <2>1, <2>2, PerformedFacts
  <2> QED
    BY <1>1, <1>6, <2>3 DEF FadesWell
<1> QED
  BY <1>5, <1>6

\* Deactivate on a sound state, active dot or not.
LEMMA DeactivateSound ==
  ASSUME NEW s, NEW t \in 0..FightEnd, NEW F, NEW X, Sound(s, t, F, X), NEW d \in Dots
  PROVE  LET r == Deactivate(s, d, t)
         IN  /\ Sound(r, t, F \ {d}, X) /\ Wakes(r, s, t)
             /\ r.active = s.active \ {d}
             /\ \A e \in Dots : e # d => r.dots[e] = s.dots[e]
<1>1. /\ s \in SharedType /\ InOrder(s, t, {}) /\ Ticking(s, X) /\ Channelling(s)
      /\ Beats(s, t, Dots) /\ Lasting(s, t, F)
  BY DEF Sound
<1>2. CASE d \notin s.active
  <2>1. Deactivate(s, d, t) = s
    BY <1>2 DEF Deactivate
  <2>2. Lasting(s, t, F \ {d})
    BY <1>1, <1>2 DEF Lasting
  <2>3. s.active = s.active \ {d}
    BY <1>2
  <2> QED
    BY <1>1, <2>1, <2>2, <2>3, WakesStill DEF Sound
<1>3. CASE d \in s.active
  <2>1. InOrder(s, t, {d})
    BY <1>1 DEF InOrder
  <2>2. Beats(s, t, Dots \ {d}) /\ OnBeat(s, d, t)
    BY <1>1, <1>3 DEF Beats
  <2>3. Lasting(s, t, (F \ {d}) \cup {d})
    BY <1>1 DEF Lasting
  <2>4. FadesWell(s, d, t)
    BY <1>1, <1>3, <2>2, BeatFadesWell
  <2> QED
    BY <1>1, <1>3, <2>1, <2>2, <2>3, <2>4, DeactivateFacts
<1> QED
  BY <1>2, <1>3

LEMMA WaitUntilSound ==
  ASSUME NEW s, NEW t \in 0..FightEnd, NEW F, NEW X, Sound(s, t, F, X),
         NEW u \in 0..Never, t <= u
  PROVE  LET r == WaitUntil(s, u)
         IN  /\ Sound(r, t, F, X)
             /\ r.active = s.active /\ r.dots = s.dots /\ r.channel = s.channel
             /\ r.cut = s.cut /\ r.wake = u /\ Rotation \in ToSet(r.agenda)
<1>1. /\ s \in SharedType /\ InOrder(s, t, {}) /\ Ticking(s, X) /\ Channelling(s)
      /\ Beats(s, t, Dots) /\ Lasting(s, t, F)
  BY DEF Sound
<1>2. PICK r : r = WaitUntil(s, u)
  OBVIOUS
<1>3. /\ r \in SharedType /\ InOrder(r, t, {})
      /\ ToSet(r.agenda) = ToSet(s.agenda) \cup {Rotation}
      /\ r.active = s.active /\ r.dots = s.dots /\ r.channel = s.channel
      /\ r.cut = s.cut /\ r.wake = u
  BY <1>1, <1>2, Later, WaitUntilFacts
<1>4. Ticking(r, X)
  BY <1>1, <1>3, DotFacts DEF Ticking
<1>5. Channelling(r) /\ Lasting(r, t, F)
  BY <1>1, <1>3 DEF Channelling, Lasting
<1>6. Beats(r, t, Dots)
  BY <1>1, <1>3, BeatsKept
<1> QED
  BY <1>2, <1>3, <1>4, <1>5, <1>6 DEF Sound

-----------------------------------------------------------------------------
(* A channel is interrupted, a dot is applied or prolonged.                *)

\* The channel is given up while its record may be one tick ahead of its timer.
LEMMA InterruptedFacts ==
  ASSUME NEW s \in SharedType, NEW t \in 0..FightEnd, NEW d \in s.active, NEW F, NEW X,
         d \in Channels,
         InOrder(s, t, {d}), Ticking(s, X), Channelling(s),
         Beats(s, t, Dots \ {d}), Lasting(s, t, F \cup {d}),
         Beat(s.dots[d], 0) <= t, t <= Beat(s.dots[d], 1)
  PROVE  LET r == Deactivate(Waived(s, d), d, t)
         IN  Sound(r, t, F, X) /\ Wakes(r, s, t) /\ r.channel = NoDot
<1>1. d \in Dots
  BY DEF SharedType
<1>2. PICK v : v = s.dots[d]
  OBVIOUS
<1>3. v \in DotRecord
  BY <1>1, <1>2, RecordFacts
<1>4. PICK w : w = [v EXCEPT !.next = Never]
  OBVIOUS
<1>5. /\ w \in DotRecord /\ w.next = Never /\ w.began = v.began /\ w.made = v.made
      /\ w.period = v.period
  <2>1. Never \in 0..Never
    BY DotFacts
  <2> QED
    BY <1>3, <1>4, <2>1 DEF DotRecord
<1>6. PICK a : a = Waived(s, d)
  OBVIOUS
<1>7. a = [s EXCEPT !.dots[d] = w, !.cut = s.cut \cup {d}]
  BY <1>1, <1>2, <1>4, <1>6 DEF Waived, SharedType
<1>8. /\ a \in SharedType /\ a.dots[d] = w /\ \A e \in Dots : e # d => a.dots[e] = s.dots[e]
      /\ a.active = s.active /\ a.agenda = s.agenda /\ a.wake = s.wake
      /\ a.channel = s.channel /\ a.cut = s.cut \cup {d}
  BY <1>1, <1>5, <1>7 DEF SharedType
<1>9. InOrder(a, t, {d})
  <2>1. \A y \in Items : y # d => At(a, y) = At(s, y)
    BY <1>8 DEF At, Items
  <2> QED
    BY <1>8, <2>1, OrderBut
<1>10. Ticking(a, X) /\ Channelling(a)
  BY <1>8 DEF Ticking, Channelling
<1>11. Beats(a, t, Dots \ {d})
  <2>1. \A e \in Dots \ {d} : /\ a.dots[e] = s.dots[e]
                              /\ e \in a.active <=> e \in s.active
                              /\ e \in a.cut <=> e \in s.cut
    BY <1>8
  <2> QED
    BY <2>1, BeatsKept
<1>12. Lasting(a, t, F \cup {d})
  <2>1. \A e \in a.active \ (F \cup {d}) : e \in Dots /\ e # d
    BY <1>8 DEF SharedType
  <2> QED
    BY <1>8, <2>1 DEF Lasting
<1>13. FadesWell(a, d, t)
  <2>1. a.dots[d] = w /\ w.next # t
    BY <1>5, <1>8, Later
  <2>2. Beat(w, 0) = Beat(v, 0) /\ Beat(w, 1) = Beat(v, 1)
    BY <1>5 DEF Beat
  <2>3. Beat(w, 0) <= t /\ (t < Beat(w, 1) \/ (t = Beat(w, 1) /\ d \in a.cut))
    <3>1. PICK x, y : x = Beat(v, 0) /\ y = Beat(v, 1)
      OBVIOUS
    <3>2. x <= t /\ t <= y
      BY <1>2, <3>1
    <3>3. y \in Int
      <4>1. v.began \in Nat /\ v.made \in Nat /\ v.period \in Nat
        BY <1>1, <1>2, RecordFacts
      <4> QED
        BY <3>1, <4>1 DEF Beat
    <3>4. t < y \/ t = y
      BY <3>2, <3>3
    <3> QED
      BY <1>8, <2>2, <3>1, <3>2, <3>4
  <2>4. 0 + 1 = 1 /\ t \in Nat /\ 0 \in Nat
    OBVIOUS
  <2>5. Performed(Ticked(w, 0), d, t, a.cut)
    BY <1>5, <2>3, <2>4, PerformedFacts
  <2> QED
    BY <2>1, <2>5 DEF FadesWell
<1>14. PICK r : r = Deactivate(a, d, t)
  OBVIOUS
<1>15. Sound(r, t, F, X) /\ Wakes(r, a, t) /\ r.active = a.active \ {d}
  BY <1>8, <1>9, <1>10, <1>11, <1>12, <1>13, <1>14, DeactivateFacts
<1>16. Wakes(r, s, t)
  BY <1>8, <1>15 DEF Wakes
<1>17. r.channel = NoDot
  <2>1. s.channel = d
    BY DEF Channelling
  <2>2. r.channel # d
    BY <1>15 DEF Sound, Channelling
  <2> QED
    BY <1>16, <2>1, <2>2 DEF Wakes
<1> QED
  BY <1>6, <1>14, <1>15, <1>16, <1>17

\* The channel of a sound state is given up.
LEMMA InterruptedSound ==
  ASSUME NEW s, NEW t \in 0..FightEnd, NEW X, Sound(s, t, {}, X), s.channel # NoDot
  PROVE  LET r == Deactivate(Waived(s, s.channel), s.channel, t)
         IN  Sound(r, t, {}, X) /\ Wakes(r, s, t) /\ r.channel = NoDot
<1>1. /\ s \in SharedType /\ InOrder(s, t, {}) /\ Ticking(s, X) /\ Channelling(s)
      /\ Beats(s, t, Dots) /\ Lasting(s, t, {})
  BY DEF Sound
<1>2. PICK d : d = s.channel
  OBVIOUS
<1>3. d \in Channels /\ d \in s.active /\ d \in Dots
  <2>1. s.channel \in Channels \cup {NoDot}
    BY <1>1 DEF SharedType
  <2>2. d \in Channels
    BY <1>2, <2>1
  <2> QED
    BY <1>1, <1>2, <2>2, DotFacts DEF Channelling
<1>4. InOrder(s, t, {d})
  BY <1>1 DEF InOrder
<1>5. Beats(s, t, Dots \ {d}) /\ OnBeat(s, d, t)
  BY <1>1, <1>3 DEF Beats
<1>6. Lasting(s, t, {} \cup {d})
  BY <1>1 DEF Lasting
<1>7. Beat(s.dots[d], 0) <= t /\ t <= Beat(s.dots[d], 1)
  BY <1>5 DEF OnBeat
<1> QED
  BY <1>1, <1>2, <1>3, <1>4, <1>5, <1>6, <1>7, InterruptedFacts

\* Interrupt: afterwards the rotation may wake up later once more.
LEMMA InterruptFacts ==
  ASSUME NEW s, NEW t \in 0..FightEnd, NEW X, NEW a,
         a = Deactivate(Waived(s, s.channel), s.channel, t),
         Sound(a, t, {}, X), Wakes(a, s, t), a.channel = NoDot
  PROVE  LET r == Interrupt(s, t)
         IN  Sound(r, t, {}, X) /\ Wakes(r, s, t) /\ r.channel = NoDot
<1>1. CASE gcd <= t
  <2>1. Interrupt(s, t) = WaitUntil(a, t + Clip)
    BY <1>1 DEF Interrupt
  <2>2. PICK r : r = WaitUntil(a, t + Clip)
    OBVIOUS
  <2>3. Sound(r, t, {}, X) /\ r.channel = a.channel /\ Rotation \in ToSet(r.agenda)
    BY <2>2, Later, WaitUntilSound
  <2>4. Wakes(r, s, t)
    BY <2>3 DEF Wakes
  <2> QED
    BY <2>1, <2>2, <2>3, <2>4
<1>2. CASE ~ (gcd <= t)
  BY <1>2 DEF Interrupt
<1> QED
  BY <1>1, <1>2

LEMMA TickCountFacts ==
  ASSUME NEW d, NEW p \in TickLengths
  PROVE  LET n == TickCount(d, p)
         IN  /\ n \in Nat /\ p * n \in Nat /\ p <= p * n
             /\ p * n <= 3 * BaseCount * BaseCount * BaseLength
<1>1. PICK c \in Nat, l \in Nat : c = BaseCount /\ l = BaseLength /\ c >= 1 /\ l >= 1
  BY DotFacts
<1>2. PICK a \in Nat : a = c * l
  BY <1>1
<1>3. 2 * BaseCount * BaseLength = 2 * a /\ 3 * BaseCount * BaseCount * BaseLength = 3 * (c * a)
  <2>1. 2 * c * l = 2 * (c * l)
    BY <1>1
  <2>2. 3 * c * c * l = 3 * (c * (c * l))
    BY <1>1
  <2> QED
    BY <1>1, <1>2, <2>1, <2>2
<1>4. p \in Nat /\ p >= 1 /\ p < 2 * a
  BY <1>2, <1>3 DEF TickLengths
<1>5. a <= c * a /\ c * a \in Nat
  BY <1>1, <1>2
<1>6. PICK n : n = TickCount(d, p)
  OBVIOUS
<1>7. n \in Nat /\ n >= 1 /\ p * n <= 3 * (c * a)
  <2>1. CASE d \notin Hasted \ Shrinking
    <3>1. n = c
      BY <1>1, <1>6, <2>1 DEF TickCount
    <3>2. p * c <= (2 * a) * c
      BY <1>1, <1>2, <1>4
    <3>3. (2 * a) * c = 2 * (c * a)
      BY <1>1, <1>2
    <3> QED
      BY <1>1, <1>4, <1>5, <3>1, <3>2, <3>3
  <2>2. CASE d \in Hasted \ Shrinking
    <3>1. PICK q \in Nat, m \in Nat : q = a \div p /\ m = a % p
      BY <1>2, <1>4
    <3>2. a = p * q + m /\ m < p
      BY <1>2, <1>4, <3>1
    <3>3. n = IF 2 * m > p \/ (2 * m = p /\ q % 2 = 1) THEN q + 1 ELSE q
      <4>1. n = Rounded(a, p)
        BY <1>1, <1>2, <1>6, <2>2 DEF TickCount
      <4> QED
        BY <3>1, <4>1 DEF Rounded
    <3>4. n >= 1
      <4>1. CASE q = 0
        <5>1. p * q = 0
          BY <1>4, <4>1
        <5>2. 2 * m > p
          BY <1>2, <1>4, <3>1, <3>2, <5>1
        <5> QED
          BY <3>3, <4>1, <5>2
      <4>2. CASE q >= 1
        BY <3>1, <3>3, <4>2
      <4> QED
        BY <3>1, <4>1, <4>2
    <3>5. p * (q + 1) = p * q + p /\ p * q \in Nat
      BY <1>4, <3>1
    <3>6. p * q <= a
      BY <3>1, <3>2, <3>5
    <3>7. p * n <= a + p
      BY <1>4, <3>3, <3>5, <3>6
    <3>8. n \in Nat /\ p * n \in Nat
      BY <1>4, <3>1, <3>3
    <3> QED
      BY <1>2, <1>4, <1>5, <3>4, <3>7, <3>8
  <2> QED
    BY <2>1, <2>2
<1>8. p * n \in Nat /\ p <= p * n
  BY <1>4, <1>7
<1> QED
  BY <1>3, <1>6, <1>7, <1>8

\* The record of a dot that is applied or prolonged.
LEMMA DurationFacts ==
  ASSUME NEW d, NEW p \in TickLengths, NEW t \in 0..FightEnd
  PROVE  /\ t + p * TickCount(d, p) \in 0..Never /\ t < t + p * TickCount(d, p)
         /\ t + p \in 0..Never /\ t < t + p
<1>1. PICK x : x = p * TickCount(d, p)
  OBVIOUS
<1>2. PICK b \in Nat : b = 3 * BaseCount * BaseCount * BaseLength
  BY DotFacts
<1>3. x \in Nat /\ p <= x /\ x <= b /\ p \in Nat /\ p >= 1
  BY <1>1, <1>2, DotFacts, TickCountFacts
<1>4. FightEnd + b + GCD + Reaction + Clip < Never
  BY <1>2, DotAssumption
<1> QED
  BY <1>1, <1>3, <1>4, DotFacts

LEMMA GainedFacts ==
  ASSUME NEW s \in SharedType, NEW d \in Dots, NEW p \in TickLengths, NEW t \in 0..FightEnd
  PROVE  LET r == Gained(s, d, p, t)
         IN  /\ r \in SharedType /\ r.active = s.active \cup {d} /\ r.cut = s.cut \ {d}
             /\ r.agenda = s.agenda /\ r.wake = s.wake /\ r.channel = s.channel
             /\ \A e \in Dots : e # d => r.dots[e] = s.dots[e]
             /\ r.dots[d].next = t + p
             /\ OnBeat(r, d, t) /\ t < r.dots[d].expires
<1>1. PICK n : n = TickCount(d, p)
  OBVIOUS
<1>2. n \in Nat /\ p * n \in Nat /\ p \in Nat
  BY <1>1, DotFacts, TickCountFacts
<1>3. PICK f : f = s.dots[d].fade
  OBVIOUS
<1>4. f \in 0..FightEnd
  <2>1. s.dots[d] \in DotRecord
    BY RecordFacts
  <2> QED
    BY <1>3, <2>1 DEF DotRecord
<1>5. PICK v : v = [expires |-> t + p * n, period |-> p, remaining |-> n,
                    next |-> t + p, began |-> t, fade |-> f, made |-> 0]
  OBVIOUS
<1>6. PICK x, y : x = t + p * n /\ y = t + p
  OBVIOUS
<1>7. x \in 0..Never /\ y \in 0..Never /\ t < x /\ t < y
  BY <1>1, <1>6, DurationFacts
<1>8. /\ v \in DotRecord /\ v.expires = x /\ v.period = p /\ v.remaining = n /\ v.next = y
      /\ v.began = t /\ v.made = 0
  <2>1. v = [expires |-> x, period |-> p, remaining |-> n,
             next |-> y, began |-> t, fade |-> f, made |-> 0]
    BY <1>5, <1>6
  <2> QED
    BY <1>2, <1>4, <1>7, <2>1 DEF DotRecord
<1>9. PICK r : r = Gained(s, d, p, t)
  OBVIOUS
<1>10. r = [s EXCEPT !.active = s.active \cup {d}, !.cut = s.cut \ {d}, !.dots[d] = v]
  BY <1>1, <1>3, <1>5, <1>9 DEF Gained, SharedType
<1>11. /\ r \in SharedType /\ r.active = s.active \cup {d} /\ r.cut = s.cut \ {d}
       /\ r.agenda = s.agenda /\ r.wake = s.wake /\ r.channel = s.channel
       /\ \A e \in Dots : e # d => r.dots[e] = s.dots[e]
       /\ r.dots[d] = v
  BY <1>8, <1>10 DEF SharedType
<1>12. OnBeat(r, d, t)
  <2>1. Beat(v, 0) = t + (0 + 0) * p /\ Beat(v, 1) = t + (0 + 1) * p
        /\ Beat(v, n) = t + (0 + n) * p
    BY <1>8 DEF Beat
  <2>2. t + (0 + 0) * p = t /\ t + (0 + 1) * p = t + p /\ t + (0 + n) * p = t + p * n
    BY <1>2
  <2>3. Beat(v, 0) <= t /\ t <= y /\ y = Beat(v, 1) /\ x = Beat(v, n)
    BY <1>6, <1>7, <2>1, <2>2
  <2> QED
    BY <1>8, <1>11, <2>3 DEF OnBeat
<1> QED
  BY <1>6, <1>7, <1>8, <1>9, <1>11, <1>12

\* Apply.  A channel begins only when there is none.
LEMMA ApplySound ==
  ASSUME NEW s, NEW t \in 0..FightEnd, NEW X, Sound(s, t, {}, X),
         NEW d \in Dots, d \notin X, d \in Channels => s.channel = NoDot,
         NEW p \in TickLengths
  PROVE  LET r == Apply(s, d, p, t)
         IN  /\ Sound(r, t, {}, X)
             /\ Rotation \in ToSet(s.agenda) => Rotation \in ToSet(r.agenda)
             /\ d \notin Channels => Wakes(r, s, t)
             /\ d \in Channels => r.wake = s.wake
<1>1. PICK a : a = Deactivate(s, d, t)
  OBVIOUS
<1>2. Sound(a, t, {}, X) /\ Wakes(a, s, t) /\ a.active = s.active \ {d}
  <2>1. {} \ {d} = {}
    OBVIOUS
  <2> QED
    BY <1>1, <2>1, DeactivateSound
<1>3. /\ a \in SharedType /\ InOrder(a, t, {}) /\ Ticking(a, X) /\ Channelling(a)
      /\ Beats(a, t, Dots) /\ Lasting(a, t, {})
  BY <1>2 DEF Sound
<1>4. PICK g : g = Gained(a, d, p, t)
  OBVIOUS
<1>5. /\ g \in SharedType /\ g.active = a.active \cup {d} /\ g.cut = a.cut \ {d}
      /\ g.agenda = a.agenda /\ g.wake = a.wake /\ g.channel = a.channel
      /\ \A e \in Dots : e # d => g.dots[e] = a.dots[e]
      /\ g.dots[d].next = t + p
      /\ OnBeat(g, d, t) /\ t < g.dots[d].expires
  BY <1>3, <1>4, GainedFacts
<1>6. PICK h : h = [g EXCEPT !.channel = IF d \in Channels THEN d ELSE @]
  OBVIOUS
<1>7. /\ h \in SharedType /\ h.channel = (IF d \in Channels THEN d ELSE g.channel)
      /\ h.active = g.active /\ h.cut = g.cut /\ h.agenda = g.agenda /\ h.wake = g.wake
      /\ h.dots = g.dots
  BY <1>5, <1>6 DEF SharedType
<1>8. d \notin ToSet(h.agenda) /\ d \in Items /\ At(h, d) = t + p
  BY <1>2, <1>3, <1>5, <1>7, DotFacts DEF Ticking, Items, At
<1>9. InOrder(h, t, {})
  <2>1. \A y \in Items : y # d => At(h, y) = At(a, y)
    BY <1>5, <1>7 DEF At, Items
  <2>2. \A i \in 1..Len(h.agenda) : h.agenda[i] \in Items /\ h.agenda[i] # d
    <3>1. h.agenda \in Seq(Items)
      BY <1>7 DEF SharedType
    <3> QED
      BY <1>8, <3>1, LenProperties DEF ToSet
  <2>3. \A i \in 1..Len(h.agenda) : At(h, h.agenda[i]) = At(a, h.agenda[i])
    BY <2>1, <2>2
  <2> QED
    BY <1>3, <1>5, <1>7, <2>3 DEF InOrder
<1>10. PICK r : r = Enqueue(h, d)
  OBVIOUS
<1>11. /\ r \in SharedType /\ SameBut(r, h) /\ ToSet(r.agenda) = ToSet(a.agenda) \cup {d}
       /\ InOrder(r, t, {})
  <2>1. t <= At(h, d) /\ t \in Int
    BY <1>8, DurationFacts
  <2> QED
    BY <1>5, <1>7, <1>8, <1>9, <1>10, <2>1, EnqueueFacts
<1>12. r = Apply(s, d, p, t)
  BY <1>1, <1>4, <1>6, <1>10 DEF Apply
<1>13. Ticking(r, X)
  BY <1>3, <1>5, <1>7, <1>11 DEF Ticking, SameBut
<1>14. Channelling(r)
  <2>1. CASE d \in Channels
    <3>1. a.channel = NoDot
      BY <1>2, <2>1 DEF Wakes
    <3>2. \A e \in Channels : e \notin a.active
      BY <1>3, <3>1, DotFacts DEF Channelling
    <3>3. r.channel = d /\ r.active = a.active \cup {d}
      BY <1>5, <1>7, <1>11, <2>1 DEF SameBut
    <3> QED
      BY <3>2, <3>3 DEF Channelling
  <2>2. CASE d \notin Channels
    <3>1. r.channel = a.channel /\ r.active = a.active \cup {d}
      BY <1>5, <1>7, <1>11, <2>2 DEF SameBut
    <3> QED
      BY <1>3, <2>2, <3>1 DEF Channelling
  <2> QED
    BY <2>1, <2>2
<1>15. Beats(r, t, Dots)
  <2>1. Beats(a, t, Dots \ {d})
    BY <1>3 DEF Beats
  <2>2. \A e \in Dots \ {d} : /\ r.dots[e] = a.dots[e]
                              /\ e \in r.active <=> e \in a.active
                              /\ e \in r.cut <=> e \in a.cut
    BY <1>5, <1>7, <1>11 DEF SameBut
  <2>3. Beats(r, t, Dots \ {d})
    BY <2>1, <2>2, BeatsKept
  <2>4. d \in r.active /\ OnBeat(r, d, t)
    <3>1. r.dots = g.dots /\ d \in r.active
      BY <1>5, <1>7, <1>11 DEF SameBut
    <3> QED
      BY <1>5, <3>1 DEF OnBeat
  <2> QED
    BY <2>3, <2>4 DEF Beats
<1>16. Lasting(r, t, {})
  <2>1. r.active = a.active \cup {d} /\ r.dots = g.dots /\ a.active \subseteq Dots
    BY <1>3, <1>5, <1>7, <1>11 DEF SameBut, SharedType
  <2> QED
    BY <1>3, <1>5, <2>1 DEF Lasting
<1>17. /\ r.wake = a.wake /\ (d \notin Channels => r.channel = a.channel)
       /\ (Rotation \in ToSet(r.agenda) <=> Rotation \in ToSet(a.agenda))
  BY <1>5, <1>7, <1>11, DotFacts DEF SameBut
<1>18. d \in Channels => a = s
  <2>1. s.channel = NoDot => d \notin Channels \/ d \notin s.active
    BY DotFacts DEF Sound, Channelling
  <2> QED
    BY <1>1, <2>1 DEF Deactivate
<1>19. Rotation \in ToSet(s.agenda) => Rotation \in ToSet(r.agenda)
  BY <1>2, <1>17 DEF Wakes
<1>20. d \notin Channels => Wakes(r, s, t)
  BY <1>2, <1>17 DEF Wakes
<1>21. d \in Channels => r.wake = s.wake
  BY <1>17, <1>18
<1>22. Sound(r, t, {}, X)
  BY <1>11, <1>13, <1>14, <1>15, <1>16 DEF Sound
<1> QED
  BY <1>12, <1>19, <1>20, <1>21, <1>22

\* Refresh of a dot that lasts.
LEMMA RefreshSound ==
  ASSUME NEW s, NEW t \in 0..FightEnd, NEW X, Sound(s, t, {}, X),
         NEW d \in s.active, d \notin Channels
  PROVE  LET r == Refresh(s, d, t)
         IN  Sound(r, t, {}, X) /\ Wakes(r, s, t)
<1>1. /\ s \in SharedType /\ InOrder(s, t, {}) /\ Ticking(s, X) /\ Channelling(s)
      /\ Beats(s, t, Dots) /\ Lasting(s, t, {})
  BY DEF Sound
<1>2. d \in Dots
  BY <1>1 DEF SharedType
<1>3. PICK v : v = s.dots[d]
  OBVIOUS
<1>4. v \in DotRecord /\ v.period \in TickLengths
  <2>1. v \in DotRecord
    BY <1>1, <1>2, <1>3, RecordFacts
  <2> QED
    BY <2>1 DEF DotRecord
<1>5. PICK x : x = t + v.period * TickCount(d, v.period)
  OBVIOUS
<1>6. x \in 0..Never /\ t < x
  <2>1. PICK p : p = v.period
    OBVIOUS
  <2> QED
    BY <1>4, <1>5, <2>1, DurationFacts
<1>7. PICK w : w = [v EXCEPT !.expires = x]
  OBVIOUS
<1>8. /\ w \in DotRecord /\ w.expires = x /\ w.period = v.period /\ w.next = v.next
      /\ w.began = v.began /\ w.made = v.made
  BY <1>4, <1>6, <1>7 DEF DotRecord
<1>9. PICK r : r = Refresh(s, d, t)
  OBVIOUS
<1>10. r = [s EXCEPT !.dots[d] = w]
  <2>1. r = [s EXCEPT !.dots[d].expires = x]
    BY <1>3, <1>5, <1>9 DEF Refresh
  <2> QED
    BY <1>1, <1>2, <1>3, <1>7, <2>1 DEF SharedType
<1>11. /\ r \in SharedType /\ r.dots[d] = w /\ \A e \in Dots : e # d => r.dots[e] = s.dots[e]
       /\ r.active = s.active /\ r.agenda = s.agenda /\ r.wake = s.wake
       /\ r.channel = s.channel /\ r.cut = s.cut
  BY <1>1, <1>2, <1>8, <1>10, WithDot
<1>12. InOrder(r, t, {})
  <2>1. \A y \in Items : At(r, y) = At(s, y)
    BY <1>3, <1>8, <1>11 DEF At, Items
  <2>2. s.agenda \in Seq(Items)
    BY <1>1 DEF SharedType
  <2>3. \A i \in 1..Len(s.agenda) : At(r, s.agenda[i]) = At(s, s.agenda[i])
    BY <2>1, <2>2, LenProperties
  <2> QED
    BY <1>1, <1>11, <2>3 DEF InOrder
<1>13. Ticking(r, X) /\ Channelling(r)
  BY <1>1, <1>11 DEF Ticking, Channelling
<1>14. Beats(r, t, Dots)
  <2>1. Beats(s, t, Dots \ {d}) /\ OnBeat(s, d, t)
    BY <1>1, <1>2 DEF Beats
  <2>2. Beats(r, t, Dots \ {d})
    BY <1>11, <2>1, BeatsKept
  <2>3. OnBeat(r, d, t)
    <3>1. \A k : Beat(w, k) = Beat(v, k)
      BY <1>8 DEF Beat
    <3> QED
      BY <1>3, <1>8, <1>11, <2>1, <3>1 DEF OnBeat
  <2> QED
    BY <1>11, <2>2, <2>3 DEF Beats
<1>15. Lasting(r, t, {})
  <2>1. s.active \subseteq Dots
    BY <1>1 DEF SharedType
  <2> QED
    BY <1>1, <1>6, <1>8, <1>11, <2>1 DEF Lasting
<1>16. Wakes(r, s, t)
  BY <1>11 DEF Wakes
<1> QED
  BY <1>9, <1>11, <1>12, <1>13, <1>14, <1>15, <1>16 DEF Sound

-----------------------------------------------------------------------------
(* Time passes, and every aura that is due fades.                          *)

\* advance.
LEMMA AdvanceSound ==
  ASSUME NEW s, NEW t \in 0..FightEnd, NEW X,
         Sound(s, t, {d \in s.active : s.dots[d].expires <= t}, X)
  PROVE  LET r == Advance(s, t)
         IN  /\ Sound(r, t, {}, X) /\ Wakes(r, s, t)
             /\ \A e \in r.active : r.dots[e] = s.dots[e]
<1> DEFINE D == {d \in s.active : s.dots[d].expires <= t}
<1>1. D \subseteq Dots /\ IsFiniteSet(D)
  <2>1. D \subseteq Dots
    BY DEF Sound, SharedType
  <2> QED
    BY <2>1, DotFacts, FS_Subset
<1>2. PICK q : q = SetToSeq(D)
  OBVIOUS
<1>3. q \in Seq(D) /\ ToSet(q) = D
  <2> HIDE DEF D
  <2> QED
    BY <1>1, <1>2, SetToSeqFacts
<1>4. PICK n \in Nat : n = Len(q) /\ DOMAIN q = 1..n
  BY <1>3, LenProperties
<1>5. \A i \in 1..n : q[i] \in Dots
  BY <1>1, <1>3, <1>4, ElementOfSeq
<1> DEFINE step(r, i) == IF i = 0 THEN s ELSE Deactivate(r[i - 1], q[i], t)
           f == CHOOSE r : r = [i \in 0..Len(q) |-> step(r, i)]
           upto(r, m) == \A i \in 0..m : r[i] = step(r, i)
           A == {m \in Nat : \E r : r = [i \in 0..n |-> r[i]] /\ upto(r, m)}
<1>6. 0 \in A
  <2>1. PICK r : r = [i \in 0..n |-> s]
    OBVIOUS
  <2>2. r = [i \in 0..n |-> r[i]] /\ r[0] = s
    BY <2>1
  <2> QED
    BY <2>2
<1>7. ASSUME NEW m \in 1..n, m - 1 \in A PROVE m \in A
  <2>1. PICK r : r = [i \in 0..n |-> r[i]] /\ upto(r, m - 1)
    BY <1>7
  <2>2. m \in 0..n /\ m - 1 \in 0..n /\ m \in Nat /\ m # 0
    OBVIOUS
  <2>3. PICK y : y = Deactivate(r[m - 1], q[m], t)
    OBVIOUS
  <2>4. PICK g : g = [i \in 0..n |-> IF i = m THEN y ELSE r[i]]
    OBVIOUS
  <2>5. g = [i \in 0..n |-> g[i]] /\ g[m] = y /\ \A i \in 0..n : i # m => g[i] = r[i]
    BY <2>2, <2>4
  <2>6. upto(g, m)
    <3> SUFFICES ASSUME NEW i \in 0..m PROVE g[i] = step(g, i)
      OBVIOUS
    <3>1. CASE i = m
      BY <2>2, <2>3, <2>5, <3>1
    <3>2. CASE i # m
      <4>1. i \in 0..(m - 1) /\ i \in 0..n /\ (i # 0 => i - 1 \in 0..n /\ i - 1 # m)
        BY <2>2, <3>2
      <4> QED
        BY <2>1, <2>5, <3>2, <4>1
    <3> QED
      BY <3>1, <3>2
  <2> QED
    BY <2>2, <2>5, <2>6
<1>8. n \in A
  <2> HIDE DEF A
  <2> QED
    BY <1>6, <1>7, CountUp
<1>9. PICK r : r = [i \in 0..n |-> r[i]] /\ upto(r, n)
  BY <1>8
<1>10. r = [i \in 0..Len(q) |-> step(r, i)]
  BY <1>4, <1>9
<1>11. f = [i \in 0..Len(q) |-> step(f, i)]
  <2> HIDE DEF step
  <2> QED
    BY <1>10
<1>12. Advance(s, t) = f[n]
  BY <1>2, <1>4 DEF Advance
<1> HIDE DEF f
<1>13. \A i \in 0..n : f[i] = step(f, i)
  BY <1>4, <1>11
\* After i auras have faded.
<1> DEFINE left(i) == D \ {q[j] : j \in 1..i}
           B == {i \in Nat : /\ Sound(f[i], t, left(i), X) /\ Wakes(f[i], s, t)
                             /\ f[i].active \subseteq s.active
                             /\ \A e \in f[i].active : f[i].dots[e] = s.dots[e]}
<1>14. 0 \in B
  <2>1. f[0] = s
    BY <1>13
  <2>2. left(0) = D
    OBVIOUS
  <2> HIDE DEF D, left
  <2>3. Sound(f[0], t, left(0), X)
    BY <2>1, <2>2 DEF D
  <2> QED
    BY <2>1, <2>3, WakesStill
<1>15. ASSUME NEW i \in 1..n, i - 1 \in B PROVE i \in B
  <2>1. i \in 0..n /\ i \in Nat /\ i # 0 /\ q[i] \in Dots
    BY <1>5
  <2>2. PICK a, b, d : a = f[i - 1] /\ b = f[i] /\ d = q[i]
    OBVIOUS
  <2>3. b = Deactivate(a, d, t) /\ d \in Dots
    BY <1>13, <2>1, <2>2
  <2>4. /\ Sound(a, t, left(i - 1), X) /\ Wakes(a, s, t) /\ a.active \subseteq s.active
        /\ \A e \in a.active : a.dots[e] = s.dots[e]
    BY <1>15, <2>2
  <2>5. left(i - 1) \ {d} = left(i)
    <3>1. \A j : j \in 1..i <=> j \in 1..(i - 1) \/ j = i
      BY <2>1
    <3> QED
      BY <2>2, <3>1
  <2> HIDE DEF left
  <2>6. /\ Sound(b, t, left(i), X) /\ Wakes(b, a, t) /\ b.active = a.active \ {d}
        /\ \A e \in Dots : e # d => b.dots[e] = a.dots[e]
    <3>1. PICK F : F = left(i - 1)
      OBVIOUS
    <3>2. Sound(a, t, F, X)
      BY <2>4, <3>1
    <3>3. /\ Sound(b, t, F \ {d}, X) /\ Wakes(b, a, t) /\ b.active = a.active \ {d}
          /\ \A e \in Dots : e # d => b.dots[e] = a.dots[e]
      BY <2>3, <3>2, DeactivateSound
    <3> QED
      BY <2>5, <3>1, <3>3
  <2>7. Wakes(b, s, t)
    BY <2>4, <2>6, WakesTwice
  <2>8. a.active \subseteq Dots
    BY <2>4 DEF Sound, SharedType
  <2> QED
    BY <2>1, <2>2, <2>4, <2>6, <2>7, <2>8
<1>16. n \in B
  <2> HIDE DEF B
  <2> QED
    BY <1>14, <1>15, CountUp
<1>17. left(n) = {}
  BY <1>3, <1>4 DEF ToSet
<1> HIDE DEF left
<1> QED
  BY <1>12, <1>16, <1>17

\* Until the next action of the agenda the dots stay on their beats.
LEMMA SoundLater ==
  ASSUME NEW s, NEW c \in 0..FightEnd, NEW t \in 0..FightEnd, c <= t, NEW X, Sound(s, c, {}, X),
         \A i \in DOMAIN s.agenda : t <= At(s, s.agenda[i]),
         \A d \in s.active : d \in X => t <= s.dots[d].next
  PROVE  Sound(s, t, {d \in s.active : s.dots[d].expires <= t}, X)
<1>1. /\ s \in SharedType /\ InOrder(s, c, {}) /\ Ticking(s, X) /\ Channelling(s)
      /\ Beats(s, c, Dots) /\ Lasting(s, c, {})
  BY DEF Sound
<1>2. s.agenda \in Seq(Items) /\ s.active \subseteq Dots
  BY <1>1 DEF SharedType
<1>3. InOrder(s, t, {})
  <2>1. DOMAIN s.agenda = 1..Len(s.agenda)
    BY <1>2, LenProperties
  <2> QED
    BY <1>1, <2>1 DEF InOrder
<1>4. ASSUME NEW d \in s.active PROVE OnBeat(s, d, t)
  <2>1. OnBeat(s, d, c) /\ d \in Dots
    BY <1>1, <1>2 DEF Beats
  <2>2. t <= s.dots[d].next
    <3>1. CASE d \in X
      BY <3>1
    <3>2. CASE d \notin X
      <4>1. d \in ToSet(s.agenda)
        BY <1>1, <2>1, <3>2 DEF Ticking
      <4>2. PICK i \in DOMAIN s.agenda : s.agenda[i] = d
        BY <4>1 DEF ToSet
      <4> QED
        BY <2>1, <4>2, DotFacts DEF At
    <3> QED
      BY <3>1, <3>2
  <2>3. Beat(s.dots[d], 0) <= t
    <3>1. PICK x : x = Beat(s.dots[d], 0)
      OBVIOUS
    <3>2. x \in Int
      BY <1>1, <2>1, <3>1, RecordFacts DEF Beat
    <3>3. x <= c
      BY <2>1, <3>1 DEF OnBeat
    <3> QED
      BY <3>1, <3>2, <3>3
  <2> QED
    BY <2>1, <2>2, <2>3 DEF OnBeat
<1>5. Beats(s, t, Dots)
  BY <1>1, <1>4 DEF Beats
<1>6. Lasting(s, t, {d \in s.active : s.dots[d].expires <= t})
  <2> SUFFICES ASSUME NEW d \in s.active, ~ (s.dots[d].expires <= t) PROVE t < s.dots[d].expires
    BY DEF Lasting
  <2>1. s.dots[d].expires \in Nat
    BY <1>1, <1>2, RecordFacts
  <2> QED
    BY <2>1
<1> QED
  BY <1>1, <1>3, <1>5, <1>6 DEF Sound

-----------------------------------------------------------------------------
(* The invariant.                                                          *)

LEMMA Becomes ==
  ASSUME NEW r \in SharedType, Become(r)
  PROVE  Shared' = r
<1>1. r = [active |-> r.active, dots |-> r.dots, agenda |-> r.agenda, wake |-> r.wake,
           channel |-> r.channel, cut |-> r.cut]
  BY DEF SharedType
<1> QED
  BY <1>1 DEF Become, Shared

LEMMA SharedIs ==
  /\ Shared.active = active /\ Shared.dots = dots /\ Shared.agenda = agenda
  /\ Shared.wake = wake /\ Shared.channel = channel /\ Shared.cut = cut
BY DEF Shared

\* A step to r keeps the invariant.
LEMMA DotInvNext ==
  ASSUME NEW r, Become(r), Sound(r, clock', {}, {acting'}),
         clock' \in 0..FightEnd, gcd' \in 0..Never, acting' \in Items \cup {Event, Idle},
         disturbed' \in BOOLEAN,
         acting' \in Dots => acting' \in r.active /\ r.dots[acting'].next = clock',
         Wakeful'
  PROVE  DotInv'
<1>1. Shared' = r
  BY Becomes DEF Sound
<1>2. active' = r.active /\ dots' = r.dots
  BY DEF Become
<1> QED
  BY <1>1, <1>2 DEF DotInv

\* What does not count as being performed.
LEMMA SoundWithout ==
  ASSUME NEW s, NEW t, NEW F, NEW X, NEW Y, Sound(s, t, F, X),
         \A d \in Dots : d \in s.active => (d \in X <=> d \in Y)
  PROVE  Sound(s, t, F, Y)
BY DEF Sound, Ticking

\* The rotation keeps its wake-up in a step that it does not take.
LEMMA WakefulKept ==
  ASSUME Wakeful, acting # Rotation, acting' # Rotation, NEW r, Become(r),
         Wakes(r, Shared, clock'), clock \in Int, clock' \in Int, clock <= clock',
         gcd \in Int, gcd' = gcd, disturbed' = disturbed
  PROVE  Wakeful'
<1>1. /\ r.agenda = agenda' /\ r.wake = wake' /\ r.channel = channel'
  BY DEF Become
<1>2. /\ Rotation \in ToSet(agenda) => Rotation \in ToSet(agenda')
      /\ wake' # wake => Rotation \in ToSet(agenda')
      /\ channel' # channel => channel' = NoDot /\ (gcd <= clock' => Rotation \in ToSet(agenda'))
      /\ channel' # NoDot => wake' = wake
  BY <1>1, SharedIs DEF Wakes
<1>3. ASSUME ~disturbed
      PROVE  /\ Rotation \in ToSet(agenda') \/ (channel' # NoDot /\ gcd' <= clock')
             /\ channel' # NoDot => gcd' <= wake'
  <2>1. /\ Rotation \in ToSet(agenda) \/ (channel # NoDot /\ gcd <= clock)
        /\ channel # NoDot => gcd <= wake
    BY <1>3, Zenon DEF Wakeful
  <2> QED
    BY <1>2, <2>1
<1> QED
  BY <1>3, Zenon DEF Wakeful

LEMMA InvFacts ==
  ASSUME DotInv
  PROVE  /\ clock \in 0..FightEnd /\ clock \in Int /\ gcd \in 0..Never /\ gcd \in Int
         /\ Sound(Shared, clock, {}, {acting}) /\ Shared \in SharedType
         /\ acting \in Dots => acting \in active /\ dots[acting].next = clock
         /\ wake \in 0..Never /\ wake \in Int
<1>1. Sound(Shared, clock, {}, {acting})
  BY DEF DotInv
<1>2. Shared \in SharedType
  BY <1>1 DEF Sound
<1>3. wake \in 0..Never
  BY <1>2, SharedIs DEF SharedType
<1> QED
  BY <1>1, <1>2, <1>3 DEF DotInv

LEMMA DotInvInit ==
  ASSUME DotInit
  PROVE  DotInv
<1>1. PICK v : v = [expires |-> 0, period |-> BaseLength, remaining |-> BaseCount,
                    next |-> 0, began |-> 0, fade |-> 0, made |-> 0]
  OBVIOUS
<1>2. v \in DotRecord /\ v.began = 0 /\ v.made = 0 /\ v.period = BaseLength /\ v.fade = 0
  BY <1>1, DotFacts DEF DotRecord
<1>3. dots = [d \in Dots |-> v]
  BY <1>1 DEF DotInit
<1>4. Shared \in SharedType
  <2>1. agenda \in Seq(Items)
    BY DEF DotInit, Items
  <2>2. wake \in 0..Never /\ active \in SUBSET Dots /\ cut \in SUBSET Dots
        /\ channel \in Channels \cup {NoDot}
    BY DotFacts DEF DotInit
  <2>3. dots \in [Dots -> DotRecord]
    BY <1>2, <1>3
  <2> QED
    BY <2>1, <2>2, <2>3 DEF Shared, SharedType
<1>5. InOrder(Shared, 0, {})
  <2>1. Shared.agenda = <<Rotation>> /\ Shared.wake = 0
    BY SharedIs DEF DotInit
  <2>2. Len(<<Rotation>>) = 1 /\ <<Rotation>>[1] = Rotation
    OBVIOUS
  <2>3. At(Shared, Rotation) = 0
    BY <2>1 DEF At
  <2> QED
    BY <2>1, <2>2, <2>3 DEF InOrder, Distinct
<1>6. ToSet(agenda) = {Rotation}
  BY DEF DotInit, ToSet
<1>7. Ticking(Shared, {acting}) /\ Channelling(Shared) /\ Lasting(Shared, 0, {})
  BY <1>6, SharedIs, DotFacts DEF DotInit, Ticking, Channelling, Lasting
<1>8. Beats(Shared, 0, Dots)
  <2> SUFFICES ASSUME NEW d \in Dots PROVE Performed(v, d, 0, cut)
    BY <1>2, <1>3, SharedIs DEF Beats, DotInit
  <2>1. PICK p \in Nat : p = BaseLength /\ p >= 1
    BY DotFacts
  <2>2. Beat(v, 0) = 0 + (0 + 0) * p /\ Beat(v, -1) = 0 + (0 + -1) * p
        /\ Beat(v, 1) = 0 + (0 + 1) * p
    BY <1>2, <2>1 DEF Beat
  <2>3. Beat(v, 0) <= 0 /\ Beat(v, -1) <= 0 /\ 0 < Beat(v, 1)
    BY <2>1, <2>2
  <2> QED
    BY <2>3 DEF Performed
<1>9. Sound(Shared, clock, {}, {acting})
  <2>1. clock = 0
    BY DEF DotInit
  <2> QED
    BY <1>4, <1>5, <1>7, <1>8, <2>1 DEF Sound
<1>10. Wakeful
  <2>1. acting # Rotation /\ channel = NoDot
    BY DotFacts DEF DotInit, Items
  <2> QED
    BY <1>6, <2>1, Zenon DEF Wakeful
<1>11. clock \in 0..FightEnd /\ gcd \in 0..Never /\ acting \in Items \cup {Event, Idle}
       /\ acting \notin Dots
  BY DotFacts DEF DotInit, Items
<1>12. disturbed \in BOOLEAN
  BY Zenon DEF DotInit
<1> QED
  BY <1>9, <1>10, <1>11, <1>12 DEF DotInv

\* What the agenda is for.
LEMMA PopKeeps ==
  ASSUME DotInv, PopAction
  PROVE  DotInv'
<1> DEFINE x == Head(agenda)
           t == At(Shared, x)
           s == [Shared EXCEPT !.agenda = Tail(@)]
           r == IF t > clock THEN Advance(s, t) ELSE s
<1>1. /\ acting = Idle /\ agenda # <<>> /\ t <= FightEnd /\ clock' = t /\ Become(r)
      /\ acting' = IF x = Rotation \/ x \in r.active THEN x ELSE Idle
  BY DEF PopAction
<1>2. gcd' = gcd
  BY DEF PopAction
<1>3. disturbed' = disturbed
  BY Zenon DEF PopAction
<1>4. /\ agenda \in Seq(Items) /\ x \in Items /\ Tail(agenda) \in Seq(Items)
      /\ Len(agenda) \in Nat /\ Len(agenda) >= 1 /\ Len(Tail(agenda)) = Len(agenda) - 1
      /\ \A i \in 1..Len(agenda) - 1 : Tail(agenda)[i] = agenda[i + 1]
      /\ x = agenda[1]
  <2>1. agenda \in Seq(Items)
    BY InvFacts, SharedIs DEF SharedType
  <2> QED
    BY <1>1, <2>1, HeadTailProperties, EmptySeq, LenProperties
<1> HIDE DEF x
<1>5. PICK q : q = Tail(agenda)
  OBVIOUS
<1>6. InOrder(Shared, clock, {})
  BY InvFacts DEF Sound
<1>7. /\ Distinct(agenda)
      /\ \A i, j \in 1..Len(agenda) : i < j => At(Shared, agenda[i]) <= At(Shared, agenda[j])
      /\ \A i \in 1..Len(agenda) : clock <= At(Shared, agenda[i])
  BY <1>6, SharedIs DEF InOrder
<1>8. t \in Nat /\ t \in Int /\ clock <= t /\ t \in 0..FightEnd
  <2>1. t \in Nat
    BY <1>4, InvFacts, AtType
  <2>2. 1 \in 1..Len(agenda)
    BY <1>4
  <2> QED
    BY <1>1, <1>4, <1>7, <2>1, <2>2, DotFacts
<1> HIDE DEF t
<1>9. /\ \A i \in 1..Len(q) : q[i] # x /\ t <= At(Shared, q[i])
      /\ Distinct(q)
  <2>1. \A i \in 1..Len(q) : q[i] = agenda[i + 1] /\ i + 1 \in 1..Len(agenda)
    BY <1>4, <1>5
  <2>2. 1 \in 1..Len(agenda)
    BY <1>4
  <2>3. \A i \in 1..Len(q) : q[i] # x
    BY <1>4, <1>5, <1>7, <2>1, <2>2 DEF Distinct
  <2>4. \A i \in 1..Len(q) : t <= At(Shared, q[i])
    <3>1. t = At(Shared, agenda[1])
      BY <1>4 DEF t
    <3>2. \A j \in 1..Len(agenda) : j > 1 => t <= At(Shared, agenda[j])
      BY <1>4, <1>7, <2>2, <3>1
    <3>3. \A i \in 1..Len(q) : i + 1 > 1
      BY <1>4, <1>5
    <3> QED
      BY <2>1, <3>2, <3>3
  <2>5. Distinct(q)
    <3> SUFFICES ASSUME NEW i \in 1..Len(q), NEW j \in 1..Len(q), i # j PROVE q[i] # q[j]
      BY DEF Distinct
    <3>1. i + 1 # j + 1
      BY <1>4, <1>5
    <3> QED
      BY <1>7, <2>1, <3>1 DEF Distinct
  <2> QED
    BY <2>3, <2>4, <2>5
<1>10. ToSet(agenda) = ToSet(q) \cup {x} /\ x \notin ToSet(q)
  <2>1. DOMAIN q = 1..Len(q) /\ DOMAIN agenda = 1..Len(agenda)
    BY <1>4, <1>5, LenProperties
  <2>2. x \notin ToSet(q)
    BY <1>9, <2>1 DEF ToSet
  <2>3. ASSUME NEW y \in ToSet(agenda) PROVE y \in ToSet(q) \cup {x}
    <3>1. PICK j \in 1..Len(agenda) : agenda[j] = y
      BY <2>1 DEF ToSet
    <3>2. CASE j = 1
      BY <1>4, <3>1, <3>2
    <3>3. CASE j # 1
      <4>1. j - 1 \in 1..Len(q) /\ q[j - 1] = agenda[(j - 1) + 1] /\ (j - 1) + 1 = j
        BY <1>4, <1>5, <3>3
      <4> QED
        BY <2>1, <3>1, <4>1 DEF ToSet
    <3> QED
      BY <3>2, <3>3
  <2>4. ASSUME NEW y \in ToSet(q) \cup {x} PROVE y \in ToSet(agenda)
    <3>1. CASE y = x
      <4>1. 1 \in 1..Len(agenda)
        BY <1>4
      <4> QED
        BY <1>4, <2>1, <3>1, <4>1 DEF ToSet
    <3>2. CASE y # x
      <4>1. PICK j \in 1..Len(q) : q[j] = y
        BY <2>1, <3>2 DEF ToSet
      <4>2. j + 1 \in 1..Len(agenda) /\ agenda[j + 1] = y
        BY <1>4, <1>5, <4>1
      <4> QED
        BY <2>1, <4>2 DEF ToSet
    <3> QED
      BY <3>1, <3>2
  <2> QED
    BY <2>2, <2>3, <2>4
<1>11. PICK a : a = s
  OBVIOUS
<1>12. /\ a \in SharedType /\ SameBut(a, Shared) /\ a.agenda = q
  <2>1. a = [Shared EXCEPT !.agenda = q]
    BY <1>5, <1>11, SharedIs
  <2> QED
    BY <1>4, <1>5, <2>1, InvFacts, WithAgenda
<1>13. \A y : At(a, y) = At(Shared, y)
  BY <1>12, SameTimes
<1>14. Sound(a, clock, {}, {x})
  <2>1. /\ Ticking(Shared, {acting}) /\ Channelling(Shared) /\ Beats(Shared, clock, Dots)
        /\ Lasting(Shared, clock, {})
    BY InvFacts DEF Sound
  <2>2. InOrder(a, clock, {})
    <3>1. \A i, j \in 1..Len(q) : i < j => At(Shared, q[i]) <= At(Shared, q[j])
      <4> SUFFICES ASSUME NEW i \in 1..Len(q), NEW j \in 1..Len(q), i < j
                   PROVE  At(Shared, q[i]) <= At(Shared, q[j])
        OBVIOUS
      <4>1. q[i] = agenda[i + 1] /\ i + 1 \in 1..Len(agenda) /\ i + 1 < j + 1
            /\ q[j] = agenda[j + 1] /\ j + 1 \in 1..Len(agenda)
        BY <1>4, <1>5
      <4> QED
        BY <1>7, <4>1
    <3>2. \A i \in 1..Len(q) : clock <= At(Shared, q[i])
      <4> SUFFICES ASSUME NEW i \in 1..Len(q) PROVE clock <= At(Shared, q[i])
        OBVIOUS
      <4>1. q[i] = agenda[i + 1] /\ i + 1 \in 1..Len(agenda)
        BY <1>4, <1>5
      <4> QED
        BY <1>7, <4>1
    <3> QED
      BY <1>9, <1>12, <1>13, <3>1, <3>2 DEF InOrder
  <2>3. Ticking(a, {x})
    <3>1. \A d \in Dots : d \in ToSet(agenda) <=> d \in active
      BY <1>1, <2>1, SharedIs, DotFacts DEF Ticking, Items
    <3> QED
      BY <1>10, <1>12, <3>1, SharedIs DEF Ticking, SameBut
  <2>4. Channelling(a) /\ Lasting(a, clock, {})
    BY <1>12, <2>1 DEF SameBut, Channelling, Lasting
  <2>5. Beats(a, clock, Dots)
    BY <1>12, <2>1, BeatsKept DEF SameBut
  <2> QED
    BY <1>12, <2>2, <2>3, <2>4, <2>5 DEF Sound
<1>15. PICK v : v = r
  OBVIOUS
<1>16. /\ Sound(v, t, {}, {x}) /\ Wakes(v, a, t)
       /\ \A e \in v.active : v.dots[e] = a.dots[e]
  <2>1. CASE t > clock
    <3>1. v = Advance(a, t)
      BY <1>11, <1>15, <2>1
    <3>2. \A i \in DOMAIN a.agenda : t <= At(a, a.agenda[i])
      <4>1. DOMAIN q = 1..Len(q)
        BY <1>4, <1>5, LenProperties
      <4> QED
        BY <1>9, <1>12, <1>13, <4>1
    <3>3. \A d \in a.active : d \in {x} => t <= a.dots[d].next
      <4> SUFFICES ASSUME x \in a.active PROVE t <= a.dots[x].next
        OBVIOUS
      <4>1. x # Rotation
        BY <1>12, DotFacts DEF SharedType
      <4>2. t = dots[x].next /\ a.dots = dots
        BY <1>12, <4>1, SharedIs DEF t, At, SameBut
      <4> QED
        BY <1>8, <4>2
    <3>4. clock \in 0..FightEnd
      BY InvFacts
    <3>5. Sound(a, t, {d \in a.active : a.dots[d].expires <= t}, {x})
      BY <1>8, <1>14, <3>2, <3>3, <3>4, SoundLater
    <3> QED
      BY <1>8, <3>1, <3>5, AdvanceSound
  <2>2. CASE ~ (t > clock)
    <3>1. v = a /\ t = clock
      BY <1>8, <1>11, <1>15, <2>2, InvFacts
    <3> QED
      BY <1>14, <3>1, WakesStill
  <2> QED
    BY <2>1, <2>2
<1> HIDE DEF s, r
<1>17. acting' = IF x = Rotation \/ x \in v.active THEN x ELSE Idle
  BY <1>1, <1>15
<1>18. Become(v) /\ clock' = t
  BY <1>1, <1>15
<1>19. acting' \in Items \cup {Event, Idle}
  BY <1>4, <1>17
<1>20. Sound(v, clock', {}, {acting'})
  <2>1. \A d \in Dots : d \in v.active => (d \in {x} <=> d \in {acting'})
    BY <1>17, DotFacts DEF Items
  <2> QED
    BY <1>16, <1>18, <2>1, SoundWithout
<1>21. acting' \in Dots => acting' \in v.active /\ v.dots[acting'].next = clock'
  <2> SUFFICES ASSUME acting' \in Dots
               PROVE  acting' \in v.active /\ v.dots[acting'].next = clock'
    OBVIOUS
  <2>1. acting' = x /\ x # Rotation /\ x \in v.active
    BY <1>17, DotFacts DEF Items
  <2>2. v.dots[x] = dots[x]
    BY <1>12, <1>16, <2>1, SharedIs DEF SameBut
  <2>3. t = dots[x].next
    BY <2>1, SharedIs DEF t, At
  <2> QED
    BY <1>18, <2>1, <2>2, <2>3
<1>22. Wakeful'
  <2>0. Wakeful
    BY DEF DotInv
  <2>1. CASE x # Rotation
    <3>1. Wakes(v, Shared, clock')
      BY <1>10, <1>12, <1>16, <1>18, <2>1, SharedIs DEF Wakes, SameBut
    <3>2. acting # Rotation /\ acting' # Rotation
      BY <1>1, <1>17, <2>1, DotFacts DEF Items
    <3>3. clock' \in Int /\ clock <= clock' /\ clock \in Int /\ gcd \in Int
      BY <1>8, <1>18, InvFacts
    <3> QED
      BY <1>2, <1>3, <1>18, <2>0, <3>1, <3>2, <3>3, WakefulKept
  <2>2. CASE x = Rotation
    <3>1. acting' = Rotation
      BY <1>17, <2>2
    <3>2. agenda' = v.agenda /\ wake' = v.wake /\ channel' = v.channel
      BY <1>18 DEF Become
    <3>3. a.wake = wake /\ a.channel = channel /\ clock' = wake
      BY <1>12, <1>18, <2>2, SharedIs DEF SameBut, t, At
    <3>4. Rotation \notin ToSet(agenda') => wake' = clock'
      BY <1>16, <3>2, <3>3 DEF Wakes
    <3>5. channel' # NoDot => channel' = channel /\ wake' = wake
      BY <1>16, <3>2, <3>3 DEF Wakes
    <3>6. ASSUME ~disturbed PROVE channel' # NoDot => gcd' <= wake'
      <4>1. channel # NoDot => gcd <= wake
        BY <2>0, <3>6, Zenon DEF Wakeful
      <4> QED
        BY <1>2, <3>5, <4>1
    <3> QED
      BY <1>3, <3>1, <3>4, <3>6, Zenon DEF Wakeful
  <2> QED
    BY <2>1, <2>2
<1>23. disturbed' \in BOOLEAN
  BY <1>3, Zenon DEF DotInv
<1>24. clock' \in 0..FightEnd /\ gcd' \in 0..Never
  BY <1>2, <1>8, <1>18, InvFacts
<1> QED
  BY <1>18, <1>19, <1>20, <1>21, <1>22, <1>23, <1>24, DotInvNext

\* Until something happens between two turns, auras fade and nothing else.
LEMMA PassedSound ==
  ASSUME DotInv, NEW t, Between(t)
  PROVE  /\ t \in 0..FightEnd /\ t \in Int /\ clock <= t /\ acting = Idle
         /\ Sound(Passed(t), t, {}, {Idle}) /\ Wakes(Passed(t), Shared, t)
<1>1. acting = Idle /\ t \in 0..FightEnd /\ t \in Int /\ clock <= t
  BY InvFacts, DotFacts DEF Between
<1>2. PICK r : r = Passed(t)
  OBVIOUS
<1>3. PICK s : s = Shared
  OBVIOUS
<1>4. Sound(s, clock, {}, {Idle})
  BY <1>1, <1>3, InvFacts
<1>5. CASE t > clock
  <2>1. r = Advance(s, t)
    BY <1>2, <1>3, <1>5 DEF Passed
  <2>2. \A i \in DOMAIN s.agenda : t <= At(s, s.agenda[i])
    BY <1>3, SharedIs DEF Between
  <2>3. \A d \in s.active : d \in {Idle} => t <= s.dots[d].next
    <3>1. s.active \subseteq Dots
      BY <1>4 DEF Sound, SharedType
    <3> QED
      BY <3>1, DotFacts DEF Items
  <2>4. Sound(s, t, {d \in s.active : s.dots[d].expires <= t}, {Idle})
    BY <1>1, <1>4, <2>2, <2>3, InvFacts, SoundLater
  <2> QED
    BY <1>1, <1>2, <1>3, <2>1, <2>4, AdvanceSound
<1>6. CASE ~ (t > clock)
  <2>1. r = s /\ t = clock
    BY <1>1, <1>2, <1>3, <1>6, InvFacts DEF Passed
  <2> QED
    BY <1>1, <1>2, <1>3, <1>4, <2>1, WakesStill
<1> QED
  BY <1>5, <1>6

\* A step between two turns that costs the rotation nothing.
LEMMA BetweenKeeps ==
  ASSUME DotInv, NEW t, Between(t), clock' = t, gcd' = gcd, disturbed' = disturbed,
         acting' \in {Idle, Event}, NEW r, Become(r), Sound(r, t, {}, {Idle}),
         Wakes(r, Passed(t), t)
  PROVE  DotInv'
<1>1. /\ t \in 0..FightEnd /\ t \in Int /\ clock <= t /\ acting = Idle
      /\ Wakes(Passed(t), Shared, t)
  BY PassedSound
<1>2. Wakes(r, Shared, t)
  BY <1>1, WakesTwice
<1>3. acting' \notin Items /\ acting # Rotation /\ acting' # Rotation
  BY <1>1, DotFacts DEF Items
<1>4. Sound(r, clock', {}, {acting'})
  <2>1. \A d \in Dots : d \in {Idle} <=> d \in {acting'}
    BY <1>3, DotFacts DEF Items
  <2> QED
    BY <2>1, SoundWithout
<1>5. Wakeful'
  <2>1. Wakeful /\ clock \in Int /\ gcd \in Int
    BY InvFacts DEF DotInv
  <2>2. clock' \in Int /\ clock <= clock' /\ Wakes(r, Shared, clock')
    BY <1>1, <1>2
  <2> QED
    BY <1>3, <2>1, <2>2, WakefulKept
<1>6. disturbed' \in BOOLEAN
  BY Zenon DEF DotInv
<1>7. /\ clock' \in 0..FightEnd /\ gcd' \in 0..Never /\ acting' \in Items \cup {Event, Idle}
      /\ acting' \notin Dots
  BY <1>1, <1>3, InvFacts DEF Items
<1> QED
  BY <1>4, <1>5, <1>6, <1>7, DotInvNext

LEMMA PeriodType ==
  ASSUME NEW d, NEW p \in TickPeriods(d)
  PROVE  p \in TickLengths
BY DotFacts DEF TickPeriods

LEMMA HitKeeps ==
  ASSUME DotInv, NEW d \in Dots, NEW t \in 0..FightEnd, Hit(d, t)
  PROVE  DotInv'
<1>1. /\ d \notin Channels /\ Between(t) /\ clock' = t /\ gcd' = gcd /\ acting' = acting
  BY DEF Hit
<1>2. disturbed' = disturbed
  BY Zenon DEF Hit
<1>3. PICK s : s = Passed(t)
  OBVIOUS
<1>4. Sound(s, t, {}, {Idle}) /\ acting = Idle
  BY <1>1, <1>3, PassedSound
<1>5. d \notin {Idle}
  BY DotFacts DEF Items
<1>6. ASSUME NEW r, Become(r), Sound(r, t, {}, {Idle}), Wakes(r, s, t) PROVE DotInv'
  <2>1. acting' \in {Idle, Event}
    BY <1>1, <1>4
  <2> QED
    BY <1>1, <1>2, <1>3, <1>6, <2>1, BetweenKeeps
<1>7. CASE \E p \in TickPeriods(d) : Become(Apply(Passed(t), d, p, t))
  <2>1. PICK p \in TickPeriods(d) : Become(Apply(s, d, p, t))
    BY <1>3, <1>7
  <2>2. PICK r : r = Apply(s, d, p, t)
    OBVIOUS
  <2>3. p \in TickLengths
    BY PeriodType
  <2>4. Sound(r, t, {}, {Idle}) /\ Wakes(r, s, t)
    BY <1>1, <1>4, <1>5, <2>2, <2>3, ApplySound
  <2> QED
    BY <1>6, <2>1, <2>2, <2>4
<1>8. CASE d \in Passed(t).active /\ Become(Refresh(Passed(t), d, t))
  <2>1. PICK r : r = Refresh(s, d, t)
    OBVIOUS
  <2>2. d \in s.active /\ Become(r)
    BY <1>3, <1>8, <2>1
  <2>3. Sound(r, t, {}, {Idle}) /\ Wakes(r, s, t)
    BY <1>1, <1>4, <2>1, <2>2, RefreshSound
  <2> QED
    BY <1>6, <2>2, <2>3
<1>9. CASE d \in Passed(t).active /\ Become(Deactivate(Passed(t), d, t))
  <2>1. PICK r : r = Deactivate(s, d, t)
    OBVIOUS
  <2>2. Become(r)
    BY <1>3, <1>9, <2>1
  <2>3. Sound(r, t, {} \ {d}, {Idle}) /\ Wakes(r, s, t)
    BY <1>4, <2>1, DeactivateSound
  <2>4. {} \ {d} = {}
    OBVIOUS
  <2> QED
    BY <1>6, <2>2, <2>3, <2>4
<1> QED
  BY <1>7, <1>8, <1>9 DEF Hit

LEMMA CrowdControlKeeps ==
  ASSUME DotInv, NEW t \in 0..FightEnd, CrowdControl(t)
  PROVE  DotInv'
<1>1. PICK s : s = Passed(t)
  OBVIOUS
<1>2. PICK r : r = Deactivate(Waived(s, s.channel), s.channel, t)
  OBVIOUS
<1>3. /\ Between(t) /\ clock' = t /\ gcd' = gcd /\ acting' = acting
      /\ s.channel # NoDot /\ Become(r)
  BY <1>1, <1>2 DEF CrowdControl
<1>4. disturbed' = disturbed
  BY Zenon DEF CrowdControl
<1>5. Sound(s, t, {}, {Idle}) /\ acting = Idle
  BY <1>1, <1>3, PassedSound
<1>6. Sound(r, t, {}, {Idle}) /\ Wakes(r, s, t)
  BY <1>2, <1>3, <1>5, InterruptedSound
<1>7. acting' \in {Idle, Event}
  BY <1>3, <1>5
<1> QED
  BY <1>1, <1>3, <1>4, <1>6, <1>7, BetweenKeeps

LEMMA ReactKeeps ==
  ASSUME DotInv, NEW t \in 0..FightEnd, React(t)
  PROVE  DotInv'
<1>1. PICK s : s = Passed(t)
  OBVIOUS
<1>2. /\ Between(t) /\ clock' = t /\ gcd' = gcd /\ acting' \in {Idle, Event} /\ Become(s)
  BY <1>1 DEF React
<1>3. disturbed' = disturbed
  BY Zenon DEF React
<1>4. Sound(s, t, {}, {Idle}) /\ Wakes(s, s, t)
  BY <1>1, <1>2, PassedSound, WakesStill
<1> QED
  BY <1>1, <1>2, <1>3, <1>4, BetweenKeeps

\* The dot has performed the tick that was due, and the next one is not queued yet.
TickState(d) == [Shared EXCEPT !.dots[d] = Ticked(@, 1)]

LEMMA BeatMoves ==
  ASSUME NEW v \in DotRecord
  PROVE  LET w == Ticked(v, 1)
         IN  /\ Beat(w, 0) = Beat(v, 1) /\ Beat(w, 0) < Beat(w, 1)
             /\ Beat(w, 1) = Beat(w, 0) + w.period
             /\ Beat(w, w.remaining) = Beat(v, v.remaining)
             /\ Beat(w, 0) \in Int /\ Beat(w, 1) \in Int
             /\ Beat(w, 0) < Beat(w, w.remaining) => w.remaining > 0
<1>1. PICK b \in Nat, m \in Nat, p \in Nat, n \in Int :
         b = v.began /\ m = v.made /\ p = v.period /\ n = v.remaining /\ p >= 1
  BY DotRecordFacts
<1>2. PICK w : w = Ticked(v, 1)
  OBVIOUS
<1>3. w.began = b /\ w.made = m + 1 /\ w.period = p /\ w.remaining = n - 1
  BY <1>1, <1>2, TickedFacts
<1>4. PICK l \in Nat, k \in Int : l = m + 1 /\ k = m + n
  BY <1>1
<1>5. /\ Beat(v, 1) = b + l * p /\ Beat(v, n) = b + k * p
      /\ Beat(w, 0) = b + l * p /\ Beat(w, 1) = b + (l + 1) * p
      /\ Beat(w, n - 1) = b + k * p
  <2>1. (m + 1) + 0 = l /\ (m + 1) + 1 = l + 1 /\ (m + 1) + (n - 1) = k
    BY <1>1, <1>4
  <2> QED
    BY <1>1, <1>3, <1>4, <2>1 DEF Beat
<1>6. /\ b + (l + 1) * p = (b + l * p) + p /\ b + (l + 1) * p > b + l * p
      /\ b + l * p \in Int /\ b + (l + 1) * p \in Int
  BY <1>1, <1>4, BeatStep
<1>7. b + l * p < b + k * p => n - 1 > 0
  <2> SUFFICES ASSUME b + l * p < b + k * p, k <= l PROVE FALSE
    BY <1>1, <1>4
  <2>1. k * p <= l * p
    BY <1>1, <1>4
  <2>2. k * p \in Int /\ l * p \in Int
    BY <1>1, <1>4
  <2> QED
    BY <1>1, <2>1, <2>2
<1> QED
  BY <1>1, <1>2, <1>3, <1>5, <1>6, <1>7

LEMMA TickStateFacts ==
  ASSUME DotInv, NEW d \in Dots, acting = d
  PROVE  LET a == TickState(d)
         IN  /\ a \in SharedType /\ InOrder(a, clock, {}) /\ Ticking(a, {d}) /\ Channelling(a)
             /\ Beats(a, clock, Dots \ {d}) /\ Lasting(a, clock, {})
             /\ d \in a.active /\ Wakes(a, Shared, clock)
             /\ a.dots[d].next = clock /\ Beat(a.dots[d], 0) = clock
             /\ clock < Beat(a.dots[d], 1)
             /\ Beat(a.dots[d], 1) = clock + a.dots[d].period
             /\ d \in Channels => /\ a.dots[d].remaining > 0
                                  /\ a.dots[d].expires = Beat(a.dots[d], a.dots[d].remaining)
<1>1. PICK s : s = Shared
  OBVIOUS
<1>2. /\ s \in SharedType /\ InOrder(s, clock, {}) /\ Ticking(s, {d}) /\ Channelling(s)
      /\ Beats(s, clock, Dots) /\ Lasting(s, clock, {})
  BY <1>1, InvFacts DEF Sound
<1>3. d \in s.active /\ s.dots[d].next = clock /\ clock \in Int
  BY <1>1, InvFacts, SharedIs
<1>4. PICK v : v = s.dots[d]
  OBVIOUS
<1>5. v \in DotRecord /\ v.next \in Nat /\ v.expires \in Nat
  BY <1>2, <1>4, RecordFacts
<1>6. PICK w : w = Ticked(v, 1)
  OBVIOUS
<1>7. w \in DotRecord /\ w.next = v.next /\ w.expires = v.expires
  BY <1>5, <1>6, TickedFacts
<1>8. PICK a : a = TickState(d)
  OBVIOUS
<1>9. a = [s EXCEPT !.dots[d] = w]
  BY <1>1, <1>2, <1>4, <1>6, <1>8 DEF TickState, SharedType
<1>10. /\ a \in SharedType /\ a.dots[d] = w /\ \A e \in Dots : e # d => a.dots[e] = s.dots[e]
       /\ a.active = s.active /\ a.agenda = s.agenda /\ a.wake = s.wake
       /\ a.channel = s.channel /\ a.cut = s.cut
  BY <1>2, <1>7, <1>9, WithDot
<1>11. InOrder(a, clock, {})
  <2>1. \A y \in Items : At(a, y) = At(s, y)
    BY <1>4, <1>7, <1>10 DEF At, Items
  <2>2. s.agenda \in Seq(Items)
    BY <1>2 DEF SharedType
  <2>3. \A i \in 1..Len(s.agenda) : At(a, s.agenda[i]) = At(s, s.agenda[i])
    BY <2>1, <2>2, LenProperties
  <2> QED
    BY <1>2, <1>10, <2>3 DEF InOrder
<1>12. Ticking(a, {d}) /\ Channelling(a)
  BY <1>2, <1>10 DEF Ticking, Channelling
<1>13. Beats(a, clock, Dots \ {d}) /\ OnBeat(s, d, clock)
  <2>1. Beats(s, clock, Dots \ {d}) /\ OnBeat(s, d, clock)
    BY <1>2, <1>3 DEF Beats
  <2> QED
    BY <1>10, <2>1, BeatsKept
<1>14. Lasting(a, clock, {}) /\ clock < v.expires
  <2>1. s.active \subseteq Dots
    BY <1>2 DEF SharedType
  <2> QED
    BY <1>2, <1>3, <1>4, <1>7, <1>10, <2>1 DEF Lasting
<1>15. Wakes(a, Shared, clock)
  BY <1>1, <1>10 DEF Wakes
<1>16. /\ Beat(w, 0) = clock /\ clock < Beat(w, 1) /\ Beat(w, 1) = clock + w.period
       /\ d \in Channels => w.remaining > 0 /\ w.expires = Beat(w, w.remaining)
  <2>1. Beat(v, 1) = clock /\ (d \in Channels => v.expires = Beat(v, v.remaining))
    BY <1>3, <1>4, <1>13 DEF OnBeat
  <2>2. /\ Beat(w, 0) = Beat(v, 1) /\ Beat(w, 0) < Beat(w, 1)
        /\ Beat(w, 1) = Beat(w, 0) + w.period
        /\ Beat(w, w.remaining) = Beat(v, v.remaining)
        /\ Beat(w, 0) < Beat(w, w.remaining) => w.remaining > 0
    BY <1>5, <1>6, BeatMoves
  <2> QED
    BY <1>7, <1>14, <2>1, <2>2
<1> QED
  BY <1>3, <1>4, <1>7, <1>8, <1>10, <1>11, <1>12, <1>13, <1>14, <1>15, <1>16

\* The step is complete.
LEMMA TickEnds ==
  ASSUME DotInv, NEW d \in Dots, Tick(d), NEW r, Become(r), Sound(r, clock, {}, {Idle}),
         Wakes(r, Shared, clock)
  PROVE  DotInv'
<1>1. acting = d /\ acting' = Idle /\ clock' = clock /\ gcd' = gcd
  BY DEF Tick
<1>2. disturbed' = disturbed
  BY Zenon DEF Tick
<1>3. Wakeful'
  <2>1. Wakeful /\ clock \in Int /\ gcd \in Int
    BY InvFacts DEF DotInv
  <2>2. acting # Rotation /\ acting' # Rotation /\ clock' \in Int /\ clock <= clock'
    BY <1>1, <2>1, DotFacts DEF Items
  <2> QED
    BY <1>1, <1>2, <2>1, <2>2, WakefulKept
<1>4. disturbed' \in BOOLEAN
  BY <1>2, Zenon DEF DotInv
<1>5. /\ clock' \in 0..FightEnd /\ gcd' \in 0..Never /\ acting' \in Items \cup {Event, Idle}
      /\ acting' \notin Dots
  BY <1>1, InvFacts, DotFacts DEF Items
<1> QED
  BY <1>1, <1>3, <1>4, <1>5, DotInvNext

\* The next tick is queued one period later.
NextQueued(s, d, t) == Enqueue([s EXCEPT !.dots[d].next = t + s.dots[d].period], d)

LEMMA NextQueuedSound ==
  ASSUME DotInv, NEW d \in Dots, acting = d
  PROVE  LET r == NextQueued(TickState(d), d, clock)
         IN  Sound(r, clock, {}, {Idle}) /\ Wakes(r, Shared, clock)
<1>1. PICK a : a = TickState(d)
  OBVIOUS
<1>2. /\ a \in SharedType /\ InOrder(a, clock, {}) /\ Ticking(a, {d}) /\ Channelling(a)
      /\ Beats(a, clock, Dots \ {d}) /\ Lasting(a, clock, {})
      /\ d \in a.active /\ Wakes(a, Shared, clock)
      /\ a.dots[d].next = clock /\ Beat(a.dots[d], 0) = clock
      /\ clock < Beat(a.dots[d], 1)
      /\ Beat(a.dots[d], 1) = clock + a.dots[d].period
      /\ d \in Channels => /\ a.dots[d].remaining > 0
                           /\ a.dots[d].expires = Beat(a.dots[d], a.dots[d].remaining)
  BY <1>1, TickStateFacts
<1>3. clock \in 0..FightEnd /\ clock \in Int
  BY InvFacts
<1>4. PICK v : v = a.dots[d]
  OBVIOUS
<1>5. v \in DotRecord /\ v.period \in TickLengths
  <2>1. v \in DotRecord
    BY <1>2, <1>4, RecordFacts
  <2> QED
    BY <2>1 DEF DotRecord
<1>6. PICK n : n = clock + v.period
  OBVIOUS
<1>7. n \in 0..Never /\ clock < n
  <2>1. PICK p : p = v.period
    OBVIOUS
  <2> QED
    BY <1>3, <1>5, <1>6, <2>1, DurationFacts
<1>8. PICK w : w = [v EXCEPT !.next = n]
  OBVIOUS
<1>9. /\ w \in DotRecord /\ w.next = n /\ w.began = v.began /\ w.made = v.made
      /\ w.period = v.period /\ w.remaining = v.remaining /\ w.expires = v.expires
  BY <1>5, <1>7, <1>8 DEF DotRecord
<1>10. PICK b : b = [a EXCEPT !.dots[d] = w]
  OBVIOUS
<1>11. /\ b \in SharedType /\ b.dots[d] = w /\ \A e \in Dots : e # d => b.dots[e] = a.dots[e]
       /\ b.active = a.active /\ b.agenda = a.agenda /\ b.wake = a.wake
       /\ b.channel = a.channel /\ b.cut = a.cut
  BY <1>2, <1>9, <1>10, WithDot
<1>12. d \notin ToSet(b.agenda) /\ d \in Items /\ At(b, d) = n
  BY <1>2, <1>9, <1>11, DotFacts DEF Ticking, Items, At
<1>13. InOrder(b, clock, {})
  <2>1. \A y \in Items : y # d => At(b, y) = At(a, y)
    BY <1>11 DEF At, Items
  <2>2. \A i \in 1..Len(b.agenda) : b.agenda[i] \in Items /\ b.agenda[i] # d
    <3>1. b.agenda \in Seq(Items)
      BY <1>11 DEF SharedType
    <3> QED
      BY <1>12, <3>1, LenProperties DEF ToSet
  <2>3. \A i \in 1..Len(b.agenda) : At(b, b.agenda[i]) = At(a, b.agenda[i])
    BY <2>1, <2>2
  <2> QED
    BY <1>2, <1>11, <2>3 DEF InOrder
<1>14. PICK r : r = Enqueue(b, d)
  OBVIOUS
<1>15. /\ r \in SharedType /\ SameBut(r, b) /\ ToSet(r.agenda) = ToSet(a.agenda) \cup {d}
       /\ InOrder(r, clock, {})
  <2>1. clock <= At(b, d)
    BY <1>3, <1>7, <1>12
  <2> QED
    BY <1>3, <1>11, <1>12, <1>13, <1>14, <2>1, EnqueueFacts
<1>16. r = NextQueued(TickState(d), d, clock)
  <2>1. [a EXCEPT !.dots[d].next = n] = b
    BY <1>2, <1>4, <1>8, <1>10 DEF SharedType
  <2> QED
    BY <1>1, <1>4, <1>6, <1>14, <2>1 DEF NextQueued
<1>17. Ticking(r, {Idle})
  <2>1. \A e \in Dots : e \notin {Idle}
    BY DotFacts DEF Items
  <2> QED
    BY <1>2, <1>11, <1>15, <2>1 DEF Ticking, SameBut
<1>18. Channelling(r)
  BY <1>2, <1>11, <1>15 DEF Channelling, SameBut
<1>19. Beats(r, clock, Dots)
  <2>1. \A e \in Dots \ {d} : /\ r.dots[e] = a.dots[e]
                              /\ e \in r.active <=> e \in a.active
                              /\ e \in r.cut <=> e \in a.cut
    BY <1>11, <1>15 DEF SameBut
  <2>2. Beats(r, clock, Dots \ {d})
    BY <1>2, <2>1, BeatsKept
  <2>3. r.dots[d] = w /\ d \in r.active
    BY <1>2, <1>11, <1>15 DEF SameBut
  <2>4. \A k : Beat(w, k) = Beat(v, k)
    BY <1>9 DEF Beat
  <2>5. /\ Beat(w, 0) = clock /\ w.next = Beat(w, 1)
        /\ d \in Channels => w.expires = Beat(w, w.remaining)
    BY <1>2, <1>4, <1>6, <1>9, <2>4
  <2>6. Beat(w, 0) <= clock /\ clock <= w.next
    BY <1>3, <1>7, <1>9, <2>5
  <2>7. OnBeat(r, d, clock)
    BY <2>3, <2>5, <2>6 DEF OnBeat
  <2> QED
    BY <2>2, <2>3, <2>7 DEF Beats
<1>20. Lasting(r, clock, {})
  <2>1. r.active = a.active /\ r.dots = b.dots /\ a.active \subseteq Dots
    BY <1>2, <1>11, <1>15 DEF SameBut, SharedType
  <2>2. \A e \in Dots : r.dots[e].expires = a.dots[e].expires
    BY <1>4, <1>9, <1>11, <2>1
  <2> QED
    BY <1>2, <2>1, <2>2 DEF Lasting
<1>21. Wakes(r, Shared, clock)
  <2>1. /\ r.wake = a.wake /\ r.channel = a.channel
        /\ Rotation \in ToSet(a.agenda) => Rotation \in ToSet(r.agenda)
    BY <1>11, <1>15 DEF SameBut
  <2> QED
    BY <1>2, <2>1 DEF Wakes
<1> QED
  BY <1>15, <1>16, <1>17, <1>18, <1>19, <1>20, <1>21 DEF Sound

LEMMA TickKeeps ==
  ASSUME DotInv, NEW d \in Dots, Tick(d)
  PROVE  DotInv'
<1> DEFINE Rest(s) ==
             IF d \in s.active /\ (d \notin Channels \/ s.dots[d].remaining > 0)
             THEN NextQueued(s, d, clock) ELSE s
           Woken(s) == IF d \in Channels /\ s.dots[d].remaining = 0 /\ gcd <= clock
                       THEN WaitUntil(s, clock + Clip) ELSE s
<1>1. acting = d /\ clock \in 0..FightEnd /\ clock \in Nat
  BY InvFacts DEF Tick
<1>2. PICK a : a = TickState(d)
  OBVIOUS
<1>3. /\ a \in SharedType /\ InOrder(a, clock, {}) /\ Ticking(a, {d}) /\ Channelling(a)
      /\ Beats(a, clock, Dots \ {d}) /\ Lasting(a, clock, {})
      /\ d \in a.active /\ Wakes(a, Shared, clock)
      /\ a.dots[d].next = clock /\ Beat(a.dots[d], 0) = clock
      /\ clock < Beat(a.dots[d], 1)
      /\ d \in Channels => a.dots[d].remaining > 0
  BY <1>1, <1>2, TickStateFacts
<1>4. PICK b : /\ b = a \/ (d \in OwnEnding /\ b = Deactivate(a, d, clock))
               /\ \/ Become(Rest(Woken(b)))
                  \/ /\ b.channel = d
                     /\ Become(Interrupt(b, clock))
  <2>1. \E b \in {TickState(d)} \cup (IF d \in OwnEnding
                                      THEN {Deactivate(TickState(d), d, clock)} ELSE {}) :
           \/ Become(Rest(Woken(b)))
           \/ b.channel = d /\ Become(Interrupt(b, clock))
    BY Zenon DEF Tick, TickState, NextQueued
  <2> QED
    BY <1>2, <2>1
<1>5. \A e \in Dots : e \notin {Idle}
  BY DotFacts DEF Items
<1>6. InOrder(a, clock, {d}) /\ Lasting(a, clock, {} \cup {d})
  BY <1>3 DEF InOrder, Lasting
<1>7. CASE b = a
  <2>1. CASE Become(Rest(Woken(b)))
    <3>1. Woken(b) = a
      <4>1. d \in Channels => a.dots[d].remaining # 0
        <5>1. a.dots[d].remaining \in Int
          BY <1>3, RecordFacts
        <5> QED
          BY <1>3, <5>1
      <4> QED
        BY <1>7, <4>1
    <3>2. Rest(a) = NextQueued(a, d, clock)
      BY <1>3
    <3>3. PICK r : r = NextQueued(a, d, clock)
      OBVIOUS
    <3>4. Become(r)
      BY <2>1, <3>1, <3>2, <3>3
    <3>5. Sound(r, clock, {}, {Idle}) /\ Wakes(r, Shared, clock)
      BY <1>1, <1>2, <3>3, NextQueuedSound
    <3> QED
      BY <3>4, <3>5, TickEnds
  <2>2. CASE b.channel = d /\ Become(Interrupt(b, clock))
    <3>1. d \in Channels
      BY <1>3, <1>7, <2>2, DotFacts DEF SharedType
    <3>2. PICK c : c = Deactivate(Waived(a, d), d, clock)
      OBVIOUS
    <3>3. Beat(a.dots[d], 0) <= clock /\ clock <= Beat(a.dots[d], 1)
      <4>1. PICK x, y : x = Beat(a.dots[d], 0) /\ y = Beat(a.dots[d], 1)
        OBVIOUS
      <4>2. x = clock /\ clock < y /\ y \in Int
        <5>1. y \in Int
          BY <1>3, <4>1, RecordFacts DEF Beat
        <5> QED
          BY <1>3, <4>1, <5>1
      <4>3. x <= clock /\ clock <= y
        BY <1>1, <4>2
      <4> QED
        BY <4>1, <4>3
    <3>4. Sound(c, clock, {}, {d}) /\ Wakes(c, a, clock) /\ c.channel = NoDot
      BY <1>1, <1>3, <1>6, <3>1, <3>2, <3>3, InterruptedFacts
    <3>5. \A e \in Dots : e \in c.active => (e \in {d} <=> e \in {Idle})
      <4>1. d \notin c.active
        BY <3>1, <3>4, DotFacts DEF Sound, Channelling
      <4> QED
        BY <1>5, <4>1
    <3>6. Sound(c, clock, {}, {Idle})
      BY <3>4, <3>5, SoundWithout
    <3>7. PICK r : r = Interrupt(a, clock)
      OBVIOUS
    <3>8. Sound(r, clock, {}, {Idle}) /\ Wakes(r, a, clock)
      <4>1. c = Deactivate(Waived(a, a.channel), a.channel, clock)
        BY <1>7, <2>2, <3>2
      <4> QED
        BY <1>1, <3>4, <3>6, <3>7, <4>1, InterruptFacts
    <3>9. Wakes(r, Shared, clock)
      BY <1>3, <3>8, WakesTwice
    <3> QED
      BY <1>7, <2>2, <3>7, <3>8, <3>9, TickEnds
  <2> QED
    BY <1>4, <2>1, <2>2
\* The tick has ended the dot.
<1>8. CASE d \in OwnEnding /\ b = Deactivate(a, d, clock)
  <2>1. FadesWell(a, d, clock)
    <3>1. PICK v : v = a.dots[d]
      OBVIOUS
    <3>2. v \in DotRecord
      BY <1>3, <3>1, RecordFacts
    <3>3. PICK x, y, z : x = Beat(v, 0) /\ y = Beat(v, 1) /\ z = Beat(v, 2)
      OBVIOUS
    <3>4. y < z /\ y \in Int /\ z \in Int
      <4>1. PICK o \in Nat, m \in Nat, p \in Nat :
               o = v.began /\ m = v.made /\ p = v.period /\ p >= 1
        BY <3>2, DotRecordFacts
      <4>2. PICK l \in Int : l = m + 1
        BY <4>1
      <4>3. m + 2 = l + 1
        BY <4>1, <4>2
      <4>4. y = o + l * p /\ z = o + (l + 1) * p
        BY <3>3, <4>1, <4>2, <4>3 DEF Beat
      <4> QED
        BY <4>1, <4>4, BeatStep
    <3>5. x = clock /\ clock < y
      BY <1>3, <3>1, <3>3
    <3>6. x <= clock /\ clock < z
      BY <1>1, <3>4, <3>5
    <3>7. 1 - 1 = 0 /\ 1 + 1 = 2 /\ 1 \in Nat
      OBVIOUS
    <3>8. Beat(v, 1 - 1) <= clock /\ clock < Beat(v, 1 + 1)
      BY <3>3, <3>6, <3>7
    <3>9. Performed(Ticked(v, 1), d, clock, a.cut)
      BY <1>1, <1>8, <3>2, <3>7, <3>8, PerformedFacts
    <3> QED
      BY <1>3, <3>1, <3>9 DEF FadesWell
  <2>2. Sound(b, clock, {}, {d}) /\ Wakes(b, a, clock) /\ b.active = a.active \ {d}
    BY <1>1, <1>3, <1>6, <1>8, <2>1, DeactivateFacts
  <2>3. \A e \in Dots : e \in b.active => (e \in {d} <=> e \in {Idle})
    BY <1>5, <2>2
  <2>4. Sound(b, clock, {}, {Idle}) /\ Wakes(b, Shared, clock)
    BY <1>3, <2>2, <2>3, SoundWithout, WakesTwice
  <2>5. b.channel # d
    BY <2>2, DotFacts DEF Sound, Channelling, SharedType
  <2>6. PICK r : r = Woken(b)
    OBVIOUS
  <2>7. Sound(r, clock, {}, {Idle}) /\ Wakes(r, Shared, clock) /\ r.active = b.active
    <3>1. CASE d \in Channels /\ b.dots[d].remaining = 0 /\ gcd <= clock
      <4>1. r = WaitUntil(b, clock + Clip)
        BY <2>6, <3>1
      <4>2. /\ Sound(r, clock, {}, {Idle}) /\ r.active = b.active
            /\ r.channel = b.channel /\ Rotation \in ToSet(r.agenda)
        BY <1>1, <2>4, <4>1, Later, WaitUntilSound
      <4>3. b.channel = NoDot
        <5>1. a.channel = d
          BY <1>3, <3>1 DEF Channelling
        <5> QED
          BY <2>2, <2>5, <5>1 DEF Wakes
      <4>4. Wakes(r, Shared, clock)
        BY <2>4, <4>2, <4>3 DEF Wakes
      <4> QED
        BY <4>2, <4>4
    <3>2. CASE ~ (d \in Channels /\ b.dots[d].remaining = 0 /\ gcd <= clock)
      <4>1. r = b
        BY <2>6, <3>2
      <4> QED
        BY <2>4, <4>1
    <3> QED
      BY <3>1, <3>2
  <2>8. Become(Rest(r))
    BY <1>4, <2>5, <2>6
  <2>9. Rest(r) = r
    BY <2>2, <2>7
  <2> QED
    BY <2>7, <2>8, <2>9, TickEnds
<1> QED
  BY <1>4, <1>7, <1>8

-----------------------------------------------------------------------------
(* The turns of the rotation.                                              *)

\* Where the turn leads to: the rotation wakes up again, or the end of the channel wakes it.
Ready(s) ==
  /\ Rotation \in ToSet(s.agenda) \/ (s.channel # NoDot /\ gcd' <= clock)
  /\ s.channel # NoDot => gcd' <= s.wake

LEMMA EndTurnKeeps ==
  ASSUME DotInv, Turn, clock' = clock, gcd' \in 0..Never,
         NEW s, Sound(s, clock, {}, {acting}), EndTurn(s),
         ~disturbed \/ s.wake # wake => Ready(s)
  PROVE  DotInv'
<1>1. clock \in 0..FightEnd /\ clock \in Int
  BY InvFacts
<1>2. \A d \in Dots : d \notin {acting} /\ d \notin {Idle}
  BY DotFacts DEF Turn, Items
<1>3. Sound(s, clock, {}, {Idle})
  BY <1>2, SoundWithout
<1>4. PICK r : r = IF acting = Event /\ s.wake > clock + Reaction
                   THEN WaitUntil(s, clock + Reaction) ELSE s
  OBVIOUS
<1>5. Become(r) /\ acting' = Idle
  BY <1>4 DEF EndTurn
<1>6. /\ Sound(r, clock, {}, {Idle}) /\ r.channel = s.channel
      /\ r = s \/ (acting = Event /\ Rotation \in ToSet(r.agenda))
  <2>1. CASE acting = Event /\ s.wake > clock + Reaction
    <3>1. r = WaitUntil(s, clock + Reaction)
      BY <1>4, <2>1
    <3>2. Sound(r, clock, {}, {Idle}) /\ r.channel = s.channel /\ Rotation \in ToSet(r.agenda)
      BY <1>1, <1>3, <3>1, Later, WaitUntilSound
    <3> QED
      BY <2>1, <3>2
  <2>2. CASE ~ (acting = Event /\ s.wake > clock + Reaction)
    <3>1. r = s
      BY <1>4, <2>2
    <3> QED
      BY <1>3, <3>1
  <2> QED
    BY <2>1, <2>2
<1>7. disturbed' \in BOOLEAN
  BY Zenon DEF EndTurn
<1>8. Wakeful'
  <2>1. agenda' = r.agenda /\ wake' = r.wake /\ channel' = r.channel
    BY <1>5 DEF Become
  <2>2. ASSUME ~disturbed'
        PROVE  /\ Rotation \in ToSet(agenda') \/ (channel' # NoDot /\ gcd' <= clock')
               /\ channel' # NoDot => gcd' <= wake'
    <3>1. ~ (acting = Event /\ s.channel # NoDot) /\ (~disturbed \/ s.wake # wake)
      BY <2>2, Zenon DEF EndTurn
    <3>2. Ready(s)
      BY <3>1, Zenon
    <3>3. ~ (acting = Event /\ s.channel # NoDot)
      BY <3>1, Zenon
    <3>4. CASE r = s
      BY <2>1, <3>2, <3>4 DEF Ready
    <3>5. CASE acting = Event /\ Rotation \in ToSet(r.agenda)
      BY <1>6, <2>1, <3>3, <3>5
    <3> QED
      BY <1>6, <3>4, <3>5
  <2>3. acting' # Rotation
    BY <1>5, DotFacts DEF Items
  <2> QED
    BY <2>2, <2>3, Zenon DEF Wakeful
<1>9. acting' \in Items \cup {Event, Idle} /\ acting' \notin Dots
  BY <1>2, <1>5
<1>10. clock' \in 0..FightEnd /\ Sound(r, clock', {}, {acting'})
  BY <1>1, <1>5, <1>6
<1> QED
  BY <1>5, <1>7, <1>8, <1>9, <1>10, DotInvNext

\* As long as the channel lasts the rotation only waits for its end.
LEMMA ChannelReady ==
  ASSUME DotInv, channel # NoDot, gcd' = gcd, NEW s, Wakes(s, Shared, clock)
  PROVE  ~disturbed \/ s.wake # wake => Ready(s)
<1>1. /\ Rotation \in ToSet(agenda) => Rotation \in ToSet(s.agenda)
      /\ s.wake # wake => Rotation \in ToSet(s.agenda)
      /\ s.channel # channel =>
            s.channel = NoDot /\ (gcd <= clock => Rotation \in ToSet(s.agenda))
      /\ s.channel # NoDot => s.wake = wake
  BY SharedIs DEF Wakes
<1>2. ASSUME s.wake # wake PROVE Ready(s)
  BY <1>1, <1>2 DEF Ready
<1>3. ASSUME ~disturbed PROVE Ready(s)
  <2>1. Wakeful
    BY DEF DotInv
  <2>2. /\ \/ Rotation \in ToSet(agenda)
           \/ channel # NoDot /\ gcd <= clock
           \/ acting = Rotation
        /\ channel # NoDot => gcd <= wake
    BY <1>3, <2>1, Zenon DEF Wakeful
  <2>3. acting = Rotation /\ Rotation \notin ToSet(agenda) => wake = clock
    BY <2>1, Zenon DEF Wakeful
  <2>4. Rotation \in ToSet(agenda) \/ gcd <= clock
    BY <2>2, <2>3
  <2> QED
    BY <1>1, <2>2, <2>4 DEF Ready
<1> QED
  BY <1>2, <1>3, Zenon

LEMMA TurnWhileChannellingKeeps ==
  ASSUME DotInv, TurnWhileChannelling
  PROVE  DotInv'
<1>1. Turn /\ channel # NoDot /\ clock' = clock /\ gcd' = gcd
  BY DEF TurnWhileChannelling
<1>2. clock \in 0..FightEnd /\ gcd' \in 0..Never
  BY <1>1, InvFacts
<1>3. PICK s, x : s = Shared /\ x = {acting}
  OBVIOUS
<1>4. Sound(s, clock, {}, x) /\ s.channel = channel
  BY <1>3, InvFacts, SharedIs
<1>5. ASSUME NEW r, EndTurn(r), Sound(r, clock, {}, x), Wakes(r, s, clock) PROVE DotInv'
  <2>1. ~disturbed \/ r.wake # wake => Ready(r)
    BY <1>1, <1>3, <1>5, ChannelReady
  <2> QED
    BY <1>1, <1>2, <1>3, <1>5, <2>1, EndTurnKeeps
<1>6. CASE EndTurn(Deactivate(Shared, channel, clock))
  <2>1. PICK r : r = Deactivate(s, channel, clock)
    OBVIOUS
  <2>2. channel \in Dots
    BY <1>1, <1>3, <1>4, DotFacts DEF Sound, SharedType
  <2>3. Sound(r, clock, {} \ {channel}, x) /\ Wakes(r, s, clock)
    BY <1>2, <1>4, <2>1, <2>2, DeactivateSound
  <2>4. {} \ {channel} = {}
    OBVIOUS
  <2> QED
    BY <1>3, <1>5, <1>6, <2>1, <2>3, <2>4
<1>7. CASE EndTurn(Shared)
  BY <1>3, <1>4, <1>5, <1>7, WakesStill
<1>8. CASE EndTurn(Interrupt(Shared, clock))
  <2>1. PICK c : c = Deactivate(Waived(s, s.channel), s.channel, clock)
    OBVIOUS
  <2>2. PICK r : r = Interrupt(s, clock)
    OBVIOUS
  <2>3. Sound(c, clock, {}, x) /\ Wakes(c, s, clock) /\ c.channel = NoDot
    BY <1>1, <1>2, <1>4, <2>1, InterruptedSound
  <2>4. Sound(r, clock, {}, x) /\ Wakes(r, s, clock)
    BY <1>2, <2>1, <2>2, <2>3, InterruptFacts
  <2> QED
    BY <1>3, <1>5, <1>8, <2>2, <2>4
<1> QED
  BY <1>6, <1>7, <1>8 DEF TurnWhileChannelling

LEMMA TurnTooEarlyKeeps ==
  ASSUME DotInv, TurnTooEarly
  PROVE  DotInv'
<1>1. Turn /\ channel = NoDot /\ clock < wake /\ clock' = clock /\ gcd' = gcd /\ EndTurn(Shared)
  BY DEF TurnTooEarly
<1>2. gcd' \in 0..Never /\ Sound(Shared, clock, {}, {acting}) /\ clock \in Int
  BY <1>1, InvFacts
<1>3. ASSUME ~disturbed PROVE Ready(Shared)
  <2>1. Wakeful
    BY DEF DotInv
  <2>2. \/ Rotation \in ToSet(agenda)
        \/ channel # NoDot /\ gcd <= clock
        \/ acting = Rotation
    BY <1>3, <2>1, Zenon DEF Wakeful
  <2>3. acting = Rotation /\ Rotation \notin ToSet(agenda) => wake = clock
    BY <2>1, Zenon DEF Wakeful
  <2> QED
    BY <1>1, <1>2, <2>2, <2>3, SharedIs DEF Ready
<1>4. ~disturbed \/ Shared.wake # wake => Ready(Shared)
  <2>1. Shared.wake = wake
    BY SharedIs
  <2> QED
    BY <1>3, <2>1, Zenon
<1> QED
  BY <1>1, <1>2, <1>4, EndTurnKeeps

\* The rotation has chosen when to wake up.
LEMMA PlannedTurnKeeps ==
  ASSUME DotInv, Turn, clock' = clock, gcd' \in 0..Never,
         NEW s, Sound(s, clock, {}, {acting}), EndTurn(s),
         Rotation \in ToSet(s.agenda), s.channel # NoDot => gcd' <= s.wake
  PROVE  DotInv'
<1>1. Ready(s)
  BY DEF Ready
<1> QED
  BY <1>1, EndTurnKeeps

LEMMA TurnCastsKeeps ==
  ASSUME DotInv, TurnCasts
  PROVE  DotInv'
<1>1. PICK s : s = WaitUntil(Shared, clock + GCD)
  OBVIOUS
<1>2. /\ Turn /\ channel = NoDot /\ gcd' = clock + GCD /\ clock' = clock
      /\ \/ EndTurn(s)
         \/ \E d \in Channels : \E p \in TickPeriods(d) : EndTurn(Apply(s, d, p, clock))
  BY <1>1 DEF TurnCasts
<1>3. clock \in 0..FightEnd /\ gcd' \in 0..Never
  BY <1>2, InvFacts, Later
<1>4. /\ Sound(s, clock, {}, {acting}) /\ s.channel = NoDot /\ s.wake = clock + GCD
      /\ Rotation \in ToSet(s.agenda)
  <2>1. /\ Sound(s, clock, {}, {acting}) /\ s.channel = Shared.channel /\ s.wake = clock + GCD
        /\ Rotation \in ToSet(s.agenda)
    BY <1>1, <1>3, InvFacts, Later, WaitUntilSound
  <2> QED
    BY <1>2, <2>1, SharedIs
<1>5. CASE EndTurn(s)
  BY <1>2, <1>3, <1>4, <1>5, PlannedTurnKeeps
<1>6. CASE \E d \in Channels : \E p \in TickPeriods(d) : EndTurn(Apply(s, d, p, clock))
  <2>0. PICK d \in Channels : \E p \in TickPeriods(d) : EndTurn(Apply(s, d, p, clock))
    BY <1>6
  <2>1. PICK p \in TickPeriods(d) : EndTurn(Apply(s, d, p, clock))
    BY <2>0
  <2>2. d \in Dots /\ p \in TickLengths
    BY PeriodType, DotFacts
  <2>3. d \notin {acting}
    BY <1>2, <2>2, DotFacts DEF Turn, Items
  <2>4. PICK r : r = Apply(s, d, p, clock)
    OBVIOUS
  <2>5. PICK x : x = {acting}
    OBVIOUS
  <2>6. Sound(r, clock, {}, x) /\ Rotation \in ToSet(r.agenda) /\ r.wake = s.wake
    BY <1>3, <1>4, <2>2, <2>3, <2>4, <2>5, ApplySound
  <2>7. gcd' <= r.wake
    BY <1>2, <1>3, <1>4, <2>6, Later
  <2> QED
    BY <1>2, <1>3, <2>1, <2>4, <2>5, <2>6, <2>7, PlannedTurnKeeps
<1> QED
  BY <1>2, <1>5, <1>6

LEMMA TurnIdlesKeeps ==
  ASSUME DotInv, TurnIdles
  PROVE  DotInv'
<1>1. PICK u : u = IF gcd > clock + Reaction THEN gcd ELSE clock + Reaction
  OBVIOUS
<1>2. PICK s : s = WaitUntil(Shared, u)
  OBVIOUS
<1>3. Turn /\ channel = NoDot /\ gcd' = gcd /\ clock' = clock /\ EndTurn(s)
  BY <1>1, <1>2 DEF TurnIdles
<1>4. clock \in 0..FightEnd /\ clock \in Int /\ gcd \in 0..Never
  BY InvFacts
<1>5. u \in 0..Never /\ clock <= u
  BY <1>1, <1>4, Later
<1>6. /\ Sound(s, clock, {}, {acting}) /\ s.channel = Shared.channel
      /\ Rotation \in ToSet(s.agenda)
  BY <1>2, <1>4, <1>5, InvFacts, WaitUntilSound
<1> QED
  BY <1>3, <1>4, <1>6, SharedIs, PlannedTurnKeeps

-----------------------------------------------------------------------------
(* The theorems.                                                           *)

LEMMA DotInvStep ==
  ASSUME DotInv, [DotNext]_dotVars
  PROVE  DotInv'
<1>1. CASE PopAction
  BY <1>1, PopKeeps
<1>2. CASE \E d \in Dots : Tick(d)
  BY <1>2, TickKeeps
<1>3. CASE \E t \in 0..FightEnd : (\E d \in Dots : Hit(d, t)) \/ CrowdControl(t) \/ React(t)
  BY <1>3, HitKeeps, CrowdControlKeeps, ReactKeeps
<1>4. CASE TurnWhileChannelling \/ TurnTooEarly \/ TurnCasts \/ TurnIdles
  BY <1>4, TurnWhileChannellingKeeps, TurnTooEarlyKeeps, TurnCastsKeeps, TurnIdlesKeeps
<1>5. CASE UNCHANGED dotVars
  <2>1. /\ clock' = clock /\ active' = active /\ dots' = dots /\ agenda' = agenda
        /\ wake' = wake /\ gcd' = gcd /\ channel' = channel /\ acting' = acting /\ cut' = cut
    BY <1>5 DEF dotVars
  <2>2. disturbed' = disturbed
    BY <1>5, Zenon DEF dotVars
  <2>3. Wakeful'
    <3>1. Wakeful
      BY DEF DotInv
    <3> QED
      BY <2>1, <2>2, <3>1, Zenon DEF Wakeful
  <2>4. disturbed' \in BOOLEAN
    BY <2>2, Zenon DEF DotInv
  <2>5. Become(Shared)
    BY <2>1, SharedIs DEF Become
  <2>6. /\ Sound(Shared, clock', {}, {acting'}) /\ clock' \in 0..FightEnd
        /\ gcd' \in 0..Never /\ acting' \in Items \cup {Event, Idle}
        /\ acting' \in Dots => acting' \in Shared.active /\ Shared.dots[acting'].next = clock'
    BY <2>1, InvFacts, SharedIs DEF DotInv
  <2> QED
    BY <2>3, <2>4, <2>5, <2>6, DotInvNext
<1>6. DotNext \/ UNCHANGED dotVars
  OBVIOUS
<1> QED
  BY <1>1, <1>2, <1>3, <1>4, <1>5, <1>6, Zenon DEF DotNext

LEMMA DotTypeHolds ==
  ASSUME DotInv
  PROVE  DotTypeOK
<1>1. /\ active \subseteq Dots /\ cut \subseteq Dots /\ dots \in [Dots -> DotRecord]
      /\ agenda \in Seq(Items) /\ wake \in 0..Never /\ channel \in Channels \cup {NoDot}
  BY InvFacts, SharedIs DEF SharedType
<1>2. clock \in 0..FightEnd /\ gcd \in 0..Never /\ acting \in Dots \cup {Rotation, Event, Idle}
  BY DEF DotInv, Items
<1>3. disturbed \in BOOLEAN
  BY Zenon DEF DotInv
<1>4. DotRecord = [expires : 0..Never, period : TickLengths, remaining : Int,
                   next : 0..Never, began : 0..FightEnd, fade : 0..FightEnd, made : Nat]
  BY DEF DotRecord
<1> HIDE DEF DotRecord
<1> QED
  BY <1>1, <1>2, <1>3, <1>4, Zenon DEF DotTypeOK, Items

\* Where a dot stands, in numbers.
LEMMA BeatOf ==
  ASSUME DotInv, NEW d \in Dots, NEW k \in Int
  PROVE  /\ dots[d].began \in Nat /\ dots[d].made \in Nat /\ dots[d].period \in Nat
         /\ dots[d].fade \in Nat /\ clock \in Nat
         /\ Beat(dots[d], k) = dots[d].began + (dots[d].made + k) * dots[d].period
         /\ (dots[d].made + k) * dots[d].period \in Int
<1>1. /\ dots[d].began \in Nat /\ dots[d].made \in Nat /\ dots[d].period \in Nat
      /\ dots[d].fade \in Nat
  BY InvFacts, SharedIs, RecordFacts
<1>2. clock \in Nat
  BY InvFacts
<1>3. (dots[d].made + k) * dots[d].period \in Int
  <2>1. PICK m \in Nat, p \in Nat : m = dots[d].made /\ p = dots[d].period
    BY <1>1
  <2> QED
    BY <2>1
<1> QED
  BY <1>1, <1>2, <1>3 DEF Beat

LEMMA BeatNow ==
  ASSUME DotInv, NEW d \in Dots
  PROVE  IF d \in active
         THEN OnBeat(Shared, d, clock)
         ELSE Performed(dots[d], d, dots[d].fade, cut)
BY InvFacts, SharedIs DEF Sound, Beats

LEMMA NoExtraTickHolds ==
  ASSUME DotInv
  PROVE  NoExtraTick
<1> SUFFICES ASSUME NEW d \in Dots
             PROVE  LET again == IF d \in OwnEnding \ active THEN 1 ELSE 0
                    IN  (dots[d].made - again) * dots[d].period <= Age(d)
  BY DEF NoExtraTick
<1>1. PICK k \in Int : k = IF d \in OwnEnding \ active THEN -1 ELSE 0
  OBVIOUS
<1>2. PICK x \in Int : x = (dots[d].made + k) * dots[d].period
  BY BeatOf
<1>3. PICK b \in Nat, t \in Nat :
         b = dots[d].began /\ t = IF d \in active THEN clock ELSE dots[d].fade
  <2>1. 0 \in Int
    OBVIOUS
  <2> QED
    BY <2>1, BeatOf
<1>4. Beat(dots[d], k) = b + x
  BY <1>2, <1>3, BeatOf
<1>5. Beat(dots[d], k) <= t
  <2>1. CASE d \in active
    BY <1>1, <1>3, <2>1, BeatNow, SharedIs DEF OnBeat
  <2>2. CASE d \notin active
    BY <1>1, <1>3, <2>2, BeatNow DEF Performed
  <2> QED
    BY <2>1, <2>2
<1>6. x <= Age(d)
  BY <1>3, <1>4, <1>5 DEF Age
<1>7. PICK m \in Nat : m = dots[d].made
  BY <1>1, BeatOf
<1>8. m - (IF d \in OwnEnding \ active THEN 1 ELSE 0) = m + k
  BY <1>1
<1> QED
  BY <1>2, <1>6, <1>7, <1>8

LEMMA NoTickMissedHolds ==
  ASSUME DotInv
  PROVE  NoTickMissed
<1> SUFFICES ASSUME NEW d \in Dots
             PROVE  LET due == (dots[d].made + 1) * dots[d].period
                    IN \/ Age(d) < due
                       \/ Age(d) = due /\ d \in active /\ dots[d].next = clock
                       \/ Age(d) = due /\ d \in cut \ active
  BY DEF NoTickMissed
<1>1. 1 \in Int
  OBVIOUS
<1>2. PICK x \in Int : x = (dots[d].made + 1) * dots[d].period
  BY <1>1, BeatOf
<1>3. PICK b \in Nat : b = dots[d].began
  BY <1>1, BeatOf
<1>4. Beat(dots[d], 1) = b + x
  BY <1>1, <1>2, <1>3, BeatOf
<1>5. CASE d \in active
  <2>1. clock <= dots[d].next /\ dots[d].next = b + x
    BY <1>4, <1>5, BeatNow, SharedIs DEF OnBeat
  <2>2. clock \in Nat
    BY <1>1, BeatOf
  <2>3. Age(d) = clock - b
    BY <1>3, <1>5 DEF Age
  <2>4. clock - b < x \/ (clock - b = x /\ dots[d].next = clock)
    BY <2>1, <2>2
  <2> QED
    BY <1>2, <1>5, <2>3, <2>4
<1>6. CASE d \notin active
  <2>1. PICK t \in Nat : t = dots[d].fade
    BY <1>1, BeatOf
  <2>2. t < b + x \/ (t = b + x /\ d \in cut)
    BY <1>4, <1>6, <2>1, BeatNow DEF Performed
  <2>3. Age(d) = t - b
    BY <1>3, <1>6, <2>1 DEF Age
  <2>4. t - b < x \/ (t - b = x /\ d \in cut)
    BY <2>2
  <2> QED
    BY <1>2, <1>6, <2>3, <2>4
<1> QED
  BY <1>5, <1>6

LEMMA OneTickQueuedHolds ==
  ASSUME DotInv
  PROVE  OneTickQueued
<1> SUFFICES ASSUME acting = Idle, NEW d \in Dots
             PROVE  /\ Cardinality({i \in DOMAIN agenda : agenda[i] = d})
                         = (IF d \in active THEN 1 ELSE 0)
                    /\ d \in active =>
                         dots[d].next = dots[d].began + (dots[d].made + 1) * dots[d].period
  BY DEF OneTickQueued
<1>1. /\ Distinct(agenda) /\ agenda \in Seq(Items)
      /\ d \in ToSet(agenda) <=> d \in active
  <2>1. InOrder(Shared, clock, {}) /\ Ticking(Shared, {acting}) /\ Shared \in SharedType
    BY InvFacts DEF Sound
  <2> QED
    BY <2>1, SharedIs, DotFacts DEF InOrder, Ticking, SharedType, Items
<1> DEFINE I == {i \in DOMAIN agenda : agenda[i] = d}
<1>2. CASE d \in active
  <2>1. PICK i \in DOMAIN agenda : agenda[i] = d
    BY <1>1, <1>2 DEF ToSet
  <2>2. I = {i}
    BY <1>1, <2>1, LenProperties DEF Distinct
  <2>3. Cardinality(I) = 1
    BY <2>2, FS_Singleton
  <2>4. 1 \in Int
    OBVIOUS
  <2>5. dots[d].next = Beat(dots[d], 1)
    BY <1>2, BeatNow, SharedIs DEF OnBeat
  <2> QED
    BY <1>2, <2>3, <2>4, <2>5, BeatOf
<1>3. CASE d \notin active
  <2>1. I = {}
    BY <1>1, <1>3 DEF ToSet
  <2>2. Cardinality(I) = 0
    BY <2>1, FS_EmptySet
  <2> QED
    BY <1>3, <2>2
<1> QED
  BY <1>2, <1>3

LEMMA RotationHolds ==
  ASSUME DotInv
  PROVE  RotationNeverLost
<1>1. Wakeful
  BY DEF DotInv
<1>2. Idle # Rotation
  BY DotFacts DEF Items
<1> QED
  BY <1>1, <1>2, Zenon DEF Wakeful, RotationNeverLost

LEMMA DotInvariance == DotSpec => []DotInv
<1>1. DotInit => DotInv
  BY DotInvInit
<1>2. DotInv /\ [DotNext]_dotVars => DotInv'
  BY DotInvStep
<1> QED
  BY <1>1, <1>2, PTL DEF DotSpec

\* The state of a caster stays in its type, however its dots and channels interleave.
THEOREM DotTypeCorrect == DotSpec => []DotTypeOK
<1>1. DotInv => DotTypeOK
  BY DotTypeHolds
<1> QED
  BY <1>1, DotInvariance, PTL

\* A dot never ticks twice for one period, however it is prolonged, replaced, consumed or fades
\* (src/sim/core/dot.go:344, :349): the tick that the fading aura performs and the tick of the
\* agenda are never the same one.
THEOREM NoTickTwice == DotSpec => []NoExtraTick
<1>1. DotInv => NoExtraTick
  BY NoExtraTickHolds
<1> QED
  BY <1>1, DotInvariance, PTL

\* A dot loses no tick but the one an interrupt waives, and an active dot has exactly one tick
\* on the agenda, on its own beat.
THEOREM NoTickLost == DotSpec => []TicksKept
<1>1. DotInv => TicksKept
  BY NoTickMissedHolds, OneTickQueuedHolds DEF TicksKept
<1> QED
  BY <1>1, DotInvariance, PTL

\* A caster that is not channelling has a wake-up on the agenda (src/sim/core/dot.go:357), unless
\* a reaction during a channel has used it up.
THEOREM RotationStaysAwake == DotSpec => []RotationNeverLost
<1>1. DotInv => RotationNeverLost
  BY RotationHolds
<1> QED
  BY <1>1, DotInvariance, PTL
=============================================================================
