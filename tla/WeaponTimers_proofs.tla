------------------------- MODULE WeaponTimers_proofs -------------------------
(* Proofs about WeaponTimers for any attacks, units, speeds and any clock: the *)
(* list holds the enabled attacks, the event loop does not sleep past a swing *)
(* (AttacksKept), and no swing comes late (SwingsOnTime), unless attacks were *)
(* stopped and others started within one pass.                                *)
(*                                                                            *)
(* The list is altered while the loop ranges over it.  What saves the loop is *)
(* in RemovedFacts and AddedFacts: a removal overwrites the place of the      *)
(* attack that is removed and leaves the old last place as it is, so that the *)
(* attack that moved is still found there; an addition writes behind the end, *)
(* where the loop does not look, and tells the simulation of its timer.       *)
(* Together they spoil this: after a removal the end lies within what the     *)
(* loop ranges over, and an addition overwrites the attack that moved.  Hence *)
(* GrownInv, and the exception in CoverInv.                                   *)
EXTENDS WeaponTimers, FiniteSetTheorems, WellFoundedInduction, TLAPS

\* The first n places of the array a hold the attacks E, each once.
Lists(a, n, E) ==
    /\ a \in [DOMAIN Roster -> Attacks] /\ n \in 0..Len(Roster)
    /\ \A w \in Attacks : w \in E <=> \E i \in 1..n : a[i] = w
    /\ \A i, j \in 1..n : a[i] = a[j] => i = j

-----------------------------------------------------------------------------
(* The operators.                                                            *)

LEMMA RosterFacts ==
    /\ Len(Roster) \in Nat /\ Roster \in [1..Len(Roster) -> Attacks]
    /\ DOMAIN Roster = 1..Len(Roster)
    /\ IsFiniteSet(Attacks) /\ Cardinality(Attacks) = Len(Roster)
    /\ \A i, j \in 1..Len(Roster) : Roster[i] = Roster[j] => i = j
    /\ \A w \in Attacks : \E i \in 1..Len(Roster) : Roster[i] = w
<1> DEFINE n == Len(Roster)
<1>1. n \in Nat /\ Roster \in [1..n -> Attacks] /\ DOMAIN Roster = 1..n
  BY HandsAssumption
<1>2. \A w \in Attacks : \E i \in 1..n : Roster[i] = w
  BY <1>1 DEF Attacks, ToSet
<1>3. Roster \in Bijection(1..n, Attacks)
  <2>1. IsInjective(Roster)
    BY HandsAssumption DEF IsInjective
  <2> QED
    BY <1>1, <1>2, <2>1 DEF Bijection, Injection, Surjection
<1>4. IsFiniteSet(1..n) /\ Cardinality(1..n) = n
  BY <1>1, FS_Interval
<1>5. IsFiniteSet(Attacks) /\ Cardinality(Attacks) = Cardinality(1..n)
  BY <1>3, <1>4, FS_Bijection DEF ExistsBijection
<1> QED
  BY <1>1, <1>2, <1>4, <1>5, HandsAssumption

LEMMA HandFacts ==
    /\ MaxDelay \in Nat /\ MaxTime \in Nat /\ Never \in Nat /\ NoAttack \notin Attacks
    /\ \A w \in Attacks : /\ Speed[w] \in Nat /\ Speed[w] > 0
                          /\ MaxTime + MaxDelay + Speed[w] < Never
    /\ \A u \in Units :
          /\ Hands[u].mh \in Attacks => Hands[u].mh # Hands[u].oh /\ Hands[u].mh # Hands[u].ranged
          /\ Hands[u].oh \in Attacks => Hands[u].oh # Hands[u].ranged
    /\ \A u \in Units : MeleeOf(u) \subseteq Attacks /\ AttacksOf(u) \subseteq Attacks
<1>1. \A w \in Attacks : Speed[w] \in Nat /\ Speed[w] > 0
  BY HandsAssumption
<1>2. \A u \in Units : MeleeOf(u) \subseteq Attacks /\ AttacksOf(u) \subseteq Attacks
  BY DEF MeleeOf, AttacksOf
<1> QED
  BY <1>1, <1>2, HandsAssumption

\* Attacks that are not on the list leave room for one of them.
LEMMA RoomForOne ==
    ASSUME NEW a, NEW n, NEW E, Lists(a, n, E), NEW w \in Attacks, w \notin E
    PROVE  n + 1 \in 1..Len(Roster)
<1> DEFINE f == [i \in 1..n |-> a[i]]
<1>1. n \in Nat /\ Len(Roster) \in Nat /\ n <= Len(Roster)
  BY RosterFacts DEF Lists
<1>2. f \in Injection(1..n, Attacks \ {w})
  <2>1. \A i \in 1..n : i \in DOMAIN Roster
    BY <1>1, RosterFacts
  <2>2. \A i \in 1..n : a[i] \in Attacks /\ a[i] # w
    BY <2>1 DEF Lists
  <2>3. f \in [1..n -> Attacks \ {w}]
    BY <2>2
  <2>4. DOMAIN f = 1..n /\ \A i \in 1..n : f[i] = a[i]
    OBVIOUS
  <2>5. \A i, j \in 1..n : a[i] = a[j] => i = j
    BY DEF Lists
  <2> HIDE DEF f
  <2>6. IsInjective(f)
    BY <2>4, <2>5 DEF IsInjective
  <2> QED
    BY <2>3, <2>6 DEF Injection
<1>3. IsFiniteSet(Attacks \ {w}) /\ Cardinality(Attacks \ {w}) = Len(Roster) - 1
  BY RosterFacts, FS_RemoveElement
<1>4. Cardinality(1..n) = n
  BY <1>1, FS_Interval
<1>5. Cardinality(1..n) <= Cardinality(Attacks \ {w})
  <2> HIDE DEF f
  <2> QED
    BY <1>2, <1>3, FS_Injection
<1> QED
  BY <1>1, <1>3, <1>4, <1>5

\* Taking an attack off the list moves the last one into its place, and no other.
LEMMA RemovedFacts ==
    ASSUME NEW s, NEW E, Lists(s.array, s.len, E), NEW w, w \in enabled => w \in E /\ w \in Attacks
    PROVE  LET t == Removed(s, w)
           IN  /\ Lists(t.array, t.len, IF w \in enabled THEN E \ {w} ELSE E)
               /\ \A i \in 1..Len(Roster) :
                     \/ t.array[i] = s.array[i]
                     \/ s.array[i] = w /\ w \in enabled /\ t.array[i] \in E
<1> DEFINE a == s.array
           n == s.len
           b == [i \in DOMAIN a |-> IF i <= n /\ a[i] = w THEN a[n] ELSE a[i]]
<1>0. a \in [1..Len(Roster) -> Attacks] /\ n \in 0..Len(Roster) /\ Len(Roster) \in Nat
  BY RosterFacts DEF Lists
<1>1. CASE w \notin enabled
  BY <1>1 DEF Removed
<1>2. CASE w \in enabled
  <2>1. Removed(s, w).array = b /\ Removed(s, w).len = n - 1
    BY <1>2 DEF Removed, RemoveWeaponAttack
  <2>2. PICK k \in 1..n : a[k] = w
    BY <1>2 DEF Lists
  <2>3. \A i, j \in 1..n : a[i] = a[j] => i = j
    BY DEF Lists
  <2>4. \A v \in Attacks : v \in E <=> \E i \in 1..n : a[i] = v
    BY DEF Lists
  <2> HIDE DEF a, n
  <2>5. n \in 1..Len(Roster) /\ k \in 1..Len(Roster) /\ a[n] \in Attacks
    BY <1>0, <2>2
  <2>6. /\ b \in [1..Len(Roster) -> Attacks] /\ b[k] = a[n]
        /\ \A i \in 1..Len(Roster) : i # k => b[i] = a[i]
    BY <1>0, <2>2, <2>3, <2>5
  <2> HIDE DEF b
  <2>7. \A v \in Attacks : v \in E \ {w} <=> \E i \in 1..(n - 1) : b[i] = v
    <3> SUFFICES ASSUME NEW v \in Attacks
                 PROVE  v \in E \ {w} <=> \E i \in 1..(n - 1) : b[i] = v
      OBVIOUS
    <3>1. ASSUME v \in E \ {w} PROVE \E i \in 1..(n - 1) : b[i] = v
      <4>1. PICK i \in 1..n : a[i] = v
        BY <2>4, <3>1
      <4>2. CASE i # n
        BY <1>0, <2>2, <2>5, <2>6, <3>1, <4>1, <4>2
      <4>3. CASE i = n
        BY <1>0, <2>2, <2>5, <2>6, <3>1, <4>1, <4>3
      <4> QED
        BY <4>2, <4>3
    <3>2. ASSUME NEW i \in 1..(n - 1), b[i] = v PROVE v \in E \ {w}
      <4>1. i \in 1..n /\ i \in 1..Len(Roster) /\ i # n /\ n \in 1..n
        BY <1>0, <2>5
      <4>2. CASE i = k
        BY <2>2, <2>3, <2>4, <2>6, <3>2, <4>1, <4>2
      <4>3. CASE i # k
        BY <2>2, <2>3, <2>4, <2>6, <3>2, <4>1, <4>3
      <4> QED
        BY <4>2, <4>3
    <3> QED
      BY <3>1, <3>2
  <2>8. \A i, j \in 1..(n - 1) : b[i] = b[j] => i = j
    <3> SUFFICES ASSUME NEW i \in 1..(n - 1), NEW j \in 1..(n - 1), b[i] = b[j] PROVE i = j
      OBVIOUS
    <3>1. /\ i \in 1..n /\ i \in 1..Len(Roster) /\ i # n
          /\ j \in 1..n /\ j \in 1..Len(Roster) /\ j # n /\ n \in 1..n
      BY <1>0, <2>5
    <3> QED
      BY <2>3, <2>6, <3>1
  <2>9. Lists(b, n - 1, E \ {w})
    <3>1. n - 1 \in 0..Len(Roster) /\ b \in [DOMAIN Roster -> Attacks]
      BY <1>0, <2>5, <2>6, RosterFacts
    <3> QED
      BY <2>7, <2>8, <3>1 DEF Lists
  <2>10. \A i \in 1..Len(Roster) : b[i] = a[i] \/ (a[i] = w /\ b[i] \in E)
    <3>1. a[n] \in E
      BY <2>4, <2>5, <1>0
    <3> QED
      BY <2>2, <2>6, <3>1
  <2> QED
    BY <1>2, <2>1, <2>9, <2>10 DEF a, n
<1> QED
  BY <1>1, <1>2

\* Adding an attack writes the place behind the end, and no other.
LEMMA AddedFacts ==
    ASSUME NEW s, NEW E, Lists(s.array, s.len, E), NEW w,
           w \in Attacks \ enabled => w \notin E
    PROVE  LET t == Added(s, w)
           IN  /\ Lists(t.array, t.len, IF w \in Attacks \ enabled THEN E \cup {w} ELSE E)
               /\ t.len \in Nat /\ t.len >= s.len
               /\ \A i \in 1..Len(Roster) :
                     \/ t.array[i] = s.array[i]
                     \/ i > s.len /\ t.array[i] = w /\ w \in Attacks \ enabled
<1> DEFINE a == s.array
           n == s.len
           b == [a EXCEPT ![n + 1] = w]
<1>0. a \in [1..Len(Roster) -> Attacks] /\ n \in 0..Len(Roster) /\ Len(Roster) \in Nat
  BY RosterFacts DEF Lists
<1>1. CASE w \notin Attacks \ enabled
  BY <1>0, <1>1 DEF Added
<1>2. CASE w \in Attacks \ enabled
  <2>1. Added(s, w).array = b /\ Added(s, w).len = n + 1
    BY <1>2 DEF Added, AddWeaponAttack
  <2>2. n + 1 \in 1..Len(Roster)
    BY <1>2, RoomForOne
  <2>3. /\ \A i, j \in 1..n : a[i] = a[j] => i = j
        /\ \A v \in Attacks : v \in E <=> \E i \in 1..n : a[i] = v
    BY DEF Lists
  <2> HIDE DEF a, n
  <2>4. /\ b \in [1..Len(Roster) -> Attacks] /\ b[n + 1] = w
        /\ \A i \in 1..Len(Roster) : i # n + 1 => b[i] = a[i]
    BY <1>0, <1>2, <2>2
  <2> HIDE DEF b
  <2>5. \A i \in 1..(n + 1) : i = n + 1 \/ (i \in 1..n /\ i # n + 1)
    BY <1>0
  <2>6. \A i \in 1..n : i \in 1..(n + 1) /\ i \in 1..Len(Roster) /\ i # n + 1
    BY <1>0
  <2>7. \A v \in Attacks : v \in E \cup {w} <=> \E i \in 1..(n + 1) : b[i] = v
    <3>1. ASSUME NEW v \in Attacks, v \in E PROVE \E i \in 1..(n + 1) : b[i] = v
      <4>1. PICK i \in 1..n : a[i] = v
        BY <2>3, <3>1
      <4> QED
        BY <2>4, <2>6, <4>1
    <3>2. \E i \in 1..(n + 1) : b[i] = w
      <4>1. n + 1 \in 1..(n + 1)
        BY <1>0
      <4> QED
        BY <2>4, <4>1
    <3>3. ASSUME NEW i \in 1..(n + 1), b[i] \in Attacks, b[i] # w PROVE b[i] \in E
      BY <2>3, <2>4, <2>5, <2>6, <3>3
    <3> QED
      BY <3>1, <3>2, <3>3
  <2>8. \A i, j \in 1..(n + 1) : b[i] = b[j] => i = j
    <3>1. \A i \in 1..n : b[i] = a[i] /\ a[i] # w
      BY <1>2, <2>3, <2>4, <2>6
    <3> QED
      BY <2>3, <2>4, <2>5, <3>1
  <2>9. Lists(b, n + 1, E \cup {w})
    <3>1. n + 1 \in 0..Len(Roster) /\ b \in [DOMAIN Roster -> Attacks]
      BY <1>0, <2>2, <2>4, RosterFacts
    <3> QED
      BY <2>7, <2>8, <3>1 DEF Lists
  <2>10. /\ n + 1 \in Nat /\ n + 1 >= n
         /\ \A i \in 1..Len(Roster) : b[i] = a[i] \/ (i > n /\ b[i] = w)
    BY <1>0, <2>4
  <2> QED
    BY <1>2, <2>1, <2>9, <2>10 DEF a, n
<1> QED
  BY <1>1, <1>2

LEMMA MinFacts ==
    ASSUME NEW I \in SUBSET Nat, I # {}
    PROVE  Min(I) \in I /\ \A i \in I : Min(I) <= i
<1>1. IsWellFoundedOn(OpToRel(<, Nat), Nat)
  BY NatLessThanWellFounded
<1>2. PICK m \in I : \A k \in I : ~ (<<k, m>> \in OpToRel(<, Nat))
  BY <1>1, WFMin
<1>3. \A k \in I : m <= k
  <2> SUFFICES ASSUME NEW k \in I PROVE ~ (k < m)
    OBVIOUS
  <2>1. <<k, m>> \in Nat \X Nat /\ ~ (<<k, m>> \in OpToRel(<, Nat))
    BY <1>2
  <2> QED
    BY <2>1 DEF OpToRel
<1> QED
  BY <1>3 DEF Min

LEMMA MaxFacts ==
    ASSUME NEW a \in Nat, NEW b \in Nat
    PROVE  Max({a, b}) \in {a, b} /\ Max({a, b}) >= a /\ Max({a, b}) >= b
<1>1. PICK m \in {a, b} : m >= a /\ m >= b
  OBVIOUS
<1>2. \A y \in {a, b} : m >= y
  BY <1>1
<1>3. Max({a, b}) \in {a, b} /\ \A y \in {a, b} : Max({a, b}) >= y
  BY <1>1, <1>2 DEF Max
<1> QED
  BY <1>3

\* The cached time after the loop has been told of the timers of S.
LEMMA RescheduleFacts ==
    ASSUME minTime \in 0..Never, NEW S \in SUBSET Attacks, NEW at,
           \A w \in S : at[w] \in 0..Never
    PROVE  LET m == RescheduleWeaponAttack(S, at)
           IN  m \in 0..Never /\ m <= minTime /\ \A w \in S : m <= at[w]
<1> DEFINE I == {minTime} \cup {at[w] : w \in S}
<1>1. Never \in Nat
  BY HandFacts
<1>2. I \in SUBSET Nat /\ I # {} /\ minTime \in I /\ \A w \in S : at[w] \in I
  BY <1>1
<1>3. \A i \in I : i \in 0..Never
  BY <1>1
<1> HIDE DEF I
<1>4. Min(I) \in I /\ \A i \in I : Min(I) <= i
  BY <1>2, MinFacts
<1>5. RescheduleWeaponAttack(S, at) = Min(I)
  BY DEF RescheduleWeaponAttack, I
<1> QED
  BY <1>2, <1>3, <1>4, <1>5

-----------------------------------------------------------------------------
(* The invariant.                                                            *)

ListInv == Lists(attacks, listed, enabled)

PassInv ==
    /\ pass.at = 0 => pass = NoPass
    /\ pass.at # 0 => pass.at <= pass.upto /\ pass.cur \in Attacks /\ pass.stage # "none"

\* The places of the array the loop has yet to visit.
Ahead == (pass.at + 1)..pass.upto
Coming(w) == \E j \in Ahead : attacks[j] = w

\* Nothing has been taken from the list the loop began with.
GrownInv == pass.at # 0 /\ pass.list = "kept" => pass.upto <= listed

\* No timer of w has passed, and the event loop knows of it.
Awaited(w) == minTime <= swingAt[w] /\ now <= swingAt[w]

\* While the loop runs, an attack it does not know of is ahead of it or at hand.
CoverInv ==
    pass.at # 0 /\ pass.list # "restarted" =>
        \A w \in enabled : Coming(w) \/ w = pass.cur \/ Awaited(w)

WaitInv == pass.at = 0 /\ ~Overlooked => \A w \in enabled : Awaited(w)

\* The loop does not come late to what it visits.
LateInv ==
    pass.at # 0 /\ ~Overlooked =>
        /\ \A w \in enabled : now <= swingAt[w]
        /\ \A j \in Ahead : now <= swingAt[attacks[j]]
        /\ pass.stage = "try" => now <= swingAt[pass.cur]

CastInv == pass.stage = "cast" => now <= swingAt[pass.cur]

IInv ==
    /\ TypeOK /\ ListInv /\ PassInv /\ GrownInv
    /\ CoverInv /\ WaitInv /\ LateInv /\ CastInv

LEMMA NoPassFacts ==
    ASSUME TypeOK, PassInv
    PROVE  /\ pass = NoPass <=> pass.at = 0
           /\ pass.stage \in {"try", "react", "cast"} => pass.at # 0
           /\ pass.at # 0 => pass.at \in 1..Len(Roster) /\ pass.upto \in 1..Len(Roster)
           /\ pass.at \in Nat /\ pass.upto \in Nat
  BY RosterFacts DEF TypeOK, PassInv, NoPass

-----------------------------------------------------------------------------
(* The first state.                                                          *)

LEMMA InitInv == Init => IInv
<1> SUFFICES ASSUME Init PROVE IInv
  OBVIOUS
<1>1. /\ now = 0 /\ enabled = Attacks /\ swingAt \in [Attacks -> 0..Never]
      /\ attacks = Roster /\ listed = Len(Roster) /\ pass = NoPass /\ lastList = "kept"
  BY DEF Init
<1>2. minTime \in 0..Never /\ \A w \in Attacks : minTime <= swingAt[w]
  <2> DEFINE I == {Never} \cup {swingAt[w] : w \in Attacks}
  <2>1. I \in SUBSET Nat /\ I # {} /\ \A i \in I : i \in 0..Never
    BY <1>1, HandFacts
  <2>2. \A w \in Attacks : swingAt[w] \in I
    OBVIOUS
  <2>3. minTime = Min(I)
    BY DEF Init
  <2> HIDE DEF I
  <2> QED
    BY <2>1, <2>2, <2>3, MinFacts
<1>3. TypeOK
  BY <1>1, <1>2, RosterFacts, HandFacts DEF TypeOK, NoPass
<1>4. ListInv
  <2>1. Lists(Roster, Len(Roster), Attacks)
    BY RosterFacts DEF Lists
  <2> QED
    BY <1>1, <2>1 DEF ListInv
<1>5. WaitInv
  BY <1>1, <1>2, HandFacts DEF WaitInv, Awaited
<1> QED
  BY <1>1, <1>3, <1>4, <1>5
     DEF IInv, PassInv, GrownInv, CoverInv, LateInv, CastInv, NoPass

-----------------------------------------------------------------------------
(* Game code, between passes or within one.                                  *)

\* What game code does to the timers and the list without spoiling the loop's work.
LEMMA CodeSafe ==
    ASSUME IInv, TypeOK', ListInv', GrownInv', UNCHANGED <<now, lastList>>,
           pass'.at = pass.at, pass'.upto = pass.upto, pass'.cur = pass.cur,
           pass'.stage = pass.stage, pass = NoPass => pass' = NoPass,
           \A w \in Attacks : swingAt'[w] = swingAt[w] \/ now <= swingAt'[w],
           \A w \in enabled' : \/ Awaited(w)'
                               \/ w \in enabled /\ (Awaited(w) => Awaited(w)'),
           \A w \in enabled' : w \notin enabled => now <= swingAt'[w],
           pass'.list # "restarted" =>
               pass.list # "restarted" /\ \A w \in enabled' : Coming(w) => Coming(w)',
           \A j \in 1..Len(Roster) :
               attacks'[j] = attacks[j] \/ attacks'[j] \in enabled \cup enabled'
    PROVE  IInv'
<1>0. TypeOK /\ PassInv
  BY DEF IInv
<1>1. PassInv'
  BY <1>0 DEF PassInv, NoPass, TypeOK
<1>2. enabled \subseteq Attacks /\ enabled' \subseteq Attacks
  BY <1>0 DEF TypeOK
<1>3. CoverInv'
  <2> SUFFICES ASSUME pass'.at # 0, pass'.list # "restarted", NEW w \in enabled'
               PROVE  Coming(w)' \/ w = pass'.cur \/ Awaited(w)'
    BY DEF CoverInv
  <2>1. w \in enabled => Coming(w) \/ w = pass.cur \/ Awaited(w)
    BY DEF IInv, CoverInv
  <2> QED
    BY <2>1
<1>4. WaitInv'
  <2> SUFFICES ASSUME pass'.at = 0, ~Overlooked', NEW w \in enabled'
               PROVE  Awaited(w)'
    BY DEF WaitInv
  <2>1. w \in enabled => Awaited(w)
    BY DEF IInv, WaitInv, Overlooked
  <2> QED
    BY <2>1
<1>5. LateInv'
  <2> SUFFICES ASSUME pass'.at # 0, ~Overlooked'
               PROVE  /\ \A w \in enabled' : now' <= swingAt'[w]
                      /\ \A j \in Ahead' : now' <= swingAt'[attacks'[j]]
                      /\ pass'.stage = "try" => now' <= swingAt'[pass'.cur]
    BY DEF LateInv
  <2>1. /\ \A w \in enabled : now <= swingAt[w]
        /\ \A j \in Ahead : now <= swingAt[attacks[j]]
        /\ pass.stage = "try" => now <= swingAt[pass.cur]
    BY DEF IInv, LateInv, Overlooked
  <2>2. \A w \in enabled \cup enabled' : now' <= swingAt'[w]
    BY <1>2, <2>1
  <2>3. \A j \in Ahead' : now' <= swingAt'[attacks'[j]]
    <3> SUFFICES ASSUME NEW j \in Ahead' PROVE now' <= swingAt'[attacks'[j]]
      OBVIOUS
    <3>1. j \in Ahead /\ j \in 1..Len(Roster)
      BY <1>0, RosterFacts DEF Ahead, TypeOK
    <3>2. attacks[j] \in Attacks
      BY <1>0, <3>1, RosterFacts DEF TypeOK
    <3> QED
      BY <2>1, <2>2, <3>1, <3>2
  <2>4. pass.cur \in Attacks
    BY <1>0 DEF PassInv
  <2> QED
    BY <2>1, <2>2, <2>3, <2>4
<1>6. CastInv'
  <2>1. pass.stage = "cast" => pass.cur \in Attacks /\ now <= swingAt[pass.cur]
    BY <1>0, NoPassFacts DEF IInv, CastInv, PassInv
  <2> QED
    BY <2>1 DEF CastInv
<1> QED
  BY <1>1, <1>3, <1>4, <1>5, <1>6 DEF IInv

LEMMA MoveInv ==
    ASSUME IInv, NEW S \in SUBSET Attacks, NEW at, MoveTimers(S, at),
           \A w \in S : at[w] \in 0..Never /\ (now <= at[w] \/ at[w] = swingAt[w])
    PROVE  IInv'
<1>0. TypeOK /\ ListInv /\ GrownInv
  BY DEF IInv
<1>1. /\ swingAt' = [w \in Attacks |-> IF w \in S THEN at[w] ELSE swingAt[w]]
      /\ minTime' = RescheduleWeaponAttack(S, at)
      /\ UNCHANGED <<now, enabled, attacks, listed, pass, lastList>>
  BY DEF MoveTimers
<1>2. minTime' \in 0..Never /\ minTime' <= minTime /\ \A w \in S : minTime' <= at[w]
  BY <1>0, <1>1, RescheduleFacts DEF TypeOK
<1>3. swingAt' \in [Attacks -> 0..Never]
  BY <1>0, <1>1 DEF TypeOK
<1>4. TypeOK'
  BY <1>0, <1>1, <1>2, <1>3 DEF TypeOK
<1>5. ListInv' /\ GrownInv'
  BY <1>0, <1>1 DEF ListInv, GrownInv
<1>6. \A w \in Attacks : swingAt'[w] = swingAt[w] \/ now <= swingAt'[w]
  BY <1>1
<1>7. \A w \in enabled : Awaited(w) => Awaited(w)'
  <2> SUFFICES ASSUME NEW w \in enabled, Awaited(w) PROVE Awaited(w)'
    OBVIOUS
  <2>1. w \in Attacks /\ swingAt[w] \in Nat /\ minTime \in Nat /\ now \in Nat /\ minTime' \in Nat
    BY <1>0, <1>2, HandFacts DEF TypeOK
  <2>2. CASE w \in S
    BY <1>1, <1>2, <2>1, <2>2 DEF Awaited
  <2>3. CASE w \notin S
    BY <1>1, <1>2, <2>1, <2>3 DEF Awaited
  <2> QED
    BY <2>2, <2>3
<1>8. \A w \in enabled' : Coming(w) => Coming(w)'
  BY <1>1 DEF Coming, Ahead
<1> QED
  BY <1>1, <1>4, <1>5, <1>6, <1>7, <1>8, CodeSafe

LEMMA StopInv ==
    ASSUME IInv, NEW u \in Units, NEW t, StopMeleeUntil(u, t)
    PROVE  IInv'
<1> DEFINE at == [w \in Attacks |-> t + Speed[w]]
<1>1. MoveTimers(MeleeOf(u), at) /\ t \in now..(now + MaxDelay)
  BY DEF StopMeleeUntil
<1>2. \A w \in MeleeOf(u) : at[w] \in 0..Never /\ now <= at[w]
  <2> SUFFICES ASSUME NEW w \in MeleeOf(u) PROVE at[w] \in 0..Never /\ now <= at[w]
    OBVIOUS
  <2>1. w \in Attacks /\ at[w] = t + Speed[w]
    BY HandFacts
  <2> QED
    BY <1>1, <2>1, HandFacts DEF IInv, TypeOK
<1> HIDE DEF at
<1> QED
  BY <1>1, <1>2, HandFacts, MoveInv

LEMMA PauseInv ==
    ASSUME IInv, NEW u \in Units, NEW d \in 1..MaxDelay, PauseMeleeBy(u, d)
    PROVE  IInv'
<1> DEFINE at == [w \in Attacks |-> now + d]
           held == {w \in MeleeOf(u) : swingAt[w] < now + d}
<1>1. MoveTimers(held, at) /\ held \subseteq Attacks
  BY HandFacts DEF PauseMeleeBy
<1>2. \A w \in held : at[w] \in 0..Never /\ now <= at[w]
  <2> SUFFICES ASSUME NEW w \in held PROVE at[w] \in 0..Never /\ now <= at[w]
    OBVIOUS
  <2>1. w \in Attacks /\ at[w] = now + d
    BY HandFacts
  <2> QED
    BY <2>1, HandFacts DEF IInv, TypeOK
<1> HIDE DEF at, held
<1> QED
  BY <1>1, <1>2, MoveInv

LEMMA UpdateInv ==
    ASSUME IInv, NEW u \in Units, UpdateSwingTimers(u)
    PROVE  IInv'
<1> DEFINE at == [w \in Attacks |->
                     IF swingAt[w] > now THEN now + (swingAt[w] - now) \div 2 ELSE swingAt[w]]
           on == {w \in MeleeOf(u) : Hands[u].mh \in enabled} \cap enabled
<1>1. MoveTimers(on, at) /\ on \subseteq Attacks
  BY HandFacts DEF UpdateSwingTimers
<1>2. \A w \in on : at[w] \in 0..Never /\ (now <= at[w] \/ at[w] = swingAt[w])
  <2> SUFFICES ASSUME NEW w \in on
               PROVE  at[w] \in 0..Never /\ (now <= at[w] \/ at[w] = swingAt[w])
    OBVIOUS
  <2>1. w \in Attacks /\ swingAt[w] \in 0..Never /\ now \in Nat /\ Never \in Nat
    BY HandFacts DEF IInv, TypeOK
  <2>2. at[w] = IF swingAt[w] > now THEN now + (swingAt[w] - now) \div 2 ELSE swingAt[w]
    BY <2>1
  <2> HIDE DEF at
  <2>3. CASE swingAt[w] > now
    <3>1. PICK x \in Nat : x = swingAt[w] - now
      BY <2>1, <2>3
    <3>2. x \div 2 \in Nat /\ x \div 2 <= x
      OBVIOUS
    <3> QED
      BY <2>1, <2>2, <2>3, <3>1, <3>2
  <2> QED
    BY <2>1, <2>2, <2>3
<1> HIDE DEF at, on
<1> QED
  BY <1>1, <1>2, MoveInv

\* Cancelling: the list loses the unit's attacks, and what the loop has ahead stays.
LEMMA CancelInv ==
    ASSUME IInv, NEW u \in Units, CancelAutoSwing(u)
    PROVE  IInv'
<1> DEFINE h == Hands[u]
           s0 == Slice
           s1 == Removed(s0, h.mh)
           s2 == Removed(s1, h.oh)
           s3 == Removed(s2, h.ranged)
           F(w) == {w} \cap enabled
<1>0. TypeOK /\ ListInv /\ PassInv /\ GrownInv /\ enabled \subseteq Attacks
  BY DEF IInv, TypeOK
<1>1. /\ enabled' = enabled \ AttacksOf(u) /\ attacks' = s3.array /\ listed' = s3.len
      /\ pass' = IF pass # NoPass /\ pass.list = "kept"
                 THEN [pass EXCEPT !.list = "stopped"] ELSE pass
      /\ UNCHANGED <<now, swingAt, minTime, lastList>>
  BY DEF CancelAutoSwing
<1>2. /\ h.mh \in Attacks => h.mh # h.oh /\ h.mh # h.ranged
      /\ h.oh \in Attacks => h.oh # h.ranged
  BY HandFacts
<1>3. Lists(s0.array, s0.len, enabled) /\ s0.array = attacks
  BY <1>0 DEF ListInv, Slice
<1>4. /\ Lists(s1.array, s1.len, enabled \ F(h.mh))
      /\ \A i \in 1..Len(Roster) :
            s1.array[i] = s0.array[i] \/ (s0.array[i] \in F(h.mh) /\ s1.array[i] \in enabled)
  <2> HIDE DEF h, s0
  <2>1. h.mh \in enabled => h.mh \in enabled /\ h.mh \in Attacks
    BY <1>0
  <2>2. /\ Lists(s1.array, s1.len, IF h.mh \in enabled THEN enabled \ {h.mh} ELSE enabled)
        /\ \A i \in 1..Len(Roster) :
              s1.array[i] = s0.array[i]
              \/ (s0.array[i] = h.mh /\ h.mh \in enabled /\ s1.array[i] \in enabled)
    BY <1>3, <2>1, RemovedFacts
  <2>3. (IF h.mh \in enabled THEN enabled \ {h.mh} ELSE enabled) = enabled \ F(h.mh)
    OBVIOUS
  <2> QED
    BY <2>2, <2>3
<1>5. /\ Lists(s2.array, s2.len, enabled \ (F(h.mh) \cup F(h.oh)))
      /\ \A i \in 1..Len(Roster) :
            s2.array[i] = s1.array[i] \/ (s1.array[i] \in F(h.oh) /\ s2.array[i] \in enabled)
  <2>1. h.oh \in enabled => h.oh \in enabled \ F(h.mh) /\ h.oh \in Attacks
    BY <1>0, <1>2
  <2> DEFINE E == enabled \ F(h.mh)
  <2> HIDE DEF s1, E
  <2>2. /\ Lists(s2.array, s2.len, IF h.oh \in enabled THEN E \ {h.oh} ELSE E)
        /\ \A i \in 1..Len(Roster) :
              s2.array[i] = s1.array[i]
              \/ (s1.array[i] = h.oh /\ h.oh \in enabled /\ s2.array[i] \in E)
    <3>1. Lists(s1.array, s1.len, E)
      BY <1>4 DEF E
    <3>2. h.oh \in enabled => h.oh \in E /\ h.oh \in Attacks
      BY <2>1 DEF E
    <3> HIDE DEF h
    <3> QED
      BY <3>1, <3>2, RemovedFacts
  <2>3. (IF h.oh \in enabled THEN E \ {h.oh} ELSE E) = enabled \ (F(h.mh) \cup F(h.oh))
    BY DEF E
  <2> QED
    BY <2>2, <2>3 DEF E
<1>6. /\ Lists(s3.array, s3.len, enabled \ (F(h.mh) \cup F(h.oh) \cup F(h.ranged)))
      /\ \A i \in 1..Len(Roster) :
            s3.array[i] = s2.array[i] \/ (s2.array[i] \in F(h.ranged) /\ s3.array[i] \in enabled)
  <2>1. h.ranged \in enabled =>
            h.ranged \in enabled \ (F(h.mh) \cup F(h.oh)) /\ h.ranged \in Attacks
    BY <1>0, <1>2
  <2> DEFINE E == enabled \ (F(h.mh) \cup F(h.oh))
  <2> HIDE DEF s2, E
  <2>2. /\ Lists(s3.array, s3.len, IF h.ranged \in enabled THEN E \ {h.ranged} ELSE E)
        /\ \A i \in 1..Len(Roster) :
              s3.array[i] = s2.array[i]
              \/ (s2.array[i] = h.ranged /\ h.ranged \in enabled /\ s3.array[i] \in E)
    <3>1. Lists(s2.array, s2.len, E)
      BY <1>5 DEF E
    <3>2. h.ranged \in enabled => h.ranged \in E /\ h.ranged \in Attacks
      BY <2>1 DEF E
    <3> HIDE DEF h
    <3> QED
      BY <3>1, <3>2, RemovedFacts
  <2>3. (IF h.ranged \in enabled THEN E \ {h.ranged} ELSE E)
            = enabled \ (F(h.mh) \cup F(h.oh) \cup F(h.ranged))
    BY DEF E
  <2> QED
    BY <2>2, <2>3 DEF E
<1> HIDE DEF s0, s1, s2, s3
<1>7. enabled' = enabled \ (F(h.mh) \cup F(h.oh) \cup F(h.ranged))
  BY <1>0, <1>1 DEF AttacksOf, MeleeOf
<1>8. \A i \in 1..Len(Roster) :
          /\ attacks'[i] = attacks[i] \/ attacks'[i] \in enabled
          /\ attacks[i] \in enabled' => attacks'[i] = attacks[i]
  BY <1>1, <1>3, <1>4, <1>5, <1>6, <1>7
<1>9. ListInv'
  BY <1>1, <1>6, <1>7 DEF ListInv
<1>10. /\ pass'.at = pass.at /\ pass'.upto = pass.upto /\ pass'.cur = pass.cur
       /\ pass'.stage = pass.stage /\ (pass = NoPass => pass' = NoPass)
       /\ pass.at # 0 => pass'.list # "kept"
       /\ pass'.list # "restarted" => pass.list # "restarted"
  BY <1>0, <1>1, NoPassFacts DEF TypeOK
<1>11. TypeOK'
  <2>1. attacks' \in [DOMAIN Roster -> Attacks] /\ listed' \in 0..Len(Roster)
    BY <1>9 DEF ListInv, Lists
  <2>2. pass' \in [at : 0..Len(Roster), upto : 0..Len(Roster), cur : Attacks \cup {NoAttack},
                   stage : {"none", "try", "react", "cast"},
                   list : {"kept", "stopped", "restarted"}]
    BY <1>0, <1>1 DEF TypeOK
  <2>3. enabled' \subseteq Attacks
    BY <1>0, <1>1
  <2> QED
    BY <1>0, <1>1, <2>1, <2>2, <2>3 DEF TypeOK
<1>12. GrownInv'
  BY <1>10 DEF GrownInv
<1>13. \A w \in enabled' : w \in enabled /\ (Awaited(w) => Awaited(w)')
  BY <1>1 DEF Awaited
<1>14. \A w \in enabled' : Coming(w) => Coming(w)'
  <2> SUFFICES ASSUME NEW w \in enabled', Coming(w) PROVE Coming(w)'
    OBVIOUS
  <2>1. PICK j \in Ahead : attacks[j] = w
    BY DEF Coming
  <2>2. j \in 1..Len(Roster) /\ j \in Ahead'
    BY <1>0, <1>10, NoPassFacts, RosterFacts DEF Ahead, TypeOK
  <2> QED
    BY <1>8, <2>1, <2>2 DEF Coming
<1> QED
  BY <1>1, <1>8, <1>9, <1>10, <1>11, <1>12, <1>13, <1>14, CodeSafe

\* Enabling: the list grows behind the end of what the loop began with, unless it was
\* shortened before.
LEMMA EnableInv ==
    ASSUME IInv, NEW u \in Units, EnableAutoSwing(u)
    PROVE  IInv'
<1> DEFINE h == Hands[u]
           off == AttacksOf(u) \ enabled
           start(w) == IF w = h.oh /\ h.ranged \in Attacks THEN Speed[w] \div 2 ELSE 0
           s0 == Slice
           s1 == Added(s0, h.mh)
           s2 == Added(s1, h.oh)
           s3 == Added(s2, h.ranged)
           F(w) == {w} \cap (Attacks \ enabled)
<1>0. TypeOK /\ ListInv /\ PassInv /\ GrownInv /\ enabled \subseteq Attacks
  BY DEF IInv, TypeOK
<1>1. /\ enabled' = enabled \cup off /\ attacks' = s3.array /\ listed' = s3.len
      /\ swingAt' = [w \in Attacks |->
            IF w \in off \cup {h.mh} THEN Max({swingAt[w], now + start(w)}) ELSE swingAt[w]]
      /\ minTime' = RescheduleWeaponAttack(off, swingAt')
      /\ pass' = IF pass.list = "stopped" /\ off # {}
                 THEN [pass EXCEPT !.list = "restarted"] ELSE pass
      /\ UNCHANGED <<now, lastList>>
  BY DEF EnableAutoSwing
<1>2. /\ h.mh \in Attacks => h.mh # h.oh /\ h.mh # h.ranged
      /\ h.oh \in Attacks => h.oh # h.ranged
  BY HandFacts
<1>3. Lists(s0.array, s0.len, enabled) /\ s0.array = attacks /\ s0.len = listed
  BY <1>0 DEF ListInv, Slice
<1>4. /\ Lists(s1.array, s1.len, enabled \cup F(h.mh))
      /\ s1.len \in Nat /\ s1.len >= s0.len
      /\ \A i \in 1..Len(Roster) :
            s1.array[i] = s0.array[i] \/ (i > s0.len /\ s1.array[i] \in F(h.mh))
  <2> HIDE DEF h, s0
  <2>1. h.mh \in Attacks \ enabled => h.mh \notin enabled
    OBVIOUS
  <2>2. (IF h.mh \in Attacks \ enabled THEN enabled \cup {h.mh} ELSE enabled)
            = enabled \cup F(h.mh)
    OBVIOUS
  <2>3. /\ Lists(s1.array, s1.len,
                 IF h.mh \in Attacks \ enabled THEN enabled \cup {h.mh} ELSE enabled)
        /\ s1.len \in Nat /\ s1.len >= s0.len
        /\ \A i \in 1..Len(Roster) :
              s1.array[i] = s0.array[i]
              \/ (i > s0.len /\ s1.array[i] = h.mh /\ h.mh \in Attacks \ enabled)
    BY <1>3, <2>1, AddedFacts
  <2> QED
    BY <2>2, <2>3
<1>5. /\ Lists(s2.array, s2.len, enabled \cup F(h.mh) \cup F(h.oh))
      /\ s2.len \in Nat /\ s2.len >= s1.len
      /\ \A i \in 1..Len(Roster) :
            s2.array[i] = s1.array[i] \/ (i > s1.len /\ s2.array[i] \in F(h.oh))
  <2>1. h.oh \in Attacks \ enabled => h.oh \notin enabled \cup F(h.mh)
    BY <1>2
  <2> DEFINE E == enabled \cup F(h.mh)
  <2> HIDE DEF s1, E
  <2>2. /\ Lists(s2.array, s2.len, IF h.oh \in Attacks \ enabled THEN E \cup {h.oh} ELSE E)
        /\ s2.len \in Nat /\ s2.len >= s1.len
        /\ \A i \in 1..Len(Roster) :
              s2.array[i] = s1.array[i]
              \/ (i > s1.len /\ s2.array[i] = h.oh /\ h.oh \in Attacks \ enabled)
    <3>1. Lists(s1.array, s1.len, E)
      BY <1>4 DEF E
    <3>2. h.oh \in Attacks \ enabled => h.oh \notin E
      BY <2>1 DEF E
    <3> HIDE DEF h
    <3> QED
      BY <3>1, <3>2, AddedFacts
  <2>3. (IF h.oh \in Attacks \ enabled THEN E \cup {h.oh} ELSE E)
            = enabled \cup F(h.mh) \cup F(h.oh)
    BY DEF E
  <2> QED
    BY <2>2, <2>3
<1>6. /\ Lists(s3.array, s3.len, enabled \cup F(h.mh) \cup F(h.oh) \cup F(h.ranged))
      /\ s3.len \in Nat /\ s3.len >= s2.len
      /\ \A i \in 1..Len(Roster) :
            s3.array[i] = s2.array[i] \/ (i > s2.len /\ s3.array[i] \in F(h.ranged))
  <2>1. h.ranged \in Attacks \ enabled => h.ranged \notin enabled \cup F(h.mh) \cup F(h.oh)
    BY <1>2
  <2> DEFINE E == enabled \cup F(h.mh) \cup F(h.oh)
  <2> HIDE DEF s2, E
  <2>2. /\ Lists(s3.array, s3.len,
                 IF h.ranged \in Attacks \ enabled THEN E \cup {h.ranged} ELSE E)
        /\ s3.len \in Nat /\ s3.len >= s2.len
        /\ \A i \in 1..Len(Roster) :
              s3.array[i] = s2.array[i]
              \/ (i > s2.len /\ s3.array[i] = h.ranged /\ h.ranged \in Attacks \ enabled)
    <3>1. Lists(s2.array, s2.len, E)
      BY <1>5 DEF E
    <3>2. h.ranged \in Attacks \ enabled => h.ranged \notin E
      BY <2>1 DEF E
    <3> HIDE DEF h
    <3> QED
      BY <3>1, <3>2, AddedFacts
  <2>3. (IF h.ranged \in Attacks \ enabled THEN E \cup {h.ranged} ELSE E)
            = enabled \cup F(h.mh) \cup F(h.oh) \cup F(h.ranged)
    BY DEF E
  <2> QED
    BY <2>2, <2>3
<1>7. listed \in Nat /\ listed' \in Nat /\ listed' >= listed
  <2>1. listed \in Nat
    BY <1>0, RosterFacts DEF TypeOK
  <2> HIDE DEF s0, s1, s2, s3
  <2> QED
    BY <1>1, <1>3, <1>4, <1>5, <1>6, <2>1
<1>8. off = F(h.mh) \cup F(h.oh) \cup F(h.ranged)
  BY DEF AttacksOf, MeleeOf
<1>9. \A i \in 1..Len(Roster) :
          attacks'[i] = attacks[i] \/ (i > listed /\ attacks'[i] \in off)
  <2> SUFFICES ASSUME NEW i \in 1..Len(Roster)
               PROVE  attacks'[i] = attacks[i] \/ (i > listed /\ attacks'[i] \in off)
    OBVIOUS
  <2>1. i \in Nat /\ listed \in Nat
    BY <1>7, RosterFacts
  <2> HIDE DEF s0, s1, s2, s3, off
  <2> QED
    BY <1>1, <1>3, <1>4, <1>5, <1>6, <1>8, <2>1
<1> HIDE DEF s0, s1, s2, s3
<1>10. ListInv'
  BY <1>1, <1>6, <1>8 DEF ListInv
<1>11. /\ off \subseteq Attacks
       /\ \A w \in Attacks : /\ swingAt'[w] \in 0..Never
                             /\ swingAt'[w] >= swingAt[w]
                             /\ swingAt'[w] = swingAt[w] \/ now <= swingAt'[w]
                             /\ w \in off => now <= swingAt'[w]
  <2>1. off \subseteq Attacks
    BY HandFacts
  <2> SUFFICES ASSUME NEW w \in Attacks
               PROVE  /\ swingAt'[w] \in 0..Never
                      /\ swingAt'[w] >= swingAt[w]
                      /\ swingAt'[w] = swingAt[w] \/ now <= swingAt'[w]
                      /\ w \in off => now <= swingAt'[w]
    BY <2>1
  <2>2. /\ swingAt[w] \in 0..Never /\ swingAt[w] \in Nat /\ now \in Nat /\ now <= MaxTime
        /\ MaxTime \in Nat /\ Never \in Nat /\ MaxDelay \in Nat
        /\ Speed[w] \in Nat /\ MaxTime + MaxDelay + Speed[w] < Never
    BY <1>0, HandFacts DEF TypeOK
  <2>3. start(w) \in Nat /\ start(w) <= Speed[w]
    <3>1. Speed[w] \div 2 \in Nat /\ Speed[w] \div 2 <= Speed[w]
      BY <2>2
    <3> QED
      BY <2>2, <3>1
  <2> DEFINE m == Max({swingAt[w], now + start(w)})
  <2>4. swingAt'[w] = IF w \in off \cup {h.mh} THEN m ELSE swingAt[w]
    BY <1>1
  <2> HIDE DEF start, off, h
  <2>5. m \in {swingAt[w], now + start(w)} /\ m >= swingAt[w] /\ m >= now + start(w)
    BY <2>2, <2>3, MaxFacts
  <2> HIDE DEF m
  <2> QED
    BY <2>2, <2>3, <2>4, <2>5
<1>12. minTime' \in 0..Never /\ minTime' <= minTime /\ \A w \in off : minTime' <= swingAt'[w]
  <2>1. \A w \in off : swingAt'[w] \in 0..Never
    BY <1>11
  <2> HIDE DEF off
  <2> QED
    BY <1>0, <1>1, <1>11, <2>1, RescheduleFacts DEF TypeOK
<1> HIDE DEF start
<1>13. /\ pass'.at = pass.at /\ pass'.upto = pass.upto /\ pass'.cur = pass.cur
       /\ pass'.stage = pass.stage /\ (pass = NoPass => pass' = NoPass)
       /\ pass'.list # "restarted" =>
             pass' = pass /\ pass.list # "restarted" /\ (pass.list = "stopped" => off = {})
  BY <1>0, <1>1 DEF TypeOK, NoPass
<1>14. TypeOK'
  <2>1. attacks' \in [DOMAIN Roster -> Attacks] /\ listed' \in 0..Len(Roster)
    BY <1>10 DEF ListInv, Lists
  <2>2. pass' \in [at : 0..Len(Roster), upto : 0..Len(Roster), cur : Attacks \cup {NoAttack},
                   stage : {"none", "try", "react", "cast"},
                   list : {"kept", "stopped", "restarted"}]
    BY <1>0, <1>1 DEF TypeOK
  <2>3. enabled' \subseteq Attacks
    BY <1>0, <1>1, <1>11
  <2>4. swingAt' \in [Attacks -> 0..Never]
    <3>1. DOMAIN swingAt' = Attacks /\ swingAt' = [w \in Attacks |-> swingAt'[w]]
      BY <1>1
    <3> QED
      BY <1>11, <3>1
  <2> QED
    BY <1>0, <1>1, <1>12, <2>1, <2>2, <2>3, <2>4 DEF TypeOK
<1>15. GrownInv'
  <2> SUFFICES ASSUME pass'.at # 0, pass'.list = "kept" PROVE pass'.upto <= listed'
    BY DEF GrownInv
  <2>1. pass' = pass /\ pass.upto \in Nat
    BY <1>0, <1>13, NoPassFacts
  <2> QED
    BY <1>0, <1>7, <2>1 DEF GrownInv
<1>16. \A w \in enabled' : Awaited(w)' \/ (w \in enabled /\ (Awaited(w) => Awaited(w)'))
  <2> SUFFICES ASSUME NEW w \in enabled'
               PROVE  Awaited(w)' \/ (w \in enabled /\ (Awaited(w) => Awaited(w)'))
    OBVIOUS
  <2>1. /\ w \in Attacks /\ swingAt[w] \in Nat /\ swingAt'[w] \in Nat /\ minTime \in Nat
        /\ minTime' \in Nat /\ now \in Nat
    BY <1>0, <1>1, <1>11, <1>12, HandFacts DEF TypeOK
  <2>2. CASE w \in off
    BY <1>1, <1>11, <1>12, <2>1, <2>2 DEF Awaited
  <2>3. CASE w \notin off
    BY <1>1, <1>11, <1>12, <2>1, <2>3 DEF Awaited
  <2> QED
    BY <2>2, <2>3
<1>17. \A w \in enabled' : w \notin enabled => now <= swingAt'[w]
  BY <1>1, <1>11
<1>18. pass'.list # "restarted" =>
           pass.list # "restarted" /\ \A w \in enabled' : Coming(w) => Coming(w)'
  <2> SUFFICES ASSUME pass'.list # "restarted", NEW w, Coming(w)
               PROVE  Coming(w)'
    BY <1>13
  <2>1. PICK j \in Ahead : attacks[j] = w
    BY DEF Coming
  <2>2. /\ j \in 1..Len(Roster) /\ j \in Ahead' /\ j <= pass.upto /\ j \in Nat
        /\ pass.upto \in Nat /\ listed \in Nat /\ pass.at # 0
    <3>1. pass.at \in Nat /\ pass.upto \in Nat /\ pass.upto <= Len(Roster)
      BY <1>0, RosterFacts DEF TypeOK
    <3>2. pass.at # 0
      BY <1>0, <2>1, <3>1 DEF Ahead, NoPass, PassInv
    <3> QED
      BY <1>7, <1>13, <2>1, <3>1, <3>2, RosterFacts DEF Ahead
  <2>3. attacks'[j] = attacks[j]
    <3>1. CASE pass.list = "kept"
      BY <1>0, <1>9, <2>2, <3>1 DEF GrownInv
    <3>2. CASE pass.list = "stopped"
      BY <1>9, <1>13, <2>2, <3>2
    <3> QED
      BY <1>0, <1>13, <3>1, <3>2 DEF TypeOK
  <2> QED
    BY <2>1, <2>2, <2>3 DEF Coming
<1>19. \A j \in 1..Len(Roster) : attacks'[j] = attacks[j] \/ attacks'[j] \in enabled \cup enabled'
  BY <1>1, <1>9
<1>20. \A w \in Attacks : swingAt'[w] = swingAt[w] \/ now <= swingAt'[w]
  BY <1>11
<1> QED
  BY <1>1, <1>10, <1>13, <1>14, <1>15, <1>16, <1>17, <1>18, <1>19, <1>20, CodeSafe

-----------------------------------------------------------------------------
(* The loop.                                                                 *)

LEMMA OtherInv ==
    ASSUME IInv, NEW t \in 0..MaxTime, OtherEvent(t)
    PROVE  IInv'
<1>0. TypeOK /\ PassInv /\ WaitInv /\ ListInv /\ pass.at = 0
  BY DEF IInv, OtherEvent, NoPass
<1>1. /\ t > now /\ t < minTime /\ now' = t
      /\ UNCHANGED <<enabled, swingAt, attacks, listed, minTime, pass, lastList>>
  BY DEF OtherEvent
<1>2. TypeOK' /\ PassInv' /\ ListInv'
  BY <1>0, <1>1 DEF TypeOK, PassInv, ListInv
<1>3. WaitInv'
  <2> SUFFICES ASSUME ~Overlooked, NEW w \in enabled PROVE Awaited(w)'
    BY <1>1 DEF WaitInv, Overlooked
  <2>1. minTime <= swingAt[w] /\ w \in Attacks
    BY <1>0 DEF WaitInv, Awaited, TypeOK
  <2>2. minTime \in Nat /\ swingAt[w] \in Nat /\ t \in Nat
    BY <1>0, <2>1, HandFacts DEF TypeOK
  <2> QED
    BY <1>1, <2>1, <2>2 DEF Awaited
<1>4. pass.stage = "none"
  BY <1>0 DEF PassInv, NoPass
<1> QED
  BY <1>0, <1>1, <1>2, <1>3, <1>4 DEF IInv, GrownInv, CoverInv, LateInv, CastInv

\* What visiting the place i does to the record of the loop.
LEMMA VisitFacts ==
    ASSUME TypeOK, NEW p, NEW i \in Nat, i > 0, NEW q, q = Visit(p, i),
           p \in [at : 0..Len(Roster), upto : 0..Len(Roster), cur : Attacks \cup {NoAttack},
                  stage : {"none", "try", "react", "cast"},
                  list : {"kept", "stopped", "restarted"}]
    PROVE  /\ q \in [at : 0..Len(Roster), upto : 0..Len(Roster), cur : Attacks \cup {NoAttack},
                     stage : {"none", "try", "react", "cast"},
                     list : {"kept", "stopped", "restarted"}]
           /\ i > p.upto => q = NoPass /\ q.at = 0
           /\ ~(i > p.upto) =>
                 /\ q.at = i /\ q.upto = p.upto /\ q.list = p.list /\ q.stage = "try"
                 /\ q.cur = attacks[i] /\ attacks[i] \in Attacks /\ i \in 1..Len(Roster)
<1>0. Len(Roster) \in Nat /\ DOMAIN Roster = 1..Len(Roster)
  BY RosterFacts
<1>1. CASE i > p.upto
  BY <1>0, <1>1 DEF Visit, NoPass
<1>2. CASE ~(i > p.upto)
  <2>1. i \in 1..Len(Roster)
    BY <1>0, <1>2
  <2>2. attacks[i] \in Attacks
    BY <1>0, <2>1 DEF TypeOK
  <2>3. q = [p EXCEPT !.at = i, !.cur = attacks[i], !.stage = "try"]
    BY <1>2 DEF Visit
  <2>4. q = [at |-> i, upto |-> p.upto, cur |-> attacks[i], stage |-> "try", list |-> p.list]
    BY <2>3
  <2>5. i \in 0..Len(Roster)
    BY <1>0, <2>1
  <2> QED
    BY <1>2, <2>1, <2>2, <2>4, <2>5
<1> QED
  BY <1>1, <1>2

LEMMA StartInv ==
    ASSUME IInv, StartPass
    PROVE  IInv'
<1> DEFINE p == [NoPass EXCEPT !.upto = listed]
<1>0. TypeOK /\ PassInv /\ WaitInv /\ ListInv /\ pass.at = 0
  BY DEF IInv, StartPass, NoPass
<1>1. /\ minTime <= MaxTime /\ now' = Max({now, minTime}) /\ minTime' = Never
      /\ pass' = Visit(p, 1) /\ UNCHANGED <<enabled, swingAt, attacks, listed, lastList>>
  BY DEF StartPass
<1>2. /\ p \in [at : 0..Len(Roster), upto : 0..Len(Roster), cur : Attacks \cup {NoAttack},
                stage : {"none", "try", "react", "cast"},
                list : {"kept", "stopped", "restarted"}]
      /\ p.upto = listed /\ p.list = "kept"
  BY <1>0, RosterFacts DEF TypeOK, NoPass
<1> HIDE DEF p
<1>3. /\ pass' \in [at : 0..Len(Roster), upto : 0..Len(Roster), cur : Attacks \cup {NoAttack},
                    stage : {"none", "try", "react", "cast"},
                    list : {"kept", "stopped", "restarted"}]
      /\ 1 > listed => pass' = NoPass /\ pass'.at = 0
      /\ ~(1 > listed) =>
            /\ pass'.at = 1 /\ pass'.upto = listed /\ pass'.list = "kept" /\ pass'.stage = "try"
            /\ pass'.cur = attacks[1] /\ attacks[1] \in Attacks
  BY <1>0, <1>1, <1>2, VisitFacts
<1>4. now' \in {now, minTime} /\ now' \in 0..MaxTime /\ now' \in Nat
  BY <1>0, <1>1, MaxFacts, HandFacts DEF TypeOK
<1>5. ListInv' /\ \A w \in Attacks : w \in enabled <=> \E i \in 1..listed : attacks[i] = w
  BY <1>0, <1>1 DEF ListInv, Lists
<1>6. listed \in Nat /\ listed <= Len(Roster) /\ Never \in Nat
  BY <1>0, RosterFacts, HandFacts DEF TypeOK
<1>7. TypeOK'
  BY <1>0, <1>1, <1>3, <1>4, <1>6 DEF TypeOK
<1>8. PassInv'
  BY <1>3, <1>6 DEF PassInv, NoPass
<1>9. ~Overlooked => \A w \in enabled : now' <= swingAt[w]
  BY <1>0, <1>4 DEF WaitInv, Awaited
<1>10. \A i \in 1..listed : attacks[i] \in enabled
  <2> SUFFICES ASSUME NEW i \in 1..listed PROVE attacks[i] \in enabled
    OBVIOUS
  <2>1. attacks[i] \in Attacks
    BY <1>0, <1>6, RosterFacts DEF TypeOK
  <2> QED
    BY <1>5, <2>1
<1>11. CASE 1 > listed
  <2>1. pass' = NoPass /\ pass'.at = 0 /\ pass'.stage = "none"
    BY <1>3, <1>11 DEF NoPass
  <2>2. enabled = {}
    BY <1>0, <1>5, <1>6, <1>11 DEF TypeOK
  <2>3. WaitInv'
    BY <1>1, <2>2 DEF WaitInv
  <2> QED
    BY <1>5, <1>7, <1>8, <2>1, <2>3 DEF IInv, GrownInv, CoverInv, LateInv, CastInv
<1>12. CASE ~(1 > listed)
  <2>1. /\ pass'.at = 1 /\ pass'.upto = listed /\ pass'.stage = "try" /\ pass'.cur = attacks[1]
        /\ 1 \in 1..listed
    BY <1>3, <1>6, <1>12
  <2>2. CoverInv'
    <3> SUFFICES ASSUME NEW w \in enabled, w # attacks[1] PROVE Coming(w)'
      BY <1>1, <2>1 DEF CoverInv
    <3>1. PICK i \in 1..listed : attacks[i] = w
      BY <1>0, <1>5 DEF TypeOK
    <3>2. i \in Ahead'
      BY <1>6, <2>1, <3>1 DEF Ahead
    <3> QED
      BY <1>1, <3>1, <3>2 DEF Coming
  <2>3. LateInv'
    <3>1. \A j \in Ahead' : j \in 1..listed
      BY <1>6, <2>1 DEF Ahead
    <3> QED
      BY <1>1, <1>9, <1>10, <2>1, <3>1 DEF LateInv, Overlooked
  <2>4. WaitInv' /\ CastInv' /\ GrownInv'
    BY <1>1, <1>6, <2>1 DEF WaitInv, CastInv, GrownInv
  <2> QED
    BY <1>5, <1>7, <1>8, <2>2, <2>3, <2>4 DEF IInv
<1> QED
  BY <1>11, <1>12

\* The attack at hand has its timer at e, and the loop goes on to the next.
LEMMA ReportInv ==
    ASSUME IInv, pass.at # 0, NEW e \in now..Never, Report(e),
           swingAt' \in [Attacks -> 0..Never], swingAt'[pass.cur] = e,
           \A w \in Attacks \ {pass.cur} : swingAt'[w] = swingAt[w],
           UNCHANGED <<now, enabled, attacks, listed>>
    PROVE  IInv'
<1>0. TypeOK /\ PassInv /\ ListInv /\ GrownInv
  BY DEF IInv
<1>1. /\ minTime' = Min({minTime, e}) /\ pass' = Visit(pass, pass.at + 1)
      /\ lastList' = IF pass' # NoPass THEN lastList
                     ELSE IF pass.list = "restarted" THEN "restarted" ELSE "kept"
  BY DEF Report
<1>2. /\ pass.at \in 1..Len(Roster) /\ pass.upto \in 1..Len(Roster) /\ pass.at <= pass.upto
      /\ pass.cur \in Attacks /\ Len(Roster) \in Nat /\ pass.at + 1 \in Nat /\ pass.at + 1 > 0
      /\ pass.upto \in Nat /\ pass.at \in Nat
  BY <1>0, NoPassFacts, RosterFacts DEF PassInv
<1>3. /\ pass' \in [at : 0..Len(Roster), upto : 0..Len(Roster), cur : Attacks \cup {NoAttack},
                    stage : {"none", "try", "react", "cast"},
                    list : {"kept", "stopped", "restarted"}]
      /\ pass.at + 1 > pass.upto => pass' = NoPass /\ pass'.at = 0
      /\ ~(pass.at + 1 > pass.upto) =>
            /\ pass'.at = pass.at + 1 /\ pass'.upto = pass.upto /\ pass'.list = pass.list
            /\ pass'.stage = "try"
            /\ pass'.cur = attacks[pass.at + 1] /\ attacks[pass.at + 1] \in Attacks
  BY <1>0, <1>1, <1>2, VisitFacts DEF TypeOK
<1>4. minTime \in Nat /\ minTime <= Never /\ e \in Nat /\ e <= Never /\ now \in Nat /\ now <= e
  BY <1>0, HandFacts DEF TypeOK
<1>5. minTime' \in 0..Never /\ minTime' <= minTime /\ minTime' <= e /\ minTime' \in Nat
  <2> DEFINE I == {minTime, e}
  <2>1. I \in SUBSET Nat /\ I # {} /\ minTime \in I /\ e \in I
    BY <1>4
  <2>2. Min(I) \in I /\ \A i \in I : Min(I) <= i
    <3> HIDE DEF I
    <3> QED
      BY <2>1, MinFacts
  <2> QED
    BY <1>1, <1>4, <2>2, HandFacts
<1>6. TypeOK'
  <2>1. lastList' \in {"kept", "restarted"}
    BY <1>0, <1>1 DEF TypeOK
  <2> QED
    BY <1>0, <1>3, <1>5, <2>1 DEF TypeOK
<1>7. PassInv' /\ ListInv' /\ CastInv' /\ GrownInv'
  <2>1. pass'.stage # "cast"
    BY <1>3 DEF NoPass
  <2>2. PassInv'
    BY <1>2, <1>3 DEF PassInv, NoPass
  <2>3. GrownInv'
    BY <1>0, <1>2, <1>3 DEF GrownInv
  <2> QED
    BY <1>0, <2>1, <2>2, <2>3 DEF ListInv, CastInv
<1>8. \A w \in Attacks : /\ swingAt[w] \in Nat /\ swingAt'[w] \in Nat
                         /\ now <= swingAt[w] => now <= swingAt'[w]
                         /\ Awaited(w) \/ w = pass.cur => Awaited(w)'
  <2> SUFFICES ASSUME NEW w \in Attacks
               PROVE  /\ swingAt[w] \in Nat /\ swingAt'[w] \in Nat
                      /\ now <= swingAt[w] => now <= swingAt'[w]
                      /\ Awaited(w) \/ w = pass.cur => Awaited(w)'
    OBVIOUS
  <2>1. swingAt[w] \in Nat /\ swingAt'[w] \in Nat
    BY <1>0, HandFacts DEF TypeOK
  <2>2. CASE w = pass.cur
    BY <1>4, <1>5, <2>1, <2>2 DEF Awaited
  <2>3. CASE w # pass.cur
    BY <1>4, <1>5, <2>1, <2>3 DEF Awaited
  <2> QED
    BY <2>1, <2>2, <2>3
<1>9. enabled \subseteq Attacks
  BY <1>0 DEF TypeOK
<1>10. pass.list # "restarted" => \A w \in enabled : Coming(w) \/ w = pass.cur \/ Awaited(w)
  BY DEF IInv, CoverInv
<1>11. CASE pass.at + 1 > pass.upto
  <2>1. pass' = NoPass /\ pass'.at = 0
    BY <1>3, <1>11
  <2>2. \A w : ~Coming(w)
    BY <1>2, <1>11 DEF Coming, Ahead
  <2>3. WaitInv'
    <3> SUFFICES ASSUME ~Overlooked', NEW w \in enabled PROVE Awaited(w)'
      BY DEF WaitInv
    <3>1. pass.list # "restarted"
      BY <1>1, <2>1 DEF Overlooked
    <3> QED
      BY <1>8, <1>9, <1>10, <2>2, <3>1
  <2> QED
    BY <1>6, <1>7, <2>1, <2>3 DEF IInv, CoverInv, LateInv
<1>12. CASE ~(pass.at + 1 > pass.upto)
  <2>1. /\ pass'.at = pass.at + 1 /\ pass'.upto = pass.upto /\ pass'.list = pass.list
        /\ pass'.cur = attacks[pass.at + 1] /\ pass'.at # 0 /\ pass'.stage = "try"
    BY <1>2, <1>3, <1>12
  <2>2. \A j \in Ahead : j = pass.at + 1 \/ j \in Ahead'
    BY <1>2, <2>1 DEF Ahead
  <2>3. CoverInv'
    <3> SUFFICES ASSUME pass.list # "restarted", NEW w \in enabled
                 PROVE  Coming(w)' \/ w = pass'.cur \/ Awaited(w)'
      BY <2>1 DEF CoverInv
    <3>1. Coming(w) => w = pass'.cur \/ Coming(w)'
      BY <2>1, <2>2 DEF Coming
    <3> QED
      BY <1>8, <1>9, <1>10, <3>1
  <2>4. LateInv'
    <3> SUFFICES ASSUME ~Overlooked'
                 PROVE  /\ \A w \in enabled : now <= swingAt'[w]
                        /\ \A j \in Ahead' : now <= swingAt'[attacks[j]]
                        /\ now <= swingAt'[pass'.cur]
      BY <2>1 DEF LateInv
    <3>1. ~Overlooked
      BY <1>1, <2>1 DEF Overlooked, NoPass
    <3>2. /\ \A w \in enabled : now <= swingAt[w]
          /\ \A j \in Ahead : now <= swingAt[attacks[j]]
      BY <3>1 DEF IInv, LateInv
    <3>3. \A j \in Ahead : attacks[j] \in Attacks
      <4> SUFFICES ASSUME NEW j \in Ahead PROVE attacks[j] \in Attacks
        OBVIOUS
      <4>1. j \in 1..Len(Roster)
        BY <1>2 DEF Ahead
      <4> QED
        BY <1>0, <4>1, RosterFacts DEF TypeOK
    <3>4. pass.at + 1 \in Ahead /\ \A j \in Ahead' : j \in Ahead
      BY <1>2, <1>12, <2>1 DEF Ahead
    <3> QED
      BY <1>8, <1>9, <2>1, <3>2, <3>3, <3>4
  <2>5. WaitInv'
    BY <2>1 DEF WaitInv
  <2> QED
    BY <1>6, <1>7, <2>3, <2>4, <2>5 DEF IInv
<1> QED
  BY <1>11, <1>12

LEMMA SwingFacts ==
    ASSUME IInv, pass.stage \in {"try", "react", "cast"}
    PROVE  /\ pass.at # 0 /\ pass.cur \in Attacks /\ swingAt[pass.cur] \in 0..Never
           /\ swingAt \in [Attacks -> 0..Never] /\ now \in Nat /\ now <= MaxTime
           /\ Never \in Nat /\ MaxTime \in Nat /\ MaxDelay \in Nat
           /\ MaxTime + MaxDelay + Speed[pass.cur] < Never
           /\ Speed[pass.cur] \in Nat
<1>1. TypeOK /\ PassInv
  BY DEF IInv
<1>2. pass.at # 0 /\ pass.cur \in Attacks
  BY <1>1, NoPassFacts DEF PassInv
<1> QED
  BY <1>1, <1>2, HandFacts DEF TypeOK

LEMMA NotDueInv == ASSUME IInv, NotDue PROVE IInv'
<1>1. /\ pass.stage = "try" /\ ~(swingAt[pass.cur] <= now) /\ Report(swingAt[pass.cur])
      /\ UNCHANGED <<now, enabled, swingAt, attacks, listed>>
  BY DEF NotDue, Due
<1>2. swingAt[pass.cur] \in now..Never
  BY <1>1, SwingFacts
<1> QED
  BY <1>1, <1>2, SwingFacts, ReportInv

LEMMA DeferInv == ASSUME IInv, Defer PROVE IInv'
<1>1. PICK d \in 1..MaxDelay : /\ swingAt' = [swingAt EXCEPT ![pass.cur] = now + d]
                               /\ Report(now + d)
  BY DEF Defer
<1>2. pass.stage = "try" /\ UNCHANGED <<now, enabled, attacks, listed>>
  BY DEF Defer, Due
<1>3. now + d \in now..Never /\ now + d \in 0..Never
  BY <1>2, SwingFacts
<1>4. /\ swingAt' \in [Attacks -> 0..Never] /\ swingAt'[pass.cur] = now + d
      /\ \A w \in Attacks \ {pass.cur} : swingAt'[w] = swingAt[w]
  BY <1>1, <1>2, <1>3, SwingFacts
<1> QED
  BY <1>1, <1>2, <1>3, <1>4, SwingFacts, ReportInv

LEMMA EndInv == ASSUME IInv, EndSwing PROVE IInv'
<1>1. /\ pass.stage = "cast" /\ Report(swingAt[pass.cur])
      /\ UNCHANGED <<now, enabled, swingAt, attacks, listed>>
  BY DEF EndSwing
<1>2. swingAt[pass.cur] \in now..Never
  BY <1>1, SwingFacts DEF IInv, CastInv
<1> QED
  BY <1>1, <1>2, SwingFacts, ReportInv

LEMMA BeginInv == ASSUME IInv, BeginSwing PROVE IInv'
<1>0. TypeOK /\ PassInv /\ ListInv
  BY DEF IInv
<1>1. /\ pass.stage = "try" /\ pass' = [pass EXCEPT !.stage = "react"]
      /\ UNCHANGED <<now, enabled, swingAt, attacks, listed, minTime, lastList>>
  BY DEF BeginSwing, Due
<1>2. /\ pass'.at = pass.at /\ pass'.upto = pass.upto /\ pass'.cur = pass.cur
      /\ pass'.list = pass.list /\ pass'.stage = "react" /\ pass.at # 0
      /\ pass' \in [at : 0..Len(Roster), upto : 0..Len(Roster), cur : Attacks \cup {NoAttack},
                    stage : {"none", "try", "react", "cast"},
                    list : {"kept", "stopped", "restarted"}]
  BY <1>0, <1>1, SwingFacts DEF TypeOK
<1>3. TypeOK' /\ ListInv' /\ PassInv'
  BY <1>0, <1>1, <1>2 DEF TypeOK, ListInv, PassInv
<1>4. Ahead' = Ahead
  BY <1>2 DEF Ahead
<1> QED
  BY <1>1, <1>2, <1>3, <1>4
     DEF IInv, GrownInv, CoverInv, Coming, Awaited, WaitInv, LateInv, Overlooked, CastInv

\* The timer of the attack at hand starts over.
LEMMA CastStepInv == ASSUME IInv, Cast PROVE IInv'
<1>0. TypeOK /\ PassInv /\ ListInv /\ enabled \subseteq Attacks
  BY DEF IInv, TypeOK
<1>1. /\ pass.stage = "react" /\ pass' = [pass EXCEPT !.stage = "cast"]
      /\ swingAt' = [swingAt EXCEPT ![pass.cur] = now + Speed[pass.cur]]
      /\ UNCHANGED <<now, enabled, attacks, listed, minTime, lastList>>
  BY DEF Cast
<1>2. /\ pass'.at = pass.at /\ pass'.upto = pass.upto /\ pass'.cur = pass.cur
      /\ pass'.list = pass.list /\ pass'.stage = "cast" /\ pass.at # 0
      /\ pass' \in [at : 0..Len(Roster), upto : 0..Len(Roster), cur : Attacks \cup {NoAttack},
                    stage : {"none", "try", "react", "cast"},
                    list : {"kept", "stopped", "restarted"}]
  BY <1>0, <1>1, SwingFacts DEF TypeOK
<1>3. /\ swingAt' \in [Attacks -> 0..Never] /\ now <= swingAt'[pass.cur]
      /\ \A w \in Attacks \ {pass.cur} : swingAt'[w] = swingAt[w]
  BY <1>1, SwingFacts
<1>4. TypeOK' /\ ListInv' /\ PassInv'
  BY <1>0, <1>1, <1>2, <1>3 DEF TypeOK, ListInv, PassInv
<1>5. Ahead' = Ahead /\ \A w : Coming(w)' <=> Coming(w)
  BY <1>1, <1>2 DEF Ahead, Coming
<1>6. CoverInv'
  <2> SUFFICES ASSUME pass.list # "restarted", NEW w \in enabled, w # pass.cur
               PROVE  Coming(w)' \/ Awaited(w)'
    BY <1>1, <1>2 DEF CoverInv
  <2>1. Coming(w) \/ Awaited(w)
    BY <1>2 DEF IInv, CoverInv
  <2>2. swingAt'[w] = swingAt[w]
    BY <1>0, <1>3
  <2> QED
    BY <1>1, <1>5, <2>1, <2>2 DEF Awaited
<1>7. LateInv'
  <2> SUFFICES ASSUME ~Overlooked
               PROVE  /\ \A w \in enabled : now <= swingAt'[w]
                      /\ \A j \in Ahead : now <= swingAt'[attacks[j]]
    BY <1>1, <1>2, <1>5 DEF LateInv, Overlooked
  <2>1. /\ \A w \in enabled : now <= swingAt[w]
        /\ \A j \in Ahead : now <= swingAt[attacks[j]]
    BY <1>2 DEF IInv, LateInv
  <2>2. \A w \in Attacks : now <= swingAt[w] => now <= swingAt'[w]
    BY <1>3
  <2>3. \A j \in Ahead : attacks[j] \in Attacks
    <3> SUFFICES ASSUME NEW j \in Ahead PROVE attacks[j] \in Attacks
      OBVIOUS
    <3>1. j \in 1..Len(Roster)
      BY <1>0, NoPassFacts, RosterFacts DEF Ahead, TypeOK
    <3> QED
      BY <1>0, <3>1, RosterFacts DEF TypeOK
  <2> QED
    BY <1>0, <2>1, <2>2, <2>3
<1>8. WaitInv' /\ CastInv' /\ GrownInv'
  BY <1>1, <1>2, <1>3 DEF WaitInv, CastInv, IInv, GrownInv
<1> QED
  BY <1>4, <1>6, <1>7, <1>8 DEF IInv

-----------------------------------------------------------------------------
(* The theorems.                                                             *)

LEMMA Inductive == IInv /\ [Next]_vars => IInv'
<1> SUFFICES ASSUME IInv, [Next]_vars PROVE IInv'
  OBVIOUS
<1>1. CASE \E u \in Units : CancelAutoSwing(u) \/ EnableAutoSwing(u)
  BY <1>1, CancelInv, EnableInv
<1>2. CASE \E u \in Units, t \in 0..(MaxTime + MaxDelay) : StopMeleeUntil(u, t)
  BY <1>2, StopInv
<1>3. CASE \E u \in Units, d \in 1..MaxDelay : PauseMeleeBy(u, d)
  BY <1>3, PauseInv
<1>4. CASE \E u \in Units : UpdateSwingTimers(u)
  BY <1>4, UpdateInv
<1>5. CASE \E t \in 0..MaxTime : OtherEvent(t)
  BY <1>5, OtherInv
<1>6. CASE StartPass \/ NotDue \/ Defer \/ BeginSwing \/ Cast \/ EndSwing
  BY <1>6, StartInv, NotDueInv, DeferInv, BeginInv, CastStepInv, EndInv
<1>7. CASE UNCHANGED vars
  BY <1>7 DEF vars, IInv, TypeOK, ListInv, PassInv, GrownInv, CoverInv, Coming, Ahead, Awaited,
              WaitInv, LateInv, Overlooked, CastInv
<1> QED
  BY <1>1, <1>2, <1>3, <1>4, <1>5, <1>6, <1>7 DEF Next

LEMMA Invariance == Spec => []IInv
  BY InitInv, Inductive, PTL DEF Spec

\* The types of the timers, the list and the loop; the list fits the array.
THEOREM TypeCorrect == Spec => []TypeOK
<1>1. IInv => TypeOK
  BY DEF IInv
<1> QED
  BY <1>1, Invariance, PTL

\* The list holds the enabled attacks, each once, and outside a pass the event loop
\* never sleeps past a swing, unless attacks restarted in the pass before (sim.go:559).
THEOREM AttacksAreKept == Spec => []AttacksKept
<1>1. IInv => AttacksKept
  <2> SUFFICES ASSUME IInv PROVE AttacksKept
    OBVIOUS
  <2>1. ListedOnce
    BY DEF IInv, ListInv, Lists, ListedOnce
  <2>2. AutoSwingKept
    BY DEF IInv, WaitInv, Awaited, AutoSwingKept, NoPass
  <2> QED
    BY <2>1, <2>2 DEF AttacksKept
<1> QED
  BY <1>1, Invariance, PTL

\* A swing is cast at the very time of its timer (attack.go:346).
THEOREM SwingsAreOnTime == Spec => SwingsOnTime
<1>1. IInv /\ [Next]_vars => [BeginSwing /\ ~Overlooked => now = swingAt[pass.cur]]_vars
  <2> SUFFICES ASSUME IInv, BeginSwing, ~Overlooked PROVE now = swingAt[pass.cur]
    OBVIOUS
  <2>1. pass.stage = "try" /\ swingAt[pass.cur] <= now
    BY DEF BeginSwing, Due
  <2>2. now <= swingAt[pass.cur]
    BY <2>1, SwingFacts DEF IInv, LateInv
  <2> QED
    BY <2>1, <2>2, SwingFacts
<1> QED
  BY <1>1, Invariance, PTL DEF Spec, SwingsOnTime
=============================================================================
