-------------------------- MODULE AuraTracker_proofs --------------------------
(* Proofs about AuraTracker for any units, auras and durations and any clock: *)
(* the lists that the simulation walks agree with the auras and units that    *)
(* are on them (ListsAgree), whatever is gained, removed, summoned and        *)
(* dismissed in callbacks.                                                    *)
(*                                                                            *)
(* Both halves of ListsAgree are about the removal of an element by swapping  *)
(* the last one into its place.  SlotsAgree makes the index an aura carries   *)
(* the only place it has, so that the swap moves one aura and no other.       *)
(* TrackedOnce does that for the trackers, which carry no index; it needs     *)
(* that a pet that is being dismissed is disabled (DismissInv), and that the  *)
(* backing array has room for a pet that is summoned, since every unit is     *)
(* tracked only once.                                                         *)
EXTENDS AuraTracker, Functions, FiniteSetTheorems, SequenceTheorems, WellFoundedInduction,
        TLAPS

Types ==
    /\ now \in Nat
    /\ active \in [Auras -> BOOLEAN]
    /\ expires \in [Auras -> Nat]
    /\ slot \in [Auras -> Nat]
    /\ list \in [Units -> Seq(Auras)]
    /\ trackers \in [1..Len(Roster) -> Units] /\ tracked \in 0..Len(Roster)
    /\ enabled \in [Units -> BOOLEAN]
    /\ dismissing \in Pets \cup {NoUnit}
    /\ pass \in [at : Nat, upto : 0..Len(Roster), unit : Units \cup {NoUnit},
                 stage : {"none", "try", "code"}]
    /\ pass.stage # "none" => pass.unit \in Units

DismissInv == dismissing # NoUnit => ~enabled[dismissing]

IInv == Types /\ SlotsAgree /\ TrackedOnce /\ DismissInv

\* What the lists of auras are made of.
slotVars == <<active, expires, slot, list>>

-----------------------------------------------------------------------------
(* The lists of auras.                                                       *)

\* An aura of a list belongs to the unit of the list.
LEMMA SlotFacts ==
    ASSUME Types, SlotsAgree, NEW a \in Auras, slot[a] # 0
    PROVE  /\ UnitOf[a] \in Units /\ list[UnitOf[a]] \in Seq(Auras)
           /\ slot[a] \in 1..Len(list[UnitOf[a]]) /\ Len(list[UnitOf[a]]) \in Nat \ {0}
           /\ list[UnitOf[a]][slot[a]] = a
<1>1. UnitOf[a] \in Units
  BY DurationAssumption
<1>2. list[UnitOf[a]] \in Seq(Auras) /\ slot[a] \in DOMAIN list[UnitOf[a]]
      /\ list[UnitOf[a]][slot[a]] = a
  BY <1>1 DEF Types, SlotsAgree
<1> QED
  BY <1>1, <1>2

\* What is on a list carries its place.
LEMMA ListFacts ==
    ASSUME Types, SlotsAgree, NEW v \in Units, NEW i \in DOMAIN list[v]
    PROVE  /\ list[v][i] \in Auras /\ UnitOf[list[v][i]] = v /\ slot[list[v][i]] = i
           /\ i \in 1..Len(list[v]) /\ i \in Nat \ {0}
<1>1. list[v] \in Seq(Auras)
  BY DEF Types
<1>2. i \in 1..Len(list[v]) /\ Len(list[v]) \in Nat
  BY <1>1, LenProperties
<1>3. list[v][i] \in Auras
  BY <1>1, <1>2, ElementOfSeq
<1>4. UnitOf[list[v][i]] = v /\ slot[list[v][i]] = i
  BY DEF SlotsAgree
<1> QED
  BY <1>2, <1>3, <1>4

\* An aura that was not active goes to the end of its list.
LEMMA EnlistSlots ==
    ASSUME Types, SlotsAgree, NEW a \in Auras, NEW d \in Nat, ~active[a], Enlist(a, d),
           active' = [active EXCEPT ![a] = TRUE],
           expires' = [expires EXCEPT ![a] = IF d = Never THEN Never ELSE now + d]
    PROVE  slot' \in [Auras -> Nat] /\ list' \in [Units -> Seq(Auras)] /\ SlotsAgree'
<1> DEFINE u == UnitOf[a]
           n == Len(list[u]) + 1
<1>1. u \in Units /\ list[u] \in Seq(Auras) /\ n \in Nat \ {0} /\ slot[a] = 0
  <2>1. u \in Units /\ list[u] \in Seq(Auras)
    BY DurationAssumption DEF Types
  <2>2. n \in Nat \ {0}
    BY <2>1, LenProperties
  <2>3. slot[a] = 0
    BY DEF SlotsAgree
  <2> QED
    BY <2>1, <2>2, <2>3
<1>2. \A b \in Auras \ {a} : active'[b] = active[b] /\ expires'[b] = expires[b]
  BY DEF Types
<1>3. CASE d = Never
  <2>1. UNCHANGED <<list, slot>> /\ active'[a] /\ expires'[a] = Never
    BY <1>3 DEF Enlist, Types
  <2>2. \A b \in Auras :
          IF slot'[b] = 0 THEN active'[b] => expires'[b] = Never
          ELSE /\ active'[b] /\ slot'[b] \in DOMAIN list'[UnitOf[b]]
               /\ list'[UnitOf[b]][slot'[b]] = b
    BY <1>1, <1>2, <2>1 DEF SlotsAgree
  <2> QED
    BY <2>1, <2>2 DEF Types, SlotsAgree
<1>4. CASE d # Never
  <2>1. list' = [list EXCEPT ![u] = Append(@, a)] /\ slot' = [slot EXCEPT ![a] = n]
    BY <1>4 DEF Enlist
  <2>2. /\ Append(list[u], a) \in Seq(Auras) /\ Len(Append(list[u], a)) = n
        /\ \A i \in 1..Len(list[u]) : Append(list[u], a)[i] = list[u][i]
        /\ Append(list[u], a)[n] = a
    BY <1>1, AppendProperties
  <2> HIDE DEF u, n
  <2>3. /\ slot' \in [Auras -> Nat] /\ list' \in [Units -> Seq(Auras)]
        /\ list'[u] = Append(list[u], a) /\ slot'[a] = n
        /\ \A v \in Units \ {u} : list'[v] = list[v]
        /\ \A b \in Auras \ {a} : slot'[b] = slot[b]
    BY <1>1, <2>1, <2>2 DEF Types
  <2>4. Len(list'[u]) = n /\ Len(list[u]) = n - 1 /\ list[u] \in Seq(Auras) /\ list'[u] \in Seq(Auras)
    BY <1>1, <2>2, <2>3 DEF n
  <2>5. DOMAIN list[u] = 1..n - 1 /\ DOMAIN list'[u] = 1..n
    BY <2>4, LenProperties
  <2>6. ASSUME NEW b \in Auras
        PROVE  IF slot'[b] = 0 THEN active'[b] => expires'[b] = Never
               ELSE /\ active'[b] /\ slot'[b] \in DOMAIN list'[UnitOf[b]]
                    /\ list'[UnitOf[b]][slot'[b]] = b
    <3>1. CASE b = a
      <4>1. active'[a]
        BY DEF Types
      <4> QED
        BY <1>1, <2>2, <2>3, <2>4, <3>1, <4>1 DEF u
    <3>2. CASE b # a /\ slot[b] = 0
      BY <1>2, <2>3, <3>2 DEF SlotsAgree
    <3>3. CASE b # a /\ slot[b] # 0
      <4>1. /\ active'[b] /\ slot'[b] = slot[b] /\ slot[b] \in 1..Len(list[UnitOf[b]])
            /\ list[UnitOf[b]][slot[b]] = b /\ UnitOf[b] \in Units
        BY <1>2, <2>3, <3>3, SlotFacts DEF SlotsAgree
      <4>2. CASE UnitOf[b] = u
        <5>1. slot[b] \in 1..Len(list[u]) /\ list[u][slot[b]] = b
          BY <4>1, <4>2
        <5>2. list'[u][slot[b]] = b
          BY <2>2, <2>3, <5>1
        <5>3. slot[b] \in DOMAIN list'[u]
          BY <1>1, <2>4, <2>5, <5>1
        <5> QED
          BY <3>3, <4>1, <4>2, <5>2, <5>3
      <4>3. CASE UnitOf[b] # u
        <5>1. list'[UnitOf[b]] = list[UnitOf[b]] /\ slot[b] \in DOMAIN list[UnitOf[b]]
          BY <2>3, <3>3, <4>1, <4>3 DEF SlotsAgree
        <5> QED
          BY <3>3, <4>1, <5>1
      <4> QED
        BY <4>2, <4>3
    <3> QED
      BY <3>1, <3>2, <3>3
  <2>7. ASSUME NEW v \in Units, NEW i \in DOMAIN list'[v]
        PROVE  UnitOf[list'[v][i]] = v /\ slot'[list'[v][i]] = i
    <3>1. ASSUME NEW w \in Units, NEW j \in DOMAIN list[w]
          PROVE  list[w][j] \in Auras \ {a} /\ UnitOf[list[w][j]] = w /\ slot[list[w][j]] = j
      BY <1>1, ListFacts
    <3>2. CASE v # u
      <4>1. list'[v] = list[v] /\ i \in DOMAIN list[v]
        BY <2>3, <3>2
      <4>2. list[v][i] \in Auras \ {a} /\ UnitOf[list[v][i]] = v /\ slot[list[v][i]] = i
        BY <3>1, <4>1
      <4> QED
        BY <2>3, <4>1, <4>2
    <3>3. CASE v = u /\ i = n
      BY <2>2, <2>3, <3>3 DEF u
    <3>4. CASE v = u /\ i # n
      <4>1. i \in DOMAIN list[u] /\ i \in 1..Len(list[u])
        BY <1>1, <2>4, <2>5, <3>4
      <4>2. list'[u][i] = list[u][i]
        BY <2>2, <2>3, <4>1
      <4>3. list[u][i] \in Auras \ {a} /\ UnitOf[list[u][i]] = u /\ slot[list[u][i]] = i
        BY <1>1, <3>1, <4>1
      <4> QED
        BY <2>3, <3>4, <4>2, <4>3
    <3> QED
      BY <3>2, <3>3, <3>4
  <2> QED
    BY <2>3, <2>6, <2>7 DEF SlotsAgree
<1> QED
  BY <1>3, <1>4

\* The last aura of the list moves into the gap and learns its place.
LEMMA DeactivateSlots ==
    ASSUME Types, SlotsAgree, NEW a \in Auras, Deactivate(a)
    PROVE  /\ active' \in [Auras -> BOOLEAN] /\ expires' \in [Auras -> Nat]
           /\ slot' \in [Auras -> Nat] /\ list' \in [Units -> Seq(Auras)]
           /\ SlotsAgree'
<1>1. /\ active' = [active EXCEPT ![a] = FALSE] /\ expires' = [expires EXCEPT ![a] = 0]
      /\ active' \in [Auras -> BOOLEAN] /\ expires' \in [Auras -> Nat]
      /\ ~active'[a]
      /\ \A b \in Auras \ {a} : active'[b] = active[b] /\ expires'[b] = expires[b]
  BY DEF Deactivate, Types
<1>2. CASE slot[a] = 0
  <2>1. UNCHANGED <<list, slot>>
    BY <1>2 DEF Deactivate, Unlist
  <2>2. \A b \in Auras :
          IF slot'[b] = 0 THEN active'[b] => expires'[b] = Never
          ELSE /\ active'[b] /\ slot'[b] \in DOMAIN list'[UnitOf[b]]
               /\ list'[UnitOf[b]][slot'[b]] = b
    BY <1>1, <1>2, <2>1 DEF SlotsAgree
  <2> QED
    BY <1>1, <2>1, <2>2 DEF SlotsAgree, Types
<1>3. CASE slot[a] # 0
  <2> DEFINE u == UnitOf[a]
             n == Len(list[u])
             k == slot[a]
             moved == list[u][n]
             rest == SubSeq(list[u], 1, n - 1)
             shorter == [i \in DOMAIN rest |-> IF i = k THEN moved ELSE rest[i]]
  <2>1. /\ u \in Units /\ list[u] \in Seq(Auras) /\ k \in 1..n /\ n \in Nat \ {0}
        /\ list[u][k] = a /\ DOMAIN list[u] = 1..n
    BY <1>3, SlotFacts, LenProperties
  <2>2. moved \in Auras /\ UnitOf[moved] = u /\ slot[moved] = n
    <3>1. n \in DOMAIN list[u]
      BY <2>1
    <3> QED
      BY <2>1, <3>1, ListFacts
  <2>3. list' = [list EXCEPT ![u] = shorter] /\ slot' = [slot EXCEPT ![moved] = k, ![a] = 0]
    BY <1>3 DEF Deactivate, Unlist
  <2>4. DOMAIN rest = 1..n - 1 /\ \A i \in 1..n - 1 : rest[i] = list[u][i]
    <3>1. \A i \in 1..n - 1 : list[u][i] \in Auras
      BY <2>1, ElementOfSeq
    <3>2. /\ rest \in Seq(Auras) /\ Len(rest) = IF 1 <= n - 1 THEN n - 1 - 1 + 1 ELSE 0
          /\ \A i \in 1..n - 1 - 1 + 1 : rest[i] = list[u][1 + i - 1]
      BY <2>1, <3>1, SubSeqProperties
    <3>3. Len(rest) = n - 1
      BY <2>1, <3>2
    <3> HIDE DEF rest
    <3> QED
      BY <2>1, <3>2, <3>3, LenProperties
  <2>5. shorter \in Seq(Auras) /\ DOMAIN shorter = 1..n - 1
        /\ \A i \in 1..n - 1 : shorter[i] = IF i = k THEN moved ELSE list[u][i]
    <3> HIDE DEF rest, moved
    <3>1. \A i \in 1..n - 1 : list[u][i] \in Auras
      BY <2>1, ElementOfSeq
    <3>2. shorter \in [1..n - 1 -> Auras]
      BY <2>2, <2>4, <3>1
    <3>3. n - 1 \in Nat
      BY <2>1
    <3>4. shorter \in Seq(Auras)
      BY <3>2, <3>3, SeqDef
    <3> QED
      BY <2>4, <3>4
  <2> HIDE DEF u, n, k, moved, rest, shorter
  <2>6. /\ slot' \in [Auras -> Nat] /\ list' \in [Units -> Seq(Auras)]
        /\ list'[u] = shorter
        /\ \A v \in Units \ {u} : list'[v] = list[v]
        /\ slot'[a] = 0
        /\ moved # a => slot'[moved] = k
        /\ \A b \in Auras \ {a, moved} : slot'[b] = slot[b]
    BY <2>1, <2>2, <2>3, <2>5 DEF Types, k
  <2>7. ASSUME NEW b \in Auras
        PROVE  IF slot'[b] = 0 THEN active'[b] => expires'[b] = Never
               ELSE /\ active'[b] /\ slot'[b] \in DOMAIN list'[UnitOf[b]]
                    /\ list'[UnitOf[b]][slot'[b]] = b
    <3>1. CASE b = a
      BY <1>1, <2>6, <3>1
    <3>2. CASE b = moved /\ b # a
      <4>1. k \in 1..n - 1
        BY <2>1, <3>2 DEF moved
      <4>2. slot'[b] = k /\ slot'[b] \in DOMAIN shorter /\ shorter[k] = b
        BY <2>5, <2>6, <3>2, <4>1
      <4>3. active'[b]
        BY <1>1, <2>1, <2>2, <3>2 DEF SlotsAgree
      <4> QED
        BY <2>2, <2>6, <3>2, <4>2, <4>3, <2>1
    <3>3. CASE b \notin {a, moved} /\ slot[b] = 0
      <4>1. slot'[b] = 0 /\ active'[b] = active[b] /\ expires'[b] = expires[b]
        BY <1>1, <2>6, <3>3
      <4> QED
        BY <3>3, <4>1 DEF SlotsAgree
    <3>4. CASE b \notin {a, moved} /\ slot[b] # 0
      <4>1. /\ active'[b] /\ slot'[b] = slot[b] /\ slot[b] \in DOMAIN list[UnitOf[b]]
            /\ list[UnitOf[b]][slot[b]] = b /\ UnitOf[b] \in Units
        BY <1>1, <2>6, <3>4, SlotFacts DEF SlotsAgree
      <4>2. CASE UnitOf[b] = u
        <5>1. slot[b] \in 1..n /\ slot[b] # n /\ slot[b] # k
          BY <2>1, <3>4, <4>1, <4>2 DEF moved
        <5>2. slot[b] \in 1..n - 1 /\ shorter[slot[b]] = b
          BY <2>1, <2>5, <4>1, <4>2, <5>1
        <5> QED
          BY <2>5, <2>6, <3>4, <4>1, <4>2, <5>2
      <4>3. CASE UnitOf[b] # u
        BY <2>6, <3>4, <4>1, <4>3
      <4> QED
        BY <4>2, <4>3
    <3> QED
      BY <3>1, <3>2, <3>3, <3>4
  <2>8. ASSUME NEW v \in Units, NEW i \in DOMAIN list'[v]
        PROVE  UnitOf[list'[v][i]] = v /\ slot'[list'[v][i]] = i
    <3>1. CASE v # u
      <4>1. list'[v] = list[v] /\ i \in DOMAIN list[v]
        BY <2>6, <3>1
      <4>2. list[v][i] \in Auras /\ UnitOf[list[v][i]] = v /\ slot[list[v][i]] = i
        BY <4>1, ListFacts
      <4>3. list[v][i] \notin {a, moved}
        BY <2>2, <3>1, <4>2 DEF u
      <4> QED
        BY <2>6, <4>1, <4>2, <4>3
    <3>2. CASE v = u
      <4>1. i \in 1..n - 1 /\ list'[u] = shorter /\ i \in DOMAIN list[u]
        BY <2>1, <2>5, <2>6, <3>2
      <4>2. CASE i = k
        <5>1. moved # a
          BY <2>1, <2>2, <4>1, <4>2 DEF k
        <5> QED
          BY <2>2, <2>5, <2>6, <3>2, <4>1, <4>2, <5>1
      <4>3. CASE i # k
        <5>1. list[u][i] \in Auras /\ UnitOf[list[u][i]] = u /\ slot[list[u][i]] = i
          BY <2>1, <4>1, ListFacts
        <5>2. list[u][i] \notin {a, moved}
          BY <2>1, <2>2, <4>1, <4>3, <5>1 DEF k
        <5> QED
          BY <2>5, <2>6, <3>2, <4>1, <4>3, <5>1, <5>2
      <4> QED
        BY <4>2, <4>3
    <3> QED
      BY <3>1, <3>2
  <2> QED
    BY <1>1, <2>6, <2>7, <2>8 DEF SlotsAgree
<1> QED
  BY <1>2, <1>3

-----------------------------------------------------------------------------
(* The list of trackers.                                                     *)

\* The roster names every unit once.
LEMMA RosterFacts ==
    /\ Len(Roster) \in Nat /\ Roster \in [1..Len(Roster) -> Units]
    /\ Pets \subseteq Units /\ NoUnit \notin Units
    /\ IsFiniteSet(Units) /\ Cardinality(Units) = Len(Roster)
    /\ \A i, j \in 1..Len(Roster) : Roster[i] = Roster[j] => i = j
<1> DEFINE n == Len(Roster)
<1>1. n \in Nat /\ Roster \in [1..n -> Units] /\ DOMAIN Roster = 1..n
  BY RosterAssumption, LenProperties
<1>2. Roster \in Bijection(1..n, Units)
  <2>1. IsInjective(Roster)
    BY RosterAssumption DEF IsInjective
  <2>2. \A u \in Units : \E i \in 1..n : Roster[i] = u
    BY <1>1 DEF Units
  <2> QED
    BY <1>1, <2>1, <2>2 DEF Bijection, Injection, Surjection
<1>3. IsFiniteSet(1..n) /\ Cardinality(1..n) = n
  BY <1>1, FS_Interval
<1>4. IsFiniteSet(Units) /\ Cardinality(Units) = Cardinality(1..n)
  BY <1>2, <1>3, FS_Bijection DEF ExistsBijection
<1> QED
  BY <1>1, <1>3, <1>4, RosterAssumption

\* At the start the permanent units are tracked: they come first.
LEMMA FirstTracked ==
    LET k == Cardinality(Units \ Pets)
    IN  k \in 0..Len(Roster) /\ \A i \in 1..Len(Roster) : i <= k <=> Roster[i] \notin Pets
<1> DEFINE k == Cardinality(Units \ Pets)
           D == {i \in 1..Len(Roster) : Roster[i] \notin Pets}
           f == [i \in D |-> Roster[i]]
           n == Len(Roster)
<1>1. IsFiniteSet(1..n) /\ Cardinality(1..n) = n
  <2>1. n \in Nat
    BY RosterFacts
  <2> HIDE DEF n, D, k, f
  <2> QED
    BY <2>1, FS_Interval
<1>2. IsFiniteSet(D) /\ Cardinality(D) <= Len(Roster) /\ Cardinality(D) \in Nat
  BY <1>1, FS_Subset, FS_CardinalityType
<1>3. f \in Bijection(D, Units \ Pets)
  <2>1. f \in [D -> Units \ Pets] /\ IsInjective(f)
    BY RosterFacts DEF IsInjective
  <2>2. \A u \in Units \ Pets : \E i \in D : f[i] = u
    BY RosterFacts, RosterAssumption, LenProperties DEF Units
  <2> QED
    BY <2>1, <2>2 DEF Bijection, Injection, Surjection
<1>4. k = Cardinality(D)
  <2> HIDE DEF f, D
  <2> QED
    BY <1>2, <1>3, FS_Bijection DEF ExistsBijection
<1>5. ASSUME NEW i \in D PROVE i <= k
  <2>1. 1..i \subseteq D
    <3>1. \A j \in 1..Len(Roster) : j <= i => Roster[j] \notin Pets
      BY RosterAssumption, LenProperties
    <3> QED
      BY <3>1, RosterFacts
  <2>2. IsFiniteSet(1..i) /\ Cardinality(1..i) = i
    BY RosterFacts, FS_Interval
  <2>3. i \in Nat
    BY RosterFacts
  <2> HIDE DEF D, k, f
  <2>4. Cardinality(1..i) <= Cardinality(D)
    BY <1>2, <2>1, FS_Subset
  <2>5. Cardinality(1..i) <= k
    BY <1>4, <2>4
  <2> QED
    BY <2>2, <2>5
<1>6. D = 1..k
  <2>1. D \subseteq 1..k
    <3>1. \A i \in D : i \in Nat \ {0}
      BY RosterFacts
    <3>2. k \in Nat
      BY <1>2, <1>4
    <3> HIDE DEF D, k
    <3> QED
      BY <1>5, <3>1, <3>2
  <2>2. IsFiniteSet(1..k) /\ Cardinality(1..k) = k
    BY <1>2, <1>4, FS_Interval
  <2> HIDE DEF D, k
  <2> QED
    BY <1>4, <2>1, <2>2, FS_Subset
<1>7. k \in 0..Len(Roster)
  BY <1>2, <1>4, RosterFacts
<1>8. \A i \in 1..Len(Roster) : i <= k <=> i \in D
  <2> HIDE DEF D, k
  <2> QED
    BY <1>6, <1>7, RosterFacts
<1> QED
  BY <1>7, <1>8

\* There is room for a unit that is not tracked.
LEMMA RoomForOne ==
    ASSUME Types, TrackedOnce, NEW u \in Units, ~Tracked(u)
    PROVE  tracked + 1 \in 1..Len(Roster)
<1> DEFINE f == [i \in 1..tracked |-> trackers[i]]
<1>1. tracked \in Nat /\ Len(Roster) \in Nat /\ tracked <= Len(Roster)
  BY RosterFacts DEF Types
<1>2. f \in Injection(1..tracked, Units \ {u})
  <2>1. \A i \in 1..tracked : trackers[i] \in Units /\ trackers[i] # u
    <3>1. \A i \in 1..tracked : i \in 1..Len(Roster)
      BY <1>1
    <3>2. \A i \in 1..tracked : trackers[i] \in Units
      BY <3>1 DEF Types
    <3>3. \A i \in 1..tracked : trackers[i] # u
      BY Zenon DEF Tracked
    <3> QED
      BY <3>2, <3>3
  <2>2. f \in [1..tracked -> Units \ {u}]
    BY <2>1
  <2>3. IsInjective(f)
    <3>1. DOMAIN f = 1..tracked /\ \A i \in 1..tracked : f[i] = trackers[i]
      OBVIOUS
    <3>2. \A i, j \in 1..tracked : trackers[i] = trackers[j] => i = j
      BY DEF TrackedOnce
    <3> HIDE DEF f
    <3> QED
      BY <3>1, <3>2 DEF IsInjective
  <2> QED
    BY <2>2, <2>3 DEF Injection
<1>3. IsFiniteSet(Units \ {u}) /\ Cardinality(Units \ {u}) = Len(Roster) - 1
  BY RosterFacts, FS_RemoveElement
<1>4. Cardinality(1..tracked) = tracked
  BY <1>1, FS_Interval
<1>5. Cardinality(1..tracked) <= Cardinality(Units \ {u})
  <2> HIDE DEF f
  <2> QED
    BY <1>2, <1>3, FS_Injection
<1> QED
  BY <1>1, <1>3, <1>4, <1>5

\* A pet that is summoned is tracked once.
LEMMA EnableTracked ==
    ASSUME IInv, NEW u \in Pets, EnablePet(u)
    PROVE  TrackedOnce' /\ DismissInv' /\ UNCHANGED <<slotVars, now, pass>>
           /\ trackers' \in [1..Len(Roster) -> Units] /\ tracked' \in 0..Len(Roster)
           /\ enabled' \in [Units -> BOOLEAN] /\ dismissing' = dismissing
<1> USE DEF IInv
<1>1. u \in Units /\ ~enabled[u] /\ dismissing = NoUnit /\ u # NoUnit
  BY RosterFacts DEF EnablePet
<1>2. ~Tracked(u)
  BY <1>1 DEF TrackedOnce
<1>3. tracked + 1 \in 1..Len(Roster) /\ tracked \in Nat
  BY <1>1, <1>2, RoomForOne DEF Types
<1>4. /\ tracked' = tracked + 1 /\ trackers' = [trackers EXCEPT ![tracked + 1] = u]
      /\ enabled' = [enabled EXCEPT ![u] = TRUE]
      /\ UNCHANGED <<slotVars, now, pass, dismissing>>
  BY DEF EnablePet, auraVars, trackerVars, slotVars
<1>5. /\ trackers' \in [1..Len(Roster) -> Units] /\ tracked' \in 0..Len(Roster)
      /\ enabled' \in [Units -> BOOLEAN]
      /\ trackers'[tracked + 1] = u /\ enabled'[u]
      /\ \A i \in 1..tracked : trackers'[i] = trackers[i]
      /\ \A v \in Units \ {u} : enabled'[v] = enabled[v]
  BY <1>1, <1>3, <1>4, RosterFacts DEF Types
<1>6. \A i \in 1..tracked' : i \in 1..tracked \/ i = tracked + 1
  BY <1>3, <1>4
<1>7. \A i \in 1..tracked : i \in 1..tracked' /\ tracked + 1 \in 1..tracked'
  BY <1>3, <1>4
<1>8. ASSUME NEW v \in Units PROVE Tracked(v)' <=> (enabled'[v] \/ dismissing' = v)
  <2>1. CASE v = u
    BY <1>3, <1>4, <1>5, <2>1 DEF Tracked
  <2>2. CASE v # u
    <3>1. Tracked(v)' <=> Tracked(v)
      BY <1>5, <1>6, <1>7, <2>2 DEF Tracked
    <3> QED
      BY <1>4, <1>5, <2>2, <3>1 DEF TrackedOnce
  <2> QED
    BY <2>1, <2>2
<1>9. \A i, j \in 1..tracked' : trackers'[i] = trackers'[j] => i = j
  <2>1. \A i \in 1..tracked : trackers'[i] # u
    BY <1>2, <1>5 DEF Tracked
  <2> QED
    BY <1>5, <1>6, <2>1 DEF TrackedOnce
<1> QED
  BY <1>1, <1>4, <1>5, <1>8, <1>9 DEF TrackedOnce, DismissInv

\* A pet that is dismissed leaves the list, and no other unit does.
LEMMA DismissTracked ==
    ASSUME IInv, ExpireAllDone
    PROVE  TrackedOnce' /\ DismissInv' /\ UNCHANGED <<slotVars, now, pass, enabled>>
           /\ trackers' \in [1..Len(Roster) -> Units] /\ tracked' \in 0..Len(Roster)
           /\ dismissing' = NoUnit
<1> USE DEF IInv
<1> DEFINE u == dismissing
<1>1. u \in Units /\ ~enabled[u] /\ u # NoUnit
  BY RosterFacts DEF ExpireAllDone, Types, DismissInv
<1>2. PICK k \in 1..tracked : trackers[k] = u
  BY <1>1 DEF TrackedOnce, Tracked
<1>3. tracked \in Nat \ {0} /\ tracked \in 1..Len(Roster) /\ Len(Roster) \in Nat
  BY <1>2, RosterFacts DEF Types
<1>4. /\ tracked' = tracked - 1 /\ dismissing' = NoUnit
      /\ trackers' = [i \in DOMAIN trackers |->
                        IF i <= tracked /\ trackers[i] = u THEN trackers[tracked] ELSE trackers[i]]
      /\ UNCHANGED <<slotVars, now, pass, enabled>>
  <2>1. RemoveTracker(u) /\ dismissing' = NoUnit /\ UNCHANGED <<slotVars, now, pass, enabled>>
    BY DEF ExpireAllDone, slotVars
  <2> HIDE DEF u
  <2> QED
    BY <2>1, Zenon DEF RemoveTracker
<1> HIDE DEF u
<1>5. trackers' \in [1..Len(Roster) -> Units] /\ tracked' \in 0..Len(Roster)
  <2>1. trackers \in [1..Len(Roster) -> Units] /\ trackers[tracked] \in Units
    BY <1>3 DEF Types
  <2>2. DOMAIN trackers = 1..Len(Roster) /\ \A i \in 1..Len(Roster) : trackers[i] \in Units
    BY <2>1
  <2>3. trackers' \in [1..Len(Roster) -> Units]
    BY <1>4, <2>1, <2>2
  <2>4. tracked - 1 \in 0..Len(Roster)
    BY <1>3
  <2> QED
    BY <1>4, <2>3, <2>4
<1>6. \A i \in 1..tracked' : /\ i \in 1..tracked /\ i # tracked
                             /\ trackers'[i] = IF i = k THEN trackers[tracked] ELSE trackers[i]
  <2>1. \A i \in 1..tracked' : i \in 1..tracked /\ i # tracked
    BY <1>3, <1>4
  <2>2. \A i \in 1..tracked : i \in DOMAIN trackers /\ i <= tracked
    BY <1>3 DEF Types
  <2>3. \A i \in 1..tracked : trackers[i] = u <=> i = k
    BY <1>2 DEF TrackedOnce
  <2> QED
    BY <1>4, <2>1, <2>2, <2>3
<1>7. \A i \in 1..tracked : i # tracked => i \in 1..tracked'
  BY <1>3, <1>4
<1>8. \A i, j \in 1..tracked : trackers[i] = trackers[j] => i = j
  BY DEF TrackedOnce
<1>9. \A i, j \in 1..tracked' : trackers'[i] = trackers'[j] => i = j
  BY <1>3, <1>6, <1>8
<1>10. ASSUME NEW v \in Units PROVE Tracked(v)' <=> (enabled'[v] \/ dismissing' = v)
  <2>1. dismissing' # v /\ enabled'[v] = enabled[v]
    BY <1>4, RosterFacts
  <2>2. CASE v = u
    <3>1. \A i \in 1..tracked' : trackers'[i] # u
      BY <1>2, <1>3, <1>6, <1>8
    <3> QED
      BY <1>1, <2>1, <2>2, <3>1 DEF Tracked
  <2>3. CASE v # u
    <3>1. Tracked(v) => Tracked(v)'
      <4> SUFFICES ASSUME NEW i \in 1..tracked, trackers[i] = v PROVE Tracked(v)'
        BY DEF Tracked
      <4>1. CASE i = tracked
        <5>1. k # tracked
          BY <1>2, <2>3, <4>1
        <5>2. k \in 1..tracked' /\ trackers'[k] = v
          BY <1>6, <1>7, <4>1, <5>1
        <5> QED
          BY <5>2 DEF Tracked
      <4>2. CASE i # tracked
        <5>1. i \in 1..tracked' /\ trackers'[i] = v
          BY <1>2, <1>6, <1>7, <2>3, <4>2
        <5> QED
          BY <5>1 DEF Tracked
      <4> QED
        BY <4>1, <4>2
    <3>2. Tracked(v)' => Tracked(v)
      BY <1>3, <1>6 DEF Tracked
    <3>3. Tracked(v) <=> enabled[v]
      BY <2>3 DEF TrackedOnce, u
    <3> QED
      BY <2>1, <3>1, <3>2, <3>3
  <2> QED
    BY <2>2, <2>3
<1> QED
  BY <1>4, <1>5, <1>9, <1>10 DEF TrackedOnce, DismissInv

-----------------------------------------------------------------------------
(* The steps.                                                                *)

\* The loop over the trackers stays within the roster.
LEMMA VisitType ==
    ASSUME Types, NEW i \in Nat \ {0}, NEW n \in 0..Len(Roster)
    PROVE  /\ Visit(i, n) \in [at : Nat, upto : 0..Len(Roster), unit : Units \cup {NoUnit},
                               stage : {"none", "try", "code"}]
           /\ Visit(i, n).stage # "none" => Visit(i, n).unit \in Units
<1>1. CASE i > n
  <2>1. Visit(i, n) = NoPass
    BY <1>1 DEF Visit
  <2>2. 0 \in 0..Len(Roster)
    BY RosterFacts
  <2> QED
    BY <2>1, <2>2 DEF NoPass
<1>2. CASE ~(i > n)
  <2>1. i \in 1..Len(Roster)
    BY <1>2, RosterFacts
  <2>2. trackers[i] \in Units
    BY <2>1 DEF Types
  <2>3. Visit(i, n) = [at |-> i, upto |-> n, unit |-> trackers[i], stage |-> "try"]
    BY <1>2 DEF Visit
  <2> QED
    BY <2>2, <2>3
<1> QED
  BY <1>1, <1>2

\* What TrackedOnce and DismissInv are about stays as it is.
LEMMA RosterKept ==
    ASSUME IInv, UNCHANGED <<trackers, tracked, enabled, dismissing>>
    PROVE  TrackedOnce' /\ DismissInv'
<1>1. \A u : Tracked(u)' <=> Tracked(u)
  BY DEF Tracked
<1> QED
  BY <1>1 DEF IInv, TrackedOnce, DismissInv

\* What SlotsAgree is about stays as it is.
LEMMA SlotsKept ==
    ASSUME IInv, UNCHANGED slotVars
    PROVE  SlotsAgree'
BY DEF IInv, SlotsAgree, slotVars

\* An aura is refreshed where it is, or enters the list of its unit.
LEMMA GainStep ==
    ASSUME IInv, NEW a \in Auras, Gain(a)
    PROVE  IInv'
<1>1. PICK d \in Durations[a] :
        /\ Refresh(a, d)
        /\ IF active[a]
           THEN (slot[a] # 0 \/ d = Never) /\ UNCHANGED <<active, list, slot>>
           ELSE active' = [active EXCEPT ![a] = TRUE] /\ Enlist(a, d)
  BY DEF Gain
<1>2. UNCHANGED <<now, trackers, tracked, enabled, dismissing, pass>>
  BY DEF Gain
<1>3. d \in Nat /\ Never \in Nat /\ now \in Nat
  BY DurationAssumption DEF IInv, Types
<1>4. expires' = [expires EXCEPT ![a] = IF d = Never THEN Never ELSE now + d]
  BY <1>1 DEF Refresh
<1>5. /\ expires' \in [Auras -> Nat]
      /\ \A b \in Auras \ {a} : expires'[b] = expires[b]
      /\ d = Never => expires'[a] = Never
  BY <1>3, <1>4 DEF IInv, Types
<1>6. /\ active' \in [Auras -> BOOLEAN] /\ slot' \in [Auras -> Nat]
      /\ list' \in [Units -> Seq(Auras)] /\ SlotsAgree'
  <2>1. CASE active[a]
    <3>1. (slot[a] # 0 \/ d = Never) /\ UNCHANGED <<active, list, slot>>
      BY <1>1, <2>1
    <3>2. ASSUME NEW b \in Auras
          PROVE  IF slot'[b] = 0 THEN active'[b] => expires'[b] = Never
                 ELSE /\ active'[b] /\ slot'[b] \in DOMAIN list'[UnitOf[b]]
                      /\ list'[UnitOf[b]][slot'[b]] = b
      BY <1>5, <3>1 DEF IInv, SlotsAgree
    <3> QED
      BY <3>1, <3>2 DEF IInv, Types, SlotsAgree
  <2>2. CASE ~active[a]
    <3>1. active' = [active EXCEPT ![a] = TRUE] /\ Enlist(a, d)
      BY <1>1, <2>2
    <3>2. active' \in [Auras -> BOOLEAN]
      BY <3>1 DEF IInv, Types
    <3>3. Types /\ SlotsAgree
      BY DEF IInv
    <3> QED
      BY <1>3, <1>4, <2>2, <3>1, <3>2, <3>3, EnlistSlots
  <2> QED
    BY <2>1, <2>2
<1>7. TrackedOnce' /\ DismissInv'
  BY <1>2, RosterKept
<1> QED
  BY <1>2, <1>5, <1>6, <1>7 DEF IInv, Types

\* An aura leaves the list of its unit, and all else that counts stays.
LEMMA FadeStep ==
    ASSUME IInv, NEW a \in Auras, Deactivate(a),
           UNCHANGED <<now, trackers, tracked, enabled, dismissing>>,
           pass' = pass \/ (pass' = [pass EXCEPT !.stage = "code"] /\ pass.unit \in Units)
    PROVE  IInv'
<1>1. /\ active' \in [Auras -> BOOLEAN] /\ expires' \in [Auras -> Nat]
      /\ slot' \in [Auras -> Nat] /\ list' \in [Units -> Seq(Auras)] /\ SlotsAgree'
  BY DeactivateSlots DEF IInv
<1>2. TrackedOnce' /\ DismissInv'
  BY RosterKept
<1>3. /\ pass' \in [at : Nat, upto : 0..Len(Roster), unit : Units \cup {NoUnit},
                    stage : {"none", "try", "code"}]
      /\ pass'.stage # "none" => pass'.unit \in Units
  BY DEF IInv, Types
<1> QED
  BY <1>1, <1>2, <1>3 DEF IInv, Types

\* Only the clock and the loop over the trackers move.
LEMMA LoopStep ==
    ASSUME IInv, now' \in Nat, UNCHANGED <<slotVars, trackers, tracked, enabled, dismissing>>,
           \/ pass' = pass
           \/ \E i \in Nat \ {0}, n \in 0..Len(Roster) : pass' = Visit(i, n)
    PROVE  IInv'
<1>1. /\ pass' \in [at : Nat, upto : 0..Len(Roster), unit : Units \cup {NoUnit},
                    stage : {"none", "try", "code"}]
      /\ pass'.stage # "none" => pass'.unit \in Units
  <2>1. CASE pass' = pass
    BY <2>1 DEF IInv, Types
  <2>2. ASSUME NEW i \in Nat \ {0}, NEW n \in 0..Len(Roster), pass' = Visit(i, n)
        PROVE  /\ pass' \in [at : Nat, upto : 0..Len(Roster), unit : Units \cup {NoUnit},
                             stage : {"none", "try", "code"}]
               /\ pass'.stage # "none" => pass'.unit \in Units
    <3>1. Types
      BY DEF IInv
    <3> QED
      BY <2>2, <3>1, VisitType
  <2> QED
    BY <2>1, <2>2
<1> QED
  BY <1>1, RosterKept, SlotsKept DEF IInv, Types, slotVars

\* A unit whose list is being walked is one of the roster, and so are its auras.
LEMMA WalkFacts ==
    ASSUME IInv, Walking
    PROVE  /\ pass.unit \in Units /\ pass.at + 1 \in Nat \ {0} /\ pass.upto \in 0..Len(Roster)
           /\ \A i \in DOMAIN list[pass.unit] : list[pass.unit][i] \in Auras
<1>1. pass.unit \in Units /\ pass.at \in Nat /\ pass.upto \in 0..Len(Roster)
  BY DEF IInv, Types, Walking
<1> QED
  BY <1>1, ListFacts DEF IInv

\* A pet that begins to be dismissed stays tracked while its auras run out.
LEMMA DisableStep ==
    ASSUME IInv, NEW u \in Pets, DisablePet(u)
    PROVE  IInv'
<1>1. u \in Units /\ u # NoUnit /\ enabled[u] /\ dismissing = NoUnit
  BY RosterFacts DEF DisablePet
<1>2. /\ enabled' = [enabled EXCEPT ![u] = FALSE] /\ dismissing' = u
      /\ UNCHANGED <<slotVars, now, trackers, tracked, pass>>
  BY DEF DisablePet, auraVars, trackerVars, slotVars
<1>3. /\ enabled' \in [Units -> BOOLEAN] /\ ~enabled'[u]
      /\ \A v \in Units \ {u} : enabled'[v] = enabled[v]
  BY <1>1, <1>2 DEF IInv, Types
<1>4. \A v \in Units : Tracked(v)' <=> (enabled'[v] \/ dismissing' = v)
  <2>1. \A v \in Units : Tracked(v)' <=> Tracked(v)
    BY <1>2 DEF Tracked
  <2>2. \A v \in Units : (enabled[v] \/ dismissing = v) <=> (enabled'[v] \/ dismissing' = v)
    BY <1>1, <1>2, <1>3, RosterFacts
  <2> QED
    BY <2>1, <2>2 DEF IInv, TrackedOnce
<1>5. TrackedOnce' /\ DismissInv'
  BY <1>2, <1>3, <1>4 DEF IInv, TrackedOnce, DismissInv
<1> QED
  BY <1>2, <1>3, <1>5, SlotsKept DEF IInv, Types, slotVars

\* At the start no list holds an aura and the permanent units are tracked.
LEMMA InitInv ==
    Init => IInv
<1> SUFFICES ASSUME Init PROVE IInv
  OBVIOUS
<1> DEFINE k == Cardinality(Units \ Pets)
<1>1. k \in 0..Len(Roster) /\ \A i \in 1..Len(Roster) : i <= k <=> Roster[i] \notin Pets
  BY FirstTracked
<1> HIDE DEF k
<1>2. tracked = k /\ trackers = Roster
  BY DEF Init, k
<1>3. Types
  <2>1. 0 \in 0..Len(Roster) /\ <<>> \in Seq(Auras)
    BY RosterFacts, EmptySeq
  <2>2. /\ active \in [Auras -> BOOLEAN] /\ expires \in [Auras -> Nat] /\ slot \in [Auras -> Nat]
        /\ list \in [Units -> Seq(Auras)] /\ enabled \in [Units -> BOOLEAN]
    BY <2>1 DEF Init
  <2>3. pass = NoPass /\ dismissing = NoUnit /\ now = 0
    BY DEF Init
  <2> QED
    BY <1>1, <1>2, <2>1, <2>2, <2>3, RosterFacts DEF Types, NoPass
<1>4. SlotsAgree
  <2>1. \A a \in Auras : slot[a] = 0 /\ ~active[a]
    BY DEF Init
  <2>2. \A u \in Units : list[u] = <<>> /\ DOMAIN list[u] = {}
    BY EmptySeq DEF Init
  <2> QED
    BY <2>1, <2>2 DEF SlotsAgree
<1>5. TrackedOnce
  <2>1. \A i \in 1..tracked : i \in 1..Len(Roster) /\ i <= k
    BY <1>1, <1>2, RosterFacts
  <2>2. ASSUME NEW u \in Units PROVE Tracked(u) <=> u \notin Pets
    <3>1. PICK i \in 1..Len(Roster) : Roster[i] = u
      BY RosterAssumption, LenProperties DEF Units
    <3>2. \A j \in 1..tracked : Roster[j] = u => j = i
      BY <2>1, <3>1, RosterFacts
    <3>3. i \in 1..tracked <=> i <= k
      BY <1>1, <1>2, RosterFacts
    <3> QED
      BY <1>1, <1>2, <3>1, <3>2, <3>3 DEF Tracked
  <2>3. \A u \in Units : (enabled[u] \/ dismissing = u) <=> u \notin Pets
    BY RosterFacts DEF Init
  <2>4. \A i, j \in 1..tracked : trackers[i] = trackers[j] => i = j
    BY <1>2, <2>1, RosterFacts
  <2> QED
    BY <2>2, <2>3, <2>4 DEF TrackedOnce
<1> QED
  BY <1>3, <1>4, <1>5 DEF IInv, DismissInv, Init

\* Every step keeps the invariant.
LEMMA Inductive ==
    IInv /\ [Next]_vars => IInv'
<1> SUFFICES ASSUME IInv, [Next]_vars PROVE IInv'
  OBVIOUS
<1>1. CASE \E a \in Auras : Gain(a)
  BY <1>1, GainStep
<1>2. CASE \E a \in Auras : Remove(a)
  BY <1>2, FadeStep DEF Remove
<1>3. CASE \E u \in Pets : EnablePet(u)
  <2>1. PICK u \in Pets : EnablePet(u)
    BY <1>3
  <2>2. /\ TrackedOnce' /\ DismissInv' /\ UNCHANGED <<slotVars, now, pass>>
        /\ trackers' \in [1..Len(Roster) -> Units] /\ tracked' \in 0..Len(Roster)
        /\ enabled' \in [Units -> BOOLEAN] /\ dismissing' = dismissing
    BY <2>1, EnableTracked
  <2> QED
    BY <2>2, SlotsKept DEF IInv, Types, slotVars
<1>4. CASE \E u \in Pets : DisablePet(u)
  BY <1>4, DisableStep
<1>5. CASE ExpireAllFade
  <2>1. dismissing \in Units /\ list[dismissing] # <<>>
    BY <1>5, RosterFacts DEF ExpireAllFade, IInv, Types
  <2>2. list[dismissing] \in Seq(Auras)
    BY <2>1 DEF IInv, Types
  <2>3. list[dismissing][1] \in Auras
    BY <2>1, <2>2
  <2> QED
    BY <1>5, <2>3, FadeStep DEF ExpireAllFade
<1>6. CASE ExpireAllDone
  <2>1. /\ TrackedOnce' /\ DismissInv' /\ UNCHANGED <<slotVars, now, pass, enabled>>
        /\ trackers' \in [1..Len(Roster) -> Units] /\ tracked' \in 0..Len(Roster)
        /\ dismissing' = NoUnit
    BY <1>6, DismissTracked
  <2> QED
    BY <2>1, SlotsKept DEF IInv, Types, slotVars
<1>7. CASE \E t \in 0..MaxTime : Advance(t)
  <2>1. PICK t \in 0..MaxTime : Advance(t)
    BY <1>7
  <2>2. now' \in Nat /\ UNCHANGED <<slotVars, trackers, tracked, enabled, dismissing>>
    BY <2>1, DurationAssumption DEF Advance, slotVars
  <2>3. pass' = pass \/ pass' = Visit(1, tracked)
    BY <2>1 DEF Advance
  <2>4. tracked \in 0..Len(Roster)
    BY DEF IInv, Types
  <2> QED
    BY <2>2, <2>3, <2>4, LoopStep
<1>8. CASE SkipTracker
  <2>1. pass.at + 1 \in Nat \ {0} /\ pass.upto \in 0..Len(Roster) /\ now \in Nat
    BY DEF IInv, Types
  <2>2. pass' = Visit(pass.at + 1, pass.upto)
    BY <1>8 DEF SkipTracker, Report
  <2>3. now' \in Nat /\ UNCHANGED <<slotVars, trackers, tracked, enabled, dismissing>>
    BY <1>8, <2>1 DEF SkipTracker, auraVars, trackerVars, slotVars
  <2> QED
    BY <2>1, <2>2, <2>3, LoopStep
<1>9. CASE WalkFade
  <2>1. PICK i \in DOMAIN list[pass.unit] : Deactivate(list[pass.unit][i])
    BY <1>9 DEF WalkFade
  <2>2. pass.unit \in Units /\ list[pass.unit][i] \in Auras
    BY <1>9, <2>1, WalkFacts DEF WalkFade
  <2>3. /\ pass' = [pass EXCEPT !.stage = "code"]
        /\ UNCHANGED <<now, trackers, tracked, enabled, dismissing>>
    BY <1>9 DEF WalkFade
  <2> QED
    BY <2>1, <2>2, <2>3, FadeStep
<1>10. CASE WalkDone
  <2>1. pass.at + 1 \in Nat \ {0} /\ pass.upto \in 0..Len(Roster) /\ now \in Nat
    BY <1>10, WalkFacts DEF WalkDone, IInv, Types
  <2>2. pass' = Visit(pass.at + 1, pass.upto)
    BY <1>10 DEF WalkDone, Report
  <2>3. now' \in Nat /\ UNCHANGED <<slotVars, trackers, tracked, enabled, dismissing>>
    BY <1>10, <2>1 DEF WalkDone, slotVars
  <2> QED
    BY <2>1, <2>2, <2>3, LoopStep
<1>11. CASE UNCHANGED vars
  <2>1. /\ now' \in Nat /\ pass' = pass
        /\ UNCHANGED <<slotVars, trackers, tracked, enabled, dismissing>>
    BY <1>11 DEF vars, auraVars, trackerVars, simVars, slotVars, IInv, Types
  <2> QED
    BY <2>1, LoopStep
<1> QED
  BY <1>1, <1>2, <1>3, <1>4, <1>5, <1>6, <1>7, <1>8, <1>9, <1>10, <1>11 DEF Next

\* The lists of auras agree with the indices the auras carry, and exactly the
\* enabled units and the one being dismissed are tracked, each once.
THEOREM ListsStayConsistent ==
    Spec => []ListsAgree
<1>1. IInv => ListsAgree
  BY DEF IInv, ListsAgree
<1> QED
  BY InitInv, Inductive, <1>1, PTL DEF Spec

-----------------------------------------------------------------------------
(* The caches.  Both properties are about the time between two passes over    *)
(* the trackers, and both depend on what a pass achieves while its callbacks  *)
(* change everything that it looks at.  ToCome says what the pass still owes: *)
(* a unit whose cache minTrackerTime does not cover is the one in hand, or    *)
(* stands at a place of the array that the loop has not reached.  Removing a  *)
(* tracker only overwrites places of that very tracker, so that no other one  *)
(* is lost.                                                                   *)

CacheTypes ==
    /\ minExpires \in [Units -> Nat] /\ minTracker \in Nat
    /\ now <= MaxTime

\* The cache of a unit covers its auras, except in the middle of its own walk.
CoverInv ==
    \A a \in Auras : slot[a] # 0 =>
        minExpires[UnitOf[a]] <= expires[a] \/ (pass.stage = "code" /\ pass.unit = UnitOf[a])

\* The pass has the unit in hand or is still to reach it.
ToCome(u) ==
    /\ pass.stage # "none"
    /\ pass.unit = u \/ \E i \in (pass.at + 1)..pass.upto : trackers[i] = u

TrackerInv == \A u \in Units : Tracked(u) => minTracker <= minExpires[u] \/ ToCome(u)

\* The permanent units are enabled throughout, and nothing of theirs is overdue.
ClockInv ==
    \A u \in Units \ Pets : enabled[u] /\ (now < minExpires[u] \/ ToCome(u))

CacheInv == CacheTypes /\ CoverInv /\ TrackerInv /\ ClockInv

FullInv == IInv /\ CacheInv

-----------------------------------------------------------------------------
(* The operators.                                                            *)

LEMMA MinOfFacts ==
    ASSUME NEW S \in SUBSET Nat
    PROVE  /\ MinOf(S) \in Nat /\ MinOf(S) \in S \cup {Never} /\ MinOf(S) <= Never
           /\ \A x \in S : MinOf(S) <= x
<1> DEFINE T == S \cup {Never}
<1>1. T \subseteq Nat /\ T # {}
  BY DurationAssumption
<1> HIDE DEF T
<1>2. IsWellFoundedOn(OpToRel(<, Nat), Nat)
  BY NatLessThanWellFounded
<1>3. PICK m \in T : \A k \in T : ~ (<<k, m>> \in OpToRel(<, Nat))
  BY <1>1, <1>2, WFMin
<1>4. \A k \in T : m <= k
  <2> SUFFICES ASSUME NEW k \in T PROVE ~ (k < m)
    BY <1>1
  <2>1. <<k, m>> \in Nat \X Nat /\ ~ (<<k, m>> \in OpToRel(<, Nat))
    BY <1>1, <1>3
  <2> QED
    BY <2>1 DEF OpToRel
<1>5. Min(T) \in T /\ \A k \in T : Min(T) <= k
  BY <1>4 DEF Min
<1> QED
  BY <1>1, <1>5 DEF MinOf, T

\* The cache of the simulation after it has been told of a time.
LEMMA TellFacts ==
    ASSUME CacheTypes, NEW e \in Nat
    PROVE  LET m == MinOf({minTracker, e})
           IN m \in Nat /\ m <= minTracker /\ m <= e
<1>1. {minTracker, e} \in SUBSET Nat
  BY DEF CacheTypes
<1> QED
  BY <1>1, MinOfFacts

\* What lies ahead of the loop is still to come after one step of it.
LEMMA VisitNext ==
    ASSUME NEW at \in Nat, NEW upto \in Nat, pass' = Visit(at + 1, upto), trackers' = trackers
    PROVE  /\ \A u : (\E i \in (at + 1)..upto : trackers[i] = u) => ToCome(u)'
           /\ pass'.stage # "code"
<1>1. CASE at + 1 > upto
  <2>1. pass' = NoPass /\ (at + 1)..upto = {}
    BY <1>1 DEF Visit
  <2> QED
    BY <2>1 DEF NoPass
<1>2. CASE ~(at + 1 > upto)
  <2>1. pass' = [at |-> at + 1, upto |-> upto, unit |-> trackers[at + 1], stage |-> "try"]
    BY <1>2 DEF Visit
  <2>2. /\ pass'.stage = "try" /\ pass'.unit = trackers[at + 1]
        /\ pass'.at = at + 1 /\ pass'.upto = upto
    BY <2>1
  <2>3. ASSUME NEW i \in (at + 1)..upto PROVE ToCome(trackers[i])'
    <3>1. i = at + 1 \/ i \in (at + 1 + 1)..upto
      OBVIOUS
    <3> QED
      BY <2>2, <3>1 DEF ToCome
  <2> QED
    BY <2>2, <2>3
<1> QED
  BY <1>1, <1>2

\* An aura that is no longer active is on no list, and the deadlines of the others
\* stay.
LEMMA DeactivateCover ==
    ASSUME IInv, NEW a \in Auras, Deactivate(a)
    PROVE  \A b \in Auras : slot'[b] # 0 => slot[b] # 0 /\ expires'[b] = expires[b]
<1>1. expires' = [expires EXCEPT ![a] = 0] /\ Unlist(a)
  BY DEF Deactivate
<1>2. \A b \in Auras \ {a} : expires'[b] = expires[b]
  BY <1>1 DEF IInv, Types
<1>3. CASE slot[a] = 0
  BY <1>1, <1>2, <1>3 DEF Unlist
<1>4. CASE slot[a] # 0
  <2> DEFINE l == list[UnitOf[a]]
             moved == l[Len(l)]
  <2>1. UnitOf[a] \in Units /\ Len(l) \in Nat \ {0} /\ l \in Seq(Auras)
    BY <1>4, SlotFacts DEF IInv
  <2>2. moved \in Auras /\ slot[moved] = Len(l)
    <3>1. Len(l) \in DOMAIN l
      BY <2>1, LenProperties
    <3> QED
      BY <2>1, <3>1, ListFacts DEF IInv
  <2>3. slot' = [slot EXCEPT ![moved] = slot[a], ![a] = 0]
    BY <1>1, <1>4 DEF Unlist
  <2> HIDE DEF moved, l
  <2>4. slot'[a] = 0 /\ \A b \in Auras \ {a} : slot'[b] # 0 => slot[b] # 0
    BY <2>1, <2>2, <2>3 DEF IInv, Types
  <2> QED
    BY <1>2, <2>4
<1> QED
  BY <1>3, <1>4

-----------------------------------------------------------------------------
(* The steps.                                                                *)

\* What is tracked and what is still to come stays as it is.
LEMMA ToComeKept ==
    ASSUME UNCHANGED <<trackers, tracked, pass>>
    PROVE  \A u : (Tracked(u)' <=> Tracked(u)) /\ (ToCome(u)' <=> ToCome(u))
  BY DEF Tracked, ToCome

\* Game code that lets an aura go.
LEMMA FadeCaches ==
    ASSUME FullInv, NEW a \in Auras, Deactivate(a),
           UNCHANGED <<now, minExpires, trackers, tracked, minTracker, enabled, pass>>
    PROVE  CacheInv'
<1>1. CacheTypes'
  BY DEF FullInv, CacheInv, CacheTypes
<1>2. CoverInv'
  BY DeactivateCover DEF FullInv, CacheInv, CoverInv
<1>3. TrackerInv' /\ ClockInv'
  BY ToComeKept DEF FullInv, CacheInv, TrackerInv, ClockInv
<1> QED
  BY <1>1, <1>2, <1>3 DEF CacheInv

\* A new deadline is told to both caches.
LEMMA GainCaches ==
    ASSUME FullInv, NEW a \in Auras, Gain(a)
    PROVE  CacheInv'
<1> DEFINE u == UnitOf[a]
<1>1. PICK d \in Durations[a] :
        /\ Refresh(a, d)
        /\ IF active[a]
           THEN (slot[a] # 0 \/ d = Never) /\ UNCHANGED <<active, list, slot>>
           ELSE active' = [active EXCEPT ![a] = TRUE] /\ Enlist(a, d)
  BY DEF Gain
<1>2. UNCHANGED <<now, trackers, tracked, enabled, pass>>
  BY DEF Gain
<1>3. /\ now \in Nat /\ now <= MaxTime /\ minTracker \in Nat
      /\ minExpires \in [Units -> Nat] /\ expires \in [Auras -> Nat] /\ slot \in [Auras -> Nat]
      /\ u \in Units /\ minExpires[u] \in Nat
  BY DurationAssumption DEF FullInv, IInv, Types, CacheInv, CacheTypes
<1> DEFINE e == IF d = Never THEN Never ELSE now + d
           sooner == e < minExpires[u]
<1>4. e \in Nat /\ now < e
  BY <1>3, DurationAssumption
<1>5. /\ expires' = [expires EXCEPT ![a] = e]
      /\ minExpires' = [minExpires EXCEPT ![u] = IF sooner THEN e ELSE @]
      /\ minTracker' = IF sooner THEN MinOf({minTracker, e}) ELSE minTracker
  BY <1>1 DEF Refresh
<1> HIDE DEF e, u
<1>6. /\ minExpires' \in [Units -> Nat] /\ minExpires'[u] <= e
      /\ sooner => minExpires'[u] = e
      /\ ~sooner => minExpires'[u] = minExpires[u]
      /\ \A v \in Units \ {u} : minExpires'[v] = minExpires[v]
      /\ \A v \in Units : minExpires'[v] <= minExpires[v]
  BY <1>3, <1>4, <1>5
<1>7. /\ minTracker' \in Nat /\ minTracker' <= minTracker
      /\ sooner => minTracker' <= e
  <2>1. LET m == MinOf({minTracker, e}) IN m \in Nat /\ m <= minTracker /\ m <= e
    BY <1>4, TellFacts DEF FullInv, CacheInv
  <2> QED
    BY <1>3, <1>5, <2>1
<1>8. CacheTypes'
  BY <1>2, <1>3, <1>6, <1>7 DEF CacheTypes
<1>9. CoverInv'
  <2>1. \A b \in Auras \ {a} : expires'[b] = expires[b] /\ slot'[b] = slot[b]
    <3>1. slot' = slot \/ slot' = [slot EXCEPT ![a] = Len(list[UnitOf[a]]) + 1]
      BY <1>1 DEF Enlist
    <3> QED
      BY <1>3, <1>5, <3>1
  <2>2. expires'[a] = e
    BY <1>3, <1>5
  <2> SUFFICES ASSUME NEW b \in Auras, slot'[b] # 0
               PROVE  \/ minExpires'[UnitOf[b]] <= expires'[b]
                      \/ pass.stage = "code" /\ pass.unit = UnitOf[b]
    BY <1>2 DEF CoverInv
  <2>3. CASE b = a
    BY <1>6, <2>2, <2>3 DEF u
  <2>4. CASE b # a
    <3>1. UnitOf[b] \in Units /\ expires[b] \in Nat
      BY <1>3, DurationAssumption
    <3>2. /\ minExpires'[UnitOf[b]] \in Nat /\ minExpires[UnitOf[b]] \in Nat
          /\ minExpires'[UnitOf[b]] <= minExpires[UnitOf[b]]
      BY <1>3, <1>6, <3>1
    <3>3. \/ minExpires[UnitOf[b]] <= expires[b]
          \/ pass.stage = "code" /\ pass.unit = UnitOf[b]
      BY <2>1, <2>4 DEF FullInv, CacheInv, CoverInv
    <3> QED
      BY <2>1, <2>4, <3>1, <3>2, <3>3
  <2> QED
    BY <2>3, <2>4
<1>10. TrackerInv'
  <2> SUFFICES ASSUME NEW v \in Units, Tracked(v)', ~ToCome(v)'
               PROVE  minTracker' <= minExpires'[v]
    BY DEF TrackerInv
  <2>1. minTracker <= minExpires[v] /\ minExpires[v] \in Nat
    BY <1>2, <1>3, ToComeKept DEF FullInv, CacheInv, TrackerInv
  <2>2. CASE v = u /\ sooner
    BY <1>6, <1>7, <2>2
  <2>3. CASE ~(v = u /\ sooner)
    BY <1>3, <1>6, <1>7, <2>1, <2>3
  <2> QED
    BY <2>2, <2>3
<1>11. ClockInv'
  <2> SUFFICES ASSUME NEW v \in Units \ Pets
               PROVE  enabled[v] /\ (now < minExpires'[v] \/ ToCome(v))
    BY <1>2, ToComeKept DEF ClockInv
  <2>1. enabled[v] /\ (now < minExpires[v] \/ ToCome(v))
    BY DEF FullInv, CacheInv, ClockInv
  <2>2. CASE v = u /\ sooner
    BY <1>4, <1>6, <2>1, <2>2
  <2>3. CASE ~(v = u /\ sooner)
    BY <1>6, <2>1, <2>3
  <2> QED
    BY <2>2, <2>3
<1> QED
  BY <1>8, <1>9, <1>10, <1>11 DEF CacheInv

\* Steps that leave the caches and the loop alone: only pets are disabled.
LEMMA DisableCaches ==
    ASSUME FullInv, NEW u \in Pets, DisablePet(u)
    PROVE  CacheInv'
<1>1. /\ enabled' = [enabled EXCEPT ![u] = FALSE]
      /\ UNCHANGED <<now, active, expires, slot, minExpires, minTracker, trackers, tracked, pass>>
  BY DEF DisablePet, auraVars, trackerVars
<1>2. \A v \in Units \ Pets : enabled'[v] = enabled[v]
  BY <1>1 DEF FullInv, IInv, Types
<1>3. CacheTypes' /\ CoverInv'
  BY <1>1 DEF FullInv, CacheInv, CacheTypes, CoverInv
<1>4. TrackerInv' /\ ClockInv'
  BY <1>1, <1>2, ToComeKept DEF FullInv, CacheInv, TrackerInv, ClockInv
<1> QED
  BY <1>3, <1>4 DEF CacheInv

\* A pet that is summoned brings its own cache, between two passes.
LEMMA EnableCaches ==
    ASSUME FullInv, NEW u \in Pets, EnablePet(u)
    PROVE  CacheInv'
<1>1. /\ pass = NoPass /\ pass' = pass
      /\ enabled' = [enabled EXCEPT ![u] = TRUE]
      /\ trackers' = [trackers EXCEPT ![tracked + 1] = u] /\ tracked' = tracked + 1
      /\ minTracker' = MinOf({minTracker, minExpires[u]})
      /\ UNCHANGED <<now, active, expires, slot, minExpires>>
  BY DEF EnablePet, auraVars, trackerVars
<1>2. u \in Units /\ minExpires \in [Units -> Nat] /\ minExpires[u] \in Nat
      /\ minTracker \in Nat /\ tracked \in Nat
  BY RosterFacts DEF FullInv, IInv, Types, CacheInv, CacheTypes
<1>3. minTracker' \in Nat /\ minTracker' <= minTracker /\ minTracker' <= minExpires[u]
  <2>1. LET m == MinOf({minTracker, minExpires[u]})
        IN m \in Nat /\ m <= minTracker /\ m <= minExpires[u]
    BY <1>2, TellFacts DEF FullInv, CacheInv
  <2> QED
    BY <1>1, <2>1
<1>4. CacheTypes' /\ CoverInv'
  BY <1>1, <1>3 DEF FullInv, CacheInv, CacheTypes, CoverInv
<1>5. \A v : ~ToCome(v) /\ ~ToCome(v)'
  BY <1>1 DEF ToCome, NoPass
<1>6. TrackerInv'
  <2> SUFFICES ASSUME NEW v \in Units, Tracked(v)', v # u
               PROVE  minTracker' <= minExpires[v]
    BY <1>1, <1>3 DEF TrackerInv
  <2>1. PICK i \in 1..tracked + 1 : trackers'[i] = v
    BY <1>1 DEF Tracked
  <2>2. i \in DOMAIN trackers /\ i # tracked + 1 => trackers'[i] = trackers[i]
    BY <1>1
  <2>3. tracked + 1 \in DOMAIN trackers => trackers'[tracked + 1] = u
    BY <1>1
  <2>4. DOMAIN trackers = 1..Len(Roster) /\ tracked' \in 0..Len(Roster) /\ Len(Roster) \in Nat
    BY EnableTracked, RosterFacts DEF FullInv, IInv, Types
  <2>5. i \in DOMAIN trackers /\ tracked + 1 \in DOMAIN trackers
    BY <1>1, <1>2, <2>4
  <2>6. i \in 1..tracked /\ trackers[i] = v
    BY <1>2, <2>1, <2>2, <2>3, <2>5
  <2>7. minTracker <= minExpires[v] /\ minExpires[v] \in Nat
    BY <1>2, <1>5, <2>6 DEF FullInv, CacheInv, TrackerInv, Tracked
  <2> QED
    BY <1>2, <1>3, <2>7
<1>7. ClockInv'
  <2>1. \A v \in Units \ Pets : enabled'[v] = enabled[v]
    BY <1>1 DEF FullInv, IInv, Types
  <2> QED
    BY <1>1, <1>5, <2>1 DEF FullInv, CacheInv, ClockInv
<1> QED
  BY <1>4, <1>6, <1>7 DEF CacheInv

\* A tracker that leaves the list overwrites only places of its own.
LEMMA DismissCaches ==
    ASSUME FullInv, ExpireAllDone
    PROVE  CacheInv'
<1>0. PICK u : u = dismissing
  OBVIOUS
<1>1. /\ minExpires' = [minExpires EXCEPT ![u] = Never]
      /\ trackers' = [i \in DOMAIN trackers |->
             IF i <= tracked /\ trackers[i] = u THEN trackers[tracked] ELSE trackers[i]]
      /\ UNCHANGED <<now, active, expires, slot, list, minTracker, enabled, pass>>
      /\ list[u] = <<>>
  BY <1>0 DEF ExpireAllDone, RemoveTracker
<1>2. u \in Pets /\ u \in Units /\ ~enabled[u]
  BY <1>0, RosterFacts DEF ExpireAllDone, FullInv, IInv, Types, DismissInv
<1>3. TrackedOnce' /\ dismissing' = NoUnit /\ tracked' = tracked - 1
      /\ trackers \in [1..Len(Roster) -> Units] /\ tracked \in 0..Len(Roster)
  BY DismissTracked DEF FullInv, IInv, Types, ExpireAllDone, RemoveTracker
<1>4. ~Tracked(u)' /\ \A v \in Units \ {u} : Tracked(v)' => Tracked(v)
  <2>1. \A v \in Units : Tracked(v)' => enabled[v]
    BY <1>1, <1>3, RosterFacts DEF TrackedOnce
  <2> QED
    BY <1>2, <2>1 DEF FullInv, IInv, TrackedOnce
<1>5. \A v \in Units \ {u} : minExpires'[v] = minExpires[v]
  BY <1>1 DEF FullInv, CacheInv, CacheTypes
<1>6. CacheTypes'
  BY <1>1, DurationAssumption DEF FullInv, CacheInv, CacheTypes
<1>7. CoverInv'
  <2>1. \A b \in Auras : slot[b] # 0 => UnitOf[b] \in Units \ {u}
    <3> SUFFICES ASSUME NEW b \in Auras, slot[b] # 0, UnitOf[b] = u PROVE FALSE
      BY DurationAssumption
    <3>1. Len(list[u]) \in Nat \ {0}
      BY SlotFacts DEF FullInv, IInv
    <3> QED
      BY <1>1, <3>1
  <2> QED
    BY <1>1, <1>5, <2>1 DEF FullInv, CacheInv, CoverInv
<1>8. \A v \in Units \ {u} : ToCome(v) => ToCome(v)'
  <2> SUFFICES ASSUME NEW v \in Units \ {u}, ToCome(v),
                      NEW i \in (pass.at + 1)..pass.upto, trackers[i] = v
               PROVE  trackers'[i] = v
    BY <1>1 DEF ToCome
  <2>1. pass.at \in Nat /\ pass.upto \in 0..Len(Roster)
    BY DEF FullInv, IInv, Types
  <2>2. i \in DOMAIN trackers
    BY <1>3, <2>1, RosterFacts
  <2> QED
    BY <1>1, <2>2
<1>9. TrackerInv'
  BY <1>1, <1>4, <1>5, <1>8 DEF FullInv, CacheInv, TrackerInv
<1>10. ClockInv'
  BY <1>1, <1>2, <1>5, <1>8 DEF FullInv, CacheInv, ClockInv
<1> QED
  BY <1>6, <1>7, <1>9, <1>10 DEF CacheInv

\* The clock moves to before the time the simulation waits for, or the pass owes
\* every tracker a visit.
LEMMA AdvanceCaches ==
    ASSUME FullInv, NEW t \in 0..MaxTime, Advance(t)
    PROVE  CacheInv'
<1>1. /\ pass = NoPass /\ dismissing = NoUnit /\ now' = t
      /\ UNCHANGED <<active, expires, slot, minExpires, trackers, tracked, enabled>>
  BY DEF Advance
<1>2. t \in Nat /\ t <= MaxTime /\ Never \in Nat /\ MaxTime \in Nat
  BY DurationAssumption
<1>3. \A v : ~ToCome(v)
  BY <1>1 DEF ToCome, NoPass
<1>4. tracked \in Nat /\ minTracker \in Nat /\ minExpires \in [Units -> Nat]
  BY DEF FullInv, IInv, Types, CacheInv, CacheTypes
<1>5. pass'.stage # "code" /\ minTracker' \in Nat
      /\ \A v \in Units : Tracked(v) => \/ ToCome(v)'
                                        \/ minTracker' <= minExpires[v] /\ t < minExpires[v]
  <2>1. CASE t >= minTracker
    <3>1. minTracker' = Never /\ pass' = Visit(0 + 1, tracked)
      BY <1>1, <2>1 DEF Advance
    <3>2. /\ \A v : (\E i \in (0 + 1)..tracked : trackers[i] = v) => ToCome(v)'
          /\ pass'.stage # "code"
      BY <1>1, <1>4, <3>1, VisitNext
    <3> QED
      BY <1>2, <3>1, <3>2 DEF Tracked
  <2>2. CASE ~(t >= minTracker)
    <3>1. minTracker' = minTracker /\ pass' = pass /\ t < minTracker
      BY <1>2, <1>4, <2>2 DEF Advance
    <3>2. \A v \in Units : Tracked(v) => minTracker <= minExpires[v]
      BY <1>3 DEF FullInv, CacheInv, TrackerInv
    <3>3. \A v \in Units : Tracked(v) => t < minExpires[v]
      BY <1>2, <1>4, <3>1, <3>2
    <3> QED
      BY <1>1, <1>4, <3>1, <3>2, <3>3 DEF NoPass
  <2> QED
    BY <2>1, <2>2
<1>6. \A v : Tracked(v)' <=> Tracked(v)
  BY <1>1 DEF Tracked
<1>7. CacheTypes'
  BY <1>1, <1>2, <1>4, <1>5 DEF CacheTypes
<1>8. CoverInv'
  BY <1>1 DEF FullInv, CacheInv, CoverInv, NoPass
<1>9. TrackerInv'
  BY <1>1, <1>5, <1>6 DEF TrackerInv
<1>10. ClockInv'
  <2>1. \A v \in Units \ Pets : enabled[v] /\ Tracked(v)
    BY DEF FullInv, IInv, TrackedOnce, CacheInv, ClockInv
  <2> QED
    BY <1>1, <1>5, <2>1 DEF ClockInv
<1> QED
  BY <1>7, <1>8, <1>9, <1>10 DEF CacheInv

\* The loop leaves a unit whose cache is now e, later than the clock, and tells the
\* simulation of it.
LEMMA ReportCaches ==
    ASSUME FullInv, NEW e \in Nat, now < e, Report(e), pass.stage # "none",
           minExpires' = [minExpires EXCEPT ![pass.unit] = e],
           UNCHANGED <<now, expires, slot, trackers, tracked, enabled>>,
           \A a \in Auras : slot[a] # 0 /\ UnitOf[a] = pass.unit => e <= expires[a]
    PROVE  CacheInv'
<1> DEFINE u == pass.unit
<1>1. /\ u \in Units /\ pass.at \in Nat /\ pass.upto \in Nat
      /\ minTracker \in Nat /\ minExpires \in [Units -> Nat]
  BY RosterFacts DEF FullInv, IInv, Types, CacheInv, CacheTypes
<1>2. /\ minExpires' \in [Units -> Nat] /\ minExpires'[u] = e
      /\ \A v \in Units \ {u} : minExpires'[v] = minExpires[v]
  BY <1>1
<1>3. minTracker' \in Nat /\ minTracker' <= minTracker /\ minTracker' <= e
  <2>1. LET m == MinOf({minTracker, e}) IN m \in Nat /\ m <= minTracker /\ m <= e
    BY TellFacts DEF FullInv, CacheInv
  <2> QED
    BY <2>1 DEF Report
<1>4. /\ \A v : (\E i \in (pass.at + 1)..pass.upto : trackers[i] = v) => ToCome(v)'
      /\ pass'.stage # "code"
  BY <1>1, VisitNext DEF Report
<1>5. \A v \in Units \ {u} : ToCome(v) => ToCome(v)'
  BY <1>4 DEF ToCome
<1>6. CacheTypes'
  BY <1>2, <1>3 DEF FullInv, CacheInv, CacheTypes
<1>7. CoverInv'
  <2> SUFFICES ASSUME NEW a \in Auras, slot[a] # 0
               PROVE  minExpires'[UnitOf[a]] <= expires[a]
    BY DEF CoverInv
  <2>1. UnitOf[a] \in Units
    BY DurationAssumption
  <2> QED
    BY <1>2, <2>1 DEF FullInv, CacheInv, CoverInv
<1>8. \A v : Tracked(v)' <=> Tracked(v)
  BY DEF Tracked
<1>9. TrackerInv'
  <2> SUFFICES ASSUME NEW v \in Units, Tracked(v), ~ToCome(v)'
               PROVE  minTracker' <= minExpires'[v]
    BY <1>8 DEF TrackerInv
  <2>1. CASE v = u
    BY <1>2, <1>3, <2>1
  <2>2. CASE v # u
    <3>1. minTracker <= minExpires[v] /\ minExpires[v] \in Nat
      BY <1>1, <1>5, <2>2 DEF FullInv, CacheInv, TrackerInv
    <3> QED
      BY <1>1, <1>2, <1>3, <2>2, <3>1
  <2> QED
    BY <2>1, <2>2
<1>10. ClockInv'
  BY <1>2, <1>5 DEF FullInv, CacheInv, ClockInv
<1> QED
  BY <1>6, <1>7, <1>9, <1>10 DEF CacheInv

LEMMA SkipCaches ==
    ASSUME FullInv, SkipTracker
    PROVE  CacheInv'
<1> DEFINE u == pass.unit
<1>1. /\ pass.stage = "try" /\ now < minExpires[u] /\ Report(minExpires[u])
      /\ UNCHANGED <<now, active, expires, slot, minExpires, trackers, tracked, enabled>>
  BY DEF SkipTracker, auraVars, trackerVars
<1>2. u \in Units /\ minExpires \in [Units -> Nat] /\ minExpires[u] \in Nat
  BY <1>1 DEF FullInv, IInv, Types, CacheInv, CacheTypes
<1>3. minExpires' = [minExpires EXCEPT ![u] = minExpires[u]]
  BY <1>1, <1>2
<1>4. \A a \in Auras : slot[a] # 0 /\ UnitOf[a] = u => minExpires[u] <= expires[a]
  BY <1>1 DEF FullInv, CacheInv, CoverInv
<1> QED
  BY <1>1, <1>2, <1>3, <1>4, ReportCaches

\* A walk that meets no expired aura computes the cache afresh.
LEMMA WalkDoneCaches ==
    ASSUME FullInv, WalkDone
    PROVE  CacheInv'
<1> DEFINE u == pass.unit
           E == {expires[list[u][j]] : j \in DOMAIN list[u]}
           e == MinOf(E)
<1>1. /\ \A i \in DOMAIN list[u] : ~Expired(u, i)
      /\ minExpires' = [minExpires EXCEPT ![u] = e] /\ Report(e)
      /\ UNCHANGED <<now, active, expires, slot, trackers, tracked, enabled>>
  BY DEF WalkDone
<1>2. pass.stage # "none" /\ u \in Units /\ \A i \in DOMAIN list[u] : list[u][i] \in Auras
  BY WalkFacts DEF WalkDone, Walking, FullInv
<1>3. E \in SUBSET Nat /\ now \in Nat /\ now < Never
      /\ \A x \in E : now < x
  <2>1. now \in Nat /\ now <= MaxTime /\ \A i \in DOMAIN list[u] : expires[list[u][i]] \in Nat
    BY <1>2 DEF FullInv, IInv, Types, CacheInv, CacheTypes
  <2> QED
    BY <1>1, <2>1, DurationAssumption DEF Expired
<1>4. e \in Nat /\ now < e /\ \A x \in E : e <= x
  <2> HIDE DEF E
  <2>1. e \in Nat /\ e \in E \cup {Never} /\ \A x \in E : e <= x
    BY <1>3, MinOfFacts
  <2> QED
    BY <1>3, <2>1
<1> HIDE DEF e
<1>5. \A a \in Auras : slot[a] # 0 /\ UnitOf[a] = u => e <= expires[a]
  <2> SUFFICES ASSUME NEW a \in Auras, slot[a] # 0, UnitOf[a] = u PROVE e <= expires[a]
    OBVIOUS
  <2>1. slot[a] \in DOMAIN list[u] /\ list[u][slot[a]] = a
    BY DEF FullInv, IInv, SlotsAgree
  <2> QED
    BY <1>4, <2>1
<1> QED
  BY <1>1, <1>2, <1>4, <1>5, ReportCaches

\* In the middle of a walk the cache of the unit in hand counts for nothing.
LEMMA WalkFadeCaches ==
    ASSUME FullInv, WalkFade
    PROVE  CacheInv'
<1> DEFINE u == pass.unit
<1>1. PICK i \in DOMAIN list[u] :
        /\ minExpires' = [minExpires EXCEPT ![u] =
               MinOf({expires[list[u][j]] : j \in 1..(i - 1)})]
        /\ Deactivate(list[u][i])
  BY DEF WalkFade
<1>2. /\ pass' = [pass EXCEPT !.stage = "code"]
      /\ UNCHANGED <<now, trackers, tracked, minTracker, enabled>>
  BY DEF WalkFade
<1>3. /\ pass.stage # "none" /\ u \in Units
      /\ \A j \in DOMAIN list[u] : list[u][j] \in Auras
  BY WalkFacts DEF WalkFade, Walking, FullInv
<1>4. /\ pass'.stage = "code" /\ pass'.unit = u /\ pass'.at = pass.at /\ pass'.upto = pass.upto
  BY <1>2 DEF FullInv, IInv, Types
<1>5. MinOf({expires[list[u][j]] : j \in 1..(i - 1)}) \in Nat
  <2>1. list[u] \in Seq(Auras) /\ Len(list[u]) \in Nat /\ DOMAIN list[u] = 1..Len(list[u])
    BY <1>3, LenProperties DEF FullInv, IInv, Types
  <2>2. \A j \in 1..(i - 1) : expires[list[u][j]] \in Nat
    BY <1>3, <2>1 DEF FullInv, IInv, Types
  <2>3. {expires[list[u][j]] : j \in 1..(i - 1)} \in SUBSET Nat
    BY <2>2
  <2> QED
    BY <2>3, MinOfFacts
<1>6. /\ minExpires' \in [Units -> Nat]
      /\ \A v \in Units \ {u} : minExpires'[v] = minExpires[v]
  BY <1>1, <1>3, <1>5 DEF FullInv, CacheInv, CacheTypes
<1>7. CacheTypes'
  BY <1>2, <1>6 DEF FullInv, CacheInv, CacheTypes
<1>8. CoverInv'
  <2> SUFFICES ASSUME NEW a \in Auras, slot'[a] # 0, UnitOf[a] # u
               PROVE  minExpires'[UnitOf[a]] <= expires'[a]
    BY <1>4 DEF CoverInv
  <2>1. slot[a] # 0 /\ expires'[a] = expires[a]
    BY <1>1, <1>3, DeactivateCover DEF FullInv
  <2>2. UnitOf[a] \in Units
    BY DurationAssumption
  <2> QED
    BY <1>6, <2>1, <2>2 DEF FullInv, CacheInv, CoverInv
<1>9. ToCome(u) /\ \A v : (ToCome(v)' <=> ToCome(v)) /\ (Tracked(v)' <=> Tracked(v))
  BY <1>2, <1>3, <1>4 DEF ToCome, Tracked
<1>10. TrackerInv' /\ ClockInv'
  BY <1>2, <1>6, <1>9 DEF FullInv, CacheInv, TrackerInv, ClockInv
<1> QED
  BY <1>7, <1>8, <1>10 DEF CacheInv

-----------------------------------------------------------------------------
(* The theorems.                                                             *)

LEMMA CacheInit ==
    Init => FullInv
<1> SUFFICES ASSUME Init PROVE FullInv
  OBVIOUS
<1>1. CacheTypes
  BY DurationAssumption DEF Init, CacheTypes
<1>2. CoverInv
  BY DEF Init, CoverInv
<1>3. TrackerInv
  BY DurationAssumption DEF Init, TrackerInv
<1>4. ClockInv
  <2> SUFFICES ASSUME NEW u \in Units \ Pets PROVE enabled[u] /\ now < minExpires[u]
    BY DEF ClockInv
  <2>1. enabled[u]
    BY DEF Init
  <2>2. now < minExpires[u]
    BY DurationAssumption DEF Init
  <2> QED
    BY <2>1, <2>2
<1> QED
  BY <1>1, <1>2, <1>3, <1>4, InitInv DEF FullInv, CacheInv

LEMMA CachesInductive ==
    FullInv /\ [Next]_vars => FullInv'
<1> SUFFICES ASSUME FullInv, [Next]_vars PROVE CacheInv'
  BY Inductive DEF FullInv
<1>1. ASSUME NEW a \in Auras, Gain(a) PROVE CacheInv'
  BY <1>1, GainCaches
<1>2. ASSUME NEW a \in Auras, Remove(a) PROVE CacheInv'
  BY <1>2, FadeCaches DEF Remove
<1>3. ASSUME NEW u \in Pets, EnablePet(u) PROVE CacheInv'
  BY <1>3, EnableCaches
<1>4. ASSUME NEW u \in Pets, DisablePet(u) PROVE CacheInv'
  BY <1>4, DisableCaches
<1>5. CASE ExpireAllFade
  <2>1. dismissing \in Units /\ list[dismissing] # <<>> /\ list[dismissing] \in Seq(Auras)
    BY <1>5, RosterFacts DEF ExpireAllFade, FullInv, IInv, Types
  <2>2. list[dismissing][1] \in Auras
    BY <2>1
  <2> QED
    BY <1>5, <2>2, FadeCaches DEF ExpireAllFade
<1>6. CASE ExpireAllDone
  BY <1>6, DismissCaches
<1>7. ASSUME NEW t \in 0..MaxTime, Advance(t) PROVE CacheInv'
  BY <1>7, AdvanceCaches
<1>8. CASE SkipTracker
  BY <1>8, SkipCaches
<1>9. CASE WalkFade
  BY <1>9, WalkFadeCaches
<1>10. CASE WalkDone
  BY <1>10, WalkDoneCaches
<1>11. CASE UNCHANGED vars
  <2>1. UNCHANGED <<now, expires, slot, minExpires, minTracker, trackers, tracked, enabled, pass>>
    BY <1>11 DEF vars, auraVars, trackerVars, simVars
  <2> QED
    BY <2>1, ToComeKept
       DEF FullInv, CacheInv, CacheTypes, CoverInv, TrackerInv, ClockInv
<1> QED
  BY <1>1, <1>2, <1>3, <1>4, <1>5, <1>6, <1>7, <1>8, <1>9, <1>10, <1>11 DEF Next

\* Outside a pass minTrackerTime is no later than the cache of any tracker, and the
\* cache of a unit no later than the deadline of any of its auras (aura.go:425).
THEOREM CachesAreLowerBounds ==
    Spec => []CachesCover
<1>1. FullInv => CachesCover
  <2> SUFFICES ASSUME FullInv, pass = NoPass
               PROVE  /\ \A i \in 1..tracked : minTracker <= minExpires[trackers[i]]
                      /\ \A u \in Units : \A i \in DOMAIN list[u] :
                            minExpires[u] <= expires[list[u][i]]
    BY DEF CachesCover
  <2>1. pass.stage = "none"
    BY DEF NoPass
  <2>2. ASSUME NEW i \in 1..tracked PROVE minTracker <= minExpires[trackers[i]]
    <3>1. trackers[i] \in Units
      <4>1. tracked \in 0..Len(Roster) /\ Len(Roster) \in Nat
            /\ trackers \in [1..Len(Roster) -> Units]
        BY RosterFacts DEF FullInv, IInv, Types
      <4>2. i \in 1..Len(Roster)
        BY <4>1
      <4> QED
        BY <4>1, <4>2
    <3>2. Tracked(trackers[i])
      BY DEF Tracked
    <3> QED
      BY <2>1, <3>1, <3>2 DEF FullInv, CacheInv, TrackerInv, ToCome
  <2>3. ASSUME NEW u \in Units, NEW i \in DOMAIN list[u]
        PROVE  minExpires[u] <= expires[list[u][i]]
    <3>1. list[u][i] \in Auras /\ UnitOf[list[u][i]] = u /\ slot[list[u][i]] # 0
      BY ListFacts DEF FullInv, IInv
    <3> QED
      BY <2>1, <3>1 DEF FullInv, CacheInv, CoverInv
  <2> QED
    BY <2>2, <2>3
<1> QED
  BY CacheInit, CachesInductive, <1>1, PTL DEF Spec

\* Outside a pass no aura of a player or a target is active at or after the time it
\* runs out.
THEOREM NothingOutlivesItsTime ==
    Spec => []NoExpiredAura
<1>1. FullInv => NoExpiredAura
  <2> SUFFICES ASSUME FullInv, pass = NoPass, NEW a \in Auras, active[a], UnitOf[a] \notin Pets
               PROVE  now < expires[a]
    BY DEF NoExpiredAura
  <2>1. pass.stage = "none" /\ UnitOf[a] \in Units
    BY DurationAssumption DEF NoPass
  <2>2. now \in Nat /\ now < Never /\ expires[a] \in Nat /\ minExpires[UnitOf[a]] \in Nat
    BY <2>1, DurationAssumption DEF FullInv, IInv, Types, CacheInv, CacheTypes
  <2>3. CASE slot[a] = 0
    BY <2>2, <2>3 DEF FullInv, IInv, SlotsAgree
  <2>4. CASE slot[a] # 0
    <3>1. minExpires[UnitOf[a]] <= expires[a]
      BY <2>1, <2>4 DEF FullInv, CacheInv, CoverInv
    <3>2. now < minExpires[UnitOf[a]]
      BY <2>1 DEF FullInv, CacheInv, ClockInv, ToCome
    <3> QED
      BY <2>2, <3>1, <3>2
  <2> QED
    BY <2>3, <2>4
<1> QED
  BY CacheInit, CachesInductive, <1>1, PTL DEF Spec

-----------------------------------------------------------------------------
(* The bounds.  A list is no longer than there are auras, since none is on it *)
(* twice, and no cache is ever later than NeverExpires.                       *)

BoundInv ==
    /\ \A a \in Auras : expires[a] <= Never
    /\ \A u \in Units : minExpires[u] <= Never
    /\ minTracker <= Never
    /\ pass.at <= Len(Roster)

\* The place of an aura on its list is a number of an aura.
LEMMA SlotBound ==
    ASSUME IInv, NEW a \in Auras
    PROVE  slot[a] \in 0..Cardinality(Auras)
<1>1. Cardinality(Auras) \in Nat /\ IsFiniteSet(Auras)
  BY DurationAssumption, FS_CardinalityType
<1>2. CASE slot[a] = 0
  BY <1>1, <1>2
<1>3. CASE slot[a] # 0
  <2>1. PICK v : v = UnitOf[a]
    OBVIOUS
  <2>2. PICK n \in Nat : n = Len(list[v])
    BY <1>3, <2>1, SlotFacts DEF IInv
  <2>3. v \in Units /\ list[v] \in Seq(Auras) /\ slot[a] \in 1..n /\ DOMAIN list[v] = 1..n
    BY <1>3, <2>1, <2>2, SlotFacts DEF IInv
  <2>4. \A i \in 1..n : list[v][i] \in Auras /\ slot[list[v][i]] = i
    BY <2>3, ListFacts DEF IInv
  <2>5. list[v] \in Injection(1..n, Auras)
    <3>1. list[v] \in [1..n -> Auras]
      BY <2>2, <2>3
    <3>2. \A i, j \in 1..n : list[v][i] = list[v][j] => i = j
      BY <2>4
    <3> QED
      BY <3>1, <3>2 DEF Injection, IsInjective
  <2>6. Cardinality(1..n) <= Cardinality(Auras) /\ Cardinality(1..n) = n
    BY <1>1, <2>5, FS_Injection, FS_Interval
  <2> QED
    BY <1>1, <2>3, <2>6
<1> QED
  BY <1>2, <1>3

\* The loop takes up no place beyond the trackers it began with.
LEMMA VisitBound ==
    ASSUME NEW i \in Nat, NEW n \in 0..Len(Roster)
    PROVE  Visit(i, n).at <= Len(Roster)
<1>1. CASE i > n
  BY <1>1, RosterFacts DEF Visit, NoPass
<1>2. CASE ~(i > n)
  <2>1. Visit(i, n).at = i
    BY <1>2 DEF Visit
  <2> QED
    BY <1>2, <2>1, RosterFacts
<1> QED
  BY <1>1, <1>2

\* No deadline and no cache passes NeverExpires.
LEMMA BoundStep ==
    ASSUME FullInv, BoundInv, [Next]_vars
    PROVE  BoundInv'
<1> USE DEF auraVars, trackerVars, simVars
<1>0. Types /\ CacheTypes /\ Never \in Nat
  BY DurationAssumption DEF FullInv, IInv, CacheInv
<1>1. ASSUME NEW a \in Auras, Gain(a) PROVE BoundInv'
  <2>1. PICK d \in Durations[a] : Refresh(a, d)
    BY <1>1 DEF Gain
  <2>2. PICK e : e = IF d = Never THEN Never ELSE now + d
    OBVIOUS
  <2>3. e \in Nat /\ e <= Never
    BY <1>0, <2>2, DurationAssumption DEF Types, CacheTypes
  <2>4. /\ expires' = [expires EXCEPT ![a] = e]
        /\ minExpires' = [minExpires EXCEPT ![UnitOf[a]] = IF e < minExpires[UnitOf[a]] THEN e ELSE @]
        /\ minTracker' = IF e < minExpires[UnitOf[a]] THEN MinOf({minTracker, e}) ELSE minTracker
    BY <2>1, <2>2 DEF Refresh
  <2>5. \A b \in Auras : expires'[b] <= Never
    BY <1>0, <2>3, <2>4 DEF BoundInv, Types
  <2>6. \A u \in Units : minExpires'[u] <= Never
    BY <1>0, <2>3, <2>4 DEF BoundInv, CacheTypes
  <2>7. MinOf({minTracker, e}) <= Never
    BY <1>0, <2>3, MinOfFacts DEF CacheTypes
  <2>8. UNCHANGED pass
    BY <1>1 DEF Gain
  <2> QED
    BY <2>4, <2>5, <2>6, <2>7, <2>8 DEF BoundInv
<1>2. ASSUME NEW a \in Auras, Deactivate(a) PROVE \A b \in Auras : expires'[b] <= Never
  BY <1>0, <1>2 DEF Deactivate, BoundInv, Types
<1>3. ASSUME NEW a \in Auras, Remove(a) PROVE BoundInv'
  BY <1>2, <1>3 DEF Remove, BoundInv
<1>4. ASSUME NEW u \in Pets, EnablePet(u) PROVE BoundInv'
  <2>1. u \in Units
    BY RosterAssumption
  <2>2. {minTracker, minExpires[u]} \in SUBSET Nat
    BY <1>0, <2>1 DEF CacheTypes
  <2>3. MinOf({minTracker, minExpires[u]}) <= Never
    BY <2>2, MinOfFacts
  <2> QED
    BY <1>4, <2>3 DEF EnablePet, BoundInv
<1>5. ASSUME NEW u \in Pets, DisablePet(u) PROVE BoundInv'
  BY <1>5 DEF DisablePet, BoundInv
<1>6. CASE ExpireAllFade
  <2>1. dismissing \in Units /\ list[dismissing] # <<>> /\ list[dismissing] \in Seq(Auras)
    BY <1>6, RosterFacts DEF ExpireAllFade, FullInv, IInv, Types
  <2>2. list[dismissing][1] \in Auras
    BY <2>1
  <2> QED
    BY <1>2, <1>6, <2>2 DEF ExpireAllFade, BoundInv
<1>7. CASE ExpireAllDone
  <2>1. \A u \in Units : minExpires'[u] <= Never
    BY <1>0, <1>7 DEF ExpireAllDone, BoundInv, CacheTypes
  <2> QED
    BY <1>7, <2>1 DEF ExpireAllDone, BoundInv
<1>8. ASSUME NEW t \in 0..MaxTime, Advance(t) PROVE BoundInv'
  <2>1. tracked \in 0..Len(Roster)
    BY <1>0 DEF Types
  <2>2. Visit(1, tracked).at <= Len(Roster)
    BY <2>1, VisitBound
  <2> QED
    BY <1>0, <1>8, <2>2 DEF Advance, BoundInv
<1>9. ASSUME NEW e \in Nat, Report(e) PROVE minTracker' <= Never /\ pass'.at <= Len(Roster)
  <2>1. {minTracker, e} \in SUBSET Nat
    BY <1>0 DEF CacheTypes
  <2>2. pass.at + 1 \in Nat /\ pass.upto \in 0..Len(Roster)
    BY <1>0 DEF Types
  <2> QED
    BY <1>9, <2>1, <2>2, MinOfFacts, VisitBound DEF Report
<1>10. CASE SkipTracker
  <2>1. minExpires[pass.unit] \in Nat
    BY <1>0, <1>10 DEF SkipTracker, Types, CacheTypes
  <2> QED
    BY <1>9, <1>10, <2>1 DEF SkipTracker, BoundInv
<1>11. ASSUME Walking PROVE pass.unit \in Units
  BY <1>0, <1>11 DEF Walking, Types
<1>12. ASSUME NEW S \in SUBSET (DOMAIN list[pass.unit]), Walking
       PROVE  {expires[list[pass.unit][j]] : j \in S} \in SUBSET Nat
  <2>1. pass.unit \in Units
    BY <1>11, <1>12
  <2>2. \A j \in S : list[pass.unit][j] \in Auras
    BY <1>12, <2>1, ListFacts DEF FullInv, IInv
  <2> QED
    BY <1>0, <2>2 DEF Types
<1>13. CASE WalkFade
  <2>1. PICK i \in DOMAIN list[pass.unit] :
          /\ minExpires' = [minExpires EXCEPT ![pass.unit] =
                MinOf({expires[list[pass.unit][j]] : j \in 1..(i - 1)})]
          /\ Deactivate(list[pass.unit][i])
    BY <1>13 DEF WalkFade
  <2>2. Walking /\ UNCHANGED minTracker /\ pass' = [pass EXCEPT !.stage = "code"]
    BY <1>13 DEF WalkFade
  <2>3. pass.unit \in Units
    BY <1>11, <2>2
  <2>4. list[pass.unit][i] \in Auras /\ i \in 1..Len(list[pass.unit]) /\ list[pass.unit] \in Seq(Auras)
    BY <1>0, <2>3, ListFacts DEF FullInv, IInv, Types
  <2>5. 1..(i - 1) \in SUBSET (DOMAIN list[pass.unit])
    BY <2>4
  <2>6. PICK e : e = MinOf({expires[list[pass.unit][j]] : j \in 1..(i - 1)})
    OBVIOUS
  <2>7. e <= Never
    BY <1>12, <2>2, <2>5, <2>6, MinOfFacts
  <2>8. \A u \in Units : minExpires'[u] <= Never
    BY <1>0, <2>1, <2>6, <2>7 DEF BoundInv, CacheTypes
  <2>9. \A b \in Auras : expires'[b] <= Never
    BY <1>2, <2>1, <2>4
  <2>10. pass'.at = pass.at
    BY <1>0, <2>2 DEF Types
  <2> QED
    BY <2>2, <2>8, <2>9, <2>10 DEF BoundInv
<1>14. CASE WalkDone
  <2>1. PICK e : e = MinOf({expires[list[pass.unit][j]] : j \in DOMAIN list[pass.unit]})
    OBVIOUS
  <2>2. /\ Walking /\ minExpires' = [minExpires EXCEPT ![pass.unit] = e] /\ Report(e)
        /\ UNCHANGED expires
    BY <1>14, <2>1 DEF WalkDone
  <2>3. e \in Nat /\ e <= Never
    BY <1>12, <2>1, <2>2, MinOfFacts
  <2>4. \A u \in Units : minExpires'[u] <= Never
    BY <1>0, <2>2, <2>3 DEF BoundInv, CacheTypes
  <2> QED
    BY <1>9, <2>2, <2>3, <2>4 DEF BoundInv
<1>15. CASE UNCHANGED vars
  BY <1>15 DEF vars, BoundInv
<1> QED
  BY <1>1, <1>3, <1>4, <1>5, <1>6, <1>7, <1>8, <1>10, <1>13, <1>14, <1>15 DEF Next

\* Auras, lists, caches and the loop over the trackers keep their types: no list
\* outgrows the auras, no index the list, and no cache NeverExpires.
THEOREM TypeCorrect ==
    Spec => []TypeOK
<1>1. FullInv /\ BoundInv => TypeOK
  <2> SUFFICES ASSUME FullInv, BoundInv PROVE TypeOK
    OBVIOUS
  <2>1. Types /\ CacheTypes /\ Never \in Nat /\ MaxTime \in Nat /\ Len(Roster) \in Nat
        /\ DOMAIN Roster = 1..Len(Roster)
    BY DurationAssumption, RosterFacts DEF FullInv, IInv, CacheInv
  <2>2. slot \in [Auras -> 0..Cardinality(Auras)]
    <3>1. \A a \in Auras : slot[a] \in 0..Cardinality(Auras)
      BY SlotBound DEF FullInv
    <3> QED
      BY <2>1, <3>1 DEF Types
  <2>3. expires \in [Auras -> 0..Never] /\ minExpires \in [Units -> 0..Never]
    BY <2>1 DEF Types, CacheTypes, BoundInv
  <2>4. pass.at \in 0..Len(Roster)
    BY <2>1 DEF Types, BoundInv
  <2>5. pass \in [at : 0..Len(Roster), upto : 0..Len(Roster),
                  unit : Units \cup {NoUnit}, stage : {"none", "try", "code"}]
    BY <2>1, <2>4 DEF Types
  <2> QED
    BY <2>1, <2>2, <2>3, <2>5 DEF TypeOK, Types, CacheTypes, BoundInv
<1>2. Init => BoundInv
  BY DurationAssumption, RosterFacts DEF Init, BoundInv, NoPass
<1>3. FullInv /\ BoundInv /\ [Next]_vars => FullInv' /\ BoundInv'
  BY BoundStep, CachesInductive
<1> QED
  BY <1>1, <1>2, <1>3, CacheInit, PTL DEF Spec

=============================================================================
