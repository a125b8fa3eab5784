--------------------------- MODULE AsyncApi_proofs ---------------------------
(***************************************************************************)
(* Proofs about what the requests of the asynchronous API share: the abort *)
(* registry (SimSignals), for any number of jobs, callers and ids, and the *)
(* entry from which /asyncProgress serves a request (AsyncProgress), for   *)
(* any number of candidates, reports and concurrent polls.                 *)
(***************************************************************************)
EXTENDS SimSignals, AsyncProgress, Integers, SequenceTheorems, FiniteSetTheorems,
        WellFoundedInduction, TLAPS

-----------------------------------------------------------------------------
(* The abort registry.                                                      *)

\* What a job's place in the code says about its registrations and its flag.
Phase(j) ==
  /\ jpc[j] = "new" => regs[j] = 0 /\ outer[j] = "inside" /\ ~registered[j]
  /\ jpc[j] \in {"generating", "optimizing", "bailing"} =>
       regs[j] = 1 /\ outer[j] = "inside" /\ registered[j]
  /\ jpc[j] = "handover" =>
       /\ regs[j] = 1
       /\ outer[j] \in {"inside", "returning"}
       /\ registered[j] <=> outer[j] = "inside"
  /\ jpc[j] \in {"running", "leaving"} => regs[j] \in {1, 2}
  /\ jpc[j] \in {"running", "leaving", "ended", "rejected"} => ~registered[j]
  /\ j \notin BulkJobs =>
       /\ jpc[j] \in {"new", "running", "leaving", "ended", "rejected"}
       /\ regs[j] < 2

PhaseInv == \A j \in Jobs : Phase(j)

\* A caller past its look-up aims at a signal that was registered, and has
\* closed it once its call is acknowledged.
TargetInv == \A c \in Callers :
  cpc[c] \in {"looked", "closing", "acked"} =>
    /\ target[c] \in Signals
    /\ target[c][2] <= regs[target[c][1]]
    /\ target[c][2] >= 1
    /\ cpc[c] = "acked" => target[c] \in closed

IInv == TypeOK /\ PhaseInv /\ RegistryOwnership /\ TargetInv

\* A step keeps every variable in its type.
LEMMA TypeStep == IInv /\ [Next]_vars => TypeOK'
<1> SUFFICES ASSUME IInv, [Next]_vars PROVE TypeOK'
  OBVIOUS
<1> USE SimSignalsAssumption DEF IInv, TypeOK, PhaseInv, Phase, TargetInv, JobPCs, Signals,
      CanRegister, jobVars, callVars
<1>1. ASSUME NEW j \in Jobs, JobStep(j) PROVE TypeOK'
  <2>1. CASE Reject(j)
    BY <2>1 DEF Reject
  <2>2. CASE StartPlain(j)
    BY <2>2 DEF StartPlain, RegisterWithId
  <2>3. CASE PassCheck(j)
    BY <2>3 DEF PassCheck
  <2>4. CASE Stop(j)
    BY <2>4 DEF Stop
  <2>5. CASE Leave(j)
    BY <2>5 DEF Leave, UnregisterId
  <2>6. CASE StartBulk(j)
    BY <2>6 DEF StartBulk, RegisterWithId
  <2>7. CASE Generated(j)
    BY <2>7 DEF Generated
  <2>8. CASE Optimized(j)
    BY <2>8 DEF Optimized
  <2>9. CASE HandBack(j)
    BY <2>9 DEF HandBack, UnregisterOnce, UnregisterId
  <2>10. CASE Delegate(j)
    BY <2>10 DEF Delegate, RegisterWithId
  <2>11. CASE DeferredUnregister(j)
    BY <2>11 DEF DeferredUnregister, UnregisterOnce, UnregisterId
  <2> QED
    BY <1>1, <2>1, <2>2, <2>3, <2>4, <2>5, <2>6, <2>7, <2>8,
       <2>9, <2>10, <2>11 DEF JobStep
<1>2. ASSUME NEW c \in Callers, CallerStep(c) PROVE TypeOK'
  <2>1. ASSUME NEW i \in Ids, GetById(c, i) PROVE TypeOK'
    BY <2>1 DEF GetById
  <2>2. CASE TriggerSelect(c)
    BY <2>2 DEF TriggerSelect
  <2>3. CASE TriggerClose(c)
    BY <2>3 DEF TriggerClose
  <2> QED
    BY <1>2, <2>1, <2>2, <2>3 DEF CallerStep
<1>3. CASE UNCHANGED vars
  BY <1>3 DEF vars
<1> QED
  BY <1>1, <1>2, <1>3 DEF Next


\* A step keeps registrations and flags in line with the job's place.
LEMMA PhaseStep == IInv /\ [Next]_vars => PhaseInv'
<1> SUFFICES ASSUME IInv, [Next]_vars PROVE PhaseInv'
  OBVIOUS
<1> USE SimSignalsAssumption DEF IInv, TypeOK, PhaseInv, Phase, JobPCs, CanRegister, jobVars,
      callVars
<1>1. ASSUME NEW j \in Jobs, JobStep(j) PROVE PhaseInv'
  <2>1. CASE Reject(j)
    BY <2>1 DEF Reject
  <2>2. CASE StartPlain(j)
    BY <2>2 DEF StartPlain, RegisterWithId
  <2>3. CASE PassCheck(j)
    BY <2>3 DEF PassCheck
  <2>4. CASE Stop(j)
    BY <2>4 DEF Stop
  <2>5. CASE Leave(j)
    BY <2>5 DEF Leave, UnregisterId
  <2>6. CASE StartBulk(j)
    BY <2>6 DEF StartBulk, RegisterWithId
  <2>7. CASE Generated(j)
    BY <2>7 DEF Generated
  <2>8. CASE Optimized(j)
    BY <2>8 DEF Optimized
  <2>9. CASE HandBack(j)
    BY <2>9 DEF HandBack, UnregisterOnce, UnregisterId
  <2>10. CASE Delegate(j)
    BY <2>10 DEF Delegate, RegisterWithId
  <2>11. CASE DeferredUnregister(j)
    BY <2>11 DEF DeferredUnregister, UnregisterOnce, UnregisterId
  <2> QED
    BY <1>1, <2>1, <2>2, <2>3, <2>4, <2>5, <2>6, <2>7, <2>8,
       <2>9, <2>10, <2>11 DEF JobStep
<1>2. ASSUME NEW c \in Callers, CallerStep(c) PROVE PhaseInv'
  <2>1. ASSUME NEW i \in Ids, GetById(c, i) PROVE PhaseInv'
    BY <2>1 DEF GetById
  <2>2. CASE TriggerSelect(c)
    BY <2>2 DEF TriggerSelect
  <2>3. CASE TriggerClose(c)
    BY <2>3 DEF TriggerClose
  <2> QED
    BY <1>2, <2>1, <2>2, <2>3 DEF CallerStep
<1>3. CASE UNCHANGED vars
  BY <1>3 DEF vars
<1> QED
  BY <1>1, <1>2, <1>3 DEF Next


\* A step keeps the registry equal to the live registrations.
LEMMA OwnershipStep == IInv /\ [Next]_vars => RegistryOwnership'
<1> SUFFICES ASSUME IInv, [Next]_vars PROVE RegistryOwnership'
  OBVIOUS
<1> USE SimSignalsAssumption DEF IInv, TypeOK, PhaseInv, Phase, RegistryOwnership,
      Holds, SignalOf, JobPCs, Signals, CanRegister, jobVars, callVars
<1>1. ASSUME NEW j \in Jobs, JobStep(j) PROVE RegistryOwnership'
  <2>1. CASE Reject(j)
    BY <2>1 DEF Reject
  <2>2. CASE StartPlain(j)
    BY <2>2 DEF StartPlain, RegisterWithId
  <2>3. CASE PassCheck(j)
    BY <2>3 DEF PassCheck
  <2>4. CASE Stop(j)
    BY <2>4 DEF Stop
  <2>5. CASE Leave(j)
    BY <2>5 DEF Leave, UnregisterId
  <2>6. CASE StartBulk(j)
    BY <2>6 DEF StartBulk, RegisterWithId
  <2>7. CASE Generated(j)
    BY <2>7 DEF Generated
  <2>8. CASE Optimized(j)
    BY <2>8 DEF Optimized
  <2>9. CASE HandBack(j)
    BY <2>9 DEF HandBack, UnregisterOnce, UnregisterId
  <2>10. CASE Delegate(j)
    BY <2>10 DEF Delegate, RegisterWithId
  <2>11. CASE DeferredUnregister(j)
    BY <2>11 DEF DeferredUnregister, UnregisterOnce, UnregisterId
  <2> QED
    BY <1>1, <2>1, <2>2, <2>3, <2>4, <2>5, <2>6, <2>7, <2>8,
       <2>9, <2>10, <2>11 DEF JobStep
<1>2. ASSUME NEW c \in Callers, CallerStep(c) PROVE RegistryOwnership'
  <2>1. ASSUME NEW i \in Ids, GetById(c, i) PROVE RegistryOwnership'
    BY <2>1 DEF GetById
  <2>2. CASE TriggerSelect(c)
    BY <2>2 DEF TriggerSelect
  <2>3. CASE TriggerClose(c)
    BY <2>3 DEF TriggerClose
  <2> QED
    BY <1>2, <2>1, <2>2, <2>3 DEF CallerStep
<1>3. CASE UNCHANGED vars
  BY <1>3 DEF vars
<1> QED
  BY <1>1, <1>2, <1>3 DEF Next


\* A step keeps a caller's target registered, and closed once acknowledged.
LEMMA TargetStep == IInv /\ [Next]_vars => TargetInv'
<1> SUFFICES ASSUME IInv, [Next]_vars PROVE TargetInv'
  OBVIOUS
<1> USE SimSignalsAssumption DEF IInv, TypeOK, PhaseInv, Phase, RegistryOwnership, TargetInv,
      Holds, SignalOf, JobPCs, Signals, CanRegister, jobVars, callVars
<1>1. ASSUME NEW j \in Jobs, JobStep(j) PROVE TargetInv'
  <2>1. CASE Reject(j)
    BY <2>1 DEF Reject
  <2>2. CASE StartPlain(j)
    BY <2>2 DEF StartPlain, RegisterWithId
  <2>3. CASE PassCheck(j)
    BY <2>3 DEF PassCheck
  <2>4. CASE Stop(j)
    BY <2>4 DEF Stop
  <2>5. CASE Leave(j)
    BY <2>5 DEF Leave, UnregisterId
  <2>6. CASE StartBulk(j)
    BY <2>6 DEF StartBulk, RegisterWithId
  <2>7. CASE Generated(j)
    BY <2>7 DEF Generated
  <2>8. CASE Optimized(j)
    BY <2>8 DEF Optimized
  <2>9. CASE HandBack(j)
    BY <2>9 DEF HandBack, UnregisterOnce, UnregisterId
  <2>10. CASE Delegate(j)
    BY <2>10 DEF Delegate, RegisterWithId
  <2>11. CASE DeferredUnregister(j)
    BY <2>11 DEF DeferredUnregister, UnregisterOnce, UnregisterId
  <2> QED
    BY <1>1, <2>1, <2>2, <2>3, <2>4, <2>5, <2>6, <2>7, <2>8,
       <2>9, <2>10, <2>11 DEF JobStep
<1>2. ASSUME NEW c \in Callers, CallerStep(c) PROVE TargetInv'
  <2>1. ASSUME NEW i \in Ids, GetById(c, i) PROVE TargetInv'
    BY <2>1 DEF GetById
  <2>2. CASE TriggerSelect(c)
    BY <2>2 DEF TriggerSelect
  <2>3. CASE TriggerClose(c)
    BY <2>3 DEF TriggerClose
  <2> QED
    BY <1>2, <2>1, <2>2, <2>3 DEF CallerStep
<1>3. CASE UNCHANGED vars
  BY <1>3 DEF vars
<1> QED
  BY <1>1, <1>2, <1>3 DEF Next


\* The inductive invariant: the registry's contents follow from where each job
\* is (PhaseInv), and a caller's target from the registry (TargetInv).
LEMMA Inductive == Spec => []IInv
<1>1. Init => IInv
  BY SimSignalsAssumption DEF Init, IInv, TypeOK, PhaseInv, Phase, RegistryOwnership,
     TargetInv, Holds, JobPCs, Signals
<1>2. IInv /\ [Next]_vars => IInv'
  BY TypeStep, PhaseStep, OwnershipStep, TargetStep DEF IInv
<1> QED
  BY <1>1, <1>2, PTL DEF Spec

\* The registry is exactly the set of live registrations, whatever jobs reuse
\* whatever ids in whatever order.
THEOREM RegistrySafe == Spec => [](TypeOK /\ RegistryOwnership)
<1>1. IInv => TypeOK /\ RegistryOwnership
  BY DEF IInv
<1> QED
  BY <1>1, Inductive, PTL

\* The registry, the signals, the jobs and the callers keep their types.
THEOREM RegistryTypeCorrect == Spec => []TypeOK
<1>1. IInv => TypeOK
  BY DEF IInv
<1> QED
  BY <1>1, Inductive, PTL

\* A step in which a plain job passes an abort check is PassCheck of that job, and
\* an acknowledged abort of it would have closed the signal that the check reads.
LEMMA CheckedStep ==
  ASSUME IInv, [Next]_vars, NEW j \in Jobs \ BulkJobs, checks'[j] > checks[j]
  PROVE  ~AckedAbort(j)
<1> USE DEF IInv, TypeOK
<1>1. PassCheck(j)
  <2>1. ~UNCHANGED checks
    OBVIOUS
  <2>2. PICK k \in Jobs : PassCheck(k)
    <3>1. ASSUME NEW k \in Jobs, JobStep(k) PROVE PassCheck(k)
      BY <2>1, <3>1 DEF JobStep, Reject, StartPlain, Stop, Leave, StartBulk, Generated,
         Optimized, HandBack, Delegate, DeferredUnregister
    <3>2. ASSUME NEW c \in Callers, CallerStep(c) PROVE FALSE
      BY <2>1, <3>2 DEF CallerStep, GetById, TriggerSelect, TriggerClose, jobVars
    <3> QED
      BY <2>1, <3>1, <3>2 DEF Next, vars, jobVars
  <2>3. k = j
    BY <2>2 DEF PassCheck
  <2> QED
    BY <2>2, <2>3
<1>2. regs[j] = 1 /\ <<j, 1>> \notin closed
  BY <1>1 DEF PassCheck, IsTriggered, SignalOf, PhaseInv, Phase
<1>3. ASSUME NEW c \in Callers, cpc[c] = "acked", target[c] \in {<<j, 1>>, <<j, 2>>}
      PROVE  FALSE
  <2>1. target[c] \in closed /\ target[c][2] <= regs[target[c][1]]
    BY <1>3 DEF TargetInv
  <2> QED
    BY <1>2, <1>3, <2>1
<1> QED
  BY <1>3 DEF AckedAbort

\* An abort acknowledged to a job that registers once stops it at its next check.
THEOREM AckedAbortNotLost == Spec => AckedAbortStops
<1>1. IInv /\ [Next]_vars
        => [\A j \in Jobs \ BulkJobs : checks'[j] > checks[j] => ~AckedAbort(j)]_vars
  BY CheckedStep
<1> QED
  BY <1>1, Inductive, PTL DEF Spec, AckedAbortStops

-----------------------------------------------------------------------------
(* What is left of a queue.                                                 *)

\* What holds at 0 and is passed on by every number below n holds up to n.
LEMMA CountUp ==
  ASSUME NEW n \in Nat, NEW S, 0 \in S, \A i \in 1..n : i - 1 \in S => i \in S
  PROVE  \A i \in 0..n : i \in S
<1> DEFINE B == {i \in 0..n : i \notin S}
<1> SUFFICES ASSUME B # {} PROVE FALSE
  OBVIOUS
<1>1. IsWellFoundedOn(OpToRel(<, Nat), Nat)
  BY NatLessThanWellFounded
<1>2. B \subseteq Nat
  OBVIOUS
<1>3. PICK m \in B : \A k \in B : ~ (<<k, m>> \in OpToRel(<, Nat))
  <2> HIDE DEF B
  <2> QED
    BY <1>1, <1>2, WFMin
<1>4. m \in 0..n /\ m \notin S /\ m # 0
  OBVIOUS
<1>5. m - 1 \in 0..n /\ m \in 1..n /\ m - 1 < m /\ m \in Nat /\ m - 1 \in Nat
  BY <1>4
<1>6. m - 1 \notin B
  <2>1. <<m - 1, m>> \in OpToRel(<, Nat)
    BY <1>5 DEF OpToRel
  <2> QED
    BY <1>3, <2>1
<1> QED
  BY <1>4, <1>5, <1>6

\* A sequence of different elements, one more.
LEMMA AppendOne ==
  ASSUME NEW T, NEW s \in Seq(T), NEW x \in T
  PROVE  /\ Append(s, x) \in Seq(T) /\ ToSet(Append(s, x)) = ToSet(s) \cup {x}
         /\ IsInjective(s) /\ x \notin ToSet(s) => IsInjective(Append(s, x))
<1>1. PICK r : r = Append(s, x)
  OBVIOUS
<1>2. PICK n \in Nat : n = Len(s)
  BY LenProperties
<1>3. /\ r \in Seq(T) /\ DOMAIN r = 1..(n + 1) /\ DOMAIN s = 1..n
      /\ \A i \in 1..n : r[i] = s[i]
      /\ r[n + 1] = x
  BY <1>1, <1>2, AppendProperties, LenProperties
<1>4. \A i \in 1..(n + 1) : i \in 1..n \/ i = n + 1
  BY <1>2
<1>5. \A i \in 1..n : i \in 1..(n + 1)
  BY <1>2
<1>6. n + 1 \in 1..(n + 1)
  BY <1>2
<1>7. ToSet(s) = {s[i] : i \in 1..n} /\ ToSet(r) = {r[i] : i \in 1..(n + 1)}
  BY <1>3 DEF ToSet
<1>8. ToSet(r) = ToSet(s) \cup {x}
  BY <1>3, <1>4, <1>5, <1>6, <1>7
<1>9. ASSUME IsInjective(s), x \notin ToSet(s) PROVE IsInjective(r)
  <2> SUFFICES ASSUME NEW i \in 1..(n + 1), NEW j \in 1..(n + 1), r[i] = r[j] PROVE i = j
    BY <1>3 DEF IsInjective
  <2>1. \A k, l \in 1..n : s[k] = s[l] => k = l
    BY <1>3, <1>9 DEF IsInjective
  <2>2. \A k \in 1..n : s[k] # x
    BY <1>7, <1>9
  <2> QED
    BY <1>3, <1>4, <2>1, <2>2
<1> QED
  BY <1>1, <1>3, <1>8, <1>9

\* Without takes out just these, and what is left is as different as it was.
LEMMA WithoutFacts ==
  ASSUME NEW T, NEW s \in Seq(T), NEW S
  PROVE  /\ Without(s, S) \in Seq(T) /\ ToSet(Without(s, S)) = ToSet(s) \ S
         /\ IsInjective(s) => IsInjective(Without(s, S))
<1> DEFINE step(r, i) == IF i = 0 THEN <<>>
                         ELSE IF s[i] \in S THEN r[i - 1] ELSE Append(r[i - 1], s[i])
           f == CHOOSE r : r = [i \in 0..Len(s) |-> step(r, i)]
           upto(r, m) == \A i \in 0..m : r[i] = step(r, i)
           A == {m \in Nat : \E r \in [0..Len(s) -> Seq(T)] : upto(r, m)}
<1>0. PICK n \in Nat : n = Len(s) /\ \A i \in 1..n : s[i] \in T
  BY LenProperties, ElementOfSeq
<1>1. 0 \in A
  <2>1. [i \in 0..Len(s) |-> <<>>] \in [0..Len(s) -> Seq(T)]
    BY EmptySeq
  <2>2. upto([i \in 0..Len(s) |-> <<>>], 0)
    BY <1>0
  <2> QED
    BY <2>1, <2>2
<1>2. ASSUME NEW m \in 1..n, m - 1 \in A PROVE m \in A
  <2>1. PICK r \in [0..Len(s) -> Seq(T)] : upto(r, m - 1)
    BY <1>2
  <2>2. m \in 0..n /\ m - 1 \in 0..n /\ m \in Nat /\ m # 0 /\ s[m] \in T
    BY <1>0
  <2>3. PICK y : y = IF s[m] \in S THEN r[m - 1] ELSE Append(r[m - 1], s[m])
    OBVIOUS
  <2>4. y \in Seq(T)
    BY <1>0, <2>2, <2>3, AppendProperties
  <2> DEFINE g == [r EXCEPT ![m] = y]
  <2>5. g \in [0..Len(s) -> Seq(T)] /\ g[m] = y
    BY <1>0, <2>2, <2>4
  <2>6. \A i \in 0..n : i # m => g[i] = r[i]
    BY <1>0
  <2>7. upto(g, m)
    <3> SUFFICES ASSUME NEW i \in 0..m PROVE g[i] = step(g, i)
      OBVIOUS
    <3> HIDE DEF g
    <3>1. CASE i = m
      BY <2>2, <2>3, <2>5, <2>6, <3>1
    <3>2. CASE i # m
      <4>1. i \in 0..(m - 1) /\ i \in 0..n /\ (i # 0 => i - 1 \in 0..n /\ i - 1 # m)
        BY <1>0, <2>2, <3>2
      <4> QED
        BY <2>1, <2>6, <3>2, <4>1
    <3> QED
      BY <3>1, <3>2
  <2> QED
    BY <2>2, <2>5, <2>7
<1>3. n \in A
  <2> HIDE DEF A
  <2>1. \A i \in 0..n : i \in A
    BY <1>1, <1>2, CountUp
  <2> QED
    BY <2>1
<1>4. PICK r \in [0..Len(s) -> Seq(T)] : upto(r, n)
  BY <1>3
<1>5. r = [i \in 0..Len(s) |-> step(r, i)]
  BY <1>0, <1>4
<1>6. f = [i \in 0..Len(s) |-> step(f, i)]
  <2> HIDE DEF step
  <2> QED
    BY <1>5
<1>7. Without(s, S) = f[n]
  BY <1>0 DEF Without
<1> HIDE DEF f
<1>8. \A i \in 0..n : f[i] = step(f, i)
  BY <1>0, <1>6
\* After i elements.
<1> DEFINE B == {i \in Nat : /\ f[i] \in Seq(T)
                             /\ ToSet(f[i]) = {s[j] : j \in 1..i} \ S
                             /\ IsInjective(s) => IsInjective(f[i])}
<1>9. 0 \in B
  <2>1. f[0] = <<>>
    BY <1>0, <1>8
  <2>2. <<>> \in Seq(T) /\ ToSet(<<>>) = {} /\ IsInjective(<<>>)
    BY EmptySeq DEF ToSet, IsInjective
  <2>3. {s[j] : j \in 1..0} = {}
    OBVIOUS
  <2> QED
    BY <2>1, <2>2, <2>3
<1>10. ASSUME NEW i \in 1..n, i - 1 \in B PROVE i \in B
  <2>1. i \in 0..n /\ i # 0 /\ i \in Nat /\ i \in 1..i /\ s[i] \in T
    BY <1>0
  <2>2. PICK d : d = f[i - 1]
    OBVIOUS
  <2>3. /\ d \in Seq(T) /\ ToSet(d) = {s[j] : j \in 1..(i - 1)} \ S
        /\ IsInjective(s) => IsInjective(d)
    BY <1>10, <2>2
  <2>4. f[i] = IF s[i] \in S THEN d ELSE Append(d, s[i])
    BY <1>8, <2>1, <2>2
  <2>5. {s[j] : j \in 1..i} = {s[j] : j \in 1..(i - 1)} \cup {s[i]}
    <3>1. \A j \in 1..i : j \in 1..(i - 1) \/ j = i
      BY <2>1
    <3>2. \A j \in 1..(i - 1) : j \in 1..i
      BY <2>1
    <3> QED
      BY <2>1, <3>1, <3>2
  <2>6. CASE s[i] \in S
    BY <2>1, <2>3, <2>4, <2>5, <2>6
  <2>7. CASE s[i] \notin S
    <3>1. f[i] = Append(d, s[i])
      BY <2>4, <2>7
    <3>2. /\ Append(d, s[i]) \in Seq(T) /\ ToSet(Append(d, s[i])) = ToSet(d) \cup {s[i]}
          /\ IsInjective(d) /\ s[i] \notin ToSet(d) => IsInjective(Append(d, s[i]))
      BY <2>1, <2>3, AppendOne
    <3>3. ASSUME IsInjective(s) PROVE s[i] \notin ToSet(d)
      <4>1. \A j \in 1..(i - 1) : j \in 1..n /\ j # i
        BY <2>1
      <4>2. \A j, k \in 1..n : s[j] = s[k] => j = k
        BY <1>0, <3>3, LenProperties DEF IsInjective
      <4>3. i \in 1..n
        OBVIOUS
      <4> QED
        BY <2>3, <4>1, <4>2, <4>3
    <3> QED
      BY <2>1, <2>3, <2>5, <2>7, <3>1, <3>2, <3>3
  <2> QED
    BY <2>6, <2>7
<1>11. n \in B
  <2> HIDE DEF B
  <2>1. \A i \in 0..n : i \in B
    BY <1>9, <1>10, CountUp
  <2> QED
    BY <2>1
<1>12. ToSet(s) = {s[j] : j \in 1..n}
  BY <1>0, LenProperties DEF ToSet
<1> QED
  BY <1>7, <1>11, <1>12

\* SetToSeq lists a finite set.
LEMMA SetToSeqFacts ==
  ASSUME NEW S, IsFiniteSet(S)
  PROVE  SetToSeq(S) \in Seq(S) /\ ToSet(SetToSeq(S)) = S /\ IsInjective(SetToSeq(S))
<1>1. PICK n \in Nat : n = Cardinality(S) /\ ExistsBijection(1..n, S)
  BY FS_CardinalityType
<1>2. PICK g : g \in [1..n -> S] /\ IsInjective(g)
  BY <1>1 DEF ExistsBijection, Bijection, Injection
<1>3. SetToSeq(S) \in [1..n -> S] /\ IsInjective(SetToSeq(S))
  <2>1. SetToSeq(S) = CHOOSE h \in [1..Cardinality(S) -> S] : IsInjective(h)
    BY DEF SetToSeq
  <2> QED
    BY <1>1, <1>2, <2>1
<1>4. PICK f : f = SetToSeq(S)
  OBVIOUS
<1>5. f \in Seq(S)
  BY <1>3, <1>4
<1>6. f \in Injection(1..n, S)
  BY <1>3, <1>4 DEF Injection, IsInjective
<1>7. IsFiniteSet(1..n) /\ Cardinality(1..n) = n
  BY FS_Interval
<1>8. f \in Surjection(1..n, S)
  BY <1>1, <1>6, <1>7, FS_Injection
<1>9. ToSet(f) = S
  BY <1>3, <1>4, <1>8 DEF ToSet, Surjection
<1> QED
  BY <1>3, <1>4, <1>5, <1>9

\* New elements at the end of a queue.
LEMMA QueueUp ==
  ASSUME NEW T, NEW s \in Seq(T), NEW r \in Seq(T), IsInjective(s), IsInjective(r),
         ToSet(s) \cap ToSet(r) = {}
  PROVE  s \o r \in Seq(T) /\ ToSet(s \o r) = ToSet(s) \cup ToSet(r) /\ IsInjective(s \o r)
<1>1. PICK q : q = s \o r
  OBVIOUS
<1>2. PICK n \in Nat, k \in Nat : n = Len(s) /\ k = Len(r)
  BY LenProperties
<1>3. /\ q \in Seq(T) /\ DOMAIN q = 1..(n + k) /\ DOMAIN s = 1..n /\ DOMAIN r = 1..k
      /\ \A i \in 1..(n + k) : q[i] = IF i <= n THEN s[i] ELSE r[i - n]
  BY <1>1, <1>2, ConcatProperties, LenProperties
<1>4. /\ \A i \in 1..n : i \in 1..(n + k) /\ q[i] = s[i]
      /\ \A i \in 1..k : n + i \in 1..(n + k) /\ q[n + i] = r[i]
  <2>1. \A i \in 1..n : i \in 1..(n + k) /\ i <= n
    BY <1>2
  <2>2. \A i \in 1..k : n + i \in 1..(n + k) /\ ~ (n + i <= n) /\ (n + i) - n = i
    BY <1>2
  <2> QED
    BY <1>3, <2>1, <2>2
<1>5. \A i \in 1..(n + k) : i \in 1..n \/ \E j \in 1..k : i = n + j
  <2> SUFFICES ASSUME NEW i \in 1..(n + k), i \notin 1..n PROVE \E j \in 1..k : i = n + j
    OBVIOUS
  <2>1. i - n \in 1..k /\ i = n + (i - n)
    BY <1>2
  <2> QED
    BY <2>1
<1>6. ToSet(s) = {s[i] : i \in 1..n} /\ ToSet(r) = {r[i] : i \in 1..k}
      /\ ToSet(q) = {q[i] : i \in 1..(n + k)}
  BY <1>3 DEF ToSet
<1>7. ToSet(q) = ToSet(s) \cup ToSet(r)
  <2>1. ASSUME NEW x \in ToSet(q) PROVE x \in ToSet(s) \cup ToSet(r)
    <3>1. PICK i \in 1..(n + k) : x = q[i]
      BY <1>6, <2>1
    <3>2. CASE i \in 1..n
      BY <1>4, <1>6, <3>1, <3>2
    <3>3. CASE i \notin 1..n
      <4>1. PICK j \in 1..k : i = n + j
        BY <1>5, <3>3
      <4> QED
        BY <1>4, <1>6, <3>1, <4>1
    <3> QED
      BY <3>2, <3>3
  <2>2. ASSUME NEW x \in ToSet(s) PROVE x \in ToSet(q)
    BY <1>4, <1>6, <2>2
  <2>3. ASSUME NEW x \in ToSet(r) PROVE x \in ToSet(q)
    <3>1. PICK j \in 1..k : x = r[j]
      BY <1>6, <2>3
    <3>2. n + j \in 1..(n + k) /\ q[n + j] = r[j]
      BY <1>4
    <3> QED
      BY <1>6, <3>1, <3>2
  <2> QED
    BY <2>1, <2>2, <2>3
<1>8. IsInjective(q)
  <2> SUFFICES ASSUME NEW i \in 1..(n + k), NEW j \in 1..(n + k), q[i] = q[j] PROVE i = j
    BY <1>3 DEF IsInjective
  <2>1. \A a, b \in 1..n : s[a] = s[b] => a = b
    BY <1>3 DEF IsInjective
  <2>2. \A a, b \in 1..k : r[a] = r[b] => a = b
    BY <1>3 DEF IsInjective
  <2>3. \A a \in 1..n : \A b \in 1..k : s[a] # r[b]
    <3>1. \A a \in 1..n : s[a] \in ToSet(s)
      BY <1>6
    <3>2. \A b \in 1..k : r[b] \in ToSet(r)
      BY <1>6
    <3> QED
      BY <3>1, <3>2
  <2>4. CASE i \in 1..n /\ j \in 1..n
    BY <1>4, <2>1, <2>4
  <2>5. ASSUME i \notin 1..n, j \notin 1..n PROVE i = j
    <3>1. PICK a \in 1..k : i = n + a
      BY <1>5, <2>5
    <3>2. PICK b \in 1..k : j = n + b
      BY <1>5, <2>5
    <3>3. r[a] = r[b]
      BY <1>4, <3>1, <3>2
    <3> QED
      BY <2>2, <3>1, <3>2, <3>3
  <2>6. ASSUME i \in 1..n, j \notin 1..n PROVE FALSE
    <3>1. PICK b \in 1..k : j = n + b
      BY <1>5, <2>6
    <3> QED
      BY <1>4, <2>3, <2>6, <3>1
  <2>7. ASSUME i \notin 1..n, j \in 1..n PROVE FALSE
    <3>1. PICK a \in 1..k : i = n + a
      BY <1>5, <2>7
    <3> QED
      BY <1>4, <2>3, <2>7, <3>1
  <2> QED
    BY <2>4, <2>5, <2>6, <2>7
<1> QED
  BY <1>1, <1>3, <1>7, <1>8

\* A queue of different elements is as long as their set is large.
LEMMA QueueLength ==
  ASSUME NEW T, NEW s \in Seq(T), IsInjective(s)
  PROVE  Len(s) = Cardinality(ToSet(s)) /\ IsFiniteSet(ToSet(s))
<1>1. PICK n \in Nat : n = Len(s) /\ DOMAIN s = 1..n
  BY LenProperties
<1>2. ToSet(s) = {s[i] : i \in 1..n}
  BY <1>1 DEF ToSet
<1>3. s \in Bijection(1..n, ToSet(s))
  <2>1. s \in [1..n -> ToSet(s)]
    BY <1>1, <1>2, LenProperties
  <2> QED
    BY <1>1, <1>2, <2>1 DEF Bijection, Injection, Surjection, IsInjective
<1>4. ExistsBijection(1..n, ToSet(s))
  BY <1>3 DEF ExistsBijection
<1>5. IsFiniteSet(ToSet(s)) /\ Cardinality(ToSet(s)) = n
  BY <1>4, FS_CountingElements, FS_NatBijection
<1> QED
  BY <1>1, <1>5

-----------------------------------------------------------------------------
(* The invariant.                                                           *)

\* The queue holds the pending candidates, each once, and no delivered one.
QueueInv == IsInjective(queue) /\ ToSet(queue) = pending /\ pending \cap delivered = {}

\* The final message is the last one; a report carries no candidates.
ReporterInv ==
  /\ \A i \in 1..Len(reporter) :
       /\ reporter[i].kind = "final" => finished /\ i = Len(reporter)
       /\ reporter[i].kind = "report" => reporter[i].candidates = {}

\* What the goroutine's place says about the message it took and the one it stored.
ConsumerInv ==
  /\ taken.kind = "report" => taken.candidates = {}
  /\ latest.kind = "report" => latest.candidates = {}
  /\ consumer = "append" => taken.kind = "batch"
  /\ taken.kind = "final" => finished /\ reporter = <<>> /\ consumer \in {"store", "stopped"}
  /\ taken.kind = "final" /\ consumer = "stopped" => latest = taken
  /\ latest.kind = "final" => latest = taken /\ consumer = "stopped"
  /\ ~entry => consumer = "stopped"

\* A streamed candidate is queued or delivered, or on its way to the queue.
Arrived(c) == c \in delivered \cup pending
Underway(c) ==
  \/ consumer = "append" /\ c \in taken.candidates
  \/ \E i \in 1..Len(reporter) : reporter[i].kind = "batch" /\ c \in reporter[i].candidates
FlowInv == \A c \in Streamed \ unsent : Arrived(c) \/ Underway(c)

\* A handler that serves the final message serves everything that is pending and
\* everything its result has besides, and asks for nothing to be forgotten that
\* was not in a response.
SeenInv(p) ==
  /\ seen[p].kind # "batch"
  /\ seen[p].kind = "report" => seen[p].candidates = {}
  /\ seen[p].kind = "final" => latest = seen[p]
  /\ ppc[p] = "delete" => seen[p].kind = "final"

BatchInv(p) ==
  /\ ppc[p] \in {"filter", "write", "mark"} =>
       /\ ToSet(batch[p]) \subseteq delivered \cup pending
       /\ seen[p].kind = "final" => pending \subseteq ToSet(batch[p])
  /\ ppc[p] \in {"write", "mark"} =>
       /\ rest[p] \cap ToSet(batch[p]) = {}
       /\ rest[p] # {} => seen[p].kind = "final"
  /\ ppc[p] = "write" /\ seen[p].kind = "final" =>
       seen[p].candidates \subseteq delivered \cup pending \cup rest[p]
  /\ ppc[p] = "mark" => \A c \in ToSet(batch[p]) : received[c] > 0
  /\ ppc[p] \in {"mark", "delete"} /\ seen[p].kind = "final" =>
       \A c \in (Streamed \ unsent) \cup seen[p].candidates : received[c] > 0

PollInv == \A p \in Pollers : SeenInv(p) /\ BatchInv(p)

\* The handlers that may still send c.  No step adds one, and the response that
\* carries c takes its handler away.
MaySend(p, c) ==
  \/ ppc[p] = "idle" /\ entry /\ c \notin delivered
  \/ ppc[p] \in {"load", "peek"} /\ c \notin delivered
  \/ ppc[p] \in {"filter", "write"} /\ (c \notin delivered \/ c \in ToSet(batch[p]))
  \/ ppc[p] = "write" /\ c \in rest[p]
  \/ ppc[p] = "mark" /\ c \notin delivered \cup ToSet(batch[p]) /\ seen[p].kind # "final"
Senders(c) == {p \in Pollers : MaySend(p, c)}

SpentInv == \A c \in Candidates : received[c] + Cardinality(Senders(c)) <= Cardinality(Pollers)

ProgressInv ==
  /\ ProgressTypeOK
  /\ QueueInv /\ ReporterInv /\ ConsumerInv /\ FlowInv /\ PollInv
  /\ NothingDropped /\ FinalIsComplete
  /\ SpentInv

-----------------------------------------------------------------------------
(* Each step keeps the invariant.                                           *)

\* What the three kinds of message carry.
LEMMA MessageFacts ==
  /\ Report \in Messages /\ Report.kind = "report" /\ Report.candidates = {}
  /\ \A b \in SUBSET Candidates :
       /\ Batch(b) \in Messages /\ Batch(b).kind = "batch" /\ Batch(b).candidates = b
       /\ Final(b) \in Messages /\ Final(b).kind = "final" /\ Final(b).candidates = b
  /\ \A m \in Messages : m.kind \in {"report", "batch", "final"} /\ m.candidates \subseteq Candidates
BY DEF Report, Batch, Final, Messages

\* There are finitely many candidates, hence SetToSeq lists any of them.
LEMMA CandidatesFinite == \A S \in SUBSET Candidates : IsFiniteSet(S)
<1>1. IsFiniteSet(Candidates)
  BY AsyncProgressAssumption, FS_Union DEF Candidates
<1> QED
  BY <1>1, FS_Subset

\* What a step may send: one message, at the end of the channel.
Sends(m) == ~finished /\ m \in Messages /\ reporter' = Append(reporter, m)

\* The pipeline sends a message, and accounts in it for what it takes from unsent.
LEMMA PipelineFacts ==
  ASSUME ProgressTypeOK, PipelineStep
  PROVE  /\ UNCHANGED <<consumer, taken, entryVars, buffers, pollVars, failures, received>>
         /\ \E m \in Messages :
              /\ Sends(m)
              /\ m.kind = "report" => m.candidates = {}
              /\ finished' = (m.kind = "final")
              /\ unsent' \subseteq unsent
              /\ unsent \ unsent' # {} => m.kind = "batch" /\ unsent \ unsent' \subseteq m.candidates
         /\ reports' \in 0..MaxReports /\ finished' \in BOOLEAN
<1>1. CASE EmitBatch
  <2>1. PICK b \in SUBSET unsent \ {{}} : SendMessage(Batch(b)) /\ unsent' = unsent \ b /\ UNCHANGED <<reports, finished>>
    BY <1>1 DEF EmitBatch
  <2>2. b \in SUBSET Candidates
    BY DEF ProgressTypeOK, Candidates
  <2>3. Sends(Batch(b)) /\ UNCHANGED <<consumer, taken, entryVars, buffers, pollVars, failures, received>>
    BY <2>1, <2>2, MessageFacts DEF SendMessage, Sends
  <2>4. Batch(b) \in Messages /\ Batch(b).kind = "batch" /\ Batch(b).candidates = b
    BY <2>2, MessageFacts
  <2>5. finished' = FALSE
    BY <2>1 DEF SendMessage, ProgressTypeOK
  <2>6. unsent' \subseteq unsent /\ unsent \ unsent' \subseteq b
    BY <2>1
  <2>7. reports' \in 0..MaxReports
    BY <2>1 DEF ProgressTypeOK
  <2> QED
    BY <2>3, <2>4, <2>5, <2>6, <2>7
<1>2. CASE EmitReport
  <2>1. Sends(Report) /\ UNCHANGED <<consumer, taken, entryVars, buffers, pollVars, failures, received>>
        /\ unsent' = unsent
    BY <1>2, MessageFacts DEF EmitReport, SendMessage, Sends
  <2>3. finished' = FALSE
    BY <1>2 DEF EmitReport, SendMessage, ProgressTypeOK
  <2>2. reports' \in 0..MaxReports
    BY <1>2, AsyncProgressAssumption DEF EmitReport, ProgressTypeOK
  <2> QED
    BY <2>1, <2>2, <2>3, MessageFacts
<1>3. CASE EmitFinal
  <2>1. PICK cs \in {{}, Candidates \ unsent} : SendMessage(Final(cs))
    BY <1>3 DEF EmitFinal
  <2>2. cs \in SUBSET Candidates
    OBVIOUS
  <2>3. Sends(Final(cs)) /\ UNCHANGED <<consumer, taken, entryVars, buffers, pollVars, failures, received>>
    BY <2>1, <2>2, MessageFacts DEF SendMessage, Sends
  <2>4. unsent' = unsent /\ reports' = reports
    BY <1>3 DEF EmitFinal
  <2>5. reports' \in 0..MaxReports
    BY <2>4 DEF ProgressTypeOK
  <2>6. Final(cs) \in Messages /\ Final(cs).kind = "final"
    BY <2>2, MessageFacts
  <2>7. finished' = TRUE
    BY <1>3 DEF EmitFinal
  <2> QED
    BY <2>3, <2>4, <2>5, <2>6, <2>7
<1> QED
  BY <1>1, <1>2, <1>3 DEF PipelineStep


\* The goroutine takes the first message, and the rest moves up.
LEMMA ReceiveFacts ==
  ASSUME ProgressTypeOK, Receive
  PROVE  /\ taken' = reporter[1] /\ taken' \in Messages
         /\ reporter' \in Seq(Messages)
         /\ Len(reporter) \in Nat /\ Len(reporter) > 0 /\ Len(reporter') = Len(reporter) - 1
         /\ \A i \in 1..Len(reporter') : reporter'[i] = reporter[i + 1]
         /\ consumer' = IF taken'.kind = "batch" THEN "append" ELSE "store"
BY DEF Receive, ProgressTypeOK

\* What is queued is new: it was neither pending nor delivered.
LEMMA AppendFacts ==
  ASSUME ProgressTypeOK, QueueInv, AppendPending
  PROVE  /\ queue' \in Seq(Candidates) /\ IsInjective(queue') /\ ToSet(queue') = pending'
         /\ pending' = pending \cup (taken.candidates \ delivered)
         /\ pending' \subseteq Candidates
<1> DEFINE new == taken.candidates \ (delivered \cup pending)
<1>1. new \in SUBSET Candidates /\ taken.candidates \subseteq Candidates
  BY MessageFacts DEF ProgressTypeOK
<1>2. queue' = queue \o SetToSeq(new) /\ pending' = pending \cup new
  BY DEF AppendPending
<1>3. new \cap pending = {}
  OBVIOUS
<1>4. pending \cup new = pending \cup (taken.candidates \ delivered)
  OBVIOUS
<1> HIDE DEF new
<1>5. SetToSeq(new) \in Seq(new) /\ ToSet(SetToSeq(new)) = new /\ IsInjective(SetToSeq(new))
  BY <1>1, CandidatesFinite, SetToSeqFacts
<1>6. PICK r : r = SetToSeq(new)
  OBVIOUS
<1>7. r \in Seq(Candidates) /\ ToSet(r) = new /\ IsInjective(r)
  BY <1>1, <1>5, <1>6
<1>8. queue \in Seq(Candidates) /\ IsInjective(queue) /\ ToSet(queue) = pending
  BY DEF ProgressTypeOK, QueueInv
<1>9. queue \o r \in Seq(Candidates) /\ ToSet(queue \o r) = pending \cup new /\ IsInjective(queue \o r)
  BY <1>3, <1>7, <1>8, QueueUp
<1> QED
  BY <1>1, <1>2, <1>4, <1>6, <1>9 DEF ProgressTypeOK

\* Marking moves the batch from the pending to the delivered candidates.
LEMMA MarkFacts ==
  ASSUME ProgressTypeOK, QueueInv, NEW p \in Pollers, BatchInv(p), Mark(p)
  PROVE  /\ queue' \in Seq(Candidates) /\ IsInjective(queue') /\ ToSet(queue') = pending'
         /\ delivered' = delivered \cup ToSet(batch[p])
         /\ pending' = pending \ ToSet(batch[p])
         /\ pending' \cap delivered' = {}
         /\ delivered' \cup pending' = delivered \cup pending
         /\ delivered' \subseteq Candidates
<1> USE DEF QueueInv
<1>1. delivered' = delivered \cup ToSet(batch[p]) /\ pending' = pending \ ToSet(batch[p])
      /\ queue' = Without(queue, delivered')
  BY DEF Mark, MarkDelivered
<1>2. ToSet(batch[p]) \subseteq delivered \cup pending
  BY DEF BatchInv, Mark
<1>3. PICK S : S = delivered'
  OBVIOUS
<1>4. queue \in Seq(Candidates)
  BY DEF ProgressTypeOK
<1>5. Without(queue, S) \in Seq(Candidates) /\ ToSet(Without(queue, S)) = ToSet(queue) \ S
      /\ IsInjective(Without(queue, S))
  BY <1>4, WithoutFacts
<1>6. ToSet(queue) \ S = pending'
  BY <1>1, <1>3
<1>7. delivered' \subseteq Candidates
  BY <1>1, <1>2 DEF ProgressTypeOK
<1>8. pending' \cap delivered' = {} /\ delivered' \cup pending' = delivered \cup pending
  BY <1>1, <1>2
<1> QED
  BY <1>1, <1>3, <1>5, <1>6, <1>7, <1>8

\* A step of a handler keeps the types.
LEMMA PollTypes ==
  ASSUME ProgressInv, NEW p \in Pollers, PollStep(p)
  PROVE  ProgressTypeOK'
<1> USE DEF ProgressTypeOK, PollerGoto, pipeVars, entryVars, buffers
<1>0. ProgressTypeOK /\ QueueInv /\ BatchInv(p)
  BY DEF ProgressInv, PollInv
<1>1. UNCHANGED <<reporter, unsent, reports, finished, consumer, taken, latest>>
  BY DEF PollStep
<1>2. CASE Lookup(p)
  BY <1>0, <1>1, <1>2 DEF Lookup
<1>3. CASE Load(p)
  BY <1>0, <1>1, <1>3 DEF Load
<1>4. CASE Peek(p)
  BY <1>0, <1>1, <1>4 DEF Peek
<1>5. CASE Filter(p)
  <2>1. seen[p] \in Messages
    BY <1>0
  <2>2. Undelivered(seen[p].candidates) \in SUBSET Candidates
    BY <2>1, MessageFacts DEF Undelivered
  <2> QED
    BY <1>0, <1>1, <1>5, <2>2 DEF Filter
<1>6. CASE WriteOk(p)
  BY <1>0, <1>1, <1>6 DEF WriteOk
<1>7. CASE WriteFails(p)
  BY <1>0, <1>1, <1>7, AsyncProgressAssumption DEF WriteFails
<1>8. CASE Mark(p)
  <2>1. queue' \in Seq(Candidates) /\ pending' \subseteq Candidates /\ delivered' \subseteq Candidates
    BY <1>0, <1>8, MarkFacts
  <2> QED
    BY <1>0, <1>1, <1>8, <2>1 DEF Mark
<1>9. CASE DeleteEntry(p)
  BY <1>0, <1>1, <1>9 DEF DeleteEntry
<1> QED
  BY <1>2, <1>3, <1>4, <1>5, <1>6, <1>7, <1>8, <1>9 DEF PollStep

\* Every step keeps the types.
LEMMA TypeKept ==
  ASSUME ProgressInv, [ProgressNext]_progressVars
  PROVE  ProgressTypeOK'
<1> USE DEF pipeVars, entryVars, buffers, pollVars
<1>0. ProgressTypeOK /\ QueueInv
  BY DEF ProgressInv
<1>1. CASE UNCHANGED progressVars
  BY <1>0, <1>1 DEF ProgressTypeOK, progressVars
<1>2. CASE PipelineStep
  <2>1. UNCHANGED <<consumer, taken, entryVars, buffers, pollVars, failures, received>>
        /\ reports' \in 0..MaxReports /\ finished' \in BOOLEAN
    BY <1>0, <1>2, PipelineFacts
  <2>2. PICK m \in Messages : Sends(m) /\ unsent' \subseteq unsent
    BY <1>0, <1>2, PipelineFacts
  <2>3. reporter' \in Seq(Messages)
    BY <1>0, <2>2 DEF Sends, ProgressTypeOK
  <2> QED
    BY <1>0, <2>1, <2>2, <2>3 DEF ProgressTypeOK
<1>3. CASE Receive
  <2>1. taken' \in Messages /\ reporter' \in Seq(Messages) /\ consumer' \in {"append", "store"}
    BY <1>0, <1>3, ReceiveFacts
  <2> QED
    BY <1>0, <1>3, <2>1 DEF ProgressTypeOK, Receive
<1>4. CASE AppendPending
  <2>1. queue' \in Seq(Candidates) /\ pending' \subseteq Candidates
    BY <1>0, <1>4, AppendFacts
  <2> QED
    BY <1>0, <1>4, <2>1 DEF ProgressTypeOK, AppendPending
<1>5. CASE StoreLatest
  <2>1. taken \in Messages
    BY <1>0 DEF ProgressTypeOK
  <2>2. latest' \in Messages /\ latest'.kind # "batch"
    BY <1>5, <2>1, MessageFacts DEF StoreLatest
  <2> QED
    BY <1>0, <1>5, <2>2 DEF ProgressTypeOK, StoreLatest
<1>6. CASE SilenceTimeout
  BY <1>0, <1>6 DEF ProgressTypeOK, SilenceTimeout
<1>7. CASE \E p \in Pollers : PollStep(p)
  BY <1>7, PollTypes
<1> QED
  BY <1>1, <1>2, <1>3, <1>4, <1>5, <1>6, <1>7 DEF ProgressNext, ConsumerStep

\* What a handler's step leaves alone, and what it can only add to.
LEMMA PollFrame ==
  ASSUME ProgressInv, NEW p \in Pollers, PollStep(p)
  PROVE  /\ UNCHANGED <<reporter, unsent, reports, finished, consumer, taken, latest>>
         /\ \A q \in Pollers \ {p} : /\ ppc'[q] = ppc[q] /\ seen'[q] = seen[q]
                                     /\ batch'[q] = batch[q] /\ rest'[q] = rest[q]
         /\ delivered \subseteq delivered' /\ pending' \subseteq pending
         /\ delivered' \cup pending' = delivered \cup pending
         /\ \A c \in Candidates : received[c] <= received'[c]
         /\ QueueInv'
<1> USE DEF ProgressTypeOK, PollerGoto, entryVars, buffers
<1>0. ProgressTypeOK /\ QueueInv /\ BatchInv(p)
  BY DEF ProgressInv, PollInv
<1>1. UNCHANGED <<reporter, unsent, reports, finished, consumer, taken, latest>>
  BY DEF PollStep, pipeVars
<1>r. \A c \in Candidates : received[c] \in Nat /\ received[c] <= received[c]
  BY <1>0
<1>2. CASE Lookup(p)
  BY <1>0, <1>1, <1>2, <1>r DEF Lookup, QueueInv
<1>3. CASE Load(p)
  BY <1>0, <1>1, <1>3, <1>r DEF Load, QueueInv
<1>4. CASE Peek(p)
  BY <1>0, <1>1, <1>4, <1>r DEF Peek, QueueInv
<1>5. CASE Filter(p)
  BY <1>0, <1>1, <1>5, <1>r DEF Filter, QueueInv
<1>6. CASE WriteOk(p)
  <2>1. \A c \in Candidates : received[c] <= received'[c]
    BY <1>6, <1>r DEF WriteOk
  <2> QED
    BY <1>0, <1>1, <1>6, <2>1 DEF WriteOk, QueueInv
<1>7. CASE WriteFails(p)
  BY <1>0, <1>1, <1>7, <1>r DEF WriteFails, QueueInv
<1>8. CASE Mark(p)
  <2>1. /\ delivered \subseteq delivered' /\ pending' \subseteq pending
        /\ delivered' \cup pending' = delivered \cup pending
        /\ QueueInv'
    BY <1>0, <1>8, MarkFacts DEF QueueInv
  <2> QED
    BY <1>0, <1>1, <1>8, <1>r, <2>1 DEF Mark
<1>9. CASE DeleteEntry(p)
  BY <1>0, <1>1, <1>9, <1>r DEF DeleteEntry, QueueInv
<1> QED
  BY <1>2, <1>3, <1>4, <1>5, <1>6, <1>7, <1>8, <1>9 DEF PollStep

\* The steps of the other two leave the handlers alone and deliver nothing.
ServerStep == PipelineStep \/ ConsumerStep \/ SilenceTimeout

LEMMA ServerFrame ==
  ASSUME ProgressInv, ServerStep
  PROVE  /\ UNCHANGED <<delivered, pollVars, received>>
         /\ pending \subseteq pending'
         /\ unsent' \subseteq unsent
         /\ taken.kind = "final" => pending' = pending /\ unsent' = unsent
         /\ taken.kind = "final" /\ consumer = "stopped" => latest' = latest
         /\ QueueInv'
<1> USE DEF pipeVars, entryVars, buffers
<1>0. ProgressTypeOK /\ QueueInv /\ ConsumerInv
  BY DEF ProgressInv
<1>1. CASE PipelineStep
  <2>1. UNCHANGED <<consumer, taken, entryVars, buffers, pollVars, failures, received>>
    BY <1>0, <1>1, PipelineFacts
  <2>2. PICK m \in Messages : Sends(m) /\ unsent' \subseteq unsent
    BY <1>0, <1>1, PipelineFacts
  <2>3. taken.kind # "final"
    BY <1>0, <2>2 DEF Sends, ConsumerInv
  <2> QED
    BY <1>0, <2>1, <2>2, <2>3 DEF QueueInv
<1>2. CASE Receive
  BY <1>0, <1>2 DEF Receive, QueueInv, ConsumerInv
<1>3. CASE AppendPending
  <2>1. taken.kind # "final"
    BY <1>0, <1>3 DEF AppendPending, ConsumerInv
  <2>2. IsInjective(queue') /\ ToSet(queue') = pending' /\ pending' = pending \cup (taken.candidates \ delivered)
    BY <1>0, <1>3, AppendFacts
  <2>3. UNCHANGED <<delivered, pollVars, received, unsent>>
    BY <1>3 DEF AppendPending
  <2>4. pending' \cap delivered' = {}
    BY <1>0, <2>2, <2>3 DEF QueueInv
  <2> QED
    BY <2>1, <2>2, <2>3, <2>4 DEF QueueInv
<1>4. CASE StoreLatest
  BY <1>0, <1>4 DEF StoreLatest, QueueInv
<1>5. CASE SilenceTimeout
  BY <1>0, <1>5 DEF SilenceTimeout, QueueInv, ConsumerInv
<1> QED
  BY <1>1, <1>2, <1>3, <1>4, <1>5 DEF ServerStep, ConsumerStep

\* A step is a step of a handler, or one of the other two, or none.
LEMMA StepIsOne ==
  ASSUME [ProgressNext]_progressVars
  PROVE  UNCHANGED progressVars \/ ServerStep \/ \E p \in Pollers : PollStep(p)
BY DEF ProgressNext, ServerStep

\* Every step keeps the queue and its indices together.
LEMMA QueueKept ==
  ASSUME ProgressInv, [ProgressNext]_progressVars
  PROVE  QueueInv'
<1>1. CASE UNCHANGED progressVars
  BY <1>1 DEF ProgressInv, QueueInv, progressVars, buffers
<1> QED
  BY <1>1, StepIsOne, ServerFrame, PollFrame

\* Every step keeps what is known of the messages on their way to latestProgress.
LEMMA MessagesKept ==
  ASSUME ProgressInv, [ProgressNext]_progressVars
  PROVE  ReporterInv' /\ ConsumerInv'
<1> USE DEF pipeVars, entryVars
<1>0. ProgressTypeOK /\ ReporterInv /\ ConsumerInv /\ Len(reporter) \in Nat
  BY DEF ProgressInv, ProgressTypeOK
<1>1. CASE UNCHANGED progressVars
  BY <1>0, <1>1 DEF progressVars, ReporterInv, ConsumerInv
<1>2. CASE PipelineStep
  <2>1. UNCHANGED <<consumer, taken, entry, latest>>
    BY <1>0, <1>2, PipelineFacts
  <2>2. PICK m \in Messages : /\ Sends(m)
                              /\ m.kind = "report" => m.candidates = {}
                              /\ finished' = (m.kind = "final")
    BY <1>0, <1>2, PipelineFacts
  <2>3. ~finished /\ reporter' = Append(reporter, m) /\ Len(reporter') = Len(reporter) + 1
        /\ \A i \in 1..Len(reporter) : reporter'[i] = reporter[i]
        /\ reporter'[Len(reporter) + 1] = m
    BY <1>0, <2>2 DEF Sends, ProgressTypeOK
  <2>4. ReporterInv'
    <3> SUFFICES ASSUME NEW i \in 1..(Len(reporter) + 1)
                 PROVE  /\ reporter'[i].kind = "final" => finished' /\ i = Len(reporter) + 1
                        /\ reporter'[i].kind = "report" => reporter'[i].candidates = {}
      BY <2>3 DEF ReporterInv
    <3>1. CASE i = Len(reporter) + 1
      <4>1. reporter'[i] = m
        BY <2>3, <3>1
      <4>2. m.kind = "final" => finished'
        BY <2>2
      <4> QED
        BY <2>2, <3>1, <4>1, <4>2
    <3>2. CASE i # Len(reporter) + 1
      <4>1. i \in 1..Len(reporter) /\ reporter'[i] = reporter[i]
        BY <1>0, <2>3, <3>2
      <4>2. reporter[i].kind # "final" /\ (reporter[i].kind = "report" => reporter[i].candidates = {})
        BY <1>0, <2>3, <4>1 DEF ReporterInv
      <4> QED
        BY <4>1, <4>2
    <3> QED
      BY <3>1, <3>2
  <2>5. taken.kind # "final"
    BY <1>0, <2>3 DEF ConsumerInv
  <2>6. ConsumerInv'
    BY <1>0, <2>1, <2>5 DEF ConsumerInv
  <2> QED
    BY <2>4, <2>6
<1>3. CASE Receive
  <2>1. /\ taken' = reporter[1] /\ taken' \in Messages
        /\ reporter' \in Seq(Messages)
        /\ Len(reporter) > 0 /\ Len(reporter') = Len(reporter) - 1
        /\ \A i \in 1..Len(reporter') : reporter'[i] = reporter[i + 1]
        /\ consumer' = IF taken'.kind = "batch" THEN "append" ELSE "store"
    BY <1>0, <1>3, ReceiveFacts
  <2>2. consumer = "select" /\ UNCHANGED <<finished, entry, latest>>
    BY <1>3 DEF Receive
  <2>3. 1 \in 1..Len(reporter) /\ \A i \in 1..Len(reporter') : i + 1 \in 1..Len(reporter)
        /\ (i + 1 = Len(reporter) => i = Len(reporter'))
    BY <1>0, <2>1
  <2>4. ReporterInv'
    BY <1>0, <2>1, <2>2, <2>3 DEF ReporterInv
  <2>5. taken'.kind = "final" => finished' /\ reporter' = <<>>
    <3> SUFFICES ASSUME taken'.kind = "final" PROVE finished' /\ reporter' = <<>>
      OBVIOUS
    <3>0. reporter[1].kind = "final" /\ 1 \in 1..Len(reporter)
      BY <2>1, <2>3
    <3>1. reporter[1].kind = "final" => finished /\ 1 = Len(reporter)
      <4>1. \A i \in 1..Len(reporter) : reporter[i].kind = "final" => finished /\ i = Len(reporter)
        BY <1>0 DEF ReporterInv
      <4> QED
        BY <3>0, <4>1
    <3>2. Len(reporter') = 0
      <4>1. 1 = Len(reporter)
        BY <3>0, <3>1
      <4>2. Len(reporter') = Len(reporter) - 1
        BY <2>1
      <4> QED
        BY <4>1, <4>2
    <3>3. finished'
      BY <2>2, <3>0, <3>1
    <3> QED
      BY <2>1, <3>2, <3>3
  <2>6. taken'.kind = "report" => taken'.candidates = {}
    BY <1>0, <2>1, <2>3 DEF ReporterInv
  <2>7. taken'.kind \in {"report", "batch", "final"}
    BY <2>1, MessageFacts
  <2>8. ConsumerInv'
    BY <1>0, <2>1, <2>2, <2>5, <2>6, <2>7 DEF ConsumerInv
  <2> QED
    BY <2>4, <2>8
<1>4. CASE AppendPending
  BY <1>0, <1>4 DEF AppendPending, ReporterInv, ConsumerInv
<1>5. CASE StoreLatest
  <2>1. /\ UNCHANGED <<reporter, finished, taken, entry>> /\ consumer = "store"
        /\ latest' = (IF taken.kind = "batch" THEN Report ELSE taken)
        /\ consumer' = IF taken.kind = "final" THEN "stopped" ELSE "select"
    BY <1>5 DEF StoreLatest
  <2>2. entry
    BY <1>0, <2>1 DEF ConsumerInv
  <2> QED
    BY <1>0, <2>1, <2>2, MessageFacts DEF ReporterInv, ConsumerInv
<1>6. CASE SilenceTimeout
  BY <1>0, <1>6 DEF SilenceTimeout, ReporterInv, ConsumerInv
<1>7. ASSUME NEW p \in Pollers, PollStep(p) PROVE ReporterInv' /\ ConsumerInv'
  <2>1. UNCHANGED <<reporter, finished, consumer, taken, latest>>
    BY <1>7, PollFrame
  <2>2. SeenInv(p)
    BY DEF ProgressInv, PollInv
  <2>3. entry' = entry \/ ppc[p] = "delete"
    BY <1>7 DEF PollStep, Lookup, Load, Peek, Filter, WriteOk, WriteFails, Mark, DeleteEntry
  <2>4. ppc[p] = "delete" => consumer = "stopped"
    BY <1>0, <2>2 DEF SeenInv, ConsumerInv
  <2> QED
    BY <1>0, <2>1, <2>3, <2>4 DEF ReporterInv, ConsumerInv
<1> QED
  BY <1>1, <1>2, <1>3, <1>4, <1>5, <1>6, <1>7 DEF ProgressNext, ConsumerStep

\* Every step keeps a streamed candidate on its way.
LEMMA FlowKept ==
  ASSUME ProgressInv, [ProgressNext]_progressVars
  PROVE  FlowInv'
<1> USE DEF pipeVars, entryVars, buffers
<1>0. ProgressTypeOK /\ QueueInv /\ FlowInv /\ Len(reporter) \in Nat
  BY DEF ProgressInv, ProgressTypeOK
<1> SUFFICES ASSUME NEW c \in Streamed \ unsent' PROVE Arrived(c)' \/ Underway(c)'
  BY DEF FlowInv, Arrived, Underway
<1>i. c \notin unsent => Arrived(c) \/ Underway(c)
  BY <1>0 DEF FlowInv
<1>1. CASE UNCHANGED progressVars
  BY <1>i, <1>1 DEF progressVars, Arrived, Underway
<1>2. CASE PipelineStep
  <2>1. UNCHANGED <<consumer, taken, buffers>>
    BY <1>0, <1>2, PipelineFacts
  <2>2. PICK m \in Messages : /\ Sends(m)
                              /\ unsent \ unsent' # {} => m.kind = "batch" /\ unsent \ unsent' \subseteq m.candidates
    BY <1>0, <1>2, PipelineFacts
  <2>3. Len(reporter') = Len(reporter) + 1 /\ \A i \in 1..Len(reporter) : i \in 1..Len(reporter') /\ reporter'[i] = reporter[i]
    BY <1>0, <2>2 DEF Sends, ProgressTypeOK
  <2>4. Len(reporter) + 1 \in 1..Len(reporter') /\ reporter'[Len(reporter) + 1] = m
    BY <1>0, <2>2 DEF Sends, ProgressTypeOK
  <2>5. CASE c \in unsent
    BY <2>2, <2>4, <2>5 DEF Underway
  <2>6. CASE c \notin unsent
    BY <1>i, <2>1, <2>3, <2>6 DEF Arrived, Underway
  <2> QED
    BY <2>5, <2>6
<1>3. CASE Receive
  <2>1. /\ taken' = reporter[1]
        /\ Len(reporter) > 0 /\ Len(reporter') = Len(reporter) - 1
        /\ \A i \in 1..Len(reporter') : reporter'[i] = reporter[i + 1]
        /\ consumer' = IF taken'.kind = "batch" THEN "append" ELSE "store"
    BY <1>0, <1>3, ReceiveFacts
  <2>2. consumer = "select" /\ UNCHANGED <<unsent, delivered, pending>>
    BY <1>3 DEF Receive
  <2>3. CASE Arrived(c)
    BY <2>2, <2>3 DEF Arrived
  <2>4. CASE Underway(c)
    <3>1. PICK i \in 1..Len(reporter) : reporter[i].kind = "batch" /\ c \in reporter[i].candidates
      BY <2>2, <2>4 DEF Underway
    <3>2. CASE i = 1
      BY <2>1, <3>1, <3>2 DEF Underway
    <3>3. CASE i # 1
      <4>1. i - 1 \in 1..Len(reporter') /\ (i - 1) + 1 = i
        BY <1>0, <2>1, <3>3
      <4>2. reporter'[i - 1] = reporter[i]
        BY <2>1, <4>1
      <4> QED
        BY <3>1, <4>1, <4>2 DEF Underway
    <3> QED
      BY <3>2, <3>3
  <2> QED
    BY <1>i, <2>2, <2>3, <2>4
<1>4. CASE AppendPending
  <2>1. pending' = pending \cup (taken.candidates \ delivered)
    BY <1>0, <1>4, AppendFacts
  <2>2. UNCHANGED <<reporter, unsent, taken, delivered>>
    BY <1>4 DEF AppendPending
  <2> QED
    BY <1>i, <2>1, <2>2 DEF Arrived, Underway
<1>5. CASE StoreLatest
  BY <1>i, <1>5 DEF StoreLatest, Arrived, Underway
<1>6. CASE SilenceTimeout
  BY <1>i, <1>6 DEF SilenceTimeout, Arrived, Underway
<1>7. ASSUME NEW p \in Pollers, PollStep(p) PROVE Arrived(c)' \/ Underway(c)'
  <2>1. UNCHANGED <<reporter, unsent, consumer, taken>> /\ delivered' \cup pending' = delivered \cup pending
    BY <1>7, PollFrame
  <2> QED
    BY <1>i, <2>1 DEF Arrived, Underway
<1> QED
  BY <1>1, <1>2, <1>3, <1>4, <1>5, <1>6, <1>7 DEF ProgressNext, ConsumerStep

\* When the goroutine has stopped on the final message, every streamed candidate
\* has reached the queue.
LEMMA AllArrived ==
  ASSUME ProgressInv, taken.kind = "final"
  PROVE  Streamed \ unsent \subseteq delivered \cup pending
<1>1. FlowInv /\ ConsumerInv
  BY DEF ProgressInv
<1>2. reporter = <<>> /\ consumer # "append"
  BY <1>1 DEF ConsumerInv
<1>3. Len(reporter) = 0
  BY <1>2
<1> QED
  BY <1>1, <1>2, <1>3 DEF FlowInv, Arrived, Underway

\* What a handler has in hand stays good while others step.
LEMMA HandlerWaits ==
  ASSUME ProgressInv, NEW q \in Pollers,
         ppc'[q] = ppc[q], seen'[q] = seen[q], batch'[q] = batch[q], rest'[q] = rest[q],
         delivered \cup pending \subseteq delivered' \cup pending',
         seen[q].kind = "final" =>
           pending' \subseteq pending /\ unsent' = unsent /\ latest' = latest,
         \A c \in Candidates : received[c] <= received'[c],
         received' \in [Candidates -> Nat]
  PROVE  SeenInv(q)' /\ BatchInv(q)'
<1>1. ProgressTypeOK /\ SeenInv(q) /\ BatchInv(q)
  BY DEF ProgressInv, PollInv
<1>2. SeenInv(q)'
  BY <1>1 DEF SeenInv
<1>3. \A c \in Candidates : received[c] > 0 => received'[c] > 0
  BY <1>1 DEF ProgressTypeOK
<1>4. ToSet(batch[q]) \subseteq Candidates
  <2>1. batch[q] \in Seq(Candidates)
    BY <1>1 DEF ProgressTypeOK
  <2> QED
    BY <2>1, ElementOfSeq DEF ToSet
<1>5. seen[q].candidates \subseteq Candidates
  BY <1>1, MessageFacts DEF ProgressTypeOK
<1>6. Streamed \subseteq Candidates
  BY DEF Candidates
<1>7. ToSet(batch'[q]) = ToSet(batch[q])
  OBVIOUS
<1>8. BatchInv(q)'
  BY <1>1, <1>3, <1>4, <1>5, <1>6, <1>7 DEF BatchInv
<1> QED
  BY <1>2, <1>8

\* A step of a handler keeps what is known of that handler.
LEMMA HandlerMoves ==
  ASSUME ProgressInv, NEW p \in Pollers, PollStep(p)
  PROVE  SeenInv(p)' /\ BatchInv(p)'
<1> USE DEF entryVars, buffers
<1>0. ProgressTypeOK /\ QueueInv /\ ConsumerInv /\ SeenInv(p) /\ BatchInv(p)
  BY DEF ProgressInv, PollInv
<1>1. UNCHANGED <<reporter, unsent, reports, finished, consumer, taken, latest>>
  BY DEF PollStep, pipeVars
<1>2. \A pc : PollerGoto(p, pc) => ppc'[p] = pc
  BY <1>0 DEF PollerGoto, ProgressTypeOK
<1>3. CASE Lookup(p)
  BY <1>0, <1>1, <1>2, <1>3 DEF Lookup, SeenInv, BatchInv
<1>4. CASE Load(p)
  <2>1. seen'[p] = latest /\ ppc'[p] = "peek"
    BY <1>0, <1>2, <1>4 DEF Load, ProgressTypeOK
  <2> QED
    BY <1>0, <1>1, <2>1 DEF SeenInv, BatchInv, ConsumerInv, ProgressTypeOK
<1>5. CASE Peek(p)
  <2>1. batch'[p] = queue /\ ppc'[p] = "filter" /\ UNCHANGED <<seen, rest, buffers, received>>
    BY <1>0, <1>2, <1>5 DEF Peek, ProgressTypeOK
  <2>2. ToSet(batch'[p]) = pending
    BY <1>0, <2>1 DEF QueueInv
  <2> QED
    BY <1>0, <1>1, <2>1, <2>2 DEF SeenInv, BatchInv
<1>6. CASE Filter(p)
  <2>1. /\ rest'[p] = seen[p].candidates \ (delivered \cup pending) /\ ppc[p] = "filter" /\ ppc'[p] = "write"
        /\ UNCHANGED <<seen, batch, buffers, received>>
    BY <1>0, <1>2, <1>6 DEF Filter, Undelivered, ProgressTypeOK
  <2>2. seen[p].kind # "final" => seen[p].candidates = {}
    <3>1. seen[p].kind \in {"report", "batch", "final"}
      BY <1>0, MessageFacts DEF ProgressTypeOK
    <3> QED
      BY <1>0, <3>1 DEF SeenInv
  <2>3. ToSet(batch[p]) \subseteq delivered \cup pending
    BY <1>0, <2>1 DEF BatchInv
  <2> QED
    BY <1>0, <1>1, <2>1, <2>2, <2>3 DEF SeenInv, BatchInv
<1>7. CASE WriteOk(p)
  <2>1. /\ ppc[p] = "write" /\ ppc'[p] = "mark" /\ UNCHANGED <<seen, batch, rest, buffers>>
        /\ \A c \in Candidates : received'[c] =
             received[c] + (IF c \in ToSet(batch[p]) THEN 1 ELSE 0) + (IF c \in rest[p] THEN 1 ELSE 0)
    BY <1>2, <1>7 DEF WriteOk
  <2>2. \A c \in Candidates : /\ c \in ToSet(batch[p]) \cup rest[p] => received'[c] > 0
                              /\ received[c] > 0 => received'[c] > 0
    BY <1>0, <2>1 DEF ProgressTypeOK
  <2>3. ToSet(batch[p]) \subseteq Candidates
    BY <1>0, <2>1 DEF BatchInv, ProgressTypeOK
  <2>4. ASSUME seen[p].kind = "final", NEW c \in (Streamed \ unsent) \cup seen[p].candidates
        PROVE  received'[c] > 0
    <3>1. taken.kind = "final"
      BY <1>0, <2>4 DEF SeenInv, ConsumerInv
    <3>2. c \in delivered \cup pending \cup rest[p]
      BY <1>0, <2>1, <2>4, <3>1, AllArrived DEF BatchInv
    <3>3. pending \subseteq ToSet(batch[p])
      BY <1>0, <2>1, <2>4 DEF BatchInv
    <3>4. c \in Candidates
      BY <1>0, <3>2 DEF ProgressTypeOK
    <3>5. c \in delivered => received[c] > 0
      BY DEF ProgressInv, NothingDropped
    <3> QED
      BY <2>2, <3>2, <3>3, <3>4, <3>5
  <2>5. SeenInv(p)'
    BY <1>0, <1>1, <2>1 DEF SeenInv
  <2>6. BatchInv(p)'
    <3>1. \A c \in ToSet(batch'[p]) : received'[c] > 0
      BY <2>1, <2>2, <2>3
    <3>2. seen'[p].kind = "final" => \A c \in (Streamed \ unsent') \cup seen'[p].candidates : received'[c] > 0
      BY <1>1, <2>1, <2>4
    <3> QED
      BY <1>0, <2>1, <3>1, <3>2 DEF BatchInv
  <2> QED
    BY <2>5, <2>6
<1>8. CASE WriteFails(p)
  BY <1>0, <1>1, <1>2, <1>8 DEF WriteFails, SeenInv, BatchInv
<1>9. CASE Mark(p)
  <2>1. /\ ppc[p] = "mark" /\ ppc'[p] = (IF seen[p].kind = "final" THEN "delete" ELSE "idle")
        /\ UNCHANGED <<seen, received>>
    BY <1>2, <1>9 DEF Mark
  <2> QED
    BY <1>0, <1>1, <2>1 DEF SeenInv, BatchInv
<1>10. CASE DeleteEntry(p)
  BY <1>0, <1>1, <1>2, <1>10 DEF DeleteEntry, SeenInv, BatchInv
<1> QED
  BY <1>3, <1>4, <1>5, <1>6, <1>7, <1>8, <1>9, <1>10 DEF PollStep

\* Every step keeps what is known of the handlers.
LEMMA PollKept ==
  ASSUME ProgressInv, [ProgressNext]_progressVars
  PROVE  PollInv'
<1>0. ProgressTypeOK' /\ ProgressTypeOK
  BY TypeKept DEF ProgressInv
<1>1. received' \in [Candidates -> Nat] /\ \A c \in Candidates : received[c] <= received[c]
  BY <1>0 DEF ProgressTypeOK
<1>2. CASE UNCHANGED progressVars
  BY <1>2 DEF progressVars, pipeVars, entryVars, buffers, pollVars, ProgressInv, PollInv, SeenInv, BatchInv
<1>3. ASSUME ServerStep, NEW q \in Pollers PROVE SeenInv(q)' /\ BatchInv(q)'
  <2>1. /\ UNCHANGED <<delivered, pollVars, received>> /\ pending \subseteq pending'
        /\ taken.kind = "final" => pending' = pending /\ unsent' = unsent
        /\ taken.kind = "final" /\ consumer = "stopped" => latest' = latest
    BY <1>3, ServerFrame
  <2>2. seen[q].kind = "final" => taken.kind = "final" /\ consumer = "stopped"
    BY DEF ProgressInv, PollInv, SeenInv, ConsumerInv
  <2>3. seen[q].kind = "final" => pending' \subseteq pending /\ unsent' = unsent /\ latest' = latest
    BY <2>1, <2>2
  <2>4. delivered \cup pending \subseteq delivered' \cup pending'
    BY <2>1
  <2>5. ppc'[q] = ppc[q] /\ seen'[q] = seen[q] /\ batch'[q] = batch[q] /\ rest'[q] = rest[q]
    BY <2>1 DEF pollVars
  <2>6. \A c \in Candidates : received[c] <= received'[c]
    BY <1>1, <2>1
  <2> QED
    BY <1>1, <2>3, <2>4, <2>5, <2>6, HandlerWaits
<1>4. ASSUME NEW p \in Pollers, PollStep(p), NEW q \in Pollers PROVE SeenInv(q)' /\ BatchInv(q)'
  <2>1. CASE q = p
    BY <1>4, <2>1, HandlerMoves
  <2>2. CASE q # p
    <3>1. /\ UNCHANGED <<unsent, latest>> /\ pending' \subseteq pending
          /\ delivered' \cup pending' = delivered \cup pending
          /\ \A c \in Candidates : received[c] <= received'[c]
          /\ ppc'[q] = ppc[q] /\ seen'[q] = seen[q] /\ batch'[q] = batch[q] /\ rest'[q] = rest[q]
      BY <1>4, <2>2, PollFrame
    <3> QED
      BY <1>1, <3>1, HandlerWaits
  <2> QED
    BY <2>1, <2>2
<1> QED
  BY <1>2, <1>3, <1>4, StepIsOne DEF PollInv

\* Only Mark delivers, and it delivers what a response has carried.
LEMMA DroppedKept ==
  ASSUME ProgressInv, [ProgressNext]_progressVars
  PROVE  NothingDropped'
<1>0. ProgressTypeOK /\ ProgressTypeOK' /\ NothingDropped
  BY TypeKept DEF ProgressInv
<1>1. CASE UNCHANGED progressVars
  BY <1>0, <1>1 DEF progressVars, buffers, NothingDropped
<1>2. CASE ServerStep
  BY <1>0, <1>2, ServerFrame DEF NothingDropped
<1>3. ASSUME NEW p \in Pollers, PollStep(p) PROVE NothingDropped'
  <2>1. \A c \in Candidates : received[c] <= received'[c]
    BY <1>3, PollFrame
  <2>2. \A c \in delivered : received'[c] > 0
    BY <1>0, <2>1 DEF NothingDropped, ProgressTypeOK
  <2>3. CASE delivered' = delivered
    BY <2>2, <2>3 DEF NothingDropped
  <2>4. CASE Mark(p)
    <3>1. delivered' = delivered \cup ToSet(batch[p]) /\ UNCHANGED received /\ ppc[p] = "mark"
      BY <2>4 DEF Mark, MarkDelivered
    <3>2. \A c \in ToSet(batch[p]) : received[c] > 0
      BY <3>1 DEF ProgressInv, PollInv, BatchInv
    <3> QED
      BY <2>2, <3>1, <3>2 DEF NothingDropped
  <2> QED
    BY <1>3, <2>3, <2>4 DEF PollStep, Lookup, Load, Peek, Filter, WriteOk, WriteFails, DeleteEntry, buffers
<1> QED
  BY <1>1, <1>2, <1>3, StepIsOne

\* Only a handler that has served the final message deletes the entry after it.
LEMMA CompleteKept ==
  ASSUME ProgressInv, [ProgressNext]_progressVars
  PROVE  FinalIsComplete'
<1> USE DEF pipeVars, entryVars
<1>0. ProgressTypeOK /\ ProgressTypeOK' /\ ConsumerInv /\ ConsumerInv' /\ FinalIsComplete
  BY TypeKept, MessagesKept DEF ProgressInv
<1>1. CASE UNCHANGED progressVars
  BY <1>0, <1>1 DEF progressVars, FinalIsComplete
<1>2. CASE ServerStep
  <2>1. UNCHANGED received /\ (taken.kind = "final" => unsent' = unsent)
        /\ (taken.kind = "final" /\ consumer = "stopped" => latest' = latest)
    BY <1>2, ServerFrame
  <2>2. CASE consumer = "stopped"
    <3>1. UNCHANGED <<entry, taken>>
      <4>1. CASE PipelineStep
        BY <1>0, <4>1, PipelineFacts
      <4>2. CASE ConsumerStep \/ SilenceTimeout
        BY <2>2, <4>2 DEF ConsumerStep, Receive, AppendPending, StoreLatest, SilenceTimeout
      <4> QED
        BY <1>2, <4>1, <4>2 DEF ServerStep
    <3>2. CASE taken.kind # "final"
      BY <3>1, <3>2 DEF FinalIsComplete
    <3>3. CASE taken.kind = "final"
      <4>1. UNCHANGED <<received, unsent, latest>>
        BY <2>1, <2>2, <3>3
      <4> QED
        BY <1>0, <2>2, <3>1, <3>3, <4>1 DEF FinalIsComplete
    <3> QED
      BY <3>2, <3>3
  <2>3. CASE consumer # "stopped"
    <3>1. entry /\ (taken.kind # "final" \/ consumer = "store")
      <4>1. ~entry => consumer = "stopped"
        BY <1>0 DEF ConsumerInv
      <4>2. taken.kind = "final" => consumer \in {"store", "stopped"}
        BY <1>0 DEF ConsumerInv
      <4> QED
        BY <2>3, <4>1, <4>2
    <3>2. CASE PipelineStep
      BY <1>0, <2>3, <3>1, <3>2, PipelineFacts DEF FinalIsComplete
    <3>3. CASE ConsumerStep
      BY <3>1, <3>3 DEF ConsumerStep, Receive, AppendPending, StoreLatest, FinalIsComplete
    <3>4. CASE SilenceTimeout
      BY <3>1, <3>4 DEF SilenceTimeout, FinalIsComplete
    <3> QED
      BY <1>2, <3>2, <3>3, <3>4 DEF ServerStep
  <2> QED
    BY <2>2, <2>3
<1>3. ASSUME NEW p \in Pollers, PollStep(p) PROVE FinalIsComplete'
  <2>1. UNCHANGED <<unsent, consumer, taken, latest>> /\ \A c \in Candidates : received[c] <= received'[c]
    BY <1>3, PollFrame
  <2>2. latest.candidates \subseteq Candidates /\ Streamed \subseteq Candidates
    BY <1>0, MessageFacts DEF ProgressTypeOK, Candidates
  <2>3. CASE entry' = entry
    BY <1>0, <2>1, <2>2, <2>3 DEF FinalIsComplete, ProgressTypeOK
  <2>4. CASE ppc[p] = "delete"
    <3>1. UNCHANGED received
      BY <1>3, <2>4 DEF PollStep, Lookup, Load, Peek, Filter, WriteOk, WriteFails, Mark, DeleteEntry
    <3>2. seen[p].kind = "final" /\ latest = seen[p]
      BY <2>4 DEF ProgressInv, PollInv, SeenInv
    <3>3. \A c \in (Streamed \ unsent) \cup seen[p].candidates : received[c] > 0
      BY <2>4, <3>2 DEF ProgressInv, PollInv, BatchInv
    <3> QED
      BY <2>1, <3>1, <3>2, <3>3 DEF FinalIsComplete
  <2>5. entry' = entry \/ ppc[p] = "delete"
    BY <1>3 DEF PollStep, Lookup, Load, Peek, Filter, WriteOk, WriteFails, Mark, DeleteEntry
  <2> QED
    BY <2>3, <2>4, <2>5
<1> QED
  BY <1>1, <1>2, <1>3, StepIsOne

\* No step lets a handler send what it could not send before.
LEMMA WaiterSendsLess ==
  ASSUME NEW q, NEW c,
         ppc'[q] = ppc[q], seen'[q] = seen[q], batch'[q] = batch[q], rest'[q] = rest[q],
         delivered \subseteq delivered', entry' => entry, MaySend(q, c)'
  PROVE  MaySend(q, c)
BY DEF MaySend

\* A handler that steps can send no more than before, and nothing twice.
LEMMA MoverSendsLess ==
  ASSUME ProgressInv, NEW p \in Pollers, PollStep(p), NEW c, MaySend(p, c)'
  PROVE  /\ MaySend(p, c)
         /\ WriteOk(p) => c \notin ToSet(batch[p]) \cup rest[p]
<1> USE DEF entryVars, buffers
<1>0. ProgressTypeOK /\ QueueInv /\ SeenInv(p) /\ BatchInv(p)
  BY DEF ProgressInv, PollInv
<1>1. \A pc : PollerGoto(p, pc) => ppc'[p] = pc
  BY <1>0 DEF PollerGoto, ProgressTypeOK
<1>2. CASE Lookup(p)
  <2>1. ppc[p] = "idle" /\ ppc'[p] = (IF entry THEN "load" ELSE "gone") /\ UNCHANGED <<seen, batch, rest, buffers>>
    BY <1>1, <1>2 DEF Lookup
  <2> QED
    BY <1>2, <2>1 DEF MaySend, WriteOk
<1>3. CASE Load(p)
  <2>1. ppc[p] = "load" /\ ppc'[p] = "peek" /\ UNCHANGED <<batch, rest, buffers>>
    BY <1>1, <1>3 DEF Load
  <2> QED
    BY <2>1 DEF MaySend, WriteOk
<1>4. CASE Peek(p)
  <2>1. ppc[p] = "peek" /\ ppc'[p] = "filter" /\ batch'[p] = queue /\ UNCHANGED <<rest, buffers>>
    BY <1>0, <1>1, <1>4 DEF Peek, ProgressTypeOK
  <2>2. ToSet(batch'[p]) = pending /\ pending \cap delivered = {}
    BY <1>0, <2>1 DEF QueueInv
  <2> QED
    BY <2>1, <2>2 DEF MaySend, WriteOk
<1>5. CASE Filter(p)
  <2>1. /\ rest'[p] = seen[p].candidates \ (delivered \cup pending)
        /\ ppc[p] = "filter" /\ ppc'[p] = "write" /\ UNCHANGED <<batch, buffers>>
    BY <1>0, <1>1, <1>5 DEF Filter, Undelivered, ProgressTypeOK
  <2> QED
    BY <2>1 DEF MaySend, WriteOk
<1>6. CASE WriteOk(p)
  <2>1. ppc[p] = "write" /\ ppc'[p] = "mark" /\ UNCHANGED <<seen, batch, rest, buffers>>
    BY <1>1, <1>6 DEF WriteOk
  <2>2. c \notin delivered \cup ToSet(batch[p]) /\ seen[p].kind # "final"
    BY <2>1 DEF MaySend
  <2>3. rest[p] = {}
    BY <1>0, <2>1, <2>2 DEF BatchInv
  <2> QED
    BY <2>1, <2>2, <2>3 DEF MaySend
<1>7. CASE WriteFails(p)
  <2>1. ppc[p] = "write" /\ ppc'[p] = "idle" /\ UNCHANGED <<buffers>>
    BY <1>1, <1>7 DEF WriteFails
  <2>2. ~ WriteOk(p)
    BY <2>1, <1>1 DEF WriteOk
  <2> QED
    BY <2>1, <2>2 DEF MaySend
<1>8. CASE Mark(p)
  <2>1. ppc[p] = "mark" /\ ppc'[p] = (IF seen[p].kind = "final" THEN "delete" ELSE "idle")
    BY <1>1, <1>8 DEF Mark
  <2>2. delivered' = delivered \cup ToSet(batch[p])
    BY <1>8 DEF Mark, MarkDelivered
  <2> QED
    BY <2>1, <2>2 DEF MaySend, WriteOk
<1>9. CASE DeleteEntry(p)
  <2>1. ppc[p] = "delete" /\ ppc'[p] = "idle" /\ entry' = FALSE
    BY <1>1, <1>9 DEF DeleteEntry
  <2> QED
    BY <2>1 DEF MaySend
<1> QED
  BY <1>2, <1>3, <1>4, <1>5, <1>6, <1>7, <1>8, <1>9 DEF PollStep

\* A deleted entry does not come back.
LEMMA EntryGoes ==
  ASSUME ProgressInv, ProgressNext, entry'
  PROVE  entry
<1>0. ProgressTypeOK
  BY DEF ProgressInv
<1>1. CASE PipelineStep
  BY <1>0, <1>1, PipelineFacts DEF entryVars
<1>2. CASE ConsumerStep \/ SilenceTimeout
  BY <1>2 DEF ConsumerStep, Receive, AppendPending, StoreLatest, SilenceTimeout, entryVars
<1>3. CASE \E p \in Pollers : PollStep(p)
  BY <1>3 DEF PollStep, Lookup, Load, Peek, Filter, WriteOk, WriteFails, Mark, DeleteEntry
<1> QED
  BY <1>1, <1>2, <1>3 DEF ProgressNext

\* Every step takes handlers from those that may send a candidate, or none.
LEMMA FewerSenders ==
  ASSUME ProgressInv, ProgressNext, NEW c
  PROVE  Senders(c)' \subseteq Senders(c)
<1> SUFFICES ASSUME NEW q \in Pollers, MaySend(q, c)' PROVE MaySend(q, c)
  BY DEF Senders
<1>0. entry' => entry
  BY EntryGoes
<1>1. CASE ServerStep
  <2>1. ppc'[q] = ppc[q] /\ seen'[q] = seen[q] /\ batch'[q] = batch[q] /\ rest'[q] = rest[q]
        /\ delivered \subseteq delivered'
    BY <1>1, ServerFrame DEF pollVars
  <2> QED
    BY <1>0, <2>1, WaiterSendsLess
<1>2. ASSUME NEW p \in Pollers, PollStep(p), q # p PROVE MaySend(q, c)
  <2>1. ppc'[q] = ppc[q] /\ seen'[q] = seen[q] /\ batch'[q] = batch[q] /\ rest'[q] = rest[q]
        /\ delivered \subseteq delivered'
    BY <1>2, PollFrame
  <2> QED
    BY <1>0, <2>1, WaiterSendsLess
<1>3. ASSUME NEW p \in Pollers, PollStep(p), q = p PROVE MaySend(q, c)
  BY <1>3, MoverSendsLess
<1> QED
  BY <1>1, <1>2, <1>3 DEF ProgressNext, ServerStep

\* The handlers that may send a candidate can be counted.
LEMMA SendersFinite ==
  ASSUME NEW c
  PROVE  IsFiniteSet(Senders(c)) /\ Cardinality(Senders(c)) \in Nat
<1>1. Senders(c) \subseteq Pollers
  BY DEF Senders
<1> QED
  BY <1>1, AsyncProgressAssumption, FS_Subset, FS_CardinalityType

\* A response that carries a candidate costs one of those handlers.
LEMMA SpentKept ==
  ASSUME ProgressInv, [ProgressNext]_progressVars
  PROVE  SpentInv'
<1>0. ProgressTypeOK /\ SpentInv
  BY DEF ProgressInv
<1>1. CASE UNCHANGED progressVars
  BY <1>0, <1>1 DEF progressVars, entryVars, buffers, pollVars, SpentInv, Senders, MaySend
<1> SUFFICES ASSUME ProgressNext, NEW c \in Candidates
             PROVE  received'[c] + Cardinality(Senders(c)') <= Cardinality(Pollers)
  BY <1>1 DEF SpentInv
<1>2. PICK r, s : r = Senders(c) /\ s = Senders(c)'
  OBVIOUS
<1>3. /\ s \subseteq r /\ IsFiniteSet(r)
      /\ received[c] \in Nat /\ Cardinality(r) \in Nat /\ Cardinality(Pollers) \in Nat
      /\ received[c] + Cardinality(r) <= Cardinality(Pollers)
  BY <1>0, <1>2, FewerSenders, SendersFinite, AsyncProgressAssumption, FS_CardinalityType
     DEF SpentInv, ProgressTypeOK
<1>4. Cardinality(s) \in Nat /\ Cardinality(s) <= Cardinality(r)
  BY <1>3, FS_Subset, FS_CardinalityType
<1>5. CASE received'[c] = received[c]
  BY <1>2, <1>3, <1>4, <1>5
<1>6. ASSUME NEW p \in Pollers, PollStep(p), WriteOk(p), c \in ToSet(batch[p]) \cup rest[p]
      PROVE  received'[c] + Cardinality(s) <= Cardinality(Pollers)
  <2>1. ppc[p] = "write"
    BY <1>6 DEF WriteOk
  <2>2. rest[p] \cap ToSet(batch[p]) = {}
    BY <2>1 DEF ProgressInv, PollInv, BatchInv
  <2>3. received'[c] = received[c] + 1
    BY <1>3, <1>6, <2>2 DEF WriteOk
  <2>4. p \in r
    BY <1>2, <1>6, <2>1 DEF Senders, MaySend
  <2>5. p \notin s
    BY <1>2, <1>6, MoverSendsLess DEF Senders
  <2>6. s \subseteq r \ {p}
    BY <1>3, <2>5
  <2>7. Cardinality(r \ {p}) = Cardinality(r) - 1 /\ IsFiniteSet(r \ {p})
    BY <1>3, <2>4, FS_RemoveElement
  <2>8. Cardinality(s) <= Cardinality(r) - 1
    BY <2>6, <2>7, FS_Subset
  <2> QED
    BY <1>3, <1>4, <2>3, <2>8
<1>7. received'[c] = received[c]
      \/ \E p \in Pollers : PollStep(p) /\ WriteOk(p) /\ c \in ToSet(batch[p]) \cup rest[p]
  <2>1. CASE ServerStep
    BY <2>1, ServerFrame
  <2>2. ASSUME NEW p \in Pollers, PollStep(p), WriteOk(p), c \notin ToSet(batch[p]) \cup rest[p]
        PROVE  received'[c] = received[c]
    BY <1>3, <2>2 DEF WriteOk
  <2>3. ASSUME NEW p \in Pollers, PollStep(p), ~WriteOk(p) PROVE received'[c] = received[c]
    BY <2>3 DEF PollStep, Lookup, Load, Peek, Filter, WriteFails, Mark, DeleteEntry
  <2> QED
    BY <2>1, <2>2, <2>3 DEF ProgressNext, ServerStep
<1> QED
  BY <1>2, <1>5, <1>6, <1>7

\* A request starts with an empty queue, and possibly with its error.
LEMMA ProgressInvInit == ProgressInit => ProgressInv
<1> SUFFICES ASSUME ProgressInit PROVE ProgressInv
  OBVIOUS
<1> USE DEF ProgressInit
<1>1. Final({}) \in Messages /\ Final({}).kind = "final" /\ Final({}).candidates = {}
  BY MessageFacts
<1>2. /\ latest \in Messages /\ latest.kind \in {"report", "final"} /\ latest.candidates = {}
      /\ taken = latest /\ (latest.kind = "final" <=> consumer = "stopped")
      /\ consumer \in {"select", "stopped"}
  BY <1>1, MessageFacts
<1>3. ProgressTypeOK
  <2>1. seen \in [Pollers -> Messages] /\ batch \in [Pollers -> Seq(Candidates)]
    BY MessageFacts, EmptySeq
  <2> QED
    BY <1>2, <2>1, AsyncProgressAssumption DEF ProgressTypeOK
<1>4. QueueInv
  BY DEF QueueInv, IsInjective, ToSet
<1>5. ReporterInv
  <2>1. Len(reporter) = 0
    OBVIOUS
  <2> QED
    BY <2>1 DEF ReporterInv
<1>6. ConsumerInv
  <2>1. taken.kind = "final" => finished
    BY MessageFacts
  <2> QED
    BY <1>2, <2>1 DEF ConsumerInv
<1>7. FlowInv
  BY DEF FlowInv
<1>8. PollInv
  BY MessageFacts DEF PollInv, SeenInv, BatchInv
<1>9. NothingDropped /\ FinalIsComplete
  BY DEF NothingDropped, FinalIsComplete
<1>10. SpentInv
  <2> SUFFICES ASSUME NEW c \in Candidates
               PROVE  received[c] + Cardinality(Senders(c)) <= Cardinality(Pollers)
    BY DEF SpentInv
  <2>1. Senders(c) \subseteq Pollers /\ received[c] = 0
    BY DEF Senders
  <2>2. Cardinality(Senders(c)) <= Cardinality(Pollers)
    BY <2>1, AsyncProgressAssumption, FS_Subset
  <2> QED
    BY <2>1, <2>2, SendersFinite
<1> QED
  BY <1>3, <1>4, <1>5, <1>6, <1>7, <1>8, <1>9, <1>10 DEF ProgressInv

\* The inductive invariant of a request.
LEMMA ProgressInductive == ProgressSpec => []ProgressInv
<1>1. ProgressInv /\ [ProgressNext]_progressVars => ProgressInv'
  BY TypeKept, QueueKept, MessagesKept, FlowKept, PollKept, DroppedKept, CompleteKept, SpentKept
     DEF ProgressInv
<1> QED
  BY <1>1, ProgressInvInit, PTL DEF ProgressSpec

\* However many polls overlap, fail and are repeated, a candidate is sent at most
\* once by each of the handlers that were in flight together.
THEOREM CandidatesSentOnce == ProgressSpec => []DeliveredOnce
<1>1. ProgressInv => DeliveredOnce
  <2> SUFFICES ASSUME ProgressInv, NEW c \in Candidates PROVE received[c] <= Cardinality(Pollers)
    BY DEF DeliveredOnce
  <2>1. received[c] + Cardinality(Senders(c)) <= Cardinality(Pollers) /\ received[c] \in Nat
    BY DEF ProgressInv, SpentInv, ProgressTypeOK
  <2>2. Cardinality(Pollers) \in Nat
    BY AsyncProgressAssumption, FS_CardinalityType
  <2> QED
    BY <2>1, <2>2, SendersFinite
<1> QED
  BY <1>1, ProgressInductive, PTL

\* Nothing streamed is lost on the way from the pipeline to a written response, and
\* the queue agrees with its index sets.
THEOREM CandidatesAreKept == ProgressSpec => []CandidatesKept
<1>1. ProgressInv => CandidatesKept
  <2> SUFFICES ASSUME ProgressInv PROVE QueueMatchesIndices
    BY DEF ProgressInv, CandidatesKept
  <2>1. queue \in Seq(Candidates) /\ QueueInv
    BY DEF ProgressInv, ProgressTypeOK
  <2>2. Len(queue) = Cardinality(ToSet(queue))
    BY <2>1, QueueLength DEF QueueInv
  <2> QED
    BY <2>1, <2>2 DEF QueueInv, QueueMatchesIndices
<1> QED
  BY <1>1, ProgressInductive, PTL

\* The channel, the goroutine, the entry and the handlers keep their types.
THEOREM ProgressTypeCorrect == ProgressSpec => []ProgressTypeOK
<1>1. ProgressInv => ProgressTypeOK
  BY DEF ProgressInv
<1> QED
  BY <1>1, ProgressInductive, PTL
=============================================================================
