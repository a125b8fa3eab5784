------------------------ MODULE ReforgePrepass_proofs ------------------------
(***************************************************************************)
(* Proofs about ReforgePrepass for any number of workers, candidates and   *)
(* gears and any capacities.  No gear is solved twice and its candidates   *)
(* end alike (SolvedOnce), the client gets every optimized candidate once  *)
(* (StreamedOnce), and the simulation every gear (NothingSimmedTwice).     *)
(*                                                                         *)
(* The inductive invariant has six parts.  TaskInv: the channel hands out  *)
(* positions in their order, so that no two workers have one.  FlightInv:  *)
(* the entry of inFlightByKey belongs to the worker that solves the key,   *)
(* which makes solves of one key exclusive.  OnceInv: without an abort the *)
(* entry goes only after the cache has the answer.  VerdictInv: what a     *)
(* worker found is what the cache says, unless the solve was aborted.      *)
(* StreamInv: an optimized candidate is in the batch, in the hand of one   *)
(* worker, or streamed.  FeedInv: what was fed is in the channel, with a   *)
(* worker, or completed.  SimmedInv is about what Start and Conclude hand  *)
(* on.                                                                     *)
(***************************************************************************)
EXTENDS ReforgePrepass, SequenceTheorems, FiniteSetTheorems, TLAPS

WorkerPCs == {"take", "lookup", "enter", "await", "solve", "store",
              "publish", "drop", "complete", "emit", "gone"}

Types ==
  /\ request \in Seq(Gears \cup {NoGear})
  /\ mpc \in {"start", "feed", "wait", "conclude", "done"}
  /\ fed \in Nat
  /\ jobs \in Seq(Candidates)
  /\ wpc \in [Workers -> WorkerPCs]
  /\ task \in [Workers -> Candidates \cup {0}]
  /\ found \in [Workers -> Answers]
  /\ awaits \in [Workers -> Candidates \cup {0}]
  /\ hand \in [Workers -> SUBSET Candidates]
  /\ cached \subseteq Gears
  /\ answer \in [Gears -> Answers]
  /\ inFlight \in [Gears -> Candidates \cup {0}]
  /\ solve \in [Positions -> [done : BOOLEAN, gear : Answers]]
  /\ gear \in [Positions -> Answers]
  /\ completed \subseteq Candidates
  /\ optimized \subseteq completed
  /\ batch \subseteq optimized
  /\ abort \in BOOLEAN
  /\ streamed \in [Positions -> Nat]
  /\ solves \in [Gears -> Nat]

NoTask == {"take", "emit", "gone"}

TaskInv ==
  /\ \A w \in Workers : wpc[w] \in NoTask <=> task[w] = 0
  /\ \A w, v \in Workers : task[w] = task[v] /\ task[w] # 0 => w = v
  /\ \A i, j \in 1..Len(jobs) : i < j => jobs[i] < jobs[j]
  /\ \A i \in 1..Len(jobs) : jobs[i] <= fed
  /\ \A w \in Workers : task[w] <= fed /\ \A i \in 1..Len(jobs) : task[w] < jobs[i]
  /\ \A p \in completed : p <= fed /\ \A i \in 1..Len(jobs) : p < jobs[i]
  /\ \A w \in Workers : task[w] \notin completed

Owning == {"solve", "store", "publish", "drop"}

FlightInv ==
  /\ \A w \in Workers : wpc[w] \in Owning => inFlight[Key(w)] = task[w]
  /\ \A w \in Workers : wpc[w] \in {"solve", "store"} => Key(w) \notin cached
  /\ \A g \in Gears : inFlight[g] # 0 => request[inFlight[g]] = g
  /\ \A w \in Workers : wpc[w] = "await" => awaits[w] # 0 /\ request[awaits[w]] = Key(w)

OnceInv ==
  \A g \in Gears :
    ~abort => /\ solves[g] <= 1
              /\ g \notin cached /\ inFlight[g] = 0 => solves[g] = 0

\* What a solve of g that was not aborted came to is what the cache holds.
Verdict(g, x) == x # NoGear \/ ~abort => g \in cached /\ answer[g] = x

VerdictInv ==
  /\ \A w \in Workers : wpc[w] \in {"publish", "drop", "complete"} => Verdict(Key(w), found[w])
  /\ \A w \in Workers : wpc[w] = "store" => found[w] \in {NoGear, Reforged[Key(w)]}
  /\ \A g \in cached : answer[g] \in {NoGear, Reforged[g]}
  /\ \A p \in Candidates : solve[p].done => Verdict(request[p], solve[p].gear)
  /\ \A p \in completed :
       /\ request[p] \in cached
       /\ p \in optimized <=> answer[request[p]] # NoGear
       /\ p \in optimized => gear[p] = answer[request[p]]
  /\ \A p \in Candidates \ optimized : gear[p] = request[p]

StreamInv ==
  /\ \A w \in Workers : wpc[w] # "emit" => hand[w] = {}
  /\ \A w \in Workers : hand[w] \cap batch = {} /\ hand[w] \subseteq optimized
  /\ \A w, v \in Workers : hand[w] \cap hand[v] # {} => w = v
  /\ \A p \in Positions :
       /\ streamed[p] \in {0, 1}
       /\ streamed[p] = 1 => p \in optimized
       /\ p \in optimized => (streamed[p] = 0 <=> p \in batch \/ \E w \in Workers : p \in hand[w])
  /\ mpc \in {"conclude", "done"} =>
       Candidates = {} \/ (batch = {} /\ \A w \in Workers : wpc[w] = "gone")

FeedInv ==
  /\ fed <= Len(request)
  /\ mpc \in {"wait", "conclude", "done"} => abort \/ Candidates = {} \/ fed = Len(request)
  /\ \A p \in Candidates : p <= fed =>
       \/ abort \/ p \in completed
       \/ \E i \in 1..Len(jobs) : jobs[i] = p
       \/ \E w \in Workers : task[w] = p
  /\ \A w \in Workers : wpc[w] = "gone" => jobs = <<>> /\ mpc \notin {"start", "feed"}

IInv == Types /\ TaskInv /\ FlightInv /\ OnceInv /\ VerdictInv /\ StreamInv /\ FeedInv

SimmedInv ==
  /\ simmed \in Seq(Gears)
  /\ mpc = "done" =>
       /\ IsInjective(simmed) /\ Baseline \notin ToSet(simmed)
       /\ abort \/ {gear[p] : p \in completed} \cup ToSet(Restored)
                     \subseteq ToSet(simmed) \cup {Baseline}

-----------------------------------------------------------------------------
(* A step, without what the pre-pass hands on to the simulation: the        *)
(* invariant does not speak of simmed.  A composition that aborts this half *)
(* in a wider range of states takes such steps, too (BulkJob_proofs).       *)

StartControl ==
  /\ mpc = "start" /\ mpc' \in {"feed", "done"}
  /\ mpc' = "done" => Candidates = {}
  /\ UNCHANGED <<fed, jobs, workVars, cacheVars, accVars, abort, streamed>>

ConcludeControl ==
  /\ mpc = "conclude" /\ mpc' = "done"
  /\ UNCHANGED <<fed, jobs, workVars, cacheVars, accVars, abort, streamed>>

MainControl ==
  (StartControl \/ Feed \/ CloseJobs \/ Flush \/ ConcludeControl) /\ UNCHANGED request

AbortControl ==
  /\ abort' = TRUE
  /\ UNCHANGED <<request, mpc, fed, jobs, workVars, cacheVars, accVars, streamed>>

controlVars == <<request, mpc, fed, jobs, workVars, cacheVars, accVars, abort, streamed>>

Control == MainControl \/ (\E w \in Workers : WorkerStep(w)) \/ AbortControl

\* Every step of the specification is one of the control, or leaves it alone.
LEMMA ControlSteps == [Next]_vars => [Control]_controlVars
<1>1. MainStep => MainControl
  <2>1. Start => StartControl
    BY DEF Start, StartControl
  <2>2. Conclude => ConcludeControl
    BY DEF Conclude, ConcludeControl
  <2> QED
    BY <2>1, <2>2 DEF MainStep, MainControl
<1>2. Abort => AbortControl
  BY DEF Abort, AbortControl, mainVars
<1>3. UNCHANGED vars => UNCHANGED controlVars
  BY DEF vars, controlVars, mainVars
<1> QED
  BY <1>1, <1>2, <1>3 DEF Next, Control

-----------------------------------------------------------------------------
(* What is picked from a sequence.                                          *)

\* The positions of a finite set in their order are all of them, each once.
LEMMA InOrderFacts ==
  ASSUME NEW S \in SUBSET Nat, IsFiniteSet(S)
  PROVE  /\ Cardinality(S) \in Nat
         /\ InOrder(S) \in [1..Cardinality(S) -> S]
         /\ \A i \in 1..Cardinality(S) : Rank(S, InOrder(S)[i]) = i - 1
         /\ \A i, j \in 1..Cardinality(S) : InOrder(S)[i] = InOrder(S)[j] => i = j
         /\ \A p \in S : \E i \in 1..Cardinality(S) : InOrder(S)[i] = p
<1>0. PICK n \in Nat : n = Cardinality(S)
  BY FS_CardinalityType
<1>1. ASSUME NEW p \in S PROVE Rank(S, p) \in 0..(n - 1)
  <2>1. {q \in S : q < p} \in SUBSET S /\ p \notin {q \in S : q < p}
    OBVIOUS
  <2>2. /\ IsFiniteSet({q \in S : q < p})
        /\ Cardinality({q \in S : q < p}) <= n
        /\ Cardinality({q \in S : q < p}) # n
    BY <1>0, <2>1, FS_Subset
  <2>3. Cardinality({q \in S : q < p}) \in Nat
    BY <2>2, FS_CardinalityType
  <2> QED
    BY <2>2, <2>3 DEF Rank
<1>2. ASSUME NEW p \in S, NEW q \in S, p < q PROVE Rank(S, p) < Rank(S, q)
  <2>1. PICK a, b : a = {r \in S : r < p} /\ b = {r \in S : r < q}
    OBVIOUS
  <2>2. b \in SUBSET S /\ a \in SUBSET b /\ p \in b /\ p \notin a
    <3>1. p \in Nat /\ q \in Nat /\ \A r \in S : r \in Nat
      OBVIOUS
    <3>2. \A r \in S : r < p => r < q
      BY <1>2, <3>1
    <3>3. ~ (p < p)
      BY <3>1
    <3> QED
      BY <1>2, <2>1, <3>2, <3>3
  <2>3. IsFiniteSet(b)
    BY <2>2, FS_Subset
  <2>4. Cardinality(a) <= Cardinality(b) /\ Cardinality(a) # Cardinality(b)
    BY <2>2, <2>3, FS_Subset
  <2>5. Rank(S, p) = Cardinality(a) /\ Rank(S, q) = Cardinality(b)
    BY <2>1 DEF Rank
  <2> QED
    BY <1>1, <2>4, <2>5
<1>3. PICK f : f = [p \in S |-> Rank(S, p)]
  OBVIOUS
<1>4. f \in Injection(S, 0..(n - 1))
  <2>1. ASSUME NEW p \in S, NEW q \in S, f[p] = f[q] PROVE p = q
    <3>1. Rank(S, p) = Rank(S, q)
      BY <1>3, <2>1
    <3>2. ~ (p < q) /\ ~ (q < p)
      BY <1>1, <1>2, <3>1
    <3> QED
      BY <3>2
  <2> QED
    BY <1>1, <1>3, <2>1 DEF Injection, IsInjective
<1>5. IsFiniteSet(0..(n - 1)) /\ Cardinality(0..(n - 1)) = n
  BY FS_Interval
<1>6. f \in Surjection(S, 0..(n - 1))
  BY <1>0, <1>4, <1>5, FS_Injection
<1>7. ASSUME NEW i \in 1..n PROVE InOrder(S)[i] \in S /\ Rank(S, InOrder(S)[i]) = i - 1
  <2>1. i - 1 \in 0..(n - 1)
    OBVIOUS
  <2>2. \E p \in S : Rank(S, p) = i - 1
    BY <1>3, <1>6, <2>1 DEF Surjection
  <2>3. InOrder(S)[i] = CHOOSE p \in S : Rank(S, p) = i - 1
    BY <1>0 DEF InOrder
  <2> QED
    BY <2>2, <2>3
<1>8. ASSUME NEW i \in 1..n, NEW j \in 1..n, InOrder(S)[i] = InOrder(S)[j] PROVE i = j
  BY <1>7, <1>8
<1>9. ASSUME NEW p \in S PROVE \E i \in 1..n : InOrder(S)[i] = p
  <2>1. PICK k \in 0..(n - 1) : k = Rank(S, p)
    BY <1>1
  <2>2. k + 1 \in 1..n /\ (k + 1) - 1 = k
    OBVIOUS
  <2>3. InOrder(S)[k + 1] \in S /\ f[InOrder(S)[k + 1]] = f[p]
    BY <1>3, <1>7, <2>1, <2>2
  <2> QED
    BY <1>4, <2>2, <2>3 DEF Injection, IsInjective
<1> QED
  BY <1>0, <1>7, <1>8, <1>9 DEF InOrder

\* What is picked is what the places hold, once each if they hold different things.
LEMMA PickFacts ==
  ASSUME NEW S \in SUBSET Nat, IsFiniteSet(S), NEW T, NEW f, \A p \in S : f[p] \in T
  PROVE  /\ Pick(f, S) \in Seq(T)
         /\ ToSet(Pick(f, S)) = {f[p] : p \in S}
         /\ (\A p, q \in S : f[p] = f[q] => p = q) => IsInjective(Pick(f, S))
<1>0. PICK n \in Nat : n = Cardinality(S)
  BY InOrderFacts
<1>o. PICK o : o = InOrder(S)
  OBVIOUS
<1>1. /\ o \in [1..n -> S]
      /\ \A i, j \in 1..n : o[i] = o[j] => i = j
      /\ \A p \in S : \E i \in 1..n : o[i] = p
  BY <1>0, <1>o, InOrderFacts
<1>2. Pick(f, S) = [i \in 1..n |-> f[o[i]]]
  BY <1>0, <1>o DEF Pick
<1>3. \A i \in 1..n : f[o[i]] \in T
  BY <1>1
<1>4. Pick(f, S) \in Seq(T)
  BY <1>2, <1>3
<1>5. DOMAIN Pick(f, S) = 1..n /\ \A i \in 1..n : Pick(f, S)[i] = f[o[i]] /\ o[i] \in S
  BY <1>1, <1>2
<1>6. ToSet(Pick(f, S)) = {f[p] : p \in S}
  <2>1. ToSet(Pick(f, S)) = {Pick(f, S)[i] : i \in 1..n}
    BY <1>5 DEF ToSet
  <2>2. ASSUME NEW i \in 1..n PROVE Pick(f, S)[i] \in {f[p] : p \in S}
    BY <1>5
  <2>3. ASSUME NEW p \in S PROVE f[p] \in {Pick(f, S)[i] : i \in 1..n}
    BY <1>1, <1>5
  <2> QED
    BY <2>1, <2>2, <2>3
<1>7. ASSUME \A p, q \in S : f[p] = f[q] => p = q PROVE IsInjective(Pick(f, S))
  <2> SUFFICES ASSUME NEW i \in 1..n, NEW j \in 1..n, Pick(f, S)[i] = Pick(f, S)[j] PROVE i = j
    BY <1>5 DEF IsInjective
  <2>1. o[i] \in S /\ o[j] \in S /\ f[o[i]] = f[o[j]]
    BY <1>5
  <2>2. o[i] = o[j]
    BY <1>7, <2>1, Zenon
  <2> QED
    BY <1>1, <2>2
<1> QED
  BY <1>4, <1>6, <1>7

\* A finite set of numbers that is not empty has a least one.
LEMMA LeastOf ==
  ASSUME NEW I \in SUBSET Nat, IsFiniteSet(I), I # {}
  PROVE  \E m \in I : \A k \in I : ~ (k < m)
<1>1. Cardinality(I) \in Nat /\ Cardinality(I) # 0
  BY FS_CardinalityType, FS_EmptySet
<1>2. PICK m \in I : Rank(I, m) = 0
  <2>1. 1 \in 1..Cardinality(I) /\ 1 - 1 = 0
    BY <1>1
  <2> QED
    BY <2>1, InOrderFacts
<1>3. {q \in I : q < m} = {}
  <2>1. IsFiniteSet({q \in I : q < m})
    BY FS_Subset
  <2> QED
    BY <1>2, <2>1, FS_EmptySet DEF Rank
<1> QED
  BY <1>3

\* Whatever occurs in a sequence occurs first somewhere.
LEMMA FirstsFacts ==
  ASSUME NEW T, NEW s \in Seq(T)
  PROVE  /\ Firsts(s) \in SUBSET (1..Len(s)) /\ IsFiniteSet(Firsts(s))
         /\ \A i, j \in Firsts(s) : s[i] = s[j] => i = j
         /\ \A i \in 1..Len(s) : \E k \in Firsts(s) : s[k] = s[i]
<1>0. DOMAIN s = 1..Len(s) /\ Len(s) \in Nat
  BY LenProperties
<1>1. Firsts(s) \in SUBSET (1..Len(s))
  BY <1>0 DEF Firsts
<1>2. IsFiniteSet(1..Len(s))
  BY <1>0, FS_Interval
<1>3. IsFiniteSet(Firsts(s))
  BY <1>1, <1>2, FS_Subset
<1>4. ASSUME NEW i \in Firsts(s), NEW j \in Firsts(s), s[i] = s[j] PROVE i = j
  <2>1. ~ (i < j) /\ ~ (j < i)
    BY <1>0, <1>4 DEF Firsts
  <2> QED
    BY <1>1, <2>1
<1>5. ASSUME NEW i \in 1..Len(s) PROVE \E k \in Firsts(s) : s[k] = s[i]
  <2>1. PICK I : I = {k \in 1..Len(s) : s[k] = s[i]}
    OBVIOUS
  <2>2. I \subseteq Nat /\ I # {} /\ IsFiniteSet(I)
    BY <1>0, <1>2, <2>1, FS_Subset
  <2>3. PICK m \in I : \A k \in I : ~ (k < m)
    BY <2>2, LeastOf
  <2>4. m \in Firsts(s)
    BY <1>0, <2>1, <2>3 DEF Firsts
  <2> QED
    BY <2>1, <2>4
<1> QED
  BY <1>1, <1>3, <1>4, <1>5

\* The deduplicated gears are gears, each once, all but the baseline's.
LEMMA DedupeFacts ==
  ASSUME NEW s \in Seq(Gears)
  PROVE  /\ Dedupe(s) \in Seq(Gears)
         /\ IsInjective(Dedupe(s)) /\ Baseline \notin ToSet(Dedupe(s))
         /\ ToSet(s) \subseteq ToSet(Dedupe(s)) \cup {Baseline}
<1>0. PICK S : S = {i \in Firsts(s) : s[i] # Baseline}
  OBVIOUS
<1>1. DOMAIN s = 1..Len(s) /\ Len(s) \in Nat
  BY LenProperties
<1>2. /\ Firsts(s) \in SUBSET (1..Len(s)) /\ IsFiniteSet(Firsts(s))
      /\ \A i, j \in Firsts(s) : s[i] = s[j] => i = j
      /\ \A i \in 1..Len(s) : \E k \in Firsts(s) : s[k] = s[i]
  BY FirstsFacts
<1>3. S \in SUBSET Firsts(s) /\ S \in SUBSET Nat
  BY <1>0, <1>1, <1>2
<1>4. IsFiniteSet(S)
  BY <1>2, <1>3, FS_Subset
<1>5. \A i \in S : s[i] \in Gears
  BY <1>1, <1>2, <1>3, ElementOfSeq
<1>6. /\ Dedupe(s) \in Seq(Gears)
      /\ ToSet(Dedupe(s)) = {s[i] : i \in S}
      /\ IsInjective(Dedupe(s))
  <2>1. Dedupe(s) = Pick(s, S)
    BY <1>0 DEF Dedupe
  <2>2. \A i, j \in S : s[i] = s[j] => i = j
    BY <1>2, <1>3
  <2>3. /\ Pick(s, S) \in Seq(Gears)
        /\ ToSet(Pick(s, S)) = {s[i] : i \in S}
        /\ (\A i, j \in S : s[i] = s[j] => i = j) => IsInjective(Pick(s, S))
    BY <1>3, <1>4, <1>5, PickFacts
  <2> QED
    BY <2>1, <2>2, <2>3
<1>7. Baseline \notin ToSet(Dedupe(s))
  BY <1>0, <1>6
<1>8. ToSet(s) \subseteq ToSet(Dedupe(s)) \cup {Baseline}
  <2> SUFFICES ASSUME NEW i \in 1..Len(s), s[i] # Baseline PROVE s[i] \in {s[k] : k \in S}
    BY <1>1, <1>6 DEF ToSet
  <2>1. PICK k \in Firsts(s) : s[k] = s[i]
    BY <1>2
  <2> QED
    BY <1>0, <2>1
<1> QED
  BY <1>6, <1>7, <1>8

-----------------------------------------------------------------------------
\* A candidate is a position other than 0, and its gear one of Gears.
LEMMA CandidateFacts ==
  ASSUME Types
  PROVE  /\ \A p \in Candidates : p \in Nat \ {0} /\ p \in Positions /\ request[p] \in Gears
         /\ 0 \notin Candidates
BY DEF Types, Candidates, Positions

\* What is fed, worked on and completed are numbers.
LEMMA Numbers ==
  ASSUME Types
  PROVE  /\ Len(jobs) \in Nat /\ \A i \in 1..Len(jobs) : jobs[i] \in Nat \ {0}
         /\ \A w \in Workers : task[w] \in Nat
         /\ \A p \in completed : p \in Nat
<1>1. \A i \in 1..Len(jobs) : jobs[i] \in Candidates
  BY ElementOfSeq DEF Types
<1>2. Len(jobs) \in Nat
  BY LenProperties DEF Types
<1> QED
  BY <1>1, <1>2, CandidateFacts DEF Types

\* Every step leaves the request alone.
LEMMA RequestKept ==
  ASSUME [Control]_controlVars
  PROVE  request' = request /\ Positions' = Positions /\ Candidates' = Candidates
<1>1. request' = request
  BY DEF Control, controlVars, MainControl, WorkerStep, AbortControl
<1> QED
  BY <1>1 DEF Positions, Candidates

\* A worker that is busy works on a candidate.
LEMMA BusyFacts ==
  ASSUME Types, TaskInv, NEW w \in Workers, wpc[w] \notin NoTask
  PROVE  task[w] \in Candidates /\ Key(w) \in Gears /\ task[w] \in Positions
<1>1. task[w] \in Candidates
  BY DEF Types, TaskInv
<1> QED
  BY <1>1, CandidateFacts DEF Key

\* The channel hands its positions out in their order.
LEMMA TakeFacts ==
  ASSUME Types, TaskInv, jobs # <<>>
  PROVE  /\ Head(jobs) \in Candidates /\ Head(jobs) = jobs[1]
         /\ Tail(jobs) \in Seq(Candidates)
         /\ Len(Tail(jobs)) = Len(jobs) - 1
         /\ \A i \in 1..Len(Tail(jobs)) : Tail(jobs)[i] = jobs[i + 1] /\ i + 1 \in 1..Len(jobs)
         /\ 1 \in 1..Len(jobs)
<1>1. jobs \in Seq(Candidates) /\ Len(jobs) \in Nat \ {0}
  BY EmptySeq DEF Types
<1> QED
  BY <1>1, HeadTailProperties

\* A function to T that is given another value of T.
LEMMA ExceptType ==
  ASSUME NEW S, NEW T, NEW f \in [S -> T], NEW k, NEW x \in T
  PROVE  [f EXCEPT ![k] = x] \in [S -> T]
OBVIOUS

-----------------------------------------------------------------------------
(* The types.                                                               *)

\* The steps of the main goroutine (bulk.go: the feeding of the jobs and the last flush)
\* keep the types.
LEMMA MainTypes ==
  ASSUME Types, TaskInv, StreamInv, MainControl
  PROVE  Types'
<1> USE DEF Types
<1>1. request' = request /\ Positions' = Positions /\ Candidates' = Candidates
  BY RequestKept DEF Control
<1>2. CASE StartControl
  BY <1>1, <1>2 DEF StartControl, workVars, cacheVars, accVars
<1>3. CASE Feed
  <2>1. fed' = fed + 1 /\ fed' \in Nat
    BY <1>3 DEF Feed
  <2>2. jobs' \in Seq(Candidates)
    <3>1. CASE fed' \in Candidates
      <4>1. jobs' = Append(jobs, fed')
        BY <1>3, <3>1 DEF Feed
      <4> QED
        BY <3>1, <4>1, AppendProperties
    <3>2. CASE fed' \notin Candidates
      BY <1>3, <3>2 DEF Feed
    <3> QED
      BY <3>1, <3>2
  <2> QED
    BY <1>1, <1>3, <2>1, <2>2 DEF Feed, workVars, cacheVars, accVars
<1>4. CASE CloseJobs
  BY <1>1, <1>4 DEF CloseJobs, workVars, cacheVars, accVars
<1>5. CASE Flush
  <2>1. streamed' \in [Positions -> Nat]
    BY <1>5 DEF Flush, Stream
  <2> QED
    BY <1>1, <1>5, <2>1 DEF Flush, workVars, cacheVars
<1>6. CASE ConcludeControl
  BY <1>1, <1>6 DEF ConcludeControl, workVars, cacheVars, accVars
<1> QED
  BY <1>2, <1>3, <1>4, <1>5, <1>6 DEF MainControl

\* So do the steps of the workers.
LEMMA WorkerTypes ==
  ASSUME Types, TaskInv, FlightInv, StreamInv, NEW w \in Workers, WorkerStep(w)
  PROVE  Types'
<1> USE DEF Types
<1>1. request' = request /\ Positions' = Positions /\ Candidates' = Candidates
      /\ UNCHANGED <<mpc, fed, simmed, abort>>
  BY RequestKept DEF Control, WorkerStep, mainVars
<1>2. /\ \A p \in Candidates : p \in Positions /\ request[p] \in Gears
      /\ wpc[w] \notin NoTask => task[w] \in Candidates /\ Key(w) \in Gears
  BY BusyFacts, CandidateFacts
<1>3. CASE Take(w)
  <2>1. jobs' = Tail(jobs) /\ jobs' \in Seq(Candidates) /\ Head(jobs) \in Candidates
    BY <1>3, TakeFacts DEF Take
  <2>2. task' \in [Workers -> Candidates \cup {0}]
    <3>1. task' = task \/ task' = [task EXCEPT ![w] = Head(jobs)]
      BY <1>3 DEF Take
    <3>2. [task EXCEPT ![w] = Head(jobs)] \in [Workers -> Candidates \cup {0}]
      BY <2>1
    <3> QED
      BY <3>1, <3>2
  <2>3. wpc' \in [Workers -> WorkerPCs]
    <3>1. wpc' = wpc \/ wpc' = [wpc EXCEPT ![w] = "lookup"]
      BY <1>3 DEF Take, Goto
    <3> QED
      BY <3>1 DEF WorkerPCs
  <2> QED
    BY <1>1, <1>3, <2>1, <2>2, <2>3 DEF Take, cacheVars, accVars
<1>4. CASE Leave(w)
  BY <1>1, <1>4 DEF Leave, Goto, WorkerPCs, cacheVars, accVars
<1>5. CASE Lookup(w)
  <2>1. wpc' \in [Workers -> WorkerPCs]
    BY <1>5 DEF Lookup, Answered, Goto, WorkerPCs
  <2>2. found' \in [Workers -> Answers]
    BY <1>2, <1>5 DEF Lookup, Answered, NoTask
  <2> QED
    BY <1>1, <1>5, <2>1, <2>2 DEF Lookup, cacheVars, accVars
<1>6. CASE Enter(w)
  <2>1. wpc' \in [Workers -> WorkerPCs]
    BY <1>6 DEF Enter, Answered, Goto, WorkerPCs
  <2>2. found' \in [Workers -> Answers] /\ awaits' \in [Workers -> Candidates \cup {0}]
    <3>1. CASE Key(w) \in cached
      BY <1>2, <1>6, <3>1 DEF Enter, Answered, NoTask
    <3>2. CASE Key(w) \notin cached
      BY <1>2, <1>6, <3>2 DEF Enter, NoTask
    <3> QED
      BY <3>1, <3>2
  <2>3. inFlight' \in [Gears -> Candidates \cup {0}] /\ solves' \in [Gears -> Nat]
    <3>1. solves' \in [Gears -> Nat]
      BY <1>2, <1>6 DEF Enter, NoTask
    <3>2. inFlight' = inFlight \/ inFlight' = [inFlight EXCEPT ![Key(w)] = task[w]]
      BY <1>6 DEF Enter
    <3>3. task[w] \in Candidates \cup {0}
      OBVIOUS
    <3> QED
      BY <3>1, <3>2, <3>3, ExceptType
  <2> QED
    BY <1>1, <1>6, <2>1, <2>2, <2>3 DEF Enter, accVars
<1>7. CASE Await(w)
  <2>1. wpc' \in [Workers -> WorkerPCs]
    BY <1>7 DEF Await, Answered, Goto, WorkerPCs
  <2>2. awaits[w] \in Candidates
    BY <1>7 DEF Await, FlightInv
  <2>3. solve[awaits[w]].gear \in Answers
    BY <1>2, <2>2
  <2>4. found' \in [Workers -> Answers]
    BY <1>7, <2>3, ExceptType DEF Await, Answered
  <2>5. awaits' \in [Workers -> Candidates \cup {0}]
    BY <1>7, ExceptType DEF Await
  <2> QED
    BY <1>1, <1>7, <2>1, <2>4, <2>5 DEF Await, cacheVars, accVars
<1>8. CASE Solve(w)
  <2>1. wpc' \in [Workers -> WorkerPCs]
    BY <1>8 DEF Solve, Goto, WorkerPCs
  <2>2. Key(w) \in Gears
    BY <1>2, <1>8 DEF Solve, NoTask
  <2>3. NoGear \in Answers /\ Reforged[Key(w)] \in Answers
    BY <2>2, ReforgeAssumption DEF Answers
  <2>4. \/ found' = [found EXCEPT ![w] = NoGear]
        \/ found' = [found EXCEPT ![w] = Reforged[Key(w)]]
    BY <1>8 DEF Solve
  <2>5. found' \in [Workers -> Answers]
    <3>1. ASSUME NEW x \in Answers PROVE [found EXCEPT ![w] = x] \in [Workers -> Answers]
      BY ExceptType
    <3> QED
      BY <2>3, <2>4, <3>1
  <2> QED
    BY <1>1, <1>8, <2>1, <2>5 DEF Solve, cacheVars, accVars
<1>9. CASE Store(w)
  <2>1. wpc' \in [Workers -> WorkerPCs]
    BY <1>9 DEF Store, Goto, WorkerPCs
  <2>2. found[w] \in Answers
    OBVIOUS
  <2>3. answer' \in [Gears -> Answers]
    BY <1>9, <2>2, ExceptType DEF Store
  <2>4. cached' \subseteq Gears
    BY <1>2, <1>9 DEF Store, NoTask
  <2> QED
    BY <1>1, <1>9, <2>1, <2>3, <2>4 DEF Store, accVars
<1>10. CASE Publish(w)
  <2>1. wpc' \in [Workers -> WorkerPCs]
    BY <1>10 DEF Publish, Goto, WorkerPCs
  <2>2. solve' \in [Positions -> [done : BOOLEAN, gear : Answers]]
    BY <1>10 DEF Publish
  <2> QED
    BY <1>1, <1>10, <2>1, <2>2 DEF Publish, accVars
<1>11. CASE Drop(w)
  <2>1. wpc' \in [Workers -> WorkerPCs]
    BY <1>11 DEF Drop, Goto, WorkerPCs
  <2>2. inFlight' \in [Gears -> Candidates \cup {0}]
    BY <1>11, ExceptType DEF Drop
  <2> QED
    BY <1>1, <1>11, <2>1, <2>2 DEF Drop, accVars
<1>12. CASE Complete(w)
  <2>1. task[w] \in Candidates
    BY <1>2, <1>12 DEF Complete, NoTask
  <2>2. task' \in [Workers -> Candidates \cup {0}]
    BY <1>12, ExceptType DEF Complete
  <2>3. found' \in [Workers -> Answers]
    BY <1>12 DEF Complete, Answers
  <2>4. gear' \in [Positions -> Answers]
    <3>1. gear' = gear \/ gear' = [gear EXCEPT ![task[w]] = found[w]]
      BY <1>12 DEF Complete, accVars
    <3> QED
      BY <3>1, ExceptType
  <2>5. wpc' \in [Workers -> WorkerPCs]
    <3>1. wpc' = [wpc EXCEPT ![w] = "take"] \/ wpc' = [wpc EXCEPT ![w] = "emit"]
      BY <1>12 DEF Complete, HandOver, Goto
    <3> QED
      BY <3>1 DEF WorkerPCs
  <2>6. hand' \in [Workers -> SUBSET Candidates]
    <3>1. \/ hand' = hand
          \/ hand' = [hand EXCEPT ![w] = batch]
          \/ hand' = [hand EXCEPT ![w] = batch \cup {task[w]}]
      BY <1>12 DEF Complete, HandOver
    <3>2. batch \in SUBSET Candidates /\ batch \cup {task[w]} \in SUBSET Candidates
      BY <2>1
    <3>3. ASSUME NEW b \in SUBSET Candidates
          PROVE  [hand EXCEPT ![w] = b] \in [Workers -> SUBSET Candidates]
      BY ExceptType
    <3> QED
      BY <3>1, <3>2, <3>3
  <2>7. completed' \subseteq Candidates /\ optimized' \subseteq completed'
        /\ batch' \subseteq optimized'
    BY <1>12, <2>1 DEF Complete, HandOver, accVars
  <2> QED
    BY <1>1, <1>12, <2>2, <2>3, <2>4, <2>5, <2>6, <2>7 DEF Complete, cacheVars
<1>13. CASE Emit(w)
  <2>1. streamed' \in [Positions -> Nat]
    BY <1>13 DEF Emit, Stream
  <2> QED
    BY <1>1, <1>13, <2>1 DEF Emit, Goto, WorkerPCs, cacheVars, accVars
<1> QED
  BY <1>3, <1>4, <1>5, <1>6, <1>7, <1>8, <1>9, <1>10, <1>11, <1>12, <1>13 DEF WorkerStep

-----------------------------------------------------------------------------
(* Who works on what.                                                       *)

\* Feeding and closing keep the positions apart: what is fed is larger than all before it.
LEMMA MainTasks ==
  ASSUME Types, TaskInv, StreamInv, MainControl
  PROVE  TaskInv'
<1> USE DEF Types, TaskInv
<1>1. CASE StartControl
  BY <1>1 DEF StartControl, workVars, accVars
<1>2. CASE Feed
  <2>1. CASE fed' \in Candidates
    <3>1. jobs' = Append(jobs, fed') /\ fed' = fed + 1
          /\ UNCHANGED <<wpc, task, completed>>
      BY <1>2, <2>1 DEF Feed, workVars, accVars
    <3>2. /\ Len(jobs') = Len(jobs) + 1
          /\ \A i \in 1..Len(jobs) : jobs'[i] = jobs[i]
          /\ jobs'[Len(jobs) + 1] = fed'
      BY <2>1, <3>1, AppendProperties
    <3>3. Len(jobs) \in Nat /\ \A i \in 1..Len(jobs) : jobs[i] \in Nat
      BY Numbers
    <3>4. \A w \in Workers : task[w] \in Nat
      BY Numbers
    <3>5. \A p \in completed : p \in Nat
      BY Numbers
    <3>6. \A i \in 1..Len(jobs') : i \in 1..Len(jobs) \/ i = Len(jobs) + 1
      BY <3>2, <3>3
    <3>7. \A i, j \in 1..Len(jobs') : i < j => jobs'[i] < jobs'[j]
      BY <3>1, <3>2, <3>3, <3>6
    <3>8. \A i \in 1..Len(jobs') : jobs'[i] <= fed'
      BY <3>1, <3>2, <3>3, <3>6
    <3>9. \A w \in Workers : task'[w] <= fed' /\ \A i \in 1..Len(jobs') : task'[w] < jobs'[i]
      BY <3>1, <3>2, <3>3, <3>4, <3>6
    <3>10. \A p \in completed' : p <= fed' /\ \A i \in 1..Len(jobs') : p < jobs'[i]
      BY <3>1, <3>2, <3>3, <3>5, <3>6
    <3> QED
      BY <3>1, <3>7, <3>8, <3>9, <3>10
  <2>2. CASE fed' \notin Candidates
    <3>1. fed' = fed + 1 /\ UNCHANGED <<jobs, wpc, task, completed>>
      BY <1>2, <2>2 DEF Feed, workVars, accVars
    <3>2. /\ \A i \in 1..Len(jobs) : jobs[i] \in Nat
          /\ \A w \in Workers : task[w] \in Nat
          /\ \A p \in completed : p \in Nat
      BY Numbers
    <3> QED
      BY <3>1, <3>2
  <2> QED
    BY <2>1, <2>2
<1>3. CASE CloseJobs
  BY <1>3 DEF CloseJobs, workVars, accVars
<1>4. CASE Flush
  BY <1>4 DEF Flush, workVars
<1>5. CASE ConcludeControl
  BY <1>5 DEF ConcludeControl, workVars, accVars
<1> QED
  BY <1>1, <1>2, <1>3, <1>4, <1>5 DEF MainControl

\* So do the workers: Take moves the first position of the channel into one hand.
LEMMA WorkerTasks ==
  ASSUME Types, TaskInv, NEW w \in Workers, WorkerStep(w)
  PROVE  TaskInv'
<1> USE DEF Types, TaskInv
<1>1. UNCHANGED fed
  BY DEF WorkerStep, mainVars
<1>2. CASE Take(w)
  <2>1. CASE abort
    BY <1>1, <1>2, <2>1, TakeFacts DEF Take, accVars
  <2>2. CASE ~abort
    <3>1. /\ task' = [task EXCEPT ![w] = Head(jobs)] /\ wpc' = [wpc EXCEPT ![w] = "lookup"]
          /\ jobs' = Tail(jobs) /\ jobs # <<>> /\ wpc[w] = "take"
          /\ UNCHANGED completed
      BY <1>2, <2>2 DEF Take, Goto, accVars
    <3>2. /\ Head(jobs) \in Candidates /\ Head(jobs) = jobs[1] /\ 1 \in 1..Len(jobs)
          /\ Len(jobs') = Len(jobs) - 1
          /\ \A i \in 1..Len(jobs') : jobs'[i] = jobs[i + 1] /\ i + 1 \in 1..Len(jobs)
      BY <3>1, TakeFacts
    <3>3. \A i \in 1..Len(jobs') : jobs[1] < jobs'[i]
      <4>1. \A i \in 1..Len(jobs') : 1 < i + 1
        BY <3>2, Numbers
      <4> QED
        BY <3>2, <4>1
    <3>4. Head(jobs) # 0 /\ Head(jobs) \in Nat /\ Head(jobs) <= fed
          /\ \A v \in Workers : task[v] # Head(jobs)
          /\ Head(jobs) \notin completed
      BY <3>2, CandidateFacts
    <3>5. \A v \in Workers : task'[v] = IF v = w THEN Head(jobs) ELSE task[v]
      BY <3>1
    <3>6. \A v \in Workers : wpc'[v] = IF v = w THEN "lookup" ELSE wpc[v]
      BY <3>1
    <3>7. \A v \in Workers : wpc'[v] \in NoTask <=> task'[v] = 0
      BY <3>4, <3>5, <3>6 DEF NoTask
    <3>8. \A u, v \in Workers : task'[u] = task'[v] /\ task'[u] # 0 => u = v
      BY <3>4, <3>5
    <3>9. \A i, j \in 1..Len(jobs') : i < j => jobs'[i] < jobs'[j]
      <4> SUFFICES ASSUME NEW i \in 1..Len(jobs'), NEW j \in 1..Len(jobs'), i < j
                   PROVE  jobs'[i] < jobs'[j]
        OBVIOUS
      <4>1. i + 1 \in 1..Len(jobs) /\ j + 1 \in 1..Len(jobs) /\ i + 1 < j + 1
        BY <3>2
      <4>2. jobs[i + 1] < jobs[j + 1]
        BY <4>1
      <4> QED
        BY <3>2, <4>2
    <3>10. \A i \in 1..Len(jobs') : jobs'[i] <= fed'
      BY <1>1, <3>2
    <3>11. \A v \in Workers : task'[v] <= fed' /\ \A i \in 1..Len(jobs') : task'[v] < jobs'[i]
      <4>1. task'[w] <= fed' /\ \A i \in 1..Len(jobs') : task'[w] < jobs'[i]
        BY <1>1, <3>2, <3>3, <3>4, <3>5
      <4>2. ASSUME NEW v \in Workers, v # w
            PROVE  task'[v] <= fed' /\ \A i \in 1..Len(jobs') : task'[v] < jobs'[i]
        BY <1>1, <3>2, <3>5, <4>2
      <4> QED
        BY <4>1, <4>2
    <3>12. \A p \in completed' : p <= fed' /\ \A i \in 1..Len(jobs') : p < jobs'[i]
      BY <1>1, <3>1, <3>2
    <3>13. \A v \in Workers : task'[v] \notin completed'
      BY <3>1, <3>4, <3>5
    <3> QED
      BY <3>7, <3>8, <3>9, <3>10, <3>11, <3>12, <3>13
  <2> QED
    BY <2>1, <2>2
<1>3. CASE Complete(w)
  <2>1. task[w] \in Candidates
    BY <1>3, BusyFacts DEF Complete, NoTask
  <2>2. /\ task' = [task EXCEPT ![w] = 0]
        /\ wpc' = [wpc EXCEPT ![w] = "take"] \/ wpc' = [wpc EXCEPT ![w] = "emit"]
        /\ completed' = completed \/ completed' = completed \cup {task[w]}
        /\ UNCHANGED jobs
    BY <1>3 DEF Complete, HandOver, Goto, accVars
  <2>3. \A v \in Workers : task'[v] = IF v = w THEN 0 ELSE task[v]
    BY <2>2
  <2>4. /\ wpc'[w] \in NoTask
        /\ \A v \in Workers : v # w => wpc'[v] = wpc[v]
    BY <2>2 DEF NoTask
  <2>5. \A i \in 1..Len(jobs) : jobs[i] \in Nat \ {0}
    BY Numbers
  <2>6. \A v \in Workers : task'[v] <= fed' /\ \A i \in 1..Len(jobs') : task'[v] < jobs'[i]
    BY <1>1, <2>2, <2>3, <2>5
  <2>7. \A v \in Workers : task'[v] \notin completed'
    BY <2>1, <2>2, <2>3, CandidateFacts
  <2>8. \A p \in completed' : p <= fed' /\ \A i \in 1..Len(jobs') : p < jobs'[i]
    BY <1>1, <2>1, <2>2
  <2> QED
    BY <1>1, <2>2, <2>3, <2>4, <2>6, <2>7, <2>8
<1>4. CASE UNCHANGED <<task, jobs, completed>>
           /\ \A v \in Workers : wpc[v] \in NoTask <=> wpc'[v] \in NoTask
  BY <1>1, <1>4
<1>5. CASE Leave(w) \/ Emit(w)
  <2>1. UNCHANGED <<task, jobs, completed>> /\ wpc[w] \in NoTask
        /\ (wpc' = [wpc EXCEPT ![w] = "gone"] \/ wpc' = [wpc EXCEPT ![w] = "take"])
    BY <1>5 DEF Leave, Emit, Goto, NoTask, accVars
  <2> QED
    BY <1>4, <2>1 DEF NoTask
<1>6. CASE \/ Lookup(w) \/ Enter(w) \/ Await(w) \/ Solve(w)
           \/ Store(w) \/ Publish(w) \/ Drop(w)
  <2>1. /\ UNCHANGED <<task, jobs, completed>> /\ wpc[w] \notin NoTask
        /\ \E pc \in WorkerPCs \ NoTask : wpc' = [wpc EXCEPT ![w] = pc]
    BY <1>6 DEF Lookup, Enter, Await, Solve, Store, Publish, Drop, Answered, Goto, NoTask,
       WorkerPCs, accVars
  <2> QED
    BY <1>4, <2>1
<1> QED
  BY <1>2, <1>3, <1>5, <1>6 DEF WorkerStep

-----------------------------------------------------------------------------
(* Solves in flight.                                                        *)

\* The main goroutine does not touch inFlightByKey.
LEMMA MainFlight ==
  ASSUME FlightInv, OnceInv, MainControl
  PROVE  FlightInv' /\ OnceInv'
<1>1. UNCHANGED <<request, wpc, task, awaits, inFlight, cached, solves, abort>>
  BY DEF MainControl, StartControl, Feed, CloseJobs, Flush, ConcludeControl, workVars, cacheVars
<1> QED
  BY <1>1 DEF FlightInv, OnceInv, Key

\* The worker that solves a gear is the only one.
LEMMA OneOwner ==
  ASSUME Types, TaskInv, FlightInv, NEW w \in Workers, NEW v \in Workers,
         wpc[w] \in Owning, wpc[v] \in Owning, Key(w) = Key(v)
  PROVE  w = v
<1>1. task[w] = task[v]
  BY DEF FlightInv
<1>2. task[w] # 0
  BY DEF TaskInv, NoTask, Owning
<1> QED
  BY <1>1, <1>2 DEF TaskInv

\* What w's step does to the others: nothing that they look at.
LEMMA OthersKept ==
  ASSUME Types, NEW w \in Workers, WorkerStep(w), NEW v \in Workers, v # w
  PROVE  wpc'[v] = wpc[v] /\ task'[v] = task[v] /\ awaits'[v] = awaits[v]
         /\ found'[v] = found[v] /\ hand'[v] = hand[v] /\ Key(v)' = Key(v)
<1> USE DEF Types, Goto, Answered
<1>1. /\ wpc'[v] = wpc[v] /\ task'[v] = task[v] /\ awaits'[v] = awaits[v]
      /\ found'[v] = found[v] /\ hand'[v] = hand[v]
  <2>1. CASE Take(w) \/ Leave(w) \/ Emit(w)
    BY <2>1 DEF Take, Leave, Emit
  <2>2. CASE Lookup(w) \/ Enter(w) \/ Await(w)
    BY <2>2 DEF Lookup, Enter, Await
  <2>3. CASE Solve(w) \/ Store(w) \/ Publish(w) \/ Drop(w)
    BY <2>3 DEF Solve, Store, Publish, Drop
  <2>4. CASE Complete(w)
    BY <2>4 DEF Complete, HandOver
  <2> QED
    BY <2>1, <2>2, <2>3, <2>4 DEF WorkerStep
<1>2. request' = request
  BY DEF WorkerStep
<1> QED
  BY <1>1, <1>2 DEF Key

\* The three outcomes of the second look-up.
LEMMA EnterCases ==
  ASSUME Types, NEW w \in Workers, Enter(w)
  PROVE  /\ wpc[w] = "enter"
         /\ UNCHANGED <<jobs, task, hand, cached, answer, solve, accVars, streamed>>
         /\ \/ /\ Key(w) \in cached /\ wpc' = [wpc EXCEPT ![w] = "complete"]
               /\ found' = [found EXCEPT ![w] = answer[Key(w)]]
               /\ UNCHANGED <<awaits, inFlight, solves>>
            \/ /\ Key(w) \notin cached /\ inFlight[Key(w)] # 0
               /\ wpc' = [wpc EXCEPT ![w] = "await"]
               /\ awaits' = [awaits EXCEPT ![w] = inFlight[Key(w)]]
               /\ UNCHANGED <<found, inFlight, solves>>
            \/ /\ Key(w) \notin cached /\ inFlight[Key(w)] = 0
               /\ wpc' = [wpc EXCEPT ![w] = "solve"]
               /\ inFlight' = [inFlight EXCEPT ![Key(w)] = task[w]]
               /\ solves' = [solves EXCEPT ![Key(w)] = @ + 1]
               /\ UNCHANGED <<found, awaits>>
BY DEF Enter, Answered, Goto

\* The workers keep its entries to their owners, and each gear that was not aborted is
\* solved once.
LEMMA WorkerFlight ==
  ASSUME Types, TaskInv, FlightInv, OnceInv, VerdictInv, NEW w \in Workers, WorkerStep(w)
  PROVE  FlightInv' /\ OnceInv'
<1> USE DEF Types
<1>1. UNCHANGED <<request, abort>>
  BY DEF WorkerStep
<1>2. \A v \in Workers \ {w} : /\ wpc'[v] = wpc[v] /\ task'[v] = task[v]
                               /\ awaits'[v] = awaits[v] /\ Key(v)' = Key(v)
  BY OthersKept
<1>9. ASSUME wpc'[w] # "await"
      PROVE  \A v \in Workers :
               wpc'[v] = "await" => awaits'[v] # 0 /\ request'[awaits'[v]] = Key(v)'
  <2>1. \A v \in Workers : wpc'[v] = "await" => v \in Workers \ {w}
    BY <1>9
  <2>2. \A v \in Workers :
          wpc'[v] = "await" => wpc[v] = "await" /\ awaits'[v] = awaits[v] /\ Key(v)' = Key(v)
    BY <1>2, <2>1
  <2> QED
    BY <1>1, <2>2 DEF FlightInv
<1>3. CASE /\ UNCHANGED <<cached, inFlight, solves>>
           /\ wpc'[w] \notin Owning \cup {"await"}
  <2>1. \A v \in Workers : wpc'[v] \in Owning \cup {"await"} => v \in Workers \ {w}
    BY <1>3
  <2>2. \A v \in Workers : wpc'[v] \in Owning => inFlight'[Key(v)'] = task'[v]
    BY <1>2, <1>3, <2>1 DEF FlightInv
  <2>3. \A v \in Workers : wpc'[v] \in {"solve", "store"} => Key(v)' \notin cached'
    BY <1>2, <1>3, <2>1 DEF FlightInv, Owning
  <2>4. \A v \in Workers : wpc'[v] = "await" => awaits'[v] # 0 /\ request'[awaits'[v]] = Key(v)'
    BY <1>9, <2>1
  <2>5. \A g \in Gears : inFlight'[g] # 0 => request'[inFlight'[g]] = g
    BY <1>1, <1>3 DEF FlightInv
  <2>6. OnceInv'
    BY <1>1, <1>3 DEF OnceInv
  <2> QED
    BY <2>2, <2>3, <2>4, <2>5, <2>6 DEF FlightInv
<1>4. CASE Take(w) \/ Leave(w) \/ Lookup(w) \/ Await(w) \/ Emit(w) \/ Complete(w)
  <2>1. UNCHANGED <<cached, inFlight, solves>>
    BY <1>4 DEF Take, Leave, Lookup, Await, Emit, Complete, cacheVars
  <2>2. wpc'[w] \in {"take", "lookup", "gone", "enter", "complete", "emit"}
    <3>1. CASE Take(w) \/ Leave(w) \/ Emit(w)
      BY <3>1 DEF Take, Leave, Emit, Goto
    <3>2. CASE Lookup(w) \/ Await(w)
      BY <3>2 DEF Lookup, Await, Answered, Goto
    <3>3. CASE Complete(w)
      BY <3>3 DEF Complete, HandOver, Goto
    <3> QED
      BY <1>4, <3>1, <3>2, <3>3
  <2> QED
    BY <1>3, <2>1, <2>2 DEF Owning
<1>5. CASE Enter(w)
  <2>1. UNCHANGED <<task, cached>> /\ Key(w)' = Key(w) /\ wpc[w] = "enter"
    BY <1>1, <1>5 DEF Enter, Key
  <2>2. Key(w) \in Gears /\ task[w] \in Candidates /\ task[w] # 0
    BY <2>1, BusyFacts, CandidateFacts DEF NoTask
  <2>3. CASE /\ wpc' = [wpc EXCEPT ![w] = "complete"] /\ UNCHANGED <<awaits, inFlight, solves>>
    BY <1>3, <2>1, <2>3 DEF Owning
  <2>4. CASE /\ inFlight[Key(w)] # 0
             /\ wpc' = [wpc EXCEPT ![w] = "await"]
             /\ awaits' = [awaits EXCEPT ![w] = inFlight[Key(w)]]
             /\ UNCHANGED <<inFlight, solves>>
    BY <1>1, <1>2, <2>1, <2>2, <2>4 DEF FlightInv, OnceInv, Owning
  <2>5. CASE /\ Key(w) \notin cached /\ inFlight[Key(w)] = 0
             /\ wpc' = [wpc EXCEPT ![w] = "solve"]
             /\ inFlight' = [inFlight EXCEPT ![Key(w)] = task[w]]
             /\ solves' = [solves EXCEPT ![Key(w)] = @ + 1]
             /\ UNCHANGED awaits
    <3>1. \A v \in Workers \ {w} : wpc[v] \in Owning => Key(v) # Key(w)
      BY <2>5, CandidateFacts DEF FlightInv, TaskInv, Owning, NoTask
    <3>2. \A v \in Workers : wpc'[v] \in Owning => inFlight'[Key(v)'] = task'[v]
      BY <1>2, <2>1, <2>2, <2>5, <3>1, BusyFacts DEF FlightInv, Owning, NoTask
    <3>3. \A v \in Workers : wpc'[v] \in {"solve", "store"} => Key(v)' \notin cached'
      BY <1>2, <2>1, <2>5 DEF FlightInv
    <3>4. \A g \in Gears : inFlight'[g] # 0 => request'[inFlight'[g]] = g
      BY <1>1, <2>2, <2>5 DEF FlightInv, Key
    <3>5. \A v \in Workers : wpc'[v] = "await" => awaits'[v] # 0 /\ request'[awaits'[v]] = Key(v)'
      BY <1>1, <1>2, <2>1, <2>5 DEF FlightInv
    <3>6. OnceInv'
      BY <1>1, <2>1, <2>2, <2>5 DEF OnceInv
    <3> QED
      BY <3>2, <3>3, <3>4, <3>5, <3>6 DEF FlightInv
  <2> QED
    BY <1>5, <2>3, <2>4, <2>5, EnterCases
<1>6. CASE Solve(w) \/ Publish(w)
  <2>1. /\ UNCHANGED <<task, awaits, inFlight, cached, solves>> /\ Key(w)' = Key(w)
        /\ wpc[w] \in {"solve", "publish"}
        /\ wpc'[w] \in Owning /\ (wpc'[w] = "store" => wpc[w] = "solve") /\ wpc'[w] # "solve"
    BY <1>1, <1>6 DEF Solve, Publish, Goto, Owning, Key, cacheVars
  <2>2. \A v \in Workers : wpc'[v] \in Owning => inFlight'[Key(v)'] = task'[v]
    BY <1>2, <2>1 DEF FlightInv, Owning
  <2>3. \A v \in Workers : wpc'[v] \in {"solve", "store"} => Key(v)' \notin cached'
    <3>1. \A v \in Workers : wpc'[v] \in {"solve", "store"} => wpc[v] \in {"solve", "store"}
      BY <1>2, <2>1
    <3>2. \A v \in Workers : Key(v)' = Key(v)
      BY <1>2, <2>1
    <3> QED
      BY <2>1, <3>1, <3>2 DEF FlightInv
  <2>4. \A v \in Workers : wpc'[v] = "await" => awaits'[v] # 0 /\ request'[awaits'[v]] = Key(v)'
    BY <1>9, <2>1 DEF Owning
  <2>5. \A g \in Gears : inFlight'[g] # 0 => request'[inFlight'[g]] = g
    BY <1>1, <2>1 DEF FlightInv
  <2>6. OnceInv'
    BY <1>1, <2>1 DEF OnceInv
  <2> QED
    BY <2>2, <2>3, <2>4, <2>5, <2>6 DEF FlightInv
<1>7. CASE Store(w)
  <2>1. /\ UNCHANGED <<task, awaits, inFlight, solves>> /\ Key(w)' = Key(w)
        /\ wpc[w] = "store" /\ wpc'[w] = "publish" /\ cached' = cached \cup {Key(w)}
    BY <1>1, <1>7 DEF Store, Goto, Key
  <2>2. \A v \in Workers \ {w} : wpc[v] \in Owning => Key(v) # Key(w)
    BY <2>1, OneOwner DEF Owning
  <2>3. \A v \in Workers : wpc'[v] \in Owning => inFlight'[Key(v)'] = task'[v]
    <3>1. \A v \in Workers : wpc'[v] \in Owning => wpc[v] \in Owning
      BY <1>2, <2>1 DEF Owning
    <3>2. \A v \in Workers : task'[v] = task[v] /\ Key(v)' = Key(v)
      BY <1>2, <2>1
    <3> QED
      BY <2>1, <3>1, <3>2 DEF FlightInv
  <2>4. \A v \in Workers : wpc'[v] \in {"solve", "store"} => Key(v)' \notin cached'
    BY <1>2, <2>1, <2>2 DEF FlightInv, Owning
  <2>5. \A v \in Workers : wpc'[v] = "await" => awaits'[v] # 0 /\ request'[awaits'[v]] = Key(v)'
    BY <1>9, <2>1
  <2>6. \A g \in Gears : inFlight'[g] # 0 => request'[inFlight'[g]] = g
    BY <1>1, <2>1 DEF FlightInv
  <2>7. OnceInv'
    BY <1>1, <2>1 DEF OnceInv
  <2> QED
    BY <2>3, <2>4, <2>5, <2>6, <2>7 DEF FlightInv
<1>8. CASE Drop(w)
  <2>1. /\ UNCHANGED <<task, awaits, cached, solves>> /\ Key(w)' = Key(w)
        /\ wpc[w] = "drop" /\ wpc'[w] = "complete"
        /\ inFlight' = [inFlight EXCEPT ![Key(w)] = 0]
    BY <1>1, <1>8 DEF Drop, Goto, Key
  <2>2. \A v \in Workers \ {w} : wpc[v] \in Owning => Key(v) # Key(w)
    BY <2>1, OneOwner DEF Owning
  <2>3. Key(w) \in Gears
    BY <2>1, BusyFacts DEF NoTask
  <2>4. \A g \in Gears : inFlight'[g] = IF g = Key(w) THEN 0 ELSE inFlight[g]
    BY <2>1, <2>3
  <2>5. ~abort => Key(w) \in cached
    BY <2>1 DEF VerdictInv, Verdict
  <2>6. \A v \in Workers : wpc'[v] \in Owning => v # w /\ Key(v) \in Gears
    BY <1>2, <2>1, BusyFacts DEF Owning, NoTask
  <2>7. \A v \in Workers : wpc'[v] \in Owning => inFlight'[Key(v)'] = task'[v]
    BY <1>2, <2>2, <2>4, <2>6 DEF FlightInv
  <2>8. \A v \in Workers : wpc'[v] \in {"solve", "store"} => Key(v)' \notin cached'
    BY <1>2, <2>1 DEF FlightInv
  <2>9. \A v \in Workers : wpc'[v] = "await" => awaits'[v] # 0 /\ request'[awaits'[v]] = Key(v)'
    BY <1>9, <2>1
  <2>10. \A g \in Gears : inFlight'[g] # 0 => request'[inFlight'[g]] = g
    BY <1>1, <2>4 DEF FlightInv
  <2>11. OnceInv'
    BY <1>1, <2>1, <2>4, <2>5 DEF OnceInv
  <2> QED
    BY <2>7, <2>8, <2>9, <2>10, <2>11 DEF FlightInv
<1> QED
  BY <1>4, <1>5, <1>6, <1>7, <1>8 DEF WorkerStep

-----------------------------------------------------------------------------
(* Verdicts.                                                                *)

\* The main goroutine changes neither the cache nor what was completed.
LEMMA MainVerdict ==
  ASSUME VerdictInv, MainControl
  PROVE  VerdictInv'
<1>1. /\ UNCHANGED <<request, wpc, task, found, cached, answer, solve, abort>>
      /\ UNCHANGED <<gear, completed, optimized>>
  BY DEF MainControl, StartControl, Feed, CloseJobs, Flush, ConcludeControl, workVars, cacheVars, accVars
<1> QED
  BY <1>1 DEF VerdictInv, Verdict, Key, Candidates, Positions

\* The two kinds of completion, and the aborted task.
LEMMA CompleteCases ==
  ASSUME Types, NEW w \in Workers, Complete(w)
  PROVE  /\ wpc[w] = "complete"
         /\ UNCHANGED <<jobs, awaits, cacheVars, streamed>>
         /\ found' = [found EXCEPT ![w] = NoGear]
         /\ \/ /\ wpc' = [wpc EXCEPT ![w] = "take"]
               /\ UNCHANGED <<gear, completed, optimized, batch, hand>>
            \/ /\ completed' = completed \cup {task[w]}
               /\ \/ found[w] = NoGear /\ ~abort /\ UNCHANGED <<gear, optimized>>
                  \/ /\ found[w] # NoGear
                     /\ gear' = [gear EXCEPT ![task[w]] = found[w]]
                     /\ optimized' = optimized \cup {task[w]}
               /\ LET b == IF found[w] = NoGear THEN batch ELSE batch \cup {task[w]}
                  IN \/ /\ batch' = b /\ hand' = hand
                        /\ wpc' = [wpc EXCEPT ![w] = "take"]
                     \/ /\ batch' = {} /\ hand' = [hand EXCEPT ![w] = b]
                        /\ wpc' = [wpc EXCEPT ![w] = "emit"]
<1>1. CASE found[w] = NoGear
  BY <1>1 DEF Complete, HandOver, Goto, accVars
<1>2. CASE found[w] # NoGear
  BY <1>2 DEF Complete, HandOver, Goto, accVars
<1> QED
  BY <1>1, <1>2

\* The workers tell and complete what the cache says.
LEMMA WorkerVerdict ==
  ASSUME Types, TaskInv, FlightInv, VerdictInv, NEW w \in Workers, WorkerStep(w)
  PROVE  VerdictInv'
<1> USE DEF Types
<1>1. UNCHANGED <<request, abort>> /\ Positions' = Positions /\ Candidates' = Candidates
  BY RequestKept DEF Control, WorkerStep
<1>2. \A v \in Workers \ {w} : /\ wpc'[v] = wpc[v] /\ task'[v] = task[v]
                               /\ found'[v] = found[v] /\ Key(v)' = Key(v)
  BY OthersKept
<1>3. /\ \A p \in Candidates : p \in Positions /\ request[p] \in Gears
      /\ wpc[w] \notin NoTask => task[w] \in Candidates /\ Key(w) \in Gears
  BY BusyFacts, CandidateFacts
\* Steps that only move w, with the answer it got.
<1>4. ASSUME UNCHANGED <<cached, answer, solve, gear, completed, optimized>>,
             wpc'[w] \in {"publish", "drop", "complete"} => Verdict(Key(w), found[w])',
             wpc'[w] = "store" => (found[w] \in {NoGear, Reforged[Key(w)]})'
      PROVE  VerdictInv'
  <2>1. \A v \in Workers : wpc'[v] \in {"publish", "drop", "complete"} => Verdict(Key(v), found[v])'
    BY <1>1, <1>2, <1>4 DEF VerdictInv, Verdict
  <2>2. \A v \in Workers : wpc'[v] = "store" => (found[v] \in {NoGear, Reforged[Key(v)]})'
    BY <1>2, <1>4 DEF VerdictInv
  <2> QED
    BY <1>1, <1>4, <2>1, <2>2 DEF VerdictInv, Verdict
<1>5. CASE Take(w) \/ Leave(w) \/ Emit(w)
  <2>1. wpc'[w] \in {"take", "lookup", "gone"}
        /\ UNCHANGED <<cached, answer, solve, gear, completed, optimized>>
    BY <1>5 DEF Take, Leave, Emit, Goto, cacheVars, accVars
  <2> QED
    BY <1>4, <2>1
<1>6. CASE Lookup(w)
  <2>1. wpc'[w] \in {"enter", "complete"} /\ Key(w)' = Key(w)
        /\ UNCHANGED <<cached, answer, solve, gear, completed, optimized>>
    BY <1>1, <1>6 DEF Lookup, Answered, Goto, Key, cacheVars, accVars
  <2>2. wpc'[w] = "complete" => Key(w) \in cached /\ found'[w] = answer[Key(w)]
    BY <1>6 DEF Lookup, Answered, Goto
  <2> QED
    BY <1>4, <2>1, <2>2 DEF Verdict
<1>7. CASE Enter(w)
  <2>1. wpc'[w] \in {"await", "solve", "complete"} /\ Key(w)' = Key(w)
        /\ UNCHANGED <<cached, answer, solve, gear, completed, optimized>>
    BY <1>1, <1>7, EnterCases DEF Enter, Key, accVars
  <2>2. wpc'[w] = "complete" => Key(w) \in cached /\ found'[w] = answer[Key(w)]
    BY <1>7, EnterCases
  <2> QED
    BY <1>4, <2>1, <2>2 DEF Verdict
<1>8. CASE Await(w)
  <2>1. wpc[w] = "await" /\ wpc'[w] = "complete" /\ Key(w)' = Key(w)
        /\ solve[awaits[w]].done /\ found'[w] = solve[awaits[w]].gear
        /\ UNCHANGED <<cached, answer, solve, gear, completed, optimized>>
    BY <1>1, <1>8 DEF Await, Answered, Goto, Key, cacheVars, accVars
  <2>2. awaits[w] \in Candidates /\ request[awaits[w]] = Key(w)
    BY <2>1 DEF FlightInv
  <2>3. Verdict(Key(w), found'[w])
    BY <2>1, <2>2 DEF VerdictInv
  <2> QED
    BY <1>1, <1>4, <2>1, <2>3 DEF Verdict
<1>9. CASE Solve(w)
  <2>1. wpc[w] = "solve" /\ Key(w)' = Key(w)
        /\ UNCHANGED <<cached, answer, solve, gear, completed, optimized>>
    BY <1>1, <1>9 DEF Solve, Key, cacheVars, accVars
  <2>2. \/ wpc'[w] = "publish" /\ found'[w] = NoGear /\ abort
        \/ wpc'[w] = "store" /\ found'[w] \in {NoGear, Reforged[Key(w)]}
    BY <1>9 DEF Solve, Goto
  <2> QED
    BY <1>1, <1>4, <2>1, <2>2 DEF Verdict
<1>10. CASE Store(w)
  <2>1. /\ wpc[w] = "store" /\ wpc'[w] = "publish" /\ Key(w)' = Key(w) /\ found' = found
        /\ cached' = cached \cup {Key(w)} /\ answer' = [answer EXCEPT ![Key(w)] = found[w]]
        /\ UNCHANGED <<solve, gear, completed, optimized>>
    BY <1>1, <1>10 DEF Store, Goto, Key, accVars
  <2>2. Key(w) \in Gears /\ Key(w) \notin cached
    BY <1>3, <2>1 DEF NoTask, FlightInv
  <2>3. \A g \in Gears : answer'[g] = IF g = Key(w) THEN found[w] ELSE answer[g]
    BY <2>1, <2>2
  <2>4. \A g \in Gears, x \in Answers : Verdict(g, x) => Verdict(g, x)'
    BY <1>1, <2>1, <2>2, <2>3 DEF Verdict
  <2>5. \A v \in Workers : wpc'[v] \in {"publish", "drop", "complete"} => Verdict(Key(v), found[v])'
    <3>1. CASE Verdict(Key(w), found[w])'
      <4> SUFFICES ASSUME NEW v \in Workers \ {w}, wpc[v] \in {"publish", "drop", "complete"}
                   PROVE  Verdict(Key(v), found[v])'
        BY <1>2, <3>1
      <4>1. Key(v) \in Gears
        BY BusyFacts DEF NoTask
      <4>2. Verdict(Key(v), found[v])
        BY DEF VerdictInv
      <4> QED
        BY <1>1, <1>2, <2>1, <2>2, <2>3, <4>1, <4>2 DEF Verdict
    <3> QED
      BY <2>1, <2>2, <2>3, <3>1 DEF Verdict
  <2>6. \A v \in Workers : wpc'[v] = "store" => (found[v] \in {NoGear, Reforged[Key(v)]})'
    <3> SUFFICES ASSUME NEW v \in Workers, wpc'[v] = "store"
                 PROVE  (found[v] \in {NoGear, Reforged[Key(v)]})'
      OBVIOUS
    <3>1. wpc[v] = "store" /\ found'[v] = found[v] /\ Key(v)' = Key(v)
      BY <1>2, <2>1
    <3> QED
      BY <3>1 DEF VerdictInv
  <2>7. \A g \in cached' : answer'[g] \in {NoGear, Reforged[g]}
    BY <2>1, <2>2, <2>3 DEF VerdictInv
  <2>8. \A p \in Candidates : solve'[p].done => Verdict(request[p], solve[p].gear)'
    <3> SUFFICES ASSUME NEW p \in Candidates, solve[p].done
                 PROVE  Verdict(request[p], solve[p].gear)'
      BY <2>1
    <3>1. Verdict(request[p], solve[p].gear)
      BY DEF VerdictInv
    <3> QED
      BY <1>1, <1>3, <2>1, <2>2, <2>3, <3>1 DEF Verdict
  <2>9. \A p \in completed' : /\ request'[p] \in cached'
                              /\ p \in optimized' <=> answer'[request'[p]] # NoGear
                              /\ p \in optimized' => gear'[p] = answer'[request'[p]]
    BY <1>1, <1>3, <2>1, <2>2, <2>3 DEF VerdictInv
  <2>10. \A p \in Candidates' \ optimized' : gear'[p] = request'[p]
    BY <1>1, <2>1 DEF VerdictInv
  <2> QED
    BY <1>1, <2>5, <2>6, <2>7, <2>8, <2>9, <2>10 DEF VerdictInv
<1>11. CASE Publish(w)
  <2>1. /\ wpc[w] = "publish" /\ wpc'[w] = "drop" /\ Key(w)' = Key(w) /\ found' = found
        /\ solve' = [solve EXCEPT ![task[w]] = [done |-> TRUE, gear |-> found[w]]]
        /\ UNCHANGED <<cached, answer, gear, completed, optimized>>
    BY <1>1, <1>11 DEF Publish, Goto, Key, accVars
  <2>2. task[w] \in Positions /\ Verdict(request[task[w]], found[w])
    BY <1>3, <2>1 DEF NoTask, VerdictInv, Key
  <2>3. \A p \in Positions : solve'[p] = IF p = task[w] THEN [done |-> TRUE, gear |-> found[w]]
                                         ELSE solve[p]
    BY <2>1, <2>2
  <2>4. \A p \in Candidates : solve'[p].done => Verdict(request[p], solve'[p].gear)
    <3> SUFFICES ASSUME NEW p \in Candidates, solve'[p].done
                 PROVE  Verdict(request[p], solve'[p].gear)
      OBVIOUS
    <3>1. CASE p = task[w]
      BY <2>2, <2>3, <3>1
    <3>2. CASE p # task[w]
      BY <1>3, <2>3, <3>2 DEF VerdictInv
    <3> QED
      BY <3>1, <3>2
  <2>5. \A v \in Workers : wpc'[v] \in {"publish", "drop", "complete"} => Verdict(Key(v), found[v])
    BY <1>2, <2>1 DEF VerdictInv
  <2>6. \A v \in Workers : wpc'[v] = "store" => found[v] \in {NoGear, Reforged[Key(v)]}
    BY <1>2, <2>1 DEF VerdictInv
  <2>7. \A v \in Workers : Key(v)' = Key(v)
    BY <1>2, <2>1
  <2> QED
    BY <1>1, <2>1, <2>4, <2>5, <2>6, <2>7 DEF VerdictInv, Verdict
<1>12. CASE Drop(w)
  <2>1. wpc[w] = "drop" /\ wpc'[w] = "complete" /\ Key(w)' = Key(w) /\ found' = found
        /\ UNCHANGED <<cached, answer, solve, gear, completed, optimized>>
    BY <1>1, <1>12 DEF Drop, Goto, Key, accVars
  <2>2. Verdict(Key(w), found[w])
    BY <2>1 DEF VerdictInv
  <2> QED
    BY <1>1, <1>4, <2>1, <2>2 DEF Verdict
<1>13. CASE Complete(w)
  <2>1. /\ wpc[w] = "complete" /\ wpc'[w] \in {"take", "emit"}
        /\ UNCHANGED <<cached, answer, solve>>
    BY <1>13, CompleteCases DEF cacheVars
  <2>2. CASE UNCHANGED <<gear, completed, optimized>>
    BY <1>4, <2>1, <2>2
  <2>3. CASE /\ completed' = completed \cup {task[w]}
             /\ \/ found[w] = NoGear /\ ~abort /\ UNCHANGED <<gear, optimized>>
                \/ /\ found[w] # NoGear
                   /\ gear' = [gear EXCEPT ![task[w]] = found[w]]
                   /\ optimized' = optimized \cup {task[w]}
    <3>1. task[w] \in Candidates /\ task[w] \in Positions /\ task[w] \notin completed
          /\ task[w] \notin optimized
      BY <1>3, <2>1 DEF NoTask, TaskInv
    <3>2. request[task[w]] \in cached /\ answer[request[task[w]]] = found[w]
      BY <2>1, <2>3 DEF VerdictInv, Verdict, Key
    <3>3. \A p \in completed' : /\ request[p] \in cached
                                /\ p \in optimized' <=> answer[request[p]] # NoGear
                                /\ p \in optimized' => gear'[p] = answer[request[p]]
      BY <1>3, <2>3, <3>1, <3>2 DEF VerdictInv
    <3>4. \A p \in Candidates \ optimized' : gear'[p] = request[p]
      BY <1>3, <2>3, <3>1 DEF VerdictInv
    <3>5. \A v \in Workers : wpc'[v] \in {"publish", "drop", "complete"} => Verdict(Key(v), found[v])'
      BY <1>1, <1>2, <2>1 DEF VerdictInv, Verdict
    <3>6. \A v \in Workers : wpc'[v] = "store" => (found[v] \in {NoGear, Reforged[Key(v)]})'
      <4> SUFFICES ASSUME NEW v \in Workers, wpc'[v] = "store"
                   PROVE  (found[v] \in {NoGear, Reforged[Key(v)]})'
        OBVIOUS
      <4>1. wpc[v] = "store" /\ found'[v] = found[v] /\ Key(v)' = Key(v)
        BY <1>2, <2>1
      <4> QED
        BY <4>1 DEF VerdictInv
    <3> QED
      BY <1>1, <2>1, <3>3, <3>4, <3>5, <3>6 DEF VerdictInv, Verdict
  <2> QED
    BY <1>13, <2>2, <2>3, CompleteCases
<1> QED
  BY <1>5, <1>6, <1>7, <1>8, <1>9, <1>10, <1>11, <1>12, <1>13 DEF WorkerStep

-----------------------------------------------------------------------------
(* Streaming.                                                               *)

\* The last flush streams what the batch still holds, once every worker is gone.
LEMMA MainStream ==
  ASSUME Types, StreamInv, MainControl
  PROVE  StreamInv'
<1> USE DEF Types
<1>1. request' = request /\ Positions' = Positions /\ Candidates' = Candidates
      /\ UNCHANGED <<wpc, hand, optimized>>
  BY RequestKept
     DEF Control, MainControl, StartControl, Feed, CloseJobs, Flush, ConcludeControl, workVars, accVars
<1>2. CASE StartControl \/ Feed \/ CloseJobs \/ ConcludeControl
  <2>1. /\ UNCHANGED <<batch, streamed>>
        /\ mpc' \in {"conclude", "done"} =>
             mpc = "conclude" \/ Candidates = {}
    BY <1>2 DEF StartControl, Feed, CloseJobs, ConcludeControl, accVars
  <2> QED
    BY <1>1, <2>1 DEF StreamInv
<1>3. CASE Flush
  <2>1. /\ \A w \in Workers : wpc[w] = "gone" /\ hand[w] = {}
        /\ batch' = {} /\ Stream(batch)
    BY <1>3 DEF Flush, StreamInv
  <2>2. \A p \in Positions : streamed'[p] = IF p \in batch THEN streamed[p] + 1 ELSE streamed[p]
    BY <2>1 DEF Stream
  <2>3. \A p \in Positions :
          /\ streamed'[p] \in {0, 1}
          /\ streamed'[p] = 1 => p \in optimized
          /\ p \in optimized => streamed'[p] # 0
    BY <2>1, <2>2 DEF StreamInv
  <2> QED
    BY <1>1, <2>1, <2>3 DEF StreamInv
<1> QED
  BY <1>2, <1>3 DEF MainControl

\* Of every optimized candidate the workers keep one copy: batch, hand or stream.
LEMMA WorkerStream ==
  ASSUME Types, TaskInv, StreamInv, NEW w \in Workers, WorkerStep(w)
  PROVE  StreamInv'
<1> USE DEF Types
<1>1. UNCHANGED <<request, mpc>> /\ Positions' = Positions /\ Candidates' = Candidates
  BY RequestKept DEF Control, WorkerStep, mainVars
<1>2. \A v \in Workers \ {w} : wpc'[v] = wpc[v] /\ hand'[v] = hand[v]
  BY OthersKept
<1>3. wpc[w] # "gone"
  BY DEF WorkerStep, Take, Leave, Lookup, Enter, Await, Solve, Store, Publish, Drop, Complete, Emit
<1>4. mpc \in {"conclude", "done"} => Candidates = {}
  BY <1>3 DEF StreamInv
<1>5. CASE \/ Take(w) \/ Leave(w) \/ Lookup(w) \/ Enter(w) \/ Await(w) \/ Solve(w)
           \/ Store(w) \/ Publish(w) \/ Drop(w)
  <2>1. UNCHANGED <<hand, batch, optimized, streamed>>
    BY <1>5 DEF Take, Leave, Lookup, Enter, Await, Solve, Store, Publish, Drop, accVars
  <2>2. wpc[w] # "emit"
    BY <1>5 DEF Take, Leave, Lookup, Enter, Await, Solve, Store, Publish, Drop
  <2>3. \A v \in Workers : wpc'[v] # "emit" => hand'[v] = {}
    BY <1>2, <2>1, <2>2 DEF StreamInv
  <2> QED
    BY <1>1, <1>4, <2>1, <2>3 DEF StreamInv
<1>6. CASE Complete(w)
  <2> DEFINE t == task[w]
  <2>1. wpc[w] = "complete" /\ hand[w] = {} /\ UNCHANGED streamed
    BY <1>6, CompleteCases DEF StreamInv
  <2>2. t \in Positions /\ t \notin optimized /\ streamed[t] = 0 /\ t \notin batch
        /\ \A v \in Workers : t \notin hand[v]
    <3>1. t \in Positions /\ t \notin completed
      BY <2>1, BusyFacts DEF NoTask, TaskInv
    <3> QED
      BY <3>1 DEF StreamInv
  <2>3. CASE /\ wpc' = [wpc EXCEPT ![w] = "take"]
             /\ UNCHANGED <<optimized, batch, hand>>
    BY <1>1, <1>2, <1>4, <2>1, <2>3 DEF StreamInv
  <2>4. ASSUME NEW b, NEW o, o \in {{}, {t}}, b = batch \cup o, optimized' = optimized \cup o,
               \/ /\ batch' = b /\ hand' = hand
                  /\ wpc' = [wpc EXCEPT ![w] = "take"]
               \/ /\ batch' = {} /\ hand' = [hand EXCEPT ![w] = b]
                  /\ wpc' = [wpc EXCEPT ![w] = "emit"]
        PROVE  StreamInv'
    <3>1. \A v \in Workers : v # w => b \cap hand[v] = {}
      BY <2>2, <2>4 DEF StreamInv
    <3>2. b \subseteq optimized'
      BY <2>4
    <3>3. \A v \in Workers : wpc'[v] # "emit" => hand'[v] = {}
      BY <1>2, <2>1, <2>4 DEF StreamInv
    <3>4. \A v \in Workers : hand'[v] \cap batch' = {} /\ hand'[v] \subseteq optimized'
      BY <1>2, <2>1, <2>4, <3>1, <3>2 DEF StreamInv
    <3>5. \A u, v \in Workers : hand'[u] \cap hand'[v] # {} => u = v
      BY <1>2, <2>1, <2>4, <3>1 DEF StreamInv
    <3>6. \A p \in Positions :
            p \in batch' \/ (\E v \in Workers : p \in hand'[v])
              <=> p \in b \/ \E v \in Workers : p \in hand[v]
      BY <2>1, <2>4
    <3>7. \A p \in Positions :
            /\ streamed[p] \in {0, 1}
            /\ streamed[p] = 1 => p \in optimized'
            /\ p \in optimized' =>
                 (streamed[p] = 0 <=> p \in batch' \/ \E v \in Workers : p \in hand'[v])
      BY <2>2, <2>4, <3>6 DEF StreamInv
    <3> QED
      BY <1>1, <1>4, <2>1, <3>3, <3>4, <3>5, <3>7 DEF StreamInv
  <2>5. CASE found[w] = NoGear
    <3>1. batch = batch \cup {} /\ optimized = optimized \cup {}
      OBVIOUS
    <3>2. \/ /\ wpc' = [wpc EXCEPT ![w] = "take"]
             /\ UNCHANGED <<optimized, batch, hand>>
          \/ /\ optimized' = optimized
             /\ \/ /\ batch' = batch /\ hand' = hand
                   /\ wpc' = [wpc EXCEPT ![w] = "take"]
                \/ /\ batch' = {} /\ hand' = [hand EXCEPT ![w] = batch]
                   /\ wpc' = [wpc EXCEPT ![w] = "emit"]
      BY <1>6, <2>5, CompleteCases
    <3> HIDE DEF t
    <3> QED
      BY <2>3, <2>4, <3>1, <3>2
  <2>6. CASE found[w] # NoGear
    <3>1. \/ /\ wpc' = [wpc EXCEPT ![w] = "take"]
             /\ UNCHANGED <<optimized, batch, hand>>
          \/ /\ optimized' = optimized \cup {t}
             /\ \/ /\ batch' = batch \cup {t} /\ hand' = hand
                   /\ wpc' = [wpc EXCEPT ![w] = "take"]
                \/ /\ batch' = {} /\ hand' = [hand EXCEPT ![w] = batch \cup {t}]
                   /\ wpc' = [wpc EXCEPT ![w] = "emit"]
      BY <1>6, <2>6, CompleteCases
    <3> HIDE DEF t
    <3> QED
      BY <2>3, <2>4, <3>1
  <2> QED
    BY <2>5, <2>6
<1>7. CASE Emit(w)
  <2>1. /\ wpc[w] = "emit" /\ wpc' = [wpc EXCEPT ![w] = "take"]
        /\ hand' = [hand EXCEPT ![w] = {}] /\ Stream(hand[w])
        /\ UNCHANGED <<batch, optimized>>
    BY <1>7 DEF Emit, Goto, accVars
  <2>2. \A p \in Positions : streamed'[p] = IF p \in hand[w] THEN streamed[p] + 1
                                            ELSE streamed[p]
    BY <2>1 DEF Stream
  <2>3. \A v \in Workers : hand'[v] = IF v = w THEN {} ELSE hand[v]
    BY <2>1
  <2>4. \A p \in hand[w] : p \in optimized /\ p \notin batch
                           /\ \A v \in Workers : p \notin hand'[v]
    BY <2>3 DEF StreamInv
  <2>5. \A p \in Positions :
          /\ streamed'[p] \in {0, 1}
          /\ streamed'[p] = 1 => p \in optimized
          /\ p \in optimized => (streamed'[p] = 0 <=> p \in batch \/ \E v \in Workers : p \in hand'[v])
    <3> SUFFICES ASSUME NEW p \in Positions
                 PROVE  /\ streamed'[p] \in {0, 1}
                        /\ streamed'[p] = 1 => p \in optimized
                        /\ p \in optimized =>
                             (streamed'[p] = 0 <=> p \in batch \/ \E v \in Workers : p \in hand'[v])
      OBVIOUS
    <3>1. CASE p \in hand[w]
      <4>1. streamed[p] = 0
        BY <2>4, <3>1 DEF StreamInv
      <4> QED
        BY <2>2, <2>4, <3>1, <4>1
    <3>2. CASE p \notin hand[w]
      <4>1. streamed'[p] = streamed[p]
        BY <2>2, <3>2
      <4>2. (\E v \in Workers : p \in hand'[v]) <=> \E v \in Workers : p \in hand[v]
        BY <2>3, <3>2
      <4> QED
        BY <4>1, <4>2 DEF StreamInv
    <3> QED
      BY <3>1, <3>2
  <2>6. \A v \in Workers : wpc'[v] # "emit" => hand'[v] = {}
    BY <1>2, <2>3 DEF StreamInv
  <2> QED
    BY <1>1, <1>4, <2>1, <2>3, <2>5, <2>6 DEF StreamInv
<1> QED
  BY <1>5, <1>6, <1>7 DEF WorkerStep

-----------------------------------------------------------------------------
(* No candidate is lost between the channel and the accumulator.            *)

\* What the main goroutine has passed is in the channel, with a worker, or completed.
LEMMA MainFeed ==
  ASSUME Types, FeedInv, MainControl
  PROVE  FeedInv'
<1> USE DEF FeedInv
<1>1. request' = request /\ Positions' = Positions /\ Candidates' = Candidates
  BY RequestKept DEF Control
<1>2. CASE StartControl
  BY <1>1, <1>2 DEF StartControl, workVars, cacheVars, accVars
<1>3. CASE Feed
  <2>1. /\ UNCHANGED <<mpc, task, wpc, completed, abort>> /\ mpc = "feed"
        /\ fed \in Nat /\ fed' = fed + 1 /\ fed < Len(request)
        /\ Len(request) \in Nat
    BY <1>3, LenProperties DEF Feed, workVars, accVars, Types
  <2>2. /\ \A i \in 1..Len(jobs) : i \in 1..Len(jobs') /\ jobs'[i] = jobs[i]
        /\ fed' \in Candidates => \E i \in 1..Len(jobs') : jobs'[i] = fed'
    <3>1. CASE fed' \in Candidates
      <4>1. /\ jobs' = Append(jobs, fed')
            /\ jobs \in Seq(Candidates) /\ Len(jobs) \in Nat
        BY <1>3, <3>1, LenProperties DEF Feed, Types
      <4>2. /\ Len(jobs') = Len(jobs) + 1
            /\ \A i \in 1..Len(jobs) : jobs'[i] = jobs[i]
            /\ jobs'[Len(jobs) + 1] = fed'
        BY <3>1, <4>1, AppendProperties
      <4>3. Len(jobs) + 1 \in 1..Len(jobs') /\ 1..Len(jobs) \subseteq 1..Len(jobs')
        BY <4>1, <4>2
      <4> QED
        BY <4>2, <4>3
    <3>2. CASE fed' \notin Candidates
      BY <1>3, <3>2 DEF Feed
    <3> QED
      BY <3>1, <3>2
  <2>3. ASSUME NEW p \in Candidates, p <= fed'
        PROVE  \/ abort \/ p \in completed
               \/ \E i \in 1..Len(jobs') : jobs'[i] = p
               \/ \E w \in Workers : task[w] = p
    <3>1. p \in Nat
      BY CandidateFacts
    <3>2. p <= fed \/ p = fed'
      BY <2>1, <2>3, <3>1
    <3> QED
      BY <2>2, <3>2
  <2> QED
    BY <1>1, <2>1, <2>3
<1>4. CASE CloseJobs
  BY <1>1, <1>4 DEF CloseJobs, workVars, accVars
<1>5. CASE Flush
  BY <1>1, <1>5 DEF Flush, workVars
<1>6. CASE ConcludeControl
  BY <1>1, <1>6 DEF ConcludeControl, workVars, accVars
<1> QED
  BY <1>2, <1>3, <1>4, <1>5, <1>6 DEF MainControl

\* A worker passes on what it takes; a task that an abort discards does not count.
LEMMA WorkerFeed ==
  ASSUME Types, TaskInv, FeedInv, NEW w \in Workers, WorkerStep(w)
  PROVE  FeedInv'
<1> USE DEF FeedInv
<1>1. /\ request' = request /\ Positions' = Positions /\ Candidates' = Candidates
      /\ UNCHANGED <<mpc, fed, abort>>
  BY RequestKept DEF Control, WorkerStep, mainVars
<1>2. CASE Take(w)
  <2>1. /\ wpc[w] = "take" /\ jobs # <<>> /\ jobs' = Tail(jobs) /\ UNCHANGED completed
        /\ ~abort => task' = [task EXCEPT ![w] = Head(jobs)]
    BY <1>2 DEF Take, accVars
  <2>2. \A v \in Workers : wpc'[v] # "gone"
    <3>1. \A v \in Workers : wpc[v] # "gone"
      BY <2>1
    <3> QED
      BY <1>2, <3>1 DEF Take, Goto, Types
  <2>3. ASSUME NEW p \in Candidates, p <= fed, ~abort
        PROVE  \/ p \in completed
               \/ \E i \in 1..Len(jobs') : jobs'[i] = p
               \/ \E v \in Workers : task'[v] = p
    <3>1. task'[w] = jobs[1] /\ \A v \in Workers : v # w => task'[v] = task[v]
      BY <2>1, <2>3, TakeFacts DEF Types
    <3>2. CASE \E v \in Workers : task[v] = p
      <4>1. task[w] = 0 /\ p # 0
        BY <2>1, CandidateFacts DEF TaskInv, NoTask
      <4> QED
        BY <3>1, <3>2, <4>1
    <3>3. CASE \E i \in 1..Len(jobs) : jobs[i] = p
      <4>1. PICK i \in 1..Len(jobs) : jobs[i] = p
        BY <3>3
      <4>2. Len(jobs) \in Nat /\ Len(jobs') = Len(jobs) - 1
        BY <2>1, TakeFacts, LenProperties DEF Types
      <4>3. i # 1 => i - 1 \in 1..Len(jobs') /\ (i - 1) + 1 = i
        BY <4>2
      <4>4. i # 1 => jobs'[i - 1] = p
        BY <2>1, <4>1, <4>3, TakeFacts
      <4> QED
        BY <2>1, <3>1, <4>1, <4>3, <4>4
    <3> QED
      BY <2>3, <3>2, <3>3
  <2> QED
    BY <1>1, <2>1, <2>2, <2>3
<1>3. CASE Leave(w)
  BY <1>1, <1>3 DEF Leave, Goto, accVars, Types
<1>4. CASE Complete(w)
  <2>1. /\ UNCHANGED jobs /\ task' = [task EXCEPT ![w] = 0]
        /\ completed \subseteq completed' /\ (abort \/ task[w] \in completed')
        /\ \E pc \in {"take", "emit"} : wpc' = [wpc EXCEPT ![w] = pc]
    BY <1>4 DEF Complete, HandOver, Goto, accVars
  <2>2. \A v \in Workers : wpc'[v] = "gone" => wpc[v] = "gone"
    BY <2>1 DEF Types
  <2>3. \A v \in Workers : v # w => task'[v] = task[v]
    BY <2>1 DEF Types
  <2> QED
    BY <1>1, <2>1, <2>2, <2>3
<1>5. CASE Lookup(w) \/ Enter(w) \/ Await(w) \/ Solve(w) \/ Store(w) \/ Publish(w) \/ Drop(w)
           \/ Emit(w)
  <2>1. /\ UNCHANGED <<jobs, task, completed>>
        /\ \E pc \in WorkerPCs \ {"gone"} : wpc' = [wpc EXCEPT ![w] = pc]
    BY <1>5
       DEF Lookup, Enter, Await, Solve, Store, Publish, Drop, Emit, Answered, Goto, accVars,
           WorkerPCs
  <2>2. \A v \in Workers : wpc'[v] = "gone" => wpc[v] = "gone"
    BY <2>1 DEF Types
  <2> QED
    BY <1>1, <2>1, <2>2
<1> QED
  BY <1>2, <1>3, <1>4, <1>5 DEF WorkerStep

-----------------------------------------------------------------------------
(* The invariant, and what follows from it.                                 *)

\* The invariant holds when the pre-pass begins.
LEMMA FreshInvariant == request \in Requests /\ Fresh => IInv
<1> SUFFICES ASSUME request \in Requests, Fresh PROVE IInv
  OBVIOUS
<1> USE ReforgeAssumption DEF Fresh
<1>1. request \in Seq(Gears \cup {NoGear})
  OBVIOUS
<1>2. jobs \in Seq(Candidates) /\ Len(jobs) = 0
  BY EmptySeq
<1>3. Types
  <2>1. \A p \in Positions : request[p] \in Answers
    BY <1>1, ElementOfSeq DEF Positions, Answers
  <2> QED
    BY <1>1, <1>2, <2>1 DEF Types, WorkerPCs, Answers
<1>4. TaskInv
  BY <1>2 DEF TaskInv, NoTask
<1>5. FlightInv /\ OnceInv
  BY DEF FlightInv, OnceInv, Owning
<1>6. VerdictInv
  BY DEF VerdictInv, Candidates
<1>7. StreamInv
  BY DEF StreamInv
<1>8. FeedInv
  <2>1. Len(request) \in Nat
    BY <1>1, LenProperties
  <2>2. \A p \in Candidates : ~ (p <= 0)
    BY <1>3, CandidateFacts
  <2> QED
    BY <2>1, <2>2 DEF FeedInv
<1> QED
  BY <1>3, <1>4, <1>5, <1>6, <1>7, <1>8 DEF IInv

\* An abort, at any time, breaks no part of it.
LEMMA AbortInvariant ==
  ASSUME IInv, AbortControl
  PROVE  IInv'
<1>1. /\ UNCHANGED <<request, mpc, fed, jobs, wpc, task, found, awaits, hand>>
      /\ UNCHANGED <<cached, answer, inFlight, solve, solves, gear, completed, optimized, batch>>
      /\ UNCHANGED streamed /\ abort' = TRUE
      /\ Positions' = Positions /\ Candidates' = Candidates
  BY DEF AbortControl, workVars, cacheVars, accVars, Positions, Candidates
<1>2. Types' /\ TaskInv' /\ FlightInv' /\ StreamInv'
  BY <1>1 DEF IInv, Types, TaskInv, FlightInv, StreamInv, Key, Answers
<1>3. OnceInv'
  BY <1>1 DEF OnceInv
<1>4. VerdictInv'
  BY <1>1 DEF IInv, VerdictInv, Verdict, Key
<1>5. FeedInv'
  BY <1>1 DEF IInv, FeedInv
<1> QED
  BY <1>2, <1>3, <1>4, <1>5 DEF IInv

\* Every step of the control keeps the invariant.
LEMMA ControlInvariant == IInv /\ [Control]_controlVars => IInv'
<1> SUFFICES ASSUME IInv, [Control]_controlVars PROVE IInv'
  OBVIOUS
<1> USE DEF IInv
<1>1. CASE MainControl
  BY <1>1, MainTypes, MainTasks, MainFlight, MainVerdict, MainStream, MainFeed
<1>2. ASSUME NEW w \in Workers, WorkerStep(w) PROVE IInv'
  BY <1>2, WorkerTypes, WorkerTasks, WorkerFlight, WorkerVerdict, WorkerStream, WorkerFeed
<1>3. CASE AbortControl
  BY <1>3, AbortInvariant
<1>4. CASE UNCHANGED controlVars
  <2>1. /\ UNCHANGED <<request, mpc, fed, jobs, wpc, task, found, awaits, hand, streamed>>
        /\ UNCHANGED <<cached, answer, inFlight, solve, solves, gear, completed, optimized, batch>>
        /\ abort' = abort /\ Positions' = Positions /\ Candidates' = Candidates
    BY <1>4 DEF controlVars, workVars, cacheVars, accVars, Positions, Candidates
  <2>2. Types' /\ TaskInv' /\ FlightInv' /\ StreamInv'
    BY <2>1 DEF Types, TaskInv, FlightInv, StreamInv, Key, Answers
  <2>3. OnceInv' /\ VerdictInv' /\ FeedInv'
    BY <2>1 DEF OnceInv, VerdictInv, Verdict, Key, FeedInv
  <2> QED
    BY <2>2, <2>3
<1> QED
  BY <1>1, <1>2, <1>3, <1>4 DEF Control

\* What the invariant says of solves.
LEMMA SolvedOnceHolds == IInv => SolvedOnce
<1> SUFFICES ASSUME IInv PROVE SolvedOnce
  OBVIOUS
<1> USE DEF IInv
<1>1. \A w, v \in Workers :
        wpc[w] = "solve" /\ wpc[v] = "solve" /\ Key(w) = Key(v) => w = v
  BY OneOwner DEF Owning
<1>2. \A g \in Gears : abort \/ solves[g] <= 1
  BY DEF OnceInv, Types
<1>3. \A p, q \in completed :
        request[p] = request[q] => gear[p] = gear[q] /\ (p \in optimized <=> q \in optimized)
  BY DEF VerdictInv, Types
<1> QED
  BY <1>1, <1>2, <1>3 DEF SolvedOnce

\* What it says of the stream.
LEMMA StreamedOnceHolds == IInv => StreamedOnce
<1> SUFFICES ASSUME IInv PROVE StreamedOnce
  OBVIOUS
<1> USE DEF IInv, Types
<1>1. \A p \in Positions : streamed[p] <= 1
  <2> SUFFICES ASSUME NEW p \in Positions PROVE streamed[p] <= 1
    OBVIOUS
  <2>1. streamed[p] = 0 \/ streamed[p] = 1
    BY DEF StreamInv
  <2> QED
    BY <2>1
<1>2. \A p \in Positions : streamed[p] = 1 => p \in optimized /\ gear[p] = Reforged[request[p]]
  BY DEF StreamInv, VerdictInv
<1>3. mpc \in {"conclude", "done"} => \A p \in Positions : streamed[p] = 1 <=> p \in optimized
  <2>1. CASE Candidates = {}
    BY <2>1 DEF StreamInv
  <2>2. CASE batch = {} /\ \A w \in Workers : wpc[w] = "gone"
    BY <2>2 DEF StreamInv
  <2> QED
    BY <2>1, <2>2 DEF StreamInv
<1> QED
  BY <1>1, <1>2, <1>3 DEF StreamedOnce

-----------------------------------------------------------------------------
(* What goes on to the simulation.                                          *)

\* When the workers have left, unless the job was aborted, every candidate is completed.
LEMMA AllCompleted ==
  ASSUME IInv, mpc \in {"conclude", "done"}
  PROVE  abort \/ completed = Candidates
<1> USE DEF IInv
<1>1. CASE Candidates = {}
  BY <1>1 DEF Types
<1>2. CASE Candidates # {}
  <2>1. \A w \in Workers : wpc[w] = "gone" /\ task[w] = 0
    <3>1. \A w \in Workers : wpc[w] = "gone"
      BY <1>2 DEF StreamInv
    <3>2. \A w \in Workers : wpc[w] \in NoTask => task[w] = 0
      BY DEF TaskInv
    <3> QED
      BY <3>1, <3>2 DEF NoTask
  <2>2. jobs = <<>> /\ Len(jobs) = 0
    BY <2>1, ReforgeAssumption, EmptySeq DEF FeedInv
  <2>3. \A p \in Candidates : p # 0 /\ p <= Len(request)
    BY CandidateFacts DEF Candidates, Positions
  <2>4. abort \/ \A p \in Candidates : p \in completed
    BY <1>2, <2>1, <2>2, <2>3 DEF FeedInv
  <2> QED
    BY <2>4 DEF Types
<1> QED
  BY <1>1, <1>2

\* What is completed has a gear.
LEMMA CompletedFacts ==
  ASSUME IInv
  PROVE  /\ Completed(completed) \in Seq(Gears)
         /\ ToSet(Completed(completed)) = {gear[p] : p \in completed}
<1> USE DEF IInv
<1>1. \A p \in Candidates : p \in Nat /\ p \in Positions /\ request[p] \in Gears
  BY CandidateFacts
<1>2. \A p \in completed : gear[p] \in Gears
  <2> SUFFICES ASSUME NEW p \in completed PROVE gear[p] \in Gears
    OBVIOUS
  <2>1. p \in Candidates /\ p \in Positions
    BY <1>1 DEF Types
  <2>2. CASE p \in optimized
    <3>1. gear[p] # NoGear
      BY <2>2 DEF VerdictInv
    <3> QED
      BY <2>1, <3>1 DEF Types, Answers
  <2>3. CASE p \notin optimized
    BY <1>1, <2>1, <2>3 DEF VerdictInv
  <2> QED
    BY <2>2, <2>3
<1>3. completed \in SUBSET Nat /\ completed \in SUBSET (1..Len(request))
  BY <1>1 DEF Types, Candidates, Positions
<1>4. IsFiniteSet(completed)
  <2>1. IsFiniteSet(1..Len(request))
    BY LenProperties, FS_Interval DEF Types
  <2> QED
    BY <1>3, <2>1, FS_Subset
<1> QED
  BY <1>2, <1>3, <1>4, PickFacts DEF Completed

\* What is restored and what is completed, in one sequence.
LEMMA ConcatFacts ==
  ASSUME NEW T, NEW s \in Seq(T), NEW r \in Seq(T)
  PROVE  s \o r \in Seq(T) /\ ToSet(s \o r) = ToSet(s) \cup ToSet(r)
<1>0. PICK c : c = s \o r
  OBVIOUS
<1>1. /\ c \in Seq(T) /\ Len(c) = Len(s) + Len(r)
      /\ \A i \in 1..Len(s) + Len(r) : c[i] = IF i <= Len(s) THEN s[i] ELSE r[i - Len(s)]
  BY <1>0, ConcatProperties
<1>2. /\ Len(s) \in Nat /\ Len(r) \in Nat
      /\ DOMAIN s = 1..Len(s) /\ DOMAIN r = 1..Len(r) /\ DOMAIN c = 1..Len(c)
  BY <1>1, LenProperties
<1>3. \A i \in 1..Len(c) : c[i] \in ToSet(s) \cup ToSet(r)
  <2> SUFFICES ASSUME NEW i \in 1..Len(c) PROVE c[i] \in ToSet(s) \cup ToSet(r)
    OBVIOUS
  <2>1. i <= Len(s) => i \in 1..Len(s) /\ c[i] = s[i]
    BY <1>1, <1>2
  <2>2. ~ (i <= Len(s)) => i - Len(s) \in 1..Len(r) /\ c[i] = r[i - Len(s)]
    BY <1>1, <1>2
  <2> QED
    BY <1>2, <2>1, <2>2 DEF ToSet
<1>4. \A i \in 1..Len(s) : i \in 1..Len(c) /\ c[i] = s[i]
  BY <1>1, <1>2
<1>5. \A i \in 1..Len(r) : Len(s) + i \in 1..Len(c) /\ c[Len(s) + i] = r[i]
  <2> SUFFICES ASSUME NEW i \in 1..Len(r)
               PROVE  Len(s) + i \in 1..Len(c) /\ c[Len(s) + i] = r[i]
    OBVIOUS
  <2>1. /\ Len(s) + i \in 1..Len(s) + Len(r) /\ ~ (Len(s) + i <= Len(s))
        /\ (Len(s) + i) - Len(s) = i
    BY <1>2
  <2> QED
    BY <1>1, <2>1
<1>6. ToSet(s) \subseteq ToSet(c) /\ ToSet(r) \subseteq ToSet(c)
  BY <1>2, <1>4, <1>5 DEF ToSet
<1>7. ToSet(c) \subseteq ToSet(s) \cup ToSet(r)
  BY <1>2, <1>3 DEF ToSet
<1> QED
  BY <1>0, <1>1, <1>6, <1>7

\* A step of the control that hands on what Start or Conclude makes of it.
LEMMA SimmedKept ==
  ASSUME IInv, SimmedInv, [Control]_controlVars,
         \/ Start \/ Conclude
         \/ UNCHANGED simmed /\ (mpc' = "done" => mpc = "done")
  PROVE  SimmedInv'
<1>1. CASE Start
  <2>1. mpc' = "done" => simmed' = Dedupe(Restored) /\ Candidates = {}
    BY <1>1 DEF Start
  <2>2. mpc' # "done" => simmed' = simmed
    BY <1>1 DEF Start
  <2>3. UNCHANGED <<gear, completed, abort>>
    BY <1>1 DEF Start, accVars
  <2>4. /\ Dedupe(Restored) \in Seq(Gears)
        /\ IsInjective(Dedupe(Restored)) /\ Baseline \notin ToSet(Dedupe(Restored))
        /\ ToSet(Restored) \subseteq ToSet(Dedupe(Restored)) \cup {Baseline}
    BY ReforgeAssumption, DedupeFacts
  <2>5. Candidates = {} => completed = {}
    BY DEF IInv, Types
  <2> QED
    BY <2>1, <2>2, <2>3, <2>4, <2>5 DEF SimmedInv
<1>2. CASE Conclude
  <2>0. PICK s : s = Restored \o Completed(completed)
    OBVIOUS
  <2>1. simmed' = IF abort THEN <<>> ELSE Dedupe(s)
    BY <1>2, <2>0 DEF Conclude
  <2>2. UNCHANGED <<gear, completed, abort>>
    BY <1>2 DEF Conclude, accVars
  <2>3. s \in Seq(Gears) /\ ToSet(s) = ToSet(Restored) \cup {gear[p] : p \in completed}
    BY <2>0, ConcatFacts, CompletedFacts, ReforgeAssumption
  <2>4. CASE abort
    <3>1. simmed' = <<>> /\ DOMAIN simmed' = {}
      BY <2>1, <2>4
    <3>2. simmed' \in Seq(Gears) /\ IsInjective(simmed') /\ ToSet(simmed') = {}
      BY <3>1, EmptySeq DEF IsInjective, ToSet
    <3> QED
      BY <2>2, <2>4, <3>2 DEF SimmedInv
  <2>5. CASE ~abort
    <3>1. /\ simmed' \in Seq(Gears)
          /\ IsInjective(simmed') /\ Baseline \notin ToSet(simmed')
          /\ ToSet(s) \subseteq ToSet(simmed') \cup {Baseline}
      BY <2>1, <2>3, <2>5, DedupeFacts
    <3> QED
      BY <2>2, <2>3, <3>1 DEF SimmedInv
  <2> QED
    BY <2>4, <2>5
<1>3. CASE UNCHANGED simmed /\ (mpc' = "done" => mpc = "done")
  <2>1. CASE mpc' # "done"
    BY <1>3, <2>1 DEF SimmedInv
  <2>2. CASE mpc' = "done"
    <3>1. mpc = "done"
      BY <1>3, <2>2
    <3>2. ~ MainControl
      BY <3>1 DEF MainControl, StartControl, Feed, CloseJobs, Flush, ConcludeControl
    <3>3. CASE AbortControl
      BY <1>3, <3>1, <3>3 DEF AbortControl, SimmedInv
    <3>4. CASE UNCHANGED controlVars
      BY <1>3, <3>1, <3>4 DEF controlVars, accVars, SimmedInv
    <3>5. ASSUME NEW w \in Workers, WorkerStep(w) PROVE SimmedInv'
      <4>1. wpc[w] # "gone" /\ abort' = abort
        BY <3>5
           DEF WorkerStep, Take, Leave, Lookup, Enter, Await, Solve, Store, Publish, Drop,
               Complete, Emit
      <4>2. Candidates = {}
        BY <3>1, <4>1 DEF IInv, StreamInv
      <4>3. completed = {} /\ completed' = {}
        <5>1. IInv' /\ Candidates' = Candidates
          BY ControlInvariant, RequestKept
        <5> QED
          BY <4>2, <5>1 DEF IInv, Types
      <4> QED
        BY <1>3, <3>1, <4>1, <4>3 DEF SimmedInv
    <3> QED
      BY <3>2, <3>3, <3>4, <3>5 DEF Control
  <2> QED
    BY <2>1, <2>2
<1> QED
  BY <1>1, <1>2, <1>3

\* What the invariant says of what is simulated.
LEMMA NothingSimmedTwiceHolds == IInv /\ SimmedInv => NothingSimmedTwice
<1> SUFFICES ASSUME IInv, SimmedInv, mpc = "done"
             PROVE  /\ IsInjective(simmed)
                    /\ Baseline \notin ToSet(simmed)
                    /\ abort \/ {gear[p] : p \in Candidates} \cup ToSet(Restored)
                                  \subseteq ToSet(simmed) \cup {Baseline}
                    /\ abort \/ completed = Candidates
  BY DEF NothingSimmedTwice
<1>1. abort \/ completed = Candidates
  BY AllCompleted
<1> QED
  BY <1>1 DEF SimmedInv

\* And of the types.
LEMMA TypesHold == request \in Requests /\ IInv /\ SimmedInv => TypeOK
<1> SUFFICES ASSUME request \in Requests, IInv, SimmedInv PROVE TypeOK
  OBVIOUS
<1>1. fed \in 0..Len(request)
  BY LenProperties DEF IInv, Types, FeedInv
<1> QED
  BY <1>1 DEF IInv, Types, SimmedInv, TypeOK, WorkerPCs

\* So it holds always.
LEMMA Inductive == Spec => [](request \in Requests /\ IInv /\ SimmedInv)
<1>1. Init => request \in Requests /\ IInv /\ SimmedInv
  BY FreshInvariant, EmptySeq DEF Init, Fresh, SimmedInv
<1>2. request \in Requests /\ IInv /\ SimmedInv /\ [Next]_vars
        => (request \in Requests /\ IInv /\ SimmedInv)'
  <2> SUFFICES ASSUME request \in Requests, IInv, SimmedInv, [Next]_vars
               PROVE  (request \in Requests /\ IInv /\ SimmedInv)'
    OBVIOUS
  <2>1. IInv' /\ request' = request
    BY ControlSteps, ControlInvariant, RequestKept
  <2>2. \/ Start \/ Conclude
        \/ UNCHANGED simmed /\ (mpc' = "done" => mpc = "done")
    BY DEF Next, MainStep, Feed, CloseJobs, Flush, WorkerStep, Abort, mainVars, vars
  <2> QED
    BY <2>1, <2>2, ControlSteps, SimmedKept
<1> QED
  BY <1>1, <1>2, PTL DEF Spec

\* However many workers ask for the same gear, in whatever order solves end, fail or
\* are aborted: no two of them solve it at once, it is solved once unless the job was
\* aborted, and its candidates end alike.
THEOREM GearSolvedOnce == Spec => []SolvedOnce
BY SolvedOnceHolds, Inductive, PTL

\* The client gets every optimized candidate once, with the gear of its own solve, in
\* whatever order the workers hand over and send their batches.
THEOREM CandidateStreamedOnce == Spec => []StreamedOnce
BY StreamedOnceHolds, Inductive, PTL

\* Unless the job was aborted every candidate is completed and its gear simulated, no
\* gear is simulated twice, and none is the baseline's.
THEOREM CandidateSimmedOnce == Spec => []NothingSimmedTwice
BY NothingSimmedTwiceHolds, Inductive, PTL

\* The types of the model are right.
THEOREM TypeCorrect == Spec => []TypeOK
BY TypesHold, Inductive, PTL

=============================================================================
