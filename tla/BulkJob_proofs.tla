--------------------------- MODULE BulkJob_proofs ---------------------------
(***************************************************************************)
(* Proofs about a whole bulk job, for any number of candidates, workers    *)
(* and stages' parameters.                                                 *)
(*                                                                         *)
(* What ReforgePrepass_proofs shows of the pre-pass holds of it as a part  *)
(* of the job: every step of BulkJob is a step of the pre-pass, leaves its *)
(* variables alone, or begins it anew.                                     *)
(*                                                                         *)
(* Of the stages two things are shown: results that are compared consist   *)
(* of the same samples (Lockstep), and a job that is reported as complete  *)
(* was not aborted and rests on whole results (CompleteIsWhole).  The      *)
(* invariant, StagesInv, says for each place of the job's goroutine how    *)
(* far the baseline and the candidates have come: equally far between two  *)
(* stages (AtHead) and where results are compared (AtRest), the baseline   *)
(* ahead while it is probed and extended, the candidates somewhere between *)
(* during a batch (AtBatch).  There the argument is that a candidate       *)
(* without a result is still to come unless the signal is triggered, and   *)
(* that whoever fails is on the way to trigger it: what the pool leaves    *)
(* out, the last look at the signal does not miss.  Heeded carries an      *)
(* abort from the moment it is acknowledged to the final message.          *)
(***************************************************************************)
EXTENDS BulkJob, SequenceTheorems, FiniteSetTheorems, TLAPS

P == INSTANCE ReforgePrepass_proofs WITH
  jobs <- prepassJobs, wpc <- prepassPc, task <- prepassTask,
  batch <- prepassBatch, abort <- firstAbort

\* The invariant of the pre-pass, and the request that it could begin anew with.
PrepassInv == request \in Requests /\ P!IInv /\ P!SimmedInv

-----------------------------------------------------------------------------
(* The two instances of ReforgePrepass mean the same.                       *)

\* Candidates, positions and groups of variables are the same in both.
LEMMA SameNames ==
  /\ Prepass!Positions = P!Positions
  /\ Prepass!Candidates = P!Candidates
  /\ Prepass!workVars = P!workVars
  /\ Prepass!cacheVars = P!cacheVars
  /\ Prepass!accVars = P!accVars
  /\ \A w \in Workers : Prepass!Key(w) = P!Key(w)
BY DEF Prepass!Positions, P!Positions, Prepass!Candidates, P!Candidates, Prepass!workVars,
   P!workVars, Prepass!cacheVars, P!cacheVars, Prepass!accVars, P!accVars, Prepass!Key, P!Key

\* A step of the main goroutine is one in both.
LEMMA SameMain == Prepass!MainStep => P!MainControl
<1> USE DEF Prepass!workVars, P!workVars, Prepass!cacheVars, P!cacheVars,
            Prepass!accVars, P!accVars
<1>1. Prepass!Start => P!StartControl
  BY SameNames DEF Prepass!Start, P!StartControl
<1>2. Prepass!Feed => P!Feed
  BY SameNames DEF Prepass!Feed, P!Feed
<1>3. Prepass!CloseJobs => P!CloseJobs
  BY DEF Prepass!CloseJobs, P!CloseJobs
<1>4. Prepass!Flush => P!Flush
  BY SameNames DEF Prepass!Flush, P!Flush, Prepass!Stream, P!Stream
<1>5. Prepass!Conclude => P!ConcludeControl
  BY DEF Prepass!Conclude, P!ConcludeControl
<1> QED
  BY <1>1, <1>2, <1>3, <1>4, <1>5 DEF Prepass!MainStep, P!MainControl

\* And so is a step of a worker.
LEMMA SameWorker == \A w \in Workers : Prepass!WorkerStep(w) => P!WorkerStep(w)
<1> SUFFICES ASSUME NEW w \in Workers, Prepass!WorkerStep(w) PROVE P!WorkerStep(w)
  OBVIOUS
<1> USE DEF Prepass!workVars, P!workVars, Prepass!cacheVars, P!cacheVars,
            Prepass!accVars, P!accVars, Prepass!mainVars, P!mainVars,
            Prepass!Goto, P!Goto, Prepass!Answered, P!Answered, Prepass!Key, P!Key
<1>1. Prepass!Take(w) => P!Take(w)
  BY DEF Prepass!Take, P!Take
<1>2. Prepass!Leave(w) => P!Leave(w)
  BY DEF Prepass!Leave, P!Leave
<1>3. Prepass!Lookup(w) => P!Lookup(w)
  BY DEF Prepass!Lookup, P!Lookup
<1>4. Prepass!Enter(w) => P!Enter(w)
  BY DEF Prepass!Enter, P!Enter
<1>5. Prepass!Await(w) => P!Await(w)
  BY DEF Prepass!Await, P!Await
<1>6. Prepass!Solve(w) => P!Solve(w)
  BY DEF Prepass!Solve, P!Solve
<1>7. Prepass!Store(w) => P!Store(w)
  BY DEF Prepass!Store, P!Store
<1>8. Prepass!Publish(w) => P!Publish(w)
  BY DEF Prepass!Publish, P!Publish
<1>9. Prepass!Drop(w) => P!Drop(w)
  BY DEF Prepass!Drop, P!Drop
<1>10. Prepass!Complete(w) => P!Complete(w)
  <2>1. \A b : Prepass!HandOver(w, b) => P!HandOver(w, b)
    BY Zenon DEF Prepass!HandOver, P!HandOver, Prepass!Cardinality, P!Cardinality
  <2> QED
    BY <2>1 DEF Prepass!Complete, P!Complete
<1>11. Prepass!Emit(w) => P!Emit(w)
  BY SameNames DEF Prepass!Emit, P!Emit, Prepass!Stream, P!Stream
<1> QED
  BY <1>1, <1>2, <1>3, <1>4, <1>5, <1>6, <1>7, <1>8, <1>9, <1>10, <1>11
     DEF Prepass!WorkerStep, P!WorkerStep

\* What goes on to the simulation is the same in both, too.
LEMMA SameHandOver ==
  /\ Prepass!Start => P!Start
  /\ Prepass!Conclude => P!Conclude
<1>1. \A S : Prepass!InOrder(S) = P!InOrder(S)
  BY Zenon DEF Prepass!InOrder, P!InOrder, Prepass!Rank, P!Rank, Prepass!Cardinality, P!Cardinality
<1>2. \A f, S : Prepass!Pick(f, S) = P!Pick(f, S)
  BY <1>1, Zenon DEF Prepass!Pick, P!Pick, Prepass!Cardinality, P!Cardinality
<1>3. \A s : Prepass!Dedupe(s) = P!Dedupe(s)
  BY <1>2, Zenon DEF Prepass!Dedupe, P!Dedupe, Prepass!Firsts, P!Firsts
<1>4. \A S : Prepass!Completed(S) = P!Completed(S)
  BY <1>2, Zenon DEF Prepass!Completed, P!Completed
<1> USE DEF Prepass!workVars, P!workVars, Prepass!cacheVars, P!cacheVars,
            Prepass!accVars, P!accVars
<1>5. Prepass!Start => P!Start
  BY <1>3, SameNames DEF Prepass!Start, P!Start
<1>6. Prepass!Conclude => P!Conclude
  BY <1>3, <1>4 DEF Prepass!Conclude, P!Conclude
<1> QED
  BY <1>5, <1>6

-----------------------------------------------------------------------------
\* What a step of the job does to the pre-pass.
LEMMA JobSteps ==
  ASSUME [Next]_vars
  PROVE  \/ /\ [P!Control]_P!controlVars
            /\ \/ P!Start \/ P!Conclude
               \/ UNCHANGED simmed /\ (mpc' = "done" => mpc = "done")
         \/ Unregister
<1> USE DEF P!Control
<1>1. UNCHANGED prepassVars => UNCHANGED P!controlVars /\ UNCHANGED <<simmed, mpc>>
  BY DEF prepassVars, P!controlVars, P!workVars, P!cacheVars, P!accVars
<1>2. CASE Register \/ Generate \/ CheckPrepass \/ Delegate \/ FeederStep \/ StagesStep
           \/ Report \/ AbortSecond
  BY <1>1, <1>2
     DEF Register, Generate, CheckPrepass, Delegate, FeederStep, StagesStep, Report, AbortSecond
<1>3. CASE PrepassStep
  <2>1. [P!Control]_P!controlVars
    BY <1>3, SameMain, SameWorker DEF PrepassStep
  <2>2. \/ Prepass!Start \/ Prepass!Conclude
        \/ UNCHANGED simmed /\ (mpc' = "done" => mpc = "done")
    BY <1>3
       DEF PrepassStep, Prepass!MainStep, Prepass!Feed, Prepass!CloseJobs, Prepass!Flush,
           Prepass!WorkerStep, Prepass!mainVars
  <2> QED
    BY <2>1, <2>2, SameHandOver
<1>4. CASE AbortFirst
  BY <1>4 DEF AbortFirst, P!AbortControl, P!workVars, P!cacheVars, P!accVars
<1>5. CASE UNCHANGED vars
  BY <1>1, <1>5 DEF vars
<1> QED
  BY <1>2, <1>3, <1>4, <1>5 DEF Next

\* The first half forgets what was local to it.
LEMMA FreshAgain ==
  ASSUME PrepassInv, Unregister
  PROVE  (request \in Requests /\ P!Fresh)' /\ P!SimmedInv'
<1>1. request' = request /\ P!Positions' = P!Positions
  BY DEF Unregister, Forget, P!Positions
<1>2. request = [p \in P!Positions |-> request[p]]
  BY ReforgeAssumption DEF PrepassInv, P!Positions
<1> QED
  BY <1>1, <1>2, SameNames, EmptySeq
     DEF PrepassInv, Unregister, Forget, P!Fresh, P!SimmedInv

\* The invariant of the pre-pass holds throughout the job.
LEMMA PrepassInductive == Spec => []PrepassInv
<1>1. Init => PrepassInv
  <2>1. Init => request \in Requests /\ P!Fresh /\ P!SimmedInv
    BY SameNames, EmptySeq DEF Init, Prepass!Init, Prepass!Fresh, P!Fresh, P!SimmedInv
  <2> QED
    BY <2>1, P!FreshInvariant, ReforgeAssumption DEF PrepassInv
<1>2. request \in Requests /\ P!Fresh => P!IInv
  BY P!FreshInvariant, ReforgeAssumption
<1>3. (request \in Requests /\ P!Fresh)' => P!IInv'
  BY <1>2, PTL
<1>4. PrepassInv /\ [Next]_vars => PrepassInv'
  <2> SUFFICES ASSUME PrepassInv, [Next]_vars PROVE PrepassInv'
    OBVIOUS
  <2>1. CASE /\ [P!Control]_P!controlVars
             /\ \/ P!Start \/ P!Conclude
                \/ UNCHANGED simmed /\ (mpc' = "done" => mpc = "done")
    <3>1. P!IInv'
      BY <2>1, P!ControlInvariant, ReforgeAssumption DEF PrepassInv
    <3>2. request' = request
      BY <2>1, P!RequestKept, ReforgeAssumption
    <3>3. P!SimmedInv'
      BY <2>1, P!SimmedKept, ReforgeAssumption DEF PrepassInv
    <3> QED
      BY <3>1, <3>2, <3>3 DEF PrepassInv
  <2>2. CASE Unregister
    BY <1>3, <2>2, FreshAgain DEF PrepassInv
  <2> QED
    BY <2>1, <2>2, JobSteps
<1> QED
  BY <1>1, <1>4, PTL DEF Spec

\* In a bulk job, too, no gear is solved by two workers at once, none twice unless the
\* job was aborted, and candidates of one gear end alike.
THEOREM GearSolvedOnce == Spec => []SolvedOnce
<1>1. PrepassInv => SolvedOnce
  <2>1. P!IInv => P!SolvedOnce
    BY P!SolvedOnceHolds, ReforgeAssumption
  <2>2. P!SolvedOnce => Prepass!SolvedOnce
    BY DEF P!SolvedOnce, Prepass!SolvedOnce, P!Key, Prepass!Key
  <2> QED
    BY <2>1, <2>2 DEF PrepassInv, SolvedOnce
<1> QED
  BY <1>1, PrepassInductive, PTL

\* And the client of a bulk job gets every optimized candidate once.
THEOREM CandidateStreamedOnce == Spec => []StreamedOnce
<1>1. PrepassInv => StreamedOnce
  <2>1. P!IInv => P!StreamedOnce
    BY P!StreamedOnceHolds, ReforgeAssumption
  <2>2. P!StreamedOnce => Prepass!StreamedOnce
    BY SameNames DEF P!StreamedOnce, Prepass!StreamedOnce
  <2> QED
    BY <2>1, <2>2 DEF PrepassInv, StreamedOnce
<1> QED
  BY <1>1, PrepassInductive, PTL

\* And what is simulated are all the gears asked for, each once.
THEOREM CandidateSimmedOnce == Spec => []NothingSimmedTwice
<1>1. PrepassInv => NothingSimmedTwice
  <2>1. P!IInv /\ P!SimmedInv => P!NothingSimmedTwice
    BY P!NothingSimmedTwiceHolds, ReforgeAssumption
  <2>2. P!NothingSimmedTwice => Prepass!NothingSimmedTwice
    BY SameNames
       DEF P!NothingSimmedTwice, Prepass!NothingSimmedTwice, P!ToSet, Prepass!ToSet,
           P!IsInjective, Prepass!IsInjective
  <2> QED
    BY <2>1, <2>2 DEF PrepassInv, NothingSimmedTwice
<1> QED
  BY <1>1, PrepassInductive, PTL

-----------------------------------------------------------------------------
(* The stages: samples and results.                                        *)

Jobs     == Gears \ {Baseline}
Absent   == Stages!Absent
Good(r)  == Stages!Good(r)
Broken(r) == Stages!Broken(r)

\* The samples of a single run of m iterations.
Whole(m) == Stages!Segment(0, m)

\* A result that goes up to the m-th sample.
Carried(r, m) == r = IF m = 0 THEN Absent ELSE Whole(m)

\* Samples are a sequence of numbers.
LEMMA SamplesType ==
  ASSUME NEW o \in Nat, NEW n \in Nat
  PROVE  Stages!Samples(o, n) \in Seq(Nat) /\ Len(Stages!Samples(o, n)) = n
<1>1. \A i \in 1..n : o + i - 1 \in Nat
  OBVIOUS
<1>2. Stages!Samples(o, n) \in Seq(Nat)
  BY <1>1, IsASeq DEF Stages!Samples
<1> QED
  BY <1>2 DEF Stages!Samples

\* A segment is a good result.
LEMMA SegmentType ==
  ASSUME NEW o \in Nat, NEW n \in Nat
  PROVE  /\ Stages!Segment(o, n) \in Stages!Results
         /\ Good(Stages!Segment(o, n)) /\ ~Broken(Stages!Segment(o, n))
         /\ Stages!Segment(o, n) # Absent
BY SamplesType
   DEF Stages!Segment, Stages!Results, Stages!Absent, Stages!Good, Stages!Broken,
       Good, Broken, Absent

\* A segment continues the samples before it.
LEMMA SamplesContinue ==
  ASSUME NEW m \in Nat, NEW n \in Nat
  PROVE  Stages!Samples(0, m) \o Stages!Samples(m, n) = Stages!Samples(0, m + n)
<1>0. PICK a, b, c : /\ a = Stages!Samples(0, m)
                     /\ b = Stages!Samples(m, n)
                     /\ c = Stages!Samples(0, m + n)
  OBVIOUS
<1>1. /\ a \in Seq(Nat) /\ Len(a) = m
      /\ b \in Seq(Nat) /\ Len(b) = n
      /\ c \in Seq(Nat) /\ Len(c) = m + n
  <2>1. m + n \in Nat
    OBVIOUS
  <2> QED
    BY <1>0, <2>1, SamplesType
<1>2. a \o b \in Seq(Nat) /\ Len(a \o b) = m + n
  BY <1>1, ConcatProperties
<1>3. ASSUME NEW i \in 1..(m + n) PROVE (a \o b)[i] = c[i]
  <2>1. (a \o b)[i] = IF i <= m THEN a[i] ELSE b[i - m]
    BY <1>1, ConcatProperties
  <2>2. c[i] = i - 1
    BY <1>0 DEF Stages!Samples
  <2>3. i <= m => a[i] = i - 1
    BY <1>0 DEF Stages!Samples
  <2>4. i > m => b[i - m] = i - 1
    <3>1. i > m => i - m \in 1..n /\ m + (i - m) - 1 = i - 1
      OBVIOUS
    <3> QED
      BY <1>0, <3>1 DEF Stages!Samples
  <2> QED
    BY <2>1, <2>2, <2>3, <2>4
<1>4. a \o b = c
  BY <1>1, <1>2, <1>3, SeqEqual
<1> QED
  BY <1>0, <1>4

\* What a simulation may come to: the segment, unless the signal is triggered, or an error.
LEMMA OutcomeFacts ==
  ASSUME NEW c, NEW o \in Nat, NEW n \in Nat, NEW s \in Stages!Outcomes(c, o, n)
  PROVE  /\ s \in Stages!Results
         /\ \/ ~secondAbort /\ s = Stages!Segment(o, n) /\ Good(s) /\ ~Broken(s)
            \/ Broken(s) /\ ~Good(s)
<1>1. \/ ~secondAbort /\ s = Stages!Segment(o, n)
      \/ s \in {Stages!Error("aborted"), Stages!Error("failed")}
  BY DEF Stages!Outcomes
<1>2. \A e \in {"aborted", "failed"} :
        /\ Stages!Error(e) \in Stages!Results
        /\ Broken(Stages!Error(e)) /\ ~Good(Stages!Error(e))
  BY EmptySeq DEF Stages!Error, Stages!Results, Stages!Broken, Stages!Good, Good, Broken
<1> QED
  BY <1>1, <1>2, SegmentType

\* A result that is carried is continued by the next segment, and an error takes its place.
LEMMA MergeFacts ==
  ASSUME NEW m \in Nat, NEW n \in Nat, NEW r, Carried(r, m)
  PROVE  /\ Stages!Merge(r, Stages!Segment(m, n)) = Whole(m + n)
         /\ \A s : ~Good(s) => Stages!Merge(r, s) = s
<1>1. CASE m = 0
  <2>1. r.err = "absent" /\ ~Stages!Broken(r) /\ ~Stages!Good(r)
    BY <1>1 DEF Carried, Absent, Stages!Absent, Stages!Broken, Stages!Good
  <2>2. \A s : Stages!Merge(r, s) = s
    BY <2>1, Zenon DEF Stages!Merge
  <2>3. m + n = n
    BY <1>1
  <2> QED
    BY <1>1, <2>2, <2>3 DEF Whole
<1>2. CASE m # 0
  <2>1. r = [seeds |-> Stages!Samples(0, m), err |-> "none"]
    BY <1>2 DEF Carried, Whole, Stages!Segment
  <2>3. r.err = "none" /\ r.seeds = Stages!Samples(0, m)
    BY <2>1
  <2>4. \A s : Stages!Merge(r, s) = IF Good(s) THEN [seeds |-> r.seeds \o s.seeds, err |-> r.err]
                                       ELSE s
    BY <2>3 DEF Stages!Merge, Stages!Good, Stages!Broken, Good
  <2>5. Good(Stages!Segment(m, n)) /\ Stages!Segment(m, n).seeds = Stages!Samples(m, n)
    BY DEF Stages!Segment, Good, Stages!Good
  <2> QED
    BY <2>3, <2>4, <2>5, SamplesContinue DEF Whole, Stages!Segment
<1> QED
  BY <1>1, <1>2

-----------------------------------------------------------------------------
(* The invariant of the stages, place by place.                            *)

Places == {"start", "head", "probe", "extend", "batch", "rerun", "adapt", "staged",
           "finalist", "refine", "refined", "finish", "ended", "crashed"}

ControlTypes ==
  /\ pc \in Places
  /\ stage \in 1..4 /\ pass \in 0..2
  /\ cands \subseteq Jobs /\ IsFiniteSet(cands)
  /\ carried \in Nat /\ iters \in Nat /\ probed \in Nat /\ budget \in Nat
  /\ outcome \in {"none", "complete", "aborted", "failed"}

ResultTypes ==
  /\ baseline \in Stages!Results
  /\ results \in [Jobs -> Stages!Results]
  /\ batch \in [offset : Nat, n : Nat, prior : [Jobs -> Stages!Results]]
  /\ failed \subseteq Gears

PoolTypes ==
  /\ unfed \subseteq Jobs /\ jobs \subseteq Jobs
  /\ wpc \in [Stages!PoolWorkers -> {"take", "sim", "trigger", "close", "gone"}]
  /\ task \in [Stages!PoolWorkers -> Gears]
  /\ slots \in [Jobs -> Stages!Results]

SignalTypes == legacy \in BOOLEAN /\ secondAbort \in BOOLEAN /\ cancelled \in BOOLEAN

StagesTypes == ControlTypes /\ SignalTypes /\ ResultTypes /\ PoolTypes

AtStart ==
  pc = "start" =>
    /\ stage = 1 /\ iters = 0
    /\ baseline = Absent
    /\ failed = {}

\* Between two stages the baseline and the candidates left have all the samples so far.
AtHead ==
  pc = "head" =>
    /\ stage = Stages!Final => iters > 0
    /\ iters > 0 => baseline = Whole(iters) /\ \A c \in cands : results[c] = Whole(iters)
    /\ failed # {} => secondAbort

AtProbe ==
  pc = "probe" =>
    /\ stage # Stages!Final
    /\ Carried(baseline, carried) /\ \A c \in cands : Carried(results[c], carried)
    /\ failed # {} => secondAbort

\* The baseline is ahead of the candidates.
AtExtend ==
  pc = "extend" =>
    /\ stage # Stages!Final
    /\ 0 < probed /\ carried <= probed /\ probed <= iters
    /\ baseline = Whole(probed) /\ \A c \in cands : Carried(results[c], carried)
    /\ failed # {} => secondAbort

\* The signal is triggered, or about to be.
Alarm == secondAbort \/ \E w \in Stages!PoolWorkers : wpc[w] \in {"trigger", "close"}

\* A candidate that a worker has, or will get.
Pending(c) ==
  c \in unfed \cup jobs \/ \E w \in Stages!PoolWorkers : wpc[w] = "sim" /\ task[w] = c

\* The candidates catch up with the baseline; unless the signal is triggered none is
\* passed over, and an error triggers it.
AtBatch ==
  pc = "batch" =>
    /\ iters > 0 /\ iters = batch.offset + batch.n
    /\ baseline = Whole(iters)
    /\ \A c \in cands : Carried(batch.prior[c], batch.offset)
    /\ \A c \in cands : Good(slots[c]) => slots[c] = Whole(iters)
    /\ unfed \subseteq cands /\ jobs \subseteq cands
    /\ \A w \in Stages!PoolWorkers : wpc[w] = "sim" => task[w] \in cands
    /\ \A c \in cands : secondAbort \/ Pending(c) \/ slots[c] # Absent
    /\ secondAbort \/ unfed \cup jobs = {} \/ \E w \in Stages!PoolWorkers : wpc[w] # "gone"
    /\ failed # {} \/ (\E c \in cands : Broken(slots[c])) => Alarm

AtRerun ==
  pc = "rerun" =>
    /\ batch.offset = iters /\ iters > 0
    /\ baseline = Whole(iters) /\ \A c \in cands : results[c] = Whole(iters)
    /\ failed # {} => secondAbort

\* Where results are compared; an additional baseline may have failed.
AtRest ==
  pc \in {"adapt", "staged", "finalist", "refine", "refined", "finish"} /\ ~Broken(baseline) =>
    /\ iters > 0 /\ baseline = Whole(iters)
    /\ \A c \in cands : Good(results[c]) => results[c] = Whole(iters)
    /\ secondAbort \/ (failed = {} /\ \A c \in cands : results[c] = Whole(iters))

\* What else the places of the job's goroutine say.
Flow ==
  /\ pc \in {"finalist", "finish"} => ~Broken(baseline)
  /\ pc \in {"adapt", "staged"} => stage # 4
  /\ pc # "ended" => outcome = "none"
  /\ cancelled => secondAbort
  /\ Stages!CompleteIsWhole

StagesInv ==
  /\ StagesTypes
  /\ AtStart /\ AtHead /\ AtProbe /\ AtExtend /\ AtBatch /\ AtRerun /\ AtRest /\ Flow

\* What nothing is known of.
LEMMA UnknownType ==
  /\ Stages!Absent \in Stages!Results
  /\ Stages!Unknown \in [Jobs -> Stages!Results]
  /\ Stages!Unknown \in [Gears \ {Baseline} -> Stages!Results]
  /\ Stages!NoBatch \in [offset : Nat, n : Nat, prior : [Gears \ {Baseline} -> Stages!Results]]
  /\ \A c \in Jobs : Stages!Unknown[c] = Absent
  /\ ~Good(Absent) /\ ~Broken(Absent)
<1>1. Stages!Absent \in Stages!Results
  BY DEF Stages!Results
<1>2. Stages!Unknown \in [Gears \ {Baseline} -> Stages!Results]
  BY <1>1 DEF Stages!Unknown
<1>3. ~Good(Absent) /\ ~Broken(Absent)
  BY DEF Good, Broken, Absent, Stages!Good, Stages!Broken, Stages!Absent
<1> QED
  BY <1>1, <1>2, <1>3 DEF Stages!NoBatch, Jobs, Absent, Stages!Unknown

\* The invariant's types are those of the model.
LEMMA StagesTyped == StagesTypes <=> Stages!TypeOK /\ IsFiniteSet(cands)
<1>1. Gears = (Gears \ {Baseline}) \cup {Baseline}
  BY ReforgeAssumption
<1>2. /\ {carried, iters, probed, budget} \subseteq Nat
         <=> carried \in Nat /\ iters \in Nat /\ probed \in Nat /\ budget \in Nat
      /\ {secondAbort, cancelled} \subseteq BOOLEAN
         <=> secondAbort \in BOOLEAN /\ cancelled \in BOOLEAN
  OBVIOUS
<1> QED
  BY <1>1, <1>2, Zenon
     DEF StagesTypes, ControlTypes, SignalTypes, ResultTypes, PoolTypes, Places, Jobs, Stages!TypeOK, Stages!Final,
         Stages!AdaptivePasses

\* The initial state of the stages.
LEMMA StagesBegin ==
  ASSUME Stages!Init, IsFiniteSet(cands)
  PROVE  StagesInv
<1>1. StagesTypes
  <2> USE UnknownType DEF Stages!Init
  <2>1. ControlTypes
    BY DEF ControlTypes, Places, Jobs
  <2>2. ResultTypes
    BY DEF ResultTypes, Jobs
  <2>3. PoolTypes
    BY ReforgeAssumption DEF PoolTypes, Jobs
  <2>4. SignalTypes
    BY DEF SignalTypes
  <2> QED
    BY <2>1, <2>2, <2>3, <2>4 DEF StagesTypes
<1> QED
  BY <1>1
     DEF StagesInv, AtStart, AtHead, AtProbe, AtExtend, AtBatch, AtRerun, AtRest, Flow,
         Stages!CompleteIsWhole, Stages!Init, Absent

-----------------------------------------------------------------------------
(* The steps of the stages keep it.                                        *)

LEMMA BoundFacts == \A s \in 1..3 : MinIterations[s] \in Nat /\ MinIterations[s] > 0
BY StagesAssumption

LEMMA LargerFacts ==
  ASSUME NEW m \in Nat, NEW n \in Nat
  PROVE  /\ Stages!Larger(m, n) \in Nat
         /\ m <= Stages!Larger(m, n) /\ n <= Stages!Larger(m, n)
         /\ Stages!Larger(m, n) \in {m, n}
BY DEF Stages!Larger

\* What is noted of a simulation is one of the candidates, or the baseline.
LEMMA NotedType ==
  ASSUME failed \subseteq Gears, NEW c \in Gears, NEW s, Stages!Noted(c, s)
  PROVE  /\ failed' \subseteq Gears
         /\ failed' # {} => failed # {} \/ Broken(s)
BY DEF Stages!Noted, Broken, Stages!Broken

\* Parts of the invariant that a step does not touch.
LEMMA PoolKept ==
  ASSUME PoolTypes, UNCHANGED Stages!poolVars
  PROVE  PoolTypes'
BY DEF PoolTypes, Stages!poolVars

LEMMA SignalsKept ==
  ASSUME SignalTypes, UNCHANGED <<legacy, secondAbort, cancelled>>
  PROVE  SignalTypes'
BY DEF SignalTypes

LEMMA BeginKeeps ==
  ASSUME StagesInv, Stages!Begin
  PROVE  StagesInv'
<1>0. /\ UNCHANGED <<legacy, stage, cands, carried, probed, pass, budget, results, batch>>
      /\ UNCHANGED <<secondAbort, cancelled>> /\ UNCHANGED Stages!poolVars
      /\ pc = "start"
  BY DEF Stages!Begin
<1>1. /\ ControlTypes /\ SignalTypes /\ ResultTypes /\ PoolTypes
      /\ AtStart /\ Flow
  BY DEF StagesInv, StagesTypes
<1>2. PoolTypes' /\ SignalTypes'
  BY <1>0, <1>1, PoolKept, SignalsKept
<1>3. CASE cands # {}
  <2>1. pc' = "head" /\ UNCHANGED <<iters, baseline, failed, outcome>>
    BY <1>3 DEF Stages!Begin
  <2>2. ControlTypes'
    BY <1>0, <1>1, <2>1 DEF ControlTypes, Places
  <2>3. ResultTypes'
    BY <1>0, <1>1, <2>1 DEF ResultTypes
  <2>4. AtHead'
    BY <1>0, <1>1, <2>1 DEF AtHead, AtStart, Stages!Final
  <2>5. Flow'
    BY <1>0, <1>1, <2>1 DEF Flow, Stages!CompleteIsWhole
  <2> QED
    BY <1>2, <2>1, <2>2, <2>3, <2>4, <2>5
       DEF StagesInv, StagesTypes, AtStart, AtProbe, AtExtend, AtBatch, AtRerun, AtRest
<1>4. CASE cands = {}
  <2>1. PICK s \in Stages!Outcomes(Baseline, 0, MinIterations[3]) :
          /\ baseline' = s
          /\ iters' = MinIterations[3]
          /\ Stages!Noted(Baseline, s)
          /\ pc' = "ended"
          /\ outcome' = IF Stages!Good(s) THEN "complete" ELSE s.err
    BY <1>4 DEF Stages!Begin, Stages!Finish
  <2>2. 0 \in Nat /\ iters' \in Nat
    BY <2>1, BoundFacts
  <2>3. /\ s \in Stages!Results
        /\ \/ ~secondAbort /\ s = Whole(iters') /\ Good(s) /\ ~Broken(s)
           \/ Broken(s) /\ ~Good(s)
    BY <2>1, <2>2, OutcomeFacts DEF Whole
  <2>4. failed' \subseteq Gears /\ (failed' # {} => failed # {} \/ Broken(s))
    BY <1>1, <2>1, NotedType, ReforgeAssumption DEF ResultTypes
  <2>5. outcome' \in {"complete", "aborted", "failed"} /\ (outcome' = "complete" => Good(s) /\ ~Broken(s))
    BY <2>1, <2>3 DEF Good, Broken, Stages!Broken, Stages!Good
  <2>6. ControlTypes'
    BY <1>0, <1>1, <2>1, <2>2, <2>5 DEF ControlTypes, Places
  <2>7. ResultTypes'
    BY <1>0, <1>1, <2>1, <2>3, <2>4 DEF ResultTypes
  <2>8. Flow'
    <3>1. outcome' = "complete" => ~cancelled' /\ failed' = {} /\ baseline' = Whole(iters') /\ cands' = {}
      BY <1>0, <1>1, <1>4, <2>1, <2>3, <2>4, <2>5 DEF AtStart, Flow
    <3> QED
      BY <1>0, <1>1, <2>1, <3>1 DEF Flow, Stages!CompleteIsWhole, Whole
  <2> QED
    BY <1>2, <2>1, <2>6, <2>7, <2>8
       DEF StagesInv, StagesTypes, AtStart, AtHead, AtProbe, AtExtend, AtBatch, AtRerun, AtRest
<1> QED
  BY <1>3, <1>4

LEMMA NextStageKeeps ==
  ASSUME StagesInv, Stages!NextStage
  PROVE  StagesInv'
<1>0. /\ UNCHANGED <<batch, secondAbort, cancelled, failed>> /\ UNCHANGED Stages!poolVars
      /\ pc = "head"
  BY DEF Stages!NextStage
<1>1. /\ ControlTypes /\ SignalTypes /\ ResultTypes /\ PoolTypes
      /\ AtHead /\ Flow /\ outcome = "none"
  BY <1>0 DEF StagesInv, StagesTypes, Flow
<1>2. PoolTypes'
  BY <1>0, <1>1, PoolKept
<1>3. CASE Stages!Finish("aborted") /\ UNCHANGED <<Stages!stageVars, baseline, results>>
  <2>1. /\ UNCHANGED <<legacy, stage, cands, carried, iters, probed, pass, budget, baseline, results>>
        /\ pc' = "ended" /\ outcome' = "aborted"
    BY <1>3 DEF Stages!stageVars, Stages!Finish
  <2>2. ControlTypes' /\ ResultTypes' /\ SignalTypes'
    BY <1>0, <1>1, <2>1, SignalsKept DEF ControlTypes, Places, ResultTypes
  <2>3. Flow'
    BY <1>0, <1>1, <2>1 DEF Flow, Stages!CompleteIsWhole
  <2> QED
    BY <1>2, <2>1, <2>2, <2>3
       DEF StagesInv, StagesTypes, AtStart, AtHead, AtProbe, AtExtend, AtBatch, AtRerun, AtRest
<1>4. CASE Stages!RunStage
  <2>1. /\ UNCHANGED <<legacy, stage, cands, iters, probed, budget, outcome>>
        /\ pc' = "probe" /\ pass' = 0 /\ stage < 4
        /\ \/ /\ iters > 0 /\ carried' = iters /\ UNCHANGED <<baseline, results>>
           \/ carried' = 0 /\ baseline' = Absent /\ results' = Stages!Unknown
    BY <1>4 DEF Stages!RunStage, Stages!Covers, Stages!Final, Absent
  <2>2. ControlTypes' /\ SignalTypes'
    BY <1>0, <1>1, <2>1, SignalsKept DEF ControlTypes, Places
  <2>3. ResultTypes'
    BY <1>0, <1>1, <2>1, UnknownType DEF ResultTypes, Absent
  <2>4. AtProbe'
    <3>1. Carried(baseline', carried') /\ \A c \in cands' : Carried(results'[c], carried')
      BY <1>0, <1>1, <2>1, UnknownType DEF AtHead, Carried, ControlTypes
    <3> QED
      BY <1>0, <1>1, <2>1, <3>1 DEF AtHead, AtProbe, Stages!Final, Carried
  <2>5. Flow'
    BY <1>0, <1>1, <2>1 DEF Flow, Stages!CompleteIsWhole
  <2> QED
    BY <1>2, <2>1, <2>2, <2>3, <2>4, <2>5
       DEF StagesInv, StagesTypes, AtStart, AtHead, AtExtend, AtBatch, AtRerun, AtRest
<1>5. CASE Stages!SkipStage
  <2>1. /\ UNCHANGED <<pc, legacy, cands, carried, iters, probed, pass, budget>>
        /\ UNCHANGED <<baseline, results, outcome>>
        /\ stage < 3 /\ stage' = stage + 1
    BY <1>5 DEF Stages!SkipStage
  <2>2. ControlTypes' /\ SignalTypes'
    BY <1>0, <1>1, <2>1, SignalsKept DEF ControlTypes, Places
  <2>3. ResultTypes'
    BY <1>0, <1>1, <2>1 DEF ResultTypes
  <2>4. AtHead'
    BY <1>0, <1>1, <2>1 DEF AtHead, Stages!Final, ControlTypes
  <2>5. Flow'
    BY <1>0, <1>1, <2>1 DEF Flow, Stages!CompleteIsWhole
  <2> QED
    BY <1>0, <1>2, <2>1, <2>2, <2>3, <2>4, <2>5
       DEF StagesInv, StagesTypes, AtStart, AtProbe, AtExtend, AtBatch, AtRerun, AtRest
<1>6. CASE /\ ~secondAbort /\ stage = Stages!Final
           /\ pc' = "finalist"
           /\ UNCHANGED <<Stages!stageVars, baseline, results, outcome>>
  <2>1. UNCHANGED <<legacy, stage, cands, carried, iters, probed, pass, budget, baseline, results, outcome>>
    BY <1>6 DEF Stages!stageVars
  <2>2. ControlTypes' /\ ResultTypes' /\ SignalTypes'
    BY <1>0, <1>1, <1>6, <2>1, SignalsKept DEF ControlTypes, Places, ResultTypes
  <2>3. /\ iters > 0 /\ iters \in Nat /\ baseline = Whole(iters)
        /\ \A c \in cands : results[c] = Whole(iters)
        /\ failed = {}
    BY <1>0, <1>1, <1>6 DEF AtHead, ControlTypes
  <2>4. ~Broken(baseline)
    BY <2>3, SegmentType DEF Whole
  <2>5. Flow'
    BY <1>0, <1>1, <1>6, <2>1, <2>4 DEF Flow, Stages!CompleteIsWhole, Broken
  <2>6. AtRest'
    BY <1>0, <1>6, <2>1, <2>3 DEF AtRest
  <2> QED
    BY <1>2, <1>6, <2>2, <2>5, <2>6
       DEF StagesInv, StagesTypes, AtStart, AtHead, AtProbe, AtExtend, AtBatch, AtRerun
<1> QED
  BY <1>3, <1>4, <1>5, <1>6 DEF Stages!NextStage

\* The baseline after a segment of its own, if one was needed.
LEMMA BaselineGrows ==
  ASSUME NEW m \in Nat, NEW d \in Nat, Carried(baseline, m), m + d > 0, ResultTypes,
         NEW s \in IF d = 0 THEN {Absent} ELSE Stages!Outcomes(Baseline, m, d),
         Stages!Noted(Baseline, s)
  PROVE  /\ ~Broken(s) =>
              /\ (IF d = 0 THEN baseline ELSE Stages!Merge(baseline, s)) = Whole(m + d)
              /\ failed' = failed
         /\ Broken(s) => s.err \in {"failed", "aborted"}
         /\ failed' \subseteq Gears
<1>1. failed' \subseteq Gears
  BY NotedType, ReforgeAssumption DEF ResultTypes
<1>2. Broken(s) => s.err \in {"failed", "aborted"}
  BY DEF Broken, Stages!Broken
<1>3. ~Broken(s) => failed' = failed
  BY DEF Stages!Noted, Broken, Stages!Broken
<1>4. CASE d = 0
  BY <1>1, <1>2, <1>3, <1>4 DEF Carried
<1>5. CASE d # 0
  <2>1. ~Broken(s) => s = Stages!Segment(m, d)
    BY <1>5, OutcomeFacts
  <2> QED
    BY <1>1, <1>2, <1>3, <1>5, <2>1, MergeFacts
<1> QED
  BY <1>4, <1>5

LEMMA ProbeKeeps ==
  ASSUME StagesInv, Stages!Probe
  PROVE  StagesInv'
<1>0. /\ UNCHANGED <<legacy, stage, cands, carried, pass, budget, results, batch>>
      /\ UNCHANGED <<secondAbort, cancelled>> /\ UNCHANGED Stages!poolVars
      /\ pc = "probe"
  BY DEF Stages!Probe
<1>1. /\ ControlTypes /\ SignalTypes /\ ResultTypes /\ PoolTypes
      /\ AtProbe /\ Flow /\ outcome = "none"
  BY <1>0 DEF StagesInv, StagesTypes, Flow
<1>2. PoolTypes' /\ SignalTypes'
  BY <1>0, <1>1, PoolKept, SignalsKept
<1>3. PICK least, d : least = MinIterations[stage] /\ d = Stages!Larger(0, least - carried)
  OBVIOUS
<1>4. /\ least \in Nat /\ least > 0 /\ carried \in Nat /\ d \in Nat
      /\ carried + d = Stages!Larger(least, carried) /\ carried + d > 0
  <2>1. stage \in 1..3
    BY <1>0, <1>1 DEF AtProbe, Stages!Final, ControlTypes
  <2>2. least \in Nat /\ least > 0 /\ carried \in Nat
    BY <1>1, <1>3, <2>1, BoundFacts DEF ControlTypes
  <2> QED
    BY <1>3, <2>2 DEF Stages!Larger
<1>5. PICK s \in IF d = 0 THEN {Absent} ELSE Stages!Outcomes(Baseline, carried, d) :
        /\ Stages!Noted(Baseline, s)
        /\ IF Stages!Broken(s) THEN Stages!Finish(s.err) /\ UNCHANGED <<baseline, probed, iters>>
           ELSE /\ baseline' = IF d = 0 THEN baseline ELSE Stages!Merge(baseline, s)
                /\ probed' = Stages!Larger(least, carried)
                /\ \E target \in {0, MaxTarget} : iters' = Stages!Larger(target, probed')
                /\ pc' = "extend"
                /\ UNCHANGED outcome
  BY <1>3 DEF Stages!Probe, Absent
<1>6. /\ ~Broken(s) => /\ (IF d = 0 THEN baseline ELSE Stages!Merge(baseline, s)) = Whole(carried + d)
                       /\ failed' = failed
      /\ Broken(s) => s.err \in {"failed", "aborted"}
      /\ failed' \subseteq Gears
  BY <1>0, <1>1, <1>4, <1>5, BaselineGrows DEF AtProbe
<1>7. CASE Broken(s)
  <2>1. pc' = "ended" /\ outcome' \in {"failed", "aborted"} /\ UNCHANGED <<baseline, probed, iters>>
    BY <1>5, <1>6, <1>7 DEF Stages!Finish, Broken
  <2>2. ControlTypes' /\ ResultTypes'
    BY <1>0, <1>1, <1>6, <2>1 DEF ControlTypes, ResultTypes, Places
  <2>3. Flow'
    BY <1>0, <1>1, <2>1 DEF Flow, Stages!CompleteIsWhole
  <2> QED
    BY <1>2, <2>1, <2>2, <2>3
       DEF StagesInv, StagesTypes, AtStart, AtHead, AtProbe, AtExtend, AtBatch, AtRerun, AtRest
<1>8. CASE ~Broken(s)
  <2>1. PICK target \in {0, MaxTarget} : iters' = Stages!Larger(target, probed')
    BY <1>5, <1>8 DEF Broken
  <2>2. /\ pc' = "extend" /\ baseline' = Whole(carried + d) /\ probed' = carried + d
        /\ outcome' = outcome /\ failed' = failed
    BY <1>4, <1>5, <1>6, <1>8 DEF Broken
  <2>3. target \in Nat /\ probed' \in Nat
    BY <1>4, <2>2, StagesAssumption
  <2>4. iters' \in Nat /\ probed' <= iters'
    BY <2>1, <2>3, LargerFacts
  <2>5. ControlTypes'
    BY <1>0, <1>1, <2>2, <2>3, <2>4 DEF ControlTypes, Places
  <2>6. ResultTypes'
    BY <1>0, <1>1, <1>4, <2>2, SegmentType DEF ResultTypes, Whole
  <2>7. AtExtend'
    BY <1>0, <1>1, <1>4, <2>2, <2>4 DEF AtExtend, AtProbe, Carried
  <2>8. Flow'
    BY <1>0, <1>1, <2>2 DEF Flow, Stages!CompleteIsWhole
  <2> QED
    BY <1>2, <2>2, <2>5, <2>6, <2>7, <2>8
       DEF StagesInv, StagesTypes, AtStart, AtHead, AtProbe, AtBatch, AtRerun, AtRest
<1> QED
  BY <1>7, <1>8

\* The smaller of two numbers.
LEMMA SmallerFacts ==
  ASSUME NEW m \in Nat, NEW n \in Nat
  PROVE  Stages!Min({m, n}) \in Nat /\ Stages!Min({m, n}) \in {m, n}
<1>1. \E x \in {m, n} : \A y \in {m, n} : x <= y
  <2>1. CASE m <= n
    BY <2>1
  <2>2. CASE n <= m
    BY <2>2
  <2> QED
    BY <2>1, <2>2
<1> QED
  BY <1>1 DEF Stages!Min

\* The number of candidates.
LEMMA CandidateCount ==
  ASSUME IsFiniteSet(cands)
  PROVE  /\ Stages!Cardinality(cands) \in Nat
         /\ cands # {} => Stages!Cardinality(cands) > 0
<1>1. Stages!Cardinality(cands) = Cardinality(cands)
  BY Zenon DEF Stages!Cardinality, Cardinality
<1> QED
  BY <1>1, FS_CardinalityType, FS_EmptySet

\* A batch begins with every candidate to be fed, and a worker to simulate them.
LEMMA BatchBegins ==
  ASSUME ControlTypes, ResultTypes, PoolTypes,
         NEW o \in Nat, NEW n \in Nat, Stages!StartBatch(o, n, results),
         UNCHANGED <<cands, results, secondAbort>>,
         iters' > 0, iters' = o + n, baseline' = Whole(iters'),
         \A c \in cands : Carried(results[c], o),
         failed' # {} => secondAbort
  PROVE  /\ AtBatch' /\ PoolTypes'
         /\ batch' \in [offset : Nat, n : Nat, prior : [Jobs -> Stages!Results]]
<1>1. /\ batch' = [offset |-> o, n |-> n, prior |-> results]
      /\ unfed' = cands /\ jobs' = {} /\ slots' = Stages!Unknown /\ task' = task
      /\ wpc' = [w \in Stages!PoolWorkers |->
                   IF w <= Stages!Min({StageWorkers[stage], Stages!Cardinality(cands)})
                   THEN "take" ELSE "gone"]
  BY DEF Stages!StartBatch
<1>2. batch' \in [offset : Nat, n : Nat, prior : [Jobs -> Stages!Results]]
  BY <1>1 DEF ResultTypes
<1>3. PoolTypes'
  BY <1>1, UnknownType DEF PoolTypes, ControlTypes
<1>4. \A c \in cands : slots'[c] = Absent /\ ~Good(slots'[c]) /\ ~Broken(slots'[c])
  BY <1>1, UnknownType DEF ControlTypes
<1>5. \A w \in Stages!PoolWorkers : wpc'[w] # "sim"
  BY <1>1
<1>6. cands # {} => \E w \in Stages!PoolWorkers : wpc'[w] # "gone"
  <2>1. StageWorkers[stage] \in Nat /\ StageWorkers[stage] > 0 /\ 1 \in Stages!PoolWorkers
    BY StagesAssumption DEF ControlTypes, Stages!PoolWorkers
  <2>2. cands # {} => 1 <= Stages!Min({StageWorkers[stage], Stages!Cardinality(cands)})
    BY <2>1, CandidateCount, SmallerFacts DEF ControlTypes
  <2> QED
    BY <1>1, <2>1, <2>2
<1>7. \A c \in cands : Pending(c)'
  BY <1>1 DEF Pending
<1>8. failed' # {} => Alarm'
  BY DEF Alarm
<1>9. batch'.offset = o /\ batch'.n = n /\ batch'.prior = results
  BY <1>1
<1> QED
  BY <1>1, <1>2, <1>3, <1>4, <1>5, <1>6, <1>7, <1>8, <1>9 DEF AtBatch

LEMMA ExtendKeeps ==
  ASSUME StagesInv, Stages!Extend
  PROVE  StagesInv'
<1>0. /\ UNCHANGED <<legacy, stage, cands, carried, iters, probed, pass, results>>
      /\ UNCHANGED <<secondAbort, cancelled>>
      /\ pc = "extend" /\ budget' = 4 * iters
  BY DEF Stages!Extend, Stages!AdaptiveFactor
<1>1. /\ ControlTypes /\ SignalTypes /\ ResultTypes /\ PoolTypes
      /\ AtExtend /\ Flow /\ outcome = "none"
  BY <1>0 DEF StagesInv, StagesTypes, Flow
<1>2. SignalTypes'
  BY <1>0, <1>1, SignalsKept
<1>3. PICK d : d = iters - probed
  OBVIOUS
<1>4. /\ d \in Nat /\ probed \in Nat /\ probed > 0 /\ probed + d = iters
      /\ Carried(baseline, probed) /\ carried \in Nat /\ carried <= iters /\ iters \in Nat
      /\ budget' \in Nat
  BY <1>0, <1>1, <1>3 DEF AtExtend, ControlTypes, Carried
<1>5. PICK s \in IF d = 0 THEN {Absent} ELSE Stages!Outcomes(Baseline, probed, d) :
        /\ Stages!Noted(Baseline, s)
        /\ IF Stages!Broken(s)
           THEN Stages!Finish(s.err) /\ UNCHANGED <<baseline, batch, Stages!poolVars>>
           ELSE /\ baseline' = IF d = 0 THEN baseline ELSE Stages!Merge(baseline, s)
                /\ IF iters > carried
                   THEN pc' = "batch" /\ Stages!StartBatch(carried, iters - carried, results)
                   ELSE pc' = "staged" /\ UNCHANGED <<batch, Stages!poolVars>>
                /\ UNCHANGED outcome
  BY <1>3 DEF Stages!Extend, Absent
<1>6. /\ ~Broken(s) => /\ (IF d = 0 THEN baseline ELSE Stages!Merge(baseline, s)) = Whole(iters)
                       /\ failed' = failed
      /\ Broken(s) => s.err \in {"failed", "aborted"}
      /\ failed' \subseteq Gears
  BY <1>1, <1>4, <1>5, BaselineGrows
<1>7. CASE Broken(s)
  <2>1. /\ pc' = "ended" /\ outcome' \in {"failed", "aborted"}
        /\ UNCHANGED <<baseline, batch>> /\ UNCHANGED Stages!poolVars
    BY <1>5, <1>6, <1>7 DEF Stages!Finish, Broken
  <2>2. ControlTypes' /\ ResultTypes' /\ PoolTypes'
    BY <1>0, <1>1, <1>4, <1>6, <2>1, PoolKept DEF ControlTypes, ResultTypes, Places
  <2>3. Flow'
    BY <1>0, <1>1, <2>1 DEF Flow, Stages!CompleteIsWhole
  <2> QED
    BY <1>2, <2>1, <2>2, <2>3
       DEF StagesInv, StagesTypes, AtStart, AtHead, AtProbe, AtExtend, AtBatch, AtRerun, AtRest
<1>8. CASE ~Broken(s)
  <2>1. baseline' = Whole(iters) /\ failed' = failed /\ outcome' = outcome
    BY <1>5, <1>6, <1>8 DEF Broken
  <2>2. baseline' \in Stages!Results /\ ~Broken(baseline')
    BY <1>4, <2>1, SegmentType DEF Whole
  <2>3. failed' # {} => secondAbort
    BY <1>0, <1>1, <2>1 DEF AtExtend
  <2>4. \A c \in cands : Carried(results[c], carried)
    BY <1>0, <1>1 DEF AtExtend
  <2>5. CASE iters > carried
    <3>1. pc' = "batch" /\ Stages!StartBatch(carried, iters - carried, results)
      BY <1>5, <1>8, <2>5 DEF Broken
    <3>2. iters - carried \in Nat /\ carried + (iters - carried) = iters
      BY <1>4
    <3>3. /\ AtBatch' /\ PoolTypes'
          /\ batch' \in [offset : Nat, n : Nat, prior : [Jobs -> Stages!Results]]
      <4>1. iters' > 0 /\ iters' = carried + (iters - carried) /\ baseline' = Whole(iters')
        BY <1>0, <1>4, <2>1, <3>2
      <4> QED
        BY <1>0, <1>1, <1>4, <2>3, <2>4, <3>1, <3>2, <4>1, BatchBegins
    <3>4. ControlTypes' /\ ResultTypes'
      BY <1>0, <1>1, <1>4, <1>6, <2>1, <2>2, <3>1, <3>3 DEF ControlTypes, ResultTypes, Places
    <3>5. Flow'
      BY <1>0, <1>1, <2>1, <3>1 DEF Flow, Stages!CompleteIsWhole
    <3> QED
      BY <1>2, <3>1, <3>3, <3>4, <3>5
         DEF StagesInv, StagesTypes, AtStart, AtHead, AtProbe, AtExtend, AtRerun, AtRest
  <2>6. CASE iters = carried
    <3>1. pc' = "staged" /\ UNCHANGED batch /\ UNCHANGED Stages!poolVars
      BY <1>4, <1>5, <1>8, <2>6 DEF Broken
    <3>2. ControlTypes' /\ ResultTypes' /\ PoolTypes'
      BY <1>0, <1>1, <1>4, <1>6, <2>1, <2>2, <3>1, PoolKept DEF ControlTypes, ResultTypes, Places
    <3>3. AtRest'
      <4>1. iters > 0 /\ \A c \in cands : results[c] = Whole(iters)
        BY <1>4, <2>4, <2>6 DEF Carried
      <4> QED
        BY <1>0, <2>1, <2>3, <4>1 DEF AtRest
    <3>4. Flow'
      BY <1>0, <1>1, <2>1, <3>1 DEF Flow, AtExtend, Stages!Final, Stages!CompleteIsWhole
    <3> QED
      BY <1>2, <3>1, <3>2, <3>3, <3>4
         DEF StagesInv, StagesTypes, AtStart, AtHead, AtProbe, AtExtend, AtBatch, AtRerun
  <2> QED
    BY <1>4, <2>5, <2>6
<1> QED
  BY <1>7, <1>8

LEMMA RerunKeeps ==
  ASSUME StagesInv, Stages!Rerun
  PROVE  StagesInv'
<1>0. /\ UNCHANGED <<legacy, stage, cands, carried, probed, pass, budget, results>>
      /\ UNCHANGED <<secondAbort, outcome, cancelled>>
      /\ pc = "rerun" /\ iters' = iters + batch.n
  BY DEF Stages!Rerun
<1>1. /\ ControlTypes /\ SignalTypes /\ ResultTypes /\ PoolTypes
      /\ AtRerun /\ Flow /\ outcome = "none"
  BY <1>0 DEF StagesInv, StagesTypes, Flow
<1>2. SignalTypes'
  BY <1>0, <1>1, SignalsKept
<1>3. /\ batch.offset = iters /\ iters \in Nat /\ batch.n \in Nat /\ iters > 0
      /\ baseline = Whole(iters) /\ \A c \in cands : Carried(results[c], iters)
      /\ Carried(baseline, iters)
      /\ iters' \in Nat /\ iters' > 0
      /\ failed # {} => secondAbort
  BY <1>0, <1>1 DEF AtRerun, ControlTypes, ResultTypes, Carried
<1>4. PICK s \in Stages!Outcomes(Baseline, iters, batch.n) :
        /\ Stages!Noted(Baseline, s)
        /\ IF Stages!Good(s)
           THEN /\ pc' = "batch" /\ Stages!StartBatch(iters, batch.n, results)
                /\ baseline' = Stages!Merge(baseline, s)
           ELSE /\ pc' = IF stage = Stages!Final THEN "refine" ELSE "adapt"
                /\ baseline' = s /\ batch' = Stages!NoBatch
                /\ UNCHANGED Stages!poolVars
  BY <1>3 DEF Stages!Rerun
<1>5. /\ s \in Stages!Results
      /\ \/ s = Stages!Segment(iters, batch.n) /\ Good(s) /\ ~Broken(s)
         \/ Broken(s) /\ ~Good(s)
  BY <1>3, <1>4, OutcomeFacts
<1>6. failed' \subseteq Gears /\ (failed' # {} => failed # {} \/ Broken(s))
  BY <1>1, <1>4, NotedType, ReforgeAssumption DEF ResultTypes
<1>7. CASE Good(s)
  <2>1. /\ pc' = "batch" /\ Stages!StartBatch(iters, batch.n, results)
        /\ baseline' = Stages!Merge(baseline, s)
    BY <1>4, <1>7 DEF Good
  <2>2. baseline' = Whole(iters')
    BY <1>0, <1>3, <1>5, <1>7, <2>1, MergeFacts
  <2>3. failed' # {} => secondAbort
    BY <1>3, <1>5, <1>6, <1>7
  <2>4. /\ AtBatch' /\ PoolTypes'
        /\ batch' \in [offset : Nat, n : Nat, prior : [Jobs -> Stages!Results]]
    BY <1>0, <1>1, <1>3, <2>1, <2>2, <2>3, BatchBegins
  <2>5. baseline' \in Stages!Results
    BY <1>3, <2>2, SegmentType DEF Whole
  <2>6. ControlTypes' /\ ResultTypes'
    BY <1>0, <1>1, <1>3, <1>6, <2>1, <2>4, <2>5 DEF ControlTypes, ResultTypes, Places
  <2>7. Flow'
    BY <1>0, <1>1, <2>1 DEF Flow, Stages!CompleteIsWhole
  <2> QED
    BY <1>2, <2>1, <2>4, <2>6, <2>7
       DEF StagesInv, StagesTypes, AtStart, AtHead, AtProbe, AtExtend, AtRerun, AtRest
<1>8. CASE ~Good(s)
  <2>1. /\ pc' \in {"refine", "adapt"} /\ baseline' = s /\ batch' = Stages!NoBatch
        /\ UNCHANGED Stages!poolVars /\ (pc' = "adapt" => stage # 4)
    BY <1>4, <1>8 DEF Good, Stages!Final
  <2>2. ControlTypes' /\ ResultTypes' /\ PoolTypes'
    <3>1. batch' \in [offset : Nat, n : Nat, prior : [Jobs -> Stages!Results]]
      BY <2>1, UnknownType DEF Jobs
    <3> QED
      BY <1>0, <1>1, <1>3, <1>5, <1>6, <2>1, <3>1, PoolKept DEF ControlTypes, ResultTypes, Places
  <2>3. Broken(baseline')
    BY <1>5, <1>8, <2>1
  <2>4. Flow'
    BY <1>0, <1>1, <2>1 DEF Flow, Stages!CompleteIsWhole
  <2>5. AtRest'
    BY <2>3 DEF AtRest, Broken
  <2> QED
    BY <1>2, <2>1, <2>2, <2>4, <2>5
       DEF StagesInv, StagesTypes, AtStart, AtHead, AtProbe, AtExtend, AtBatch, AtRerun
<1> QED
  BY <1>7, <1>8

\* More iterations are asked for where the baseline and the candidates rest.
LEMMA AdditionalKeeps ==
  ASSUME AtRest, ResultTypes, iters \in Nat, pc \in {"adapt", "refine"}, ~secondAbort, ~Stages!HasError,
         NEW more \in Nat, Stages!Additional(more),
         UNCHANGED <<iters, cands, baseline, results, failed, secondAbort>>
  PROVE  AtRerun' /\ ResultTypes'
<1>1. pc' = "rerun" /\ batch' = [offset |-> iters, n |-> more, prior |-> results]
  BY DEF Stages!Additional
<1>2. ~Broken(baseline)
  BY DEF Stages!HasError, Broken
<1>3. /\ iters > 0 /\ baseline = Whole(iters) /\ failed = {}
      /\ \A c \in cands : results[c] = Whole(iters)
  BY <1>2 DEF AtRest
<1> QED
  BY <1>1, <1>3 DEF AtRerun, ResultTypes

LEMMA AdaptKeeps ==
  ASSUME StagesInv, Stages!Adapt
  PROVE  StagesInv'
<1>0. /\ UNCHANGED <<legacy, stage, cands, carried, iters, probed, budget, baseline, results>>
      /\ UNCHANGED <<secondAbort, outcome, cancelled, failed>> /\ UNCHANGED Stages!poolVars
      /\ pc = "adapt"
  BY DEF Stages!Adapt
<1>1. /\ ControlTypes /\ SignalTypes /\ ResultTypes /\ PoolTypes
      /\ AtRest /\ Flow /\ outcome = "none"
  BY <1>0 DEF StagesInv, StagesTypes, Flow
<1>2. PoolTypes' /\ SignalTypes'
  BY <1>0, <1>1, PoolKept, SignalsKept
<1>3. CASE pc' = "staged" /\ UNCHANGED <<pass, batch>>
  <2>1. ControlTypes' /\ ResultTypes'
    BY <1>0, <1>1, <1>3 DEF ControlTypes, ResultTypes, Places
  <2>2. AtRest'
    BY <1>0, <1>1, <1>3 DEF AtRest
  <2>3. Flow'
    BY <1>0, <1>1, <1>3 DEF Flow, Stages!CompleteIsWhole
  <2> QED
    BY <1>2, <1>3, <2>1, <2>2, <2>3
       DEF StagesInv, StagesTypes, AtStart, AtHead, AtProbe, AtExtend, AtBatch, AtRerun
<1>4. CASE /\ ~secondAbort /\ ~Stages!HasError /\ pass < Stages!AdaptivePasses
           /\ \E more \in 1..(Stages!Min({MaxTarget, budget}) - iters) : Stages!Additional(more)
           /\ pass' = pass + 1
  <2>1. PICK more \in 1..(Stages!Min({MaxTarget, budget}) - iters) : Stages!Additional(more)
    BY <1>4
  <2>2. more \in Nat
    BY <1>1, SmallerFacts, StagesAssumption DEF ControlTypes
  <2>3. AtRerun' /\ ResultTypes'
    BY <1>0, <1>1, <1>4, <2>1, <2>2, AdditionalKeeps DEF ControlTypes
  <2>4. pc' = "rerun"
    BY <2>1 DEF Stages!Additional
  <2>5. ControlTypes'
    BY <1>0, <1>1, <1>4, <2>4 DEF ControlTypes, Places, Stages!AdaptivePasses
  <2>6. Flow'
    BY <1>0, <1>1, <2>4 DEF Flow, Stages!CompleteIsWhole
  <2> QED
    BY <1>2, <2>3, <2>4, <2>5, <2>6
       DEF StagesInv, StagesTypes, AtStart, AtHead, AtProbe, AtExtend, AtBatch, AtRest
<1> QED
  BY <1>3, <1>4 DEF Stages!Adapt

LEMMA RefineKeeps ==
  ASSUME StagesInv, Stages!Refine
  PROVE  StagesInv'
<1>0. /\ UNCHANGED <<legacy, stage, cands, carried, iters, probed, pass, budget, baseline, results>>
      /\ UNCHANGED <<secondAbort, outcome, cancelled, failed>> /\ UNCHANGED Stages!poolVars
      /\ pc = "refine"
  BY DEF Stages!Refine, Stages!stageVars
<1>1. /\ ControlTypes /\ SignalTypes /\ ResultTypes /\ PoolTypes
      /\ AtRest /\ Flow /\ outcome = "none"
  BY <1>0 DEF StagesInv, StagesTypes, Flow
<1>2. PoolTypes' /\ SignalTypes'
  BY <1>0, <1>1, PoolKept, SignalsKept
<1>3. CASE pc' = "refined" /\ UNCHANGED batch
  <2>1. ControlTypes' /\ ResultTypes'
    BY <1>0, <1>1, <1>3 DEF ControlTypes, ResultTypes, Places
  <2>2. AtRest'
    BY <1>0, <1>1, <1>3 DEF AtRest
  <2>3. Flow'
    BY <1>0, <1>1, <1>3 DEF Flow, Stages!CompleteIsWhole
  <2> QED
    BY <1>2, <1>3, <2>1, <2>2, <2>3
       DEF StagesInv, StagesTypes, AtStart, AtHead, AtProbe, AtExtend, AtBatch, AtRerun
<1>4. CASE /\ iters < budget /\ ~secondAbort /\ ~Stages!HasError
           /\ Stages!Additional(Stages!Min({iters, budget - iters}))
  <2>1. PICK more : more = Stages!Min({iters, budget - iters})
    OBVIOUS
  <2>2. more \in Nat
    <3>1. iters \in Nat /\ budget - iters \in Nat
      BY <1>1, <1>4 DEF ControlTypes
    <3> QED
      BY <2>1, <3>1, SmallerFacts
  <2>3. AtRerun' /\ ResultTypes'
    BY <1>0, <1>1, <1>4, <2>1, <2>2, AdditionalKeeps DEF ControlTypes
  <2>4. pc' = "rerun"
    BY <1>4 DEF Stages!Additional
  <2>5. ControlTypes'
    BY <1>0, <1>1, <2>4 DEF ControlTypes, Places
  <2>6. Flow'
    BY <1>0, <1>1, <2>4 DEF Flow, Stages!CompleteIsWhole
  <2> QED
    BY <1>2, <2>3, <2>4, <2>5, <2>6
       DEF StagesInv, StagesTypes, AtStart, AtHead, AtProbe, AtExtend, AtBatch, AtRest
<1> QED
  BY <1>3, <1>4 DEF Stages!Refine

LEMMA RefinedKeeps ==
  ASSUME StagesInv, Stages!Refined
  PROVE  StagesInv'
<1>0. /\ UNCHANGED <<legacy, stage, cands, carried, iters, probed, pass, budget, baseline, results>>
      /\ UNCHANGED <<batch, secondAbort, outcome, cancelled, failed>> /\ UNCHANGED Stages!poolVars
      /\ pc = "refined" /\ pc' = IF Broken(baseline) THEN "crashed" ELSE "finish"
  BY DEF Stages!Refined, Stages!stageVars, Broken
<1>1. /\ ControlTypes /\ SignalTypes /\ ResultTypes /\ PoolTypes
      /\ AtRest /\ Flow /\ outcome = "none"
  BY <1>0 DEF StagesInv, StagesTypes, Flow
<1>2. PoolTypes' /\ SignalTypes' /\ ControlTypes' /\ ResultTypes'
  BY <1>0, <1>1, PoolKept, SignalsKept DEF ControlTypes, ResultTypes, Places
<1>3. AtRest'
  BY <1>0, <1>1 DEF AtRest
<1>4. Flow'
  <2>1. pc' = "finish" => ~Broken(baseline')
    BY <1>0
  <2> QED
    BY <1>0, <1>1, <2>1 DEF Flow, Stages!CompleteIsWhole
<1> QED
  BY <1>0, <1>2, <1>3, <1>4
     DEF StagesInv, StagesTypes, AtStart, AtHead, AtProbe, AtExtend, AtBatch, AtRerun

LEMMA LastCheckKeeps ==
  ASSUME StagesInv, Stages!LastCheck
  PROVE  StagesInv'
<1>0. /\ UNCHANGED <<legacy, stage, cands, carried, iters, probed, pass, budget, baseline, results>>
      /\ UNCHANGED <<batch, secondAbort, cancelled, failed>> /\ UNCHANGED Stages!poolVars
      /\ pc = "finish" /\ pc' = "ended"
      /\ outcome' = IF secondAbort THEN "aborted" ELSE "complete"
  BY DEF Stages!LastCheck, Stages!stageVars, Stages!Finish
<1>1. /\ ControlTypes /\ SignalTypes /\ ResultTypes /\ PoolTypes
      /\ AtRest /\ Flow
  BY DEF StagesInv, StagesTypes
<1>2. PoolTypes' /\ SignalTypes' /\ ControlTypes' /\ ResultTypes'
  BY <1>0, <1>1, PoolKept, SignalsKept DEF ControlTypes, ResultTypes, Places
<1>3. Flow'
  <2>1. ~Broken(baseline) /\ (cancelled => secondAbort)
    BY <1>0, <1>1 DEF Flow
  <2>2. ~secondAbort => /\ ~cancelled /\ failed = {} /\ baseline = Whole(iters)
                        /\ \A c \in cands : results[c] = Whole(iters)
    BY <1>0, <1>1, <2>1 DEF AtRest
  <2>3. Stages!CompleteIsWhole'
    BY <1>0, <2>2 DEF Stages!CompleteIsWhole, Whole
  <2> QED
    BY <1>0, <2>1, <2>3 DEF Flow
<1> QED
  BY <1>0, <1>2, <1>3
     DEF StagesInv, StagesTypes, AtStart, AtHead, AtProbe, AtExtend, AtBatch, AtRerun, AtRest

\* Whoever is left after a stage, or for the finals, has a result.
LEMMA SurvivorFacts ==
  /\ \A s \in Stages!Survivors : s \subseteq cands /\ \A c \in s : Good(results[c])
  /\ \A k : \A s \in Stages!kSubset(k, {c \in cands : Stages!Good(results[c])}) :
       s \subseteq cands /\ \A c \in s : Good(results[c])
BY DEF Stages!Survivors, Stages!kSubset, Good

LEMMA StagedKeeps ==
  ASSUME StagesInv, Stages!Staged
  PROVE  StagesInv'
<1>0. /\ UNCHANGED <<legacy, carried, iters, probed, pass, budget, baseline, results>>
      /\ UNCHANGED <<batch, secondAbort, cancelled, failed>> /\ UNCHANGED Stages!poolVars
      /\ pc = "staged"
  BY DEF Stages!Staged
<1>1. /\ ControlTypes /\ SignalTypes /\ ResultTypes /\ PoolTypes
      /\ AtRest /\ Flow /\ outcome = "none"
  BY <1>0 DEF StagesInv, StagesTypes, Flow
<1>2. PoolTypes' /\ SignalTypes' /\ ResultTypes'
  BY <1>0, <1>1, PoolKept, SignalsKept DEF ResultTypes
<1>3. CASE /\ pc' = "ended" /\ outcome' \in {"failed", "aborted"}
           /\ UNCHANGED <<stage, cands>>
  <2>1. ControlTypes'
    BY <1>0, <1>1, <1>3 DEF ControlTypes, Places
  <2>2. Flow'
    BY <1>0, <1>1, <1>3 DEF Flow, Stages!CompleteIsWhole
  <2> QED
    BY <1>2, <1>3, <2>1, <2>2
       DEF StagesInv, StagesTypes, AtStart, AtHead, AtProbe, AtExtend, AtBatch, AtRerun, AtRest
<1>4. CASE /\ ~Stages!HasError
           /\ cands' \in Stages!Survivors
           /\ stage' = stage + 1
           /\ pc' = "head"
           /\ UNCHANGED outcome
  <2>1. ~Broken(baseline)
    BY <1>4 DEF Stages!HasError, Broken
  <2>2. cands' \subseteq cands /\ \A c \in cands' : Good(results[c])
    BY <1>4, SurvivorFacts
  <2>3. AtHead'
    BY <1>0, <1>1, <2>1, <2>2 DEF AtHead, AtRest
  <2>4. stage < 4
    BY <1>0, <1>1 DEF Flow, ControlTypes
  <2>5. ControlTypes'
    <3>1. IsFiniteSet(cands')
      BY <1>1, <2>2, FS_Subset DEF ControlTypes
    <3> QED
      BY <1>0, <1>1, <1>4, <2>2, <2>4, <3>1 DEF ControlTypes, Places
  <2>6. Flow'
    BY <1>0, <1>1, <1>4 DEF Flow, Stages!CompleteIsWhole
  <2> QED
    BY <1>2, <1>4, <2>3, <2>5, <2>6
       DEF StagesInv, StagesTypes, AtStart, AtProbe, AtExtend, AtBatch, AtRerun, AtRest
<1>5. \/ /\ pc' = "ended" /\ outcome' \in {"failed", "aborted"}
         /\ UNCHANGED <<stage, cands>>
      \/ /\ ~Stages!HasError
         /\ cands' \in Stages!Survivors
         /\ stage' = stage + 1
         /\ pc' = "head"
         /\ UNCHANGED outcome
  BY DEF Stages!Staged, Stages!Finish, Stages!Broken
<1> QED
  BY <1>3, <1>4, <1>5

LEMMA FinalistKeeps ==
  ASSUME StagesInv, Stages!Finalist
  PROVE  StagesInv'
<1>0. /\ UNCHANGED <<legacy, stage, carried, iters, probed, pass, baseline>>
      /\ UNCHANGED <<batch, secondAbort, outcome, cancelled, failed>> /\ UNCHANGED Stages!poolVars
      /\ pc = "finalist"
  BY DEF Stages!Finalist
<1>1. /\ ControlTypes /\ SignalTypes /\ ResultTypes /\ PoolTypes
      /\ AtRest /\ Flow /\ outcome = "none"
  BY <1>0 DEF StagesInv, StagesTypes, Flow
<1>2. PoolTypes' /\ SignalTypes'
  BY <1>0, <1>1, PoolKept, SignalsKept
<1>3. PICK top : /\ top \subseteq cands /\ \A c \in top : Good(results[c])
                 /\ cands' = top
                 /\ results' = [c \in Jobs |-> IF c \in top THEN results[c] ELSE Absent]
                 /\ \/ pc' = "finish" /\ UNCHANGED budget
                    \/ pc' = "refine" /\ budget' = (1 + Stages!FinalistFactor) * iters
  BY SurvivorFacts DEF Stages!Finalist, Jobs, Absent
<1>4. ~Broken(baseline)
  BY <1>0, <1>1 DEF Flow
<1>5. /\ iters > 0 /\ baseline = Whole(iters)
      /\ \A c \in cands : Good(results[c]) => results[c] = Whole(iters)
      /\ secondAbort \/ failed = {}
  BY <1>0, <1>1, <1>4 DEF AtRest
<1>6. \A c \in top : results'[c] = results[c]
  BY <1>1, <1>3 DEF ControlTypes
<1>7. ControlTypes'
  <2>1. IsFiniteSet(cands')
    BY <1>1, <1>3, FS_Subset DEF ControlTypes
  <2>2. budget' \in Nat
    BY <1>1, <1>3 DEF ControlTypes, Stages!FinalistFactor
  <2>3. cands' \subseteq Jobs
    BY <1>1, <1>3 DEF ControlTypes
  <2> QED
    BY <1>0, <1>1, <1>3, <2>1, <2>2, <2>3 DEF ControlTypes, Places
<1>8. ResultTypes'
  <2>1. results' \in [Jobs -> Stages!Results]
    BY <1>1, <1>3, UnknownType DEF ResultTypes, Absent
  <2> QED
    BY <1>0, <1>1, <2>1 DEF ResultTypes
<1>9. AtRest'
  BY <1>0, <1>3, <1>5, <1>6 DEF AtRest
<1>10. Flow'
  <2>1. ~Broken(baseline')
    BY <1>0, <1>4
  <2> QED
    BY <1>0, <1>1, <1>3, <2>1 DEF Flow, Stages!CompleteIsWhole
<1> QED
  BY <1>2, <1>3, <1>7, <1>8, <1>9, <1>10
     DEF StagesInv, StagesTypes, AtStart, AtHead, AtProbe, AtExtend, AtBatch, AtRerun

\* When every worker is gone the slots are complete, or the signal is triggered.
LEMMA EndBatchKeeps ==
  ASSUME StagesInv, Stages!EndBatch
  PROVE  StagesInv'
<1>0. /\ UNCHANGED <<legacy, stage, cands, carried, iters, probed, pass, budget, baseline>>
      /\ UNCHANGED <<wpc, task, secondAbort, outcome, cancelled, failed>>
      /\ pc = "batch" /\ \A w \in Stages!PoolWorkers : wpc[w] = "gone"
      /\ pc' = IF stage = 4 THEN "refine" ELSE "adapt"
      /\ results' = IF stage = 4 THEN Stages!WithMetrics(slots) ELSE slots
      /\ batch' = Stages!NoBatch /\ unfed' = {} /\ jobs' = {} /\ slots' = Stages!Unknown
  BY DEF Stages!EndBatch, Stages!stageVars, Stages!Final
<1>1. /\ ControlTypes /\ SignalTypes /\ ResultTypes /\ PoolTypes
      /\ AtBatch /\ Flow /\ outcome = "none"
  BY <1>0 DEF StagesInv, StagesTypes, Flow
<1>2. SignalTypes' /\ ControlTypes'
  BY <1>0, <1>1, SignalsKept DEF ControlTypes, Places
<1>3. PoolTypes'
  BY <1>0, <1>1, UnknownType DEF PoolTypes
<1>4. \A c \in Jobs : results'[c] = slots[c] \/ (~Good(slots[c]) /\ results'[c] = Absent)
  BY <1>0 DEF Stages!WithMetrics, Good, Absent, Jobs
<1>5. results' \in [Jobs -> Stages!Results]
  <2>1. Stages!WithMetrics(slots) \in [Jobs -> Stages!Results]
    BY <1>1, UnknownType DEF Stages!WithMetrics, PoolTypes, Jobs
  <2> QED
    BY <1>0, <1>1, <2>1 DEF PoolTypes
<1>6. ResultTypes'
  BY <1>0, <1>1, <1>5, UnknownType DEF ResultTypes, Jobs
<1>7. \A c \in cands : Good(results'[c]) => results'[c] = Whole(iters)
  BY <1>0, <1>1, <1>4, UnknownType DEF AtBatch, ControlTypes
<1>8. ~secondAbort => failed = {} /\ \A c \in cands : results'[c] = Whole(iters)
  <2> SUFFICES ASSUME ~secondAbort
               PROVE  failed = {} /\ \A c \in cands : results'[c] = Whole(iters)
    OBVIOUS
  <2>1. ~Alarm
    BY <1>0 DEF Alarm
  <2>2. failed = {} /\ \A c \in cands : ~Broken(slots[c])
    BY <1>0, <1>1, <2>1 DEF AtBatch
  <2>3. unfed \cup jobs = {}
    BY <1>0, <1>1 DEF AtBatch
  <2>4. \A c \in cands : slots[c] # Absent
    BY <1>0, <1>1, <2>3 DEF AtBatch, Pending
  <2>5. \A c \in cands : slots[c] \in Stages!Results
    BY <1>1 DEF PoolTypes, ControlTypes
  <2>6. \A r \in Stages!Results : r = Absent \/ Broken(r) \/ Good(r)
    BY DEF Stages!Results, Absent, Good, Broken, Stages!Good, Stages!Broken
  <2>7. \A c \in cands : Good(slots[c])
    BY <2>2, <2>4, <2>5, <2>6
  <2> QED
    BY <1>0, <1>1, <1>4, <2>2, <2>7 DEF AtBatch, ControlTypes
<1>9. AtRest'
  BY <1>0, <1>1, <1>7, <1>8 DEF AtRest, AtBatch
<1>10. Flow'
  BY <1>0, <1>1 DEF Flow, Stages!CompleteIsWhole
<1> QED
  BY <1>0, <1>2, <1>3, <1>6, <1>9, <1>10
     DEF StagesInv, StagesTypes, AtStart, AtHead, AtProbe, AtExtend, AtBatch, AtRerun

\* The parts that do not speak of the batch, in one.
Elsewhere == AtStart /\ AtHead /\ AtProbe /\ AtExtend /\ AtRerun /\ AtRest /\ Flow

\* A step of the pool leaves the goroutine of the job where it is, or ends the process.
LEMMA PoolStep ==
  ASSUME StagesInv, pc = "batch", pc' \in {"batch", "crashed"},
         UNCHANGED <<legacy, stage, cands, carried, iters, probed, pass, budget>>,
         UNCHANGED <<baseline, results, batch, outcome, cancelled>>,
         secondAbort' \in BOOLEAN, secondAbort => secondAbort', failed' \subseteq Gears
  PROVE  ControlTypes' /\ SignalTypes' /\ ResultTypes' /\ Elsewhere'
<1>1. ControlTypes /\ SignalTypes /\ ResultTypes /\ Flow /\ outcome = "none"
  BY DEF StagesInv, StagesTypes, Flow
<1>2. ControlTypes'
  BY <1>1 DEF ControlTypes, Places
<1>3. SignalTypes'
  BY <1>1 DEF SignalTypes
<1>4. ResultTypes'
  BY <1>1 DEF ResultTypes
<1>5. Flow'
  BY <1>1 DEF Flow, Stages!CompleteIsWhole
<1> QED
  BY <1>2, <1>3, <1>4, <1>5
     DEF Elsewhere, AtStart, AtHead, AtProbe, AtExtend, AtRerun, AtRest

LEMMA FeedKeeps ==
  ASSUME StagesInv, Stages!Feed
  PROVE  StagesInv'
<1>0. /\ UNCHANGED <<legacy, stage, cands, carried, iters, probed, pass, budget>>
      /\ UNCHANGED <<baseline, results, batch, outcome, cancelled>>
      /\ UNCHANGED <<pc, wpc, task, slots, secondAbort, failed>>
      /\ pc = "batch"
  BY DEF Stages!Feed, Stages!stageVars
<1>1. PoolTypes /\ AtBatch /\ SignalTypes /\ ResultTypes
  BY DEF StagesInv, StagesTypes
<1>2. PICK c \in unfed : unfed' = unfed \ {c} /\ jobs' = jobs \cup {c}
  BY DEF Stages!Feed
<1>3. PoolTypes'
  BY <1>0, <1>1, <1>2 DEF PoolTypes
<1>4. unfed' \cup jobs' = unfed \cup jobs
  BY <1>2
<1>5. Alarm' = Alarm /\ \A d : Pending(d) => Pending(d)'
  BY <1>0, <1>4 DEF Alarm, Pending
<1>6. AtBatch'
  BY <1>0, <1>1, <1>2, <1>4, <1>5 DEF AtBatch
<1>7. ControlTypes' /\ SignalTypes' /\ ResultTypes' /\ Elsewhere'
  BY <1>0, <1>1, PoolStep DEF SignalTypes, ResultTypes
<1> QED
  BY <1>3, <1>6, <1>7 DEF StagesInv, StagesTypes, Elsewhere

LEMMA CancelKeeps ==
  ASSUME StagesInv, Stages!Cancel
  PROVE  StagesInv'
<1>0. /\ UNCHANGED <<legacy, stage, cands, carried, iters, probed, pass, budget>>
      /\ UNCHANGED <<pc, baseline, results, batch, outcome, failed>> /\ UNCHANGED Stages!poolVars
      /\ pc # "ended" /\ secondAbort' = TRUE /\ cancelled' = TRUE
  BY DEF Stages!Cancel, Stages!stageVars
<1>1. /\ ControlTypes /\ SignalTypes /\ ResultTypes /\ PoolTypes
      /\ Flow /\ outcome = "none"
  BY <1>0 DEF StagesInv, StagesTypes, Flow
<1>2. ControlTypes' /\ SignalTypes' /\ ResultTypes' /\ PoolTypes'
  BY <1>0, <1>1, PoolKept DEF ControlTypes, SignalTypes, ResultTypes
<1>3. AtStart' /\ AtHead' /\ AtProbe' /\ AtExtend' /\ AtRerun' /\ AtRest'
  BY <1>0 DEF StagesInv, AtStart, AtHead, AtProbe, AtExtend, AtRerun, AtRest
<1>4. AtBatch'
  <2>1. Alarm'
    BY <1>0 DEF Alarm
  <2> QED
    BY <1>0, <2>1 DEF StagesInv, AtBatch, Stages!poolVars
<1>5. Flow'
  BY <1>0, <1>1 DEF Flow, Stages!CompleteIsWhole
<1> QED
  BY <1>2, <1>3, <1>4, <1>5 DEF StagesInv, StagesTypes

LEMMA TakeKeeps ==
  ASSUME StagesInv, pc = "batch", NEW w \in Stages!PoolWorkers, Stages!Take(w),
         UNCHANGED <<cands, iters, baseline, batch, unfed>>
  PROVE  AtBatch' /\ PoolTypes'
<1>0. wpc[w] = "take" /\ UNCHANGED <<slots, secondAbort, failed, pc>>
  BY DEF Stages!Take
<1>1. PoolTypes /\ AtBatch /\ cands \subseteq Jobs /\ Jobs \subseteq Gears
  BY DEF StagesInv, StagesTypes, ControlTypes, Jobs
<1>2. CASE ~secondAbort /\ \E c \in jobs : /\ jobs' = jobs \ {c}
                                           /\ task' = [task EXCEPT ![w] = c]
                                           /\ wpc' = [wpc EXCEPT ![w] = "sim"]
  <2>1. PICK c \in jobs : /\ jobs' = jobs \ {c}
                          /\ task' = [task EXCEPT ![w] = c]
                          /\ wpc' = [wpc EXCEPT ![w] = "sim"]
    BY <1>2
  <2>2. PoolTypes'
    BY <1>0, <1>1, <2>1 DEF PoolTypes
  <2>3. /\ wpc'[w] = "sim" /\ task'[w] = c
        /\ \A v \in Stages!PoolWorkers : v # w => wpc'[v] = wpc[v] /\ task'[v] = task[v]
    BY <1>1, <2>1 DEF PoolTypes
  <2>4. \A d : Pending(d) => Pending(d)'
    BY <1>0, <2>1, <2>3 DEF Pending
  <2>5. Alarm => Alarm'
    BY <1>0, <2>3 DEF Alarm
  <2>6. \A v \in Stages!PoolWorkers : wpc'[v] = "sim" => task'[v] \in cands
    BY <1>1, <2>1, <2>3 DEF AtBatch
  <2>7. jobs' \subseteq cands
    BY <1>1, <2>1 DEF AtBatch
  <2> QED
    BY <1>0, <1>1, <2>2, <2>3, <2>4, <2>5, <2>6, <2>7 DEF AtBatch
<1>3. CASE /\ secondAbort \/ (unfed = {} /\ jobs = {})
           /\ wpc' = [wpc EXCEPT ![w] = "gone"]
           /\ UNCHANGED <<jobs, task>>
  <2>1. PoolTypes'
    BY <1>0, <1>1, <1>3 DEF PoolTypes
  <2>2. /\ wpc'[w] = "gone"
        /\ \A v \in Stages!PoolWorkers : v # w => wpc'[v] = wpc[v]
    BY <1>1, <1>3 DEF PoolTypes
  <2>3. \A d : Pending(d) => Pending(d)'
    BY <1>0, <1>3, <2>2 DEF Pending
  <2>4. Alarm => Alarm'
    BY <1>0, <2>2 DEF Alarm
  <2> QED
    BY <1>0, <1>1, <1>3, <2>1, <2>2, <2>3, <2>4 DEF AtBatch
<1> QED
  BY <1>2, <1>3 DEF Stages!Take

LEMMA SimulateKeeps ==
  ASSUME StagesInv, pc = "batch", NEW w \in Stages!PoolWorkers, Stages!Simulate(w),
         UNCHANGED <<cands, iters, baseline, batch, unfed>>
  PROVE  AtBatch' /\ PoolTypes' /\ failed' \subseteq Gears
<1>0. wpc[w] = "sim" /\ UNCHANGED <<jobs, task, secondAbort, pc>>
  BY DEF Stages!Simulate
<1>1. PoolTypes /\ ResultTypes /\ AtBatch /\ cands \subseteq Jobs /\ Jobs \subseteq Gears
  BY DEF StagesInv, StagesTypes, ControlTypes, Jobs
<1>2. PICK c : c = task[w]
  OBVIOUS
<1>r. PICK s \in Stages!Outcomes(c, batch.offset, batch.n) : \E r :
        /\ r = Stages!Merge(batch.prior[c], s)
        /\ slots' = [slots EXCEPT ![c] = r]
        /\ wpc' = [wpc EXCEPT ![w] = IF Broken(r) THEN "trigger" ELSE "take"]
        /\ Stages!Noted(c, r)
  BY <1>2 DEF Stages!Simulate, Broken
<1>3. PICK r :
        /\ r = Stages!Merge(batch.prior[c], s)
        /\ slots' = [slots EXCEPT ![c] = r]
        /\ wpc' = [wpc EXCEPT ![w] = IF Broken(r) THEN "trigger" ELSE "take"]
        /\ Stages!Noted(c, r)
  BY <1>r
<1>4. /\ c \in cands /\ batch.offset \in Nat /\ batch.n \in Nat
      /\ iters = batch.offset + batch.n /\ Carried(batch.prior[c], batch.offset)
  BY <1>0, <1>1, <1>2 DEF AtBatch, ResultTypes
<1>5. /\ s \in Stages!Results
      /\ \/ s = Stages!Segment(batch.offset, batch.n) /\ Good(s) /\ ~Broken(s)
         \/ Broken(s) /\ ~Good(s)
  BY <1>4, OutcomeFacts
<1>6. /\ r \in Stages!Results
      /\ (r = Whole(iters) /\ Good(r) /\ ~Broken(r)) \/ (r = s /\ Broken(r) /\ ~Good(r))
  <2>1. CASE s = Stages!Segment(batch.offset, batch.n)
    <3>1. r = Whole(iters)
      BY <1>3, <1>4, <2>1, MergeFacts
    <3>2. iters \in Nat
      BY <1>4
    <3> QED
      BY <3>1, <3>2, SegmentType DEF Whole
  <2>2. CASE Broken(s) /\ ~Good(s)
    BY <1>3, <1>4, <1>5, <2>2, MergeFacts
  <2> QED
    BY <1>5, <2>1, <2>2
<1>7. r \in Stages!Results /\ r # Absent
  BY <1>5, <1>6, UnknownType
<1>8. failed' \subseteq Gears /\ (failed' # {} => failed # {} \/ Broken(r))
  BY <1>1, <1>3, <1>4, NotedType DEF ResultTypes
<1>9. /\ wpc'[w] = IF Broken(r) THEN "trigger" ELSE "take"
      /\ \A v \in Stages!PoolWorkers : v # w => wpc'[v] = wpc[v]
      /\ slots'[c] = r
      /\ \A d \in cands : d # c => slots'[d] = slots[d]
  BY <1>1, <1>3, <1>4 DEF PoolTypes
<1>10. PoolTypes'
  BY <1>0, <1>1, <1>3, <1>7 DEF PoolTypes
<1>11. \A d : d # c /\ Pending(d) => Pending(d)'
  BY <1>0, <1>2, <1>9 DEF Pending
<1>12. Alarm \/ Broken(r) => Alarm'
  BY <1>0, <1>9 DEF Alarm
<1>13. \A d \in cands : Good(slots'[d]) => slots'[d] = Whole(iters)
  BY <1>0, <1>1, <1>6, <1>9 DEF AtBatch
<1>14. \A d \in cands : secondAbort \/ Pending(d)' \/ slots'[d] # Absent
  BY <1>0, <1>1, <1>7, <1>9, <1>11 DEF AtBatch
<1>15. failed' # {} \/ (\E d \in cands : Broken(slots'[d])) => Alarm'
  BY <1>0, <1>1, <1>8, <1>9, <1>12 DEF AtBatch
<1>16. \A v \in Stages!PoolWorkers : wpc'[v] = "sim" => task'[v] \in cands
  BY <1>0, <1>1, <1>9 DEF AtBatch
<1>17. wpc'[w] # "gone"
  BY <1>9
<1> QED
  BY <1>0, <1>1, <1>8, <1>10, <1>13, <1>14, <1>15, <1>16, <1>17 DEF AtBatch

LEMMA TriggerKeeps ==
  ASSUME StagesInv, pc = "batch", NEW w \in Stages!PoolWorkers,
         Stages!TriggerSelect(w) \/ Stages!TriggerClose(w),
         UNCHANGED <<cands, iters, baseline, batch, unfed>>
  PROVE  /\ AtBatch' /\ PoolTypes'
         /\ pc' \in {"batch", "crashed"} /\ UNCHANGED failed
         /\ secondAbort' \in BOOLEAN /\ (secondAbort => secondAbort')
<1>0. /\ UNCHANGED <<jobs, task, slots, failed>> /\ pc' \in {"batch", "crashed"}
      /\ wpc[w] \in {"trigger", "close"}
      /\ \/ secondAbort' = TRUE
         \/ secondAbort' = secondAbort /\ (secondAbort \/ wpc' = [wpc EXCEPT ![w] = "close"])
      /\ \E p \in {"take", "close"} : wpc' = [wpc EXCEPT ![w] = p]
  BY DEF Stages!TriggerSelect, Stages!TriggerClose
<1>1. PoolTypes /\ SignalTypes /\ AtBatch
  BY DEF StagesInv, StagesTypes
<1>2. PICK p \in {"take", "close"} : wpc' = [wpc EXCEPT ![w] = p]
  BY <1>0
<1>3. PoolTypes'
  BY <1>0, <1>1, <1>2 DEF PoolTypes
<1>4. /\ wpc'[w] = p
      /\ \A v \in Stages!PoolWorkers : v # w => wpc'[v] = wpc[v]
  BY <1>1, <1>2 DEF PoolTypes
<1>5. secondAbort' \in BOOLEAN /\ (secondAbort => secondAbort')
  BY <1>0, <1>1 DEF SignalTypes
<1>6. Alarm'
  <2>1. CASE secondAbort'
    BY <2>1 DEF Alarm
  <2>2. CASE wpc' = [wpc EXCEPT ![w] = "close"]
    <3>1. wpc'[w] = "close"
      BY <1>1, <2>2 DEF PoolTypes
    <3> QED
      BY <3>1 DEF Alarm
  <2> QED
    BY <1>0, <2>1, <2>2
<1>7. \A d : Pending(d) => Pending(d)'
  BY <1>0, <1>4 DEF Pending
<1>8. AtBatch'
  <2>1. \A c \in cands : secondAbort' \/ Pending(c)' \/ slots'[c] # Absent
    BY <1>0, <1>1, <1>5, <1>7 DEF AtBatch
  <2> QED
    BY <1>0, <1>1, <1>4, <1>6, <2>1 DEF AtBatch
<1> QED
  BY <1>0, <1>3, <1>5, <1>8

LEMMA WorkerKeeps ==
  ASSUME StagesInv, NEW w \in Stages!PoolWorkers, Stages!WorkerStep(w)
  PROVE  StagesInv'
<1>0. /\ UNCHANGED <<legacy, stage, cands, carried, iters, probed, pass, budget>>
      /\ UNCHANGED <<baseline, results, batch, outcome, cancelled, unfed>>
      /\ pc = "batch"
      /\ Stages!Take(w) \/ Stages!Simulate(w) \/ Stages!TriggerSelect(w) \/ Stages!TriggerClose(w)
  BY DEF Stages!WorkerStep, Stages!stageVars
<1>1. secondAbort \in BOOLEAN /\ failed \subseteq Gears
  BY DEF StagesInv, StagesTypes, SignalTypes, ResultTypes
<1>2. /\ AtBatch' /\ PoolTypes'
      /\ pc' \in {"batch", "crashed"} /\ failed' \subseteq Gears
      /\ secondAbort' \in BOOLEAN /\ (secondAbort => secondAbort')
  <2>1. CASE Stages!Take(w)
    <3>1. UNCHANGED <<secondAbort, failed, pc>>
      BY <2>1 DEF Stages!Take
    <3> QED
      BY <1>0, <1>1, <2>1, <3>1, TakeKeeps
  <2>2. CASE Stages!Simulate(w)
    <3>1. UNCHANGED <<secondAbort, pc>>
      BY <2>2 DEF Stages!Simulate
    <3> QED
      BY <1>0, <1>1, <2>2, <3>1, SimulateKeeps
  <2>3. CASE Stages!TriggerSelect(w) \/ Stages!TriggerClose(w)
    BY <1>0, <1>1, <2>3, TriggerKeeps
  <2> QED
    BY <1>0, <2>1, <2>2, <2>3
<1>3. ControlTypes' /\ SignalTypes' /\ ResultTypes' /\ Elsewhere'
  BY <1>0, <1>2, PoolStep
<1> QED
  BY <1>2, <1>3 DEF StagesInv, StagesTypes, Elsewhere

\* A step of the goroutine of the job, of the feeder, of a worker, or an abort.
LEMMA StagesKeep ==
  ASSUME StagesInv,
         \/ Stages!JobStep \/ Stages!Feed \/ Stages!Cancel
         \/ \E w \in Stages!PoolWorkers : Stages!WorkerStep(w)
  PROVE  StagesInv'
<1>1. CASE Stages!Feed \/ Stages!Cancel \/ \E w \in Stages!PoolWorkers : Stages!WorkerStep(w)
  BY <1>1, FeedKeeps, CancelKeeps, WorkerKeeps
<1>2. CASE Stages!JobStep
  BY <1>2, BeginKeeps, NextStageKeeps, ProbeKeeps, ExtendKeeps, RerunKeeps, AdaptKeeps,
     StagedKeeps, FinalistKeeps, RefineKeeps, RefinedKeeps, LastCheckKeeps, EndBatchKeeps
     DEF Stages!JobStep
<1> QED
  BY <1>1, <1>2

\* A step of anybody else.
LEMMA StagesUntouched ==
  ASSUME StagesInv, UNCHANGED stagesVars
  PROVE  StagesInv'
<1>0. /\ UNCHANGED <<pc, legacy, stage, cands, carried, iters, probed, pass, budget>>
      /\ UNCHANGED <<baseline, results, batch, unfed, jobs, wpc, task, slots>>
      /\ UNCHANGED <<secondAbort, outcome, cancelled, failed>>
  BY DEF stagesVars
<1>1. StagesTypes'
  <2>1. ControlTypes' /\ SignalTypes'
    BY <1>0 DEF StagesInv, StagesTypes, ControlTypes, SignalTypes
  <2>2. ResultTypes' /\ PoolTypes'
    BY <1>0 DEF StagesInv, StagesTypes, ResultTypes, PoolTypes
  <2> QED
    BY <2>1, <2>2 DEF StagesTypes
<1>2. AtStart' /\ AtHead' /\ AtProbe' /\ AtExtend' /\ AtRerun' /\ AtRest'
  BY <1>0 DEF StagesInv, AtStart, AtHead, AtProbe, AtExtend, AtRerun, AtRest
<1>3. AtBatch'
  BY <1>0 DEF StagesInv, AtBatch, Alarm, Pending
<1>4. Flow'
  BY <1>0 DEF StagesInv, Flow, Stages!CompleteIsWhole
<1> QED
  BY <1>1, <1>2, <1>3, <1>4 DEF StagesInv

\* The front end hands its candidates over.
LEMMA HandedOver ==
  ASSUME StagesInv, pc = "start", cands' \in SUBSET Jobs, IsFiniteSet(cands'),
         legacy' \in BOOLEAN,
         UNCHANGED <<pc, stage, carried, iters, probed, pass, budget, baseline, results, batch>>,
         UNCHANGED <<unfed, jobs, wpc, task, slots, secondAbort, outcome, cancelled, failed>>
  PROVE  StagesInv'
<1>1. ControlTypes /\ SignalTypes /\ ResultTypes /\ PoolTypes /\ AtStart /\ Flow
  BY DEF StagesInv, StagesTypes
<1>2. ControlTypes'
  BY <1>1 DEF ControlTypes
<1>3. SignalTypes'
  BY <1>1 DEF SignalTypes
<1>4. ResultTypes' /\ PoolTypes'
  BY <1>1 DEF ResultTypes, PoolTypes
<1>5. AtStart' /\ Flow'
  BY <1>1 DEF AtStart, Flow, Stages!CompleteIsWhole
<1> QED
  BY <1>2, <1>3, <1>4, <1>5
     DEF StagesInv, StagesTypes, AtHead, AtProbe, AtExtend, AtBatch, AtRerun, AtRest

-----------------------------------------------------------------------------
(* The job.                                                                *)

JobTypes ==
  /\ phase \in {"register", "generate", "prepass", "unregister", "delegate", "stages", "closed"}
  /\ registered \in {"none", "first", "second"}
  /\ final \in {"none", "complete", "aborted", "error"}
  /\ reforge \in BOOLEAN /\ heeded \in BOOLEAN

\* An abort that was acknowledged is in the signal that the job looks at next, or has
\* had its effect.
Heeded ==
  /\ heeded => \/ firstAbort /\ phase \in {"generate", "prepass"}
               \/ cancelled
               \/ phase = "closed" /\ final \in {"aborted", "error"}
  /\ phase \in {"register", "generate", "prepass", "unregister", "delegate"} => pc = "start"
  /\ phase # "closed" => final = "none"
  /\ registered = "first" => phase \in {"generate", "prepass", "unregister"}
  /\ registered = "second" => phase = "stages"
  /\ final = "complete" => outcome = "complete" /\ phase = "closed"

BulkInv == PrepassInv /\ StagesInv /\ JobTypes /\ Heeded

\* What the first half hands on is a finite set of gears.
LEMMA SimmedFacts ==
  ASSUME PrepassInv
  PROVE  Simmed \subseteq Gears /\ IsFiniteSet(Simmed)
<1>1. CASE reforge
  <2>1. simmed \in Seq(Gears)
    BY DEF PrepassInv, P!SimmedInv
  <2>2. /\ Len(simmed) \in Nat /\ simmed \in [1..Len(simmed) -> Gears]
        /\ DOMAIN simmed = 1..Len(simmed)
    BY <2>1, LenProperties
  <2>3. Simmed = {simmed[i] : i \in 1..Len(simmed)}
    BY <1>1, <2>2 DEF Simmed, ToSet
  <2>4. IsFiniteSet(1..Len(simmed))
    BY <2>2, FS_Interval
  <2>5. simmed \in Surjection(1..Len(simmed), Simmed)
    BY <2>2, <2>3 DEF Surjection
  <2> QED
    BY <2>2, <2>3, <2>4, <2>5, FS_Surjection
<1>2. CASE ~reforge
  <2>1. request \in Seq(Gears \cup {NoGear})
    BY ReforgeAssumption DEF PrepassInv
  <2>2. Len(request) \in Nat /\ request \in [1..Len(request) -> Gears \cup {NoGear}]
    BY <2>1, LenProperties
  <2>3. PICK C : C = Prepass!Candidates
    OBVIOUS
  <2>4. C \in SUBSET (1..Len(request)) /\ \A p \in C : request[p] \in Gears
    BY <2>2, <2>3 DEF Prepass!Candidates, Prepass!Positions
  <2>5. IsFiniteSet(C)
    <3>1. IsFiniteSet(1..Len(request))
      BY <2>2, FS_Interval
    <3> QED
      BY <2>4, <3>1, FS_Subset
  <2>6. Simmed = {request[p] : p \in C}
    BY <1>2, <2>3 DEF Simmed
  <2>7. [p \in C |-> request[p]] \in Surjection(C, Simmed)
    BY <2>6 DEF Surjection
  <2> QED
    BY <2>4, <2>5, <2>6, <2>7, FS_Surjection
<1> QED
  BY <1>1, <1>2 DEF Simmed

\* The stages of a job keep their invariant.
LEMMA JobStages ==
  ASSUME BulkInv, [Next]_vars
  PROVE  StagesInv'
<1> USE DEF BulkInv
<1>1. CASE UNCHANGED stagesVars
  BY <1>1, StagesUntouched
<1>2. CASE FeederStep \/ StagesStep \/ AbortSecond
  BY <1>2, StagesKeep DEF FeederStep, StagesStep, AbortSecond
<1>3. CASE Unregister
  <2>1. Simmed \ {Baseline} \in SUBSET Jobs /\ IsFiniteSet(Simmed \ {Baseline})
    BY SimmedFacts, FS_Subset DEF Jobs
  <2>2. pc = "start"
    BY <1>3 DEF Unregister, Heeded
  <2> QED
    BY <1>3, <2>1, <2>2, HandedOver DEF Unregister
<1> QED
  BY <1>1, <1>2, <1>3
     DEF Next, vars, Register, Generate, PrepassStep, CheckPrepass, Delegate, Report, AbortFirst

\* What the stages' steps leave to the job.
LEMMA StagesFrame ==
  /\ Stages!JobStep \/ Stages!Feed \/ (\E w \in Stages!PoolWorkers : Stages!WorkerStep(w))
       => cancelled' = cancelled
  /\ Prepass!MainStep \/ (\E w \in Workers : Prepass!WorkerStep(w)) => firstAbort' = firstAbort
<1>1. Stages!JobStep => cancelled' = cancelled
  BY DEF Stages!JobStep, Stages!Begin, Stages!NextStage, Stages!Probe, Stages!Extend,
         Stages!Rerun, Stages!Adapt, Stages!Staged, Stages!Finalist, Stages!Refine,
         Stages!Refined, Stages!LastCheck, Stages!EndBatch
<1>2. Stages!Feed \/ (\E w \in Stages!PoolWorkers : Stages!WorkerStep(w))
        => cancelled' = cancelled
  BY DEF Stages!Feed, Stages!WorkerStep
<1>3. Prepass!MainStep => firstAbort' = firstAbort
  BY DEF Prepass!MainStep, Prepass!Start, Prepass!Feed, Prepass!CloseJobs, Prepass!Flush,
         Prepass!Conclude
<1>4. (\E w \in Workers : Prepass!WorkerStep(w)) => firstAbort' = firstAbort
  BY DEF Prepass!WorkerStep
<1> QED
  BY <1>1, <1>2, <1>3, <1>4

\* An abort that is acknowledged is not lost on the way to the final message.
LEMMA JobHeeds ==
  ASSUME BulkInv, [Next]_vars
  PROVE  JobTypes' /\ Heeded'
<1>1. JobTypes /\ Heeded /\ Flow /\ outcome \in {"none", "complete", "aborted", "failed"}
  BY DEF BulkInv, StagesInv, StagesTypes, ControlTypes
<1> USE DEF JobTypes, Heeded
<1>2. CASE Register \/ Generate \/ CheckPrepass \/ Delegate
  <2>1. UNCHANGED <<reforge, heeded, pc, outcome, cancelled, firstAbort>>
    BY <1>2 DEF Register, Generate, CheckPrepass, Delegate, prepassVars, stagesVars
  <2> QED
    BY <1>1, <1>2, <2>1 DEF Register, Generate, CheckPrepass, Delegate, Goto, Conclude
<1>3. CASE PrepassStep
  <2>1. firstAbort' = firstAbort
    BY <1>3, StagesFrame DEF PrepassStep
  <2>2. UNCHANGED <<phase, reforge, registered, final, heeded, pc, outcome, cancelled>>
    BY <1>3 DEF PrepassStep, jobVars, stagesVars
  <2> QED
    BY <1>1, <2>1, <2>2
<1>4. CASE Unregister
  <2>1. phase = "unregister" /\ phase' = "delegate" /\ registered' = "none"
        /\ UNCHANGED <<reforge, final, heeded, pc, outcome, cancelled>>
    BY <1>4 DEF Unregister, Goto
  <2> QED
    BY <1>1, <2>1
<1>5. CASE FeederStep \/ StagesStep
  <2>1. cancelled' = cancelled /\ phase = "stages"
    BY <1>5, StagesFrame DEF FeederStep, StagesStep
  <2>2. UNCHANGED <<phase, reforge, registered, final, heeded>>
    BY <1>5 DEF FeederStep, StagesStep, jobVars
  <2> QED
    BY <1>1, <2>1, <2>2
<1>6. CASE Report
  <2>1. /\ phase = "stages" /\ phase' = "closed" /\ registered' = "none"
        /\ final' = IF outcome = "failed" THEN "error" ELSE outcome
        /\ UNCHANGED <<reforge, heeded, pc, outcome, cancelled>>
    BY <1>6 DEF Report, Conclude, Goto, stagesVars
  <2> QED
    BY <1>1, <2>1
<1>7. CASE AbortFirst
  <2>1. /\ registered = "first" /\ firstAbort' = TRUE /\ heeded' = (phase # "unregister")
        /\ UNCHANGED <<phase, reforge, registered, final, pc, outcome, cancelled>>
    BY <1>7 DEF AbortFirst, stagesVars
  <2> QED
    BY <1>1, <2>1
<1>8. CASE AbortSecond
  <2>1. /\ registered = "second" /\ cancelled' = TRUE /\ heeded' = TRUE
        /\ UNCHANGED <<phase, reforge, registered, final, pc, outcome>>
    BY <1>8 DEF AbortSecond, Stages!Cancel
  <2> QED
    BY <1>1, <2>1
<1>9. CASE UNCHANGED vars
  <2>1. UNCHANGED <<phase, reforge, registered, final, heeded, pc, outcome, cancelled, firstAbort>>
    BY <1>9 DEF vars, jobVars, prepassVars, stagesVars
  <2> QED
    BY <1>1, <2>1
<1> QED
  BY <1>2, <1>3, <1>4, <1>5, <1>6, <1>7, <1>8, <1>9 DEF Next

\* The invariant of the job.
LEMMA BulkInductive == Spec => []BulkInv
<1>1. Init => StagesInv /\ JobTypes /\ Heeded
  <2>1. Init => Stages!Init /\ IsFiniteSet(cands)
    BY FS_EmptySet DEF Init
  <2>2. Init => StagesInv
    BY <2>1, StagesBegin
  <2> QED
    BY <2>2 DEF Init, Stages!Init, JobTypes, Heeded
<1>2. BulkInv /\ [Next]_vars => (StagesInv /\ JobTypes /\ Heeded)'
  BY JobStages, JobHeeds
<1> QED
  BY <1>1, <1>2, PrepassInductive, PTL DEF Spec, BulkInv

\* Wherever results are compared they consist of the same samples, those that a single
\* run of as many iterations would have: carried over, extended, rerun or cut short by
\* an abort, in any order the pool may finish.
THEOREM SamplesInLockstep == Spec => []Lockstep
<1>1. BulkInv => Lockstep
  <2> SUFFICES ASSUME BulkInv, ~Stages!HasError,
                      pc \in {"adapt", "staged", "finalist", "refine", "finish"},
                      NEW c \in cands, Good(results[c])
               PROVE  /\ results[c].seeds = baseline.seeds
                      /\ results[c].seeds = Stages!Samples(0, iters)
    BY DEF Lockstep, Stages!Lockstep, Good
  <2>1. ~Broken(baseline)
    BY DEF Stages!HasError, Broken
  <2>2. baseline = Whole(iters) /\ results[c] = Whole(iters)
    BY <2>1 DEF BulkInv, StagesInv, AtRest
  <2> QED
    BY <2>2 DEF Whole, Stages!Segment
<1> QED
  BY <1>1, BulkInductive, PTL

\* A job that is reported as complete has heeded no abort, in either half, and rests on
\* whole results of everything that was to be simulated and not culled.
THEOREM CompleteJobIsWhole == Spec => []CompleteIsWhole
<1>1. BulkInv => CompleteIsWhole
  <2> SUFFICES ASSUME BulkInv, final = "complete" PROVE ~heeded /\ Stages!CompleteIsWhole
    BY DEF CompleteIsWhole
  <2>1. outcome = "complete" /\ phase = "closed" /\ Stages!CompleteIsWhole
    BY DEF BulkInv, Heeded, StagesInv, Flow
  <2>2. ~cancelled
    BY <2>1 DEF Stages!CompleteIsWhole
  <2> QED
    BY <2>1, <2>2 DEF BulkInv, Heeded
<1> QED
  BY <1>1, BulkInductive, PTL

\* The types of both halves and of the job are right.
THEOREM TypeCorrect == Spec => []TypeOK
<1>1. BulkInv => TypeOK
  <2>1. PrepassInv => Prepass!TypeOK
    <3>1. PrepassInv => P!TypeOK
      BY P!TypesHold, ReforgeAssumption DEF PrepassInv
    <3>2. P!TypeOK => Prepass!TypeOK
      BY SameNames DEF P!TypeOK, Prepass!TypeOK, P!Answers, Prepass!Answers
    <3> QED
      BY <3>1, <3>2
  <2>2. StagesInv => Stages!TypeOK
    BY StagesTyped DEF StagesInv
  <2>3. JobTypes => {reforge, heeded} \subseteq BOOLEAN
    BY DEF JobTypes
  <2> QED
    BY <2>1, <2>2, <2>3 DEF BulkInv, JobTypes, TypeOK
<1> QED
  BY <1>1, BulkInductive, PTL

=============================================================================
