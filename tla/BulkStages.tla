----------------------------- MODULE BulkStages -----------------------------
(***************************************************************************)
(* runBulkSim (sim/core/bulk/bulk_sim.go) and its stages (stage.go): the   *)
(* candidates of a bulk simulation are simulated in up to three stages of  *)
(* growing precision, of which the first two cull, and the best results    *)
(* once more in a finalist stage.  A stage simulates only the iterations   *)
(* that the one before has not: a segment of n iterations that starts at   *)
(* seed offset o is appended to the samples o..o+n-1 would continue.  The  *)
(* segments of the candidates run on a pool of workers (batch.go) that the *)
(* first error stops through the signal they share with the caller.        *)
(*                                                                         *)
(* A result is the sequence of the seed offsets of its samples, or an      *)
(* error.  What is computed from the samples is open: the iterations a     *)
(* stage aims at, who is culled, which pair of finalists is unresolved.    *)
(* Progress reports are left out.  A segment is one step, since only the   *)
(* caller of the job can see it happen; that its samples come in the order *)
(* of their seeds is what ConcurrentSim's split and run() make of it.      *)
(***************************************************************************)
EXTENDS Integers, Sequences, FiniteSets, FiniteSetsExt

CONSTANTS
  Candidates,    \* the gear sets a request may ask for
  MaxWorkers,    \* of the largest pool
  Faulty,        \* candidates whose simulation may fail, also BaselineGear
  BaselineGear,  \* stands for the gear of the player
  MinIterations, \* of the low, medium and high stage
  MaxSurvivors,  \* of each stage, 0 for one that does not cull
  MinSurvivors,
  StageWorkers,  \* GetBulkSimStageConcurrency of the three stages and the finals
  TopResults,    \* request.TopResults
  MaxTarget      \* bound on the iterations a stage or a pass aims at

Stages  == 1..3
Final   == 4
PoolWorkers == 1..MaxWorkers

\* BulkSimMaxAdaptivePasses, BulkSimAdaptiveMaxIterationMultiplier,
\* BulkSimFinalistMaxExtraIterationMultiplier, BulkSimSurvivorSoftCapMultiplier
AdaptivePasses   == 2
AdaptiveFactor   == 4
FinalistFactor   == 3
SoftCap          == 2

VARIABLES
  pc,        \* where the goroutine of the job is
  legacy,    \* shouldUseLegacyBulkSim: the high stage alone
  stage,     \* the stage it is in
  cands,     \* the candidates of that stage
  carried,   \* carriedIterations: what the stage before has simulated
  iters,     \* the stage's iterations so far
  probed,    \* probeIterations
  pass,      \* adaptive passes begun
  budget,    \* iterations up to which the adaptive passes, or the finals, may go
  baseline,  \* the result of the baseline
  results,   \* the result of each candidate
  batch,     \* the segment the pool runs: offset, iterations, what it extends
  unfed, jobs, wpc, task, slots,  \* feeder, channel, workers, resultsByPosition
  abort,     \* signals.Abort
  outcome,   \* of the job: "none", "complete", "aborted", "failed"
  cancelled, \* history: the caller aborted
  failed     \* history: the candidates whose simulation failed

stageVars == <<legacy, stage, cands, carried, iters, probed, pass, budget>>
poolVars  == <<unfed, jobs, wpc, task, slots>>
vars == <<pc, stageVars, baseline, results, batch, poolVars, abort, outcome,
          cancelled, failed>>

-----------------------------------------------------------------------------
(* Results.                                                                *)

Absent      == [seeds |-> <<>>, err |-> "absent"]
Unknown     == [c \in Candidates |-> Absent]
NoBatch     == [offset |-> 0, n |-> 0, prior |-> Unknown]
Error(e)    == [seeds |-> <<>>, err |-> e]
Good(r)     == r.err = "none"
Broken(r)   == r.err \in {"failed", "aborted"}

\* The samples of n iterations that start `offset` into the sequence of seeds.
Samples(offset, n) == [i \in 1..n |-> offset + i - 1]

\* (mutant: every segment starts at the first seed)
SegmentFromStart(offset, n) == [seeds |-> Samples(0, n), err |-> "none"]

Segment(offset, n) == [seeds |-> Samples(offset, n), err |-> "none"]

\* runSingleBulkSimCandidate: aborted, failed, or the segment.
Outcomes(c, offset, n) ==
  (IF abort THEN {Error("aborted")} ELSE {Segment(offset, n)})
    \cup (IF c \in Faulty THEN {Error("failed")} ELSE {})

\* mergeBulkSimCandidateResults
Merge(r, s) ==
  CASE r.err = "absent" -> s
    [] Broken(r)        -> r
    [] Good(r) /\ ~Good(s) -> s
    [] OTHER            -> [seeds |-> r.seeds \o s.seeds, err |-> r.err]

\* hasBulkSimStageError
HasError == Broken(baseline) \/ \E c \in Candidates : Broken(results[c])

Larger(m, n) == IF m < n THEN n ELSE m

-----------------------------------------------------------------------------
Init ==
  /\ pc = "start" /\ stage = 1 /\ legacy \in BOOLEAN
  /\ cands \in SUBSET Candidates
  /\ carried = 0 /\ iters = 0 /\ probed = 0 /\ pass = 0 /\ budget = 0
  /\ baseline = Absent
  /\ results = Unknown
  /\ batch = NoBatch
  /\ unfed = {} /\ jobs = {}
  /\ wpc = [w \in PoolWorkers |-> "gone"]
  /\ task = [w \in PoolWorkers |-> BaselineGear]
  /\ slots = Unknown
  /\ abort = FALSE /\ cancelled = FALSE /\ failed = {}
  /\ outcome = "none"

Finish(o) == pc' = "ended" /\ outcome' = o

Noted(c, r) == failed' = IF r.err = "failed" THEN failed \cup {c} ELSE failed

-----------------------------------------------------------------------------
(* A batch: runBulkSimCandidateBatch.                                      *)

StartBatch(offset, n, prior) ==
  /\ batch' = [offset |-> offset, n |-> n, prior |-> prior]
  /\ unfed' = cands /\ jobs' = {}
  /\ slots' = Unknown
  /\ wpc' = [w \in PoolWorkers |->
               IF w <= Min({StageWorkers[stage], Cardinality(cands)})
               THEN "take" ELSE "gone"]
  /\ UNCHANGED task

\* The feeder: one candidate at a time, in any order, until an abort.  It closes the
\* channel when it has passed on all of them.
Feed ==
  /\ pc = "batch" /\ ~abort
  /\ \E c \in unfed : unfed' = unfed \ {c} /\ jobs' = jobs \cup {c}
  /\ UNCHANGED <<pc, stageVars, baseline, results, batch, wpc, task, slots, abort,
                 outcome, cancelled, failed>>

\* (mutant: the feeder that stops at an abort leaves the channel open)
TakeUnclosed(w) ==
  /\ wpc[w] = "take"
  /\ \/ /\ ~abort
        /\ \E c \in jobs : /\ jobs' = jobs \ {c}
                           /\ task' = [task EXCEPT ![w] = c]
                           /\ wpc' = [wpc EXCEPT ![w] = "sim"]
     \/ /\ (abort /\ jobs # {}) \/ (unfed = {} /\ jobs = {})
        /\ wpc' = [wpc EXCEPT ![w] = "gone"]
        /\ UNCHANGED <<jobs, task>>
  /\ UNCHANGED <<slots, abort, failed, pc>>

\* A worker takes a job and simulates it unless it finds the signal triggered; the
\* closed channel ends it.
Take(w) ==
  /\ wpc[w] = "take"
  /\ \/ /\ ~abort
        /\ \E c \in jobs : /\ jobs' = jobs \ {c}
                           /\ task' = [task EXCEPT ![w] = c]
                           /\ wpc' = [wpc EXCEPT ![w] = "sim"]
     \/ /\ abort \/ (unfed = {} /\ jobs = {})
        /\ wpc' = [wpc EXCEPT ![w] = "gone"]
        /\ UNCHANGED <<jobs, task>>
  /\ UNCHANGED <<slots, abort, failed, pc>>

\* The segment, merged with what it extends, goes to the candidate's slot.
Simulate(w) ==
  /\ wpc[w] = "sim"
  /\ \E s \in Outcomes(task[w], batch.offset, batch.n) :
       LET r == Merge(batch.prior[task[w]], s) IN
         /\ slots' = [slots EXCEPT ![task[w]] = r]
         /\ wpc' = [wpc EXCEPT ![w] = IF Broken(r) THEN "trigger" ELSE "take"]
         /\ Noted(task[w], r)
  /\ UNCHANGED <<jobs, task, abort, pc>>

\* signals.Abort.Trigger(): its select and its close.  Closing a closed channel
\* panics, nobody recovers, and the process is gone.
TriggerSelect(w) ==
  /\ wpc[w] = "trigger"
  /\ wpc' = [wpc EXCEPT ![w] = IF abort THEN "take" ELSE "close"]
  /\ UNCHANGED <<jobs, task, slots, abort, failed, pc>>

TriggerClose(w) ==
  /\ wpc[w] = "close"
  /\ wpc' = [wpc EXCEPT ![w] = "take"]
  /\ abort' = TRUE
  /\ pc' = IF abort THEN "crashed" ELSE pc
  /\ UNCHANGED <<jobs, task, slots, failed>>

WorkerStep(w) ==
  /\ pc = "batch"
  /\ Take(w) \/ Simulate(w) \/ TriggerSelect(w) \/ TriggerClose(w)
  /\ UNCHANGED <<stageVars, baseline, results, batch, unfed, outcome, cancelled>>

\* topBulkSimResults keeps what has metrics.
WithMetrics(rs) == [c \in Candidates |-> IF Good(rs[c]) THEN rs[c] ELSE Absent]

\* wg.Wait() returns; slots nobody filled are left out of the results, and what was
\* local to the batch is gone.
EndBatch ==
  /\ pc = "batch" /\ \A w \in PoolWorkers : wpc[w] = "gone"
  /\ pc' = IF stage = Final THEN "refine" ELSE "adapt"
  /\ results' = IF stage = Final THEN WithMetrics(slots) ELSE slots
  /\ batch' = NoBatch /\ unfed' = {} /\ jobs' = {} /\ slots' = Unknown
  /\ UNCHANGED <<stageVars, baseline, wpc, task, abort, outcome, cancelled, failed>>

-----------------------------------------------------------------------------
(* The stages: runBulkSim and runBulkSimStage.                             *)

\* shouldRunBulkSimStage, without the legacy mode's exception for few candidates.
ShouldRun == MaxSurvivors[stage] = 0 \/ Cardinality(cands) > MaxSurvivors[stage]

\* bulkSimStageCarryOver.covers
Covers == iters > 0 /\ \A c \in cands : Good(results[c])

\* The head of the loop over the stages, and the check behind it: an abort ends the
\* job, a stage is run on top of what is carried or skipped.
RunStage ==
  /\ stage < Final
  /\ stage < 3 => ~legacy /\ ShouldRun
  /\ pc' = "probe" /\ pass' = 0
  /\ IF Covers THEN carried' = iters /\ UNCHANGED <<baseline, results>>
     ELSE carried' = 0 /\ baseline' = Absent /\ results' = Unknown
  /\ UNCHANGED <<legacy, stage, cands, iters, probed, budget, outcome>>

SkipStage ==
  /\ stage < 3 /\ (legacy \/ ~ShouldRun)
  /\ stage' = stage + 1
  /\ UNCHANGED <<pc, legacy, cands, carried, iters, probed, pass, budget,
                 baseline, results, outcome>>

NextStage ==
  /\ pc = "head"
  /\ \/ abort /\ Finish("aborted") /\ UNCHANGED <<stageVars, baseline, results>>
     \/ ~abort /\ (RunStage \/ SkipStage)
     \/ /\ ~abort /\ stage = Final
        /\ pc' = "finalist"
        /\ UNCHANGED <<stageVars, baseline, results, outcome>>
  /\ UNCHANGED <<batch, poolVars, abort, cancelled, failed>>

\* Without candidates the baseline is simulated alone.
Begin ==
  /\ pc = "start"
  /\ IF cands # {} THEN pc' = "head" /\ UNCHANGED <<iters, baseline, failed, outcome>>
     ELSE \E s \in Outcomes(BaselineGear, 0, MinIterations[3]) :
            /\ baseline' = s
            /\ iters' = MinIterations[3]
            /\ Noted(BaselineGear, s)
            /\ Finish(IF Good(s) THEN "complete" ELSE s.err)
  /\ UNCHANGED <<legacy, stage, cands, carried, probed, pass, budget, results,
                 batch, poolVars,
                 abort, cancelled>>

\* The baseline up to the minimum of the stage, from which follows how many
\* iterations the stage needs.
Probe ==
  /\ pc = "probe"
  /\ LET least == MinIterations[stage]
         delta == Larger(0, least - carried)
     IN \E s \in IF delta = 0 THEN {Absent} ELSE Outcomes(BaselineGear, carried, delta) :
          /\ Noted(BaselineGear, s)
          /\ IF Broken(s) THEN Finish(s.err) /\ UNCHANGED <<baseline, probed, iters>>
             ELSE /\ baseline' = IF delta = 0 THEN baseline ELSE Merge(baseline, s)
                  /\ probed' = Larger(least, carried)
                  /\ \E target \in {0, MaxTarget} : iters' = Larger(target, probed')
                  /\ pc' = "extend"
                  /\ UNCHANGED outcome
  /\ UNCHANGED <<legacy, stage, cands, carried, pass, budget, results, batch,
                 poolVars, abort, cancelled>>

\* The rest of the baseline, then the candidates, unless all was carried.
Extend ==
  /\ pc = "extend"
  /\ LET delta == iters - probed
     IN \E s \in IF delta = 0 THEN {Absent} ELSE Outcomes(BaselineGear, probed, delta) :
          /\ Noted(BaselineGear, s)
          /\ IF Broken(s)
             THEN Finish(s.err) /\ UNCHANGED <<baseline, batch, poolVars>>
             ELSE /\ baseline' = IF delta = 0 THEN baseline ELSE Merge(baseline, s)
                  /\ IF iters > carried
                     THEN pc' = "batch" /\ StartBatch(carried, iters - carried, results)
                     ELSE pc' = "staged" /\ UNCHANGED <<batch, poolVars>>
                  /\ UNCHANGED outcome
  /\ budget' = AdaptiveFactor * iters
  /\ UNCHANGED <<legacy, stage, cands, carried, iters, probed, pass, results,
                 abort, cancelled>>

\* rerunBulkSimStageAdditionalIterations: first the baseline, then the candidates.  An
\* error of the baseline becomes the baseline; the caller counts the iterations anyway.
Additional(more) ==
  /\ pc' = "rerun"
  /\ batch' = [offset |-> iters, n |-> more, prior |-> results]

Rerun ==
  /\ pc = "rerun"
  /\ iters' = iters + batch.n
  /\ \E s \in Outcomes(BaselineGear, batch.offset, batch.n) :
       /\ Noted(BaselineGear, s)
       /\ IF Good(s)
          THEN /\ pc' = "batch" /\ StartBatch(batch.offset, batch.n, results)
               /\ baseline' = Merge(baseline, s)
          ELSE /\ pc' = IF stage = Final THEN "refine" ELSE "adapt"
               /\ baseline' = s /\ batch' = NoBatch
               /\ UNCHANGED poolVars
  /\ UNCHANGED <<legacy, stage, cands, carried, probed, pass, budget, results,
                 abort, outcome,
                 cancelled>>

\* adaptBulkSimStageIterations: up to two passes while the error is too large.
Adapt ==
  /\ pc = "adapt"
  /\ \/ /\ pc' = "staged"
        /\ UNCHANGED <<pass, batch>>
     \/ /\ ~abort /\ ~HasError /\ pass < AdaptivePasses
        /\ \E more \in 1..(Min({MaxTarget, budget}) - iters) : Additional(more)
        /\ pass' = pass + 1
  /\ UNCHANGED <<legacy, stage, cands, carried, iters, probed, budget,
                 baseline, results,
                 poolVars, abort, outcome, cancelled, failed>>

\* selectBulkSimSurvivors: all, or the best and those not clearly behind, up to twice
\* the stage's number.
Survivors ==
  LET alive == {c \in cands : Good(results[c])}
      limit == MaxSurvivors[stage]
  IN IF limit = 0 \/ Cardinality(alive) <= limit THEN {alive}
     ELSE {s \in SUBSET alive :
             Cardinality(s) \in Min({MinSurvivors[stage], Cardinality(alive)})..(SoftCap * limit)}

\* runBulkSim takes over the result of the stage: the first error ends the job.
Staged ==
  /\ pc = "staged"
  /\ \/ /\ Broken(baseline)
        /\ Finish(baseline.err)
        /\ UNCHANGED <<stage, cands>>
     \/ /\ ~Broken(baseline)
        /\ \E c \in cands : Broken(results[c]) /\ Finish(results[c].err)
        /\ UNCHANGED <<stage, cands>>
     \/ /\ ~HasError
        /\ cands' \in Survivors
        /\ stage' = stage + 1
        /\ pc' = "head"
        /\ UNCHANGED outcome
  /\ UNCHANGED <<legacy, carried, iters, probed, pass, budget, baseline, results, batch,
                 poolVars, abort, cancelled, failed>>

-----------------------------------------------------------------------------
(* The finalists: runBulkSimFinalistStage.                                 *)

\* At least two, sampled alike and with an unresolved pair among them.
Finalist ==
  /\ pc = "finalist"
  /\ LET alive == {c \in cands : Good(results[c])} IN
     \E top \in kSubset(Min({TopResults, Cardinality(alive)}), alive) :
       /\ cands' = top
       /\ results' = [c \in Candidates |-> IF c \in top THEN results[c] ELSE Absent]
       /\ \/ pc' = "finish" /\ UNCHANGED budget
          \/ /\ Cardinality(top) > 1
             /\ \A c \in top : Len(results[c].seeds) = Len(baseline.seeds)
             /\ pc' = "refine"
             /\ budget' = (1 + FinalistFactor) * iters
  /\ UNCHANGED <<legacy, stage, carried, iters, probed, pass, baseline, batch,
                 poolVars, abort,
                 outcome, cancelled, failed>>

\* The samples are doubled until the ranking is resolved or the budget is spent.
Refine ==
  /\ pc = "refine"
  /\ \/ pc' = "refined" /\ UNCHANGED batch
     \/ /\ iters < budget /\ ~abort /\ ~HasError
        /\ Additional(Min({iters, budget - iters}))
  /\ UNCHANGED <<stageVars, baseline, results, poolVars, abort, outcome,
                 cancelled, failed>>

\* bulkSimStageMetrics reads baseline.DpsMetrics.Avg; a result with an error has no
\* metrics, and nobody recovers from the panic.
Refined ==
  /\ pc = "refined"
  /\ pc' = IF Broken(baseline) THEN "crashed" ELSE "finish"
  /\ UNCHANGED <<stageVars, baseline, results, batch, poolVars, abort, outcome,
                 cancelled, failed>>

\* The last look at the signal.
LastCheck ==
  /\ pc = "finish"
  /\ Finish(IF abort THEN "aborted" ELSE "complete")
  /\ UNCHANGED <<stageVars, baseline, results, batch, poolVars, abort,
                 cancelled, failed>>

JobStep ==
  \/ Begin \/ NextStage \/ Probe \/ Extend \/ Rerun \/ Adapt \/ Staged
  \/ Finalist \/ Refine \/ Refined \/ LastCheck \/ EndBatch

\* AbortById, by anybody at any time.
Cancel ==
  /\ ~abort /\ pc \notin {"ended", "crashed"}
  /\ abort' = TRUE /\ cancelled' = TRUE
  /\ UNCHANGED <<pc, stageVars, baseline, results, batch, poolVars, outcome, failed>>

Next == JobStep \/ Feed \/ (\E w \in PoolWorkers : WorkerStep(w)) \/ Cancel

Fairness == WF_vars(JobStep) /\ WF_vars(Feed) /\ \A w \in PoolWorkers : WF_vars(WorkerStep(w))

Spec == Init /\ [][Next]_vars /\ Fairness

-----------------------------------------------------------------------------
(* Properties.                                                             *)

Results == {Absent} \cup [seeds : Seq(Nat), err : {"none", "failed", "aborted"}]

TypeOK ==
  /\ pc \in {"start", "head", "probe", "extend", "batch", "rerun", "adapt", "staged",
             "finalist", "refine", "refined", "finish", "ended", "crashed"}
  /\ stage \in 1..Final /\ legacy \in BOOLEAN
  /\ cands \subseteq Candidates
  /\ {carried, iters, probed, budget} \subseteq Nat
  /\ pass \in 0..AdaptivePasses
  /\ baseline \in Results
  /\ results \in [Candidates -> Results]
  /\ batch \in [offset : Nat, n : Nat, prior : [Candidates -> Results]]
  /\ unfed \subseteq Candidates /\ jobs \subseteq Candidates
  /\ wpc \in [PoolWorkers -> {"take", "sim", "trigger", "close", "gone"}]
  /\ task \in [PoolWorkers -> Candidates \cup {BaselineGear}]
  /\ slots \in [Candidates -> Results]
  /\ {abort, cancelled} \subseteq BOOLEAN
  /\ outcome \in {"none", "complete", "aborted", "failed"}
  /\ failed \subseteq Candidates \cup {BaselineGear}

\* Wherever results are compared (culling, adapting, the finals, the report), they
\* and the baseline consist of the same samples, those a single run of that many
\* iterations would have: no seed missing, none twice, in the same order
\* (stage.go:83: "exactly equivalent to running the full count from scratch").
Lockstep ==
  pc \in {"adapt", "staged", "finalist", "refine", "finish"} /\ ~HasError =>
    \A c \in cands : Good(results[c]) => /\ results[c].seeds = baseline.seeds
                                         /\ results[c].seeds = Samples(0, iters)

\* A job that is reported as complete was not aborted and rests on whole results:
\* nothing has failed, and no candidate was lost except by culling (bulk_sim.go:164:
\* never "a completed run built from a partially simmed candidate set").
CompleteIsWhole ==
  outcome = "complete" =>
    /\ ~cancelled /\ failed = {}
    /\ baseline = Segment(0, iters)
    /\ \A c \in cands : results[c] = Segment(0, iters)

\* The job ends with an outcome, if the process does not crash.
JobEnds == <>(pc \in {"ended", "crashed"})

\* An errored segment is "returned as-is for the caller to check" (stage.go:176):
\* the job survives an abort at any time.
NeverCrashes == pc # "crashed"
=============================================================================
