------------------------------ MODULE BulkJob -------------------------------
(***************************************************************************)
(* A bulk simulation from its request to its final message: the front end  *)
(* (runBulkSimAsync, sim/web/bulk.go) that generates the candidates, has   *)
(* them reforged (ReforgePrepass), and hands over to BulkSimAsync          *)
(* (sim/core/bulk/bulk_sim.go), which simulates them in stages             *)
(* (BulkStages).  Each half registers the id of the request with the abort *)
(* API for itself, so that each has a signal of its own, and an abort      *)
(* reaches the one that is registered; SimSignals models the registry that *)
(* other requests share.                                                   *)
(***************************************************************************)
EXTENDS ReforgeConstants, SequencesExt

\* Of BulkStages, whose candidates are gears and whose baseline is Baseline.
CONSTANTS
  MaxWorkers, Faulty, MinIterations, MaxSurvivors, MinSurvivors, StageWorkers, TopResults,
  MaxTarget

ASSUME StagesAssumption ==
  /\ Faulty \subseteq Gears
  /\ MinIterations \in [1..3 -> Nat \ {0}]
  /\ MaxSurvivors \in [1..3 -> Nat] /\ MaxSurvivors[3] = 0
  /\ MinSurvivors \in [1..3 -> Nat]
  /\ MaxWorkers \in Nat \ {0} /\ StageWorkers \in [1..4 -> 1..MaxWorkers]
  /\ TopResults \in Nat \ {0}
  /\ MaxTarget \in Nat

VARIABLES
  phase,       \* where the job is
  reforge,     \* the request asks for reforging
  registered,  \* the signal the id leads to: "none", "first" or "second"
  final,       \* the final message, "none" until it is sent
  heeded,      \* history: an abort was acknowledged that the job must heed
  request, mpc, fed, prepassJobs, prepassPc, prepassTask, found, awaits, hand, cached, answer,
  inFlight, solve, gear, completed, optimized, prepassBatch, firstAbort, simmed, streamed,
  solves,
  pc, legacy, stage, cands, carried, iters, probed, pass, budget, baseline, results, batch,
  unfed, jobs, wpc, task, slots, secondAbort, outcome, cancelled, failed

jobVars == <<phase, reforge, registered, final, heeded>>
prepassVars ==
  <<request, mpc, fed, prepassJobs, prepassPc, prepassTask, found, awaits, hand, cached,
    answer, inFlight, solve, gear, completed, optimized, prepassBatch, firstAbort, simmed,
    streamed, solves>>
stagesVars ==
  <<pc, legacy, stage, cands, carried, iters, probed, pass, budget, baseline, results, batch,
    unfed, jobs, wpc, task, slots, secondAbort, outcome, cancelled, failed>>
vars == <<jobVars, prepassVars, stagesVars>>

Prepass == INSTANCE ReforgePrepass WITH
  jobs <- prepassJobs, wpc <- prepassPc, task <- prepassTask,
  batch <- prepassBatch, abort <- firstAbort

Stages == INSTANCE BulkStages WITH
  Candidates <- Gears \ {Baseline}, BaselineGear <- Baseline, abort <- secondAbort

-----------------------------------------------------------------------------
Init ==
  /\ phase = "register" /\ registered = "none" /\ final = "none" /\ heeded = FALSE
  /\ reforge \in BOOLEAN
  /\ Prepass!Init
  /\ Stages!Init /\ cands = {} /\ ~legacy

Goto(p) == phase' = p

\* finishBulkSim: the final message, after which the channel is closed; the deferred
\* unregister() has nothing to do, or frees the id.
Conclude(result) == Goto("closed") /\ final' = result /\ registered' = "none"

\* RegisterWithId, which fails when the id is in use.
Register ==
  /\ phase = "register"
  /\ \/ Goto("generate") /\ registered' = "first" /\ UNCHANGED final
     \/ Conclude("error")
  /\ UNCHANGED <<reforge, heeded, prepassVars, stagesVars>>

\* fullyCachedReforgeRequest: nothing to generate.
FullyCached == reforge /\ request = <<>> /\ Restored # <<>>

\* EnsureBulkSimCandidatesGenerated may fail; the check of the signal behind it.
Generate ==
  /\ phase = "generate"
  /\ \/ ~FullyCached /\ Conclude("error")
     \/ firstAbort /\ Conclude("aborted")
     \/ /\ ~firstAbort
        /\ Goto(IF reforge THEN "prepass" ELSE "unregister")
        /\ UNCHANGED <<registered, final>>
  /\ UNCHANGED <<reforge, heeded, prepassVars, stagesVars>>

PrepassStep ==
  /\ phase = "prepass"
  /\ Prepass!MainStep \/ \E w \in Workers : Prepass!WorkerStep(w)
  /\ UNCHANGED <<jobVars, stagesVars>>

\* (mutant: the check behind the pre-pass is missing)
CheckPrepassMissing ==
  /\ phase = "prepass" /\ mpc = "done"
  /\ Goto("unregister") /\ UNCHANGED <<registered, final>>
  /\ UNCHANGED <<reforge, heeded, prepassVars, stagesVars>>

\* optimizeBulkSimReforgeCandidates has returned; the check of the signal behind it.
CheckPrepass ==
  /\ phase = "prepass" /\ mpc = "done"
  /\ \/ firstAbort /\ Conclude("aborted")
     \/ ~firstAbort /\ Goto("unregister") /\ UNCHANGED <<registered, final>>
  /\ UNCHANGED <<reforge, heeded, prepassVars, stagesVars>>

\* The gears that are to be simulated.
Simmed == IF reforge THEN ToSet(simmed) ELSE {request[p] : p \in Prepass!Candidates}

\* What was local to optimizeBulkSimReforgeCandidates.
Forget ==
  /\ mpc' = "start" /\ fed' = 0 /\ prepassJobs' = <<>> /\ firstAbort' = FALSE
  /\ prepassPc' = [w \in Workers |-> "take"]
  /\ prepassTask' = [w \in Workers |-> 0]
  /\ found' = [w \in Workers |-> NoGear]
  /\ awaits' = [w \in Workers |-> 0]
  /\ hand' = [w \in Workers |-> {}]
  /\ cached' = {} /\ answer' = [g \in Gears |-> NoGear]
  /\ inFlight' = [g \in Gears |-> 0] /\ solves' = [g \in Gears |-> 0]
  /\ solve' = [p \in Prepass!Positions |-> [done |-> FALSE, gear |-> NoGear]]
  /\ gear' = request
  /\ completed' = {} /\ optimized' = {} /\ prepassBatch' = {} /\ simmed' = <<>>
  /\ streamed' = [p \in Prepass!Positions |-> 0]
  /\ UNCHANGED request

\* unregister().  Of the first half only request.Candidates is left.
Unregister ==
  /\ phase = "unregister"
  /\ Goto("delegate")
  /\ registered' = "none"
  /\ cands' = Simmed \ {Baseline}
  /\ legacy' \in BOOLEAN
  /\ Forget
  /\ UNCHANGED <<reforge, final, heeded, pc, stage, carried, iters, probed, pass, budget, baseline,
                 results, batch, unfed, jobs, wpc, task, slots, secondAbort, outcome, cancelled,
                 failed>>

\* BulkSimAsync registers the id anew, under which another request may have come.
Delegate ==
  /\ phase = "delegate"
  /\ \/ Goto("stages") /\ registered' = "second" /\ UNCHANGED final
     \/ Conclude("error")
  /\ UNCHANGED <<reforge, heeded, prepassVars, stagesVars>>

\* The feeder, the workers and the goroutine of the job (runBulkSim).
FeederStep == phase = "stages" /\ Stages!Feed /\ UNCHANGED <<jobVars, prepassVars>>

StagesStep ==
  /\ phase = "stages"
  /\ Stages!JobStep \/ \E w \in Stages!PoolWorkers : Stages!WorkerStep(w)
  /\ UNCHANGED <<jobVars, prepassVars>>

\* The final message of BulkSimAsync, then the deferred close and UnregisterId.
Report ==
  /\ phase = "stages" /\ pc = "ended"
  /\ Conclude(IF outcome = "failed" THEN "error" ELSE outcome)
  /\ UNCHANGED <<reforge, heeded, prepassVars, stagesVars>>

\* An abort is acknowledged when the id is registered.  One that falls between the
\* check of the first half and its unregister() is not heeded (SimSignals).
AbortFirst ==
  /\ registered = "first" /\ ~firstAbort
  /\ firstAbort' = TRUE
  /\ heeded' = (phase # "unregister")
  /\ UNCHANGED <<request, mpc, fed, prepassJobs, prepassPc, prepassTask, found, awaits, hand, cached,
                 answer, inFlight, solve, gear, completed, optimized, prepassBatch, simmed,
                 streamed, solves>>
  /\ UNCHANGED <<phase, reforge, registered, final, stagesVars>>

AbortSecond ==
  /\ registered = "second" /\ Stages!Cancel
  /\ heeded' = TRUE
  /\ UNCHANGED <<phase, reforge, registered, final, prepassVars>>

Next ==
  \/ Register \/ Generate \/ PrepassStep \/ CheckPrepass \/ Unregister \/ Delegate
  \/ FeederStep \/ StagesStep \/ Report \/ AbortFirst \/ AbortSecond

\* Every goroutine that can run does, and a simulation and a solve end; nobody needs
\* to abort.
Fairness ==
  /\ WF_vars(Register \/ Generate \/ CheckPrepass \/ Unregister \/ Delegate \/ Report)
  /\ WF_vars(phase = "prepass" /\ Prepass!MainStep /\ UNCHANGED <<jobVars, stagesVars>>)
  /\ \A w \in Workers :
       WF_vars(phase = "prepass" /\ Prepass!WorkerStep(w) /\ UNCHANGED <<jobVars, stagesVars>>)
  /\ WF_vars(FeederStep)
  /\ WF_vars(phase = "stages" /\ Stages!JobStep /\ UNCHANGED <<jobVars, prepassVars>>)
  /\ \A w \in Stages!PoolWorkers :
       WF_vars(phase = "stages" /\ Stages!WorkerStep(w) /\ UNCHANGED <<jobVars, prepassVars>>)

Spec == Init /\ [][Next]_vars /\ Fairness

-----------------------------------------------------------------------------
(* Properties.                                                             *)

TypeOK ==
  /\ phase \in {"register", "generate", "prepass", "unregister", "delegate", "stages", "closed"}
  /\ registered \in {"none", "first", "second"}
  /\ final \in {"none", "complete", "aborted", "error"}
  /\ {reforge, heeded} \subseteq BOOLEAN
  /\ Prepass!TypeOK /\ Stages!TypeOK

\* See ReforgePrepass and BulkStages.
SolvedOnce        == Prepass!SolvedOnce
StreamedOnce      == Prepass!StreamedOnce
NothingSimmedTwice == Prepass!NothingSimmedTwice
Lockstep          == Stages!Lockstep

\* A job that is reported as complete has heeded no abort in either half, and rests on
\* whole results of everything that was to be simulated.
CompleteIsWhole == final = "complete" => ~heeded /\ Stages!CompleteIsWhole

\* The client gets a final message, or the process is gone.
JobEnds == <>(final # "none" \/ pc = "crashed")
=============================================================================
