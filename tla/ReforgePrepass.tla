--------------------------- MODULE ReforgePrepass ---------------------------
(***************************************************************************)
(* optimizeBulkSimReforgeCandidates (sim/web/bulk.go): before a bulk       *)
(* simulation the gems and reforges of every candidate are optimized by a  *)
(* pool of workers.  Candidates with the same gear share one solve: the    *)
(* first worker that asks runs it, the others wait for it or find its      *)
(* result in a cache.  An accumulator collects what is done, and hands the *)
(* optimized candidates in batches to the worker that has to stream them.  *)
(*                                                                         *)
(* The linear program is a function of the gear, Reforged; whether its     *)
(* solution fails or is aborted is open.  The progress channel always has  *)
(* a reader, the goroutine of handleAsyncAPI (AsyncProgress), so that a    *)
(* send ends.  Counts, durations and log lines are left out.               *)
(***************************************************************************)
EXTENDS ReforgeConstants, FiniteSets, SequencesExt

VARIABLES
  request,   \* request.Candidates when the pre-pass begins
  mpc,       \* where optimizeBulkSimReforgeCandidates is
  fed,       \* positions its loop has passed
  jobs,      \* the channel of tasks
  wpc,       \* where a worker is
  task,      \* the position it works on
  found,     \* the gear it got from the cache or the optimizer
  awaits,    \* the solve it waits for
  hand,      \* the batch it has to stream
  cached,    \* the keys of optimizedGearByKey
  answer,    \* its values
  inFlight,  \* inFlightByKey: the position whose worker solves the key, or 0
  solve,     \* a solve of a position: done is closed, and its gear
  gear,      \* candidate.Gear
  completed, optimized, batch,  \* the accumulator
  abort,     \* signals.Abort
  simmed,    \* request.Candidates on return
  streamed,  \* history: how often a position was streamed
  solves     \* history: how often the optimizer was run for a gear

mainVars  == <<mpc, fed, simmed>>
cacheVars == <<cached, answer, inFlight, solve, solves>>
accVars   == <<gear, completed, optimized, batch>>
workVars  == <<wpc, task, found, awaits, hand>>
vars == <<request, mainVars, jobs, workVars, cacheVars, accVars, abort, streamed>>

-----------------------------------------------------------------------------
Positions  == 1..Len(request)
Candidates == {p \in Positions : request[p] # NoGear}
Answers    == Gears \cup {NoGear}

\* What the pre-pass begins with.
Fresh ==
  /\ mpc = "start"
  /\ fed = 0
  /\ jobs = <<>>
  /\ wpc = [w \in Workers |-> "take"]
  /\ task = [w \in Workers |-> 0]
  /\ found = [w \in Workers |-> NoGear]
  /\ awaits = [w \in Workers |-> 0]
  /\ hand = [w \in Workers |-> {}]
  /\ cached = {}
  /\ answer = [g \in Gears |-> NoGear]
  /\ inFlight = [g \in Gears |-> 0]
  /\ solve = [p \in Positions |-> [done |-> FALSE, gear |-> NoGear]]
  /\ gear = [p \in Positions |-> request[p]]
  /\ completed = {} /\ optimized = {} /\ batch = {}
  /\ abort = FALSE
  /\ simmed = <<>>
  /\ streamed = [p \in Positions |-> 0]
  /\ solves = [g \in Gears |-> 0]

Init == request \in Requests /\ Fresh

\* bulkSimReforgeGearKey of the candidate's gear when the task begins.
Key(w) == request[task[w]]

\* The positions of a finite set in their order: the one with i - 1 before it is the i-th.
Rank(ps, p) == Cardinality({q \in ps : q < p})
InOrder(ps) == [i \in 1..Cardinality(ps) |-> CHOOSE p \in ps : Rank(ps, p) = i - 1]

\* The places of a sequence of gears where a gear occurs first.
Firsts(gears) == {i \in DOMAIN gears : \A j \in 1..(i - 1) : gears[j] # gears[i]}

\* The gears at some places of a sequence.
Pick(gears, ps) == [i \in 1..Cardinality(ps) |-> gears[InOrder(ps)[i]]]

\* (mutant: the baseline's gear is kept)
DedupeOnly(gears) == Pick(gears, Firsts(gears))

\* dedupeBulkSimReforgeCandidates: first occurrences, without the baseline.
Dedupe(gears) == Pick(gears, {i \in Firsts(gears) : gears[i] # Baseline})

\* compactBulkGearCandidates: the completed candidates by position.
Completed(ps) == Pick(gear, ps)

Stream(ps) == streamed' = [p \in Positions |-> IF p \in ps THEN streamed[p] + 1
                                               ELSE streamed[p]]

-----------------------------------------------------------------------------
(* The goroutine of the job.                                               *)

Start ==
  /\ mpc = "start"
  /\ IF Candidates = {}
     THEN mpc' = "done" /\ simmed' = Dedupe(Restored)
     ELSE mpc' = "feed" /\ UNCHANGED simmed
  /\ UNCHANGED <<fed, jobs, workVars, cacheVars, accVars, abort, streamed>>

\* (mutant: empty candidates are not skipped)
FeedAll ==
  /\ mpc = "feed" /\ fed < Len(request) /\ ~abort
  /\ fed' = fed + 1
  /\ Len(jobs) < JobCap /\ jobs' = Append(jobs, fed')
  /\ UNCHANGED <<mpc, simmed, workVars, cacheVars, accVars, abort, streamed>>

\* jobs <- task, which blocks while the channel is full; empty candidates are skipped.
Feed ==
  /\ mpc = "feed" /\ fed < Len(request) /\ ~abort
  /\ fed' = fed + 1
  /\ IF fed' \in Candidates
     THEN Len(jobs) < JobCap /\ jobs' = Append(jobs, fed')
     ELSE UNCHANGED jobs
  /\ UNCHANGED <<mpc, simmed, workVars, cacheVars, accVars, abort, streamed>>

\* The loop ends or breaks; close(jobs).
CloseJobs ==
  /\ mpc = "feed" /\ (fed = Len(request) \/ abort)
  /\ mpc' = "wait"
  /\ UNCHANGED <<fed, jobs, simmed, workVars, cacheVars, accVars, abort, streamed>>

\* wg.Wait() returns; the accumulator's rest is flushed and streamed.
Flush ==
  /\ mpc = "wait" /\ \A w \in Workers : wpc[w] = "gone"
  /\ mpc' = "conclude"
  /\ Stream(batch)
  /\ batch' = {}
  /\ UNCHANGED <<fed, simmed, jobs, workVars, cacheVars, gear, completed, optimized, abort>>

\* What goes on to the simulation: nothing after an abort.
Conclude ==
  /\ mpc = "conclude"
  /\ mpc' = "done"
  /\ simmed' = IF abort THEN <<>> ELSE Dedupe(Restored \o Completed(completed))
  /\ UNCHANGED <<fed, jobs, workVars, cacheVars, accVars, abort, streamed>>

MainStep == (Start \/ Feed \/ CloseJobs \/ Flush \/ Conclude) /\ UNCHANGED request

-----------------------------------------------------------------------------
(* A worker.                                                               *)

Goto(w, pc) == wpc' = [wpc EXCEPT ![w] = pc]

\* for task := range jobs; after an abort the tasks are thrown away.
Take(w) ==
  /\ wpc[w] = "take" /\ jobs # <<>> /\ mpc \in {"feed", "wait"}
  /\ jobs' = Tail(jobs)
  /\ IF abort THEN UNCHANGED <<task, wpc>>
     ELSE task' = [task EXCEPT ![w] = Head(jobs)] /\ Goto(w, "lookup")
  /\ UNCHANGED <<found, awaits, hand, cacheVars, accVars, streamed>>

Leave(w) ==
  /\ wpc[w] = "take" /\ jobs = <<>> /\ mpc = "wait"
  /\ Goto(w, "gone")
  /\ UNCHANGED <<jobs, task, found, awaits, hand, cacheVars, accVars, streamed>>

\* The worker has its answer, in the cache or from a solve.
Answered(w, g) == found' = [found EXCEPT ![w] = g] /\ Goto(w, "complete")

\* optimizeWithKey: the look-up under the read lock.
Lookup(w) ==
  /\ wpc[w] = "lookup"
  /\ \/ Key(w) \in cached /\ Answered(w, answer[Key(w)])
     \/ Key(w) \notin cached /\ Goto(w, "enter") /\ UNCHANGED found
  /\ UNCHANGED <<jobs, task, awaits, hand, cacheVars, accVars, streamed>>

\* (mutant: the cache is not looked at again under the write lock)
EnterBlindly(w) ==
  /\ wpc[w] = "enter"
  /\ \/ /\ inFlight[Key(w)] # 0
        /\ awaits' = [awaits EXCEPT ![w] = inFlight[Key(w)]]
        /\ Goto(w, "await")
        /\ UNCHANGED <<found, inFlight, solves>>
     \/ /\ inFlight[Key(w)] = 0
        /\ inFlight' = [inFlight EXCEPT ![Key(w)] = task[w]]
        /\ solves' = [solves EXCEPT ![Key(w)] = @ + 1]
        /\ Goto(w, "solve")
        /\ UNCHANGED <<found, awaits>>
  /\ UNCHANGED <<jobs, task, hand, cached, answer, solve, accVars, streamed>>

\* The second look-up, under the write lock: cached, in flight, or to be solved.
Enter(w) ==
  /\ wpc[w] = "enter"
  /\ \/ /\ Key(w) \in cached
        /\ Answered(w, answer[Key(w)])
        /\ UNCHANGED <<awaits, inFlight, solves>>
     \/ /\ Key(w) \notin cached /\ inFlight[Key(w)] # 0
        /\ awaits' = [awaits EXCEPT ![w] = inFlight[Key(w)]]
        /\ Goto(w, "await")
        /\ UNCHANGED <<found, inFlight, solves>>
     \/ /\ Key(w) \notin cached /\ inFlight[Key(w)] = 0
        /\ inFlight' = [inFlight EXCEPT ![Key(w)] = task[w]]
        /\ solves' = [solves EXCEPT ![Key(w)] = @ + 1]
        /\ Goto(w, "solve")
        /\ UNCHANGED <<found, awaits>>
  /\ UNCHANGED <<jobs, task, hand, cached, answer, solve, accVars, streamed>>

\* <-running.done
Await(w) ==
  /\ wpc[w] = "await" /\ solve[awaits[w]].done
  /\ Answered(w, solve[awaits[w]].gear)
  /\ awaits' = [awaits EXCEPT ![w] = 0]
  /\ UNCHANGED <<jobs, task, hand, cacheVars, accVars, streamed>>

\* OptimizeAsync ends: solved, failed, or aborted; only an abort is not stored.
Solve(w) ==
  /\ wpc[w] = "solve"
  /\ \/ /\ abort
        /\ found' = [found EXCEPT ![w] = NoGear] /\ Goto(w, "publish")
     \/ /\ ~abort
        /\ found' = [found EXCEPT ![w] = Reforged[Key(w)]] /\ Goto(w, "store")
     \/ found' = [found EXCEPT ![w] = NoGear] /\ Goto(w, "store")
  /\ UNCHANGED <<jobs, task, awaits, hand, cacheVars, accVars, streamed>>

\* storeCachedGear
Store(w) ==
  /\ wpc[w] = "store"
  /\ cached' = cached \cup {Key(w)}
  /\ answer' = [answer EXCEPT ![Key(w)] = found[w]]
  /\ Goto(w, "publish")
  /\ UNCHANGED <<jobs, task, found, awaits, hand, inFlight, solve, solves, accVars, streamed>>

\* (mutant: the waiters are forgotten when the solve was aborted)
PublishSolved(w) ==
  /\ wpc[w] = "publish"
  /\ solve' = IF abort THEN solve
              ELSE [solve EXCEPT ![task[w]] = [done |-> TRUE, gear |-> found[w]]]
  /\ Goto(w, "drop")
  /\ UNCHANGED <<jobs, task, found, awaits, hand, cached, answer, inFlight, solves, accVars, streamed>>

\* inFlight.gear = ...; close(inFlight.done)
Publish(w) ==
  /\ wpc[w] = "publish"
  /\ solve' = [solve EXCEPT ![task[w]] = [done |-> TRUE, gear |-> found[w]]]
  /\ Goto(w, "drop")
  /\ UNCHANGED <<jobs, task, found, awaits, hand, cached, answer, inFlight, solves, accVars, streamed>>

\* delete(optimizer.inFlightByKey, key)
Drop(w) ==
  /\ wpc[w] = "drop"
  /\ inFlight' = [inFlight EXCEPT ![Key(w)] = 0]
  /\ Goto(w, "complete")
  /\ UNCHANGED <<jobs, task, found, awaits, hand, cached, answer, solve, solves, accVars, streamed>>

\* (mutant: a batch that is full is handed over without taking it)
HandOverShared(w, b) ==
  IF Cardinality(b) >= FlushSize
  THEN /\ batch' = b
       /\ hand' = [hand EXCEPT ![w] = b]
       /\ Goto(w, "emit")
  ELSE /\ batch' = b
       /\ Goto(w, "take")
       /\ UNCHANGED hand

\* takeBatchLocked, when the batch is full.
HandOver(w, b) ==
  IF Cardinality(b) >= FlushSize
  THEN /\ batch' = {}
       /\ hand' = [hand EXCEPT ![w] = b]
       /\ Goto(w, "emit")
  ELSE /\ batch' = b
       /\ Goto(w, "take")
       /\ UNCHANGED hand

\* optimizeBulkSimReforgeCandidateTask's result and accumulator.complete: a failed
\* solve leaves the candidate its gear, an aborted one does not complete it.
Complete(w) ==
  /\ wpc[w] = "complete"
  /\ \/ /\ found[w] = NoGear /\ abort
        /\ Goto(w, "take")
        /\ UNCHANGED <<accVars, hand>>
     \/ /\ found[w] = NoGear /\ ~abort
        /\ completed' = completed \cup {task[w]}
        /\ HandOver(w, batch)
        /\ UNCHANGED <<gear, optimized>>
     \/ /\ found[w] # NoGear
        /\ gear' = [gear EXCEPT ![task[w]] = found[w]]
        /\ completed' = completed \cup {task[w]}
        /\ optimized' = optimized \cup {task[w]}
        /\ HandOver(w, batch \cup {task[w]})
  /\ task' = [task EXCEPT ![w] = 0]
  /\ found' = [found EXCEPT ![w] = NoGear]
  /\ UNCHANGED <<jobs, awaits, cacheVars, streamed>>

\* emitBulkSimReforgeProgress, outside the lock.
Emit(w) ==
  /\ wpc[w] = "emit"
  /\ Stream(hand[w])
  /\ hand' = [hand EXCEPT ![w] = {}]
  /\ Goto(w, "take")
  /\ UNCHANGED <<jobs, task, found, awaits, cacheVars, accVars>>

WorkerStep(w) ==
  /\ \/ Take(w) \/ Leave(w) \/ Lookup(w) \/ Enter(w) \/ Await(w) \/ Solve(w)
     \/ Store(w) \/ Publish(w) \/ Drop(w) \/ Complete(w) \/ Emit(w)
  /\ UNCHANGED <<request, mainVars, abort>>

-----------------------------------------------------------------------------
Abort ==
  /\ ~abort /\ mpc # "done"
  /\ abort' = TRUE
  /\ UNCHANGED <<request, mainVars, jobs, workVars, cacheVars, accVars, streamed>>

Next == MainStep \/ (\E w \in Workers : WorkerStep(w)) \/ Abort

\* The Go scheduler runs every goroutine that can run, and a solve ends: the
\* optimizer has a time limit.
Fairness == WF_vars(MainStep) /\ \A w \in Workers : WF_vars(WorkerStep(w))

Spec == Init /\ [][Next]_vars /\ Fairness

-----------------------------------------------------------------------------
(* Properties.                                                             *)

TypeOK ==
  /\ request \in Requests
  /\ mpc \in {"start", "feed", "wait", "conclude", "done"}
  /\ fed \in 0..Len(request)
  /\ jobs \in Seq(Candidates)
  /\ wpc \in [Workers -> {"take", "lookup", "enter", "await", "solve", "store",
                          "publish", "drop", "complete", "emit", "gone"}]
  /\ task \in [Workers -> Candidates \cup {0}]
  /\ found \in [Workers -> Answers]
  /\ awaits \in [Workers -> Candidates \cup {0}]
  /\ hand \in [Workers -> SUBSET Candidates]
  /\ cached \subseteq Gears
  /\ answer \in [Gears -> Answers]
  /\ inFlight \in [Gears -> Candidates \cup {0}]
  /\ solve \in [Positions -> [done : BOOLEAN, gear : Answers]]
  /\ gear \in [Positions -> Answers]
  /\ completed \subseteq Candidates
  /\ optimized \subseteq completed
  /\ batch \subseteq optimized
  /\ abort \in BOOLEAN
  /\ simmed \in Seq(Gears)
  /\ streamed \in [Positions -> Nat]
  /\ solves \in [Gears -> Nat]

\* A gear is never solved by two workers at once, and unless the job was aborted it
\* is solved once in all ("no window reopens a duplicate solve", bulk.go:465),
\* whatever the order in which the cache is filled, the waiters are woken and the
\* entry is dropped; and its candidates end alike: all optimized, to one gear, or all
\* with the gear they came with.
SolvedOnce ==
  /\ \A w, v \in Workers :
       wpc[w] = "solve" /\ wpc[v] = "solve" /\ Key(w) = Key(v) => w = v
  /\ \A g \in Gears : abort \/ solves[g] <= 1
  /\ \A p, q \in completed :
       request[p] = request[q] => gear[p] = gear[q] /\ (p \in optimized <=> q \in optimized)

\* The client gets every optimized candidate in one batch, none twice, none that a
\* failed solve left as it was (it would enter a cache of 14 days), and all of them
\* before the job goes on.
StreamedOnce ==
  /\ \A p \in Positions : streamed[p] <= 1
  /\ \A p \in Positions :
       streamed[p] = 1 => p \in optimized /\ gear[p] = Reforged[request[p]]
  /\ mpc \in {"conclude", "done"} =>
       \A p \in Positions : streamed[p] = 1 <=> p \in optimized

\* Unless the job was aborted every candidate is simulated, once: its gear, or the
\* gear it was optimized to, is simulated or is the baseline's, and no gear is
\* simulated twice.
NothingSimmedTwice ==
  mpc = "done" =>
    /\ IsInjective(simmed)
    /\ Baseline \notin ToSet(simmed)
    /\ abort \/ {gear[p] : p \in Candidates} \cup ToSet(Restored)
                  \subseteq ToSet(simmed) \cup {Baseline}
    /\ abort \/ completed = Candidates

\* The pre-pass ends, however solves fail and whenever it is aborted: no worker
\* waits for ever for a solve that nobody publishes.
PrepassEnds == <>(mpc = "done")
=============================================================================
