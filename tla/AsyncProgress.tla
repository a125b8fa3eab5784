---------------------------- MODULE AsyncProgress ----------------------------
(***************************************************************************)
(* The asynchronous HTTP API (sim/web/main.go, sim/web/async_progress.go): *)
(* a goroutine per request moves progress from the reporter channel into a *)
(* cached entry, and /asyncProgress handlers, possibly several at a time,  *)
(* serve that entry.  A bulk simulation streams the candidates its reforge *)
(* pre-pass optimized in batches, and repeats them in its final result;    *)
(* the server hands each one over once.                                    *)
(***************************************************************************)
EXTENDS Naturals, Sequences, SequencesExt, FiniteSets

CONSTANTS
  Streamed,     \* candidates the pre-pass optimizes and streams in batches
  Restored,     \* candidates restored from the client's cache: only in the result
  Pollers,      \* concurrent /asyncProgress requests
  MaxReports,   \* bound: reports without candidates
  MaxFailures   \* bound: responses that fail to be written

ASSUME AsyncProgressAssumption ==
  /\ IsFiniteSet(Streamed) /\ IsFiniteSet(Restored) /\ Streamed \cap Restored = {}
  /\ IsFiniteSet(Pollers)
  /\ MaxReports \in Nat /\ MaxFailures \in Nat

Candidates == Streamed \cup Restored

VARIABLES
  reporter,   \* the reporter channel
  unsent,     \* candidates the pipeline has not streamed yet
  reports,    \* reports without candidates sent so far
  finished,   \* the pipeline has sent its final message
  consumer,   \* the goroutine of handleAsyncAPI
  taken,      \* the message it is handling
  entry,      \* asyncProgresses has the request's entry
  latest,     \* latestProgress
  queue,      \* pendingOptimizedCandidates
  pending,    \* pendingCandidateIndices
  delivered,  \* deliveredCandidateIndices
  ppc,        \* where a poll handler is
  seen,       \* the message a handler loaded
  batch,      \* the pending candidates it copied
  rest,       \* the final result's candidates it kept
  failures,   \* writes that failed
  received    \* history: candidate -> responses that carried it

pipeVars   == <<unsent, reports, finished>>
entryVars  == <<entry, latest>>
buffers    == <<queue, pending, delivered>>
pollVars   == <<ppc, seen, batch, rest>>
progressVars == <<reporter, pipeVars, consumer, taken, entryVars, buffers, pollVars,
          failures, received>>

\* slices.DeleteFunc: s without the elements of S.  A recursive function, of which
\* the proofs know what they do not know of SelectSeq.
Without(s, S) ==
  LET kept[i \in 0..Len(s)] ==
        IF i = 0 THEN <<>>
        ELSE IF s[i] \in S THEN kept[i - 1] ELSE Append(kept[i - 1], s[i])
  IN kept[Len(s)]

Report    == [kind |-> "report", candidates |-> {}]
Batch(b)  == [kind |-> "batch", candidates |-> b]
Final(cs) == [kind |-> "final", candidates |-> cs]
Messages  == [kind : {"report", "batch", "final"}, candidates : SUBSET Candidates]

ProgressTypeOK ==
  /\ reporter \in Seq(Messages)
  /\ unsent \subseteq Streamed
  /\ reports \in 0..MaxReports
  /\ finished \in BOOLEAN
  /\ consumer \in {"select", "append", "store", "stopped"}
  /\ taken \in Messages
  /\ entry \in BOOLEAN
  /\ latest \in Messages /\ latest.kind # "batch"
  /\ queue \in Seq(Candidates)
  /\ pending \subseteq Candidates
  /\ delivered \subseteq Candidates
  /\ ppc \in [Pollers -> {"idle", "load", "peek", "filter", "write", "mark", "delete", "gone"}]
  /\ seen \in [Pollers -> Messages]
  /\ batch \in [Pollers -> Seq(Candidates)]
  /\ rest \in [Pollers -> SUBSET Candidates]
  /\ failures \in 0..MaxFailures
  /\ received \in [Candidates -> Nat]

\* A request that cannot be parsed gets an entry with its error and no pipeline.
ProgressInit ==
  /\ reporter = <<>>
  /\ unsent = Streamed
  /\ reports = 0
  /\ finished \in BOOLEAN
  /\ consumer = IF finished THEN "stopped" ELSE "select"
  /\ latest = IF finished THEN Final({}) ELSE Report
  /\ taken = latest
  /\ entry = TRUE
  /\ queue = <<>>
  /\ pending = {}
  /\ delivered = {}
  /\ ppc = [p \in Pollers |-> "idle"]
  /\ seen = [p \in Pollers |-> Report]
  /\ batch = [p \in Pollers |-> <<>>]
  /\ rest = [p \in Pollers |-> {}]
  /\ failures = 0
  /\ received = [c \in Candidates |-> 0]

-----------------------------------------------------------------------------
(* The pipeline behind the reporter channel: batches and reports, then one *)
(* final message; its result repeats every candidate, unless it failed.    *)

SendMessage(m) ==
  /\ ~finished
  /\ reporter' = Append(reporter, m)
  /\ UNCHANGED <<consumer, taken, entryVars, buffers, pollVars, failures, received>>

EmitBatch ==
  \E b \in SUBSET unsent \ {{}} :
    /\ SendMessage(Batch(b))
    /\ unsent' = unsent \ b
    /\ UNCHANGED <<reports, finished>>

EmitReport ==
  /\ reports < MaxReports
  /\ SendMessage(Report)
  /\ reports' = reports + 1
  /\ UNCHANGED <<unsent, finished>>

EmitFinal ==
  /\ \E cs \in {{}, Candidates \ unsent} : SendMessage(Final(cs))
  /\ finished' = TRUE
  /\ UNCHANGED <<unsent, reports>>

-----------------------------------------------------------------------------
(* The goroutine of handleAsyncAPI.                                        *)

Receive ==
  /\ consumer = "select" /\ reporter # <<>>
  /\ taken' = Head(reporter)
  /\ reporter' = Tail(reporter)
  /\ consumer' = IF Head(reporter).kind = "batch" THEN "append" ELSE "store"
  /\ UNCHANGED <<pipeVars, entryVars, buffers, pollVars, failures, received>>

\* appendPendingOptimizedCandidates, under pendingMu.
AppendPending ==
  /\ consumer = "append"
  /\ LET new == taken.candidates \ (delivered \cup pending) IN
     /\ pending' = pending \cup new
     /\ queue' = queue \o SetToSeq(new)
  /\ consumer' = "store"
  /\ UNCHANGED <<reporter, pipeVars, taken, entryVars, delivered, pollVars, failures, received>>

\* (mutant: the message is stored with its candidates)
StoreWithCandidates ==
  /\ consumer = "store"
  /\ latest' = taken
  /\ consumer' = IF taken.kind = "final" THEN "stopped" ELSE "select"
  /\ UNCHANGED <<reporter, pipeVars, taken, entry, buffers, pollVars, failures, received>>

\* (mutant: the goroutine returns on a final message before it stores it)
ReturnBeforeStore ==
  /\ consumer = "store"
  /\ latest' = IF taken.kind = "report" THEN taken ELSE latest
  /\ consumer' = IF taken.kind = "final" THEN "stopped" ELSE "select"
  /\ UNCHANGED <<reporter, pipeVars, taken, entry, buffers, pollVars, failures, received>>

\* latestProgress.Store: of a batch only the counters are kept.
StoreLatest ==
  /\ consumer = "store"
  /\ latest' = IF taken.kind = "batch" THEN Report ELSE taken
  /\ consumer' = IF taken.kind = "final" THEN "stopped" ELSE "select"
  /\ UNCHANGED <<reporter, pipeVars, taken, entry, buffers, pollVars, failures, received>>

\* asyncProgressSilenceTimeout: the entry is deleted and nobody reads reporter.
SilenceTimeout ==
  /\ consumer = "select" /\ reporter = <<>>
  /\ entry' = FALSE
  /\ consumer' = "stopped"
  /\ UNCHANGED <<reporter, pipeVars, taken, latest, buffers, pollVars, failures, received>>

-----------------------------------------------------------------------------
(* The /asyncProgress handler.                                             *)

PollerGoto(p, pc) == ppc' = [ppc EXCEPT ![p] = pc]

\* The entry is looked up under progMut; without it the answer is 204.
Lookup(p) ==
  /\ ppc[p] = "idle"
  /\ PollerGoto(p, IF entry THEN "load" ELSE "gone")
  /\ UNCHANGED <<seen, batch, rest, entry, buffers, failures, received>>

Load(p) ==
  /\ ppc[p] = "load"
  /\ seen' = [seen EXCEPT ![p] = latest]
  /\ PollerGoto(p, "peek")
  /\ UNCHANGED <<batch, rest, entry, buffers, failures, received>>

\* (mutant: the queue is drained before the response is written)
PeekDrains(p) ==
  /\ ppc[p] = "peek"
  /\ batch' = [batch EXCEPT ![p] = queue]
  /\ queue' = <<>>
  /\ pending' = {}
  /\ delivered' = delivered \cup pending
  /\ PollerGoto(p, "filter")
  /\ UNCHANGED <<seen, rest, entry, failures, received>>

\* peekPendingOptimizedCandidates
Peek(p) ==
  /\ ppc[p] = "peek"
  /\ batch' = [batch EXCEPT ![p] = queue]
  /\ PollerGoto(p, "filter")
  /\ UNCHANGED <<seen, rest, entry, buffers, failures, received>>

\* (mutant: candidates that are still queued are kept in the result too)
UndeliveredOnly(cs) == cs \ delivered

\* filterUndeliveredOptimizedCandidates, of a final result that has candidates.
Undelivered(cs) == cs \ (delivered \cup pending)

Filter(p) ==
  /\ ppc[p] = "filter"
  /\ rest' = [rest EXCEPT ![p] = Undelivered(seen[p].candidates)]
  /\ PollerGoto(p, "write")
  /\ UNCHANGED <<seen, batch, entry, buffers, failures, received>>

WriteOk(p) ==
  /\ ppc[p] = "write"
  /\ received' = [c \in Candidates |->
       received[c] + (IF c \in ToSet(batch[p]) THEN 1 ELSE 0)
                   + (IF c \in rest[p] THEN 1 ELSE 0)]
  /\ PollerGoto(p, "mark")
  /\ UNCHANGED <<seen, batch, rest, entry, buffers, failures>>

\* Marshalling or writing fails: everything stays for the next poll.
WriteFails(p) ==
  /\ ppc[p] = "write" /\ failures < MaxFailures
  /\ failures' = failures + 1
  /\ PollerGoto(p, "idle")
  /\ UNCHANGED <<seen, batch, rest, entry, buffers, received>>

\* (mutant: the whole queue is cleared, not the delivered part)
MarkClearsQueue(p) ==
  /\ delivered' = delivered \cup ToSet(batch[p])
  /\ pending' = {}
  /\ queue' = <<>>

\* (mutant: the indices of delivered candidates stay pending)
MarkKeepsIndices(p) ==
  /\ delivered' = delivered \cup ToSet(batch[p])
  /\ queue' = Without(queue, delivered')
  /\ UNCHANGED pending

\* markOptimizedCandidatesDelivered, under pendingMu.
MarkDelivered(p) ==
  /\ delivered' = delivered \cup ToSet(batch[p])
  /\ pending' = pending \ ToSet(batch[p])
  /\ queue' = Without(queue, delivered')

Mark(p) ==
  /\ ppc[p] = "mark"
  /\ MarkDelivered(p)
  /\ PollerGoto(p, IF seen[p].kind = "final" THEN "delete" ELSE "idle")
  /\ UNCHANGED <<seen, batch, rest, entry, failures, received>>

DeleteEntry(p) ==
  /\ ppc[p] = "delete"
  /\ entry' = FALSE
  /\ PollerGoto(p, "idle")
  /\ UNCHANGED <<seen, batch, rest, buffers, failures, received>>

PollStep(p) ==
  /\ \/ Lookup(p) \/ Load(p) \/ Peek(p) \/ Filter(p)
     \/ WriteOk(p) \/ WriteFails(p) \/ Mark(p) \/ DeleteEntry(p)
  /\ UNCHANGED <<reporter, pipeVars, consumer, taken, latest>>

-----------------------------------------------------------------------------
PipelineStep == EmitBatch \/ EmitReport \/ EmitFinal
ConsumerStep == Receive \/ AppendPending \/ StoreLatest

ProgressNext ==
  \/ PipelineStep
  \/ ConsumerStep
  \/ SilenceTimeout
  \/ \E p \in Pollers : PollStep(p)

\* The pipeline ends (see ConcurrentSim), the goroutine is scheduled, and a
\* client goes on polling until it is told that there is nothing more.
ProgressFairness ==
  /\ WF_progressVars(PipelineStep)
  /\ WF_progressVars(ConsumerStep)
  /\ \A p \in Pollers : WF_progressVars(PollStep(p))

ProgressSpec == ProgressInit /\ [][ProgressNext]_progressVars /\ ProgressFairness

-----------------------------------------------------------------------------
(* Properties.                                                             *)

\* The queue and the two index sets describe one state: every queued candidate is
\* queued once and indexed as pending, and none of them is marked delivered.
QueueMatchesIndices ==
  /\ ToSet(queue) = pending
  /\ Len(queue) = Cardinality(pending)
  /\ pending \cap delivered = {}

\* A candidate that left the queue was in a response that was written: neither a
\* failed write nor a batch that arrives while a response is being written loses
\* one ("a candidate lost here is never sent at all", async_progress.go:67).
NothingDropped == \A c \in delivered : received[c] > 0

\* When a client has been served the final result and the entry is gone, it has
\* been sent every candidate that was streamed and every one of the result.
FinalIsComplete ==
  consumer = "stopped" /\ ~entry /\ taken.kind = "final" =>
    /\ \A c \in Streamed \ unsent : received[c] > 0
    /\ \A c \in latest.candidates : received[c] > 0

\* A streamed candidate is queued until it was sent, and it is sent before the end.
CandidatesKept == QueueMatchesIndices /\ NothingDropped /\ FinalIsComplete

\* A client is sent a candidate again only by a poll that was in flight when it was
\* sent first: at most once per concurrent poll, also when responses fail and are
\* asked for again, and although the final result repeats every candidate.
DeliveredOnce == \A c \in Candidates : received[c] <= Cardinality(Pollers)

\* The entry of every request is removed in the end: a client that polls until it
\* is told there is nothing more is served the final message first.
EntryRemoved == <>[]~entry
=============================================================================
