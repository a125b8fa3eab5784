----------------------------- MODULE SimSignals -----------------------------
(***************************************************************************)
(* The abort signals of the simulator (sim/core/simsignals) and the jobs   *)
(* that register for them: the *Async entry points of sim/core/api.go, of  *)
(* sim/core/bulk and of sim/web, with the two-stage registration of        *)
(* runBulkSimAsync (sim/web/bulk.go).                                      *)
(*                                                                         *)
(* A job registers a client-chosen id and gets a fresh signal (a channel   *)
(* that is closed to abort).  Any goroutine may call AbortById on an id:   *)
(* it looks the signal up under the registry's lock and triggers it        *)
(* outside the lock, in two steps (a select, then a close).                *)
(*                                                                         *)
(* A signal is named by its owner: <<j, n>> is the channel made by the     *)
(* n-th registration of job j.                                             *)
(***************************************************************************)
EXTENDS Naturals

CONSTANTS
  Jobs,       \* asynchronous jobs, each submitted once
  BulkJobs,   \* those that arrive through runBulkSimAsync
  Callers,    \* goroutines that call AbortById, once each
  Ids,        \* non-empty request ids
  EmptyId,    \* the empty request id
  NoSignal,   \* "no entry" in the registry
  MaxChecks   \* bound: abort checks a job makes while it runs

ASSUME SimSignalsAssumption ==
  /\ BulkJobs \subseteq Jobs
  /\ EmptyId \notin Ids
  /\ NoSignal \notin (Jobs \X (1..2))
  /\ MaxChecks \in Nat

VARIABLES
  tracked,     \* trackedIds: id -> signal
  closed,      \* signals whose channel is closed
  jpc,         \* where a job is
  jobId,       \* the id a job was submitted with
  regs,        \* number of registrations a job has made
  registered,  \* runBulkSimAsync's local flag of the same name
  outer,       \* runBulkSimAsync after it delegated: its deferred call
  checks,      \* abort checks passed while running
  cpc,         \* where an AbortById caller is
  target       \* the signal a caller looked up

jobVars  == <<jpc, jobId, regs, registered, outer, checks>>
callVars == <<cpc, target>>
vars     == <<tracked, closed, jobVars, callVars>>

Signals == Jobs \X (1..2)
JobPCs  == {"new", "running", "generating", "optimizing", "handover",
            "bailing", "leaving", "ended", "rejected"}

TypeOK ==
  /\ tracked \in [Ids -> Signals \cup {NoSignal}]
  /\ closed \subseteq Signals
  /\ jpc \in [Jobs -> JobPCs]
  /\ jobId \in [Jobs -> Ids \cup {EmptyId}]
  /\ regs \in [Jobs -> 0..2]
  /\ registered \in [Jobs -> BOOLEAN]
  /\ outer \in [Jobs -> {"inside", "returning", "returned"}]
  /\ checks \in [Jobs -> 0..MaxChecks]
  /\ cpc \in [Callers -> {"idle", "looked", "closing", "acked", "unknown", "panicked"}]
  /\ target \in [Callers -> Signals \cup {NoSignal}]

Init ==
  /\ tracked = [i \in Ids |-> NoSignal]
  /\ closed = {}
  /\ jpc = [j \in Jobs |-> "new"]
  /\ jobId \in [Jobs -> Ids \cup {EmptyId}]
  /\ regs = [j \in Jobs |-> 0]
  /\ registered = [j \in Jobs |-> FALSE]
  /\ outer = [j \in Jobs |-> "inside"]
  /\ checks = [j \in Jobs |-> 0]
  /\ cpc = [c \in Callers |-> "idle"]
  /\ target = [c \in Callers |-> NoSignal]

\* The signal a job currently watches.
SignalOf(j)    == <<j, regs[j]>>
IsTriggered(j) == SignalOf(j) \in closed

-----------------------------------------------------------------------------
(* The registry's operations; each runs under the registry's lock. *)

CanRegister(i) == i # EmptyId /\ tracked[i] = NoSignal

RegisterWithId(j) ==
  /\ CanRegister(jobId[j])
  /\ regs' = [regs EXCEPT ![j] = @ + 1]
  /\ tracked' = [tracked EXCEPT ![jobId[j]] = <<j, regs[j] + 1>>]

\* (mutant: the entry is blanked instead of deleted)
UnregisterBlank(i) == tracked' = [tracked EXCEPT ![i] = <<>>]

UnregisterId(i) == tracked' = [tracked EXCEPT ![i] = NoSignal]

-----------------------------------------------------------------------------
(* Jobs.                                                                   *)

\* RegisterWithId fails: the job ends with an error and owns nothing.
Reject(j) ==
  /\ jpc[j] = "new" \/ (jpc[j] = "handover" /\ outer[j] = "returning")
  /\ ~CanRegister(jobId[j])
  /\ jpc' = [jpc EXCEPT ![j] = "rejected"]
  /\ UNCHANGED <<tracked, closed, jobId, regs, registered, outer, checks, callVars>>

\* RunRaidSimAsync, RunRaidSimConcurrentAsync, StatWeightsAsync, ReforgeOptimizeAsync.
StartPlain(j) ==
  /\ jpc[j] = "new" /\ j \notin BulkJobs
  /\ RegisterWithId(j)
  /\ jpc' = [jpc EXCEPT ![j] = "running"]
  /\ UNCHANGED <<closed, jobId, registered, outer, checks, callVars>>

\* The running job looks at its signal between two pieces of work.
PassCheck(j) ==
  /\ jpc[j] = "running" /\ checks[j] < MaxChecks
  /\ ~IsTriggered(j)
  /\ checks' = [checks EXCEPT ![j] = @ + 1]
  /\ UNCHANGED <<tracked, closed, jpc, jobId, regs, registered, outer, callVars>>

\* It stops because it was aborted, because it has finished or on an error.
Stop(j) ==
  /\ jpc[j] = "running"
  /\ jpc' = [jpc EXCEPT ![j] = "leaving"]
  /\ UNCHANGED <<tracked, closed, jobId, regs, registered, outer, checks, callVars>>

\* The job's goroutine runs its "defer simsignals.UnregisterId(requestId)".
Leave(j) ==
  /\ jpc[j] = "leaving"
  /\ UnregisterId(jobId[j])
  /\ jpc' = [jpc EXCEPT ![j] = "ended"]
  /\ UNCHANGED <<closed, jobId, regs, registered, outer, checks, callVars>>

-----------------------------------------------------------------------------
(* runBulkSimAsync: registers before it generates candidates, hands the id *)
(* back and delegates to bulk.BulkSimAsync, which registers it again.      *)

StartBulk(j) ==
  /\ jpc[j] = "new" /\ j \in BulkJobs
  /\ RegisterWithId(j)
  /\ registered' = [registered EXCEPT ![j] = TRUE]
  /\ jpc' = [jpc EXCEPT ![j] = "generating"]
  /\ UNCHANGED <<closed, jobId, outer, checks, callVars>>

\* Generation is over: an error or an abort ends the job; otherwise it goes on
\* to the reforge pre-pass, when the request asks for one, or to the hand-over.
Generated(j) ==
  /\ jpc[j] = "generating"
  /\ \/ jpc' = [jpc EXCEPT ![j] = "bailing"]
     \/ /\ ~IsTriggered(j)
        /\ \E next \in {"optimizing", "handover"} : jpc' = [jpc EXCEPT ![j] = next]
  /\ UNCHANGED <<tracked, closed, jobId, regs, registered, outer, checks, callVars>>

Optimized(j) ==
  /\ jpc[j] = "optimizing"
  /\ jpc' = [jpc EXCEPT ![j] = IF IsTriggered(j) THEN "bailing" ELSE "handover"]
  /\ UNCHANGED <<tracked, closed, jobId, regs, registered, outer, checks, callVars>>

\* (mutant: the flag is never cleared, so the deferred call deletes again)
UnregisterTwice(j) ==
  /\ IF registered[j] THEN UnregisterId(jobId[j]) ELSE UNCHANGED tracked
  /\ UNCHANGED registered

\* The local closure unregister(): deletes the id once, whoever calls it.
UnregisterOnce(j) ==
  /\ IF registered[j] THEN UnregisterId(jobId[j]) ELSE UNCHANGED tracked
  /\ registered' = [registered EXCEPT ![j] = FALSE]

HandBack(j) ==
  /\ jpc[j] = "handover" /\ outer[j] = "inside"
  /\ UnregisterOnce(j)
  /\ outer' = [outer EXCEPT ![j] = "returning"]
  /\ UNCHANGED <<closed, jpc, jobId, regs, checks, callVars>>

\* bulk.BulkSimAsync registers the id again and starts its own goroutine.
Delegate(j) ==
  /\ jpc[j] = "handover" /\ outer[j] = "returning"
  /\ RegisterWithId(j)
  /\ jpc' = [jpc EXCEPT ![j] = "running"]
  /\ UNCHANGED <<closed, jobId, registered, outer, checks, callVars>>

\* "defer unregister()": on an early return it frees the id; after a
\* delegation it runs beside BulkSimAsync's goroutine.
DeferredUnregister(j) ==
  /\ \/ /\ jpc[j] = "bailing"
        /\ jpc' = [jpc EXCEPT ![j] = "ended"]
        /\ UNCHANGED outer
     \/ /\ outer[j] = "returning" /\ jpc[j] # "handover"
        /\ outer' = [outer EXCEPT ![j] = "returned"]
        /\ UNCHANGED jpc
  /\ UnregisterOnce(j)
  /\ UNCHANGED <<closed, jobId, regs, checks, callVars>>

-----------------------------------------------------------------------------
(* AbortById(id), called by /abortById handlers and by the silence timeout *)
(* of the async API.                                                       *)

GetById(c, i) ==
  /\ cpc[c] = "idle"
  /\ target' = [target EXCEPT ![c] = tracked[i]]
  /\ cpc' = [cpc EXCEPT ![c] = IF tracked[i] = NoSignal THEN "unknown" ELSE "looked"]
  /\ UNCHANGED <<tracked, closed, jobVars>>

\* Trigger's select: a closed channel is ready, so nothing is left to do.
TriggerSelect(c) ==
  /\ cpc[c] = "looked"
  /\ cpc' = [cpc EXCEPT ![c] = IF target[c] \in closed THEN "acked" ELSE "closing"]
  /\ UNCHANGED <<tracked, closed, jobVars, target>>

\* (mutant: the registry's copy of the signal is marked, not the shared channel)
TriggerCopy(c) ==
  /\ cpc[c] = "closing"
  /\ cpc' = [cpc EXCEPT ![c] = "acked"]
  /\ UNCHANGED <<tracked, closed, jobVars, target>>

\* Trigger's default branch: closing a closed channel panics.
TriggerClose(c) ==
  /\ cpc[c] = "closing"
  /\ closed' = closed \cup {target[c]}
  /\ cpc' = [cpc EXCEPT ![c] = IF target[c] \in closed THEN "panicked" ELSE "acked"]
  /\ UNCHANGED <<tracked, jobVars, target>>

-----------------------------------------------------------------------------
JobStep(j) ==
  \/ Reject(j) \/ StartPlain(j) \/ PassCheck(j) \/ Stop(j) \/ Leave(j)
  \/ StartBulk(j) \/ Generated(j) \/ Optimized(j) \/ HandBack(j)
  \/ Delegate(j) \/ DeferredUnregister(j)

CallerStep(c) ==
  \/ \E i \in Ids : GetById(c, i)
  \/ TriggerSelect(c)
  \/ TriggerClose(c)

Next ==
  \/ \E j \in Jobs : JobStep(j)
  \/ \E c \in Callers : CallerStep(c)

Spec == Init /\ [][Next]_vars

-----------------------------------------------------------------------------
(* Properties.                                                             *)

\* Job j is entitled to the registry entry of its id.
Holds(j) ==
  \/ jpc[j] \in {"running", "leaving", "generating", "optimizing", "bailing"}
  \/ jpc[j] = "handover" /\ outer[j] = "inside"

\* The registry holds exactly the signals of the jobs that are between their
\* registration and their unregistration, each under its own id: no job removes
\* or replaces the entry of another one that reuses its id, none leaves an entry
\* behind, and two live jobs never share an id (RegisterWithId, UnregisterId and
\* the "registered" flag of runBulkSimAsync).
RegistryOwnership ==
  /\ \A j \in Jobs : Holds(j) => /\ jobId[j] \in Ids
                                 /\ tracked[jobId[j]] = SignalOf(j)
  /\ \A i \in Ids : \A s \in Signals :
       tracked[i] = s => /\ Holds(s[1])
                         /\ jobId[s[1]] = i

\* An abort of job j was acknowledged (AbortById returned true).
AckedAbort(j) == \E c \in Callers : cpc[c] = "acked" /\ target[c] \in {<<j, 1>>, <<j, 2>>}

\* Once AbortById has returned true for a job that registers once, the job does
\* not pass another abort check (AbortResponse.was_triggered, api.proto:560).
AckedAbortStops ==
  [][\A j \in Jobs \ BulkJobs : checks'[j] > checks[j] => ~AckedAbort(j)]_vars

\* The same for a bulk job: it keeps its id across the hand-over, so an abort
\* has "to land somewhere" (the comment in runBulkSimAsync).
AckedAbortStopsBulk ==
  [][\A j \in BulkJobs : checks'[j] > checks[j] => ~AckedAbort(j)]_vars
=============================================================================
