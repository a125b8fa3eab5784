--------------------------- MODULE ConcurrentSim ----------------------------
(***************************************************************************)
(* runSimConcurrent (sim/core/sim_concurrent.go): one request split over   *)
(* several goroutines that each run runSim (sim/core/sim.go), a            *)
(* coordinator that selects over their progress channels, the reader of    *)
(* the outer progress channel (sim/web/main.go) and the goroutines that    *)
(* abort the request.                                                      *)
(***************************************************************************)
EXTENDS Integers, Sequences

CONSTANTS
  NumCPU,    \* the split count: runtime.NumCPU(), or 3 in tests
  Totals,    \* iterations a request may ask for (each below MaxTotal)
  MaxTotal,  \* bound on Totals
  SubCap,    \* capacity of a thread's channel (20 in the code)
  OutCap,    \* capacity of the outer channel (100 in the code)
  Faulty,    \* threads whose simulation may panic
  Aborters   \* goroutines that call AbortById on the request, once each

ASSUME ConcurrentSimAssumption ==
  /\ NumCPU \in Nat \ {0}
  /\ MaxTotal \in Nat
  /\ Totals \subseteq 0..MaxTotal
  /\ SubCap \in Nat \ {0} /\ OutCap \in Nat \ {0}

Threads == 1..NumCPU

VARIABLES
  total,    \* request.SimOptions.Iterations
  tpc,      \* where a thread is in runSim
  it,       \* iterations a thread has run
  sub,      \* substituteChannels: what a thread sent and nobody received
  closed,   \* threads whose channel is closed
  cpc,      \* where the coordinator is
  cases,    \* substituteCases that are not nil
  csd,      \* concurrentSimData: IterationsDone and FinalResults
  counter,  \* progressCounter, modulo the number of threads
  hold,     \* the message the coordinator is about to send
  out,      \* the outer progress channel
  ended,    \* it is closed
  abort,    \* signals.Abort is triggered
  apc,      \* where an aborter is
  reader,   \* the goroutine of handleAsyncAPI: "reading" or "stopped"
  sent      \* history: last count sent, first outcome, finals sent, Trigger() panicked

threadVars == <<tpc, it, closed>>
coordVars  == <<cpc, cases, csd, counter, hold, ended, sent>>
vars == <<total, threadVars, sub, coordVars, out, abort, apc, reader>>

-----------------------------------------------------------------------------
(* SplitSimRequestForConcurrency: min(splitCount, iterations) parts, the   *)
(* remainder goes to the first one.                                        *)

Splits     == IF NumCPU < total THEN NumCPU ELSE total
Running    == 1..Splits
\* (mutant: the remainder is lost)
ItersNoRemainder(t) == total \div Splits
ItersOf(t) == total \div Splits + (IF t = 1 THEN total % Splits ELSE 0)

Progress(n) == [done |-> n, final |-> "none"]
Final(n, f) == [done |-> n, final |-> f]
Messages    == [done : 0..MaxTotal, final : {"none", "complete", "aborted", "error"}]

(* GetIterationsDone: SumTo(f)[n] adds up f for the first n threads.       *)
SumTo(f) ==
  LET s[n \in 0..NumCPU] == IF n = 0 THEN 0 ELSE s[n - 1] + f[n]
  IN s

IterationsDone == SumTo(csd.done)[NumCPU]

(* CombineConcurrentSimResults adds up the counts of the parts; the weighted  *)
(* metrics beside them are not modelled.                                      *)
Combined == Final(IterationsDone, "complete")

-----------------------------------------------------------------------------
Init ==
  /\ total \in Totals
  /\ tpc = [t \in Threads |-> "unborn"]
  /\ it = [t \in Threads |-> 0]
  /\ sub = [t \in Threads |-> <<>>]
  /\ closed = {}
  /\ cpc = "split"
  /\ cases = {}
  /\ csd = [done |-> [t \in Threads |-> 0], final |-> [t \in Threads |-> "none"]]
  /\ counter = 0
  /\ hold = Progress(0)
  /\ out = <<>>
  /\ ended = FALSE
  /\ abort = FALSE
  /\ apc = [a \in Aborters |-> "idle"]
  /\ reader = "reading"
  /\ sent = [done |-> 0, outcome |-> "none", finals |-> 0, clash |-> FALSE]

-----------------------------------------------------------------------------
(* A thread: runSim.                                                       *)

\* A send blocks while the channel is full.
Send(t, m) ==
  /\ Len(sub[t]) < SubCap
  /\ sub' = [sub EXCEPT ![t] = Append(@, m)]

Goto(t, pc) == tpc' = [tpc EXCEPT ![t] = pc]

\* progress <- PresimRunning: true
AnnouncePresim(t) ==
  /\ tpc[t] = "start"
  /\ Send(t, Progress(0))
  /\ Goto(t, "presim")
  /\ UNCHANGED <<it, closed>>

\* runPresims succeeds; progress <- PresimRunning: false, then iteration 0.
FirstIteration(t) ==
  /\ tpc[t] = "presim"
  /\ Send(t, Progress(0))
  /\ it' = [it EXCEPT ![t] = 1]
  /\ Goto(t, "check")
  /\ UNCHANGED closed

\* (mutant: a running thread does not look at the signal)
CheckAbortNever(t) ==
  /\ tpc[t] = "check" /\ it[t] < ItersOf(t)
  /\ Goto(t, "report")
  /\ UNCHANGED <<it, sub, closed>>

\* The head of run()'s loop: the abort signal is looked at between iterations.
CheckAbort(t) ==
  /\ tpc[t] = "check" /\ it[t] < ItersOf(t)
  /\ Goto(t, IF abort THEN "quit" ELSE "report")
  /\ UNCHANGED <<it, sub, closed>>

\* A report, when the last one is more than 100ms old; then the next iteration.
Iterate(t) ==
  /\ tpc[t] = "report"
  /\ \/ UNCHANGED sub
     \/ Send(t, Progress(it[t]))
  /\ it' = [it EXCEPT ![t] = @ + 1]
  /\ Goto(t, "check")
  /\ UNCHANGED closed

\* A panic in NewSim, a presim or an iteration, recovered by runSim; or a
\* presim that ends with an error.
Fail(t) ==
  /\ t \in Faulty
  /\ tpc[t] \in {"start", "presim", "check", "report"}
  /\ Send(t, Final(0, "error"))
  /\ Goto(t, "close")
  /\ UNCHANGED <<it, closed>>

Quit(t) ==
  /\ tpc[t] = "quit"
  /\ Send(t, Final(0, "aborted"))
  /\ Goto(t, "close")
  /\ UNCHANGED <<it, closed>>

Complete(t) ==
  /\ tpc[t] = "check" /\ it[t] = ItersOf(t)
  /\ Send(t, Final(it[t], "complete"))
  /\ Goto(t, "close")
  /\ UNCHANGED <<it, closed>>

\* runSim's deferred close(progress).
CloseSub(t) ==
  /\ tpc[t] = "close"
  /\ closed' = closed \cup {t}
  /\ Goto(t, "exited")
  /\ UNCHANGED <<it, sub>>

ThreadStep(t) ==
  /\ \/ AnnouncePresim(t) \/ FirstIteration(t) \/ CheckAbort(t) \/ Iterate(t)
     \/ Fail(t) \/ Quit(t) \/ Complete(t) \/ CloseSub(t)
  /\ UNCHANGED <<total, coordVars, out, abort, apc, reader>>

-----------------------------------------------------------------------------
(* The coordinator: runSimConcurrent.                                      *)

\* The split fails on a request without iterations; otherwise the threads start.
Split ==
  /\ cpc = "split"
  /\ IF total = 0
     THEN /\ cpc' = "recover"
          /\ UNCHANGED <<tpc, cases>>
     ELSE /\ cpc' = "select"
          /\ tpc' = [t \in Threads |-> IF t \in Running THEN "start" ELSE "unborn"]
          /\ cases' = Running
  /\ UNCHANGED <<it, closed, sub, csd, counter, hold, ended, sent, out, abort>>

\* (mutant: counts are added up instead of replaced)
UpdateProgressAdding(t, m) ==
  csd' = [csd EXCEPT !.done[t] = @ + m.done,
                     !.final[t] = IF m.final = "none" THEN @ ELSE m.final]

\* UpdateProgress: the slot of the sender, not of the order of arrival.
UpdateProgress(t, m) ==
  csd' = [csd EXCEPT !.done[t] = m.done,
                     !.final[t] = IF m.final = "none" THEN @ ELSE m.final]

\* (mutant: only an abort counts as a failure)
FailedAborted(m) == m.final = "aborted"

\* A final result that carries an error.
Failed(m) == m.final \in {"error", "aborted"}

\* reflect.Select receives a message, and the signal is looked at before it.
Receive(t) ==
  /\ cpc = "select" /\ t \in cases /\ sub[t] # <<>>
  /\ sub' = [sub EXCEPT ![t] = Tail(@)]
  /\ LET m == Head(sub[t]) IN
     \/ /\ abort
        /\ hold' = Final(0, "aborted") /\ cpc' = "sendAborted"
        /\ UNCHANGED <<cases, csd, counter>>
     \/ /\ ~abort /\ Failed(m)
        /\ UpdateProgress(t, m)
        /\ hold' = m /\ cpc' = "sendError"
        /\ UNCHANGED <<cases, counter>>
     \/ /\ ~abort /\ ~Failed(m) /\ m.final # "none"
        /\ UpdateProgress(t, m)
        /\ cases' = cases \ {t}
        /\ UNCHANGED <<cpc, counter, hold>>
     \/ /\ ~abort /\ m.final = "none"
        /\ UpdateProgress(t, m)
        /\ counter' = (counter + 1) % Splits
        /\ IF counter' = 0
           THEN hold' = Progress(IterationsDone') /\ cpc' = "sendProgress"
           ELSE UNCHANGED <<hold, cpc>>
        /\ UNCHANGED cases
  /\ UNCHANGED <<threadVars, ended, sent, out, abort>>

\* reflect.Select finds a channel closed.
ReceiveClosed(t) ==
  /\ cpc = "select" /\ t \in cases /\ sub[t] = <<>> /\ t \in closed
  /\ IF abort
     THEN hold' = Final(0, "aborted") /\ cpc' = "sendAborted" /\ UNCHANGED cases
     ELSE cases' = cases \ {t} /\ UNCHANGED <<hold, cpc>>
  /\ UNCHANGED <<threadVars, sub, csd, counter, ended, sent, out, abort>>

\* No thread is running: every result must be there, and they are combined.
Combine ==
  /\ cpc = "select" /\ cases = {}
  /\ IF \E t \in Running : csd.final[t] = "none"
     THEN cpc' = "recover" /\ UNCHANGED hold
     ELSE cpc' = "sendResult" /\ hold' = Combined
  /\ UNCHANGED <<threadVars, sub, cases, csd, counter, ended, sent, out, abort>>

\* progress <- m, blocking while the channel is full.
SendOut(m) ==
  /\ Len(out) < OutCap
  /\ out' = Append(out, m)
  /\ sent' = [sent EXCEPT
                !.done    = IF m.final \in {"none", "complete"} THEN m.done ELSE @,
                !.outcome = IF @ = "none" THEN m.final ELSE @,
                !.finals  = @ + (IF m.final = "none" THEN 0 ELSE 1)]

\* (mutant: the early return after the abort message is missing)
DeliverAndGoOn ==
  /\ \/ cpc \in {"sendProgress", "sendAborted"} /\ cpc' = "select"
     \/ cpc = "sendResult" /\ cpc' = "close"
     \/ cpc = "sendError" /\ cpc' = "trigger"
  /\ SendOut(hold)
  /\ UNCHANGED <<threadVars, sub, cases, csd, counter, hold, ended, abort>>

Deliver ==
  /\ \/ cpc = "sendProgress" /\ cpc' = "select"
     \/ cpc \in {"sendAborted", "sendResult"} /\ cpc' = "close"
     \/ cpc = "sendError" /\ cpc' = "trigger"
  /\ SendOut(hold)
  /\ UNCHANGED <<threadVars, sub, cases, csd, counter, hold, ended, abort>>

\* (mutant: the other threads are not cancelled)
TriggerForgotten ==
  /\ cpc = "trigger"
  /\ cpc' = "close"
  /\ UNCHANGED <<threadVars, sub, cases, csd, counter, hold, ended, sent, out, abort>>

\* signals.Abort.Trigger() after a thread's error: its select, then its close.
\* Closing a channel that another goroutine closed in between panics.
TriggerSelect ==
  /\ cpc = "trigger"
  /\ cpc' = IF abort THEN "close" ELSE "triggerClose"
  /\ UNCHANGED <<threadVars, sub, cases, csd, counter, hold, ended, sent, out, abort>>

TriggerClose ==
  /\ cpc = "triggerClose"
  /\ cpc' = IF abort THEN "recover" ELSE "close"
  /\ sent' = [sent EXCEPT !.clash = abort]
  /\ abort' = TRUE
  /\ UNCHANGED <<threadVars, sub, cases, csd, counter, hold, ended, out>>

\* The deferred recover: an error result, then the other threads are cancelled.
Recover ==
  /\ cpc = "recover"
  /\ SendOut(Final(0, "error"))
  /\ cpc' = "recoverTrigger"
  /\ UNCHANGED <<threadVars, sub, cases, csd, counter, hold, ended, abort>>

RecoverTrigger ==
  /\ cpc = "recoverTrigger"
  /\ abort' = TRUE
  /\ cpc' = "close"
  /\ UNCHANGED <<threadVars, sub, cases, csd, counter, hold, ended, sent, out>>

CloseOut ==
  /\ cpc = "close"
  /\ ended' = TRUE
  /\ cpc' = "returned"
  /\ UNCHANGED <<threadVars, sub, cases, csd, counter, hold, sent, out, abort>>

CoordinatorStep ==
  /\ \/ Split \/ Combine \/ Deliver
     \/ \E t \in Threads : Receive(t) \/ ReceiveClosed(t)
     \/ TriggerSelect \/ TriggerClose \/ Recover \/ RecoverTrigger \/ CloseOut
  /\ UNCHANGED <<total, apc, reader>>

-----------------------------------------------------------------------------
(* The environment: aborters and the reader of the outer channel.          *)

AbortSelect(a) ==
  /\ apc[a] = "idle"
  /\ apc' = [apc EXCEPT ![a] = IF abort THEN "done" ELSE "closing"]
  /\ UNCHANGED abort

AbortClose(a) ==
  /\ apc[a] = "closing"
  /\ apc' = [apc EXCEPT ![a] = IF abort THEN "panicked" ELSE "done"]
  /\ abort' = TRUE

AborterStep(a) ==
  /\ AbortSelect(a) \/ AbortClose(a)
  /\ UNCHANGED <<total, threadVars, sub, coordVars, out, reader>>

\* The reader takes messages until a final one or until the channel is closed.
Read ==
  /\ reader = "reading"
  /\ \/ /\ out # <<>>
        /\ out' = Tail(out)
        /\ reader' = IF Head(out).final = "none" THEN "reading" ELSE "stopped"
     \/ /\ out = <<>> /\ ended
        /\ reader' = "stopped"
        /\ UNCHANGED out

\* After ten minutes of silence it aborts the request and stops reading.
GiveUp ==
  /\ reader = "reading" /\ out = <<>>
  /\ \E a \in Aborters : apc[a] = "done"
  /\ reader' = "stopped"
  /\ UNCHANGED out

ReaderStep ==
  /\ Read \/ GiveUp
  /\ UNCHANGED <<total, threadVars, sub, coordVars, abort, apc>>

-----------------------------------------------------------------------------
Next ==
  \/ \E t \in Threads : ThreadStep(t)
  \/ CoordinatorStep
  \/ \E a \in Aborters : AborterStep(a)
  \/ ReaderStep

\* The Go scheduler runs every goroutine that can run; an abort may never come,
\* but one that has begun ends.
Fairness ==
  /\ \A t \in Threads : WF_vars(ThreadStep(t))
  /\ WF_vars(CoordinatorStep)
  /\ \A a \in Aborters : WF_vars(AborterStep(a) /\ apc[a] = "closing")
  /\ WF_vars(Read /\ UNCHANGED <<total, threadVars, sub, coordVars, abort, apc>>)

Spec == Init /\ [][Next]_vars /\ Fairness

-----------------------------------------------------------------------------
(* Properties.                                                             *)

TypeOK ==
  /\ total \in 0..MaxTotal
  /\ tpc \in [Threads -> {"unborn", "start", "presim", "check", "report", "quit",
                          "close", "exited"}]
  /\ it \in [Threads -> 0..MaxTotal]
  /\ sub \in [Threads -> Seq(Messages)]
  /\ \A t \in Threads : Len(sub[t]) <= SubCap
  /\ closed \subseteq Threads
  /\ cpc \in {"split", "select", "sendProgress", "sendAborted", "sendError",
              "sendResult", "trigger", "triggerClose", "recover", "recoverTrigger",
              "close", "returned"}
  /\ cases \subseteq Threads
  /\ csd \in [done  : [Threads -> 0..MaxTotal],
              final : [Threads -> {"none", "complete", "aborted", "error"}]]
  /\ counter \in 0..NumCPU
  /\ hold \in Messages
  /\ out \in Seq(Messages) /\ Len(out) <= OutCap
  /\ ended \in BOOLEAN
  /\ abort \in BOOLEAN
  /\ apc \in [Aborters -> {"idle", "closing", "done", "panicked"}]
  /\ reader \in {"reading", "stopped"}
  /\ sent.finals \in Nat /\ sent.clash \in BOOLEAN

\* The request behaves as AsyncJob says: reports never go back, a complete result
\* counts every iteration, the channel is closed after a final message, and a
\* final message always comes, even when the reader has given up.
Job == INSTANCE AsyncJob WITH done <- sent.done, outcome <- sent.outcome
ImplementsAsyncJob == Job!Spec

\* The reader gets one final message ("the async run is finished"), and a second one
\* only from the recovery of a panic: when somebody else closed the signal between the
\* two halves of the coordinator's own Trigger().
SingleFinal == sent.finals <= IF sent.clash THEN 2 ELSE 1

\* A complete result is combined from the complete results of every part: nothing
\* of a thread that failed, was aborted or still runs is in it.
CompleteMeansAll ==
  sent.outcome = "complete" =>
    \A t \in Running : /\ tpc[t] \in {"close", "exited"}
                       /\ it[t] = ItersOf(t)
                       /\ csd.done[t] = it[t]
                       /\ csd.final[t] = "complete"

\* What the reader may conclude from what it is sent.
FinalSound == SingleFinal /\ CompleteMeansAll

\* When runSimConcurrent returns early, the threads it leaves behind have been
\* told to stop: none goes on with iterations nobody waits for.
NoOrphanWork ==
  cpc = "returned" => abort \/ \A t \in Running : tpc[t] \in {"close", "exited"}

\* The most a thread still sends once its signal is triggered: two announcements, a
\* report it was about to make, and its final result.
LastWords(t) == CASE tpc[t] = "start"               -> 3
                  [] tpc[t] \in {"presim", "report"} -> 2
                  [] tpc[t] \in {"check", "quit"}    -> 1
                  [] OTHER                          -> 0
Ended(t) == tpc[t] \in {"unborn", "exited"}

\* Nobody receives from the threads an early return leaves behind.  Those whose
\* channel has room for what they still send end; and no goroutine waits for ever
\* elsewhere than at such a channel when it is full (sim_concurrent.go:521 gives it 20
\* slots, and the reports of a thread are not bounded).
ThreadsExit ==
  /\ \A t \in Threads :
       (cpc = "returned" /\ Len(sub[t]) + LastWords(t) <= SubCap) ~> Ended(t)
  /\ <>[](\A t \in Threads :
            Ended(t) \/ (cpc = "returned" /\ Len(sub[t]) = SubCap))
=============================================================================
