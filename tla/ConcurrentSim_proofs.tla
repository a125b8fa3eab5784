------------------------- MODULE ConcurrentSim_proofs -------------------------
(***************************************************************************)
(* Proofs about ConcurrentSim for any number of threads, iterations and    *)
(* aborters and any capacities: what the final messages mean (FinalSound), *)
(* that nobody works on after the return (NoOrphanWork), that the request  *)
(* is an AsyncJob to its reader (RefinesAsyncJob) and the type invariant.  *)
(*                                                                         *)
(* The inductive invariant follows a final message from its thread to the  *)
(* reader.  ChannelInv: it is the last one in the thread's channel, which  *)
(* its thread has left.  ResultInv: once it is stored the channel is empty,*)
(* so that nothing overwrites it, and while the coordinator selects only   *)
(* complete results are stored.  FinalsInv: at each place the coordinator  *)
(* is at, how many final messages it has sent and what it holds.           *)
(* ReturnInv: on every way to the return the threads were stopped.         *)
(*                                                                         *)
(* The refinement follows the counts as well.  PlaceInv: no thread runs    *)
(* more iterations than its part.  OrderInv: the counts in its channel     *)
(* ascend, from the one received last to the iterations it has run.        *)
(* ReportInv: the last report is never above the sum of what was received, *)
(* and that sum (SumTo, a recursive function) grows with its parts and is  *)
(* at most the request, which the parts add up to.  RoomInv has the bounds *)
(* of the channels that the type invariant adds.                           *)
(***************************************************************************)
EXTENDS ConcurrentSim, SequenceTheorems, WellFoundedInduction, TLAPS

\* The count of the last report has its own invariant, ReportInv below.
Outcomes == {"none", "complete", "aborted", "error"}
Report   == [done : Nat, final : Outcomes]
Sent     == [done : {sent.done}, outcome : Outcomes, finals : Nat, clash : BOOLEAN]

Types ==
  /\ total \in Nat
  /\ tpc \in [Threads -> {"unborn", "start", "presim", "check", "report", "quit",
                          "close", "exited"}]
  /\ it \in [Threads -> Nat]
  /\ sub \in [Threads -> Seq(Report)]
  /\ cases \subseteq Threads
  /\ csd \in [done : [Threads -> Nat], final : [Threads -> Outcomes]]
  /\ abort \in BOOLEAN
  /\ sent \in Sent

\* Threads that have sent their final message.
Over == {"close", "exited"}

\* The messages of a thread that nobody received.
Pending(t) == {i \in 1..Len(sub[t]) : sub[t][i].final # "none"}

ChannelInv ==
  \A t \in Threads :
    /\ Pending(t) # {} => tpc[t] \in Over /\ csd.final[t] = "none"
    /\ \A i \in Pending(t) :
         /\ i = Len(sub[t])
         /\ sub[t][i].final = "complete" => it[t] = ItersOf(t) /\ sub[t][i].done = it[t]

Whole(t) == /\ tpc[t] \in Over
            /\ it[t] = ItersOf(t)
            /\ csd.done[t] = it[t]
            /\ csd.final[t] = "complete"

ResultInv ==
  /\ cpc = "split" => \A t \in Threads : tpc[t] = "unborn"
  /\ \A t \in Threads : csd.final[t] # "none" => tpc[t] \in Over /\ sub[t] = <<>>
  /\ \A t \in Threads : csd.final[t] = "complete" => Whole(t)
  /\ cpc \in {"split", "select", "sendProgress"} =>
       \A t \in Threads : csd.final[t] \in {"none", "complete"}
  /\ cpc = "sendResult" \/ sent.outcome = "complete" => \A t \in Running : Whole(t)

FinalsInv ==
  /\ cpc \in {"split", "select", "sendProgress", "sendAborted", "sendError", "sendResult",
             "trigger", "triggerClose", "recover", "recoverTrigger", "close", "returned"}
  /\ sent.outcome = "none" <=> sent.finals = 0
  /\ sent.outcome = "complete" => cpc \in {"close", "returned"}
  /\ cpc \in {"split", "select", "sendProgress", "sendAborted", "sendError", "sendResult"} =>
       sent.finals = 0 /\ ~sent.clash
  /\ cpc \in {"trigger", "triggerClose"} => sent.finals = 1 /\ ~sent.clash
  /\ cpc = "recover" => sent.finals = IF sent.clash THEN 1 ELSE 0
  /\ cpc \in {"recoverTrigger", "close", "returned"} =>
       sent.finals = IF sent.clash THEN 2 ELSE 1
  /\ cpc = "sendProgress" => hold.final = "none"
  /\ cpc = "sendAborted" => hold.final = "aborted"
  /\ cpc = "sendError" => hold.final \in {"aborted", "error"}
  /\ cpc = "sendResult" => hold.final = "complete"

ReturnInv ==
  cpc \in {"sendAborted", "close", "returned"} => abort \/ \A t \in Running : tpc[t] \in Over

IInv == Types /\ ChannelInv /\ ResultInv /\ FinalsInv /\ ReturnInv

-----------------------------------------------------------------------------
(* The threads.                                                             *)

\* The threads of a request.
LEMMA RunningFacts == Types => Running \subseteq Threads
BY ConcurrentSimAssumption DEF Types, Running, Threads, Splits

\* A message goes to the end of a channel.
LEMMA SendFacts ==
  ASSUME NEW s \in Seq(Report), NEW m \in Report
  PROVE  /\ Append(s, m) \in Seq(Report)
         /\ Len(s) \in Nat /\ Len(Append(s, m)) = Len(s) + 1
         /\ \A i \in 1..Len(s) : Append(s, m)[i] = s[i]
         /\ Append(s, m)[Len(s) + 1] = m
BY AppendProperties, LenProperties

\* What is received is the first message, and the others move up.
LEMMA ReceiveFacts ==
  ASSUME NEW s \in Seq(Report), s # <<>>
  PROVE  /\ Head(s) \in Report /\ Head(s) = s[1] /\ 1 \in 1..Len(s)
         /\ Tail(s) \in Seq(Report) /\ Len(s) \in Nat /\ Len(Tail(s)) = Len(s) - 1
         /\ \A i \in 1..Len(Tail(s)) : Tail(s)[i] = s[i + 1] /\ i + 1 \in 1..Len(s)
<1>1. Len(s) \in Nat \ {0}
  BY EmptySeq, LenProperties
<1> QED
  BY <1>1, HeadTailProperties

\* A thread works on and may report, sends its final message and is over, or exits.
Works(t) ==
  /\ tpc[t] \notin Over
  /\ \/ sub' = sub
     \/ \E n \in Nat : sub' = [sub EXCEPT ![t] = Append(@, Progress(n))]

Ends(t) ==
  /\ tpc[t] \notin Over /\ tpc' = [tpc EXCEPT ![t] = "close"] /\ it' = it
  /\ \E m \in Report :
       /\ m.final # "none"
       /\ m.final = "complete" => it[t] = ItersOf(t) /\ m.done = it[t]
       /\ sub' = [sub EXCEPT ![t] = Append(@, m)]

Exits(t) ==
  tpc[t] = "close" /\ tpc' = [tpc EXCEPT ![t] = "exited"] /\ it' = it /\ sub' = sub

\* These are the steps of a thread.
LEMMA ThreadSteps ==
  ASSUME Types, NEW t \in Threads, ThreadStep(t)
  PROVE  /\ UNCHANGED <<total, cpc, cases, csd, hold, sent, abort>> /\ tpc[t] # "unborn"
         /\ \E pc \in {"presim", "check", "report", "quit", "close", "exited"} :
              tpc' = [tpc EXCEPT ![t] = pc]
         /\ \E n \in Nat : it' = [it EXCEPT ![t] = n]
         /\ Works(t) \/ Ends(t) \/ Exits(t)
<1> USE DEF Types, Goto, Send, Over
<1>1. UNCHANGED <<total, cpc, cases, csd, hold, sent, abort>>
  BY DEF ThreadStep, coordVars
<1>2. it[t] \in Nat /\ it = [it EXCEPT ![t] = it[t]] /\ 1 \in Nat /\ it[t] + 1 \in Nat
  OBVIOUS
<1>3. CASE AnnouncePresim(t) \/ FirstIteration(t)
  BY <1>1, <1>2, <1>3 DEF AnnouncePresim, FirstIteration, Works
<1>4. CASE CheckAbort(t)
  BY <1>1, <1>2, <1>4 DEF CheckAbort, Works
<1>5. CASE Iterate(t)
  BY <1>1, <1>2, <1>5 DEF Iterate, Works
<1>6. CASE Fail(t)
  <2>1. Final(0, "error") \in Report /\ Final(0, "error").final = "error"
    BY DEF Final, Report, Outcomes
  <2> QED
    BY <1>1, <1>2, <1>6, <2>1 DEF Fail, Ends
<1>7. CASE Quit(t)
  <2>1. Final(0, "aborted") \in Report /\ Final(0, "aborted").final = "aborted"
    BY DEF Final, Report, Outcomes
  <2> QED
    BY <1>1, <1>2, <1>7, <2>1 DEF Quit, Ends
<1>8. CASE Complete(t)
  <2>1. /\ Final(it[t], "complete") \in Report
        /\ Final(it[t], "complete").final = "complete" /\ Final(it[t], "complete").done = it[t]
    BY <1>2 DEF Final, Report, Outcomes
  <2> QED
    BY <1>1, <1>2, <1>8, <2>1 DEF Complete, Ends
<1>9. CASE CloseSub(t)
  BY <1>1, <1>2, <1>9 DEF CloseSub, Exits
<1> QED
  BY <1>3, <1>4, <1>5, <1>6, <1>7, <1>8, <1>9 DEF ThreadStep

\* Every step of a thread keeps the invariant.
LEMMA ThreadInvariant ==
  ASSUME IInv, NEW t \in Threads, ThreadStep(t)
  PROVE  IInv'
<1> USE DEF IInv
<1>1. /\ UNCHANGED <<total, cpc, cases, csd, hold, sent, abort>>
      /\ Running' = Running /\ \A u : ItersOf(u)' = ItersOf(u)
  BY ThreadSteps DEF Running, ItersOf, Splits
<1>2. /\ tpc' \in [Threads -> {"unborn", "start", "presim", "check", "report", "quit",
                               "close", "exited"}]
      /\ \A u \in Threads \ {t} : tpc'[u] = tpc[u]
  <2>1. PICK pc \in {"presim", "check", "report", "quit", "close", "exited"} :
          tpc' = [tpc EXCEPT ![t] = pc]
    BY ThreadSteps
  <2> QED
    BY <2>1 DEF Types
<1>3. it' \in [Threads -> Nat] /\ \A u \in Threads \ {t} : it'[u] = it[u]
  BY ThreadSteps DEF Types
<1>4. FinalsInv'
  BY <1>1 DEF FinalsInv
\* What is left to show for each kind of step.
<1>5. ASSUME /\ sub' \in [Threads -> Seq(Report)]
             /\ \A u \in Threads : tpc[u] \in Over => tpc'[u] \in Over /\ it'[u] = it[u]
             /\ \A u \in Threads : tpc[u] \in Over => sub'[u] = sub[u]
             /\ \A u \in Threads : Pending(u)' # {} => tpc'[u] \in Over
             /\ \A u \in Threads : Pending(u)' # {} => csd.final[u] = "none"
             /\ \A u \in Threads : \A i \in Pending(u)' :
                  /\ i = Len(sub'[u])
                  /\ sub'[u][i].final = "complete" => it'[u] = ItersOf(u) /\ sub'[u][i].done = it'[u]
      PROVE  IInv'
  <2>1. Types'
    <3>1. sent' \in Sent'
      BY <1>1 DEF Types, Sent
    <3> QED
      BY <1>1, <1>2, <1>3, <1>5, <3>1 DEF Types
  <2>2. ChannelInv'
    BY <1>1, <1>5 DEF ChannelInv
  <2>3. \A u \in Threads : Whole(u) => Whole(u)'
    BY <1>1, <1>5 DEF Whole
  <2>4. ResultInv'
    <3>1. cpc # "split"
      BY ThreadSteps DEF ResultInv
    <3> QED
      BY <1>1, <1>5, <2>3, <3>1, RunningFacts DEF ResultInv
  <2>5. ReturnInv'
    BY <1>1, <1>5, RunningFacts DEF ReturnInv
  <2> QED
    BY <1>4, <2>1, <2>2, <2>4, <2>5
<1>6. ASSUME NEW u \in Threads, sub'[u] = sub[u]
      PROVE  Pending(u)' = Pending(u)
  BY <1>6 DEF Pending
<1>7. CASE Works(t)
  <2>1. Pending(t) = {}
    BY <1>7 DEF Works, ChannelInv
  <2>2. /\ sub' \in [Threads -> Seq(Report)] /\ Pending(t)' = {}
        /\ \A u \in Threads \ {t} : sub'[u] = sub[u]
    <3>1. CASE sub' = sub
      BY <2>1, <3>1, <1>6 DEF Types
    <3>2. ASSUME NEW n \in Nat, sub' = [sub EXCEPT ![t] = Append(@, Progress(n))]
          PROVE  /\ sub' \in [Threads -> Seq(Report)] /\ Pending(t)' = {}
                 /\ \A u \in Threads \ {t} : sub'[u] = sub[u]
      <4>1. Progress(n) \in Report /\ Progress(n).final = "none"
        BY DEF Progress, Report, Outcomes
      <4>2. sub[t] \in Seq(Report) /\ sub'[t] = Append(sub[t], Progress(n))
        BY <3>2 DEF Types
      <4>3. \A i \in 1..Len(sub'[t]) : i \in 1..Len(sub[t]) \/ i = Len(sub[t]) + 1
        BY <4>1, <4>2, SendFacts
      <4>4. \A i \in 1..Len(sub'[t]) : sub'[t][i].final = "none"
        BY <2>1, <4>1, <4>2, <4>3, SendFacts DEF Pending
      <4> QED
        BY <3>2, <4>1, <4>2, <4>4, SendFacts DEF Types, Pending
    <3> QED
      BY <1>7, <3>1, <3>2 DEF Works
  <2>3. \A u \in Threads \ {t} : Pending(u)' = Pending(u)
    BY <1>6, <2>2
  <2>4. \A u \in Threads : tpc[u] \in Over => u \in Threads \ {t}
    BY <1>7 DEF Works
  <2>5. \A u \in Threads : Pending(u)' # {} =>
          u \in Threads \ {t} /\ Pending(u)' = Pending(u) /\ tpc[u] \in Over /\ csd.final[u] = "none"
    BY <2>2, <2>3 DEF ChannelInv
  <2>6. \A u \in Threads : tpc[u] \in Over => tpc'[u] \in Over /\ it'[u] = it[u] /\ sub'[u] = sub[u]
    BY <1>2, <1>3, <2>2, <2>4
  <2>7. \A u \in Threads : \A i \in Pending(u)' :
          /\ i = Len(sub'[u])
          /\ sub'[u][i].final = "complete" => it'[u] = ItersOf(u) /\ sub'[u][i].done = it'[u]
    BY <1>1, <2>5, <2>6 DEF ChannelInv
  <2> QED
    BY <1>5, <2>2, <2>5, <2>6, <2>7
<1>8. CASE Ends(t)
  <2>1. tpc[t] \notin Over /\ tpc'[t] = "close" /\ it' = it
    BY <1>8 DEF Ends, Types
  <2>2. Pending(t) = {} /\ csd.final[t] = "none"
    BY <2>1 DEF ChannelInv, ResultInv
  <2>3. PICK m \in Report :
          /\ m.final # "none"
          /\ m.final = "complete" => it[t] = ItersOf(t) /\ m.done = it[t]
          /\ sub' = [sub EXCEPT ![t] = Append(@, m)]
    BY <1>8 DEF Ends
  <2>4. sub[t] \in Seq(Report) /\ sub'[t] = Append(sub[t], m)
    BY <2>3 DEF Types
  <2>5. sub' \in [Threads -> Seq(Report)] /\ \A u \in Threads \ {t} : sub'[u] = sub[u]
    BY <2>3, <2>4, SendFacts DEF Types
  <2>6. \A i \in Pending(t)' : i = Len(sub'[t]) /\ sub'[t][i] = m
    <3>1. \A i \in 1..Len(sub'[t]) : i \in 1..Len(sub[t]) \/ i = Len(sub[t]) + 1
      BY <2>4, SendFacts
    <3>2. \A i \in 1..Len(sub[t]) : sub'[t][i].final = "none"
      BY <2>2, <2>4, SendFacts DEF Pending
    <3> QED
      BY <2>4, <3>1, <3>2, SendFacts DEF Pending
  <2>7. \A u \in Threads \ {t} : Pending(u)' = Pending(u)
    BY <1>6, <2>5
  <2>8. \A u \in Threads : tpc[u] \in Over => tpc'[u] \in Over /\ it'[u] = it[u] /\ sub'[u] = sub[u]
    BY <1>2, <2>1, <2>5
  <2>9. \A u \in Threads : Pending(u)' # {} => tpc'[u] \in Over /\ csd.final[u] = "none"
    <3>1. tpc'[t] \in Over
      BY <2>1 DEF Over
    <3>2. \A u \in Threads \ {t} : Pending(u)' # {} => tpc[u] \in Over /\ csd.final[u] = "none"
      BY <2>7 DEF ChannelInv
    <3> QED
      BY <2>2, <2>8, <3>1, <3>2
  <2>10. \A u \in Threads : \A i \in Pending(u)' :
           /\ i = Len(sub'[u])
           /\ sub'[u][i].final = "complete" => it'[u] = ItersOf(u) /\ sub'[u][i].done = it'[u]
    <3>1. \A i \in Pending(t)' :
            /\ i = Len(sub'[t])
            /\ sub'[t][i].final = "complete" => it'[t] = ItersOf(t) /\ sub'[t][i].done = it'[t]
      BY <2>1, <2>3, <2>6
    <3>2. \A u \in Threads \ {t} : \A i \in Pending(u)' :
            /\ i = Len(sub'[u])
            /\ sub'[u][i].final = "complete" => it'[u] = ItersOf(u) /\ sub'[u][i].done = it'[u]
      BY <2>1, <2>5, <2>7 DEF ChannelInv
    <3> QED
      BY <3>1, <3>2
  <2> QED
    BY <1>5, <2>5, <2>8, <2>9, <2>10
<1>9. CASE Exits(t)
  <2>1. it' = it /\ sub' = sub /\ tpc[t] = "close" /\ tpc'[t] = "exited"
    BY <1>9 DEF Exits, Types
  <2>2. \A u \in Threads : Pending(u)' = Pending(u)
    BY <1>6, <2>1
  <2>3. \A u \in Threads : tpc[u] \in Over => tpc'[u] \in Over
    BY <1>2, <2>1 DEF Over
  <2>4. sub' \in [Threads -> Seq(Report)]
    BY <2>1 DEF Types
  <2>5. \A u \in Threads : Pending(u)' # {} => tpc'[u] \in Over /\ csd.final[u] = "none"
    BY <2>2, <2>3 DEF ChannelInv
  <2>6. \A u \in Threads : \A i \in Pending(u)' :
          /\ i = Len(sub'[u])
          /\ sub'[u][i].final = "complete" => it'[u] = ItersOf(u) /\ sub'[u][i].done = it'[u]
    BY <1>1, <2>1, <2>2 DEF ChannelInv
  <2> QED
    BY <1>5, <2>1, <2>3, <2>4, <2>5, <2>6
<1> QED
  BY <1>7, <1>8, <1>9, ThreadSteps

-----------------------------------------------------------------------------
(* The coordinator.                                                         *)

\* What a step that leaves the threads and their results alone has to show.
LEMMA ResultsKept ==
  ASSUME IInv, UNCHANGED <<total, tpc, it, sub, csd>>,
         cases' \subseteq Threads, abort' \in BOOLEAN, sent' \in Sent',
         cpc' \in {"split", "select", "sendProgress"} =>
           cpc \in {"split", "select", "sendProgress"},
         cpc' # "split",
         cpc' = "sendResult" \/ sent'.outcome = "complete" => \A t \in Running : Whole(t)
  PROVE  Types' /\ ChannelInv' /\ ResultInv'
<1>1. /\ \A t : Pending(t)' = Pending(t) /\ ItersOf(t)' = ItersOf(t)
      /\ Running' = Running
      /\ \A t : Whole(t)' <=> Whole(t)
  BY DEF Pending, ItersOf, Running, Splits, Whole
<1> QED
  BY <1>1 DEF IInv, Types, ChannelInv, ResultInv

\* What is sent is counted.
LEMMA SentFacts ==
  ASSUME sent \in Sent, NEW m, m.final \in Outcomes, SendOut(m)
  PROVE  /\ sent' \in Sent'
         /\ sent'.clash = sent.clash
         /\ sent'.finals = sent.finals + (IF m.final = "none" THEN 0 ELSE 1)
         /\ sent'.outcome = IF sent.outcome = "none" THEN m.final ELSE sent.outcome
<1>1. sent' = [sent EXCEPT
                 !.done    = IF m.final \in {"none", "complete"} THEN m.done ELSE @,
                 !.outcome = IF @ = "none" THEN m.final ELSE @,
                 !.finals  = @ + (IF m.final = "none" THEN 0 ELSE 1)]
  BY DEF SendOut
<1>2. sent.finals \in Nat /\ sent.clash \in BOOLEAN /\ sent.outcome \in Outcomes
  BY DEF Sent
<1>3. sent = [done |-> sent.done, outcome |-> sent.outcome, finals |-> sent.finals, clash |-> sent.clash]
  BY DEF Sent
<1>4. sent' = [done    |-> IF m.final \in {"none", "complete"} THEN m.done ELSE sent.done,
               outcome |-> IF sent.outcome = "none" THEN m.final ELSE sent.outcome,
               finals  |-> sent.finals + (IF m.final = "none" THEN 0 ELSE 1),
               clash   |-> sent.clash]
  BY <1>1, <1>3
<1> QED
  BY <1>2, <1>4 DEF Sent, Outcomes

\* A request without iterations fails, and the others start their threads.
LEMMA SplitInvariant ==
  ASSUME IInv, Split, UNCHANGED <<total, apc, reader>>
  PROVE  IInv'
<1> USE DEF IInv
<1>1. UNCHANGED <<total, it, sub, csd, hold, sent, abort>> /\ cpc = "split"
      /\ cpc' \in {"recover", "select"}
  BY DEF Split
<1>2. FinalsInv' /\ ReturnInv'
  BY <1>1 DEF FinalsInv, ReturnInv
<1>3. sent' \in Sent' /\ sent'.outcome # "complete"
  BY <1>1 DEF Types, Sent, FinalsInv
<1>4. CASE total = 0
  BY <1>1, <1>2, <1>3, <1>4, ResultsKept DEF Split, Types
<1>5. CASE total # 0
  <2>1. tpc' = [t \in Threads |-> IF t \in Running THEN "start" ELSE "unborn"] /\ cases' = Running
    BY <1>5 DEF Split
  <2>2. \A t \in Threads : Pending(t)' = Pending(t)
    BY <1>1 DEF Pending
  <2>3. \A t \in Threads : csd.final[t] = "none" /\ Pending(t) = {}
    BY <1>1 DEF ResultInv, ChannelInv, Over
  <2> QED
    BY <1>1, <1>2, <1>3, <2>1, <2>2, <2>3, RunningFacts DEF Types, ChannelInv, ResultInv
<1> QED
  BY <1>4, <1>5

\* A message is received: the channel moves up, and at most the slot of its thread changes.
LEMMA ReceiveSlots ==
  ASSUME IInv, NEW t \in Threads, sub[t] # <<>>,
         csd' = csd \/ UpdateProgress(t, Head(sub[t])),
         sub' = [sub EXCEPT ![t] = Tail(@)], UNCHANGED <<total, tpc, it>>
  PROVE  /\ csd.final[t] = "none"
         /\ sub' \in [Threads -> Seq(Report)]
         /\ csd' \in [done : [Threads -> Nat], final : [Threads -> Outcomes]]
         /\ csd'.final[t] \in {"none", Head(sub[t]).final}
         /\ \A u \in Threads \ {t} : /\ sub'[u] = sub[u] /\ csd'.final[u] = csd.final[u]
                                     /\ csd'.done[u] = csd.done[u]
         /\ ChannelInv'
         /\ csd'.final[t] # "none" => tpc[t] \in Over /\ sub'[t] = <<>>
         /\ csd'.final[t] = "complete" => Whole(t)'
<1> USE DEF IInv
<1> DEFINE m == Head(sub[t])
<1>1. sub[t] \in Seq(Report) /\ m \in Report /\ m = sub[t][1] /\ 1 \in 1..Len(sub[t])
  BY ReceiveFacts DEF Types
<1>2. csd.final[t] = "none"
  BY DEF ResultInv
<1>3. sub' \in [Threads -> Seq(Report)] /\ sub'[t] = Tail(sub[t])
      /\ \A u \in Threads \ {t} : sub'[u] = sub[u]
  BY <1>1, ReceiveFacts DEF Types
<1>4. /\ csd' \in [done : [Threads -> Nat], final : [Threads -> Outcomes]]
      /\ csd'.final[t] \in {"none", m.final}
      /\ csd'.final[t] # "none" => csd'.done[t] = m.done
      /\ \A u \in Threads \ {t} : csd'.final[u] = csd.final[u] /\ csd'.done[u] = csd.done[u]
  <2>1. CASE csd' = csd
    BY <1>2, <2>1 DEF Types
  <2>2. CASE UpdateProgress(t, m)
    <3>1. /\ csd = [done |-> csd.done, final |-> csd.final]
          /\ csd.done \in [Threads -> Nat] /\ csd.final \in [Threads -> Outcomes]
      BY DEF Types
    <3>2. csd' = [done  |-> [csd.done EXCEPT ![t] = m.done],
                  final |-> [csd.final EXCEPT ![t] = IF m.final = "none" THEN @ ELSE m.final]]
      BY <2>2, <3>1 DEF UpdateProgress
    <3>3. m.done \in Nat /\ m.final \in Outcomes
      BY <1>1 DEF Report
    <3> HIDE DEF m
    <3> QED
      BY <1>2, <3>1, <3>2, <3>3
  <2> QED
    BY <2>1, <2>2
<1>5. \A u : ItersOf(u)' = ItersOf(u)
  BY DEF ItersOf, Splits
<1>6. ASSUME m.final # "none"
      PROVE  /\ tpc[t] \in Over /\ Len(sub[t]) = 1 /\ sub'[t] = <<>>
             /\ m.final = "complete" => it[t] = ItersOf(t) /\ m.done = it[t]
  <2>1. 1 \in Pending(t)
    BY <1>1, <1>6 DEF Pending
  <2>2. Len(sub[t]) = 1
    BY <2>1 DEF ChannelInv
  <2>3. Len(Tail(sub[t])) = 0
    BY <1>1, <2>2, ReceiveFacts
  <2>4. Tail(sub[t]) = <<>>
    BY <1>1, <2>3, ReceiveFacts, EmptySeq
  <2> QED
    BY <1>1, <1>3, <2>1, <2>2, <2>4 DEF ChannelInv
<1>7. \A i \in Pending(t)' : /\ i \in Nat /\ i + 1 \in Pending(t) /\ sub'[t][i] = sub[t][i + 1]
                             /\ Len(sub'[t]) = Len(sub[t]) - 1 /\ Len(sub[t]) \in Nat
  BY <1>1, <1>3, ReceiveFacts DEF Pending
<1>8. Pending(t)' # {} => csd'.final[t] = "none"
  <2> SUFFICES ASSUME NEW i \in Pending(t)', m.final # "none" PROVE FALSE
    BY <1>1, <1>4 DEF Report
  <2>1. sub'[t] = <<>> /\ i \in 1..Len(sub'[t])
    BY <1>6 DEF Pending
  <2> QED
    BY <2>1, EmptySeq
<1>9. \A i \in Pending(t)' :
        /\ tpc[t] \in Over /\ i = Len(sub'[t])
        /\ sub'[t][i].final = "complete" => it[t] = ItersOf(t) /\ sub'[t][i].done = it[t]
  <2> SUFFICES ASSUME NEW i \in Pending(t)'
               PROVE  /\ tpc[t] \in Over /\ i = Len(sub'[t])
                      /\ sub'[t][i].final = "complete" =>
                           it[t] = ItersOf(t) /\ sub'[t][i].done = it[t]
    OBVIOUS
  <2>1. /\ i \in Nat /\ i + 1 \in Pending(t) /\ sub'[t][i] = sub[t][i + 1]
        /\ Len(sub'[t]) = Len(sub[t]) - 1 /\ Len(sub[t]) \in Nat
    BY <1>7
  <2>2. /\ tpc[t] \in Over /\ i + 1 = Len(sub[t])
        /\ sub[t][i + 1].final = "complete" => it[t] = ItersOf(t) /\ sub[t][i + 1].done = it[t]
    BY <2>1 DEF ChannelInv
  <2>3. i = Len(sub'[t])
    <3> DEFINE n == Len(sub[t])
               k == Len(sub'[t])
    <3>1. i \in Nat /\ n \in Nat /\ k = n - 1 /\ i + 1 = n
      BY <2>2, <2>1
    <3> HIDE DEF n, k
    <3>2. i = k
      BY <3>1
    <3> QED
      BY <3>2 DEF k
  <2> QED
    BY <2>1, <2>2, <2>3
<1>10. \A u \in Threads \ {t} : Pending(u)' = Pending(u)
  BY <1>3 DEF Pending
<1>11. ChannelInv'
  <2>1. ASSUME NEW u \in Threads
        PROVE  /\ Pending(u)' # {} => tpc'[u] \in Over /\ csd'.final[u] = "none"
               /\ \A i \in Pending(u)' :
                    /\ i = Len(sub'[u])
                    /\ sub'[u][i].final = "complete" =>
                         it'[u] = ItersOf(u)' /\ sub'[u][i].done = it'[u]
    <3>1. CASE u = t
      BY <1>5, <1>8, <1>9, <3>1
    <3>2. CASE u # t
      <4>1. /\ Pending(u)' = Pending(u) /\ sub'[u] = sub[u] /\ csd'.final[u] = csd.final[u]
            /\ tpc' = tpc /\ it' = it /\ ItersOf(u)' = ItersOf(u)
        BY <1>3, <1>4, <1>5, <1>10, <3>2
      <4>2. /\ Pending(u) # {} => tpc[u] \in Over /\ csd.final[u] = "none"
            /\ \A i \in Pending(u) :
                 /\ i = Len(sub[u])
                 /\ sub[u][i].final = "complete" => it[u] = ItersOf(u) /\ sub[u][i].done = it[u]
        BY DEF ChannelInv
      <4> QED
        BY <4>1, <4>2
    <3> QED
      BY <3>1, <3>2
  <2> QED
    BY <2>1 DEF ChannelInv
<1> QED
  BY <1>2, <1>3, <1>4, <1>5, <1>6, <1>11 DEF Whole

\* A message is received, or found too late.
LEMMA ReceiveInvariant ==
  ASSUME IInv, NEW t \in Threads, Receive(t), UNCHANGED <<total, apc, reader>>
  PROVE  IInv'
<1> USE DEF IInv
<1>1. /\ UNCHANGED <<total, tpc, it, sent, abort>> /\ cpc = "select" /\ sub[t] # <<>>
      /\ sub' = [sub EXCEPT ![t] = Tail(@)] /\ cases' \subseteq Threads
  BY DEF Receive, threadVars, Types
<1>2. sent' \in Sent' /\ sent'.outcome # "complete"
  BY <1>1 DEF Types, Sent, FinalsInv
<1>5. ASSUME csd' = csd \/ UpdateProgress(t, Head(sub[t])),
             \/ cpc' = "sendAborted" /\ hold'.final = "aborted" /\ abort
             \/ cpc' = "sendError" /\ hold'.final \in {"error", "aborted"}
             \/ /\ \/ cpc' = "select"
                   \/ cpc' = "sendProgress" /\ hold'.final = "none"
                /\ Head(sub[t]).final \in {"none", "complete"}
      PROVE  IInv'
  <2>1. /\ csd.final[t] = "none"
        /\ sub' \in [Threads -> Seq(Report)]
        /\ csd' \in [done : [Threads -> Nat], final : [Threads -> Outcomes]]
        /\ csd'.final[t] \in {"none", Head(sub[t]).final}
        /\ \A u \in Threads \ {t} : /\ sub'[u] = sub[u] /\ csd'.final[u] = csd.final[u]
                                    /\ csd'.done[u] = csd.done[u]
        /\ ChannelInv'
        /\ csd'.final[t] # "none" => tpc[t] \in Over /\ sub'[t] = <<>>
        /\ csd'.final[t] = "complete" => Whole(t)'
    BY <1>1, <1>5, ReceiveSlots
  <2>2. Types'
    BY <1>1, <1>2, <2>1 DEF Types
  <2>3. \A u \in Threads : csd'.final[u] # "none" => tpc'[u] \in Over /\ sub'[u] = <<>>
    BY <1>1, <2>1 DEF ResultInv
  <2>4. \A u \in Threads : csd'.final[u] = "complete" => Whole(u)'
    <3>1. \A u \in Threads \ {t} : Whole(u) => Whole(u)'
      BY <1>1, <2>1 DEF Whole, ItersOf, Splits
    <3> QED
      BY <2>1, <3>1 DEF ResultInv
  <2>5. ResultInv'
    BY <1>1, <1>2, <1>5, <2>1, <2>3, <2>4 DEF ResultInv
  <2>6. FinalsInv' /\ ReturnInv'
    BY <1>1, <1>5 DEF FinalsInv, ReturnInv
  <2> QED
    BY <2>1, <2>2, <2>5, <2>6
<1>3. CASE abort
  <2>1. UNCHANGED csd /\ cpc' = "sendAborted" /\ hold' = Final(0, "aborted")
    BY <1>3 DEF Receive
  <2>2. hold'.final = "aborted"
    BY <2>1 DEF Final
  <2> QED
    BY <1>1, <1>3, <1>5, <2>1, <2>2
<1>4. CASE ~abort
  <2>1. UpdateProgress(t, Head(sub[t]))
    BY <1>4 DEF Receive
  <2>2. /\ \/ cpc' = "select"
           \/ cpc' = "sendProgress" /\ hold'.final = "none"
           \/ cpc' = "sendError" /\ hold'.final \in {"error", "aborted"}
        /\ cpc' # "sendError" => Head(sub[t]).final \in {"none", "complete"}
    <3> DEFINE m == Head(sub[t])
               c == counter'
    <3>1. m.final \in Outcomes
      BY <1>1, ReceiveFacts DEF Types, Report
    <3>2. Progress(IterationsDone').final = "none"
      BY DEF Progress
    <3>3. \/ Failed(m) /\ hold' = m /\ cpc' = "sendError"
          \/ ~Failed(m) /\ m.final # "none" /\ UNCHANGED cpc
          \/ /\ m.final = "none"
             /\ IF c = 0 THEN hold' = Progress(IterationsDone') /\ cpc' = "sendProgress"
                         ELSE UNCHANGED <<hold, cpc>>
      BY <1>4, Zenon DEF Receive
    <3> HIDE DEF m, c
    <3>4. /\ \/ cpc' = "select"
             \/ cpc' = "sendProgress" /\ hold'.final = "none"
             \/ cpc' = "sendError" /\ hold'.final \in {"error", "aborted"}
          /\ cpc' # "sendError" => m.final \in {"none", "complete"}
      BY <1>1, <3>1, <3>2, <3>3 DEF Failed, Outcomes
    <3> QED
      BY <3>4 DEF m
  <2> QED
    BY <1>5, <2>1, <2>2
<1> QED
  BY <1>3, <1>4

\* A channel that is found closed.
LEMMA ReceiveClosedInvariant ==
  ASSUME IInv, NEW t \in Threads, ReceiveClosed(t), UNCHANGED <<total, apc, reader>>
  PROVE  IInv'
<1> USE DEF IInv
<1>1. /\ UNCHANGED <<total, tpc, it, sub, csd, sent, abort>> /\ cpc = "select"
      /\ cases' \subseteq Threads
      /\ \/ cpc' = "sendAborted" /\ hold'.final = "aborted" /\ abort
         \/ cpc' = "select" /\ hold' = hold
  BY DEF ReceiveClosed, threadVars, Types, Final
<1>2. sent' \in Sent' /\ sent'.outcome # "complete"
  BY <1>1 DEF Types, Sent, FinalsInv
<1>3. FinalsInv' /\ ReturnInv'
  BY <1>1 DEF FinalsInv, ReturnInv
<1> QED
  BY <1>1, <1>2, <1>3, ResultsKept DEF Types

\* The results are combined when every part is there.
LEMMA CombineInvariant ==
  ASSUME IInv, Combine, UNCHANGED <<total, apc, reader>>
  PROVE  IInv'
<1> USE DEF IInv
<1>1. /\ UNCHANGED <<total, tpc, it, sub, cases, csd, sent, abort>> /\ cpc = "select"
      /\ \/ cpc' = "recover" /\ hold' = hold
         \/ /\ cpc' = "sendResult" /\ hold' = Combined
            /\ \A t \in Running : csd.final[t] # "none"
  BY DEF Combine, threadVars
<1>2. sent' \in Sent' /\ sent'.outcome # "complete"
  BY <1>1 DEF Types, Sent, FinalsInv
<1>3. cpc' = "sendResult" => \A t \in Running : Whole(t)
  BY <1>1, RunningFacts DEF ResultInv
<1>4. Combined.final = "complete"
  BY DEF Combined, Final
<1>5. FinalsInv' /\ ReturnInv'
  BY <1>1, <1>4 DEF FinalsInv, ReturnInv
<1> QED
  BY <1>1, <1>2, <1>3, <1>5, ResultsKept DEF Types

\* What is held is sent to the reader.
LEMMA DeliverInvariant ==
  ASSUME IInv, Deliver, UNCHANGED <<total, apc, reader>>
  PROVE  IInv'
<1> USE DEF IInv
<1>1. /\ UNCHANGED <<total, tpc, it, sub, cases, csd, hold, abort>> /\ SendOut(hold)
      /\ \/ cpc = "sendProgress" /\ cpc' = "select"
         \/ cpc \in {"sendAborted", "sendResult"} /\ cpc' = "close"
         \/ cpc = "sendError" /\ cpc' = "trigger"
  BY DEF Deliver, threadVars
<1>2. /\ hold.final \in Outcomes
      /\ sent.finals = 0 /\ ~sent.clash /\ sent.outcome = "none"
  BY <1>1 DEF FinalsInv, Outcomes
<1>3. /\ sent' \in Sent' /\ sent'.clash = sent.clash
      /\ sent'.finals = IF hold.final = "none" THEN 0 ELSE 1
      /\ sent'.outcome = hold.final
  BY <1>1, <1>2, SentFacts DEF Types
<1>4. FinalsInv'
  BY <1>1, <1>2, <1>3 DEF FinalsInv
<1>5. cpc = "sendResult" => \A t \in Running : Whole(t)
  BY DEF ResultInv
<1>6. ReturnInv'
  BY <1>1, <1>5 DEF ReturnInv, Whole, Running, Splits
<1>7. sent'.outcome = "complete" => cpc = "sendResult"
  BY <1>1, <1>3 DEF FinalsInv
<1> QED
  BY <1>1, <1>3, <1>4, <1>5, <1>6, <1>7, ResultsKept DEF Types

\* The ways to an early return trigger the signal, and a clash of two triggers is
\* recovered with a second final message.
LEMMA ReturnInvariant ==
  ASSUME IInv, UNCHANGED <<total, apc, reader>>,
         TriggerSelect \/ TriggerClose \/ Recover \/ RecoverTrigger \/ CloseOut
  PROVE  IInv'
<1> USE DEF IInv
<1>1. /\ UNCHANGED <<total, tpc, it, sub, cases, csd, hold>> /\ cpc' # "split"
      /\ cpc' \notin {"select", "sendProgress", "sendResult", "sendAborted", "sendError"}
  BY DEF TriggerSelect, TriggerClose, Recover, RecoverTrigger, CloseOut, threadVars
<1>2. sent \in Sent
  BY DEF Types
<1>3. /\ sent' \in Sent' /\ abort' \in BOOLEAN /\ FinalsInv' /\ ReturnInv'
      /\ sent'.outcome = "complete" => sent.outcome = "complete"
  <2>1. CASE TriggerSelect
    BY <1>1, <1>2, <2>1 DEF TriggerSelect, FinalsInv, ReturnInv, Types, Sent
  <2>2. CASE TriggerClose
    <3>1. /\ sent' \in Sent' /\ sent'.clash = abort /\ sent'.finals = sent.finals
          /\ sent'.outcome = sent.outcome
      BY <1>2, <2>2 DEF TriggerClose, Types, Sent
    <3> QED
      BY <1>1, <2>2, <3>1 DEF TriggerClose, FinalsInv, ReturnInv
  <2>3. CASE Recover
    <3>1. Final(0, "error").final = "error"
      BY DEF Final
    <3>2. /\ sent' \in Sent' /\ sent'.clash = sent.clash /\ sent'.finals = sent.finals + 1
          /\ sent'.outcome = IF sent.outcome = "none" THEN "error" ELSE sent.outcome
      BY <1>2, <2>3, <3>1, SentFacts DEF Recover, Outcomes
    <3> QED
      BY <1>1, <1>2, <2>3, <3>2 DEF Recover, FinalsInv, ReturnInv, Types, Sent
  <2>4. CASE RecoverTrigger
    BY <1>1, <1>2, <2>4 DEF RecoverTrigger, FinalsInv, ReturnInv, Types, Sent
  <2>5. CASE CloseOut
    BY <1>1, <1>2, <2>5 DEF CloseOut, FinalsInv, ReturnInv, Types, Sent, Running, Splits
  <2> QED
    BY <2>1, <2>2, <2>3, <2>4, <2>5
<1>4. sent'.outcome = "complete" => \A t \in Running : Whole(t)
  BY <1>3 DEF ResultInv
<1> QED
  BY <1>1, <1>3, <1>4, ResultsKept DEF Types

-----------------------------------------------------------------------------
\* Aborters and the reader change neither threads nor results.
LEMMA EnvironmentInvariant ==
  ASSUME IInv, \/ \E a \in Aborters : AborterStep(a)
               \/ ReaderStep
               \/ UNCHANGED vars
  PROVE  IInv'
<1> USE DEF IInv
<1>1. /\ UNCHANGED <<total, tpc, it, sub, cpc, cases, csd, hold, sent>>
      /\ abort' \in BOOLEAN /\ (abort => abort')
  BY DEF AborterStep, AbortSelect, AbortClose, ReaderStep, vars, threadVars, coordVars, Types
<1>2. /\ \A t : Pending(t)' = Pending(t) /\ ItersOf(t)' = ItersOf(t) /\ (Whole(t)' <=> Whole(t))
      /\ Running' = Running /\ sent' \in Sent'
  BY <1>1 DEF Pending, ItersOf, Running, Splits, Whole, Types, Sent
<1>3. Types' /\ ChannelInv' /\ ResultInv'
  BY <1>1, <1>2 DEF Types, ChannelInv, ResultInv
<1>4. FinalsInv' /\ ReturnInv'
  BY <1>1, <1>2 DEF FinalsInv, ReturnInv
<1> QED
  BY <1>3, <1>4

\* Before the split nothing was sent.
LEMMA InitInvariant == Init => IInv
<1> SUFFICES ASSUME Init PROVE IInv
  OBVIOUS
<1>1. Types
  <2>1. total \in Nat
    BY ConcurrentSimAssumption DEF Init
  <2>2. sent \in Sent /\ csd \in [done : [Threads -> Nat], final : [Threads -> Outcomes]]
    BY DEF Init, Sent, Outcomes
  <2>3. sub \in [Threads -> Seq(Report)]
    BY EmptySeq DEF Init
  <2> QED
    BY <2>1, <2>2, <2>3 DEF Init, Types
<1>2. \A t \in Threads : Pending(t) = {}
  BY DEF Init, Pending
<1>3. ChannelInv /\ ResultInv
  BY <1>2 DEF Init, ChannelInv, ResultInv
<1>4. FinalsInv /\ ReturnInv
  BY DEF Init, FinalsInv, ReturnInv
<1> QED
  BY <1>1, <1>3, <1>4 DEF IInv

\* Every step keeps the invariant.
LEMMA Preserved == IInv /\ [Next]_vars => IInv'
BY ThreadInvariant, SplitInvariant, ReceiveInvariant, ReceiveClosedInvariant,
   CombineInvariant, DeliverInvariant, ReturnInvariant, EnvironmentInvariant
   DEF Next, CoordinatorStep

\* The invariant holds always.
LEMMA Inductive == Spec => []IInv
BY InitInvariant, Preserved, PTL DEF Spec

\* However threads finish, fail and are aborted: the reader gets one final message, and a
\* second one only after a clash of two triggers; a complete result is combined from
\* complete results of all parts.
THEOREM FinalMessageSound == Spec => []FinalSound
<1>1. IInv => SingleFinal
  BY DEF IInv, FinalsInv, SingleFinal, Types, Sent
<1>2. IInv => CompleteMeansAll
  BY DEF IInv, ResultInv, Whole, Over, CompleteMeansAll
<1> QED
  BY <1>1, <1>2, Inductive, PTL DEF FinalSound

\* When runSimConcurrent has returned, every thread has ended or finds the signal
\* triggered.
THEOREM NobodyWorksOn == Spec => []NoOrphanWork
<1>1. IInv => NoOrphanWork
  BY DEF IInv, ReturnInv, Over, NoOrphanWork
<1> QED
  BY <1>1, Inductive, PTL


-----------------------------------------------------------------------------
(* The sum over the threads.                                                *)

\* What holds at 0 and is passed on by every number below n holds up to n.
LEMMA CountUp ==
  ASSUME NEW n \in Nat, NEW S, 0 \in S, \A i \in 1..n : i - 1 \in S => i \in S
  PROVE  \A i \in 0..n : i \in S
<1> DEFINE B == {i \in 0..n : i \notin S}
<1> SUFFICES ASSUME B # {} PROVE FALSE
  OBVIOUS
<1>1. IsWellFoundedOn(OpToRel(<, Nat), Nat)
  BY NatLessThanWellFounded
<1>6. B \subseteq Nat
  OBVIOUS
<1>2. PICK m \in B : \A k \in B : ~ (<<k, m>> \in OpToRel(<, Nat))
  <2> HIDE DEF B
  <2> QED
    BY <1>1, <1>6, WFMin
<1>3. m \in 0..n /\ m \notin S /\ m # 0
  OBVIOUS
<1>4. m - 1 \in 0..n /\ m \in 1..n /\ m - 1 < m /\ m \in Nat /\ m - 1 \in Nat
  BY <1>3
<1>5. m - 1 \notin B
  <2>1. <<m - 1, m>> \in OpToRel(<, Nat)
    BY <1>4 DEF OpToRel
  <2> QED
    BY <1>2, <2>1
<1> QED
  BY <1>3, <1>4, <1>5

\* There is such a function.
LEMMA SumFacts ==
  ASSUME NEW f \in [Threads -> Nat]
  PROVE  /\ SumTo(f) \in [0..NumCPU -> Nat] /\ SumTo(f)[0] = 0
         /\ \A n \in 1..NumCPU : SumTo(f)[n] = SumTo(f)[n - 1] + f[n]
<1> DEFINE next(s, n) == IF n = 0 THEN 0 ELSE s[n - 1] + f[n]
           adds(s, m) == \A n \in 0..m : s[n] = next(s, n)
           S == {m \in Nat : \E s \in [0..NumCPU -> Nat] : adds(s, m)}
<1>0. NumCPU \in Nat /\ NumCPU > 0 /\ \A n \in 1..NumCPU : f[n] \in Nat
  BY ConcurrentSimAssumption DEF Threads
<1>1. 0 \in S
  <2>1. [n \in 0..NumCPU |-> 0] \in [0..NumCPU -> Nat]
    OBVIOUS
  <2>2. adds([n \in 0..NumCPU |-> 0], 0)
    BY <1>0
  <2> QED
    BY <2>1, <2>2
<1>2. ASSUME NEW m \in 1..NumCPU, m - 1 \in S PROVE m \in S
  <2>1. PICK s \in [0..NumCPU -> Nat] : adds(s, m - 1)
    BY <1>2
  <2>2. m \in 0..NumCPU /\ m - 1 \in 0..NumCPU /\ m \in Nat /\ m # 0 /\ f[m] \in Nat
    BY <1>0
  <2> DEFINE r == [s EXCEPT ![m] = s[m - 1] + f[m]]
  <2>3. r \in [0..NumCPU -> Nat] /\ r[m] = s[m - 1] + f[m]
    BY <2>2
  <2>4. \A n \in 0..NumCPU : n # m => r[n] = s[n]
    OBVIOUS
  <2>5. adds(r, m)
    <3> SUFFICES ASSUME NEW n \in 0..m PROVE r[n] = next(r, n)
      OBVIOUS
    <3> HIDE DEF r
    <3>1. CASE n = m
      BY <2>2, <2>3, <2>4, <3>1
    <3>2. CASE n # m
      <4>1. n \in 0..(m - 1) /\ n \in 0..NumCPU /\ (n # 0 => n - 1 \in 0..NumCPU /\ n - 1 # m)
        BY <1>0, <2>2, <3>2
      <4> QED
        BY <2>1, <2>4, <3>2, <4>1
    <3> QED
      BY <3>1, <3>2
  <2> QED
    BY <2>2, <2>3, <2>5
<1>3. NumCPU \in S
  <2> HIDE DEF S
  <2>1. \A i \in 0..NumCPU : i \in S
    BY <1>0, <1>1, <1>2, CountUp
  <2> QED
    BY <1>0, <2>1
<1>4. PICK s \in [0..NumCPU -> Nat] : adds(s, NumCPU)
  BY <1>3
<1>5. s = [n \in 0..NumCPU |-> next(s, n)]
  BY <1>4
<1>6. SumTo(f) = CHOOSE t : t = [n \in 0..NumCPU |-> next(t, n)]
  BY DEF SumTo
<1>7. SumTo(f) = [n \in 0..NumCPU |-> next(SumTo(f), n)]
  <2> HIDE DEF next
  <2> QED
    BY <1>5, <1>6
<1> DEFINE t == SumTo(f)
<1>8. \A n \in 0..NumCPU : t[n] = IF n = 0 THEN 0 ELSE t[n - 1] + f[n]
  BY <1>7
<1>9. DOMAIN t = 0..NumCPU
  BY <1>7
<1> HIDE DEF t
<1>10. \A n \in 0..NumCPU : t[n] \in Nat
  <2> DEFINE T == {n \in Nat : t[n] \in Nat}
  <2>1. 0 \in T
    BY <1>0, <1>8
  <2>2. ASSUME NEW n \in 1..NumCPU, n - 1 \in T PROVE n \in T
    <3>1. n \in 0..NumCPU /\ n # 0 /\ n \in Nat /\ f[n] \in Nat
      BY <1>0
    <3>2. t[n - 1] \in Nat
      BY <2>2
    <3>3. t[n] = t[n - 1] + f[n]
      BY <1>8, <3>1
    <3>4. t[n] \in Nat
      BY <3>1, <3>2, <3>3
    <3> QED
      BY <3>1, <3>4
  <2> HIDE DEF T
  <2>3. \A n \in 0..NumCPU : n \in T
    BY <1>0, <2>1, <2>2, CountUp
  <2> QED
    BY <2>3 DEF T
<1>11. t = [n \in 0..NumCPU |-> t[n]]
  BY <1>7 DEF t
<1>12. t \in [0..NumCPU -> Nat]
  BY <1>10, <1>11
<1>13. t[0] = 0 /\ \A n \in 1..NumCPU : t[n] = t[n - 1] + f[n]
  BY <1>0, <1>8
<1> QED
  BY <1>12, <1>13 DEF t

\* The sum grows with its parts.
LEMMA SumGrows ==
  ASSUME NEW f \in [Threads -> Nat], NEW g \in [Threads -> Nat], \A t \in Threads : f[t] <= g[t]
  PROVE  SumTo(f)[NumCPU] <= SumTo(g)[NumCPU]
<1> DEFINE a == SumTo(f)
           b == SumTo(g)
           S == {n \in Nat : a[n] <= b[n]}
<1>0. NumCPU \in Nat /\ \A n \in 1..NumCPU : f[n] \in Nat /\ g[n] \in Nat /\ f[n] <= g[n]
  BY ConcurrentSimAssumption DEF Threads
<1>1. /\ a \in [0..NumCPU -> Nat] /\ a[0] = 0 /\ \A n \in 1..NumCPU : a[n] = a[n - 1] + f[n]
      /\ b \in [0..NumCPU -> Nat] /\ b[0] = 0 /\ \A n \in 1..NumCPU : b[n] = b[n - 1] + g[n]
  BY SumFacts
<1> HIDE DEF a, b
<1>2. 0 \in S
  BY <1>1
<1>3. ASSUME NEW n \in 1..NumCPU, n - 1 \in S PROVE n \in S
  <2>1. n \in Nat /\ n - 1 \in 0..NumCPU /\ n \in 0..NumCPU
    BY <1>0
  <2>2. a[n - 1] \in Nat /\ b[n - 1] \in Nat /\ a[n - 1] <= b[n - 1]
    BY <1>1, <1>3, <2>1
  <2>3. /\ a[n] = a[n - 1] + f[n] /\ b[n] = b[n - 1] + g[n]
        /\ f[n] \in Nat /\ g[n] \in Nat /\ f[n] <= g[n]
    BY <1>0, <1>1
  <2>4. a[n] <= b[n]
    BY <2>2, <2>3
  <2> QED
    BY <2>1, <2>4
<1>4. \A n \in 0..NumCPU : n \in S
  <2> HIDE DEF S
  <2> QED
    BY <1>0, <1>2, <1>3, CountUp
<1> QED
  BY <1>0, <1>4 DEF a, b

\* What the threads are asked to do: their parts add up to the request.
Share(t) == IF t \in Running THEN ItersOf(t) ELSE 0
Shares == [t \in Threads |-> Share(t)]

LEMMA ShareFacts ==
  ASSUME total \in Nat
  PROVE  /\ Splits \in Nat /\ Splits <= NumCPU /\ NumCPU \in Nat \ {0}
         /\ total > 0 => Splits > 0
         /\ \A t \in Threads : Share(t) \in Nat
         /\ \A t \in Running : t \in Threads /\ total > 0 /\ ItersOf(t) \in Nat /\ ItersOf(t) > 0
<1>1. /\ Splits \in Nat /\ Splits <= NumCPU /\ NumCPU \in Nat \ {0}
      /\ total > 0 => Splits > 0
      /\ Splits <= total
  BY ConcurrentSimAssumption DEF Splits
<1>2. ASSUME NEW t \in Running
      PROVE  t \in Threads /\ total > 0 /\ ItersOf(t) \in Nat /\ ItersOf(t) > 0
  <2>1. t \in Threads /\ total > 0 /\ Splits > 0
    BY <1>1 DEF Running, Threads
  <2>2. total \div Splits \in Nat /\ total \div Splits > 0 /\ total % Splits \in Nat
    BY <1>1, <2>1
  <2> QED
    BY <2>1, <2>2 DEF ItersOf
<1> QED
  BY <1>1, <1>2 DEF Share

LEMMA SharesAddUp ==
  ASSUME total \in Nat, total > 0
  PROVE  Shares \in [Threads -> Nat] /\ SumTo(Shares)[NumCPU] = total
<1> DEFINE q == total \div Splits
           r == total % Splits
           a == SumTo(Shares)
           S == {n \in Nat : a[n] = IF n = 0 THEN 0 ELSE IF n <= Splits THEN n * q + r ELSE total}
<1>1. /\ Splits \in Nat /\ Splits <= NumCPU /\ NumCPU \in Nat \ {0} /\ Splits > 0
      /\ Shares \in [Threads -> Nat]
  BY ShareFacts DEF Shares
<1>2. q \in Nat /\ r \in Nat /\ total = Splits * q + r
  BY <1>1
<1>3. \A n \in 1..NumCPU : Shares[n] = IF n <= Splits THEN q + (IF n = 1 THEN r ELSE 0) ELSE 0
  BY <1>1 DEF Shares, Share, Running, ItersOf, Threads
<1> HIDE DEF q, r
<1>4. /\ a \in [0..NumCPU -> Nat] /\ a[0] = 0
      /\ \A n \in 1..NumCPU : a[n] = a[n - 1] + Shares[n]
  BY <1>1, SumFacts
<1> HIDE DEF a
<1>5. 0 \in S
  BY <1>4
<1>6. ASSUME NEW n \in 1..NumCPU, n - 1 \in S PROVE n \in S
  <2>1. n \in Nat /\ n - 1 \in Nat /\ n # 0
    BY <1>1
  <2>2. a[n] = a[n - 1] + Shares[n]
    BY <1>4
  <2>3. a[n - 1] = IF n - 1 = 0 THEN 0 ELSE IF n - 1 <= Splits THEN (n - 1) * q + r ELSE total
    BY <1>6
  <2>4. CASE n = 1
    BY <1>1, <1>2, <1>3, <2>2, <2>3, <2>4
  <2>5. CASE n > 1 /\ n <= Splits
    <3>1. (n - 1) * q + q = n * q /\ n * q \in Nat /\ (n - 1) * q \in Nat
      BY <1>2, <2>1
    <3> QED
      BY <1>1, <1>2, <1>3, <2>1, <2>2, <2>3, <2>5, <3>1
  <2>6. CASE n > Splits
    BY <1>1, <1>2, <1>3, <2>1, <2>2, <2>3, <2>6
  <2> QED
    BY <1>1, <2>1, <2>4, <2>5, <2>6
<1>7. \A n \in 0..NumCPU : n \in S
  <2> HIDE DEF S
  <2> QED
    BY <1>1, <1>5, <1>6, CountUp
<1>8. a[NumCPU] = total
  BY <1>1, <1>2, <1>7
<1> QED
  BY <1>1, <1>8 DEF a

-----------------------------------------------------------------------------
(* What the threads report.                                                 *)

Counting(m) == m.final \in {"none", "complete"}

\* The counts in a channel ascend, from the last one received to the last iteration.
Ordered(s, lo, hi) ==
  /\ lo <= hi
  /\ \A i \in 1..Len(s) : s[i].done <= hi /\ (Counting(s[i]) => lo <= s[i].done)
  /\ \A i, j \in 1..Len(s) : i < j /\ Counting(s[i]) /\ Counting(s[j]) => s[i].done <= s[j].done

LEMMA OrderedSend ==
  ASSUME NEW s \in Seq(Report), NEW lo \in Nat, NEW hi \in Nat, NEW top \in Nat,
         NEW m \in Report, Ordered(s, lo, hi), hi <= top, m.done <= hi, Counting(m) => m.done = hi
  PROVE  Ordered(Append(s, m), lo, top)
<1> DEFINE r == Append(s, m)
           n == Len(s)
<1>1. /\ n \in Nat /\ Len(r) = n + 1 /\ r[n + 1] = m
      /\ \A i \in 1..n : r[i] = s[i]
  BY SendFacts
<1>2. m.done \in Nat /\ \A i \in 1..n : s[i].done \in Nat
  <2>1. \A i \in 1..n : s[i] \in Report
    BY ElementOfSeq
  <2> QED
    BY <2>1 DEF Report
<1> HIDE DEF r, n
<1>3. \A i \in 1..Len(r) : i \in 1..n \/ i = n + 1
  BY <1>1
<1>4. lo <= hi /\ \A i \in 1..n : s[i].done <= hi /\ (Counting(s[i]) => lo <= s[i].done)
  BY DEF Ordered, n
<1>5. \A i, j \in 1..n : i < j /\ Counting(s[i]) /\ Counting(s[j]) => s[i].done <= s[j].done
  BY DEF Ordered, n
<1>6. lo <= top
  BY <1>4
<1>7. ASSUME NEW i \in 1..Len(r) PROVE r[i].done <= top /\ (Counting(r[i]) => lo <= r[i].done)
  <2>1. CASE i \in 1..n
    <3>1. r[i] = s[i] /\ s[i].done \in Nat /\ s[i].done <= hi /\ (Counting(s[i]) => lo <= s[i].done)
      BY <1>1, <1>2, <1>4, <2>1
    <3> QED
      BY <3>1
  <2>2. CASE i = n + 1
    <3>1. r[i] = m
      BY <1>1, <2>2
    <3> QED
      BY <1>2, <1>4, <3>1
  <2> QED
    BY <1>3, <2>1, <2>2
<1>8. ASSUME NEW i \in 1..Len(r), NEW j \in 1..Len(r), i < j, Counting(r[i]), Counting(r[j])
      PROVE  r[i].done <= r[j].done
  <2>1. i \in 1..n /\ r[i] = s[i]
    BY <1>1, <1>8
  <2>2. CASE j \in 1..n
    <3>1. r[j] = s[j]
      BY <1>1, <2>2
    <3> QED
      BY <1>5, <1>8, <2>1, <2>2, <3>1
  <2>3. CASE j = n + 1
    <3>1. r[j] = m
      BY <1>1, <2>3
    <3> QED
      BY <1>4, <1>8, <2>1, <3>1
  <2> QED
    BY <1>3, <2>2, <2>3
<1> QED
  BY <1>6, <1>7, <1>8 DEF Ordered, r

LEMMA OrderedReceive ==
  ASSUME NEW s \in Seq(Report), s # <<>>, NEW lo \in Nat, NEW hi \in Nat, Ordered(s, lo, hi)
  PROVE  /\ Head(s).done \in Nat /\ Head(s).done <= hi
         /\ Counting(Head(s)) => lo <= Head(s).done
         /\ Ordered(Tail(s), lo, hi)
         /\ Counting(Head(s)) \/ Tail(s) = <<>> => Ordered(Tail(s), Head(s).done, hi)
<1> DEFINE r == Tail(s)
           m == Head(s)
           n == Len(s)
<1>1. /\ m \in Report /\ m = s[1] /\ 1 \in 1..n /\ n \in Nat
      /\ r \in Seq(Report) /\ Len(r) = n - 1
      /\ \A i \in 1..Len(r) : r[i] = s[i + 1] /\ i + 1 \in 1..n
  BY ReceiveFacts
<1>2. m.done \in Nat
  BY <1>1 DEF Report
<1>3. lo <= hi /\ \A i \in 1..n : s[i].done <= hi /\ (Counting(s[i]) => lo <= s[i].done)
  BY DEF Ordered
<1>4. \A i, j \in 1..n : i < j /\ Counting(s[i]) /\ Counting(s[j]) => s[i].done <= s[j].done
  BY DEF Ordered
<1>e. r = <<>> => Len(r) = 0
  BY <1>1, EmptySeq
<1> HIDE DEF r, m, n
<1>5. m.done <= hi /\ (Counting(m) => lo <= m.done)
  BY <1>1, <1>3
<1>6. \A i \in 1..Len(r) : r[i].done <= hi /\ (Counting(r[i]) => lo <= r[i].done)
  BY <1>1, <1>3
<1>7. ASSUME NEW i \in 1..Len(r), NEW j \in 1..Len(r), i < j, Counting(r[i]), Counting(r[j])
      PROVE  r[i].done <= r[j].done
  <2>1. i + 1 \in 1..n /\ j + 1 \in 1..n /\ i + 1 < j + 1 /\ r[i] = s[i + 1] /\ r[j] = s[j + 1]
    BY <1>1, <1>7
  <2> QED
    BY <1>4, <1>7, <2>1
<1>8. ASSUME NEW i \in 1..Len(r), Counting(r[i]), Counting(m) PROVE m.done <= r[i].done
  <2>1. i + 1 \in 1..n /\ 1 < i + 1 /\ r[i] = s[i + 1] /\ m = s[1] /\ 1 \in 1..n
    BY <1>1
  <2> QED
    BY <1>4, <1>8, <2>1
<1>9. Ordered(r, lo, hi)
  BY <1>3, <1>6, <1>7 DEF Ordered
<1>10. Counting(m) => Ordered(r, m.done, hi)
  BY <1>5, <1>6, <1>7, <1>8 DEF Ordered
<1>11. r = <<>> => Ordered(r, m.done, hi)
  <2> SUFFICES ASSUME r = <<>> PROVE Ordered(r, m.done, hi)
    OBVIOUS
  <2>1. Len(r) = 0
    BY <1>e
  <2>2. \A i : i \notin 1..Len(r)
    BY <2>1
  <2> QED
    BY <1>5, <2>2 DEF Ordered
<1> QED
  BY <1>2, <1>5, <1>9, <1>10, <1>11 DEF r, m

PlaceInv ==
  \A t \in Threads :
    /\ it[t] <= Share(t)
    /\ tpc[t] \in {"unborn", "start", "presim"} => it[t] = 0
    /\ tpc[t] = "report" => it[t] < ItersOf(t)
    /\ tpc[t] # "unborn" => t \in Running

OrderInv == \A t \in Threads : Ordered(sub[t], csd.done[t], it[t])

CountInv == PlaceInv /\ OrderInv

\* Where these steps take a thread: no iteration too many, and a report or a complete
\* result carries the iterations it has run.
LEMMA CountSteps ==
  ASSUME Types, PlaceInv, NEW t \in Threads, ThreadStep(t)
  PROVE  /\ PlaceInv' /\ \A u \in Threads \ {t} : it'[u] = it[u]
         /\ it'[t] \in Nat /\ it[t] <= it'[t]
         /\ \/ sub' = sub
            \/ \E m \in Report : /\ sub' = [sub EXCEPT ![t] = Append(@, m)]
                                 /\ m.done <= it[t] /\ (Counting(m) => m.done = it[t])
<1>1. /\ total' = total /\ total \in Nat
      /\ Running' = Running /\ \A u : ItersOf(u)' = ItersOf(u) /\ Share(u)' = Share(u)
  BY DEF ThreadStep, Types, Share, ItersOf, Running, Splits
<1>2. /\ it[t] \in Nat /\ it[t] <= Share(t) /\ Share(t) \in Nat
      /\ tpc[t] \in {"unborn", "start", "presim"} => it[t] = 0
      /\ tpc[t] = "report" => it[t] < ItersOf(t)
      /\ tpc[t] # "unborn" => t \in Running
  BY <1>1, ShareFacts DEF Types, PlaceInv
<1>3. t \in Running => ItersOf(t) \in Nat /\ ItersOf(t) > 0 /\ Share(t) = ItersOf(t)
  BY <1>1, ShareFacts DEF Share
\* What is left to show for each kind of step.
<1> DEFINE moves(pc, n) ==
             /\ tpc' = [tpc EXCEPT ![t] = pc] /\ it' = [it EXCEPT ![t] = n]
             /\ n <= Share(t) /\ it[t] <= n /\ pc \notin {"unborn", "start"}
             /\ pc = "presim" => n = 0
             /\ pc = "report" => n < ItersOf(t)
             /\ t \in Running
           sends(m) ==
             /\ sub' = [sub EXCEPT ![t] = Append(@, m)]
             /\ m.done <= it[t] /\ (Counting(m) => m.done = it[t])
<1>4. ASSUME NEW pc, NEW n \in Nat, moves(pc, n)
      PROVE  /\ PlaceInv' /\ \A u \in Threads \ {t} : it'[u] = it[u]
             /\ it'[t] \in Nat /\ it[t] <= it'[t]
  <2>1. tpc'[t] = pc /\ it'[t] = n /\ \A u \in Threads \ {t} : tpc'[u] = tpc[u] /\ it'[u] = it[u]
    BY <1>4 DEF Types
  <2>2. \A u \in Threads \ {t} :
          /\ it'[u] <= Share(u)
          /\ tpc'[u] \in {"unborn", "start", "presim"} => it'[u] = 0
          /\ tpc'[u] = "report" => it'[u] < ItersOf(u)
          /\ tpc'[u] # "unborn" => u \in Running
    BY <2>1 DEF PlaceInv
  <2>3. /\ it'[t] <= Share(t)
        /\ tpc'[t] \in {"unborn", "start", "presim"} => it'[t] = 0
        /\ tpc'[t] = "report" => it'[t] < ItersOf(t)
        /\ tpc'[t] # "unborn" => t \in Running
    BY <1>4, <2>1
  <2> QED
    BY <1>1, <1>4, <2>1, <2>2, <2>3 DEF PlaceInv
<1>5. it = [it EXCEPT ![t] = it[t]] /\ it[t] <= it[t]
  BY <1>2 DEF Types
<1>6. Progress(it[t]) \in Report /\ Progress(it[t]).done = it[t]
  BY <1>2 DEF Progress, Report, Outcomes
<1>7. ASSUME NEW f \in Outcomes, NEW n \in Nat
      PROVE  Final(n, f) \in Report /\ Final(n, f).done = n /\ Final(n, f).final = f
  BY DEF Final, Report
<1> HIDE DEF moves
<1>8. CASE AnnouncePresim(t)
  <2>1. /\ tpc[t] = "start" /\ tpc' = [tpc EXCEPT ![t] = "presim"] /\ it' = it
        /\ sub' = [sub EXCEPT ![t] = Append(@, Progress(0))]
    BY <1>8 DEF AnnouncePresim, Goto, Send
  <2>2. it[t] = 0 /\ t \in Running
    BY <1>2, <2>1
  <2>3. moves("presim", it[t])
    BY <1>2, <1>3, <1>5, <2>1, <2>2 DEF moves
  <2>4. Progress(0) \in Report /\ sends(Progress(0))
    BY <1>2, <1>6, <1>7, <2>1, <2>2
  <2> QED
    BY <1>2, <1>4, <2>3, <2>4
<1>9. CASE FirstIteration(t)
  <2>1. /\ tpc[t] = "presim" /\ tpc' = [tpc EXCEPT ![t] = "check"] /\ it' = [it EXCEPT ![t] = 1]
        /\ sub' = [sub EXCEPT ![t] = Append(@, Progress(0))]
    BY <1>9 DEF FirstIteration, Goto, Send
  <2>2. it[t] = 0 /\ t \in Running /\ 1 \in Nat /\ 1 <= Share(t) /\ it[t] <= 1
    BY <1>2, <1>3, <2>1
  <2>3. moves("check", 1)
    BY <1>2, <1>3, <1>5, <2>1, <2>2 DEF moves
  <2>4. Progress(0) \in Report /\ sends(Progress(0))
    BY <1>2, <1>6, <1>7, <2>1, <2>2
  <2> QED
    BY <1>2, <1>4, <2>3, <2>4
<1>10. CASE CheckAbort(t)
  <2>1. PICK pc \in {"quit", "report"} :
          /\ tpc[t] = "check" /\ it[t] < ItersOf(t) /\ tpc' = [tpc EXCEPT ![t] = pc] /\ it' = it
          /\ sub' = sub
    BY <1>10 DEF CheckAbort, Goto
  <2>3. moves(pc, it[t])
    BY <1>2, <1>3, <1>5, <2>1 DEF moves
  <2> QED
    BY <1>2, <1>4, <2>1, <2>3
<1>11. CASE Iterate(t)
  <2>1. /\ tpc[t] = "report" /\ tpc' = [tpc EXCEPT ![t] = "check"]
        /\ it' = [it EXCEPT ![t] = it[t] + 1]
        /\ \/ sub' = sub
           \/ sub' = [sub EXCEPT ![t] = Append(@, Progress(it[t]))]
    BY <1>11 DEF Iterate, Goto, Send
  <2>2. /\ t \in Running /\ it[t] + 1 \in Nat /\ it[t] + 1 <= Share(t) /\ it[t] <= it[t] + 1
    BY <1>2, <1>3, <2>1
  <2>3. moves("check", it[t] + 1)
    BY <1>2, <1>3, <2>1, <2>2 DEF moves
  <2>4. /\ PlaceInv' /\ \A u \in Threads \ {t} : it'[u] = it[u]
        /\ it'[t] \in Nat /\ it[t] <= it'[t]
    BY <1>4, <2>2, <2>3
  <2>5. PICK m \in Report : m = Progress(it[t]) /\ m.done = it[t]
    BY <1>6
  <2>6. sub' = sub \/ sub' = [sub EXCEPT ![t] = Append(@, m)]
    BY <2>1, <2>5
  <2> HIDE DEF sends
  <2>7. sub' = sub \/ sends(m)
    BY <1>2, <2>5, <2>6 DEF sends
  <2> QED
    BY <2>4, <2>7 DEF sends
<1>12. CASE Fail(t) \/ Quit(t)
  <2>1. PICK f \in {"error", "aborted"} :
          /\ tpc[t] # "unborn" /\ tpc' = [tpc EXCEPT ![t] = "close"] /\ it' = it
          /\ sub' = [sub EXCEPT ![t] = Append(@, Final(0, f))]
    BY <1>12 DEF Fail, Quit, Goto, Send
  <2>2. Final(0, f) \in Report /\ Final(0, f).done <= it[t] /\ ~Counting(Final(0, f))
    BY <1>2, <1>7 DEF Counting, Outcomes
  <2>3. moves("close", it[t])
    BY <1>2, <1>3, <1>5, <2>1, <2>2 DEF moves
  <2>4. Final(0, f) \in Report /\ sends(Final(0, f))
    BY <1>2, <1>6, <1>7, <2>1, <2>2
  <2> QED
    BY <1>2, <1>4, <2>3, <2>4
<1>13. CASE Complete(t)
  <2>1. /\ tpc[t] = "check" /\ tpc' = [tpc EXCEPT ![t] = "close"] /\ it' = it
        /\ sub' = [sub EXCEPT ![t] = Append(@, Final(it[t], "complete"))]
    BY <1>13 DEF Complete, Goto, Send
  <2>2. Final(it[t], "complete") \in Report /\ Final(it[t], "complete").done = it[t]
    BY <1>2, <1>7 DEF Outcomes
  <2>3. moves("close", it[t])
    BY <1>2, <1>3, <1>5, <2>1, <2>2 DEF moves
  <2>4. Final(it[t], "complete") \in Report /\ sends(Final(it[t], "complete"))
    BY <1>2, <1>6, <1>7, <2>1, <2>2
  <2> QED
    BY <1>2, <1>4, <2>3, <2>4
<1>14. CASE CloseSub(t)
  <2>1. tpc[t] = "close" /\ tpc' = [tpc EXCEPT ![t] = "exited"] /\ it' = it /\ sub' = sub
    BY <1>14 DEF CloseSub, Goto
  <2>3. moves("exited", it[t])
    BY <1>2, <1>3, <1>5, <2>1 DEF moves
  <2> QED
    BY <1>2, <1>4, <2>1, <2>3
<1> QED
  BY <1>8, <1>9, <1>10, <1>11, <1>12, <1>13, <1>14 DEF ThreadStep

LEMMA ThreadCounts ==
  ASSUME Types, CountInv, NEW t \in Threads, ThreadStep(t)
  PROVE  CountInv' /\ csd' = csd
<1> USE DEF CountInv, IInv
<1>1. csd' = csd
  BY ThreadSteps
<1>2. /\ PlaceInv' /\ \A u \in Threads \ {t} : it'[u] = it[u]
      /\ it'[t] \in Nat /\ it[t] <= it'[t]
  BY CountSteps
<1>3. csd.done[t] \in Nat /\ it[t] \in Nat /\ sub[t] \in Seq(Report)
  BY DEF Types
<1>4. Ordered(sub[t], csd.done[t], it[t])
  BY DEF OrderInv
<1>5. /\ Ordered(sub'[t], csd.done[t], it'[t])
      /\ \A u \in Threads \ {t} : sub'[u] = sub[u]
  <2>1. CASE sub' = sub
    <3>1. \A i \in 1..Len(sub[t]) : sub[t][i].done \in Nat
      <4>1. \A i \in 1..Len(sub[t]) : sub[t][i] \in Report
        BY <1>3, ElementOfSeq
      <4> QED
        BY <4>1 DEF Report
    <3>2. Ordered(sub[t], csd.done[t], it'[t])
      BY <1>2, <1>3, <1>4, <3>1 DEF Ordered
    <3> QED
      BY <2>1, <3>2
  <2>2. ASSUME NEW m \in Report, sub' = [sub EXCEPT ![t] = Append(@, m)],
               m.done <= it[t], Counting(m) => m.done = it[t]
        PROVE  /\ Ordered(sub'[t], csd.done[t], it'[t])
               /\ \A u \in Threads \ {t} : sub'[u] = sub[u]
    <3>1. sub'[t] = Append(sub[t], m) /\ \A u \in Threads \ {t} : sub'[u] = sub[u]
      BY <2>2 DEF Types
    <3>2. Ordered(Append(sub[t], m), csd.done[t], it'[t])
      BY <1>2, <1>3, <1>4, <2>2, OrderedSend
    <3> QED
      BY <3>1, <3>2
  <2> QED
    BY <2>1, <2>2, CountSteps
<1>6. OrderInv'
  BY <1>1, <1>2, <1>5 DEF OrderInv
<1> QED
  BY <1>1, <1>2, <1>6

\* A message replaces the count of its thread.
LEMMA DoneFacts ==
  ASSUME Types, NEW t \in Threads, NEW m, UpdateProgress(t, m)
  PROVE  csd'.done[t] = m.done /\ \A u \in Threads \ {t} : csd'.done[u] = csd.done[u]
<1>1. /\ csd = [done |-> csd.done, final |-> csd.final]
      /\ csd.done \in [Threads -> Nat] /\ csd.final \in [Threads -> Outcomes]
  BY DEF Types
<1>2. csd' = [done  |-> [csd.done EXCEPT ![t] = m.done],
              final |-> [csd.final EXCEPT ![t] = IF m.final = "none" THEN @ ELSE m.final]]
  BY <1>1 DEF UpdateProgress
<1> QED
  BY <1>1, <1>2

\* The coordinator only takes messages out of the channels.
LEMMA CoordinatorCounts ==
  ASSUME IInv, CountInv, CoordinatorStep
  PROVE  CountInv'
<1> USE DEF CountInv, IInv
<1>1. it' = it /\ total' = total
  BY DEF CoordinatorStep, Split, Combine, Deliver, Receive, ReceiveClosed, TriggerSelect,
         TriggerClose, Recover, RecoverTrigger, CloseOut, threadVars
<1>2. Running' = Running /\ \A u : ItersOf(u)' = ItersOf(u) /\ Share(u)' = Share(u)
  BY <1>1 DEF Share, ItersOf, Running, Splits
<1>3. ASSUME tpc' = tpc PROVE PlaceInv'
  BY <1>1, <1>2, <1>3 DEF PlaceInv
<1>4. ASSUME sub' = sub, csd' = csd PROVE OrderInv'
  BY <1>1, <1>4 DEF OrderInv
<1>5. CASE Split
  <2>1. sub' = sub /\ csd' = csd
    BY <1>5 DEF Split
  <2>2. CASE tpc' = tpc
    BY <1>3, <1>4, <2>1, <2>2
  <2>3. CASE tpc' = [t \in Threads |-> IF t \in Running THEN "start" ELSE "unborn"] /\ cpc = "split"
    <3>1. \A t \in Threads : tpc[t] = "unborn"
      BY <2>3 DEF ResultInv
    <3> QED
      BY <1>1, <1>2, <1>4, <2>1, <2>3, <3>1 DEF PlaceInv
  <2> QED
    BY <1>5, <2>2, <2>3 DEF Split
<1>6. ASSUME NEW t \in Threads, Receive(t) PROVE CountInv'
  <2>1. /\ sub[t] # <<>> /\ sub' = [sub EXCEPT ![t] = Tail(@)] /\ tpc' = tpc
        /\ csd' = csd \/ UpdateProgress(t, Head(sub[t]))
    BY <1>6 DEF Receive, threadVars
  <2>2. /\ sub[t] \in Seq(Report) /\ csd.done[t] \in Nat /\ it[t] \in Nat
        /\ Ordered(sub[t], csd.done[t], it[t])
    BY DEF Types, OrderInv
  <2>3. /\ sub'[t] = Tail(sub[t]) /\ \A u \in Threads \ {t} : sub'[u] = sub[u]
    BY <2>1 DEF Types
  <2>4. Counting(Head(sub[t])) \/ Tail(sub[t]) = <<>>
    <3> SUFFICES ASSUME ~Counting(Head(sub[t])) PROVE Tail(sub[t]) = <<>>
      OBVIOUS
    <3>1. 1 \in Pending(t)
      BY <2>1, <2>2, ReceiveFacts DEF Pending, Counting
    <3>2. Len(sub[t]) = 1
      BY <3>1 DEF ChannelInv
    <3>3. Len(Tail(sub[t])) = 0 /\ Tail(sub[t]) \in Seq(Report)
      BY <2>1, <2>2, <3>2, ReceiveFacts
    <3> QED
      BY <3>3, EmptySeq
  <2>5. Ordered(sub'[t], csd'.done[t], it[t]) /\ \A u \in Threads \ {t} : csd'.done[u] = csd.done[u]
    <3>1. CASE csd' = csd
      BY <2>1, <2>2, <2>3, <3>1, OrderedReceive
    <3>2. CASE UpdateProgress(t, Head(sub[t]))
      <4>1. csd'.done[t] = Head(sub[t]).done /\ \A u \in Threads \ {t} : csd'.done[u] = csd.done[u]
        BY <3>2, DoneFacts
      <4>2. Ordered(Tail(sub[t]), Head(sub[t]).done, it[t])
        BY <2>1, <2>2, <2>4, OrderedReceive
      <4> QED
        BY <2>3, <4>1, <4>2
    <3> QED
      BY <2>1, <3>1, <3>2
  <2>6. OrderInv'
    BY <1>1, <2>3, <2>5 DEF OrderInv
  <2> QED
    BY <1>3, <2>1, <2>6
<1>7. ASSUME NEW t \in Threads, ReceiveClosed(t) PROVE CountInv'
  BY <1>3, <1>4, <1>7 DEF ReceiveClosed, threadVars
<1>8. CASE Combine \/ Deliver \/ TriggerSelect \/ TriggerClose \/ Recover \/ RecoverTrigger \/ CloseOut
  BY <1>3, <1>4, <1>8 DEF Combine, Deliver, TriggerSelect, TriggerClose, Recover, RecoverTrigger,
                          CloseOut, threadVars
<1> QED
  BY <1>5, <1>6, <1>7, <1>8 DEF CoordinatorStep

LEMMA CountInvariant ==
  ASSUME IInv, CountInv, [Next]_vars
  PROVE  CountInv'
<1>1. CASE \/ \E a \in Aborters : AborterStep(a)
           \/ ReaderStep
           \/ UNCHANGED vars
  <2>1. UNCHANGED <<total, tpc, it, sub, csd>>
    BY <1>1 DEF AborterStep, ReaderStep, vars, threadVars, coordVars
  <2> QED
    BY <2>1 DEF CountInv, PlaceInv, OrderInv, Running, Share, ItersOf, Splits
<1> QED
  BY <1>1, ThreadCounts, CoordinatorCounts DEF Next, IInv

\* At the start nothing has run.
LEMMA InitCounts == Init => CountInv
<1> SUFFICES ASSUME Init PROVE CountInv
  OBVIOUS
<1>1. total \in Nat
  BY ConcurrentSimAssumption DEF Init
<1>2. PlaceInv
  BY <1>1, ShareFacts DEF PlaceInv, Init
<1>3. \A t \in Threads : sub[t] = <<>> /\ csd.done[t] = 0 /\ it[t] = 0
  BY DEF Init
<1>4. OrderInv
  BY <1>3 DEF OrderInv, Ordered
<1> QED
  BY <1>2, <1>4 DEF CountInv

-----------------------------------------------------------------------------
(* What the reader is sent: the abstract job.                               *)

Going == {"select", "sendProgress", "sendResult"}

ReportInv ==
  /\ total \in 0..MaxTotal
  /\ sent.done \in Nat
  /\ cpc = "split" => sent.done = 0
  /\ cpc \in Going => total > 0 /\ sent.done <= IterationsDone
  /\ cpc \in {"sendProgress", "sendResult"} => hold.done = IterationsDone
  /\ ended \in BOOLEAN
  /\ ended => cpc = "returned"

\* Nothing is counted twice: counts within the parts add up to no more than the request.
LEMMA PartsBounded ==
  ASSUME total \in Nat, total > 0, NEW f \in [Threads -> Nat], \A t \in Threads : f[t] <= Share(t)
  PROVE  SumTo(f)[NumCPU] \in Nat /\ SumTo(f)[NumCPU] <= total
<1>1. Shares \in [Threads -> Nat] /\ SumTo(Shares)[NumCPU] = total
  BY SharesAddUp
<1>2. \A t \in Threads : f[t] <= Shares[t]
  BY DEF Shares
<1>3. SumTo(f)[NumCPU] <= SumTo(Shares)[NumCPU]
  BY <1>1, <1>2, SumGrows
<1>4. SumTo(f)[NumCPU] \in Nat
  BY SumFacts, ConcurrentSimAssumption
<1> QED
  BY <1>1, <1>3, <1>4

LEMMA DoneBounded ==
  ASSUME Types, CountInv, total > 0
  PROVE  IterationsDone \in Nat /\ IterationsDone <= total
<1>1. csd.done \in [Threads -> Nat] /\ it \in [Threads -> Nat] /\ total \in Nat
  BY DEF Types
<1>2. \A t \in Threads : Share(t) \in Nat
  BY <1>1, ShareFacts
<1>3. \A t \in Threads : csd.done[t] <= Share(t)
  <2> SUFFICES ASSUME NEW t \in Threads PROVE csd.done[t] <= Share(t)
    OBVIOUS
  <2>1. csd.done[t] <= it[t] /\ it[t] <= Share(t)
    BY DEF CountInv, OrderInv, PlaceInv, Ordered
  <2>2. csd.done[t] \in Nat /\ it[t] \in Nat /\ Share(t) \in Nat
    BY <1>1, <1>2
  <2> QED
    BY <2>1, <2>2
<1> QED
  BY <1>1, <1>3, PartsBounded DEF IterationsDone

\* A complete result counts all of them.
LEMMA DoneComplete ==
  ASSUME Types, CountInv, total > 0, \A t \in Running : Whole(t)
  PROVE  IterationsDone = total
<1>1. csd.done \in [Threads -> Nat] /\ it \in [Threads -> Nat] /\ total \in Nat
  BY DEF Types
<1>2. Shares \in [Threads -> Nat] /\ SumTo(Shares)[NumCPU] = total
  BY <1>1, SharesAddUp
<1>3. \A t \in Threads : csd.done[t] = Shares[t]
  <2> SUFFICES ASSUME NEW t \in Threads PROVE csd.done[t] = Share(t)
    BY DEF Shares
  <2>1. CASE t \in Running
    BY <2>1 DEF Whole, Share
  <2>2. CASE t \notin Running
    <3>1. Share(t) = 0
      BY <2>2 DEF Share
    <3>2. csd.done[t] <= it[t] /\ it[t] <= Share(t)
      BY DEF CountInv, OrderInv, PlaceInv, Ordered
    <3>3. csd.done[t] \in Nat /\ it[t] \in Nat
      BY <1>1
    <3> QED
      BY <3>1, <3>2, <3>3
  <2> QED
    BY <2>1, <2>2
<1>4. csd.done = Shares
  BY <1>1, <1>2, <1>3
<1> QED
  BY <1>2, <1>4 DEF IterationsDone

\* What a message to the reader does to the count of the last report.
LEMMA SentDone ==
  ASSUME sent \in Sent, NEW m, m.final \in Outcomes, SendOut(m)
  PROVE  sent'.done = IF m.final \in {"none", "complete"} THEN m.done ELSE sent.done
<1>1. sent' = [sent EXCEPT
                 !.done    = IF m.final \in {"none", "complete"} THEN m.done ELSE @,
                 !.outcome = IF @ = "none" THEN m.final ELSE @,
                 !.finals  = @ + (IF m.final = "none" THEN 0 ELSE 1)]
  BY DEF SendOut
<1>2. sent = [done |-> sent.done, outcome |-> sent.outcome, finals |-> sent.finals, clash |-> sent.clash]
  BY DEF Sent
<1>3. sent' = [done    |-> IF m.final \in {"none", "complete"} THEN m.done ELSE sent.done,
               outcome |-> IF sent.outcome = "none" THEN m.final ELSE sent.outcome,
               finals  |-> sent.finals + (IF m.final = "none" THEN 0 ELSE 1),
               clash   |-> sent.clash]
  BY <1>1, <1>2
<1> QED
  BY <1>3

Step == ReportInv' /\ [Job!Next]_(Job!vars)

\* What a step that sends the reader nothing has to show.
LEMMA SilentStep ==
  ASSUME IInv, CountInv, ReportInv, UNCHANGED <<total, csd, sent, ended>>,
         \/ UNCHANGED <<cpc, hold>>
         \/ cpc' \notin Going \cup {"split"}
         \/ cpc = "split" /\ cpc' = "select" /\ total > 0
         \/ cpc \in Going /\ cpc' = "select"
         \/ cpc \in Going /\ cpc' = "sendResult" /\ hold'.done = IterationsDone,
         ended => cpc' = "returned"
  PROVE  Step
<1>1. IterationsDone' = IterationsDone
  BY DEF IterationsDone
<1>2. total > 0 => IterationsDone \in Nat
  BY DoneBounded DEF IInv
<1>3. ReportInv'
  BY <1>1, <1>2 DEF ReportInv, Going
<1> QED
  BY <1>3 DEF Step, Job!vars

\* A message of a thread never takes the count back, and the next report counts it.
LEMMA ReceiveStep ==
  ASSUME IInv, CountInv, CountInv', Types', ReportInv, NEW t \in Threads, Receive(t), total' = total
  PROVE  Step
<1> DEFINE m == Head(sub[t])
           c == counter'
<1>1. /\ UNCHANGED <<total, sent, ended>> /\ cpc = "select" /\ sub[t] # <<>> /\ total > 0
  BY DEF Receive, ReportInv, Going
<1>2. IterationsDone \in Nat /\ IterationsDone' \in Nat
  <2>1. IterationsDone \in Nat
    BY <1>1, DoneBounded DEF IInv
  <2>2. csd'.done \in [Threads -> Nat]
    BY DEF Types
  <2>3. SumTo(csd'.done)[NumCPU] \in Nat
    BY <2>2, SumFacts, ConcurrentSimAssumption
  <2> QED
    BY <2>1, <2>3 DEF IterationsDone
<1>3. CASE abort
  <2>1. csd' = csd /\ cpc' = "sendAborted"
    BY <1>3 DEF Receive
  <2> QED
    BY <1>1, <2>1, SilentStep DEF Going, ReportInv
<1>4. CASE ~abort
  <2>1. UpdateProgress(t, m)
    BY <1>4 DEF Receive
  <2>2. \/ Failed(m) /\ cpc' = "sendError"
        \/ ~Failed(m) /\ m.final # "none" /\ cpc' = cpc
        \/ /\ m.final = "none"
           /\ IF c = 0 THEN hold' = Progress(IterationsDone') /\ cpc' = "sendProgress"
                       ELSE UNCHANGED <<hold, cpc>>
    BY <1>4, Zenon DEF Receive
  <2>3. m.final \in Outcomes
    BY <1>1, ReceiveFacts DEF IInv, Types, Report
  <2> HIDE DEF m, c
  <2>4. \/ cpc' = "sendError"
        \/ Counting(m) /\ cpc' = "select"
        \/ Counting(m) /\ cpc' = "sendProgress" /\ hold'.done = IterationsDone'
    BY <1>1, <2>2, <2>3 DEF Failed, Counting, Outcomes, Progress
  <2>5. ASSUME Counting(m) PROVE IterationsDone <= IterationsDone'
    <3>1. csd'.done[t] = m.done /\ \A u \in Threads \ {t} : csd'.done[u] = csd.done[u]
      BY <2>1, DoneFacts DEF IInv
    <3>2. sub[t] \in Seq(Report) /\ csd.done[t] \in Nat /\ it[t] \in Nat
          /\ Ordered(sub[t], csd.done[t], it[t])
      BY DEF IInv, Types, CountInv, OrderInv
    <3>3. csd.done[t] <= m.done
      BY <1>1, <2>5, <3>2, OrderedReceive DEF m
    <3>4. csd.done \in [Threads -> Nat] /\ csd'.done \in [Threads -> Nat]
      BY DEF IInv, Types
    <3>5. \A u \in Threads \ {t} : csd.done[u] \in Nat /\ csd.done[u] <= csd'.done[u]
      BY <3>1, <3>4
    <3>6. \A u \in Threads : csd.done[u] <= csd'.done[u]
      BY <3>1, <3>3, <3>5
    <3>7. SumTo(csd.done)[NumCPU] <= SumTo(csd'.done)[NumCPU]
      BY <3>4, <3>6, SumGrows
    <3> QED
      BY <3>7 DEF IterationsDone
  <2>6. ReportInv'
    BY <1>1, <1>2, <2>4, <2>5 DEF ReportInv, Going
  <2> QED
    BY <1>1, <2>6 DEF Step, Job!vars
<1> QED
  BY <1>3, <1>4

\* A report, a result, an error or an abort is delivered.
LEMMA DeliverStep ==
  ASSUME IInv, CountInv, ReportInv, Deliver, total' = total
  PROVE  Step
<1> USE DEF IInv
<1>1. /\ UNCHANGED <<total, csd, hold, ended>> /\ SendOut(hold)
      /\ \/ cpc = "sendProgress" /\ cpc' = "select"
         \/ cpc \in {"sendAborted", "sendResult"} /\ cpc' = "close"
         \/ cpc = "sendError" /\ cpc' = "trigger"
  BY DEF Deliver
<1>2. hold.final \in Outcomes /\ sent.outcome = "none" /\ ~ended
  BY <1>1 DEF FinalsInv, Outcomes, ReportInv
<1>3. /\ sent'.outcome = hold.final
      /\ sent'.done = IF hold.final \in {"none", "complete"} THEN hold.done ELSE sent.done
  BY <1>1, <1>2, SentFacts, SentDone DEF Types
<1>4. IterationsDone' = IterationsDone
  BY <1>1 DEF IterationsDone
<1>5. total > 0 => IterationsDone \in Nat /\ IterationsDone <= total
  BY DoneBounded
<1>6. CASE cpc = "sendProgress"
  <2>1. /\ cpc' = "select" /\ sent'.outcome = "none" /\ sent'.done = IterationsDone
        /\ sent.done <= IterationsDone /\ IterationsDone \in Nat /\ IterationsDone <= total
        /\ total > 0 /\ sent.done \in Nat /\ total \in Nat
    BY <1>1, <1>3, <1>5, <1>6 DEF FinalsInv, ReportInv, Going
  <2>2. Job!Report
    BY <1>1, <1>2, <2>1 DEF Job!Report
  <2>3. ReportInv'
    BY <1>1, <1>2, <1>4, <2>1 DEF ReportInv, Going
  <2> QED
    BY <2>2, <2>3 DEF Step, Job!Next
<1>7. CASE cpc = "sendResult"
  <2>1. cpc' = "close" /\ sent'.outcome = "complete" /\ sent'.done = IterationsDone /\ total > 0
    BY <1>1, <1>3, <1>7 DEF FinalsInv, ReportInv, Going
  <2>2. IterationsDone = total
    BY <1>7, <2>1, DoneComplete DEF ResultInv
  <2>3. Job!Finish
    BY <1>1, <1>2, <2>1, <2>2 DEF Job!Finish
  <2>4. ReportInv'
    BY <1>1, <1>2, <1>5, <2>1 DEF ReportInv, Going
  <2> QED
    BY <2>3, <2>4 DEF Step, Job!Next
<1>8. CASE cpc \in {"sendAborted", "sendError"}
  <2>1. cpc' \in {"close", "trigger"} /\ sent'.outcome \in {"aborted", "error"} /\ sent'.done = sent.done
    BY <1>1, <1>3, <1>8 DEF FinalsInv
  <2>2. Job!Finish
    BY <1>1, <1>2, <2>1 DEF Job!Finish
  <2>3. ReportInv'
    BY <1>1, <1>2, <2>1 DEF ReportInv, Going
  <2> QED
    BY <2>2, <2>3 DEF Step, Job!Next
<1> QED
  BY <1>1, <1>6, <1>7, <1>8

\* Every step is one of the job, or none that its reader could tell.
LEMMA JobStep ==
  ASSUME IInv, CountInv, CountInv', IInv', ReportInv, [Next]_vars
  PROVE  Step
<1>1. CASE \/ \E t \in Threads : ThreadStep(t)
           \/ \E a \in Aborters : AborterStep(a)
           \/ ReaderStep
           \/ UNCHANGED vars
  <2>1. UNCHANGED <<total, csd, sent, ended, cpc, hold>>
    BY <1>1 DEF ThreadStep, AborterStep, ReaderStep, vars, coordVars
  <2> QED
    BY <2>1, SilentStep DEF ReportInv
<1>2. CASE CoordinatorStep
  <2>1. total' = total
    BY <1>2 DEF CoordinatorStep
  <2>2. CASE Split
    <3>1. /\ UNCHANGED <<csd, sent, ended>> /\ cpc = "split"
          /\ cpc' = "recover" \/ (cpc' = "select" /\ total # 0)
      BY <2>2 DEF Split
    <3>2. total # 0 => total > 0
      BY DEF ReportInv
    <3> QED
      BY <2>1, <3>1, <3>2, SilentStep DEF ReportInv, Going
  <2>3. ASSUME NEW t \in Threads, Receive(t) PROVE Step
    BY <2>1, <2>3, ReceiveStep DEF IInv
  <2>4. ASSUME NEW t \in Threads, ReceiveClosed(t) PROVE Step
    <3>1. /\ UNCHANGED <<csd, sent, ended>> /\ cpc = "select" /\ cpc' \in {"sendAborted", "select"}
      BY <2>4 DEF ReceiveClosed
    <3> QED
      BY <2>1, <3>1, SilentStep DEF ReportInv, Going
  <2>5. CASE Combine
    <3>1. /\ UNCHANGED <<csd, sent, ended>> /\ cpc = "select"
          /\ cpc' = "recover" \/ (cpc' = "sendResult" /\ hold' = Combined)
      BY <2>5 DEF Combine
    <3>2. Combined.done = IterationsDone
      BY DEF Combined, Final
    <3> QED
      BY <2>1, <3>1, <3>2, SilentStep DEF ReportInv, Going
  <2>6. CASE Deliver
    BY <2>1, <2>6, DeliverStep
  <2>7. CASE TriggerSelect \/ RecoverTrigger
    <3>1. UNCHANGED <<csd, sent, ended>> /\ cpc' \in {"close", "triggerClose"}
          /\ cpc \in {"trigger", "recoverTrigger"}
      BY <2>7 DEF TriggerSelect, RecoverTrigger
    <3> QED
      BY <2>1, <3>1, SilentStep DEF ReportInv, Going
  <2>8. CASE TriggerClose
    <3>1. /\ UNCHANGED <<csd, ended>> /\ cpc' \in {"close", "recover"} /\ cpc = "triggerClose"
          /\ sent' = [sent EXCEPT !.clash = abort]
      BY <2>8 DEF TriggerClose
    <3>2. sent'.done = sent.done /\ sent'.outcome = sent.outcome
      BY <3>1 DEF IInv, Types, Sent
    <3>3. ReportInv'
      BY <2>1, <3>1, <3>2 DEF ReportInv, Going
    <3> QED
      BY <2>1, <3>1, <3>2, <3>3 DEF Step, Job!vars
  <2>9. CASE Recover
    <3>1. /\ UNCHANGED <<csd, ended>> /\ cpc' = "recoverTrigger" /\ cpc = "recover"
          /\ SendOut(Final(0, "error"))
      BY <2>9 DEF Recover
    <3>2. PICK m : m = Final(0, "error")
      OBVIOUS
    <3>7. m.final = "error"
      BY <3>2 DEF Final
    <3>3. /\ sent'.done = sent.done
          /\ sent'.outcome = IF sent.outcome = "none" THEN "error" ELSE sent.outcome
      <4>1. m.final \in Outcomes /\ SendOut(m) /\ sent \in Sent
        BY <3>1, <3>2, <3>7 DEF IInv, Types, Outcomes
      <4>2. /\ sent'.outcome = IF sent.outcome = "none" THEN m.final ELSE sent.outcome
            /\ sent'.done = IF m.final \in {"none", "complete"} THEN m.done ELSE sent.done
        BY <4>1, SentFacts, SentDone
      <4> QED
        BY <3>7, <4>2
    <3>4. ReportInv'
      BY <2>1, <3>1, <3>3 DEF ReportInv, Going
    <3>5. CASE sent.outcome = "none"
      <4>1. Job!Finish
        BY <2>1, <3>1, <3>3, <3>5 DEF Job!Finish
      <4> QED
        BY <3>4, <4>1 DEF Step, Job!Next
    <3>6. CASE sent.outcome # "none"
      BY <2>1, <3>1, <3>3, <3>4, <3>6 DEF Step, Job!vars
    <3> QED
      BY <3>5, <3>6
  <2>10. CASE CloseOut
    <3>1. /\ UNCHANGED <<csd, sent>> /\ ended' = TRUE /\ cpc' = "returned" /\ cpc = "close"
      BY <2>10 DEF CloseOut
    <3>2. ReportInv'
      BY <2>1, <3>1 DEF ReportInv, Going
    <3>3. ~ended /\ sent.outcome # "none"
      <4>1. sent.finals # 0
        BY <3>1 DEF IInv, FinalsInv
      <4> QED
        BY <3>1, <4>1 DEF IInv, FinalsInv, ReportInv
    <3>4. Job!Close
      BY <2>1, <3>1, <3>3 DEF Job!Close
    <3> QED
      BY <3>2, <3>4 DEF Step, Job!Next
  <2> QED
    BY <1>2, <2>2, <2>3, <2>4, <2>5, <2>6, <2>7, <2>8, <2>9, <2>10 DEF CoordinatorStep
<1> QED
  BY <1>1, <1>2 DEF Next

LEMMA ReportsKept ==
  ASSUME IInv, CountInv, ReportInv, [Next]_vars
  PROVE  Step
BY Preserved, CountInvariant, JobStep

LEMMA InitReports == Init => ReportInv /\ Job!Init
<1> SUFFICES ASSUME Init PROVE ReportInv /\ Job!Init
  OBVIOUS
<1>1. total \in 0..MaxTotal
  BY ConcurrentSimAssumption DEF Init
<1> QED
  BY <1>1 DEF Init, ReportInv, Going, Job!Init

\* A concurrent request is an AsyncJob to its reader: the count of the reports never goes
\* back, a complete result counts every iteration, no message says otherwise afterwards,
\* and the channel is closed only after a final message.
THEOREM RefinesAsyncJob == Spec => Job!Safety
<1>1. IInv /\ CountInv /\ ReportInv /\ [Next]_vars
        => (IInv /\ CountInv /\ ReportInv)' /\ [Job!Next]_(Job!vars)
  BY Preserved, CountInvariant, ReportsKept DEF Step
<1>2. Init => IInv /\ CountInv /\ ReportInv /\ Job!Init
  BY InitInvariant, InitCounts, InitReports
<1> QED
  BY <1>1, <1>2, PTL DEF Spec, Job!Safety

-----------------------------------------------------------------------------
(* Types and bounds.                                                        *)

RoomInv ==
  /\ \A t \in Threads : Len(sub[t]) <= SubCap
  /\ closed \subseteq Threads
  /\ counter \in 0..NumCPU
  /\ hold \in Messages
  /\ out \in Seq(Messages) /\ Len(out) <= OutCap
  /\ apc \in [Aborters -> {"idle", "closing", "done", "panicked"}]
  /\ reader \in {"reading", "stopped"}

\* No part is larger than the request.
LEMMA ShareBounded ==
  ASSUME total \in Nat, NEW t \in Threads
  PROVE  Share(t) \in Nat /\ Share(t) <= total
<1>1. CASE t \in Running
  <2> DEFINE q == total \div Splits
             r == total % Splits
             k == Splits - 1
  <2>1. Splits \in Nat /\ Splits > 0 /\ total > 0
    BY <1>1, ShareFacts
  <2>2. q \in Nat /\ r \in Nat /\ total = Splits * q + r
    BY <2>1
  <2>3. Share(t) = q + (IF t = 1 THEN r ELSE 0)
    BY <1>1 DEF Share, ItersOf
  <2>4. k \in Nat /\ Splits = k + 1
    BY <2>1
  <2> HIDE DEF q, r, k
  <2>5. Splits * q = k * q + q /\ k * q \in Nat
    BY <2>2, <2>4
  <2> QED
    BY <2>2, <2>3, <2>5
<1>2. CASE t \notin Running
  BY <1>2 DEF Share
<1> QED
  BY <1>1, <1>2

\* What a thread counts is within the bound, and what it sends as well.
LEMMA CountsBounded ==
  ASSUME Types, CountInv, total \in 0..MaxTotal
  PROVE  /\ it \in [Threads -> 0..MaxTotal]
         /\ csd.done \in [Threads -> 0..MaxTotal]
         /\ sub \in [Threads -> Seq(Messages)]
<1>1. total \in Nat /\ total <= MaxTotal /\ MaxTotal \in Nat
  BY ConcurrentSimAssumption
<1>2. ASSUME NEW t \in Threads
      PROVE  it[t] \in 0..MaxTotal /\ csd.done[t] \in 0..MaxTotal /\ sub[t] \in Seq(Messages)
  <2>1. it[t] \in Nat /\ csd.done[t] \in Nat /\ sub[t] \in Seq(Report)
    BY DEF Types
  <2>2. it[t] <= Share(t) /\ csd.done[t] <= it[t] /\ \A i \in 1..Len(sub[t]) : sub[t][i].done <= it[t]
    BY DEF CountInv, PlaceInv, OrderInv, Ordered
  <2>3. it[t] \in 0..MaxTotal /\ csd.done[t] \in 0..MaxTotal
    BY <1>1, <2>1, <2>2, ShareBounded
  <2>4. \A i \in 1..Len(sub[t]) : sub[t][i] \in Messages
    <3> SUFFICES ASSUME NEW i \in 1..Len(sub[t]) PROVE sub[t][i] \in Messages
      OBVIOUS
    <3>1. sub[t][i] \in Report /\ sub[t][i].done <= it[t]
      BY <2>1, <2>2, ElementOfSeq
    <3>2. /\ sub[t][i] = [done |-> sub[t][i].done, final |-> sub[t][i].final]
          /\ sub[t][i].done \in Nat /\ sub[t][i].final \in Outcomes
      BY <3>1 DEF Report
    <3>3. sub[t][i].done \in 0..MaxTotal
      BY <1>1, <2>3, <3>1, <3>2
    <3> QED
      BY <3>2, <3>3 DEF Messages, Outcomes
  <2>5. sub[t] \in Seq(Messages)
    <3> DEFINE s == sub[t]
    <3>1. s \in Seq(Report) /\ Len(s) \in Nat /\ s = [i \in 1..Len(s) |-> s[i]]
      BY <2>1, LenProperties
    <3>2. \A i \in 1..Len(s) : s[i] \in Messages
      BY <2>4
    <3> HIDE DEF s
    <3>3. s \in Seq(Messages)
      BY <3>1, <3>2, SeqDef
    <3> QED
      BY <3>3 DEF s
  <2> QED
    BY <2>3, <2>5
<1> QED
  BY <1>2 DEF Types

\* A message to the reader goes to the end of the channel, if there is room.
LEMMA OutFacts ==
  ASSUME RoomInv, NEW m \in Messages, SendOut(m)
  PROVE  out' \in Seq(Messages) /\ Len(out') <= OutCap
<1>1. out \in Seq(Messages) /\ Len(out) < OutCap /\ out' = Append(out, m)
  BY DEF RoomInv, SendOut
<1>2. out' \in Seq(Messages) /\ Len(out') = Len(out) + 1 /\ Len(out) \in Nat
  BY <1>1, AppendProperties, LenProperties
<1> QED
  BY <1>1, <1>2, ConcurrentSimAssumption

\* The messages the coordinator makes itself.
LEMMA MadeMessages ==
  ASSUME NEW n \in 0..MaxTotal
  PROVE  /\ Progress(n) \in Messages /\ Final(n, "complete") \in Messages
         /\ Final(0, "error") \in Messages /\ Final(0, "aborted") \in Messages
BY ConcurrentSimAssumption DEF Progress, Final, Messages

LEMMA RoomThread ==
  ASSUME Types, RoomInv, NEW t \in Threads, ThreadStep(t)
  PROVE  RoomInv'
<1>1. UNCHANGED <<counter, hold, out, apc, reader>>
  BY DEF ThreadStep, coordVars
<1>2. closed' \subseteq Threads
  BY DEF ThreadStep, AnnouncePresim, FirstIteration, CheckAbort, Iterate, Fail, Quit, Complete,
         CloseSub, RoomInv
<1>3. \/ sub' = sub
      \/ Len(sub[t]) < SubCap /\ \E m : sub' = [sub EXCEPT ![t] = Append(@, m)]
  BY DEF ThreadStep, AnnouncePresim, FirstIteration, CheckAbort, Iterate, Fail, Quit, Complete,
         CloseSub, Send
<1>4. \A u \in Threads : Len(sub'[u]) <= SubCap
  <2>1. ASSUME NEW m, Len(sub[t]) < SubCap, sub' = [sub EXCEPT ![t] = Append(@, m)]
        PROVE  \A u \in Threads : Len(sub'[u]) <= SubCap
    <3>1. sub'[t] = Append(sub[t], m) /\ \A u \in Threads \ {t} : sub'[u] = sub[u]
      BY <2>1 DEF Types
    <3>2. sub[t] \in Seq(Report)
      BY DEF Types
    <3>3. sub[t] \in Seq(Report \cup {m}) /\ m \in Report \cup {m}
      BY <3>2, SeqDef
    <3>4. Len(Append(sub[t], m)) = Len(sub[t]) + 1 /\ Len(sub[t]) \in Nat
      BY <3>3, AppendProperties, LenProperties
    <3>5. Len(sub'[t]) <= SubCap
      BY <2>1, <3>1, <3>4, ConcurrentSimAssumption
    <3> QED
      BY <3>1, <3>5 DEF RoomInv
  <2> QED
    BY <1>3, <2>1 DEF RoomInv
<1> QED
  BY <1>1, <1>2, <1>4 DEF RoomInv

LEMMA RoomReceive ==
  ASSUME IInv, CountInv, CountInv', Types', ReportInv, ReportInv', RoomInv,
         NEW t \in Threads, Receive(t), UNCHANGED <<total, apc, reader>>
  PROVE  RoomInv'
<1> DEFINE m == Head(sub[t])
           c == counter'
<1>1. /\ UNCHANGED <<total, closed, out, apc, reader>> /\ cpc = "select" /\ sub[t] # <<>> /\ total > 0
      /\ sub' = [sub EXCEPT ![t] = Tail(@)]
  BY DEF Receive, threadVars, ReportInv, Going
<1>2. \A u \in Threads : Len(sub'[u]) <= SubCap
  <2>1. sub[t] \in Seq(Report) /\ sub'[t] = Tail(sub[t]) /\ \A u \in Threads \ {t} : sub'[u] = sub[u]
    BY <1>1 DEF IInv, Types
  <2>2. Len(sub'[t]) = Len(sub[t]) - 1 /\ Len(sub[t]) \in Nat
    BY <1>1, <2>1, ReceiveFacts
  <2>3. Len(sub[t]) <= SubCap /\ SubCap \in Nat
    BY ConcurrentSimAssumption DEF RoomInv
  <2>4. Len(sub'[t]) <= SubCap
    BY <2>2, <2>3
  <2> QED
    BY <2>1, <2>4 DEF RoomInv
<1>3. m \in Messages
  <2>1. sub[t] \in Seq(Messages)
    BY CountsBounded DEF IInv, ReportInv
  <2> QED
    BY <1>1, <2>1, EmptySeq, HeadTailProperties
<1>4. Progress(IterationsDone') \in Messages /\ Final(0, "aborted") \in Messages
  <2>1. total' > 0 /\ total' \in Nat /\ total' <= MaxTotal /\ MaxTotal \in Nat
    BY <1>1, ConcurrentSimAssumption DEF ReportInv
  <2>2. csd'.done \in [Threads -> Nat] /\ \A u \in Threads : csd'.done[u] <= Share(u)
    <3>1. csd'.done \in [Threads -> Nat] /\ it' \in [Threads -> Nat]
      BY DEF Types
    <3>2. \A u \in Threads : Share(u)' = Share(u) /\ Share(u) \in Nat
      BY <1>1, ShareBounded DEF Share, Running, ItersOf, Splits, IInv, Types
    <3> SUFFICES ASSUME NEW u \in Threads PROVE csd'.done[u] <= Share(u)
      BY <3>1
    <3>3. csd'.done[u] <= it'[u] /\ it'[u] <= Share(u)'
      BY DEF CountInv, OrderInv, PlaceInv, Ordered
    <3>4. csd'.done[u] \in Nat /\ it'[u] \in Nat
      BY <3>1
    <3> QED
      BY <3>2, <3>3, <3>4
  <2>4. IterationsDone' \in Nat /\ IterationsDone' <= total
    BY <1>1, <2>1, <2>2, PartsBounded DEF IterationsDone
  <2>3. IterationsDone' \in 0..MaxTotal
    BY <1>1, <2>1, <2>4
  <2> QED
    BY <2>3, MadeMessages
<1>5. counter' = counter \/ counter' = (counter + 1) % Splits
  BY DEF Receive
<1>6. counter' \in 0..NumCPU
  <2>1. Splits \in Nat /\ Splits > 0 /\ Splits <= NumCPU /\ NumCPU \in Nat
    BY <1>1, ShareFacts DEF IInv, Types
  <2>2. counter \in Nat /\ counter <= NumCPU
    BY <2>1 DEF RoomInv
  <2>3. (counter + 1) % Splits \in 0..(Splits - 1)
    BY <2>1, <2>2
  <2> QED
    BY <1>5, <2>1, <2>2, <2>3
<1>7. hold' \in {hold, m, Final(0, "aborted"), Progress(IterationsDone')}
  <2>1. CASE abort
    BY <2>1 DEF Receive
  <2>2. CASE ~abort
    <3>1. \/ Failed(m) /\ hold' = m
          \/ ~Failed(m) /\ m.final # "none" /\ UNCHANGED hold
          \/ IF c = 0 THEN hold' = Progress(IterationsDone') /\ cpc' = "sendProgress"
                      ELSE UNCHANGED <<hold, cpc>>
      BY <2>2, Zenon DEF Receive
    <3> QED
      BY <3>1
  <2> QED
    BY <2>1, <2>2
<1>8. hold' \in Messages
  <2> HIDE DEF m
  <2> QED
    BY <1>3, <1>4, <1>7 DEF RoomInv
<1> QED
  BY <1>1, <1>2, <1>6, <1>8 DEF RoomInv

\* Channels and counters stay within their bounds.
LEMMA RoomKept ==
  ASSUME IInv, IInv', CountInv, CountInv', ReportInv, ReportInv', RoomInv, [Next]_vars
  PROVE  RoomInv'
<1>m. 0 \in 0..MaxTotal /\ Final(0, "error") \in Messages /\ Final(0, "aborted") \in Messages
  BY MadeMessages, ConcurrentSimAssumption
<1>1. ASSUME UNCHANGED <<sub, closed, counter, hold, out, apc, reader>> PROVE RoomInv'
  BY <1>1 DEF RoomInv
<1>2. ASSUME NEW t \in Threads, ThreadStep(t) PROVE RoomInv'
  BY <1>2, RoomThread DEF IInv
<1>3. ASSUME NEW t \in Threads, Receive(t), UNCHANGED <<total, apc, reader>> PROVE RoomInv'
  BY <1>3, RoomReceive DEF IInv
<1>4. ASSUME NEW t \in Threads, ReceiveClosed(t), UNCHANGED <<total, apc, reader>> PROVE RoomInv'
  BY <1>m, <1>4 DEF ReceiveClosed, threadVars, RoomInv
<1>5. ASSUME Combine, UNCHANGED <<total, apc, reader>> PROVE RoomInv'
  <2>1. /\ UNCHANGED <<sub, closed, counter, out, apc, reader>> /\ cpc = "select"
        /\ hold' = hold \/ hold' = Combined
    BY <1>5 DEF Combine, threadVars
  <2>2. Combined \in Messages
    <3>1. total > 0 /\ total \in Nat /\ total <= MaxTotal /\ MaxTotal \in Nat
      BY <2>1, ConcurrentSimAssumption DEF ReportInv, Going
    <3>2. IterationsDone \in 0..MaxTotal
      BY <3>1, DoneBounded DEF IInv
    <3> QED
      BY <3>2, MadeMessages DEF Combined
  <2> QED
    BY <2>1, <2>2 DEF RoomInv
<1>6. ASSUME Deliver, UNCHANGED <<total, apc, reader>> PROVE RoomInv'
  <2>1. UNCHANGED <<sub, closed, counter, hold, apc, reader>> /\ SendOut(hold) /\ hold \in Messages
    BY <1>6 DEF Deliver, threadVars, RoomInv
  <2>2. out' \in Seq(Messages) /\ Len(out') <= OutCap
    BY <2>1, OutFacts
  <2> QED
    BY <2>1, <2>2 DEF RoomInv
<1>7. ASSUME Recover, UNCHANGED <<total, apc, reader>> PROVE RoomInv'
  <2>1. UNCHANGED <<sub, closed, counter, hold, apc, reader>> /\ SendOut(Final(0, "error"))
    BY <1>7 DEF Recover, threadVars
  <2>2. out' \in Seq(Messages) /\ Len(out') <= OutCap
    BY <1>m, <2>1, OutFacts
  <2> QED
    BY <2>1, <2>2 DEF RoomInv
<1>8. ASSUME Split \/ TriggerSelect \/ TriggerClose \/ RecoverTrigger \/ CloseOut,
             UNCHANGED <<total, apc, reader>>
      PROVE  RoomInv'
  BY <1>1, <1>8 DEF Split, TriggerSelect, TriggerClose, RecoverTrigger, CloseOut, threadVars
<1>9. ASSUME NEW a \in Aborters, AborterStep(a) PROVE RoomInv'
  <2>1. /\ UNCHANGED <<sub, closed, counter, hold, out, reader>>
        /\ \E pc \in {"closing", "done", "panicked"} : apc' = [apc EXCEPT ![a] = pc]
    BY <1>9 DEF AborterStep, AbortSelect, AbortClose, threadVars, coordVars
  <2> QED
    BY <2>1 DEF RoomInv
<1>10. CASE ReaderStep
  <2>1. UNCHANGED <<sub, closed, counter, hold, apc>> /\ reader' \in {"reading", "stopped"}
    BY <1>10 DEF ReaderStep, Read, GiveUp, threadVars, coordVars
  <2>2. out' = out \/ (out # <<>> /\ out' = Tail(out))
    BY <1>10 DEF ReaderStep, Read, GiveUp
  <2>3. out' \in Seq(Messages) /\ Len(out') <= OutCap
    <3>1. out \in Seq(Messages) /\ Len(out) <= OutCap /\ OutCap \in Nat
      BY ConcurrentSimAssumption DEF RoomInv
    <3>2. CASE out # <<>> /\ out' = Tail(out)
      <4>1. Len(out) \in Nat /\ Len(Tail(out)) = Len(out) - 1 /\ Tail(out) \in Seq(Messages)
        BY <3>1, <3>2, EmptySeq, LenProperties, HeadTailProperties
      <4> QED
        BY <3>1, <3>2, <4>1
    <3> QED
      BY <2>2, <3>1, <3>2
  <2> QED
    BY <2>1, <2>3 DEF RoomInv
<1>11. CASE UNCHANGED vars
  BY <1>1, <1>11 DEF vars, threadVars, coordVars
<1> QED
  BY <1>2, <1>3, <1>4, <1>5, <1>6, <1>7, <1>8, <1>9, <1>10, <1>11 DEF Next, CoordinatorStep

LEMMA AllInvariant == Spec => [](IInv /\ CountInv /\ ReportInv /\ RoomInv)
<1>1. Init => IInv /\ CountInv /\ ReportInv /\ RoomInv
  <2> SUFFICES ASSUME Init PROVE RoomInv
    BY InitInvariant, InitCounts, InitReports
  <2>1. Progress(0) \in Messages
    BY MadeMessages, ConcurrentSimAssumption
  <2> QED
    BY <2>1, EmptySeq, ConcurrentSimAssumption DEF Init, RoomInv
<1>2. IInv /\ CountInv /\ ReportInv /\ RoomInv /\ [Next]_vars
        => (IInv /\ CountInv /\ ReportInv /\ RoomInv)'
  BY Preserved, CountInvariant, ReportsKept, RoomKept DEF Step
<1> QED
  BY <1>1, <1>2, PTL DEF Spec

\* Every channel keeps within its capacity, and every count within the request: the type
\* invariant of the runs.
THEOREM TypeCorrect == Spec => []TypeOK
<1>1. IInv /\ CountInv /\ ReportInv /\ RoomInv => TypeOK
  <2> SUFFICES ASSUME IInv, CountInv, ReportInv, RoomInv PROVE TypeOK
    OBVIOUS
  <2>1. /\ it \in [Threads -> 0..MaxTotal] /\ csd.done \in [Threads -> 0..MaxTotal]
        /\ sub \in [Threads -> Seq(Messages)]
    BY CountsBounded DEF IInv, ReportInv
  <2>2. csd \in [done  : [Threads -> 0..MaxTotal],
                 final : [Threads -> {"none", "complete", "aborted", "error"}]]
    <3>1. csd = [done |-> csd.done, final |-> csd.final] /\ csd.final \in [Threads -> Outcomes]
      BY DEF IInv, Types
    <3> QED
      BY <2>1, <3>1 DEF Outcomes
  <2>3. sent.finals \in Nat /\ sent.clash \in BOOLEAN
    BY DEF IInv, Types, Sent
  <2> QED
    BY <2>1, <2>2, <2>3 DEF TypeOK, IInv, Types, ReportInv, RoomInv, FinalsInv
<1> QED
  BY <1>1, AllInvariant, PTL

=============================================================================
