--------------------------- MODULE PendingActions ---------------------------
(***************************************************************************)
(* The event queue of one simulation (sim/core/sim.go,                     *)
(* sim/core/pending_action.go): pending actions ordered by time and        *)
(* priority, the loop that pops them, the pool that recycles the structs   *)
(* of the fire-and-forget ones, and the next iteration, which truncates    *)
(* the queue but keeps the structs their owners hold.                      *)
(*                                                                         *)
(* The callbacks (auras that expire while the clock advances, the action   *)
(* itself, weapon swings and tasks) are any sequence of the operations the *)
(* code's callers perform on the queue:                                    *)
(*   - a held action is rescheduled the way SetRotationTimer,              *)
(*     newHardcastAction and SetTimeoutAction do it;                       *)
(*   - a periodic action is started once and re-adds itself;               *)
(*   - a pooled action is fired and forgotten, or re-adds itself.          *)
(***************************************************************************)
EXTENDS Integers, Sequences, SequencesExt, FiniteSetsExt

CONSTANTS
  Held,           \* structs a unit keeps and reschedules
  Periodic,       \* structs made by NewPeriodicAction
  Pooled,         \* structs made by or taken from pendingActionPool
  Priorities,     \* values of ActionPriority in use
  EndTime,        \* endOfCombatDuration
  MaxTime,        \* bound: the latest time anything is scheduled for
  MaxIterations,  \* bound: iterations of the simulation
  Nobody          \* no action is between its pop and its end

Actions == Held \cup Periodic \cup Pooled

ASSUME PendingActionsAssumption ==
  /\ Held \cap Periodic = {} /\ Held \cap Pooled = {} /\ Periodic \cap Pooled = {}
  /\ Priorities \subseteq Int /\ Priorities # {}
  /\ EndTime \in Nat /\ MaxTime \in Nat /\ EndTime <= MaxTime
  /\ MaxIterations \in Nat \ {0}
  /\ Nobody \notin Actions

VARIABLES
  now,        \* sim.CurrentTime
  queue,      \* sim.pendingActions without its sentinel: the last one is next
  at,         \* NextActionAt
  prio,       \* Priority
  cancelled,  \* set of actions whose flag is set
  consumed,   \* set of actions whose flag is set
  made,       \* structs that exist
  pool,       \* how often a struct is in pendingActionPool
  running,    \* the action Step has popped
  phase,      \* where the event loop is
  iteration,
  wanted      \* history: actions scheduled, not cancelled and not performed since

flags == <<at, prio, cancelled, consumed>>
vars  == <<now, queue, flags, made, pool, running, phase, iteration, wanted>>

Times == 0..MaxTime

TypeOK ==
  /\ now \in Times
  /\ queue \in Seq(Actions)
  /\ at \in [Actions -> Times]
  /\ prio \in [Actions -> Priorities]
  /\ cancelled \subseteq Actions
  /\ consumed \subseteq Actions
  /\ made \subseteq Actions
  /\ pool \in [Pooled -> Nat]
  /\ running \in Actions \cup {Nobody}
  /\ phase \in {"setup", "idle", "popped", "advancing", "acting", "swinging", "over"}
  /\ iteration \in 1..MaxIterations
  /\ wanted \subseteq Actions

\* Held structs exist before the first iteration; the others are made on demand.
Init ==
  /\ now = 0
  /\ queue = <<>>
  /\ at = [p \in Actions |-> 0]
  /\ prio \in [Actions -> Priorities]
  /\ cancelled = {} /\ consumed = {}
  /\ made = Held
  /\ pool = [p \in Pooled |-> 0]
  /\ running = Nobody
  /\ phase = "setup"
  /\ iteration = 1
  /\ wanted = {}

-----------------------------------------------------------------------------
(* AddPendingAction and Cancel.                                            *)

\* (mutant: among equals the newest comes first)
DueBeforeStrict(v, t, pr) == at[v] < t \/ (at[v] = t /\ prio[v] > pr)

\* (mutant: the times are compared the wrong way round)
DueAfter(v, t, pr) == at[v] > t \/ (at[v] = t /\ prio[v] >= pr)

\* A queued action v is performed before a new one with time t and priority pr.
DueBefore(v, t, pr) == at[v] < t \/ (at[v] = t /\ prio[v] >= pr)

\* The new action goes in front of the first such v, or to the end.
Slot(q, t, pr) ==
  LET I == {i \in 1..Len(q) : DueBefore(q[i], t, pr)}
  IN  IF I = {} THEN Len(q) + 1 ELSE Min(I)

\* (mutant: the slice is not grown before it is shifted)
InsertedOver(q, p, t, pr) ==
  LET i == Slot(q, t, pr)
  IN  IF i > Len(q) THEN Append(q, p) ELSE [q EXCEPT ![i] = p]

Inserted(q, p, t, pr) == InsertAt(q, Slot(q, t, pr), p)

Without(q, p) == RemoveFirst(q, p)

\* AddPendingAction on queue q, with the time and the priority the caller set.
AddTo(q, p, t, pr) ==
  /\ queue' = Inserted(q, p, t, pr)
  /\ at' = [at EXCEPT ![p] = t]
  /\ prio' = [prio EXCEPT ![p] = pr]
  /\ consumed' = consumed \ {p}
  /\ cancelled' = cancelled \ {p}
  /\ wanted' = wanted \cup {p}

-----------------------------------------------------------------------------
(* What callbacks do.                                                      *)

InCallback == phase \in {"setup", "advancing", "acting", "swinging"}

\* (mutant: the old entry is not cancelled)
RescheduleUnguarded(p, t) ==
  /\ InCallback /\ p \in Held
  /\ AddTo(queue, p, t, prio[p])
  /\ UNCHANGED <<now, made, pool, running, phase, iteration>>

\* SetRotationTimer and its like: an action that was not consumed is cancelled
\* first.
Reschedule(p, t) ==
  /\ InCallback /\ p \in Held
  /\ AddTo(IF p \in consumed \/ p \in cancelled THEN queue ELSE Without(queue, p),
           p, t, prio[p])
  /\ UNCHANGED <<now, made, pool, running, phase, iteration>>

\* Cancel, by an owner (CancelGCDTimer, Disable, the end of an aura).  Nobody
\* cancels a periodic action from its own callback.
Cancel(p) ==
  /\ InCallback /\ p \in (Held \cup Periodic) \cap made
  /\ ~(phase = "acting" /\ p = running /\ p \in Periodic)
  /\ p \notin cancelled
  /\ cancelled' = cancelled \cup {p}
  /\ queue' = Without(queue, p)
  /\ wanted' = wanted \ {p}
  /\ UNCHANGED <<now, at, prio, consumed, made, pool, running, phase, iteration>>

\* StartPeriodicAction without TickImmediately: a new struct, one period away.
StartPeriodic(p, t, pr) ==
  /\ InCallback /\ p \in Periodic \ made
  /\ made' = made \cup {p}
  /\ AddTo(queue, p, t, pr)
  /\ UNCHANGED <<now, pool, running, phase, iteration>>

\* (mutant: the pool is not asked whether it has one)
FireAnyway(p, t, pr) ==
  /\ InCallback /\ p \in Pooled
  /\ made' = made \cup {p}
  /\ pool' = IF p \in made THEN [pool EXCEPT ![p] = @ - 1] ELSE pool
  /\ AddTo(queue, p, t, pr)
  /\ UNCHANGED <<now, running, phase, iteration>>

\* GetConsumedPendingActionFromPool takes a struct from the pool or makes one.
Fire(p, t, pr) ==
  /\ InCallback /\ p \in Pooled
  /\ \/ /\ p \notin made
        /\ made' = made \cup {p}
        /\ UNCHANGED pool
     \/ /\ pool[p] > 0
        /\ pool' = [pool EXCEPT ![p] = @ - 1]
        /\ UNCHANGED made
  /\ AddTo(queue, p, t, pr)
  /\ UNCHANGED <<now, running, phase, iteration>>

\* A pooled action schedules itself again, once, from its own OnAction.
Repeat(t) ==
  /\ phase = "acting" /\ running \in Pooled /\ running \in consumed
  /\ AddTo(queue, running, t, prio[running])
  /\ UNCHANGED <<now, made, pool, running, phase, iteration>>

Callback ==
  \E t \in now..MaxTime :
    \/ \E p \in Held : Reschedule(p, t)
    \/ \E p \in Periodic, pr \in Priorities : StartPeriodic(p, t, pr)
    \/ \E p \in Pooled, pr \in Priorities : Fire(p, t, pr)
    \/ Repeat(t)

-----------------------------------------------------------------------------
(* The event loop.                                                         *)

\* (mutant: structs are recycled without looking at the consumed flag)
DisposedAlways(p, cons) ==
  IF p \in Pooled THEN [pool EXCEPT ![p] = @ + 1] ELSE pool

\* dispose: a pooled struct that did not schedule itself again is recycled.
Disposed(p, cons) ==
  IF p \in Pooled /\ p \in cons THEN [pool EXCEPT ![p] = @ + 1] ELSE pool

\* The encounter's PrePull is over.
Start ==
  /\ phase = "setup"
  /\ phase' = "idle"
  /\ UNCHANGED <<now, queue, flags, made, pool, running, iteration, wanted>>

\* Step pops the next action.  It ends the fight when the action is past the end
\* or when the target has taken enough damage; otherwise the clock advances, if it
\* has to, and with it auras expire.
Step ==
  /\ phase = "idle" /\ queue # <<>>
  /\ LET p == Last(queue) IN
     /\ queue' = Front(queue)
     /\ consumed' = consumed \cup {p}
     /\ \/ /\ pool' = Disposed(p, consumed')
           /\ phase' = IF p \in cancelled THEN "idle" ELSE "over"
           /\ UNCHANGED <<now, running>>
        \/ /\ p \notin cancelled /\ at[p] <= EndTime
           /\ running' = p
           /\ now' = IF at[p] > now THEN at[p] ELSE now
           /\ phase' = IF at[p] > now THEN "advancing" ELSE "popped"
           /\ UNCHANGED pool
  /\ UNCHANGED <<at, prio, cancelled, made, iteration, wanted>>

\* Step pops the sentinel, or finds a weapon attack or a task due past the end.
FightEnds ==
  /\ phase = "idle"
  /\ phase' = "over"
  /\ UNCHANGED <<now, queue, flags, made, pool, running, iteration, wanted>>

\* (mutant: the flag is not looked at again after the clock has advanced)
ActBlindly ==
  /\ phase \in {"popped", "advancing"}
  /\ phase' = "acting"
  /\ wanted' = IF running \in ToSet(queue) THEN wanted ELSE wanted \ {running}
  /\ UNCHANGED <<now, queue, flags, made, pool, running, iteration>>

\* The clock has advanced and auras have expired: the action may be cancelled.
Act ==
  /\ phase \in {"popped", "advancing"}
  /\ IF running \in cancelled
     THEN /\ phase' = "idle" /\ running' = Nobody
          /\ pool' = Disposed(running, consumed)
          /\ UNCHANGED wanted
     ELSE /\ phase' = "acting"
          /\ wanted' = IF running \in ToSet(queue) THEN wanted ELSE wanted \ {running}
          /\ UNCHANGED <<running, pool>>
  /\ UNCHANGED <<now, queue, flags, made, iteration>>

\* The end of OnAction.  A periodic action is re-added, or cancelled after its
\* last tick.
Finish ==
  /\ phase = "acting"
  /\ \/ /\ running \notin Periodic
        /\ pool' = Disposed(running, consumed)
        /\ UNCHANGED <<queue, flags, wanted>>
     \/ /\ running \in Periodic
        /\ \E t \in now + 1 .. MaxTime : AddTo(queue, running, t, prio[running])
        /\ UNCHANGED pool
     \/ /\ running \in Periodic
        /\ cancelled' = cancelled \cup {running}
        /\ queue' = Without(queue, running)
        /\ wanted' = wanted \ {running}
        /\ UNCHANGED <<at, prio, consumed, pool>>
  /\ phase' = "idle" /\ running' = Nobody
  /\ UNCHANGED <<now, made, iteration>>

\* (mutant: a swing is allowed to overtake the queue)
SwingLate(t) ==
  /\ phase = "idle" /\ t <= EndTime
  /\ now' = t
  /\ phase' = "swinging"
  /\ UNCHANGED <<queue, flags, made, pool, running, iteration, wanted>>

\* Step finds a weapon attack or a task that is due no later than the queue.
Swing(t) ==
  /\ phase = "idle" /\ t <= EndTime
  /\ queue # <<>> => t <= at[Last(queue)]
  /\ now' = t
  /\ phase' = "swinging"
  /\ UNCHANGED <<queue, flags, made, pool, running, iteration, wanted>>

EndSwing ==
  /\ phase = "swinging"
  /\ phase' = "idle"
  /\ UNCHANGED <<now, queue, flags, made, pool, running, iteration, wanted>>

\* Cleanup disposes of what is still queued (none of it is consumed, so none is
\* recycled); reset truncates the queue and starts the clock again.  Periodic
\* actions are made anew.
NextIteration ==
  /\ phase = "over" /\ iteration < MaxIterations
  /\ pool' = [p \in Pooled |->
                pool[p] + (IF p \in ToSet(queue) /\ p \in consumed THEN 1 ELSE 0)]
  /\ queue' = <<>>
  /\ made' = made \ Periodic
  /\ cancelled' = cancelled \ Periodic
  /\ consumed' = consumed \ Periodic
  /\ wanted' = {}
  /\ now' = 0
  /\ phase' = "setup"
  /\ iteration' = iteration + 1
  /\ UNCHANGED <<at, prio, running>>

Next ==
  \/ Callback
  \/ \E p \in Held \cup Periodic : Cancel(p)
  \/ Start \/ Step \/ FightEnds \/ Act \/ Finish
  \/ \E t \in now..EndTime : Swing(t)
  \/ EndSwing \/ NextIteration

Spec == Init /\ [][Next]_vars

-----------------------------------------------------------------------------
(* Properties.                                                             *)

Queued == ToSet(queue)

\* The queue is sorted: a later slot is due earlier, or at the same time with at
\* least the priority (Step takes the last slot, Step and the callers rely on it).
QueueSorted ==
  \A i, j \in 1..Len(queue) :
    i < j => \/ at[queue[j]] < at[queue[i]]
             \/ at[queue[j]] = at[queue[i]] /\ prio[queue[j]] >= prio[queue[i]]

\* No newcomer overtakes an action that is due when it is and has at least its
\* priority ("so that we never go backwards in the priority order"): the order of
\* two such actions, and with it the random numbers they draw, is that of their
\* scheduling.
NewcomersWait ==
  [][\A i, j \in 1..Len(queue') :
       LET new == queue'[j]  old == queue'[i] IN
       /\ new \notin Queued /\ old \in Queued
       /\ at'[old] = at'[new] /\ prio'[old] >= prio'[new]
       => j < i]_vars

\* Nothing queued is overtaken by the clock: neither the pop order nor a swing
\* that Step prefers to the queue leaves an action behind in the past.
NothingOverdue == \A p \in Queued : at[p] >= now

\* An action is queued at most once, and the flags tell which ones are: a struct
\* in the queue is neither cancelled nor consumed, so "!pa.consumed" is the test
\* its owner can cancel by, and the one Step has popped is consumed unless it
\* was scheduled again.
QueuedOnce ==
  /\ \A i, j \in 1..Len(queue) : i # j => queue[i] # queue[j]
  /\ Queued \subseteq made \ (cancelled \cup consumed)

\* What the event loop relies on when it takes the last action of the queue.
QueueOrderly == QueueSorted /\ QueuedOnce /\ NothingOverdue

\* A struct in the pool is in nobody's hands: it is there once, it is not queued
\* and it is not the one Step is working on ("re-used once consumed").
PoolSafe ==
  \A p \in Pooled :
    pool[p] # 0 => /\ pool[p] = 1
                   /\ p \in made
                   /\ p \notin Queued
                   /\ p # running

\* What was scheduled and not cancelled stays queued until it is performed: no
\* insertion, cancellation or reuse of a struct drops another action.
NothingLost ==
  phase # "over" =>
    \A p \in wanted : p \in Queued \/ (p = running /\ phase \in {"popped", "advancing"})

\* A cancelled action is not performed, even when what cancels it happens between
\* its pop and its OnAction (the second look of Step at the flag).
CancelledNeverActs ==
  [][phase # "acting" /\ phase' = "acting" => running \in wanted]_vars
=============================================================================
