# Models and proofs of the simulator

This directory holds TLA+ specifications of the simulator in `src/`, the TLC
configurations that check them on small instances, and TLAPS proofs of the
results that matter most. `PROJECT.json` lists the components, the runs, the
mutants of the code each property detects, the source lines each definition
stands for, the hazards of the code and the theorems.

Parse a module with `tlasany M.tla`, check a run with
`tlc -config X.cfg M` (where a module `MCX` exists it is the one to run; the
runs of `PROJECT.json` name the module of each), check the proofs with `tlapm M.tla`, for each
module `M` whose name ends in `_proofs`.

## 1. The system

The program simulates fights of a raid against an encounter, many iterations
per request, and reports damage, healing and threat. It is built from a
single-threaded discrete-event core and several concurrent layers around it.

| Part | Code | State | Operations | Hard behaviour |
|---|---|---|---|---|
| Event loop | `sim/core/sim.go` | clock, queue, trackers, weapon attacks, tasks, the cached minimum of each list | `Step`, `advance`, `advanceWeaponAttacks`, `advanceTasks`, `reset`, `Cleanup` | callbacks change the lists and the queue while the loop walks over them; cached minima go stale |
| Event queue | `pending_action.go`, `periodic_action.go`, `gcd.go` | `pendingActions`, the flags `cancelled` and `consumed`, the pool | `AddPendingAction`, `Cancel`, `dispose`, `GetConsumedPendingActionFromPool`, `StartPeriodicAction`, `SetRotationTimer` | structs are kept, reused and recycled across events and iterations |
| Auras | `aura.go`, `aura_helpers.go`, `exclusive_effect.go` | active auras, expiry times, stacks, `minExpires` | `Activate`, `Refresh`, `Deactivate`, `advance`, `doneIteration` | callbacks of an expiring aura activate and deactivate others |
| Damage over time | `dot.go` | remaining ticks, `tickAction`, period | `Apply`, `periodicTick`, `AddTick`, `Rollover` | the last tick, the aura's expiry and a re-application meet at one instant |
| Auto attacks | `attack.go`, `movement.go` | swing timers, enabled flags | `trySwing`, `swing`, `Enable*`, `Cancel*` | timers are added and removed from inside a swing |
| Casts, cooldowns, resources | `cast.go`, `gcd.go`, `cooldown.go`, `major_cooldown.go`, `mana.go`, `energy.go`, `rage.go`, `focus.go`, `spell_queueing.go` | timers, hard cast, pools of resources | casting, waiting, regeneration | a cast completes, a timer wakes and a resource ticks at one instant |
| Rotation | `apl*.go` | action lists, sequences, groups | `getNextAction`, `Reset`, sequences | re-entrancy of actions that trigger actions |
| Units and pets | `unit.go`, `character.go`, `pet.go`, `target*.go`, `environment.go` | statistics, enabled flags | `Enable`, `Disable`, inheritance | a pet that expires while its action is queued |
| Abort signals | `simsignals/` | registry of ids, one channel per signal | `RegisterWithId`, `UnregisterId`, `AbortById`, `Trigger`, `IsTriggered` | any goroutine aborts any job |
| Concurrent simulation | `sim_concurrent.go` | one channel and one result slot per thread | split, select loop, combination | errors, aborts, full channels, early return |
| Bulk simulation | `bulk/`, `web/bulk.go`, `reforge_optimizer/` | candidates, stages, caches of solved gear | generation, pre-pass, stages, merging | worker pools, shared signal, streaming of partial results |
| Statistics weights | `statweight.go` | one simulation per statistic | `runStatWeights` | channels of many simulations |
| HTTP and WASM front ends | `web/main.go`, `web/async_progress.go`, `wasm/main.go`, `lib/` | progress entries, queues of candidates | handlers, consumer goroutine, polling | concurrent polls, failed writes, silence timeouts |
| Game content | `sim/common`, `sim/druid`, ..., `sim/encounters` | auras, spells and procs of each class | clients of the core | uses of the core's operations |
| Browser UI | `ui/` | workers, settings, signals | worker pool, request queue | messages between workers |
| Tools and data | `tools/`, `cmd/`, `proto/`, `assets/`, `schemas/` | none at run time | generation of the database | none |

## 2. Modules and their correspondence to the code

`AsyncJob` is an abstract specification that `ConcurrentSim` implements. `BulkJob`
composes `ReforgePrepass` and `BulkStages`, whose parameters the first shares through
`ReforgeConstants`. The modules `MCAuraTracker`, `MCWeaponTimers`, `MCDotTicks`,
`MCBulkJob`, `MCBulkStages` and `MCSpellCasts` give their modules units, attacks, dots,
gear and spells to work with; every other configuration instantiates its module
directly.

### SimSignals: abort signals and the jobs that register for them

A signal is named by its owner, `<<j, n>>` being the channel made by the n-th
registration of job `j`; `tracked` is the registry map and `closed` the set of
closed channels. `RegisterWithId` and `UnregisterId` are one critical section
each. `AbortById` is three steps of a caller, because only the first one is under
the lock: `GetById`, `TriggerSelect` (the select on the channel), `TriggerClose`.
A plain job (`RunRaidSimAsync` and its siblings) registers, runs and leaves
through its deferred unregister. A bulk job registers for the generation and
optimization of its candidates, gives the id back in `HandBack`, and registers it
anew in `Delegate`, inside `BulkSimAsync`; `DeferredUnregister` is the deferred
call of the outer function, guarded by the plain bool `registered` that the
closure `unregister` shares (`bulk.go:85-90`, `UnregisterOnce`). What a job computes is reduced to its abort checks, of which `MaxChecks` are counted.

### AsyncJob and ConcurrentSim: one request on several threads

`AsyncJob` promises reports that never go back, one final message and a closed
channel, and that a complete result counts all iterations. `ConcurrentSim` is
`runSimConcurrent`: the split (`Splits`, `ItersOf`), the threads (`runSim` and
`Simulation.run`, with the presimulation, the first iteration outside the loop,
the abort check of each iteration, and a panic anywhere for threads of `Faulty`),
the select loop of the coordinator, its early return on an error or an abort, its
recovery from a panic, and the reader of the outer channel, which may give up
after a silence. A report that the code sends every 100 ms or so is sent or
skipped freely, which covers every timing. Metrics are dropped, counts are kept.

One step is coarser than the code: the coordinator's `RecoverTrigger` selects and
closes at once, since all it can add is a panic outside of any recovery. The two
steps are separate wherever the request's result depends on them.

### AsyncProgress: serving the progress of a request

`SendMessage`, `EmitBatch`, `EmitReport` and `EmitFinal` are the job seen from the
reporter channel, `Receive`, `AppendPending` and `StoreLatest` the consumer
goroutine of `handleAsyncAPI`, `Lookup` to `DeleteEntry` one `/asyncProgress`
request, cut where the code takes or releases a lock or writes to the client. A
failed marshalling or write (`WriteFails`) is the early return before
`markOptimizedCandidatesDelivered`. The history variable `received` counts what a
client really got. The reporter channel holds a hundred messages and is modelled
without a limit; the job is modelled as one sender. What the workers of the reforge
pool send, and in which order, is in `ReforgePrepass`.

### PendingActions: the event queue

`queue` is `pendingActions` without its sentinel. `Step` is cut where game code
may run: an action is popped (`Step`), the clock moves and auras fade
(`"advancing"`), the action is performed (`Act`) and disposed of (`Finish`). In
each of these places, during set-up and during a weapon swing, `Callback` performs
any of the operations callers have: rescheduling a held struct the way
`SetRotationTimer` does (a consumed struct is changed in place, a queued one is
cancelled and replaced), starting a periodic action, firing a recycled one, or
cancelling. A recycled struct may re-add itself from its own `OnAction`, as
`druid/feralcat` does. `NextIteration` is `Cleanup` and `reset`: the structs of the
units survive, the queue does not. `wanted` is a history variable with the actions
somebody is entitled to see performed.

### AuraTracker: timed auras and the caches over their expiry

Two levels of caches decide whether an aura is looked at: `minExpires` per unit
and `minTrackerTime` over all units. The range loop of `advance` and the walk of
`auraTracker.advance` are `pass`: `Visit` fixes the element of the backing array
the loop is at, and callbacks of a fading aura run in stage `"code"`. `Unlist` is
`removeBySwappingToBack` with the correction of `activeIndex`; `RemoveTracker` is
the same on the list of trackers, whose backing array keeps what was behind the
new end. `min(sim.minTrackerTime, t.tryAdvance(sim))` reads the variable after the
call, so that what callbacks lower is kept (`Report`). Stacks, exclusive effects,
the other eleven lists of callbacks and `doneIteration` are left out; pets are
summoned between passes only, as their callers do from casts.

### WeaponTimers: auto attacks

`advanceWeaponAttacks` is a range loop over a slice that swings themselves alter.
`BeginSwing`, `Cast` and `EndSwing` cut a swing at its two callbacks: the reaction
of the rotation before it, and the cast with its procs. `CancelAutoSwing` and
`EnableAutoSwing` alter the list; `StopMeleeUntil`, `PauseMeleeBy` and
`UpdateSwingTimers` move timers, and `Defer` is a swing that waits for a cast under
the Classic ruleset. The backing array is long enough for all attacks, which holds
from the second iteration on. Range checks, the desynchronisation of the off hand
and `DelayRangedUntil` are left out. `Report` takes the cached time as it is after the swing. The Go language leaves open
whether `min(sim.minWeaponAttackTime, wa.trySwing(sim))` reads the field before or after
the call (`sim.go:566`); the compiler in use calls first, and the other order would undo what
the swing has rescheduled.

### DotTicks: damage over time and the rotation of the caster

A dot is an aura and a pending action at once, and the functions of the code call
one another across both, so each is an operator from the state they share to its
next value (`Apply` deactivates, `Deactivate` calls `OnExpire`, which may tick,
cancels the action and may call `WaitUntil`). `Tick` is `periodicTick` with every
interrupt a rotation may decide on. `Turn...` are the branches of `DoNextAction`;
the guard that a rotation takes one action per turn replaces the loop over its
list. `Hit` stands for missiles and completed casts, `CrowdControl` for
`Unit.Interrupt` and `React` for `ReactToEvent`. `began`, `made`, `cut` and
`disturbed` are history. Casts are instant here, `SpellCasts` has those
that are not; controlling actions are not modelled. A dot of `OwnEnding` may be
deactivated by its own tick, as Seed of Corruption is at its damage cap; `OnExpire` then
takes the tick it is in for one the queue did not get to, and ticks again. A dot of
`Hasted` is applied with any length of its ticks in `Periods`, shorter than the base length
under haste and longer under a slow, and `TickCount` is `HastedTickCount` with its rounding to
even; one of `Shrinking` (`HasteReducesDuration`) keeps its number of ticks and lasts less
or more. `TickLengths` excludes only a slow that would leave a dot no tick, on which
`Aura.Activate` panics. The loop of `advance` over the auras is a recursive function over
those that are due, which each fade through the whole of `Deactivate`. `AddTick`, `CopyDotAndApply` and
`DurationExtend` have no caller in the repository.

### SpellCasts: casts, cooldowns, the spell queue and the rotation

The code calls back into itself: a completed cast has effects, an effect wakes the
rotation, the rotation casts. `stack` holds the calls still to be made, the innermost
first, and each call of the code is an action that replaces the top of the stack by the
calls it makes; between calls (`Quiet`) the loop performs the next pending action
(`Step`), or something happens to the unit at or before that time: a swing or a gain of
rage (`Event`), a hit (`Hit`), crowd control (`Interrupt`). A cast is completed by
whichever comes first of `RotationAction`, `HardcastAction` and, for the Classic paladin,
`Boundary`; `TakeDue` takes it off the unit before its completion runs. `Cast` is
`Spell.Cast` with the checks it makes again, the cancelling of a queued spell and the
start of a hardcast; `QueueSpell` is the queueing half of `CastOrQueue`. The rotation is
the user's, so that `ChooseCast` and `ChooseQueue` take any spell that it may.
`agenda` holds the pending actions of this unit in the order of the queue, which
`PendingActions` is about. `open` and `lastCast` are history. Costs, charges, shared
cooldowns, movement and channels are left out; the latter are in `DotTicks`.

### ReforgePrepass: optimizing the gear of the candidates

`optimizeBulkSimReforgeCandidates`: the goroutine of the job feeds a channel of tasks
(`Feed`), closes it (`CloseJobs`), waits for its workers and flushes the accumulator
(`Flush`). A worker is cut where the code takes or releases a lock, waits or sends:
`Lookup` under the read lock, `Enter` under the write lock, `Solve` outside of both,
`Store`, `Publish` (gear and `close(done)`), `Drop` (the entry of `inFlightByKey`), `Await`
for those that found a solve in flight, `Complete` under the accumulator's lock with the
batch it may hand over, and `Emit` outside of it. The linear program is the function
`Reforged`; that it fails or is aborted is open. `streamed` and `solves` are history.

### BulkStages: simulating in stages

`runBulkSim` with its legacy form, the three stages with carry-over, adaptive passes and
culling, the finalist stage, and the pool of workers of `batch.go` with its shared
signal. A result is the sequence of the seed offsets of its samples, or an error: this is
what the properties need, for candidates are compared on common random numbers and a
stage only adds the samples that the one before lacks. Which iterations a stage aims at,
who is culled and which finalists are unresolved is decided by statistics in the code
and is open in the model, within the bounds the code sets. A segment of a simulation is
one step. `TriggerSelect` and `TriggerClose` are the two steps of `Trigger`, of which the
second panics on a closed channel; nothing recovers there, and `pc = "crashed"` is the end
of the process.

### BulkJob: a bulk request from end to end

The two halves composed by `INSTANCE`, with what surrounds them: the registration of the
id, the generation of candidates that may fail, the checks of the signal, the hand-over
of the id (`Unregister`, `Delegate`) and the final message. `Forget` drops what was local
to the first half. Of the registry only whose signal the id leads to is kept, since
`SimSignals` shows that it is exact. `reforge` chooses requests with and without the
first half, and `Requests` has the empty one that was served from a cache.

## 3. Runs

| Run | Instance | Shows |
|---|---|---|
| `signals` | one id, a plain and two bulk jobs, two callers | the registry is exactly the live registrations, through every hand-over; an acknowledged abort of a plain job stops it |
| `signals_handover` | one bulk job suffices | finding 1 |
| `concurrent` | two threads that may fail, 0, 1 or 3 iterations, two aborters, sub-channels of 2, an outer channel of 2 | a complete result holds every part in full; `AsyncJob` is implemented; no orphan thread goes on; all goroutines end, but for threads that an early return leaves at a full channel |
| `progress` | two polls, two streamed and one restored candidate, one report, one failure | no candidate lost, none sent more often than polls overlap, the entry goes |
| `queue` | a held, a periodic, a recycled struct, three instants, two priorities, two iterations | order, completeness, no duplicates, safe recycling, cancellation |
| `auras` | a player with two auras, two pets with one each, times 0 to 3 | indices and caches, expiry from callbacks, dismissal within a pass |
| `swings` | a dual-wielding player and a boss, times 0 to 5 | the list, the cached minimum and the time of each swing |
| `dots` | a channel that haste shortens and a poison that gains ticks and may end itself, two ticks of length 2, or lengths 1 under haste and 3 under a slow, times 0 to 7 | exactly one tick per period, one queued tick per dot, a wake-up after each channel |
| `bulk` | three reforging workers, three candidates of two gears with a gap, batches of two; three stages and the finals of up to two candidates, two workers | no gear solved, streamed or simulated twice; equal samples; a complete result is whole and heeded every abort; the job ends |
| `bulk_crash` | three candidates | finding 2 |
| `casts` | a slow spell, a shorter one with a cooldown, an instant one; two hits or interrupts; both rulesets; times 0 to 21 | casts complete on time and, under the Classic rules, none is lost but one whose end a hit moved behind a queued spell; cooldowns and the queue hold; the rotation stays awake |
| `casts_lost` | the same, other rulesets | finding 3 |

The bounds are chosen by what has to happen, not by size. Two threads are the
fewest with an order of arrival, and 0, 1 and 3 iterations give an empty request,
one with fewer iterations than threads, and one with a remainder. A sub-channel of 2
is less than the three or four messages a thread sends, so that threads block at a full one, both while the
coordinator receives from it and after an early return, when nobody does; in the code that takes more
than 20 reports that nobody has read. An outer channel of 2 lets the coordinator block. One priority above
another and three instants give every kind of tie; two iterations are needed for
structs that survive one. Two pets are needed for a dismissal to move a tracker to
a place the range loop has passed, and three attacks for the same with swings. Ticks
of length 1 and 3 let a channel of two be interrupted on and between ticks and run out
before and after the global cooldown of length 3, and give a poison four ticks or one
before it is prolonged, replaced or consumed.
Of three reforging workers one may solve, one wait for it and one come late, while the
candidates between them share a gear, come to nothing or are solved to gear that another
one has. A cull to one survivor in each of two stages makes all three stages run; a
request of the legacy form skips to the third, and either may reach the finals with two. In
`casts` one unit of time is the nanosecond by which a queued spell is delayed. The other durations are chosen
so that a hit can move the end of a cast onto the very instant of a queued spell: slam, cast at 0,
is ready at 19 and queued for 20, and bolt, begun at 8, ends at 16 or, after a hit, at 20.
Hits come at 2, 6, 13 and 19, which is within casts, and 21 is past the end of that contest.
`CHECK_DEADLOCK FALSE` stands where the system stops for good: a request that is
over, a simulation after its last iteration, a fight that has ended.

Five properties have an exception that the code forces.
`AttacksKept` and `SwingsOnTime` do not speak of the pass after one in
which attacks were stopped and started again: with such a restart,
`removeBySwappingToBack` has moved the attack of another unit to a place the loop
was past, its time is missing in the new minimum, and its swing comes late.
`RotationNeverLost` excludes a reaction to an event during a channel
(`gcd.go:97`): it moves the only rotation timer, the wake-up is used up while
channelling, and an interrupt before the global cooldown is over then wakes nobody
(`dot.go:359` schedules only if the cooldown is ready), although `dot.go:357` says
to "always schedule rotation here". `NoExtraTick` grants one repeated tick to a dot that
its own tick deactivated. `CastsOnTime` counts in `overtaken` the casts of a Classic unit whose end a hit
moved after a spell had been queued behind them (`behind` is the end the queued spell
knew) and which that spell then replaced (`spell_queueing.go:43`); every other cast that begins
also ends. `ThreadsExit` lets a thread that the coordinator has left stay at its channel
while that is full (`sim_concurrent.go:521`). It demands that a thread whose channel has room for its
last words (`LastWords`) ends, and that nobody waits for ever in any other place. The first three and `CastsOnTime`
track their exception by history; that of `ThreadsExit` is visible in the state.

### Fairness

Liveness is checked in three modules. In `ConcurrentSim` every goroutine that
can run is run by the Go scheduler: weak fairness of each thread, of the
coordinator and of the reader's receive. An abort may never come, so aborters are
fair only once they are between the select and the close. In `AsyncProgress` the
pipeline ends, the consumer goroutine is scheduled and a client keeps polling
until it is told that there is nothing more. That the pipeline ends is what
`ConcurrentSim` establishes for a simulation; that a client polls on is the
behaviour of the browser, and without it the code keeps the entry for ever. In `BulkJob` every goroutine of both pools is
scheduled, and simulations and solves end: the optimizer has a time limit, and a
simulation ends by `ConcurrentSim`. Nobody needs to abort. The progress channel of the job is taken to be drained,
as `handleAsyncAPI` does until it is closed or silent. `JobEnds` counts the
end of the process (`pc = "crashed"`) as an end. It says that nobody waits for ever, and that the process
does not crash is `NeverCrashes`, which the code breaks (finding 2).

### Findings

Each of these is a run that TLC refutes, and `PROJECT.json` quotes the lines it
contradicts.

1. An abort that is acknowledged between the last check of a bulk job and the
   return of its id is lost: the job registers a new signal and runs on
   (`signals_handover`).
2. When the extra segment of the baseline in the finalist stage is aborted or fails, a
   baseline without metrics is returned and then read, in a goroutine that recovers
   nothing: the process ends (`bulk_crash`).
3. A wake-up of the rotation at the very moment a cast is due begins the next cast before
   the due one is completed, which replaces it, so that its effects never come. The code
   guards one ruleset against it (`casts_lost`; `CastsOnTime` shows that the guard works, but for
   the queued spell described below).

The models contain some further behaviour of the code that a maintainer may want to look
at, described here since no run is devoted to it:

- The guard of finding 3 has a gap. `QueueSpell` lets a queued spell come up one nanosecond after the
  last of its timers, and its action calls `Cast` without completing a due cast first
  (`spell_queueing.go:43`). If a hit pushes the end of the current cast to exactly that nanosecond,
  its action is queued anew, behind the queued spell, which then begins the next cast and
  replaces the one that is due. This happens in the run `casts`, where `overtaken` counts it, and it is the only way
  in which a Classic cast is lost (`ClassicCastsEnd`).
- When the coordinator returns early, a thread whose channel of 20 is full, or fills up with its last
  report and its final message, waits there for ever (`sim_concurrent.go:521`): nobody receives any more, and the
  abort check does not help a thread that is sending. `ThreadsExit` says that this is the only way to stay behind.
- `Trigger` (`signals.go:7-12`) selects and closes in two steps, so that the second of two
  concurrent aborts panics. `SimSignals`, `ConcurrentSim` and `BulkStages` have the two
  steps. When an error of a thread and an abort meet, the coordinator's own trigger may
  panic after the error was sent, and its recovery sends a second final message;
  `FinalSound` allows that one case.
- A weapon attack that a swing stops is still swung if the same pass of the range loop
  reaches it (`sim.go:566`), since `trySwing` does not look at `enabled`.
- A dot that its own tick deactivates ticks again at that instant (`dot.go:344`).
- `CancelHardcast` sets the global cooldown to the reaction time (`Interrupt` in
  `SpellCasts`), and may shorten it, though its comment (`gcd.go:128-130`) says that it
  does not touch it.
- A candidate's own error in the finalist stage is reported as an abort.

## 4. Proofs

The eight proof modules hold for every value of the constants that the assumption of
the module allows, in particular for any number of jobs, actions, priorities,
instants, threads, workers, candidates, gears, auras, units, dots and spells.

**`AsyncApi_proofs`** has two parts. The first, on `SimSignals`, proves `RegistrySafe` (the registry holds
exactly the live registrations), `RegistryTypeCorrect` and `AckedAbortNotLost` (a job that registers once passes no abort
check after an acknowledged abort). `RegistryOwnership` is not inductive: that
leaving a job removes its own entry and not that of a successor depends on the
place every job is at. `IInv` adds `Phase`, what each place in the code says of the
number of registrations, the bool `registered` and the deferred unregister, and
`TargetInv`: a caller past its look-up aims at a signal that was registered, and
has closed it once it is acknowledged. The second theorem needs only `TargetInv`
and that a plain job registers once. It is false for bulk jobs (finding 1), which
is where the proof uses `j \notin BulkJobs`.

The second part, on `AsyncProgress`, proves `CandidatesAreKept` (of `CandidatesKept`),
`CandidatesSentOnce` (of `DeliveredOnce`) and `ProgressTypeCorrect` for any number of candidates,
reports, failed writes and overlapping polls. The properties say what was sent; the reasons lie with
messages and handlers under way. `ConsumerInv`: the final message is the last that the goroutine takes,
the entry is deleted only after the goroutine has stopped, and what it stored then never changes.
`FlowInv`: a streamed candidate is queued or delivered, in the hands of the goroutine, or in a
batch in the channel, so that all have arrived when the final message is stored. `BatchInv` says of each place
of a handler what it has in hand: its batch is queued or delivered whatever others have marked in the
meantime, and if it serves the final message, its batch has everything that is pending and its copy
of the result the rest. `DeliveredOnce` is a matter of counting. `Senders(c)` are the handlers that may still send
`c`: no step adds one (`FewerSenders`), also not a failed write that sends a handler back to its start, and
a response that carries `c` takes its handler away (`MoverSendsLess`). What was sent and what may be sent together
stay within the number of polls (`SpentInv`). `Without`, the `slices.DeleteFunc` of
`markOptimizedCandidatesDelivered`, is a recursive function because the provers know nothing of
`SelectSeq`; `WithoutFacts` shows that it leaves the other elements, each as often as it was, and
`QueueLength` that a queue of different elements is as long as their set is large.

**`EventQueue_proofs`** has two parts. The first, on `PendingActions`, proves `TypeCorrect`, `QueueOrdered` (of `QueueOrderly`), `PoolIsSafe`, `NothingIsLost`,
`NewcomersDoWait` and `CancelledIsNotPerformed`. `IInv` is the conjunction of the
type invariant, `QueueInv` (sorted, no duplicates, nothing overdue), `PoolSafe`,
`NothingLost` and two facts the properties rest on: `LoopInv` ties the action in
the hand of `Step` to the phase of the loop and says that a popped periodic action
is consumed, which is why it may add itself; `WantedInv` says that what is queued
is wanted and what is cancelled is not. The proof is built on lemmas about the
operators: where `InsertAt` and `RemoveFirst` put the elements of a sequence, that
`Slot` is the place that keeps a sorted queue sorted with newcomers before their
equals (`SlotProperties` argues by the least index), and that cancelling and adding
preserve `QueueInv`. One lemma per action then shows that the step preserves
`IInv`. The two action properties follow from `IInv` in the state before the step.

The second part, on `DotTicks`, proves `NoTickTwice` (of `NoExtraTick`), `NoTickLost` (of `TicksKept`),
`RotationStaysAwake` (of `RotationNeverLost`) and `DotTypeCorrect` for any dots, channels and dots
that end themselves, any lengths and numbers of ticks, haste, slows, cooldowns and delays. The
properties speak of single moments and say nothing of why the next one is right, so none is
inductive. `DotInv` says what the code relies on without writing it down; TLC checked it as an
invariant of the instance of `dots` before it was proved. `Sound` is about a caster whose state is
complete up to a time: `InOrder` (the agenda is sorted, holds nothing twice, and nothing that is
overdue), `Ticking` (on it are the ticks of exactly the active dots, but for the one that is
being performed), `Channelling` (the channel of the unit is the one active channel), `Beats` and
`Lasting` (no active dot is past its end). `Beats` is the heart: an active dot is on its own
beat, that is, its next tick is due one period after the last, counted from its application, and the end of
a channel is the beat of its last remaining tick; of a dot that faded, `Performed` says that it ticked on all its
beats up to then. The reason that a last tick is neither lost nor doubled is in `FadesWell` and
`DeactivateFacts`: when an aura fades, either its timer is ahead, or it is due now and `OnExpire` performs the
tick and takes the one on the agenda away. `TickCountFacts` shows that rounding to even never
leaves a dot without a tick, so that a dot lasts at least as long as one beat
(`DurationFacts`); every aura that is due fades before the actions of that time are performed
(`AdvanceSound`, one aura of the loop after the other), and what fades in one such pass does not disturb the others.
`Wakeful` is the invariant of the rotation: it is on the agenda, or it is about to act, or a
channel is under way whose end finds the cooldown ready and therefore wakes it. The second clause, that during
a channel the wake-up comes no sooner than the cooldown is over, is what makes the third case true when
the wake-up is used up in the channel, and what a reaction breaks, hence `disturbed`.
`Wakes` says of every function of the code that it costs no wake-up, and one lemma per action
(`PopKeeps` to `TurnIdlesKeeps`) puts the two together. That `Advance` is well defined, a function by
recursion on the number of auras, is shown with `CountUp` and not assumed.

The proof found nothing to correct in the properties, but it shows which of them need an exception: that
of `NoExtraTick` is used in exactly one case, a dot that deactivates itself on its tick, and `disturbed` in
exactly one, a reaction during a channel. Of `Never` it uses that no fight lasts that long. The module imports
both components because the proofs share their lemmas about sequences; neither module uses the other.

**`ConcurrentSim_proofs`** proves `FinalMessageSound` (of `FinalSound`) and `NobodyWorksOn`
(of `NoOrphanWork`) for any number of threads, iterations and aborters and any capacities
of the channels. The properties speak of the end; `IInv` follows a final message on its
way there. `ChannelInv`: it is the last message in the channel of its thread, which sends
nothing after it, and if it is complete it counts the iterations of its thread. `ResultInv`:
once it is in `FinalResults` the channel is empty, so that no late report overwrites
the count, and as long as the coordinator selects every stored result is complete.
`FinalsInv`: at each place of the coordinator, how many final messages were sent and
what kind it holds; the recovery of a clash of two triggers is the one place with a second.
`ReturnInv`: every way to the return passes a triggered signal or the combination of all results.

`RefinesAsyncJob` shows that every step of the request is one of `AsyncJob`, or none that its
reader could tell, that is `ImplementsAsyncJob` without fairness. A second invariant follows the counts.
`PlaceInv`: no thread runs more iterations than its part. `OrderInv`: the counts in a
thread's channel ascend, from the one received last to the iterations it has run, so that
receiving one never takes the sum back. `ReportInv`: the last report is at most the sum of what was
received. The sum over the threads, `SumTo`, is a recursive function. `SumFacts` shows that it exists (by the
least number that has no partial sum, `CountUp`), `SumGrows` that it grows with its parts, and
`SharesAddUp` that the parts of `SplitSimRequestForConcurrency` add up to the request, the remainder included.
A complete result is complete in every part, hence counts the request. `TypeCorrect` adds
`RoomInv`, the bounds of the channels. The one thing of `AsyncJob` that stays with TLC is that the
final message comes.

**`AuraTracker_proofs`** proves `ListsStayConsistent` (of `ListsAgree`) for any auras with any
durations and any units. Both halves are about taking an element from the middle of a list by
moving the last one into its place. `DeactivateSlots` shows that the aura that moved learns its
new place and that no other loses its own, also when it is itself the one removed. The list of
trackers carries no indices: `DismissTracked` uses that each unit is on it once, and `DismissInv`
that the one being dismissed is disabled. `RoomForOne` counts: a pet that is not tracked leaves
room in the backing array, since the tracked units are distinct units of the roster other than it.
`FirstTracked` derives from the order of the roster that the permanent units are tracked
at the start.

Its second part proves `CachesAreLowerBounds` (of `CachesCover`) and
`NothingOutlivesItsTime` (of `NoExpiredAura`). Both speak of the time between two passes and are
false within one: `minTrackerTime` starts over at `NeverExpires`, and `minExpires` of
the unit being walked stands for the first part of its list. `CacheInv` says what makes up
for it. `ToCome(u)`: the pass has `u` in hand or `u` stands at a place of the array that the loop
has not reached. `TrackerInv` and `ClockInv`: a tracked unit is covered by
`minTrackerTime`, and a permanent one is beyond the clock, or it is still to come. What the
code relies on without saying so is in `DismissCaches`: swapping the last tracker forward
while the loop runs loses no visit, because the array is not cleared and only places of the dismissed
unit are overwritten. `CoverInv` excepts the unit whose walk a callback interrupted, which
`WalkDone` computes afresh. The property is about permanent units only because a pet may be
summoned with a deadline that passed while it was away. The assumption `MaxTime < Never`
is the code's: `NeverExpires` is the greatest duration there is. `TypeCorrect` adds the bounds
(`BoundInv`): since no list has an aura twice, no index is larger than the number of auras
(`SlotBound`), and no cache is later than `NeverExpires`.

**`WeaponTimers_proofs`** proves `AttacksAreKept` (of `AttacksKept`), `SwingsAreOnTime` (of
`SwingsOnTime`) and `TypeCorrect` for any attacks, hands, speeds and any clock. The question is what a range loop
over `weaponAttacks` misses while swings stop and start attacks. `CoverInv`: while it runs, an
enabled attack is ahead of the loop, at hand, or the simulation knows of its timer.
`RemovedFacts` shows why a removal loses none although it swaps the last attack behind the loop: the place it came from is
not cleared, so that the loop meets it there. `AddedFacts` shows why an addition loses
none: it writes behind the end that the loop took, as long as nothing was removed before (`GrownInv`);
`RoomForOne` counts that there is a place. A removal followed by an addition within one pass overwrites
an attack that the loop has yet to meet, which is the exception the properties name. That swings are not late
(`LateInv`) needs that no operation sets a timer before the clock, except to where it was.

**`SpellCasts_proofs`** proves `CooldownsAreKept` (of `CooldownsHold`) for any spells, times
and rotation, under both rulesets. The hard case is a spell with a cast time: the cooldown
is checked when the cast begins and starts when it is completed, with any number of calls in
between, and `CanCompleteCast` (`spell.go:659`) does not look at it again. `HardInv` says that
the check still holds at the end, because what takes effect in the meantime has no cast time
and is therefore another spell. That a cast is not
completed twice is `TopInv`: who finds a cast due takes it off the unit in the same step and calls
its completion, which is the innermost call until it is made (`ReturnTop`: no call
that is still to be made is a completion). One lemma for each kind of step shows what it does
to the three.

`TypeCorrect`, `AgendaIsKept` (of `AgendaKept`) and `CastsAreCompleted` rest on a second invariant,
`AgendaInv`. Between two steps of the event loop several calls may be outstanding, and while they are, what the
properties promise is only owed: `RotationInv` says that the rotation is on the agenda at `wakeAt`,
or that `wakeAt` has come and one of the calls that lead to its choice is still to be made; `DueInv` the same
of the end of a cast; `LoopInv` that whoever has set `inLoop` has the choice to finish, without
which `doNextAction` would return at once and nobody would reschedule; `QueueInv` that whoever is queued was
queued after the last cast. The lemmas on `Scheduled`, `Unscheduled` and the
next entry say what they do to the entries of a queue in which each kind stands once
(`Tidy`), wherever it stands.

`ClassicCastsEnd` proves `CastsOnTime` whole, with what it says of the Classic rules and with no hypothesis.
`ClassicInv` lists the calls that can be outstanding while a cast is due (`Shapes`): each either
completes the cast or leads to `boundary` before anything that may cast. The one way around is a queued spell,
whose action casts at once. That it meets a due cast only when a hit has moved the end of that cast is
the last part of `QueueInv`, that a queued spell waits for a time after the end it knew (`behind`), and
`WaitInv`, that when its action is called, whatever is being cast ends after `behind`. So a due cast that it
replaces is one that `Overtakes` counts, and every other step that begins a cast finds none under way.
Under all other rules `EveryCastEnds` is false (finding 3), and what remains true there is
`CastsAreCompleted`.

**`ReforgePrepass_proofs`** proves `GearSolvedOnce` (of `SolvedOnce`), `CandidateStreamedOnce`
(of `StreamedOnce`), `CandidateSimmedOnce` (of `NothingSimmedTwice`) and `TypeCorrect` of the
pre-pass. None of them is inductive: they say what counters and results come to, while the
reason lies in who holds what. `IInv` has one part for each reason. `TaskInv`: positions leave
the channel in ascending order, so that no two workers, and no worker and a completed candidate,
share one. `FlightInv`: the entry of `inFlightByKey` is the position of the worker that solves
the key, so that solves of one key exclude each other. `OnceInv`: unless the job was aborted, a
key without an entry and without an answer was never solved, which fails if the entry goes
before the answer is stored. `VerdictInv`: what a worker found, by its own solve, from the cache
or by waiting for another, is what the cache says, unless an abort ended the solve; so the
candidates of one gear end alike. `StreamInv`: an optimized candidate is in the shared batch, in
the hand of one worker that is about to send, or streamed, and in one of them only. `FeedInv`:
a candidate that the loop has passed is in the channel, with a worker, or completed, unless the
job was aborted; and a worker leaves only when the channel is closed and empty. With
at least one worker (`max(1, ...)`, `bulk.go:161`, which is why `ReforgeAssumption` says so)
it follows that nothing is lost. The steps are taken without `simmed`, the hand-over to the simulation
(`Control`), and with an abort at any time; `ControlSteps` shows that this is more than the
specification allows. `SimmedInv` adds the hand-over, for the steps that make it. It rests on
lemmas about `Dedupe`: `InOrderFacts` (the numbers of a finite set in their order are all of them,
each once, by counting: the ranks are an injection into as many numbers), `FirstsFacts`
(whatever occurs in a sequence occurs first somewhere) and `PickFacts`.

**`BulkJob_proofs`** proves all invariants of a bulk job. Those of the pre-pass are carried over:
a step of `BulkJob` is a step of the pre-pass, leaves its variables alone, or is the return of
the first half, when what was local to it is forgotten and its variables are as at the start
(`JobSteps`, `FreshAgain`). That is why `Control` allows any abort: in a job the first signal may
be triggered wherever the pre-pass is. Nothing of the pre-pass is proved a second time;
`PrepassInductive` cites the lemmas of the instance.

`SamplesInLockstep` (of `Lockstep`) and `CompleteJobIsWhole` (of `CompleteIsWhole`) are about the
stages. Whether a result is whole is decided long before it is compared, so the invariant
`StagesInv` says for every place of the job's goroutine how far baseline and candidates have
come: `AtHead`, `AtProbe`, `AtExtend`, `AtBatch`, `AtRerun`, `AtRest`. `MergeFacts` is the reason why
segments add up: what goes up to sample `m`, merged with the segment of `n` from there, is the
result of one run of `m + n`, and an error replaces it. The hard place is the batch. A slot that
nobody filled is left out of the results without an error, which would be a candidate lost;
`AtBatch` says that a candidate without a slot is still to be fed, taken or simulated unless
the signal is triggered, and that after an error the signal is triggered or a worker is about
to trigger it (`Alarm`). When all workers have left, therefore, either every candidate has its whole result
or the signal is triggered, and the last check (`LastCheck`) turns that into an abort. `Flow` keeps
what was found at the end. `Heeded` connects the two halves: an abort that was
acknowledged is in the signal that the job looks at next, or the final message is an abort
or an error. `TypeCorrect` is the type invariant of the whole job. What `JobEnds` says, that there is a final
message, is liveness and stays with TLC.

What stays with TLC: liveness (`EntryRemoved`, `ThreadsExit`, `JobEnds`, and of `ImplementsAsyncJob` that
the final message comes), which is out of the provers' reach. All other properties of the passing runs have a
theorem. The three runs that are refuted state what the code does not do.

## 5. What is not modelled

Floating point arithmetic (damage, ratings, statistics), the interpreter of
rotations, the integer program behind the reforge optimizer, game content, protocol
conversions and static files have no control that a model would say more about
than the code. This is by far the larger part of the repository: hundreds of spells,
items and encounters that use the operations of the core, generated tables, and the tools
that generate them. `PROJECT.json` lists every part with its reason, and the hazards
that no property covers with theirs.

Of the modelled parts, left out are: the task loop of energy, focus and mana
(`sim.go:577`), whose tasks only add amounts; options of periodic actions beyond the
period and the count; stacks and exclusive effects of auras; charges and shared timers of
cooldowns; strict sequences of a rotation and the order of draws of random numbers.
`BulkStages` keeps results by gear, of which a candidate is one, where the code keys what a stage carries
over by `Candidate.Index` (`carry_over.go:37,62`); a request in which the client gives two candidates one index is
not modelled.

## 6. Plan

Done in this order: abort signals, concurrent simulation, progress service, event
queue, auras, auto attacks, damage over time, bulk stages, reforge pre-pass, the bulk job
that composes them, casts with cooldowns and the spell queue, and the proofs of section 4.
What remains, by importance:

1. *Periodic actions* with their options and the task loop of energy and focus.
2. *Exclusive effects and stacks* on top of `AuraTracker`, item swaps, and rotation
   sequences on top of `SpellCasts`.
3. *Statistics weights*, the same fan-out as `ConcurrentSim` over pairs of simulations,
   and the worker pool of the browser.

Abstract specifications to state: a multiset of timed actions for `PendingActions`
(what is performed next is the least of what is wanted), and a map from auras to
deadlines for `AuraTracker` (an aura is active until its deadline), each with a
refinement mapping. The number of runs is kept small: a new component replaces a
run that its composition covers.
