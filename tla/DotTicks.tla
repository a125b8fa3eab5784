------------------------------ MODULE DotTicks ------------------------------
(* Damage over time (src/sim/core/dot.go) and the rotation of the caster      *)
(* (src/sim/core/gcd.go, DoNextAction in src/sim/core/apl.go).                *)
(*                                                                            *)
(* A dot is an aura with a pending action, tickAction, that performs its      *)
(* ticks.  The event loop lets auras fade before it performs the actions of   *)
(* the same instant, so the last tick is performed by the callback of the     *)
(* fading aura instead, and so is a tick that is due when the dot is replaced *)
(* or consumed.  A channelled spell is a dot too: while it lasts the rotation *)
(* does nothing, its wake-ups are used up, and whatever ends the channel has  *)
(* to wake it again.                                                          *)
(*                                                                            *)
(* The agenda holds the ticks and the rotation of one caster.  Anything else  *)
(* happens between two of their turns: Hit stands for missiles and completed  *)
(* casts, React for events the unit reacts to (damage taken, swings).  Time   *)
(* is counted in small steps.  That every aura that is due fades in advance   *)
(* is the subject of AuraTracker.                                             *)
EXTENDS Integers, Sequences, FiniteSets, FiniteSetsExt, SequencesExt

CONSTANTS
    Dots,         \* the dots of the caster
    Channels,     \* those of channelled spells
    OwnEnding,    \* those whose OnTick may deactivate the dot
    Hasted,       \* those whose ticks follow the cast speed
    Shrinking,    \* HasteReducesDuration: those that do not gain ticks then
    NoDot,
    BaseCount,    \* BaseTickCount
    BaseLength,   \* BaseTickLength
    Periods,      \* the tick periods under haste and under slows
    GCD,          \* the global cooldown of a cast
    Reaction,     \* Unit.ReactionTime
    Clip,         \* Unit.ChannelClipDelay
    Window,       \* MaxSpellQueueWindow
    Never,        \* NeverExpires
    FightEnd       \* bound: the end of the fight

(* What the event loop may perform besides a tick.                            *)
Rotation == "rotation"
Event == "event"
Idle == "none"

(* A slow leaves a dot at least one tick: half of what the whole dot lasts    *)
(* would round to no tick, and Aura.Activate panics on an aura without a      *)
(* duration.                                                                  *)
TickLengths == 1..2 * BaseCount * BaseLength - 1

ASSUME DotAssumption ==
    /\ IsFiniteSet(Dots)
    /\ Channels \subseteq Dots /\ OwnEnding \subseteq Dots
    /\ Hasted \subseteq Dots /\ Shrinking \subseteq Dots
    /\ Dots \cap {NoDot, Rotation, Event, Idle} = {}
    /\ BaseCount \in Nat \ {0} /\ BaseLength \in Nat \ {0}
    /\ Periods \subseteq TickLengths
    /\ GCD \in Nat \ {0} /\ Reaction \in Nat \ {0} /\ Clip \in Nat /\ Window \in Nat
    /\ FightEnd \in Nat
    /\ Never \in Nat
    /\ FightEnd + 3 * BaseCount * BaseCount * BaseLength + GCD + Reaction + Clip < Never

VARIABLES
    clock,     \* Simulation.CurrentTime
    active,    \* the dots whose aura is active
    dots,      \* the dots: aura, tickAction and counters
    agenda,    \* the queued tick actions and the rotation action, soonest first
    wake,      \* RotationTimer, and NextActionAt of the rotation action
    gcd,       \* Unit.GCD
    channel,   \* Unit.ChanneledDot
    acting,    \* what the event loop is about to perform
    cut,       \* history: the dots whose next tick an interrupt waived
    disturbed  \* history: a reaction moved the rotation timer during a channel

dotVars == <<clock, active, dots, agenda, wake, gcd, channel, acting, cut, disturbed>>

DotTypeOK ==
    /\ clock \in 0..FightEnd
    /\ active \subseteq Dots /\ cut \subseteq Dots
    /\ dots \in [Dots -> [expires : 0..Never, period : TickLengths, remaining : Int,
                          next : 0..Never, began : 0..FightEnd, fade : 0..FightEnd,
                          made : Nat]]
    /\ agenda \in Seq(Dots \cup {Rotation})
    /\ wake \in 0..Never /\ gcd \in 0..Never
    /\ channel \in Channels \cup {NoDot}
    /\ acting \in Dots \cup {Rotation, Event, Idle}
    /\ disturbed \in BOOLEAN

(* began and made are history too: when the dot was applied and how often it  *)
(* has ticked since.                                                          *)
DotInit ==
    /\ clock = 0
    /\ active = {} /\ cut = {}
    /\ dots = [d \in Dots |-> [expires |-> 0, period |-> BaseLength, remaining |-> BaseCount,
                               next |-> 0, began |-> 0, fade |-> 0, made |-> 0]]
    /\ agenda = <<Rotation>>
    /\ wake = 0 /\ gcd = 0
    /\ channel = NoDot
    /\ acting = Idle
    /\ disturbed = FALSE

-----------------------------------------------------------------------------
(* The functions of the code call one another, so each is an operator from    *)
(* the part of the state they share to its next value, at time t.             *)
Shared == [active |-> active, dots |-> dots, agenda |-> agenda, wake |-> wake,
           channel |-> channel, cut |-> cut]

Become(s) ==
    /\ active' = s.active /\ dots' = s.dots /\ agenda' = s.agenda
    /\ wake' = s.wake /\ channel' = s.channel /\ cut' = s.cut

At(s, x) == IF x = Rotation THEN s.wake ELSE s.dots[x].next

Dequeue(s, x) == [s EXCEPT !.agenda = RemoveFirst(@, x)]

(* AddPendingAction: behind everything that is due no later.                  *)
Enqueue(s, x) ==
    LET ahead == {i \in DOMAIN s.agenda : At(s, s.agenda[i]) <= At(s, x)}
    IN [s EXCEPT !.agenda = InsertAt(@, Cardinality(ahead) + 1, x)]

(* SetRotationTimer, and WaitUntil that calls it.                             *)
WaitUntil(s, t) == Enqueue([Dequeue(s, Rotation) EXCEPT !.wake = t], Rotation)

Ticked(r, ticks) == [r EXCEPT !.remaining = @ - ticks, !.made = @ + ticks]

\* (mutant: the fading aura leaves the last tick to the agenda)
OnExpireQuietly(s, d, t) ==
    LET s1 == Dequeue(s, d)
    IN IF d \notin Channels THEN s1
       ELSE LET s2 == [s1 EXCEPT !.channel = NoDot]
            IN IF gcd <= t THEN WaitUntil(s2, t + Clip) ELSE s2

\* (mutant: nobody wakes the rotation)
OnExpireAsleep(s, d, t) ==
    LET last == IF s.dots[d].next = t THEN 1 ELSE 0
        s1 == Dequeue([s EXCEPT !.dots[d] = Ticked(@, last)], d)
    IN IF d \notin Channels THEN s1 ELSE [s1 EXCEPT !.channel = NoDot]

(* The OnExpire callback of the aura of a dot.                                *)
OnExpire(s, d, t) ==
    LET last == IF s.dots[d].next = t THEN 1 ELSE 0
        s1 == Dequeue([s EXCEPT !.dots[d] = Ticked(@, last)], d)
    IN IF d \notin Channels THEN s1
       ELSE LET s2 == [s1 EXCEPT !.channel = NoDot]
            IN IF gcd <= t THEN WaitUntil(s2, t + Clip) ELSE s2

Deactivate(s, d, t) ==
    IF d \notin s.active THEN s
    ELSE OnExpire([s EXCEPT !.active = @ \ {d},
                            !.dots[d] = [@ EXCEPT !.expires = 0, !.fade = t]], d, t)

(* RoundToEven(a / b)                                                         *)
Rounded(a, b) ==
    LET q == a \div b
        r == 2 * (a % b)
    IN IF r > b \/ (r = b /\ q % 2 = 1) THEN q + 1 ELSE q

TickCount(d, p) ==
    IF d \in Hasted \ Shrinking THEN Rounded(BaseCount * BaseLength, p) ELSE BaseCount

(* What recomputeAuraDuration and the activation set.                         *)
Gained(s, d, p, t) ==
    LET n == TickCount(d, p)
    IN [s EXCEPT !.active = @ \cup {d}, !.cut = @ \ {d},
                 !.dots[d] = [expires |-> t + p * n, period |-> p, remaining |-> n,
                              next |-> t + p, began |-> t, fade |-> @.fade, made |-> 0]]

\* (mutant: every dot counts as a channel)
ApplyChannelling(s, d, p, t) ==
    LET s1 == Gained(Deactivate(s, d, t), d, p, t)
    IN Enqueue([s1 EXCEPT !.channel = d], d)

(* Dot.Apply with tick period p: what was left of the dot fades first.        *)
Apply(s, d, p, t) ==
    LET s1 == Gained(Deactivate(s, d, t), d, p, t)
    IN Enqueue([s1 EXCEPT !.channel = IF d \in Channels THEN d ELSE @], d)

\* (mutant: the period of the next tick starts anew)
RefreshRestarting(s, d, t) ==
    LET r == s.dots[d]
    IN [s EXCEPT !.dots[d].expires = t + r.period * TickCount(d, r.period),
                 !.dots[d].next = t + r.period]

(* Aura.Refresh of a dot that lasts: the phase of the ticks stays.            *)
Refresh(s, d, t) ==
    LET r == s.dots[d]
    IN [s EXCEPT !.dots[d].expires = t + r.period * TickCount(d, r.period)]

\* (mutant: the interrupted channel keeps its due tick)
InterruptTicking(s, t) ==
    LET d == s.channel
        s1 == Deactivate([s EXCEPT !.cut = @ \cup {d}], d, t)
    IN IF gcd <= t THEN WaitUntil(s1, t + Clip) ELSE s1

Waived(s, d) == [s EXCEPT !.dots[d].next = Never, !.cut = @ \cup {d}]

(* A channel that is interrupted by its own tick or by the rotation: its next *)
(* tick is waived.                                                            *)
Interrupt(s, t) ==
    LET d == s.channel
        s1 == Deactivate(Waived(s, d), d, t)
    IN IF gcd <= t THEN WaitUntil(s1, t + Clip) ELSE s1

-----------------------------------------------------------------------------
(* advance: every aura that has run out fades.                                *)
Advance(s, t) ==
    LET fading == SetToSeq({d \in s.active : s.dots[d].expires <= t})
        after[n \in 0..Len(fading)] ==
            IF n = 0 THEN s ELSE Deactivate(after[n - 1], fading[n], t)
    IN after[Len(fading)]

(* Step: the first action is popped, the clock moves to its time, and it is   *)
(* performed unless the auras that faded have cancelled it.                   *)
PopAction ==
    /\ acting = Idle
    /\ agenda # <<>> /\ At(Shared, Head(agenda)) <= FightEnd
    /\ LET x == Head(agenda)
           t == At(Shared, x)
           s == [Shared EXCEPT !.agenda = Tail(@)]
           s1 == IF t > clock THEN Advance(s, t) ELSE s
       IN /\ clock' = t
          /\ Become(s1)
          /\ acting' = IF x = Rotation \/ x \in s1.active THEN x ELSE Idle
    /\ UNCHANGED <<gcd, disturbed>>

(* Something else happens, no later than the next action of the agenda.       *)
Between(t) ==
    /\ acting = Idle
    /\ t \in clock..FightEnd
    /\ \A i \in DOMAIN agenda : t <= At(Shared, agenda[i])

Passed(t) == IF t > clock THEN Advance(Shared, t) ELSE Shared

TickPeriods(d) == IF d \in Hasted THEN Periods ELSE {BaseLength}

(* A missile or a completed cast applies a dot, prolongs it (poisons,         *)
(* Lacerate, Holy Vengeance) or consumes it (Conflagrate).                    *)
Hit(d, t) ==
    /\ d \notin Channels
    /\ Between(t)
    /\ clock' = t
    /\ \/ \E p \in TickPeriods(d) : Become(Apply(Passed(t), d, p, t))
       \/ d \in Passed(t).active /\ Become(Refresh(Passed(t), d, t))
       \/ d \in Passed(t).active /\ Become(Deactivate(Passed(t), d, t))
    /\ UNCHANGED <<gcd, acting, disturbed>>

(* Unit.Interrupt by a fear or a stun.                                        *)
CrowdControl(t) ==
    /\ Between(t)
    /\ clock' = t
    /\ LET s == Passed(t)
           d == s.channel
       IN /\ d # NoDot
          /\ Become(Deactivate(Waived(s, d), d, t))
    /\ UNCHANGED <<gcd, acting, disturbed>>

(* ReactToEvent: the rotation acts at once, see below, and then perhaps       *)
(* sooner than planned.                                                       *)
React(t) ==
    /\ Between(t)
    /\ clock' = t
    /\ Become(Passed(t))
    /\ acting' = Event
    /\ UNCHANGED <<gcd, disturbed>>

-----------------------------------------------------------------------------
(* periodicTick.  The callback of the tick may end the dot (Hellfire, Seed of *)
(* Corruption), and a channel may be interrupted by its rotation.             *)
Tick(d) ==
    /\ acting = d
    /\ acting' = Idle
    /\ LET s1 == [Shared EXCEPT !.dots[d] = Ticked(@, 1)]
           Rest(s) ==
               IF d \in s.active /\ (d \notin Channels \/ s.dots[d].remaining > 0)
               THEN Enqueue([s EXCEPT !.dots[d].next = clock + s.dots[d].period], d)
               ELSE s
       IN \E s2 \in {s1} \cup (IF d \in OwnEnding THEN {Deactivate(s1, d, clock)} ELSE {}) :
             \/ Become(Rest(IF d \in Channels /\ s2.dots[d].remaining = 0 /\ gcd <= clock
                            THEN WaitUntil(s2, clock + Clip) ELSE s2))
             \/ /\ s2.channel = d /\ s2.dots[d].remaining # 0
                /\ gcd <= clock \/ gcd - clock > Window
                /\ Become(Interrupt(s2, clock))
    /\ UNCHANGED <<clock, gcd, disturbed>>

(* The end of a turn of the rotation: after an event the unit looks again     *)
(* within its reaction time.                                                  *)
EndTurn(s) ==
    /\ acting' = Idle
    /\ Become(IF acting = Event /\ s.wake > clock + Reaction THEN WaitUntil(s, clock + Reaction)
              ELSE s)
    /\ disturbed' = \/ acting = Event /\ s.channel # NoDot
                    \/ disturbed /\ s.wake = wake

Turn == acting \in {Rotation, Event}

(* DoNextAction while a spell is channelled.                                  *)
TurnWhileChannelling ==
    /\ Turn /\ channel # NoDot
    /\ IF dots[channel].remaining = 0
       THEN EndTurn(Deactivate(Shared, channel, clock))
       ELSE EndTurn(Shared) \/ EndTurn(Interrupt(Shared, clock))
    /\ UNCHANGED <<clock, gcd>>

(* The rotation timer is not ready yet.                                       *)
TurnTooEarly ==
    /\ Turn /\ channel = NoDot /\ clock < wake
    /\ EndTurn(Shared)
    /\ UNCHANGED <<clock, gcd>>

(* The rotation casts a spell: SetGCDTimer, and a channel begins at once.     *)
TurnCasts ==
    /\ Turn /\ channel = NoDot /\ wake <= clock
    /\ gcd <= clock
    /\ gcd' = clock + GCD
    /\ LET s == WaitUntil(Shared, clock + GCD)
       IN \/ EndTurn(s)
          \/ \E d \in Channels : \E p \in TickPeriods(d) : EndTurn(Apply(s, d, p, clock))
    /\ UNCHANGED clock

(* No action is available: the rotation looks again later.                    *)
TurnIdles ==
    /\ Turn /\ channel = NoDot /\ wake <= clock
    /\ LET later == IF gcd > clock + Reaction THEN gcd ELSE clock + Reaction
       IN EndTurn(WaitUntil(Shared, later))
    /\ UNCHANGED <<clock, gcd>>

DotNext ==
    \/ PopAction
    \/ \E d \in Dots : Tick(d)
    \/ \E t \in 0..FightEnd : \/ \E d \in Dots : Hit(d, t)
                             \/ CrowdControl(t)
                             \/ React(t)
    \/ TurnWhileChannelling \/ TurnTooEarly \/ TurnCasts \/ TurnIdles

DotSpec == DotInit /\ [][DotNext]_dotVars

-----------------------------------------------------------------------------
Age(d) == (IF d \in active THEN clock ELSE dots[d].fade) - dots[d].began

(* However a dot is prolonged, replaced, consumed or fades, it never ticks    *)
(* twice for one period: the tick that src/sim/core/dot.go:344 performs for a *)
(* fading dot is one that the agenda will not perform, or has performed. Only *)
(* a dot that deactivates itself on a tick performs that very tick again.     *)
NoExtraTick ==
    \A d \in Dots :
       LET again == IF d \in OwnEnding \ active THEN 1 ELSE 0
       IN (dots[d].made - again) * dots[d].period <= Age(d)

(* And no tick is lost: a whole period without a tick has just ended and its  *)
(* tick is queued for this instant, or an interrupt waived the tick.          *)
NoTickMissed ==
    \A d \in Dots :
       LET due == (dots[d].made + 1) * dots[d].period
       IN \/ Age(d) < due
          \/ Age(d) = due /\ d \in active /\ dots[d].next = clock
          \/ Age(d) = due /\ d \in cut \ active

(* Between two turns an active dot has exactly one tick in the agenda, on its  *)
(* own beat; a dot that faded has none (src/sim/core/dot.go:349).             *)
OneTickQueued ==
    acting = Idle =>
       \A d \in Dots :
          /\ Cardinality({i \in DOMAIN agenda : agenda[i] = d})
                = (IF d \in active THEN 1 ELSE 0)
          /\ d \in active =>
                dots[d].next = dots[d].began + (dots[d].made + 1) * dots[d].period

(* A dot keeps its beat: no tick is lost, and the next one is queued once.     *)
TicksKept == NoTickMissed /\ OneTickQueued

(* The rotation of a caster that is not channelling is always queued: every   *)
(* way a channel can end leaves a wake-up behind (src/sim/core/dot.go:357,    *)
(* "always schedule rotation here so APL fires after ChanneledDot is          *)
(* cleared").  Only a reaction during a channel may use up that wake-up.         *)
RotationNeverLost ==
    acting = Idle /\ channel = NoDot /\ ~disturbed => Rotation \in ToSet(agenda)
=============================================================================
