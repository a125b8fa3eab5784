----------------------------- MODULE SpellCasts -----------------------------
(***************************************************************************)
(* One caster: casts with a cast time and their completion, the global     *)
(* cooldown, cooldowns of spells, the spell queue, the rotation timer and   *)
(* whatever wakes the rotation before it (src/sim/core/cast.go, gcd.go,     *)
(* spell_queueing.go, apl.go).  A cast is completed by whichever of three   *)
(* comes first: the rotation action, the hardcast action, or, under the     *)
(* rules of the Classic paladin, any swing or wake-up.                      *)
(*                                                                          *)
(* The code calls back into itself: an effect wakes the rotation, which     *)
(* casts, which has effects.  stack holds the calls still to be made, the   *)
(* innermost first, so that every nesting is explored.                      *)
(***************************************************************************)
EXTENDS Integers, Sequences, FiniteSets, SequencesExt

CONSTANTS Spells,
          CastTime,       \* [Spells -> Nat], 0 for an instant spell
          Gcd,            \* [Spells -> Nat], 0 for a spell off the global cooldown
          Cooldown,       \* [Spells -> Nat]
          NoSpell,
          Rulesets,       \* those the unit may have: "tbc", "classic60"
          Reaction,       \* the unit's reaction time
          Pushback,       \* what a hit adds to a cast
          QueueWindow,    \* how early a spell can be queued
          EventTimes,     \* bound: the times at which something happens to the unit,
                          \* besides those of its own pending actions
          MaxTime,        \* bound: the end of the fight
          MaxHits         \* bound: how many hits and control effects the unit suffers

ASSUME CastAssumption ==
  /\ NoSpell \notin Spells
  /\ CastTime \in [Spells -> Nat] /\ Gcd \in [Spells -> Nat] /\ Cooldown \in [Spells -> Nat]
  /\ \A s \in Spells : CastTime[s] + Gcd[s] + Cooldown[s] > 0
  /\ Rulesets \subseteq {"tbc", "classic60"}
  /\ Reaction \in Nat \ {0} /\ Pushback \in Nat \ {0} /\ QueueWindow \in Nat
  /\ MaxTime \in Nat /\ MaxHits \in Nat /\ EventTimes \subseteq Nat

VARIABLES ruleset,
          now,
          hard,      \* Hardcast: the spell being cast and when the cast expires
          gcdAt,     \* GCD: when the global cooldown is over
          wakeAt,    \* RotationTimer
          readyAt,   \* CD of every spell
          queued,    \* QueuedSpell: the spell, when it was queued, and, as history,
                     \* the end of the cast it was queued behind
          agenda,    \* the pending actions of this unit, the next one first
          inLoop,    \* DoNextAction is choosing
          stack,     \* the calls still to be made
          hits,      \* bound: hits and control effects so far
          open,      \* history: casts begun and neither completed nor cancelled
          lastCast,  \* history: when a spell that takes time was last cast
          overtaken  \* history: due casts that a queued spell has replaced
vars == <<ruleset, now, hard, gcdAt, wakeAt, readyAt, queued, agenda, inLoop, stack, hits,
          open, lastCast, overtaken>>

Idle == -1            \* startingCDTime
QueueDelay == 1       \* a nanosecond: the unit of time
Actions == {"rotation", "hardcast", "queued"}
Calls == {"rotationAction", "hardcastAction", "queuedAction", "boundary", "onComplete",
          "effects", "doNextAction", "choose", "reactToEvent", "reactLater", "swing"}
Bigger(a, b) == IF a > b THEN a ELSE b

EffectiveTime(s) == Bigger(Gcd[s], CastTime[s])
Casting == hard.expires > now
Due == hard.expires # Idle /\ hard.expires <= now

-----------------------------------------------------------------------------
(* The unit's pending actions: each is in the queue once, and all are of    *)
(* one priority, so that a newcomer goes behind those due when it is.       *)

Unscheduled(q, what) ==
  LET here == {i \in 1..Len(q) : q[i].what = what}
  IN IF here = {} THEN q ELSE RemoveAt(q, Min(here))

Scheduled(q, what, t) ==
  LET rest  == Unscheduled(q, what)
      later == {i \in 1..Len(rest) : rest[i].at > t}
  IN InsertAt(rest, IF later = {} THEN Len(rest) + 1 ELSE Min(later),
              [what |-> what, at |-> t])

\* SetRotationTimer: the rotation action is taken out of the queue and added again.
\* q is the queue this changes.
SetRotationTimer(q, t) ==
  /\ wakeAt' = t
  /\ agenda' = Scheduled(q, "rotation", t)

SetGCDTimer(q, t) ==
  /\ gcdAt' = t
  /\ SetRotationTimer(q, t)

Init ==
  /\ ruleset \in Rulesets
  /\ now = 0
  /\ hard = [spell |-> NoSpell, expires |-> Idle]
  /\ gcdAt = 0 /\ wakeAt = 0
  /\ readyAt = [s \in Spells |-> 0]
  /\ queued = [spell |-> NoSpell, since |-> Idle, behind |-> Idle]
  /\ agenda = <<[what |-> "rotation", at |-> 0]>>
  /\ inLoop = FALSE
  /\ stack = <<>>
  /\ hits = 0 /\ open = 0 /\ lastCast = Idle /\ overtaken = 0

\* The innermost call is what, and it is replaced by the calls it makes.
Running(what) == stack # <<>> /\ Head(stack) = what
Return(calls) == stack' = calls \o Tail(stack)

-----------------------------------------------------------------------------
(* What a caster may cast and queue.                                        *)

GcdReady(s) == Gcd[s] > 0 => gcdAt <= now
CanCast(s) == ~ Casting /\ GcdReady(s) /\ readyAt[s] <= now

CanQueue(s) ==
  /\ Gcd[s] > 0 => gcdAt - now <= QueueWindow
  /\ readyAt[s] - now <= QueueWindow

\* One spell is queued per instant.
CanQueueSpell == queued.since # now

CancelledQueue == [queued EXCEPT !.since = Idle]

\* (mutant: the checks that a queued spell relies on are made when it is queued only)
CastBlindly(s) == ~ Casting

\* The checks a cast makes again (makeCastFunc): a queued spell passes them or fails.
CastPasses(s) == CanCast(s)

\* The unit starts to cast s: its timers, and either a hardcast that the hardcast
\* action will complete, or its effects at once.  q is the queue without a spell
\* that this cast cancels.
Start(s, q, more) ==
  LET gcd == Bigger(now + EffectiveTime(s), gcdAt)
      q1  == IF EffectiveTime(s) > 0 THEN Scheduled(q, "rotation", gcd) ELSE q
      due == now + CastTime[s]
  IN /\ IF EffectiveTime(s) > 0 THEN gcdAt' = gcd /\ wakeAt' = gcd
        ELSE UNCHANGED <<gcdAt, wakeAt>>
     /\ IF CastTime[s] > 0
        THEN /\ hard' = [spell |-> s, expires |-> due]
             /\ agenda' = Scheduled(q1, "hardcast", due)
             /\ open' = open + 1
             /\ Return(more)
             /\ UNCHANGED readyAt
        ELSE /\ agenda' = q1
             /\ readyAt' = [readyAt EXCEPT ![s] = now + Cooldown[s]]
             /\ Return(<<"effects">> \o more)
             /\ UNCHANGED <<hard, open>>

\* (mutant: a cast leaves the queued spell in the queue)
CastKeepingQueue(s, more) ==
  /\ UNCHANGED queued
  /\ lastCast' = IF EffectiveTime(s) > 0 THEN now ELSE lastCast
  /\ IF CastPasses(s) THEN Start(s, agenda, more)
     ELSE Return(more) /\ UNCHANGED <<agenda, hard, gcdAt, wakeAt, readyAt, open>>

\* Spell.Cast: a spell that takes time takes the place of the queued one, also when
\* the cast then fails.
Cast(s, more) ==
  LET replaces == EffectiveTime(s) > 0
      q == IF replaces THEN Unscheduled(agenda, "queued") ELSE agenda
  IN /\ queued' = IF replaces THEN CancelledQueue ELSE queued
     /\ lastCast' = IF replaces THEN now ELSE lastCast
     /\ IF CastPasses(s) THEN Start(s, q, more)
        ELSE /\ agenda' = q
             /\ Return(more)
             /\ UNCHANGED <<hard, gcdAt, wakeAt, readyAt, open>>

\* CastOrQueue, when s cannot be cast yet but soon: it is queued for the moment the
\* last of its timers is ready, and takes the place of what was queued before.
QueueSpell(s) ==
  LET spellReady == Bigger(hard.expires, readyAt[s])
      at == IF Gcd[s] > 0 THEN Bigger(spellReady, gcdAt) ELSE spellReady
  IN /\ queued' = [spell |-> s, since |-> now, behind |-> hard.expires]
     /\ agenda' = Scheduled(agenda, "queued", at + QueueDelay)

-----------------------------------------------------------------------------
(* The calls.                                                               *)

\* A due cast is taken off the unit before its completion is called, so that it is
\* completed once, whoever gets here first.  Only "boundary" takes the hardcast
\* action out of the queue.
TakeDue(q, more) ==
  /\ hard' = [hard EXCEPT !.expires = Idle]
  /\ agenda' = q
  /\ Return(<<"onComplete">> \o more)
  /\ UNCHANGED <<gcdAt, wakeAt, readyAt, queued, inLoop, open, lastCast>>

Skip(more) ==
  /\ Return(more)
  /\ UNCHANGED <<hard, gcdAt, wakeAt, readyAt, queued, agenda, inLoop, open, lastCast>>

\* The OnAction of the rotation action: a due cast first, then the rotation.
RotationAction ==
  /\ Running("rotationAction")
  /\ IF Due THEN TakeDue(agenda, <<"doNextAction">>) ELSE Skip(<<"doNextAction">>)

\* The OnAction of the hardcast action.
HardcastAction ==
  /\ Running("hardcastAction")
  /\ IF Due THEN TakeDue(agenda, <<>>) ELSE Skip(<<>>)

\* The OnAction of a queued spell.
QueuedAction ==
  /\ Running("queuedAction")
  /\ Cast(queued.spell, <<>>)
  /\ UNCHANGED inLoop

\* (mutant: the boundary before swings and wake-ups completes nothing)
BoundaryForgotten == Running("boundary") /\ Skip(<<>>)

\* completeClassic60PaladinCastAtBoundary.
Boundary ==
  /\ Running("boundary")
  /\ IF ruleset = "classic60" /\ Due THEN TakeDue(Unscheduled(agenda, "hardcast"), <<>>)
     ELSE Skip(<<>>)

\* OnComplete: the cast may have become impossible; else it costs, starts its
\* cooldown and takes effect.
OnComplete ==
  /\ Running("onComplete")
  /\ open' = open - 1
  /\ \/ Return(<<>>) /\ UNCHANGED readyAt
     \/ /\ readyAt' = [readyAt EXCEPT ![hard.spell] = now + Cooldown[hard.spell]]
        /\ Return(<<"effects">>)
  /\ UNCHANGED <<hard, gcdAt, wakeAt, queued, agenda, inLoop, lastCast>>

\* The effects of a spell, and the callbacks of the auras that see it, may gain a
\* resource or end a weave, both of which wake the rotation.
Effects ==
  /\ Running("effects")
  /\ \/ Skip(<<>>)
     \/ Skip(<<"reactToEvent">>)

\* DoNextAction: not from within itself, and not before the rotation timer.
DoNextAction ==
  /\ Running("doNextAction")
  /\ IF inLoop THEN Skip(<<>>) ELSE Skip(<<"boundary", "choose">>)

StartChoosing ==
  /\ Running("choose") /\ ~ inLoop
  /\ IF wakeAt <= now
     THEN /\ inLoop' = TRUE
          /\ UNCHANGED <<hard, gcdAt, wakeAt, readyAt, queued, agenda, stack, open, lastCast>>
     ELSE Skip(<<>>)

\* The rotation is the user's: any spell it could cast or queue may be its next action.
ChooseCast(s) ==
  /\ Running("choose") /\ inLoop
  /\ CanQueueSpell /\ CanQueue(s) /\ CanCast(s)
  /\ Cast(s, <<"choose">>)
  /\ UNCHANGED inLoop

ChooseQueue(s) ==
  /\ Running("choose") /\ inLoop
  /\ CanQueueSpell /\ CanQueue(s) /\ ~ CanCast(s)
  /\ QueueSpell(s)
  /\ UNCHANGED <<hard, gcdAt, wakeAt, readyAt, inLoop, stack, open, lastCast>>

\* (mutant: the timer that has run out is not set again)
ChooseNothingAsleep ==
  /\ Running("choose") /\ inLoop
  /\ inLoop' = FALSE
  /\ Return(<<>>)
  /\ UNCHANGED <<hard, gcdAt, wakeAt, readyAt, queued, agenda, open, lastCast>>

\* No action is left: if no cast has set the timer, it is set now.
ChooseNothing ==
  /\ Running("choose") /\ inLoop
  /\ inLoop' = FALSE
  /\ Return(<<>>)
  /\ IF wakeAt <= now THEN SetRotationTimer(agenda, Bigger(now + Reaction, gcdAt))
     ELSE UNCHANGED <<wakeAt, agenda>>
  /\ UNCHANGED <<hard, gcdAt, readyAt, queued, open, lastCast>>

\* ReactToEvent: the rotation now, and again after the reaction time.
ReactToEvent == Running("reactToEvent") /\ Skip(<<"doNextAction", "reactLater">>)

ReactLater ==
  /\ Running("reactLater")
  /\ Return(<<>>)
  /\ IF wakeAt > now + Reaction THEN SetRotationTimer(agenda, now + Reaction)
     ELSE UNCHANGED <<wakeAt, agenda>>
  /\ UNCHANGED <<hard, gcdAt, readyAt, queued, inLoop, open, lastCast>>

\* WeaponAttack.swing: the Classic paladin defers a swing that falls into a cast; any
\* other swing wakes the rotation, unless the unit is a tank.
Swing ==
  /\ Running("swing")
  /\ \/ Skip(<<>>)
     \/ ~ (ruleset = "classic60" /\ Casting) /\ Skip(<<"reactToEvent">>)

Call ==
  \/ RotationAction \/ HardcastAction \/ QueuedAction \/ Boundary \/ OnComplete \/ Effects
  \/ DoNextAction \/ StartChoosing \/ ChooseNothing \/ ReactToEvent \/ ReactLater \/ Swing
  \/ \E s \in Spells : ChooseCast(s) \/ ChooseQueue(s)

-----------------------------------------------------------------------------
(* What happens to the unit between calls: its next pending action, and      *)
(* anything before it or at the same time.                                   *)

Quiet == stack = <<>>

\* The clock moves to t, but never past the next pending action.
ClockTo(t) == t \in now..agenda[1].at /\ t <= MaxTime /\ now' = t

Perform(what) ==
  CASE what = "rotation" -> "rotationAction"
    [] what = "hardcast" -> "hardcastAction"
    [] OTHER             -> "queuedAction"

\* Step pops the next action, moves the clock and performs the action.
Step ==
  /\ Quiet
  /\ ClockTo(agenda[1].at)
  /\ agenda' = Tail(agenda)
  /\ stack' = <<Perform(agenda[1].what)>>
  /\ UNCHANGED <<hard, gcdAt, wakeAt, readyAt, queued, inLoop, hits, open, lastCast>>

\* A swing of the unit, or an event that wakes its rotation: a gain of rage, damage
\* it takes.  Step prefers swings to the queue, and other units' actions may be due at
\* the same time.
Event(call) ==
  /\ Quiet
  /\ \E t \in EventTimes \cup {agenda[1].at} : ClockTo(t)
  /\ stack' = call
  /\ UNCHANGED <<hard, gcdAt, wakeAt, readyAt, queued, agenda, inLoop, hits, open, lastCast>>

\* (mutant: the action that completes the cast is not moved)
HitQuietly ==
  /\ Quiet /\ hits < MaxHits /\ Len(agenda) > 0
  /\ \E t \in EventTimes \cup {agenda[1].at} : ClockTo(t) /\ hard.expires > t
  /\ hits' = hits + 1
  /\ hard' = [hard EXCEPT !.expires = @ + Pushback]
  /\ UNCHANGED <<gcdAt, wakeAt, readyAt, queued, agenda, inLoop, stack, open, lastCast>>

\* A hit pushes a cast back; the Classic paladin's global cooldown follows.
Hit ==
  /\ Quiet /\ hits < MaxHits
  /\ \E t \in EventTimes \cup {agenda[1].at} : ClockTo(t) /\ hard.expires > t
  /\ hits' = hits + 1
  /\ LET due == hard.expires + Pushback
         gcd == Bigger(gcdAt, due)
         q   == IF ruleset = "classic60" THEN Scheduled(agenda, "rotation", gcd) ELSE agenda
     IN /\ hard' = [hard EXCEPT !.expires = due]
        /\ agenda' = Scheduled(q, "hardcast", due)
        /\ IF ruleset = "classic60" THEN gcdAt' = gcd /\ wakeAt' = gcd
           ELSE UNCHANGED <<gcdAt, wakeAt>>
  /\ UNCHANGED <<readyAt, queued, inLoop, stack, open, lastCast>>

\* (mutant: a cast is cancelled that is not there)
InterruptAlways ==
  /\ Quiet /\ hits < MaxHits
  /\ hits' = hits + 1
  /\ \E t \in EventTimes \cup {agenda[1].at} :
       ClockTo(t) /\ SetGCDTimer(Unscheduled(agenda, "queued"), t + Reaction)
  /\ hard' = [hard EXCEPT !.expires = Idle]
  /\ open' = open - 1
  /\ queued' = CancelledQueue
  /\ UNCHANGED <<readyAt, inLoop, stack, lastCast>>

\* Interrupt, when the unit is crowd controlled: the cast is cancelled, with the
\* timers set to the reaction time, and so is the queued spell.
Interrupt ==
  /\ Quiet /\ hits < MaxHits
  /\ hits' = hits + 1
  /\ \E t \in EventTimes \cup {agenda[1].at} :
       /\ ClockTo(t)
       /\ LET q == Unscheduled(agenda, "queued") IN
          IF hard.expires > t
          THEN /\ hard' = [hard EXCEPT !.expires = Idle]
               /\ SetGCDTimer(q, t + Reaction)
               /\ open' = open - 1
          ELSE /\ agenda' = q
               /\ UNCHANGED <<hard, gcdAt, wakeAt, open>>
  /\ queued' = CancelledQueue
  /\ UNCHANGED <<readyAt, inLoop, stack, lastCast>>

\* A queued spell waits for the end of the cast as it was when it was queued.  When a
\* hit has moved that end since, both may be due at one instant, and the queued spell,
\* the first of the two in the queue, begins its own cast in place of the due one.
Overtakes ==
  /\ Running("queuedAction") /\ CastTime[queued.spell] > 0 /\ CastPasses(queued.spell)
  /\ Due /\ hard.expires > queued.behind

Next ==
  /\ \/ Call /\ UNCHANGED <<now, hits>>
     \/ Step \/ Event(<<"reactToEvent">>) \/ Event(<<"boundary", "swing">>)
     \/ Hit \/ Interrupt
  /\ overtaken' = IF Overtakes THEN overtaken + 1 ELSE overtaken
  /\ UNCHANGED ruleset

Spec == Init /\ [][Next]_vars

-----------------------------------------------------------------------------
(* Properties.                                                              *)

TypeOK ==
  /\ ruleset \in Rulesets
  /\ now \in 0..MaxTime /\ hits \in 0..MaxHits
  /\ hard \in [spell : Spells \cup {NoSpell}, expires : Nat \cup {Idle}]
  /\ gcdAt \in Nat /\ wakeAt \in Nat /\ readyAt \in [Spells -> Nat]
  /\ queued \in [spell : Spells \cup {NoSpell}, since : 0..MaxTime \cup {Idle},
                 behind : Nat \cup {Idle}]
  /\ agenda \in Seq([what : Actions, at : Nat])
  /\ inLoop \in BOOLEAN
  /\ stack \in Seq(Calls)
  /\ open \in Nat /\ lastCast \in 0..MaxTime \cup {Idle} /\ overtaken \in Nat

\* The casts that are under way: the one the unit is casting, and those being completed.
Underway == (IF hard.expires # Idle THEN 1 ELSE 0)
              + Cardinality({i \in 1..Len(stack) : stack[i] = "onComplete"})

\* The casts that have begun are those under way: none is replaced by the next before
\* it took effect ("The amount of time between the call to spell.Cast() and when the
\* spell effects are invoked", cast.go:56).
EveryCastEnds == open = Underway

\* Under the rules of the Classic paladin that is so ("Finish the private Classic
\* Paladin cast first", gcd.go:8), but for the casts a queued spell has overtaken after
\* a hit: the guard is not called there (spell_queueing.go:43).  Under all rules a cast
\* is completed on time: no pending action is performed after the moment it is due.
CastsOnTime ==
  /\ ruleset = "classic60" => open = Underway + overtaken
  /\ Quiet /\ hard.expires # Idle =>
       /\ now <= hard.expires
       /\ \E i \in 1..Len(agenda) :
            agenda[i].what \in {"rotation", "hardcast"} /\ agenda[i].at = hard.expires

\* A spell takes effect again only when its cooldown is over, although the cooldown of
\* a cast begins only at its end and a spell may be queued during its own cast.
CooldownsHold ==
  [][\A s \in Spells : readyAt'[s] # readyAt[s] => readyAt[s] <= now']_vars

\* The unit never falls asleep: between calls its rotation is queued once, for the
\* time of its timer, and no action of its is left behind in the past.
RotationAwake ==
  Quiet => /\ ~ inLoop
           /\ \E i \in 1..Len(agenda) : agenda[i] = [what |-> "rotation", at |-> wakeAt]
           /\ \A i, j \in 1..Len(agenda) :
                /\ agenda[i].at >= now
                /\ agenda[i].what = agenda[j].what => i = j

\* A queued spell is what the rotation wanted last: no spell that takes time has been
\* cast, and nothing has interrupted the unit, since it was queued.
QueueIsFresh ==
  \A i \in 1..Len(agenda) : agenda[i].what = "queued" => queued.since >= Bigger(lastCast, 0)

\* The pending actions of the unit are those its state speaks of: its rotation at its
\* timer, and a queued spell only while nothing has taken its place.
AgendaKept == RotationAwake /\ QueueIsFresh
=============================================================================
