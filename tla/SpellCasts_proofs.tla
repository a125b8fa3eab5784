-------------------------- MODULE SpellCasts_proofs --------------------------
(* Proofs about SpellCasts for any spells, times and rotation.  IInv is what   *)
(* CooldownsHold needs under both rulesets, AgendaInv ties what the unit waits *)
(* for and the calls it has still to make to the agenda, and ClassicInv, at    *)
(* the end, is about the casts of the Classic paladin, with WaitInv for those  *)
(* that a queued spell overtakes.                                              *)
(*                                                                             *)
(* Cooldowns: a spell without a cast time is checked in the call that starts   *)
(* its cooldown.  One with a cast time is checked when the cast begins, and    *)
(* its cooldown starts when the cast is completed, after any number of other   *)
(* calls: HardInv says that the check still holds then, because meanwhile only *)
(* spells without a cast time take effect.  That it is not completed twice is  *)
(* TopInv: a due cast is taken off the unit when its completion is called, and *)
(* that call is made before all others.                                        *)
EXTENDS SpellCasts, SequenceTheorems, FiniteSetTheorems, WellFoundedInduction, TLAPS

Types ==
    /\ now \in Nat
    /\ readyAt \in [Spells -> Nat]
    /\ stack \in Seq(Calls)
    /\ hard = [spell |-> hard.spell, expires |-> hard.expires]

\* Only the innermost call may be a completion.
OnTop(calls) == \A i \in 2..Len(calls) : calls[i] # "onComplete"
Completes(calls) == calls # <<>> /\ Head(calls) = "onComplete"

TopInv ==
    /\ OnTop(stack)
    /\ Completes(stack) =>
          hard.expires = Idle /\ (hard.spell \in Spells => readyAt[hard.spell] <= now)

HardInv ==
    hard.expires # Idle /\ hard.spell \in Spells =>
        CastTime[hard.spell] > 0 /\ readyAt[hard.spell] <= now

IInv == Types /\ TopInv /\ HardInv

\* A step in which every spell that takes effect has its cooldown behind it.
CooldownStep == \A s \in Spells : readyAt'[s] # readyAt[s] => readyAt[s] <= now'

-----------------------------------------------------------------------------
(* The calls.                                                                *)

\* When the innermost call is replaced by calls, a completion comes from them or
\* is not there.
LEMMA ReturnTop ==
    ASSUME NEW st \in Seq(Calls), st # <<>>, OnTop(st),
           NEW calls \in Seq(Calls), OnTop(calls)
    PROVE  LET r == calls \o Tail(st)
           IN r \in Seq(Calls) /\ OnTop(r) /\ (Completes(r) => Completes(calls))
<1> DEFINE t == Tail(st)
           r == calls \o t
<1>1. t \in Seq(Calls) /\ Len(t) = Len(st) - 1 /\ Len(st) \in Nat \ {0} /\ Len(calls) \in Nat
      /\ \A i \in 1..Len(t) : t[i] = st[i + 1]
  BY HeadTailProperties, EmptySeq, LenProperties
<1>2. \A i \in 1..Len(t) : t[i] # "onComplete"
  <2> SUFFICES ASSUME NEW i \in 1..Len(t) PROVE t[i] # "onComplete"
    OBVIOUS
  <2> QED
    BY <1>1 DEF OnTop
<1>3. /\ r \in Seq(Calls) /\ Len(r) = Len(calls) + Len(t)
      /\ \A i \in 1..Len(calls) + Len(t) :
            r[i] = IF i <= Len(calls) THEN calls[i] ELSE t[i - Len(calls)]
  BY <1>1, ConcatProperties
<1> HIDE DEF t, r
<1>4. OnTop(r)
  <2> SUFFICES ASSUME NEW i \in 2..Len(r) PROVE r[i] # "onComplete"
    BY DEF OnTop
  <2>1. CASE i <= Len(calls)
    <3>1. i \in 2..Len(calls) /\ i \in 1..Len(calls) + Len(t) /\ r[i] = calls[i]
      BY <1>1, <1>3, <2>1
    <3> QED
      BY <3>1 DEF OnTop
  <2>2. CASE i > Len(calls)
    <3>1. Len(t) \in Nat /\ i \in 1..Len(calls) + Len(t)
      BY <1>1, <1>3, LenProperties
    <3>2. i - Len(calls) \in 1..Len(t)
      BY <1>1, <2>2, <3>1
    <3>3. r[i] = t[i - Len(calls)]
      BY <1>1, <1>3, <2>2, <3>1
    <3> QED
      BY <1>2, <3>2, <3>3
  <2> QED
    BY <1>1, <2>1, <2>2
<1>5. ASSUME Completes(r) PROVE Completes(calls)
  <2>1. Len(r) > 0 /\ r[1] = "onComplete" /\ Len(t) \in Nat
    BY <1>1, <1>3, <1>5, EmptySeq, LenProperties DEF Completes
  <2>2. Len(calls) # 0
    <3> SUFFICES ASSUME Len(calls) = 0 PROVE FALSE
      OBVIOUS
    <3>1. 1 \in 1..Len(t) /\ r[1] = t[1]
      BY <1>1, <1>3, <2>1
    <3> QED
      BY <1>2, <2>1, <3>1
  <2>3. calls[1] = "onComplete" /\ calls # <<>>
    BY <1>1, <1>3, <2>1, <2>2, EmptySeq
  <2> QED
    BY <2>3 DEF Completes
<1> QED
  BY <1>3, <1>4, <1>5 DEF r, t

\* The calls that a call makes, none of which is a completion.
Calm(calls) == calls \in Seq(Calls) /\ \A i \in 1..Len(calls) : calls[i] # "onComplete"

LEMMA CalmTop ==
    ASSUME NEW calls, Calm(calls)
    PROVE  calls \in Seq(Calls) /\ OnTop(calls) /\ ~Completes(calls)
<1>1. calls \in Seq(Calls) /\ Len(calls) \in Nat
  BY LenProperties DEF Calm
<1>2. OnTop(calls)
  BY <1>1 DEF Calm, OnTop
<1>3. ~Completes(calls)
  <2> SUFFICES ASSUME calls # <<>>, Head(calls) = "onComplete" PROVE FALSE
    BY DEF Completes
  <2>1. 1 \in 1..Len(calls) /\ calls[1] = "onComplete"
    BY <1>1, EmptySeq
  <2> QED
    BY <2>1 DEF Calm
<1> QED
  BY <1>1, <1>2, <1>3

\* The invariant after a step that calls no completion, from what the step does to
\* the clock, the cooldowns and the cast.
LEMMA CalmStep ==
    ASSUME IInv, NEW calls, Calm(calls), stack' = calls \/ (stack # <<>> /\ Return(calls)),
           now' \in Nat, readyAt' \in [Spells -> Nat],
           hard' = [spell |-> hard'.spell, expires |-> hard'.expires], HardInv'
    PROVE  IInv'
<1>1. calls \in Seq(Calls) /\ OnTop(calls) /\ ~Completes(calls)
  BY CalmTop
<1>2. stack' \in Seq(Calls) /\ OnTop(stack)' /\ ~Completes(stack')
  <2>1. CASE stack' = calls
    BY <1>1, <2>1 DEF OnTop
  <2>2. CASE stack # <<>> /\ Return(calls)
    <3>1. stack' = calls \o Tail(stack) /\ stack \in Seq(Calls) /\ OnTop(stack)
      BY <2>2 DEF Return, IInv, Types, TopInv
    <3>2. /\ calls \o Tail(stack) \in Seq(Calls) /\ OnTop(calls \o Tail(stack))
          /\ Completes(calls \o Tail(stack)) => Completes(calls)
      BY <1>1, <2>2, <3>1, ReturnTop
    <3> QED
      BY <1>1, <3>1, <3>2 DEF OnTop
  <2> QED
    BY <2>1, <2>2
<1> QED
  BY <1>2 DEF IInv, Types, TopInv, Completes

-----------------------------------------------------------------------------
(* The steps.                                                                *)

\* What no call makes more of than these.
LEMMA CalmCalls ==
    /\ Calm(<<>>)
    /\ \A c \in Calls \ {"onComplete"} : Calm(<<c>>)
    /\ \A c, d \in Calls \ {"onComplete"} : Calm(<<c, d>>)
  BY DEF Calm

\* A call in front of such calls.
LEMMA CallBefore ==
    ASSUME NEW c \in Calls, NEW more, Calm(more)
    PROVE  LET r == <<c>> \o more
           IN r \in Seq(Calls) /\ OnTop(r) /\ (c # "onComplete" => Calm(r))
<1> DEFINE r == <<c>> \o more
<1>1. more \in Seq(Calls) /\ <<c>> \in Seq(Calls) /\ Len(<<c>>) = 1 /\ <<c>>[1] = c
      /\ Len(more) \in Nat /\ \A i \in 1..Len(more) : more[i] # "onComplete"
  BY LenProperties DEF Calm
<1>2. /\ r \in Seq(Calls) /\ Len(r) = 1 + Len(more)
      /\ \A i \in 1..1 + Len(more) : r[i] = IF i <= 1 THEN <<c>>[i] ELSE more[i - 1]
  BY <1>1, ConcatProperties
<1> HIDE DEF r
<1>3. r[1] = c
  BY <1>1, <1>2
<1>4. ASSUME NEW i \in 2..Len(r) PROVE r[i] # "onComplete"
  <2>1. r[i] = more[i - 1] /\ i - 1 \in 1..Len(more)
    BY <1>1, <1>2
  <2> QED
    BY <1>1, <2>1
<1>5. OnTop(r)
  BY <1>4 DEF OnTop
<1>6. ASSUME c # "onComplete", NEW i \in 1..Len(r) PROVE r[i] # "onComplete"
  BY <1>1, <1>2, <1>3, <1>4, <1>6
<1> QED
  BY <1>2, <1>5, <1>6 DEF r, Calm

\* Setting a cooldown to a later time.
LEMMA SetCooldown ==
    ASSUME now \in Nat, readyAt \in [Spells -> Nat], NEW s,
           readyAt' = [readyAt EXCEPT ![s] = now + Cooldown[s]]
    PROVE  readyAt' \in [Spells -> Nat] /\ \A x \in Spells : x # s => readyAt'[x] = readyAt[x]
<1>1. \A x \in Spells : readyAt'[x] = IF x = s THEN now + Cooldown[s] ELSE readyAt[x]
  OBVIOUS
<1>2. ASSUME s \in Spells PROVE now + Cooldown[s] \in Nat
  <2>1. Cooldown[s] \in Nat
    BY <1>2, CastAssumption
  <2> QED
    BY <2>1
<1>3. \A x \in Spells : readyAt'[x] \in Nat
  BY <1>1, <1>2
<1>4. readyAt' = [x \in Spells |-> readyAt'[x]]
  OBVIOUS
<1> QED
  BY <1>1, <1>3, <1>4

\* Steps that touch neither the cast nor a cooldown.
LEMMA QuietStep ==
    ASSUME IInv, now' \in Nat, now' >= now, UNCHANGED <<hard, readyAt>>,
           NEW calls, Calm(calls), stack' = calls \/ (stack # <<>> /\ Return(calls))
    PROVE  IInv' /\ CooldownStep
<1>1. /\ readyAt' \in [Spells -> Nat]
      /\ hard' = [spell |-> hard'.spell, expires |-> hard'.expires]
  BY DEF IInv, Types
<1>2. HardInv'
  <2> SUFFICES ASSUME hard.expires # Idle, hard.spell \in Spells
               PROVE  CastTime[hard.spell] > 0 /\ readyAt[hard.spell] <= now'
    BY DEF HardInv, Idle
  <2> QED
    BY DEF IInv, Types, HardInv
<1> QED
  BY <1>1, <1>2, CalmStep DEF CooldownStep

\* Steps that leave the calls alone too.
LEMMA SameStep ==
    ASSUME IInv, now' = now, UNCHANGED <<hard, readyAt, stack>>
    PROVE  IInv' /\ CooldownStep
  BY DEF IInv, Types, TopInv, HardInv, OnTop, Completes, Idle, CooldownStep

LEMMA SkipStep ==
    ASSUME IInv, now' = now, NEW what, Running(what), NEW calls, Calm(calls), Skip(calls)
    PROVE  IInv' /\ CooldownStep
<1>1. stack # <<>> /\ Return(calls) /\ UNCHANGED <<hard, readyAt>>
  BY DEF Skip, Running
<1>2. now' \in Nat /\ now' >= now
  BY DEF IInv, Types
<1> QED
  BY <1>1, <1>2, QuietStep

\* A due cast goes into its completion with the check it passed when it began.
LEMMA TakeDueStep ==
    ASSUME IInv, now' = now, NEW what, Running(what), Due, NEW q,
           NEW more, more \in {<<>>, <<"doNextAction">>}, TakeDue(q, more)
    PROVE  IInv' /\ CooldownStep
<1> DEFINE calls == <<"onComplete">> \o more
<1>1. calls \in Seq(Calls) /\ OnTop(calls)
  <2>1. Calm(more) /\ "onComplete" \in Calls
    BY CalmCalls DEF Calls
  <2> QED
    BY <2>1, CallBefore
<1>2. /\ stack # <<>> /\ stack \in Seq(Calls) /\ OnTop(stack)
      /\ stack' = calls \o Tail(stack) /\ readyAt' = readyAt
      /\ hard' = [hard EXCEPT !.expires = Idle]
  BY DEF TakeDue, Return, Running, IInv, Types, TopInv
<1> HIDE DEF calls
<1>3. stack' \in Seq(Calls) /\ OnTop(stack')
  BY <1>1, <1>2, ReturnTop
<1>4. hard' = [spell |-> hard.spell, expires |-> Idle]
  BY <1>2 DEF IInv, Types
<1>5. hard'.spell = hard.spell /\ hard'.expires = Idle
      /\ hard' = [spell |-> hard'.spell, expires |-> hard'.expires]
  BY <1>4
<1>6. hard.spell \in Spells => readyAt[hard.spell] <= now
  BY DEF Due, IInv, HardInv
<1>7. Types'
  BY <1>2, <1>3, <1>5 DEF IInv, Types
<1>8. TopInv'
  BY <1>2, <1>3, <1>5, <1>6 DEF TopInv, OnTop, Completes, Idle
<1>9. HardInv'
  BY <1>5 DEF HardInv, Idle
<1> QED
  BY <1>2, <1>7, <1>8, <1>9 DEF IInv, CooldownStep

\* A cast passes its checks, and then either begins or takes effect at once.
LEMMA CastStep ==
    ASSUME IInv, now' = now, stack # <<>>, NEW s,
           NEW more, more \in {<<>>, <<"choose">>}, Cast(s, more)
    PROVE  IInv' /\ CooldownStep
<1> DEFINE q == IF EffectiveTime(s) > 0 THEN Unscheduled(agenda, "queued") ELSE agenda
<1>1. Calm(more) /\ Calm(<<"effects">> \o more)
  <2>1. Calm(more) /\ "effects" \in Calls /\ "effects" # "onComplete"
    BY CalmCalls DEF Calls
  <2> QED
    BY <2>1, CallBefore
<1>2. now \in Nat /\ now' \in Nat /\ now' >= now /\ readyAt \in [Spells -> Nat]
      /\ hard = [spell |-> hard.spell, expires |-> hard.expires]
  BY DEF IInv, Types
<1>3. CASE CastPasses(s) /\ CastTime[s] > 0
  <2>1. /\ hard' = [spell |-> s, expires |-> now + CastTime[s]]
        /\ Return(more) /\ readyAt' = readyAt
    BY <1>3 DEF Cast, Start
  <2>2. readyAt[s] <= now
    BY <1>3 DEF CastPasses, CanCast
  <2>3. hard' = [spell |-> hard'.spell, expires |-> hard'.expires] /\ hard'.spell = s
    BY <2>1
  <2>4. HardInv'
    BY <1>3, <2>1, <2>2, <2>3 DEF HardInv, Idle
  <2>5. readyAt' \in [Spells -> Nat]
    BY <1>2, <2>1
  <2>6. IInv'
    BY <1>1, <1>2, <2>1, <2>3, <2>4, <2>5, CalmStep
  <2> QED
    BY <2>1, <2>6 DEF CooldownStep
<1>4. CASE CastPasses(s) /\ ~(CastTime[s] > 0)
  <2>1. /\ readyAt' = [readyAt EXCEPT ![s] = now + Cooldown[s]]
        /\ Return(<<"effects">> \o more) /\ hard' = hard
    BY <1>4 DEF Cast, Start
  <2>2. readyAt[s] <= now
    BY <1>4 DEF CastPasses, CanCast
  <2>3. readyAt' \in [Spells -> Nat] /\ \A x \in Spells : x # s => readyAt'[x] = readyAt[x]
    BY <1>2, <2>1, SetCooldown
  <2>4. HardInv'
    <3> SUFFICES ASSUME hard.expires # Idle, hard.spell \in Spells
                 PROVE  CastTime[hard.spell] > 0 /\ readyAt'[hard.spell] <= now'
      BY <2>1 DEF HardInv, Idle
    <3>1. CastTime[hard.spell] > 0 /\ readyAt[hard.spell] <= now
      BY DEF IInv, HardInv
    <3>2. hard.spell # s
      BY <1>4, <3>1
    <3> QED
      BY <2>3, <3>1, <3>2
  <2>5. IInv'
    BY <1>1, <1>2, <2>1, <2>3, <2>4, CalmStep
  <2>6. CooldownStep
    BY <2>2, <2>3 DEF CooldownStep
  <2> QED
    BY <2>5, <2>6
<1>5. CASE ~CastPasses(s)
  <2>1. Return(more) /\ UNCHANGED <<hard, readyAt>>
    BY <1>5 DEF Cast
  <2> QED
    BY <1>1, <1>2, <2>1, QuietStep
<1> QED
  BY <1>3, <1>4, <1>5

\* The completion of a cast starts the cooldown, and there is no second one.
LEMMA OnCompleteStep ==
    ASSUME IInv, now' = now, OnComplete
    PROVE  IInv' /\ CooldownStep
<1>1. stack # <<>> /\ Completes(stack)
  BY DEF OnComplete, Running, Completes
<1>2. /\ now \in Nat /\ now' \in Nat /\ now' >= now /\ readyAt \in [Spells -> Nat]
      /\ hard = [spell |-> hard.spell, expires |-> hard.expires] /\ hard' = hard
  BY DEF IInv, Types, OnComplete
<1>3. hard.expires = Idle /\ (hard.spell \in Spells => readyAt[hard.spell] <= now)
  BY <1>1 DEF IInv, TopInv
<1>4. CASE Return(<<>>) /\ UNCHANGED readyAt
  BY <1>1, <1>2, <1>4, CalmCalls, QuietStep
<1>5. CASE /\ readyAt' = [readyAt EXCEPT ![hard.spell] = now + Cooldown[hard.spell]]
           /\ Return(<<"effects">>)
  <2>1. /\ readyAt' \in [Spells -> Nat]
        /\ \A x \in Spells : x # hard.spell => readyAt'[x] = readyAt[x]
    BY <1>2, <1>5, SetCooldown
  <2>2. HardInv'
    BY <1>2, <1>3 DEF HardInv, Idle
  <2>3. Calm(<<"effects">>)
    BY CalmCalls DEF Calls
  <2>4. IInv'
    BY <1>1, <1>2, <1>5, <2>1, <2>2, <2>3, CalmStep
  <2> QED
    BY <1>2, <1>3, <2>1, <2>4 DEF CooldownStep
<1> QED
  BY <1>4, <1>5 DEF OnComplete

-----------------------------------------------------------------------------
(* The theorem.                                                              *)

LEMMA InitInv == Init => IInv
<1> SUFFICES ASSUME Init PROVE IInv
  OBVIOUS
<1>1. Types
  BY DEF Init, Types
<1>2. stack = <<>> /\ Len(stack) = 0 /\ hard.expires = Idle
  BY DEF Init
<1> QED
  BY <1>1, <1>2 DEF IInv, TopInv, HardInv, OnTop, Completes

LEMMA CallInv ==
    ASSUME IInv, Call, now' = now
    PROVE  IInv' /\ CooldownStep
<1>0. /\ Calm(<<>>) /\ Calm(<<"doNextAction">>) /\ Calm(<<"boundary", "choose">>)
      /\ Calm(<<"reactToEvent">>) /\ Calm(<<"doNextAction", "reactLater">>)
  BY CalmCalls DEF Calls
<1>1. now' \in Nat /\ now' >= now
  BY DEF IInv, Types
<1>2. CASE RotationAction
  <2>1. CASE Due
    BY <1>2, <2>1, TakeDueStep DEF RotationAction
  <2>2. CASE ~Due
    BY <1>0, <1>2, <2>2, SkipStep DEF RotationAction
  <2> QED
    BY <2>1, <2>2
<1>3. CASE HardcastAction
  <2>1. CASE Due
    BY <1>3, <2>1, TakeDueStep DEF HardcastAction
  <2>2. CASE ~Due
    BY <1>0, <1>3, <2>2, SkipStep DEF HardcastAction
  <2> QED
    BY <2>1, <2>2
<1>4. CASE QueuedAction
  BY <1>4, CastStep DEF QueuedAction, Running
<1>5. CASE Boundary
  <2>1. CASE ruleset = "classic60" /\ Due
    BY <1>5, <2>1, TakeDueStep DEF Boundary
  <2>2. CASE ~(ruleset = "classic60" /\ Due)
    BY <1>0, <1>5, <2>2, SkipStep DEF Boundary
  <2> QED
    BY <2>1, <2>2
<1>6. CASE OnComplete
  BY <1>6, OnCompleteStep
<1>7. CASE Effects
  BY <1>0, <1>7, SkipStep DEF Effects
<1>8. CASE DoNextAction
  BY <1>0, <1>8, SkipStep DEF DoNextAction
<1>9. CASE StartChoosing
  <2>1. CASE wakeAt <= now
    BY <1>9, <2>1, SameStep DEF StartChoosing
  <2>2. CASE ~(wakeAt <= now)
    BY <1>0, <1>9, <2>2, SkipStep DEF StartChoosing
  <2> QED
    BY <2>1, <2>2
<1>10. CASE ChooseNothing
  <2>1. stack # <<>> /\ Return(<<>>) /\ UNCHANGED <<hard, readyAt>>
    BY <1>10 DEF ChooseNothing, Running
  <2> QED
    BY <1>0, <1>1, <2>1, QuietStep
<1>11. CASE ReactToEvent
  BY <1>0, <1>11, SkipStep DEF ReactToEvent
<1>12. CASE ReactLater
  <2>1. stack # <<>> /\ Return(<<>>) /\ UNCHANGED <<hard, readyAt>>
    BY <1>12 DEF ReactLater, Running
  <2> QED
    BY <1>0, <1>1, <2>1, QuietStep
<1>13. CASE Swing
  BY <1>0, <1>13, SkipStep DEF Swing
<1>14. ASSUME NEW s \in Spells, ChooseCast(s) PROVE IInv' /\ CooldownStep
  BY <1>14, CastStep DEF ChooseCast, Running
<1>15. ASSUME NEW s \in Spells, ChooseQueue(s) PROVE IInv' /\ CooldownStep
  BY <1>15, SameStep DEF ChooseQueue
<1> QED
  BY <1>2, <1>3, <1>4, <1>5, <1>6, <1>7, <1>8, <1>9, <1>10, <1>11, <1>12, <1>13, <1>14, <1>15
     DEF Call

\* What happens between calls begins with a stack of calls of its own, or none.
LEMMA ClockFacts ==
    ASSUME IInv, NEW t, ClockTo(t)
    PROVE  t \in Nat /\ now' = t /\ now' \in Nat /\ now' >= now
  BY DEF ClockTo, IInv, Types

LEMMA StepInv ==
    ASSUME IInv, Step
    PROVE  IInv' /\ CooldownStep
<1>1. Perform(agenda[1].what) \in {"rotationAction", "hardcastAction", "queuedAction"}
  BY DEF Perform
<1>2. Calm(<<Perform(agenda[1].what)>>)
  BY <1>1, CalmCalls DEF Calls
<1>3. stack' = <<Perform(agenda[1].what)>> /\ UNCHANGED <<hard, readyAt>>
  BY DEF Step
<1>4. now' \in Nat /\ now' >= now
  BY ClockFacts DEF Step
<1> QED
  BY <1>2, <1>3, <1>4, QuietStep

LEMMA EventInv ==
    ASSUME IInv, NEW call, Calm(call), Event(call)
    PROVE  IInv' /\ CooldownStep
<1>1. now' \in Nat /\ now' >= now
  BY ClockFacts DEF Event
<1>2. stack' = call /\ UNCHANGED <<hard, readyAt>>
  BY DEF Event
<1> QED
  BY <1>1, <1>2, QuietStep

\* A hit moves the end of a cast, whose check was passed before.
LEMMA HitInv ==
    ASSUME IInv, Hit
    PROVE  IInv' /\ CooldownStep
<1>1. PICK t : ClockTo(t) /\ hard.expires > t
  BY DEF Hit
<1>2. t \in Nat /\ now' \in Nat /\ now' >= now
  BY <1>1, ClockFacts
<1>3. hard.expires # Idle
  BY <1>1, <1>2 DEF Idle
<1>4. hard' = [spell |-> hard.spell, expires |-> hard.expires + Pushback]
  BY DEF Hit, IInv, Types
<1>5. /\ hard'.spell = hard.spell
      /\ hard' = [spell |-> hard'.spell, expires |-> hard'.expires]
  BY <1>4
<1>6. stack' = <<>> /\ readyAt' = readyAt /\ readyAt \in [Spells -> Nat]
  BY DEF Hit, Quiet, IInv, Types
<1>7. HardInv'
  <2> SUFFICES ASSUME hard.spell \in Spells
               PROVE  CastTime[hard.spell] > 0 /\ readyAt[hard.spell] <= now'
    BY <1>5, <1>6 DEF HardInv
  <2>1. CastTime[hard.spell] > 0 /\ readyAt[hard.spell] <= now /\ readyAt[hard.spell] \in Nat
    BY <1>3, <1>6 DEF IInv, HardInv
  <2> QED
    BY <1>2, <2>1 DEF IInv, Types
<1>8. IInv'
  BY <1>2, <1>5, <1>6, <1>7, CalmCalls, CalmStep
<1> QED
  BY <1>6, <1>8 DEF CooldownStep

LEMMA InterruptInv ==
    ASSUME IInv, Interrupt
    PROVE  IInv' /\ CooldownStep
<1>1. PICK t : /\ ClockTo(t)
               /\ \/ hard' = [hard EXCEPT !.expires = Idle]
                  \/ hard' = hard
  BY DEF Interrupt
<1>2. now' \in Nat /\ now' >= now
  BY <1>1, ClockFacts
<1>3. stack' = <<>> /\ readyAt' = readyAt
  BY DEF Interrupt, Quiet
<1>4. CASE hard' = hard
  BY <1>2, <1>3, <1>4, CalmCalls, QuietStep
<1>5. CASE hard' = [hard EXCEPT !.expires = Idle]
  <2>1. hard' = [spell |-> hard.spell, expires |-> Idle]
    BY <1>5 DEF IInv, Types
  <2>2. /\ hard'.expires = Idle
        /\ hard' = [spell |-> hard'.spell, expires |-> hard'.expires]
    BY <2>1
  <2>3. HardInv' /\ readyAt' \in [Spells -> Nat]
    BY <1>3, <2>2 DEF HardInv, Idle, IInv, Types
  <2>4. IInv'
    BY <1>2, <1>3, <2>2, <2>3, CalmCalls, CalmStep
  <2> QED
    BY <1>3, <2>4 DEF CooldownStep
<1> QED
  BY <1>1, <1>4, <1>5

LEMMA Inductive == IInv /\ [Next]_vars => IInv' /\ CooldownStep
<1> SUFFICES ASSUME IInv, [Next]_vars PROVE IInv' /\ CooldownStep
  OBVIOUS
<1>1. CASE Call /\ UNCHANGED <<now, hits>>
  BY <1>1, CallInv
<1>2. CASE Step
  BY <1>2, StepInv
<1>3. CASE Event(<<"reactToEvent">>) \/ Event(<<"boundary", "swing">>)
  <2>1. Calm(<<"reactToEvent">>) /\ Calm(<<"boundary", "swing">>)
    BY CalmCalls DEF Calls
  <2> QED
    BY <1>3, <2>1, EventInv
<1>4. CASE Hit
  BY <1>4, HitInv
<1>5. CASE Interrupt
  BY <1>5, InterruptInv
<1>6. CASE UNCHANGED vars
  BY <1>6, SameStep DEF vars
<1> QED
  BY <1>1, <1>2, <1>3, <1>4, <1>5, <1>6 DEF Next

\* A spell takes effect again only when its cooldown is over, whether it was cast by
\* the rotation or from the queue, at once or at the end of a cast (cast.go).
THEOREM CooldownsAreKept == Spec => CooldownsHold
<1>1. IInv /\ [Next]_vars => [\A s \in Spells : readyAt'[s] # readyAt[s] => readyAt[s] <= now']_vars
  BY Inductive DEF CooldownStep
<1>2. IInv /\ [Next]_vars => IInv'
  BY Inductive
<1> QED
  BY InitInv, <1>1, <1>2, PTL DEF Spec, CooldownsHold

-----------------------------------------------------------------------------
(* The agenda.                                                               *)

Items == [what : Actions, at : Nat]

\* An entry of a queue.
Entry(q, what, t) == \E i \in 1..Len(q) : q[i].what = what /\ q[i].at = t

\* A queue in which every action is once, in the order of the times, and none is
\* before t.
Tidy(q, t) ==
    /\ q \in Seq(Items)
    /\ \A i, j \in 1..Len(q) : i < j => q[i].at <= q[j].at
    /\ \A i, j \in 1..Len(q) : q[i].what = q[j].what => i = j
    /\ \A i \in 1..Len(q) : q[i].at >= t

\* What InsertAt returns.
LEMMA InsertAtProperties ==
    ASSUME NEW S, NEW s \in Seq(S), NEW e \in S, NEW i \in 1..Len(s) + 1
    PROVE  /\ InsertAt(s, i, e) \in Seq(S)
           /\ Len(InsertAt(s, i, e)) = Len(s) + 1
           /\ \A j \in 1..Len(s) + 1 :
                InsertAt(s, i, e)[j] = IF j < i THEN s[j]
                                       ELSE IF j = i THEN e ELSE s[j - 1]
<1> DEFINE a == SubSeq(s, 1, i - 1)
           b == SubSeq(s, i, Len(s))
           c == a \o <<e>>
<1>1. /\ a \in Seq(S) /\ Len(a) = i - 1
      /\ \A j \in 1..i - 1 : a[j] = s[j]
  BY SubSeqProperties
<1>2. /\ b \in Seq(S) /\ Len(b) = Len(s) - i + 1
      /\ \A j \in 1..Len(s) - i + 1 : b[j] = s[i + j - 1]
  BY SubSeqProperties
<1>3. InsertAt(s, i, e) = c \o b
  BY DEF InsertAt
<1> HIDE DEF a, b
<1>4. <<e>> \in Seq(S) /\ Len(<<e>>) = 1 /\ <<e>>[1] = e
  OBVIOUS
<1>5. /\ c \in Seq(S) /\ Len(c) = i
      /\ \A j \in 1..i : c[j] = IF j < i THEN s[j] ELSE e
  BY <1>1, <1>4, ConcatProperties
<1> HIDE DEF c
<1>6. /\ c \o b \in Seq(S) /\ Len(c \o b) = Len(s) + 1
      /\ \A j \in 1..Len(s) + 1 : (c \o b)[j] = IF j <= i THEN c[j] ELSE b[j - i]
  <2>1. Len(c) + Len(b) = Len(s) + 1
    BY <1>2, <1>5
  <2>2. /\ c \o b \in Seq(S) /\ Len(c \o b) = Len(c) + Len(b)
        /\ \A j \in 1..Len(c) + Len(b) :
             (c \o b)[j] = IF j <= Len(c) THEN c[j] ELSE b[j - Len(c)]
    BY <1>2, <1>5, ConcatProperties
  <2> QED
    BY <1>5, <2>1, <2>2
<1>7. ASSUME NEW j \in 1..Len(s) + 1
      PROVE  (c \o b)[j] = IF j < i THEN s[j] ELSE IF j = i THEN e ELSE s[j - 1]
  <2>1. CASE j <= i
    BY <1>5, <1>6, <2>1
  <2>2. CASE j > i
    <3>1. j - i \in 1..Len(s) - i + 1 /\ i + (j - i) - 1 = j - 1
      BY <2>2
    <3>2. (c \o b)[j] = b[j - i]
      BY <1>6, <2>2
    <3>3. b[j - i] = s[j - 1]
      BY <1>2, <3>1
    <3> QED
      BY <2>2, <3>2, <3>3
  <2>3. j <= i \/ j > i
    OBVIOUS
  <2> QED
    BY <2>1, <2>2, <2>3
<1> QED
  BY <1>3, <1>6, <1>7

\* What RemoveAt returns.
LEMMA RemoveAtProperties ==
    ASSUME NEW S, NEW s \in Seq(S), NEW i \in 1..Len(s)
    PROVE  /\ RemoveAt(s, i) \in Seq(S)
           /\ Len(RemoveAt(s, i)) = Len(s) - 1
           /\ \A j \in 1..Len(s) - 1 : RemoveAt(s, i)[j] = IF j < i THEN s[j] ELSE s[j + 1]
<1> DEFINE a == SubSeq(s, 1, i - 1)
           b == SubSeq(s, i + 1, Len(s))
<1>1. /\ a \in Seq(S) /\ Len(a) = i - 1
      /\ \A j \in 1..i - 1 : a[j] = s[j]
  BY SubSeqProperties
<1>2. /\ b \in Seq(S) /\ Len(b) = Len(s) - i
      /\ \A j \in 1..Len(s) - i : b[j] = s[i + j]
  BY SubSeqProperties
<1>3. RemoveAt(s, i) = a \o b
  BY DEF RemoveAt
<1> HIDE DEF a, b
<1>4. /\ a \o b \in Seq(S) /\ Len(a \o b) = Len(s) - 1
      /\ \A j \in 1..Len(s) - 1 : (a \o b)[j] = IF j <= i - 1 THEN a[j] ELSE b[j - (i - 1)]
  <2>1. Len(a) + Len(b) = Len(s) - 1
    BY <1>1, <1>2
  <2>2. /\ a \o b \in Seq(S) /\ Len(a \o b) = Len(a) + Len(b)
        /\ \A j \in 1..Len(a) + Len(b) :
             (a \o b)[j] = IF j <= Len(a) THEN a[j] ELSE b[j - Len(a)]
    BY <1>1, <1>2, ConcatProperties
  <2> QED
    BY <1>1, <2>1, <2>2
<1>5. ASSUME NEW j \in 1..Len(s) - 1
      PROVE  (a \o b)[j] = IF j < i THEN s[j] ELSE s[j + 1]
  <2>1. CASE j < i
    BY <1>1, <1>4, <2>1
  <2>2. CASE j >= i
    <3>1. j - (i - 1) \in 1..Len(s) - i /\ i + (j - (i - 1)) = j + 1
      BY <2>2
    <3> QED
      BY <1>2, <1>4, <2>2, <3>1
  <2>3. j < i \/ j >= i
    OBVIOUS
  <2> QED
    BY <2>1, <2>2, <2>3
<1> QED
  BY <1>3, <1>4, <1>5

\* A non-empty set of positions has a least one.
LEMMA MinProperties ==
    ASSUME NEW I \in SUBSET Nat, I # {}
    PROVE  Min(I) \in I /\ \A i \in I : Min(I) <= i
<1>1. IsWellFoundedOn(OpToRel(<, Nat), Nat)
  BY NatLessThanWellFounded
<1>2. PICK m \in I : \A k \in I : ~ (<<k, m>> \in OpToRel(<, Nat))
  BY <1>1, WFMin
<1>3. \A k \in I : m <= k
  <2> SUFFICES ASSUME NEW k \in I PROVE ~ (k < m)
    OBVIOUS
  <2>1. <<k, m>> \in Nat \X Nat /\ ~ (<<k, m>> \in OpToRel(<, Nat))
    BY <1>2
  <2> QED
    BY <2>1 DEF OpToRel
<1> QED
  BY <1>3 DEF Min

LEMMA TidyTypes ==
    ASSUME NEW q, NEW t, Tidy(q, t)
    PROVE  /\ q \in Seq(Items) /\ Len(q) \in Nat
           /\ \A i \in 1..Len(q) : q[i] \in Items /\ q[i].at \in Nat /\ q[i].what \in Actions
<1>1. q \in Seq(Items)
  BY DEF Tidy
<1>2. Len(q) \in Nat /\ \A i \in 1..Len(q) : q[i] \in Items
  BY <1>1, LenProperties, ElementOfSeq
<1>3. \A e \in Items : e.at \in Nat /\ e.what \in Actions
  BY DEF Items
<1> QED
  BY <1>1, <1>2, <1>3

\* Taking an action out of a tidy queue takes out that action only.
LEMMA UnscheduledFacts ==
    ASSUME NEW t \in Nat, NEW q, Tidy(q, t), NEW what
    PROVE  LET r == Unscheduled(q, what)
           IN /\ Tidy(r, t)
              /\ \A v, x : Entry(r, v, x) <=> v # what /\ Entry(q, v, x)
<1> DEFINE here == {i \in 1..Len(q) : q[i].what = what}
           r == Unscheduled(q, what)
<1>1. q \in Seq(Items) /\ Len(q) \in Nat /\ \A i \in 1..Len(q) : q[i].at \in Nat
  BY TidyTypes
<1>2. CASE here = {}
  <2>1. r = q
    BY <1>2 DEF Unscheduled
  <2>2. \A v, x : Entry(q, v, x) => v # what
    BY <1>2 DEF Entry
  <2> QED
    BY <2>1, <2>2
<1>3. CASE here # {}
  <2>1. here \in SUBSET Nat
    OBVIOUS
  <2>2. r = RemoveAt(q, Min(here))
    BY <1>3 DEF Unscheduled
  <2>3. Min(here) \in here
    <3> HIDE DEF here
    <3> QED
      BY <1>3, <2>1, MinProperties
  <2>4. PICK n \in 1..Len(q) : q[n].what = what /\ r = RemoveAt(q, n)
    BY <2>2, <2>3
  <2> HIDE DEF here, r
  <2>5. /\ r \in Seq(Items) /\ Len(r) = Len(q) - 1
        /\ \A j \in 1..Len(q) - 1 : r[j] = IF j < n THEN q[j] ELSE q[j + 1]
    BY <1>1, <2>4, RemoveAtProperties
  <2>6. \A j \in 1..Len(r) :
           /\ (IF j < n THEN j ELSE j + 1) \in 1..Len(q)
           /\ (IF j < n THEN j ELSE j + 1) # n
           /\ r[j] = q[IF j < n THEN j ELSE j + 1]
    BY <1>1, <2>5
  <2>7. \A i, j \in 1..Len(r) : /\ i < j => r[i].at <= r[j].at
                                /\ r[i].what = r[j].what => i = j
    <3> SUFFICES ASSUME NEW i \in 1..Len(r), NEW j \in 1..Len(r)
                 PROVE  /\ i < j => r[i].at <= r[j].at
                        /\ r[i].what = r[j].what => i = j
      OBVIOUS
    <3> DEFINE k == IF i < n THEN i ELSE i + 1
               l == IF j < n THEN j ELSE j + 1
    <3>1. k \in 1..Len(q) /\ l \in 1..Len(q) /\ r[i] = q[k] /\ r[j] = q[l]
      BY <2>6
    <3>2. (i < j => k < l) /\ (k = l => i = j)
      BY <1>1, <2>5
    <3> HIDE DEF k, l
    <3> QED
      BY <3>1, <3>2 DEF Tidy
  <2>9. \A i \in 1..Len(r) : r[i].at >= t /\ r[i].what # what
    <3> SUFFICES ASSUME NEW i \in 1..Len(r) PROVE r[i].at >= t /\ r[i].what # what
      OBVIOUS
    <3> DEFINE k == IF i < n THEN i ELSE i + 1
    <3>1. k \in 1..Len(q) /\ k # n /\ r[i] = q[k]
      BY <2>6
    <3> QED
      BY <2>4, <3>1 DEF Tidy
  <2>10. Tidy(r, t)
    BY <2>5, <2>7, <2>9 DEF Tidy
  <2>11. ASSUME NEW v, NEW x, Entry(r, v, x) PROVE v # what /\ Entry(q, v, x)
    <3>1. PICK i \in 1..Len(r) : r[i].what = v /\ r[i].at = x
      BY <2>11 DEF Entry
    <3> QED
      BY <2>6, <2>9, <3>1 DEF Entry
  <2>12. ASSUME NEW v, NEW x, v # what, Entry(q, v, x) PROVE Entry(r, v, x)
    <3>1. PICK i \in 1..Len(q) : q[i].what = v /\ q[i].at = x
      BY <2>12 DEF Entry
    <3> DEFINE k == IF i < n THEN i ELSE i - 1
    <3>2. i # n
      BY <2>4, <2>12, <3>1
    <3>3. k \in 1..Len(r) /\ r[k] = q[i]
      BY <1>1, <2>5, <3>2
    <3> QED
      BY <3>1, <3>3 DEF Entry
  <2> QED
    BY <2>10, <2>11, <2>12 DEF r
<1> QED
  BY <1>2, <1>3

\* Scheduling an action leaves the queue tidy, with the action in it for t only.
LEMMA ScheduledFacts ==
    ASSUME NEW t \in Nat, NEW q, Tidy(q, t), NEW what \in Actions, NEW u \in Nat, u >= t
    PROVE  LET r == Scheduled(q, what, u)
           IN /\ Tidy(r, t)
              /\ \A v, x : Entry(r, v, x) <=> \/ v = what /\ x = u
                                              \/ v # what /\ Entry(q, v, x)
<1> DEFINE rest == Unscheduled(q, what)
           later == {i \in 1..Len(rest) : rest[i].at > u}
           n == IF later = {} THEN Len(rest) + 1 ELSE Min(later)
           new == [what |-> what, at |-> u]
           r == Scheduled(q, what, u)
<1>1. /\ Tidy(rest, t)
      /\ \A v, x : Entry(rest, v, x) <=> v # what /\ Entry(q, v, x)
  BY UnscheduledFacts
<1>2. r = InsertAt(rest, n, new)
  BY DEF Scheduled
<1>3. new \in Items /\ new.what = what /\ new.at = u
  BY DEF Items
<1> HIDE DEF rest, r, new
<1>4. /\ rest \in Seq(Items) /\ Len(rest) \in Nat
      /\ \A i \in 1..Len(rest) : rest[i].at \in Nat
  BY <1>1, TidyTypes
<1>5. /\ n \in 1..Len(rest) + 1
      /\ \A i \in 1..Len(rest) : i < n => rest[i].at <= u
      /\ n <= Len(rest) => rest[n].at > u
  <2>1. CASE later = {}
    BY <1>4, <2>1
  <2>2. CASE later # {}
    <3>1. later \in SUBSET Nat
      OBVIOUS
    <3>2. n = Min(later)
      BY <2>2
    <3>3. Min(later) \in later /\ \A i \in later : Min(later) <= i
      <4> HIDE DEF later
      <4> QED
        BY <2>2, <3>1, MinProperties
    <3>4. n \in later /\ \A i \in later : n <= i
      BY <3>2, <3>3
    <3> HIDE DEF n
    <3> QED
      BY <1>4, <3>4
  <2> QED
    BY <2>1, <2>2
<1> HIDE DEF later, n
<1>6. /\ r \in Seq(Items) /\ Len(r) = Len(rest) + 1
      /\ \A j \in 1..Len(rest) + 1 :
            r[j] = IF j < n THEN rest[j] ELSE IF j = n THEN new ELSE rest[j - 1]
  <2>1. n \in 1..Len(rest) + 1
    BY <1>5
  <2>2. /\ InsertAt(rest, n, new) \in Seq(Items)
        /\ Len(InsertAt(rest, n, new)) = Len(rest) + 1
        /\ \A j \in 1..Len(rest) + 1 :
              InsertAt(rest, n, new)[j] = IF j < n THEN rest[j]
                                          ELSE IF j = n THEN new ELSE rest[j - 1]
    BY <1>3, <1>4, <2>1, InsertAtProperties
  <2> QED
    BY <1>2, <2>2
<1>7. \A i \in 1..Len(rest) : rest[i].what # what
  BY <1>1 DEF Entry
<1>8. \A i \in 1..Len(rest) : i >= n => rest[i].at > u
  <2> SUFFICES ASSUME NEW i \in 1..Len(rest), i >= n PROVE rest[i].at > u
    OBVIOUS
  <2>1. n \in 1..Len(rest) /\ rest[n].at > u /\ (i = n \/ n < i)
    BY <1>4, <1>5
  <2>2. n < i => rest[n].at <= rest[i].at
    BY <1>1, <2>1 DEF Tidy
  <2> QED
    BY <1>4, <2>1, <2>2
<1>9. \A i, j \in 1..Len(r) : i < j => r[i].at <= r[j].at
  <2> SUFFICES ASSUME NEW i \in 1..Len(r), NEW j \in 1..Len(r), i < j
               PROVE  r[i].at <= r[j].at
    OBVIOUS
  <2>0. \A k, l \in 1..Len(rest) : k < l => rest[k].at <= rest[l].at
    BY <1>1 DEF Tidy
  <2>1. CASE j < n
    <3>1. i \in 1..Len(rest) /\ j \in 1..Len(rest) /\ r[i] = rest[i] /\ r[j] = rest[j]
      BY <1>4, <1>5, <1>6, <2>1
    <3> QED
      BY <2>0, <3>1
  <2>2. CASE j = n
    <3>1. i \in 1..Len(rest) /\ i < n /\ r[i] = rest[i] /\ r[j] = new
      BY <1>4, <1>5, <1>6, <2>2
    <3> QED
      BY <1>3, <1>5, <3>1
  <2>3. CASE j > n /\ i < n
    <3>1. /\ i \in 1..Len(rest) /\ j - 1 \in 1..Len(rest) /\ i < j - 1
          /\ r[i] = rest[i] /\ r[j] = rest[j - 1]
      BY <1>4, <1>5, <1>6, <2>3
    <3> QED
      BY <2>0, <3>1
  <2>4. CASE j > n /\ i = n
    <3>1. j - 1 \in 1..Len(rest) /\ j - 1 >= n /\ r[i] = new /\ r[j] = rest[j - 1]
      BY <1>4, <1>5, <1>6, <2>4
    <3>2. rest[j - 1].at > u /\ rest[j - 1].at \in Nat
      BY <1>4, <1>8, <3>1
    <3> QED
      BY <1>3, <3>1, <3>2
  <2>5. CASE j > n /\ i > n
    <3>1. /\ i - 1 \in 1..Len(rest) /\ j - 1 \in 1..Len(rest) /\ i - 1 < j - 1
          /\ r[i] = rest[i - 1] /\ r[j] = rest[j - 1]
      BY <1>4, <1>5, <1>6, <2>5
    <3> QED
      BY <2>0, <3>1
  <2> QED
    BY <1>4, <1>5, <1>6, <2>1, <2>2, <2>3, <2>4, <2>5
<1>10. \A j \in 1..Len(r) : \/ r[j] = new /\ j = n
                            \/ \E k \in 1..Len(rest) : /\ r[j] = rest[k]
                                                       /\ j = IF k < n THEN k ELSE k + 1
  <2> SUFFICES ASSUME NEW j \in 1..Len(r), j # n
               PROVE  \E k \in 1..Len(rest) : r[j] = rest[k] /\ j = IF k < n THEN k ELSE k + 1
    BY <1>5, <1>6
  <2> DEFINE k == IF j < n THEN j ELSE j - 1
  <2>1. k \in 1..Len(rest) /\ r[j] = rest[k] /\ j = IF k < n THEN k ELSE k + 1
    BY <1>4, <1>5, <1>6
  <2> QED
    BY <2>1
<1>11. \A i, j \in 1..Len(r) : r[i].what = r[j].what => i = j
  <2> SUFFICES ASSUME NEW i \in 1..Len(r), NEW j \in 1..Len(r), r[i].what = r[j].what
               PROVE  i = j
    OBVIOUS
  <2>1. \A k, l \in 1..Len(rest) : rest[k].what = rest[l].what => k = l
    BY <1>1 DEF Tidy
  <2> QED
    BY <1>3, <1>7, <1>10, <2>1
<1>12. \A i \in 1..Len(r) : r[i].at >= t
  <2>1. \A k \in 1..Len(rest) : rest[k].at >= t
    BY <1>1 DEF Tidy
  <2> QED
    BY <1>3, <1>10, <2>1
<1>13. Tidy(r, t)
  BY <1>6, <1>9, <1>11, <1>12 DEF Tidy
<1>14. ASSUME NEW v, NEW x, Entry(r, v, x)
       PROVE  (v = what /\ x = u) \/ Entry(rest, v, x)
  BY <1>3, <1>10, <1>14 DEF Entry
<1>15. Entry(r, what, u)
  <2>1. n \in 1..Len(r) /\ r[n] = new
    BY <1>4, <1>5, <1>6
  <2> QED
    BY <1>3, <2>1 DEF Entry
<1>16. ASSUME NEW v, NEW x, Entry(rest, v, x) PROVE Entry(r, v, x)
  <2>1. PICK k \in 1..Len(rest) : rest[k].what = v /\ rest[k].at = x
    BY <1>16 DEF Entry
  <2> DEFINE j == IF k < n THEN k ELSE k + 1
  <2>2. j \in 1..Len(r) /\ r[j] = rest[k]
    BY <1>4, <1>5, <1>6
  <2> QED
    BY <2>1, <2>2 DEF Entry
<1> QED
  BY <1>1, <1>13, <1>14, <1>15, <1>16 DEF r

\* The next action of a tidy queue, and the queue without it.
LEMMA NextFacts ==
    ASSUME NEW t \in Nat, NEW q, Tidy(q, t), q # <<>>
    PROVE  /\ q[1].what \in Actions /\ q[1].at \in Nat /\ q[1].at >= t
           /\ Entry(q, q[1].what, q[1].at)
           /\ Tidy(Tail(q), q[1].at)
           /\ \A v, x : Entry(q, v, x) => x \in Nat /\ x >= q[1].at
           /\ \A v, x : Entry(Tail(q), v, x) <=> v # q[1].what /\ Entry(q, v, x)
           /\ \A u \in Nat : u <= q[1].at => Tidy(q, u)
<1> DEFINE r == Tail(q)
<1>1. /\ q \in Seq(Items) /\ Len(q) \in Nat /\ 1 \in 1..Len(q)
      /\ \A i \in 1..Len(q) : q[i] \in Items /\ q[i].at \in Nat /\ q[i].what \in Actions
  <2>1. /\ q \in Seq(Items) /\ Len(q) \in Nat
        /\ \A i \in 1..Len(q) : q[i] \in Items /\ q[i].at \in Nat /\ q[i].what \in Actions
    BY TidyTypes
  <2> QED
    BY <2>1, EmptySeq
<1>2. /\ r \in Seq(Items) /\ Len(r) = Len(q) - 1
      /\ \A i \in 1..Len(r) : r[i] = q[i + 1]
  BY <1>1, HeadTailProperties
<1> HIDE DEF r
<1>3. \A i \in 1..Len(q) : q[i].at >= q[1].at
  <2> SUFFICES ASSUME NEW i \in 1..Len(q) PROVE q[i].at >= q[1].at
    OBVIOUS
  <2>1. i = 1 \/ 1 < i
    BY <1>1
  <2> QED
    BY <1>1, <2>1 DEF Tidy
<1>4. q[1].at >= t /\ Entry(q, q[1].what, q[1].at)
  BY <1>1 DEF Tidy, Entry
<1>5. \A i \in 1..Len(r) : i + 1 \in 1..Len(q) /\ r[i] = q[i + 1] /\ r[i].what # q[1].what
  BY <1>1, <1>2 DEF Tidy
<1>6. Tidy(r, q[1].at)
  <2>1. \A i, j \in 1..Len(r) : /\ i < j => r[i].at <= r[j].at
                                /\ r[i].what = r[j].what => i = j
    <3> SUFFICES ASSUME NEW i \in 1..Len(r), NEW j \in 1..Len(r)
                 PROVE  /\ i < j => r[i].at <= r[j].at
                        /\ r[i].what = r[j].what => i = j
      OBVIOUS
    <3>1. PICK k \in 1..Len(q), l \in 1..Len(q) : k = i + 1 /\ l = j + 1
      BY <1>5
    <3>2. r[i] = q[k] /\ r[j] = q[l] /\ (i < j => k < l) /\ (k = l => i = j)
      BY <1>1, <1>2, <3>1
    <3> QED
      BY <3>1, <3>2 DEF Tidy
  <2>3. \A i \in 1..Len(r) : r[i].at >= q[1].at
    BY <1>3, <1>5
  <2> QED
    BY <1>2, <2>1, <2>3 DEF Tidy
<1>7. \A v, x : Entry(q, v, x) => x \in Nat /\ x >= q[1].at
  BY <1>1, <1>3 DEF Entry
<1>8. ASSUME NEW v, NEW x, Entry(r, v, x) PROVE v # q[1].what /\ Entry(q, v, x)
  BY <1>5, <1>8 DEF Entry
<1>9. ASSUME NEW v, NEW x, v # q[1].what, Entry(q, v, x) PROVE Entry(r, v, x)
  <2>1. PICK i \in 1..Len(q) : q[i].what = v /\ q[i].at = x
    BY <1>9 DEF Entry
  <2>2. i - 1 \in 1..Len(r) /\ r[i - 1] = q[i]
    <3>1. i # 1
      BY <1>9, <2>1
    <3>2. i - 1 \in 1..Len(r) /\ (i - 1) + 1 = i
      BY <1>1, <1>2, <3>1
    <3> QED
      BY <1>2, <3>2
  <2> QED
    BY <2>1, <2>2 DEF Entry
<1>10. ASSUME NEW u \in Nat, u <= q[1].at PROVE Tidy(q, u)
  <2>1. \A i \in 1..Len(q) : q[i].at >= u
    BY <1>1, <1>3, <1>10
  <2> QED
    BY <2>1 DEF Tidy
<1> QED
  BY <1>1, <1>4, <1>6, <1>7, <1>8, <1>9, <1>10 DEF r

-----------------------------------------------------------------------------
(* The invariant of the agenda.                                              *)

\* A call that is still to be made.
Makes(calls, c) == \E i \in 1..Len(calls) : calls[i] = c

\* One of the calls that lead to the rotation's choice.
Wakes(calls) ==
    Makes(calls, "rotationAction") \/ Makes(calls, "doNextAction") \/ Makes(calls, "choose")

Ranges ==
    /\ now \in 0..MaxTime
    /\ hard.spell \in Spells \cup {NoSpell} /\ hard.expires \in Nat \cup {Idle}
    /\ gcdAt \in Nat /\ wakeAt \in Nat
    /\ queued = [spell |-> queued.spell, since |-> queued.since, behind |-> queued.behind]
    /\ queued.spell \in Spells \cup {NoSpell} /\ queued.behind \in Nat \cup {Idle}
    /\ queued.since \in 0..MaxTime \cup {Idle} /\ queued.since <= now
    /\ lastCast \in 0..MaxTime \cup {Idle} /\ lastCast <= now

Flags == ruleset \in Rulesets /\ hits \in 0..MaxHits /\ inLoop \in BOOLEAN

\* The rotation is on the agenda at its time, or its choice is about to be made.
RotationInv ==
    /\ Tidy(agenda, now)
    /\ \A x : Entry(agenda, "rotation", x) => x = wakeAt
    /\ Entry(agenda, "rotation", wakeAt) \/ (wakeAt <= now /\ Wakes(stack))

\* Whoever is choosing has a choice to finish.
LoopInv == inLoop => Makes(stack, "choose")

\* The end of a cast is on the agenda, or is being performed.
DueInv ==
    hard.expires # Idle =>
        \/ Entry(agenda, "hardcast", hard.expires)
        \/ hard.expires = now /\ Makes(stack, "hardcastAction")

\* A queued spell is one of the unit's, the last that it wanted, and waits for a time
\* after the end of the cast it was queued behind.
QueueInv ==
    /\ \A x : Entry(agenda, "queued", x) =>
          /\ queued.spell \in Spells /\ queued.since >= lastCast /\ queued.since >= 0
          /\ x > queued.behind
    /\ Makes(stack, "queuedAction") => queued.spell \in Spells

\* The casts begun and still to be completed.
Ongoing == (IF hard.expires # Idle THEN 1 ELSE 0) + (IF Completes(stack) THEN 1 ELSE 0)
OpenInv == open \in Nat /\ open >= Ongoing

AgendaInv ==
    Ranges /\ Flags /\ RotationInv /\ LoopInv /\ DueInv /\ QueueInv /\ OpenInv

\* What replacing the innermost call, what, by calls does to those still to be made.
Returned(what, calls) ==
    \A c : /\ Makes(calls, c) => Makes(stack', c)
           /\ Makes(stack, c) /\ c # what => Makes(stack', c)
           /\ Makes(stack', c) => Makes(calls, c) \/ Makes(stack, c)

LEMMA ReturnCalls ==
    ASSUME stack \in Seq(Calls), NEW what, Running(what), NEW calls \in Seq(Calls),
           Return(calls)
    PROVE  Returned(what, calls)
<1> DEFINE t == Tail(stack)
           r == stack'
<1>1. /\ stack # <<>> /\ stack[1] = what /\ r = calls \o t
  BY DEF Running, Return
<1>2. /\ t \in Seq(Calls) /\ Len(t) = Len(stack) - 1 /\ Len(stack) \in Nat \ {0}
      /\ Len(calls) \in Nat
      /\ \A i \in 1..Len(t) : t[i] = stack[i + 1]
  BY <1>1, HeadTailProperties, EmptySeq, LenProperties
<1> HIDE DEF t
<1>3. /\ Len(r) = Len(calls) + Len(t)
      /\ \A i \in 1..Len(calls) + Len(t) :
            r[i] = IF i <= Len(calls) THEN calls[i] ELSE t[i - Len(calls)]
  BY <1>1, <1>2, ConcatProperties
<1> HIDE DEF r
<1>4. ASSUME NEW c, Makes(calls, c) PROVE Makes(r, c)
  <2>1. PICK i \in 1..Len(calls) : calls[i] = c
    BY <1>4 DEF Makes
  <2>2. i \in 1..Len(r) /\ r[i] = c
    BY <1>2, <1>3, <2>1
  <2> QED
    BY <2>2 DEF Makes
<1>5. ASSUME NEW c, Makes(stack, c), c # what PROVE Makes(r, c)
  <2>1. PICK i \in 1..Len(stack) : stack[i] = c
    BY <1>5 DEF Makes
  <2>2. i # 1
    BY <1>1, <1>5, <2>1
  <2>3. i - 1 \in 1..Len(t) /\ t[i - 1] = c
    <3>1. i - 1 \in 1..Len(t) /\ (i - 1) + 1 = i
      BY <1>2, <2>2
    <3> QED
      BY <1>2, <2>1, <3>1
  <2>4. PICK k \in Int : k = Len(calls) + (i - 1)
    BY <1>2
  <2>5. k \in 1..Len(r) /\ k \in 1..Len(calls) + Len(t) /\ ~(k <= Len(calls))
        /\ k - Len(calls) = i - 1
    BY <1>2, <1>3, <2>3, <2>4
  <2>6. r[k] = c
    BY <1>3, <2>3, <2>5
  <2> QED
    BY <2>5, <2>6 DEF Makes
<1>6. ASSUME NEW c, Makes(r, c) PROVE Makes(calls, c) \/ Makes(stack, c)
  <2>1. PICK i \in 1..Len(r) : r[i] = c
    BY <1>6 DEF Makes
  <2>2. CASE i <= Len(calls)
    BY <1>2, <1>3, <2>1, <2>2 DEF Makes
  <2>3. CASE i > Len(calls)
    <3>0. i \in Int /\ Len(calls) \in Int
      BY <1>2, <1>3
    <3> DEFINE k == i - Len(calls)
    <3>1. k \in 1..Len(t) /\ k + 1 \in 1..Len(stack)
      BY <1>2, <1>3, <2>3, <3>0
    <3>2. k \in 1..Len(t) /\ k + 1 \in 1..Len(stack) /\ r[i] = t[k]
      BY <1>2, <1>3, <2>1, <2>3, <3>1
    <3> HIDE DEF k
    <3>3. stack[k + 1] = c
      BY <1>2, <2>1, <3>2
    <3> QED
      BY <3>2, <3>3 DEF Makes
  <2> QED
    BY <1>2, <2>2, <2>3
<1> QED
  BY <1>4, <1>5, <1>6 DEF r, Returned

\* The calls that calls with a name make.
LEMMA MadeCalls ==
    /\ \A c : ~Makes(<<>>, c)
    /\ \A c, d : Makes(<<d>>, c) <=> c = d
    /\ \A c, d, e : Makes(<<d, e>>, c) <=> c \in {d, e}
<1>1. \A c : ~Makes(<<>>, c)
  BY DEF Makes
<1>2. ASSUME NEW c, NEW d PROVE Makes(<<d>>, c) <=> c = d
  <2>1. Len(<<d>>) = 1 /\ <<d>>[1] = d
    OBVIOUS
  <2> QED
    BY <2>1 DEF Makes
<1>3. ASSUME NEW c, NEW d, NEW e PROVE Makes(<<d, e>>, c) <=> c \in {d, e}
  <2>1. Len(<<d, e>>) = 2 /\ <<d, e>>[1] = d /\ <<d, e>>[2] = e
    OBVIOUS
  <2>2. 1..2 = {1, 2}
    OBVIOUS
  <2> QED
    BY <2>1, <2>2 DEF Makes
<1> QED
  BY <1>1, <1>2, <1>3

\* Calls after a completion make what they make themselves, and the completion.
LEMMA MadeAfter ==
    ASSUME NEW d \in Calls, NEW more \in Seq(Calls)
    PROVE  \A c : Makes(<<d>> \o more, c) <=> c = d \/ Makes(more, c)
<1> DEFINE r == <<d>> \o more
<1>1. <<d>> \in Seq(Calls) /\ Len(<<d>>) = 1 /\ <<d>>[1] = d /\ Len(more) \in Nat
  BY LenProperties
<1>2. /\ Len(r) = 1 + Len(more)
      /\ \A i \in 1..1 + Len(more) : r[i] = IF i <= 1 THEN <<d>>[i] ELSE more[i - 1]
  BY <1>1, ConcatProperties
<1> HIDE DEF r
<1>3. 1 \in 1..Len(r) /\ r[1] = d
  BY <1>1, <1>2
<1>4. ASSUME NEW c, Makes(more, c) PROVE Makes(r, c)
  <2>1. PICK i \in 1..Len(more) : more[i] = c
    BY <1>4 DEF Makes
  <2>2. PICK k \in Int : k = i + 1
    OBVIOUS
  <2>3. k \in 1..Len(r) /\ k \in 1..1 + Len(more) /\ ~(k <= 1) /\ k - 1 = i
    BY <1>1, <1>2, <2>2
  <2>4. r[k] = c
    BY <1>2, <2>1, <2>3
  <2> QED
    BY <2>3, <2>4 DEF Makes
<1>5. ASSUME NEW c, Makes(r, c) PROVE c = d \/ Makes(more, c)
  <2>1. PICK i \in 1..Len(r) : r[i] = c
    BY <1>5 DEF Makes
  <2>2. CASE i = 1
    BY <1>3, <2>1, <2>2
  <2>3. CASE i # 1
    <3>1. PICK k \in Int : k = i - 1
      OBVIOUS
    <3>2. k \in 1..Len(more) /\ r[i] = more[k]
      BY <1>1, <1>2, <2>1, <2>3, <3>1
    <3> QED
      BY <2>1, <3>2 DEF Makes
  <2> QED
    BY <2>2, <2>3
<1> QED
  BY <1>3, <1>4, <1>5 DEF r, Makes

-----------------------------------------------------------------------------
(* The agenda in the calls.                                                  *)

\* Calls that leave the timers, the agenda and the queue alone.
LEMMA RotationFrame ==
    ASSUME RotationInv, UNCHANGED <<now, wakeAt, agenda>>,
           wakeAt <= now /\ Wakes(stack) => Wakes(stack')
    PROVE  RotationInv'
  BY DEF RotationInv

LEMMA LoopFrame ==
    ASSUME LoopInv, inLoop' = inLoop, Makes(stack, "choose") => Makes(stack', "choose")
    PROVE  LoopInv'
  BY Zenon DEF LoopInv

LEMMA DueFrame ==
    ASSUME DueInv, UNCHANGED <<now, hard>>,
           \A x : Entry(agenda, "hardcast", x) => Entry(agenda', "hardcast", x),
           Makes(stack, "hardcastAction") => \/ Makes(stack', "hardcastAction")
                                            \/ hard.expires = Idle
                                            \/ hard.expires # now
    PROVE  DueInv'
  BY DEF DueInv, Idle

LEMMA QueueFrame ==
    ASSUME QueueInv, UNCHANGED <<queued, lastCast>>,
           \A x : Entry(agenda', "queued", x) => Entry(agenda, "queued", x),
           Makes(stack', "queuedAction") => Makes(stack, "queuedAction")
    PROVE  QueueInv'
  BY DEF QueueInv

\* A step that leaves nearly all alone.
LEMMA RangesFrame ==
    ASSUME Ranges, UNCHANGED <<now, hard, gcdAt, wakeAt, queued, lastCast>>
    PROVE  Ranges'
  BY DEF Ranges, Idle

LEMMA FlagsFrame ==
    ASSUME Flags, ruleset' = ruleset, hits' = hits, inLoop' = inLoop
    PROVE  Flags'
  BY Zenon DEF Flags

\* A step that begins no cast and completes none.
LEMMA OpenFrame ==
    ASSUME Ranges, OpenInv, open' = open, ~Completes(stack'),
           hard'.expires # Idle => hard.expires # Idle
    PROVE  OpenInv'
  BY DEF OpenInv, Ongoing, Idle

\* The calls after a step that calls no completion.
LEMMA CalmReturn ==
    ASSUME IInv, NEW what, Running(what), NEW calls, Calm(calls), Return(calls)
    PROVE  ~Completes(stack') /\ Returned(what, calls)
<1>1. stack \in Seq(Calls) /\ OnTop(stack) /\ stack # <<>> /\ stack' = calls \o Tail(stack)
  BY DEF IInv, Types, TopInv, Running, Return
<1>2. calls \in Seq(Calls) /\ OnTop(calls) /\ ~Completes(calls)
  BY CalmTop
<1>3. ~Completes(stack')
  BY <1>1, <1>2, ReturnTop
<1> QED
  BY <1>1, <1>2, <1>3, ReturnCalls

LEMMA SkipAgenda ==
    ASSUME IInv, AgendaInv, UNCHANGED <<now, hits, ruleset>>,
           NEW what, Running(what), what \in Calls, NEW calls, Calm(calls), Skip(calls),
           ~Makes(calls, "queuedAction"),
           what \in {"rotationAction", "doNextAction", "choose"} =>
               \/ Wakes(calls)
               \/ wakeAt > now
               \/ Makes(stack, "choose") /\ what # "choose",
           what = "choose" => ~inLoop,
           what = "hardcastAction" => ~Due
    PROVE  AgendaInv'
<1>1. Return(calls) /\ UNCHANGED <<now, hard, gcdAt, wakeAt, queued, agenda, open, lastCast>>
  BY DEF Skip
<1>2. ~Completes(stack') /\ Returned(what, calls)
  BY <1>1, CalmReturn
<1>3. Ranges'
  BY <1>1, RangesFrame DEF AgendaInv
<1>4. Flags'
  <2>1. inLoop' = inLoop
    BY Zenon DEF Skip
  <2> QED
    BY <2>1, FlagsFrame DEF AgendaInv
<1>5. LoopInv'
  <2>1. CASE what = "choose"
    BY <2>1, Zenon DEF Skip, LoopInv
  <2>2. CASE what # "choose"
    <3>1. Makes(stack, "choose") => Makes(stack', "choose")
      BY <1>2, <2>2 DEF Returned
    <3>2. inLoop' = inLoop
      BY Zenon DEF Skip
    <3> QED
      BY <3>1, <3>2, LoopFrame DEF AgendaInv
  <2> QED
    BY <2>1, <2>2
<1>6. ASSUME wakeAt <= now, Wakes(stack) PROVE Wakes(stack')
  <2>1. ~(wakeAt > now)
    BY <1>6 DEF AgendaInv, Ranges
  <2>2. CASE what \in {"rotationAction", "doNextAction", "choose"}
    <3>1. Wakes(calls) \/ (Makes(stack, "choose") /\ what # "choose")
      BY <2>1, <2>2
    <3>2. CASE Wakes(calls)
      BY <1>2, <3>2 DEF Wakes, Returned
    <3>3. CASE Makes(stack, "choose") /\ what # "choose"
      BY <1>2, <3>3 DEF Wakes, Returned
    <3> QED
      BY <3>1, <3>2, <3>3
  <2>3. CASE what \notin {"rotationAction", "doNextAction", "choose"}
    BY <1>2, <1>6, <2>3 DEF Wakes, Returned
  <2> QED
    BY <2>2, <2>3
<1>7. RotationInv'
  BY <1>1, <1>6, RotationFrame DEF AgendaInv
<1>8. DueInv'
  <2>1. what = "hardcastAction" => hard.expires = Idle \/ hard.expires # now
    BY DEF Due, AgendaInv, Ranges
  <2> QED
    BY <1>1, <1>2, <2>1, DueFrame DEF AgendaInv, Returned
<1>9. QueueInv'
  BY <1>1, <1>2, QueueFrame DEF AgendaInv, Returned
<1>10. OpenInv'
  BY <1>1, <1>2, OpenFrame DEF AgendaInv
<1> QED
  BY <1>3, <1>4, <1>5, <1>7, <1>8, <1>9, <1>10 DEF AgendaInv

\* A due cast is taken off the unit, from the agenda too or not.
LEMMA TakeDueAgenda ==
    ASSUME IInv, AgendaInv, UNCHANGED <<now, hits, ruleset>>, Due,
           NEW what, Running(what), what \in {"rotationAction", "hardcastAction", "boundary"},
           NEW q, q \in {agenda, Unscheduled(agenda, "hardcast")},
           NEW more, more \in {<<>>, <<"doNextAction">>},
           what = "rotationAction" => more = <<"doNextAction">>,
           TakeDue(q, more)
    PROVE  AgendaInv'
<1> DEFINE calls == <<"onComplete">> \o more
<1>1. /\ hard' = [hard EXCEPT !.expires = Idle] /\ agenda' = q /\ Return(calls)
      /\ UNCHANGED <<now, gcdAt, wakeAt, queued, open, lastCast>>
  BY DEF TakeDue
<1>2. hard' = [spell |-> hard.spell, expires |-> Idle]
  BY <1>1 DEF IInv, Types
<1>3. hard'.spell = hard.spell /\ hard'.expires = Idle
  BY <1>2
<1>4. more \in Seq(Calls) /\ calls \in Seq(Calls) /\ "onComplete" \in Calls
  <2>1. Calm(more) /\ "onComplete" \in Calls
    BY CalmCalls DEF Calls
  <2> QED
    BY <2>1, CalmTop, CallBefore
<1>5. \A c : Makes(calls, c) <=> c = "onComplete" \/ Makes(more, c)
  BY <1>4, MadeAfter
<1> HIDE DEF calls
<1>6. Returned(what, calls)
  BY <1>1, <1>4, ReturnCalls DEF IInv, Types
<1>7. /\ \A c : Makes(more, c) => c = "doNextAction"
      /\ what = "rotationAction" => Makes(more, "doNextAction")
  BY MadeCalls
<1>8. /\ Tidy(q, now)
      /\ \A v, x : Entry(q, v, x) => Entry(agenda, v, x)
      /\ \A v, x : Entry(agenda, v, x) /\ v # "hardcast" => Entry(q, v, x)
  <2>1. Tidy(agenda, now) /\ now \in Nat
    BY DEF AgendaInv, RotationInv, IInv, Types
  <2> QED
    BY <2>1, UnscheduledFacts
<1>9. Ranges'
  BY <1>1, <1>3 DEF AgendaInv, Ranges, Idle
<1>10. Flags' /\ LoopInv'
  <2>1. inLoop' = inLoop
    BY Zenon DEF TakeDue
  <2>2. Makes(stack, "choose") => Makes(stack', "choose")
    BY <1>6 DEF Returned
  <2> QED
    BY <2>1, <2>2, FlagsFrame, LoopFrame DEF AgendaInv
<1>11. RotationInv'
  <2>2. Wakes(stack) => Wakes(stack')
    BY <1>5, <1>6, <1>7 DEF Wakes, Returned
  <2>3. \A x : Entry(q, "rotation", x) => x = wakeAt
    BY <1>8 DEF AgendaInv, RotationInv
  <2>4. Entry(q, "rotation", wakeAt) \/ (wakeAt <= now /\ Wakes(stack'))
    BY <1>8, <2>2 DEF AgendaInv, RotationInv
  <2> QED
    BY <1>1, <1>8, <2>3, <2>4 DEF RotationInv
<1>12. DueInv'
  BY <1>3 DEF DueInv, Idle
<1>13. QueueInv'
  BY <1>1, <1>5, <1>6, <1>7, <1>8, QueueFrame DEF AgendaInv, Returned
<1>14. OpenInv'
  BY <1>1, <1>3 DEF AgendaInv, OpenInv, Ongoing, Due, Idle
<1> QED
  BY <1>9, <1>10, <1>11, <1>12, <1>13, <1>14 DEF AgendaInv

LEMMA OnCompleteAgenda ==
    ASSUME IInv, AgendaInv, UNCHANGED <<now, hits, ruleset>>, OnComplete
    PROVE  AgendaInv'
<1>1. /\ Running("onComplete") /\ open' = open - 1
      /\ UNCHANGED <<now, hard, gcdAt, wakeAt, queued, agenda, lastCast>>
  BY DEF OnComplete
<1>2. PICK calls \in {<<>>, <<"effects">>} : Return(calls)
  BY DEF OnComplete
<1>3. Calm(calls) /\ \A c : Makes(calls, c) => c = "effects"
  <2>1. Calm(<<>>) /\ Calm(<<"effects">>)
    BY CalmCalls DEF Calls
  <2> QED
    BY <2>1, MadeCalls
<1>4. ~Completes(stack') /\ Returned("onComplete", calls)
  BY <1>1, <1>2, <1>3, CalmReturn
<1>5. Completes(stack) /\ hard.expires = Idle
  BY <1>1 DEF Running, Completes, IInv, TopInv
<1>6. Ranges'
  BY <1>1, RangesFrame DEF AgendaInv
<1>7. Flags' /\ LoopInv'
  <2>1. inLoop' = inLoop
    BY Zenon DEF OnComplete
  <2>2. Makes(stack, "choose") => Makes(stack', "choose")
    BY <1>4 DEF Returned
  <2> QED
    BY <2>1, <2>2, FlagsFrame, LoopFrame DEF AgendaInv
<1>8. RotationInv'
  <2>2. Wakes(stack) => Wakes(stack')
    BY <1>4 DEF Wakes, Returned
  <2> QED
    BY <1>1, <2>2, RotationFrame DEF AgendaInv
<1>9. DueInv'
  BY <1>1, <1>5, DueFrame DEF AgendaInv
<1>10. QueueInv'
  BY <1>1, <1>3, <1>4, QueueFrame DEF AgendaInv, Returned
<1>11. OpenInv'
  BY <1>1, <1>4, <1>5 DEF AgendaInv, OpenInv, Ongoing, Idle
<1> QED
  BY <1>6, <1>7, <1>8, <1>9, <1>10, <1>11 DEF AgendaInv

\* The arithmetic of the timers.
LEMMA BiggerFacts ==
    ASSUME NEW a \in Int, NEW b \in Int
    PROVE  Bigger(a, b) \in {a, b} /\ Bigger(a, b) >= a /\ Bigger(a, b) >= b
  BY DEF Bigger

LEMMA SpellTimes ==
    ASSUME NEW s \in Spells
    PROVE  /\ CastTime[s] \in Nat /\ Gcd[s] \in Nat /\ EffectiveTime(s) \in Nat
           /\ EffectiveTime(s) >= CastTime[s]
<1>1. CastTime[s] \in Nat /\ Gcd[s] \in Nat
  BY CastAssumption
<1> QED
  BY <1>1, BiggerFacts DEF EffectiveTime

\* A cast leaves the rotation on the agenda, brings its own end there, and takes a
\* queued spell off it.
LEMMA CastAgenda ==
    ASSUME IInv, AgendaInv, UNCHANGED <<now, hits, ruleset>>,
           NEW what \in {"queuedAction", "choose"}, Running(what), NEW s \in Spells,
           NEW more \in {<<>>, <<"choose">>}, what = "choose" => more = <<"choose">>,
           Cast(s, more), inLoop' = inLoop
    PROVE  AgendaInv'
<1> DEFINE replaces == EffectiveTime(s) > 0
           gcd == Bigger(now + EffectiveTime(s), gcdAt)
           due == now + CastTime[s]
           q == IF replaces THEN Unscheduled(agenda, "queued") ELSE agenda
           first == IF CastPasses(s) /\ replaces THEN Scheduled(q, "rotation", gcd) ELSE q
           begins == CastPasses(s) /\ CastTime[s] > 0
<1>1. /\ now \in Nat /\ gcdAt \in Nat /\ CastTime[s] \in Nat /\ EffectiveTime(s) \in Nat
      /\ EffectiveTime(s) >= CastTime[s] /\ (begins => replaces)
  <2>1. now \in Nat /\ gcdAt \in Nat
    BY DEF IInv, Types, AgendaInv, Ranges
  <2> QED
    BY <2>1, SpellTimes
<1>2. gcd \in Nat /\ gcd >= now /\ due \in Nat /\ due >= now
  BY <1>1, BiggerFacts
<1>3. PICK calls \in {more, <<"effects">> \o more} : Return(calls)
  BY DEF Cast, Start
<1>4. /\ Calm(calls) /\ ~Makes(calls, "queuedAction")
      /\ what = "choose" => Makes(calls, "choose")
  <2>1. "effects" \in Calls /\ Calm(more) /\ more \in Seq(Calls)
    BY CalmCalls, CalmTop DEF Calls
  <2>2. Calm(<<"effects">> \o more)
    BY <2>1, CallBefore
  <2>3. \A c : Makes(<<"effects">> \o more, c) <=> c = "effects" \/ Makes(more, c)
    BY <2>1, MadeAfter
  <2>4. ~Makes(more, "queuedAction") /\ (what = "choose" => Makes(more, "choose"))
    BY MadeCalls
  <2> QED
    BY <2>1, <2>2, <2>3, <2>4
<1>5. ~Completes(stack') /\ Returned(what, calls)
  BY <1>3, <1>4, CalmReturn
<1>6. /\ \A c \in {"choose", "rotationAction", "doNextAction", "hardcastAction"} :
            Makes(stack, c) => Makes(stack', c)
      /\ Makes(stack', "queuedAction") => Makes(stack, "queuedAction")
  BY <1>4, <1>5 DEF Returned
<1>7. /\ queued' = IF replaces THEN CancelledQueue ELSE queued
      /\ lastCast' = IF replaces THEN now ELSE lastCast
      /\ gcdAt' = IF CastPasses(s) /\ replaces THEN gcd ELSE gcdAt
      /\ wakeAt' = IF CastPasses(s) /\ replaces THEN gcd ELSE wakeAt
      /\ hard' = IF begins THEN [spell |-> s, expires |-> due] ELSE hard
      /\ open' = IF begins THEN open + 1 ELSE open
      /\ agenda' = IF begins THEN Scheduled(first, "hardcast", due) ELSE first
  <2>1. CASE ~CastPasses(s)
    BY <2>1 DEF Cast
  <2>2. CASE CastPasses(s) /\ ~replaces
    BY <1>1, <2>2 DEF Cast, Start
  <2>3. CASE CastPasses(s) /\ replaces /\ CastTime[s] > 0
    BY <2>3 DEF Cast, Start
  <2>4. CASE CastPasses(s) /\ replaces /\ ~(CastTime[s] > 0)
    BY <2>4 DEF Cast, Start
  <2> QED
    BY <2>1, <2>2, <2>3, <2>4
<1>8. /\ Tidy(agenda, now)
      /\ \A x : Entry(agenda, "rotation", x) => x = wakeAt
      /\ Entry(agenda, "rotation", wakeAt) \/ (wakeAt <= now /\ Wakes(stack))
  BY DEF AgendaInv, RotationInv
<1>9. /\ Tidy(q, now)
      /\ \A x : Entry(q, "queued", x) => ~replaces /\ Entry(agenda, "queued", x)
      /\ \A v, x : v # "queued" => (Entry(q, v, x) <=> Entry(agenda, v, x))
  <2>1. CASE replaces
    BY <1>1, <1>8, <2>1, UnscheduledFacts
  <2>2. CASE ~replaces
    BY <1>8, <2>2
  <2> QED
    BY <2>1, <2>2
<1> HIDE DEF q
<1>10. /\ Tidy(first, now)
       /\ \A x : Entry(first, "queued", x) => ~replaces /\ Entry(agenda, "queued", x)
       /\ \A x : Entry(first, "hardcast", x) <=> Entry(agenda, "hardcast", x)
       /\ \A x : Entry(first, "rotation", x) => x = wakeAt'
       /\ Entry(first, "rotation", wakeAt') \/ (wakeAt' <= now /\ Wakes(stack))
  <2>1. CASE CastPasses(s) /\ replaces
    <3>1. "rotation" \in Actions /\ first = Scheduled(q, "rotation", gcd) /\ wakeAt' = gcd
      BY <1>7, <2>1 DEF Actions
    <3>2. /\ Tidy(first, now)
          /\ \A v, x : Entry(first, v, x) <=> \/ v = "rotation" /\ x = gcd
                                              \/ v # "rotation" /\ Entry(q, v, x)
      BY <1>1, <1>2, <1>9, <3>1, ScheduledFacts
    <3> HIDE DEF first, gcd
    <3> QED
      BY <1>9, <3>1, <3>2
  <2>2. CASE ~(CastPasses(s) /\ replaces)
    <3>1. first = q /\ wakeAt' = wakeAt
      BY <1>7, <2>2
    <3> HIDE DEF first
    <3> QED
      BY <1>8, <1>9, <3>1
  <2> QED
    BY <2>1, <2>2
<1> HIDE DEF first
<1>11. /\ Tidy(agenda', now)
       /\ \A x : Entry(agenda', "queued", x) => ~replaces /\ Entry(agenda, "queued", x)
       /\ \A x : Entry(agenda', "rotation", x) <=> Entry(first, "rotation", x)
       /\ begins => Entry(agenda', "hardcast", due)
       /\ ~begins => \A x : Entry(agenda, "hardcast", x) => Entry(agenda', "hardcast", x)
  <2>1. CASE begins
    <3>1. "hardcast" \in Actions /\ agenda' = Scheduled(first, "hardcast", due)
      BY <1>7, <2>1 DEF Actions
    <3>2. /\ Tidy(agenda', now)
          /\ \A v, x : Entry(agenda', v, x) <=> \/ v = "hardcast" /\ x = due
                                                \/ v # "hardcast" /\ Entry(first, v, x)
      BY <1>1, <1>2, <1>10, <3>1, ScheduledFacts
    <3> HIDE DEF due, begins
    <3> QED
      BY <1>10, <2>1, <3>2
  <2>2. CASE ~begins
    <3>1. agenda' = first
      BY <1>7, <2>2
    <3> HIDE DEF begins
    <3> QED
      BY <1>10, <2>2, <3>1
  <2> QED
    BY <2>1, <2>2
<1>12. Flags' /\ LoopInv'
  BY <1>6, FlagsFrame, LoopFrame DEF AgendaInv
<1>13. Ranges'
  <2>1. Ranges
    BY DEF AgendaInv
  <2>2. /\ queued'.spell = queued.spell /\ queued'.behind = queued.behind
        /\ queued' = [spell |-> queued'.spell, since |-> queued'.since, behind |-> queued'.behind]
        /\ queued'.since \in {queued.since, Idle}
    <3>1. CASE replaces
      <4>1. queued' = [spell |-> queued.spell, since |-> Idle, behind |-> queued.behind]
        BY <1>7, <2>1, <3>1 DEF CancelledQueue, Ranges
      <4> QED
        BY <4>1
    <3>2. CASE ~replaces
      BY <1>7, <2>1, <3>2 DEF Ranges
    <3> QED
      BY <3>1, <3>2
  <2>3. hard'.spell \in Spells \cup {NoSpell} /\ hard'.expires \in Nat \cup {Idle}
    <3>1. CASE begins
      BY <1>2, <1>7, <3>1
    <3>2. CASE ~begins
      BY <1>7, <2>1, <3>2 DEF Ranges
    <3> QED
      BY <3>1, <3>2
  <2>4. gcdAt' \in Nat /\ wakeAt' \in Nat
    BY <1>2, <1>7, <2>1 DEF Ranges
  <2>5. lastCast' \in 0..MaxTime \cup {Idle} /\ lastCast' <= now
    BY <1>7, <2>1 DEF Ranges
  <2>6. queued'.since \in 0..MaxTime \cup {Idle} /\ queued'.since <= now
    BY <1>1, <2>1, <2>2 DEF Ranges, Idle
  <2>7. /\ now' = now /\ now \in 0..MaxTime /\ queued.spell \in Spells \cup {NoSpell}
        /\ queued.behind \in Nat \cup {Idle}
    BY <2>1 DEF Ranges
  <2> QED
    BY <2>2, <2>3, <2>4, <2>5, <2>6, <2>7 DEF Ranges, Idle
<1>14. RotationInv'
  <2>1. Wakes(stack) => Wakes(stack')
    BY <1>6 DEF Wakes
  <2> QED
    BY <1>10, <1>11, <2>1 DEF RotationInv
<1>15. DueInv'
  <2>1. CASE begins
    <3>1. hard'.expires = due
      BY <1>7, <2>1
    <3> QED
      BY <1>11, <2>1, <3>1 DEF DueInv
  <2>2. CASE ~begins
    <3>1. hard' = hard
      BY <1>7, <2>2
    <3> QED
      BY <1>6, <1>11, <2>2, <3>1, DueFrame DEF AgendaInv
  <2> QED
    BY <2>1, <2>2
<1>16. QueueInv'
  <2>1. CASE replaces
    <3>1. queued' = [spell |-> queued.spell, since |-> Idle, behind |-> queued.behind]
      BY <1>7, <2>1 DEF CancelledQueue, AgendaInv, Ranges
    <3>2. queued'.spell = queued.spell
      BY <3>1
    <3> QED
      BY <1>6, <1>11, <2>1, <3>2 DEF AgendaInv, QueueInv
  <2>2. CASE ~replaces
    <3>1. queued' = queued /\ lastCast' = lastCast
      BY <1>7, <2>2
    <3> QED
      BY <1>6, <1>11, <3>1, QueueFrame DEF AgendaInv
  <2> QED
    BY <2>1, <2>2
<1>17. OpenInv'
  <2>1. CASE begins
    <3>1. open' = open + 1
      BY <1>7, <2>1
    <3> QED
      BY <1>5, <3>1 DEF AgendaInv, OpenInv, Ongoing
  <2>2. CASE ~begins
    <3>1. open' = open /\ hard' = hard
      BY <1>7, <2>2
    <3> QED
      BY <1>5, <3>1, OpenFrame DEF AgendaInv
  <2> QED
    BY <2>1, <2>2
<1> QED
  BY <1>12, <1>13, <1>14, <1>15, <1>16, <1>17 DEF AgendaInv

\* Setting the rotation timer brings the rotation to its new time.
LEMMA TimerAgenda ==
    ASSUME NEW t \in Nat, NEW q, Tidy(q, t), NEW u \in Nat, u >= t,
           now' = t, SetRotationTimer(q, u)
    PROVE  /\ RotationInv'
           /\ \A v, x : v # "rotation" => (Entry(agenda', v, x) <=> Entry(q, v, x))
<1>1. wakeAt' = u /\ agenda' = Scheduled(q, "rotation", u) /\ "rotation" \in Actions
  BY DEF SetRotationTimer, Actions
<1>2. /\ Tidy(agenda', t)
      /\ \A v, x : Entry(agenda', v, x) <=> \/ v = "rotation" /\ x = u
                                            \/ v # "rotation" /\ Entry(q, v, x)
  BY <1>1, ScheduledFacts
<1> QED
  BY <1>1, <1>2 DEF RotationInv

LEMMA ChooseNothingAgenda ==
    ASSUME IInv, AgendaInv, UNCHANGED <<now, hits, ruleset>>, ChooseNothing
    PROVE  AgendaInv'
<1>1. /\ Running("choose") /\ Return(<<>>)
      /\ UNCHANGED <<now, hard, gcdAt, readyAt, queued, open, lastCast>>
  BY DEF ChooseNothing
<1>2. ~Completes(stack') /\ Returned("choose", <<>>)
  BY <1>1, CalmCalls, CalmReturn
<1>3. /\ Makes(stack, "hardcastAction") => Makes(stack', "hardcastAction")
      /\ Makes(stack', "queuedAction") => Makes(stack, "queuedAction")
  BY <1>2, MadeCalls DEF Returned
<1>4. Flags' /\ LoopInv'
  <2>1. inLoop' = FALSE
    BY Zenon DEF ChooseNothing
  <2>2. ruleset' = ruleset /\ hits' = hits
    OBVIOUS
  <2> QED
    BY <2>1, <2>2, Zenon DEF AgendaInv, Flags, LoopInv
<1>5. now \in Nat /\ gcdAt \in Nat /\ wakeAt \in Nat /\ Reaction \in Nat /\ Tidy(agenda, now)
  BY CastAssumption DEF IInv, Types, AgendaInv, Ranges, RotationInv
<1>6. /\ RotationInv' /\ wakeAt' \in Nat
      /\ \A v, x : v # "rotation" => (Entry(agenda', v, x) <=> Entry(agenda, v, x))
  <2>1. CASE wakeAt <= now
    <3> DEFINE u == Bigger(now + Reaction, gcdAt)
    <3>1. SetRotationTimer(agenda, u)
      BY <2>1 DEF ChooseNothing
    <3>2. u \in Nat /\ u >= now
      BY <1>5, BiggerFacts
    <3> HIDE DEF u
    <3>3. wakeAt' = u
      BY <3>1 DEF SetRotationTimer
    <3> QED
      BY <1>1, <1>5, <3>1, <3>2, <3>3, TimerAgenda
  <2>2. CASE ~(wakeAt <= now)
    <3>1. wakeAt' = wakeAt /\ agenda' = agenda
      BY <2>2 DEF ChooseNothing
    <3> QED
      BY <1>1, <1>5, <2>2, <3>1, RotationFrame DEF AgendaInv
  <2> QED
    BY <2>1, <2>2
<1>7. Ranges'
  BY <1>1, <1>6 DEF AgendaInv, Ranges, Idle
<1>8. DueInv'
  BY <1>1, <1>3, <1>6, DueFrame DEF AgendaInv
<1>9. QueueInv'
  BY <1>1, <1>3, <1>6, QueueFrame DEF AgendaInv
<1>10. OpenInv'
  BY <1>1, <1>2, OpenFrame DEF AgendaInv
<1> QED
  BY <1>4, <1>6, <1>7, <1>8, <1>9, <1>10 DEF AgendaInv

LEMMA ReactLaterAgenda ==
    ASSUME IInv, AgendaInv, UNCHANGED <<now, hits, ruleset>>, ReactLater
    PROVE  AgendaInv'
<1>1. /\ Running("reactLater") /\ Return(<<>>)
      /\ UNCHANGED <<now, hard, gcdAt, readyAt, queued, open, lastCast>>
  BY DEF ReactLater
<1>2. ~Completes(stack') /\ Returned("reactLater", <<>>)
  BY <1>1, CalmCalls, CalmReturn
<1>3. /\ Makes(stack, "hardcastAction") => Makes(stack', "hardcastAction")
      /\ Makes(stack', "queuedAction") => Makes(stack, "queuedAction")
      /\ Makes(stack, "choose") => Makes(stack', "choose")
      /\ Wakes(stack) => Wakes(stack')
  BY <1>2, MadeCalls DEF Returned, Wakes
<1>4. Flags' /\ LoopInv'
  <2>1. inLoop' = inLoop
    BY Zenon DEF ReactLater
  <2> QED
    BY <1>3, <2>1, FlagsFrame, LoopFrame DEF AgendaInv
<1>5. now \in Nat /\ gcdAt \in Nat /\ wakeAt \in Nat /\ Reaction \in Nat /\ Tidy(agenda, now)
  BY CastAssumption DEF IInv, Types, AgendaInv, Ranges, RotationInv
<1>6. /\ RotationInv' /\ wakeAt' \in Nat
      /\ \A v, x : v # "rotation" => (Entry(agenda', v, x) <=> Entry(agenda, v, x))
  <2>1. CASE wakeAt > now + Reaction
    <3>1. SetRotationTimer(agenda, now + Reaction)
      BY <2>1 DEF ReactLater
    <3>2. now + Reaction \in Nat /\ now + Reaction >= now
      BY <1>5
    <3>3. wakeAt' = now + Reaction
      BY <3>1 DEF SetRotationTimer
    <3> QED
      BY <1>1, <1>5, <3>1, <3>2, <3>3, TimerAgenda
  <2>2. CASE ~(wakeAt > now + Reaction)
    <3>1. wakeAt' = wakeAt /\ agenda' = agenda
      BY <2>2 DEF ReactLater
    <3> QED
      BY <1>1, <1>3, <1>5, <3>1, RotationFrame DEF AgendaInv
  <2> QED
    BY <2>1, <2>2
<1>7. Ranges'
  BY <1>1, <1>6 DEF AgendaInv, Ranges, Idle
<1>8. DueInv'
  BY <1>1, <1>3, <1>6, DueFrame DEF AgendaInv
<1>9. QueueInv'
  BY <1>1, <1>3, <1>6, QueueFrame DEF AgendaInv
<1>10. OpenInv'
  BY <1>1, <1>2, OpenFrame DEF AgendaInv
<1> QED
  BY <1>4, <1>6, <1>7, <1>8, <1>9, <1>10 DEF AgendaInv

\* A spell is queued for a moment to come.
LEMMA ChooseQueueAgenda ==
    ASSUME IInv, AgendaInv, UNCHANGED <<now, hits, ruleset>>,
           NEW s \in Spells, ChooseQueue(s)
    PROVE  AgendaInv'
<1> DEFINE ready == Bigger(hard.expires, readyAt[s])
           u == (IF Gcd[s] > 0 THEN Bigger(ready, gcdAt) ELSE ready) + QueueDelay
<1>1. /\ ~CanCast(s) /\ queued' = [spell |-> s, since |-> now, behind |-> hard.expires]
      /\ agenda' = Scheduled(agenda, "queued", u)
      /\ UNCHANGED <<now, hard, gcdAt, wakeAt, readyAt, stack, open, lastCast>>
  BY DEF ChooseQueue, QueueSpell
<1>2. /\ now \in Nat /\ gcdAt \in Nat /\ hard.expires \in Nat \cup {Idle} /\ readyAt[s] \in Nat
      /\ Gcd[s] \in Nat
  BY SpellTimes DEF IInv, Types, AgendaInv, Ranges
<1>3. ready \in Nat /\ ready >= hard.expires /\ ready >= readyAt[s]
  BY <1>2 DEF Bigger, Idle
<1>4. u \in Nat /\ u >= now
  <2>1. Casting \/ ~GcdReady(s) \/ ~(readyAt[s] <= now)
    BY <1>1 DEF CanCast
  <2>2. CASE Casting
    BY <1>2, <1>3, <2>2 DEF Casting, Bigger, QueueDelay, Idle
  <2>3. CASE ~GcdReady(s)
    BY <1>2, <1>3, <2>3 DEF GcdReady, Bigger, QueueDelay
  <2>4. CASE ~(readyAt[s] <= now)
    BY <1>2, <1>3, <2>4 DEF Bigger, QueueDelay
  <2> QED
    BY <2>1, <2>2, <2>3, <2>4
<1> HIDE DEF ready
<1>13. u > hard.expires
  <2>1. PICK at \in Nat : at >= ready /\ u = at + QueueDelay
    <3>1. Bigger(ready, gcdAt) \in Nat /\ Bigger(ready, gcdAt) >= ready
      BY <1>2, <1>3, BiggerFacts
    <3> QED
      BY <1>3, <3>1
  <2> QED
    BY <1>2, <1>3, <2>1 DEF QueueDelay, Idle
<1> HIDE DEF u
<1>5. /\ Tidy(agenda, now)
      /\ \A x : Entry(agenda, "rotation", x) => x = wakeAt
      /\ Entry(agenda, "rotation", wakeAt) \/ (wakeAt <= now /\ Wakes(stack))
  BY DEF AgendaInv, RotationInv
<1>6. /\ Tidy(agenda', now)
      /\ \A v, x : Entry(agenda', v, x) <=> \/ v = "queued" /\ x = u
                                            \/ v # "queued" /\ Entry(agenda, v, x)
  <2>1. "queued" \in Actions
    BY DEF Actions
  <2> QED
    BY <1>1, <1>2, <1>4, <1>5, <2>1, ScheduledFacts
<1>7. /\ queued'.spell = s /\ queued'.since = now /\ queued'.behind = hard.expires
      /\ queued' = [spell |-> queued'.spell, since |-> queued'.since, behind |-> queued'.behind]
  BY <1>1
<1>8. Flags' /\ LoopInv'
  <2>1. inLoop' = inLoop
    BY Zenon DEF ChooseQueue
  <2> QED
    BY <1>1, <2>1, FlagsFrame, LoopFrame DEF AgendaInv
<1>9. Ranges'
  BY <1>1, <1>7 DEF AgendaInv, Ranges, Idle
<1>10. RotationInv'
  BY <1>1, <1>5, <1>6 DEF RotationInv
<1>11. DueInv'
  BY <1>1, <1>6, DueFrame DEF AgendaInv
<1>12. QueueInv'
  <2>1. lastCast <= now
    BY DEF AgendaInv, Ranges
  <2> QED
    BY <1>1, <1>2, <1>6, <1>7, <1>13, <2>1 DEF QueueInv
<1>14. OpenInv'
  BY <1>1 DEF AgendaInv, OpenInv, Ongoing, Idle, Completes
<1> QED
  BY <1>8, <1>9, <1>10, <1>11, <1>12, <1>14 DEF AgendaInv

LEMMA StartChoosingAgenda ==
    ASSUME IInv, AgendaInv, UNCHANGED <<now, hits, ruleset>>, StartChoosing
    PROVE  AgendaInv'
<1>1. Running("choose") /\ ~inLoop /\ "choose" \in Calls
  BY Zenon DEF StartChoosing, Calls
<1>2. CASE wakeAt <= now
  <2>1. UNCHANGED <<now, hard, gcdAt, wakeAt, readyAt, queued, agenda, stack, open, lastCast>>
    BY <1>2 DEF StartChoosing
  <2>2. inLoop' = TRUE
    BY <1>2, Zenon DEF StartChoosing
  <2>3. Makes(stack', "choose")
    <3>1. stack \in Seq(Calls) /\ stack # <<>> /\ stack[1] = "choose"
      BY <1>1 DEF Running, IInv, Types
    <3>2. 1 \in 1..Len(stack)
      BY <3>1, EmptySeq, LenProperties
    <3> QED
      BY <2>1, <3>1, <3>2 DEF Makes
  <2>4. Flags' /\ LoopInv'
    <3>1. Flags /\ ruleset' = ruleset /\ hits' = hits
      BY DEF AgendaInv
    <3> QED
      BY <2>2, <2>3, <3>1, Zenon DEF Flags, LoopInv
  <2>5. Ranges'
    BY <2>1, RangesFrame DEF AgendaInv
  <2>6. RotationInv'
    BY <2>1, RotationFrame DEF AgendaInv
  <2>7. DueInv' /\ QueueInv'
    BY <2>1, DueFrame, QueueFrame DEF AgendaInv
  <2>8. OpenInv'
    BY <2>1 DEF AgendaInv, OpenInv, Ongoing, Idle, Completes
  <2> QED
    BY <2>4, <2>5, <2>6, <2>7, <2>8 DEF AgendaInv
<1>3. CASE ~(wakeAt <= now)
  <2>1. Skip(<<>>)
    BY <1>3 DEF StartChoosing
  <2>2. wakeAt > now
    BY <1>3 DEF IInv, Types, AgendaInv, Ranges
  <2>3. Calm(<<>>) /\ ~Makes(<<>>, "queuedAction")
    BY CalmCalls, MadeCalls
  <2> QED
    BY <1>1, <2>1, <2>2, <2>3, SkipAgenda
<1> QED
  BY <1>2, <1>3

\* All the calls.
LEMMA CallAgenda ==
    ASSUME IInv, AgendaInv, Call, UNCHANGED <<now, hits, ruleset>>
    PROVE  AgendaInv'
<1>0. /\ Calm(<<>>) /\ Calm(<<"doNextAction">>) /\ Calm(<<"boundary", "choose">>)
      /\ Calm(<<"reactToEvent">>) /\ Calm(<<"doNextAction", "reactLater">>)
  BY CalmCalls DEF Calls
<1>1. /\ ~Makes(<<>>, "queuedAction") /\ ~Makes(<<"doNextAction">>, "queuedAction")
      /\ ~Makes(<<"boundary", "choose">>, "queuedAction")
      /\ ~Makes(<<"reactToEvent">>, "queuedAction")
      /\ ~Makes(<<"doNextAction", "reactLater">>, "queuedAction")
      /\ Makes(<<"doNextAction">>, "doNextAction")
      /\ Makes(<<"boundary", "choose">>, "choose")
  BY MadeCalls
<1>2. CASE RotationAction
  <2>1. Running("rotationAction") /\ "rotationAction" \in Calls
    BY <1>2 DEF RotationAction, Calls
  <2>2. CASE Due
    BY <1>2, <2>1, <2>2, TakeDueAgenda DEF RotationAction
  <2>3. CASE ~Due
    <3>1. Skip(<<"doNextAction">>) /\ Wakes(<<"doNextAction">>)
      BY <1>1, <1>2, <2>3 DEF RotationAction, Wakes
    <3> QED
      BY <1>0, <1>1, <2>1, <3>1, SkipAgenda
  <2> QED
    BY <2>2, <2>3
<1>3. CASE HardcastAction
  <2>1. Running("hardcastAction") /\ "hardcastAction" \in Calls
    BY <1>3 DEF HardcastAction, Calls
  <2>2. CASE Due
    BY <1>3, <2>1, <2>2, TakeDueAgenda DEF HardcastAction
  <2>3. CASE ~Due
    <3>1. Skip(<<>>)
      BY <1>3, <2>3 DEF HardcastAction
    <3> QED
      BY <1>0, <1>1, <2>1, <2>3, <3>1, SkipAgenda
  <2> QED
    BY <2>2, <2>3
<1>4. CASE QueuedAction
  <2>1. Running("queuedAction") /\ Cast(queued.spell, <<>>)
    BY <1>4 DEF QueuedAction
  <2>2. inLoop' = inLoop
    BY <1>4, Zenon DEF QueuedAction
  <2>3. queued.spell \in Spells
    <3>1. stack \in Seq(Calls) /\ stack # <<>> /\ stack[1] = "queuedAction"
      BY <2>1 DEF Running, IInv, Types
    <3>2. 1 \in 1..Len(stack)
      BY <3>1, EmptySeq, LenProperties
    <3>3. Makes(stack, "queuedAction")
      BY <3>1, <3>2 DEF Makes
    <3> QED
      BY <3>3 DEF AgendaInv, QueueInv
  <2> QED
    BY <2>1, <2>2, <2>3, CastAgenda
<1>5. CASE Boundary
  <2>1. Running("boundary") /\ "boundary" \in Calls
    BY <1>5 DEF Boundary, Calls
  <2>2. CASE ruleset = "classic60" /\ Due
    BY <1>5, <2>1, <2>2, TakeDueAgenda DEF Boundary
  <2>3. CASE ~(ruleset = "classic60" /\ Due)
    <3>1. Skip(<<>>)
      BY <1>5, <2>3 DEF Boundary
    <3> QED
      BY <1>0, <1>1, <2>1, <3>1, SkipAgenda
  <2> QED
    BY <2>2, <2>3
<1>6. CASE OnComplete
  BY <1>6, OnCompleteAgenda
<1>7. CASE Effects
  <2>1. Running("effects") /\ "effects" \in Calls /\ (Skip(<<>>) \/ Skip(<<"reactToEvent">>))
    BY <1>7 DEF Effects, Calls
  <2> QED
    BY <1>0, <1>1, <2>1, SkipAgenda
<1>8. CASE DoNextAction
  <2>1. Running("doNextAction") /\ "doNextAction" \in Calls
    BY <1>8 DEF DoNextAction, Calls
  <2>2. CASE inLoop
    <3>1. Skip(<<>>)
      BY <1>8, <2>2 DEF DoNextAction
    <3>2. Makes(stack, "choose")
      BY <2>2 DEF AgendaInv, LoopInv
    <3> QED
      BY <1>0, <1>1, <2>1, <3>1, <3>2, SkipAgenda
  <2>3. CASE ~inLoop
    <3>1. Skip(<<"boundary", "choose">>) /\ Wakes(<<"boundary", "choose">>)
      BY <1>1, <1>8, <2>3 DEF DoNextAction, Wakes
    <3> QED
      BY <1>0, <1>1, <2>1, <3>1, SkipAgenda
  <2> QED
    BY <2>2, <2>3
<1>9. CASE StartChoosing
  BY <1>9, StartChoosingAgenda
<1>10. CASE ChooseNothing
  BY <1>10, ChooseNothingAgenda
<1>11. CASE ReactToEvent
  <2>1. /\ Running("reactToEvent") /\ "reactToEvent" \in Calls
        /\ Skip(<<"doNextAction", "reactLater">>)
    BY <1>11 DEF ReactToEvent, Calls
  <2> QED
    BY <1>0, <1>1, <2>1, SkipAgenda
<1>12. CASE ReactLater
  BY <1>12, ReactLaterAgenda
<1>13. CASE Swing
  <2>1. Running("swing") /\ "swing" \in Calls /\ (Skip(<<>>) \/ Skip(<<"reactToEvent">>))
    BY <1>13 DEF Swing, Calls
  <2> QED
    BY <1>0, <1>1, <2>1, SkipAgenda
<1>14. ASSUME NEW s \in Spells, ChooseCast(s) PROVE AgendaInv'
  <2>1. Running("choose") /\ Cast(s, <<"choose">>)
    BY <1>14 DEF ChooseCast
  <2>2. inLoop' = inLoop
    BY <1>14, Zenon DEF ChooseCast
  <2> QED
    BY <2>1, <2>2, CastAgenda
<1>15. ASSUME NEW s \in Spells, ChooseQueue(s) PROVE AgendaInv'
  BY <1>15, ChooseQueueAgenda
<1> QED
  BY <1>2, <1>3, <1>4, <1>5, <1>6, <1>7, <1>8, <1>9, <1>10, <1>11, <1>12, <1>13, <1>14, <1>15
     DEF Call

-----------------------------------------------------------------------------
(* The agenda between the calls.                                             *)

\* Between calls everything that must come is on the agenda, and the clock does not
\* pass it.
LEMMA QuietFacts ==
    ASSUME IInv, AgendaInv, Quiet
    PROVE  /\ ~inLoop /\ ~Completes(stack) /\ \A c : ~Makes(stack, c)
           /\ agenda # <<>> /\ Tidy(agenda, now) /\ now \in Nat
           /\ Entry(agenda, "rotation", wakeAt)
           /\ hard.expires # Idle => Entry(agenda, "hardcast", hard.expires)
<1>1. stack = <<>> /\ ~Completes(stack) /\ \A c : ~Makes(stack, c)
  BY MadeCalls DEF Quiet, Completes
<1>2. ~inLoop
  BY <1>1, Zenon DEF AgendaInv, LoopInv
<1>3. Tidy(agenda, now) /\ now \in Nat /\ Entry(agenda, "rotation", wakeAt)
  BY <1>1 DEF AgendaInv, RotationInv, Wakes, IInv, Types
<1>4. hard.expires # Idle => Entry(agenda, "hardcast", hard.expires)
  BY <1>1 DEF AgendaInv, DueInv
<1>5. agenda # <<>>
  <2> SUFFICES ASSUME agenda = <<>> PROVE FALSE
    OBVIOUS
  <2>1. Len(agenda) = 0
    OBVIOUS
  <2> QED
    BY <1>3, <2>1 DEF Entry
<1> QED
  BY <1>1, <1>2, <1>3, <1>4, <1>5

LEMMA QuietClock ==
    ASSUME IInv, AgendaInv, Quiet, NEW t, ClockTo(t)
    PROVE  /\ now' = t /\ t \in Nat /\ t \in 0..MaxTime /\ t >= now /\ now \in Nat
           /\ Tidy(agenda, t)
           /\ \A v, x : Entry(agenda, v, x) => x \in Nat /\ x >= t
           /\ hard.expires # Idle => hard.expires >= t
<1>1. /\ agenda # <<>> /\ Tidy(agenda, now) /\ now \in Nat
      /\ hard.expires # Idle => Entry(agenda, "hardcast", hard.expires)
  BY QuietFacts
<1>2. /\ agenda[1].at \in Nat
      /\ \A v, x : Entry(agenda, v, x) => x \in Nat /\ x >= agenda[1].at
      /\ \A u \in Nat : u <= agenda[1].at => Tidy(agenda, u)
  BY <1>1, NextFacts
<1>3. t \in now..agenda[1].at /\ t <= MaxTime /\ now' = t
  BY DEF ClockTo
<1>4. t \in Nat /\ t >= now /\ t <= agenda[1].at /\ t \in 0..MaxTime
  BY <1>1, <1>2, <1>3, CastAssumption
<1> QED
  BY <1>1, <1>2, <1>3, <1>4

\* An action is on a tidy agenda for one time only.
LEMMA OneEntry ==
    ASSUME NEW t, NEW q, Tidy(q, t), NEW v, NEW x, NEW y, Entry(q, v, x), Entry(q, v, y)
    PROVE  x = y
  BY DEF Tidy, Entry

\* What happens between calls keeps the types of what it does not write.
LEMMA ClockRanges ==
    ASSUME Ranges, NEW t \in 0..MaxTime, now' = t, t >= now, now \in Nat,
           hard'.spell = hard.spell, hard'.expires \in Nat \cup {Idle},
           gcdAt' \in Nat, wakeAt' \in Nat, lastCast' = lastCast,
           queued' = queued \/ queued' = CancelledQueue
    PROVE  Ranges'
<1>1. /\ queued'.spell = queued.spell /\ queued'.since \in {queued.since, Idle}
      /\ queued'.behind = queued.behind
      /\ queued' = [spell |-> queued'.spell, since |-> queued'.since, behind |-> queued'.behind]
  <2>1. CASE queued' = queued
    BY <2>1 DEF Ranges
  <2>2. CASE queued' = CancelledQueue
    <3>1. queued' = [spell |-> queued.spell, since |-> Idle, behind |-> queued.behind]
      BY <2>2 DEF CancelledQueue, Ranges
    <3> QED
      BY <3>1
  <2> QED
    BY <2>1, <2>2
<1>2. queued'.since \in 0..MaxTime \cup {Idle} /\ queued'.since <= t
  BY <1>1 DEF Ranges, Idle
<1>3. lastCast' \in 0..MaxTime \cup {Idle} /\ lastCast' <= t
  BY DEF Ranges, Idle
<1> QED
  BY <1>1, <1>2, <1>3 DEF Ranges, Idle

LEMMA StepAgenda ==
    ASSUME IInv, AgendaInv, Step, ruleset' = ruleset
    PROVE  AgendaInv'
<1> DEFINE e == agenda[1]
<1>1. /\ Quiet /\ ClockTo(e.at) /\ agenda' = Tail(agenda) /\ stack' = <<Perform(e.what)>>
      /\ UNCHANGED <<hard, gcdAt, wakeAt, readyAt, queued, hits, open, lastCast>>
  BY DEF Step
<1>2. /\ ~Completes(stack) /\ agenda # <<>> /\ Tidy(agenda, now) /\ now \in Nat
      /\ Entry(agenda, "rotation", wakeAt)
      /\ hard.expires # Idle => Entry(agenda, "hardcast", hard.expires)
  BY <1>1, QuietFacts
<1>3. now' = e.at /\ e.at \in Nat /\ e.at \in 0..MaxTime /\ e.at >= now
  BY <1>1, QuietClock
<1>4. /\ e.what \in Actions /\ Entry(agenda, e.what, e.at) /\ Tidy(agenda', e.at)
      /\ \A v, x : Entry(agenda', v, x) <=> v # e.what /\ Entry(agenda, v, x)
  BY <1>1, <1>2, NextFacts
<1> HIDE DEF e
<1>5. /\ e.what = "rotation" => stack' = <<"rotationAction">>
      /\ e.what = "hardcast" => stack' = <<"hardcastAction">>
      /\ e.what = "queued" => stack' = <<"queuedAction">>
      /\ e.what \in {"rotation", "hardcast", "queued"}
  BY <1>1, <1>4 DEF Perform, Actions
<1>6. ~Completes(stack')
  BY <1>5 DEF Completes
<1>7. Ranges'
  BY <1>1, <1>2, <1>3, ClockRanges DEF AgendaInv, Ranges
<1>8. Flags' /\ LoopInv'
  <2>1. inLoop' = inLoop
    BY Zenon DEF Step
  <2>2. Flags' /\ ~inLoop
    BY <1>1, <2>1, QuietFacts, FlagsFrame DEF AgendaInv
  <2> QED
    BY <2>1, <2>2, Zenon DEF LoopInv
<1>9. RotationInv'
  <2>1. \A x : Entry(agenda', "rotation", x) => x = wakeAt'
    BY <1>1, <1>4 DEF AgendaInv, RotationInv
  <2>2. CASE e.what = "rotation"
    <3>1. e.at = wakeAt
      BY <1>2, <1>4, <2>2, OneEntry
    <3>2. Wakes(stack')
      BY <1>5, <2>2, MadeCalls DEF Wakes
    <3> QED
      BY <1>1, <1>3, <1>4, <2>1, <3>1, <3>2 DEF RotationInv
  <2>3. CASE e.what # "rotation"
    BY <1>1, <1>2, <1>3, <1>4, <2>1, <2>3 DEF RotationInv
  <2> QED
    BY <2>2, <2>3
<1>10. DueInv'
  <2> SUFFICES ASSUME hard.expires # Idle
               PROVE  \/ Entry(agenda', "hardcast", hard.expires)
                      \/ hard.expires = now' /\ Makes(stack', "hardcastAction")
    BY <1>1 DEF DueInv, Idle
  <2>1. CASE e.what = "hardcast"
    <3>1. e.at = hard.expires
      BY <1>2, <1>4, <2>1, OneEntry
    <3>2. Makes(stack', "hardcastAction")
      BY <1>5, <2>1, MadeCalls
    <3> QED
      BY <1>3, <3>1, <3>2
  <2>2. CASE e.what # "hardcast"
    BY <1>2, <1>4, <2>2
  <2> QED
    BY <2>1, <2>2
<1>11. QueueInv'
  <2>1. Makes(stack', "queuedAction") => e.what = "queued"
    BY <1>5, MadeCalls
  <2>2. Makes(stack', "queuedAction") => queued.spell \in Spells
    BY <1>4, <2>1 DEF AgendaInv, QueueInv
  <2> QED
    BY <1>1, <1>4, <2>2 DEF AgendaInv, QueueInv
<1>12. OpenInv'
  BY <1>1, <1>6, OpenFrame DEF AgendaInv
<1> QED
  BY <1>7, <1>8, <1>9, <1>10, <1>11, <1>12 DEF AgendaInv

LEMMA EventAgenda ==
    ASSUME IInv, AgendaInv, NEW call \in {<<"reactToEvent">>, <<"boundary", "swing">>},
           Event(call), ruleset' = ruleset
    PROVE  AgendaInv'
<1>1. /\ Quiet /\ stack' = call
      /\ UNCHANGED <<hard, gcdAt, wakeAt, readyAt, queued, agenda, hits, open, lastCast>>
  BY DEF Event
<1>2. PICK t : ClockTo(t)
  BY DEF Event
<1>3. /\ now' = t /\ t \in Nat /\ t \in 0..MaxTime /\ t >= now /\ now \in Nat
      /\ Tidy(agenda, t)
  BY <1>1, <1>2, QuietClock
<1>4. /\ Entry(agenda, "rotation", wakeAt)
      /\ hard.expires # Idle => Entry(agenda, "hardcast", hard.expires)
  BY <1>1, QuietFacts
<1>5. ~Completes(stack') /\ ~Makes(stack', "queuedAction")
  BY <1>1, MadeCalls DEF Completes
<1>6. Ranges'
  BY <1>1, <1>3, ClockRanges DEF AgendaInv, Ranges
<1>7. Flags' /\ LoopInv'
  <2>1. inLoop' = inLoop
    BY Zenon DEF Event
  <2>2. Flags' /\ ~inLoop
    BY <1>1, <2>1, QuietFacts, FlagsFrame DEF AgendaInv
  <2> QED
    BY <2>1, <2>2, Zenon DEF LoopInv
<1>8. RotationInv'
  BY <1>1, <1>3, <1>4 DEF AgendaInv, RotationInv
<1>9. DueInv'
  BY <1>1, <1>4 DEF DueInv, Idle
<1>10. QueueInv'
  BY <1>1, <1>5, QueueFrame DEF AgendaInv
<1>11. OpenInv'
  BY <1>1, <1>5, OpenFrame DEF AgendaInv
<1> QED
  BY <1>6, <1>7, <1>8, <1>9, <1>10, <1>11 DEF AgendaInv

\* A hit moves the end of the cast and its entry together.
LEMMA HitAgenda ==
    ASSUME IInv, AgendaInv, Hit, ruleset' = ruleset
    PROVE  AgendaInv'
<1> DEFINE due == hard.expires + Pushback
           gcd == Bigger(gcdAt, due)
           classic == ruleset = "classic60"
           q == IF classic THEN Scheduled(agenda, "rotation", gcd) ELSE agenda
<1>1. PICK t : ClockTo(t) /\ hard.expires > t
  BY DEF Hit
<1>2. /\ Quiet /\ hits < MaxHits /\ hits' = hits + 1
      /\ hard' = [hard EXCEPT !.expires = due] /\ agenda' = Scheduled(q, "hardcast", due)
      /\ gcdAt' = IF classic THEN gcd ELSE gcdAt
      /\ wakeAt' = IF classic THEN gcd ELSE wakeAt
      /\ UNCHANGED <<readyAt, queued, stack, open, lastCast>>
  BY DEF Hit
<1>3. /\ now' = t /\ t \in Nat /\ t \in 0..MaxTime /\ t >= now /\ now \in Nat
      /\ Tidy(agenda, t)
  BY <1>1, <1>2, QuietClock
<1>4. ~Completes(stack) /\ \A c : ~Makes(stack, c)
  BY <1>2, QuietFacts
<1>5. /\ Entry(agenda, "rotation", wakeAt)
      /\ \A x : Entry(agenda, "rotation", x) => x = wakeAt
  BY <1>2, QuietFacts DEF AgendaInv, RotationInv
<1>6. /\ hard' = [spell |-> hard.spell, expires |-> due]
      /\ hard.expires \in Nat /\ gcdAt \in Nat /\ wakeAt \in Nat /\ Pushback \in Nat
  <2>1. hard.expires \in Nat \cup {Idle} /\ gcdAt \in Nat /\ wakeAt \in Nat
    BY DEF AgendaInv, Ranges
  <2>2. hard.expires \in Nat
    BY <1>1, <1>3, <2>1 DEF Idle
  <2>3. hard' = [spell |-> hard.spell, expires |-> due]
    BY <1>2 DEF IInv, Types
  <2>4. Pushback \in Nat
    BY CastAssumption
  <2> QED
    BY <2>1, <2>2, <2>3, <2>4
<1>7. due \in Nat /\ due >= t /\ gcd \in Nat /\ gcd >= t /\ hard'.expires = due
      /\ hard'.spell = hard.spell
  BY <1>1, <1>3, <1>6, BiggerFacts
<1>8. /\ Tidy(q, t) /\ Entry(q, "rotation", wakeAt')
      /\ \A x : Entry(q, "rotation", x) => x = wakeAt'
      /\ \A x : Entry(q, "queued", x) <=> Entry(agenda, "queued", x)
  <2>1. CASE classic
    <3>1. "rotation" \in Actions /\ q = Scheduled(agenda, "rotation", gcd) /\ wakeAt' = gcd
      BY <1>2, <2>1 DEF Actions
    <3> HIDE DEF q, gcd
    <3>2. /\ Tidy(q, t)
          /\ \A v, x : Entry(q, v, x) <=> \/ v = "rotation" /\ x = gcd
                                          \/ v # "rotation" /\ Entry(agenda, v, x)
      BY <1>3, <1>7, <3>1, ScheduledFacts
    <3> QED
      BY <3>1, <3>2
  <2>2. CASE ~classic
    <3>1. q = agenda /\ wakeAt' = wakeAt
      BY <1>2, <2>2
    <3> QED
      BY <1>3, <1>5, <3>1
  <2> QED
    BY <2>1, <2>2
<1> HIDE DEF q, due, gcd
<1>9. /\ Tidy(agenda', t)
      /\ \A v, x : Entry(agenda', v, x) <=> \/ v = "hardcast" /\ x = due
                                            \/ v # "hardcast" /\ Entry(q, v, x)
  <2>1. "hardcast" \in Actions
    BY DEF Actions
  <2> QED
    BY <1>2, <1>3, <1>7, <1>8, <2>1, ScheduledFacts
<1>10. Ranges'
  <2>1. gcdAt' \in Nat /\ wakeAt' \in Nat
    BY <1>2, <1>6, <1>7
  <2> QED
    BY <1>2, <1>3, <1>7, <2>1, ClockRanges DEF AgendaInv
<1>11. Flags' /\ LoopInv'
  <2>1. inLoop' = inLoop
    BY Zenon DEF Hit
  <2>2. ~inLoop
    BY <1>2, QuietFacts
  <2>3. hits' \in 0..MaxHits
    BY <1>2, CastAssumption DEF AgendaInv, Flags
  <2>4. Flags
    BY DEF AgendaInv
  <2> QED
    BY <2>1, <2>2, <2>3, <2>4, Zenon DEF Flags, LoopInv
<1>12. RotationInv'
  BY <1>3, <1>8, <1>9 DEF RotationInv
<1>13. DueInv'
  BY <1>7, <1>9 DEF DueInv
<1>14. QueueInv'
  BY <1>2, <1>8, <1>9, QueueFrame DEF AgendaInv
<1>15. OpenInv'
  <2>1. hard.expires # Idle /\ ~Completes(stack')
    BY <1>2, <1>4, <1>6 DEF Idle, Completes
  <2> QED
    BY <1>2, <2>1, OpenFrame DEF AgendaInv
<1> QED
  BY <1>10, <1>11, <1>12, <1>13, <1>14, <1>15 DEF AgendaInv

\* An interruption takes the cast off the unit and the queued spell off the agenda.
LEMMA InterruptAgenda ==
    ASSUME IInv, AgendaInv, Interrupt, ruleset' = ruleset
    PROVE  AgendaInv'
<1> DEFINE q == Unscheduled(agenda, "queued")
<1>1. PICK t : /\ ClockTo(t)
               /\ IF hard.expires > t
                  THEN /\ hard' = [hard EXCEPT !.expires = Idle]
                       /\ SetGCDTimer(q, t + Reaction)
                       /\ open' = open - 1
                  ELSE /\ agenda' = q
                       /\ UNCHANGED <<hard, gcdAt, wakeAt, open>>
  BY DEF Interrupt
<1>2. /\ Quiet /\ hits < MaxHits /\ hits' = hits + 1 /\ queued' = CancelledQueue
      /\ UNCHANGED <<readyAt, stack, lastCast>>
  BY DEF Interrupt
<1>3. /\ now' = t /\ t \in Nat /\ t \in 0..MaxTime /\ t >= now /\ now \in Nat
      /\ Tidy(agenda, t)
  BY <1>1, <1>2, QuietClock
<1>4. /\ ~Completes(stack) /\ \A c : ~Makes(stack, c)
      /\ Entry(agenda, "rotation", wakeAt)
      /\ \A x : Entry(agenda, "rotation", x) => x = wakeAt
      /\ hard.expires # Idle => Entry(agenda, "hardcast", hard.expires)
  BY <1>2, QuietFacts DEF AgendaInv, RotationInv
<1>5. /\ Tidy(q, t)
      /\ \A v, x : Entry(q, v, x) <=> v # "queued" /\ Entry(agenda, v, x)
  BY <1>3, UnscheduledFacts
<1> HIDE DEF q
<1>6. /\ gcdAt \in Nat /\ wakeAt \in Nat /\ hard.expires \in Nat \cup {Idle}
      /\ t + Reaction \in Nat /\ t + Reaction >= t
      /\ hard = [spell |-> hard.spell, expires |-> hard.expires]
  <2>1. hard.expires \in Nat \cup {Idle} /\ gcdAt \in Nat /\ wakeAt \in Nat
    BY DEF AgendaInv, Ranges
  <2>2. hard = [spell |-> hard.spell, expires |-> hard.expires]
    BY DEF IInv, Types
  <2>3. Reaction \in Nat
    BY CastAssumption
  <2> QED
    BY <1>3, <2>1, <2>2, <2>3
<1>7. /\ RotationInv' /\ gcdAt' \in Nat /\ wakeAt' \in Nat
      /\ \A v, x : v # "rotation" => (Entry(agenda', v, x) <=> Entry(q, v, x))
      /\ hard'.spell = hard.spell
      /\ \/ hard'.expires = Idle /\ hard.expires # Idle /\ open' = open - 1
         \/ hard'.expires = hard.expires /\ open' = open
  <2>1. CASE hard.expires > t
    <3>1. SetRotationTimer(q, t + Reaction) /\ gcdAt' = t + Reaction
      BY <1>1, <2>1 DEF SetGCDTimer
    <3>2. wakeAt' = t + Reaction
      BY <3>1 DEF SetRotationTimer
    <3>3. /\ RotationInv'
          /\ \A v, x : v # "rotation" => (Entry(agenda', v, x) <=> Entry(q, v, x))
      BY <1>3, <1>5, <1>6, <3>1, TimerAgenda
    <3>4. hard' = [spell |-> hard.spell, expires |-> Idle] /\ open' = open - 1
      BY <1>1, <1>6, <2>1
    <3>5. hard'.spell = hard.spell /\ hard'.expires = Idle /\ hard.expires # Idle
      BY <1>3, <2>1, <3>4 DEF Idle
    <3> QED
      BY <1>6, <3>1, <3>2, <3>3, <3>4, <3>5
  <2>2. CASE ~(hard.expires > t)
    <3>1. agenda' = q /\ UNCHANGED <<hard, gcdAt, wakeAt, open>>
      BY <1>1, <2>2
    <3>2. RotationInv'
      BY <1>3, <1>4, <1>5, <3>1 DEF RotationInv
    <3> QED
      BY <1>6, <3>1, <3>2
  <2> QED
    BY <2>1, <2>2
<1>8. Ranges'
  <2>1. hard'.expires \in Nat \cup {Idle}
    BY <1>6, <1>7
  <2> QED
    BY <1>2, <1>3, <1>7, <2>1, ClockRanges DEF AgendaInv
<1>9. Flags' /\ LoopInv'
  <2>1. inLoop' = inLoop
    BY Zenon DEF Interrupt
  <2>2. ~inLoop
    BY <1>2, QuietFacts
  <2>3. hits' \in 0..MaxHits
    BY <1>2, CastAssumption DEF AgendaInv, Flags
  <2>4. Flags
    BY DEF AgendaInv
  <2> QED
    BY <2>1, <2>2, <2>3, <2>4, Zenon DEF Flags, LoopInv
<1>10. DueInv'
  BY <1>4, <1>5, <1>7 DEF DueInv, Idle
<1>11. QueueInv'
  <2>1. \A x : ~Entry(agenda', "queued", x)
    BY <1>5, <1>7
  <2>2. ~Makes(stack', "queuedAction")
    BY <1>2, <1>4
  <2> QED
    BY <2>1, <2>2 DEF QueueInv
<1>12. OpenInv'
  <2>1. ~Completes(stack')
    BY <1>2, <1>4 DEF Completes
  <2>2. open \in Nat /\ open >= Ongoing
    BY DEF AgendaInv, OpenInv
  <2>3. CASE hard'.expires = Idle /\ hard.expires # Idle /\ open' = open - 1
    BY <1>4, <2>1, <2>2, <2>3 DEF OpenInv, Ongoing, Idle
  <2>4. CASE hard'.expires = hard.expires /\ open' = open
    BY <2>1, <2>4, OpenFrame DEF AgendaInv
  <2> QED
    BY <1>7, <2>3, <2>4
<1> QED
  BY <1>7, <1>8, <1>9, <1>10, <1>11, <1>12 DEF AgendaInv

-----------------------------------------------------------------------------
(* The theorems about the agenda.                                            *)

LEMMA InitAgenda == Init => AgendaInv
<1> SUFFICES ASSUME Init PROVE AgendaInv
  OBVIOUS
<1>1. now = 0 /\ gcdAt = 0 /\ wakeAt = 0 /\ hits = 0 /\ open = 0 /\ lastCast = Idle
      /\ stack = <<>> /\ hard = [spell |-> NoSpell, expires |-> Idle]
      /\ queued = [spell |-> NoSpell, since |-> Idle, behind |-> Idle]
      /\ agenda = <<[what |-> "rotation", at |-> 0]>>
  BY DEF Init
<1>2. /\ hard.spell = NoSpell /\ hard.expires = Idle
      /\ queued.spell = NoSpell /\ queued.since = Idle /\ queued.behind = Idle
  BY <1>1
<1>3. ~Completes(stack) /\ \A c : ~Makes(stack, c)
  BY <1>1, MadeCalls DEF Completes
<1>4. Ranges
  BY <1>1, <1>2, CastAssumption DEF Ranges, Idle
<1>5. Flags /\ LoopInv
  <2>1. ruleset \in Rulesets /\ inLoop = FALSE
    BY Zenon DEF Init
  <2>2. hits \in 0..MaxHits
    BY <1>1, CastAssumption
  <2> QED
    BY <2>1, <2>2, Zenon DEF Flags, LoopInv
<1>6. /\ agenda \in Seq(Items) /\ Len(agenda) = 1
      /\ agenda[1].what = "rotation" /\ agenda[1].at = 0
  <2>1. [what |-> "rotation", at |-> 0] \in Items
    BY DEF Items, Actions
  <2> QED
    BY <1>1, <2>1
<1>7. RotationInv
  <2>1. \A i \in 1..Len(agenda) : i = 1
    BY <1>6
  <2>2. Tidy(agenda, now)
    BY <1>1, <1>6, <2>1 DEF Tidy
  <2>3. Entry(agenda, "rotation", wakeAt) /\ \A x : Entry(agenda, "rotation", x) => x = wakeAt
    BY <1>1, <1>6, <2>1 DEF Entry
  <2> QED
    BY <2>2, <2>3 DEF RotationInv
<1>8. DueInv
  BY <1>2 DEF DueInv
<1>9. QueueInv
  <2>1. \A x : ~Entry(agenda, "queued", x)
    BY <1>6 DEF Entry
  <2> QED
    BY <1>3, <2>1 DEF QueueInv
<1>10. OpenInv
  BY <1>1, <1>2, <1>3 DEF OpenInv, Ongoing
<1> QED
  BY <1>4, <1>5, <1>7, <1>8, <1>9, <1>10 DEF AgendaInv

LEMMA AgendaInductive == IInv /\ AgendaInv /\ [Next]_vars => AgendaInv'
<1> SUFFICES ASSUME IInv, AgendaInv, [Next]_vars PROVE AgendaInv'
  OBVIOUS
<1>1. CASE Call /\ UNCHANGED <<now, hits, ruleset>>
  BY <1>1, CallAgenda
<1>2. CASE Step /\ ruleset' = ruleset
  BY <1>2, StepAgenda
<1>3. CASE (Event(<<"reactToEvent">>) \/ Event(<<"boundary", "swing">>)) /\ ruleset' = ruleset
  BY <1>3, EventAgenda
<1>4. CASE Hit /\ ruleset' = ruleset
  BY <1>4, HitAgenda
<1>5. CASE Interrupt /\ ruleset' = ruleset
  BY <1>5, InterruptAgenda
<1>6. CASE UNCHANGED vars
  <2>1. UNCHANGED <<now, hard, gcdAt, wakeAt, queued, agenda, stack, open, lastCast>>
    BY <1>6 DEF vars
  <2>2. ruleset' = ruleset /\ hits' = hits /\ inLoop' = inLoop
    BY <1>6, Zenon DEF vars
  <2>3. Flags' /\ LoopInv'
    BY <2>1, <2>2, FlagsFrame, LoopFrame DEF AgendaInv
  <2>4. Ranges' /\ RotationInv' /\ DueInv' /\ QueueInv'
    BY <2>1, RangesFrame, RotationFrame, DueFrame, QueueFrame DEF AgendaInv
  <2>5. OpenInv'
    BY <2>1 DEF AgendaInv, OpenInv, Ongoing, Idle, Completes
  <2> QED
    BY <2>3, <2>4, <2>5 DEF AgendaInv
<1> QED
  BY <1>1, <1>2, <1>3, <1>4, <1>5, <1>6 DEF Next

\* A step counts at most one more cast that a queued spell has replaced.
LEMMA OvertakenInductive == overtaken \in Nat /\ [Next]_vars => overtaken' \in Nat
<1> SUFFICES ASSUME overtaken \in Nat, [Next]_vars PROVE overtaken' \in Nat
  OBVIOUS
<1>1. overtaken' = overtaken \/ overtaken' = overtaken + 1
  BY Zenon DEF Next, vars
<1> QED
  BY <1>1

LEMMA AgendaMeansTypes == IInv /\ AgendaInv /\ overtaken \in Nat => TypeOK
<1> SUFFICES ASSUME IInv, AgendaInv, overtaken \in Nat PROVE TypeOK
  OBVIOUS
<1>1. ruleset \in Rulesets /\ hits \in 0..MaxHits /\ inLoop \in BOOLEAN
  BY Zenon DEF AgendaInv, Flags
<1>2. now \in 0..MaxTime /\ gcdAt \in Nat /\ wakeAt \in Nat /\ lastCast \in 0..MaxTime \cup {Idle}
  BY DEF AgendaInv, Ranges
<1>3. hard \in [spell : Spells \cup {NoSpell}, expires : Nat \cup {Idle}]
  BY DEF AgendaInv, Ranges, IInv, Types
<1>4. queued \in [spell : Spells \cup {NoSpell}, since : 0..MaxTime \cup {Idle},
                   behind : Nat \cup {Idle}]
  BY DEF AgendaInv, Ranges
<1>5. agenda \in Seq([what : Actions, at : Nat])
  BY DEF AgendaInv, RotationInv, Tidy, Items
<1>6. readyAt \in [Spells -> Nat] /\ stack \in Seq(Calls) /\ open \in Nat
  BY DEF IInv, Types, AgendaInv, OpenInv
<1> QED
  BY <1>1, <1>2, <1>3, <1>4, <1>5, <1>6, Zenon DEF TypeOK

LEMMA AgendaMeansKept == IInv /\ AgendaInv => AgendaKept
<1> SUFFICES ASSUME IInv, AgendaInv PROVE RotationAwake /\ QueueIsFresh
  BY DEF AgendaKept
<1>1. RotationAwake
  <2> SUFFICES ASSUME Quiet
               PROVE  /\ ~inLoop
                      /\ \E i \in 1..Len(agenda) : agenda[i] = [what |-> "rotation", at |-> wakeAt]
                      /\ \A i, j \in 1..Len(agenda) :
                            /\ agenda[i].at >= now
                            /\ agenda[i].what = agenda[j].what => i = j
    BY DEF RotationAwake
  <2>1. ~inLoop
    BY QuietFacts
  <2>2. Tidy(agenda, now) /\ Entry(agenda, "rotation", wakeAt)
    BY QuietFacts
  <2>3. PICK i \in 1..Len(agenda) : agenda[i].what = "rotation" /\ agenda[i].at = wakeAt
    BY <2>2 DEF Entry
  <2>4. agenda[i] \in Items
    BY <2>2, TidyTypes
  <2>5. agenda[i] = [what |-> "rotation", at |-> wakeAt]
    BY <2>3, <2>4 DEF Items
  <2> QED
    BY <2>1, <2>2, <2>5 DEF Tidy
<1>2. QueueIsFresh
  <2> SUFFICES ASSUME NEW i \in 1..Len(agenda), agenda[i].what = "queued"
               PROVE  queued.since >= Bigger(lastCast, 0)
    BY DEF QueueIsFresh
  <2>1. Entry(agenda, "queued", agenda[i].at)
    BY DEF Entry
  <2>2. queued.since >= lastCast /\ queued.since >= 0
    BY <2>1 DEF AgendaInv, QueueInv
  <2> QED
    BY <2>2 DEF Bigger
<1> QED
  BY <1>1, <1>2

LEMMA BothInvariants == Spec => [](IInv /\ AgendaInv /\ overtaken \in Nat)
<1>1. Init => IInv /\ AgendaInv /\ overtaken \in Nat
  <2>1. Init => overtaken \in Nat
    BY DEF Init
  <2> QED
    BY <2>1, InitInv, InitAgenda
<1>2. IInv /\ AgendaInv /\ overtaken \in Nat /\ [Next]_vars =>
        IInv' /\ AgendaInv' /\ (overtaken \in Nat)'
  BY Inductive, AgendaInductive, OvertakenInductive
<1> QED
  BY <1>1, <1>2, PTL DEF Spec

\* The types of the caster's state.
THEOREM TypeCorrect == Spec => []TypeOK
  BY BothInvariants, AgendaMeansTypes, PTL

\* Between calls the rotation is on the agenda once, at the time of its timer, nothing
\* of the unit's is left behind in the past, and a queued spell is the last that the
\* rotation wanted (gcd.go, spell_queueing.go).
THEOREM AgendaIsKept == Spec => []AgendaKept
  BY BothInvariants, AgendaMeansKept, PTL

\* A cast that is not cancelled has its end on the agenda and the clock before it.
EndsOnTime ==
    Quiet /\ hard.expires # Idle =>
        /\ now <= hard.expires
        /\ \E i \in 1..Len(agenda) :
              agenda[i].what \in {"rotation", "hardcast"} /\ agenda[i].at = hard.expires

LEMMA AgendaMeansOnTime == IInv /\ AgendaInv => EndsOnTime
<1> SUFFICES ASSUME IInv, AgendaInv, Quiet, hard.expires # Idle
             PROVE  /\ now <= hard.expires
                    /\ \E i \in 1..Len(agenda) : /\ agenda[i].what \in {"rotation", "hardcast"}
                                                 /\ agenda[i].at = hard.expires
  BY DEF EndsOnTime
<1>1. Tidy(agenda, now) /\ Entry(agenda, "hardcast", hard.expires)
  BY QuietFacts
<1>2. PICK i \in 1..Len(agenda) : agenda[i].what = "hardcast" /\ agenda[i].at = hard.expires
  BY <1>1 DEF Entry
<1>3. agenda[i].at >= now
  BY <1>1 DEF Tidy
<1>4. now \in Nat /\ hard.expires \in Nat
  BY DEF IInv, Types, AgendaInv, Ranges
<1> QED
  BY <1>2, <1>3, <1>4

\* Under all rules: while a cast is under way, its end is on the agenda, and no pending
\* action is performed after it (cast.go, gcd.go).
THEOREM CastsAreCompleted == Spec => []EndsOnTime
  BY BothInvariants, AgendaMeansOnTime, PTL

-----------------------------------------------------------------------------
(* Under the rules of the Classic paladin no cast is replaced by the next,    *)
(* but by a queued spell with a cast time when a hit has moved the end of the  *)
(* cast to the moment for which the spell was queued: the queue is the one way *)
(* to the next cast that does not complete the due one first                   *)
(* (spell_queueing.go).  WaitInv says that this takes a hit: a spell is queued *)
(* for a time after the end of the cast as it was then, so that a cast that is *)
(* due when the spell comes up ends later than it did.                         *)

WaitInv ==
    Makes(stack, "queuedAction") =>
        stack = <<"queuedAction">> /\ (hard.expires # Idle => hard.expires > queued.behind)

\* Calls among which no queued spell is performed.
Plain(calls) == calls \in Seq(Calls) /\ ~Makes(calls, "queuedAction")

LEMMA PlainCalls ==
    /\ Plain(<<>>) /\ Plain(<<"effects">>) /\ Plain(<<"doNextAction">>) /\ Plain(<<"choose">>)
    /\ Plain(<<"reactToEvent">>) /\ Plain(<<"boundary", "choose">>)
    /\ Plain(<<"doNextAction", "reactLater">>)
<1>1. /\ <<>> \in Seq(Calls) /\ <<"effects">> \in Seq(Calls) /\ <<"doNextAction">> \in Seq(Calls)
      /\ <<"choose">> \in Seq(Calls) /\ <<"reactToEvent">> \in Seq(Calls)
      /\ <<"boundary", "choose">> \in Seq(Calls)
      /\ <<"doNextAction", "reactLater">> \in Seq(Calls)
  BY DEF Calls
<1> QED
  BY <1>1, MadeCalls DEF Plain

LEMMA PlainAfter ==
    ASSUME NEW d \in {"onComplete", "effects"}, NEW more, Plain(more)
    PROVE  Plain(<<d>> \o more)
<1>1. d \in Calls /\ d # "queuedAction" /\ more \in Seq(Calls)
  BY DEF Calls, Plain
<1>2. <<d>> \o more \in Seq(Calls)
  BY <1>1, ConcatProperties
<1>3. Makes(<<d>> \o more, "queuedAction") <=> d = "queuedAction" \/ Makes(more, "queuedAction")
  BY <1>1, MadeAfter
<1> QED
  BY <1>1, <1>2, <1>3 DEF Plain

\* No call performs a queued spell: only Step does.
LEMMA CallWaits ==
    ASSUME IInv, WaitInv, Call
    PROVE  ~Makes(stack', "queuedAction")
<1> DEFINE Goes == \E calls : Plain(calls) /\ Return(calls)
<1>1. ASSUME NEW more, Plain(more), NEW q, TakeDue(q, more) PROVE Goes
  <2>1. Return(<<"onComplete">> \o more)
    BY <1>1 DEF TakeDue
  <2>2. Plain(<<"onComplete">> \o more)
    BY <1>1, PlainAfter
  <2> QED
    BY <2>1, <2>2
<1>2. ASSUME NEW more, Plain(more), Skip(more) PROVE Goes
  BY <1>2 DEF Skip
<1>3. ASSUME NEW more, Plain(more), NEW s, Cast(s, more) PROVE Goes
  <2>1. Return(more) \/ Return(<<"effects">> \o more)
    BY <1>3 DEF Cast, Start
  <2>2. Plain(<<"effects">> \o more)
    BY <1>3, PlainAfter
  <2> QED
    BY <1>3, <2>1, <2>2
<1>4. stack # <<>> /\ (Goes \/ (Running("choose") /\ stack' = stack))
  <2> HIDE DEF Goes
  <2>1. CASE RotationAction
    BY <1>1, <1>2, <2>1, PlainCalls DEF RotationAction, Running
  <2>2. CASE HardcastAction
    BY <1>1, <1>2, <2>2, PlainCalls DEF HardcastAction, Running
  <2>3. CASE QueuedAction
    BY <1>3, <2>3, PlainCalls DEF QueuedAction, Running
  <2>4. CASE Boundary
    BY <1>1, <1>2, <2>4, PlainCalls DEF Boundary, Running
  <2>5. CASE OnComplete
    <3>1. Return(<<>>) \/ Return(<<"effects">>)
      BY <2>5 DEF OnComplete
    <3> QED
      BY <2>5, <3>1, PlainCalls DEF OnComplete, Running, Goes
  <2>6. CASE Effects
    BY <1>2, <2>6, PlainCalls DEF Effects, Running
  <2>7. CASE DoNextAction
    <3>1. Skip(<<>>) \/ Skip(<<"boundary", "choose">>)
      BY <2>7, Zenon DEF DoNextAction
    <3> QED
      BY <1>2, <2>7, <3>1, PlainCalls DEF DoNextAction, Running
  <2>8. CASE StartChoosing
    <3>1. Skip(<<>>) \/ (Running("choose") /\ stack' = stack)
      BY <2>8 DEF StartChoosing
    <3> QED
      BY <1>2, <2>8, <3>1, PlainCalls DEF StartChoosing, Running
  <2>9. CASE ChooseNothing
    <3>1. Return(<<>>) /\ Running("choose")
      BY <2>9 DEF ChooseNothing
    <3> QED
      BY <3>1, PlainCalls DEF Running, Goes
  <2>10. CASE ReactToEvent
    BY <1>2, <2>10, PlainCalls DEF ReactToEvent, Running
  <2>11. CASE ReactLater
    <3>1. Return(<<>>) /\ Running("reactLater")
      BY <2>11 DEF ReactLater
    <3> QED
      BY <3>1, PlainCalls DEF Running, Goes
  <2>12. CASE Swing
    BY <1>2, <2>12, PlainCalls DEF Swing, Running
  <2>13. ASSUME NEW s \in Spells, ChooseCast(s)
         PROVE  stack # <<>> /\ (Goes \/ (Running("choose") /\ stack' = stack))
    <3>1. Running("choose") /\ Cast(s, <<"choose">>)
      BY <2>13 DEF ChooseCast
    <3> QED
      BY <1>3, <3>1, PlainCalls DEF Running
  <2>14. ASSUME NEW s \in Spells, ChooseQueue(s)
         PROVE  stack # <<>> /\ (Goes \/ (Running("choose") /\ stack' = stack))
    BY <2>14 DEF ChooseQueue, Running
  <2> QED
    BY <2>1, <2>2, <2>3, <2>4, <2>5, <2>6, <2>7, <2>8, <2>9, <2>10, <2>11, <2>12, <2>13, <2>14
       DEF Call
<1>5. CASE Running("choose") /\ stack' = stack
  <2> SUFFICES ASSUME Makes(stack, "queuedAction") PROVE FALSE
    BY <1>5 DEF Makes
  <2>1. stack = <<"queuedAction">>
    BY DEF WaitInv
  <2> QED
    BY <1>5, <2>1 DEF Running
<1>6. CASE Goes
  <2>1. PICK calls : Plain(calls) /\ Return(calls)
    BY <1>6
  <2>2. calls \in Seq(Calls) /\ ~Makes(calls, "queuedAction") /\ stack \in Seq(Calls)
    BY <2>1 DEF Plain, IInv, Types
  <2>3. CASE Makes(stack, "queuedAction")
    <3>1. Tail(stack) = <<>>
      <4>1. stack = <<"queuedAction">>
        BY <2>3 DEF WaitInv
      <4> QED
        BY <4>1, HeadTailProperties
    <3>2. stack' = calls \o <<>>
      BY <2>1, <3>1 DEF Return
    <3>3. stack' = calls
      BY <2>2, <3>2, ConcatEmptySeq
    <3> QED
      BY <2>2, <3>3
  <2>4. CASE ~Makes(stack, "queuedAction")
    <3>1. PICK what : Running(what)
      BY <1>4 DEF Running
    <3>2. Returned(what, calls)
      BY <2>1, <2>2, <3>1, ReturnCalls
    <3> QED
      BY <2>2, <2>4, <3>2 DEF Returned
  <2> QED
    BY <2>3, <2>4
<1> QED
  BY <1>4, <1>5, <1>6

LEMMA WaitInductive == IInv /\ AgendaInv /\ WaitInv /\ [Next]_vars => WaitInv'
<1> SUFFICES ASSUME IInv, AgendaInv, WaitInv, [Next]_vars PROVE WaitInv'
  OBVIOUS
<1>1. CASE Call
  BY <1>1, CallWaits DEF WaitInv
<1>2. CASE Step
  <2> DEFINE e == agenda[1]
  <2>1. /\ Quiet /\ ClockTo(e.at) /\ agenda' = Tail(agenda) /\ stack' = <<Perform(e.what)>>
        /\ UNCHANGED <<hard, queued>>
    BY <1>2 DEF Step
  <2>2. /\ agenda # <<>> /\ Tidy(agenda, now) /\ now \in Nat
        /\ hard.expires # Idle => Entry(agenda, "hardcast", hard.expires)
    BY <2>1, QuietFacts
  <2>3. /\ e.what \in Actions /\ Entry(agenda, e.what, e.at) /\ Tidy(agenda', e.at)
        /\ \A v, x : Entry(agenda', v, x) <=> v # e.what /\ Entry(agenda, v, x)
    BY <2>1, <2>2, NextFacts
  <2>4. e.at \in Nat
    BY <2>1, QuietClock
  <2> HIDE DEF e
  <2> SUFFICES ASSUME Makes(stack', "queuedAction")
               PROVE  /\ stack' = <<"queuedAction">>
                      /\ hard.expires # Idle => hard.expires > queued.behind
    BY <2>1 DEF WaitInv, Idle
  <2>5. Perform(e.what) = "queuedAction"
    BY <2>1, MadeCalls
  <2>6. e.what = "queued"
    BY <2>3, <2>5 DEF Perform, Actions
  <2>7. e.at > queued.behind /\ queued.behind \in Nat \cup {Idle}
    BY <2>3, <2>6 DEF AgendaInv, QueueInv, Ranges
  <2>8. ASSUME hard.expires # Idle PROVE hard.expires > queued.behind
    <3>1. Entry(agenda', "hardcast", hard.expires)
      BY <2>2, <2>3, <2>6, <2>8
    <3>2. hard.expires >= e.at
      BY <2>3, <3>1 DEF Tidy, Entry
    <3>3. hard.expires \in Nat
      BY <2>8 DEF AgendaInv, Ranges
    <3> QED
      BY <2>4, <2>7, <3>2, <3>3 DEF Idle
  <2> QED
    BY <2>1, <2>5, <2>8
<1>3. CASE Event(<<"reactToEvent">>) \/ Event(<<"boundary", "swing">>)
  <2>1. stack' \in {<<"reactToEvent">>, <<"boundary", "swing">>}
    BY <1>3 DEF Event
  <2>2. ~Makes(stack', "queuedAction")
    BY <2>1, MadeCalls
  <2> QED
    BY <2>2 DEF WaitInv
<1>4. CASE Hit \/ Interrupt
  <2>1. Quiet /\ stack' = stack
    BY <1>4 DEF Hit, Interrupt
  <2>2. ~Makes(stack', "queuedAction")
    BY <2>1, MadeCalls DEF Quiet
  <2> QED
    BY <2>2 DEF WaitInv
<1>5. CASE UNCHANGED vars
  <2>1. UNCHANGED <<stack, hard, queued>>
    BY <1>5 DEF vars
  <2> QED
    BY <2>1 DEF WaitInv, Makes, Idle
<1> QED
  BY <1>1, <1>2, <1>3, <1>4, <1>5 DEF Next

\* The calls there are while a cast is due.
Shapes ==
    {<<>>, <<"rotationAction">>, <<"hardcastAction">>, <<"queuedAction">>,
     <<"boundary", "swing">>, <<"effects">>, <<"reactToEvent">>,
     <<"doNextAction", "reactLater">>, <<"boundary", "choose", "reactLater">>}

ClassicInv ==
    ruleset = "classic60" => open = Ongoing + overtaken /\ (Due => stack \in Shapes)

\* What a step counts (Next).
Counted == overtaken' = IF Overtakes THEN overtaken + 1 ELSE overtaken

LEMMA CountsNothing ==
    ASSUME Counted, ~Running("queuedAction")
    PROVE  overtaken' = overtaken
  BY DEF Counted, Overtakes

LEMMA ClassicFrame ==
    ASSUME ClassicInv, ruleset' = ruleset, open' = open, overtaken' = overtaken,
           hard'.expires = Idle <=> hard.expires = Idle,
           ~Completes(stack), ~Completes(stack'),
           ruleset = "classic60" /\ Due' => stack' \in Shapes
    PROVE  ClassicInv'
<1>1. Due' <=> hard'.expires # Idle /\ hard'.expires <= now'
  BY DEF Due, Idle
<1>2. Ongoing' = Ongoing
  BY DEF Ongoing, Idle
<1> QED
  BY <1>1, <1>2 DEF ClassicInv, Due, Idle

\* What a call returns to while a cast is due.
LEMMA ShapeFacts ==
    ASSUME stack \in Shapes
    PROVE  /\ ~Running("onComplete") /\ ~Running("choose") /\ ~Running("swing")
           /\ ~Running("reactLater")
           /\ Running("queuedAction") \/ Running("effects") \/ Running("reactToEvent") =>
                 Tail(stack) = <<>>
           /\ Running("doNextAction") =>
                 Tail(stack) = <<"reactLater">> /\ ~Makes(stack, "choose")
<1>1. CASE stack = <<>>
  BY <1>1 DEF Running
<1>2. ASSUME NEW what \in {"rotationAction", "hardcastAction", "queuedAction", "effects",
                          "reactToEvent"},
             stack = <<what>>
      PROVE  Head(stack) = what /\ Tail(stack) = <<>>
  BY <1>2, HeadTailProperties
<1>6. CASE stack \in {<<"rotationAction">>, <<"hardcastAction">>, <<"queuedAction">>,
                      <<"effects">>, <<"reactToEvent">>}
  <2>1. PICK what \in {"rotationAction", "hardcastAction", "queuedAction", "effects",
                       "reactToEvent"} : stack = <<what>>
    BY <1>6
  <2> QED
    BY <1>2, <2>1 DEF Running
<1>3. CASE stack \in {<<"boundary", "swing">>, <<"boundary", "choose", "reactLater">>}
  BY <1>3 DEF Running
<1>4. CASE stack = <<"doNextAction", "reactLater">>
  <2>1. Head(stack) = "doNextAction" /\ Tail(stack) = <<"reactLater">>
    BY <1>4
  <2>2. ~Makes(stack, "choose")
    BY <1>4, MadeCalls
  <2> QED
    BY <2>1, <2>2 DEF Running
<1> QED
  BY <1>1, <1>6, <1>3, <1>4 DEF Shapes

\* The calls made while a cast is due, one after the other.
LEMMA ShapesMade ==
    /\ <<>> \o <<>> = <<>>
    /\ <<"effects">> \o <<>> = <<"effects">>
    /\ (<<"effects">> \o <<>>) \o <<>> = <<"effects">>
    /\ <<"reactToEvent">> \o <<>> = <<"reactToEvent">>
    /\ <<"doNextAction", "reactLater">> \o <<>> = <<"doNextAction", "reactLater">>
    /\ <<"boundary", "choose">> \o <<"reactLater">> = <<"boundary", "choose", "reactLater">>
<1>1. /\ <<>> \o <<>> = <<>>
      /\ <<"effects">> \o <<>> = <<"effects">>
      /\ <<"reactToEvent">> \o <<>> = <<"reactToEvent">>
      /\ <<"doNextAction", "reactLater">> \o <<>> = <<"doNextAction", "reactLater">>
  BY ConcatEmptySeq, EmptySeq
<1>2. <<"boundary", "choose">> \o <<"reactLater">> = <<"boundary", "choose", "reactLater">>
  <2> DEFINE S == {"boundary", "choose", "reactLater"}
             a == <<"boundary", "choose">>
             b == <<"reactLater">>
             c == <<"boundary", "choose", "reactLater">>
  <2>1. a \in Seq(S) /\ b \in Seq(S) /\ c \in Seq(S)
    OBVIOUS
  <2>2. a \o b \in Seq(S) /\ Len(a \o b) = 3
    BY <2>1, ConcatProperties
  <2>3. (a \o b)[1] = a[1] /\ (a \o b)[2] = a[2] /\ (a \o b)[3] = b[1]
    BY <2>1, ConcatProperties
  <2>4. Len(c) = 3 /\ c[1] = a[1] /\ c[2] = a[2] /\ c[3] = b[1]
    OBVIOUS
  <2>5. \A i \in 1..Len(a \o b) : (a \o b)[i] = c[i]
    BY <2>2, <2>3, <2>4
  <2> HIDE DEF a, b, c
  <2>6. a \o b = c
    BY <2>1, <2>2, <2>4, <2>5, SeqEqual
  <2> QED
    BY <2>6 DEF a, b, c
<1> QED
  BY <1>1, <1>2

LEMMA ClassicSkip ==
    ASSUME IInv, ClassicInv, Counted, UNCHANGED <<now, ruleset>>,
           NEW what, Running(what), what \notin {"onComplete", "queuedAction"},
           NEW calls, Calm(calls), Skip(calls),
           ruleset = "classic60" /\ Due => calls \o Tail(stack) \in Shapes
    PROVE  ClassicInv'
<1>1. Return(calls) /\ open' = open /\ hard' = hard
  BY DEF Skip
<1>2. stack' = calls \o Tail(stack)
  BY <1>1 DEF Return
<1>3. ~Completes(stack')
  BY <1>1, CalmReturn
<1>4. ~Completes(stack)
  BY DEF Running, Completes
<1>5. Due' => Due
  BY <1>1 DEF Due, Idle
<1>6. overtaken' = overtaken
  BY CountsNothing DEF Running
<1> QED
  BY <1>1, <1>2, <1>3, <1>4, <1>5, <1>6, ClassicFrame

LEMMA ClassicTakeDue ==
    ASSUME IInv, ClassicInv, Counted, UNCHANGED <<now, ruleset>>, Due,
           NEW what, Running(what), what \notin {"onComplete", "queuedAction"}, NEW q,
           NEW more \in {<<>>, <<"doNextAction">>}, TakeDue(q, more)
    PROVE  ClassicInv'
<1>1. /\ hard' = [hard EXCEPT !.expires = Idle] /\ open' = open
      /\ stack' = (<<"onComplete">> \o more) \o Tail(stack)
  BY DEF TakeDue, Return
<1>2. hard' = [spell |-> hard.spell, expires |-> Idle]
  BY <1>1 DEF IInv, Types
<1>3. hard'.expires = Idle
  BY <1>2
<1>4. Completes(stack')
  <2>1. stack \in Seq(Calls) /\ stack # <<>>
    BY DEF IInv, Types, Running
  <2>2. Tail(stack) \in Seq(Calls)
    BY <2>1, HeadTailProperties
  <2>3. Calm(more) /\ "onComplete" \in Calls
    BY CalmCalls DEF Calls
  <2>4. more \in Seq(Calls) /\ <<"onComplete">> \in Seq(Calls)
    BY <2>3, CalmTop
  <2> DEFINE c == <<"onComplete">> \o more
  <2>5. /\ c \in Seq(Calls) /\ Len(c) \in Nat /\ Len(c) > 0 /\ c[1] = "onComplete"
    <3>1. Len(<<"onComplete">>) = 1 /\ <<"onComplete">>[1] = "onComplete" /\ Len(more) \in Nat
      BY <2>4, LenProperties
    <3>2. /\ c \in Seq(Calls) /\ Len(c) = 1 + Len(more)
          /\ \A i \in 1..1 + Len(more) : c[i] = IF i <= 1 THEN <<"onComplete">>[i] ELSE more[i - 1]
      BY <2>4, <3>1, ConcatProperties
    <3> QED
      BY <3>1, <3>2
  <2> HIDE DEF c
  <2>6. /\ stack' = c \o Tail(stack) /\ Len(Tail(stack)) \in Nat
    BY <1>1, <2>2, LenProperties DEF c
  <2>7. /\ stack' \in Seq(Calls) /\ Len(stack') = Len(c) + Len(Tail(stack))
        /\ stack'[1] = c[1]
    <3>1. /\ c \o Tail(stack) \in Seq(Calls) /\ Len(c \o Tail(stack)) = Len(c) + Len(Tail(stack))
          /\ \A i \in 1..Len(c) + Len(Tail(stack)) :
               (c \o Tail(stack))[i] = IF i <= Len(c) THEN c[i] ELSE Tail(stack)[i - Len(c)]
      BY <2>2, <2>5, ConcatProperties
    <3>2. 1 \in 1..Len(c) + Len(Tail(stack)) /\ 1 <= Len(c)
      BY <2>5, <2>6
    <3> QED
      BY <2>6, <3>1, <3>2
  <2>8. stack' # <<>>
    BY <2>5, <2>6, <2>7, EmptySeq
  <2> QED
    BY <2>5, <2>7, <2>8 DEF Completes
<1>5. ~Completes(stack) /\ hard.expires # Idle
  BY DEF Running, Completes, Due
<1>6. Ongoing' = 1 /\ Ongoing = 1
  BY <1>3, <1>4, <1>5 DEF Ongoing, Idle
<1>7. ~Due'
  BY <1>3 DEF Due, Idle
<1>8. overtaken' = overtaken
  BY CountsNothing DEF Running
<1> QED
  BY <1>1, <1>6, <1>7, <1>8 DEF ClassicInv

\* A spell with a cast time that is cast while another cast is due is a queued one,
\* and counted.
LEMMA ClassicCast ==
    ASSUME IInv, AgendaInv, WaitInv, ClassicInv, overtaken \in Nat, Counted,
           UNCHANGED <<now, ruleset>>,
           NEW what \in {"queuedAction", "choose"}, Running(what), NEW s \in Spells,
           NEW more \in {<<>>, <<"choose">>},
           what = "queuedAction" => more = <<>> /\ s = queued.spell,
           Cast(s, more)
    PROVE  ClassicInv'
<1> DEFINE begins == CastPasses(s) /\ CastTime[s] > 0
<1>1. PICK calls \in {more, <<"effects">> \o more} : Return(calls)
  BY DEF Cast, Start
<1>2. Calm(calls)
  <2>1. "effects" \in Calls /\ Calm(more)
    BY CalmCalls DEF Calls
  <2> QED
    BY <2>1, CallBefore
<1>3. ~Completes(stack') /\ ~Completes(stack) /\ stack' = calls \o Tail(stack)
  BY <1>1, <1>2, CalmReturn DEF Running, Completes, Return
<1>4. /\ hard' = IF begins THEN [spell |-> s, expires |-> now + CastTime[s]] ELSE hard
      /\ open' = IF begins THEN open + 1 ELSE open
  BY DEF Cast, Start
<1>5. now \in Nat /\ CastTime[s] \in Nat /\ hard.expires \in Nat \cup {Idle}
  BY SpellTimes DEF IInv, Types, AgendaInv, Ranges
<1>6. ASSUME ruleset = "classic60", Due
      PROVE  what = "queuedAction" /\ stack' \in Shapes
  <2>1. stack \in Shapes
    BY <1>6 DEF ClassicInv
  <2>2. what = "queuedAction" /\ Tail(stack) = <<>> /\ more = <<>>
    BY <2>1, ShapeFacts
  <2>3. stack' \in {<<>>, <<"effects">>}
    BY <1>3, <2>2, ShapesMade
  <2> QED
    BY <2>2, <2>3 DEF Shapes
<1>7. CASE begins
  <2>1. ~Casting
    BY <1>7 DEF CastPasses, CanCast
  <2>2. hard'.expires = now + CastTime[s] /\ open' = open + 1
    BY <1>4, <1>7
  <2>3. hard'.expires # Idle /\ ~(hard'.expires <= now)
    BY <1>5, <1>7, <2>2 DEF Idle
  <2>4. Ongoing' = 1 /\ ~Due'
    BY <1>3, <2>3 DEF Ongoing, Due, Idle
  <2>5. ASSUME ruleset = "classic60", Due PROVE open' = Ongoing' + overtaken'
    <3>1. Running("queuedAction") /\ s = queued.spell
      BY <1>6, <2>5
    <3>2. Makes(stack, "queuedAction")
      <4>1. stack \in Seq(Calls) /\ stack # <<>> /\ stack[1] = "queuedAction"
        BY <3>1 DEF Running, IInv, Types
      <4>2. 1 \in 1..Len(stack)
        BY <4>1, EmptySeq, LenProperties
      <4> QED
        BY <4>1, <4>2 DEF Makes
    <3>3. hard.expires # Idle /\ hard.expires > queued.behind
      BY <2>5, <3>2 DEF WaitInv, Due
    <3>4. overtaken' = overtaken + 1
      BY <1>7, <2>5, <3>1, <3>3 DEF Counted, Overtakes
    <3>5. open = 1 + overtaken
      BY <1>3, <2>5, <3>3 DEF ClassicInv, Ongoing
    <3> QED
      BY <2>2, <2>4, <3>4, <3>5
  <2>6. ASSUME ruleset = "classic60", ~Due PROVE open' = Ongoing' + overtaken'
    <3>1. hard.expires = Idle
      BY <1>5, <2>1, <2>6 DEF Casting, Due
    <3>2. overtaken' = overtaken
      BY <2>6 DEF Counted, Overtakes
    <3>3. open = 0 + overtaken
      BY <1>3, <2>6, <3>1 DEF ClassicInv, Ongoing
    <3> QED
      BY <2>2, <2>4, <3>2, <3>3
  <2> QED
    BY <2>4, <2>5, <2>6 DEF ClassicInv
<1>8. CASE ~begins
  <2>1. hard' = hard /\ open' = open
    BY <1>4, <1>8
  <2>2. Due' => Due
    BY <2>1 DEF Due, Idle
  <2>3. overtaken' = overtaken
    <3>1. CASE what = "queuedAction"
      BY <1>8, <3>1 DEF Counted, Overtakes
    <3>2. CASE what = "choose"
      BY <3>2, CountsNothing DEF Running
    <3> QED
      BY <3>1, <3>2
  <2> QED
    BY <1>3, <1>6, <2>1, <2>2, <2>3, ClassicFrame
<1> QED
  BY <1>7, <1>8

LEMMA ClassicCall ==
    ASSUME IInv, AgendaInv, WaitInv, ClassicInv, overtaken \in Nat, Counted, Call,
           UNCHANGED <<now, ruleset>>
    PROVE  ClassicInv'
<1>0. /\ Calm(<<>>) /\ Calm(<<"doNextAction">>) /\ Calm(<<"boundary", "choose">>)
      /\ Calm(<<"reactToEvent">>) /\ Calm(<<"doNextAction", "reactLater">>)
  BY CalmCalls DEF Calls
<1>1. ruleset = "classic60" /\ Due => stack \in Shapes
  BY DEF ClassicInv
<1>2. CASE RotationAction
  <2>1. Running("rotationAction")
    BY <1>2 DEF RotationAction
  <2>2. CASE Due
    <3>1. TakeDue(agenda, <<"doNextAction">>)
      BY <1>2, <2>2 DEF RotationAction
    <3> QED
      BY <2>1, <2>2, <3>1, ClassicTakeDue
  <2>3. CASE ~Due
    <3>1. Skip(<<"doNextAction">>)
      BY <1>2, <2>3 DEF RotationAction
    <3> QED
      BY <1>0, <2>1, <2>3, <3>1, ClassicSkip
  <2> QED
    BY <2>2, <2>3
<1>3. CASE HardcastAction
  <2>1. Running("hardcastAction")
    BY <1>3 DEF HardcastAction
  <2>2. CASE Due
    <3>1. TakeDue(agenda, <<>>)
      BY <1>3, <2>2 DEF HardcastAction
    <3> QED
      BY <2>1, <2>2, <3>1, ClassicTakeDue
  <2>3. CASE ~Due
    <3>1. Skip(<<>>)
      BY <1>3, <2>3 DEF HardcastAction
    <3> QED
      BY <1>0, <2>1, <2>3, <3>1, ClassicSkip
  <2> QED
    BY <2>2, <2>3
<1>4. CASE QueuedAction
  <2>1. Running("queuedAction") /\ Cast(queued.spell, <<>>)
    BY <1>4 DEF QueuedAction
  <2>2. queued.spell \in Spells
    <3>1. stack \in Seq(Calls) /\ stack # <<>> /\ stack[1] = "queuedAction"
      BY <2>1 DEF Running, IInv, Types
    <3>2. 1 \in 1..Len(stack)
      BY <3>1, EmptySeq, LenProperties
    <3>3. Makes(stack, "queuedAction")
      BY <3>1, <3>2 DEF Makes
    <3> QED
      BY <3>3 DEF AgendaInv, QueueInv
  <2> QED
    BY <2>1, <2>2, ClassicCast
<1>5. CASE Boundary
  <2>1. Running("boundary")
    BY <1>5 DEF Boundary
  <2>2. CASE ruleset = "classic60" /\ Due
    <3>1. TakeDue(Unscheduled(agenda, "hardcast"), <<>>)
      BY <1>5, <2>2 DEF Boundary
    <3> QED
      BY <2>1, <2>2, <3>1, ClassicTakeDue
  <2>3. CASE ~(ruleset = "classic60" /\ Due)
    <3>1. Skip(<<>>)
      BY <1>5, <2>3 DEF Boundary
    <3> QED
      BY <1>0, <2>1, <2>3, <3>1, ClassicSkip
  <2> QED
    BY <2>2, <2>3
<1>6. CASE OnComplete
  <2>1. /\ Running("onComplete") /\ open' = open - 1 /\ hard' = hard
        /\ \E calls \in {<<>>, <<"effects">>} : Return(calls)
    BY <1>6 DEF OnComplete
  <2>2. PICK calls \in {<<>>, <<"effects">>} : Return(calls)
    BY <2>1
  <2>3. Calm(calls)
    BY CalmCalls DEF Calls
  <2>4. ~Completes(stack')
    BY <2>1, <2>2, <2>3, CalmReturn
  <2>5. Completes(stack) /\ hard.expires = Idle
    BY <2>1 DEF Running, Completes, IInv, TopInv
  <2>6. Ongoing = 1 /\ Ongoing' = 0 /\ ~Due'
    BY <2>1, <2>4, <2>5 DEF Ongoing, Due, Idle
  <2>7. overtaken' = overtaken
    BY <2>1, CountsNothing DEF Running
  <2> QED
    BY <2>1, <2>6, <2>7 DEF ClassicInv
<1>7. CASE Effects
  <2>1. Running("effects") /\ (Skip(<<>>) \/ Skip(<<"reactToEvent">>))
    BY <1>7 DEF Effects
  <2>2. ruleset = "classic60" /\ Due =>
           <<>> \o Tail(stack) \in Shapes /\ <<"reactToEvent">> \o Tail(stack) \in Shapes
    BY <1>1, <2>1, ShapeFacts, ShapesMade DEF Shapes
  <2> QED
    BY <1>0, <2>1, <2>2, ClassicSkip
<1>8. CASE DoNextAction
  <2>1. Running("doNextAction")
    BY <1>8 DEF DoNextAction
  <2>2. CASE inLoop
    <3>1. Skip(<<>>)
      BY <1>8, <2>2 DEF DoNextAction
    <3>2. Makes(stack, "choose")
      BY <2>2 DEF AgendaInv, LoopInv
    <3>3. ~(ruleset = "classic60" /\ Due)
      BY <1>1, <2>1, <3>2, ShapeFacts
    <3> QED
      BY <1>0, <2>1, <3>1, <3>3, ClassicSkip
  <2>3. CASE ~inLoop
    <3>1. Skip(<<"boundary", "choose">>)
      BY <1>8, <2>3 DEF DoNextAction
    <3>2. ruleset = "classic60" /\ Due => <<"boundary", "choose">> \o Tail(stack) \in Shapes
      BY <1>1, <2>1, ShapeFacts, ShapesMade DEF Shapes
    <3> QED
      BY <1>0, <2>1, <3>1, <3>2, ClassicSkip
  <2> QED
    BY <2>2, <2>3
<1>9. ASSUME NEW what, what \in {"choose", "reactLater", "swing"}, Running(what)
      PROVE  ~(ruleset = "classic60" /\ Due)
  BY <1>1, <1>9, ShapeFacts
<1>10. ASSUME Running("choose"), UNCHANGED <<hard, stack, open>> PROVE ClassicInv'
  <2>0. ~Completes(stack) /\ overtaken' = overtaken
    BY <1>10, CountsNothing DEF Running, Completes
  <2>1. Due' => Due
    BY <1>10 DEF Due, Idle
  <2>2. ~Completes(stack')
    BY <1>10, <2>0 DEF Completes
  <2> QED
    BY <1>1, <1>10, <2>0, <2>1, <2>2, ClassicFrame
<1>11. ASSUME NEW what, what \in {"choose", "reactLater"}, Running(what), Return(<<>>),
              UNCHANGED <<hard, open>>
       PROVE  ClassicInv'
  <2>1. ~Completes(stack') /\ ~Completes(stack)
    BY <1>0, <1>11, CalmReturn DEF Running, Completes
  <2>2. Due' => Due
    BY <1>11 DEF Due, Idle
  <2>3. overtaken' = overtaken
    BY <1>11, CountsNothing DEF Running
  <2> QED
    BY <1>9, <1>11, <2>1, <2>2, <2>3, ClassicFrame
<1>12. CASE StartChoosing
  <2>1. Running("choose")
    BY <1>12 DEF StartChoosing
  <2>2. CASE wakeAt <= now
    BY <1>10, <1>12, <2>1, <2>2 DEF StartChoosing
  <2>3. CASE ~(wakeAt <= now)
    <3>1. Skip(<<>>)
      BY <1>12, <2>3 DEF StartChoosing
    <3> QED
      BY <1>11, <2>1, <3>1 DEF Skip
  <2> QED
    BY <2>2, <2>3
<1>13. CASE ChooseNothing
  BY <1>11, <1>13 DEF ChooseNothing
<1>14. CASE ReactToEvent
  <2>1. Running("reactToEvent") /\ Skip(<<"doNextAction", "reactLater">>)
    BY <1>14 DEF ReactToEvent
  <2>2. ruleset = "classic60" /\ Due => <<"doNextAction", "reactLater">> \o Tail(stack) \in Shapes
    BY <1>1, <2>1, ShapeFacts, ShapesMade DEF Shapes
  <2> QED
    BY <1>0, <2>1, <2>2, ClassicSkip
<1>15. CASE ReactLater
  BY <1>11, <1>15 DEF ReactLater
<1>16. CASE Swing
  <2>1. Running("swing") /\ (Skip(<<>>) \/ Skip(<<"reactToEvent">>))
    BY <1>16 DEF Swing
  <2> QED
    BY <1>0, <1>9, <2>1, ClassicSkip
<1>17. ASSUME NEW s \in Spells, ChooseCast(s) PROVE ClassicInv'
  <2>1. Running("choose") /\ Cast(s, <<"choose">>)
    BY <1>17 DEF ChooseCast
  <2> QED
    BY <2>1, ClassicCast
<1>18. ASSUME NEW s \in Spells, ChooseQueue(s) PROVE ClassicInv'
  <2>1. Running("choose") /\ UNCHANGED <<hard, stack, open>>
    BY <1>18 DEF ChooseQueue
  <2> QED
    BY <1>10, <2>1
<1> QED
  BY <1>2, <1>3, <1>4, <1>5, <1>6, <1>7, <1>8, <1>12, <1>13, <1>14, <1>15, <1>16, <1>17, <1>18
     DEF Call

LEMMA ClassicInductive ==
    IInv /\ AgendaInv /\ WaitInv /\ ClassicInv /\ overtaken \in Nat /\ [Next]_vars => ClassicInv'
<1> SUFFICES ASSUME IInv, AgendaInv, WaitInv, ClassicInv, overtaken \in Nat, [Next]_vars
             PROVE  ClassicInv'
  OBVIOUS
<1>0. /\ <<"rotationAction">> \in Shapes /\ <<"hardcastAction">> \in Shapes
      /\ <<"queuedAction">> \in Shapes /\ <<"reactToEvent">> \in Shapes
      /\ <<"boundary", "swing">> \in Shapes /\ <<>> \in Shapes
  BY DEF Shapes
<1>1. CASE Call /\ Counted /\ UNCHANGED <<now, ruleset>>
  BY <1>1, ClassicCall
<1> DEFINE Same == overtaken' = overtaken /\ ruleset' = ruleset
<1>2. CASE Step /\ Same
  <2>1. Quiet /\ UNCHANGED <<hard, open>> /\ stack' = <<Perform(agenda[1].what)>>
    BY <1>2 DEF Step
  <2>2. Perform(agenda[1].what) \in {"rotationAction", "hardcastAction", "queuedAction"}
    BY DEF Perform
  <2>3. stack' \in {<<"rotationAction">>, <<"hardcastAction">>, <<"queuedAction">>}
    BY <2>1, <2>2
  <2>4. ~Completes(stack) /\ ~Completes(stack') /\ stack' \in Shapes
    BY <1>0, <2>1, <2>3 DEF Quiet, Completes
  <2> QED
    BY <1>2, <2>1, <2>4, ClassicFrame
<1>3. CASE (Event(<<"reactToEvent">>) \/ Event(<<"boundary", "swing">>)) /\ Same
  <2>1. /\ Quiet /\ UNCHANGED <<hard, open>>
        /\ stack' \in {<<"reactToEvent">>, <<"boundary", "swing">>}
    BY <1>3 DEF Event
  <2>2. ~Completes(stack) /\ ~Completes(stack') /\ stack' \in Shapes
    BY <1>0, <2>1 DEF Quiet, Completes
  <2> QED
    BY <1>3, <2>1, <2>2, ClassicFrame
<1>4. CASE Hit /\ Same
  <2>1. PICK t : ClockTo(t) /\ hard.expires > t
    BY <1>4 DEF Hit
  <2>2. /\ Quiet /\ hard' = [hard EXCEPT !.expires = hard.expires + Pushback]
        /\ UNCHANGED <<open, stack>>
    BY <1>4 DEF Hit
  <2>3. t \in Nat /\ hard.expires \in Nat \cup {Idle} /\ Pushback \in Nat
    BY <2>1, <2>2, QuietClock, CastAssumption DEF AgendaInv, Ranges
  <2>4. hard' = [spell |-> hard.spell, expires |-> hard.expires + Pushback]
    BY <2>2 DEF IInv, Types
  <2>5. hard'.expires # Idle /\ hard.expires # Idle
    BY <2>1, <2>3, <2>4 DEF Idle
  <2>6. ~Completes(stack) /\ ~Completes(stack') /\ stack' \in Shapes
    BY <1>0, <2>2 DEF Quiet, Completes
  <2> QED
    BY <1>4, <2>2, <2>5, <2>6, ClassicFrame
<1>5. CASE Interrupt /\ Same
  <2>1. PICK t : /\ ClockTo(t)
                 /\ IF hard.expires > t
                    THEN hard' = [hard EXCEPT !.expires = Idle] /\ open' = open - 1
                    ELSE UNCHANGED <<hard, open>>
    BY <1>5 DEF Interrupt
  <2>2. Quiet /\ stack' = stack
    BY <1>5 DEF Interrupt
  <2>3. ~Completes(stack) /\ ~Completes(stack') /\ stack' \in Shapes
    BY <1>0, <2>2 DEF Quiet, Completes
  <2>4. t \in Nat
    BY <2>1, <2>2, QuietClock
  <2>5. CASE hard.expires > t
    <3>1. hard' = [spell |-> hard.spell, expires |-> Idle] /\ open' = open - 1
      BY <2>1, <2>5 DEF IInv, Types
    <3>2. hard'.expires = Idle /\ hard.expires # Idle
      BY <2>4, <2>5, <3>1 DEF Idle
    <3>3. Ongoing = 1 /\ Ongoing' = 0 /\ ~Due'
      BY <2>3, <3>2 DEF Ongoing, Due, Idle
    <3> QED
      BY <1>5, <3>1, <3>3 DEF ClassicInv
  <2>6. CASE ~(hard.expires > t)
    BY <1>5, <2>1, <2>3, <2>6, ClassicFrame
  <2> QED
    BY <2>5, <2>6
<1>6. CASE UNCHANGED vars
  BY <1>6 DEF vars, ClassicInv, Ongoing, Due, Idle, Completes
<1>7. ASSUME Next PROVE Counted /\ ruleset' = ruleset /\ (Quiet => Same)
  <2>1. Counted /\ ruleset' = ruleset
    BY <1>7 DEF Next, Counted
  <2> QED
    BY <2>1, CountsNothing DEF Quiet, Running
<1>8. Step \/ (\E c : Event(c)) \/ Hit \/ Interrupt => Quiet
  BY DEF Step, Event, Hit, Interrupt
<1> HIDE DEF Same
<1> QED
  BY <1>1, <1>2, <1>3, <1>4, <1>5, <1>6, <1>7, <1>8 DEF Next

LEMMA ClassicMeansOnTime == IInv /\ AgendaInv /\ ClassicInv => CastsOnTime
<1> SUFFICES ASSUME IInv, AgendaInv, ClassicInv PROVE CastsOnTime
  OBVIOUS
<1>1. EndsOnTime
  BY AgendaMeansOnTime
<1>2. Underway = Ongoing
  <2> DEFINE S == {i \in 1..Len(stack) : stack[i] = "onComplete"}
  <2>1. stack \in Seq(Calls) /\ Len(stack) \in Nat /\ OnTop(stack)
    BY LenProperties DEF IInv, Types, TopInv
  <2>2. Cardinality(S) = IF Completes(stack) THEN 1 ELSE 0
    <3>1. \A i \in S : i = 1
      <4> SUFFICES ASSUME NEW i \in S, i # 1 PROVE FALSE
        OBVIOUS
      <4>1. i \in 2..Len(stack) /\ stack[i] = "onComplete"
        BY <2>1
      <4> QED
        BY <2>1, <4>1 DEF OnTop
    <3>2. 1 \in S <=> Completes(stack)
      BY <2>1, EmptySeq DEF Completes
    <3>3. CASE Completes(stack)
      <4>1. S = {1}
        BY <3>1, <3>2, <3>3
      <4> HIDE DEF S
      <4> QED
        BY <3>3, <4>1, FS_Singleton
    <3>4. CASE ~Completes(stack)
      <4>1. S = {}
        BY <3>1, <3>2, <3>4
      <4> HIDE DEF S
      <4> QED
        BY <3>4, <4>1, FS_EmptySet
    <3> QED
      BY <3>3, <3>4
  <2> HIDE DEF S
  <2>3. Underway = (IF hard.expires # Idle THEN 1 ELSE 0) + Cardinality(S)
    BY DEF Underway, S
  <2> QED
    BY <2>2, <2>3 DEF Ongoing
<1> QED
  BY <1>1, <1>2 DEF CastsOnTime, EndsOnTime, ClassicInv

\* Under the rules of the Classic paladin every cast that begins is completed or
\* cancelled before the next begins, but for those a queued spell has overtaken after a
\* hit; and its end is on the agenda (cast.go:56, gcd.go:8, spell_queueing.go:43).
THEOREM ClassicCastsEnd == Spec => []CastsOnTime
<1>1. Init => WaitInv /\ ClassicInv
  <2> SUFFICES ASSUME Init PROVE WaitInv /\ ClassicInv
    OBVIOUS
  <2>1. /\ stack = <<>> /\ open = 0 /\ overtaken = 0
        /\ hard = [spell |-> NoSpell, expires |-> Idle]
    BY DEF Init
  <2>2. hard.expires = Idle /\ ~Completes(stack) /\ ~Makes(stack, "queuedAction")
    BY <2>1, MadeCalls DEF Completes
  <2> QED
    BY <2>1, <2>2 DEF WaitInv, ClassicInv, Ongoing, Due
<1>2. IInv /\ AgendaInv /\ ClassicInv => CastsOnTime
  BY ClassicMeansOnTime
<1>3. IInv /\ AgendaInv /\ overtaken \in Nat /\ WaitInv /\ ClassicInv /\ [Next]_vars =>
        WaitInv' /\ ClassicInv'
  BY WaitInductive, ClassicInductive
<1> QED
  BY <1>1, <1>2, <1>3, BothInvariants, PTL DEF Spec

=============================================================================
