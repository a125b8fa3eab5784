---------------------------- MODULE WeaponTimers -----------------------------
(* The auto attacks of all units: the list of swing timers that the event     *)
(* loop keeps (src/sim/core/sim.go, advanceWeaponAttacks) and the operations  *)
(* that game code has on them (src/sim/core/attack.go).                       *)
(*                                                                            *)
(* The loop ranges over the slice weaponAttacks while the swings themselves   *)
(* run game code: the rotation may stop the auto attacks of a unit (Vanish,   *)
(* leaving melee range, a pet that is dismissed), start them again (breaking  *)
(* Stealth, an item swap), or move their timers.  A Go range loop keeps the   *)
(* length it began with and the backing array is shared: attacks is that      *)
(* array, listed the length of the slice, pass the loop.  The array is taken  *)
(* to be long enough for all attacks, as it is from the second iteration on,  *)
(* because reset keeps it.                                                    *)
EXTENDS Naturals, Sequences, FiniteSets, FiniteSetsExt, SequencesExt

CONSTANTS
    Roster,     \* the attacks in the order startPull adds them
    Units,
    Hands,      \* [Units -> records of attacks: main hand, off hand, ranged]
    Speed,      \* [attacks -> swing durations]
    NoAttack,
    MaxDelay,   \* bound: how far a timer is moved
    MaxTime,    \* bound: the clock
    Never       \* NeverExpires

Attacks == ToSet(Roster)
MeleeOf(u) == {Hands[u].mh, Hands[u].oh} \cap Attacks
AttacksOf(u) == MeleeOf(u) \cup ({Hands[u].ranged} \cap Attacks)

ASSUME HandsAssumption ==
    /\ Roster \in Seq(Attacks)
    /\ \A i, j \in DOMAIN Roster : Roster[i] = Roster[j] => i = j
    /\ LET Held == Attacks \cup {NoAttack}
       IN Hands \in [Units -> [mh : Held, oh : Held, ranged : Held]]
    /\ \A u \in Units :
          /\ Hands[u].mh \in Attacks => Hands[u].mh \notin {Hands[u].oh, Hands[u].ranged}
          /\ Hands[u].oh \in Attacks => Hands[u].oh # Hands[u].ranged
    /\ Speed \in [Attacks -> Nat \ {0}]
    /\ NoAttack \notin Attacks
    /\ {MaxDelay, MaxTime, Never} \subseteq Nat
    /\ \A w \in Attacks : MaxTime + MaxDelay + Speed[w] < Never

VARIABLES
    now,       \* Simulation.CurrentTime
    enabled,   \* the attacks whose WeaponAttack.enabled is set
    swingAt,   \* WeaponAttack.swingAt
    attacks,   \* Simulation.weaponAttacks, the backing array
    listed,    \* its length
    minTime,   \* Simulation.minWeaponAttackTime
    pass,      \* the range loop of advanceWeaponAttacks
    lastList   \* history: whether attacks restarted in the last pass

vars == <<now, enabled, swingAt, attacks, listed, minTime, pass, lastList>>

(* list is history: whether callbacks have stopped attacks during the pass,   *)
(* and started some afterwards.                                               *)
NoPass == [at |-> 0, upto |-> 0, cur |-> NoAttack, stage |-> "none", list |-> "kept"]

InCode == pass.stage \in {"none", "react", "cast"}

TypeOK ==
    /\ now \in 0..MaxTime
    /\ enabled \subseteq Attacks
    /\ swingAt \in [Attacks -> 0..Never]
    /\ attacks \in [DOMAIN Roster -> Attacks] /\ listed \in 0..Len(Roster)
    /\ minTime \in 0..Never
    /\ pass \in [at : 0..Len(Roster), upto : 0..Len(Roster),
                 cur : Attacks \cup {NoAttack},
                 stage : {"none", "try", "react", "cast"},
                 list : {"kept", "stopped", "restarted"}]
    /\ lastList \in {"kept", "restarted"}

-----------------------------------------------------------------------------
(* startPull: every attack in range is listed.  Off hands and random melee    *)
(* offsets make the first swings come at any time within a swing.             *)
Init ==
    /\ now = 0
    /\ enabled = Attacks
    /\ swingAt \in [Attacks -> 0..Never] /\ \A w \in Attacks : swingAt[w] <= Speed[w]
    /\ attacks = Roster
    /\ listed = Len(Roster)
    /\ minTime = Min({Never} \cup {swingAt[w] : w \in Attacks})
    /\ pass = NoPass
    /\ lastList = "kept"

-----------------------------------------------------------------------------
(* removeWeaponAttack: the last attack takes the place of the removed one.    *)
(* The array is not cleared behind the new end.                               *)
\* (mutant: the slice is not shortened)
RemoveKeeping(s, w) ==
    [s EXCEPT !.array = [i \in DOMAIN s.array |->
                            IF i <= s.len /\ s.array[i] = w THEN s.array[s.len]
                                                            ELSE s.array[i]]]

\* (mutant: the end of the slice is dropped, whichever attack should go)
RemoveLast(s, w) == [s EXCEPT !.len = @ - 1]

RemoveWeaponAttack(s, w) ==
    [array |-> [i \in DOMAIN s.array |->
                   IF i <= s.len /\ s.array[i] = w THEN s.array[s.len] ELSE s.array[i]],
     len   |-> s.len - 1]

AddWeaponAttack(s, w) ==
    [array |-> [s.array EXCEPT ![s.len + 1] = w], len |-> s.len + 1]

Slice == [array |-> attacks, len |-> listed]

Removed(s, w) == IF w \in enabled THEN RemoveWeaponAttack(s, w) ELSE s
Added(s, w) == IF w \in Attacks \ enabled THEN AddWeaponAttack(s, w) ELSE s

(* CancelAutoSwing: main hand, off hand and ranged, those that are enabled.   *)
CancelAutoSwing(u) ==
    LET hands == Hands[u]
        s == Removed(Removed(Removed(Slice, hands.mh), hands.oh), hands.ranged)
    IN /\ InCode /\ AttacksOf(u) \cap enabled # {}
       /\ enabled' = enabled \ AttacksOf(u)
       /\ attacks' = s.array /\ listed' = s.len
       /\ pass' = IF pass # NoPass /\ pass.list = "kept"
                  THEN [pass EXCEPT !.list = "stopped"] ELSE pass
       /\ UNCHANGED <<now, swingAt, minTime, lastList>>

(* rescheduleWeaponAttack for the attacks S, whose timers are now at.         *)
\* (mutant: the simulation is not told of the new timers)
RescheduleNothing(S, at) == minTime

RescheduleWeaponAttack(S, at) == Min({minTime} \cup {at[w] : w \in S})

(* EnableAutoSwing: a swing that came due meanwhile is due now; the off hand  *)
(* of who also shoots starts at half its swing.                               *)
EnableAutoSwing(u) ==
    LET hands == Hands[u]
        off == AttacksOf(u) \ enabled
        start(w) == IF w = hands.oh /\ hands.ranged \in Attacks THEN Speed[w] \div 2 ELSE 0
        s == Added(Added(Added(Slice, hands.mh), hands.oh), hands.ranged)
    IN /\ InCode
       /\ enabled' = enabled \cup off
       /\ swingAt' = [w \in Attacks |->
              IF w \in off \cup {hands.mh} THEN Max({swingAt[w], now + start(w)})
                                           ELSE swingAt[w]]
       /\ attacks' = s.array /\ listed' = s.len
       /\ minTime' = RescheduleWeaponAttack(off, swingAt')
       /\ pass' = IF pass.list = "stopped" /\ off # {}
                  THEN [pass EXCEPT !.list = "restarted"] ELSE pass
       /\ UNCHANGED <<now, lastList>>

(* Game code moves timers.  The loop is told of each one, also of those that  *)
(* now come later and of attacks that are not enabled.                        *)
MoveTimers(S, at) ==
    /\ InCode
    /\ swingAt' = [w \in Attacks |-> IF w \in S THEN at[w] ELSE swingAt[w]]
    /\ minTime' = RescheduleWeaponAttack(S, at)
    /\ UNCHANGED <<now, enabled, attacks, listed, pass, lastList>>

(* The timers start over at readyAt.                                          *)
StopMeleeUntil(u, readyAt) ==
    /\ readyAt \in now..(now + MaxDelay)
    /\ MoveTimers(MeleeOf(u), [w \in Attacks |-> readyAt + Speed[w]])

(* No swing before now + pause.                                               *)
PauseMeleeBy(u, pause) ==
    LET held == {w \in MeleeOf(u) : swingAt[w] < now + pause}
    IN MoveTimers(held, [w \in Attacks |-> now + pause])

(* A change of haste scales what is left of each enabled swing; haste halves  *)
(* it here.  Off hands follow the main hand.                                  *)
UpdateSwingTimers(u) ==
    LET on == {w \in MeleeOf(u) : Hands[u].mh \in enabled} \cap enabled
    IN MoveTimers(on, [w \in Attacks |->
           IF swingAt[w] > now THEN now + (swingAt[w] - now) \div 2 ELSE swingAt[w]])

-----------------------------------------------------------------------------
(* Step: a pending action or a task that is due before every swing, or at     *)
(* once.  Its game code follows as operations of the section above.           *)
OtherEvent(t) ==
    /\ pass = NoPass
    /\ t > now /\ t < minTime
    /\ now' = t
    /\ UNCHANGED <<enabled, swingAt, attacks, listed, minTime, pass, lastList>>

Visit(p, i) ==
    IF i > p.upto THEN NoPass
    ELSE [p EXCEPT !.at = i, !.cur = attacks[i], !.stage = "try"]

(* advanceWeaponAttacks: the clock moves to the earliest swing.               *)
StartPass ==
    /\ pass = NoPass
    /\ minTime <= MaxTime
    /\ now' = Max({now, minTime})
    /\ minTime' = Never
    /\ pass' = Visit([NoPass EXCEPT !.upto = listed], 1)
    /\ UNCHANGED <<enabled, swingAt, attacks, listed, lastList>>

Report(e) ==
    /\ minTime' = Min({minTime, e})
    /\ pass' = Visit(pass, pass.at + 1)
    /\ lastList' = IF pass' # NoPass THEN lastList
                   ELSE IF pass.list = "restarted" THEN "restarted" ELSE "kept"

Due == pass.stage = "try" /\ swingAt[pass.cur] <= now

(* trySwing: the attack is not due yet.                                       *)
NotDue ==
    /\ pass.stage = "try" /\ ~Due
    /\ Report(swingAt[pass.cur])
    /\ UNCHANGED <<now, enabled, swingAt, attacks, listed>>

(* swing under the Classic ruleset while the unit casts: the swing waits.     *)
Defer ==
    /\ Due
    /\ \E d \in 1..MaxDelay :
          /\ swingAt' = [swingAt EXCEPT ![pass.cur] = now + d]
          /\ Report(now + d)
    /\ UNCHANGED <<now, enabled, attacks, listed>>

(* swing: the rotation may react first (replaceSwing) ...                     *)
BeginSwing ==
    /\ Due
    /\ pass' = [pass EXCEPT !.stage = "react"]
    /\ UNCHANGED <<now, enabled, swingAt, attacks, listed, minTime, lastList>>

(* ... then the timer starts over and the attack is cast, with all its procs  *)
(* and the reactions to it.                                                   *)
Cast ==
    /\ pass.stage = "react"
    /\ swingAt' = [swingAt EXCEPT ![pass.cur] = now + Speed[pass.cur]]
    /\ pass' = [pass EXCEPT !.stage = "cast"]
    /\ UNCHANGED <<now, enabled, attacks, listed, minTime, lastList>>

\* (mutant: the timer of before the swing is reported)
EndSwingEarly ==
    /\ pass.stage = "cast"
    /\ pass' = Visit(pass, pass.at + 1)
    /\ UNCHANGED <<now, enabled, swingAt, attacks, listed, minTime, lastList>>

EndSwing ==
    /\ pass.stage = "cast"
    /\ Report(swingAt[pass.cur])
    /\ UNCHANGED <<now, enabled, swingAt, attacks, listed>>

-----------------------------------------------------------------------------
Next ==
    \/ \E u \in Units : CancelAutoSwing(u) \/ EnableAutoSwing(u)
    \/ \E u \in Units, t \in 0..(MaxTime + MaxDelay) : StopMeleeUntil(u, t)
    \/ \E u \in Units, d \in 1..MaxDelay : PauseMeleeBy(u, d)
    \/ \E u \in Units : UpdateSwingTimers(u)
    \/ \E t \in 0..MaxTime : OtherEvent(t)
    \/ StartPass \/ NotDue \/ Defer \/ BeginSwing \/ Cast \/ EndSwing

Spec == Init /\ [][Next]_vars

-----------------------------------------------------------------------------
(* The last pass was one in which attacks were stopped and others started.    *)
Overlooked == lastList = "restarted"

(* The list holds exactly the enabled attacks, each once, whatever is stopped *)
(* and started from within a swing (src/sim/core/attack.go:714-789).          *)
ListedOnce ==
    /\ \A w \in Attacks : w \in enabled <=> \E i \in 1..listed : attacks[i] = w
    /\ \A i, j \in 1..listed : attacks[i] = attacks[j] => i = j

(* The event loop never sleeps past a swing: outside a pass the cached time   *)
(* is not later than the timer of any enabled attack                          *)
(* (src/sim/core/sim.go:559-568).  The exception is a pass in which attacks   *)
(* were stopped and others started: the loop then overlooks the attack that   *)
(* was moved behind it.                                                       *)
AutoSwingKept ==
    pass = NoPass /\ ~Overlooked => \A w \in enabled : minTime <= swingAt[w]

(* The attacks the event loop waits for are those that are to swing.           *)
AttacksKept == ListedOnce /\ AutoSwingKept

(* A swing never comes late: it is cast at the very time of its timer, with   *)
(* the same exception.                                                        *)
SwingsOnTime ==
    [][BeginSwing /\ ~Overlooked => now = swingAt[pass.cur]]_vars

=============================================================================
