----------------------------- MODULE AuraTracker -----------------------------
(* Timed auras (src/sim/core/aura.go) and the part of the event loop that     *)
(* lets them fade (src/sim/core/sim.go, advance).                             *)
(*                                                                            *)
(* Each unit has an auraTracker with the list activeAuras of its timed auras  *)
(* and minExpires, a cache of the earliest time one of them runs out.  The    *)
(* simulation has the list of trackers and minTrackerTime, a cache over the   *)
(* caches: a clock step before that time looks at no aura at all.  When it is *)
(* reached the trackers are visited in order, and each walks its list from    *)
(* the start again after every aura it lets fade, because the callbacks of a  *)
(* fading aura may gain, refresh and remove auras of any unit and dismiss     *)
(* pets, whose trackers leave the list that is being visited.                 *)
(*                                                                            *)
(* Time is counted in small steps.  The slices of Go keep their backing array *)
(* when they shrink, and a range loop keeps the length it began with:         *)
(* trackers is the backing array and tracked its current length.              *)
EXTENDS Naturals, Sequences, FiniteSets, FiniteSetsExt

CONSTANTS
    Auras,      \* the timed and permanent auras
    Roster,     \* the units: a sequence, the permanent ones first
    Pets,       \* the units that are summoned and dismissed during the fight
    NoUnit,
    UnitOf,     \* [Auras -> units]
    Durations,  \* [Auras -> sets of durations], Never for a permanent aura
    MaxTime,    \* bound: the clock
    Never       \* NeverExpires

Units == {Roster[i] : i \in DOMAIN Roster}

ASSUME RosterAssumption ==
    /\ Roster \in Seq(Units)
    /\ \A i, j \in DOMAIN Roster : Roster[i] = Roster[j] => i = j
    /\ Pets \subseteq Units /\ Units # Pets /\ NoUnit \notin Units
    /\ \A i, j \in DOMAIN Roster : Roster[j] \notin Pets /\ i <= j => Roster[i] \notin Pets

ASSUME DurationAssumption ==
    /\ IsFiniteSet(Auras)
    /\ MaxTime \in Nat /\ Never \in Nat /\ MaxTime < Never
    /\ UnitOf \in [Auras -> Units]
    /\ \A a \in Auras : \A d \in Durations[a] :
          d \in Nat \ {0} /\ (d # Never => MaxTime + d < Never)

VARIABLES
    now,         \* Simulation.CurrentTime
    active,      \* Aura.active
    expires,     \* Aura.expires
    slot,        \* Aura.activeIndex, 0 for Inactive
    list,        \* auraTracker.activeAuras
    minExpires,  \* auraTracker.minExpires
    trackers,    \* Simulation.trackers, the backing array
    tracked,     \* its length
    minTracker,  \* Simulation.minTrackerTime
    enabled,     \* Unit.enabled
    dismissing,  \* the pet that is in Disable, expiring its auras
    pass         \* the range loop of advance: position, length, tracker, stage

auraVars    == <<active, expires, slot>>
trackerVars == <<list, minExpires>>
simVars     == <<now, trackers, tracked, minTracker, pass>>
vars        == <<auraVars, trackerVars, simVars, enabled, dismissing>>

NoPass == [at |-> 0, upto |-> 0, unit |-> NoUnit, stage |-> "none"]

MinOf(S) == Min(S \cup {Never})

(* Game code runs between two steps of the event loop, or in a callback of an *)
(* aura that is just fading.                                                  *)
InCode == pass.stage \in {"none", "code"}

Tracked(u) == \E i \in 1..tracked : trackers[i] = u

TypeOK ==
    /\ now \in 0..MaxTime
    /\ active \in [Auras -> BOOLEAN]
    /\ expires \in [Auras -> 0..Never]
    /\ slot \in [Auras -> 0..Cardinality(Auras)]
    /\ list \in [Units -> Seq(Auras)]
    /\ minExpires \in [Units -> 0..Never] /\ minTracker \in 0..Never
    /\ trackers \in [DOMAIN Roster -> Units] /\ tracked \in 0..Len(Roster)
    /\ enabled \in [Units -> BOOLEAN]
    /\ dismissing \in Pets \cup {NoUnit}
    /\ pass \in [at : 0..Len(Roster), upto : 0..Len(Roster),
                 unit : Units \cup {NoUnit}, stage : {"none", "try", "code"}]

-----------------------------------------------------------------------------
Init ==
    /\ now = 0
    /\ active = [a \in Auras |-> FALSE]
    /\ expires = [a \in Auras |-> 0]
    /\ slot = [a \in Auras |-> 0]
    /\ list = [u \in Units |-> <<>>]
    /\ minExpires = [u \in Units |-> Never]
    /\ trackers = Roster
    /\ tracked = Cardinality(Units \ Pets)
    /\ minTracker = Never
    /\ enabled = [u \in Units |-> u \notin Pets]
    /\ dismissing = NoUnit
    /\ pass = NoPass

-----------------------------------------------------------------------------
\* (mutant: the simulation is not told of an earlier deadline)
RefreshQuietly(a, d) ==
    LET u == UnitOf[a]
        e == IF d = Never THEN Never ELSE now + d
    IN /\ expires' = [expires EXCEPT ![a] = e]
       /\ minExpires' = [minExpires EXCEPT ![u] = IF e < @ THEN e ELSE @]
       /\ minTracker' = minTracker

(* Aura.Refresh: a new deadline, which both caches must not miss.             *)
Refresh(a, d) ==
    LET u == UnitOf[a]
        e == IF d = Never THEN Never ELSE now + d
        sooner == e < minExpires[u]
    IN /\ expires' = [expires EXCEPT ![a] = e]
       /\ minExpires' = [minExpires EXCEPT ![u] = IF sooner THEN e ELSE @]
       /\ minTracker' = IF sooner THEN MinOf({minTracker, e}) ELSE minTracker

(* The bookkeeping of a timed aura in Activate.                               *)
Enlist(a, d) ==
    LET u == UnitOf[a]
    IN IF d = Never THEN UNCHANGED <<list, slot>>
       ELSE /\ list' = [list EXCEPT ![u] = Append(@, a)]
            /\ slot' = [slot EXCEPT ![a] = Len(list[u]) + 1]

\* (mutant: the aura that moved keeps its old index)
UnlistOnly(a) ==
    LET u == UnitOf[a]
        moved == list[u][Len(list[u])]
        rest == SubSeq(list[u], 1, Len(list[u]) - 1)
    IN IF slot[a] = 0 THEN UNCHANGED <<list, slot>>
       ELSE /\ list' = [list EXCEPT ![u] = [i \in DOMAIN rest |->
                            IF i = slot[a] THEN moved ELSE rest[i]]]
            /\ slot' = [slot EXCEPT ![a] = 0]

(* ... and in Deactivate: removeBySwappingToBack, and the aura that moved     *)
(* into the gap learns its new place.                                         *)
Unlist(a) ==
    LET u == UnitOf[a]
        moved == list[u][Len(list[u])]
        rest == SubSeq(list[u], 1, Len(list[u]) - 1)
    IN IF slot[a] = 0 THEN UNCHANGED <<list, slot>>
       ELSE /\ list' = [list EXCEPT ![u] = [i \in DOMAIN rest |->
                            IF i = slot[a] THEN moved ELSE rest[i]]]
            /\ slot' = [slot EXCEPT ![moved] = slot[a], ![a] = 0]

Deactivate(a) ==
    /\ active' = [active EXCEPT ![a] = FALSE]
    /\ expires' = [expires EXCEPT ![a] = 0]
    /\ Unlist(a)

(* Aura.Activate by game code.  An aura that is active already is refreshed.  *)
(* The code never turns an active permanent aura into a timed one: Stealth    *)
(* deactivates Master of Subtlety first, Misery keeps the longer duration.    *)
Gain(a) ==
    /\ InCode
    /\ \E d \in Durations[a] :
          /\ Refresh(a, d)
          /\ IF active[a]
             THEN /\ slot[a] # 0 \/ d = Never
                  /\ UNCHANGED <<active, list, slot>>
             ELSE /\ active' = [active EXCEPT ![a] = TRUE]
                  /\ Enlist(a, d)
    /\ UNCHANGED <<now, trackers, tracked, enabled, dismissing, pass>>

(* Aura.Deactivate by game code.                                              *)
Remove(a) ==
    /\ InCode /\ active[a]
    /\ Deactivate(a)
    /\ UNCHANGED <<now, minExpires, trackers, tracked, minTracker, enabled,
                   dismissing, pass>>

-----------------------------------------------------------------------------
(* Pet.Enable ends with addTracker.  Pets are summoned by spells, never by a  *)
(* fading aura.                                                               *)
EnablePet(u) ==
    /\ pass = NoPass /\ dismissing = NoUnit
    /\ ~enabled[u]
    /\ enabled' = [enabled EXCEPT ![u] = TRUE]
    /\ trackers' = [trackers EXCEPT ![tracked + 1] = u]
    /\ tracked' = tracked + 1
    /\ minTracker' = MinOf({minTracker, minExpires[u]})
    /\ UNCHANGED <<now, auraVars, trackerVars, dismissing, pass>>

(* Pet.Disable, as a pending action or from a fading aura (the Fire Elemental *)
(* totem): expireAll lets the timed auras fade one by one, with callbacks,    *)
(* and then the tracker leaves the list.                                      *)
DisablePet(u) ==
    /\ InCode /\ dismissing = NoUnit
    /\ enabled[u]
    /\ enabled' = [enabled EXCEPT ![u] = FALSE]
    /\ dismissing' = u
    /\ UNCHANGED <<now, auraVars, trackerVars, trackers, tracked,
                   minTracker, pass>>

ExpireAllFade ==
    /\ dismissing # NoUnit
    /\ list[dismissing] # <<>>
    /\ Deactivate(list[dismissing][1])
    /\ UNCHANGED <<now, minExpires, trackers, tracked, minTracker, enabled,
                   dismissing, pass>>

\* (mutant: the last tracker is dropped, whichever should go)
RemoveTrackerShifting(u) ==
    /\ trackers' = trackers
    /\ tracked' = tracked - 1

\* (mutant: the slice is not shortened)
RemoveTrackerKeeping(u) ==
    /\ trackers' = [i \in DOMAIN trackers |->
            IF i <= tracked /\ trackers[i] = u THEN trackers[tracked] ELSE trackers[i]]
    /\ tracked' = tracked

RemoveTracker(u) ==
    /\ trackers' = [i \in DOMAIN trackers |->
            IF i <= tracked /\ trackers[i] = u THEN trackers[tracked] ELSE trackers[i]]
    /\ tracked' = tracked - 1

ExpireAllDone ==
    /\ dismissing # NoUnit
    /\ list[dismissing] = <<>>
    /\ minExpires' = [minExpires EXCEPT ![dismissing] = Never]
    /\ RemoveTracker(dismissing)
    /\ dismissing' = NoUnit
    /\ UNCHANGED <<now, active, expires, slot, list, minTracker, enabled, pass>>

-----------------------------------------------------------------------------
(* Simulation.advance: the clock moves to the next event, and the trackers    *)
(* are visited if the earliest cached time is reached.                        *)
Visit(i, n) ==
    IF i > n THEN NoPass
    ELSE [at |-> i, upto |-> n, unit |-> trackers[i], stage |-> "try"]

Advance(t) ==
    /\ pass = NoPass /\ dismissing = NoUnit
    /\ t > now
    /\ now' = t
    /\ IF t >= minTracker
       THEN minTracker' = Never /\ pass' = Visit(1, tracked)
       ELSE UNCHANGED <<minTracker, pass>>
    /\ UNCHANGED <<active, expires, slot, list, minExpires, trackers, tracked,
                   enabled, dismissing>>

(* The loop of advance takes the minimum over what the trackers return.       *)
Report(e) ==
    /\ minTracker' = MinOf({minTracker, e})
    /\ pass' = Visit(pass.at + 1, pass.upto)

(* tryAdvance: nothing of this unit can have run out.                         *)
SkipTracker ==
    /\ pass.stage = "try"
    /\ now < minExpires[pass.unit]
    /\ Report(minExpires[pass.unit])
    /\ UNCHANGED <<now, auraVars, trackerVars, trackers, tracked,
                   enabled, dismissing>>

\* (mutant: an off-by-one deadline)
ExpiredStrictly(u, i) == expires[list[u][i]] < now

Expired(u, i) == expires[list[u][i]] <= now

(* auraTracker.advance, from its label restart: minExpires is recomputed on   *)
(* the way, and only the walk that meets no expired aura completes it.        *)
Walking ==
    \/ pass.stage = "try" /\ minExpires[pass.unit] <= now
    \/ pass.stage = "code" /\ dismissing = NoUnit

WalkFade ==
    /\ Walking
    /\ LET u == pass.unit
       IN \E i \in DOMAIN list[u] :
             /\ Expired(u, i) /\ \A j \in 1..(i - 1) : ~Expired(u, j)
             /\ minExpires' = [minExpires EXCEPT ![u] =
                    MinOf({expires[list[u][j]] : j \in 1..(i - 1)})]
             /\ Deactivate(list[u][i])
    /\ pass' = [pass EXCEPT !.stage = "code"]
    /\ UNCHANGED <<now, trackers, tracked, minTracker, enabled, dismissing>>

WalkDone ==
    /\ Walking
    /\ LET u == pass.unit
           e == MinOf({expires[list[u][j]] : j \in DOMAIN list[u]})
       IN /\ \A i \in DOMAIN list[u] : ~Expired(u, i)
          /\ minExpires' = [minExpires EXCEPT ![u] = e]
          /\ Report(e)
    /\ UNCHANGED <<now, active, expires, slot, list, trackers, tracked, enabled,
                   dismissing>>

-----------------------------------------------------------------------------
Next ==
    \/ \E a \in Auras : Gain(a) \/ Remove(a)
    \/ \E u \in Pets : EnablePet(u) \/ DisablePet(u)
    \/ ExpireAllFade \/ ExpireAllDone
    \/ \E t \in 0..MaxTime : Advance(t)
    \/ SkipTracker \/ WalkFade \/ WalkDone

Spec == Init /\ [][Next]_vars

-----------------------------------------------------------------------------
(* The list of a unit and the indices its auras carry agree through every     *)
(* swap, whatever is removed from within a callback, and an aura that is      *)
(* active but on no list is a permanent one (src/sim/core/aura.go:811).       *)
SlotsAgree ==
    /\ \A a \in Auras :
          IF slot[a] = 0 THEN active[a] => expires[a] = Never
          ELSE /\ active[a] /\ slot[a] \in DOMAIN list[UnitOf[a]]
               /\ list[UnitOf[a]][slot[a]] = a
    /\ \A u \in Units : \A i \in DOMAIN list[u] :
          UnitOf[list[u][i]] = u /\ slot[list[u][i]] = i

(* Exactly the enabled units are tracked, each once, except a pet that is     *)
(* still expiring its auras (src/sim/core/pet.go:301 and 452).                *)
TrackedOnce ==
    /\ \A u \in Units : Tracked(u) <=> (enabled[u] \/ dismissing = u)
    /\ \A i, j \in 1..tracked : trackers[i] = trackers[j] => i = j

(* The lists the simulation walks: those of the units and that of the        *)
(* trackers, whatever a callback adds, removes or dismisses.                  *)
ListsAgree == SlotsAgree /\ TrackedOnce

(* The caches may be too low but never too high (src/sim/core/aura.go:425):   *)
(* outside the tracker pass minTrackerTime is a lower bound of the minExpires *)
(* of every tracker on the list, and minExpires of every timed aura.          *)
CachesCover ==
    pass = NoPass =>
       /\ \A i \in 1..tracked : minTracker <= minExpires[trackers[i]]
       /\ \A u \in Units : \A i \in DOMAIN list[u] : minExpires[u] <= expires[list[u][i]]

(* Once the clock stands and its trackers are done, no game code finds an     *)
(* aura of a player or a target active at or after the time it runs out.      *)
NoExpiredAura ==
    pass = NoPass =>
       \A a \in Auras : active[a] /\ UnitOf[a] \notin Pets => now < expires[a]
=============================================================================
