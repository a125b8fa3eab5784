---------------------------- MODULE MCSpellCasts ----------------------------
(* A cast longer than its global cooldown, a shorter one with a cooldown, and  *)
(* an instant spell off the global cooldown.  The delay of a queued spell is 1. *)
(* The cooldown of slam is such that a hit can move the end of bolt onto the    *)
(* very instant at which a queued slam comes up: cast at 0, slam is ready at 19 *)
(* and queued for 20; bolt, cast at 8, ends at 16 and after a hit at 20.  The    *)
(* times of events lie within casts, at the end of none.                         *)
EXTENDS SpellCasts
CONSTANTS bolt, slam, trinket
MCCastTime == (bolt :> 8) @@ (slam :> 4) @@ (trinket :> 0)
MCGcd      == (bolt :> 4) @@ (slam :> 8) @@ (trinket :> 0)
MCCooldown == (bolt :> 0) @@ (slam :> 15) @@ (trinket :> 12)
MCEventTimes == {2, 6, 13, 19}
=============================================================================
