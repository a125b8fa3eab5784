---------------------------- MODULE MCAuraTracker ----------------------------
(* A player with two timed auras, one of which is permanent at times, and two *)
(* pets with one timed aura each.                                             *)
EXTENDS AuraTracker, TLC

CONSTANTS player, fox, owl, slice, subtlety, frenzy, roar

MCRoster == <<player, fox, owl>>
MCUnitOf == slice :> player @@ subtlety :> player @@ frenzy :> fox @@ roar :> owl
MCDurations == slice :> {1, 2} @@ subtlety :> {1, Never} @@ frenzy :> {2} @@ roar :> {1}
=============================================================================
