---------------------------- MODULE MCWeaponTimers ---------------------------
(* A dual-wielding player and a boss that hits back.                          *)
EXTENDS WeaponTimers, TLC

CONSTANTS player, boss, mh, oh, bite

MCRoster == <<oh, mh, bite>>
MCHands == player :> [mh |-> mh, oh |-> oh, ranged |-> NoAttack]
        @@ boss :> [mh |-> bite, oh |-> NoAttack, ranged |-> NoAttack]
MCSpeed == mh :> 2 @@ oh :> 2 @@ bite :> 3
=============================================================================
