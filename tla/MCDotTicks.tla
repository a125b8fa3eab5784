------------------------------ MODULE MCDotTicks ------------------------------
(* A channelled spell that haste shortens and a slow prolongs, and a poison   *)
(* that gains or loses ticks instead, cast by a unit whose global cooldown is *)
(* longer than a tick.                                                        *)
EXTENDS DotTicks

CONSTANTS flay, poison
=============================================================================
