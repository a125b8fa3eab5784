----------------------------- MODULE MCBulkJob ------------------------------
(* Constants of BulkJob for TLC: two candidates of one gear and one of       *)
(* another, with an empty one between them, or no candidates at all; both    *)
(* gears are reforged to a third, and that one and the gear the player wears *)
(* were restored from the cache of the client.                               *)
EXTENDS BulkJob

CONSTANTS a, b, best, worn

MCRequests == {<<a, NoGear, b, a>>, <<>>}
MCRestored == <<worn, best>>
MCReforged == [g \in Gears |-> IF g \in {a, b} THEN best ELSE g]

MCMinIterations == <<1, 1, 2>>
MCMaxSurvivors  == <<1, 1, 0>>
MCMinSurvivors  == <<1, 1, 0>>
MCStageWorkers  == <<2, 2, 1, 1>>
=============================================================================
