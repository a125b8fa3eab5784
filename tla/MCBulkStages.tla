---------------------------- MODULE MCBulkStages ----------------------------
(* Constants of BulkStages for TLC.                                          *)
EXTENDS BulkStages

MCMinIterations == <<1, 1, 2>>
MCMaxSurvivors  == <<2, 1, 0>>
MCMinSurvivors  == <<1, 1, 0>>
MCStageWorkers  == <<2, 2, 1, 1>>
=============================================================================
