---------------------------- MODULE MCTaskManager ----------------------------
(***************************************************************************)
(* Instances of TaskManager for TLC.                                       *)
(***************************************************************************)
EXTENDS TaskManager, TLC

CONSTANTS t1, t2, c1, c2, loop, none

OneStage == <<"stage_start", "stage_end">>
NoStage  == <<>>
StageEnd == <<"stage_end">>
SymTasks == Permutations({t1, t2})
SymClients == Permutations({c1, c2})
=============================================================================
