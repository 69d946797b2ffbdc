----------------------------- MODULE MCAgentChat -----------------------------
(***************************************************************************)
(* Instance of AgentChat for TLC: the two kinds of tools the gate asks the *)
(* user about, one with and one without the "session" scope.               *)
(***************************************************************************)
EXTENDS AgentChat, TLC

CONSTANTS c1, q1, q2, once, write

MCAccess == (once :> "write_once") @@ (write :> "write")
=============================================================================
