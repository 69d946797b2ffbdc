-------------------------- MODULE ApprovalProtocol --------------------------
(***************************************************************************)
(* What the agent chat promises about tool calls (app/agent_chat,          *)
(* contracts.py, PermissionGate): a tool that writes runs only if the      *)
(* analyst said so, for this call or for this tool in this chat; an answer *)
(* is final; a chat that is over allows nothing any more.                  *)
(***************************************************************************)
EXTENDS Naturals

CONSTANTS Chat, Call, Tool, Access, None

Answer == {"once", "chat", "deny"}    (* what the analyst can say to a call *)
Free   == {t \in Tool : Access[t] = "read"}
Never  == {t \in Tool : Access[t] = "never"}
(* An approval of these never covers another call.                         *)
Once   == {t \in Tool : Access[t] = "write_once"}

VARIABLES
  call,  (* call[q]: its state, chat and tool                              *)
  said,  (* said[q]: what the analyst has said to call q                   *)
  over   (* chats that are over                                            *)

vars == <<call, said, over>>

Idle == [st |-> "idle", chat |-> None, tool |-> None]
Become(q, c, t, st) ==
  call' = [call EXCEPT ![q] = [st |-> st, chat |-> c, tool |-> t]]
Settle(qs, st) ==
  call' = [q \in Call |-> IF q \in qs THEN [call[q] EXCEPT !.st = st]
                          ELSE call[q]]
Asked(c) == {q \in Call : call[q].st = "asked" /\ call[q].chat = c}
(* The analyst has allowed t for the whole of chat c.                      *)
Standing(c, t) ==
  /\ t \notin Once
  /\ \E q \in Call : /\ call[q].st = "allowed" /\ "chat" \in said[q]
                     /\ call[q].chat = c /\ call[q].tool = t

Init ==
  /\ call = [q \in Call |-> Idle]
  /\ said = [q \in Call |-> {}]
  /\ over = {}

(* The agent calls a tool: allowed, denied or asked about.                 *)
Request(q, c, t) ==
  /\ call[q] = Idle
  /\ \/ /\ t \in Free \/ (c \notin over /\ t \notin Never /\ Standing(c, t))
        /\ Become(q, c, t, "allowed")
     \/ /\ t \in Never \/ c \in over
        /\ Become(q, c, t, "denied")
     \/ /\ t \notin Free \cup Never /\ c \notin over
        /\ Become(q, c, t, "asked")
  /\ UNCHANGED <<said, over>>

Say(q, a) ==
  /\ call[q] # Idle
  /\ said' = [said EXCEPT ![q] = @ \cup {a}]
  /\ UNCHANGED <<call, over>>

Allow(q) ==
  /\ call[q].st = "asked" /\ call[q].chat \notin over
  /\ said[q] \cap {"once", "chat"} # {}
  /\ Settle({q}, "allowed")
  /\ UNCHANGED <<said, over>>

(* By an answer, or by an interrupt of the turn.                           *)
Deny(qs) ==
  /\ \A q \in qs : call[q].st = "asked"
  /\ Settle(qs, "denied")
  /\ UNCHANGED <<said, over>>

(* The agent is gone before the answer.                                    *)
Abandon(c) ==
  /\ Settle(Asked(c), "lost")
  /\ UNCHANGED <<said, over>>

Close(c) ==
  /\ over' = over \cup {c}
  /\ Settle(Asked(c), "denied")
  /\ UNCHANGED said

Next ==
  \/ \E q \in Call, c \in Chat, t \in Tool : Request(q, c, t)
  \/ \E q \in Call, a \in Answer : Say(q, a)
  \/ \E q \in Call : Allow(q)
  \/ \E qs \in SUBSET Call : Deny(qs)
  \/ \E c \in Chat : Abandon(c) \/ Close(c)

Spec == Init /\ [][Next]_vars
=============================================================================
