------------------------------ MODULE AgentChat ------------------------------
(***************************************************************************)
(* The in-UI agent chat: ApprovalGate (app/agent_chat/gate.py),            *)
(* ChatSession and ChatRegistry (session.py), SdkAgentBackend              *)
(* (sdk_backend.py), the open-chat handles (api/services/agent_chat.py),   *)
(* the WebSocket handler (api/routers/agent_chat.py) and the browser's     *)
(* socket and approval cards (frontend agent-store.ts, agent-reducer.ts).  *)
(*                                                                         *)
(* One event loop runs the server: an action is what one handler or task   *)
(* does between two awaits that suspend it.  Of the events only the three  *)
(* the cards and the socket depend on are kept; an event nobody will read  *)
(* (no socket, or a dropped one) is not kept either.  approval_timeout is  *)
(* None in the server, so no request times out.                            *)
(*                                                                         *)
(* The agent runtime (Claude SDK client and CLI) is external.  Assumed of  *)
(* it: connect ends, one way or the other; a failed connect and a finished *)
(* disconnect leave no process, even mid-connect (the comment above        *)
(* sdk_backend.py:187 relies on it); it asks for tools only within a turn. *)
(***************************************************************************)
EXTENDS Naturals, Sequences, FiniteSets

CONSTANTS Chat, Call, Tool, Access, None,
          MaxChats,  (* registry cap, MAX_OPEN_CHATS                       *)
          MaxIn,     (* bound: browser messages not yet read, per chat     *)
          MaxClicks  (* bound: answers the analyst clicks in all           *)

ASSUME ChatAssumption ==
  /\ Access \in [Tool -> {"read", "write", "write_once", "never"}]
  /\ None \notin Chat /\ IsFiniteSet(Call)
  /\ MaxChats \in Nat \ {0} /\ MaxIn \in Nat \ {0} /\ MaxClicks \in Nat

VARIABLES
  registered,  (* chats in ChatRegistry._chats                             *)
  waiting,     (* chats whose close is awaited by a request or the timer   *)
  closing,     (* closing[c]: "no", the step of _do_close, or "done"       *)
  start,       (* start[c]: ChatSession.start                              *)
  client,      (* chats whose backend holds its client                     *)
  child,       (* chats whose agent process (and MCP child) is alive       *)
  turn,        (* turn[c]: the task of _run_turn                           *)
  call,        (* call[q]: state, chat and tool of a tool call             *)
  approved,    (* <<c, t>>: t is in _chat_approved of c's gate             *)
  gateClosed,  (* chats whose gate is closed                               *)
  out, inbox,  (* out[c]: queued events; inbox[c]: messages not yet read   *)
  sock,        (* sock[c]: "none", "open", "gone" (browser), "shut" (server) *)
  handler,     (* handler[c]: ws_agent_chat                                *)
  shown,       (* calls whose card shows buttons a click on which is sent  *)
  said         (* said[q]: every answer the analyst has clicked (history)  *)

reg   == <<registered, waiting>>
back  == <<start, client, child, turn>>
gate  == <<call, approved, gateClosed>>
wire  == <<out, inbox, sock, handler>>
card  == <<shown, said>>
vars  == <<reg, closing, back, gate, wire, card>>

Answer == {"once", "chat", "deny"}
Idle   == [st |-> "idle", chat |-> None, tool |-> None]
Of(c)    == {q \in Call : call[q].chat = c}
Asked(c) == {q \in Of(c) : call[q].st = "asked"}
Closed(c) == closing[c] # "no"
Finished(c) == closing[c] = "done"
(* started.done(): a failed start also awaits the close it began.          *)
Started(c) == start[c] \in {"up", "cancelled"} \/ (start[c] = "failed" /\ Finished(c))

Settle(qs, st) ==
  call' = [q \in Call |-> IF q \in qs THEN [call[q] EXCEPT !.st = st] ELSE call[q]]
Emit(c, es) ==
  out' = IF sock[c] = "open" THEN [out EXCEPT ![c] = @ \o es] ELSE out
Event(kind, q) == [type |-> kind, id |-> q]
ClosedEvent == Event("closed", None)

Init ==
  /\ registered = {} /\ waiting = {}
  /\ closing = [c \in Chat |-> "no"]
  /\ start = [c \in Chat |-> "none"]
  /\ client = {} /\ child = {}
  /\ turn = [c \in Chat |-> "none"]
  /\ call = [q \in Call |-> Idle]
  /\ approved = {} /\ gateClosed = {}
  /\ out = [c \in Chat |-> <<>>] /\ inbox = [c \in Chat |-> <<>>]
  /\ sock = [c \in Chat |-> "none"] /\ handler = [c \in Chat |-> "none"]
  /\ shown = {} /\ said = [q \in Call |-> {}]

----------------------------------------------------------------------------
(* Opening and closing chats.                                              *)

(* ChatSession.close: the first caller starts _do_close.                   *)
BeginClose(c) ==
  closing' = [closing EXCEPT ![c] = IF @ = "no" THEN "gate" ELSE @]

(* close_chat up to its wait: the chat stays registered.  It also forgets  *)
(* the chat's handle, which is of use only to open the chat: get_handle    *)
(* refuses it from the moment the session is closed.                       *)
CloseChat(c) == c \in registered /\ BeginClose(c) /\ UNCHANGED registered

(* get_handle finds the chat, and no socket has attached to its handle.    *)
Unattached(c) == c \in registered /\ ~Closed(c) /\ handler[c] = "none"

(* POST /api/agent/chats: finished chats are pruned, then the cap applies. *)
Create(c) ==
  /\ c \notin registered /\ ~Finished(c)
  /\ LET kept == {d \in registered : ~Finished(d)} IN
     IF Cardinality(kept) >= MaxChats
     THEN registered' = kept
     ELSE registered' = kept \cup {c}
  /\ UNCHANGED <<waiting, closing, back, gate, wire, card>>

Await(c) ==
  /\ c \notin waiting /\ CloseChat(c)
  /\ waiting' = waiting \cup {c}
  /\ UNCHANGED <<back, gate, wire, card>>
(* DELETE /api/agent/chats/{id}; close_all_chats does it to every chat.    *)
Delete(c) == Await(c)
(* The TTL timer of create_chat; on an attached chat it does nothing.  The *)
(* close it schedules may run after an Attach that was already due: that   *)
(* is an Attach, then a Delete.                                            *)
Expire(c) == Unattached(c) /\ Await(c)

(* registry.close when the session's close is done.                        *)
CloseReturns(c) ==
  /\ c \in waiting /\ Finished(c)
  /\ waiting' = waiting \ {c}
  /\ registered' = registered \ {c}
  /\ UNCHANGED <<closing, back, gate, wire, card>>

(* Fault: a wait that gives up takes the chat out of the registry.         *)
CloseGivesUpForgets(c) ==
  /\ c \in waiting /\ ~Finished(c)
  /\ waiting' = waiting \ {c}
  /\ registered' = registered \ {c}
  /\ UNCHANGED <<closing, back, gate, wire, card>>
(* _CLOSE_ONE_TIMEOUT_SECONDS are over first: the close itself goes on.    *)
CloseGivesUp(c) ==
  /\ c \in waiting /\ ~Finished(c)
  /\ waiting' = waiting \ {c}
  /\ UNCHANGED <<registered, closing, back, gate, wire, card>>

----------------------------------------------------------------------------
(* The close itself, _do_close and _close_backend.                         *)

Step(c, from, to) == closing[c] = from /\ closing' = [closing EXCEPT ![c] = to]

CloseGate(c) ==
  /\ Step(c, "gate", "backend")
  /\ gateClosed' = gateClosed \cup {c}
  /\ Settle(Asked(c), "denied")
  /\ UNCHANGED <<reg, back, approved, wire, card>>

CloseBackend(c) ==
  /\ Step(c, "backend", IF c \in client THEN "disconnecting" ELSE "turn")
  /\ client' = client \ {c}
  /\ UNCHANGED <<reg, start, child, turn, gate, wire, card>>

Disconnected(c) ==
  /\ Step(c, "disconnecting", "turn")
  /\ child' = child \ {c}
  /\ Emit(c, <<ClosedEvent>>)
  /\ UNCHANGED <<reg, start, client, turn, gate, inbox, sock, handler, card>>

(* An exception, or BACKEND_CLOSE_TIMEOUT_SECONDS.                         *)
DisconnectFails(c) ==
  /\ Step(c, "disconnecting", "kill")
  /\ UNCHANGED <<reg, back, gate, wire, card>>

Kill(c) ==
  /\ Step(c, "kill", "turn")
  /\ child' = child \ {c}
  /\ UNCHANGED <<reg, start, client, turn, gate, wire, card>>

(* Fault: only the backend announces that the chat is closed.              *)
CancelTurnQuietly(c) ==
  /\ Step(c, "turn", "done")
  /\ turn' = [turn EXCEPT ![c] = "none"]
  /\ UNCHANGED <<reg, start, client, child, gate, wire, card>>
CancelTurn(c) ==
  /\ Step(c, "turn", "done")
  /\ turn' = [turn EXCEPT ![c] = "none"]
  /\ Emit(c, <<ClosedEvent>>)
  /\ UNCHANGED <<reg, start, client, child, gate, inbox, sock, handler, card>>

----------------------------------------------------------------------------
(* The agent.                                                              *)

Connected(c) ==
  /\ start[c] = "connecting" /\ c \in child
  /\ start' = [start EXCEPT ![c] = "up"]
  /\ UNCHANGED <<reg, closing, client, child, turn, gate, wire, card>>

(* start closes its own session, past the registry.                        *)
ConnectFails(c) ==
  /\ start[c] = "connecting"
  /\ start' = [start EXCEPT ![c] = "failed"]
  /\ client' = client \ {c} /\ child' = child \ {c}
  /\ BeginClose(c)
  /\ UNCHANGED <<reg, turn, gate, wire, card>>

(* send: without a client, or with a dead one, the turn ends in an error.  *)
TurnBegins(c) ==
  /\ turn[c] = "new"
  /\ turn' = [turn EXCEPT ![c] = IF c \in client \cap child THEN "sending" ELSE "none"]
  /\ UNCHANGED <<reg, closing, start, client, child, gate, wire, card>>

(* Fault: the closed gate is not consulted.                                *)
DecisionWhenClosed(c, t) ==
  CASE Access[t] = "read"  -> "allowed"
    [] Access[t] = "never" -> "denied"
    [] Access[t] = "write" /\ <<c, t>> \in approved -> "allowed"
    [] OTHER -> "asked"
(* ApprovalGate.decide; the answer "asked" waits in _ask.                  *)
Decision(c, t) ==
  CASE Access[t] = "read"  -> "allowed"
    [] Access[t] = "never" -> "denied"
    [] Access[t] \notin {"read", "never"} /\ c \in gateClosed -> "denied"
    [] Access[t] = "write" /\ c \notin gateClosed /\ <<c, t>> \in approved -> "allowed"
    [] OTHER -> "asked"

(* Ids are drawn at random: which one is next makes no difference.         *)
Fresh(q) == call[q] = Idle /\ q = CHOOSE p \in Call : call[p] = Idle
ToolCall(c, q, t) ==
  /\ turn[c] = "sending" /\ c \in child /\ Fresh(q)
  /\ call' = [call EXCEPT ![q] = [st |-> Decision(c, t), chat |-> c, tool |-> t]]
  /\ Emit(c, IF Decision(c, t) = "asked" THEN <<Event("approval_request", q)>> ELSE <<>>)
  /\ UNCHANGED <<reg, closing, back, approved, gateClosed, inbox, sock, handler, card>>

TurnEnds(c) ==
  /\ turn[c] = "sending" /\ (Asked(c) = {} \/ c \notin child)
  /\ turn' = [turn EXCEPT ![c] = "none"]
  /\ UNCHANGED <<reg, closing, start, client, child, gate, wire, card>>

(* The process dies; the SDK cancels the decide calls it runs, or not.     *)
BackendDies(c) ==
  /\ c \in child /\ start[c] = "up"
  /\ child' = child \ {c}
  /\ Settle(Asked(c), "lost") \/ UNCHANGED call
  /\ UNCHANGED <<reg, closing, start, client, turn, approved, gateClosed, wire, card>>

----------------------------------------------------------------------------
(* The WebSocket handler.                                                  *)

(* get_handle succeeds: the started task runs before any later close, and  *)
(* up to its connect it never suspends.                                    *)
Attach(c) ==
  /\ Unattached(c)
  /\ sock' = [sock EXCEPT ![c] = "open"]
  /\ handler' = [handler EXCEPT ![c] = "open"]
  /\ start' = [start EXCEPT ![c] = "connecting"]
  /\ client' = client \cup {c} /\ child' = child \cup {c}
  /\ UNCHANGED <<reg, closing, turn, gate, out, inbox, card>>

(* _receive takes the next message, once start is done.                    *)
Receive(c, kind) ==
  /\ handler[c] # "over" /\ sock[c] # "shut" /\ Started(c)
  /\ inbox[c] # <<>> /\ Head(inbox[c]).type = kind
  /\ inbox' = [inbox EXCEPT ![c] = Tail(@)]

(* Fault: a message that was on its way starts a turn on a closed chat.    *)
ReceiveTextLate(c) ==
  /\ Receive(c, "user_message")
  /\ turn' = IF turn[c] = "none" THEN [turn EXCEPT ![c] = "new"] ELSE turn
  /\ UNCHANGED <<reg, closing, start, client, child, gate, out, sock, handler, card>>
ReceiveText(c) ==
  /\ Receive(c, "user_message")
  /\ turn' = IF ~Closed(c) /\ turn[c] = "none" THEN [turn EXCEPT ![c] = "new"] ELSE turn
  /\ UNCHANGED <<reg, closing, start, client, child, gate, out, sock, handler, card>>

(* Fault: the browser's scope is believed for every tool.                  *)
ResolveAnyScope(c, q, a) ==
  IF q \in Asked(c)
  THEN /\ Settle({q}, IF a = "deny" THEN "denied" ELSE "allowed")
       /\ approved' = approved \cup (IF a = "chat" THEN {<<c, call[q].tool>>} ELSE {})
       /\ Emit(c, <<Event("approval_resolved", q)>>)
  ELSE UNCHANGED <<call, approved, out>>
(* resolve; an id that is unknown or answered is refused (bad_approval).   *)
Resolve(c, q, a) ==
  IF q \in Asked(c)
  THEN /\ Settle({q}, IF a = "deny" THEN "denied" ELSE "allowed")
       /\ approved' = approved \cup
            (IF a = "chat" /\ Access[call[q].tool] # "write_once"
             THEN {<<c, call[q].tool>>} ELSE {})
       /\ Emit(c, <<Event("approval_resolved", q)>>)
  ELSE UNCHANGED <<call, approved, out>>

ReceiveAnswer(c) ==
  /\ Receive(c, "approval")
  /\ Resolve(c, Head(inbox[c]).id, Head(inbox[c]).answer)
  /\ UNCHANGED <<reg, closing, back, gateClosed, sock, handler, card>>

(* Fault: an interrupt settles the requests without telling the browser.   *)
CancelPendingSilently(c) == Settle(Asked(c), "denied") /\ UNCHANGED out
(* cancel_pending, one event per denied request in any order.              *)
CancelPending(c) ==
  /\ Settle(Asked(c), "denied")
  /\ \E order \in [1..Cardinality(Asked(c)) -> Asked(c)] :
       /\ \A i, j \in DOMAIN order : i # j => order[i] # order[j]
       /\ Emit(c, [i \in DOMAIN order |-> Event("approval_resolved", order[i])])

ReceiveInterrupt(c) ==
  /\ Receive(c, "interrupt")
  /\ CancelPending(c)
  /\ UNCHANGED <<reg, closing, back, approved, gateClosed, sock, handler, card>>

(* _pump delivers one event; after "closed" it closes the socket.          *)
Pump(c) ==
  /\ sock[c] = "open" /\ handler[c] # "over" /\ out[c] # <<>>
  /\ LET e == Head(out[c]) IN
     IF e.type = "closed"
     THEN /\ sock' = [sock EXCEPT ![c] = "shut"]
          /\ out' = [out EXCEPT ![c] = <<>>]
          /\ shown' = shown \ Of(c)
     ELSE /\ out' = [out EXCEPT ![c] = Tail(@)]
          /\ shown' = IF e.type = "approval_request" THEN shown \cup {e.id}
                      ELSE shown \ {e.id}
          /\ UNCHANGED sock
  /\ UNCHANGED <<reg, closing, back, gate, inbox, handler, said>>

(* The handler calls close_chat and waits like a request does.             *)
HandlerEnds(c) ==
  /\ handler[c] = "open"
  /\ handler' = [handler EXCEPT ![c] = "closing"]
  /\ CloseChat(c) \/ (c \notin registered /\ UNCHANGED <<registered, closing>>)
  /\ UNCHANGED <<waiting, back, gate, out, inbox, sock, card>>
(* The pump has returned, or the receiver finds the browser gone, or the   *)
(* pump fails on a send to a browser that is gone.                         *)
PumpReturned(c) == sock[c] = "shut" /\ HandlerEnds(c)
ReceiverEnds(c) == sock[c] = "gone" /\ inbox[c] = <<>> /\ HandlerEnds(c)
PumpFails(c)    == sock[c] = "gone" /\ inbox[c] # <<>> /\ HandlerEnds(c)

(* The wait is over: the three tasks are cancelled.                        *)
HandlerLeaves(c) ==
  /\ handler[c] = "closing"
  /\ handler' = [handler EXCEPT ![c] = "over"]
  /\ start' = [start EXCEPT ![c] = IF @ = "connecting" THEN "cancelled" ELSE @]
  /\ out' = [out EXCEPT ![c] = <<>>] /\ inbox' = [inbox EXCEPT ![c] = <<>>]
  /\ sock' = [sock EXCEPT ![c] = "shut"]
  /\ UNCHANGED <<waiting, closing, client, child, turn, gate, card>>
HandlerReturns(c) ==
  /\ Finished(c) \/ c \notin registered
  /\ registered' = registered \ {c}
  /\ HandlerLeaves(c)
HandlerGivesUp(c) ==
  /\ ~Finished(c)
  /\ UNCHANGED registered
  /\ HandlerLeaves(c)

----------------------------------------------------------------------------
(* The browser.  A card's buttons stay until approval_resolved arrives, so *)
(* it may answer a call more than once; what it sends is not limited to    *)
(* the scopes the card offers.                                             *)

Send(c, m) ==
  /\ sock[c] = "open" /\ Len(inbox[c]) < MaxIn
  /\ inbox' = [inbox EXCEPT ![c] = Append(@, m)]
  /\ UNCHANGED <<reg, closing, back, gate, out, sock, handler, shown>>

SendText(c)  == Send(c, [type |-> "user_message"]) /\ UNCHANGED said
Interrupt(c) == Send(c, [type |-> "interrupt"]) /\ UNCHANGED said
Click(c, q, a) ==
  /\ q \in shown \cap Of(c) /\ a \notin said[q]
  /\ Cardinality({qa \in Call \X Answer : qa[2] \in said[qa[1]]}) < MaxClicks
  /\ Send(c, [type |-> "approval", id |-> q, answer |-> a])
  /\ said' = [said EXCEPT ![q] = @ \cup {a}]

(* closeSocket, a closed page or a lost connection.                        *)
Drop(c) ==
  /\ sock[c] = "open"
  /\ sock' = [sock EXCEPT ![c] = "gone"]
  /\ out' = [out EXCEPT ![c] = <<>>]
  /\ shown' = shown \ Of(c)
  /\ UNCHANGED <<reg, closing, back, gate, inbox, handler, said>>

----------------------------------------------------------------------------
Registry(c) == \/ Create(c) \/ Expire(c) \/ Delete(c)
               \/ CloseReturns(c) \/ CloseGivesUp(c)
Closing(c) == \/ CloseGate(c) \/ CloseBackend(c) \/ Disconnected(c)
              \/ DisconnectFails(c) \/ Kill(c) \/ CancelTurn(c)
Agent(c) == \/ Connected(c) \/ ConnectFails(c) \/ TurnBegins(c) \/ TurnEnds(c)
            \/ BackendDies(c) \/ \E q \in Call, t \in Tool : ToolCall(c, q, t)
Receiver(c) == ReceiveText(c) \/ ReceiveAnswer(c) \/ ReceiveInterrupt(c)
Socket(c) == \/ Attach(c) \/ Receiver(c) \/ Pump(c)
             \/ PumpReturned(c) \/ ReceiverEnds(c) \/ PumpFails(c)
             \/ HandlerReturns(c) \/ HandlerGivesUp(c)
Browser(c) == \/ SendText(c) \/ Interrupt(c) \/ Drop(c)
              \/ \E q \in Call, a \in Answer : Click(c, q, a)

Next == \E c \in Chat : Registry(c) \/ Closing(c) \/ Agent(c) \/ Socket(c) \/ Browser(c)

(* The loop runs every ready task and fires every due timer; connect ends. *)
Fairness == \A c \in Chat :
  /\ WF_vars(Expire(c))
  /\ WF_vars(Closing(c)) /\ WF_vars(Connected(c) \/ ConnectFails(c))
  /\ WF_vars(Receiver(c)) /\ WF_vars(Pump(c))
  /\ WF_vars(PumpReturned(c) \/ ReceiverEnds(c)) /\ WF_vars(HandlerReturns(c) \/ HandlerGivesUp(c))

Spec == Init /\ [][Next]_vars /\ Fairness

----------------------------------------------------------------------------
Message == [type : {"user_message", "interrupt"}]
             \cup [type : {"approval"}, id : Call, answer : Answer]
CallEvent == [type : {"approval_request", "approval_resolved"}, id : Call]

(* Every variable keeps to the states its code can produce.                *)
TypeOK ==
  /\ registered \subseteq Chat /\ waiting \subseteq Chat
  /\ closing \in [Chat -> {"no", "gate", "backend", "disconnecting", "kill", "turn", "done"}]
  /\ start \in [Chat -> {"none", "connecting", "up", "failed", "cancelled"}]
  /\ client \subseteq Chat /\ child \subseteq Chat
  /\ turn \in [Chat -> {"none", "new", "sending"}]
  /\ call \in [Call -> [st : {"asked", "allowed", "denied", "lost"}, chat : Chat, tool : Tool]
                         \cup {Idle}]
  /\ approved \subseteq Chat \X {t \in Tool : Access[t] = "write"}
  /\ gateClosed \subseteq Chat
  /\ out \in [Chat -> Seq(CallEvent \cup {ClosedEvent})]
  /\ inbox \in [Chat -> Seq(Message)]
  /\ sock \in [Chat -> {"none", "open", "gone", "shut"}]
  /\ handler \in [Chat -> {"none", "open", "closing", "over"}]
  /\ shown \subseteq Call /\ said \in [Call -> SUBSET Answer]

(* A finished close leaves nothing: no process, no client, no turn and no  *)
(* call that still waits (ChatSession.finished: "backend and its children  *)
(* are gone"), whatever start, turn or timeout it raced with.              *)
NothingLeftBehind ==
  \A c \in Chat : Finished(c) =>
    c \notin child /\ c \notin client /\ turn[c] = "none" /\ Asked(c) = {}

(* A chat with a process, a turn or a close under way is in the registry,  *)
(* where close_all_chats finds it, also after its close_chat gave up       *)
(* ("stays registered ... until its close has COMPLETED").                 *)
ReachableUntilFinished ==
  \A c \in Chat :
    (c \in child \/ turn[c] # "none" \/ closing[c] \notin {"no", "done"}) => c \in registered

(* When every event has arrived, a card that shows its buttons belongs to  *)
(* a call that still waits for the answer, or to one the dead agent no     *)
(* longer waits for (cancel_pending: no "live Allow/Deny card whose answer *)
(* would be refused").                                                     *)
CardsAnswerable ==
  \A q \in shown : LET c == call[q].chat IN
    sock[c] = "open" /\ ~Closed(c) /\ out[c] = <<>> => call[q].st \in {"asked", "lost"}

(* The chat keeps the approval protocol: a tool that writes runs only on   *)
(* the analyst's word, an answer is final, a closed gate allows nothing.   *)
P == INSTANCE ApprovalProtocol WITH over <- gateClosed
ImplementsProtocol == P!Spec

(* A chat nobody attaches to, and one whose socket is gone, is closed to   *)
(* the end, and a chat that is closed lets its socket go.                  *)
ChatsEnd ==
  \A c \in Chat :
    /\ (c \in registered /\ sock[c] # "open") ~> (Finished(c) \/ sock[c] = "open")
    /\ Finished(c) ~> sock[c] # "open"
=============================================================================
