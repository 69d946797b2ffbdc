--------------------------- MODULE AgentChatProofs ---------------------------
(***************************************************************************)
(* Proofs about AgentChat, for every set of chats and tools and every      *)
(* finite set of calls.                                                    *)
(*                                                                         *)
(* IInv is the inductive invariant, a conjunct for each thing that an      *)
(* await could break.  Of the agent: between two steps of a close the gate *)
(* is shut for good (GateShut), and client, process and turn go one by one *)
(* (Backed); a chat that was ever used is registered until its close is    *)
(* done (Reached), and one without a socket was never used (Unused); only  *)
(* writing tools are asked about (Asking), and an approval for a chat was  *)
(* given to one of its calls (Granted).  Of the wire: an event is about a  *)
(* call of its own chat (Events); of a settled call the browser is about   *)
(* to be told, after everything else it was told of it (Settled); and an   *)
(* answer on its way was clicked (Clicked).  Carded: a card shows a call.  *)
(*                                                                         *)
(* A step of one chat leaves the others alone (OthersApart), so that each  *)
(* conjunct is shown for the chat that moves.                              *)
(***************************************************************************)
EXTENDS AgentChat, FiniteSetTheorems, SequenceTheorems, TLAPS

GateShut(c) ==
  /\ closing[c] \notin {"no", "gate"} => c \in gateClosed
  /\ c \in gateClosed => Closed(c) /\ Asked(c) = {}

Backed(c) ==
  /\ c \in child => c \in client \/ closing[c] \in {"disconnecting", "kill"}
  /\ closing[c] \in {"disconnecting", "kill", "turn", "done"} => c \notin client
  /\ Finished(c) => turn[c] = "none"

Reached(c) ==
  \/ c \in child \/ turn[c] # "none" \/ start[c] # "none" \/ Closed(c)
  => c \in registered \/ Finished(c)

Unused(c) ==
  handler[c] = "none" => start[c] = "none" /\ turn[c] = "none" /\ Of(c) = {}

Events(c) ==
  \A i \in DOMAIN out[c] : out[c][i] # ClosedEvent => out[c][i].id \in Of(c)
Carded == \A q \in shown : call[q] # Idle

(* The browser will be told that q is settled, after all it was told of q. *)
Resolved(c, q, i) ==
  \E j \in DOMAIN out[c] : j > i /\ out[c][j] = Event("approval_resolved", q)
Told(c, q) ==
  /\ q \in shown => Resolved(c, q, 0)
  /\ \A i \in DOMAIN out[c] :
       out[c][i] = Event("approval_request", q) => Resolved(c, q, i)
Settled(c) ==
  sock[c] = "open" /\ ~Closed(c) =>
    \A q \in Of(c) : call[q].st \notin {"asked", "lost"} => Told(c, q)

Clicked(c) ==
  \A i \in DOMAIN inbox[c] :
    LET m == inbox[c][i] IN m.type = "approval" => m.answer \in said[m.id]
Asking(c) ==
  \A q \in Asked(c) : Access[call[q].tool] \in {"write", "write_once"}
Granted(c) == \A t \in Tool : <<c, t>> \in approved => P!Standing(c, t)

Agency(c) == GateShut(c) /\ Backed(c) /\ Reached(c) /\ Unused(c)
             /\ Asking(c) /\ Granted(c)
Wired(c)  == Events(c) /\ Settled(c) /\ Clicked(c)
IInv == TypeOK /\ Carded /\ \A c \in Chat : Agency(c) /\ Wired(c)
-----------------------------------------------------------------------------
(* The invariant holds initially.                                          *)
LEMMA InitIInv == Init => IInv
<1> SUFFICES ASSUME Init PROVE IInv
  OBVIOUS
<1> USE ChatAssumption DEF Init, Idle
<1>1. TypeOK /\ Carded
  BY DEF TypeOK, Carded
<1>2. ASSUME NEW c \in Chat
      PROVE  Agency(c) /\ Wired(c)
  BY DEF Agency, GateShut, Backed, Reached, Unused, Asking, Granted, Wired,
         Events, Settled, Clicked, Closed, Finished, Of, Asked
<1> QED BY <1>1, <1>2 DEF IInv

(* The actions that settle calls leave everything else of them alone.      *)
LEMMA Settles ==
  ASSUME TypeOK, NEW qs, \A q \in qs : q \in Call /\ call[q].st = "asked",
         NEW st \in {"allowed", "denied", "lost"}, Settle(qs, st)
  PROVE  /\ call' \in [Call -> [st : {"asked", "allowed", "denied", "lost"},
                                chat : Chat, tool : Tool] \cup {Idle}]
         /\ \A q \in Call :
              /\ q \notin qs => call'[q] = call[q]
              /\ q \in qs => call'[q].st = st
              /\ call'[q].chat = call[q].chat /\ call'[q].tool = call[q].tool
              /\ call'[q] = Idle <=> call[q] = Idle
<1> DEFINE K == [st : {"asked", "allowed", "denied", "lost"}, chat : Chat, tool : Tool]
<1>1. ASSUME NEW q \in Call
      PROVE  /\ call'[q] \in K \cup {Idle}
             /\ q \notin qs => call'[q] = call[q]
             /\ q \in qs => call'[q].st = st
             /\ call'[q].chat = call[q].chat /\ call'[q].tool = call[q].tool
             /\ call'[q] = Idle <=> call[q] = Idle
  <2>1. call'[q] = IF q \in qs THEN [call[q] EXCEPT !.st = st] ELSE call[q]
    BY DEF Settle
  <2>2. CASE q \in qs
    <3>1. call[q] \in K /\ call[q].st = "asked"
      BY <2>2 DEF TypeOK, Idle
    <3>2. call'[q] \in K /\ call'[q].st = st /\ call'[q].chat = call[q].chat
          /\ call'[q].tool = call[q].tool
      BY <2>1, <2>2, <3>1
    <3> QED BY <2>2, <3>1, <3>2 DEF Idle
  <2>3. CASE q \notin qs
    BY <2>1, <2>3 DEF TypeOK
  <2> QED BY <2>2, <2>3
<1> QED BY <1>1 DEF Settle

(* What is sent to the browser.                                            *)
LEMMA Emits ==
  ASSUME TypeOK, NEW c \in Chat, NEW es \in Seq(CallEvent \cup {ClosedEvent}),
         Emit(c, es)
  PROVE  /\ out' \in [Chat -> Seq(CallEvent \cup {ClosedEvent})]
         /\ \A d \in Chat \ {c} : out'[d] = out[d]
         /\ sock[c] = "open" => out'[c] = out[c] \o es
         /\ sock[c] # "open" => out'[c] = out[c]
<1>1. out[c] \in Seq(CallEvent \cup {ClosedEvent})
  BY DEF TypeOK
<1>2. out[c] \o es \in Seq(CallEvent \cup {ClosedEvent})
  BY <1>1, ConcatProperties
<1> QED BY <1>2 DEF Emit, TypeOK
(* The calls qs of c are settled, and the browser is told of each of them  *)
(* and of no other.                                                        *)
Tells(c, qs, st) ==
  \E es \in Seq(CallEvent) :
    /\ Settle(qs, st) /\ Emit(c, es)
    /\ \A i \in DOMAIN es : es[i].type = "approval_resolved" /\ es[i].id \in qs
    /\ \A q \in qs : \E i \in DOMAIN es : es[i] = Event("approval_resolved", q)

LEMMA ResolveTells ==
  ASSUME TypeOK, NEW c \in Chat, NEW q \in Asked(c), NEW a, Resolve(c, q, a)
  PROVE  Tells(c, {q}, IF a = "deny" THEN "denied" ELSE "allowed")
<1> DEFINE e == Event("approval_resolved", q)
           es == <<e>>
<1>1. es \in Seq(CallEvent) /\ DOMAIN es = {1} /\ es[1] = e
  <2>1. e \in CallEvent
    BY DEF CallEvent, Event, Asked, Of
  <2> QED BY <2>1
<1>2. e.type = "approval_resolved" /\ e.id = q
  BY DEF Event
<1>3. Settle({q}, IF a = "deny" THEN "denied" ELSE "allowed") /\ Emit(c, es)
  BY DEF Resolve
<1> HIDE DEF es
<1> QED BY <1>1, <1>2, <1>3 DEF Tells

LEMMA CancelTells ==
  ASSUME TypeOK, NEW c \in Chat, CancelPending(c)
  PROVE  Tells(c, Asked(c), "denied")
<1> DEFINE n == Cardinality(Asked(c))
<1>1. IsFiniteSet(Asked(c)) /\ n \in Nat
  <2>1. Asked(c) \subseteq Call
    BY DEF Asked, Of
  <2> QED BY <2>1, FS_Subset, FS_CardinalityType, ChatAssumption
<1>2. PICK order \in [1..n -> Asked(c)] :
        /\ \A i, j \in DOMAIN order : i # j => order[i] # order[j]
        /\ Emit(c, [i \in DOMAIN order |-> Event("approval_resolved", order[i])])
  BY DEF CancelPending
<1> DEFINE es == [i \in DOMAIN order |-> Event("approval_resolved", order[i])]
<1>3. \A q \in Asked(c) : \E i \in 1..n : order[i] = q
  <2>1. order \in Injection(1..n, Asked(c))
    BY <1>2 DEF Injection, IsInjective
  <2>2. Cardinality(1..n) = n
    BY <1>1, FS_Interval
  <2>3. order \in Surjection(1..n, Asked(c))
    BY <1>1, <2>1, <2>2, FS_Injection
  <2> QED BY <2>3 DEF Surjection
<1>4. \A i \in 1..n : es[i] \in CallEvent
  <2>1. Asked(c) \subseteq Call
    BY DEF Asked, Of
  <2> QED BY <1>2, <2>1 DEF Event, CallEvent
<1>5. es \in Seq(CallEvent) /\ DOMAIN es = 1..n
  BY <1>1, <1>2, <1>4, IsASeq
<1>6. \A i \in 1..n : es[i].type = "approval_resolved" /\ es[i].id \in Asked(c)
  BY <1>2 DEF Event
<1>7. \A q \in Asked(c) : \E i \in 1..n : es[i] = Event("approval_resolved", q)
  BY <1>2, <1>3
<1> HIDE DEF es
<1>8. Settle(Asked(c), "denied") /\ Emit(c, es)
  BY <1>2 DEF CancelPending, es
<1> QED BY <1>5, <1>6, <1>7, <1>8 DEF Tells

LEMMA TellsTyped ==
  ASSUME TypeOK, NEW c \in Chat, NEW qs \in SUBSET Asked(c),
         NEW st \in {"denied", "allowed"}, Tells(c, qs, st)
  PROVE  /\ call' \in [Call -> [st : {"asked", "allowed", "denied", "lost"},
                                chat : Chat, tool : Tool] \cup {Idle}]
         /\ out' \in [Chat -> Seq(CallEvent \cup {ClosedEvent})]
         /\ \A d \in Chat \ {c} : out'[d] = out[d]
<1>1. PICK es \in Seq(CallEvent) : Settle(qs, st) /\ Emit(c, es)
  BY DEF Tells
<1>2. es \in Seq(CallEvent \cup {ClosedEvent})
  BY SeqMonotonic
<1>3. \A q \in qs : q \in Call /\ call[q].st = "asked"
  BY DEF Asked, Of
<1> QED BY <1>1, <1>2, <1>3, Settles, Emits
-----------------------------------------------------------------------------
(* Every step keeps the types.                                             *)
Act(c) == Registry(c) \/ Closing(c) \/ Agent(c) \/ Socket(c) \/ Browser(c)

LEMMA TypedStep ==
  ASSUME IInv, NEW c \in Chat, Act(c)
  PROVE  TypeOK'
<1> USE DEF IInv, TypeOK, reg, back, gate, wire, card
<1>1. CASE Registry(c)
  <2> USE DEF BeginClose, CloseChat, Await
  <2>1. CASE Create(c)
    BY <2>1 DEF Create
  <2>2. CASE Expire(c) \/ Delete(c)
    BY <2>2 DEF Expire, Delete
  <2>3. CASE CloseReturns(c) \/ CloseGivesUp(c)
    BY <2>3 DEF CloseReturns, CloseGivesUp
  <2> QED BY <1>1, <2>1, <2>2, <2>3 DEF Registry
<1>2. CASE Closing(c)
  <2> USE DEF Step
  <2>1. CASE CloseGate(c)
    <3>1. \A q \in Asked(c) : q \in Call /\ call[q].st = "asked"
      BY DEF Asked, Of
    <3>2. call' \in [Call -> [st : {"asked", "allowed", "denied", "lost"},
                              chat : Chat, tool : Tool] \cup {Idle}]
      BY <2>1, <3>1, Settles DEF CloseGate
    <3> HIDE DEF TypeOK
    <3> QED BY <2>1, <3>2 DEF CloseGate, TypeOK
  <2>2. CASE CloseBackend(c) \/ DisconnectFails(c) \/ Kill(c)
    BY <2>2 DEF CloseBackend, DisconnectFails, Kill
  <2>3. CASE Disconnected(c) \/ CancelTurn(c)
    <3>1. <<ClosedEvent>> \in Seq(CallEvent \cup {ClosedEvent})
      OBVIOUS
    <3>2. out' \in [Chat -> Seq(CallEvent \cup {ClosedEvent})]
      BY <2>3, <3>1, Emits DEF Disconnected, CancelTurn
    <3> QED BY <2>3, <3>2 DEF Disconnected, CancelTurn
  <2> QED BY <1>2, <2>1, <2>2, <2>3 DEF Closing
<1>3. CASE Agent(c)
  <2>1. CASE Connected(c) \/ ConnectFails(c)
    BY <2>1 DEF Connected, ConnectFails, BeginClose
  <2>2. CASE TurnBegins(c) \/ TurnEnds(c)
    BY <2>2 DEF TurnBegins, TurnEnds
  <2>3. CASE BackendDies(c)
    <3>1. \A q \in Asked(c) : q \in Call /\ call[q].st = "asked"
      BY DEF Asked, Of
    <3>2. call' \in [Call -> [st : {"asked", "allowed", "denied", "lost"},
                              chat : Chat, tool : Tool] \cup {Idle}]
      BY <2>3, <3>1, Settles DEF BackendDies
    <3> QED BY <2>3, <3>2 DEF BackendDies
  <2>4. ASSUME NEW q \in Call, NEW t \in Tool, ToolCall(c, q, t)
        PROVE  TypeOK'
    <3>1. Decision(c, t) \in {"asked", "allowed", "denied"}
      BY ChatAssumption DEF Decision
    <3>2. call' \in [Call -> [st : {"asked", "allowed", "denied", "lost"},
                              chat : Chat, tool : Tool] \cup {Idle}]
      BY <2>4, <3>1 DEF ToolCall
    <3>3. Event("approval_request", q) \in CallEvent
      BY DEF CallEvent, Event
    <3>4. (IF Decision(c, t) = "asked" THEN <<Event("approval_request", q)>> ELSE <<>>)
            \in Seq(CallEvent \cup {ClosedEvent})
      <4>1. /\ <<Event("approval_request", q)>> \in Seq(CallEvent \cup {ClosedEvent})
            /\ <<>> \in Seq(CallEvent \cup {ClosedEvent})
        BY <3>3
      <4> QED BY <4>1
    <3>5. out' \in [Chat -> Seq(CallEvent \cup {ClosedEvent})]
      BY <2>4, <3>4, Emits DEF ToolCall
    <3> QED BY <2>4, <3>2, <3>5 DEF ToolCall
  <2> QED BY <1>3, <2>1, <2>2, <2>3, <2>4 DEF Agent
<1>4. CASE Socket(c)
  <2>1. CASE Attach(c)
    BY <2>1 DEF Attach
  <2>2. ASSUME NEW kind, Receive(c, kind)
        PROVE  inbox' \in [Chat -> Seq(Message)] /\ Head(inbox[c]) \in Message
    <3>1. inbox[c] \in Seq(Message) /\ inbox[c] # <<>>
      BY <2>2 DEF Receive
    <3>2. Tail(inbox[c]) \in Seq(Message) /\ Head(inbox[c]) \in Message
      BY <3>1, HeadTailProperties
    <3> QED BY <2>2, <3>2 DEF Receive
  <2>3. CASE ReceiveText(c)
    BY <2>2, <2>3 DEF ReceiveText
  <2>4. CASE ReceiveAnswer(c)
    <3> DEFINE m == Head(inbox[c])
    <3>1. Receive(c, "approval") /\ Resolve(c, m.id, m.answer)
      BY <2>4 DEF ReceiveAnswer
    <3>2. m \in Message /\ m.type = "approval" /\ inbox' \in [Chat -> Seq(Message)]
      BY <2>2, <3>1 DEF Receive
    <3>3. m.id \in Call /\ m.answer \in Answer
      BY <3>2 DEF Message
    <3>4. CASE m.id \in Asked(c)
      <4>1. Tells(c, {m.id}, IF m.answer = "deny" THEN "denied" ELSE "allowed")
        BY <3>1, <3>4, ResolveTells
      <4>2. /\ call' \in [Call -> [st : {"asked", "allowed", "denied", "lost"},
                                   chat : Chat, tool : Tool] \cup {Idle}]
            /\ out' \in [Chat -> Seq(CallEvent \cup {ClosedEvent})]
        BY <3>4, <4>1, TellsTyped
      <4>3. call[m.id].tool \in Tool
        BY <3>4 DEF Asked, Of, Idle
      <4>4. approved' \subseteq Chat \X {t \in Tool : Access[t] = "write"}
        <5>1. Access[call[m.id].tool] \in {"write", "write_once"}
          BY <3>4 DEF Agency, Asking
        <5> QED BY <3>1, <3>4, <4>3, <5>1, ChatAssumption DEF Resolve
      <4> QED BY <2>4, <3>2, <4>2, <4>4 DEF ReceiveAnswer
    <3>5. CASE m.id \notin Asked(c)
      BY <2>4, <3>1, <3>2, <3>5 DEF ReceiveAnswer, Resolve
    <3> QED BY <3>4, <3>5
  <2>5. CASE ReceiveInterrupt(c)
    <3>1. inbox' \in [Chat -> Seq(Message)]
      BY <2>2, <2>5 DEF ReceiveInterrupt
    <3>2. /\ call' \in [Call -> [st : {"asked", "allowed", "denied", "lost"},
                                 chat : Chat, tool : Tool] \cup {Idle}]
          /\ out' \in [Chat -> Seq(CallEvent \cup {ClosedEvent})]
      BY <2>5, CancelTells, TellsTyped DEF ReceiveInterrupt
    <3> QED BY <2>5, <3>1, <3>2 DEF ReceiveInterrupt
  <2>6. CASE Pump(c)
    <3>1. out[c] \in Seq(CallEvent \cup {ClosedEvent}) /\ out[c] # <<>>
      BY <2>6 DEF Pump
    <3>2. /\ Tail(out[c]) \in Seq(CallEvent \cup {ClosedEvent})
          /\ Head(out[c]) \in CallEvent \cup {ClosedEvent}
      BY <3>1, HeadTailProperties
    <3>3. <<>> \in Seq(CallEvent \cup {ClosedEvent})
      OBVIOUS
    <3>4. CASE Head(out[c]).type = "closed"
      BY <2>6, <3>3, <3>4 DEF Pump
    <3>5. CASE Head(out[c]).type # "closed"
      <4>1. Head(out[c]) \in CallEvent
        BY <3>2, <3>5 DEF ClosedEvent, Event
      <4>2. Head(out[c]).id \in Call
        BY <4>1 DEF CallEvent
      <4>3. /\ out' = [out EXCEPT ![c] = Tail(out[c])] /\ sock' = sock
            /\ shown' \in {shown \cup {Head(out[c]).id}, shown \ {Head(out[c]).id}}
        BY <2>6, <3>5 DEF Pump
      <4>4. out' \in [Chat -> Seq(CallEvent \cup {ClosedEvent})] /\ shown' \subseteq Call
        BY <3>2, <4>2, <4>3
      <4> QED BY <2>6, <4>3, <4>4 DEF Pump
    <3> QED BY <3>4, <3>5
  <2>7. CASE PumpReturned(c) \/ ReceiverEnds(c) \/ PumpFails(c)
    <3>1. HandlerEnds(c)
      BY <2>7 DEF PumpReturned, ReceiverEnds, PumpFails
    <3> QED BY <3>1 DEF HandlerEnds, CloseChat, BeginClose
  <2>8. CASE HandlerReturns(c) \/ HandlerGivesUp(c)
    <3>1. <<>> \in Seq(CallEvent \cup {ClosedEvent}) /\ <<>> \in Seq(Message)
      OBVIOUS
    <3>2. HandlerLeaves(c) /\ registered' \subseteq Chat
      BY <2>8 DEF HandlerReturns, HandlerGivesUp
    <3>3. /\ out' \in [Chat -> Seq(CallEvent \cup {ClosedEvent})]
          /\ inbox' \in [Chat -> Seq(Message)]
          /\ sock' \in [Chat -> {"none", "open", "gone", "shut"}]
          /\ handler' \in [Chat -> {"none", "open", "closing", "over"}]
          /\ start' \in [Chat -> {"none", "connecting", "up", "failed", "cancelled"}]
      BY <3>1, <3>2 DEF HandlerLeaves
    <3> QED BY <3>2, <3>3 DEF HandlerLeaves
  <2> QED BY <1>4, <2>1, <2>3, <2>4, <2>5, <2>6, <2>7, <2>8 DEF Socket, Receiver
<1>5. CASE Browser(c)
  <2>1. ASSUME NEW m \in Message, Send(c, m)
        PROVE  inbox' \in [Chat -> Seq(Message)]
    BY <2>1 DEF Send
  <2>2. CASE SendText(c) \/ Interrupt(c)
    BY <2>1, <2>2 DEF SendText, Interrupt, Send, Message
  <2>3. ASSUME NEW q \in Call, NEW a \in Answer, Click(c, q, a)
        PROVE  TypeOK'
    BY <2>1, <2>3 DEF Click, Send, Message
  <2>4. CASE Drop(c)
    BY <2>4 DEF Drop
  <2> QED BY <1>5, <2>2, <2>3, <2>4 DEF Browser
<1> QED BY <1>1, <1>2, <1>3, <1>4, <1>5 DEF Act
-----------------------------------------------------------------------------
(* What one chat does leaves the others alone; only the registry may drop  *)
(* one of them, when it is finished.                                       *)
Apart(d) ==
  /\ closing'[d] = closing[d] /\ start'[d] = start[d] /\ turn'[d] = turn[d]
  /\ handler'[d] = handler[d] /\ sock'[d] = sock[d]
  /\ out'[d] = out[d] /\ inbox'[d] = inbox[d]
  /\ d \in child' <=> d \in child
  /\ d \in client' <=> d \in client
  /\ d \in gateClosed' <=> d \in gateClosed
  /\ d \in registered => d \in registered' \/ Finished(d)
  /\ \A t \in Tool : <<d, t>> \in approved' => <<d, t>> \in approved
CallsApart(d) ==
  /\ Of(d)' = Of(d)
  /\ \A q \in Of(d) : call'[q] = call[q] /\ (q \in shown' => q \in shown)
  /\ \A q \in Call : said[q] \subseteq said'[q]

LEMMA SettledApart ==
  ASSUME TypeOK, NEW c \in Chat, NEW qs \in SUBSET Asked(c),
         NEW st \in {"denied", "allowed", "lost"}, Settle(qs, st), NEW d \in Chat \ {c}
  PROVE  Of(d)' = Of(d) /\ \A q \in Of(d) : call'[q] = call[q]
<1>1. \A q \in qs : q \in Call /\ call[q].st = "asked" /\ call[q].chat = c
  BY DEF Asked, Of
<1>2. \A q \in Call : /\ q \notin qs => call'[q] = call[q]
                      /\ call'[q].chat = call[q].chat
  BY <1>1, Settles
<1> QED BY <1>1, <1>2 DEF Of

LEMMA OthersApart ==
  ASSUME IInv, NEW c \in Chat, Act(c), NEW d \in Chat \ {c}
  PROVE  Apart(d)
<1> USE DEF IInv, TypeOK, reg, back, gate, wire, card
<1>0. \A es : Emit(c, es) => out'[d] = out[d]
  BY DEF Emit
<1>1. CASE Registry(c)
  BY <1>1 DEF Registry, Create, Expire, Delete, Await, CloseChat, BeginClose,
              CloseReturns, CloseGivesUp, Apart
<1>2. CASE Closing(c)
  BY <1>0, <1>2 DEF Closing, Step, CloseGate, CloseBackend, Disconnected,
                    DisconnectFails, Kill, CancelTurn, Apart
<1>3. CASE Agent(c)
  <2>1. CASE Connected(c) \/ ConnectFails(c) \/ TurnBegins(c) \/ TurnEnds(c)
    BY <2>1 DEF Connected, ConnectFails, BeginClose, TurnBegins, TurnEnds, Apart
  <2>2. CASE BackendDies(c)
    BY <2>2 DEF BackendDies, Apart
  <2>3. ASSUME NEW q \in Call, NEW t \in Tool, ToolCall(c, q, t)
        PROVE  Apart(d)
    BY <1>0, <2>3 DEF ToolCall, Apart
  <2> QED BY <1>3, <2>1, <2>2, <2>3 DEF Agent
<1>4. CASE Socket(c)
  <2>1. CASE Attach(c)
    BY <2>1 DEF Attach, Apart
  <2>2. CASE ReceiveText(c)
    BY <2>2 DEF ReceiveText, Receive, Apart
  <2>3. CASE ReceiveAnswer(c)
    <3> DEFINE m == Head(inbox[c])
    <3>1. Resolve(c, m.id, m.answer) /\ Receive(c, "approval")
      BY <2>3 DEF ReceiveAnswer
    <3>2. CASE m.id \in Asked(c)
      <4>1. call[m.id].chat = c
        BY <3>2 DEF Asked, Of
      <4>2. /\ \A t \in Tool : <<d, t>> \in approved' => <<d, t>> \in approved
            /\ out'[d] = out[d]
        BY <1>0, <3>1, <3>2 DEF Resolve
      <4> QED BY <2>3, <3>1, <4>2 DEF ReceiveAnswer, Receive, Apart
    <3>3. CASE m.id \notin Asked(c)
      BY <2>3, <3>1, <3>3 DEF ReceiveAnswer, Receive, Resolve, Apart
    <3> QED BY <3>2, <3>3
  <2>4. CASE ReceiveInterrupt(c)
    <3>1. out'[d] = out[d]
      BY <1>0, <2>4 DEF ReceiveInterrupt, CancelPending
    <3> QED BY <2>4, <3>1 DEF ReceiveInterrupt, Receive, Apart
  <2>5. CASE Pump(c)
    BY <2>5 DEF Pump, Apart
  <2>6. CASE PumpReturned(c) \/ ReceiverEnds(c) \/ PumpFails(c)
    BY <2>6 DEF PumpReturned, ReceiverEnds, PumpFails, HandlerEnds, CloseChat,
                BeginClose, Apart
  <2>7. CASE HandlerReturns(c) \/ HandlerGivesUp(c)
    BY <2>7 DEF HandlerReturns, HandlerGivesUp, HandlerLeaves, Apart
  <2> QED BY <1>4, <2>1, <2>2, <2>3, <2>4, <2>5, <2>6, <2>7 DEF Socket, Receiver
<1>5. CASE Browser(c)
  <2>1. ASSUME NEW m, Send(c, m)
        PROVE  Apart(d)
    BY <2>1 DEF Send, Apart
  <2>2. CASE Drop(c)
    BY <2>2 DEF Drop, Apart
  <2> QED BY <1>5, <2>1, <2>2 DEF Browser, SendText, Interrupt, Click
<1> QED BY <1>1, <1>2, <1>3, <1>4, <1>5 DEF Act

LEMMA OthersCallsApart ==
  ASSUME IInv, NEW c \in Chat, Act(c), NEW d \in Chat \ {c}
  PROVE  CallsApart(d)
<1> USE DEF IInv, TypeOK, reg, back, gate, wire, card
<1>0. Of(c) \cap Of(d) = {}
  BY DEF Of
<1>1. CASE Registry(c)
  BY <1>1 DEF Registry, Create, Expire, Delete, Await, CloseReturns, CloseGivesUp,
              CallsApart, Of
<1>2. CASE Closing(c)
  <2>1. CASE CloseGate(c)
    <3>1. Settle(Asked(c), "denied") /\ said' = said /\ shown' = shown
      BY <2>1 DEF CloseGate
    <3> QED BY <3>1, SettledApart DEF CallsApart
  <2> QED BY <1>2, <2>1 DEF Closing, CloseBackend, Disconnected, DisconnectFails,
                            Kill, CancelTurn, CallsApart, Of
<1>3. CASE Agent(c)
  <2>1. CASE Connected(c) \/ ConnectFails(c) \/ TurnBegins(c) \/ TurnEnds(c)
    BY <2>1 DEF Connected, ConnectFails, TurnBegins, TurnEnds, CallsApart, Of
  <2>2. CASE BackendDies(c)
    <3>1. Settle(Asked(c), "lost") \/ call' = call
      BY <2>2 DEF BackendDies
    <3>2. said' = said /\ shown' = shown
      BY <2>2 DEF BackendDies
    <3> QED BY <3>1, <3>2, SettledApart DEF CallsApart, Of
  <2>3. ASSUME NEW q \in Call, NEW t \in Tool, ToolCall(c, q, t)
        PROVE  CallsApart(d)
    <3>1. call[q] = Idle /\ Idle.chat \notin Chat
      BY <2>3, ChatAssumption DEF ToolCall, Fresh, Idle
    <3>2. call' = [call EXCEPT ![q] = [st |-> Decision(c, t), chat |-> c, tool |-> t]]
      BY <2>3 DEF ToolCall
    <3>3. said' = said /\ shown' = shown
      BY <2>3 DEF ToolCall
    <3> QED BY <3>1, <3>2, <3>3 DEF CallsApart, Of
  <2> QED BY <1>3, <2>1, <2>2, <2>3 DEF Agent
<1>4. CASE Socket(c)
  <2>1. CASE Attach(c) \/ ReceiveText(c)
    BY <2>1 DEF Attach, ReceiveText, CallsApart, Of
  <2>2. CASE ReceiveAnswer(c)
    <3> DEFINE m == Head(inbox[c])
    <3>1. Resolve(c, m.id, m.answer) /\ said' = said /\ shown' = shown
      BY <2>2 DEF ReceiveAnswer
    <3>2. CASE m.id \in Asked(c)
      <4>1. Settle({m.id}, IF m.answer = "deny" THEN "denied" ELSE "allowed")
        BY <3>1, <3>2 DEF Resolve
      <4> HIDE DEF m
      <4> QED BY <3>1, <3>2, <4>1, SettledApart DEF CallsApart
    <3>3. CASE m.id \notin Asked(c)
      BY <3>1, <3>3 DEF Resolve, CallsApart, Of
    <3> QED BY <3>2, <3>3
  <2>3. CASE ReceiveInterrupt(c)
    <3>1. Settle(Asked(c), "denied") /\ said' = said /\ shown' = shown
      BY <2>3 DEF ReceiveInterrupt, CancelPending
    <3> QED BY <3>1, SettledApart DEF CallsApart
  <2>4. CASE Pump(c)
    <3>1. Head(out[c]) = ClosedEvent \/ Head(out[c]).id \in Of(c)
      <4>1. out[c] \in Seq(CallEvent \cup {ClosedEvent}) /\ out[c] # <<>>
        BY <2>4 DEF Pump
      <4>2. Head(out[c]) = out[c][1] /\ 1 \in DOMAIN out[c]
        BY <4>1
      <4> QED BY <4>2 DEF Wired, Events
    <3>2. Head(out[c]) = ClosedEvent => Head(out[c]).type = "closed"
      BY DEF ClosedEvent, Event
    <3>3. \A q \in Of(d) : q \in shown' => q \in shown
      BY <1>0, <2>4, <3>1, <3>2 DEF Pump
    <3>4. call' = call /\ said' = said
      BY <2>4 DEF Pump
    <3> QED BY <3>3, <3>4 DEF CallsApart, Of
  <2>5. CASE PumpReturned(c) \/ ReceiverEnds(c) \/ PumpFails(c)
    BY <2>5 DEF PumpReturned, ReceiverEnds, PumpFails, HandlerEnds, CallsApart, Of
  <2>6. CASE HandlerReturns(c) \/ HandlerGivesUp(c)
    BY <2>6 DEF HandlerReturns, HandlerGivesUp, HandlerLeaves, CallsApart, Of
  <2> QED BY <1>4, <2>1, <2>2, <2>3, <2>4, <2>5, <2>6 DEF Socket, Receiver
<1>5. CASE Browser(c)
  <2>1. ASSUME NEW m, Send(c, m), NEW q \in Call, NEW a \in Answer,
               said' = said \/ said' = [said EXCEPT ![q] = said[q] \cup {a}]
        PROVE  CallsApart(d)
    BY <2>1 DEF Send, CallsApart, Of
  <2>2. CASE SendText(c) \/ Interrupt(c)
    BY <2>2 DEF SendText, Interrupt, Send, CallsApart, Of
  <2>3. ASSUME NEW q \in Call, NEW a \in Answer, Click(c, q, a)
        PROVE  CallsApart(d)
    BY <2>1, <2>3 DEF Click
  <2>4. CASE Drop(c)
    BY <1>0, <2>4 DEF Drop, CallsApart, Of
  <2> QED BY <1>5, <2>2, <2>3, <2>4 DEF Browser
<1> QED BY <1>1, <1>2, <1>3, <1>4, <1>5 DEF Act

LEMMA OthersKeep ==
  ASSUME IInv, NEW d \in Chat, Apart(d), CallsApart(d)
  PROVE  Agency(d)' /\ Wired(d)'
<1> USE DEF Apart, CallsApart, IInv
<1>1. Asked(d)' = Asked(d)
  BY DEF Asked
<1>2. (GateShut(d) /\ Backed(d) /\ Reached(d) /\ Unused(d) /\ Asking(d))'
  BY <1>1 DEF Agency, GateShut, Backed, Reached, Unused, Asking, Closed, Finished, Asked
<1>3. Granted(d)'
  <2> SUFFICES ASSUME NEW t \in Tool, <<d, t>> \in approved
               PROVE  P!Standing(d, t)'
    BY DEF Granted
  <2>1. PICK q \in Call : /\ call[q].st = "allowed" /\ "chat" \in said[q]
                          /\ call[q].chat = d /\ call[q].tool = t
    BY DEF Agency, Granted, P!Standing
  <2>2. t \notin P!Once
    BY DEF Agency, Granted, P!Standing
  <2> QED BY <2>1, <2>2 DEF P!Standing, P!Once, Of
<1>4. Events(d)' /\ Clicked(d)'
  <2>1. Events(d)'
    BY DEF Wired, Events
  <2>2. ASSUME NEW i \in DOMAIN inbox[d], inbox[d][i].type = "approval"
        PROVE  inbox[d][i].answer \in said'[inbox[d][i].id]
    <3>1. inbox[d][i] \in Message
      BY DEF TypeOK
    <3>2. inbox[d][i].id \in Call
      BY <2>2, <3>1 DEF Message
    <3> QED BY <2>2, <3>2 DEF Wired, Clicked
  <2> QED BY <2>1, <2>2 DEF Clicked
<1>5. Settled(d)'
  <2> SUFFICES ASSUME sock[d] = "open", ~Closed(d), NEW q \in Of(d),
                      call[q].st \notin {"asked", "lost"}
               PROVE  Told(d, q)'
    BY DEF Settled, Closed
  <2>1. Told(d, q)
    BY DEF Wired, Settled
  <2> QED BY <2>1 DEF Told, Resolved
<1> QED BY <1>2, <1>3, <1>4, <1>5 DEF Agency, Wired
-----------------------------------------------------------------------------
(* A call is made by its chat, and then settled once.                      *)
CallMoves(c, q) ==
  \/ call'[q] = call[q]
  \/ \E t \in Tool : ToolCall(c, q, t)
  \/ /\ q \in Asked(c) /\ call'[q].chat = c /\ call'[q].tool = call[q].tool
     /\ call'[q].st \in {"allowed", "denied", "lost"}

LEMMA Resettled ==
  ASSUME TypeOK, NEW c \in Chat, NEW qs \in SUBSET Asked(c),
         NEW st \in {"denied", "allowed", "lost"}, Settle(qs, st), NEW q \in Call
  PROVE  /\ CallMoves(c, q)
         /\ q \in qs => call'[q].st = st
         /\ q \notin qs => call'[q] = call[q]
<1>1. \A p \in qs : p \in Call /\ call[p].st = "asked" /\ call[p].chat = c
  BY DEF Asked, Of
<1>2. /\ q \notin qs => call'[q] = call[q]
      /\ q \in qs => call'[q].st = st
      /\ call'[q].chat = call[q].chat /\ call'[q].tool = call[q].tool
  BY <1>1, Settles
<1> QED BY <1>1, <1>2 DEF CallMoves

LEMMA NewCalls ==
  ASSUME IInv, NEW c \in Chat, Act(c), NEW q \in Call
  PROVE  CallMoves(c, q)
<1> USE DEF IInv, gate
<1>1. CASE Registry(c)
  BY <1>1 DEF Registry, Create, Expire, Delete, Await, CloseReturns, CloseGivesUp,
              CallMoves
<1>2. CASE Closing(c)
  <2>1. CASE CloseGate(c)
    BY <2>1, Resettled DEF CloseGate
  <2> QED BY <1>2, <2>1 DEF Closing, CloseBackend, Disconnected, DisconnectFails,
                            Kill, CancelTurn, CallMoves
<1>3. CASE Agent(c)
  <2>1. CASE BackendDies(c)
    <3>1. Settle(Asked(c), "lost") \/ call' = call
      BY <2>1 DEF BackendDies
    <3> QED BY <3>1, Resettled DEF CallMoves
  <2>2. ASSUME NEW p \in Call, NEW t \in Tool, ToolCall(c, p, t)
        PROVE  CallMoves(c, q)
    BY <2>2 DEF ToolCall, TypeOK, CallMoves
  <2> QED BY <1>3, <2>1, <2>2 DEF Agent, Connected, ConnectFails, TurnBegins,
                                  TurnEnds, CallMoves
<1>4. CASE Socket(c)
  <2>1. CASE ReceiveAnswer(c)
    <3> DEFINE m == Head(inbox[c])
    <3>1. Resolve(c, m.id, m.answer)
      BY <2>1 DEF ReceiveAnswer
    <3> HIDE DEF m
    <3>2. CASE m.id \in Asked(c)
      <4>1. Settle({m.id}, IF m.answer = "deny" THEN "denied" ELSE "allowed")
        BY <3>1, <3>2 DEF Resolve
      <4> QED BY <3>2, <4>1, Resettled
    <3>3. CASE m.id \notin Asked(c)
      BY <3>1, <3>3 DEF Resolve, CallMoves
    <3> QED BY <3>2, <3>3
  <2>2. CASE ReceiveInterrupt(c)
    BY <2>2, Resettled DEF ReceiveInterrupt, CancelPending
  <2> QED BY <1>4, <2>1, <2>2 DEF Socket, Receiver, Attach, ReceiveText, Pump,
          PumpReturned, ReceiverEnds, PumpFails, HandlerEnds, HandlerReturns,
          HandlerGivesUp, HandlerLeaves, CallMoves
<1>5. CASE Browser(c)
  BY <1>5 DEF Browser, SendText, Interrupt, Click, Send, Drop, CallMoves
<1> QED BY <1>1, <1>2, <1>3, <1>4, <1>5 DEF Act

(* Where a close is.                                                       *)
LEMMA CloseMoves ==
  ASSUME IInv, NEW c \in Chat, Act(c)
  PROVE  /\ \/ closing'[c] = closing[c] /\ ~Closing(c)
            \/ closing[c] = "no" /\ closing'[c] = "gate" /\ ~Closing(c)
            \/ closing[c] \notin {"no", "done"} /\ closing'[c] \notin {"no", "gate"}
               /\ Closing(c)
         /\ c \in gateClosed' <=> c \in gateClosed \/ CloseGate(c)
         /\ CloseGate(c) => closing[c] = "gate" /\ closing'[c] = "backend"
         /\ closing[c] = "gate" => closing'[c] = "gate" \/ CloseGate(c)
<1> USE DEF IInv, TypeOK, gate
<1>1. CASE Closing(c)
  BY <1>1 DEF Closing, Step, CloseGate, CloseBackend, Disconnected,
              DisconnectFails, Kill, CancelTurn
<1>2. /\ Registry(c) \/ Agent(c) \/ Socket(c) \/ Browser(c)
      => /\ closing'[c] = closing[c] \/ (closing[c] = "no" /\ closing'[c] = "gate")
         /\ gateClosed' = gateClosed
  <2> USE DEF BeginClose, CloseChat
  <2>1. CASE Registry(c)
    BY <2>1 DEF Registry, Create, Expire, Delete, Await, CloseReturns, CloseGivesUp
  <2>2. CASE Agent(c)
    BY <2>2 DEF Agent, Connected, ConnectFails, TurnBegins, TurnEnds, BackendDies,
                ToolCall
  <2>3. CASE Socket(c)
    BY <2>3 DEF Socket, Receiver, Attach, ReceiveText, ReceiveAnswer,
          ReceiveInterrupt, Pump, PumpReturned, ReceiverEnds, PumpFails, HandlerEnds,
          HandlerReturns, HandlerGivesUp, HandlerLeaves
  <2>4. CASE Browser(c)
    BY <2>4 DEF Browser, SendText, Interrupt, Click, Send, Drop
  <2> QED BY <2>1, <2>2, <2>3, <2>4
<1>3. CASE ~Closing(c)
  BY <1>2, <1>3 DEF Act, Closing
<1> QED BY <1>1, <1>3

(* A shut gate asks nobody.                                                *)
LEMMA Decisions ==
  ASSUME NEW c \in Chat, NEW t \in Tool
  PROVE  /\ Decision(c, t) = "asked" =>
              Access[t] \in {"write", "write_once"} /\ c \notin gateClosed
         /\ Decision(c, t) = "allowed" =>
              \/ Access[t] = "read"
              \/ Access[t] = "write" /\ c \notin gateClosed /\ <<c, t>> \in approved
         /\ Decision(c, t) = "denied" => Access[t] = "never" \/ c \in gateClosed
         /\ Decision(c, t) \in {"asked", "allowed", "denied"}
BY ChatAssumption DEF Decision

LEMMA GateStep ==
  ASSUME IInv, NEW c \in Chat, Act(c)
  PROVE  GateShut(c)' /\ Asking(c)'
<1> USE DEF IInv, Agency
<1>1. ASSUME NEW q \in Call, call'[q].st = "asked", call'[q].chat = c
      PROVE  /\ Access[call'[q].tool] \in {"write", "write_once"}
             /\ c \notin gateClosed /\ ~CloseGate(c)
  <2>1. CASE call'[q] = call[q]
    <3>1. q \in Asked(c)
      BY <1>1, <2>1 DEF Asked, Of
    <3>2. CloseGate(c) => call'[q].st = "denied"
      BY <3>1, Resettled DEF CloseGate
    <3> QED BY <1>1, <2>1, <3>1, <3>2 DEF Asking, GateShut
  <2>2. ASSUME NEW t \in Tool, ToolCall(c, q, t)
        PROVE  /\ Access[call'[q].tool] \in {"write", "write_once"}
               /\ c \notin gateClosed /\ ~CloseGate(c)
    <3>1. call'[q] = [st |-> Decision(c, t), chat |-> c, tool |-> t]
      BY <2>2 DEF ToolCall, TypeOK
    <3>2. ~CloseGate(c)
      BY <2>2 DEF ToolCall, CloseGate, Step, TypeOK
    <3>3. Decision(c, t) = "asked" /\ call'[q].tool = t
      BY <1>1, <3>1
    <3>4. Access[t] \in {"write", "write_once"} /\ c \notin gateClosed
      BY <3>3, Decisions
    <3> QED BY <3>2, <3>3, <3>4
  <2> QED BY <1>1, <2>1, <2>2, NewCalls DEF CallMoves
<1>2. GateShut(c)'
  <2>1. closing'[c] \notin {"no", "gate"} => c \in gateClosed'
    BY CloseMoves DEF GateShut
  <2>2. c \in gateClosed' => Closed(c)' /\ Asked(c)' = {}
    BY <1>1, CloseMoves DEF GateShut, Closed, Asked, Of
  <2> QED BY <2>1, <2>2 DEF GateShut
<1>3. Asking(c)'
  BY <1>1 DEF Asking, Asked, Of
<1> QED BY <1>2, <1>3
(* The agent goes piece by piece: client, process, turn.                   *)
LEMMA BackedStep ==
  ASSUME IInv, NEW c \in Chat, Act(c)
  PROVE  Backed(c)'
<1> USE DEF IInv, TypeOK, Agency, Backed, Closed, Finished, reg, back
<1>1. CASE Registry(c)
  BY <1>1 DEF Registry, Create, Expire, Delete, Await, CloseChat, BeginClose,
              CloseReturns, CloseGivesUp
<1>2. CASE Closing(c)
  BY <1>2 DEF Closing, Step, CloseGate, CloseBackend, Disconnected,
              DisconnectFails, Kill, CancelTurn
<1>3. CASE Agent(c)
  <2>1. CASE Connected(c) \/ TurnBegins(c) \/ TurnEnds(c) \/ BackendDies(c)
    BY <2>1 DEF Connected, TurnBegins, TurnEnds, BackendDies
  <2>2. CASE ConnectFails(c)
    BY <2>2 DEF ConnectFails, BeginClose
  <2>3. ASSUME NEW q \in Call, NEW t \in Tool, ToolCall(c, q, t)
        PROVE  Backed(c)'
    BY <2>3 DEF ToolCall
  <2> QED BY <1>3, <2>1, <2>2, <2>3 DEF Agent
<1>4. CASE Socket(c)
  <2>1. CASE Attach(c)
    BY <2>1 DEF Attach, Unattached
  <2>2. CASE Receiver(c)
    BY <2>2 DEF Receiver, ReceiveText, ReceiveAnswer, ReceiveInterrupt
  <2>3. CASE Pump(c) \/ PumpReturned(c) \/ ReceiverEnds(c) \/ PumpFails(c)
    BY <2>3 DEF Pump, PumpReturned, ReceiverEnds, PumpFails, HandlerEnds,
                CloseChat, BeginClose
  <2>4. CASE HandlerReturns(c) \/ HandlerGivesUp(c)
    BY <2>4 DEF HandlerReturns, HandlerGivesUp, HandlerLeaves
  <2> QED BY <1>4, <2>1, <2>2, <2>3, <2>4 DEF Socket
<1>5. CASE Browser(c)
  BY <1>5 DEF Browser, SendText, Interrupt, Click, Send, Drop
<1> QED BY <1>1, <1>2, <1>3, <1>4, <1>5 DEF Act

(* A chat that was used stays registered until it is finished.             *)
LEMMA ReachedStep ==
  ASSUME IInv, NEW c \in Chat, Act(c)
  PROVE  Reached(c)'
<1> USE DEF IInv, TypeOK, Agency, Reached, Closed, Finished, reg, back
<1>1. CASE Registry(c)
  BY <1>1 DEF Registry, Create, Expire, Delete, Await, CloseChat, BeginClose,
              CloseReturns, CloseGivesUp
<1>2. CASE Closing(c)
  BY <1>2 DEF Closing, Step, CloseGate, CloseBackend, Disconnected,
              DisconnectFails, Kill, CancelTurn
<1>3. CASE Agent(c)
  <2>1. CASE Connected(c) \/ TurnBegins(c) \/ TurnEnds(c) \/ BackendDies(c)
    BY <2>1 DEF Connected, TurnBegins, TurnEnds, BackendDies
  <2>2. CASE ConnectFails(c)
    BY <2>2 DEF ConnectFails, BeginClose
  <2>3. ASSUME NEW q \in Call, NEW t \in Tool, ToolCall(c, q, t)
        PROVE  Reached(c)'
    BY <2>3 DEF ToolCall
  <2> QED BY <1>3, <2>1, <2>2, <2>3 DEF Agent
<1>4. CASE Socket(c)
  <2>1. CASE Attach(c)
    BY <2>1 DEF Attach, Unattached
  <2>2. CASE Receiver(c)
    BY <2>2 DEF Receiver, ReceiveText, ReceiveAnswer, ReceiveInterrupt, Receive,
                Started
  <2>3. CASE Pump(c) \/ PumpReturned(c) \/ ReceiverEnds(c) \/ PumpFails(c)
    BY <2>3 DEF Pump, PumpReturned, ReceiverEnds, PumpFails, HandlerEnds,
                CloseChat, BeginClose
  <2>4. CASE HandlerReturns(c) \/ HandlerGivesUp(c)
    BY <2>4 DEF HandlerReturns, HandlerGivesUp, HandlerLeaves
  <2> QED BY <1>4, <2>1, <2>2, <2>3, <2>4 DEF Socket
<1>5. CASE Browser(c)
  BY <1>5 DEF Browser, SendText, Interrupt, Click, Send, Drop
<1> QED BY <1>1, <1>2, <1>3, <1>4, <1>5 DEF Act

(* Before a socket has attached nothing is used.                           *)
LEMMA UnusedStep ==
  ASSUME IInv, NEW c \in Chat, Act(c)
  PROVE  Unused(c)'
<1> SUFFICES ASSUME handler'[c] = "none"
             PROVE  start'[c] = "none" /\ turn'[c] = "none" /\ Of(c)' = {}
  BY DEF Unused
<1> USE DEF IInv, TypeOK, Agency
<1>1. handler[c] = "none" /\ start'[c] = start[c] /\ (turn'[c] = "none" \/ turn'[c] = turn[c])
  <2> USE DEF back, wire
  <2>1. CASE Registry(c) \/ Closing(c)
    BY <2>1 DEF Registry, Create, Expire, Delete, Await, CloseReturns, CloseGivesUp,
          Closing, CloseGate, CloseBackend, Disconnected, DisconnectFails, Kill,
          CancelTurn, Unused
  <2>2. CASE Agent(c)
    BY <2>2 DEF Agent, Connected, ConnectFails, TurnBegins, TurnEnds, BackendDies,
          ToolCall, Unused
  <2>3. CASE Socket(c)
    <3>1. CASE Attach(c)
      BY <3>1 DEF Attach
    <3>2. CASE Receiver(c)
      BY <3>2 DEF Receiver, ReceiveText, ReceiveAnswer, ReceiveInterrupt, Receive,
                  Started, Unused
    <3>3. CASE Pump(c)
      BY <3>3 DEF Pump, Unused
    <3>4. CASE PumpReturned(c) \/ ReceiverEnds(c) \/ PumpFails(c)
      BY <3>4 DEF PumpReturned, ReceiverEnds, PumpFails, HandlerEnds
    <3>5. CASE HandlerReturns(c) \/ HandlerGivesUp(c)
      BY <3>5 DEF HandlerReturns, HandlerGivesUp, HandlerLeaves
    <3> QED BY <2>3, <3>1, <3>2, <3>3, <3>4, <3>5 DEF Socket
  <2>4. CASE Browser(c)
    BY <2>4 DEF Browser, SendText, Interrupt, Click, Send, Drop, Unused
  <2> QED BY <2>1, <2>2, <2>3, <2>4 DEF Act
<1>2. start[c] = "none" /\ turn[c] = "none" /\ Of(c) = {}
  BY <1>1 DEF Unused
<1>3. ASSUME NEW q \in Call
      PROVE  call'[q].chat # c
  <2>1. \A t \in Tool : ~ToolCall(c, q, t)
    BY <1>2 DEF ToolCall
  <2>2. CallMoves(c, q)
    BY NewCalls
  <2>3. q \notin Of(c) /\ q \notin Asked(c)
    BY <1>2 DEF Asked
  <2> QED BY <2>1, <2>2, <2>3 DEF CallMoves, Of
<1> QED BY <1>1, <1>2, <1>3 DEF Of
-----------------------------------------------------------------------------
(* What the browser sends, and what it is told.                            *)
LEMMA Received ==
  ASSUME TypeOK, NEW c \in Chat, NEW kind, Receive(c, kind)
  PROVE  /\ Head(inbox[c]) \in Message /\ Head(inbox[c]).type = kind
         /\ 1 \in DOMAIN inbox[c] /\ Head(inbox[c]) = inbox[c][1]
         /\ inbox'[c] = Tail(inbox[c])
<1>1. inbox[c] \in Seq(Message) /\ inbox[c] # <<>>
  BY DEF TypeOK, Receive
<1>2. 1 \in DOMAIN inbox[c] /\ Head(inbox[c]) = inbox[c][1]
  BY <1>1
<1>3. Head(inbox[c]) \in Message
  BY <1>1, HeadTailProperties
<1> QED BY <1>2, <1>3 DEF Receive, TypeOK

LEMMA SaidGrows ==
  ASSUME TypeOK, NEW c \in Chat, Act(c)
  PROVE  \A q \in Call : said[q] \subseteq said'[q]
<1> USE DEF TypeOK, card
<1>1. CASE Registry(c) \/ Closing(c) \/ Agent(c)
  BY <1>1 DEF Registry, Create, Expire, Delete, Await, CloseReturns, CloseGivesUp,
        Closing, CloseGate, CloseBackend, Disconnected, DisconnectFails, Kill,
        CancelTurn, Agent, Connected, ConnectFails, TurnBegins, TurnEnds,
        BackendDies, ToolCall
<1>2. CASE Socket(c)
  BY <1>2 DEF Socket, Receiver, Attach, ReceiveText, ReceiveAnswer, ReceiveInterrupt,
        Pump, PumpReturned, ReceiverEnds, PumpFails, HandlerEnds, HandlerReturns,
        HandlerGivesUp, HandlerLeaves
<1>3. CASE Browser(c)
  BY <1>3 DEF Browser, SendText, Interrupt, Click, Drop
<1> QED BY <1>1, <1>2, <1>3 DEF Act

(* A message is taken from the inbox, or added to it.                      *)
LEMMA InboxMoves ==
  ASSUME TypeOK, NEW c \in Chat, Act(c)
  PROVE  \/ inbox'[c] = inbox[c]
         \/ inbox'[c] = Tail(inbox[c]) /\ inbox[c] # <<>>
         \/ inbox'[c] = <<>>
         \/ \E m \in Message :
              /\ inbox'[c] = Append(inbox[c], m)
              /\ m.type = "approval" => m.answer \in said'[m.id]
<1> USE DEF TypeOK, wire
<1>1. CASE Registry(c) \/ Closing(c) \/ Agent(c)
  BY <1>1 DEF Registry, Create, Expire, Delete, Await, CloseReturns, CloseGivesUp,
        Closing, CloseGate, CloseBackend, Disconnected, DisconnectFails, Kill,
        CancelTurn, Agent, Connected, ConnectFails, TurnBegins, TurnEnds,
        BackendDies, ToolCall
<1>2. CASE Socket(c)
  <2>1. CASE Receiver(c)
    BY <2>1 DEF Receiver, ReceiveText, ReceiveAnswer, ReceiveInterrupt, Receive
  <2>2. CASE Attach(c) \/ Pump(c) \/ PumpReturned(c) \/ ReceiverEnds(c) \/ PumpFails(c)
    BY <2>2 DEF Attach, Pump, PumpReturned, ReceiverEnds, PumpFails, HandlerEnds
  <2>3. CASE HandlerReturns(c) \/ HandlerGivesUp(c)
    BY <2>3 DEF HandlerReturns, HandlerGivesUp, HandlerLeaves
  <2> QED BY <1>2, <2>1, <2>2, <2>3 DEF Socket
<1>3. CASE Browser(c)
  <2>1. CASE SendText(c) \/ Interrupt(c)
    <3>1. PICK m \in [type : {"user_message", "interrupt"}] :
                 inbox' = [inbox EXCEPT ![c] = Append(inbox[c], m)]
      BY <2>1 DEF SendText, Interrupt, Send
    <3>2. m \in Message /\ m.type # "approval"
      BY DEF Message
    <3> QED BY <3>1, <3>2
  <2>2. ASSUME NEW q \in Call, NEW a \in Answer, Click(c, q, a)
        PROVE  \E m \in Message : /\ inbox'[c] = Append(inbox[c], m)
                                  /\ m.type = "approval" => m.answer \in said'[m.id]
    <3> DEFINE m == [type |-> "approval", id |-> q, answer |-> a]
    <3>1. m \in Message /\ m.id = q /\ m.answer = a
      BY DEF Message
    <3>2. inbox'[c] = Append(inbox[c], m) /\ a \in said'[q]
      BY <2>2 DEF Click, Send
    <3> QED BY <3>1, <3>2
  <2>3. CASE Drop(c)
    BY <2>3 DEF Drop
  <2> QED BY <1>3, <2>1, <2>2, <2>3 DEF Browser
<1> QED BY <1>1, <1>2, <1>3 DEF Act

LEMMA ClickedStep ==
  ASSUME IInv, NEW c \in Chat, Act(c)
  PROVE  Clicked(c)'
<1>1. \A i \in DOMAIN inbox[c] :
        inbox[c][i].type = "approval" => inbox[c][i].answer \in said'[inbox[c][i].id]
  <2> SUFFICES ASSUME NEW i \in DOMAIN inbox[c], inbox[c][i].type = "approval"
               PROVE  inbox[c][i].answer \in said'[inbox[c][i].id]
    OBVIOUS
  <2>1. inbox[c][i] \in Message
    BY DEF IInv, TypeOK
  <2>2. inbox[c][i].id \in Call
    BY <2>1 DEF Message
  <2> QED BY <2>2, SaidGrows DEF IInv, Wired, Clicked
<1>2. inbox[c] \in Seq(Message)
  BY DEF IInv, TypeOK
<1>3. CASE inbox'[c] = inbox[c]
  BY <1>1, <1>3 DEF Clicked
<1>4. CASE inbox'[c] = Tail(inbox[c]) /\ inbox[c] # <<>>
  <2>1. \A i \in DOMAIN inbox'[c] : i + 1 \in DOMAIN inbox[c] /\ inbox'[c][i] = inbox[c][i + 1]
    BY <1>2, <1>4
  <2> QED BY <1>1, <2>1 DEF Clicked
<1>5. CASE inbox'[c] = <<>>
  BY <1>5 DEF Clicked
<1>6. ASSUME NEW m \in Message, inbox'[c] = Append(inbox[c], m),
             m.type = "approval" => m.answer \in said'[m.id]
      PROVE  Clicked(c)'
  <2>1. \A i \in DOMAIN inbox'[c] :
          inbox'[c][i] = m \/ (i \in DOMAIN inbox[c] /\ inbox'[c][i] = inbox[c][i])
    BY <1>2, <1>6
  <2> QED BY <1>1, <1>6, <2>1 DEF Clicked
<1>7. TypeOK
  BY DEF IInv
<1> QED BY <1>3, <1>4, <1>5, <1>6, <1>7, InboxMoves

(* An approval for the whole chat rests on a call that was so approved.    *)
LEMMA GrantedStep ==
  ASSUME IInv, NEW c \in Chat, Act(c)
  PROVE  Granted(c)'
<1> USE DEF IInv
<1> SUFFICES ASSUME NEW t \in Tool, <<c, t>> \in approved'
             PROVE  P!Standing(c, t)'
  BY DEF Granted
<1>1. CASE <<c, t>> \in approved
  <2>1. PICK q \in Call : /\ call[q].st = "allowed" /\ "chat" \in said[q]
                          /\ call[q].chat = c /\ call[q].tool = t
    BY <1>1 DEF Agency, Granted, P!Standing
  <2>2. t \notin P!Once
    BY <1>1 DEF Agency, Granted, P!Standing
  <2>3. call'[q] = call[q]
    <3>1. call[q].st # "asked" /\ call[q] # Idle
      BY <2>1 DEF Idle
    <3>2. CallMoves(c, q)
      BY NewCalls
    <3> QED BY <3>1, <3>2 DEF CallMoves, ToolCall, Fresh, Asked
  <2> QED BY <2>1, <2>2, <2>3, SaidGrows DEF P!Standing, P!Once
<1>2. CASE <<c, t>> \notin approved
  <2>1. ReceiveAnswer(c)
    <3>1. CASE Registry(c) \/ Closing(c) \/ Agent(c)
      BY <1>2, <3>1 DEF gate, Registry, Create, Expire, Delete, Await, CloseReturns,
            CloseGivesUp, Closing, CloseGate, CloseBackend, Disconnected,
            DisconnectFails, Kill, CancelTurn, Agent, Connected, ConnectFails,
            TurnBegins, TurnEnds, BackendDies, ToolCall
    <3>2. CASE Socket(c)
      BY <1>2, <3>2 DEF gate, Socket, Receiver, Attach, ReceiveText,
            ReceiveInterrupt, Pump, PumpReturned, ReceiverEnds, PumpFails,
            HandlerEnds, HandlerReturns, HandlerGivesUp, HandlerLeaves
    <3>3. CASE Browser(c)
      BY <1>2, <3>3 DEF gate, Browser, SendText, Interrupt, Click, Send, Drop
    <3> QED BY <3>1, <3>2, <3>3 DEF Act
  <2> DEFINE m == Head(inbox[c])
  <2>2. Resolve(c, m.id, m.answer) /\ Receive(c, "approval")
    BY <2>1 DEF ReceiveAnswer
  <2>3. m \in Message /\ m.type = "approval" /\ m = inbox[c][1] /\ 1 \in DOMAIN inbox[c]
    BY <2>2, Received
  <2>4. m.answer \in said[m.id] /\ m.id \in Call
    BY <2>3 DEF Wired, Clicked, Message
  <2> HIDE DEF m
  <2>5. /\ m.id \in Asked(c) /\ m.answer = "chat"
        /\ t = call[m.id].tool /\ Access[t] # "write_once"
        /\ Settle({m.id}, "allowed")
    BY <1>2, <2>2 DEF Resolve
  <2>6. call'[m.id].st = "allowed"
    BY <2>4, <2>5, Resettled
  <2>7. call'[m.id].chat = c /\ call'[m.id].tool = t
    <3>1. \A q \in {m.id} : q \in Call /\ call[q].st = "asked"
      BY <2>5 DEF Asked, Of
    <3>2. call'[m.id].chat = call[m.id].chat /\ call'[m.id].tool = call[m.id].tool
      BY <2>4, <2>5, <3>1, Settles
    <3> QED BY <2>5, <3>2 DEF Asked, Of
  <2> QED BY <2>4, <2>5, <2>6, <2>7, SaidGrows DEF P!Standing, P!Once
<1> QED BY <1>1, <1>2
-----------------------------------------------------------------------------
(* The event the pump takes is the first one.                              *)
LEMMA Pumped ==
  ASSUME TypeOK, NEW c \in Chat, Pump(c)
  PROVE  /\ 1 \in DOMAIN out[c] /\ Head(out[c]) = out[c][1]
         /\ Head(out[c]) \in CallEvent \cup {ClosedEvent}
         /\ Head(out[c]).type = "closed" <=> Head(out[c]) = ClosedEvent
         /\ \A i \in DOMAIN Tail(out[c]) :
              i + 1 \in DOMAIN out[c] /\ Tail(out[c])[i] = out[c][i + 1]
         /\ \A i \in DOMAIN out[c] :
              i > 1 => i - 1 \in DOMAIN Tail(out[c]) /\ Tail(out[c])[i - 1] = out[c][i]
         /\ \/ /\ Head(out[c]).type = "closed" /\ sock'[c] = "shut" /\ out'[c] = <<>>
               /\ shown' = shown \ Of(c)
            \/ /\ Head(out[c]).type # "closed"
               /\ out'[c] = Tail(out[c])
               /\ shown' = IF Head(out[c]).type = "approval_request"
                           THEN shown \cup {Head(out[c]).id}
                           ELSE shown \ {Head(out[c]).id}
<1>1. out[c] \in Seq(CallEvent \cup {ClosedEvent}) /\ out[c] # <<>>
  BY DEF TypeOK, Pump
<1>2. 1 \in DOMAIN out[c] /\ Head(out[c]) = out[c][1]
  BY <1>1
<1>3. Head(out[c]) \in CallEvent \cup {ClosedEvent}
  BY <1>1, HeadTailProperties
<1>4. Head(out[c]).type = "closed" <=> Head(out[c]) = ClosedEvent
  BY <1>3 DEF CallEvent, ClosedEvent, Event
<1>5. \A i \in DOMAIN Tail(out[c]) :
        i + 1 \in DOMAIN out[c] /\ Tail(out[c])[i] = out[c][i + 1]
  BY <1>1
<1>6. \A i \in DOMAIN out[c] :
        i > 1 => i - 1 \in DOMAIN Tail(out[c]) /\ Tail(out[c])[i - 1] = out[c][i]
  BY <1>1
<1>7. CASE Head(out[c]).type = "closed"
  <2>1. sock'[c] = "shut" /\ out'[c] = <<>> /\ shown' = shown \ Of(c)
    BY <1>7 DEF Pump, TypeOK
  <2> QED BY <1>2, <1>3, <1>4, <1>5, <1>6, <1>7, <2>1
<1>8. CASE Head(out[c]).type # "closed"
  <2>1. /\ out'[c] = Tail(out[c])
        /\ shown' = IF Head(out[c]).type = "approval_request"
                    THEN shown \cup {Head(out[c]).id}
                    ELSE shown \ {Head(out[c]).id}
    BY <1>8 DEF Pump, TypeOK
  <2> QED BY <1>2, <1>3, <1>4, <1>5, <1>6, <1>8, <2>1
<1> QED BY <1>7, <1>8

(* An event is sent as one of these.                                       *)
Sent(c, es) ==
  /\ out'[c] = out[c] \o es /\ shown' = shown /\ sock'[c] = sock[c]
  /\ \/ es = <<ClosedEvent>> /\ Closed(c) /\ call' = call
     \/ \E q \in Call, t \in Tool :
          /\ ToolCall(c, q, t)
          /\ es = IF Decision(c, t) = "asked"
                  THEN <<Event("approval_request", q)>> ELSE <<>>
     \/ \E qs \in SUBSET Asked(c), st \in {"denied", "allowed"} :
          /\ Settle(qs, st)
          /\ \A i \in DOMAIN es : es[i].type = "approval_resolved" /\ es[i].id \in qs
          /\ \A q \in qs : \E i \in DOMAIN es : es[i] = Event("approval_resolved", q)

(* What becomes of the events for a browser, and of its cards.             *)
OutMoves(c) ==
  \/ /\ out'[c] = out[c] /\ shown' = shown
     /\ sock'[c] # "open" \/ Closing(c) \/ BackendDies(c) \/ call' = call
  \/ out'[c] = <<>> /\ sock'[c] # "open" /\ shown' \subseteq shown
  \/ Pump(c) /\ call' = call
  \/ \E es \in Seq(CallEvent \cup {ClosedEvent}) : Sent(c, es)

LEMMA TellsSent ==
  ASSUME TypeOK, NEW c \in Chat, NEW qs \in SUBSET Asked(c),
         NEW st \in {"denied", "allowed"}, Tells(c, qs, st),
         sock' = sock, shown' = shown
  PROVE  OutMoves(c)
<1>1. PICK es \in Seq(CallEvent) :
        /\ Settle(qs, st) /\ Emit(c, es)
        /\ \A i \in DOMAIN es : es[i].type = "approval_resolved" /\ es[i].id \in qs
        /\ \A q \in qs : \E i \in DOMAIN es : es[i] = Event("approval_resolved", q)
  BY DEF Tells
<1>2. es \in Seq(CallEvent \cup {ClosedEvent})
  BY SeqMonotonic
<1>3. CASE sock[c] = "open"
  <2>1. out'[c] = out[c] \o es
    BY <1>1, <1>2, <1>3, Emits
  <2> QED BY <1>1, <1>2, <2>1 DEF OutMoves, Sent
<1>4. CASE sock[c] # "open"
  <2>1. out'[c] = out[c]
    BY <1>1, <1>2, <1>4, Emits
  <2> QED BY <1>4, <2>1 DEF OutMoves
<1> QED BY <1>3, <1>4

LEMMA NewOut ==
  ASSUME IInv, NEW c \in Chat, Act(c)
  PROVE  OutMoves(c)
<1> USE DEF IInv
<1>1. CASE Registry(c)
  BY <1>1 DEF wire, card, gate, Registry, Create, Expire, Delete, Await,
              CloseReturns, CloseGivesUp, OutMoves
<1>2. CASE Closing(c)
  <2>1. CASE CloseGate(c) \/ CloseBackend(c) \/ DisconnectFails(c) \/ Kill(c)
    BY <1>2, <2>1 DEF wire, card, CloseGate, CloseBackend, DisconnectFails, Kill,
                      OutMoves
  <2>2. CASE Disconnected(c) \/ CancelTurn(c)
    <3>1. /\ Emit(c, <<ClosedEvent>>) /\ sock' = sock /\ shown' = shown
          /\ call' = call /\ Closed(c)
      BY <2>2 DEF Disconnected, CancelTurn, card, gate, Step, Closed
    <3>2. <<ClosedEvent>> \in Seq(CallEvent \cup {ClosedEvent})
      OBVIOUS
    <3>3. out'[c] = out[c] \o <<ClosedEvent>> \/ out'[c] = out[c]
      BY <3>1, <3>2, Emits
    <3> QED BY <1>2, <3>1, <3>2, <3>3 DEF OutMoves, Sent
  <2> QED BY <1>2, <2>1, <2>2 DEF Closing
<1>3. CASE Agent(c)
  <2>1. ASSUME NEW q \in Call, NEW t \in Tool, ToolCall(c, q, t)
        PROVE  OutMoves(c)
    <3> DEFINE es == IF Decision(c, t) = "asked"
                     THEN <<Event("approval_request", q)>> ELSE <<>>
    <3>1. es \in Seq(CallEvent \cup {ClosedEvent})
      <4>1. Event("approval_request", q) \in CallEvent
        BY DEF CallEvent, Event
      <4>2. /\ <<Event("approval_request", q)>> \in Seq(CallEvent \cup {ClosedEvent})
            /\ <<>> \in Seq(CallEvent \cup {ClosedEvent})
        BY <4>1
      <4> QED BY <4>2
    <3>2. Emit(c, es) /\ sock' = sock /\ shown' = shown
      BY <2>1 DEF ToolCall, card
    <3>3. out'[c] = out[c] \o es \/ (out'[c] = out[c] /\ sock[c] # "open")
      <4> HIDE DEF es
      <4> QED BY <3>1, <3>2, Emits
    <3>4. es = IF Decision(c, t) = "asked"
               THEN <<Event("approval_request", q)>> ELSE <<>>
      OBVIOUS
    <3> HIDE DEF es
    <3> QED BY <2>1, <3>1, <3>2, <3>3, <3>4 DEF OutMoves, Sent
  <2> QED BY <1>3, <2>1 DEF Agent, Connected, ConnectFails, TurnBegins, TurnEnds,
                            BackendDies, wire, card, gate, OutMoves
<1>4. CASE Socket(c)
  <2>1. CASE Attach(c) \/ ReceiveText(c)
    BY <2>1 DEF Attach, ReceiveText, card, gate, OutMoves
  <2>2. CASE ReceiveAnswer(c)
    <3> DEFINE m == Head(inbox[c])
    <3>1. Resolve(c, m.id, m.answer) /\ sock' = sock /\ shown' = shown
      BY <2>2 DEF ReceiveAnswer, card
    <3> HIDE DEF m
    <3>2. CASE m.id \in Asked(c)
      <4>1. Tells(c, {m.id}, IF m.answer = "deny" THEN "denied" ELSE "allowed")
        BY <3>1, <3>2, ResolveTells
      <4> QED BY <3>1, <3>2, <4>1, TellsSent
    <3>3. CASE m.id \notin Asked(c)
      BY <3>1, <3>3 DEF Resolve, OutMoves
    <3> QED BY <3>2, <3>3
  <2>3. CASE ReceiveInterrupt(c)
    <3>1. Tells(c, Asked(c), "denied") /\ sock' = sock /\ shown' = shown
      BY <2>3, CancelTells DEF ReceiveInterrupt, card
    <3> QED BY <3>1, TellsSent
  <2>4. CASE Pump(c)
    BY <2>4 DEF Pump, gate, OutMoves
  <2>5. CASE PumpReturned(c) \/ ReceiverEnds(c) \/ PumpFails(c)
    BY <2>5 DEF PumpReturned, ReceiverEnds, PumpFails, HandlerEnds, card, gate,
                OutMoves
  <2>6. CASE HandlerReturns(c) \/ HandlerGivesUp(c)
    <3>1. out'[c] = <<>> /\ sock'[c] = "shut" /\ shown' = shown
      BY <2>6 DEF HandlerReturns, HandlerGivesUp, HandlerLeaves, card, TypeOK
    <3> QED BY <3>1 DEF OutMoves
  <2> QED BY <1>4, <2>1, <2>2, <2>3, <2>4, <2>5, <2>6 DEF Socket, Receiver
<1>5. CASE Browser(c)
  <2>1. CASE Drop(c)
    <3>1. out'[c] = <<>> /\ sock'[c] = "gone" /\ shown' \subseteq shown
      BY <2>1 DEF Drop, TypeOK
    <3> QED BY <3>1 DEF OutMoves
  <2> QED BY <1>5, <2>1 DEF Browser, SendText, Interrupt, Click, Send, gate, OutMoves
<1> QED BY <1>1, <1>2, <1>3, <1>4, <1>5 DEF Act
(* Events that are added come after those that are there.                  *)
LEMMA Added ==
  ASSUME NEW S, NEW s \in Seq(S), NEW t \in Seq(S)
  PROVE  /\ \A i \in DOMAIN (s \o t) :
              \/ i \in DOMAIN s /\ (s \o t)[i] = s[i]
              \/ \E k \in DOMAIN t : i = Len(s) + k /\ (s \o t)[i] = t[k]
         /\ \A i \in DOMAIN s : i \in DOMAIN (s \o t) /\ (s \o t)[i] = s[i]
         /\ \A k \in DOMAIN t : /\ Len(s) + k \in DOMAIN (s \o t)
                                /\ (s \o t)[Len(s) + k] = t[k]
                                /\ \A i \in DOMAIN s : Len(s) + k > i
                                /\ Len(s) + k > 0
<1>1. /\ s \o t \in Seq(S) /\ Len(s \o t) = Len(s) + Len(t)
      /\ \A i \in 1..(Len(s) + Len(t)) :
           (s \o t)[i] = IF i <= Len(s) THEN s[i] ELSE t[i - Len(s)]
  BY ConcatProperties
<1>2. /\ Len(s) \in Nat /\ Len(t) \in Nat
      /\ DOMAIN s = 1..Len(s) /\ DOMAIN t = 1..Len(t)
      /\ DOMAIN (s \o t) = 1..(Len(s) + Len(t))
  BY <1>1
<1> DEFINE st == s \o t
<1>3. ASSUME NEW i \in DOMAIN st
      PROVE  \/ i \in DOMAIN s /\ st[i] = s[i]
             \/ \E k \in DOMAIN t : i = Len(s) + k /\ st[i] = t[k]
  <2>1. CASE i <= Len(s)
    BY <1>1, <1>2, <2>1
  <2>2. CASE ~(i <= Len(s))
    <3>1. i - Len(s) \in DOMAIN t /\ i = Len(s) + (i - Len(s)) /\ st[i] = t[i - Len(s)]
      BY <1>1, <1>2, <2>2
    <3> QED BY <3>1
  <2> QED BY <2>1, <2>2
<1>4. \A i \in DOMAIN s : i \in DOMAIN st /\ st[i] = s[i]
  BY <1>1, <1>2
<1>5. ASSUME NEW k \in DOMAIN t
      PROVE  /\ Len(s) + k \in DOMAIN st /\ st[Len(s) + k] = t[k]
             /\ \A i \in DOMAIN s : Len(s) + k > i
             /\ Len(s) + k > 0
  <2>1. Len(s) + k \in 1..(Len(s) + Len(t)) /\ ~(Len(s) + k <= Len(s))
        /\ (Len(s) + k) - Len(s) = k
    BY <1>2
  <2> QED BY <1>1, <1>2, <2>1
<1> QED BY <1>3, <1>4, <1>5

LEMMA OfGrows ==
  ASSUME IInv, NEW c \in Chat, Act(c)
  PROVE  Of(c) \subseteq Of(c)'
<1> SUFFICES ASSUME NEW q \in Of(c) PROVE call'[q].chat = c
  BY DEF Of
<1>1. q \in Call /\ call[q].chat = c /\ call[q] # Idle
  BY ChatAssumption DEF Of, Idle
<1> QED BY <1>1, NewCalls DEF CallMoves, ToolCall, Fresh

(* A call that a chat makes is its own.                                    *)
LEMMA Fetched ==
  ASSUME IInv, NEW c \in Chat, NEW q \in Call, NEW t \in Tool, ToolCall(c, q, t)
  PROVE  /\ call[q] = Idle /\ q \notin Of(c) /\ q \in Of(c)'
         /\ \A p \in Call \ {q} : call'[p] = call[p]
         /\ call'[q].st = Decision(c, t)
<1>1. call' = [call EXCEPT ![q] = [st |-> Decision(c, t), chat |-> c, tool |-> t]]
  BY DEF ToolCall
<1>2. call[q] = Idle /\ Idle.chat # c
  BY ChatAssumption DEF ToolCall, Fresh, Idle
<1> QED BY <1>1, <1>2 DEF Of, IInv, TypeOK

LEMMA EventsStep ==
  ASSUME IInv, NEW c \in Chat, Act(c)
  PROVE  Events(c)'
<1> USE DEF IInv
<1>0. \A i \in DOMAIN out[c] : out[c][i] # ClosedEvent => out[c][i].id \in Of(c)'
  BY OfGrows DEF Wired, Events
<1>1. CASE out'[c] = out[c] \/ out'[c] = <<>>
  BY <1>0, <1>1 DEF Events
<1>2. CASE Pump(c)
  <2>1. CASE out'[c] = <<>>
    BY <2>1 DEF Events
  <2>2. CASE out'[c] = Tail(out[c])
    BY <1>0, <1>2, <2>2, Pumped DEF Events
  <2> QED BY <1>2, <2>1, <2>2, Pumped
<1>3. ASSUME NEW es \in Seq(CallEvent \cup {ClosedEvent}), Sent(c, es)
      PROVE  Events(c)'
  <2>1. \A k \in DOMAIN es : es[k] # ClosedEvent => es[k].id \in Of(c)'
    <3>1. CASE es = <<ClosedEvent>>
      BY <3>1
    <3>2. ASSUME NEW q \in Call, NEW t \in Tool, ToolCall(c, q, t),
                 es = IF Decision(c, t) = "asked"
                      THEN <<Event("approval_request", q)>> ELSE <<>>
          PROVE  \A k \in DOMAIN es : es[k].id \in Of(c)'
      BY <3>2, Fetched DEF Event
    <3>3. ASSUME NEW qs \in SUBSET Asked(c), \A i \in DOMAIN es : es[i].id \in qs
          PROVE  \A k \in DOMAIN es : es[k].id \in Of(c)'
      BY <3>3, OfGrows DEF Asked
    <3> QED BY <1>3, <3>1, <3>2, <3>3 DEF Sent
  <2>2. out[c] \in Seq(CallEvent \cup {ClosedEvent}) /\ out'[c] = out[c] \o es
    BY <1>3 DEF TypeOK, Sent
  <2> QED BY <1>0, <2>1, <2>2, Added DEF Events
<1> QED BY <1>1, <1>2, <1>3, NewOut DEF OutMoves

LEMMA CardedStep ==
  ASSUME IInv, NEW c \in Chat, Act(c)
  PROVE  Carded'
<1> USE DEF IInv
<1>1. \A q \in Call : call[q] # Idle => call'[q] # Idle
  <2> SUFFICES ASSUME NEW q \in Call, call[q] # Idle PROVE call'[q] # Idle
    OBVIOUS
  <2>1. \A t \in Tool : ~ToolCall(c, q, t)
    BY DEF ToolCall, Fresh
  <2> QED BY <2>1, NewCalls DEF CallMoves, Idle
<1>2. \A q \in shown' : q \in shown \/ q \in Of(c)
  <2>1. CASE Pump(c)
    BY <2>1, Pumped DEF Wired, Events
  <2>2. CASE shown' \subseteq shown
    BY <2>2
  <2> QED BY <2>1, <2>2, NewOut DEF OutMoves, Sent
<1>3. \A q \in Of(c) : q \in Call /\ call[q] # Idle
  BY ChatAssumption DEF Of, Idle
<1>4. Idle' = Idle /\ shown \subseteq Call
  BY DEF Idle, TypeOK
<1> QED BY <1>1, <1>2, <1>3, <1>4 DEF Carded

LEMMA SettledStep ==
  ASSUME IInv, NEW c \in Chat, Act(c)
  PROVE  Settled(c)'
<1> SUFFICES ASSUME sock'[c] = "open", ~Closed(c)', NEW q \in Of(c)',
                    call'[q].st \notin {"asked", "lost"}
             PROVE  Told(c, q)'
  BY DEF Settled
<1> USE DEF IInv
<1>1. q \in Call /\ ~Closed(c) /\ ~Closing(c)
  BY CloseMoves DEF Of, Closed
<1>2. sock[c] = "open" \/ (Of(c) = {} /\ call' = call)
  <2>1. CASE Attach(c)
    BY <2>1 DEF Attach, Unattached, Agency, Unused, gate
  <2>2. CASE ~Attach(c)
    <3>1. sock'[c] = sock[c] \/ sock'[c] # "open"
      <4> USE DEF wire
      <4>1. CASE Registry(c) \/ Agent(c)
        BY <4>1 DEF Registry, Create, Expire, Delete, Await, CloseReturns,
              CloseGivesUp, Agent, Connected, ConnectFails, TurnBegins, TurnEnds,
              BackendDies, ToolCall
      <4>2. CASE Socket(c)
        BY <2>2, <4>2 DEF Socket, Receiver, ReceiveText, ReceiveAnswer,
              ReceiveInterrupt, Pump, PumpReturned, ReceiverEnds, PumpFails,
              HandlerEnds, HandlerReturns, HandlerGivesUp, HandlerLeaves, TypeOK
      <4>3. CASE Browser(c)
        BY <4>3 DEF Browser, SendText, Interrupt, Click, Send, Drop, TypeOK
      <4> QED BY <1>1, <4>1, <4>2, <4>3 DEF Act
    <3> QED BY <3>1
  <2> QED BY <2>1, <2>2
<1>3. q \in Of(c) /\ call[q].st \notin {"asked", "lost"} => Told(c, q)
  <2>1. q \in Of(c) => sock[c] = "open"
    BY <1>2
  <2> QED BY <1>1, <2>1 DEF Wired, Settled
<1>4. \A i \in DOMAIN out[c] : out[c][i] # ClosedEvent => out[c][i].id \in Of(c)
  BY DEF Wired, Events
<1>5. CASE /\ out'[c] = out[c] /\ shown' = shown
           /\ sock'[c] # "open" \/ Closing(c) \/ BackendDies(c) \/ call' = call
  <2>1. call'[q] = call[q]
    <3>1. CASE BackendDies(c)
      <4>1. Settle(Asked(c), "lost") \/ call' = call
        BY <3>1 DEF BackendDies
      <4> QED BY <1>1, <4>1, Resettled
    <3> QED BY <1>1, <1>5, <3>1
  <2>2. Told(c, q)
    BY <1>1, <1>3, <2>1 DEF Of
  <2> QED BY <1>5, <2>2 DEF Told, Resolved
<1>6. CASE Pump(c) /\ call' = call
  <2>1. Told(c, q)
    BY <1>1, <1>3, <1>6 DEF Of
  <2> DEFINE e == Head(out[c])
  <2>2. /\ out'[c] = Tail(out[c]) /\ 1 \in DOMAIN out[c] /\ e = out[c][1]
        /\ shown' = IF e.type = "approval_request"
                    THEN shown \cup {e.id} ELSE shown \ {e.id}
        /\ e \in CallEvent
    BY <1>6, Pumped
  <2>3. \A i \in DOMAIN out[c] :
          i > 1 => i - 1 \in DOMAIN out'[c] /\ out'[c][i - 1] = out[c][i]
    <3>1. \A i \in DOMAIN out[c] :
            i > 1 => i - 1 \in DOMAIN Tail(out[c]) /\ Tail(out[c])[i - 1] = out[c][i]
      BY <1>6, Pumped
    <3> QED BY <2>2, <3>1
  <2>4. \A i \in DOMAIN out'[c] :
          i + 1 \in DOMAIN out[c] /\ out'[c][i] = out[c][i + 1]
    <3>1. \A i \in DOMAIN Tail(out[c]) :
            i + 1 \in DOMAIN out[c] /\ Tail(out[c])[i] = out[c][i + 1]
      BY <1>6, Pumped
    <3> QED BY <2>2, <3>1
  <2>5. DOMAIN out[c] \subseteq Nat \ {0} /\ DOMAIN out'[c] \subseteq Nat \ {0}
    <3>1. out[c] \in Seq(CallEvent \cup {ClosedEvent}) /\ out[c] # <<>>
      BY <1>6 DEF TypeOK, Pump
    <3>2. out'[c] \in Seq(CallEvent \cup {ClosedEvent})
      BY <2>2, <3>1, HeadTailProperties
    <3> QED BY <3>1, <3>2
  <2>6. ASSUME NEW i \in Nat, i > 0, Resolved(c, q, i)
        PROVE  Resolved(c, q, i - 1)'
    <3>1. PICK j \in DOMAIN out[c] : j > i /\ out[c][j] = Event("approval_resolved", q)
      BY <2>6 DEF Resolved
    <3>2. j > 1 /\ j - 1 > i - 1
      BY <2>5, <2>6, <3>1
    <3> QED BY <2>3, <3>1, <3>2 DEF Resolved
  <2>7. ASSUME q \in shown'
        PROVE  Resolved(c, q, 1)
    <3>1. CASE e.type = "approval_request" /\ e.id = q
      <4>1. e = Event("approval_request", q)
        BY <2>2, <3>1 DEF Event, CallEvent
      <4> QED BY <2>1, <2>2, <4>1 DEF Told
    <3>2. CASE ~(e.type = "approval_request" /\ e.id = q)
      <4>1. q \in shown
        BY <2>2, <2>7, <3>2
      <4>2. e # Event("approval_resolved", q)
        BY <2>2, <2>7, <3>2 DEF Event
      <4>3. PICK j \in DOMAIN out[c] : out[c][j] = Event("approval_resolved", q)
        BY <2>1, <4>1 DEF Told, Resolved
      <4>4. j # 1 /\ j \in Nat \ {0}
        BY <2>2, <2>5, <4>2, <4>3
      <4> QED BY <4>3, <4>4 DEF Resolved
    <3> QED BY <3>1, <3>2
  <2>8. q \in shown' => Resolved(c, q, 0)'
    BY <2>6, <2>7
  <2>9. ASSUME NEW i \in DOMAIN out'[c], out'[c][i] = Event("approval_request", q)
        PROVE  Resolved(c, q, i)'
    <3>1. Resolved(c, q, i + 1)
      BY <2>1, <2>4, <2>9 DEF Told
    <3> QED BY <2>5, <2>6, <3>1
  <2> QED BY <2>8, <2>9 DEF Told
<1>7. ASSUME NEW es \in Seq(CallEvent \cup {ClosedEvent}), Sent(c, es)
      PROVE  Told(c, q)'
  <2>1. out[c] \in Seq(CallEvent \cup {ClosedEvent}) /\ out'[c] = out[c] \o es
    BY <1>7 DEF TypeOK, Sent
  <2>2. shown' = shown
    BY <1>7 DEF Sent
  <2>3. ASSUME Told(c, q), \A k \in DOMAIN es : es[k] # Event("approval_request", q)
        PROVE  Told(c, q)'
    <3>1. \A i : Resolved(c, q, i) => Resolved(c, q, i)'
      BY <2>1, Added DEF Resolved
    <3>2. \A i \in DOMAIN out'[c] : out'[c][i] = Event("approval_request", q) =>
            i \in DOMAIN out[c] /\ out[c][i] = Event("approval_request", q)
      BY <2>1, <2>3, Added
    <3> QED BY <2>2, <2>3, <3>1, <3>2 DEF Told
  <2>4. CASE Closed(c)
    BY <1>1, <2>4
  <2>5. ASSUME NEW p \in Call, NEW t \in Tool, ToolCall(c, p, t),
               es = IF Decision(c, t) = "asked"
                    THEN <<Event("approval_request", p)>> ELSE <<>>
        PROVE  Told(c, q)'
    <3>1. CASE p = q
      <4>1. call'[q].st = Decision(c, t) /\ call[q] = Idle /\ q \notin Of(c)
        BY <1>1, <2>5, <3>1, Fetched
      <4>2. es = <<>>
        BY <1>1, <2>5, <4>1
      <4>3. q \notin shown
        BY <4>1 DEF Carded
      <4>4. \A i \in DOMAIN out[c] : out[c][i] # Event("approval_request", q)
        BY <1>4, <4>1 DEF Event, ClosedEvent
      <4>5. out'[c] = out[c]
        BY <2>1, <4>2, ConcatEmptySeq
      <4> QED BY <2>2, <4>3, <4>4, <4>5 DEF Told
    <3>2. CASE p # q
      <4>1. call'[q] = call[q]
        BY <1>1, <2>5, <3>2, Fetched
      <4>2. Told(c, q)
        BY <1>1, <1>3, <4>1 DEF Of
      <4>3. \A k \in DOMAIN es : es[k] # Event("approval_request", q)
        BY <2>5, <3>2 DEF Event
      <4> QED BY <2>3, <4>2, <4>3
    <3> QED BY <3>1, <3>2
  <2>6. ASSUME NEW qs \in SUBSET Asked(c), NEW st \in {"denied", "allowed"},
               Settle(qs, st),
               \A i \in DOMAIN es : es[i].type = "approval_resolved" /\ es[i].id \in qs,
               \A p \in qs : \E i \in DOMAIN es : es[i] = Event("approval_resolved", p)
        PROVE  Told(c, q)'
    <3>1. \A k \in DOMAIN es : es[k] # Event("approval_request", q)
      BY <2>6 DEF Event
    <3>2. CASE q \notin qs
      <4>1. call'[q] = call[q]
        BY <1>1, <2>6, <3>2, Resettled
      <4>2. Told(c, q)
        BY <1>1, <1>3, <4>1 DEF Of
      <4> QED BY <2>3, <3>1, <4>2
    <3>3. CASE q \in qs
      <4>1. PICK k \in DOMAIN es : es[k] = Event("approval_resolved", q)
        BY <2>6, <3>3
      <4>2. \E j \in DOMAIN out'[c] :
              /\ out'[c][j] = Event("approval_resolved", q)
              /\ j > 0 /\ \A i \in DOMAIN out[c] : j > i
        <5> DEFINE j == Len(out[c]) + k
        <5>1. /\ j \in DOMAIN (out[c] \o es) /\ (out[c] \o es)[j] = es[k]
              /\ j > 0 /\ \A i \in DOMAIN out[c] : j > i
          BY <2>1, Added
        <5> QED BY <2>1, <4>1, <5>1
      <4>3. Resolved(c, q, 0)' /\ \A i \in DOMAIN out[c] : Resolved(c, q, i)'
        BY <4>2 DEF Resolved
      <4>4. \A i \in DOMAIN out'[c] : out'[c][i] = Event("approval_request", q) =>
              i \in DOMAIN out[c]
        BY <2>1, <3>1, Added
      <4> QED BY <4>3, <4>4 DEF Told
    <3> QED BY <3>2, <3>3
  <2> QED BY <1>7, <2>4, <2>5, <2>6 DEF Sent
<1>8. ~(out'[c] = <<>> /\ sock'[c] # "open" /\ shown' \subseteq shown)
  OBVIOUS
<1> QED BY <1>5, <1>6, <1>7, <1>8, NewOut DEF OutMoves
-----------------------------------------------------------------------------
(* The invariant is inductive.                                             *)
LEMMA Inductive == IInv /\ [Next]_vars => IInv'
<1>1. ASSUME IInv, NEW c \in Chat, Act(c)
      PROVE  IInv'
  <2>1. TypeOK' /\ Carded'
    BY <1>1, TypedStep, CardedStep
  <2>2. Agency(c)' /\ Wired(c)'
    BY <1>1, GateStep, BackedStep, ReachedStep, UnusedStep, GrantedStep,
       EventsStep, SettledStep, ClickedStep DEF Agency, Wired
  <2>3. ASSUME NEW d \in Chat \ {c}
        PROVE  Agency(d)' /\ Wired(d)'
    BY <1>1, OthersApart, OthersCallsApart, OthersKeep
  <2> QED BY <2>1, <2>2, <2>3 DEF IInv
<1>2. ASSUME IInv, UNCHANGED vars
      PROVE  IInv'
  <2> USE <1>2 DEF IInv, vars, reg, back, gate, wire, card
  <2>1. TypeOK' /\ Carded'
    BY DEF TypeOK, Carded
  <2>2. ASSUME NEW c \in Chat
        PROVE  Agency(c)' /\ Wired(c)'
    <3>1. Apart(c) /\ CallsApart(c)
      BY DEF Apart, CallsApart, Of
    <3> QED BY <3>1, OthersKeep
  <2> QED BY <2>1, <2>2
<1> QED BY <1>1, <1>2 DEF Next, Act

(* IInv holds in every reachable state: what the handlers of a chat rely   *)
(* on across their awaits is there when they are resumed.                  *)
THEOREM Invariance == Spec => []IInv
BY InitIInv, Inductive, PTL DEF Spec
-----------------------------------------------------------------------------
(* Every variable keeps to the states its code can produce.                *)
THEOREM TypeCorrect == Spec => []TypeOK
<1>1. IInv => TypeOK
  BY DEF IInv
<1> QED BY <1>1, Invariance, PTL

(* When a close is finished, the process, the client, the turn and the     *)
(* waiting calls of its chat are gone, whatever the close raced with.      *)
THEOREM ClosesAreClean == Spec => []NothingLeftBehind
<1>1. IInv => NothingLeftBehind
  BY DEF IInv, Agency, GateShut, Backed, Closed, Finished, NothingLeftBehind
<1> QED BY <1>1, Invariance, PTL

(* A chat with a process, a turn or a close under way is in the registry,  *)
(* so that close_all_chats finds it.                                       *)
THEOREM StaysReachable == Spec => []ReachableUntilFinished
<1>1. IInv => ReachableUntilFinished
  BY DEF IInv, Agency, Backed, Reached, Closed, Finished, ReachableUntilFinished
<1> QED BY <1>1, Invariance, PTL

(* When every event has arrived, a card with buttons is that of a call     *)
(* that can still be answered, or that the dead agent left behind.         *)
THEOREM CardsAreLive == Spec => []CardsAnswerable
<1>1. IInv => CardsAnswerable
  <2> SUFFICES ASSUME IInv, NEW q \in shown, sock[call[q].chat] = "open",
                      ~Closed(call[q].chat), out[call[q].chat] = <<>>
               PROVE  call[q].st \in {"asked", "lost"}
    BY DEF CardsAnswerable
  <2> USE DEF IInv
  <2>1. call[q].chat \in Chat /\ q \in Of(call[q].chat)
    BY DEF TypeOK, Carded, Of
  <2>2. ~Told(call[q].chat, q)
    BY <2>1 DEF Told, Resolved
  <2> QED BY <2>1, <2>2 DEF Wired, Settled
<1> QED BY <1>1, Invariance, PTL
-----------------------------------------------------------------------------
(* Each step keeps the approval protocol: it is one of its steps, or       *)
(* leaves the calls, the answers and the closed gates alone.               *)
LEMMA ProtocolStep ==
  ASSUME IInv, NEW c \in Chat, Act(c)
  PROVE  P!Next \/ UNCHANGED P!vars
<1> USE DEF IInv, P!vars
<1>0. P!Asked(c) = Asked(c) /\ \A qs, st : Settle(qs, st) => P!Settle(qs, st)
  BY DEF P!Asked, Asked, Of, P!Settle, Settle
<1>1. CASE Registry(c)
  BY <1>1 DEF gate, card, Registry, Create, Expire, Delete, Await, CloseReturns,
              CloseGivesUp
<1>2. CASE Closing(c)
  <2>1. CASE CloseGate(c)
    <3>1. P!Close(c)
      BY <1>0, <2>1 DEF CloseGate, P!Close, card
    <3> QED BY <3>1 DEF P!Next
  <2> QED BY <1>2, <2>1 DEF gate, card, Closing, CloseBackend, Disconnected,
                            DisconnectFails, Kill, CancelTurn
<1>3. CASE Agent(c)
  <2>1. CASE BackendDies(c)
    <3>1. Settle(Asked(c), "lost") \/ call' = call
      BY <2>1 DEF BackendDies
    <3>2. said' = said /\ gateClosed' = gateClosed
      BY <2>1 DEF BackendDies, card
    <3>3. CASE Settle(Asked(c), "lost")
      <4>1. P!Abandon(c)
        BY <1>0, <3>2, <3>3 DEF P!Abandon
      <4> QED BY <4>1 DEF P!Next
    <3> QED BY <3>1, <3>2, <3>3
  <2>2. ASSUME NEW q \in Call, NEW t \in Tool, ToolCall(c, q, t)
        PROVE  P!Next
    <3>1. /\ call[q] = Idle /\ said' = said /\ gateClosed' = gateClosed
          /\ call' = [call EXCEPT ![q] = [st |-> Decision(c, t), chat |-> c, tool |-> t]]
      BY <2>2 DEF ToolCall, Fresh, card
    <3>2. Decision(c, t) = "allowed" =>
            t \in P!Free \/ (c \notin gateClosed /\ t \notin P!Never /\ P!Standing(c, t))
      <4>1. CASE Access[t] = "read"
        BY <4>1 DEF P!Free
      <4>2. CASE Access[t] = "write" /\ c \notin gateClosed /\ <<c, t>> \in approved
        BY <4>2 DEF Agency, Granted, P!Never
      <4> QED BY <4>1, <4>2, Decisions
    <3>3. Decision(c, t) = "denied" => t \in P!Never \/ c \in gateClosed
      BY Decisions DEF P!Never
    <3>4. Decision(c, t) = "asked" => t \notin P!Free \cup P!Never /\ c \notin gateClosed
      BY Decisions DEF P!Free, P!Never
    <3>5. Decision(c, t) \in {"asked", "allowed", "denied"}
      BY Decisions
    <3>6. P!Become(q, c, t, Decision(c, t)) /\ call[q] = P!Idle
      BY <3>1 DEF P!Become, P!Idle, Idle
    <3>7. P!Request(q, c, t)
      BY <3>1, <3>2, <3>3, <3>4, <3>5, <3>6 DEF P!Request
    <3> QED BY <3>7 DEF P!Next
  <2> QED BY <1>3, <2>1, <2>2 DEF gate, card, Agent, Connected, ConnectFails,
                                  TurnBegins, TurnEnds
<1>4. CASE Socket(c)
  <2>1. CASE ReceiveAnswer(c)
    <3> DEFINE m == Head(inbox[c])
    <3>1. /\ Resolve(c, m.id, m.answer) /\ Receive(c, "approval")
          /\ said' = said /\ gateClosed' = gateClosed
      BY <2>1 DEF ReceiveAnswer, card
    <3>2. m \in Message /\ m.type = "approval" /\ m = inbox[c][1] /\ 1 \in DOMAIN inbox[c]
      BY <3>1, Received
    <3>3. m.answer \in said[m.id] /\ m.id \in Call /\ m.answer \in Answer
      BY <3>2 DEF Wired, Clicked, Message
    <3> HIDE DEF m
    <3>4. CASE m.id \in Asked(c)
      <4>1. call[m.id].st = "asked" /\ call[m.id].chat = c /\ c \notin gateClosed
        BY <3>4 DEF Asked, Of, Agency, GateShut
      <4>2. CASE m.answer = "deny"
        <5>1. P!Deny({m.id})
          BY <1>0, <3>1, <3>4, <4>1, <4>2 DEF Resolve, P!Deny
        <5> QED BY <3>3, <5>1 DEF P!Next
      <4>3. CASE m.answer # "deny"
        <5>1. said[m.id] \cap {"once", "chat"} # {}
          BY <3>3, <4>3 DEF Answer
        <5>2. Settle({m.id}, "allowed")
          BY <3>1, <3>4, <4>3 DEF Resolve
        <5>3. P!Allow(m.id)
          BY <1>0, <3>1, <4>1, <5>1, <5>2 DEF P!Allow
        <5> QED BY <3>3, <5>3 DEF P!Next
      <4> QED BY <4>2, <4>3
    <3>5. CASE m.id \notin Asked(c)
      BY <3>1, <3>5 DEF Resolve
    <3> QED BY <3>4, <3>5
  <2>2. CASE ReceiveInterrupt(c)
    <3>1. P!Deny(Asked(c)) /\ Asked(c) \in SUBSET Call
      BY <1>0, <2>2 DEF ReceiveInterrupt, CancelPending, P!Deny, Asked, Of, card
    <3> QED BY <3>1 DEF P!Next
  <2> QED BY <1>4, <2>1, <2>2 DEF gate, card, Socket, Receiver, Attach, ReceiveText,
          Pump, PumpReturned, ReceiverEnds, PumpFails, HandlerEnds,
          HandlerReturns, HandlerGivesUp, HandlerLeaves
<1>5. CASE Browser(c)
  <2>1. ASSUME NEW q \in Call, NEW a \in Answer, Click(c, q, a)
        PROVE  P!Next
    <3>1. call[q] # P!Idle
      BY <2>1, ChatAssumption DEF Click, Of, P!Idle
    <3>2. P!Say(q, a)
      BY <2>1, <3>1 DEF Click, Send, gate, P!Say
    <3>3. a \in P!Answer
      BY DEF Answer, P!Answer
    <3> QED BY <3>2, <3>3 DEF P!Next
  <2> QED BY <1>5, <2>1 DEF gate, Browser, SendText, Interrupt, Send, Drop
<1> QED BY <1>1, <1>2, <1>3, <1>4, <1>5 DEF Act

(* The chat implements the approval protocol: a tool that writes runs only *)
(* on the analyst's word, an answer is final, a closed gate allows nothing.*)
THEOREM KeepsProtocol == Spec => ImplementsProtocol
<1>1. Init => P!Init
  BY DEF Init, P!Init, Idle, P!Idle
<1>2. IInv /\ [Next]_vars => [P!Next]_P!vars
  <2>1. IInv /\ Next => P!Next \/ UNCHANGED P!vars
    BY ProtocolStep DEF Next, Act
  <2>2. UNCHANGED vars => UNCHANGED P!vars
    BY DEF vars, P!vars, gate, card
  <2> QED BY <2>1, <2>2
<1> QED BY <1>1, <1>2, Invariance, PTL DEF Spec, ImplementsProtocol, P!Spec
=============================================================================
