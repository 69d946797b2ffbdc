--------------------------- MODULE ProgressStream ---------------------------
(***************************************************************************)
(* How the events of one task reach a browser: the ring and the subscriber *)
(* queues of api/services/progress_bus.py, the WebSocket handler and the   *)
(* HTTP backfill of api/ws/progress.py, and the reconnecting client of     *)
(* frontend/src/api/websocket.ts.                                          *)
(*                                                                         *)
(* The handlers live on the event loop: a step of theirs is what runs      *)
(* between two awaits, and while one of them or a publish is under way on  *)
(* the loop, no other starts.  A cancel publishes from its own request     *)
(* thread, which takes turns with the loop wherever the interpreter may    *)
(* switch threads.  The client is a JavaScript program: a step is one      *)
(* callback.                                                               *)
(***************************************************************************)
EXTENDS Naturals, Sequences, FiniteSetsExt

CONSTANTS Conn,         (* server-side handlers of the client's sockets    *)
          NoConn,       (* the client has no socket                        *)
          RingSize,     (* events a channel retains                        *)
          QueueSize,    (* items a subscriber queue holds                  *)
          MaxSeq,       (* bound: events published for the task            *)
          MaxDrops,     (* bound: connections that break                   *)
          MayRestart    (* bound: the backend restarts once, or never      *)

ASSUME ProgressStreamAssumption ==
  /\ NoConn \notin Conn
  /\ RingSize \in Nat \ {0} /\ QueueSize \in Nat \ {0}
  /\ MaxSeq \in Nat /\ MaxDrops \in Nat /\ MayRestart \in BOOLEAN

VARIABLES
  ring, nextSeq, closed,  (* the task's channel                            *)
  pub,        (* pub[p]: where publisher p is in publish                   *)
  published,  (* history: the events that were in the ring                 *)
  handler,    (* handler[c]: where ws_task_progress is for socket c        *)
  since,      (* since[c]: the query parameter it was opened with, until   *)
              (* it is used                                                *)
  backlog,    (* backlog[c]: what it still has to send of its replay       *)
  subq,       (* subq[c]: its subscriber queue                             *)
  wire,       (* wire[c]: frames on their way to the browser               *)
  client,     (* where the client is                                       *)
  socket,     (* the client's socket, or NoConn                            *)
  response,   (* the backfill answer the client has not read yet           *)
  lastSeq, terminated,  (* fields of TaskWebSocket                         *)
  seen,       (* the events handed to the client's handlers, in order      *)
  missed,     (* why an event may never reach the client: <<event, reason>>*)
  ended,      (* the end of the task is published, or the task is past     *)
  backend,    (* "up", "stopped" (aclose) or "restarted"                   *)
  drops

busVars    == <<ring, nextSeq, closed, pub, published>>
serverVars == <<handler, since, backlog, subq>>
clientVars == <<client, socket, response, lastSeq, terminated, seen>>
vars == <<ring, nextSeq, closed, pub, published, handler, since, backlog, subq,
          wire, client, socket, response, lastSeq, terminated, seen, missed,
          ended, backend, drops>>
-----------------------------------------------------------------------------
(* Threads that publish: the loop, and the request thread of a cancel.     *)
Publisher == {"loop", "request"}

(* An event: its seq, whether it ends the stream for its readers, and whose*)
(* it is: the run's own, which the loop hands on, the end of the task, or  *)
(* the end that a cancel makes of it.                                      *)
Event == [seq : 1..MaxSeq, end : BOOLEAN, by : {"run", "task", "cancel"}]

(* The close sentinel of a subscriber queue, and the close frame.          *)
Close == [seq |-> 0, end |-> TRUE, by |-> "bus"]
Item  == Event \cup {Close}

(* A publisher has read next_seq, has put the event in the ring, has       *)
(* fanned it out and goes on to close_task.                                *)
PublisherState == {"idle", "read", "retained", "closing"}
Idle == [at |-> "idle", event |-> Close]

(* A handler is idle (no socket), accepted, sending its backlog, or in     *)
(* subscribe: about to look at its queue; having found it empty; parked in *)
(* get; or parked there although an item came before it was.               *)
HandlerState == {"idle", "accepted", "replaying", "live", "looked", "parked",
                 "asleep"}
Subscribed(c) == handler[c] \in {"live", "looked", "parked", "asleep"}

(* Nothing is under way on the event loop.                                 *)
LoopFree == pub["loop"] = Idle /\ \A c \in Conn : handler[c] # "looked"

(* Fault: the event the client already has is replayed.                    *)
ReplayFrom(after) == SelectSeq(ring, LAMBDA e : e.seq >= after)

(* The comprehension over the ring: what comes after after, in its order.  *)
Replay(after) ==
  LET Kept[n \in 0..Len(ring)] ==
        IF n = 0 THEN <<>>
        ELSE IF ring[n].seq > after THEN Append(Kept[n - 1], ring[n])
        ELSE Kept[n - 1]
  IN Kept[Len(ring)]

HasChannel == ring # <<>> \/ \E c \in Conn : Subscribed(c)

(* Events beyond after that a replay can no longer offer.                  *)
RolledPast(after) ==
  {<<e, "ring">> : e \in {f \in published : /\ f.seq > after
                                            /\ \A i \in DOMAIN ring : ring[i] # f}}

Init ==
  /\ ring = <<>> /\ nextSeq = 1 /\ closed = FALSE
  /\ pub = [p \in Publisher |-> Idle] /\ published = {}
  /\ handler = [c \in Conn |-> "idle"]
  /\ since = [c \in Conn |-> 0]
  /\ backlog = [c \in Conn |-> <<>>]
  /\ subq = [c \in Conn |-> <<>>]
  /\ wire = [c \in Conn |-> <<>>]
  /\ client = "backfill" /\ socket = NoConn /\ response = <<>>
  /\ lastSeq = 0 /\ terminated = FALSE
  /\ seen = <<>> /\ missed = {} /\ ended = FALSE
  /\ backend = "up" /\ drops = 0
-----------------------------------------------------------------------------
(* The bus.                                                                *)

(* Fault: the queues of slow subscribers grow.                             *)
FanoutUnbounded(items) ==
  /\ subq' = [c \in Conn |-> subq[c] \o (IF Subscribed(c) THEN items ELSE <<>>)]
  /\ UNCHANGED handler

(* A full queue drops the item; any other put wakes who waits in get.      *)
Fanout(items) ==
  /\ subq' = [c \in Conn |->
                IF ~ Subscribed(c) THEN subq[c]
                ELSE SubSeq(subq[c] \o items, 1,
                            Min({QueueSize, Len(subq[c] \o items)}))]
  /\ handler' = [c \in Conn |->
                   IF handler[c] = "asleep" /\ Len(subq[c]) < QueueSize
                   THEN "parked" ELSE handler[c]]

(* Handlers between their replay snapshot and their subscription, and      *)
(* those whose queue is full, do not get event e.                          *)
Misses(e) ==
  (IF \E c \in Conn : handler[c] = "replaying" /\ c = socket
   THEN {<<e, "window">>} ELSE {})
  \cup
  (IF \E c \in Conn : Subscribed(c) /\ c = socket /\ Len(subq[c]) >= QueueSize
   THEN {<<e, "overflow">>} ELSE {})

(* As event e enters the ring: e, if the ring held a seq that is not below *)
(* its own; and the request's event, if e passes it between ring and       *)
(* queues.  A client that saw the one asks no more for the other.          *)
Overtaken(e) ==
  (IF \E i \in DOMAIN ring : ring[i].seq >= e.seq THEN {<<e, "race">>} ELSE {})
  \cup
  (IF pub["request"].at = "retained"
   THEN {<<pub["request"].event, "race">>} ELSE {})

(* publish reads next_seq; the increment comes after a call to the clock.  *)
Assign(p, end, by) ==
  /\ pub[p] = Idle
  /\ Cardinality(published) + Quantify(Publisher, LAMBDA q : pub[q].at = "read")
       < MaxSeq
  /\ pub' = [pub EXCEPT ![p] =
                [at |-> "read",
                 event |-> [seq |-> nextSeq, end |-> end, by |-> by]]]
  /\ UNCHANGED <<ring, nextSeq, closed, published, serverVars, wire, clientVars,
                 missed, ended, backend, drops>>

Push(e) ==
  /\ ring' = Append(IF Len(ring) = RingSize THEN Tail(ring) ELSE ring, e)
  /\ published' = published \cup {e}

(* The rest on the loop: the number is used up, the event goes to the ring *)
(* and to the queues, and the end closes the channel, before any handler   *)
(* runs.                                                                   *)
FinishOnLoop ==
  LET e == pub["loop"].event
      close == e.by = "task" IN
    /\ pub["loop"].at = "read"
    /\ nextSeq' = nextSeq + 1
    /\ Push(e)
    /\ Fanout(IF close THEN <<e, Close>> ELSE <<e>>)
    /\ closed' = (closed \/ close)
    /\ ended' = (ended \/ close)
    /\ missed' = missed \cup Misses(e) \cup Overtaken(e)
    /\ pub' = [pub EXCEPT !["loop"] = Idle]
    /\ UNCHANGED <<since, backlog, wire, clientVars, backend, drops>>

(* The rest in the request thread: handlers run in between.                *)
Retain ==
  LET e == pub["request"].event IN
    /\ pub["request"].at = "read"
    /\ nextSeq' = nextSeq + 1
    /\ Push(e)
    /\ ended' = TRUE
    /\ missed' = missed \cup Overtaken(e)
    /\ pub' = [pub EXCEPT !["request"].at = "retained"]
    /\ UNCHANGED <<closed, serverVars, wire, clientVars, backend, drops>>

FanoutRetained ==
  LET e == pub["request"].event IN
    /\ pub["request"].at = "retained"
    /\ Fanout(<<e>>)
    /\ missed' = missed \cup Misses(e)
    /\ pub' = [pub EXCEPT !["request"].at = "closing"]
    /\ UNCHANGED <<ring, nextSeq, closed, published, since, backlog, wire,
                   clientVars, ended, backend, drops>>

CloseTask ==
  /\ pub["request"].at = "closing"
  /\ closed' = TRUE
  /\ Fanout(<<Close>>)
  /\ pub' = [pub EXCEPT !["request"] = Idle]
  /\ UNCHANGED <<ring, nextSeq, published, since, backlog, wire, clientVars,
                 missed, ended, backend, drops>>

Request == Retain \/ FanoutRetained \/ CloseTask

(* Who has published an event that ends the stream.                        *)
Ended(by) == \E e \in published : e.end /\ e.by = by

(* What a run emits: events, and last an error event of its own, which     *)
(* ends the stream and closes nothing.  Events may come after the end of   *)
(* the task: a cancelled run goes on, and the drain barrier has a timeout. *)
PublishEvent ==
  backend = "up" /\ LoopFree /\ ~ Ended("run") /\ Assign("loop", FALSE, "run")
PublishWorkerError ==
  backend = "up" /\ LoopFree /\ ~ Ended("run") /\ Assign("loop", TRUE, "run")

(* The end of the task: publish, then close_task, on the loop or in the    *)
(* request thread of a cancel, which may overtake another end.  Bound: one *)
(* cancel.                                                                 *)
PublishEnd ==
  /\ backend # "restarted"
  /\ \/ LoopFree /\ ~ Ended("task") /\ Assign("loop", TRUE, "task")
     \/ ~ Ended("cancel") /\ Assign("request", TRUE, "cancel")

(* Fault: shutdown marks the channel closed and wakes nobody.              *)
CloseAllSilently ==
  /\ MayRestart /\ backend = "up" /\ LoopFree /\ backend' = "stopped"
  /\ closed' = (closed \/ HasChannel)
  /\ UNCHANGED <<ring, nextSeq, pub, published, serverVars, wire, clientVars,
                 missed, ended, drops>>

(* aclose: the channel, if somebody published or subscribed to it, is      *)
(* closed, whether the task ended or not.                                  *)
CloseAll ==
  /\ MayRestart /\ backend = "up" /\ LoopFree /\ backend' = "stopped"
  /\ closed' = (closed \/ HasChannel)
  /\ Fanout(<<Close>>)
  /\ UNCHANGED <<ring, nextSeq, pub, published, since, backlog, wire, clientVars,
                 missed, ended, drops>>
-----------------------------------------------------------------------------
(* The WebSocket handler of socket c.                                      *)

HandlerVars(c, h, b, q) == /\ handler' = [handler EXCEPT ![c] = h]
                           /\ backlog' = [backlog EXCEPT ![c] = b]
                           /\ subq' = [subq EXCEPT ![c] = q]
                           /\ since' = [since EXCEPT ![c] = 0]

(* What reaches the browser; a frame to a client that went away raises     *)
(* WebSocketDisconnect and ends the handler.                               *)
Put(c, items) == wire' = [wire EXCEPT ![c] = IF c = socket THEN @ \o items
                                             ELSE <<>>]

(* Fault: a reconnect relies on the backfill and replays nothing.          *)
AcceptWithoutReplay(c) ==
  /\ handler[c] = "accepted" /\ LoopFree
  /\ HandlerVars(c, "live", <<>>, <<>>)
  /\ missed' = missed \cup (IF c = socket THEN RolledPast(since[c]) ELSE {})
  /\ UNCHANGED <<busVars, wire, clientVars, ended, backend, drops>>

(* The replay snapshot.  With nothing to send there is no await before the *)
(* subscription.                                                           *)
Accept(c) ==
  /\ handler[c] = "accepted" /\ LoopFree
  /\ HandlerVars(c, IF Replay(since[c]) = <<>> THEN "live" ELSE "replaying",
                 Replay(since[c]), <<>>)
  /\ missed' = missed \cup (IF c = socket THEN RolledPast(since[c]) ELSE {})
  /\ UNCHANGED <<busVars, wire, clientVars, ended, backend, drops>>

(* The request thread's append breaks the replay that iterates the ring:    *)
(* the handler closes the socket.                                          *)
ReplayBreaks(c) ==
  /\ handler[c] = "accepted" /\ LoopFree
  /\ pub["request"].at = "retained"
  /\ HandlerVars(c, "idle", <<>>, <<>>) /\ Put(c, <<Close>>)
  /\ UNCHANGED <<busVars, clientVars, missed, ended, backend, drops>>

SendBacklog(c) ==
  /\ LoopFree /\ handler[c] = "replaying" /\ backlog[c] # <<>>
  /\ LET e == Head(backlog[c]) IN
       IF e.end \/ c # socket
       THEN HandlerVars(c, "idle", <<>>, <<>>) /\ Put(c, <<e, Close>>)
       ELSE HandlerVars(c, "replaying", Tail(backlog[c]), <<>>) /\ Put(c, <<e>>)
  /\ UNCHANGED <<busVars, clientVars, missed, ended, backend, drops>>

Subscribe(c) ==
  /\ LoopFree /\ handler[c] = "replaying" /\ backlog[c] = <<>>
  /\ HandlerVars(c, "live", <<>>, <<>>)
  /\ UNCHANGED <<busVars, wire, clientVars, missed, ended, backend, drops>>

(* Before it waits the iterator asks whether anything can still come, and   *)
(* get asks again whether the queue is empty.                              *)
Look(c) ==
  /\ LoopFree /\ handler[c] = "live" /\ subq[c] = <<>>
  /\ IF closed
     THEN HandlerVars(c, "idle", <<>>, <<>>) /\ Put(c, <<Close>>)
     ELSE HandlerVars(c, "looked", <<>>, <<>>) /\ UNCHANGED wire
  /\ UNCHANGED <<busVars, clientVars, missed, ended, backend, drops>>

(* get enters its future among the waiters and parks.  A put of the        *)
(* request thread that found no waiter has woken nobody.                   *)
Park(c) ==
  /\ handler[c] = "looked"
  /\ HandlerVars(c, IF subq[c] = <<>> THEN "parked" ELSE "asleep", <<>>, subq[c])
  /\ UNCHANGED <<busVars, wire, clientVars, missed, ended, backend, drops>>

Deliver(c) ==
  /\ LoopFree /\ handler[c] \in {"live", "parked"} /\ subq[c] # <<>>
  /\ LET e == Head(subq[c]) IN
       IF e = Close
       THEN HandlerVars(c, "idle", <<>>, <<>>) /\ Put(c, <<Close>>)
       ELSE IF e.end \/ c # socket
       THEN HandlerVars(c, "idle", <<>>, <<>>) /\ Put(c, <<e, Close>>)
       ELSE HandlerVars(c, "live", <<>>, Tail(subq[c])) /\ Put(c, <<e>>)
  /\ UNCHANGED <<busVars, clientVars, missed, ended, backend, drops>>

Handler(c) == \/ Accept(c) \/ ReplayBreaks(c) \/ SendBacklog(c) \/ Subscribe(c)
              \/ Look(c) \/ Park(c) \/ Deliver(c)
-----------------------------------------------------------------------------
(* The client.                                                             *)

(* handleEvent on each of a run of events, up to the first that ends the   *)
(* stream.                                                                 *)
HasEnd(es) == \E i \in DOMAIN es : es[i].end
UpToEnd(es) ==
  IF HasEnd(es) THEN SubSeq(es, 1, Min({i \in DOMAIN es : es[i].end})) ELSE es
Handle(es) ==
  LET taken == UpToEnd(es)
  IN /\ lastSeq' = Max({lastSeq} \cup {taken[i].seq : i \in DOMAIN taken})
     /\ seen' = seen \o taken
     /\ terminated' = (terminated \/ HasEnd(es))

(* GET /events?since=lastSeq, answered or failed, be it the network or an  *)
(* append that breaks the iteration over the ring in the pool thread.      *)
BackfillAnswer ==
  /\ client = "backfill"
  /\ client' = "reading" /\ response' = Replay(lastSeq)
  /\ missed' = missed \cup RolledPast(lastSeq)
  /\ UNCHANGED <<busVars, serverVars, wire, socket, lastSeq, terminated, seen,
                 ended, backend, drops>>

BackfillFails ==
  /\ client = "backfill"
  /\ client' = "opening"
  /\ drops < MaxDrops /\ drops' = drops + 1
  /\ UNCHANGED <<busVars, serverVars, wire, socket, response, lastSeq,
                 terminated, seen, missed, ended, backend>>

BackfillRead ==
  /\ client = "reading"
  /\ Handle(response)
  /\ response' = <<>>
  /\ client' = IF HasEnd(response) THEN "finished" ELSE "opening"
  /\ UNCHANGED <<busVars, serverVars, wire, socket, missed, ended, backend,
                 drops>>

(* A new socket; any of the unused, which differ in name only.             *)
Open(c) ==
  /\ client = "opening" /\ handler[c] = "idle"
  /\ c = CHOOSE d \in Conn : handler[d] = "idle"
  /\ client' = "connected" /\ socket' = c
  /\ handler' = [handler EXCEPT ![c] = "accepted"]
  /\ since' = [since EXCEPT ![c] = lastSeq]
  /\ wire' = [wire EXCEPT ![c] = <<>>]
  /\ UNCHANGED <<busVars, backlog, subq, response, lastSeq, terminated, seen,
                 missed, ended, backend, drops>>

(* Fault: a clean close by the server is taken for the end.                *)
ReceiveCloseAsEnd ==
  /\ client = "connected" /\ wire[socket] # <<>>
  /\ LET e == Head(wire[socket]) IN
       IF e = Close
       THEN /\ client' = "finished" /\ socket' = NoConn
            /\ UNCHANGED <<lastSeq, seen, terminated>>
       ELSE /\ Handle(<<e>>)
            /\ client' = IF e.end THEN "finished" ELSE "connected"
            /\ socket' = IF e.end THEN NoConn ELSE socket
  /\ wire' = [wire EXCEPT ![socket] = Tail(@)]
  /\ UNCHANGED <<busVars, serverVars, response, missed, ended, backend, drops>>

(* onmessage and onclose.                                                  *)
Receive ==
  /\ client = "connected" /\ wire[socket] # <<>>
  /\ LET e == Head(wire[socket]) IN
       IF e = Close
       THEN /\ client' = "waiting" /\ socket' = NoConn
            /\ UNCHANGED <<lastSeq, seen, terminated>>
       ELSE /\ Handle(<<e>>)
            /\ client' = IF e.end THEN "finished" ELSE "connected"
            /\ socket' = IF e.end THEN NoConn ELSE socket
  /\ wire' = [wire EXCEPT ![socket] = Tail(@)]
  /\ UNCHANGED <<busVars, serverVars, response, missed, ended, backend, drops>>

(* The connection breaks: the client notices at once, the handler only     *)
(* when it next sends.                                                     *)
Disconnect ==
  /\ client = "connected"
  /\ drops < MaxDrops /\ drops' = drops + 1
  /\ client' = "waiting" /\ socket' = NoConn
  /\ wire' = [wire EXCEPT ![socket] = <<>>]
  /\ UNCHANGED <<busVars, serverVars, response, lastSeq, terminated, seen,
                 missed, ended, backend>>

(* The reconnect timer fires.                                              *)
Reconnect ==
  /\ client = "waiting"
  /\ client' = "backfill"
  /\ UNCHANGED <<busVars, serverVars, wire, socket, response, lastSeq,
                 terminated, seen, missed, ended, backend, drops>>

Client == BackfillAnswer \/ BackfillRead \/ Receive \/ Reconnect
          \/ \E c \in Conn : Open(c)

(* The backend restarts: its bus is empty, the record is terminal.         *)
Restart ==
  /\ MayRestart /\ backend # "restarted" /\ backend' = "restarted"
  /\ ring' = <<>> /\ nextSeq' = 1 /\ closed' = FALSE /\ ended' = TRUE
  /\ pub' = [p \in Publisher |-> Idle] /\ UNCHANGED published
  /\ handler' = [c \in Conn |-> "idle"] /\ since' = [c \in Conn |-> 0]
  /\ backlog' = [c \in Conn |-> <<>>] /\ subq' = [c \in Conn |-> <<>>]
  /\ wire' = [c \in Conn |-> <<>>]
  /\ client' = IF client = "connected" THEN "waiting" ELSE client
  /\ socket' = NoConn
  /\ UNCHANGED <<response, lastSeq, terminated, seen, missed, drops>>

Next == \/ PublishEvent \/ PublishWorkerError \/ PublishEnd \/ CloseAll
        \/ FinishOnLoop \/ Request
        \/ \E c \in Conn : Handler(c)
        \/ Client \/ BackfillFails \/ Disconnect
        \/ Restart

Spec == Init /\ [][Next]_vars

(* The loop runs its handlers, the browser its callbacks, and a publish    *)
(* that began goes on.  Nothing has to be published, to fail or to restart.*)
FairSpec == /\ Spec
            /\ WF_vars(FinishOnLoop) /\ WF_vars(Request)
            /\ \A c \in Conn : WF_vars(Handler(c))
            /\ WF_vars(Client)
-----------------------------------------------------------------------------
TypeOK ==
  /\ ring \in Seq(Event) /\ Len(ring) <= RingSize
  /\ nextSeq \in 1..(MaxSeq + 1) /\ closed \in BOOLEAN
  /\ pub \in [Publisher -> [at : PublisherState, event : Item]]
  /\ published \subseteq Event
  /\ handler \in [Conn -> HandlerState] /\ since \in [Conn -> 0..MaxSeq]
  /\ backlog \in [Conn -> Seq(Event)]
  /\ subq \in [Conn -> Seq(Item)] /\ \A c \in Conn : Len(subq[c]) <= QueueSize
  /\ wire \in [Conn -> Seq(Item)]
  /\ client \in {"backfill", "reading", "opening", "connected", "waiting",
                 "finished"}
  /\ socket \in Conn \cup {NoConn}
  /\ response \in Seq(Event)
  /\ lastSeq \in 0..MaxSeq /\ terminated \in BOOLEAN
  /\ seen \in Seq(Event)
  /\ missed \subseteq (Event \X {"ring", "window", "overflow", "race"})
  /\ ended \in BOOLEAN /\ drops \in Nat
  /\ backend \in {"up", "stopped", "restarted"}

(* useTaskProgress's guarantee: the handlers see every event at most once, *)
(* and in order, through reconnects, backfills and replays.  The end that  *)
(* a cancel publishes from its request thread, the last event they see,    *)
(* may bear a number that is already past.                                 *)
InOrderOnce ==
  \A i, j \in DOMAIN seen :
    i < j => /\ seen[i] # seen[j]
             /\ seen[i].seq < seen[j].seq
                \/ (seen[j].by = "cancel" /\ j = Len(seen))

(* Whatever the client has moved past and not seen was lost in one of four *)
(* ways: it rolled out of the ring before a replay, a subscriber queue was *)
(* full, it was published between a replay and its subscription, or a      *)
(* publish in another thread overtook it on its way to ring and queues.    *)
Seen(e) == \E i \in DOMAIN seen : seen[i] = e
NoSilentLoss ==
  \A e \in published :
    e.seq <= lastSeq =>
      Seen(e) \/ \E why \in {"ring", "window", "overflow", "race"} :
                   <<e, why>> \in missed

(* What the WebSocket protocol documents: replay everything after since    *)
(* that the ring holds, then stream live events - so only the ring, the    *)
(* queue bound and the race of two publishers may cost an event.           *)
GapFree ==
  \A e \in published :
    e.seq <= lastSeq =>
      Seen(e) \/ \E why \in {"ring", "overflow", "race"} : <<e, why>> \in missed

(* The client of a task that ended learns it and stops reconnecting, also  *)
(* through broken connections, failed backfills and a full queue.  Four    *)
(* exceptions, each a hazard: the backend restarted and its bus knows      *)
(* nothing of the task; events published after the end pushed it out of    *)
(* the ring; the client received a late event, or one of the end's number, *)
(* but not the end, and asks only for what comes after it; the handler     *)
(* sleeps on a queue that the request thread filled as it was about to     *)
(* wait.                                                                   *)
EndOutOfReach == \A i \in DOMAIN ring : ring[i].end => ring[i].seq <= lastSeq
Asleep(c) == handler[c] = "asleep"
ClientLearnsEnd ==
  ended ~> (terminated \/ backend = "restarted" \/ EndOutOfReach
            \/ \E c \in Conn : c = socket /\ Asleep(c))

(* Closing a channel ends every handler that serves it: parked or not,     *)
(* whether its client is there or long gone, and although the sentinel     *)
(* itself is dropped when the queue is full - but for a handler that       *)
(* missed its wake-up.                                                     *)
CloseReleases ==
  \A c \in Conn :
    (closed /\ handler[c] # "idle") ~> (handler[c] = "idle" \/ Asleep(c))
=============================================================================
