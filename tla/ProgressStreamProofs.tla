------------------------ MODULE ProgressStreamProofs ------------------------
(***************************************************************************)
(* Proofs about ProgressStream, for every set of sockets, every ring and   *)
(* queue size and every number of events, broken connections and restarts. *)
(*                                                                         *)
(* What makes InOrderOnce and NoSilentLoss hold is that they are true of   *)
(* what is still on its way.  Streaming says so of everything between the  *)
(* ring and the client's socket (Coming: wire, backlog and queue of its    *)
(* handler): it is published, in order and new to the client (Travels),    *)
(* and an event that is owed to the client, because it was neither seen    *)
(* nor lost, is in it, or comes behind all that is, as long as the handler *)
(* has not taken its replay (Outside).  Answered says the same of the      *)
(* answer to a backfill, Latest of the ring it is drawn from.  Numbered    *)
(* and Publishing are what the two publishers may rely on while the other  *)
(* is at work: only the number of a cancel may be used twice, and an event *)
(* that is overtaken is marked (Raced).  Placed is where handler and       *)
(* client are, Noted what the client remembers.                            *)
(*                                                                         *)
(* There is a lemma for each step (...Keeps).  Those that move the same    *)
(* data share theirs: Grows and Cut for a sequence that travels,           *)
(* StreamGrows, StreamStays, StreamMoves and StreamEnds for the stream,    *)
(* HandleKeeps for what the client's handlers see, from a socket or from a *)
(* backfill.  Replay is a recursion over the ring: ReplayDrawn, by         *)
(* induction on its length, says what it keeps.                            *)
(***************************************************************************)
EXTENDS ProgressStream, Induction, FiniteSetTheorems, SequenceTheorems, TLAPS

(* Why the client need not see e: it is lost, it was overtaken; and what is *)
(* still owed to the client.                                               *)
Lost(e) == \E why \in {"ring", "window", "overflow", "race"} :
             <<e, why>> \in missed
Raced(e) == <<e, "race">> \in missed
Owed(e) == e \in published /\ ~ Seen(e) /\ ~ Lost(e)

(* The events that the loop numbers, one after the other.                  *)
Counted(e) == e.by # "cancel"

(* e may follow x on its way to the client.                                *)
Trails(x, e) == \/ x.seq < e.seq
                \/ Raced(e) /\ ~ (Counted(x) /\ Counted(e))

(* What may travel to the client: published, in order, new to the client.  *)
Orderly(s) == \A i, j \in DOMAIN s :
                i < j => s[i] = Close \/ s[j] = Close \/ Trails(s[i], s[j])
Ahead(s) == \A i \in DOMAIN s :
              s[i] = Close \/ ~ Counted(s[i]) \/ s[i].seq > lastSeq
Travels(s) == /\ \A i \in DOMAIN s : s[i] \in published \cup {Close}
              /\ Orderly(s) /\ Ahead(s)

(* What is owed is on its way, or is not passed over by what is.           *)
Offers(s, e) == \E i \in DOMAIN s : s[i] = e
Below(s, e)  == \A i \in DOMAIN s : s[i] = Close \/ s[i].seq < e.seq

(* How far a publish is, in the loop and in the request thread.            *)
Publishing ==
  /\ \/ pub["loop"] = Idle
     \/ /\ pub["loop"].at = "read" /\ pub["loop"].event \in Event
        /\ Counted(pub["loop"].event)
  /\ \/ pub["request"] = Idle
     \/ /\ pub["request"].at # "idle" /\ pub["request"].event \in Event
        /\ ~ Counted(pub["request"].event) /\ pub["request"].event.end
  /\ pub["request"].at = "read" => \A e \in published : Counted(e)
  /\ pub["request"].at \in {"retained", "closing"} =>
       pub["request"].event \in published
  /\ backend = "restarted" => pub["loop"] = Idle /\ pub["request"] = Idle

(* next_seq counts what was published, and lies beyond all of it.          *)
Reading == {p \in Publisher : pub[p].at = "read"}
Numbered ==
  /\ IsFiniteSet(published)
  /\ Cardinality(published) + Cardinality(Reading) <= MaxSeq
  /\ \A e \in published : ~ Counted(e) => e.end
  /\ backend # "restarted" =>
       /\ nextSeq = Cardinality(published) + 1
       /\ \A e \in published : e.seq < nextSeq
       /\ \A p \in Publisher : pub[p].at = "read" => pub[p].event.seq <= nextSeq
       /\ pub["loop"].at = "read" =>
            \A e \in published : Counted(e) => e.seq < pub["loop"].event.seq

(* The ring is in order, and ends with the highest number as long as no    *)
(* cancel was published, and with the cancel that a publish on the loop    *)
(* runs into.                                                              *)
Latest ==
  /\ \A i \in DOMAIN ring : ring[i] \in published
  /\ Orderly(ring)
  /\ backend # "restarted" =>
       /\ (\A e \in published : Counted(e)) =>
            \A e \in published : ring # <<>> /\ e.seq <= ring[Len(ring)].seq
       /\ pub["loop"].at = "read" =>
            \A e \in published : \/ e.seq < pub["loop"].event.seq
                                 \/ ring # <<>> /\ ring[Len(ring)] = e
       /\ pub["request"].at = "retained" =>
            \A e \in published \ {pub["request"].event} :
              Trails(e, pub["request"].event)

(* What handler and client have while they are where they are.             *)
Placed ==
  /\ \A c \in Conn :
       /\ handler[c] \in {"idle", "accepted"} => backlog[c] = <<>> /\ subq[c] = <<>>
       /\ handler[c] = "replaying" => subq[c] = <<>>
       /\ Subscribed(c) => backlog[c] = <<>>
  /\ client = "connected" <=> socket # NoConn
  /\ client = "connected" /\ handler[socket] = "accepted" =>
       wire[socket] = <<>> /\ since[socket] = lastSeq
  /\ terminated <=> client = "finished"
  /\ client # "reading" => response = <<>>

(* What comes to a connected client.  An event it is owed is among it, or  *)
(* the handler is not there to take it, or the fan-out is still to come.   *)
Coming == wire[socket] \o backlog[socket] \o subq[socket]
Outside(e) == \/ handler[socket] \in {"idle", "accepted"}
              \/ pub["request"].at = "retained" /\ pub["request"].event = e
Streaming ==
  client = "connected" =>
    /\ Travels(Coming)
    /\ \A e \in published :
         Owed(e) => Offers(Coming, e) \/ (Below(Coming, e) /\ Outside(e))
    /\ handler[socket] # "idle" =>
         \A i \in DOMAIN wire[socket] : ~ wire[socket][i].end
    /\ pub["request"].at = "retained" =>
         \A i \in DOMAIN subq[socket] : subq[socket][i] # pub["request"].event

(* What the answer to a backfill holds.                                    *)
Answered ==
  /\ Travels(response)
  /\ client = "reading" =>
       \A e \in published : Owed(e) => Offers(response, e) \/ Below(response, e)

(* lastSeq is the highest number the client has seen.                      *)
Noted ==
  /\ \A i \in DOMAIN seen : seen[i] \in published /\ seen[i].seq <= lastSeq
  /\ ~ terminated => \A i \in DOMAIN seen : ~ seen[i].end
  /\ lastSeq = 0 \/ \E i \in DOMAIN seen : seen[i].seq = lastSeq

IInv == /\ TypeOK
        /\ Publishing /\ Numbered /\ Latest
        /\ Placed /\ Streaming /\ Answered /\ Noted
        /\ InOrderOnce /\ NoSilentLoss
-----------------------------------------------------------------------------
(* Replay, as the recursion it is: what is kept of the first n entries.    *)
Kept(after) ==
  CHOOSE f : f = [n \in 0..Len(ring) |->
                    IF n = 0 THEN <<>>
                    ELSE IF ring[n].seq > after THEN Append(f[n - 1], ring[n])
                    ELSE f[n - 1]]

LEMMA KeptRecursion ==
  ASSUME ring \in Seq(Event), NEW after \in Nat
  PROVE  /\ Replay(after) = Kept(after)[Len(ring)]
         /\ Kept(after)[0] = <<>>
         /\ \A n \in 1..Len(ring) :
              Kept(after)[n] = IF ring[n].seq > after
                               THEN Append(Kept(after)[n - 1], ring[n])
                               ELSE Kept(after)[n - 1]
<1> DEFINE Body(f, n) == IF n = 0 THEN <<>>
                         ELSE IF ring[n].seq > after THEN Append(f[n - 1], ring[n])
                         ELSE f[n - 1]
           S == {n \in Nat : \E f : f = [k \in 0..n |-> Body(f, k)]}
<1>1. 0 \in S
  <2> DEFINE f == [k \in 0..0 |-> <<>>]
  <2>1. f = [k \in 0..0 |-> Body(f, k)]
    OBVIOUS
  <2> HIDE DEF Body, f
  <2> QED BY <2>1
<1>2. \A n \in Nat : n \in S => n + 1 \in S
  <2> SUFFICES ASSUME NEW n \in Nat, NEW f, f = [k \in 0..n |-> Body(f, k)]
               PROVE  n + 1 \in S
    OBVIOUS
  <2> DEFINE g == [k \in 0..(n + 1) |-> IF k <= n THEN f[k] ELSE Body(f, k)]
  <2>1. \A k \in 0..n : g[k] = f[k]
    OBVIOUS
  <2>2. \A k \in 0..(n + 1) : Body(g, k) = Body(f, k)
    <3> TAKE k \in 0..(n + 1)
    <3>1. CASE k = 0
      BY <3>1
    <3>2. CASE k # 0
      <4>1. k - 1 \in 0..n
        BY <3>2
      <4> QED BY <2>1, <3>2, <4>1
    <3> QED BY <3>1, <3>2
  <2>3. \A k \in 0..(n + 1) : g[k] = Body(f, k)
    <3> HIDE DEF Body
    <3> TAKE k \in 0..(n + 1)
    <3>1. CASE k <= n
      <4>1. f[k] = Body(f, k)
        BY <3>1
      <4> QED BY <3>1, <4>1
    <3> QED BY <3>1
  <2> HIDE DEF Body
  <2>4. g = [k \in 0..(n + 1) |-> Body(g, k)]
    BY <2>2, <2>3
  <2> HIDE DEF g
  <2> QED BY <2>4
<1>3. Len(ring) \in S
  <2> HIDE DEF S
  <2> QED BY <1>1, <1>2, Naturals, LenProperties
<1>4. Kept(after) = [n \in 0..Len(ring) |-> Body(Kept(after), n)]
  BY <1>3 DEF Kept
<1>5. Len(ring) \in Nat
  BY LenProperties
<1>6. Replay(after) = Kept(after)[Len(ring)]
  BY DEF Replay, Kept
<1>7. Kept(after)[0] = <<>>
  <2>1. Kept(after)[0] = Body(Kept(after), 0)
    BY <1>4, <1>5
  <2> QED BY <2>1
<1>8. \A n \in 1..Len(ring) : Kept(after)[n] = Body(Kept(after), n)
  <2> HIDE DEF Body
  <2> QED BY <1>4, <1>5
<1> QED BY <1>6, <1>7, <1>8
(* A replay is what the ring holds beyond after, in the ring's order.      *)
Drawn(s, n, after) ==
  /\ s \in Seq(Event)
  /\ \A i \in 1..Len(s) : s[i].seq > after /\ \E k \in 1..n : s[i] = ring[k]
  /\ \A i, j \in 1..Len(s) :
       i < j => \E k, l \in 1..n : k < l /\ s[i] = ring[k] /\ s[j] = ring[l]
  /\ \A k \in 1..n : ring[k].seq > after => \E i \in 1..Len(s) : s[i] = ring[k]

LEMMA DrawnStep ==
  ASSUME ring \in Seq(Event), NEW after \in Nat, NEW n \in Nat,
         n + 1 \in 1..Len(ring), NEW s, Drawn(s, n, after)
  PROVE  Drawn(IF ring[n + 1].seq > after THEN Append(s, ring[n + 1]) ELSE s,
               n + 1, after)
<1>1. CASE ring[n + 1].seq > after
  <2> DEFINE t == Append(s, ring[n + 1])
  <2>1. ring[n + 1] \in Event /\ s \in Seq(Event) /\ Len(s) \in Nat
    BY LenProperties, ElementOfSeq DEF Drawn
  <2>2. /\ t \in Seq(Event) /\ Len(t) = Len(s) + 1
        /\ \A i \in 1..Len(s) : t[i] = s[i]
        /\ t[Len(s) + 1] = ring[n + 1]
    BY <2>1, AppendProperties
  <2> HIDE DEF t
  <2>3. \A i \in 1..Len(t) : t[i].seq > after /\ \E k \in 1..(n + 1) : t[i] = ring[k]
    <3> TAKE i \in 1..Len(t)
    <3>1. CASE i \in 1..Len(s)
      <4>1. PICK k \in 1..n : s[i] = ring[k]
        BY <3>1 DEF Drawn
      <4>2. k \in 1..(n + 1) /\ s[i].seq > after
        BY <3>1, <4>1 DEF Drawn
      <4> QED BY <2>2, <3>1, <4>1, <4>2
    <3>2. CASE i = Len(s) + 1
      <4>1. n + 1 \in 1..(n + 1)
        OBVIOUS
      <4> QED BY <1>1, <2>2, <3>2, <4>1
    <3> QED BY <2>1, <2>2, <3>1, <3>2
  <2>4. \A i, j \in 1..Len(t) :
          i < j => \E k, l \in 1..(n + 1) : k < l /\ t[i] = ring[k] /\ t[j] = ring[l]
    <3> SUFFICES ASSUME NEW i \in 1..Len(t), NEW j \in 1..Len(t), i < j
                 PROVE  \E k, l \in 1..(n + 1) :
                          k < l /\ t[i] = ring[k] /\ t[j] = ring[l]
      OBVIOUS
    <3>1. CASE j \in 1..Len(s)
      <4>1. i \in 1..Len(s)
        BY <2>1, <3>1
      <4>2. PICK k \in 1..n, l \in 1..n : k < l /\ s[i] = ring[k] /\ s[j] = ring[l]
        BY <3>1, <4>1 DEF Drawn
      <4>3. k \in 1..(n + 1) /\ l \in 1..(n + 1)
        OBVIOUS
      <4> QED BY <2>2, <3>1, <4>1, <4>2, <4>3
    <3>2. CASE j = Len(s) + 1
      <4>1. i \in 1..Len(s)
        BY <2>1, <3>2
      <4>2. PICK k \in 1..n : s[i] = ring[k]
        BY <4>1 DEF Drawn
      <4>3. k \in 1..(n + 1) /\ n + 1 \in 1..(n + 1) /\ k < n + 1
        OBVIOUS
      <4> QED BY <2>2, <3>2, <4>1, <4>2, <4>3
    <3> QED BY <2>1, <2>2, <3>1, <3>2
  <2>5. \A k \in 1..(n + 1) : ring[k].seq > after => \E i \in 1..Len(t) : t[i] = ring[k]
    <3> SUFFICES ASSUME NEW k \in 1..(n + 1), ring[k].seq > after
                 PROVE  \E i \in 1..Len(t) : t[i] = ring[k]
      OBVIOUS
    <3>1. CASE k \in 1..n
      <4>1. PICK i \in 1..Len(s) : s[i] = ring[k]
        BY <3>1 DEF Drawn
      <4>2. i \in 1..Len(t)
        BY <2>1, <2>2
      <4> QED BY <2>2, <4>1, <4>2
    <3>2. CASE k = n + 1
      <4>1. Len(s) + 1 \in 1..Len(t)
        BY <2>1, <2>2
      <4> QED BY <2>2, <3>2, <4>1
    <3> QED BY <3>1, <3>2
  <2>6. Drawn(t, n + 1, after)
    BY <2>2, <2>3, <2>4, <2>5 DEF Drawn
  <2> QED BY <1>1, <2>6 DEF t
<1>2. CASE ~ (ring[n + 1].seq > after)
  <2>1. \A k \in 1..n : k \in 1..(n + 1)
    OBVIOUS
  <2>2. \A k \in 1..(n + 1) : k \in 1..n \/ k = n + 1
    OBVIOUS
  <2>3. Drawn(s, n + 1, after)
    <3>1. s \in Seq(Event)
      BY DEF Drawn
    <3>2. \A i \in 1..Len(s) : s[i].seq > after /\ \E k \in 1..(n + 1) : s[i] = ring[k]
      BY <2>1 DEF Drawn
    <3>3. \A i, j \in 1..Len(s) :
            i < j => \E k, l \in 1..(n + 1) : k < l /\ s[i] = ring[k] /\ s[j] = ring[l]
      BY <2>1 DEF Drawn
    <3>4. \A k \in 1..(n + 1) : ring[k].seq > after => \E i \in 1..Len(s) : s[i] = ring[k]
      BY <1>2, <2>2 DEF Drawn
    <3> QED BY <3>1, <3>2, <3>3, <3>4 DEF Drawn
  <2> QED BY <1>2, <2>3
<1> QED BY <1>1, <1>2

LEMMA ReplayDrawn ==
  ASSUME ring \in Seq(Event), NEW after \in Nat
  PROVE  Drawn(Replay(after), Len(ring), after)
<1> DEFINE S == {n \in Nat : n <= Len(ring) => Drawn(Kept(after)[n], n, after)}
<1>1. Len(ring) \in Nat
  BY LenProperties
<1>2. 0 \in S
  <2>1. Drawn(<<>>, 0, after)
    BY EmptySeq DEF Drawn
  <2> QED BY <2>1, KeptRecursion
<1>3. \A n \in Nat : n \in S => n + 1 \in S
  <2> SUFFICES ASSUME NEW n \in Nat, n \in S, n + 1 <= Len(ring)
               PROVE  Drawn(Kept(after)[n + 1], n + 1, after)
    OBVIOUS
  <2>1. Drawn(Kept(after)[n], n, after) /\ n + 1 \in 1..Len(ring)
    BY <1>1
  <2>2. Kept(after)[n + 1] = IF ring[n + 1].seq > after
                             THEN Append(Kept(after)[n], ring[n + 1])
                             ELSE Kept(after)[n]
    <3>1. (n + 1) - 1 = n
      OBVIOUS
    <3> QED BY <2>1, <3>1, KeptRecursion
  <2> QED BY <2>1, <2>2, DrawnStep
<1>4. Len(ring) \in S
  <2> HIDE DEF S
  <2> QED BY <1>1, <1>2, <1>3, Naturals
<1> QED BY <1>1, <1>4, KeptRecursion
-----------------------------------------------------------------------------
(* What holds of events, and what more history leaves as it is.            *)
LEMMA Events ==
  /\ Close \in Item /\ Close \notin Event /\ Close.seq = 0 /\ Close.end
  /\ \A e \in Event : /\ e \in Item /\ e # Close
                      /\ e.seq \in Nat /\ e.seq \in 1..MaxSeq /\ e.end \in BOOLEAN
  /\ MaxSeq \in Nat /\ NoConn \notin Conn
BY ProgressStreamAssumption DEF Event, Item, Close

LEMMA TravelsOn ==
  ASSUME missed \subseteq missed', published \subseteq published',
         lastSeq' = lastSeq, NEW s, Travels(s)
  PROVE  Travels(s)'
<1>1. \A x, e : Trails(x, e) => Trails(x, e)'
  BY DEF Trails, Raced, Counted
<1>2. Orderly(s)'
  BY <1>1 DEF Travels, Orderly
<1>3. Ahead(s)'
  BY DEF Travels, Ahead, Counted
<1> QED BY <1>2, <1>3 DEF Travels

(* The bus, when it does not move.                                         *)
LEMMA BusStays ==
  ASSUME Publishing, Numbered, Latest, UNCHANGED <<busVars, backend>>,
         missed \subseteq missed'
  PROVE  Publishing' /\ Numbered' /\ Latest'
<1> USE DEF busVars
<1>1. \A x, e : Trails(x, e) => Trails(x, e)'
  BY DEF Trails, Raced, Counted
<1>2. Publishing'
  BY DEF Publishing, Counted
<1>3. Numbered'
  BY DEF Numbered, Counted, Reading
<1>4. Orderly(ring)'
  BY <1>1 DEF Latest, Orderly
<1>5. Latest'
  <2>1. \A e \in published : Counted(e)' = Counted(e)
    BY DEF Counted
  <2> QED BY <1>1, <1>4, <2>1 DEF Latest
<1> QED BY <1>2, <1>3, <1>5

(* The client, while others go on: what is published trails all that was.  *)
LEMMA ClientStays ==
  ASSUME IInv, UNCHANGED clientVars,
         missed \subseteq missed', published \subseteq published',
         \A e \in published' \ published :
           e \in Event /\ \A x \in published : Trails(x, e)'
  PROVE  Answered' /\ Noted' /\ InOrderOnce' /\ NoSilentLoss'
<1> USE DEF clientVars
<1>1. \A e \in published : Owed(e)' => Owed(e)
  BY DEF Owed, Seen, Lost
<1>2. \A e \in published' \ published : Owed(e)' => \A x \in published : x.seq < e.seq
  BY DEF Owed, Lost, Raced, Trails
<1>3. Answered'
  <2>1. Travels(response)'
    BY TravelsOn DEF IInv, Answered
  <2>2. \A e \in published' : client' = "reading" /\ Owed(e)' =>
          Offers(response, e) \/ Below(response, e)
    <3> SUFFICES ASSUME NEW e \in published', client = "reading", Owed(e)'
                 PROVE  Offers(response, e) \/ Below(response, e)
      OBVIOUS
    <3>1. CASE e \in published
      BY <1>1, <3>1 DEF IInv, Answered
    <3>2. CASE e \notin published
      BY <1>2, <3>2 DEF IInv, Answered, Travels, Below
    <3> QED BY <3>1, <3>2
  <2>3. response' = response
    OBVIOUS
  <2> QED BY <2>1, <2>2, <2>3 DEF Answered, Offers, Below
<1>4. Noted'
  BY DEF IInv, Noted
<1>5. InOrderOnce'
  BY DEF IInv, InOrderOnce
<1>6. \A e \in published' : Owed(e)' => e.seq > lastSeq
  <2> SUFFICES ASSUME NEW e \in published', Owed(e)'
               PROVE  e.seq > lastSeq
    OBVIOUS
  <2>1. CASE e \in published
    <3>1. Owed(e)
      BY <1>1, <2>1
    <3>2. e.seq \in Nat /\ lastSeq \in Nat
      BY <2>1, Events DEF IInv, TypeOK
    <3> QED BY <2>1, <3>1, <3>2 DEF IInv, NoSilentLoss, Owed, Lost
  <2>2. CASE e \notin published
    <3>1. lastSeq = 0 \/ \E x \in published : x.seq = lastSeq
      BY DEF IInv, Noted
    <3>2. e.seq > 0
      BY <2>2, Events
    <3> QED BY <1>2, <2>2, <3>1, <3>2
  <2> QED BY <2>1, <2>2
<1>7. \A e \in published' : e.seq \in Nat
  BY Events DEF IInv, TypeOK
<1>8. NoSilentLoss'
  <2> SUFFICES ASSUME NEW e \in published', e.seq <= lastSeq
               PROVE  Seen(e)' \/ Lost(e)'
    BY DEF NoSilentLoss, Lost
  <2>1. e.seq \in Nat /\ lastSeq \in Nat
    BY <1>7, Events DEF IInv, TypeOK
  <2>2. ~ Owed(e)'
    BY <1>6, <2>1
  <2> QED BY <2>2 DEF Owed
<1> QED BY <1>3, <1>4, <1>5, <1>8
(* What travels to the client: when more comes, and when it is cut short.  *)
LEMMA Grows ==
  ASSUME missed \subseteq missed', published \subseteq published',
         lastSeq' = lastSeq,
         NEW s \in Seq(Item), Travels(s), NEW x \in Seq(Item),
         \A i \in 1..Len(x) :
           \/ x[i] = Close
           \/ /\ i = 1 /\ x[1] \in published'
              /\ ~ Counted(x[1]) \/ x[1].seq > lastSeq
              /\ \A j \in 1..Len(s) : s[j] = Close \/ Trails(s[j], x[1])'
  PROVE  Travels(s \o x)'
<1> DEFINE t == s \o x
<1>1. /\ Len(s) \in Nat /\ Len(x) \in Nat /\ DOMAIN s = 1..Len(s)
      /\ t \in Seq(Item) /\ Len(t) = Len(s) + Len(x) /\ DOMAIN t = 1..Len(t)
      /\ \A i \in 1..Len(t) : t[i] = IF i <= Len(s) THEN s[i] ELSE x[i - Len(s)]
  BY ConcatProperties, LenProperties
<1> HIDE DEF t
<1>2. Travels(s)'
  BY TravelsOn
<1>3. \A i \in 1..Len(t) :
        \/ i \in 1..Len(s) /\ t[i] = s[i]
        \/ t[i] = Close
        \/ i = Len(s) + 1 /\ t[i] = x[1] /\ 1 \in 1..Len(x) /\ x[1] # Close
  <2> TAKE i \in 1..Len(t)
  <2>1. CASE i <= Len(s)
    BY <1>1, <2>1
  <2>2. CASE ~ (i <= Len(s))
    <3>1. i - Len(s) \in 1..Len(x) /\ t[i] = x[i - Len(s)]
      BY <1>1, <2>2
    <3>2. x[i - Len(s)] = Close \/ i - Len(s) = 1
      BY <3>1
    <3> QED BY <1>1, <3>1, <3>2
  <2> QED BY <2>1, <2>2
<1>4. \A i \in 1..Len(t) : t[i] \in published' \cup {Close}
  BY <1>1, <1>2, <1>3 DEF Travels
<1>5. Ahead(t)'
  <2>1. \A e : Counted(e)' = Counted(e)
    BY DEF Counted
  <2> QED BY <1>1, <1>2, <1>3, <2>1 DEF Travels, Ahead
<1>6. Orderly(t)'
  <2> SUFFICES ASSUME NEW i \in 1..Len(t), NEW j \in 1..Len(t), i < j,
                      t[i] # Close, t[j] # Close
               PROVE  Trails(t[i], t[j])'
    BY <1>1 DEF Orderly
  <2>1. CASE j \in 1..Len(s) /\ t[j] = s[j]
    <3>1. i \in 1..Len(s)
      BY <1>1, <2>1
    <3>2. t[i] = s[i]
      BY <1>1, <3>1
    <3> QED BY <1>1, <1>2, <2>1, <3>1, <3>2 DEF Travels, Orderly
  <2>2. CASE j = Len(s) + 1 /\ t[j] = x[1] /\ 1 \in 1..Len(x) /\ x[1] # Close
    <3>1. i \in 1..Len(s)
      BY <1>1, <2>2
    <3>2. t[i] = s[i]
      BY <1>1, <3>1
    <3> QED BY <2>2, <3>1, <3>2
  <2> QED BY <1>3, <2>1, <2>2
<1> QED BY <1>1, <1>4, <1>5, <1>6 DEF Travels, t

LEMMA Cut ==
  ASSUME TypeOK, NEW s \in Seq(Item), Travels(s), NEW t \in Seq(Item), NEW k \in Nat,
         k <= Len(s), k <= Len(t), \A i \in 1..k : t[i] = s[i],
         \A i \in 1..Len(t) : i > k => t[i] = Close
  PROVE  /\ Travels(t)
         /\ \A e \in published :
              /\ Below(s, e) => Below(t, e)
              /\ Owed(e) /\ Offers(s, e) => Offers(t, e) \/ Below(t, e)
<1>1. /\ Len(s) \in Nat /\ Len(t) \in Nat
      /\ DOMAIN s = 1..Len(s) /\ DOMAIN t = 1..Len(t)
  BY LenProperties
<1>2. \A i \in 1..Len(t) : t[i] = Close \/ (i \in 1..k /\ i \in 1..Len(s) /\ t[i] = s[i])
  BY <1>1
<1>3. \A i \in 1..Len(t) : t[i] \in published \cup {Close}
  BY <1>1, <1>2 DEF Travels
<1>4. Orderly(t)
  <2>1. \A i, j \in 1..Len(t) : i < j => s[i] = Close \/ s[j] = Close
                                 \/ i \notin 1..Len(s) \/ j \notin 1..Len(s)
                                 \/ Trails(s[i], s[j])
    BY <1>1 DEF Travels, Orderly
  <2> QED BY <1>1, <1>2, <2>1 DEF Orderly
<1>5. Ahead(t)
  BY <1>1, <1>2 DEF Travels, Ahead
<1>6. ASSUME NEW e \in published, Below(s, e) PROVE Below(t, e)
  BY <1>1, <1>2, <1>6 DEF Below
<1>7. ASSUME NEW e \in published, Owed(e), Offers(s, e)
      PROVE  Offers(t, e) \/ Below(t, e)
  <2>1. PICK j \in 1..Len(s) : s[j] = e
    BY <1>1, <1>7 DEF Offers
  <2>2. CASE j <= k
    <3>1. j \in 1..Len(t) /\ t[j] = e
      BY <1>1, <2>1, <2>2
    <3> QED BY <1>1, <3>1 DEF Offers
  <2>3. CASE ~ (j <= k)
    <3>1. e # Close /\ ~ Raced(e)
      BY <1>7, Events DEF Owed, Lost, Raced, TypeOK
    <3>2. \A i \in 1..Len(s) : i < j => s[i] = Close \/ s[i].seq < e.seq
      <4> TAKE i \in 1..Len(s)
      <4>1. i < j => s[i] = Close \/ Trails(s[i], e)
        BY <1>1, <2>1, <3>1 DEF Travels, Orderly
      <4> QED BY <3>1, <4>1 DEF Trails
    <3>3. \A i \in 1..Len(t) : t[i] = Close \/ (i \in 1..Len(s) /\ i < j /\ t[i] = s[i])
      BY <1>1, <1>2, <2>3
    <3> QED BY <1>1, <3>2, <3>3 DEF Below
  <2> QED BY <1>1, <2>2, <2>3
<1> QED BY <1>3, <1>4, <1>5, <1>6, <1>7 DEF Travels

LEMMA ReplayTravels ==
  ASSUME TypeOK, Latest
  PROVE  Travels(Replay(lastSeq)) /\ Replay(lastSeq) \in Seq(Event)
<1> DEFINE t == Replay(lastSeq)
<1>1. ring \in Seq(Event) /\ lastSeq \in Nat /\ Drawn(t, Len(ring), lastSeq)
  BY ReplayDrawn, Events DEF TypeOK
<1> HIDE DEF t
<1>2. t \in Seq(Event) /\ DOMAIN t = 1..Len(t) /\ DOMAIN ring = 1..Len(ring)
  BY <1>1, LenProperties DEF Drawn
<1>3. \A i \in 1..Len(t) : t[i] \in published
  BY <1>1, <1>2 DEF Drawn, Latest
<1>4. Orderly(t)
  <2>1. \A i, j \in 1..Len(t) : i < j => t[i] = Close \/ t[j] = Close \/ Trails(t[i], t[j])
    <3> SUFFICES ASSUME NEW i \in 1..Len(t), NEW j \in 1..Len(t), i < j
                 PROVE  t[i] = Close \/ t[j] = Close \/ Trails(t[i], t[j])
      OBVIOUS
    <3>1. PICK k \in 1..Len(ring), l \in 1..Len(ring) :
            k < l /\ t[i] = ring[k] /\ t[j] = ring[l]
      BY <1>1 DEF Drawn
    <3> QED BY <1>2, <3>1 DEF Latest, Orderly
  <2> QED BY <1>2, <2>1 DEF Orderly
<1>5. Ahead(t)
  BY <1>1, <1>2 DEF Drawn, Ahead
<1> QED BY <1>2, <1>3, <1>4, <1>5 DEF Travels, t

(* What is owed is replayed: else it has left the ring.                    *)
LEMMA ReplayOffers ==
  ASSUME TypeOK, NoSilentLoss, missed' = missed \cup RolledPast(lastSeq),
         seen' = seen, published' = published, NEW e \in published, Owed(e)'
  PROVE  Offers(Replay(lastSeq), e)
<1> DEFINE t == Replay(lastSeq)
<1>1. ring \in Seq(Event) /\ lastSeq \in Nat /\ Drawn(t, Len(ring), lastSeq)
  BY ReplayDrawn, Events DEF TypeOK
<1> HIDE DEF t
<1>2. DOMAIN t = 1..Len(t) /\ DOMAIN ring = 1..Len(ring)
  BY <1>1, LenProperties DEF Drawn
<1>3. Owed(e)
  BY DEF Owed, Seen, Lost
<1>4. e.seq > lastSeq
  <2>1. e.seq \in Nat
    BY Events DEF TypeOK
  <2> QED BY <1>1, <1>3, <2>1 DEF NoSilentLoss, Owed, Lost
<1>5. \E k \in 1..Len(ring) : ring[k] = e
  <2> SUFFICES ASSUME \A k \in DOMAIN ring : ring[k] # e PROVE FALSE
    BY <1>2
  <2>1. <<e, "ring">> \in RolledPast(lastSeq)
    BY <1>4 DEF RolledPast
  <2> QED BY <2>1 DEF Owed, Lost
<1>6. \E i \in 1..Len(t) : t[i] = e
  BY <1>1, <1>4, <1>5 DEF Drawn
<1> QED BY <1>2, <1>6 DEF Offers, t
-----------------------------------------------------------------------------
(* handleEvent takes a run of events up to the first that ends the stream. *)
LEMMA Taken ==
  ASSUME NEW s \in Seq(Event)
  PROVE  \E k \in 0..Len(s) :
           /\ UpToEnd(s) \in Seq(Event) /\ Len(UpToEnd(s)) = k
           /\ \A i \in 1..k : UpToEnd(s)[i] = s[i]
           /\ \A i \in 1..k : i < k => ~ s[i].end
           /\ IF HasEnd(s) THEN k > 0 /\ s[k].end ELSE k = Len(s)
<1>1. Len(s) \in Nat /\ DOMAIN s = 1..Len(s)
  BY LenProperties
<1>2. CASE ~ HasEnd(s)
  <2>1. UpToEnd(s) = s
    BY <1>2 DEF UpToEnd
  <2>2. \A i \in 1..Len(s) : ~ s[i].end
    BY <1>1, <1>2 DEF HasEnd
  <2>3. Len(s) \in 0..Len(s)
    BY <1>1
  <2>4. UpToEnd(s) \in Seq(Event) /\ Len(UpToEnd(s)) = Len(s)
    BY <2>1
  <2> QED BY <1>2, <2>1, <2>2, <2>3, <2>4
<1>3. CASE HasEnd(s)
  <2> DEFINE T == {i \in DOMAIN s : s[i].end}
             k == Min(T)
  <2>1. T \in SUBSET Nat /\ T # {}
    BY <1>1, <1>3 DEF HasEnd
  <2>2. k \in T /\ \A m \in T : k <= m
    <3> HIDE DEF T
    <3> QED BY <2>1, MinOfNaturals
  <2>3. k \in 1..Len(s) /\ s[k].end /\ \A i \in 1..k : i < k => ~ s[i].end
    <3>1. k \in 1..Len(s) /\ s[k].end
      BY <1>1, <2>2
    <3> HIDE DEF k
    <3>2. \A i \in 1..Len(s) : s[i].end => k <= i
      BY <1>1, <2>2
    <3> QED BY <1>1, <3>1, <3>2
  <2>4. UpToEnd(s) = SubSeq(s, 1, k)
    BY <1>3 DEF UpToEnd
  <2> HIDE DEF k
  <2>5. \A i \in 1..k : s[i] \in Event
    BY <1>1, <2>3, ElementOfSeq
  <2>6. /\ SubSeq(s, 1, k) \in Seq(Event) /\ Len(SubSeq(s, 1, k)) = k
        /\ \A i \in 1..k : SubSeq(s, 1, k)[i] = s[i]
    <3>1. /\ SubSeq(s, 1, k) \in Seq(Event)
          /\ Len(SubSeq(s, 1, k)) = IF 1 <= k THEN k - 1 + 1 ELSE 0
          /\ \A i \in 1..k-1+1 : SubSeq(s, 1, k)[i] = s[1 + i - 1]
      BY <2>3, <2>5, SubSeqProperties
    <3> QED BY <2>3, <3>1
  <2> QED BY <1>1, <1>3, <2>3, <2>4, <2>6
<1> QED BY <1>2, <1>3

LEMMA HandleEffect ==
  ASSUME TypeOK, NEW s \in Seq(Event), Handle(s)
  PROVE  \E k \in 0..Len(s) :
           /\ seen' \in Seq(Event) /\ Len(seen') = Len(seen) + k
           /\ \A i \in 1..Len(seen) : seen'[i] = seen[i]
           /\ \A i \in 1..k : seen'[Len(seen) + i] = s[i]
           /\ \A i \in 1..k : i < k => ~ s[i].end
           /\ IF HasEnd(s) THEN k > 0 /\ s[k].end ELSE k = Len(s)
           /\ lastSeq' \in 0..MaxSeq
           /\ lastSeq <= lastSeq' /\ \A i \in 1..k : s[i].seq <= lastSeq'
           /\ lastSeq' = lastSeq \/ \E i \in 1..k : s[i].seq = lastSeq'
           /\ terminated' = (terminated \/ HasEnd(s))
<1> DEFINE u == UpToEnd(s)
<1>1. PICK k \in 0..Len(s) :
           /\ u \in Seq(Event) /\ Len(u) = k
           /\ \A i \in 1..k : u[i] = s[i]
           /\ \A i \in 1..k : i < k => ~ s[i].end
           /\ IF HasEnd(s) THEN k > 0 /\ s[k].end ELSE k = Len(s)
  BY Taken
<1>2. /\ lastSeq' = Max({lastSeq} \cup {u[i].seq : i \in DOMAIN u})
      /\ seen' = seen \o u
      /\ terminated' = (terminated \/ HasEnd(s))
  BY DEF Handle
<1> HIDE DEF u
<1>3. k \in Nat /\ DOMAIN u = 1..k /\ \A i \in 1..k : u[i] \in Event
  BY <1>1, LenProperties, ElementOfSeq
<1>4. /\ seen' \in Seq(Event) /\ Len(seen') = Len(seen) + k
      /\ \A i \in 1..Len(seen) : seen'[i] = seen[i]
      /\ \A i \in 1..k : seen'[Len(seen) + i] = s[i]
  <2>1. seen \in Seq(Event) /\ Len(seen) \in Nat
    BY LenProperties DEF TypeOK
  <2>2. /\ seen' \in Seq(Event) /\ Len(seen') = Len(seen) + k
        /\ \A i \in 1..Len(seen) + k :
             seen'[i] = IF i <= Len(seen) THEN seen[i] ELSE u[i - Len(seen)]
    <3>1. u \in Seq(Event) /\ Len(u) = k
      BY <1>1
    <3>2. /\ seen \o u \in Seq(Event) /\ Len(seen \o u) = Len(seen) + Len(u)
          /\ \A i \in 1..Len(seen) + Len(u) :
               (seen \o u)[i] = IF i <= Len(seen) THEN seen[i] ELSE u[i - Len(seen)]
      BY <2>1, <3>1, ConcatProperties
    <3>3. seen' = seen \o u
      BY <1>2
    <3> QED BY <3>1, <3>2, <3>3
  <2>3. \A i \in 1..k : seen'[Len(seen) + i] = u[i]
    <3> TAKE i \in 1..k
    <3>1. /\ Len(seen) + i \in 1..Len(seen) + k /\ ~ (Len(seen) + i <= Len(seen))
          /\ (Len(seen) + i) - Len(seen) = i
      BY <2>1, <1>3
    <3> QED BY <2>2, <3>1
  <2>4. \A i \in 1..Len(seen) : i \in 1..Len(seen) + k /\ i <= Len(seen)
    BY <1>3, <2>1
  <2> QED BY <1>1, <2>2, <2>3, <2>4
<1>5. /\ lastSeq' \in 0..MaxSeq
      /\ lastSeq <= lastSeq' /\ \A i \in 1..k : s[i].seq <= lastSeq'
      /\ lastSeq' = lastSeq \/ \E i \in 1..k : s[i].seq = lastSeq'
  <2> DEFINE T == {lastSeq} \cup {u[i].seq : i \in DOMAIN u}
  <2>1. MaxSeq \in Nat /\ T \in SUBSET (0..MaxSeq) /\ T # {}
    BY <1>3, Events DEF TypeOK
  <2>2. Max(T) \in T /\ \A m \in T : m <= Max(T)
    <3> HIDE DEF T
    <3> QED BY <2>1, MaxOfNaturals
  <2>3. lastSeq \in T /\ \A i \in 1..k : s[i].seq \in T
    BY <1>1, <1>3
  <2>4. \A m \in T : m = lastSeq \/ \E i \in 1..k : s[i].seq = m
    BY <1>1, <1>3
  <2> HIDE DEF T
  <2>5. lastSeq' = Max(T)
    BY <1>2 DEF T
  <2> QED BY <2>1, <2>2, <2>3, <2>4, <2>5
<1> QED BY <1>1, <1>2, <1>4, <1>5

(* Nothing that travels in order is taken twice, out of order, or passed   *)
(* over: the client keeps its promises.                                    *)
LEMMA HandleKeeps ==
  ASSUME IInv, ~ terminated, NEW s \in Seq(Event), Handle(s), Travels(s),
         \A e \in published : Owed(e) => Offers(s, e) \/ Below(s, e),
         UNCHANGED <<published, missed>>
  PROVE  Noted' /\ InOrderOnce' /\ NoSilentLoss'
<1>1. PICK k \in 0..Len(s) :
           /\ seen' \in Seq(Event) /\ Len(seen') = Len(seen) + k
           /\ \A i \in 1..Len(seen) : seen'[i] = seen[i]
           /\ \A i \in 1..k : seen'[Len(seen) + i] = s[i]
           /\ \A i \in 1..k : i < k => ~ s[i].end
           /\ IF HasEnd(s) THEN k > 0 /\ s[k].end ELSE k = Len(s)
           /\ lastSeq' \in 0..MaxSeq
           /\ lastSeq <= lastSeq' /\ \A i \in 1..k : s[i].seq <= lastSeq'
           /\ lastSeq' = lastSeq \/ \E i \in 1..k : s[i].seq = lastSeq'
           /\ terminated' = (terminated \/ HasEnd(s))
  BY HandleEffect DEF IInv
<1>2. /\ Len(s) \in Nat /\ Len(seen) \in Nat /\ k \in Nat /\ lastSeq \in Nat
      /\ DOMAIN s = 1..Len(s) /\ DOMAIN seen = 1..Len(seen)
      /\ DOMAIN seen' = 1..(Len(seen) + k)
      /\ \A i \in 1..Len(s) : s[i] \in Event
      /\ \A i \in 1..Len(seen) : seen[i] \in Event
  BY <1>1, LenProperties, ElementOfSeq, Events DEF IInv, TypeOK
<1>3. \A i \in 1..(Len(seen) + k) :
        \/ i \in 1..Len(seen) /\ seen'[i] = seen[i]
        \/ /\ i - Len(seen) \in 1..k /\ i - Len(seen) \in 1..Len(s)
           /\ seen'[i] = s[i - Len(seen)]
  <2> TAKE i \in 1..(Len(seen) + k)
  <2>0. Len(seen) \in Nat /\ k \in Nat /\ Len(s) \in Nat /\ k <= Len(s)
    BY <1>2
  <2>1. CASE i <= Len(seen)
    <3>1. i \in 1..Len(seen)
      BY <2>0, <2>1
    <3> QED BY <1>1, <3>1
  <2>2. CASE ~ (i <= Len(seen))
    <3>1. /\ i - Len(seen) \in 1..k /\ i - Len(seen) \in 1..Len(s)
          /\ i = Len(seen) + (i - Len(seen))
      BY <2>0, <2>2
    <3>2. seen'[Len(seen) + (i - Len(seen))] = s[i - Len(seen)]
      BY <1>1, <3>1
    <3> QED BY <3>1, <3>2
  <2> QED BY <2>1, <2>2
<1>4. Noted'
  <2>1. \A i \in 1..(Len(seen) + k) : seen'[i] \in published /\ seen'[i].seq <= lastSeq'
    <3> TAKE i \in 1..(Len(seen) + k)
    <3>1. CASE i \in 1..Len(seen) /\ seen'[i] = seen[i]
      <4>1. seen[i] \in published /\ seen[i].seq <= lastSeq /\ seen[i].seq \in Nat
        BY <1>2, <3>1, Events DEF IInv, Noted
      <4>2. lastSeq' \in Nat
        BY <1>1, Events
      <4>3. lastSeq <= lastSeq' /\ lastSeq \in Nat
        BY <1>1, <1>2
      <4>4. seen[i].seq <= lastSeq'
        BY <4>1, <4>2, <4>3
      <4> QED BY <3>1, <4>1, <4>4
    <3>2. CASE /\ i - Len(seen) \in 1..k /\ i - Len(seen) \in 1..Len(s)
               /\ seen'[i] = s[i - Len(seen)]
      BY <1>1, <1>2, <3>2, Events DEF Travels
    <3> QED BY <1>3, <3>1, <3>2
  <2>2. ~ terminated' => \A i \in 1..(Len(seen) + k) : ~ seen'[i].end
    <3> SUFFICES ASSUME ~ terminated', NEW i \in 1..(Len(seen) + k)
                 PROVE  ~ seen'[i].end
      OBVIOUS
    <3>1. ~ HasEnd(s)
      BY <1>1
    <3>2. \A j \in 1..Len(s) : ~ s[j].end
      BY <1>2, <3>1 DEF HasEnd
    <3>3. \A j \in 1..Len(seen) : ~ seen[j].end
      BY <1>2 DEF IInv, Noted
    <3> QED BY <1>3, <3>2, <3>3
  <2>3. lastSeq' = 0 \/ \E i \in 1..(Len(seen) + k) : seen'[i].seq = lastSeq'
    <3>1. CASE lastSeq' = lastSeq
      <4>1. lastSeq = 0 \/ \E i \in 1..Len(seen) : seen[i].seq = lastSeq
        BY <1>2 DEF IInv, Noted
      <4>2. \A i \in 1..Len(seen) : i \in 1..(Len(seen) + k)
        BY <1>2
      <4> QED BY <1>1, <3>1, <4>1, <4>2
    <3>2. CASE \E i \in 1..k : s[i].seq = lastSeq'
      <4>1. PICK i \in 1..k : s[i].seq = lastSeq'
        BY <3>2
      <4>2. Len(seen) + i \in 1..(Len(seen) + k)
        BY <1>2
      <4> QED BY <1>1, <4>1, <4>2
    <3> QED BY <1>1, <3>1, <3>2
  <2> QED BY <1>2, <2>1, <2>2, <2>3 DEF Noted
<1>5. InOrderOnce'
  <2> SUFFICES ASSUME NEW i \in 1..(Len(seen) + k), NEW j \in 1..(Len(seen) + k), i < j
               PROVE  /\ seen'[i] # seen'[j]
                      /\ \/ seen'[i].seq < seen'[j].seq
                         \/ seen'[j].by = "cancel" /\ j = Len(seen) + k
    BY <1>1, <1>2 DEF InOrderOnce
  <2>1. CASE j \in 1..Len(seen) /\ seen'[j] = seen[j]
    <3>1. i \in 1..Len(seen) /\ seen'[i] = seen[i]
      BY <1>1, <1>2, <2>1
    <3>2. /\ seen[i] # seen[j]
          /\ seen[i].seq < seen[j].seq \/ (seen[j].by = "cancel" /\ j = Len(seen))
      BY <1>2, <2>1, <3>1 DEF IInv, InOrderOnce
    <3>3. seen[j].by # "cancel"
      <4>1. ~ seen[j].end /\ seen[j] \in published
        BY <1>2, <2>1 DEF IInv, Noted
      <4> QED BY <4>1 DEF IInv, Numbered, Counted
    <3> QED BY <2>1, <3>1, <3>2, <3>3
  <2>2. CASE /\ j - Len(seen) \in 1..k /\ j - Len(seen) \in 1..Len(s)
             /\ seen'[j] = s[j - Len(seen)]
    <3> DEFINE l == j - Len(seen)
    <3>1. s[l] \in published /\ s[l] \in Event /\ s[l] # Close
      BY <1>2, <2>2, Events DEF Travels
    <3>2. seen'[i] \in published /\ seen'[i] \in Event /\ ~ seen'[i].end
      <4>1. CASE i \in 1..Len(seen) /\ seen'[i] = seen[i]
        BY <1>2, <4>1 DEF IInv, Noted
      <4>2. CASE /\ i - Len(seen) \in 1..k /\ i - Len(seen) \in 1..Len(s)
                 /\ seen'[i] = s[i - Len(seen)]
        <5>1. i - Len(seen) < k
          BY <1>2, <2>2, <4>2
        <5> QED BY <1>1, <1>2, <4>2, <5>1, Events DEF Travels
      <4> QED BY <1>3, <4>1, <4>2
    <3>3. Counted(seen'[i])
      BY <3>2 DEF IInv, Numbered
    <3>4. CASE ~ Counted(s[l])
      <4>1. s[l].end
        BY <3>1, <3>4 DEF IInv, Numbered
      <4>2. l = k
        <5>1. l \in 1..k /\ k \in Nat
          BY <1>2, <2>2
        <5>2. ~ (l < k)
          BY <1>1, <4>1, <5>1
        <5> HIDE DEF l
        <5> QED BY <5>1, <5>2
      <4>3. s[l] # seen'[i] /\ s[l].by = "cancel"
        BY <3>3, <3>4 DEF Counted
      <4> QED BY <1>2, <2>2, <4>2, <4>3
    <3>5. CASE Counted(s[l])
      <4>1. seen'[i].seq < s[l].seq
        <5>1. CASE i \in 1..Len(seen) /\ seen'[i] = seen[i]
          <6>1. seen[i].seq <= lastSeq /\ s[l].seq > lastSeq
            BY <1>2, <2>2, <3>1, <3>5, <5>1 DEF IInv, Noted, Travels, Ahead
          <6> QED BY <1>2, <3>1, <3>2, <5>1, <6>1, Events
        <5>2. CASE /\ i - Len(seen) \in 1..k /\ i - Len(seen) \in 1..Len(s)
                   /\ seen'[i] = s[i - Len(seen)]
          <6>1. i - Len(seen) < l
            BY <1>2
          <6>2. s[i - Len(seen)] # Close
            BY <1>2, <5>2, Events
          <6>3. Trails(s[i - Len(seen)], s[l])
            BY <1>2, <2>2, <3>1, <5>2, <6>1, <6>2 DEF Travels, Orderly
          <6> QED BY <3>3, <3>5, <5>2, <6>3 DEF Trails
        <5> QED BY <1>3, <5>1, <5>2
      <4>2. seen'[i] # s[l]
        BY <3>1, <4>1, Events
      <4> QED BY <2>2, <4>1, <4>2
    <3> QED BY <3>4, <3>5
  <2> QED BY <1>3, <2>1, <2>2
<1>6. \A e \in published : Owed(e)' => Owed(e) /\ \A i \in 1..k : s[i] # e
  <2> SUFFICES ASSUME NEW e \in published, Owed(e)'
               PROVE  Owed(e) /\ \A i \in 1..k : s[i] # e
    OBVIOUS
  <2>1. \A i \in 1..(Len(seen) + k) : seen'[i] # e
    BY <1>2 DEF Owed, Seen
  <2>2. ~ Seen(e)
    <3>1. \A i \in 1..Len(seen) : i \in 1..(Len(seen) + k)
      BY <1>2
    <3> QED BY <1>1, <1>2, <2>1, <3>1 DEF Seen
  <2>3. \A i \in 1..k : s[i] # e
    <3>1. \A i \in 1..k : Len(seen) + i \in 1..(Len(seen) + k)
      BY <1>2
    <3> QED BY <1>1, <2>1, <3>1
  <2> QED BY <2>2, <2>3 DEF Owed, Lost
<1>7. \A e \in published : Owed(e)' => e.seq > lastSeq'
  <2> SUFFICES ASSUME NEW e \in published, Owed(e)' PROVE e.seq > lastSeq'
    OBVIOUS
  <2>1. Owed(e) /\ \A i \in 1..k : s[i] # e
    BY <1>6
  <2>2. e \in Event /\ e.seq \in Nat /\ e # Close
    BY Events DEF IInv, TypeOK
  <2>3. e.seq > lastSeq
    BY <1>2, <2>1, <2>2 DEF IInv, NoSilentLoss, Owed, Lost
  <2>4. \A i \in 1..k : s[i].seq < e.seq
    <3> TAKE i \in 1..k
    <3>0. i \in 1..Len(s) /\ s[i] # Close
      BY <1>2, Events
    <3>1. CASE Below(s, e)
      BY <1>2, <3>0, <3>1 DEF Below
    <3>2. CASE Offers(s, e)
      <4>1. PICK j \in 1..Len(s) : s[j] = e
        BY <1>2, <3>2 DEF Offers
      <4>2. i < j
        BY <1>2, <2>1, <4>1
      <4>3. Trails(s[i], e)
        BY <1>2, <2>2, <3>0, <4>1, <4>2 DEF Travels, Orderly
      <4> QED BY <2>1, <4>3 DEF Trails, Raced, Owed, Lost
    <3> QED BY <2>1, <3>1, <3>2
  <2> QED BY <1>1, <2>3, <2>4
<1>8. NoSilentLoss'
  <2> SUFFICES ASSUME NEW e \in published, e.seq <= lastSeq'
               PROVE  Seen(e)' \/ Lost(e)'
    BY DEF NoSilentLoss, Lost
  <2>1. e.seq \in Nat /\ lastSeq' \in Nat
    BY <1>1, Events DEF IInv, TypeOK
  <2>2. ~ Owed(e)'
    BY <1>7, <2>1
  <2> QED BY <2>2 DEF Owed
<1> QED BY <1>4, <1>5, <1>8
-----------------------------------------------------------------------------
(* The bus: what a push does to the ring, and a fan-out to the queues.     *)
LEMMA Pushed ==
  ASSUME TypeOK, NEW e \in Event, Push(e)
  PROVE  /\ ring' \in Seq(Event) /\ Len(ring') <= RingSize
         /\ ring' # <<>> /\ ring'[Len(ring')] = e
         /\ published' = published \cup {e}
         /\ \E d \in {0, 1} :
              /\ Len(ring') = Len(ring) - d + 1
              /\ \A i \in 1..(Len(ring) - d) : ring'[i] = ring[i + d] /\ i + d \in 1..Len(ring)
<1> DEFINE r == IF Len(ring) = RingSize THEN Tail(ring) ELSE ring
<1>1. /\ ring \in Seq(Event) /\ Len(ring) \in Nat /\ Len(ring) <= RingSize
      /\ RingSize \in Nat \ {0}
  BY LenProperties, ProgressStreamAssumption DEF TypeOK
<1>2. PICK d \in {0, 1} :
        /\ r \in Seq(Event) /\ Len(r) = Len(ring) - d /\ Len(r) < RingSize
        /\ \A i \in 1..(Len(ring) - d) : r[i] = ring[i + d] /\ i + d \in 1..Len(ring)
  <2>1. CASE Len(ring) = RingSize
    <3>1. ring # <<>>
      BY <1>1, <2>1, EmptySeq
    <3>2. /\ r = Tail(ring)
          /\ Tail(ring) \in Seq(Event) /\ Len(Tail(ring)) = Len(ring) - 1
          /\ \A i \in 1..Len(Tail(ring)) : Tail(ring)[i] = ring[i + 1]
      BY <1>1, <2>1, <3>1, HeadTailProperties
    <3>3. \A i \in 1..(Len(ring) - 1) : i + 1 \in 1..Len(ring)
      BY <1>1
    <3> HIDE DEF r
    <3> QED BY <1>1, <2>1, <3>2, <3>3
  <2>2. CASE Len(ring) # RingSize
    <3>1. r = ring
      BY <2>2
    <3> HIDE DEF r
    <3> QED BY <1>1, <2>2, <3>1
  <2> QED BY <2>1, <2>2
<1>3. ring' = Append(r, e) /\ published' = published \cup {e}
  BY DEF Push
<1> HIDE DEF r
<1>4. /\ ring' \in Seq(Event) /\ ring' # <<>> /\ Len(ring') = Len(r) + 1
      /\ \A i \in 1..Len(r) : ring'[i] = r[i]
      /\ ring'[Len(r) + 1] = e
  BY <1>2, <1>3, AppendProperties
<1>5. Len(ring') <= RingSize /\ ring'[Len(ring')] = e
  <2>1. Len(r) \in Nat
    BY <1>2, LenProperties
  <2> QED BY <1>1, <1>2, <1>4, <2>1
<1>6. /\ Len(ring') = Len(ring) - d + 1
      /\ \A i \in 1..(Len(ring) - d) : ring'[i] = ring[i + d] /\ i + d \in 1..Len(ring)
  BY <1>1, <1>2, <1>4
<1> QED BY <1>3, <1>4, <1>5, <1>6

LEMMA PushKeepsOrder ==
  ASSUME TypeOK, Latest, NEW e \in Event, Push(e), missed \subseteq missed',
         \A x \in published : Trails(x, e)'
  PROVE  (\A i \in DOMAIN ring' : ring'[i] \in published') /\ Orderly(ring)'
<1>1. PICK d \in {0, 1} :
              /\ Len(ring') = Len(ring) - d + 1
              /\ \A i \in 1..(Len(ring) - d) : ring'[i] = ring[i + d] /\ i + d \in 1..Len(ring)
  BY Pushed
<1>2. /\ ring' \in Seq(Event) /\ ring'[Len(ring')] = e /\ published' = published \cup {e}
  BY Pushed
<1>3. /\ DOMAIN ring' = 1..Len(ring') /\ DOMAIN ring = 1..Len(ring)
      /\ Len(ring) \in Nat /\ Len(ring') \in Nat
  BY <1>2, LenProperties DEF TypeOK
<1>4. \A i \in DOMAIN ring' : \/ i = Len(ring')
                              \/ i \in 1..(Len(ring) - d)
  BY <1>1, <1>3
<1>5. \A i \in DOMAIN ring' : ring'[i] \in published'
  BY <1>1, <1>2, <1>3, <1>4 DEF Latest
<1>6. \A x, f : Trails(x, f) => Trails(x, f)'
  BY DEF Trails, Raced, Counted
<1>7. Orderly(ring)'
  <2> SUFFICES ASSUME NEW i \in DOMAIN ring', NEW j \in DOMAIN ring', i < j,
                      NEW x, x = ring'[i], NEW f, f = ring'[j]
               PROVE  Trails(x, f)'
    BY DEF Orderly, Trails, Raced, Counted
  <2>1. i \in 1..(Len(ring) - d)
    BY <1>1, <1>3
  <2>2. CASE j = Len(ring')
    <3>1. ring'[i] \in published
      BY <1>1, <1>3, <2>1 DEF Latest
    <3>2. f = e
      BY <1>2, <2>2
    <3>3. x \in published
      BY <3>1
    <3> QED BY <3>2, <3>3
  <2>3. CASE j \in 1..(Len(ring) - d)
    <3>1. i + d < j + d /\ i + d \in 1..Len(ring) /\ j + d \in 1..Len(ring)
      BY <1>1, <1>3, <2>1, <2>3
    <3>2. ring'[i] = ring[i + d] /\ ring'[j] = ring[j + d]
      BY <1>1, <2>1, <2>3
    <3>3. ring[i + d] # Close /\ ring[j + d] # Close
      BY <3>1, ElementOfSeq, Events DEF TypeOK
    <3>4. Trails(x, f)
      BY <1>3, <3>1, <3>2, <3>3 DEF Latest, Orderly
    <3> QED BY <1>6, <3>4
  <2> QED BY <1>4, <2>2, <2>3
<1> QED BY <1>5, <1>7

LEMMA FannedOut ==
  ASSUME TypeOK, NEW items \in Seq(Item), Fanout(items)
  PROVE  /\ subq' \in [Conn -> Seq(Item)] /\ \A c \in Conn : Len(subq'[c]) <= QueueSize
         /\ handler' \in [Conn -> HandlerState]
         /\ \A c \in Conn :
              /\ \/ handler'[c] = handler[c]
                 \/ handler[c] = "asleep" /\ handler'[c] = "parked"
              /\ ~ Subscribed(c) => subq'[c] = subq[c]
              /\ Subscribed(c) =>
                   \E x \in Seq(Item) :
                     /\ subq'[c] = subq[c] \o x
                     /\ Len(x) <= Len(items) /\ \A i \in 1..Len(x) : x[i] = items[i]
                     /\ Len(subq[c]) < QueueSize /\ Len(items) > 0 => Len(x) > 0
<1>1. /\ handler \in [Conn -> HandlerState] /\ subq \in [Conn -> Seq(Item)]
      /\ \A c \in Conn : Len(subq[c]) <= QueueSize
      /\ QueueSize \in Nat \ {0} /\ Len(items) \in Nat
  BY ProgressStreamAssumption, LenProperties DEF TypeOK
<1>2. handler' \in [Conn -> HandlerState]
  BY <1>1 DEF Fanout, HandlerState
<1>3. \A c \in Conn : \/ handler'[c] = handler[c]
                      \/ handler[c] = "asleep" /\ handler'[c] = "parked"
  <2> TAKE c \in Conn
  <2>1. handler'[c] = IF handler[c] = "asleep" /\ Len(subq[c]) < QueueSize
                      THEN "parked" ELSE handler[c]
    BY DEF Fanout
  <2> QED BY <2>1
<1>4. \A c \in Conn : ~ Subscribed(c) => subq'[c] = subq[c]
  BY DEF Fanout
<1>5. ASSUME NEW c \in Conn, Subscribed(c)
      PROVE  /\ subq'[c] \in Seq(Item) /\ Len(subq'[c]) <= QueueSize
             /\ \E x \in Seq(Item) :
                  /\ subq'[c] = subq[c] \o x
                  /\ Len(x) <= Len(items) /\ \A i \in 1..Len(x) : x[i] = items[i]
                  /\ Len(subq[c]) < QueueSize /\ Len(items) > 0 => Len(x) > 0
  <2> DEFINE q == subq[c]
             n == Min({QueueSize, Len(q \o items)})
             x == SubSeq(items, 1, n - Len(q))
  <2>1. q \in Seq(Item) /\ Len(q) \in Nat /\ Len(q) <= QueueSize
    BY <1>1, LenProperties
  <2>2. subq'[c] = SubSeq(q \o items, 1, n)
    BY <1>5 DEF Fanout
  <2> HIDE DEF q
  <2>3. /\ q \o items \in Seq(Item) /\ Len(q \o items) = Len(q) + Len(items)
        /\ \A i \in 1..Len(q) + Len(items) :
             (q \o items)[i] = IF i <= Len(q) THEN q[i] ELSE items[i - Len(q)]
    BY <2>1, ConcatProperties
  <2>4. /\ n \in {QueueSize, Len(q \o items)} /\ n <= QueueSize /\ n <= Len(q) + Len(items)
        /\ n \in Nat
    <3> DEFINE T == {QueueSize, Len(q \o items)}
    <3>1. T \in SUBSET Nat /\ T # {} /\ QueueSize \in T /\ Len(q \o items) \in T
      BY <1>1, <2>1, <2>3
    <3>2. Min(T) \in T /\ \A m \in T : Min(T) <= m
      <4> HIDE DEF T
      <4> QED BY <3>1, MinOfNaturals
    <3> QED BY <1>1, <2>1, <2>3, <3>1, <3>2
  <2> HIDE DEF n
  <2>5. n >= Len(q) /\ n - Len(q) \in 0..Len(items)
    BY <1>1, <2>1, <2>3, <2>4
  <2>6. /\ SubSeq(q \o items, 1, n) \in Seq(Item)
        /\ Len(SubSeq(q \o items, 1, n)) = n
        /\ \A i \in 1..n : SubSeq(q \o items, 1, n)[i] = (q \o items)[i]
    <3>1. \A i \in 1..n : (q \o items)[i] \in Item
      <4> TAKE i \in 1..n
      <4>1. i \in 1..Len(q \o items)
        BY <1>1, <2>1, <2>3, <2>4
      <4> QED BY <2>3, <4>1, ElementOfSeq
    <3>2. /\ SubSeq(q \o items, 1, n) \in Seq(Item)
          /\ Len(SubSeq(q \o items, 1, n)) = IF 1 <= n THEN n - 1 + 1 ELSE 0
          /\ \A i \in 1..n-1+1 : SubSeq(q \o items, 1, n)[i] = (q \o items)[1 + i - 1]
      BY <2>4, <3>1, SubSeqProperties
    <3> QED BY <2>4, <3>2
  <2>7. /\ x \in Seq(Item) /\ Len(x) = n - Len(q)
        /\ \A i \in 1..(n - Len(q)) : x[i] = items[i]
    <3> DEFINE m == n - Len(q)
    <3>1. m \in Nat /\ m <= Len(items)
      BY <1>1, <2>5
    <3> HIDE DEF m
    <3>2. \A i \in 1..m : items[i] \in Item
      <4> TAKE i \in 1..m
      <4>1. i \in 1..Len(items)
        BY <1>1, <3>1
      <4> QED BY <4>1, ElementOfSeq
    <3>3. /\ SubSeq(items, 1, m) \in Seq(Item)
          /\ Len(SubSeq(items, 1, m)) = IF 1 <= m THEN m - 1 + 1 ELSE 0
          /\ \A i \in 1..m-1+1 : SubSeq(items, 1, m)[i] = items[1 + i - 1]
      BY <3>1, <3>2, SubSeqProperties
    <3>4. SubSeq(items, 1, m) \in Seq(Item) /\ Len(SubSeq(items, 1, m)) = m
          /\ \A i \in 1..m : SubSeq(items, 1, m)[i] = items[i]
      BY <3>1, <3>3
    <3> QED BY <3>4 DEF m
  <2> HIDE DEF x
  <2>8. q \o x = SubSeq(q \o items, 1, n)
    <3>1. /\ q \o x \in Seq(Item) /\ Len(q \o x) = Len(q) + Len(x)
          /\ \A i \in 1..Len(q) + Len(x) :
               (q \o x)[i] = IF i <= Len(q) THEN q[i] ELSE x[i - Len(q)]
      BY <2>1, <2>7, ConcatProperties
    <3>2. Len(q \o x) = n
      BY <2>1, <2>4, <2>7, <3>1
    <3>3. \A i \in 1..n : (q \o x)[i] = (q \o items)[i]
      <4> TAKE i \in 1..n
      <4>1. CASE i <= Len(q)
        BY <1>1, <2>1, <2>3, <2>4, <2>7, <3>1, <4>1
      <4>2. CASE ~ (i <= Len(q))
        <5>1. i - Len(q) \in 1..(n - Len(q))
          BY <2>1, <2>4, <4>2
        <5>2. i \in 1..Len(q) + Len(x) /\ i \in 1..Len(q) + Len(items)
          BY <1>1, <2>1, <2>4, <2>5, <2>7
        <5> QED BY <2>3, <2>7, <3>1, <4>2, <5>1, <5>2
      <4> QED BY <4>1, <4>2
    <3> QED BY <2>6, <3>1, <3>2, <3>3, SeqEqual
  <2>9. Len(q) < QueueSize /\ Len(items) > 0 => Len(x) > 0
    BY <1>1, <2>1, <2>3, <2>4, <2>7
  <2>10. subq'[c] \in Seq(Item) /\ Len(subq'[c]) <= QueueSize
    BY <2>2, <2>4, <2>6
  <2>11. subq'[c] = subq[c] \o x
    BY <2>2, <2>8 DEF q
  <2>12. x \in Seq(Item) /\ Len(x) <= Len(items) /\ \A i \in 1..Len(x) : x[i] = items[i]
    BY <1>1, <2>1, <2>5, <2>7
  <2>13. Len(subq[c]) < QueueSize /\ Len(items) > 0 => Len(x) > 0
    BY <2>9 DEF q
  <2> QED BY <2>10, <2>11, <2>12, <2>13
<1>6. subq' \in [Conn -> Seq(Item)] /\ \A c \in Conn : Len(subq'[c]) <= QueueSize
  <2>1. \A c \in Conn : subq'[c] \in Seq(Item) /\ Len(subq'[c]) <= QueueSize
    BY <1>1, <1>4, <1>5
  <2>2. subq' = [c \in Conn |-> subq'[c]]
    BY DEF Fanout
  <2> QED BY <2>1, <2>2
<1> QED BY <1>2, <1>3, <1>4, <1>5, <1>6
-----------------------------------------------------------------------------
(* The stream to the client, when a publisher moves.                       *)
LEMMA ComingParts ==
  ASSUME TypeOK, socket \in Conn
  PROVE  /\ wire[socket] \in Seq(Item) /\ subq[socket] \in Seq(Item)
         /\ backlog[socket] \in Seq(Item) /\ backlog[socket] \in Seq(Event)
         /\ wire[socket] \o backlog[socket] \in Seq(Item)
         /\ Coming \in Seq(Item) /\ DOMAIN Coming = 1..Len(Coming)
         /\ Coming = wire[socket] \o backlog[socket] \o subq[socket]
         /\ \A i \in DOMAIN subq[socket] : \E j \in DOMAIN Coming : Coming[j] = subq[socket][i]
<1>1. Event \subseteq Item
  BY DEF Item
<1>2. /\ wire[socket] \in Seq(Item) /\ subq[socket] \in Seq(Item)
      /\ backlog[socket] \in Seq(Event)
  BY DEF TypeOK
<1>3. backlog[socket] \in Seq(Item)
  BY <1>1, <1>2, SeqMonotonic
<1> DEFINE w == wire[socket] \o backlog[socket]
<1>4. w \in Seq(Item) /\ Len(w) \in Nat
  BY <1>2, <1>3, ConcatProperties, LenProperties
<1>5. Coming = w \o subq[socket]
  BY DEF Coming
<1> HIDE DEF w
<1>6. /\ Coming \in Seq(Item) /\ Len(Coming) = Len(w) + Len(subq[socket])
      /\ \A i \in 1..Len(w) + Len(subq[socket]) :
           Coming[i] = IF i <= Len(w) THEN w[i] ELSE subq[socket][i - Len(w)]
  BY <1>2, <1>4, <1>5, ConcatProperties
<1>7. DOMAIN Coming = 1..Len(Coming) /\ DOMAIN subq[socket] = 1..Len(subq[socket])
      /\ Len(subq[socket]) \in Nat
  BY <1>2, <1>6, LenProperties
<1>8. \A i \in DOMAIN subq[socket] : \E j \in DOMAIN Coming : Coming[j] = subq[socket][i]
  <2> TAKE i \in DOMAIN subq[socket]
  <2>1. /\ Len(w) + i \in 1..Len(w) + Len(subq[socket])
        /\ ~ (Len(w) + i <= Len(w)) /\ (Len(w) + i) - Len(w) = i
    BY <1>4, <1>7
  <2>2. Coming[Len(w) + i] = subq[socket][i]
    BY <1>6, <2>1
  <2> QED BY <1>6, <1>7, <2>1, <2>2
<1> QED BY <1>2, <1>3, <1>4, <1>5, <1>6, <1>7, <1>8 DEF w

LEMMA Regroup ==
  ASSUME NEW a \in Seq(Item), NEW b \in Seq(Item), NEW c \in Seq(Item)
  PROVE  (a \o b) \o c = a \o (b \o c)
<1> DEFINE l == (a \o b) \o c
           r == a \o (b \o c)
<1>1. Len(a) \in Nat /\ Len(b) \in Nat /\ Len(c) \in Nat
  BY LenProperties
<1>2. /\ a \o b \in Seq(Item) /\ Len(a \o b) = Len(a) + Len(b)
      /\ \A i \in 1..Len(a) + Len(b) : (a \o b)[i] = IF i <= Len(a) THEN a[i] ELSE b[i - Len(a)]
  BY ConcatProperties
<1>3. /\ b \o c \in Seq(Item) /\ Len(b \o c) = Len(b) + Len(c)
      /\ \A i \in 1..Len(b) + Len(c) : (b \o c)[i] = IF i <= Len(b) THEN b[i] ELSE c[i - Len(b)]
  BY ConcatProperties
<1> DEFINE ab == a \o b
           bc == b \o c
<1> HIDE DEF ab, bc
<1>4. /\ ab \o c \in Seq(Item) /\ Len(ab \o c) = Len(ab) + Len(c)
      /\ \A i \in 1..Len(ab) + Len(c) : (ab \o c)[i] = IF i <= Len(ab) THEN ab[i] ELSE c[i - Len(ab)]
  BY <1>2, ConcatProperties DEF ab
<1>5. /\ a \o bc \in Seq(Item) /\ Len(a \o bc) = Len(a) + Len(bc)
      /\ \A i \in 1..Len(a) + Len(bc) : (a \o bc)[i] = IF i <= Len(a) THEN a[i] ELSE bc[i - Len(a)]
  BY <1>3, ConcatProperties DEF bc
<1>6. Len(ab \o c) = Len(a \o bc) /\ Len(ab \o c) = Len(a) + Len(b) + Len(c)
  BY <1>1, <1>2, <1>3, <1>4, <1>5 DEF ab, bc
<1>7. \A i \in 1..Len(ab \o c) : (ab \o c)[i] = (a \o bc)[i]
  <2> TAKE i \in 1..Len(ab \o c)
  <2>1. Len(ab) = Len(a) + Len(b) /\ Len(bc) = Len(b) + Len(c)
    BY <1>2, <1>3 DEF ab, bc
  <2>2. CASE i <= Len(a)
    BY <1>1, <1>2, <1>4, <1>5, <1>6, <2>1, <2>2 DEF ab
  <2>3. CASE Len(a) < i /\ i <= Len(a) + Len(b)
    <3>1. /\ i - Len(a) \in 1..Len(b) + Len(c) /\ i - Len(a) <= Len(b)
          /\ i \in 1..Len(a) + Len(b) /\ ~ (i <= Len(a))
      BY <1>1, <1>6, <2>3
    <3> QED BY <1>1, <1>2, <1>3, <1>4, <1>5, <1>6, <2>1, <2>3, <3>1 DEF ab, bc
  <2>4. CASE Len(a) + Len(b) < i
    <3>1. /\ i - Len(a) \in 1..Len(b) + Len(c) /\ ~ (i - Len(a) <= Len(b))
          /\ ~ (i <= Len(a)) /\ (i - Len(a)) - Len(b) = i - (Len(a) + Len(b))
          /\ ~ (i <= Len(a) + Len(b))
      BY <1>1, <1>6, <2>4
    <3> QED BY <1>1, <1>3, <1>4, <1>5, <1>6, <2>1, <2>4, <3>1 DEF bc
  <2>5. i \in Nat
    BY <1>1, <1>6
  <2>6. \/ i <= Len(a)
        \/ Len(a) < i /\ i <= Len(a) + Len(b)
        \/ Len(a) + Len(b) < i
    BY <1>1, <2>5
  <2> QED BY <2>2, <2>3, <2>4, <2>6, Zenon
<1>8. ab \o c = a \o bc
  BY <1>4, <1>5, <1>6, <1>7, SeqEqual
<1> QED BY <1>8 DEF ab, bc

LEMMA ComingFrom ==
  ASSUME TypeOK, socket \in Conn, NEW e, Offers(Coming, e)
  PROVE  Offers(wire[socket], e) \/ Offers(backlog[socket], e) \/ Offers(subq[socket], e)
<1>1. PICK a : a = wire[socket]
  OBVIOUS
<1>2. PICK b : b = backlog[socket]
  OBVIOUS
<1>3. PICK q : q = subq[socket]
  OBVIOUS
<1>4. /\ a \in Seq(Item) /\ b \in Seq(Item) /\ q \in Seq(Item)
      /\ DOMAIN a = 1..Len(a) /\ DOMAIN b = 1..Len(b) /\ DOMAIN q = 1..Len(q)
      /\ Len(a) \in Nat /\ Len(b) \in Nat /\ Len(q) \in Nat
      /\ Coming = (a \o b) \o q
  BY <1>1, <1>2, <1>3, ComingParts, LenProperties
<1>5. PICK w : w = a \o b
  OBVIOUS
<1>6. /\ w \in Seq(Item) /\ Len(w) = Len(a) + Len(b)
      /\ \A i \in 1..Len(a) + Len(b) : w[i] = IF i <= Len(a) THEN a[i] ELSE b[i - Len(a)]
  BY <1>4, <1>5, ConcatProperties
<1>7. PICK s : s = w \o q
  OBVIOUS
<1>8. /\ s \in Seq(Item) /\ Len(s) = Len(w) + Len(q) /\ DOMAIN s = 1..Len(w) + Len(q)
      /\ \A i \in 1..Len(w) + Len(q) : s[i] = IF i <= Len(w) THEN w[i] ELSE q[i - Len(w)]
  <2>1. /\ s \in Seq(Item) /\ Len(s) = Len(w) + Len(q)
        /\ \A i \in 1..Len(w) + Len(q) : s[i] = IF i <= Len(w) THEN w[i] ELSE q[i - Len(w)]
    BY <1>4, <1>6, <1>7, ConcatProperties
  <2> QED BY <2>1, LenProperties
<1>9. PICK i \in 1..Len(w) + Len(q) : s[i] = e
  <2>1. Coming = s
    BY <1>4, <1>5, <1>7
  <2> QED BY <1>8, <2>1 DEF Offers
<1>10. CASE i <= Len(w)
  <2>1. i \in 1..Len(a) + Len(b) /\ w[i] = e
    BY <1>4, <1>6, <1>8, <1>9, <1>10
  <2>2. CASE i <= Len(a)
    <3>1. i \in 1..Len(a)
      BY <1>4, <2>1, <2>2
    <3> QED BY <1>1, <1>4, <1>6, <2>1, <2>2, <3>1 DEF Offers
  <2>3. CASE ~ (i <= Len(a))
    <3>1. i - Len(a) \in 1..Len(b)
      BY <1>4, <2>1, <2>3
    <3> QED BY <1>2, <1>4, <1>6, <2>1, <2>3, <3>1 DEF Offers
  <2> QED BY <2>2, <2>3
<1>11. CASE ~ (i <= Len(w))
  <2>1. i - Len(w) \in 1..Len(q)
    BY <1>4, <1>6, <1>9, <1>11
  <2> QED BY <1>3, <1>4, <1>8, <1>9, <1>11, <2>1 DEF Offers
<1> QED BY <1>10, <1>11

LEMMA StreamGrows ==
  ASSUME IInv, client = "connected", UNCHANGED <<clientVars, wire, backlog>>,
         missed \subseteq missed', published \subseteq published',
         \/ handler'[socket] = handler[socket]
         \/ handler[socket] = "asleep" /\ handler'[socket] = "parked",
         NEW s, s = Coming,
         NEW x \in Seq(Item), subq'[socket] = subq[socket] \o x,
         \A i \in 1..Len(x) :
           \/ x[i] = Close
           \/ /\ i = 1 /\ x[1] \in published'
              /\ ~ Counted(x[1]) \/ x[1].seq > lastSeq
              /\ \A j \in 1..Len(s) : s[j] = Close \/ Trails(s[j], x[1])',
         \A e \in published' : Owed(e)' =>
           \/ Offers(s, e) \/ Offers(x, e)
           \/ Below(s, e) /\ Below(x, e) /\ Outside(e)',
         pub'["request"].at = "retained" =>
           \A i \in DOMAIN subq'[socket] : subq'[socket][i] # pub'["request"].event
  PROVE  Streaming'
<1> USE DEF clientVars
<1>1. socket \in Conn
  BY DEF IInv, TypeOK, Placed
<1>2. /\ wire[socket] \o backlog[socket] \in Seq(Item) /\ subq[socket] \in Seq(Item)
      /\ s \in Seq(Item) /\ DOMAIN s = 1..Len(s) /\ Len(s) \in Nat
      /\ s = (wire[socket] \o backlog[socket]) \o subq[socket]
  <2>1. /\ wire[socket] \o backlog[socket] \in Seq(Item) /\ subq[socket] \in Seq(Item)
        /\ Coming \in Seq(Item)
        /\ Coming = (wire[socket] \o backlog[socket]) \o subq[socket]
    BY <1>1, ComingParts DEF IInv
  <2> QED BY <2>1, LenProperties
<1>l. Len(s) \in Nat /\ Len(x) \in Nat
  BY <1>2, LenProperties
<1>3. PICK t : t = s \o x
  OBVIOUS
<1>4. Coming' = t
  <2>1. Coming' = (wire[socket] \o backlog[socket]) \o (subq[socket] \o x)
    BY DEF Coming
  <2>2. ((wire[socket] \o backlog[socket]) \o subq[socket]) \o x
          = (wire[socket] \o backlog[socket]) \o (subq[socket] \o x)
    <3> DEFINE w == wire[socket] \o backlog[socket]
    <3>1. w \in Seq(Item) /\ subq[socket] \in Seq(Item)
      BY <1>2
    <3> HIDE DEF w
    <3>2. (w \o subq[socket]) \o x = w \o (subq[socket] \o x)
      BY <3>1, Regroup
    <3> QED BY <3>2 DEF w
  <2> QED BY <1>2, <1>3, <2>1, <2>2
<1>5. Travels(s)
  BY DEF IInv, Streaming
<1>6. Travels(t)'
  <2>1. Travels(s \o x)'
    BY <1>2, <1>5, Grows
  <2> QED BY <1>3, <2>1
<1>7. /\ Len(x) \in Nat /\ DOMAIN x = 1..Len(x)
      /\ Len(t) = Len(s) + Len(x) /\ DOMAIN t = 1..Len(t)
      /\ \A i \in 1..Len(s) + Len(x) : t[i] = IF i <= Len(s) THEN s[i] ELSE x[i - Len(s)]
  <2>1. /\ s \o x \in Seq(Item) /\ Len(s \o x) = Len(s) + Len(x)
        /\ \A i \in 1..Len(s) + Len(x) :
             (s \o x)[i] = IF i <= Len(s) THEN s[i] ELSE x[i - Len(s)]
    BY <1>2, ConcatProperties
  <2> QED BY <1>3, <2>1, LenProperties
<1>8. \A e : Offers(s, e) \/ Offers(x, e) => Offers(t, e)
  <2> SUFFICES ASSUME NEW e, Offers(s, e) \/ Offers(x, e) PROVE Offers(t, e)
    OBVIOUS
  <2>1. CASE Offers(s, e)
    <3>1. PICK i \in 1..Len(s) : s[i] = e
      BY <1>2, <2>1 DEF Offers
    <3>2. i \in 1..Len(s) + Len(x) /\ i <= Len(s)
      BY <1>l
    <3> QED BY <1>7, <3>1, <3>2 DEF Offers
  <2>2. CASE Offers(x, e)
    <3>1. PICK i \in 1..Len(x) : x[i] = e
      BY <1>7, <2>2 DEF Offers
    <3>2. /\ Len(s) + i \in 1..Len(s) + Len(x) /\ ~ (Len(s) + i <= Len(s))
          /\ (Len(s) + i) - Len(s) = i
      BY <1>l
    <3>3. t[Len(s) + i] = e
      BY <1>7, <3>1, <3>2
    <3> QED BY <1>7, <3>2, <3>3 DEF Offers
  <2> QED BY <2>1, <2>2
<1>9. \A e : Below(s, e) /\ Below(x, e) => Below(t, e)
  <2> SUFFICES ASSUME NEW e, Below(s, e), Below(x, e) PROVE Below(t, e)
    OBVIOUS
  <2>1. \A i \in 1..Len(s) + Len(x) :
          \/ i \in 1..Len(s) /\ t[i] = s[i]
          \/ i - Len(s) \in 1..Len(x) /\ t[i] = x[i - Len(s)]
    <3> TAKE i \in 1..Len(s) + Len(x)
    <3>1. CASE i <= Len(s)
      <4>1. i \in 1..Len(s)
        BY <1>l, <3>1
      <4> QED BY <1>7, <3>1, <4>1
    <3>2. CASE ~ (i <= Len(s))
      <4>1. i - Len(s) \in 1..Len(x)
        BY <1>l, <3>2
      <4> QED BY <1>7, <3>2, <4>1
    <3> QED BY <3>1, <3>2
  <2> QED BY <1>2, <1>7, <2>1 DEF Below
<1>10. \A e \in published' :
         Owed(e)' => Offers(t, e) \/ (Below(t, e) /\ Outside(e)')
  BY <1>8, <1>9
<1>11. handler'[socket] # "idle" =>
         \A i \in DOMAIN wire'[socket] : ~ wire'[socket][i].end
  BY DEF IInv, Streaming
<1>12. Travels(Coming)'
  BY <1>4, <1>6 DEF Travels, Orderly, Ahead, Trails, Raced, Counted
<1>13. \A e \in published' :
         Owed(e)' => Offers(Coming, e)' \/ (Below(Coming, e)' /\ Outside(e)')
  BY <1>4, <1>10 DEF Offers, Below
<1>14. socket' = socket
  OBVIOUS
<1> QED BY <1>11, <1>12, <1>13, <1>14 DEF Streaming
-----------------------------------------------------------------------------
(* Publishers.                                                             *)
LEMMA Readers ==
  /\ IsFiniteSet(Reading) /\ Cardinality(Reading) \in Nat
  /\ \A p : IsFiniteSet(Reading \cup {p}) /\ IsFiniteSet(Reading \ {p})
<1>1. IsFiniteSet(Publisher)
  <2>1. Publisher = ({} \cup {"loop"}) \cup {"request"}
    BY DEF Publisher
  <2> QED BY <2>1, FS_EmptySet, FS_AddElement
<1>2. IsFiniteSet(Reading)
  <2>1. Reading \in SUBSET Publisher
    BY DEF Reading
  <2> QED BY <1>1, <2>1, FS_Subset
<1> QED BY <1>2, FS_CardinalityType, FS_AddElement, FS_RemoveElement

LEMMA AssignKeeps ==
  ASSUME IInv, NEW p \in Publisher, NEW end \in BOOLEAN,
         NEW by \in {"run", "task", "cancel"}, Assign(p, end, by),
         backend # "restarted",
         p = "loop" => by # "cancel",
         p = "request" => by = "cancel" /\ end /\ \A e \in published : Counted(e)
  PROVE  IInv'
<1> DEFINE ev == [seq |-> nextSeq, end |-> end, by |-> by]
<1>1. /\ pub[p] = Idle
      /\ Cardinality(published) + Cardinality(Reading) < MaxSeq
      /\ pub' = [pub EXCEPT ![p] = [at |-> "read", event |-> ev]]
      /\ UNCHANGED <<ring, nextSeq, closed, published, serverVars, wire, clientVars,
                     missed, ended, backend, drops>>
  BY DEF Assign, Quantify, Reading
<1> USE DEF serverVars, clientVars
<1>2. /\ IsFiniteSet(published) /\ Cardinality(published) \in Nat
      /\ nextSeq = Cardinality(published) + 1 /\ MaxSeq \in Nat
  BY FS_CardinalityType, Events DEF IInv, Numbered
<1>3. ev \in Event /\ ev.seq = nextSeq /\ ev.end = end /\ ev.by = by
  BY <1>1, <1>2, Readers DEF Event
<1>4. /\ pub \in [Publisher -> [at : PublisherState, event : Item]]
      /\ pub' \in [Publisher -> [at : PublisherState, event : Item]]
      /\ pub'[p] = [at |-> "read", event |-> ev]
      /\ \A q \in Publisher : q # p => pub'[q] = pub[q]
      /\ "loop" \in Publisher /\ "request" \in Publisher
  BY <1>1, <1>3, Events DEF IInv, TypeOK, PublisherState, Publisher
<1> HIDE DEF ev
<1>5. TypeOK'
  BY <1>1, <1>4 DEF IInv, TypeOK
<1>6. \A x, e : Trails(x, e)' = Trails(x, e)
  BY <1>1 DEF Trails, Raced, Counted
<1>7. /\ pub'[p].at = "read" /\ pub'[p].event = ev
      /\ pub[p].at = "idle"
      /\ pub'["request"].at = "retained" => pub["request"].at = "retained"
      /\ pub["request"].at = "retained" => p # "request"
  BY <1>1, <1>4 DEF Idle
<1>8. Publishing'
  <2>1. CASE p = "loop"
    <3>1. pub'["request"] = pub["request"]
      BY <1>4, <2>1
    <3>2. Counted(ev)
      BY <1>3, <2>1 DEF Counted
    <3> QED BY <1>1, <1>3, <1>7, <2>1, <3>1, <3>2 DEF IInv, Publishing, Counted
  <2>2. CASE p = "request"
    <3>1. pub'["loop"] = pub["loop"]
      BY <1>4, <2>2
    <3>2. ~ Counted(ev) /\ ev.end
      BY <1>3, <2>2 DEF Counted
    <3> QED BY <1>1, <1>3, <1>7, <2>2, <3>1, <3>2 DEF IInv, Publishing, Counted
  <2> QED BY <2>1, <2>2 DEF Publisher
<1>9. Numbered'
  <2>1. Reading' = Reading \cup {p} /\ p \notin Reading
    <3>1. \A q \in Publisher : pub'[q].at = "read" <=> q = p \/ pub[q].at = "read"
      BY <1>4, <1>7
    <3> QED BY <1>7, <3>1 DEF Reading
  <2>2. Cardinality(Reading') = Cardinality(Reading) + 1
    BY <2>1, Readers, FS_AddElement
  <2>3. Cardinality(published') + Cardinality(Reading') <= MaxSeq
    BY <1>1, <1>2, <2>2, Readers
  <2>4. \A e \in published : e.seq < nextSeq
    BY DEF IInv, Numbered
  <2>5. \A q \in Publisher : pub'[q].at = "read" => pub'[q].event.seq <= nextSeq
    <3> TAKE q \in Publisher
    <3>1. CASE q = p
      BY <1>2, <1>3, <1>7, <3>1
    <3>2. CASE q # p
      BY <1>4, <3>2 DEF IInv, Numbered
    <3> QED BY <3>1, <3>2
  <2>6. pub'["loop"].at = "read" =>
          \A e \in published : Counted(e) => e.seq < pub'["loop"].event.seq
    <3>1. CASE p = "loop"
      BY <1>3, <1>7, <2>4, <3>1
    <3>2. CASE p # "loop"
      BY <1>4, <3>2 DEF IInv, Numbered
    <3> QED BY <3>1, <3>2
  <2> QED BY <1>1, <2>3, <2>5, <2>6 DEF IInv, Numbered, Counted
<1>10. Latest'
  <2>1. Orderly(ring)'
    BY <1>1, <1>6 DEF IInv, Latest, Orderly
  <2>2. (\A e \in published : Counted(e)) =>
          \A e \in published : ring # <<>> /\ e.seq <= ring[Len(ring)].seq
    BY DEF IInv, Latest
  <2>3. pub'["loop"].at = "read" =>
          \A e \in published : \/ e.seq < pub'["loop"].event.seq
                               \/ ring # <<>> /\ ring[Len(ring)] = e
    <3>1. CASE p = "loop"
      BY <1>3, <1>7, <3>1 DEF IInv, Numbered
    <3>2. CASE p # "loop"
      BY <1>4, <3>2 DEF IInv, Latest
    <3> QED BY <3>1, <3>2
  <2>4. pub'["request"].at = "retained" =>
          \A e \in published \ {pub'["request"].event} :
            Trails(e, pub'["request"].event)
    BY <1>4, <1>7 DEF IInv, Latest
  <2>5. ASSUME pub'["request"].at = "retained", NEW f, f = pub'["request"].event
        PROVE  \A e \in published \ {f} : Trails(e, f)'
    BY <1>6, <2>4, <2>5
  <2> QED BY <1>1, <2>1, <2>2, <2>3, <2>5 DEF IInv, Latest, Counted, Trails, Raced
<1>11. Placed'
  BY <1>1 DEF IInv, Placed, Subscribed
<1>12. Answered' /\ Noted' /\ InOrderOnce' /\ NoSilentLoss'
  BY <1>1, ClientStays
<1>13. Streaming'
  <2>1. /\ Coming' = Coming
        /\ Travels(Coming)' = Travels(Coming)
        /\ \A e : Owed(e)' = Owed(e)
    BY <1>1 DEF Coming, Travels, Orderly, Ahead, Trails, Raced, Counted, Owed, Seen, Lost
  <2>2. \A e : Outside(e) => Outside(e)'
    BY <1>1, <1>4, <1>7 DEF Outside
  <2>3. pub'["request"].at = "retained" =>
          pub["request"].at = "retained" /\ pub'["request"].event = pub["request"].event
    BY <1>4, <1>7
  <2> QED BY <1>1, <2>1, <2>2, <2>3 DEF IInv, Streaming, Offers, Below
<1> QED BY <1>5, <1>8, <1>9, <1>10, <1>11, <1>12, <1>13 DEF IInv
LEMMA FanTaken ==
  ASSUME TypeOK, socket \in Conn, NEW items \in Seq(Item), Fanout(items)
  PROVE  \E x \in Seq(Item) :
           /\ subq'[socket] = subq[socket] \o x
           /\ Len(x) <= Len(items) /\ \A i \in 1..Len(x) : x[i] = items[i]
           /\ \/ handler'[socket] = handler[socket]
              \/ handler[socket] = "asleep" /\ handler'[socket] = "parked"
           /\ Subscribed(socket) /\ Len(subq[socket]) < QueueSize /\ Len(items) > 0
                => Len(x) > 0
           /\ ~ Subscribed(socket) => Len(x) = 0 /\ handler'[socket] = handler[socket]
           /\ \A i \in DOMAIN subq'[socket] :
                \/ \E j \in DOMAIN subq[socket] : subq'[socket][i] = subq[socket][j]
                \/ \E j \in 1..Len(x) : subq'[socket][i] = x[j]
<1> DEFINE q == subq[socket]
<1>1. q \in Seq(Item) /\ Len(q) \in Nat /\ DOMAIN q = 1..Len(q) /\ Len(items) \in Nat
  BY LenProperties DEF TypeOK
<1>2. PICK x \in Seq(Item) :
        /\ subq'[socket] = q \o x
        /\ Len(x) <= Len(items) /\ \A i \in 1..Len(x) : x[i] = items[i]
        /\ Subscribed(socket) /\ Len(q) < QueueSize /\ Len(items) > 0 => Len(x) > 0
        /\ ~ Subscribed(socket) => Len(x) = 0
  <2>1. CASE Subscribed(socket)
    <3>1. PICK x \in Seq(Item) :
            /\ subq'[socket] = q \o x
            /\ Len(x) <= Len(items) /\ \A i \in 1..Len(x) : x[i] = items[i]
            /\ Len(q) < QueueSize /\ Len(items) > 0 => Len(x) > 0
      BY <2>1, FannedOut
    <3> HIDE DEF q
    <3> QED BY <2>1, <3>1
  <2>2. CASE ~ Subscribed(socket)
    <3>1. subq'[socket] = q
      BY <2>2, FannedOut
    <3> DEFINE z == <<>>
    <3>2. z \in Seq(Item) /\ Len(z) = 0 /\ q \o z = q
      BY <1>1, EmptySeq, ConcatEmptySeq
    <3> HIDE DEF q, z
    <3>3. /\ subq'[socket] = q \o z
          /\ Len(z) <= Len(items) /\ \A i \in 1..Len(z) : z[i] = items[i]
      BY <1>1, <3>1, <3>2
    <3> QED BY <2>2, <3>2, <3>3
  <2> QED BY <2>1, <2>2
<1>3. \/ handler'[socket] = handler[socket]
      \/ handler[socket] = "asleep" /\ handler'[socket] = "parked"
  BY FannedOut
<1>4. ~ Subscribed(socket) => handler'[socket] = handler[socket]
  BY <1>3 DEF Subscribed
<1> HIDE DEF q
<1>5. \A i \in DOMAIN subq'[socket] :
        \/ \E j \in DOMAIN q : subq'[socket][i] = q[j]
        \/ \E j \in 1..Len(x) : subq'[socket][i] = x[j]
  <2>1. /\ q \o x \in Seq(Item) /\ Len(q \o x) = Len(q) + Len(x) /\ Len(x) \in Nat
        /\ \A i \in 1..Len(q) + Len(x) :
             (q \o x)[i] = IF i <= Len(q) THEN q[i] ELSE x[i - Len(q)]
    BY <1>1, ConcatProperties, LenProperties
  <2>2. DOMAIN (q \o x) = 1..Len(q) + Len(x)
    BY <2>1, LenProperties
  <2>3. \A i \in 1..Len(q) + Len(x) :
          \/ i \in 1..Len(q) /\ (q \o x)[i] = q[i]
          \/ i - Len(q) \in 1..Len(x) /\ (q \o x)[i] = x[i - Len(q)]
    <3> TAKE i \in 1..Len(q) + Len(x)
    <3>1. CASE i <= Len(q)
      BY <1>1, <2>1, <3>1
    <3>2. CASE ~ (i <= Len(q))
      BY <1>1, <2>1, <3>2
    <3> QED BY <3>1, <3>2
  <2> QED BY <1>1, <1>2, <2>2, <2>3
<1> QED BY <1>2, <1>3, <1>4, <1>5 DEF q

LEMMA FanPlaced ==
  ASSUME TypeOK, Placed, NEW items \in Seq(Item), Fanout(items),
         UNCHANGED <<backlog, wire, since, clientVars>>
  PROVE  Placed'
<1> USE DEF clientVars
<1>1. \A c \in Conn :
        /\ \/ handler'[c] = handler[c]
           \/ handler[c] = "asleep" /\ handler'[c] = "parked"
        /\ ~ Subscribed(c) => subq'[c] = subq[c]
  BY FannedOut
<1>2. ASSUME NEW c \in Conn
      PROVE  /\ handler'[c] \in {"idle", "accepted"} => backlog[c] = <<>> /\ subq'[c] = <<>>
             /\ handler'[c] = "replaying" => subq'[c] = <<>>
             /\ Subscribed(c)' => backlog[c] = <<>>
  BY <1>1 DEF Placed, Subscribed
<1>3. client = "connected" /\ handler'[socket] = "accepted" =>
        wire[socket] = <<>> /\ since[socket] = lastSeq
  <2>1. client = "connected" => socket \in Conn
    BY DEF TypeOK, Placed
  <2> QED BY <1>1, <2>1 DEF Placed
<1> QED BY <1>2, <1>3 DEF Placed
LEMMA LastSeen ==
  ASSUME IInv, ~ terminated
  PROVE  lastSeq = 0 \/ \E x \in published : Counted(x) /\ x.seq = lastSeq
<1>1. lastSeq = 0 \/ \E i \in DOMAIN seen : seen[i].seq = lastSeq
  BY DEF IInv, Noted
<1>2. \A i \in DOMAIN seen : seen[i] \in published /\ Counted(seen[i])
  BY DEF IInv, Noted, Numbered
<1> QED BY <1>1, <1>2

(* A publisher that has read next_seq puts its event into the ring.        *)
LEMMA PushNumbers ==
  ASSUME IInv, backend # "restarted", NEW p \in Publisher, pub[p].at = "read",
         NEW e, e = pub[p].event, e \notin published, e \in Event,
         published' = published \cup {e}, nextSeq' = nextSeq + 1,
         Reading' = Reading \ {p}
  PROVE  /\ nextSeq' \in 1..(MaxSeq + 1)
         /\ IsFiniteSet(published') /\ nextSeq' = Cardinality(published') + 1
         /\ Cardinality(published') + Cardinality(Reading') <= MaxSeq
         /\ \A x \in published' : x.seq < nextSeq'
<1>1. /\ IsFiniteSet(published) /\ Cardinality(published) \in Nat
      /\ nextSeq = Cardinality(published) + 1 /\ MaxSeq \in Nat
      /\ Cardinality(published) + Cardinality(Reading) <= MaxSeq
      /\ e.seq <= nextSeq /\ \A x \in published : x.seq < nextSeq
  BY FS_CardinalityType, Events DEF IInv, Numbered
<1>2. p \in Reading
  BY DEF Reading
<1>3. /\ IsFiniteSet(published') /\ Cardinality(published') = Cardinality(published) + 1
      /\ Cardinality(Reading') = Cardinality(Reading) - 1
      /\ Cardinality(Reading) \in Nat
  BY <1>1, <1>2, Readers, FS_AddElement, FS_RemoveElement
<1>4. Cardinality(Reading) >= 1
  <2>1. Cardinality(Reading) # 0
    BY <1>2, Readers, FS_EmptySet
  <2> QED BY <1>3, <2>1
<1>5. e.seq \in Nat /\ \A x \in published : x.seq \in Nat
  BY Events DEF IInv, TypeOK
<1>6. \A x \in published' : x.seq < nextSeq'
  BY <1>1, <1>5
<1> QED BY <1>1, <1>3, <1>4, <1>6

LEMMA FinishKeeps ==
  ASSUME IInv, FinishOnLoop
  PROVE  IInv'
<1> DEFINE ev == pub["loop"].event
<1>1. PICK e : e = ev
  OBVIOUS
<1>2. PICK items : items = IF e.by = "task" THEN <<e, Close>> ELSE <<e>>
  OBVIOUS
<1>3. /\ pub["loop"].at = "read" /\ e = pub["loop"].event
      /\ nextSeq' = nextSeq + 1
      /\ Push(e) /\ Fanout(items)
      /\ closed' \in BOOLEAN /\ ended' \in BOOLEAN
      /\ missed' = missed \cup Misses(e) \cup Overtaken(e)
      /\ pub' = [pub EXCEPT !["loop"] = Idle]
      /\ UNCHANGED <<since, backlog, wire, clientVars, backend, drops>>
  BY <1>1, <1>2 DEF FinishOnLoop, IInv, TypeOK
<1> HIDE DEF ev
<1> USE DEF clientVars
<1>4. /\ e \in Event /\ Counted(e) /\ backend # "restarted"
      /\ e # Close /\ e.seq \in Nat /\ e.seq > 0
  <2>1. pub["loop"] # Idle
    BY <1>3 DEF Idle
  <2> QED BY <1>3, <2>1, Events DEF IInv, Publishing
<1>5. e \notin published
  <2>1. \A x \in published : Counted(x) => x.seq < e.seq
    BY <1>3, <1>4 DEF IInv, Numbered
  <2> QED BY <1>4, <2>1
<1>6. /\ ring' \in Seq(Event) /\ Len(ring') <= RingSize
      /\ ring' # <<>> /\ ring'[Len(ring')] = e
      /\ published' = published \cup {e}
  BY <1>3, <1>4, Pushed DEF IInv
<1>7. missed \subseteq missed' /\ published \subseteq published'
  BY <1>3, <1>6
<1>8. \A x \in published : Trails(x, e)'
  <2> TAKE x \in published
  <2>1. x.seq < e.seq \/ (ring # <<>> /\ ring[Len(ring)] = x)
    BY <1>3, <1>4 DEF IInv, Latest
  <2>2. Counted(x) => x.seq < e.seq
    BY <1>3, <1>4 DEF IInv, Numbered
  <2>3. CASE x.seq < e.seq
    BY <2>3 DEF Trails
  <2>4. CASE ~ (x.seq < e.seq)
    <3>1. x.seq \in Nat /\ x.seq >= e.seq
      BY <1>4, <2>4, Events DEF IInv, TypeOK
    <3>2. Len(ring) \in DOMAIN ring
      BY <2>1, <2>4, LenProperties, EmptySeq DEF IInv, TypeOK
    <3>3. <<e, "race">> \in missed'
      BY <1>3, <2>1, <2>4, <3>1, <3>2 DEF Overtaken
    <3> QED BY <2>2, <2>4, <3>3 DEF Trails, Raced, Counted
  <2> QED BY <2>3, <2>4
<1>9. /\ pub'["loop"] = Idle /\ pub'["request"] = pub["request"]
      /\ pub' \in [Publisher -> [at : PublisherState, event : Item]]
  BY <1>3, Events DEF IInv, TypeOK, Publisher, PublisherState, Idle
<1>10. items \in Seq(Item) /\ Len(items) \in 1..2 /\ items[1] = e
       /\ \A i \in 1..Len(items) : i # 1 => items[i] = Close
  BY <1>2, <1>4, Events
<1>11. Reading' = Reading \ {"loop"}
  <2>1. \A q \in Publisher : pub'[q].at = "read" <=> q # "loop" /\ pub[q].at = "read"
    BY <1>9 DEF Publisher, Idle
  <2> QED BY <2>1 DEF Reading
<1>12. /\ nextSeq' \in 1..(MaxSeq + 1)
       /\ IsFiniteSet(published') /\ nextSeq' = Cardinality(published') + 1
       /\ Cardinality(published') + Cardinality(Reading') <= MaxSeq
       /\ \A x \in published' : x.seq < nextSeq'
  BY <1>3, <1>4, <1>5, <1>6, <1>11, PushNumbers DEF Publisher
<1>13. TypeOK'
  <2>1. missed' \subseteq (Event \X {"ring", "window", "overflow", "race"})
    <3>1. pub["request"].at = "retained" => pub["request"].event \in Event
      BY DEF IInv, Publishing, Idle
    <3> QED BY <1>3, <1>4, <3>1 DEF IInv, TypeOK, Misses, Overtaken
  <2>2. /\ subq' \in [Conn -> Seq(Item)] /\ \A c \in Conn : Len(subq'[c]) <= QueueSize
        /\ handler' \in [Conn -> HandlerState]
    BY <1>3, <1>10, FannedOut DEF IInv
  <2> QED BY <1>3, <1>4, <1>6, <1>9, <1>12, <2>1, <2>2 DEF IInv, TypeOK
<1>14. Publishing'
  BY <1>3, <1>4, <1>6, <1>9 DEF IInv, Publishing, Counted
<1>15. Numbered'
  <2>1. \A q \in Publisher : pub'[q].at = "read" => pub'[q].event.seq <= nextSeq'
    <3> SUFFICES ASSUME pub'["request"].at = "read"
                 PROVE  pub'["request"].event.seq <= nextSeq'
      BY <1>9 DEF Publisher, Idle
    <3>1. pub["request"].event.seq <= nextSeq /\ pub["request"].event \in Event
      BY <1>4, <1>9 DEF IInv, Numbered, Publishing, Publisher, Idle
    <3>2. nextSeq \in Nat /\ pub["request"].event.seq \in Nat
      BY <3>1, Events DEF IInv, TypeOK
    <3> QED BY <1>3, <1>9, <3>1, <3>2
  <2>2. pub'["loop"].at # "read"
    BY <1>9 DEF Idle
  <2>3. \A x \in published' : ~ Counted(x) => x.end
    BY <1>4, <1>6 DEF IInv, Numbered
  <2> QED BY <1>12, <2>1, <2>2, <2>3 DEF Numbered, Counted
<1>16. Latest'
  <2>1. (\A i \in DOMAIN ring' : ring'[i] \in published') /\ Orderly(ring)'
    BY <1>3, <1>4, <1>7, <1>8, PushKeepsOrder DEF IInv
  <2>2. (\A x \in published' : Counted(x)) => \A x \in published' : x.seq <= e.seq
    <3>1. \A x \in published : Counted(x) => x.seq < e.seq /\ x.seq \in Nat
      BY <1>3, <1>4, Events DEF IInv, Numbered, TypeOK
    <3> QED BY <1>4, <1>6, <3>1
  <2>3. pub'["loop"].at # "read"
    BY <1>9 DEF Idle
  <2>4. ASSUME pub'["request"].at = "retained", NEW f, f = pub'["request"].event
        PROVE  \A x \in published' \ {f} : Trails(x, f)'
    <3>1. ~ Counted(f)
      BY <1>9, <2>4 DEF IInv, Publishing, Idle
    <3>2. <<f, "race">> \in missed'
      BY <1>3, <1>9, <2>4 DEF Overtaken
    <3> QED BY <3>1, <3>2 DEF Trails, Raced, Counted
  <2> QED BY <1>6, <2>1, <2>2, <2>3, <2>4 DEF Latest, Counted, Trails, Raced
<1>17. Placed'
  BY <1>3, <1>10, FanPlaced DEF IInv
<1>18. Answered' /\ Noted' /\ InOrderOnce' /\ NoSilentLoss'
  BY <1>3, <1>4, <1>6, <1>7, <1>8, ClientStays
<1>19. CASE client # "connected"
  <2>1. Streaming'
    BY <1>3, <1>19 DEF Streaming
  <2> QED BY <1>13, <1>14, <1>15, <1>16, <1>17, <1>18, <2>1 DEF IInv
<1>20. CASE client = "connected"
  <2>1. socket \in Conn /\ ~ terminated
    BY <1>20 DEF IInv, TypeOK, Placed
  <2>2. PICK x \in Seq(Item) :
           /\ subq'[socket] = subq[socket] \o x
           /\ Len(x) <= Len(items) /\ \A i \in 1..Len(x) : x[i] = items[i]
           /\ \/ handler'[socket] = handler[socket]
              \/ handler[socket] = "asleep" /\ handler'[socket] = "parked"
           /\ Subscribed(socket) /\ Len(subq[socket]) < QueueSize /\ Len(items) > 0
                => Len(x) > 0
           /\ ~ Subscribed(socket) => Len(x) = 0 /\ handler'[socket] = handler[socket]
           /\ \A i \in DOMAIN subq'[socket] :
                \/ \E j \in DOMAIN subq[socket] : subq'[socket][i] = subq[socket][j]
                \/ \E j \in 1..Len(x) : subq'[socket][i] = x[j]
    BY <1>3, <1>10, <2>1, FanTaken DEF IInv
  <2>3. Len(x) \in Nat /\ DOMAIN x = 1..Len(x)
    BY LenProperties
  <2>4. PICK s : s = Coming
    OBVIOUS
  <2>5. s \in Seq(Item) /\ DOMAIN s = 1..Len(s) /\ Travels(s)
    BY <1>20, <2>1, <2>4, ComingParts DEF IInv, Streaming
  <2>6. e.seq > lastSeq
    <3>1. lastSeq = 0 \/ \E y \in published : Counted(y) /\ y.seq = lastSeq
      BY <2>1, LastSeen
    <3> QED BY <1>3, <1>4, <3>1 DEF IInv, Numbered
  <2>7. \A i \in 1..Len(x) : x[i] = Close \/ (i = 1 /\ x[1] = e)
    BY <1>10, <2>2, <2>3
  <2>8. \A j \in 1..Len(s) : s[j] = Close \/ Trails(s[j], e)'
    <3> SUFFICES ASSUME NEW j \in 1..Len(s), s[j] # Close, NEW y, y = s[j]
                 PROVE  Trails(y, e)'
      BY DEF Trails, Raced, Counted
    <3>1. y \in published
      BY <2>5 DEF Travels
    <3> QED BY <1>8, <3>1
  <2>9. \A f \in published' : Owed(f)' =>
           \/ Offers(s, f) \/ Offers(x, f)
           \/ Below(s, f) /\ Len(x) = 0 /\ Outside(f)'
    <3> SUFFICES ASSUME NEW f \in published', Owed(f)'
                 PROVE  \/ Offers(s, f) \/ Offers(x, f)
                        \/ Below(s, f) /\ Len(x) = 0 /\ Outside(f)'
      OBVIOUS
    <3>0. ~ Raced(f)' /\ <<f, "window">> \notin missed' /\ <<f, "overflow">> \notin missed'
      BY DEF Owed, Lost, Raced
    <3>1. CASE f \in published
      <4>1. Owed(f)
        BY <1>3, <1>7, <3>1 DEF Owed, Seen, Lost
      <4>2. Offers(s, f) \/ (Below(s, f) /\ Outside(f))
        BY <1>20, <2>4, <3>1, <4>1 DEF IInv, Streaming
      <4>3. ~ (pub["request"].at = "retained" /\ pub["request"].event = f)
        BY <1>3, <3>0 DEF Overtaken, Raced
      <4>4. Outside(f) => Len(x) = 0 /\ Outside(f)'
        BY <1>3, <2>2, <4>3 DEF Outside, Subscribed
      <4> QED BY <4>2, <4>4
    <3>2. CASE f = e
      <4>1. CASE Subscribed(socket)
        <5>1. Len(subq[socket]) < QueueSize
          <6>1. ~ (Len(subq[socket]) >= QueueSize)
            BY <1>3, <2>1, <3>0, <3>2, <4>1 DEF Misses
          <6>2. Len(subq[socket]) \in Nat /\ QueueSize \in Nat
            BY <2>1, LenProperties, ProgressStreamAssumption DEF IInv, TypeOK
          <6> QED BY <6>1, <6>2
        <5>2. Len(x) > 0 /\ x[1] = e
          BY <1>10, <2>2, <2>3, <4>1, <5>1
        <5> QED BY <2>3, <3>2, <5>2 DEF Offers
      <4>2. CASE ~ Subscribed(socket)
        <5>1. handler[socket] # "replaying"
          BY <1>3, <2>1, <3>0, <3>2 DEF Misses
        <5>2. handler[socket] \in {"idle", "accepted"}
          BY <2>1, <4>2, <5>1 DEF IInv, TypeOK, HandlerState, Subscribed
        <5>3. Below(s, e)
          <6> SUFFICES ASSUME NEW j \in 1..Len(s), s[j] # Close, NEW y, y = s[j]
                       PROVE  y.seq < e.seq
            BY <2>5 DEF Below
          <6>1. y \in published
            BY <2>5 DEF Travels
          <6> QED BY <1>8, <3>0, <3>2, <6>1 DEF Trails
        <5> QED BY <1>3, <2>2, <3>2, <4>2, <5>2, <5>3 DEF Outside
      <4> QED BY <4>1, <4>2
    <3> QED BY <1>6, <3>1, <3>2
  <2>10. pub'["request"].at = "retained" =>
           \A i \in DOMAIN subq'[socket] : subq'[socket][i] # pub'["request"].event
    <3> SUFFICES ASSUME pub["request"].at = "retained", NEW i \in DOMAIN subq'[socket]
                 PROVE  subq'[socket][i] # pub["request"].event
      BY <1>9
    <3>1. pub["request"].event \in Event /\ ~ Counted(pub["request"].event)
      BY DEF IInv, Publishing, Idle
    <3>2. \A j \in DOMAIN subq[socket] : subq[socket][j] # pub["request"].event
      BY <1>20 DEF IInv, Streaming
    <3>3. \A j \in 1..Len(x) : x[j] # pub["request"].event
      BY <1>4, <2>7, <3>1, Events
    <3> QED BY <2>2, <3>2, <3>3
  <2>11. \A i \in 1..Len(x) :
           \/ x[i] = Close
           \/ /\ i = 1 /\ x[1] \in published'
              /\ ~ Counted(x[1]) \/ x[1].seq > lastSeq
              /\ \A j \in 1..Len(s) : s[j] = Close \/ Trails(s[j], x[1])'
    <3> SUFFICES ASSUME NEW i \in 1..Len(x), x[i] # Close
                 PROVE  /\ i = 1 /\ x[1] \in published'
                        /\ ~ Counted(x[1]) \/ x[1].seq > lastSeq
                        /\ \A j \in 1..Len(s) : s[j] = Close \/ Trails(s[j], x[1])'
      OBVIOUS
    <3>1. i = 1 /\ x[1] = e
      BY <2>7
    <3> QED BY <1>6, <2>6, <2>8, <3>1
  <2>12. Streaming'
    <3>1. \A f : Len(x) = 0 => Below(x, f)
      BY <2>3 DEF Below
    <3> QED BY <1>3, <1>7, <1>20, <2>2, <2>4, <2>9, <2>10, <2>11, <3>1, StreamGrows
  <2> QED BY <1>13, <1>14, <1>15, <1>16, <1>17, <1>18, <2>12 DEF IInv
<1> QED BY <1>19, <1>20
LEMMA RetainKeeps ==
  ASSUME IInv, Retain
  PROVE  IInv'
<1>1. PICK e : e = pub["request"].event
  OBVIOUS
<1>2. /\ pub["request"].at = "read"
      /\ nextSeq' = nextSeq + 1 /\ Push(e) /\ ended' = TRUE
      /\ missed' = missed \cup Overtaken(e)
      /\ pub' = [pub EXCEPT !["request"].at = "retained"]
      /\ UNCHANGED <<closed, serverVars, wire, clientVars, backend, drops>>
  BY <1>1 DEF Retain
<1> USE DEF clientVars, serverVars
<1>3. /\ e \in Event /\ ~ Counted(e) /\ e.end /\ backend # "restarted"
      /\ e # Close /\ e.seq \in Nat /\ \A x \in published : Counted(x)
  <2>1. pub["request"] # Idle
    BY <1>2 DEF Idle
  <2> QED BY <1>1, <1>2, <2>1, Events DEF IInv, Publishing
<1>4. e \notin published
  BY <1>3
<1>5. /\ ring' \in Seq(Event) /\ Len(ring') <= RingSize
      /\ ring' # <<>> /\ ring'[Len(ring')] = e
      /\ published' = published \cup {e}
  BY <1>2, <1>3, Pushed DEF IInv
<1>6. missed \subseteq missed' /\ published \subseteq published'
  BY <1>2, <1>5
<1>7. \A x \in published : Trails(x, e)'
  <2> TAKE x \in published
  <2>1. ring # <<>> /\ x.seq <= ring[Len(ring)].seq
    BY <1>3 DEF IInv, Latest
  <2>2. CASE x.seq < e.seq
    BY <2>2 DEF Trails
  <2>3. CASE ~ (x.seq < e.seq)
    <3>1. Len(ring) \in DOMAIN ring /\ ring[Len(ring)] \in Event
      <4>1. Len(ring) \in 1..Len(ring) /\ DOMAIN ring = 1..Len(ring) /\ ring \in Seq(Event)
        BY <2>1, LenProperties, EmptySeq DEF IInv, TypeOK
      <4> QED BY <4>1, ElementOfSeq
    <3>2. x.seq \in Nat /\ ring[Len(ring)].seq \in Nat
      BY <3>1, Events DEF IInv, TypeOK
    <3>3. ring[Len(ring)].seq >= e.seq
      BY <1>3, <2>1, <2>3, <3>2
    <3>4. <<e, "race">> \in missed'
      BY <1>2, <3>1, <3>3 DEF Overtaken
    <3> QED BY <1>3, <3>4 DEF Trails, Raced, Counted
  <2> QED BY <2>2, <2>3
<1>8. /\ pub'["request"] = [at |-> "retained", event |-> e]
      /\ pub'["request"].at = "retained" /\ pub'["request"].event = e
      /\ pub'["loop"] = pub["loop"]
      /\ pub' \in [Publisher -> [at : PublisherState, event : Item]]
  <2>1. /\ pub \in [Publisher -> [at : PublisherState, event : Item]]
        /\ "request" \in Publisher /\ "loop" \in Publisher /\ "retained" \in PublisherState
    BY DEF IInv, TypeOK, Publisher, PublisherState
  <2>2. pub["request"] \in [at : PublisherState, event : Item]
    BY <2>1
  <2>3. [pub["request"] EXCEPT !.at = "retained"] = [at |-> "retained", event |-> e]
    BY <1>1, <2>2
  <2>4. pub'["request"] = [at |-> "retained", event |-> e] /\ pub'["loop"] = pub["loop"]
    BY <1>2, <2>1, <2>3
  <2>5. [at |-> "retained", event |-> e] \in [at : PublisherState, event : Item]
    BY <1>3, <2>1, Events
  <2>6. pub' = [pub EXCEPT !["request"] = [at |-> "retained", event |-> e]]
    BY <1>2, <2>1, <2>3
  <2> QED BY <2>1, <2>4, <2>5, <2>6
<1>9. Reading' = Reading \ {"request"}
  <2>1. \A q \in Publisher : pub'[q].at = "read" <=> q # "request" /\ pub[q].at = "read"
    BY <1>8 DEF Publisher
  <2> QED BY <2>1 DEF Reading
<1>10. /\ nextSeq' \in 1..(MaxSeq + 1)
       /\ IsFiniteSet(published') /\ nextSeq' = Cardinality(published') + 1
       /\ Cardinality(published') + Cardinality(Reading') <= MaxSeq
       /\ \A x \in published' : x.seq < nextSeq'
  BY <1>1, <1>2, <1>3, <1>4, <1>5, <1>9, PushNumbers DEF Publisher
<1>11. TypeOK'
  <2>1. missed' \subseteq (Event \X {"ring", "window", "overflow", "race"})
    BY <1>2, <1>3 DEF IInv, TypeOK, Overtaken
  <2>2. ended' \in BOOLEAN
    BY <1>2
  <2> QED BY <1>2, <1>3, <1>5, <1>8, <1>10, <2>1, <2>2 DEF IInv, TypeOK
<1>12. Publishing'
  BY <1>2, <1>3, <1>5, <1>8 DEF IInv, Publishing, Counted
<1>13. Numbered'
  <2>1. \A q \in Publisher : pub'[q].at = "read" => pub'[q].event.seq <= nextSeq'
    <3> SUFFICES ASSUME pub["loop"].at = "read"
                 PROVE  pub["loop"].event.seq <= nextSeq'
      BY <1>8 DEF Publisher
    <3>1. pub["loop"].event.seq <= nextSeq /\ pub["loop"].event \in Event
      BY <1>3 DEF IInv, Numbered, Publishing, Publisher, Idle
    <3>2. nextSeq \in Nat /\ pub["loop"].event.seq \in Nat
      BY <3>1, Events DEF IInv, TypeOK
    <3> QED BY <1>2, <3>1, <3>2
  <2>2. \A x \in published' : ~ Counted(x) => x.end
    BY <1>3, <1>5 DEF IInv, Numbered
  <2>3. pub'["loop"].at = "read" =>
          \A x \in published' : Counted(x) => x.seq < pub'["loop"].event.seq
    BY <1>3, <1>5, <1>8 DEF IInv, Numbered
  <2> QED BY <1>10, <2>1, <2>2, <2>3 DEF Numbered, Counted
<1>14. Latest'
  <2>1. (\A i \in DOMAIN ring' : ring'[i] \in published') /\ Orderly(ring)'
    BY <1>2, <1>3, <1>6, <1>7, PushKeepsOrder DEF IInv
  <2>2. ~ (\A x \in published' : Counted(x))
    BY <1>3, <1>5
  <2>3. pub'["loop"].at = "read" =>
          \A x \in published' : \/ x.seq < pub'["loop"].event.seq
                                \/ ring' # <<>> /\ ring'[Len(ring')] = x
    BY <1>3, <1>5, <1>8 DEF IInv, Numbered
  <2>4. \A x \in published' \ {e} : Trails(x, e)'
    BY <1>5, <1>7
  <2> QED BY <1>8, <2>1, <2>2, <2>3, <2>4 DEF Latest, Counted, Trails, Raced
<1>15. Placed'
  BY <1>2 DEF IInv, Placed, Subscribed
<1>16. Answered' /\ Noted' /\ InOrderOnce' /\ NoSilentLoss'
  BY <1>2, <1>3, <1>5, <1>6, <1>7, ClientStays
<1>17. Streaming'
  <2>1. CASE client # "connected"
    BY <1>2, <2>1 DEF Streaming
  <2>2. CASE client = "connected"
    <3>1. socket \in Conn
      BY <2>2 DEF IInv, TypeOK, Placed
    <3>2. PICK s : s = Coming
      OBVIOUS
    <3>3. PICK x : x = <<>>
      OBVIOUS
    <3>4. s \in Seq(Item) /\ DOMAIN s = 1..Len(s) /\ Travels(s)
      BY <2>2, <3>1, <3>2, ComingParts DEF IInv, Streaming
    <3>5. /\ x \in Seq(Item) /\ Len(x) = 0 /\ subq'[socket] = subq[socket] \o x
          /\ 1..Len(x) = {} /\ DOMAIN x = {}
      <4>1. subq[socket] \o <<>> = subq[socket] /\ <<>> \in Seq(Item) /\ Len(<<>>) = 0
        BY <3>1, ConcatEmptySeq, EmptySeq DEF IInv, TypeOK
      <4>2. x \in Seq(Item) /\ Len(x) = 0 /\ subq'[socket] = subq[socket] \o x
        BY <1>2, <3>3, <4>1
      <4> QED BY <4>2, LenProperties
    <3>6. \A f \in published' : Owed(f)' =>
            Offers(s, f) \/ (Below(s, f) /\ Below(x, f) /\ Outside(f)')
      <4> SUFFICES ASSUME NEW f \in published', Owed(f)'
                   PROVE  Offers(s, f) \/ (Below(s, f) /\ Outside(f)')
        BY <3>5 DEF Below
      <4>1. CASE f \in published
        <5>1. Owed(f)
          BY <1>2, <1>6, <4>1 DEF Owed, Seen, Lost
        <5>2. Offers(s, f) \/ (Below(s, f) /\ Outside(f))
          BY <2>2, <3>2, <4>1, <5>1 DEF IInv, Streaming
        <5>3. Outside(f) => Outside(f)'
          BY <1>2 DEF Outside
        <5> QED BY <5>2, <5>3
      <4>2. CASE f = e
        <5>1. ~ Raced(f)'
          BY DEF Owed, Lost, Raced
        <5>2. Below(s, e)
          <6> SUFFICES ASSUME NEW j \in 1..Len(s), s[j] # Close, NEW y, y = s[j]
                       PROVE  y.seq < e.seq
            BY <3>4 DEF Below
          <6>1. y \in published
            BY <3>4 DEF Travels
          <6> QED BY <1>7, <4>2, <5>1, <6>1 DEF Trails
        <5> QED BY <1>8, <4>2, <5>2 DEF Outside
      <4> QED BY <1>5, <4>1, <4>2
    <3>7. \A i \in DOMAIN subq'[socket] : subq'[socket][i] # pub'["request"].event
      <4> SUFFICES ASSUME NEW i \in DOMAIN subq[socket] PROVE subq[socket][i] # e
        BY <1>2, <1>8
      <4>1. PICK j \in DOMAIN s : s[j] = subq[socket][i]
        BY <3>1, <3>2, ComingParts DEF IInv
      <4> QED BY <1>3, <1>4, <3>4, <4>1 DEF Travels
    <3>8. /\ handler'[socket] = handler[socket]
          /\ lastSeq' = lastSeq /\ seen' = seen
      BY <1>2
    <3> QED BY <1>2, <1>6, <2>2, <3>2, <3>5, <3>6, <3>7, <3>8, StreamGrows
  <2> QED BY <2>1, <2>2
<1> QED BY <1>11, <1>12, <1>13, <1>14, <1>15, <1>16, <1>17 DEF IInv
LEMMA FanoutRetainedKeeps ==
  ASSUME IInv, FanoutRetained
  PROVE  IInv'
<1>1. PICK e : e = pub["request"].event
  OBVIOUS
<1>2. /\ pub["request"].at = "retained"
      /\ Fanout(<<e>>) /\ missed' = missed \cup Misses(e)
      /\ pub' = [pub EXCEPT !["request"].at = "closing"]
      /\ UNCHANGED <<ring, nextSeq, closed, published, since, backlog, wire,
                     clientVars, ended, backend, drops>>
  BY <1>1 DEF FanoutRetained
<1> USE DEF clientVars
<1>3. /\ e \in Event /\ ~ Counted(e) /\ e.end /\ backend # "restarted"
      /\ e # Close /\ e.seq \in Nat /\ e \in published
  <2>1. pub["request"] # Idle
    BY <1>2 DEF Idle
  <2> QED BY <1>1, <1>2, <2>1, Events DEF IInv, Publishing
<1>4. missed \subseteq missed' /\ published \subseteq published'
  BY <1>2
<1>5. PICK items : items = <<e>>
  OBVIOUS
<1>6. /\ items \in Seq(Item) /\ Len(items) = 1 /\ items[1] = e /\ Fanout(items)
  BY <1>2, <1>3, <1>5, Events
<1>7. /\ pub'["request"].at = "closing" /\ pub'["request"].event = e
      /\ pub'["request"] # Idle
      /\ pub'["loop"] = pub["loop"]
      /\ pub' \in [Publisher -> [at : PublisherState, event : Item]]
  <2>1. /\ pub \in [Publisher -> [at : PublisherState, event : Item]]
        /\ "request" \in Publisher /\ "loop" \in Publisher /\ "closing" \in PublisherState
    BY DEF IInv, TypeOK, Publisher, PublisherState
  <2>2. pub["request"] \in [at : PublisherState, event : Item]
    BY <2>1
  <2>3. [pub["request"] EXCEPT !.at = "closing"] = [at |-> "closing", event |-> e]
    BY <1>1, <2>2
  <2>4. pub'["request"] = [at |-> "closing", event |-> e] /\ pub'["loop"] = pub["loop"]
    BY <1>2, <2>1, <2>3
  <2>5. [at |-> "closing", event |-> e] \in [at : PublisherState, event : Item]
    BY <1>3, <2>1, Events
  <2>6. pub' = [pub EXCEPT !["request"] = [at |-> "closing", event |-> e]]
    BY <1>2, <2>1, <2>3
  <2> QED BY <2>1, <2>4, <2>5, <2>6 DEF Idle
<1>8. Reading' = Reading
  <2>1. \A q \in Publisher : pub'[q].at = "read" <=> pub[q].at = "read"
    BY <1>2, <1>7 DEF Publisher
  <2> QED BY <2>1 DEF Reading
<1>9. TypeOK'
  <2>1. missed' \subseteq (Event \X {"ring", "window", "overflow", "race"})
    BY <1>2, <1>3 DEF IInv, TypeOK, Misses
  <2>2. /\ subq' \in [Conn -> Seq(Item)] /\ \A c \in Conn : Len(subq'[c]) <= QueueSize
        /\ handler' \in [Conn -> HandlerState]
    BY <1>6, FannedOut DEF IInv
  <2> QED BY <1>2, <1>7, <2>1, <2>2 DEF IInv, TypeOK
<1>10. Publishing'
  BY <1>2, <1>3, <1>7 DEF IInv, Publishing, Counted
<1>11. Numbered'
  <2>1. \A q \in Publisher : pub'[q].at = "read" =>
          pub[q].at = "read" /\ pub'[q].event = pub[q].event
    BY <1>7 DEF Publisher
  <2> QED BY <1>2, <1>7, <1>8, <2>1 DEF IInv, Numbered, Counted
<1>12. Latest'
  <2>1. Orderly(ring)'
    BY <1>2, <1>4 DEF IInv, Latest, Orderly, Trails, Raced, Counted
  <2> QED BY <1>2, <1>7, <2>1 DEF IInv, Latest, Counted
<1>13. Placed'
  BY <1>2, <1>6, FanPlaced DEF IInv
<1>14. Answered' /\ Noted' /\ InOrderOnce' /\ NoSilentLoss'
  BY <1>2, <1>4, ClientStays
<1>15. Streaming'
  <2>1. CASE client # "connected"
    BY <1>2, <2>1 DEF Streaming
  <2>2. CASE client = "connected"
    <3>1. socket \in Conn
      BY <2>2 DEF IInv, TypeOK, Placed
    <3>2. PICK x \in Seq(Item) :
           /\ subq'[socket] = subq[socket] \o x
           /\ Len(x) <= Len(items) /\ \A i \in 1..Len(x) : x[i] = items[i]
           /\ \/ handler'[socket] = handler[socket]
              \/ handler[socket] = "asleep" /\ handler'[socket] = "parked"
           /\ Subscribed(socket) /\ Len(subq[socket]) < QueueSize /\ Len(items) > 0
                => Len(x) > 0
           /\ ~ Subscribed(socket) => Len(x) = 0 /\ handler'[socket] = handler[socket]
      BY <1>6, <3>1, FanTaken DEF IInv
    <3>3. Len(x) \in Nat /\ DOMAIN x = 1..Len(x)
      BY LenProperties
    <3>4. PICK s : s = Coming
      OBVIOUS
    <3>5. s \in Seq(Item) /\ DOMAIN s = 1..Len(s) /\ Travels(s)
      BY <2>2, <3>1, <3>4, ComingParts DEF IInv, Streaming
    <3>6. \A i \in 1..Len(x) : i = 1 /\ x[1] = e /\ Subscribed(socket)
      BY <1>6, <3>2, <3>3
    <3>7. Subscribed(socket) => ~ Offers(s, e)
      <4> SUFFICES ASSUME Subscribed(socket), Offers(Coming, e) PROVE FALSE
        BY <3>4
      <4>1. handler[socket] # "idle" /\ backlog[socket] = <<>>
        BY <3>1 DEF IInv, Placed, Subscribed
      <4>2. ~ Offers(wire[socket], e)
        BY <1>3, <2>2, <4>1 DEF IInv, Streaming, Offers
      <4>3. ~ Offers(backlog[socket], e)
        <5>1. DOMAIN backlog[socket] = {}
          BY <4>1
        <5> QED BY <5>1 DEF Offers
      <4>4. ~ Offers(subq[socket], e)
        BY <1>1, <1>2, <2>2 DEF IInv, Streaming, Offers
      <4> QED BY <3>1, <4>2, <4>3, <4>4, ComingFrom DEF IInv
    <3>8. Subscribed(socket) => \A j \in 1..Len(s) : s[j] = Close \/ Trails(s[j], e)'
      <4> SUFFICES ASSUME Subscribed(socket), NEW j \in 1..Len(s), s[j] # Close,
                          NEW y, y = s[j]
                   PROVE  Trails(y, e)'
        BY DEF Trails, Raced, Counted
      <4>1. y \in published \ {e}
        BY <3>5, <3>7 DEF Travels, Offers
      <4>2. Trails(y, e)
        BY <1>1, <1>2, <1>3, <4>1 DEF IInv, Latest
      <4> QED BY <1>4, <4>2 DEF Trails, Raced, Counted
    <3>9. \A i \in 1..Len(x) :
           \/ x[i] = Close
           \/ /\ i = 1 /\ x[1] \in published'
              /\ ~ Counted(x[1]) \/ x[1].seq > lastSeq
              /\ \A j \in 1..Len(s) : s[j] = Close \/ Trails(s[j], x[1])'
      BY <1>2, <1>3, <3>6, <3>8
    <3>10. \A f \in published' : Owed(f)' =>
             \/ Offers(s, f) \/ Offers(x, f)
             \/ Below(s, f) /\ Below(x, f) /\ Outside(f)'
      <4> SUFFICES ASSUME NEW f \in published, Owed(f)'
                   PROVE  \/ Offers(s, f) \/ Offers(x, f)
                          \/ Below(s, f) /\ Below(x, f) /\ Outside(f)'
        BY <1>2
      <4>1. Owed(f) /\ <<f, "window">> \notin missed' /\ <<f, "overflow">> \notin missed'
        BY <1>2, <1>4 DEF Owed, Seen, Lost
      <4>2. Offers(s, f) \/ (Below(s, f) /\ Outside(f))
        BY <2>2, <3>4, <4>1 DEF IInv, Streaming
      <4>3. CASE handler[socket] \in {"idle", "accepted"}
        <5>1. Len(x) = 0 /\ Outside(f)'
          BY <1>2, <3>2, <4>3 DEF Outside, Subscribed
        <5>2. Below(x, f)
          BY <3>3, <5>1 DEF Below
        <5> QED BY <4>2, <5>1, <5>2
      <4>4. CASE handler[socket] \notin {"idle", "accepted"} /\ f # e
        BY <1>1, <4>2, <4>4 DEF Outside
      <4>5. CASE handler[socket] \notin {"idle", "accepted"} /\ f = e
        <5>1. Subscribed(socket)
          <6>1. handler[socket] # "replaying"
            BY <1>2, <3>1, <4>1, <4>5 DEF Misses
          <6> QED BY <3>1, <4>5, <6>1 DEF IInv, TypeOK, HandlerState, Subscribed
        <5>2. Len(subq[socket]) < QueueSize
          <6>1. ~ (Len(subq[socket]) >= QueueSize)
            BY <1>2, <3>1, <4>1, <4>5, <5>1 DEF Misses
          <6>2. Len(subq[socket]) \in Nat /\ QueueSize \in Nat
            BY <3>1, LenProperties, ProgressStreamAssumption DEF IInv, TypeOK
          <6> QED BY <6>1, <6>2
        <5>3. 1 \in 1..Len(x)
          BY <1>6, <3>2, <3>3, <5>1, <5>2
        <5> QED BY <3>3, <3>6, <4>5, <5>3 DEF Offers
      <4> QED BY <4>3, <4>4, <4>5
    <3>11. pub'["request"].at # "retained"
      BY <1>7
    <3> QED BY <1>2, <1>4, <2>2, <3>2, <3>4, <3>9, <3>10, <3>11, StreamGrows
  <2> QED BY <2>1, <2>2
<1> QED BY <1>9, <1>10, <1>11, <1>12, <1>13, <1>14, <1>15 DEF IInv

(* The close sentinel, of a close_task or of aclose.                       *)
LEMMA CloseKeeps ==
  ASSUME IInv, CloseTask \/ CloseAll
  PROVE  IInv'
<1>1. /\ Fanout(<<Close>>) /\ closed' \in BOOLEAN
      /\ UNCHANGED <<ring, nextSeq, published, since, backlog, wire,
                     clientVars, missed, ended, drops>>
  BY DEF CloseTask, CloseAll, IInv, TypeOK
<1>2. /\ backend' \in {"up", "stopped", "restarted"}
      /\ backend' = "restarted" <=> backend = "restarted"
  BY DEF CloseTask, CloseAll, IInv, TypeOK
<1> USE DEF clientVars
<1>3. PICK items : items = <<Close>>
  OBVIOUS
<1>4. items \in Seq(Item) /\ Len(items) = 1 /\ items[1] = Close /\ Fanout(items)
  BY <1>1, <1>3, Events
<1>5. /\ \/ pub' = pub
         \/ /\ pub["request"].at = "closing" /\ pub'["request"] = Idle
            /\ pub'["loop"] = pub["loop"]
      /\ pub' \in [Publisher -> [at : PublisherState, event : Item]]
  <2>1. CASE CloseTask
    <3>1. /\ pub["request"].at = "closing" /\ pub' = [pub EXCEPT !["request"] = Idle]
          /\ pub \in [Publisher -> [at : PublisherState, event : Item]]
          /\ Idle \in [at : PublisherState, event : Item]
          /\ "request" \in Publisher /\ "loop" \in Publisher
      BY <2>1, Events DEF CloseTask, IInv, TypeOK, Publisher, PublisherState, Idle
    <3> QED BY <3>1
  <2>2. CASE CloseAll
    BY <2>2 DEF CloseAll, IInv, TypeOK
  <2> QED BY <2>1, <2>2
<1>6. /\ \A q \in Publisher : pub'[q].at = "read" <=> pub[q].at = "read"
      /\ \A q \in Publisher : pub'[q].at = "read" => pub'[q].event = pub[q].event
      /\ pub'["loop"] = pub["loop"]
      /\ pub'["request"].at = "retained" <=> pub["request"].at = "retained"
      /\ pub'["request"].at = "retained" => pub'["request"] = pub["request"]
      /\ pub'["request"] = pub["request"] \/ pub'["request"] = Idle
      /\ Idle.at = "idle"
  BY <1>5 DEF Idle, Publisher
<1>7. TypeOK'
  <2>1. /\ subq' \in [Conn -> Seq(Item)] /\ \A c \in Conn : Len(subq'[c]) <= QueueSize
        /\ handler' \in [Conn -> HandlerState]
    BY <1>4, FannedOut DEF IInv
  <2> QED BY <1>1, <1>2, <1>5, <2>1 DEF IInv, TypeOK
<1>8. Publishing'
  BY <1>1, <1>2, <1>6 DEF IInv, Publishing, Counted
<1>9. Numbered'
  <2>1. Reading' = Reading
    BY <1>6 DEF Reading
  <2> QED BY <1>1, <1>2, <1>6, <2>1 DEF IInv, Numbered, Counted
<1>10. Latest'
  <2>1. Orderly(ring)'
    BY <1>1 DEF IInv, Latest, Orderly, Trails, Raced, Counted
  <2>2. ASSUME pub'["request"].at = "retained", NEW f, f = pub'["request"].event,
               backend # "restarted"
        PROVE  \A x \in published \ {f} : Trails(x, f)'
    BY <1>1, <1>6, <2>2 DEF IInv, Latest, Trails, Raced, Counted
  <2>3. \A x, f : Trails(x, f)' = Trails(x, f)
    BY <1>1 DEF Trails, Raced, Counted
  <2> QED BY <1>1, <1>2, <1>6, <2>1, <2>2, <2>3 DEF IInv, Latest, Counted, Trails, Raced
<1>11. Placed'
  BY <1>1, <1>4, FanPlaced DEF IInv
<1>12. Answered' /\ Noted' /\ InOrderOnce' /\ NoSilentLoss'
  BY <1>1, ClientStays
<1>13. Streaming'
  <2>1. CASE client # "connected"
    BY <1>1, <2>1 DEF Streaming
  <2>2. CASE client = "connected"
    <3>1. socket \in Conn
      BY <2>2 DEF IInv, TypeOK, Placed
    <3>2. PICK x \in Seq(Item) :
           /\ subq'[socket] = subq[socket] \o x
           /\ Len(x) <= Len(items) /\ \A i \in 1..Len(x) : x[i] = items[i]
           /\ \/ handler'[socket] = handler[socket]
              \/ handler[socket] = "asleep" /\ handler'[socket] = "parked"
           /\ \A i \in DOMAIN subq'[socket] :
                \/ \E j \in DOMAIN subq[socket] : subq'[socket][i] = subq[socket][j]
                \/ \E j \in 1..Len(x) : subq'[socket][i] = x[j]
      BY <1>4, <3>1, FanTaken DEF IInv
    <3>3. /\ Len(x) \in Nat /\ DOMAIN x = 1..Len(x)
          /\ \A i \in 1..Len(x) : x[i] = Close
      BY <1>4, <3>2, LenProperties
    <3>4. PICK s : s = Coming
      OBVIOUS
    <3>5. \A f \in published' : Owed(f)' =>
            Offers(s, f) \/ (Below(s, f) /\ Below(x, f) /\ Outside(f)')
      <4> SUFFICES ASSUME NEW f \in published, Owed(f)'
                   PROVE  Offers(s, f) \/ (Below(s, f) /\ Below(x, f) /\ Outside(f)')
        BY <1>1
      <4>1. Owed(f)
        BY <1>1 DEF Owed, Seen, Lost
      <4>2. Offers(s, f) \/ (Below(s, f) /\ Outside(f))
        BY <2>2, <3>4, <4>1 DEF IInv, Streaming
      <4>3. Below(x, f)
        BY <3>3 DEF Below
      <4>4. Outside(f) => Outside(f)'
        BY <1>1, <1>6, <3>2 DEF Outside
      <4> QED BY <4>2, <4>3, <4>4
    <3>6. pub'["request"].at = "retained" =>
            \A i \in DOMAIN subq'[socket] : subq'[socket][i] # pub'["request"].event
      <4> SUFFICES ASSUME pub["request"].at = "retained", NEW i \in DOMAIN subq'[socket]
                   PROVE  subq'[socket][i] # pub["request"].event
        BY <1>6
      <4>1. pub["request"].event \in Event
        BY DEF IInv, Publishing, Idle
      <4>2. \A j \in DOMAIN subq[socket] : subq[socket][j] # pub["request"].event
        BY <2>2 DEF IInv, Streaming
      <4> QED BY <3>2, <3>3, <4>1, <4>2, Events
    <3> QED BY <1>1, <2>2, <3>2, <3>3, <3>4, <3>5, <3>6, StreamGrows
  <2> QED BY <2>1, <2>2
<1> QED BY <1>7, <1>8, <1>9, <1>10, <1>11, <1>12, <1>13 DEF IInv
-----------------------------------------------------------------------------
(* Handlers.                                                               *)
LEMMA PutEffect ==
  ASSUME TypeOK, NEW c \in Conn, NEW items \in Seq(Item), Put(c, items)
  PROVE  /\ wire' \in [Conn -> Seq(Item)]
         /\ c = socket => wire'[c] = wire[c] \o items
         /\ \A d \in Conn : d # c => wire'[d] = wire[d]
<1>1. wire \in [Conn -> Seq(Item)] /\ wire[c] \in Seq(Item)
  BY DEF TypeOK
<1>2. wire[c] \o items \in Seq(Item) /\ <<>> \in Seq(Item)
  BY <1>1, ConcatProperties, EmptySeq
<1> QED BY <1>1, <1>2 DEF Put

LEMMA HandlerTyped ==
  ASSUME TypeOK, NEW c \in Conn, NEW h \in HandlerState, NEW b \in Seq(Event),
         NEW q \in Seq(Item), Len(q) <= QueueSize, HandlerVars(c, h, b, q),
         wire' \in [Conn -> Seq(Item)],
         missed' \subseteq (Event \X {"ring", "window", "overflow", "race"}),
         UNCHANGED <<busVars, clientVars, ended, backend, drops>>
  PROVE  TypeOK'
<1>1. /\ handler' \in [Conn -> HandlerState] /\ since' \in [Conn -> 0..MaxSeq]
      /\ backlog' \in [Conn -> Seq(Event)] /\ subq' \in [Conn -> Seq(Item)]
  <2>1. /\ handler \in [Conn -> HandlerState] /\ since \in [Conn -> 0..MaxSeq]
        /\ backlog \in [Conn -> Seq(Event)] /\ subq \in [Conn -> Seq(Item)]
    BY DEF TypeOK
  <2>2. 0 \in 0..MaxSeq
    BY Events
  <2>3. handler' \in [Conn -> HandlerState]
    BY <2>1 DEF HandlerVars
  <2>4. since' \in [Conn -> 0..MaxSeq]
    BY <2>1, <2>2 DEF HandlerVars
  <2>5. backlog' \in [Conn -> Seq(Event)]
    BY <2>1 DEF HandlerVars
  <2>6. subq' \in [Conn -> Seq(Item)]
    BY <2>1 DEF HandlerVars
  <2> QED BY <2>3, <2>4, <2>5, <2>6
<1>2. \A d \in Conn : Len(subq'[d]) <= QueueSize
  BY DEF TypeOK, HandlerVars
<1> QED BY <1>1, <1>2 DEF TypeOK, busVars, clientVars

LEMMA HandlerPlaced ==
  ASSUME TypeOK, Placed, NEW c \in Conn, NEW h, NEW b, NEW q, HandlerVars(c, h, b, q),
         h # "accepted", h = "idle" => b = <<>> /\ q = <<>>,
         h = "replaying" => q = <<>>,
         h \in {"live", "looked", "parked", "asleep"} => b = <<>>,
         \A d \in Conn : d # c => wire'[d] = wire[d],
         UNCHANGED clientVars
  PROVE  Placed'
<1> USE DEF clientVars
<1>1. \A d \in Conn : d # c =>
        /\ handler'[d] = handler[d] /\ backlog'[d] = backlog[d]
        /\ subq'[d] = subq[d] /\ since'[d] = since[d]
  BY DEF HandlerVars, TypeOK
<1>2. handler'[c] = h /\ backlog'[c] = b /\ subq'[c] = q
  BY DEF HandlerVars, TypeOK
<1>3. ASSUME NEW d \in Conn
      PROVE  /\ handler'[d] \in {"idle", "accepted"} => backlog'[d] = <<>> /\ subq'[d] = <<>>
             /\ handler'[d] = "replaying" => subq'[d] = <<>>
             /\ Subscribed(d)' => backlog'[d] = <<>>
  <2>1. CASE d = c
    BY <1>2, <2>1 DEF Subscribed
  <2>2. CASE d # c
    BY <1>1, <2>2 DEF Placed, Subscribed
  <2> QED BY <2>1, <2>2
<1>4. client = "connected" /\ handler'[socket] = "accepted" =>
        wire'[socket] = <<>> /\ since'[socket] = lastSeq
  <2>1. client = "connected" => socket \in Conn
    BY DEF TypeOK, Placed
  <2> QED BY <1>1, <1>2, <2>1 DEF Placed
<1> QED BY <1>3, <1>4 DEF Placed

(* What a step of handler c cannot disturb.                                *)
LEMMA HandlerKeeps ==
  ASSUME IInv, NEW c \in Conn, missed \subseteq missed',
         UNCHANGED <<busVars, clientVars, ended, backend, drops>>,
         TypeOK', Placed', Streaming'
  PROVE  IInv'
<1>1. Publishing' /\ Numbered' /\ Latest'
  BY BusStays DEF IInv
<1>2. Answered' /\ Noted' /\ InOrderOnce' /\ NoSilentLoss'
  BY ClientStays DEF busVars
<1> QED BY <1>1, <1>2 DEF IInv

(* The stream to the client, when a handler moves: it stays as it is, or   *)
(* what was sent is the last of it.                                        *)
LEMMA StreamStays ==
  ASSUME IInv, client = "connected" => Coming' = Coming,
         client = "connected" =>
           /\ handler'[socket] \in {"idle", "accepted"} <=>
                handler[socket] \in {"idle", "accepted"}
           /\ handler'[socket] # "idle" =>
                \A i \in DOMAIN wire'[socket] : ~ wire'[socket][i].end
           /\ \A i \in DOMAIN subq'[socket] :
                \E j \in DOMAIN subq[socket] : subq'[socket][i] = subq[socket][j],
         missed \subseteq missed', UNCHANGED <<busVars, clientVars>>
  PROVE  Streaming'
<1> USE DEF busVars, clientVars
<1> SUFFICES ASSUME client = "connected" PROVE Streaming'
  BY DEF Streaming
<1>1. PICK s : s = Coming
  OBVIOUS
<1>2. Travels(s)'
  <2>1. Travels(s)
    BY <1>1 DEF IInv, Streaming
  <2> QED BY <2>1, TravelsOn
<1>3. Travels(Coming)'
  BY <1>1, <1>2 DEF Travels, Orderly, Ahead, Trails, Raced, Counted
<1>4. \A e \in published : Owed(e)' => Owed(e)
  BY DEF Owed, Seen, Lost
<1>5. \A e : Outside(e) => Outside(e)'
  BY DEF Outside
<1>6. \A e \in published : Owed(e) => Offers(s, e) \/ (Below(s, e) /\ Outside(e))
  BY <1>1 DEF IInv, Streaming
<1>7. \A e \in published' :
        Owed(e)' => Offers(Coming, e)' \/ (Below(Coming, e)' /\ Outside(e)')
  BY <1>1, <1>4, <1>5, <1>6 DEF Offers, Below
<1>8. pub'["request"].at = "retained" =>
         \A i \in DOMAIN subq'[socket] : subq'[socket][i] # pub'["request"].event
  BY DEF IInv, Streaming
<1> QED BY <1>3, <1>7, <1>8 DEF Streaming

LEMMA StreamEnds ==
  ASSUME IInv, client = "connected",
         NEW w \in Seq(Item), w = wire[socket], NEW r \in Seq(Item), Coming = w \o r,
         NEW z \in Seq(Item), z = <<Close>> \/ (r # <<>> /\ z = <<Head(r), Close>>),
         wire'[socket] = w \o z, backlog'[socket] = <<>>, subq'[socket] = <<>>,
         handler'[socket] = "idle", missed' = missed, UNCHANGED <<busVars, clientVars>>
  PROVE  Streaming'
<1> USE DEF busVars, clientVars
<1>1. PICK s : s = w \o r
  OBVIOUS
<1>2. PICK t : t = w \o z
  OBVIOUS
<1>3. /\ s \in Seq(Item) /\ Len(s) = Len(w) + Len(r)
      /\ \A i \in 1..Len(w) + Len(r) : s[i] = IF i <= Len(w) THEN w[i] ELSE r[i - Len(w)]
  BY <1>1, ConcatProperties
<1>4. /\ t \in Seq(Item) /\ Len(t) = Len(w) + Len(z)
      /\ \A i \in 1..Len(w) + Len(z) : t[i] = IF i <= Len(w) THEN w[i] ELSE z[i - Len(w)]
  BY <1>2, ConcatProperties
<1>5. Coming' = t
  <2>1. Coming' = (t \o <<>>) \o <<>>
    BY <1>2 DEF Coming
  <2>2. t \o <<>> = t
    BY <1>4, ConcatEmptySeq
  <2> QED BY <2>1, <2>2
<1>6. Len(w) \in Nat /\ Len(r) \in Nat /\ Len(z) \in Nat
  BY LenProperties
<1>7. Travels(s)
  BY <1>1 DEF IInv, Streaming
<1>8. PICK k \in Nat :
        /\ k <= Len(s) /\ k <= Len(t) /\ \A i \in 1..k : t[i] = s[i]
        /\ \A i \in 1..Len(t) : i > k => t[i] = Close
  <2>1. CASE z = <<Close>>
    <3>1. Len(z) = 1 /\ z[1] = Close
      BY <2>1
    <3>2. /\ Len(w) <= Len(s) /\ Len(w) <= Len(t)
          /\ \A i \in 1..Len(w) : t[i] = s[i]
      <4>1. Len(w) <= Len(s) /\ Len(w) <= Len(t)
        BY <1>3, <1>4, <1>6
      <4>2. ASSUME NEW i \in 1..Len(w) PROVE t[i] = s[i]
        <5>1. i \in 1..Len(w) + Len(r) /\ i \in 1..Len(w) + Len(z) /\ i <= Len(w)
          BY <1>6
        <5>2. s[i] = w[i]
          BY <1>3, <5>1
        <5>3. t[i] = w[i]
          BY <1>4, <5>1
        <5> QED BY <5>2, <5>3
      <4> QED BY <4>1, <4>2
    <3>3. \A i \in 1..Len(t) : i > Len(w) => t[i] = Close
      <4> SUFFICES ASSUME NEW i \in 1..Len(t), i > Len(w) PROVE t[i] = Close
        OBVIOUS
      <4>1. i - Len(w) = 1 /\ ~ (i <= Len(w)) /\ i \in 1..Len(w) + Len(z)
        BY <1>4, <1>6, <3>1
      <4> QED BY <1>4, <3>1, <4>1
    <3> QED BY <1>6, <3>2, <3>3
  <2>2. CASE r # <<>> /\ z = <<Head(r), Close>>
    <3>1. Len(z) = 2 /\ z[1] = Head(r) /\ z[2] = Close
      BY <2>2
    <3>2. Len(r) >= 1 /\ r[1] = Head(r)
      <4>1. Len(r) # 0
        BY <2>2, EmptySeq
      <4> QED BY <1>6, <2>2, <4>1
    <3>3. Len(w) + 1 <= Len(s) /\ Len(w) + 1 <= Len(t) /\ Len(w) + 1 \in Nat
      BY <1>3, <1>4, <1>6, <3>1, <3>2
    <3>4. \A i \in 1..(Len(w) + 1) : t[i] = s[i]
      <4> TAKE i \in 1..(Len(w) + 1)
      <4>1. i \in 1..Len(w) + Len(r) /\ i \in 1..Len(w) + Len(z)
        BY <1>6, <3>1, <3>2
      <4>2. CASE i <= Len(w)
        BY <1>3, <1>4, <4>1, <4>2
      <4>3. CASE ~ (i <= Len(w))
        <5>1. i - Len(w) = 1
          <6>1. i \in Nat /\ i <= Len(w) + 1
            BY <1>6
          <6> QED BY <1>6, <4>3, <6>1
        <5> QED BY <1>3, <1>4, <3>1, <3>2, <4>1, <4>3, <5>1
      <4> QED BY <4>2, <4>3
    <3>5. \A i \in 1..Len(t) : i > Len(w) + 1 => t[i] = Close
      <4> SUFFICES ASSUME NEW i \in 1..Len(t), i > Len(w) + 1 PROVE t[i] = Close
        OBVIOUS
      <4>1. i - Len(w) = 2 /\ ~ (i <= Len(w)) /\ i \in 1..Len(w) + Len(z)
        BY <1>4, <1>6, <3>1
      <4> QED BY <1>4, <3>1, <4>1
    <3> QED BY <3>3, <3>4, <3>5
  <2> QED BY <2>1, <2>2
<1>9. /\ Travels(t)
      /\ \A e \in published :
           /\ Below(s, e) => Below(t, e)
           /\ Owed(e) /\ Offers(s, e) => Offers(t, e) \/ Below(t, e)
  BY <1>3, <1>4, <1>7, <1>8, Cut DEF IInv
<1>10. Travels(Coming)'
  BY <1>5, <1>9 DEF Travels, Orderly, Ahead, Trails, Raced, Counted
<1>11. \A e \in published : Owed(e)' => Offers(t, e) \/ Below(t, e)
  <2> SUFFICES ASSUME NEW e \in published, Owed(e)' PROVE Offers(t, e) \/ Below(t, e)
    OBVIOUS
  <2>1. Owed(e)
    BY DEF Owed, Seen, Lost
  <2>2. Offers(s, e) \/ Below(s, e)
    BY <1>1, <2>1 DEF IInv, Streaming
  <2> QED BY <1>9, <2>1, <2>2
<1>12. \A e \in published' :
        Owed(e)' => Offers(Coming, e)' \/ (Below(Coming, e)' /\ Outside(e)')
  BY <1>5, <1>11 DEF Offers, Below, Outside
<1> QED BY <1>10, <1>12 DEF Streaming
LEMMA HeadTail ==
  ASSUME NEW S, NEW s \in Seq(S), s # <<>>
  PROVE  /\ Head(s) \in S /\ Head(s) = s[1] /\ Tail(s) \in Seq(S)
         /\ Len(s) \in Nat /\ Len(s) >= 1 /\ Len(Tail(s)) = Len(s) - 1
         /\ \A i \in 1..(Len(s) - 1) : Tail(s)[i] = s[i + 1]
<1>1. Len(s) \in Nat /\ Len(s) # 0
  BY EmptySeq, LenProperties
<1>2. Len(s) >= 1 /\ Head(s) = s[1]
  BY <1>1
<1>3. s[1] \in S
  BY <1>1, <1>2, ElementOfSeq
<1> QED BY <1>1, <1>2, <1>3, HeadTailProperties

LEMMA MovesOver ==
  ASSUME NEW a \in Seq(Item), NEW b \in Seq(Item), b # <<>>
  PROVE  (a \o <<Head(b)>>) \o Tail(b) = a \o b
<1>1. /\ Head(b) \in Item /\ Head(b) = b[1] /\ Tail(b) \in Seq(Item)
      /\ Len(b) \in Nat /\ Len(b) >= 1 /\ Len(Tail(b)) = Len(b) - 1
      /\ \A i \in 1..(Len(b) - 1) : Tail(b)[i] = b[i + 1]
  BY HeadTail
<1>2. PICK h : h = <<Head(b)>>
  OBVIOUS
<1>3. PICK t : t = Tail(b)
  OBVIOUS
<1>4. h \in Seq(Item) /\ Len(h) = 1 /\ h[1] = b[1] /\ t \in Seq(Item)
  BY <1>1, <1>2, <1>3
<1>5. /\ h \o t \in Seq(Item) /\ Len(h \o t) = 1 + Len(t)
      /\ \A i \in 1..1 + Len(t) : (h \o t)[i] = IF i <= 1 THEN h[i] ELSE t[i - 1]
  <2>1. /\ h \o t \in Seq(Item) /\ Len(h \o t) = Len(h) + Len(t)
        /\ \A i \in 1..Len(h) + Len(t) :
             (h \o t)[i] = IF i <= Len(h) THEN h[i] ELSE t[i - Len(h)]
    BY <1>4, ConcatProperties
  <2> QED BY <1>4, <2>1
<1>6. ASSUME NEW i \in 1..Len(b) PROVE (h \o t)[i] = b[i]
  <2>1. i \in 1..1 + Len(t)
    BY <1>1, <1>3
  <2>2. CASE i <= 1
    <3>1. i = 1
      BY <2>2
    <3> QED BY <1>4, <1>5, <2>1, <3>1
  <2>3. CASE ~ (i <= 1)
    <3>1. i - 1 \in 1..(Len(b) - 1) /\ (i - 1) + 1 = i
      BY <1>1, <2>3
    <3>2. t[i - 1] = b[i]
      BY <1>1, <1>3, <3>1
    <3> QED BY <1>5, <2>1, <2>3, <3>2
  <2> QED BY <2>2, <2>3
<1>7. Len(h \o t) = Len(b)
  BY <1>1, <1>3, <1>5
<1>8. h \o t = b
  BY <1>5, <1>6, <1>7, SeqEqual
<1>9. (a \o h) \o t = a \o (h \o t)
  BY <1>4, Regroup
<1> QED BY <1>2, <1>3, <1>8, <1>9

LEMMA StreamMoves ==
  ASSUME IInv, client = "connected",
         NEW w \in Seq(Item), w = wire[socket],
         NEW r \in Seq(Item), r # <<>>, ~ Head(r).end, Coming = w \o r,
         wire'[socket] = w \o <<Head(r)>>, Coming' = wire'[socket] \o Tail(r),
         handler[socket] \notin {"idle", "accepted"},
         handler'[socket] \notin {"idle", "accepted"},
         \A i \in DOMAIN subq'[socket] :
           \E j \in DOMAIN subq[socket] : subq'[socket][i] = subq[socket][j],
         missed' = missed, UNCHANGED <<busVars, clientVars>>
  PROVE  Streaming'
<1>1. Coming' = Coming
  <2>1. (w \o <<Head(r)>>) \o Tail(r) = w \o r
    BY MovesOver
  <2> QED BY <2>1
<1>2. \A i \in DOMAIN wire'[socket] : ~ wire'[socket][i].end
  <2>1. PICK h : h = <<Head(r)>>
    OBVIOUS
  <2>2. PICK t : t = w \o h
    OBVIOUS
  <2>3. h \in Seq(Item) /\ Len(h) = 1 /\ h[1] = Head(r)
    BY <2>1, HeadTail
  <2>4. /\ t \in Seq(Item) /\ Len(t) = Len(w) + 1 /\ Len(w) \in Nat
        /\ \A i \in 1..Len(w) + 1 : t[i] = IF i <= Len(w) THEN w[i] ELSE h[i - Len(w)]
    <3>1. /\ t \in Seq(Item) /\ Len(t) = Len(w) + Len(h)
          /\ \A i \in 1..Len(w) + Len(h) :
               t[i] = IF i <= Len(w) THEN w[i] ELSE h[i - Len(w)]
      <4>1. w \in Seq(Item) /\ h \in Seq(Item)
        BY <2>3
      <4>2. /\ w \o h \in Seq(Item) /\ Len(w \o h) = Len(w) + Len(h)
            /\ \A i \in 1..Len(w) + Len(h) :
                 (w \o h)[i] = IF i <= Len(w) THEN w[i] ELSE h[i - Len(w)]
        BY <4>1, ConcatProperties
      <4> QED BY <2>2, <4>2
    <3> QED BY <2>3, <3>1, LenProperties
  <2>5. \A i \in 1..Len(w) : ~ w[i].end
    BY LenProperties DEF IInv, Streaming
  <2>6. ASSUME NEW i \in 1..Len(w) + 1 PROVE ~ t[i].end
    <3>1. CASE i <= Len(w)
      <4>1. i \in 1..Len(w) /\ t[i] = w[i]
        BY <2>4, <3>1
      <4> QED BY <2>5, <4>1
    <3>2. CASE ~ (i <= Len(w))
      <4>1. i - Len(w) = 1
        BY <2>4, <3>2
      <4>2. t[i] = h[1]
        BY <2>4, <3>2, <4>1
      <4> QED BY <2>3, <4>2
    <3> QED BY <3>1, <3>2
  <2>7. DOMAIN t = 1..Len(w) + 1
    BY <2>4, LenProperties
  <2> QED BY <2>1, <2>2, <2>6, <2>7
<1> QED BY <1>1, <1>2, StreamStays

LEMMA OtherStays ==
  ASSUME IInv, NEW c \in Conn, c # socket, NEW h, NEW b, NEW q, HandlerVars(c, h, b, q),
         \A d \in Conn : d # c => wire'[d] = wire[d],
         missed \subseteq missed', UNCHANGED <<busVars, clientVars>>
  PROVE  Streaming'
<1>1. client = "connected" =>
        /\ handler'[socket] = handler[socket] /\ backlog'[socket] = backlog[socket]
        /\ subq'[socket] = subq[socket] /\ wire'[socket] = wire[socket]
  BY DEF IInv, TypeOK, Placed, HandlerVars
<1>2. client = "connected" => Coming' = Coming
  BY <1>1 DEF Coming, clientVars
<1>3. client = "connected" /\ handler[socket] # "idle" =>
        \A i \in DOMAIN wire[socket] : ~ wire[socket][i].end
  BY DEF IInv, Streaming
<1> QED BY <1>1, <1>2, <1>3, StreamStays
(* What is there of a handler that may move.                               *)
LEMMA HandlerOf ==
  ASSUME IInv, NEW c \in Conn
  PROVE  /\ handler \in [Conn -> HandlerState]
         /\ wire[c] \in Seq(Item) /\ subq[c] \in Seq(Item) /\ Len(subq[c]) <= QueueSize
         /\ backlog[c] \in Seq(Event) /\ backlog[c] \in Seq(Item)
         /\ since[c] \in Nat /\ Len(<<>>) <= QueueSize
         /\ <<>> \in Seq(Item) /\ <<>> \in Seq(Event)
         /\ c = socket => client = "connected"
         /\ missed \subseteq (Event \X {"ring", "window", "overflow", "race"})
<1>1. Event \subseteq Item
  BY DEF Item
<1>2. backlog[c] \in Seq(Item)
  BY <1>1, SeqMonotonic DEF IInv, TypeOK
<1>3. since[c] \in Nat
  BY Events DEF IInv, TypeOK
<1>4. Len(<<>>) <= QueueSize /\ <<>> \in Seq(Item) /\ <<>> \in Seq(Event)
  BY ProgressStreamAssumption
<1>5. c = socket => client = "connected"
  BY Events DEF IInv, Placed
<1> QED BY <1>2, <1>3, <1>4, <1>5 DEF IInv, TypeOK

(* A handler that sends the last it has to, and closes.                    *)
LEMMA EndsKeeps ==
  ASSUME IInv, NEW c \in Conn, HandlerVars(c, "idle", <<>>, <<>>),
         NEW z \in Seq(Item), Put(c, z), NEW r \in Seq(Item),
         c = socket => Coming = wire[socket] \o r,
         z = <<Close>> \/ (r # <<>> /\ z = <<Head(r), Close>>),
         UNCHANGED <<busVars, clientVars, missed, ended, backend, drops>>
  PROVE  IInv'
<1>1. "idle" \in HandlerState
  BY DEF HandlerState
<1>2. /\ wire' \in [Conn -> Seq(Item)] /\ \A d \in Conn : d # c => wire'[d] = wire[d]
      /\ c = socket => wire'[c] = wire[c] \o z
  BY PutEffect DEF IInv
<1>3. TypeOK'
  BY <1>1, <1>2, HandlerOf, HandlerTyped DEF IInv, TypeOK
<1>4. Placed'
  BY <1>2, HandlerPlaced DEF IInv
<1>5. Streaming'
  <2>1. CASE c # socket
    BY <1>2, <2>1, OtherStays
  <2>2. CASE c = socket
    <3>1. handler'[c] = "idle" /\ backlog'[c] = <<>> /\ subq'[c] = <<>>
      BY DEF HandlerVars, IInv, TypeOK
    <3>2. client = "connected" /\ wire[socket] \in Seq(Item)
      BY <2>2, HandlerOf
    <3> QED BY <1>2, <2>2, <3>1, <3>2, StreamEnds
  <2> QED BY <2>1, <2>2
<1> QED BY <1>3, <1>4, <1>5, HandlerKeeps

(* A handler that sends an event of r, what it has, and goes on.           *)
LEMMA SendsKeeps ==
  ASSUME IInv, NEW c \in Conn, c = socket, handler[c] \notin {"idle", "accepted"},
         NEW h \in {"replaying", "live"}, NEW b \in Seq(Event), NEW q \in Seq(Item),
         Len(q) <= QueueSize, HandlerVars(c, h, b, q),
         h = "replaying" => q = <<>>, h = "live" => b = <<>>,
         NEW r \in Seq(Item), r # <<>>, ~ Head(r).end, Put(c, <<Head(r)>>),
         Coming = wire[socket] \o r,
         (wire[socket] \o <<Head(r)>>) \o b \o q = (wire[socket] \o <<Head(r)>>) \o Tail(r),
         \A i \in DOMAIN q : \E j \in DOMAIN subq[c] : q[i] = subq[c][j],
         UNCHANGED <<busVars, clientVars, missed, ended, backend, drops>>
  PROVE  IInv'
<1>1. h \in HandlerState
  BY DEF HandlerState
<1>2. <<Head(r)>> \in Seq(Item)
  BY HeadTail
<1>3. /\ wire' \in [Conn -> Seq(Item)] /\ \A d \in Conn : d # c => wire'[d] = wire[d]
      /\ wire'[c] = wire[c] \o <<Head(r)>>
  BY <1>2, PutEffect DEF IInv
<1>4. TypeOK'
  BY <1>1, <1>3, HandlerOf, HandlerTyped DEF IInv, TypeOK
<1>5. Placed'
  BY <1>3, HandlerPlaced DEF IInv
<1>6. handler'[c] = h /\ backlog'[c] = b /\ subq'[c] = q
  BY DEF HandlerVars, IInv, TypeOK
<1>7. Coming' = wire'[socket] \o Tail(r)
  BY <1>3, <1>6 DEF Coming, clientVars
<1>8. client = "connected" /\ wire[socket] \in Seq(Item)
  BY HandlerOf
<1>9. Streaming'
  BY <1>3, <1>6, <1>7, <1>8, StreamMoves
<1> QED BY <1>4, <1>5, <1>9, HandlerKeeps

(* Each handler keeps the invariant.                                       *)
LEMMA ParkKeeps ==
  ASSUME IInv, NEW c \in Conn, Park(c)
  PROVE  IInv'
<1> DEFINE h == IF subq[c] = <<>> THEN "parked" ELSE "asleep"
<1>1. /\ handler[c] = "looked" /\ HandlerVars(c, h, <<>>, subq[c])
      /\ UNCHANGED <<busVars, wire, clientVars, missed, ended, backend, drops>>
  BY DEF Park
<1>2. h \in {"parked", "asleep"} /\ h \in HandlerState
  BY DEF HandlerState
<1> HIDE DEF h
<1>3. backlog[c] = <<>>
  BY <1>1 DEF IInv, Placed, Subscribed
<1>4. TypeOK'
  BY <1>1, <1>2, HandlerOf, HandlerTyped DEF IInv, TypeOK
<1>5. Placed'
  BY <1>1, <1>2, HandlerPlaced DEF IInv
<1>6. Streaming'
  <2>1. CASE c # socket
    BY <1>1, <2>1, OtherStays
  <2>2. CASE c = socket
    <3>1. handler'[c] = h /\ backlog'[c] = backlog[c] /\ subq'[c] = subq[c]
      BY <1>1, <1>3 DEF HandlerVars, IInv, TypeOK
    <3>2. Coming' = Coming
      BY <1>1, <2>2, <3>1 DEF Coming, clientVars
    <3>3. client = "connected" => \A i \in DOMAIN wire[socket] : ~ wire[socket][i].end
      BY <1>1, <2>2 DEF IInv, Streaming
    <3> QED BY <1>1, <1>2, <2>2, <3>1, <3>2, <3>3, StreamStays DEF clientVars
  <2> QED BY <2>1, <2>2
<1> QED BY <1>1, <1>4, <1>5, <1>6, HandlerKeeps

LEMMA SubscribeKeeps ==
  ASSUME IInv, NEW c \in Conn, Subscribe(c)
  PROVE  IInv'
<1>1. /\ handler[c] = "replaying" /\ backlog[c] = <<>>
      /\ HandlerVars(c, "live", <<>>, <<>>)
      /\ UNCHANGED <<busVars, wire, clientVars, missed, ended, backend, drops>>
  BY DEF Subscribe
<1>2. "live" \in HandlerState
  BY DEF HandlerState
<1>3. subq[c] = <<>>
  BY <1>1 DEF IInv, Placed
<1>4. TypeOK'
  BY <1>1, <1>2, HandlerOf, HandlerTyped DEF IInv, TypeOK
<1>5. Placed'
  BY <1>1, HandlerPlaced DEF IInv
<1>6. Streaming'
  <2>1. CASE c # socket
    BY <1>1, <2>1, OtherStays
  <2>2. CASE c = socket
    <3>1. handler'[c] = "live" /\ backlog'[c] = backlog[c] /\ subq'[c] = subq[c]
      BY <1>1, <1>3 DEF HandlerVars, IInv, TypeOK
    <3>2. Coming' = Coming
      BY <1>1, <2>2, <3>1 DEF Coming, clientVars
    <3>3. client = "connected" => \A i \in DOMAIN wire[socket] : ~ wire[socket][i].end
      BY <1>1, <2>2 DEF IInv, Streaming
    <3> QED BY <1>1, <2>2, <3>1, <3>2, <3>3, StreamStays DEF clientVars
  <2> QED BY <2>1, <2>2
<1> QED BY <1>1, <1>4, <1>5, <1>6, HandlerKeeps

LEMMA LookKeeps ==
  ASSUME IInv, NEW c \in Conn, Look(c)
  PROVE  IInv'
<1>1. /\ handler[c] = "live" /\ subq[c] = <<>>
      /\ UNCHANGED <<busVars, clientVars, missed, ended, backend, drops>>
  BY DEF Look
<1>2. {"idle", "looked"} \subseteq HandlerState
  BY DEF HandlerState
<1>3. backlog[c] = <<>>
  BY <1>1 DEF IInv, Placed, Subscribed
<1>4. CASE ~ closed
  <2>1. HandlerVars(c, "looked", <<>>, <<>>) /\ UNCHANGED wire
    BY <1>4 DEF Look
  <2>2. TypeOK'
    BY <1>1, <1>2, <2>1, HandlerOf, HandlerTyped DEF IInv, TypeOK
  <2>3. Placed'
    BY <1>1, <2>1, HandlerPlaced DEF IInv
  <2>4. Streaming'
    <3>1. CASE c # socket
      BY <1>1, <2>1, <3>1, OtherStays
    <3>2. CASE c = socket
      <4>1. handler'[c] = "looked" /\ backlog'[c] = backlog[c] /\ subq'[c] = subq[c]
        BY <1>1, <1>3, <2>1 DEF HandlerVars, IInv, TypeOK
      <4>2. Coming' = Coming
        BY <1>1, <2>1, <3>2, <4>1 DEF Coming, clientVars
      <4>3. client = "connected" => \A i \in DOMAIN wire[socket] : ~ wire[socket][i].end
        BY <1>1, <3>2 DEF IInv, Streaming
      <4> QED BY <1>1, <2>1, <3>2, <4>1, <4>2, <4>3, StreamStays DEF clientVars
    <3> QED BY <3>1, <3>2
  <2> QED BY <1>1, <2>2, <2>3, <2>4, HandlerKeeps
<1>5. CASE closed
  <2>1. HandlerVars(c, "idle", <<>>, <<>>) /\ Put(c, <<Close>>)
    BY <1>5 DEF Look
  <2>2. c = socket => Coming = wire[socket] \o <<>>
    BY <1>1, <1>3, HandlerOf, ConcatEmptySeq DEF Coming
  <2>3. <<Close>> \in Seq(Item) /\ <<>> \in Seq(Item)
    BY Events
  <2> QED BY <1>1, <2>1, <2>2, <2>3, EndsKeeps
<1> QED BY <1>4, <1>5
LEMMA ReplayBreaksKeeps ==
  ASSUME IInv, NEW c \in Conn, ReplayBreaks(c)
  PROVE  IInv'
<1>1. /\ handler[c] = "accepted" /\ HandlerVars(c, "idle", <<>>, <<>>)
      /\ Put(c, <<Close>>)
      /\ UNCHANGED <<busVars, clientVars, missed, ended, backend, drops>>
  BY DEF ReplayBreaks
<1>2. backlog[c] = <<>> /\ subq[c] = <<>>
  BY <1>1 DEF IInv, Placed
<1>3. c = socket => Coming = wire[socket] \o <<>>
  BY <1>2, HandlerOf, ConcatEmptySeq DEF Coming
<1>4. <<Close>> \in Seq(Item) /\ <<>> \in Seq(Item)
  BY Events
<1> QED BY <1>1, <1>3, <1>4, EndsKeeps

LEMMA SendBacklogKeeps ==
  ASSUME IInv, NEW c \in Conn, SendBacklog(c)
  PROVE  IInv'
<1>1. PICK e : e = Head(backlog[c])
  OBVIOUS
<1>2. PICK r : r = backlog[c]
  OBVIOUS
<1>3. /\ handler[c] = "replaying" /\ r # <<>>
      /\ IF e.end \/ c # socket
         THEN HandlerVars(c, "idle", <<>>, <<>>) /\ Put(c, <<e, Close>>)
         ELSE HandlerVars(c, "replaying", Tail(r), <<>>) /\ Put(c, <<e>>)
      /\ UNCHANGED <<busVars, clientVars, missed, ended, backend, drops>>
  BY <1>1, <1>2 DEF SendBacklog
<1>4. r \in Seq(Event) /\ r \in Seq(Item) /\ subq[c] = <<>>
  BY <1>2, <1>3, HandlerOf DEF IInv, Placed
<1>5. e = Head(r) /\ e \in Item /\ Tail(r) \in Seq(Event) /\ Tail(r) \in Seq(Item)
  BY <1>1, <1>2, <1>3, <1>4, HeadTail
<1>6. c = socket => Coming = wire[socket] \o r
  <2>1. c = socket => wire[socket] \o r \in Seq(Item)
    BY <1>4, HandlerOf, ConcatProperties
  <2> QED BY <1>2, <1>4, <2>1, ConcatEmptySeq DEF Coming
<1>7. CASE e.end \/ c # socket
  <2>1. HandlerVars(c, "idle", <<>>, <<>>) /\ Put(c, <<e, Close>>)
    BY <1>3, <1>7
  <2>2. <<e, Close>> \in Seq(Item)
    BY <1>5, Events
  <2> QED BY <1>3, <1>4, <1>5, <1>6, <2>1, <2>2, EndsKeeps
<1>8. CASE ~ (e.end \/ c # socket)
  <2>1. HandlerVars(c, "replaying", Tail(r), <<>>) /\ Put(c, <<Head(r)>>) /\ c = socket
    BY <1>3, <1>5, <1>8
  <2>2. ((wire[socket] \o <<Head(r)>>) \o Tail(r)) \o <<>>
          = (wire[socket] \o <<Head(r)>>) \o Tail(r)
    <3>1. <<Head(r)>> \in Seq(Item) /\ wire[socket] \in Seq(Item)
      BY <1>5, <2>1, HandlerOf
    <3>2. (wire[socket] \o <<Head(r)>>) \o Tail(r) \in Seq(Item)
      BY <1>5, <3>1, ConcatProperties
    <3> QED BY <3>2, ConcatEmptySeq
  <2>3. \A i \in DOMAIN <<>> : FALSE
    BY LenProperties
  <2> QED BY <1>3, <1>4, <1>5, <1>6, <1>8, <2>1, <2>2, <2>3, HandlerOf, SendsKeeps
<1> QED BY <1>7, <1>8

LEMMA DeliverKeeps ==
  ASSUME IInv, NEW c \in Conn, Deliver(c)
  PROVE  IInv'
<1>1. PICK e : e = Head(subq[c])
  OBVIOUS
<1>2. PICK r : r = subq[c]
  OBVIOUS
<1>3. /\ handler[c] \in {"live", "parked"} /\ r # <<>>
      /\ IF e = Close
         THEN HandlerVars(c, "idle", <<>>, <<>>) /\ Put(c, <<Close>>)
         ELSE IF e.end \/ c # socket
         THEN HandlerVars(c, "idle", <<>>, <<>>) /\ Put(c, <<e, Close>>)
         ELSE HandlerVars(c, "live", <<>>, Tail(r)) /\ Put(c, <<e>>)
      /\ UNCHANGED <<busVars, clientVars, missed, ended, backend, drops>>
  BY <1>1, <1>2 DEF Deliver
<1>4. r \in Seq(Item) /\ Len(r) <= QueueSize /\ backlog[c] = <<>>
  BY <1>2, <1>3, HandlerOf DEF IInv, Placed, Subscribed
<1>5. /\ e = Head(r) /\ e \in Item /\ Tail(r) \in Seq(Item)
      /\ Len(Tail(r)) <= QueueSize
      /\ \A i \in DOMAIN Tail(r) : \E j \in DOMAIN r : Tail(r)[i] = r[j]
  <2>1. /\ Head(r) \in Item /\ Tail(r) \in Seq(Item)
        /\ Len(r) \in Nat /\ Len(r) >= 1 /\ Len(Tail(r)) = Len(r) - 1
        /\ \A i \in 1..(Len(r) - 1) : Tail(r)[i] = r[i + 1]
    BY <1>3, <1>4, HeadTail
  <2>2. Len(Tail(r)) <= QueueSize
    BY <1>4, <2>1, ProgressStreamAssumption
  <2>3. DOMAIN r = 1..Len(r) /\ DOMAIN Tail(r) = 1..(Len(r) - 1)
    BY <1>4, <2>1, LenProperties
  <2>4. \A i \in 1..(Len(r) - 1) : i + 1 \in 1..Len(r)
    BY <2>1
  <2> QED BY <1>1, <1>2, <2>1, <2>2, <2>3, <2>4
<1>6. c = socket => Coming = wire[socket] \o r
  BY <1>2, <1>4, HandlerOf, ConcatEmptySeq DEF Coming
<1>7. CASE e = Close
  <2>1. HandlerVars(c, "idle", <<>>, <<>>) /\ Put(c, <<Close>>)
    BY <1>3, <1>7
  <2>2. <<Close>> \in Seq(Item)
    BY Events
  <2> QED BY <1>3, <1>4, <1>6, <2>1, <2>2, EndsKeeps
<1>8. CASE e # Close /\ (e.end \/ c # socket)
  <2>1. HandlerVars(c, "idle", <<>>, <<>>) /\ Put(c, <<e, Close>>)
    BY <1>3, <1>8
  <2>2. <<e, Close>> \in Seq(Item)
    BY <1>5, Events
  <2> QED BY <1>3, <1>4, <1>5, <1>6, <2>1, <2>2, EndsKeeps
<1>9. CASE e # Close /\ ~ (e.end \/ c # socket)
  <2>1. HandlerVars(c, "live", <<>>, Tail(r)) /\ Put(c, <<Head(r)>>) /\ c = socket
    BY <1>3, <1>5, <1>9
  <2>2. ((wire[socket] \o <<Head(r)>>) \o <<>>) \o Tail(r)
          = (wire[socket] \o <<Head(r)>>) \o Tail(r)
    <3>1. <<Head(r)>> \in Seq(Item) /\ wire[socket] \in Seq(Item)
      BY <1>5, <2>1, HandlerOf
    <3>2. wire[socket] \o <<Head(r)>> \in Seq(Item)
      BY <3>1, ConcatProperties
    <3> QED BY <3>2, ConcatEmptySeq
  <2>3. c = socket /\ handler[c] \notin {"idle", "accepted"} /\ ~ Head(r).end
    BY <1>3, <1>5, <1>9
  <2>4. \A i \in DOMAIN Tail(r) : \E j \in DOMAIN subq[c] : Tail(r)[i] = subq[c][j]
    BY <1>2, <1>5
  <2>5. <<>> \in Seq(Event) /\ "live" # "replaying"
    OBVIOUS
  <2> QED BY <1>3, <1>4, <1>5, <1>6, <2>1, <2>2, <2>3, <2>4, <2>5, SendsKeeps
<1> QED BY <1>7, <1>8, <1>9

LEMMA AcceptKeeps ==
  ASSUME IInv, NEW c \in Conn, Accept(c)
  PROVE  IInv'
<1>1. PICK t : t = Replay(since[c])
  OBVIOUS
<1>2. PICK h : h = IF t = <<>> THEN "live" ELSE "replaying"
  OBVIOUS
<1>3. /\ handler[c] = "accepted" /\ HandlerVars(c, h, t, <<>>)
      /\ missed' = missed \cup (IF c = socket THEN RolledPast(since[c]) ELSE {})
      /\ UNCHANGED <<busVars, wire, clientVars, ended, backend, drops>>
  BY <1>1, <1>2 DEF Accept
<1>4. h \in HandlerState /\ h \in {"live", "replaying"} /\ (h = "live" => t = <<>>)
  BY <1>2 DEF HandlerState
<1>5. t \in Seq(Event)
  BY <1>1, HandlerOf, ReplayDrawn DEF Drawn, IInv, TypeOK
<1>6. /\ missed \subseteq missed'
      /\ missed' \subseteq (Event \X {"ring", "window", "overflow", "race"})
  <2>1. RolledPast(since[c]) \subseteq (Event \X {"ring", "window", "overflow", "race"})
    BY DEF RolledPast, IInv, TypeOK
  <2> QED BY <1>3, <2>1, HandlerOf
<1>7. TypeOK'
  BY <1>3, <1>4, <1>5, <1>6, HandlerOf, HandlerTyped DEF IInv, TypeOK
<1>8. Placed'
  BY <1>3, <1>4, HandlerPlaced DEF IInv
<1>9. Streaming'
  <2>1. CASE c # socket
    BY <1>3, <1>6, <2>1, OtherStays
  <2>2. CASE c = socket
    <3>1. /\ client = "connected" /\ wire[socket] = <<>> /\ since[c] = lastSeq
          /\ t = Replay(lastSeq)
      BY <1>1, <1>3, <2>2, HandlerOf DEF IInv, Placed
    <3>2. /\ handler'[socket] = h /\ backlog'[socket] = t /\ subq'[socket] = <<>>
          /\ wire'[socket] = <<>>
      BY <1>3, <2>2, <3>1 DEF HandlerVars, IInv, TypeOK
    <3>3. Coming' = t
      <4>1. <<>> \o t \o <<>> = t
        BY <1>5, ConcatEmptySeq
      <4>2. socket' = socket
        BY <1>3 DEF clientVars
      <4>3. Coming' = <<>> \o t \o <<>>
        BY <3>2, <4>2 DEF Coming
      <4> QED BY <4>1, <4>3
    <3>4. Travels(t)'
      <4>1. Travels(t)
        BY <3>1, ReplayTravels DEF IInv
      <4> QED BY <1>3, <1>6, <4>1, TravelsOn DEF busVars, clientVars
    <3>5. Travels(Coming)'
      BY <3>3, <3>4 DEF Travels, Orderly, Ahead, Trails, Raced, Counted
    <3>6. \A e \in published' : Owed(e)' => Offers(Coming, e)'
      <4> SUFFICES ASSUME NEW e \in published, Owed(e)' PROVE Offers(t, e)
        BY <1>3, <3>3 DEF busVars, Offers
      <4> QED BY <1>3, <2>2, <3>1, ReplayOffers DEF busVars, clientVars, IInv
    <3>7. DOMAIN <<>> = {}
      OBVIOUS
    <3> QED BY <1>3, <3>2, <3>5, <3>6, <3>7 DEF Streaming, clientVars, busVars
  <2> QED BY <2>1, <2>2
<1> QED BY <1>3, <1>6, <1>7, <1>8, <1>9, HandlerKeeps
(* Client.                                                                 *)
LEMMA BackfillAnswerKeeps ==
  ASSUME IInv, BackfillAnswer
  PROVE  IInv'
<1>1. PICK t : t = Replay(lastSeq)
  OBVIOUS
<1>2. /\ client = "backfill" /\ client' = "reading" /\ response' = t
      /\ missed' = missed \cup RolledPast(lastSeq)
      /\ UNCHANGED <<busVars, serverVars, wire, socket, lastSeq, terminated, seen,
                     ended, backend, drops>>
  BY <1>1 DEF BackfillAnswer
<1>3. Travels(t) /\ t \in Seq(Event)
  BY <1>1, ReplayTravels DEF IInv
<1>4. /\ missed \subseteq missed'
      /\ missed' \subseteq (Event \X {"ring", "window", "overflow", "race"})
  <2>1. RolledPast(lastSeq) \subseteq (Event \X {"ring", "window", "overflow", "race"})
    BY DEF RolledPast, IInv, TypeOK
  <2> QED BY <1>2, <2>1 DEF IInv, TypeOK
<1>5. TypeOK'
  BY <1>2, <1>3, <1>4 DEF IInv, TypeOK, busVars, serverVars
<1>6. Publishing' /\ Numbered' /\ Latest'
  BY <1>2, <1>4, BusStays DEF IInv
<1>7. Placed' /\ Streaming'
  BY <1>2 DEF IInv, Placed, Streaming, serverVars, Subscribed
<1>8. Answered'
  <2>1. Travels(t)'
    BY <1>2, <1>3, <1>4, TravelsOn DEF busVars
  <2>2. Travels(response)'
    BY <1>2, <2>1 DEF Travels, Orderly, Ahead, Trails, Raced, Counted
  <2>3. ASSUME NEW e \in published, Owed(e)' PROVE Offers(t, e)
    BY <1>1, <1>2, <2>3, ReplayOffers DEF busVars, IInv
  <2> QED BY <1>2, <2>2, <2>3 DEF Answered, Offers, busVars
<1>9. Noted' /\ InOrderOnce'
  BY <1>2 DEF IInv, Noted, InOrderOnce, busVars
<1>10. NoSilentLoss'
  BY <1>2, <1>4 DEF IInv, NoSilentLoss, Seen, busVars
<1> QED BY <1>5, <1>6, <1>7, <1>8, <1>9, <1>10 DEF IInv

(* A client that is between two requests.                                  *)
LEMMA ClientWaits ==
  ASSUME IInv, client' # "connected", client' # "reading", client' # "finished",
         client \notin {"reading", "finished"}, socket' = NoConn,
         TypeOK', \A c \in Conn : handler'[c] = handler[c] /\ backlog'[c] = backlog[c]
                                  /\ subq'[c] = subq[c],
         UNCHANGED <<busVars, response, lastSeq, terminated, seen, missed, backend>>
  PROVE  IInv'
<1>1. Publishing' /\ Numbered' /\ Latest'
  BY BusStays DEF IInv
<1>2. Placed'
  BY DEF IInv, Placed, Subscribed
<1>3. Streaming'
  BY DEF Streaming
<1>4. Answered'
  <2>1. Travels(response)'
    BY DEF IInv, Answered, Travels, Orderly, Ahead, Trails, Raced, Counted, busVars
  <2> QED BY <2>1 DEF Answered
<1>5. Noted' /\ InOrderOnce' /\ NoSilentLoss'
  BY DEF IInv, Noted, InOrderOnce, NoSilentLoss, Seen, busVars
<1> QED BY <1>1, <1>2, <1>3, <1>4, <1>5 DEF IInv

LEMMA BackfillFailsKeeps ==
  ASSUME IInv, BackfillFails
  PROVE  IInv'
<1>1. /\ client = "backfill" /\ client' = "opening"
      /\ drops \in Nat /\ drops' = drops + 1
      /\ UNCHANGED <<busVars, serverVars, wire, socket, response, lastSeq,
                     terminated, seen, missed, ended, backend>>
  BY DEF BackfillFails, IInv, TypeOK
<1>2. TypeOK'
  BY <1>1 DEF IInv, TypeOK, busVars, serverVars
<1>3. socket' = NoConn
  BY <1>1 DEF IInv, Placed
<1> QED BY <1>1, <1>2, <1>3, ClientWaits DEF serverVars

LEMMA ReconnectKeeps ==
  ASSUME IInv, Reconnect
  PROVE  IInv'
<1>1. /\ client = "waiting" /\ client' = "backfill"
      /\ UNCHANGED <<busVars, serverVars, wire, socket, response, lastSeq,
                     terminated, seen, missed, ended, backend, drops>>
  BY DEF Reconnect
<1>2. TypeOK'
  BY <1>1 DEF IInv, TypeOK, busVars, serverVars
<1>3. socket' = NoConn
  BY <1>1 DEF IInv, Placed
<1> QED BY <1>1, <1>2, <1>3, ClientWaits DEF serverVars

LEMMA DisconnectKeeps ==
  ASSUME IInv, Disconnect
  PROVE  IInv'
<1>1. /\ client = "connected" /\ client' = "waiting" /\ socket' = NoConn
      /\ drops \in Nat /\ drops' = drops + 1
      /\ wire' = [wire EXCEPT ![socket] = <<>>]
      /\ UNCHANGED <<busVars, serverVars, response, lastSeq, terminated, seen,
                     missed, ended, backend>>
  BY DEF Disconnect, IInv, TypeOK
<1>2. wire' \in [Conn -> Seq(Item)]
  BY <1>1, EmptySeq DEF IInv, TypeOK
<1>3. TypeOK'
  BY <1>1, <1>2 DEF IInv, TypeOK, busVars, serverVars
<1> QED BY <1>1, <1>3, ClientWaits DEF serverVars

LEMMA BackfillReadKeeps ==
  ASSUME IInv, BackfillRead
  PROVE  IInv'
<1>1. /\ client = "reading" /\ Handle(response) /\ response' = <<>>
      /\ client' = IF HasEnd(response) THEN "finished" ELSE "opening"
      /\ UNCHANGED <<busVars, serverVars, wire, socket, missed, ended, backend,
                     drops>>
  BY DEF BackfillRead
<1>2. PICK s \in Seq(Event) : s = response
  BY DEF IInv, TypeOK
<1>3. ~ terminated /\ socket = NoConn
  BY <1>1 DEF IInv, Placed
<1>4. /\ seen' \in Seq(Event) /\ lastSeq' \in 0..MaxSeq /\ lastSeq <= lastSeq'
      /\ terminated' = (terminated \/ HasEnd(s))
  BY <1>1, <1>2, HandleEffect DEF IInv
<1>5. TypeOK'
  BY <1>1, <1>2, <1>3, <1>4, EmptySeq DEF IInv, TypeOK, busVars, serverVars, HasEnd
<1>6. Publishing' /\ Numbered' /\ Latest'
  BY <1>1, BusStays DEF IInv
<1>7. Placed'
  BY <1>1, <1>2, <1>3, <1>4 DEF IInv, Placed, Subscribed, serverVars
<1>8. Streaming'
  BY <1>1 DEF Streaming
<1>9. Answered'
  <2>1. DOMAIN <<>> = {}
    OBVIOUS
  <2> QED BY <1>1, <2>1 DEF Answered, Travels, Orderly, Ahead
<1>10. Noted' /\ InOrderOnce' /\ NoSilentLoss'
  <2>1. Travels(s) /\ \A e \in published : Owed(e) => Offers(s, e) \/ Below(s, e)
    BY <1>1, <1>2 DEF IInv, Answered
  <2>2. Handle(s) /\ UNCHANGED <<published, missed>>
    BY <1>1, <1>2 DEF busVars
  <2> QED BY <1>3, <2>1, <2>2, HandleKeeps
<1> QED BY <1>5, <1>6, <1>7, <1>8, <1>9, <1>10 DEF IInv
LEMMA OpenKeeps ==
  ASSUME IInv, NEW c \in Conn, Open(c)
  PROVE  IInv'
<1>1. /\ client = "opening" /\ handler[c] = "idle"
      /\ client' = "connected" /\ socket' = c
      /\ handler' = [handler EXCEPT ![c] = "accepted"]
      /\ since' = [since EXCEPT ![c] = lastSeq]
      /\ wire' = [wire EXCEPT ![c] = <<>>]
      /\ UNCHANGED <<busVars, backlog, subq, response, lastSeq, terminated, seen,
                     missed, ended, backend, drops>>
  BY DEF Open
<1>2. backlog[c] = <<>> /\ subq[c] = <<>> /\ c # NoConn
  BY <1>1, Events DEF IInv, Placed
<1>3. /\ handler' \in [Conn -> HandlerState] /\ since' \in [Conn -> 0..MaxSeq]
      /\ wire' \in [Conn -> Seq(Item)]
      /\ handler'[c] = "accepted" /\ since'[c] = lastSeq /\ wire'[c] = <<>>
      /\ \A d \in Conn : d # c => handler'[d] = handler[d]
  BY <1>1, EmptySeq DEF IInv, TypeOK, HandlerState
<1>4. TypeOK'
  BY <1>1, <1>3 DEF IInv, TypeOK, busVars
<1>5. Publishing' /\ Numbered' /\ Latest'
  BY <1>1, BusStays DEF IInv
<1>6. Placed'
  <2>1. ASSUME NEW d \in Conn
        PROVE  /\ handler'[d] \in {"idle", "accepted"} => backlog'[d] = <<>> /\ subq'[d] = <<>>
               /\ handler'[d] = "replaying" => subq'[d] = <<>>
               /\ Subscribed(d)' => backlog'[d] = <<>>
    <3>1. CASE d = c
      BY <1>1, <1>2, <1>3, <3>1 DEF Subscribed
    <3>2. CASE d # c
      BY <1>1, <1>3, <3>2 DEF IInv, Placed, Subscribed
    <3> QED BY <3>1, <3>2
  <2> QED BY <1>1, <1>2, <1>3, <2>1 DEF IInv, Placed
<1>7. Streaming'
  <2>1. Coming' = <<>>
    <3>1. Coming' = <<>> \o <<>> \o <<>>
      BY <1>1, <1>2, <1>3 DEF Coming
    <3> QED BY <3>1, EmptySeq, ConcatEmptySeq
  <2>2. DOMAIN <<>> = {}
    OBVIOUS
  <2>3. Travels(Coming)'
    BY <2>1, <2>2 DEF Travels, Orderly, Ahead
  <2>4. \A e \in published' : Below(Coming, e)' /\ Outside(e)'
    BY <1>1, <1>3, <2>1, <2>2 DEF Below, Outside
  <2> QED BY <1>1, <1>2, <1>3, <2>2, <2>3, <2>4 DEF Streaming
<1>8. Answered'
  <2>1. Travels(response)'
    BY <1>1 DEF IInv, Answered, Travels, Orderly, Ahead, Trails, Raced, Counted, busVars
  <2> QED BY <1>1, <2>1 DEF Answered
<1>9. Noted' /\ InOrderOnce' /\ NoSilentLoss'
  BY <1>1 DEF IInv, Noted, InOrderOnce, NoSilentLoss, Seen, busVars
<1> QED BY <1>4, <1>5, <1>6, <1>7, <1>8, <1>9 DEF IInv

LEMMA TailOf ==
  ASSUME NEW a \in Seq(Item), NEW b \in Seq(Item), a # <<>>
  PROVE  /\ a \o b \in Seq(Item) /\ a \o b # <<>>
         /\ Head(a \o b) = Head(a) /\ Tail(a \o b) = Tail(a) \o b
<1>1. /\ Head(a) \in Item /\ Head(a) = a[1] /\ Tail(a) \in Seq(Item)
      /\ Len(a) \in Nat /\ Len(a) >= 1 /\ Len(Tail(a)) = Len(a) - 1
      /\ \A i \in 1..(Len(a) - 1) : Tail(a)[i] = a[i + 1]
  BY HeadTail
<1>2. PICK s : s = a \o b
  OBVIOUS
<1>3. /\ s \in Seq(Item) /\ Len(s) = Len(a) + Len(b)
      /\ \A i \in 1..Len(a) + Len(b) : s[i] = IF i <= Len(a) THEN a[i] ELSE b[i - Len(a)]
  BY <1>2, ConcatProperties
<1>4. Len(b) \in Nat
  BY LenProperties
<1>5. s # <<>> /\ s[1] = a[1]
  <2>1. Len(s) >= 1 /\ 1 \in 1..Len(a) + Len(b)
    BY <1>1, <1>3, <1>4
  <2>2. s # <<>>
    BY <2>1, EmptySeq
  <2> QED BY <1>1, <1>3, <2>1, <2>2
<1>6. /\ Head(s) = s[1] /\ Tail(s) \in Seq(Item) /\ Len(Tail(s)) = Len(s) - 1
      /\ \A i \in 1..(Len(s) - 1) : Tail(s)[i] = s[i + 1]
  BY <1>3, <1>5, HeadTail
<1>7. PICK t : t = Tail(a)
  OBVIOUS
<1>8. PICK u : u = t \o b
  OBVIOUS
<1>9. /\ u \in Seq(Item) /\ Len(u) = Len(t) + Len(b)
      /\ \A i \in 1..Len(t) + Len(b) : u[i] = IF i <= Len(t) THEN t[i] ELSE b[i - Len(t)]
  BY <1>1, <1>7, <1>8, ConcatProperties
<1>10. Len(t) = Len(a) - 1 /\ Len(u) = Len(Tail(s))
  BY <1>1, <1>3, <1>4, <1>6, <1>7, <1>9
<1>11. ASSUME NEW i \in 1..Len(u) PROVE u[i] = Tail(s)[i]
  <2>1. /\ i \in 1..(Len(s) - 1) /\ i + 1 \in 1..Len(a) + Len(b)
        /\ i \in 1..Len(t) + Len(b)
    BY <1>1, <1>3, <1>4, <1>6, <1>9, <1>10
  <2>2. Tail(s)[i] = s[i + 1]
    BY <1>6, <2>1
  <2>3. CASE i <= Len(t)
    <3>1. i \in 1..(Len(a) - 1) /\ i + 1 <= Len(a)
      BY <1>1, <1>10, <2>1, <2>3
    <3>2. u[i] = a[i + 1]
      BY <1>1, <1>7, <1>9, <2>1, <2>3, <3>1
    <3>3. s[i + 1] = a[i + 1]
      BY <1>3, <2>1, <3>1
    <3> QED BY <2>2, <3>2, <3>3
  <2>4. CASE ~ (i <= Len(t))
    <3>1. ~ (i + 1 <= Len(a)) /\ (i + 1) - Len(a) = i - Len(t)
      BY <1>1, <1>10, <2>1, <2>4
    <3>2. u[i] = b[i - Len(t)]
      BY <1>9, <2>1, <2>4
    <3>3. s[i + 1] = b[(i + 1) - Len(a)]
      BY <1>3, <2>1, <3>1
    <3> QED BY <2>2, <3>1, <3>2, <3>3
  <2> QED BY <2>3, <2>4
<1>12. u = Tail(s)
  BY <1>6, <1>9, <1>10, <1>11, SeqEqual
<1> QED BY <1>1, <1>2, <1>3, <1>5, <1>6, <1>7, <1>8, <1>12
(* What is left to come, when the client has taken an event that is not    *)
(* the end.                                                                *)
LEMMA TakenFirst ==
  ASSUME IInv, client = "connected", NEW s \in Seq(Item), s = Coming, s # <<>>,
         NEW e, e = Head(s), e \in Event, ~ e.end, Handle(<<e>>),
         UNCHANGED <<published, missed, pub>>,
         socket' = socket, UNCHANGED serverVars,
         Coming' = Tail(s), wire'[socket] = Tail(wire[socket]), wire[socket] # <<>>
  PROVE  Streaming'
<1>1. /\ Head(s) = s[1] /\ Tail(s) \in Seq(Item)
      /\ Len(s) \in Nat /\ Len(s) >= 1 /\ Len(Tail(s)) = Len(s) - 1
      /\ \A i \in 1..(Len(s) - 1) : Tail(s)[i] = s[i + 1]
  BY HeadTail
<1>2. PICK t : t = Tail(s)
  OBVIOUS
<1>3. /\ DOMAIN s = 1..Len(s) /\ DOMAIN t = 1..(Len(s) - 1)
      /\ \A i \in 1..(Len(s) - 1) : t[i] = s[i + 1] /\ i + 1 \in 1..Len(s) /\ 1 < i + 1
      /\ 1 \in 1..Len(s) /\ s[1] = e
  BY <1>1, <1>2, LenProperties
<1>4. Travels(s) /\ e # Close
  BY Events DEF IInv, Streaming
<1>5. e \in published /\ Counted(e)
  <2>1. e \in published
    BY <1>3, <1>4 DEF Travels
  <2> QED BY <2>1 DEF IInv, Numbered
<1>6. PICK r : r = <<e>>
  OBVIOUS
<1>7. r \in Seq(Event) /\ Len(r) = 1 /\ r[1] = e /\ Handle(r)
  BY <1>6
<1>8. /\ lastSeq \in Nat /\ lastSeq' \in Nat
      /\ lastSeq' = lastSeq \/ lastSeq' = e.seq
      /\ seen' \in Seq(Event) /\ Len(seen') = Len(seen) + 1 /\ Len(seen) \in Nat
      /\ \A i \in 1..Len(seen) : seen'[i] = seen[i]
      /\ seen'[Len(seen) + 1] = e
  <2>1. PICK k \in 0..Len(r) :
           /\ seen' \in Seq(Event) /\ Len(seen') = Len(seen) + k
           /\ \A i \in 1..Len(seen) : seen'[i] = seen[i]
           /\ \A i \in 1..k : seen'[Len(seen) + i] = r[i]
           /\ IF HasEnd(r) THEN k > 0 /\ r[k].end ELSE k = Len(r)
           /\ lastSeq' \in 0..MaxSeq
           /\ lastSeq' = lastSeq \/ \E i \in 1..k : r[i].seq = lastSeq'
    BY <1>7, HandleEffect DEF IInv
  <2>2. k = 1
    BY <1>7, <2>1
  <2>3. 1 \in 1..k /\ \A i \in 1..k : i = 1
    BY <2>2
  <2>4. Len(seen) \in Nat /\ lastSeq \in Nat /\ lastSeq' \in Nat
    BY <2>1, LenProperties, Events DEF IInv, TypeOK
  <2> QED BY <1>7, <2>1, <2>2, <2>3, <2>4
<1>9. \A x, f : Trails(x, f)' = Trails(x, f)
  BY DEF Trails, Raced, Counted
<1>10. Travels(t)'
  <2>1. \A i \in DOMAIN t : t[i] \in published' \cup {Close}
    BY <1>3, <1>4 DEF Travels
  <2>2. \A i, j \in DOMAIN t :
          i < j => t[i] = Close \/ t[j] = Close \/ Trails(t[i], t[j])
    <3> SUFFICES ASSUME NEW i \in 1..(Len(s) - 1), NEW j \in 1..(Len(s) - 1), i < j
                 PROVE  t[i] = Close \/ t[j] = Close \/ Trails(t[i], t[j])
      BY <1>3
    <3>1. i + 1 < j + 1
      OBVIOUS
    <3>2. /\ i + 1 \in DOMAIN s /\ j + 1 \in DOMAIN s
          /\ t[i] = s[i + 1] /\ t[j] = s[j + 1]
      BY <1>3
    <3> QED BY <1>4, <3>1, <3>2 DEF Travels, Orderly
  <2>3. Ahead(t)'
    <3> SUFFICES ASSUME NEW i \in 1..(Len(s) - 1), NEW x, x = t[i],
                        x # Close, Counted(x)
                 PROVE  x.seq > lastSeq'
      BY <1>3 DEF Ahead, Counted
    <3>1. x = s[i + 1] /\ i + 1 \in DOMAIN s /\ 1 \in DOMAIN s /\ 1 < i + 1
      BY <1>3
    <3>2. x \in published /\ x.seq \in Nat /\ e.seq \in Nat
      BY <1>4, <3>1, Events DEF Travels, IInv, TypeOK
    <3>3. x.seq > lastSeq
      BY <1>4, <3>1 DEF Travels, Ahead
    <3>4. Trails(e, x)
      BY <1>3, <1>4, <3>1 DEF Travels, Orderly
    <3>5. e.seq < x.seq
      BY <1>5, <3>4 DEF Trails
    <3> QED BY <1>8, <3>2, <3>3, <3>5
  <2>4. Orderly(t)'
    BY <2>2 DEF Orderly, Trails, Raced, Counted
  <2> QED BY <2>1, <2>3, <2>4 DEF Travels
<1>11. Travels(Coming)'
  BY <1>2, <1>10 DEF Travels, Orderly, Ahead, Trails, Raced, Counted
<1>12. \A f \in published' :
         Owed(f)' => Offers(Coming, f)' \/ (Below(Coming, f)' /\ Outside(f)')
  <2> SUFFICES ASSUME NEW f \in published, Owed(f)'
               PROVE  Offers(t, f) \/ (Below(t, f) /\ Outside(f)')
    BY <1>2 DEF Offers, Below
  <2>1. f # e /\ ~ Seen(f)
    <3>1. DOMAIN seen = 1..Len(seen) /\ DOMAIN seen' = 1..(Len(seen) + 1)
      BY <1>8, LenProperties DEF IInv, TypeOK
    <3>2. \A i \in 1..(Len(seen) + 1) : seen'[i] # f
      BY <3>1 DEF Owed, Seen
    <3>3. \A i \in 1..Len(seen) : i \in 1..(Len(seen) + 1)
      BY <1>8
    <3>4. Len(seen) + 1 \in 1..(Len(seen) + 1)
      BY <1>8
    <3> QED BY <1>8, <3>1, <3>2, <3>3, <3>4 DEF Seen
  <2>2. Owed(f)
    BY <2>1 DEF Owed, Lost
  <2>3. Offers(s, f) \/ (Below(s, f) /\ Outside(f))
    BY <2>2 DEF IInv, Streaming
  <2>4. CASE Offers(s, f)
    <3>1. PICK j \in 1..Len(s) : s[j] = f
      BY <1>3, <2>4 DEF Offers
    <3>2. j # 1
      BY <1>3, <2>1, <3>1
    <3>3. j - 1 \in 1..(Len(s) - 1) /\ (j - 1) + 1 = j
      BY <1>1, <3>2
    <3>4. t[j - 1] = f
      BY <1>3, <3>1, <3>3
    <3> QED BY <1>3, <3>3, <3>4 DEF Offers
  <2>5. CASE Below(s, f) /\ Outside(f)
    <3>1. Below(t, f)
      BY <1>3, <2>5 DEF Below
    <3>2. Outside(f)'
      BY <2>5 DEF Outside, serverVars
    <3> QED BY <3>1, <3>2
  <2> QED BY <2>3, <2>4, <2>5
<1>13. handler'[socket] # "idle" => \A i \in DOMAIN wire'[socket] : ~ wire'[socket][i].end
  <2>1. PICK w \in Seq(Item) : w = wire[socket] /\ w # <<>>
    <3>1. socket \in Conn
      BY DEF IInv, TypeOK, Placed
    <3> QED BY <3>1, HandlerOf
  <2>2. /\ Len(w) \in Nat /\ Len(w) >= 1 /\ Tail(w) \in Seq(Item)
        /\ Len(Tail(w)) = Len(w) - 1
        /\ \A i \in 1..(Len(w) - 1) : Tail(w)[i] = w[i + 1]
    BY <2>1, HeadTail
  <2>3. DOMAIN w = 1..Len(w) /\ DOMAIN Tail(w) = 1..(Len(w) - 1)
    BY <2>2, LenProperties
  <2>4. \A i \in 1..(Len(w) - 1) : i + 1 \in 1..Len(w)
    BY <2>2
  <2>5. handler[socket] # "idle" => \A i \in 1..Len(w) : ~ w[i].end
    BY <2>1, <2>3 DEF IInv, Streaming
  <2> QED BY <2>1, <2>2, <2>3, <2>4, <2>5 DEF serverVars
<1>14. pub'["request"].at = "retained" =>
         \A i \in DOMAIN subq'[socket] : subq'[socket][i] # pub'["request"].event
  BY DEF IInv, Streaming, serverVars
<1> QED BY <1>11, <1>12, <1>13, <1>14 DEF Streaming

LEMMA ReceiveKeeps ==
  ASSUME IInv, Receive
  PROVE  IInv'
<1>1. PICK w : w = wire[socket]
  OBVIOUS
<1>2. PICK e : e = Head(w)
  OBVIOUS
<1>3. /\ client = "connected" /\ w # <<>> /\ wire' = [wire EXCEPT ![socket] = Tail(w)]
      /\ IF e = Close
         THEN /\ client' = "waiting" /\ socket' = NoConn
              /\ UNCHANGED <<lastSeq, seen, terminated>>
         ELSE /\ Handle(<<e>>)
              /\ client' = IF e.end THEN "finished" ELSE "connected"
              /\ socket' = IF e.end THEN NoConn ELSE socket
      /\ UNCHANGED <<busVars, serverVars, response, missed, ended, backend, drops>>
  BY <1>1, <1>2 DEF Receive
<1>4. socket \in Conn /\ w \in Seq(Item)
  BY <1>1, <1>3 DEF IInv, TypeOK, Placed
<1>5. e \in Item /\ Tail(w) \in Seq(Item)
  BY <1>2, <1>3, <1>4, HeadTail
<1>6. wire' \in [Conn -> Seq(Item)] /\ wire'[socket] = Tail(w)
  BY <1>3, <1>4, <1>5 DEF IInv, TypeOK
<1>7. CASE e = Close
  <2>1. TypeOK'
    BY <1>3, <1>6, <1>7 DEF IInv, TypeOK, busVars, serverVars
  <2> QED BY <1>3, <1>7, <2>1, ClientWaits DEF serverVars
<1>8. CASE e # Close
  <2>1. PICK r : r = <<e>>
    OBVIOUS
  <2>2. e \in Event /\ r \in Seq(Event) /\ Handle(r) /\ ~ terminated
    BY <1>3, <1>5, <1>8, <2>1 DEF Item, IInv, Placed
  <2>3. PICK b \in Seq(Item) : b = backlog[socket]
    BY <1>4, HandlerOf
  <2>4. PICK q \in Seq(Item) : q = subq[socket]
    BY <1>4, HandlerOf
  <2>5. PICK s : s = (w \o b) \o q
    OBVIOUS
  <2>6. /\ s \in Seq(Item) /\ s # <<>> /\ s = Coming /\ Head(s) = e
        /\ Tail(s) = (Tail(w) \o b) \o q
    <3>1. /\ w \o b \in Seq(Item) /\ w \o b # <<>>
          /\ Head(w \o b) = Head(w) /\ Tail(w \o b) = Tail(w) \o b
      BY <1>3, <1>4, TailOf
    <3>2. /\ (w \o b) \o q \in Seq(Item) /\ (w \o b) \o q # <<>>
          /\ Head((w \o b) \o q) = Head(w \o b)
          /\ Tail((w \o b) \o q) = Tail(w \o b) \o q
      BY <3>1, TailOf
    <3>3. s = Coming
      BY <1>1, <2>3, <2>4, <2>5 DEF Coming
    <3> QED BY <1>2, <2>5, <3>1, <3>2, <3>3
  <2>7. r[1] = e /\ DOMAIN r = {1} /\ (HasEnd(r) <=> e.end)
    BY <2>1 DEF HasEnd
  <2>8. Travels(s) /\ \A f \in published : Owed(f) => Offers(s, f) \/ Below(s, f)
    BY <1>3, <2>6 DEF IInv, Streaming
  <2>9. DOMAIN s = 1..Len(s) /\ Len(s) \in Nat /\ Len(s) >= 1 /\ s[1] = e /\ 1 \in DOMAIN s
    BY <2>6, HeadTail, LenProperties
  <2>10. Travels(r)
    <3>1. e \in published /\ (~ Counted(e) \/ e.seq > lastSeq)
      BY <1>8, <2>8, <2>9 DEF Travels, Ahead
    <3> QED BY <2>7, <3>1 DEF Travels, Orderly, Ahead
  <2>11. \A f \in published : Owed(f) => Offers(r, f) \/ Below(r, f)
    <3> SUFFICES ASSUME NEW f \in published, Owed(f), f # e PROVE e.seq < f.seq
      BY <2>7 DEF Offers, Below
    <3>1. CASE Below(s, f)
      BY <1>8, <2>9, <3>1 DEF Below
    <3>2. CASE Offers(s, f)
      <4>1. PICK j \in 1..Len(s) : s[j] = f
        BY <2>9, <3>2 DEF Offers
      <4>2. 1 < j
        BY <2>9, <4>1
      <4>3. f # Close
        BY Events DEF IInv, TypeOK
      <4>4. Trails(e, f)
        BY <1>8, <2>8, <2>9, <4>1, <4>2, <4>3 DEF Travels, Orderly
      <4> QED BY <4>4 DEF Trails, Owed, Lost, Raced
    <3> QED BY <2>8, <3>1, <3>2
  <2>12. Noted' /\ InOrderOnce' /\ NoSilentLoss'
    BY <1>3, <2>2, <2>10, <2>11, HandleKeeps DEF busVars
  <2>13. seen' \in Seq(Event) /\ lastSeq' \in 0..MaxSeq /\ terminated' = (terminated \/ HasEnd(r))
    BY <2>2, HandleEffect DEF IInv
  <2>14. TypeOK'
    BY <1>3, <1>6, <1>8, <2>2, <2>7, <2>13 DEF IInv, TypeOK, busVars, serverVars
  <2>15. Publishing' /\ Numbered' /\ Latest'
    BY <1>3, BusStays DEF IInv
  <2>16. Placed'
    <3>1. handler[socket] # "accepted"
      BY <1>1, <1>3 DEF IInv, Placed
    <3> QED BY <1>3, <1>8, <2>2, <2>7, <2>13, <3>1 DEF IInv, Placed, Subscribed, serverVars
  <2>17. Answered'
    <3>1. response' = <<>> /\ client' # "reading"
      BY <1>3, <1>8 DEF IInv, Placed
    <3>2. DOMAIN <<>> = {}
      OBVIOUS
    <3> QED BY <3>1, <3>2 DEF Answered, Travels, Orderly, Ahead
  <2>18. Streaming'
    <3>1. CASE e.end
      BY <1>3, <1>8, <3>1 DEF Streaming
    <3>2. CASE ~ e.end
      <4>1. socket' = socket /\ Handle(<<e>>)
        BY <1>3, <1>8, <3>2
      <4>2. Coming' = Tail(s)
        BY <1>3, <1>6, <2>3, <2>4, <2>6, <4>1 DEF Coming, serverVars
      <4>3. UNCHANGED <<published, missed, pub>> /\ UNCHANGED serverVars
        BY <1>3 DEF busVars
      <4> QED BY <1>1, <1>3, <1>6, <2>2, <2>6, <3>2, <4>1, <4>2, <4>3, TakenFirst
    <3> QED BY <3>1, <3>2
  <2> QED BY <2>12, <2>14, <2>15, <2>16, <2>17, <2>18 DEF IInv
<1> QED BY <1>7, <1>8
(* Publishers begin, and the backend restarts.                             *)
LEMMA PublishKeeps ==
  ASSUME IInv, PublishEvent \/ PublishWorkerError \/ PublishEnd
  PROVE  IInv'
<1>1. CASE PublishEvent
  <2>1. Assign("loop", FALSE, "run") /\ backend = "up" /\ "loop" \in Publisher
    BY <1>1 DEF PublishEvent, Publisher
  <2> QED BY <2>1, AssignKeeps
<1>2. CASE PublishWorkerError
  <2>1. Assign("loop", TRUE, "run") /\ backend = "up" /\ "loop" \in Publisher
    BY <1>2 DEF PublishWorkerError, Publisher
  <2> QED BY <2>1, AssignKeeps
<1>3. CASE PublishEnd
  <2>1. backend # "restarted" /\ "loop" \in Publisher /\ "request" \in Publisher
    BY <1>3 DEF PublishEnd, Publisher
  <2>2. CASE Assign("loop", TRUE, "task")
    BY <2>1, <2>2, AssignKeeps
  <2>3. CASE ~ Ended("cancel") /\ Assign("request", TRUE, "cancel")
    <3>1. \A e \in published : Counted(e)
      BY <2>3 DEF IInv, Numbered, Counted, Ended
    <3> QED BY <2>1, <2>3, <3>1, AssignKeeps
  <2> QED BY <1>3, <2>2, <2>3 DEF PublishEnd
<1> QED BY <1>1, <1>2, <1>3

LEMMA RestartKeeps ==
  ASSUME IInv, Restart
  PROVE  IInv'
<1>1. /\ backend' = "restarted"
      /\ ring' = <<>> /\ nextSeq' = 1 /\ closed' = FALSE /\ ended' = TRUE
      /\ pub' = [p \in Publisher |-> Idle] /\ published' = published
      /\ handler' = [c \in Conn |-> "idle"] /\ since' = [c \in Conn |-> 0]
      /\ backlog' = [c \in Conn |-> <<>>] /\ subq' = [c \in Conn |-> <<>>]
      /\ wire' = [c \in Conn |-> <<>>]
      /\ client' = IF client = "connected" THEN "waiting" ELSE client
      /\ socket' = NoConn
      /\ UNCHANGED <<response, lastSeq, terminated, seen, missed, drops>>
  BY DEF Restart
<1>2. MaxSeq \in Nat /\ RingSize \in Nat /\ QueueSize \in Nat
  BY ProgressStreamAssumption
<1>3. <<>> \in Seq(Event) /\ <<>> \in Seq(Item) /\ Len(<<>>) = 0 /\ DOMAIN <<>> = {}
  OBVIOUS
<1>4. /\ pub'["loop"] = Idle /\ pub'["request"] = Idle
      /\ \A p \in Publisher : pub'[p].at = "idle"
      /\ Idle \in [at : PublisherState, event : Item] /\ Idle.at = "idle"
  BY <1>1, Events DEF Publisher, PublisherState, Idle
<1>5. TypeOK'
  <2>1. /\ ring' \in Seq(Event) /\ Len(ring') <= RingSize
        /\ nextSeq' \in 1..(MaxSeq + 1) /\ closed' \in BOOLEAN
        /\ published' \subseteq Event
    <3>1. 1 \in 1..(MaxSeq + 1) /\ 0 <= RingSize /\ FALSE \in BOOLEAN
      BY <1>2
    <3>2. published' \subseteq Event
      BY <1>1 DEF IInv, TypeOK
    <3> QED BY <1>1, <1>3, <3>1, <3>2
  <2>2. pub' \in [Publisher -> [at : PublisherState, event : Item]]
    BY <1>1, <1>4
  <2>3. handler' \in [Conn -> HandlerState] /\ since' \in [Conn -> 0..MaxSeq]
    BY <1>1, <1>2 DEF HandlerState
  <2>4. /\ backlog' \in [Conn -> Seq(Event)] /\ wire' \in [Conn -> Seq(Item)]
        /\ subq' \in [Conn -> Seq(Item)] /\ \A c \in Conn : Len(subq'[c]) <= QueueSize
    BY <1>1, <1>2, <1>3
  <2>5. /\ client' \in {"backfill", "reading", "opening", "connected", "waiting",
                        "finished"}
        /\ socket' \in Conn \cup {NoConn} /\ response' \in Seq(Event)
        /\ lastSeq' \in 0..MaxSeq /\ terminated' \in BOOLEAN /\ seen' \in Seq(Event)
        /\ missed' \subseteq (Event \X {"ring", "window", "overflow", "race"})
        /\ ended' \in BOOLEAN /\ drops' \in Nat
        /\ backend' \in {"up", "stopped", "restarted"}
    BY <1>1 DEF IInv, TypeOK
  <2> QED BY <2>1, <2>2, <2>3, <2>4, <2>5 DEF TypeOK
<1>6. Publishing'
  BY <1>4 DEF Publishing
<1>7. Numbered'
  <2>1. Reading' = {}
    BY <1>4 DEF Reading
  <2>2. Cardinality({}) = 0 /\ Cardinality(Reading) \in Nat
    BY FS_EmptySet, Readers
  <2>3. IsFiniteSet(published) /\ Cardinality(published) + Cardinality(Reading) <= MaxSeq
    BY DEF IInv, Numbered
  <2>4. Cardinality(published) \in Nat
    BY <2>3, FS_CardinalityType
  <2>5. Cardinality(published') + Cardinality(Reading') <= MaxSeq
    BY <1>1, <1>2, <2>1, <2>2, <2>3, <2>4
  <2>6. \A e \in published' : ~ Counted(e)' => e.end
    BY <1>1 DEF IInv, Numbered, Counted
  <2> QED BY <1>1, <2>3, <2>5, <2>6 DEF Numbered
<1>8. Latest'
  BY <1>1, <1>3 DEF Latest, Orderly
<1>9. Placed'
  <2>1. client' # "connected" /\ (client' = "reading" <=> client = "reading")
        /\ (client' = "finished" <=> client = "finished")
    BY <1>1
  <2> QED BY <1>1, <2>1 DEF IInv, Placed, Subscribed
<1>10. Streaming'
  BY <1>1 DEF Streaming
<1>11. Answered'
  <2>1. Travels(response)'
    BY <1>1 DEF IInv, Answered, Travels, Orderly, Ahead, Trails, Raced, Counted
  <2>2. \A e \in published' : Owed(e)' => Owed(e)
    BY <1>1 DEF Owed, Seen, Lost
  <2>3. client' = "reading" => client = "reading"
    BY <1>1
  <2> QED BY <1>1, <2>1, <2>2, <2>3 DEF IInv, Answered, Offers, Below
<1>12. Noted' /\ InOrderOnce' /\ NoSilentLoss'
  BY <1>1 DEF IInv, Noted, InOrderOnce, NoSilentLoss, Seen
<1> QED BY <1>5, <1>6, <1>7, <1>8, <1>9, <1>10, <1>11, <1>12 DEF IInv

LEMMA InitIInv == Init => IInv
<1> SUFFICES ASSUME Init PROVE IInv
  OBVIOUS
<1>1. MaxSeq \in Nat /\ RingSize \in Nat /\ QueueSize \in Nat
  BY ProgressStreamAssumption
<1>2. <<>> \in Seq(Event) /\ <<>> \in Seq(Item) /\ Len(<<>>) = 0 /\ DOMAIN <<>> = {}
  OBVIOUS
<1>3. /\ pub["loop"] = Idle /\ pub["request"] = Idle
      /\ \A p \in Publisher : pub[p].at = "idle"
      /\ Idle \in [at : PublisherState, event : Item] /\ Idle.at = "idle"
  BY Events DEF Init, Publisher, PublisherState, Idle
<1>4. TypeOK
  <2>1. /\ ring \in Seq(Event) /\ Len(ring) <= RingSize
        /\ nextSeq \in 1..(MaxSeq + 1) /\ closed \in BOOLEAN
        /\ published \subseteq Event
    <3>1. 1 \in 1..(MaxSeq + 1) /\ 0 <= RingSize /\ FALSE \in BOOLEAN
      BY <1>1
    <3>2. ring = <<>> /\ nextSeq = 1 /\ closed = FALSE /\ published = {}
      BY DEF Init
    <3> QED BY <1>2, <3>1, <3>2
  <2>2. pub \in [Publisher -> [at : PublisherState, event : Item]]
    BY <1>3 DEF Init
  <2>3. handler \in [Conn -> HandlerState] /\ since \in [Conn -> 0..MaxSeq]
    BY <1>1 DEF Init, HandlerState
  <2>4. /\ backlog \in [Conn -> Seq(Event)] /\ wire \in [Conn -> Seq(Item)]
        /\ subq \in [Conn -> Seq(Item)] /\ \A c \in Conn : Len(subq[c]) <= QueueSize
    BY <1>1, <1>2 DEF Init
  <2>5. /\ client = "backfill" /\ socket \in Conn \cup {NoConn}
        /\ response \in Seq(Event) /\ seen \in Seq(Event)
        /\ lastSeq \in 0..MaxSeq /\ terminated \in BOOLEAN
        /\ missed = {} /\ ended \in BOOLEAN /\ drops \in Nat /\ backend = "up"
    <3>1. 0 \in 0..MaxSeq /\ 0 \in Nat /\ FALSE \in BOOLEAN
      BY <1>1
    <3>2. /\ client = "backfill" /\ socket = NoConn /\ response = <<>> /\ seen = <<>>
          /\ lastSeq = 0 /\ terminated = FALSE /\ missed = {} /\ ended = FALSE
          /\ drops = 0 /\ backend = "up"
      BY DEF Init
    <3> QED BY <1>2, <3>1, <3>2
  <2> QED BY <2>1, <2>2, <2>3, <2>4, <2>5 DEF TypeOK
<1>5. Publishing
  BY <1>3 DEF Publishing, Init
<1>6. Numbered
  <2>1. Reading = {}
    BY <1>3 DEF Reading
  <2>2. IsFiniteSet({}) /\ Cardinality({}) = 0
    BY FS_EmptySet
  <2>3. published = {} /\ nextSeq = 1
    BY DEF Init
  <2>4. Cardinality(published) + Cardinality(Reading) <= MaxSeq
    BY <1>1, <2>1, <2>2, <2>3
  <2> QED BY <1>3, <2>2, <2>3, <2>4 DEF Numbered, Publisher
<1>7. Latest
  BY <1>2, <1>3 DEF Latest, Init, Orderly
<1>8. Placed /\ Streaming
  BY DEF Placed, Streaming, Init, Subscribed
<1>9. Answered
  BY <1>2 DEF Answered, Init, Travels, Orderly, Ahead
<1>10. Noted /\ InOrderOnce /\ NoSilentLoss
  BY <1>2 DEF Noted, InOrderOnce, NoSilentLoss, Init
<1> QED BY <1>4, <1>5, <1>6, <1>7, <1>8, <1>9, <1>10 DEF IInv

LEMMA Inductive == IInv /\ [Next]_vars => IInv'
<1> SUFFICES ASSUME IInv, [Next]_vars PROVE IInv'
  OBVIOUS
<1>1. CASE PublishEvent \/ PublishWorkerError \/ PublishEnd
  BY <1>1, PublishKeeps
<1>2. CASE CloseAll \/ CloseTask
  BY <1>2, CloseKeeps
<1>3. CASE FinishOnLoop
  BY <1>3, FinishKeeps
<1>4. CASE Retain
  BY <1>4, RetainKeeps
<1>5. CASE FanoutRetained
  BY <1>5, FanoutRetainedKeeps
<1>6. ASSUME NEW c \in Conn, Handler(c) PROVE IInv'
  BY <1>6, AcceptKeeps, ReplayBreaksKeeps, SendBacklogKeeps, SubscribeKeeps,
     LookKeeps, ParkKeeps, DeliverKeeps DEF Handler
<1>7. CASE Client
  BY <1>7, BackfillAnswerKeeps, BackfillReadKeeps, ReceiveKeeps, ReconnectKeeps,
     OpenKeeps DEF Client
<1>8. CASE BackfillFails \/ Disconnect
  BY <1>8, BackfillFailsKeeps, DisconnectKeeps
<1>9. CASE Restart
  BY <1>9, RestartKeeps
<1>10. CASE UNCHANGED vars
  <2>1. UNCHANGED <<busVars, clientVars, serverVars, wire, missed, ended, backend,
                    drops>>
    BY <1>10 DEF vars, busVars, clientVars, serverVars
  <2>2. TypeOK' /\ Placed'
    BY <2>1 DEF IInv, TypeOK, Placed, Subscribed, busVars, clientVars, serverVars
  <2>3. Publishing' /\ Numbered' /\ Latest'
    BY <2>1, BusStays DEF IInv
  <2>4. Answered' /\ Noted' /\ InOrderOnce' /\ NoSilentLoss'
    BY <2>1, ClientStays DEF busVars
  <2>5. Streaming'
    <3>1. Coming' = Coming
      BY <2>1 DEF Coming, clientVars, serverVars
    <3>2. client = "connected" /\ handler[socket] # "idle" =>
            \A i \in DOMAIN wire[socket] : ~ wire[socket][i].end
      BY DEF IInv, Streaming
    <3> QED BY <2>1, <3>1, <3>2, StreamStays DEF clientVars, serverVars
  <2> QED BY <2>2, <2>3, <2>4, <2>5 DEF IInv
<1> QED BY <1>1, <1>2, <1>3, <1>4, <1>5, <1>6, <1>7, <1>8, <1>9, <1>10
        DEF Next, Request

(* What every reachable state of bus, handlers and client satisfies: the   *)
(* invariant that the publishes, handlers and callbacks keep.              *)
THEOREM Invariance == Spec => []IInv
BY InitIInv, Inductive, PTL DEF Spec

(* The variables have their types: the ring keeps to its size, and so does *)
(* each subscriber queue.                                                  *)
THEOREM TypeCorrect == Spec => []TypeOK
<1>1. IInv => TypeOK
  BY DEF IInv
<1> QED BY <1>1, Invariance, PTL

(* The client's handlers see every event at most once and in order, through *)
(* reconnects, backfills, replays and restarts of the backend.              *)
THEOREM SeenInOrder == Spec => []InOrderOnce
<1>1. IInv => InOrderOnce
  BY DEF IInv
<1> QED BY <1>1, Invariance, PTL

(* Of the events the client has moved past it saw all that the ring, the   *)
(* queue bound, the window before a subscription or a race did not cost it. *)
THEOREM NothingSilentlyLost == Spec => []NoSilentLoss
<1>1. IInv => NoSilentLoss
  BY DEF IInv
<1> QED BY <1>1, Invariance, PTL
=============================================================================
