----------------------------- MODULE RecordStore -----------------------------
(***************************************************************************)
(* The analysis record of a case (analysis/record_store.py): one           *)
(* append-only file per capture, appended to in batches by the threads of  *)
(* several processes (the server, MCP children, the CLI).  append_many     *)
(* takes the locks of its files, which are locks of its process only,      *)
(* checks every entry against what it read, then writes file after file.   *)
(*                                                                         *)
(* The operating system appends what one write call is given in one piece, *)
(* unless the call fails or the process dies in it: then any part of the   *)
(* text may be there, up to an entry without its newline.                  *)
(***************************************************************************)
EXTENDS Integers, SequencesExt, Lists

CONSTANTS
  Capture,  (* capture ids: numbers, in the order their paths sort in      *)
  Id,       (* entry ids                                                   *)
  Invalid,  (* a capture id that path_for refuses                          *)
  Writer,   (* calls of append_many                                        *)
  ProcessOf,(* ProcessOf[w]: the process of call w                         *)
  Batches,  (* what a call may be given: entries of id, capture, supersedes*)
  None

ASSUME RecordAssumption ==
  /\ Capture \subseteq Nat /\ Invalid \notin Capture
  /\ None \notin Writer \cup Id /\ \A ids \in SUBSET Id : ids # None
  /\ \A b \in Batches :
       b # <<>> /\ b \in Seq([id : Id, capture : Capture \cup {Invalid},
                             supersedes : Id \cup {None}])

VARIABLES
  file,   (* file[c]: the lines of capture c                               *)
  lock,   (* lock[p][c]: the call that holds process p's lock of c         *)
  pc,     (* pc[w]: where call w is, or how it ended                       *)
  batch,  (* batch[w]: the entries w was given                             *)
  at,     (* at[w]: the entry w checks next                                *)
  known,  (* known[w][c]: the ids w read of c, or None                     *)
  left,   (* left[w]: the captures w has still to write, in order          *)
  cut     (* captures in which a write was cut short (history)             *)

vars == <<file, lock, pc, batch, at, known, left, cut>>

Process == {ProcessOf[w] : w \in Writer}
Own(w, c) == lock[ProcessOf[w]][c]
Ended == {"ok", "refused", "failed", "killed"}

(* Lines: an entry, or text that is none; "open" has no newline yet.       *)
Line == [ok : BOOLEAN, open : BOOLEAN, by : Writer \cup {None},
         id : Id \cup {None}, sup : Id \cup {None}]
Entry(w, e) == [ok |-> TRUE, open |-> FALSE, by |-> w, id |-> e.id, sup |-> e.supersedes]
Corrupt(open) == [ok |-> FALSE, open |-> open, by |-> None, id |-> None, sup |-> None]
Readable(f) == \A i \in DOMAIN f : f[i].ok
Ids(f) == {f[i].id : i \in DOMAIN f}

(* _paths_of: up to the first invalid capture id.                          *)
Valid(b) == IF \E i \in DOMAIN b : b[i].capture = Invalid
            THEN SubSeq(b, 1, (CHOOSE i \in DOMAIN b :
                   b[i].capture = Invalid /\ \A j \in 1..i - 1 : b[j].capture # Invalid) - 1)
            ELSE b
PathsOf(b) == {Valid(b)[i].capture : i \in DOMAIN Valid(b)}
(* _grouped: the captures in the order the batch first names them.         *)
Order(b) == Only([i \in DOMAIN b |->
              IF \E j \in 1..i - 1 : b[j].capture = b[i].capture THEN Invalid ELSE b[i].capture],
              Capture)
Group(w, c) == Only(batch[w], {e \in ToSet(batch[w]) : e.capture = c})
Lines(w, c) == [i \in DOMAIN Group(w, c) |-> Entry(w, Group(w, c)[i])]

(* Text appended to an unterminated line runs on in it.                    *)
AppendTo(f, ls) ==
  IF ls # <<>> /\ f # <<>> /\ f[Len(f)].open
  THEN Front(f) \o <<Corrupt(ls[1].open)>> \o Tail(ls)
  ELSE f \o ls
(* What a write that is cut short may leave of the lines.                  *)
Parts(ls) ==
  {SubSeq(ls, 1, n) : n \in 0..Len(ls) - 1}
    \cup {Append(SubSeq(ls, 1, n - 1), Corrupt(TRUE)) : n \in DOMAIN ls}
    \cup {Append(SubSeq(ls, 1, n - 1), [ls[n] EXCEPT !.open = TRUE]) : n \in DOMAIN ls}

Init ==
  /\ file = [c \in Capture |-> <<>>]
  /\ lock = [p \in Process |-> [c \in Capture |-> None]]
  /\ pc = [w \in Writer |-> "idle"]
  /\ batch = [w \in Writer |-> <<>>]
  /\ at = [w \in Writer |-> 1]
  /\ known = [w \in Writer |-> [c \in Capture |-> None]]
  /\ left = [w \in Writer |-> <<>>]
  /\ cut = {}

Goto(w, to) == pc' = [pc EXCEPT ![w] = to]
(* The call returns or raises: the ExitStack releases its locks.           *)
Release(w) ==
  lock' = [lock EXCEPT ![ProcessOf[w]] = [c \in Capture |-> IF @[c] = w THEN None ELSE @[c]]]

Begin(w, b) ==
  /\ pc[w] = "idle"
  /\ batch' = [batch EXCEPT ![w] = b]
  /\ Goto(w, IF PathsOf(b) = {} THEN "refused" ELSE "lock")
  /\ UNCHANGED <<file, lock, at, known, left, cut>>

(* Fault: the locks are taken in the order of the batch.                   *)
AwaitedUnsorted(w) ==
  Head(Only(Order(Valid(batch[w])), {c \in Capture : Own(w, c) # w}))
(* The locks, one after the other, in the order of their paths.            *)
Awaited(w) == Min({c \in PathsOf(batch[w]) : Own(w, c) # w})
(* Fault: the check begins under the first lock.                           *)
LockOne(w) ==
  /\ pc[w] = "lock" /\ Own(w, Awaited(w)) = None
  /\ lock' = [lock EXCEPT ![ProcessOf[w]][Awaited(w)] = w]
  /\ Goto(w, "check")
  /\ UNCHANGED <<file, batch, at, known, left, cut>>
Lock(w) ==
  /\ pc[w] = "lock" /\ Own(w, Awaited(w)) = None
  /\ lock' = [lock EXCEPT ![ProcessOf[w]][Awaited(w)] = w]
  /\ Goto(w, IF \A c \in PathsOf(batch[w]) \ {Awaited(w)} : Own(w, c) = w THEN "check" ELSE "lock")
  /\ UNCHANGED <<file, batch, at, known, left, cut>>

(* Fault: the batch is written after the locks are released.               *)
CheckUnlocks(w) ==
  /\ pc[w] = "check"
  /\ LET b == Valid(batch[w])  e == b[at[w]]  c == e.capture
         ids == IF known[w][c] = None THEN Ids(file[c]) ELSE known[w][c]
         last == at[w] = Len(b)
         sound == e.id \notin ids /\ (e.supersedes # None => e.supersedes \in ids)
     IN /\ at' = [at EXCEPT ![w] = @ + 1]
        /\ known' = [known EXCEPT ![w][c] = ids \cup {e.id}]
        /\ IF ~sound \/ (last /\ b # batch[w])
           THEN Goto(w, "refused") /\ Release(w) /\ UNCHANGED left
           ELSE IF last
           THEN Goto(w, "write") /\ Release(w) /\ left' = [left EXCEPT ![w] = Order(b)]
           ELSE UNCHANGED <<pc, lock, left>>
  /\ UNCHANGED <<file, batch, cut>>
(* The next entry: its file is read the first time it is named, then the   *)
(* entry must be new and its parent there (_check_supersedes).             *)
Check(w) ==
  /\ pc[w] = "check"
  /\ LET b == Valid(batch[w])  e == b[at[w]]  c == e.capture
         fresh == known[w][c] = None
         ids == IF fresh THEN Ids(file[c]) ELSE known[w][c]
         sound == /\ fresh => Readable(file[c])
                  /\ e.id \notin ids
                  /\ e.supersedes # None => e.supersedes \in ids
     IN IF ~sound
        THEN Goto(w, "refused") /\ Release(w) /\ UNCHANGED <<at, known, left>>
        ELSE /\ at' = [at EXCEPT ![w] = @ + 1]
             /\ known' = [known EXCEPT ![w][c] = ids \cup {e.id}]
             /\ IF at[w] < Len(b)
                THEN UNCHANGED <<pc, lock, left>>
                ELSE IF b # batch[w]
                THEN Goto(w, "refused") /\ Release(w) /\ UNCHANGED left
                ELSE /\ Goto(w, "write") /\ UNCHANGED lock
                     /\ left' = [left EXCEPT ![w] = Order(b)]
  /\ UNCHANGED <<file, batch, cut>>

(* _write_lines of the next file.                                          *)
Write(w) ==
  /\ pc[w] = "write"
  /\ LET c == Head(left[w]) IN file' = [file EXCEPT ![c] = AppendTo(@, Lines(w, c))]
  /\ left' = [left EXCEPT ![w] = Tail(@)]
  /\ IF left'[w] = <<>> THEN Goto(w, "ok") /\ Release(w) ELSE UNCHANGED <<pc, lock>>
  /\ UNCHANGED <<batch, at, known, cut>>

CutShort(w) ==
  LET c == Head(left[w]) IN
  /\ \E part \in Parts(Lines(w, c)) : file' = [file EXCEPT ![c] = AppendTo(@, part)]
  /\ cut' = cut \cup {c}
(* The disk is full, or the file cannot be opened.                         *)
WriteFails(w) ==
  /\ pc[w] = "write"
  /\ CutShort(w)
  /\ Goto(w, "failed") /\ Release(w)
  /\ UNCHANGED <<batch, at, known, left>>

(* A process is killed, in at most one write; it may be started again.     *)
Crash(p) ==
  LET busy == {w \in Writer : ProcessOf[w] = p /\ pc[w] \notin Ended \cup {"idle"}} IN
  /\ busy # {}
  /\ pc' = [w \in Writer |-> IF w \in busy THEN "killed" ELSE pc[w]]
  /\ lock' = [lock EXCEPT ![p] = [c \in Capture |-> None]]
  /\ \/ UNCHANGED <<file, cut>>
     \/ \E w \in busy : pc[w] = "write" /\ CutShort(w)
  /\ UNCHANGED <<batch, at, known, left>>

Step(w) == Lock(w) \/ Check(w) \/ Write(w) \/ WriteFails(w)
Next ==
  \/ \E w \in Writer, b \in Batches : Begin(w, b)
  \/ \E w \in Writer : Step(w)
  \/ \E p \in Process : Crash(p)

(* A thread that can go on does, and gets a lock nobody holds.             *)
Fairness == \A w \in Writer : WF_vars(Step(w))

Spec == Init /\ [][Next]_vars /\ Fairness

----------------------------------------------------------------------------
(* Every variable keeps to its type, and a call checks and writes only     *)
(* under the locks of all its files.                                       *)
TypeOK ==
  /\ file \in [Capture -> Seq(Line)]
  /\ \A c \in Capture : \A i \in DOMAIN file[c] :
       file[c][i].ok => file[c][i].by \in Writer /\ file[c][i].id \in Id
  /\ \A p \in Process, c \in Capture : lock[p][c] \in {w \in Writer : ProcessOf[w] = p} \cup {None}
  /\ pc \in [Writer -> {"idle", "lock", "check", "write"} \cup Ended]
  /\ \A w \in Writer : /\ batch[w] \in Batches \cup {<<>>}
                       /\ left[w] \in Seq(Capture)
                       /\ pc[w] \in {"check", "write"} => \A c \in PathsOf(batch[w]) : Own(w, c) = w
                       /\ pc[w] \in Ended \cup {"idle"} => \A c \in Capture : Own(w, c) # w
  /\ cut \subseteq Capture

(* No id is filed twice in a capture by one process (two processes that    *)
(* append the same id at once do file it twice: they share no lock).       *)
IdsUnique ==
  \A c \in Capture : \A i, j \in DOMAIN file[c] :
    i # j /\ file[c][i].ok /\ file[c][j].ok /\ file[c][i].id = file[c][j].id =>
      ProcessOf[file[c][i].by] # ProcessOf[file[c][j].by]
(* An entry supersedes one above it in the file, so that history ends.     *)
ParentsFirst ==
  \A c \in Capture : Readable(file[c]) => \A i \in DOMAIN file[c] :
    file[c][i].sup # None => \E j \in 1..i - 1 : file[c][j].id = file[c][i].sup
(* Of a refused batch nothing is filed, of one that was filed everything,  *)
(* but in a capture where some write was cut short (append_many: "nothing  *)
(* of the batch has been written").                                        *)
WholeBatches ==
  \A w \in Writer :
    /\ pc[w] = "refused" => \A c \in Capture : \A i \in DOMAIN file[c] : file[c][i].by # w
    /\ pc[w] = "ok" => \A c \in PathsOf(batch[w]) \ cut :
         Only(file[c], {l \in ToSet(file[c]) : l.by = w}) = Lines(w, c)
(* What append_many promises of the files, whatever calls run at once.     *)
RecordSound == IdsUnique /\ ParentsFirst /\ WholeBatches

(* Every call ends: calls that share files never wait for each other.      *)
AppendsEnd == \A w \in Writer : pc[w] # "idle" ~> pc[w] \in Ended
=============================================================================
