------------------------ MODULE OracleRegistryProofs ------------------------
(***************************************************************************)
(* Proofs about OracleRegistry, for every number of oracles, requests,     *)
(* configurations and entry objects.                                       *)
(*                                                                         *)
(* IInv is the inductive invariant.  Its conjuncts say what a request may  *)
(* rely on between two of its steps: its locals (LocalsFit); that an id    *)
(* nobody has seen yet is its own (Undrawn, Unregistered); that there is   *)
(* room for what the sweeps of the directory will put (Room); and - unless *)
(* the id is raced - that no sweep meets another request (SweepsRace), so  *)
(* that what a sweep found stays true (PutFits, PruneFits), and so does    *)
(* what an upload (UploadFits) and a delete (DeletesFit, FilesKept) rely   *)
(* on, that all hold the one entry object (OneObject), and that a          *)
(* configuration that was stored is judged, or going to be (Judged).       *)
(***************************************************************************)
EXTENDS OracleRegistry, FiniteSetTheorems, TLAPS

(* Where a request holds an entry object; where it is at a new id.         *)
Holding == {"check", "store", "snapshot", "write", "judge", "sandbox"}
New == {"probe", "register"}

Locals == [pc : {"idle"} \cup Busy \cup Sweep, id : Oracle \cup {None},
           ref : 0..MaxEntries, cfg : Config \cup {None},
           seen : Sidecar \cup Entry \cup Config \cup {None},
           next : {"idle", "judge"}, todo : SUBSET Oracle]

Typed ==
  /\ enabled \in BOOLEAN
  /\ file \in [Oracle -> Digest \cup {None}]
  /\ sidecar \in [Oracle -> Sidecar \cup {None}]
  /\ made \in [Oracle -> 0..MaxEntries]
  /\ live \in [Oracle -> 0..MaxEntries]
  /\ heap \in [Oracle -> [1..MaxEntries -> Entry \cup {None}]]
  /\ req \in [Request -> Locals]

Made ==
  \A o \in Oracle : /\ live[o] <= made[o]
                    /\ \A n \in 1..made[o] : heap[o][n] # None

LocalsFitOf(r) ==
  /\ req[r].pc \in Busy => req[r].id \in Oracle
  /\ IF req[r].pc \in Holding
     THEN req[r].ref \in 1..made[req[r].id] ELSE req[r].ref = 0
  /\ req[r].next = "judge" => req[r].pc \in {"snapshot", "write"}
  /\ req[r].pc \in New \cup {"store"} => req[r].cfg \in Config
  /\ req[r].pc = "write" => req[r].seen \in Sidecar /\ req[r].seen.digest = "stored"
  /\ req[r].pc = "sandbox" => req[r].seen \in Config
  /\ req[r].pc = "put" => /\ req[r].id \in Oracle \ req[r].todo
                          /\ req[r].seen \in Entry
                          /\ req[r].seen.digest = "stored" /\ ~req[r].seen.armed
LocalsFit == \A r \in Request : LocalsFitOf(r)

(* The digests that are kept are those of the uploaded bytes.              *)
SidecarsTrusted ==
  \A o \in Oracle : sidecar[o] # None => sidecar[o].digest = "stored"

(* Of an id that was not drawn there is nothing.                           *)
Undrawn ==
  \A o \in Oracle \ drawn :
    /\ file[o] = None /\ sidecar[o] = None /\ made[o] = 0 /\ o \notin deleted
    /\ \A r \in Request : req[r].id # o /\ o \notin req[r].todo

(* An upload has its id to itself until the entry is in the map; only a    *)
(* prune may know the file.                                                *)
UnregisteredBy(r) ==
  LET o == req[r].id IN
    req[r].pc \in New =>
      /\ made[o] = 0 /\ sidecar[o] = None /\ o \notin deleted
      /\ \A s \in Request : /\ s # r => req[s].id # o
                            /\ req[s].pc \in {"scan", "put"} => o \notin req[s].todo
Unregistered == \A r \in Request : UnregisteredBy(r)

(* The sweeps that may still put an entry object of o.                     *)
Putters(o) ==
  {r \in Request : \/ req[r].pc \in {"scan", "put"} /\ o \in req[r].todo
                   \/ req[r].pc = "put" /\ req[r].id = o}
Room == \A o \in Oracle : made[o] + Cardinality(Putters(o)) <= MaxEntries

SweepsRace == Sweeping # {} => Worked \subseteq raced

PutFits ==
  \A r \in Request :
    LET o == req[r].id IN
      req[r].pc = "put" /\ o \notin raced =>
        file[o] # None /\ sidecar[o] # None /\ o \notin deleted
(* An upload that passed the probe has its file.                           *)
UploadFits ==
  \A r \in Request :
    At(r, "register") /\ req[r].id \notin raced => file[req[r].id] # None

PruneFits ==
  \A r \in Request : \A o \in req[r].todo :
    req[r].pc = "prune" /\ o \notin raced => live[o] = 0 /\ sidecar[o] = None

(* What a delete has done so far.                                          *)
DeletesFit ==
  /\ \A r \in Request :
       LET o == req[r].id IN
         /\ At(r, "unlinkFile") /\ o \notin raced => live[o] = 0
         /\ At(r, "unlinkSidecar") => file[o] = None
         /\ At(r, "unlinkSidecar") /\ o \notin raced => live[o] = 0
  /\ deleted \subseteq Oracle
  /\ \A o \in deleted : file[o] = None

(* A file that left the map is about to be unlinked.                       *)
Unlinking(o) == \E r \in Request : At(r, "unlinkFile") /\ req[r].id = o
FilesKept ==
  /\ ~enabled => \A o \in Oracle : file[o] = None
  /\ \A o \in Oracle :
       file[o] = "stored" /\ live[o] = 0 /\ (made[o] # 0 \/ sidecar[o] # None)
       => Unlinking(o)

OneObject ==
  \A r \in Request :
    LET o == req[r].id IN
      req[r].pc \in Holding /\ o \notin raced /\ live[o] # 0 => req[r].ref = live[o]

(* A configuration in an entry that is armed or being armed was judged, or *)
(* some request is going to judge it, or is at it.                         *)
Judges(r, o) ==
  /\ req[r].id = o
  /\ \/ req[r].pc = "judge" \/ req[r].next = "judge"
     \/ req[r].pc = "sandbox" /\ req[r].seen = heap[o][live[o]].cfg
JudgedOf(o) ==
  /\ live[o] # 0 /\ o \notin raced
  /\ heap[o][live[o]].armed \/ \E r \in Request : Arming(r, o)
  => \/ <<o, live[o], heap[o][live[o]].cfg>> \in passed \cup refused
     \/ \E r \in Request : Judges(r, o)
Judged == \A o \in Oracle : JudgedOf(o)

Base == Typed /\ Made /\ LocalsFit /\ Room /\ Undrawn /\ Unregistered
Races == SweepsRace /\ PutFits /\ UploadFits /\ PruneFits /\ DeletesFit
IInv ==
  /\ Base /\ SidecarsTrusted /\ TrustedBytes /\ ArmedInThisProcess
  /\ Races /\ DeleteIsFinal /\ FilesKept /\ FilesAccountedFor
  /\ OneObject /\ Judged
-----------------------------------------------------------------------------
(* The invariant holds initially.                                          *)
LEMMA InitIInv == Init => IInv
<1> SUFFICES ASSUME Init PROVE IInv
  OBVIOUS
<1> USE OracleAssumption DEF Init, Idle
<1>1. Typed
  <2>1. 0 \in 0..MaxEntries /\ req \in [Request -> Locals]
    BY DEF Locals
  <2> QED BY <2>1 DEF Typed
<1>2. Made /\ LocalsFit /\ Undrawn /\ Unregistered
  BY DEF Made, LocalsFit, LocalsFitOf, Undrawn, Unregistered, UnregisteredBy,
         Busy, Holding, New
<1>3. Room
  <2> SUFFICES ASSUME NEW o \in Oracle
               PROVE  made[o] + Cardinality(Putters(o)) <= MaxEntries
    BY DEF Room
  <2>1. Putters(o) = {}
    BY DEF Putters
  <2> QED BY <2>1, FS_EmptySet
<1>4. SidecarsTrusted /\ TrustedBytes /\ ArmedInThisProcess
  BY DEF SidecarsTrusted, TrustedBytes, ArmedInThisProcess
<1>5. SweepsRace /\ PutFits /\ UploadFits /\ PruneFits /\ DeletesFit /\ DeleteIsFinal
  BY DEF SweepsRace, Sweeping, Sweep, PutFits, UploadFits, PruneFits, DeletesFit,
         At, DeleteIsFinal
<1>6. FilesKept /\ FilesAccountedFor
  BY DEF FilesKept, FilesAccountedFor
<1>7. OneObject /\ Judged
  BY DEF OneObject, Holding, Judged, JudgedOf
<1> QED BY <1>1, <1>2, <1>3, <1>4, <1>5, <1>6, <1>7 DEF IInv, Base, Races

LEMMA IdleFits == Idle \in Locals
BY OracleAssumption DEF Idle, Locals

(* The locals of one request change.                                       *)
LEMMA OneLocals ==
  ASSUME NEW r \in Request, req \in [Request -> Locals], NEW l \in Locals
  PROVE  [req EXCEPT ![r] = l] \in [Request -> Locals]
OBVIOUS

LEMMA LocalsMove ==
  ASSUME NEW r \in Request, req \in [Request -> Locals],
         NEW p \in {"idle"} \cup Busy \cup Sweep
  PROVE  [req EXCEPT ![r].pc = p] \in [Request -> Locals]
<1>1. [req[r] EXCEPT !.pc = p] \in Locals
  BY DEF Locals
<1> QED BY <1>1

(* There is room for what a sweep is about to put.                         *)
LEMMA PutHasRoom ==
  ASSUME Base, NEW r \in Request, At(r, "put")
  PROVE  made[req[r].id] < MaxEntries
<1> DEFINE o == req[r].id
<1>1. o \in Oracle /\ made[o] \in 0..MaxEntries
  BY DEF Base, Typed, LocalsFit, LocalsFitOf, At
<1>2. IsFiniteSet(Putters(o)) /\ r \in Putters(o)
  BY OracleAssumption, FS_Subset DEF Putters, At
<1>3. Cardinality(Putters(o)) \in Nat /\ Cardinality(Putters(o)) # 0
  BY <1>2, FS_CardinalityType, FS_EmptySet
<1>4. made[o] + Cardinality(Putters(o)) <= MaxEntries
  BY <1>1 DEF Base, Room
<1> QED BY <1>1, <1>3, <1>4, OracleAssumption

(* SetArmed changes the one entry object.                                  *)
LEMMA SetArmedHeap ==
  ASSUME heap \in [Oracle -> [1..MaxEntries -> Entry \cup {None}]],
         NEW o \in Oracle, NEW n \in 1..MaxEntries, heap[o][n] \in Entry,
         SetArmed(o, n)
  PROVE  heap' = [heap EXCEPT ![o][n] =
                    [heap[o][n] EXCEPT !.armed = TRUE, !.stamped = TRUE]]
<1> DEFINE h == [heap EXCEPT ![o][n] = [heap[o][n] EXCEPT !.armed = TRUE]]
<1>1. heap' = [h EXCEPT ![o][n] = [h[o][n] EXCEPT !.stamped = TRUE]]
  BY DEF SetArmed
<1>2. h[o][n] = [heap[o][n] EXCEPT !.armed = TRUE]
  OBVIOUS
<1> QED BY <1>1, <1>2

(* Every step keeps the types: what the sweeps put has room.               *)
LEMMA TypedStep ==
  ASSUME Base, Next
  PROVE  Typed'
<1> USE IdleFits, OracleAssumption DEF Base, Typed, Busy, Sweep, At
<1>1. ASSUME NEW r \in Request, Enable(r)
      PROVE  Typed'
  <2>1. req' \in [Request -> Locals]
    BY <1>1 DEF Enable, Idle, Locals
  <2> QED BY <1>1, <2>1 DEF Enable, disk, memory
<1>2. ASSUME NEW r \in Request, Prune(r)
      PROVE  Typed'
  <2>1. req' \in [Request -> Locals]
    BY <1>2 DEF Prune, Idle, Locals
  <2> QED BY <1>2, <2>1 DEF Prune, disk, memory
<1>3. ASSUME NEW r \in Request, NEW o \in Oracle, Delete(r, o)
      PROVE  Typed'
  BY <1>3 DEF Delete, Begin, disk, Idle, Locals
<1>4. ASSUME NEW r \in Request, NEW o \in Oracle, NEW c \in Config,
             Upload(r, o, c)
      PROVE  Typed'
  BY <1>4 DEF Upload, Begin, memory, Idle, Locals, Digest
<1>5. ASSUME NEW r \in Request, NEW o \in Oracle, NEW c \in Config \cup {None},
             Arm(r, o, c)
      PROVE  Typed'
  BY <1>5 DEF Arm, Begin, memory, disk, Idle, Locals
<1>6. ASSUME NEW r \in Request, Probe(r)
      PROVE  Typed'
  <2>1. req' \in [Request -> Locals]
    <3>1. CASE Goto(r, "register")
      BY <3>1, LocalsMove DEF Goto
    <3>2. CASE Done(r)
      BY <3>2 DEF Done
    <3> QED BY <1>6, <3>1, <3>2 DEF Probe
  <2> QED BY <1>6, <2>1 DEF Probe, memory
<1>7. ASSUME NEW r \in Request, Register(r)
      PROVE  Typed'
  <2>1. 1 \in 1..MaxEntries /\ 1 \in 0..MaxEntries /\ req[r].cfg \in Config
    BY <1>7 DEF Register, LocalsFit, LocalsFitOf, New
  <2>2. [req[r] EXCEPT !.pc = "snapshot", !.ref = 1] \in Locals
    BY <2>1 DEF Locals
  <2>3. req' \in [Request -> Locals]
    BY <1>7, <2>2, OneLocals DEF Register
  <2>4. heap' \in [Oracle -> [1..MaxEntries -> Entry \cup {None}]]
    BY <1>7, <2>1 DEF Register, Entry, Digest
  <2> QED BY <1>7, <2>1, <2>3, <2>4 DEF Register, disk
<1>8. ASSUME NEW r \in Request, Snapshot(r)
      PROVE  Typed'
  <2> DEFINE e == heap[req[r].id][req[r].ref]
             s == [digest |-> e.digest, cfg |-> e.cfg, stamped |-> e.stamped]
  <2>1. e \in Entry
    BY <1>8 DEF Snapshot, Made, LocalsFit, LocalsFitOf, Holding, Locals
  <2>2. s \in Sidecar
    BY <2>1 DEF Entry, Sidecar
  <2>3. [req[r] EXCEPT !.pc = "write", !.seen = s] \in Locals
    <3> HIDE DEF s
    <3> QED BY <2>2 DEF Locals
  <2>4. req' = [req EXCEPT ![r] = [req[r] EXCEPT !.pc = "write", !.seen = s]]
    BY <1>8 DEF Snapshot
  <2>5. req' \in [Request -> Locals]
    BY <2>3, <2>4, OneLocals
  <2> QED BY <1>8, <2>5 DEF Snapshot, disk, memory
<1>9. ASSUME NEW r \in Request, Write(r)
      PROVE  Typed'
  <2>1. [req[r] EXCEPT !.pc = req[r].next, !.next = "idle", !.seen = None] \in Locals
    BY DEF Locals
  <2>2. req' \in [Request -> Locals]
    <3>1. CASE req[r].next = "idle"
      BY <1>9, <3>1, OneLocals DEF Write
    <3>2. CASE req[r].next # "idle"
      BY <1>9, <2>1, <3>2, OneLocals DEF Write
    <3> QED BY <3>1, <3>2
  <2>3. req[r].id \in Oracle /\ req[r].seen \in Sidecar
    BY <1>9 DEF Write, LocalsFit, LocalsFitOf
  <2>4. sidecar' \in [Oracle -> Sidecar \cup {None}]
    BY <1>9, <2>3 DEF Write
  <2> QED BY <1>9, <2>2, <2>4 DEF Write, memory
<1>10. ASSUME NEW r \in Request, NEW client \in Digest, Check(r, client)
       PROVE  Typed'
  <2>1. req' \in [Request -> Locals]
    <3>1. CASE Goto(r, "judge")
      BY <3>1, LocalsMove DEF Goto
    <3>2. CASE Goto(r, "store")
      BY <3>2, LocalsMove DEF Goto
    <3>3. CASE Done(r)
      BY <3>3 DEF Done
    <3> QED BY <1>10, <3>1, <3>2, <3>3 DEF Check
  <2> QED BY <1>10, <2>1 DEF Check, disk, memory
<1>11. ASSUME NEW r \in Request, Store(r)
       PROVE  Typed'
  <2> DEFINE o == req[r].id
  <2>1. o \in Oracle /\ req[r].cfg \in Config
    BY <1>11 DEF Store, LocalsFit, LocalsFitOf
  <2>2. [req[r] EXCEPT !.pc = "snapshot", !.next = "judge"] \in Locals
    BY DEF Locals
  <2>3. CASE live[o] = 0
    BY <1>11, <2>3 DEF Store, Done, disk
  <2>4. CASE live[o] # 0
    <3>1. live[o] \in 1..MaxEntries /\ heap[o][live[o]] \in Entry
      BY <2>1, <2>4 DEF Made
    <3>2. [heap[o][live[o]] EXCEPT !.cfg = req[r].cfg] \in Entry
      BY <2>1, <3>1 DEF Entry
    <3>3. heap' \in [Oracle -> [1..MaxEntries -> Entry \cup {None}]]
      <4> HIDE DEF o
      <4>1. heap' = [heap EXCEPT ![o][live[o]] =
                       [heap[o][live[o]] EXCEPT !.cfg = req[r].cfg]]
        BY <1>11, <2>4 DEF Store, o
      <4> QED BY <2>1, <3>1, <3>2, <4>1
    <3>4. req' \in [Request -> Locals]
      BY <1>11, <2>2, <2>4, OneLocals DEF Store
    <3> QED BY <1>11, <3>3, <3>4 DEF Store, disk
  <2> QED BY <2>3, <2>4
<1>12. ASSUME NEW r \in Request, Judge(r)
       PROVE  Typed'
  <2> DEFINE c == heap[req[r].id][req[r].ref].cfg
  <2>1. heap[req[r].id][req[r].ref] \in Entry
    BY <1>12 DEF Judge, Made, LocalsFit, LocalsFitOf, Holding, Locals
  <2>2. c \in Config
    BY <2>1 DEF Entry
  <2>3. [req[r] EXCEPT !.pc = "sandbox", !.seen = c] \in Locals
    <3> HIDE DEF c
    <3> QED BY <2>2 DEF Locals
  <2>4. req' \in [Request -> Locals]
    BY <1>12, <2>3, OneLocals DEF Judge
  <2> QED BY <1>12, <2>4 DEF Judge, disk, memory
<1>13. ASSUME NEW r \in Request, Accept(r)
       PROVE  Typed'
  <2> DEFINE o == req[r].id
             n == req[r].ref
  <2>1. o \in Oracle /\ n \in 1..MaxEntries /\ heap[o][n] \in Entry
    BY <1>13 DEF Accept, Made, LocalsFit, LocalsFitOf, Holding
  <2>2. [heap[o][n] EXCEPT !.armed = TRUE, !.stamped = TRUE] \in Entry
    BY <2>1 DEF Entry
  <2>3. heap' \in [Oracle -> [1..MaxEntries -> Entry \cup {None}]]
    <3> HIDE DEF o, n
    <3>1. heap' = [heap EXCEPT ![o][n] =
                     [heap[o][n] EXCEPT !.armed = TRUE, !.stamped = TRUE]]
      BY <1>13, <2>1, SetArmedHeap DEF Accept, o, n
    <3> QED BY <2>1, <2>2, <3>1
  <2>4. [req[r] EXCEPT !.pc = "snapshot", !.next = "idle", !.seen = None] \in Locals
    BY DEF Locals
  <2>5. req' \in [Request -> Locals]
    BY <1>13, <2>4, OneLocals DEF Accept
  <2> QED BY <1>13, <2>3, <2>5 DEF Accept, disk
<1>14. ASSUME NEW r \in Request, Refuse(r)
       PROVE  Typed'
  BY <1>14 DEF Refuse, Done, disk, memory
<1>15. ASSUME NEW r \in Request, UnlinkFile(r) \/ UnlinkSidecar(r)
       PROVE  Typed'
  <2>1. req' \in [Request -> Locals]
    <3>1. CASE Goto(r, "unlinkSidecar")
      BY <3>1, LocalsMove DEF Goto
    <3>2. CASE Done(r)
      BY <3>2 DEF Done
    <3> QED BY <1>15, <3>1, <3>2 DEF UnlinkFile, UnlinkSidecar
  <2> QED BY <1>15, <2>1 DEF UnlinkFile, UnlinkSidecar, memory
<1>16. ASSUME NEW r \in Request, NEW o \in Oracle, Scan(r, o)
       PROVE  Typed'
  <2>1. [req[r] EXCEPT !.todo = req[r].todo \ {o}] \in Locals
    BY DEF Locals
  <2>2. ASSUME Restorable(o)
        PROVE  [req[r] EXCEPT !.pc = "put", !.id = o, !.seen = Restored(o),
                              !.todo = req[r].todo \ {o}] \in Locals
    <3>1. Restored(o) \in Entry
      BY <2>2 DEF Restorable, Restored, Entry, Sidecar
    <3> QED BY <3>1 DEF Locals
  <2>3. req' \in [Request -> Locals]
    <3>1. CASE Restorable(o)
      <4> DEFINE l == [req[r] EXCEPT !.pc = "put", !.id = o,
                         !.seen = Restored(o), !.todo = req[r].todo \ {o}]
      <4>1. req' = [req EXCEPT ![r] = l]
        BY <1>16, <3>1 DEF Scan
      <4>2. l \in Locals
        BY <2>2, <3>1
      <4> HIDE DEF l
      <4> QED BY <4>1, <4>2, OneLocals
    <3>2. CASE ~Restorable(o)
      <4> DEFINE l == [req[r] EXCEPT !.todo = req[r].todo \ {o}]
      <4>1. req' = [req EXCEPT ![r] = l]
        BY <1>16, <3>2 DEF Scan
      <4> HIDE DEF l
      <4> QED BY <2>1, <4>1, OneLocals DEF l
    <3> QED BY <3>1, <3>2
  <2> QED BY <1>16, <2>3 DEF Scan, disk, memory
<1>17. ASSUME NEW r \in Request, Put(r)
       PROVE  Typed'
  <2> DEFINE o == req[r].id
             n == made[o] + 1
  <2>1. o \in Oracle /\ req[r].seen \in Entry
    BY <1>17 DEF Put, LocalsFit, LocalsFitOf
  <2>2. n \in 1..MaxEntries
    BY <1>17, <2>1, PutHasRoom DEF Put
  <2>3. heap' \in [Oracle -> [1..MaxEntries -> Entry \cup {None}]]
    <3> HIDE DEF o, n
    <3>1. heap' = [heap EXCEPT ![o][n] = req[r].seen]
      BY <1>17 DEF Put, o, n
    <3> QED BY <2>1, <2>2, <3>1
  <2>4. [req[r] EXCEPT !.pc = "scan", !.id = None, !.seen = None] \in Locals
    BY DEF Locals
  <2>5. req' \in [Request -> Locals]
    BY <1>17, <2>4, OneLocals DEF Put
  <2> QED BY <1>17, <2>1, <2>2, <2>3, <2>5 DEF Put, disk
<1>18. ASSUME NEW r \in Request, ScanDone(r)
       PROVE  Typed'
  BY <1>18 DEF ScanDone, Done, disk, memory
<1>19. ASSUME NEW r \in Request, NEW o \in Oracle, PruneOne(r, o)
       PROVE  Typed'
  <2> DEFINE l == [req[r] EXCEPT !.todo = req[r].todo \ {o}]
  <2>1. l \in Locals
    BY DEF Locals
  <2>2. req' \in [Request -> Locals]
    <3>1. CASE req[r].todo = {o}
      BY <1>19, <3>1 DEF PruneOne
    <3>2. CASE req[r].todo # {o}
      <4>1. req' = [req EXCEPT ![r] = l]
        BY <1>19, <3>2 DEF PruneOne
      <4> HIDE DEF l
      <4> QED BY <2>1, <4>1, OneLocals
    <3> QED BY <3>1, <3>2
  <2> QED BY <1>19, <2>2 DEF PruneOne, memory
<1>20. CASE Restart
  <2>1. ASSUME NEW o \in Oracle, Restorable(o)
        PROVE  Restored(o) \in Entry
    BY <2>1 DEF Restorable, Restored, Entry, Sidecar
  <2>2. live' \in [Oracle -> {0, 1}] /\ made' = live'
    BY <1>20 DEF Restart
  <2>3. \A o \in Oracle : live'[o] = 1 => Restorable(o)
    BY <1>20 DEF Restart
  <2>4. heap' \in [Oracle -> [1..MaxEntries -> Entry \cup {None}]]
    BY <1>20, <2>1, <2>2, <2>3 DEF Restart
  <2>5. 0 \in 0..MaxEntries /\ 1 \in 0..MaxEntries
    OBVIOUS
  <2> QED BY <1>20, <2>2, <2>4, <2>5 DEF Restart, disk
<1>21. ASSUME NEW o \in Oracle, Edit(o)
       PROVE  Typed'
  BY <1>21 DEF Edit, memory, Digest
<1> QED
  BY <1>1, <1>2, <1>3, <1>4, <1>5, <1>6, <1>7, <1>8, <1>9, <1>10, <1>11, <1>12,
     <1>13, <1>14, <1>15, <1>16, <1>17, <1>18, <1>19, <1>20, <1>21
  DEF Next, Start, Step
-----------------------------------------------------------------------------
(* A request never unmakes an entry object, and what was made is there.    *)
LEMMA MadeGrows ==
  ASSUME IInv, NEW r \in Request, Start(r) \/ Step(r)
  PROVE  \A o \in Oracle : made[o] <= made'[o]
<1> USE DEF IInv, Base, Typed
<1>1. CASE Register(r)
  <2>1. made[req[r].id] = 0
    BY <1>1 DEF Register, At, Unregistered, UnregisteredBy, New
  <2> QED BY <1>1, <2>1 DEF Register
<1>2. CASE Put(r)
  BY <1>2 DEF Put
<1>3. CASE made' = made
  BY <1>3
<1> QED
  BY <1>1, <1>2, <1>3 DEF Start, Step, Enable, Prune, Delete, Upload, Arm,
     memory, Probe, Snapshot, Write, Check, Store, Judge, Accept, Refuse,
     UnlinkFile, UnlinkSidecar, Scan, PruneOne, ScanDone

(* Only Register and Put make an entry object, only they and Delete change *)
(* the map, and only Store and Accept change an entry object.              *)
LEMMA Unmade ==
  ASSUME NEW r \in Request, Start(r) \/ Step(r), ~Register(r), ~Put(r)
  PROVE  /\ made' = made
         /\ (\A o \in Oracle : ~Delete(r, o)) => live' = live
         /\ ~Store(r) /\ ~Accept(r) => heap' = heap
<1>1. CASE \E o \in Oracle : Delete(r, o)
  BY <1>1 DEF Delete
<1>2. CASE Store(r) \/ Accept(r)
  BY <1>2 DEF Store, Accept
<1>3. CASE UNCHANGED memory
  BY <1>3 DEF memory
<1> QED
  BY <1>1, <1>2, <1>3 DEF Start, Step, Enable, Prune, Upload, Arm,
     Probe, Snapshot, Write, Check, Judge, Refuse,
     UnlinkFile, UnlinkSidecar, Scan, PruneOne, ScanDone

(* The entry object that Store changes is the one the map has.             *)
LEMMA StoreHeap ==
  ASSUME IInv, NEW r \in Request, Store(r), live[req[r].id] # 0
  PROVE  LET o == req[r].id
             e == heap[o][live[o]]
         IN /\ o \in Oracle /\ live[o] \in 1..made[o] /\ req[r].cfg \in Config
            /\ live[o] \in 1..MaxEntries /\ e \in Entry
            /\ [e EXCEPT !.cfg = req[r].cfg] \in Entry
            /\ heap' = [heap EXCEPT ![o][live[o]] = [e EXCEPT !.cfg = req[r].cfg]]
<1> USE DEF IInv, Base, Typed
<1> DEFINE o == req[r].id
           e == heap[o][live[o]]
<1>1. o \in Oracle /\ req[r].cfg \in Config
  BY DEF Store, At, LocalsFit, LocalsFitOf, Busy
<1>2. live[o] \in 1..made[o] /\ live[o] \in 1..MaxEntries
  BY <1>1 DEF Made
<1>3. e \in Entry
  BY <1>1, <1>2 DEF Made
<1>4. [e EXCEPT !.cfg = req[r].cfg] \in Entry
  BY <1>1, <1>3 DEF Entry
<1>5. heap' = [heap EXCEPT ![o][live[o]] = [e EXCEPT !.cfg = req[r].cfg]]
  BY DEF Store
<1> QED BY <1>1, <1>2, <1>3, <1>4, <1>5

(* The one that Accept changes is the one the request holds.               *)
LEMMA AcceptHeap ==
  ASSUME IInv, NEW r \in Request, Accept(r)
  PROVE  LET o == req[r].id
             n == req[r].ref
             e == heap[o][n]
         IN /\ o \in Oracle /\ n \in 1..made[o] /\ req[r].seen \in Config
            /\ n \in 1..MaxEntries /\ e \in Entry
            /\ [e EXCEPT !.armed = TRUE, !.stamped = TRUE] \in Entry
            /\ heap' = [heap EXCEPT ![o][n] =
                           [e EXCEPT !.armed = TRUE, !.stamped = TRUE]]
<1> USE DEF IInv, Base, Typed
<1> DEFINE o == req[r].id
           n == req[r].ref
           e == heap[o][n]
<1>1. o \in Oracle /\ req[r].seen \in Config
  BY DEF Accept, At, LocalsFit, LocalsFitOf, Busy
<1>2. n \in 1..made[o] /\ n \in 1..MaxEntries
  <2>1. n \in 1..made[o]
    BY DEF Accept, At, LocalsFit, LocalsFitOf, Holding
  <2> HIDE DEF o, n
  <2> QED BY <1>1, <2>1, OracleAssumption
<1>3. e \in Entry
  <2>1. e # None
    BY <1>1, <1>2 DEF Made
  <2>2. e \in Entry \cup {None}
    <3> HIDE DEF o, n
    <3> QED BY <1>1, <1>2
  <2> QED BY <2>1, <2>2
<1>4. [e EXCEPT !.armed = TRUE, !.stamped = TRUE] \in Entry
  BY <1>3 DEF Entry
<1>5. heap' = [heap EXCEPT ![o][n] = [e EXCEPT !.armed = TRUE, !.stamped = TRUE]]
  BY <1>1, <1>2, <1>3, SetArmedHeap DEF Accept
<1> QED BY <1>1, <1>2, <1>3, <1>4, <1>5

(* What was made is there, and the map has nothing else.                   *)
LEMMA MadeStep ==
  ASSUME IInv, Next, Typed'
  PROVE  Made'
<1> USE DEF IInv, Base, Typed, Made
<1>1. ASSUME NEW r \in Request, Register(r)
      PROVE  Made'
  <2> DEFINE o == req[r].id
  <2>1. o \in Oracle /\ 1 \in 1..MaxEntries
    BY <1>1, OracleAssumption DEF Register, At, LocalsFit, LocalsFitOf, Busy
  <2>2. made[o] = 0
    BY <1>1 DEF Register, At, Unregistered, UnregisteredBy, New
  <2>3. heap'[o][1] # None
    <3> DEFINE e == [digest |-> "stored", cfg |-> req[r].cfg, stamped |-> FALSE,
                     armed |-> FALSE]
    <3>1. e \in Entry
      BY <1>1 DEF Register, At, LocalsFit, LocalsFitOf, New, Entry, Digest
    <3>2. heap' = [heap EXCEPT ![o][1] = e]
      BY <1>1 DEF Register
    <3> HIDE DEF e, o
    <3> QED BY <2>1, <3>1, <3>2, OracleAssumption
  <2>4. /\ made' = [made EXCEPT ![o] = 1] /\ live' = [live EXCEPT ![o] = 1]
        /\ \A p \in Oracle \ {o} : heap'[p] = heap[p]
    BY <1>1 DEF Register
  <2> HIDE DEF o
  <2> QED BY <2>1, <2>3, <2>4
<1>2. ASSUME NEW r \in Request, Put(r)
      PROVE  Made'
  <2> DEFINE o == req[r].id
             n == made[o] + 1
  <2>1. o \in Oracle /\ req[r].seen \in Entry
    BY <1>2 DEF Put, At, LocalsFit, LocalsFitOf
  <2>2. n \in 1..MaxEntries
    BY <1>2, <2>1, PutHasRoom, OracleAssumption DEF Put
  <2>3. /\ made' = [made EXCEPT ![o] = n] /\ live' = [live EXCEPT ![o] = n]
        /\ heap' = [heap EXCEPT ![o][n] = req[r].seen]
    BY <1>2 DEF Put
  <2>4. n = made[o] + 1
    OBVIOUS
  <2> HIDE DEF o, n
  <2>5. heap'[o][n] # None /\ \A m \in 1..made[o] : heap'[o][m] = heap[o][m]
    BY <2>1, <2>2, <2>3, <2>4, OracleAssumption
  <2>6. \A p \in Oracle \ {o} : heap'[p] = heap[p]
    BY <2>1, <2>3
  <2>7. \A m \in 1..made'[o] : heap'[o][m] # None
    <3>1. made'[o] = n /\ 1..n = 1..made[o] \cup {n}
      BY <2>1, <2>3, <2>4
    <3> QED BY <2>1, <2>5, <3>1
  <2> QED BY <2>1, <2>2, <2>3, <2>4, <2>6, <2>7
<1>3. ASSUME NEW r \in Request, NEW o \in Oracle, Delete(r, o)
      PROVE  Made'
  BY <1>3 DEF Delete
<1>4. ASSUME NEW r \in Request, Store(r)
      PROVE  Made'
  <2>1. CASE live[req[r].id] = 0
    BY <1>4, <2>1 DEF Store
  <2>2. CASE live[req[r].id] # 0
    <3> DEFINE o == req[r].id
               e == [heap[o][live[o]] EXCEPT !.cfg = req[r].cfg]
    <3>1. /\ o \in Oracle /\ live[o] \in 1..MaxEntries /\ e \in Entry
          /\ heap' = [heap EXCEPT ![o][live[o]] = e]
      BY <1>4, <2>2, StoreHeap
    <3>2. live' = live /\ made' = made
      BY <1>4 DEF Store
    <3> HIDE DEF o, e
    <3> QED BY <3>1, <3>2, OracleAssumption
  <2> QED BY <2>1, <2>2
<1>5. ASSUME NEW r \in Request, Accept(r)
      PROVE  Made'
  <2> DEFINE o == req[r].id
             n == req[r].ref
             e == [heap[o][n] EXCEPT !.armed = TRUE, !.stamped = TRUE]
  <2>1. /\ o \in Oracle /\ n \in 1..MaxEntries /\ e \in Entry
        /\ heap' = [heap EXCEPT ![o][n] = e]
    BY <1>5, AcceptHeap
  <2>2. live' = live /\ made' = made
    BY <1>5 DEF Accept
  <2> HIDE DEF o, n, e
  <2> QED BY <2>1, <2>2, OracleAssumption
<1>6. ASSUME NEW r \in Request, Start(r) \/ Step(r), ~Register(r), ~Put(r),
             \A o \in Oracle : ~Delete(r, o), ~Store(r), ~Accept(r)
      PROVE  Made'
  <2>1. made' = made /\ live' = live /\ heap' = heap
    BY <1>6, Unmade
  <2> QED BY <2>1
<1>7. CASE Restart
  <2>1. ASSUME NEW o \in Oracle
        PROVE  live'[o] <= made'[o] /\ \A n \in 1..made'[o] : heap'[o][n] # None
    <3>1. made'[o] \in {0, 1} /\ live'[o] = made'[o]
      BY <1>7 DEF Restart
    <3>2. CASE made'[o] = 0
      BY <3>1, <3>2
    <3>3. CASE made'[o] = 1
      <4>1. Restorable(o)
        BY <1>7, <3>1, <3>3 DEF Restart
      <4>2. heap'[o][1] = Restored(o)
        BY <1>7, <3>1, <3>3, OracleAssumption DEF Restart
      <4>3. Restored(o) \in Entry
        BY <4>1 DEF Restorable, Restored, Entry, Sidecar
      <4> QED BY <3>1, <3>3, <4>2, <4>3, OracleAssumption
    <3> QED BY <3>1, <3>2, <3>3
  <2> QED BY <2>1
<1>8. ASSUME NEW o \in Oracle, Edit(o)
      PROVE  Made'
  BY <1>8 DEF Edit, memory
<1> QED
  BY <1>1, <1>2, <1>3, <1>4, <1>5, <1>6, <1>7, <1>8 DEF Next
-----------------------------------------------------------------------------
(* A request changes its own locals only.                                  *)
LEMMA Others ==
  ASSUME req \in [Request -> Locals], NEW r \in Request, Start(r) \/ Step(r),
         NEW s \in Request, s # r
  PROVE  req'[s] = req[s]
BY DEF Start, Step, Enable, Prune, Delete, Upload, Arm, Begin, Probe, Register,
   Snapshot, Write, Check, Store, Judge, Accept, Refuse, UnlinkFile,
   UnlinkSidecar, Scan, Put, ScanDone, PruneOne, Goto, Done

LEMMA LocalsTyped ==
  ASSUME IInv, NEW r \in Request
  PROVE  req[r] \in Locals
BY DEF IInv, Base, Typed

(* The locals of a request fit what they are about.                        *)
LEMMA LocalsFitStep ==
  ASSUME IInv, Next, Typed', Made'
  PROVE  LocalsFit'
<1> USE OracleAssumption DEF IInv, Base, Typed, LocalsFitOf, At, Busy, New, Holding
<1>1. ASSUME NEW r \in Request, Start(r) \/ Step(r), LocalsFitOf(r)'
      PROVE  LocalsFit'
  <2> SUFFICES ASSUME NEW s \in Request, s # r
               PROVE  LocalsFitOf(s)'
    BY <1>1 DEF LocalsFit
  <2>1. req'[s] = req[s]
    BY <1>1, Others
  <2>2. \A o \in Oracle : made[o] <= made'[o]
    BY <1>1, MadeGrows
  <2>3. LocalsFitOf(s)
    BY DEF LocalsFit
  <2>4. req[s].pc \in Holding => req[s].ref \in 1..made'[req[s].id]
    BY <2>2, <2>3
  <2> QED BY <2>1, <2>3, <2>4
<1>2. ASSUME NEW r \in Request, req'[r] = Idle
      PROVE  LocalsFitOf(r)'
  BY <1>2 DEF Idle
<1>3. ASSUME NEW r \in Request, Start(r)
      PROVE  LocalsFitOf(r)'
  <2>1. CASE Enable(r)
    BY <2>1 DEF Enable, Idle
  <2>2. CASE Prune(r)
    BY <2>2 DEF Prune, Idle
  <2>3. ASSUME NEW o \in Oracle, Delete(r, o)
        PROVE  LocalsFitOf(r)'
    BY <2>3 DEF Delete, Begin, Idle
  <2>4. ASSUME NEW o \in Oracle, NEW c \in Config, Upload(r, o, c)
        PROVE  LocalsFitOf(r)'
    BY <2>4 DEF Upload, Begin, Idle
  <2>5. ASSUME NEW o \in Oracle, NEW c \in Config \cup {None}, Arm(r, o, c)
        PROVE  LocalsFitOf(r)'
    BY <2>5 DEF Arm, Begin, Idle, Made, memory
  <2> QED BY <1>3, <2>1, <2>2, <2>3, <2>4, <2>5 DEF Start
<1>4. ASSUME NEW r \in Request, Probe(r)
      PROVE  LocalsFitOf(r)'
  <2>1. CASE Goto(r, "register")
    <3>1. req'[r] = [req[r] EXCEPT !.pc = "register"] /\ made' = made
      BY <1>4, <2>1 DEF Probe, Goto, memory
    <3> QED BY <1>4, <3>1, LocalsTyped DEF Probe, LocalsFit, Locals
  <2> QED BY <1>2, <1>4, <2>1 DEF Probe, Done
<1>5. ASSUME NEW r \in Request, Register(r)
      PROVE  LocalsFitOf(r)'
  BY <1>5 DEF Register, LocalsFit
<1>6. ASSUME NEW r \in Request, Snapshot(r)
      PROVE  LocalsFitOf(r)'
  <2> DEFINE e == heap[req[r].id][req[r].ref]
             s == [digest |-> e.digest, cfg |-> e.cfg, stamped |-> e.stamped]
  <2>1. /\ req[r].id \in Oracle /\ req[r].ref \in 1..made[req[r].id]
        /\ req[r].next \in {"idle", "judge"}
    BY <1>6 DEF Snapshot, LocalsFit, Locals
  <2>2. e \in Entry /\ e.digest = "stored"
    <3>1. e # None /\ e.digest = "stored"
      BY <2>1 DEF Made, TrustedBytes
    <3> QED BY <2>1, <3>1
  <2>3. s \in Sidecar /\ s.digest = "stored"
    BY <2>2 DEF Entry, Sidecar
  <2>4. req'[r] = [req[r] EXCEPT !.pc = "write", !.seen = s] /\ made' = made
    BY <1>6 DEF Snapshot, memory
  <2> HIDE DEF s
  <2> QED BY <2>1, <2>3, <2>4
<1>7. ASSUME NEW r \in Request, Write(r)
      PROVE  LocalsFitOf(r)'
  <2>1. /\ req[r].id \in Oracle /\ req[r].ref \in 1..made[req[r].id]
        /\ req[r].next \in {"idle", "judge"}
    BY <1>7 DEF Write, LocalsFit, Locals
  <2>2. CASE req[r].next = "idle"
    BY <1>2, <1>7, <2>2 DEF Write
  <2>3. CASE req[r].next = "judge"
    <3>1. /\ req'[r] = [req[r] EXCEPT !.pc = "judge", !.next = "idle", !.seen = None]
          /\ made' = made
      BY <1>7, <2>3 DEF Write, memory
    <3> QED BY <2>1, <3>1
  <2> QED BY <2>1, <2>2, <2>3
<1>8. ASSUME NEW r \in Request, NEW client \in Digest, Check(r, client)
      PROVE  LocalsFitOf(r)'
  <2>1. CASE req'[r] = [req[r] EXCEPT !.pc = "judge"]
    BY <1>8, <2>1, LocalsTyped DEF Check, memory, LocalsFit, Locals
  <2>2. CASE req'[r] = [req[r] EXCEPT !.pc = "store"] /\ req[r].cfg # None
    BY <1>8, <2>2, LocalsTyped DEF Check, memory, LocalsFit, Locals
  <2> QED BY <1>2, <1>8, <2>1, <2>2 DEF Check, Goto, Done
<1>9. ASSUME NEW r \in Request, Store(r)
      PROVE  LocalsFitOf(r)'
  <2>1. CASE live[req[r].id] = 0
    BY <1>2, <1>9, <2>1 DEF Store, Done
  <2>2. CASE live[req[r].id] # 0
    <3>1. /\ req'[r] = [req[r] EXCEPT !.pc = "snapshot", !.next = "judge"]
          /\ made' = made
      BY <1>9, <2>2 DEF Store
    <3> QED BY <1>9, <3>1 DEF Store, LocalsFit
  <2> QED BY <2>1, <2>2
<1>10. ASSUME NEW r \in Request, Judge(r)
      PROVE  LocalsFitOf(r)'
  <2> DEFINE c == heap[req[r].id][req[r].ref].cfg
  <2>1. req[r].id \in Oracle /\ req[r].ref \in 1..made[req[r].id]
    BY <1>10 DEF Judge, LocalsFit
  <2>2. heap[req[r].id][req[r].ref] \in Entry
    <3>1. heap[req[r].id][req[r].ref] # None
      BY <2>1 DEF Made
    <3> QED BY <2>1, <3>1
  <2>3. c \in Config
    BY <2>2 DEF Entry
  <2>4. req'[r] = [req[r] EXCEPT !.pc = "sandbox", !.seen = c] /\ made' = made
    BY <1>10 DEF Judge, memory
  <2> HIDE DEF c
  <2>5. req[r].next # "judge" /\ DOMAIN req[r] = DOMAIN Idle
    BY <1>10, LocalsTyped DEF Judge, LocalsFit, Locals, Idle
  <2> QED BY <2>1, <2>3, <2>4, <2>5 DEF Idle
<1>11. ASSUME NEW r \in Request, Accept(r)
      PROVE  LocalsFitOf(r)'
  BY <1>11 DEF Accept, LocalsFit
<1>12. ASSUME NEW r \in Request, Refuse(r) \/ UnlinkSidecar(r) \/ ScanDone(r)
      PROVE  LocalsFitOf(r)'
  BY <1>2, <1>12 DEF Refuse, UnlinkSidecar, ScanDone, Done
<1>13. ASSUME NEW r \in Request, UnlinkFile(r)
      PROVE  LocalsFitOf(r)'
  <2>1. req'[r] = [req[r] EXCEPT !.pc = "unlinkSidecar"] /\ made' = made
    BY <1>13 DEF UnlinkFile, Goto, memory
  <2> QED BY <1>13, <2>1, LocalsTyped DEF UnlinkFile, LocalsFit, Locals
<1>14. ASSUME NEW r \in Request, NEW o \in Oracle, Scan(r, o)
      PROVE  LocalsFitOf(r)'
  <2>1. CASE ~Restorable(o)
    BY <1>14, <2>1 DEF Scan, memory, LocalsFit
  <2>2. CASE Restorable(o)
    <3>1. Restored(o) \in Entry /\ Restored(o).digest = "stored" /\ ~Restored(o).armed
      BY <2>2 DEF Restorable, Restored, Entry, Sidecar, SidecarsTrusted
    <3>2. /\ req'[r] = [req[r] EXCEPT !.pc = "put", !.id = o,
                           !.seen = Restored(o), !.todo = req[r].todo \ {o}]
          /\ made' = made
      BY <1>14, <2>2 DEF Scan, memory
    <3> QED BY <1>14, <3>1, <3>2 DEF Scan, LocalsFit
  <2> QED BY <2>1, <2>2
<1>15. ASSUME NEW r \in Request, Put(r)
      PROVE  LocalsFitOf(r)'
  <2>1. req'[r] = [req[r] EXCEPT !.pc = "scan", !.id = None, !.seen = None]
    BY <1>15 DEF Put
  <2>2. /\ req[r].next # "judge" /\ req[r].ref = 0
        /\ DOMAIN req[r] = DOMAIN Idle
    BY <1>15, LocalsTyped DEF Put, LocalsFit, Locals, Idle
  <2> QED BY <2>1, <2>2 DEF Idle
<1>16. ASSUME NEW r \in Request, NEW o \in Oracle, PruneOne(r, o)
      PROVE  LocalsFitOf(r)'
  BY <1>2, <1>16 DEF PruneOne, memory, LocalsFit
<1>17. CASE Restart
  BY <1>17 DEF Restart, LocalsFit, Idle
<1>18. ASSUME NEW o \in Oracle, Edit(o)
      PROVE  LocalsFit'
  BY <1>18 DEF Edit, memory, LocalsFit
<1> QED
  BY <1>1, <1>3, <1>4, <1>5, <1>6, <1>7, <1>8, <1>9, <1>10, <1>11, <1>12,
     <1>13, <1>14, <1>15, <1>16, <1>17, <1>18 DEF Next, Step
-----------------------------------------------------------------------------
(* Every digest that is kept is that of the uploaded bytes: a restore      *)
(* compares the file with its sidecar, and both came from an entry.        *)
LEMMA TrustedStep ==
  ASSUME IInv, Next, Typed'
  PROVE  SidecarsTrusted' /\ TrustedBytes'
<1> USE OracleAssumption DEF IInv, Base, Typed, SidecarsTrusted, TrustedBytes
<1>1. ASSUME NEW r \in Request, Start(r) \/ Step(r)
      PROVE  SidecarsTrusted'
  <2>1. CASE Write(r)
    <3>1. req[r].id \in Oracle /\ req[r].seen.digest = "stored"
      BY <2>1 DEF Write, At, LocalsFit, LocalsFitOf, Busy
    <3> QED BY <2>1, <3>1 DEF Write
  <2>2. CASE UnlinkSidecar(r)
    BY <2>2 DEF UnlinkSidecar, At, LocalsFit, LocalsFitOf, Busy
  <2>3. CASE sidecar' = sidecar
    BY <2>3
  <2> QED
    BY <1>1, <2>1, <2>2, <2>3 DEF Start, Step, Enable, Prune, Delete, Upload,
       Arm, disk, Probe, Register, Snapshot, Check, Store, Judge, Accept,
       Refuse, UnlinkFile, Scan, PruneOne, Put, ScanDone
<1>2. ASSUME NEW r \in Request, Register(r)
      PROVE  TrustedBytes'
  <2>1. req[r].id \in Oracle /\ 1 \in 1..MaxEntries
    BY <1>2 DEF Register, At, LocalsFit, LocalsFitOf, Busy
  <2>2. made'[req[r].id] = 1
    BY <1>2, <2>1 DEF Register
  <2>3. heap'[req[r].id][1].digest = "stored"
    BY <1>2, <2>1 DEF Register
  <2>4. \A n \in 1..made'[req[r].id] : n = 1
    BY <2>2
  <2>5. \A o \in Oracle \ {req[r].id} : heap'[o] = heap[o] /\ made'[o] = made[o]
    BY <1>2, <2>1 DEF Register
  <2> SUFFICES ASSUME NEW o \in Oracle, NEW n \in 1..made'[o]
               PROVE  heap'[o][n].digest = "stored"
    BY <1>1, <1>2
  <2>6. CASE o = req[r].id
    BY <2>3, <2>4, <2>6
  <2>7. CASE o # req[r].id
    BY <2>5, <2>7
  <2> QED BY <2>6, <2>7
<1>3. ASSUME NEW r \in Request, Put(r)
      PROVE  TrustedBytes'
  <2> DEFINE o == req[r].id
             n == made[o] + 1
  <2>1. o \in Oracle /\ req[r].seen.digest = "stored" /\ n \in 1..MaxEntries
    BY <1>3, PutHasRoom DEF Put, At, LocalsFit, LocalsFitOf, Busy
  <2>2. /\ made'[o] = n /\ 1..n = 1..made[o] \cup {n}
        /\ \A p \in Oracle \ {o} : heap'[p] = heap[p] /\ made'[p] = made[p]
    BY <1>3, <2>1 DEF Put
  <2>3. heap' = [heap EXCEPT ![o][n] = req[r].seen]
    BY <1>3 DEF Put
  <2> HIDE DEF o, n
  <2>4. heap'[o][n].digest = "stored"
    BY <2>1, <2>3
  <2>5. \A m \in 1..made[o] : m # n => heap'[o][m] = heap[o][m]
    BY <2>1, <2>3
  <2>6. \A m \in 1..n : heap'[o][m].digest = "stored"
    <3> SUFFICES ASSUME NEW m \in 1..n
                 PROVE  heap'[o][m].digest = "stored"
      OBVIOUS
    <3>1. CASE m = n
      BY <2>4, <3>1
    <3>2. CASE m # n
      <4>1. m \in 1..made[o]
        BY <2>2, <3>2
      <4>2. heap'[o][m] = heap[o][m]
        BY <2>5, <3>2, <4>1
      <4> QED BY <2>1, <4>1, <4>2
    <3> QED BY <3>1, <3>2
  <2> SUFFICES ASSUME NEW p \in Oracle, NEW m \in 1..made'[p]
               PROVE  heap'[p][m].digest = "stored"
    BY <1>1, <1>3
  <2>7. CASE p = o
    BY <2>2, <2>6, <2>7
  <2>8. CASE p # o
    BY <2>2, <2>8
  <2> QED BY <2>7, <2>8
<1>4. ASSUME NEW r \in Request, Store(r), live[req[r].id] # 0
      PROVE  TrustedBytes'
  <2> DEFINE o == req[r].id
             e == heap[o][live[o]]
             f == [e EXCEPT !.cfg = req[r].cfg]
  <2>1. /\ o \in Oracle /\ live[o] \in 1..made[o] /\ e \in Entry
        /\ live[o] \in 1..MaxEntries
        /\ heap' = [heap EXCEPT ![o][live[o]] = f]
    BY <1>4, StoreHeap
  <2>2. e.digest = "stored" /\ made' = made
    BY <1>4, <2>1 DEF Store
  <2>3. f.digest = "stored"
    BY <2>1, <2>2 DEF Entry
  <2> HIDE DEF o, f
  <2> QED BY <2>1, <2>2, <2>3
<1>5. ASSUME NEW r \in Request, Accept(r)
      PROVE  TrustedBytes'
  <2> DEFINE o == req[r].id
             n == req[r].ref
             e == heap[o][n]
             f == [e EXCEPT !.armed = TRUE, !.stamped = TRUE]
  <2>1. /\ o \in Oracle /\ n \in 1..made[o] /\ e \in Entry
        /\ n \in 1..MaxEntries
        /\ heap' = [heap EXCEPT ![o][n] = f]
    BY <1>5, AcceptHeap
  <2>2. e.digest = "stored" /\ made' = made
    BY <1>5, <2>1 DEF Accept
  <2>3. f.digest = "stored"
    BY <2>1, <2>2 DEF Entry
  <2> HIDE DEF o, n, f
  <2> QED BY <2>1, <2>2, <2>3
<1>6. ASSUME NEW r \in Request, Start(r) \/ Step(r), ~Register(r), ~Put(r),
             ~Accept(r), ~Store(r) \/ live[req[r].id] = 0
      PROVE  TrustedBytes'
  <2>1. made' = made /\ heap' = heap
    BY <1>6, Unmade DEF Store
  <2> QED BY <2>1
<1>7. CASE Restart
  <2>1. SidecarsTrusted'
    BY <1>7 DEF Restart, disk
  <2>2. ASSUME NEW o \in Oracle, NEW n \in 1..made'[o]
        PROVE  heap'[o][n].digest = "stored"
    <3>1. made'[o] \in {0, 1} /\ live'[o] = made'[o]
      BY <1>7 DEF Restart
    <3>2. n = 1 /\ n = live'[o] /\ n \in 1..MaxEntries
      BY <3>1
    <3>3. Restorable(o) /\ heap'[o][n] = Restored(o)
      BY <1>7, <3>1, <3>2 DEF Restart
    <3> QED BY <3>3 DEF Restorable, Restored
  <2> QED BY <2>1, <2>2
<1>8. ASSUME NEW o \in Oracle, Edit(o)
      PROVE  SidecarsTrusted' /\ TrustedBytes'
  BY <1>8 DEF Edit, memory
<1> QED
  BY <1>1, <1>2, <1>3, <1>4, <1>5, <1>6, <1>7, <1>8 DEF Next

(* An armed entry object was accepted: only Accept arms one.               *)
LEMMA ArmedStep ==
  ASSUME IInv, Next, Typed'
  PROVE  ArmedInThisProcess'
<1> USE OracleAssumption DEF IInv, Base, Typed, ArmedInThisProcess
<1>1. ASSUME NEW r \in Request, Register(r)
      PROVE  ArmedInThisProcess'
  <2>1. req[r].id \in Oracle /\ 1 \in 1..MaxEntries
    BY <1>1 DEF Register, At, LocalsFit, LocalsFitOf, Busy
  <2>2. made'[req[r].id] = 1 /\ passed' = passed
    BY <1>1, <2>1 DEF Register, history
  <2>3. ~heap'[req[r].id][1].armed
    BY <1>1, <2>1 DEF Register
  <2>4. \A n \in 1..made'[req[r].id] : n = 1
    BY <2>2
  <2>5. \A o \in Oracle \ {req[r].id} : heap'[o] = heap[o] /\ made'[o] = made[o]
    BY <1>1, <2>1 DEF Register
  <2> QED BY <2>2, <2>3, <2>4, <2>5
<1>2. ASSUME NEW r \in Request, Put(r)
      PROVE  ArmedInThisProcess'
  <2> DEFINE o == req[r].id
             n == made[o] + 1
  <2>1. o \in Oracle /\ ~req[r].seen.armed /\ n \in 1..MaxEntries
    BY <1>2, PutHasRoom DEF Put, At, LocalsFit, LocalsFitOf, Busy
  <2>2. /\ made'[o] = n /\ 1..n = 1..made[o] \cup {n} /\ passed' = passed
        /\ \A p \in Oracle \ {o} : heap'[p] = heap[p] /\ made'[p] = made[p]
    BY <1>2, <2>1 DEF Put, history
  <2>3. heap' = [heap EXCEPT ![o][n] = req[r].seen]
    BY <1>2 DEF Put
  <2>4. n \notin 1..made[o]
    BY <2>1
  <2> HIDE DEF o, n
  <2>5. ~heap'[o][n].armed /\ \A m \in 1..made[o] : heap'[o][m] = heap[o][m]
    BY <2>1, <2>2, <2>3, <2>4
  <2>6. \A m \in 1..n : heap'[o][m].armed => \E c \in Config : <<o, m, c>> \in passed
    BY <2>1, <2>2, <2>5
  <2> QED BY <2>2, <2>6
<1>3. ASSUME NEW r \in Request, Store(r), live[req[r].id] # 0
      PROVE  ArmedInThisProcess'
  <2> DEFINE o == req[r].id
             e == heap[o][live[o]]
             f == [e EXCEPT !.cfg = req[r].cfg]
  <2>1. /\ o \in Oracle /\ live[o] \in 1..made[o] /\ e \in Entry
        /\ live[o] \in 1..MaxEntries
        /\ heap' = [heap EXCEPT ![o][live[o]] = f]
    BY <1>3, StoreHeap
  <2>2. made' = made /\ passed' = passed
    BY <1>3 DEF Store, history
  <2>3. f.armed = e.armed
    BY <2>1 DEF Entry
  <2> HIDE DEF o, f
  <2>4. \A p \in Oracle : \A m \in 1..made[p] :
          heap'[p][m].armed = heap[p][m].armed
    BY <2>1, <2>3
  <2> QED BY <2>2, <2>4
<1>4. ASSUME NEW r \in Request, Accept(r)
      PROVE  ArmedInThisProcess'
  <2> DEFINE o == req[r].id
             n == req[r].ref
             f == [heap[o][n] EXCEPT !.armed = TRUE, !.stamped = TRUE]
  <2>1. /\ o \in Oracle /\ n \in 1..made[o] /\ req[r].seen \in Config
        /\ n \in 1..MaxEntries
        /\ heap' = [heap EXCEPT ![o][n] = f]
    BY <1>4, AcceptHeap
  <2>2. made' = made /\ passed' = passed \cup {<<o, n, req[r].seen>>}
    BY <1>4 DEF Accept
  <2> HIDE DEF o, n, f
  <2>3. \A p \in Oracle : \A m \in 1..made[p] :
          p # o \/ m # n => heap'[p][m] = heap[p][m]
    BY <2>1
  <2> QED BY <2>1, <2>2, <2>3
<1>5. ASSUME NEW r \in Request, Start(r) \/ Step(r), ~Register(r), ~Put(r),
             ~Accept(r), ~Store(r) \/ live[req[r].id] = 0
      PROVE  ArmedInThisProcess'
  <2>1. made' = made /\ heap' = heap
    BY <1>5, Unmade DEF Store
  <2>2. passed' = passed
    BY <1>5 DEF Start, Step, Enable, Prune, Delete, Upload, Arm, Probe,
       Snapshot, Write, Check, Store, Judge, Refuse, UnlinkFile,
       UnlinkSidecar, Scan, PruneOne, ScanDone, history
  <2> QED BY <2>1, <2>2
<1>6. CASE Restart
  <2> SUFFICES ASSUME NEW o \in Oracle, NEW n \in 1..made'[o]
               PROVE  ~heap'[o][n].armed
    BY <1>6
  <2>1. made'[o] \in {0, 1} /\ live'[o] = made'[o]
    BY <1>6 DEF Restart
  <2>2. n = 1 /\ n = live'[o] /\ n \in 1..MaxEntries
    BY <2>1
  <2>3. heap'[o][n] = Restored(o)
    BY <1>6, <2>1, <2>2 DEF Restart
  <2> QED BY <2>3 DEF Restored
<1>7. ASSUME NEW o \in Oracle, Edit(o)
      PROVE  ArmedInThisProcess'
  BY <1>7 DEF Edit, memory, history
<1> QED
  BY <1>1, <1>2, <1>3, <1>4, <1>5, <1>6, <1>7 DEF Next
-----------------------------------------------------------------------------
(* A record of locals has these fields.                                    *)
LEMMA Fields ==
  ASSUME IInv, NEW r \in Request
  PROVE  DOMAIN req[r] = {"pc", "id", "ref", "cfg", "seen", "next", "todo"}
BY DEF IInv, Base, Typed, Locals

(* A request for the oracle o begins.                                      *)
StartsOn(r, o) ==
  \/ Delete(r, o)
  \/ \E c \in Config : Upload(r, o, c)
  \/ \E c \in Config \cup {None} : Arm(r, o, c)

LEMMA StartsIdle ==
  ASSUME IInv, NEW r \in Request, NEW o \in Oracle, StartsOn(r, o)
  PROVE  /\ At(r, "idle") /\ req'[r].id = o /\ req'[r].todo = {}
         /\ req'[r].next = "idle" /\ req'[r].ref = IF req'[r].pc = "check" THEN live[o] ELSE 0
         /\ \/ req'[r].pc = "unlinkFile" /\ Delete(r, o)
            \/ req'[r].pc = "probe" /\ \E c \in Config : Upload(r, o, c)
            \/ /\ req'[r].pc = "check" /\ live[o] # 0
               /\ \E c \in Config \cup {None} : Arm(r, o, c)
<1> USE OracleAssumption DEF IInv, Base, Typed, Idle, Begin
<1>1. CASE Delete(r, o)
  BY <1>1 DEF Delete
<1>2. ASSUME NEW c \in Config, Upload(r, o, c)
      PROVE  /\ At(r, "idle") /\ req'[r].id = o /\ req'[r].todo = {}
             /\ req'[r].next = "idle" /\ req'[r].ref = 0 /\ req'[r].pc = "probe"
  BY <1>2 DEF Upload
<1>3. ASSUME NEW c \in Config \cup {None}, Arm(r, o, c)
      PROVE  /\ At(r, "idle") /\ req'[r].id = o /\ req'[r].todo = {}
             /\ req'[r].next = "idle" /\ req'[r].ref = live[o]
             /\ req'[r].pc = "check" /\ live[o] # 0
  BY <1>3 DEF Arm
<1> QED BY <1>1, <1>2, <1>3 DEF StartsOn

(* A step of a request starts on an oracle, or sweeps, or is the next one  *)
(* for its oracle.                                                         *)
LEMMA StepKinds ==
  ASSUME NEW r \in Request, Start(r) \/ Step(r)
  PROVE  \/ \E o \in Oracle : StartsOn(r, o) \/ Scan(r, o) \/ PruneOne(r, o)
         \/ Enable(r) \/ Prune(r) \/ Put(r) \/ ScanDone(r)
         \/ Probe(r) \/ Register(r) \/ Snapshot(r) \/ Write(r)
         \/ \E client \in Digest : Check(r, client)
         \/ Store(r) \/ Judge(r) \/ Accept(r) \/ Refuse(r)
         \/ UnlinkFile(r) \/ UnlinkSidecar(r)
BY Zenon DEF Start, Step, StartsOn

(* A request goes on with its oracle and its entry object, or ends.        *)
Goes(r, p, q, next) ==
  /\ req[r].pc = p /\ req'[r].pc = q /\ req'[r].next = next
  /\ req'[r].id = req[r].id /\ req'[r].ref = req[r].ref
  /\ req'[r].todo = req[r].todo
Ends(r, p) == req[r].pc = p /\ req'[r] = Idle

(* Where each step takes a request.                                        *)
LEMMA EnableMoves ==
  ASSUME IInv, NEW r \in Request, Enable(r)
  PROVE  /\ req[r].pc = "idle"
         /\ req'[r].pc = "scan" /\ req'[r].id = None /\ req'[r].ref = 0
         /\ req'[r].next = "idle"
         /\ req'[r].todo = {o \in Oracle : sidecar[o] # None}
BY Fields, OracleAssumption
DEF Idle, IInv, Base, Typed, At, Done, Goto, Goes, Ends, Enable

LEMMA PruneMoves ==
  ASSUME IInv, NEW r \in Request, Prune(r)
  PROVE  /\ req[r].pc = "idle"
         /\ req'[r].pc = "prune" /\ req'[r].id = None /\ req'[r].ref = 0
         /\ req'[r].next = "idle"
         /\ req'[r].todo = {o \in Oracle : Orphan(o)}
BY Fields, OracleAssumption
DEF Idle, IInv, Base, Typed, At, Done, Goto, Goes, Ends, Prune

LEMMA ScanMoves ==
  ASSUME IInv, NEW r \in Request, NEW o \in Oracle, Scan(r, o)
  PROVE  /\ req[r].pc = "scan" /\ o \in req[r].todo
         /\ req'[r].todo = req[r].todo \ {o}
         /\ req'[r].ref = req[r].ref /\ req'[r].next = req[r].next
         /\ \/ /\ Restorable(o) /\ req'[r].pc = "put" /\ req'[r].id = o
               /\ req'[r].seen = Restored(o)
            \/ req'[r].pc = "scan" /\ req'[r].id = req[r].id
<1> USE Fields, OracleAssumption DEF IInv, Base, Typed, At
<1>1. CASE Restorable(o)
  BY <1>1 DEF Scan
<1>2. CASE ~Restorable(o)
  BY <1>2 DEF Scan
<1> QED BY <1>1, <1>2

LEMMA PutMoves ==
  ASSUME IInv, NEW r \in Request, Put(r)
  PROVE  /\ req[r].pc = "put" /\ req'[r].pc = "scan"
         /\ req'[r].id = None /\ req'[r].todo = req[r].todo
         /\ req'[r].ref = req[r].ref /\ req'[r].next = req[r].next
BY Fields, OracleAssumption
DEF IInv, Base, Typed, At, Done, Goto, Goes, Ends, Put

LEMMA ScanDoneMoves ==
  ASSUME IInv, NEW r \in Request, ScanDone(r)
  PROVE  Ends(r, "scan")
BY Fields, OracleAssumption
DEF IInv, Base, Typed, At, Done, Goto, Goes, Ends, ScanDone

LEMMA PruneOneMoves ==
  ASSUME IInv, NEW r \in Request, NEW o \in Oracle, PruneOne(r, o)
  PROVE  /\ req[r].pc = "prune" /\ o \in req[r].todo
         /\ \/ req'[r] = Idle
            \/ /\ req'[r].pc = "prune" /\ req'[r].id = req[r].id
               /\ req'[r].todo = req[r].todo \ {o}
               /\ req'[r].ref = req[r].ref /\ req'[r].next = req[r].next
BY Fields, OracleAssumption
DEF IInv, Base, Typed, At, Done, Goto, Goes, Ends, PruneOne

LEMMA ProbeMoves ==
  ASSUME IInv, NEW r \in Request, Probe(r)
  PROVE  Goes(r, "probe", "register", req[r].next) \/ Ends(r, "probe")
BY Fields, OracleAssumption
DEF IInv, Base, Typed, At, Done, Goto, Goes, Ends, Probe

LEMMA RegisterMoves ==
  ASSUME IInv, NEW r \in Request, Register(r)
  PROVE  /\ req[r].pc = "register" /\ req'[r].pc = "snapshot"
         /\ req'[r].id = req[r].id /\ req'[r].ref = 1
         /\ req'[r].todo = req[r].todo /\ req'[r].next = req[r].next
BY Fields, OracleAssumption
DEF IInv, Base, Typed, At, Done, Goto, Goes, Ends, Register

LEMMA SnapshotMoves ==
  ASSUME IInv, NEW r \in Request, Snapshot(r)
  PROVE  Goes(r, "snapshot", "write", req[r].next)
BY Fields, OracleAssumption
DEF IInv, Base, Typed, At, Done, Goto, Goes, Ends, Snapshot

LEMMA WriteMoves ==
  ASSUME IInv, NEW r \in Request, Write(r)
  PROVE  \/ req[r].next = "idle" /\ Ends(r, "write")
         \/ req[r].next = "judge" /\ Goes(r, "write", "judge", "idle")
<1> USE Fields, OracleAssumption DEF IInv, Base, Typed, At, Goes, Ends
<1>1. req[r].next \in {"idle", "judge"}
  BY DEF Locals
<1>2. CASE req[r].next = "idle"
  BY <1>2 DEF Write
<1>3. CASE req[r].next = "judge"
  BY <1>3 DEF Write
<1> QED BY <1>1, <1>2, <1>3

LEMMA CheckMoves ==
  ASSUME IInv, NEW r \in Request, NEW client \in Digest, Check(r, client)
  PROVE  \/ Goes(r, "check", "judge", req[r].next)
         \/ Goes(r, "check", "store", req[r].next)
         \/ Ends(r, "check")
BY Fields, OracleAssumption
DEF IInv, Base, Typed, At, Done, Goto, Goes, Ends, Check

LEMMA StoreMoves ==
  ASSUME IInv, NEW r \in Request, Store(r)
  PROVE  \/ live[req[r].id] = 0 /\ Ends(r, "store")
         \/ live[req[r].id] # 0 /\ Goes(r, "store", "snapshot", "judge")
BY Fields, OracleAssumption
DEF IInv, Base, Typed, At, Done, Goto, Goes, Ends, Store

LEMMA JudgeMoves ==
  ASSUME IInv, NEW r \in Request, Judge(r)
  PROVE  /\ Goes(r, "judge", "sandbox", req[r].next)
         /\ req'[r].seen = heap[req[r].id][req[r].ref].cfg
BY Fields, OracleAssumption
DEF IInv, Base, Typed, At, Done, Goto, Goes, Ends, Judge

LEMMA AcceptMoves ==
  ASSUME IInv, NEW r \in Request, Accept(r)
  PROVE  Goes(r, "sandbox", "snapshot", "idle")
BY Fields, OracleAssumption
DEF IInv, Base, Typed, At, Done, Goto, Goes, Ends, Accept

LEMMA RefuseMoves ==
  ASSUME IInv, NEW r \in Request, Refuse(r)
  PROVE  Ends(r, "sandbox")
BY Fields, OracleAssumption
DEF IInv, Base, Typed, At, Done, Goto, Goes, Ends, Refuse

LEMMA UnlinkFileMoves ==
  ASSUME IInv, NEW r \in Request, UnlinkFile(r)
  PROVE  Goes(r, "unlinkFile", "unlinkSidecar", req[r].next)
BY Fields, OracleAssumption
DEF IInv, Base, Typed, At, Done, Goto, Goes, Ends, UnlinkFile

LEMMA UnlinkSidecarMoves ==
  ASSUME IInv, NEW r \in Request, UnlinkSidecar(r)
  PROVE  Ends(r, "unlinkSidecar")
BY Fields, OracleAssumption
DEF IInv, Base, Typed, At, Done, Goto, Goes, Ends, UnlinkSidecar

(* The steps that take a request for an oracle from one place to another.  *)
Edges == {<<"probe", "register">>, <<"snapshot", "write">>,
          <<"write", "judge">>, <<"check", "judge">>, <<"check", "store">>,
          <<"store", "snapshot">>, <<"judge", "sandbox">>,
          <<"sandbox", "snapshot">>, <<"unlinkFile", "unlinkSidecar">>}

LEMMA Control ==
  ASSUME IInv, NEW r \in Request, Start(r) \/ Step(r)
  PROVE  \/ \E o \in Oracle : StartsOn(r, o) \/ Scan(r, o) \/ PruneOne(r, o)
         \/ Enable(r) \/ Prune(r) \/ Put(r) \/ Register(r)
         \/ Ends(r, req[r].pc) /\ req[r].pc \in Busy \cup {"scan"}
         \/ \E e \in Edges : \E next \in {"idle", "judge", req[r].next} :
              Goes(r, e[1], e[2], next)
<1> DEFINE G == \E e \in Edges : \E next \in {"idle", "judge", req[r].next} :
                  Goes(r, e[1], e[2], next)
           E == Ends(r, req[r].pc) /\ req[r].pc \in Busy \cup {"scan"}
<1>1. ASSUME NEW p, NEW q, <<p, q>> \in Edges,
             NEW next \in {"idle", "judge", req[r].next}, Goes(r, p, q, next)
      PROVE  G
  <2>1. <<p, q>>[1] = p /\ <<p, q>>[2] = q
    OBVIOUS
  <2> QED BY <1>1, <2>1
<1> HIDE DEF G
<1>2. ASSUME NEW p \in Busy \cup {"scan"}, Ends(r, p)
      PROVE  E
  BY <1>2 DEF Ends
<1> HIDE DEF E
<1>3. Probe(r) \/ Snapshot(r) \/ Write(r) => E \/ G
  BY <1>1, <1>2, ProbeMoves, SnapshotMoves, WriteMoves DEF Edges, Busy
<1>4. \A client \in Digest : Check(r, client) => E \/ G
  BY <1>1, <1>2, CheckMoves DEF Edges, Busy
<1>5. Store(r) \/ Judge(r) \/ Accept(r) => E \/ G
  BY <1>1, <1>2, StoreMoves, JudgeMoves, AcceptMoves DEF Edges, Busy
<1>6. Refuse(r) \/ UnlinkFile(r) \/ UnlinkSidecar(r) \/ ScanDone(r) => E \/ G
  BY <1>1, <1>2, RefuseMoves, UnlinkFileMoves, UnlinkSidecarMoves, ScanDoneMoves
  DEF Edges, Busy
<1> QED BY <1>3, <1>4, <1>5, <1>6, StepKinds DEF G, E

(* The id a request works on after its step: the one it had, or none, or   *)
(* one that it starts on.  Only a sweep that begins finds more to do.      *)
IdMoves(r) ==
  /\ \/ req'[r].id = req[r].id
     \/ req'[r].id = None
     \/ \E o \in Oracle : req'[r].id = o /\ (StartsOn(r, o) \/ Scan(r, o))
  /\ Enable(r) \/ Prune(r) \/ req'[r].todo \subseteq req[r].todo

LEMMA NewId ==
  ASSUME IInv, NEW r \in Request, Start(r) \/ Step(r)
  PROVE  IdMoves(r)
<1> USE DEF IdMoves
<1>1. ASSUME NEW o \in Oracle, StartsOn(r, o) \/ Scan(r, o) \/ PruneOne(r, o)
      PROVE  IdMoves(r)
  BY <1>1, StartsIdle, ScanMoves, PruneOneMoves DEF Idle
<1>2. CASE Enable(r) \/ Prune(r)
  BY <1>2, EnableMoves, PruneMoves
<1>3. CASE Put(r) \/ Register(r)
  BY <1>3, PutMoves, RegisterMoves
<1>4. CASE Ends(r, req[r].pc)
  BY <1>4 DEF Ends, Idle
<1>5. ASSUME NEW p, NEW q, NEW next, Goes(r, p, q, next)
      PROVE  IdMoves(r)
  BY <1>5 DEF Goes
<1> HIDE DEF IdMoves
<1> QED BY <1>1, <1>2, <1>3, <1>4, <1>5, Control

(* What a request is at after its step, by what it was at before.          *)
PcMoves(r) ==
  /\ req'[r].pc \in New =>
       \/ \E o \in Oracle : StartsOn(r, o)
       \/ req[r].pc \in New /\ req'[r].id = req[r].id
  /\ req'[r].pc \in {"scan", "put"} =>
       Enable(r) \/ req[r].pc \in {"scan", "put"}
  /\ req'[r].pc = "put" => \E o \in Oracle : Scan(r, o)
  /\ req'[r].pc = "prune" => Prune(r) \/ req[r].pc = "prune"
  /\ req'[r].pc = "unlinkFile" => \E o \in Oracle : StartsOn(r, o)
  /\ req'[r].pc = "unlinkSidecar" =>
       req[r].pc = "unlinkFile" /\ req'[r].id = req[r].id
  /\ req'[r].pc \in Busy =>
       \/ \E o \in Oracle : StartsOn(r, o)
       \/ req[r].pc \in Busy /\ req'[r].id = req[r].id
  /\ req'[r].pc \in Holding =>
       \/ Register(r) \/ \E o \in Oracle : StartsOn(r, o)
       \/ /\ req[r].pc \in Holding
          /\ req'[r].id = req[r].id /\ req'[r].ref = req[r].ref
  /\ req'[r].pc = "sandbox" => req[r].pc = "judge"

LEMMA NewPc ==
  ASSUME IInv, NEW r \in Request, Start(r) \/ Step(r)
  PROVE  PcMoves(r)
<1> USE DEF New, Busy, Holding, PcMoves
<1>1. ASSUME NEW o \in Oracle, StartsOn(r, o) \/ Scan(r, o) \/ PruneOne(r, o)
      PROVE  PcMoves(r)
  BY <1>1, StartsIdle, ScanMoves, PruneOneMoves DEF Idle
<1>2. CASE Enable(r) \/ Prune(r)
  BY <1>2, EnableMoves, PruneMoves
<1>3. CASE Put(r) \/ Register(r)
  BY <1>3, PutMoves, RegisterMoves
<1>4. CASE Ends(r, req[r].pc)
  BY <1>4 DEF Ends, Idle
<1>5. ASSUME NEW e \in Edges, NEW next, Goes(r, e[1], e[2], next)
      PROVE  PcMoves(r)
  BY <1>5 DEF Goes, Edges
<1> HIDE DEF PcMoves
<1> QED BY <1>1, <1>2, <1>3, <1>4, <1>5, Control

(* A request touches the ids it works on or starts on, and the files it    *)
(* prunes.                                                                 *)
Untouched(r, o) ==
  /\ sidecar'[o] = sidecar[o] /\ live'[o] = live[o] /\ made'[o] = made[o]
  /\ heap'[o] = heap[o] /\ (o \in deleted' <=> o \in deleted)
  /\ file'[o] = file[o] \/ PruneOne(r, o)

LEMMA TouchesOwn ==
  ASSUME IInv, NEW r \in Request, Start(r) \/ Step(r), NEW o \in Oracle,
         req[r].id # o, req'[r].id # o
  PROVE  Untouched(r, o)
<1> USE OracleAssumption DEF IInv, Base, Typed, disk, memory, history, Untouched
<1>1. CASE Enable(r) \/ Prune(r)
  BY <1>1 DEF Enable, Prune
<1>2. ASSUME NEW p \in Oracle, StartsOn(r, p)
      PROVE  Untouched(r, o)
  <2>1. p # o
    BY <1>2, StartsIdle
  <2> QED BY <1>2, <2>1 DEF StartsOn, Delete, Upload, Arm
<1>3. CASE Probe(r) \/ Register(r) \/ Snapshot(r) \/ Write(r)
           \/ \E client \in Digest : Check(r, client)
  BY <1>3 DEF Probe, Register, Snapshot, Write, Check
<1>4. CASE Store(r) \/ Judge(r) \/ Accept(r) \/ Refuse(r)
  BY <1>4 DEF Store, Judge, Accept, SetArmed, Refuse
<1>5. CASE UnlinkFile(r) \/ UnlinkSidecar(r) \/ Put(r) \/ ScanDone(r)
  BY <1>5 DEF UnlinkFile, UnlinkSidecar, Put, ScanDone
<1>6. ASSUME NEW p \in Oracle, Scan(r, p) \/ PruneOne(r, p)
      PROVE  Untouched(r, o)
  <2>1. CASE Scan(r, p)
    BY <2>1 DEF Scan
  <2>2. CASE PruneOne(r, p) /\ p = o
    BY <2>2 DEF PruneOne
  <2>3. CASE PruneOne(r, p) /\ p # o
    BY <2>3 DEF PruneOne
  <2> QED BY <1>6, <2>1, <2>2, <2>3
<1> QED BY <1>1, <1>2, <1>3, <1>4, <1>5, <1>6, StepKinds
-----------------------------------------------------------------------------
(* A request starts on an id that was drawn, or draws it.                  *)
LEMMA StartsDrawn ==
  ASSUME IInv, NEW r \in Request, NEW o \in Oracle, StartsOn(r, o)
  PROVE  /\ o \in drawn'
         /\ made[o] = 0 => o \notin drawn /\ \E c \in Config : Upload(r, o, c)
<1> USE DEF IInv, Base, Typed, Made, Undrawn
<1>1. live[o] # 0 => made[o] # 0
  OBVIOUS
<1> QED BY <1>1 DEF StartsOn, Delete, Upload, Arm

LEMMA DrawnGrows ==
  ASSUME NEW r \in Request, Start(r) \/ Step(r)
  PROVE  drawn \subseteq drawn'
BY DEF Start, Step, Enable, Prune, Delete, Upload, Arm, Probe, Register,
   Snapshot, Write, Check, Store, Judge, Accept, Refuse, UnlinkFile,
   UnlinkSidecar, Scan, Put, ScanDone, PruneOne

(* Nothing happens to an id that was not drawn.                            *)
LEMMA UndrawnStep ==
  ASSUME IInv, Next, Typed'
  PROVE  Undrawn'
<1>1. ASSUME NEW r \in Request, Start(r) \/ Step(r), NEW o \in Oracle \ drawn'
      PROVE  /\ file'[o] = None /\ sidecar'[o] = None /\ made'[o] = 0
             /\ o \notin deleted'
             /\ \A s \in Request : req'[s].id # o /\ o \notin req'[s].todo
  <2>1. o \in Oracle \ drawn
    BY <1>1, DrawnGrows
  <2>2. /\ file[o] = None /\ sidecar[o] = None /\ made[o] = 0 /\ o \notin deleted
        /\ \A s \in Request : req[s].id # o /\ o \notin req[s].todo
    BY <2>1 DEF IInv, Base, Undrawn
  <2>3. ~StartsOn(r, o) /\ ~Scan(r, o)
    BY <1>1, <2>1, <2>2, StartsDrawn DEF Scan
  <2>4. req'[r].id # o
    BY <1>1, <2>2, <2>3, NewId, OracleAssumption DEF IdMoves
  <2>5. o \notin req'[r].todo
    <3>1. CASE Enable(r) \/ Prune(r)
      BY <2>2, <3>1, EnableMoves, PruneMoves DEF Orphan
    <3>2. CASE req'[r].todo \subseteq req[r].todo
      BY <2>2, <3>2
    <3> QED BY <1>1, <3>1, <3>2, NewId DEF IdMoves
  <2>6. ASSUME NEW s \in Request, s # r
        PROVE  req'[s].id # o /\ o \notin req'[s].todo
    BY <1>1, <2>2, <2>6, Others DEF IInv, Base, Typed
  <2>7. /\ file'[o] = file[o] /\ sidecar'[o] = sidecar[o] /\ made'[o] = made[o]
        /\ o \in deleted' <=> o \in deleted
    BY <1>1, <2>1, <2>2, <2>4, TouchesOwn DEF Untouched, PruneOne
  <2> QED BY <2>2, <2>4, <2>5, <2>6, <2>7
<1>2. CASE Restart
  <2> SUFFICES ASSUME NEW o \in Oracle \ drawn
               PROVE  made'[o] = 0
    BY <1>2, OracleAssumption DEF Restart, disk, Idle, IInv, Base, Undrawn
  <2>1. ~Restorable(o)
    BY DEF Restorable, IInv, Base, Undrawn
  <2> QED BY <1>2, <2>1 DEF Restart
<1>3. ASSUME NEW o \in Oracle, Edit(o)
      PROVE  Undrawn'
  <2>1. o \in drawn
    BY <1>3, OracleAssumption DEF Edit, IInv, Base, Undrawn, Digest
  <2> QED BY <1>3, <2>1 DEF Edit, memory, history, IInv, Base, Typed, Undrawn
<1> QED
  <2>1. ASSUME NEW r \in Request, Start(r) \/ Step(r)
        PROVE  Undrawn'
    BY <1>1, <2>1 DEF Undrawn
  <2> QED BY <1>2, <1>3, <2>1 DEF Next

(* The steps that write a sidecar, answer a delete and change a file.      *)
LEMMA Unwritten ==
  ASSUME NEW r \in Request, Start(r) \/ Step(r)
  PROVE  /\ Write(r) \/ UnlinkSidecar(r) \/ sidecar' = sidecar
         /\ UnlinkSidecar(r) \/ deleted' = deleted
         /\ \/ \E o \in Oracle : PruneOne(r, o) \/ \E c \in Config : Upload(r, o, c)
            \/ Probe(r) \/ UnlinkFile(r) \/ file' = file
<1> USE DEF disk, history
<1>1. Enable(r) \/ Prune(r) \/ Put(r) \/ ScanDone(r)
      => sidecar' = sidecar /\ deleted' = deleted /\ file' = file
  BY DEF Enable, Prune, Put, ScanDone
<1>2. \A o \in Oracle :
        /\ Scan(r, o) => sidecar' = sidecar /\ deleted' = deleted /\ file' = file
        /\ PruneOne(r, o) => sidecar' = sidecar /\ deleted' = deleted
  BY DEF Scan, PruneOne
<1>3. \A o \in Oracle : StartsOn(r, o) =>
        /\ sidecar' = sidecar /\ deleted' = deleted
        /\ file' = file \/ \E c \in Config : Upload(r, o, c)
  BY DEF StartsOn, Delete, Upload, Arm
<1>4. /\ Probe(r) \/ UnlinkFile(r) => sidecar' = sidecar /\ deleted' = deleted
      /\ Write(r) => deleted' = deleted /\ file' = file
      /\ UnlinkSidecar(r) => file' = file
  BY DEF Probe, UnlinkFile, Write, UnlinkSidecar
<1>5. \/ Register(r) \/ Snapshot(r) \/ \E client \in Digest : Check(r, client)
      \/ Store(r) \/ Judge(r) \/ Accept(r) \/ Refuse(r)
      => sidecar' = sidecar /\ deleted' = deleted /\ file' = file
  BY DEF Register, Snapshot, Check, Store, Judge, Accept, Refuse
<1> QED BY <1>1, <1>2, <1>3, <1>4, <1>5, StepKinds

(* Nobody else touches an upload before it registers.                      *)
LEMMA UnregisteredStep ==
  ASSUME IInv, Next, Typed', LocalsFit'
  PROVE  Unregistered'
<1>1. ASSUME NEW r \in Request, Start(r) \/ Step(r),
             NEW s \in Request, req'[s].pc \in New,
             NEW o \in Oracle, req'[s].id = o
      PROVE  UnregisteredBy(s)'
  <2>1. /\ o \in Oracle /\ made'[o] = 0 /\ sidecar'[o] = None /\ o \notin deleted'
        /\ sidecar[o] = None
        /\ \A t \in Request : /\ t # s => req[t].id # o
                              /\ req[t].pc \in {"scan", "put"} => o \notin req[t].todo
        /\ r # s => made[o] = 0
    <3>1. CASE r # s
      <4>1. req[s].pc \in New /\ o = req[s].id
        BY <1>1, <3>1, Others DEF IInv, Base, Typed
      <4>2. /\ o \in Oracle /\ made[o] = 0 /\ sidecar[o] = None /\ o \notin deleted
            /\ \A t \in Request : /\ t # s => req[t].id # o
                                  /\ req[t].pc \in {"scan", "put"} => o \notin req[t].todo
        BY <4>1 DEF IInv, Base, Unregistered, UnregisteredBy, LocalsFit, LocalsFitOf,
                    New, Busy
      <4>3. req'[r].id # o
        <5>1. ~StartsOn(r, o)
          BY <4>1, <4>2, StartsDrawn DEF IInv, Base, Undrawn
        <5>2. ~Scan(r, o)
          BY <4>2, ScanMoves
        <5> QED BY <1>1, <3>1, <4>2, <5>1, <5>2, NewId, OracleAssumption DEF IdMoves
      <4> QED BY <1>1, <3>1, <4>2, <4>3, TouchesOwn DEF Untouched
    <3>2. CASE r = s /\ \E p \in Oracle : StartsOn(r, p)
      <4>1. PICK p \in Oracle : StartsOn(r, p)
        BY <3>2
      <4>2. p = o /\ \E c \in Config : Upload(r, o, c)
        BY <1>1, <3>2, <4>1, StartsIdle DEF New
      <4>3. o \notin drawn /\ made' = made /\ sidecar' = sidecar /\ deleted' = deleted
        BY <4>2 DEF Upload, memory
      <4> QED BY <3>2, <4>1, <4>2, <4>3 DEF IInv, Base, Undrawn
    <3>3. CASE r = s /\ req[r].pc \in New /\ o = req[r].id
      <4>1. /\ o \in Oracle /\ made[o] = 0 /\ sidecar[o] = None /\ o \notin deleted
            /\ \A t \in Request : /\ t # s => req[t].id # o
                                  /\ req[t].pc \in {"scan", "put"} => o \notin req[t].todo
        BY <3>3 DEF IInv, Base, Unregistered, UnregisteredBy, LocalsFit, LocalsFitOf,
                    New, Busy
      <4>2. ~Register(r) /\ ~Put(r) /\ ~Write(r) /\ ~UnlinkSidecar(r)
        BY <1>1, <3>3, RegisterMoves, PutMoves, WriteMoves, UnlinkSidecarMoves
        DEF New, Goes, Ends, Idle
      <4>3. made' = made /\ sidecar' = sidecar /\ deleted' = deleted
        BY <1>1, <4>2, Unmade, Unwritten
      <4> QED BY <3>3, <4>1, <4>3
    <3> QED BY <1>1, <3>1, <3>2, <3>3, NewPc DEF PcMoves
  <2>2. ASSUME NEW t \in Request, t # s
        PROVE  req'[t].id # o
    <3>1. CASE t # r
      BY <1>1, <2>1, <2>2, <3>1, Others DEF IInv, Base, Typed
    <3>2. CASE t = r
      <4>1. ~Scan(r, o)
        BY <2>1, ScanMoves
      <4>2. ~StartsOn(r, o)
        <5>1. made[o] = 0 /\ req'[s] = req[s]
          BY <1>1, <2>1, <2>2, <3>2, Others DEF IInv, Base, Typed
        <5> QED BY <1>1, <2>1, <5>1, StartsDrawn DEF IInv, Base, Undrawn
      <4> QED BY <1>1, <2>1, <2>2, <3>2, <4>1, <4>2, NewId, OracleAssumption
              DEF IdMoves
    <3> QED BY <3>1, <3>2
  <2>3. ASSUME NEW t \in Request, req'[t].pc \in {"scan", "put"}
        PROVE  o \notin req'[t].todo
    <3>1. CASE t # r
      BY <1>1, <2>1, <2>3, <3>1, Others DEF IInv, Base, Typed
    <3>2. CASE t = r /\ Enable(r)
      BY <2>1, <3>2, EnableMoves
    <3>3. CASE t = r /\ ~Enable(r)
      <4>1. req[r].pc \in {"scan", "put"}
        BY <1>1, <2>3, <3>3, NewPc DEF PcMoves
      <4>2. ~Prune(r)
        BY <4>1, PruneMoves
      <4> QED BY <1>1, <2>1, <3>3, <4>1, <4>2, NewId DEF IdMoves
    <3> QED BY <3>1, <3>2, <3>3
  <2> QED BY <1>1, <2>1, <2>2, <2>3 DEF UnregisteredBy
<1>2. CASE Restart
  BY <1>2 DEF Restart, Idle, New, Unregistered, UnregisteredBy
<1>3. ASSUME NEW o \in Oracle, Edit(o)
      PROVE  Unregistered'
  BY <1>3 DEF Edit, memory, history, IInv, Base, Unregistered, UnregisteredBy
<1> QED
  <2>1. ASSUME NEW r \in Request, Start(r) \/ Step(r)
        PROVE  Unregistered'
    <3> SUFFICES ASSUME NEW s \in Request, req'[s].pc \in New
                 PROVE  UnregisteredBy(s)'
      BY DEF Unregistered, UnregisteredBy
    <3>1. req'[s].id \in Oracle
      BY DEF LocalsFit, LocalsFitOf, New, Busy
    <3> QED BY <1>1, <2>1, <3>1
  <2> QED BY <1>2, <1>3, <2>1 DEF Next
-----------------------------------------------------------------------------
LEMMA PuttersFinite ==
  ASSUME NEW o \in Oracle
  PROVE  IsFiniteSet(Putters(o)) /\ Cardinality(Putters(o)) \in Nat
BY OracleAssumption, FS_Subset, FS_CardinalityType DEF Putters

(* Who may put an entry object of o after a step.                          *)
LEMMA NewPutters ==
  ASSUME IInv, NEW r \in Request, Start(r) \/ Step(r), NEW o \in Oracle
  PROVE  /\ ~Enable(r) => Putters(o)' \subseteq Putters(o)
         /\ Putters(o)' \subseteq Putters(o) \cup {r}
         /\ Put(r) /\ req[r].id = o => Putters(o)' \subseteq Putters(o) \ {r}
<1>1. ASSUME NEW s \in Request, s # r
      PROVE  s \in Putters(o)' <=> s \in Putters(o)
  BY <1>1, Others DEF Putters, IInv, Base, Typed
<1>2. ASSUME ~Enable(r), r \in Putters(o)'
      PROVE  r \in Putters(o)
  <2>1. req'[r].pc \in {"scan", "put"}
    BY <1>2 DEF Putters
  <2>2. req[r].pc \in {"scan", "put"}
    BY <1>2, <2>1, NewPc DEF PcMoves
  <2>3. ~Prune(r) /\ req'[r].todo \subseteq req[r].todo
    BY <1>2, <2>2, PruneMoves, NewId DEF IdMoves
  <2>4. CASE o \in req'[r].todo
    BY <2>2, <2>3, <2>4 DEF Putters
  <2>5. CASE req'[r].pc = "put" /\ req'[r].id = o
    <3>1. PICK p \in Oracle : Scan(r, p)
      BY <2>5, NewPc DEF PcMoves
    <3>2. req[r].pc = "scan" /\ o \in req[r].todo
      BY <2>5, <3>1, ScanMoves
    <3> QED BY <3>2 DEF Putters
  <2> QED BY <1>2, <2>4, <2>5 DEF Putters
<1>3. ASSUME Put(r), req[r].id = o
      PROVE  r \notin Putters(o)'
  <2>1. req'[r].pc = "scan" /\ req'[r].todo = req[r].todo /\ req[r].pc = "put"
    BY <1>3, PutMoves
  <2>2. o \notin req[r].todo
    BY <1>3, <2>1 DEF IInv, Base, LocalsFit, LocalsFitOf
  <2> QED BY <2>1, <2>2 DEF Putters
<1>4. Putters(o)' \subseteq Request
  BY DEF Putters
<1>5. Put(r) => ~Enable(r)
  BY PutMoves, EnableMoves
<1> QED BY <1>1, <1>2, <1>3, <1>4, <1>5

(* Every sweep finds room for what it puts.                                *)
LEMMA RoomStep ==
  ASSUME IInv, Next, Typed'
  PROVE  Room'
<1> USE OracleAssumption
<1>1. ASSUME NEW r \in Request, Start(r) \/ Step(r), NEW o \in Oracle
      PROVE  made'[o] + Cardinality(Putters(o)') <= MaxEntries
  <2>1. /\ made[o] \in Nat /\ made'[o] \in Nat
        /\ made[o] + Cardinality(Putters(o)) <= MaxEntries
        /\ Cardinality(Putters(o)) \in Nat
    BY PuttersFinite DEF IInv, Base, Typed, Room
  <2>2. ASSUME NEW P, P \subseteq Putters(o)
        PROVE  Cardinality(P) \in Nat /\ Cardinality(P) <= Cardinality(Putters(o))
    BY <2>2, PuttersFinite, FS_Subset, FS_CardinalityType
  <2>3. CASE Register(r) /\ req[r].id = o
    <3>1. made'[o] = 1
      BY <2>3 DEF Register, IInv, Base, Typed
    <3>2. \A s \in Request : s # r => req[s].id # o
      BY <2>3, RegisterMoves DEF IInv, Base, Unregistered, UnregisteredBy, New
    <3>3. \A s \in Request : req[s].pc \in {"scan", "put"} => o \notin req[s].todo
      BY <2>3, RegisterMoves DEF IInv, Base, Unregistered, UnregisteredBy, New
    <3>4. Putters(o) = {}
      BY <2>3, <3>2, <3>3, RegisterMoves DEF Putters
    <3>5. ~Enable(r)
      BY <2>3, RegisterMoves, EnableMoves
    <3>6. Putters(o)' = {}
      BY <1>1, <3>4, <3>5, NewPutters
    <3> QED BY <3>1, <3>6, FS_EmptySet
  <2>4. CASE Put(r) /\ req[r].id = o
    <3>1. made'[o] = made[o] + 1
      BY <2>4 DEF Put, IInv, Base, Typed
    <3>2. r \in Putters(o)
      BY <2>4, PutMoves DEF Putters
    <3>3. Putters(o)' \subseteq Putters(o) \ {r}
      BY <1>1, <2>4, NewPutters
    <3>4. /\ Cardinality(Putters(o) \ {r}) = Cardinality(Putters(o)) - 1
          /\ IsFiniteSet(Putters(o) \ {r})
      BY <3>2, PuttersFinite, FS_RemoveElement
    <3>5. /\ Cardinality(Putters(o)') \in Nat
          /\ Cardinality(Putters(o)') <= Cardinality(Putters(o) \ {r})
      BY <3>3, <3>4, FS_Subset, FS_CardinalityType
    <3> QED BY <2>1, <3>1, <3>4, <3>5
  <2>5. CASE Enable(r)
    <3>1. made'[o] = made[o]
      BY <2>5 DEF Enable, memory
    <3>2. made[o] + Cardinality(Sweeping) < MaxEntries
      BY <2>5 DEF Enable
    <3>3. Putters(o) \subseteq Sweeping /\ IsFiniteSet(Sweeping) /\ r \notin Sweeping
      BY <2>5, EnableMoves, FS_Subset DEF Putters, Sweeping, Sweep
    <3>4. Putters(o)' \subseteq Sweeping \cup {r}
      BY <1>1, <3>3, NewPutters
    <3>5. /\ Cardinality(Sweeping \cup {r}) = Cardinality(Sweeping) + 1
          /\ IsFiniteSet(Sweeping \cup {r}) /\ Cardinality(Sweeping) \in Nat
      BY <3>3, FS_AddElement, FS_CardinalityType
    <3>6. /\ Cardinality(Putters(o)') \in Nat
          /\ Cardinality(Putters(o)') <= Cardinality(Sweeping \cup {r})
      BY <3>4, <3>5, FS_Subset, FS_CardinalityType
    <3> QED BY <2>1, <3>1, <3>2, <3>5, <3>6
  <2>6. CASE /\ ~Enable(r)
             /\ req[r].id # o \/ (~Register(r) /\ ~Put(r))
    <3>1. made'[o] = made[o]
      <4>1. CASE Register(r) /\ req[r].id # o
        BY <4>1 DEF Register
      <4>2. CASE Put(r) /\ req[r].id # o
        BY <4>2 DEF Put
      <4>3. CASE ~Register(r) /\ ~Put(r)
        BY <1>1, <4>3, Unmade
      <4> QED BY <2>6, <4>1, <4>2, <4>3
    <3>2. /\ Cardinality(Putters(o)') \in Nat
          /\ Cardinality(Putters(o)') <= Cardinality(Putters(o))
      BY <1>1, <2>2, <2>6, NewPutters
    <3> QED BY <2>1, <3>1, <3>2
  <2> QED BY <2>3, <2>4, <2>5, <2>6
<1>2. CASE Restart
  <2> SUFFICES ASSUME NEW o \in Oracle
               PROVE  made'[o] + Cardinality(Putters(o)') <= MaxEntries
    BY DEF Room
  <2>1. made'[o] \in {0, 1}
    BY <1>2 DEF Restart
  <2>2. Putters(o)' = {}
    BY <1>2 DEF Restart, Putters, Idle
  <2> QED BY <2>1, <2>2, FS_EmptySet
<1>3. ASSUME NEW o \in Oracle, Edit(o)
      PROVE  Room'
  BY <1>3 DEF Edit, memory, IInv, Base, Room, Putters
<1> QED
  <2>1. ASSUME NEW r \in Request, Start(r) \/ Step(r)
        PROVE  Room'
    BY <1>1, <2>1 DEF Room
  <2> QED BY <1>2, <1>3, <2>1 DEF Next
-----------------------------------------------------------------------------
(* Each step has its place, and no other step is taken there.              *)
LEMMA Places ==
  ASSUME IInv, NEW r \in Request
  PROVE  /\ Enable(r) \/ Prune(r) => req[r].pc = "idle"
         /\ \A o \in Oracle :
              /\ StartsOn(r, o) => req[r].pc = "idle"
              /\ Scan(r, o) => req[r].pc = "scan"
              /\ PruneOne(r, o) => req[r].pc = "prune" /\ o \in req[r].todo
         /\ Put(r) => req[r].pc = "put"
         /\ ScanDone(r) => req[r].pc = "scan"
         /\ Probe(r) => req[r].pc = "probe"
         /\ Register(r) => req[r].pc = "register"
         /\ Snapshot(r) => req[r].pc = "snapshot"
         /\ Write(r) => req[r].pc = "write"
         /\ \A client \in Digest : Check(r, client) => req[r].pc = "check"
         /\ Store(r) => req[r].pc = "store"
         /\ Judge(r) => req[r].pc = "judge"
         /\ Accept(r) \/ Refuse(r) => req[r].pc = "sandbox"
         /\ UnlinkFile(r) => req[r].pc = "unlinkFile"
         /\ UnlinkSidecar(r) => req[r].pc = "unlinkSidecar"
BY DEF Enable, Prune, StartsOn, Delete, Upload, Arm, Begin, Scan, PruneOne, Put,
   ScanDone, Probe, Register, Snapshot, Write, Check, Store, Judge, Accept,
   Refuse, UnlinkFile, UnlinkSidecar, At

LEMMA StepAt ==
  ASSUME IInv, NEW r \in Request, Start(r) \/ Step(r)
  PROVE  /\ req[r].pc = "probe" => Probe(r)
         /\ req[r].pc = "register" => Register(r)
         /\ req[r].pc = "snapshot" => Snapshot(r)
         /\ req[r].pc = "write" => Write(r)
         /\ req[r].pc = "judge" => Judge(r)
         /\ req[r].pc = "sandbox" => Accept(r) \/ Refuse(r)
         /\ req[r].pc = "unlinkFile" => UnlinkFile(r)
BY Places, StepKinds

(* What each step may change of an oracle.                                 *)
LEMMA Changes ==
  ASSUME IInv, NEW r \in Request, Start(r) \/ Step(r), NEW o \in Oracle
  PROVE  /\ sidecar'[o] # sidecar[o] =>
              req[r].id = o /\ (Write(r) \/ UnlinkSidecar(r))
         /\ file'[o] # file[o] =>
              \/ \E c \in Config : Upload(r, o, c)
              \/ /\ file'[o] = None
                 /\ \/ PruneOne(r, o)
                    \/ req[r].id = o /\ (Probe(r) \/ UnlinkFile(r))
         /\ o \in deleted' /\ o \notin deleted => req[r].id = o /\ UnlinkSidecar(r)
         /\ live'[o] # live[o] =>
              \/ live'[o] = 0 /\ Delete(r, o)
              \/ live'[o] # 0 /\ req[r].id = o /\ (Register(r) \/ Put(r))
         /\ heap'[o] # heap[o] =>
              /\ req[r].id = o
              /\ \/ Register(r) \/ Put(r) \/ Accept(r)
                 \/ live[o] # 0 /\ Store(r)
<1> USE DEF IInv, Base, Typed
<1>1. sidecar'[o] # sidecar[o] => req[r].id = o /\ (Write(r) \/ UnlinkSidecar(r))
  <2>1. CASE Write(r) \/ UnlinkSidecar(r)
    BY <2>1 DEF Write, UnlinkSidecar
  <2> QED BY <2>1, Unwritten
<1>2. file'[o] # file[o] =>
        \/ \E c \in Config : Upload(r, o, c)
        \/ /\ file'[o] = None
           /\ \/ PruneOne(r, o)
              \/ req[r].id = o /\ (Probe(r) \/ UnlinkFile(r))
  <2>1. ASSUME NEW p \in Oracle, NEW c \in Config, Upload(r, p, c), p # o
        PROVE  file'[o] = file[o]
    BY <2>1 DEF Upload
  <2>2. ASSUME NEW p \in Oracle, PruneOne(r, p)
        PROVE  file'[o] = IF p = o THEN None ELSE file[o]
    BY <2>2 DEF PruneOne
  <2>3. ASSUME Probe(r) \/ UnlinkFile(r)
        PROVE  file'[o] # file[o] => file'[o] = None /\ req[r].id = o
    <3>1. file' = file \/ file' = [file EXCEPT ![req[r].id] = None]
      BY <2>3 DEF Probe, UnlinkFile
    <3> QED BY <3>1
  <2> QED BY <2>1, <2>2, <2>3, Unwritten
<1>3. o \in deleted' /\ o \notin deleted => req[r].id = o /\ UnlinkSidecar(r)
  BY Unwritten DEF UnlinkSidecar
<1>4. live'[o] # live[o] =>
        \/ live'[o] = 0 /\ Delete(r, o)
        \/ live'[o] # 0 /\ req[r].id = o /\ (Register(r) \/ Put(r))
  <2>1. ASSUME NEW p \in Oracle, Delete(r, p)
        PROVE  live'[o] = IF p = o THEN 0 ELSE live[o]
    BY <2>1 DEF Delete
  <2>2. ASSUME Register(r) \/ Put(r)
        PROVE  live'[o] # live[o] => live'[o] # 0 /\ req[r].id = o
    <3>1. CASE Register(r)
      <4>1. live' = [live EXCEPT ![req[r].id] = 1]
        BY <3>1 DEF Register
      <4> QED BY <4>1
    <3>2. CASE Put(r) /\ req[r].id = o
      <4>1. live' = [live EXCEPT ![o] = made[o] + 1] /\ made[o] + 1 # 0
        BY <3>2, OracleAssumption DEF Put
      <4> QED BY <3>2, <4>1
    <3>3. CASE Put(r) /\ req[r].id # o
      <4>1. live' = [live EXCEPT ![req[r].id] = made[req[r].id] + 1]
        BY <3>3 DEF Put
      <4> QED BY <3>3, <4>1
    <3> QED BY <2>2, <3>1, <3>2, <3>3
  <2> QED BY <2>1, <2>2, Unmade
<1>5. heap'[o] # heap[o] =>
        /\ req[r].id = o
        /\ \/ Register(r) \/ Put(r) \/ Accept(r)
           \/ live[o] # 0 /\ Store(r)
  <2>1. CASE Register(r) \/ Put(r)
    BY <2>1 DEF Register, Put
  <2>2. CASE Accept(r)
    BY <2>2 DEF Accept, SetArmed
  <2>3. CASE Store(r)
    BY <2>3 DEF Store
  <2> QED BY <2>1, <2>2, <2>3, Unmade
<1> QED BY <1>1, <1>2, <1>3, <1>4, <1>5

(* A race is on record before either side can do harm.                     *)
LEMMA RacedMoves ==
  ASSUME NEW r \in Request, Start(r) \/ Step(r)
  PROVE  /\ raced \subseteq raced'
         /\ Enable(r) \/ Prune(r) => Worked \subseteq raced'
         /\ \A o \in Oracle : StartsOn(r, o) /\ Sweeping # {} => o \in raced'
<1>1. \A o \in Oracle :
        /\ StartsOn(r, o) => raced \subseteq raced'
        /\ StartsOn(r, o) /\ Sweeping # {} => o \in raced'
  BY DEF StartsOn, Delete, Upload, Arm, Begin
<1>2. Enable(r) \/ Prune(r) => raced \subseteq raced' /\ Worked \subseteq raced'
  BY DEF Enable, Prune
<1>3. \A o \in Oracle : Scan(r, o) \/ PruneOne(r, o) => raced' = raced
  BY DEF Scan, PruneOne, history
<1>4. \/ Put(r) \/ ScanDone(r) \/ Probe(r) \/ Register(r) \/ Snapshot(r) \/ Write(r)
      \/ \E client \in Digest : Check(r, client)
      => raced' = raced
  BY DEF Put, ScanDone, Probe, Register, Snapshot, Write, Check, history
<1>5. \/ Store(r) \/ Judge(r) \/ Accept(r) \/ Refuse(r)
      \/ UnlinkFile(r) \/ UnlinkSidecar(r)
      => raced' = raced
  BY DEF Store, Judge, Accept, Refuse, UnlinkFile, UnlinkSidecar, history
<1> QED BY <1>1, <1>2, <1>3, <1>4, <1>5, StepKinds
-----------------------------------------------------------------------------
(* The ids that requests work on after a step: no new ones but the one it  *)
(* starts on, and none of the old ones if it changes them.                 *)
LEMMA NewWorked ==
  ASSUME IInv, NEW r \in Request, Start(r) \/ Step(r), NEW s \in Request,
         NEW o \in Oracle, req'[s].pc \in Busy, req'[s].id = o
  PROVE  \/ o \in Worked
         \/ s = r /\ StartsOn(r, o)
<1>1. CASE s # r
  BY <1>1, Others DEF Worked, IInv, Base, Typed
<1>2. CASE s = r /\ req[r].pc \in Busy /\ req[r].id = o
  BY <1>2 DEF Worked
<1>3. CASE s = r /\ \E p \in Oracle : StartsOn(r, p)
  BY <1>3, StartsIdle
<1> QED BY <1>1, <1>2, <1>3, NewPc DEF PcMoves

LEMMA NewSweeping ==
  ASSUME IInv, NEW r \in Request, Start(r) \/ Step(r), Sweeping' # {}
  PROVE  /\ Sweeping # {} \/ Enable(r) \/ Prune(r)
         /\ \A o \in Oracle : StartsOn(r, o) => Sweeping # {}
<1>1. PICK s \in Request : req'[s].pc \in Sweep
  BY DEF Sweeping
<1>2. CASE s # r
  BY <1>1, <1>2, Others DEF Sweeping, IInv, Base, Typed
<1>3. CASE s = r
  <2>1. req[r].pc \in Sweep \/ Enable(r) \/ Prune(r)
    BY <1>1, <1>3, NewPc DEF PcMoves, Sweep
  <2>2. \A o \in Oracle : ~StartsOn(r, o)
    BY <1>1, <1>3, StartsIdle DEF Sweep
  <2> QED BY <2>1, <2>2 DEF Sweeping
<1> QED BY <1>2, <1>3

(* A sweep and a request for an oracle that meet are on record.            *)
LEMMA SweepsRaceStep ==
  ASSUME IInv, Next, Typed', LocalsFit'
  PROVE  SweepsRace'
<1>1. ASSUME NEW r \in Request, Start(r) \/ Step(r)
      PROVE  SweepsRace'
  <2> SUFFICES ASSUME Sweeping' # {}, NEW s \in Request, req'[s].pc \in Busy
               PROVE  req'[s].id \in raced'
    BY DEF SweepsRace, Worked
  <2>1. PICK o \in Oracle : o = req'[s].id
    BY DEF LocalsFit, LocalsFitOf
  <2>2. CASE o \in Worked
    <3>1. CASE Sweeping # {}
      BY <1>1, <2>1, <2>2, <3>1, RacedMoves DEF IInv, Races, SweepsRace
    <3>2. CASE Enable(r) \/ Prune(r)
      BY <1>1, <2>1, <2>2, <3>2, RacedMoves
    <3> QED BY <1>1, <3>1, <3>2, NewSweeping
  <2>3. CASE StartsOn(r, o)
    BY <1>1, <2>1, <2>3, NewSweeping, RacedMoves
  <2> QED BY <1>1, <2>1, <2>2, <2>3, NewWorked
<1>2. CASE Restart
  BY <1>2 DEF Restart, Idle, SweepsRace, Sweeping, Sweep
<1>3. ASSUME NEW o \in Oracle, Edit(o)
      PROVE  SweepsRace'
  BY <1>3 DEF Edit, history, IInv, Races, SweepsRace, Sweeping, Worked
<1> QED BY <1>1, <1>2, <1>3 DEF Next

(* During a sweep nobody else works on an oracle that is not on record.    *)
LEMMA Alone ==
  ASSUME IInv, NEW r \in Request, Start(r) \/ Step(r), NEW s \in Request,
         req[s].pc \in Sweep, NEW o \in Oracle \ raced'
  PROVE  /\ ~StartsOn(r, o)
         /\ \A t \in Request : req[t].id = o => req[t].pc \notin Busy
<1>1. Sweeping # {}
  BY DEF Sweeping
<1>2. Worked \subseteq raced'
  BY <1>1, RacedMoves DEF IInv, Races, SweepsRace
<1>3. \A t \in Request : req[t].id = o => req[t].pc \notin Busy
  BY <1>2 DEF Worked
<1> QED BY <1>1, <1>3, RacedMoves

(* What a sweep is about to put is on disk.                                *)
LEMMA PutFitsStep ==
  ASSUME IInv, Next, Typed', LocalsFit'
  PROVE  PutFits'
<1>1. ASSUME NEW r \in Request, Start(r) \/ Step(r), NEW s \in Request,
             NEW o \in Oracle, req'[s].pc = "put", req'[s].id = o, o \notin raced'
      PROVE  file'[o] # None /\ sidecar'[o] # None /\ o \notin deleted'
  <2>1. CASE s # r
    <3>1. req[s].pc = "put" /\ req[s].id = o /\ o \notin raced
      BY <1>1, <2>1, Others, RacedMoves DEF IInv, Base, Typed
    <3>2. file[o] # None /\ sidecar[o] # None /\ o \notin deleted
      BY <3>1 DEF IInv, Races, PutFits
    <3>3. ~StartsOn(r, o) /\ (req[r].id = o => req[r].pc \notin Busy)
      BY <1>1, <3>1, Alone DEF Sweep
    <3>4. ~PruneOne(r, o)
      BY <3>1, <3>2, Places DEF IInv, Races, PruneFits
    <3>5. file'[o] = file[o]
      BY <1>1, <3>3, <3>4, Changes, Places DEF StartsOn, Busy
    <3>6. sidecar'[o] = sidecar[o] /\ (o \in deleted' => o \in deleted)
      BY <1>1, <3>3, Changes, Places DEF Busy
    <3> QED BY <3>2, <3>5, <3>6
  <2>2. CASE s = r
    <3>1. PICK p \in Oracle : Scan(r, p)
      BY <1>1, <2>2, NewPc DEF PcMoves
    <3>2. p = o /\ Restorable(o)
      BY <1>1, <2>2, <3>1, ScanMoves
    <3>3. file'[o] = file[o] /\ sidecar'[o] = sidecar[o] /\ deleted' = deleted
      BY <3>1 DEF Scan, disk, history
    <3> QED BY <3>2, <3>3 DEF Restorable, IInv, Races, DeletesFit
  <2> QED BY <2>1, <2>2
<1>2. CASE Restart
  BY <1>2 DEF Restart, Idle, PutFits
<1>3. ASSUME NEW o \in Oracle, Edit(o)
      PROVE  PutFits'
  BY <1>3, OracleAssumption
  DEF Edit, history, Digest, IInv, Base, Typed, Races, PutFits
<1> QED
  <2>1. ASSUME NEW r \in Request, Start(r) \/ Step(r)
        PROVE  PutFits'
    <3>1. \A s \in Request : req'[s].pc = "put" => req'[s].id \in Oracle
      BY DEF LocalsFit, LocalsFitOf
    <3> QED BY <1>1, <2>1, <3>1 DEF PutFits
  <2> QED BY <1>2, <1>3, <2>1 DEF Next
(* What a prune is about to unlink is still an orphan.                     *)
LEMMA PruneFitsStep ==
  ASSUME IInv, Next, Typed'
  PROVE  PruneFits'
<1>1. ASSUME NEW r \in Request, Start(r) \/ Step(r), NEW s \in Request,
             NEW o \in Oracle, req'[s].pc = "prune", o \in req'[s].todo,
             o \notin raced'
      PROVE  live'[o] = 0 /\ sidecar'[o] = None
  <2>1. CASE req[s].pc = "prune" /\ o \in req[s].todo
    <3>1. o \notin raced /\ live[o] = 0 /\ sidecar[o] = None
      BY <1>1, <2>1, RacedMoves DEF IInv, Races, PruneFits
    <3>2. ~StartsOn(r, o) /\ (req[r].id = o => req[r].pc \notin Busy)
      BY <1>1, <2>1, Alone DEF Sweep
    <3>3. ~(req[r].id = o /\ Put(r))
      BY <3>1, Places DEF IInv, Races, PutFits
    <3>4. live'[o] = live[o]
      BY <1>1, <3>2, <3>3, Changes, Places DEF StartsOn, Busy
    <3>5. sidecar'[o] = sidecar[o]
      BY <1>1, <3>2, Changes, Places DEF Busy
    <3> QED BY <3>1, <3>4, <3>5
  <2>2. CASE s = r /\ Prune(r)
    <3>1. Orphan(o)
      BY <1>1, <2>2, PruneMoves
    <3> QED BY <2>2, <3>1 DEF Orphan, Prune, disk, memory
  <2>3. s # r => req[s].pc = "prune" /\ o \in req[s].todo
    BY <1>1, Others DEF IInv, Base, Typed
  <2>4. s = r /\ ~Prune(r) => req[s].pc = "prune" /\ o \in req[s].todo
    <3>1. req'[r].pc = "prune" => ~Enable(r)
      BY EnableMoves
    <3> QED BY <1>1, <3>1, NewPc, NewId DEF PcMoves, IdMoves
  <2> QED BY <2>1, <2>2, <2>3, <2>4
<1>2. CASE Restart
  BY <1>2 DEF Restart, Idle, PruneFits
<1>3. ASSUME NEW o \in Oracle, Edit(o)
      PROVE  PruneFits'
  BY <1>3 DEF Edit, disk, memory, history, IInv, Races, PruneFits
<1> QED
  <2>1. ASSUME NEW r \in Request, Start(r) \/ Step(r)
        PROVE  PruneFits'
    <3>1. \A s \in Request : req'[s].todo \subseteq Oracle
      BY DEF Typed, Locals
    <3> QED BY <1>1, <2>1, <3>1 DEF PruneFits
  <2> QED BY <1>2, <1>3, <2>1 DEF Next

(* An upload that goes on to register has its file.                        *)
LEMMA UploadFitsStep ==
  ASSUME IInv, Next, Typed', LocalsFit'
  PROVE  UploadFits'
<1>1. ASSUME NEW r \in Request, Start(r) \/ Step(r), NEW s \in Request,
             NEW o \in Oracle, req'[s].pc = "register", req'[s].id = o,
             o \notin raced'
      PROVE  file'[o] # None
  <2>1. CASE s # r
    <3>1. req[s].pc = "register" /\ req[s].id = o /\ o \notin raced
      BY <1>1, <2>1, Others, RacedMoves DEF IInv, Base, Typed
    <3>2. file[o] # None
      BY <3>1 DEF IInv, Races, UploadFits, At
    <3>3. req[r].id # o
      BY <2>1, <3>1 DEF IInv, Base, Unregistered, UnregisteredBy, New
    <3>4. ~PruneOne(r, o)
      <4>1. CASE req[r].pc = "prune"
        BY <1>1, <3>1, <4>1, Alone DEF Sweep, Busy
      <4> QED BY <4>1, Places
    <3>5. file'[o] = file[o] \/ \E c \in Config : Upload(r, o, c)
      BY <1>1, <3>3, <3>4, Changes
    <3>6. \A c \in Config : ~Upload(r, o, c)
      BY <3>1 DEF Upload, IInv, Base, Undrawn
    <3> QED BY <3>2, <3>5, <3>6
  <2>2. CASE s = r
    <3>1. \A p \in Oracle : ~StartsOn(r, p)
      BY <1>1, <2>2, StartsIdle
    <3>2. req[r].pc \in New /\ req[r].id = o
      BY <1>1, <2>2, <3>1, NewPc DEF PcMoves, New
    <3>3. Probe(r)
      BY <1>1, <2>2, <3>2, RegisterMoves, StepAt DEF Goes, New
    <3> QED BY <1>1, <2>2, <3>2, <3>3 DEF Probe, Done, Idle, IInv, Base, Typed
  <2> QED BY <2>1, <2>2
<1>2. CASE Restart
  BY <1>2 DEF Restart, Idle, UploadFits, At
<1>3. ASSUME NEW o \in Oracle, Edit(o)
      PROVE  UploadFits'
  <2>1. \A p \in Oracle : file[p] # None => file'[p] # None
    BY <1>3, OracleAssumption DEF Edit, Digest, IInv, Base, Typed
  <2> QED
    BY <1>3, <2>1
    DEF Edit, history, IInv, Base, Races, UploadFits, At, LocalsFit, LocalsFitOf, Busy
<1> QED
  <2>1. ASSUME NEW r \in Request, Start(r) \/ Step(r)
        PROVE  UploadFits'
    <3>1. \A s \in Request : req'[s].pc = "register" => req'[s].id \in Oracle
      BY DEF LocalsFit, LocalsFitOf, Busy
    <3> QED BY <1>1, <2>1, <3>1 DEF UploadFits, At
  <2> QED BY <1>2, <1>3, <2>1 DEF Next
(* A delete takes its oracle out of the map, then off the disk, and nothing *)
(* puts it back: an id is drawn once, and what a sweep puts is on disk.     *)
LEMMA DeletesFitStep ==
  ASSUME IInv, Next, Typed', LocalsFit'
  PROVE  DeletesFit'
<1>1. ASSUME NEW r \in Request, Start(r) \/ Step(r), NEW s \in Request,
             NEW o \in Oracle, req[s].id = o, req[s].pc \in {"unlinkFile", "unlinkSidecar"},
             o \notin raced'
      PROVE  live'[o] = 0
  <2>1. o \notin raced /\ live[o] = 0
    BY <1>1, RacedMoves DEF IInv, Races, DeletesFit, At
  <2>2. ~(req[r].id = o /\ Register(r))
    <3>1. CASE req[r].id = o /\ Register(r)
      <4>1. s # r /\ req[r].pc \in New
        BY <1>1, <3>1, Places DEF New
      <4> QED BY <1>1, <3>1, <4>1 DEF IInv, Base, Unregistered, UnregisteredBy
    <3> QED BY <3>1
  <2>3. ~Put(r)
    BY <1>1, Places, Alone DEF Sweep, Busy
  <2> QED BY <1>1, <2>1, <2>2, <2>3, Changes
<1>2. ASSUME NEW r \in Request, Start(r) \/ Step(r), NEW o \in Oracle,
             file[o] = None, file'[o] # None
      PROVE  o \notin deleted /\ \A s \in Request : req[s].id # o
  <2>1. \E c \in Config : Upload(r, o, c)
    BY <1>2, Changes
  <2>2. o \notin drawn
    BY <2>1 DEF Upload
  <2> QED BY <2>2 DEF IInv, Base, Undrawn
<1>3. ASSUME NEW r \in Request, Start(r) \/ Step(r), NEW s \in Request,
             NEW o \in Oracle, req'[s].pc = "unlinkFile", req'[s].id = o,
             o \notin raced'
      PROVE  live'[o] = 0
  <2>1. CASE s = r
    <3>1. StartsOn(r, o)
      BY <1>3, <2>1, NewPc, StartsIdle DEF PcMoves
    <3>2. Delete(r, o)
      BY <1>3, <2>1, <3>1, StartsIdle
    <3> QED BY <3>2 DEF Delete, IInv, Base, Typed
  <2>2. CASE s # r
    BY <1>1, <1>3, <2>2, Others DEF IInv, Base, Typed
  <2> QED BY <2>1, <2>2
<1>4. ASSUME NEW r \in Request, Start(r) \/ Step(r), NEW s \in Request,
             NEW o \in Oracle, req'[s].pc = "unlinkSidecar", req'[s].id = o
      PROVE  file'[o] = None /\ (o \notin raced' => live'[o] = 0)
  <2>1. CASE s = r
    <3>1. req[r].pc = "unlinkFile" /\ req[r].id = o
      BY <1>4, <2>1, NewPc DEF PcMoves
    <3>2. UnlinkFile(r)
      BY <1>4, <3>1, StepAt
    <3>3. file' = [file EXCEPT ![o] = None]
      BY <3>1, <3>2 DEF UnlinkFile
    <3> QED BY <1>1, <1>4, <3>1, <3>3 DEF IInv, Base, Typed
  <2>2. CASE s # r
    <3>1. req[s].pc = "unlinkSidecar" /\ req[s].id = o
      BY <1>4, <2>2, Others DEF IInv, Base, Typed
    <3>2. file[o] = None
      BY <3>1 DEF IInv, Races, DeletesFit, At
    <3> QED BY <1>1, <1>2, <1>4, <3>1, <3>2
  <2> QED BY <2>1, <2>2
<1>5. ASSUME NEW r \in Request, Start(r) \/ Step(r), NEW o \in Oracle, o \in deleted'
      PROVE  file'[o] = None
  <2>1. CASE o \in deleted
    BY <1>2, <1>5, <2>1 DEF IInv, Races, DeletesFit
  <2>2. CASE req[r].id = o /\ UnlinkSidecar(r)
    BY <2>2, Places DEF UnlinkSidecar, IInv, Races, DeletesFit, At
  <2> QED BY <1>5, <2>1, <2>2, Changes
<1>6. CASE Restart
  BY <1>6 DEF Restart, disk, Idle, At, IInv, Races, DeletesFit
<1>7. ASSUME NEW o \in Oracle, Edit(o)
      PROVE  DeletesFit'
  <2>1. \A p \in Oracle : file[p] = None => file'[p] = None
    BY <1>7, OracleAssumption DEF Edit, Digest, IInv, Base, Typed
  <2>2. deleted \subseteq Oracle
    BY DEF IInv, Races, DeletesFit
  <2> QED
    BY <1>7, <2>1
    DEF Edit, memory, history, IInv, Base, LocalsFit, LocalsFitOf, Busy, Races,
        DeletesFit, At
<1> QED
  <2>1. ASSUME NEW r \in Request, Start(r) \/ Step(r)
        PROVE  DeletesFit'
    <3>1. \A s \in Request : req'[s].pc \in {"unlinkFile", "unlinkSidecar"}
                             => req'[s].id \in Oracle
      BY DEF LocalsFit, LocalsFitOf, Busy
    <3>2. deleted' \subseteq Oracle
      <4>1. CASE UnlinkSidecar(r)
        BY <4>1 DEF UnlinkSidecar, At, IInv, Base, LocalsFit, LocalsFitOf, Busy,
                    Races, DeletesFit
      <4>2. CASE deleted' = deleted
        BY <4>2 DEF IInv, Races, DeletesFit
      <4> QED BY <2>1, <4>1, <4>2, Unwritten
    <3>3. \A o \in deleted' : file'[o] = None
      BY <1>5, <2>1, <3>2
    <3>4. \A s \in Request :
            /\ req'[s].pc = "unlinkFile" /\ req'[s].id \notin raced'
               => live'[req'[s].id] = 0
            /\ req'[s].pc = "unlinkSidecar" =>
                 /\ file'[req'[s].id] = None
                 /\ req'[s].id \notin raced' => live'[req'[s].id] = 0
      BY <1>3, <1>4, <2>1, <3>1
    <3> QED BY <3>2, <3>3, <3>4 DEF DeletesFit, At
  <2> QED BY <1>6, <1>7, <2>1 DEF Next
(* Once a delete is answered, nothing brings the oracle back.              *)
LEMMA DeleteIsFinalStep ==
  ASSUME IInv, Next, Typed', DeletesFit'
  PROVE  DeleteIsFinal'
<1>1. ASSUME NEW r \in Request, Start(r) \/ Step(r),
             NEW o \in Oracle, o \in deleted', o \notin raced'
      PROVE  live'[o] = 0
  <2>1. o \notin raced
    BY <1>1, RacedMoves
  <2>2. CASE o \in deleted
    <3>1. live[o] = 0
      BY <2>1, <2>2 DEF IInv, DeleteIsFinal
    <3>2. ~(req[r].id = o /\ Register(r))
      BY <2>2, Places DEF IInv, Base, Unregistered, UnregisteredBy, New
    <3>3. ~(req[r].id = o /\ Put(r))
      BY <2>1, <2>2, Places DEF IInv, Races, PutFits
    <3> QED BY <1>1, <3>1, <3>2, <3>3, Changes
  <2>3. CASE req[r].id = o /\ UnlinkSidecar(r)
    <3>1. live[o] = 0
      BY <2>1, <2>3, Places DEF IInv, Races, DeletesFit, At
    <3> QED BY <2>3, <3>1 DEF UnlinkSidecar, memory
  <2> QED BY <1>1, <2>2, <2>3, Changes
<1>2. CASE Restart
  <2>1. \A o \in deleted : ~Restorable(o)
    BY DEF Restorable, IInv, Races, DeletesFit
  <2> QED BY <1>2, <2>1 DEF Restart, DeletesFit, DeleteIsFinal
<1>3. ASSUME NEW o \in Oracle, Edit(o)
      PROVE  DeleteIsFinal'
  BY <1>3 DEF Edit, memory, history, IInv, DeletesFit, DeleteIsFinal
<1> QED
  <2>1. ASSUME NEW r \in Request, Start(r) \/ Step(r)
        PROVE  DeleteIsFinal'
    BY <1>1, <2>1 DEF DeletesFit, DeleteIsFinal
  <2> QED BY <1>2, <1>3, <2>1 DEF Next

(* A file whose sidecar or entry was there is listed, or about to go.      *)
LEMMA FilesKeptStep ==
  ASSUME IInv, Next, Typed'
  PROVE  FilesKept'
<1>1. ASSUME NEW r \in Request, Start(r) \/ Step(r), ~enabled', NEW o \in Oracle
      PROVE  file'[o] = None
  <2>1. ~enabled
    <3>1. enabled' = enabled \/ Enable(r)
      BY <1>1 DEF StartsOn, Start, Step, Prune, Delete, Upload, Arm, Probe, Register,
         Snapshot, Write, Check, Store, Judge, Accept, Refuse, UnlinkFile,
         UnlinkSidecar, Scan, Put, ScanDone, PruneOne
    <3> QED BY <1>1, <3>1 DEF Enable
  <2>2. file[o] = None /\ \A c \in Config : ~Upload(r, o, c)
    BY <2>1 DEF IInv, FilesKept, Upload
  <2> QED BY <1>1, <2>2, Changes
<1>2. ASSUME NEW r \in Request, Start(r) \/ Step(r), NEW o \in Oracle,
             file'[o] = "stored", live'[o] = 0, made'[o] # 0 \/ sidecar'[o] # None
      PROVE  Unlinking(o)'
  <2>1. CASE Delete(r, o)
    <3>1. req'[r].pc = "unlinkFile" /\ req'[r].id = o
      BY <2>1, StartsIdle DEF StartsOn, Delete, Begin, Idle, IInv, Base, Typed
    <3> QED BY <3>1 DEF Unlinking, At
  <2>2. CASE ~Delete(r, o)
    <3>1. \A c \in Config : ~Upload(r, o, c)
      BY <1>2 DEF Upload, disk, memory, IInv, Base, Undrawn
    <3>2. file[o] = "stored"
      BY <1>2, <3>1, Changes, OracleAssumption DEF Digest
    <3>3. live[o] = 0 /\ ~(req[r].id = o /\ (Register(r) \/ Put(r)))
      <4>1. req[r].id = o /\ (Register(r) \/ Put(r)) => live'[o] # 0
        BY OracleAssumption DEF Register, Put, IInv, Base, Typed
      <4> QED BY <1>2, <2>2, <4>1, Changes
    <3>4. made'[o] = made[o]
      <4>1. CASE Register(r) /\ req[r].id # o
        BY <4>1 DEF Register
      <4>2. CASE Put(r) /\ req[r].id # o
        BY <4>2 DEF Put
      <4>3. CASE ~Register(r) /\ ~Put(r)
        BY <1>2, <4>3, Unmade
      <4> QED BY <3>3, <4>1, <4>2, <4>3
    <3>5. made[o] # 0 \/ sidecar[o] # None
      <4>1. req[r].id = o /\ Write(r) => made[o] # 0
        <5> SUFFICES ASSUME req[r].id = o, Write(r)
                     PROVE  made[o] # 0
          OBVIOUS
        <5>1. req[r].ref \in 1..made[o]
          BY Places DEF IInv, Base, LocalsFit, LocalsFitOf, Holding
        <5> QED BY <5>1
      <4>2. req[r].id = o /\ UnlinkSidecar(r) => sidecar'[o] = None
        BY DEF UnlinkSidecar, IInv, Base, Typed
      <4> QED BY <1>2, <3>4, <4>1, <4>2, Changes
    <3>6. PICK s \in Request : req[s].pc = "unlinkFile" /\ req[s].id = o
      BY <3>2, <3>3, <3>5 DEF IInv, FilesKept, Unlinking, At
    <3>7. s # r
      <4>1. s = r => file'[o] = None
        BY <1>2, <3>6, StepAt DEF UnlinkFile, IInv, Base, Typed
      <4> QED BY <1>2, <4>1, OracleAssumption DEF Digest
    <3> QED BY <1>2, <3>6, <3>7, Others DEF Unlinking, At, IInv, Base, Typed
  <2> QED BY <2>1, <2>2
<1>3. CASE Restart
  <2>1. ~enabled' => \A o \in Oracle : file'[o] = None
    BY <1>3 DEF Restart, disk, IInv, FilesKept
  <2>2. ASSUME NEW o \in Oracle, file'[o] = "stored", live'[o] = 0,
               made'[o] # 0 \/ sidecar'[o] # None
        PROVE  FALSE
    <3>1. sidecar[o] # None /\ file[o] = "stored"
      BY <1>3, <2>2 DEF Restart, disk
    <3>2. Restorable(o)
      BY <3>1, OracleAssumption DEF Restorable, IInv, SidecarsTrusted, Digest
    <3>3. ~enabled
      BY <1>3, <2>2, <3>2 DEF Restart
    <3> QED BY <3>1, <3>3, OracleAssumption DEF IInv, FilesKept, Digest
  <2> QED BY <2>1, <2>2 DEF FilesKept
<1>4. ASSUME NEW o \in Oracle, Edit(o)
      PROVE  FilesKept'
  <2>1. enabled
    BY <1>4, OracleAssumption DEF Edit, IInv, FilesKept, Digest
  <2>2. \A p \in Oracle : file'[p] = "stored" => file[p] = "stored"
    BY <1>4 DEF Edit, IInv, Base, Typed
  <2> QED
    BY <1>4, <2>1, <2>2 DEF Edit, memory, IInv, FilesKept, Unlinking, At
<1> QED
  <2>1. ASSUME NEW r \in Request, Start(r) \/ Step(r)
        PROVE  FilesKept'
    BY <1>1, <1>2, <2>1 DEF FilesKept
  <2> QED BY <1>3, <1>4, <2>1 DEF Next
(* A listed oracle keeps its file, and a file is listed or explained.      *)
LEMMA FilesAccountedForStep ==
  ASSUME IInv, Next, Typed', LocalsFit', SidecarsTrusted', FilesKept'
  PROVE  FilesAccountedFor'
<1>1. ASSUME NEW o \in Oracle, o \notin Worked', file'[o] # None, live'[o] = 0
      PROVE  Orphan(o)' \/ sidecar'[o].digest # file'[o]
  <2>1. ~Unlinking(o)'
    BY <1>1 DEF Unlinking, At, Worked, Busy
  <2>2. sidecar'[o] = None \/ file'[o] # "stored"
    BY <1>1, <2>1 DEF FilesKept
  <2> QED BY <1>1, <2>2 DEF Orphan, SidecarsTrusted
<1>2. ASSUME NEW r \in Request, Start(r) \/ Step(r), NEW o \in Oracle,
             o \notin raced', live'[o] # 0
      PROVE  file'[o] # None
  <2>1. o \notin raced
    BY <1>2, RacedMoves
  <2>2. CASE live[o] # 0
    <3>1. file[o] # None
      BY <2>1, <2>2 DEF IInv, FilesAccountedFor
    <3>2. ~PruneOne(r, o)
      BY <2>1, <2>2, Places DEF IInv, Races, PruneFits
    <3>3. ~(req[r].id = o /\ Probe(r))
      <4>1. made[o] # 0
        BY <2>2 DEF IInv, Base, Typed, Made
      <4> QED BY <4>1, Places DEF IInv, Base, Unregistered, UnregisteredBy, New
    <3>4. ~(req[r].id = o /\ UnlinkFile(r))
      BY <2>1, <2>2, Places DEF IInv, Races, DeletesFit, At
    <3>5. \A c \in Config : Upload(r, o, c) => file'[o] # None
      BY OracleAssumption DEF Upload, Digest, IInv, Base, Typed
    <3> QED BY <1>2, <3>1, <3>2, <3>3, <3>4, <3>5, Changes
  <2>3. CASE req[r].id = o /\ (Register(r) \/ Put(r))
    <3>1. file[o] # None
      BY <2>1, <2>3, Places DEF IInv, Races, UploadFits, PutFits, At
    <3> QED BY <2>3, <3>1 DEF Register, Put, disk
  <2> QED BY <1>2, <2>2, <2>3, Changes
<1>3. CASE Restart
  <2>1. \A o \in Oracle : live'[o] # 0 => file'[o] # None
    BY <1>3 DEF Restart, disk, Restorable
  <2> QED BY <1>1, <2>1 DEF FilesAccountedFor
<1>4. ASSUME NEW p \in Oracle, Edit(p)
      PROVE  FilesAccountedFor'
  <2>1. \A o \in Oracle \ raced' : live'[o] # 0 => file'[o] # None
    BY <1>4, OracleAssumption
    DEF Edit, memory, history, Digest, IInv, Base, Typed, FilesAccountedFor
  <2> QED BY <1>1, <2>1 DEF FilesAccountedFor
<1> QED
  <2>1. ASSUME NEW r \in Request, Start(r) \/ Step(r)
        PROVE  FilesAccountedFor'
    BY <1>1, <1>2, <2>1 DEF FilesAccountedFor
  <2> QED BY <1>3, <1>4, <2>1 DEF Next
-----------------------------------------------------------------------------
(* All requests hold the entry object that is listed.                      *)
LEMMA OneObjectStep ==
  ASSUME IInv, Next, Typed', LocalsFit'
  PROVE  OneObject'
<1>1. ASSUME NEW r \in Request, Start(r) \/ Step(r), NEW s \in Request,
             NEW o \in Oracle, req'[s].pc \in Holding, req'[s].id = o,
             o \notin raced', live'[o] # 0
      PROVE  req'[s].ref = live'[o]
  <2>1. o \notin raced
    BY <1>1, RacedMoves
  <2>2. CASE s = r /\ Register(r)
    BY <1>1, <2>2, RegisterMoves DEF Register, IInv, Base, Typed
  <2>3. CASE s = r /\ \E p \in Oracle : StartsOn(r, p)
    <3>1. /\ req'[r].pc = "check" /\ req'[r].ref = live[o]
          /\ \E c \in Config \cup {None} : Arm(r, o, c)
      BY <1>1, <2>3, StartsIdle DEF Holding
    <3> QED BY <2>3, <3>1 DEF Arm, memory
  <2>4. CASE s = r /\ ~Register(r) /\ ~\E p \in Oracle : StartsOn(r, p)
    <3>1. /\ req[r].pc \in Holding
          /\ req[r].id = o /\ req'[r].ref = req[r].ref
      BY <1>1, <2>4, NewPc DEF PcMoves
    <3>2. ~Put(r) /\ ~Delete(r, o)
      BY <2>4, <3>1, Places DEF StartsOn, Holding
    <3>3. live'[o] = live[o]
      BY <1>1, <2>4, <3>2, Changes
    <3> QED BY <1>1, <2>1, <2>4, <3>1, <3>3 DEF IInv, OneObject
  <2>5. CASE s # r
    <3>1. req[s] = req'[s]
      BY <1>1, <2>5, Others DEF IInv, Base, Typed
    <3>2. ~(req[r].id = o /\ Register(r))
      BY <1>1, <2>5, <3>1, Places DEF IInv, Base, Unregistered, UnregisteredBy, New
    <3>3. ~Put(r)
      BY <1>1, <3>1, Places, Alone DEF Sweep, Holding, Busy
    <3>4. live'[o] = live[o]
      BY <1>1, <3>2, <3>3, Changes
    <3> QED BY <1>1, <2>1, <3>1, <3>4 DEF IInv, OneObject
  <2> QED BY <2>2, <2>3, <2>4, <2>5
<1>2. CASE Restart
  BY <1>2 DEF Restart, Idle, OneObject, Holding
<1>3. ASSUME NEW o \in Oracle, Edit(o)
      PROVE  OneObject'
  BY <1>3 DEF Edit, memory, history, IInv, OneObject
<1> QED
  <2>1. ASSUME NEW r \in Request, Start(r) \/ Step(r)
        PROVE  OneObject'
    <3>1. \A s \in Request : req'[s].pc \in Holding => req'[s].id \in Oracle
      BY DEF LocalsFit, LocalsFitOf, Busy, Holding
    <3> QED BY <1>1, <2>1, <3>1 DEF OneObject
  <2> QED BY <1>2, <1>3, <2>1 DEF Next

(* Who is arming, after a step and before it.                              *)
LEMMA ArmingMoves ==
  ASSUME IInv, NEW r \in Request, Start(r) \/ Step(r), NEW o \in Oracle
  PROVE  /\ Arming(r, o)' => Judge(r) \/ (Judges(r, o)' /\ ~Judge(r))
         /\ Arming(r, o) => \/ Judge(r) \/ Accept(r) \/ Refuse(r)
                            \/ Judges(r, o)'
<1>1. req'[r].pc = "sandbox" => Judge(r)
  <2>1. req'[r].pc = "sandbox" => req[r].pc = "judge"
    BY NewPc DEF PcMoves
  <2> QED BY <2>1, StepAt
<1>2. Arming(r, o)' => Judge(r) \/ (Judges(r, o)' /\ ~Judge(r))
  <2>1. Judge(r) => req'[r].pc = "sandbox"
    BY JudgeMoves DEF Goes
  <2> QED BY <1>1, <2>1 DEF Arming, Judges
<1>3. Arming(r, o) => Judge(r) \/ Accept(r) \/ Refuse(r) \/ Judges(r, o)'
  <2>1. CASE req[r].id = o /\ req[r].pc \in {"judge", "sandbox"}
    BY <2>1, StepAt
  <2>2. CASE req[r].id = o /\ req[r].next = "judge"
    <3>1. Snapshot(r) \/ Write(r)
      BY <2>2, StepAt DEF IInv, Base, LocalsFit, LocalsFitOf
    <3> QED BY <2>2, <3>1, SnapshotMoves, WriteMoves DEF Goes, Judges
  <2> QED BY <2>1, <2>2 DEF Arming
<1> QED BY <1>2, <1>3
(* What the sandbox said is kept, and an entry keeps its configuration     *)
(* when it is judged.                                                      *)
LEMMA VerdictsKept ==
  ASSUME IInv, NEW r \in Request, Start(r) \/ Step(r)
  PROVE  passed \subseteq passed' /\ refused \subseteq refused'
<1>1. \A o \in Oracle : StartsOn(r, o) \/ Scan(r, o) \/ PruneOne(r, o) =>
        passed \subseteq passed' /\ refused \subseteq refused'
  BY DEF StartsOn, Delete, Upload, Arm, Scan, PruneOne, history
<1>2. Enable(r) \/ Prune(r) \/ Put(r) \/ ScanDone(r) =>
        passed \subseteq passed' /\ refused \subseteq refused'
  BY DEF Enable, Prune, Put, ScanDone, history
<1>3. \/ Probe(r) \/ Register(r) \/ Snapshot(r) \/ Write(r)
      \/ \E client \in Digest : Check(r, client)
      => passed \subseteq passed' /\ refused \subseteq refused'
  BY DEF Probe, Register, Snapshot, Write, Check, history
<1>4. \/ Store(r) \/ Judge(r) \/ Accept(r) \/ Refuse(r)
      \/ UnlinkFile(r) \/ UnlinkSidecar(r)
      => passed \subseteq passed' /\ refused \subseteq refused'
  BY DEF Store, Judge, Accept, Refuse, UnlinkFile, UnlinkSidecar, history
<1> QED BY <1>1, <1>2, <1>3, <1>4, StepKinds

LEMMA VerdictGiven ==
  ASSUME IInv, NEW r \in Request, Accept(r) \/ Refuse(r),
         NEW o \in Oracle, req[r].id = o, live[o] # 0, o \notin raced
  PROVE  /\ <<o, live[o], req[r].seen>> \in passed' \cup refused'
         /\ live'[o] = live[o]
         /\ heap'[o][live[o]].cfg = heap[o][live[o]].cfg
<1>1. req[r].pc = "sandbox"
  BY Places
<1>2. req[r].ref = live[o] /\ live[o] \in 1..MaxEntries /\ live[o] \in 1..made[o]
  BY <1>1 DEF IInv, OneObject, Holding, Base, Typed, Made
<1>3. CASE Accept(r)
  <2>1. <<o, live[o], req[r].seen>> \in passed' /\ live' = live
    BY <1>2, <1>3 DEF Accept
  <2>2. SetArmed(o, live[o])
    BY <1>2, <1>3 DEF Accept
  <2>3. heap[o][live[o]] \in Entry
    <3>1. heap[o][live[o]] \in Entry \cup {None}
      BY <1>2 DEF IInv, Base, Typed
    <3>2. heap[o][live[o]] # None
      BY <1>2 DEF IInv, Base, Made
    <3> QED BY <3>1, <3>2
  <2>4. heap' = [heap EXCEPT ![o][live[o]] =
                   [heap[o][live[o]] EXCEPT !.armed = TRUE, !.stamped = TRUE]]
    BY <1>2, <2>2, <2>3, SetArmedHeap DEF IInv, Base, Typed
  <2>5. heap'[o][live[o]].cfg = heap[o][live[o]].cfg
    BY <1>2, <2>3, <2>4 DEF IInv, Base, Typed, Entry
  <2> QED BY <2>1, <2>5
<1>4. CASE Refuse(r)
  BY <1>2, <1>4 DEF Refuse, memory
<1> QED BY <1>3, <1>4
(* A configuration that was stored is judged, or going to be.              *)
LEMMA JudgedStep ==
  ASSUME IInv, Next, Typed', LocalsFit'
  PROVE  Judged'
<1>1. ASSUME NEW r \in Request, Start(r) \/ Step(r), NEW o \in Oracle,
             o \notin raced', live'[o] # 0,
             heap'[o][live'[o]].armed \/ \E s \in Request : Arming(s, o)'
      PROVE  \/ <<o, live'[o], heap'[o][live'[o]].cfg>> \in passed' \cup refused'
             \/ \E s \in Request : Judges(s, o)'
  <2>1. o \notin raced /\ passed \subseteq passed' /\ refused \subseteq refused'
    BY <1>1, RacedMoves, VerdictsKept
  <2>2. \A s \in Request \ {r} : req'[s] = req[s]
    BY <1>1, Others DEF IInv, Base, Typed
  <2>3. \A s \in Request : Arming(s, o) =>
          req[s].id = o /\ req[s].pc \in {"judge", "sandbox", "snapshot", "write"}
    BY DEF Arming, IInv, Base, LocalsFit, LocalsFitOf
  <2>4. CASE req[r].id = o /\ Register(r)
    <3>1. req[r].pc = "register" /\ req[r].next # "judge"
      BY <2>4, Places DEF IInv, Base, LocalsFit, LocalsFitOf
    <3>2. live'[o] = 1 /\ ~heap'[o][1].armed
      BY <2>4, OracleAssumption DEF Register, IInv, Base, Typed
    <3>3. ~Arming(r, o)'
      BY <2>4, <3>1, RegisterMoves DEF Arming
    <3>4. \A s \in Request \ {r} : ~Arming(s, o)'
      BY <2>2, <2>4, <3>1 DEF Arming, IInv, Base, Unregistered, UnregisteredBy, New
    <3> QED BY <1>1, <3>2, <3>3, <3>4
  <2>5. CASE req[r].id = o /\ Put(r)
    <3>1. req[r].pc = "put"
      BY <2>5, Places
    <3>2. /\ made[o] + 1 \in 1..MaxEntries
          /\ req[r].seen \in Entry /\ ~req[r].seen.armed
      <4>1. made[o] < MaxEntries
        BY <2>5, <3>1, PutHasRoom DEF IInv, At
      <4> QED BY <3>1, <4>1, OracleAssumption
              DEF IInv, Base, Typed, LocalsFit, LocalsFitOf
    <3>3. live'[o] = made[o] + 1 /\ ~heap'[o][live'[o]].armed
      BY <2>5, <3>2 DEF Put, IInv, Base, Typed
    <3>4. ~Arming(r, o)'
      BY <2>5, PutMoves, OracleAssumption DEF Arming
    <3>5. \A s \in Request \ {r} : ~Arming(s, o)'
      <4>1. \A s \in Request : ~Arming(s, o)
        BY <1>1, <2>3, <3>1, Alone DEF Sweep, Busy
      <4> QED BY <2>2, <4>1 DEF Arming
    <3> QED BY <1>1, <3>3, <3>4, <3>5
  <2>6. CASE live'[o] = live[o] /\ req[r].id = o /\ Store(r)
    BY <1>1, <2>6, StoreMoves DEF Goes, Judges
  <2>7. CASE live'[o] = live[o] /\ req[r].id = o /\ Judge(r)
    <3>1. req[r].ref = live[o]
      BY <1>1, <2>1, <2>7, Places DEF IInv, OneObject, Holding
    <3>2. heap' = heap
      BY <2>7 DEF Judge, memory
    <3> QED BY <2>7, <3>1, <3>2, JudgeMoves DEF Goes, Judges
  <2>8. CASE live'[o] = live[o] /\ req[r].id = o /\ (Accept(r) \/ Refuse(r))
    <3>1. req[r].pc = "sandbox" /\ req[r].next # "judge"
      BY <2>8, Places DEF IInv, Base, LocalsFit, LocalsFitOf
    <3>2. /\ <<o, live[o], req[r].seen>> \in passed' \cup refused'
          /\ heap'[o][live[o]].cfg = heap[o][live[o]].cfg
      BY <1>1, <2>1, <2>8, VerdictGiven
    <3>3. CASE req[r].seen = heap[o][live[o]].cfg
      BY <2>8, <3>2, <3>3
    <3>4. CASE req[r].seen # heap[o][live[o]].cfg
      <4>1. Arming(r, o)
        BY <2>8, <3>1 DEF Arming
      <4>2. \/ <<o, live[o], heap[o][live[o]].cfg>> \in passed \cup refused
            \/ \E s \in Request : Judges(s, o)
        BY <1>1, <2>1, <2>8, <4>1 DEF IInv, Judged, JudgedOf
      <4>3. \A s \in Request : Judges(s, o) => Judges(s, o)'
        <5>1. ~Judges(r, o)
          BY <3>1, <3>4 DEF Judges
        <5> QED BY <2>2, <2>8, <3>2, <5>1 DEF Judges
      <4> QED BY <2>1, <2>8, <3>2, <4>2, <4>3
    <3> QED BY <3>3, <3>4
  <2>9. CASE /\ live'[o] = live[o]
             /\ ~(req[r].id = o /\ (Store(r) \/ Judge(r) \/ Accept(r) \/ Refuse(r)))
             /\ ~(req[r].id = o /\ (Register(r) \/ Put(r)))
    <3>1. heap'[o] = heap[o]
      BY <1>1, <2>9, Changes
    <3>2. Arming(r, o)' => Judges(r, o)'
      <4>1. Judge(r) => req'[r].id = req[r].id
        BY JudgeMoves DEF Goes
      <4> QED BY <1>1, <2>9, <4>1, ArmingMoves DEF Arming
    <3>3. \A s \in Request \ {r} : /\ Arming(s, o)' => Arming(s, o)
                                   /\ Judges(s, o) => Judges(s, o)'
      BY <2>2, <2>9, <3>1 DEF Arming, Judges
    <3>4. Judges(r, o) => Judges(r, o)'
      <4>1. Judges(r, o) => Arming(r, o) /\ req[r].id = o
        BY DEF Judges, Arming
      <4> QED BY <1>1, <2>9, <4>1, ArmingMoves
    <3>5. CASE Judges(r, o)'
      BY <3>5
    <3>6. CASE ~Judges(r, o)'
      <4>1. heap[o][live[o]].armed \/ \E s \in Request : Arming(s, o)
        BY <1>1, <2>9, <3>1, <3>2, <3>3, <3>6
      <4>2. \/ <<o, live[o], heap[o][live[o]].cfg>> \in passed \cup refused
            \/ \E s \in Request : Judges(s, o)
        BY <1>1, <2>1, <2>9, <4>1 DEF IInv, Judged, JudgedOf
      <4> QED BY <2>1, <2>9, <3>1, <3>3, <3>4, <4>2
    <3> QED BY <3>5, <3>6
  <2> QED BY <1>1, <2>4, <2>5, <2>6, <2>7, <2>8, <2>9, Changes
<1>2. CASE Restart
  <2> SUFFICES ASSUME NEW o \in Oracle, live'[o] # 0,
                      heap'[o][live'[o]].armed \/ \E r \in Request : Arming(r, o)'
               PROVE  FALSE
    BY DEF Judged, JudgedOf
  <2>1. \A r \in Request : ~Arming(r, o)'
    BY <1>2 DEF Restart, Idle, Arming
  <2>2. live'[o] \in 1..MaxEntries
    BY OracleAssumption DEF Typed
  <2>3. heap'[o][live'[o]] = Restored(o)
    BY <1>2, <2>2 DEF Restart
  <2> QED BY <2>1, <2>3 DEF Restored
<1>3. ASSUME NEW p \in Oracle, Edit(p)
      PROVE  Judged'
  BY <1>3 DEF Edit, memory, history, IInv, Judged, JudgedOf, Judges, Arming
<1> QED
  <2>1. ASSUME NEW r \in Request, Start(r) \/ Step(r)
        PROVE  Judged'
    BY <1>1, <2>1 DEF Judged, JudgedOf
  <2> QED BY <1>2, <1>3, <2>1 DEF Next
-----------------------------------------------------------------------------
(* The invariant is inductive.                                             *)
LEMMA Inductive == IInv /\ [Next]_vars => IInv'
<1>1. ASSUME IInv, Next
      PROVE  IInv'
  <2>1. Typed'
    BY <1>1, TypedStep DEF IInv
  <2>2. Made'
    BY <1>1, <2>1, MadeStep
  <2>3. LocalsFit'
    BY <1>1, <2>1, <2>2, LocalsFitStep
  <2>4. Base'
    BY <1>1, <2>1, <2>2, <2>3, RoomStep, UndrawnStep, UnregisteredStep DEF Base
  <2>5. SidecarsTrusted' /\ TrustedBytes' /\ ArmedInThisProcess'
    BY <1>1, <2>1, TrustedStep, ArmedStep
  <2>6. Races'
    BY <1>1, <2>1, <2>3, SweepsRaceStep, PutFitsStep, UploadFitsStep,
       PruneFitsStep, DeletesFitStep DEF Races
  <2>7. DeleteIsFinal' /\ FilesKept'
    BY <1>1, <2>1, <2>6, DeleteIsFinalStep, FilesKeptStep DEF Races
  <2>8. FilesAccountedFor'
    BY <1>1, <2>1, <2>3, <2>5, <2>7, FilesAccountedForStep
  <2>9. OneObject' /\ Judged'
    BY <1>1, <2>1, <2>3, OneObjectStep, JudgedStep
  <2> QED BY <2>4, <2>5, <2>6, <2>7, <2>8, <2>9 DEF IInv
<1>2. ASSUME IInv, UNCHANGED vars
      PROVE  IInv'
  <2> USE <1>2 DEF vars, disk, memory, history
  <2>1. Base'
    BY DEF IInv, Base, Typed, Made, LocalsFit, LocalsFitOf, Room, Putters, Undrawn,
           Unregistered, UnregisteredBy
  <2>2. SidecarsTrusted' /\ TrustedBytes' /\ ArmedInThisProcess'
    BY DEF IInv, SidecarsTrusted, TrustedBytes, ArmedInThisProcess
  <2>3. Races'
    BY DEF IInv, Races, SweepsRace, Sweeping, Worked, PutFits, UploadFits,
           PruneFits, DeletesFit, At
  <2>4. DeleteIsFinal' /\ FilesKept' /\ FilesAccountedFor'
    BY DEF IInv, DeleteIsFinal, FilesKept, Unlinking, At, FilesAccountedFor,
           Worked, Sweeping, Orphan
  <2>5. OneObject' /\ Judged'
    BY DEF IInv, OneObject, Judged, JudgedOf, Judges, Arming
  <2> QED BY <2>1, <2>2, <2>3, <2>4, <2>5 DEF IInv
<1> QED BY <1>1, <1>2

(* IInv holds in every reachable state: what a request of the registry     *)
(* relies on between two of its steps is there when it takes the second.   *)
THEOREM Invariance == Spec => []IInv
BY InitIInv, Inductive, PTL DEF Spec
-----------------------------------------------------------------------------
(* Every variable has its type; an entry object that the map or a request  *)
(* refers to has been made (_entries, and what arm keeps across its steps).*)
THEOREM TypeCorrect == Spec => []TypeOK
<1>1. IInv => TypeOK
  <2> USE DEF IInv, Base
  <2>1. IInv => \A o \in Oracle : live[o] \in 0..made[o]
    BY OracleAssumption DEF Typed, Made
  <2>2. IInv => \A r \in Request : req[r].ref # 0 =>
          req[r].id \in Oracle /\ req[r].ref \in 1..made[req[r].id]
    BY DEF LocalsFit, LocalsFitOf, Holding, Busy
  <2> QED BY <2>1, <2>2 DEF TypeOK, Typed, Made
<1> QED BY <1>1, Invariance, PTL

(* An entry is armed only if the sandbox accepted it in this process: the  *)
(* mark survives neither a restart nor a replaced entry.                   *)
THEOREM ArmedIsJudged == Spec => []ArmedInThisProcess
<1>1. IInv => ArmedInThisProcess
  BY DEF IInv
<1> QED BY <1>1, Invariance, PTL

(* No entry carries the digest of bytes that changed behind the registry's *)
(* back, so that arm compares the file with what the user uploaded.        *)
THEOREM BytesTrusted == Spec => []TrustedBytes
<1>1. IInv => TrustedBytes
  BY DEF IInv
<1> QED BY <1>1, Invariance, PTL

(* What was deleted stays deleted, across restarts and whatever a          *)
(* concurrent arm persists, unless an enable ran into the delete.          *)
THEOREM DeleteFinal == Spec => []DeleteIsFinal
<1>1. IInv => DeleteIsFinal
  BY DEF IInv
<1> QED BY <1>1, Invariance, PTL

(* Memory and disk agree: a listed oracle has its file, and a file that    *)
(* nobody works on is listed, or an orphan, or was edited.                 *)
THEOREM FilesAccounted == Spec => []FilesAccountedFor
<1>1. IInv => FilesAccountedFor
  BY DEF IInv
<1> QED BY <1>1, Invariance, PTL

(* A run takes its configuration from an armed entry: once no arm is under *)
(* way, it is one that the sandbox has judged for this entry.              *)
THEOREM JudgedConfigRuns == Spec => []RunsJudgedConfig
<1>1. IInv => RunsJudgedConfig
  BY DEF IInv, Judged, JudgedOf, Judges, Arming, RunsJudgedConfig, Runnable
<1> QED BY <1>1, Invariance, PTL
=============================================================================
