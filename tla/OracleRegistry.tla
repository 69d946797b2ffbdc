--------------------------- MODULE OracleRegistry ---------------------------
(***************************************************************************)
(* api/services/oracle_registry.py: the user's oracle scripts - a .py file *)
(* and a sidecar on disk, an entry in memory - and the gate a brute-force  *)
(* run has to pass (require_armed).                                        *)
(*                                                                         *)
(* The routes run on a thread pool.  The lock covers single accesses to    *)
(* the map of entries; the files, the fields of an entry and the sandbox   *)
(* are used outside it.  Each such access is a step of its own here, and   *)
(* the server may be killed between any two.                               *)
(***************************************************************************)
EXTENDS Naturals, FiniteSets

CONSTANTS Oracle,      (* ids: what uuid4 may draw                         *)
          Request,     (* requests served at the same time                 *)
          Config,      (* configurations a user may submit                 *)
          Loads,       (* those the strict sandbox accepts                 *)
          MaxEntries,  (* bound: entry objects made for one id             *)
          None

Digest == {"stored", "edited"}    (* sha256 of the bytes, as uploaded or not *)
Sidecar == [digest : Digest, cfg : Config, stamped : BOOLEAN]
Entry   == [digest : Digest, cfg : Config, stamped : BOOLEAN, armed : BOOLEAN]

ASSUME OracleAssumption ==
  /\ Loads \subseteq Config
  /\ None \notin Oracle \cup Config \cup Digest \cup Sidecar \cup Entry
  /\ IsFiniteSet(Request)
  /\ MaxEntries \in Nat \ {0}

Busy == {"probe", "register", "check", "store", "snapshot", "write", "judge",
         "sandbox", "unlinkFile", "unlinkSidecar"}
Sweep == {"scan", "put", "prune"}

VARIABLES
  enabled,  (* an oracle directory is set                                  *)
  file,     (* file[o]: the digest of <o>.py, or None                      *)
  sidecar,  (* sidecar[o]: <o>.json, or None                               *)
  live,     (* live[o]: the entry object _entries maps o to, 0 for none    *)
  made,     (* made[o]: entry objects made for o by this process           *)
  heap,     (* heap[o][n]: the n-th entry object of o                      *)
  req,      (* req[r]: where request r is, and its locals                  *)
  drawn,    (* ids drawn so far                                            *)
  passed,   (* history: <<o, n, c>>: the sandbox accepted c for entry n    *)
  refused,  (* history: <<o, n, c>>: it refused c                          *)
  deleted,  (* history: ids whose delete was answered                      *)
  raced     (* history: ids with a request under way during an enable or   *)
            (*   a prune of the directory                                  *)

disk == <<file, sidecar>>
memory == <<live, made, heap>>
history == <<passed, refused, deleted, raced>>
vars == <<enabled, disk, memory, req, drawn, history>>

Idle == [pc |-> "idle", id |-> None, ref |-> 0, cfg |-> None, seen |-> None,
         next |-> "idle", todo |-> {}]
At(r, pc) == req[r].pc = pc
Goto(r, pc) == req' = [req EXCEPT ![r].pc = pc]
Done(r) == req' = [req EXCEPT ![r] = Idle]
(* The requests that sweep the directory, and the ids the others work on.  *)
Sweeping == {r \in Request : req[r].pc \in Sweep}
Worked == {req[r].id : r \in {s \in Request : req[s].pc \in Busy}}

(* A request for one oracle begins.                                        *)
Begin(r, o, fields) ==
  /\ At(r, "idle")
  /\ req' = [req EXCEPT ![r] = fields]
  /\ raced' = IF Sweeping = {} THEN raced ELSE raced \cup {o}
-----------------------------------------------------------------------------
Init ==
  /\ enabled = FALSE
  /\ file = [o \in Oracle |-> None]
  /\ sidecar = [o \in Oracle |-> None]
  /\ live = [o \in Oracle |-> 0]
  /\ made = [o \in Oracle |-> 0]
  /\ heap = [o \in Oracle |-> [n \in 1..MaxEntries |-> None]]
  /\ req = [r \in Request |-> Idle]
  /\ drawn = {}
  /\ passed = {} /\ refused = {} /\ deleted = {} /\ raced = {}

(* upload, load_example: the bytes are written and hashed under a new id.  *)
Upload(r, o, c) ==
  /\ enabled /\ o \notin drawn
  /\ Begin(r, o, [Idle EXCEPT !.pc = "probe", !.id = o, !.cfg = c])
  /\ drawn' = drawn \cup {o}
  /\ file' = [file EXCEPT ![o] = "stored"]
  /\ UNCHANGED <<enabled, sidecar, memory, passed, refused, deleted>>

(* The lenient probe.  It takes everything but a file that is hostile (a   *)
(* hang, a kill), does not import or is gone: that one is unlinked.        *)
Probe(r) ==
  /\ At(r, "probe")
  /\ LET o == req[r].id
     IN \/ /\ file[o] # None
           /\ Goto(r, "register")
           /\ UNCHANGED file
        \/ /\ Done(r)
           /\ file' = [file EXCEPT ![o] = None]
  /\ UNCHANGED <<enabled, sidecar, memory, drawn, history>>

Register(r) ==
  /\ At(r, "register")
  /\ LET o == req[r].id
     IN /\ made' = [made EXCEPT ![o] = 1]
        /\ live' = [live EXCEPT ![o] = 1]
        /\ heap' = [heap EXCEPT ![o][1] = [digest |-> "stored",
                      cfg |-> req[r].cfg, stamped |-> FALSE, armed |-> FALSE]]
        /\ req' = [req EXCEPT ![r].pc = "snapshot", ![r].ref = 1]
  /\ UNCHANGED <<enabled, disk, drawn, history>>
-----------------------------------------------------------------------------
(* _persist: the entry is serialised, then its sidecar replaced.  A write  *)
(* that fails is logged and otherwise ignored.                             *)
Snapshot(r) ==
  /\ At(r, "snapshot")
  /\ LET e == heap[req[r].id][req[r].ref]
     IN req' = [req EXCEPT ![r].pc = "write",
                  ![r].seen = [digest |-> e.digest, cfg |-> e.cfg,
                               stamped |-> e.stamped]]
  /\ UNCHANGED <<enabled, disk, memory, drawn, history>>

Write(r) ==
  /\ At(r, "write")
  /\ \/ sidecar' = [sidecar EXCEPT ![req[r].id] = req[r].seen]
     \/ UNCHANGED sidecar
  /\ req' = [req EXCEPT ![r] =
       IF req[r].next = "idle" THEN Idle
       ELSE [@ EXCEPT !.pc = req[r].next, !.next = "idle", !.seen = None]]
  /\ UNCHANGED <<enabled, file, memory, drawn, history>>
-----------------------------------------------------------------------------
(* arm, with a configuration or, c = None, with the stored one.            *)
Arm(r, o, c) ==
  /\ live[o] # 0
  /\ Begin(r, o, [Idle EXCEPT !.pc = "check", !.id = o, !.ref = live[o],
                              !.cfg = c])
  /\ UNCHANGED <<enabled, disk, memory, drawn, passed, refused, deleted>>

(* The digests: of the file, of the entry, and the one the client saw.     *)
Check(r, client) ==
  /\ At(r, "check")
  /\ LET o == req[r].id
         e == heap[o][req[r].ref]
     IN IF file[o] = e.digest /\ client = e.digest
        THEN Goto(r, IF req[r].cfg = None THEN "judge" ELSE "store")
        ELSE Done(r)
  /\ UNCHANGED <<enabled, disk, memory, drawn, history>>

(* Fault: an entry that is armed already is not judged again.              *)
StoreUnjudged(r) ==
  /\ At(r, "store") /\ live[req[r].id] # 0
  /\ LET o == req[r].id
     IN /\ heap' = [heap EXCEPT ![o][live[o]].cfg = req[r].cfg]
        /\ req' = [req EXCEPT ![r].pc = "snapshot", ![r].next =
                     IF heap[o][live[o]].armed THEN "idle" ELSE "judge"]
  /\ UNCHANGED <<enabled, disk, live, made, drawn, history>>

(* set_config looks the entry up again: it may be another object by now,   *)
(* or gone.  arm goes on with the object it began with.                    *)
Store(r) ==
  /\ At(r, "store")
  /\ LET o == req[r].id
     IN IF live[o] = 0
        THEN Done(r) /\ UNCHANGED heap
        ELSE /\ heap' = [heap EXCEPT ![o][live[o]].cfg = req[r].cfg]
             /\ req' = [req EXCEPT ![r].pc = "snapshot", ![r].next = "judge"]
  /\ UNCHANGED <<enabled, disk, live, made, drawn, history>>

(* The configuration the sandbox is given: the entry's at this moment.     *)
Judge(r) ==
  /\ At(r, "judge")
  /\ req' = [req EXCEPT ![r].pc = "sandbox",
                        ![r].seen = heap[req[r].id][req[r].ref].cfg]
  /\ UNCHANGED <<enabled, disk, memory, drawn, history>>

(* Arming: the mark and its time, then the sidecar.                        *)
SetArmed(o, n) ==
  heap' = [heap EXCEPT ![o][n].armed = TRUE, ![o][n].stamped = TRUE]

(* The sandbox ends.  Edited bytes may or may not load.                    *)
Accept(r) ==
  /\ At(r, "sandbox")
  /\ LET o == req[r].id
         c == req[r].seen
     IN /\ \/ file[o] = "stored" /\ c \in Loads
           \/ file[o] = "edited"
        /\ SetArmed(o, req[r].ref)
        /\ passed' = passed \cup {<<o, req[r].ref, c>>}
  /\ req' = [req EXCEPT ![r].pc = "snapshot", ![r].next = "idle",
                        ![r].seen = None]
  /\ UNCHANGED <<enabled, disk, live, made, drawn, refused, deleted, raced>>

Refuse(r) ==
  /\ At(r, "sandbox")
  /\ LET o == req[r].id
         c == req[r].seen
     IN /\ ~(file[o] = "stored" /\ c \in Loads)
        /\ refused' = refused \cup {<<o, req[r].ref, c>>}
  /\ Done(r)
  /\ UNCHANGED <<enabled, disk, memory, drawn, passed, deleted, raced>>

(* require_armed: what a run may use now.                                  *)
Runnable(o) == live[o] # 0 /\ heap[o][live[o]].armed
-----------------------------------------------------------------------------
(* Fault: the file goes first, the entry stays listed.                     *)
DeleteFileFirst(r, o) ==
  /\ live[o] # 0
  /\ Begin(r, o, [Idle EXCEPT !.pc = "unlinkFile", !.id = o])
  /\ file' = [file EXCEPT ![o] = None]
  /\ UNCHANGED <<enabled, sidecar, memory, drawn, passed, refused, deleted>>

(* delete: the entry leaves the map, then both files go.                   *)
Delete(r, o) ==
  /\ live[o] # 0
  /\ Begin(r, o, [Idle EXCEPT !.pc = "unlinkFile", !.id = o])
  /\ live' = [live EXCEPT ![o] = 0]
  /\ UNCHANGED <<enabled, disk, made, heap, drawn, passed, refused, deleted>>

(* Fault: a file that another request uses stays.                          *)
UnlinkUnused(r) ==
  /\ At(r, "unlinkFile")
  /\ IF \E s \in Request \ {r} : req[s].id = req[r].id
     THEN UNCHANGED file
     ELSE file' = [file EXCEPT ![req[r].id] = None]
  /\ Goto(r, "unlinkSidecar")
  /\ UNCHANGED <<enabled, sidecar, memory, drawn, history>>

UnlinkFile(r) ==
  /\ At(r, "unlinkFile")
  /\ file' = [file EXCEPT ![req[r].id] = None]
  /\ Goto(r, "unlinkSidecar")
  /\ UNCHANGED <<enabled, sidecar, memory, drawn, history>>

UnlinkSidecar(r) ==
  /\ At(r, "unlinkSidecar")
  /\ sidecar' = [sidecar EXCEPT ![req[r].id] = None]
  /\ deleted' = deleted \cup {req[r].id}
  /\ Done(r)
  /\ UNCHANGED <<enabled, file, memory, drawn, passed, refused, raced>>
-----------------------------------------------------------------------------
(* Fault: the file is not hashed again.                                    *)
RestorableUnhashed(o) == sidecar[o] # None /\ file[o] # None

(* Fault: the armed mark is persisted.                                     *)
RestoredArmed(o) ==
  [digest |-> file[o], cfg |-> sidecar[o].cfg, stamped |-> sidecar[o].stamped,
   armed |-> sidecar[o].stamped]

(* Fault: the entry is restored without the mark.                          *)
RestoredBare(o) ==
  [digest |-> file[o], cfg |-> sidecar[o].cfg, stamped |-> sidecar[o].stamped]

(* _entry_from_sidecar: which sidecars make an entry, and which entry.     *)
Restorable(o) ==
  sidecar[o] # None /\ file[o] # None /\ file[o] = sidecar[o].digest
Restored(o) ==
  [digest |-> file[o], cfg |-> sidecar[o].cfg, stamped |-> sidecar[o].stamped,
   armed |-> FALSE]

(* enable, also of a registry that is enabled already: the sidecars are    *)
(* listed, read one by one, and each puts a new entry object in the map.   *)
Enable(r) ==
  /\ At(r, "idle")
  /\ \A o \in Oracle : made[o] + Cardinality(Sweeping) < MaxEntries
  /\ enabled' = TRUE
  /\ req' = [req EXCEPT ![r] = [Idle EXCEPT !.pc = "scan",
                  !.todo = {o \in Oracle : sidecar[o] # None}]]
  /\ raced' = raced \cup Worked
  /\ UNCHANGED <<disk, memory, drawn, passed, refused, deleted>>

Scan(r, o) ==
  /\ At(r, "scan") /\ o \in req[r].todo
  /\ req' = [req EXCEPT ![r] =
       IF Restorable(o)
       THEN [@ EXCEPT !.pc = "put", !.id = o, !.seen = Restored(o),
                      !.todo = req[r].todo \ {o}]
       ELSE [@ EXCEPT !.todo = req[r].todo \ {o}]]
  /\ UNCHANGED <<enabled, disk, memory, drawn, history>>

Put(r) ==
  /\ At(r, "put")
  /\ LET o == req[r].id
         n == made[o] + 1
     IN /\ made' = [made EXCEPT ![o] = n]
        /\ live' = [live EXCEPT ![o] = n]
        /\ heap' = [heap EXCEPT ![o][n] = req[r].seen]
  /\ req' = [req EXCEPT ![r].pc = "scan", ![r].id = None, ![r].seen = None]
  /\ UNCHANGED <<enabled, disk, drawn, history>>

ScanDone(r) ==
  /\ At(r, "scan") /\ req[r].todo = {}
  /\ Done(r)
  /\ UNCHANGED <<enabled, disk, memory, drawn, history>>

(* orphan_files, prune_orphans: listed first, unlinked one by one after.   *)
Orphan(o) == file[o] # None /\ live[o] = 0 /\ sidecar[o] = None

Prune(r) ==
  /\ At(r, "idle") /\ enabled
  /\ \E o \in Oracle : Orphan(o)
  /\ req' = [req EXCEPT ![r] = [Idle EXCEPT !.pc = "prune",
                  !.todo = {o \in Oracle : Orphan(o)}]]
  /\ raced' = raced \cup Worked
  /\ UNCHANGED <<enabled, disk, memory, drawn, passed, refused, deleted>>

PruneOne(r, o) ==
  /\ At(r, "prune") /\ o \in req[r].todo
  /\ file' = [file EXCEPT ![o] = None]
  /\ req' = [req EXCEPT ![r] =
       IF req[r].todo = {o} THEN Idle
       ELSE [@ EXCEPT !.todo = req[r].todo \ {o}]]
  /\ UNCHANGED <<enabled, sidecar, memory, drawn, history>>
-----------------------------------------------------------------------------
(* The server is killed and started again: the constructor restores what   *)
(* it finds before the first request.                                      *)
Restart ==
  /\ live' = [o \in Oracle |-> IF enabled /\ Restorable(o) THEN 1 ELSE 0]
  /\ made' = live'
  /\ heap' = [o \in Oracle |-> [n \in 1..MaxEntries |->
                IF n = live'[o] THEN Restored(o) ELSE None]]
  /\ req' = [r \in Request |-> Idle]
  /\ passed' = {} /\ refused' = {} /\ raced' = {}
  /\ UNCHANGED <<enabled, disk, drawn, deleted>>

(* Somebody edits a stored file: external, what the digests are for.       *)
Edit(o) ==
  /\ file[o] = "stored"
  /\ file' = [file EXCEPT ![o] = "edited"]
  /\ UNCHANGED <<enabled, sidecar, memory, req, drawn, history>>

Step(r) ==
  \/ Probe(r) \/ Register(r) \/ Snapshot(r) \/ Write(r)
  \/ \E client \in Digest : Check(r, client)
  \/ Store(r) \/ Judge(r) \/ Accept(r) \/ Refuse(r)
  \/ UnlinkFile(r) \/ UnlinkSidecar(r)
  \/ \E o \in Oracle : Scan(r, o) \/ PruneOne(r, o)
  \/ Put(r) \/ ScanDone(r)

Start(r) ==
  \/ Enable(r) \/ Prune(r)
  \/ \E o \in Oracle :
       \/ Delete(r, o)
       \/ \E c \in Config : Upload(r, o, c)
       \/ \E c \in Config \cup {None} : Arm(r, o, c)

Next ==
  \/ \E r \in Request : Start(r) \/ Step(r)
  \/ \E o \in Oracle : Edit(o)
  \/ Restart

Spec == Init /\ [][Next]_vars
-----------------------------------------------------------------------------
(* Type invariant.  An entry object that a request or the map refers to    *)
(* has been made.                                                          *)
TypeOK ==
  /\ enabled \in BOOLEAN
  /\ file \in [Oracle -> Digest \cup {None}]
  /\ sidecar \in [Oracle -> Sidecar \cup {None}]
  /\ made \in [Oracle -> 0..MaxEntries]
  /\ \A o \in Oracle : live[o] \in 0..made[o]
  /\ heap \in [Oracle -> [1..MaxEntries -> Entry \cup {None}]]
  /\ \A o \in Oracle : \A n \in 1..made[o] : heap[o][n] # None
  /\ \A r \in Request :
       req[r].ref # 0 => req[r].id \in Oracle /\ req[r].ref \in 1..made[req[r].id]

(* An entry is armed only when the strict sandbox has accepted it in this  *)
(* process (arm; _rehydrate restores every entry unarmed): being armed     *)
(* survives neither a restart nor the replacement of the entry.            *)
ArmedInThisProcess ==
  \A o \in Oracle : \A n \in 1..made[o] :
    heap[o][n].armed => \E c \in Config : <<o, n, c>> \in passed

Arming(r, o) ==
  /\ req[r].id = o
  /\ \/ req[r].pc \in {"judge", "sandbox"}
     \/ req[r].next = "judge"

(* The configuration a run takes from an armed entry (require_armed, then  *)
(* entry.config) is one the sandbox has judged for that entry, however     *)
(* many arms stored their configurations over each other - while no arm is *)
(* under way and no enable ran into one.  It need not have been accepted.  *)
RunsJudgedConfig ==
  \A o \in Oracle :
    /\ Runnable(o) /\ o \notin raced
    /\ \A r \in Request : ~Arming(r, o)
    => <<o, live[o], heap[o][live[o]].cfg>> \in passed \cup refused

(* No entry carries the digest of bytes that were changed behind the       *)
(* registry's back, across restarts and enables (_entry_from_sidecar): so  *)
(* arm always compares the file with what the user uploaded.               *)
TrustedBytes ==
  \A o \in Oracle : \A n \in 1..made[o] : heap[o][n].digest = "stored"

(* Once a delete is answered the oracle is gone for good: no restart and   *)
(* no enable brings it back, not from the sidecar that a concurrent arm    *)
(* may write after it either - unless an enable ran into the delete.       *)
DeleteIsFinal ==
  \A o \in deleted \ raced : file[o] = None /\ live[o] = 0

(* Memory and disk agree on which oracles there are.  A listed oracle has  *)
(* its file; a file nobody works on is listed, or reported as an orphan,   *)
(* or refused because its bytes changed - also when the server was killed  *)
(* in the middle of an upload or a delete.                                 *)
FilesAccountedFor ==
  /\ \A o \in Oracle \ raced : live[o] # 0 => file[o] # None
  /\ \A o \in Oracle \ Worked :
       /\ Sweeping = {} /\ file[o] # None /\ live[o] = 0
       => Orphan(o) \/ sidecar[o].digest # file[o]
=============================================================================
