---------------------------- MODULE TaskLifecycle ----------------------------
(***************************************************************************)
(* What the background-task service promises about each task: the status   *)
(* its users see, and the status its record.json holds.  Nothing here says *)
(* how: no threads, no pool, no queue, no locks.  TaskManager implements   *)
(* this specification.                                                     *)
(*                                                                         *)
(* A status only moves up the order                                        *)
(*   absent < pending < running < succeeded, failed < cancelled            *)
(* while the backend lives, and the file never runs ahead of memory; only  *)
(* a restart may move a status back, to what the file supports.            *)
(***************************************************************************)
EXTENDS Naturals

CONSTANT Task                 (* the task ids                              *)

VARIABLES status,             (* status[t]: what the service reports of t  *)
          saved               (* saved[t]:  what record.json says of t     *)

lifecycleVars == <<status, saved>>

Live     == {"pending", "running"}
Outcome  == {"succeeded", "failed"}
Terminal == Outcome \cup {"cancelled"}
Status   == {"absent"} \cup Live \cup Terminal

Rank == [s \in Status |-> CASE s = "absent"    -> 0
                            [] s = "pending"   -> 1
                            [] s = "running"   -> 2
                            [] s \in Outcome   -> 3
                            [] s = "cancelled" -> 4]

(* r is s itself or a status a task passes through before s.               *)
NoLaterThan(r, s) == r = s \/ Rank[r] < Rank[s]

(* What the boot scan makes of a record it finds on disk.                  *)
Recovered(s) == IF s \in Live THEN "failed" ELSE s
-----------------------------------------------------------------------------
Init == /\ status = [t \in Task |-> "absent"]
        /\ saved  = [t \in Task |-> "absent"]

Move(t, from, to) == /\ status[t] \in from
                     /\ status' = [status EXCEPT ![t] = to]
                     /\ UNCHANGED saved

Create(t)  == Move(t, {"absent"}, "pending")
Start(t)   == Move(t, {"pending"}, "running")
Succeed(t) == Move(t, {"running"}, "succeeded")
Fail(t)    == Move(t, {"running"}, "failed")

(* A cancel may also overtake an outcome that was being recorded.          *)
Cancel(t)  == Move(t, Live \cup Outcome, "cancelled")

(* The file catches up with the status, perhaps with an older one: the     *)
(* writers are not ordered.                                                *)
Save(t) == \E s \in Status :
             /\ NoLaterThan(s, status[t])
             /\ saved' = [saved EXCEPT ![t] = s]
             /\ UNCHANGED status

(* The backend comes up again with nothing but the files.                  *)
Restart == /\ status' = [t \in Task |-> Recovered(saved[t])]
           /\ \E rewritten \in SUBSET Task :
                saved' = [t \in Task |-> IF t \in rewritten
                                         THEN Recovered(saved[t])
                                         ELSE saved[t]]

Next == \/ \E t \in Task : \/ Create(t) \/ Start(t) \/ Succeed(t)
                           \/ Fail(t)   \/ Cancel(t) \/ Save(t)
        \/ Restart

LifecycleSpec == Init /\ [][Next]_lifecycleVars
=============================================================================
