----------------------------- MODULE TaskManager -----------------------------
(***************************************************************************)
(* api/services/task_manager.py: task records, the gate that lets one run  *)
(* at a time into the process pool, the progress queue that workers feed   *)
(* and the event loop drains, cooperative cancel from request threads,     *)
(* persistence of the records, orderly shutdown, and restart.              *)
(*                                                                         *)
(* Threads.  The event loop is one thread: a synchronous stretch of code   *)
(* on it (a lock block, the write of record.json, the publish) is not      *)
(* interleaved with another coroutine, but it is with the request threads  *)
(* (submit and cancel run in Starlette's thread pool) and with the worker  *)
(* process.  thread[th] is the stretch a thread is in the middle of.       *)
(***************************************************************************)
EXTENDS Naturals, Sequences, FiniteSets

CONSTANTS Task,         (* task ids; each is submitted at most once        *)
          Client,       (* request threads                                 *)
          Loop,         (* the event-loop thread                           *)
          NoTask,       (* holder of a free gate                           *)
          Script,       (* the stage events one run emits, in order        *)
          Endless,      (* tasks whose run ends only when it is told to    *)
          MaxRestarts,  (* bound: how often the backend restarts           *)
          MaxFaults     (* bound: how many writes of record.json fail      *)

Thread == {Loop} \cup Client

ASSUME TaskManagerAssumption ==
  /\ Loop \notin Client
  /\ NoTask \notin Task
  /\ IsFiniteSet(Task)
  /\ Endless \subseteq Task
  /\ Script \in Seq({"stage_start", "progress", "stage_end"})
  /\ MaxRestarts \in Nat /\ MaxFaults \in Nat

VARIABLES
  phase,      (* "up", "closing" (aclose began), "stopped" (pool is gone)  *)
  status,     (* status[t], stage[t]: the TaskRecord in memory; the record *)
  stage,      (*   declares one stage                                      *)
  disk,       (* disk[t]: the record in record.json                        *)
  thread,     (* thread[th]: what thread th is in the middle of            *)
  coro,       (* coro[t]: where the coroutine _gated_submit(t) is          *)
  gate,       (* the task whose coroutine holds _run_lock, or NoTask       *)
  worker,     (* worker[t]: the pool's work item for t                     *)
  emitted,    (* emitted[t]: how much of Script the worker has emitted     *)
  cancelSet,  (* tasks whose cancel event is set                           *)
  queue,      (* the Manager's progress queue                              *)
  barrier,    (* barrier[t]: the flush barrier of t                        *)
  draining,   (* the drain task is alive                                   *)
  poolOk,     (* the process pool is not broken                            *)
  opened,     (* tasks whose bus channel exists                            *)
  ends,       (* ends[t]: the terminal events published for t              *)
  closed,     (* tasks whose bus channel is closed                         *)
  restarts, faults  (* how much of the two bounds is used               *)

recVars  == <<status, stage>>
runVars  == <<coro, gate, worker, emitted, barrier, poolOk>>
busVars  == <<opened, ends, closed>>
cntVars  == <<restarts, faults>>
vars == <<phase, status, stage, disk, thread, coro, gate, worker, emitted,
          cancelSet, queue, barrier, draining, poolOk, opened, ends,
          closed, restarts, faults>>
-----------------------------------------------------------------------------
Live     == {"pending", "running"}
Outcome  == {"succeeded", "failed"}
Terminal == Outcome \cup {"cancelled"}
Status   == {"absent"} \cup Live \cup Terminal
Stage    == {"pending", "running", "succeeded"}

Record  == [status : Status, stage : Stage]
NoRecord == [status |-> "absent", stage |-> "pending"]
Current(t) == [status |-> status[t], stage |-> stage[t]]

(* On the wire three of these terminal events have the type "error": a     *)
(* runner's own, emitted before it raises, that of _on_error, and that of  *)
(* cancel.  What the bus does with the other events is ProgressStream's.   *)
StageEvent == {"stage_start", "progress", "stage_end"}
End        == {"worker_error", "done", "error", "cancelled"}
EventType  == StageEvent \cup End \cup {"none"}

(* A payload of the progress queue: an event, or the flush sentinel.       *)
Payload == [task : Task, type : StageEvent \cup {"worker_error", "flush"}]

(* A stretch of code on thread th: op is what it does for task, pc where   *)
(* it is, ev the event it publishes at its end, snap the record it has     *)
(* serialised and not yet moved into place.                                *)
Op  == {"none", "submit", "start", "event", "finish", "cancel"}
Pc  == {"idle", "cancel", "snapshot", "replace", "publish", "dispatch"}
Job == [pc : Pc, op : Op, task : Task \cup {NoTask}, ev : EventType, snap : Record]

Idle == [pc |-> "idle", op |-> "none", task |-> NoTask, ev |-> "none",
         snap |-> NoRecord]
Free(th) == thread[th] = Idle
Run(th, pc, op, t, ev) ==
  thread' = [thread EXCEPT ![th] = [pc |-> pc, op |-> op, task |-> t,
                                    ev |-> ev, snap |-> NoRecord]]
At(th, pc) == thread[th].pc = pc
Goto(th, pc) == thread' = [thread EXCEPT ![th].pc = pc]
Done(th) == thread' = [thread EXCEPT ![th] = Idle]

Release(t) == /\ coro' = [coro EXCEPT ![t] = "over"]
              /\ gate' = NoTask
              /\ barrier' = [barrier EXCEPT ![t] = "none"]

(* Fault: every event counts as an end.                                    *)
PublishAllAsEnds(t, ev) == /\ opened' = opened \cup {t}
                           /\ ends' = [ends EXCEPT ![t] = @ \cup {ev}]

Publish(t, ev) == /\ opened' = opened \cup {t}
                  /\ ends' = [ends EXCEPT ![t] = @ \cup ({ev} \cap End)]

Init ==
  /\ phase = "up"
  /\ status = [t \in Task |-> "absent"]
  /\ stage = [t \in Task |-> "pending"]
  /\ disk = [t \in Task |-> NoRecord]
  /\ thread = [th \in Thread |-> Idle]
  /\ coro = [t \in Task |-> "none"]
  /\ gate = NoTask
  /\ worker = [t \in Task |-> "none"]
  /\ emitted = [t \in Task |-> 0]
  /\ cancelSet = {}
  /\ queue = <<>>
  /\ barrier = [t \in Task |-> "none"]
  /\ draining = TRUE
  /\ poolOk = TRUE
  /\ opened = {}
  /\ ends = [t \in Task |-> {}]
  /\ closed = {}
  /\ restarts = 0 /\ faults = 0
-----------------------------------------------------------------------------
(* _persist, on whichever thread runs it: serialise the record as it is    *)
(* now, then move the file into place.  No lock is held at either step.    *)

Snapshot(th) ==
  /\ At(th, "snapshot")
  /\ thread' = [thread EXCEPT ![th].snap = Current(thread[th].task),
                              ![th].pc = "replace"]
  /\ UNCHANGED <<phase, recVars, disk, runVars, cancelSet, queue, draining,
                 busVars, cntVars>>

Replace(th) ==
  /\ At(th, "replace")
  /\ disk' = [disk EXCEPT ![thread[th].task] = thread[th].snap]
  /\ Goto(th, "publish")
  /\ UNCHANGED <<phase, recVars, runVars, cancelSet, queue, draining, busVars,
                 cntVars>>

(* The write raises OSError.  A submit or cancel request fails with it; in *)
(* _gated_submit it ends the coroutine and gives the gate back; on the     *)
(* drain path nothing catches it and the drain task dies.                  *)
PersistFails(th) ==
  /\ At(th, "replace")
  /\ faults < MaxFaults
  /\ faults' = faults + 1
  /\ Done(th)
  /\ IF thread[th].op \in {"start", "finish"}
     THEN Release(thread[th].task)
     ELSE UNCHANGED <<coro, gate, barrier>>
  /\ draining' = (draining /\ thread[th].op # "event")
  /\ UNCHANGED <<phase, recVars, disk, worker, emitted, poolOk, cancelSet,
                 queue, busVars, restarts>>
-----------------------------------------------------------------------------
(* Request threads.                                                        *)

(* submit: create the record under the lock, persist it, hand the          *)
(* coroutine to the loop.                                                  *)
Submit(c, t) ==
  /\ Free(c)
  /\ phase # "stopped"
  /\ status[t] = "absent"
  /\ status' = [status EXCEPT ![t] = "pending"]
  /\ Run(c, "snapshot", "submit", t, "none")
  /\ UNCHANGED <<phase, stage, disk, runVars, cancelSet, queue, draining,
                 busVars, cntVars>>

Schedule(c) ==
  /\ At(c, "publish") /\ thread[c].op = "submit"
  /\ coro' = [coro EXCEPT ![thread[c].task] = "queued"]
  /\ Done(c)
  /\ UNCHANGED <<phase, recVars, disk, gate, worker, emitted, barrier, poolOk,
                 cancelSet, queue, draining, busVars, cntVars>>

(* cancel, the part under the lock: refuse a terminal task, set the cancel *)
(* event (a stopped Manager raises), cancel the future (which only succeeds *)
(* before the worker runs).                                                *)
CancelCheck(c, t) ==
  /\ Free(c)
  /\ phase # "stopped"
  /\ status[t] \in Live
  /\ cancelSet' = cancelSet \cup {t}
  /\ worker' = [worker EXCEPT ![t] = IF @ = "queued" THEN "dropped" ELSE @]
  /\ Run(c, "cancel", "cancel", t, "cancelled")
  /\ UNCHANGED <<phase, recVars, disk, coro, gate, emitted, barrier, poolOk,
                 queue, draining, busVars, cntVars>>

(* Fault: an outcome recorded meanwhile stays, and is still announced as a *)
(* cancel.                                                                 *)
CancelFinalizeKeeps(c) ==
  /\ At(c, "cancel")
  /\ status' = [status EXCEPT ![thread[c].task] =
                  IF @ \in Terminal THEN @ ELSE "cancelled"]
  /\ Goto(c, "snapshot")
  /\ UNCHANGED <<phase, stage, disk, runVars, cancelSet, queue, draining,
                 busVars, cntVars>>

(* cancel, after the lock was given back: _finalize(cancelled_ok=False).   *)
CancelFinalize(c) ==
  /\ At(c, "cancel")
  /\ status' = [status EXCEPT ![thread[c].task] = "cancelled"]
  /\ Goto(c, "snapshot")
  /\ UNCHANGED <<phase, stage, disk, runVars, cancelSet, queue, draining,
                 busVars, cntVars>>

(* Fault: the cancel path does not close the channel.                      *)
CancelPublishOpen(c) ==
  /\ At(c, "publish") /\ thread[c].op = "cancel"
  /\ Publish(thread[c].task, thread[c].ev)
  /\ Done(c)
  /\ UNCHANGED <<phase, recVars, disk, runVars, cancelSet, queue, draining,
                 closed, cntVars>>

CancelPublish(c) ==
  /\ At(c, "publish") /\ thread[c].op = "cancel"
  /\ Publish(thread[c].task, thread[c].ev)
  /\ closed' = closed \cup {thread[c].task}
  /\ Done(c)
  /\ UNCHANGED <<phase, recVars, disk, runVars, cancelSet, queue, draining,
                 cntVars>>
-----------------------------------------------------------------------------
(* The coroutine _gated_submit(t), on the event loop.                      *)

(* Fault: the semaphore is not consulted.                                  *)
AdmitUngated(t) ==
  /\ Free(Loop)
  /\ coro[t] = "queued"
  /\ phase = "up"
  /\ status[t] # "cancelled"
  /\ gate' = t
  /\ coro' = [coro EXCEPT ![t] = "starting"]
  /\ status' = [status EXCEPT ![t] = "running"]
  /\ Run(Loop, "snapshot", "start", t, "stage_start")
  /\ UNCHANGED <<phase, stage, disk, worker, emitted, barrier, poolOk,
                 cancelSet, queue, draining, busVars, cntVars>>

(* Admitted by the semaphore: re-check, then mark the record RUNNING.      *)
Admit(t) ==
  /\ Free(Loop)
  /\ coro[t] = "queued" /\ gate = NoTask
  /\ phase = "up"
  /\ status[t] # "cancelled"
  /\ gate' = t
  /\ coro' = [coro EXCEPT ![t] = "starting"]
  /\ status' = [status EXCEPT ![t] = "running"]
  /\ Run(Loop, "snapshot", "start", t, "stage_start")
  /\ UNCHANGED <<phase, stage, disk, worker, emitted, barrier, poolOk,
                 cancelSet, queue, draining, busVars, cntVars>>

(* Admitted too late: the service is closing, or the task was cancelled.   *)
TurnAway(t) ==
  /\ Free(Loop)
  /\ coro[t] = "queued" /\ gate = NoTask
  /\ phase # "up" \/ status[t] = "cancelled"
  /\ coro' = [coro EXCEPT ![t] = "over"]
  /\ UNCHANGED <<phase, recVars, disk, thread, gate, worker, emitted, barrier,
                 poolOk, cancelSet, queue, draining, busVars, cntVars>>

PublishStart ==
  /\ At(Loop, "publish") /\ thread[Loop].op = "start"
  /\ Publish(thread[Loop].task, thread[Loop].ev)
  /\ barrier' = [barrier EXCEPT ![thread[Loop].task] = "armed"]
  /\ Goto(Loop, "dispatch")
  /\ UNCHANGED <<phase, recVars, disk, coro, gate, worker, emitted, poolOk,
                 cancelSet, queue, draining, closed, cntVars>>

(* pool.submit.  A broken pool raises here, outside every handler: the     *)
(* gate is given back and the record stays as it is.  The barrier stays    *)
(* armed, since only the later try block pops it.                          *)
Dispatch ==
  /\ At(Loop, "dispatch")
  /\ LET t == thread[Loop].task IN
       IF poolOk
       THEN /\ worker' = [worker EXCEPT ![t] = "queued"]
            /\ coro' = [coro EXCEPT ![t] = "awaiting"]
            /\ UNCHANGED gate
       ELSE /\ coro' = [coro EXCEPT ![t] = "over"]
            /\ gate' = NoTask
            /\ UNCHANGED worker
  /\ Done(Loop)
  /\ UNCHANGED <<phase, recVars, disk, emitted, barrier, poolOk, cancelSet,
                 queue, draining, busVars, cntVars>>

(* wrap_future delivers the future's result or exception.                  *)
Resume(t) ==
  /\ Free(Loop)
  /\ coro[t] = "awaiting"
  /\ worker[t] \in {"returned", "raised", "broken"}
  /\ coro' = [coro EXCEPT ![t] = "barrier"]
  /\ UNCHANGED <<phase, recVars, disk, thread, gate, worker, emitted, barrier,
                 poolOk, cancelSet, queue, draining, busVars, cntVars>>

(* Fault: the CancelledError path keeps the gate.                          *)
ResumeCancelledKeepsGate(t) ==
  /\ Free(Loop)
  /\ coro[t] = "awaiting" /\ worker[t] = "dropped"
  /\ coro' = [coro EXCEPT ![t] = "over"]
  /\ UNCHANGED <<phase, recVars, disk, thread, gate, worker, emitted, barrier,
                 poolOk, cancelSet, queue, draining, busVars, cntVars>>

(* wrap_future raises CancelledError, which is passed on.                  *)
ResumeCancelled(t) ==
  /\ Free(Loop)
  /\ coro[t] = "awaiting" /\ worker[t] = "dropped"
  /\ Release(t)
  /\ UNCHANGED <<phase, recVars, disk, thread, worker, emitted, poolOk,
                 cancelSet, queue, draining, busVars, cntVars>>

(* Fault: a late outcome overrides a cancel.                               *)
FinalizeOverCancel(t) ==
  /\ Free(Loop)
  /\ coro[t] = "barrier"
  /\ LET ok == worker[t] = "returned" IN
       /\ status' = [status EXCEPT ![t] = IF ok THEN "succeeded" ELSE "failed"]
       /\ Run(Loop, "snapshot", "finish", t, IF ok THEN "done" ELSE "error")
  /\ coro' = [coro EXCEPT ![t] = "finishing"]
  /\ UNCHANGED <<phase, stage, disk, gate, worker, emitted, barrier, poolOk,
                 cancelSet, queue, draining, busVars, cntVars>>

(* Past the drain barrier, whether it was set or its timeout ran out first *)
(* (barrier[t] says which): the lock block of _finalize.  A task cancelled *)
(* meanwhile stays cancelled.                                              *)
Finalize(t) ==
  /\ Free(Loop)
  /\ coro[t] = "barrier"
  /\ status[t] # "cancelled"
  /\ LET ok == worker[t] = "returned" IN
       /\ status' = [status EXCEPT ![t] = IF ok THEN "succeeded" ELSE "failed"]
       /\ Run(Loop, "snapshot", "finish", t, IF ok THEN "done" ELSE "error")
  /\ coro' = [coro EXCEPT ![t] = "finishing"]
  /\ UNCHANGED <<phase, stage, disk, gate, worker, emitted, barrier, poolOk,
                 cancelSet, queue, draining, busVars, cntVars>>

(* Fault: a run that was cancelled does not give the gate back.            *)
FinalizeCancelledKeepsGate(t) ==
  /\ Free(Loop)
  /\ coro[t] = "barrier"
  /\ status[t] = "cancelled"
  /\ coro' = [coro EXCEPT ![t] = "over"]
  /\ UNCHANGED <<phase, recVars, disk, thread, gate, worker, emitted, barrier,
                 poolOk, cancelSet, queue, draining, busVars, cntVars>>

FinalizeCancelled(t) ==
  /\ Free(Loop)
  /\ coro[t] = "barrier"
  /\ status[t] = "cancelled"
  /\ Release(t)
  /\ UNCHANGED <<phase, recVars, disk, thread, worker, emitted, poolOk,
                 cancelSet, queue, draining, busVars, cntVars>>

PublishEnd ==
  /\ At(Loop, "publish") /\ thread[Loop].op = "finish"
  /\ Publish(thread[Loop].task, thread[Loop].ev)
  /\ closed' = closed \cup {thread[Loop].task}
  /\ Release(thread[Loop].task)
  /\ Done(Loop)
  /\ UNCHANGED <<phase, recVars, disk, worker, emitted, poolOk, cancelSet,
                 queue, draining, cntVars>>
-----------------------------------------------------------------------------
(* The worker process.                                                     *)

WorkerStart(t) ==
  /\ worker[t] = "queued" /\ phase # "stopped"
  /\ worker' = [worker EXCEPT ![t] = "running"]
  /\ UNCHANGED <<phase, recVars, disk, thread, coro, gate, emitted, barrier,
                 poolOk, cancelSet, queue, draining, busVars, cntVars>>

Emit(t) ==
  /\ worker[t] = "running"
  /\ emitted[t] < Len(Script)
  /\ emitted' = [emitted EXCEPT ![t] = @ + 1]
  /\ queue' = Append(queue, [task |-> t, type |-> Script[emitted[t] + 1]])
  /\ UNCHANGED <<phase, recVars, disk, thread, coro, gate, worker, barrier,
                 poolOk, cancelSet, draining, busVars, cntVars>>

(* Fault: the sentinel is put before the error event.                      *)
WorkerEndFlushFirst(t) ==
  /\ worker[t] = "running"
  /\ LET flush == [task |-> t, type |-> "flush"]
         error == [task |-> t, type |-> "worker_error"]
     IN \/ /\ emitted[t] = Len(Script)
           /\ worker' = [worker EXCEPT ![t] = "returned"]
           /\ queue' = Append(queue, flush)
        \/ /\ worker' = [worker EXCEPT ![t] = "raised"]
           /\ queue' = Append(Append(queue, flush), error)
  /\ UNCHANGED <<phase, recVars, disk, thread, coro, gate, emitted, barrier,
                 poolOk, cancelSet, draining, busVars, cntVars>>

(* The runner returns or raises (at the latest when it sees its cancel     *)
(* event); some raise after an error event of their own.  The trampoline's *)
(* finally puts the sentinel behind everything the run emitted.            *)
WorkerEnd(t) ==
  /\ worker[t] = "running"
  /\ LET flush == [task |-> t, type |-> "flush"]
         error == [task |-> t, type |-> "worker_error"]
     IN \/ /\ emitted[t] = Len(Script)
           /\ worker' = [worker EXCEPT ![t] = "returned"]
           /\ queue' = Append(queue, flush)
        \/ /\ worker' = [worker EXCEPT ![t] = "raised"]
           /\ \/ queue' = Append(queue, flush)
              \/ queue' = Append(Append(queue, error), flush)
  /\ UNCHANGED <<phase, recVars, disk, thread, coro, gate, emitted, barrier,
                 poolOk, cancelSet, draining, busVars, cntVars>>

(* A process of the pool dies: every work item that is not home yet fails, *)
(* and so does every later pool.submit.                                    *)
PoolBreaks ==
  /\ poolOk /\ phase # "stopped"
  /\ \E t \in Task : worker[t] # "none"
  /\ poolOk' = FALSE
  /\ worker' = [t \in Task |-> IF coro[t] = "awaiting" /\ worker[t] # "dropped"
                               THEN "broken" ELSE worker[t]]
  /\ UNCHANGED <<phase, recVars, disk, thread, coro, gate, emitted, barrier,
                 cancelSet, queue, draining, busVars, cntVars>>
-----------------------------------------------------------------------------
(* The drain task, on the event loop.                                      *)

DrainSentinel ==
  /\ Free(Loop) /\ draining
  /\ queue # <<>> /\ Head(queue).type = "flush"
  /\ queue' = Tail(queue)
  /\ LET t == Head(queue).task IN
       barrier' = [barrier EXCEPT ![t] = IF @ = "none" THEN "none" ELSE "set"]
  /\ UNCHANGED <<phase, recVars, disk, thread, coro, gate, worker, emitted,
                 poolOk, cancelSet, draining, busVars, cntVars>>

(* _update_stage: only the start and the end of the declared stage change  *)
(* its status, and only a change is persisted.                             *)
StageAfter(ev, s) == CASE ev = "stage_start" -> "running"
                       [] ev = "stage_end"   -> "succeeded"
                       [] OTHER              -> s

(* Fault: events of a task that has ended do not reach its stage row.      *)
DrainEventLiveOnly ==
  /\ Free(Loop) /\ draining
  /\ queue # <<>> /\ Head(queue).type # "flush"
  /\ queue' = Tail(queue)
  /\ LET t == Head(queue).task
         ev == Head(queue).type
     IN /\ stage' = [stage EXCEPT ![t] = IF status[t] \in Live
                                         THEN StageAfter(ev, @) ELSE @]
        /\ Run(Loop, "publish", "event", t, ev)
  /\ UNCHANGED <<phase, status, disk, runVars, cancelSet, draining, busVars,
                 cntVars>>

(* Fault: a changed stage row is not persisted.                            *)
DrainEventUnsaved ==
  /\ Free(Loop) /\ draining
  /\ queue # <<>> /\ Head(queue).type # "flush"
  /\ queue' = Tail(queue)
  /\ LET t == Head(queue).task
         ev == Head(queue).type
     IN /\ stage' = [stage EXCEPT ![t] = StageAfter(ev, @)]
        /\ Run(Loop, "publish", "event", t, ev)
  /\ UNCHANGED <<phase, status, disk, runVars, cancelSet, draining, busVars,
                 cntVars>>

DrainEvent ==
  /\ Free(Loop) /\ draining
  /\ queue # <<>> /\ Head(queue).type # "flush"
  /\ queue' = Tail(queue)
  /\ LET t == Head(queue).task
         ev == Head(queue).type
     IN /\ stage' = [stage EXCEPT ![t] = StageAfter(ev, @)]
        /\ Run(Loop, IF ev \in {"stage_start", "stage_end"}
                  THEN "snapshot" ELSE "publish",
               "event", t, ev)
  /\ UNCHANGED <<phase, status, disk, runVars, cancelSet, draining, busVars,
                 cntVars>>

PublishEvent ==
  /\ At(Loop, "publish") /\ thread[Loop].op = "event"
  /\ Publish(thread[Loop].task, thread[Loop].ev)
  /\ Done(Loop)
  /\ UNCHANGED <<phase, recVars, disk, runVars, cancelSet, queue, draining,
                 closed, cntVars>>
-----------------------------------------------------------------------------
(* Shutdown and restart.                                                   *)

(* aclose: refuse new runs and ask every live task's worker to stop.       *)
Close ==
  /\ Free(Loop) /\ phase = "up"
  /\ phase' = "closing"
  /\ cancelSet' = cancelSet \cup {t \in Task : status[t] \in Live}
  /\ UNCHANGED <<recVars, disk, thread, runVars, queue, draining, busVars,
                 cntVars>>

(* The grace period is over, or no worker is left: stop the drain task,    *)
(* close every channel, drop what the pool holds and kill its workers.     *)
Stop ==
  /\ Free(Loop) /\ phase = "closing"
  /\ phase' = "stopped"
  /\ draining' = FALSE
  /\ closed' = closed \cup opened
  /\ worker' = [t \in Task |-> CASE worker[t] = "queued"  -> "dropped"
                                 [] worker[t] = "running" -> "broken"
                                 [] OTHER                 -> worker[t]]
  /\ UNCHANGED <<recVars, disk, thread, coro, gate, emitted, barrier, poolOk,
                 cancelSet, queue, opened, ends, cntVars>>

(* Fault: the boot scan makes an orphan runnable again.                    *)
RecoveredRunnable(r) ==
  IF r.status \in Live THEN [r EXCEPT !.status = "pending"] ELSE r

(* load_from_disk: a record found running has nobody left to run it.       *)
Recovered(r) == IF r.status \in Live THEN [r EXCEPT !.status = "failed"] ELSE r

(* The process exits, at any point and in any way, and is started again:   *)
(* load_from_disk fails the orphans and rewrites their records as far as   *)
(* the disk lets it.                                                       *)
Restart ==
  /\ restarts < MaxRestarts
  /\ restarts' = restarts + 1
  /\ LET orphans == {t \in Task : disk[t].status \in Live} IN
       \E unsaved \in SUBSET orphans :
         /\ faults + Cardinality(unsaved) <= MaxFaults
         /\ faults' = faults + Cardinality(unsaved)
         /\ disk' = [t \in Task |-> IF t \in unsaved THEN disk[t]
                                    ELSE Recovered(disk[t])]
  /\ status' = [t \in Task |-> Recovered(disk[t]).status]
  /\ stage' = [t \in Task |-> disk[t].stage]
  /\ phase' = "up"
  /\ thread' = [th \in Thread |-> Idle]
  /\ coro' = [t \in Task |-> "none"]
  /\ gate' = NoTask
  /\ worker' = [t \in Task |-> "none"]
  /\ emitted' = [t \in Task |-> 0]
  /\ cancelSet' = {}
  /\ queue' = <<>>
  /\ barrier' = [t \in Task |-> "none"]
  /\ draining' = TRUE
  /\ poolOk' = TRUE
  /\ opened' = {}
  /\ ends' = [t \in Task |-> {}]
  /\ closed' = {}
-----------------------------------------------------------------------------
Persisting(th) == Snapshot(th) \/ Replace(th) \/ PersistFails(th)

Request(c) == \/ \E t \in Task : Submit(c, t) \/ CancelCheck(c, t)
              \/ Schedule(c) \/ CancelFinalize(c) \/ CancelPublish(c)

GatedSubmit(t) == \/ Admit(t) \/ TurnAway(t) \/ Resume(t) \/ ResumeCancelled(t)
                  \/ Finalize(t) \/ FinalizeCancelled(t)

Worker(t) == WorkerStart(t) \/ Emit(t) \/ WorkerEnd(t)

Drain == DrainSentinel \/ DrainEvent

LoopStretch == PublishStart \/ Dispatch \/ PublishEnd \/ PublishEvent

Next == \/ \E th \in Thread : Persisting(th)
        \/ \E c \in Client : Request(c)
        \/ \E t \in Task : GatedSubmit(t) \/ Worker(t)
        \/ PoolBreaks \/ Drain \/ LoopStretch
        \/ Close \/ Stop \/ Restart

Spec == Init /\ [][Next]_vars

(* The loop, a request in progress and a worker keep going; a run ends by  *)
(* itself unless it is Endless, and a cancelled one ends in any case.      *)
(* Nobody has to submit, cancel, close or restart, and nothing has to      *)
(* break.                                                                  *)
Writes(th) == Snapshot(th) \/ Replace(th)
Runs(t) == \/ WorkerStart(t) \/ Emit(t)
           \/ WorkerEnd(t) /\ (t \in cancelSet \/ t \notin Endless)
Fairness ==
  /\ WF_vars(Writes(Loop) \/ LoopStretch)
  /\ \A c \in Client :
       WF_vars(Writes(c) \/ Schedule(c) \/ CancelFinalize(c) \/ CancelPublish(c))
  /\ \A t \in Task : WF_vars(GatedSubmit(t)) /\ WF_vars(Runs(t))
  /\ WF_vars(Drain)

FairSpec == Spec /\ Fairness
-----------------------------------------------------------------------------
TypeOK ==
  /\ phase \in {"up", "closing", "stopped"}
  /\ status \in [Task -> Status]
  /\ stage \in [Task -> Stage]
  /\ disk \in [Task -> Record]
  /\ thread \in [Thread -> Job]
  /\ coro \in [Task -> {"none", "queued", "starting", "awaiting", "barrier",
                        "finishing", "over"}]
  /\ gate \in Task \cup {NoTask}
  /\ worker \in [Task -> {"none", "queued", "running", "returned", "raised",
                          "dropped", "broken"}]
  /\ emitted \in [Task -> 0..Len(Script)]
  /\ cancelSet \subseteq Task
  /\ queue \in Seq(Payload)
  /\ barrier \in [Task -> {"none", "armed", "set"}]
  /\ draining \in BOOLEAN
  /\ poolOk \in BOOLEAN
  /\ opened \subseteq Task
  /\ ends \in [Task -> SUBSET End]
  /\ closed \subseteq Task
  /\ restarts \in Nat
  /\ faults \in Nat
-----------------------------------------------------------------------------
(* The promise: TaskManager implements TaskLifecycle.  saved is the status *)
(* in record.json.                                                         *)
Saved == [t \in Task |-> disk[t].status]
Lifecycle == INSTANCE TaskLifecycle WITH saved <- Saved

(* Every step of the service is a step of the promise or invisible to it:  *)
(* statuses only move forward while the backend lives, a record file never *)
(* runs ahead of memory although three kinds of threads write it without a *)
(* lock, and a restart shows what the files support.                       *)
ImplementsLifecycle == Lifecycle!LifecycleSpec

(* At most one worker process executes a task: the semaphore really gates  *)
(* the pool, also when runs are cancelled, crash, or fail to be recorded.  *)
Busy(t) == worker[t] \in {"queued", "running"}
RunsAlone == \A t, u \in Task : Busy(t) /\ Busy(u) => t = u

(* The drain barrier: once it is set, nothing the worker emitted is still  *)
(* in the queue, so the terminal event published behind it is the last.    *)
BarrierDrained ==
  \A t \in Task : barrier[t] = "set" =>
                    \A i \in DOMAIN queue : queue[i].task # t

(* ... and the stage row of the record shows all that the run did.         *)
StageUpTo[n \in 0..Len(Script)] ==
  IF n = 0 THEN "pending" ELSE StageAfter(Script[n], StageUpTo[n - 1])
StageRowComplete ==
  \A t \in Task : barrier[t] = "set" => stage[t] = StageUpTo[emitted[t]]

(* The user-visible cancel wins: while the backend lives no late result,   *)
(* error or stage event takes a task out of CANCELLED.                     *)
CancelWins ==
  [][restarts' = restarts =>
       \A t \in Task : status[t] = "cancelled" => status'[t] = "cancelled"]_vars

(* When no thread is in the middle of a change to t and no write failed,   *)
(* record.json holds the record.  (A cancelled task is the exception: see  *)
(* the hazard of the unordered writers.)                                   *)
Quiet(t) == \A th \in Thread : thread[th].task # t
DurableWhenQuiet ==
  faults = 0 => \A t \in Task : Quiet(t) /\ status[t] # "cancelled"
                                  => disk[t] = Current(t)

(* What subscribers were told is what the record says: done only of a task *)
(* recorded as succeeded, error only of one recorded as failed, unless a   *)
(* cancel overtook it; and never both.                                     *)
AnnouncedIsRecorded ==
  \A t \in Task :
    /\ "done" \in ends[t] => status[t] \in {"succeeded", "cancelled"}
    /\ "error" \in ends[t] => status[t] \in {"failed", "cancelled"}
    /\ "cancelled" \in ends[t] => status[t] = "cancelled"
    /\ ~ ({"done", "error"} \subseteq ends[t])

(* A submitted task ends, unless the backend is shut down, lost it in a    *)
(* crash, could not write its record or lost its pool, and unless it waits *)
(* behind a run that nobody stops.                                         *)
StandsStill == phase # "up" \/ ~ poolOk \/ faults > 0
TaskEnds ==
  \A t \in Task :
    (status[t] = "pending") ~>
      (\/ status[t] \in Terminal \cup {"absent"}
       \/ StandsStill
       \/ \E u \in Endless : gate = u /\ u \notin cancelSet)

(* Whoever follows a task that ended is released: its channel is closed.   *)
EndIsAnnounced ==
  \A t \in Task :
    (status[t] \in Terminal) ~> (t \in closed \/ faults > 0 \/ restarts > 0)

(* Cancelling a run gives the gate back, however long it would have run.   *)
CancelFreesGate ==
  \A t \in Task : (gate = t /\ t \in cancelSet) ~> (gate # t)

(* What the cancel route documents: a terminal task stays as it is (409).  *)
TerminalIsFinal ==
  [][restarts' = restarts =>
       \A t \in Task : status[t] \in Terminal => status'[t] = status[t]]_vars

(* What the API documents of the terminal event: it reports the end that   *)
(* the record shows.                                                       *)
EndMeansTerminal ==
  \A t \in Task : ends[t] # {} => status[t] \in Terminal
=============================================================================
