-------------------------- MODULE TaskManagerProofs --------------------------
(***************************************************************************)
(* Proofs about TaskManager, for every number of tasks, clients, stage     *)
(* events, restarts and faults.                                            *)
(*                                                                         *)
(* IInv is the inductive invariant.  Its conjuncts say how the pieces of   *)
(* state that different threads own fit together: what the thread of a     *)
(* stretch may rely on (JobsFit), who owns the gate (GateOwner), that a    *)
(* work item of the pool has its coroutine waiting for it (BusyAwaited,    *)
(* FreshWorker), where a task is in its life when its coroutine is at a    *)
(* given place (CoroStatus), and how the progress queue and the barrier    *)
(* relate to the worker that feeds them (SentinelLast, QueueFed).          *)
(* Three more inductive invariants (Told, Saves, Shows) follow on top.     *)
(***************************************************************************)
EXTENDS TaskManager, Induction, FiniteSetTheorems, TLAPS

Holding == {"starting", "awaiting", "barrier", "finishing"}

(* A stretch belongs to the thread that may run it, and its task is where  *)
(* the stretch needs it to be.                                             *)
JobFits(th) ==
  LET j == thread[th] IN
    /\ j.pc = "idle" <=> j.op = "none"
    /\ j.op # "none" => j.task \in Task /\ status[j.task] # "absent"
    /\ j.op \in {"start", "finish", "event"} <=> (th = Loop /\ j.op # "none")
    /\ j.op = "submit" => /\ coro[j.task] = "none"
                          /\ status[j.task] \in {"pending", "cancelled"}
    /\ j.op = "start" => coro[j.task] = "starting"
    /\ j.op = "finish" => coro[j.task] = "finishing"
    /\ j.pc = "dispatch" => j.op = "start"
    /\ j.pc = "cancel" => j.op = "cancel"
    /\ j.pc = "replace" => Lifecycle!NoLaterThan(j.snap.status, status[j.task])

JobsFit == \A th \in Thread : JobFits(th)

(* No two requests submit the same task.                                   *)
SubmitOnce ==
  \A c, d \in Client : /\ thread[c].op = "submit" /\ thread[d].op = "submit"
                       /\ thread[c].task = thread[d].task
                       => c = d

GateOwner == \A t \in Task : coro[t] \in Holding => gate = t

BusyAwaited == \A t \in Task : Busy(t) => coro[t] = "awaiting"

FreshWorker ==
  \A t \in Task :
    coro[t] \in {"none", "queued", "starting"} => worker[t] = "none"

CoroStatus ==
  \A t \in Task :
    /\ status[t] = "absent" => coro[t] = "none"
    /\ coro[t] = "none" => status[t] # "running"
    /\ coro[t] = "queued" => status[t] \in {"pending", "cancelled"}
    /\ coro[t] \in {"starting", "awaiting", "barrier"} =>
         status[t] \in {"running", "cancelled"}

(* The sentinel of a task is the last of its payloads.                     *)
SentinelLast ==
  \A i, j \in DOMAIN queue :
    i < j /\ queue[i].type = "flush" => queue[j].task # queue[i].task

(* Only a started worker feeds the queue, and it has ended when its        *)
(* sentinel is there or was.                                               *)
QueueFed ==
  /\ \A i \in DOMAIN queue :
       LET w == worker[queue[i].task] IN
         /\ w # "none" /\ w # "queued" /\ w # "dropped"
         /\ status[queue[i].task] # "absent"
         /\ queue[i].type = "flush" => w # "running"
  /\ \A t \in Task :
       barrier[t] = "set" => worker[t] \notin {"none", "queued", "running"}

CoroInv == GateOwner /\ BusyAwaited /\ FreshWorker /\ CoroStatus
JobInv  == JobsFit /\ SubmitOnce

IInv ==
  /\ TypeOK /\ JobInv /\ CoroInv
  /\ SentinelLast /\ QueueFed /\ BarrierDrained
-----------------------------------------------------------------------------
(* One step of the service, by its actions.                                *)
LEMMA IdleIsJob == Idle \in Job
BY DEF Idle, Job, Pc, Op, EventType, Record, NoRecord, Status, Stage, Live,
   Terminal, Outcome

LEMMA TypeInit == Init => TypeOK
<1> SUFFICES ASSUME Init PROVE TypeOK
  OBVIOUS
<1>1. thread \in [Thread -> Job]
  BY IdleIsJob DEF Init
<1>2. disk \in [Task -> Record]
  BY DEF Init, Record, NoRecord, Status, Stage, Live, Terminal, Outcome
<1>3. QED
  BY <1>1, <1>2, TaskManagerAssumption DEF Init, TypeOK, Status, Stage

(* The forms in which a stretch of code moves on keep thread well-typed.   *)
LEMMA ThreadTyped ==
  ASSUME thread \in [Thread -> Job], NEW th \in Thread
  PROVE  /\ \A pc \in Pc : [thread EXCEPT ![th].pc = pc] \in [Thread -> Job]
         /\ [thread EXCEPT ![th] = Idle] \in [Thread -> Job]
         /\ \A r \in Record : [thread EXCEPT ![th].snap = r, ![th].pc = "replace"]
                               \in [Thread -> Job]
         /\ \A pc \in Pc, op \in Op, t \in Task, ev \in EventType :
              [thread EXCEPT ![th] = [pc |-> pc, op |-> op, task |-> t, ev |-> ev,
                                      snap |-> NoRecord]] \in [Thread -> Job]
<1>1. ASSUME NEW j \in Job PROVE [thread EXCEPT ![th] = j] \in [Thread -> Job]
  OBVIOUS
<1>2. thread[th] \in Job /\ NoRecord \in Record /\ "replace" \in Pc
  BY DEF NoRecord, Record, Status, Stage, Live, Terminal, Outcome, Pc
<1>3. \A pc \in Pc : [thread[th] EXCEPT !.pc = pc] \in Job
  BY <1>2 DEF Job
<1>4. \A pc \in Pc : [thread EXCEPT ![th].pc = pc]
                     = [thread EXCEPT ![th] = [@ EXCEPT !.pc = pc]]
  OBVIOUS
<1>5. \A r \in Record : [thread[th] EXCEPT !.snap = r, !.pc = "replace"] \in Job
  BY <1>2 DEF Job
<1>6. \A r \in Record :
        [thread EXCEPT ![th].snap = r, ![th].pc = "replace"]
      = [thread EXCEPT ![th] = [@ EXCEPT !.snap = r, !.pc = "replace"]]
  OBVIOUS
<1>7. QED
  BY <1>1, <1>2, <1>3, <1>4, <1>5, <1>6, IdleIsJob DEF Job

(* What a thread may rely on in the middle of a stretch.                   *)
LEMMA Stretch ==
  ASSUME TypeOK, JobsFit, NEW th \in Thread, thread[th].pc # "idle"
  PROVE  /\ thread[th].task \in Task
         /\ thread[th].op # "none"
         /\ thread[th].ev \in EventType
         /\ thread[th].snap \in Record
         /\ Current(thread[th].task) \in Record
<1>1. thread[th] \in Job /\ JobFits(th)
  BY DEF TypeOK, JobsFit
<1>2. thread[th].task \in Task
  BY <1>1 DEF JobFits
<1>3. QED
  BY <1>1, <1>2 DEF JobFits, Job, TypeOK, Current, Record

LEMMA TypeNext == TypeOK /\ JobsFit /\ Next => TypeOK'
<1> SUFFICES ASSUME TypeOK, JobsFit,
                    Next
             PROVE  TypeOK'
  OBVIOUS
<1> USE TaskManagerAssumption
<1>0. /\ thread \in [Thread -> Job] /\ Loop \in Thread /\ Client \subseteq Thread
      /\ {"replace", "publish", "dispatch", "snapshot"} \subseteq Pc
  BY DEF TypeOK, Thread, Pc
<1>1. ASSUME NEW th \in Thread, Snapshot(th) PROVE TypeOK'
  <2>1. thread' \in [Thread -> Job]
    BY <1>0, <1>1, ThreadTyped, Stretch DEF Snapshot, At
  <2>2. QED
    BY <1>1, <2>1 DEF Snapshot, TypeOK, recVars, runVars, busVars, cntVars
<1>2. ASSUME NEW th \in Thread, Replace(th) PROVE TypeOK'
  <2>1. thread' \in [Thread -> Job]
    BY <1>0, <1>2, ThreadTyped DEF Replace, Goto
  <2>2. QED
    BY <1>2, <2>1, Stretch DEF Replace, At, TypeOK, recVars, runVars,
       busVars, cntVars
<1>3. ASSUME NEW th \in Thread, PersistFails(th) PROVE TypeOK'
  <2>1. thread' \in [Thread -> Job]
    BY <1>0, <1>3, ThreadTyped DEF PersistFails, Done
  <2>2. thread[th].task \in Task
    BY <1>3, Stretch DEF PersistFails, At
  <2>3. /\ coro' \in [Task -> {"none", "queued", "starting", "awaiting", "barrier",
                               "finishing", "over"}]
        /\ gate' \in Task \cup {NoTask}
        /\ barrier' \in [Task -> {"none", "armed", "set"}]
    BY <1>3, <2>2 DEF PersistFails, Release, TypeOK
  <2>4. QED
    BY <1>3, <2>1, <2>3 DEF PersistFails, TypeOK, recVars, busVars
<1>4. ASSUME NEW c \in Client, NEW t \in Task, Submit(c, t) PROVE TypeOK'
  <2>1. thread' \in [Thread -> Job]
    BY <1>0, <1>4, ThreadTyped DEF Submit, Run, Pc, Op, EventType
  <2>2. QED
    BY <1>0, <1>4, <2>1 DEF Submit, TypeOK, Status, Live, runVars, busVars,
       cntVars
<1>5. ASSUME NEW c \in Client, NEW t \in Task, CancelCheck(c, t) PROVE TypeOK'
  <2>1. thread' \in [Thread -> Job]
    BY <1>0, <1>5, ThreadTyped DEF CancelCheck, Run, Pc, Op, EventType, End
  <2>2. QED
    BY <1>0, <1>5, <2>1 DEF CancelCheck, TypeOK, recVars, busVars, cntVars
<1>6. ASSUME NEW c \in Client, Schedule(c) PROVE TypeOK'
  <2>1. thread' \in [Thread -> Job]
    BY <1>0, <1>6, ThreadTyped DEF Schedule, Done
  <2>2. QED
    BY <1>0, <1>6, <2>1, Stretch DEF Schedule, At, TypeOK, recVars, busVars,
       cntVars
<1>7. ASSUME NEW c \in Client, CancelFinalize(c) PROVE TypeOK'
  <2>1. thread' \in [Thread -> Job]
    BY <1>0, <1>7, ThreadTyped DEF CancelFinalize, Goto
  <2>2. QED
    BY <1>7, <2>1 DEF CancelFinalize, TypeOK, Status, Terminal, runVars,
       busVars, cntVars
<1>8. ASSUME NEW c \in Client, CancelPublish(c) PROVE TypeOK'
  <2>1. thread' \in [Thread -> Job]
    BY <1>0, <1>8, ThreadTyped DEF CancelPublish, Done
  <2>2. thread[c].task \in Task
    BY <1>0, <1>8, Stretch DEF CancelPublish, At
  <2>3. opened' \subseteq Task /\ ends' \in [Task -> SUBSET End]
    BY <1>8, <2>2 DEF CancelPublish, Publish, TypeOK
  <2>4. QED
    BY <1>8, <2>1, <2>2, <2>3 DEF CancelPublish, TypeOK, recVars, runVars,
       cntVars
<1>9. ASSUME NEW t \in Task, Admit(t) PROVE TypeOK'
  <2>1. thread' \in [Thread -> Job]
    BY <1>0, <1>9, ThreadTyped DEF Admit, Run, Pc, Op, EventType, StageEvent
  <2>2. QED
    BY <1>0, <1>9, <2>1 DEF Admit, TypeOK, Status, Live, busVars, cntVars
<1>10. ASSUME NEW t \in Task, TurnAway(t) PROVE TypeOK'
  BY <1>10 DEF TurnAway, TypeOK, recVars, busVars, cntVars
<1>11. ASSUME NEW t \in Task, Resume(t) PROVE TypeOK'
  BY <1>11 DEF Resume, TypeOK, recVars, busVars, cntVars
<1>12. ASSUME NEW t \in Task, ResumeCancelled(t) PROVE TypeOK'
  BY <1>12 DEF ResumeCancelled, TypeOK, Release, recVars, busVars, cntVars
<1>13. ASSUME NEW t \in Task, Finalize(t) PROVE TypeOK'
  <2>1. thread' \in [Thread -> Job]
    BY <1>0, <1>13, ThreadTyped DEF Finalize, Run, Pc, Op, EventType, End
  <2>2. QED
    BY <1>0, <1>13, <2>1 DEF Finalize, TypeOK, Status, Outcome, Terminal,
       busVars, cntVars
<1>14. ASSUME NEW t \in Task, FinalizeCancelled(t) PROVE TypeOK'
  BY <1>14 DEF FinalizeCancelled, TypeOK, Release, recVars, busVars, cntVars
<1>15. ASSUME NEW t \in Task, WorkerStart(t) PROVE TypeOK'
  BY <1>15 DEF WorkerStart, TypeOK, recVars, busVars, cntVars
<1>16. ASSUME NEW t \in Task, Emit(t) PROVE TypeOK'
  BY <1>16 DEF Emit, Payload, StageEvent, TypeOK, recVars, busVars, cntVars
<1>17. ASSUME NEW t \in Task, WorkerEnd(t) PROVE TypeOK'
  <2> DEFINE flush == [task |-> t, type |-> "flush"]
             error == [task |-> t, type |-> "worker_error"]
  <2>1. flush \in Payload /\ error \in Payload
    BY DEF Payload
  <2>2. queue \in Seq(Payload)
    BY DEF TypeOK
  <2>3. /\ Append(queue, flush) \in Seq(Payload)
        /\ Append(Append(queue, error), flush) \in Seq(Payload)
    BY <2>1, <2>2
  <2>4. queue' \in Seq(Payload)
    BY <1>17, <2>3 DEF WorkerEnd
  <2>5. QED
    BY <1>17, <2>4 DEF WorkerEnd, TypeOK, recVars, busVars, cntVars
<1>18. ASSUME PublishStart PROVE TypeOK'
  <2>1. thread' \in [Thread -> Job]
    BY <1>0, <1>18, ThreadTyped DEF PublishStart, Goto
  <2>2. QED
    BY <1>0, <1>18, <2>1, Stretch DEF PublishStart, Publish, At, TypeOK,
       recVars, cntVars
<1>19. ASSUME Dispatch PROVE TypeOK'
  <2>1. thread' \in [Thread -> Job]
    BY <1>0, <1>19, ThreadTyped DEF Dispatch, Done
  <2>2. QED
    BY <1>0, <1>19, <2>1, Stretch DEF Dispatch, At, TypeOK, recVars, busVars,
       cntVars
<1>20. ASSUME PublishEnd PROVE TypeOK'
  <2>1. thread' \in [Thread -> Job]
    BY <1>0, <1>20, ThreadTyped DEF PublishEnd, Done
  <2>2. thread[Loop].task \in Task
    BY <1>0, <1>20, Stretch DEF PublishEnd, At
  <2>3. opened' \subseteq Task /\ ends' \in [Task -> SUBSET End]
    BY <1>20, <2>2 DEF PublishEnd, Publish, TypeOK
  <2>4. QED
    BY <1>20, <2>1, <2>2, <2>3 DEF PublishEnd, Release, TypeOK, recVars,
       runVars, cntVars
<1>21. ASSUME PoolBreaks PROVE TypeOK'
  BY <1>21 DEF PoolBreaks, TypeOK, recVars, busVars, cntVars
<1>22. ASSUME DrainSentinel PROVE TypeOK'
  <2>1. Head(queue) \in Payload /\ Tail(queue) \in Seq(Payload)
    BY <1>22 DEF DrainSentinel, TypeOK
  <2>2. QED
    BY <1>22, <2>1 DEF DrainSentinel, Payload, TypeOK, recVars, busVars,
       cntVars
<1>23. ASSUME DrainEvent PROVE TypeOK'
  <2>1. Head(queue) \in Payload /\ Tail(queue) \in Seq(Payload)
    BY <1>23 DEF DrainEvent, TypeOK
  <2>2. /\ Head(queue).task \in Task /\ Head(queue).type \in EventType
        /\ StageAfter(Head(queue).type, stage[Head(queue).task]) \in Stage
    BY <1>23, <2>1 DEF DrainEvent, Payload, EventType, End, StageAfter,
       Stage, TypeOK
  <2>3. thread' \in [Thread -> Job]
    BY <1>0, <1>23, <2>2, ThreadTyped DEF DrainEvent, Run, Op
  <2>4. QED
    BY <1>23, <2>1, <2>2, <2>3 DEF DrainEvent, TypeOK, runVars, busVars,
       cntVars
<1>24. ASSUME PublishEvent PROVE TypeOK'
  <2>1. thread' \in [Thread -> Job]
    BY <1>0, <1>24, ThreadTyped DEF PublishEvent, Done
  <2>2. thread[Loop].task \in Task
    BY <1>0, <1>24, Stretch DEF PublishEvent, At
  <2>3. opened' \subseteq Task /\ ends' \in [Task -> SUBSET End]
    BY <1>24, <2>2 DEF PublishEvent, Publish, TypeOK
  <2>4. QED
    BY <1>24, <2>1, <2>2, <2>3 DEF PublishEvent, TypeOK, recVars, runVars,
       cntVars
<1>25. ASSUME Close PROVE TypeOK'
  BY <1>25 DEF Close, TypeOK, recVars, runVars, busVars, cntVars
<1>26. ASSUME Stop PROVE TypeOK'
  BY <1>26 DEF Stop, TypeOK, recVars, cntVars
<1>27. ASSUME Restart PROVE TypeOK'
  <2>1. \A t \in Task : Recovered(disk[t]) \in Record
    BY DEF TypeOK, Recovered, Record, Status, Live, Terminal, Outcome
  <2>2. /\ status' \in [Task -> Status] /\ stage' \in [Task -> Stage]
        /\ disk' \in [Task -> Record]
    BY <1>27, <2>1 DEF Restart, TypeOK, Record
  <2>3. thread' \in [Thread -> Job]
    BY <1>27, IdleIsJob DEF Restart
  <2>4. faults' \in Nat /\ restarts' \in Nat
    <3>1. PICK unsaved \in SUBSET {t \in Task : disk[t].status \in Live} :
            /\ faults + Cardinality(unsaved) <= MaxFaults
            /\ faults' = faults + Cardinality(unsaved)
      BY <1>27 DEF Restart
    <3>2. Cardinality(unsaved) \in Nat
      BY <3>1, FS_Subset, FS_CardinalityType
    <3>3. QED
      BY <1>27, <3>1, <3>2 DEF Restart, TypeOK
  <2>5. QED
    BY <1>27, <2>2, <2>3, <2>4 DEF Restart, TypeOK
<1>28. QED
  BY <1>1, <1>2, <1>3, <1>4, <1>5, <1>6, <1>7, <1>8, <1>9, <1>10, <1>11,
     <1>12, <1>13, <1>14, <1>15, <1>16, <1>17, <1>18, <1>19, <1>20, <1>21,
     <1>22, <1>23, <1>24, <1>25, <1>26, <1>27 DEF Next, Persisting, Request,
     GatedSubmit, Worker, Drain, LoopStretch, Thread

(* A record file that is behind memory stays behind it as a task moves on. *)
LEMMA NoLaterSteps ==
  /\ \A r \in Status : Lifecycle!NoLaterThan(r, r)
  /\ \A r \in Status : Lifecycle!NoLaterThan(r, "cancelled")
  /\ \A r \in Status : Lifecycle!NoLaterThan(r, "absent")
                         => Lifecycle!NoLaterThan(r, "pending")
  /\ \A r \in Status : Lifecycle!NoLaterThan(r, "pending")
                         => Lifecycle!NoLaterThan(r, "running")
  /\ \A r \in Status, s \in Outcome :
       Lifecycle!NoLaterThan(r, "running") => Lifecycle!NoLaterThan(r, s)
<1>1. /\ Lifecycle!Rank["absent"] = 0 /\ Lifecycle!Rank["pending"] = 1
      /\ Lifecycle!Rank["running"] = 2 /\ Lifecycle!Rank["succeeded"] = 3
      /\ Lifecycle!Rank["failed"] = 3 /\ Lifecycle!Rank["cancelled"] = 4
  BY DEF Lifecycle!Rank, Lifecycle!Status, Lifecycle!Live, Lifecycle!Terminal,
     Lifecycle!Outcome
<1>2. QED
  BY <1>1 DEF Lifecycle!NoLaterThan, Status, Live, Terminal, Outcome

(* The payloads of the queue.                                              *)
LEMMA QueuePayloads ==
  ASSUME TypeOK, NEW i \in DOMAIN queue
  PROVE  queue[i] \in Payload /\ queue[i].task \in Task
<1>1. queue \in Seq(Payload)
  BY DEF TypeOK
<1>2. queue[i] \in Payload
  BY <1>1
<1>3. QED
  BY <1>2 DEF Payload

LEMMA Appended ==
  ASSUME TypeOK, NEW e \in Payload
  PROVE  /\ Append(queue, e) \in Seq(Payload)
         /\ DOMAIN queue = 1..Len(queue) /\ Len(queue) \in Nat
         /\ DOMAIN Append(queue, e) = 1..(Len(queue) + 1)
         /\ \A i \in DOMAIN queue : Append(queue, e)[i] = queue[i]
         /\ Append(queue, e)[Len(queue) + 1] = e
BY DEF TypeOK

LEMMA Dequeued ==
  ASSUME queue \in Seq(Payload), queue # <<>>
  PROVE  \A i \in DOMAIN Tail(queue) :
           i \in Nat /\ i + 1 \in DOMAIN queue /\ Tail(queue)[i] = queue[i + 1]
OBVIOUS

(* What the worker's last act leaves in the queue: perhaps its error, and  *)
(* then its sentinel.                                                      *)
LEMMA Ended ==
  ASSUME TypeOK, NEW t \in Task, WorkerEnd(t)
  PROVE  \E n \in {Len(queue) + 1, Len(queue) + 2} :
           /\ DOMAIN queue = 1..Len(queue) /\ Len(queue) \in Nat
           /\ DOMAIN queue' = 1..n
           /\ \A i \in DOMAIN queue : queue'[i] = queue[i]
           /\ \A i \in DOMAIN queue' \ DOMAIN queue :
                /\ queue'[i].task = t
                /\ queue'[i].type = "flush" <=> i = n
<1> DEFINE flush == [task |-> t, type |-> "flush"]
           error == [task |-> t, type |-> "worker_error"]
<1>1. /\ flush \in Payload /\ error \in Payload /\ queue \in Seq(Payload)
      /\ flush.task = t /\ error.task = t
      /\ flush.type = "flush" /\ error.type = "worker_error"
  BY DEF Payload, TypeOK
<1> HIDE DEF flush, error
<1>2. CASE queue' = Append(queue, flush)
  BY <1>1, <1>2
<1>3. CASE queue' = Append(Append(queue, error), flush)
  BY <1>1, <1>3
<1>4. QED
  BY <1>2, <1>3 DEF WorkerEnd, flush, error

(* The gate has one owner, only its work item is busy, and where a         *)
(* coroutine is tells what the record says.                                *)
LEMMA CoroNext ==
  TypeOK /\ JobsFit /\ CoroInv /\ Next => CoroInv'
<1> SUFFICES ASSUME TypeOK, JobsFit, CoroInv, Next PROVE CoroInv'
  OBVIOUS
<1> USE TaskManagerAssumption DEF CoroInv
<1>1. ASSUME NEW c \in Client, NEW t \in Task, Submit(c, t) PROVE CoroInv'
  BY <1>1 DEF Submit, GateOwner, BusyAwaited, FreshWorker, CoroStatus,
     JobsFit, TypeOK, JobFits, Busy, Holding, Thread, Live, Terminal,
     Outcome, Record, Status, Run, Free, Idle, NoRecord, runVars, busVars,
     cntVars
<1>2. ASSUME NEW c \in Client, NEW t \in Task, CancelCheck(c, t) PROVE CoroInv'
  BY <1>2 DEF CancelCheck, GateOwner, BusyAwaited, FreshWorker, CoroStatus,
     JobsFit, TypeOK, JobFits, Busy, Holding, Thread, Live, Terminal,
     Outcome, Record, Status, Run, Free, Idle, NoRecord, recVars, busVars,
     cntVars
<1>3. ASSUME NEW c \in Client, CancelFinalize(c) PROVE CoroInv'
  BY <1>3 DEF CancelFinalize, GateOwner, BusyAwaited, FreshWorker,
     CoroStatus, JobsFit, TypeOK, JobFits, Busy, Holding, Thread, Live,
     Terminal, Outcome, Record, Status, At, Goto, runVars, busVars, cntVars
<1>4. ASSUME NEW th \in Thread, PersistFails(th) PROVE CoroInv'
  <2>1. CASE thread[th].op \in {"start", "finish"}
    <3>1. /\ thread[th].task \in Task /\ coro[thread[th].task] \in {"starting", "finishing"}
          /\ UNCHANGED <<worker, status>> /\ Release(thread[th].task)
      BY <1>4, <2>1 DEF PersistFails, JobsFit, JobFits, Holding, recVars
    <3>2. QED
      BY <3>1 DEF Release, GateOwner, BusyAwaited, FreshWorker, CoroStatus,
         Busy,
         Holding, TypeOK
  <2>2. CASE thread[th].op \notin {"start", "finish"}
    BY <1>4, <2>2 DEF PersistFails, GateOwner, BusyAwaited, FreshWorker,
       CoroStatus,
       Busy, recVars
  <2>3. QED
    BY <2>1, <2>2
<1>5. ASSUME NEW c \in Client, Schedule(c) PROVE CoroInv'
  BY <1>5 DEF Schedule, GateOwner, BusyAwaited, FreshWorker, CoroStatus,
     JobsFit, TypeOK, JobFits, Busy, Holding, Thread, Live, Terminal,
     Outcome, Record, Status, At, Done, Idle, NoRecord, recVars, busVars,
     cntVars
<1>6. ASSUME NEW t \in Task, Admit(t) PROVE CoroInv'
  BY <1>6 DEF Admit, GateOwner, BusyAwaited, FreshWorker, CoroStatus,
     JobsFit, TypeOK, JobFits, Busy, Holding, Thread, Live, Terminal,
     Outcome, Record, Status, Run, Free, Idle, NoRecord, busVars, cntVars
<1>7. ASSUME NEW t \in Task, TurnAway(t) PROVE CoroInv'
  BY <1>7 DEF TurnAway, GateOwner, BusyAwaited, FreshWorker, CoroStatus,
     JobsFit, TypeOK, JobFits, Busy, Holding, Thread, Live, Terminal,
     Outcome, Record, Status, Free, Idle, NoRecord, recVars, busVars, cntVars
<1>8. ASSUME NEW t \in Task, Resume(t) PROVE CoroInv'
  BY <1>8 DEF Resume, GateOwner, BusyAwaited, FreshWorker, CoroStatus,
     JobsFit, TypeOK, JobFits, Busy, Holding, Thread, Live, Terminal,
     Outcome, Record, Status, Free, Idle, NoRecord, recVars, busVars, cntVars
<1>9. ASSUME NEW t \in Task, ResumeCancelled(t) PROVE CoroInv'
  BY <1>9 DEF ResumeCancelled, GateOwner, BusyAwaited, FreshWorker,
     CoroStatus, JobsFit, TypeOK, JobFits, Busy, Holding, Thread, Live,
     Terminal, Outcome, Record, Status, Free, Idle, NoRecord, Release,
     recVars, busVars, cntVars
<1>10. ASSUME NEW t \in Task, Finalize(t) PROVE CoroInv'
  BY <1>10 DEF Finalize, GateOwner, BusyAwaited, FreshWorker, CoroStatus,
     JobsFit, TypeOK, JobFits, Busy, Holding, Thread, Live, Terminal,
     Outcome, Record, Status, Run, Free, Idle, NoRecord, busVars, cntVars
<1>11. ASSUME NEW t \in Task, FinalizeCancelled(t) PROVE CoroInv'
  BY <1>11 DEF FinalizeCancelled, GateOwner, BusyAwaited, FreshWorker,
     CoroStatus, JobsFit, TypeOK, JobFits, Busy, Holding, Thread, Live,
     Terminal, Outcome, Record, Status, Free, Idle, NoRecord, Release,
     recVars, busVars, cntVars
<1>12. ASSUME PublishEnd PROVE CoroInv'
  BY <1>12 DEF PublishEnd, GateOwner, BusyAwaited, FreshWorker, CoroStatus,
     JobsFit, TypeOK, JobFits, Busy, Holding, Thread, Live, Terminal,
     Outcome, Record, Status, At, Done, Idle, NoRecord, Release, recVars,
     cntVars
<1>13. ASSUME Dispatch PROVE CoroInv'
  <2> DEFINE t == thread[Loop].task
  <2>1. t \in Task /\ coro[t] = "starting" /\ worker[t] = "none" /\ gate = t
    BY <1>13 DEF Dispatch, At, JobsFit, JobFits, FreshWorker, GateOwner,
       Holding, Thread
  <2>2. status[t] \in {"running", "cancelled"} /\ UNCHANGED status
    BY <1>13, <2>1 DEF Dispatch, CoroStatus, recVars
  <2>3. /\ coro'[t] \in {"awaiting", "over"} /\ worker'[t] \in {"none", "queued"}
        /\ worker'[t] = "queued" => coro'[t] = "awaiting"
        /\ coro'[t] = "awaiting" => gate' = t
        /\ \A u \in Task \ {t} : coro'[u] = coro[u] /\ worker'[u] = worker[u]
    BY <1>13, <2>1 DEF Dispatch, TypeOK
  <2>4. \A u \in Task \ {t} : coro[u] \notin Holding
    BY <2>1 DEF GateOwner
  <2> HIDE DEF t
  <2>5. GateOwner' /\ BusyAwaited'
    BY <2>1, <2>3, <2>4 DEF GateOwner, BusyAwaited, Busy, Holding
  <2>6. FreshWorker' /\ CoroStatus'
    BY <2>1, <2>2, <2>3 DEF FreshWorker, CoroStatus, Live
  <2>7. QED
    BY <2>5, <2>6
<1>14. ASSUME NEW t \in Task, WorkerStart(t) PROVE CoroInv'
  BY <1>14 DEF WorkerStart, GateOwner, BusyAwaited, FreshWorker, CoroStatus,
     JobsFit, TypeOK, JobFits, Busy, Holding, Thread, Live, Terminal,
     Outcome, Record, Status, recVars, busVars, cntVars
<1>15. ASSUME NEW t \in Task, WorkerEnd(t) PROVE CoroInv'
  BY <1>15 DEF WorkerEnd, GateOwner, BusyAwaited, FreshWorker, CoroStatus,
     JobsFit, TypeOK, JobFits, Busy, Holding, Thread, Live, Terminal,
     Outcome, Record, Status, recVars, busVars, cntVars
<1>16. ASSUME PoolBreaks PROVE CoroInv'
  BY <1>16 DEF PoolBreaks, GateOwner, BusyAwaited, FreshWorker, CoroStatus,
     JobsFit, TypeOK, JobFits, Busy, Holding, Thread, Live, Terminal,
     Outcome, Record, Status, recVars, busVars, cntVars
<1>17. ASSUME Stop PROVE CoroInv'
  BY <1>17 DEF Stop, GateOwner, BusyAwaited, FreshWorker, CoroStatus,
     JobsFit, TypeOK, JobFits, Busy, Holding, Thread, Live, Terminal,
     Outcome, Record, Status, Free, Idle, NoRecord, recVars, cntVars
<1>18. ASSUME Restart PROVE CoroInv'
  BY <1>18 DEF Restart, GateOwner, BusyAwaited, FreshWorker, CoroStatus,
     JobsFit, TypeOK, JobFits, Busy, Holding, Thread, Live, Terminal,
     Outcome, Record, Status, Recovered, Idle, NoRecord
<1>19. CASE UNCHANGED <<coro, gate, worker, status>>
  BY <1>19 DEF GateOwner, BusyAwaited, FreshWorker, CoroStatus, Busy,
     Holding, Live
<1>20. QED
  BY <1>1, <1>2, <1>3, <1>4, <1>5, <1>6, <1>7, <1>8, <1>9, <1>10, <1>11,
     <1>12, <1>13, <1>14, <1>15, <1>16, <1>17, <1>18, <1>19 DEF Next,
     Persisting, Request, GatedSubmit, Worker, Drain, LoopStretch, Thread,
     Snapshot, Replace, CancelPublish, Emit, PublishStart, DrainSentinel,
     DrainEvent, PublishEvent, Close, recVars, runVars

(* Every stretch may rely on what JobFits says.                            *)
LEMMA JobsNext ==
  TypeOK /\ JobsFit /\ SubmitOnce /\ CoroStatus /\ QueueFed /\ Next
    => JobInv'
<1> SUFFICES ASSUME TypeOK, JobsFit, SubmitOnce, CoroStatus, QueueFed,
                    Next
             PROVE  JobInv'
  OBVIOUS
<1> USE TaskManagerAssumption DEF JobInv
<1>1. ASSUME NEW th \in Thread, Snapshot(th) PROVE JobInv'
  <2>1. /\ th \in Thread /\ thread[th].pc = "snapshot" /\ JobFits(th)
        /\ thread[th].task \in Task /\ status[thread[th].task] \in Status
        /\ UNCHANGED <<status, coro>>
    BY <1>1, Stretch DEF Snapshot, At, JobsFit, TypeOK, recVars, runVars
  <2> DEFINE r == Current(thread[th].task)
  <2>2. /\ thread' = [thread EXCEPT ![th].snap = r, ![th].pc = "replace"]
        /\ thread \in [Thread -> Job] /\ r.status = status[thread[th].task]
    BY <1>1 DEF Snapshot, TypeOK, Current
  <2> HIDE DEF r
  <2>3. /\ \A u \in Thread \ {th} : thread'[u] = thread[u]
        /\ thread'[th].op = thread[th].op /\ thread'[th].task = thread[th].task
        /\ thread'[th].pc = "replace"
        /\ thread'[th].snap.status = status[thread[th].task]
    BY <2>1, <2>2 DEF Job
  <2>4. JobFits(th)'
    BY <2>1, <2>3, NoLaterSteps DEF JobFits
  <2>5. JobsFit'
    BY <2>1, <2>3, <2>4 DEF JobsFit, JobFits
  <2>6. SubmitOnce'
    BY <2>3 DEF SubmitOnce, Thread
  <2>7. QED
    BY <2>5, <2>6
<1>2. ASSUME NEW th \in Thread, Replace(th) PROVE JobInv'
  BY NoLaterSteps, <1>2 DEF Replace, JobsFit, SubmitOnce, CoroStatus,
     QueueFed, TypeOK, JobFits, Thread, Job, Record, Status, Live, Terminal,
     Outcome, At, Goto, recVars, runVars, busVars, cntVars
<1>3. ASSUME NEW th \in Thread, PersistFails(th) PROVE JobInv'
  BY NoLaterSteps, <1>3 DEF PersistFails, JobsFit, SubmitOnce, CoroStatus,
     QueueFed, TypeOK, JobFits, Thread, Job, Record, Status, Live, Terminal,
     Outcome, At, Done, Idle, NoRecord, Release, recVars, busVars
<1>4. ASSUME NEW c \in Client, NEW t \in Task, Submit(c, t) PROVE JobInv'
  BY NoLaterSteps, <1>4 DEF Submit, JobsFit, SubmitOnce, CoroStatus,
     QueueFed, TypeOK, JobFits, Thread, Job, Record, Status, Live, Terminal,
     Outcome, Run, Free, Idle, NoRecord, runVars, busVars, cntVars
<1>5. ASSUME NEW c \in Client, Schedule(c) PROVE JobInv'
  BY NoLaterSteps, <1>5 DEF Schedule, JobsFit, SubmitOnce, CoroStatus,
     QueueFed, TypeOK, JobFits, Thread, Job, Record, Status, Live, Terminal,
     Outcome, At, Done, Idle, NoRecord, recVars, busVars, cntVars
<1>6. ASSUME NEW c \in Client, NEW t \in Task, CancelCheck(c, t) PROVE JobInv'
  BY NoLaterSteps, <1>6 DEF CancelCheck, JobsFit, SubmitOnce, CoroStatus,
     QueueFed, TypeOK, JobFits, Thread, Job, Record, Status, Live, Terminal,
     Outcome, Run, Free, Idle, NoRecord, recVars, busVars, cntVars
<1>7. ASSUME NEW c \in Client, CancelFinalize(c) PROVE JobInv'
  <2>1. /\ c \in Thread /\ thread[c].task \in Task /\ thread[c].op = "cancel" /\ thread[c].pc = "cancel"
    BY <1>7 DEF CancelFinalize, JobsFit, JobFits, At, Thread
  <2>2. \A v \in Task, r \in Status :
          Lifecycle!NoLaterThan(r, status[v]) => Lifecycle!NoLaterThan(r, status'[v])
    <3>1. \A v \in Task : status'[v] # status[v] =>
            status'[v] = "cancelled"
      BY <1>7, <2>1 DEF CancelFinalize, Outcome, TypeOK
    <3>2. QED
      BY <3>1, NoLaterSteps
  <2>3. \A v \in Task : status'[v] = "absent" => status[v] = "absent"
    BY <1>7, <2>1 DEF CancelFinalize, TypeOK
  <2>4. \A v \in Task : coro[v] = "none" /\ status[v] \in {"pending", "cancelled"}
                       => coro'[v] = "none" /\ status'[v] \in {"pending", "cancelled"}
    BY <1>7, <2>1 DEF CancelFinalize, TypeOK, runVars
  <2>5. ASSUME NEW u \in Thread PROVE JobFits(u)'
    <3>1. JobFits(u) /\ thread[u].snap.status \in Status
      BY DEF JobsFit, TypeOK, Job, Record
    <3>2. CASE u = c
      BY <1>7, <2>1, <3>1, <3>2 DEF JobFits, CancelFinalize, Run, Goto, Free,
         Idle, TypeOK, runVars
    <3>3. CASE u # c
      <4>1. thread'[u] = thread[u]
        BY <1>7, <3>3 DEF CancelFinalize, Run, Goto, TypeOK
      <4>2. \/ thread[u].op \notin {"start", "finish", "event"}
            \/ UNCHANGED coro
        BY <1>7, <2>1, <3>1, <3>3 DEF JobFits, CancelFinalize, Free, Idle,
           Thread, runVars
      <4>3. QED
        BY <2>2, <2>3, <2>4, <3>1, <3>3, <4>1, <4>2 DEF JobFits
    <3>4. QED
      BY <3>2, <3>3
  <2>6. SubmitOnce'
    BY <1>7, <2>1 DEF CancelFinalize, SubmitOnce, Run, Goto, TypeOK, Thread
  <2>7. QED
    BY <2>5, <2>6 DEF JobsFit
<1>8. ASSUME NEW c \in Client, CancelPublish(c) PROVE JobInv'
  BY NoLaterSteps, <1>8 DEF CancelPublish, JobsFit, SubmitOnce, CoroStatus,
     QueueFed, TypeOK, JobFits, Thread, Job, Record, Status, Live, Terminal,
     Outcome, At, Done, Idle, NoRecord, recVars, runVars, cntVars
<1>9. ASSUME NEW t \in Task, Admit(t) PROVE JobInv'
  <2>1. status[t] = "pending" /\ Free(Loop) /\ Loop \in Thread /\ coro[t] = "queued"
    BY <1>9 DEF Admit, CoroStatus, Thread
  <2>2. \A v \in Task, r \in Status :
          Lifecycle!NoLaterThan(r, status[v]) => Lifecycle!NoLaterThan(r, status'[v])
    <3>1. \A v \in Task : status'[v] # status[v] =>
            status[v] = "pending" /\ status'[v] = "running"
      BY <1>9, <2>1 DEF Admit, Outcome, TypeOK
    <3>2. QED
      BY <3>1, NoLaterSteps
  <2>3. \A v \in Task : status'[v] = "absent" => status[v] = "absent"
    BY <1>9, <2>1 DEF Admit, TypeOK
  <2>4. \A v \in Task : coro[v] = "none" /\ status[v] \in {"pending", "cancelled"}
                       => coro'[v] = "none" /\ status'[v] \in {"pending", "cancelled"}
    BY <1>9, <2>1 DEF Admit, TypeOK, runVars
  <2>5. ASSUME NEW u \in Thread PROVE JobFits(u)'
    <3>1. JobFits(u) /\ thread[u].snap.status \in Status
      BY DEF JobsFit, TypeOK, Job, Record
    <3>2. CASE u = Loop
      BY <1>9, <2>1, <3>1, <3>2 DEF JobFits, Admit, Run, Goto, Free, Idle,
         TypeOK, runVars
    <3>3. CASE u # Loop
      <4>1. thread'[u] = thread[u]
        BY <1>9, <3>3 DEF Admit, Run, Goto, TypeOK
      <4>2. \/ thread[u].op \notin {"start", "finish", "event"}
            \/ UNCHANGED coro
        BY <1>9, <2>1, <3>1, <3>3 DEF JobFits, Admit, Free, Idle, Thread,
           runVars
      <4>3. QED
        BY <2>2, <2>3, <2>4, <3>1, <3>3, <4>1, <4>2 DEF JobFits
    <3>4. QED
      BY <3>2, <3>3
  <2>6. SubmitOnce'
    BY <1>9, <2>1 DEF Admit, SubmitOnce, Run, Goto, TypeOK, Thread
  <2>7. QED
    BY <2>5, <2>6 DEF JobsFit
<1>10. ASSUME NEW t \in Task, TurnAway(t) PROVE JobInv'
  BY NoLaterSteps, <1>10 DEF TurnAway, JobsFit, SubmitOnce, CoroStatus,
     QueueFed, TypeOK, JobFits, Thread, Job, Record, Status, Live, Terminal,
     Outcome, Free, Idle, NoRecord, recVars, busVars, cntVars
<1>11. ASSUME NEW t \in Task, Resume(t) PROVE JobInv'
  BY NoLaterSteps, <1>11 DEF Resume, JobsFit, SubmitOnce, CoroStatus,
     QueueFed, TypeOK, JobFits, Thread, Job, Record, Status, Live, Terminal,
     Outcome, Free, Idle, NoRecord, recVars, busVars, cntVars
<1>12. ASSUME NEW t \in Task, ResumeCancelled(t) PROVE JobInv'
  BY NoLaterSteps, <1>12 DEF ResumeCancelled, JobsFit, SubmitOnce,
     CoroStatus, QueueFed, TypeOK, JobFits, Thread, Job, Record, Status,
     Live, Terminal, Outcome, Free, Idle, NoRecord, Release, recVars,
     busVars, cntVars
<1>13. ASSUME NEW t \in Task, Finalize(t) PROVE JobInv'
  <2>1. status[t] = "running" /\ Free(Loop) /\ Loop \in Thread /\ coro[t] = "barrier"
    BY <1>13 DEF Finalize, CoroStatus, Thread
  <2>2. \A v \in Task, r \in Status :
          Lifecycle!NoLaterThan(r, status[v]) => Lifecycle!NoLaterThan(r, status'[v])
    <3>1. \A v \in Task : status'[v] # status[v] =>
            status[v] = "running" /\ status'[v] \in Outcome
      BY <1>13, <2>1 DEF Finalize, Outcome, TypeOK
    <3>2. QED
      BY <3>1, NoLaterSteps
  <2>3. \A v \in Task : status'[v] = "absent" => status[v] = "absent"
    BY <1>13, <2>1 DEF Finalize, TypeOK
  <2>4. \A v \in Task : coro[v] = "none" /\ status[v] \in {"pending", "cancelled"}
                       => coro'[v] = "none" /\ status'[v] \in {"pending", "cancelled"}
    BY <1>13, <2>1 DEF Finalize, TypeOK, runVars
  <2>5. ASSUME NEW u \in Thread PROVE JobFits(u)'
    <3>1. JobFits(u) /\ thread[u].snap.status \in Status
      BY DEF JobsFit, TypeOK, Job, Record
    <3>2. CASE u = Loop
      BY <1>13, <2>1, <3>1, <3>2 DEF JobFits, Finalize, Run, Goto, Free,
         Idle, TypeOK, runVars
    <3>3. CASE u # Loop
      <4>1. thread'[u] = thread[u]
        BY <1>13, <3>3 DEF Finalize, Run, Goto, TypeOK
      <4>2. \/ thread[u].op \notin {"start", "finish", "event"}
            \/ UNCHANGED coro
        BY <1>13, <2>1, <3>1, <3>3 DEF JobFits, Finalize, Free, Idle, Thread,
           runVars
      <4>3. QED
        BY <2>2, <2>3, <2>4, <3>1, <3>3, <4>1, <4>2 DEF JobFits
    <3>4. QED
      BY <3>2, <3>3
  <2>6. SubmitOnce'
    BY <1>13, <2>1 DEF Finalize, SubmitOnce, Run, Goto, TypeOK, Thread
  <2>7. QED
    BY <2>5, <2>6 DEF JobsFit
<1>14. ASSUME NEW t \in Task, FinalizeCancelled(t) PROVE JobInv'
  BY NoLaterSteps, <1>14 DEF FinalizeCancelled, JobsFit, SubmitOnce,
     CoroStatus, QueueFed, TypeOK, JobFits, Thread, Job, Record, Status,
     Live, Terminal, Outcome, Free, Idle, NoRecord, Release, recVars,
     busVars, cntVars
<1>15. ASSUME PublishStart PROVE JobInv'
  BY NoLaterSteps, <1>15 DEF PublishStart, JobsFit, SubmitOnce, CoroStatus,
     QueueFed, TypeOK, JobFits, Thread, Job, Record, Status, Live, Terminal,
     Outcome, At, Goto, recVars, cntVars
<1>16. ASSUME Dispatch PROVE JobInv'
  BY NoLaterSteps, <1>16 DEF Dispatch, JobsFit, SubmitOnce, CoroStatus,
     QueueFed, TypeOK, JobFits, Thread, Job, Record, Status, Live, Terminal,
     Outcome, At, Done, Idle, NoRecord, recVars, busVars, cntVars
<1>17. ASSUME PublishEnd PROVE JobInv'
  BY NoLaterSteps, <1>17 DEF PublishEnd, JobsFit, SubmitOnce, CoroStatus,
     QueueFed, TypeOK, JobFits, Thread, Job, Record, Status, Live, Terminal,
     Outcome, At, Done, Idle, NoRecord, Release, recVars, cntVars
<1>18. ASSUME DrainEvent PROVE JobInv'
  <2>1. /\ Head(queue).task \in Task /\ status[Head(queue).task] # "absent"
        /\ Free(Loop) /\ Loop \in Thread
    <3>1. 1 \in DOMAIN queue /\ Head(queue) = queue[1]
      BY <1>18 DEF DrainEvent, TypeOK
    <3>2. QED
      BY <1>18, <3>1, QueuePayloads DEF DrainEvent, QueueFed, Thread
  <2>2. /\ \A u \in Thread \ {Loop} : thread'[u] = thread[u]
        /\ thread'[Loop].op = "event" /\ thread'[Loop].task = Head(queue).task
        /\ thread'[Loop].pc \in {"snapshot", "publish"}
        /\ UNCHANGED <<status, coro>>
    BY <1>18, <2>1 DEF DrainEvent, Run, TypeOK, runVars
  <2>3. JobsFit'
    BY <2>1, <2>2 DEF JobsFit, JobFits
  <2>4. SubmitOnce'
    BY <2>1, <2>2 DEF SubmitOnce, Thread
  <2>5. QED
    BY <2>3, <2>4
<1>19. ASSUME PublishEvent PROVE JobInv'
  BY NoLaterSteps, <1>19 DEF PublishEvent, JobsFit, SubmitOnce, CoroStatus,
     QueueFed, TypeOK, JobFits, Thread, Job, Record, Status, Live, Terminal,
     Outcome, At, Done, Idle, NoRecord, recVars, runVars, cntVars
<1>20. ASSUME Restart PROVE JobInv'
  BY NoLaterSteps, <1>20 DEF Restart, JobsFit, SubmitOnce, CoroStatus,
     QueueFed, TypeOK, JobFits, Thread, Job, Record, Status, Live, Terminal,
     Outcome, Idle, NoRecord
<1>21. CASE UNCHANGED <<thread, status, coro>>
  BY <1>21 DEF JobsFit, SubmitOnce, JobFits
<1>22. QED
  BY <1>1, <1>2, <1>3, <1>4, <1>5, <1>6, <1>7, <1>8, <1>9, <1>10, <1>11,
     <1>12, <1>13, <1>14, <1>15, <1>16, <1>17, <1>18, <1>19, <1>20, <1>21 DEF
     Next, Persisting, Request, GatedSubmit, Worker, Drain, LoopStretch,
     Thread, WorkerStart, Emit, WorkerEnd, PoolBreaks, DrainSentinel, Close,
     Stop, recVars, runVars

(* The sentinel is the last payload of its task.                           *)
LEMMA SentinelNext ==
  TypeOK /\ QueueFed /\ SentinelLast /\ Next
    => SentinelLast'
<1> SUFFICES ASSUME TypeOK, QueueFed, SentinelLast,
                    Next
             PROVE  SentinelLast'
  OBVIOUS
<1> USE TaskManagerAssumption
<1>1. ASSUME NEW t \in Task, Emit(t) PROVE SentinelLast'
  BY <1>1 DEF Emit, SentinelLast, QueueFed, TypeOK, Payload, recVars,
     busVars, cntVars
<1>2. ASSUME NEW t \in Task, WorkerEnd(t) PROVE SentinelLast'
  <2>1. PICK n \in {Len(queue) + 1, Len(queue) + 2} :
          /\ DOMAIN queue = 1..Len(queue) /\ Len(queue) \in Nat
          /\ DOMAIN queue' = 1..n
          /\ \A i \in DOMAIN queue : queue'[i] = queue[i]
          /\ \A i \in DOMAIN queue' \ DOMAIN queue :
               /\ queue'[i].task = t
               /\ queue'[i].type = "flush" <=> i = n
    BY <1>2, Ended
  <2>2. \A i \in DOMAIN queue : queue[i].type = "flush" => queue[i].task # t
    BY <1>2 DEF WorkerEnd, QueueFed
  <2>3. QED
    BY <2>1, <2>2 DEF SentinelLast
<1>3. ASSUME DrainSentinel PROVE SentinelLast'
  <2>1. queue \in Seq(Payload) /\ queue # <<>> /\ queue' = Tail(queue)
    BY <1>3 DEF DrainSentinel, TypeOK
  <2>2. QED
    BY <2>1, Dequeued DEF SentinelLast
<1>4. ASSUME DrainEvent PROVE SentinelLast'
  <2>1. queue \in Seq(Payload) /\ queue # <<>> /\ queue' = Tail(queue)
    BY <1>4 DEF DrainEvent, TypeOK
  <2>2. QED
    BY <2>1, Dequeued DEF SentinelLast
<1>5. ASSUME Restart PROVE SentinelLast'
  BY <1>5 DEF Restart, SentinelLast, QueueFed, TypeOK, Payload, Idle,
     NoRecord
<1>6. CASE UNCHANGED <<queue>>
  BY <1>6 DEF SentinelLast
<1>7. QED
  BY <1>1, <1>2, <1>3, <1>4, <1>5, <1>6 DEF Next, Persisting, Request,
     GatedSubmit, Worker, Drain, LoopStretch, Thread, Snapshot, Replace,
     PersistFails, Submit, CancelCheck, Schedule, CancelFinalize,
     CancelPublish, Admit, TurnAway, Resume, ResumeCancelled, Finalize,
     FinalizeCancelled, WorkerStart, PublishStart, Dispatch, PublishEnd,
     PoolBreaks, PublishEvent, Close, Stop, recVars, runVars

(* Nothing of a task follows its sentinel out of the queue.                *)
LEMMA BarrierNext ==
  TypeOK /\ JobsFit /\ SentinelLast /\ QueueFed /\ BarrierDrained /\ Next
    => BarrierDrained'
<1> SUFFICES ASSUME TypeOK, JobsFit, SentinelLast, QueueFed, BarrierDrained,
                    Next
             PROVE  BarrierDrained'
  OBVIOUS
<1> USE TaskManagerAssumption
<1>1. ASSUME NEW th \in Thread, PersistFails(th) PROVE BarrierDrained'
  BY <1>1 DEF PersistFails, BarrierDrained, JobsFit, SentinelLast, QueueFed,
     TypeOK, JobFits, Thread, Payload, At, Done, Idle, NoRecord, Release,
     recVars, busVars
<1>2. ASSUME NEW t \in Task, ResumeCancelled(t) PROVE BarrierDrained'
  BY <1>2 DEF ResumeCancelled, BarrierDrained, JobsFit, SentinelLast,
     QueueFed, TypeOK, JobFits, Thread, Payload, Free, Idle, NoRecord,
     Release, recVars, busVars, cntVars
<1>3. ASSUME NEW t \in Task, FinalizeCancelled(t) PROVE BarrierDrained'
  BY <1>3 DEF FinalizeCancelled, BarrierDrained, JobsFit, SentinelLast,
     QueueFed, TypeOK, JobFits, Thread, Payload, Free, Idle, NoRecord,
     Release, recVars, busVars, cntVars
<1>4. ASSUME PublishStart PROVE BarrierDrained'
  BY <1>4 DEF PublishStart, BarrierDrained, JobsFit, SentinelLast, QueueFed,
     TypeOK, JobFits, Thread, Payload, At, Goto, recVars, cntVars
<1>5. ASSUME PublishEnd PROVE BarrierDrained'
  BY <1>5 DEF PublishEnd, BarrierDrained, JobsFit, SentinelLast, QueueFed,
     TypeOK, JobFits, Thread, Payload, At, Done, Idle, NoRecord, Release,
     recVars, cntVars
<1>6. ASSUME NEW t \in Task, Emit(t) PROVE BarrierDrained'
  BY <1>6 DEF Emit, BarrierDrained, JobsFit, SentinelLast, QueueFed, TypeOK,
     JobFits, Thread, Payload, recVars, busVars, cntVars
<1>7. ASSUME NEW t \in Task, WorkerEnd(t) PROVE BarrierDrained'
  <2>1. barrier[t] # "set" /\ barrier' = barrier
    BY <1>7 DEF WorkerEnd, QueueFed
  <2>2. /\ \A i \in DOMAIN queue : queue'[i] = queue[i]
        /\ \A i \in DOMAIN queue' \ DOMAIN queue : queue'[i].task = t
    BY <1>7, Ended
  <2>3. QED
    BY <2>1, <2>2 DEF BarrierDrained
<1>8. ASSUME DrainSentinel PROVE BarrierDrained'
  BY <1>8 DEF DrainSentinel, BarrierDrained, JobsFit, SentinelLast, QueueFed,
     TypeOK, JobFits, Thread, Payload, Free, Idle, NoRecord, recVars,
     busVars, cntVars
<1>9. ASSUME DrainEvent PROVE BarrierDrained'
  BY <1>9 DEF DrainEvent, BarrierDrained, JobsFit, SentinelLast, QueueFed,
     TypeOK, JobFits, Thread, Payload, Run, Free, Idle, NoRecord, runVars,
     busVars, cntVars
<1>10. ASSUME Restart PROVE BarrierDrained'
  BY <1>10 DEF Restart, BarrierDrained, JobsFit, SentinelLast, QueueFed,
     TypeOK, JobFits, Thread, Payload, Idle, NoRecord
<1>11. CASE UNCHANGED <<queue, barrier>>
  BY <1>11 DEF BarrierDrained
<1>12. QED
  BY <1>1, <1>2, <1>3, <1>4, <1>5, <1>6, <1>7, <1>8, <1>9, <1>10, <1>11 DEF
     Next, Persisting, Request, GatedSubmit, Worker, Drain, LoopStretch,
     Thread, Snapshot, Replace, Submit, CancelCheck, Schedule,
     CancelFinalize, CancelPublish, Admit, TurnAway, Resume, Finalize,
     WorkerStart, Dispatch, PoolBreaks, PublishEvent, Close, Stop, recVars,
     runVars

(* Only started workers feed the queue, and none after its sentinel.       *)
LEMMA QueueFedNext ==
  /\ TypeOK /\ JobsFit
  /\ BusyAwaited /\ FreshWorker /\ CoroStatus
  /\ SentinelLast /\ QueueFed
  /\ Next
  => QueueFed'
<1> SUFFICES ASSUME TypeOK, JobsFit, BusyAwaited, FreshWorker, CoroStatus,
                    SentinelLast, QueueFed,
                    Next
             PROVE  QueueFed'
  OBVIOUS
<1> USE TaskManagerAssumption
<1>1. ASSUME NEW th \in Thread, PersistFails(th) PROVE QueueFed'
  BY <1>1 DEF PersistFails, QueueFed, JobsFit, BusyAwaited, FreshWorker,
     CoroStatus, SentinelLast, TypeOK, JobFits, Busy, Thread, Payload, At,
     Done, Idle, NoRecord, Release, recVars, busVars
<1>2. ASSUME NEW c \in Client, NEW t \in Task, Submit(c, t) PROVE QueueFed'
  BY <1>2 DEF Submit, QueueFed, JobsFit, BusyAwaited, FreshWorker,
     CoroStatus, SentinelLast, TypeOK, JobFits, Busy, Thread, Payload, Run,
     Free, Idle, NoRecord, runVars, busVars, cntVars
<1>3. ASSUME NEW c \in Client, NEW t \in Task, CancelCheck(c, t) PROVE QueueFed'
  BY <1>3 DEF CancelCheck, QueueFed, JobsFit, BusyAwaited, FreshWorker,
     CoroStatus, SentinelLast, TypeOK, JobFits, Busy, Thread, Payload, Run,
     Free, Idle, NoRecord, recVars, busVars, cntVars
<1>4. ASSUME NEW c \in Client, CancelFinalize(c) PROVE QueueFed'
  BY <1>4 DEF CancelFinalize, QueueFed, JobsFit, BusyAwaited, FreshWorker,
     CoroStatus, SentinelLast, TypeOK, JobFits, Busy, Thread, Payload, At,
     Goto, runVars, busVars, cntVars
<1>5. ASSUME NEW t \in Task, Admit(t) PROVE QueueFed'
  BY <1>5 DEF Admit, QueueFed, JobsFit, BusyAwaited, FreshWorker, CoroStatus,
     SentinelLast, TypeOK, JobFits, Busy, Thread, Payload, Run, Free, Idle,
     NoRecord, busVars, cntVars
<1>6. ASSUME NEW t \in Task, ResumeCancelled(t) PROVE QueueFed'
  BY <1>6 DEF ResumeCancelled, QueueFed, JobsFit, BusyAwaited, FreshWorker,
     CoroStatus, SentinelLast, TypeOK, JobFits, Busy, Thread, Payload, Free,
     Idle, NoRecord, Release, recVars, busVars, cntVars
<1>7. ASSUME NEW t \in Task, Finalize(t) PROVE QueueFed'
  BY <1>7 DEF Finalize, QueueFed, JobsFit, BusyAwaited, FreshWorker,
     CoroStatus, SentinelLast, TypeOK, JobFits, Busy, Thread, Payload, Run,
     Free, Idle, NoRecord, busVars, cntVars
<1>8. ASSUME NEW t \in Task, FinalizeCancelled(t) PROVE QueueFed'
  BY <1>8 DEF FinalizeCancelled, QueueFed, JobsFit, BusyAwaited, FreshWorker,
     CoroStatus, SentinelLast, TypeOK, JobFits, Busy, Thread, Payload, Free,
     Idle, NoRecord, Release, recVars, busVars, cntVars
<1>9. ASSUME NEW t \in Task, WorkerStart(t) PROVE QueueFed'
  BY <1>9 DEF WorkerStart, QueueFed, JobsFit, BusyAwaited, FreshWorker,
     CoroStatus, SentinelLast, TypeOK, JobFits, Busy, Thread, Payload,
     recVars, busVars, cntVars
<1>10. ASSUME NEW t \in Task, Emit(t) PROVE QueueFed'
  <2> DEFINE e == [task |-> t, type |-> Script[emitted[t] + 1]]
  <2>1. Script[emitted[t] + 1] \in {"stage_start", "progress", "stage_end"}
    BY <1>10 DEF Emit, TypeOK
  <2>2. e \in Payload /\ e.task = t /\ e.type # "flush"
    BY <2>1 DEF Payload, StageEvent
  <2>3. worker[t] = "running" /\ status[t] # "absent"
    BY <1>10 DEF Emit, BusyAwaited, Busy, CoroStatus
  <2>4. queue' = Append(queue, e) /\ UNCHANGED <<worker, barrier, status>>
    BY <1>10 DEF Emit, recVars
  <2> HIDE DEF e
  <2>5. QED
    BY <2>2, <2>3, <2>4, Appended DEF QueueFed
<1>11. ASSUME NEW t \in Task, WorkerEnd(t) PROVE QueueFed'
  <2>1. status[t] # "absent" /\ UNCHANGED <<status, barrier>>
    BY <1>11 DEF WorkerEnd, BusyAwaited, Busy, CoroStatus, recVars
  <2>2. /\ worker'[t] \in {"returned", "raised"}
        /\ \A u \in Task \ {t} : worker'[u] = worker[u]
    BY <1>11 DEF WorkerEnd, TypeOK
  <2>3. /\ \A i \in DOMAIN queue : queue'[i] = queue[i]
        /\ \A i \in DOMAIN queue' \ DOMAIN queue : queue'[i].task = t
    BY <1>11, Ended
  <2>4. QED
    BY <2>1, <2>2, <2>3, QueuePayloads DEF QueueFed
<1>12. ASSUME PublishStart PROVE QueueFed'
  BY <1>12 DEF PublishStart, QueueFed, JobsFit, BusyAwaited, FreshWorker,
     CoroStatus, SentinelLast, TypeOK, JobFits, Busy, Thread, Payload, At,
     Goto, recVars, cntVars
<1>13. ASSUME Dispatch PROVE QueueFed'
  <2>1. \A i \in DOMAIN queue : queue[i].task \in Task
    BY QueuePayloads
  <2>2. worker[thread[Loop].task] = "none" /\ thread[Loop].task \in Task
    BY <1>13 DEF Dispatch, At, JobsFit, JobFits, FreshWorker, Thread
  <2>3. /\ \A u \in Task : worker'[u] = worker[u] \/ u = thread[Loop].task
        /\ UNCHANGED <<status, queue, barrier>>
    BY <1>13, <2>2 DEF Dispatch, recVars, TypeOK
  <2>4. QED
    BY <2>1, <2>2, <2>3 DEF QueueFed
<1>14. ASSUME PublishEnd PROVE QueueFed'
  BY <1>14 DEF PublishEnd, QueueFed, JobsFit, BusyAwaited, FreshWorker,
     CoroStatus, SentinelLast, TypeOK, JobFits, Busy, Thread, Payload, At,
     Done, Idle, NoRecord, Release, recVars, cntVars
<1>15. ASSUME PoolBreaks PROVE QueueFed'
  <2>1. \A u \in Task : worker'[u] = worker[u] \/ worker'[u] = "broken"
    BY <1>15 DEF PoolBreaks, TypeOK
  <2>2. UNCHANGED <<queue, barrier, status>>
    BY <1>15 DEF PoolBreaks, recVars
  <2>3. QED
    BY <2>1, <2>2, QueuePayloads DEF QueueFed
<1>16. ASSUME DrainSentinel PROVE QueueFed'
  BY <1>16 DEF DrainSentinel, QueueFed, JobsFit, BusyAwaited, FreshWorker,
     CoroStatus, SentinelLast, TypeOK, JobFits, Busy, Thread, Payload, Free,
     Idle, NoRecord, recVars, busVars, cntVars
<1>17. ASSUME DrainEvent PROVE QueueFed'
  BY <1>17 DEF DrainEvent, QueueFed, JobsFit, BusyAwaited, FreshWorker,
     CoroStatus, SentinelLast, TypeOK, JobFits, Busy, Thread, Payload, Run,
     Free, Idle, NoRecord, runVars, busVars, cntVars
<1>18. ASSUME Stop PROVE QueueFed'
  <2>1. \A u \in Task : \/ worker'[u] = worker[u]
                        \/ worker'[u] = "dropped" /\ worker[u] = "queued"
                        \/ worker'[u] = "broken"
    BY <1>18 DEF Stop, TypeOK
  <2>2. UNCHANGED <<queue, barrier, status>>
    BY <1>18 DEF Stop, recVars
  <2>3. QED
    BY <2>1, <2>2, QueuePayloads DEF QueueFed
<1>19. ASSUME Restart PROVE QueueFed'
  BY <1>19 DEF Restart, QueueFed, JobsFit, BusyAwaited, FreshWorker,
     CoroStatus, SentinelLast, TypeOK, JobFits, Busy, Thread, Payload, Idle,
     NoRecord
<1>20. CASE UNCHANGED <<queue, worker, status, barrier>>
  BY <1>20 DEF QueueFed
<1>21. QED
  BY <1>1, <1>2, <1>3, <1>4, <1>5, <1>6, <1>7, <1>8, <1>9, <1>10, <1>11,
     <1>12, <1>13, <1>14, <1>15, <1>16, <1>17, <1>18, <1>19, <1>20 DEF Next,
     Persisting, Request, GatedSubmit, Worker, Drain, LoopStretch, Thread,
     Snapshot, Replace, Schedule, CancelPublish, TurnAway, Resume,
     PublishEvent, Close, recVars, runVars

-----------------------------------------------------------------------------
LEMMA InvInit == Init => IInv
<1> SUFFICES ASSUME Init PROVE IInv
  OBVIOUS
<1>1. TypeOK
  BY TypeInit
<1>2. JobsFit /\ SubmitOnce
  BY TaskManagerAssumption DEF Init, JobsFit, JobFits, SubmitOnce, Idle, Thread
<1>3. GateOwner /\ BusyAwaited /\ FreshWorker /\ CoroStatus
  BY DEF Init, GateOwner, BusyAwaited, FreshWorker, CoroStatus, Busy,
     Holding, Live
<1>4. SentinelLast /\ QueueFed /\ BarrierDrained
  BY DEF Init, SentinelLast, QueueFed, BarrierDrained
<1>5. QED
  BY <1>1, <1>2, <1>3, <1>4 DEF IInv, CoroInv, JobInv

LEMMA InvNext == IInv /\ [Next]_vars => IInv'
<1> SUFFICES ASSUME IInv, [Next]_vars PROVE IInv'
  OBVIOUS
<1>1. CASE Next
  BY <1>1, TypeNext, JobsNext, CoroNext, SentinelNext, QueueFedNext,
     BarrierNext
     DEF IInv, CoroInv, JobInv
<1>2. CASE UNCHANGED vars
  <2>1. TypeOK'
    BY <1>2 DEF IInv, CoroInv, JobInv, TypeOK, vars
  <2>2. JobsFit' /\ SubmitOnce'
    BY <1>2 DEF IInv, CoroInv, JobInv, JobsFit, JobFits, SubmitOnce, vars
  <2>3. GateOwner' /\ BusyAwaited' /\ FreshWorker' /\ CoroStatus'
    BY <1>2 DEF IInv, CoroInv, JobInv, GateOwner, BusyAwaited, FreshWorker,
       CoroStatus, Busy,
       vars
  <2>4. SentinelLast' /\ QueueFed' /\ BarrierDrained'
    BY <1>2 DEF IInv, CoroInv, JobInv, SentinelLast, QueueFed,
       BarrierDrained, vars
  <2>5. QED
    BY <2>1, <2>2, <2>3, <2>4 DEF IInv, CoroInv, JobInv
<1>3. QED
  BY <1>1, <1>2

(* The inductive invariant holds throughout.                               *)
THEOREM Invariance == Spec => []IInv
BY InvInit, InvNext, PTL DEF Spec

(* Every variable keeps its type, for any number of tasks and threads.     *)
THEOREM TypeCorrect == Spec => []TypeOK
<1>1. IInv => TypeOK
  BY DEF IInv, CoroInv, JobInv
<1>2. QED
  BY <1>1, Invariance, PTL

(* One run at a time: the gate has one owner, and only its owner has a     *)
(* work item in the pool that waits or runs.                               *)
THEOREM GateSerialises == Spec => []RunsAlone
<1>1. IInv => RunsAlone
  BY DEF IInv, CoroInv, JobInv, GateOwner, BusyAwaited, RunsAlone, Holding
<1>2. QED
  BY <1>1, Invariance, PTL

(* Behind the drain barrier the queue holds nothing of the task: all its   *)
(* events were handled before its end is published.                        *)
THEOREM EventsPrecedeEnd == Spec => []BarrierDrained
<1>1. IInv => BarrierDrained
  BY DEF IInv, CoroInv, JobInv
<1>2. QED
  BY <1>1, Invariance, PTL

(* While the backend lives no step takes a task out of CANCELLED.          *)
THEOREM CancelIsKept == Spec => CancelWins
<1> DEFINE Kept == restarts' = restarts =>
             \A t \in Task : status[t] = "cancelled" => status'[t] = "cancelled"
<1>1. TypeOK /\ [Next]_vars => [Kept]_vars
  <2> SUFFICES ASSUME TypeOK, Next, restarts' = restarts,
                      NEW t \in Task, status[t] = "cancelled"
               PROVE  status'[t] = "cancelled"
    BY DEF vars
  <2>1. ASSUME NEW c \in Client, NEW u \in Task, Submit(c, u) PROVE status'[t] = "cancelled"
    BY <2>1 DEF Submit, TypeOK
  <2>2. ASSUME NEW c \in Client, CancelFinalize(c) PROVE status'[t] = "cancelled"
    BY <2>2 DEF CancelFinalize, TypeOK
  <2>3. ASSUME NEW u \in Task, Admit(u) \/ Finalize(u) PROVE status'[t] = "cancelled"
    BY <2>3 DEF Admit, Finalize, TypeOK
  <2>4. CASE Restart
    BY <2>4 DEF Restart, TypeOK
  <2>5. CASE UNCHANGED status
    BY <2>5
  <2>6. QED
    BY <2>1, <2>2, <2>3, <2>4, <2>5 DEF Next, Persisting, Request,
       GatedSubmit, Worker,
       Drain, LoopStretch, Snapshot, Replace, PersistFails, CancelCheck, Schedule,
       CancelPublish, TurnAway, Resume, ResumeCancelled, FinalizeCancelled,
       WorkerStart, Emit, WorkerEnd, PublishStart, Dispatch, PublishEnd, PoolBreaks,
       DrainSentinel, DrainEvent, PublishEvent, Close, Stop, recVars
<1>2. QED
  BY <1>1, TypeCorrect, PTL DEF Spec, CancelWins
-----------------------------------------------------------------------------
(* TaskManager implements TaskLifecycle.                                   *)
LEMMA SameStatuses ==
  /\ Lifecycle!Status = Status /\ Lifecycle!Live = Live
  /\ Lifecycle!Outcome = Outcome
BY DEF Lifecycle!Status, Lifecycle!Live, Lifecycle!Terminal, Lifecycle!Outcome,
   Status, Live, Terminal, Outcome

LEMMA RefinesInit == Init => Lifecycle!Init
BY DEF Init, Lifecycle!Init, Saved, NoRecord

(* A step that changes no record and no file is invisible to the promise;  *)
(* the others are its Create, Start, Succeed, Fail, Cancel, Save, Restart. *)
LEMMA RefinesNext ==
  IInv /\ [Next]_vars => [Lifecycle!Next]_(Lifecycle!lifecycleVars)
<1> SUFFICES ASSUME IInv, [Next]_vars
             PROVE  Lifecycle!Next \/ UNCHANGED <<status, Saved>>
  BY DEF Lifecycle!lifecycleVars
<1> USE DEF IInv, CoroInv, JobInv
<1>1. ASSUME NEW c \in Client, NEW t \in Task, Submit(c, t) PROVE Lifecycle!Next
  <2>1. Lifecycle!Create(t)
    BY <1>1 DEF Submit, Lifecycle!Create, Lifecycle!Move, Saved
  <2>2. QED
    BY <2>1 DEF Lifecycle!Next
<1>2. ASSUME NEW c \in Client, CancelFinalize(c)
      PROVE  Lifecycle!Next \/ UNCHANGED <<status, Saved>>
  <2> DEFINE t == thread[c].task
  <2>1. t \in Task /\ status[t] \in Live \cup Outcome \cup {"cancelled"}
    BY <1>2 DEF CancelFinalize, At, JobsFit, JobFits, Thread, TypeOK, Status,
       Terminal
  <2>2. status' = [status EXCEPT ![t] = "cancelled"] /\ UNCHANGED Saved
    BY <1>2 DEF CancelFinalize, Saved
  <2>3. CASE status[t] = "cancelled"
    BY <2>1, <2>2, <2>3 DEF TypeOK
  <2>4. CASE status[t] # "cancelled"
    <3>1. Lifecycle!Cancel(t)
      BY <2>1, <2>2, <2>4, SameStatuses DEF Lifecycle!Cancel, Lifecycle!Move
    <3>2. QED
      BY <2>1, <3>1 DEF Lifecycle!Next
  <2>5. QED
    BY <2>3, <2>4
<1>3. ASSUME NEW t \in Task, Admit(t) PROVE Lifecycle!Next
  <2>1. status[t] = "pending"
    BY <1>3 DEF Admit, CoroStatus
  <2>2. Lifecycle!Start(t)
    BY <1>3, <2>1 DEF Admit, Lifecycle!Start, Lifecycle!Move, Saved
  <2>3. QED
    BY <2>2 DEF Lifecycle!Next
<1>4. ASSUME NEW t \in Task, Finalize(t) PROVE Lifecycle!Next
  <2>1. status[t] = "running"
    BY <1>4 DEF Finalize, CoroStatus
  <2>2. Lifecycle!Succeed(t) \/ Lifecycle!Fail(t)
    BY <1>4, <2>1 DEF Finalize, Lifecycle!Succeed, Lifecycle!Fail,
       Lifecycle!Move, Saved
  <2>3. QED
    BY <2>2 DEF Lifecycle!Next
<1>5. ASSUME NEW th \in Thread, Replace(th) PROVE Lifecycle!Next
  <2> DEFINE t == thread[th].task
             s == thread[th].snap.status
  <2>1. t \in Task /\ s \in Status /\ Lifecycle!NoLaterThan(s, status[t])
    BY <1>5, Stretch DEF Replace, At, JobsFit, JobFits, Record
  <2>2. Saved' = [Saved EXCEPT ![t] = s] /\ UNCHANGED status
    BY <1>5, <2>1 DEF Replace, Saved, TypeOK, recVars
  <2>3. Lifecycle!Save(t)
    BY <2>1, <2>2, SameStatuses DEF Lifecycle!Save
  <2>4. QED
    BY <2>1, <2>3 DEF Lifecycle!Next
<1>6. CASE Restart
  <2>1. PICK unsaved \in SUBSET Task :
          disk' = [t \in Task |-> IF t \in unsaved THEN disk[t] ELSE Recovered(disk[t])]
    BY <1>6 DEF Restart
  <2>2. \A t \in Task : Recovered(disk[t]).status = Lifecycle!Recovered(disk[t].status)
    BY SameStatuses DEF Recovered, Lifecycle!Recovered, TypeOK, Record
  <2>3. status' = [t \in Task |-> Lifecycle!Recovered(Saved[t])]
    BY <1>6, <2>2 DEF Restart, Saved
  <2>4. Saved' = [t \in Task |-> IF t \in Task \ unsaved THEN Lifecycle!Recovered(Saved[t])
                                 ELSE Saved[t]]
    BY <2>1, <2>2 DEF Saved
  <2>5. Lifecycle!Restart
    BY <2>3, <2>4 DEF Lifecycle!Restart
  <2>6. QED
    BY <2>5 DEF Lifecycle!Next
<1>7. CASE UNCHANGED <<status, disk>>
  BY <1>7 DEF Saved
<1>8. QED
  BY <1>1, <1>2, <1>3, <1>4, <1>5, <1>6, <1>7 DEF Next, Persisting, Request,
     GatedSubmit,
     Worker, Drain, LoopStretch, Snapshot, PersistFails, CancelCheck, Schedule,
     CancelPublish, TurnAway, Resume, ResumeCancelled, FinalizeCancelled,
     WorkerStart, Emit, WorkerEnd, PublishStart, Dispatch, PublishEnd, PoolBreaks,
     DrainSentinel, DrainEvent, PublishEvent, Close, Stop, recVars, vars

(* The service keeps its promise: every behaviour of the threads, the      *)
(* pool, the queue and the files is a behaviour of TaskLifecycle.          *)
THEOREM KeepsPromise == Spec => ImplementsLifecycle
BY RefinesInit, RefinesNext, Invariance, PTL
   DEF Spec, ImplementsLifecycle, Lifecycle!LifecycleSpec
-----------------------------------------------------------------------------
(***************************************************************************)
(* What TaskManager's records, their files and their subscribers agree on, *)
(* for every number of tasks, clients, stage events, restarts and faults.  *)
(* Three more inductive invariants, each on top of IInv:                   *)
(*                                                                         *)
(* Told    an end is published from a thread, some steps after the status  *)
(*         was set under the lock, and a cancel may come in between: the   *)
(*         event a stretch is about to publish fits the record at every    *)
(*         step of the stretch (AnnouncesFit), and a coroutine that is not *)
(*         over has published no end yet (Unannounced).                    *)
(*                                                                         *)
(* Saves   whoever changed a record is on its way to write the file, and a *)
(*         snapshot that was taken is still the record when it reaches the *)
(*         disk (AllSettle): no two threads write one task, but when one   *)
(*         of them cancels it.                                             *)
(*                                                                         *)
(* Shows   what the worker emitted is either in the stage row or still in  *)
(*         the queue, in order (StageTracked).  The barrier empties the    *)
(*         queue of the task, which leaves the row.                        *)
(***************************************************************************)
Announces(th) ==
  LET j == thread[th] IN
    /\ j.op = "start" => j.ev = "stage_start"
    /\ j.op = "event" => j.ev \in StageEvent \cup {"worker_error"}
    /\ j.op = "cancel" => /\ j.ev = "cancelled"
                          /\ j.pc # "cancel" => status[j.task] = "cancelled"
    /\ j.op = "finish" =>
         \/ j.ev = "done" /\ status[j.task] \in {"succeeded", "cancelled"}
         \/ j.ev = "error" /\ status[j.task] \in {"failed", "cancelled"}

AnnouncesFit == \A th \in Thread : Announces(th)

Unannounced ==
  \A t \in Task : coro[t] # "over" => {"done", "error"} \cap ends[t] = {}

Told == AnnouncesFit /\ Unannounced /\ AnnouncedIsRecorded
-----------------------------------------------------------------------------
(* How the status of a task moves in one step.                             *)
Moves(t) ==
  \/ status'[t] = status[t]
  \/ status[t] = "absent"
  \/ status'[t] = "cancelled"
  \/ status[t] = "pending" /\ coro[t] = "queued" /\ status'[t] = "running"
  \/ status[t] = "running" /\ coro[t] = "barrier" /\ status'[t] \in Outcome

LEMMA StatusMoves == IInv /\ Next => Restart \/ \A t \in Task : Moves(t)
<1> SUFFICES ASSUME IInv, Next, ~ Restart, NEW t \in Task PROVE Moves(t)
  OBVIOUS
<1> USE DEF IInv, CoroInv, Moves
<1>1. ASSUME NEW c \in Client, NEW u \in Task, Submit(c, u) PROVE Moves(t)
  BY <1>1 DEF Submit, TypeOK
<1>2. ASSUME NEW c \in Client, CancelFinalize(c) PROVE Moves(t)
  BY <1>2 DEF CancelFinalize, TypeOK
<1>3. ASSUME NEW u \in Task, Admit(u) PROVE Moves(t)
  BY <1>3 DEF Admit, TypeOK, CoroStatus
<1>4. ASSUME NEW u \in Task, Finalize(u) PROVE Moves(t)
  BY <1>4 DEF Finalize, TypeOK, CoroStatus, Outcome
<1>5. CASE UNCHANGED status
  BY <1>5
<1> QED
  BY <1>1, <1>2, <1>3, <1>4, <1>5 DEF Next, Persisting, Request,
     GatedSubmit, Worker, Drain, LoopStretch, Snapshot, Replace, PersistFails,
     CancelCheck, Schedule, CancelPublish, TurnAway, Resume, ResumeCancelled,
     FinalizeCancelled, WorkerStart, Emit, WorkerEnd, PublishStart, Dispatch,
     PublishEnd, PoolBreaks, DrainSentinel, DrainEvent, PublishEvent, Close,
     Stop, recVars

(* A thread that keeps its stretch keeps what the stretch announces.       *)
LEMMA StillAnnounces ==
  ASSUME IInv, AnnouncesFit, Next, ~ Restart,
         NEW th \in Thread,
         thread'[th].op = thread[th].op, thread'[th].task = thread[th].task,
         thread'[th].ev = thread[th].ev,
         thread[th].pc = "cancel" => thread'[th].pc = "cancel"
  PROVE  Announces(th)'
<1> DEFINE j == thread[th]
<1>1. JobFits(th) /\ Announces(th)
  BY DEF IInv, JobInv, JobsFit, AnnouncesFit
<1>2. CASE j.op \notin {"cancel", "finish"}
  BY <1>1, <1>2 DEF Announces
<1>3. CASE j.op \in {"cancel", "finish"}
  <2>1. j.task \in Task /\ Moves(j.task)
    BY <1>1, <1>3, StatusMoves DEF JobFits
  <2>2. CASE j.op = "cancel"
    BY <1>1, <2>1, <2>2 DEF Announces, Moves
  <2>3. CASE j.op = "finish"
    BY <1>1, <2>1, <2>3 DEF Announces, Moves, JobFits
  <2> QED BY <1>3, <2>2, <2>3
<1> QED BY <1>2, <1>3

LEMMA AnnouncesNext == IInv /\ AnnouncesFit /\ Next => AnnouncesFit'
<1> SUFFICES ASSUME IInv, AnnouncesFit, Next, NEW th \in Thread
             PROVE  Announces(th)'
  BY DEF AnnouncesFit
<1>a. TypeOK /\ Loop \in Thread /\ Client \subseteq Thread
      /\ thread \in [Thread -> Job] /\ JobFits(th)
  BY DEF IInv, TypeOK, Thread, JobInv, JobsFit
<1>1. CASE Restart
  BY <1>1 DEF Restart, Announces, Idle
<1>2. CASE thread'[th] = thread[th] /\ ~ Restart
  BY <1>2, StillAnnounces
<1>3. CASE thread'[th] = Idle
  BY <1>3 DEF Announces, Idle
<1>4. ASSUME Snapshot(th) \/ Replace(th), ~ Restart PROVE Announces(th)'
  <2>1. /\ thread'[th].op = thread[th].op /\ thread'[th].task = thread[th].task
        /\ thread'[th].ev = thread[th].ev /\ thread[th].pc # "cancel"
    BY <1>a, <1>4 DEF Snapshot, Replace, Goto, At, Job
  <2> QED BY <1>4, <2>1, StillAnnounces
<1>5. ASSUME PublishStart, th = Loop, ~ Restart PROVE Announces(th)'
  <2>1. /\ thread'[th].op = thread[th].op /\ thread'[th].task = thread[th].task
        /\ thread'[th].ev = thread[th].ev /\ thread[th].pc # "cancel"
    BY <1>a, <1>5 DEF PublishStart, Goto, At, Job
  <2> QED BY <1>5, <2>1, StillAnnounces
<1>6. ASSUME NEW t \in Task, Submit(th, t) PROVE Announces(th)'
  BY <1>a, <1>6 DEF Submit, Run, Announces
<1>7. ASSUME NEW t \in Task, CancelCheck(th, t) PROVE Announces(th)'
  BY <1>a, <1>7 DEF CancelCheck, Run, Announces
<1>8. ASSUME CancelFinalize(th) PROVE Announces(th)'
  <2>1. thread[th].op = "cancel" /\ thread[th].task \in Task
    BY <1>a, <1>8 DEF CancelFinalize, At, JobFits
  <2>2. /\ thread'[th].op = "cancel" /\ thread'[th].task = thread[th].task
        /\ thread'[th].ev = thread[th].ev
    BY <1>a, <1>8, <2>1 DEF CancelFinalize, Goto, Job
  <2>3. status'[thread[th].task] = "cancelled"
    BY <1>a, <1>8, <2>1 DEF CancelFinalize, TypeOK
  <2> QED BY <2>1, <2>2, <2>3 DEF Announces, AnnouncesFit
<1>9. ASSUME NEW t \in Task, Admit(t), th = Loop PROVE Announces(th)'
  BY <1>a, <1>9 DEF Admit, Run, Announces
<1>10. ASSUME NEW t \in Task, Finalize(t), th = Loop PROVE Announces(th)'
  BY <1>a, <1>10 DEF Finalize, Run, Announces, TypeOK
<1>11. ASSUME DrainEvent, th = Loop PROVE Announces(th)'
  <2>1. Head(queue) \in Payload
    BY <1>a, <1>11 DEF DrainEvent, TypeOK
  <2>2. Head(queue).type \in StageEvent \cup {"worker_error"}
    BY <1>11, <2>1 DEF DrainEvent, Payload
  <2>3. /\ thread'[th].op = "event" /\ thread'[th].ev = Head(queue).type
    BY <1>a, <1>11 DEF DrainEvent, Run
  <2> QED BY <2>2, <2>3 DEF Announces
<1>12. ASSUME Next,
             thread'[th] # thread[th], thread'[th] # Idle, ~ Restart
      PROVE  \/ Snapshot(th) \/ Replace(th)
             \/ PublishStart /\ th = Loop
             \/ \E t \in Task : Submit(th, t) \/ CancelCheck(th, t)
             \/ CancelFinalize(th)
             \/ \E t \in Task : (Admit(t) \/ Finalize(t)) /\ th = Loop
             \/ DrainEvent /\ th = Loop
  <2>1. ASSUME NEW u \in Thread, Persisting(u)
        PROVE  u = th /\ (Snapshot(th) \/ Replace(th))
    BY <1>a, <1>12, <2>1 DEF Persisting, Snapshot, Replace, PersistFails, Goto, Done
  <2>2. ASSUME NEW c \in Client, Request(c)
        PROVE  c = th /\ (CancelFinalize(th) \/ \E t \in Task : Submit(th, t) \/ CancelCheck(th, t))
    BY <1>a, <1>12, <2>2 DEF Request, Submit, CancelCheck, Schedule, CancelFinalize,
       CancelPublish, Goto, Done, Run
  <2>3. ASSUME NEW t \in Task, GatedSubmit(t) \/ Worker(t)
        PROVE  th = Loop /\ (Admit(t) \/ Finalize(t))
    BY <1>a, <1>12, <2>3 DEF GatedSubmit, Admit, TurnAway, Resume, ResumeCancelled,
       Finalize, FinalizeCancelled, Run, Worker, WorkerStart, Emit, WorkerEnd
  <2>4. ASSUME PoolBreaks \/ Drain \/ Close \/ Stop PROVE th = Loop /\ DrainEvent
    BY <1>a, <1>12, <2>4 DEF PoolBreaks, Drain, DrainSentinel, DrainEvent, Run,
       Close, Stop
  <2>5. ASSUME LoopStretch PROVE th = Loop /\ PublishStart
    BY <1>a, <1>12, <2>5 DEF LoopStretch, PublishStart, Dispatch, PublishEnd,
       PublishEvent, Goto, Done
  <2> QED BY <1>12, <2>1, <2>2, <2>3, <2>4, <2>5 DEF Next
<1> QED
  BY <1>1, <1>2, <1>3, <1>4, <1>5, <1>6, <1>7, <1>8, <1>9, <1>10, <1>11, <1>12
(* Only the last stretch of a coroutine publishes its outcome.             *)
LEMMA OnlyThenAnnounced ==
  ASSUME IInv, AnnouncesFit, Next, ~ Restart, NEW t \in Task
  PROVE  \/ ends'[t] = ends[t]
         \/ ends'[t] = ends[t] \cup {"worker_error"}
         \/ ends'[t] = ends[t] \cup {"cancelled"} /\ status'[t] = "cancelled"
         \/ /\ coro[t] = "finishing" /\ coro'[t] = "over" /\ status' = status
            /\ \/ ends'[t] = ends[t] \cup {"done"} /\ status[t] \in {"succeeded", "cancelled"}
               \/ ends'[t] = ends[t] \cup {"error"} /\ status[t] \in {"failed", "cancelled"}
<1>a. TypeOK /\ Loop \in Thread /\ Client \subseteq Thread /\ JobsFit
      /\ ends \in [Task -> SUBSET End]
  BY DEF IInv, TypeOK, Thread, JobInv
<1>1. ASSUME PublishStart PROVE ends'[t] = ends[t]
  <2>1. thread[Loop].ev = "stage_start"
    BY <1>a, <1>1 DEF PublishStart, AnnouncesFit, Announces
  <2>2. ends' = [ends EXCEPT ![thread[Loop].task] = @ \cup ({"stage_start"} \cap End)]
    BY <1>1, <2>1 DEF PublishStart, Publish
  <2>3. {"stage_start"} \cap End = {}
    BY DEF End
  <2> QED BY <1>a, <2>2, <2>3
<1>2. ASSUME PublishEvent
      PROVE  \/ ends'[t] = ends[t] \/ ends'[t] = ends[t] \cup {"worker_error"}
  <2>1. PICK e \in StageEvent \cup {"worker_error"} : e = thread[Loop].ev
    BY <1>a, <1>2 DEF PublishEvent, AnnouncesFit, Announces
  <2>2. ends' = [ends EXCEPT ![thread[Loop].task] = @ \cup ({e} \cap End)]
    BY <1>2, <2>1 DEF PublishEvent, Publish
  <2>3. {e} \cap End = {} \/ {e} \cap End = {"worker_error"}
    BY <2>1 DEF StageEvent, End
  <2> QED BY <1>a, <2>2, <2>3
<1>3. ASSUME NEW c \in Client, CancelPublish(c)
      PROVE  \/ ends'[t] = ends[t]
             \/ ends'[t] = ends[t] \cup {"cancelled"} /\ status'[t] = "cancelled"
  <2>1. /\ thread[c].ev = "cancelled" /\ status[thread[c].task] = "cancelled"
        /\ status' = status
    BY <1>a, <1>3 DEF CancelPublish, AnnouncesFit, Announces, At, recVars
  <2>2. ends' = [ends EXCEPT ![thread[c].task] = @ \cup ({"cancelled"} \cap End)]
    BY <1>3, <2>1 DEF CancelPublish, Publish
  <2>3. {"cancelled"} \cap End = {"cancelled"}
    BY DEF End
  <2> QED BY <1>a, <2>1, <2>2, <2>3
<1>4. ASSUME PublishEnd
      PROVE  \/ ends'[t] = ends[t]
             \/ /\ coro[t] = "finishing" /\ coro'[t] = "over" /\ status' = status
                /\ \/ ends'[t] = ends[t] \cup {"done"} /\ status[t] \in {"succeeded", "cancelled"}
                   \/ ends'[t] = ends[t] \cup {"error"} /\ status[t] \in {"failed", "cancelled"}
  <2> DEFINE u == thread[Loop].task
  <2>1. PICK e : e = thread[Loop].ev
    OBVIOUS
  <2>2. /\ u \in Task /\ coro[u] = "finishing" /\ status' = status
        /\ \/ e = "done" /\ status[u] \in {"succeeded", "cancelled"}
           \/ e = "error" /\ status[u] \in {"failed", "cancelled"}
    BY <1>a, <1>4, <2>1 DEF PublishEnd, AnnouncesFit, Announces, JobsFit, JobFits, recVars
  <2>3. /\ ends' = [ends EXCEPT ![u] = @ \cup ({e} \cap End)]
        /\ coro' = [coro EXCEPT ![u] = "over"]
    BY <1>4, <2>1 DEF PublishEnd, Publish, Release
  <2>4. {e} \cap End = {e}
    BY <2>2 DEF End
  <2> HIDE DEF u
  <2>5. CASE t = u
    <3>1. ends'[t] = ends[t] \cup {e} /\ coro'[t] = "over"
      BY <1>a, <2>2, <2>3, <2>4, <2>5 DEF TypeOK
    <3> QED BY <2>2, <2>5, <3>1
  <2>6. CASE t # u
    BY <1>a, <2>3, <2>6
  <2> QED BY <2>5, <2>6
<1>5. CASE UNCHANGED ends
  BY <1>5
<1> QED
  BY <1>1, <1>2, <1>3, <1>4, <1>5 DEF Next, Persisting, Request, GatedSubmit,
     Worker, Drain, LoopStretch, Snapshot, Replace, PersistFails, Submit,
     CancelCheck, Schedule, CancelFinalize, Admit, TurnAway, Resume,
     ResumeCancelled, Finalize, FinalizeCancelled, WorkerStart, Emit, WorkerEnd,
     Dispatch, PoolBreaks, DrainSentinel, DrainEvent, Close, Stop, busVars

(* A coroutine that is over stays over.                                    *)
LEMMA StaysOver ==
  ASSUME IInv, Next, ~ Restart, NEW t \in Task, coro[t] = "over"
  PROVE  coro'[t] = "over"
<1>a. TypeOK /\ JobsFit
  BY DEF IInv, JobInv
<1>1. ASSUME NEW c \in Client, Schedule(c) PROVE coro'[t] = "over"
  BY <1>a, <1>1 DEF Schedule, JobsFit, JobFits, Thread, TypeOK
<1>2. ASSUME NEW th \in Thread, PersistFails(th) PROVE coro'[t] = "over"
  BY <1>a, <1>2 DEF PersistFails, Release, TypeOK
<1>3. ASSUME NEW u \in Task, GatedSubmit(u) PROVE coro'[t] = "over"
  BY <1>a, <1>3 DEF GatedSubmit, Admit, TurnAway, Resume, ResumeCancelled,
     Finalize, FinalizeCancelled, Release, TypeOK
<1>4. ASSUME LoopStretch PROVE coro'[t] = "over"
  <2>1. CASE Dispatch
    BY <1>a, <2>1 DEF Dispatch, At, JobsFit, JobFits, Thread, TypeOK
  <2>2. CASE PublishEnd
    BY <1>a, <2>2 DEF PublishEnd, Release, TypeOK
  <2> QED BY <1>4, <2>1, <2>2 DEF LoopStretch, PublishStart, PublishEvent, runVars
<1>5. CASE UNCHANGED coro
  BY <1>5
<1> QED
  BY <1>1, <1>2, <1>3, <1>4, <1>5 DEF Next, Persisting, Request, Worker, Drain,
     Snapshot, Replace, Submit, CancelCheck, CancelFinalize, CancelPublish,
     WorkerStart, Emit, WorkerEnd, PoolBreaks, DrainSentinel, DrainEvent, Close,
     Stop, runVars

LEMMA ToldNext == IInv /\ Told /\ Next => Told'
<1> SUFFICES ASSUME IInv, Told, Next PROVE Told'
  OBVIOUS
<1>1. AnnouncesFit'
  BY AnnouncesNext DEF Told
<1>2. Unannounced'
  <2> SUFFICES ASSUME NEW t \in Task, coro'[t] # "over"
               PROVE  {"done", "error"} \cap ends'[t] = {}
    BY DEF Unannounced
  <2>1. CASE Restart
    BY <2>1 DEF Restart
  <2>2. CASE ~ Restart
    <3>1. {"done", "error"} \cap ends[t] = {}
      BY <2>2, StaysOver DEF Told, Unannounced
    <3> QED BY <2>2, <3>1, OnlyThenAnnounced DEF Told
  <2> QED BY <2>1, <2>2
<1>3. AnnouncedIsRecorded'
  <2> SUFFICES ASSUME NEW t \in Task
               PROVE  /\ "done" \in ends'[t] => status'[t] \in {"succeeded", "cancelled"}
                      /\ "error" \in ends'[t] => status'[t] \in {"failed", "cancelled"}
                      /\ "cancelled" \in ends'[t] => status'[t] = "cancelled"
                      /\ ~ ({"done", "error"} \subseteq ends'[t])
    BY DEF AnnouncedIsRecorded
  <2>1. CASE Restart
    BY <2>1 DEF Restart
  <2>2. CASE ~ Restart
    <3>1. Moves(t)
      BY <2>2, StatusMoves
    <3>2. /\ "done" \in ends[t] => status'[t] \in {"succeeded", "cancelled"}
          /\ "error" \in ends[t] => status'[t] \in {"failed", "cancelled"}
          /\ "cancelled" \in ends[t] => status'[t] = "cancelled"
          /\ ~ ({"done", "error"} \subseteq ends[t])
      BY <3>1 DEF Told, AnnouncedIsRecorded, Moves
    <3>3. coro[t] = "finishing" => {"done", "error"} \cap ends[t] = {}
      BY DEF Told, Unannounced
    <3> QED BY <2>2, <3>2, <3>3, OnlyThenAnnounced DEF Told
  <2> QED BY <2>1, <2>2
<1> QED BY <1>1, <1>2, <1>3 DEF Told

LEMMA ToldInit == Init => Told
BY DEF Init, Told, AnnouncesFit, Announces, Unannounced, AnnouncedIsRecorded, Idle

LEMMA ToldKept == IInv /\ Told /\ [Next]_vars => Told'
<1> SUFFICES ASSUME IInv, Told, UNCHANGED vars PROVE Told'
  BY ToldNext
<1> QED
  BY DEF Told, AnnouncesFit, Announces, Unannounced, AnnouncedIsRecorded, vars

(* What subscribers were told is what the record says, a cancel that       *)
(* overtook the outcome apart: _finalize sets the status under the lock,   *)
(* writes the file and publishes later, with requests in between.          *)
THEOREM AnnouncementsTrue == Spec => []AnnouncedIsRecorded
<1>1. Told => AnnouncedIsRecorded
  BY DEF Told
<1> QED
  BY <1>1, ToldInit, ToldKept, Invariance, PTL DEF Spec
-----------------------------------------------------------------------------
Writing(th, t) == thread[th].task = t /\ thread[th].pc \in {"snapshot", "replace"}

Settles(t) ==
  faults = 0 /\ status[t] # "cancelled" =>
    /\ \A th \in Thread : Writing(th, t) /\ thread[th].pc = "replace"
                             => thread[th].snap = Current(t)
    /\ (\E th \in Thread : Writing(th, t)) \/ disk[t] = Current(t)

AllSettle == \A t \in Task : Settles(t)

(* What leaves a record, its file and its writers alone.                   *)
LEMMA Undisturbed ==
  ASSUME NEW t \in Task, Settles(t),
         faults' = faults, status'[t] = status[t], Current(t)' = Current(t),
         disk'[t] = disk[t],
         \A th \in Thread : Writing(th, t) \/ Writing(th, t)'
                              => thread'[th] = thread[th]
  PROVE  Settles(t)'
<1>1. \A th \in Thread : (Writing(th, t) <=> Writing(th, t)')
  BY DEF Writing
<1> SUFFICES ASSUME faults = 0, status[t] # "cancelled"
             PROVE  /\ \A th \in Thread : Writing(th, t)' /\ thread'[th].pc = "replace"
                                             => thread'[th].snap = Current(t)'
                    /\ (\E th \in Thread : Writing(th, t)') \/ disk'[t] = Current(t)'
  BY DEF Settles
<1> QED BY <1>1 DEF Settles

(* A thread that is to change the record of t, or is about to save it,     *)
(* finds no other thread that saves it.                                    *)
LEMMA NoOtherWriter ==
  ASSUME IInv, AnnouncesFit, NEW t \in Task, NEW th \in Thread, th # Loop,
         Writing(th, t), status[t] # "cancelled"
  PROVE  coro[t] = "none" /\ status[t] # "absent" /\ worker[t] = "none"
<1>1. JobFits(th) /\ Announces(th) /\ thread[th] \in Job /\ FreshWorker
  BY DEF IInv, JobInv, CoroInv, JobsFit, AnnouncesFit, TypeOK
<1>2. thread[th].op # "cancel"
  BY <1>1 DEF Announces, Writing
<1>3. thread[th].op = "submit"
  BY <1>1, <1>2 DEF JobFits, Writing, Job, Op
<1> QED BY <1>1, <1>3 DEF JobFits, Writing, FreshWorker

(* The event loop puts the record of t into a new state and goes to save   *)
(* it.                                                                     *)
LEMMA LoopChanges ==
  ASSUME IInv, AnnouncesFit, NEW t \in Task, Free(Loop), Loop \in Thread,
         coro[t] # "none" \/ worker[t] # "none",
         status[t] # "cancelled",
         thread'[Loop].task = t, thread'[Loop].pc = "snapshot",
         \A th \in Thread \ {Loop} : thread'[th] = thread[th]
  PROVE  Settles(t)'
<1>1. \A th \in Thread : ~ (Writing(th, t)' /\ thread'[th].pc = "replace")
  BY NoOtherWriter DEF Writing
<1>2. Writing(Loop, t)'
  BY DEF Writing
<1> QED BY <1>1, <1>2 DEF Settles

LEMMA SettlesNext ==
  ASSUME IInv, AnnouncesFit, AllSettle, Next, NEW t \in Task
  PROVE  Settles(t)'
<1>a. TypeOK /\ JobsFit /\ Loop \in Thread /\ Client \subseteq Thread
      /\ thread \in [Thread -> Job] /\ Settles(t) /\ Loop \notin Client
  BY TaskManagerAssumption DEF IInv, TypeOK, Thread, JobInv, AllSettle
<1>1. ASSUME NEW th \in Thread, Snapshot(th) PROVE Settles(t)'
  <2>1. /\ \A u \in Thread \ {th} : thread'[u] = thread[u]
        /\ thread'[th].task = thread[th].task
        /\ thread'[th].pc = "replace" /\ thread[th].pc = "snapshot"
        /\ thread'[th].snap = Current(thread[th].task)
    BY <1>a, <1>1 DEF Snapshot, At, Job
  <2>2. /\ faults' = faults /\ status'[t] = status[t] /\ disk'[t] = disk[t]
        /\ Current(t)' = Current(t)
    BY <1>1 DEF Snapshot, recVars, cntVars, Current
  <2>3. CASE thread[th].task # t
    BY <1>a, <2>1, <2>2, <2>3, Undisturbed DEF Writing
  <2>4. CASE thread[th].task = t
    BY <1>a, <2>1, <2>2, <2>4 DEF Settles, Writing
  <2> QED BY <2>3, <2>4
<1>2. ASSUME NEW th \in Thread, Replace(th) PROVE Settles(t)'
  <2>1. /\ \A u \in Thread \ {th} : thread'[u] = thread[u]
        /\ thread'[th].task = thread[th].task
        /\ thread'[th].pc = "publish" /\ thread[th].pc = "replace"
    BY <1>a, <1>2 DEF Replace, Goto, At, Job
  <2>2. /\ faults' = faults /\ status'[t] = status[t]
        /\ Current(t)' = Current(t)
    BY <1>2 DEF Replace, recVars, cntVars, Current
  <2>3. CASE thread[th].task # t
    <3>1. disk'[t] = disk[t]
      BY <1>2, <2>3 DEF Replace, TypeOK, IInv
    <3> QED BY <1>a, <2>1, <2>2, <2>3, <3>1, Undisturbed DEF Writing
  <2>4. CASE thread[th].task = t
    <3>1. disk'[t] = thread[th].snap
      BY <1>a, <1>2, <2>4 DEF Replace, TypeOK
    <3> QED BY <1>a, <2>1, <2>2, <2>4, <3>1 DEF Settles, Writing
  <2> QED BY <2>3, <2>4
<1>3. ASSUME NEW th \in Thread, PersistFails(th) PROVE Settles(t)'
  <2>1. faults' # 0
    BY <1>a, <1>3 DEF PersistFails, TypeOK
  <2> QED BY <2>1 DEF Settles
<1>4. ASSUME NEW c \in Client, NEW u \in Task, Submit(c, u) PROVE Settles(t)'
  <2>1. /\ \A v \in Thread \ {c} : thread'[v] = thread[v]
        /\ thread'[c].task = u /\ thread'[c].pc = "snapshot" /\ thread[c] = Idle
        /\ status[u] = "absent"
    BY <1>a, <1>4 DEF Submit, Run, Free
  <2>2. /\ faults' = faults /\ disk'[t] = disk[t] /\ stage' = stage
        /\ u # t => status'[t] = status[t]
    BY <1>a, <1>4 DEF Submit, cntVars, TypeOK
  <2>3. CASE u # t
    <3>1. Current(t)' = Current(t)
      BY <2>2, <2>3 DEF Current
    <3> QED BY <1>a, <2>1, <2>2, <2>3, <3>1, TaskManagerAssumption, Undisturbed DEF Writing, Idle
  <2>4. CASE u = t
    <3>1. \A v \in Thread : ~ Writing(v, t)
      BY <1>a, <2>1, <2>4 DEF JobsFit, JobFits, Writing
    <3> QED BY <1>a, <2>1, <2>4, <3>1 DEF Settles, Writing
  <2> QED BY <2>3, <2>4
<1>5. ASSUME NEW c \in Client, CancelFinalize(c) PROVE Settles(t)'
  <2>1. /\ \A v \in Thread \ {c} : thread'[v] = thread[v]
        /\ thread'[c].task = thread[c].task /\ thread[c].pc = "cancel"
        /\ thread[c].task \in Task
    BY <1>a, <1>5, Stretch DEF CancelFinalize, Goto, At, Job
  <2>2. /\ faults' = faults /\ disk'[t] = disk[t] /\ stage' = stage
        /\ status' = [status EXCEPT ![thread[c].task] = "cancelled"]
    BY <1>5 DEF CancelFinalize, cntVars
  <2>3. CASE thread[c].task # t
    <3>1. Current(t)' = Current(t) /\ status'[t] = status[t]
      BY <1>a, <2>1, <2>2, <2>3 DEF Current, TypeOK
    <3> QED BY <1>a, <2>1, <2>2, <2>3, <3>1, Undisturbed DEF Writing
  <2>4. CASE thread[c].task = t
    <3>1. status'[t] = "cancelled"
      BY <1>a, <2>1, <2>2, <2>4 DEF TypeOK
    <3> QED BY <3>1 DEF Settles
  <2> QED BY <2>3, <2>4
<1>6. ASSUME NEW u \in Task, Admit(u) \/ Finalize(u) PROVE Settles(t)'
  <2>1. /\ \A v \in Thread \ {Loop} : thread'[v] = thread[v]
        /\ thread'[Loop].task = u /\ thread'[Loop].pc = "snapshot" /\ Free(Loop)
    BY <1>a, <1>6 DEF Admit, Finalize, Run
  <2>2. CASE u # t
    <3>1. /\ faults' = faults /\ disk'[t] = disk[t] /\ status'[t] = status[t]
          /\ Current(t)' = Current(t)
      BY <1>a, <1>6, <2>2 DEF Admit, Finalize, cntVars, TypeOK, Current
    <3> QED BY <1>a, <2>1, <2>2, <3>1, TaskManagerAssumption, Undisturbed DEF Writing, Free, Idle
  <2>3. CASE u = t
    <3>1. coro[t] # "none" /\ status[t] # "cancelled"
      BY <1>6, <2>3 DEF Admit, Finalize
    <3> QED BY <1>a, <2>1, <2>3, <3>1, LoopChanges
  <2> QED BY <2>2, <2>3
<1>7. ASSUME DrainEvent PROVE Settles(t)'
  <2> DEFINE p == Head(queue)
  <2>1. /\ p \in Payload /\ p.task \in Task /\ worker[p.task] # "none"
    <3>1. 1 \in DOMAIN queue /\ p = queue[1]
      BY <1>a, <1>7 DEF DrainEvent, TypeOK
    <3> QED BY <1>a, <3>1, QueuePayloads DEF IInv, QueueFed
  <2>2. /\ \A v \in Thread \ {Loop} : thread'[v] = thread[v]
        /\ thread'[Loop].task = p.task /\ Free(Loop)
        /\ thread'[Loop].pc = IF p.type \in {"stage_start", "stage_end"}
                              THEN "snapshot" ELSE "publish"
        /\ faults' = faults /\ disk' = disk /\ status' = status
        /\ stage' = [stage EXCEPT ![p.task] = StageAfter(p.type, @)]
    BY <1>a, <1>7 DEF DrainEvent, Run, cntVars
  <2> HIDE DEF p
  <2>3. CASE p.task = t /\ p.type \in {"stage_start", "stage_end"}
    <3>1. CASE status[t] = "cancelled"
      BY <2>2, <3>1 DEF Settles
    <3>2. CASE status[t] # "cancelled"
      BY <1>a, <2>1, <2>2, <2>3, <3>2, LoopChanges
    <3> QED BY <3>1, <3>2
  <2>4. CASE ~ (p.task = t /\ p.type \in {"stage_start", "stage_end"})
    <3>1. stage'[t] = stage[t]
      BY <1>a, <2>1, <2>2, <2>4 DEF StageAfter, TypeOK
    <3>2. Current(t)' = Current(t)
      BY <2>2, <3>1 DEF Current
    <3>3. \A v \in Thread : Writing(v, t) \/ Writing(v, t)' => thread'[v] = thread[v]
      BY <2>2, <2>4, TaskManagerAssumption DEF Writing, Free, Idle
    <3> QED BY <1>a, <2>2, <3>2, <3>3, Undisturbed
  <2> QED BY <2>3, <2>4
<1>8. CASE Restart
  <2> SUFFICES ASSUME faults' = 0 PROVE disk'[t] = Current(t)'
    BY <1>8 DEF Settles, Restart, Writing, Idle
  <2>1. PICK unsaved \in SUBSET {v \in Task : disk[v].status \in Live} :
          /\ faults' = faults + Cardinality(unsaved)
          /\ disk' = [v \in Task |-> IF v \in unsaved THEN disk[v] ELSE Recovered(disk[v])]
    BY <1>8 DEF Restart
  <2>2. unsaved = {}
    <3>1. IsFiniteSet(unsaved) /\ Cardinality(unsaved) \in Nat
      BY <2>1, TaskManagerAssumption, FS_Subset, FS_CardinalityType
    <3>2. Cardinality(unsaved) = 0
      BY <1>a, <2>1, <3>1 DEF TypeOK
    <3> QED BY <3>1, <3>2, FS_EmptySet
  <2>3. disk'[t] = Recovered(disk[t])
    BY <2>1, <2>2
  <2>4. Current(t)' = [status |-> Recovered(disk[t]).status, stage |-> disk[t].stage]
    BY <1>8 DEF Restart, Current
  <2>5. disk[t] \in Record
    BY <1>a DEF TypeOK
  <2> QED BY <2>3, <2>4, <2>5 DEF Recovered, Record
<1>9. ASSUME NEW th \in Thread, thread[th].pc \in {"idle", "publish", "dispatch"},
             thread'[th].pc \in {"idle", "cancel", "dispatch"},
             \A v \in Thread \ {th} : thread'[v] = thread[v],
             UNCHANGED <<recVars, disk, faults>>
      PROVE  Settles(t)'
  <2>1. \A v \in Thread : Writing(v, t) \/ Writing(v, t)' => thread'[v] = thread[v]
    BY <1>9 DEF Writing
  <2>2. Current(t)' = Current(t)
    BY <1>9 DEF recVars, Current
  <2> QED BY <1>a, <1>9, <2>1, <2>2, Undisturbed DEF recVars
<1>10. CASE UNCHANGED <<recVars, disk, faults, thread>>
  <2>1. Current(t)' = Current(t)
    BY <1>10 DEF recVars, Current
  <2> QED BY <1>a, <1>10, <2>1, Undisturbed DEF recVars
<1>11. ASSUME NEW c \in Client,
              Schedule(c) \/ CancelPublish(c) \/ \E u \in Task : CancelCheck(c, u)
       PROVE  Settles(t)'
  <2>1. /\ thread[c].pc \in {"idle", "publish", "dispatch"}
        /\ thread'[c].pc \in {"idle", "cancel", "dispatch"}
        /\ \A v \in Thread \ {c} : thread'[v] = thread[v]
        /\ UNCHANGED <<recVars, disk, faults>>
    BY <1>a, <1>11 DEF Schedule, CancelPublish, CancelCheck, At, Free, Done, Run,
       Idle, cntVars
  <2> QED BY <1>a, <1>9, <2>1
<1>12. ASSUME LoopStretch PROVE Settles(t)'
  <2>1. /\ thread[Loop].pc \in {"idle", "publish", "dispatch"}
        /\ thread'[Loop].pc \in {"idle", "cancel", "dispatch"}
        /\ \A v \in Thread \ {Loop} : thread'[v] = thread[v]
        /\ UNCHANGED <<recVars, disk, faults>>
    BY <1>a, <1>12 DEF LoopStretch, PublishStart, Dispatch, PublishEnd, PublishEvent,
       At, Done, Goto, Idle, cntVars, Job
  <2> QED BY <1>a, <1>9, <2>1
<1> QED
  BY <1>1, <1>2, <1>3, <1>4, <1>5, <1>6, <1>7, <1>8, <1>10, <1>11, <1>12 DEF
     Next, Persisting, Request, GatedSubmit, Worker, Drain, TurnAway, Resume,
     ResumeCancelled, FinalizeCancelled, WorkerStart, Emit, WorkerEnd, PoolBreaks,
     DrainSentinel, Close, Stop, cntVars, recVars
LEMMA SettlesInit == Init => AllSettle
BY DEF Init, AllSettle, Settles, Writing, Idle, Current, NoRecord

Saves == AnnouncesFit /\ AllSettle

LEMMA SavesKept == IInv /\ Saves /\ [Next]_vars => Saves'
<1> SUFFICES ASSUME IInv, Saves, [Next]_vars PROVE Saves'
  OBVIOUS
<1>1. CASE Next
  BY <1>1, AnnouncesNext, SettlesNext DEF Saves, AllSettle
<1>2. CASE UNCHANGED vars
  <2>1. AnnouncesFit'
    BY <1>2 DEF Saves, AnnouncesFit, Announces, vars
  <2>2. ASSUME NEW t \in Task PROVE Settles(t)'
    <3>1. Current(t)' = Current(t)
      BY <1>2 DEF Current, vars
    <3> QED BY <1>2, <3>1, Undisturbed DEF Saves, AllSettle, vars
  <2> QED BY <2>1, <2>2 DEF Saves, AllSettle
<1> QED BY <1>1, <1>2

(* As long as no write failed, a record that no thread is busy with is in  *)
(* its file as it is in memory (a cancelled one apart): although submit,   *)
(* the loop and the drain path write it without a lock, none of them saves *)
(* a snapshot that has become old.                                         *)
THEOREM QuietIsDurable == Spec => []DurableWhenQuiet
<1>1. Saves => DurableWhenQuiet
  BY DEF Saves, AllSettle, Settles, Writing, DurableWhenQuiet, Quiet
<1>2. Init => Saves
  BY SettlesInit, ToldInit DEF Saves, Told
<1> QED
  BY <1>1, <1>2, SavesKept, Invariance, PTL DEF Spec
-----------------------------------------------------------------------------
(* Where a task that was not run yet stands.                               *)
Unstarted ==
  /\ \A t \in Task :
       /\ status[t] = "absent" \/ coro[t] \in {"queued", "starting"} => stage[t] = "pending"
       /\ disk[t].status = "absent" => disk[t].stage = "pending"
       /\ worker[t] \in {"none", "queued"} => emitted[t] = 0
       /\ coro[t] = "awaiting" => worker[t] # "none"
  /\ \A th \in Thread :
       /\ thread[th].op = "submit" => stage[thread[th].task] = "pending"
       /\ thread[th].pc = "replace" => thread[th].snap.status # "absent"

(* The payload for stage event m of a run of t.                            *)
StagePayload(t, m) == [task |-> t, type |-> Script[m]]

(* The stage events k + 1 .. e of t are in the queue q, in this order, and *)
(* no others.                                                              *)
Queued(t, k, e, q) ==
  \E f \in [(k + 1)..e -> DOMAIN q] :
    /\ \A m \in (k + 1)..e : q[f[m]] = StagePayload(t, m)
    /\ \A m, n \in (k + 1)..e : m < n => f[m] < f[n]
    /\ \A i \in DOMAIN q : q[i].task = t /\ q[i].type \in StageEvent
                             => \E m \in (k + 1)..e : f[m] = i

StageTracked ==
  \A t \in Task : worker[t] # "none" =>
    \E k \in 0..emitted[t] : /\ stage[t] = StageUpTo[k]
                              /\ Queued(t, k, emitted[t], queue)

Shows == Unstarted /\ StageTracked

LEMMA ScriptTyped ==
  /\ Len(Script) \in Nat
  /\ \A m \in 1..Len(Script) : Script[m] \in StageEvent
BY TaskManagerAssumption DEF StageEvent

(* StageUpTo is the recursion it is written as.                            *)
LEMMA StageRecursion ==
  /\ StageUpTo[0] = "pending"
  /\ \A n \in 0..(Len(Script) - 1) :
       StageUpTo[n + 1] = StageAfter(Script[n + 1], StageUpTo[n])
<1> DEFINE Body(f, n) == IF n = 0 THEN "pending" ELSE StageAfter(Script[n], f[n - 1])
           S == {n \in Nat : \E f : f = [k \in 0..n |-> Body(f, k)]}
<1>1. 0 \in S
  <2> DEFINE f == [k \in 0..0 |-> "pending"]
  <2>1. f = [k \in 0..0 |-> Body(f, k)]
    OBVIOUS
  <2> HIDE DEF Body, f
  <2> QED BY <2>1
<1>2. \A n \in Nat : n \in S => n + 1 \in S
  <2> SUFFICES ASSUME NEW n \in Nat, NEW f, f = [k \in 0..n |-> Body(f, k)]
               PROVE  n + 1 \in S
    OBVIOUS
  <2> DEFINE g == [k \in 0..(n + 1) |-> IF k <= n THEN f[k] ELSE Body(f, k)]
  <2>1. \A k \in 0..n : g[k] = f[k]
    OBVIOUS
  <2>2. \A k \in 0..(n + 1) : Body(g, k) = Body(f, k)
    <3> TAKE k \in 0..(n + 1)
    <3>1. CASE k = 0
      BY <3>1
    <3>2. CASE k # 0
      <4>1. k - 1 \in 0..n
        BY <3>2
      <4> QED BY <2>1, <3>2, <4>1
    <3> QED BY <3>1, <3>2
  <2>3. \A k \in 0..(n + 1) : g[k] = Body(f, k)
    <3> HIDE DEF Body
    <3> TAKE k \in 0..(n + 1)
    <3>1. CASE k <= n
      <4>1. f[k] = Body(f, k)
        BY <3>1
      <4> QED BY <3>1, <4>1
    <3> QED BY <3>1
  <2> HIDE DEF Body
  <2>4. g = [k \in 0..(n + 1) |-> Body(g, k)]
    BY <2>2, <2>3
  <2> HIDE DEF g
  <2> QED BY <2>4
<1>3. Len(Script) \in S
  <2> HIDE DEF S
  <2> QED BY <1>1, <1>2, Naturals, ScriptTyped
<1>4. StageUpTo = [n \in 0..Len(Script) |-> Body(StageUpTo, n)]
  BY <1>3 DEF StageUpTo
<1>5. \A n \in 0..Len(Script) : StageUpTo[n] = Body(StageUpTo, n)
  <2> HIDE DEF Body
  <2> QED BY <1>4
<1>6. StageUpTo[0] = "pending"
  BY <1>5, ScriptTyped
<1>7. ASSUME NEW n \in 0..(Len(Script) - 1)
      PROVE  StageUpTo[n + 1] = StageAfter(Script[n + 1], StageUpTo[n])
  <2>1. n + 1 \in 0..Len(Script) /\ n + 1 # 0 /\ (n + 1) - 1 = n
    BY ScriptTyped
  <2> QED BY <1>5, <2>1
<1> QED BY <1>6, <1>7

(* How the events of a task wait in the queue while it grows and shrinks.  *)
LEMMA QueuedNone ==
  ASSUME NEW t, NEW e \in Nat, NEW q,
         \A i \in DOMAIN q : ~ (q[i].task = t /\ q[i].type \in StageEvent)
  PROVE  Queued(t, e, e, q)
<1>1. (e + 1)..e = {}
  OBVIOUS
<1> DEFINE f == [m \in (e + 1)..e |-> m]
<1>2. f \in [(e + 1)..e -> DOMAIN q]
  BY <1>1
<1> HIDE DEF f
<1> QED BY <1>1, <1>2 DEF Queued

LEMMA QueuedUnlessNone ==
  ASSUME NEW t, NEW e \in Nat, NEW k \in 0..e, NEW q, Queued(t, k, e, q),
         \A i \in DOMAIN q : q[i].task # t
  PROVE  k = e
<1>1. PICK f \in [(k + 1)..e -> DOMAIN q] :
        \A m \in (k + 1)..e : q[f[m]] = StagePayload(t, m)
  BY DEF Queued
<1> SUFFICES ASSUME k # e PROVE FALSE
  OBVIOUS
<1>2. k + 1 \in (k + 1)..e
  OBVIOUS
<1>3. f[k + 1] \in DOMAIN q
  BY <1>2
<1>4. q[f[k + 1]].task = t
  <2>1. q[f[k + 1]] = StagePayload(t, k + 1)
    BY <1>1, <1>2
  <2> QED BY <2>1 DEF StagePayload
<1> QED BY <1>3, <1>4

LEMMA QueuedOthers ==
  ASSUME NEW t, NEW e \in Nat, NEW k \in 0..e, NEW q, NEW r, Queued(t, k, e, q),
         DOMAIN q \subseteq DOMAIN r,
         \A i \in DOMAIN q : r[i] = q[i],
         \A i \in DOMAIN r \ DOMAIN q : ~ (r[i].task = t /\ r[i].type \in StageEvent)
  PROVE  Queued(t, k, e, r)
<1>1. PICK f \in [(k + 1)..e -> DOMAIN q] :
        /\ \A m \in (k + 1)..e : q[f[m]] = StagePayload(t, m)
        /\ \A m, n \in (k + 1)..e : m < n => f[m] < f[n]
        /\ \A i \in DOMAIN q : q[i].task = t /\ q[i].type \in StageEvent
                                 => \E m \in (k + 1)..e : f[m] = i
  BY DEF Queued
<1>2. f \in [(k + 1)..e -> DOMAIN r]
  OBVIOUS
<1>3. \A m \in (k + 1)..e : r[f[m]] = StagePayload(t, m)
  BY <1>1
<1>4. \A i \in DOMAIN r : r[i].task = t /\ r[i].type \in StageEvent
                           => \E m \in (k + 1)..e : f[m] = i
  BY <1>1
<1> QED BY <1>1, <1>2, <1>3, <1>4 DEF Queued
LEMMA QueuedMore ==
  ASSUME NEW t \in Task, NEW e \in Nat, NEW k \in 0..e, NEW q \in Seq(Payload),
         Queued(t, k, e, q), e + 1 \in 1..Len(Script)
  PROVE  Queued(t, k, e + 1, Append(q, StagePayload(t, e + 1)))
<1>1. PICK f \in [(k + 1)..e -> DOMAIN q] :
        /\ \A m \in (k + 1)..e : q[f[m]] = StagePayload(t, m)
        /\ \A m, n \in (k + 1)..e : m < n => f[m] < f[n]
        /\ \A i \in DOMAIN q : q[i].task = t /\ q[i].type \in StageEvent
                                 => \E m \in (k + 1)..e : f[m] = i
  BY DEF Queued
<1> DEFINE p == StagePayload(t, e + 1)
           r == Append(q, p)
           g == [m \in (k + 1)..(e + 1) |-> IF m = e + 1 THEN Len(q) + 1 ELSE f[m]]
<1>2. p \in Payload
  BY ScriptTyped DEF StagePayload, Payload
<1> HIDE DEF p
<1>3. /\ Len(q) \in Nat /\ DOMAIN q = 1..Len(q) /\ DOMAIN r = 1..(Len(q) + 1)
      /\ \A i \in 1..Len(q) : r[i] = q[i]
      /\ r[Len(q) + 1] = p
  BY <1>2
<1> HIDE DEF r
<1>4. \A m \in (k + 1)..(e + 1) : m = e + 1 \/ m \in (k + 1)..e
  OBVIOUS
<1>5. /\ \A m \in (k + 1)..e : m \in (k + 1)..(e + 1) /\ g[m] = f[m] /\ f[m] \in 1..Len(q)
      /\ e + 1 \in (k + 1)..(e + 1) /\ g[e + 1] = Len(q) + 1
  BY <1>3
<1>6. g \in [(k + 1)..(e + 1) -> DOMAIN r]
  <2>1. \A m \in (k + 1)..(e + 1) : g[m] \in DOMAIN r
    BY <1>3, <1>4, <1>5
  <2> QED BY <2>1
<1> HIDE DEF g
<1>7. \A m \in (k + 1)..(e + 1) : r[g[m]] = StagePayload(t, m)
  BY <1>1, <1>3, <1>4, <1>5 DEF p
<1>8. \A m, n \in (k + 1)..(e + 1) : m < n => g[m] < g[n]
  <2> SUFFICES ASSUME NEW m \in (k + 1)..(e + 1), NEW n \in (k + 1)..(e + 1), m < n
               PROVE  g[m] < g[n]
    OBVIOUS
  <2>1. m \in (k + 1)..e
    OBVIOUS
  <2>2. CASE n \in (k + 1)..e
    BY <1>1, <1>5, <2>1, <2>2
  <2>3. CASE n = e + 1
    BY <1>3, <1>5, <2>1, <2>3
  <2> QED BY <1>4, <2>2, <2>3
<1>9. ASSUME NEW i \in DOMAIN r, r[i].task = t, r[i].type \in StageEvent
      PROVE  \E m \in (k + 1)..(e + 1) : g[m] = i
  <2>1. CASE i = Len(q) + 1
    BY <1>5, <2>1
  <2>2. CASE i \in 1..Len(q)
    <3>1. PICK m \in (k + 1)..e : f[m] = i
      BY <1>1, <1>3, <1>9, <2>2
    <3> QED BY <1>5, <3>1
  <2> QED BY <1>3, <2>1, <2>2
<1>10. Queued(t, k, e + 1, r)
  BY <1>6, <1>7, <1>8, <1>9 DEF Queued
<1> QED BY <1>10 DEF r, p

(* The queue loses its first payload: it is the next stage event of t, or  *)
(* none of the stage events of t.                                          *)
LEMMA QueuedFirst ==
  ASSUME NEW t, NEW e \in 0..Len(Script), NEW k \in 0..e,
         NEW q \in Seq(Payload), q # <<>>,
         Queued(t, k, e, q)
  PROVE  \/ /\ ~ (q[1].task = t /\ q[1].type \in StageEvent)
            /\ Queued(t, k, e, Tail(q))
         \/ /\ k + 1 \in 1..e /\ q[1] = StagePayload(t, k + 1)
            /\ Queued(t, k + 1, e, Tail(q))
<1>1. PICK f \in [(k + 1)..e -> DOMAIN q] :
        /\ \A m \in (k + 1)..e : q[f[m]] = StagePayload(t, m)
        /\ \A m, n \in (k + 1)..e : m < n => f[m] < f[n]
        /\ \A i \in DOMAIN q : q[i].task = t /\ q[i].type \in StageEvent
                                 => \E m \in (k + 1)..e : f[m] = i
  BY DEF Queued
<1> DEFINE r == Tail(q)
<1>2. /\ Len(q) \in Nat /\ 1 \in DOMAIN q /\ DOMAIN q = 1..Len(q)
      /\ DOMAIN r = 1..(Len(q) - 1)
      /\ \A i \in 1..(Len(q) - 1) : r[i] = q[i + 1]
  OBVIOUS
<1> HIDE DEF r
<1>3. ASSUME NEW l \in {k, k + 1},
             \A m \in (l + 1)..e : f[m] # 1,
             \A m \in (k + 1)..e : m \in (l + 1)..e \/ f[m] = 1
      PROVE  Queued(t, l, e, r)
  <2> DEFINE g == [m \in (l + 1)..e |-> f[m] - 1]
  <2>1. \A m \in (l + 1)..e : m \in (k + 1)..e
    OBVIOUS
  <2>2. \A m \in (l + 1)..e : /\ f[m] \in 1..Len(q) /\ g[m] = f[m] - 1
                              /\ g[m] \in 1..(Len(q) - 1) /\ g[m] + 1 = f[m]
    <3> TAKE m \in (l + 1)..e
    <3>1. f[m] \in 1..Len(q) /\ f[m] # 1
      BY <1>2, <1>3, <2>1
    <3> QED BY <1>2, <3>1
  <2>3. g \in [(l + 1)..e -> DOMAIN r]
    BY <1>2, <2>2
  <2> HIDE DEF g
  <2>4. \A m \in (l + 1)..e : r[g[m]] = StagePayload(t, m)
    BY <1>1, <1>2, <2>1, <2>2
  <2>5. \A m, n \in (l + 1)..e : m < n => g[m] < g[n]
    <3> SUFFICES ASSUME NEW m \in (l + 1)..e, NEW n \in (l + 1)..e, m < n
                 PROVE  g[m] < g[n]
      OBVIOUS
    <3>1. f[m] < f[n]
      BY <1>1, <2>1
    <3> QED BY <1>2, <2>2, <3>1
  <2>6. ASSUME NEW i \in DOMAIN r, r[i].task = t, r[i].type \in StageEvent
        PROVE  \E m \in (l + 1)..e : g[m] = i
    <3>1. i \in 1..(Len(q) - 1) /\ i + 1 \in DOMAIN q /\ q[i + 1] = r[i] /\ i + 1 # 1
      BY <1>2
    <3>2. PICK m \in (k + 1)..e : f[m] = i + 1
      BY <1>1, <2>6, <3>1
    <3>3. m \in (l + 1)..e
      BY <1>3, <3>1, <3>2
    <3>4. g[m] \in 1..(Len(q) - 1) /\ g[m] + 1 = i + 1
      BY <2>2, <3>2, <3>3
    <3>5. g[m] = i
      BY <1>2, <3>1, <3>4
    <3> QED BY <3>3, <3>5
  <2> QED BY <2>3, <2>4, <2>5, <2>6 DEF Queued
<1>4. CASE q[1].task = t /\ q[1].type \in StageEvent
  <2>1. PICK m \in (k + 1)..e : f[m] = 1
    BY <1>1, <1>2, <1>4
  <2>2. k + 1 \in (k + 1)..e /\ k + 1 \in 1..e
    BY <2>1
  <2>3. m = k + 1
    <3>1. ~ (k + 1 < m)
      <4> SUFFICES ASSUME k + 1 < m PROVE FALSE
        OBVIOUS
      <4>1. f[k + 1] < f[m] /\ f[k + 1] \in 1..Len(q)
        BY <1>1, <1>2, <2>2
      <4> QED BY <1>2, <2>1, <4>1
    <3> QED BY <3>1
  <2>4. \A n \in ((k + 1) + 1)..e : f[n] # 1
    <3> TAKE n \in ((k + 1) + 1)..e
    <3>1. n \in (k + 1)..e /\ k + 1 < n
      OBVIOUS
    <3>2. f[k + 1] < f[n] /\ f[k + 1] = 1
      BY <1>1, <2>1, <2>2, <2>3, <3>1
    <3> QED BY <3>2
  <2>5. \A n \in (k + 1)..e : n \in ((k + 1) + 1)..e \/ f[n] = 1
    BY <2>1, <2>3
  <2>6. Queued(t, k + 1, e, r)
    BY <1>3, <2>4, <2>5
  <2>7. q[1] = StagePayload(t, k + 1)
    BY <1>1, <2>1, <2>3
  <2> QED BY <2>2, <2>6, <2>7 DEF r
<1>5. CASE ~ (q[1].task = t /\ q[1].type \in StageEvent)
  <2>1. ASSUME NEW m \in (k + 1)..e, f[m] = 1 PROVE FALSE
    <3>1. q[1] = StagePayload(t, m)
      BY <1>1, <2>1
    <3>2. Script[m] \in StageEvent
      BY ScriptTyped
    <3> QED BY <1>5, <3>1, <3>2 DEF StagePayload
  <2>2. \A m \in (k + 1)..e : f[m] # 1
    BY <2>1
  <2>3. Queued(t, k, e, r)
    <3> HIDE DEF Queued
    <3> QED BY <1>3, <2>2
  <2> QED BY <1>5, <2>3 DEF r
<1> QED BY <1>4, <1>5
-----------------------------------------------------------------------------
LEMMA UnstartedNext == IInv /\ Unstarted /\ Next => Unstarted'
<1> SUFFICES ASSUME IInv, Unstarted, Next PROVE Unstarted'
  OBVIOUS
<1>a. /\ TypeOK /\ JobsFit /\ Loop \in Thread /\ Client \subseteq Thread
      /\ thread \in [Thread -> Job] /\ Loop \notin Client
      /\ FreshWorker /\ CoroStatus /\ BusyAwaited
  BY TaskManagerAssumption DEF IInv, TypeOK, Thread, JobInv, CoroInv
<1>1. CASE Restart
  <2>1. \A t \in Task : /\ status'[t] = Recovered(disk[t]).status
                        /\ stage'[t] = disk[t].stage
                        /\ disk'[t] \in {disk[t], Recovered(disk[t])}
                        /\ coro'[t] = "none" /\ emitted'[t] = 0
    BY <1>1 DEF Restart
  <2>2. \A t \in Task : /\ Recovered(disk[t]).stage = disk[t].stage
                        /\ Recovered(disk[t]).status = "absent" => disk[t].status = "absent"
    BY <1>a DEF TypeOK, Record, Recovered
  <2>3. \A th \in Thread : thread'[th] = Idle
    BY <1>1 DEF Restart
  <2> QED BY <2>1, <2>2, <2>3 DEF Unstarted, Idle
<1>2. ASSUME ~ Restart, NEW t \in Task
      PROVE  \/ stage'[t] = stage[t]
             \/ worker[t] # "none" /\ UNCHANGED <<coro, status>>
  <2>1. CASE DrainEvent
    <3> DEFINE p == Head(queue)
    <3>1. p.task \in Task /\ worker[p.task] # "none"
      <4>1. 1 \in DOMAIN queue /\ p = queue[1]
        BY <1>a, <2>1 DEF DrainEvent, TypeOK
      <4> QED BY <1>a, <4>1, QueuePayloads DEF IInv, QueueFed
    <3>2. /\ UNCHANGED <<coro, status>>
          /\ stage' = [stage EXCEPT ![p.task] = StageAfter(p.type, @)]
      BY <2>1 DEF DrainEvent, runVars
    <3> HIDE DEF p
    <3> QED BY <1>a, <3>1, <3>2 DEF TypeOK
  <2>2. CASE UNCHANGED stage
    BY <2>2
  <2> QED
    BY <1>2, <2>1, <2>2 DEF Next, Persisting, Request, GatedSubmit, Worker, Drain,
       LoopStretch, Snapshot, Replace, PersistFails, Submit, CancelCheck, Schedule,
       CancelFinalize, CancelPublish, Admit, TurnAway, Resume, ResumeCancelled,
       Finalize, FinalizeCancelled, WorkerStart, Emit, WorkerEnd, PublishStart,
       Dispatch, PublishEnd, PoolBreaks, DrainSentinel, PublishEvent, Close, Stop,
       recVars
<1>3. ASSUME ~ Restart, NEW t \in Task
      PROVE  /\ status'[t] = "absent" => status[t] = "absent"
             /\ coro'[t] \in {"queued", "starting"} =>
                  \/ coro[t] \in {"queued", "starting"}
                  \/ \E c \in Client : thread[c].op = "submit" /\ thread[c].task = t
  <2>1. ASSUME NEW c \in Client, Schedule(c)
        PROVE  coro'[t] = coro[t] \/ (thread[c].op = "submit" /\ thread[c].task = t)
    BY <1>a, <2>1 DEF Schedule, TypeOK
  <2>2. ASSUME NEW th \in Thread, PersistFails(th)
        PROVE  coro'[t] = coro[t] \/ coro'[t] = "over"
    BY <1>a, <2>2 DEF PersistFails, Release, TypeOK
  <2>3. ASSUME NEW u \in Task, GatedSubmit(u)
        PROVE  coro'[t] \in {"queued", "starting"} => coro[t] \in {"queued", "starting"}
    BY <1>a, <2>3 DEF GatedSubmit, Admit, TurnAway, Resume, ResumeCancelled, Finalize,
       FinalizeCancelled, Release, TypeOK
  <2>4. ASSUME LoopStretch
        PROVE  coro'[t] \in {"queued", "starting"} => coro[t] \in {"queued", "starting"}
    BY <1>a, <2>4 DEF LoopStretch, PublishStart, Dispatch, PublishEnd, PublishEvent,
       Release, runVars, TypeOK
  <2>5. ASSUME UNCHANGED coro PROVE coro'[t] = coro[t]
    BY <2>5
  <2>6. coro'[t] \in {"queued", "starting"} =>
          \/ coro[t] \in {"queued", "starting"}
          \/ \E c \in Client : thread[c].op = "submit" /\ thread[c].task = t
    BY <1>3, <2>1, <2>2, <2>3, <2>4, <2>5 DEF Next, Persisting, Request, Worker, Drain,
       Snapshot, Replace, Submit, CancelCheck, CancelFinalize, CancelPublish,
       WorkerStart, Emit, WorkerEnd, PoolBreaks, DrainSentinel, DrainEvent, Close,
       Stop, runVars
  <2>7. status'[t] = "absent" => status[t] = "absent"
    BY <1>3, StatusMoves DEF Moves, Outcome
  <2> QED BY <2>6, <2>7
<1>4. ASSUME ~ Restart, NEW t \in Task,
             status'[t] = "absent" \/ coro'[t] \in {"queued", "starting"}
      PROVE  stage'[t] = "pending"
  <2>1. stage[t] = "pending"
    BY <1>a, <1>3, <1>4 DEF Unstarted
  <2>2. worker[t] # "none" => ~ UNCHANGED <<coro, status>>
    BY <1>a, <1>4 DEF FreshWorker, CoroStatus
  <2> QED BY <1>2, <1>4, <2>1, <2>2
<1>5. ASSUME ~ Restart, NEW t \in Task, disk'[t].status = "absent"
      PROVE  disk'[t].stage = "pending"
  <2>1. ASSUME NEW th \in Thread, Replace(th)
        PROVE  disk'[t] = disk[t] \/ disk'[t].status # "absent"
    <3>1. thread[th].pc = "replace" /\ disk' = [disk EXCEPT ![thread[th].task] = thread[th].snap]
      BY <2>1 DEF Replace, At
    <3> QED BY <1>a, <3>1 DEF Unstarted, TypeOK
  <2>2. disk'[t] = disk[t]
    BY <1>5, <2>1 DEF Next, Persisting, Request, GatedSubmit, Worker, Drain,
       LoopStretch, Snapshot, PersistFails, Submit, CancelCheck, Schedule,
       CancelFinalize, CancelPublish, Admit, TurnAway, Resume, ResumeCancelled,
       Finalize, FinalizeCancelled, WorkerStart, Emit, WorkerEnd, PublishStart,
       Dispatch, PublishEnd, PoolBreaks, DrainSentinel, DrainEvent, PublishEvent,
       Close, Stop
  <2> QED BY <1>5, <2>2 DEF Unstarted
<1>6. ASSUME ~ Restart, NEW t \in Task, worker'[t] \in {"none", "queued"}
      PROVE  emitted'[t] = 0
  <2>1. ASSUME NEW u \in Task, Emit(u)
        PROVE  emitted'[t] = emitted[t] /\ worker' = worker
    BY <1>a, <1>6, <2>1 DEF Emit, TypeOK
  <2>2. CASE Dispatch
    <3> DEFINE u == thread[Loop].task
    <3>1. u \in Task /\ worker[u] = "none"
      BY <1>a, <2>2 DEF Dispatch, At, JobsFit, JobFits, FreshWorker
    <3>2. /\ emitted' = emitted
          /\ worker' = worker \/ worker' = [worker EXCEPT ![u] = "queued"]
      BY <2>2 DEF Dispatch
    <3> HIDE DEF u
    <3> QED BY <1>a, <1>6, <3>1, <3>2 DEF Unstarted, TypeOK
  <2>3. CASE emitted' = emitted /\ worker'[t] = worker[t]
    BY <1>6, <2>3 DEF Unstarted
  <2>4. ASSUME NEW u \in Task, WorkerStart(u) \/ WorkerEnd(u)
        PROVE  emitted' = emitted /\ worker'[t] = worker[t]
    BY <1>a, <1>6, <2>4 DEF WorkerStart, WorkerEnd, TypeOK
  <2>5. ASSUME NEW u \in Task, NEW c \in Client, CancelCheck(c, u)
        PROVE  emitted' = emitted /\ worker'[t] = worker[t]
    BY <1>a, <1>6, <2>5 DEF CancelCheck, TypeOK
  <2>6. ASSUME PoolBreaks \/ Stop
        PROVE  emitted' = emitted /\ worker'[t] = worker[t]
    BY <1>a, <1>6, <2>6 DEF PoolBreaks, Stop, TypeOK
  <2>7. CASE UNCHANGED <<emitted, worker>>
    BY <2>3, <2>7
  <2>8. ASSUME NEW u \in Task, Emit(u) PROVE emitted'[t] = 0
    BY <1>6, <2>1, <2>8 DEF Unstarted
  <2> QED
    BY <1>6, <2>2, <2>3, <2>4, <2>5, <2>6, <2>7, <2>8 DEF Next, Persisting, Request,
       GatedSubmit, Worker, Drain, LoopStretch, Snapshot, Replace, PersistFails,
       Submit, Schedule, CancelFinalize, CancelPublish, Admit, TurnAway, Resume,
       ResumeCancelled, Finalize, FinalizeCancelled, PublishStart, PublishEnd,
       DrainSentinel, DrainEvent, PublishEvent, Close, runVars
<1>7. ASSUME ~ Restart, NEW th \in Thread
      PROVE  \/ thread'[th].op = thread[th].op /\ thread'[th].task = thread[th].task
             \/ thread'[th].op # "submit"
             \/ \E t \in Task : thread'[th].task = t /\ status[t] = "absent" /\ stage' = stage
  <2>1. ASSUME NEW u \in Thread, Persisting(u)
        PROVE  \/ thread'[th].op = thread[th].op /\ thread'[th].task = thread[th].task
               \/ thread'[th].op # "submit"
    BY <1>a, <2>1 DEF Persisting, Snapshot, Replace, PersistFails, Goto, Done, Idle, Job
  <2>2. ASSUME NEW c \in Client, NEW t \in Task, Submit(c, t)
        PROVE  \/ thread'[th] = thread[th]
               \/ thread'[th].task = t /\ status[t] = "absent" /\ stage' = stage
    BY <1>a, <2>2 DEF Submit, Run
  <2>3. ASSUME NEW c \in Client, NEW t \in Task, CancelCheck(c, t)
        PROVE  thread'[th] = thread[th] \/ thread'[th].op # "submit"
    BY <1>a, <2>3 DEF CancelCheck, Run
  <2>4. ASSUME NEW c \in Client, Schedule(c) \/ CancelFinalize(c) \/ CancelPublish(c)
        PROVE  \/ thread'[th].op = thread[th].op /\ thread'[th].task = thread[th].task
               \/ thread'[th].op # "submit"
    BY <1>a, <2>4 DEF Schedule, CancelFinalize, CancelPublish, Goto, Done, Idle, Job
  <2>5. ASSUME NEW t \in Task, GatedSubmit(t)
        PROVE  thread'[th] = thread[th] \/ thread'[th].op # "submit"
    BY <1>a, <2>5 DEF GatedSubmit, Admit, TurnAway, Resume, ResumeCancelled, Finalize,
       FinalizeCancelled, Run
  <2>6. ASSUME LoopStretch \/ Drain
        PROVE  \/ thread'[th].op = thread[th].op /\ thread'[th].task = thread[th].task
               \/ thread'[th].op # "submit"
    BY <1>a, <2>6 DEF LoopStretch, PublishStart, Dispatch, PublishEnd, PublishEvent,
       Drain, DrainSentinel, DrainEvent, Run, Goto, Done, Idle, Job
  <2>7. CASE UNCHANGED thread
    BY <2>7
  <2> QED
    BY <1>7, <2>1, <2>2, <2>3, <2>4, <2>5, <2>6, <2>7 DEF Next, Request, Worker,
       WorkerStart, Emit, WorkerEnd, PoolBreaks, Close, Stop
<1>8. ASSUME ~ Restart, NEW th \in Thread, thread'[th].op = "submit"
      PROVE  stage'[thread'[th].task] = "pending"
  <2>1. CASE thread'[th].op = thread[th].op /\ thread'[th].task = thread[th].task
    <3> DEFINE t == thread[th].task
    <3>1. t \in Task /\ stage[t] = "pending" /\ worker[t] = "none"
      BY <1>a, <1>8, <2>1 DEF Unstarted, JobsFit, JobFits, FreshWorker
    <3> QED BY <1>2, <1>8, <2>1, <3>1
  <2>2. CASE \E t \in Task : thread'[th].task = t /\ status[t] = "absent" /\ stage' = stage
    BY <2>2 DEF Unstarted
  <2> QED BY <1>7, <1>8, <2>1, <2>2
<1>9. ASSUME ~ Restart, NEW th \in Thread, thread'[th].pc = "replace"
      PROVE  thread'[th].snap.status # "absent"
  <2>1. ASSUME NEW u \in Thread, Snapshot(u)
        PROVE  \/ thread'[th] = thread[th]
               \/ /\ thread'[th].snap = Current(thread[th].task)
                  /\ thread[th].pc = "snapshot"
    BY <1>a, <2>1 DEF Snapshot, At, Job
  <2>2. thread[th].pc = "snapshot" => Current(thread[th].task).status # "absent"
    BY <1>a DEF JobsFit, JobFits, Current
  <2>3. ASSUME NEW u \in Thread, Replace(u) \/ PersistFails(u) PROVE thread'[th] = thread[th]
    BY <1>a, <1>9, <2>3 DEF Replace, PersistFails, Goto, Done, Idle, Job
  <2>4. ASSUME NEW c \in Client, Request(c) PROVE thread'[th] = thread[th]
    BY <1>a, <1>9, <2>4 DEF Request, Submit, CancelCheck, Schedule, CancelFinalize,
       CancelPublish, Run, Goto, Done, Idle, Job
  <2>5. ASSUME NEW t \in Task, GatedSubmit(t) PROVE thread'[th] = thread[th]
    BY <1>a, <1>9, <2>5 DEF GatedSubmit, Admit, TurnAway, Resume, ResumeCancelled,
       Finalize, FinalizeCancelled, Run
  <2>6. ASSUME LoopStretch \/ Drain PROVE thread'[th] = thread[th]
    BY <1>a, <1>9, <2>6 DEF LoopStretch, PublishStart, Dispatch, PublishEnd,
       PublishEvent, Drain, DrainSentinel, DrainEvent, Run, Goto, Done, Idle, Job
  <2>7. CASE thread'[th] = thread[th]
    BY <1>9, <2>7 DEF Unstarted
  <2>8. ASSUME NEW u \in Thread, Snapshot(u) PROVE thread'[th].snap.status # "absent"
    BY <2>1, <2>2, <2>7, <2>8
  <2> QED
    BY <1>9, <2>3, <2>4, <2>5, <2>6, <2>7, <2>8 DEF Next, Persisting, Worker,
       WorkerStart, Emit, WorkerEnd, PoolBreaks, Close, Stop
<1>10. ASSUME ~ Restart, NEW t \in Task, coro'[t] = "awaiting"
       PROVE  worker'[t] # "none"
  <2>1. CASE Dispatch
    BY <1>a, <1>10, <2>1 DEF Dispatch, TypeOK, Unstarted
  <2>2. CASE ~ Dispatch
    <3>1. ASSUME NEW c \in Client, Schedule(c) PROVE coro[t] = "awaiting"
      BY <1>a, <1>10, <3>1 DEF Schedule, TypeOK
    <3>2. ASSUME NEW th \in Thread, PersistFails(th) PROVE coro[t] = "awaiting"
      BY <1>a, <1>10, <3>2 DEF PersistFails, Release, TypeOK
    <3>3. ASSUME NEW u \in Task, GatedSubmit(u) PROVE coro[t] = "awaiting"
      BY <1>a, <1>10, <3>3 DEF GatedSubmit, Admit, TurnAway, Resume, ResumeCancelled,
         Finalize, FinalizeCancelled, Release, TypeOK
    <3>4. ASSUME LoopStretch PROVE coro[t] = "awaiting"
      BY <1>a, <1>10, <2>2, <3>4 DEF LoopStretch, PublishStart, PublishEnd,
         PublishEvent, Release, runVars, TypeOK
    <3>5. ASSUME UNCHANGED coro PROVE coro[t] = "awaiting"
      BY <1>10, <3>5
    <3>6. coro[t] = "awaiting"
      BY <1>10, <3>1, <3>2, <3>3, <3>4, <3>5 DEF Next, Persisting, Request, Worker,
         Drain, Snapshot, Replace, Submit, CancelCheck, CancelFinalize, CancelPublish,
         WorkerStart, Emit, WorkerEnd, PoolBreaks, DrainSentinel, DrainEvent, Close,
         Stop, runVars
    <3>7. worker[t] # "none"
      BY <3>6 DEF Unstarted
    <3>8. ASSUME NEW u \in Task, NEW c \in Client, CancelCheck(c, u)
          PROVE  worker'[t] # "none"
      BY <1>a, <3>7, <3>8 DEF CancelCheck, TypeOK
    <3>9. ASSUME NEW u \in Task, Worker(u) PROVE worker'[t] # "none"
      BY <1>a, <3>7, <3>9 DEF Worker, WorkerStart, Emit, WorkerEnd, TypeOK
    <3>10. ASSUME PoolBreaks \/ Stop PROVE worker'[t] # "none"
      BY <1>a, <3>7, <3>10 DEF PoolBreaks, Stop
    <3>11. ASSUME UNCHANGED worker PROVE worker'[t] # "none"
      BY <3>7, <3>11
    <3> QED
      BY <1>10, <2>2, <3>8, <3>9, <3>10, <3>11 DEF Next, Persisting, Request,
         GatedSubmit, Drain, LoopStretch, Snapshot, Replace, PersistFails, Submit,
         Schedule, CancelFinalize, CancelPublish, Admit, TurnAway, Resume,
         ResumeCancelled, Finalize, FinalizeCancelled, PublishStart, PublishEnd,
         DrainSentinel, DrainEvent, PublishEvent, Close, runVars
  <2> QED BY <2>1, <2>2
<1> QED
  BY <1>1, <1>4, <1>5, <1>6, <1>8, <1>9, <1>10 DEF Unstarted
(* Of a task that is in the pool, or was.                                  *)
Tracked(t) == \E k \in 0..emitted[t] : /\ stage[t] = StageUpTo[k]
                                        /\ Queued(t, k, emitted[t], queue)

LEMMA TrackedStill ==
  ASSUME NEW t \in Task, TypeOK, Tracked(t),
         emitted'[t] = emitted[t], stage'[t] = stage[t],
         DOMAIN queue \subseteq DOMAIN queue',
         \A i \in DOMAIN queue : queue'[i] = queue[i],
         \A i \in DOMAIN queue' \ DOMAIN queue :
           ~ (queue'[i].task = t /\ queue'[i].type \in StageEvent)
  PROVE  Tracked(t)'
<1>0. PICK r : r = queue'
  OBVIOUS
<1>1. PICK k \in 0..emitted[t], e \in Nat, q \in Seq(Payload) :
        /\ e = emitted[t] /\ q = queue
        /\ stage[t] = StageUpTo[k] /\ Queued(t, k, e, q)
  BY DEF Tracked, TypeOK
<1>2. Queued(t, k, e, r)
  <2> HIDE DEF Queued
  <2> QED BY <1>0, <1>1, QueuedOthers
<1>3. Queued(t, k, emitted[t], queue)'
  BY <1>0, <1>1, <1>2
<1> QED BY <1>1, <1>3 DEF Tracked
(* The last act of a worker puts no stage event in the queue.              *)
LEMMA EndPayloads ==
  ASSUME TypeOK, NEW u \in Task, WorkerEnd(u)
  PROVE  /\ DOMAIN queue \subseteq DOMAIN queue'
         /\ \A i \in DOMAIN queue : queue'[i] = queue[i]
         /\ \A i \in DOMAIN queue' \ DOMAIN queue : queue'[i].type \notin StageEvent
<1> DEFINE flush == [task |-> u, type |-> "flush"]
           error == [task |-> u, type |-> "worker_error"]
<1>1. /\ flush \in Payload /\ error \in Payload /\ queue \in Seq(Payload)
      /\ flush.type = "flush" /\ error.type = "worker_error"
      /\ "flush" \notin StageEvent /\ "worker_error" \notin StageEvent
  BY DEF Payload, StageEvent, TypeOK
<1> HIDE DEF flush, error
<1>2. CASE queue' = Append(queue, flush)
  BY <1>1, <1>2
<1>3. CASE queue' = Append(Append(queue, error), flush)
  BY <1>1, <1>3
<1>4. QED
  BY <1>2, <1>3 DEF WorkerEnd, flush, error

LEMMA TrackedEmit ==
  ASSUME NEW t \in Task, TypeOK, Tracked(t), Emit(t)
  PROVE  Tracked(t)'
<1>1. PICK k \in 0..emitted[t], e \in Nat, q \in Seq(Payload) :
        /\ e = emitted[t] /\ q = queue
        /\ stage[t] = StageUpTo[k] /\ Queued(t, k, e, q)
  BY DEF Tracked, TypeOK
<1>2. e + 1 \in 1..Len(Script) /\ k \in 0..(e + 1)
  BY <1>1, ScriptTyped DEF Emit
<1>3. /\ emitted'[t] = e + 1 /\ stage'[t] = stage[t]
      /\ queue' = Append(q, StagePayload(t, e + 1))
  BY <1>1 DEF Emit, StagePayload, TypeOK, recVars
<1>4. Queued(t, k, e + 1, Append(q, StagePayload(t, e + 1)))
  <2> HIDE DEF Queued
  <2> QED BY <1>1, <1>2, QueuedMore
<1>5. Queued(t, k, emitted[t], queue)'
  BY <1>3, <1>4
<1> QED BY <1>1, <1>2, <1>3, <1>5 DEF Tracked

(* The drain task takes the first payload; if it is a stage event of t, it *)
(* is the next one, and moves the stage row by one.                        *)
LEMMA TrackedDrain ==
  ASSUME NEW t \in Task, TypeOK, Tracked(t), queue # <<>>,
         queue' = Tail(queue), emitted'[t] = emitted[t],
         stage'[t] = IF Head(queue).task = t THEN StageAfter(Head(queue).type, stage[t])
                     ELSE stage[t]
  PROVE  Tracked(t)'
<1>1. PICK k \in 0..emitted[t], e \in 0..Len(Script), q \in Seq(Payload) :
        /\ e = emitted[t] /\ q = queue
        /\ stage[t] = StageUpTo[k] /\ Queued(t, k, e, q)
  BY DEF Tracked, TypeOK
<1>2. q # <<>> /\ Head(queue) = q[1] /\ e \in Nat /\ Len(Script) \in Nat
  BY <1>1, ScriptTyped
<1>3. \/ /\ ~ (q[1].task = t /\ q[1].type \in StageEvent)
         /\ Queued(t, k, e, Tail(q))
      \/ /\ k + 1 \in 1..e /\ q[1] = StagePayload(t, k + 1)
         /\ Queued(t, k + 1, e, Tail(q))
  <2> HIDE DEF Queued
  <2> QED BY <1>1, <1>2, QueuedFirst
<1>4. ASSUME ~ (q[1].task = t /\ q[1].type \in StageEvent), Queued(t, k, e, Tail(q))
      PROVE  Tracked(t)'
  <2>1. Queued(t, k, emitted[t], queue)'
    BY <1>1, <1>4
  <2>2. stage'[t] = stage[t]
    BY <1>2, <1>4 DEF StageAfter, StageEvent
  <2> QED BY <1>1, <2>1, <2>2 DEF Tracked
<1>5. ASSUME k + 1 \in 1..e, q[1] = StagePayload(t, k + 1), Queued(t, k + 1, e, Tail(q))
      PROVE  Tracked(t)'
  <2>1. Queued(t, k + 1, emitted[t], queue)'
    BY <1>1, <1>5
  <2>2. q[1].task = t /\ q[1].type = Script[k + 1]
    BY <1>5 DEF StagePayload
  <2>3. k \in 0..(Len(Script) - 1)
    BY <1>2, <1>5
  <2>4. stage'[t] = StageUpTo[k + 1]
    BY <1>1, <1>2, <2>2, <2>3, StageRecursion
  <2>5. k + 1 \in 0..emitted'[t]
    BY <1>1, <1>5
  <2> QED BY <2>1, <2>4, <2>5 DEF Tracked
<1> QED BY <1>3, <1>4, <1>5

(* A task that was just handed to the pool: nothing was emitted yet.       *)
LEMMA TrackedFresh ==
  ASSUME NEW t \in Task, TypeOK, emitted'[t] = 0, stage'[t] = "pending",
         \A i \in DOMAIN queue' : queue'[i].task # t
  PROVE  Tracked(t)'
<1>1. PICK q : q = queue'
  OBVIOUS
<1>2. Queued(t, 0, 0, q)
  <2> HIDE DEF Queued
  <2> QED BY <1>1, QueuedNone
<1>3. Queued(t, 0, emitted[t], queue)'
  BY <1>1, <1>2
<1> QED BY <1>3, StageRecursion DEF Tracked

LEMMA TrackedNext == IInv /\ Shows /\ Next => StageTracked'
<1> SUFFICES ASSUME IInv, Shows, Next, NEW t \in Task, worker'[t] # "none"
             PROVE  Tracked(t)'
  BY DEF StageTracked, Tracked
<1>a. /\ TypeOK /\ JobsFit /\ Loop \in Thread /\ FreshWorker /\ CoroStatus
      /\ worker[t] # "none" => Tracked(t)
      /\ Unstarted /\ QueueFed
  BY DEF IInv, Thread, JobInv, CoroInv, Shows, StageTracked, Tracked
<1>1. CASE Restart
  BY <1>1 DEF Restart
<1>2. ASSUME worker[t] # "none", UNCHANGED <<queue, emitted, stage>>
      PROVE  Tracked(t)'
  BY <1>a, <1>2, TrackedStill
<1>3. CASE Dispatch
  <2>1. CASE worker[t] # "none"
    BY <1>2, <1>3, <2>1 DEF Dispatch, recVars
  <2>2. CASE worker[t] = "none"
    <3>1. t = thread[Loop].task /\ coro[t] = "starting"
      BY <1>a, <1>3, <2>2 DEF Dispatch, At, JobsFit, JobFits, TypeOK
    <3>2. stage[t] = "pending" /\ emitted[t] = 0
      BY <1>a, <2>2, <3>1 DEF Unstarted
    <3>3. \A i \in DOMAIN queue : queue[i].task # t
      BY <1>a, <2>2 DEF QueueFed
    <3> QED BY <1>a, <1>3, <3>2, <3>3, TrackedFresh DEF Dispatch, recVars
  <2> QED BY <2>1, <2>2
<1>4. ASSUME NEW u \in Task, Emit(u) PROVE Tracked(t)'
  <2>1. worker[t] # "none"
    BY <1>4 DEF Emit
  <2>2. CASE u = t
    BY <1>a, <1>4, <2>1, <2>2, TrackedEmit
  <2>3. CASE u # t
    <3>1. emitted'[t] = emitted[t] /\ stage'[t] = stage[t]
      BY <1>a, <1>4, <2>3 DEF Emit, TypeOK, recVars
    <3> DEFINE p == [task |-> u, type |-> Script[emitted[u] + 1]]
    <3>2. p \in Payload /\ p.task = u
      BY <1>a, <1>4, ScriptTyped DEF Emit, Payload, TypeOK
    <3>3. queue' = Append(queue, p)
      BY <1>4 DEF Emit
    <3> HIDE DEF p
    <3> QED BY <1>a, <2>1, <2>3, <3>1, <3>2, <3>3, Appended, TrackedStill
  <2> QED BY <2>2, <2>3
<1>5. ASSUME NEW u \in Task, WorkerEnd(u) PROVE Tracked(t)'
  <2>1. worker[t] # "none" /\ emitted'[t] = emitted[t] /\ stage'[t] = stage[t]
    BY <1>a, <1>5 DEF WorkerEnd, TypeOK, recVars
  <2>2. /\ DOMAIN queue \subseteq DOMAIN queue'
        /\ \A i \in DOMAIN queue : queue'[i] = queue[i]
        /\ \A i \in DOMAIN queue' \ DOMAIN queue : queue'[i].type \notin StageEvent
    BY <1>a, <1>5, EndPayloads
  <2> QED BY <1>a, <2>1, <2>2, TrackedStill
<1>6. ASSUME DrainSentinel \/ DrainEvent PROVE Tracked(t)'
  <2>1. /\ worker[t] # "none" /\ queue # <<>> /\ queue' = Tail(queue)
        /\ emitted' = emitted
    BY <1>6 DEF DrainSentinel, DrainEvent, runVars
  <2>2. Head(queue).task \in Task
    <3>1. Head(queue) \in Payload
      BY <1>a, <2>1 DEF TypeOK
    <3> QED BY <3>1 DEF Payload
  <2>3. stage'[t] = IF Head(queue).task = t THEN StageAfter(Head(queue).type, stage[t])
                    ELSE stage[t]
    <3>1. CASE DrainSentinel
      BY <1>a, <3>1 DEF DrainSentinel, StageAfter, recVars
    <3>2. CASE DrainEvent
      BY <1>a, <2>2, <3>2 DEF DrainEvent, TypeOK
    <3> QED BY <1>6, <3>1, <3>2
  <2> QED BY <1>a, <2>1, <2>3, TrackedDrain
<1>7. ASSUME UNCHANGED <<queue, emitted, stage>>, ~ Restart, ~ Dispatch
      PROVE  worker[t] # "none"
  <2>1. ASSUME NEW u \in Task, NEW c \in Client, CancelCheck(c, u) PROVE worker[t] # "none"
    BY <1>a, <2>1 DEF CancelCheck, TypeOK
  <2>2. ASSUME NEW u \in Task, Worker(u) PROVE worker[t] # "none"
    BY <1>a, <2>2 DEF Worker, WorkerStart, Emit, WorkerEnd, TypeOK
  <2>3. ASSUME PoolBreaks \/ Stop PROVE worker[t] # "none"
    BY <1>a, <2>3 DEF PoolBreaks, Stop, Unstarted
  <2>4. CASE UNCHANGED worker
    BY <2>4
  <2> QED
    BY <1>7, <2>1, <2>2, <2>3, <2>4 DEF Next, Persisting, Request, GatedSubmit,
       Drain, LoopStretch, Snapshot, Replace, PersistFails, Submit, Schedule,
       CancelFinalize, CancelPublish, Admit, TurnAway, Resume, ResumeCancelled,
       Finalize, FinalizeCancelled, PublishStart, PublishEnd, DrainSentinel,
       DrainEvent, PublishEvent, Close, runVars
<1>8. CASE UNCHANGED <<queue, emitted, stage>>
  BY <1>1, <1>2, <1>3, <1>7, <1>8
<1> QED
  BY <1>1, <1>3, <1>4, <1>5, <1>6, <1>8 DEF Next, Persisting, Request, GatedSubmit,
     Worker, Drain, LoopStretch, Snapshot, Replace, PersistFails, Submit,
     CancelCheck, Schedule, CancelFinalize, CancelPublish, Admit, TurnAway, Resume,
     ResumeCancelled, Finalize, FinalizeCancelled, WorkerStart, PublishStart,
     PublishEnd, PoolBreaks, PublishEvent, Close, Stop, recVars, runVars
-----------------------------------------------------------------------------
LEMMA ShowsInit == Init => Shows
BY DEF Init, Shows, Unstarted, StageTracked, NoRecord, Idle

LEMMA ShowsKept == IInv /\ Shows /\ [Next]_vars => Shows'
<1> SUFFICES ASSUME IInv, Shows, [Next]_vars PROVE Shows'
  OBVIOUS
<1>1. CASE Next
  BY <1>1, UnstartedNext, TrackedNext DEF Shows
<1>2. CASE UNCHANGED vars
  <2>1. Unstarted'
    BY <1>2 DEF Shows, Unstarted, vars
  <2>2. ASSUME NEW t \in Task, worker'[t] # "none" PROVE Tracked(t)'
    <3>1. TypeOK /\ Tracked(t)
      BY <1>2, <2>2 DEF IInv, Shows, StageTracked, Tracked, vars
    <3> QED BY <1>2, <3>1, TrackedStill DEF vars
  <2> QED BY <2>1, <2>2 DEF Shows, StageTracked, Tracked
<1> QED BY <1>1, <1>2

(* Once the drain barrier of a task is set, the stage row of its record    *)
(* shows every stage event that its run emitted, in whatever order worker, *)
(* drain task and requests took their turns.                               *)
THEOREM StageRowTold == Spec => []StageRowComplete
<1>1. IInv /\ Shows => StageRowComplete
  <2> SUFFICES ASSUME IInv, Shows, NEW t \in Task, barrier[t] = "set"
               PROVE  stage[t] = StageUpTo[emitted[t]]
    BY DEF StageRowComplete
  <2>1. worker[t] # "none" /\ \A i \in DOMAIN queue : queue[i].task # t
    BY DEF IInv, QueueFed, BarrierDrained
  <2>2. PICK k \in 0..emitted[t], e \in Nat, q \in Seq(Payload) :
          /\ e = emitted[t] /\ q = queue
          /\ stage[t] = StageUpTo[k] /\ Queued(t, k, e, q)
    BY <2>1 DEF IInv, TypeOK, Shows, StageTracked
  <2>3. k = e
    <3> HIDE DEF Queued
    <3> QED BY <2>1, <2>2, QueuedUnlessNone
  <2> QED BY <2>2, <2>3
<1> QED
  BY <1>1, ShowsInit, ShowsKept, Invariance, PTL DEF Spec
=============================================================================
