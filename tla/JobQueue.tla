------------------------------- MODULE JobQueue -------------------------------
(***************************************************************************)
(* The asynchronous job queue of rfsn_job_queue.py: submit(), start(),      *)
(* stop(), cancel(), wait_for(), the dispatcher coroutine and one coroutine *)
(* per dispatched job.                                                      *)
(*                                                                          *)
(* All of them run on one asyncio event loop, so the code between two       *)
(* awaits is one step of the model.  A Job OBJECT is a pair <<id, copy>>:   *)
(* copy 0 is the object that submit() creates, the copies above 0 are the   *)
(* objects that start() builds from the persistence file.  _jobs[id] and    *)
(* _events[id] are always written together, so an event is named by the     *)
(* object it was created with.                                              *)
(*                                                                          *)
(* A step of the loop that writes to the disk more than once (an audit      *)
(* record, then the persistence file) is one action here, because nothing   *)
(* else runs in between.  The process can die in between, though: those     *)
(* deaths are DiesInSubmit and DiesInEnd.                                   *)
(*                                                                          *)
(* The definitions named Slip_... are not part of the specification: each   *)
(* is a plausible slip in the definition that follows it, with which one of *)
(* the properties at the end must fail.                                     *)
(***************************************************************************)
EXTENDS Naturals, Sequences, FiniteSets

CONSTANTS Jobs,             \* the job ids clients submit
          Priority,         \* priority of each id
          MaxConcurrent,    \* JobQueue(max_concurrent=...)
          MaxCopies,        \* bound: objects start() builds per id and process
          MaxFaults,        \* bound: process crashes and failing file accesses
          Persist,          \* persist_path is set
          AsyncCallback,    \* ids submitted with a coroutine callback
          SubmitWhenStopped,\* do clients submit while no dispatcher runs?
          FileFails,        \* may accesses of the file fail, lines be torn?
          Audit,            \* "none", "kept", "raises" (a verify-only key)
          NoObj             \* no object (an absent dictionary entry)

Obj == Jobs \X (0..MaxCopies)

ASSUME JobQueueAssumption ==
  /\ Priority \in [Jobs -> Nat]
  /\ MaxConcurrent \in Nat \ {0}
  /\ MaxCopies \in Nat
  /\ MaxFaults \in Nat
  /\ Persist \in BOOLEAN
  /\ AsyncCallback \subseteq Jobs
  /\ SubmitWhenStopped \in BOOLEAN
  /\ FileFails \in BOOLEAN
  /\ Audit \in {"none", "kept", "raises"}
  /\ NoObj \notin Obj

VARIABLES
  running,     \* _running
  dispatcher,  \* where the dispatcher coroutine is suspended
  stopping,    \* a call of stop() is in progress
  toRecover,   \* what is left of start()'s recovery loop
  pending,     \* _pending
  jobs,        \* _jobs (and, through the object, _events)
  status,      \* Job.status of every object
  eventSet,    \* the objects whose event is set
  waiting,     \* the objects on whose event a wait_for() is suspended
  task,        \* _job_tasks: the state of the task running an object
  cancelReq,   \* the objects whose task has been cancel()led
  taskMap,     \* _job_task_map
  file,        \* the ids on the lines of the persistence file
  torn,        \* has the file an unparsable line: at its end, inside it?
  audit,       \* what the audit log says of each id
  faults,      \* crashes and failed file accesses so far (up to MaxFaults)
  outcome      \* history: the terminal status each id reached

vars == <<running, dispatcher, stopping, toRecover, pending, jobs, status,
          eventSet, waiting, task, cancelReq, taskMap, file, torn, audit,
          faults, outcome>>

queueVars == <<pending, jobs, taskMap>>
fileVars  == <<file, torn, audit>>   \* what is on disk
loopVars  == <<running, dispatcher, stopping, toRecover>>

Terminal  == {"completed", "failed", "cancelled"}
Status    == {"absent", "pending", "running"} \cup Terminal
TaskState == {"none", "scheduled", "running", "callback", "finished"}
Torn      == {"no", "end", "inside"}

\* The last of "submitted" and "started" recorded of an id, and the number of
\* records that it ended ("completed", "failed" or "cancelled").
AuditOfJob == [stage : {"none", "submitted", "started"}, ends : Nat]

Elements(s) == {s[i] : i \in DOMAIN s}

(***************************************************************************)
(* Helpers of the code.                                                     *)
(***************************************************************************)

Slip_StartedOnly == {o \in Obj : task[o] \in {"running", "callback"}}

\* len(self._job_tasks): a task leaves the set only in its done-callback.
InFlight == {o \in Obj : task[o] # "none"}

\* Permits of self._semaphore in use.
Held == {o \in Obj : task[o] \in {"running", "callback"}}

Slip_InsertBeforeEqual(s, o) ==
  LET p == Priority[o[1]]
      NotAbove == {i \in DOMAIN s : p >= Priority[s[i][1]]}
      at == IF NotAbove = {} THEN Len(s) + 1
            ELSE CHOOSE i \in NotAbove : \A k \in NotAbove : i <= k
  IN SubSeq(s, 1, at - 1) \o <<o>> \o SubSeq(s, at, Len(s))

\* The sorted insertion of submit() and start(): before the first object of a
\* strictly lower priority, else at the end.
InsertByPriority(s, o) ==
  LET p == Priority[o[1]]
      Below == {i \in DOMAIN s : p > Priority[s[i][1]]}
      at == IF Below = {} THEN Len(s) + 1
            ELSE CHOOSE i \in Below : \A k \in Below : i <= k
  IN SubSeq(s, 1, at - 1) \o <<o>> \o SubSeq(s, at, Len(s))

DropAt(s, i) == SubSeq(s, 1, i - 1) \o SubSeq(s, i + 1, Len(s))

Slip_NeverWoken == dispatcher

\* _wakeup.set(): clear() and wait() are not separated by an await, so the
\* flag matters only to a dispatcher that is suspended on it.
Woken == IF dispatcher = "asleep" THEN "ready" ELSE dispatcher

Slip_NotAppended(j) == file

\* The file after an append: a torn last line has no newline, so the next line
\* is glued to it and lost with it; the ones after that are whole again.
Appended(j) == IF ~Persist \/ torn = "end" THEN file ELSE Append(file, j)

Fault == faults < MaxFaults /\ faults' = faults + 1

\* _persist_job.  An OSError is swallowed; the write that raised it may have
\* reached the file in part.
PersistJob(j) ==
  \/ /\ file' = Appended(j)
     /\ torn' = IF Persist /\ torn = "end" THEN "inside" ELSE torn
     /\ faults' = faults
  \/ /\ FileFails /\ Persist /\ Fault
     /\ file' = file
     /\ torn' \in {torn, "end"}

\* The file rewritten without the lines of j.  json.loads raises on a torn line
\* wherever it is, and the rewrite is given up.
Unpersisted(j) ==
  IF torn # "no" \/ j \notin Elements(file)
  THEN file
  ELSE DropAt(file, CHOOSE i \in DOMAIN file : file[i] = j)

\* _unpersist_job: an OSError leaves the old file in place.
UnpersistJob(j) ==
  /\ \/ file' = Unpersisted(j) /\ faults' = faults
     \/ FileFails /\ Fault /\ file' = file
  /\ torn' = torn

\* _log when the log's writer may only verify: every record raises.
AuditRaises == Audit = "raises"

\* The audit log with one more record: that j was submitted or started, that it
\* ended.
Recorded(j, stage) ==
  IF Audit = "kept" THEN [audit EXCEPT ![j].stage = stage] ELSE audit
EndRecorded(j) ==
  IF Audit = "kept" THEN [audit EXCEPT ![j].ends = @ + 1] ELSE audit

\* Job is a dataclass: == compares fields, and two copies of one id differ
\* only in status (with what goes with it) and callback.
HasCallback(o) == o[2] = 0 /\ o[1] \in AsyncCallback
FieldsEqual(o, p) ==
  \/ o = p
  \/ /\ o[1] = p[1]
     /\ status[o] = "pending" /\ status[p] = "pending"
     /\ HasCallback(o) = HasCallback(p)

-------------------------------------------------------------------------------
Init ==
  /\ running = FALSE
  /\ dispatcher = "absent"
  /\ stopping = FALSE
  /\ toRecover = <<>>
  /\ pending = <<>>
  /\ jobs = [j \in Jobs |-> NoObj]
  /\ status = [o \in Obj |-> "absent"]
  /\ eventSet = {}
  /\ waiting = {}
  /\ task = [o \in Obj |-> "none"]
  /\ cancelReq = {}
  /\ taskMap = [j \in Jobs |-> NoObj]
  /\ file = <<>>
  /\ torn = "no"
  /\ audit = [j \in Jobs |-> [stage |-> "none", ends |-> 0]]
  /\ faults = 0
  /\ outcome = [j \in Jobs |-> "none"]

(***************************************************************************)
(* Client calls.                                                            *)
(***************************************************************************)

\* An id that has never been used (uuid4).
Fresh(j) ==
  /\ jobs[j] = NoObj
  /\ outcome[j] = "none"
  /\ j \notin Elements(file)
  /\ audit[j].stage = "none"

\* submit(): when the audit record raises, the object is already queued but
\* neither persisted nor announced to the dispatcher.
Submit(j) ==
  /\ Fresh(j)
  /\ running \/ SubmitWhenStopped
  /\ LET o == <<j, 0>> IN
     /\ jobs' = [jobs EXCEPT ![j] = o]
     /\ status' = [status EXCEPT ![o] = "pending"]
     /\ pending' = InsertByPriority(pending, o)
  /\ IF AuditRaises
     THEN UNCHANGED <<fileVars, faults, dispatcher>>
     ELSE /\ audit' = Recorded(j, "submitted")
          /\ PersistJob(j)
          /\ dispatcher' = Woken
  /\ UNCHANGED <<running, stopping, toRecover, eventSet, waiting, task,
                 cancelReq, taskMap, outcome>>

\* start(): load the distinct parsable ids of the file; the loop over them is
\* RecoverOne.  start() does not await, so nothing runs before it is done.  A
\* file that cannot be opened is passed over.
\* (Bound: the last conjunct of the guard leaves room for MaxCopies objects.)
Start ==
  /\ ~running /\ ~stopping
  /\ \A i \in DOMAIN file : status[<<file[i], MaxCopies>>] = "absent"
  /\ running' = TRUE
  /\ dispatcher' = "ready"
  /\ \/ toRecover' = file /\ faults' = faults
     \/ FileFails /\ Fault /\ toRecover' = <<>>
  /\ UNCHANGED <<stopping, queueVars, status, eventSet, waiting, task,
                 cancelReq, fileVars, outcome>>

\* One iteration of start()'s loop: a new Job object and a new Event replace
\* whatever _jobs and _events hold for the id.
RecoverOne ==
  /\ toRecover # <<>>
  /\ \E k \in 1..MaxCopies :
       LET o == <<toRecover[1], k>> IN
       /\ status[o] = "absent"
       /\ \A m \in 1..(k-1) : status[<<toRecover[1], m>>] # "absent"
       /\ jobs' = [jobs EXCEPT ![o[1]] = o]
       /\ status' = [status EXCEPT ![o] = "pending"]
       /\ pending' = InsertByPriority(pending, o)
  /\ toRecover' = Tail(toRecover)
  /\ UNCHANGED <<running, dispatcher, stopping, eventSet, waiting, task,
                 cancelReq, taskMap, fileVars, faults, outcome>>

\* stop(): ask the dispatcher to finish, then await it and the tasks in flight
\* (StopReturns).
Stop ==
  /\ running
  /\ running' = FALSE
  /\ stopping' = TRUE
  /\ dispatcher' = Woken
  /\ UNCHANGED <<toRecover, queueVars, status, eventSet, waiting, task,
                 cancelReq, fileVars, faults, outcome>>

Slip_StopLeavesTasks ==
  /\ stopping
  /\ dispatcher = "exited"
  /\ stopping' = FALSE
  /\ dispatcher' = "absent"
  /\ UNCHANGED <<running, toRecover, queueVars, status, eventSet, waiting,
                 task, cancelReq, fileVars, faults, outcome>>

StopReturns ==
  /\ stopping
  /\ dispatcher = "exited"
  /\ InFlight = {}
  /\ stopping' = FALSE
  /\ dispatcher' = "absent"
  /\ UNCHANGED <<running, toRecover, queueVars, status, eventSet, waiting,
                 task, cancelReq, fileVars, faults, outcome>>

\* cancel() of a job whose registered object is PENDING.  list.remove drops
\* the first object that compares equal, which need not be this one.
CancelPending(j) ==
  /\ jobs[j] # NoObj
  /\ LET o == jobs[j]
         Same == {i \in DOMAIN pending : FieldsEqual(pending[i], o)}
         first == CHOOSE i \in Same : \A k \in Same : i <= k
     IN
     /\ status[o] = "pending"
     /\ pending' = IF Same = {} THEN pending ELSE DropAt(pending, first)
     /\ status' = [status EXCEPT ![o] = "cancelled"]
     /\ eventSet' = eventSet \cup {o}
  /\ outcome' = [outcome EXCEPT ![j] = "cancelled"]
  /\ IF AuditRaises
     THEN UNCHANGED <<fileVars, faults>>
     ELSE audit' = EndRecorded(j) /\ UnpersistJob(j)
  /\ UNCHANGED <<loopVars, jobs, waiting, task, cancelReq, taskMap>>

Slip_CancelAnyTask(j) ==
  /\ taskMap[j] # NoObj
  /\ task[taskMap[j]] # "finished"
  /\ cancelReq' = cancelReq \cup {taskMap[j]}
  /\ UNCHANGED <<loopVars, queueVars, status, eventSet, waiting, task,
                 fileVars, faults, outcome>>

\* cancel() of a RUNNING job: task.cancel() on the task registered for the id;
\* a task whose coroutine has returned is done() and is left alone.
CancelRunning(j) ==
  /\ jobs[j] # NoObj
  /\ status[jobs[j]] = "running"
  /\ taskMap[j] # NoObj
  /\ task[taskMap[j]] # "finished"
  /\ cancelReq' = cancelReq \cup {taskMap[j]}
  /\ UNCHANGED <<loopVars, queueVars, status, eventSet, waiting, task,
                 fileVars, faults, outcome>>

\* wait_for(): suspend on the event registered for the id at the call.
WaitFor(j) ==
  /\ jobs[j] # NoObj
  /\ jobs[j] \notin waiting
  /\ waiting' = waiting \cup {jobs[j]}
  /\ UNCHANGED <<loopVars, queueVars, status, eventSet, task, cancelReq,
                 fileVars, faults, outcome>>

\* ... and return what _jobs[id] then holds.
WaitReturns(o) ==
  /\ o \in waiting
  /\ o \in eventSet
  /\ waiting' = waiting \ {o}
  /\ UNCHANGED <<loopVars, queueVars, status, eventSet, task, cancelReq,
                 fileVars, faults, outcome>>

(***************************************************************************)
(* The dispatcher coroutine, from one await to the next: it pops as many    *)
(* jobs as there are free slots, then suspends on a slot, on the wakeup     *)
(* event, or ends.                                                          *)
(***************************************************************************)
Dispatch ==
  LET free  == MaxConcurrent - Cardinality(InFlight)
      n     == IF Len(pending) <= free THEN Len(pending) ELSE free
      taken == {pending[i] : i \in 1..n}
  IN
  /\ \/ dispatcher = "ready"
     \/ dispatcher = "slot" /\ free > 0
  /\ pending' = SubSeq(pending, n + 1, Len(pending))
  /\ task' = [o \in Obj |-> IF o \in taken THEN "scheduled" ELSE task[o]]
  /\ taskMap' = [j \in Jobs |->
       IF \E i \in 1..n : pending[i][1] = j
       THEN pending[CHOOSE i \in 1..n :
                      /\ pending[i][1] = j
                      /\ \A k \in (i+1)..n : pending[k][1] # j]
       ELSE taskMap[j]]
  /\ dispatcher' = IF n < Len(pending) THEN "slot"
                   ELSE IF running THEN "asleep" ELSE "exited"
  /\ UNCHANGED <<running, stopping, toRecover, jobs, status, eventSet, waiting,
                 cancelReq, fileVars, faults, outcome>>

(***************************************************************************)
(* _run_job, from one await to the next.                                    *)
(***************************************************************************)

\* The task ends without running: it was cancelled before its first step, or
\* its object was cancelled while it was in the queue.
RunSkipped(o) ==
  /\ task[o] = "scheduled"
  /\ o \in cancelReq \/ status[o] = "cancelled"
  /\ task' = [task EXCEPT ![o] = "finished"]
  /\ UNCHANGED <<loopVars, queueVars, status, eventSet, waiting, cancelReq,
                 fileVars, faults, outcome>>

Slip_RunCancelledJob(o) ==
  /\ task[o] = "scheduled"
  /\ o \notin cancelReq
  /\ status' = [status EXCEPT ![o] = "running"]
  /\ task' = [task EXCEPT ![o] = "running"]
  /\ audit' = Recorded(o[1], "started")
  /\ UNCHANGED <<loopVars, queueVars, eventSet, waiting, cancelReq, file, torn,
                 faults, outcome>>

\* RUNNING, then orchestrator.run is awaited.  The audit record is written
\* outside the try block: when it raises, the task dies as it is.
RunBegins(o) ==
  /\ task[o] = "scheduled"
  /\ o \notin cancelReq /\ status[o] # "cancelled"
  /\ Cardinality(Held) < MaxConcurrent
  /\ status' = [status EXCEPT ![o] = "running"]
  /\ task' = [task EXCEPT ![o] = IF AuditRaises THEN "finished" ELSE "running"]
  /\ audit' = Recorded(o[1], "started")
  /\ UNCHANGED <<loopVars, queueVars, eventSet, waiting, cancelReq, file, torn,
                 faults, outcome>>

Slip_EventBeforeCallback(o, st, next) ==
  /\ status' = [status EXCEPT ![o] = st]
  /\ task' = [task EXCEPT ![o] = next]
  /\ eventSet' = eventSet \cup {jobs[o[1]]}
  /\ outcome' = [outcome EXCEPT ![o[1]] = st]
  /\ audit' = EndRecorded(o[1])
  /\ UnpersistJob(o[1])
  /\ UNCHANGED <<loopVars, queueVars, waiting, cancelReq>>

\* The finally block sets the event registered for the id NOW.
Finish(o, st, next) ==
  /\ status' = [status EXCEPT ![o] = st]
  /\ task' = [task EXCEPT ![o] = next]
  /\ eventSet' = IF next = "finished" THEN eventSet \cup {jobs[o[1]]}
                 ELSE eventSet
  /\ outcome' = [outcome EXCEPT ![o[1]] = st]
  /\ audit' = EndRecorded(o[1])
  /\ UnpersistJob(o[1])
  /\ UNCHANGED <<loopVars, queueVars, waiting, cancelReq>>

Slip_CompleteThoughCancelled(o) ==
  /\ task[o] = "running"
  /\ Finish(o, "completed", "finished")

\* orchestrator.run returned: the job is COMPLETED before its callback ends.
RunCompletes(o) ==
  /\ task[o] = "running"
  /\ o \notin cancelReq
  /\ Finish(o, "completed", IF HasCallback(o) THEN "callback" ELSE "finished")

\* orchestrator.run raised.
RunFails(o) ==
  /\ task[o] = "running"
  /\ o \notin cancelReq
  /\ Finish(o, "failed", "finished")

\* CancelledError, thrown into whatever the task awaits.
RunCancelled(o) ==
  /\ task[o] \in {"running", "callback"}
  /\ o \in cancelReq
  /\ Finish(o, "cancelled", "finished")

\* The coroutine callback returned or raised (both are the same to the queue).
CallbackEnds(o) ==
  /\ task[o] = "callback"
  /\ o \notin cancelReq
  /\ task' = [task EXCEPT ![o] = "finished"]
  /\ eventSet' = eventSet \cup {jobs[o[1]]}
  /\ UNCHANGED <<loopVars, queueVars, status, waiting, cancelReq, fileVars,
                 faults, outcome>>

\* The done-callback _cleanup: the slot is free, whatever task the id maps to
\* is forgotten.
Cleanup(o) ==
  /\ task[o] = "finished"
  /\ task' = [task EXCEPT ![o] = "none"]
  /\ taskMap' = [taskMap EXCEPT ![o[1]] = NoObj]
  /\ UNCHANGED <<loopVars, pending, jobs, status, eventSet, waiting, cancelReq,
                 fileVars, faults, outcome>>

(***************************************************************************)
(* The process dies; only the disk survives.  A new process creates a new   *)
(* JobQueue, in its initial state.  A death before the first write of a     *)
(* step or after its last one is a death before or after the step; the      *)
(* others are the next two operators.                                       *)
(***************************************************************************)

\* submit() dies between the audit record and the line in the file; of the
\* line, a part may have been written.
DiesInSubmit(j) ==
  /\ Fresh(j)
  /\ running \/ SubmitWhenStopped
  /\ ~AuditRaises
  /\ audit' = Recorded(j, "submitted")
  /\ \/ torn' = torn
     \/ torn' = "end" /\ Persist /\ FileFails
  /\ file' = file

\* The steps that end a job: cancel() of a pending one, or its task's.
CanEnd(j) ==
  \/ jobs[j] # NoObj /\ status[jobs[j]] = "pending"
  \/ \E o \in Obj : /\ o[1] = j
                    /\ \/ task[o] = "running"
                       \/ task[o] = "callback" /\ o \in cancelReq

Slip_RewriteBeforeRecord(j) ==
  /\ CanEnd(j) /\ ~AuditRaises
  /\ file' = Unpersisted(j) /\ torn' = torn
  /\ audit' = audit

\* cancel() or _run_job dies between the audit record of the end and the
\* rewrite of the file: the next process runs the job again.
DiesInEnd(j) ==
  /\ CanEnd(j) /\ ~AuditRaises
  /\ audit' = EndRecorded(j)
  /\ UNCHANGED <<file, torn>>

Crash ==
  /\ Fault
  /\ \/ UNCHANGED fileVars
     \/ \E j \in Jobs : DiesInSubmit(j) \/ DiesInEnd(j)
  /\ running' = FALSE
  /\ dispatcher' = "absent"
  /\ stopping' = FALSE
  /\ toRecover' = <<>>
  /\ pending' = <<>>
  /\ jobs' = [j \in Jobs |-> NoObj]
  /\ status' = [o \in Obj |-> "absent"]
  /\ eventSet' = {}
  /\ waiting' = {}
  /\ task' = [o \in Obj |-> "none"]
  /\ cancelReq' = {}
  /\ taskMap' = [j \in Jobs |-> NoObj]
  /\ outcome' = outcome

-------------------------------------------------------------------------------
ClientCall ==
  \/ \E j \in Jobs : \/ Submit(j) \/ WaitFor(j)
                     \/ CancelPending(j) \/ CancelRunning(j)
  \/ Start
  \/ Stop

RunStep(o) ==
  \/ RunSkipped(o) \/ RunBegins(o) \/ RunCompletes(o) \/ RunFails(o)
  \/ RunCancelled(o) \/ CallbackEnds(o) \/ Cleanup(o)

\* Between the first and the last iteration of RecoverOne nothing else runs.
Next ==
  \/ RecoverOne
  \/ /\ toRecover = <<>>
     /\ \/ ClientCall
        \/ StopReturns
        \/ Dispatch
        \/ Crash
        \/ \E o \in Obj : RunStep(o) \/ WaitReturns(o)

Spec == Init /\ [][Next]_vars

\* What the event loop guarantees: a coroutine that can take its next step
\* takes it.  orchestrator.run and callbacks are assumed to return; clients
\* and crashes are not fair.
Fairness ==
  /\ WF_vars(RecoverOne)
  /\ WF_vars(toRecover = <<>> /\ Dispatch)
  /\ WF_vars(toRecover = <<>> /\ StopReturns)
  /\ \A o \in Obj : /\ WF_vars(toRecover = <<>> /\ RunStep(o))
                    /\ WF_vars(toRecover = <<>> /\ WaitReturns(o))

FairSpec == Spec /\ Fairness

-------------------------------------------------------------------------------
(***************************************************************************)
(* Properties.                                                              *)
(***************************************************************************)

\* Type invariant.  That eventSet holds only objects also says that the
\* finally block of _run_job never meets an id missing from _events.
TypeOK ==
  /\ running \in BOOLEAN
  /\ dispatcher \in {"absent", "ready", "asleep", "slot", "exited"}
  /\ stopping \in BOOLEAN
  /\ toRecover \in Seq(Jobs)
  /\ pending \in Seq(Obj)
  /\ jobs \in [Jobs -> Obj \cup {NoObj}]
  /\ status \in [Obj -> Status]
  /\ eventSet \subseteq Obj
  /\ waiting \subseteq Obj
  /\ task \in [Obj -> TaskState]
  /\ cancelReq \subseteq Obj
  /\ taskMap \in [Jobs -> Obj \cup {NoObj}]
  /\ file \in Seq(Jobs)
  /\ torn \in Torn
  /\ audit \in [Jobs -> AuditOfJob]
  /\ faults \in 0..MaxFaults
  /\ outcome \in [Jobs -> Terminal \cup {"none"}]

\* _dispatch_loop bounds task CREATION by max_concurrent, not only the number
\* of jobs that run: scheduled, running and not yet cleaned-up tasks together
\* never exceed it, so the semaphore of _run_job never makes a task wait.
SlotsBounded == Cardinality({o \in Obj : task[o] # "none"}) <= MaxConcurrent

\* A job that get() reports as PENDING is still going to be picked up: it is
\* in the queue or its task has been created and will run it.  Popping,
\* cancelling by field equality and recovering never strand it.
PendingIsQueued ==
  \A j \in Jobs :
    jobs[j] # NoObj /\ status[jobs[j]] = "pending" =>
      \/ jobs[j] \in Elements(pending)
      \/ task[jobs[j]] = "scheduled" /\ jobs[j] \notin cancelReq

LineOf(j) == CHOOSE i \in DOMAIN file : file[i] = j

\* The most urgent job is dispatched first: submit() and start() insert by
\* priority, cancellations and copies of recovered jobs included.
PendingByPriority ==
  \A i, k \in DOMAIN pending :
    i < k => Priority[pending[i][1]] >= Priority[pending[k][1]]

\* No pending job is stranded, and none waits behind a less urgent one.
PendingIsServed == PendingIsQueued /\ PendingByPriority

\* Jobs of equal priority are dispatched in the order of the lines submit()
\* appended to the persistence file: cancellations and a restart keep FIFO
\* order.
PendingFifo ==
  \A i, k \in DOMAIN pending :
    LET a == pending[i][1]
        b == pending[k][1]
    IN i < k /\ Priority[a] = Priority[b] /\ {a, b} \subseteq Elements(file)
         => LineOf(a) < LineOf(b)

\* The event registered for a job is set exactly when the job is finished and
\* its callback, if any, has been awaited: wait_for() neither returns early
\* nor misses the end.
EventIffFinished ==
  \A j \in Jobs :
    jobs[j] # NoObj =>
      (jobs[j] \in eventSet <=>
         status[jobs[j]] \in Terminal /\ task[jobs[j]] # "callback")

\* Between two steps of the event loop, the persistence file holds exactly the
\* accepted jobs that are not finished.
FileMatchesMemory ==
  \A j \in Jobs :
    IF jobs[j] # NoObj
    THEN j \in Elements(file) <=> status[jobs[j]] \notin Terminal
    ELSE j \in Elements(file) => outcome[j] = "none"

\* What the audit log says of a job against what the file says of it, wherever
\* the process has died so far: the log knows every job of the file or of
\* memory, a job that is on record as started is in the file until its end is
\* on record, a job that has finished has such a record, and a record of an end
\* that did not come about (the job is run again) was paid for by a fault.
AuditExplained ==
  Audit = "kept" => \A j \in Jobs :
    /\ jobs[j] # NoObj \/ j \in Elements(file) => audit[j].stage # "none"
    /\ audit[j].stage = "started" /\ outcome[j] = "none" => j \in Elements(file)
    /\ audit[j].ends > 0 /\ outcome[j] = "none" => j \in Elements(file)
    /\ outcome[j] # "none" => audit[j].ends > 0
    /\ audit[j].ends <= faults + (IF outcome[j] = "none" THEN 0 ELSE 1)

\* Waiters, the persistence file and the audit log tell one story of each job.
\* submit(), cancel() and _run_job write to the three one after the other: the
\* event and the file agree with memory between two steps of the event loop,
\* and what a death between the record and the file leaves behind on disk is
\* only what AuditExplained allows, a job that is run once more.
RecordsAgree == EventIffFinished /\ FileMatchesMemory /\ AuditExplained

\* A finished Job object never changes its status again, whatever late
\* cancellation, failing callback or second copy of the job comes after.
TerminalIsFinal ==
  [][\A o \in Obj : status[o] \in Terminal => status'[o] \in {status[o], "absent"}]_vars

\* stop() returns only when every job in memory is finished and every
\* callback has ended ("In-flight jobs are allowed to finish").
StopDrains ==
  [][stopping /\ ~stopping' /\ faults' = faults =>
       \A j \in Jobs : jobs[j] # NoObj =>
         status[jobs[j]] \in Terminal /\ jobs[j] \in eventSet]_vars

\* Every job in memory finishes, or the process crashes.
JobsFinish ==
  \A j \in Jobs : jobs[j] # NoObj ~> (outcome[j] # "none" \/ jobs[j] = NoObj)

\* Every wait_for() returns, or the process crashes.
WaitersReturn == \A o \in Obj : o \in waiting ~> o \notin waiting

\* Every stop() returns: the dispatcher drains the queue and exits.
StopReturnsEventually == stopping ~> ~stopping

\* A cancel() of a running job that was accepted ends the job as CANCELLED (or
\* the process crashes); it never ends any other way.
CancelTakesEffect ==
  \A o \in Obj : o \in cancelReq ~> status[o] \in {"cancelled", "absent"}

\* Nothing hangs: jobs, waiters, stop() and cancellations all come to their
\* proper end, whatever is queued, running, in a callback or being cancelled.
Progress ==
  /\ JobsFinish /\ WaitersReturn
  /\ StopReturnsEventually /\ StopDrains
  /\ CancelTakesEffect

(***************************************************************************)
(* What the queue promises its clients, across crashes: module JobService.  *)
(***************************************************************************)
ServiceState ==
  [j \in Jobs |->
     IF outcome[j] # "none" THEN outcome[j]
     ELSE IF jobs[j] # NoObj /\ status[jobs[j]] = "running" THEN "running"
     ELSE IF jobs[j] # NoObj \/ j \in Elements(file) THEN "queued"
     ELSE "new"]

Service == INSTANCE JobService WITH state <- ServiceState

\* A persistent queue implements the durable job service: an accepted job is
\* never lost, finishes at most once and runs within the concurrency limit.
ImplementsService == Service!Spec
===============================================================================
