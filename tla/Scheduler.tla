----------------------------- MODULE Scheduler -----------------------------
(***************************************************************************)
(* The controller's execution scheduler (internal/control: server.go,      *)
(* cleanup.go, nix_lifecycle.go): labs and Nix jobs share one slot, which  *)
(* is taken in submission order and given up when the resources of its     *)
(* task are released.                                                      *)
(*                                                                         *)
(* Server.mu makes a critical section one action; between them, backend    *)
(* calls are outstanding and other goroutines run: the schedule loop, the  *)
(* execute goroutine of a task, cleanup calls serialised by the task's     *)
(* cleanup lock, the Nix observer, and API calls.                          *)
(*                                                                         *)
(* The backends are abstract: a lab has virtual machines or not; a Nix job *)
(* is a job of the worker, which keeps the promises shown in NixWorker     *)
(* (a job reported clean holds nothing, a job reported unknown never runs).*)
(* A start request may reach the worker long after the controller gave up. *)
(***************************************************************************)
EXTENDS Naturals, Sequences

CONSTANTS
    Labs, Jobs,     \* the lab tasks and the Nix tasks
    None,           \* no task
    SaveFaults,     \* whether a write to the controller's database may fail
    LockTimeouts,   \* whether a cleanup may be kept off its lock for its whole budget
    Crashes,        \* bound: how often the service ends
    Operators,      \* tasks for which lab_cleanup or nix_job_recover may be called
    Uploads         \* tasks with an upload that may be under way when they are cancelled

Tasks == Labs \cup Jobs

ASSUME SchedulerAssumption ==
    /\ Labs \cap Jobs = {} /\ None \notin Tasks
    /\ SaveFaults \in BOOLEAN /\ LockTimeouts \in BOOLEAN /\ Crashes \in Nat
    /\ Operators \subseteq Tasks /\ Uploads \subseteq Tasks

VARIABLES
    task,           \* the execution records in memory
    disk,           \* executions: the rows
    queue,          \* s.tasks: accepted tasks in row order
    active,         \* s.active
    up,             \* "down", "recovering" or "up" (the schedule loop)
    closed,         \* s.closed, with s.ctx cancelled
    pick,           \* the task whose backend availability is being asked
    todo, rec, blocked,     \* recovery in schedule(): tasks left, its step, the blocked task
    exec,           \* the execute goroutine of the task
    over,           \* tasks whose Runtime.ctx is cancelled
    api,            \* a cleanup call from the API or of a cancelled queued task
    holder,         \* who holds Runtime.cleanup of the task
    rel,            \* the backend call of the cleanup and its answer
    obs,            \* the Nix observer of the task and its answer
    wjob,           \* the worker's job
    starts,         \* start requests on their way to the worker
    vms,            \* labs with virtual machines
    crashes         \* how often the service has ended

server == <<task, disk, queue, active, up, closed, pick, todo, rec, blocked, exec, over, api, holder, rel, obs>>
world == <<wjob, starts, vms, crashes>>
vars == <<server, world>>

\* "done" is finished or failed, "stopped" cancelled or timed out.
Terminals == {"done", "stopped", "interrupted"}

\* dispatched: Dispatched of a Nix job, or the intent of some node of a lab.
Records == [state : {"none", "queued", "preparing", "running"} \cup Terminals,
            cleanup : {"pending", "running", "required", "complete"},
            dispatched : BOOLEAN]

NoTask == [state |-> "none", cleanup |-> "pending", dispatched |-> FALSE]

TypeOK ==
    /\ task \in [Tasks -> Records] /\ disk \in [Tasks -> Records]
    /\ queue \in Seq(Tasks) /\ todo \subseteq Tasks
    /\ {active, pick, blocked} \subseteq Tasks \cup {None}
    /\ up \in {"down", "recovering", "up"} /\ closed \in BOOLEAN
    /\ rec \in {"next", "cleanup", "returned"}
    /\ exec \in [Tasks -> {"none", "dispatch", "start", "wait", "observe", "cleanup", "release"}]
    /\ over \subseteq Tasks
    /\ api \in [Tasks -> {"none", "cleanup", "background", "release"}]
    /\ holder \in [Tasks -> {"none", "exec", "recovery", "api"}]
    /\ rel \in [Tasks -> {"none", "rpc", "released", "blocked"}]
    /\ obs \in [Tasks -> {"none", "rpc", "released", "held", "blocked"}]
    /\ wjob \in [Tasks -> {"none", "running", "clean", "never"}]
    /\ starts \subseteq Jobs /\ vms \subseteq Labs /\ crashes \in 0 .. Crashes

Init ==
    /\ task = [t \in Tasks |-> NoTask] /\ disk = [t \in Tasks |-> NoTask]
    /\ queue = <<>> /\ todo = {}
    /\ active = None /\ pick = None /\ blocked = None /\ rec = "next"
    /\ up = "up" /\ closed = FALSE
    /\ exec = [t \in Tasks |-> "none"] /\ api = [t \in Tasks |-> "none"]
    /\ holder = [t \in Tasks |-> "none"] /\ rel = [t \in Tasks |-> "none"]
    /\ obs = [t \in Tasks |-> "none"] /\ over = {}
    /\ wjob = [t \in Tasks |-> "none"] /\ starts = {} /\ vms = {} /\ crashes = 0

-----------------------------------------------------------------------------
(* Helpers.                                                                *)

Terminal(t) == task[t].state \in Terminals

\* Runtime.ctx is done: cancelled itself, or with the service.
Over(t) == closed \/ t \in over

\* The first task of S in s.tasks.
Earliest(S) ==
    {t \in S : \E i \in DOMAIN queue : queue[i] = t /\ \A k \in 1 .. i - 1 : queue[k] \notin S}

Queued == {t \in Tasks : task[t].state = "queued"}

\* Ended tasks that are not clean yet.
Unclean == {t \in Tasks : Terminal(t) /\ task[t].cleanup # "complete"}

\* Mutant of Save: a failed write is only logged.
SaveOnward(t, r) ==
    /\ task' = [task EXCEPT ![t] = r]
    /\ disk' = [disk EXCEPT ![t] = r] \/ (SaveFaults /\ UNCHANGED disk)
    /\ UNCHANGED closed

\* Server.save and persist: a write that fails stops the service.
Save(t, r) ==
    /\ task' = [task EXCEPT ![t] = r]
    /\ \/ disk' = [disk EXCEPT ![t] = r] /\ UNCHANGED closed
       \/ SaveFaults /\ closed' = TRUE /\ UNCHANGED disk

\* Mutant of ReleaseScheduler: the slot is free when the cleanup returns.
ReleaseAnyway(t) ==
    IF active # t THEN UNCHANGED active
    ELSE active' \in IF Earliest(Unclean') \subseteq {t} THEN {None} ELSE Earliest(Unclean')

\* releaseScheduler(): the slot passes to an ended task that is not clean yet.
ReleaseScheduler(t) ==
    IF active # t \/ task'[t].cleanup # "complete" THEN UNCHANGED active
    ELSE active' \in IF Unclean' = {} THEN {None} ELSE Earliest(Unclean')

\* A cleanup call returns to its caller.
Return(t, by) ==
    /\ exec' = IF by = "exec" THEN [exec EXCEPT ![t] = "release"] ELSE exec
    /\ rec' = IF by = "recovery" THEN "returned" ELSE rec
    /\ api' = IF by # "api" THEN api
              ELSE [api EXCEPT ![t] = IF @ = "cleanup" /\ t \in Labs THEN "release" ELSE "none"]

-----------------------------------------------------------------------------
(* Submission and the schedule loop.                                       *)

\* lab_create and nix_job_create: accepted once the row is written.
Submit(t) ==
    /\ up # "down" /\ ~closed
    /\ disk[t] = NoTask /\ task[t] = NoTask
    /\ task' = [task EXCEPT ![t].state = "queued"]
    /\ disk' = [disk EXCEPT ![t].state = "queued"]
    /\ queue' = Append(queue, t)
    /\ UNCHANGED <<active, up, closed, pick, todo, rec, blocked, exec, over, api, holder, rel, obs, world>>

\* schedule(): the first queued task takes the free slot, while its backend is
\* asked.  The loop waits for the answer.
Pick ==
    /\ up = "up" /\ ~closed /\ active = None /\ pick = None
    /\ \E t \in Earliest(Queued) : active' = t /\ pick' = t
    /\ UNCHANGED <<task, disk, queue, up, closed, todo, rec, blocked, exec, over, api, holder, rel, obs, world>>

\* The backend is available: a task that is still queued is executed.
Start(t) ==
    /\ up = "up" /\ pick = t
    /\ pick' = None
    /\ IF task[t].state # "queued"
       THEN active' = None /\ UNCHANGED <<task, disk, closed, exec, over>>
       ELSE /\ Save(t, [task[t] EXCEPT !.state = "preparing"])
            /\ exec' = [exec EXCEPT ![t] = "dispatch"] /\ over' = over \ {t}
            /\ UNCHANGED active
    /\ UNCHANGED <<queue, up, todo, rec, blocked, api, holder, rel, obs, world>>

\* The backend is not available: the task waits, or fails if the worker is gone.
Refuse(t) ==
    /\ up = "up" /\ pick = t
    /\ pick' = None /\ active' = None
    /\ \/ Save(t, task[t])
       \/ /\ t \in Jobs /\ task[t].state = "queued"
          /\ Save(t, [task[t] EXCEPT !.state = "done", !.cleanup = "complete"])
    /\ UNCHANGED <<queue, up, todo, rec, blocked, exec, over, api, holder, rel, obs, world>>

-----------------------------------------------------------------------------
(* The execute goroutine.                                                  *)

\* The intent is written before the backend is called.  A lab checks first that
\* it is not cancelled, and a failed write of its intent only ends the preparation.
Dispatch(t) ==
    /\ up # "down" /\ exec[t] = "dispatch"
    /\ \/ /\ t \in Labs => ~Over(t)
          /\ Save(t, [task[t] EXCEPT !.dispatched = TRUE])
          /\ exec' = [exec EXCEPT ![t] = "start"] /\ UNCHANGED over
       \/ /\ SaveFaults /\ t \in Labs /\ ~Over(t)
          /\ task' = [task EXCEPT ![t].dispatched = TRUE]
          /\ exec' = [exec EXCEPT ![t] = "wait"] /\ over' = over \cup {t}
          /\ UNCHANGED <<disk, closed>>
       \/ /\ t \in Labs /\ Over(t)
          /\ exec' = [exec EXCEPT ![t] = "wait"] /\ UNCHANGED <<task, disk, closed, over>>
    /\ UNCHANGED <<queue, active, up, pick, todo, rec, blocked, api, holder, rel, obs, world>>

\* Mutant of Call: it ignores the context.
CallUnchecked(t) ==
    /\ up # "down" /\ exec[t] = "start"
    /\ exec' = [exec EXCEPT ![t] = "wait"]
    /\ starts' = IF t \in Jobs THEN starts \cup {t} ELSE starts
    /\ UNCHANGED <<task, disk, queue, active, up, closed, pick, todo, rec, blocked, over, api, holder, rel, obs, wjob, vms, crashes>>

\* A start request leaves, unless the context is done.
Call(t) ==
    /\ up # "down" /\ exec[t] = "start"
    /\ exec' = [exec EXCEPT ![t] = "wait"]
    /\ starts' = IF t \in Jobs /\ ~Over(t) THEN starts \cup {t} ELSE starts
    /\ UNCHANGED <<task, disk, queue, active, up, closed, pick, todo, rec, blocked, over, api, holder, rel, obs, wjob, vms, crashes>>

\* Backend.Prepare makes virtual machines while its context lasts.
Create(t) ==
    /\ up # "down" /\ exec[t] = "wait" /\ t \in Labs /\ ~Over(t)
    /\ vms' = vms \cup {t}
    /\ UNCHANGED <<server, wjob, starts, crashes>>

\* The call failed, was cancelled or its answer was lost.
CallFailed(t) ==
    /\ up # "down" /\ exec[t] = "wait"
    /\ Save(t, IF Terminal(t) THEN task[t]
               ELSE [task[t] EXCEPT !.state = IF closed THEN "interrupted" ELSE "done"])
    /\ exec' = [exec EXCEPT ![t] = "cleanup"] /\ over' = over \cup {t}
    /\ UNCHANGED <<queue, active, up, pick, todo, rec, blocked, api, holder, rel, obs, world>>

\* Mutant of CallReturned: an answer makes the task run, whatever happened since.
CallReturnedAnyway(t) ==
    /\ up # "down" /\ exec[t] = "wait"
    /\ (t \in vms /\ ~Over(t)) \/ wjob[t] \in {"running", "clean"}
    /\ Save(t, [task[t] EXCEPT !.state = "running"])
    /\ exec' = [exec EXCEPT ![t] = "observe"]
    /\ UNCHANGED <<queue, active, up, pick, todo, rec, blocked, over, api, holder, rel, obs, world>>

\* A lab is prepared, or the worker has accepted the job.
CallReturned(t) ==
    /\ up # "down" /\ exec[t] = "wait"
    /\ (t \in vms /\ ~Over(t)) \/ wjob[t] \in {"running", "clean"}
    /\ Save(t, IF task[t].state = "preparing" THEN [task[t] EXCEPT !.state = "running"] ELSE task[t])
    /\ exec' = [exec EXCEPT ![t] = "observe"]
    /\ UNCHANGED <<queue, active, up, pick, todo, rec, blocked, over, api, holder, rel, obs, world>>

\* Mutant of Result: a reply in flight replaces the result of a cancel.
ResultLate(t) ==
    /\ up # "down"
    /\ \/ /\ exec[t] = "observe" /\ t \in Jobs
          /\ \E s \in {"done", "interrupted"} : Save(t, [task[t] EXCEPT !.state = s])
       \/ /\ closed /\ (exec[t] = "observe" \/ (t \in Labs /\ exec[t] # "none"))
          /\ Save(t, [task[t] EXCEPT !.state = "interrupted"])
    /\ over' = over \cup {t}
    /\ UNCHANGED <<queue, active, up, pick, todo, rec, blocked, exec, api, holder, rel, obs, world>>

\* observe(): the worker reports the result of a job, or the service stops.  A
\* lab is observed from the start of its preparation.
Result(t) ==
    /\ up # "down" /\ ~Terminal(t)
    /\ \/ /\ exec[t] = "observe" /\ t \in Jobs
          /\ \E s \in {"done", "interrupted"} : Save(t, [task[t] EXCEPT !.state = s])
       \/ /\ closed /\ (exec[t] = "observe" \/ (t \in Labs /\ exec[t] # "none"))
          /\ Save(t, [task[t] EXCEPT !.state = "interrupted"])
    /\ over' = over \cup {t}
    /\ UNCHANGED <<queue, active, up, pick, todo, rec, blocked, exec, api, holder, rel, obs, world>>

ObserveEnds(t) ==
    /\ up # "down" /\ exec[t] = "observe" /\ Terminal(t)
    /\ exec' = [exec EXCEPT ![t] = "cleanup"] /\ over' = over \cup {t}
    /\ UNCHANGED <<task, disk, queue, active, up, closed, pick, todo, rec, blocked, api, holder, rel, obs, world>>

\* execute() after its cleanup.
ExecRelease(t) ==
    /\ up # "down" /\ exec[t] = "release"
    /\ exec' = [exec EXCEPT ![t] = "none"]
    /\ UNCHANGED task /\ ReleaseScheduler(t)
    /\ UNCHANGED <<disk, queue, up, closed, pick, todo, rec, blocked, over, api, holder, rel, obs, world>>

\* lab_finish
Finish(t) ==
    /\ up # "down" /\ t \in Labs
    /\ task[t].state = "running"
    /\ Save(t, [task[t] EXCEPT !.state = "done"])
    /\ over' = over \cup {t}
    /\ UNCHANGED <<queue, active, up, pick, todo, rec, blocked, exec, api, holder, rel, obs, world>>

\* lab_cancel and nix_job_cancel.  A queued task is clean at once unless uploads
\* to it have to settle first.
Cancel(t) ==
    /\ up # "down"
    /\ LET cancelled == [task[t] EXCEPT !.state = "stopped"] IN
        \/ /\ task[t].state \in {"preparing", "running"}
           /\ Save(t, cancelled) /\ over' = over \cup {t} /\ UNCHANGED api
        \/ /\ task[t].state = "queued"
           /\ Save(t, [cancelled EXCEPT !.cleanup = "complete"]) /\ UNCHANGED <<over, api>>
        \/ /\ task[t].state = "queued" /\ t \in Uploads /\ api[t] = "none"
           /\ Save(t, cancelled) /\ api' = [api EXCEPT ![t] = "background"] /\ UNCHANGED over
    /\ UNCHANGED <<queue, active, up, pick, todo, rec, blocked, exec, holder, rel, obs, world>>

\* The deadline of a started task; its context is cancelled a little later.
Deadline(t) ==
    /\ up # "down" /\ exec[t] \notin {"none", "cleanup", "release"}
    /\ task[t].state \in {"preparing", "running"}
    /\ Save(t, [task[t] EXCEPT !.state = "stopped"])
    /\ UNCHANGED <<queue, active, up, pick, todo, rec, blocked, exec, over, api, holder, rel, obs, world>>

DeadlineCancels(t) ==
    /\ up # "down" /\ exec[t] \notin {"none", "cleanup", "release"}
    /\ task[t].state = "stopped" /\ t \notin over
    /\ over' = over \cup {t}
    /\ UNCHANGED <<task, disk, queue, active, up, closed, pick, todo, rec, blocked, exec, api, holder, rel, obs, world>>

-----------------------------------------------------------------------------
(* Cleanup: cleanup() of a lab and releaseNix() of a Nix job.              *)

\* lab_cleanup, or nix_job_recover of the resources, of an ended task.  Bound:
\* an operator waits for the answer before it calls for another task.
Recover(t) ==
    /\ up # "down" /\ ~closed /\ t \in Operators
    /\ Terminal(t) /\ api[t] = "none"
    /\ \A u \in Tasks : api[u] \notin {"cleanup", "release"}
    /\ api' = [api EXCEPT ![t] = "cleanup"]
    /\ UNCHANGED <<task, disk, queue, active, up, closed, pick, todo, rec, blocked, exec, over, holder, rel, obs, world>>

Caller(t, by) ==
    \/ by = "exec" /\ exec[t] = "cleanup"
    \/ by = "recovery" /\ rec = "cleanup" /\ t \in Earliest(todo)
    \/ by = "api" /\ api[t] \in {"cleanup", "background"}

\* With the lock the call finds the task clean, or it does not get the lock in time.
CleanupReturns(t, by) ==
    /\ up # "down" /\ Caller(t, by) /\ holder[t] # by
    /\ \/ holder[t] = "none" /\ task[t].cleanup = "complete"
       \/ LockTimeouts /\ holder[t] # "none"
    /\ Return(t, by)
    /\ UNCHANGED <<task, disk, queue, active, up, closed, pick, todo, blocked, over, holder, rel, obs, world>>

\* A job that was never dispatched has no resources.
NothingToRelease(t, by) ==
    /\ up # "down" /\ Caller(t, by) /\ holder[t] = "none"
    /\ t \in Jobs /\ task[t].cleanup # "complete" /\ ~task[t].dispatched
    /\ Save(t, [task[t] EXCEPT !.cleanup = "complete"])
    /\ over' = over \cup {t}
    /\ ReleaseScheduler(t)
    /\ Return(t, by)
    /\ UNCHANGED <<queue, up, pick, todo, blocked, holder, rel, obs, world>>

CleanupBegins(t, by) ==
    /\ up # "down" /\ Caller(t, by) /\ holder[t] = "none"
    /\ task[t].cleanup # "complete" /\ (t \in Labs \/ task[t].dispatched)
    /\ Save(t, [task[t] EXCEPT !.cleanup = "running"])
    /\ over' = over \cup {t}
    /\ holder' = [holder EXCEPT ![t] = by] /\ rel' = [rel EXCEPT ![t] = "rpc"]
    /\ UNCHANGED <<queue, active, up, pick, todo, rec, blocked, exec, api, obs, world>>

\* The worker on "resources" of a job: what it does not know it will never run.
Resources(t) == wjob' = IF wjob[t] = "none" THEN [wjob EXCEPT ![t] = "never"] ELSE wjob

\* The backend call.  Machines are deleted, or the worker asked until it reports
\* a release or a blocker; request or answer may be lost, or the budget run out.
CleanupAnswer(t) ==
    /\ up # "down" /\ rel[t] = "rpc"
    /\ \/ t \in Labs /\ vms' = vms \ {t} /\ UNCHANGED wjob
          /\ rel' = [rel EXCEPT ![t] = "released"]
       \/ t \in Jobs /\ Resources(t) /\ UNCHANGED vms
          /\ wjob'[t] \in {"clean", "never"} /\ rel' = [rel EXCEPT ![t] = "released"]
       \/ t \in Jobs /\ Resources(t) /\ UNCHANGED vms /\ rel' = [rel EXCEPT ![t] = "blocked"]
       \/ UNCHANGED <<wjob, vms>> /\ rel' = [rel EXCEPT ![t] = "blocked"]
    /\ UNCHANGED <<task, disk, queue, active, up, closed, pick, todo, rec, blocked, exec, over, api, holder, obs, starts, crashes>>

\* The tail of cleanup(), or applyNixResources().
CleanupApply(t) ==
    /\ up # "down" /\ rel[t] \in {"released", "blocked"}
    /\ Save(t, [task[t] EXCEPT !.cleanup = IF rel[t] = "released" THEN "complete" ELSE "required"])
    /\ IF t \in Jobs THEN ReleaseScheduler(t) ELSE UNCHANGED active
    /\ Return(t, holder[t])
    /\ holder' = [holder EXCEPT ![t] = "none"] /\ rel' = [rel EXCEPT ![t] = "none"]
    /\ UNCHANGED <<queue, up, pick, todo, blocked, over, obs, world>>

\* cleanupTask() after the cleanup.
ApiRelease(t) ==
    /\ up # "down" /\ api[t] = "release"
    /\ api' = [api EXCEPT ![t] = "none"]
    /\ UNCHANGED task /\ ReleaseScheduler(t)
    /\ UNCHANGED <<disk, queue, up, closed, pick, todo, rec, blocked, exec, over, holder, rel, obs, world>>

\* nixLifecycleLocked(): an ended job that is not clean is observed, also while
\* a cleanup call is out.  The schedule loop calls it, and nix_job_recover of
\* the evidence of a clean job.
Observe(t) ==
    /\ \/ up = "up" /\ pick = None
       \/ \E u \in Operators \cap Jobs : Terminal(u) /\ task[u].cleanup = "complete"
    /\ ~closed /\ t \in Jobs
    /\ Terminal(t) /\ task[t].cleanup # "complete" /\ obs[t] = "none"
    /\ obs' = [obs EXCEPT ![t] = "rpc"]
    /\ UNCHANGED <<task, disk, queue, active, up, closed, pick, todo, rec, blocked, exec, over, api, holder, rel, world>>

\* "status": a job that the worker does not know is an error.
ObserveAnswer(t) ==
    /\ up # "down" /\ obs[t] = "rpc"
    /\ \/ wjob[t] \in {"clean", "never"} /\ obs' = [obs EXCEPT ![t] = "released"]
       \/ wjob[t] = "running" /\ obs' = [obs EXCEPT ![t] = "held"]
       \/ obs' = [obs EXCEPT ![t] = "blocked"]
    /\ UNCHANGED <<task, disk, queue, active, up, closed, pick, todo, rec, blocked, exec, over, api, holder, rel, world>>

\* Mutant of ObserveApply: the observer does not release the slot.
ObserveKeepsSlot(t) ==
    /\ up # "down" /\ obs[t] \in {"released", "held", "blocked"}
    /\ obs' = [obs EXCEPT ![t] = "none"]
    /\ IF task[t].cleanup = "complete" THEN UNCHANGED <<task, disk, closed>>
       ELSE Save(t, [task[t] EXCEPT !.cleanup =
                CASE obs[t] = "released" -> "complete" [] obs[t] = "held" -> "running" [] OTHER -> "required"])
    /\ UNCHANGED <<queue, active, up, pick, todo, rec, blocked, exec, over, api, holder, rel, world>>

ObserveApply(t) ==
    /\ up # "down" /\ obs[t] \in {"released", "held", "blocked"}
    /\ obs' = [obs EXCEPT ![t] = "none"]
    /\ IF task[t].cleanup = "complete" THEN UNCHANGED <<task, disk, closed, active>>
       ELSE /\ Save(t, [task[t] EXCEPT !.cleanup =
                CASE obs[t] = "released" -> "complete" [] obs[t] = "held" -> "running" [] OTHER -> "required"])
            /\ ReleaseScheduler(t)
    /\ UNCHANGED <<queue, up, pick, todo, rec, blocked, exec, over, api, holder, rel, world>>

-----------------------------------------------------------------------------
(* Restart and recovery.                                                   *)

\* Server.Close: no new work; goroutines finish what they have begun.
Close ==
    /\ up # "down" /\ ~closed
    /\ closed' = TRUE
    /\ UNCHANGED <<task, disk, queue, active, up, pick, todo, rec, blocked, exec, over, api, holder, rel, obs, world>>

\* The service ends, at any point.
Crash ==
    /\ up # "down" /\ crashes < Crashes
    /\ crashes' = crashes + 1
    /\ up' = "down" /\ closed' = FALSE
    /\ task' = [t \in Tasks |-> NoTask]
    /\ active' = None /\ pick' = None /\ blocked' = None /\ todo' = {} /\ rec' = "next"
    /\ exec' = [t \in Tasks |-> "none"] /\ api' = [t \in Tasks |-> "none"]
    /\ holder' = [t \in Tasks |-> "none"] /\ rel' = [t \in Tasks |-> "none"]
    /\ obs' = [t \in Tasks |-> "none"] /\ over' = {}
    /\ UNCHANGED <<disk, queue, wjob, starts, vms>>

\* New(): tasks that are not settled are recovered, in row order.
Restart ==
    /\ up = "down"
    /\ up' = "recovering"
    /\ task' = disk
    /\ todo' = {t \in Tasks : /\ disk[t].state # "none"
                              /\ disk[t].state \in Terminals => disk[t].cleanup # "complete"}
    /\ UNCHANGED <<disk, queue, active, closed, pick, rec, blocked, exec, over, api, holder, rel, obs, world>>

\* schedule(): the next task is interrupted, holds the slot and is cleaned up.
RecoverNext ==
    /\ up = "recovering" /\ rec = "next"
    /\ \E t \in Earliest(todo) :
        /\ Save(t, IF Terminal(t) THEN task[t] ELSE [task[t] EXCEPT !.state = "interrupted"])
        /\ active' = t
    /\ rec' = "cleanup"
    /\ UNCHANGED <<queue, up, pick, todo, blocked, exec, over, api, holder, rel, obs, world>>

\* blocked is the first task whose cleanup did not complete.
RecoverReturned ==
    /\ up = "recovering" /\ rec = "returned"
    /\ \E t \in Earliest(todo) :
        /\ IF task[t].cleanup = "complete" THEN active' = None /\ UNCHANGED blocked
           ELSE blocked' = (IF blocked = None THEN t ELSE blocked) /\ UNCHANGED active
        /\ todo' = todo \ {t}
    /\ rec' = "next"
    /\ UNCHANGED <<task, disk, queue, up, closed, pick, exec, over, api, holder, rel, obs, world>>

\* Mutant of RecoverDone: recovery always ends with a free slot.
RecoverDoneFree ==
    /\ up = "recovering" /\ rec = "next" /\ todo = {}
    /\ up' = "up" /\ active' = None /\ blocked' = None
    /\ UNCHANGED <<task, disk, queue, closed, pick, todo, rec, exec, over, api, holder, rel, obs, world>>

RecoverDone ==
    /\ up = "recovering" /\ rec = "next" /\ todo = {}
    /\ up' = "up" /\ active' = blocked /\ blocked' = None
    /\ UNCHANGED <<task, disk, queue, closed, pick, todo, rec, exec, over, api, holder, rel, obs, world>>

-----------------------------------------------------------------------------
(* The worker.                                                             *)

\* A start request arrives: a job the worker does not know runs, alone.
WorkerStart(t) ==
    /\ t \in starts
    /\ starts' = starts \ {t}
    /\ wjob' = IF wjob[t] = "none" /\ \A u \in Jobs : wjob[u] # "running"
               THEN [wjob EXCEPT ![t] = "running"] ELSE wjob
    /\ UNCHANGED <<server, vms, crashes>>

\* The worker has released the session and the client of the job.
WorkerClean(t) ==
    /\ wjob[t] = "running"
    /\ wjob' = [wjob EXCEPT ![t] = "clean"]
    /\ UNCHANGED <<server, starts, vms, crashes>>

Next ==
    \/ \E t \in Tasks :
        \/ Submit(t) \/ Start(t) \/ Refuse(t)
        \/ Dispatch(t) \/ Call(t) \/ CallFailed(t) \/ CallReturned(t) \/ Create(t) \/ Result(t) \/ ObserveEnds(t) \/ ExecRelease(t)
        \/ Finish(t) \/ Cancel(t) \/ Deadline(t) \/ DeadlineCancels(t) \/ Recover(t)
        \/ \E by \in {"exec", "recovery", "api"} :
            CleanupReturns(t, by) \/ NothingToRelease(t, by) \/ CleanupBegins(t, by)
        \/ CleanupAnswer(t) \/ CleanupApply(t) \/ ApiRelease(t)
        \/ Observe(t) \/ ObserveAnswer(t) \/ ObserveApply(t)
        \/ WorkerStart(t) \/ WorkerClean(t)
    \/ Pick \/ Close \/ Crash \/ Restart \/ RecoverNext \/ RecoverReturned \/ RecoverDone

Spec == Init /\ [][Next]_vars

\* Goroutines and calls with a budget go on; the backend is available and the
\* worker answers the observer again and again; deadlines pass; the worker
\* cleans what it runs (CleanupCompletes of NixWorker); a dead service is
\* started again.
Fairness ==
    /\ WF_vars(Pick) /\ WF_vars(Restart)
    /\ WF_vars(RecoverNext) /\ WF_vars(RecoverReturned) /\ WF_vars(RecoverDone)
    /\ \A t \in Tasks :
        /\ SF_vars(Start(t)) /\ WF_vars(Refuse(t))
        /\ WF_vars(Dispatch(t)) /\ WF_vars(Call(t)) /\ WF_vars(CallFailed(t) \/ CallReturned(t))
        /\ WF_vars(Deadline(t)) /\ WF_vars(ObserveEnds(t)) /\ WF_vars(ExecRelease(t))
        /\ \A by \in {"exec", "recovery", "api"} :
            WF_vars(CleanupReturns(t, by) \/ NothingToRelease(t, by) \/ CleanupBegins(t, by))
        /\ WF_vars(CleanupAnswer(t)) /\ WF_vars(CleanupApply(t)) /\ WF_vars(ApiRelease(t))
        /\ WF_vars(Observe(t)) /\ WF_vars(ObserveAnswer(t)) /\ WF_vars(ObserveApply(t))
        /\ SF_vars(ObserveAnswer(t) /\ obs'[t] = "released")
        /\ WF_vars(WorkerStart(t)) /\ WF_vars(WorkerClean(t))

FairSpec == Spec /\ Fairness

-----------------------------------------------------------------------------
(* Properties.                                                             *)

\* Resources of the task exist, or will when its start request arrives.
Physical(t) == t \in vms \/ wjob[t] = "running" \/ (t \in starts /\ wjob[t] = "none")

\* One slot: whatever is cancelled, lost, delayed or restarted, the resources of
\* two executions never exist side by side.
Exclusive == \A t, u \in Tasks : Physical(t) /\ Physical(u) => t = u

\* What exists is on record: a restart finds the row of every execution with
\* resources, dispatched and not clean, so its recovery takes them down.
OwnedIsRecorded ==
    \A t \in Tasks : Physical(t) =>
        /\ disk[t].dispatched /\ disk[t].cleanup # "complete"
        /\ up # "down" => task[t].dispatched /\ task[t].cleanup # "complete"

\* Both, whatever is cancelled, lost, late or restarted: the state after a crash
\* is one that recovery can resolve, and the next execution never meets the
\* resources of the last one.
Inv == TypeOK /\ Exclusive /\ OwnedIsRecorded

\* "A result already recorded remains unchanged" (contract.md): a late reply, a
\* cancel, a deadline and a restart may race, and the first of them wins.
ResultKept == \A t \in Tasks : disk[t].state \in Terminals => disk'[t].state = disk[t].state
ResultIsFinal == [][ResultKept]_vars

\* No retry is left to the service: a lab is cleaned up again only on request,
\* and a job that never reached the worker is settled only by "resources".
NeedsOperator(t) == task[t].cleanup = "required" /\ (t \in Labs \/ wjob[t] = "none")

\* A queued task gets its turn, or an operator is needed: whoever held the slot
\* ended, was observed clean and gave it up, once and to nobody else.
QueueProgress ==
    \A t \in Tasks :
        (up = "up" /\ task[t].state = "queued")
            ~> (task[t].state # "queued" \/ up # "up" \/ closed \/ \E u \in Tasks : NeedsOperator(u))

\* "Resource release frees the execution slot" (README.md): a task does not keep
\* the slot once its resources are released.  This does not hold of the code when
\* nix_job_recover completes a cleanup during recovery: a known deviation, which
\* no run checks.
ReleaseFreesSlot ==
    \A t \in Tasks :
        (up = "up" /\ active = t /\ Terminal(t) /\ task[t].cleanup = "complete")
            ~> (active # t \/ up # "up" \/ closed)

-----------------------------------------------------------------------------
(* The inductive invariant behind the safety properties.                   *)

\* The goroutine of t may still ask its backend for resources.
MayAcquire(t) ==
    /\ exec[t] \in {"dispatch", "start", "wait"} /\ ~Over(t)
    /\ t \in Jobs => wjob[t] = "none"

\* Nobody runs a lab at the worker; a task that has not started has nothing;
\* a result on disk is the one in memory.
RecordsAgree ==
    \A t \in Tasks :
        /\ t \in Labs => wjob[t] = "none"
        /\ \A r \in {task[t], disk[t]} :
            r.state \in {"none", "queued"} => r.cleanup = "pending" /\ ~r.dispatched
        /\ up # "down" /\ disk[t].state \in Terminals => task[t].state = disk[t].state
        /\ up = "down" => task[t].state = "none"
        /\ up # "down" /\ disk[t].state # "none" => task[t].state # "none"

\* Goroutines, cleanups and observers belong to tasks in the matching state.
ActorsMatch ==
    \A t \in Tasks :
        /\ exec[t] # "none" => up = "up" /\ task[t].state \notin {"none", "queued"}
        /\ holder[t] = "exec" => exec[t] = "cleanup"
        /\ exec[t] \in {"start", "wait"} /\ ~Over(t) => task[t].dispatched /\ disk[t].dispatched
        /\ exec[t] = "cleanup" \/ api[t] # "none" \/ obs[t] # "none" => Terminal(t)
        /\ rel[t] # "none" => Terminal(t) /\ t \in over
        /\ t \in todo => up = "recovering" /\ task[t].state # "none"
        /\ obs[t] # "none" => t \in Jobs

\* The task that recovery cleans up has ended, and it is the one of its cleanup.
CurrentEnded ==
    /\ up # "recovering" => rec = "next"
    /\ rec # "next" => \A t \in Earliest(todo) : Terminal(t)
    /\ \A t \in Tasks : holder[t] = "recovery" => rec = "cleanup" /\ t \in Earliest(todo)

\* An answer that reports a release is still true when it is applied.
AnswersHold ==
    \A t \in Tasks :
        /\ obs[t] = "released" => wjob[t] \in {"clean", "never"}
        /\ rel[t] = "released" => t \notin vms /\ (t \in Jobs => wjob[t] \in {"clean", "never"})

\* Who may acquire holds the slot, alone.
SlotIsHeld ==
    \A t \in Tasks : MayAcquire(t) =>
        /\ active = t /\ pick = None
        /\ task[t].cleanup # "complete" /\ disk[t].cleanup # "complete"
        /\ \A u \in Tasks : Physical(u) => u = t

\* What exists keeps the slot from the next task: it holds it, or has ended and
\* will be passed the slot; in recovery it is still to be cleaned up, or a
\* cleanup has failed.
SlotIsKept ==
    \A t \in Tasks : Physical(t) =>
        /\ up = "up" => active = t \/ (Terminal(t) /\ active # None)
        /\ up = "up" => pick = None
        /\ up = "recovering" => t \in todo \/ (Terminal(t) /\ blocked # None)

\* The picked task keeps the slot while it is queued, and nobody picks in recovery.
PickIsHeld ==
    /\ up # "up" => pick = None
    /\ pick # None => task[pick].state # "none"
    /\ pick # None /\ task[pick].state = "queued" => active = pick

IInv ==
    /\ Inv
    /\ RecordsAgree /\ ActorsMatch /\ CurrentEnded /\ AnswersHold
    /\ SlotIsHeld /\ SlotIsKept /\ PickIsHeld

=============================================================================
