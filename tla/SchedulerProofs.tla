-------------------------- MODULE SchedulerProofs --------------------------
(***************************************************************************)
(* Proofs about the controller's execution slot (Scheduler), for any       *)
(* number of labs, Nix jobs and crashes.                                   *)
(*                                                                         *)
(* The argument: who may still acquire resources holds the slot alone      *)
(* (SlotIsHeld), and what has resources keeps the slot from the others, by *)
(* holding it, by being next to hold it, or in recovery by being still to  *)
(* be cleaned up (SlotIsKept).  Both rest on the agreement of memory, rows *)
(* and goroutines (RecordsAgree, ActorsMatch, CurrentEnded) and on answers *)
(* that stay true while they are on their way (AnswersHold).  The lemmas   *)
(* *Effect say what an action does; after them there is one lemma for each *)
(* part of the invariant.                                                  *)
(***************************************************************************)
EXTENDS Scheduler, TLAPS

-----------------------------------------------------------------------------
(* Operators.                                                              *)

\* The first task of S in the queue is a task of S, and the only one.
LEMMA EarliestIsOne ==
  ASSUME queue \in Seq(Tasks), NEW S
  PROVE  /\ Earliest(S) \subseteq S
         /\ \A t, u \in Earliest(S) : t = u
  <1>1. Earliest(S) \subseteq S
    BY DEF Earliest
  <1>2. ASSUME NEW t \in Earliest(S), NEW u \in Earliest(S) PROVE t = u
    <2>1. PICK i \in DOMAIN queue : queue[i] = t /\ \A k \in 1 .. i - 1 : queue[k] \notin S
      BY DEF Earliest
    <2>2. PICK j \in DOMAIN queue : queue[j] = u /\ \A k \in 1 .. j - 1 : queue[k] \notin S
      BY DEF Earliest
    <2>3. i \in Nat \ {0} /\ j \in Nat \ {0}
      BY <2>1, <2>2
    <2>4. i = j
      BY <1>1, <2>1, <2>2, <2>3
    <2> QED BY <2>1, <2>2, <2>4
  <1> QED BY <1>1, <1>2

\* Which task is first depends on the queue and on what is to be done only.
LEMMA EarliestKept == ASSUME UNCHANGED <<queue, todo>> PROVE Earliest(todo)' = Earliest(todo)
  BY DEF Earliest

\* A new task at the end of the queue does not change which one is first.
LEMMA EarliestAppended ==
  ASSUME queue \in Seq(Tasks), NEW t \in Tasks, t \notin todo,
         queue' = Append(queue, t), UNCHANGED todo
  PROVE  Earliest(todo)' = Earliest(todo)
  <1>1. /\ DOMAIN queue = 1 .. Len(queue) /\ Len(queue) \in Nat
        /\ DOMAIN queue' = 1 .. Len(queue) + 1
        /\ queue'[Len(queue) + 1] = t
        /\ \A i \in 1 .. Len(queue) : queue'[i] = queue[i]
    OBVIOUS
  <1> QED BY <1>1 DEF Earliest

-----------------------------------------------------------------------------
(* Writes.                                                                 *)

\* The record of t is written; a failed write closes the service.
Saved(t) ==
    /\ task' \in [Tasks -> Records] /\ disk' \in [Tasks -> Records] /\ closed' \in BOOLEAN
    /\ \A u \in Tasks \ {t} : task'[u] = task[u] /\ disk'[u] = disk[u]
    /\ disk'[t] = task'[t] \/ (disk'[t] = disk[t] /\ closed')
    /\ closed => closed'

\* persist writes one record, or closes the service.
LEMMA SaveEffect ==
  ASSUME TypeOK, NEW t \in Tasks, NEW r \in Records, Save(t, r)
  PROVE  Saved(t) /\ task'[t] = r
  BY SchedulerAssumption, ZenonT(60) DEF TypeOK, Save, Saved

States == {"none", "queued", "preparing", "running"} \cup Terminals
Cleanups == {"pending", "running", "required", "complete"}

\* persist of a record whose state, ...
LEMMA SaveState ==
  ASSUME TypeOK, NEW t \in Tasks, NEW s \in States, Save(t, [task[t] EXCEPT !.state = s])
  PROVE  /\ Saved(t) /\ task'[t].state = s
         /\ task'[t].cleanup = task[t].cleanup /\ task'[t].dispatched = task[t].dispatched
  <1>1. task[t] \in Records
    BY DEF TypeOK
  <1>2. [task[t] EXCEPT !.state = s] \in Records
    BY <1>1 DEF Records, States
  <1>3. Saved(t) /\ task'[t] = [task[t] EXCEPT !.state = s]
    BY <1>2, SaveEffect
  <1> QED BY <1>1, <1>3 DEF Records

\* ... whose cleanup, ...
LEMMA SaveCleanup ==
  ASSUME TypeOK, NEW t \in Tasks, NEW c \in Cleanups, Save(t, [task[t] EXCEPT !.cleanup = c])
  PROVE  /\ Saved(t) /\ task'[t].cleanup = c
         /\ task'[t].state = task[t].state /\ task'[t].dispatched = task[t].dispatched
  <1>1. task[t] \in Records
    BY DEF TypeOK
  <1>2. [task[t] EXCEPT !.cleanup = c] \in Records
    BY <1>1 DEF Records, Cleanups
  <1>3. Saved(t) /\ task'[t] = [task[t] EXCEPT !.cleanup = c]
    BY <1>2, SaveEffect
  <1> QED BY <1>1, <1>3 DEF Records

\* ... or whose dispatch has changed, ...
LEMMA SaveDispatched ==
  ASSUME TypeOK, NEW t \in Tasks, Save(t, [task[t] EXCEPT !.dispatched = TRUE])
  PROVE  /\ Saved(t) /\ task'[t].dispatched
         /\ task'[t].state = task[t].state /\ task'[t].cleanup = task[t].cleanup
  <1>1. task[t] \in Records
    BY DEF TypeOK
  <1>2. [task[t] EXCEPT !.dispatched = TRUE] \in Records
    BY <1>1 DEF Records
  <1>3. Saved(t) /\ task'[t] = [task[t] EXCEPT !.dispatched = TRUE]
    BY <1>2, SaveEffect
  <1> QED BY <1>1, <1>3 DEF Records

\* ... of one that ended without anything to release, ...
LEMMA SaveClean ==
  ASSUME TypeOK, NEW t \in Tasks, NEW s \in States,
         Save(t, [task[t] EXCEPT !.state = s, !.cleanup = "complete"])
  PROVE  /\ Saved(t) /\ task'[t].state = s
         /\ task'[t].cleanup = "complete" /\ task'[t].dispatched = task[t].dispatched
  <1>1. task[t] \in Records
    BY DEF TypeOK
  <1>2. [task[t] EXCEPT !.state = s, !.cleanup = "complete"] \in Records
    BY <1>1 DEF Records, States
  <1>3. Saved(t) /\ task'[t] = [task[t] EXCEPT !.state = s, !.cleanup = "complete"]
    BY <1>2, SaveEffect
  <1> QED BY <1>1, <1>3 DEF Records

\* ... and of one that is as it was.
LEMMA SaveSame ==
  ASSUME TypeOK, NEW t \in Tasks, Save(t, task[t])
  PROVE  Saved(t) /\ task'[t] = task[t]
  BY SaveEffect DEF TypeOK

\* What the actions write.
LEMMA StartEffect ==
  ASSUME TypeOK, NEW t \in Tasks, Start(t), task[t].state = "queued"
  PROVE  /\ Saved(t) /\ task'[t].state = "preparing"
         /\ task'[t].cleanup = task[t].cleanup /\ task'[t].dispatched = task[t].dispatched
         /\ up = "up" /\ pick = t /\ pick' = None
         /\ exec' = [exec EXCEPT ![t] = "dispatch"] /\ over' = over \ {t}
         /\ UNCHANGED <<queue, active, up, todo, rec, blocked, api, holder, rel, obs, world>>
  BY SaveState DEF Start, States

\* A start that is refused gives the slot up.
LEMMA RefuseEffect ==
  ASSUME TypeOK, NEW t \in Tasks, Refuse(t)
  PROVE  /\ Saved(t) /\ task'[t].dispatched = task[t].dispatched
         /\ \/ task'[t] = task[t]
            \/ /\ t \in Jobs /\ task[t].state = "queued"
               /\ task'[t].state = "done" /\ task'[t].cleanup = "complete"
         /\ up = "up" /\ pick = t /\ pick' = None /\ active' = None
         /\ UNCHANGED <<queue, up, todo, rec, blocked, exec, over, api, holder, rel, obs, world>>
  BY SaveSame, SaveClean DEF Refuse, States, Terminals

\* The dispatch is on record before the call is made.
LEMMA DispatchEffect ==
  ASSUME TypeOK, NEW t \in Tasks, Dispatch(t)
  PROVE  /\ up # "down" /\ exec[t] = "dispatch"
         /\ \/ /\ Saved(t) /\ task'[t].dispatched
               /\ task'[t].state = task[t].state /\ task'[t].cleanup = task[t].cleanup
               /\ exec' = [exec EXCEPT ![t] = "start"] /\ UNCHANGED over
            \/ /\ task' \in [Tasks -> Records] /\ task'[t].dispatched
               /\ task'[t].state = task[t].state /\ task'[t].cleanup = task[t].cleanup
               /\ \A u \in Tasks \ {t} : task'[u] = task[u]
               /\ exec' = [exec EXCEPT ![t] = "wait"] /\ over' = over \cup {t}
               /\ UNCHANGED <<disk, closed>>
            \/ /\ Over(t)
               /\ exec' = [exec EXCEPT ![t] = "wait"] /\ UNCHANGED <<task, disk, closed, over>>
         /\ UNCHANGED <<queue, active, up, pick, todo, rec, blocked, api, holder, rel, obs, world>>
  <1>1. CASE Save(t, [task[t] EXCEPT !.dispatched = TRUE]) /\ exec' = [exec EXCEPT ![t] = "start"] /\ UNCHANGED over
    BY <1>1, SaveDispatched DEF Dispatch
  <1>2. CASE /\ task' = [task EXCEPT ![t].dispatched = TRUE]
             /\ exec' = [exec EXCEPT ![t] = "wait"] /\ over' = over \cup {t}
             /\ UNCHANGED <<disk, closed>>
    <2>1. task[t] \in Records /\ task \in [Tasks -> Records]
      BY DEF TypeOK
    <2>2. [task[t] EXCEPT !.dispatched = TRUE] \in Records
      BY <2>1 DEF Records
    <2>3. task' = [task EXCEPT ![t] = [task[t] EXCEPT !.dispatched = TRUE]]
      BY <1>2
    <2>4. task' \in [Tasks -> Records] /\ task'[t] = [task[t] EXCEPT !.dispatched = TRUE]
      BY <2>1, <2>2, <2>3
    <2>5. \A u \in Tasks \ {t} : task'[u] = task[u]
      BY <2>1, <2>3
    <2>6. /\ task'[t].dispatched
          /\ task'[t].state = task[t].state /\ task'[t].cleanup = task[t].cleanup
      BY <2>1, <2>4 DEF Records
    <2> QED BY <1>2, <2>4, <2>5, <2>6 DEF Dispatch
  <1>3. CASE Over(t) /\ exec' = [exec EXCEPT ![t] = "wait"] /\ UNCHANGED <<task, disk, closed, over>>
    BY <1>3 DEF Dispatch
  <1> QED BY <1>1, <1>2, <1>3 DEF Dispatch

\* A start call that failed ends the execution.
LEMMA CallFailedEffect ==
  ASSUME TypeOK, NEW t \in Tasks, CallFailed(t)
  PROVE  /\ Saved(t) /\ task'[t].state \in Terminals
         /\ Terminal(t) => task'[t].state = task[t].state
         /\ task'[t].cleanup = task[t].cleanup /\ task'[t].dispatched = task[t].dispatched
         /\ up # "down" /\ exec[t] = "wait"
         /\ exec' = [exec EXCEPT ![t] = "cleanup"] /\ over' = over \cup {t}
         /\ UNCHANGED <<queue, active, up, pick, todo, rec, blocked, api, holder, rel, obs, world>>
  <1>1. CASE Terminal(t)
    BY <1>1, SaveSame DEF CallFailed, Terminal
  <1>2. CASE ~Terminal(t) /\ closed
    BY <1>2, SaveState DEF CallFailed, States, Terminals
  <1>3. CASE ~Terminal(t) /\ ~closed
    BY <1>3, SaveState DEF CallFailed, States, Terminals
  <1> QED BY <1>1, <1>2, <1>3

\* A lab is prepared, or the worker has accepted the job.
LEMMA CallReturnedEffect ==
  ASSUME TypeOK, NEW t \in Tasks, CallReturned(t)
  PROVE  /\ Saved(t)
         /\ \/ task'[t].state = task[t].state
            \/ task[t].state = "preparing" /\ task'[t].state = "running"
         /\ task'[t].cleanup = task[t].cleanup /\ task'[t].dispatched = task[t].dispatched
         /\ up # "down" /\ exec[t] = "wait"
         /\ (t \in vms /\ ~Over(t)) \/ wjob[t] \in {"running", "clean"}
         /\ exec' = [exec EXCEPT ![t] = "observe"]
         /\ UNCHANGED <<queue, active, up, pick, todo, rec, blocked, over, api, holder, rel, obs, world>>
  <1>1. CASE task[t].state = "preparing"
    BY <1>1, SaveState DEF CallReturned, States
  <1>2. CASE task[t].state # "preparing"
    BY <1>2, SaveSame DEF CallReturned
  <1> QED BY <1>1, <1>2

\* A result is recorded once.
LEMMA ResultEffect ==
  ASSUME TypeOK, NEW t \in Tasks, Result(t)
  PROVE  /\ Saved(t) /\ ~Terminal(t) /\ task'[t].state \in Terminals
         /\ exec[t] # "none"
         /\ task'[t].cleanup = task[t].cleanup /\ task'[t].dispatched = task[t].dispatched
         /\ up # "down" /\ over' = over \cup {t}
         /\ UNCHANGED <<queue, active, up, pick, todo, rec, blocked, exec, api, holder, rel, obs, world>>
  <1>1. PICK s \in {"done", "interrupted"} : Save(t, [task[t] EXCEPT !.state = s])
    BY DEF Result
  <1> QED BY <1>1, SaveState DEF Result, States, Terminals

\* lab_finish ends a running lab.
LEMMA FinishEffect ==
  ASSUME TypeOK, NEW t \in Tasks, Finish(t)
  PROVE  /\ Saved(t) /\ task'[t].state = "done"
         /\ task'[t].cleanup = task[t].cleanup /\ task'[t].dispatched = task[t].dispatched
         /\ up # "down" /\ t \in Labs /\ task[t].state = "running" /\ over' = over \cup {t}
         /\ UNCHANGED <<queue, active, up, pick, todo, rec, blocked, exec, api, holder, rel, obs, world>>
  BY SaveState DEF Finish, States, Terminals

\* lab_cancel and nix_job_cancel.
LEMMA CancelEffect ==
  ASSUME TypeOK, NEW t \in Tasks, Cancel(t)
  PROVE  /\ Saved(t) /\ task'[t].state = "stopped" /\ task'[t].dispatched = task[t].dispatched
         /\ task[t].state \in {"queued", "preparing", "running"}
         /\ \/ task'[t].cleanup = task[t].cleanup
            \/ task[t].state = "queued" /\ task'[t].cleanup = "complete"
         /\ up # "down" /\ (over' = over \cup {t} \/ (UNCHANGED over /\ task[t].state = "queued"))
         /\ api' = [api EXCEPT ![t] = "background"] \/ UNCHANGED api
         /\ UNCHANGED <<queue, active, up, pick, todo, rec, blocked, exec, holder, rel, obs, world>>
  <1>1. CASE Save(t, [task[t] EXCEPT !.state = "stopped"])
    BY <1>1, SaveState DEF Cancel, States, Terminals
  <1>2. CASE task[t].state = "queued" /\ Save(t, [[task[t] EXCEPT !.state = "stopped"] EXCEPT !.cleanup = "complete"])
    <2>1. [[task[t] EXCEPT !.state = "stopped"] EXCEPT !.cleanup = "complete"]
            = [task[t] EXCEPT !.state = "stopped", !.cleanup = "complete"]
      BY DEF TypeOK, Records
    <2> QED BY <1>2, <2>1, SaveClean DEF Cancel, States, Terminals
  <1> QED BY <1>1, <1>2 DEF Cancel

\* The deadline of an execution has passed.
LEMMA DeadlineEffect ==
  ASSUME TypeOK, NEW t \in Tasks, Deadline(t)
  PROVE  /\ Saved(t) /\ task'[t].state = "stopped"
         /\ task'[t].cleanup = task[t].cleanup /\ task'[t].dispatched = task[t].dispatched
         /\ up # "down" /\ exec[t] # "none" /\ task[t].state \in {"preparing", "running"}
         /\ UNCHANGED <<queue, active, up, pick, todo, rec, blocked, exec, over, api, holder, rel, obs, world>>
  BY SaveState DEF Deadline, States, Terminals

\* A job that was never dispatched has nothing to release.
LEMMA NothingToReleaseEffect ==
  ASSUME TypeOK, NEW t \in Tasks, NEW by, NothingToRelease(t, by)
  PROVE  /\ Saved(t) /\ task'[t].cleanup = "complete"
         /\ task'[t].state = task[t].state /\ task'[t].dispatched = task[t].dispatched
         /\ up # "down" /\ t \in Jobs /\ ~task[t].dispatched /\ Caller(t, by) /\ holder[t] = "none"
         /\ over' = over \cup {t} /\ ReleaseScheduler(t) /\ Return(t, by)
         /\ UNCHANGED <<queue, up, pick, todo, blocked, holder, rel, obs, world>>
  BY SaveCleanup DEF NothingToRelease, Cleanups

\* A cleanup is on record before its call is made.
LEMMA CleanupBeginsEffect ==
  ASSUME TypeOK, NEW t \in Tasks, NEW by, CleanupBegins(t, by)
  PROVE  /\ Saved(t) /\ task'[t].cleanup = "running"
         /\ task'[t].state = task[t].state /\ task'[t].dispatched = task[t].dispatched
         /\ up # "down" /\ Caller(t, by) /\ holder[t] = "none"
         /\ over' = over \cup {t}
         /\ holder' = [holder EXCEPT ![t] = by] /\ rel' = [rel EXCEPT ![t] = "rpc"]
         /\ UNCHANGED <<queue, active, up, pick, todo, rec, blocked, exec, api, obs, world>>
  BY SaveCleanup DEF CleanupBegins, Cleanups

\* The answer of a cleanup is applied.
LEMMA CleanupApplyEffect ==
  ASSUME TypeOK, NEW t \in Tasks, CleanupApply(t)
  PROVE  /\ Saved(t)
         /\ task'[t].cleanup = IF rel[t] = "released" THEN "complete" ELSE "required"
         /\ task'[t].state = task[t].state /\ task'[t].dispatched = task[t].dispatched
         /\ up # "down" /\ rel[t] \in {"released", "blocked"}
         /\ ReleaseScheduler(t) \/ UNCHANGED active
         /\ Return(t, holder[t])
         /\ holder' = [holder EXCEPT ![t] = "none"] /\ rel' = [rel EXCEPT ![t] = "none"]
         /\ UNCHANGED <<queue, up, pick, todo, blocked, over, obs, world>>
  <1>1. CASE rel[t] = "released"
    BY <1>1, SaveCleanup DEF CleanupApply, Cleanups
  <1>2. CASE rel[t] # "released"
    BY <1>2, SaveCleanup DEF CleanupApply, Cleanups
  <1> QED BY <1>1, <1>2

\* The answer of the Nix observer is applied.
LEMMA ObserveApplyEffect ==
  ASSUME TypeOK, NEW t \in Tasks, ObserveApply(t)
  PROVE  /\ \/ task[t].cleanup = "complete" /\ UNCHANGED <<task, disk, closed, active>>
            \/ /\ Saved(t)
               /\ task'[t].cleanup = "complete" => obs[t] = "released"
               /\ task'[t].state = task[t].state /\ task'[t].dispatched = task[t].dispatched
               /\ ReleaseScheduler(t)
         /\ up # "down" /\ obs[t] # "none" /\ obs' = [obs EXCEPT ![t] = "none"]
         /\ UNCHANGED <<queue, up, pick, todo, rec, blocked, exec, over, api, holder, rel, world>>
  <1>1. CASE task[t].cleanup = "complete"
    BY <1>1 DEF ObserveApply
  <1>2. CASE task[t].cleanup # "complete"
    <2> DEFINE c == CASE obs[t] = "released" -> "complete" [] obs[t] = "held" -> "running" [] OTHER -> "required"
    <2>1. c \in Cleanups /\ (c = "complete" => obs[t] = "released")
      BY DEF Cleanups
    <2>2. Save(t, [task[t] EXCEPT !.cleanup = c]) /\ ReleaseScheduler(t)
      BY <1>2 DEF ObserveApply
    <2> HIDE DEF c
    <2> QED BY <2>1, <2>2, SaveCleanup DEF ObserveApply
  <1> QED BY <1>1, <1>2

\* Recovery takes up the next execution.
LEMMA RecoverNextEffect ==
  ASSUME TypeOK, RecoverNext
  PROVE  /\ \E t \in Earliest(todo) :
               /\ t \in Tasks /\ Saved(t) /\ active' = t
               /\ task'[t].state \in Terminals
               /\ Terminal(t) => task'[t].state = task[t].state
               /\ task'[t].cleanup = task[t].cleanup /\ task'[t].dispatched = task[t].dispatched
         /\ up = "recovering" /\ rec = "next" /\ rec' = "cleanup"
         /\ UNCHANGED <<queue, up, pick, todo, blocked, exec, over, api, holder, rel, obs, world>>
  <1>1. PICK t \in Earliest(todo) :
            /\ Save(t, IF Terminal(t) THEN task[t] ELSE [task[t] EXCEPT !.state = "interrupted"])
            /\ active' = t
    BY DEF RecoverNext
  <1>2. t \in Tasks
    BY EarliestIsOne DEF TypeOK
  <1>3. /\ up = "recovering" /\ rec = "next" /\ rec' = "cleanup"
        /\ UNCHANGED <<queue, up, pick, todo, blocked, exec, over, api, holder, rel, obs, world>>
    BY DEF RecoverNext
  <1>4. CASE Terminal(t)
    BY <1>1, <1>2, <1>3, <1>4, SaveSame DEF Terminal
  <1>5. CASE ~Terminal(t)
    BY <1>1, <1>2, <1>3, <1>5, SaveState DEF States, Terminals
  <1> QED BY <1>4, <1>5

\* A new execution enters the queue.
LEMMA SubmitEffect ==
  ASSUME TypeOK, NEW t \in Tasks, Submit(t)
  PROVE  /\ task' \in [Tasks -> Records] /\ disk' \in [Tasks -> Records]
         /\ task[t].state = "none" /\ disk[t].state = "none"
         /\ task'[t].state = "queued" /\ task'[t].cleanup = "pending" /\ ~task'[t].dispatched
         /\ disk'[t] = task'[t]
         /\ \A u \in Tasks \ {t} : task'[u] = task[u] /\ disk'[u] = disk[u]
         /\ up # "down" /\ queue' = Append(queue, t)
         /\ UNCHANGED <<active, up, closed, pick, todo, rec, blocked, exec, over, api, holder, rel, obs, world>>
  <1>1. /\ task \in [Tasks -> Records] /\ disk \in [Tasks -> Records]
        /\ [NoTask EXCEPT !.state = "queued"] \in Records
    BY DEF TypeOK, Records, NoTask
  <1>2. /\ task' = [task EXCEPT ![t] = [task[t] EXCEPT !.state = "queued"]]
        /\ disk' = [disk EXCEPT ![t] = [disk[t] EXCEPT !.state = "queued"]]
    BY DEF Submit
  <1>3. task[t] = NoTask /\ disk[t] = NoTask
    BY DEF Submit
  <1>4. /\ task' = [task EXCEPT ![t] = [NoTask EXCEPT !.state = "queued"]]
        /\ disk' = [disk EXCEPT ![t] = [NoTask EXCEPT !.state = "queued"]]
    BY <1>2, <1>3
  <1>5. /\ task' \in [Tasks -> Records] /\ disk' \in [Tasks -> Records]
        /\ task'[t] = [NoTask EXCEPT !.state = "queued"] /\ disk'[t] = task'[t]
        /\ \A u \in Tasks \ {t} : task'[u] = task[u] /\ disk'[u] = disk[u]
    BY <1>1, <1>4
  <1>6. /\ task[t].state = "none" /\ disk[t].state = "none"
        /\ task'[t].state = "queued" /\ task'[t].cleanup = "pending" /\ ~task'[t].dispatched
    BY <1>3, <1>5 DEF NoTask
  <1> QED BY <1>5, <1>6 DEF Submit

\* A cleanup is called only for a task that has ended.
LEMMA CallerEnded ==
  ASSUME TypeOK, ActorsMatch, CurrentEnded, NEW t \in Tasks, NEW by, Caller(t, by) PROVE Terminal(t)
  BY DEF TypeOK, ActorsMatch, CurrentEnded, Caller

\* A cleanup that returns moves its caller on, and nobody else.
LEMMA ReturnEffect ==
  ASSUME TypeOK, NEW t \in Tasks, NEW by, Return(t, by)
  PROVE  /\ exec' = exec \/ (by = "exec" /\ exec' = [exec EXCEPT ![t] = "release"])
         /\ rec' = rec \/ (by = "recovery" /\ rec' = "returned")
         /\ \A u \in Tasks : api'[u] = api[u] \/ api'[u] = "none" \/ api[u] = "cleanup"
  BY DEF TypeOK, Return

\* releaseScheduler() frees the slot only when nothing that ended is unclean.
LEMMA ReleaseEffect ==
  ASSUME TypeOK, NEW t \in Tasks, ReleaseScheduler(t)
  PROVE  \/ UNCHANGED active
         \/ /\ active = t /\ task'[t].cleanup = "complete" /\ active' \in Tasks \cup {None}
            /\ active' = None =>
                 \A u \in Tasks : task'[u].state \in Terminals => task'[u].cleanup = "complete"
  <1>1. CASE active # t \/ task'[t].cleanup # "complete"
    BY <1>1 DEF ReleaseScheduler
  <1>2. CASE active = t /\ task'[t].cleanup = "complete"
    <2>1. CASE Unclean' = {}
      <3>1. \A u \in Tasks : task'[u].state \in Terminals => task'[u].cleanup = "complete"
        BY <2>1 DEF Unclean, Terminal
      <3> QED BY <1>2, <2>1, <3>1 DEF ReleaseScheduler
    <2>2. CASE Unclean' # {}
      <3>1. active' \in Earliest(Unclean')
        BY <1>2, <2>2 DEF ReleaseScheduler
      <3>2. Unclean' \subseteq Tasks
        BY DEF Unclean
      <3>3. active' \in Tasks
        BY <3>1, <3>2, EarliestIsOne DEF TypeOK
      <3> QED BY <1>2, <3>3, SchedulerAssumption
    <2> QED BY <2>1, <2>2
  <1> QED BY <1>1, <1>2

\* Every step keeps the types.
LEMMA NextType == ASSUME TypeOK, [Next]_vars PROVE TypeOK'
  <1> USE SchedulerAssumption DEF TypeOK, world
  <1>1. ASSUME NEW t \in Tasks, Submit(t) PROVE TypeOK'
    <2>1. queue \in Seq(Tasks) /\ queue' = Append(queue, t)
      BY <1>1, SubmitEffect
    <2>2. queue' \in Seq(Tasks)
      BY <2>1
    <2> QED BY <1>1, <2>2, SubmitEffect
  <1>2. ASSUME NEW t \in Tasks, Start(t) PROVE TypeOK'
    BY <1>2, StartEffect DEF Start, Saved
  <1>3. ASSUME NEW t \in Tasks, Refuse(t) PROVE TypeOK'
    BY <1>3, RefuseEffect DEF Saved
  <1>4. ASSUME NEW t \in Tasks, Dispatch(t) PROVE TypeOK'
    BY <1>4, DispatchEffect DEF Saved
  <1>5. ASSUME NEW t \in Tasks, Call(t) PROVE TypeOK'
    BY <1>5 DEF Call
  <1>6. ASSUME NEW t \in Tasks, CallFailed(t) PROVE TypeOK'
    BY <1>6, CallFailedEffect, ZenonT(60) DEF CallFailed, Saved
  <1>7. ASSUME NEW t \in Tasks, CallReturned(t) PROVE TypeOK'
    BY <1>7, CallReturnedEffect DEF CallReturned, Saved
  <1>8. ASSUME NEW t \in Tasks, Create(t) PROVE TypeOK'
    BY <1>8 DEF Create, server
  <1>9. ASSUME NEW t \in Tasks, Result(t) PROVE TypeOK'
    BY <1>9, ResultEffect DEF Result, Saved
  <1>10. ASSUME NEW t \in Tasks, ObserveEnds(t) PROVE TypeOK'
    BY <1>10 DEF ObserveEnds
  <1>11. ASSUME NEW t \in Tasks, ExecRelease(t) PROVE TypeOK'
    BY <1>11, ReleaseEffect DEF ExecRelease
  <1>12. ASSUME NEW t \in Tasks, Finish(t) PROVE TypeOK'
    BY <1>12, FinishEffect DEF Finish, Saved
  <1>13. ASSUME NEW t \in Tasks, Cancel(t) PROVE TypeOK'
    BY <1>13, CancelEffect DEF Saved
  <1>14. ASSUME NEW t \in Tasks, Deadline(t) PROVE TypeOK'
    BY <1>14, DeadlineEffect DEF Deadline, Saved
  <1>15. ASSUME NEW t \in Tasks, DeadlineCancels(t) PROVE TypeOK'
    BY <1>15 DEF DeadlineCancels
  <1>16. ASSUME NEW t \in Tasks, Recover(t) PROVE TypeOK'
    BY <1>16, EarliestIsOne DEF Recover
  <1>17. ASSUME NEW t \in Tasks, NEW by \in {"exec", "recovery", "api"}, CleanupReturns(t, by) PROVE TypeOK'
    BY <1>17 DEF CleanupReturns, Return
  <1>18. ASSUME NEW t \in Tasks, NEW by \in {"exec", "recovery", "api"}, NothingToRelease(t, by) PROVE TypeOK'
    <2>1. active' \in Tasks \cup {None}
      BY <1>18, NothingToReleaseEffect, ReleaseEffect
    <2>2. /\ exec' \in [Tasks -> {"none", "dispatch", "start", "wait", "observe", "cleanup", "release"}]
          /\ rec' \in {"next", "cleanup", "returned"}
          /\ api' \in [Tasks -> {"none", "cleanup", "background", "release"}]
      BY <1>18, NothingToReleaseEffect DEF Return
    <2> QED BY <1>18, <2>1, <2>2, NothingToReleaseEffect DEF Saved
  <1>19. ASSUME NEW t \in Tasks, NEW by \in {"exec", "recovery", "api"}, CleanupBegins(t, by) PROVE TypeOK'
    BY <1>19, CleanupBeginsEffect DEF Saved
  <1>20. ASSUME NEW t \in Tasks, CleanupAnswer(t) PROVE TypeOK'
    BY <1>20 DEF CleanupAnswer, Resources
  <1>21. ASSUME NEW t \in Tasks, CleanupApply(t) PROVE TypeOK'
    BY <1>21, CleanupApplyEffect, ReleaseEffect, SMTT(30) DEF Saved, Return
  <1>22. ASSUME NEW t \in Tasks, ApiRelease(t) PROVE TypeOK'
    BY <1>22, ReleaseEffect DEF ApiRelease
  <1>23. ASSUME NEW t \in Tasks, Observe(t) PROVE TypeOK'
    BY <1>23 DEF Observe
  <1>24. ASSUME NEW t \in Tasks, ObserveAnswer(t) PROVE TypeOK'
    BY <1>24 DEF ObserveAnswer
  <1>25. ASSUME NEW t \in Tasks, ObserveApply(t) PROVE TypeOK'
    BY <1>25, ObserveApplyEffect, ReleaseEffect DEF Saved
  <1>26. ASSUME NEW t \in Tasks, WorkerStart(t) PROVE TypeOK'
    BY <1>26 DEF WorkerStart, server
  <1>27. ASSUME NEW t \in Tasks, WorkerClean(t) PROVE TypeOK'
    BY <1>27 DEF WorkerClean, server
  <1>28. CASE Pick
    BY <1>28, EarliestIsOne DEF Pick, Queued
  <1>29. CASE Close
    BY <1>29 DEF Close
  <1>30. CASE Crash
    <2>1. NoTask \in Records
      BY DEF NoTask, Records
    <2>2. crashes' \in 0 .. Crashes
      BY <1>30 DEF Crash
    <2>3. task' \in [Tasks -> Records] /\ disk' \in [Tasks -> Records]
      BY <1>30, <2>1 DEF Crash
    <2>4. /\ exec' \in [Tasks -> {"none", "dispatch", "start", "wait", "observe", "cleanup", "release"}]
          /\ api' \in [Tasks -> {"none", "cleanup", "background", "release"}]
          /\ holder' \in [Tasks -> {"none", "exec", "recovery", "api"}]
          /\ rel' \in [Tasks -> {"none", "rpc", "released", "blocked"}]
          /\ obs' \in [Tasks -> {"none", "rpc", "released", "held", "blocked"}]
      BY <1>30 DEF Crash
    <2> QED BY <1>30, <2>2, <2>3, <2>4 DEF Crash
  <1>31. CASE Restart
    BY <1>31 DEF Restart
  <1>32. CASE RecoverNext
    BY <1>32, RecoverNextEffect DEF Saved
  <1>33. CASE RecoverReturned
    BY <1>33, EarliestIsOne DEF RecoverReturned
  <1>34. CASE RecoverDone
    BY <1>34 DEF RecoverDone
  <1>35. CASE UNCHANGED vars
    BY <1>35 DEF vars, server, world
  <1> HIDE DEF TypeOK, world
  <1> QED
    BY <1>1, <1>2, <1>3, <1>4, <1>5, <1>6, <1>7, <1>8, <1>9, <1>10, <1>11, <1>12, <1>13, <1>14, <1>15, <1>16, <1>17, <1>18, <1>19, <1>20, <1>21, <1>22, <1>23, <1>24, <1>25, <1>26, <1>27, <1>28, <1>29, <1>30, <1>31, <1>32, <1>33, <1>34, <1>35 DEF Next

\* Records in memory and rows stay in step.
LEMMA SavedAgrees ==
  ASSUME TypeOK, RecordsAgree, NEW t \in Tasks, Saved(t), up # "down", UNCHANGED <<up, wjob>>,
         task'[t].state \in {"none", "queued"} => task'[t].cleanup = "pending" /\ ~task'[t].dispatched,
         Terminal(t) => task'[t].state = task[t].state,
         task[t].state # "none" => task'[t].state # "none"
  PROVE  RecordsAgree'
  <1> DEFINE Agrees(u) ==
        /\ u \in Labs => wjob[u] = "none"
        /\ \A r \in {task[u], disk[u]} :
            r.state \in {"none", "queued"} => r.cleanup = "pending" /\ ~r.dispatched
        /\ up # "down" /\ disk[u].state \in Terminals => task[u].state = disk[u].state
        /\ up = "down" => task[u].state = "none"
        /\ up # "down" /\ disk[u].state # "none" => task[u].state # "none"
  <1>1. ASSUME NEW u \in Tasks, u # t PROVE Agrees(u)'
    <2>1. task'[u] = task[u] /\ disk'[u] = disk[u] /\ wjob'[u] = wjob[u]
      BY <1>1 DEF Saved
    <2>2. Agrees(u)
      BY DEF RecordsAgree
    <2> QED BY <2>1, <2>2
  <1>2. Agrees(t)'
    <2>1. Agrees(t)
      BY DEF RecordsAgree
    <2>2. CASE disk'[t] = task'[t]
      BY <2>1, <2>2
    <2>3. CASE disk'[t] = disk[t]
      BY <2>1, <2>3 DEF Terminal
    <2> QED BY <2>2, <2>3 DEF Saved
  <1> HIDE DEF Agrees
  <1>3. \A u \in Tasks : Agrees(u)'
    BY <1>1, <1>2
  <1> QED BY ONLY <1>3 DEF RecordsAgree, Agrees

\* Every step keeps memory and rows in agreement.
LEMMA NextRecords ==
  ASSUME TypeOK, RecordsAgree, ActorsMatch, CurrentEnded, [Next]_vars PROVE RecordsAgree'
  <1> USE SchedulerAssumption
  <1>1. ASSUME NEW t \in Tasks, Submit(t) PROVE RecordsAgree'
    <2>1. Saved(t)
      BY <1>1, SubmitEffect DEF Saved, TypeOK
    <2> QED BY <1>1, <2>1, SavedAgrees, SubmitEffect DEF Terminal, Terminals, world
  <1>2. ASSUME NEW t \in Tasks, Start(t) PROVE RecordsAgree'
    <2>1. CASE task[t].state = "queued"
      BY <1>2, <2>1, SavedAgrees, StartEffect DEF RecordsAgree, Terminal, Terminals, world
    <2>2. CASE task[t].state # "queued"
      BY <1>2, <2>2 DEF Start, RecordsAgree, world
    <2> QED BY <2>1, <2>2
  <1>3. ASSUME NEW t \in Tasks, Refuse(t) PROVE RecordsAgree'
    BY <1>3, SavedAgrees, RefuseEffect DEF TypeOK, RecordsAgree, ActorsMatch, Terminal, Terminals, world
  <1>4. ASSUME NEW t \in Tasks, Dispatch(t) PROVE RecordsAgree'
    <2>1. task[t].state \notin {"none", "queued"}
      BY <1>4, DispatchEffect DEF ActorsMatch
    <2>2. CASE Saved(t)
      BY <1>4, <2>1, <2>2, SavedAgrees, DispatchEffect DEF Terminal, world
    <2>3. CASE ~Saved(t)
      BY <1>4, <2>1, <2>3, DispatchEffect DEF TypeOK, RecordsAgree, world
    <2> QED BY <2>2, <2>3
  <1>5. ASSUME NEW t \in Tasks, Call(t) PROVE RecordsAgree'
    BY <1>5 DEF Call, TypeOK, RecordsAgree, Terminals, world
  <1>6. ASSUME NEW t \in Tasks, CallFailed(t) PROVE RecordsAgree'
    BY <1>6, SavedAgrees, CallFailedEffect DEF TypeOK, RecordsAgree, ActorsMatch, Terminal, Terminals, world
  <1>7. ASSUME NEW t \in Tasks, CallReturned(t) PROVE RecordsAgree'
    BY <1>7, SavedAgrees, CallReturnedEffect, SMTT(30) DEF TypeOK, RecordsAgree, ActorsMatch, Terminal, Terminals, world
  <1>8. ASSUME NEW t \in Tasks, Create(t) PROVE RecordsAgree'
    BY <1>8 DEF Create, server, TypeOK, RecordsAgree, Terminals, world
  <1>9. ASSUME NEW t \in Tasks, Result(t) PROVE RecordsAgree'
    BY <1>9, SavedAgrees, ResultEffect DEF TypeOK, RecordsAgree, ActorsMatch, Terminal, Terminals, world
  <1>10. ASSUME NEW t \in Tasks, ObserveEnds(t) PROVE RecordsAgree'
    BY <1>10 DEF ObserveEnds, TypeOK, RecordsAgree, Terminals, world
  <1>11. ASSUME NEW t \in Tasks, ExecRelease(t) PROVE RecordsAgree'
    BY <1>11 DEF ExecRelease, TypeOK, RecordsAgree, Terminals, world
  <1>12. ASSUME NEW t \in Tasks, Finish(t) PROVE RecordsAgree'
    BY <1>12, SavedAgrees, FinishEffect DEF TypeOK, RecordsAgree, ActorsMatch, Terminal, Terminals, world
  <1>13. ASSUME NEW t \in Tasks, Cancel(t) PROVE RecordsAgree'
    BY <1>13, SavedAgrees, CancelEffect DEF TypeOK, RecordsAgree, ActorsMatch, Terminal, Terminals, world
  <1>14. ASSUME NEW t \in Tasks, Deadline(t) PROVE RecordsAgree'
    BY <1>14, SavedAgrees, DeadlineEffect DEF TypeOK, RecordsAgree, ActorsMatch, Terminal, Terminals, world
  <1>15. ASSUME NEW t \in Tasks, DeadlineCancels(t) PROVE RecordsAgree'
    BY <1>15 DEF DeadlineCancels, TypeOK, RecordsAgree, Terminals, world
  <1>16. ASSUME NEW t \in Tasks, Recover(t) PROVE RecordsAgree'
    BY <1>16 DEF Recover, TypeOK, RecordsAgree, Terminals, world
  <1>17. ASSUME NEW t \in Tasks, NEW by \in {"exec", "recovery", "api"}, CleanupReturns(t, by) PROVE RecordsAgree'
    BY <1>17 DEF CleanupReturns, RecordsAgree, world
  <1>18. ASSUME NEW t \in Tasks, NEW by \in {"exec", "recovery", "api"}, NothingToRelease(t, by) PROVE RecordsAgree'
    <2>1. Terminal(t)
      BY <1>18, NothingToReleaseEffect, CallerEnded
    <2> QED BY <1>18, <2>1, SavedAgrees, NothingToReleaseEffect DEF Terminal, Terminals, world
  <1>19. ASSUME NEW t \in Tasks, NEW by \in {"exec", "recovery", "api"}, CleanupBegins(t, by) PROVE RecordsAgree'
    <2>1. Terminal(t)
      BY <1>19, CleanupBeginsEffect, CallerEnded
    <2> QED BY <1>19, <2>1, SavedAgrees, CleanupBeginsEffect DEF Terminal, Terminals, world
  <1>20. ASSUME NEW t \in Tasks, CleanupAnswer(t) PROVE RecordsAgree'
    BY <1>20 DEF CleanupAnswer, Resources, TypeOK, RecordsAgree, Terminals, world
  <1>21. ASSUME NEW t \in Tasks, CleanupApply(t) PROVE RecordsAgree'
    BY <1>21, SavedAgrees, CleanupApplyEffect DEF TypeOK, RecordsAgree, ActorsMatch, Terminal, Terminals, world
  <1>22. ASSUME NEW t \in Tasks, ApiRelease(t) PROVE RecordsAgree'
    BY <1>22 DEF ApiRelease, TypeOK, RecordsAgree, Terminals, world
  <1>23. ASSUME NEW t \in Tasks, Observe(t) PROVE RecordsAgree'
    BY <1>23 DEF Observe, TypeOK, RecordsAgree, Terminals, world
  <1>24. ASSUME NEW t \in Tasks, ObserveAnswer(t) PROVE RecordsAgree'
    BY <1>24 DEF ObserveAnswer, TypeOK, RecordsAgree, Terminals, world
  <1>25. ASSUME NEW t \in Tasks, ObserveApply(t) PROVE RecordsAgree'
    <2>1. Terminal(t)
      BY <1>25, ObserveApplyEffect DEF ActorsMatch
    <2>2. CASE Saved(t)
      BY <1>25, <2>1, <2>2, SavedAgrees, ObserveApplyEffect DEF Terminal, Terminals, world
    <2>3. CASE ~Saved(t)
      BY <1>25, <2>3, ObserveApplyEffect DEF RecordsAgree, world
    <2> QED BY <2>2, <2>3
  <1>26. ASSUME NEW t \in Tasks, WorkerStart(t) PROVE RecordsAgree'
    BY <1>26, NextType DEF WorkerStart, server, TypeOK, RecordsAgree, Terminals, world
  <1>27. ASSUME NEW t \in Tasks, WorkerClean(t) PROVE RecordsAgree'
    BY <1>27 DEF WorkerClean, server, TypeOK, RecordsAgree, Terminals, world
  <1>28. CASE Pick
    BY <1>28 DEF Pick, TypeOK, RecordsAgree, Terminals, world
  <1>29. CASE Close
    BY <1>29 DEF Close, TypeOK, RecordsAgree, Terminals, world
  <1>30. CASE Crash
    BY <1>30 DEF Crash, NoTask, TypeOK, RecordsAgree, Terminals, world
  <1>31. CASE Restart
    BY <1>31, NextType DEF Restart, TypeOK, RecordsAgree, Terminals, world
  <1>32. CASE RecoverNext
    <2>1. PICK t \in Tasks : /\ Saved(t) /\ task'[t].state \in Terminals
                             /\ Terminal(t) => task'[t].state = task[t].state
      BY <1>32, RecoverNextEffect
    <2>2. up # "down" /\ UNCHANGED <<up, wjob>>
      BY <1>32, RecoverNextEffect DEF world
    <2> QED BY <2>1, <2>2, SavedAgrees DEF Terminals
  <1>33. CASE RecoverReturned
    BY <1>33 DEF RecoverReturned, TypeOK, RecordsAgree, Terminals, world
  <1>34. CASE RecoverDone
    BY <1>34 DEF RecoverDone, TypeOK, RecordsAgree, Terminals, world
  <1>35. CASE UNCHANGED vars
    BY <1>35 DEF vars, server, world, RecordsAgree
  <1> QED
    BY <1>1, <1>2, <1>3, <1>4, <1>5, <1>6, <1>7, <1>8, <1>9, <1>10, <1>11, <1>12, <1>13, <1>14, <1>15, <1>16, <1>17, <1>18, <1>19, <1>20, <1>21, <1>22, <1>23, <1>24, <1>25, <1>26, <1>27, <1>28, <1>29, <1>30, <1>31, <1>32, <1>33, <1>34, <1>35 DEF Next

\* Goroutines, cleanups and observers keep to tasks in the matching state.
LEMMA NextActors ==
  ASSUME TypeOK, RecordsAgree, ActorsMatch, CurrentEnded, [Next]_vars PROVE ActorsMatch'
  <1> USE SchedulerAssumption, NextType DEF TypeOK, RecordsAgree, ActorsMatch, Terminals, Terminal, Over, world
  <1>1. ASSUME NEW t \in Tasks, Submit(t) PROVE ActorsMatch'
    BY <1>1, SubmitEffect DEF Saved
  <1>2. ASSUME NEW t \in Tasks, Start(t) PROVE ActorsMatch'
    BY <1>2, StartEffect DEF Start, Saved
  <1>3. ASSUME NEW t \in Tasks, Refuse(t) PROVE ActorsMatch'
    BY <1>3, RefuseEffect DEF Saved
  <1>4. ASSUME NEW t \in Tasks, Dispatch(t) PROVE ActorsMatch'
    BY <1>4, DispatchEffect DEF Saved
  <1>5. ASSUME NEW t \in Tasks, Call(t) PROVE ActorsMatch'
    BY <1>5 DEF Call
  <1>6. ASSUME NEW t \in Tasks, CallFailed(t) PROVE ActorsMatch'
    BY <1>6, CallFailedEffect DEF Saved
  <1>7. ASSUME NEW t \in Tasks, CallReturned(t) PROVE ActorsMatch'
    BY <1>7, CallReturnedEffect, SMTT(30) DEF Saved
  <1>8. ASSUME NEW t \in Tasks, Create(t) PROVE ActorsMatch'
    BY <1>8 DEF Create, server
  <1>9. ASSUME NEW t \in Tasks, Result(t) PROVE ActorsMatch'
    BY <1>9, ResultEffect DEF Saved
  <1>10. ASSUME NEW t \in Tasks, ObserveEnds(t) PROVE ActorsMatch'
    BY <1>10 DEF ObserveEnds
  <1>11. ASSUME NEW t \in Tasks, ExecRelease(t) PROVE ActorsMatch'
    BY <1>11 DEF ExecRelease
  <1>12. ASSUME NEW t \in Tasks, Finish(t) PROVE ActorsMatch'
    BY <1>12, FinishEffect DEF Saved
  <1>13. ASSUME NEW t \in Tasks, Cancel(t) PROVE ActorsMatch'
    BY <1>13, CancelEffect DEF Saved
  <1>14. ASSUME NEW t \in Tasks, Deadline(t) PROVE ActorsMatch'
    BY <1>14, DeadlineEffect DEF Saved
  <1>15. ASSUME NEW t \in Tasks, DeadlineCancels(t) PROVE ActorsMatch'
    BY <1>15 DEF DeadlineCancels
  <1>16. ASSUME NEW t \in Tasks, Recover(t) PROVE ActorsMatch'
    BY <1>16 DEF Recover
  <1>17. ASSUME NEW t \in Tasks, NEW by \in {"exec", "recovery", "api"}, CleanupReturns(t, by) PROVE ActorsMatch'
    BY <1>17, ReturnEffect DEF CleanupReturns, Caller
  <1>18. ASSUME NEW t \in Tasks, NEW by \in {"exec", "recovery", "api"}, NothingToRelease(t, by) PROVE ActorsMatch'
    <2>1. Terminal(t) /\ (by = "exec" => exec[t] = "cleanup")
      BY <1>18, NothingToReleaseEffect, CallerEnded DEF Caller
    <2>2. /\ exec' = exec \/ (by = "exec" /\ exec' = [exec EXCEPT ![t] = "release"])
          /\ \A u \in Tasks : api'[u] = api[u] \/ api'[u] = "none" \/ api[u] = "cleanup"
      BY <1>18, NothingToReleaseEffect, ReturnEffect
    <2>3. CASE exec' = exec
      BY <1>18, <2>1, <2>2, <2>3, NothingToReleaseEffect DEF Saved
    <2>4. CASE by = "exec" /\ exec' = [exec EXCEPT ![t] = "release"]
      BY <1>18, <2>1, <2>2, <2>4, NothingToReleaseEffect DEF Saved
    <2> QED BY <2>2, <2>3, <2>4
  <1>19. ASSUME NEW t \in Tasks, NEW by \in {"exec", "recovery", "api"}, CleanupBegins(t, by) PROVE ActorsMatch'
    <2>1. Terminal(t) /\ (by = "exec" => exec[t] = "cleanup")
      BY <1>19, CleanupBeginsEffect, CallerEnded DEF Caller
    <2> QED BY <1>19, <2>1, CleanupBeginsEffect DEF Saved
  <1>20. ASSUME NEW t \in Tasks, CleanupAnswer(t) PROVE ActorsMatch'
    BY <1>20 DEF CleanupAnswer, Resources
  <1>21. ASSUME NEW t \in Tasks, CleanupApply(t) PROVE ActorsMatch'
    BY <1>21, CleanupApplyEffect, ReturnEffect DEF Saved
  <1>22. ASSUME NEW t \in Tasks, ApiRelease(t) PROVE ActorsMatch'
    BY <1>22 DEF ApiRelease
  <1>23. ASSUME NEW t \in Tasks, Observe(t) PROVE ActorsMatch'
    BY <1>23 DEF Observe
  <1>24. ASSUME NEW t \in Tasks, ObserveAnswer(t) PROVE ActorsMatch'
    BY <1>24 DEF ObserveAnswer
  <1>25. ASSUME NEW t \in Tasks, ObserveApply(t) PROVE ActorsMatch'
    BY <1>25, ObserveApplyEffect DEF Saved
  <1>26. ASSUME NEW t \in Tasks, WorkerStart(t) PROVE ActorsMatch'
    BY <1>26 DEF WorkerStart, server
  <1>27. ASSUME NEW t \in Tasks, WorkerClean(t) PROVE ActorsMatch'
    BY <1>27 DEF WorkerClean, server
  <1>28. CASE Pick
    BY <1>28 DEF Pick
  <1>29. CASE Close
    BY <1>29 DEF Close
  <1>30. CASE Crash
    BY <1>30 DEF Crash, NoTask
  <1>31. CASE Restart
    BY <1>31 DEF Restart
  <1>32. CASE RecoverNext
    BY <1>32, RecoverNextEffect DEF Saved
  <1>33. CASE RecoverReturned
    BY <1>33, EarliestIsOne DEF RecoverReturned
  <1>34. CASE RecoverDone
    BY <1>34 DEF RecoverDone
  <1>35. CASE UNCHANGED vars
    BY <1>35 DEF vars, server, world
  <1> HIDE DEF TypeOK, RecordsAgree, ActorsMatch, Terminals, Terminal, Over, world
  <1> QED
    BY <1>1, <1>2, <1>3, <1>4, <1>5, <1>6, <1>7, <1>8, <1>9, <1>10, <1>11, <1>12, <1>13, <1>14, <1>15, <1>16, <1>17, <1>18, <1>19, <1>20, <1>21, <1>22, <1>23, <1>24, <1>25, <1>26, <1>27, <1>28, <1>29, <1>30, <1>31, <1>32, <1>33, <1>34, <1>35 DEF Next

\* An answer that reports a release stays true until it is applied.
LEMMA NextAnswers ==
  ASSUME TypeOK, RecordsAgree, ActorsMatch, AnswersHold, [Next]_vars PROVE AnswersHold'
  <1> USE SchedulerAssumption DEF TypeOK, RecordsAgree, ActorsMatch, AnswersHold, Over, world
  <1>1. ASSUME NEW t \in Tasks, Submit(t) PROVE AnswersHold'
    BY <1>1, SubmitEffect DEF Saved
  <1>2. ASSUME NEW t \in Tasks, Start(t) PROVE AnswersHold'
    BY <1>2, StartEffect DEF Start, Saved
  <1>3. ASSUME NEW t \in Tasks, Refuse(t) PROVE AnswersHold'
    BY <1>3, RefuseEffect DEF Saved
  <1>4. ASSUME NEW t \in Tasks, Dispatch(t) PROVE AnswersHold'
    BY <1>4, DispatchEffect DEF Saved
  <1>5. ASSUME NEW t \in Tasks, Call(t) PROVE AnswersHold'
    BY <1>5 DEF Call
  <1>6. ASSUME NEW t \in Tasks, CallFailed(t) PROVE AnswersHold'
    BY <1>6, CallFailedEffect DEF Saved
  <1>7. ASSUME NEW t \in Tasks, CallReturned(t) PROVE AnswersHold'
    BY <1>7, CallReturnedEffect DEF Saved
  <1>8. ASSUME NEW t \in Tasks, Create(t) PROVE AnswersHold'
    BY <1>8 DEF Create, server
  <1>9. ASSUME NEW t \in Tasks, Result(t) PROVE AnswersHold'
    BY <1>9, ResultEffect DEF Saved
  <1>10. ASSUME NEW t \in Tasks, ObserveEnds(t) PROVE AnswersHold'
    BY <1>10 DEF ObserveEnds
  <1>11. ASSUME NEW t \in Tasks, ExecRelease(t) PROVE AnswersHold'
    BY <1>11 DEF ExecRelease
  <1>12. ASSUME NEW t \in Tasks, Finish(t) PROVE AnswersHold'
    BY <1>12, FinishEffect DEF Saved
  <1>13. ASSUME NEW t \in Tasks, Cancel(t) PROVE AnswersHold'
    BY <1>13, CancelEffect DEF Saved
  <1>14. ASSUME NEW t \in Tasks, Deadline(t) PROVE AnswersHold'
    BY <1>14, DeadlineEffect DEF Saved
  <1>15. ASSUME NEW t \in Tasks, DeadlineCancels(t) PROVE AnswersHold'
    BY <1>15 DEF DeadlineCancels
  <1>16. ASSUME NEW t \in Tasks, Recover(t) PROVE AnswersHold'
    BY <1>16 DEF Recover
  <1>17. ASSUME NEW t \in Tasks, NEW by \in {"exec", "recovery", "api"}, CleanupReturns(t, by) PROVE AnswersHold'
    BY <1>17, ReturnEffect DEF CleanupReturns
  <1>18. ASSUME NEW t \in Tasks, NEW by \in {"exec", "recovery", "api"}, NothingToRelease(t, by) PROVE AnswersHold'
    BY <1>18, NothingToReleaseEffect, ReturnEffect DEF Saved
  <1>19. ASSUME NEW t \in Tasks, NEW by \in {"exec", "recovery", "api"}, CleanupBegins(t, by) PROVE AnswersHold'
    BY <1>19, CleanupBeginsEffect DEF Saved
  <1>20. ASSUME NEW t \in Tasks, CleanupAnswer(t) PROVE AnswersHold'
    BY <1>20 DEF CleanupAnswer, Resources
  <1>21. ASSUME NEW t \in Tasks, CleanupApply(t) PROVE AnswersHold'
    BY <1>21, CleanupApplyEffect, ReturnEffect DEF Saved
  <1>22. ASSUME NEW t \in Tasks, ApiRelease(t) PROVE AnswersHold'
    BY <1>22 DEF ApiRelease
  <1>23. ASSUME NEW t \in Tasks, Observe(t) PROVE AnswersHold'
    BY <1>23 DEF Observe
  <1>24. ASSUME NEW t \in Tasks, ObserveAnswer(t) PROVE AnswersHold'
    BY <1>24 DEF ObserveAnswer
  <1>25. ASSUME NEW t \in Tasks, ObserveApply(t) PROVE AnswersHold'
    BY <1>25, ObserveApplyEffect DEF Saved
  <1>26. ASSUME NEW t \in Tasks, WorkerStart(t) PROVE AnswersHold'
    BY <1>26 DEF WorkerStart, server
  <1>27. ASSUME NEW t \in Tasks, WorkerClean(t) PROVE AnswersHold'
    BY <1>27 DEF WorkerClean, server
  <1>28. CASE Pick
    BY <1>28 DEF Pick
  <1>29. CASE Close
    BY <1>29 DEF Close
  <1>30. CASE Crash
    BY <1>30 DEF Crash, NoTask
  <1>31. CASE Restart
    BY <1>31 DEF Restart
  <1>32. CASE RecoverNext
    BY <1>32, RecoverNextEffect DEF Saved
  <1>33. CASE RecoverReturned
    BY <1>33 DEF RecoverReturned
  <1>34. CASE RecoverDone
    BY <1>34 DEF RecoverDone
  <1>35. CASE UNCHANGED vars
    BY <1>35 DEF vars, server, world
  <1> HIDE DEF TypeOK, RecordsAgree, ActorsMatch, AnswersHold, Over, world
  <1> QED
    BY <1>1, <1>2, <1>3, <1>4, <1>5, <1>6, <1>7, <1>8, <1>9, <1>10, <1>11, <1>12, <1>13, <1>14, <1>15, <1>16, <1>17, <1>18, <1>19, <1>20, <1>21, <1>22, <1>23, <1>24, <1>25, <1>26, <1>27, <1>28, <1>29, <1>30, <1>31, <1>32, <1>33, <1>34, <1>35 DEF Next

\* A result stays, until the service ends.
LEMMA EndedStays ==
  ASSUME TypeOK, RecordsAgree, [Next]_vars, NEW v \in Tasks, Terminal(v)
  PROVE  task'[v].state = task[v].state \/ Crash
  <1> DEFINE Kept == task'[v].state = task[v].state \/ Crash
  <1> SUFFICES Kept
    OBVIOUS
  <1> USE SchedulerAssumption
  <1>1. ASSUME NEW t \in Tasks, Submit(t) PROVE Kept
    BY <1>1, SubmitEffect DEF Saved, Terminal, Terminals
  <1>2. ASSUME NEW t \in Tasks, Start(t) PROVE Kept
    <2>1. CASE task[t].state = "queued"
      BY <1>2, <2>1, StartEffect DEF Saved, Terminal, Terminals
    <2>2. CASE task[t].state # "queued"
      BY <1>2, <2>2 DEF Start
    <2> QED BY <2>1, <2>2
  <1>3. ASSUME NEW t \in Tasks, Refuse(t) PROVE Kept
    BY <1>3, RefuseEffect DEF Saved, Terminal, Terminals
  <1>4. ASSUME NEW t \in Tasks, Dispatch(t) PROVE Kept
    BY <1>4, DispatchEffect DEF Saved, Terminal, Terminals
  <1>5. ASSUME NEW t \in Tasks, Call(t) PROVE Kept
    BY <1>5 DEF Call
  <1>6. ASSUME NEW t \in Tasks, CallFailed(t) PROVE Kept
    BY <1>6, CallFailedEffect DEF Saved, Terminal, Terminals
  <1>7. ASSUME NEW t \in Tasks, CallReturned(t) PROVE Kept
    BY <1>7, CallReturnedEffect DEF Saved, Terminal, Terminals
  <1>8. ASSUME NEW t \in Tasks, Create(t) PROVE Kept
    BY <1>8 DEF Create, server
  <1>9. ASSUME NEW t \in Tasks, Result(t) PROVE Kept
    BY <1>9, ResultEffect DEF Saved, Terminal, Terminals
  <1>10. ASSUME NEW t \in Tasks, ObserveEnds(t) PROVE Kept
    BY <1>10 DEF ObserveEnds
  <1>11. ASSUME NEW t \in Tasks, ExecRelease(t) PROVE Kept
    BY <1>11 DEF ExecRelease
  <1>12. ASSUME NEW t \in Tasks, Finish(t) PROVE Kept
    BY <1>12, FinishEffect DEF Saved, Terminal, Terminals
  <1>13. ASSUME NEW t \in Tasks, Cancel(t) PROVE Kept
    BY <1>13, CancelEffect DEF Saved, Terminal, Terminals
  <1>14. ASSUME NEW t \in Tasks, Deadline(t) PROVE Kept
    BY <1>14, DeadlineEffect DEF Saved, Terminal, Terminals
  <1>15. ASSUME NEW t \in Tasks, DeadlineCancels(t) PROVE Kept
    BY <1>15 DEF DeadlineCancels
  <1>16. ASSUME NEW t \in Tasks, Recover(t) PROVE Kept
    BY <1>16 DEF Recover
  <1>17. ASSUME NEW t \in Tasks, NEW by \in {"exec", "recovery", "api"}, CleanupReturns(t, by) PROVE Kept
    BY <1>17 DEF CleanupReturns
  <1>18. ASSUME NEW t \in Tasks, NEW by \in {"exec", "recovery", "api"}, NothingToRelease(t, by) PROVE Kept
    BY <1>18, NothingToReleaseEffect DEF Saved, Terminal, Terminals
  <1>19. ASSUME NEW t \in Tasks, NEW by \in {"exec", "recovery", "api"}, CleanupBegins(t, by) PROVE Kept
    BY <1>19, CleanupBeginsEffect DEF Saved, Terminal, Terminals
  <1>20. ASSUME NEW t \in Tasks, CleanupAnswer(t) PROVE Kept
    BY <1>20 DEF CleanupAnswer
  <1>21. ASSUME NEW t \in Tasks, CleanupApply(t) PROVE Kept
    BY <1>21, CleanupApplyEffect DEF Saved, Terminal, Terminals
  <1>22. ASSUME NEW t \in Tasks, ApiRelease(t) PROVE Kept
    BY <1>22 DEF ApiRelease
  <1>23. ASSUME NEW t \in Tasks, Observe(t) PROVE Kept
    BY <1>23 DEF Observe
  <1>24. ASSUME NEW t \in Tasks, ObserveAnswer(t) PROVE Kept
    BY <1>24 DEF ObserveAnswer
  <1>25. ASSUME NEW t \in Tasks, ObserveApply(t) PROVE Kept
    BY <1>25, ObserveApplyEffect DEF Saved, Terminal, Terminals
  <1>26. ASSUME NEW t \in Tasks, WorkerStart(t) PROVE Kept
    BY <1>26 DEF WorkerStart, server
  <1>27. ASSUME NEW t \in Tasks, WorkerClean(t) PROVE Kept
    BY <1>27 DEF WorkerClean, server
  <1>28. CASE Pick
    BY <1>28 DEF Pick
  <1>29. CASE Close
    BY <1>29 DEF Close
  <1>30. CASE Crash
    BY <1>30 DEF Crash
  <1>31. CASE Restart
    BY <1>31 DEF Restart, RecordsAgree, Terminal, Terminals
  <1>32. CASE RecoverNext
    BY <1>32, RecoverNextEffect DEF Saved, Terminal, Terminals
  <1>33. CASE RecoverReturned
    BY <1>33 DEF RecoverReturned
  <1>34. CASE RecoverDone
    BY <1>34 DEF RecoverDone
  <1>35. CASE UNCHANGED vars
    BY <1>35 DEF vars, server, world
  <1> QED
    BY <1>1, <1>2, <1>3, <1>4, <1>5, <1>6, <1>7, <1>8, <1>9, <1>10, <1>11, <1>12, <1>13, <1>14, <1>15, <1>16, <1>17, <1>18, <1>19, <1>20, <1>21, <1>22, <1>23, <1>24, <1>25, <1>26, <1>27, <1>28, <1>29, <1>30, <1>31, <1>32, <1>33, <1>34, <1>35 DEF Next

\* The task that recovery cleans up has ended.
LEMMA CurrentKept ==
  ASSUME TypeOK, CurrentEnded, Earliest(todo)' = Earliest(todo), rec' = rec, up' = up,
         \A u \in Tasks : Terminal(u) => task'[u].state \in Terminals,
         \A u \in Tasks : holder'[u] = "recovery" => holder[u] = "recovery"
  PROVE  CurrentEnded'
  BY EarliestIsOne DEF TypeOK, CurrentEnded, Terminal

\* What recovery cleans up has ended.
LEMMA NextCurrent ==
  ASSUME TypeOK, RecordsAgree, ActorsMatch, CurrentEnded, [Next]_vars PROVE CurrentEnded'
  <1>c. ASSUME Crash PROVE CurrentEnded'
    <2>1. rec' = "next" /\ \A t \in Tasks : holder'[t] = "none"
      BY <1>c DEF Crash
    <2> QED BY <2>1 DEF CurrentEnded
  <1> SUFFICES ASSUME ~Crash PROVE CurrentEnded'
    BY <1>c
  <1>a. \A u \in Tasks : Terminal(u) => task'[u].state \in Terminals
    BY EndedStays DEF Terminal
  <1>1. ASSUME NEW t \in Tasks, Submit(t) PROVE CurrentEnded'
    <2>1. rec' = rec /\ holder' = holder /\ up' = up /\ todo' = todo /\ queue' = Append(queue, t) /\ t \notin todo
      BY <1>1, SubmitEffect DEF ActorsMatch
    <2>2. Earliest(todo)' = Earliest(todo)
      BY <2>1, EarliestAppended DEF TypeOK
    <2> QED BY <2>1, <2>2, CurrentKept, <1>a
  <1>2. ASSUME NEW t \in Tasks, Start(t) PROVE CurrentEnded'
    <2>1. rec' = rec /\ holder' = holder /\ todo' = todo /\ queue' = queue /\ up' = up
      BY <1>2 DEF Start
    <2> QED BY <2>1, CurrentKept, EarliestKept, <1>a
  <1>3. ASSUME NEW t \in Tasks, Refuse(t) PROVE CurrentEnded'
    <2>1. rec' = rec /\ holder' = holder /\ todo' = todo /\ queue' = queue /\ up' = up
      BY <1>3, RefuseEffect
    <2> QED BY <2>1, CurrentKept, EarliestKept, <1>a
  <1>4. ASSUME NEW t \in Tasks, Dispatch(t) PROVE CurrentEnded'
    <2>1. rec' = rec /\ holder' = holder /\ todo' = todo /\ queue' = queue /\ up' = up
      BY <1>4, DispatchEffect
    <2> QED BY <2>1, CurrentKept, EarliestKept, <1>a
  <1>5. ASSUME NEW t \in Tasks, Call(t) PROVE CurrentEnded'
    <2>1. rec' = rec /\ holder' = holder /\ todo' = todo /\ queue' = queue /\ up' = up
      BY <1>5 DEF Call
    <2> QED BY <2>1, CurrentKept, EarliestKept, <1>a
  <1>6. ASSUME NEW t \in Tasks, CallFailed(t) PROVE CurrentEnded'
    <2>1. rec' = rec /\ holder' = holder /\ todo' = todo /\ queue' = queue /\ up' = up
      BY <1>6, CallFailedEffect
    <2> QED BY <2>1, CurrentKept, EarliestKept, <1>a
  <1>7. ASSUME NEW t \in Tasks, CallReturned(t) PROVE CurrentEnded'
    <2>1. rec' = rec /\ holder' = holder /\ todo' = todo /\ queue' = queue /\ up' = up
      BY <1>7, CallReturnedEffect
    <2> QED BY <2>1, CurrentKept, EarliestKept, <1>a
  <1>8. ASSUME NEW t \in Tasks, Create(t) PROVE CurrentEnded'
    <2>1. rec' = rec /\ holder' = holder /\ todo' = todo /\ queue' = queue /\ up' = up
      BY <1>8 DEF Create, server
    <2> QED BY <2>1, CurrentKept, EarliestKept, <1>a
  <1>9. ASSUME NEW t \in Tasks, Result(t) PROVE CurrentEnded'
    <2>1. rec' = rec /\ holder' = holder /\ todo' = todo /\ queue' = queue /\ up' = up
      BY <1>9, ResultEffect
    <2> QED BY <2>1, CurrentKept, EarliestKept, <1>a
  <1>10. ASSUME NEW t \in Tasks, ObserveEnds(t) PROVE CurrentEnded'
    <2>1. rec' = rec /\ holder' = holder /\ todo' = todo /\ queue' = queue /\ up' = up
      BY <1>10 DEF ObserveEnds
    <2> QED BY <2>1, CurrentKept, EarliestKept, <1>a
  <1>11. ASSUME NEW t \in Tasks, ExecRelease(t) PROVE CurrentEnded'
    <2>1. rec' = rec /\ holder' = holder /\ todo' = todo /\ queue' = queue /\ up' = up
      BY <1>11 DEF ExecRelease
    <2> QED BY <2>1, CurrentKept, EarliestKept, <1>a
  <1>12. ASSUME NEW t \in Tasks, Finish(t) PROVE CurrentEnded'
    <2>1. rec' = rec /\ holder' = holder /\ todo' = todo /\ queue' = queue /\ up' = up
      BY <1>12, FinishEffect
    <2> QED BY <2>1, CurrentKept, EarliestKept, <1>a
  <1>13. ASSUME NEW t \in Tasks, Cancel(t) PROVE CurrentEnded'
    <2>1. rec' = rec /\ holder' = holder /\ todo' = todo /\ queue' = queue /\ up' = up
      BY <1>13, CancelEffect
    <2> QED BY <2>1, CurrentKept, EarliestKept, <1>a
  <1>14. ASSUME NEW t \in Tasks, Deadline(t) PROVE CurrentEnded'
    <2>1. rec' = rec /\ holder' = holder /\ todo' = todo /\ queue' = queue /\ up' = up
      BY <1>14, DeadlineEffect
    <2> QED BY <2>1, CurrentKept, EarliestKept, <1>a
  <1>15. ASSUME NEW t \in Tasks, DeadlineCancels(t) PROVE CurrentEnded'
    <2>1. rec' = rec /\ holder' = holder /\ todo' = todo /\ queue' = queue /\ up' = up
      BY <1>15 DEF DeadlineCancels
    <2> QED BY <2>1, CurrentKept, EarliestKept, <1>a
  <1>16. ASSUME NEW t \in Tasks, Recover(t) PROVE CurrentEnded'
    <2>1. rec' = rec /\ holder' = holder /\ todo' = todo /\ queue' = queue /\ up' = up
      BY <1>16 DEF Recover
    <2> QED BY <2>1, CurrentKept, EarliestKept, <1>a
  <1>17. ASSUME NEW t \in Tasks, NEW by \in {"exec", "recovery", "api"}, CleanupReturns(t, by) PROVE CurrentEnded'
    <2>1. /\ holder' = holder /\ todo' = todo /\ queue' = queue /\ up' = up
          /\ rec' = rec \/ (by = "recovery" /\ rec' = "returned")
      BY <1>17, ReturnEffect DEF CleanupReturns
    <2>2. CASE rec' = rec
      BY <2>1, <2>2, CurrentKept, EarliestKept, <1>a
    <2>3. CASE by = "recovery" /\ rec' = "returned"
      <3>1. /\ Earliest(todo)' = Earliest(todo) /\ rec # "next" /\ t \in Earliest(todo)
            /\ holder[t] # "recovery"
        BY <1>17, <2>1, <2>3, EarliestKept DEF Caller, CleanupReturns
      <3>2. \A u \in Tasks : holder[u] # "recovery"
        BY <3>1, EarliestIsOne DEF TypeOK, CurrentEnded
      <3> QED BY <1>a, <2>1, <3>1, <3>2, EarliestIsOne DEF CurrentEnded, Terminal, TypeOK
    <2> QED BY <2>1, <2>2, <2>3
  <1>18. ASSUME NEW t \in Tasks, NEW by \in {"exec", "recovery", "api"}, NothingToRelease(t, by) PROVE CurrentEnded'
    <2>1. /\ holder' = holder /\ todo' = todo /\ queue' = queue /\ up' = up
          /\ rec' = rec \/ (by = "recovery" /\ rec' = "returned")
      BY <1>18, NothingToReleaseEffect, ReturnEffect
    <2>2. CASE rec' = rec
      BY <2>1, <2>2, CurrentKept, EarliestKept, <1>a
    <2>3. CASE by = "recovery" /\ rec' = "returned"
      <3>1. /\ Earliest(todo)' = Earliest(todo) /\ rec # "next" /\ t \in Earliest(todo)
            /\ holder[t] # "recovery"
        BY <1>18, <2>1, <2>3, EarliestKept, NothingToReleaseEffect DEF Caller
      <3>2. \A u \in Tasks : holder[u] # "recovery"
        BY <3>1, EarliestIsOne DEF TypeOK, CurrentEnded
      <3> QED BY <1>a, <2>1, <3>1, <3>2, EarliestIsOne DEF CurrentEnded, Terminal, TypeOK
    <2> QED BY <2>1, <2>2, <2>3
  <1>19. ASSUME NEW t \in Tasks, NEW by \in {"exec", "recovery", "api"}, CleanupBegins(t, by) PROVE CurrentEnded'
    <2>1. /\ rec' = rec /\ todo' = todo /\ queue' = queue /\ up' = up
          /\ holder' = [holder EXCEPT ![t] = by]
          /\ by = "recovery" => rec = "cleanup" /\ t \in Earliest(todo)
      BY <1>19, CleanupBeginsEffect DEF Caller
    <2>2. Earliest(todo)' = Earliest(todo)
      BY <2>1, EarliestKept
    <2> QED BY <1>a, <2>1, <2>2, EarliestIsOne DEF CurrentEnded, Terminal, TypeOK
  <1>20. ASSUME NEW t \in Tasks, CleanupAnswer(t) PROVE CurrentEnded'
    <2>1. rec' = rec /\ holder' = holder /\ todo' = todo /\ queue' = queue /\ up' = up
      BY <1>20 DEF CleanupAnswer
    <2> QED BY <2>1, CurrentKept, EarliestKept, <1>a
  <1>21. ASSUME NEW t \in Tasks, CleanupApply(t) PROVE CurrentEnded'
    <2>1. /\ holder' = [holder EXCEPT ![t] = "none"] /\ todo' = todo /\ queue' = queue /\ up' = up
          /\ rec' = rec \/ (holder[t] = "recovery" /\ rec' = "returned")
      BY <1>21, CleanupApplyEffect, ReturnEffect
    <2>2. Earliest(todo)' = Earliest(todo)
      BY <2>1, EarliestKept
    <2>3. CASE rec' = rec
      BY <1>a, <2>1, <2>2, <2>3, CurrentKept DEF TypeOK
    <2>4. CASE holder[t] = "recovery" /\ rec' = "returned"
      <3>1. rec # "next" /\ t \in Earliest(todo)
        BY <2>4 DEF CurrentEnded
      <3>2. \A u \in Tasks : holder'[u] # "recovery"
        BY <2>1, <3>1, EarliestIsOne DEF TypeOK, CurrentEnded
      <3> QED BY <1>a, <2>1, <2>2, <3>1, <3>2, EarliestIsOne DEF CurrentEnded, Terminal, TypeOK
    <2> QED BY <2>1, <2>3, <2>4
  <1>22. ASSUME NEW t \in Tasks, ApiRelease(t) PROVE CurrentEnded'
    <2>1. rec' = rec /\ holder' = holder /\ todo' = todo /\ queue' = queue /\ up' = up
      BY <1>22 DEF ApiRelease
    <2> QED BY <2>1, CurrentKept, EarliestKept, <1>a
  <1>23. ASSUME NEW t \in Tasks, Observe(t) PROVE CurrentEnded'
    <2>1. rec' = rec /\ holder' = holder /\ todo' = todo /\ queue' = queue /\ up' = up
      BY <1>23 DEF Observe
    <2> QED BY <2>1, CurrentKept, EarliestKept, <1>a
  <1>24. ASSUME NEW t \in Tasks, ObserveAnswer(t) PROVE CurrentEnded'
    <2>1. rec' = rec /\ holder' = holder /\ todo' = todo /\ queue' = queue /\ up' = up
      BY <1>24 DEF ObserveAnswer
    <2> QED BY <2>1, CurrentKept, EarliestKept, <1>a
  <1>25. ASSUME NEW t \in Tasks, ObserveApply(t) PROVE CurrentEnded'
    <2>1. rec' = rec /\ holder' = holder /\ todo' = todo /\ queue' = queue /\ up' = up
      BY <1>25, ObserveApplyEffect
    <2> QED BY <2>1, CurrentKept, EarliestKept, <1>a
  <1>26. ASSUME NEW t \in Tasks, WorkerStart(t) PROVE CurrentEnded'
    <2>1. rec' = rec /\ holder' = holder /\ todo' = todo /\ queue' = queue /\ up' = up
      BY <1>26 DEF WorkerStart, server
    <2> QED BY <2>1, CurrentKept, EarliestKept, <1>a
  <1>27. ASSUME NEW t \in Tasks, WorkerClean(t) PROVE CurrentEnded'
    <2>1. rec' = rec /\ holder' = holder /\ todo' = todo /\ queue' = queue /\ up' = up
      BY <1>27 DEF WorkerClean, server
    <2> QED BY <2>1, CurrentKept, EarliestKept, <1>a
  <1>28. CASE Pick
    <2>1. rec' = rec /\ holder' = holder /\ todo' = todo /\ queue' = queue /\ up' = up
      BY <1>28 DEF Pick
    <2> QED BY <2>1, CurrentKept, EarliestKept, <1>a
  <1>29. CASE Close
    <2>1. rec' = rec /\ holder' = holder /\ todo' = todo /\ queue' = queue /\ up' = up
      BY <1>29 DEF Close
    <2> QED BY <2>1, CurrentKept, EarliestKept, <1>a
  <1>30. CASE Crash
    BY <1>30
  <1>31. CASE Restart
    <2>1. \A t \in Tasks : t \notin todo
      BY <1>31 DEF Restart, ActorsMatch
    <2>2. \A t \in Tasks : holder[t] # "recovery"
      BY <2>1, EarliestIsOne DEF CurrentEnded, TypeOK
    <2>3. rec' = rec /\ holder' = holder /\ rec = "next"
      BY <1>31 DEF Restart, CurrentEnded
    <2> QED BY <2>2, <2>3 DEF CurrentEnded
  <1>32. CASE RecoverNext
    <2>1. PICK t \in Earliest(todo) : task'[t].state \in Terminals
      BY <1>32, RecoverNextEffect
    <2>2. /\ rec = "next" /\ Earliest(todo)' = Earliest(todo) /\ holder' = holder
          /\ up' = "recovering"
      BY <1>32, EarliestKept, RecoverNextEffect
    <2>3. \A u \in Tasks : holder'[u] # "recovery"
      BY <2>2 DEF CurrentEnded
    <2> QED BY <2>1, <2>2, <2>3, EarliestIsOne DEF CurrentEnded, Terminal, TypeOK
  <1>33. CASE RecoverReturned
    <2>1. rec = "returned" /\ rec' = "next" /\ holder' = holder
      BY <1>33 DEF RecoverReturned
    <2> QED BY <2>1 DEF CurrentEnded
  <1>34. CASE RecoverDone
    <2>1. rec = "next" /\ rec' = rec /\ holder' = holder
      BY <1>34 DEF RecoverDone
    <2> QED BY <2>1 DEF CurrentEnded
  <1>35. CASE UNCHANGED vars
    BY <1>35, <1>a, CurrentKept, EarliestKept DEF vars, server
  <1> QED
    BY <1>1, <1>2, <1>3, <1>4, <1>5, <1>6, <1>7, <1>8, <1>9, <1>10, <1>11, <1>12, <1>13, <1>14, <1>15, <1>16, <1>17, <1>18, <1>19, <1>20, <1>21, <1>22, <1>23, <1>24, <1>25, <1>26, <1>27, <1>28, <1>29, <1>30, <1>31, <1>32, <1>33, <1>34, <1>35 DEF Next

-----------------------------------------------------------------------------
(* The slot.                                                               *)

\* Resources come into being only for a task that may acquire them.
LEMMA PhysicalStep ==
  ASSUME TypeOK, [Next]_vars, NEW v \in Tasks, Physical(v)'
  PROVE  \/ Physical(v)
         \/ /\ MayAcquire(v) /\ exec[v] \in {"start", "wait"}
            /\ UNCHANGED <<task, disk, active, up, pick, todo, blocked>>
  <1> DEFINE Became == \/ Physical(v)
                       \/ /\ MayAcquire(v) /\ exec[v] \in {"start", "wait"}
                          /\ UNCHANGED <<task, disk, active, up, pick, todo, blocked>>
  <1> SUFFICES Became
    OBVIOUS
  <1> USE SchedulerAssumption
  <1>1. ASSUME NEW t \in Tasks, Submit(t) PROVE Became
    BY <1>1, SubmitEffect DEF world, Physical
  <1>2. ASSUME NEW t \in Tasks, Start(t) PROVE Became
    BY <1>2 DEF Start, world, Physical
  <1>3. ASSUME NEW t \in Tasks, Refuse(t) PROVE Became
    BY <1>3, RefuseEffect DEF world, Physical
  <1>4. ASSUME NEW t \in Tasks, Dispatch(t) PROVE Became
    BY <1>4, DispatchEffect DEF world, Physical
  <1>5. ASSUME NEW t \in Tasks, Call(t) PROVE Became
    BY <1>5 DEF Call, Physical, MayAcquire, TypeOK
  <1>6. ASSUME NEW t \in Tasks, CallFailed(t) PROVE Became
    BY <1>6, CallFailedEffect DEF world, Physical
  <1>7. ASSUME NEW t \in Tasks, CallReturned(t) PROVE Became
    BY <1>7, CallReturnedEffect DEF world, Physical
  <1>8. ASSUME NEW t \in Tasks, Create(t) PROVE Became
    BY <1>8 DEF Create, server, Physical, MayAcquire, TypeOK
  <1>9. ASSUME NEW t \in Tasks, Result(t) PROVE Became
    BY <1>9, ResultEffect DEF world, Physical
  <1>10. ASSUME NEW t \in Tasks, ObserveEnds(t) PROVE Became
    BY <1>10 DEF ObserveEnds, world, Physical
  <1>11. ASSUME NEW t \in Tasks, ExecRelease(t) PROVE Became
    BY <1>11 DEF ExecRelease, world, Physical
  <1>12. ASSUME NEW t \in Tasks, Finish(t) PROVE Became
    BY <1>12, FinishEffect DEF world, Physical
  <1>13. ASSUME NEW t \in Tasks, Cancel(t) PROVE Became
    BY <1>13, CancelEffect DEF world, Physical
  <1>14. ASSUME NEW t \in Tasks, Deadline(t) PROVE Became
    BY <1>14, DeadlineEffect DEF world, Physical
  <1>15. ASSUME NEW t \in Tasks, DeadlineCancels(t) PROVE Became
    BY <1>15 DEF DeadlineCancels, world, Physical
  <1>16. ASSUME NEW t \in Tasks, Recover(t) PROVE Became
    BY <1>16 DEF Recover, world, Physical
  <1>17. ASSUME NEW t \in Tasks, NEW by \in {"exec", "recovery", "api"}, CleanupReturns(t, by) PROVE Became
    BY <1>17 DEF CleanupReturns, world, Physical
  <1>18. ASSUME NEW t \in Tasks, NEW by \in {"exec", "recovery", "api"}, NothingToRelease(t, by) PROVE Became
    BY <1>18, NothingToReleaseEffect DEF world, Physical
  <1>19. ASSUME NEW t \in Tasks, NEW by \in {"exec", "recovery", "api"}, CleanupBegins(t, by) PROVE Became
    BY <1>19, CleanupBeginsEffect DEF world, Physical
  <1>20. ASSUME NEW t \in Tasks, CleanupAnswer(t) PROVE Became
    BY <1>20 DEF CleanupAnswer, Physical, MayAcquire, TypeOK, Resources
  <1>21. ASSUME NEW t \in Tasks, CleanupApply(t) PROVE Became
    BY <1>21, CleanupApplyEffect DEF world, Physical
  <1>22. ASSUME NEW t \in Tasks, ApiRelease(t) PROVE Became
    BY <1>22 DEF ApiRelease, world, Physical
  <1>23. ASSUME NEW t \in Tasks, Observe(t) PROVE Became
    BY <1>23 DEF Observe, world, Physical
  <1>24. ASSUME NEW t \in Tasks, ObserveAnswer(t) PROVE Became
    BY <1>24 DEF ObserveAnswer, world, Physical
  <1>25. ASSUME NEW t \in Tasks, ObserveApply(t) PROVE Became
    BY <1>25, ObserveApplyEffect DEF world, Physical
  <1>26. ASSUME NEW t \in Tasks, WorkerStart(t) PROVE Became
    BY <1>26 DEF WorkerStart, server, Physical, MayAcquire, TypeOK
  <1>27. ASSUME NEW t \in Tasks, WorkerClean(t) PROVE Became
    BY <1>27 DEF WorkerClean, server, Physical, MayAcquire, TypeOK
  <1>28. CASE Pick
    BY <1>28 DEF Pick, world, Physical
  <1>29. CASE Close
    BY <1>29 DEF Close, world, Physical
  <1>30. CASE Crash
    BY <1>30 DEF Crash, Physical
  <1>31. CASE Restart
    BY <1>31 DEF Restart, world, Physical
  <1>32. CASE RecoverNext
    BY <1>32, RecoverNextEffect DEF world, Physical
  <1>33. CASE RecoverReturned
    BY <1>33 DEF RecoverReturned, world, Physical
  <1>34. CASE RecoverDone
    BY <1>34 DEF RecoverDone, world, Physical
  <1>35. CASE UNCHANGED vars
    BY <1>35 DEF vars, server, world, Physical
  <1> QED
    BY <1>1, <1>2, <1>3, <1>4, <1>5, <1>6, <1>7, <1>8, <1>9, <1>10, <1>11, <1>12, <1>13, <1>14, <1>15, <1>16, <1>17, <1>18, <1>19, <1>20, <1>21, <1>22, <1>23, <1>24, <1>25, <1>26, <1>27, <1>28, <1>29, <1>30, <1>31, <1>32, <1>33, <1>34, <1>35 DEF Next

\* Only a start of the picked task makes a task that may acquire resources.
LEMMA AcquireStep ==
  ASSUME TypeOK, RecordsAgree, ActorsMatch, [Next]_vars, NEW v \in Tasks, MayAcquire(v)'
  PROVE  MayAcquire(v) \/ (Start(v) /\ task[v].state = "queued")
  <1> DEFINE Could == MayAcquire(v) \/ (Start(v) /\ task[v].state = "queued")
  <1> SUFFICES Could
    OBVIOUS
  <1> USE SchedulerAssumption
  <1>1. ASSUME NEW t \in Tasks, Submit(t) PROVE Could
    BY <1>1, SubmitEffect DEF Saved, world, MayAcquire, Over, TypeOK
  <1>2. ASSUME NEW t \in Tasks, Start(t) PROVE Could
    <2>1. CASE task[t].state = "queued"
      BY <1>2, <2>1, StartEffect DEF Saved, MayAcquire, Over, TypeOK, world
    <2>2. CASE task[t].state # "queued"
      BY <1>2, <2>2 DEF Start, MayAcquire, Over, world
    <2> QED BY <2>1, <2>2
  <1>3. ASSUME NEW t \in Tasks, Refuse(t) PROVE Could
    BY <1>3, RefuseEffect DEF Saved, world, MayAcquire, Over, TypeOK
  <1>4. ASSUME NEW t \in Tasks, Dispatch(t) PROVE Could
    BY <1>4, DispatchEffect DEF Saved, world, MayAcquire, Over, TypeOK
  <1>5. ASSUME NEW t \in Tasks, Call(t) PROVE Could
    BY <1>5 DEF Call, world, MayAcquire, Over, TypeOK
  <1>6. ASSUME NEW t \in Tasks, CallFailed(t) PROVE Could
    BY <1>6, CallFailedEffect DEF Saved, world, MayAcquire, Over, TypeOK
  <1>7. ASSUME NEW t \in Tasks, CallReturned(t) PROVE Could
    BY <1>7, CallReturnedEffect DEF Saved, world, MayAcquire, Over, TypeOK
  <1>8. ASSUME NEW t \in Tasks, Create(t) PROVE Could
    BY <1>8 DEF Create, server, MayAcquire, Over, TypeOK
  <1>9. ASSUME NEW t \in Tasks, Result(t) PROVE Could
    BY <1>9, ResultEffect DEF Saved, world, MayAcquire, Over, TypeOK
  <1>10. ASSUME NEW t \in Tasks, ObserveEnds(t) PROVE Could
    BY <1>10 DEF ObserveEnds, world, MayAcquire, Over, TypeOK
  <1>11. ASSUME NEW t \in Tasks, ExecRelease(t) PROVE Could
    BY <1>11 DEF ExecRelease, world, MayAcquire, Over, TypeOK
  <1>12. ASSUME NEW t \in Tasks, Finish(t) PROVE Could
    BY <1>12, FinishEffect DEF Saved, world, MayAcquire, Over, TypeOK
  <1>13. ASSUME NEW t \in Tasks, Cancel(t) PROVE Could
    BY <1>13, CancelEffect DEF Saved, world, MayAcquire, Over, TypeOK
  <1>14. ASSUME NEW t \in Tasks, Deadline(t) PROVE Could
    BY <1>14, DeadlineEffect DEF Saved, world, MayAcquire, Over, TypeOK
  <1>15. ASSUME NEW t \in Tasks, DeadlineCancels(t) PROVE Could
    BY <1>15 DEF DeadlineCancels, world, MayAcquire, Over, TypeOK
  <1>16. ASSUME NEW t \in Tasks, Recover(t) PROVE Could
    BY <1>16 DEF Recover, world, MayAcquire, Over, TypeOK
  <1>17. ASSUME NEW t \in Tasks, NEW by \in {"exec", "recovery", "api"}, CleanupReturns(t, by) PROVE Could
    BY <1>17, ReturnEffect DEF CleanupReturns, world, MayAcquire, Over, TypeOK
  <1>18. ASSUME NEW t \in Tasks, NEW by \in {"exec", "recovery", "api"}, NothingToRelease(t, by) PROVE Could
    BY <1>18, ReturnEffect, NothingToReleaseEffect DEF Saved, world, MayAcquire, Over, TypeOK
  <1>19. ASSUME NEW t \in Tasks, NEW by \in {"exec", "recovery", "api"}, CleanupBegins(t, by) PROVE Could
    BY <1>19, CleanupBeginsEffect DEF Saved, world, MayAcquire, Over, TypeOK
  <1>20. ASSUME NEW t \in Tasks, CleanupAnswer(t) PROVE Could
    BY <1>20 DEF CleanupAnswer, Resources, MayAcquire, Over, TypeOK
  <1>21. ASSUME NEW t \in Tasks, CleanupApply(t) PROVE Could
    BY <1>21, ReturnEffect, CleanupApplyEffect DEF Saved, world, MayAcquire, Over, TypeOK
  <1>22. ASSUME NEW t \in Tasks, ApiRelease(t) PROVE Could
    BY <1>22 DEF ApiRelease, world, MayAcquire, Over, TypeOK
  <1>23. ASSUME NEW t \in Tasks, Observe(t) PROVE Could
    BY <1>23 DEF Observe, world, MayAcquire, Over, TypeOK
  <1>24. ASSUME NEW t \in Tasks, ObserveAnswer(t) PROVE Could
    BY <1>24 DEF ObserveAnswer, world, MayAcquire, Over, TypeOK
  <1>25. ASSUME NEW t \in Tasks, ObserveApply(t) PROVE Could
    BY <1>25, ObserveApplyEffect DEF Saved, world, MayAcquire, Over, TypeOK
  <1>26. ASSUME NEW t \in Tasks, WorkerStart(t) PROVE Could
    BY <1>26 DEF WorkerStart, server, MayAcquire, Over, TypeOK
  <1>27. ASSUME NEW t \in Tasks, WorkerClean(t) PROVE Could
    BY <1>27 DEF WorkerClean, server, MayAcquire, Over, TypeOK
  <1>28. CASE Pick
    BY <1>28 DEF Pick, world, MayAcquire, Over, TypeOK
  <1>29. CASE Close
    BY <1>29 DEF Close, world, MayAcquire, Over, TypeOK
  <1>30. CASE Crash
    BY <1>30 DEF Crash, world, MayAcquire, Over, TypeOK
  <1>31. CASE Restart
    BY <1>31 DEF Restart, world, MayAcquire, Over, TypeOK
  <1>32. CASE RecoverNext
    BY <1>32, RecoverNextEffect DEF Saved, world, MayAcquire, Over, TypeOK
  <1>33. CASE RecoverReturned
    BY <1>33 DEF RecoverReturned, world, MayAcquire, Over, TypeOK
  <1>34. CASE RecoverDone
    BY <1>34 DEF RecoverDone, world, MayAcquire, Over, TypeOK
  <1>35. CASE UNCHANGED vars
    BY <1>35 DEF vars, server, world, MayAcquire, Over
  <1> QED
    BY <1>1, <1>2, <1>3, <1>4, <1>5, <1>6, <1>7, <1>8, <1>9, <1>10, <1>11, <1>12, <1>13, <1>14, <1>15, <1>16, <1>17, <1>18, <1>19, <1>20, <1>21, <1>22, <1>23, <1>24, <1>25, <1>26, <1>27, <1>28, <1>29, <1>30, <1>31, <1>32, <1>33, <1>34, <1>35 DEF Next

\* What exists stays on record.
LEMMA OwnedStep ==
  ASSUME IInv, [Next]_vars, NEW v \in Tasks, Physical(v)
  PROVE  /\ disk'[v].dispatched /\ disk'[v].cleanup # "complete"
         /\ up' # "down" => task'[v].dispatched /\ task'[v].cleanup # "complete"
  <1> DEFINE Recorded == /\ disk'[v].dispatched /\ disk'[v].cleanup # "complete"
                         /\ up' # "down" => task'[v].dispatched /\ task'[v].cleanup # "complete"
  <1> SUFFICES Recorded
    OBVIOUS
  <1> USE SchedulerAssumption
  <1>a. /\ TypeOK /\ disk[v].dispatched /\ disk[v].cleanup # "complete"
        /\ up # "down" => task[v].dispatched /\ task[v].cleanup # "complete"
    BY DEF IInv, Inv, OwnedIsRecorded
  <1>b. up # "down" => task[v].state \notin {"none", "queued"}
    BY <1>a DEF IInv, RecordsAgree
  <1>d. obs[v] # "released" /\ rel[v] # "released"
    <2>1. CASE v \in Jobs
      BY <1>a, <2>1 DEF IInv, AnswersHold, TypeOK, Physical, Tasks
    <2>2. CASE v \in Labs
      BY <1>a, <2>2 DEF IInv, AnswersHold, ActorsMatch, RecordsAgree, TypeOK, Physical, Tasks
    <2> QED BY <2>1, <2>2 DEF Tasks
  <1>1. ASSUME NEW t \in Tasks, Submit(t) PROVE Recorded
    BY <1>1, <1>a, <1>b, SubmitEffect
  <1>2. ASSUME NEW t \in Tasks, Start(t) PROVE Recorded
    <2>1. CASE task[t].state = "queued"
      BY <1>2, <1>a, <2>1, StartEffect DEF Saved
    <2>2. CASE task[t].state # "queued"
      BY <1>2, <1>a, <2>2 DEF Start
    <2> QED BY <2>1, <2>2
  <1>3. ASSUME NEW t \in Tasks, Refuse(t) PROVE Recorded
    BY <1>3, <1>a, <1>b, RefuseEffect DEF Saved
  <1>4. ASSUME NEW t \in Tasks, Dispatch(t) PROVE Recorded
    BY <1>4, <1>a, DispatchEffect DEF Saved
  <1>5. ASSUME NEW t \in Tasks, Call(t) PROVE Recorded
    BY <1>5, <1>a DEF Call
  <1>6. ASSUME NEW t \in Tasks, CallFailed(t) PROVE Recorded
    BY <1>6, <1>a, CallFailedEffect DEF Saved
  <1>7. ASSUME NEW t \in Tasks, CallReturned(t) PROVE Recorded
    BY <1>7, <1>a, CallReturnedEffect DEF Saved
  <1>8. ASSUME NEW t \in Tasks, Create(t) PROVE Recorded
    BY <1>8, <1>a DEF Create, server
  <1>9. ASSUME NEW t \in Tasks, Result(t) PROVE Recorded
    BY <1>9, <1>a, ResultEffect DEF Saved
  <1>10. ASSUME NEW t \in Tasks, ObserveEnds(t) PROVE Recorded
    BY <1>10, <1>a DEF ObserveEnds
  <1>11. ASSUME NEW t \in Tasks, ExecRelease(t) PROVE Recorded
    BY <1>11, <1>a DEF ExecRelease
  <1>12. ASSUME NEW t \in Tasks, Finish(t) PROVE Recorded
    BY <1>12, <1>a, FinishEffect DEF Saved
  <1>13. ASSUME NEW t \in Tasks, Cancel(t) PROVE Recorded
    BY <1>13, <1>a, <1>b, CancelEffect DEF Saved
  <1>14. ASSUME NEW t \in Tasks, Deadline(t) PROVE Recorded
    BY <1>14, <1>a, DeadlineEffect DEF Saved
  <1>15. ASSUME NEW t \in Tasks, DeadlineCancels(t) PROVE Recorded
    BY <1>15, <1>a DEF DeadlineCancels
  <1>16. ASSUME NEW t \in Tasks, Recover(t) PROVE Recorded
    BY <1>16, <1>a DEF Recover
  <1>17. ASSUME NEW t \in Tasks, NEW by \in {"exec", "recovery", "api"}, CleanupReturns(t, by) PROVE Recorded
    BY <1>17, <1>a DEF CleanupReturns
  <1>18. ASSUME NEW t \in Tasks, NEW by \in {"exec", "recovery", "api"}, NothingToRelease(t, by) PROVE Recorded
    BY <1>18, <1>a, NothingToReleaseEffect DEF Saved
  <1>19. ASSUME NEW t \in Tasks, NEW by \in {"exec", "recovery", "api"}, CleanupBegins(t, by) PROVE Recorded
    BY <1>19, <1>a, CleanupBeginsEffect DEF Saved
  <1>20. ASSUME NEW t \in Tasks, CleanupAnswer(t) PROVE Recorded
    BY <1>20, <1>a DEF CleanupAnswer
  <1>21. ASSUME NEW t \in Tasks, CleanupApply(t) PROVE Recorded
    BY <1>21, <1>a, <1>d, CleanupApplyEffect DEF Saved
  <1>22. ASSUME NEW t \in Tasks, ApiRelease(t) PROVE Recorded
    BY <1>22, <1>a DEF ApiRelease
  <1>23. ASSUME NEW t \in Tasks, Observe(t) PROVE Recorded
    BY <1>23, <1>a DEF Observe
  <1>24. ASSUME NEW t \in Tasks, ObserveAnswer(t) PROVE Recorded
    BY <1>24, <1>a DEF ObserveAnswer
  <1>25. ASSUME NEW t \in Tasks, ObserveApply(t) PROVE Recorded
    BY <1>25, <1>a, <1>d, ObserveApplyEffect DEF Saved
  <1>26. ASSUME NEW t \in Tasks, WorkerStart(t) PROVE Recorded
    BY <1>26, <1>a DEF WorkerStart, server
  <1>27. ASSUME NEW t \in Tasks, WorkerClean(t) PROVE Recorded
    BY <1>27, <1>a DEF WorkerClean, server
  <1>28. CASE Pick
    BY <1>28, <1>a DEF Pick
  <1>29. CASE Close
    BY <1>29, <1>a DEF Close
  <1>30. CASE Crash
    BY <1>30, <1>a DEF Crash
  <1>31. CASE Restart
    BY <1>31, <1>a DEF Restart
  <1>32. CASE RecoverNext
    <2>1. PICK t \in Tasks : /\ Saved(t)
                             /\ task'[t].cleanup = task[t].cleanup /\ task'[t].dispatched = task[t].dispatched
      BY <1>32, <1>a, RecoverNextEffect
    <2> QED BY <1>32, <2>1, <1>a, RecoverNextEffect DEF Saved
  <1>33. CASE RecoverReturned
    BY <1>33, <1>a DEF RecoverReturned
  <1>34. CASE RecoverDone
    BY <1>34, <1>a DEF RecoverDone
  <1>35. CASE UNCHANGED vars
    BY <1>35, <1>a DEF vars, server
  <1> QED
    BY <1>1, <1>2, <1>3, <1>4, <1>5, <1>6, <1>7, <1>8, <1>9, <1>10, <1>11, <1>12, <1>13, <1>14, <1>15, <1>16, <1>17, <1>18, <1>19, <1>20, <1>21, <1>22, <1>23, <1>24, <1>25, <1>26, <1>27, <1>28, <1>29, <1>30, <1>31, <1>32, <1>33, <1>34, <1>35 DEF Next

\* Who may acquire keeps the slot, and does not count as clean.
LEMMA HeldStep ==
  ASSUME IInv, [Next]_vars, NEW v \in Tasks, MayAcquire(v), MayAcquire(v)'
  PROVE  /\ active' = v /\ pick' = None
         /\ task'[v].cleanup # "complete" /\ disk'[v].cleanup # "complete"
  <1> DEFINE Holds == /\ active' = v /\ pick' = None
                      /\ task'[v].cleanup # "complete" /\ disk'[v].cleanup # "complete"
  <1> SUFFICES Holds
    OBVIOUS
  <1> USE SchedulerAssumption
  <1>a. /\ TypeOK /\ active = v /\ pick = None /\ up = "up"
        /\ task[v].cleanup # "complete" /\ disk[v].cleanup # "complete"
    BY DEF IInv, Inv, SlotIsHeld, ActorsMatch, MayAcquire
  <1>b. task[v].state \notin {"none", "queued"}
    BY DEF IInv, ActorsMatch, MayAcquire
  <1>c. exec'[v] # "none" /\ ~Over(v)'
    BY DEF MayAcquire
  <1>d. obs[v] # "released" /\ rel[v] # "released"
    BY DEF IInv, AnswersHold, ActorsMatch, MayAcquire, Over
  <1>1. ASSUME NEW t \in Tasks, Submit(t) PROVE Holds
    BY <1>1, <1>a, <1>b, SubmitEffect
  <1>2. ASSUME NEW t \in Tasks, Start(t) PROVE Holds
    BY <1>2, <1>a DEF Start
  <1>3. ASSUME NEW t \in Tasks, Refuse(t) PROVE Holds
    BY <1>3, <1>a, <1>b, RefuseEffect DEF Saved
  <1>4. ASSUME NEW t \in Tasks, Dispatch(t) PROVE Holds
    BY <1>4, <1>a, DispatchEffect DEF Saved
  <1>5. ASSUME NEW t \in Tasks, Call(t) PROVE Holds
    BY <1>5, <1>a DEF Call
  <1>6. ASSUME NEW t \in Tasks, CallFailed(t) PROVE Holds
    BY <1>6, <1>a, CallFailedEffect DEF Saved
  <1>7. ASSUME NEW t \in Tasks, CallReturned(t) PROVE Holds
    BY <1>7, <1>a, CallReturnedEffect DEF Saved
  <1>8. ASSUME NEW t \in Tasks, Create(t) PROVE Holds
    BY <1>8, <1>a DEF Create, server
  <1>9. ASSUME NEW t \in Tasks, Result(t) PROVE Holds
    BY <1>9, <1>a, ResultEffect DEF Saved
  <1>10. ASSUME NEW t \in Tasks, ObserveEnds(t) PROVE Holds
    BY <1>10, <1>a DEF ObserveEnds
  <1>11. ASSUME NEW t \in Tasks, ExecRelease(t) PROVE Holds
    <2>1. UNCHANGED <<task, disk, pick>> /\ ReleaseScheduler(t)
      BY <1>11 DEF ExecRelease
    <2> QED BY <1>a, <2>1, ReleaseEffect
  <1>12. ASSUME NEW t \in Tasks, Finish(t) PROVE Holds
    BY <1>12, <1>a, FinishEffect DEF Saved
  <1>13. ASSUME NEW t \in Tasks, Cancel(t) PROVE Holds
    BY <1>13, <1>a, <1>b, CancelEffect DEF Saved
  <1>14. ASSUME NEW t \in Tasks, Deadline(t) PROVE Holds
    BY <1>14, <1>a, DeadlineEffect DEF Saved
  <1>15. ASSUME NEW t \in Tasks, DeadlineCancels(t) PROVE Holds
    BY <1>15, <1>a DEF DeadlineCancels
  <1>16. ASSUME NEW t \in Tasks, Recover(t) PROVE Holds
    BY <1>16, <1>a DEF Recover
  <1>17. ASSUME NEW t \in Tasks, NEW by \in {"exec", "recovery", "api"}, CleanupReturns(t, by) PROVE Holds
    BY <1>17, <1>a DEF CleanupReturns
  <1>18. ASSUME NEW t \in Tasks, NEW by \in {"exec", "recovery", "api"}, NothingToRelease(t, by) PROVE Holds
    <2>1. v # t
      BY <1>18, <1>a, <1>c, NothingToReleaseEffect DEF Over
    <2> QED BY <1>18, <1>a, <2>1, NothingToReleaseEffect, ReleaseEffect DEF Saved
  <1>19. ASSUME NEW t \in Tasks, NEW by \in {"exec", "recovery", "api"}, CleanupBegins(t, by) PROVE Holds
    BY <1>19, <1>a, CleanupBeginsEffect DEF Saved
  <1>20. ASSUME NEW t \in Tasks, CleanupAnswer(t) PROVE Holds
    BY <1>20, <1>a DEF CleanupAnswer
  <1>21. ASSUME NEW t \in Tasks, CleanupApply(t) PROVE Holds
    <2>1. task'[v].cleanup # "complete" /\ disk'[v].cleanup # "complete"
      BY <1>21, <1>a, <1>d, CleanupApplyEffect DEF Saved
    <2>2. active' = v
      BY <1>21, <1>a, <2>1, CleanupApplyEffect, ReleaseEffect
    <2> QED BY <1>21, <1>a, <2>1, <2>2, CleanupApplyEffect
  <1>22. ASSUME NEW t \in Tasks, ApiRelease(t) PROVE Holds
    <2>1. UNCHANGED <<task, disk, pick>> /\ ReleaseScheduler(t)
      BY <1>22 DEF ApiRelease
    <2> QED BY <1>a, <2>1, ReleaseEffect
  <1>23. ASSUME NEW t \in Tasks, Observe(t) PROVE Holds
    BY <1>23, <1>a DEF Observe
  <1>24. ASSUME NEW t \in Tasks, ObserveAnswer(t) PROVE Holds
    BY <1>24, <1>a DEF ObserveAnswer
  <1>25. ASSUME NEW t \in Tasks, ObserveApply(t) PROVE Holds
    <2>1. task'[v].cleanup # "complete" /\ disk'[v].cleanup # "complete"
      BY <1>25, <1>a, <1>d, ObserveApplyEffect DEF Saved
    <2>2. active' = v
      BY <1>25, <1>a, <2>1, ObserveApplyEffect, ReleaseEffect
    <2> QED BY <1>25, <1>a, <2>1, <2>2, ObserveApplyEffect
  <1>26. ASSUME NEW t \in Tasks, WorkerStart(t) PROVE Holds
    BY <1>26, <1>a DEF WorkerStart, server
  <1>27. ASSUME NEW t \in Tasks, WorkerClean(t) PROVE Holds
    BY <1>27, <1>a DEF WorkerClean, server
  <1>28. CASE Pick
    BY <1>28, <1>a DEF Pick
  <1>29. CASE Close
    BY <1>29, <1>a DEF Close
  <1>30. CASE Crash
    BY <1>30, <1>c DEF Crash, MayAcquire
  <1>31. CASE Restart
    BY <1>31, <1>a DEF Restart
  <1>32. CASE RecoverNext
    BY <1>32, <1>a DEF RecoverNext
  <1>33. CASE RecoverReturned
    BY <1>33, <1>a DEF RecoverReturned
  <1>34. CASE RecoverDone
    BY <1>34, <1>a DEF RecoverDone
  <1>35. CASE UNCHANGED vars
    BY <1>35, <1>a DEF vars, server
  <1> QED
    BY <1>1, <1>2, <1>3, <1>4, <1>5, <1>6, <1>7, <1>8, <1>9, <1>10, <1>11, <1>12, <1>13, <1>14, <1>15, <1>16, <1>17, <1>18, <1>19, <1>20, <1>21, <1>22, <1>23, <1>24, <1>25, <1>26, <1>27, <1>28, <1>29, <1>30, <1>31, <1>32, <1>33, <1>34, <1>35 DEF Next

\* What exists keeps the slot from the next task.
LEMMA KeptStep ==
  ASSUME IInv, [Next]_vars, NEW v \in Tasks, Physical(v)
  PROVE  /\ up' = "up" => active' = v \/ (task'[v].state \in Terminals /\ active' # None)
         /\ up' = "up" => pick' = None
         /\ up' = "recovering" => v \in todo' \/ (task'[v].state \in Terminals /\ blocked' # None)
  <1> DEFINE Keeps ==
        /\ up' = "up" => active' = v \/ (task'[v].state \in Terminals /\ active' # None)
        /\ up' = "up" => pick' = None
        /\ up' = "recovering" => v \in todo' \/ (task'[v].state \in Terminals /\ blocked' # None)
  <1> SUFFICES Keeps
    OBVIOUS
  <1> USE SchedulerAssumption
  <1>a. /\ TypeOK
        /\ up = "up" => active = v \/ (Terminal(v) /\ active # None)
        /\ up = "up" => pick = None
        /\ up = "recovering" => v \in todo \/ (Terminal(v) /\ blocked # None)
    BY DEF IInv, Inv, SlotIsKept
  <1>b. up' # "down" /\ Terminal(v) => task'[v].state \in Terminals
    BY <1>a, EndedStays DEF IInv, Terminal, Crash
  <1>e. up # "down" => task[v].cleanup # "complete"
    BY DEF IInv, Inv, OwnedIsRecorded
  <1>d. up' # "down" => task'[v].cleanup # "complete"
    BY OwnedStep
  <1>f. up # "up" => pick = None
    BY DEF IInv, PickIsHeld
  <1>1. ASSUME NEW t \in Tasks, Submit(t) PROVE Keeps
    BY <1>1, <1>a, <1>b, SubmitEffect
  <1>2. ASSUME NEW t \in Tasks, Start(t) PROVE Keeps
    BY <1>2, <1>a, <1>b DEF Start
  <1>3. ASSUME NEW t \in Tasks, Refuse(t) PROVE Keeps
    BY <1>3, <1>a, <1>b, RefuseEffect
  <1>4. ASSUME NEW t \in Tasks, Dispatch(t) PROVE Keeps
    BY <1>4, <1>a, <1>b, DispatchEffect
  <1>5. ASSUME NEW t \in Tasks, Call(t) PROVE Keeps
    BY <1>5, <1>a, <1>b DEF Call
  <1>6. ASSUME NEW t \in Tasks, CallFailed(t) PROVE Keeps
    BY <1>6, <1>a, <1>b, CallFailedEffect
  <1>7. ASSUME NEW t \in Tasks, CallReturned(t) PROVE Keeps
    BY <1>7, <1>a, <1>b, CallReturnedEffect
  <1>8. ASSUME NEW t \in Tasks, Create(t) PROVE Keeps
    BY <1>8, <1>a, <1>b DEF Create, server
  <1>9. ASSUME NEW t \in Tasks, Result(t) PROVE Keeps
    BY <1>9, <1>a, <1>b, ResultEffect
  <1>10. ASSUME NEW t \in Tasks, ObserveEnds(t) PROVE Keeps
    BY <1>10, <1>a, <1>b DEF ObserveEnds
  <1>11. ASSUME NEW t \in Tasks, ExecRelease(t) PROVE Keeps
    <2>1. UNCHANGED <<up, pick, todo, blocked>> /\ ReleaseScheduler(t)
      BY <1>11 DEF ExecRelease
    <2> QED BY <1>a, <1>b, <1>d, <2>1, ReleaseEffect
  <1>12. ASSUME NEW t \in Tasks, Finish(t) PROVE Keeps
    BY <1>12, <1>a, <1>b, FinishEffect
  <1>13. ASSUME NEW t \in Tasks, Cancel(t) PROVE Keeps
    BY <1>13, <1>a, <1>b, CancelEffect
  <1>14. ASSUME NEW t \in Tasks, Deadline(t) PROVE Keeps
    BY <1>14, <1>a, <1>b, DeadlineEffect
  <1>15. ASSUME NEW t \in Tasks, DeadlineCancels(t) PROVE Keeps
    BY <1>15, <1>a, <1>b DEF DeadlineCancels
  <1>16. ASSUME NEW t \in Tasks, Recover(t) PROVE Keeps
    BY <1>16, <1>a, <1>b DEF Recover
  <1>17. ASSUME NEW t \in Tasks, NEW by \in {"exec", "recovery", "api"}, CleanupReturns(t, by) PROVE Keeps
    BY <1>17, <1>a, <1>b DEF CleanupReturns
  <1>18. ASSUME NEW t \in Tasks, NEW by \in {"exec", "recovery", "api"}, NothingToRelease(t, by) PROVE Keeps
    <2>1. /\ UNCHANGED <<up, pick, todo, blocked>>
          /\ ReleaseScheduler(t) \/ UNCHANGED active
      BY <1>18, <1>a, NothingToReleaseEffect
    <2> QED BY <1>a, <1>b, <1>d, <2>1, ReleaseEffect
  <1>19. ASSUME NEW t \in Tasks, NEW by \in {"exec", "recovery", "api"}, CleanupBegins(t, by) PROVE Keeps
    BY <1>19, <1>a, <1>b, CleanupBeginsEffect
  <1>20. ASSUME NEW t \in Tasks, CleanupAnswer(t) PROVE Keeps
    BY <1>20, <1>a, <1>b DEF CleanupAnswer
  <1>21. ASSUME NEW t \in Tasks, CleanupApply(t) PROVE Keeps
    <2>1. /\ UNCHANGED <<up, pick, todo, blocked>>
          /\ ReleaseScheduler(t) \/ UNCHANGED active
      BY <1>21, <1>a, CleanupApplyEffect
    <2> QED BY <1>a, <1>b, <1>d, <2>1, ReleaseEffect
  <1>22. ASSUME NEW t \in Tasks, ApiRelease(t) PROVE Keeps
    <2>1. UNCHANGED <<up, pick, todo, blocked>> /\ ReleaseScheduler(t)
      BY <1>22 DEF ApiRelease
    <2> QED BY <1>a, <1>b, <1>d, <2>1, ReleaseEffect
  <1>23. ASSUME NEW t \in Tasks, Observe(t) PROVE Keeps
    BY <1>23, <1>a, <1>b DEF Observe
  <1>24. ASSUME NEW t \in Tasks, ObserveAnswer(t) PROVE Keeps
    BY <1>24, <1>a, <1>b DEF ObserveAnswer
  <1>25. ASSUME NEW t \in Tasks, ObserveApply(t) PROVE Keeps
    <2>1. /\ UNCHANGED <<up, pick, todo, blocked>>
          /\ ReleaseScheduler(t) \/ UNCHANGED active
      BY <1>25, <1>a, ObserveApplyEffect
    <2> QED BY <1>a, <1>b, <1>d, <2>1, ReleaseEffect
  <1>26. ASSUME NEW t \in Tasks, WorkerStart(t) PROVE Keeps
    BY <1>26, <1>a, <1>b DEF WorkerStart, server
  <1>27. ASSUME NEW t \in Tasks, WorkerClean(t) PROVE Keeps
    BY <1>27, <1>a, <1>b DEF WorkerClean, server
  <1>28. CASE Pick
    BY <1>28, <1>a, <1>b DEF Pick
  <1>29. CASE Close
    BY <1>29, <1>a, <1>b DEF Close
  <1>30. CASE Crash
    BY <1>30 DEF Crash
  <1>31. CASE Restart
    <2>1. disk[v].state # "none" /\ disk[v].cleanup # "complete"
      BY DEF IInv, Inv, OwnedIsRecorded, RecordsAgree
    <2>2. v \in todo' /\ up' = "recovering"
      BY <1>31, <2>1 DEF Restart
    <2> QED BY <2>2
  <1>32. CASE RecoverNext
    <2>1. UNCHANGED <<up, pick, todo, blocked>> /\ up = "recovering"
      BY <1>32, <1>a, RecoverNextEffect
    <2> QED BY <1>a, <1>b, <2>1
  <1>33. CASE RecoverReturned
    <2>1. PICK t \in Earliest(todo) :
                /\ IF task[t].cleanup = "complete" THEN active' = None /\ UNCHANGED blocked
                   ELSE blocked' = (IF blocked = None THEN t ELSE blocked) /\ UNCHANGED active
                /\ todo' = todo \ {t}
      BY <1>33 DEF RecoverReturned
    <2>2. UNCHANGED <<up, pick, task>> /\ up = "recovering" /\ rec # "next"
      BY <1>33 DEF RecoverReturned
    <2>3. t \in Tasks /\ Terminal(t)
      BY <1>a, <2>2, EarliestIsOne DEF TypeOK, IInv, CurrentEnded
    <2>4. CASE v = t
      BY <1>a, <1>b, <1>e, <2>1, <2>2, <2>3, <2>4
    <2>5. CASE v # t
      BY <1>a, <1>b, <2>1, <2>2, <2>3, <2>5
    <2> QED BY <2>4, <2>5
  <1>34. CASE RecoverDone
    BY <1>34, <1>a, <1>b, <1>f DEF RecoverDone
  <1>35. CASE UNCHANGED vars
    BY <1>35, <1>a, <1>b DEF vars, server
  <1> QED
    BY <1>1, <1>2, <1>3, <1>4, <1>5, <1>6, <1>7, <1>8, <1>9, <1>10, <1>11, <1>12, <1>13, <1>14, <1>15, <1>16, <1>17, <1>18, <1>19, <1>20, <1>21, <1>22, <1>23, <1>24, <1>25, <1>26, <1>27, <1>28, <1>29, <1>30, <1>31, <1>32, <1>33, <1>34, <1>35 DEF Next

\* The picked task keeps the slot while it is queued.
LEMMA PickStep == ASSUME IInv, [Next]_vars PROVE PickIsHeld'
  <1> DEFINE Picked == /\ up' # "up" => pick' = None
                       /\ pick' # None => task'[pick'].state # "none"
                       /\ pick' # None /\ task'[pick'].state = "queued" => active' = pick'
  <1> SUFFICES Picked
    BY DEF PickIsHeld
  <1> USE SchedulerAssumption
  <1>a. /\ TypeOK /\ RecordsAgree /\ ActorsMatch /\ CurrentEnded
        /\ up # "up" => pick = None
        /\ pick # None => task[pick].state # "none"
        /\ pick # None /\ task[pick].state = "queued" => active = pick
        /\ pick \in Tasks \cup {None}
    BY DEF IInv, Inv, PickIsHeld, TypeOK
  <1>c. \A t \in Tasks : /\ exec[t] # "none" => task[t].state # "queued"
                         /\ api[t] # "none" \/ rel[t] # "none" \/ obs[t] # "none" => Terminal(t)
    BY DEF IInv, ActorsMatch
  <1>1. ASSUME NEW t \in Tasks, Submit(t) PROVE Picked
    BY <1>1, <1>a, SubmitEffect DEF Saved, Terminals
  <1>2. ASSUME NEW t \in Tasks, Start(t) PROVE Picked
    BY <1>2, <1>a DEF Start
  <1>3. ASSUME NEW t \in Tasks, Refuse(t) PROVE Picked
    BY <1>3, <1>a, RefuseEffect DEF Saved, Terminals
  <1>4. ASSUME NEW t \in Tasks, Dispatch(t) PROVE Picked
    BY <1>4, <1>a, DispatchEffect DEF Saved, Terminals
  <1>5. ASSUME NEW t \in Tasks, Call(t) PROVE Picked
    BY <1>5, <1>a DEF Call
  <1>6. ASSUME NEW t \in Tasks, CallFailed(t) PROVE Picked
    BY <1>6, <1>a, CallFailedEffect DEF Saved, Terminals
  <1>7. ASSUME NEW t \in Tasks, CallReturned(t) PROVE Picked
    BY <1>7, <1>a, CallReturnedEffect DEF Saved, Terminals
  <1>8. ASSUME NEW t \in Tasks, Create(t) PROVE Picked
    BY <1>8, <1>a DEF Create, server
  <1>9. ASSUME NEW t \in Tasks, Result(t) PROVE Picked
    BY <1>9, <1>a, ResultEffect DEF Saved, Terminals
  <1>10. ASSUME NEW t \in Tasks, ObserveEnds(t) PROVE Picked
    BY <1>10, <1>a DEF ObserveEnds
  <1>11. ASSUME NEW t \in Tasks, ExecRelease(t) PROVE Picked
    <2>1. UNCHANGED <<up, pick, task>> /\ ReleaseScheduler(t)
      BY <1>11 DEF ExecRelease
    <2>2. task[t].state # "queued"
      BY <1>11, <1>c DEF ExecRelease, Terminal, Terminals
    <2> QED BY <1>a, <2>1, <2>2, ReleaseEffect
  <1>12. ASSUME NEW t \in Tasks, Finish(t) PROVE Picked
    BY <1>12, <1>a, FinishEffect DEF Saved, Terminals
  <1>13. ASSUME NEW t \in Tasks, Cancel(t) PROVE Picked
    BY <1>13, <1>a, CancelEffect DEF Saved, Terminals
  <1>14. ASSUME NEW t \in Tasks, Deadline(t) PROVE Picked
    BY <1>14, <1>a, DeadlineEffect DEF Saved, Terminals
  <1>15. ASSUME NEW t \in Tasks, DeadlineCancels(t) PROVE Picked
    BY <1>15, <1>a DEF DeadlineCancels
  <1>16. ASSUME NEW t \in Tasks, Recover(t) PROVE Picked
    BY <1>16, <1>a DEF Recover
  <1>17. ASSUME NEW t \in Tasks, NEW by \in {"exec", "recovery", "api"}, CleanupReturns(t, by) PROVE Picked
    BY <1>17, <1>a DEF CleanupReturns
  <1>18. ASSUME NEW t \in Tasks, NEW by \in {"exec", "recovery", "api"}, NothingToRelease(t, by) PROVE Picked
    <2>1. /\ UNCHANGED <<up, pick>> /\ Terminal(t)
          /\ ReleaseScheduler(t) \/ UNCHANGED active
      BY <1>18, <1>a, CallerEnded, NothingToReleaseEffect
    <2>2. task'[t].state = task[t].state /\ \A u \in Tasks \ {t} : task'[u] = task[u]
      BY <1>18, <1>a, NothingToReleaseEffect DEF Saved
    <2> QED BY <1>a, <2>1, <2>2, ReleaseEffect DEF Terminal, Terminals
  <1>19. ASSUME NEW t \in Tasks, NEW by \in {"exec", "recovery", "api"}, CleanupBegins(t, by) PROVE Picked
    BY <1>19, <1>a, CallerEnded, CleanupBeginsEffect DEF Saved, Terminal, Terminals
  <1>20. ASSUME NEW t \in Tasks, CleanupAnswer(t) PROVE Picked
    BY <1>20, <1>a DEF CleanupAnswer
  <1>21. ASSUME NEW t \in Tasks, CleanupApply(t) PROVE Picked
    <2>1. /\ UNCHANGED <<up, pick>> /\ Terminal(t)
          /\ ReleaseScheduler(t) \/ UNCHANGED active
      BY <1>21, <1>a, <1>c, CleanupApplyEffect
    <2>2. task'[t].state = task[t].state /\ \A u \in Tasks \ {t} : task'[u] = task[u]
      BY <1>21, <1>a, CleanupApplyEffect DEF Saved
    <2> QED BY <1>a, <2>1, <2>2, ReleaseEffect DEF Terminal, Terminals
  <1>22. ASSUME NEW t \in Tasks, ApiRelease(t) PROVE Picked
    <2>1. UNCHANGED <<up, pick, task>> /\ ReleaseScheduler(t)
      BY <1>22 DEF ApiRelease
    <2>2. task[t].state # "queued"
      BY <1>22, <1>c DEF ApiRelease, Terminal, Terminals
    <2> QED BY <1>a, <2>1, <2>2, ReleaseEffect
  <1>23. ASSUME NEW t \in Tasks, Observe(t) PROVE Picked
    BY <1>23, <1>a DEF Observe
  <1>24. ASSUME NEW t \in Tasks, ObserveAnswer(t) PROVE Picked
    BY <1>24, <1>a DEF ObserveAnswer
  <1>25. ASSUME NEW t \in Tasks, ObserveApply(t) PROVE Picked
    <2>1. /\ UNCHANGED <<up, pick>> /\ Terminal(t)
          /\ ReleaseScheduler(t) \/ UNCHANGED active
      BY <1>25, <1>a, <1>c, ObserveApplyEffect
    <2>2. task'[t].state = task[t].state /\ \A u \in Tasks \ {t} : task'[u] = task[u]
      BY <1>25, <1>a, ObserveApplyEffect DEF Saved
    <2> QED BY <1>a, <2>1, <2>2, ReleaseEffect DEF Terminal, Terminals
  <1>26. ASSUME NEW t \in Tasks, WorkerStart(t) PROVE Picked
    BY <1>26, <1>a DEF WorkerStart, server
  <1>27. ASSUME NEW t \in Tasks, WorkerClean(t) PROVE Picked
    BY <1>27, <1>a DEF WorkerClean, server
  <1>28. CASE Pick
    <2>1. PICK t \in Earliest(Queued) : active' = t /\ pick' = t
      BY <1>28 DEF Pick
    <2>2. task[t].state = "queued" /\ UNCHANGED <<task, up>> /\ up = "up"
      BY <1>28, <1>a, <2>1, EarliestIsOne DEF Pick, Queued, TypeOK
    <2> QED BY <2>1, <2>2
  <1>29. CASE Close
    BY <1>29, <1>a DEF Close
  <1>30. CASE Crash
    BY <1>30 DEF Crash
  <1>31. CASE Restart
    <2>1. UNCHANGED pick /\ up # "up"
      BY <1>31 DEF Restart
    <2> QED BY <1>a, <2>1
  <1>32. CASE RecoverNext
    <2>1. UNCHANGED pick /\ up # "up"
      BY <1>32, <1>a, RecoverNextEffect
    <2> QED BY <1>a, <2>1
  <1>33. CASE RecoverReturned
    <2>1. UNCHANGED pick /\ up # "up"
      BY <1>33 DEF RecoverReturned
    <2> QED BY <1>a, <2>1
  <1>34. CASE RecoverDone
    BY <1>34, <1>a DEF RecoverDone
  <1>35. CASE UNCHANGED vars
    BY <1>35, <1>a DEF vars, server
  <1> QED
    BY <1>1, <1>2, <1>3, <1>4, <1>5, <1>6, <1>7, <1>8, <1>9, <1>10, <1>11, <1>12, <1>13, <1>14, <1>15, <1>16, <1>17, <1>18, <1>19, <1>20, <1>21, <1>22, <1>23, <1>24, <1>25, <1>26, <1>27, <1>28, <1>29, <1>30, <1>31, <1>32, <1>33, <1>34, <1>35 DEF Next

-----------------------------------------------------------------------------
(* Theorems.                                                               *)

\* Together: every step keeps the inductive invariant.
LEMMA NextIInv == ASSUME IInv, [Next]_vars PROVE IInv'
  <1> USE SchedulerAssumption
  <1>1. TypeOK /\ RecordsAgree /\ ActorsMatch /\ CurrentEnded /\ AnswersHold
    BY DEF IInv, Inv
  <1>2. TypeOK'
    BY <1>1, NextType
  <1>3. RecordsAgree' /\ ActorsMatch' /\ CurrentEnded' /\ AnswersHold'
    BY <1>1, NextRecords, NextActors, NextCurrent, NextAnswers
  <1>4. ASSUME NEW v \in Tasks, MayAcquire(v), exec[v] \in {"start", "wait"}
        PROVE  /\ up = "up" /\ active = v /\ pick = None
               /\ task[v].dispatched /\ disk[v].dispatched
               /\ task[v].cleanup # "complete" /\ disk[v].cleanup # "complete"
    <2>1. up = "up" /\ task[v].dispatched /\ disk[v].dispatched
      BY <1>1, <1>4 DEF ActorsMatch, MayAcquire
    <2> QED BY <1>4, <2>1 DEF IInv, SlotIsHeld
  <1>5. ASSUME NEW v \in Tasks, Physical(v)'
        PROVE  /\ disk'[v].dispatched /\ disk'[v].cleanup # "complete"
               /\ up' # "down" => task'[v].dispatched /\ task'[v].cleanup # "complete"
               /\ up' = "up" => active' = v \/ (task'[v].state \in Terminals /\ active' # None)
               /\ up' = "up" => pick' = None
               /\ up' = "recovering" => v \in todo' \/ (task'[v].state \in Terminals /\ blocked' # None)
    <2>1. CASE Physical(v)
      BY <2>1, OwnedStep, KeptStep
    <2>2. CASE /\ MayAcquire(v) /\ exec[v] \in {"start", "wait"}
               /\ UNCHANGED <<task, disk, active, up, pick, todo, blocked>>
      BY <1>4, <2>2
    <2> QED BY <1>1, <1>5, <2>1, <2>2, PhysicalStep
  <1>6. ASSUME NEW t \in Tasks, NEW u \in Tasks, Physical(t)', Physical(u)' PROVE t = u
    <2>1. CASE Physical(t) /\ Physical(u)
      BY <2>1 DEF IInv, Inv, Exclusive
    <2>2. CASE Physical(t) /\ MayAcquire(u)
      BY <2>2 DEF IInv, SlotIsHeld
    <2>3. CASE MayAcquire(t) /\ Physical(u)
      BY <2>3 DEF IInv, SlotIsHeld
    <2>4. CASE MayAcquire(t) /\ MayAcquire(u)
      BY <2>4 DEF IInv, SlotIsHeld
    <2> QED BY <1>1, <1>6, <2>1, <2>2, <2>3, <2>4, PhysicalStep
  <1>7. ASSUME NEW t \in Tasks, MayAcquire(t)'
        PROVE  /\ active' = t /\ pick' = None
               /\ task'[t].cleanup # "complete" /\ disk'[t].cleanup # "complete"
               /\ \A u \in Tasks : Physical(u)' => u = t
    <2>1. CASE MayAcquire(t)
      <3>1. ASSUME NEW u \in Tasks, Physical(u)' PROVE u = t
        BY <1>1, <2>1, <3>1, PhysicalStep DEF IInv, SlotIsHeld
      <3> QED BY <1>7, <2>1, <3>1, HeldStep
    <2>2. CASE Start(t) /\ task[t].state = "queued"
      <3>1. pick = t /\ up = "up" /\ t # None
        BY <2>2 DEF Start, Tasks
      <3>2. active = t
        BY <2>2, <3>1 DEF IInv, PickIsHeld
      <3>3. task[t].cleanup = "pending"
        BY <2>2 DEF IInv, RecordsAgree
      <3>4. /\ UNCHANGED active /\ pick' = None /\ task'[t].cleanup = "pending"
            /\ disk'[t] = task'[t] \/ closed'
        BY <1>1, <2>2, <3>3, StartEffect DEF Saved
      <3>5. ~closed'
        BY <1>7 DEF MayAcquire, Over
      <3>6. ASSUME NEW u \in Tasks, Physical(u)' PROVE u = t
        <4>1. ~Physical(u)
          BY <3>1 DEF IInv, SlotIsKept
        <4>2. ~MayAcquire(u)
          BY <3>1 DEF IInv, SlotIsHeld
        <4> QED BY <1>1, <3>6, <4>1, <4>2, PhysicalStep
      <3> QED BY <3>2, <3>4, <3>5, <3>6
    <2> QED BY <1>1, <1>7, <2>1, <2>2, AcquireStep
  <1>8. Exclusive'
    BY <1>6 DEF Exclusive
  <1>9. OwnedIsRecorded'
    BY <1>5 DEF OwnedIsRecorded
  <1>10. SlotIsHeld'
    BY <1>7 DEF SlotIsHeld
  <1>11. SlotIsKept'
    BY <1>5 DEF SlotIsKept, Terminal
  <1> QED BY <1>2, <1>3, <1>8, <1>9, <1>10, <1>11, PickStep DEF IInv, Inv

\* A row is what it was, or what memory holds.
LEMMA RowStep ==
  ASSUME TypeOK, [Next]_vars, NEW v \in Tasks PROVE disk'[v] = disk[v] \/ disk'[v] = task'[v]
  <1> DEFINE Written == disk'[v] = disk[v] \/ disk'[v] = task'[v]
  <1> SUFFICES Written
    OBVIOUS
  <1> USE SchedulerAssumption
  <1>1. ASSUME NEW t \in Tasks, Submit(t) PROVE Written
    BY <1>1, SubmitEffect DEF Saved
  <1>2. ASSUME NEW t \in Tasks, Start(t) PROVE Written
    <2>1. CASE task[t].state = "queued"
      BY <1>2, <2>1, StartEffect DEF Saved
    <2>2. CASE task[t].state # "queued"
      BY <1>2, <2>2 DEF Start
    <2> QED BY <2>1, <2>2
  <1>3. ASSUME NEW t \in Tasks, Refuse(t) PROVE Written
    BY <1>3, RefuseEffect DEF Saved
  <1>4. ASSUME NEW t \in Tasks, Dispatch(t) PROVE Written
    BY <1>4, DispatchEffect DEF Saved
  <1>5. ASSUME NEW t \in Tasks, Call(t) PROVE Written
    BY <1>5 DEF Call
  <1>6. ASSUME NEW t \in Tasks, CallFailed(t) PROVE Written
    BY <1>6, CallFailedEffect DEF Saved
  <1>7. ASSUME NEW t \in Tasks, CallReturned(t) PROVE Written
    BY <1>7, CallReturnedEffect DEF Saved
  <1>8. ASSUME NEW t \in Tasks, Create(t) PROVE Written
    BY <1>8 DEF Create, server
  <1>9. ASSUME NEW t \in Tasks, Result(t) PROVE Written
    BY <1>9, ResultEffect DEF Saved
  <1>10. ASSUME NEW t \in Tasks, ObserveEnds(t) PROVE Written
    BY <1>10 DEF ObserveEnds
  <1>11. ASSUME NEW t \in Tasks, ExecRelease(t) PROVE Written
    BY <1>11 DEF ExecRelease
  <1>12. ASSUME NEW t \in Tasks, Finish(t) PROVE Written
    BY <1>12, FinishEffect DEF Saved
  <1>13. ASSUME NEW t \in Tasks, Cancel(t) PROVE Written
    BY <1>13, CancelEffect DEF Saved
  <1>14. ASSUME NEW t \in Tasks, Deadline(t) PROVE Written
    BY <1>14, DeadlineEffect DEF Saved
  <1>15. ASSUME NEW t \in Tasks, DeadlineCancels(t) PROVE Written
    BY <1>15 DEF DeadlineCancels
  <1>16. ASSUME NEW t \in Tasks, Recover(t) PROVE Written
    BY <1>16 DEF Recover
  <1>17. ASSUME NEW t \in Tasks, NEW by \in {"exec", "recovery", "api"}, CleanupReturns(t, by) PROVE Written
    BY <1>17 DEF CleanupReturns
  <1>18. ASSUME NEW t \in Tasks, NEW by \in {"exec", "recovery", "api"}, NothingToRelease(t, by) PROVE Written
    BY <1>18, NothingToReleaseEffect DEF Saved
  <1>19. ASSUME NEW t \in Tasks, NEW by \in {"exec", "recovery", "api"}, CleanupBegins(t, by) PROVE Written
    BY <1>19, CleanupBeginsEffect DEF Saved
  <1>20. ASSUME NEW t \in Tasks, CleanupAnswer(t) PROVE Written
    BY <1>20 DEF CleanupAnswer
  <1>21. ASSUME NEW t \in Tasks, CleanupApply(t) PROVE Written
    BY <1>21, CleanupApplyEffect DEF Saved
  <1>22. ASSUME NEW t \in Tasks, ApiRelease(t) PROVE Written
    BY <1>22 DEF ApiRelease
  <1>23. ASSUME NEW t \in Tasks, Observe(t) PROVE Written
    BY <1>23 DEF Observe
  <1>24. ASSUME NEW t \in Tasks, ObserveAnswer(t) PROVE Written
    BY <1>24 DEF ObserveAnswer
  <1>25. ASSUME NEW t \in Tasks, ObserveApply(t) PROVE Written
    BY <1>25, ObserveApplyEffect DEF Saved
  <1>26. ASSUME NEW t \in Tasks, WorkerStart(t) PROVE Written
    BY <1>26 DEF WorkerStart, server
  <1>27. ASSUME NEW t \in Tasks, WorkerClean(t) PROVE Written
    BY <1>27 DEF WorkerClean, server
  <1>28. CASE Pick
    BY <1>28 DEF Pick
  <1>29. CASE Close
    BY <1>29 DEF Close
  <1>30. CASE Crash
    BY <1>30 DEF Crash
  <1>31. CASE Restart
    BY <1>31 DEF Restart
  <1>32. CASE RecoverNext
    BY <1>32, RecoverNextEffect DEF Saved
  <1>33. CASE RecoverReturned
    BY <1>33 DEF RecoverReturned
  <1>34. CASE RecoverDone
    BY <1>34 DEF RecoverDone
  <1>35. CASE UNCHANGED vars
    BY <1>35 DEF vars, server
  <1> QED
    BY <1>1, <1>2, <1>3, <1>4, <1>5, <1>6, <1>7, <1>8, <1>9, <1>10, <1>11, <1>12, <1>13, <1>14, <1>15, <1>16, <1>17, <1>18, <1>19, <1>20, <1>21, <1>22, <1>23, <1>24, <1>25, <1>26, <1>27, <1>28, <1>29, <1>30, <1>31, <1>32, <1>33, <1>34, <1>35 DEF Next

\* While the controller is down no row changes.
LEMMA DownKeepsRows ==
  ASSUME TypeOK, ActorsMatch, [Next]_vars, up = "down" \/ Crash PROVE UNCHANGED disk
  <1>1. CASE Crash
    BY <1>1 DEF Crash
  <1>2. CASE up = "down"
    BY <1>2 DEF Next, Submit, Start, Refuse, Dispatch, Call, CallFailed, CallReturned, Create, Result, ObserveEnds, ExecRelease, Finish, Cancel, Deadline, DeadlineCancels, Recover, CleanupReturns, NothingToRelease, CleanupBegins, CleanupAnswer, CleanupApply, ApiRelease, Observe, ObserveAnswer, ObserveApply, WorkerStart, WorkerClean, Pick, Close, Crash, Restart, RecoverNext, RecoverReturned, RecoverDone, vars, server
  <1> QED BY <1>1, <1>2

\* A result on disk is the one in memory, which no step but a crash changes.
LEMMA NextKeepsResult == ASSUME IInv, [Next]_vars PROVE ResultKept
  <1> SUFFICES ASSUME NEW t \in Tasks, disk[t].state \in Terminals PROVE disk'[t].state = disk[t].state
    BY DEF ResultKept
  <1>1. TypeOK /\ RecordsAgree
    BY DEF IInv, Inv
  <1>2. CASE up = "down" \/ Crash
    BY <1>1, <1>2, DownKeepsRows DEF IInv
  <1>3. CASE up # "down" /\ ~Crash
    <2>1. task[t].state = disk[t].state
      BY <1>1, <1>3 DEF RecordsAgree
    <2>2. task'[t].state = task[t].state
      BY <1>1, <1>3, <2>1, EndedStays DEF Terminal
    <2> QED BY <1>1, <2>1, <2>2, RowStep
  <1> QED BY <1>2, <1>3

\* It holds in the beginning.
LEMMA InitIInv == ASSUME Init PROVE IInv
  <1> USE SchedulerAssumption DEF Init
  <1>1. NoTask \in Records
    BY DEF NoTask, Records
  <1>2. TypeOK
    <2>1. task \in [Tasks -> Records] /\ disk \in [Tasks -> Records]
      BY <1>1
    <2>2. queue \in Seq(Tasks) /\ crashes \in 0 .. Crashes
      OBVIOUS
    <2>3. /\ exec \in [Tasks -> {"none", "dispatch", "start", "wait", "observe", "cleanup", "release"}]
          /\ api \in [Tasks -> {"none", "cleanup", "background", "release"}]
          /\ holder \in [Tasks -> {"none", "exec", "recovery", "api"}]
          /\ rel \in [Tasks -> {"none", "rpc", "released", "blocked"}]
          /\ obs \in [Tasks -> {"none", "rpc", "released", "held", "blocked"}]
          /\ wjob \in [Tasks -> {"none", "running", "clean", "never"}]
      OBVIOUS
    <2> QED BY <2>1, <2>2, <2>3 DEF TypeOK
  <1>3. \A t \in Tasks : ~Physical(t) /\ ~MayAcquire(t)
    BY DEF Physical, MayAcquire
  <1>4. RecordsAgree /\ ActorsMatch
    BY DEF RecordsAgree, ActorsMatch, NoTask, Terminals
  <1>5. CurrentEnded /\ AnswersHold
    BY DEF CurrentEnded, AnswersHold
  <1>6. PickIsHeld
    BY DEF PickIsHeld
  <1> QED BY <1>2, <1>3, <1>4, <1>5, <1>6
          DEF IInv, Inv, Exclusive, OwnedIsRecorded, SlotIsHeld, SlotIsKept

\* The slot is sound for any number of labs, jobs, cancels, lost calls, failed
\* writes and restarts of the controller: the resources of two executions never
\* exist side by side, and what exists is on record, dispatched and not clean.
THEOREM SlotIsSound == Spec => []Inv
  <1>1. Init => IInv
    BY InitIInv
  <1>2. IInv /\ [Next]_vars => IInv'
    BY NextIInv
  <1>3. IInv => Inv
    BY DEF IInv
  <1> QED BY <1>1, <1>2, <1>3, PTL DEF Spec

\* A recorded result is final: whichever of a late reply, a cancel, a deadline,
\* a finish and a restart comes first wins, for any number of them.
THEOREM FirstResultWins == Spec => ResultIsFinal
  <1>1. Init => IInv
    BY InitIInv
  <1>2. IInv /\ [Next]_vars => IInv'
    BY NextIInv
  <1>3. IInv /\ [Next]_vars => [ResultKept]_vars
    BY NextKeepsResult
  <1> QED BY <1>1, <1>2, <1>3, PTL DEF Spec, ResultIsFinal

=============================================================================
