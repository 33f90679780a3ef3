-------------------------- MODULE NixWorkerProofs --------------------------
(***************************************************************************)
(* Proofs about the worker, for every set of jobs, with or without failing *)
(* writes: its inductive invariant, and what follows from it about cleanup *)
(* and the slot.                                                           *)
(***************************************************************************)
EXTENDS NixWorker, TLAPS

\* The updates of a job record that the handlers make keep its type.
LEMMA JobUpdates ==
  ASSUME NEW j \in Jobs
  PROVE  /\ [j EXCEPT !.intent = TRUE, !.res = "held"] \in Jobs
         /\ [j EXCEPT !.res = "held"] \in Jobs /\ [j EXCEPT !.res = "released"] \in Jobs
         /\ \A l \in {"no", "this", "past"} : [j EXCEPT !.launching = l] \in Jobs
         /\ \A c \in BOOLEAN : [j EXCEPT !.launching = "no", !.client = c] \in Jobs
         /\ \A c \in {"pending", "required"} :
                /\ [j EXCEPT !.state = "finished", !.cleanup = c] \in Jobs
                /\ [j EXCEPT !.res = "held", !.cleanup = c] \in Jobs
         /\ [[j EXCEPT !.state = "finished", !.cleanup = "pending"] EXCEPT !.cleanup = "required"] \in Jobs
         /\ Recovered(j) \in Jobs
  BY DEF Jobs, Recovered

\* What reconcileResources() makes of a job record.
LEMMA ReconciledType ==
  ASSUME NEW j \in Jobs, NEW r \in {"unallocated", "held", "blocked", "released"}, NEW clean \in BOOLEAN
  PROVE  LET k == WithResources(j, r, clean)
         IN  k \in Jobs /\ [k EXCEPT !.cleanup = "required", !.res = "blocked"] \in Jobs
  BY DEF Jobs, WithResources

\* The executor's answer is added to a snapshot.
LEMMA AnswerType ==
  ASSUME NEW s \in Snapshots, NEW a \in {"error", "unallocated", "held", "blocked", "released"}
  PROVE  [[s EXCEPT !.at = "apply"] EXCEPT !.answer = a] \in Snapshots
  BY DEF Snapshots

\* Worker.save of a job record.
LEMMA SaveType ==
  ASSUME TypeOK, NEW t \in Tasks, NEW j \in Jobs, NEW ok, Save(t, j, ok)
  PROVE  job' \in [Tasks -> Jobs] /\ disk' \in [Tasks -> Jobs]
  BY DEF TypeOK, Save

\* The fixed records have their types.
LEMMA Constants == NoJob \in Jobs /\ Tombstone \in Jobs /\ Idle \in Snapshots
  BY DEF NoJob, Tombstone, Jobs, Idle, Snapshots

\* Every step keeps the types.  Only Apply needs more than the types: a snapshot
\* of a finished job that is applied has an answer.
LEMMA NextType == ASSUME IInv, [Next]_vars PROVE TypeOK'
  <1>0. TypeOK
    BY DEF IInv
  <1> USE <1>0 DEF TypeOK, LTypeOK, Receipts, Runner, Step, worker, world
  <1>1. ASSUME NEW t \in Tasks, Start(t) PROVE TypeOK'
    <2>1. [NoJob EXCEPT !.state = "active", !.cleanup = "pending"] \in Jobs
      BY DEF NoJob, Jobs
    <2> QED BY <1>1, <2>1, SaveType DEF Start
  <1>2. ASSUME NEW t \in Tasks, AdmitIntent(t) PROVE TypeOK'
    BY <1>2, SaveType, JobUpdates DEF AdmitIntent
  <1>3. ASSUME NEW t \in Tasks, AdmitFail(t) PROVE TypeOK'
    BY <1>3 DEF AdmitFail
  <1>4. ASSUME NEW t \in Tasks, ExecutorCreate(t) PROVE TypeOK'
    BY <1>4 DEF ExecutorCreate, Admit
  <1>5. ASSUME NEW t \in Tasks, AdmitAnswer(t) PROVE TypeOK'
    BY <1>5, SaveType, JobUpdates DEF AdmitAnswer
  <1>6. ASSUME NEW t \in Tasks, AdmitGiveUp(t) PROVE TypeOK'
    BY <1>6 DEF AdmitGiveUp
  <1>7. ASSUME NEW t \in Tasks, LaunchIntent(t) PROVE TypeOK'
    BY <1>7, SaveType, JobUpdates DEF LaunchIntent
  <1>8. ASSUME NEW t \in Tasks, StartClient(t) PROVE TypeOK'
    BY <1>8, SaveType, JobUpdates DEF StartClient
  <1>9. ASSUME NEW t \in Tasks, RecordClient(t) PROVE TypeOK'
    BY <1>9, SaveType, JobUpdates DEF RecordClient
  <1>10. ASSUME NEW t \in Tasks, ReapClient(t) PROVE TypeOK'
    <2>1. PICK ok \in Outcomes : Save(t, [job[t] EXCEPT !.launching = "no", !.client = FALSE], ok)
      BY <1>10 DEF ReapClient
    <2>2. job' \in [Tasks -> Jobs] /\ disk' \in [Tasks -> Jobs]
      BY <2>1, SaveType, JobUpdates
    <2> QED BY <1>10, <2>2 DEF ReapClient
  <1>11. ASSUME NEW t \in Tasks, Complete(t) PROVE TypeOK'
    <2>1. job[t] \in Jobs
      OBVIOUS
    <2>2. job' \in [Tasks -> Jobs] /\ disk' \in [Tasks -> Jobs]
      BY <1>11, <2>1, JobUpdates, ZenonT(60) DEF Complete
    <2> QED BY <1>11, <2>2 DEF Complete
  <1>12. ASSUME NEW t \in Tasks, ClientExit(t) PROVE TypeOK'
    BY <1>12 DEF ClientExit
  <1>13. ASSUME NEW t \in Tasks, Cancel(t) PROVE TypeOK'
    BY <1>13 DEF Cancel
  <1>14. ASSUME NEW t \in Tasks, Retry(t) PROVE TypeOK'
    BY <1>14, JobUpdates DEF Retry
  <1>15. ASSUME NEW t \in Tasks, NeverAccepted(t) PROVE TypeOK'
    BY <1>15, SaveType, Constants DEF NeverAccepted
  <1>16. ASSUME NEW t \in Tasks, Observe(t) PROVE TypeOK'
    <2>1. observer'[t] \in Snapshots
      BY <1>16 DEF Observe, Snapshots, Jobs
    <2> QED BY <1>16, <2>1 DEF Observe
  <1>17. ASSUME NEW t \in Tasks, StopRequest(t) PROVE TypeOK'
    <2>0. PICK a \in {"error", "unallocated", "held", "blocked", "released"} :
            observer' = [observer EXCEPT ![t].at = "apply", ![t].answer = a]
      BY <1>17 DEF StopRequest
    <2>1. observer' \in [Tasks -> Snapshots]
      <3>1. observer[t] \in Snapshots
        OBVIOUS
      <3>2. observer' = [observer EXCEPT ![t] = [[observer[t] EXCEPT !.at = "apply"] EXCEPT !.answer = a]]
        BY <2>0, <3>1 DEF Snapshots
      <3> QED BY <3>1, <3>2, AnswerType
    <2>2. LTypeOK'
      BY <1>17 DEF StopRequest, StopAnswer, Seal
    <2> QED BY <1>17, <2>1, <2>2 DEF StopRequest
  <1>18. ASSUME NEW t \in Tasks, CloseStop(t) PROVE TypeOK'
    BY <1>18 DEF CloseStop, Seal
  <1>19. ASSUME NEW t \in Tasks, Executor(t) PROVE TypeOK'
    BY <1>19 DEF Executor, Run, Release, Forget
  <1>20. ASSUME NEW t \in Tasks, NEW ok \in Outcomes, Apply(t, ok) PROVE TypeOK'
    <2>1. PICK r \in Reconciled(t, observer[t]) :
            LET j == WithResources(job[t], r, Clean(t, r)) IN
            /\ job' = [job EXCEPT ![t] =
                    IF ok THEN j ELSE [j EXCEPT !.cleanup = "required", !.res = "blocked"]]
            /\ disk' = IF ok THEN [disk EXCEPT ![t] = j] ELSE disk
            /\ active' = IF ok /\ Clean(t, r) /\ active = t THEN None ELSE active
      BY <1>20 DEF Apply
    <2>2. r \in {"unallocated", "held", "blocked", "released"}
      <3>1. observer[t] \in Snapshots /\ observer[t].at = "apply" /\ Current(t)
        BY <1>20 DEF Apply, IInv, SnapshotsAreCurrent
      <3> QED BY <1>20, <3>1 DEF Reconciled, ClientGone, Snapshots, Current
    <2>3. job' \in [Tasks -> Jobs] /\ disk' \in [Tasks -> Jobs]
      <3>1. job[t] \in Jobs /\ Clean(t, r) \in BOOLEAN
        BY DEF Clean, ClientGone
      <3> QED BY <2>1, <2>2, <3>1, ReconciledType
    <2>4. active' \in {active, None}
      BY <2>1
    <2> QED BY <1>20, <2>3, <2>4, Constants DEF Apply
  <1>21. CASE Close
    BY <1>21 DEF Close
  <1>22. CASE Crash
    BY <1>22, Constants DEF Crash, Down
  <1>23. CASE HostReboot
    BY <1>23, Constants, JobUpdates DEF HostReboot, Down, KillAll
  <1>24. CASE Restart
    BY <1>24, Constants, JobUpdates DEF Restart
  <1>25. CASE UNCHANGED vars
    BY <1>25 DEF vars
  <1> QED BY <1>1, <1>2, <1>3, <1>4, <1>5, <1>6, <1>7, <1>8, <1>9, <1>10, <1>11, <1>12, <1>13,
             <1>14, <1>15, <1>16, <1>17, <1>18, <1>19, <1>20, <1>21, <1>22, <1>23, <1>24, <1>25
          DEF Next

\* What newWorker() makes of the row of a job, and of the job in memory.
RestartedJob(t) ==
    /\ disk'[t].state = IF disk[t].state = "active" THEN "finished" ELSE disk[t].state
    /\ disk'[t].cleanup = IF ResReleased(disk[t]) THEN disk[t].cleanup ELSE "pending"
    /\ disk'[t].res = disk[t].res /\ disk'[t].intent = disk[t].intent
    /\ disk'[t].launching = disk[t].launching /\ disk'[t].client = disk[t].client
    /\ job'[t] = IF disk[t].state = "tombstone" THEN NoJob ELSE disk'[t]

\* newWorker() on each row.
LEMMA RestartEffect ==
  ASSUME TypeOK, Restart, NEW t \in Tasks PROVE RestartedJob(t)
  <1>1. disk[t] \in Jobs
    BY DEF TypeOK
  <1>2. disk'[t] = Recovered(disk[t]) /\ job'[t] = IF disk[t].state = "tombstone" THEN NoJob ELSE disk'[t]
    BY DEF Restart
  <1> QED BY <1>1, <1>2 DEF Recovered, RestartedJob, Jobs

\* The last accepted job gets the slot when its resources are not released.
LEMMA RestartSlot ==
  ASSUME Restart, NEW t \in Tasks, latest = t, ~ResReleased(disk[t]) PROVE active' = t
  BY DEF Restart

\* The invariant without the types.
Rest ==
    /\ RunnerOwnsSlot /\ PhysicalIsRecorded /\ LedgerIsOurs
    /\ ClientIsRecorded /\ MemoryFollowsTable /\ SnapshotsAreCurrent

\* The tail of reconcileResources() for a job of which nothing is left: it is
\* clean in the table and in memory, and gives up the slot.
LEMMA ApplyClean ==
  ASSUME IInv, NEW t \in Tasks, observer[t].at = "apply", ~Physical(t), job[t].state = "finished",
         NEW r \in {"released", "unallocated"},
         job' = [job EXCEPT ![t] = WithResources(job[t], r, TRUE)],
         disk' = [disk EXCEPT ![t] = WithResources(job[t], r, TRUE)],
         active' = IF active = t THEN None ELSE active,
         observer' = [observer EXCEPT ![t] = Idle],
         UNCHANGED <<latest, up, pc, cancelled, client, request, ledger, live>>
  PROVE  Rest'
  <1>1. /\ up # "down" /\ pc[t] = "none" /\ job[t].cleanup # "complete"
        /\ disk \in [Tasks -> Jobs] /\ job \in [Tasks -> Jobs]
    BY DEF IInv, TypeOK, SnapshotsAreCurrent, Current, RunnerOwnsSlot
  <1>2. /\ disk'[t] = job'[t] /\ job'[t].state = "finished" /\ job'[t].cleanup = "complete"
        /\ job'[t].res = r /\ job'[t].intent = job[t].intent
    BY <1>1 DEF WithResources, Jobs
  <1>3. ASSUME NEW u \in Tasks, u # t PROVE job'[u] = job[u] /\ disk'[u] = disk[u]
    BY <1>1, <1>3
  <1>4. RunnerOwnsSlot'
    BY <1>1, <1>2, <1>3, ZenonT(60) DEF IInv, RunnerOwnsSlot
  <1>5. PhysicalIsRecorded'
    <2> SUFFICES ASSUME NEW u \in Tasks, Physical(u)'
                 PROVE  (/\ latest = u
                         /\ disk[u].state \in Accepted /\ disk[u].intent
                         /\ disk[u].res \in {"held", "blocked"} /\ disk[u].cleanup # "complete"
                         /\ up # "down" => /\ active = u /\ job[u].intent /\ job[u].cleanup # "complete"
                                           /\ job[u].res \in {"held", "blocked"})'
      BY DEF PhysicalIsRecorded
    <2>1. Physical(u)
      BY DEF Physical
    <2>2. u # t
      BY <2>1
    <2>3. active = u
      BY <1>1, <2>1 DEF IInv, PhysicalIsRecorded
    <2> QED BY <1>1, <1>3, <2>1, <2>2, <2>3 DEF IInv, PhysicalIsRecorded
  <1>6. LedgerIsOurs'
    BY <1>2, <1>3, ZenonT(60) DEF IInv, LedgerIsOurs, Accepted
  <1>7. ClientIsRecorded'
    <2>1. t \notin client
      BY DEF Physical
    <2>2. ASSUME NEW u \in Tasks, u # t
          PROVE  job'[u] = job[u] /\ disk'[u] = disk[u] /\ pc'[u] = pc[u]
      BY <1>3, <2>2
    <2>3. pc'[t] = "none" /\ t \notin client'
      BY <1>1, <2>1
    <2> DEFINE Recorded(u) ==
        /\ u \in client =>
            /\ disk[u].launching = "this" \/ disk[u].client
            /\ up # "down" => job[u].launching = "this" \/ job[u].client
            /\ pc[u] \in {"none", "started", "running", "killing"}
        /\ pc[u] \in {"starting", "started"} =>
            disk[u].launching = "this" /\ job[u].launching = "this"
        /\ pc[u] \notin {"admit", "none"} /\ disk[u].intent => job[u].intent
        /\ pc[u] \in {"create", "ready", "starting", "started", "running", "killing"} => disk[u].intent
        /\ pc[u] \in {"ready", "starting", "started", "running", "killing"} =>
            {job[u].res, disk[u].res} \subseteq {"held", "blocked"}
    <2>4. ASSUME NEW u \in Tasks, u # t PROVE Recorded(u)'
      <3>1. Recorded(u) BY DEF IInv, ClientIsRecorded
      <3> QED BY <2>2, <2>4, <3>1
    <2>5. Recorded(t)'
      BY <2>3
    <2> HIDE DEF Recorded
    <2>6. \A u \in Tasks : Recorded(u)'
      BY <2>4, <2>5
    <2> QED BY ONLY <2>6 DEF ClientIsRecorded, Recorded
  <1>8. MemoryFollowsTable'
    BY <1>1, <1>2, <1>3, ZenonT(60) DEF IInv, MemoryFollowsTable, Accepted, ResReleased
  <1>9. SnapshotsAreCurrent'
    BY <1>1, <1>3, ZenonT(60) DEF IInv, TypeOK, SnapshotsAreCurrent, Current, Idle
  <1> QED BY <1>4, <1>5, <1>6, <1>7, <1>8, <1>9 DEF Rest

\* Every step keeps the rest of the invariant.  An action touches one job; the
\* slot and the latest job change only in Start, Apply and the restarts.
LEMMA NextRest == ASSUME IInv, [Next]_vars PROVE Rest'
  <1> USE WorkerAssumption, NextType
      DEF IInv, TypeOK, LTypeOK, Receipts, Jobs, NoJob, Runner, Snapshots, Idle, Accepted,
          RunnerOwnsSlot, PhysicalIsRecorded, Physical, LedgerIsOurs, ClientIsRecorded,
          MemoryFollowsTable, ResReleased, SnapshotsAreCurrent, Current, MutexFree, Outcomes,
          Save, Step, worker, world, Rest
  <1>1. ASSUME NEW t \in Tasks, Start(t) PROVE Rest'
    BY <1>1 DEF Start
  <1>2. ASSUME NEW t \in Tasks, AdmitIntent(t) PROVE Rest'
    BY <1>2 DEF AdmitIntent
  <1>3. ASSUME NEW t \in Tasks, AdmitFail(t) PROVE Rest'
    BY <1>3 DEF AdmitFail
  <1>4. ASSUME NEW t \in Tasks, ExecutorCreate(t) PROVE Rest'
    BY <1>4 DEF ExecutorCreate, Admit
  <1>5. ASSUME NEW t \in Tasks, AdmitAnswer(t) PROVE Rest'
    <2>1. CASE ledger[t] = "open"
      BY <1>5, <2>1 DEF AdmitAnswer
    <2>2. CASE ledger[t] # "open"
      BY <1>5, <2>2 DEF AdmitAnswer
    <2> QED BY <2>1, <2>2
  <1>6. ASSUME NEW t \in Tasks, AdmitGiveUp(t) PROVE Rest'
    BY <1>6 DEF AdmitGiveUp
  <1>7. ASSUME NEW t \in Tasks, LaunchIntent(t) PROVE Rest'
    <2>1. CASE /\ Save(t, [job[t] EXCEPT !.launching = "this"], TRUE)
               /\ Step(t, "ready", "starting")
      BY <1>7, <2>1 DEF LaunchIntent
    <2>2. CASE Step(t, "ready", "complete") /\ UNCHANGED <<job, disk>>
      BY <1>7, <2>2 DEF LaunchIntent
    <2> QED BY <1>7, <2>1, <2>2 DEF LaunchIntent
  <1>8. ASSUME NEW t \in Tasks, StartClient(t) PROVE Rest'
    <2>1. CASE /\ client' = client \cup {t} /\ Step(t, "starting", "started")
               /\ UNCHANGED <<job, disk>>
      BY <1>8, <2>1 DEF StartClient
    <2>2. ASSUME NEW ok \in Outcomes, Save(t, [job[t] EXCEPT !.launching = "no"], ok),
                 Step(t, "starting", "killing"), UNCHANGED client
          PROVE  Rest'
      <3>1. CASE ok
        BY <1>8, <2>2, <3>1 DEF StartClient
      <3>2. CASE ~ok
        BY <1>8, <2>2, <3>2 DEF StartClient
      <3> QED BY <3>1, <3>2
    <2> QED BY <1>8, <2>1, <2>2 DEF StartClient
  <1>9. ASSUME NEW t \in Tasks, RecordClient(t) PROVE Rest'
    BY <1>9 DEF RecordClient
  <1>10. ASSUME NEW t \in Tasks, ReapClient(t) PROVE Rest'
    BY <1>10 DEF ReapClient
  <1>11. ASSUME NEW t \in Tasks, Complete(t) PROVE Rest'
    <2>1. PICK ok \in Outcomes :
            LET j == [job[t] EXCEPT !.state = "finished", !.cleanup = "pending"] IN
            /\ job' = [job EXCEPT ![t] = IF ok THEN j ELSE [j EXCEPT !.cleanup = "required"]]
            /\ disk' = IF ok THEN [disk EXCEPT ![t] = j] ELSE disk
      BY <1>11 DEF Complete
    <2>2. CASE ok
      BY <1>11, <2>1, <2>2 DEF Complete
    <2>3. CASE ~ok
      BY <1>11, <2>1, <2>3 DEF Complete
    <2> QED BY <2>2, <2>3
  <1>12. ASSUME NEW t \in Tasks, ClientExit(t) PROVE Rest'
    BY <1>12 DEF ClientExit
  <1>13. ASSUME NEW t \in Tasks, Cancel(t) PROVE Rest'
    BY <1>13 DEF Cancel
  <1>14. ASSUME NEW t \in Tasks, Retry(t) PROVE Rest'
    BY <1>14 DEF Retry
  <1>15. ASSUME NEW t \in Tasks, NeverAccepted(t) PROVE Rest'
    BY <1>15 DEF NeverAccepted, Tombstone
  <1>16. ASSUME NEW t \in Tasks, Observe(t) PROVE Rest'
    <2>1. RunnerOwnsSlot' /\ PhysicalIsRecorded' /\ LedgerIsOurs' /\ ClientIsRecorded' /\ MemoryFollowsTable'
      BY <1>16 DEF Observe
    <2>2. ASSUME NEW u \in Tasks PROVE Current(u)'
      <3>1. CASE u = t
        <4>1. observer'[t] = [at |-> "stop", finished |-> job[t].state = "finished", intent |-> job[t].intent,
                              launching |-> job[t].launching = "this", client |-> job[t].client,
                              answer |-> "none"]
          BY <1>16 DEF Observe
        <4>2. job[t].cleanup # "complete" /\ up = "up" /\ job' = job /\ up' = up
          BY <1>16 DEF Observe
        <4> QED BY <3>1, <4>1, <4>2
      <3>2. CASE u # t
        BY <1>16, <3>2 DEF Observe
      <3> QED BY <3>1, <3>2
    <2> QED BY <2>1, <2>2
  <1>17. ASSUME NEW t \in Tasks, StopRequest(t) PROVE Rest'
    BY <1>17 DEF StopRequest, StopAnswer, Seal
  <1>18. ASSUME NEW t \in Tasks, CloseStop(t) PROVE Rest'
    BY <1>18 DEF CloseStop, Seal
  <1>19. ASSUME NEW t \in Tasks, Executor(t) PROVE Rest'
    <2>1. CASE Run(t)
      BY <1>19, <2>1 DEF Executor, Run
    <2>2. CASE Release(t)
      BY <1>19, <2>2 DEF Executor, Release
    <2>3. CASE t \notin request /\ pc[t] # "create" /\ Forget(t)
      BY <1>19, <2>3 DEF Executor, Forget
    <2> QED BY <1>19, <2>1, <2>2, <2>3 DEF Executor
  <1>20. ASSUME NEW t \in Tasks, NEW ok \in Outcomes, Apply(t, ok) PROVE Rest'
    <2>1. PICK r \in Reconciled(t, observer[t]) :
            LET j == WithResources(job[t], r, Clean(t, r)) IN
            /\ job' = [job EXCEPT ![t] =
                    IF ok THEN j ELSE [j EXCEPT !.cleanup = "required", !.res = "blocked"]]
            /\ disk' = IF ok THEN [disk EXCEPT ![t] = j] ELSE disk
            /\ active' = IF ok /\ Clean(t, r) /\ active = t THEN None ELSE active
      BY <1>20 DEF Apply
    <2>2. /\ observer[t].at = "apply" /\ observer' = [observer EXCEPT ![t] = Idle]
          /\ UNCHANGED <<latest, up, pc, cancelled, client, request, ledger, live>>
      BY <1>20 DEF Apply
    <2>3. ASSUME Clean(t, r) PROVE ~Physical(t) /\ job[t].state = "finished"
      <3>1. r = observer[t].answer /\ observer[t].finished /\ up # "down"
        BY <2>2, <2>3 DEF Clean, ClientGone, Reconciled
      <3>2. t \notin client
        <4>1. ~observer[t].launching /\ (observer[t].client => t \notin client)
          BY <2>3 DEF Clean, ClientGone
        <4> QED BY <2>2, <3>1, <4>1
      <3>3. CASE r = "released"
        BY <2>2, <3>1, <3>2, <3>3, ZenonT(60)
      <3>4. CASE r = "unallocated"
        BY <2>2, <3>1, <3>4, ZenonT(60)
      <3> QED BY <2>3, <3>3, <3>4 DEF Clean
    <2>4. ASSUME ~Clean(t, r) PROVE r \in {"held", "blocked"}
      <3>1. observer[t] \in Snapshots /\ Current(t)
        OBVIOUS
      <3> HIDE DEF TypeOK, SnapshotsAreCurrent, IInv
      <3> QED BY <2>1, <2>2, <2>4, <3>1 DEF Clean, ClientGone, Reconciled
    <2>5. CASE ok /\ Clean(t, r)
      <3>1. /\ job' = [job EXCEPT ![t] = WithResources(job[t], r, TRUE)]
            /\ disk' = [disk EXCEPT ![t] = WithResources(job[t], r, TRUE)]
            /\ active' = IF active = t THEN None ELSE active
        BY <2>1, <2>5
      <3>2. r \in {"released", "unallocated"}
        BY <2>5 DEF Clean
      <3> HIDE DEF Rest
      <3> QED BY <2>2, <2>3, <2>5, <3>1, <3>2, ApplyClean
    <2>6. CASE ok /\ ~Clean(t, r)
      BY <2>1, <2>2, <2>4, <2>6, SMTT(30) DEF WithResources
    <2>7. CASE ~ok /\ Clean(t, r)
      BY <2>1, <2>2, <2>3, <2>7 DEF WithResources
    <2>8. CASE ~ok /\ ~Clean(t, r)
      BY <2>1, <2>2, <2>4, <2>8 DEF WithResources
    <2> QED BY <2>5, <2>6, <2>7, <2>8
  <1>21. CASE Close
    BY <1>21 DEF Close
  <1>22. CASE Crash
    BY <1>22 DEF Crash, Down
  <1>23. CASE HostReboot
    BY <1>23 DEF HostReboot, Down, KillAll
  <1>24. CASE Restart
    <2>0. /\ up = "down" /\ up' = "up"
          /\ UNCHANGED <<latest, pc, cancelled, observer, client, request, ledger, live>>
      BY <1>24 DEF Restart
    <2>1. ASSUME NEW t \in Tasks PROVE RestartedJob(t)
      BY <1>24, RestartEffect
    <2>2. ASSUME NEW t \in Tasks, Physical(t) PROVE active' = t
      <3>1. latest = t /\ ~ResReleased(disk[t])
        BY <2>2
      <3> QED BY <1>24, <3>1, RestartSlot
    <2>3. RunnerOwnsSlot' /\ LedgerIsOurs' /\ SnapshotsAreCurrent'
      <3>1. RunnerOwnsSlot'
        <4> SUFFICES ASSUME NEW t \in Tasks PROVE pc'[t] = "none" /\ job'[t].state # "active"
          OBVIOUS
        <4>1. pc'[t] = "none"
          BY <2>0
        <4>2. disk'[t].state # "active" /\ (job'[t] = NoJob \/ job'[t] = disk'[t])
          BY <2>1 DEF RestartedJob
        <4> QED BY <4>1, <4>2
      <3>2. LedgerIsOurs'
        BY <2>0, <2>1 DEF RestartedJob
      <3>3. SnapshotsAreCurrent'
        BY <2>0
      <3> QED BY <3>1, <3>2, <3>3
    <2>4. PhysicalIsRecorded'
      <3> SUFFICES ASSUME NEW t \in Tasks, Physical(t)
                   PROVE  /\ latest' = t /\ disk'[t].state \in Accepted /\ disk'[t].intent
                          /\ disk'[t].res \in {"held", "blocked"} /\ disk'[t].cleanup # "complete"
                          /\ active' = t /\ job'[t].intent /\ job'[t].cleanup # "complete"
                          /\ job'[t].res \in {"held", "blocked"}
        BY <2>0
      <3> QED BY <2>0, <2>1, <2>2 DEF RestartedJob
    <2>5. ClientIsRecorded'
      BY <2>0, <2>1 DEF RestartedJob
    <2>6. MemoryFollowsTable'
      BY <2>0, <2>1 DEF RestartedJob
    <2> QED BY <2>3, <2>4, <2>5, <2>6
  <1>25. CASE UNCHANGED vars
    BY <1>25 DEF vars
  <1> HIDE DEF IInv, Rest, TypeOK, LTypeOK, Jobs, NoJob, Runner, Snapshots, Idle, Physical,
               ResReleased, Current, MutexFree, Outcomes, Save, Step, worker, world
  <1> QED BY <1>1, <1>2, <1>3, <1>4, <1>5, <1>6, <1>7, <1>8, <1>9, <1>10, <1>11, <1>12, <1>13,
             <1>14, <1>15, <1>16, <1>17, <1>18, <1>19, <1>20, <1>21, <1>22, <1>23, <1>24, <1>25
          DEF Next

\* The invariant of the worker holds: table, memory, goroutines and the world
\* agree after any sequence of calls, lost answers, failed writes, crashes and
\* reboots (worker.go, lifecycle.go).
THEOREM Invariant == Spec => []IInv
  <1>1. Init => IInv
    BY WorkerAssumption
    DEF Init, LInit, IInv, TypeOK, LTypeOK, Receipts, Jobs, NoJob, Runner, Snapshots, Idle, Accepted,
        RunnerOwnsSlot, PhysicalIsRecorded, Physical, LedgerIsOurs, ClientIsRecorded,
        MemoryFollowsTable, ResReleased, SnapshotsAreCurrent, Current
  <1>2. IInv /\ [Next]_vars => IInv'
    BY NextType, NextRest DEF IInv, Rest
  <1> QED BY <1>1, <1>2, PTL DEF Spec

\* A job whose cleanup is reported complete has no session, no process and no
\* client, and a create request that is still on its way finds it sealed; a job
\* reported as never accepted never runs (lifecycle.go reconcileResources,
\* worker.go Call "resources").
THEOREM CompleteIsReal == Spec => []CleanupIsReal
  <1>1. IInv => CleanupIsReal
    <2> SUFFICES ASSUME IInv PROVE CleanupIsReal
      OBVIOUS
    <2>1. NeverRuns
      BY DEF IInv, TypeOK, LTypeOK, Receipts, NeverRuns, RunnerOwnsSlot, PhysicalIsRecorded,
             Physical, LedgerIsOurs, Accepted
    <2>2. ASSUME NEW t \in Tasks, NEW j \in {job[t], disk[t]}, j.state # "none", j.cleanup = "complete"
          PROVE  /\ t \notin client \cup live /\ ledger[t] # "open"
                 /\ t \in request => ledger[t] = "released"
      <3>1. disk[t].cleanup = "complete"
        BY <2>2 DEF IInv, MemoryFollowsTable, NoJob
      <3>2. ~Physical(t)
        BY <3>1 DEF IInv, PhysicalIsRecorded
      <3> QED BY <3>2 DEF IInv, TypeOK, LTypeOK, Receipts, Physical, LedgerIsOurs
    <2> QED BY <2>1, <2>2 DEF CleanupIsReal
  <1> QED BY <1>1, Invariant, PTL

\* The slot is free only when nothing of any job exists (worker.go Call "start",
\* newWorker).
THEOREM SlotIsFree == Spec => []FreeSlot
  <1>1. IInv => FreeSlot
    BY WorkerAssumption
    DEF IInv, TypeOK, LTypeOK, Receipts, FreeSlot, PhysicalIsRecorded, Physical, LedgerIsOurs
  <1> QED BY <1>1, Invariant, PTL

\* What is durably clean stays clean (lifecycle.go reconcileResources, worker.go
\* newWorker and Call "resources_retry").
THEOREM CleanStays == Spec => CleanIsFinal
  <1>1. ASSUME IInv, [Next]_vars PROVE CleanKept
    <2> SUFFICES ASSUME NEW u \in Tasks, disk[u].cleanup = "complete", disk[u].state # "none"
                 PROVE  disk'[u].cleanup = "complete"
      BY DEF CleanKept
    <2>0. /\ disk \in [Tasks -> Jobs] /\ pc[u] = "none" /\ observer[u].at # "apply"
          /\ disk[u] # NoJob /\ ResReleased(disk[u])
      BY <1>1 DEF IInv, TypeOK, RunnerOwnsSlot, MemoryFollowsTable, SnapshotsAreCurrent, Current, NoJob
    <2>1. ASSUME NEW t \in Tasks, Start(t) \/ NeverAccepted(t) PROVE disk'[u] = disk[u]
      BY <2>0, <2>1 DEF Start, NeverAccepted, Save
    <2>2. ASSUME NEW t \in Tasks,
                 \/ AdmitIntent(t) \/ AdmitAnswer(t) \/ LaunchIntent(t) \/ StartClient(t)
                 \/ RecordClient(t) \/ ReapClient(t) \/ Complete(t)
          PROVE  disk'[u] = disk[u]
      BY <2>0, <2>2 DEF AdmitIntent, AdmitAnswer, LaunchIntent, StartClient, RecordClient, ReapClient,
                        Complete, Save, Step
    <2>3. ASSUME NEW t \in Tasks, NEW ok \in Outcomes, Apply(t, ok) PROVE disk'[u] = disk[u]
      BY <2>0, <2>3 DEF Apply
    <2>4. CASE HostReboot
      BY <2>0, <2>4 DEF HostReboot, Jobs
    <2>5. CASE Restart
      <3>1. RestartedJob(u)
        BY <1>1, <2>5, RestartEffect DEF IInv
      <3> QED BY <2>0, <3>1 DEF RestartedJob
    <2>6. ASSUME NEW t \in Tasks,
                 \/ AdmitFail(t) \/ ExecutorCreate(t) \/ AdmitGiveUp(t) \/ ClientExit(t) \/ Cancel(t)
                 \/ Retry(t) \/ Observe(t) \/ StopRequest(t) \/ CloseStop(t) \/ Executor(t)
          PROVE  disk' = disk
      BY <2>6 DEF AdmitFail, ExecutorCreate, AdmitGiveUp, ClientExit, Cancel, Retry, Observe,
                  StopRequest, CloseStop, Executor, worker
    <2>7. CASE Close \/ Crash \/ UNCHANGED vars
      BY <2>7 DEF Close, Crash, vars, worker
    <2> QED BY <1>1, <2>1, <2>2, <2>3, <2>4, <2>5, <2>6, <2>7 DEF Next
  <1> QED BY <1>1, Invariant, PTL DEF Spec, CleanIsFinal
=============================================================================
