----------------------------- MODULE NixWorker -----------------------------
(***************************************************************************)
(* The Nix worker (internal/worker): it accepts one job at a time, asks    *)
(* the executor for the job's session, runs Nix clients in it, and         *)
(* releases session and client before it takes the next job.               *)
(*                                                                         *)
(* The executor is the ledger it implements (SessionLedger).  The RPCs     *)
(* between the two are unreliable: a create may still be on its way when   *)
(* the worker gave up on it or crashed, and any answer may be lost.        *)
(*                                                                         *)
(* Worker.mu makes a handler one action.  The runner goroutine of a job    *)
(* (run, admit, runClient, complete) and its observer (reconcileResources) *)
(* release the mutex around RPCs, which is where they are split.           *)
(*                                                                         *)
(* Evidence collection and handoff, which begin when the cleanup is        *)
(* complete, are the subject of EvidenceHandoff.                           *)
(***************************************************************************)
EXTENDS SessionLedger

CONSTANTS
    None,           \* no job
    SaveFaults      \* whether a write to the worker's database may fail

ASSUME WorkerAssumption ==
    /\ None \notin Tasks
    /\ SaveFaults \in BOOLEAN

VARIABLES
    job,            \* w.jobs: the job in memory, or NoJob
    disk,           \* worker_jobs: the row of the job, or NoJob
    latest,         \* the accepted job with the highest row sequence
    up,             \* "down", "up" or "closing"
    active,         \* w.active
    pc,             \* the runner goroutine of the job
    cancelled,      \* jobs whose context is cancelled, by a StopReason unless closing
    observer,       \* the observer goroutine of the job
    client,         \* jobs with a Nix client process
    request         \* jobs with a create request on its way to the executor

worker == <<job, disk, latest, up, active, pc, cancelled, observer>>
world == <<client, request>>
vars == <<worker, world, ledger, live>>

\* Importing and building are one state; owned and releasing resources are "held".
\* launching tells whether the launch was recorded in this boot of the host.
Jobs == [state : {"none", "tombstone", "active", "finished"},
         cleanup : {"pending", "required", "complete"},
         res : {"unallocated", "held", "blocked", "released"},
         intent : BOOLEAN, launching : {"no", "this", "past"}, client : BOOLEAN]

NoJob == [state |-> "none", cleanup |-> "complete", res |-> "unallocated",
          intent |-> FALSE, launching |-> "no", client |-> FALSE]

\* The receipt of a job that "resources" found unknown.
Tombstone == [NoJob EXCEPT !.state = "tombstone"]

Runner == {"none", "admit", "create", "ready", "starting", "started", "running",
           "killing", "complete"}

Snapshots == [at : {"idle", "stop", "apply"}, finished : BOOLEAN, intent : BOOLEAN,
              launching : BOOLEAN, client : BOOLEAN,
              answer : {"none", "error", "unallocated", "held", "blocked", "released"}]

Idle == [at |-> "idle", finished |-> FALSE, intent |-> FALSE, launching |-> FALSE,
         client |-> FALSE, answer |-> "none"]

TypeOK ==
    /\ LTypeOK
    /\ job \in [Tasks -> Jobs] /\ disk \in [Tasks -> Jobs]
    /\ up \in {"down", "up", "closing"}
    /\ active \in Tasks \cup {None} /\ latest \in Tasks \cup {None}
    /\ pc \in [Tasks -> Runner]
    /\ cancelled \subseteq Tasks
    /\ observer \in [Tasks -> Snapshots]
    /\ client \subseteq Tasks /\ request \subseteq Tasks

Init ==
    /\ LInit
    /\ job = [t \in Tasks |-> NoJob] /\ disk = [t \in Tasks |-> NoJob]
    /\ up = "up" /\ active = None /\ latest = None
    /\ pc = [t \in Tasks |-> "none"]
    /\ cancelled = {}
    /\ observer = [t \in Tasks |-> Idle]
    /\ client = {} /\ request = {}

-----------------------------------------------------------------------------
(* Helpers.                                                                *)

\* runClient keeps the mutex between the two writes around Start.
MutexFree == up # "down" /\ \A t \in Tasks : pc[t] \notin {"starting", "started"}

Outcomes == IF SaveFaults THEN BOOLEAN ELSE {TRUE}

\* Worker.save after the job in memory became j.
Save(t, j, ok) ==
    /\ job' = [job EXCEPT ![t] = j]
    /\ disk' = IF ok THEN [disk EXCEPT ![t] = j] ELSE disk

\* NixResources.Released
ResReleased(j) == j.res \in {"released", "unallocated"}

Step(t, from, to) == pc[t] = from /\ pc' = [pc EXCEPT ![t] = to]

-----------------------------------------------------------------------------
(* Call("start") and the runner goroutine.                                 *)

\* Mutant of Start: a receipt that is only in the table is overlooked.
StartFromMemory(t) ==
    /\ MutexFree /\ up = "up"
    /\ job[t] = NoJob
    /\ active = None
    /\ Save(t, [NoJob EXCEPT !.state = "active", !.cleanup = "pending"], TRUE)
    /\ active' = t /\ latest' = t
    /\ Step(t, "none", "admit")
    /\ UNCHANGED <<up, cancelled, observer, world, ledger, live>>

\* A new job is accepted into the free slot, once its row is saved.
Start(t) ==
    /\ MutexFree /\ up = "up"
    /\ job[t] = NoJob /\ disk[t] = NoJob
    /\ active = None
    /\ Save(t, [NoJob EXCEPT !.state = "active", !.cleanup = "pending"], TRUE)
    /\ active' = t /\ latest' = t
    /\ Step(t, "none", "admit")
    /\ UNCHANGED <<up, cancelled, observer, world, ledger, live>>

\* Mutant of AdmitIntent: the request leaves although the intent was not saved.
AdmitUnsaved(t) ==
    /\ MutexFree
    /\ t \notin cancelled
    /\ \E ok \in Outcomes : Save(t, [job[t] EXCEPT !.intent = TRUE, !.res = "held"], ok)
    /\ Step(t, "admit", "create") /\ request' = request \cup {t}
    /\ UNCHANGED <<latest, up, active, cancelled, observer, client, ledger, live>>

\* admit(): the intent is durable before the create request leaves.
AdmitIntent(t) ==
    /\ MutexFree /\ pc[t] = "admit"
    /\ t \notin cancelled
    /\ \E ok \in Outcomes :
        /\ Save(t, [job[t] EXCEPT !.intent = TRUE, !.res = "held"], ok)
        /\ IF ok THEN Step(t, "admit", "create") /\ request' = request \cup {t}
                 ELSE Step(t, "admit", "complete") /\ UNCHANGED request
    /\ UNCHANGED <<latest, up, active, cancelled, observer, client, ledger, live>>

\* Cancelled before the intent, the executor is not ready, or the log cannot be opened.
AdmitFail(t) ==
    /\ MutexFree
    /\ Step(t, "admit", "complete")
    /\ UNCHANGED <<job, disk, latest, up, active, cancelled, observer, world, ledger, live>>

\* The executor takes a create request off the wire: it opens a session, or
\* answers with the receipt it has, or refuses.
ExecutorCreate(t) ==
    /\ t \in request
    /\ request' = request \ {t}
    /\ Admit(t) \/ UNCHANGED <<ledger, live>>
    /\ UNCHANGED <<worker, client>>

\* admit() after the answer: only a session that is open starts a client.
AdmitAnswer(t) ==
    /\ MutexFree /\ pc[t] = "create"
    /\ t \notin request
    /\ ledger[t] # "none"
    /\ \E ok \in Outcomes :
        /\ Save(t, [job[t] EXCEPT !.res = IF ledger[t] = "open" THEN "held" ELSE "released"], ok)
        /\ Step(t, "create", IF ok /\ ledger[t] = "open" THEN "ready" ELSE "complete")
    /\ UNCHANGED <<latest, up, active, cancelled, observer, world, ledger, live>>

\* The answer is lost, refuses, or the context ends while the request is out.
AdmitGiveUp(t) ==
    /\ up # "down"
    /\ Step(t, "create", "complete")
    /\ UNCHANGED <<job, disk, latest, up, active, cancelled, observer, world, ledger, live>>

\* runClient(): the launch is durable before the process exists.
LaunchIntent(t) ==
    /\ MutexFree
    /\ pc[t] = "ready"
    /\ \E ok \in Outcomes :
        IF ok THEN /\ Save(t, [job[t] EXCEPT !.launching = "this"], TRUE)
                   /\ Step(t, "ready", "starting")
              ELSE Step(t, "ready", "complete") /\ UNCHANGED <<job, disk>>
    /\ UNCHANGED <<latest, up, active, cancelled, observer, world, ledger, live>>

\* Cmd.Start; it fails at once for a cancelled context.
StartClient(t) ==
    /\ up # "down" /\ pc[t] = "starting"
    /\ \/ /\ t \notin cancelled
          /\ client' = client \cup {t}
          /\ Step(t, "starting", "started")
          /\ UNCHANGED <<job, disk>>
       \/ /\ \E ok \in Outcomes : Save(t, [job[t] EXCEPT !.launching = "no"], ok)
          /\ Step(t, "starting", "killing")
          /\ UNCHANGED client
    /\ UNCHANGED <<latest, up, active, cancelled, observer, request, ledger, live>>

\* The identity of the process is recorded; without it the process is killed.
RecordClient(t) ==
    /\ up # "down" /\ pc[t] = "started"
    /\ \E ok \in Outcomes, inspected \in BOOLEAN :
        /\ Save(t, IF inspected THEN [job[t] EXCEPT !.launching = "no", !.client = TRUE]
                                ELSE job[t], ok)
        /\ Step(t, "started", IF ok /\ inspected THEN "running" ELSE "killing")
    /\ UNCHANGED <<latest, up, active, cancelled, observer, world, ledger, live>>

\* runClient() after Wait: the record is cleared.  A successful client may be
\* followed by the one of the next stage (session, import, validate, build).
ReapClient(t) ==
    /\ MutexFree
    /\ pc[t] \in {"running", "killing"}
    /\ t \notin client
    /\ \E ok \in Outcomes, next \in {"ready", "complete"} :
        /\ Save(t, [job[t] EXCEPT !.launching = "no", !.client = FALSE], ok)
        /\ next = "ready" => ok /\ pc[t] = "running"
        /\ pc' = [pc EXCEPT ![t] = next]
    /\ UNCHANGED <<latest, up, active, cancelled, observer, world, ledger, live>>

\* complete(): the result, and the cleanup that is now due.
Complete(t) ==
    /\ MutexFree
    /\ Step(t, "complete", "none")
    /\ \E ok \in Outcomes :
        LET j == [job[t] EXCEPT !.state = "finished", !.cleanup = "pending"] IN
        /\ job' = [job EXCEPT ![t] = IF ok THEN j ELSE [j EXCEPT !.cleanup = "required"]]
        /\ disk' = IF ok THEN [disk EXCEPT ![t] = j] ELSE disk
    /\ cancelled' = cancelled \ {t}
    /\ UNCHANGED <<latest, up, active, observer, world, ledger, live>>

\* The client ends: by itself, with its context, or by a signal.
ClientExit(t) ==
    /\ t \in client
    /\ client' = client \ {t}
    /\ UNCHANGED <<worker, request, ledger, live>>

-----------------------------------------------------------------------------
(* Stopping and observing.                                                 *)

\* Call("cancel"), Call("resources") or the deadline of a known job: the stop
\* reason and the cancelled context.
Cancel(t) ==
    /\ MutexFree
    /\ job[t].state = "active" /\ t \notin cancelled
    /\ cancelled' = cancelled \cup {t}
    /\ UNCHANGED <<job, disk, latest, up, active, pc, observer, world, ledger, live>>

\* Call("resources_retry") of a job that is not clean yet.
Retry(t) ==
    /\ MutexFree
    /\ job[t].cleanup # "complete"
    /\ job' = [job EXCEPT ![t].res = "held", ![t].cleanup = "pending"]
    /\ cancelled' = IF job[t].state = "active" THEN cancelled \cup {t} ELSE cancelled
    /\ UNCHANGED <<disk, latest, up, active, pc, observer, world, ledger, live>>

\* Mutant of NeverAccepted: a job without a running execution counts as unknown.
NeverAcceptedIdle(t) ==
    /\ MutexFree
    /\ job[t].state # "active"
    /\ Save(t, Tombstone, TRUE)
    /\ UNCHANGED <<latest, up, active, pc, cancelled, observer, world, ledger, live>>

\* Call("resources") of an unknown job: the receipt refuses a delayed start.
NeverAccepted(t) ==
    /\ MutexFree
    /\ job[t] = NoJob /\ disk[t] = NoJob
    /\ Save(t, Tombstone, TRUE)
    /\ UNCHANGED <<latest, up, active, pc, cancelled, observer, world, ledger, live>>

\* Mutant of Observe: a blocked cleanup is not observed again.
ObserveUnblocked(t) ==
    /\ MutexFree /\ up = "up"
    /\ observer[t].at = "idle"
    /\ job[t].cleanup = "pending"
    /\ job[t].state = "finished" \/ t \in cancelled
    /\ observer' = [observer EXCEPT ![t] =
            [at |-> "stop", finished |-> job[t].state = "finished", intent |-> job[t].intent,
             launching |-> job[t].launching = "this", client |-> job[t].client,
             answer |-> "none"]]
    /\ UNCHANGED <<job, disk, latest, up, active, pc, cancelled, world, ledger, live>>

\* observeLocked() and the snapshot at the head of reconcileResources().
Observe(t) ==
    /\ MutexFree /\ up = "up"
    /\ observer[t].at = "idle"
    /\ job[t].cleanup # "complete"
    /\ job[t].state = "finished" \/ t \in cancelled
    /\ observer' = [observer EXCEPT ![t] =
            [at |-> "stop", finished |-> job[t].state = "finished", intent |-> job[t].intent,
             launching |-> job[t].launching = "this", client |-> job[t].client,
             answer |-> "none"]]
    /\ UNCHANGED <<job, disk, latest, up, active, pc, cancelled, world, ledger, live>>

\* Mutant of StopAnswer: an unknown job is answered without a receipt.
StopUnsealed(t, a) ==
    \/ ledger[t] = "open" /\ a \in {"held", "blocked"} /\ UNCHANGED <<ledger, live>>
    \/ ledger[t] # "open" /\ a = "released" /\ UNCHANGED <<ledger, live>>

\* The executor's answer to a stop: an unknown job is sealed; a job with an open
\* session is being released.
StopAnswer(t, a) ==
    \/ Seal(t) /\ a = "released"
    \/ ledger[t] = "open" /\ a \in {"held", "blocked"} /\ UNCHANGED <<ledger, live>>
    \/ ledger[t] = "released" /\ a = "released" /\ UNCHANGED <<ledger, live>>

\* The stop request of the observer.  Request or answer may be lost, or come
\* from an executor with another identity: an error.
StopRequest(t) ==
    /\ up # "down" /\ observer[t].at = "stop"
    /\ \E a, b \in {"error", "unallocated", "held", "blocked", "released"} :
        /\ \/ ~observer[t].intent /\ a = "unallocated" /\ b = a /\ UNCHANGED <<ledger, live>>
           \/ observer[t].intent /\ StopAnswer(t, a) /\ b \in {a, "error"}
           \/ observer[t].intent /\ a = "error" /\ b = a /\ UNCHANGED <<ledger, live>>
        /\ observer' = [observer EXCEPT ![t].at = "apply", ![t].answer = b]
    /\ UNCHANGED <<job, disk, latest, up, active, pc, cancelled, world>>

\* releaseClient(): nothing is left of the client the snapshot names.  A client
\* that still runs has been sent a kill.
ClientGone(t, s) ==
    /\ s.finished /\ ~s.launching /\ s.answer # "error"
    /\ s.client => t \notin client

\* The resource states reconcileResources() may record for snapshot s.
Reconciled(t, s) ==
    IF s.answer = "error" \/ (s.launching /\ s.finished) THEN {"blocked"}
    ELSE IF ~ClientGone(t, s) THEN {"held", "blocked"}
    ELSE {s.answer}

\* Nothing of the job is left for reconcileResources() when it records r.
Clean(t, r) == ClientGone(t, observer[t]) /\ r \in {"released", "unallocated"}

\* The job with resource state r.
WithResources(j, r, clean) ==
    [j EXCEPT !.res = r,
              !.cleanup = IF clean THEN "complete" ELSE IF r = "blocked" THEN "required" ELSE "pending",
              !.client = @ /\ ~clean, !.launching = IF clean THEN "no" ELSE @]

\* The tail of reconcileResources().  Nothing is complete before it is durable.
Apply(t, ok) ==
    /\ MutexFree
    /\ observer[t].at = "apply"
    /\ observer' = [observer EXCEPT ![t] = Idle]
    /\ \E r \in Reconciled(t, observer[t]) :
        LET j == WithResources(job[t], r, Clean(t, r)) IN
        /\ job' = [job EXCEPT ![t] =
                IF ok THEN j ELSE [j EXCEPT !.cleanup = "required", !.res = "blocked"]]
        /\ disk' = IF ok THEN [disk EXCEPT ![t] = j] ELSE disk
        /\ active' = IF ok /\ Clean(t, r) /\ active = t THEN None ELSE active
    /\ UNCHANGED <<latest, up, pc, cancelled, world, ledger, live>>

-----------------------------------------------------------------------------
(* Shutdown, crashes and restarts.                                         *)

\* Close(): contexts are cancelled and no observer starts.
Close ==
    /\ MutexFree /\ up = "up"
    /\ up' = "closing"
    /\ cancelled' = {t \in Tasks : job[t].state = "active"}
    /\ UNCHANGED <<job, disk, latest, active, pc, observer, world, ledger, live>>

\* Close(): a stop for a session whose cleanup is not complete.
CloseStop(t) ==
    /\ up = "closing"
    /\ job[t].intent /\ job[t].cleanup # "complete"
    /\ Seal(t)
    /\ UNCHANGED <<worker, world>>

Down ==
    /\ up' = "down" /\ active' = None
    /\ job' = [t \in Tasks |-> NoJob]
    /\ pc' = [t \in Tasks |-> "none"]
    /\ cancelled' = {}
    /\ observer' = [t \in Tasks |-> Idle]

\* The worker ends, at any point; its clients and requests live on.
Crash ==
    /\ up # "down"
    /\ Down
    /\ UNCHANGED <<disk, latest, world, ledger, live>>

HostReboot ==
    /\ Down
    /\ client' = {} /\ request' = {}
    /\ disk' = [t \in Tasks |->
            IF disk[t].launching = "this" THEN [disk[t] EXCEPT !.launching = "past"] ELSE disk[t]]
    /\ KillAll
    /\ UNCHANGED latest

\* newWorker(): an execution without a result is interrupted, and the last job
\* with unreleased resources takes the slot.
Recovered(j) ==
    [j EXCEPT !.state = IF @ = "active" THEN "finished" ELSE @,
              !.cleanup = IF ResReleased(j) THEN @ ELSE "pending"]

\* Mutant of Restart: the first job with unreleased resources takes the slot.
RestartFirst ==
    /\ up = "down"
    /\ up' = "up"
    /\ disk' = [t \in Tasks |-> Recovered(disk[t])]
    /\ job' = [t \in Tasks |-> IF disk[t].state = "tombstone" THEN NoJob ELSE disk'[t]]
    /\ LET held == {t \in Tasks : ~ResReleased(disk[t])} IN
        active' \in IF held = {} THEN {None} ELSE IF held = {latest} THEN {latest} ELSE held \ {latest}
    /\ UNCHANGED <<latest, pc, cancelled, observer, world, ledger, live>>

Restart ==
    /\ up = "down"
    /\ up' = "up"
    /\ disk' = [t \in Tasks |-> Recovered(disk[t])]
    /\ job' = [t \in Tasks |-> IF disk[t].state = "tombstone" THEN NoJob ELSE disk'[t]]
    /\ LET held == {t \in Tasks : ~ResReleased(disk[t])} IN
        active' \in IF held = {} THEN {None} ELSE IF latest \in held THEN {latest} ELSE held
    /\ UNCHANGED <<latest, pc, cancelled, observer, world, ledger, live>>

-----------------------------------------------------------------------------
\* The executor between the worker's requests.  It keeps a receipt for 30 days,
\* longer than a request can be on its way.
Executor(t) ==
    /\ Run(t) \/ Release(t) \/ (t \notin request /\ pc[t] # "create" /\ Forget(t))
    /\ UNCHANGED <<worker, world>>

Next ==
    \/ \E t \in Tasks :
        \/ Start(t) \/ AdmitIntent(t) \/ AdmitFail(t) \/ ExecutorCreate(t)
        \/ AdmitAnswer(t) \/ AdmitGiveUp(t)
        \/ LaunchIntent(t) \/ StartClient(t) \/ RecordClient(t) \/ ReapClient(t)
        \/ Complete(t) \/ ClientExit(t)
        \/ Cancel(t) \/ Retry(t) \/ NeverAccepted(t)
        \/ Observe(t) \/ StopRequest(t) \/ \E ok \in Outcomes : Apply(t, ok)
        \/ CloseStop(t) \/ Executor(t)
    \/ Close \/ Crash \/ HostReboot \/ Restart

Spec == Init /\ [][Next]_vars

\* The runner goroutine goes on, a client whose context ended or that was killed
\* exits, maintain() ticks every second, and neither the executor's answer nor
\* the write of the result fails for ever.  A stopped session is released in the
\* end: ObservedIsReleased of NixExecutor.
Fairness ==
    \A t \in Tasks :
        /\ WF_vars(AdmitFail(t) \/ AdmitGiveUp(t) \/ LaunchIntent(t) \/ StartClient(t)
                     \/ RecordClient(t) \/ ReapClient(t) \/ Complete(t))
        /\ WF_vars(ReapClient(t) /\ pc'[t] = "complete")
        /\ WF_vars(ClientExit(t))
        /\ WF_vars(Observe(t))
        /\ WF_vars(StopRequest(t)) /\ SF_vars(StopRequest(t) /\ observer'[t].answer # "error")
        /\ WF_vars(\E ok \in Outcomes : Apply(t, ok))
        /\ SF_vars(observer[t].answer # "error" /\ Apply(t, TRUE))
        /\ WF_vars(Executor(t) /\ t \in live \ live')
        /\ SF_vars(Executor(t) /\ ledger'[t] = "released")

FairSpec == Spec /\ Fairness

-----------------------------------------------------------------------------
(* Properties.                                                             *)

\* A job that the controller was told was never accepted never runs.
NeverRuns ==
    \A t \in Tasks : disk[t].state = "tombstone" =>
        t \notin client \cup live \cup request /\ ledger[t] = "none" /\ pc[t] = "none"

\* Cleanup "complete" is true: the job's session is not open, none of its
\* processes run, no client of it runs, and a create request that is still on
\* its way will find the job sealed.  A lost answer, a crash between launch and
\* identity, and a failed write must all lead elsewhere.
CleanupIsReal ==
    /\ NeverRuns
    /\ \A t \in Tasks : (\E j \in {job[t], disk[t]} : j.state # "none" /\ j.cleanup = "complete") =>
            /\ t \notin client \cup live
            /\ ledger[t] # "open"
            /\ t \in request => ledger[t] = "released"

\* A free slot means a free worker: whatever an earlier job left open keeps the
\* slot, also across a restart.
FreeSlot ==
    up # "down" /\ active = None =>
        \A t \in Tasks : t \notin client /\ ledger[t] # "open" /\ (t \in request => ledger[t] = "released")

\* What is durably clean stays clean: no restart, retry or late observer takes
\* it back.
CleanKept ==
    \A t \in Tasks : disk[t].cleanup = "complete" /\ disk[t].state # "none" => disk'[t].cleanup = "complete"
CleanIsFinal == [][CleanKept]_vars

\* Once a job is cancelled, or found interrupted at a restart with its client
\* identified, its cleanup completes while the worker stays up.
CleanupCompletes ==
    \A t \in Tasks :
        (t \in cancelled \/ (job[t].state = "finished" /\ job[t].launching # "this"))
            ~> (job[t].cleanup = "complete" \/ up # "up")

-----------------------------------------------------------------------------
(* The inductive invariant behind the safety properties.                   *)

\* Something of job t exists, or will when its create request arrives.
Physical(t) ==
    t \in client \/ ledger[t] = "open" \/ (t \in request /\ ledger[t] = "none")

Accepted == {"active", "finished"}

\* A runner belongs to the one active job, which is the latest.
RunnerOwnsSlot ==
    \A t \in Tasks :
        /\ pc[t] # "none" <=> job[t].state = "active"
        /\ pc[t] # "none" => /\ up # "down" /\ active = t /\ latest = t
                            /\ disk[t].state = "active"

\* What is physical was announced durably first, and holds the slot.
PhysicalIsRecorded ==
    \A t \in Tasks : Physical(t) =>
        /\ latest = t
        /\ disk[t].state \in Accepted /\ disk[t].intent
        /\ disk[t].res \in {"held", "blocked"} /\ disk[t].cleanup # "complete"
        /\ up # "down" => /\ active = t /\ job[t].intent /\ job[t].cleanup # "complete"
                          /\ job[t].res \in {"held", "blocked"}

\* The executor knows only accepted jobs, and runs processes of open sessions.
LedgerIsOurs ==
    /\ \A t \in Tasks : ledger[t] # "none" \/ t \in request => disk[t].state \in Accepted
    /\ \A t \in live : ledger[t] = "open"

\* A client is recorded, as a launch or by identity, until it is gone.
ClientIsRecorded ==
    \A t \in Tasks :
        /\ t \in client =>
            /\ disk[t].launching = "this" \/ disk[t].client
            /\ up # "down" => job[t].launching = "this" \/ job[t].client
            /\ pc[t] \in {"none", "started", "running", "killing"}
        /\ pc[t] \in {"starting", "started"} =>
            disk[t].launching = "this" /\ job[t].launching = "this"
        /\ pc[t] \notin {"admit", "none"} /\ disk[t].intent => job[t].intent
        /\ pc[t] \in {"create", "ready", "starting", "started", "running", "killing"} => disk[t].intent
        /\ pc[t] \in {"ready", "starting", "started", "running", "killing"} =>
            {job[t].res, disk[t].res} \subseteq {"held", "blocked"}

\* Memory and table agree on what is known and what is clean.
MemoryFollowsTable ==
    \A t \in Tasks :
        /\ up = "down" => job[t] = NoJob
        /\ up # "down" => /\ disk[t].state \in Accepted <=> job[t].state \in Accepted
                          /\ disk[t].cleanup = "complete" <=> job[t].cleanup = "complete"
                          /\ disk[t].intent => job[t].intent
                          /\ disk[t].state = "finished" => job[t].state = "finished"
        /\ disk[t].state \in {"none", "tombstone"} => disk[t].cleanup = "complete" /\ ~disk[t].intent
        /\ job[t].state \in {"none", "tombstone"} => job[t].cleanup = "complete"
        /\ disk[t].cleanup = "complete" => ResReleased(disk[t])
        /\ disk[t].state = "active" => disk[t].cleanup # "complete"

\* A snapshot of a finished job is still accurate when it is applied, and a
\* "released" answer to it is still true.
Current(t) ==
    observer[t].at # "idle" =>
        /\ up # "down"
        /\ job[t].state \in Accepted /\ job[t].cleanup # "complete"
        /\ observer[t].finished =>
            /\ job[t].state = "finished"
            /\ observer[t].intent <=> job[t].intent
            /\ observer[t].launching <=> job[t].launching = "this"
            /\ observer[t].client <=> job[t].client
            /\ observer[t].at = "apply" => observer[t].answer # "none"
            /\ observer[t].answer = "released" =>
                ledger[t] = "released" \/ (ledger[t] = "none" /\ t \notin request)
            /\ observer[t].answer = "unallocated" => ~job[t].intent

SnapshotsAreCurrent == \A t \in Tasks : Current(t)

\* The inductive invariant.
IInv ==
    /\ TypeOK
    /\ RunnerOwnsSlot
    /\ PhysicalIsRecorded
    /\ LedgerIsOurs
    /\ ClientIsRecorded
    /\ MemoryFollowsTable
    /\ SnapshotsAreCurrent

=============================================================================
