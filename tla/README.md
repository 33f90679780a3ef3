# Verification of vm-test-mcp

This directory holds TLA+ models of `tools/vm-test-mcp`, the service of this
repository that runs VirtualBox labs and NixOS test jobs on behalf of MCP clients,
with the TLC configurations that check them and TLAPS proofs about all of them.
The other tools of the repository are independent programs; the inventory says
which of them are worth a model and which are not.

Run TLC with `tlc -config <cfg> <MC module>` and the proofs with `tlapm
<name>Proofs.tla`. `PROJECT.json` maps every definition to the lines it models and
lists runs, mutants, hazards and theorems.

## 1. Inventory

### vm-test-mcp

| Part | State | Operations | Module |
| --- | --- | --- | --- |
| Nix executor (`internal/nixexecutor`, root) | `executor_sessions` rows, open sessions, cgroups, listeners | create, accept, stop, extend, deadline, observation, expiry, shutdown, recovery | `NixExecutor`, `SessionLedger` |
| Nix worker (`internal/worker`, unprivileged) | `worker_jobs` rows, the active job, its runner and observer goroutines, its client process | start, admit, run client, cancel, resources, retry, reconcile, restart | `NixWorker` |
| Evidence handoff (worker, `internal/nixos`, `control/nix_lifecycle.go`) | `worker_files`, the files, the controller's evidence state, manifest digest, attempts | index, list, stream, publish, acknowledge, remove, recover | `EvidenceHandoff` |
| Scheduler (`control/server.go`, `cleanup.go`, `nix_lifecycle.go`, `operations.go`) | `executions` rows, `s.tasks`, `s.active`, runtimes | submit, pick, start, prepare, observe, finish, cancel, deadline, cleanup, recover, restart | `Scheduler` |
| Operation receipts (`control/api.go`, `dispatch.go`, `retention.go`) | `operations` rows, `s.operations`, `s.requests`, `s.pending` | accept, dispatch, mutate, confirm, resume, expire | `OperationReceipts` |
| Body store (`state/bodies.go`, `control/repository_retention.go`) | `bodies/` and the rows that refer to it | publish, commit, prune, sweep | `BodyStore` |
| Commands and stdin (`control/command_output.go`, `operations.go`) and the guest supervisor (`internal/guest`) | `Command`, stdin rows and their marks, retained files; in the guest `status.json`, input files, streams, the process group | start, input, cancel, poll, read, retain; submit, launch, feed, stop, finish, reconcile | `Commands` |
| Uploads and transfers (`control/transfers.go`, `upload_manifest.go`) | `transfers` rows, files, reservations, PUTs in progress, bindings | create, declare, put, publish, verify, bind, settle, delete, expire, purge, recover | `Transfers` |
| Lab preparation, node health and cleanup (`control/server.go`, `cleanup.go`, `power.go`, `health.go`, `vbox*.go`) | nodes with their resource intent, VMs, power operations, probes, the runtime's gate | prepare, start, stop, probe, end, clean up, restart | `Lab` |
| Lab network and router (`control/network.go`, `operations.go`, `internal/router`) | network state, confirmed lease and policy, endpoints, relays; in the router its rules and lease | heartbeat, set, recover, create and close an endpoint, degrade | `LabNetwork` |
| Retention and storage pressure | expiry times, pins, byte budget | reclaim, pin, refuse | receipts, bodies and inputs modelled, evidence not |
| Waiting and revisions | revisions of targets | wait | not modelled |
| Submitter (`internal/submit`) | `run.json` | run, resume | not modelled |
| Configuration, file helpers, process execution, telemetry, schemas, HTTP | none of its own | | not modelled: single steps that succeed or fail |

How the parts interact. An MCP client calls the controller; a mutating call gets a
receipt (*receipts*), and a creating call puts an execution into the queue
(*scheduler*). A Nix job is started on the worker by RPC; the worker asks the
executor for a session, another RPC, and runs Nix clients against the session's
private daemon. When the job has ended, the controller asks the worker to release
its resources, and the worker asks the executor; after that the evidence is copied
and acknowledged (*handoff*). A lab is a router and clients in VirtualBox (*lab*),
whose traffic the router forwards under a lease that the controller renews
(*network*), with commands that a supervisor in the guest runs (*commands*).
Inputs of either kind are uploaded before or while it runs (*transfers*). All four
services keep SQLite tables, any of them may die between two writes, and any RPC
may be lost or arrive after its caller has given up. Within one service goroutines
share a mutex and release it around calls: that is where the models split actions.

What is hard here: every answer may be older than the state it is applied to;
every durable record has to precede what it records; recovery has to find what was
begun; a request_id must have one effect although nobody knows whether the first
attempt had one; the slot must be given up once, and to one execution.

### Other programs of the repository

| Part | Decision |
| --- | --- |
| Agents Viewer index (`tools/agents-viewer/src/index`, Rust) | not modelled yet: a coordinator with a queue, leases, cancellation and revisions |
| Agents Viewer parser, server and web interface | not modelled: data transformation and user interface |
| Codex hooks | not modelled: a forwarder without state and a receiver bounded by a library semaphore |
| Codex Config Atlas | not modelled: batch normalisation of schemas |
| Codex patch series, agent rules, packaging, workflows | not modelled: scripts, texts, definitions |

### What makes each part correct

- Executor: a released receipt means that nothing of the session runs; sealed
  stays sealed; one session at a time; nothing unreleased is left unobserved.
- Worker: a job reported clean is clean and stays clean; a free slot means a free
  host; a job reported as never accepted never runs; cleanup completes.
- Scheduler: resources of two executions never coexist; what exists is on record;
  results are final; the queue moves on.
- Handoff: files are removed only when they are published; complete means handed
  over; evidence settles.
- Receipts: one effect per request_id, a true and final outcome, every call ends.
- Bodies: what is referred to exists; what is not is removed.
- Commands: input reaches the process once and in order; an acknowledgement, a
  stop and a result are true and final; retained output is the output; a
  cancellation and an input are pursued although calls are lost.
- Transfers: the index is right about the files; an input that an execution uses
  is complete, verified and not taken away; the budget holds; removals end.
- Lab: every VM is on record before it exists; released means gone; a power
  operation reports its own effect; a lab that ended is released.
- Network: the router enforces the confirmed policy at least as long as the
  controller counts on it.

## 2. Modules

```
SessionLedger        what the executor promises: none -> open -> released
   ^ refined by      ^ extended by
NixExecutor          NixWorker            the worker, composed with the ledger
   |                    | promises used as an environment
   |                 Scheduler            the controller's slot
   |                 EvidenceHandoff      controller and worker, after the release
   |                 OperationReceipts    the controller's mutating calls
   |                 BodyStore            the files behind receipts and commands
   |                 Commands             controller, guest calls and supervisor
   |                 Transfers            inputs and the executions that own them
   |                 LabNetwork           leases, endpoints and the router
   |                    ^ extended by
   |                 Lab                  nodes, power, cleanup, with the network
*Proofs              theorems about every component; OperationReceiptsProofs has those
                     about BodyStore, LabProofs those about Lab and LabNetwork
MC*.tla + *.cfg      instances for TLC
```

**SessionLedger** is the abstract specification: a job's session is `none`, `open`
or `released`, and processes live in open sessions only. `NixExecutor` implements
it (`ImplementsLedger`), and `NixWorker` extends it, so that the worker is checked
against exactly what the executor was shown to do.

**NixExecutor.** Rows are kept per job, as `Call` looks the job up before it
creates. A handler holds `Executor.mu` and is one action; creation is split at its
writes and cgroup operations, where a crash can fall. `StopLocked` and `Released`
are the helpers of the same names. Recovery (`Restart`) treats sessions of an
earlier boot, a vanished cgroup, an inode that differs and a session of this boot
as `recover` does. Systemd gives every start a new INVOCATION_ID, so `s.Invocation
!= e.invocation` is true in every recovery. A write of `cgroup.kill` that fails
counts as the attempt and is not repeated in this stop: `killAttempted` is
`written` or `failed`, and only a written kill is carried out. `extend` only moves
a deadline, and a deadline may be found expired at any time; `describe` and
`status` leave nothing behind. Rows of a foreign executor instance are blocked by
recovery and never observed; their `Stopping` is not kept. Expiry drops the cgroup
together with the row: a later session of the job has a new id and a new path.

**NixWorker.** `job` and `disk` are the job in memory and its row. The runner
(`run`, `admit`, `runClient`, `complete`) and the observer (`observeLocked`,
`reconcileResources`) are program counters that move between critical sections.
The phases of a build are one running client. A snapshot taken by the observer is
kept with it, and applied when the executor's answer is there.

**Scheduler.** A lab has machines or not; its nodes are one set. That VBoxSVC
completes a clone whose client was killed is not modelled. A Nix job is what
`NixWorker` promises: reported clean it holds nothing, reported unknown it never
runs; a start request may arrive long after its caller gave up. `exec`, `api`,
`rec`, `rel` and `obs` are the goroutines: the executing one, a cleanup call,
recovery, the cleanup's backend call, the Nix observer. A failed write closes the
service (`persist`). Storage pressure only delays a start and is left out, as is
deletion of settled executions.

**EvidenceHandoff.** A digest is the set of files it is computed from. The worker
indexes under fresh names; the controller copies file by file, stores the digest,
acknowledges; the worker commits to the handoff, removes the files, then the
index. A file that was stored and not yet indexed at a crash is copied again. Byte
ranges, logs and GC roots are left out.

**OperationReceipts.** What a call does is one effect, which is issued, is under
way, and takes place now or later, with or without an answer. Answering a repeated
call changes nothing and has no action. Two kinds of calls are told apart besides
creating and native ones. A call in `Idempotent` (`lab_cancel`, `command_cancel`,
`command_input`) that finds nothing left to do succeeds without an effect
(`moot`). A native call in `Followed` (`node_control`, `command_cancel`) goes on
after its effect and may then fail with an error that `dispatchOperation` does not
count as uncertain (`late`). A receipt that expires frees its request_id; no
effect is under way for `summary_days`.

**BodyStore.** A writer publishes its content and then commits a row; a sweep
reads references, lists the directory and removes entry by entry. Writers may
share their content and store it again at any time; `PublishBody` then uses the
file that is there, with its age. The grace hour is longer than the transaction
that follows the writing of a file, and than a sweep. `anchored` is a history
variable: the rows that were committed to a young file, or to a file that such a
row refers to, that is, all but those that reuse an old orphan (deviation C).
Remnants named `.pending-` are left out.

**Commands.** One command from `command_start` to its release. On the guest side
the supervisor (`supervise`, `feedInput`, the stream copier), the service that
reconciles a dead supervisor, and the handlers of `input`, `cancel` and `read`; on
the controller's side `command_input`, `command_cancel` and the poll
(`readCommand`), split where it releases the mutex and between the retained file
and the row that counts it. A guest call may be lost at any time, or carried out
without its answer. A packet is its number; an output byte is its position, so
that a gap, a repetition and a wrong order differ. stdout stands for both streams.
Left out: the output limit, the identity check of the supervisor, the hysteresis
of the observation and the poll schedule (a poll may come at any time). The node
lock that serialises input calls is left out too, which allows more than the code
does. `Finish` lets a drain succeed only when the group is dead, where
`streams.go:35-45` waits for the end of the pipes: a process that has closed its
output and lives on, and so adds nothing to it, is left out.

**Transfers.** A PUT holds the transfer's lock and is split at its staged file,
its sync, its publication and its verification, which all run outside the mutex; a
removal at its waiting, its files and its row. An object is one byte; a manifest
is its objects and whether they are closed under reference, which is what
verification decides. `Used` is the set of charged bytes, whose size is the sum
that `inputUsage` computes. Executions are what their inputs depend on: not yet
there, active, settling, complete. A controller that stops loses reservations and
PUTs; `Start` runs `recoverTransfer` for every row. A write of a row may fail,
which closes the service (`persist`) while what is under way goes on; the removal
of the files or of the row may fail too, and is repeated by the next pass
(`PurgeAgain`) or the next start. `faults` counts all three. `torn` is a history
variable: the uploads whose files are being removed although the mark could not be
written (deviation L). The mark that a purge leaves in the summary of its
execution is left out.

**LabNetwork.** `op` is the holder of the network lock and where its
`refreshNetworkAttempt` is: snapshot and hash, recovery of the router, probe,
application, reply, restoration, confirmation. A policy is the egress switch, the
set of entries, and whether it is a lab's: the one that `router.Init` applies at a
boot and at a recovery (`Base`) is not, and comes with a lease of its own,
`BootLease`, the 15 seconds of `router.go:45`, whatever `lease_seconds` is. An
attempt to recover the router may break off anywhere and be repeated. The router's
`apply` may break off between the rules and `applied.json`. Time is counted in
ticks that age the controller's lease, the router's and that of the application
under way alike. The observer and a heartbeat that did not get the lock degrade
the network without it.

**Lab.** Preparation creates, configures, starts and probes each VM in an own
goroutine; power operations and probes are readers of the runtime's gate; two
callers may be in `cleanup`, the execution (or its recovery) and `lab_cleanup`.
VirtualBox keeps VMs across a crash of the controller. Start, power-off and reset
stand for the seven power actions. Two things are assumed away: a VBoxManage
process that was killed has no effect afterwards, and a guest call that timed out
does not go on in the guest, although `guest_exec.go:36` notes that a timeout does
not tell a killed process from a stuck one. `PowerIsObserved` has its substance in starts: a power-off
and a reset take effect when they are sent. `wait_until: power_state` is not told
apart, and an asynchronous reboot is deviation G. An entry that `endpoint_create`
could not save stays in memory, as in the code. Left out: the hysteresis of
health, guest session slots, GUI policy, media, captures, the serial console.

## 3. Runs

| Run | Instance | Shows |
| --- | --- | --- |
| `executor` | 2 jobs, 2 roots, 1 reboot, failing writes and failing kills | receipts are true, sealed and exclusive; the ledger is implemented; an observed session is released, or blocked because its kill failed |
| `worker` | 2 jobs, unlimited crashes and reboots, failing writes | clean is clean and final, for a job that was never accepted too; a free slot is free |
| `worker_live` | 1 job, as above | cleanup completes |
| `scheduler` | lab and job, 1 crash, lock timeouts, `lab_cleanup` and `nix_job_recover`, one call at a time | resources are exclusive and recorded, results final |
| `scheduler_live` | lab and job, failing writes, 1 crash, nobody calls a recovery | the same safety when writes fail; the queue moves on |
| `evidence` | 2 files, 3 attempts, 3 indexings, 2 crashes, 1 recovery, failing writes, late requests | nothing is lost, complete is handed over, evidence settles |
| `receipts` | 2 requests, a call of every kind (creating, native, idempotent, failing after its effect), 2 crashes, failing writes | one effect, true and final outcome, every call ends |
| `bodies` | 3 rows, 2 of them with the same content, stored any number of times | what a row refers to is there unless it reused an old orphan, orphans are removed |
| `commands` | 4 workloads of packets, output, a cancellation and a restart; lost calls and a dying supervisor in each | stdin once and in order, true acknowledgements, true stops, output as written, final results |
| `commands_live` | 1 packet; 1 cancellation | both are pursued until they arrive or the command ends |
| `transfers` | a file and a cache, a lab and a job, 2 objects, a budget of 2, 1 stop, 1 failing write or removal | the index is right, inputs are verified and protected, the budget holds, removals end |
| `lab` | 7 workloads of up to 2 clients, 2 power operations, 2 network operations, 3 faults and a restart; leases of 2 ticks, of 1 tick after a boot | VMs are recorded, rules are the confirmed ones, leases conservative, released is gone, power is observed, release completes |

`Inv` and `IInv` are conjunctions of a type invariant and named parts, which the
modules define and comment one by one: `Exclusive` and `OwnedIsRecorded`
(Scheduler), `NothingLost` (EvidenceHandoff), `AnchoredIsThere` (BodyStore),
`StdinInOrder` and `AcksAreTrue` (Commands), `PublishedIsStored` and
`InputIsVerified` (Transfers), `VMIsRecorded` and `RulesAreConfirmed` (Lab).

Bounds. Two jobs (or a lab and a job) are what mutual exclusion, order and a late
message for an earlier job need. For the invariants and the action properties of
all runs the proofs remove the bounds and the choice of workloads; what rests on
the bounds alone is liveness. One crash of the controller leaves each of its
goroutines cut off at every point; a second one adds recovery interrupted by a
crash, and is allowed where the state space permits (`worker`: any number,
`evidence` and `receipts`: two). Three attempts, at evidence and at the deletion
of a node, are the code's own numbers. Two files, packets, bytes or objects are
enough to have one handled and the other not. A read of one byte makes output
arrive in several polls. A lease of two ticks can be whole, half gone and gone;
that of a boot is shorter, which is the case of deviation M; of the two objects
one is a narinfo, which verification reads, and one failure at any write or
removal is enough to part a mark from its removal. And a router that boots twice
is one that the controller has confirmed and another one.

Workloads. In `commands` and `lab` everything at once is too large, so Init
chooses one of several workloads, and each says what may happen in its behaviours:
how many packets, calls, faults and crashes, whether heartbeats, probes and the
end of the lab occur. Between them they fire every action. What they leave out is
the combination: a power operation while the network changes, a restart while
leases run out, two faults with two clients. The proofs hold for any set of
workloads, these combinations included.

The worker's jobs are interchangeable in its safety run (SYMMETRY); no run with a
liveness property uses symmetry. Deadlock is checked for executor, worker,
receipts and bodies; the scheduler, the handoff, a command, a lab and the uploads
really stop when everything is settled and the bounds are used up, and the
controller may be refused its start for good (deviation D). Safety and liveness
have separate runs where one instance would be too large for both (worker,
commands) or where liveness does not hold of the larger one (scheduler: deviation
A). The largest runs have 0.6 to 1.4 million distinct states: `worker`,
`scheduler`, `commands` and `lab`; `transfers` has half a million.

### Fairness

- Executor: `observeRelease` ticks every 100 ms; a creation that holds the mutex
  goes on. Strong fairness of `KernelKill` says that a written `cgroup.kill` is
  carried out; of a kill whose write failed nothing is assumed.
- Worker: the runner goes on, a killed client exits, `maintain` ticks every
  second; strong fairness of a successful stop and a successful write says that
  neither fails for ever. That a stopped session is released is
  `ObservedIsReleased`, which leaves out a session whose kill could not be written:
  there the worker's cleanup needs the executor to be restarted.
- Scheduler: goroutines and calls with a time budget go on, deadlines pass, the
  observer's answers do not all get lost, the worker cleans up
  (`CleanupCompletes`), the service manager restarts a dead service.
- Handoff: only that the scheduler begins attempts, `evidence_timeout` ends them
  and the service is started again; nothing is assumed of the worker.
- Receipts: goroutines go on, backend calls have a budget, recovery is followed
  by `resumeDispatches`, the service is started again after a crash. A failed
  write makes the service refuse calls until an operator restarts it; `Settles`
  allows for that instead of assuming it away.
- Bodies: transactions end, time passes, the sweep is repeated and not always
  cut off at the same point.
- Commands: the supervisor's goroutines go on and a killed group empties; polls
  are repeated, and neither all of them nor all calls that carry a cancellation
  or a packet are lost (strong fairness); a dead supervisor is reconciled. The
  test process reads its stdin while it runs (weak fairness of `Feed`: a pipe that
  is full delays every later packet); that it ends is not assumed.
- Transfers: a PUT and a removal that hold their lock go on, an upload that stays
  idle expires, a purge that failed is taken up by the next pass of `reclaim`, the
  service is started again. All of it is weak fairness.
- Lab: calls have budgets and goroutines go on, VirtualBox finishes a start, the
  controller is started again, and while a cleanup is required somebody calls
  `lab_cleanup`; faults are bounded by the workload.

## 4. Known deviations

Places where the code does not do what a document, a comment or its own other half
says. They are stated here and in the modules; no run depends on them, and for A
to D the constants with which TLC shows the counterexample are given.

A. Recovery remembers the first execution whose cleanup was blocked and gives it
the slot at the end (`server.go:282`), although the observer may have released it
by then. `nix_job_recover` then returns early (`nix_lifecycle.go:36`), and nobody
frees the slot before a restart. The README of vm-test-mcp (253-254): "Resource
release frees the execution slot while evidence indexing and verified handoff
continue". `ReleaseFreesSlot` of Scheduler, FairSpec, `Labs = {}`, `Jobs = {j1,
j2}`, `Crashes = 1`, `Operators = {j1}`, `Uploads = {}`, no faults and no lock
timeouts. A `lab_cleanup` during recovery has the same effect on a lab:
`QueueProgress` fails in the setting of `scheduler_live` with `Operators = {l1}`.
This is why that run has no operator.

B. A handoff that is handled between the status and the listing of the next
attempt makes the controller replace its digest by that of no files
(`nix_lifecycle.go:214`); the worker then refuses every repetition, and the
evidence ends blocked, though nothing is lost. `worker/handoff.go:10`: "Every
retry finishes both filesystem and index cleanup." `AckIsRepeatable` of
EvidenceHandoff, Spec, `Indexings = 2`, no crash, no recovery, no faults.

C. `PublishBody` reuses an old orphan without renewing its age (`bodies.go:21`),
and a sweep that has read the references before removes it.
`repository_lifecycle_test.go:84`: "Orphan and referenced files are equally old,
but only the orphan is collectible." `ReferredIsThere` of BodyStore with the
constants of `BodyStore.cfg`. Stdin packets and repeated intents can have the same
content. `AnchoredIsThere`, which `bodies` checks, is the same claim for every row
but those that were committed to an old orphan.

D. A cache whose upload is complete and fails verification stays open; at the next
start `completeUpload` fails again and the controller refuses to start
(`server.go:144-148`), so that the upload never expires. `contract.md:653` says
that unbound uploads expire after an idle hour. `UnboundExpires` of Transfers with
`Files = {}`, `Labs = {}` and the rest as in `Transfers.cfg`.

E. The observer degrades the network without the network lock. `endpoint_create`
that opens its relay after the degradation leaves an open endpoint on a degraded
network (`operations.go:961`; `contract.md:605` suspends them); a recovery of a
network that was still healthy restores relays which the expiry of the old lease
then closes, and confirms open endpoints without a relay. Both behaviours are in
LabNetwork; `RulesAreConfirmed` and `LeaseIsConservative` hold nevertheless.

F. `closeEndpoint` refreshes the policy while the entry is `closing`, so that the
confirmed policy still contains it; the next heartbeat applies another policy, and
when that one is late it degrades the network although nothing changed.

G. By reading: the boot that a reboot has to replace is the one last observed
(`operations.go:646`). When that is older than the boot that runs, a probe that
still sees the running one declares the asynchronous reboot ready.

H. `releaseNix` applies its answer without looking at the cleanup again
(`nix_lifecycle.go:62`), unlike the observer at line 140, so that an older or lost
answer reports a completed cleanup as blocked while another execution runs;
`Exclusive` holds nevertheless.

I. When the write of a failure fails in `resumeDispatches` (`dispatch.go:48`),
`operation_get` shows an outcome that exists in memory only, and a restart may
turn it into another; the stored receipt stays true and final.

J. A command whose start call was lost is never settled by a cancellation and
stays uncertain until its lab ends. Two reconcilers may write final records of a
lost supervisor that differ in their times; the controller refuses the second
(`SettledIsFinal`).

K. A receipt that says `failed` does not always mean that nothing happened.
`power` returns `readiness_timeout`, `superseded` or `interrupted` after the power
action was carried out (`power.go:22-49`), and `dispatchOperation` makes only
backend errors uncertain (`api.go:580`); `power_test.go:83` has a reset that ends
as `superseded`. `command_cancel` saves its request, which the polls then pursue,
before the call that may fail (`operations.go:341-345`). `ReceiptIsTrue` claims of
these calls only that a failed receipt is the last word.

L. `removeTransfer` goes on to `RemoveAll` when the mark `deleting` could not be
written (`retention.go:340-350`; `persist` only closes the service,
`server.go:174-180`). When the controller is stopped then, the row is still open
or ready and its files are gone. At the next start a file upload that was open and
complete even becomes ready (`transfers.go:265-268`), and a cache in that state
makes the start fail as in D. `PublishedIsStored` leaves out the uploads in
`torn`; without that condition TLC shows the state in the instance of `transfers`.

M. `network.go:156` says that the controller's lease "cannot overstate the guest's
actual remaining lease lifetime". `network_recover` may be called on a ready
network; it runs `router.Init`, which applies a lease of 15 seconds
(`router.go:45`), while `lease_seconds` may be up to 60 (`config.go:336`). Until
the recovery applies the lab's policy or degrades the network, the router of the
same boot may stop forwarding before the controller's lease ends.
`LeaseIsConservative` leaves out this interval and a lab that is over or whose
controller is down (`Shortened`), and nothing when `lease_seconds` is 15 or less.

## 5. Proofs

Each theorem is about `Spec` (`StoreSpec` for the bodies) for every value of the
constants that the module's assumption allows: any sets of jobs, uploads, files or
requests, any bounds, with and without failing writes. The assumptions only say
that bounds are naturals, that kinds of identities are disjoint, and that sets
which the code counts are finite. Every module has an inductive invariant, which
TLC checked on the instance of its run before it was proved, and one lemma per
action or per part of the invariant.

| Module | Theorems |
| --- | --- |
| `NixExecutorProofs` | `Invariant`, `TypeCorrect`, `ReceiptsAreTrue`, `OneSession`, `NothingEscapes`, `Sealed`, `Refinement` |
| `NixWorkerProofs` | `Invariant`, `CompleteIsReal`, `SlotIsFree`, `CleanStays` |
| `SchedulerProofs` | `SlotIsSound`, `FirstResultWins` |
| `EvidenceHandoffProofs` | `EvidenceSurvives`, `CompleteIsHandover` |
| `OperationReceiptsProofs` | `Invariant`, `OneEffect`, `Truthful`, `FinalOutcome`; of the body store `ReferredStays` |
| `CommandsProofs` | `InputIsTrue`, `EndIsReal`, `RetentionIsTrue`, `SettledStays` |
| `TransfersProofs` | `IndexIsRight`, `LabInputIsProtected`, `BudgetIsKept` |
| `LabProofs` | `LabIsSound`, `LeaseIsHonest`, `ReleaseIsReal`, `PowerIsTrue` |

**Executor.** That a released receipt is true is not inductive: a process may be
started by an accept that was waiting, or survive a crash. `IInv` adds that memory
and table agree on what is unreleased, that a creation in progress is private,
that handles belong to unreleased sessions of this boot, that processes live in
the cgroup of an unreleased session of this boot, and that there is one such
session. Each action is a case of `NextInv`; `StopLockedEffect` is the lemma about
the helper that five actions share. `Refinement` maps the rows to the ledger:
every step is one of the ledger's or a stutter, by `IInv` before and after it.

**Worker.** A clean job could be made unclean by a runner that is late, by a
snapshot that the observer took earlier, or by a create request still at the
executor. `IInv` says for each place of the runner and the observer what the job
in memory and its row look like, that a session exists only for a job with a
recorded intent, and that an answer on its way is true of the session it is about,
which stays true because a session released or sealed stays so (the ledger).

**Scheduler.** That two executions never hold resources says nothing about who may
still get some. `SlotIsHeld`: who may acquire holds the slot, alone. `SlotIsKept`:
what has resources keeps the slot from the others, by holding it, by being passed
it at its end, or in recovery by being still to be cleaned up. `AnswersHold`: an
answer that reports a release is true when it is applied, however late. The rest
relates memory, rows and goroutines.

**Handoff.** Whatever the controller may ever acknowledge (in its row, in memory,
in a request waiting or given up) names published files only; the worker accepts
nothing but the digest of what it has, and does not index again afterwards.

**Receipts.** `AtMostOnce` says nothing about what is under way, and the receipt
alone does not say whether its effect was issued. `IInv` relates, for each
request, the row, the copy in memory, the goroutine, the receipts to be resumed
and the effects: a row that is absent or prepared has an untouched effect; a
goroutine past `dispatched` has a row that says so; a succeeded row has its
effect, or its call found nothing left to do; a native row that failed has nothing
on its way, and no effect at all unless its call is one that goes on after it
(deviation K). The `Frame` lemma says that requests whose state is not changed
keep their part of the invariant, so each action is proved for the request it is
about.

**Bodies.** The module with the proofs about the receipts extends `BodyStore` too,
the files behind them; hence the names `StoreSpec`, `StoreNext`. `ReferredStays`
holds for any writers with any contents, shared or not. The argument is about the
sweep: it has read the references to every old body that an anchored row refers
to, and a body that gets its first anchored row since then is young and stays so
while the sweep lasts. A body that a transaction has newly written is young until
the transaction ends (`YoungWhileWritten`).

**Commands.** Stdin in order is not inductive, since what will be written next is
in the guest's files: a packet there is the accepted one of its number. A count of
written packets travels from stdin to the record, to a poll and to the row, and
each copy is bounded by stdin, which only grows. For the end of the command the
invariant ties the record to the supervisor's place and to the process group, and
for the output it follows a poll's answer, which may say "complete" only when
nobody writes any more. `FirstUnmarked` is a CHOOSE over a range; that a least
element exists comes from the well-foundedness of the naturals (`Least`), the one
place where a proof needs induction.

**Transfers.** `IInv` has a part per upload: a PUT works on an upload whose files
nobody removes and on an object the index does not name; what is being removed is
marked or torn; the input of a lab is marked only when the lab is complete.
Failing writes and removals are among the steps; the price is that files may be
removed of an upload that is not marked but torn, of which the index is allowed to
be wrong. The budget is not inductive, as a stop loses the reservations while the
manifests stay. `BInv` counts claims instead, the sizes of manifests that are
declared or being declared: reservations equal the claims while the controller
runs, published objects are declared ones, and only `PutManifest` raises a claim,
after it has looked at the reservations. The sum is the cardinality of a set of
bytes, so that the step is an inclusion of finite sets.

**Lab and network.** `IInv` has three parts, and `NetNext` and the node's actions
are shown to keep each of them separately. *Network*: that the router's lease
outlasts the confirmed one is not inductive, as the lease that will be confirmed
is still with the holder of the lock, so `LeaseInStep` bounds it too, from the
moment of its application, and says that boots only go up; it excepts the interval
of `Shortened`, which is empty when `Lease` is at most `BootLease`; `RulesInStep`
says what the rules are while an operation goes on: the confirmed ones as long as
its holder has not sent others (`Untouched`), the sent ones once the router has
answered. This is where the tolerance for a late heartbeat needs the policies to
be equal, and where a router that has just run `Init` cannot pass for one with the
lab's policy, as the two differ in `lab`; `PendingIsQuiet` says that nobody but
preparation uses a network before it is confirmed. *Nodes*: a complete cleanup
says nothing about what may still create a VM or a relay. `CleanupInStep` and
`PreparationInStep` tie the record of a node to the place of its preparation,
`DeletionInStep` says what a deletion has established, and `GateInStep` that once
a cleanup has taken the gate nobody changes the network or asks for a change, also
after the gate is given back. *Power*: `ExpectedInStep` and `ProbeInStep` say that
an observation which can still count for an operation began after that operation
was dispatched, and that the state it saw was one that the VM had since then. Each
action that changes records has an effect lemma about the fields it sets, and the
invariant's proofs cite these lemmas only. The assumption on the workloads is that
they are of the type that `Work` defines.

Only model-checked: liveness (`ObservedIsReleased`, `CleanupCompletes`,
`QueueProgress`, `EvidenceSettles`, `Settles`, the removal of orphans, the pursuit
of inputs and cancellations, `RemovalEnds`, the release of a lab), which needs
fairness and ENABLED; and the deviations of section 4.

## 6. Not modelled, and the plan

Not modelled in the parts above: save errors after a commit, read errors of a
lookup, the failed write of `session_not_started` other than as a block, two
evidence recoveries at once, a stale stream's connection timeout, the build phases
of a Nix job, the eviction of evidence under storage pressure, health hysteresis,
guest session slots, captures, media and GUI. The hazards in `PROJECT.json` that
have no property carry a note with the reason.

Not modelled at all, and why: waits over revisions (one read of memory per wakeup;
the property would be about the revision numbers of many kinds of records); the
submitter (a client with one file, whose protocol is that of the receipts);
configuration, decoding, schemas, metrics, process and file helpers (no protocol
state); nftables and DHCP texts and the byte pumping of relays (data); Agents
Viewer and the other programs of the repository, of which only the index
coordinator of Agents Viewer has a protocol worth a model of its own.

Every invariant and every action property of the runs is proved. What a further
proof could add is a refinement that connects `Scheduler`'s view of the worker
with `NixWorker` itself, as `SessionLedger` does for worker and executor.
