---------------------------- MODULE NixExecutor ----------------------------
(***************************************************************************)
(* The root executor (internal/nixexecutor/executor_linux.go): one private *)
(* Nix daemon endpoint and one delegated cgroup per worker job, with a     *)
(* durable receipt per job in SQLite.                                      *)
(*                                                                         *)
(* Every handler runs under Executor.mu, so a handler is one action; only  *)
(* session creation, whose durable writes and cgroup operations a crash    *)
(* can separate, is split into steps (creating/step hold the mutex).       *)
(*                                                                         *)
(* A job has at most one row (Call looks the job up before it creates), so *)
(* sessions are identified by their job.  Time is abstracted: a deadline   *)
(* may be found expired at any moment, which also covers "extend", whose   *)
(* only lasting effect is a later deadline.  systemd gives every start a   *)
(* new INVOCATION_ID, so recover's test s.Invocation # e.invocation is     *)
(* true in every recovery and is not kept as state.                        *)
(***************************************************************************)
EXTENDS Naturals, FiniteSets

CONSTANTS
    Tasks,          \* worker jobs that may ask for a session
    Roots,          \* delegated cgroup roots the service may be started in
    None,           \* no job
    MaxProcs,       \* bound: processes in one session's cgroup
    MaxBoots,       \* bound: host boots
    DiskFaults      \* whether a write to the executor's database may fail

ASSUME ExecutorAssumption ==
    /\ None \notin Tasks
    /\ MaxProcs \in Nat \ {0}
    /\ MaxBoots \in Nat
    /\ DiskFaults \in BOOLEAN

VARIABLES
    \* executor_sessions, the durable table
    rowState,       \* Resources.State of the job's row, "none" without a row
    rowBoot,        \* BootID of the row
    rowRoot,        \* the root its cgroup path was derived from
    rowInode,       \* jobs whose row records its GroupInode
    \* the running executor
    phase,          \* "down", "up" or "closing"
    root,           \* e.groups of this start
    memState,       \* Resources.State in e.sessions, "none" when absent/released
    stopping,       \* session.Stopping # nil
    group,          \* runtimeSession.group # nil
    listener,       \* the endpoint accepts connections
    monitoring,     \* observeRelease is running
    killAttempted,  \* the attempt to write cgroup.kill: none, written or failed
    creating, step, \* the creation that holds the mutex, and its next step
    \* the host
    boot,           \* current boot
    cgroup,         \* jobs whose session cgroup exists
    procs           \* processes inside it

rows == <<rowState, rowBoot, rowRoot, rowInode>>
sess == <<memState, stopping, group, listener, monitoring, killAttempted>>
mutex == <<creating, step>>
host == <<boot, cgroup, procs>>
vars == <<rows, phase, root, sess, mutex, host>>

Unreleased == {"owned", "releasing", "blocked"}
Steps == {"none", "mkdir", "inode", "listen"}
NoKill == [t \in Tasks |-> "no"]

TypeOK ==
    /\ rowState \in [Tasks -> Unreleased \cup {"none", "released"}]
    /\ rowBoot \in [Tasks -> 0..MaxBoots]
    /\ rowRoot \in [Tasks -> Roots]
    /\ rowInode \subseteq Tasks
    /\ phase \in {"down", "up", "closing"}
    /\ root \in Roots
    /\ memState \in [Tasks -> Unreleased \cup {"none"}]
    /\ stopping \subseteq Tasks /\ group \subseteq Tasks
    /\ listener \subseteq Tasks /\ monitoring \subseteq Tasks
    /\ killAttempted \in [Tasks -> {"no", "written", "failed"}]
    /\ creating \in Tasks \cup {None}
    /\ step \in Steps
    /\ boot \in 0..MaxBoots
    /\ cgroup \subseteq Tasks
    /\ procs \in [Tasks -> 0..MaxProcs]

Init ==
    /\ rowState = [t \in Tasks |-> "none"]
    /\ rowBoot = [t \in Tasks |-> 0]
    /\ root \in Roots
    /\ rowRoot = [t \in Tasks |-> root]
    /\ rowInode = {}
    /\ phase = "up"
    /\ memState = [t \in Tasks |-> "none"]
    /\ stopping = {} /\ group = {} /\ listener = {}
    /\ monitoring = {} /\ killAttempted = NoKill
    /\ creating = None /\ step = "none"
    /\ boot = 0
    /\ cgroup = {}
    /\ procs = [t \in Tasks |-> 0]

-----------------------------------------------------------------------------
(* Helpers: what one call inside a handler does to the session of job t.   *)

\* Executor.save: the outcome of one write, successful or (with disk faults) not.
SaveOutcomes == IF DiskFaults THEN BOOLEAN ELSE {TRUE}

Save(t, s, ok) == rowState' = IF ok THEN [rowState EXCEPT ![t] = s] ELSE rowState

\* The handler can take Executor.mu.
Locked == phase # "down" /\ creating = None

\* released(): the row first; the in-memory session follows only a saved row.
\* A released session leaves memory, because every use of one in the code
\* either ignores it or reloads an equal copy from its row.
Released(t, dropGroup) ==
    /\ Save(t, "released", TRUE)
    /\ memState' = [memState EXCEPT ![t] = "none"]
    /\ stopping' = stopping \ {t}
    /\ group' = group \ {t}
    /\ listener' = listener \ {t}
    /\ monitoring' = monitoring \ {t}
    /\ killAttempted' = [killAttempted EXCEPT ![t] = "no"]
    /\ cgroup' = IF dropGroup THEN cgroup \ {t} ELSE cgroup

\* stopLocked() for an unreleased session: seal the endpoint, record the stop
\* and start observing the group; without a group handle the session is blocked
\* (two writes, each of which may be lost).  While it is being observed only a
\* "recovery" of a blocked session changes anything.
StopLocked(t, recovery) ==
    \/ /\ t \in monitoring
       /\ recovery /\ memState[t] = "blocked"
       /\ memState' = [memState EXCEPT ![t] = "releasing"]
       /\ killAttempted' = [killAttempted EXCEPT ![t] = "no"]
       /\ \E ok \in SaveOutcomes : Save(t, "releasing", ok)
       /\ UNCHANGED <<stopping, group, listener, monitoring>>
    \/ /\ t \in monitoring
       /\ ~(recovery /\ memState[t] = "blocked")
       /\ UNCHANGED <<rowState, sess>>
    \/ /\ t \notin monitoring
       /\ stopping' = stopping \cup {t}
       /\ listener' = listener \ {t}
       /\ IF t \in group
            THEN /\ memState' = [memState EXCEPT ![t] = "releasing"]
                 /\ monitoring' = monitoring \cup {t}
                 /\ \E ok \in SaveOutcomes : Save(t, "releasing", ok)
            ELSE /\ memState' = [memState EXCEPT ![t] = "blocked"]
                 /\ \/ Save(t, "blocked", TRUE)
                    \/ DiskFaults /\ Save(t, "releasing", TRUE)
                    \/ DiskFaults /\ UNCHANGED rowState
                 /\ UNCHANGED monitoring
       /\ UNCHANGED <<group, killAttempted>>

-----------------------------------------------------------------------------
(* Call("create"), step by step under the mutex.                           *)

\* Mutant: admission forgets to look for an unreleased session.
CreateSaveWhileBusy(t) ==
    /\ phase = "up" /\ creating = None
    /\ rowState[t] = "none"
    /\ Save(t, "owned", TRUE)
    /\ rowBoot' = [rowBoot EXCEPT ![t] = boot]
    /\ rowRoot' = [rowRoot EXCEPT ![t] = root]
    /\ rowInode' = rowInode \ {t}
    /\ memState' = [memState EXCEPT ![t] = "owned"]
    /\ creating' = t /\ step' = "mkdir"
    /\ UNCHANGED <<phase, root, stopping, group, listener, monitoring, killAttempted, host>>

\* Mutant: admission looks the job up in memory only, so a delayed create
\* reopens a job whose stop receipt is in the table.
CreateSaveOverReceipt(t) ==
    /\ phase = "up" /\ creating = None
    /\ \A u \in Tasks : memState[u] = "none"
    /\ Save(t, "owned", TRUE)
    /\ rowBoot' = [rowBoot EXCEPT ![t] = boot]
    /\ rowRoot' = [rowRoot EXCEPT ![t] = root]
    /\ rowInode' = rowInode \ {t}
    /\ memState' = [memState EXCEPT ![t] = "owned"]
    /\ creating' = t /\ step' = "mkdir"
    /\ UNCHANGED <<phase, root, stopping, group, listener, monitoring, killAttempted, host>>

\* No row for the job, not closing, nothing unreleased: the owned row is saved.
CreateSave(t) ==
    /\ phase = "up" /\ creating = None
    /\ rowState[t] = "none"
    /\ \A u \in Tasks : memState[u] = "none"
    /\ Save(t, "owned", TRUE)
    /\ rowBoot' = [rowBoot EXCEPT ![t] = boot]
    /\ rowRoot' = [rowRoot EXCEPT ![t] = root]
    /\ rowInode' = rowInode \ {t}
    /\ memState' = [memState EXCEPT ![t] = "owned"]
    /\ creating' = t /\ step' = "mkdir"
    /\ UNCHANGED <<phase, root, stopping, group, listener, monitoring, killAttempted, host>>

\* Mkdir and openGroup.  Failing before there is a directory releases the
\* session; a directory that cannot be opened, or another error, blocks it.
CreateMkdir(t) ==
    /\ creating = t /\ step = "mkdir" /\ phase # "down"
    /\ \/ /\ cgroup' = cgroup \cup {t}
          /\ group' = group \cup {t}
          /\ step' = "inode"
          /\ UNCHANGED <<rowState, memState, stopping, listener, monitoring, killAttempted, creating>>
       \/ /\ Released(t, FALSE)
          /\ creating' = None /\ step' = "none"
       \/ /\ cgroup' \in {cgroup, cgroup \cup {t}}
          /\ StopLocked(t, FALSE)
          /\ creating' = None /\ step' = "none"
    /\ UNCHANGED <<rowBoot, rowRoot, rowInode, phase, root, boot, procs>>

\* The row that records the group's inode.
CreateInode(t) ==
    /\ creating = t /\ step = "inode" /\ phase # "down"
    /\ \/ /\ rowInode' = rowInode \cup {t}
          /\ step' = "listen"
          /\ UNCHANGED <<rowState, sess, creating>>
       \/ /\ DiskFaults
          /\ StopLocked(t, FALSE)
          /\ creating' = None /\ step' = "none"
          /\ rowInode' = IF rowState'[t] = "releasing" THEN rowInode \cup {t} ELSE rowInode
    /\ UNCHANGED <<rowBoot, rowRoot, phase, root, host>>

\* The endpoint listens and accept() runs, or the setup fails and is stopped.
CreateListen(t) ==
    /\ creating = t /\ step = "listen" /\ phase # "down"
    /\ \/ /\ listener' = listener \cup {t}
          /\ UNCHANGED <<rowState, memState, stopping, group, monitoring, killAttempted>>
       \/ StopLocked(t, FALSE)
    /\ creating' = None /\ step' = "none"
    /\ UNCHANGED <<rowBoot, rowRoot, rowInode, phase, root, host>>

-----------------------------------------------------------------------------
(* The other handlers and the executor's goroutines.                       *)

\* Call("stop") for a job without a row: the receipt seals a lost admission.
StopUnknown(t) ==
    /\ Locked
    /\ rowState[t] = "none"
    /\ Save(t, "released", TRUE)
    /\ rowBoot' = [rowBoot EXCEPT ![t] = boot]
    /\ UNCHANGED <<rowRoot, rowInode, phase, root, sess, mutex, host>>

\* Call("stop") for an unreleased session; a released one only answers.
Stop(t, recovery) ==
    /\ Locked
    /\ memState[t] # "none"
    /\ StopLocked(t, recovery)
    /\ UNCHANGED <<rowBoot, rowRoot, rowInode, phase, root, mutex, host>>

\* deadlines(), or "extend" after the deadline.
Deadline(t) ==
    /\ Locked
    /\ memState[t] # "none"
    /\ t \notin stopping
    /\ StopLocked(t, FALSE)
    /\ UNCHANGED <<rowBoot, rowRoot, rowInode, phase, root, mutex, host>>

\* Mutant: a connection accepted before the seal spawns its daemon at any later time.
AcceptLate(t) ==
    /\ Locked
    /\ t \in rowInode
    /\ procs[t] < MaxProcs
    /\ procs' = [procs EXCEPT ![t] = @ + 1]
    /\ UNCHANGED <<rows, phase, root, sess, mutex, boot, cgroup>>

\* accept(): a worker connection becomes a daemon inside the session's cgroup.
Accept(t) ==
    /\ phase = "up" /\ creating = None
    /\ t \in listener
    /\ t \notin stopping
    /\ memState[t] = "owned"
    /\ \/ /\ procs[t] < MaxProcs
          /\ procs' = [procs EXCEPT ![t] = @ + 1]
          /\ UNCHANGED <<rowState, sess>>
       \/ StopLocked(t, FALSE) /\ UNCHANGED procs
    /\ UNCHANGED <<rowBoot, rowRoot, rowInode, phase, root, mutex, boot, cgroup>>

\* A process of the session starts another one in the same cgroup (a builder).
Fork(t) ==
    /\ procs[t] \in 1..(MaxProcs - 1)
    /\ procs' = [procs EXCEPT ![t] = @ + 1]
    /\ UNCHANGED <<rows, phase, root, sess, mutex, boot, cgroup>>

\* A process of the session exits.
ProcExit(t) ==
    /\ procs[t] > 0
    /\ procs' = [procs EXCEPT ![t] = @ - 1]
    /\ UNCHANGED <<rows, phase, root, sess, mutex, boot, cgroup>>

\* The kernel carries out a written cgroup.kill, forks in progress included.
KernelKill(t) ==
    /\ killAttempted[t] = "written"
    /\ procs[t] > 0
    /\ procs' = [procs EXCEPT ![t] = 0]
    /\ UNCHANGED <<rows, phase, root, sess, mutex, boot, cgroup>>

\* A daemon that fails while its session is not being stopped stops it.
DaemonFailure(t) ==
    /\ Locked
    /\ procs[t] > 0
    /\ memState[t] # "none" /\ t \in listener /\ t \notin stopping
    /\ procs' = [procs EXCEPT ![t] = @ - 1]
    /\ StopLocked(t, FALSE)
    /\ UNCHANGED <<rowBoot, rowRoot, rowInode, phase, root, mutex, boot, cgroup>>

\* Mutant: an unreadable cgroup.events counts as an empty group.
ObserveUnread(t) ==
    /\ Locked
    /\ t \in monitoring
    /\ \E dropped \in BOOLEAN : Released(t, dropped)
    /\ UNCHANGED <<rowBoot, rowRoot, rowInode, phase, root, mutex, boot, procs>>

\* observeRelease(): cgroup.events reads "populated 0" and the release is saved;
\* removing the directory may fail.
ObserveEmpty(t) ==
    /\ Locked
    /\ t \in monitoring
    /\ procs[t] = 0
    /\ \E dropped \in BOOLEAN : Released(t, dropped)
    /\ UNCHANGED <<rowBoot, rowRoot, rowInode, phase, root, mutex, boot, procs>>

\* Mutant: the kill is never written.
ObserveNoKill(t) == FALSE /\ UNCHANGED <<t, vars>>

\* observeRelease(): the grace period has passed and cgroup.kill is written, once.
\* A write that fails counts as the attempt too and blocks the session; only a
\* recovery (see StopLocked) has the kill tried again.
ObserveKill(t) ==
    /\ Locked
    /\ t \in monitoring
    /\ killAttempted[t] = "no"
    /\ \/ /\ killAttempted' = [killAttempted EXCEPT ![t] = "written"]
          /\ UNCHANGED <<rowState, memState>>
       \/ /\ killAttempted' = [killAttempted EXCEPT ![t] = "failed"]
          /\ memState' = [memState EXCEPT ![t] = "blocked"]
          /\ \/ memState[t] = "blocked" /\ UNCHANGED rowState
             \/ memState[t] # "blocked" /\ \E ok \in SaveOutcomes : Save(t, "blocked", ok)
    /\ UNCHANGED <<rowBoot, rowRoot, rowInode, phase, root, stopping, group, listener, monitoring, mutex, host>>

\* observeRelease(): the budget has passed, the group cannot be read, or the
\* release could not be saved.  The observation goes on.
ObserveBlocked(t) ==
    /\ Locked
    /\ t \in monitoring
    /\ memState[t] # "blocked"
    /\ memState' = [memState EXCEPT ![t] = "blocked"]
    /\ \E ok \in SaveOutcomes : Save(t, "blocked", ok)
    /\ UNCHANGED <<rowBoot, rowRoot, rowInode, phase, root, stopping, group, listener, monitoring, killAttempted, mutex, host>>

\* Mutant: retention also deletes the rows of blocked sessions.
ExpireBlocked(t) ==
    /\ Locked
    /\ rowState[t] \in {"released", "blocked"}
    /\ procs[t] = 0
    /\ Save(t, "none", TRUE)
    /\ rowInode' = rowInode \ {t}
    /\ cgroup' = cgroup \ {t}
    /\ UNCHANGED <<rowBoot, rowRoot, phase, root, sess, mutex, boot, procs>>

\* deadlines(): the row of a released session is deleted after its retention.
Expire(t) ==
    /\ Locked
    /\ rowState[t] = "released"
    /\ Save(t, "none", TRUE)
    /\ rowInode' = rowInode \ {t}
    /\ cgroup' = cgroup \ {t}
    /\ UNCHANGED <<rowBoot, rowRoot, phase, root, sess, mutex, boot, procs>>

\* Shutdown(): no further admission, every unreleased session is stopped (there
\* is at most one, see Exclusive).
Shutdown ==
    /\ phase = "up" /\ creating = None
    /\ phase' = "closing"
    /\ \/ \E t \in Tasks : memState[t] # "none" /\ StopLocked(t, FALSE)
       \/ (\A t \in Tasks : memState[t] = "none") /\ UNCHANGED <<rowState, sess>>
    /\ UNCHANGED <<rowBoot, rowRoot, rowInode, root, mutex, host>>

-----------------------------------------------------------------------------
(* Crashes, restarts and the host.                                         *)

ForgetMemory ==
    /\ phase' = "down"
    /\ memState' = [t \in Tasks |-> "none"]
    /\ stopping' = {} /\ group' = {} /\ listener' = {}
    /\ monitoring' = {} /\ killAttempted' = NoKill
    /\ creating' = None /\ step' = "none"

\* The process ends, at any point of any handler.
Crash ==
    /\ phase # "down"
    /\ ForgetMemory
    /\ UNCHANGED <<rows, root, host>>

\* systemd ends what is left in the service's cgroup and removes it.
SystemdReap ==
    /\ phase = "down"
    /\ cgroup # {}
    /\ cgroup' = {}
    /\ procs' = [t \in Tasks |-> 0]
    /\ UNCHANGED <<rows, phase, root, sess, mutex, boot>>

HostReboot ==
    /\ boot < MaxBoots
    /\ boot' = boot + 1
    /\ cgroup' = {}
    /\ procs' = [t \in Tasks |-> 0]
    /\ ForgetMemory
    /\ UNCHANGED <<rows, root>>

\* recover(): what becomes of an unreleased row under the root r of this start,
\* when the groups of the jobs in bad cannot be opened.
Recovered(t, r, bad) ==
    IF rowState[t] \notin Unreleased THEN "none"
    ELSE IF rowRoot[t] # r THEN "foreign"
    ELSE IF rowBoot[t] # boot THEN "gone"
    ELSE IF t \notin cgroup THEN "gone"
    ELSE IF t \notin rowInode \/ t \in bad THEN "foreign"
    ELSE "stop"

\* A session whose resources are gone is released, one that cannot be identified
\* is blocked for an administrator (that write may be lost), and one whose group
\* is found again is stopped.  A start whose other writes fail exits and leaves
\* the row to the next start.
Restart ==
    /\ phase = "down"
    /\ phase' = "up"
    /\ \E r \in Roots, bad \in SUBSET Tasks, ok \in SaveOutcomes :
         LET Is(c) == {t \in Tasks : Recovered(t, r, bad) = c} IN
         /\ root' = r
         /\ rowState' = [t \in Tasks |->
                IF t \in Is("gone") THEN "released"
                ELSE IF t \in Is("foreign") /\ ok THEN "blocked"
                ELSE IF t \in Is("stop") THEN "releasing"
                ELSE rowState[t]]
         /\ memState' = [t \in Tasks |->
                IF t \in Is("foreign") THEN "blocked"
                ELSE IF t \in Is("stop") THEN "releasing"
                ELSE "none"]
         /\ stopping' = Is("stop") /\ group' = Is("stop") /\ monitoring' = Is("stop")
    /\ listener' = {} /\ killAttempted' = NoKill
    /\ UNCHANGED <<rowBoot, rowRoot, rowInode, mutex, host>>

-----------------------------------------------------------------------------
Next ==
    \/ \E t \in Tasks :
          \/ CreateSave(t) \/ CreateMkdir(t) \/ CreateInode(t) \/ CreateListen(t)
          \/ StopUnknown(t) \/ Stop(t, TRUE) \/ Stop(t, FALSE) \/ Deadline(t)
          \/ Accept(t) \/ Fork(t) \/ ProcExit(t) \/ KernelKill(t) \/ DaemonFailure(t)
          \/ ObserveEmpty(t) \/ ObserveKill(t) \/ ObserveBlocked(t)
          \/ Expire(t)
    \/ Shutdown \/ Crash \/ SystemdReap \/ HostReboot \/ Restart

Spec == Init /\ [][Next]_vars

\* observeRelease ticks every 100 ms for as long as the executor is up and the
\* kernel carries out a kill that was written (that the write succeeds is not
\* assumed); a creation that holds the mutex finishes.
Fairness ==
    \A t \in Tasks :
        /\ WF_vars(CreateMkdir(t) \/ CreateInode(t) \/ CreateListen(t))
        /\ WF_vars(ObserveKill(t)) /\ SF_vars(KernelKill(t)) /\ WF_vars(ObserveEmpty(t))

FairSpec == Spec /\ Fairness

-----------------------------------------------------------------------------
(* Properties.                                                             *)

\* A receipt that says "released" (or no receipt at all) means that no process
\* of the job's session is running: not a daemon that was accepted late, not a
\* builder that outlived a crash of the executor.
ReleasedIsEmpty ==
    \A t \in Tasks : rowState[t] \notin Unreleased => procs[t] = 0

\* The executor is responsible for one session at a time, and only its
\* processes run, across crashes, reboots and lost writes.
Exclusive ==
    \A t, u \in Tasks :
        rowState[t] \in Unreleased /\ (rowState[u] \in Unreleased \/ procs[u] > 0) => t = u

\* No unreleased session escapes a running executor: it is in memory, and once
\* its endpoint is sealed it is observed until it is empty or held as blocked.
Watched ==
    phase # "down" =>
        \A t \in Tasks : rowState[t] \in Unreleased =>
            /\ memState[t] # "none"
            /\ t \in stopping => t \in monitoring \/ memState[t] = "blocked"

\* A stop is a seal: after a job's receipt says released, no later create, accept
\* or recovery opens it again; only retention removes the receipt.
SealKept ==
    \A t \in Tasks : rowState[t] = "released" => rowState'[t] \in {"released", "none"}
SealHolds == [][SealKept]_vars

\* The kill of the session's group could not be written, and the session is held
\* as blocked for an administrator.
KillFailed(t) == killAttempted[t] = "failed" /\ memState[t] = "blocked"

\* An observed session is released in the end, also after its budget ran out and
\* it was reported as blocked, unless the executor goes down.  If the one kill of
\* an attempt fails, the session is reported as blocked, and a recovery makes it
\* end again in one of these ways.
ObservedIsReleased ==
    \A t \in Tasks :
        t \in monitoring ~> (rowState[t] = "released" \/ phase = "down" \/ KillFailed(t))

\* The parts of the inductive invariant behind the two receipts properties.
\* Memory and table agree on which sessions are unreleased.
MemoryMirrorsRows ==
    IF phase = "down"
      THEN /\ \A t \in Tasks : memState[t] = "none"
           /\ stopping = {} /\ group = {} /\ listener = {}
           /\ monitoring = {} /\ killAttempted = NoKill /\ creating = None
      ELSE \A t \in Tasks : memState[t] # "none" <=> rowState[t] \in Unreleased

\* A creation in progress owns a session that nothing else has touched.
CreationIsPrivate ==
    creating # None =>
        /\ memState[creating] = "owned" /\ procs[creating] = 0
        /\ rowBoot[creating] = boot
        /\ step \in {"inode", "listen"} => creating \in group
        /\ creating \notin stopping \cup monitoring \cup listener

\* Handles belong to unreleased sessions of this boot whose cgroup exists, and
\* observation to sealed ones.
HandlesAreOwned ==
    \A t \in Tasks :
        /\ t \in group \cup listener \cup stopping => memState[t] # "none"
        /\ t \in group => t \in cgroup /\ rowBoot[t] = boot
        /\ t \in listener => t \in group
        /\ t \in monitoring => t \in group \cap stopping
        /\ t \in stopping => t \in monitoring \/ memState[t] = "blocked"

\* Processes live in the cgroup of an unreleased session of the current boot.
ProcessesAreOwned ==
    \A t \in Tasks : procs[t] > 0 =>
        /\ t \in cgroup
        /\ rowState[t] \in Unreleased
        /\ rowBoot[t] = boot

\* One unreleased session.
OneUnreleased ==
    \A t, u \in Tasks :
        rowState[t] \in Unreleased /\ rowState[u] \in Unreleased => t = u

\* The inductive invariant from which the receipt properties follow.
IInv ==
    /\ TypeOK
    /\ MemoryMirrorsRows
    /\ CreationIsPrivate
    /\ HandlesAreOwned
    /\ ProcessesAreOwned
    /\ OneUnreleased

\* The receipts of the executor are the ledger its worker relies on.
Ledger == INSTANCE SessionLedger WITH
    ledger <- [t \in Tasks |->
        IF rowState[t] \in Unreleased THEN "open" ELSE rowState[t]],
    live <- {t \in Tasks : procs[t] > 0}

\* The executor implements the ledger: every step is a ledger step or a stutter.
ImplementsLedger == Ledger!LSpec

=============================================================================
