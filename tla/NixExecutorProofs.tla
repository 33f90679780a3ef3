------------------------- MODULE NixExecutorProofs -------------------------
(***************************************************************************)
(* Proofs about the executor, for every set of jobs and roots and every    *)
(* bound: the inductive invariant and the receipt properties.              *)
(***************************************************************************)
EXTENDS NixExecutor, TLAPS

\* The initial state of a fresh executor satisfies the invariant.
LEMMA InitInv == Init => IInv
  BY ExecutorAssumption
  DEF Init, IInv, TypeOK, MemoryMirrorsRows, CreationIsPrivate, HandlesAreOwned,
      ProcessesAreOwned, OneUnreleased, Unreleased, Steps, NoKill

\* What stopLocked leaves behind, whichever of its branches and writes it takes:
\* the session stays unreleased in the table and in memory, it is sealed, no
\* handle is gained, and it is observed unless it is blocked.
StopEffect(t) ==
    /\ \E s \in Unreleased : rowState' = [rowState EXCEPT ![t] = s]
    /\ \E m \in Unreleased : /\ memState' = [memState EXCEPT ![t] = m]
                             /\ m = "blocked" \/ t \in monitoring'
    /\ stopping' = stopping \cup {t}
    /\ group' = group
    /\ listener' \subseteq listener
    /\ monitoring' \in {monitoring, monitoring \cup {t}}
    /\ t \in monitoring' => t \in group
    /\ killAttempted' \in {killAttempted, [killAttempted EXCEPT ![t] = "no"]}

\* stopLocked on a session that memory and table hold as unreleased.
LEMMA StopLockedEffect ==
  ASSUME IInv, NEW t \in Tasks, NEW recovery \in BOOLEAN, StopLocked(t, recovery),
         rowState[t] \in Unreleased, memState[t] \in Unreleased
  PROVE  StopEffect(t)
  <1> USE DEF IInv, TypeOK, HandlesAreOwned, Unreleased, Save, SaveOutcomes, StopEffect
  <1>1. CASE t \in monitoring /\ recovery /\ memState[t] = "blocked"
    <2>1. /\ rowState' = rowState \/ rowState' = [rowState EXCEPT ![t] = "releasing"]
          /\ memState' = [memState EXCEPT ![t] = "releasing"]
          /\ killAttempted' = [killAttempted EXCEPT ![t] = "no"]
          /\ UNCHANGED <<stopping, group, listener, monitoring>>
      BY <1>1 DEF StopLocked
    <2> QED BY <1>1, <2>1
  <1>2. CASE t \in monitoring /\ ~(recovery /\ memState[t] = "blocked")
    BY <1>2 DEF StopLocked, sess
  <1>3. CASE t \notin monitoring /\ t \in group
    <2>1. /\ rowState' = rowState \/ rowState' = [rowState EXCEPT ![t] = "releasing"]
          /\ memState' = [memState EXCEPT ![t] = "releasing"]
          /\ monitoring' = monitoring \cup {t} /\ stopping' = stopping \cup {t}
          /\ listener' = listener \ {t}
          /\ UNCHANGED <<group, killAttempted>>
      BY <1>3 DEF StopLocked
    <2> QED BY <1>3, <2>1
  <1>4. CASE t \notin monitoring /\ t \notin group
    <2>1. PICK s \in {"blocked", "releasing", rowState[t]} : rowState' = [rowState EXCEPT ![t] = s]
      BY <1>4, ZenonT(60) DEF StopLocked
    <2>2. /\ memState' = [memState EXCEPT ![t] = "blocked"]
          /\ stopping' = stopping \cup {t} /\ listener' = listener \ {t}
          /\ UNCHANGED <<group, monitoring, killAttempted>>
      BY <1>4 DEF StopLocked
    <2> QED BY <1>4, <2>1, <2>2
  <1> QED BY <1>1, <1>2, <1>3, <1>4

\* Every step preserves the invariant.  The actions that call stopLocked go
\* through StopLockedEffect.
LEMMA NextInv == IInv /\ [Next]_vars => IInv'
  <1> SUFFICES ASSUME IInv, [Next]_vars PROVE IInv'
    OBVIOUS
  <1> USE ExecutorAssumption
      DEF IInv, TypeOK, MemoryMirrorsRows, CreationIsPrivate, HandlesAreOwned,
          ProcessesAreOwned, OneUnreleased, Unreleased, Steps, NoKill, Save, SaveOutcomes, Locked
  <1>1. ASSUME NEW t \in Tasks, CreateSave(t) PROVE IInv'
    BY <1>1 DEF CreateSave, host
  <1>2. ASSUME NEW t \in Tasks, CreateMkdir(t) PROVE IInv'
    <2>1. CASE step' = "inode"
      BY <1>2, <2>1 DEF CreateMkdir, Released
    <2>2. CASE Released(t, FALSE) /\ creating' = None /\ step' = "none"
      BY <1>2, <2>2 DEF CreateMkdir, Released
    <2>3. CASE /\ cgroup' \in {cgroup, cgroup \cup {t}} /\ StopLocked(t, FALSE)
               /\ creating' = None /\ step' = "none"
      <3>1. StopEffect(t)
        BY <1>2, <2>3, StopLockedEffect DEF CreateMkdir
      <3> QED BY <1>2, <2>3, <3>1 DEF CreateMkdir, StopEffect
    <2> QED BY <1>2, <2>1, <2>2, <2>3 DEF CreateMkdir
  <1>3. ASSUME NEW t \in Tasks, CreateInode(t) PROVE IInv'
    <2>1. CASE step' = "listen"
      BY <1>3, <2>1 DEF CreateInode, sess, host
    <2>2. CASE /\ StopLocked(t, FALSE) /\ creating' = None /\ step' = "none"
               /\ rowInode' = IF rowState'[t] = "releasing" THEN rowInode \cup {t} ELSE rowInode
      <3>1. StopEffect(t)
        BY <1>3, <2>2, StopLockedEffect DEF CreateInode
      <3>2. /\ creating = t /\ phase # "down" /\ rowInode' \subseteq Tasks
            /\ step' = "none" /\ UNCHANGED <<rowBoot, rowRoot, phase, root, host>>
        BY <1>3, <2>1, <2>2 DEF CreateInode
      <3> QED BY <1>3, <2>2, <3>1, <3>2 DEF StopEffect, host
    <2> QED BY <1>3, <2>1, <2>2 DEF CreateInode
  <1>4. ASSUME NEW t \in Tasks, CreateListen(t) PROVE IInv'
    <2>1. CASE /\ listener' = listener \cup {t}
               /\ UNCHANGED <<rowState, memState, stopping, group, monitoring, killAttempted>>
      BY <1>4, <2>1 DEF CreateListen, host
    <2>2. CASE StopLocked(t, FALSE)
      <3>1. StopEffect(t)
        BY <1>4, <2>2, StopLockedEffect DEF CreateListen
      <3> QED BY <1>4, <2>2, <3>1 DEF CreateListen, StopEffect, host
    <2> QED BY <1>4, <2>1, <2>2 DEF CreateListen
  <1>5. ASSUME NEW t \in Tasks, StopUnknown(t) PROVE IInv'
    BY <1>5 DEF StopUnknown, sess, mutex, host
  <1>6. ASSUME NEW t \in Tasks, NEW r \in BOOLEAN, Stop(t, r) PROVE IInv'
    <2>1. StopEffect(t)
      BY <1>6, StopLockedEffect DEF Stop
    <2> QED BY <1>6, <2>1 DEF Stop, StopEffect, mutex, host
  <1>7. ASSUME NEW t \in Tasks, Deadline(t) PROVE IInv'
    <2>1. StopEffect(t)
      BY <1>7, StopLockedEffect, ZenonT(60) DEF Deadline
    <2> QED BY <1>7, <2>1 DEF Deadline, StopEffect, mutex, host
  <1>8. ASSUME NEW t \in Tasks, Accept(t) PROVE IInv'
    <2>1. CASE StopLocked(t, FALSE) /\ UNCHANGED procs
      <3>1. StopEffect(t)
        BY <1>8, <2>1, StopLockedEffect DEF Accept
      <3> QED BY <1>8, <2>1, <3>1 DEF Accept, StopEffect, mutex
    <2>2. CASE /\ procs[t] < MaxProcs /\ procs' = [procs EXCEPT ![t] = @ + 1]
               /\ UNCHANGED <<rowState, sess>>
      BY <1>8, <2>2 DEF Accept, sess, mutex
    <2> QED BY <1>8, <2>1, <2>2 DEF Accept
  <1>9. ASSUME NEW t \in Tasks, Fork(t) PROVE IInv'
    BY <1>9 DEF Fork, rows, sess, mutex
  <1>10. ASSUME NEW t \in Tasks, ProcExit(t) PROVE IInv'
    BY <1>10 DEF ProcExit, rows, sess, mutex
  <1>11. ASSUME NEW t \in Tasks, KernelKill(t) PROVE IInv'
    BY <1>11 DEF KernelKill, rows, sess, mutex
  <1>12. ASSUME NEW t \in Tasks, DaemonFailure(t) PROVE IInv'
    <2>1. StopEffect(t)
      BY <1>12, StopLockedEffect DEF DaemonFailure
    <2> QED BY <1>12, <2>1 DEF DaemonFailure, StopEffect, mutex
  <1>13. ASSUME NEW t \in Tasks, ObserveEmpty(t) PROVE IInv'
    BY <1>13 DEF ObserveEmpty, Released, mutex
  <1>14. ASSUME NEW t \in Tasks, ObserveKill(t) PROVE IInv'
    <2>1. /\ creating = None /\ phase # "down" /\ t \in monitoring
          /\ rowState' = rowState \/ rowState' = [rowState EXCEPT ![t] = "blocked"]
          /\ memState' = memState \/ memState' = [memState EXCEPT ![t] = "blocked"]
          /\ \E k \in {"written", "failed"} : killAttempted' = [killAttempted EXCEPT ![t] = k]
          /\ UNCHANGED <<rowBoot, rowRoot, rowInode, phase, root, stopping, group, listener,
                         monitoring, creating, step, boot, cgroup, procs>>
      BY <1>14 DEF ObserveKill, mutex, host
    <2> QED BY <2>1
  <1>15. ASSUME NEW t \in Tasks, ObserveBlocked(t) PROVE IInv'
    BY <1>15 DEF ObserveBlocked, mutex, host
  <1>16. ASSUME NEW t \in Tasks, Expire(t) PROVE IInv'
    BY <1>16 DEF Expire, sess, mutex
  <1>17. CASE Shutdown
    <2>1. ASSUME NEW t \in Tasks, memState[t] # "none", StopLocked(t, FALSE) PROVE IInv'
      <3>1. StopEffect(t)
        BY <1>17, <2>1, StopLockedEffect DEF Shutdown
      <3> QED BY <1>17, <2>1, <3>1 DEF Shutdown, StopEffect, mutex, host
    <2>2. CASE UNCHANGED <<rowState, sess>>
      BY <1>17, <2>2 DEF Shutdown, sess, mutex, host
    <2> QED BY <1>17, <2>1, <2>2 DEF Shutdown
  <1>18. CASE Crash
    BY <1>18 DEF Crash, ForgetMemory, rows, host
  <1>19. CASE SystemdReap
    BY <1>19 DEF SystemdReap, rows, sess, mutex
  <1>20. CASE HostReboot
    BY <1>20 DEF HostReboot, ForgetMemory, rows
  <1>21. CASE Restart
    BY <1>21 DEF Restart, Recovered, mutex, host
  <1>22. CASE UNCHANGED vars
    BY <1>22 DEF vars, rows, sess, mutex, host
  <1> QED
    BY <1>1, <1>2, <1>3, <1>4, <1>5, <1>6, <1>7, <1>8, <1>9, <1>10, <1>11, <1>12,
       <1>13, <1>14, <1>15, <1>16, <1>17, <1>18, <1>19, <1>20, <1>21, <1>22 DEF Next

\* The invariant holds in every reachable state.
THEOREM Invariant == Spec => []IInv
  <1>1. Init => IInv BY InitInv
  <1>2. IInv /\ [Next]_vars => IInv' BY NextInv
  <1> QED BY <1>1, <1>2, PTL DEF Spec

\* The type invariant, as a part of the inductive one.
THEOREM TypeCorrect == Spec => []TypeOK
  <1>1. IInv => TypeOK BY DEF IInv
  <1> QED BY <1>1, Invariant, PTL

\* A receipt that says released means that no process of the session runs, for
\* any number of jobs, boots, crashes and lost writes.
THEOREM ReceiptsAreTrue == Spec => []ReleasedIsEmpty
  <1>1. IInv => ReleasedIsEmpty
    BY ExecutorAssumption DEF IInv, TypeOK, ProcessesAreOwned, ReleasedIsEmpty
  <1> QED BY <1>1, Invariant, PTL

\* The executor is responsible for one session, and only its processes run.
THEOREM OneSession == Spec => []Exclusive
  <1>1. IInv => Exclusive
    BY ExecutorAssumption DEF IInv, TypeOK, ProcessesAreOwned, OneUnreleased, Exclusive
  <1> QED BY <1>1, Invariant, PTL

\* A running executor holds every unreleased session, and observes it once it is
\* sealed unless it is reported as blocked.
THEOREM NothingEscapes == Spec => []Watched
  <1>1. IInv => Watched
    BY DEF IInv, MemoryMirrorsRows, HandlesAreOwned, Watched
  <1> QED BY <1>1, Invariant, PTL

-----------------------------------------------------------------------------
(* The ledger.                                                             *)

\* The abstract receipt of a row.
Receipt(s) == IF s \in Unreleased THEN "open" ELSE s

\* A step that changes neither the receipts nor who is running is a stutter.
LEMMA LedgerStutter ==
  ASSUME IInv, IInv', \A t \in Tasks : Receipt(rowState'[t]) = Receipt(rowState[t]),
         \A t \in Tasks : procs'[t] > 0 <=> procs[t] > 0
  PROVE  UNCHANGED Ledger!lvars
  BY DEF Ledger!lvars, Receipt

\* A step that moves processes of one unreleased session only is its Run.
LEMMA LedgerRun ==
  ASSUME IInv, IInv', NEW u \in Tasks, rowState[u] \in Unreleased,
         \A t \in Tasks : Receipt(rowState'[t]) = Receipt(rowState[t]),
         \A t \in Tasks \ {u} : procs'[t] = procs[t]
  PROVE  Ledger!LNext
  <1>1. [t \in Tasks |-> IF rowState[t] \in Unreleased THEN "open" ELSE rowState[t]]'
        = [t \in Tasks |-> IF rowState[t] \in Unreleased THEN "open" ELSE rowState[t]]
    BY DEF Receipt
  <1>2. {t \in Tasks : procs[t] > 0}' \in
          {{t \in Tasks : procs[t] > 0} \cup {u}, {t \in Tasks : procs[t] > 0} \ {u}}
    <2>1. CASE procs'[u] > 0
      <3>1. {t \in Tasks : procs[t] > 0}' = {t \in Tasks : procs[t] > 0} \cup {u}
        BY <2>1
      <3> QED BY <3>1
    <2>2. CASE ~(procs'[u] > 0)
      <3>1. {t \in Tasks : procs[t] > 0}' = {t \in Tasks : procs[t] > 0} \ {u}
        BY <2>2
      <3> QED BY <3>1
    <2> QED BY <2>1, <2>2
  <1>3. Ledger!Run(u)
    BY <1>1, <1>2 DEF Ledger!Run
  <1> QED BY <1>3 DEF Ledger!LNext

\* A step that writes the receipt of one job, in one of the ledger's four ways.
LEMMA LedgerWrite ==
  ASSUME IInv, NEW u \in Tasks, UNCHANGED procs,
         NEW s, rowState' = [rowState EXCEPT ![u] = s],
         \/ rowState[u] = "none" /\ s = "owned" /\ \A t \in Tasks : rowState[t] \notin Unreleased
         \/ rowState[u] \in Unreleased /\ s = "released" /\ procs[u] = 0
         \/ rowState[u] = "none" /\ s = "released"
         \/ rowState[u] = "released" /\ s = "none"
  PROVE  Ledger!LNext
  <1> DEFINE L == [t \in Tasks |-> IF rowState[t] \in Unreleased THEN "open" ELSE rowState[t]]
             V == {t \in Tasks : procs[t] > 0}
  <1>1. L' = [L EXCEPT ![u] = IF s \in Unreleased THEN "open" ELSE s] /\ V' = V
    BY DEF IInv, TypeOK
  <1>2. CASE rowState[u] = "none" /\ s = "owned" /\ \A t \in Tasks : rowState[t] \notin Unreleased
    <2>1. Ledger!Admit(u)
      BY <1>1, <1>2 DEF Ledger!Admit, Unreleased, IInv, TypeOK
    <2> QED BY <2>1 DEF Ledger!LNext
  <1>3. CASE rowState[u] \in Unreleased /\ s = "released" /\ procs[u] = 0
    <2>1. Ledger!Release(u)
      BY <1>1, <1>3 DEF Ledger!Release, Unreleased
    <2> QED BY <2>1 DEF Ledger!LNext
  <1>4. CASE rowState[u] = "none" /\ s = "released"
    <2>1. Ledger!Seal(u)
      BY <1>1, <1>4 DEF Ledger!Seal, Unreleased
    <2> QED BY <2>1 DEF Ledger!LNext
  <1>5. CASE rowState[u] = "released" /\ s = "none"
    <2>1. Ledger!Forget(u)
      BY <1>1, <1>5 DEF Ledger!Forget, Unreleased
    <2> QED BY <2>1 DEF Ledger!LNext
  <1> QED BY <1>2, <1>3, <1>4, <1>5

\* The end of everything that runs.
LEMMA LedgerKillAll ==
  ASSUME IInv, UNCHANGED rowState, procs' = [t \in Tasks |-> 0]
  PROVE  Ledger!LNext
  <1>1. Ledger!KillAll
    BY DEF Ledger!KillAll
  <1> QED BY <1>1 DEF Ledger!LNext

\* The initial state is the ledger's.
LEMMA LedgerInit == Init => Ledger!LInit
  BY DEF Init, Ledger!LInit, Unreleased

\* stopLocked does not change the receipt of its session.
LEMMA StopKeepsReceipt ==
  ASSUME IInv, NEW u \in Tasks, rowState[u] \in Unreleased, StopEffect(u)
  PROVE  \A t \in Tasks : Receipt(rowState'[t]) = Receipt(rowState[t])
  BY DEF IInv, TypeOK, StopEffect, Receipt, Unreleased

\* Every step of the executor is a step of the ledger or leaves it unchanged.
LEMMA LedgerNext == IInv /\ IInv' /\ [Next]_vars => [Ledger!LNext]_(Ledger!lvars)
  <1> DEFINE Goal == [Ledger!LNext]_(Ledger!lvars)
  <1> SUFFICES ASSUME IInv, IInv', [Next]_vars PROVE Goal
    OBVIOUS
  <1> USE ExecutorAssumption DEF Save, Receipt
  <1>1. ASSUME NEW u \in Tasks, CreateSave(u) PROVE Goal
    <2>1. /\ rowState' = [rowState EXCEPT ![u] = "owned"] /\ rowState[u] = "none"
          /\ UNCHANGED procs /\ \A t \in Tasks : rowState[t] \notin Unreleased
      BY <1>1 DEF CreateSave, IInv, TypeOK, MemoryMirrorsRows, host
    <2> QED BY <2>1, LedgerWrite
  <1>2. ASSUME NEW u \in Tasks, CreateMkdir(u) PROVE Goal
    <2>1. rowState[u] \in Unreleased /\ memState[u] \in Unreleased /\ procs[u] = 0 /\ UNCHANGED procs
      BY <1>2 DEF CreateMkdir, IInv, TypeOK, MemoryMirrorsRows, CreationIsPrivate, Unreleased
    <2>2. CASE UNCHANGED rowState
      BY <2>1, <2>2, LedgerStutter
    <2>3. CASE Released(u, FALSE)
      BY <2>1, <2>3, LedgerWrite DEF Released
    <2>4. CASE StopLocked(u, FALSE)
      <3>1. StopEffect(u)
        BY <2>1, <2>4, StopLockedEffect
      <3> QED BY <2>1, <3>1, StopKeepsReceipt, LedgerStutter
    <2> QED BY <1>2, <2>2, <2>3, <2>4 DEF CreateMkdir
  <1>3. ASSUME NEW u \in Tasks, CreateInode(u) \/ CreateListen(u) PROVE Goal
    <2>1. rowState[u] \in Unreleased /\ memState[u] \in Unreleased /\ UNCHANGED procs
      <3>1. creating = u /\ phase # "down" /\ UNCHANGED procs
        BY <1>3 DEF CreateInode, CreateListen, host
      <3> QED BY <3>1 DEF IInv, TypeOK, MemoryMirrorsRows, CreationIsPrivate, Unreleased
    <2>2. CASE UNCHANGED rowState
      BY <2>1, <2>2, LedgerStutter
    <2>3. CASE StopLocked(u, FALSE)
      <3>1. StopEffect(u)
        BY <2>1, <2>3, StopLockedEffect
      <3> QED BY <2>1, <3>1, StopKeepsReceipt, LedgerStutter
    <2> QED BY <1>3, <2>2, <2>3 DEF CreateInode, CreateListen
  <1>4. ASSUME NEW u \in Tasks, StopUnknown(u) PROVE Goal
    BY <1>4, LedgerWrite DEF StopUnknown, host
  <1>5. ASSUME NEW u \in Tasks, NEW r \in BOOLEAN, Stop(u, r) PROVE Goal
    <2>1. StopEffect(u) /\ rowState[u] \in Unreleased /\ UNCHANGED procs
      BY <1>5, StopLockedEffect DEF Stop, Locked, IInv, TypeOK, MemoryMirrorsRows, host
    <2> QED BY <2>1, StopKeepsReceipt, LedgerStutter
  <1>6. ASSUME NEW u \in Tasks, Deadline(u) PROVE Goal
    <2>1. StopEffect(u) /\ rowState[u] \in Unreleased /\ UNCHANGED procs
      BY <1>6, StopLockedEffect DEF Deadline, Locked, IInv, TypeOK, MemoryMirrorsRows, host
    <2> QED BY <2>1, StopKeepsReceipt, LedgerStutter
  <1>7. ASSUME NEW u \in Tasks, Accept(u) \/ Fork(u) \/ ProcExit(u) \/ KernelKill(u) \/ DaemonFailure(u) PROVE Goal
    <2>1. rowState[u] \in Unreleased
      <3>1. CASE Accept(u)
        BY <3>1 DEF Accept, IInv, MemoryMirrorsRows
      <3>2. CASE procs[u] > 0
        BY <3>2 DEF IInv, ProcessesAreOwned
      <3>3. CASE Fork(u)
        <4>1. procs[u] > 0 BY <3>3, SMT DEF Fork, IInv, TypeOK
        <4> QED BY <3>2, <4>1
      <3>4. CASE ProcExit(u) \/ KernelKill(u) \/ DaemonFailure(u)
        BY <3>2, <3>4 DEF ProcExit, KernelKill, DaemonFailure
      <3> QED BY <1>7, <3>1, <3>3, <3>4
    <2>2. \A t \in Tasks \ {u} : procs'[t] = procs[t]
      <3>1. procs' = procs \/ \E n : procs' = [procs EXCEPT ![u] = n]
        BY <1>7 DEF Accept, Fork, ProcExit, KernelKill, DaemonFailure
      <3> QED BY <3>1 DEF IInv, TypeOK
    <2>3. CASE UNCHANGED rowState
      BY <2>1, <2>2, <2>3, LedgerRun
    <2>4. CASE StopLocked(u, FALSE) /\ memState[u] \in Unreleased
      <3>1. StopEffect(u)
        BY <2>1, <2>4, StopLockedEffect
      <3> QED BY <2>1, <2>2, <3>1, StopKeepsReceipt, LedgerRun
    <2> QED BY <1>7, <2>3, <2>4
            DEF Accept, Fork, ProcExit, KernelKill, DaemonFailure, rows, IInv, TypeOK, Unreleased
  <1>8. ASSUME NEW u \in Tasks, ObserveEmpty(u) PROVE Goal
    <2>1. rowState' = [rowState EXCEPT ![u] = "released"] /\ procs[u] = 0 /\ UNCHANGED procs
      BY <1>8 DEF ObserveEmpty, Released
    <2>2. rowState[u] \in Unreleased
      BY <1>8 DEF ObserveEmpty, Locked, IInv, TypeOK, MemoryMirrorsRows, HandlesAreOwned
    <2> QED BY <2>1, <2>2, LedgerWrite
  <1>9. ASSUME NEW u \in Tasks, ObserveKill(u) PROVE Goal
    <2>1. rowState[u] \in Unreleased
      BY <1>9 DEF ObserveKill, Locked, IInv, TypeOK, MemoryMirrorsRows, HandlesAreOwned
    <2>2. rowState' = rowState \/ rowState' = [rowState EXCEPT ![u] = "blocked"]
      BY <1>9 DEF ObserveKill, SaveOutcomes
    <2>3. \A t \in Tasks : Receipt(rowState'[t]) = Receipt(rowState[t])
      BY <2>1, <2>2 DEF IInv, TypeOK, Unreleased
    <2> QED BY <1>9, <2>3, LedgerStutter DEF ObserveKill, host
  <1>10. ASSUME NEW u \in Tasks, ObserveBlocked(u) PROVE Goal
    <2>1. rowState[u] \in Unreleased
      BY <1>10 DEF ObserveBlocked, Locked, IInv, TypeOK, MemoryMirrorsRows, HandlesAreOwned
    <2>2. \A t \in Tasks : Receipt(rowState'[t]) = Receipt(rowState[t])
      BY <1>10, <2>1 DEF ObserveBlocked, SaveOutcomes, IInv, TypeOK, Unreleased
    <2> QED BY <1>10, <2>2, LedgerStutter DEF ObserveBlocked, host
  <1>11. ASSUME NEW u \in Tasks, Expire(u) PROVE Goal
    BY <1>11, LedgerWrite DEF Expire
  <1>12. CASE Shutdown
    <2>1. ASSUME NEW u \in Tasks, memState[u] # "none", StopLocked(u, FALSE) PROVE Goal
      <3>1. StopEffect(u) /\ rowState[u] \in Unreleased /\ UNCHANGED procs
        BY <1>12, <2>1, StopLockedEffect DEF Shutdown, IInv, TypeOK, MemoryMirrorsRows, host
      <3> QED BY <3>1, StopKeepsReceipt, LedgerStutter
    <2>2. CASE UNCHANGED rowState
      BY <1>12, <2>2, LedgerStutter DEF Shutdown, host
    <2> QED BY <1>12, <2>1, <2>2 DEF Shutdown
  <1>13. CASE Crash
    BY <1>13, LedgerStutter DEF Crash, rows, host
  <1>14. CASE SystemdReap \/ HostReboot
    BY <1>14, LedgerKillAll DEF SystemdReap, HostReboot, rows
  <1>15. CASE Restart
    <2> DEFINE Is(c, r, bad) == {t \in Tasks : Recovered(t, r, bad) = c}
               Row(r, bad, ok) == [t \in Tasks |->
                IF t \in Is("gone", r, bad) THEN "released"
                ELSE IF t \in Is("foreign", r, bad) /\ ok THEN "blocked"
                ELSE IF t \in Is("stop", r, bad) THEN "releasing"
                ELSE rowState[t]]
    <2>0. PICK r \in Roots, bad \in SUBSET Tasks, ok \in SaveOutcomes : rowState' = Row(r, bad, ok)
      BY <1>15, SMTT(60) DEF Restart
    <2>1. rowState' = [t \in Tasks |->
                IF Recovered(t, r, bad) = "gone" THEN "released"
                ELSE IF Recovered(t, r, bad) = "foreign" /\ ok THEN "blocked"
                ELSE IF Recovered(t, r, bad) = "stop" THEN "releasing"
                ELSE rowState[t]]
      BY <2>0
    <2>2. UNCHANGED procs
      BY <1>15 DEF Restart, host
    <2>3. ASSUME NEW u \in Tasks, Recovered(u, r, bad) = "gone" PROVE Goal
      <3>1. rowState[u] \in Unreleased /\ procs[u] = 0
        BY <2>3 DEF Recovered, IInv, TypeOK, ProcessesAreOwned
      <3>2. \A t \in Tasks \ {u} : rowState[t] \notin Unreleased
        BY <3>1 DEF IInv, OneUnreleased
      <3>3. \A t \in Tasks \ {u} : Recovered(t, r, bad) = "none"
        BY <3>2 DEF Recovered
      <3>4. rowState' = [rowState EXCEPT ![u] = "released"]
        BY <2>1, <2>3, <3>3 DEF IInv, TypeOK
      <3> QED BY <2>2, <3>1, <3>4, LedgerWrite
    <2>4. CASE \A t \in Tasks : Recovered(t, r, bad) # "gone"
      <3>1. \A t \in Tasks : Receipt(rowState'[t]) = Receipt(rowState[t])
        BY <2>1, <2>4 DEF Recovered, Unreleased
      <3> QED BY <2>2, <3>1, LedgerStutter
    <2> QED BY <2>3, <2>4
  <1>16. CASE UNCHANGED vars
    BY <1>16, LedgerStutter DEF vars, rows, host
  <1> QED
    BY <1>1, <1>2, <1>3, <1>4, <1>5, <1>6, <1>7, <1>8, <1>9, <1>10, <1>11, <1>12, <1>13,
       <1>14, <1>15, <1>16 DEF Next

\* A released receipt is never opened again: the ledger has no such step.
LEMMA SealStep == IInv /\ [Ledger!LNext]_(Ledger!lvars) => SealKept
  <1> DEFINE L == [t \in Tasks |-> IF rowState[t] \in Unreleased THEN "open" ELSE rowState[t]]
  <1> SUFFICES ASSUME IInv, [Ledger!LNext]_(Ledger!lvars), NEW t \in Tasks, rowState[t] = "released"
               PROVE  rowState'[t] \in {"released", "none"}
    BY DEF SealKept
  <1>1. L[t] = "released"
    BY DEF Unreleased
  <1>2. L'[t] \in {"released", "none"}
    BY <1>1 DEF Ledger!LNext, Ledger!lvars, Ledger!Admit, Ledger!Run, Ledger!Release, Ledger!Seal,
                Ledger!Forget, Ledger!KillAll
  <1> QED BY <1>2 DEF Unreleased

\* A stop is a seal.
THEOREM Sealed == Spec => SealHolds
  <1>1. IInv /\ IInv' /\ [Next]_vars => [SealKept]_vars BY LedgerNext, SealStep
  <1> QED BY <1>1, Invariant, PTL DEF Spec, SealHolds

\* The executor implements the ledger: what NixWorker relies on holds of the real
\* executor for any number of jobs, roots, boots, crashes and lost writes.
THEOREM Refinement == Spec => ImplementsLedger
  <1>1. Init => Ledger!LInit BY LedgerInit
  <1>2. IInv /\ IInv' /\ [Next]_vars => [Ledger!LNext]_(Ledger!lvars) BY LedgerNext
  <1> QED BY <1>1, <1>2, Invariant, PTL DEF Spec, ImplementsLedger, Ledger!LSpec

=============================================================================
