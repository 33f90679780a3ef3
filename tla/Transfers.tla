----------------------------- MODULE Transfers -----------------------------
(***************************************************************************)
(* The uploads of the controller (control: transfers.go,                   *)
(* upload_manifest.go, repository_transfers.go, and the parts of api.go,   *)
(* cleanup.go, operations.go and retention.go that bind, retain and remove *)
(* them).                                                                  *)
(*                                                                         *)
(* An upload is a row, a directory of files and a manifest that declares   *)
(* its objects and reserves their bytes.  A PUT writes one file outside    *)
(* the control mutex and publishes it by committing its index row.  At any *)
(* step the upload may be deleted, expire, be settled with its execution,  *)
(* or the controller may stop.  A write of a row may fail, which closes    *)
(* the service until the controller is started again.                      *)
(*                                                                         *)
(* An object is one byte.  A manifest is its objects and whether they form *)
(* the closure that verifyUpload demands of a cache.                       *)
(***************************************************************************)
EXTENDS FiniteSets, FiniteSetsExt, Integers

CONSTANTS
    Files, Caches,  \* identities of the uploads of either kind
    Objects,        \* object names
    Narinfos,       \* the objects of a cache that verifyUpload reads
    Manifests,      \* [objects : SUBSET Objects, closure : BOOLEAN]
    Labs, Jobs,     \* identities of the executions of either kind
    InputBytes,     \* storage.input_bytes
    None,
    MaxStops,       \* bound: how often the controller stops
    MaxFaults       \* bound: how many writes and removals fail

Uploads == Files \cup Caches
Executions == Labs \cup Jobs
States == {"open", "ready", "settling", "retained", "deleting"}
Rows == [state : States, execution : Executions \cup {None},
         manifest : Manifests \cup {None}, objects : SUBSET Objects]

ASSUME TransfersAssumption ==
    /\ InputBytes \in Nat
    /\ MaxStops \in Nat /\ MaxFaults \in Nat
    /\ IsFiniteSet(Objects) /\ IsFiniteSet(Uploads) /\ Narinfos \subseteq Objects
    /\ Files \cap Caches = {} /\ Labs \cap Jobs = {}
    /\ Manifests \subseteq [objects : SUBSET Objects \ {{}}, closure : BOOLEAN]
    /\ None \notin Uploads \cup Objects \cup Manifests \cup Executions \cup Rows

VARIABLES
    up,             \* whether the controller runs
    stops,
    closed,         \* Server.closed: a write of a row has failed
    faults,
    torn,           \* history: the uploads whose mark was lost, not their removal
    row,            \* the transfers row with the objects of its index
    dir,            \* whether transfers/<id> exists
    file,           \* the file of an object: "none", "partial", "synced"
    reserved,       \* Transfer.ReservedBytes in memory
    put,            \* the PUT that holds the transfer lock, uploading[id]
    removal,        \* the removal of the upload in progress
    execution       \* an execution as far as its inputs depend on it

disk == <<row, dir, file>>
vars == <<up, stops, closed, faults, torn, row, dir, file, reserved, put, removal, execution>>

Puts == [at : {"none", "manifest", "same", "stage", "staged", "publish", "verify"},
         object : Objects \cup {None},
         manifest : Manifests \cup {None}, cancelled : BOOLEAN]
NoPut == [at |-> "none", object |-> None, manifest |-> None,
          cancelled |-> FALSE]
NoFiles == [n \in Objects |-> "none"]

TypeOK ==
    /\ up \in BOOLEAN
    /\ stops \in 0 .. MaxStops
    /\ closed \in BOOLEAN
    /\ faults \in 0 .. MaxFaults
    /\ torn \in SUBSET Uploads
    /\ row \in [Uploads -> {None} \cup Rows]
    /\ dir \in [Uploads -> BOOLEAN]
    /\ file \in [Uploads -> [Objects -> {"none", "partial", "synced"}]]
    /\ reserved \in [Uploads -> Nat]
    /\ put \in [Uploads -> Puts]
    /\ removal \in [Uploads -> {"none", "settle", "files", "row", "failed"}]
    /\ execution \in [Executions -> {"none", "active", "ended", "settling",
                                     "complete"}]

Init ==
    /\ up = TRUE /\ stops = 0 /\ closed = FALSE /\ faults = 0 /\ torn = {}
    /\ row = [u \in Uploads |-> None]
    /\ dir = [u \in Uploads |-> FALSE]
    /\ file = [u \in Uploads |-> NoFiles]
    /\ reserved = [u \in Uploads |-> 0]
    /\ put = [u \in Uploads |-> NoPut]
    /\ removal = [u \in Uploads |-> "none"]
    /\ execution = [e \in Executions |-> "none"]
-----------------------------------------------------------------------------
Exists(u) == row[u] # None
Unbound(u) == row[u].execution = None
Bound(e) == {u \in Uploads : Exists(u) /\ row[u].execution = e}
Total(m) == Cardinality(m.objects)
Terminal(e) == execution[e] \notin {"none", "active"}

\* inputUsage: retained inputs count as evidence instead.
Usage(u) ==
    IF ~Exists(u) \/ row[u].state = "retained" THEN 0
    ELSE Max({Cardinality(row[u].objects), reserved[u]})

\* The bytes that the uploads of S use, each byte of an upload as one element:
\* their number is the sum that inputUsage computes.
Used(S) == {b \in S \X (1 .. Cardinality(Objects)) : b[2] <= Usage(b[1])}
InputUsage == Cardinality(Used(Uploads))

\* The upload is "deleting" in memory, which may be ahead of the row.
Deleting(u) == row[u].state = "deleting" \/ removal[u] # "none"

\* uploadAllowed
UploadAllowed(u) ==
    /\ ~closed /\ Exists(u) /\ row[u].state = "open"
    /\ ~Unbound(u) => ~Terminal(row[u].execution)

EndPut(u) == put' = [put EXCEPT ![u] = NoPut]
PutAt(u, step) == put' = [put EXCEPT ![u].at = step]
Cancelled(S) ==
    [u \in Uploads |-> IF u \in S /\ put[u].at # "none"
                       THEN [put[u] EXCEPT !.cancelled = TRUE] ELSE put[u]]

Fault == faults < MaxFaults /\ faults' = faults + 1

\* The writes of persist: a failed one closes the service.
Written == UNCHANGED <<closed, faults>>
Lost == Fault /\ closed' = TRUE

\* persist: the rows of S get the state s.  A failed write leaves its row.
Persist(S, s) ==
    \E lost \in SUBSET S :
      /\ row' = [u \in Uploads |-> IF u \in S \ lost THEN [row[u] EXCEPT !.state = s]
                                                    ELSE row[u]]
      /\ IF lost = {} THEN Written ELSE Lost

\* createTransfer; a failed commit leaves the directory.
Create(u) ==
    /\ up /\ ~closed /\ ~Exists(u) /\ ~dir[u] /\ removal[u] = "none"
    /\ InputUsage < InputBytes
    /\ dir' = [dir EXCEPT ![u] = TRUE]
    /\ row' \in {row, [row EXCEPT ![u] =
                   [state |-> "open", execution |-> None, manifest |-> None,
                    objects |-> {}]]}
    /\ UNCHANGED <<up, stops, closed, faults, torn, file, reserved, put, removal, execution>>

\* Mutant: the reservation is made when the manifest is declared.
PutManifestLate(u, m) ==
    /\ up /\ put[u].at = "none"
    /\ UploadAllowed(u) /\ row[u].manifest = None
    /\ u \in Files => Total(m) = 1 /\ m.closure
    /\ Total(m) <= InputBytes - InputUsage
    /\ put' = [put EXCEPT ![u] = [NoPut EXCEPT !.at = "manifest",
                                               !.manifest = m]]
    /\ UNCHANGED <<up, stops, closed, faults, torn, disk, reserved, removal, execution>>

\* Files and uploadManifest up to the provisional reservation.  A second
\* manifest changes nothing, whether it is the same or another one.
PutManifest(u, m) ==
    /\ up /\ put[u].at = "none"
    /\ UploadAllowed(u) /\ row[u].manifest = None
    /\ u \in Files => Total(m) = 1 /\ m.closure
    /\ Total(m) <= InputBytes - InputUsage
    /\ reserved' = [reserved EXCEPT ![u] = Total(m)]
    /\ put' = [put EXCEPT ![u] = [NoPut EXCEPT !.at = "manifest",
                                               !.manifest = m]]
    /\ UNCHANGED <<up, stops, closed, faults, torn, disk, removal, execution>>

\* uploadManifest after the file is written: DeclareUpload, or the
\* reservation is given back.
DeclareUpload(u) ==
    /\ up /\ put[u].at = "manifest"
    /\ \/ /\ ~put[u].cancelled /\ UploadAllowed(u)
          /\ row' = [row EXCEPT ![u].manifest = put[u].manifest]
          /\ UNCHANGED reserved
       \/ /\ reserved' = [reserved EXCEPT ![u] = 0]
          /\ UNCHANGED row
    /\ dir' = [dir EXCEPT ![u] = TRUE]
    /\ EndPut(u)
    /\ UNCHANGED <<up, stops, closed, faults, torn, file, removal, execution>>

\* Files: a PUT of a declared object takes the transfer lock and registers.
PutObject(u, n) ==
    /\ up /\ ~closed /\ put[u].at = "none"
    /\ Exists(u) /\ row[u].manifest # None /\ n \in row[u].manifest.objects
    /\ UploadAllowed(u) \/ row[u].state = "ready"
    /\ put' = [put EXCEPT ![u] =
                 [NoPut EXCEPT !.object = n,
                               !.at = IF n \in row[u].objects THEN "same"
                                                              ELSE "stage"]]
    /\ UNCHANGED <<up, stops, closed, faults, torn, disk, reserved, removal, execution>>

\* A published object is only compared; an equal one verifies again.
SameObject(u) ==
    /\ up /\ put[u].at = "same"
    /\ EndPut(u) \/ PutAt(u, "verify")
    /\ UNCHANGED <<up, stops, closed, faults, torn, disk, reserved, removal, execution>>

\* root.Write: a partial file, then its final name once it is synced.  It
\* makes the directory where there is none.
StageObject(u) ==
    /\ up /\ put[u].at = "stage"
    /\ dir' = [dir EXCEPT ![u] = TRUE]
    /\ file' = [file EXCEPT ![u][put[u].object] = "partial"]
    /\ PutAt(u, "staged")
    /\ UNCHANGED <<up, stops, closed, faults, torn, row, reserved, removal, execution>>

SyncObject(u) ==
    /\ up /\ put[u].at = "staged"
    /\ file' = [file EXCEPT ![u][put[u].object] = "synced"]
    /\ PutAt(u, "publish")
    /\ UNCHANGED <<up, stops, closed, faults, torn, row, dir, reserved, removal, execution>>

\* The body ends early, its size or hash differs, or the request is
\* cancelled: the staged file is removed.
FailObject(u) ==
    /\ up /\ put[u].at \in {"stage", "staged"}
    /\ file' = [file EXCEPT ![u][put[u].object] = "none"]
    /\ EndPut(u)
    /\ UNCHANGED <<up, stops, closed, faults, torn, row, dir, reserved, removal, execution>>

\* publishTransferObject: the index commit publishes the file; then the row
\* is persisted.  A request that is cancelled before it or no longer allowed,
\* or whose commit fails, removes the file.
PublishObject(u) ==
    /\ up /\ put[u].at = "publish"
    /\ \/ /\ ~put[u].cancelled /\ UploadAllowed(u)
          /\ row' = [row EXCEPT ![u].objects = @ \cup {put[u].object}]
          /\ Written \/ Lost
          /\ PutAt(u, "verify")
          /\ UNCHANGED file
       \/ /\ file' = [file EXCEPT ![u][put[u].object] = "none"]
          /\ EndPut(u)
          /\ Written /\ UNCHANGED row
    /\ UNCHANGED <<up, stops, torn, dir, reserved, removal, execution>>

\* verifyUpload: every declared object is published and the closure holds.
Complete(u) ==
    /\ row[u].manifest # None
    /\ row[u].objects = row[u].manifest.objects

\* Mutant: completeUpload does not count the missing objects.
VerifiedAnyway(u) ==
    row[u].manifest # None /\ row[u].manifest.closure

Verified(u) == Complete(u) /\ row[u].manifest.closure

\* It reads the narinfo files of a cache, and no file of a file upload.
Readable(u) ==
    u \in Caches => \A n \in row[u].objects \cap Narinfos : file[u][n] = "synced"

\* completeUpload reads without the mutex and decides with it.  A failed save
\* leaves the upload open.
VerifyUpload(u) ==
    /\ up /\ put[u].at = "verify"
    /\ \/ /\ UploadAllowed(u) /\ Verified(u) /\ Readable(u)
          /\ row' = [row EXCEPT ![u].state = "ready"]
          /\ UNCHANGED faults
       \/ UNCHANGED row /\ Fault
       \/ /\ ~(UploadAllowed(u) /\ Verified(u) /\ Readable(u))
          /\ UNCHANGED <<row, faults>>
    /\ EndPut(u)
    /\ UNCHANGED <<up, stops, closed, torn, dir, file, reserved, removal, execution>>
-----------------------------------------------------------------------------
\* Admit: a new execution is recorded together with its ready inputs, the
\* files of a lab or the cache of a Nix job (buildNix).
Admit(e, S) ==
    /\ up /\ ~closed /\ execution[e] = "none"
    /\ IF e \in Labs THEN S \subseteq Files
                     ELSE S \subseteq Caches /\ Cardinality(S) = 1
    /\ \A u \in S : Exists(u) /\ row[u].state = "ready" /\ Unbound(u)
    /\ execution' = [execution EXCEPT ![e] = "active"]
    /\ row' = [u \in Uploads |-> IF u \in S
                                 THEN [row[u] EXCEPT !.execution = e]
                                 ELSE row[u]]
    /\ UNCHANGED <<up, stops, closed, faults, torn, dir, file, reserved, put, removal>>

\* putGuest binds a ready upload to the running lab it is delivered to.
PutGuest(e, u) ==
    /\ up /\ ~closed /\ e \in Labs /\ u \in Files /\ execution[e] = "active"
    /\ Exists(u) /\ row[u].state = "ready" /\ Unbound(u)
    /\ row' = [row EXCEPT ![u].execution = e]
    /\ UNCHANGED <<up, stops, closed, faults, torn, dir, file, reserved, put, removal, execution>>

EndExecution(e) ==
    /\ up /\ execution[e] = "active"
    /\ execution' = [execution EXCEPT ![e] = "ended"]
    /\ UNCHANGED <<up, stops, closed, faults, torn, disk, reserved, put, removal>>

\* cleanup of a lab and retainTransfers: the inputs take no more writes.
RetainTransfers(e) ==
    /\ up /\ e \in Labs /\ execution[e] = "ended"
    /\ Persist({u \in Bound(e) : row[u].state \in {"open", "ready"} /\ ~Deleting(u)},
               "settling")
    /\ put' = Cancelled(Bound(e))
    /\ execution' = [execution EXCEPT ![e] = "settling"]
    /\ UNCHANGED <<up, stops, torn, dir, file, reserved, removal>>

\* completeTransfers: a lab's cleanup has waited for the PUTs, releaseNix
\* and applyNixResources do not.
CompleteTransfers(e) ==
    /\ up
    /\ \/ e \in Jobs /\ execution[e] = "ended"
       \/ /\ execution[e] = "settling"
          /\ \A u \in Bound(e) : put[u].at = "none"
    /\ Persist({u \in Bound(e) : ~Deleting(u)}, "retained")
    /\ execution' = [execution EXCEPT ![e] = "complete"]
    /\ UNCHANGED <<up, stops, torn, dir, file, reserved, put, removal>>
-----------------------------------------------------------------------------
\* Mutant: upload_delete takes a bound input.
DeleteUploadBound(u) ==
    /\ up /\ ~closed /\ Exists(u) /\ removal[u] \in {"none", "failed"}
    /\ Persist({u}, "deleting")
    /\ put' = Cancelled({u})
    /\ removal' = [removal EXCEPT ![u] = "settle"]
    /\ UNCHANGED <<up, stops, torn, dir, file, reserved, execution>>

\* deleteUpload up to the wait for the PUT it cancels.
DeleteUpload(u) ==
    /\ up /\ ~closed /\ Exists(u) /\ Unbound(u) /\ removal[u] \in {"none", "failed"}
    /\ Persist({u}, "deleting")
    /\ put' = Cancelled({u})
    /\ removal' = [removal EXCEPT ![u] = "settle"]
    /\ UNCHANGED <<up, stops, torn, dir, file, reserved, execution>>

\* It has the transfer lock, which a closed service does not give.
DeleteSettled(u) ==
    /\ up /\ ~closed /\ removal[u] = "settle" /\ put[u].at = "none"
    /\ removal' = [removal EXCEPT ![u] = "files"]
    /\ UNCHANGED <<up, stops, closed, faults, torn, disk, reserved, put, execution>>

\* removeTransfer marks the row before it gives up the mutex.  It goes on to
\* the files when the mark could not be written.
RemoveTransfer(u) ==
    /\ up /\ put[u].at = "none" /\ removal[u] \in {"none", "settle", "failed"}
    /\ Persist({u}, "deleting")
    /\ torn' = IF row'[u].state = "deleting" THEN torn ELSE torn \cup {u}
    /\ removal' = [removal EXCEPT ![u] = "files"]
    /\ UNCHANGED <<up, stops, dir, file, reserved, put, execution>>

\* reclaim: an unbound upload has been idle for storage.upload_idle.
Expire(u) == Exists(u) /\ Unbound(u) /\ RemoveTransfer(u)

\* monitor and the end of the handoff: the worker has imported the input.
Imported(u) == Exists(u) /\ row[u].execution \in Jobs /\ RemoveTransfer(u)

\* purge: the inputs of a settled execution (the mark of its summary is left out).
PurgeInput(u) ==
    /\ Exists(u) /\ ~Unbound(u) /\ execution[row[u].execution] = "complete"
    /\ \A v \in Bound(row[u].execution) : put[v].at = "none"
    /\ RemoveTransfer(u)

RemoveFiles(u) ==
    /\ up /\ removal[u] = "files"
    /\ dir' = [dir EXCEPT ![u] = FALSE]
    /\ file' = [file EXCEPT ![u] = NoFiles]
    /\ removal' = [removal EXCEPT ![u] = "row"]
    /\ UNCHANGED <<up, stops, closed, faults, torn, row, reserved, put, execution>>

\* A lost mark has cancelled the context of the DELETE.
RemoveRow(u) ==
    /\ up /\ removal[u] = "row" /\ row[u].state = "deleting"
    /\ row' = [row EXCEPT ![u] = None]
    /\ torn' = torn \ {u}
    /\ reserved' = [reserved EXCEPT ![u] = 0]
    /\ removal' = [removal EXCEPT ![u] = "none"]
    /\ UNCHANGED <<up, stops, closed, faults, dir, file, put, execution>>

\* RemoveAll or DELETE returns an error: the removal is given up until it is
\* tried again.  In a closed service it is given up where it is.
RemovalFails(u) ==
    /\ up /\ ~closed /\ removal[u] \in {"files", "row"}
    /\ Fault
    /\ removal' = [removal EXCEPT ![u] = "failed"]
    /\ UNCHANGED <<up, stops, closed, torn, disk, reserved, put, execution>>

\* reclaim: a directory no row names, an hour after its creation.
SweepDirectory(u) ==
    /\ up /\ ~closed /\ dir[u] /\ ~Exists(u)
    /\ dir' = [dir EXCEPT ![u] = FALSE]
    /\ file' = [file EXCEPT ![u] = NoFiles]
    /\ UNCHANGED <<up, stops, closed, faults, torn, row, reserved, put, removal, execution>>
-----------------------------------------------------------------------------
\* The controller stops: requests and removals end where they are.
Stop ==
    /\ up /\ stops < MaxStops
    /\ up' = FALSE /\ stops' = stops + 1 /\ closed' = FALSE
    /\ put' = [u \in Uploads |-> NoPut]
    /\ removal' = [u \in Uploads |-> "none"]
    /\ execution' = [e \in Executions |->
                       IF execution[e] = "settling" THEN "ended"
                                                    ELSE execution[e]]
    /\ reserved' = [u \in Uploads |-> 0]
    /\ UNCHANGED <<disk, faults, torn>>

\* New verifies an open upload again and fails with it.
Refused(u) ==
    /\ Exists(u) /\ row[u].state = "open"
    /\ Complete(u) /\ ~(Verified(u) /\ Readable(u))

\* Mutant: the recovery keeps only what is ready.
RecoverTransferReady(u) ==
    [n \in Objects |-> IF row[u].state = "ready" THEN file[u][n] ELSE "none"]

\* recoverTransfer: files the index does not refer to.
RecoverTransfer(u) ==
    [n \in Objects |-> IF n \in row[u].objects THEN file[u][n] ELSE "none"]

\* Mutant: New keeps an upload whose removal was under way.
LeftoverKept(u) == FALSE

\* New finishes the removal that a stop interrupted.
Leftover(u) == Exists(u) /\ row[u].state = "deleting"

\* New
Start ==
    /\ ~up /\ ~\E u \in Uploads : Refused(u)
    /\ up' = TRUE
    /\ row' = [u \in Uploads |->
                 IF Leftover(u) THEN None
                 ELSE IF UploadAllowed(u) /\ Verified(u)
                 THEN [row[u] EXCEPT !.state = "ready"] ELSE row[u]]
    /\ dir' = [u \in Uploads |-> dir[u] /\ ~Leftover(u)]
    /\ file' = [u \in Uploads |->
                  IF Leftover(u) THEN NoFiles
                  ELSE IF Exists(u) THEN RecoverTransfer(u) ELSE file[u]]
    /\ reserved' = [u \in Uploads |->
                      IF Exists(u) /\ ~Leftover(u) /\ row[u].manifest # None
                      THEN Total(row[u].manifest) ELSE 0]
    /\ torn' = {u \in torn : ~Leftover(u)}
    /\ UNCHANGED <<stops, closed, faults, put, removal, execution>>
-----------------------------------------------------------------------------
PutStep(u) ==
    \/ DeclareUpload(u) \/ SameObject(u) \/ StageObject(u) \/ SyncObject(u)
    \/ FailObject(u) \/ PublishObject(u) \/ VerifyUpload(u)
RemovalStep(u) ==
    DeleteSettled(u) \/ RemoveFiles(u) \/ RemoveRow(u) \/ RemovalFails(u)

Next ==
    \/ \E u \in Uploads :
         \/ Create(u) \/ PutStep(u) \/ DeleteUpload(u) \/ RemovalStep(u)
         \/ Expire(u) \/ Imported(u) \/ PurgeInput(u) \/ SweepDirectory(u)
         \/ \E m \in Manifests : PutManifest(u, m)
         \/ \E n \in Objects : PutObject(u, n)
    \/ \E e \in Executions :
         \/ EndExecution(e) \/ RetainTransfers(e) \/ CompleteTransfers(e)
         \/ \E S \in SUBSET Uploads : Admit(e, S)
         \/ \E u \in Uploads : PutGuest(e, u)
    \/ Stop \/ Start

Spec == Init /\ [][Next]_vars

\* purge runs again where it has failed.
PurgeAgain(u) == removal[u] = "failed" /\ PurgeInput(u)

\* A PUT has a budget of five minutes and is cancelled by who waits for it;
\* removals, cleanup and the retention pass run by themselves; the service
\* manager starts a stopped controller again.
FairSpec ==
    /\ Spec
    /\ \A u \in Uploads : /\ WF_vars(PutStep(u)) /\ WF_vars(RemovalStep(u))
                          /\ WF_vars(Expire(u)) /\ WF_vars(PurgeAgain(u))
    /\ WF_vars(Start)
-----------------------------------------------------------------------------
(* Properties                                                              *)

\* Every object the index names has its synced file, whichever PUT, removal,
\* recovery or sweep ran before (transfers.go:488, 545-609), unless the mark
\* of its removal was lost (retention.go:340-350): a known deviation.
PublishedIsStored ==
    \A u \in Uploads :
      Exists(u) /\ row[u].state # "deleting" /\ u \notin torn =>
        dir[u] /\ \A n \in row[u].objects : file[u][n] = "synced"

\* An input that is ready, or that an execution owns, has its complete and
\* verified manifest: verifyUpload decides on a snapshot and outside the
\* mutex (transfers.go:243-310).
InputIsVerified ==
    \A u \in Uploads :
      /\ Exists(u) /\ row[u].state # "deleting"
      /\ row[u].state # "open" \/ ~Unbound(u)
      => Complete(u) /\ row[u].manifest.closure

\* Both: the index of an upload is right about its files and its completeness.
Inv == TypeOK /\ PublishedIsStored /\ InputIsVerified

\* An upload that is not yet evidence: unbound, or its execution not complete.
Staged(u) ==
    Exists(u) /\ (~Unbound(u) => execution[row[u].execution] # "complete")

\* Concurrent manifests never reserve more than the staging budget
\* (upload_manifest.go:85-95).  The input of a complete execution counts as
\* evidence; inputUsage counts it once more while its removal is under way.
BudgetHolds == Cardinality(Used({u \in Uploads : Staged(u)})) <= InputBytes

\* The input of a lab stays what it is until the lab's cleanup is complete:
\* no deletion, expiry or recovery takes it away and no PUT changes it.
InputIsProtected ==
    [][\A u \in Uploads :
         Exists(u) /\ row[u].execution \in Labs
           /\ execution[row[u].execution] # "complete"
         => /\ row'[u] # None
            /\ row'[u].state # "deleting"
            /\ row'[u].objects = row[u].objects
            /\ row'[u].execution = row[u].execution]_vars

Gone(u) == ~Exists(u) /\ ~dir[u]

\* The removal of a job's input has failed and waits for the next status of
\* the job or for its purge.
AwaitsJob(u) ==
    /\ removal[u] = "failed" /\ row[u].execution \in Jobs
    /\ execution[row[u].execution] # "complete"

\* A removal ends with the row and the directory gone, across stops of the
\* controller and errors of RemoveAll and DELETE, unless the controller is
\* closed or refused its start.
RemovalEnds ==
    \A u \in Uploads :
      (Exists(u) /\ row[u].state = "deleting")
        ~> (Gone(u) \/ AwaitsJob(u) \/ closed \/ \E v \in Uploads : Refused(v))

\* contract.md:653: unbound uploads expire after one idle hour.  This does not
\* hold of the code for a cache that is complete and not closed when the
\* controller stops: a known deviation, which no run checks.
UnboundExpires ==
    \A u \in Uploads :
      (Exists(u) /\ row[u].state = "open") ~> (~Exists(u) \/ row[u].state # "open")
-----------------------------------------------------------------------------
(* The inductive invariants: IInv behind Inv and InputIsProtected, and    *)
(* BInv, which adds what BudgetHolds needs.                                *)

\* Only a ready upload is bound.
OpenIsUnbound == \A u \in Uploads : Exists(u) /\ row[u].state = "open" => Unbound(u)

\* A PUT has an upload whose files nobody removes, and writes no published object.
PutInStep ==
    \A u \in Uploads :
      /\ put[u].at # "none" => up /\ Exists(u) /\ removal[u] \notin {"files", "row"}
      /\ put[u].at \in {"stage", "staged", "publish"} =>
           put[u].object \in Objects /\ put[u].object \notin row[u].objects
      /\ put[u].at = "publish" => file[u][put[u].object] = "synced"

\* What is being removed is marked, unless the service is closed and the upload
\* torn, and the input of a lab never is before the lab's cleanup is complete.
RemovalInStep ==
    \A u \in Uploads :
      /\ removal[u] # "none" => up /\ Exists(u) /\ (row[u].state = "deleting" \/ closed)
      /\ removal[u] = "files" => row[u].state = "deleting" \/ u \in torn
      /\ Exists(u) /\ row[u].execution \in Labs /\ row[u].state = "deleting" =>
           execution[row[u].execution] = "complete"

IInv == Inv /\ OpenIsUnbound /\ PutInStep /\ RemovalInStep

\* The manifest that an upload has or is about to have, and what that claims of
\* the budget, also while the controller is stopped and no reservation is left.
Promised(u) == IF put[u].at = "manifest" THEN put[u].manifest ELSE row[u].manifest
Size(m) == IF m = None THEN 0 ELSE Total(m)
Claim(u) == IF Staged(u) THEN Size(Promised(u)) ELSE 0
Claimed == {b \in Uploads \X (1 .. Cardinality(Objects)) : b[2] <= Claim(b[1])}

\* The reservation is that of the promised manifest, published objects are
\* declared ones, and a retained input belongs to a complete execution.
ReservationInStep ==
    \A u \in Uploads :
      /\ put[u].at = "manifest" => put[u].manifest # None /\ row[u].manifest = None
      /\ reserved[u] = IF up /\ Exists(u) THEN Size(Promised(u)) ELSE 0
      /\ Exists(u) /\ row[u].manifest = None => row[u].objects = {}
      /\ Exists(u) /\ row[u].manifest # None => row[u].objects \subseteq row[u].manifest.objects
      /\ put[u].at \notin {"none", "manifest"} => row[u].manifest # None
      /\ put[u].at \in {"stage", "staged", "publish"} =>
           put[u].object \in row[u].manifest.objects
      /\ Exists(u) /\ row[u].state = "retained" => ~Staged(u)

BInv == IInv /\ ReservationInStep /\ Cardinality(Claimed) <= InputBytes
=============================================================================
