--------------------------- MODULE TransfersProofs ---------------------------
(***************************************************************************)
(* Proofs about Transfers, for every set of uploads, objects, manifests    *)
(* and executions, and any number of stops and failing writes: an index is *)
(* right about its completeness, and about its files unless the mark of    *)
(* its removal was lost, the input of a lab is protected, and the staging  *)
(* budget is kept.                                                         *)
(*                                                                         *)
(* Each conjunct of the inductive invariant is about one upload, and an    *)
(* action changes one upload or changes all of them alike.  Sound(u) is    *)
(* the invariant of upload u; what is proved of every action is that the   *)
(* uploads it changes are sound again.                                     *)
(***************************************************************************)
EXTENDS Transfers, FiniteSetTheorems, TLAPS

FileStates == {"none", "partial", "synced"}
Removals == {"none", "settle", "files", "row", "failed"}
Stages == {"none", "active", "ended", "settling", "complete"}

-----------------------------------------------------------------------------
(* The invariant of one upload.                                            *)

RowSound(u) ==
  Exists(u) =>
    /\ row[u].state # "deleting" /\ u \notin torn => dir[u] /\ \A n \in row[u].objects : file[u][n] = "synced"
    /\ row[u].state \notin {"deleting", "open"} => Verified(u)
    /\ row[u].state = "open" => Unbound(u)
    /\ row[u].execution \in Labs /\ row[u].state = "deleting" => execution[row[u].execution] = "complete"

PutSound(u) ==
  /\ put[u].at # "none" => up /\ Exists(u) /\ removal[u] \notin {"files", "row"}
  /\ put[u].at \in {"stage", "staged", "publish"} =>
       put[u].object \in Objects /\ put[u].object \notin row[u].objects
  /\ put[u].at = "publish" => file[u][put[u].object] = "synced"
  /\ removal[u] # "none" => up /\ Exists(u) /\ (row[u].state = "deleting" \/ closed)
  /\ removal[u] = "files" => row[u].state = "deleting" \/ u \in torn

\* The invariant is that of every upload.
LEMMA SoundIsIInv ==
  /\ IInv <=> TypeOK /\ \A u \in Uploads : RowSound(u) /\ PutSound(u)
  /\ IInv' <=> TypeOK' /\ \A u \in Uploads : RowSound(u)' /\ PutSound(u)'
  <1> USE DEF IInv, Inv, PublishedIsStored, InputIsVerified, OpenIsUnbound, PutInStep, RemovalInStep, RowSound, PutSound, Verified
  <1>1. IInv <=> TypeOK /\ \A u \in Uploads : RowSound(u) /\ PutSound(u)
    OBVIOUS
  <1>2. IInv' <=> TypeOK' /\ \A u \in Uploads : RowSound(u)' /\ PutSound(u)'
    OBVIOUS
  <1>3. QED BY <1>1, <1>2

\* A step that leaves an upload alone keeps it sound.
LEMMA Frame ==
  ASSUME NEW u \in Uploads, RowSound(u), PutSound(u), up' = up, execution' = execution,
         closed => closed', u \in torn' <=> u \in torn, row'[u] = row[u], dir'[u] = dir[u], file'[u] = file[u], put'[u].at = put[u].at, put'[u].object = put[u].object, removal'[u] = removal[u]
  PROVE  RowSound(u)' /\ PutSound(u)'
  BY DEF RowSound, PutSound, Exists, Unbound, Verified, Complete

\* A manifest has a size.
LEMMA Totals == \A m \in Manifests : Total(m) \in Nat
  <1> SUFFICES ASSUME NEW m \in Manifests PROVE Total(m) \in Nat
    OBVIOUS
  <1>1. m.objects \subseteq Objects
    BY TransfersAssumption
  <1>2. QED BY <1>1, TransfersAssumption, FS_Subset, FS_CardinalityType DEF Total

\* A step that changes one upload only keeps the invariant when that one is
\* sound afterwards.
LEMMA OneUpload ==
  ASSUME IInv, TypeOK', NEW u \in Uploads, RowSound(u)', PutSound(u)', up' = up, execution' = execution, closed => closed',
         \A v \in Uploads \ {u} :
           /\ v \in torn' <=> v \in torn
           /\ row'[v] = row[v] /\ dir'[v] = dir[v] /\ file'[v] = file[v]
           /\ put'[v] = put[v] /\ removal'[v] = removal[v]
  PROVE  IInv'
  <1>1. ASSUME NEW v \in Uploads PROVE RowSound(v)' /\ PutSound(v)'
    <2>1. CASE v = u
      BY <2>1
    <2>2. CASE v # u
      BY <2>2, Frame, SoundIsIInv
    <2>3. QED BY <2>1, <2>2
  <1>2. QED BY <1>1, SoundIsIInv

-----------------------------------------------------------------------------
(* What the updates of the model do.                                       *)

\* None is told apart from rows, objects and executions.
LEMMA NoneIsNoRow == None \notin Rows /\ None \notin Objects /\ None \notin Executions
  BY TransfersAssumption

\* A row whose state has changed.  The next three are about its other fields.
LEMMA RowState ==
  ASSUME NEW r \in Rows, NEW s \in States
  PROVE  LET q == [r EXCEPT !.state = s]
         IN  /\ q \in Rows /\ q.state = s /\ q.execution = r.execution /\ q.manifest = r.manifest
             /\ q.objects = r.objects
  BY DEF Rows

\* An upload is bound.
LEMMA RowExecution ==
  ASSUME NEW r \in Rows, NEW e \in Executions
  PROVE  LET q == [r EXCEPT !.execution = e]
         IN  /\ q \in Rows /\ q.state = r.state /\ q.execution = e /\ q.manifest = r.manifest
             /\ q.objects = r.objects
  BY DEF Rows

\* A manifest is declared.
LEMMA RowManifest ==
  ASSUME NEW r \in Rows, NEW m \in Manifests \cup {None}
  PROVE  LET q == [r EXCEPT !.manifest = m]
         IN  /\ q \in Rows /\ q.state = r.state /\ q.execution = r.execution /\ q.manifest = m
             /\ q.objects = r.objects
  BY DEF Rows

\* An object is published.
LEMMA RowObjects ==
  ASSUME NEW r \in Rows, NEW n \in Objects
  PROVE  LET q == [r EXCEPT !.objects = @ \cup {n}]
         IN  /\ q \in Rows /\ q.state = r.state /\ q.execution = r.execution /\ q.manifest = r.manifest
             /\ q.objects = r.objects \cup {n}
  BY DEF Rows

\* The PUT of u moves on.
LEMMA PutAtIs ==
  ASSUME TypeOK, NEW u \in Uploads, NEW s \in {"verify", "staged", "publish"}, PutAt(u, s)
  PROVE  /\ put' \in [Uploads -> Puts] /\ put'[u].at = s /\ put'[u].object = put[u].object
         /\ \A v \in Uploads \ {u} : put'[v] = put[v]
  <1> DEFINE p == [put[u] EXCEPT !.at = s]
  <1>1. put[u] \in Puts
    BY DEF TypeOK
  <1>2. p \in Puts /\ p.at = s /\ p.object = put[u].object
    BY <1>1 DEF Puts
  <1>3. put' = [put EXCEPT ![u] = p]
    BY DEF PutAt
  <1> HIDE DEF p
  <1>4. QED BY <1>2, <1>3 DEF TypeOK

\* The PUT of u ends.
LEMMA EndPutIs ==
  ASSUME TypeOK, NEW u \in Uploads, EndPut(u)
  PROVE  /\ put' \in [Uploads -> Puts] /\ put'[u].at = "none"
         /\ \A v \in Uploads \ {u} : put'[v] = put[v]
  <1>1. NoPut \in Puts /\ NoPut.at = "none"
    BY DEF NoPut, Puts
  <1>2. QED BY <1>1 DEF EndPut, TypeOK

\* The PUTs of S are cancelled, and stay where they are.
LEMMA CancelledIs ==
  ASSUME TypeOK, NEW S
  PROVE  /\ Cancelled(S) \in [Uploads -> Puts]
         /\ \A u \in Uploads : /\ Cancelled(S)[u].at = put[u].at /\ Cancelled(S)[u].object = put[u].object
                               /\ Cancelled(S)[u].manifest = put[u].manifest
         /\ \A u \in Uploads \ S : Cancelled(S)[u] = put[u]
  <1>1. \A p \in Puts : LET q == [p EXCEPT !.cancelled = TRUE]
                        IN  q \in Puts /\ q.at = p.at /\ q.object = p.object /\ q.manifest = p.manifest
    BY DEF Puts
  <1>2. \A u \in Uploads : put[u] \in Puts
    BY DEF TypeOK
  <1>3. QED BY <1>1, <1>2 DEF Cancelled

\* One file of u changes.
LEMMA FileIs ==
  ASSUME TypeOK, NEW u \in Uploads, NEW n \in Objects, NEW s \in FileStates,
         file' = [file EXCEPT ![u][n] = s]
  PROVE  /\ file' \in [Uploads -> [Objects -> FileStates]]
         /\ file'[u][n] = s /\ \A m \in Objects \ {n} : file'[u][m] = file[u][m]
         /\ \A v \in Uploads \ {u} : file'[v] = file[v]
  BY DEF TypeOK, FileStates

\* The row of u becomes q.
LEMMA RowIs ==
  ASSUME TypeOK, NEW u \in Uploads, NEW q \in {None} \cup Rows, row' = [row EXCEPT ![u] = q]
  PROVE  /\ row' \in [Uploads -> {None} \cup Rows] /\ row'[u] = q
         /\ \A v \in Uploads \ {u} : row'[v] = row[v]
  BY DEF TypeOK

\* A write of persist that succeeds, or is lost.
LEMMA WriteIs ==
  ASSUME TypeOK, Written \/ Lost
  PROVE  /\ closed' \in BOOLEAN /\ faults' \in 0 .. MaxFaults /\ (closed => closed')
         /\ Lost => closed'
  <1>1. closed \in BOOLEAN /\ faults \in 0 .. MaxFaults /\ MaxFaults \in Nat
    BY TransfersAssumption DEF TypeOK
  <1>2. CASE Written
    BY <1>1, <1>2 DEF Written, Lost
  <1>3. CASE Lost
    <2>1. closed' = TRUE /\ faults < MaxFaults /\ faults' = faults + 1
      BY <1>3 DEF Lost, Fault
    <2>2. faults' \in 0 .. MaxFaults
      BY ONLY <1>1, <2>1
    <2>3. QED BY <2>1, <2>2
  <1>4. QED BY <1>2, <1>3

\* persist: a row of S has its new state, or its write is lost and the service
\* closed.
LEMMA PersistIs ==
  ASSUME TypeOK, NEW S \in SUBSET Uploads, NEW s \in States, \A u \in S : Exists(u), Persist(S, s)
  PROVE  /\ closed' \in BOOLEAN /\ faults' \in 0 .. MaxFaults /\ (closed => closed')
         /\ row' \in [Uploads -> {None} \cup Rows]
         /\ \A u \in Uploads \ S : row'[u] = row[u]
         /\ \A u \in S : /\ row[u] \in Rows
                         /\ \/ row'[u] = row[u] /\ closed'
                            \/ row'[u] = [row[u] EXCEPT !.state = s]
  <1>1. PICK lost \in SUBSET S :
          /\ row' = [u \in Uploads |-> IF u \in S \ lost THEN [row[u] EXCEPT !.state = s] ELSE row[u]]
          /\ IF lost = {} THEN Written ELSE Lost
    BY DEF Persist
  <1>2. closed' \in BOOLEAN /\ faults' \in 0 .. MaxFaults /\ (closed => closed') /\ (lost # {} => closed')
    BY <1>1, WriteIs
  <1>3. \A u \in S : row[u] \in Rows
    BY DEF TypeOK, Exists
  <1>4. ASSUME NEW u \in Uploads
        PROVE  /\ row'[u] \in {None} \cup Rows
               /\ u \in S \ lost => row'[u] = [row[u] EXCEPT !.state = s]
               /\ u \notin S \ lost => row'[u] = row[u]
    <2>1. CASE u \in S \ lost
      <3>1. row'[u] = [row[u] EXCEPT !.state = s]
        BY <1>1, <2>1
      <3>2. [row[u] EXCEPT !.state = s] \in Rows
        BY <1>3, <2>1, RowState
      <3>3. QED BY <2>1, <3>1, <3>2
    <2>2. CASE u \notin S \ lost
      BY <1>1, <2>2 DEF TypeOK
    <2>3. QED BY <2>1, <2>2
  <1>5. row' = [u \in Uploads |-> row'[u]]
    BY <1>1
  <1>6. row' \in [Uploads -> {None} \cup Rows]
    BY <1>4, <1>5
  <1>7. QED BY <1>2, <1>3, <1>4, <1>6

-----------------------------------------------------------------------------
(* Uploading.                                                              *)

\* createTransfer: a new upload is empty and unbound.
LEMMA CreateKeeps == ASSUME IInv, NEW u \in Uploads, Create(u) PROVE IInv'
  <1> DEFINE q == [state |-> "open", execution |-> None, manifest |-> None, objects |-> {}]
  <1>1. TypeOK /\ RowSound(u) /\ PutSound(u)
    BY SoundIsIInv
  <1>2. q \in Rows /\ q.state = "open" /\ q.execution = None /\ q.objects = {}
    BY DEF Rows, States
  <1>3. /\ dir' = [dir EXCEPT ![u] = TRUE] /\ row' \in {row, [row EXCEPT ![u] = q]}
        /\ UNCHANGED <<up, stops, closed, faults, torn, file, reserved, put, removal, execution>> /\ row[u] = None
    BY DEF Create, Exists
  <1> HIDE DEF q
  <1>4. /\ row' \in [Uploads -> {None} \cup Rows] /\ row'[u] \in {None, q}
        /\ \A v \in Uploads \ {u} : row'[v] = row[v]
    BY <1>1, <1>2, <1>3, RowIs DEF TypeOK
  <1>5. TypeOK'
    BY <1>1, <1>3, <1>4 DEF TypeOK
  <1>6. RowSound(u)' /\ PutSound(u)'
    BY <1>1, <1>2, <1>3, <1>4, NoneIsNoRow DEF TypeOK, RowSound, PutSound, Exists, Unbound
  <1>7. QED BY <1>1, <1>3, <1>4, <1>5, <1>6, OneUpload DEF TypeOK

\* A PUT of a manifest begins.
LEMMA PutManifestKeeps == ASSUME IInv, NEW u \in Uploads, NEW m \in Manifests, PutManifest(u, m) PROVE IInv'
  <1> DEFINE p == [NoPut EXCEPT !.at = "manifest", !.manifest = m]
  <1>1. TypeOK /\ RowSound(u) /\ PutSound(u)
    BY SoundIsIInv
  <1>2. p \in Puts /\ p.at = "manifest"
    BY DEF NoPut, Puts
  <1>3. /\ put' = [put EXCEPT ![u] = p] /\ reserved' = [reserved EXCEPT ![u] = Total(m)]
        /\ UNCHANGED <<up, stops, closed, faults, torn, row, dir, file, removal, execution>>
        /\ up /\ ~closed /\ Exists(u) /\ row[u].state = "open"
    BY DEF PutManifest, disk, UploadAllowed
  <1> HIDE DEF p
  <1>4. TypeOK'
    BY <1>1, <1>2, <1>3, Totals DEF TypeOK
  <1>5. put'[u] = p
    BY <1>1, <1>3 DEF TypeOK
  <1>6. RowSound(u)' /\ PutSound(u)'
    BY <1>1, <1>2, <1>3, <1>5 DEF RowSound, PutSound, Exists, Unbound, Verified, Complete
  <1>7. QED BY <1>1, <1>3, <1>4, <1>6, OneUpload DEF TypeOK

\* The manifest of an open upload is declared, or given up.
LEMMA DeclareUploadKeeps == ASSUME IInv, NEW u \in Uploads, DeclareUpload(u) PROVE IInv'
  <1> DEFINE q == [row[u] EXCEPT !.manifest = put[u].manifest]
  <1>1. TypeOK /\ RowSound(u) /\ PutSound(u)
    BY SoundIsIInv
  <1>2. row[u] \in Rows /\ put[u].manifest \in Manifests \cup {None}
    BY <1>1 DEF DeclareUpload, PutSound, Exists, TypeOK, Puts
  <1>3. /\ q \in Rows /\ q.state = row[u].state /\ q.execution = row[u].execution /\ q.objects = row[u].objects
    BY <1>2, RowManifest
  <1>4. /\ \/ row[u].state = "open" /\ row' = [row EXCEPT ![u] = q] /\ UNCHANGED reserved
           \/ row' = row /\ reserved' = [reserved EXCEPT ![u] = 0]
        /\ EndPut(u) /\ UNCHANGED <<up, stops, closed, faults, torn, file, removal, execution>>
        /\ dir' = [dir EXCEPT ![u] = TRUE]
    BY DEF DeclareUpload, UploadAllowed
  <1> HIDE DEF q
  <1>5. /\ row' \in [Uploads -> {None} \cup Rows] /\ (row'[u] = row[u] \/ (row[u].state = "open" /\ row'[u] = q))
        /\ \A v \in Uploads \ {u} : row'[v] = row[v]
    BY <1>1, <1>3, <1>4, RowIs DEF TypeOK
  <1>6. /\ put' \in [Uploads -> Puts] /\ put'[u].at = "none"
        /\ \A v \in Uploads \ {u} : put'[v] = put[v]
    BY <1>1, <1>4, EndPutIs
  <1>7. TypeOK'
    <2>1. dir' \in [Uploads -> BOOLEAN] /\ reserved' \in [Uploads -> Nat]
      BY <1>1, <1>4 DEF TypeOK
    <2>2. QED BY <1>1, <1>4, <1>5, <1>6, <2>1 DEF TypeOK
  <1>8. dir'[u] /\ \A v \in Uploads \ {u} : dir'[v] = dir[v]
    BY <1>1, <1>4 DEF TypeOK
  <1>9. RowSound(u)'
    BY <1>1, <1>2, <1>3, <1>4, <1>5, <1>8, NoneIsNoRow DEF RowSound, Exists, Unbound, Verified, Complete
  <1>10. PutSound(u)'
    BY <1>1, <1>2, <1>3, <1>4, <1>5, <1>6, NoneIsNoRow DEF PutSound, Exists
  <1>11. QED BY <1>4, <1>5, <1>6, <1>7, <1>8, <1>9, <1>10, OneUpload

\* A PUT of an object begins; a published one is only compared.
LEMMA PutObjectKeeps == ASSUME IInv, NEW u \in Uploads, NEW n \in Objects, PutObject(u, n) PROVE IInv'
  <1> DEFINE p == [NoPut EXCEPT !.object = n, !.at = IF n \in row[u].objects THEN "same" ELSE "stage"]
  <1>1. TypeOK /\ RowSound(u) /\ PutSound(u)
    BY SoundIsIInv
  <1>2. p \in Puts /\ p.object = n /\ p.at = IF n \in row[u].objects THEN "same" ELSE "stage"
    BY DEF NoPut, Puts
  <1>3. /\ put' = [put EXCEPT ![u] = p]
        /\ UNCHANGED <<up, stops, closed, faults, torn, row, dir, file, reserved, removal, execution>>
        /\ up /\ ~closed /\ Exists(u) /\ row[u].state \in {"open", "ready"}
    BY DEF PutObject, disk, UploadAllowed
  <1> HIDE DEF p
  <1>4. TypeOK'
    BY <1>1, <1>2, <1>3 DEF TypeOK
  <1>5. put'[u] = p
    BY <1>1, <1>3 DEF TypeOK
  <1>6. RowSound(u)' /\ PutSound(u)'
    BY <1>1, <1>2, <1>3, <1>5 DEF RowSound, PutSound, Exists, Unbound, Verified, Complete
  <1>7. QED BY <1>1, <1>3, <1>4, <1>6, OneUpload DEF TypeOK

\* A published object is compared.
LEMMA SameObjectKeeps == ASSUME IInv, NEW u \in Uploads, SameObject(u) PROVE IInv'
  <1>1. TypeOK /\ RowSound(u) /\ PutSound(u)
    BY SoundIsIInv
  <1>2. /\ put[u].at = "same" /\ (EndPut(u) \/ PutAt(u, "verify"))
        /\ UNCHANGED <<up, stops, closed, faults, torn, row, dir, file, reserved, removal, execution>>
    BY DEF SameObject, disk
  <1>3. /\ put' \in [Uploads -> Puts] /\ put'[u].at \in {"none", "verify"}
        /\ \A v \in Uploads \ {u} : put'[v] = put[v]
    BY <1>1, <1>2, EndPutIs, PutAtIs
  <1>4. TypeOK'
    BY <1>1, <1>2, <1>3 DEF TypeOK
  <1>5. RowSound(u)' /\ PutSound(u)'
    BY <1>1, <1>2, <1>3 DEF RowSound, PutSound, Exists, Unbound, Verified, Complete
  <1>6. QED BY <1>2, <1>3, <1>4, <1>5, OneUpload

\* A PUT under way that changes its own file, which the index does not name.
LEMMA WritingKeeps ==
  ASSUME IInv, NEW u \in Uploads, put[u].at \in {"stage", "staged", "publish"}, NEW s \in FileStates,
         file' = [file EXCEPT ![u][put[u].object] = s], dir' = dir \/ dir' = [dir EXCEPT ![u] = TRUE],
         UNCHANGED <<up, stops, closed, faults, torn, row, reserved, removal, execution>>,
         EndPut(u) \/ PutAt(u, "staged") \/ (PutAt(u, "publish") /\ s = "synced")
  PROVE  IInv'
  <1>1. TypeOK /\ RowSound(u) /\ PutSound(u)
    BY SoundIsIInv
  <1>2. put[u].object \in Objects /\ put[u].object \notin row[u].objects
    BY <1>1 DEF PutSound
  <1>3. /\ file' \in [Uploads -> [Objects -> FileStates]]
        /\ file'[u][put[u].object] = s /\ \A m \in Objects \ {put[u].object} : file'[u][m] = file[u][m]
        /\ \A v \in Uploads \ {u} : file'[v] = file[v]
    BY <1>1, <1>2, FileIs
  <1>4. /\ put' \in [Uploads -> Puts]
        /\ \/ put'[u].at = "none"
           \/ put'[u].at = "staged" /\ put'[u].object = put[u].object
           \/ put'[u].at = "publish" /\ put'[u].object = put[u].object /\ s = "synced"
        /\ \A v \in Uploads \ {u} : put'[v] = put[v]
    BY <1>1, EndPutIs, PutAtIs
  <1>5. TypeOK' /\ (dir[u] => dir'[u]) /\ \A v \in Uploads \ {u} : dir'[v] = dir[v]
    BY <1>1, <1>3, <1>4 DEF TypeOK, FileStates
  <1>6. RowSound(u)'
    <2>1. Exists(u) => row[u] \in Rows /\ row[u].objects \subseteq Objects
      BY <1>1 DEF Exists, TypeOK, Rows
    <2>2. QED BY <1>1, <1>2, <1>3, <1>5, <2>1 DEF RowSound, Exists, Unbound, Verified, Complete
  <1>7. PutSound(u)'
    BY <1>1, <1>2, <1>3, <1>4 DEF PutSound, Exists
  <1>8. QED BY <1>3, <1>4, <1>5, <1>6, <1>7, OneUpload

\* A file is written, ...
LEMMA StageObjectKeeps == ASSUME IInv, NEW u \in Uploads, StageObject(u) PROVE IInv'
  BY WritingKeeps DEF StageObject, FileStates

\* ... synced under its name, ...
LEMMA SyncObjectKeeps == ASSUME IInv, NEW u \in Uploads, SyncObject(u) PROVE IInv'
  BY WritingKeeps DEF SyncObject, FileStates

\* ... or removed: never one the index names.
LEMMA FailObjectKeeps == ASSUME IInv, NEW u \in Uploads, FailObject(u) PROVE IInv'
  BY WritingKeeps DEF FailObject, FileStates

\* The index commit names a file that is synced.
LEMMA PublishObjectKeeps == ASSUME IInv, NEW u \in Uploads, PublishObject(u) PROVE IInv'
  <1> DEFINE q == [row[u] EXCEPT !.objects = @ \cup {put[u].object}]
  <1>1. TypeOK /\ RowSound(u) /\ PutSound(u)
    BY SoundIsIInv
  <1>2. /\ put[u].at = "publish" /\ up /\ row[u] \in Rows /\ put[u].object \in Objects
        /\ Exists(u) /\ removal[u] \notin {"files", "row"} /\ file[u][put[u].object] = "synced"
    BY <1>1 DEF PublishObject, PutSound, Exists, TypeOK
  <1>3. /\ q \in Rows /\ q.state = row[u].state /\ q.execution = row[u].execution
        /\ q.objects = row[u].objects \cup {put[u].object}
    BY <1>2, RowObjects
  <1>4. /\ \/ /\ row[u].state = "open" /\ row' = [row EXCEPT ![u] = q]
              /\ PutAt(u, "verify") /\ file' = file /\ (Written \/ Lost)
           \/ /\ file' = [file EXCEPT ![u][put[u].object] = "none"] /\ EndPut(u) /\ row' = row
              /\ closed' = closed /\ faults' = faults
        /\ UNCHANGED <<up, stops, torn, dir, reserved, removal, execution>>
    BY DEF PublishObject, UploadAllowed, Written
  <1> HIDE DEF q
  <1>5. CASE /\ row[u].state = "open" /\ row' = [row EXCEPT ![u] = q]
             /\ PutAt(u, "verify") /\ file' = file /\ (Written \/ Lost)
    <2>1. /\ row' \in [Uploads -> {None} \cup Rows] /\ row'[u] = q
          /\ \A v \in Uploads \ {u} : row'[v] = row[v]
      BY <1>1, <1>3, <1>5, RowIs
    <2>2. /\ put' \in [Uploads -> Puts] /\ put'[u].at = "verify"
          /\ \A v \in Uploads \ {u} : put'[v] = put[v]
      BY <1>1, <1>5, PutAtIs
    <2>3. closed' \in BOOLEAN /\ faults' \in 0 .. MaxFaults /\ (closed => closed')
      BY <1>1, <1>5, WriteIs
    <2>4. TypeOK'
      BY <1>1, <1>4, <1>5, <2>1, <2>2, <2>3 DEF TypeOK
    <2>5. RowSound(u)'
      BY <1>1, <1>2, <1>3, <1>4, <1>5, <2>1 DEF RowSound, Exists, Unbound
    <2>6. PutSound(u)'
      BY <1>1, <1>2, <1>3, <1>4, <2>1, <2>2, <2>3, NoneIsNoRow DEF PutSound, Exists
    <2>7. QED BY <1>4, <1>5, <2>1, <2>2, <2>3, <2>4, <2>5, <2>6, OneUpload
  <1>6. CASE /\ file' = [file EXCEPT ![u][put[u].object] = "none"] /\ EndPut(u) /\ row' = row
             /\ closed' = closed /\ faults' = faults
    BY <1>2, <1>4, <1>6, WritingKeeps DEF FileStates
  <1>7. QED BY <1>4, <1>5, <1>6

\* completeUpload decides on what is published.
LEMMA VerifyUploadKeeps == ASSUME IInv, NEW u \in Uploads, VerifyUpload(u) PROVE IInv'
  <1> DEFINE q == [row[u] EXCEPT !.state = "ready"]
  <1>1. TypeOK /\ RowSound(u) /\ PutSound(u)
    BY SoundIsIInv
  <1>2. up /\ row[u] \in Rows /\ Exists(u)
    BY <1>1 DEF VerifyUpload, PutSound, Exists, TypeOK
  <1>3. /\ q \in Rows /\ q.state = "ready" /\ q.execution = row[u].execution /\ q.manifest = row[u].manifest
        /\ q.objects = row[u].objects
    BY <1>2, RowState DEF States
  <1>4. /\ (row' = row \/ (row[u].state = "open" /\ Verified(u) /\ row' = [row EXCEPT ![u] = q]))
        /\ EndPut(u) /\ UNCHANGED <<up, stops, closed, torn, dir, file, reserved, removal, execution>>
        /\ faults' \in {faults, faults + 1} /\ (faults' # faults => faults < MaxFaults)
    BY DEF VerifyUpload, UploadAllowed, Fault
  <1> HIDE DEF q
  <1>5. /\ row' \in [Uploads -> {None} \cup Rows]
        /\ (row'[u] = row[u] \/ (row[u].state = "open" /\ Verified(u) /\ row'[u] = q))
        /\ \A v \in Uploads \ {u} : row'[v] = row[v]
    BY <1>1, <1>3, <1>4, RowIs DEF TypeOK
  <1>6. /\ put' \in [Uploads -> Puts] /\ put'[u].at = "none"
        /\ \A v \in Uploads \ {u} : put'[v] = put[v]
    BY <1>1, <1>4, EndPutIs
  <1>7. TypeOK'
    BY <1>1, <1>4, <1>5, <1>6, TransfersAssumption DEF TypeOK
  <1>8. RowSound(u)'
    BY <1>1, <1>2, <1>3, <1>4, <1>5 DEF RowSound, Exists, Unbound, Verified, Complete
  <1>9. PutSound(u)'
    BY <1>1, <1>2, <1>3, <1>4, <1>5, <1>6, NoneIsNoRow DEF PutSound, Exists
  <1>10. QED BY <1>4, <1>5, <1>6, <1>7, <1>8, <1>9, OneUpload

-----------------------------------------------------------------------------
(* Executions.                                                             *)

\* A step of an execution that changes rows, but neither files nor removals:
\* a row keeps its index and its owner once it has one, is never marked as
\* deleted, and is verified when it is no longer open.
LEMMA ExecutionStep ==
  ASSUME IInv, up, UNCHANGED <<up, stops, torn, dir, file, reserved, removal>>,
         closed' \in BOOLEAN, faults' \in 0 .. MaxFaults, closed => closed',
         row' \in [Uploads -> {None} \cup Rows], execution' \in [Executions -> Stages], put' \in [Uploads -> Puts],
         \A u \in Uploads : put'[u].at = put[u].at /\ put'[u].object = put[u].object,
         \A u \in Uploads : ~Exists(u) => row'[u] = row[u],
         \A u \in Uploads : Exists(u) =>
           /\ row'[u] \in Rows /\ row'[u].manifest = row[u].manifest /\ row'[u].objects = row[u].objects
           /\ \/ row'[u].state = row[u].state /\ (row[u].state \in {"open", "deleting"} => row'[u].execution = row[u].execution)
              \/ row[u].state \notin {"open", "deleting"} /\ row'[u].state \in {"settling", "retained"},
         \A e \in Executions : execution[e] = "complete" => execution'[e] = "complete"
  PROVE  IInv'
  <1>1. TypeOK'
    BY SoundIsIInv DEF TypeOK, Stages
  <1>2. ASSUME NEW u \in Uploads PROVE RowSound(u)' /\ PutSound(u)'
    <2>1. RowSound(u) /\ PutSound(u)
      BY SoundIsIInv
    <2>2. CASE ~Exists(u)
      BY <2>1, <2>2 DEF RowSound, PutSound, Exists
    <2>3. CASE Exists(u)
      <3>1. /\ row'[u] \in Rows /\ row'[u].manifest = row[u].manifest /\ row'[u].objects = row[u].objects
            /\ \/ row'[u].state = row[u].state /\ (row[u].state \in {"open", "deleting"} => row'[u].execution = row[u].execution)
               \/ row[u].state \notin {"open", "deleting"} /\ row'[u].state \in {"settling", "retained"}
        BY <2>3
      <3>2. row'[u].execution \in Labs /\ row'[u].state = "deleting" => execution'[row'[u].execution] = "complete"
        BY <2>1, <2>3, <3>1 DEF RowSound, Executions
      <3>3. RowSound(u)'
        BY <2>1, <2>3, <3>1, <3>2 DEF RowSound, Exists, Unbound, Verified, Complete
      <3>4. PutSound(u)'
        BY <2>1, <2>3, <3>1, NoneIsNoRow DEF PutSound, Exists
      <3>5. QED BY <3>3, <3>4
    <2>4. QED BY <2>2, <2>3
  <1>3. QED BY <1>1, <1>2, SoundIsIInv

\* Ready inputs are bound to a new execution.
LEMMA AdmitKeeps == ASSUME IInv, NEW e \in Executions, NEW S \in SUBSET Uploads, Admit(e, S) PROVE IInv'
  <1>1. TypeOK /\ up /\ execution[e] = "none"
    BY SoundIsIInv DEF Admit
  <1>2. \A u \in S : /\ Exists(u) /\ row[u].state = "ready" /\ Unbound(u)
                     /\ row'[u] = [row[u] EXCEPT !.execution = e]
    BY DEF Admit
  <1>3. \A u \in Uploads \ S : row'[u] = row[u]
    BY DEF Admit
  <1>4. \A u \in S : /\ row'[u] \in Rows /\ row'[u].state = row[u].state /\ row'[u].manifest = row[u].manifest
                     /\ row'[u].objects = row[u].objects
    <2> SUFFICES ASSUME NEW u \in S
                 PROVE  /\ row'[u] \in Rows /\ row'[u].state = row[u].state /\ row'[u].manifest = row[u].manifest
                        /\ row'[u].objects = row[u].objects
      OBVIOUS
    <2>1. row[u] \in Rows /\ row'[u] = [row[u] EXCEPT !.execution = e]
      BY <1>1, <1>2 DEF TypeOK, Exists
    <2>2. QED BY <2>1 DEF Rows
  <1>5. /\ row' \in [Uploads -> {None} \cup Rows]
        /\ execution' \in [Executions -> Stages] /\ \A f \in Executions : execution[f] = "complete" => execution'[f] = "complete"
        /\ put' = put /\ UNCHANGED <<up, stops, closed, faults, torn, dir, file, reserved, removal>>
    <2>1. row' = [u \in Uploads |-> row'[u]] /\ \A u \in Uploads : row'[u] \in {None} \cup Rows
      BY <1>1, <1>3, <1>4 DEF Admit, TypeOK
    <2>2. QED BY <1>1, <2>1 DEF Admit, TypeOK, Stages
  <1>6. QED BY <1>1, <1>2, <1>3, <1>4, <1>5, ExecutionStep DEF TypeOK, Exists

\* A ready input is bound to a running lab.
LEMMA PutGuestKeeps == ASSUME IInv, NEW e \in Executions, NEW u \in Uploads, PutGuest(e, u) PROVE IInv'
  <1> DEFINE q == [row[u] EXCEPT !.execution = e]
  <1>1. TypeOK /\ up /\ Exists(u) /\ row[u].state = "ready" /\ Unbound(u)
    BY SoundIsIInv DEF PutGuest
  <1>2. row[u] \in Rows
    BY <1>1 DEF TypeOK, Exists
  <1>3. q \in Rows /\ q.state = row[u].state /\ q.manifest = row[u].manifest /\ q.objects = row[u].objects
    BY <1>2, RowExecution
  <1>4. row' = [row EXCEPT ![u] = q] /\ UNCHANGED <<up, stops, closed, faults, torn, dir, file, reserved, put, removal, execution>>
    BY DEF PutGuest
  <1> HIDE DEF q
  <1>5. /\ row' \in [Uploads -> {None} \cup Rows] /\ row'[u] = q
        /\ \A v \in Uploads \ {u} : row'[v] = row[v]
    BY <1>1, <1>3, <1>4, RowIs
  <1>6. /\ execution \in [Executions -> Stages] /\ put \in [Uploads -> Puts] /\ row \in [Uploads -> {None} \cup Rows]
        /\ closed \in BOOLEAN /\ faults \in 0 .. MaxFaults
    BY <1>1 DEF TypeOK, Stages
  <1>7. QED BY <1>1, <1>3, <1>4, <1>5, <1>6, ExecutionStep DEF Exists

\* An execution ends.
LEMMA EndExecutionKeeps == ASSUME IInv, NEW e \in Executions, EndExecution(e) PROVE IInv'
  <1>1. TypeOK
    BY SoundIsIInv
  <1>2. /\ execution' \in [Executions -> Stages] /\ \A f \in Executions : execution[f] = "complete" => execution'[f] = "complete"
        /\ UNCHANGED <<up, stops, closed, faults, torn, row, dir, file, reserved, put, removal>> /\ up
    BY <1>1 DEF EndExecution, disk, TypeOK, Stages
  <1>3. /\ row \in [Uploads -> {None} \cup Rows] /\ put \in [Uploads -> Puts]
        /\ closed \in BOOLEAN /\ faults \in 0 .. MaxFaults
    BY <1>1 DEF TypeOK
  <1>4. QED BY <1>2, <1>3, ExecutionStep DEF Exists

\* The inputs of a lab take no more writes.
LEMMA RetainTransfersKeeps == ASSUME IInv, NEW e \in Executions, RetainTransfers(e) PROVE IInv'
  <1> DEFINE S == {u \in Bound(e) : row[u].state \in {"open", "ready"} /\ ~Deleting(u)}
  <1>1. TypeOK /\ \A u \in Uploads : RowSound(u)
    BY SoundIsIInv
  <1>2. /\ execution' \in [Executions -> Stages] /\ \A f \in Executions : execution[f] = "complete" => execution'[f] = "complete"
        /\ UNCHANGED <<up, stops, torn, dir, file, reserved, removal>> /\ up
    BY <1>1 DEF RetainTransfers, TypeOK, Stages
  <1>3. put' \in [Uploads -> Puts] /\ \A u \in Uploads : put'[u].at = put[u].at /\ put'[u].object = put[u].object
    BY <1>1, CancelledIs DEF RetainTransfers
  <1>4. S \in SUBSET Uploads /\ "settling" \in States /\ \A u \in S : Exists(u) /\ row[u].execution = e /\ row[u].state \in {"open", "ready"}
    BY DEF Bound, States
  <1>5. Persist(S, "settling")
    BY DEF RetainTransfers
  <1> HIDE DEF S
  <1>6. /\ closed' \in BOOLEAN /\ faults' \in 0 .. MaxFaults /\ (closed => closed')
        /\ row' \in [Uploads -> {None} \cup Rows] /\ \A u \in Uploads \ S : row'[u] = row[u]
        /\ \A u \in S : row[u] \in Rows /\ (row'[u] = row[u] \/ row'[u] = [row[u] EXCEPT !.state = "settling"])
    BY <1>1, <1>4, <1>5, PersistIs
  <1>7. ASSUME NEW u \in Uploads
        PROVE  \/ row'[u] = row[u]
               \/ /\ Exists(u) /\ row[u].state = "ready" /\ row'[u] \in Rows /\ row'[u].state = "settling"
                  /\ row'[u].manifest = row[u].manifest /\ row'[u].objects = row[u].objects
    <2>1. CASE row'[u] = row[u]
      BY <2>1
    <2>2. CASE u \in S /\ row'[u] = [row[u] EXCEPT !.state = "settling"]
      <3>1. Exists(u) /\ row[u].execution = e /\ row[u] \in Rows /\ row[u].state \in {"open", "ready"}
        BY <1>4, <1>6, <2>2
      <3>2. row[u].state = "ready"
        BY <1>1, <3>1, NoneIsNoRow DEF RowSound, Unbound
      <3>3. /\ row'[u] \in Rows /\ row'[u].state = "settling"
            /\ row'[u].manifest = row[u].manifest /\ row'[u].objects = row[u].objects
        BY ONLY <2>2, <3>1 DEF Rows, States
      <3>4. QED BY <3>1, <3>2, <3>3
    <2>3. QED BY <1>6, <2>1, <2>2
  <1>8. row \in [Uploads -> {None} \cup Rows]
    BY <1>1 DEF TypeOK
  <1>9. QED BY <1>2, <1>3, <1>6, <1>7, <1>8, ExecutionStep DEF Exists

\* The inputs of a complete execution are retained.
LEMMA CompleteTransfersKeeps == ASSUME IInv, NEW e \in Executions, CompleteTransfers(e) PROVE IInv'
  <1> DEFINE S == {u \in Bound(e) : ~Deleting(u)}
  <1>1. TypeOK /\ \A u \in Uploads : RowSound(u)
    BY SoundIsIInv
  <1>2. /\ execution' \in [Executions -> Stages] /\ \A f \in Executions : execution[f] = "complete" => execution'[f] = "complete"
        /\ UNCHANGED <<up, stops, torn, dir, file, reserved, put, removal>> /\ up
    BY <1>1 DEF CompleteTransfers, TypeOK, Stages
  <1>3. put \in [Uploads -> Puts] /\ row \in [Uploads -> {None} \cup Rows]
    BY <1>1 DEF TypeOK
  <1>4. S \in SUBSET Uploads /\ "retained" \in States /\ \A u \in S : Exists(u) /\ row[u].execution = e /\ row[u].state # "deleting"
    BY DEF Bound, States, Deleting
  <1>5. Persist(S, "retained")
    BY DEF CompleteTransfers
  <1> HIDE DEF S
  <1>6. /\ closed' \in BOOLEAN /\ faults' \in 0 .. MaxFaults /\ (closed => closed')
        /\ row' \in [Uploads -> {None} \cup Rows] /\ \A u \in Uploads \ S : row'[u] = row[u]
        /\ \A u \in S : row[u] \in Rows /\ (row'[u] = row[u] \/ row'[u] = [row[u] EXCEPT !.state = "retained"])
    BY <1>1, <1>4, <1>5, PersistIs
  <1>7. ASSUME NEW u \in Uploads
        PROVE  \/ row'[u] = row[u]
               \/ /\ Exists(u) /\ row[u].state \notin {"open", "deleting"} /\ row'[u] \in Rows /\ row'[u].state = "retained"
                  /\ row'[u].manifest = row[u].manifest /\ row'[u].objects = row[u].objects
    <2>1. CASE row'[u] = row[u]
      BY <2>1
    <2>2. CASE u \in S /\ row'[u] = [row[u] EXCEPT !.state = "retained"]
      <3>1. Exists(u) /\ row[u].execution = e /\ row[u] \in Rows /\ row[u].state # "deleting"
        BY <1>4, <1>6, <2>2
      <3>2. row[u].state # "open"
        BY <1>1, <3>1, NoneIsNoRow DEF RowSound, Unbound
      <3>3. /\ row'[u] \in Rows /\ row'[u].state = "retained"
            /\ row'[u].manifest = row[u].manifest /\ row'[u].objects = row[u].objects
        BY ONLY <2>2, <3>1 DEF Rows, States
      <3>4. QED BY <3>1, <3>2, <3>3
    <2>3. QED BY <1>6, <2>1, <2>2
  <1>8. QED BY <1>2, <1>3, <1>6, <1>7, ExecutionStep DEF Exists

-----------------------------------------------------------------------------
(* Removal.                                                                *)

\* persist of one mark: it is written, or lost and the service closed.
LEMMA MarkIs ==
  ASSUME TypeOK, NEW u \in Uploads, Exists(u), Persist({u}, "deleting")
  PROVE  /\ closed' \in BOOLEAN /\ faults' \in 0 .. MaxFaults /\ (closed => closed')
         /\ row' \in [Uploads -> {None} \cup Rows] /\ \A v \in Uploads \ {u} : row'[v] = row[v]
         /\ row[u] \in Rows
         /\ (row'[u] = row[u] /\ closed') \/ row'[u] = [row[u] EXCEPT !.state = "deleting"]
  <1>1. {u} \in SUBSET Uploads /\ "deleting" \in States /\ \A v \in {u} : Exists(v)
    BY DEF States
  <1>2. QED BY <1>1, PersistIs

\* An upload is marked as deleted, and its PUT cancelled, unless a lab needs it.
\* One whose mark is lost and whose files go all the same is torn.
LEMMA MarkKeeps ==
  ASSUME IInv, NEW u \in Uploads, up, Exists(u), Persist({u}, "deleting"),
         row[u].execution \in Labs => execution[row[u].execution] = "complete",
         put' = put \/ put' = Cancelled({u}), NEW s \in {"settle", "files"}, s = "files" => put[u].at = "none",
         torn' = torn \/ (s = "files" /\ torn' = torn \cup {u}),
         s = "files" /\ row'[u].state # "deleting" => u \in torn',
         removal' = [removal EXCEPT ![u] = s],
         UNCHANGED <<up, stops, dir, file, reserved, execution>>
  PROVE  IInv'
  <1>1. TypeOK /\ RowSound(u) /\ PutSound(u)
    BY SoundIsIInv
  <1>2. /\ closed' \in BOOLEAN /\ faults' \in 0 .. MaxFaults /\ (closed => closed')
        /\ row' \in [Uploads -> {None} \cup Rows] /\ \A v \in Uploads \ {u} : row'[v] = row[v]
        /\ row[u] \in Rows
        /\ (row'[u] = row[u] /\ closed') \/ row'[u] = [row[u] EXCEPT !.state = "deleting"]
    BY <1>1, MarkIs
  <1>3. /\ row'[u] \in Rows /\ row'[u].execution = row[u].execution /\ row'[u].objects = row[u].objects
        /\ (row'[u] = row[u] /\ closed') \/ row'[u].state = "deleting"
    BY ONLY <1>2 DEF Rows, States
  <1>4. /\ put' \in [Uploads -> Puts] /\ put'[u].at = put[u].at /\ put'[u].object = put[u].object
        /\ \A v \in Uploads \ {u} : put'[v] = put[v]
    BY <1>1, CancelledIs DEF TypeOK
  <1>5. /\ removal' \in [Uploads -> Removals] /\ removal'[u] = s
        /\ \A v \in Uploads \ {u} : removal'[v] = removal[v]
    BY <1>1 DEF TypeOK, Removals
  <1>6. torn' \in SUBSET Uploads /\ (u \in torn => u \in torn') /\ \A v \in Uploads \ {u} : v \in torn' <=> v \in torn
    BY <1>1 DEF TypeOK
  <1>7. TypeOK'
    BY <1>1, <1>2, <1>4, <1>5, <1>6 DEF TypeOK, Removals
  <1>8. RowSound(u)'
    BY <1>1, <1>3, <1>6 DEF RowSound, Exists, Unbound, Verified, Complete
  <1>9. PutSound(u)'
    BY <1>1, <1>3, <1>4, <1>5, NoneIsNoRow DEF PutSound, Exists
  <1>10. QED BY <1>2, <1>4, <1>5, <1>6, <1>7, <1>8, <1>9, OneUpload

\* upload_delete marks an unbound upload.
LEMMA DeleteUploadKeeps == ASSUME IInv, NEW u \in Uploads, DeleteUpload(u) PROVE IInv'
  <1>1. row[u].execution \notin Labs
    BY NoneIsNoRow DEF DeleteUpload, Unbound, Executions
  <1>2. QED BY <1>1, MarkKeeps DEF DeleteUpload

\* removeTransfer marks one that nobody writes or needs.
LEMMA RemoveTransferKeeps ==
  ASSUME IInv, NEW u \in Uploads, Expire(u) \/ Imported(u) \/ PurgeInput(u)
  PROVE  IInv'
  <1>1. row[u].execution \in Labs => execution[row[u].execution] = "complete"
    BY NoneIsNoRow, TransfersAssumption DEF Expire, Imported, PurgeInput, Unbound, Executions
  <1>2. Exists(u) /\ RemoveTransfer(u)
    BY DEF Expire, Imported, PurgeInput
  <1>3. QED BY <1>1, <1>2, MarkKeeps DEF RemoveTransfer

\* A deletion has waited for its PUT.
LEMMA DeleteSettledKeeps == ASSUME IInv, NEW u \in Uploads, DeleteSettled(u) PROVE IInv'
  <1>1. TypeOK /\ RowSound(u) /\ PutSound(u)
    BY SoundIsIInv
  <1>2. /\ removal[u] = "settle" /\ ~closed /\ put[u].at = "none" /\ removal' = [removal EXCEPT ![u] = "files"]
        /\ UNCHANGED <<up, stops, closed, faults, torn, row, dir, file, reserved, put, execution>>
    BY DEF DeleteSettled, disk
  <1>3. TypeOK' /\ removal'[u] = "files" /\ \A v \in Uploads \ {u} : removal'[v] = removal[v]
    BY <1>1, <1>2 DEF TypeOK
  <1>4. RowSound(u)' /\ PutSound(u)'
    BY <1>1, <1>2, <1>3 DEF RowSound, PutSound, Exists, Unbound, Verified, Complete
  <1>5. QED BY <1>2, <1>3, <1>4, OneUpload

\* The files of a marked upload are removed, ...
LEMMA RemoveFilesKeeps == ASSUME IInv, NEW u \in Uploads, RemoveFiles(u) PROVE IInv'
  <1>1. TypeOK /\ RowSound(u) /\ PutSound(u)
    BY SoundIsIInv
  <1>2. /\ removal[u] = "files" /\ removal' = [removal EXCEPT ![u] = "row"]
        /\ dir' = [dir EXCEPT ![u] = FALSE] /\ file' = [file EXCEPT ![u] = NoFiles]
        /\ UNCHANGED <<up, stops, closed, faults, torn, row, reserved, put, execution>>
    BY DEF RemoveFiles
  <1>3. NoFiles \in [Objects -> FileStates]
    BY DEF NoFiles, FileStates
  <1>4. /\ removal' \in [Uploads -> Removals] /\ dir' \in [Uploads -> BOOLEAN] /\ file' \in [Uploads -> [Objects -> FileStates]]
        /\ removal'[u] = "row"
        /\ \A v \in Uploads \ {u} : removal'[v] = removal[v] /\ dir'[v] = dir[v] /\ file'[v] = file[v]
    BY <1>1, <1>2, <1>3 DEF TypeOK, Removals, FileStates
  <1>5. TypeOK'
    BY <1>1, <1>2, <1>4 DEF TypeOK, Removals, FileStates
  <1>6. /\ (row[u].state = "deleting" \/ u \in torn) /\ Exists(u) /\ put[u].at = "none" /\ up
        /\ row[u].state = "deleting" \/ closed
    BY <1>1, <1>2 DEF PutSound
  <1>7. RowSound(u)' /\ PutSound(u)'
    BY <1>1, <1>2, <1>4, <1>6 DEF RowSound, PutSound, Exists, Unbound, Verified, Complete
  <1>8. QED BY <1>2, <1>4, <1>5, <1>7, OneUpload

\* ... and then its row.
LEMMA RemoveRowKeeps == ASSUME IInv, NEW u \in Uploads, RemoveRow(u) PROVE IInv'
  <1>1. TypeOK /\ RowSound(u) /\ PutSound(u)
    BY SoundIsIInv
  <1>2. /\ removal[u] = "row" /\ removal' = [removal EXCEPT ![u] = "none"]
        /\ row' = [row EXCEPT ![u] = None] /\ reserved' = [reserved EXCEPT ![u] = 0]
        /\ UNCHANGED <<up, stops, closed, faults, dir, file, put, execution>> /\ torn' = torn \ {u}
    BY DEF RemoveRow
  <1>3. /\ row' \in [Uploads -> {None} \cup Rows] /\ row'[u] = None
        /\ \A v \in Uploads \ {u} : row'[v] = row[v]
    BY <1>1, <1>2, RowIs
  <1>4. TypeOK' /\ removal'[u] = "none" /\ \A v \in Uploads \ {u} : removal'[v] = removal[v]
    BY <1>1, <1>2, <1>3 DEF TypeOK
  <1>5. put[u].at = "none"
    BY <1>1, <1>2 DEF PutSound
  <1>6. RowSound(u)' /\ PutSound(u)'
    BY <1>2, <1>3, <1>4, <1>5 DEF RowSound, PutSound, Exists
  <1>7. QED BY <1>2, <1>3, <1>4, <1>6, OneUpload

\* A removal is given up.
LEMMA RemovalFailsKeeps == ASSUME IInv, NEW u \in Uploads, RemovalFails(u) PROVE IInv'
  <1>1. TypeOK /\ RowSound(u) /\ PutSound(u)
    BY SoundIsIInv
  <1>2. /\ removal[u] \in {"files", "row"} /\ removal' = [removal EXCEPT ![u] = "failed"]
        /\ faults' \in 0 .. MaxFaults /\ UNCHANGED <<up, stops, closed, torn, row, dir, file, reserved, put, execution>>
    BY <1>1, TransfersAssumption DEF RemovalFails, Fault, disk, TypeOK
  <1>3. TypeOK' /\ removal'[u] = "failed" /\ \A v \in Uploads \ {u} : removal'[v] = removal[v]
    BY <1>1, <1>2 DEF TypeOK
  <1>4. RowSound(u)' /\ PutSound(u)'
    BY <1>1, <1>2, <1>3 DEF RowSound, PutSound, Exists, Unbound, Verified, Complete
  <1>5. QED BY <1>2, <1>3, <1>4, OneUpload

\* A directory without a row is removed.
LEMMA SweepDirectoryKeeps == ASSUME IInv, NEW u \in Uploads, SweepDirectory(u) PROVE IInv'
  <1>1. TypeOK /\ RowSound(u) /\ PutSound(u)
    BY SoundIsIInv
  <1>2. /\ ~Exists(u) /\ dir' = [dir EXCEPT ![u] = FALSE] /\ file' = [file EXCEPT ![u] = NoFiles]
        /\ UNCHANGED <<up, stops, closed, faults, torn, row, reserved, put, removal, execution>>
    BY DEF SweepDirectory
  <1>3. NoFiles \in [Objects -> FileStates]
    BY DEF NoFiles, FileStates
  <1>4. /\ dir' \in [Uploads -> BOOLEAN] /\ file' \in [Uploads -> [Objects -> FileStates]]
        /\ \A v \in Uploads \ {u} : dir'[v] = dir[v] /\ file'[v] = file[v]
    BY <1>1, <1>2, <1>3 DEF TypeOK, FileStates
  <1>5. TypeOK'
    BY <1>1, <1>2, <1>4 DEF TypeOK, FileStates
  <1>6. RowSound(u)' /\ PutSound(u)'
    BY <1>1, <1>2 DEF RowSound, PutSound, Exists
  <1>7. QED BY <1>2, <1>4, <1>5, <1>6, OneUpload

-----------------------------------------------------------------------------
(* Stopping and starting.                                                  *)

\* A stop ends PUTs and removals where they are.
LEMMA StopKeeps == ASSUME IInv, Stop PROVE IInv'
  <1>1. TypeOK /\ \A u \in Uploads : RowSound(u)
    BY SoundIsIInv
  <1>2. NoPut \in Puts /\ NoPut.at = "none"
    BY DEF NoPut, Puts
  <1>3. /\ put' \in [Uploads -> Puts] /\ removal' \in [Uploads -> Removals] /\ reserved' \in [Uploads -> Nat]
        /\ \A u \in Uploads : put'[u].at = "none" /\ removal'[u] = "none"
    BY <1>2 DEF Stop, Removals
  <1>4. execution' \in [Executions -> Stages] /\ \A e \in Executions : execution[e] = "complete" => execution'[e] = "complete"
    BY <1>1 DEF Stop, TypeOK, Stages
  <1>5. stops' \in 0 .. MaxStops /\ up' = FALSE /\ closed' = FALSE /\ UNCHANGED <<row, dir, file, faults, torn>>
    BY <1>1, TransfersAssumption DEF Stop, TypeOK, disk
  <1>6. TypeOK'
    BY <1>1, <1>3, <1>4, <1>5 DEF TypeOK, Removals, Stages
  <1>7. ASSUME NEW u \in Uploads PROVE RowSound(u)' /\ PutSound(u)'
    BY <1>1, <1>3, <1>4, <1>5 DEF RowSound, PutSound, Exists, Unbound, Verified, Complete, Executions
  <1>8. QED BY <1>6, <1>7, SoundIsIInv

\* New: what a stop left is verified or removed.
LEMMA StartKeeps == ASSUME IInv, Start PROVE IInv'
  <1>1. TypeOK /\ \A u \in Uploads : RowSound(u) /\ PutSound(u)
    BY SoundIsIInv
  <1>2. /\ ~up /\ up' = TRUE /\ UNCHANGED <<stops, closed, faults, put, removal, execution>>
        /\ torn' = {u \in torn : ~Leftover(u)}
    BY DEF Start
  <1>3. \A u \in Uploads : put[u].at = "none" /\ removal[u] = "none"
    BY <1>1, <1>2 DEF PutSound
  <1>4. ASSUME NEW u \in Uploads
        PROVE  /\ ~Exists(u) => row'[u] = None
               /\ Exists(u) /\ row[u].state = "deleting" => row'[u] = None
               /\ Exists(u) /\ row[u].state # "deleting" =>
                    \/ row'[u] = row[u]
                    \/ /\ row[u].state = "open" /\ Verified(u) /\ row'[u] \in Rows /\ row'[u].state = "ready"
                       /\ row'[u].execution = row[u].execution
                       /\ row'[u].manifest = row[u].manifest /\ row'[u].objects = row[u].objects
    <2>1. CASE Leftover(u)
      BY <2>1 DEF Start, Leftover
    <2>2. CASE ~Leftover(u) /\ ~(UploadAllowed(u) /\ Verified(u))
      BY <2>2 DEF Start, Leftover, Exists
    <2>3. CASE ~Leftover(u) /\ UploadAllowed(u) /\ Verified(u)
      <3>1. row'[u] = [row[u] EXCEPT !.state = "ready"]
        BY <2>3 DEF Start
      <3>2. row[u] \in Rows /\ row[u].state = "open" /\ Exists(u)
        BY <1>1, <2>3 DEF UploadAllowed, Exists, TypeOK
      <3>3. /\ row'[u] \in Rows /\ row'[u].state = "ready" /\ row'[u].execution = row[u].execution
            /\ row'[u].manifest = row[u].manifest /\ row'[u].objects = row[u].objects
        BY ONLY <3>1, <3>2 DEF Rows, States
      <3>4. QED BY <2>3, <3>2, <3>3
    <2>4. QED BY <2>1, <2>2, <2>3
  <1>5. ASSUME NEW u \in Uploads, Exists(u), row[u].state # "deleting"
        PROVE  /\ dir'[u] = dir[u] /\ \A n \in row[u].objects : file'[u][n] = file[u][n]
               /\ u \in torn' <=> u \in torn
    <2>1. ~Leftover(u) /\ row[u] \in Rows
      BY <1>1, <1>5 DEF Leftover, TypeOK, Exists
    <2>2. dir'[u] = dir[u]
      BY <1>1, <2>1 DEF Start, TypeOK
    <2>3. file'[u] = RecoverTransfer(u) /\ row[u].objects \subseteq Objects
      BY <1>5, <2>1 DEF Start, Rows
    <2>4. u \in torn' <=> u \in torn
      BY <1>2, <2>1
    <2>5. QED BY <2>2, <2>3, <2>4 DEF RecoverTransfer
  <1>6. TypeOK'
    <2>1. row' \in [Uploads -> {None} \cup Rows]
      <3>1. \A u \in Uploads : row'[u] \in {None} \cup Rows
        BY <1>1, <1>4 DEF TypeOK
      <3>2. row' = [u \in Uploads |-> row'[u]]
        BY DEF Start
      <3>3. QED BY <3>1, <3>2
    <2>2. dir' \in [Uploads -> BOOLEAN]
      BY DEF Start
    <2>3. file' \in [Uploads -> [Objects -> FileStates]]
      <3>1. ASSUME NEW u \in Uploads PROVE file'[u] \in [Objects -> FileStates]
        <4>1. file[u] \in [Objects -> FileStates]
          BY <1>1 DEF TypeOK, FileStates
        <4>2. NoFiles \in [Objects -> FileStates] /\ RecoverTransfer(u) \in [Objects -> FileStates]
          BY <4>1 DEF NoFiles, RecoverTransfer, FileStates
        <4>3. file'[u] \in {NoFiles, RecoverTransfer(u), file[u]}
          BY DEF Start
        <4>4. QED BY <4>1, <4>2, <4>3
      <3>2. file' = [u \in Uploads |-> file'[u]]
        BY DEF Start
      <3>3. QED BY <3>1, <3>2
    <2>4. reserved' \in [Uploads -> Nat]
      <3>1. ASSUME NEW u \in Uploads, Exists(u), row[u].manifest # None PROVE Total(row[u].manifest) \in Nat
        BY <1>1, <3>1, Totals DEF TypeOK, Rows, Exists
      <3>2. QED BY <3>1 DEF Start
    <2>5. QED BY <1>1, <1>2, <2>1, <2>2, <2>3, <2>4 DEF TypeOK, FileStates
  <1>7. ASSUME NEW u \in Uploads PROVE RowSound(u)' /\ PutSound(u)'
    <2>1. PutSound(u)'
      BY <1>2, <1>3 DEF PutSound
    <2>2. CASE ~(Exists(u) /\ row[u].state # "deleting")
      <3>1. row'[u] = None
        BY <1>4, <2>2
      <3>2. QED BY <2>1, <3>1 DEF RowSound, Exists
    <2>3. CASE Exists(u) /\ row[u].state # "deleting"
      <3>1. \/ row'[u] = row[u]
            \/ /\ row[u].state = "open" /\ Verified(u) /\ row'[u] \in Rows /\ row'[u].state = "ready"
               /\ row'[u].execution = row[u].execution
               /\ row'[u].manifest = row[u].manifest /\ row'[u].objects = row[u].objects
        BY <1>4, <2>3
      <3>2. /\ dir'[u] = dir[u] /\ \A n \in row[u].objects : file'[u][n] = file[u][n]
            /\ u \in torn' <=> u \in torn
        BY <1>5, <2>3
      <3>3. RowSound(u)
        BY <1>1
      <3>4. QED BY <1>2, <2>1, <2>3, <3>1, <3>2, <3>3 DEF RowSound, Exists, Unbound, Verified, Complete
    <2>4. QED BY <2>2, <2>3
  <1>8. QED BY <1>6, <1>7, SoundIsIInv

-----------------------------------------------------------------------------
(* The theorems.                                                           *)

\* There are no uploads in the beginning.
LEMMA InitHolds == Init => IInv
  <1> SUFFICES ASSUME Init PROVE IInv
    OBVIOUS
  <1>1. NoPut \in Puts /\ NoPut.at = "none" /\ NoFiles \in [Objects -> FileStates]
    BY DEF NoPut, Puts, NoFiles, FileStates
  <1>2. TypeOK
    <2>0. up \in BOOLEAN /\ closed \in BOOLEAN /\ torn \in SUBSET Uploads
      BY DEF Init
    <2>1. stops \in 0 .. MaxStops /\ faults \in 0 .. MaxFaults
      <3>1. stops = 0 /\ faults = 0 /\ MaxStops \in Nat /\ MaxFaults \in Nat
        BY TransfersAssumption DEF Init
      <3>2. QED BY <3>1
    <2>2. row \in [Uploads -> {None} \cup Rows] /\ dir \in [Uploads -> BOOLEAN] /\ reserved \in [Uploads -> Nat]
      BY DEF Init
    <2>3. file \in [Uploads -> [Objects -> FileStates]] /\ put \in [Uploads -> Puts]
      BY <1>1 DEF Init
    <2>4. removal \in [Uploads -> Removals] /\ execution \in [Executions -> Stages]
      BY DEF Init, Removals, Stages
    <2>5. QED BY <2>0, <2>1, <2>2, <2>3, <2>4 DEF TypeOK, FileStates, Removals, Stages
  <1>3. \A u \in Uploads : row[u] = None /\ put[u].at = "none" /\ removal[u] = "none"
    BY <1>1 DEF Init
  <1>4. QED BY <1>2, <1>3, SoundIsIInv DEF RowSound, PutSound, Exists

\* Every step keeps the invariant.
LEMMA StepKeeps == IInv /\ [Next]_vars => IInv'
  <1> SUFFICES ASSUME IInv, [Next]_vars PROVE IInv'
    OBVIOUS
  <1>1. CASE UNCHANGED vars
    <2>1. TypeOK'
      BY <1>1, SoundIsIInv DEF vars, TypeOK
    <2>2. QED BY <1>1, <2>1, Frame, SoundIsIInv DEF vars
  <1>2. ASSUME NEW u \in Uploads,
               \/ Create(u) \/ PutStep(u) \/ DeleteUpload(u) \/ RemovalStep(u)
               \/ Expire(u) \/ Imported(u) \/ PurgeInput(u) \/ SweepDirectory(u)
               \/ \E m \in Manifests : PutManifest(u, m)
               \/ \E n \in Objects : PutObject(u, n)
        PROVE  IInv'
    BY <1>2, CreateKeeps, DeclareUploadKeeps, SameObjectKeeps, StageObjectKeeps, SyncObjectKeeps, FailObjectKeeps,
       PublishObjectKeeps, VerifyUploadKeeps, DeleteUploadKeeps, DeleteSettledKeeps, RemoveFilesKeeps, RemoveRowKeeps,
       RemovalFailsKeeps, RemoveTransferKeeps, SweepDirectoryKeeps, PutManifestKeeps, PutObjectKeeps
    DEF PutStep, RemovalStep
  <1>3. ASSUME NEW e \in Executions,
               \/ EndExecution(e) \/ RetainTransfers(e) \/ CompleteTransfers(e)
                     \/ \E S \in SUBSET Uploads : Admit(e, S)
               \/ \E u \in Uploads : PutGuest(e, u)
        PROVE  IInv'
    BY <1>3, EndExecutionKeeps, RetainTransfersKeeps, CompleteTransfersKeeps, AdmitKeeps, PutGuestKeeps
  <1>4. QED BY <1>1, <1>2, <1>3, StopKeeps, StartKeeps DEF Next

\* The inductive invariant holds in every state.
LEMMA InStep == Spec => []IInv
  <1>1. Init => IInv
    BY InitHolds
  <1>2. IInv /\ [Next]_vars => IInv'
    BY StepKeeps
  <1>3. QED BY <1>1, <1>2, PTL DEF Spec

\* transfers.go: whichever PUT, removal, recovery or sweep ran before, and whichever
\* writes failed, the index of an upload names synced files only, unless the mark
\* of its removal was lost, and an upload that is ready or owned by an execution
\* has its complete and closed manifest.
THEOREM IndexIsRight == Spec => []Inv
  <1>1. IInv => Inv
    BY DEF IInv
  <1>2. QED BY <1>1, InStep, PTL

\* What the input of a lab that is not complete looks like.
LEMMA LabInput ==
  ASSUME IInv, NEW u \in Uploads, Exists(u), row[u].execution \in Labs, execution[row[u].execution] # "complete"
  PROVE  row[u] \in Rows /\ row[u].state \notin {"open", "deleting"} /\ ~Unbound(u)
  <1>1. TypeOK /\ RowSound(u) /\ PutSound(u)
    BY SoundIsIInv
  <1>2. ~Unbound(u)
    BY NoneIsNoRow DEF Unbound, Executions
  <1>3. QED BY <1>1, <1>2 DEF TypeOK, RowSound, PutSound, Exists

\* No step of an upload touches it, ...
LEMMA UploadStepsSpare ==
  ASSUME IInv, NEW u \in Uploads, Exists(u), row[u].execution \in Labs, execution[row[u].execution] # "complete",
         NEW v \in Uploads,
         \/ Create(v) \/ PutStep(v) \/ DeleteUpload(v) \/ RemovalStep(v)
         \/ Expire(v) \/ Imported(v) \/ PurgeInput(v) \/ SweepDirectory(v)
         \/ \E m \in Manifests : PutManifest(v, m)
         \/ \E n \in Objects : PutObject(v, n)
  PROVE  row'[u] = row[u]
  <1>1. TypeOK /\ row[u] \in Rows /\ row[u].state \notin {"open", "deleting"} /\ ~Unbound(u)
    BY LabInput, SoundIsIInv
  <1>2. row \in [Uploads -> {None} \cup Rows]
    BY <1>1 DEF TypeOK
  <1>3. CASE Create(v)
    BY <1>2, <1>3 DEF Create, Exists
  <1>4. CASE PutStep(v)
    BY <1>1, <1>2, <1>4 DEF PutStep, DeclareUpload, SameObject, StageObject, SyncObject, FailObject,
       PublishObject, VerifyUpload, UploadAllowed, disk
  <1>5. CASE DeleteUpload(v)
    <2>1. v # u /\ Exists(v) /\ Persist({v}, "deleting")
      BY <1>1, <1>5 DEF DeleteUpload
    <2>2. QED BY <1>1, <2>1, MarkIs
  <1>6. CASE RemovalStep(v)
    BY <1>1, <1>2, <1>6 DEF RemovalStep, DeleteSettled, RemoveFiles, RemoveRow, RemovalFails, disk
  <1>7. CASE Expire(v) \/ Imported(v) \/ PurgeInput(v)
    <2>1. v # u
      BY <1>1, <1>7, TransfersAssumption DEF Expire, Imported, PurgeInput
    <2>2. Exists(v) /\ Persist({v}, "deleting")
      BY <1>7 DEF Expire, Imported, PurgeInput, RemoveTransfer
    <2>3. QED BY <1>1, <2>1, <2>2, MarkIs
  <1>8. CASE SweepDirectory(v) \/ (\E m \in Manifests : PutManifest(v, m)) \/ (\E n \in Objects : PutObject(v, n))
    BY <1>8 DEF SweepDirectory, PutManifest, PutObject, disk
  <1>9. QED BY <1>3, <1>4, <1>5, <1>6, <1>7, <1>8

\* ... and a step of an execution changes its state at most.
LEMMA ExecutionStepsSpare ==
  ASSUME IInv, NEW u \in Uploads, Exists(u), row[u].execution \in Labs, execution[row[u].execution] # "complete",
         NEW e \in Executions,
         \/ EndExecution(e) \/ RetainTransfers(e) \/ CompleteTransfers(e)
         \/ \E S \in SUBSET Uploads : Admit(e, S)
         \/ \E v \in Uploads : PutGuest(e, v)
  PROVE  \/ row'[u] = row[u]
         \/ row'[u] = [row[u] EXCEPT !.state = "settling"]
         \/ row'[u] = [row[u] EXCEPT !.state = "retained"]
  <1>1. TypeOK /\ ~Unbound(u)
    BY LabInput, SoundIsIInv
  <1>2. row \in [Uploads -> {None} \cup Rows]
    BY <1>1 DEF TypeOK
  <1>3. CASE EndExecution(e)
    BY <1>3 DEF EndExecution, disk
  <1>4. CASE RetainTransfers(e) \/ CompleteTransfers(e)
    BY <1>2, <1>4 DEF RetainTransfers, CompleteTransfers, Persist
  <1>5. CASE \E S \in SUBSET Uploads : Admit(e, S)
    BY <1>1, <1>5 DEF Admit
  <1>6. CASE \E v \in Uploads : PutGuest(e, v)
    BY <1>1, <1>2, <1>6 DEF PutGuest
  <1>7. QED BY <1>3, <1>4, <1>5, <1>6

\* Together: what a step leaves of the input of a lab.
LEMMA StepProtects ==
  ASSUME IInv, [Next]_vars, NEW u \in Uploads,
         Exists(u), row[u].execution \in Labs, execution[row[u].execution] # "complete"
  PROVE  /\ row'[u] # None /\ row'[u].state # "deleting"
         /\ row'[u].objects = row[u].objects /\ row'[u].execution = row[u].execution
  <1>1. row[u] \in Rows /\ row[u].state \notin {"open", "deleting"}
    BY LabInput
  <1>2. CASE row'[u] = row[u]
    BY <1>1, <1>2, NoneIsNoRow
  <1>3. CASE row'[u] = [row[u] EXCEPT !.state = "settling"] \/ row'[u] = [row[u] EXCEPT !.state = "retained"]
    <2>1. /\ row'[u] \in Rows /\ row'[u].state \in {"settling", "retained"}
          /\ row'[u].objects = row[u].objects /\ row'[u].execution = row[u].execution
      BY ONLY <1>1, <1>3 DEF Rows, States
    <2>2. QED BY <2>1, NoneIsNoRow
  <1>4. CASE Stop \/ UNCHANGED vars
    BY <1>2, <1>4 DEF Stop, vars, disk
  <1>5. CASE Start
    BY <1>1, <1>2, <1>5 DEF Start, Leftover, UploadAllowed
  <1>6. QED BY <1>2, <1>3, <1>4, <1>5, UploadStepsSpare, ExecutionStepsSpare DEF Next

\* deleteUpload, reclaim, removeTransfer and New: until the cleanup of its lab is
\* complete, no step takes the input of a lab away, marks it as deleted, changes
\* its objects or gives it to another execution.
THEOREM LabInputIsProtected == Spec => InputIsProtected
  <1>1. IInv /\ [Next]_vars =>
          [\A u \in Uploads :
             Exists(u) /\ row[u].execution \in Labs
               /\ execution[row[u].execution] # "complete"
             => /\ row'[u] # None
                /\ row'[u].state # "deleting"
                /\ row'[u].objects = row[u].objects
                /\ row'[u].execution = row[u].execution]_vars
    BY StepProtects
  <1>2. QED BY <1>1, InStep, PTL DEF Spec, InputIsProtected

-----------------------------------------------------------------------------
(* The budget.  BInv counts the claims of manifests: only the declaration  *)
(* of a manifest raises them, and it has looked at the reservations, which *)
(* are the claims while the controller runs.                               *)

Bytes == 1 .. Cardinality(Objects)

\* ReservationInStep of one upload.
Reserved(u) ==
  /\ put[u].at = "manifest" => put[u].manifest # None /\ row[u].manifest = None
  /\ reserved[u] = IF up /\ Exists(u) THEN Size(Promised(u)) ELSE 0
  /\ Exists(u) /\ row[u].manifest = None => row[u].objects = {}
  /\ Exists(u) /\ row[u].manifest # None => row[u].objects \subseteq row[u].manifest.objects
  /\ put[u].at \notin {"none", "manifest"} => row[u].manifest # None
  /\ put[u].at \in {"stage", "staged", "publish"} => put[u].object \in row[u].manifest.objects
  /\ Exists(u) /\ row[u].state = "retained" => ~Staged(u)

\* A step does not raise the claim of u.
Shrinks(u) == Staged(u)' => \/ Promised(u)' = None
                            \/ Staged(u) /\ Promised(u)' = Promised(u)

\* The size of a manifest is a number of bytes.
LEMMA Sizes == \A m \in Manifests \cup {None} : Size(m) \in 0 .. Cardinality(Objects)
  <1>1. Cardinality(Objects) \in Nat
    BY TransfersAssumption, FS_CardinalityType
  <1>2. ASSUME NEW m \in Manifests PROVE Total(m) \in 0 .. Cardinality(Objects)
    <2>1. m.objects \in SUBSET Objects
      BY TransfersAssumption
    <2>2. IsFiniteSet(m.objects) /\ Cardinality(m.objects) <= Cardinality(Objects)
      BY <2>1, TransfersAssumption, FS_Subset
    <2>3. QED BY <1>1, <2>2, FS_CardinalityType DEF Total
  <1>3. QED BY <1>1, <1>2 DEF Size

\* The bytes of finitely many uploads are finitely many.
LEMMA FiniteBytes == IsFiniteSet(Uploads \X Bytes)
  <1>1. Cardinality(Objects) \in Nat
    BY TransfersAssumption, FS_CardinalityType
  <1>2. IsFiniteSet(Bytes)
    BY <1>1, FS_Interval DEF Bytes
  <1>3. QED BY <1>2, TransfersAssumption, FS_Product

\* Fewer bytes are no more bytes.
LEMMA FewerBytes ==
  ASSUME NEW S \in SUBSET (Uploads \X Bytes), NEW T \in SUBSET S
  PROVE  /\ IsFiniteSet(S) /\ IsFiniteSet(T) /\ Cardinality(S) \in Nat /\ Cardinality(T) \in Nat
         /\ Cardinality(T) <= Cardinality(S)
  BY FiniteBytes, FS_Subset, FS_CardinalityType

\* What an upload promises is a manifest or nothing.
LEMMA PromisedIs ==
  ASSUME IInv, NEW u \in Uploads, Exists(u)
  PROVE  Promised(u) \in Manifests \cup {None} /\ Size(Promised(u)) \in 0 .. Cardinality(Objects)
  <1>1. row[u] \in Rows /\ put[u] \in Puts
    BY SoundIsIInv DEF TypeOK, Exists
  <1>2. row[u].manifest \in Manifests \cup {None} /\ put[u].manifest \in Manifests \cup {None}
    BY <1>1 DEF Rows, Puts
  <1>3. QED BY <1>2, Sizes DEF Promised

\* A claim is a number of bytes, ...
LEMMA ClaimIs == IInv => \A u \in Uploads : Claim(u) \in 0 .. Cardinality(Objects)
  <1>1. Cardinality(Objects) \in Nat
    BY TransfersAssumption, FS_CardinalityType
  <1>2. QED BY <1>1, PromisedIs DEF Claim, Staged

\* ... after a step too.
LEMMA ClaimIsNext == IInv' => (\A u \in Uploads : Claim(u) \in 0 .. Cardinality(Objects))'
  BY ClaimIs, PTL

\* While the claims shrink the budget is kept.
LEMMA FewerClaims ==
  ASSUME BInv, IInv', \A u \in Uploads : Shrinks(u)
  PROVE  Cardinality(Claimed') <= InputBytes
  <1>1. ASSUME NEW u \in Uploads PROVE Claim(u)' <= Claim(u)
    <2>1. Claim(u) \in 0 .. Cardinality(Objects)
      BY ClaimIs DEF BInv
    <2>2. CASE ~Staged(u)' \/ Promised(u)' = None
      BY <2>1, <2>2 DEF Claim, Size
    <2>3. CASE Staged(u)' /\ Promised(u)' # None
      <3>1. Claim(u)' = Claim(u)
        BY <2>3 DEF Claim, Shrinks, Size
      <3>2. QED BY <2>1, <3>1
    <2>4. QED BY <2>2, <2>3
  <1>2. ASSUME NEW u \in Uploads PROVE Claim(u)' \in Nat /\ Claim(u) \in Nat
    <2>1. Claim(u) \in 0 .. Cardinality(Objects)
      BY ClaimIs DEF BInv
    <2>2. Claim(u)' \in 0 .. Cardinality(Objects)
      BY ClaimIsNext
    <2>3. QED BY <2>1, <2>2
  <1>3. Claimed' \in SUBSET Claimed
    <2>1. ASSUME NEW b \in Uploads \X Bytes, b[2] <= Claim(b[1])' PROVE b[2] <= Claim(b[1])
      <3>1. b[1] \in Uploads /\ b[2] \in Int
        BY DEF Bytes
      <3>2. Claim(b[1])' <= Claim(b[1]) /\ Claim(b[1])' \in Nat /\ Claim(b[1]) \in Nat
        BY <1>1, <1>2, <3>1
      <3>3. QED BY <2>1, <3>1, <3>2
    <2>2. QED BY <2>1 DEF Claimed, Bytes
  <1>4. Claimed \in SUBSET (Uploads \X Bytes)
    BY DEF Claimed, Bytes
  <1>5. Cardinality(Claimed') <= Cardinality(Claimed) /\ Cardinality(Claimed') \in Nat /\ Cardinality(Claimed) \in Nat
    BY <1>3, <1>4, FewerBytes
  <1>6. QED BY <1>5, TransfersAssumption DEF BInv
\* A step that leaves the claim of u alone: its reservation, its manifest, its
\* objects; a PUT goes on or ends, and u is not staged anew.
RowCalm(u) ==
  /\ Exists(u)' <=> Exists(u)
  /\ Exists(u) => /\ row'[u].manifest = row[u].manifest /\ row'[u].objects = row[u].objects
                  /\ row'[u].state = "retained" => row[u].state = "retained" \/ ~Staged(u)'
  /\ Staged(u)' => Staged(u)

PutCalm(u) ==
  \/ /\ put'[u].at = put[u].at /\ put'[u].manifest = put[u].manifest
     /\ put'[u].object = put[u].object
  \/ /\ put[u].at \notin {"none", "manifest"} /\ put'[u].at \in {"none", "verify"}
  \/ /\ put[u].at \in {"stage", "staged"} /\ put'[u].at \in {"staged", "publish"}
     /\ put'[u].object = put[u].object

\* Such a step keeps the reservation in step and raises no claim.
LEMMA Calm ==
  ASSUME NEW u \in Uploads, PutSound(u), Reserved(u), up' = up, reserved'[u] = reserved[u],
         RowCalm(u), PutCalm(u)
  PROVE  Reserved(u)' /\ Shrinks(u)
  <1>1. Exists(u) => Promised(u)' = Promised(u)
    BY DEF PutCalm, RowCalm, Reserved, Promised
  <1>2. reserved'[u] = IF up' /\ Exists(u)' THEN Size(Promised(u)') ELSE 0
    BY <1>1 DEF RowCalm, Reserved
  <1>3. put[u].at # "none" => Exists(u)
    BY DEF PutSound
  <1>4. put'[u].at = "manifest" => put'[u].manifest # None /\ row'[u].manifest = None
    BY <1>3 DEF PutCalm, RowCalm, Reserved
  <1>5. /\ put'[u].at \notin {"none", "manifest"} => row'[u].manifest # None
        /\ put'[u].at \in {"stage", "staged", "publish"} => put'[u].object \in row'[u].manifest.objects
    BY <1>3 DEF PutCalm, RowCalm, Reserved
  <1>6. /\ Exists(u)' /\ row'[u].manifest = None => row'[u].objects = {}
        /\ Exists(u)' /\ row'[u].manifest # None => row'[u].objects \subseteq row'[u].manifest.objects
        /\ Exists(u)' /\ row'[u].state = "retained" => ~Staged(u)'
    BY DEF RowCalm, Reserved
  <1>7. Reserved(u)'
    BY <1>2, <1>4, <1>5, <1>6 DEF Reserved, Size
  <1>8. Shrinks(u)
    BY <1>1 DEF Shrinks, RowCalm, Staged
  <1>9. QED BY <1>7, <1>8

\* The invariant of the budget is that of every upload and the bound.
LEMMA ReservedIs == /\ BInv <=> IInv /\ (\A u \in Uploads : Reserved(u)) /\ Cardinality(Claimed) <= InputBytes
                    /\ BInv' <=> IInv' /\ (\A u \in Uploads : Reserved(u)') /\ Cardinality(Claimed') <= InputBytes
  BY DEF BInv, ReservationInStep, Reserved

\* A step that raises no claim.
LEMMA NoClaim ==
  ASSUME BInv, IInv', \A u \in Uploads : Reserved(u)' /\ Shrinks(u)
  PROVE  BInv'
  BY FewerClaims, ReservedIs

\* A step that is calm about every upload keeps the budget.
LEMMA CalmKeeps ==
  ASSUME BInv, IInv', up' = up, reserved' = reserved, \A u \in Uploads : RowCalm(u) /\ PutCalm(u)
  PROVE  BInv'
  <1>1. ASSUME NEW u \in Uploads PROVE Reserved(u)' /\ Shrinks(u)
    <2>1. PutSound(u) /\ Reserved(u)
      BY ReservedIs, SoundIsIInv
    <2>2. QED BY <2>1, Calm
  <1>2. QED BY <1>1, NoClaim

\* A row that stays what it is is calm.
LEMMA SameRow ==
  ASSUME BInv, NEW u \in Uploads, row'[u] = row[u], execution' = execution
  PROVE  RowCalm(u)
  BY ReservedIs DEF RowCalm, Exists, Staged, Unbound, Reserved

\* The same of a row whose state changes.
LEMMA MarkedRow ==
  ASSUME BInv, NEW u \in Uploads, Exists(u), NEW s \in States \ {"retained"},
         row'[u] = [row[u] EXCEPT !.state = s], execution' = execution
  PROVE  RowCalm(u)
  <1>1. row[u] \in Rows
    BY ReservedIs, SoundIsIInv DEF TypeOK, Exists
  <1>2. /\ row'[u] \in Rows /\ row'[u].state = s /\ row'[u].execution = row[u].execution
        /\ row'[u].manifest = row[u].manifest /\ row'[u].objects = row[u].objects
    BY ONLY <1>1, RowState, row'[u] = [row[u] EXCEPT !.state = s], s \in States
  <1>3. QED BY <1>2, NoneIsNoRow DEF RowCalm, Exists, Staged, Unbound

\* The steps of a PUT that claim nothing.
LEMMA PutStepCalm ==
  ASSUME BInv, IInv', NEW u \in Uploads,
         SameObject(u) \/ StageObject(u) \/ SyncObject(u) \/ FailObject(u) \/ VerifyUpload(u)
  PROVE  BInv'
  <1>1. TypeOK /\ PutSound(u)
    BY ReservedIs, SoundIsIInv
  <1>2. up' = up /\ reserved' = reserved /\ execution' = execution
    BY DEF SameObject, StageObject, SyncObject, FailObject, VerifyUpload
  <1>3. ASSUME NEW v \in Uploads PROVE PutCalm(v)
    <2>1. \/ EndPut(u) /\ put[u].at \notin {"none", "manifest"}
          \/ PutAt(u, "verify") /\ put[u].at = "same"
          \/ PutAt(u, "staged") /\ put[u].at = "stage"
          \/ PutAt(u, "publish") /\ put[u].at = "staged"
      BY DEF SameObject, StageObject, SyncObject, FailObject, VerifyUpload
    <2>2. CASE v # u
      BY <1>1, <2>1, <2>2, EndPutIs, PutAtIs DEF PutCalm
    <2>3. CASE v = u
      BY <1>1, <2>1, <2>3, EndPutIs, PutAtIs DEF PutCalm
    <2>4. QED BY <2>2, <2>3
  <1>4. ASSUME NEW v \in Uploads PROVE RowCalm(v)
    <2>1. CASE row' = row
      BY <1>2, <2>1, SameRow
    <2>2. CASE row' = [row EXCEPT ![u].state = "ready"] /\ Exists(u)
      <3>1. CASE v = u
        <4>1. row'[u] = [row[u] EXCEPT !.state = "ready"]
          BY <1>1, <2>2 DEF TypeOK
        <4>2. "ready" \in States \ {"retained"}
          BY DEF States
        <4>3. QED BY <1>2, <2>2, <3>1, <4>1, <4>2, MarkedRow
      <3>2. CASE v # u
        BY <1>1, <1>2, <2>2, <3>2, SameRow DEF TypeOK
      <3>3. QED BY <3>1, <3>2
    <2>3. row' = row \/ (row' = [row EXCEPT ![u].state = "ready"] /\ Exists(u))
      BY <1>1 DEF SameObject, StageObject, SyncObject, FailObject, VerifyUpload, disk, UploadAllowed
    <2>4. QED BY <2>1, <2>2, <2>3
  <1>5. QED BY <1>2, <1>3, <1>4, CalmKeeps
\* publishTransferObject: what it publishes is declared.
LEMMA PublishObjectCalm ==
  ASSUME BInv, IInv', NEW u \in Uploads, PublishObject(u)
  PROVE  BInv'
  <1>1. TypeOK /\ PutSound(u) /\ Reserved(u)
    BY ReservedIs, SoundIsIInv
  <1>2. up' = up /\ reserved' = reserved /\ execution' = execution /\ put[u].at = "publish"
    BY DEF PublishObject
  <1>3. Exists(u) /\ put[u].object \in Objects /\ row[u] \in Rows
    BY <1>1, <1>2 DEF PutSound, TypeOK, Exists
  <1>4. \/ row' = row /\ EndPut(u)
        \/ row' = [row EXCEPT ![u].objects = @ \cup {put[u].object}] /\ PutAt(u, "verify")
    BY DEF PublishObject
  <1>5. put'[u].at \in {"none", "verify"} /\ \A v \in Uploads \ {u} : put'[v] = put[v]
    BY <1>1, <1>4, EndPutIs, PutAtIs
  <1>6. ASSUME NEW v \in Uploads, v # u PROVE Reserved(v)' /\ Shrinks(v)
    <2>1. row'[v] = row[v]
      BY <1>1, <1>4, <1>6 DEF TypeOK
    <2>2. RowCalm(v) /\ PutCalm(v)
      BY <1>2, <1>5, <1>6, <2>1, SameRow DEF PutCalm
    <2>3. QED BY <1>2, <2>2, Calm, ReservedIs, SoundIsIInv
  <1>7. Reserved(u)' /\ Shrinks(u)
    <2>1. CASE row' = row
      <3>1. RowCalm(u) /\ PutCalm(u)
        BY <1>2, <1>5, <2>1, SameRow DEF PutCalm
      <3>2. QED BY <1>1, <1>2, <3>1, Calm
    <2>2. CASE row' = [row EXCEPT ![u].objects = @ \cup {put[u].object}] /\ PutAt(u, "verify")
      <3>1. row'[u] = [row[u] EXCEPT !.objects = @ \cup {put[u].object}]
        BY <1>1, <2>2 DEF TypeOK
      <3>2. /\ row'[u] \in Rows /\ row'[u].state = row[u].state /\ row'[u].execution = row[u].execution
            /\ row'[u].manifest = row[u].manifest /\ row'[u].objects = row[u].objects \cup {put[u].object}
        BY ONLY <1>3, <3>1, RowObjects
      <3>3. put'[u].at = "verify"
        BY <1>1, <2>2, PutAtIs
      <3>4. Exists(u)' /\ (Staged(u)' <=> Staged(u))
        BY <1>2, <1>3, <3>2, NoneIsNoRow DEF Exists, Staged, Unbound
      <3>5. Promised(u)' = Promised(u) /\ row[u].manifest # None
        BY <1>1, <1>2, <3>2, <3>3 DEF Promised, Reserved
      <3>6. row'[u].objects \subseteq row'[u].manifest.objects
        BY <1>1, <1>2, <1>3, <3>2, <3>5 DEF Reserved
      <3>7. reserved'[u] = IF up' /\ Exists(u)' THEN Size(Promised(u)') ELSE 0
        BY <1>1, <1>2, <1>3, <3>4, <3>5 DEF Reserved
      <3>8. Exists(u)' /\ row'[u].state = "retained" => ~Staged(u)'
        BY <1>1, <1>3, <3>2, <3>4 DEF Reserved
      <3>9. Reserved(u)'
        BY <3>2, <3>3, <3>5, <3>6, <3>7, <3>8 DEF Reserved, Size
      <3>10. QED BY <3>4, <3>5, <3>9 DEF Shrinks
    <2>3. QED BY <1>4, <2>1, <2>2
  <1>8. QED BY <1>6, <1>7, NoClaim

\* Marking an upload as deleted, and removing its files.
LEMMA RemovalCalm ==
  ASSUME BInv, IInv', NEW u \in Uploads,
         \/ DeleteUpload(u) \/ DeleteSettled(u) \/ RemoveFiles(u) \/ RemovalFails(u) \/ SweepDirectory(u)
         \/ Expire(u) \/ Imported(u) \/ PurgeInput(u)
  PROVE  BInv'
  <1> USE DEF DeleteUpload, DeleteSettled, RemoveFiles, RemovalFails, SweepDirectory, Expire, Imported, PurgeInput, RemoveTransfer
  <1>1. TypeOK
    BY ReservedIs, SoundIsIInv
  <1>2. up' = up /\ reserved' = reserved /\ execution' = execution
    OBVIOUS
  <1>3. ASSUME NEW v \in Uploads PROVE PutCalm(v)
    <2>1. put' = put \/ put' = Cancelled({u})
      OBVIOUS
    <2>2. QED BY <1>1, <2>1, CancelledIs DEF PutCalm
  <1>4. row' = row \/ (Persist({u}, "deleting") /\ Exists(u))
    BY DEF disk
  <1>5. ASSUME NEW v \in Uploads PROVE RowCalm(v)
    <2>1. CASE row'[v] = row[v]
      BY <1>2, <2>1, SameRow
    <2>2. CASE v = u /\ row'[u] = [row[u] EXCEPT !.state = "deleting"] /\ Exists(u)
      <3>1. "deleting" \in States \ {"retained"}
        BY DEF States
      <3>2. QED BY <1>2, <2>2, <3>1, MarkedRow
    <2>3. row'[v] = row[v] \/ (v = u /\ row'[u] = [row[u] EXCEPT !.state = "deleting"] /\ Exists(u))
      BY <1>1, <1>4, MarkIs
    <2>4. QED BY <2>1, <2>2, <2>3
  <1>6. QED BY <1>2, <1>3, <1>5, CalmKeeps

\* RemoveRow gives the claim up.
LEMMA RemoveRowCalm ==
  ASSUME BInv, IInv', NEW u \in Uploads, RemoveRow(u)
  PROVE  BInv'
  <1>1. TypeOK /\ PutSound(u)
    BY ReservedIs, SoundIsIInv
  <1>2. up' = up /\ put' = put /\ execution' = execution /\ removal[u] = "row"
    BY DEF RemoveRow
  <1>3. row'[u] = None /\ reserved'[u] = 0 /\ \A v \in Uploads \ {u} : row'[v] = row[v] /\ reserved'[v] = reserved[v]
    BY <1>1 DEF RemoveRow, TypeOK
  <1>4. ASSUME NEW v \in Uploads, v # u PROVE Reserved(v)' /\ Shrinks(v)
    <2>1. RowCalm(v) /\ PutCalm(v)
      BY <1>2, <1>3, <1>4, SameRow DEF PutCalm
    <2>2. QED BY <1>2, <1>3, <1>4, <2>1, Calm, ReservedIs, SoundIsIInv
  <1>5. put[u].at = "none"
    BY <1>1, <1>2 DEF PutSound
  <1>6. Reserved(u)' /\ Shrinks(u)
    BY <1>2, <1>3, <1>5 DEF Reserved, Shrinks, Staged, Exists
  <1>7. QED BY <1>4, <1>6, NoClaim

\* The steps of executions: an input that is bound stays staged until its
\* execution is complete, and then no longer counts.
LEMMA ExecutionCalm ==
  ASSUME BInv, IInv', NEW e \in Executions,
         \/ EndExecution(e) \/ RetainTransfers(e) \/ CompleteTransfers(e)
         \/ \E S \in SUBSET Uploads : Admit(e, S)
         \/ \E u \in Uploads : PutGuest(e, u)
  PROVE  BInv'
  <1> USE DEF EndExecution, RetainTransfers, CompleteTransfers, Admit, PutGuest
  <1>1. TypeOK
    BY ReservedIs, SoundIsIInv
  <1>2. up' = up /\ reserved' = reserved
    OBVIOUS
  <1>3. ASSUME NEW v \in Uploads PROVE PutCalm(v)
    <2>1. put' = put \/ put' = Cancelled(Bound(e))
      OBVIOUS
    <2>2. QED BY <1>1, <2>1, CancelledIs DEF PutCalm
  <1>4. execution \in [Executions -> Stages]
    BY <1>1 DEF TypeOK, Stages
  <1>5. \A x \in Executions \ {e} : execution'[x] = execution[x]
    BY <1>4
  <1>6. ASSUME NEW u \in Uploads PROVE RowCalm(u)
    <2>1. Reserved(u)
      BY ReservedIs
    <2>2. row \in [Uploads -> {None} \cup Rows]
      BY <1>1 DEF TypeOK
    <2>3. CASE ~Exists(u)
      <3>1. row'[u] = None
        BY <2>2, <2>3 DEF Exists, Bound, Persist, disk
      <3>2. QED BY <2>3, <3>1 DEF RowCalm, Exists, Staged
    <2>4. CASE Exists(u)
      <3>1. row[u] \in Rows /\ row[u].execution \in Executions \cup {None}
        BY <2>2, <2>4 DEF Exists, Rows
      <3>2. CASE EndExecution(e)
        <4>1. row'[u] = row[u]
          BY <3>2 DEF disk
        <4>2. Staged(u)' => Staged(u)
          BY <1>4, <1>5, <2>4, <3>1, <3>2, <4>1 DEF Staged, Exists, Unbound, Bound
        <4>3. QED BY <2>1, <2>4, <4>1, <4>2 DEF RowCalm, Reserved, Exists
      <3>3. CASE RetainTransfers(e)
        <4>1. row'[u] = row[u] \/ row'[u] = [row[u] EXCEPT !.state = "settling"]
          BY <3>3 DEF Persist
        <4>2. /\ row'[u] \in Rows /\ row'[u].manifest = row[u].manifest /\ row'[u].objects = row[u].objects
              /\ row'[u].execution = row[u].execution /\ row'[u].state \in {row[u].state, "settling"}
          BY ONLY <3>1, <4>1 DEF Rows, States
        <4>3. Staged(u)' => Staged(u)
          BY <1>4, <1>5, <2>4, <3>1, <3>3, <4>2 DEF Staged, Exists, Unbound
        <4>4. QED BY <2>1, <2>4, <4>2, <4>3, NoneIsNoRow DEF RowCalm, Reserved, Exists
      <3>4. CASE CompleteTransfers(e)
        <4>1. row'[u] = row[u] \/ (row[u].execution = e /\ row'[u] = [row[u] EXCEPT !.state = "retained"])
          BY <3>4 DEF Bound, Persist
        <4>2. /\ row'[u] \in Rows /\ row'[u].manifest = row[u].manifest /\ row'[u].objects = row[u].objects
              /\ row'[u].execution = row[u].execution
              /\ row'[u].state = row[u].state \/ row[u].execution = e
          BY ONLY <3>1, <4>1 DEF Rows, States
        <4>3. execution'[e] = "complete"
          BY <1>4, <3>4
        <4>4. Staged(u)' => Staged(u) /\ row[u].execution # e
          BY <1>4, <1>5, <2>4, <3>1, <4>2, <4>3, NoneIsNoRow DEF Staged, Exists, Unbound
        <4>5. QED BY <2>1, <2>4, <4>2, <4>4, NoneIsNoRow DEF RowCalm, Reserved, Exists
      <3>5. CASE (\E S \in SUBSET Uploads : Admit(e, S)) \/ \E v \in Uploads : PutGuest(e, v)
        <4>1. row'[u] = row[u] \/ (Unbound(u) /\ row[u].state = "ready" /\ row'[u] = [row[u] EXCEPT !.execution = e])
          BY <2>2, <3>5
        <4>2. /\ row'[u] \in Rows /\ row'[u].manifest = row[u].manifest /\ row'[u].objects = row[u].objects
              /\ row'[u].state = row[u].state /\ (row'[u].execution = row[u].execution \/ Unbound(u))
          <5>1. CASE row'[u] = row[u]
            BY <3>1, <5>1
          <5>2. CASE Unbound(u) /\ row'[u] = [row[u] EXCEPT !.execution = e]
            BY <3>1, <5>2, RowExecution
          <5>3. QED BY <4>1, <5>1, <5>2
        <4>3. Staged(u)' => Staged(u)
          BY <1>4, <1>5, <2>4, <3>1, <3>5, <4>2 DEF Staged, Exists, Unbound
        <4>4. row'[u].state = "retained" => row'[u] = row[u]
          BY <4>1, <4>2
        <4>5. QED BY <2>1, <2>4, <4>2, <4>3, <4>4, NoneIsNoRow DEF RowCalm, Reserved, Exists
      <3>6. QED BY <3>2, <3>3, <3>4, <3>5
    <2>5. QED BY <2>3, <2>4
  <1>7. QED BY <1>2, <1>3, <1>6, CalmKeeps
\* createTransfer: a new upload has no manifest.
LEMMA CreateCalm ==
  ASSUME BInv, IInv', NEW u \in Uploads, Create(u)
  PROVE  BInv'
  <1> DEFINE q == [state |-> "open", execution |-> None, manifest |-> None, objects |-> {}]
  <1>1. TypeOK /\ PutSound(u) /\ Reserved(u)
    BY ReservedIs, SoundIsIInv
  <1>2. /\ UNCHANGED <<up, reserved, put, execution>> /\ row' \in {row, [row EXCEPT ![u] = q]} /\ row[u] = None
    BY DEF Create, Exists
  <1>3. put[u].at = "none" /\ reserved[u] = 0
    BY <1>1, <1>2 DEF PutSound, Reserved, Exists
  <1>4. row'[u] \in {None, q} /\ \A v \in Uploads \ {u} : row'[v] = row[v]
    BY <1>1, <1>2 DEF TypeOK
  <1>5. ASSUME NEW v \in Uploads, v # u PROVE Reserved(v)' /\ Shrinks(v)
    <2>1. RowCalm(v) /\ PutCalm(v)
      BY <1>2, <1>4, <1>5, SameRow DEF PutCalm
    <2>2. QED BY <1>2, <2>1, Calm, ReservedIs, SoundIsIInv
  <1>6. CASE row'[u] = None
    <2>1. Reserved(u)' /\ Shrinks(u)
      BY <1>2, <1>3, <1>6 DEF Reserved, Shrinks, Staged, Exists
    <2>2. QED BY <1>5, <2>1, NoClaim
  <1>7. CASE row'[u] = q
    <2>1. row'[u].manifest = None /\ row'[u].objects = {} /\ row'[u].state = "open"
      BY <1>7
    <2>2. Reserved(u)' /\ Shrinks(u)
      BY <1>2, <1>3, <2>1 DEF Reserved, Shrinks, Promised, Size
    <2>3. QED BY <1>5, <2>2, NoClaim
  <1>8. QED BY <1>4, <1>6, <1>7

\* A PUT of a declared object claims nothing.
LEMMA PutObjectCalm ==
  ASSUME BInv, IInv', NEW u \in Uploads, NEW n \in Objects, PutObject(u, n)
  PROVE  BInv'
  <1> DEFINE p == [NoPut EXCEPT !.object = n, !.at = IF n \in row[u].objects THEN "same" ELSE "stage"]
  <1>1. TypeOK /\ Reserved(u)
    BY ReservedIs, SoundIsIInv
  <1>2. p.object = n /\ p.at \in {"same", "stage"}
    BY DEF NoPut
  <1>3. /\ put' = [put EXCEPT ![u] = p] /\ UNCHANGED <<up, row, reserved, execution>> /\ put[u].at = "none"
        /\ Exists(u) /\ row[u].manifest # None /\ n \in row[u].manifest.objects
    BY DEF PutObject, disk
  <1> HIDE DEF p
  <1>4. put'[u] = p /\ \A v \in Uploads \ {u} : put'[v] = put[v]
    BY <1>1, <1>3 DEF TypeOK
  <1>5. ASSUME NEW v \in Uploads, v # u PROVE Reserved(v)' /\ Shrinks(v)
    <2>1. RowCalm(v) /\ PutCalm(v)
      BY <1>3, <1>4, <1>5, SameRow DEF PutCalm
    <2>2. QED BY <1>3, <2>1, Calm, ReservedIs, SoundIsIInv
  <1>6. Exists(u)' /\ (Staged(u)' <=> Staged(u)) /\ Promised(u)' = Promised(u)
    BY <1>2, <1>3, <1>4 DEF Exists, Staged, Unbound, Promised
  <1>7. Reserved(u)'
    BY <1>1, <1>2, <1>3, <1>4, <1>6 DEF Reserved, Size
  <1>8. QED BY <1>5, <1>6, <1>7, NoClaim DEF Shrinks

\* The declared manifest claims what was reserved; given up it claims nothing.
LEMMA DeclareUploadCalm ==
  ASSUME BInv, IInv', NEW u \in Uploads, DeclareUpload(u)
  PROVE  BInv'
  <1>1. TypeOK /\ PutSound(u) /\ Reserved(u)
    BY ReservedIs, SoundIsIInv
  <1>2. UNCHANGED <<up, execution>> /\ put[u].at = "manifest" /\ EndPut(u)
    BY DEF DeclareUpload
  <1>3. /\ Exists(u) /\ row[u] \in Rows /\ put[u].manifest \in Manifests /\ row[u].manifest = None /\ row[u].objects = {}
        /\ Promised(u) = put[u].manifest
    <2>1. Exists(u) /\ row[u] \in Rows /\ put[u] \in Puts
      BY <1>1, <1>2 DEF PutSound, TypeOK, Exists
    <2>2. put[u].manifest \in Manifests \cup {None}
      BY <2>1 DEF Puts
    <2>3. QED BY <1>1, <1>2, <2>1, <2>2 DEF Reserved, Promised
  <1>4. put'[u].at = "none" /\ \A v \in Uploads \ {u} : put'[v] = put[v]
    BY <1>1, <1>2, EndPutIs
  <1>5. /\ \A v \in Uploads \ {u} : row'[v] = row[v] /\ reserved'[v] = reserved[v]
        /\ \/ /\ row'[u] = [row[u] EXCEPT !.manifest = put[u].manifest] /\ reserved'[u] = reserved[u]
              /\ row[u].state = "open"
           \/ row'[u] = row[u] /\ reserved'[u] = 0
    BY <1>1 DEF DeclareUpload, TypeOK, UploadAllowed
  <1>6. ASSUME NEW v \in Uploads, v # u PROVE Reserved(v)' /\ Shrinks(v)
    <2>1. RowCalm(v) /\ PutCalm(v)
      BY <1>2, <1>4, <1>5, <1>6, SameRow DEF PutCalm
    <2>2. QED BY <1>2, <1>5, <1>6, <2>1, Calm, ReservedIs, SoundIsIInv
  <1>7. CASE row'[u] = row[u] /\ reserved'[u] = 0
    <2>1. Promised(u)' = None /\ row'[u].manifest = None
      BY <1>3, <1>4, <1>7 DEF Promised
    <2>2. Staged(u)' <=> Staged(u)
      BY <1>2, <1>7 DEF Staged, Exists, Unbound
    <2>3. Exists(u)' /\ row'[u].state = "retained" => ~Staged(u)'
      BY <1>1, <1>3, <1>7, <2>2 DEF Reserved
    <2>4. Reserved(u)' /\ Shrinks(u)
      BY <1>3, <1>4, <1>7, <2>1, <2>3 DEF Reserved, Shrinks, Size
    <2>5. QED BY <1>6, <2>4, NoClaim
  <1>8. CASE row'[u] = [row[u] EXCEPT !.manifest = put[u].manifest] /\ reserved'[u] = reserved[u] /\ row[u].state = "open"
    <2>1. /\ row'[u] \in Rows /\ row'[u].state = "open" /\ row'[u].execution = row[u].execution
          /\ row'[u].manifest = put[u].manifest /\ row'[u].objects = {}
      BY <1>3, <1>8, RowManifest
    <2>2. Exists(u)' /\ (Staged(u)' <=> Staged(u)) /\ Promised(u)' = Promised(u)
      BY <1>2, <1>3, <1>4, <2>1, NoneIsNoRow DEF Staged, Exists, Unbound, Promised
    <2>3. row'[u].manifest # None
      BY <1>1, <1>2, <2>1 DEF Reserved
    <2>4. Reserved(u)'
      BY <1>1, <1>2, <1>3, <1>4, <1>8, <2>1, <2>2, <2>3 DEF Reserved, Size
    <2>5. QED BY <1>6, <2>2, <2>4, NoClaim DEF Shrinks
  <1>9. QED BY <1>5, <1>7, <1>8

\* A stop loses the reservations and keeps the manifests.
LEMMA StopCalm == ASSUME BInv, IInv', Stop PROVE BInv'
  <1>1. NoPut.at = "none"
    BY DEF NoPut
  <1>2. ASSUME NEW u \in Uploads PROVE Reserved(u)' /\ Shrinks(u)
    <2>1. /\ put'[u].at = "none" /\ reserved'[u] = 0 /\ row' = row /\ ~up'
      BY <1>1 DEF Stop, disk
    <2>2. Reserved(u) /\ PutSound(u) /\ TypeOK
      BY ReservedIs, SoundIsIInv
    <2>3. CASE ~Exists(u)
      BY <2>1, <2>3 DEF Reserved, Shrinks, Staged, Exists
    <2>4. CASE Exists(u)
      <3>1. row[u].execution \in Executions \cup {None}
        BY <2>2, <2>4 DEF TypeOK, Exists, Rows
      <3>2. \A e \in Executions : execution[e] = "complete" => execution'[e] = "complete"
        BY DEF Stop
      <3>3. Staged(u)' => Staged(u)
        BY <2>1, <3>1, <3>2 DEF Staged, Exists, Unbound
      <3>4. Promised(u)' = None \/ Promised(u)' = Promised(u)
        BY <2>1, <2>2 DEF Promised, Reserved
      <3>5. Reserved(u)'
        BY <2>1, <2>2, <2>4, <3>3 DEF Reserved, Exists
      <3>6. QED BY <3>3, <3>4, <3>5 DEF Shrinks
    <2>5. QED BY <2>3, <2>4
  <1>3. QED BY <1>2, NoClaim

\* A start reserves what the declared manifests claim.
LEMMA StartCalm == ASSUME BInv, IInv', Start PROVE BInv'
  <1>1. ASSUME NEW u \in Uploads PROVE Reserved(u)' /\ Shrinks(u)
    <2>1. up' /\ put' = put /\ execution' = execution /\ ~up
      BY DEF Start
    <2>2. Reserved(u) /\ PutSound(u) /\ TypeOK
      BY ReservedIs, SoundIsIInv
    <2>3. put[u].at = "none" /\ put'[u].at = "none"
      BY <2>1, <2>2 DEF PutSound
    <2>4. CASE ~Exists(u) \/ Leftover(u)
      <3>1. row'[u] = None /\ reserved'[u] = 0
        BY <2>4 DEF Start, Leftover, UploadAllowed, Exists
      <3>2. QED BY <2>1, <2>3, <3>1 DEF Reserved, Shrinks, Staged, Exists
    <2>5. CASE Exists(u) /\ ~Leftover(u)
      <3>1. row[u] \in Rows
        BY <2>2, <2>5 DEF TypeOK, Exists
      <3>2. row'[u] = row[u] \/ row'[u] = [row[u] EXCEPT !.state = "ready"]
        BY <2>5 DEF Start
      <3>3. /\ row'[u] \in Rows /\ row'[u].execution = row[u].execution /\ row'[u].manifest = row[u].manifest
            /\ row'[u].objects = row[u].objects /\ row'[u].state \in {row[u].state, "ready"}
        BY ONLY <3>1, <3>2 DEF Rows, States
      <3>4. Exists(u)' /\ (Staged(u)' <=> Staged(u))
        BY <2>1, <2>5, <3>3, NoneIsNoRow DEF Exists, Staged, Unbound
      <3>5. Promised(u)' = Promised(u) /\ Promised(u) = row[u].manifest
        BY <2>3, <3>3 DEF Promised
      <3>6. reserved'[u] = Size(row[u].manifest)
        BY <2>5 DEF Start, Size
      <3>7. Exists(u)' /\ row'[u].state = "retained" => ~Staged(u)'
        BY <2>2, <2>5, <3>3, <3>4 DEF Reserved
      <3>8. Reserved(u)'
        BY <2>1, <2>2, <2>3, <2>5, <3>3, <3>4, <3>5, <3>6, <3>7 DEF Reserved, Size
      <3>9. QED BY <3>4, <3>5, <3>8 DEF Shrinks
    <2>6. QED BY <2>4, <2>5
  <1>2. QED BY <1>1, NoClaim
\* What inputUsage counts for a staged upload: its claim, and while the controller
\* is stopped no more than that.
LEMMA UsageIs ==
  ASSUME BInv, NEW u \in Uploads, Staged(u)
  PROVE  /\ Usage(u) \in Nat /\ Claim(u) \in Nat
         /\ Usage(u) <= Claim(u)
         /\ up => Usage(u) = Claim(u)
  <1>1. IInv /\ Reserved(u) /\ TypeOK /\ Exists(u)
    BY ReservedIs, SoundIsIInv DEF Staged
  <1>2. row[u] \in Rows /\ row[u].objects \in SUBSET Objects /\ row[u].manifest \in Manifests \cup {None}
    BY <1>1 DEF TypeOK, Exists, Rows
  <1>3. IsFiniteSet(row[u].objects) /\ Cardinality(row[u].objects) \in Nat
    BY <1>2, TransfersAssumption, FS_Subset, FS_CardinalityType
  <1>4. Size(Promised(u)) \in Nat /\ Claim(u) = Size(Promised(u))
    BY <1>1, PromisedIs DEF Claim
  <1>5. Cardinality(row[u].objects) <= Size(Promised(u))
    <2>1. CASE row[u].manifest = None
      <3>1. Cardinality(row[u].objects) = 0
        BY <1>1, <2>1, FS_EmptySet DEF Reserved
      <3>2. QED BY <1>4, <3>1
    <2>2. CASE row[u].manifest # None
      <3>1. Size(Promised(u)) = Cardinality(row[u].manifest.objects)
        BY <1>1, <2>2 DEF Reserved, Promised, Size, Total
      <3>2. row[u].objects \subseteq row[u].manifest.objects
        BY <1>1, <2>2 DEF Reserved
      <3>3. row[u].manifest.objects \subseteq Objects
        BY <1>2, <2>2, TransfersAssumption
      <3>4. QED BY <3>1, <3>2, <3>3, TransfersAssumption, FS_Subset
    <2>3. QED BY <2>1, <2>2
  <1>6. reserved[u] \in {0, Size(Promised(u))} /\ (up => reserved[u] = Size(Promised(u)))
    BY <1>1 DEF Reserved
  <1>7. Usage(u) = Max({Cardinality(row[u].objects), reserved[u]})
    BY <1>1 DEF Usage, Reserved
  <1> DEFINE x == Cardinality(row[u].objects)
             y == reserved[u]
  <1>8. x \in Nat /\ y \in Nat
    BY <1>3, <1>4, <1>6
  <1>9. Max({x, y}) \in {x, y} /\ Max({x, y}) >= x /\ Max({x, y}) >= y
    <2> HIDE DEF x, y
    <2>1. \E z \in {x, y} : \A w \in {x, y} : z >= w
      BY <1>8
    <2>2. QED BY <2>1 DEF Max
  <1>10. QED BY <1>3, <1>4, <1>5, <1>6, <1>7, <1>8, <1>9

\* The budget is what BInv makes of it.
LEMMA StagedFits == BInv => BudgetHolds
  <1> SUFFICES ASSUME BInv PROVE BudgetHolds
    OBVIOUS
  <1> DEFINE S == {u \in Uploads : Staged(u)}
  <1>1. Used(S) \in SUBSET Claimed
    <2>1. ASSUME NEW b \in S \X Bytes, b[2] <= Usage(b[1]) PROVE b \in Uploads \X Bytes /\ b[2] <= Claim(b[1])
      <3>1. b[1] \in Uploads /\ Staged(b[1]) /\ b[2] \in Int
        BY DEF Bytes
      <3>2. Usage(b[1]) \in Nat /\ Claim(b[1]) \in Nat /\ Usage(b[1]) <= Claim(b[1])
        BY <3>1, UsageIs
      <3>3. QED BY <2>1, <3>1, <3>2
    <2>2. QED BY <2>1 DEF Used, Claimed, Bytes
  <1>2. Claimed \in SUBSET (Uploads \X Bytes)
    BY DEF Claimed, Bytes
  <1>3. Cardinality(Used(S)) <= Cardinality(Claimed) /\ Cardinality(Used(S)) \in Nat /\ Cardinality(Claimed) \in Nat
    BY <1>1, <1>2, FewerBytes
  <1>4. QED BY <1>3, TransfersAssumption DEF BInv, BudgetHolds

\* uploadManifest: the one step that claims more, and no more than is left.
LEMMA PutManifestFits ==
  ASSUME BInv, IInv', NEW u \in Uploads, NEW m \in Manifests, PutManifest(u, m)
  PROVE  BInv'
  <1> DEFINE p == [NoPut EXCEPT !.at = "manifest", !.manifest = m]
  <1>1. TypeOK /\ Reserved(u) /\ IInv
    BY ReservedIs, SoundIsIInv
  <1>2. p.at = "manifest" /\ p.manifest = m /\ m # None
    BY TransfersAssumption DEF NoPut
  <1>3. /\ put' = [put EXCEPT ![u] = p] /\ reserved' = [reserved EXCEPT ![u] = Total(m)]
        /\ UNCHANGED <<row, execution>> /\ up /\ up' = up /\ put[u].at = "none"
        /\ Exists(u) /\ row[u].state = "open" /\ row[u].manifest = None
        /\ Total(m) <= InputBytes - InputUsage
    BY DEF PutManifest, UploadAllowed, disk
  <1> HIDE DEF p
  <1>4. /\ put'[u] = p /\ reserved'[u] = Total(m)
        /\ \A v \in Uploads \ {u} : put'[v] = put[v] /\ reserved'[v] = reserved[v]
    BY <1>1, <1>3 DEF TypeOK
  <1>5. ASSUME NEW v \in Uploads, v # u PROVE Reserved(v)' /\ Shrinks(v)
    <2>1. RowCalm(v) /\ PutCalm(v)
      BY <1>3, <1>4, <1>5, SameRow DEF PutCalm
    <2>2. QED BY <1>3, <1>4, <1>5, <2>1, Calm, ReservedIs, SoundIsIInv
  <1>6. Promised(u)' = m
    BY <1>2, <1>4 DEF Promised
  <1>7. Reserved(u)'
    <2>1. Exists(u)' /\ row'[u] = row[u]
      BY <1>3 DEF Exists
    <2>2. reserved'[u] = Size(Promised(u)')
      BY <1>2, <1>4, <1>6 DEF Size
    <2>3. QED BY <1>1, <1>2, <1>3, <1>4, <2>1, <2>2 DEF Reserved, Size
  <1> DEFINE Added == {u} \X (1 .. Total(m))
  <1>8. Total(m) \in Nat /\ Total(m) <= Cardinality(Objects) /\ Cardinality(Objects) \in Nat
    BY <1>2, Sizes, TransfersAssumption, FS_CardinalityType DEF Size
  <1>9. IsFiniteSet(Added) /\ Cardinality(Added) = Total(m)
    <2>1. IsFiniteSet(1 .. Total(m)) /\ Cardinality(1 .. Total(m)) = Total(m)
      BY <1>8, FS_Interval
    <2>2. IsFiniteSet({u}) /\ Cardinality({u}) = 1
      BY FS_Singleton
    <2>3. IsFiniteSet(Added) /\ Cardinality(Added) = Cardinality({u}) * Cardinality(1 .. Total(m))
      BY <2>1, <2>2, FS_Product
    <2>4. QED BY <1>8, <2>1, <2>2, <2>3
  <1>10. Claimed \in SUBSET (Uploads \X Bytes) /\ Used(Uploads) \in SUBSET (Uploads \X Bytes)
    BY DEF Claimed, Used, Bytes
  <1>11. Claimed \in SUBSET Used(Uploads)
    <2>1. ASSUME NEW b \in Uploads \X Bytes, b[2] <= Claim(b[1]) PROVE b[2] <= Usage(b[1])
      <3>1. b[1] \in Uploads /\ b[2] \in Int /\ b[2] >= 1
        BY <1>8 DEF Bytes
      <3>2. Staged(b[1])
        BY <2>1, <3>1 DEF Claim
      <3>3. Usage(b[1]) = Claim(b[1])
        BY <1>3, <3>1, <3>2, UsageIs
      <3>4. QED BY <2>1, <3>3
    <2>2. QED BY <2>1 DEF Claimed, Used, Bytes
  <1>12. Claimed' \in SUBSET (Claimed \cup Added)
    <2>1. ASSUME NEW b \in Uploads \X Bytes, b[2] <= Claim(b[1])' PROVE b[2] <= Claim(b[1]) \/ b \in Added
      <3>1. b[1] \in Uploads /\ b[2] \in Int /\ b[2] >= 1 /\ b = <<b[1], b[2]>>
        BY <1>8 DEF Bytes
      <3>2. CASE b[1] = u
        <4>1. Claim(u)' = Total(m)
          BY <1>2, <1>6, <2>1, <3>1, <3>2 DEF Claim, Size
        <4>2. b[2] \in 1 .. Total(m)
          BY <1>8, <2>1, <3>1, <3>2, <4>1
        <4>3. QED BY <3>1, <3>2, <4>2
      <3>3. CASE b[1] # u
        <4>1. Shrinks(b[1])
          BY <1>5, <3>1, <3>3
        <4>2. Staged(b[1])' /\ Promised(b[1])' # None
          BY <2>1, <3>1 DEF Claim, Size
        <4>3. Claim(b[1])' = Claim(b[1])
          BY <4>1, <4>2 DEF Shrinks, Claim, Size
        <4>4. QED BY <2>1, <4>3
      <3>4. QED BY <3>2, <3>3
    <2>2. QED BY <2>1 DEF Claimed, Bytes
  <1>13. /\ IsFiniteSet(Claimed) /\ Cardinality(Claimed) \in Nat /\ InputUsage \in Nat
         /\ Cardinality(Claimed) <= InputUsage
    BY <1>10, <1>11, FewerBytes DEF InputUsage
  <1>14. IsFiniteSet(Claimed \cup Added) /\ Cardinality(Claimed \cup Added) <= Cardinality(Claimed) + Total(m)
    <2>1. Cardinality(Claimed \cap Added) \in Nat
      BY <1>13, FS_Intersection, FS_CardinalityType
    <2>2. /\ IsFiniteSet(Claimed \cup Added)
          /\ Cardinality(Claimed \cup Added) = Cardinality(Claimed) + Cardinality(Added) - Cardinality(Claimed \cap Added)
      BY <1>9, <1>13, FS_Union
    <2>3. QED BY <1>8, <1>9, <1>13, <2>1, <2>2
  <1>15. Cardinality(Claimed') <= Cardinality(Claimed \cup Added) /\ Cardinality(Claimed') \in Nat
         /\ Cardinality(Claimed \cup Added) \in Nat
    BY <1>12, <1>14, FS_Subset, FS_CardinalityType
  <1>16. Cardinality(Claimed') <= InputBytes
    BY <1>3, <1>8, <1>13, <1>14, <1>15, TransfersAssumption
  <1>17. QED BY <1>5, <1>7, <1>16, ReservedIs

\* Nothing is claimed in the beginning.
LEMMA BudgetInit == Init => BInv
  <1> SUFFICES ASSUME Init PROVE BInv
    OBVIOUS
  <1>1. NoPut.at = "none"
    BY DEF NoPut
  <1>2. \A u \in Uploads : row[u] = None /\ put[u].at = "none" /\ reserved[u] = 0
    BY <1>1 DEF Init
  <1>3. \A u \in Uploads : Reserved(u) /\ Claim(u) = 0
    BY <1>2 DEF Reserved, Claim, Staged, Exists
  <1>4. \A b \in Uploads \X (1 .. Cardinality(Objects)) : ~(b[2] <= Claim(b[1]))
    <2>1. Cardinality(Objects) \in Nat
      BY TransfersAssumption, FS_CardinalityType
    <2>2. QED BY <1>3, <2>1
  <1>5. Cardinality(Claimed) = 0
    BY <1>4, FS_EmptySet DEF Claimed
  <1>6. QED BY <1>3, <1>5, InitHolds, ReservedIs, TransfersAssumption

\* Every step keeps the budget.
LEMMA BudgetStep == BInv /\ [Next]_vars => BInv'
  <1> SUFFICES ASSUME BInv, [Next]_vars PROVE BInv'
    OBVIOUS
  <1>1. IInv'
    BY ReservedIs, StepKeeps
  <1>2. CASE UNCHANGED vars
    <2>1. up' = up /\ reserved' = reserved /\ row' = row /\ put' = put /\ execution' = execution
      BY <1>2 DEF vars
    <2>2. \A u \in Uploads : RowCalm(u) /\ PutCalm(u)
      BY <2>1, SameRow DEF PutCalm
    <2>3. QED BY <1>1, <2>1, <2>2, CalmKeeps
  <1>3. ASSUME NEW u \in Uploads,
               \/ Create(u) \/ PutStep(u) \/ DeleteUpload(u) \/ RemovalStep(u)
               \/ Expire(u) \/ Imported(u) \/ PurgeInput(u) \/ SweepDirectory(u)
               \/ \E m \in Manifests : PutManifest(u, m)
               \/ \E n \in Objects : PutObject(u, n)
        PROVE  BInv'
    BY <1>1, <1>3, CreateCalm, PutStepCalm, DeclareUploadCalm, PublishObjectCalm, RemovalCalm, RemoveRowCalm,
       PutManifestFits, PutObjectCalm DEF PutStep, RemovalStep
  <1>4. QED BY <1>1, <1>2, <1>3, ExecutionCalm, StopCalm, StartCalm DEF Next

\* upload_manifest.go:85-95: whatever manifests are declared at the same time,
\* given back, lost with a stop and found again by a start, the uploads that are
\* not yet evidence never use more than the staging budget.
THEOREM BudgetIsKept == Spec => []BudgetHolds
  <1>1. Init => BInv
    BY BudgetInit
  <1>2. BInv /\ [Next]_vars => BInv'
    BY BudgetStep
  <1>3. BInv => BudgetHolds
    BY StagedFits
  <1>4. QED BY <1>1, <1>2, <1>3, PTL DEF Spec
=============================================================================
