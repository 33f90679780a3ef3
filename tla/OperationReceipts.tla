------------------------- MODULE OperationReceipts -------------------------
(***************************************************************************)
(* How the controller carries out a mutating tool call at most once        *)
(* (control: api.go accept and dispatchOperation, dispatch.go, server.go   *)
(* New, repository.go, retention.go).                                      *)
(*                                                                         *)
(* A call carries a request_id and the digest of its tool and parameters.  *)
(* Admission commits a receipt with the intent of the call before anything *)
(* is done; a goroutine records that it is dispatched, does it, and        *)
(* records how it ended.  Writes may fail, the backend may not answer      *)
(* although the effect takes place, now or later, and the service may stop *)
(* or crash between any two steps.  A start resumes what was only prepared *)
(* and declares uncertain what was dispatched.                             *)
(*                                                                         *)
(* An effect is what a call asks for: a row that is recorded, an action    *)
(* that VBoxManage carries out.  The effect of command_cancel is the       *)
(* request on record, which Commands has delivered; what a guest does      *)
(* about a power button that was pressed is no part of it.                 *)
(*                                                                         *)
(* Answering a repeated call with its receipt, or with request_conflict,   *)
(* changes nothing and has no action.                                      *)
(***************************************************************************)
EXTENDS Naturals

CONSTANTS
    Requests,       \* the request_ids clients use
    Digests,        \* digests of a tool with its parameters
    NoDigest,       \* the digest of no operation
    LabCreates,     \* digests of lab_create calls
    NixCreates,     \* digests of nix_job_create calls
    Native,         \* node_input, node_control, command_start, command_cancel
    Followed,       \* node_control, command_cancel: native calls that go on after
                    \* their effect and may then fail with a code of their own
    Idempotent,     \* lab_cancel, command_cancel, command_input: calls that
                    \* succeed without an effect when there is none left to have
    Crashes,        \* bound: crashes of the service
    SaveFaults      \* whether database writes may fail

Creates == LabCreates \cup NixCreates

ASSUME ReceiptAssumption ==
    /\ NoDigest \notin Digests
    /\ LabCreates \subseteq Digests /\ NixCreates \subseteq Digests
    /\ Native \subseteq Digests \ Creates /\ Followed \subseteq Native
    /\ Idempotent \subseteq Digests \ Creates
    /\ Crashes \in Nat /\ SaveFaults \in BOOLEAN

VARIABLES
    row,            \* operations: the receipt under each request_id
    mem,            \* s.requests and s.operations
    call,           \* where the dispatchOperation goroutine is
    probing,        \* nix_job_create calls that have released s.mu
    pending,        \* s.pending: receipts to resume after recovery
    inflight,       \* effects on their way to the host or the guest
    effects,        \* how often each effect took place under a request_id
    moot,           \* history: requests whose call found nothing left to do
    up, closed,     \* whether the service runs, and refuses calls
    crashes

vars == <<row, mem, call, probing, pending, inflight, effects, moot, up,
          closed, crashes>>

States == {"pending", "succeeded", "failed", "uncertain"}
Final == States \ {"pending"}
NoOp == [digest |-> NoDigest, state |-> "absent", stage |-> "absent"]
Ops == [digest : Digests, state : States,
        stage : {"prepared", "dispatched", "confirmed", "unknown"}]

TypeOK ==
    /\ row \in [Requests -> Ops \cup {NoOp}]
    /\ mem \in [Requests -> Ops \cup {NoOp}]
    /\ call \in [Requests -> {"none", "spawned", "unsaved", "mutating",
                              "issued", "refused", "moot", "ok", "late",
                              "unclear"}]
    /\ probing \subseteq Requests \X NixCreates
    /\ pending \subseteq Requests
    /\ inflight \subseteq Requests \X Digests
    /\ effects \in [Requests -> [Digests -> Nat]]
    /\ moot \subseteq Requests
    /\ up \in BOOLEAN /\ closed \in BOOLEAN
    /\ crashes \in 0 .. Crashes

NoEffects == [d \in Digests |-> 0]

Init ==
    /\ row = [r \in Requests |-> NoOp]
    /\ mem = [r \in Requests |-> NoOp]
    /\ call = [r \in Requests |-> "none"]
    /\ probing = {} /\ pending = {} /\ inflight = {} /\ moot = {}
    /\ effects = [r \in Requests |-> NoEffects]
    /\ up = TRUE /\ closed = FALSE /\ crashes = 0

\* Whether db.Save may succeed.
Saved == {TRUE} \cup (IF SaveFaults THEN {FALSE} ELSE {})

\* PrepareSave: the stage an ended receipt is stored with.
Ended(d, state) ==
    [digest |-> d, state |-> state,
     stage |-> IF state = "uncertain" THEN "unknown" ELSE "confirmed"]

----------------------------------------------------------------------------
(* Admission *)

\* Mutant: The receipt is looked up before the probe only, and stored over another.
AdmitOver(r, d) ==
    LET op == [digest |-> d, state |-> "pending", stage |-> "prepared"]
    IN  IF d \in Creates
        THEN /\ row' = [row EXCEPT ![r] = Ended(d, "succeeded")]
             /\ effects' = [effects EXCEPT ![r][d] = @ + 1]
             /\ UNCHANGED <<mem, call>>
        ELSE /\ row' = [row EXCEPT ![r] = op]
             /\ mem' = [mem EXCEPT ![r] = op]
             /\ call' = [call EXCEPT ![r] = "spawned"]
             /\ UNCHANGED effects

(***************************************************************************)
(* db.Admit, one transaction.  The request_id is unique in the table, also *)
(* when the lookup before it could not read the table.  A create commits   *)
(* its execution with the receipt; any other call is left prepared, and    *)
(* its goroutine starts.                                                   *)
(***************************************************************************)
Admit(r, d) ==
    /\ row[r] = NoOp
    /\ IF d \in Creates
       THEN /\ row' = [row EXCEPT ![r] = Ended(d, "succeeded")]
            /\ effects' = [effects EXCEPT ![r][d] = @ + 1]
            /\ UNCHANGED <<mem, call>>
       ELSE LET op == [digest |-> d, state |-> "pending", stage |-> "prepared"]
            IN  /\ row' = [row EXCEPT ![r] = op]
                /\ mem' = [mem EXCEPT ![r] = op]
                /\ call' = [call EXCEPT ![r] = "spawned"]
                /\ UNCHANGED effects

Accept(r, d) ==
    /\ up /\ ~closed
    /\ d \notin NixCreates
    /\ mem[r] = NoOp
    /\ Admit(r, d)
    /\ UNCHANGED <<probing, pending, inflight, moot, up, closed, crashes>>

(* nix_job_create asks for the worker with the mutex released. *)
Probe(r, d) ==
    /\ up /\ ~closed
    /\ d \in NixCreates
    /\ mem[r] = NoOp /\ row[r] = NoOp
    /\ probing' = probing \cup {<<r, d>>}
    /\ UNCHANGED <<row, mem, call, pending, inflight, effects, moot, up,
                   closed, crashes>>

NixAccept(r, d) ==
    /\ <<r, d>> \in probing
    /\ ~closed
    /\ mem[r] = NoOp
    /\ Admit(r, d)
    /\ probing' = probing \ {<<r, d>>}
    /\ UNCHANGED <<pending, inflight, moot, up, closed, crashes>>

\* There is a receipt by now, no worker, no room, or the service is stopping.
NixDecline(r, d) ==
    /\ <<r, d>> \in probing
    /\ probing' = probing \ {<<r, d>>}
    /\ UNCHANGED <<row, mem, call, pending, inflight, effects, moot, up,
                   closed, crashes>>

----------------------------------------------------------------------------
(* Dispatch: the goroutine of one receipt *)

\* Mutant: The effect is issued although the dispatch could not be recorded.
DispatchAnyway(r) ==
    /\ call[r] = "spawned"
    /\ mem' = [mem EXCEPT ![r].stage = "dispatched"]
    /\ \E saved \in Saved :
          row' = [row EXCEPT ![r] = IF saved THEN mem'[r] ELSE @]
    /\ call' = [call EXCEPT ![r] = "mutating"]
    /\ UNCHANGED <<probing, pending, inflight, effects, moot, up, closed,
                   crashes>>

Dispatch(r) ==
    /\ call[r] = "spawned"
    /\ mem' = [mem EXCEPT ![r].stage = "dispatched"]
    /\ \E saved \in Saved :
          /\ row' = [row EXCEPT ![r] = IF saved THEN mem'[r] ELSE @]
          /\ call' = [call EXCEPT ![r] = IF saved THEN "mutating" ELSE "unsaved"]
    /\ UNCHANGED <<probing, pending, inflight, effects, moot, up, closed,
                   crashes>>

(* mutate rejects the call, finds nothing left to do and succeeds, or has  *)
(* its effect carried out.                                                 *)
Mutate(r) ==
    /\ call[r] = "mutating"
    /\ \/ /\ call' = [call EXCEPT ![r] = "refused"]
          /\ UNCHANGED <<inflight, moot>>
       \/ /\ mem[r].digest \in Idempotent
          /\ call' = [call EXCEPT ![r] = "moot"]
          /\ moot' = moot \cup {r}
          /\ UNCHANGED inflight
       \/ /\ call' = [call EXCEPT ![r] = "issued"]
          /\ inflight' = inflight \cup {<<r, mem[r].digest>>}
          /\ UNCHANGED moot
    /\ UNCHANGED <<row, mem, probing, pending, effects, up, closed, crashes>>

(* The effect takes place, whether or not anyone still waits for it. *)
Land(r, d) ==
    /\ <<r, d>> \in inflight
    /\ inflight' = inflight \ {<<r, d>>}
    /\ effects' = [effects EXCEPT ![r][d] = @ + 1]
    /\ UNCHANGED <<row, mem, call, probing, pending, moot, up, closed, crashes>>

(* The backend confirms an effect that took place; a call that goes on     *)
(* after its effect fails then: node_control does not become ready in      *)
(* time, is superseded or interrupted, the cancellation on record is not   *)
(* delivered at once.  Or the call times out, is cancelled or fails        *)
(* without telling.                                                        *)
Return(r) ==
    /\ call[r] = "issued"
    /\ \/ /\ <<r, mem[r].digest>> \notin inflight
          /\ call' = [call EXCEPT ![r] = "ok"]
       \/ /\ <<r, mem[r].digest>> \notin inflight
          /\ mem[r].digest \in Followed
          /\ call' = [call EXCEPT ![r] = "late"]
       \/ call' = [call EXCEPT ![r] = "unclear"]
    /\ UNCHANGED <<row, mem, probing, pending, inflight, effects, moot, up,
                   closed, crashes>>

\* Mutant: Every error is a failure.
OutcomeFailed(r) == {IF call[r] \in {"ok", "moot"} THEN "succeeded" ELSE "failed"}

(***************************************************************************)
(* The states a receipt may end in.  A native call whose error is a        *)
(* backend error (a budget that ran out, a write that failed, VBoxManage)  *)
(* is uncertain; any other error is a failure, also one that comes after   *)
(* the effect.  node_exec may report uncertainty.                          *)
(***************************************************************************)
Outcome(r) ==
    LET native == mem[r].digest \in Native IN
    CASE call[r] \in {"ok", "moot"} -> {"succeeded"}
      [] call[r] = "late" -> {"failed"}
      [] call[r] = "refused" -> IF native THEN {"failed", "uncertain"} ELSE {"failed"}
      [] call[r] = "unsaved" -> IF native THEN {"uncertain"} ELSE {"failed"}
      [] OTHER -> IF native THEN {"uncertain"} ELSE {"failed", "uncertain"}

(* persist closes the service when it cannot write. *)
Confirm(r) ==
    /\ call[r] \in {"ok", "moot", "late", "refused", "unsaved", "unclear"}
    /\ \E saved \in Saved, state \in Outcome(r) :
          /\ row' = [row EXCEPT ![r] =
                        IF saved THEN Ended(mem[r].digest, state) ELSE @]
          /\ closed' = (closed \/ ~saved)
    /\ mem' = [mem EXCEPT ![r] = NoOp]
    /\ call' = [call EXCEPT ![r] = "none"]
    /\ UNCHANGED <<probing, pending, inflight, effects, moot, up, crashes>>

----------------------------------------------------------------------------
(* Stop, crash and start *)

Close ==
    /\ up /\ ~closed
    /\ closed' = TRUE
    /\ UNCHANGED <<row, mem, call, probing, pending, inflight, effects, moot,
                   up, crashes>>

Down ==
    /\ up' = FALSE /\ closed' = FALSE
    /\ mem' = [r \in Requests |-> NoOp]
    /\ call' = [r \in Requests |-> "none"]
    /\ probing' = {} /\ pending' = {}
    /\ UNCHANGED <<row, inflight, effects, moot>>

\* Close waits for the goroutines, the scheduler's resumption among them.
Exit ==
    /\ up /\ closed
    /\ pending = {} /\ \A r \in Requests : call[r] = "none"
    /\ Down
    /\ UNCHANGED crashes

Crash ==
    /\ up /\ crashes < Crashes
    /\ Down
    /\ crashes' = crashes + 1

Interrupted == {r \in Requests : row[r].state = "pending"
                                 /\ row[r].stage # "prepared"}

\* New: the receipts of S are declared uncertain.
Declared(S) ==
    [r \in Requests |-> IF r \in S THEN Ended(row[r].digest, "uncertain")
                                   ELSE row[r]]

\* Mutant: A start resumes what was dispatched as well.
RestartResumes ==
    /\ ~up
    /\ up' = TRUE
    /\ mem' = [r \in Requests |-> IF row[r].state = "pending" THEN row[r]
                                                              ELSE NoOp]
    /\ pending' = {r \in Requests : row[r].state = "pending"}
    /\ UNCHANGED <<row, call, probing, inflight, effects, moot, closed, crashes>>

Restart ==
    /\ ~up
    /\ up' = TRUE
    /\ row' = Declared(Interrupted)
    /\ mem' = [r \in Requests |-> IF row[r].state = "pending" THEN row'[r]
                                                              ELSE NoOp]
    /\ pending' = {r \in Requests : row[r].state = "pending"} \ Interrupted
    /\ UNCHANGED <<call, probing, inflight, effects, moot, closed, crashes>>

\* A write fails halfway and the service does not start.
RestartFails ==
    /\ ~up /\ SaveFaults
    /\ \E S \in SUBSET Interrupted : S # Interrupted /\ row' = Declared(S)
    /\ UNCHANGED <<mem, call, probing, pending, inflight, effects, moot, up,
                   closed, crashes>>

\* Mutant: A receipt whose target is gone is skipped.
ResumeSkips(S, L) ==
    /\ up /\ pending # {}
    /\ S \subseteq pending /\ L = {}
    /\ call' = [r \in Requests |-> IF r \in S THEN "spawned" ELSE call[r]]
    /\ pending' = {}
    /\ UNCHANGED <<row, mem, probing, inflight, effects, moot, up, closed,
                   crashes>>

(***************************************************************************)
(* resumeDispatches, under the mutex: the receipts of S whose target is    *)
(* still there are dispatched, the others fail, L of them only in memory.  *)
(***************************************************************************)
Resume(S, L) ==
    LET F == pending \ S
        failed == [r \in Requests |-> Ended(mem[r].digest, "failed")]
    IN  /\ up /\ pending # {}
        /\ S \subseteq pending
        /\ L \subseteq F /\ (SaveFaults \/ L = {})
        /\ call' = [r \in Requests |-> IF r \in S THEN "spawned" ELSE call[r]]
        /\ mem' = [r \in Requests |-> IF r \in F THEN failed[r] ELSE mem[r]]
        /\ row' = [r \in Requests |-> IF r \in F \ L THEN failed[r] ELSE row[r]]
        /\ closed' = (closed \/ L # {})
        /\ pending' = {}
        /\ UNCHANGED <<probing, inflight, effects, moot, up, crashes>>

----------------------------------------------------------------------------
(* Retention *)

(* Ended receipts leave the memory and stay in the database. *)
Evict ==
    /\ up /\ ~closed
    /\ \E r \in Requests : mem[r].state \in Final
    /\ mem' = [r \in Requests |-> IF mem[r].state = "pending" THEN mem[r]
                                                              ELSE NoOp]
    /\ UNCHANGED <<row, call, probing, pending, inflight, effects, moot, up,
                   closed, crashes>>

\* No effect of the request is on its way.
Quiet(r) == \A d \in Digests : <<r, d>> \notin inflight

(* After summary_days the receipt is deleted, and its request_id is free.  *)
(* No effect is under way for that long.                                   *)
Forget(r) ==
    /\ up /\ ~closed
    /\ row[r].state \in Final
    /\ Quiet(r)
    /\ row' = [row EXCEPT ![r] = NoOp]
    /\ mem' = [mem EXCEPT ![r] = NoOp]
    /\ effects' = [effects EXCEPT ![r] = NoEffects]
    /\ moot' = moot \ {r}
    /\ UNCHANGED <<call, probing, pending, inflight, up, closed, crashes>>

----------------------------------------------------------------------------
(* Specification *)

Next ==
    \/ \E r \in Requests, d \in Digests :
          \/ Accept(r, d) \/ Probe(r, d) \/ NixAccept(r, d) \/ NixDecline(r, d)
          \/ Land(r, d)
    \/ \E r \in Requests :
          \/ Dispatch(r) \/ Mutate(r) \/ Return(r) \/ Confirm(r) \/ Forget(r)
    \/ \E S, L \in SUBSET Requests : Resume(S, L)
    \/ Close \/ Exit \/ Crash \/ Restart \/ RestartFails \/ Evict

Spec == Init /\ [][Next]_vars

(***************************************************************************)
(* The goroutines run, every backend call has a time budget, the service   *)
(* manager starts the service again and recovery is followed by            *)
(* resumption.                                                             *)
(***************************************************************************)
Fairness ==
    /\ \A r \in Requests : WF_vars(Dispatch(r) \/ Mutate(r) \/ Return(r)
                                   \/ Confirm(r))
    /\ WF_vars(Restart)
    /\ WF_vars(\E S, L \in SUBSET Requests : Resume(S, L))

FairSpec == Spec /\ Fairness

----------------------------------------------------------------------------
(* Properties *)

Untouched(r) == effects[r] = NoEffects /\ Quiet(r)

\* What a call asks for is done: its effect took place, or there was none left
\* to have and it had none.
Done(r) ==
    /\ Quiet(r)
    /\ IF r \in moot THEN effects[r] = NoEffects ELSE effects[r][row[r].digest] = 1

\* The effect of the receipt, if it is issued at all, is issued once: it is
\* on its way or has taken place, and no other effect has.
IssuedOnce(r) ==
    /\ row[r] # NoOp
    /\ \A d \in Digests :
          /\ d # row[r].digest => effects[r][d] = 0 /\ <<r, d>> \notin inflight
          /\ <<r, d>> \in inflight => effects[r][d] = 0
          /\ effects[r][d] \in {0, 1}

CallAgrees(r) ==
    /\ call[r] # "none" =>
          /\ up /\ r \notin pending
          /\ mem[r].state = "pending" /\ row[r].state = "pending"
          /\ mem[r].digest = row[r].digest
    /\ call[r] \in {"spawned", "unsaved"} => row[r].stage = "prepared"
    /\ call[r] \in {"mutating", "issued", "refused", "moot", "ok", "late", "unclear"} =>
          row[r].stage = "dispatched"
    /\ call[r] \in {"mutating", "refused"} => Untouched(r) /\ r \notin moot
    /\ call[r] \in {"moot", "ok", "late"} => Done(r)
    /\ call[r] = "late" => row[r].digest \in Followed
    /\ call[r] = "issued" =>
          /\ r \notin moot
          /\ effects[r][row[r].digest] = 1 \/ <<r, row[r].digest>> \in inflight

\* What the receipt says of its effect.
RowTells(r) ==
    /\ row[r].state = "pending" <=> row[r].stage \in {"prepared", "dispatched"}
    /\ row[r].stage \in {"absent", "prepared"} => Untouched(r) /\ r \notin moot
    /\ r \in moot => Untouched(r)
    /\ row[r].state = "succeeded" => Done(r)
    /\ row[r].state = "failed" /\ row[r].digest \in Native =>
          /\ Quiet(r)
          /\ row[r].digest \notin Followed => effects[r] = NoEffects

PendingAgrees(r) ==
    r \in pending => /\ up /\ mem[r] = row[r]
                     /\ row[r].state = "pending" /\ row[r].stage = "prepared"

Agrees(r) ==
    /\ CallAgrees(r) /\ RowTells(r) /\ PendingAgrees(r)
    /\ Untouched(r) \/ IssuedOnce(r)

(* The inductive invariant: the database, the memory, the goroutine and    *)
(* the effects of every request agree; a receipt is dispatched in the      *)
(* database before its effect is issued (api.go 551-558).                  *)
IInv == TypeOK /\ \A r \in Requests : Agrees(r)

(* While its receipt is kept, a request_id has one effect at most, and     *)
(* only the one its receipt was admitted for, however often the call is    *)
(* repeated, whichever write fails and wherever the service stops          *)
(* (api.go accept and dispatchOperation, server.go New, dispatch.go).      *)
AtMostOnce ==
    \A r \in Requests, d \in Digests :
        /\ effects[r][d] \in {0, 1}
        /\ effects[r][d] = 1 => row[r].digest = d

(* A receipt that says succeeded is right: the effect took place, or the   *)
(* call found nothing left to do and had none.  A receipt of a native call *)
(* that says failed is the last word: nothing is still on its way, for an  *)
(* unconfirmed native call is uncertain (api.go 577-583).  That there was  *)
(* no effect it means for node_input and command_start only: node_control  *)
(* and command_cancel may fail after theirs (power.go 22-49, operations.go *)
(* 341-345).                                                               *)
ReceiptIsTrue ==
    \A r \in Requests :
        /\ row[r].state = "succeeded" => Done(r)
        /\ row[r].state = "failed" /\ row[r].digest \in Native =>
              /\ Quiet(r)
              /\ row[r].digest \notin Followed => effects[r] = NoEffects

(* The outcome a stored receipt reports never changes; it only expires     *)
(* (repository.go Admit and Operation.store, retention.go reclaim).        *)
ReceiptIsFinal ==
    [][\A r \in Requests :
          row[r].state \in Final => row'[r] \in {row[r], NoOp}]_vars

(* Every admitted call ends, also across crashes, unless a failed write    *)
(* makes the service refuse calls until someone restarts it: resumption    *)
(* dispatches what was prepared or fails it, and a start settles what was  *)
(* dispatched (dispatch.go resumeDispatches, server.go New and persist).   *)
Settles ==
    \A r \in Requests :
        row[r].state = "pending" ~> row[r].state # "pending" \/ closed
=============================================================================
