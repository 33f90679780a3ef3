-------------------------- MODULE EvidenceHandoff --------------------------
(***************************************************************************)
(* How the evidence of an ended Nix job moves from the worker to the       *)
(* controller (worker: evidence.go, handoff.go, files.go; nixos:           *)
(* evidence.go; control: nix_lifecycle.go).  The resources of the job are  *)
(* released already.                                                       *)
(*                                                                         *)
(* The worker indexes its files under fresh names.  The controller copies  *)
(* and publishes them one by one, records the digest of what it has        *)
(* published, and acknowledges that digest; the worker then removes its    *)
(* copies.  Either side may crash and start again between any two steps,   *)
(* writes and calls may fail, and an acknowledgement may be handled after  *)
(* the controller has given up on it.                                      *)
(*                                                                         *)
(* A digest is modelled as the set of files it was computed from.          *)
(***************************************************************************)
EXTENDS Naturals

CONSTANTS
    Files,          \* the files of the job
    Attempts,       \* how often each side tries by itself (3 in the code)
    Indexings,      \* bound: how often the worker may index
    Crashes,        \* bound: crashes and stops of the two services together
    Recoveries,     \* bound: nix_job_recover calls
    SaveFaults,     \* whether database writes may fail
    Late            \* whether a request may outlive its caller

ASSUME HandoffAssumption ==
    /\ Attempts \in Nat \ {0} /\ Indexings \in Nat \ {0}
    /\ Crashes \in Nat /\ Recoveries \in Nat
    /\ SaveFaults \in BOOLEAN /\ Late \in BOOLEAN

VARIABLES
    wj, wd,         \* the worker's job: in memory, and its row
    rows,           \* worker_files: the indexing whose files are listed, or 0
    tree,           \* whether the worker still has the files themselves
    indexed,        \* indexings so far
    wup,            \* whether the worker runs
    indexer,        \* whether the collecting goroutine runs
    stream,         \* w.streams: a file is being sent
    handler,        \* the handoff handler: its step and whose request it serves
    ct, cd,         \* the controller's task: in memory, and its row
    cup,            \* whether the controller runs
    step,           \* the collector goroutine, collectNixEvidence
    todo, manifest, \* its files to copy, and the ones published
    ack, late,      \* the digest in its request, and in one it gave up on
    reply,          \* the answer to the request
    retry,          \* a nix_job_recover call
    published,      \* evidence: files stored and indexed by the controller
    crashes, recoveries

worker == <<wj, wd, rows, tree, indexed, wup, indexer, stream, handler>>
control == <<ct, cd, cup, step, todo, manifest, retry, published>>
wire == <<ack, late, reply>>
bounds == <<crashes, recoveries>>
vars == <<worker, control, wire, bounds>>

IDs(g) == IF g = 0 THEN {} ELSE {g} \X Files

NoDigest == {<<0, 0>>}     \* "": not computed from any files

States == {"pending", "collecting", "transferring", "complete", "blocked"}

\* gen is the indexing behind Files and ManifestDigest, 0 before there is one.
Jobs == [ev : States, attempts : 0 .. Attempts, gen : 0 .. Indexings,
         handoff : BOOLEAN, released : BOOLEAN]

Digests == {NoDigest} \cup SUBSET ((1 .. Indexings) \X Files)

Tasks == [ev : States, attempts : 0 .. Attempts, digest : Digests, handoff : BOOLEAN]

TypeOK ==
    /\ wj \in Jobs /\ wd \in Jobs /\ rows \in 0 .. Indexings
    /\ {tree, wup, indexer, stream, cup} \subseteq BOOLEAN
    /\ indexed \in 0 .. Indexings
    /\ handler \in [at : {"none", "remove", "finish"}, current : BOOLEAN]
    /\ ct \in Tasks /\ cd \in Tasks
    /\ step \in {"none", "evidence", "poll", "files", "copy", "save", "handoff", "done"}
    /\ {ack, late, manifest} \subseteq Digests
    /\ todo \in SUBSET ((1 .. Indexings) \X Files)
    /\ reply \in {"none", "ok", "refused", "error"}
    /\ retry \in {"none", "answered"}
    /\ published \in SUBSET ((1 .. Indexings) \X Files)
    /\ crashes \in 0 .. Crashes /\ recoveries \in 0 .. Recoveries

NewJob == [ev |-> "pending", attempts |-> 0, gen |-> 0, handoff |-> FALSE, released |-> FALSE]
NewTask == [ev |-> "pending", attempts |-> 0, digest |-> NoDigest, handoff |-> FALSE]
NoHandler == [at |-> "none", current |-> FALSE]

Init ==
    /\ wj = NewJob /\ wd = NewJob /\ rows = 0 /\ tree = TRUE /\ indexed = 0
    /\ wup = TRUE /\ indexer = FALSE /\ stream = FALSE /\ handler = NoHandler
    /\ ct = NewTask /\ cd = NewTask /\ cup = TRUE
    /\ step = "none" /\ todo = {} /\ manifest = NoDigest
    /\ ack = NoDigest /\ late = NoDigest /\ reply = "none" /\ retry = "none"
    /\ published = {} /\ crashes = 0 /\ recoveries = 0

Outcomes == IF SaveFaults THEN BOOLEAN ELSE {TRUE}

-----------------------------------------------------------------------------
(* The worker.                                                             *)

\* Worker.save of j: the row, and the files it has not listed yet.
WSave(j, ok) ==
    /\ wj' = j
    /\ wd' = IF ok THEN j ELSE wd
    /\ rows' = IF ok /\ ~j.handoff THEN j.gen ELSE rows

\* What collectLocked() makes of job j: nothing when there is nothing to collect,
\* otherwise an indexing begins, or the one that exists is offered.
Collected(j) ==
    IF j.ev # "pending" \/ indexer THEN {[job |-> j, saved |-> FALSE, runs |-> indexer]}
    ELSE IF j.gen # 0
    THEN {[job |-> [j EXCEPT !.ev = "transferring"], saved |-> ok, runs |-> FALSE] : ok \in Outcomes}
    ELSE IF indexed = Indexings THEN {}
    ELSE {[job |-> [j EXCEPT !.ev = IF ok THEN "collecting" ELSE "blocked", !.attempts = @ + 1],
           saved |-> ok, runs |-> ok] : ok \in Outcomes}

Leaves(c) == WSave(c.job, c.saved) /\ indexer' = c.runs

\* Call("evidence"): what there is to collect is collected, and the job saved.
Evidence(j, ok) == \E c \in Collected(j) : Leaves([c EXCEPT !.saved = @ \/ ok])

\* maintain()
Maintain ==
    /\ wup /\ wj.ev = "pending" /\ ~indexer
    /\ \E c \in Collected(wj) : Leaves(c)
    /\ UNCHANGED <<tree, indexed, wup, stream, handler, control, wire, bounds>>

\* The collecting goroutine ends: everything is indexed, or it tries again later.
Indexed ==
    /\ wup /\ indexer
    /\ indexer' = FALSE
    /\ LET failed(j) == {[j EXCEPT !.ev = "blocked"]} \cup
                        (IF j.attempts < Attempts THEN {[j EXCEPT !.ev = "pending"]} ELSE {})
       IN  \/ /\ indexed' = indexed + 1
              /\ LET j == [wj EXCEPT !.ev = "transferring", !.gen = indexed + 1] IN
                  \/ WSave(j, TRUE)
                  \/ SaveFaults /\ \E f \in failed(j), ok \in BOOLEAN : WSave(f, ok)
           \/ /\ UNCHANGED indexed
              /\ \E f \in failed(wj), ok \in Outcomes : WSave(f, ok)
    /\ UNCHANGED <<tree, wup, stream, handler, control, wire, bounds>>

StreamEnds ==
    /\ stream /\ stream' = FALSE
    /\ UNCHANGED <<wj, wd, rows, tree, indexed, wup, indexer, handler, control, wire, bounds>>

\* mutant: the digest is not compared
AcceptsAny(d) == ~stream /\ wj.ev \in {"transferring", "complete"}

\* handoff(): accepted for the digest of the files that the worker has, or for
\* the digest that was accepted before.  It waits for the indexer (job.io).
Accepts(d) ==
    /\ ~stream
    /\ wj.ev \in {"transferring", "complete"}
    /\ d = IDs(wj.gen)

Handoff(current) ==
    LET d == IF current THEN ack ELSE late IN
    /\ wup /\ handler.at = "none" /\ ~indexer
    /\ d # NoDigest /\ (current => reply = "none")
    /\ \E ok \in Outcomes :
        IF Accepts(d) /\ (wj.handoff \/ ok)
        THEN /\ IF wj.handoff THEN UNCHANGED <<wj, wd, rows>> ELSE WSave([wj EXCEPT !.handoff = TRUE], TRUE)
             /\ handler' = [at |-> "remove", current |-> current]
             /\ UNCHANGED reply
        ELSE /\ reply' = IF ~current THEN reply ELSE IF Accepts(d) THEN "error" ELSE "refused"
             /\ UNCHANGED <<wj, wd, rows, handler>>
    /\ late' = IF current THEN late ELSE NoDigest
    /\ UNCHANGED <<tree, indexed, wup, indexer, stream, control, ack, bounds>>

Answer(r) ==
    /\ handler' = NoHandler
    /\ reply' = IF handler.current THEN r ELSE reply

\* RemoveAll, without the mutex; it may fail before or after files are gone.
HandoffRemove ==
    /\ wup /\ handler.at = "remove"
    /\ \/ tree' = FALSE /\ handler' = [handler EXCEPT !.at = "finish"] /\ UNCHANGED reply
       \/ tree' \in {tree, FALSE} /\ Answer("error")
    /\ UNCHANGED <<wj, wd, rows, indexed, wup, indexer, stream, control, ack, late, bounds>>

\* The list is deleted, then the job saved.
HandoffFinish ==
    /\ wup /\ handler.at = "finish"
    /\ \/ \E ok \in Outcomes :
            /\ rows' = 0
            /\ wj' = [wj EXCEPT !.released = TRUE, !.ev = "complete"]
            /\ wd' = IF ok THEN wj' ELSE wd
            /\ Answer(IF ok THEN "ok" ELSE "error")
       \/ SaveFaults /\ Answer("error") /\ UNCHANGED <<wj, wd, rows>>
    /\ UNCHANGED <<tree, indexed, wup, indexer, stream, control, ack, late, bounds>>

\* expireCompleted() drops a released job from memory; the next call reads its row.
Forget ==
    /\ wup /\ wj.released /\ handler.at = "none"
    /\ wj' = wd
    /\ UNCHANGED <<wd, rows, tree, indexed, wup, indexer, stream, handler, control, wire, bounds>>

\* Requests to the worker end with it.
WorkerCrash ==
    /\ wup /\ crashes < Crashes
    /\ crashes' = crashes + 1
    /\ wup' = FALSE /\ indexer' = FALSE /\ stream' = FALSE /\ handler' = NoHandler
    /\ late' = NoDigest
    /\ reply' = IF ack # NoDigest /\ reply = "none" THEN "error" ELSE reply
    /\ UNCHANGED <<wj, wd, rows, tree, indexed, control, ack, recoveries>>

\* newWorker(): an interrupted indexing is tried again, unless it was the last one.
WorkerRestart ==
    /\ ~wup /\ wup' = TRUE
    /\ wj' = IF wd.ev # "collecting" THEN wd
             ELSE [wd EXCEPT !.ev = IF wd.attempts < Attempts THEN "pending" ELSE "blocked"]
    /\ wd' = wj'
    /\ UNCHANGED <<rows, tree, indexed, indexer, stream, handler, control, wire, bounds>>

-----------------------------------------------------------------------------
(* The controller.                                                         *)

CSave(t) == ct' = t /\ cd' = t

\* mutant: attempts are not counted
BeginUncounted ==
    /\ cup /\ step = "none" /\ ct.ev \notin {"blocked", "complete"}
    /\ CSave([ct EXCEPT !.ev = "collecting"])
    /\ step' = IF ct.handoff THEN "done" ELSE "evidence"
    /\ manifest' = NoDigest /\ todo' = {}
    /\ UNCHANGED <<worker, cup, retry, published, wire, bounds>>

\* nixLifecycleLocked(): the collector starts.
Begin ==
    /\ cup /\ step = "none" /\ ct.ev \notin {"blocked", "complete"}
    /\ CSave([ct EXCEPT !.ev = "collecting", !.attempts = @ + 1])
    /\ step' = IF ct.handoff THEN "done" ELSE "evidence"
    /\ manifest' = NoDigest /\ todo' = {}
    /\ UNCHANGED <<worker, cup, retry, published, wire, bounds>>

\* The collector ends with an error.
Fail(t, transient) ==
    /\ CSave([t EXCEPT !.ev = IF transient /\ t.attempts < Attempts THEN "pending" ELSE "blocked"])
    /\ step' = "none" /\ manifest' = NoDigest /\ todo' = {}

\* The caller of a handoff goes away; the request may still reach the worker.
Abandon ==
    /\ ack' = NoDigest /\ reply' = "none"
    /\ late' = IF Late /\ ack # NoDigest /\ reply = "none" /\ ~handler.current THEN ack ELSE late
    /\ handler' = [handler EXCEPT !.current = FALSE]

\* A call fails or the budget of the attempt is over.
GiveUp ==
    /\ cup /\ step # "none"
    /\ \E transient \in BOOLEAN : Fail(ct, transient)
    /\ Abandon
    /\ UNCHANGED <<wj, wd, rows, tree, indexed, wup, indexer, stream, cup, retry, published, bounds>>

EvidenceCall ==
    /\ cup /\ step = "evidence" /\ wup
    /\ \E ok \in Outcomes :
        /\ Evidence(wj, ok)
        /\ \/ ok /\ step' = "poll" /\ UNCHANGED <<ct, cd, todo, manifest>>
           \/ ~ok /\ \E transient \in BOOLEAN : Fail(ct, transient)
    /\ UNCHANGED <<tree, indexed, wup, stream, handler, cup, retry, published, wire, bounds>>

\* Backend.Call polls the status until the evidence is ready or blocked.
Poll ==
    /\ cup /\ step = "poll" /\ wup
    /\ \/ wj.ev = "blocked" /\ Fail(ct, FALSE)
       \/ /\ wj.ev \in {"transferring", "complete"}
          /\ step' = IF wj.handoff THEN "save" ELSE "files"
          /\ UNCHANGED <<ct, cd, todo, manifest>>
    /\ UNCHANGED <<worker, cup, retry, published, wire, bounds>>

ListFiles ==
    /\ cup /\ step = "files" /\ wup
    /\ todo' = IDs(rows) /\ manifest' = {}
    /\ step' = "copy"
    /\ UNCHANGED <<worker, ct, cd, cup, retry, published, wire, bounds>>

\* A file is copied, verified and published; one that is there is used again.
Copy(f) ==
    /\ cup /\ step = "copy" /\ f \in todo
    /\ \/ f \in published /\ UNCHANGED <<published, stream>>
       \/ /\ f \notin published /\ wup /\ tree /\ f \in IDs(rows)
          /\ published' = published \cup {f} /\ stream' = TRUE
    /\ todo' = todo \ {f} /\ manifest' = manifest \cup {f}
    /\ UNCHANGED <<wj, wd, rows, tree, indexed, wup, indexer, handler, ct, cd, cup, step, retry, wire, bounds>>

\* transferNixEvidence(): the digest is recorded before it is acknowledged.
RecordDigest ==
    /\ cup /\ (step = "save" \/ (step = "copy" /\ todo = {}))
    /\ LET t == [ct EXCEPT !.digest = IF manifest = NoDigest THEN @ ELSE manifest, !.ev = "transferring"] IN
        \/ /\ CSave(t) /\ step' = "handoff" /\ ack' = t.digest
           /\ UNCHANGED <<todo, manifest>>
        \/ SaveFaults /\ Fail(t, FALSE) /\ UNCHANGED ack
    /\ UNCHANGED <<worker, cup, retry, published, late, reply, bounds>>

\* mutant: a refusal is taken for an acknowledgement repeated
AnsweredAnyway ==
    /\ cup /\ step = "handoff" /\ reply # "none"
    /\ ack' = NoDigest /\ reply' = "none"
    /\ CSave([ct EXCEPT !.handoff = TRUE]) /\ step' = "done"
    /\ UNCHANGED <<worker, cup, todo, manifest, retry, published, late, bounds>>

HandoffAnswered ==
    /\ cup /\ step = "handoff" /\ reply # "none"
    /\ ack' = NoDigest /\ reply' = "none"
    /\ LET t == [ct EXCEPT !.handoff = TRUE] IN
        \/ reply = "ok" /\ CSave(t) /\ step' = "done" /\ UNCHANGED <<todo, manifest>>
        \/ reply = "ok" /\ SaveFaults /\ Fail(t, FALSE)
        \/ reply # "ok" /\ \E transient \in BOOLEAN : (reply = "refused" => ~transient) /\ Fail(ct, transient)
    /\ UNCHANGED <<worker, cup, retry, published, late, bounds>>

\* The input of the job is removed and the evidence is complete.
Done ==
    /\ cup /\ step = "done"
    /\ CSave([ct EXCEPT !.ev = "complete"]) /\ step' = "none"
    /\ UNCHANGED <<worker, cup, todo, manifest, retry, published, wire, bounds>>

\* nix_job_recover of blocked evidence: "evidence_retry" to the worker ...
Recover ==
    /\ cup /\ wup /\ ct.ev = "blocked" /\ retry = "none"
    /\ recoveries < Recoveries /\ recoveries' = recoveries + 1
    /\ \E ok \in Outcomes :
        /\ Evidence(IF wj.ev = "blocked" THEN [wj EXCEPT !.ev = "pending", !.attempts = 0] ELSE wj, ok)
        /\ retry' \in (IF ok THEN {"none", "answered"} ELSE {"none"})
    /\ UNCHANGED <<tree, indexed, wup, stream, handler, ct, cd, cup, step, todo, manifest, published, wire, crashes>>

\* ... and a fresh set of attempts when it has answered.
RecoverApply ==
    /\ cup /\ retry = "answered" /\ retry' = "none"
    /\ CSave([ct EXCEPT !.ev = "pending", !.attempts = 0])
    /\ UNCHANGED <<worker, cup, step, todo, manifest, published, wire, bounds>>

Down ==
    /\ cup /\ crashes < Crashes /\ crashes' = crashes + 1
    /\ cup' = FALSE
    /\ step' = "none" /\ todo' = {} /\ manifest' = NoDigest /\ retry' = "none"
    /\ Abandon
    /\ UNCHANGED <<wj, wd, rows, tree, indexed, wup, indexer, stream, ct, published, recoveries>>

\* A stop of the service takes the attempt under way back.
Close == Down /\ cd' = IF step = "none" THEN cd ELSE [ct EXCEPT !.ev = "pending", !.attempts = @ - 1]

Crash == Down /\ UNCHANGED cd

\* New(): an interrupted last attempt is not repeated.
Restart ==
    /\ ~cup /\ cup' = TRUE
    /\ ct' = IF cd.ev \in {"collecting", "transferring"} /\ cd.attempts >= Attempts
             THEN [cd EXCEPT !.ev = "blocked"] ELSE cd
    /\ UNCHANGED <<worker, cd, step, todo, manifest, retry, published, wire, bounds>>

Next ==
    \/ Maintain \/ Indexed \/ StreamEnds \/ Handoff(TRUE) \/ Handoff(FALSE)
    \/ HandoffRemove \/ HandoffFinish \/ Forget \/ WorkerCrash \/ WorkerRestart
    \/ Begin \/ GiveUp \/ EvidenceCall \/ Poll \/ ListFiles
    \/ \E f \in (1 .. Indexings) \X Files : Copy(f)
    \/ RecordDigest \/ HandoffAnswered \/ Done
    \/ Recover \/ RecoverApply \/ Close \/ Crash \/ Restart

Spec == Init /\ [][Next]_vars

\* The scheduler starts collectors, evidence_timeout ends every attempt, and the
\* service manager starts the controller again.  Nothing is assumed of the worker.
Fairness == WF_vars(Begin) /\ WF_vars(GiveUp) /\ WF_vars(Restart)

FairSpec == Spec /\ Fairness

-----------------------------------------------------------------------------
(* Properties.                                                             *)

\* "Worker copies and GC roots survive until durable controller publication"
\* (contract.md): when the worker's files or their list may be gone, every one of
\* them is published, whatever crashed, was repeated or came late.
NothingLost == (wd.handoff \/ ~tree \/ (rows = 0 /\ wd.gen # 0)) => IDs(wd.gen) \subseteq published

Inv == TypeOK /\ NothingLost

\* Complete evidence is handed over: the worker has released its copies and the
\* controller has acknowledged what it published.
CompleteIsHandedOver ==
    cd.ev = "complete" => cd.handoff /\ wd.released /\ ~tree /\ IDs(wd.gen) \subseteq published

\* "Every retry finishes both filesystem and index cleanup" (handoff.go): once an
\* acknowledgement is accepted, the controller's row holds the digest that every
\* repetition of it needs.  This does not hold of the code when a handoff whose
\* answer was lost is handled between two reads of the next attempt: a known
\* deviation, which no run checks.
AckIsRepeatable == wd.handoff => cd.digest = IDs(wd.gen)

\* Evidence settles: the attempts of the controller end in complete or in blocked
\* evidence, even when the worker is down or never answers.
EvidenceSettles == []<>(ct.ev \in {"complete", "blocked"})

-----------------------------------------------------------------------------
(* The inductive invariant behind the safety properties.                   *)

\* An attempt is left for whoever waits for one.
AttemptsLeft ==
    /\ \A j \in {wj, wd} : j.ev = "pending" /\ j.gen = 0 => j.attempts < Attempts
    /\ \A t \in {ct, cd} : t.ev = "pending" => t.attempts < Attempts
    /\ cup /\ step = "none" /\ ct.ev \notin {"blocked", "complete"} => ct.attempts < Attempts
    /\ step # "none" => ct.attempts > 0
    /\ indexer => indexed < Indexings

\* The worker indexes only while it has no index, and offers only what is indexed.
WorkerInStep ==
    /\ indexer => wup /\ wj.gen = 0 /\ wj.ev = "collecting"
    /\ \A j \in {wj, wd} : j.ev \in {"transferring", "complete"} \/ j.handoff => j.gen # 0
    /\ ~wd.handoff => rows = wd.gen /\ tree
    /\ \A j \in {wj, wd} : j.released => j.handoff /\ ~tree
    /\ wup => /\ wj.handoff <=> wd.handoff
              /\ wd.handoff => wj.gen = wd.gen
              /\ wd.released => wj.released
    /\ handler.at # "none" => wup /\ wj.handoff
    /\ handler.at = "finish" => ~tree

\* Whatever is acknowledged, or may be, is published.
AcknowledgedIsPublished ==
    /\ \A d \in {ack, late, manifest, ct.digest, cd.digest} : d = NoDigest \/ d \subseteq published
    /\ wd.handoff => IDs(wd.gen) \subseteq published

\* The controller calls the evidence complete only after the worker has released it.
ControlInStep ==
    /\ reply = "ok" \/ ct.handoff \/ cd.handoff => wd.released
    /\ step = "done" => ct.handoff
    /\ \A t \in {ct, cd} : t.ev = "complete" => t.handoff
    /\ ~cup => step = "none" /\ retry = "none"
    /\ retry = "answered" => ct.ev = "blocked" /\ step = "none"
    /\ step # "none" => ct.ev \in {"collecting", "transferring"}
    /\ step = "copy" => manifest \subseteq published

IInv ==
    /\ TypeOK
    /\ AttemptsLeft /\ WorkerInStep /\ AcknowledgedIsPublished /\ ControlInStep

=============================================================================
