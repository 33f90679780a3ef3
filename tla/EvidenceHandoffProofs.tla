------------------------ MODULE EvidenceHandoffProofs ------------------------
(***************************************************************************)
(* Proofs about EvidenceHandoff: no evidence is lost and complete evidence *)
(* is handed over, for every set of files, any number of indexings,        *)
(* attempts, crashes and recoveries, with and without failing writes and   *)
(* late requests.                                                          *)
(*                                                                         *)
(* The argument: whatever the controller may ever acknowledge, in a        *)
(* request that is waiting, in one it gave up on, in memory or in its row, *)
(* names published files only (AcknowledgedIsPublished).  The worker       *)
(* accepts nothing but the digest of the files it has and never indexes    *)
(* again after that (WorkerInStep), so that accepting publishes nothing    *)
(* new.  The controller calls the evidence complete only after an answer   *)
(* that the worker gives when its row says released (ControlInStep).       *)
(***************************************************************************)
EXTENDS EvidenceHandoff, TLAPS

Names == SUBSET ((1 .. Indexings) \X Files)
HandlerStates == [at : {"none", "remove", "finish"}, current : BOOLEAN]
Steps == {"none", "evidence", "poll", "files", "copy", "save", "handoff", "done"}

-----------------------------------------------------------------------------
(* Records and digests.                                                    *)

\* "" and the digest of no files are digests; so is that of any indexing.
LEMMA DigestValues ==
  /\ NoDigest \in Digests /\ {} \in Digests
  /\ \A g \in 0 .. Indexings : IDs(g) \in Names
  <1>1. NoDigest \in Digests /\ {} \in Digests
    BY DEF Digests
  <1>2. \A g \in 0 .. Indexings : IDs(g) \in Names
    BY HandoffAssumption DEF IDs, Names
  <1>3. QED BY <1>1, <1>2

\* The fields of jobs and tasks.
LEMMA Fields ==
  /\ \A j \in Jobs : /\ j.ev \in States /\ j.attempts \in 0 .. Attempts /\ j.gen \in 0 .. Indexings
                     /\ j.handoff \in BOOLEAN /\ j.released \in BOOLEAN
  /\ \A t \in Tasks : /\ t.ev \in States /\ t.attempts \in 0 .. Attempts /\ t.digest \in Digests
                      /\ t.handoff \in BOOLEAN
  BY DEF Jobs, Tasks

\* The states a handler passes through.
LEMMA HandlerValues ==
  /\ NoHandler \in HandlerStates
  /\ \A b \in BOOLEAN : [at |-> "remove", current |-> b] \in HandlerStates
  /\ \A h \in HandlerStates : [h EXCEPT !.at = "finish"] \in HandlerStates
  /\ \A h \in HandlerStates : [h EXCEPT !.current = FALSE] \in HandlerStates
  BY DEF HandlerStates, NoHandler

\* A job or a task in another evidence state keeps its other fields.
LEMMA InState ==
  ASSUME NEW e \in States
  PROVE  /\ \A j \in Jobs : LET k == [j EXCEPT !.ev = e]
                            IN  /\ k \in Jobs /\ k.ev = e /\ k.attempts = j.attempts /\ k.gen = j.gen
                                /\ k.handoff = j.handoff /\ k.released = j.released
         /\ \A t \in Tasks : LET u == [t EXCEPT !.ev = e]
                             IN  /\ u \in Tasks /\ u.ev = e /\ u.attempts = t.attempts
                                 /\ u.digest = t.digest /\ u.handoff = t.handoff
  BY DEF Jobs, Tasks

-----------------------------------------------------------------------------
(* The two halves of the inductive invariant.                              *)

WorkerSound ==
  /\ wj \in Jobs /\ wd \in Jobs /\ rows \in 0 .. Indexings /\ indexed \in 0 .. Indexings
  /\ tree \in BOOLEAN /\ wup \in BOOLEAN /\ indexer \in BOOLEAN /\ stream \in BOOLEAN
  /\ handler \in HandlerStates
  /\ \A j \in {wj, wd} : j.ev = "pending" /\ j.gen = 0 => j.attempts < Attempts
  /\ indexer => indexed < Indexings
  /\ WorkerInStep

ControlTyped ==
  /\ ct \in Tasks /\ cd \in Tasks /\ cup \in BOOLEAN
  /\ step \in Steps
  /\ ack \in Digests /\ late \in Digests /\ manifest \in Digests
  /\ todo \in Names /\ published \in Names
  /\ reply \in {"none", "ok", "refused", "error"}
  /\ retry \in {"none", "answered"}
  /\ crashes \in 0 .. Crashes /\ recoveries \in 0 .. Recoveries

ControlAttempts ==
  /\ \A t \in {ct, cd} : t.ev = "pending" => t.attempts < Attempts
  /\ cup /\ step = "none" /\ ct.ev \notin {"blocked", "complete"} => ct.attempts < Attempts
  /\ step # "none" => ct.attempts > 0

ControlSound == ControlTyped /\ ControlAttempts /\ AcknowledgedIsPublished /\ ControlInStep

\* The invariant is that of the worker and that of the controller.
LEMMA Halves == (IInv <=> WorkerSound /\ ControlSound) /\ (IInv' <=> WorkerSound' /\ ControlSound')
  <1>1. TypeOK /\ AttemptsLeft /\ WorkerInStep <=> WorkerSound /\ ControlTyped /\ ControlAttempts
    BY DEF TypeOK, AttemptsLeft, WorkerSound, ControlTyped, ControlAttempts, HandlerStates, Names, Steps
  <1>2. (TypeOK /\ AttemptsLeft /\ WorkerInStep)' <=> (WorkerSound /\ ControlTyped /\ ControlAttempts)'
    BY DEF TypeOK, AttemptsLeft, WorkerSound, ControlTyped, ControlAttempts, HandlerStates, Names, Steps
  <1>3. QED BY <1>1, <1>2 DEF IInv, ControlSound

\* A step that leaves the worker alone keeps its half ...
LEMMA WorkerFrame == ASSUME WorkerSound, UNCHANGED worker PROVE WorkerSound'
  BY DEF WorkerSound, WorkerInStep, worker

\* ... and so does one that ends a stream or whose request nobody waits for.
LEMMA WorkerFrameButOne ==
  ASSUME WorkerSound, UNCHANGED <<wj, wd, rows, tree, indexed, wup, indexer>>,
         stream' \in BOOLEAN, handler' = handler \/ handler' = [handler EXCEPT !.current = FALSE]
  PROVE  WorkerSound'
  <1>1. handler' \in HandlerStates /\ handler'.at = handler.at
    BY HandlerValues DEF WorkerSound, HandlerStates
  <1>2. QED BY <1>1 DEF WorkerSound, WorkerInStep

\* A step of the worker keeps the half of the controller, when what it accepts
\* is published and what it answers is true.
LEMMA ControlFrame ==
  ASSUME ControlSound, UNCHANGED <<control, ack, recoveries>>, crashes' \in 0 .. Crashes,
         late' \in {late, NoDigest}, reply' \in {reply, "ok", "refused", "error"},
         reply' = "ok" => reply = "ok" \/ wd'.released,
         wd.released => wd'.released, wd'.handoff => IDs(wd'.gen) \subseteq published
  PROVE  ControlSound'
  <1>1. ControlTyped'
    BY DigestValues DEF ControlSound, ControlTyped, control
  <1>2. ControlAttempts'
    BY DEF ControlSound, ControlAttempts, control
  <1>3. AcknowledgedIsPublished'
    BY DEF ControlSound, AcknowledgedIsPublished, control
  <1>4. ControlInStep'
    BY DEF ControlSound, ControlInStep, control
  <1>5. QED BY <1>1, <1>2, <1>3, <1>4 DEF ControlSound

-----------------------------------------------------------------------------
(* The worker.                                                             *)

\* What collecting may make of job j: k.
Collects(j, k) ==
  /\ k \in Jobs /\ k.gen = j.gen /\ k.handoff = j.handoff /\ k.released = j.released
  /\ indexer' \in BOOLEAN
  /\ \/ k = j /\ indexer' = indexer
     \/ /\ j.ev = "pending" /\ ~indexer /\ j.gen # 0
        /\ k.ev = "transferring" /\ ~indexer'
     \/ /\ j.ev = "pending" /\ ~indexer /\ j.gen = 0 /\ indexed # Indexings
        /\ k.ev \in {"collecting", "blocked"} /\ (indexer' => k.ev = "collecting")

\* collectLocked() does one of these three things.
LEMMA CollectedIs ==
  ASSUME NEW j \in Jobs, indexer \in BOOLEAN,
         j.ev = "pending" /\ j.gen = 0 => j.attempts < Attempts,
         NEW c \in Collected(j), NEW s \in BOOLEAN, indexer' = c.runs
  PROVE  Collects(j, c.job)
  <1>1. CASE j.ev # "pending" \/ indexer
    <2>1. c = [job |-> j, saved |-> FALSE, runs |-> indexer]
      BY <1>1 DEF Collected
    <2>2. c.job = j /\ indexer' = indexer
      BY <2>1
    <2>3. QED BY <2>2 DEF Collects
  <1>2. CASE ~(j.ev # "pending" \/ indexer) /\ j.gen # 0
    <2>1. PICK ok \in Outcomes : c = [job |-> [j EXCEPT !.ev = "transferring"], saved |-> ok, runs |-> FALSE]
      BY <1>2 DEF Collected
    <2>2. c.job = [j EXCEPT !.ev = "transferring"] /\ indexer' = FALSE
      BY <2>1
    <2>3. QED BY <1>2, <2>2 DEF Collects, Jobs, States
  <1>3. CASE ~(j.ev # "pending" \/ indexer) /\ j.gen = 0
    <2>1. indexed # Indexings
      BY <1>3 DEF Collected
    <2>2. PICK ok \in Outcomes :
            c = [job |-> [j EXCEPT !.ev = IF ok THEN "collecting" ELSE "blocked", !.attempts = @ + 1],
                 saved |-> ok, runs |-> ok]
      BY <1>3, <2>1 DEF Collected
    <2>3. ok \in BOOLEAN
      BY DEF Outcomes
    <2>4. /\ c.job = [j EXCEPT !.ev = IF ok THEN "collecting" ELSE "blocked", !.attempts = @ + 1]
          /\ indexer' = ok
      BY <2>2
    <2>5. j.attempts + 1 \in 0 .. Attempts
      BY <1>3, Fields, HandoffAssumption
    <2>6. /\ c.job \in Jobs /\ c.job.gen = j.gen /\ c.job.handoff = j.handoff /\ c.job.released = j.released
          /\ c.job.ev = IF ok THEN "collecting" ELSE "blocked"
      BY <2>4, <2>5 DEF Jobs, States
    <2>7. QED BY <1>3, <2>1, <2>3, <2>4, <2>6 DEF Collects
  <1>4. QED BY <1>1, <1>2, <1>3

\* Call("evidence") and maintain(): collecting, and the job saved or not.
LEMMA EvidenceIs ==
  ASSUME NEW j \in Jobs, indexer \in BOOLEAN,
         j.ev = "pending" /\ j.gen = 0 => j.attempts < Attempts,
         NEW ok \in BOOLEAN, Evidence(j, ok)
  PROVE  \E k \in Jobs, s \in BOOLEAN : WSave(k, s) /\ Collects(j, k)
  <1>1. PICK c \in Collected(j) : Leaves([c EXCEPT !.saved = @ \/ ok])
    BY DEF Evidence
  <1>2. PICK b, s, r : c = [job |-> b, saved |-> s, runs |-> r] /\ s \in BOOLEAN
    BY DEF Collected, Outcomes
  <1>3. /\ [c EXCEPT !.saved = @ \/ ok].job = c.job /\ [c EXCEPT !.saved = @ \/ ok].runs = c.runs
        /\ [c EXCEPT !.saved = @ \/ ok].saved \in BOOLEAN
    BY <1>2
  <1>4. WSave(c.job, [c EXCEPT !.saved = @ \/ ok].saved) /\ indexer' = c.runs
    BY <1>1, <1>3 DEF Leaves
  <1>5. Collects(j, c.job)
    BY <1>4, CollectedIs
  <1>6. QED BY <1>3, <1>4, <1>5 DEF Collects

\* What an attempt to collect leaves is one saved record.
LEMMA LeavesIs ==
  ASSUME NEW j \in Jobs, indexer \in BOOLEAN,
         j.ev = "pending" /\ j.gen = 0 => j.attempts < Attempts,
         NEW c \in Collected(j), Leaves(c)
  PROVE  \E k \in Jobs, s \in BOOLEAN : WSave(k, s) /\ Collects(j, k)
  <1>1. PICK b, s, r : c = [job |-> b, saved |-> s, runs |-> r] /\ s \in BOOLEAN
    BY DEF Collected, Outcomes
  <1>2. WSave(c.job, c.saved) /\ c.saved \in BOOLEAN /\ indexer' = c.runs
    BY <1>1 DEF Leaves
  <1>3. Collects(j, c.job)
    BY <1>2, CollectedIs
  <1>4. QED BY <1>2, <1>3 DEF Collects

\* Collecting leaves the worker in step, and does not touch what was handed over.
LEMMA CollectingKeeps ==
  ASSUME WorkerSound, wup,
         NEW j \in Jobs, j.gen = wj.gen, j.handoff = wj.handoff, j.released = wj.released,
         j = wj \/ (wj.ev = "blocked" /\ j.ev = "pending" /\ j.attempts = 0),
         NEW k \in Jobs, NEW s \in BOOLEAN, WSave(k, s), Collects(j, k),
         UNCHANGED <<tree, indexed, wup, stream, handler>>
  PROVE  /\ WorkerSound'
         /\ wd'.handoff = wd.handoff /\ (wd.handoff => wd'.gen = wd.gen) /\ (wd.released => wd'.released)
  <1>1. wj' = k /\ wd' = (IF s THEN k ELSE wd) /\ rows' = IF s /\ ~k.handoff THEN k.gen ELSE rows
    BY DEF WSave
  <1>2. wj' \in Jobs /\ wd' \in Jobs /\ rows' \in 0 .. Indexings /\ indexed' \in 0 .. Indexings
    BY <1>1, Fields DEF WorkerSound
  <1>3. k.ev # "pending" \/ (k = j /\ (j = wj \/ j.attempts = 0))
    BY DEF Collects
  <1>4. \A i \in {wj', wd'} : i.ev = "pending" /\ i.gen = 0 => i.attempts < Attempts
    BY <1>1, <1>3, HandoffAssumption DEF WorkerSound
  <1>5. indexer' \in BOOLEAN /\ (indexer' => indexed' < Indexings)
    BY HandoffAssumption DEF Collects, WorkerSound
  <1>6. indexer' => wup' /\ wj'.gen = 0 /\ wj'.ev = "collecting"
    BY <1>1 DEF Collects, WorkerInStep, WorkerSound
  <1>7. \A i \in {wj', wd'} : i.ev \in {"transferring", "complete"} \/ i.handoff => i.gen # 0
    BY <1>1 DEF Collects, WorkerInStep, WorkerSound
  <1>8. wd'.handoff = wd.handoff /\ (wd.handoff => wd'.gen = wd.gen) /\ (wd.released => wd'.released)
    BY <1>1, Fields DEF Collects, WorkerInStep, WorkerSound
  <1>9. ~wd'.handoff => rows' = wd'.gen /\ tree'
    BY <1>1, <1>8, Fields DEF Collects, WorkerInStep, WorkerSound
  <1>10. \A i \in {wj', wd'} : i.released => i.handoff /\ ~tree'
    BY <1>1 DEF Collects, WorkerInStep, WorkerSound
  <1>11. wup' => /\ wj'.handoff <=> wd'.handoff
                 /\ wd'.handoff => wj'.gen = wd'.gen
                 /\ wd'.released => wj'.released
    BY <1>1, Fields DEF Collects, WorkerInStep, WorkerSound
  <1>12. (handler'.at # "none" => wup' /\ wj'.handoff) /\ (handler'.at = "finish" => ~tree')
    BY <1>1 DEF Collects, WorkerInStep, WorkerSound
  <1>13. WorkerInStep'
    BY <1>6, <1>7, <1>9, <1>10, <1>11, <1>12 DEF WorkerInStep
  <1>14. QED BY <1>2, <1>4, <1>5, <1>8, <1>13 DEF WorkerSound

\* maintain: the worker goes on with a job that ended.
LEMMA MaintainKeeps == ASSUME IInv, Maintain PROVE IInv'
  <1>1. WorkerSound /\ ControlSound
    BY Halves
  <1>2. PICK k \in Jobs, s \in BOOLEAN : WSave(k, s) /\ Collects(wj, k)
    BY <1>1, LeavesIs DEF Maintain, WorkerSound
  <1>3. /\ WorkerSound'
        /\ wd'.handoff = wd.handoff /\ (wd.handoff => wd'.gen = wd.gen) /\ (wd.released => wd'.released)
    BY <1>1, <1>2, CollectingKeeps DEF Maintain, WorkerSound
  <1>4. ControlSound'
    BY <1>1, <1>3, ControlFrame
    DEF Maintain, wire, bounds, ControlSound, ControlTyped, AcknowledgedIsPublished
  <1>5. QED BY <1>3, <1>4, Halves

\* What the collecting goroutine makes of the job.
LEMMA IndexedIs ==
  ASSUME WorkerSound, Indexed
  PROVE  \E k \in Jobs, s \in BOOLEAN :
           /\ WSave(k, s) /\ indexed' \in 0 .. Indexings
           /\ ~k.handoff /\ ~k.released
           /\ k.ev \in {"transferring", "blocked", "pending"}
           /\ k.ev = "pending" => k.attempts < Attempts
           /\ k.ev = "transferring" => k.gen # 0 /\ s
  <1> DEFINE failed(j) == {[j EXCEPT !.ev = "blocked"]} \cup
                          (IF j.attempts < Attempts THEN {[j EXCEPT !.ev = "pending"]} ELSE {})
             full == [wj EXCEPT !.ev = "transferring", !.gen = indexed + 1]
             Fits(k) == /\ k \in Jobs /\ ~k.handoff /\ ~k.released
                        /\ k.ev \in {"transferring", "blocked", "pending"}
                        /\ k.ev = "pending" => k.attempts < Attempts
                        /\ k.ev = "transferring" => k.gen # 0
  <1>1. wj \in Jobs /\ indexed \in Nat /\ indexed < Indexings /\ wj.gen = 0 /\ ~wj.handoff /\ ~wj.released
    BY HandoffAssumption DEF WorkerSound, WorkerInStep, Indexed
  <1>2. indexed + 1 \in 0 .. Indexings /\ indexed + 1 # 0
    BY <1>1, HandoffAssumption
  <1>3. full \in Jobs /\ full.ev = "transferring" /\ full.gen # 0 /\ ~full.handoff /\ ~full.released
    BY <1>1, <1>2 DEF Jobs, States
  <1>4. ASSUME NEW j \in {wj, full}, NEW f \in failed(j) PROVE Fits(f) /\ f.ev # "transferring"
    <2>1. j \in Jobs /\ ~j.handoff /\ ~j.released
      BY <1>1, <1>3
    <2>2. f = [j EXCEPT !.ev = "blocked"] \/ (j.attempts < Attempts /\ f = [j EXCEPT !.ev = "pending"])
      OBVIOUS
    <2>3. CASE f = [j EXCEPT !.ev = "blocked"]
      BY ONLY <2>1, <2>3 DEF Jobs, States
    <2>4. CASE j.attempts < Attempts /\ f = [j EXCEPT !.ev = "pending"]
      BY ONLY <2>1, <2>4 DEF Jobs, States
    <2>5. QED BY <2>2, <2>3, <2>4
  <1> HIDE DEF full, failed
  <1>5. CASE /\ indexed' = indexed + 1
             /\ WSave(full, TRUE) \/ \E f \in failed(full), ok \in BOOLEAN : WSave(f, ok)
    <2>1. CASE WSave(full, TRUE)
      <3>1. Fits(full) BY <1>3
      <3>2. QED BY <1>2, <1>5, <2>1, <3>1
    <2>2. CASE \E f \in failed(full), ok \in BOOLEAN : WSave(f, ok)
      BY <1>2, <1>4, <1>5, <2>2
    <2>3. QED BY <1>5, <2>1, <2>2
  <1>6. CASE indexed' = indexed /\ \E f \in failed(wj), ok \in Outcomes : WSave(f, ok)
    <2>1. indexed' \in 0 .. Indexings
      BY <1>6 DEF WorkerSound
    <2>2. PICK f \in failed(wj), ok \in BOOLEAN : WSave(f, ok)
      BY <1>6 DEF Outcomes
    <2>3. QED BY <2>1, <2>2, <1>4
  <1>7. QED BY <1>5, <1>6 DEF Indexed, failed, full

\* The collecting goroutine ends: everything is indexed, or nothing.
LEMMA IndexedKeeps == ASSUME IInv, Indexed PROVE IInv'
  <1>1. WorkerSound /\ ControlSound
    BY Halves
  <1>2. PICK k \in Jobs, s \in BOOLEAN :
           /\ WSave(k, s) /\ indexed' \in 0 .. Indexings
           /\ ~k.handoff /\ ~k.released
           /\ k.ev \in {"transferring", "blocked", "pending"}
           /\ k.ev = "pending" => k.attempts < Attempts
           /\ k.ev = "transferring" => k.gen # 0 /\ s
    BY <1>1, IndexedIs
  <1>3. /\ wj' = k /\ wd' = (IF s THEN k ELSE wd) /\ rows' = IF s /\ ~k.handoff THEN k.gen ELSE rows
        /\ indexer' = FALSE /\ UNCHANGED <<tree, wup, stream, handler>>
    BY <1>2 DEF Indexed, WSave
  <1>4. wup /\ ~wj.handoff /\ ~wd.handoff /\ ~wd.released /\ handler.at = "none" /\ tree
    BY <1>1 DEF WorkerSound, WorkerInStep, Indexed
  <1>5. wj' \in Jobs /\ wd' \in Jobs /\ rows' \in 0 .. Indexings
    BY <1>1, <1>2, <1>3, Fields DEF WorkerSound
  <1>6. \A j \in {wj', wd'} : j.ev = "pending" /\ j.gen = 0 => j.attempts < Attempts
    BY <1>1, <1>2, <1>3 DEF WorkerSound
  <1>7. WorkerInStep'
    BY <1>1, <1>2, <1>3, <1>4 DEF WorkerSound, WorkerInStep
  <1>8. WorkerSound'
    BY <1>1, <1>2, <1>3, <1>5, <1>6, <1>7 DEF WorkerSound
  <1>9. ~wd'.handoff
    BY <1>2, <1>3, <1>4
  <1>10. ControlSound'
    BY <1>1, <1>4, <1>9, ControlFrame DEF Indexed, wire, bounds, ControlSound, ControlTyped
  <1>11. QED BY <1>8, <1>10, Halves

\* A stream of a file ends.
LEMMA StreamEndsKeeps == ASSUME IInv, StreamEnds PROVE IInv'
  <1>1. WorkerSound' 
    BY Halves, WorkerFrameButOne DEF StreamEnds
  <1>2. ControlSound'
    BY Halves, ControlFrame DEF StreamEnds, wire, bounds, ControlSound, ControlTyped, AcknowledgedIsPublished
  <1>3. QED BY <1>1, <1>2, Halves

\* The handoff that is accepted is of published files.
LEMMA HandoffKeeps == ASSUME IInv, NEW current \in BOOLEAN, Handoff(current) PROVE IInv'
  <1> DEFINE d == IF current THEN ack ELSE late
             k == [wj EXCEPT !.handoff = TRUE]
  <1>1. WorkerSound /\ ControlSound
    BY Halves
  <1>2. wup /\ handler.at = "none" /\ ~indexer /\ d # NoDigest
    BY DEF Handoff
  <1>3. d \subseteq published
    BY <1>1, <1>2 DEF ControlSound, AcknowledgedIsPublished
  <1>4. UNCHANGED <<tree, indexed, wup, indexer, stream, control, ack, crashes, recoveries>> /\ late' \in {late, NoDigest}
    BY DEF Handoff, bounds
  <1>5. k \in Jobs /\ k.ev = wj.ev /\ k.attempts = wj.attempts /\ k.gen = wj.gen /\ k.handoff /\ k.released = wj.released
    BY <1>1 DEF Jobs, WorkerSound
  <1>6. \/ UNCHANGED <<wj, wd, rows, handler>> /\ reply' \in {reply, "refused", "error"}
        \/ /\ UNCHANGED <<wj, wd, rows, reply>> /\ wj.handoff
           /\ handler' = [at |-> "remove", current |-> current]
        \/ /\ Accepts(d) /\ ~wj.handoff /\ wj' = k /\ wd' = k /\ rows' = rows /\ reply' = reply
           /\ handler' = [at |-> "remove", current |-> current]
    <2> HIDE DEF d, k
    <2>1. PICK ok \in Outcomes :
            IF Accepts(d) /\ (wj.handoff \/ ok)
            THEN /\ IF wj.handoff THEN UNCHANGED <<wj, wd, rows>> ELSE WSave(k, TRUE)
                 /\ handler' = [at |-> "remove", current |-> current]
                 /\ UNCHANGED reply
            ELSE /\ reply' = IF ~current THEN reply ELSE IF Accepts(d) THEN "error" ELSE "refused"
                 /\ UNCHANGED <<wj, wd, rows, handler>>
      BY DEF Handoff, d, k
    <2>2. WSave(k, TRUE) => wj' = k /\ wd' = k /\ rows' = rows
      BY <1>5 DEF WSave
    <2>3. QED BY <2>1, <2>2
  <1> HIDE DEF k
  <1>7. CASE UNCHANGED <<wj, wd, rows, handler>> /\ reply' \in {reply, "refused", "error"}
    <2>1. WorkerSound'
      BY <1>1, <1>4, <1>7, WorkerFrame DEF worker
    <2>2. ControlSound'
      BY <1>1, <1>4, <1>7, ControlFrame DEF ControlSound, ControlTyped, AcknowledgedIsPublished
    <2>3. QED BY <2>1, <2>2, Halves
  <1>8. CASE /\ UNCHANGED <<wj, wd, rows, reply>> /\ wj.handoff
             /\ handler' = [at |-> "remove", current |-> current]
    <2>1. handler' \in HandlerStates /\ handler'.at = "remove"
      BY <1>8, HandlerValues
    <2>2. WorkerSound'
      BY <1>1, <1>2, <1>4, <1>8, <2>1 DEF WorkerSound, WorkerInStep
    <2>3. ControlSound'
      BY <1>1, <1>4, <1>8, ControlFrame DEF ControlSound, ControlTyped, AcknowledgedIsPublished
    <2>4. QED BY <2>2, <2>3, Halves
  <1>9. CASE /\ Accepts(d) /\ ~wj.handoff /\ wj' = k /\ wd' = k /\ rows' = rows /\ reply' = reply
             /\ handler' = [at |-> "remove", current |-> current]
    <2>1. handler' \in HandlerStates /\ handler'.at = "remove"
      BY <1>9, HandlerValues
    <2>2. d = IDs(wj.gen) /\ wj.ev \in {"transferring", "complete"}
      BY <1>9 DEF Accepts
    <2>3. ~wd.handoff /\ ~wd.released /\ ~wj.released /\ wj.gen # 0
      BY <1>1, <1>2, <1>9, <2>2 DEF WorkerSound, WorkerInStep
    <2>4. WorkerInStep'
      BY <1>1, <1>2, <1>4, <1>5, <1>9, <2>1, <2>3 DEF WorkerSound, WorkerInStep
    <2>5. WorkerSound'
      BY <1>1, <1>4, <1>5, <1>9, <2>1, <2>2, <2>4 DEF WorkerSound
    <2>6. ControlSound'
      BY <1>1, <1>3, <1>4, <1>5, <1>9, <2>2, <2>3, ControlFrame DEF ControlSound, ControlTyped
    <2>7. QED BY <2>5, <2>6, Halves
  <1>10. QED BY <1>6, <1>7, <1>8, <1>9

\* The worker removes the files of an accepted handoff.
LEMMA HandoffRemoveKeeps == ASSUME IInv, HandoffRemove PROVE IInv'
  <1>1. WorkerSound /\ ControlSound
    BY Halves
  <1>2. handler' \in HandlerStates /\ handler'.at \in {"none", "finish"} /\ (handler'.at = "finish" => ~tree')
    <2>1. handler \in HandlerStates
      BY <1>1 DEF WorkerSound
    <2>2. \/ handler' = [handler EXCEPT !.at = "finish"] /\ tree' = FALSE
          \/ handler' = NoHandler
      BY DEF HandoffRemove, Answer
    <2>3. QED BY <2>1, <2>2, HandlerValues, ZenonT(60) DEF HandlerStates, NoHandler
  <1>3. tree' \in BOOLEAN /\ (~tree => ~tree') /\ wup /\ wj.handoff /\ reply' \in {reply, "error"}
    <2>1. tree \in BOOLEAN /\ wup /\ wj.handoff
      BY <1>1 DEF HandoffRemove, WorkerSound, WorkerInStep
    <2>2. tree' = FALSE \/ tree' = tree
      BY DEF HandoffRemove
    <2>3. reply' = reply \/ reply' = "error"
      BY DEF HandoffRemove, Answer
    <2>4. tree' \in BOOLEAN /\ (~tree => ~tree')
      <3>1. CASE tree' = FALSE BY ONLY <3>1
      <3>2. CASE tree' = tree BY ONLY <2>1, <3>2
      <3>3. QED BY <2>2, <3>1, <3>2
    <2>5. QED BY ONLY <2>1, <2>3, <2>4
  <1>4. WorkerSound'
    <2>1. UNCHANGED <<wj, wd, rows, indexed, wup, indexer, stream>>
      BY DEF HandoffRemove
    <2>2. wd.handoff
      BY <1>1, <1>3 DEF WorkerSound, WorkerInStep
    <2>3. WorkerInStep'
      BY <1>1, <1>2, <1>3, <2>1, <2>2 DEF WorkerSound, WorkerInStep
    <2>4. QED BY <1>1, <1>2, <1>3, <2>1, <2>3 DEF WorkerSound
  <1>5. ControlSound'
    BY <1>1, <1>3, ControlFrame DEF HandoffRemove, bounds, ControlSound, ControlTyped, AcknowledgedIsPublished
  <1>6. QED BY <1>4, <1>5, Halves

\* Only a job whose row says so answers that it is released.
LEMMA HandoffFinishKeeps == ASSUME IInv, HandoffFinish PROVE IInv'
  <1> DEFINE k == [wj EXCEPT !.released = TRUE, !.ev = "complete"]
  <1>1. WorkerSound /\ ControlSound
    BY Halves
  <1>2. k \in Jobs /\ k.ev = "complete" /\ k.attempts = wj.attempts /\ k.gen = wj.gen /\ k.handoff = wj.handoff /\ k.released
    BY <1>1 DEF Jobs, States, WorkerSound
  <1>3. wup /\ handler.at = "finish" /\ wj.handoff /\ ~tree /\ wj.gen # 0 /\ wd.handoff /\ wj.gen = wd.gen
    BY <1>1 DEF HandoffFinish, WorkerSound, WorkerInStep
  <1>4. handler' \in HandlerStates /\ handler'.at = "none"
    BY HandlerValues DEF HandoffFinish, Answer, NoHandler
  <1>5. \/ UNCHANGED <<wj, wd, rows>> /\ reply' \in {reply, "error"}
        \/ rows' = 0 /\ wj' = k /\ wd' \in {k, wd} /\ reply' \in {reply, "error", "ok"}
           /\ (reply' = "ok" => reply = "ok" \/ wd' = k)
    BY DEF HandoffFinish, Answer
  <1> HIDE DEF k
  <1>6. UNCHANGED <<tree, indexed, wup, indexer, stream, control, ack, late, crashes, recoveries>>
    BY DEF HandoffFinish, bounds
  <1>7. WorkerInStep'
    BY <1>1, <1>2, <1>3, <1>4, <1>5, <1>6 DEF WorkerSound, WorkerInStep
  <1>8. WorkerSound'
    BY <1>1, <1>2, <1>4, <1>5, <1>6, <1>7, HandoffAssumption DEF WorkerSound
  <1>9. wd'.gen = wd.gen /\ (wd.released => wd'.released) /\ (reply' = "ok" => reply = "ok" \/ wd'.released)
    BY <1>2, <1>3, <1>5
  <1>10. ControlSound'
    BY <1>1, <1>3, <1>5, <1>6, <1>9, ControlFrame DEF ControlSound, ControlTyped, AcknowledgedIsPublished
  <1>11. QED BY <1>8, <1>10, Halves

\* expireCompleted: a released job is read from its row again.
LEMMA ForgetKeeps == ASSUME IInv, Forget PROVE IInv'
  <1>1. WorkerSound /\ ControlSound
    BY Halves
  <1>2. WorkerSound'
    BY <1>1 DEF WorkerSound, WorkerInStep, Forget
  <1>3. ControlSound'
    BY <1>1, ControlFrame DEF Forget, wire, bounds, ControlSound, ControlTyped, AcknowledgedIsPublished
  <1>4. QED BY <1>2, <1>3, Halves

\* The worker dies; its row and its files stay.
LEMMA WorkerCrashKeeps == ASSUME IInv, WorkerCrash PROVE IInv'
  <1>1. WorkerSound /\ ControlSound
    BY Halves
  <1>2. handler' \in HandlerStates /\ handler'.at = "none"
    BY HandlerValues DEF WorkerCrash, NoHandler
  <1>3. WorkerSound'
    BY <1>1, <1>2 DEF WorkerSound, WorkerInStep, WorkerCrash
  <1>4. crashes' \in 0 .. Crashes
    BY <1>1, HandoffAssumption DEF ControlSound, ControlTyped, WorkerCrash
  <1>5. ControlSound'
    BY <1>1, <1>4, ControlFrame DEF WorkerCrash, ControlSound, ControlTyped, AcknowledgedIsPublished
  <1>6. QED BY <1>3, <1>5, Halves

\* The worker is started again.
LEMMA WorkerRestartKeeps == ASSUME IInv, WorkerRestart PROVE IInv'
  <1>1. WorkerSound /\ ControlSound
    BY Halves
  <1>2. /\ wj' \in Jobs /\ wj'.gen = wd.gen /\ wj'.handoff = wd.handoff /\ wj'.released = wd.released
        /\ wj'.attempts = wd.attempts /\ (wj'.ev = wd.ev \/ wj'.ev = "blocked" \/ (wj'.ev = "pending" /\ wd.attempts < Attempts))
    BY <1>1, InState DEF WorkerSound, WorkerRestart, States
  <1>3. wd' = wj' /\ wup' /\ ~wup /\ UNCHANGED <<rows, tree, indexed, indexer, stream, handler>>
    BY DEF WorkerRestart
  <1>4. WorkerInStep'
    BY <1>1, <1>2, <1>3 DEF WorkerSound, WorkerInStep
  <1>5. WorkerSound'
    BY <1>1, <1>2, <1>3, <1>4 DEF WorkerSound
  <1>6. ControlSound'
    BY <1>1, <1>2, <1>3, ControlFrame DEF WorkerRestart, wire, bounds, ControlSound, ControlTyped, AcknowledgedIsPublished
  <1>7. QED BY <1>5, <1>6, Halves

-----------------------------------------------------------------------------
(* The controller.                                                         *)

\* The collector starts: an attempt is left for it.
LEMMA BeginKeeps == ASSUME IInv, Begin PROVE IInv'
  <1> DEFINE t == [ct EXCEPT !.ev = "collecting", !.attempts = @ + 1]
  <1>1. WorkerSound /\ ControlSound
    BY Halves
  <1>2. ct \in Tasks /\ ct.attempts + 1 \in 0 .. Attempts /\ ct.attempts + 1 > 0
    BY <1>1, Fields, HandoffAssumption DEF Begin, ControlSound, ControlTyped, ControlAttempts
  <1>3. t \in Tasks /\ t.ev = "collecting" /\ t.attempts = ct.attempts + 1 /\ t.digest = ct.digest /\ t.handoff = ct.handoff
    BY <1>2 DEF Tasks, States
  <1>4. ct' = t /\ cd' = t /\ step' \in {"done", "evidence"} /\ (step' = "done" => ct.handoff)
    BY DEF Begin, CSave
  <1> HIDE DEF t
  <1>5. ControlTyped'
    BY <1>1, <1>3, <1>4, DigestValues DEF Begin, wire, bounds, ControlSound, ControlTyped, Steps, Names
  <1>6. ControlAttempts'
    BY <1>2, <1>3, <1>4 DEF ControlAttempts
  <1>7. AcknowledgedIsPublished'
    BY <1>1, <1>3, <1>4 DEF Begin, wire, worker, ControlSound, AcknowledgedIsPublished
  <1>8. ControlInStep'
    BY <1>1, <1>3, <1>4 DEF Begin, wire, worker, ControlSound, ControlInStep
  <1>9. WorkerSound'
    BY <1>1, WorkerFrame DEF Begin
  <1>10. QED BY <1>5, <1>6, <1>7, <1>8, <1>9, Halves DEF ControlSound

\* Whatever the controller settles a failed attempt to, the task is a sound one.
LEMMA FailIs ==
  ASSUME NEW t \in Tasks, NEW transient \in BOOLEAN, Fail(t, transient)
  PROVE  /\ cd' = ct' /\ ct' \in Tasks /\ ct'.digest = t.digest /\ ct'.handoff = t.handoff
         /\ ct'.ev \in {"pending", "blocked"} /\ (ct'.ev = "pending" => ct'.attempts < Attempts)
         /\ step' = "none" /\ manifest' = NoDigest /\ todo' = {}
  BY InState DEF Fail, CSave, States

\* A failed attempt keeps the controller's half, given a digest that is published.
LEMMA FailKeeps ==
  ASSUME ControlSound, NEW t \in Tasks, NEW transient \in BOOLEAN, Fail(t, transient),
         retry = "answered" => step = "none", step # "none",
         t.digest = NoDigest \/ t.digest \subseteq published, t.handoff => wd.released,
         ack' \in {ack, NoDigest}, late' \in {ack, late}, reply' \in {reply, "none"},
         wd'.handoff = wd.handoff, wd.handoff => wd'.gen = wd.gen, wd.released => wd'.released,
         UNCHANGED <<cup, retry, published, crashes, recoveries>>
  PROVE  ControlSound'
  <1>1. /\ cd' = ct' /\ ct' \in Tasks /\ ct'.digest = t.digest /\ ct'.handoff = t.handoff
        /\ ct'.ev \in {"pending", "blocked"} /\ (ct'.ev = "pending" => ct'.attempts < Attempts)
        /\ step' = "none" /\ manifest' = NoDigest /\ todo' = {}
    BY FailIs
  <1>2. ControlTyped'
    BY <1>1, DigestValues DEF ControlSound, ControlTyped, Steps, Names
  <1>3. ControlAttempts'
    BY <1>1 DEF ControlAttempts
  <1>4. AcknowledgedIsPublished'
    BY <1>1 DEF ControlSound, AcknowledgedIsPublished
  <1>5. ControlInStep'
    BY <1>1 DEF ControlSound, ControlInStep
  <1>6. QED BY <1>2, <1>3, <1>4, <1>5 DEF ControlSound

\* An attempt fails or its budget is over; its request may still arrive.
LEMMA GiveUpKeeps == ASSUME IInv, GiveUp PROVE IInv'
  <1>1. WorkerSound /\ ControlSound
    BY Halves
  <1>2. PICK transient \in BOOLEAN : Fail(ct, transient)
    BY DEF GiveUp
  <1>3. ControlSound'
    <2>1. /\ ct \in Tasks /\ (ct.digest = NoDigest \/ ct.digest \subseteq published)
          /\ (ct.handoff => wd.released) /\ (retry = "answered" => step = "none") /\ step # "none"
      BY <1>1 DEF GiveUp, ControlSound, ControlTyped, AcknowledgedIsPublished, ControlInStep
    <2>2. QED BY <1>1, <1>2, <2>1, FailKeeps DEF GiveUp, Abandon, bounds
  <1>4. WorkerSound'
    BY <1>1, WorkerFrameButOne DEF GiveUp, Abandon, WorkerSound
  <1>5. QED BY <1>3, <1>4, Halves

\* An attempt asks the worker to index.
LEMMA EvidenceCallKeeps == ASSUME IInv, EvidenceCall PROVE IInv'
  <1>1. WorkerSound /\ ControlSound
    BY Halves
  <1>2. PICK ok \in BOOLEAN :
          /\ Evidence(wj, ok)
          /\ \/ ok /\ step' = "poll" /\ UNCHANGED <<ct, cd, todo, manifest>>
             \/ ~ok /\ \E transient \in BOOLEAN : Fail(ct, transient)
    BY DEF EvidenceCall, Outcomes
  <1>3. PICK k \in Jobs, s \in BOOLEAN : WSave(k, s) /\ Collects(wj, k)
    BY <1>1, <1>2, EvidenceIs DEF WorkerSound
  <1>4. /\ WorkerSound'
        /\ wd'.handoff = wd.handoff /\ (wd.handoff => wd'.gen = wd.gen) /\ (wd.released => wd'.released)
    BY <1>1, <1>3, CollectingKeeps DEF EvidenceCall, WorkerSound
  <1>5. /\ ct \in Tasks /\ (ct.digest = NoDigest \/ ct.digest \subseteq published)
        /\ (ct.handoff => wd.released) /\ (retry = "answered" => step = "none") /\ step # "none"
    BY <1>1 DEF EvidenceCall, ControlSound, ControlTyped, AcknowledgedIsPublished, ControlInStep
  <1>6. UNCHANGED <<cup, retry, published, ack, late, reply, crashes, recoveries>>
    BY DEF EvidenceCall, wire, bounds
  <1>7. CASE step' = "poll" /\ UNCHANGED <<ct, cd, todo, manifest>>
    <2>1. ControlTyped' /\ ControlAttempts'
      BY <1>1, <1>5, <1>6, <1>7 DEF ControlSound, ControlTyped, ControlAttempts, Steps
    <2>2. AcknowledgedIsPublished'
      BY <1>1, <1>4, <1>6, <1>7 DEF ControlSound, AcknowledgedIsPublished
    <2>3. ControlInStep'
      BY <1>1, <1>4, <1>5, <1>6, <1>7 DEF ControlSound, ControlInStep
    <2>4. QED BY <1>4, <2>1, <2>2, <2>3, Halves DEF ControlSound
  <1>8. CASE \E transient \in BOOLEAN : Fail(ct, transient)
    <2>1. ControlSound'
      BY <1>1, <1>4, <1>5, <1>6, <1>8, FailKeeps
    <2>2. QED BY <1>4, <2>1, Halves
  <1>9. QED BY <1>2, <1>7, <1>8

\* A step that only moves the collector on, and takes the listed files.
LEMMA CollectorMoves ==
  ASSUME ControlSound, step # "none", step' \in Steps \ {"none", "done"}, step' = "copy" => manifest' \subseteq published',
         UNCHANGED <<wd, ct, cd, cup, retry, wire, bounds>>, todo' \in Names, manifest' \in Digests,
         published \subseteq published', published' \in Names, manifest' = NoDigest \/ manifest' \subseteq published'
  PROVE  ControlSound'
  <1>1. ControlTyped' /\ ControlAttempts'
    BY DEF ControlSound, ControlTyped, ControlAttempts, wire, bounds
  <1>2. AcknowledgedIsPublished'
    BY DEF ControlSound, AcknowledgedIsPublished, wire
  <1>3. ControlInStep'
    BY DEF ControlSound, ControlInStep, wire
  <1>4. QED BY <1>1, <1>2, <1>3 DEF ControlSound

\* The controller reads the state of the evidence.
LEMMA PollKeeps == ASSUME IInv, Poll PROVE IInv'
  <1>1. WorkerSound /\ ControlSound
    BY Halves
  <1>2. WorkerSound'
    BY <1>1, WorkerFrame DEF Poll
  <1>3. CASE Fail(ct, FALSE)
    <2>1. /\ ct \in Tasks /\ (ct.digest = NoDigest \/ ct.digest \subseteq published)
          /\ (ct.handoff => wd.released) /\ (retry = "answered" => step = "none") /\ step # "none"
      BY <1>1 DEF Poll, ControlSound, ControlTyped, AcknowledgedIsPublished, ControlInStep
    <2>2. ControlSound'
      BY <1>1, <1>3, <2>1, FailKeeps DEF Poll, worker, wire, bounds
    <2>3. QED BY <1>2, <2>2, Halves
  <1>4. CASE step' \in {"save", "files"} /\ UNCHANGED <<ct, cd, todo, manifest>>
    <2>1. /\ todo \in Names /\ manifest \in Digests /\ published \in Names
          /\ (manifest = NoDigest \/ manifest \subseteq published)
      BY <1>1 DEF ControlSound, ControlTyped, AcknowledgedIsPublished
    <2>2. ControlSound'
      BY <1>1, <1>4, <2>1, CollectorMoves DEF Poll, worker, Steps
    <2>3. QED BY <1>2, <2>2, Halves
  <1>5. QED BY <1>3, <1>4 DEF Poll

\* The controller reads the list of files.
LEMMA ListFilesKeeps == ASSUME IInv, ListFiles PROVE IInv'
  <1>1. WorkerSound /\ ControlSound
    BY Halves
  <1>2. WorkerSound'
    BY <1>1, WorkerFrame DEF ListFiles
  <1>3. todo' \in Names /\ published \in Names
    BY <1>1, DigestValues DEF ListFiles, WorkerSound, ControlSound, ControlTyped
  <1>4. ControlSound'
    BY <1>1, <1>3, CollectorMoves, DigestValues DEF ListFiles, worker, Steps
  <1>5. QED BY <1>2, <1>4, Halves

\* The controller copies and publishes a file.
LEMMA CopyKeeps == ASSUME IInv, NEW f \in (1 .. Indexings) \X Files, Copy(f) PROVE IInv'
  <1>1. WorkerSound /\ ControlSound
    BY Halves
  <1>2. WorkerSound'
    BY <1>1, WorkerFrameButOne DEF Copy, WorkerSound
  <1>3. /\ manifest \in Names /\ manifest \subseteq published /\ published \in Names /\ todo \in Names
    BY <1>1 DEF Copy, ControlSound, ControlTyped, ControlInStep, Names
  <1>4. published' = published \cup {f} /\ manifest' = manifest \cup {f} /\ todo' = todo \ {f}
    BY DEF Copy
  <1>5. /\ manifest' \in Names /\ manifest' \subseteq published' /\ published' \in Names /\ todo' \in Names
        /\ published \subseteq published'
    BY <1>3, <1>4 DEF Names
  <1>6. manifest' \in Digests
    BY <1>5 DEF Digests, Names
  <1>7. ControlSound'
    BY <1>1, <1>5, <1>6, CollectorMoves DEF Copy, Steps
  <1>8. QED BY <1>2, <1>7, Halves

\* The digest that is recorded, and then acknowledged, is of published files.
LEMMA RecordDigestKeeps == ASSUME IInv, RecordDigest PROVE IInv'
  <1> DEFINE t == [ct EXCEPT !.digest = IF manifest = NoDigest THEN @ ELSE manifest, !.ev = "transferring"]
  <1>1. WorkerSound /\ ControlSound
    BY Halves
  <1>2. /\ ct \in Tasks /\ manifest \in Digests /\ (ct.handoff => wd.released) /\ (retry = "answered" => step = "none")
        /\ step # "none"
        /\ (ct.digest = NoDigest \/ ct.digest \subseteq published) /\ (manifest = NoDigest \/ manifest \subseteq published)
    BY <1>1 DEF RecordDigest, ControlSound, ControlTyped, AcknowledgedIsPublished, ControlInStep
  <1>3. /\ t \in Tasks /\ t.ev = "transferring" /\ t.attempts = ct.attempts /\ t.handoff = ct.handoff
        /\ t.digest = IF manifest = NoDigest THEN ct.digest ELSE manifest
    BY <1>2 DEF Tasks, States
  <1>4. \/ CSave(t) /\ step' = "handoff" /\ ack' = t.digest /\ UNCHANGED <<todo, manifest>>
        \/ Fail(t, FALSE) /\ UNCHANGED ack
    BY DEF RecordDigest
  <1> HIDE DEF t
  <1>5. t.digest \in Digests /\ (t.digest = NoDigest \/ t.digest \subseteq published)
    BY <1>2, <1>3, Fields
  <1>6. UNCHANGED <<worker, cup, retry, published, late, reply, crashes, recoveries>>
    BY DEF RecordDigest, bounds
  <1>7. WorkerSound'
    BY <1>1, <1>6, WorkerFrame
  <1>8. CASE CSave(t) /\ step' = "handoff" /\ ack' = t.digest /\ UNCHANGED <<todo, manifest>>
    <2>1. ct' = t /\ cd' = t
      BY <1>8 DEF CSave
    <2>2. ControlTyped'
      BY <1>1, <1>3, <1>5, <1>6, <1>8, <2>1 DEF ControlSound, ControlTyped, Steps
    <2>3. ControlAttempts'
      BY <1>1, <1>2, <1>3, <1>8, <2>1 DEF ControlSound, ControlAttempts
    <2>4. AcknowledgedIsPublished'
      BY <1>1, <1>5, <1>6, <1>8, <2>1 DEF ControlSound, AcknowledgedIsPublished, worker
    <2>5. ControlInStep'
      BY <1>1, <1>2, <1>3, <1>6, <1>8, <2>1 DEF ControlSound, ControlInStep, worker
    <2>6. QED BY <1>7, <2>2, <2>3, <2>4, <2>5, Halves DEF ControlSound
  <1>9. CASE Fail(t, FALSE) /\ UNCHANGED ack
    <2>1. ControlSound'
      BY <1>1, <1>2, <1>3, <1>5, <1>6, <1>9, FailKeeps DEF worker
    <2>2. QED BY <1>7, <2>1, Halves
  <1>10. QED BY <1>4, <1>8, <1>9

\* The controller stores that the worker has released the evidence.
LEMMA HandoffAnsweredKeeps == ASSUME IInv, HandoffAnswered PROVE IInv'
  <1> DEFINE t == [ct EXCEPT !.handoff = TRUE]
  <1>1. WorkerSound /\ ControlSound
    BY Halves
  <1>2. /\ ct \in Tasks /\ (ct.digest = NoDigest \/ ct.digest \subseteq published)
        /\ (ct.handoff \/ reply = "ok" => wd.released) /\ (retry = "answered" => step = "none") /\ step # "none"
    BY <1>1 DEF HandoffAnswered, ControlSound, ControlTyped, AcknowledgedIsPublished, ControlInStep
  <1>3. t \in Tasks /\ t.ev = ct.ev /\ t.attempts = ct.attempts /\ t.handoff /\ t.digest = ct.digest
    BY <1>2 DEF Tasks
  <1>4. \/ reply = "ok" /\ CSave(t) /\ step' = "done" /\ UNCHANGED <<todo, manifest>>
        \/ reply = "ok" /\ Fail(t, FALSE)
        \/ \E transient \in BOOLEAN : Fail(ct, transient)
    BY DEF HandoffAnswered
  <1> HIDE DEF t
  <1>5. ack' = NoDigest /\ reply' = "none" /\ UNCHANGED <<worker, cup, retry, published, late, crashes, recoveries>>
    BY DEF HandoffAnswered, bounds
  <1>6. WorkerSound'
    BY <1>1, <1>5, WorkerFrame
  <1>7. CASE reply = "ok" /\ CSave(t) /\ step' = "done" /\ UNCHANGED <<todo, manifest>>
    <2>1. ct' = t /\ cd' = t
      BY <1>7 DEF CSave
    <2>2. ControlTyped'
      BY <1>1, <1>3, <1>5, <1>7, <2>1, DigestValues DEF ControlSound, ControlTyped, Steps
    <2>3. ControlAttempts'
      BY <1>1, <1>2, <1>3, <1>7, <2>1 DEF ControlSound, ControlAttempts
    <2>4. AcknowledgedIsPublished'
      BY <1>1, <1>2, <1>3, <1>5, <1>7, <2>1 DEF ControlSound, AcknowledgedIsPublished, worker
    <2>5. ControlInStep'
      BY <1>1, <1>2, <1>3, <1>5, <1>7, <2>1 DEF ControlSound, ControlInStep, worker
    <2>6. QED BY <1>6, <2>2, <2>3, <2>4, <2>5, Halves DEF ControlSound
  <1>8. CASE reply = "ok" /\ Fail(t, FALSE)
    <2>1. ControlSound'
      BY <1>1, <1>2, <1>3, <1>5, <1>8, FailKeeps DEF worker
    <2>2. QED BY <1>6, <2>1, Halves
  <1>9. CASE \E transient \in BOOLEAN : Fail(ct, transient)
    <2>1. ControlSound'
      BY <1>1, <1>2, <1>5, <1>9, FailKeeps DEF worker
    <2>2. QED BY <1>6, <2>1, Halves
  <1>10. QED BY <1>4, <1>7, <1>8, <1>9

\* The controller stores that the evidence is complete.
LEMMA DoneKeeps == ASSUME IInv, Done PROVE IInv'
  <1> DEFINE t == [ct EXCEPT !.ev = "complete"]
  <1>1. WorkerSound /\ ControlSound
    BY Halves
  <1>2. t \in Tasks /\ t.ev = "complete" /\ t.attempts = ct.attempts /\ t.handoff = ct.handoff /\ t.digest = ct.digest
    BY <1>1, InState DEF ControlSound, ControlTyped, States
  <1>3. ct' = t /\ cd' = t /\ step' = "none" /\ UNCHANGED <<worker, cup, todo, manifest, retry, published, wire, bounds>>
    BY DEF Done, CSave
  <1> HIDE DEF t
  <1>4. ControlTyped'
    BY <1>1, <1>2, <1>3 DEF ControlSound, ControlTyped, Steps, wire, bounds
  <1>5. ControlAttempts'
    BY <1>2, <1>3 DEF ControlAttempts
  <1>6. AcknowledgedIsPublished'
    BY <1>1, <1>2, <1>3 DEF ControlSound, AcknowledgedIsPublished, wire, worker
  <1>7. ControlInStep'
    BY <1>1, <1>2, <1>3 DEF Done, ControlSound, ControlInStep, wire, worker
  <1>8. WorkerSound'
    BY <1>1, <1>3, WorkerFrame
  <1>9. QED BY <1>4, <1>5, <1>6, <1>7, <1>8, Halves DEF ControlSound

\* nix_job_recover asks the worker to index again.
LEMMA RecoverKeeps == ASSUME IInv, Recover PROVE IInv'
  <1> DEFINE j == IF wj.ev = "blocked" THEN [wj EXCEPT !.ev = "pending", !.attempts = 0] ELSE wj
  <1>1. WorkerSound /\ ControlSound
    BY Halves
  <1>2. PICK ok \in BOOLEAN : Evidence(j, ok)
    BY DEF Recover, Outcomes
  <1>3. /\ j \in Jobs /\ j.gen = wj.gen /\ j.handoff = wj.handoff /\ j.released = wj.released
        /\ j = wj \/ (wj.ev = "blocked" /\ j.ev = "pending" /\ j.attempts = 0)
    <2>1. wj \in Jobs /\ 0 \in 0 .. Attempts
      BY <1>1, HandoffAssumption DEF WorkerSound
    <2>2. QED BY <2>1 DEF Jobs, States
  <1> HIDE DEF j
  <1>4. PICK k \in Jobs, s \in BOOLEAN : WSave(k, s) /\ Collects(j, k)
    BY <1>1, <1>2, <1>3, EvidenceIs, HandoffAssumption DEF WorkerSound
  <1>5. /\ WorkerSound'
        /\ wd'.handoff = wd.handoff /\ (wd.handoff => wd'.gen = wd.gen) /\ (wd.released => wd'.released)
    BY <1>1, <1>3, <1>4, CollectingKeeps DEF Recover
  <1>6. /\ UNCHANGED <<ct, cd, cup, step, todo, manifest, published, ack, late, reply, crashes>>
        /\ cup /\ ct.ev = "blocked" /\ retry' \in {"none", "answered"} /\ recoveries' \in 0 .. Recoveries
    BY <1>1, HandoffAssumption DEF Recover, wire, ControlSound, ControlTyped
  <1>7. ControlTyped' /\ ControlAttempts'
    BY <1>1, <1>6 DEF ControlSound, ControlTyped, ControlAttempts
  <1>8. AcknowledgedIsPublished'
    BY <1>1, <1>5, <1>6 DEF ControlSound, AcknowledgedIsPublished
  <1>9. ControlInStep'
    BY <1>1, <1>5, <1>6 DEF ControlSound, ControlInStep
  <1>10. QED BY <1>5, <1>7, <1>8, <1>9, Halves DEF ControlSound

\* nix_job_recover gives the controller new attempts.
LEMMA RecoverApplyKeeps == ASSUME IInv, RecoverApply PROVE IInv'
  <1> DEFINE t == [ct EXCEPT !.ev = "pending", !.attempts = 0]
  <1>1. WorkerSound /\ ControlSound
    BY Halves
  <1>2. 0 \in 0 .. Attempts /\ 0 < Attempts
    BY HandoffAssumption
  <1>3. t \in Tasks /\ t.ev = "pending" /\ t.attempts = 0 /\ t.handoff = ct.handoff /\ t.digest = ct.digest
    BY <1>1, <1>2 DEF ControlSound, ControlTyped, Tasks, States
  <1>4. /\ ct' = t /\ cd' = t /\ retry' = "none" /\ UNCHANGED <<worker, cup, step, todo, manifest, published, wire, bounds>>
        /\ step = "none"
    BY <1>1 DEF RecoverApply, CSave, ControlSound, ControlInStep
  <1> HIDE DEF t
  <1>5. ControlTyped'
    BY <1>1, <1>3, <1>4 DEF ControlSound, ControlTyped, wire, bounds
  <1>6. ControlAttempts'
    BY <1>2, <1>3, <1>4 DEF ControlAttempts
  <1>7. AcknowledgedIsPublished'
    BY <1>1, <1>3, <1>4 DEF ControlSound, AcknowledgedIsPublished, wire, worker
  <1>8. ControlInStep'
    BY <1>1, <1>3, <1>4 DEF ControlSound, ControlInStep, wire, worker
  <1>9. WorkerSound'
    BY <1>1, <1>4, WorkerFrame
  <1>10. QED BY <1>5, <1>6, <1>7, <1>8, <1>9, Halves DEF ControlSound

\* The controller stops; what its row says afterwards is sound.
LEMMA DownKeeps ==
  ASSUME IInv, Down, cd' \in Tasks, cd'.digest \in {cd.digest, ct.digest},
         cd'.ev = "pending" => cd'.attempts < Attempts,
         cd'.handoff => cd.handoff \/ ct.handoff, cd'.ev = "complete" => cd'.handoff
  PROVE  IInv'
  <1>1. WorkerSound /\ ControlSound
    BY Halves
  <1>2. WorkerSound'
    BY <1>1, WorkerFrameButOne DEF Down, Abandon, WorkerSound
  <1>3. ControlTyped'
    <2>1. crashes' \in 0 .. Crashes
      BY <1>1, HandoffAssumption DEF Down, ControlSound, ControlTyped
    <2>2. ack' \in Digests /\ late' \in Digests /\ reply' = "none"
      BY <1>1, DigestValues DEF Down, Abandon, ControlSound, ControlTyped
    <2>3. step' \in Steps /\ todo' \in Names /\ manifest' \in Digests
      BY DigestValues DEF Down, Steps, Names
    <2>4. QED BY <1>1, <2>1, <2>2, <2>3 DEF Down, ControlSound, ControlTyped
  <1>4. ControlAttempts'
    BY <1>1 DEF Down, ControlSound, ControlAttempts
  <1>5. AcknowledgedIsPublished'
    BY <1>1 DEF Down, Abandon, ControlSound, AcknowledgedIsPublished
  <1>6. ControlInStep'
    BY <1>1 DEF Down, Abandon, ControlSound, ControlInStep
  <1>7. QED BY <1>2, <1>3, <1>4, <1>5, <1>6, Halves DEF ControlSound

\* The controller dies in the middle of an attempt.
LEMMA CrashKeeps == ASSUME IInv, Crash PROVE IInv'
  <1>1. ControlSound
    BY Halves
  <1>2. QED BY <1>1, DownKeeps DEF Crash, ControlSound, ControlTyped, ControlAttempts, ControlInStep

\* The controller is stopped and takes the attempt under way back.
LEMMA CloseKeeps == ASSUME IInv, Close PROVE IInv'
  <1> DEFINE t == [ct EXCEPT !.ev = "pending", !.attempts = @ - 1]
  <1>1. ControlSound
    BY Halves
  <1>2. CASE step = "none"
    BY <1>1, <1>2, DownKeeps DEF Close, ControlSound, ControlTyped, ControlAttempts, ControlInStep
  <1>3. CASE step # "none"
    <2>1. ct \in Tasks /\ ct.attempts - 1 \in 0 .. Attempts /\ ct.attempts - 1 < Attempts
      BY <1>1, <1>3, Fields, HandoffAssumption DEF ControlSound, ControlTyped, ControlAttempts
    <2>2. t \in Tasks /\ t.ev = "pending" /\ t.attempts = ct.attempts - 1 /\ t.handoff = ct.handoff /\ t.digest = ct.digest
      BY <2>1 DEF Tasks, States
    <2>3. Down /\ cd' = t
      BY <1>3 DEF Close
    <2> HIDE DEF t
    <2>4. QED BY <2>1, <2>2, <2>3, DownKeeps
  <1>4. QED BY <1>2, <1>3

\* The controller is started again and reads its row.
LEMMA RestartKeeps == ASSUME IInv, Restart PROVE IInv'
  <1>1. WorkerSound /\ ControlSound
    BY Halves
  <1>2. WorkerSound'
    BY <1>1, WorkerFrame DEF Restart
  <1>3. /\ ct' \in Tasks /\ ct'.attempts = cd.attempts /\ ct'.handoff = cd.handoff /\ ct'.digest = cd.digest
        /\ \/ ct'.ev = "blocked"
           \/ ct'.ev = cd.ev /\ (cd.ev \in {"collecting", "transferring"} => ~(cd.attempts >= Attempts))
    BY <1>1, InState DEF Restart, ControlSound, ControlTyped, States
  <1>4. /\ cup' = TRUE /\ step = "none" /\ retry = "none"
        /\ UNCHANGED <<worker, cd, step, todo, manifest, retry, published, wire, bounds>>
    BY <1>1 DEF Restart, ControlSound, ControlInStep
  <1>5. ControlTyped'
    BY <1>1, <1>3, <1>4 DEF ControlSound, ControlTyped, wire, bounds
  <1>6. ControlAttempts'
    <2>1. cd.attempts \in Nat /\ Attempts \in Nat /\ cd.ev \in States
      BY <1>1, Fields, HandoffAssumption DEF ControlSound, ControlTyped
    <2>2. QED BY <1>1, <1>3, <1>4, <2>1 DEF ControlSound, ControlAttempts, States
  <1>7. AcknowledgedIsPublished'
    BY <1>1, <1>3, <1>4 DEF ControlSound, AcknowledgedIsPublished, wire, worker
  <1>8. ControlInStep'
    BY <1>1, <1>3, <1>4 DEF ControlSound, ControlInStep, wire, worker
  <1>9. QED BY <1>2, <1>5, <1>6, <1>7, <1>8, Halves DEF ControlSound

-----------------------------------------------------------------------------
(* The theorems.                                                           *)

\* Nothing is indexed or acknowledged in the beginning.
LEMMA InitHolds == Init => IInv
  <1> SUFFICES ASSUME Init PROVE IInv
    OBVIOUS
  <1>1. NewJob \in Jobs /\ NewTask \in Tasks
    BY HandoffAssumption, DigestValues DEF Jobs, Tasks, States, NewJob, NewTask
  <1>2. WorkerSound
    <2>1. WorkerInStep
      BY DEF Init, WorkerInStep, NewJob, NoHandler
    <2>2. \A j \in {wj, wd} : j.ev = "pending" /\ j.gen = 0 => j.attempts < Attempts
      BY HandoffAssumption DEF Init, NewJob
    <2>3. wj \in Jobs /\ wd \in Jobs /\ rows \in 0 .. Indexings /\ indexed \in 0 .. Indexings
      BY <1>1, HandoffAssumption DEF Init
    <2>4. /\ tree \in BOOLEAN /\ wup \in BOOLEAN /\ indexer \in BOOLEAN /\ stream \in BOOLEAN
          /\ handler \in HandlerStates /\ ~indexer
      BY HandlerValues DEF Init
    <2>5. QED BY <2>1, <2>2, <2>3, <2>4 DEF WorkerSound
  <1>3. ControlTyped
    BY <1>1, HandoffAssumption, DigestValues DEF Init, ControlTyped, Steps, Names
  <1>4. ControlAttempts
    BY HandoffAssumption DEF Init, ControlAttempts, NewTask
  <1>5. AcknowledgedIsPublished
    BY DEF Init, AcknowledgedIsPublished, NewTask, NewJob
  <1>6. ControlInStep
    BY DEF Init, ControlInStep, NewTask, NewJob
  <1>7. QED BY <1>2, <1>3, <1>4, <1>5, <1>6, Halves DEF ControlSound

\* Every step of either service keeps the invariant.
LEMMA StepKeeps == IInv /\ [Next]_vars => IInv'
  <1> SUFFICES ASSUME IInv, [Next]_vars PROVE IInv'
    OBVIOUS
  <1>1. CASE UNCHANGED vars
    <2>1. UNCHANGED worker /\ UNCHANGED control /\ UNCHANGED wire /\ UNCHANGED bounds
      BY <1>1 DEF vars
    <2>2. WorkerSound'
      BY <2>1, Halves, WorkerFrame
    <2>3. ControlSound'
      BY <2>1, Halves, ControlFrame DEF wire, bounds, worker, ControlSound, ControlTyped, AcknowledgedIsPublished
    <2>4. QED BY <2>2, <2>3, Halves
  <1>2. CASE \E current \in BOOLEAN : Handoff(current)
    BY <1>2, HandoffKeeps
  <1>3. CASE \E f \in (1 .. Indexings) \X Files : Copy(f)
    BY <1>3, CopyKeeps
  <1>4. QED
    BY <1>1, <1>2, <1>3, MaintainKeeps, IndexedKeeps, StreamEndsKeeps, HandoffRemoveKeeps, HandoffFinishKeeps,
       ForgetKeeps, WorkerCrashKeeps, WorkerRestartKeeps, BeginKeeps, GiveUpKeeps, EvidenceCallKeeps,
       PollKeeps, ListFilesKeeps, RecordDigestKeeps, HandoffAnsweredKeeps, DoneKeeps, RecoverKeeps,
       RecoverApplyKeeps, CloseKeeps, CrashKeeps, RestartKeeps
    DEF Next

\* The inductive invariant holds in every state.
LEMMA InStep == Spec => []IInv
  <1>1. Init => IInv
    BY InitHolds
  <1>2. IInv /\ [Next]_vars => IInv'
    BY StepKeeps
  <1>3. QED BY <1>1, <1>2, PTL DEF Spec

\* contract.md: "Worker copies and GC roots survive until durable controller
\* publication".  No crash, failed write, repeated or late acknowledgement loses
\* a file: when the worker's copies, or the list of them, may be gone, every one
\* of its files is published.
THEOREM EvidenceSurvives == Spec => []Inv
  <1>1. IInv => Inv
    <2> SUFFICES ASSUME IInv PROVE Inv
      OBVIOUS
    <2>1. wd.handoff => IDs(wd.gen) \subseteq published
      BY DEF IInv, AcknowledgedIsPublished
    <2>2. ~wd.handoff => tree /\ ~(rows = 0 /\ wd.gen # 0)
      BY DEF IInv, WorkerInStep
    <2>3. QED BY <2>1, <2>2 DEF IInv, Inv, NothingLost
  <1>2. QED BY <1>1, InStep, PTL

\* nix_lifecycle.go: evidence that the controller's row calls complete has been
\* handed over: the worker's row says released, its copies are gone, and every
\* file of its index is published.
THEOREM CompleteIsHandover == Spec => []CompleteIsHandedOver
  <1>1. IInv => CompleteIsHandedOver
    <2> SUFFICES ASSUME IInv, cd.ev = "complete"
                 PROVE  cd.handoff /\ wd.released /\ ~tree /\ IDs(wd.gen) \subseteq published
      BY DEF CompleteIsHandedOver
    <2>1. cd.handoff /\ wd.released
      BY DEF IInv, ControlInStep
    <2>2. wd.handoff /\ ~tree
      BY <2>1 DEF IInv, WorkerInStep
    <2>3. QED BY <2>1, <2>2 DEF IInv, AcknowledgedIsPublished
  <1>2. QED BY <1>1, InStep, PTL

=============================================================================
