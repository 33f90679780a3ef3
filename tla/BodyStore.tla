----------------------------- MODULE BodyStore -----------------------------
(***************************************************************************)
(* The files that hold command specifications, stdin packets and the       *)
(* intents of operations (state: bodies.go; control: repository.go,        *)
(* repository_commands.go, repository_retention.go).                       *)
(*                                                                         *)
(* A body is stored under the hash of its content, once, before the        *)
(* transaction that refers to it.  The sweep reads the references, lists   *)
(* the directory, and removes the files that are neither referred to nor   *)
(* young; it holds no lock against the writers.                            *)
(***************************************************************************)
EXTENDS Naturals

CONSTANTS
    Writers,        \* rows that refer to a body
    Bodies,         \* contents
    Content         \* the content each of them stores; several may store the same

ASSUME BodyAssumption == Content \in [Writers -> Bodies]

VARIABLES
    file,           \* bodies/: each file, and whether it is an hour old
    step,           \* each writer: PublishBody, then its transaction
    refs,           \* the rows committed, each referring to its content
    anchored,       \* history: the rows of refs that did not reuse an old orphan
    sweep,          \* where SweepBodies is
    known,          \* the references it has read
    entries         \* the directory entries it has still to look at

storeVars == <<file, step, refs, anchored, sweep, known, entries>>

StoreTypeOK ==
    /\ file \in [Bodies -> {"absent", "young", "old"}]
    /\ step \in [Writers -> {"idle", "wrote", "found"}]
    /\ refs \subseteq Writers /\ anchored \subseteq refs
    /\ sweep \in {"idle", "listing", "removing"}
    /\ known \subseteq Bodies /\ entries \subseteq Bodies

StoreInit ==
    /\ file = [b \in Bodies |-> "absent"]
    /\ refs = {} /\ anchored = {} /\ known = {} /\ entries = {}
    /\ step = [w \in Writers |-> "idle"]
    /\ sweep = "idle"

Referred(b) == \E w \in refs : Content[w] = b

----------------------------------------------------------------------------
(* Writers *)

(* PublishBody: a file that is there already is used as it is, with its    *)
(* age.                                                                    *)
Publish(w) ==
    LET b == Content[w]
    IN  /\ step[w] = "idle" /\ w \notin refs
        /\ step' = [step EXCEPT ![w] = IF file[b] = "absent" THEN "wrote"
                                                             ELSE "found"]
        /\ file' = [file EXCEPT ![b] = IF @ = "absent" THEN "young" ELSE @]
        /\ UNCHANGED <<refs, anchored, sweep, known, entries>>

\* The body of the row to be committed is younger than an hour, or a row that was
\* committed in this way refers to it: it is not an orphan that grew old.
Anchors(w) ==
    file[Content[w]] = "young" \/ \E v \in anchored : Content[v] = Content[w]

(* The transaction that refers to the body, which may fail. *)
Commit(w) ==
    /\ step[w] # "idle"
    /\ step' = [step EXCEPT ![w] = "idle"]
    /\ \/ /\ refs' = refs \cup {w}
          /\ anchored' = IF Anchors(w) THEN anchored \cup {w} ELSE anchored
       \/ UNCHANGED <<refs, anchored>>
    /\ UNCHANGED <<file, sweep, known, entries>>

(* A receipt is confirmed, or the details of an execution are pruned. *)
Release(w) ==
    /\ w \in refs
    /\ refs' = refs \ {w} /\ anchored' = anchored \ {w}
    /\ UNCHANGED <<file, step, sweep, known, entries>>

\* Mutant: the grace period is shorter than a transaction.
AgeEarly(b) ==
    /\ file[b] = "young"
    /\ sweep = "idle"
    /\ file' = [file EXCEPT ![b] = "old"]
    /\ UNCHANGED <<step, refs, anchored, sweep, known, entries>>

(* An hour passes since the file was written: longer than the transaction  *)
(* that follows, and than any sweep.                                       *)
Age(b) ==
    /\ file[b] = "young"
    /\ sweep = "idle"
    /\ \A w \in Writers : Content[w] = b => step[w] # "wrote"
    /\ file' = [file EXCEPT ![b] = "old"]
    /\ UNCHANGED <<step, refs, anchored, sweep, known, entries>>

----------------------------------------------------------------------------
(* SweepBodies; retentionMu admits one at a time *)

\* Mutant: what a receipt that has ended referred to counts as referred to.
SweepRefsAll ==
    /\ sweep = "idle"
    /\ sweep' = "listing"
    /\ known' = Bodies
    /\ UNCHANGED <<file, step, refs, anchored, entries>>

SweepRefs ==
    /\ sweep = "idle"
    /\ sweep' = "listing"
    /\ known' = {b \in Bodies : Referred(b)}
    /\ UNCHANGED <<file, step, refs, anchored, entries>>

SweepList ==
    /\ sweep = "listing"
    /\ sweep' = "removing"
    /\ entries' = {b \in Bodies : file[b] # "absent"}
    /\ UNCHANGED <<file, step, refs, anchored, known>>

\* Mutant: the age of the file is not looked at.
SweepYoung(b) ==
    /\ sweep = "removing" /\ b \in entries
    /\ entries' = entries \ {b}
    /\ file' = [file EXCEPT ![b] = IF b \notin known THEN "absent" ELSE @]
    /\ UNCHANGED <<step, refs, anchored, sweep, known>>

SweepEntry(b) ==
    /\ sweep = "removing" /\ b \in entries
    /\ entries' = entries \ {b}
    /\ file' = [file EXCEPT ![b] = IF b \notin known /\ @ = "old"
                                   THEN "absent" ELSE @]
    /\ UNCHANGED <<step, refs, anchored, sweep, known>>

SweepDone ==
    /\ sweep = "removing" /\ entries = {}
    /\ sweep' = "idle" /\ known' = {}
    /\ UNCHANGED <<file, step, refs, anchored, entries>>

\* An error ends the sweep early.
SweepFails ==
    /\ sweep # "idle"
    /\ sweep' = "idle" /\ known' = {} /\ entries' = {}
    /\ UNCHANGED <<file, step, refs, anchored>>

(* The service stops and starts again. *)
StoreRestart ==
    /\ step' = [w \in Writers |-> "idle"]
    /\ sweep' = "idle" /\ known' = {} /\ entries' = {}
    /\ UNCHANGED <<file, refs, anchored>>

----------------------------------------------------------------------------
(* Specification and properties *)

StoreNext ==
    \/ \E w \in Writers : Publish(w) \/ Commit(w) \/ Release(w)
    \/ \E b \in Bodies : Age(b) \/ SweepEntry(b)
    \/ SweepRefs \/ SweepList \/ SweepDone \/ SweepFails \/ StoreRestart

StoreSpec == StoreInit /\ [][StoreNext]_storeVars

(***************************************************************************)
(* Transactions end, time passes, and the scheduler sweeps every minute;   *)
(* errors and restarts do not end every sweep at the same point for ever.  *)
(***************************************************************************)
StoreFairness ==
    /\ \A w \in Writers : WF_storeVars(Commit(w))
    /\ WF_storeVars(SweepRefs) /\ SF_storeVars(SweepList) /\ WF_storeVars(SweepDone)
    /\ \A b \in Bodies : SF_storeVars(Age(b)) /\ SF_storeVars(SweepEntry(b))

StoreFairSpec == StoreSpec /\ StoreFairness

(* A body is young until its own transaction has ended, so that the sweep  *)
(* leaves it alone (repository_retention.go 83-85).                        *)
YoungWhileWritten == \A w \in Writers : step[w] = "wrote" => file[Content[w]] = "young"

(* A body that a row refers to is there, also when its content was stored  *)
(* before and while the sweep runs beside the writers, unless the row was  *)
(* committed to an orphan older than an hour, which keeps its age (bodies. *)
(* go 21-26, a known deviation) (repository_retention.go SweepBodies).     *)
AnchoredIsThere == \A w \in anchored : file[Content[w]] # "absent"

\* The same of every row, which a reused orphan violates.
ReferredIsThere == \A w \in refs : file[Content[w]] # "absent"

(* Both, also when the sweep runs beside the writers.                      *)
Inv == StoreTypeOK /\ YoungWhileWritten /\ AnchoredIsThere

(* A body that nothing refers to is removed in the end, unless a row       *)
(* refers to it again (repository_retention.go SweepBodies).               *)
OrphanIsRemoved ==
    \A b \in Bodies :
        file[b] # "absent" /\ ~Referred(b)
            ~> file[b] = "absent" \/ Referred(b)
=============================================================================
