--------------------------- MODULE SessionLedger ---------------------------
(***************************************************************************)
(* What the root executor promises its worker about the Nix sessions it    *)
(* owns, without how it keeps the promise.                                 *)
(*                                                                         *)
(*   ledger[t]  the durable receipt of worker job t: no receipt, a session *)
(*              the executor is responsible for, or a released session;    *)
(*   live       the jobs with processes of their session still running.    *)
(*                                                                         *)
(* NixExecutor implements this specification; NixWorker is composed with   *)
(* it in place of the executor's internals.                                *)
(***************************************************************************)
CONSTANTS Tasks

VARIABLES ledger, live

lvars == <<ledger, live>>

Receipts == {"none", "open", "released"}

LTypeOK == ledger \in [Tasks -> Receipts] /\ live \subseteq Tasks

LInit == ledger = [t \in Tasks |-> "none"] /\ live = {}

\* A session is opened for a job without a receipt, one session at a time.
Admit(t) ==
    /\ \A u \in Tasks : ledger[u] # "open"
    /\ ledger[t] = "none"
    /\ ledger' = [ledger EXCEPT ![t] = "open"]
    /\ UNCHANGED live

\* Processes of an open session come and go.
Run(t) ==
    /\ ledger[t] = "open"
    /\ live' \in {live \cup {t}, live \ {t}}
    /\ UNCHANGED ledger

\* The receipt is written only when nothing of the session is running.
Release(t) ==
    /\ ledger[t] = "open"
    /\ t \notin live
    /\ ledger' = [ledger EXCEPT ![t] = "released"]
    /\ UNCHANGED live

\* A stop that arrives before any admission leaves a released receipt.
Seal(t) ==
    /\ ledger[t] = "none"
    /\ ledger' = [ledger EXCEPT ![t] = "released"]
    /\ UNCHANGED live

\* A released receipt is forgotten when its retention has passed.
Forget(t) ==
    /\ ledger[t] = "released"
    /\ ledger' = [ledger EXCEPT ![t] = "none"]
    /\ UNCHANGED live

\* The end of the service or of the host kills every process at once.
KillAll == live' = {} /\ UNCHANGED ledger

LNext ==
    \/ \E t \in Tasks : Admit(t) \/ Run(t) \/ Release(t) \/ Seal(t) \/ Forget(t)
    \/ KillAll

LSpec == LInit /\ [][LNext]_lvars

=============================================================================
