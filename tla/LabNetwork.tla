----------------------------- MODULE LabNetwork -----------------------------
(***************************************************************************)
(* The network of a lab (control: network.go, the network operations of    *)
(* operations.go, degrade, openRelay and the lease part of observe in      *)
(* server.go, the router calls of vbox.go, and internal/router).           *)
(*                                                                         *)
(* The router forwards traffic only while a lease that the controller      *)
(* renews has not run out.  Heartbeats and network operations take the     *)
(* network lock and apply the current policy with several calls into the   *)
(* router; the observer that notices an expired lease does not take it.    *)
(* A policy is the egress switch and the published entries; the one the    *)
(* router gives itself when it is initialized has neither, and a lease of  *)
(* its own length.  Time is counted in ticks.                              *)
(***************************************************************************)
EXTENDS Naturals, FiniteSets

CONSTANTS
    Entries,        \* identities of endpoints
    Lease,          \* network.lease_seconds in ticks
    BootLease,      \* the lease of router.Init in ticks, whatever lease_seconds is
    MaxBoots,       \* bound: boots of the router
    None

ASSUME NetworkAssumption ==
    /\ Lease \in Nat \ {0} /\ BootLease \in Nat \ {0} /\ MaxBoots \in Nat \ {0}
    /\ IsFiniteSet(Entries) /\ None \notin Entries

VARIABLES
    task,           \* Task.State and Task.Cleanup
    live,           \* whether the runtime's context is not cancelled
    work,           \* what is left of the workload the run chose
    net,            \* Network, NetworkLeaseExpires, RouterBootID and the policy
                    \* of NetworkPolicyHash
    internet,       \* Lab.Internet
    entry,          \* the state of an endpoint
    relays,         \* Runtime.relays
    forwards,       \* NAT rules of the router VM
    router,         \* the router guest: whether it answers, its boot, the rules in
                    \* force, applied.json and what is left of the lease
    op,             \* the holder of the network lock
    asked,          \* network operations that wait for the lock
    beat,           \* the heartbeat poll
    expired         \* the observer saw an expired lease

netVars == <<net, internet, entry, relays, forwards, router, op, asked, beat,
             expired>>

\* The policy of router.Init protects no host addresses, so that it is not the
\* policy of any lab.
Policies == [lab : BOOLEAN, internet : BOOLEAN, entries : SUBSET Entries]
Base == [lab |-> FALSE, internet |-> FALSE, entries |-> {}]
NoOp == [kind |-> "none", at |-> "none", entry |-> None, policy |-> Base,
         hash |-> FALSE, boot |-> 0, age |-> 0, todo |-> {}, renew |-> FALSE,
         code |-> "none"]
Requests == [kind : {"change", "recover", "create", "close"},
             entry : Entries \cup {None}, internet : BOOLEAN]

Networks == [state : {"pending", "ready", "suspect", "degraded"},
             lease : 0 .. Lease, boot : 0 .. MaxBoots, policy : Policies]
States == {"none", "opening", "open", "suspended", "closing", "closed", "release_failed"}
Routers == [on : BOOLEAN, boot : 1 .. MaxBoots, rules : Policies, applied : Policies,
            lease : Nat]
Operations ==
    [kind : {"none", "prepare", "heartbeat", "change", "recover", "create", "close"},
     at : {"none", "refresh", "router", "probe", "apply", "reply", "broken", "restore",
           "confirm", "open", "publish", "release", "failed"},
     entry : Entries \cup {None}, policy : Policies, hash : BOOLEAN,
     boot : 0 .. MaxBoots, age : 0 .. Lease, todo : SUBSET Entries,
     renew : BOOLEAN, code : {"none", "transient", "hard"}]

NetTypeOK ==
    /\ net \in Networks /\ internet \in BOOLEAN
    /\ entry \in [Entries -> States]
    /\ relays \subseteq Entries /\ forwards \subseteq Entries
    /\ router \in Routers /\ op \in Operations /\ asked \subseteq Requests
    /\ beat \in {"idle", "waiting", "running", "degrade"}
    /\ expired \in BOOLEAN

NetInit ==
    /\ net = [state |-> "pending", lease |-> 0, boot |-> 0, policy |-> Base]
    /\ internet = TRUE
    /\ entry = [e \in Entries |-> "none"]
    /\ relays = {} /\ forwards = {}
    /\ router = [on |-> FALSE, boot |-> 1, rules |-> Base, applied |-> Base,
                 lease |-> BootLease]
    /\ op = NoOp /\ asked = {} /\ beat = "idle" /\ expired = FALSE
-----------------------------------------------------------------------------
Ended == task.state = "ended"
Healthy == net.state \in {"ready", "suspect"}
Declared == {e \in Entries : entry[e] \notin {"none", "closed"}}
TaskPolicy == [lab |-> TRUE, internet |-> internet, entries |-> Declared]
Listening == IF live THEN relays ELSE {}

Refreshing(kind, e) == [NoOp EXCEPT !.kind = kind, !.at = "refresh", !.entry = e]
Step(at) == op' = [op EXCEPT !.at = at]
Fail(code) == op' = [op EXCEPT !.at = "failed", !.code = code]

\* degrade: relays close, open entries are suspended; nothing happens to a lab
\* that ended or is degraded already.
Degrade(entries) ==
    IF Ended \/ net.state = "degraded"
    THEN entry' = entries /\ UNCHANGED <<net, relays>>
    ELSE /\ net' = [net EXCEPT !.state = "degraded"]
         /\ relays' = {}
         /\ entry' = [e \in Entries |-> IF entries[e] = "open" THEN "suspended"
                                        ELSE entries[e]]
-----------------------------------------------------------------------------
(* refreshNetworkAttempt and the calls of VBoxBackend.Network.             *)

\* The snapshot and its hash, and the lease it must still have.
Refresh ==
    /\ op.at = "refresh"
    /\ IF op.kind # "recover" /\ (net.state = "degraded" \/ (Healthy /\ net.lease = 0))
       THEN op' = [op EXCEPT !.at = "failed", !.code = "hard", !.hash = TRUE,
                             !.policy = TaskPolicy]
       ELSE op' = [op EXCEPT !.at = IF op.kind = "recover" THEN "router" ELSE "probe",
                             !.hash = TRUE, !.policy = TaskPolicy, !.todo = Declared]
    /\ UNCHANGED <<task, live, work, net, internet, entry, relays, forwards,
                   router, asked, beat, expired>>

\* The host's protected addresses could not be read: there is no hash yet.
NoProtection ==
    /\ op.at = "refresh" /\ work.beats
    /\ Fail("hard")
    /\ UNCHANGED <<task, live, work, net, internet, entry, relays, forwards,
                   router, asked, beat, expired>>

\* Apply in the router: the same policy only renews the lease; another one
\* replaces the rules first and is noted in applied.json last.
Apply(policy, lease, complete) ==
    IF router.applied = policy THEN [router EXCEPT !.lease = lease]
    ELSE [router EXCEPT !.lease = lease, !.rules = policy,
                        !.applied = IF complete THEN policy ELSE @]

\* A Live ISO boots closed: router.Init with its own lease.
Booted == [on |-> TRUE, boot |-> router.boot + 1, rules |-> Base, applied |-> Base,
           lease |-> BootLease]

\* recoverRouter: start it when it is off, and initialize it again, until an
\* attempt does not break off.
RecoverRouter(complete) ==
    /\ op.at = "router" /\ live
    /\ IF router.on THEN router' = Apply(Base, BootLease, complete)
       ELSE router.boot < MaxBoots /\ router' = Booted
    /\ IF complete THEN Step("probe") ELSE UNCHANGED op
    /\ UNCHANGED <<task, live, work, net, internet, entry, relays, forwards,
                   asked, beat, expired>>

\* The identity of the router.  A boot that nobody recovered is refused.
\* The lease counts from here, before the policy is sent.
Probe ==
    /\ op.at = "probe" /\ router.on /\ live
    /\ IF op.kind # "recover" /\ net.boot \notin {0, router.boot}
       THEN Fail("hard")
       ELSE op' = [op EXCEPT !.at = "apply", !.boot = router.boot, !.age = 0]
    /\ UNCHANGED <<task, live, work, net, internet, entry, relays, forwards,
                   router, asked, beat, expired>>

\* The policy of the lab is applied.
RouterApplies(complete) ==
    /\ op.at = "apply" /\ router.on /\ live
    /\ complete \/ router.applied # op.policy
    /\ router' = Apply(op.policy, Lease, complete)
    /\ Step(IF complete THEN "reply" ELSE "broken")
    /\ UNCHANGED <<task, live, work, net, internet, entry, relays, forwards,
                   asked, beat, expired>>

\* Mutant: the lease counts from the reply, not from before the application.
AckedFromReply ==
    /\ op.at = "reply" /\ live
    /\ op' = [op EXCEPT !.age = 0, !.at = IF op.kind = "recover" /\ op.todo # {}
                                           THEN "restore" ELSE "confirm"]
    /\ UNCHANGED <<task, live, work, net, internet, entry, relays, forwards,
                   router, asked, beat, expired>>

\* The acknowledgement is worth nothing once its own lease ran out.
Acked ==
    /\ op.at = "reply" /\ live
    /\ IF op.age = Lease THEN Fail("hard")
       ELSE Step(IF op.kind = "recover" /\ op.todo # {} THEN "restore" ELSE "confirm")
    /\ UNCHANGED <<task, live, work, net, internet, entry, relays, forwards,
                   router, asked, beat, expired>>

\* openRelay of an endpoint that the recovery restores.
Restore(e) ==
    /\ op.at = "restore" /\ e \in op.todo /\ live
    /\ forwards' = forwards \cup {e} /\ relays' = relays \cup {e}
    /\ op' = [op EXCEPT !.todo = @ \ {e},
                        !.at = IF op.todo = {e} THEN "confirm" ELSE "restore"]
    /\ UNCHANGED <<task, live, work, net, internet, entry, router, asked, beat,
                   expired>>

RestoreFails ==
    /\ op.at = "restore"
    /\ relays' = {} /\ Fail("hard")
    /\ UNCHANGED <<task, live, work, net, internet, entry, forwards, router,
                   asked, beat, expired>>

AfterConfirm ==
    CASE op.kind = "create" -> [op EXCEPT !.at = "open"]
      [] op.kind = "close" -> [op EXCEPT !.at = "publish"]
      [] OTHER -> NoOp

Confirm ==
    /\ op.at = "confirm"
    /\ IF Ended \/ (net.state = "degraded" /\ op.kind # "recover")
       THEN Fail("hard") /\ UNCHANGED <<net, entry, beat>>
       ELSE /\ net' = [state |-> "ready", lease |-> Lease - op.age, boot |-> op.boot,
                       policy |-> op.policy]
            /\ entry' = [e \in Entries |->
                           IF op.kind = "recover" /\ e \in Declared THEN "open" ELSE entry[e]]
            /\ op' = AfterConfirm
            /\ beat' = IF op.kind = "heartbeat" THEN "idle" ELSE beat
    /\ UNCHANGED <<task, live, work, internet, relays, forwards, router, asked, expired>>

\* A call into the router or the host fails or runs out of its budget, with or
\* without its effect.
CallFails(code) ==
    /\ op.at \in {"router", "probe", "apply", "reply", "broken", "open", "release"}
    /\ work.beats \/ ~live
    /\ Fail(code)
    /\ UNCHANGED <<task, live, work, net, internet, entry, relays, forwards,
                   router, asked, beat, expired>>
-----------------------------------------------------------------------------
(* heartbeatNetwork and the lease check of observe.                        *)

BeatDue ==
    /\ work.beats /\ beat = "idle" /\ Healthy /\ ~Ended /\ live
    /\ beat' = "waiting"
    /\ UNCHANGED <<task, live, work, net, internet, entry, relays, forwards,
                   router, op, asked, expired>>

BeatLocks ==
    /\ beat = "waiting" /\ op = NoOp
    /\ IF Healthy /\ ~Ended
       THEN op' = Refreshing("heartbeat", None) /\ beat' = "running"
       ELSE beat' = "idle" /\ UNCHANGED op
    /\ UNCHANGED <<task, live, work, net, internet, entry, relays, forwards,
                   router, asked, expired>>

\* Mutant: a late application of another policy is tolerated too.
TolerableAnyPolicy(transient, unchanged) ==
    transient /\ ~Ended /\ Healthy /\ net.lease > 0

\* A late observation is tolerable while an unchanged, confirmed policy lease
\* still protects the network.
Tolerable(transient, unchanged) ==
    transient /\ unchanged /\ ~Ended /\ Healthy /\ net.lease > 0

\* The lock was not free within the budget.
BeatLate ==
    /\ beat = "waiting" /\ op # NoOp
    /\ IF ~live THEN beat' = "idle" /\ UNCHANGED net
       ELSE IF Tolerable(TRUE, TRUE)
            THEN beat' = "idle" /\ net' = [net EXCEPT !.state = "suspect"]
            ELSE beat' = "degrade" /\ UNCHANGED net
    /\ UNCHANGED <<task, live, work, internet, entry, relays, forwards, router,
                   op, asked, expired>>

BeatDegrades ==
    /\ beat = "degrade" /\ beat' = "idle"
    /\ Degrade(entry)
    /\ UNCHANGED <<task, live, work, internet, forwards, router, op, asked, expired>>

BeatFailed ==
    /\ op.kind = "heartbeat" /\ op.at = "failed"
    /\ op' = NoOp /\ beat' = "idle"
    /\ IF ~live THEN UNCHANGED <<net, entry, relays>>
       ELSE IF Tolerable(op.code = "transient", op.hash /\ op.policy = net.policy)
            THEN net' = [net EXCEPT !.state = "suspect"] /\ UNCHANGED <<entry, relays>>
            ELSE Degrade(entry)
    /\ UNCHANGED <<task, live, work, internet, forwards, router, asked, expired>>

ObserveExpiry ==
    /\ ~expired /\ Healthy /\ net.lease = 0 /\ ~Ended /\ live
    /\ expired' = TRUE
    /\ UNCHANGED <<task, live, work, net, internet, entry, relays, forwards,
                   router, op, asked, beat>>

\* degrade looks again: the lease may have been renewed since.
Expire ==
    /\ expired /\ expired' = FALSE
    /\ IF net.lease > 0 THEN UNCHANGED <<net, entry, relays>> ELSE Degrade(entry)
    /\ UNCHANGED <<task, live, work, internet, forwards, router, op, asked, beat>>
-----------------------------------------------------------------------------
(* network_set, network_recover, endpoint_create and endpoint_close.       *)

Admissible(q) ==
    /\ task.state = "running"
    /\ q.kind = "change" => net.state = "ready"
    /\ q.kind = "create" => net.state = "ready"

\* The checks before the gate and the lock; q.entry is a new or a known entry.
Ask(q) ==
    /\ work.net > 0 /\ live /\ q \notin asked
    /\ Admissible(q)
    /\ (q.kind \in {"create", "close"}) = (q.entry # None)
    /\ q.kind = "create" => entry[q.entry] = "none" /\ \A p \in asked : p.entry # q.entry
    /\ q.kind = "close" => entry[q.entry] # "none"
    /\ q.kind # "change" => ~q.internet
    /\ asked' = asked \cup {q}
    /\ work' = [work EXCEPT !.net = @ - 1]
    /\ UNCHANGED <<task, live, net, internet, entry, relays, forwards, router,
                   op, beat, expired>>

\* The deadline passed, or the lab ended, or the second check fails.
Refused(q) ==
    /\ q \in asked /\ (op # NoOp \/ ~live \/ ~Admissible(q))
    /\ asked' = asked \ {q}
    /\ UNCHANGED <<task, live, work, net, internet, entry, relays, forwards,
                   router, op, beat, expired>>

Perform(q) ==
    /\ q \in asked /\ op = NoOp /\ live /\ Admissible(q)
    /\ asked' = asked \ {q}
    /\ internet' = IF q.kind = "change" THEN q.internet ELSE internet
    /\ relays' = CASE q.kind = "recover" -> {}
                   [] q.kind = "close" -> relays \ {q.entry}
                   [] OTHER -> relays
    /\ entry' = CASE q.kind = "create" -> [entry EXCEPT ![q.entry] = "opening"]
                  [] q.kind = "close" -> [entry EXCEPT ![q.entry] = "closing"]
                  [] OTHER -> entry
    /\ op' = IF q.kind = "close"
             THEN [NoOp EXCEPT !.kind = "close", !.at = "release", !.entry = q.entry,
                               !.renew = (net.state = "ready")]
             ELSE Refreshing(q.kind, q.entry)
    /\ UNCHANGED <<task, live, work, net, forwards, router, beat, expired>>

\* endpoint_create could not save its entry: it stays as it is.
CreateUnsaved(q) ==
    /\ q \in asked /\ q.kind = "create" /\ op = NoOp /\ live /\ Admissible(q)
    /\ work.faults > 0
    /\ work' = [work EXCEPT !.faults = @ - 1]
    /\ asked' = asked \ {q}
    /\ entry' = [entry EXCEPT ![q.entry] = "opening"]
    /\ UNCHANGED <<task, live, net, internet, relays, forwards, router, op,
                   beat, expired>>

\* openRelay of the new endpoint.
OpenRelay ==
    /\ op.at = "open" /\ router.on /\ live
    /\ forwards' = forwards \cup {op.entry} /\ relays' = relays \cup {op.entry}
    /\ Step("publish")
    /\ UNCHANGED <<task, live, work, net, internet, entry, router, asked, beat, expired>>

\* The NAT rule of the endpoint is deleted; then the policy is refreshed.
Unforward ==
    /\ op.at = "release" /\ router.on /\ live
    /\ forwards' = forwards \ {op.entry}
    /\ Step(IF op.renew THEN "refresh" ELSE "publish")
    /\ UNCHANGED <<task, live, work, net, internet, entry, relays, router,
                   asked, beat, expired>>

Publish ==
    /\ op.at = "publish"
    /\ entry' = [entry EXCEPT ![op.entry] = IF op.kind = "create" THEN "open" ELSE "closed"]
    /\ op' = NoOp
    /\ UNCHANGED <<task, live, work, net, internet, relays, forwards, router,
                   asked, beat, expired>>

\* An explicit mutation fails closed.
OperationFailed ==
    /\ op.kind \in {"change", "recover", "create", "close"} /\ op.at = "failed"
    /\ op' = NoOp
    /\ Degrade(CASE op.kind = "create" -> [entry EXCEPT ![op.entry] = "suspended"]
                 [] op.kind = "close" -> [entry EXCEPT ![op.entry] = "release_failed"]
                 [] OTHER -> entry)
    /\ UNCHANGED <<task, live, work, internet, forwards, router, asked, beat, expired>>
-----------------------------------------------------------------------------
(* The router VM and time.                                                 *)

Less(n) == IF n = 0 THEN 0 ELSE n - 1

\* Nothing depends on time or on the router's state once the lab ended; the
\* first lease of a router begins with its boot.
Tick ==
    /\ work.beats /\ ~Ended
    /\ net' = [net EXCEPT !.lease = Less(@)]
    /\ router' = IF router.on THEN [router EXCEPT !.lease = Less(@)] ELSE router
    /\ op' = IF op.at \in {"apply", "reply", "broken", "restore", "confirm"} /\ op.age < Lease
             THEN [op EXCEPT !.age = @ + 1] ELSE op
    /\ UNCHANGED <<task, live, work, internet, entry, relays, forwards, asked,
                   beat, expired>>

\* The router reboots by itself, or its VM stops.
RouterReboots ==
    /\ work.beats /\ ~Ended /\ router.on /\ router.boot < MaxBoots
    /\ \E up \in BOOLEAN :
         router' = IF up THEN Booted ELSE [router EXCEPT !.on = FALSE]
    /\ UNCHANGED <<task, live, work, net, internet, entry, relays, forwards,
                   op, asked, beat, expired>>

NetNext ==
    \/ Refresh \/ NoProtection \/ Probe
    \/ \E complete \in BOOLEAN : RecoverRouter(complete) \/ RouterApplies(complete)
    \/ Acked \/ RestoreFails \/ Confirm \/ \E e \in Entries : Restore(e)
    \/ \E code \in {"transient", "hard"} : CallFails(code)
    \/ BeatDue \/ BeatLocks \/ BeatLate \/ BeatDegrades \/ BeatFailed
    \/ ObserveExpiry \/ Expire
    \/ \E q \in Requests : Ask(q)
    \/ \E q \in asked : Refused(q) \/ Perform(q) \/ CreateUnsaved(q)
    \/ OpenRelay \/ Unforward \/ Publish \/ OperationFailed
    \/ Tick \/ RouterReboots
-----------------------------------------------------------------------------
(* Properties.                                                             *)

\* The router that was confirmed and the one that runs are the same boot.
SameBoot == router.on /\ router.boot = net.boot

\* A recovery shortens the lease of a router when Lease is longer than BootLease,
\* until it applies the policy again or degrades the network.
Shortened == Lease > BootLease /\ (op.kind = "recover" \/ ~live \/ Ended)

\* "It cannot overstate the guest's actual remaining lease lifetime"
\* (network.go): while the controller counts on a confirmed lease, the router
\* enforces one that lasts at least as long, however late replies, heartbeats,
\* failed applications and broken off recoveries interleave.  The exception is
\* a recovery of a working network while it goes on (and a lab that is over):
\* router.Init grants 15 seconds even when lease_seconds is more.
LeaseIsConservative ==
    Healthy /\ SameBoot /\ ~Shortened => router.lease >= net.lease

\* While nobody changes the network, a network that is shown ready or suspect
\* runs the rules of the policy that was confirmed: an application that broke
\* off half way, or one whose acknowledgement was lost, never passes for a late
\* observation of the old policy.
RulesAreConfirmed ==
    live /\ ~Ended /\ Healthy /\ SameBoot /\ op = NoOp => router.rules = net.policy
=============================================================================
