----------------------------- MODULE LabProofs -----------------------------
(***************************************************************************)
(* Proofs about a lab and its network, for every set of nodes, endpoints   *)
(* and power operations, any lease and any workload.                       *)
(*                                                                         *)
(* The inductive invariant IInv has three parts that each step is shown to *)
(* keep on their own: the network (who holds its lock, how old the lease   *)
(* is that will be confirmed, which rules the router runs meanwhile), the  *)
(* nodes with their cleanup (what preparation may still create, what a     *)
(* deletion has left), and the power operations (which observation may     *)
(* count for which operation).  For each action that touches a record, one *)
(* lemma says what it does to the fields; the proofs about the invariant   *)
(* use those lemmas and not the records.                                   *)
(***************************************************************************)
EXTENDS Lab, TLAPS

-----------------------------------------------------------------------------
(* The inductive invariant: the network.                                   *)

Mutations == {"change", "recover", "create", "close"}
Sent == {"apply", "reply", "broken", "restore", "confirm"}
Answered == {"reply", "restore", "confirm"}

\* The operation that holds the network lock is one of its own kind of steps.
NetShape ==
    /\ \A q \in asked : (q.kind \in {"create", "close"}) = (q.entry # None)
    /\ op.kind \in {"create", "close"} => op.entry \in Entries
    /\ op.at = "open" => op.kind = "create"
    /\ op.at \in {"publish", "release"} => op.kind \in {"create", "close"}
    /\ op.at \in {"router", "restore"} => op.kind = "recover"
    /\ op.at \in Sent => op.boot # 0
    /\ op.at \in {"router", "probe"} \cup Sent => op.policy # Base

\* Nobody uses a network that prepare has not confirmed yet.
PendingIsQuiet ==
    /\ net.state = "pending" => /\ net.boot = 0 /\ op.kind \in {"none", "prepare"}
                                /\ beat = "idle" /\ ~expired
    /\ net.state # "pending" => net.boot # 0
    /\ main = "router" => net.state = "pending" /\ op = NoOp
    /\ main = "network" => op.kind = "prepare" \/ net.state # "pending"
    /\ main = "nodes" \/ task.state = "running" => net.state # "pending"

\* Boots only go up, and a lease in the router is not shorter than the one that
\* is confirmed, or will be, unless a recovery has shortened it.
LeaseInStep ==
    /\ op.boot <= router.boot /\ net.boot <= router.boot
    /\ Healthy /\ router.boot = net.boot /\ ~Shortened => router.lease >= net.lease
    /\ op.at \in Answered /\ router.boot = op.boot => router.lease + op.age >= Lease

\* applied.json tells what the rules are, or it is the one that router.Init wrote.
Clean == router.rules = router.applied \/ router.applied = Base
Confirmed ==
    router.boot = net.boot => router.rules = net.policy /\ router.applied = net.policy

\* The holder of the lock has not changed the confirmed boot's rules: it has
\* not sent a policy yet, it has been confirmed, or it is a heartbeat that
\* sends the same one again.
Untouched ==
    \/ op.at \in {"none", "refresh", "open", "publish", "release"}
    \/ op.kind # "recover" /\ op.at \in {"probe", "apply"}
    \/ /\ op.kind = "heartbeat" /\ op.policy = net.policy
       /\ op.at \in {"reply", "broken", "confirm", "failed"}

\* What the rules of the router are while an operation goes on.
RulesInStep ==
    live /\ ~Ended =>
        /\ net.state = "pending" /\ op.at \in {"none", "refresh"} => Clean
        /\ Healthy /\ Untouched => Confirmed
        /\ op.at = "probe" /\ (op.kind = "recover" \/ net.boot \in {0, router.boot}) => Clean
        /\ op.at = "apply" /\ router.boot = op.boot => Clean
        /\ op.at \in Answered /\ router.boot = op.boot =>
               router.rules = op.policy /\ router.applied = op.policy
-----------------------------------------------------------------------------
(* The inductive invariant: the nodes and their cleanup.                   *)

\* The runtime stays cancelled once the lab is cleaned up, and one caller at a
\* time does it.
CleanupInStep ==
    /\ \/ \E c \in Cleaners : cleaner[c] # "idle"
       \/ task.cleanup # "pending" \/ main \in {"cleanup", "over"}
       => Ended
    /\ Holder # {} => task.cleanup = "running"
    /\ task.cleanup # "pending" => ~live
    /\ ~live => Ended \/ main = "down"
    /\ \A c, d \in Holder : c = d

\* The VM of a node that preparation has not come to does not exist while the
\* lab lives, and nothing is deleted or clean then.
PreparationInStep ==
    \A n \in Nodes :
        /\ prep[n] \in {"create", "configure", "start", "probe"} => node[n].intent = "saved"
        /\ live => del[n].at = "none" /\ ~node[n].cleaned
        /\ live /\ prep[n] = "idle" => vm[n].power = "absent"
        /\ del[n].at \in {"list", "recheck", "unregister", "verify"} => del[n].tries < MaxTries

\* A deletion that did not fail has removed the VM.
DeletionInStep ==
    /\ Writing => \A n \in Nodes : del[n].at \in {"none", "verify", "done"} => vm[n].power = "absent"
    /\ (\E c \in Cleaners : cleaner[c] = "finish") /\ ~troubled =>
           \A n \in Nodes : vm[n].power = "absent"

\* Whoever deletes has the gate for itself, and nobody comes after it.
GateInStep ==
    \/ Writing \/ task.cleanup = "complete"
    \/ (\E c \in Cleaners : cleaner[c] = "finish") /\ ~troubled
    => asked = {} /\ op.kind \notin Mutations
-----------------------------------------------------------------------------
(* The inductive invariant: power operations.                              *)

\* An operation is asked once, of one node.
CallShape ==
    \A c \in Calls :
        /\ call[c].at # "idle" =>
               call[c].node \in Clients /\ call[c].action \in {"start", "poweroff", "reset"}
        /\ c \in work.calls =>
               /\ call[c].at = "idle"
               /\ \A n \in Nodes : node[n].expected.call # c /\ probe[n].call # c
        /\ call[c].at \in {"replied", "waiting"} /\ call[c].action # "start" => call[c].held

\* The state that a node is expected in is the one its last operation asked for.
ExpectedInStep ==
    \A n \in Nodes, c \in Calls :
        node[n].expected.call = c /\ call[c].at # "idle" =>
            /\ call[c].node = n /\ call[c].at \notin {"asked", "gated"}
            /\ node[n].expected.power = IF call[c].action = "poweroff" THEN "off" ELSE "running"
            /\ call[c].at \in {"sent", "replied"} =>
                   ~node[n].expected.ready /\ ~node[n].expected.dispatched
            /\ call[c].at = "waiting" /\ node[n].expected.ready => call[c].held
            /\ call[c].at \in {"replied", "waiting"} /\ vm[n].power = "running" => call[c].held

\* An observation that an operation may count on began after its dispatch.
ProbeInStep ==
    \A n \in Nodes, c \in Calls :
        probe[n].call = c /\ probe[n].dispatched =>
            /\ call[c].at \notin {"asked", "gated", "sent", "replied"}
            /\ /\ probe[n].at = "seen" /\ probe[n].saw = "running"
               /\ node[n].expected.call = c /\ call[c].at = "waiting"
               => call[c].held

NetInv == NetTypeOK /\ NetShape /\ LeaseInStep
PowerInv == CallShape /\ ExpectedInStep /\ ProbeInStep /\ PowerIsObserved
CleanInv == /\ CleanupInStep /\ PreparationInStep /\ VMIsRecorded
            /\ DeletionInStep /\ GateInStep /\ ReleasedIsGone
IInv == TypeOK /\ NetInv /\ PendingIsQuiet /\ RulesInStep /\ CleanInv /\ PowerInv
-----------------------------------------------------------------------------
(* The network's records.                                                  *)

Ats == {"none", "refresh", "router", "probe", "apply", "reply", "broken", "restore",
        "confirm", "open", "publish", "release", "failed"}
Kinds == {"none", "prepare", "heartbeat", "change", "recover", "create", "close"}

\* The holder of the lock goes on to another step of its operation.
Moved(at) ==
    /\ op' \in Operations /\ op'.at = at /\ op'.kind = op.kind /\ op'.entry = op.entry
    /\ op'.policy = op.policy /\ op'.boot = op.boot /\ op'.age = op.age

\* An operation begins.
Began(kind, at, e) ==
    /\ op' \in Operations /\ op'.at = at /\ op'.kind = kind /\ op'.entry = e
    /\ op'.policy = Base /\ op'.boot = 0 /\ op'.age = 0

\* The fields of the records.
LEMMA NetFields ==
  /\ \A o \in Operations : /\ o.at \in Ats /\ o.kind \in Kinds /\ o.entry \in Entries \cup {None}
                           /\ o.policy \in Policies /\ o.boot \in 0 .. MaxBoots
                           /\ o.age \in 0 .. Lease /\ o.todo \in SUBSET Entries
  /\ \A r \in Routers : /\ r.on \in BOOLEAN /\ r.boot \in 1 .. MaxBoots /\ r.lease \in Nat
                        /\ r.rules \in Policies /\ r.applied \in Policies
  /\ \A s \in Networks : /\ s.state \in {"pending", "ready", "suspect", "degraded"}
                         /\ s.lease \in 0 .. Lease /\ s.boot \in 0 .. MaxBoots
                         /\ s.policy \in Policies
  /\ \A q \in Requests : q.kind \in Mutations /\ q.entry \in Entries \cup {None}
                         /\ q.internet \in BOOLEAN
  <1>1. \A o \in Operations : /\ o.at \in Ats /\ o.kind \in Kinds /\ o.entry \in Entries \cup {None}
                              /\ o.policy \in Policies /\ o.boot \in 0 .. MaxBoots
                              /\ o.age \in 0 .. Lease /\ o.todo \in SUBSET Entries
    BY DEF Operations, Ats, Kinds
  <1>2. \A r \in Routers : /\ r.on \in BOOLEAN /\ r.boot \in 1 .. MaxBoots /\ r.lease \in Nat
                           /\ r.rules \in Policies /\ r.applied \in Policies
    BY DEF Routers
  <1>3. \A s \in Networks : /\ s.state \in {"pending", "ready", "suspect", "degraded"}
                            /\ s.lease \in 0 .. Lease /\ s.boot \in 0 .. MaxBoots
                            /\ s.policy \in Policies
    BY DEF Networks
  <1>4. \A q \in Requests : q.kind \in Mutations /\ q.entry \in Entries \cup {None}
                            /\ q.internet \in BOOLEAN
    BY DEF Requests, Mutations
  <1>5. QED BY <1>1, <1>2, <1>3, <1>4

\* The numbers among them, for arithmetic.
LEMMA NetNumbers ==
  ASSUME NetTypeOK
  PROVE  /\ Lease \in Nat /\ Lease # 0 /\ BootLease \in Nat /\ MaxBoots \in Nat /\ MaxBoots # 0
         /\ op.boot \in Nat /\ op.boot <= MaxBoots /\ op.age \in Nat /\ op.age <= Lease
         /\ router.boot \in Nat /\ router.boot # 0 /\ router.boot <= MaxBoots
         /\ router.lease \in Nat
         /\ net.boot \in Nat /\ net.boot <= MaxBoots /\ net.lease \in Nat /\ net.lease <= Lease
  <1>1. op \in Operations /\ router \in Routers /\ net \in Networks
    BY DEF NetTypeOK
  <1>2. /\ op.boot \in 0 .. MaxBoots /\ op.age \in 0 .. Lease /\ router.boot \in 1 .. MaxBoots
        /\ router.lease \in Nat /\ net.boot \in 0 .. MaxBoots /\ net.lease \in 0 .. Lease
    BY <1>1, NetFields
  <1>3. QED BY <1>2, NetworkAssumption

\* No operation.
LEMMA NoOpFields ==
  /\ NoOp \in Operations /\ NoOp.at = "none" /\ NoOp.kind = "none" /\ NoOp.entry = None
  /\ NoOp.policy = Base /\ NoOp.boot = 0 /\ NoOp.age = 0 /\ Base \in Policies
  <1>1. Base \in Policies
    BY DEF Base, Policies
  <1>2. NoOp \in Operations
    BY <1>1, NetworkAssumption DEF NoOp, Operations
  <1>3. /\ NoOp.at = "none" /\ NoOp.kind = "none" /\ NoOp.entry = None
        /\ NoOp.policy = Base /\ NoOp.boot = 0 /\ NoOp.age = 0
    BY DEF NoOp
  <1>4. QED BY <1>1, <1>2, <1>3

\* One step of the operation.
LEMMA StepMoves ==
  ASSUME op \in Operations, NEW at \in Ats, Step(at)
  PROVE  Moved(at)
  <1>1. op' = [op EXCEPT !.at = at]
    BY DEF Step
  <1>2. op' \in Operations
    BY <1>1 DEF Operations, Ats
  <1>3. /\ op'.at = at /\ op'.kind = op.kind /\ op'.entry = op.entry
        /\ op'.policy = op.policy /\ op'.boot = op.boot /\ op'.age = op.age
    BY <1>1 DEF Operations
  <1>4. QED BY <1>2, <1>3 DEF Moved

\* The operation fails.
LEMMA FailMoves ==
  ASSUME op \in Operations, NEW code \in {"transient", "hard"}, Fail(code)
  PROVE  Moved("failed")
  <1>1. op' = [op EXCEPT !.at = "failed", !.code = code]
    BY DEF Fail
  <1>2. op' \in Operations
    BY <1>1 DEF Operations
  <1>3. /\ op'.at = "failed" /\ op'.kind = op.kind /\ op'.entry = op.entry
        /\ op'.policy = op.policy /\ op'.boot = op.boot /\ op'.age = op.age
    BY <1>1 DEF Operations
  <1>4. QED BY <1>2, <1>3 DEF Moved

\* A refresh begins.
LEMMA RefreshingBegins ==
  ASSUME NEW kind \in Kinds, NEW e \in Entries \cup {None}, op' = Refreshing(kind, e)
  PROVE  Began(kind, "refresh", e)
  <1>1. op' = [NoOp EXCEPT !.kind = kind, !.at = "refresh", !.entry = e]
    BY DEF Refreshing
  <1>2. op' \in Operations
    <2>1. NoOp \in Operations
      BY NoOpFields
    <2>2. QED BY <1>1, <2>1 DEF Operations, Kinds
  <1>3. /\ op'.at = "refresh" /\ op'.kind = kind /\ op'.entry = e
        /\ op'.policy = NoOp.policy /\ op'.boot = NoOp.boot /\ op'.age = NoOp.age
    BY <1>1, NoOpFields DEF Operations
  <1>4. QED BY <1>2, <1>3, NoOpFields DEF Began

\* No operation goes on.
LEMMA NoOpBegins == ASSUME op' = NoOp PROVE Began("none", "none", None)
  BY NoOpFields DEF Began
-----------------------------------------------------------------------------
(* What the network's steps do to the records.                             *)

\* The snapshot, its hash and the lease it must still have.
LEMMA RefreshEffect ==
  ASSUME NetTypeOK, Refresh
  PROVE  /\ op.at = "refresh" /\ op' \in Operations /\ op'.kind = op.kind /\ op'.entry = op.entry
         /\ op'.boot = op.boot /\ op'.age = op.age
         /\ op'.at \in {"failed", "router", "probe"}
         /\ op'.at = "router" => op.kind = "recover" /\ op'.policy # Base
         /\ op'.at = "probe" => op.kind # "recover" /\ net.state # "degraded" /\ op'.policy # Base
         /\ UNCHANGED <<task, live, work, net, internet, entry, relays, forwards, router,
                        asked, beat, expired>>
  <1>1. /\ op \in Operations /\ TaskPolicy \in Policies /\ Declared \in SUBSET Entries
        /\ TaskPolicy # Base
    <2>1. TaskPolicy.lab # Base.lab
      BY DEF TaskPolicy, Base
    <2>2. QED BY <2>1 DEF NetTypeOK, TaskPolicy, Declared, Policies
  <1>2. CASE op' = [op EXCEPT !.at = "failed", !.code = "hard", !.hash = TRUE, !.policy = TaskPolicy]
    <2>1. op' \in Operations
      BY <1>1, <1>2 DEF Operations
    <2>2. op'.at = "failed" /\ op'.kind = op.kind /\ op'.entry = op.entry /\ op'.boot = op.boot
          /\ op'.age = op.age
      BY <1>1, <1>2 DEF Operations
    <2>3. QED BY <2>1, <2>2 DEF Refresh
  <1>3. ASSUME NEW at \in {"router", "probe"},
               op' = [op EXCEPT !.at = at, !.hash = TRUE, !.policy = TaskPolicy, !.todo = Declared],
               at = "router" => op.kind = "recover",
               at = "probe" => op.kind # "recover" /\ net.state # "degraded"
        PROVE  /\ op' \in Operations /\ op'.kind = op.kind /\ op'.entry = op.entry
               /\ op'.boot = op.boot /\ op'.age = op.age /\ op'.at = at /\ op'.policy # Base
    <2>1. op' \in Operations
      BY <1>1, <1>3 DEF Operations
    <2>2. op'.at = at /\ op'.kind = op.kind /\ op'.entry = op.entry /\ op'.boot = op.boot
          /\ op'.age = op.age /\ op'.policy = TaskPolicy
      BY <1>1, <1>3 DEF Operations
    <2>3. QED BY <1>1, <2>1, <2>2
  <1>4. QED BY <1>2, <1>3 DEF Refresh

\* The identity of the router is refused, or the lease counts from here.
LEMMA ProbeEffect ==
  ASSUME NetTypeOK, Probe
  PROVE  /\ op.at = "probe"
         /\ \/ Moved("failed")
            \/ /\ op' \in Operations /\ op'.at = "apply" /\ op'.kind = op.kind
               /\ op'.entry = op.entry /\ op'.policy = op.policy
               /\ op'.boot = router.boot /\ op'.age = 0
               /\ op.kind = "recover" \/ net.boot \in {0, router.boot}
         /\ UNCHANGED <<task, live, work, net, internet, entry, relays, forwards, router,
                        asked, beat, expired>>
  <1>1. op \in Operations /\ router.boot \in 0 .. MaxBoots /\ 0 \in 0 .. Lease
    BY NetNumbers DEF NetTypeOK
  <1>2. CASE Fail("hard")
    BY <1>1, <1>2, FailMoves DEF Probe
  <1>3. CASE op' = [op EXCEPT !.at = "apply", !.boot = router.boot, !.age = 0]
             /\ (op.kind = "recover" \/ net.boot \in {0, router.boot})
    <2>1. op' \in Operations
      BY <1>1, <1>3 DEF Operations
    <2>2. /\ op'.at = "apply" /\ op'.kind = op.kind /\ op'.entry = op.entry
          /\ op'.policy = op.policy /\ op'.boot = router.boot /\ op'.age = 0
      BY <1>1, <1>3 DEF Operations
    <2>3. QED BY <1>3, <2>1, <2>2 DEF Probe
  <1>4. QED BY <1>2, <1>3 DEF Probe

\* Apply in the router: the rules, then applied.json.
LEMMA ApplyEffect ==
  ASSUME router \in Routers, NEW policy \in Policies, NEW lease \in Nat,
         NEW complete \in BOOLEAN, router' = Apply(policy, lease, complete)
  PROVE  /\ router' \in Routers /\ router'.boot = router.boot /\ router'.lease = lease
         /\ router.applied = policy =>
                router'.rules = router.rules /\ router'.applied = router.applied
         /\ complete /\ router.applied # policy =>
                router'.rules = policy /\ router'.applied = policy
  <1>1. CASE router.applied = policy
    <2>1. router' = [router EXCEPT !.lease = lease]
      BY <1>1 DEF Apply
    <2>2. router' \in Routers /\ router'.boot = router.boot /\ router'.lease = lease
          /\ router'.rules = router.rules /\ router'.applied = router.applied
      BY <2>1 DEF Routers
    <2>3. QED BY <1>1, <2>2
  <1>2. CASE router.applied # policy
    <2> DEFINE a == IF complete THEN policy ELSE router.applied
    <2>1. router' = [router EXCEPT !.lease = lease, !.rules = policy, !.applied = a]
      BY <1>2 DEF Apply
    <2>2. a \in Policies
      BY DEF Routers
    <2>3. complete => a = policy
      OBVIOUS
    <2> HIDE DEF a
    <2>4. router' \in Routers /\ router'.boot = router.boot /\ router'.lease = lease
          /\ router'.rules = policy /\ router'.applied = a
      BY <2>1, <2>2 DEF Routers
    <2>5. QED BY <1>2, <2>3, <2>4
  <1>3. QED BY <1>1, <1>2

\* The router boots again.
LEMMA BootedEffect ==
  ASSUME NetTypeOK, router.boot < MaxBoots, router' = Booted
  PROVE  /\ router' \in Routers /\ router'.boot = router.boot + 1
         /\ router'.rules = Base /\ router'.applied = Base /\ router'.lease = BootLease
  <1>1. router.boot + 1 \in 1 .. MaxBoots /\ BootLease \in Nat
    BY NetNumbers
  <1>2. QED BY <1>1, NoOpFields DEF Booted, Routers

\* recoverRouter: an attempt that breaks off leaves the operation where it is.
LEMMA RecoverRouterEffect ==
  ASSUME NetTypeOK, NEW complete \in BOOLEAN, RecoverRouter(complete)
  PROVE  /\ op.at = "router" /\ router' \in Routers
         /\ \/ Moved("probe") /\ router'.applied = Base
            \/ op' = op
         /\ router'.lease = BootLease
         /\ router'.boot \in {router.boot, router.boot + 1}
         /\ UNCHANGED <<task, live, work, net, internet, entry, relays, forwards,
                        asked, beat, expired>>
  <1>1. op \in Operations /\ router \in Routers /\ BootLease \in Nat /\ Base \in Policies
    BY NetNumbers, NoOpFields DEF NetTypeOK
  <1>2. CASE router' = Apply(Base, BootLease, complete)
    <2>1. /\ router' \in Routers /\ router'.boot = router.boot /\ router'.lease = BootLease
          /\ complete => router'.applied = Base
      BY <1>1, <1>2, ApplyEffect
    <2>2. QED BY <1>1, <2>1, StepMoves DEF RecoverRouter, Ats
  <1>3. CASE router.boot < MaxBoots /\ router' = Booted
    <2>1. /\ router' \in Routers /\ router'.boot = router.boot + 1 /\ router'.applied = Base
          /\ router'.lease = BootLease
      BY <1>3, BootedEffect
    <2>2. QED BY <1>1, <2>1, StepMoves DEF RecoverRouter, Ats
  <1>4. QED BY <1>2, <1>3 DEF RecoverRouter

\* The policy of the lab is applied.
LEMMA RouterAppliesEffect ==
  ASSUME NetTypeOK, NEW complete \in BOOLEAN, RouterApplies(complete)
  PROVE  /\ op.at = "apply" /\ Moved(IF complete THEN "reply" ELSE "broken")
         /\ router' \in Routers /\ router'.boot = router.boot /\ router'.lease = Lease
         /\ router.applied = op.policy =>
                complete /\ router'.rules = router.rules /\ router'.applied = router.applied
         /\ complete /\ router.applied # op.policy =>
                router'.rules = op.policy /\ router'.applied = op.policy
         /\ UNCHANGED <<task, live, work, net, internet, entry, relays, forwards,
                        asked, beat, expired>>
  <1>1. op \in Operations /\ router \in Routers /\ op.policy \in Policies /\ Lease \in Nat
    BY NetNumbers, NetFields DEF NetTypeOK
  <1>2. Moved(IF complete THEN "reply" ELSE "broken")
    BY <1>1, StepMoves DEF RouterApplies, Ats
  <1>3. router' = Apply(op.policy, Lease, complete)
    BY DEF RouterApplies
  <1>4. QED BY <1>1, <1>2, <1>3, ApplyEffect DEF RouterApplies

\* The acknowledgement, unless its lease ran out.
LEMMA AckedEffect ==
  ASSUME NetTypeOK, Acked
  PROVE  /\ op.at = "reply"
         /\ Moved("failed") \/ Moved("confirm") \/ (Moved("restore") /\ op.kind = "recover")
         /\ UNCHANGED <<task, live, work, net, internet, entry, relays, forwards, router,
                        asked, beat, expired>>
  <1>1. op \in Operations
    BY DEF NetTypeOK
  <1>2. CASE Fail("hard")
    BY <1>1, <1>2, FailMoves DEF Acked
  <1>3. CASE Step("confirm")
    BY <1>1, <1>3, StepMoves DEF Acked, Ats
  <1>4. CASE Step("restore") /\ op.kind = "recover"
    BY <1>1, <1>4, StepMoves DEF Acked, Ats
  <1>5. QED BY <1>2, <1>3, <1>4 DEF Acked

\* An endpoint is restored.
LEMMA RestoreEffect ==
  ASSUME NetTypeOK, NEW e \in Entries, Restore(e)
  PROVE  /\ op.at = "restore" /\ live /\ (Moved("restore") \/ Moved("confirm"))
         /\ forwards' = forwards \cup {e} /\ relays' = relays \cup {e}
         /\ UNCHANGED <<task, live, work, net, internet, entry, router, asked, beat, expired>>
  <1>1. op \in Operations /\ op.todo \ {e} \in SUBSET Entries
    BY NetFields DEF NetTypeOK
  <1>2. PICK at \in {"restore", "confirm"} : op' = [op EXCEPT !.todo = op.todo \ {e}, !.at = at]
    BY DEF Restore
  <1>3. op' \in Operations
    BY <1>1, <1>2 DEF Operations
  <1>4. /\ op'.at = at /\ op'.kind = op.kind /\ op'.entry = op.entry
        /\ op'.policy = op.policy /\ op'.boot = op.boot /\ op'.age = op.age
    BY <1>1, <1>2 DEF Operations
  <1>5. QED BY <1>3, <1>4 DEF Restore, Moved

\* The confirmation is refused, or recorded.
LEMMA ConfirmEffect ==
  ASSUME NetTypeOK, Confirm
  PROVE  /\ op.at = "confirm"
         /\ \/ Moved("failed") /\ UNCHANGED <<net, entry, beat>>
            \/ /\ ~Ended /\ net' \in Networks /\ net'.state = "ready"
               /\ net'.lease = Lease - op.age /\ net'.boot = op.boot /\ net'.policy = op.policy
               /\ entry' \in [Entries -> States] /\ (op.kind # "recover" => entry' = entry)
               /\ beat' \in {beat, "idle"}
               /\ \/ op.kind = "create" /\ Moved("open")
                  \/ op.kind = "close" /\ Moved("publish")
                  \/ op.kind \notin {"create", "close"} /\ op' = NoOp
         /\ UNCHANGED <<task, live, work, internet, relays, forwards, router, asked, expired>>
  <1>1. op \in Operations /\ entry \in [Entries -> States] /\ op.policy \in Policies
        /\ op.boot \in 0 .. MaxBoots /\ Lease - op.age \in 0 .. Lease
    BY NetNumbers, NetFields DEF NetTypeOK
  <1>2. CASE Fail("hard") /\ UNCHANGED <<net, entry, beat>>
    BY <1>1, <1>2, FailMoves DEF Confirm
  <1>3. CASE ~(Ended \/ (net.state = "degraded" /\ op.kind # "recover"))
    <2>1. /\ net' = [state |-> "ready", lease |-> Lease - op.age, boot |-> op.boot,
                     policy |-> op.policy]
          /\ entry' = [e \in Entries |->
                         IF op.kind = "recover" /\ e \in Declared THEN "open" ELSE entry[e]]
          /\ op' = AfterConfirm /\ beat' \in {beat, "idle"} /\ op.at = "confirm"
          /\ UNCHANGED <<task, live, work, internet, relays, forwards, router, asked, expired>>
      BY <1>3 DEF Confirm
    <2>2. /\ net' \in Networks /\ net'.state = "ready" /\ net'.lease = Lease - op.age
          /\ net'.boot = op.boot /\ net'.policy = op.policy
      BY <1>1, <2>1 DEF Networks
    <2>3. entry' \in [Entries -> States] /\ (op.kind # "recover" => entry' = entry)
      BY <1>1, <2>1 DEF States
    <2>4. \/ op.kind = "create" /\ Moved("open")
          \/ op.kind = "close" /\ Moved("publish")
          \/ op.kind \notin {"create", "close"} /\ op' = NoOp
      <3>1. CASE op.kind = "create"
        BY <1>1, <2>1, <3>1, StepMoves DEF AfterConfirm, Step, Ats
      <3>2. CASE op.kind = "close"
        BY <1>1, <2>1, <3>2, StepMoves DEF AfterConfirm, Step, Ats
      <3>3. CASE op.kind \notin {"create", "close"}
        BY <2>1, <3>3 DEF AfterConfirm
      <3>4. QED BY <3>1, <3>2, <3>3
    <2>5. QED BY <1>3, <2>1, <2>2, <2>3, <2>4
  <1>4. QED BY <1>2, <1>3 DEF Confirm

\* degrade.
LEMMA DegradeEffect ==
  ASSUME NetTypeOK, NEW entries \in [Entries -> States], Degrade(entries)
  PROVE  /\ net' \in Networks /\ net'.lease = net.lease /\ net'.boot = net.boot
         /\ net'.policy = net.policy /\ entry' \in [Entries -> States]
         /\ relays' \subseteq relays
         /\ Ended => net' = net /\ entry' = entries /\ relays' = relays
         /\ ~Ended => net'.state = "degraded"
  <1>1. net \in Networks
    BY DEF NetTypeOK
  <1>2. CASE Ended \/ net.state = "degraded"
    BY <1>1, <1>2 DEF Degrade
  <1>3. CASE ~(Ended \/ net.state = "degraded")
    <2>1. net' = [net EXCEPT !.state = "degraded"]
      BY <1>3 DEF Degrade
    <2>2. net' \in Networks /\ net'.lease = net.lease /\ net'.boot = net.boot
          /\ net'.policy = net.policy /\ net'.state = "degraded"
      BY <1>1, <2>1 DEF Networks
    <2>3. entry' \in [Entries -> States] /\ relays' = {}
      BY <1>3 DEF Degrade, States
    <2>4. QED BY <1>3, <2>2, <2>3
  <1>4. QED BY <1>2, <1>3

\* A network operation begins.
LEMMA PerformEffect ==
  ASSUME NetTypeOK, NEW q \in asked, Perform(q),
         (q.kind \in {"create", "close"}) = (q.entry # None)
  PROVE  /\ op = NoOp /\ live /\ task.state = "running" /\ q.kind \in Mutations
         /\ Began(q.kind, IF q.kind = "close" THEN "release" ELSE "refresh", q.entry)
         /\ asked' = asked \ {q} /\ internet' \in BOOLEAN /\ relays' \subseteq relays
         /\ entry' \in [Entries -> States]
         /\ UNCHANGED <<task, live, work, net, forwards, router, beat, expired>>
  <1>1. q \in Requests /\ entry \in [Entries -> States] /\ internet \in BOOLEAN
    BY DEF NetTypeOK
  <1>2. q.kind \in Mutations /\ q.entry \in Entries \cup {None} /\ q.internet \in BOOLEAN
    BY <1>1, NetFields
  <1>3. internet' \in BOOLEAN /\ relays' \subseteq relays
    BY <1>1, <1>2 DEF Perform
  <1>4. entry' \in [Entries -> States]
    BY <1>1 DEF Perform, States
  <1>5. Began(q.kind, IF q.kind = "close" THEN "release" ELSE "refresh", q.entry)
    <2>1. CASE q.kind # "close"
      BY <1>2, <2>1, RefreshingBegins DEF Perform, Kinds, Mutations
    <2>2. CASE q.kind = "close"
      <3> DEFINE r == net.state = "ready"
      <3>1. op' = [NoOp EXCEPT !.kind = "close", !.at = "release", !.entry = q.entry, !.renew = r]
        BY <2>2 DEF Perform
      <3>2. r \in BOOLEAN
        OBVIOUS
      <3> HIDE DEF r
      <3>3. op' \in Operations
        BY <1>2, <3>1, <3>2, NoOpFields DEF Operations
      <3>4. /\ op'.at = "release" /\ op'.kind = "close" /\ op'.entry = q.entry
            /\ op'.policy = NoOp.policy /\ op'.boot = NoOp.boot /\ op'.age = NoOp.age
        BY <3>1, NoOpFields DEF Operations
      <3>5. QED BY <2>2, <3>3, <3>4, NoOpFields DEF Began
    <2>3. QED BY <2>1, <2>2
  <1>6. QED BY <1>2, <1>3, <1>4, <1>5 DEF Perform, Admissible

\* Time passes.
LEMMA TickEffect ==
  ASSUME NetTypeOK, Tick
  PROVE  /\ ~Ended /\ net' \in Networks /\ router' \in Routers /\ op' \in Operations
         /\ net'.lease = Less(net.lease) /\ net'.state = net.state /\ net'.boot = net.boot
         /\ net'.policy = net.policy
         /\ router'.lease \in {router.lease, Less(router.lease)} /\ router'.boot = router.boot
         /\ router'.rules = router.rules /\ router'.applied = router.applied
         /\ op'.at = op.at /\ op'.kind = op.kind /\ op'.entry = op.entry
         /\ op'.policy = op.policy /\ op'.boot = op.boot
         /\ op'.age = IF op.at \in Sent /\ op.age < Lease THEN op.age + 1 ELSE op.age
         /\ op.at \notin Sent => op' = op
         /\ UNCHANGED <<task, live, work, internet, entry, relays, forwards, asked,
                        beat, expired>>
  <1>1. op \in Operations /\ net \in Networks /\ router \in Routers
    BY DEF NetTypeOK
  <1>2. Less(net.lease) \in 0 .. Lease /\ Less(router.lease) \in Nat
    BY NetNumbers DEF Less
  <1>3. /\ net' \in Networks /\ net'.lease = Less(net.lease) /\ net'.state = net.state
        /\ net'.boot = net.boot /\ net'.policy = net.policy
    BY <1>1, <1>2 DEF Tick, Networks
  <1>4. /\ router' \in Routers /\ router'.lease \in {router.lease, Less(router.lease)}
        /\ router'.boot = router.boot
        /\ router'.rules = router.rules /\ router'.applied = router.applied
    <2>1. CASE router' = router
      BY <1>1, <2>1
    <2>2. CASE router' = [router EXCEPT !.lease = Less(router.lease)]
      BY <1>1, <1>2, <2>2 DEF Routers
    <2>3. QED BY <2>1, <2>2 DEF Tick
  <1>5. CASE op.at \in Sent /\ op.age < Lease
    <2>1. op.age + 1 \in 0 .. Lease
      BY <1>5, NetNumbers
    <2>2. op' = [op EXCEPT !.age = op.age + 1]
      BY <1>5 DEF Tick, Sent
    <2>3. op' \in Operations
      BY <1>1, <2>1, <2>2 DEF Operations
    <2>4. /\ op'.at = op.at /\ op'.kind = op.kind /\ op'.entry = op.entry
          /\ op'.policy = op.policy /\ op'.boot = op.boot /\ op'.age = op.age + 1
      BY <1>1, <2>2 DEF Operations
    <2>5. QED BY <1>3, <1>4, <1>5, <2>3, <2>4 DEF Tick
  <1>6. CASE ~(op.at \in Sent /\ op.age < Lease)
    <2>1. op' = op
      BY <1>6 DEF Tick, Sent
    <2>2. QED BY <1>1, <1>3, <1>4, <1>6, <2>1 DEF Tick
  <1>7. QED BY <1>5, <1>6

\* The router boots again, or stops.
LEMMA RouterRebootsEffect ==
  ASSUME NetTypeOK, RouterReboots
  PROVE  /\ router' \in Routers
         /\ \/ /\ router'.boot = router.boot + 1 /\ router'.rules = Base
               /\ router'.applied = Base /\ router'.lease = BootLease
            \/ /\ router'.boot = router.boot /\ router'.rules = router.rules
               /\ router'.applied = router.applied /\ router'.lease = router.lease
         /\ UNCHANGED <<task, live, work, net, internet, entry, relays, forwards,
                        op, asked, beat, expired>>
  <1>1. router \in Routers
    BY DEF NetTypeOK
  <1>2. CASE router' = Booted
    BY <1>2, BootedEffect DEF RouterReboots
  <1>3. CASE router' = [router EXCEPT !.on = FALSE]
    BY <1>1, <1>3 DEF RouterReboots, Routers
  <1>4. QED BY <1>2, <1>3 DEF RouterReboots

\* The network is late.
LEMMA SuspectEffect ==
  ASSUME NetTypeOK, net' = [net EXCEPT !.state = "suspect"]
  PROVE  /\ net' \in Networks /\ net'.state = "suspect" /\ net'.lease = net.lease
         /\ net'.boot = net.boot /\ net'.policy = net.policy
  BY DEF NetTypeOK, Networks

\* A heartbeat that had no lock in time.
LEMMA BeatLateEffect ==
  ASSUME NetTypeOK, BeatLate
  PROVE  /\ beat = "waiting" /\ beat' \in {"idle", "degrade"}
         /\ net' \in Networks /\ net'.lease = net.lease /\ net'.boot = net.boot
         /\ net'.policy = net.policy
         /\ net' = net \/ (Healthy /\ net'.state = "suspect")
         /\ UNCHANGED <<task, live, work, internet, entry, relays, forwards, router, op, asked,
                        expired>>
  <1>1. CASE net' = net
    BY <1>1 DEF BeatLate, NetTypeOK
  <1>2. CASE Healthy /\ net' = [net EXCEPT !.state = "suspect"]
    BY <1>2, SuspectEffect DEF BeatLate
  <1>3. QED BY <1>1, <1>2 DEF BeatLate, Tolerable

\* A heartbeat that failed.
LEMMA BeatFailedEffect ==
  ASSUME NetTypeOK, BeatFailed
  PROVE  /\ op.kind = "heartbeat" /\ op.at = "failed" /\ op' = NoOp /\ beat' = "idle"
         /\ net' \in Networks /\ net'.lease = net.lease /\ net'.boot = net.boot
         /\ net'.policy = net.policy /\ entry' \in [Entries -> States] /\ relays' \subseteq relays
         /\ \/ net' = net /\ ~live
            \/ net'.state = "suspect" /\ Healthy /\ op.policy = net.policy
            \/ ~Ended /\ net'.state = "degraded"
            \/ Ended /\ net' = net
         /\ Ended => entry' = entry
         /\ UNCHANGED <<task, live, work, internet, forwards, router, asked, expired>>
  <1>1. net \in Networks /\ entry \in [Entries -> States]
    BY DEF NetTypeOK
  <1>2. CASE ~live
    BY <1>1, <1>2 DEF BeatFailed
  <1>3. CASE live /\ Tolerable(op.code = "transient", op.hash /\ op.policy = net.policy)
    <2>1. net' = [net EXCEPT !.state = "suspect"] /\ UNCHANGED <<entry, relays>>
      BY <1>3 DEF BeatFailed
    <2>2. QED BY <1>1, <1>3, <2>1, SuspectEffect DEF BeatFailed, Tolerable
  <1>4. CASE live /\ ~Tolerable(op.code = "transient", op.hash /\ op.policy = net.policy)
    <2>1. Degrade(entry)
      BY <1>4 DEF BeatFailed
    <2>2. QED BY <1>1, <2>1, DegradeEffect DEF BeatFailed
  <1>5. QED BY <1>2, <1>3, <1>4

\* The observer that saw an expired lease.
LEMMA ExpireEffect ==
  ASSUME NetTypeOK, Expire
  PROVE  /\ expired /\ expired' = FALSE
         /\ net' \in Networks /\ net'.lease = net.lease /\ net'.boot = net.boot
         /\ net'.policy = net.policy /\ entry' \in [Entries -> States] /\ relays' \subseteq relays
         /\ net' = net \/ (~Ended /\ net'.state = "degraded")
         /\ Ended => entry' = entry
         /\ UNCHANGED <<task, live, work, internet, forwards, router, op, asked, beat>>
  <1>1. net \in Networks /\ entry \in [Entries -> States]
    BY DEF NetTypeOK
  <1>2. CASE UNCHANGED <<net, entry, relays>>
    BY <1>1, <1>2 DEF Expire
  <1>3. CASE Degrade(entry)
    BY <1>1, <1>3, DegradeEffect DEF Expire
  <1>4. QED BY <1>2, <1>3 DEF Expire

\* The heartbeat poll degrades the network.
LEMMA BeatDegradesEffect ==
  ASSUME NetTypeOK, BeatDegrades
  PROVE  /\ beat = "degrade" /\ beat' = "idle"
         /\ net' \in Networks /\ net'.lease = net.lease /\ net'.boot = net.boot
         /\ net'.policy = net.policy /\ entry' \in [Entries -> States] /\ relays' \subseteq relays
         /\ net' = net \/ (~Ended /\ net'.state = "degraded")
         /\ Ended => entry' = entry
         /\ UNCHANGED <<task, live, work, internet, forwards, router, op, asked, expired>>
  <1>1. entry \in [Entries -> States]
    BY DEF NetTypeOK
  <1>2. QED BY <1>1, DegradeEffect DEF BeatDegrades

\* An explicit mutation fails closed.
LEMMA OperationFailedEffect ==
  ASSUME NetTypeOK, OperationFailed
  PROVE  /\ op.kind \in Mutations /\ op.at = "failed" /\ op' = NoOp
         /\ net' \in Networks /\ net'.lease = net.lease /\ net'.boot = net.boot
         /\ net'.policy = net.policy /\ entry' \in [Entries -> States] /\ relays' \subseteq relays
         /\ (~Ended => net'.state = "degraded") /\ (Ended => net' = net)
         /\ UNCHANGED <<task, live, work, internet, forwards, router, asked, beat, expired>>
  <1> DEFINE entries == CASE op.kind = "create" -> [entry EXCEPT ![op.entry] = "suspended"]
                          [] op.kind = "close" -> [entry EXCEPT ![op.entry] = "release_failed"]
                          [] OTHER -> entry
  <1>1. entries \in [Entries -> States]
    BY DEF NetTypeOK, States
  <1>2. Degrade(entries)
    BY DEF OperationFailed
  <1> HIDE DEF entries
  <1>3. QED BY <1>1, <1>2, DegradeEffect DEF OperationFailed, Mutations
-----------------------------------------------------------------------------
(* The network's own steps.                                                *)

\* Each step of the network keeps its types, the shape of the operation that
\* holds the lock, and the leases.
LEMMA NetKeeps == ASSUME NetInv, NetNext PROVE NetInv'
  <1>0. NetTypeOK /\ op \in Operations
    BY DEF NetInv, NetTypeOK
  <1> USE <1>0, NetNumbers, NoOpFields, NetworkAssumption
      DEF NetInv, NetTypeOK, NetShape, LeaseInStep, Sent, Answered, Moved, Began, Shortened, Healthy,
          Ended
  <1>1. CASE Refresh
    BY <1>1, RefreshEffect
  <1>2. CASE NoProtection
    BY <1>2, FailMoves DEF NoProtection
  <1>3. ASSUME NEW complete \in BOOLEAN, RecoverRouter(complete) PROVE NetInv'
    BY <1>3, RecoverRouterEffect
  <1>4. CASE Probe
    BY <1>4, ProbeEffect
  <1>5. ASSUME NEW complete \in BOOLEAN, RouterApplies(complete) PROVE NetInv'
    BY <1>5, RouterAppliesEffect
  <1>6. CASE Acked
    BY <1>6, AckedEffect
  <1>7. CASE RestoreFails
    BY <1>7, FailMoves DEF RestoreFails
  <1>8. CASE Confirm
    BY <1>8, ConfirmEffect
  <1>9. ASSUME NEW e \in Entries, Restore(e) PROVE NetInv'
    BY <1>9, RestoreEffect
  <1>10. ASSUME NEW code \in {"transient", "hard"}, CallFails(code) PROVE NetInv'
    BY <1>10, FailMoves DEF CallFails
  <1>11. CASE BeatDue
    BY <1>11 DEF BeatDue
  <1>12. CASE BeatLocks
    BY <1>12, RefreshingBegins DEF BeatLocks, Kinds
  <1>13. CASE BeatLate
    BY <1>13, BeatLateEffect
  <1>14. CASE BeatDegrades
    BY <1>14, BeatDegradesEffect
  <1>15. CASE BeatFailed
    BY <1>15, BeatFailedEffect
  <1>16. CASE ObserveExpiry
    BY <1>16 DEF ObserveExpiry
  <1>17. CASE Expire
    <2>1. NetTypeOK'
      BY <1>17, ExpireEffect
    <2>2. NetShape'
      BY <1>17, ExpireEffect
    <2>3. LeaseInStep'
      <3>1. /\ net'.lease = net.lease /\ net'.boot = net.boot
            /\ net'.state = net.state \/ net'.state = "degraded"
            /\ UNCHANGED <<task, live, router, op>>
        BY <1>17, ExpireEffect
      <3> QED BY <3>1
    <2> QED BY <2>1, <2>2, <2>3
  <1>18. ASSUME NEW q \in Requests, Ask(q) PROVE NetInv'
    BY <1>18 DEF Ask
  <1>19. ASSUME NEW q \in asked, Refused(q) PROVE NetInv'
    BY <1>19 DEF Refused
  <1>20. ASSUME NEW q \in asked, Perform(q) PROVE NetInv'
    BY <1>20, PerformEffect, NetFields
  <1>21. ASSUME NEW q \in asked, CreateUnsaved(q) PROVE NetInv'
    BY <1>21 DEF CreateUnsaved, States
  <1>22. CASE OpenRelay
    BY <1>22, StepMoves DEF OpenRelay, Ats
  <1>23. CASE Unforward
    BY <1>23, StepMoves DEF Unforward, Ats
  <1>24. CASE Publish
    BY <1>24 DEF Publish, States
  <1>25. CASE OperationFailed
    BY <1>25, OperationFailedEffect
  <1>26. CASE Tick
    BY <1>26, TickEffect DEF Less
  <1>27. CASE RouterReboots
    BY <1>27, RouterRebootsEffect
  <1> HIDE DEF NetInv, NetTypeOK, NetShape, LeaseInStep
  <1> QED
    BY <1>1, <1>2, <1>3, <1>4, <1>5, <1>6, <1>7, <1>8, <1>9, <1>10, <1>11, <1>12, <1>13, <1>14,
       <1>15, <1>16, <1>17, <1>18, <1>19, <1>20, <1>21, <1>22, <1>23, <1>24, <1>25, <1>26, <1>27
    DEF NetNext

\* Each step of the network leaves an unconfirmed network alone.
LEMMA NetKeepsPending ==
  ASSUME NetInv, PendingIsQuiet, NetNext, UNCHANGED main PROVE PendingIsQuiet'
  <1>0. NetTypeOK /\ op \in Operations
    BY DEF NetInv, NetTypeOK
  <1> USE <1>0, NetNumbers, NoOpFields
      DEF NetInv, NetShape, PendingIsQuiet, Sent, Mutations, Moved, Began, Healthy
  <1>1. CASE Refresh
    BY <1>1, RefreshEffect
  <1>2. CASE NoProtection
    BY <1>2, FailMoves DEF NoProtection
  <1>3. ASSUME NEW complete \in BOOLEAN, RecoverRouter(complete) PROVE PendingIsQuiet'
    BY <1>3, RecoverRouterEffect
  <1>4. CASE Probe
    BY <1>4, ProbeEffect
  <1>5. ASSUME NEW complete \in BOOLEAN, RouterApplies(complete) PROVE PendingIsQuiet'
    BY <1>5, RouterAppliesEffect
  <1>6. CASE Acked
    BY <1>6, AckedEffect
  <1>7. CASE RestoreFails
    BY <1>7, FailMoves DEF RestoreFails
  <1>8. CASE Confirm
    BY <1>8, ConfirmEffect
  <1>9. ASSUME NEW e \in Entries, Restore(e) PROVE PendingIsQuiet'
    BY <1>9, RestoreEffect
  <1>10. ASSUME NEW code \in {"transient", "hard"}, CallFails(code) PROVE PendingIsQuiet'
    BY <1>10, FailMoves DEF CallFails
  <1>11. CASE BeatDue
    BY <1>11 DEF BeatDue
  <1>12. CASE BeatLocks
    BY <1>12, RefreshingBegins DEF BeatLocks, Kinds
  <1>13. CASE BeatLate
    BY <1>13, BeatLateEffect
  <1>14. CASE BeatDegrades
    BY <1>14, BeatDegradesEffect
  <1>15. CASE BeatFailed
    BY <1>15, BeatFailedEffect
  <1>16. CASE ObserveExpiry
    BY <1>16 DEF ObserveExpiry
  <1>17. CASE Expire
    BY <1>17, ExpireEffect
  <1>18. ASSUME NEW q \in Requests, Ask(q) PROVE PendingIsQuiet'
    BY <1>18 DEF Ask
  <1>19. ASSUME NEW q \in asked, Refused(q) PROVE PendingIsQuiet'
    BY <1>19 DEF Refused
  <1>20. ASSUME NEW q \in asked, Perform(q) PROVE PendingIsQuiet'
    BY <1>20, PerformEffect, NetFields
  <1>21. ASSUME NEW q \in asked, CreateUnsaved(q) PROVE PendingIsQuiet'
    BY <1>21 DEF CreateUnsaved
  <1>22. CASE OpenRelay
    BY <1>22, StepMoves DEF OpenRelay, Ats
  <1>23. CASE Unforward
    BY <1>23, StepMoves DEF Unforward, Ats
  <1>24. CASE Publish
    BY <1>24 DEF Publish
  <1>25. CASE OperationFailed
    BY <1>25, OperationFailedEffect
  <1>26. CASE Tick
    BY <1>26, TickEffect
  <1>27. CASE RouterReboots
    BY <1>27, RouterRebootsEffect
  <1> HIDE DEF NetInv, NetShape, PendingIsQuiet
  <1> QED
    BY <1>1, <1>2, <1>3, <1>4, <1>5, <1>6, <1>7, <1>8, <1>9, <1>10, <1>11, <1>12, <1>13, <1>14,
       <1>15, <1>16, <1>17, <1>18, <1>19, <1>20, <1>21, <1>22, <1>23, <1>24, <1>25, <1>26, <1>27
    DEF NetNext

\* Each step of the network keeps what is known of the router's rules.
LEMMA NetKeepsRules ==
  ASSUME NetInv, PendingIsQuiet, RulesInStep, NetNext PROVE RulesInStep'
  <1>0. NetTypeOK /\ op \in Operations
    BY DEF NetInv, NetTypeOK
  <1> USE <1>0, NetNumbers, NoOpFields
      DEF NetInv, NetShape, LeaseInStep, PendingIsQuiet, RulesInStep, Sent, Answered, Mutations,
          Moved, Began, Healthy, Ended, Clean, Confirmed, Untouched
  <1>1. CASE Refresh
    <2>1. net.state \in {"pending", "ready", "suspect", "degraded"}
      BY NetFields DEF NetTypeOK
    <2>2. CASE op'.at = "failed"
      BY <1>1, <2>1, <2>2, RefreshEffect
    <2>3. CASE op'.at = "router"
      BY <1>1, <2>1, <2>3, RefreshEffect
    <2>4. CASE op'.at = "probe"
      BY <1>1, <2>1, <2>4, RefreshEffect
    <2> QED BY <1>1, <2>2, <2>3, <2>4, RefreshEffect
  <1>2. CASE NoProtection
    BY <1>2, FailMoves DEF NoProtection
  <1>3. ASSUME NEW complete \in BOOLEAN, RecoverRouter(complete) PROVE RulesInStep'
    BY <1>3, RecoverRouterEffect
  <1>4. CASE Probe
    BY <1>4, ProbeEffect
  <1>5. ASSUME NEW complete \in BOOLEAN, RouterApplies(complete) PROVE RulesInStep'
    <2>1. CASE router.applied = op.policy
      BY <1>5, <2>1, RouterAppliesEffect
    <2>2. CASE router.applied # op.policy /\ complete
      BY <1>5, <2>2, RouterAppliesEffect
    <2>3. CASE router.applied # op.policy /\ ~complete
      BY <1>5, <2>3, RouterAppliesEffect
    <2> QED BY <2>1, <2>2, <2>3
  <1>6. CASE Acked
    BY <1>6, AckedEffect
  <1>7. CASE RestoreFails
    BY <1>7, FailMoves DEF RestoreFails
  <1>8. CASE Confirm
    <2>1. CASE Moved("failed") /\ UNCHANGED <<net, entry, beat>>
      BY <1>8, <2>1, ConfirmEffect
    <2>2. CASE net'.state = "ready" /\ op' = NoOp /\ net'.boot = op.boot /\ net'.policy = op.policy
      BY <1>8, <2>2, ConfirmEffect
    <2>3. CASE /\ Moved("open") \/ Moved("publish")
               /\ net'.state = "ready" /\ net'.boot = op.boot /\ net'.policy = op.policy
      BY <1>8, <2>3, ConfirmEffect
    <2> QED BY <1>8, <2>1, <2>2, <2>3, ConfirmEffect
  <1>9. ASSUME NEW e \in Entries, Restore(e) PROVE RulesInStep'
    BY <1>9, RestoreEffect
  <1>10. ASSUME NEW code \in {"transient", "hard"}, CallFails(code) PROVE RulesInStep'
    BY <1>10, FailMoves DEF CallFails
  <1>11. CASE BeatDue
    BY <1>11 DEF BeatDue
  <1>12. CASE BeatLocks
    BY <1>12, RefreshingBegins DEF BeatLocks, Kinds
  <1>13. CASE BeatLate
    BY <1>13, BeatLateEffect
  <1>14. CASE BeatDegrades
    BY <1>14, BeatDegradesEffect
  <1>15. CASE BeatFailed
    <2>1. CASE ~live \/ Ended
      <3>1. ~(live' /\ ~Ended')
        BY <1>15, <2>1, BeatFailedEffect
      <3> QED BY <3>1
    <2>2. CASE net'.state = "suspect" /\ Healthy /\ op.policy = net.policy
      BY <1>15, <2>2, BeatFailedEffect
    <2>3. CASE net'.state = "degraded"
      <3>1. op' = NoOp /\ op'.at = "none" /\ ~Healthy' /\ net'.state # "pending"
        BY <1>15, <2>3, BeatFailedEffect
      <3> QED BY <3>1
    <2> QED BY <1>15, <2>1, <2>2, <2>3, BeatFailedEffect
  <1>16. CASE ObserveExpiry
    BY <1>16 DEF ObserveExpiry
  <1>17. CASE Expire
    BY <1>17, ExpireEffect
  <1>18. ASSUME NEW q \in Requests, Ask(q) PROVE RulesInStep'
    BY <1>18 DEF Ask
  <1>19. ASSUME NEW q \in asked, Refused(q) PROVE RulesInStep'
    BY <1>19 DEF Refused
  <1>20. ASSUME NEW q \in asked, Perform(q) PROVE RulesInStep'
    BY <1>20, PerformEffect, NetFields
  <1>21. ASSUME NEW q \in asked, CreateUnsaved(q) PROVE RulesInStep'
    BY <1>21 DEF CreateUnsaved
  <1>22. CASE OpenRelay
    BY <1>22, StepMoves DEF OpenRelay, Ats
  <1>23. CASE Unforward
    BY <1>23, StepMoves DEF Unforward, Ats
  <1>24. CASE Publish
    BY <1>24 DEF Publish
  <1>25. CASE OperationFailed
    BY <1>25, OperationFailedEffect
  <1>26. CASE Tick
    BY <1>26, TickEffect
  <1>27. CASE RouterReboots
    <2>1. CASE router'.boot = router.boot + 1 /\ router'.rules = Base /\ router'.applied = Base
      BY <1>27, <2>1, RouterRebootsEffect
    <2>2. CASE /\ router'.boot = router.boot /\ router'.rules = router.rules
               /\ router'.applied = router.applied
      BY <1>27, <2>2, RouterRebootsEffect
    <2> QED BY <1>27, <2>1, <2>2, RouterRebootsEffect
  <1> HIDE DEF NetInv, NetShape, LeaseInStep, PendingIsQuiet, RulesInStep
  <1> QED
    BY <1>1, <1>2, <1>3, <1>4, <1>5, <1>6, <1>7, <1>8, <1>9, <1>10, <1>11, <1>12, <1>13, <1>14,
       <1>15, <1>16, <1>17, <1>18, <1>19, <1>20, <1>21, <1>22, <1>23, <1>24, <1>25, <1>26, <1>27
    DEF NetNext
-----------------------------------------------------------------------------
(* The lab's records.                                                      *)

TaskRecords == [state : {"preparing", "running", "ended"},
                cleanup : {"pending", "running", "required", "complete"}]

\* The fields of the records.
LEMMA LabFields ==
  /\ \A r \in Records : /\ r.intent \in {"none", "memory", "saved"} /\ r.cleaned \in BOOLEAN
                        /\ r.boot \in Nat /\ r.expected \in Expectations
  /\ \A e \in Expectations : /\ e.call \in Calls \cup {None} /\ e.dispatched \in BOOLEAN
                             /\ e.observed \in BOOLEAN /\ e.ready \in BOOLEAN
  /\ \A v \in Machines : v.power \in Powers /\ v.boot \in Nat
  /\ \A d \in Deletions : d.tries \in 0 .. MaxTries
  /\ \A k \in PowerCalls : k.node \in Nodes \cup {None} /\ k.held \in BOOLEAN
  /\ \A p \in Probes : /\ p.call \in Calls \cup {None} /\ p.dispatched \in BOOLEAN
                       /\ p.saw \in Powers \cup {"none"} /\ p.boot \in Nat
  BY DEF Records, Expectations, Machines, Deletions, PowerCalls, Probes

\* What a lab begins with, and what its records are reset to.
LEMMA Resets ==
  /\ NoExpected \in Expectations /\ NoExpected.call = None
  /\ ~NoExpected.ready /\ ~NoExpected.dispatched
  /\ NoProbe \in Probes /\ NoProbe.call = None /\ NoProbe.at = "none" /\ ~NoProbe.dispatched
  /\ NoCall \in PowerCalls /\ NoCall.at = "idle"
  /\ Idle \in Deletions /\ Idle.at = "none"
  <1>1. NoExpected \in Expectations /\ NoExpected.call = None
        /\ ~NoExpected.ready /\ ~NoExpected.dispatched
    BY DEF NoExpected, Expectations
  <1>2. NoProbe \in Probes /\ NoProbe.call = None /\ NoProbe.at = "none" /\ ~NoProbe.dispatched
    BY DEF NoProbe, Probes
  <1>3. NoCall \in PowerCalls /\ NoCall.at = "idle"
    BY DEF NoCall, PowerCalls
  <1>4. Idle \in Deletions /\ Idle.at = "none"
    BY DEF Idle, Deletions, MaxTries
  <1>5. QED BY <1>1, <1>2, <1>3, <1>4

\* A fault, an operation or a crash is taken from the workload.
LEMMA WorkUpdates ==
  ASSUME work \in Work
  PROVE  /\ CanFault /\ Fault => work' \in Work /\ work'.calls = work.calls
         /\ work.net > 0 /\ work' = [work EXCEPT !.net = @ - 1] =>
                work' \in Work /\ work'.calls = work.calls
         /\ work.crashes > 0 /\ work' = [work EXCEPT !.crashes = @ - 1] =>
                work' \in Work /\ work'.calls = work.calls
         /\ \A c : work' = [work EXCEPT !.calls = @ \ {c}] =>
                work' \in Work /\ work'.calls = work.calls \ {c}
  <1>1. CanFault /\ Fault => work' \in Work /\ work'.calls = work.calls
    BY DEF CanFault, Fault, Work
  <1>2. work.net > 0 /\ work' = [work EXCEPT !.net = @ - 1] =>
            work' \in Work /\ work'.calls = work.calls
    BY DEF Work
  <1>3. work.crashes > 0 /\ work' = [work EXCEPT !.crashes = @ - 1] =>
            work' \in Work /\ work'.calls = work.calls
    BY DEF Work
  <1>4. \A c : work' = [work EXCEPT !.calls = @ \ {c}] =>
            work' \in Work /\ work'.calls = work.calls \ {c}
    BY DEF Work
  <1>5. QED BY <1>1, <1>2, <1>3, <1>4

\* The task's two states are recorded one at a time.
LEMMA TaskUpdates ==
  ASSUME task \in TaskRecords
  PROVE  /\ \A s \in {"preparing", "running", "ended"} : task' = [task EXCEPT !.state = s] =>
                task' \in TaskRecords /\ task'.state = s /\ task'.cleanup = task.cleanup
         /\ \A s \in {"running", "required", "complete"} : task' = [task EXCEPT !.cleanup = s] =>
                task' \in TaskRecords /\ task'.cleanup = s /\ task'.state = task.state
  <1>1. \A s \in {"preparing", "running", "ended"} : task' = [task EXCEPT !.state = s] =>
            task' \in TaskRecords /\ task'.state = s /\ task'.cleanup = task.cleanup
    BY DEF TaskRecords
  <1>2. \A s \in {"running", "required", "complete"} : task' = [task EXCEPT !.cleanup = s] =>
            task' \in TaskRecords /\ task'.cleanup = s /\ task'.state = task.state
    BY DEF TaskRecords
  <1>3. QED BY <1>1, <1>2

\* The types of the lab without its network.
LabTypeOK ==
    /\ task \in TaskRecords /\ live \in BOOLEAN /\ stop \in BOOLEAN /\ troubled \in BOOLEAN
    /\ work \in Work /\ node \in [Nodes -> Records] /\ vm \in [Nodes -> Machines]
    /\ prep \in [Nodes -> {"idle", "create", "configure", "start", "probe",
                           "ok", "failed", "returned"}]
    /\ main \in {"router", "network", "nodes", "observe", "cleanup", "over", "down"}
    /\ cleaner \in [Cleaners -> {"idle", "lock", "gate", "delete", "finish"}]
    /\ del \in [Nodes -> Deletions] /\ call \in [Calls -> PowerCalls]
    /\ probe \in [Nodes -> Probes]

\* TypeOK in two parts.
LEMMA TypeParts == TypeOK <=> LabTypeOK /\ NetTypeOK
  BY DEF TypeOK, LabTypeOK, TaskRecords

\* The records of the nodes change in nothing but their stage and their boot.
SameNodes ==
    /\ node' \in [Nodes -> Records]
    /\ \A m \in Nodes : /\ node'[m].intent = node[m].intent /\ node'[m].cleaned = node[m].cleaned
                        /\ node'[m].expected = node[m].expected

\* The VMs that exist stay, and no other comes; none starts to run.
SameMachines ==
    /\ vm' \in [Nodes -> Machines]
    /\ \A m \in Nodes : /\ (vm'[m].power = "absent") = (vm[m].power = "absent")
                        /\ vm'[m].power = "running" => vm[m].power = "running"

\* One entry of a function of records is replaced.
LEMMA NodeUpdate ==
  ASSUME LabTypeOK, NEW n \in Nodes, NEW r \in Records, node' = [node EXCEPT ![n] = r]
  PROVE  node' \in [Nodes -> Records] /\ node'[n] = r /\ \A m \in Nodes \ {n} : node'[m] = node[m]
  BY DEF LabTypeOK

\* The record of a VM is replaced.
LEMMA MachineUpdate ==
  ASSUME LabTypeOK, NEW n \in Nodes, NEW v \in Machines, vm' = [vm EXCEPT ![n] = v]
  PROVE  vm' \in [Nodes -> Machines] /\ vm'[n] = v /\ \A m \in Nodes \ {n} : vm'[m] = vm[m]
  BY DEF LabTypeOK

\* A VM changes its power state.
LEMMA PowerUpdate ==
  ASSUME LabTypeOK, NEW n \in Nodes, NEW power \in Powers, vm' = [vm EXCEPT ![n].power = power]
  PROVE  /\ vm' \in [Nodes -> Machines] /\ vm'[n].power = power
         /\ \A m \in Nodes \ {n} : vm'[m] = vm[m]
  <1> DEFINE v == [vm[n] EXCEPT !.power = power]
  <1>1. v \in Machines /\ v.power = power
    BY DEF LabTypeOK, Machines
  <1>2. vm' = [vm EXCEPT ![n] = v]
    OBVIOUS
  <1> HIDE DEF v
  <1>3. QED BY <1>1, <1>2, MachineUpdate

\* An operation goes on to another step.
LEMMA CallUpdate ==
  ASSUME LabTypeOK, NEW c \in Calls,
         NEW at \in {"asked", "gated", "sent", "replied", "waiting", "done", "failed"}, CallAt(c, at)
  PROVE  /\ call' \in [Calls -> PowerCalls] /\ call'[c].at = at /\ call'[c].node = call[c].node
         /\ call'[c].action = call[c].action /\ call'[c].held = call[c].held
         /\ \A d \in Calls \ {c} : call'[d] = call[d]
  <1> DEFINE k == [call[c] EXCEPT !.at = at]
  <1>1. k \in PowerCalls
    BY DEF LabTypeOK, PowerCalls
  <1>2. k.at = at /\ k.node = call[c].node /\ k.action = call[c].action /\ k.held = call[c].held
    BY DEF LabTypeOK, PowerCalls
  <1>3. call' = [call EXCEPT ![c] = k] /\ call \in [Calls -> PowerCalls]
    BY DEF CallAt, LabTypeOK
  <1> HIDE DEF k
  <1>4. QED BY <1>1, <1>2, <1>3
-----------------------------------------------------------------------------
(* What the lab's steps do to the records.                                 *)

\* A node is begun.
LEMMA BeginNodeEffect ==
  ASSUME LabTypeOK, NEW n \in Nodes, NEW saved \in BOOLEAN, BeginNode(n, saved)
  PROVE  /\ live /\ prep[n] = "idle"
         /\ prep' = [prep EXCEPT ![n] = IF saved THEN "create" ELSE "returned"]
         /\ node' \in [Nodes -> Records]
         /\ node'[n].intent = (IF saved THEN "saved" ELSE "memory")
         /\ node'[n].cleaned = node[n].cleaned /\ node'[n].expected = node[n].expected
         /\ \A m \in Nodes \ {n} : node'[m] = node[m]
         /\ work' \in Work /\ work'.calls = work.calls /\ stop' \in BOOLEAN
         /\ UNCHANGED <<task, live, netVars, vm, main, cleaner, troubled, del, call, probe>>
  <1> DEFINE i == IF saved THEN "saved" ELSE "memory"
             r == [node[n] EXCEPT !.intent = i, !.stage = "creating"]
  <1>1. r \in Records /\ r.intent = i /\ r.cleaned = node[n].cleaned
        /\ r.expected = node[n].expected
    <2>1. i \in {"none", "memory", "saved"} /\ node[n] \in Records
      BY DEF LabTypeOK
    <2> HIDE DEF i
    <2>2. r \in Records
      BY <2>1 DEF Records
    <2>3. r.intent = i /\ r.cleaned = node[n].cleaned /\ r.expected = node[n].expected
      BY <2>1 DEF Records
    <2> QED BY <2>2, <2>3
  <1>2. node' = [node EXCEPT ![n] = r]
    BY DEF BeginNode
  <1> HIDE DEF r
  <1>3. work' \in Work /\ work'.calls = work.calls /\ stop' \in BOOLEAN
    BY WorkUpdates DEF BeginNode, LabTypeOK
  <1>4. QED BY <1>1, <1>2, <1>3, NodeUpdate DEF BeginNode, Stopped

\* The guest answers.
LEMMA ReadyEffect ==
  ASSUME LabTypeOK, NEW n \in Nodes, Ready(n)
  PROVE  /\ SameNodes /\ prep' = [prep EXCEPT ![n] = "ok"]
         /\ UNCHANGED <<task, live, work, netVars, vm, stop, main, cleaner, troubled, del, call,
                        probe>>
  <1> DEFINE r == [node[n] EXCEPT !.boot = vm[n].boot]
  <1>1. node[n] \in Records /\ vm[n].boot \in Nat
    BY LabFields DEF LabTypeOK
  <1>2. r \in Records /\ r.intent = node[n].intent /\ r.cleaned = node[n].cleaned
        /\ r.expected = node[n].expected
    BY <1>1 DEF Records
  <1>3. node' = [node EXCEPT ![n] = r]
    BY DEF Ready
  <1> HIDE DEF r
  <1>4. QED BY <1>2, <1>3, NodeUpdate DEF Ready, SameNodes

\* Preparation of a node returns.
LEMMA PrepareReturnsEffect ==
  ASSUME LabTypeOK, NEW n \in Nodes, PrepareReturns(n)
  PROVE  /\ SameNodes /\ prep' = [prep EXCEPT ![n] = "returned"] /\ stop' \in BOOLEAN
         /\ UNCHANGED <<task, live, work, netVars, vm, main, cleaner, troubled, del, call, probe>>
  <1> DEFINE s == IF Stopped THEN "cancelled" ELSE IF prep[n] = "ok" THEN "ready" ELSE "failed"
             r == [node[n] EXCEPT !.stage = s]
  <1>1. node[n] \in Records /\ s \in {"cancelled", "ready", "failed"} /\ stop' \in BOOLEAN
    BY DEF LabTypeOK, PrepareReturns
  <1> HIDE DEF s
  <1>2. r \in Records /\ r.intent = node[n].intent /\ r.cleaned = node[n].cleaned
        /\ r.expected = node[n].expected
    BY <1>1 DEF Records
  <1>3. node' = [node EXCEPT ![n] = r]
    BY DEF PrepareReturns, s
  <1> HIDE DEF r
  <1>4. SameNodes
    BY <1>2, <1>3, NodeUpdate DEF SameNodes
  <1>5. QED BY <1>1, <1>4 DEF PrepareReturns

\* prepare fails as a whole.
LEMMA PrepareFailedEffect ==
  ASSUME LabTypeOK, PrepareFailed
  PROVE  /\ SameNodes /\ task' \in TaskRecords /\ task'.state = "ended"
         /\ task'.cleanup = task.cleanup /\ live' = FALSE /\ main' = "observe"
  <1>1. ASSUME NEW m \in Nodes
        PROVE  /\ node'[m] \in Records /\ node'[m].intent = node[m].intent
               /\ node'[m].cleaned = node[m].cleaned /\ node'[m].expected = node[m].expected
    <2>1. node[m] \in Records
      BY DEF LabTypeOK
    <2>2. node'[m] \in {node[m], [node[m] EXCEPT !.stage = "cancelled"]}
      BY DEF PrepareFailed, Cancelled
    <2>3. QED BY <2>1, <2>2 DEF Records
  <1>2. node' \in [Nodes -> Records]
    BY <1>1 DEF PrepareFailed, Cancelled
  <1>3. QED BY <1>1, <1>2, TaskUpdates DEF PrepareFailed, SameNodes, LabTypeOK

\* The VM is verified to be gone.
LEMMA VerifyEffect ==
  ASSUME LabTypeOK, NEW n \in Nodes, Verify(n)
  PROVE  /\ del[n].at = "verify" /\ vm[n].power = "absent"
         /\ node' \in [Nodes -> Records] /\ node'[n].intent = node[n].intent
         /\ node'[n].cleaned /\ node'[n].expected = node[n].expected
         /\ \A m \in Nodes \ {n} : node'[m] = node[m]
         /\ UNCHANGED <<task, live, work, netVars, vm, prep, stop, main, cleaner, troubled, call,
                        probe>>
  <1> DEFINE r == [node[n] EXCEPT !.cleaned = TRUE]
  <1>1. r \in Records /\ r.intent = node[n].intent /\ r.cleaned = TRUE
        /\ r.expected = node[n].expected
    <2>1. node[n] \in Records
      BY DEF LabTypeOK
    <2>2. QED BY <2>1 DEF Records
  <1>2. node' = [node EXCEPT ![n] = r]
    BY DEF Verify
  <1> HIDE DEF r
  <1>3. QED BY <1>1, <1>2, NodeUpdate DEF Verify

\* The deletion of a node goes on to another step.
LEMMA DelUpdate ==
  ASSUME LabTypeOK, NEW n \in Nodes,
         NEW at \in {"list", "recheck", "unregister", "verify", "done", "failed"}, DelAt(n, at)
  PROVE  /\ del' \in [Nodes -> Deletions] /\ del'[n].at = at /\ del'[n].tries = del[n].tries
         /\ \A m \in Nodes \ {n} : del'[m] = del[m]
  <1> DEFINE d == [del[n] EXCEPT !.at = at]
  <1>1. d \in Deletions /\ d.at = at /\ d.tries = del[n].tries
    BY DEF LabTypeOK, Deletions
  <1>2. del' = [del EXCEPT ![n] = d] /\ del \in [Nodes -> Deletions]
    BY DEF DelAt, LabTypeOK
  <1> HIDE DEF d
  <1>3. QED BY <1>1, <1>2

\* A call of the deletion fails.
LEMMA DeleteFailsEffect ==
  ASSUME LabTypeOK, NEW n \in Nodes, DeleteFails(n), del[n].tries < MaxTries
  PROVE  /\ del[n].at \in {"list", "recheck", "unregister", "verify"}
         /\ del' \in [Nodes -> Deletions] /\ del'[n].at \in {"list", "failed"}
         /\ del'[n].at = "list" => del'[n].tries < MaxTries
         /\ \A m \in Nodes \ {n} : del'[m] = del[m]
         /\ work' \in Work /\ work'.calls = work.calls
         /\ UNCHANGED <<task, live, netVars, node, vm, prep, stop, main, cleaner, troubled, call,
                        probe>>
  <1> DEFINE d == [at |-> IF del[n].tries + 1 < MaxTries THEN "list" ELSE "failed",
                   tries |-> del[n].tries + 1]
  <1>1. del[n].tries \in 0 .. MaxTries
    BY LabFields DEF LabTypeOK
  <1>2. d \in Deletions /\ d.at \in {"list", "failed"} /\ (d.at = "list" => d.tries < MaxTries)
    BY <1>1 DEF Deletions, MaxTries
  <1>3. del' = [del EXCEPT ![n] = d] /\ del \in [Nodes -> Deletions]
    BY DEF DeleteFails, LabTypeOK
  <1> HIDE DEF d
  <1>4. work' \in Work /\ work'.calls = work.calls
    BY WorkUpdates DEF DeleteFails, LabTypeOK
  <1>5. QED BY <1>2, <1>3, <1>4 DEF DeleteFails

\* The VM of the router answers or not; nothing else of the router changes.
SameRouter ==
    /\ router' \in Routers /\ router'.boot = router.boot /\ router'.lease = router.lease
    /\ router'.rules = router.rules /\ router'.applied = router.applied

\* The VM of the router starts or stops.
LEMMA PoweredEffect ==
  ASSUME NetTypeOK, NEW n, NEW power, Powered(n, power)
  PROVE  SameRouter
  <1> DEFINE on == power = "running"
  <1>1. router \in Routers /\ on \in BOOLEAN
    BY DEF NetTypeOK
  <1>2. router' \in {router, [router EXCEPT !.on = on]}
    BY DEF Powered
  <1> HIDE DEF on
  <1>3. QED BY <1>1, <1>2 DEF Routers, SameRouter

\* The deletion switches the VM off.
LEMMA PowerOffEffect ==
  ASSUME TypeOK, NEW n \in Nodes, PowerOff(n)
  PROVE  /\ del[n].at = "list" /\ SameMachines /\ SameRouter
         /\ del' \in [Nodes -> Deletions] /\ del'[n].tries = del[n].tries
         /\ del'[n].at = IF vm[n].power = "absent" THEN "verify" ELSE "recheck"
         /\ \A m \in Nodes \ {n} : del'[m] = del[m]
         /\ UNCHANGED <<task, live, work, net, internet, entry, relays, forwards, op, asked, beat,
                        expired, node, prep, stop, main, cleaner, troubled, call, probe>>
  <1>0. LabTypeOK /\ NetTypeOK
    BY TypeParts
  <1>1. CASE vm[n].power = "absent"
    <2>1. DelAt(n, "verify") /\ UNCHANGED <<vm, router>>
      BY <1>1 DEF PowerOff
    <2>2. SameMachines /\ SameRouter
      BY <1>0, <2>1 DEF SameMachines, SameRouter, LabTypeOK, NetTypeOK
    <2>3. QED BY <1>0, <1>1, <2>1, <2>2, DelUpdate DEF PowerOff
  <1>2. CASE vm[n].power # "absent"
    <2>1. DelAt(n, "recheck") /\ vm' = [vm EXCEPT ![n].power = "off"] /\ Powered(n, "off")
      BY <1>2 DEF PowerOff
    <2>2. SameMachines
      BY <1>0, <1>2, <2>1, PowerUpdate DEF SameMachines, Powers
    <2>3. QED BY <1>0, <1>2, <2>1, <2>2, DelUpdate, PoweredEffect DEF PowerOff
  <1>3. QED BY <1>1, <1>2

\* A VM runs.
LEMMA VMStartsEffect ==
  ASSUME TypeOK, NEW n \in Nodes, VMStarts(n)
  PROVE  /\ vm[n].power = "starting" /\ SameRouter
         /\ vm' \in [Nodes -> Machines] /\ vm'[n].power = "running"
         /\ \A m \in Nodes \ {n} : vm'[m] = vm[m]
         /\ call' \in [Calls -> PowerCalls]
         /\ \A c \in Calls :
                /\ call'[c].at = call[c].at /\ call'[c].node = call[c].node
                /\ call'[c].action = call[c].action /\ (call[c].held => call'[c].held)
                /\ /\ call[c].node = n /\ call[c].at \in {"replied", "waiting"}
                   /\ node[n].expected.power = "running"
                   => call'[c].held
         /\ UNCHANGED <<task, live, work, net, internet, entry, relays, forwards, op, asked, beat,
                        expired, node, prep, stop, main, cleaner, troubled, del, probe>>
  <1>0. LabTypeOK /\ NetTypeOK
    BY TypeParts
  <1> DEFINE v == [power |-> "running", boot |-> vm[n].boot + 1]
  <1>1. v \in Machines /\ v.power = "running"
    BY <1>0, LabFields DEF LabTypeOK, Machines, Powers
  <1>2. vm' = [vm EXCEPT ![n] = v] /\ call' = Held(n, "running") /\ Powered(n, "running")
    BY DEF VMStarts
  <1> HIDE DEF v
  <1>3. ASSUME NEW c \in Calls
        PROVE  /\ call'[c] \in PowerCalls
               /\ call'[c].at = call[c].at /\ call'[c].node = call[c].node
               /\ call'[c].action = call[c].action /\ (call[c].held => call'[c].held)
               /\ /\ call[c].node = n /\ call[c].at \in {"replied", "waiting"}
                  /\ node[n].expected.power = "running"
                  => call'[c].held
    <2>1. call[c] \in PowerCalls
      BY <1>0 DEF LabTypeOK
    <2>2. CASE call[c].node = n /\ call[c].at \in {"replied", "waiting"}
               /\ node[n].expected.power = "running"
      <3>1. call'[c] = [call[c] EXCEPT !.held = TRUE]
        BY <1>2, <2>2 DEF Held
      <3>2. QED BY <2>1, <3>1 DEF PowerCalls
    <2>3. CASE ~(call[c].node = n /\ call[c].at \in {"replied", "waiting"}
                 /\ node[n].expected.power = "running")
      BY <1>2, <2>1, <2>3 DEF Held
    <2>4. QED BY <2>2, <2>3
  <1>4. call' \in [Calls -> PowerCalls]
    BY <1>2, <1>3 DEF Held
  <1>5. QED BY <1>0, <1>1, <1>2, <1>3, <1>4, MachineUpdate, PoweredEffect DEF VMStarts

\* An operation gets its node, and says what it expects, or is refused.
LEMMA SendEffect ==
  ASSUME LabTypeOK, NEW c \in Calls, Send(c), call[c].node \in Nodes
  PROVE  /\ call[c].at = "gated" /\ call'[c].at \in {"sent", "failed"}
         /\ \A d \in Calls : call[d].node = call[c].node => call[d].at \notin {"sent", "replied"}
         /\ call' \in [Calls -> PowerCalls] /\ call'[c].node = call[c].node
         /\ call'[c].action = call[c].action /\ call'[c].held = call[c].held
         /\ \A d \in Calls \ {c} : call'[d] = call[d]
         /\ node' \in [Nodes -> Records]
         /\ \A m \in Nodes : node'[m].intent = node[m].intent /\ node'[m].cleaned = node[m].cleaned
         /\ \A m \in Nodes : m # call[c].node \/ call'[c].at = "failed" => node'[m] = node[m]
         /\ call'[c].at = "sent" =>
                /\ node'[call[c].node].expected.call = c
                /\ node'[call[c].node].expected.power =
                       IF call[c].action = "poweroff" THEN "off" ELSE "running"
                /\ ~node'[call[c].node].expected.ready
                /\ ~node'[call[c].node].expected.dispatched
         /\ UNCHANGED <<task, live, work, netVars, vm, prep, stop, main, cleaner, troubled, del,
                        probe>>
  <1> DEFINE n == call[c].node
             p == IF call[c].action = "poweroff" THEN "off" ELSE "running"
             e == [NoExpected EXCEPT !.call = c, !.before = node[n].boot, !.power = p]
             r == [node[n] EXCEPT !.expected = e]
  <1>1. p \in {"off", "running"} /\ node[n] \in Records /\ node[n].boot \in Nat
    BY LabFields DEF LabTypeOK
  <1>2. CASE NodeAccess(n)
    <2>1. node' = [node EXCEPT ![n] = r] /\ CallAt(c, "sent")
      BY <1>2 DEF Send
    <2> HIDE DEF p, n
    <2>2. e \in Expectations
      BY <1>1 DEF NoExpected, Expectations
    <2>3. e.call = c /\ e.power = p /\ ~e.ready /\ ~e.dispatched
      BY DEF NoExpected
    <2> HIDE DEF e
    <2>4. r \in Records
      BY <1>1, <2>2 DEF Records
    <2>5. r.intent = node[n].intent /\ r.cleaned = node[n].cleaned /\ r.expected = e
      BY <1>1 DEF Records
    <2> HIDE DEF r
    <2>6. n \in Nodes
      BY DEF n
    <2>7. node' \in [Nodes -> Records] /\ node'[n] = r /\ \A m \in Nodes \ {n} : node'[m] = node[m]
      BY <2>1, <2>4, <2>6, NodeUpdate
    <2>8. /\ call' \in [Calls -> PowerCalls] /\ call'[c].at = "sent" /\ call'[c].node = call[c].node
          /\ call'[c].action = call[c].action /\ call'[c].held = call[c].held
          /\ \A d \in Calls \ {c} : call'[d] = call[d]
      BY <2>1, CallUpdate
    <2>9. QED BY <2>3, <2>5, <2>6, <2>7, <2>8 DEF Send, n, p
  <1>3. CASE ~NodeAccess(n)
    <2>1. node' = node /\ CallAt(c, "failed")
      BY <1>3 DEF Send
    <2>2. /\ call' \in [Calls -> PowerCalls] /\ call'[c].at = "failed"
          /\ call'[c].node = call[c].node
          /\ call'[c].action = call[c].action /\ call'[c].held = call[c].held
          /\ \A d \in Calls \ {c} : call'[d] = call[d]
      BY <2>1, CallUpdate
    <2>3. QED BY <2>1, <2>2 DEF Send, LabTypeOK
  <1>4. QED BY <1>2, <1>3

\* VirtualBox carries an operation out.
LEMMA ActEffect ==
  ASSUME LabTypeOK, NEW c \in Calls, Act(c), call[c].node \in Nodes,
         call[c].action \in {"start", "poweroff", "reset"}
  PROVE  /\ call[c].at = "sent" /\ SameMachines
         /\ call[c].action = "start" => vm'[call[c].node].power # "running"
         /\ call' \in [Calls -> PowerCalls] /\ call'[c].at = "replied"
         /\ call'[c].node = call[c].node /\ call'[c].action = call[c].action
         /\ call'[c].held = (call[c].action # "start")
         /\ \A d \in Calls \ {c} : call'[d] = call[d]
         /\ UNCHANGED <<task, live, work, netVars, node, prep, stop, main, cleaner, troubled, del,
                        probe>>
  <1> DEFINE n == call[c].node
             h == call[c].action # "start"
             k == [call[c] EXCEPT !.at = "replied", !.held = h]
             v == CASE call[c].action = "start" -> [vm[n] EXCEPT !.power = "starting"]
                    [] call[c].action = "poweroff" -> [vm[n] EXCEPT !.power = "off"]
                    [] OTHER -> [vm[n] EXCEPT !.boot = vm[n].boot + 1]
  <1>1. call[c] \in PowerCalls /\ vm[n] \in Machines /\ vm[n].boot \in Nat /\ h \in BOOLEAN
    BY LabFields DEF LabTypeOK
  <1>2. vm' = [vm EXCEPT ![n] = v] /\ call' = [call EXCEPT ![c] = k] /\ Works(c, n)
    <2>1. vm' = [vm EXCEPT ![n] = v] /\ Works(c, n)
      <3>1. Works(c, n)
        BY DEF Act
      <3>2. CASE call[c].action = "start"
        BY <3>2 DEF Act
      <3>3. CASE call[c].action = "poweroff"
        BY <3>3 DEF Act
      <3>4. CASE call[c].action = "reset"
        BY <3>4 DEF Act
      <3>5. QED BY <3>1, <3>2, <3>3, <3>4
    <2>2. call' = [call EXCEPT ![c].at = "replied", ![c].held = h]
      BY DEF Act
    <2>3. call' = [call EXCEPT ![c] = k]
      BY <2>2 DEF LabTypeOK
    <2>4. QED BY <2>1, <2>3
  <1>3. /\ v \in Machines /\ (v.power = "absent") = (vm[n].power = "absent")
        /\ v.power = "running" => vm[n].power = "running"
        /\ call[c].action = "start" => v.power # "running"
    <2>1. CASE call[c].action = "start"
      <3>1. v = [vm[n] EXCEPT !.power = "starting"] /\ vm[n].power = "off"
        BY <1>2, <2>1 DEF Works
      <3>2. QED BY <1>1, <2>1, <3>1 DEF Machines, Powers
    <2>2. CASE call[c].action = "poweroff"
      <3>1. v = [vm[n] EXCEPT !.power = "off"] /\ vm[n].power = "running"
        BY <1>2, <2>2 DEF Works
      <3>2. QED BY <1>1, <2>2, <3>1 DEF Machines, Powers
    <2>3. CASE call[c].action = "reset"
      <3>1. v = [vm[n] EXCEPT !.boot = vm[n].boot + 1]
        BY <2>3
      <3>2. QED BY <1>1, <2>3, <3>1 DEF Machines
    <2>4. QED BY <2>1, <2>2, <2>3
  <1> HIDE DEF v, h
  <1>4. k \in PowerCalls
    BY <1>1 DEF PowerCalls
  <1>5. /\ k.at = "replied" /\ k.held = h /\ k.node = call[c].node /\ k.action = call[c].action
    BY <1>1 DEF PowerCalls
  <1> HIDE DEF k
  <1>6. /\ call' \in [Calls -> PowerCalls] /\ call'[c] = k
        /\ \A d \in Calls \ {c} : call'[d] = call[d]
    BY <1>2, <1>4 DEF LabTypeOK
  <1>7. vm' \in [Nodes -> Machines] /\ vm'[n] = v /\ \A m \in Nodes \ {n} : vm'[m] = vm[m]
    BY <1>2, <1>3, MachineUpdate
  <1>8. SameMachines
    BY <1>3, <1>7 DEF SameMachines
  <1>9. QED BY <1>3, <1>5, <1>6, <1>7, <1>8 DEF Act, h

\* An operation was carried out and waits to be observed.
LEMMA DispatchedEffect ==
  ASSUME LabTypeOK, NEW c \in Calls, Dispatched(c), call[c].node \in Nodes
  PROVE  /\ call[c].at = "replied"
         /\ call' \in [Calls -> PowerCalls] /\ call'[c].at = "waiting"
         /\ call'[c].node = call[c].node
         /\ call'[c].action = call[c].action /\ call'[c].held = call[c].held
         /\ \A d \in Calls \ {c} : call'[d] = call[d]
         /\ node' \in [Nodes -> Records]
         /\ \A m \in Nodes :
                /\ node'[m].intent = node[m].intent /\ node'[m].cleaned = node[m].cleaned
                /\ node'[m].expected.call = node[m].expected.call
                /\ node'[m].expected.power = node[m].expected.power
                /\ node'[m].expected.ready = node[m].expected.ready
                /\ node'[m].expected.dispatched = node[m].expected.dispatched
                   \/ node[m].expected.call = c
         /\ UNCHANGED <<task, live, work, netVars, vm, prep, stop, main, cleaner, troubled, del,
                        probe>>
  <1> DEFINE n == call[c].node
             e == [node[n].expected EXCEPT !.dispatched = TRUE]
             r == [node[n] EXCEPT !.expected = e]
  <1>1. node[n] \in Records /\ node[n].expected \in Expectations
    BY LabFields DEF LabTypeOK
  <1>2. /\ call' \in [Calls -> PowerCalls] /\ call'[c].at = "waiting" /\ call'[c].node = call[c].node
        /\ call'[c].action = call[c].action /\ call'[c].held = call[c].held
        /\ \A d \in Calls \ {c} : call'[d] = call[d]
    BY CallUpdate DEF Dispatched
  <1>3. CASE node[n].expected.call = c
    <2>1. node' = [node EXCEPT ![n] = r]
      BY <1>3 DEF Dispatched
    <2>2. e \in Expectations
      BY <1>1 DEF Expectations
    <2>3. /\ e.call = node[n].expected.call /\ e.power = node[n].expected.power
          /\ e.ready = node[n].expected.ready
      BY <1>1 DEF Expectations
    <2> HIDE DEF e
    <2>4. r \in Records
      BY <1>1, <2>2 DEF Records
    <2>5. r.intent = node[n].intent /\ r.cleaned = node[n].cleaned /\ r.expected = e
      BY <1>1 DEF Records
    <2> HIDE DEF r
    <2>6. node' \in [Nodes -> Records] /\ node'[n] = r /\ \A m \in Nodes \ {n} : node'[m] = node[m]
      BY <2>1, <2>4, NodeUpdate
    <2> HIDE DEF n
    <2>7. QED BY <1>2, <1>3, <2>3, <2>5, <2>6 DEF Dispatched
  <1>4. CASE node[n].expected.call # c
    <2>1. node' = node
      BY <1>4 DEF Dispatched
    <2>2. QED BY <1>2, <2>1 DEF Dispatched, LabTypeOK
  <1>5. QED BY <1>3, <1>4

\* An operation is asked of a node.
LEMMA AskPowerEffect ==
  ASSUME LabTypeOK, NEW c \in Calls, NEW n \in Clients, NEW a \in {"start", "poweroff", "reset"},
         AskPower(c, n, a)
  PROVE  /\ c \in work.calls /\ work' \in Work /\ work'.calls = work.calls \ {c}
         /\ call' \in [Calls -> PowerCalls] /\ call'[c].at = "asked" /\ call'[c].node = n
         /\ call'[c].action = a /\ \A d \in Calls \ {c} : call'[d] = call[d]
         /\ UNCHANGED <<task, live, netVars, node, vm, prep, stop, main, cleaner, troubled, del,
                        probe>>
  <1> DEFINE k == [NoCall EXCEPT !.at = "asked", !.node = n, !.action = a]
  <1>1. n \in Nodes
    BY DEF Nodes
  <1>2. k \in PowerCalls /\ k.at = "asked" /\ k.node = n /\ k.action = a
    BY <1>1 DEF NoCall, PowerCalls
  <1>3. call' = [call EXCEPT ![c] = k] /\ call \in [Calls -> PowerCalls]
    BY DEF AskPower, LabTypeOK
  <1> HIDE DEF k
  <1>4. work' \in Work /\ work'.calls = work.calls \ {c}
    BY WorkUpdates DEF AskPower, LabTypeOK
  <1>5. QED BY <1>2, <1>3, <1>4 DEF AskPower

\* An observation begins.
LEMMA ProbeBeginsEffect ==
  ASSUME LabTypeOK, NEW n \in Nodes, ProbeBegins(n)
  PROVE  /\ probe' \in [Nodes -> Probes] /\ probe'[n].at = "sent"
         /\ probe'[n].call = node[n].expected.call
         /\ probe'[n].dispatched = node[n].expected.dispatched
         /\ \A m \in Nodes \ {n} : probe'[m] = probe[m]
         /\ UNCHANGED <<task, live, work, netVars, node, vm, prep, stop, main, cleaner, troubled,
                        del, call>>
  <1> DEFINE e == node[n].expected
             p == [NoProbe EXCEPT !.at = "sent", !.call = e.call, !.dispatched = e.dispatched]
  <1>1. e.call \in Calls \cup {None} /\ e.dispatched \in BOOLEAN
    BY LabFields DEF LabTypeOK
  <1>2. probe' = [probe EXCEPT ![n] = p] /\ probe \in [Nodes -> Probes]
    BY DEF ProbeBegins, LabTypeOK
  <1> HIDE DEF e
  <1>3. p \in Probes /\ p.at = "sent" /\ p.call = e.call /\ p.dispatched = e.dispatched
    BY <1>1 DEF NoProbe, Probes
  <1> HIDE DEF p
  <1>4. QED BY <1>2, <1>3 DEF ProbeBegins, e

\* An observation reads the VM.
LEMMA ProbeSeesEffect ==
  ASSUME LabTypeOK, NEW n \in Nodes, ProbeSees(n)
  PROVE  /\ probe[n].at = "sent" /\ probe' \in [Nodes -> Probes] /\ probe'[n].at = "seen"
         /\ probe'[n].call = probe[n].call /\ probe'[n].dispatched = probe[n].dispatched
         /\ probe'[n].saw = vm[n].power
         /\ \A m \in Nodes \ {n} : probe'[m] = probe[m]
         /\ UNCHANGED <<task, live, work, netVars, node, vm, prep, stop, main, cleaner, troubled,
                        del, call>>
  <1> DEFINE s == vm[n].power
             b == vm[n].boot
             p == [probe[n] EXCEPT !.at = "seen", !.saw = s, !.boot = b]
  <1>1. s \in Powers /\ b \in Nat /\ probe[n] \in Probes
    BY LabFields DEF LabTypeOK
  <1>2. probe' = [probe EXCEPT ![n] = p] /\ probe \in [Nodes -> Probes]
    <2>1. probe' = [probe EXCEPT ![n].at = "seen", ![n].saw = s, ![n].boot = b]
      BY DEF ProbeSees
    <2> QED BY <2>1 DEF LabTypeOK
  <1> HIDE DEF s, b
  <1>3. p \in Probes
    BY <1>1 DEF Probes
  <1>4. p.at = "seen" /\ p.call = probe[n].call /\ p.dispatched = probe[n].dispatched /\ p.saw = s
    BY <1>1 DEF Probes
  <1> HIDE DEF p
  <1>5. probe' \in [Nodes -> Probes] /\ probe'[n] = p /\ \A m \in Nodes \ {n} : probe'[m] = probe[m]
    BY <1>2, <1>3
  <1>6. /\ probe[n].at = "sent"
        /\ UNCHANGED <<task, live, work, netVars, node, vm, prep, stop, main, cleaner, troubled,
                       del, call>>
    BY DEF ProbeSees
  <1>7. QED BY <1>4, <1>5, <1>6 DEF s

\* An observation is applied, unless an operation came after its beginning.
LEMMA ProbeAppliesEffect ==
  ASSUME LabTypeOK, NEW n \in Nodes, ProbeApplies(n)
  PROVE  /\ probe[n].at = "seen" /\ probe' \in [Nodes -> Probes]
         /\ probe'[n].call = None /\ \A m \in Nodes \ {n} : probe'[m] = probe[m]
         /\ node' \in [Nodes -> Records] /\ \A m \in Nodes \ {n} : node'[m] = node[m]
         /\ node'[n].intent = node[n].intent /\ node'[n].cleaned = node[n].cleaned
         /\ node'[n].expected.call = node[n].expected.call
         /\ node'[n].expected.power = node[n].expected.power
         /\ node'[n].expected.dispatched = node[n].expected.dispatched
         /\ \/ node'[n].expected.ready = node[n].expected.ready
            \/ /\ node[n].expected.dispatched /\ probe[n].saw = "running" /\ ~Outdated(n)
               /\ node[n].expected.power = "running"
         /\ \/ node'[n].expected.observed = node[n].expected.observed
            \/ node[n].expected.dispatched /\ ~Outdated(n)
         /\ UNCHANGED <<task, live, work, netVars, vm, prep, stop, main, cleaner, troubled, del,
                        call>>
  <1>1. /\ probe' = [probe EXCEPT ![n] = NoProbe] /\ probe[n].at = "seen"
        /\ probe' \in [Nodes -> Probes] /\ probe'[n].call = None
        /\ \A m \in Nodes \ {n} : probe'[m] = probe[m]
    BY Resets DEF ProbeApplies, LabTypeOK
  <1>2. CASE Ended \/ Outdated(n)
    <2>1. node' = node
      BY <1>2 DEF ProbeApplies
    <2>2. QED BY <1>1, <2>1 DEF ProbeApplies, LabTypeOK
  <1>3. CASE ~(Ended \/ Outdated(n))
    <2> DEFINE e == node[n].expected
               p == probe[n]
               new == call[e.call].action = "reset" => e.before \notin {0, p.boot}
               b == IF p.saw = "running" THEN p.boot ELSE 0
               o == IF e.dispatched THEN p.saw = e.power ELSE e.observed
               y == e.ready \/ (e.dispatched /\ p.saw = "running" /\ e.power = "running" /\ new)
               f == [e EXCEPT !.observed = o, !.ready = y]
               r == [node[n] EXCEPT !.boot = b, !.expected = f]
    <2>1. node[n] \in Records /\ e \in Expectations /\ p \in Probes
      BY LabFields DEF LabTypeOK
    <2>2. /\ b \in Nat /\ o \in BOOLEAN /\ y \in BOOLEAN
          /\ o = e.observed \/ e.dispatched
          /\ y = e.ready \/ (e.dispatched /\ p.saw = "running" /\ e.power = "running")
      BY <2>1, LabFields
    <2>3. node' = [node EXCEPT ![n] = Observed(n)]
      BY <1>3 DEF ProbeApplies
    <2>4. Observed(n) = [node[n] EXCEPT !.boot = b, !.expected.observed = o, !.expected.ready = y]
      BY DEF Observed
    <2> HIDE DEF b, o, y, new
    <2>5. Observed(n) = r
      BY <2>1, <2>4 DEF Records
    <2>6. f \in Expectations
      BY <2>1, <2>2 DEF Expectations
    <2>7. /\ f.call = e.call /\ f.power = e.power /\ f.dispatched = e.dispatched
          /\ f.observed = o /\ f.ready = y
      BY <2>1 DEF Expectations
    <2> HIDE DEF f
    <2>8. r \in Records
      BY <2>1, <2>2, <2>6 DEF Records
    <2>9. r.intent = node[n].intent /\ r.cleaned = node[n].cleaned /\ r.expected = f
      BY <2>1 DEF Records
    <2> HIDE DEF r
    <2>10. node' \in [Nodes -> Records] /\ node'[n] = r /\ \A m \in Nodes \ {n} : node'[m] = node[m]
      BY <2>3, <2>5, <2>8, NodeUpdate
    <2>11. QED BY <1>1, <1>3, <2>2, <2>7, <2>9, <2>10 DEF ProbeApplies
  <1>4. QED BY <1>2, <1>3

\* The gate is taken, and the nodes with resources are to be deleted.
LEMMA TakeGateEffect ==
  ASSUME LabTypeOK, NEW c \in Cleaners, TakeGate(c)
  PROVE  /\ cleaner[c] = "gate" /\ ~Readers /\ cleaner' = [cleaner EXCEPT ![c] = "delete"]
         /\ del' \in [Nodes -> Deletions]
         /\ \A m \in Nodes :
                /\ del'[m].at = IF node[m].intent # "none" /\ ~node[m].cleaned THEN "list" ELSE "none"
                /\ del'[m].tries < MaxTries
         /\ UNCHANGED <<task, live, work, netVars, node, vm, prep, stop, main, troubled, call, probe>>
  <1> DEFINE l == [Idle EXCEPT !.at = "list"]
  <1>1. /\ l \in Deletions /\ l.at = "list" /\ l.tries < MaxTries
        /\ Idle \in Deletions /\ Idle.at = "none" /\ Idle.tries < MaxTries
    BY DEF Idle, Deletions, MaxTries
  <1>2. del' = [n \in Nodes |-> IF node[n].intent # "none" /\ ~node[n].cleaned THEN l ELSE Idle]
    BY DEF TakeGate
  <1> HIDE DEF l
  <1>3. QED BY <1>1, <1>2 DEF TakeGate

\* The controller dies.
LEMMA CrashEffect ==
  ASSUME LabTypeOK, Crash
  PROVE  /\ main' = "down" /\ live' = FALSE /\ stop' = FALSE /\ troubled' = FALSE
         /\ node' \in [Nodes -> Records]
         /\ \A m \in Nodes :
                /\ node[m].intent = "saved" => node'[m].intent = "saved"
                /\ node'[m].cleaned = node[m].cleaned /\ node'[m].expected = node[m].expected
         /\ relays' = {} /\ op' = NoOp /\ asked' = {} /\ beat' = "idle" /\ expired' = FALSE
         /\ prep' = [n \in Nodes |-> "idle"]
         /\ cleaner' = [c \in Cleaners |-> "idle"]
         /\ del' = [n \in Nodes |-> Idle]
         /\ call' = [c \in Calls |-> NoCall]
         /\ probe' = [n \in Nodes |-> NoProbe]
         /\ work' \in Work /\ work'.calls = work.calls
         /\ UNCHANGED <<task, net, internet, entry, forwards, router, vm>>
  <1>1. ASSUME NEW m \in Nodes
        PROVE  /\ node'[m] \in Records /\ node'[m].cleaned = node[m].cleaned
               /\ node[m].intent = "saved" => node'[m].intent = "saved"
               /\ node'[m].expected = node[m].expected
    <2> DEFINE i == IF node[m].intent = "saved" THEN node[m].intent ELSE "none"
    <2>1. node[m] \in Records
      BY DEF LabTypeOK
    <2>2. node'[m] = [node[m] EXCEPT !.intent = i]
      BY DEF Crash
    <2>3. i \in {"none", "saved"} /\ (node[m].intent = "saved" => i = "saved")
      OBVIOUS
    <2> HIDE DEF i
    <2>4. QED BY <2>1, <2>2, <2>3 DEF Records
  <1>2. node' \in [Nodes -> Records]
    BY <1>1 DEF Crash
  <1>3. work' \in Work /\ work'.calls = work.calls
    BY WorkUpdates DEF Crash, LabTypeOK
  <1>4. QED BY <1>1, <1>2, <1>3 DEF Crash

\* The network's steps take from the workload no operation on a node, and leave the task alone.
LEMMA NetEffect ==
  ASSUME work \in Work, NetNext
  PROVE  work' \in Work /\ work'.calls = work.calls /\ UNCHANGED <<task, live>>
  <1>1. ASSUME NEW q \in Requests, Ask(q)
        PROVE  work' \in Work /\ work'.calls = work.calls /\ UNCHANGED <<task, live>>
    BY <1>1, WorkUpdates DEF Ask
  <1>2. ASSUME NEW q \in asked, CreateUnsaved(q)
        PROVE  work' \in Work /\ work'.calls = work.calls /\ UNCHANGED <<task, live>>
    BY <1>2, WorkUpdates DEF CreateUnsaved, CanFault, Fault
  <1>3. CASE UNCHANGED <<task, live, work>>
    BY <1>3
  <1>4. CASE \/ Refresh \/ NoProtection \/ Probe \/ Acked \/ RestoreFails
             \/ Confirm \/ BeatDue \/ BeatLocks \/ BeatLate \/ BeatDegrades \/ BeatFailed
             \/ ObserveExpiry \/ Expire \/ OpenRelay \/ Unforward \/ Publish \/ OperationFailed
             \/ Tick \/ RouterReboots
    BY <1>3, <1>4 DEF Refresh, NoProtection, Probe, Acked, RestoreFails,
       Confirm, BeatDue, BeatLocks, BeatLate, BeatDegrades, BeatFailed, ObserveExpiry, Expire,
       OpenRelay, Unforward, Publish, OperationFailed, Tick, RouterReboots
  <1>5. CASE \/ \E complete \in BOOLEAN : RecoverRouter(complete) \/ RouterApplies(complete)
             \/ \E e \in Entries : Restore(e)
             \/ \E code \in {"transient", "hard"} : CallFails(code)
             \/ \E q \in asked : Refused(q) \/ Perform(q)
    BY <1>3, <1>5 DEF RecoverRouter, RouterApplies, Restore, CallFails, Refused, Perform
  <1>6. QED BY <1>1, <1>2, <1>4, <1>5 DEF NetNext
-----------------------------------------------------------------------------
(* Every step keeps the types.                                             *)

\* Each step keeps the types of the lab; an operation that was sent has a node,
\* and a deletion in progress an attempt left.
LEMMA LabKeepsTypes ==
  ASSUME TypeOK, CallShape, PreparationInStep, Next PROVE LabTypeOK'
  <1>0. LabTypeOK /\ NetTypeOK
    BY TypeParts
  <1>00. \A c \in Calls : call[c].at # "idle" =>
             call[c].node \in Nodes /\ call[c].action \in {"start", "poweroff", "reset"}
    BY DEF CallShape, Nodes
  <1> USE <1>0 DEF LabTypeOK
  <1>1. CASE NetNext /\ UNCHANGED labVars
    BY <1>1, NetEffect DEF labVars
  <1>2. ASSUME NEW n \in Nodes, NEW saved \in BOOLEAN, BeginNode(n, saved) PROVE LabTypeOK'
    BY <1>2, BeginNodeEffect
  <1>3. ASSUME NEW n \in Nodes, CreateVM(n) PROVE LabTypeOK'
    BY <1>3, PowerUpdate DEF CreateVM, Powers
  <1>4. ASSUME NEW n \in Nodes, Configure(n) PROVE LabTypeOK'
    BY <1>4 DEF Configure
  <1>5. ASSUME NEW n \in Nodes, StartVM(n) PROVE LabTypeOK'
    BY <1>5, PowerUpdate DEF StartVM, Powers
  <1>6. ASSUME NEW n \in Nodes, Ready(n) PROVE LabTypeOK'
    BY <1>6, ReadyEffect DEF SameNodes
  <1>7. ASSUME NEW n \in Nodes, PrepareFails(n) PROVE LabTypeOK'
    BY <1>7, WorkUpdates DEF PrepareFails
  <1>8. ASSUME NEW n \in Nodes, PrepareReturns(n) PROVE LabTypeOK'
    BY <1>8, PrepareReturnsEffect DEF SameNodes
  <1>9. ASSUME NEW n \in Nodes, PowerOff(n) PROVE LabTypeOK'
    BY <1>9, PowerOffEffect DEF SameMachines
  <1>10. ASSUME NEW n \in Nodes, Recheck(n) PROVE LabTypeOK'
    BY <1>10, DelUpdate DEF Recheck
  <1>11. ASSUME NEW n \in Nodes, Unregister(n) PROVE LabTypeOK'
    BY <1>11, DelUpdate, PowerUpdate DEF Unregister, Powers
  <1>12. ASSUME NEW n \in Nodes, Verify(n) PROVE LabTypeOK'
    BY <1>12, VerifyEffect, DelUpdate DEF Verify
  <1>13. ASSUME NEW n \in Nodes, DeleteFails(n) PROVE LabTypeOK'
    BY <1>13, DeleteFailsEffect DEF PreparationInStep, DeleteFails
  <1>14. ASSUME NEW n \in Nodes, Intrude(n) PROVE LabTypeOK'
    BY <1>14, WorkUpdates, PowerUpdate DEF Intrude, Powers
  <1>15. ASSUME NEW n \in Nodes, ProbeBegins(n) PROVE LabTypeOK'
    BY <1>15, ProbeBeginsEffect
  <1>16. ASSUME NEW n \in Nodes, ProbeSees(n) PROVE LabTypeOK'
    BY <1>16, ProbeSeesEffect
  <1>17. ASSUME NEW n \in Nodes, ProbeApplies(n) PROVE LabTypeOK'
    BY <1>17, ProbeAppliesEffect
  <1>18. ASSUME NEW n \in Nodes, VMStarts(n) PROVE LabTypeOK'
    BY <1>18, VMStartsEffect
  <1>19. CASE RouterPrepared
    BY <1>19, PrepareFailedEffect DEF RouterPrepared, SameNodes
  <1>20. CASE NetworkPrepared
    BY <1>20, PrepareFailedEffect DEF NetworkPrepared, SameNodes
  <1>21. CASE PrepareEnds
    <2>1. CASE PrepareFailed
      BY <1>21, <2>1, PrepareFailedEffect DEF PrepareEnds, SameNodes
    <2>2. CASE /\ main' = "observe" /\ UNCHANGED <<node, live>>
               /\ task' = [task EXCEPT !.state = IF @ = "preparing" THEN "running" ELSE @]
      <3>1. task.state \in {"preparing", "running", "ended"}
        BY DEF TaskRecords
      <3>2. task' \in TaskRecords
        BY <2>2, <3>1, TaskUpdates
      <3>3. QED BY <1>21, <2>2, <3>2 DEF PrepareEnds
    <2>3. QED BY <1>21, <2>1, <2>2 DEF PrepareEnds
  <1>22. CASE EndTask
    BY <1>22, TaskUpdates DEF EndTask, labVars
  <1>23. CASE CancelRuntime
    BY <1>23 DEF CancelRuntime, labVars
  <1>24. CASE ObserveEnds
    BY <1>24 DEF ObserveEnds
  <1>25. ASSUME NEW c \in Cleaners, CallCleanup(c) PROVE LabTypeOK'
    BY <1>25 DEF CallCleanup
  <1>26. ASSUME NEW c \in Cleaners, CleanupSkipped(c) PROVE LabTypeOK'
    BY <1>26 DEF CleanupSkipped, Return
  <1>27. ASSUME NEW c \in Cleaners, CleanupBegins(c) PROVE LabTypeOK'
    BY <1>27, TaskUpdates DEF CleanupBegins
  <1>28. ASSUME NEW c \in Cleaners, TakeGate(c) PROVE LabTypeOK'
    BY <1>28, TakeGateEffect
  <1>29. ASSUME NEW c \in Cleaners, GateTimeout(c) PROVE LabTypeOK'
    BY <1>29, Resets DEF GateTimeout
  <1>30. ASSUME NEW c \in Cleaners, NodesDeleted(c) PROVE LabTypeOK'
    BY <1>30, WorkUpdates DEF NodesDeleted
  <1>31. ASSUME NEW c \in Cleaners, CleanupEnds(c) PROVE LabTypeOK'
    BY <1>31, TaskUpdates, Resets DEF CleanupEnds, Return
  <1>32. ASSUME NEW c \in Calls, NEW n \in Clients, NEW a \in {"start", "poweroff", "reset"},
                AskPower(c, n, a) PROVE LabTypeOK'
    BY <1>32, AskPowerEffect
  <1>33. ASSUME NEW c \in Calls, EnterGate(c) PROVE LabTypeOK'
    BY <1>33, CallUpdate DEF EnterGate
  <1>34. ASSUME NEW c \in Calls, Send(c) PROVE LabTypeOK'
    BY <1>34, <1>00, SendEffect DEF Send
  <1>35. ASSUME NEW c \in Calls, Act(c) PROVE LabTypeOK'
    BY <1>35, <1>00, ActEffect DEF Act, SameMachines
  <1>36. ASSUME NEW c \in Calls, Dispatched(c) PROVE LabTypeOK'
    BY <1>36, <1>00, DispatchedEffect DEF Dispatched
  <1>37. ASSUME NEW c \in Calls, PowerDone(c) PROVE LabTypeOK'
    BY <1>37, CallUpdate DEF PowerDone
  <1>38. ASSUME NEW c \in Calls, CallGivesUp(c) PROVE LabTypeOK'
    BY <1>38, CallUpdate DEF CallGivesUp
  <1>39. CASE Crash
    <2>1. /\ del' = [n \in Nodes |-> Idle] /\ call' = [c \in Calls |-> NoCall]
          /\ probe' = [n \in Nodes |-> NoProbe] /\ prep' = [n \in Nodes |-> "idle"]
          /\ cleaner' = [c \in Cleaners |-> "idle"]
      BY <1>39 DEF Crash
    <2>2. /\ del' \in [Nodes -> Deletions] /\ call' \in [Calls -> PowerCalls]
          /\ probe' \in [Nodes -> Probes]
      BY <2>1, Resets
    <2>3. /\ prep' \in [Nodes -> {"idle", "create", "configure", "start", "probe",
                               "ok", "failed", "returned"}]
          /\ cleaner' \in [Cleaners -> {"idle", "lock", "gate", "delete", "finish"}]
      BY <2>1
    <2>4. /\ main' = "down" /\ live' = FALSE /\ stop' = FALSE /\ troubled' = FALSE
          /\ node' \in [Nodes -> Records] /\ work' \in Work /\ UNCHANGED <<task, vm>>
      BY <1>39, CrashEffect
    <2> HIDE <1>0
    <2>5. QED BY <1>0, <2>2, <2>3, <2>4
  <1>40. CASE Restart
    BY <1>40, TaskUpdates DEF Restart
  <1> HIDE DEF LabTypeOK
  <1> QED
    BY <1>1, <1>2, <1>3, <1>4, <1>5, <1>6, <1>7, <1>8, <1>9, <1>10, <1>11, <1>12, <1>13, <1>14,
       <1>15, <1>16, <1>17, <1>18, <1>19, <1>20, <1>21, <1>22, <1>23, <1>24, <1>25, <1>26, <1>27,
       <1>28, <1>29, <1>30, <1>31, <1>32, <1>33, <1>34, <1>35, <1>36, <1>37, <1>38, <1>39, <1>40
    DEF Next
-----------------------------------------------------------------------------
(* The lab's steps and the network.                                        *)

NetParts == NetInv /\ PendingIsQuiet /\ RulesInStep

\* A step that leaves the network alone keeps what is known of it, as long as
\* it does not bring an ended lab back and does not go through preparation.
LEMMA NetFrame ==
  ASSUME NetParts, UNCHANGED netVars,
         main' \in {main, "observe", "cleanup", "over", "down"},
         task'.state = "running" => task.state = "running" \/ main = "nodes",
         live' /\ ~Ended' => live /\ ~Ended
  PROVE  NetParts'
  <1>1. NetInv'
    BY DEF NetParts, NetInv, NetTypeOK, NetShape, LeaseInStep, Shortened, Healthy, netVars
  <1>2. PendingIsQuiet'
    BY DEF NetParts, PendingIsQuiet, netVars
  <1>3. RulesInStep'
    BY DEF NetParts, RulesInStep, Clean, Confirmed, Untouched, Healthy, netVars
  <1>4. QED BY <1>1, <1>2, <1>3 DEF NetParts

\* The same for a step that changes nothing of the network but the power of
\* the router, a NAT rule, a relay or the state of an endpoint.
LEMMA RouterFrame ==
  ASSUME NetParts, UNCHANGED <<net, internet, op, asked, beat, expired>>,
         SameRouter, entry' \in [Entries -> States], relays' \subseteq Entries,
         forwards' \subseteq Entries,
         main' \in {main, "observe", "cleanup", "over", "down"},
         task'.state = task.state, live' => live
  PROVE  NetParts'
  <1>1. NetInv'
    BY DEF NetParts, NetInv, NetTypeOK, NetShape, LeaseInStep, Shortened, Healthy, Ended,
           SameRouter
  <1>2. PendingIsQuiet'
    BY DEF NetParts, PendingIsQuiet
  <1>3. RulesInStep'
    BY DEF NetParts, RulesInStep, Clean, Confirmed, Untouched, Healthy, SameRouter, Ended
  <1>4. QED BY <1>1, <1>2, <1>3 DEF NetParts

\* Each step of the lab keeps what is known of its network.
LEMMA LabKeepsNet ==
  ASSUME TypeOK, NetParts, CleanupInStep, CallShape, Next PROVE NetParts'
  <1>0. LabTypeOK /\ NetTypeOK /\ task \in TaskRecords
    BY TypeParts DEF LabTypeOK
  <1>00. \A c \in Calls : call[c].at # "idle" =>
             call[c].node \in Nodes /\ call[c].action \in {"start", "poweroff", "reset"}
    BY DEF CallShape, Nodes
  <1>a. entry \in [Entries -> States] /\ relays \subseteq Entries /\ forwards \subseteq Entries
        /\ router \in Routers
    BY <1>0 DEF NetTypeOK
  <1>s. UNCHANGED router => SameRouter
    BY <1>a DEF SameRouter
  <1>1. CASE NetNext /\ UNCHANGED labVars
    BY <1>1, NetKeeps, NetKeepsPending, NetKeepsRules DEF NetParts, labVars
  <1>2. ASSUME NEW n \in Nodes, NEW saved \in BOOLEAN, BeginNode(n, saved) PROVE NetParts'
    BY <1>2, NetFrame DEF BeginNode, Ended
  <1>3. ASSUME NEW n \in Nodes,
               \/ CreateVM(n) \/ Configure(n) \/ StartVM(n) \/ Ready(n) \/ PrepareFails(n)
               \/ PrepareReturns(n) \/ Recheck(n) \/ Verify(n) \/ DeleteFails(n) \/ Intrude(n)
               \/ ProbeBegins(n) \/ ProbeSees(n) \/ ProbeApplies(n)
        PROVE  NetParts'
    <2>1. UNCHANGED <<task, live, netVars, main>>
      BY <1>3 DEF CreateVM, Configure, StartVM, Ready, PrepareFails, PrepareReturns, Recheck,
         Verify, DeleteFails, Intrude, ProbeBegins, ProbeSees, ProbeApplies
    <2>2. QED BY <2>1, NetFrame DEF Ended
  <1>4. ASSUME NEW n \in Nodes, PowerOff(n) PROVE NetParts'
    BY <1>4, <1>a, PowerOffEffect, RouterFrame
  <1>5. ASSUME NEW n \in Nodes, Unregister(n) PROVE NetParts'
    BY <1>5, <1>a, <1>s, RouterFrame DEF Unregister
  <1>6. ASSUME NEW n \in Nodes, VMStarts(n) PROVE NetParts'
    BY <1>6, <1>a, VMStartsEffect, RouterFrame
  <1>7. CASE RouterPrepared
    <2>1. CASE PrepareFailed /\ UNCHANGED op
      BY <1>0, <1>7, <2>1, PrepareFailedEffect, NetFrame DEF RouterPrepared, netVars
    <2>2. CASE /\ main' = "network" /\ op' = Refreshing("prepare", None)
               /\ UNCHANGED <<node, task, live>>
      <3>1. Began("prepare", "refresh", None)
        BY <2>2, RefreshingBegins DEF Kinds
      <3>2. /\ UNCHANGED <<net, internet, entry, relays, forwards, router, asked, beat, expired>>
            /\ net.state = "pending" /\ op = NoOp /\ main = "router"
        BY <1>7 DEF RouterPrepared, NetParts, PendingIsQuiet
      <3>3. NetInv'
        BY <1>0, <3>1, <3>2, NetNumbers
        DEF Began, NetParts, NetInv, NetTypeOK, NetShape, LeaseInStep, Shortened, Healthy, Sent,
            Answered, Ended
      <3>4. PendingIsQuiet'
        BY <2>2, <3>1, <3>2 DEF Began, NetParts, PendingIsQuiet
      <3>5. RulesInStep'
        BY <2>2, <3>1, <3>2, NoOpFields
        DEF Began, NetParts, RulesInStep, Healthy, Clean, Answered, Ended
      <3>6. QED BY <3>3, <3>4, <3>5 DEF NetParts
    <2>3. QED BY <1>7, <2>1, <2>2 DEF RouterPrepared
  <1>8. CASE NetworkPrepared
    <2>0. /\ main = "network"
          /\ UNCHANGED <<net, internet, entry, relays, forwards, router, asked, beat, expired>>
      BY <1>8 DEF NetworkPrepared
    <2>1. CASE PrepareFailed /\ op' = NoOp
      <3>1. Began("none", "none", None)
        BY <2>1, NoOpBegins
      <3>0. Ended'
        BY <1>0, <2>1, PrepareFailedEffect DEF Ended
      <3>2. NetInv'
        BY <1>0, <2>0, <3>0, <3>1, NetNumbers
        DEF Began, NetParts, NetInv, NetTypeOK, NetShape, LeaseInStep, Shortened, Healthy, Sent,
            Answered, Ended
      <3>3. Ended' /\ main' = "observe" /\ task'.state = "ended"
        BY <1>0, <2>1, PrepareFailedEffect DEF Ended
      <3>4. PendingIsQuiet'
        BY <2>0, <3>1, <3>3 DEF Began, NetParts, PendingIsQuiet
      <3>5. QED BY <3>2, <3>3, <3>4 DEF NetParts, RulesInStep
    <2>2. CASE op.kind # "prepare" /\ main' = "nodes" /\ UNCHANGED <<node, task, live, op>>
      <3>1. NetInv'
        BY <2>0, <2>2 DEF NetParts, NetInv, NetTypeOK, NetShape, LeaseInStep, Shortened, Healthy, Ended
      <3>2. PendingIsQuiet'
        BY <2>0, <2>2 DEF NetParts, PendingIsQuiet
      <3>3. RulesInStep'
        BY <2>0, <2>2 DEF NetParts, RulesInStep, Clean, Confirmed, Untouched, Healthy, Ended
      <3>4. QED BY <3>1, <3>2, <3>3 DEF NetParts
    <2>3. QED BY <1>8, <2>1, <2>2 DEF NetworkPrepared
  <1>9. CASE PrepareEnds
    <2>1. CASE PrepareFailed
      BY <1>0, <1>9, <2>1, PrepareFailedEffect, NetFrame DEF PrepareEnds
    <2>2. CASE /\ main' = "observe" /\ UNCHANGED <<node, live>>
               /\ task' = [task EXCEPT !.state = IF @ = "preparing" THEN "running" ELSE @]
      <3>1. task.state \in {"preparing", "running", "ended"}
        BY <1>0 DEF TaskRecords
      <3>2. task'.state = "ended" <=> task.state = "ended"
        BY <1>0, <2>2, <3>1, TaskUpdates
      <3>3. QED BY <1>9, <2>2, <3>2, NetFrame DEF PrepareEnds, Ended
    <2>3. QED BY <1>9, <2>1, <2>2 DEF PrepareEnds
  <1>10. CASE EndTask
    BY <1>0, <1>10, TaskUpdates, NetFrame DEF EndTask, Ended, labVars
  <1>11. CASE CancelRuntime
    BY <1>11, NetFrame DEF CancelRuntime, labVars
  <1>12. CASE ObserveEnds
    BY <1>12, NetFrame DEF ObserveEnds
  <1>13. ASSUME NEW c \in Cleaners,
                CallCleanup(c) \/ CleanupSkipped(c) \/ TakeGate(c) \/ GateTimeout(c) \/ NodesDeleted(c)
         PROVE  NetParts'
    <2>1. UNCHANGED <<task, live, netVars>> /\ main' \in {main, "over"}
      BY <1>13 DEF CallCleanup, CleanupSkipped, TakeGate, GateTimeout, NodesDeleted, Return
    <2>2. QED BY <2>1, NetFrame DEF Ended
  <1>14. ASSUME NEW c \in Cleaners, CleanupBegins(c) PROVE NetParts'
    <2>1. task'.state = task.state /\ entry' \in [Entries -> States]
      BY <1>0, <1>14, <1>a, TaskUpdates DEF CleanupBegins, States
    <2>2. QED BY <1>14, <1>a, <1>s, <2>1, RouterFrame DEF CleanupBegins
  <1>15. ASSUME NEW c \in Cleaners, CleanupEnds(c) PROVE NetParts'
    <2>1. task'.state = task.state
      BY <1>0, <1>15, TaskUpdates DEF CleanupEnds
    <2>2. entry' \in [Entries -> States]
      BY <1>15, <1>a DEF CleanupEnds, States
    <2>3. QED BY <1>15, <1>a, <1>s, <2>1, <2>2, RouterFrame DEF CleanupEnds, Return
  <1>16. ASSUME NEW c \in Calls, NEW n \in Clients, NEW a \in {"start", "poweroff", "reset"},
                AskPower(c, n, a) PROVE NetParts'
    BY <1>16, NetFrame DEF AskPower, Ended
  <1>17. ASSUME NEW c \in Calls,
                EnterGate(c) \/ Send(c) \/ Act(c) \/ Dispatched(c) \/ PowerDone(c) \/ CallGivesUp(c)
         PROVE  NetParts'
    <2>1. UNCHANGED <<task, live, netVars, main>>
      BY <1>17 DEF EnterGate, Send, Act, Dispatched, PowerDone, CallGivesUp
    <2>2. QED BY <2>1, NetFrame DEF Ended
  <1>18. CASE Crash
    <2>0. /\ main' = "down" /\ live' = FALSE /\ relays' = {} /\ op' = NoOp /\ asked' = {}
          /\ beat' = "idle" /\ expired' = FALSE
          /\ UNCHANGED <<task, net, internet, entry, forwards, router>>
      BY <1>18 DEF Crash
    <2>1. Began("none", "none", None)
      BY <2>0, NoOpBegins
    <2>2. NetInv'
      <3>1. NetTypeOK'
        BY <1>0, <2>0, <2>1 DEF Began, NetTypeOK
      <3>2. NetShape' /\ LeaseInStep'
        BY <1>0, <2>0, <2>1, NetNumbers
        DEF Began, NetParts, NetInv, NetShape, LeaseInStep, Shortened, Healthy, Sent, Answered
      <3>3. QED BY <3>1, <3>2 DEF NetInv
    <2>3. PendingIsQuiet'
      BY <2>0, <2>1 DEF Began, NetParts, PendingIsQuiet
    <2>4. QED BY <2>0, <2>2, <2>3 DEF NetParts, RulesInStep
  <1>19. CASE Restart
    BY <1>0, <1>19, TaskUpdates, NetFrame DEF Restart, Ended
  <1> HIDE DEF NetParts
  <1> QED
    BY <1>1, <1>2, <1>3, <1>4, <1>5, <1>6, <1>7, <1>8, <1>9, <1>10, <1>11, <1>12, <1>13, <1>14,
       <1>15, <1>16, <1>17, <1>18, <1>19
    DEF Next
-----------------------------------------------------------------------------
(* Every step keeps the nodes' and the cleanup's part.                     *)

Preparing == {"create", "configure", "start", "probe"}
PrepKept == \A m \in Nodes : /\ prep'[m] \in Preparing => prep[m] \in Preparing
                             /\ prep'[m] = "idle" => prep[m] = "idle"
KeptNodes == \A m \in Nodes : node'[m].intent = node[m].intent /\ node'[m].cleaned = node[m].cleaned
KeptMachines == \A m \in Nodes : (vm'[m].power = "absent") = (vm[m].power = "absent")

\* A lab that is not live has no holder of the network lock but a heartbeat or
\* prepare, once the gate was taken: nothing of the network begins again, and
\* after the end of the lab the endpoints stay as they are.
LEMMA NetIsShut ==
  ASSUME NetInv, NetNext, asked = {}, op.kind \notin Mutations, ~live
  PROVE  asked' = {} /\ op'.kind \notin Mutations /\ (Ended => entry' = entry)
  <1> DEFINE Shut == asked' = {} /\ op'.kind \notin Mutations /\ (Ended => entry' = entry)
  <1>0. NetTypeOK /\ op \in Operations
    BY DEF NetInv, NetTypeOK
  <1> USE <1>0, NoOpFields DEF Mutations, Moved, Began
  <1>1. CASE Refresh
    BY <1>1, RefreshEffect
  <1>2. CASE NoProtection
    BY <1>2, FailMoves DEF NoProtection
  <1>3. ASSUME NEW complete \in BOOLEAN, RecoverRouter(complete) PROVE Shut
    BY <1>3, RecoverRouterEffect
  <1>4. CASE Probe
    BY <1>4, ProbeEffect
  <1>5. ASSUME NEW complete \in BOOLEAN, RouterApplies(complete) PROVE Shut
    BY <1>5, RouterAppliesEffect
  <1>6. CASE Acked
    BY <1>6, AckedEffect
  <1>7. CASE RestoreFails
    BY <1>7, FailMoves DEF RestoreFails
  <1>8. CASE Confirm
    BY <1>8, ConfirmEffect
  <1>9. ASSUME NEW code \in {"transient", "hard"}, CallFails(code) PROVE Shut
    BY <1>9, FailMoves DEF CallFails
  <1>10. CASE BeatDue
    BY <1>10 DEF BeatDue
  <1>11. CASE BeatLocks
    BY <1>11, RefreshingBegins DEF BeatLocks, Kinds
  <1>12. CASE BeatLate
    BY <1>12, BeatLateEffect
  <1>13. CASE BeatDegrades
    BY <1>13, BeatDegradesEffect
  <1>14. CASE BeatFailed
    BY <1>14, BeatFailedEffect
  <1>15. CASE ObserveExpiry
    BY <1>15 DEF ObserveExpiry
  <1>16. CASE Expire
    BY <1>16, ExpireEffect
  <1>17. CASE (\E q \in Requests : Ask(q)) \/ (\E e \in Entries : Restore(e))
    BY <1>17 DEF Ask, Restore
  <1>18. CASE \E q \in asked : Refused(q) \/ Perform(q) \/ CreateUnsaved(q)
    BY <1>18
  <1>19. CASE OpenRelay \/ Unforward
    BY <1>19 DEF OpenRelay, Unforward
  <1>20. CASE Publish
    BY <1>20 DEF Publish, NetInv, NetShape
  <1>21. CASE OperationFailed
    BY <1>21 DEF OperationFailed
  <1>22. CASE Tick
    BY <1>22, TickEffect
  <1>23. CASE RouterReboots
    BY <1>23, RouterRebootsEffect
  <1> QED
    BY <1>1, <1>2, <1>3, <1>4, <1>5, <1>6, <1>7, <1>8, <1>9, <1>10, <1>11, <1>12, <1>13, <1>14,
       <1>15, <1>16, <1>17, <1>18, <1>19, <1>20, <1>21, <1>22, <1>23
    DEF NetNext

\* Whoever has been through the gate finds the lab ended and its context cancelled.
LEMMA GateIsLate ==
  ASSUME CleanupInStep
  PROVE  /\ Holder # {} => ~live /\ Ended /\ task.cleanup = "running"
         /\ task.cleanup = "complete" => ~live /\ Ended /\ Holder = {}
         /\ \A c \in Cleaners : cleaner[c] \in {"gate", "delete", "finish"} => Holder # {}
         /\ \A c, d \in Cleaners : /\ cleaner[c] \in {"gate", "delete", "finish"}
                                   /\ cleaner[d] \in {"gate", "delete", "finish"}
                                   => c = d
  BY DEF CleanupInStep, Holder

\* The network's steps.
LEMMA NetKeepsClean ==
  ASSUME NetInv, CleanInv, work \in Work, NetNext, UNCHANGED labVars PROVE CleanInv'
  <1>1. UNCHANGED <<task, live>> /\ UNCHANGED labVars
    BY NetEffect
  <1>2. CleanupInStep' /\ PreparationInStep' /\ VMIsRecorded' /\ DeletionInStep'
    BY <1>1 DEF CleanInv, CleanupInStep, PreparationInStep, VMIsRecorded, DeletionInStep, labVars,
       Holder, Writing, Ended
  <1>3. GateInStep'
    <2> SUFFICES ASSUME \/ Writing \/ task.cleanup = "complete"
                        \/ (\E c \in Cleaners : cleaner[c] = "finish") /\ ~troubled
                 PROVE  asked' = {} /\ op'.kind \notin Mutations
      BY <1>1 DEF GateInStep, Writing, labVars
    <2>1. ~live
      BY GateIsLate DEF CleanInv, Writing
    <2>2. asked = {} /\ op.kind \notin Mutations
      BY DEF CleanInv, GateInStep
    <2>3. QED BY <2>1, <2>2, NetIsShut
  <1>4. ReleasedIsGone'
    <2> SUFFICES ASSUME task.cleanup = "complete"
                 PROVE  /\ \A n \in Nodes : vm'[n].power = "absent"
                        /\ Listening' = {}
                        /\ \A e \in Entries : entry'[e] \in {"none", "closed"}
      BY <1>1 DEF ReleasedIsGone
    <2>1. ~live /\ Ended /\ asked = {} /\ op.kind \notin Mutations
      BY GateIsLate DEF CleanInv, GateInStep
    <2>2. entry' = entry
      BY <2>1, NetIsShut
    <2>3. QED BY <1>1, <2>1, <2>2 DEF CleanInv, ReleasedIsGone, Listening, labVars
  <1>5. QED BY <1>2, <1>3, <1>4 DEF CleanInv

\* A step that leaves cleanup, deletions, endpoints and the existence of the
\* VMs alone; the lab may end.
LEMMA CleanFrame ==
  ASSUME CleanInv, UNCHANGED <<cleaner, troubled, del, asked, entry>>,
         PrepKept, KeptNodes, KeptMachines, task'.cleanup = task.cleanup, live' => live,
         Ended => Ended', main' \in {"cleanup", "over"} => Ended',
         ~live' => Ended' \/ main' = "down", op'.kind \in Mutations => op.kind \in Mutations
  PROVE  CleanInv'
  <1>1. CleanupInStep'
    BY DEF CleanInv, CleanupInStep, Holder
  <1>2. PreparationInStep'
    BY DEF CleanInv, PreparationInStep, PrepKept, KeptNodes, KeptMachines, Preparing
  <1>3. VMIsRecorded'
    BY DEF CleanInv, VMIsRecorded, KeptNodes, KeptMachines
  <1>4. DeletionInStep' /\ GateInStep'
    BY DEF CleanInv, DeletionInStep, GateInStep, Writing, KeptMachines
  <1>5. ReleasedIsGone'
    BY GateIsLate DEF CleanInv, ReleasedIsGone, Listening, KeptMachines
  <1>6. QED BY <1>1, <1>2, <1>3, <1>4, <1>5 DEF CleanInv

\* The same when the lab does not end.
LEMMA CleanStays ==
  ASSUME CleanInv, UNCHANGED <<task, live, main, cleaner, troubled, del, asked, entry, op>>,
         PrepKept, KeptNodes, KeptMachines
  PROVE  CleanInv'
  <1>1. /\ Ended => Ended'
        /\ main' \in {"cleanup", "over"} => Ended'
        /\ ~live' => Ended' \/ main' = "down"
    BY DEF CleanInv, CleanupInStep, Ended
  <1>2. QED BY <1>1, CleanFrame

\* A step of preparation that leaves everything but the progress of one node alone.
LEMMA PreparationMoves ==
  ASSUME LabTypeOK, CleanInv, NEW n \in Nodes, NEW at \in {"configure", "start", "probe", "ok",
                                                       "failed", "returned"},
         prep' = [prep EXCEPT ![n] = at], prep[n] # "idle",
         at \in Preparing => prep[n] \in Preparing,
         UNCHANGED <<task, live, main, cleaner, troubled, del, asked, entry, op>>,
         KeptNodes, KeptMachines
  PROVE  CleanInv'
  <1>1. PrepKept
    BY DEF LabTypeOK, PrepKept, Preparing
  <1>2. QED BY <1>1, CleanStays

\* A node is begun: its VM does not exist yet.
LEMMA BeginNodeIsClean ==
  ASSUME LabTypeOK, CleanInv, NEW n \in Nodes, NEW saved \in BOOLEAN, BeginNode(n, saved)
  PROVE  CleanInv'
  <1>0. /\ live /\ prep[n] = "idle"
        /\ prep'[n] = (IF saved THEN "create" ELSE "returned")
        /\ \A m \in Nodes \ {n} : prep'[m] = prep[m]
        /\ node'[n].intent = (IF saved THEN "saved" ELSE "memory")
        /\ node'[n].cleaned = node[n].cleaned /\ \A m \in Nodes \ {n} : node'[m] = node[m]
        /\ UNCHANGED <<task, live, vm, main, cleaner, troubled, del>>
        /\ UNCHANGED <<asked, op, entry, relays>>
    BY BeginNodeEffect DEF LabTypeOK, netVars
  <1>1. CleanupInStep' /\ DeletionInStep' /\ GateInStep' /\ ReleasedIsGone'
    BY <1>0 DEF CleanInv, CleanupInStep, DeletionInStep, GateInStep, ReleasedIsGone, Writing,
       Holder, Ended, Listening
  <1>2. vm[n].power = "absent"
    BY <1>0 DEF CleanInv, PreparationInStep
  <1>3. PreparationInStep'
    BY <1>0, <1>2 DEF CleanInv, PreparationInStep
  <1>4. VMIsRecorded'
    BY <1>0, <1>2 DEF CleanInv, VMIsRecorded
  <1>5. QED BY <1>1, <1>3, <1>4 DEF CleanInv

\* A VM is created: its intent is saved, and nobody cleans up.
LEMMA CreateVMIsClean ==
  ASSUME LabTypeOK, CleanInv, NEW n \in Nodes, CreateVM(n)
  PROVE  CleanInv'
  <1>0. /\ live /\ prep[n] = "create"
        /\ prep'[n] = "configure" /\ \A m \in Nodes \ {n} : prep'[m] = prep[m]
        /\ vm'[n].power = "off" /\ \A m \in Nodes \ {n} : vm'[m] = vm[m]
        /\ UNCHANGED <<task, live, node, main, cleaner, troubled, del>>
        /\ UNCHANGED <<asked, op, entry, relays>>
    BY PowerUpdate DEF LabTypeOK, netVars, CreateVM, Powers, Stopped
  <1>1. CleanupInStep' /\ GateInStep'
    BY <1>0 DEF CleanInv, CleanupInStep, GateInStep, Writing, Holder, Ended
  <1>2. PreparationInStep'
    BY <1>0 DEF CleanInv, PreparationInStep
  <1>3. VMIsRecorded'
    BY <1>0 DEF CleanInv, VMIsRecorded, PreparationInStep
  <1>4. DeletionInStep' /\ ReleasedIsGone'
    BY <1>0, GateIsLate DEF CleanInv, DeletionInStep, ReleasedIsGone, Writing
  <1>5. QED BY <1>1, <1>2, <1>3, <1>4 DEF CleanInv

\* A step of a deletion: the VMs that are gone stay so.
LEMMA DeletionIsClean ==
  ASSUME CleanInv, NEW n \in Nodes, del[n].at # "none",
         UNCHANGED <<task, live, main, prep, cleaner, troubled, asked, op, entry, relays>>,
         \A m \in Nodes \ {n} : del'[m] = del[m] /\ vm'[m].power = vm[m].power /\ node'[m] = node[m],
         node'[n].intent = node[n].intent,
         node[n].cleaned => node'[n].cleaned,
         node'[n].cleaned => node[n].cleaned \/ vm'[n].power = "absent",
         vm[n].power = "absent" => vm'[n].power = "absent",
         del'[n].at \in {"none", "verify", "done"} => vm'[n].power = "absent",
         del'[n].at \in {"list", "recheck", "unregister", "verify"} => del'[n].tries < MaxTries
  PROVE  CleanInv'
  <1>0. ~live
    BY DEF CleanInv, PreparationInStep
  <1>1. CleanupInStep' /\ GateInStep'
    BY DEF CleanInv, CleanupInStep, GateInStep, Writing, Holder, Ended
  <1>2. PreparationInStep'
    BY <1>0 DEF CleanInv, PreparationInStep
  <1>3. VMIsRecorded'
    BY DEF CleanInv, VMIsRecorded
  <1>4. DeletionInStep' /\ ReleasedIsGone'
    BY DEF CleanInv, DeletionInStep, ReleasedIsGone, Writing, Listening
  <1>5. QED BY <1>1, <1>2, <1>3, <1>4 DEF CleanInv

\* Cleanup begins: nobody else does it.
LEMMA CleanupBeginsIsClean ==
  ASSUME LabTypeOK, CleanInv, NEW c \in Cleaners, CleanupBegins(c)
  PROVE  CleanInv'
  <1>0. /\ cleaner[c] = "lock" /\ Holder = {}
        /\ cleaner'[c] = "gate" /\ live' = FALSE
        /\ \A d \in Cleaners \ {c} : cleaner'[d] = cleaner[d]
        /\ task'.cleanup = "running" /\ task'.state = task.state
        /\ UNCHANGED <<main, node, vm, prep, del, asked, op>>
    BY TaskUpdates DEF LabTypeOK, CleanupBegins
  <1>1. Holder' = {c} /\ ~Writing' /\ \A d \in Cleaners : cleaner'[d] # "finish"
    BY <1>0 DEF Holder, Writing
  <1>2. CleanupInStep'
    BY <1>0, <1>1 DEF CleanInv, CleanupInStep, Ended
  <1>3. DeletionInStep' /\ GateInStep' /\ ReleasedIsGone'
    BY <1>0, <1>1 DEF DeletionInStep, GateInStep, ReleasedIsGone
  <1>4. PreparationInStep' /\ VMIsRecorded'
    BY <1>0 DEF CleanInv, PreparationInStep, VMIsRecorded
  <1>5. QED BY <1>2, <1>3, <1>4 DEF CleanInv

\* The gate is taken: what is not on the list has no VM.
LEMMA TakeGateIsClean ==
  ASSUME LabTypeOK, CleanInv, NEW c \in Cleaners, TakeGate(c)
  PROVE  CleanInv'
  <1>0. /\ cleaner[c] = "gate" /\ ~Readers /\ cleaner'[c] = "delete"
        /\ \A d \in Cleaners \ {c} : cleaner'[d] = cleaner[d]
       
        /\ \A m \in Nodes :
               /\ del'[m].at = IF node[m].intent # "none" /\ ~node[m].cleaned THEN "list" ELSE "none"
               /\ del'[m].tries < MaxTries
        /\ UNCHANGED <<task, live, node, vm, prep, main, troubled>>
        /\ UNCHANGED <<asked, op, entry, relays>>
    BY TakeGateEffect DEF LabTypeOK, netVars
  <1>1. /\ ~live /\ Ended /\ task.cleanup = "running"
        /\ \A d \in Cleaners \ {c} : cleaner[d] \notin {"gate", "delete", "finish"}
    BY <1>0, GateIsLate DEF CleanInv
  <1>2. Holder' = Holder /\ \A d \in Cleaners : cleaner'[d] # "finish"
    BY <1>0, <1>1 DEF Holder
  <1>3. CleanupInStep'
    BY <1>0, <1>1, <1>2 DEF CleanInv, CleanupInStep, Ended
  <1>4. PreparationInStep' /\ VMIsRecorded'
    BY <1>0, <1>1 DEF CleanInv, PreparationInStep, VMIsRecorded
  <1>5. DeletionInStep'
    BY <1>0, <1>2 DEF CleanInv, DeletionInStep, VMIsRecorded
  <1>6. GateInStep' /\ ReleasedIsGone'
    BY <1>0, <1>1 DEF Readers, GateInStep, ReleasedIsGone, Mutations
  <1>7. QED BY <1>3, <1>4, <1>5, <1>6 DEF CleanInv

\* The gate stays busy: the cleanup is troubled.
LEMMA GateTimeoutIsClean ==
  ASSUME LabTypeOK, CleanInv, NEW c \in Cleaners, GateTimeout(c)
  PROVE  CleanInv'
  <1>0. /\ cleaner[c] = "gate" /\ cleaner'[c] = "finish" /\ troubled' = TRUE
        /\ \A d \in Cleaners \ {c} : cleaner'[d] = cleaner[d]
        /\ \A m \in Nodes : del'[m].at = "none"
        /\ UNCHANGED <<task, live, node, vm, prep, main>>
        /\ UNCHANGED <<asked, op, entry, relays>>
    BY Resets DEF LabTypeOK, netVars, GateTimeout
  <1>1. /\ ~live /\ Ended /\ task.cleanup = "running"
        /\ \A d \in Cleaners \ {c} : cleaner[d] \notin {"gate", "delete", "finish"}
    BY <1>0, GateIsLate DEF CleanInv
  <1>2. Holder' = Holder /\ ~Writing'
    BY <1>0, <1>1 DEF Holder, Writing
  <1>3. CleanupInStep'
    BY <1>0, <1>1, <1>2 DEF CleanInv, CleanupInStep, Ended
  <1>4. PreparationInStep' /\ VMIsRecorded'
    BY <1>0, <1>1 DEF CleanInv, PreparationInStep, VMIsRecorded
  <1>5. DeletionInStep' /\ GateInStep' /\ ReleasedIsGone'
    BY <1>0, <1>1, <1>2 DEF DeletionInStep, GateInStep, ReleasedIsGone
  <1>6. QED BY <1>3, <1>4, <1>5 DEF CleanInv

\* All deletions returned: without a failed one there is no VM left.
LEMMA NodesDeletedIsClean ==
  ASSUME LabTypeOK, CleanInv, NEW c \in Cleaners, NodesDeleted(c)
  PROVE  CleanInv'
  <1>0. /\ cleaner[c] = "delete" /\ cleaner'[c] = "finish"
        /\ \A d \in Cleaners \ {c} : cleaner'[d] = cleaner[d]
       
        /\ \A m \in Nodes : del[m].at \in {"none", "done", "failed"}
        /\ ~troubled' => \A m \in Nodes : del[m].at # "failed"
        /\ UNCHANGED <<task, live, node, vm, prep, main, del>>
        /\ UNCHANGED <<asked, op, entry, relays>>
    BY DEF LabTypeOK, netVars, NodesDeleted
  <1>1. /\ ~live /\ Ended /\ task.cleanup = "running" /\ Writing
        /\ \A d \in Cleaners \ {c} : cleaner[d] \notin {"gate", "delete", "finish"}
    BY <1>0, GateIsLate DEF CleanInv, Writing
  <1>2. Holder' = Holder /\ ~Writing'
    BY <1>0, <1>1 DEF Holder, Writing
  <1>3. CleanupInStep'
    BY <1>0, <1>1, <1>2 DEF CleanInv, CleanupInStep, Ended
  <1>4. PreparationInStep' /\ VMIsRecorded'
    BY <1>0 DEF CleanInv, PreparationInStep, VMIsRecorded
  <1>5. DeletionInStep'
    BY <1>0, <1>1, <1>2 DEF CleanInv, DeletionInStep
  <1>6. GateInStep' /\ ReleasedIsGone'
    BY <1>0, <1>1, <1>2 DEF CleanInv, GateInStep, ReleasedIsGone
  <1>7. QED BY <1>3, <1>4, <1>5, <1>6 DEF CleanInv

\* Cleanup ends: it is complete only when every VM is gone and nobody can come.
LEMMA CleanupEndsIsClean ==
  ASSUME LabTypeOK, CleanInv, entry \in [Entries -> States], NEW c \in Cleaners, CleanupEnds(c)
  PROVE  CleanInv'
  <1>0. /\ cleaner[c] = "finish" /\ cleaner'[c] = "idle"
        /\ \A d \in Cleaners \ {c} : cleaner'[d] = cleaner[d]
        /\ \A m \in Nodes : del'[m].at = "none"
        /\ main' \in {main, "over"} /\ task'.state = task.state
        /\ task'.cleanup = IF troubled THEN "required" ELSE "complete"
        /\ ~troubled => \A e \in Entries : entry'[e] \in {"none", "closed"}
        /\ UNCHANGED <<live, node, vm, prep, asked, op, relays>>
    BY Resets, TaskUpdates DEF LabTypeOK, CleanupEnds, Return
  <1>1. /\ ~live /\ Ended /\ task.cleanup = "running"
        /\ \A d \in Cleaners \ {c} : cleaner[d] \notin {"gate", "delete", "finish"}
    BY <1>0, GateIsLate DEF CleanInv
  <1>2. Holder' = {} /\ ~Writing' /\ \A d \in Cleaners : cleaner'[d] # "finish"
    BY <1>0, <1>1 DEF Holder, Writing
  <1>3. CleanupInStep'
    BY <1>0, <1>1, <1>2 DEF CleanInv, CleanupInStep, Ended
  <1>4. PreparationInStep' /\ VMIsRecorded'
    BY <1>0, <1>1 DEF CleanInv, PreparationInStep, VMIsRecorded
  <1>5. DeletionInStep'
    BY <1>2 DEF DeletionInStep
  <1>6. GateInStep'
    BY <1>0, <1>2 DEF CleanInv, GateInStep
  <1>7. ReleasedIsGone'
    BY <1>0, <1>1 DEF CleanInv, ReleasedIsGone, DeletionInStep, Listening
  <1>8. QED BY <1>3, <1>4, <1>5, <1>6, <1>7 DEF CleanInv

\* The controller dies: what it had saved stays.
LEMMA CrashIsClean ==
  ASSUME LabTypeOK, CleanInv, Crash PROVE CleanInv'
  <1>0. /\ main' = "down" /\ live' = FALSE /\ troubled' = FALSE
        /\ \A m \in Nodes : /\ node[m].intent = "saved" => node'[m].intent = "saved"
                            /\ node'[m].cleaned = node[m].cleaned
        /\ relays' = {} /\ op' = NoOp /\ asked' = {}
        /\ \A m \in Nodes : prep'[m] = "idle" /\ del'[m].at = "none"
        /\ \A c \in Cleaners : cleaner'[c] = "idle"
        /\ UNCHANGED <<task, entry, vm>>
    BY CrashEffect, Resets
  <1>1. Holder' = {} /\ ~Writing' /\ \A d \in Cleaners : cleaner'[d] # "finish"
    BY <1>0 DEF Holder, Writing
  <1>2. CleanupInStep'
    BY <1>0, <1>1 DEF CleanInv, CleanupInStep, Ended
  <1>3. PreparationInStep' /\ VMIsRecorded'
    BY <1>0 DEF CleanInv, PreparationInStep, VMIsRecorded
  <1>4. DeletionInStep' /\ GateInStep' /\ ReleasedIsGone'
    BY <1>0, <1>1, NoOpFields DEF CleanInv, DeletionInStep, GateInStep, ReleasedIsGone, Listening,
       Mutations
  <1>5. QED BY <1>2, <1>3, <1>4 DEF CleanInv

\* Each step keeps the nodes' and the cleanup's part.
LEMMA LabKeepsClean ==
  ASSUME TypeOK, NetInv, CleanInv, CallShape, Next PROVE CleanInv'
  <1>0. LabTypeOK /\ NetTypeOK /\ task \in TaskRecords /\ entry \in [Entries -> States]
        /\ work \in Work
    BY TypeParts DEF LabTypeOK, NetTypeOK
  <1>00. \A c \in Calls : call[c].at # "idle" =>
             call[c].node \in Nodes /\ call[c].action \in {"start", "poweroff", "reset"}
    BY DEF CallShape, Nodes
  <1>a. UNCHANGED prep => PrepKept
    BY DEF PrepKept
  <1>b. UNCHANGED node \/ SameNodes => KeptNodes
    BY DEF KeptNodes, SameNodes
  <1>c. UNCHANGED vm \/ SameMachines => KeptMachines
    BY DEF KeptMachines, SameMachines
  <1>d. UNCHANGED netVars => UNCHANGED <<asked, entry, op, relays>>
    BY DEF netVars
  <1>1. CASE NetNext /\ UNCHANGED labVars
    BY <1>0, <1>1, NetKeepsClean
  <1>2. ASSUME NEW n \in Nodes, NEW saved \in BOOLEAN, BeginNode(n, saved) PROVE CleanInv'
    BY <1>0, <1>2, BeginNodeIsClean
  <1>3. ASSUME NEW n \in Nodes, CreateVM(n) PROVE CleanInv'
    BY <1>0, <1>3, CreateVMIsClean
  <1>4. ASSUME NEW n \in Nodes, Configure(n) PROVE CleanInv'
    BY <1>0, <1>b, <1>c, <1>d, <1>4, PreparationMoves DEF Configure, Preparing
  <1>5. ASSUME NEW n \in Nodes, StartVM(n) PROVE CleanInv'
    <2>1. KeptMachines
      BY <1>0, <1>5, PowerUpdate DEF StartVM, Powers, KeptMachines
    <2>2. QED BY <1>0, <1>b, <1>d, <1>5, <2>1, PreparationMoves DEF StartVM, Preparing
  <1>6. ASSUME NEW n \in Nodes, Ready(n) PROVE CleanInv'
    <2>1. prep[n] = "probe"
      BY <1>6 DEF Ready
    <2>2. QED BY <1>0, <1>b, <1>c, <1>d, <1>6, <2>1, ReadyEffect, PreparationMoves DEF Preparing
  <1>7. ASSUME NEW n \in Nodes, PrepareFails(n) PROVE CleanInv'
    BY <1>0, <1>b, <1>c, <1>d, <1>7, PreparationMoves DEF PrepareFails, Preparing
  <1>8. ASSUME NEW n \in Nodes, PrepareReturns(n) PROVE CleanInv'
    <2>1. prep[n] \in {"ok", "failed"}
      BY <1>8 DEF PrepareReturns
    <2>2. QED BY <1>0, <1>b, <1>c, <1>d, <1>8, <2>1, PrepareReturnsEffect, PreparationMoves
          DEF Preparing
  <1>9. ASSUME NEW n \in Nodes, PowerOff(n) PROVE CleanInv'
    <2>1. /\ del[n].at = "list" /\ SameMachines /\ del'[n].tries = del[n].tries
          /\ del'[n].at = IF vm[n].power = "absent" THEN "verify" ELSE "recheck"
          /\ \A m \in Nodes \ {n} : del'[m] = del[m]
          /\ UNCHANGED <<task, live, main, node, prep, cleaner, troubled, asked, op, entry, relays>>
      BY <1>9, PowerOffEffect
    <2>2. \A m \in Nodes \ {n} : vm'[m].power = vm[m].power
      <3>1. CASE vm' = vm
        BY <3>1
      <3>2. CASE vm' = [vm EXCEPT ![n].power = "off"]
        BY <1>0, <3>2, PowerUpdate DEF Powers
      <3>3. QED BY <1>9, <3>1, <3>2 DEF PowerOff
    <2>3. del[n].tries < MaxTries
      BY <2>1 DEF CleanInv, PreparationInStep
    <2>4. QED BY <2>1, <2>2, <2>3, DeletionIsClean DEF SameMachines
  <1>10. ASSUME NEW n \in Nodes, Recheck(n) PROVE CleanInv'
    <2>1. /\ del[n].at = "recheck" /\ del'[n].at \in {"unregister", "failed"}
          /\ del'[n].tries = del[n].tries /\ \A m \in Nodes \ {n} : del'[m] = del[m]
          /\ UNCHANGED <<task, live, main, node, vm, prep, cleaner, troubled>>
          /\ UNCHANGED <<asked, op, entry, relays>>
      BY <1>0, <1>d, <1>10, DelUpdate DEF Recheck
    <2>2. del[n].tries < MaxTries
      BY <2>1 DEF CleanInv, PreparationInStep
    <2>3. QED BY <2>1, <2>2, DeletionIsClean
  <1>11. ASSUME NEW n \in Nodes, Unregister(n) PROVE CleanInv'
    <2>1. /\ del[n].at = "unregister" /\ del'[n].at = "verify"
          /\ del'[n].tries = del[n].tries /\ \A m \in Nodes \ {n} : del'[m] = del[m]
          /\ vm'[n].power = "absent" /\ \A m \in Nodes \ {n} : vm'[m] = vm[m]
          /\ UNCHANGED <<task, live, main, node, prep, cleaner, troubled, asked, op, entry, relays>>
      BY <1>0, <1>11, DelUpdate, PowerUpdate DEF Unregister, Powers
    <2>2. del[n].tries < MaxTries
      BY <2>1 DEF CleanInv, PreparationInStep
    <2>3. QED BY <2>1, <2>2, DeletionIsClean
  <1>12. ASSUME NEW n \in Nodes, Verify(n) PROVE CleanInv'
    <2>1. /\ del[n].at = "verify" /\ del'[n].at = "done" /\ \A m \in Nodes \ {n} : del'[m] = del[m]
          /\ vm[n].power = "absent" /\ node'[n].intent = node[n].intent /\ node'[n].cleaned
          /\ \A m \in Nodes \ {n} : node'[m] = node[m]
          /\ UNCHANGED <<task, live, main, vm, prep, cleaner, troubled>>
          /\ UNCHANGED <<asked, op, entry, relays>>
      BY <1>0, <1>d, <1>12, DelUpdate, VerifyEffect DEF Verify
    <2>2. QED BY <2>1, DeletionIsClean
  <1>13. ASSUME NEW n \in Nodes, DeleteFails(n) PROVE CleanInv'
    <2>1. del[n].at \in {"list", "recheck", "unregister", "verify"} /\ del[n].tries < MaxTries
      BY <1>13 DEF CleanInv, PreparationInStep, DeleteFails
    <2>2. /\ del'[n].at \in {"list", "failed"} /\ (del'[n].at = "list" => del'[n].tries < MaxTries)
          /\ \A m \in Nodes \ {n} : del'[m] = del[m]
          /\ UNCHANGED <<task, live, main, node, vm, prep, cleaner, troubled>>
          /\ UNCHANGED <<asked, op, entry, relays>>
      BY <1>0, <1>d, <1>13, <2>1, DeleteFailsEffect
    <2>3. QED BY <2>1, <2>2, DeletionIsClean
  <1>14. ASSUME NEW n \in Nodes, Intrude(n) PROVE CleanInv'
    <2>1. KeptMachines
      BY <1>0, <1>14, PowerUpdate DEF Intrude, Powers, KeptMachines
    <2>2. QED BY <1>a, <1>b, <1>d, <1>14, <2>1, CleanStays DEF Intrude
  <1>15. ASSUME NEW n \in Nodes, ProbeBegins(n) \/ ProbeSees(n) PROVE CleanInv'
    BY <1>a, <1>b, <1>c, <1>d, <1>15, CleanStays DEF ProbeBegins, ProbeSees
  <1>16. ASSUME NEW n \in Nodes, ProbeApplies(n) PROVE CleanInv'
    <2>1. KeptNodes
      BY <1>0, <1>16, ProbeAppliesEffect DEF KeptNodes
    <2>2. QED BY <1>a, <1>c, <1>d, <1>16, <2>1, CleanStays DEF ProbeApplies
  <1>17. ASSUME NEW n \in Nodes, VMStarts(n) PROVE CleanInv'
    <2>1. KeptMachines
      BY <1>17, VMStartsEffect DEF KeptMachines
    <2>2. QED BY <1>a, <1>b, <1>17, <2>1, CleanStays DEF VMStarts
  <1>18. CASE RouterPrepared
    <2>1. CASE PrepareFailed /\ UNCHANGED op
      BY <1>0, <1>a, <1>b, <1>c, <1>18, <2>1, PrepareFailedEffect, CleanFrame
      DEF RouterPrepared, Ended
    <2>2. CASE /\ main' = "network" /\ op' = Refreshing("prepare", None)
               /\ UNCHANGED <<node, task, live>>
      <3>1. op'.kind = "prepare"
        BY <2>2, RefreshingBegins DEF Kinds, Began
      <3>2. ~live' => Ended' \/ main' = "down"
        BY <1>18, <2>2 DEF RouterPrepared, CleanInv, CleanupInStep, Ended
      <3>3. QED BY <1>a, <1>b, <1>c, <1>18, <2>2, <3>1, <3>2, CleanFrame
            DEF RouterPrepared, Ended, Mutations
    <2>3. QED BY <1>18, <2>1, <2>2 DEF RouterPrepared
  <1>19. CASE NetworkPrepared
    <2>1. CASE PrepareFailed /\ op' = NoOp
      BY <1>0, <1>a, <1>b, <1>c, <1>19, <2>1, NoOpFields, PrepareFailedEffect, CleanFrame
      DEF NetworkPrepared, Ended, Mutations
    <2>2. CASE main' = "nodes" /\ UNCHANGED <<node, task, live, op>>
      <3>1. ~live' => Ended' \/ main' = "down"
        BY <1>19, <2>2 DEF NetworkPrepared, CleanInv, CleanupInStep, Ended
      <3>2. QED BY <1>a, <1>b, <1>c, <1>19, <2>2, <3>1, CleanFrame DEF NetworkPrepared, Ended
    <2>3. QED BY <1>19, <2>1, <2>2 DEF NetworkPrepared
  <1>20. CASE PrepareEnds
    <2>0. UNCHANGED <<asked, op, entry, vm, prep, cleaner, troubled, del>> /\ main = "nodes"
      BY <1>d, <1>20 DEF PrepareEnds
    <2>1. CASE PrepareFailed
      BY <1>0, <1>a, <1>b, <1>c, <2>0, <2>1, PrepareFailedEffect, CleanFrame DEF Ended
    <2>2. CASE /\ main' = "observe" /\ UNCHANGED <<node, live>>
               /\ task' = [task EXCEPT !.state = IF @ = "preparing" THEN "running" ELSE @]
      <3>1. task.state \in {"preparing", "running", "ended"}
        BY <1>0 DEF TaskRecords
      <3>2. (task'.state = "ended" <=> task.state = "ended") /\ task'.cleanup = task.cleanup
        BY <1>0, <2>2, <3>1, TaskUpdates
      <3>3. ~live' => Ended' \/ main' = "down"
        BY <2>0, <2>2, <3>2 DEF CleanInv, CleanupInStep, Ended
      <3>4. QED BY <1>a, <1>b, <1>c, <2>0, <2>2, <3>2, <3>3, CleanFrame DEF Ended
    <2>3. QED BY <1>20, <2>1, <2>2 DEF PrepareEnds
  <1>21. CASE EndTask
    <2>1. live
      BY <1>21 DEF EndTask, Running, CleanInv, CleanupInStep
    <2>2. task'.state = "ended" /\ task'.cleanup = task.cleanup
      BY <1>0, <1>21, TaskUpdates DEF EndTask
    <2>3. QED BY <1>a, <1>b, <1>c, <1>d, <1>21, <2>1, <2>2, CleanFrame DEF EndTask, Ended, labVars
  <1>22. CASE CancelRuntime
    BY <1>a, <1>b, <1>c, <1>d, <1>22, CleanFrame DEF CancelRuntime, Ended, labVars
  <1>23. CASE ObserveEnds
    BY <1>a, <1>b, <1>c, <1>d, <1>23, CleanFrame DEF ObserveEnds, Ended
  <1>24. ASSUME NEW c \in Cleaners, CallCleanup(c) \/ CleanupSkipped(c) PROVE CleanInv'
    <2>1. /\ Ended /\ cleaner[c] \in {"idle", "lock"} /\ cleaner'[c] \in {"idle", "lock"}
          /\ \A d \in Cleaners \ {c} : cleaner'[d] = cleaner[d]
          /\ UNCHANGED <<task, live, vm, node, prep, troubled, del, asked, entry, op>>
      BY <1>0, <1>d, <1>24
      DEF CallCleanup, CleanupSkipped, Return, CleanInv, CleanupInStep, LabTypeOK
    <2>2. Holder' = Holder /\ Writing' = Writing
          /\ (\E d \in Cleaners : cleaner[d] = "finish") = (\E d \in Cleaners : cleaner'[d] = "finish")
      BY <2>1 DEF Holder, Writing
    <2>3. CleanupInStep'
      BY <2>1, <2>2 DEF CleanInv, CleanupInStep, Ended
    <2>4. PreparationInStep' /\ VMIsRecorded'
      BY <2>1 DEF CleanInv, PreparationInStep, VMIsRecorded
    <2>5. DeletionInStep' /\ GateInStep'
      BY <2>1, <2>2 DEF CleanInv, DeletionInStep, GateInStep
    <2>6. ReleasedIsGone'
      BY <2>1, GateIsLate DEF CleanInv, ReleasedIsGone, Listening
    <2>7. QED BY <2>3, <2>4, <2>5, <2>6 DEF CleanInv
  <1>25. ASSUME NEW c \in Cleaners, CleanupBegins(c) PROVE CleanInv'
    BY <1>0, <1>25, CleanupBeginsIsClean
  <1>26. ASSUME NEW c \in Cleaners, TakeGate(c) PROVE CleanInv'
    BY <1>0, <1>26, TakeGateIsClean
  <1>27. ASSUME NEW c \in Cleaners, GateTimeout(c) PROVE CleanInv'
    BY <1>0, <1>27, GateTimeoutIsClean
  <1>28. ASSUME NEW c \in Cleaners, NodesDeleted(c) PROVE CleanInv'
    BY <1>0, <1>28, NodesDeletedIsClean
  <1>29. ASSUME NEW c \in Cleaners, CleanupEnds(c) PROVE CleanInv'
    BY <1>0, <1>29, CleanupEndsIsClean
  <1>30. ASSUME NEW c \in Calls, NEW n \in Clients, NEW a \in {"start", "poweroff", "reset"},
                AskPower(c, n, a) PROVE CleanInv'
    BY <1>a, <1>b, <1>c, <1>d, <1>30, CleanStays DEF AskPower
  <1>31. ASSUME NEW c \in Calls, EnterGate(c) \/ PowerDone(c) \/ CallGivesUp(c) PROVE CleanInv'
    BY <1>a, <1>b, <1>c, <1>d, <1>31, CleanStays DEF EnterGate, PowerDone, CallGivesUp
  <1>32. ASSUME NEW c \in Calls, Send(c) PROVE CleanInv'
    <2>1. KeptNodes
      BY <1>0, <1>00, <1>32, SendEffect DEF KeptNodes, Send
    <2>2. QED BY <1>a, <1>c, <1>d, <1>32, <2>1, CleanStays DEF Send
  <1>33. ASSUME NEW c \in Calls, Act(c) PROVE CleanInv'
    <2>1. SameMachines
      BY <1>0, <1>00, <1>33, ActEffect DEF Act
    <2>2. QED BY <1>a, <1>b, <1>c, <1>d, <1>33, <2>1, CleanStays DEF Act
  <1>34. ASSUME NEW c \in Calls, Dispatched(c) PROVE CleanInv'
    <2>1. KeptNodes
      BY <1>0, <1>00, <1>34, DispatchedEffect DEF KeptNodes, Dispatched
    <2>2. QED BY <1>a, <1>c, <1>d, <1>34, <2>1, CleanStays DEF Dispatched
  <1>35. CASE Crash
    BY <1>0, <1>35, CrashIsClean
  <1>36. CASE Restart
    BY <1>0, <1>a, <1>b, <1>c, <1>d, <1>36, TaskUpdates, CleanFrame DEF Restart, Ended
  <1> HIDE DEF CleanInv
  <1> QED
    BY <1>1, <1>2, <1>3, <1>4, <1>5, <1>6, <1>7, <1>8, <1>9, <1>10, <1>11, <1>12, <1>13, <1>14,
       <1>15, <1>16, <1>17, <1>18, <1>19, <1>20, <1>21, <1>22, <1>23, <1>24, <1>25, <1>26, <1>27,
       <1>28, <1>29, <1>30, <1>31, <1>32, <1>33, <1>34, <1>35, <1>36
    DEF Next
-----------------------------------------------------------------------------
(* Every step keeps the power operations' part.                            *)

\* A step that leaves operations, expectations and observations alone; no VM
\* begins to run.
LEMMA PowerFrame ==
  ASSUME PowerInv, UNCHANGED <<call, probe>>, work'.calls = work.calls,
         \A m \in Nodes : node'[m].expected = node[m].expected,
         \A m \in Nodes : vm'[m].power = "running" => vm[m].power = "running"
  PROVE  PowerInv'
  BY DEF PowerInv, CallShape, ExpectedInStep, ProbeInStep, PowerIsObserved

\* An operation goes on, or gives up, and nothing else changes.
LEMMA CallMoves ==
  ASSUME LabTypeOK, PowerInv, NEW c \in Calls, NEW at \in {"gated", "done", "failed"}, CallAt(c, at),
         call[c].at # "idle", at = "gated" => call[c].at = "asked",
         at = "done" => call[c].held,
         UNCHANGED <<work, node, vm, probe>>
  PROVE  PowerInv'
  <1>1. /\ call'[c].at = at /\ call'[c].node = call[c].node /\ call'[c].action = call[c].action
        /\ call'[c].held = call[c].held /\ \A d \in Calls \ {c} : call'[d] = call[d]
    BY CallUpdate
  <1>2. CallShape' /\ PowerIsObserved'
    BY <1>1 DEF PowerInv, CallShape, PowerIsObserved
  <1>3. ExpectedInStep'
    BY <1>1 DEF PowerInv, ExpectedInStep
  <1>4. ProbeInStep'
    BY <1>1 DEF PowerInv, ProbeInStep
  <1>5. QED BY <1>2, <1>3, <1>4 DEF PowerInv

\* An operation that reports success has seen its own effect.
LEMMA DoneIsHeld ==
  ASSUME PowerInv, NEW c \in Calls, PowerDone(c), call[c].node \in Nodes
  PROVE  call[c].held
  <1> DEFINE e == node[call[c].node].expected
  <1>1. call[c].at = "waiting" /\ e.call = c /\ (call[c].action # "poweroff" => e.ready)
    BY DEF PowerDone, Reported
  <1>2. CASE call[c].action # "start"
    BY <1>1, <1>2 DEF PowerInv, CallShape
  <1>3. CASE call[c].action = "start"
    BY <1>1, <1>3 DEF PowerInv, ExpectedInStep
  <1>4. QED BY <1>2, <1>3

\* A new operation: nobody knows of it.
LEMMA AskPowerKeeps ==
  ASSUME LabTypeOK, PowerInv, NEW c \in Calls, NEW n \in Clients,
         NEW a \in {"start", "poweroff", "reset"}, AskPower(c, n, a)
  PROVE  PowerInv'
  <1>1. /\ c \in work.calls /\ work'.calls = work.calls \ {c}
        /\ call'[c].at = "asked" /\ call'[c].node = n /\ call'[c].action = a
        /\ \A d \in Calls \ {c} : call'[d] = call[d]
        /\ UNCHANGED <<node, vm, probe>>
    BY AskPowerEffect
  <1>2. CallShape' /\ PowerIsObserved'
    BY <1>1 DEF PowerInv, CallShape, PowerIsObserved
  <1>3. ExpectedInStep' /\ ProbeInStep'
    BY <1>1 DEF PowerInv, CallShape, ExpectedInStep, ProbeInStep
  <1>4. QED BY <1>2, <1>3 DEF PowerInv

\* An operation takes the node over.
LEMMA SendKeeps ==
  ASSUME LabTypeOK, PowerInv, NEW c \in Calls, Send(c), call[c].node \in Nodes
  PROVE  PowerInv'
  <1> DEFINE n == call[c].node
  <1>1. /\ call[c].at = "gated" /\ call'[c].at \in {"sent", "failed"} /\ call'[c].node = n
        /\ call'[c].action = call[c].action /\ call'[c].held = call[c].held
        /\ \A d \in Calls \ {c} : call'[d] = call[d]
        /\ \A m \in Nodes : m # n \/ call'[c].at = "failed" => node'[m] = node[m]
        /\ call'[c].at = "sent" =>
               /\ node'[n].expected.call = c
               /\ node'[n].expected.power = IF call[c].action = "poweroff" THEN "off" ELSE "running"
               /\ ~node'[n].expected.ready /\ ~node'[n].expected.dispatched
        /\ UNCHANGED <<work, vm, probe>>
    BY SendEffect
  <1>2. n \in Nodes
    OBVIOUS
  <1> HIDE DEF n
  <1>3. \A m \in Nodes : /\ node[m].expected.call # c
                         /\ node'[m].expected.call \in {c, node[m].expected.call}
                         /\ node'[m].expected.call # c => node'[m] = node[m]
                         /\ node'[m].expected.call = c => m = n /\ call'[c].at = "sent"
    BY <1>1, <1>2 DEF PowerInv, ExpectedInStep
  <1>4. CallShape' /\ PowerIsObserved'
    <2>1. PowerIsObserved'
      BY <1>1 DEF PowerInv, PowerIsObserved
    <2>2. c \notin work.calls
      BY <1>1 DEF PowerInv, CallShape
    <2>3. CallShape'
      BY <1>1, <1>3, <2>2 DEF PowerInv, CallShape, n
    <2>4. QED BY <2>1, <2>3
  <1>5. ExpectedInStep'
    <2> SUFFICES ASSUME NEW m \in Nodes, NEW d \in Calls, node'[m].expected.call = d,
                        call'[d].at # "idle"
                 PROVE  ExpectedInStep!(m, d)'
      BY DEF ExpectedInStep
    <2>1. CASE d = c
      BY <1>1, <1>3, <2>1
    <2>2. CASE d # c
      BY <1>1, <1>3, <2>2 DEF PowerInv, ExpectedInStep
    <2>3. QED BY <2>1, <2>2
  <1>6. ProbeInStep'
    BY <1>1, <1>3 DEF PowerInv, ProbeInStep
  <1>7. QED BY <1>4, <1>5, <1>6 DEF PowerInv

\* An operation is carried out: a start takes its time, the others are there.
LEMMA ActKeeps ==
  ASSUME LabTypeOK, PowerInv, NEW c \in Calls, Act(c), call[c].node \in Nodes,
         call[c].action \in {"start", "poweroff", "reset"}
  PROVE  PowerInv'
  <1>1. /\ call[c].at = "sent" /\ call'[c].at = "replied" /\ call'[c].node = call[c].node
        /\ call'[c].action = call[c].action /\ (call[c].action # "start" => call'[c].held)
        /\ call[c].action = "start" => vm'[call[c].node].power # "running"
        /\ \A d \in Calls \ {c} : call'[d] = call[d]
        /\ \A m \in Nodes : vm'[m].power = "running" => vm[m].power = "running"
        /\ UNCHANGED <<work, node, probe>>
    BY ActEffect DEF SameMachines
  <1>2. CallShape' /\ PowerIsObserved'
    BY <1>1 DEF PowerInv, CallShape, PowerIsObserved
  <1>3. ExpectedInStep'
    BY <1>1 DEF PowerInv, ExpectedInStep
  <1>4. ProbeInStep'
    BY <1>1 DEF PowerInv, ProbeInStep
  <1>5. QED BY <1>2, <1>3, <1>4 DEF PowerInv

\* From its dispatch on, an operation may be observed.
LEMMA DispatchedKeeps ==
  ASSUME LabTypeOK, PowerInv, NEW c \in Calls, Dispatched(c), call[c].node \in Nodes
  PROVE  PowerInv'
  <1>1. /\ call[c].at = "replied" /\ call'[c].at = "waiting" /\ call'[c].node = call[c].node
        /\ call'[c].action = call[c].action /\ call'[c].held = call[c].held
        /\ \A d \in Calls \ {c} : call'[d] = call[d]
        /\ \A m \in Nodes :
               /\ node'[m].expected.call = node[m].expected.call
               /\ node'[m].expected.power = node[m].expected.power
               /\ node'[m].expected.ready = node[m].expected.ready
               /\ node'[m].expected.dispatched = node[m].expected.dispatched
                  \/ node[m].expected.call = c
        /\ UNCHANGED <<work, vm, probe>>
    BY DispatchedEffect
  <1>2. CallShape' /\ PowerIsObserved'
    BY <1>1 DEF PowerInv, CallShape, PowerIsObserved
  <1>3. ExpectedInStep'
    BY <1>1 DEF PowerInv, ExpectedInStep
  <1>4. ProbeInStep'
    BY <1>1 DEF PowerInv, ProbeInStep
  <1>5. QED BY <1>2, <1>3, <1>4 DEF PowerInv

\* An observation begins, and remembers what it may be counted for.
LEMMA ProbeBeginsKeeps ==
  ASSUME LabTypeOK, PowerInv, NEW n \in Nodes, ProbeBegins(n) PROVE PowerInv'
  <1>1. /\ probe'[n].at = "sent" /\ probe'[n].call = node[n].expected.call
        /\ probe'[n].dispatched = node[n].expected.dispatched
        /\ \A m \in Nodes \ {n} : probe'[m] = probe[m]
        /\ UNCHANGED <<work, node, vm, call>>
    BY ProbeBeginsEffect
  <1>2. CallShape' /\ PowerIsObserved' /\ ExpectedInStep'
    BY <1>1 DEF PowerInv, CallShape, PowerIsObserved, ExpectedInStep
  <1>3. ProbeInStep'
    BY <1>1 DEF PowerInv, ProbeInStep, ExpectedInStep
  <1>4. QED BY <1>2, <1>3 DEF PowerInv

\* What an observation sees of a VM that runs is the operation's effect.
LEMMA ProbeSeesKeeps ==
  ASSUME LabTypeOK, PowerInv, NEW n \in Nodes, ProbeSees(n) PROVE PowerInv'
  <1>1. /\ probe'[n].at = "seen" /\ probe'[n].call = probe[n].call
        /\ probe'[n].dispatched = probe[n].dispatched /\ probe'[n].saw = vm[n].power
        /\ \A m \in Nodes \ {n} : probe'[m] = probe[m]
        /\ UNCHANGED <<work, node, vm, call>>
    BY ProbeSeesEffect
  <1>2. CallShape' /\ PowerIsObserved' /\ ExpectedInStep'
    BY <1>1 DEF PowerInv, CallShape, PowerIsObserved, ExpectedInStep
  <1>3. ProbeInStep'
    BY <1>1 DEF PowerInv, ProbeInStep, ExpectedInStep
  <1>4. QED BY <1>2, <1>3 DEF PowerInv

\* An observation that is not outdated belongs to the last operation.
LEMMA ProbeAppliesKeeps ==
  ASSUME LabTypeOK, PowerInv, NEW n \in Nodes, ProbeApplies(n) PROVE PowerInv'
  <1>1. /\ probe[n].at = "seen" /\ probe'[n].call = None
        /\ \A m \in Nodes \ {n} : probe'[m] = probe[m] /\ node'[m] = node[m]
        /\ node'[n].expected.call = node[n].expected.call
        /\ node'[n].expected.power = node[n].expected.power
        /\ node'[n].expected.dispatched = node[n].expected.dispatched
        /\ \/ node'[n].expected.ready = node[n].expected.ready
           \/ node[n].expected.dispatched /\ probe[n].saw = "running" /\ ~Outdated(n)
        /\ UNCHANGED <<work, vm, call>>
    BY ProbeAppliesEffect
  <1>2. None \notin Calls
    BY LabAssumption
  <1>3. CallShape' /\ PowerIsObserved' /\ ProbeInStep'
    BY <1>1, <1>2 DEF PowerInv, CallShape, PowerIsObserved, ProbeInStep
  <1>4. ExpectedInStep'
    <2>1. CASE node'[n].expected.ready = node[n].expected.ready
      BY <1>1, <2>1 DEF PowerInv, ExpectedInStep
    <2>2. CASE node[n].expected.dispatched /\ probe[n].saw = "running" /\ ~Outdated(n)
      <3>1. ASSUME NEW c \in Calls, node[n].expected.call = c, call[c].at = "waiting"
            PROVE  call[c].held
        <4>1. probe[n].dispatched /\ probe[n].call = c
          BY <1>2, <2>2, <3>1 DEF Outdated
        <4>2. QED BY <1>1, <2>2, <3>1, <4>1 DEF PowerInv, ProbeInStep
      <3>2. QED BY <1>1, <2>2, <3>1 DEF PowerInv, ExpectedInStep
    <2>3. QED BY <1>1, <2>1, <2>2
  <1>5. QED BY <1>3, <1>4 DEF PowerInv

\* A VM runs: that is what the operation on it was waiting for.
LEMMA VMStartsKeeps ==
  ASSUME TypeOK, PowerInv, NEW n \in Nodes, VMStarts(n) PROVE PowerInv'
  <1>1. /\ \A m \in Nodes \ {n} : vm'[m] = vm[m]
        /\ \A c \in Calls :
               /\ call'[c].at = call[c].at /\ call'[c].node = call[c].node
               /\ call'[c].action = call[c].action /\ (call[c].held => call'[c].held)
               /\ /\ call[c].node = n /\ call[c].at \in {"replied", "waiting"}
                  /\ node[n].expected.power = "running"
                  => call'[c].held
        /\ UNCHANGED <<work, node, probe>>
    BY VMStartsEffect
  <1>2. CallShape' /\ PowerIsObserved' /\ ProbeInStep'
    BY <1>1 DEF PowerInv, CallShape, PowerIsObserved, ProbeInStep
  <1>3. ExpectedInStep'
    BY <1>1 DEF PowerInv, CallShape, ExpectedInStep
  <1>4. QED BY <1>2, <1>3 DEF PowerInv

\* No operation outlives the controller.
LEMMA CrashKeeps ==
  ASSUME LabTypeOK, PowerInv, Crash PROVE PowerInv'
  <1>1. /\ \A m \in Nodes : node'[m].expected = node[m].expected /\ probe'[m].call = None
        /\ \A c \in Calls : call'[c].at = "idle"
        /\ work'.calls = work.calls
    BY CrashEffect, Resets
  <1>2. None \notin Calls
    BY LabAssumption
  <1>3. QED BY <1>1, <1>2
        DEF PowerInv, CallShape, PowerIsObserved, ProbeInStep, ExpectedInStep

\* Each step keeps the power operations' part.
LEMMA LabKeepsPower ==
  ASSUME TypeOK, PowerInv, Next PROVE PowerInv'
  <1>0. LabTypeOK /\ work \in Work
    BY TypeParts DEF LabTypeOK
  <1>00. \A c \in Calls : call[c].at # "idle" =>
             call[c].node \in Nodes /\ call[c].action \in {"start", "poweroff", "reset"}
    BY DEF PowerInv, CallShape, Nodes
  <1>a. UNCHANGED node \/ SameNodes => \A m \in Nodes : node'[m].expected = node[m].expected
    BY DEF SameNodes
  <1>b. UNCHANGED vm \/ SameMachines =>
            \A m \in Nodes : vm'[m].power = "running" => vm[m].power = "running"
    BY DEF SameMachines
  <1>c. UNCHANGED work => work'.calls = work.calls
    OBVIOUS
  <1>1. CASE NetNext /\ UNCHANGED labVars
    BY <1>0, <1>a, <1>b, <1>1, NetEffect, PowerFrame DEF labVars
  <1>2. ASSUME NEW n \in Nodes, NEW saved \in BOOLEAN, BeginNode(n, saved) PROVE PowerInv'
    BY <1>0, <1>b, <1>2, BeginNodeEffect, PowerFrame
  <1>3. ASSUME NEW n \in Nodes, CreateVM(n) PROVE PowerInv'
    BY <1>0, <1>a, <1>c, <1>3, PowerUpdate, PowerFrame DEF CreateVM, Powers
  <1>4. ASSUME NEW n \in Nodes, StartVM(n) PROVE PowerInv'
    BY <1>0, <1>a, <1>c, <1>4, PowerUpdate, PowerFrame DEF StartVM, Powers
  <1>5. ASSUME NEW n \in Nodes, Configure(n) \/ Recheck(n) PROVE PowerInv'
    BY <1>a, <1>b, <1>c, <1>5, PowerFrame DEF Configure, Recheck
  <1>6. ASSUME NEW n \in Nodes, Ready(n) PROVE PowerInv'
    BY <1>0, <1>a, <1>b, <1>c, <1>6, ReadyEffect, PowerFrame
  <1>7. ASSUME NEW n \in Nodes, PrepareFails(n) PROVE PowerInv'
    BY <1>0, <1>a, <1>b, <1>c, <1>7, WorkUpdates, PowerFrame DEF PrepareFails
  <1>8. ASSUME NEW n \in Nodes, PrepareReturns(n) PROVE PowerInv'
    BY <1>0, <1>a, <1>b, <1>c, <1>8, PrepareReturnsEffect, PowerFrame
  <1>9. ASSUME NEW n \in Nodes, PowerOff(n) PROVE PowerInv'
    BY <1>a, <1>b, <1>c, <1>9, PowerOffEffect, PowerFrame
  <1>10. ASSUME NEW n \in Nodes, Unregister(n) PROVE PowerInv'
    BY <1>0, <1>a, <1>c, <1>10, PowerUpdate, PowerFrame DEF Unregister, Powers
  <1>11. ASSUME NEW n \in Nodes, Verify(n) PROVE PowerInv'
    BY <1>0, <1>b, <1>c, <1>11, VerifyEffect, PowerFrame
  <1>12. ASSUME NEW n \in Nodes, DeleteFails(n) PROVE PowerInv'
    BY <1>0, <1>a, <1>b, <1>12, WorkUpdates, PowerFrame DEF DeleteFails
  <1>13. ASSUME NEW n \in Nodes, Intrude(n) PROVE PowerInv'
    BY <1>0, <1>a, <1>13, WorkUpdates, PowerUpdate, PowerFrame DEF Intrude, Powers
  <1>14. ASSUME NEW n \in Nodes, ProbeBegins(n) PROVE PowerInv'
    BY <1>0, <1>14, ProbeBeginsKeeps
  <1>15. ASSUME NEW n \in Nodes, ProbeSees(n) PROVE PowerInv'
    BY <1>0, <1>15, ProbeSeesKeeps
  <1>16. ASSUME NEW n \in Nodes, ProbeApplies(n) PROVE PowerInv'
    BY <1>0, <1>16, ProbeAppliesKeeps
  <1>17. ASSUME NEW n \in Nodes, VMStarts(n) PROVE PowerInv'
    BY <1>17, VMStartsKeeps
  <1>18. CASE RouterPrepared \/ NetworkPrepared \/ PrepareEnds
    <2>1. UNCHANGED <<work, vm, call, probe>> /\ (PrepareFailed \/ UNCHANGED node)
      BY <1>18 DEF RouterPrepared, NetworkPrepared, PrepareEnds
    <2>2. UNCHANGED node \/ SameNodes
      BY <1>0, <2>1, PrepareFailedEffect
    <2>3. QED BY <1>a, <1>b, <1>c, <2>1, <2>2, PowerFrame
  <1>19. CASE EndTask \/ CancelRuntime \/ ObserveEnds \/ Restart
    BY <1>a, <1>b, <1>c, <1>19, PowerFrame DEF EndTask, CancelRuntime, ObserveEnds, Restart, labVars
  <1>20. ASSUME NEW c \in Cleaners,
                \/ CallCleanup(c) \/ CleanupSkipped(c) \/ CleanupBegins(c) \/ TakeGate(c)
                \/ GateTimeout(c) \/ CleanupEnds(c)
         PROVE  PowerInv'
    <2>1. UNCHANGED <<work, node, vm, call, probe>>
      BY <1>20 DEF CallCleanup, CleanupSkipped, CleanupBegins, TakeGate, GateTimeout, CleanupEnds
    <2>2. QED BY <1>a, <1>b, <1>c, <2>1, PowerFrame
  <1>21. ASSUME NEW c \in Cleaners, NodesDeleted(c) PROVE PowerInv'
    <2>1. work'.calls = work.calls /\ UNCHANGED <<node, vm, call, probe>>
      BY <1>0, <1>21, WorkUpdates DEF NodesDeleted
    <2>2. QED BY <1>a, <1>b, <2>1, PowerFrame
  <1>22. ASSUME NEW c \in Calls, NEW n \in Clients, NEW a \in {"start", "poweroff", "reset"},
                AskPower(c, n, a) PROVE PowerInv'
    BY <1>0, <1>22, AskPowerKeeps
  <1>23. ASSUME NEW c \in Calls, EnterGate(c) \/ CallGivesUp(c) PROVE PowerInv'
    BY <1>0, <1>23, CallMoves DEF EnterGate, CallGivesUp
  <1>24. ASSUME NEW c \in Calls, Send(c) PROVE PowerInv'
    BY <1>0, <1>00, <1>24, SendKeeps DEF Send
  <1>25. ASSUME NEW c \in Calls, Act(c) PROVE PowerInv'
    BY <1>0, <1>00, <1>25, ActKeeps DEF Act
  <1>26. ASSUME NEW c \in Calls, Dispatched(c) PROVE PowerInv'
    BY <1>0, <1>00, <1>26, DispatchedKeeps DEF Dispatched
  <1>27. ASSUME NEW c \in Calls, PowerDone(c) PROVE PowerInv'
    BY <1>0, <1>00, <1>27, DoneIsHeld, CallMoves DEF PowerDone
  <1>28. CASE Crash
    BY <1>0, <1>28, CrashKeeps
  <1> HIDE DEF PowerInv
  <1> QED
    BY <1>1, <1>2, <1>3, <1>4, <1>5, <1>6, <1>7, <1>8, <1>9, <1>10, <1>11, <1>12, <1>13, <1>14,
       <1>15, <1>16, <1>17, <1>18, <1>19, <1>20, <1>21, <1>22, <1>23, <1>24, <1>25, <1>26, <1>27,
       <1>28
    DEF Next
-----------------------------------------------------------------------------
(* The inductive invariant.                                                *)

\* A new lab: nothing exists, nothing was asked.
LEMMA InitIInv == Init => IInv
  <1> SUFFICES ASSUME Init PROVE IInv
    OBVIOUS
  <1>1. NetTypeOK
    <2>1. net \in Networks
      BY NoOpFields, NetworkAssumption DEF Init, NetInit, Networks
    <2>2. router \in Routers
      BY NoOpFields, NetworkAssumption DEF Init, NetInit, Routers
    <2>3. op \in Operations
      BY NoOpFields DEF Init, NetInit
    <2>4. QED BY <2>1, <2>2, <2>3 DEF Init, NetInit, NetTypeOK, States
  <1>2. /\ net.state = "pending" /\ net.lease = 0 /\ net.boot = 0 /\ router.boot = 1
        /\ router.rules = Base /\ router.applied = Base
        /\ op = NoOp /\ asked = {} /\ beat = "idle" /\ expired = FALSE
    BY DEF Init, NetInit
  <1>3. NetInv
    BY <1>1, <1>2, NoOpFields DEF NetInv, NetShape, LeaseInStep, Healthy, Sent, Answered
  <1>4. /\ task.state = "preparing" /\ task.cleanup = "pending" /\ main = "router" /\ live = TRUE
        /\ \A c \in Cleaners : cleaner[c] = "idle"
        /\ \A n \in Nodes : vm[n].power = "absent" /\ prep[n] = "idle" /\ del[n].at = "none"
        /\ \A n \in Nodes : ~node[n].cleaned /\ node[n].expected = NoExpected
        /\ \A c \in Calls : call[c].at = "idle"
        /\ \A n \in Nodes : probe[n] = NoProbe
    BY Resets DEF Init
  <1>5. PendingIsQuiet
    BY <1>2, <1>4, NoOpFields DEF PendingIsQuiet
  <1>6. RulesInStep
    BY <1>2, NoOpFields DEF RulesInStep, Clean, Healthy, Answered
  <1>7. CleanInv
    BY <1>4 DEF CleanInv, CleanupInStep, PreparationInStep, VMIsRecorded, DeletionInStep,
       GateInStep, ReleasedIsGone, Holder, Writing
  <1>8. PowerInv
    <2>1. None \notin Calls
      BY LabAssumption
    <2>2. QED BY <1>4, <2>1, Resets
          DEF PowerInv, CallShape, ExpectedInStep, ProbeInStep, PowerIsObserved
  <1>9. LabTypeOK
    <2>1. task \in TaskRecords /\ work \in Work
      BY LabAssumption DEF Init, TaskRecords
    <2>2. node \in [Nodes -> Records]
      <3> DEFINE r == [intent |-> "none", cleaned |-> FALSE, stage |-> "pending", boot |-> 0,
                       expected |-> NoExpected]
      <3>1. r \in Records
        BY Resets DEF Records
      <3>2. node = [n \in Nodes |-> r]
        BY DEF Init
      <3> HIDE DEF r
      <3>3. QED BY <3>1, <3>2
    <2>3. vm \in [Nodes -> Machines]
      BY DEF Init, Machines, Powers
    <2>4. del \in [Nodes -> Deletions] /\ call \in [Calls -> PowerCalls] /\ probe \in [Nodes -> Probes]
      BY Resets DEF Init
    <2>5. QED BY <2>1, <2>2, <2>3, <2>4 DEF Init, LabTypeOK
  <1>10. QED BY <1>1, <1>3, <1>5, <1>6, <1>7, <1>8, <1>9, TypeParts DEF IInv

\* Each step keeps it.
LEMMA NextIInv == IInv /\ [Next]_vars => IInv'
  <1> SUFFICES ASSUME IInv, [Next]_vars PROVE IInv'
    OBVIOUS
  <1>1. CASE Next
    <2>1. NetParts' /\ CleanInv' /\ PowerInv' /\ LabTypeOK'
      BY <1>1, LabKeepsNet, LabKeepsClean, LabKeepsPower, LabKeepsTypes
      DEF IInv, NetParts, CleanInv, PowerInv
    <2>2. TypeOK'
      BY <2>1, TypeParts, PTL DEF NetParts, NetInv
    <2>3. QED BY <2>1, <2>2 DEF IInv, NetParts
  <1>2. CASE UNCHANGED vars
    <2>1. UNCHANGED <<task, live, work>> /\ UNCHANGED netVars /\ UNCHANGED labVars
      BY <1>2 DEF vars
    <2>2. TypeOK' /\ NetInv'
      BY <2>1 DEF IInv, TypeOK, NetInv, NetTypeOK, NetShape, LeaseInStep, Shortened, Healthy, Ended, netVars, labVars
    <2>3. PendingIsQuiet'
      BY <2>1 DEF IInv, PendingIsQuiet, netVars, labVars
    <2>4. RulesInStep'
      BY <2>1 DEF IInv, RulesInStep, Clean, Confirmed, Untouched, Healthy, Ended, netVars
    <2>5. CleanInv'
      BY <2>1 DEF IInv, CleanInv, CleanupInStep, PreparationInStep, VMIsRecorded, DeletionInStep,
         GateInStep, ReleasedIsGone, Holder, Writing, Ended, Listening, netVars, labVars
    <2>6. PowerInv'
      BY <2>1 DEF IInv, PowerInv, CallShape, ExpectedInStep, ProbeInStep, PowerIsObserved, labVars
    <2>7. QED BY <2>2, <2>3, <2>4, <2>5, <2>6 DEF IInv
  <1>3. QED BY <1>1, <1>2

\* Every reachable state satisfies it.
LEMMA LabInvariance == Spec => []IInv
  BY InitIInv, NextIInv, PTL DEF Spec
-----------------------------------------------------------------------------
(* Theorems.                                                               *)

\* VirtualBox never has a VM of the lab that the database does not know of,
\* and while nobody changes the network a network that is shown ready or
\* suspect runs the rules of the confirmed policy: for any number of nodes,
\* endpoints, operations, faults and crashes.
THEOREM LabIsSound == Spec => []Inv
  <1>1. IInv => Inv
    <2> SUFFICES ASSUME IInv PROVE Inv
      OBVIOUS
    <2>1. TypeOK /\ VMIsRecorded
      BY DEF IInv, CleanInv
    <2>2. RulesAreConfirmed
      BY NoOpFields DEF IInv, RulesInStep, Untouched, Confirmed, RulesAreConfirmed, SameBoot
    <2>3. QED BY <2>1, <2>2 DEF Inv
  <1>2. QED BY <1>1, LabInvariance, PTL

\* The lease that the controller counts on (network.go) is never longer than
\* the one the router enforces, for any lease, any lease of router.Init, any
\* boots and order of replies, except while a recovery of a router whose own
\* lease is the shorter one goes on.
THEOREM LeaseIsHonest == Spec => []LeaseIsConservative
  <1>1. IInv => LeaseIsConservative
    BY DEF IInv, NetInv, LeaseInStep, LeaseIsConservative, SameBoot
  <1>2. QED BY <1>1, LabInvariance, PTL

\* Cleanup "complete" (cleanup.go), which hands the slot to the next lab, is
\* true: no VM, no relay and no endpoint is left, and none comes after it.
THEOREM ReleaseIsReal == Spec => []ReleasedIsGone
  <1>1. IInv => ReleasedIsGone
    BY DEF IInv, CleanInv
  <1>2. QED BY <1>1, LabInvariance, PTL

\* A power operation that reports success (power.go) was carried out: its node
\* was in the requested state after it, whichever probes were under way.
THEOREM PowerIsTrue == Spec => []PowerIsObserved
  <1>1. IInv => PowerIsObserved
    BY DEF IInv, PowerInv
  <1>2. QED BY <1>1, LabInvariance, PTL
=============================================================================
