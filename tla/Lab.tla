-------------------------------- MODULE Lab --------------------------------
(***************************************************************************)
(* A VirtualBox lab from its start to its release (control: prepare,       *)
(* execute, observe and pollNode of server.go, cleanup.go, the node        *)
(* actions of operations.go, power.go, health.go, and the VM calls of      *)
(* vbox.go), composed with its network (LabNetwork).                       *)
(*                                                                         *)
(* The router and the clients are VMs that VirtualBox keeps across a       *)
(* restart of the controller.  Preparation creates them, power operations  *)
(* and probes use them under the runtime's gate, and cleanup, called by    *)
(* the execution itself, by its recovery or by lab_cleanup, deletes them.  *)
(***************************************************************************)
EXTENDS LabNetwork, Sequences

CONSTANTS
    Clients,        \* identities of the nodes beside the router
    Router,
    Parallel,       \* virtualbox.startup_parallelism
    Calls,          \* identities of power operations
    Workloads       \* bound: the nodes and what may happen to the lab

Nodes == Clients \cup {Router}
Cleaners == {"task", "operator"}
MaxTries == 3
Work == [clients : Seq(Clients), calls : SUBSET Calls, net : Nat, faults : Nat,
         crashes : Nat, ends : BOOLEAN, beats : BOOLEAN, probes : BOOLEAN]

ASSUME LabAssumption ==
    /\ Router \notin Clients /\ Parallel \in Nat \ {0}
    /\ None \notin Calls \cup Nodes
    /\ Workloads \subseteq Work
    /\ \A w \in Workloads : \A i, j \in DOMAIN w.clients :
           i # j => w.clients[i] # w.clients[j]

VARIABLES
    node,           \* a node's record
    vm,             \* its VM: power state and boot
    prep,           \* where its preparation is
    stop,           \* whether preparation was cancelled with a cause
    main,           \* where execute is
    cleaner,        \* where a caller of cleanup is
    troubled,       \* whether the cleanup in progress met an error
    del,            \* where the deletion of a node is, and its failed attempts
    call,           \* power operations
    probe           \* observations of nodes

labVars == <<node, vm, prep, stop, main, cleaner, troubled, del, call, probe>>
vars == <<task, live, work, netVars, labVars>>

NoExpected == [call |-> None, power |-> "none", before |-> 0,
               dispatched |-> FALSE, observed |-> FALSE, ready |-> FALSE]
NoProbe == [at |-> "none", call |-> None, dispatched |-> FALSE,
            saw |-> "none", boot |-> 0]
NoCall == [at |-> "idle", node |-> None, action |-> "none", held |-> FALSE]
Idle == [at |-> "none", tries |-> 0]

Powers == {"absent", "off", "starting", "running"}

Expectations == [call : Calls \cup {None}, power : {"none", "off", "running"},
                 before : Nat, dispatched : BOOLEAN, observed : BOOLEAN, ready : BOOLEAN]
Records == [intent : {"none", "memory", "saved"}, cleaned : BOOLEAN,
            stage : {"pending", "creating", "ready", "failed", "cancelled"},
            boot : Nat, expected : Expectations]
Machines == [power : Powers, boot : Nat]
Deletions == [at : {"none", "list", "recheck", "unregister", "verify", "done", "failed"},
              tries : 0 .. MaxTries]
PowerCalls ==
    [at : {"idle", "asked", "gated", "sent", "replied", "waiting", "done", "failed"},
     node : Nodes \cup {None}, action : {"none", "start", "poweroff", "reset"},
     held : BOOLEAN]
Probes == [at : {"none", "sent", "seen"}, call : Calls \cup {None}, dispatched : BOOLEAN,
           saw : Powers \cup {"none"}, boot : Nat]

TypeOK ==
    /\ task \in [state : {"preparing", "running", "ended"},
                 cleanup : {"pending", "running", "required", "complete"}]
    /\ live \in BOOLEAN /\ stop \in BOOLEAN /\ troubled \in BOOLEAN
    /\ work \in Work /\ NetTypeOK
    /\ node \in [Nodes -> Records]
    /\ vm \in [Nodes -> Machines]
    /\ prep \in [Nodes -> {"idle", "create", "configure", "start", "probe",
                           "ok", "failed", "returned"}]
    /\ main \in {"router", "network", "nodes", "observe", "cleanup", "over", "down"}
    /\ cleaner \in [Cleaners -> {"idle", "lock", "gate", "delete", "finish"}]
    /\ del \in [Nodes -> Deletions]
    /\ call \in [Calls -> PowerCalls]
    /\ probe \in [Nodes -> Probes]

Init ==
    /\ work \in Workloads
    /\ task = [state |-> "preparing", cleanup |-> "pending"]
    /\ live = TRUE /\ stop = FALSE /\ troubled = FALSE
    /\ NetInit
    /\ node = [n \in Nodes |-> [intent |-> "none", cleaned |-> FALSE, stage |-> "pending",
                                boot |-> 0, expected |-> NoExpected]]
    /\ vm = [n \in Nodes |-> [power |-> "absent", boot |-> 0]]
    /\ prep = [n \in Nodes |-> "idle"]
    /\ main = "router"
    /\ cleaner = [c \in Cleaners |-> "idle"]
    /\ del = [n \in Nodes |-> Idle]
    /\ call = [c \in Calls |-> NoCall]
    /\ probe = [n \in Nodes |-> NoProbe]
-----------------------------------------------------------------------------
Stopped == stop \/ ~live
Running == main # "down"
Used == {Router} \cup {work.clients[i] : i \in DOMAIN work.clients}
Active == {n \in Clients : prep[n] \notin {"idle", "returned"}}
Writing == \E c \in Cleaners : cleaner[c] = "delete"
Holder == {c \in Cleaners : cleaner[c] \in {"gate", "delete", "finish"}}
Readers ==
    \/ asked # {} \/ op.kind \in {"change", "recover", "create", "close"}
    \/ \E c \in Calls : call[c].at \in {"gated", "sent", "replied"}
    \/ \E n \in Nodes : probe[n].at = "sent"

CanFault == work.faults > 0
Fault == work' = [work EXCEPT !.faults = @ - 1]

\* The VM of the router is the router of the network.
Powered(n, power) ==
    router' = IF n = Router THEN [router EXCEPT !.on = (power = "running")] ELSE router

Held(n, power) ==
    [c \in Calls |-> IF call[c].node = n /\ call[c].at \in {"replied", "waiting"}
                        /\ power = node[n].expected.power
                     THEN [call[c] EXCEPT !.held = TRUE] ELSE call[c]]
-----------------------------------------------------------------------------
(* prepare and VBoxBackend.Prepare.                                        *)

\* The next node that prepare admits.
Following(n) ==
    \/ main = "router" /\ n = Router
    \/ /\ main = "nodes" /\ Cardinality(Active) < Parallel
       /\ \E i \in DOMAIN work.clients :
            /\ n = work.clients[i]
            /\ \A j \in 1 .. i - 1 : prep[work.clients[j]] # "idle"

\* Mutant: the VM is created although its intent was not saved.
BeginNodeUnsaved(n, saved) ==
    /\ prep[n] = "idle" /\ Following(n) /\ ~Stopped
    /\ node' = [node EXCEPT ![n].intent = IF saved THEN "saved" ELSE "memory",
                            ![n].stage = "creating"]
    /\ prep' = [prep EXCEPT ![n] = "create"]
    /\ UNCHANGED <<task, live, work, stop, netVars, vm, main, cleaner, troubled, del, call, probe>>

\* The resource intent is durable before VirtualBox is asked for anything.
BeginNode(n, saved) ==
    /\ prep[n] = "idle" /\ Following(n) /\ ~Stopped
    /\ node' = [node EXCEPT ![n].intent = IF saved THEN "saved" ELSE "memory",
                            ![n].stage = "creating"]
    /\ prep' = [prep EXCEPT ![n] = IF saved THEN "create" ELSE "returned"]
    /\ IF saved THEN UNCHANGED <<stop, work>> ELSE stop' = TRUE /\ CanFault /\ Fault
    /\ UNCHANGED <<task, live, netVars, vm, main, cleaner, troubled, del, call, probe>>

\* createvm or clonevm registers the VM.
CreateVM(n) ==
    /\ prep[n] = "create" /\ ~Stopped
    /\ vm' = [vm EXCEPT ![n].power = "off"]
    /\ prep' = [prep EXCEPT ![n] = "configure"]
    /\ UNCHANGED <<task, live, work, netVars, node, stop, main, cleaner, troubled, del, call, probe>>

\* sanitize, modifyvm, seed and verify.
Configure(n) ==
    /\ prep[n] = "configure" /\ ~Stopped /\ vm[n].power = "off"
    /\ prep' = [prep EXCEPT ![n] = "start"]
    /\ UNCHANGED <<task, live, work, netVars, node, vm, stop, main, cleaner, troubled, del, call, probe>>

StartVM(n) ==
    /\ prep[n] = "start" /\ ~Stopped /\ vm[n].power = "off"
    /\ vm' = [vm EXCEPT ![n].power = "starting"]
    /\ prep' = [prep EXCEPT ![n] = "probe"]
    /\ UNCHANGED <<task, live, work, netVars, node, stop, main, cleaner, troubled, del, call, probe>>

\* The guest answers and is prepared.
Ready(n) ==
    /\ prep[n] = "probe" /\ ~Stopped /\ vm[n].power = "running"
    /\ node' = [node EXCEPT ![n].boot = vm[n].boot]
    /\ prep' = [prep EXCEPT ![n] = "ok"]
    /\ UNCHANGED <<task, live, work, netVars, vm, stop, main, cleaner, troubled, del, call, probe>>

\* A power operation came between; preparation does not take the node's lock.
Disturbed(n) ==
    \/ prep[n] \in {"configure", "start"} /\ vm[n].power # "off"
    \/ prep[n] = "probe" /\ vm[n].power = "off"

\* A step fails, the startup deadline passes, or the context is cancelled and
\* the command in progress is killed.
PrepareFails(n) ==
    /\ prep[n] \in {"create", "configure", "start", "probe"}
    /\ \/ (Stopped \/ Disturbed(n)) /\ UNCHANGED work
       \/ CanFault /\ Fault
    /\ prep' = [prep EXCEPT ![n] = "failed"]
    /\ UNCHANGED <<task, live, netVars, node, vm, stop, main, cleaner, troubled, del, call, probe>>

\* Only the initiating failure cancels the peers.
PrepareReturns(n) ==
    /\ prep[n] \in {"ok", "failed"}
    /\ prep' = [prep EXCEPT ![n] = "returned"]
    /\ node' = [node EXCEPT ![n].stage = IF Stopped THEN "cancelled"
                                         ELSE IF prep[n] = "ok" THEN "ready" ELSE "failed"]
    /\ stop' = (stop \/ prep[n] = "failed")
    /\ UNCHANGED <<task, live, work, netVars, vm, main, cleaner, troubled, del, call, probe>>

\* prepare fails as a whole; what was not begun is cancelled.
Cancelled == [n \in Nodes |-> IF node[n].intent = "none"
                              THEN [node[n] EXCEPT !.stage = "cancelled"] ELSE node[n]]
PrepareFailed ==
    /\ node' = Cancelled
    /\ task' = [task EXCEPT !.state = "ended"]
    /\ live' = FALSE /\ main' = "observe"

RouterPrepared ==
    /\ main = "router"
    /\ prep[Router] = "returned" \/ (prep[Router] = "idle" /\ Stopped)
    /\ IF node[Router].stage = "ready"
       THEN main' = "network" /\ op' = Refreshing("prepare", None)
            /\ UNCHANGED <<node, task, live>>
       ELSE PrepareFailed /\ UNCHANGED op
    /\ UNCHANGED <<work, net, internet, entry, relays, forwards, router, asked, beat,
                   expired, vm, prep, stop, cleaner, troubled, del, call, probe>>

\* refreshNetworkContext of prepare returned.  A heartbeat may have the network
\* by then: observe runs from the start.
NetworkPrepared ==
    /\ main = "network" /\ (op.kind = "prepare" => op.at = "failed")
    /\ IF op.kind = "prepare" THEN PrepareFailed /\ op' = NoOp
       ELSE main' = "nodes" /\ UNCHANGED <<node, task, live, op>>
    /\ UNCHANGED <<work, net, internet, entry, relays, forwards, router, asked, beat,
                   expired, vm, prep, stop, cleaner, troubled, del, call, probe>>

\* All nodes that were begun have returned.
PrepareEnds ==
    /\ main = "nodes" /\ Active = {}
    /\ Stopped \/ \A n \in Used : prep[n] = "returned"
    /\ IF Stopped THEN PrepareFailed
       ELSE main' = "observe" /\ UNCHANGED <<node, live>>
            /\ task' = [task EXCEPT !.state = IF @ = "preparing" THEN "running" ELSE @]
    /\ UNCHANGED <<work, netVars, vm, prep, stop, cleaner, troubled, del, call, probe>>
-----------------------------------------------------------------------------
(* The end of the execution.                                               *)

\* lab_finish and lab_cancel cancel the context at once, the deadline after it.
EndTask ==
    /\ Running /\ ~Ended /\ work.ends
    /\ task' = [task EXCEPT !.state = "ended"]
    /\ live' \in BOOLEAN
    /\ UNCHANGED <<work, netVars, labVars>>

CancelRuntime ==
    /\ Ended /\ live /\ live' = FALSE
    /\ UNCHANGED <<task, work, netVars, labVars>>

\* observe returns after its polls.
ObserveEnds ==
    /\ main = "observe" /\ Ended
    /\ \A n \in Nodes : probe[n] = NoProbe
    /\ beat = "idle" /\ ~expired
    /\ main' = "cleanup" /\ live' = FALSE
    /\ UNCHANGED <<task, work, netVars, node, vm, prep, stop, cleaner, troubled, del, call, probe>>
-----------------------------------------------------------------------------
(* cleanup, cleanupNodes and VBoxBackend.Delete.                           *)

\* execute and recovery call it once, lab_cleanup whenever the lab has ended.
CallCleanup(c) ==
    /\ cleaner[c] = "idle"
    /\ IF c = "task" THEN main = "cleanup"
       ELSE Running /\ Ended /\ task.cleanup # "complete"
    /\ cleaner' = [cleaner EXCEPT ![c] = "lock"]
    /\ UNCHANGED <<task, live, work, netVars, node, vm, prep, stop, main, troubled, del, call, probe>>

Return(c) ==
    /\ cleaner' = [cleaner EXCEPT ![c] = "idle"]
    /\ main' = IF c = "task" THEN "over" ELSE main

\* Mutant: a cleanup that has begun, perhaps before a restart, is left alone.
SkipsBegun == task.cleanup \in {"running", "complete"} \/ Holder # {}

\* There is nothing to do, or the lock was not free within the budget.
Skips == task.cleanup = "complete" \/ Holder # {}
CleanupSkipped(c) ==
    /\ cleaner[c] = "lock" /\ Skips
    /\ Return(c)
    /\ UNCHANGED <<task, live, work, netVars, node, vm, prep, stop, troubled, del, call, probe>>

CleanupBegins(c) ==
    /\ cleaner[c] = "lock" /\ Holder = {} /\ ~Skips
    /\ task' = [task EXCEPT !.cleanup = "running"]
    /\ live' = FALSE /\ relays' = {}
    /\ entry' = [e \in Entries |-> IF entry[e] = "none" THEN "none" ELSE "closing"]
    /\ cleaner' = [cleaner EXCEPT ![c] = "gate"] /\ troubled' = FALSE
    /\ UNCHANGED <<work, net, internet, forwards, router, op, asked, beat, expired,
                   node, vm, prep, stop, main, del, call, probe>>

\* writeGate, then a snapshot of the nodes that have resources.
TakeGate(c) ==
    /\ cleaner[c] = "gate" /\ ~Readers
    /\ cleaner' = [cleaner EXCEPT ![c] = "delete"]
    /\ del' = [n \in Nodes |-> IF node[n].intent # "none" /\ ~node[n].cleaned
                               THEN [Idle EXCEPT !.at = "list"] ELSE Idle]
    /\ UNCHANGED <<task, live, work, netVars, node, vm, prep, stop, main, troubled, call, probe>>

\* Mutant: a gate that stays busy is no error of the cleanup.
GateTimeoutUnnoticed(c) ==
    /\ cleaner[c] = "gate" /\ Readers
    /\ cleaner' = [cleaner EXCEPT ![c] = "finish"] /\ troubled' = FALSE
    /\ del' = [n \in Nodes |-> Idle]
    /\ UNCHANGED <<task, live, work, netVars, node, vm, prep, stop, main, call, probe>>

\* The operations did not leave the gate within the budget.
GateTimeout(c) ==
    /\ cleaner[c] = "gate" /\ Readers
    /\ cleaner' = [cleaner EXCEPT ![c] = "finish"] /\ troubled' = TRUE
    /\ del' = [n \in Nodes |-> Idle]
    /\ UNCHANGED <<task, live, work, netVars, node, vm, prep, stop, main, call, probe>>

DelAt(n, at) == del' = [del EXCEPT ![n].at = at]

\* Ownership, then power off and wait for the session to be released.
PowerOff(n) ==
    /\ del[n].at = "list" /\ vm[n].power # "starting"
    /\ IF vm[n].power = "absent" THEN DelAt(n, "verify") /\ UNCHANGED <<vm, router>>
       ELSE /\ DelAt(n, "recheck")
            /\ vm' = [vm EXCEPT ![n].power = "off"] /\ Powered(n, "off")
    /\ UNCHANGED <<task, live, work, net, internet, entry, relays, forwards, op, asked, beat,
                   expired, node, prep, stop, main, cleaner, troubled, call, probe>>

\* The VM is still ours and still off, or this deletion gives up at once.
Recheck(n) ==
    /\ del[n].at = "recheck"
    /\ DelAt(n, IF vm[n].power = "off" THEN "unregister" ELSE "failed")
    /\ UNCHANGED <<task, live, work, netVars, node, vm, prep, stop, main, cleaner, troubled, call, probe>>

Unregister(n) ==
    /\ del[n].at = "unregister"
    /\ vm' = [vm EXCEPT ![n].power = "absent"]
    /\ forwards' = IF n = Router THEN {} ELSE forwards
    /\ DelAt(n, "verify")
    /\ UNCHANGED <<task, live, work, net, internet, entry, relays, router, op, asked, beat,
                   expired, node, prep, stop, main, cleaner, troubled, call, probe>>

Verify(n) ==
    /\ del[n].at = "verify" /\ vm[n].power = "absent"
    /\ DelAt(n, "done")
    /\ node' = [node EXCEPT ![n].cleaned = TRUE]
    /\ UNCHANGED <<task, live, work, netVars, vm, prep, stop, main, cleaner, troubled, call, probe>>

\* A call of the deletion fails; there are three attempts.
DeleteFails(n) ==
    /\ del[n].at \in {"list", "recheck", "unregister", "verify"} /\ CanFault /\ Fault
    /\ del' = [del EXCEPT ![n] = [at |-> IF @.tries + 1 < MaxTries THEN "list" ELSE "failed",
                                  tries |-> @.tries + 1]]
    /\ UNCHANGED <<task, live, netVars, node, vm, prep, stop, main, cleaner, troubled, call, probe>>

\* Somebody starts the VM from VirtualBox while its session is released.
Intrude(n) ==
    /\ del[n].at = "recheck" /\ vm[n].power = "off" /\ CanFault /\ Fault
    /\ vm' = [vm EXCEPT ![n].power = "starting"]
    /\ UNCHANGED <<task, live, netVars, node, prep, stop, main, cleaner, troubled, del, call, probe>>

\* All deletions returned; the GUI policy and the runtime directory may fail too.
NodesDeleted(c) ==
    /\ cleaner[c] = "delete"
    /\ \A n \in Nodes : del[n].at \in {"none", "done", "failed"}
    /\ cleaner' = [cleaner EXCEPT ![c] = "finish"]
    /\ \E failed \in BOOLEAN :
         /\ troubled' = (failed \/ \E n \in Nodes : del[n].at = "failed")
         /\ IF failed THEN CanFault /\ Fault ELSE UNCHANGED work
    /\ UNCHANGED <<task, live, netVars, node, vm, prep, stop, main, del, call, probe>>

CleanupEnds(c) ==
    /\ cleaner[c] = "finish"
    /\ task' = [task EXCEPT !.cleanup = IF troubled THEN "required" ELSE "complete"]
    /\ entry' = IF troubled THEN entry
                ELSE [e \in Entries |-> IF entry[e] = "none" THEN "none" ELSE "closed"]
    /\ del' = [n \in Nodes |-> Idle] /\ troubled' = FALSE
    /\ Return(c)
    /\ UNCHANGED <<live, work, net, internet, relays, forwards, router, op, asked, beat,
                   expired, node, vm, prep, stop, call, probe>>
-----------------------------------------------------------------------------
(* Power operations: action, power and pollNode.                           *)

NodeAccess(n) ==
    /\ node[n].intent # "none" /\ ~node[n].cleaned
    /\ task.cleanup # "running" /\ ~Ended

AskPower(c, n, a) ==
    /\ c \in work.calls /\ Running /\ NodeAccess(n)
    /\ call' = [call EXCEPT ![c] = [NoCall EXCEPT !.at = "asked", !.node = n, !.action = a]]
    /\ work' = [work EXCEPT !.calls = @ \ {c}]
    /\ UNCHANGED <<task, live, netVars, node, vm, prep, stop, main, cleaner, troubled, del, probe>>

CallAt(c, at) == call' = [call EXCEPT ![c].at = at]

EnterGate(c) ==
    /\ call[c].at = "asked" /\ ~Writing
    /\ CallAt(c, "gated")
    /\ UNCHANGED <<task, live, work, netVars, node, vm, prep, stop, main, cleaner, troubled, del, probe>>

\* The lock of the node, the second check, and the expected state with the
\* boot that was last observed.
Send(c) ==
    /\ call[c].at = "gated"
    /\ \A d \in Calls : call[d].node = call[c].node => call[d].at \notin {"sent", "replied"}
    /\ LET n == call[c].node IN
       IF NodeAccess(n)
       THEN /\ node' = [node EXCEPT ![n].expected =
                 [NoExpected EXCEPT !.call = c, !.before = node[n].boot,
                    !.power = IF call[c].action = "poweroff" THEN "off" ELSE "running"]]
            /\ CallAt(c, "sent")
       ELSE CallAt(c, "failed") /\ UNCHANGED node
    /\ UNCHANGED <<task, live, work, netVars, vm, prep, stop, main, cleaner, troubled, del, probe>>

Works(c, n) ==
    CASE call[c].action = "start" -> vm[n].power = "off"
      [] call[c].action = "poweroff" -> vm[n].power = "running"
      [] OTHER -> vm[n].power = "running"

\* VirtualBox carries the action out.
Act(c) ==
    /\ call[c].at = "sent"
    /\ LET n == call[c].node IN
       /\ Works(c, n)
       /\ vm' = [vm EXCEPT ![n] =
            CASE call[c].action = "start" -> [@ EXCEPT !.power = "starting"]
              [] call[c].action = "poweroff" -> [@ EXCEPT !.power = "off"]
              [] OTHER -> [@ EXCEPT !.boot = vm[n].boot + 1]]
    /\ call' = [call EXCEPT ![c].at = "replied", ![c].held = (call[c].action # "start")]
    /\ UNCHANGED <<task, live, work, netVars, node, prep, stop, main, cleaner, troubled, del, probe>>

Dispatched(c) ==
    /\ call[c].at = "replied"
    /\ LET n == call[c].node IN
       node' = IF node[n].expected.call = c
               THEN [node EXCEPT ![n].expected.dispatched = TRUE] ELSE node
    /\ CallAt(c, "waiting")
    /\ UNCHANGED <<task, live, work, netVars, vm, prep, stop, main, cleaner, troubled, del, probe>>

\* power returns once the expected state was observed.
Reported(c) ==
    LET e == node[call[c].node].expected IN
    /\ e.call = c /\ e.observed
    /\ call[c].action # "poweroff" => e.ready
PowerDone(c) ==
    /\ call[c].at = "waiting" /\ ~Ended /\ Reported(c)
    /\ CallAt(c, "done")
    /\ UNCHANGED <<task, live, work, netVars, node, vm, prep, stop, main, cleaner, troubled, del, probe>>

\* VirtualBox refuses, the deadline passes, the lab ends, or another operation
\* took the node over.
CallGivesUp(c) ==
    /\ \/ call[c].at \in {"asked", "gated", "waiting"}
       \/ call[c].at = "sent" /\ (~live \/ ~Works(c, call[c].node))
    /\ CallAt(c, "failed")
    /\ UNCHANGED <<task, live, work, netVars, node, vm, prep, stop, main, cleaner, troubled, del, probe>>

ProbeBegins(n) ==
    /\ n # Router /\ work.probes /\ probe[n] = NoProbe
    /\ node[n].stage = "ready" /\ ~Ended /\ live /\ ~Writing
    /\ main \in {"nodes", "observe"}
    /\ probe' = [probe EXCEPT ![n] = [NoProbe EXCEPT !.at = "sent",
                   !.call = node[n].expected.call, !.dispatched = node[n].expected.dispatched]]
    /\ UNCHANGED <<task, live, work, netVars, node, vm, prep, stop, main, cleaner, troubled, del, call>>

ProbeSees(n) ==
    /\ probe[n].at = "sent"
    /\ probe' = [probe EXCEPT ![n].at = "seen", ![n].saw = vm[n].power, ![n].boot = vm[n].boot]
    /\ UNCHANGED <<task, live, work, netVars, node, vm, prep, stop, main, cleaner, troubled, del, call>>

\* Mutant: every observation is taken for the state after the operation.
OutdatedNever(n) == FALSE

\* An observation that began before the last operation was dispatched is old.
Outdated(n) ==
    IF probe[n].call = None THEN node[n].expected.call # None
    ELSE ~probe[n].dispatched \/ probe[n].call # node[n].expected.call

\* observeNode
Observed(n) ==
    LET e == node[n].expected
        p == probe[n]
        new == call[e.call].action = "reset" => e.before \notin {0, p.boot}
    IN [node[n] EXCEPT
          !.boot = IF p.saw = "running" THEN p.boot ELSE 0,
          !.expected.observed = IF e.dispatched THEN p.saw = e.power ELSE @,
          !.expected.ready = @ \/ (e.dispatched /\ p.saw = "running"
                                   /\ e.power = "running" /\ new)]
ProbeApplies(n) ==
    /\ probe[n].at = "seen"
    /\ probe' = [probe EXCEPT ![n] = NoProbe]
    /\ node' = IF Ended \/ Outdated(n) THEN node ELSE [node EXCEPT ![n] = Observed(n)]
    /\ UNCHANGED <<task, live, work, netVars, vm, prep, stop, main, cleaner, troubled, del, call>>
-----------------------------------------------------------------------------
(* VirtualBox, and the controller's death and restart.                     *)

VMStarts(n) ==
    /\ vm[n].power = "starting"
    /\ vm' = [vm EXCEPT ![n] = [power |-> "running", boot |-> @.boot + 1]]
    /\ Powered(n, "running")
    /\ call' = Held(n, "running")
    /\ UNCHANGED <<task, live, work, net, internet, entry, relays, forwards, op, asked, beat,
                   expired, node, prep, stop, main, cleaner, troubled, del, probe>>

\* Everything in memory is lost, an intent that was not saved included.
Crash ==
    /\ Running /\ work.crashes > 0
    /\ work' = [work EXCEPT !.crashes = @ - 1]
    /\ main' = "down" /\ live' = FALSE /\ stop' = FALSE /\ troubled' = FALSE
    /\ node' = [n \in Nodes |-> [node[n] EXCEPT
                  !.intent = IF @ = "saved" THEN @ ELSE "none"]]
    /\ relays' = {} /\ op' = NoOp /\ asked' = {} /\ beat' = "idle" /\ expired' = FALSE
    /\ prep' = [n \in Nodes |-> "idle"]
    /\ cleaner' = [c \in Cleaners |-> "idle"]
    /\ del' = [n \in Nodes |-> Idle]
    /\ call' = [c \in Calls |-> NoCall]
    /\ probe' = [n \in Nodes |-> NoProbe]
    /\ UNCHANGED <<task, net, internet, entry, forwards, router, vm>>

\* Recovery: an interrupted lab ends, and what is not released is cleaned up.
Restart ==
    /\ main = "down"
    /\ task' = [task EXCEPT !.state = "ended"]
    /\ main' = IF task.cleanup = "complete" THEN "over" ELSE "cleanup"
    /\ UNCHANGED <<live, work, netVars, node, vm, prep, stop, cleaner, troubled, del, call, probe>>

Next ==
    \/ NetNext /\ UNCHANGED labVars
    \/ \E n \in Nodes :
         \/ \E saved \in BOOLEAN : BeginNode(n, saved)
         \/ CreateVM(n) \/ Configure(n) \/ StartVM(n) \/ Ready(n)
         \/ PrepareFails(n) \/ PrepareReturns(n)
         \/ PowerOff(n) \/ Recheck(n) \/ Unregister(n) \/ Verify(n)
         \/ DeleteFails(n) \/ Intrude(n)
         \/ ProbeBegins(n) \/ ProbeSees(n) \/ ProbeApplies(n) \/ VMStarts(n)
    \/ RouterPrepared \/ NetworkPrepared \/ PrepareEnds \/ EndTask
    \/ CancelRuntime \/ ObserveEnds
    \/ \E c \in Cleaners :
         \/ CallCleanup(c) \/ CleanupSkipped(c) \/ CleanupBegins(c) \/ TakeGate(c)
         \/ GateTimeout(c) \/ NodesDeleted(c) \/ CleanupEnds(c)
    \/ \E c \in Calls :
         \/ \E n \in Clients, a \in {"start", "poweroff", "reset"} : AskPower(c, n, a)
         \/ EnterGate(c) \/ Send(c) \/ Act(c) \/ Dispatched(c) \/ PowerDone(c)
         \/ CallGivesUp(c)
    \/ Crash \/ Restart

Spec == Init /\ [][Next]_vars

\* What goes on in the router's calls, the holder of the network lock and the polls.
NetworkGoesOn ==
    \/ Refresh \/ RecoverRouter(TRUE) \/ Probe \/ RouterApplies(TRUE) \/ Acked \/ RestoreFails
    \/ Confirm \/ OpenRelay \/ Unforward \/ Publish \/ OperationFailed \/ CallFails("hard")
    \/ BeatLocks \/ BeatLate \/ BeatDegrades \/ BeatFailed \/ Expire
    \/ \E q \in asked : Refused(q)

\* Calls have budgets and goroutines go on; VirtualBox finishes starting a VM;
\* a dead controller is started again; while
\* the cleanup is required somebody calls lab_cleanup again.
Fairness ==
    /\ WF_vars(NetworkGoesOn /\ UNCHANGED labVars)
    /\ WF_vars(RouterPrepared \/ NetworkPrepared \/ PrepareEnds \/ ObserveEnds
                  \/ CancelRuntime \/ Restart)
    /\ \A n \in Nodes :
         /\ WF_vars(\/ BeginNode(n, TRUE) \/ CreateVM(n) \/ Configure(n) \/ StartVM(n)
                    \/ Ready(n) \/ PrepareFails(n) \/ PrepareReturns(n)
                    \/ PowerOff(n) \/ Recheck(n) \/ Unregister(n) \/ Verify(n))
         /\ WF_vars(ProbeSees(n) \/ ProbeApplies(n)) /\ WF_vars(VMStarts(n))
    /\ \A c \in Cleaners :
         /\ WF_vars(CallCleanup(c))
         /\ WF_vars(CleanupSkipped(c) \/ CleanupBegins(c) \/ TakeGate(c)
                       \/ GateTimeout(c) \/ NodesDeleted(c) \/ CleanupEnds(c))
    /\ \A c \in Calls :
         WF_vars(EnterGate(c) \/ Send(c) \/ Act(c) \/ Dispatched(c) \/ CallGivesUp(c))

FairSpec == Spec /\ Fairness
-----------------------------------------------------------------------------
(* Properties.                                                             *)

\* VirtualBox has no VM of the lab that the database does not know of: the
\* intent is durable before the VM exists, across a failed save, a crash at any
\* step of preparation and a repeated cleanup.
VMIsRecorded ==
    \A n \in Nodes : vm[n].power # "absent" => node[n].intent = "saved" /\ ~node[n].cleaned

Inv == TypeOK /\ VMIsRecorded /\ RulesAreConfirmed

\* Cleanup "complete", which hands the slot to the next lab, is true: every VM
\* is gone, no relay listens and no endpoint is shown as open, whatever
\* preparation, power operation or network operation was under way.
ReleasedIsGone ==
    task.cleanup = "complete" =>
        /\ \A n \in Nodes : vm[n].power = "absent"
        /\ Listening = {}
        /\ \A e \in Entries : entry[e] \in {"none", "closed"}

\* A power operation that reports success tells of its own effect: the VM was
\* in the requested power state at some moment after the operation was carried
\* out.  No observation of an earlier state passes for it (pollNode).
PowerIsObserved ==
    \A c \in Calls : call[c].at = "done" => call[c].held

\* A lab that ended is released in the end: a crash during cleanup, a busy gate,
\* failing deletions and a VM that somebody started again only delay it, as
\* long as lab_cleanup is called again.
ReleaseCompletes == Ended ~> (task.cleanup = "complete")
=============================================================================
