------------------------------ MODULE Commands ------------------------------
(***************************************************************************)
(* One command of a lab: the controller's record of it (control:           *)
(* operations.go, command_output.go, repository_commands.go) and the       *)
(* supervisor that runs it inside the guest (guest: supervisor.go,         *)
(* streams.go, read.go, reconcile.go, process_linux.go).                   *)
(*                                                                         *)
(* The two share no memory.  Every call of the controller starts a short   *)
(* process in the guest: it may be lost, it may run after the controller   *)
(* has given it up, and two of them may overlap.  The controller learns    *)
(* about the command only by polling the record the supervisor publishes.  *)
(*                                                                         *)
(* Stdout stands for both streams.  A packet is its data or the end of     *)
(* stdin; the bytes of the output are told apart by their position.        *)
(***************************************************************************)
EXTENDS Naturals, Sequences

CONSTANTS
    MaxPackets,     \* packets a client may send
    MaxOutput,      \* bytes a process may write
    ReadLimit,      \* wire.CommandReadLimit: bytes one poll returns
    Workloads       \* what happens to the command at most: packets sent,
                    \* bytes written, cancellations, controller restarts

ASSUME CommandAssumption ==
    /\ MaxPackets \in Nat /\ MaxOutput \in Nat
    /\ ReadLimit \in Nat \ {0}
    /\ Workloads \subseteq [packets : 0 .. MaxPackets, output : 0 .. MaxOutput,
                            cancels : {0, 1}, restarts : Nat]

Min2(a, b) == IF a < b THEN a ELSE b
Max2(a, b) == IF a > b THEN a ELSE b

Packets == {"data", "eof"}
Inputs == 0 .. MaxPackets - 1

VARIABLES
    work,           \* the workload
    \* the guest
    sup,            \* the supervisor: where supervise is
    why,            \* why it stops the process group
    group,          \* the processes of the command's cgroup
    status,         \* status.json
    packet,         \* input-<n>.json
    pipe,           \* the packets written to the process's stdin
    cancelled,      \* whether the file cancel exists
    out,            \* bytes the processes have written
    file,           \* bytes copied to the file stdout
    lost,           \* readers about to publish that the supervisor is lost
    \* between guest and controller
    calls,          \* calls on their way to the guest
    sends,          \* packets on their way to the guest
    \* the controller
    lab,            \* the lab the command belongs to
    cmd,            \* the command's row
    rows,           \* command_inputs: the packets accepted
    marked,         \* the rows whose column delivered is set
    kept,           \* the retained output file, byte by byte
    poll,           \* readCommand
    restarts

supervisor == <<sup, why, group, status, pipe, out, file, lost>>
guest == <<supervisor, packet, cancelled>>
channel == <<calls, sends>>
control == <<work, lab, cmd, rows, marked, kept, poll, restarts>>
vars == <<guest, channel, control>>

Live == {"starting", "running"}
Ended == {"exited", "cancelled", "timed_out", "failed"}
Active == {"launching", "running", "stopping", "draining"}

Status == [state : Live \cup Ended \cup {"none", "uncertain"}, final : BOOLEAN,
           written : 0 .. MaxPackets,
           output : {"open", "complete", "incomplete"},
           by : {"supervisor", "poll", "other"}]

Starting == [state |-> "starting", final |-> FALSE, written |-> 0,
             output |-> "open", by |-> "supervisor"]

NoStatus == [Starting EXCEPT !.state = "none"]

(* The command's row before startCommand creates it. *)
NoCommand == [status |-> Starting, delivered |-> 0, bytes |-> 0,
              retained |-> "none", cancel |-> ""]

Idle == [pc |-> "idle", send |-> FALSE, answer |-> NoStatus, size |-> 0,
         from |-> 0, to |-> 0]

(* The command's row. *)
Rows == [status : Status, delivered : 0 .. MaxPackets, bytes : 0 .. MaxOutput,
         retained : {"none", "open", "complete", "incomplete"},
         cancel : {"", "requested", "confirmed"}]

(* The answer a poll works on, and the packets it still sends. *)
Polls == [pc : {"idle", "reconciling", "answered", "sending"}, send : BOOLEAN,
          answer : Status, size : 0 .. MaxOutput,
          from : 0 .. MaxPackets, to : 0 .. MaxPackets]

TypeOK ==
    /\ work \in Workloads
    /\ sup \in {"none", "gone"} \cup Active
    /\ why \in {"", "exited", "timeout", "cancelled", "stopped", "failed"}
    /\ group \in {"none", "alive", "orphans", "dead"}
    /\ status \in Status
    /\ packet \in [Inputs -> Packets \cup {"absent"}]
    /\ pipe \in Seq(Packets) /\ rows \in Seq(Packets)
    /\ cancelled \in BOOLEAN
    /\ out \in 0 .. MaxOutput /\ file \in 0 .. out
    /\ lost \subseteq {"poll", "other"}
    /\ calls \subseteq {"start", "cancel"} /\ sends \subseteq Inputs
    /\ lab \in {"running", "cleaning", "released"}
    /\ cmd \in Rows
    /\ marked \subseteq Inputs
    /\ kept \in Seq(1 .. MaxOutput)
    /\ poll \in Polls
    /\ restarts \in 0 .. work.restarts

Init ==
    /\ work \in Workloads
    /\ sup = "none" /\ why = "" /\ group = "none" /\ status = NoStatus
    /\ packet = [s \in Inputs |-> "absent"]
    /\ pipe = <<>> /\ cancelled = FALSE /\ out = 0 /\ file = 0 /\ lost = {}
    /\ calls = {} /\ sends = {}
    /\ lab = "running" /\ cmd = NoCommand
    /\ rows = <<>> /\ marked = {} /\ kept = <<>>
    /\ poll = Idle /\ restarts = 0

(* The command exists and its result has not been seen. *)
Observing == cmd.retained # "none" /\ ~cmd.status.final

RetainedDone == cmd.retained \in {"complete", "incomplete"}

(* The command is still polled: save drops the others from memory. *)
Polling == /\ cmd.retained # "none" /\ lab # "released"
           /\ Observing \/ ~RetainedDone

----------------------------------------------------------------------------
(* The supervisor inside the guest *)

(* submit and the first half of supervise: the directory is made, so that  *)
(* a second start of the same command fails, and a first status is         *)
(* published; the write of that status may fail.                           *)
GuestStart ==
    /\ "start" \in calls /\ sup = "none" /\ status = NoStatus
    /\ calls' = calls \ {"start"}
    /\ \/ sup' = "launching" /\ status' = Starting
       \/ sup' = "gone" /\ UNCHANGED status
    /\ UNCHANGED <<why, group, pipe, out, file, lost, packet, cancelled,
                   sends, control>>

(* rejectSubmission: the Windows service could not start a supervisor.     *)
GuestReject ==
    /\ "start" \in calls /\ sup = "none" /\ status = NoStatus
    /\ calls' = calls \ {"start"}
    /\ status' = [Starting EXCEPT !.state = "failed", !.final = TRUE,
                                  !.output = "complete"]
    /\ UNCHANGED <<sup, why, group, pipe, out, file, lost, packet, cancelled,
                   sends, control>>

(* launch succeeds; the write that says so may fail. *)
Launched ==
    /\ sup = "launching"
    /\ group' = "alive"
    /\ \/ /\ sup' = "running" /\ UNCHANGED why
          /\ status' = [status EXCEPT !.state = "running"]
       \/ /\ sup' = "stopping" /\ why' = "failed"
          /\ UNCHANGED status
    /\ UNCHANGED <<pipe, out, file, lost, packet, cancelled, channel, control>>

(* failStart: launch fails, or it does not answer in time and is abandoned *)
(* with whatever it may have started.  The write of the result may fail.   *)
StartFailed ==
    /\ sup = "launching"
    /\ sup' = "gone"
    /\ \E timeout \in BOOLEAN, written \in BOOLEAN :
          /\ group' \in IF timeout THEN {"none", "alive"} ELSE {"none"}
          /\ status' = IF ~written THEN status
                       ELSE [status EXCEPT
                               !.state = IF timeout THEN "uncertain"
                                                    ELSE "failed",
                               !.final = TRUE, !.output = "incomplete"]
    /\ UNCHANGED <<why, pipe, out, file, lost, packet, cancelled, channel,
                   control>>

\* Mutant: the next packet is the first one not yet published as written.
FeedUnpublished ==
    LET next == status.written
    IN  /\ sup \in {"running", "stopping"}
        /\ next \in Inputs /\ packet[next] # "absent"
        /\ Len(pipe) < MaxPackets + 1
        /\ pipe' = Append(pipe, packet[next])
        /\ UNCHANGED <<sup, why, group, status, out, file, lost, packet,
                       cancelled, channel, control>>

(* feedInput writes the next packet to the process's stdin.  It may still  *)
(* do so once after the supervisor has decided to stop.                    *)
Feed ==
    LET next == Len(pipe)
    IN  /\ sup \in {"running", "stopping"}
        /\ next \in Inputs /\ packet[next] # "absent"
        /\ next > 0 => pipe[next] # "eof"
        /\ pipe' = Append(pipe, packet[next])
        /\ UNCHANGED <<sup, why, group, status, out, file, lost, packet,
                       cancelled, channel, control>>

(* The supervisor publishes how much was written, and stops the command    *)
(* when it cannot.                                                         *)
Progress ==
    /\ sup = "running" /\ status.written # Len(pipe)
    /\ \/ /\ status' = [status EXCEPT !.written = Len(pipe)]
          /\ UNCHANGED <<sup, why>>
       \/ /\ sup' = "stopping" /\ why' = "failed"
          /\ UNCHANGED status
    /\ UNCHANGED <<group, pipe, out, file, lost, packet, cancelled, channel,
                   control>>

(* The main process or its descendants write, or end. *)
Output ==
    /\ group \in {"alive", "orphans"} /\ out < work.output
    /\ out' = out + 1
    /\ UNCHANGED <<sup, why, group, status, pipe, file, lost, packet,
                   cancelled, channel, control>>

Exit ==
    /\ \/ group = "alive" /\ group' \in {"orphans", "dead"}
       \/ group = "orphans" /\ group' = "dead"
    /\ UNCHANGED <<sup, why, status, pipe, out, file, lost, packet,
                   cancelled, channel, control>>

(* drainStreams: what the processes wrote is copied to the file. *)
Copy ==
    /\ sup \in Active /\ file < out
    /\ file' = file + 1
    /\ UNCHANGED <<sup, why, group, status, pipe, out, lost, packet,
                   cancelled, channel, control>>

(* The loop of supervise ends: the main process has exited, the time       *)
(* limit or the service manager ends it, the file cancel is found, or its  *)
(* input cannot be read.                                                   *)
Decide(reason) ==
    /\ sup = "running"
    /\ reason = "exited" => group # "alive"
    /\ reason = "cancelled" => cancelled
    /\ sup' = "stopping" /\ why' = reason
    /\ UNCHANGED <<group, status, pipe, out, file, lost, packet, cancelled,
                   channel, control>>

\* Mutant: the reaped main process counts as the end of the group.
StopMain ==
    /\ sup = "stopping"
    /\ sup' = "draining" /\ UNCHANGED why
    /\ group' \in IF group = "alive" THEN {"orphans", "dead"} ELSE {group}
    /\ UNCHANGED <<status, pipe, out, file, lost, packet, cancelled, channel,
                   control>>

(* Kill, and the bounded wait for the main process.  Kill succeeds only    *)
(* once the cgroup is empty; either phase may run out of time, so that     *)
(* what is known of the group and of the main process is one of three.     *)
Stop ==
    /\ sup = "stopping"
    /\ \/ /\ group' = "dead"
          /\ sup' = "draining" /\ UNCHANGED why
       \/ /\ group' \in {group, "dead"}
          /\ sup' = "draining" /\ why' = ""
    /\ UNCHANGED <<status, pipe, out, file, lost, packet, cancelled, channel,
                   control>>

(* How a confirmed end is reported. *)
Outcome(reason) ==
    CASE reason = "timeout" -> "timed_out"
      [] reason = "stopped" -> "cancelled"
      [] reason = ""        -> "uncertain"
      [] OTHER              -> reason

(* Drain waits for the end of the output, which needs every writer to be   *)
(* gone; then the final record is written, or that write fails.            *)
Finish ==
    /\ sup = "draining"
    /\ sup' = "gone" /\ why' = ""
    /\ \E drained \in BOOLEAN, written \in BOOLEAN :
          /\ drained => group = "dead" /\ file = out
          /\ status' = IF ~written THEN status
                       ELSE [status EXCEPT
                               !.state = Outcome(why), !.final = TRUE,
                               !.written = Len(pipe),
                               !.output = IF drained THEN "complete"
                                                     ELSE "incomplete"]
    /\ UNCHANGED <<group, pipe, out, file, lost, packet, cancelled,
                   channel, control>>

(* The supervisor dies; the service manager then ends its process group.   *)
SupervisorDies ==
    /\ sup \in Active
    /\ sup' = "gone" /\ why' = ""
    /\ UNCHANGED <<group, status, pipe, out, file, lost, packet,
                   cancelled, channel, control>>

(* lostSupervisor *)
Lost(s, by) ==
    [IF s = NoStatus THEN Starting ELSE s EXCEPT
        !.state = "uncertain", !.final = TRUE, !.by = by,
        !.output = IF s # NoStatus /\ s.output # "open" THEN s.output
                                                        ELSE "incomplete"]

Unfinished == status = NoStatus \/ ~status.final

(* Reconcile of the Windows service, which saw the supervisor end: it      *)
(* reads the record and, in a step of its own, replaces it.                *)
ServiceReconciles ==
    /\ sup = "gone" /\ Unfinished /\ lab # "released"
    /\ lost' = lost \cup {"other"}
    /\ UNCHANGED <<sup, why, group, status, pipe, out, file, packet,
                   cancelled, channel, control>>

(* The second half of Reconcile, for a reader other than the poll. *)
PublishLost ==
    /\ "other" \in lost
    /\ status' = Lost(status, "other")
    /\ lost' = lost \ {"other"}
    /\ UNCHANGED <<sup, why, group, pipe, out, file, packet, cancelled,
                   channel, control>>

(* Input: a packet is linked once, and only to a command that is not over. *)
GuestInput(s) ==
    /\ s \in sends /\ sends' = sends \ {s}
    /\ packet' = IF /\ packet[s] = "absent" /\ status # NoStatus
                    /\ status.state \in Live
                 THEN [packet EXCEPT ![s] = rows[s + 1]]
                 ELSE packet
    /\ UNCHANGED <<supervisor, cancelled, calls, control>>

(* Cancel: the directory of the command has to exist. *)
GuestCancel ==
    /\ "cancel" \in calls
    /\ calls' = calls \ {"cancel"}
    /\ cancelled' = (cancelled \/ sup # "none" \/ status # NoStatus)
    /\ UNCHANGED <<supervisor, packet, sends, control>>

(* A call never reaches the guest. *)
LoseCall ==
    /\ \/ \E c \in calls : calls' = calls \ {c} /\ UNCHANGED sends
       \/ \E s \in sends : sends' = sends \ {s} /\ UNCHANGED calls
    /\ UNCHANGED <<guest, control>>

----------------------------------------------------------------------------
(* The controller *)

(* startCommand creates the row before it calls the guest; its answer      *)
(* changes only what is reported of a command no poll has seen yet.        *)
StartCommand ==
    /\ lab = "running" /\ cmd = NoCommand
    /\ cmd' = [cmd EXCEPT !.retained = "open"]
    /\ calls' = calls \cup {"start"}
    /\ UNCHANGED <<work, guest, sends, lab, rows, marked, kept, poll, restarts>>

(* commandInput accepts the packet that is next in order: one transaction  *)
(* stores it and counts it.  Then it calls the guest.                      *)
CommandInput ==
    LET s == Len(rows)
    IN  /\ lab = "running" /\ Observing
        /\ s < work.packets /\ (s > 0 => rows[s] # "eof")
        /\ \E p \in Packets : rows' = Append(rows, p)
        /\ sends' = sends \cup {s}
        /\ UNCHANGED <<work, guest, calls, lab, cmd, marked, kept, poll,
                       restarts>>

\* Mutant: delivery is counted up to the last packet delivered.
LastMarked(m) ==
    CHOOSE n \in 0 .. Len(rows) :
        /\ n > 0 => n - 1 \in m
        /\ \A i \in m : i < n

(* The first packet that is not marked as delivered. *)
FirstUnmarked(m) ==
    CHOOSE n \in 0 .. Len(rows) :
        /\ n = Len(rows) \/ n \notin m
        /\ \A i \in 0 .. n - 1 : i \in m

(* DeliveredInput: the packet is marked, and the count of delivered        *)
(* packets is the first gap.  A command that is no longer polled is no     *)
(* longer part of what the transaction stores.                             *)
DeliveredInput(s) ==
    /\ marked' = marked \cup {s}
    /\ cmd' = IF Polling THEN [cmd EXCEPT !.delivered = FirstUnmarked(marked')]
                         ELSE cmd

(* The guest's answer to commandInput, if it comes: the call may time out  *)
(* and still reach the guest.                                              *)
InputAnswered(s) ==
    /\ lab = "running" /\ s < Len(rows) /\ s \notin marked
    /\ packet[s] # "absent"
    /\ DeliveredInput(s)
    /\ UNCHANGED <<work, guest, channel, lab, rows, kept, poll, restarts>>

(* command_cancel *)
CancelCommand ==
    /\ lab = "running" /\ Observing /\ cmd.cancel = "" /\ work.cancels > 0
    /\ cmd' = [cmd EXCEPT !.cancel = "requested"]
    /\ calls' = calls \cup {"cancel"}
    /\ UNCHANGED <<work, guest, sends, lab, rows, marked, kept, poll, restarts>>

(* pollCommand, the first half of readCommand, and Read in the guest.  A   *)
(* command is polled once at a time.  The first read of a poll also sends  *)
(* what is outstanding, the reads that follow it and those of cleanup do   *)
(* not.  A record that is not final and whose supervisor is gone is        *)
(* replaced before it is returned.                                         *)
StartPoll(send) ==
    /\ poll.pc = "idle" /\ Polling
    /\ IF send THEN lab = "running"
               ELSE lab = "cleaning" \/ (0 < cmd.bytes /\ cmd.bytes < file)
    /\ IF status # NoStatus /\ ~status.final /\ sup = "gone"
       THEN /\ lost' = lost \cup {"poll"}
            /\ poll' = [Idle EXCEPT !.pc = "reconciling", !.send = send]
       ELSE /\ poll' = [Idle EXCEPT !.pc = "answered", !.send = send,
                                    !.answer = status, !.size = file]
            /\ UNCHANGED lost
    /\ UNCHANGED <<work, sup, why, group, status, pipe, out, file, packet, cancelled,
                   channel, lab, cmd, rows, marked, kept, restarts>>

ReadReconciles ==
    /\ poll.pc = "reconciling"
    /\ status' = Lost(status, "poll")
    /\ lost' = lost \ {"poll"}
    /\ poll' = [poll EXCEPT !.pc = "answered", !.answer = status', !.size = file]
    /\ UNCHANGED <<work, sup, why, group, pipe, out, file, packet, cancelled,
                   channel, lab, cmd, rows, marked, kept, restarts>>

(* What is left behind by a poll that is given up: its reader goes on. *)
GivenUp == IF "poll" \in lost THEN (lost \ {"poll"}) \cup {"other"} ELSE lost

PollLost ==
    /\ poll.pc \in {"reconciling", "answered"}
    /\ poll' = Idle /\ lost' = GivenUp
    /\ UNCHANGED <<work, sup, why, group, status, pipe, out, file, packet, cancelled,
                   calls, sends, lab, cmd, rows, marked, kept, restarts>>

\* Mutant: a final record may be replaced.
RefusedMissing == poll.answer = NoStatus

(* A record that is missing, or that differs from a final one seen before, *)
(* changes nothing but the observation.                                    *)
Refused == \/ poll.answer = NoStatus
           \/ cmd.status.final /\ poll.answer # cmd.status

PollRefused ==
    /\ poll.pc = "answered" /\ Refused
    /\ poll' = Idle
    /\ UNCHANGED <<work, guest, channel, lab, cmd, rows, marked, kept, restarts>>

(* The end of the bytes one read returns. *)
ReadEnd == Min2(poll.size, cmd.bytes + ReadLimit)

\* Mutant: the chunk is appended to whatever the file holds.
AppendBlindly == kept \o [i \in 1 .. ReadEnd - cmd.bytes |-> cmd.bytes + i]

(* appendOutput: bytes that are already in the file are compared and left  *)
(* as they are.                                                            *)
AppendOutput ==
    LET there == Min2(ReadEnd - cmd.bytes, Len(kept) - cmd.bytes)
    IN  kept \o [i \in 1 .. ReadEnd - cmd.bytes - there |->
                    cmd.bytes + there + i]

(* retainStream: the end of a final record's output settles the stream.    *)
RetainStream ==
    IF ~(poll.answer.final /\ ReadEnd = poll.size) THEN "open"
    ELSE IF poll.answer.output = "complete" THEN "complete"
    ELSE "incomplete"

\* Mutant: the polls send nothing again.
ResendsNothing(s) == FALSE

\* Mutant: only the polls after a cancellation send again.
ResendsCancelled(s) == poll.send /\ ~s.final /\ cmd.cancel = "requested"

(* Whether this read sends what is outstanding. *)
Resends(s) == poll.send /\ ~s.final

(* The second half of readCommand: the output is appended to the file,     *)
(* then the record and the progress are saved, and the cancellation and    *)
(* the packets the guest has not written are sent again.  Any error of the *)
(* file settles the stream as incomplete.                                  *)
RecordPoll ==
    LET s == poll.answer
        delivered == Max2(cmd.delivered, s.written)
        resend == Resends(s)
        cancel == IF s.state = "cancelled" THEN "confirmed" ELSE cmd.cancel
        row == [cmd EXCEPT !.status = s, !.delivered = delivered,
                           !.cancel = cancel]
    IN  /\ poll.pc = "answered" /\ ~Refused
        /\ \/ /\ ~RetainedDone
              /\ kept' = AppendOutput
              /\ cmd' = [row EXCEPT !.bytes = ReadEnd, !.retained = RetainStream]
           \/ /\ ~RetainedDone
              /\ cmd' = [row EXCEPT !.retained = "incomplete"]
              /\ UNCHANGED kept
           \/ /\ RetainedDone
              /\ cmd' = row
              /\ UNCHANGED kept
        /\ marked' = marked \cup {i \in Inputs : i < delivered}
        /\ calls' = IF resend /\ cancel = "requested" THEN calls \cup {"cancel"}
                                                      ELSE calls
        /\ IF resend /\ s.written < Len(rows)
           THEN /\ poll' = [Idle EXCEPT !.pc = "sending", !.from = s.written,
                                        !.to = Len(rows)]
                /\ sends' = sends \cup {s.written}
           ELSE poll' = Idle /\ UNCHANGED sends
        /\ UNCHANGED <<work, guest, lab, rows, restarts>>

(* The time for collecting final output is over. *)
OutputTimeout ==
    /\ poll.pc = "idle" /\ Polling /\ cmd.status.final
    /\ cmd' = [cmd EXCEPT !.retained = "incomplete"]
    /\ UNCHANGED <<work, guest, channel, lab, rows, marked, kept, poll, restarts>>

(* The packets go one after the other; the first failure ends it. *)
PollSent ==
    LET next == poll.from + 1
    IN  /\ poll.pc = "sending" /\ packet[poll.from] # "absent"
        /\ DeliveredInput(poll.from)
        /\ IF next < poll.to
           THEN /\ poll' = [poll EXCEPT !.from = next]
                /\ sends' = sends \cup {next}
           ELSE poll' = Idle /\ UNCHANGED sends
        /\ UNCHANGED <<work, guest, calls, lab, rows, kept, restarts>>

PollSendFails ==
    /\ poll.pc = "sending" /\ packet[poll.from] = "absent"
    /\ poll' = Idle
    /\ UNCHANGED <<work, guest, calls, sends, lab, cmd, rows, marked, kept, restarts>>

(* The lab ends: polls settle before its cleanup looks at the commands and *)
(* asks each of them to stop.                                              *)
EndLab ==
    /\ lab = "running" /\ poll.pc = "idle"
    /\ lab' = "cleaning"
    /\ calls' = IF Observing THEN calls \cup {"cancel"} ELSE calls
    /\ UNCHANGED <<work, guest, sends, cmd, rows, marked, kept, poll, restarts>>

(* cleanup has deleted the VM: what was not seen never will be. *)
ReleaseCommand ==
    /\ lab = "cleaning" /\ poll.pc = "idle"
    /\ lab' = "released"
    /\ sup' = "gone" /\ why' = "" /\ calls' = {} /\ sends' = {} /\ lost' = {}
    /\ group' = IF group = "none" THEN group ELSE "dead"
    /\ cmd' = [cmd EXCEPT
                 !.retained = IF @ = "open" THEN "incomplete" ELSE @,
                 !.status = IF Observing THEN [@ EXCEPT !.state = "uncertain",
                                                        !.final = TRUE]
                                         ELSE @]
    /\ UNCHANGED <<work, status, pipe, out, file, packet, cancelled, rows,
                   marked, kept, poll, restarts>>

(* The controller restarts, perhaps after the output of a poll was written *)
(* to the file and before its row was saved.  The lab is interrupted.      *)
Restart ==
    /\ restarts < work.restarts /\ lab # "released"
    /\ restarts' = restarts + 1
    /\ lab' = "cleaning" /\ poll' = Idle /\ lost' = GivenUp
    /\ \/ UNCHANGED kept
       \/ /\ poll.pc = "answered" /\ ~Refused /\ ~RetainedDone
          /\ kept' = AppendOutput
    /\ calls' = IF Observing THEN calls \cup {"cancel"} ELSE calls
    /\ UNCHANGED <<sup, why, group, status, pipe, out, file, packet, cancelled,
                   sends, work, cmd, rows, marked>>

----------------------------------------------------------------------------
Next ==
    \/ GuestStart \/ GuestReject \/ Launched \/ StartFailed
    \/ Feed \/ Progress \/ Output \/ Exit \/ Copy \/ Stop \/ Finish
    \/ \E reason \in {"exited", "timeout", "cancelled", "stopped", "failed"} :
          Decide(reason)
    \/ SupervisorDies \/ ServiceReconciles \/ PublishLost
    \/ GuestCancel \/ LoseCall
    \/ StartCommand \/ CommandInput \/ CancelCommand
    \/ \E s \in Inputs : GuestInput(s) \/ InputAnswered(s)
    \/ \E send \in BOOLEAN : StartPoll(send)
    \/ ReadReconciles \/ PollLost \/ PollRefused \/ RecordPoll
    \/ OutputTimeout \/ PollSent \/ PollSendFails
    \/ EndLab \/ ReleaseCommand \/ Restart

Spec == Init /\ [][Next]_vars

(* The supervisor's phases are bounded by timers, the process reads its    *)
(* stdin, and the monitor polls for as long as the lab runs.  A call made  *)
(* again and again is not lost every time.                                 *)
Fairness ==
    /\ WF_vars(Launched \/ StartFailed \/ Stop \/ Finish) /\ WF_vars(Feed)
    /\ WF_vars(Decide("exited")) /\ WF_vars(Decide("cancelled"))
    /\ SF_vars(GuestCancel) /\ \A s \in Inputs : SF_vars(GuestInput(s))
    /\ SF_vars(StartPoll(TRUE)) /\ SF_vars(poll.send /\ RecordPoll)
    /\ WF_vars(ReadReconciles \/ PollRefused \/ RecordPoll \/ PollSent
                              \/ PollSendFails)
    /\ WF_vars(PublishLost)

FairSpec == Spec /\ Fairness

----------------------------------------------------------------------------
(* Properties *)

(* The process reads the packets the controller accepted, in their order,  *)
(* none twice and none left out, although each may be sent several times   *)
(* by command_input and by the polls (supervisor.go: feedInput, Input).    *)
StdinInOrder ==
    /\ Len(pipe) <= Len(rows)
    /\ \A i \in 1 .. Len(pipe) : pipe[i] = rows[i]

(* What the controller reports of stdin is true: a packet reported as      *)
(* written was written to the process, one reported as delivered is in the *)
(* guest (command_output.go: readCommand; repository_retention.go:         *)
(* DeliveredInput).                                                        *)
AcksAreTrue ==
    /\ cmd.status.written <= Len(pipe)
    /\ \A s \in Inputs : s \in marked \/ s < cmd.delivered
                            => packet[s] # "absent"

(* Both together: what was accepted, delivered, written and reported of    *)
(* the command's input agrees between the controller and the guest.        *)
Inv == TypeOK /\ StdinInOrder /\ AcksAreTrue

(* A record that says how the command ended is published only when no      *)
(* process of the command is left; everything else is "uncertain"          *)
(* (supervisor.go: supervise; process_linux.go: Kill).                     *)
StoppedIsReal ==
    status # NoStatus /\ status.state \in Ended => group \in {"none", "dead"}

(* The retained file is a prefix of what the process wrote, also after a   *)
(* poll that was interrupted between the file and the row; retention is    *)
(* complete only with all of it (command_output.go: retainStream).         *)
RetainedIsOutput ==
    /\ cmd.bytes <= Len(kept) /\ Len(kept) <= file
    /\ \A i \in 1 .. Len(kept) : kept[i] = i
    /\ cmd.retained = "complete" => Len(kept) = out /\ group \in {"none", "dead"}

(* A final record and a settled output stream never change again in the    *)
(* controller, whatever later polls answer (command_output.go: readCommand *)
(* refuses a changed record; cleanup.go releases).                         *)
SettledIsFinal ==
    [][/\ cmd.status.final => cmd'.status = cmd.status
       /\ RetainedDone => cmd'.retained = cmd.retained /\ cmd'.bytes = cmd.bytes
      ]_vars

(* A requested cancellation is pursued: once the guest knows the command,  *)
(* lost cancel calls are repeated by the polls until the command is over.  *)
CancelIsPursued ==
    cmd.cancel = "requested" /\ status # NoStatus
        ~> cmd.status.final \/ lab # "running"

(* An accepted packet of a command the guest knows is written to its stdin *)
(* in the end, unless the command or the lab is over before.               *)
InputArrives ==
    \A s \in Inputs :
        s < Len(rows) /\ status # NoStatus
            ~> s < Len(pipe) \/ cmd.status.final \/ lab # "running"

----------------------------------------------------------------------------
(* The inductive invariant *)

(* Of the packets the guest has, each is the accepted one of its number,   *)
(* and stdin is made of a prefix of them.  Nothing is sent that was not    *)
(* accepted.                                                               *)
InputInStep ==
    /\ Len(rows) <= work.packets
    /\ \A s \in sends : s < Len(rows)
    /\ poll.pc = "sending" => poll.from < poll.to /\ poll.to <= Len(rows)
    /\ \A s \in Inputs : packet[s] # "absent" =>
                             s < Len(rows) /\ packet[s] = rows[s + 1]
    /\ Len(pipe) <= MaxPackets
    /\ \A i \in 1 .. Len(pipe) : packet[i - 1] # "absent" /\ pipe[i] = packet[i - 1]

(* No record, on its way or stored, counts more than stdin has.            *)
WrittenIsTrue ==
    /\ status.written <= Len(pipe)
    /\ poll.answer.written <= Len(pipe)
    /\ AcksAreTrue

(* While the supervisor works the record is not final and only it changes  *)
(* the record; a reason to stop outlives the kill only when nothing is     *)
(* left of the group.                                                      *)
GroupInStep ==
    /\ sup \in {"none", "launching"} => group = "none"
    /\ group = "none" => out = 0
    /\ sup \in Active => status.state \in Live
    /\ status.final <=> status.state \in Ended \cup {"uncertain"}
    /\ sup = "draining" /\ why # "" => group = "dead"
    /\ lost # {} \/ poll.pc = "reconciling" => sup = "gone"
    /\ StoppedIsReal

(* All output is in the file and no process can add to it.                 *)
Quiet == file = out /\ group \in {"none", "dead"} /\ status.final

(* A record that says that the output is complete is right, also while a   *)
(* poll carries it; the retained file never runs ahead of the poll.        *)
OutputInStep ==
    /\ status.output = "complete" => Quiet
    /\ poll.pc = "answered" =>
         /\ Len(kept) <= poll.size /\ poll.size <= file
         /\ poll.answer.output = "complete" => Quiet /\ poll.size = file
    /\ cmd.retained = "complete" => Quiet
    /\ RetainedIsOutput

(* Inv, StoppedIsReal and RetainedIsOutput follow from it, and every step  *)
(* keeps it.                                                               *)
IInv == TypeOK /\ InputInStep /\ WrittenIsTrue /\ GroupInStep /\ OutputInStep
=============================================================================
