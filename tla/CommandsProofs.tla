--------------------------- MODULE CommandsProofs ---------------------------
(***************************************************************************)
(* Proofs about one command, for any workloads and bounds: its input, its  *)
(* end, its retained output and its final record are what they seem,       *)
(* although calls are lost, the supervisor dies and the controller is      *)
(* restarted between any two steps.                                        *)
(*                                                                         *)
(* The argument: a packet in the guest is the accepted one of its number,  *)
(* and feedInput takes the first one that it has not written, so stdin is  *)
(* a prefix of what was accepted (InputInStep).  A count of written        *)
(* packets only travels from stdin to the record, to the answer of a poll  *)
(* and to the row, and stdin only grows (WrittenIsTrue).  A record says    *)
(* how the command ended only when the group is dead, whether the          *)
(* supervisor or a reconciler writes it, and is then final (GroupInStep).  *)
(* A poll appends what it has read beyond the retained file, and complete  *)
(* output has no writer left (OutputInStep).  That there is a first packet *)
(* without a mark is the least-element lemma below.                        *)
(***************************************************************************)
EXTENDS Commands, WellFoundedInduction, SequenceTheorems, TLAPS

States == Live \cup Ended \cup {"none", "uncertain"}
Outputs == {"open", "complete", "incomplete"}
Authors == {"supervisor", "poll", "other"}

-----------------------------------------------------------------------------
(* Records.                                                                *)

\* The fields of a workload, a record, a row and a poll.
LEMMA Fields ==
  /\ \A w \in Workloads : /\ w.packets \in 0 .. MaxPackets /\ w.output \in 0 .. MaxOutput
                          /\ w.cancels \in {0, 1} /\ w.restarts \in Nat
  /\ \A s \in Status : /\ s.state \in States /\ s.final \in BOOLEAN
                       /\ s.written \in 0 .. MaxPackets
                       /\ s.output \in Outputs /\ s.by \in Authors
  /\ \A c \in Rows : /\ c.status \in Status /\ c.delivered \in 0 .. MaxPackets
                     /\ c.bytes \in 0 .. MaxOutput
                     /\ c.retained \in {"none", "open", "complete", "incomplete"}
                     /\ c.cancel \in {"", "requested", "confirmed"}
  /\ \A p \in Polls : /\ p.pc \in {"idle", "reconciling", "answered", "sending"}
                      /\ p.send \in BOOLEAN /\ p.answer \in Status
                      /\ p.size \in 0 .. MaxOutput
                      /\ p.from \in 0 .. MaxPackets /\ p.to \in 0 .. MaxPackets
  <1>1. \A w \in Workloads : /\ w.packets \in 0 .. MaxPackets /\ w.output \in 0 .. MaxOutput
                             /\ w.cancels \in {0, 1} /\ w.restarts \in Nat
    BY CommandAssumption
  <1>2. \A s \in Status : /\ s.state \in States /\ s.final \in BOOLEAN
                          /\ s.written \in 0 .. MaxPackets
                          /\ s.output \in Outputs /\ s.by \in Authors
    BY DEF Status, States, Outputs, Authors
  <1>3. \A c \in Rows : /\ c.status \in Status /\ c.delivered \in 0 .. MaxPackets
                        /\ c.bytes \in 0 .. MaxOutput
                        /\ c.retained \in {"none", "open", "complete", "incomplete"}
                        /\ c.cancel \in {"", "requested", "confirmed"}
    BY DEF Rows
  <1>4. \A p \in Polls : /\ p.pc \in {"idle", "reconciling", "answered", "sending"}
                         /\ p.send \in BOOLEAN /\ p.answer \in Status
                         /\ p.size \in 0 .. MaxOutput
                         /\ p.from \in 0 .. MaxPackets /\ p.to \in 0 .. MaxPackets
    BY DEF Polls
  <1>5. QED BY <1>1, <1>2, <1>3, <1>4

\* What the command, its record and its poll begin with.
LEMMA Beginnings ==
  /\ Starting \in Status /\ Starting.state = "starting" /\ ~Starting.final
  /\ Starting.written = 0 /\ Starting.output = "open"
  /\ NoStatus \in Status /\ NoStatus.state = "none" /\ ~NoStatus.final
  /\ NoStatus.written = 0 /\ NoStatus.output = "open"
  /\ NoCommand \in Rows /\ NoCommand.status = Starting /\ NoCommand.delivered = 0
  /\ NoCommand.bytes = 0 /\ NoCommand.retained = "none"
  /\ Idle \in Polls /\ Idle.pc = "idle" /\ Idle.answer = NoStatus
  /\ Idle.answer.written = 0
  <1>1. /\ Starting \in Status /\ Starting.state = "starting" /\ ~Starting.final
        /\ Starting.written = 0 /\ Starting.output = "open"
    BY CommandAssumption DEF Starting, Status, Live
  <1>2. /\ NoStatus \in Status /\ NoStatus.state = "none" /\ ~NoStatus.final
        /\ NoStatus.written = 0 /\ NoStatus.output = "open"
    <2>1. NoStatus \in Status
      BY <1>1 DEF NoStatus, Status
    <2>2. NoStatus.state = "none" /\ NoStatus.final = Starting.final
          /\ NoStatus.written = Starting.written /\ NoStatus.output = Starting.output
      BY <1>1 DEF NoStatus, Status
    <2>3. QED BY <1>1, <2>1, <2>2
  <1>3. /\ NoCommand \in Rows /\ NoCommand.status = Starting /\ NoCommand.delivered = 0
        /\ NoCommand.bytes = 0 /\ NoCommand.retained = "none"
    <2>1. NoCommand.status = Starting /\ NoCommand.delivered = 0
          /\ NoCommand.bytes = 0 /\ NoCommand.retained = "none"
      BY DEF NoCommand
    <2>2. 0 \in 0 .. MaxPackets /\ 0 \in 0 .. MaxOutput
      BY CommandAssumption
    <2>3. NoCommand \in Rows
      BY <1>1, <2>2 DEF NoCommand, Rows
    <2>4. QED BY <2>1, <2>3
  <1>4. /\ Idle \in Polls /\ Idle.pc = "idle" /\ Idle.answer = NoStatus
    BY <1>2, CommandAssumption DEF Idle, Polls
  <1>5. QED BY <1>1, <1>2, <1>3, <1>4

\* lostSupervisor keeps what was counted and what is known of the output.
LEMMA LostIsUncertain ==
  ASSUME NEW s \in Status, NEW by \in {"poll", "other"}
  PROVE  /\ Lost(s, by) \in Status /\ Lost(s, by).state = "uncertain"
         /\ Lost(s, by).final /\ Lost(s, by).written = s.written
         /\ Lost(s, by).output = "complete" => s.output = "complete"
  <1> DEFINE r == IF s = NoStatus THEN Starting ELSE s
             o == IF s # NoStatus /\ s.output # "open" THEN s.output ELSE "incomplete"
             t == [r EXCEPT !.state = "uncertain", !.final = TRUE, !.by = by, !.output = o]
  <1>1. r \in Status /\ r.written = s.written /\ o \in Outputs
        /\ (o = "complete" => s.output = "complete")
    BY Beginnings, Fields DEF Outputs
  <1> HIDE DEF r, o
  <1>2. t \in Status /\ t.state = "uncertain" /\ t.final /\ t.written = r.written /\ t.output = o
    <2>1. t \in Status
      BY <1>1 DEF Status, Outputs
    <2>2. t.state = "uncertain" /\ t.final = TRUE /\ t.written = r.written /\ t.output = o
      BY <1>1 DEF Status
    <2>3. QED BY <2>1, <2>2
  <1>3. Lost(s, by) = t
    BY DEF Lost, t, r, o
  <1> HIDE DEF t
  <1>4. QED BY <1>1, <1>2, <1>3
-----------------------------------------------------------------------------
(* The first gap, and the retained file.                                   *)

\* A set of numbers that is not empty has a least one.
LEMMA Least ==
  ASSUME NEW T, T \subseteq Nat, T # {}
  PROVE  \E x \in T : \A y \in T : x <= y
  <1> DEFINE R == OpToRel(<, Nat)
  <1>1. IsWellFoundedOn(R, Nat)
    BY NatLessThanWellFounded
  <1>2. \A x, y \in Nat : y < x => <<y, x>> \in R
    BY DEF OpToRel
  <1> HIDE DEF R
  <1>3. PICK x \in T : \A y \in T : ~(<<y, x>> \in R)
    BY <1>1, WFMin
  <1>4. x \in Nat /\ \A y \in T : y \in Nat /\ ~(y < x)
    BY <1>2, <1>3
  <1>5. \A y \in T : x <= y
    BY <1>4
  <1>6. QED BY <1>5

\* The first packet that is not marked exists, and the ones before it are.
LEMMA Gap ==
  ASSUME NEW m, rows \in Seq(Packets)
  PROVE  /\ FirstUnmarked(m) \in 0 .. Len(rows)
         /\ \A i \in 0 .. FirstUnmarked(m) - 1 : i \in m
  <1> DEFINE T == {n \in 0 .. Len(rows) : n = Len(rows) \/ n \notin m}
  <1>0. Len(rows) \in Nat OBVIOUS
  <1>1. T \subseteq Nat /\ Len(rows) \in T
    BY <1>0
  <1>2. PICK x \in T : \A y \in T : x <= y
    BY <1>1, Least
  <1>3. \A i \in 0 .. x - 1 : i \in m
    BY <1>0, <1>2
  <1>4. QED BY <1>0, <1>2, <1>3 DEF FirstUnmarked

\* A file that holds the bytes 1, 2, ... continues with the next ones.
LEMMA Appended ==
  ASSUME NEW M \in Nat, NEW k \in Seq(1 .. M), \A i \in 1 .. Len(k) : k[i] = i,
         NEW n \in Nat, Len(k) + n <= M
  PROVE  LET s == k \o [i \in 1 .. n |-> Len(k) + i]
         IN  /\ s \in Seq(1 .. M) /\ Len(s) = Len(k) + n
             /\ \A i \in 1 .. Len(s) : s[i] = i
  <1> DEFINE f == [i \in 1 .. n |-> Len(k) + i]
  <1>1. f \in Seq(1 .. M) /\ Len(f) = n /\ \A i \in 1 .. n : f[i] = Len(k) + i
    OBVIOUS
  <1> HIDE DEF f
  <1>2. k \o f \in Seq(1 .. M) /\ Len(k \o f) = Len(k) + n
    BY <1>1, ConcatProperties
  <1>3. \A i \in 1 .. Len(k) + n : (k \o f)[i] = IF i <= Len(k) THEN k[i] ELSE f[i - Len(k)]
    BY <1>1, ConcatProperties
  <1>4. \A i \in 1 .. Len(k) + n : (k \o f)[i] = i
    BY <1>1, <1>3
  <1>5. QED BY <1>2, <1>4 DEF f

\* appendOutput extends the file to the end of the chunk, if it is not there yet.
LEMMA AppendedOutput ==
  ASSUME TypeOK, RetainedIsOutput, Len(kept) <= poll.size
  PROVE  /\ ReadEnd \in Nat /\ cmd.bytes <= ReadEnd /\ ReadEnd <= poll.size
         /\ AppendOutput \in Seq(1 .. MaxOutput)
         /\ Len(kept) <= Len(AppendOutput) /\ ReadEnd <= Len(AppendOutput)
         /\ Len(AppendOutput) <= poll.size
         /\ \A i \in 1 .. Len(AppendOutput) : AppendOutput[i] = i
  <1> DEFINE there == Min2(ReadEnd - cmd.bytes, Len(kept) - cmd.bytes)
             n == ReadEnd - cmd.bytes - there
  <1>1. /\ poll.size \in 0 .. MaxOutput /\ cmd.bytes \in 0 .. MaxOutput
        /\ Len(kept) \in Nat /\ cmd.bytes <= Len(kept)
        /\ kept \in Seq(1 .. MaxOutput) /\ \A i \in 1 .. Len(kept) : kept[i] = i
    <2>1. poll \in Polls /\ cmd \in Rows /\ kept \in Seq(1 .. MaxOutput)
      BY DEF TypeOK
    <2>2. cmd.bytes <= Len(kept) /\ \A i \in 1 .. Len(kept) : kept[i] = i
      BY DEF RetainedIsOutput
    <2>3. Len(kept) \in Nat
      BY <2>1
    <2>4. QED BY <2>1, <2>2, <2>3, Fields
  <1>2. ReadEnd \in Nat /\ cmd.bytes <= ReadEnd /\ ReadEnd <= poll.size
    BY <1>1, CommandAssumption DEF ReadEnd, Min2
  <1>3. n \in Nat /\ (n > 0 => cmd.bytes + there = Len(kept))
        /\ Len(kept) + n <= poll.size /\ ReadEnd <= Len(kept) + n
    <2>1. CASE ReadEnd <= Len(kept)
      BY <1>1, <1>2, <2>1 DEF Min2
    <2>2. CASE Len(kept) < ReadEnd
      BY <1>1, <1>2, <2>2 DEF Min2
    <2>3. QED BY <1>1, <1>2, <2>1, <2>2
  <1>4. AppendOutput = kept \o [i \in 1 .. n |-> cmd.bytes + there + i]
    BY DEF AppendOutput
  <1> HIDE DEF there
  <1>5. [i \in 1 .. n |-> cmd.bytes + there + i] = [i \in 1 .. n |-> Len(kept) + i]
    BY <1>1, <1>3
  <1> HIDE DEF n
  <1>6. Len(kept) + n <= MaxOutput
    BY <1>1, <1>3, CommandAssumption
  <1>7. /\ AppendOutput \in Seq(1 .. MaxOutput) /\ Len(AppendOutput) = Len(kept) + n
        /\ \A i \in 1 .. Len(AppendOutput) : AppendOutput[i] = i
    <2>1. n \in Nat /\ MaxOutput \in Nat
      BY <1>3, CommandAssumption
    <2>2. LET s == kept \o [i \in 1 .. n |-> Len(kept) + i]
          IN  /\ s \in Seq(1 .. MaxOutput) /\ Len(s) = Len(kept) + n
              /\ \A i \in 1 .. Len(s) : s[i] = i
      BY ONLY <1>1, <1>6, <2>1, Appended
    <2>3. QED BY <1>4, <1>5, <2>2, Zenon
  <1>8. QED BY <1>1, <1>2, <1>3, <1>7

-----------------------------------------------------------------------------
(* The steps of the guest.                                                 *)

\* What the invariant says of the fields.
LEMMA Facts ==
  ASSUME IInv
  PROVE  /\ work \in Workloads /\ work.packets \in 0 .. MaxPackets
         /\ work.output \in 0 .. MaxOutput /\ work.restarts \in Nat
         /\ status \in Status /\ status.state \in States /\ status.final \in BOOLEAN
         /\ status.written \in 0 .. MaxPackets /\ status.output \in Outputs
         /\ cmd \in Rows /\ cmd.status \in Status /\ cmd.status.final \in BOOLEAN
         /\ cmd.status.written \in 0 .. MaxPackets
         /\ cmd.delivered \in 0 .. MaxPackets /\ cmd.bytes \in 0 .. MaxOutput
         /\ poll \in Polls /\ poll.answer \in Status
         /\ poll.answer.written \in 0 .. MaxPackets
         /\ poll.size \in 0 .. MaxOutput
         /\ poll.from \in 0 .. MaxPackets /\ poll.to \in 0 .. MaxPackets
         /\ Len(rows) \in Nat /\ Len(pipe) \in Nat /\ Len(kept) \in Nat
         /\ out \in Nat /\ file \in Nat /\ file <= out /\ out <= MaxOutput
  <1>1. TypeOK
    BY DEF IInv
  <1>2. work \in Workloads /\ status \in Status /\ cmd \in Rows /\ poll \in Polls
    BY <1>1 DEF TypeOK
  <1>3. Len(rows) \in Nat /\ Len(pipe) \in Nat /\ Len(kept) \in Nat
    <2>1. rows \in Seq(Packets) /\ pipe \in Seq(Packets) /\ kept \in Seq(1 .. MaxOutput)
      BY <1>1 DEF TypeOK
    <2>2. QED BY <2>1
  <1>4. out \in Nat /\ file \in Nat /\ file <= out /\ out <= MaxOutput
    <2>1. out \in 0 .. MaxOutput /\ file \in 0 .. out
      BY <1>1 DEF TypeOK
    <2>2. QED BY <2>1, CommandAssumption
  <1>5. QED BY <1>2, <1>3, <1>4, Fields

\* The same of numbers alone, for arithmetic.
LEMMA Numbers ==
  ASSUME IInv
  PROVE  /\ MaxPackets \in Nat /\ MaxOutput \in Nat
         /\ work.packets \in Nat /\ work.packets <= MaxPackets
         /\ work.output \in Nat /\ work.output <= MaxOutput
         /\ status.written \in Nat /\ poll.answer.written \in Nat /\ cmd.status.written \in Nat
         /\ cmd.delivered \in Nat /\ poll.size \in Nat
         /\ Len(rows) \in Nat /\ Len(pipe) \in Nat /\ Len(kept) \in Nat
         /\ out \in Nat /\ file \in Nat /\ file <= out /\ out <= MaxOutput
  <1>1. MaxPackets \in Nat /\ MaxOutput \in Nat
    BY CommandAssumption
  <1>2. \A n \in 0 .. MaxPackets : n \in Nat /\ n <= MaxPackets
    BY <1>1
  <1>3. \A n \in 0 .. MaxOutput : n \in Nat /\ n <= MaxOutput
    BY <1>1
  <1>4. work.packets \in 0 .. MaxPackets /\ work.output \in 0 .. MaxOutput /\ poll.size \in 0 .. MaxOutput
    BY Facts
  <1>5. /\ status.written \in 0 .. MaxPackets /\ poll.answer.written \in 0 .. MaxPackets
        /\ cmd.status.written \in 0 .. MaxPackets /\ cmd.delivered \in 0 .. MaxPackets
    BY Facts
  <1>6. /\ Len(rows) \in Nat /\ Len(pipe) \in Nat /\ Len(kept) \in Nat
        /\ out \in Nat /\ file \in Nat /\ file <= out /\ out <= MaxOutput
    BY Facts
  <1>7. QED BY <1>1, <1>2, <1>3, <1>4, <1>5, <1>6

\* submit and the first half of supervise.
LEMMA GuestStartKeeps ==
  ASSUME IInv, GuestStart
  PROVE  IInv'
  <1>1. TypeOK'
    BY Beginnings DEF IInv, TypeOK, GuestStart, control, Active
  <1>2. InputInStep'
    BY DEF IInv, InputInStep, GuestStart, control
  <1>3. WrittenIsTrue'
    BY Facts, Beginnings DEF IInv, WrittenIsTrue, AcksAreTrue, GuestStart, control
  <1>4. GroupInStep'
    BY Beginnings DEF IInv, GroupInStep, StoppedIsReal, GuestStart, control, Live, Ended, Active
  <1>5. OutputInStep'
    BY Beginnings DEF IInv, OutputInStep, Quiet, RetainedIsOutput, GuestStart, control
  <1>6. QED BY <1>1, <1>2, <1>3, <1>4, <1>5 DEF IInv

\* rejectSubmission.
LEMMA GuestRejectKeeps ==
  ASSUME IInv, GuestReject
  PROVE  IInv'
  <1> DEFINE t == [Starting EXCEPT !.state = "failed", !.final = TRUE, !.output = "complete"]
  <1>1. /\ t \in Status /\ t.state = "failed" /\ t.final = TRUE /\ t.output = "complete"
        /\ t.written = 0
    <2>1. t \in Status
      BY Beginnings DEF Status, Ended
    <2>2. t.state = "failed" /\ t.final = TRUE /\ t.output = "complete" /\ t.written = Starting.written
      BY Beginnings DEF Status
    <2>3. QED BY <2>1, <2>2, Beginnings
  <1>2. /\ status' = t /\ sup = "none" /\ status = NoStatus /\ calls' = calls \ {"start"}
        /\ UNCHANGED <<sup, why, group, pipe, out, file, lost, packet, cancelled, sends, control>>
    BY DEF GuestReject
  <1> HIDE DEF t
  <1>3. TypeOK'
    BY <1>1, <1>2 DEF IInv, TypeOK, control
  <1>4. InputInStep'
    BY <1>2 DEF IInv, InputInStep, control
  <1>5. WrittenIsTrue'
    BY <1>1, <1>2, Facts DEF IInv, WrittenIsTrue, AcksAreTrue, control
  <1>6. GroupInStep'
    BY <1>1, <1>2 DEF IInv, GroupInStep, StoppedIsReal, control, Live, Ended, Active
  <1>7. OutputInStep'
    <2>1. group = "none" /\ out = 0 /\ file = 0
      BY <1>2, Facts DEF IInv, GroupInStep
    <2>2. QED BY <1>1, <1>2, <2>1, Beginnings
              DEF IInv, OutputInStep, Quiet, RetainedIsOutput, control
  <1>8. QED BY <1>3, <1>4, <1>5, <1>6, <1>7 DEF IInv

\* launch succeeds.
LEMMA LaunchedKeeps ==
  ASSUME IInv, Launched
  PROVE  IInv'
  <1>1. /\ status' \in Status /\ status'.written = status.written
        /\ status'.output = status.output /\ status'.final = status.final
        /\ status'.state \in Live /\ status.state \in Live
    <2>1. status.state \in Live
      BY DEF IInv, GroupInStep, Launched, Active
    <2>2. CASE status' = [status EXCEPT !.state = "running"]
      <3>1. status' \in Status
        BY <2>2, Facts DEF Status, Live
      <3>2. /\ status'.written = status.written /\ status'.output = status.output
            /\ status'.final = status.final /\ status'.state = "running"
        BY <2>2, Facts DEF Status
      <3>3. QED BY <2>1, <3>1, <3>2 DEF Live
    <2>3. CASE status' = status
      BY <2>1, <2>3, Facts
    <2>4. QED BY <2>2, <2>3 DEF Launched
  <1>2. /\ sup = "launching" /\ group' = "alive" /\ sup' \in {"running", "stopping"}
        /\ why' \in {why, "failed"}
        /\ UNCHANGED <<pipe, out, file, lost, packet, cancelled, channel, control>>
    BY DEF Launched
  <1>3. TypeOK'
    BY <1>1, <1>2 DEF IInv, TypeOK, control, channel, Active
  <1>4. InputInStep'
    BY <1>2 DEF IInv, InputInStep, control, channel
  <1>5. WrittenIsTrue'
    BY <1>1, <1>2 DEF IInv, WrittenIsTrue, AcksAreTrue, control
  <1>6. ~status.final /\ ~status'.final
    BY <1>1, <1>2 DEF IInv, GroupInStep, Live, Ended
  <1>7. GroupInStep'
    BY <1>1, <1>2, <1>6 DEF IInv, GroupInStep, StoppedIsReal, control, Live, Ended
  <1>8. OutputInStep'
    BY <1>1, <1>2, <1>6 DEF IInv, OutputInStep, Quiet, RetainedIsOutput, control
  <1>9. QED BY <1>3, <1>4, <1>5, <1>7, <1>8 DEF IInv

\* failStart.
LEMMA StartFailedKeeps ==
  ASSUME IInv, StartFailed
  PROVE  IInv'
  <1>1. PICK timeout \in BOOLEAN, written \in BOOLEAN :
          /\ group' \in IF timeout THEN {"none", "alive"} ELSE {"none"}
          /\ status' = IF ~written THEN status
                       ELSE [status EXCEPT
                               !.state = IF timeout THEN "uncertain" ELSE "failed",
                               !.final = TRUE, !.output = "incomplete"]
    BY DEF StartFailed
  <1>2. /\ sup = "launching" /\ sup' = "gone" /\ group = "none" /\ status.state \in Live
        /\ UNCHANGED <<why, pipe, out, file, lost, packet, cancelled, channel, control>>
    BY DEF IInv, GroupInStep, StartFailed, Active
  <1>3. /\ status' \in Status /\ status'.written = status.written
        /\ status'.output \in {status.output, "incomplete"}
        /\ \/ status'.final = status.final /\ status'.state = status.state
           \/ status'.final = TRUE /\ status'.state = "uncertain"
           \/ status'.final = TRUE /\ status'.state = "failed" /\ group' = "none"
    <2>1. CASE ~written
      BY <1>1, <2>1, Facts
    <2>2. CASE written
      <3> DEFINE st == IF timeout THEN "uncertain" ELSE "failed"
      <3>1. status' = [status EXCEPT !.state = st, !.final = TRUE, !.output = "incomplete"]
            /\ st \in {"uncertain", "failed"} /\ (st = "failed" => group' = "none")
        BY <1>1, <2>2
      <3> HIDE DEF st
      <3>2. status' \in Status
        BY <3>1, Facts DEF Status, Ended
      <3>3. /\ status'.written = status.written /\ status'.output = "incomplete"
            /\ status'.final = TRUE /\ status'.state = st
        BY <3>1, Facts DEF Status
      <3>4. QED BY <3>1, <3>2, <3>3
    <2>3. QED BY <2>1, <2>2
  <1>4. group' \in {"none", "alive"} /\ ~status.final
    BY <1>1, <1>2 DEF IInv, GroupInStep, Live, Ended
  <1>5. TypeOK'
    BY <1>2, <1>3, <1>4 DEF IInv, TypeOK, control, channel
  <1>6. InputInStep'
    BY <1>2 DEF IInv, InputInStep, control, channel
  <1>7. WrittenIsTrue'
    BY <1>2, <1>3 DEF IInv, WrittenIsTrue, AcksAreTrue, control
  <1>8. GroupInStep'
    BY <1>2, <1>3, <1>4 DEF IInv, GroupInStep, StoppedIsReal, control, Live, Ended, Active
  <1>9. OutputInStep'
    BY <1>2, <1>3, <1>4 DEF IInv, OutputInStep, Quiet, RetainedIsOutput, control
  <1>10. QED BY <1>5, <1>6, <1>7, <1>8, <1>9 DEF IInv

\* feedInput writes the next packet.
LEMMA FeedKeeps ==
  ASSUME IInv, Feed
  PROVE  IInv'
  <1> DEFINE next == Len(pipe)
  <1>1. /\ next \in Inputs /\ packet[next] # "absent" /\ pipe' = Append(pipe, packet[next])
        /\ UNCHANGED <<sup, why, group, status, out, file, lost, packet, cancelled, channel, control>>
    BY DEF Feed
  <1>2. pipe \in Seq(Packets) /\ packet[next] \in Packets
    BY <1>1 DEF IInv, TypeOK
  <1>3. /\ pipe' \in Seq(Packets) /\ Len(pipe') = Len(pipe) + 1
        /\ \A i \in 1 .. Len(pipe) : pipe'[i] = pipe[i]
        /\ pipe'[Len(pipe) + 1] = packet[next]
    BY <1>1, <1>2, AppendProperties
  <1>4. TypeOK'
    BY <1>1, <1>3 DEF IInv, TypeOK, control, channel
  <1>5. InputInStep'
    <2>1. Len(pipe') <= MaxPackets
      BY <1>1, <1>3, Facts, CommandAssumption DEF Inputs
    <2>2. \A i \in 1 .. Len(pipe') : packet'[i - 1] # "absent" /\ pipe'[i] = packet'[i - 1]
      <3>1. SUFFICES ASSUME NEW i \in 1 .. Len(pipe')
                     PROVE  packet'[i - 1] # "absent" /\ pipe'[i] = packet'[i - 1]
        OBVIOUS
      <3>2. CASE i = Len(pipe) + 1
        BY <1>1, <1>3, <3>2, Facts
      <3>3. CASE i # Len(pipe) + 1
        <4>1. i \in 1 .. Len(pipe)
          BY <1>3, <3>3, Facts
        <4>2. QED BY <1>1, <1>3, <4>1 DEF IInv, InputInStep
      <3>4. QED BY <3>2, <3>3
    <2>3. QED BY <1>1, <2>1, <2>2 DEF IInv, InputInStep, control, channel
  <1>6. WrittenIsTrue'
    <2>1. /\ status.written <= Len(pipe) /\ poll.answer.written <= Len(pipe)
          /\ cmd.status.written <= Len(pipe)
      BY DEF IInv, WrittenIsTrue, AcksAreTrue
    <2>2. /\ status.written <= Len(pipe') /\ poll.answer.written <= Len(pipe')
          /\ cmd.status.written <= Len(pipe')
      <3>1. /\ status.written \in Nat /\ poll.answer.written \in Nat
            /\ cmd.status.written \in Nat /\ Len(pipe) \in Nat
        BY Numbers
      <3>2. QED BY <1>3, <2>1, <3>1
    <2>3. QED BY <1>1, <2>2 DEF IInv, WrittenIsTrue, AcksAreTrue, control
  <1>7. GroupInStep'
    BY <1>1 DEF IInv, GroupInStep, StoppedIsReal, control
  <1>8. OutputInStep'
    BY <1>1 DEF IInv, OutputInStep, Quiet, RetainedIsOutput, control
  <1>9. QED BY <1>4, <1>5, <1>6, <1>7, <1>8 DEF IInv

\* The supervisor publishes how much was written.
LEMMA ProgressKeeps ==
  ASSUME IInv, Progress
  PROVE  IInv'
  <1>1. /\ sup = "running" /\ sup' \in {"running", "stopping"} /\ why' \in {why, "failed"}
        /\ UNCHANGED <<group, pipe, out, file, lost, packet, cancelled, channel, control>>
    BY DEF Progress
  <1>2. /\ status' \in Status /\ status'.written <= Len(pipe)
        /\ status'.state = status.state /\ status'.final = status.final
        /\ status'.output = status.output
    <2>1. CASE status' = [status EXCEPT !.written = Len(pipe)]
      <3>1. Len(pipe) \in 0 .. MaxPackets
        BY Facts, CommandAssumption DEF IInv, InputInStep
      <3>2. status' \in Status
        BY <2>1, <3>1, Facts DEF Status
      <3>3. /\ status'.written = Len(pipe) /\ status'.state = status.state
            /\ status'.final = status.final /\ status'.output = status.output
        BY <2>1, Facts DEF Status
      <3>4. QED BY <3>1, <3>2, <3>3, CommandAssumption
    <2>2. CASE status' = status
      BY <2>2, Facts DEF IInv, WrittenIsTrue
    <2>3. QED BY <2>1, <2>2 DEF Progress
  <1>3. TypeOK'
    BY <1>1, <1>2 DEF IInv, TypeOK, control, channel, Active
  <1>4. InputInStep'
    BY <1>1 DEF IInv, InputInStep, control, channel
  <1>5. WrittenIsTrue'
    BY <1>1, <1>2 DEF IInv, WrittenIsTrue, AcksAreTrue, control
  <1>6. GroupInStep'
    BY <1>1, <1>2, Facts DEF IInv, GroupInStep, StoppedIsReal, control, Live, Ended, Active
  <1>7. OutputInStep'
    BY <1>1, <1>2 DEF IInv, OutputInStep, Quiet, RetainedIsOutput, control
  <1>8. QED BY <1>3, <1>4, <1>5, <1>6, <1>7 DEF IInv

\* The processes of the command write.
LEMMA OutputKeeps ==
  ASSUME IInv, Output
  PROVE  IInv'
  <1>1. /\ group \in {"alive", "orphans"} /\ out < work.output /\ out' = out + 1
        /\ UNCHANGED <<sup, why, group, status, pipe, file, lost, packet, cancelled, channel, control>>
    BY DEF Output
  <1>2. out' \in 0 .. MaxOutput /\ file' \in 0 .. out'
    <2>1. out < work.output /\ out' = out + 1 /\ file' = file
      BY <1>1
    <2>2. /\ out \in Nat /\ file \in Nat /\ file <= out /\ out <= MaxOutput
          /\ work.output \in Nat /\ work.output <= MaxOutput /\ MaxOutput \in Nat
      BY Numbers
    <2>3. QED BY ONLY <2>1, <2>2
  <1>3. TypeOK'
    BY <1>1, <1>2 DEF IInv, TypeOK, control, channel
  <1>4. InputInStep'
    BY <1>1 DEF IInv, InputInStep, control, channel
  <1>5. WrittenIsTrue'
    BY <1>1 DEF IInv, WrittenIsTrue, AcksAreTrue, control
  <1>6. GroupInStep'
    BY <1>1 DEF IInv, GroupInStep, StoppedIsReal, control
  <1>7. OutputInStep'
    BY <1>1 DEF IInv, OutputInStep, Quiet, RetainedIsOutput, control
  <1>8. QED BY <1>3, <1>4, <1>5, <1>6, <1>7 DEF IInv

\* drainStreams copies a byte.
LEMMA CopyKeeps ==
  ASSUME IInv, Copy
  PROVE  IInv'
  <1>1. /\ sup \in Active /\ file < out /\ file' = file + 1
        /\ UNCHANGED <<sup, why, group, status, pipe, out, lost, packet, cancelled, channel, control>>
    BY DEF Copy
  <1>2. file' \in 0 .. out /\ file <= file'
    <2>1. file < out /\ file' = file + 1
      BY <1>1
    <2>2. /\ out \in Nat /\ file \in Nat /\ file <= out /\ out <= MaxOutput
          /\ work.output \in Nat /\ work.output <= MaxOutput /\ MaxOutput \in Nat
      BY Numbers
    <2>3. QED BY ONLY <2>1, <2>2
  <1>3. TypeOK'
    BY <1>1, <1>2 DEF IInv, TypeOK, control, channel
  <1>4. InputInStep'
    BY <1>1 DEF IInv, InputInStep, control, channel
  <1>5. WrittenIsTrue'
    BY <1>1 DEF IInv, WrittenIsTrue, AcksAreTrue, control
  <1>6. GroupInStep'
    BY <1>1 DEF IInv, GroupInStep, StoppedIsReal, control
  <1>7. OutputInStep'
    <2>1. ~Quiet
      BY <1>1, Facts DEF Quiet
    <2>2. Len(kept) <= file' /\ (poll.pc = "answered" => poll.size <= file')
      <3>1. Len(kept) <= file /\ (poll.pc = "answered" => poll.size <= file)
        BY DEF IInv, OutputInStep, RetainedIsOutput
      <3>2. QED BY <1>2, <3>1, Numbers
    <2>3. QED BY <1>1, <2>1, <2>2 DEF IInv, OutputInStep, RetainedIsOutput, control
  <1>8. QED BY <1>3, <1>4, <1>5, <1>6, <1>7 DEF IInv

\* The processes end, the supervisor decides, stops the group or dies, the
\* service finds it dead: the record stays as it is.
LEMMA StoppingKeeps ==
  ASSUME IInv,
         \/ Exit \/ Stop \/ SupervisorDies \/ ServiceReconciles
         \/ \E reason \in {"exited", "timeout", "cancelled", "stopped", "failed"} : Decide(reason)
  PROVE  IInv'
  <1>1. /\ UNCHANGED <<status, packet, pipe, cancelled, out, file, channel, control>>
        /\ sup' \in {sup, "stopping", "draining", "gone"}
        /\ why' \in {why, "", "exited", "timeout", "cancelled", "stopped", "failed"}
        /\ group' \in {group, "orphans", "dead"} /\ lost' \in {lost, lost \cup {"other"}}
        /\ group = "none" => group' \in {"none", "dead"}
        /\ group = "dead" => group' = "dead"
    BY DEF Exit, Stop, SupervisorDies, ServiceReconciles, Decide
  <1>2. TypeOK'
    <2>1. /\ sup' \in {"none", "gone"} \cup Active
          /\ why' \in {"", "exited", "timeout", "cancelled", "stopped", "failed"}
          /\ group' \in {"none", "alive", "orphans", "dead"} /\ lost' \subseteq {"poll", "other"}
      BY <1>1 DEF IInv, TypeOK, Active
    <2>2. QED BY <1>1, <2>1 DEF IInv, TypeOK, control, channel
  <1>3. InputInStep'
    BY <1>1 DEF IInv, InputInStep, control, channel
  <1>4. WrittenIsTrue'
    BY <1>1 DEF IInv, WrittenIsTrue, AcksAreTrue, control
  <1>5. GroupInStep'
    BY DEF IInv, GroupInStep, StoppedIsReal, control, Live, Ended, Active,
           Exit, Stop, SupervisorDies, ServiceReconciles, Decide
  <1>6. OutputInStep'
    BY <1>1 DEF IInv, OutputInStep, Quiet, RetainedIsOutput, control
  <1>7. QED BY <1>2, <1>3, <1>4, <1>5, <1>6 DEF IInv

\* The final record of the supervisor.
LEMMA FinishKeeps ==
  ASSUME IInv, Finish
  PROVE  IInv'
  <1>1. PICK drained \in BOOLEAN, written \in BOOLEAN :
          /\ drained => group = "dead" /\ file = out
          /\ status' = IF ~written THEN status
                       ELSE [status EXCEPT
                               !.state = Outcome(why), !.final = TRUE,
                               !.written = Len(pipe),
                               !.output = IF drained THEN "complete" ELSE "incomplete"]
    BY DEF Finish
  <1>2. /\ sup = "draining" /\ sup' = "gone" /\ why' = ""
        /\ UNCHANGED <<group, pipe, out, file, lost, packet, cancelled, channel, control>>
    BY DEF Finish
  <1>3. why \in {"", "exited", "timeout", "cancelled", "stopped", "failed"}
    BY DEF IInv, TypeOK
  <1>4. Outcome(why) \in Ended \cup {"uncertain"} /\ (Outcome(why) \in Ended => group = "dead")
    <2>1. Outcome(why) \in Ended \cup {"uncertain"}
      BY <1>3 DEF Outcome, Ended
    <2>2. why = "" => Outcome(why) = "uncertain"
      BY DEF Outcome
    <2>3. why # "" => group = "dead"
      BY <1>2 DEF IInv, GroupInStep
    <2>4. QED BY <2>1, <2>2, <2>3 DEF Ended
  <1>5. ~status.final /\ status.output # "complete"
    BY <1>2 DEF IInv, GroupInStep, OutputInStep, Quiet, Live, Ended, Active
  <1>6. /\ status' \in Status /\ status'.written <= Len(pipe)
        /\ \/ status' = status
           \/ /\ status'.final = TRUE /\ status'.state \in Ended \cup {"uncertain"}
              /\ status'.state \in Ended => group = "dead"
              /\ status'.output = "complete" => group = "dead" /\ file = out
    <2>1. CASE ~written
      BY <1>1, <2>1, Facts DEF IInv, WrittenIsTrue
    <2>2. CASE written
      <3> DEFINE st == Outcome(why)
                 o == IF drained THEN "complete" ELSE "incomplete"
      <3>1. /\ status' = [status EXCEPT !.state = st, !.final = TRUE, !.written = Len(pipe), !.output = o]
            /\ o \in Outputs /\ (o = "complete" => group = "dead" /\ file = out)
        BY <1>1, <2>2 DEF Outputs
      <3>2. Len(pipe) \in 0 .. MaxPackets /\ Len(pipe) <= Len(pipe)
        BY Facts, CommandAssumption DEF IInv, InputInStep
      <3> HIDE DEF st, o
      <3>3. st \in Ended \cup {"uncertain"} /\ (st \in Ended => group = "dead")
        BY <1>4 DEF st
      <3>4. status' \in Status
        BY <3>1, <3>2, <3>3, Facts DEF Status, Outputs
      <3>5. status'.state = st /\ status'.final = TRUE /\ status'.written = Len(pipe) /\ status'.output = o
        BY <3>1, Facts DEF Status
      <3>6. QED BY <3>1, <3>2, <3>3, <3>4, <3>5
    <2>3. QED BY <2>1, <2>2
  <1>7. TypeOK'
    BY <1>2, <1>6 DEF IInv, TypeOK, control, channel
  <1>8. InputInStep'
    BY <1>2 DEF IInv, InputInStep, control, channel
  <1>9. WrittenIsTrue'
    BY <1>2, <1>6 DEF IInv, WrittenIsTrue, AcksAreTrue, control
  <1>10. GroupInStep'
    BY <1>2, <1>6 DEF IInv, GroupInStep, StoppedIsReal, control, Live, Ended, Active
  <1>11. OutputInStep'
    BY <1>2, <1>5, <1>6 DEF IInv, OutputInStep, Quiet, RetainedIsOutput, control
  <1>12. QED BY <1>7, <1>8, <1>9, <1>10, <1>11 DEF IInv

\* A reader replaces the record of a supervisor that is gone.
LEMMA PublishLostKeeps ==
  ASSUME IInv, PublishLost
  PROVE  IInv'
  <1>1. /\ "other" \in lost /\ status' = Lost(status, "other") /\ lost' = lost \ {"other"}
        /\ UNCHANGED <<sup, why, group, pipe, out, file, packet, cancelled, channel, control>>
    BY DEF PublishLost
  <1>2. /\ status' \in Status /\ status'.state = "uncertain" /\ status'.final
        /\ status'.written = status.written
        /\ status'.output = "complete" => status.output = "complete"
    BY <1>1, Facts, LostIsUncertain
  <1>3. sup = "gone"
    BY <1>1 DEF IInv, GroupInStep
  <1>4. TypeOK'
    BY <1>1, <1>2 DEF IInv, TypeOK, control, channel
  <1>5. InputInStep'
    BY <1>1 DEF IInv, InputInStep, control, channel
  <1>6. WrittenIsTrue'
    BY <1>1, <1>2 DEF IInv, WrittenIsTrue, AcksAreTrue, control
  <1>7. GroupInStep'
    BY <1>1, <1>2, <1>3 DEF IInv, GroupInStep, StoppedIsReal, control, Live, Ended, Active
  <1>8. OutputInStep'
    BY <1>1, <1>2 DEF IInv, OutputInStep, Quiet, RetainedIsOutput, control
  <1>9. QED BY <1>4, <1>5, <1>6, <1>7, <1>8 DEF IInv

\* Input: what is linked is the packet the controller accepted.
LEMMA GuestInputKeeps ==
  ASSUME IInv, NEW s \in Inputs, GuestInput(s)
  PROVE  IInv'
  <1>1. /\ s \in sends /\ sends' = sends \ {s}
        /\ \/ packet' = packet
           \/ packet[s] = "absent" /\ packet' = [packet EXCEPT ![s] = rows[s + 1]]
        /\ UNCHANGED <<supervisor, cancelled, calls, control>>
    BY DEF GuestInput
  <1>2. packet \in [Inputs -> Packets \cup {"absent"}] /\ rows \in Seq(Packets)
    BY DEF IInv, TypeOK
  <1>3. s < Len(rows) /\ rows[s + 1] \in Packets
    <2>1. s < Len(rows)
      BY <1>1 DEF IInv, InputInStep
    <2>2. s + 1 \in 1 .. Len(rows)
      BY <2>1, Facts, CommandAssumption DEF Inputs
    <2>3. QED BY <1>2, <2>1, <2>2, ElementOfSeq
  <1>4. /\ packet' \in [Inputs -> Packets \cup {"absent"}]
        /\ \A q \in Inputs : \/ packet'[q] = packet[q]
                             \/ q = s /\ packet[q] = "absent" /\ packet'[q] = rows[q + 1]
    BY <1>1, <1>2, <1>3
  <1>5. TypeOK'
    BY <1>1, <1>4 DEF IInv, TypeOK, supervisor, control
  <1>6. InputInStep'
    <2>1. \A q \in Inputs : packet'[q] # "absent" => q < Len(rows) /\ packet'[q] = rows[q + 1]
      BY <1>3, <1>4 DEF IInv, InputInStep
    <2>2. \A i \in 1 .. Len(pipe) : packet'[i - 1] # "absent" /\ pipe[i] = packet'[i - 1]
      <3>1. SUFFICES ASSUME NEW i \in 1 .. Len(pipe)
                     PROVE  packet'[i - 1] # "absent" /\ pipe[i] = packet'[i - 1]
        OBVIOUS
      <3>2. i - 1 \in Inputs
        <4>1. Len(pipe) <= MaxPackets
          BY DEF IInv, InputInStep
        <4>2. QED BY <4>1, Facts, CommandAssumption DEF Inputs
      <3>3. packet[i - 1] # "absent" /\ pipe[i] = packet[i - 1]
        BY DEF IInv, InputInStep
      <3>4. QED BY <1>4, <3>2, <3>3
    <2>3. QED BY <1>1, <2>1, <2>2 DEF IInv, InputInStep, supervisor, control
  <1>7. WrittenIsTrue'
    BY <1>1, <1>3, <1>4 DEF IInv, WrittenIsTrue, AcksAreTrue, supervisor, control, Packets, TypeOK
  <1>8. GroupInStep'
    BY <1>1 DEF IInv, GroupInStep, StoppedIsReal, supervisor, control
  <1>9. OutputInStep'
    BY <1>1 DEF IInv, OutputInStep, Quiet, RetainedIsOutput, supervisor, control
  <1>10. QED BY <1>5, <1>6, <1>7, <1>8, <1>9 DEF IInv

\* A cancellation arrives, or a call is lost.
LEMMA CallKeeps ==
  ASSUME IInv, GuestCancel \/ LoseCall
  PROVE  IInv'
  <1>1. /\ calls' \subseteq calls /\ sends' \subseteq sends
        /\ UNCHANGED <<supervisor, packet, control>>
    BY DEF GuestCancel, LoseCall, guest
  <1>2. cancelled' \in BOOLEAN
    BY DEF IInv, TypeOK, GuestCancel, LoseCall, guest
  <1>3. TypeOK'
    BY <1>1, <1>2 DEF IInv, TypeOK, supervisor, control
  <1>4. InputInStep'
    BY <1>1 DEF IInv, InputInStep, supervisor, control
  <1>5. WrittenIsTrue'
    BY <1>1 DEF IInv, WrittenIsTrue, AcksAreTrue, supervisor, control
  <1>6. GroupInStep'
    BY <1>1 DEF IInv, GroupInStep, StoppedIsReal, supervisor, control
  <1>7. OutputInStep'
    BY <1>1 DEF IInv, OutputInStep, Quiet, RetainedIsOutput, supervisor, control
  <1>8. QED BY <1>3, <1>4, <1>5, <1>6, <1>7 DEF IInv

-----------------------------------------------------------------------------
(* The steps of the controller.                                            *)

\* A row of which one field changes.
LEMMA RowChanges ==
  ASSUME NEW c \in Rows
  PROVE  /\ \A d \in 0 .. MaxPackets :
              LET e == [c EXCEPT !.delivered = d]
              IN  /\ e \in Rows /\ e.delivered = d /\ e.status = c.status
                  /\ e.bytes = c.bytes /\ e.retained = c.retained
         /\ \A r \in {"none", "open", "complete", "incomplete"} :
              LET e == [c EXCEPT !.retained = r]
              IN  /\ e \in Rows /\ e.delivered = c.delivered /\ e.status = c.status
                  /\ e.bytes = c.bytes /\ e.retained = r
         /\ \A k \in {"", "requested", "confirmed"} :
              LET e == [c EXCEPT !.cancel = k]
              IN  /\ e \in Rows /\ e.delivered = c.delivered /\ e.status = c.status
                  /\ e.bytes = c.bytes /\ e.retained = c.retained
  BY DEF Rows

\* startCommand, command_cancel, the end of the wait for output, and the end of
\* the lab: only the row's cancellation or its output state changes.
LEMMA RowKeeps ==
  ASSUME IInv, StartCommand \/ CancelCommand \/ OutputTimeout \/ EndLab
  PROVE  IInv'
  <1>1. /\ UNCHANGED <<work, guest, sends, rows, marked, kept, poll, restarts>>
        /\ calls' \subseteq calls \cup {"start", "cancel"}
        /\ lab' \in {lab, "cleaning"}
    BY DEF StartCommand, CancelCommand, OutputTimeout, EndLab, channel
  <1>2. /\ cmd' \in Rows /\ cmd'.status = cmd.status /\ cmd'.delivered = cmd.delivered
        /\ cmd'.bytes = cmd.bytes
        /\ cmd'.retained \in {cmd.retained, "open", "incomplete"}
    <2>1. cmd \in Rows /\ cmd.retained \in {"none", "open", "complete", "incomplete"}
      BY Facts, Fields
    <2>2. \/ cmd' = cmd \/ cmd' = [cmd EXCEPT !.retained = "open"]
          \/ cmd' = [cmd EXCEPT !.retained = "incomplete"]
          \/ cmd' = [cmd EXCEPT !.cancel = "requested"]
      BY DEF StartCommand, CancelCommand, OutputTimeout, EndLab
    <2>3. CASE cmd' = cmd
      BY <2>1, <2>3
    <2>4. CASE cmd' = [cmd EXCEPT !.retained = "open"]
      BY <2>1, <2>4, RowChanges
    <2>5. CASE cmd' = [cmd EXCEPT !.retained = "incomplete"]
      BY <2>1, <2>5, RowChanges
    <2>6. CASE cmd' = [cmd EXCEPT !.cancel = "requested"]
      BY <2>1, <2>6, RowChanges
    <2>7. QED BY <2>2, <2>3, <2>4, <2>5, <2>6
  <1>3. TypeOK'
    BY <1>1, <1>2 DEF IInv, TypeOK, guest, supervisor
  <1>4. InputInStep'
    BY <1>1 DEF IInv, InputInStep, guest, supervisor
  <1>5. WrittenIsTrue'
    BY <1>1, <1>2 DEF IInv, WrittenIsTrue, AcksAreTrue, guest, supervisor
  <1>6. GroupInStep'
    BY <1>1 DEF IInv, GroupInStep, StoppedIsReal, guest, supervisor
  <1>7. OutputInStep'
    BY <1>1, <1>2 DEF IInv, OutputInStep, Quiet, RetainedIsOutput, guest, supervisor
  <1>8. QED BY <1>3, <1>4, <1>5, <1>6, <1>7 DEF IInv

\* commandInput accepts the next packet.
LEMMA CommandInputKeeps ==
  ASSUME IInv, CommandInput
  PROVE  IInv'
  <1>1. PICK p \in Packets : rows' = Append(rows, p)
    BY DEF CommandInput
  <1>2. /\ Len(rows) < work.packets /\ sends' = sends \cup {Len(rows)}
        /\ UNCHANGED <<work, guest, calls, lab, cmd, marked, kept, poll, restarts>>
    BY DEF CommandInput
  <1>3. rows \in Seq(Packets)
    BY DEF IInv, TypeOK
  <1>4. /\ rows' \in Seq(Packets) /\ Len(rows') = Len(rows) + 1
        /\ \A i \in 1 .. Len(rows) : rows'[i] = rows[i]
    BY <1>1, <1>3, AppendProperties
  <1>5. Len(rows) \in Inputs
    BY <1>2, Numbers DEF Inputs
  <1>6. TypeOK'
    BY <1>2, <1>4, <1>5 DEF IInv, TypeOK, guest, supervisor
  <1>7. InputInStep'
    <2>1. Len(rows') <= work.packets
      BY <1>2, <1>4, Facts, CommandAssumption
    <2>2. \A s \in sends' : s < Len(rows')
      <3>1. \A s \in sends : s \in Inputs /\ s < Len(rows)
        BY DEF IInv, InputInStep, TypeOK
      <3>2. QED BY <1>2, <1>4, <3>1, Facts, CommandAssumption DEF Inputs
    <2>3. poll.pc = "sending" => poll.from < poll.to /\ poll.to <= Len(rows')
      <3>1. poll.pc = "sending" => poll.from < poll.to /\ poll.to <= Len(rows)
        BY DEF IInv, InputInStep
      <3>2. QED BY <1>4, <3>1, Facts, CommandAssumption
    <2>4. \A s \in Inputs : packet[s] # "absent" => s < Len(rows') /\ packet[s] = rows'[s + 1]
      <3>1. SUFFICES ASSUME NEW s \in Inputs, packet[s] # "absent"
                     PROVE  s < Len(rows') /\ packet[s] = rows'[s + 1]
        OBVIOUS
      <3>2. s < Len(rows) /\ packet[s] = rows[s + 1]
        BY <3>1 DEF IInv, InputInStep
      <3>3. s + 1 \in 1 .. Len(rows) /\ s < Len(rows) + 1
        <4>1. s \in Nat /\ Len(rows) \in Nat
          BY Facts, CommandAssumption DEF Inputs
        <4>2. QED BY <3>2, <4>1
      <3>4. QED BY <1>4, <3>2, <3>3
    <2>5. QED BY <1>2, <2>1, <2>2, <2>3, <2>4 DEF IInv, InputInStep, guest, supervisor
  <1>8. WrittenIsTrue'
    BY <1>2 DEF IInv, WrittenIsTrue, AcksAreTrue, guest, supervisor
  <1>9. GroupInStep'
    BY <1>2 DEF IInv, GroupInStep, StoppedIsReal, guest, supervisor
  <1>10. OutputInStep'
    BY <1>2 DEF IInv, OutputInStep, Quiet, RetainedIsOutput, guest, supervisor
  <1>11. QED BY <1>6, <1>7, <1>8, <1>9, <1>10 DEF IInv

\* DeliveredInput counts packets that are in the guest.
LEMMA Delivery ==
  ASSUME IInv, NEW s \in Inputs, packet[s] # "absent", DeliveredInput(s),
         packet' = packet, pipe' = pipe
  PROVE  /\ marked' \subseteq Inputs /\ cmd' \in Rows
         /\ cmd'.status = cmd.status /\ cmd'.bytes = cmd.bytes /\ cmd'.retained = cmd.retained
         /\ AcksAreTrue'
  <1> DEFINE n == FirstUnmarked(marked')
  <1>1. marked' = marked \cup {s} /\ marked' \subseteq Inputs
    BY DEF IInv, TypeOK, DeliveredInput
  <1>2. cmd' = cmd \/ cmd' = [cmd EXCEPT !.delivered = n]
    BY DEF DeliveredInput
  <1>3. n \in 0 .. Len(rows) /\ \A i \in 0 .. n - 1 : i \in marked'
    BY Gap DEF IInv, TypeOK
  <1> HIDE DEF n
  <1>4. n \in 0 .. MaxPackets
    <2>1. Len(rows) <= work.packets
      BY DEF IInv, InputInStep
    <2>2. QED BY <1>3, <2>1, Numbers
  <1>5. /\ cmd' \in Rows /\ cmd'.status = cmd.status /\ cmd'.bytes = cmd.bytes
        /\ cmd'.retained = cmd.retained /\ cmd'.delivered \in {cmd.delivered, n}
    <2>1. CASE cmd' = cmd
      BY <2>1, Facts
    <2>2. CASE cmd' = [cmd EXCEPT !.delivered = n]
      <3>1. cmd \in Rows
        BY Facts
      <3>2. QED BY <1>4, <2>2, <3>1, RowChanges
    <2>3. QED BY <1>2, <2>1, <2>2
  <1>6. \A q \in Inputs : q < n => q \in marked'
    BY <1>3, Facts, CommandAssumption DEF Inputs
  <1>7. \A q \in marked' : q \in Inputs /\ packet[q] # "absent"
    BY <1>1 DEF IInv, WrittenIsTrue, AcksAreTrue
  <1>8. AcksAreTrue'
    <2>1. cmd.status.written <= Len(pipe)
          /\ \A q \in Inputs : q < cmd.delivered => packet[q] # "absent"
      BY DEF IInv, WrittenIsTrue, AcksAreTrue
    <2>2. QED BY <1>5, <1>6, <1>7, <2>1 DEF AcksAreTrue
  <1>9. QED BY <1>1, <1>5, <1>8

\* The guest's answer to commandInput.
LEMMA InputAnsweredKeeps ==
  ASSUME IInv, NEW s \in Inputs, InputAnswered(s)
  PROVE  IInv'
  <1>1. /\ packet[s] # "absent" /\ DeliveredInput(s)
        /\ UNCHANGED <<work, guest, channel, lab, rows, kept, poll, restarts>>
    BY DEF InputAnswered
  <1>2. /\ marked' \subseteq Inputs /\ cmd' \in Rows
        /\ cmd'.status = cmd.status /\ cmd'.bytes = cmd.bytes /\ cmd'.retained = cmd.retained
        /\ AcksAreTrue'
    BY <1>1, Delivery DEF guest, supervisor
  <1>3. TypeOK'
    BY <1>1, <1>2 DEF IInv, TypeOK, guest, supervisor, channel
  <1>4. InputInStep'
    BY <1>1 DEF IInv, InputInStep, guest, supervisor, channel
  <1>5. WrittenIsTrue'
    BY <1>1, <1>2 DEF IInv, WrittenIsTrue, guest, supervisor
  <1>6. GroupInStep'
    BY <1>1 DEF IInv, GroupInStep, StoppedIsReal, guest, supervisor
  <1>7. OutputInStep'
    BY <1>1, <1>2 DEF IInv, OutputInStep, Quiet, RetainedIsOutput, guest, supervisor
  <1>8. QED BY <1>3, <1>4, <1>5, <1>6, <1>7 DEF IInv

-----------------------------------------------------------------------------
(* The poll.                                                               *)

\* The first half of readCommand, with the record the guest has or without.
LEMMA StartPollKeeps ==
  ASSUME IInv, NEW send \in BOOLEAN, StartPoll(send)
  PROVE  IInv'
  <1>1. UNCHANGED <<work, sup, why, group, status, pipe, out, file, packet, cancelled,
                    channel, lab, cmd, rows, marked, kept, restarts>>
    BY DEF StartPoll
  <1>2. /\ poll' \in Polls
        /\ \/ /\ poll'.pc = "reconciling" /\ poll'.answer = NoStatus
              /\ sup = "gone" /\ lost' = lost \cup {"poll"}
           \/ /\ poll'.pc = "answered" /\ poll'.answer = status /\ poll'.size = file
              /\ lost' = lost
    <2>1. file \in 0 .. MaxOutput /\ status \in Status
      BY Facts, CommandAssumption
    <2>2. CASE status # NoStatus /\ ~status.final /\ sup = "gone"
      <3>1. /\ poll' = [Idle EXCEPT !.pc = "reconciling", !.send = send]
            /\ lost' = lost \cup {"poll"}
        BY <2>2 DEF StartPoll
      <3>2. poll' \in Polls /\ poll'.pc = "reconciling" /\ poll'.answer = Idle.answer
        BY <3>1, Beginnings DEF Polls
      <3>3. QED BY <2>2, <3>1, <3>2, Beginnings
    <2>3. CASE ~(status # NoStatus /\ ~status.final /\ sup = "gone")
      <3>1. /\ poll' = [Idle EXCEPT !.pc = "answered", !.send = send,
                                    !.answer = status, !.size = file]
            /\ lost' = lost
        BY <2>3 DEF StartPoll
      <3>2. poll' \in Polls /\ poll'.pc = "answered" /\ poll'.answer = status /\ poll'.size = file
        BY <2>1, <3>1, Beginnings DEF Polls
      <3>3. QED BY <3>1, <3>2
    <2>4. QED BY <2>2, <2>3
  <1>3. TypeOK'
    BY <1>1, <1>2 DEF IInv, TypeOK, channel
  <1>4. InputInStep'
    BY <1>1, <1>2 DEF IInv, InputInStep, channel
  <1>5. WrittenIsTrue'
    <2>1. poll'.answer.written <= Len(pipe)
      BY <1>2, Facts, Beginnings DEF IInv, WrittenIsTrue
    <2>2. QED BY <1>1, <2>1 DEF IInv, WrittenIsTrue, AcksAreTrue
  <1>6. GroupInStep'
    BY <1>1, <1>2 DEF IInv, GroupInStep, StoppedIsReal
  <1>7. OutputInStep'
    <2>1. file <= file
      BY Facts
    <2>2. QED BY <1>1, <1>2, <2>1 DEF IInv, OutputInStep, Quiet, RetainedIsOutput
  <1>8. QED BY <1>3, <1>4, <1>5, <1>6, <1>7 DEF IInv

\* Read replaces the record of a supervisor that is gone and returns the new one.
LEMMA ReadReconcilesKeeps ==
  ASSUME IInv, ReadReconciles
  PROVE  IInv'
  <1>1. /\ poll.pc = "reconciling" /\ status' = Lost(status, "poll") /\ lost' = lost \ {"poll"}
        /\ poll' = [poll EXCEPT !.pc = "answered", !.answer = status', !.size = file]
        /\ UNCHANGED <<work, sup, why, group, pipe, out, file, packet, cancelled,
                       channel, lab, cmd, rows, marked, kept, restarts>>
    BY DEF ReadReconciles
  <1>2. /\ status' \in Status /\ status'.state = "uncertain" /\ status'.final
        /\ status'.written = status.written
        /\ status'.output = "complete" => status.output = "complete"
    BY <1>1, Facts, LostIsUncertain
  <1>3. sup = "gone"
    BY <1>1 DEF IInv, GroupInStep
  <1>4. poll' \in Polls /\ poll'.pc = "answered" /\ poll'.answer = status' /\ poll'.size = file
    <2>1. file \in 0 .. MaxOutput /\ poll \in Polls
      BY Facts, CommandAssumption
    <2>2. QED BY <1>1, <1>2, <2>1 DEF Polls
  <1>5. TypeOK'
    BY <1>1, <1>2, <1>4 DEF IInv, TypeOK, channel
  <1>6. InputInStep'
    BY <1>1, <1>4 DEF IInv, InputInStep, channel
  <1>7. WrittenIsTrue'
    BY <1>1, <1>2, <1>4 DEF IInv, WrittenIsTrue, AcksAreTrue
  <1>8. GroupInStep'
    BY <1>1, <1>2, <1>3, <1>4 DEF IInv, GroupInStep, StoppedIsReal, Live, Ended, Active
  <1>9. OutputInStep'
    <2>1. file <= file
      BY Facts
    <2>2. QED BY <1>1, <1>2, <1>4, <2>1 DEF IInv, OutputInStep, Quiet, RetainedIsOutput
  <1>10. QED BY <1>5, <1>6, <1>7, <1>8, <1>9 DEF IInv

\* A poll that is lost, refused or broken off leaves everything as it was.
LEMMA PollEndsKeeps ==
  ASSUME IInv, PollLost \/ PollRefused \/ PollSendFails
  PROVE  IInv'
  <1>1. /\ poll' = Idle
        /\ UNCHANGED <<work, sup, why, group, status, pipe, out, file, packet, cancelled,
                       calls, sends, lab, cmd, rows, marked, kept, restarts>>
    BY DEF PollLost, PollRefused, PollSendFails, guest, supervisor, channel
  <1>2. lost' \subseteq {"poll", "other"} /\ (lost' # {} => lost # {})
    BY DEF IInv, TypeOK, PollLost, PollRefused, PollSendFails, GivenUp, guest, supervisor
  <1>3. TypeOK'
    BY <1>1, <1>2, Beginnings DEF IInv, TypeOK
  <1>4. InputInStep'
    BY <1>1, Beginnings DEF IInv, InputInStep
  <1>5. WrittenIsTrue'
    <2>1. poll'.answer.written <= Len(pipe)
      BY <1>1, Facts, Beginnings
    <2>2. QED BY <1>1, <2>1 DEF IInv, WrittenIsTrue, AcksAreTrue
  <1>6. GroupInStep'
    BY <1>1, <1>2, Beginnings DEF IInv, GroupInStep, StoppedIsReal
  <1>7. OutputInStep'
    BY <1>1, Beginnings DEF IInv, OutputInStep, Quiet, RetainedIsOutput
  <1>8. QED BY <1>3, <1>4, <1>5, <1>6, <1>7 DEF IInv

\* What readCommand makes of the row and of the retained file.
LEMMA RecordedRow ==
  ASSUME IInv, RecordPoll
  PROVE  /\ cmd' \in Rows /\ cmd'.status = poll.answer
         /\ cmd'.delivered = Max2(cmd.delivered, poll.answer.written)
         /\ \/ /\ ~RetainedDone /\ kept' = AppendOutput
               /\ cmd'.bytes = ReadEnd /\ cmd'.retained = RetainStream
            \/ /\ kept' = kept /\ cmd'.bytes = cmd.bytes
               /\ cmd'.retained \in {cmd.retained, "incomplete"}
               /\ RetainedDone => cmd'.retained = cmd.retained
  <1> DEFINE s == poll.answer
             delivered == Max2(cmd.delivered, s.written)
             cancel == IF s.state = "cancelled" THEN "confirmed" ELSE cmd.cancel
             row == [cmd EXCEPT !.status = s, !.delivered = delivered, !.cancel = cancel]
  <1>1. \/ /\ ~RetainedDone /\ kept' = AppendOutput
           /\ cmd' = [row EXCEPT !.bytes = ReadEnd, !.retained = RetainStream]
        \/ /\ ~RetainedDone /\ kept' = kept
           /\ cmd' = [row EXCEPT !.retained = "incomplete"]
        \/ RetainedDone /\ kept' = kept /\ cmd' = row
    BY DEF RecordPoll
  <1>2. poll.pc = "answered"
    BY DEF RecordPoll
  <1>3. /\ cmd \in Rows /\ s \in Status /\ delivered \in 0 .. MaxPackets
        /\ cancel \in {"", "requested", "confirmed"}
    <2>1. delivered \in 0 .. MaxPackets
      BY Facts, CommandAssumption DEF Max2
    <2>2. cancel \in {"", "requested", "confirmed"}
      BY Facts, Fields
    <2>3. QED BY <2>1, <2>2, Facts
  <1> HIDE DEF s, delivered, cancel
  <1>4. /\ row \in Rows /\ row.status = s /\ row.delivered = delivered
        /\ row.bytes = cmd.bytes /\ row.retained = cmd.retained
    BY <1>3 DEF Rows
  <1> HIDE DEF row
  <1>5. CASE /\ ~RetainedDone /\ kept' = AppendOutput
             /\ cmd' = [row EXCEPT !.bytes = ReadEnd, !.retained = RetainStream]
    <2>1. ReadEnd \in 0 .. MaxOutput
      <3>1. /\ ReadEnd \in Nat /\ ReadEnd <= poll.size
        BY <1>2, AppendedOutput DEF IInv, OutputInStep
      <3>2. QED BY <3>1, Facts, CommandAssumption
    <2>2. RetainStream \in {"none", "open", "complete", "incomplete"}
      BY DEF RetainStream
    <2>3. /\ cmd' \in Rows /\ cmd'.status = row.status /\ cmd'.delivered = row.delivered
          /\ cmd'.bytes = ReadEnd /\ cmd'.retained = RetainStream
      BY <1>4, <1>5, <2>1, <2>2 DEF Rows
    <2>4. QED BY <1>4, <1>5, <2>3 DEF s, delivered
  <1>6. CASE /\ ~RetainedDone /\ kept' = kept
             /\ cmd' = [row EXCEPT !.retained = "incomplete"]
    <2>1. /\ cmd' \in Rows /\ cmd'.status = row.status /\ cmd'.delivered = row.delivered
          /\ cmd'.bytes = row.bytes /\ cmd'.retained = "incomplete"
      BY <1>4, <1>6 DEF Rows
    <2>2. QED BY <1>4, <1>6, <2>1 DEF s, delivered
  <1>7. CASE RetainedDone /\ kept' = kept /\ cmd' = row
    BY <1>4, <1>7 DEF s, delivered
  <1>8. QED BY <1>1, <1>5, <1>6, <1>7

\* The second half of readCommand.
LEMMA RecordPollKeeps ==
  ASSUME IInv, RecordPoll
  PROVE  IInv'
  <1> DEFINE s == poll.answer
             delivered == Max2(cmd.delivered, s.written)
  <1>1. /\ poll.pc = "answered" /\ marked' = marked \cup {i \in Inputs : i < delivered}
        /\ calls' \subseteq calls \cup {"cancel"}
        /\ \/ poll' = Idle /\ sends' = sends
           \/ /\ poll' = [Idle EXCEPT !.pc = "sending", !.from = s.written, !.to = Len(rows)]
              /\ sends' = sends \cup {s.written} /\ s.written < Len(rows)
        /\ UNCHANGED <<work, guest, lab, rows, restarts>>
    BY DEF RecordPoll
  <1>2. /\ s.written \in Nat /\ cmd.delivered \in Nat /\ Len(rows) \in Nat /\ Len(pipe) \in Nat
        /\ Len(rows) \in 0 .. MaxPackets /\ s.written \in 0 .. MaxPackets
    <2>1. Len(rows) <= work.packets
      BY DEF IInv, InputInStep
    <2>2. s.written \in 0 .. MaxPackets
      BY Facts
    <2>3. QED BY <2>1, <2>2, Numbers
  <1>3. \A q \in Inputs : q < delivered => packet[q] # "absent"
    <2>1. SUFFICES ASSUME NEW q \in Inputs, q < delivered
                   PROVE  packet[q] # "absent"
      OBVIOUS
    <2>2. CASE q < cmd.delivered
      BY <2>2 DEF IInv, WrittenIsTrue, AcksAreTrue
    <2>3. CASE ~(q < cmd.delivered)
      <3>1. s.written <= Len(pipe)
        BY DEF IInv, WrittenIsTrue
      <3>2. q \in Nat /\ q < s.written
        BY <1>2, <2>1, <2>3, CommandAssumption DEF Max2, Inputs
      <3>3. q + 1 \in 1 .. Len(pipe)
        BY <1>2, <3>1, <3>2
      <3>4. packet[(q + 1) - 1] # "absent"
        BY <3>3 DEF IInv, InputInStep
      <3>5. (q + 1) - 1 = q
        BY <3>2
      <3>6. QED BY <3>4, <3>5
    <2>4. QED BY <2>2, <2>3
  <1>4. /\ poll' \in Polls /\ poll'.answer = NoStatus
        /\ \/ poll'.pc = "idle" /\ sends' = sends
           \/ /\ poll'.pc = "sending" /\ poll'.from = s.written /\ poll'.to = Len(rows)
              /\ sends' = sends \cup {s.written} /\ s.written < Len(rows)
    <2>1. CASE poll' = Idle /\ sends' = sends
      BY <2>1, Beginnings
    <2>2. CASE /\ poll' = [Idle EXCEPT !.pc = "sending", !.from = s.written, !.to = Len(rows)]
               /\ sends' = sends \cup {s.written} /\ s.written < Len(rows)
      <3>1. /\ poll' \in Polls /\ poll'.answer = Idle.answer
            /\ poll'.pc = "sending" /\ poll'.from = s.written /\ poll'.to = Len(rows)
        BY <1>2, <2>2, Beginnings DEF Polls
      <3>2. QED BY <2>2, <3>1, Beginnings
    <2>3. QED BY <1>1, <2>1, <2>2
  <1>5. /\ Len(kept) <= poll.size /\ poll.size <= file
        /\ s.output = "complete" => Quiet /\ poll.size = file
    BY <1>1 DEF IInv, OutputInStep
  <1>6. /\ ReadEnd \in Nat /\ cmd.bytes <= ReadEnd /\ ReadEnd <= poll.size
        /\ AppendOutput \in Seq(1 .. MaxOutput)
        /\ Len(kept) <= Len(AppendOutput) /\ ReadEnd <= Len(AppendOutput)
        /\ Len(AppendOutput) <= poll.size
        /\ \A i \in 1 .. Len(AppendOutput) : AppendOutput[i] = i
    BY <1>5, AppendedOutput DEF IInv, OutputInStep
  <1>7. TypeOK'
    <2>1. kept' \in Seq(1 .. MaxOutput)
      BY <1>6, RecordedRow DEF IInv, TypeOK
    <2>2. sends' \subseteq Inputs
      <3>1. sends \subseteq Inputs
        BY DEF IInv, TypeOK
      <3>2. s.written < Len(rows) => s.written \in Inputs
        BY <1>2, CommandAssumption DEF Inputs
      <3>3. QED BY <1>4, <3>1, <3>2
    <2>3. cmd' \in Rows
      BY RecordedRow
    <2>4. QED BY <1>1, <1>4, <2>1, <2>2, <2>3 DEF IInv, TypeOK, guest, supervisor
  <1>8. InputInStep'
    <2>1. poll'.pc = "sending" => poll'.from < poll'.to /\ poll'.to <= Len(rows)
      BY <1>2, <1>4
    <2>2. \A q \in sends' : q < Len(rows)
      BY <1>4 DEF IInv, InputInStep
    <2>3. QED BY <1>1, <2>1, <2>2 DEF IInv, InputInStep, guest, supervisor
  <1>9. WrittenIsTrue'
    <2>1. poll'.answer.written <= Len(pipe)
      BY <1>2, <1>4, Beginnings
    <2>2. cmd'.status.written <= Len(pipe) /\ cmd'.delivered = delivered
      BY RecordedRow DEF IInv, WrittenIsTrue
    <2>3. \A q \in Inputs : q \in marked' \/ q < cmd'.delivered => packet[q] # "absent"
      BY <1>1, <1>3, <2>2 DEF IInv, WrittenIsTrue, AcksAreTrue
    <2>4. QED BY <1>1, <2>1, <2>2, <2>3 DEF IInv, WrittenIsTrue, AcksAreTrue, guest, supervisor
  <1>10. GroupInStep'
    BY <1>1, <1>4 DEF IInv, GroupInStep, StoppedIsReal, guest, supervisor
  <1>11. OutputInStep'
    <2>1. UNCHANGED <<status, file, out, group>> /\ poll'.pc # "answered"
      BY <1>1, <1>4 DEF guest, supervisor
    <2>2. RetainedIsOutput /\ (cmd.retained = "complete" => Quiet)
      BY DEF IInv, OutputInStep
    <2>3. CASE /\ ~RetainedDone /\ kept' = AppendOutput
               /\ cmd'.bytes = ReadEnd /\ cmd'.retained = RetainStream
      <3>1. Len(kept') <= file
        <4>1. Len(AppendOutput) \in Nat
          BY <1>6
        <4>2. QED BY <1>5, <1>6, <2>3, <4>1, Numbers
      <3>2. cmd'.retained = "complete" => Quiet /\ Len(kept') = out
        <4>1. SUFFICES ASSUME cmd'.retained = "complete"
                       PROVE  Quiet /\ Len(kept') = out
          OBVIOUS
        <4>2. s.output = "complete" /\ ReadEnd = poll.size
          BY <2>3, <4>1 DEF RetainStream
        <4>3. Quiet /\ ReadEnd = file
          BY <1>5, <4>2
        <4>4. Len(AppendOutput) \in Nat
          BY <1>6
        <4>5. QED BY <1>6, <2>3, <3>1, <4>3, <4>4, Facts DEF Quiet
      <3>3. QED BY <1>6, <2>1, <2>3, <3>1, <3>2
                DEF IInv, OutputInStep, RetainedIsOutput, Quiet
    <2>4. CASE /\ kept' = kept /\ cmd'.bytes = cmd.bytes
               /\ cmd'.retained \in {cmd.retained, "incomplete"}
      BY <2>1, <2>2, <2>4 DEF IInv, OutputInStep, RetainedIsOutput, Quiet
    <2>5. QED BY <2>3, <2>4, RecordedRow
  <1>12. QED BY <1>7, <1>8, <1>9, <1>10, <1>11 DEF IInv

\* A packet that the poll sent has arrived.
LEMMA PollSentKeeps ==
  ASSUME IInv, PollSent
  PROVE  IInv'
  <1> DEFINE next == poll.from + 1
  <1>1. /\ poll.pc = "sending" /\ packet[poll.from] # "absent" /\ DeliveredInput(poll.from)
        /\ \/ /\ next < poll.to /\ poll' = [poll EXCEPT !.from = next]
              /\ sends' = sends \cup {next}
           \/ poll' = Idle /\ sends' = sends
        /\ UNCHANGED <<work, guest, calls, lab, rows, kept, restarts>>
    BY DEF PollSent
  <1>2. /\ poll.from < poll.to /\ poll.to <= Len(rows) /\ Len(rows) <= work.packets
    BY <1>1 DEF IInv, InputInStep
  <1>3. /\ poll.from \in Nat /\ poll.to \in Nat /\ Len(rows) \in Nat
        /\ poll.from \in Inputs /\ (next < poll.to => next \in Inputs /\ next \in 0 .. MaxPackets)
    <2>1. /\ poll.from \in Nat /\ poll.to \in Nat /\ Len(rows) \in Nat
          /\ work.packets \in Nat /\ work.packets <= MaxPackets
      <3>1. /\ poll.from \in 0 .. MaxPackets /\ poll.to \in 0 .. MaxPackets
            /\ Len(rows) \in Nat /\ work.packets \in 0 .. MaxPackets
        BY Facts
      <3>2. QED BY <3>1, CommandAssumption
    <2>2. QED BY <1>2, <2>1, CommandAssumption DEF Inputs
  <1>4. /\ marked' \subseteq Inputs /\ cmd' \in Rows
        /\ cmd'.status = cmd.status /\ cmd'.bytes = cmd.bytes /\ cmd'.retained = cmd.retained
        /\ AcksAreTrue'
    BY <1>1, <1>3, Delivery DEF guest, supervisor
  <1>5. /\ poll' \in Polls /\ poll'.answer \in {poll.answer, NoStatus}
        /\ \/ /\ poll'.pc = "sending" /\ poll'.from = next /\ poll'.to = poll.to
              /\ next < poll.to /\ sends' = sends \cup {next}
           \/ poll'.pc = "idle" /\ sends' = sends
    <2>1. CASE /\ next < poll.to /\ poll' = [poll EXCEPT !.from = next]
               /\ sends' = sends \cup {next}
      <3>1. poll \in Polls
        BY Facts
      <3>2. /\ poll' \in Polls /\ poll'.answer = poll.answer /\ poll'.pc = poll.pc
            /\ poll'.from = next /\ poll'.to = poll.to
        BY <1>3, <2>1, <3>1 DEF Polls
      <3>3. QED BY <1>1, <2>1, <3>2
    <2>2. CASE poll' = Idle /\ sends' = sends
      BY <2>2, Beginnings
    <2>3. QED BY <1>1, <2>1, <2>2
  <1>6. TypeOK'
    <2>1. sends' \subseteq Inputs
      BY <1>3, <1>5 DEF IInv, TypeOK
    <2>2. QED BY <1>1, <1>4, <1>5, <2>1 DEF IInv, TypeOK, guest, supervisor
  <1>7. InputInStep'
    <2>1. poll'.pc = "sending" => poll'.from < poll'.to /\ poll'.to <= Len(rows)
      BY <1>2, <1>5
    <2>2. \A q \in sends' : q < Len(rows)
      <3>1. next < poll.to => next < Len(rows)
        BY <1>2, <1>3
      <3>2. QED BY <1>5, <3>1 DEF IInv, InputInStep
    <2>3. QED BY <1>1, <2>1, <2>2 DEF IInv, InputInStep, guest, supervisor
  <1>8. WrittenIsTrue'
    <2>1. poll'.answer.written <= Len(pipe)
      <3>1. poll'.answer \in {poll.answer, NoStatus}
        BY <1>5
      <3>2. poll.answer.written <= Len(pipe) /\ NoStatus.written = 0 /\ Len(pipe) \in Nat
        BY Numbers, Beginnings DEF IInv, WrittenIsTrue
      <3>3. QED BY ONLY <3>1, <3>2
    <2>2. QED BY <1>1, <1>4, <2>1 DEF IInv, WrittenIsTrue, guest, supervisor
  <1>9. GroupInStep'
    BY <1>1, <1>5 DEF IInv, GroupInStep, StoppedIsReal, guest, supervisor
  <1>10. OutputInStep'
    BY <1>1, <1>4, <1>5 DEF IInv, OutputInStep, Quiet, RetainedIsOutput, guest, supervisor
  <1>11. QED BY <1>6, <1>7, <1>8, <1>9, <1>10 DEF IInv

\* What the release of the lab makes of the row.
LEMMA ReleasedRow ==
  ASSUME IInv, ReleaseCommand
  PROVE  /\ cmd' \in Rows /\ cmd'.status.written = cmd.status.written
         /\ cmd'.delivered = cmd.delivered /\ cmd'.bytes = cmd.bytes
         /\ cmd'.retained = IF cmd.retained = "open" THEN "incomplete" ELSE cmd.retained
         /\ cmd.status.final => cmd'.status = cmd.status
  <1> DEFINE r == IF cmd.retained = "open" THEN "incomplete" ELSE cmd.retained
             t == [cmd.status EXCEPT !.state = "uncertain", !.final = TRUE]
             s == IF Observing THEN t ELSE cmd.status
  <1>1. cmd \in Rows /\ cmd.status \in Status
        /\ cmd.retained \in {"none", "open", "complete", "incomplete"}
    BY Facts, Fields
  <1>2. t \in Status /\ t.written = cmd.status.written
    BY <1>1 DEF Status
  <1>3. cmd' = [cmd EXCEPT !.retained = r, !.status = s]
    <2>1. cmd' = [cmd EXCEPT
                    !.retained = IF cmd.retained = "open" THEN "incomplete" ELSE cmd.retained,
                    !.status = IF Observing THEN [cmd.status EXCEPT !.state = "uncertain", !.final = TRUE]
                                            ELSE cmd.status]
      BY <1>1 DEF ReleaseCommand, Rows
    <2>2. QED BY <2>1
  <1> HIDE DEF t
  <1>4. s \in Status /\ s.written = cmd.status.written /\ (cmd.status.final => s = cmd.status)
    BY <1>1, <1>2 DEF Observing
  <1>5. r \in {"none", "open", "complete", "incomplete"}
    BY <1>1
  <1> HIDE DEF r, s
  <1>6. /\ cmd' \in Rows /\ cmd'.status = s /\ cmd'.retained = r
        /\ cmd'.delivered = cmd.delivered /\ cmd'.bytes = cmd.bytes
    BY <1>1, <1>3, <1>4, <1>5 DEF Rows
  <1>7. QED BY <1>4, <1>6 DEF r

\* cleanup has deleted the VM.
LEMMA ReleaseCommandKeeps ==
  ASSUME IInv, ReleaseCommand
  PROVE  IInv'
  <1>1. /\ poll.pc = "idle" /\ lab' = "released" /\ sup' = "gone" /\ why' = ""
        /\ calls' = {} /\ sends' = {} /\ lost' = {}
        /\ group' = IF group = "none" THEN group ELSE "dead"
        /\ UNCHANGED <<work, status, pipe, out, file, packet, cancelled, rows,
                       marked, kept, poll, restarts>>
    BY DEF ReleaseCommand
  <1>2. /\ cmd' \in Rows /\ cmd'.status.written = cmd.status.written
        /\ cmd'.delivered = cmd.delivered /\ cmd'.bytes = cmd.bytes
        /\ cmd'.retained = IF cmd.retained = "open" THEN "incomplete" ELSE cmd.retained
    BY ReleasedRow
  <1>3. TypeOK'
    BY <1>1, <1>2 DEF IInv, TypeOK
  <1>4. InputInStep'
    BY <1>1 DEF IInv, InputInStep
  <1>5. WrittenIsTrue'
    BY <1>1, <1>2 DEF IInv, WrittenIsTrue, AcksAreTrue
  <1>6. GroupInStep'
    BY <1>1 DEF IInv, GroupInStep, StoppedIsReal, Active
  <1>7. OutputInStep'
    BY <1>1, <1>2 DEF IInv, OutputInStep, Quiet, RetainedIsOutput
  <1>8. QED BY <1>3, <1>4, <1>5, <1>6, <1>7 DEF IInv

\* The controller restarts, also between the retained file and its row.
LEMMA RestartKeeps ==
  ASSUME IInv, Restart
  PROVE  IInv'
  <1>1. /\ restarts < work.restarts /\ restarts' = restarts + 1
        /\ lab' = "cleaning" /\ poll' = Idle /\ lost' = GivenUp
        /\ calls' \subseteq calls \cup {"cancel"}
        /\ \/ kept' = kept
           \/ poll.pc = "answered" /\ ~RetainedDone /\ kept' = AppendOutput
        /\ UNCHANGED <<sup, why, group, status, pipe, out, file, packet, cancelled,
                       sends, work, cmd, rows, marked>>
    BY DEF Restart
  <1>2. /\ lost' \subseteq {"poll", "other"} /\ (lost' # {} => lost # {})
    BY <1>1 DEF IInv, TypeOK, GivenUp
  <1>3. restarts' \in 0 .. work.restarts
    <2>1. restarts \in 0 .. work.restarts
      BY DEF IInv, TypeOK
    <2>2. restarts < work.restarts /\ restarts' = restarts + 1 /\ work.restarts \in Nat
      BY <1>1, Facts
    <2>3. QED BY ONLY <2>1, <2>2
  <1>4. /\ kept' \in Seq(1 .. MaxOutput) /\ cmd.bytes <= Len(kept') /\ Len(kept') <= file
        /\ \A i \in 1 .. Len(kept') : kept'[i] = i
        /\ cmd.retained = "complete" => kept' = kept
    <2>1. CASE kept' = kept
      BY <2>1 DEF IInv, TypeOK, OutputInStep, RetainedIsOutput
    <2>2. CASE poll.pc = "answered" /\ ~RetainedDone /\ kept' = AppendOutput
      <3>1. Len(kept) <= poll.size /\ poll.size <= file
        BY <2>2 DEF IInv, OutputInStep
      <3>2. /\ AppendOutput \in Seq(1 .. MaxOutput) /\ cmd.bytes <= ReadEnd /\ ReadEnd \in Nat
            /\ ReadEnd <= Len(AppendOutput) /\ Len(AppendOutput) <= poll.size
            /\ \A i \in 1 .. Len(AppendOutput) : AppendOutput[i] = i
        BY <3>1, AppendedOutput DEF IInv, OutputInStep
      <3>3. Len(AppendOutput) \in Nat
        BY <3>2
      <3>4. cmd.bytes <= Len(AppendOutput) /\ Len(AppendOutput) <= file
        <4>1. cmd.bytes \in Nat /\ poll.size \in Nat /\ file \in Nat
          BY Facts, CommandAssumption
        <4>2. QED BY <3>1, <3>2, <3>3, <4>1
      <3>5. QED BY <2>2, <3>2, <3>4 DEF RetainedDone
    <2>3. QED BY <1>1, <2>1, <2>2
  <1>5. TypeOK'
    BY <1>1, <1>2, <1>3, <1>4, Beginnings DEF IInv, TypeOK
  <1>6. InputInStep'
    BY <1>1, Beginnings DEF IInv, InputInStep
  <1>7. WrittenIsTrue'
    <2>1. poll'.answer.written <= Len(pipe)
      BY <1>1, Facts, Beginnings
    <2>2. QED BY <1>1, <2>1 DEF IInv, WrittenIsTrue, AcksAreTrue
  <1>8. GroupInStep'
    BY <1>1, <1>2, Beginnings DEF IInv, GroupInStep, StoppedIsReal
  <1>9. OutputInStep'
    BY <1>1, <1>4, Beginnings DEF IInv, OutputInStep, Quiet, RetainedIsOutput
  <1>10. QED BY <1>5, <1>6, <1>7, <1>8, <1>9 DEF IInv

-----------------------------------------------------------------------------
(* The theorems.                                                           *)

\* A command that was not started satisfies the invariant.
LEMMA InitInv == Init => IInv
  <1> SUFFICES ASSUME Init PROVE IInv
    OBVIOUS
  <1>1. work.packets \in 0 .. MaxPackets /\ work.restarts \in Nat
    BY Fields DEF Init
  <1>2. /\ pipe = <<>> /\ pipe \in Seq(Packets) /\ Len(pipe) = 0
        /\ rows = <<>> /\ rows \in Seq(Packets) /\ Len(rows) = 0
        /\ kept = <<>> /\ kept \in Seq(1 .. MaxOutput) /\ Len(kept) = 0
    <2>1. pipe = <<>> /\ rows = <<>> /\ kept = <<>>
      BY DEF Init
    <2>2. QED BY <2>1, EmptySeq
  <1>3. 0 \in 0 .. MaxOutput /\ 0 \in 0 .. 0 /\ 0 \in 0 .. work.restarts
    BY <1>1, CommandAssumption
  <1>4. TypeOK
    BY <1>2, <1>3, Beginnings DEF Init, TypeOK, Inputs
  <1>5. InputInStep
    <2>1. /\ sends = {} /\ poll.pc = "idle" /\ \A s \in Inputs : packet[s] = "absent"
      BY Beginnings DEF Init
    <2>2. 0 <= work.packets /\ 0 <= MaxPackets /\ 1 .. 0 = {}
      BY <1>1, CommandAssumption
    <2>3. QED BY <1>2, <2>1, <2>2 DEF InputInStep
  <1>6. WrittenIsTrue
    <2>1. /\ status.written = 0 /\ poll.answer.written = 0 /\ cmd.status.written = 0
          /\ cmd.delivered = 0 /\ marked = {}
      BY Beginnings DEF Init
    <2>2. \A s \in Inputs : ~(s < 0)
      BY CommandAssumption DEF Inputs
    <2>3. QED BY <1>2, <2>1, <2>2 DEF WrittenIsTrue, AcksAreTrue
  <1>7. GroupInStep
    BY Beginnings DEF Init, GroupInStep, StoppedIsReal, Active, Ended
  <1>8. OutputInStep
    <2>1. /\ status.output = "open" /\ poll.pc = "idle" /\ cmd.retained = "none"
          /\ cmd.bytes = 0 /\ file = 0
      BY Beginnings DEF Init
    <2>2. QED BY <1>2, <2>1 DEF OutputInStep, RetainedIsOutput
  <1>9. QED BY <1>4, <1>5, <1>6, <1>7, <1>8 DEF IInv

\* Every step of the controller, of the guest and of their calls keeps it.
LEMMA NextInv == IInv /\ [Next]_vars => IInv'
  <1> SUFFICES ASSUME IInv, [Next]_vars PROVE IInv'
    OBVIOUS
  <1>1. CASE GuestStart BY <1>1, GuestStartKeeps
  <1>2. CASE GuestReject BY <1>2, GuestRejectKeeps
  <1>3. CASE Launched BY <1>3, LaunchedKeeps
  <1>4. CASE StartFailed BY <1>4, StartFailedKeeps
  <1>5. CASE Feed BY <1>5, FeedKeeps
  <1>6. CASE Progress BY <1>6, ProgressKeeps
  <1>7. CASE Output BY <1>7, OutputKeeps
  <1>8. CASE Copy BY <1>8, CopyKeeps
  <1>9. CASE \/ Exit \/ Stop \/ SupervisorDies \/ ServiceReconciles
             \/ \E reason \in {"exited", "timeout", "cancelled", "stopped", "failed"} : Decide(reason)
    BY <1>9, StoppingKeeps
  <1>10. CASE Finish BY <1>10, FinishKeeps
  <1>11. CASE PublishLost BY <1>11, PublishLostKeeps
  <1>12. CASE GuestCancel \/ LoseCall BY <1>12, CallKeeps
  <1>13. CASE StartCommand \/ CancelCommand \/ OutputTimeout \/ EndLab BY <1>13, RowKeeps
  <1>14. CASE CommandInput BY <1>14, CommandInputKeeps
  <1>15. CASE \E s \in Inputs : GuestInput(s) \/ InputAnswered(s)
    BY <1>15, GuestInputKeeps, InputAnsweredKeeps
  <1>16. CASE \E send \in BOOLEAN : StartPoll(send) BY <1>16, StartPollKeeps
  <1>17. CASE ReadReconciles BY <1>17, ReadReconcilesKeeps
  <1>18. CASE PollLost \/ PollRefused \/ PollSendFails BY <1>18, PollEndsKeeps
  <1>19. CASE RecordPoll BY <1>19, RecordPollKeeps
  <1>20. CASE PollSent BY <1>20, PollSentKeeps
  <1>21. CASE ReleaseCommand BY <1>21, ReleaseCommandKeeps
  <1>22. CASE Restart BY <1>22, RestartKeeps
  <1>23. CASE UNCHANGED vars
    <2>1. /\ UNCHANGED <<sup, why, group, status, pipe, out, file, lost, packet, cancelled>>
          /\ UNCHANGED <<calls, sends, work, lab, cmd, rows, marked, kept, poll, restarts>>
      BY <1>23 DEF vars, guest, supervisor, channel, control
    <2>2. TypeOK'
      BY <2>1 DEF IInv, TypeOK
    <2>3. InputInStep'
      BY <2>1 DEF IInv, InputInStep
    <2>4. WrittenIsTrue'
      BY <2>1 DEF IInv, WrittenIsTrue, AcksAreTrue
    <2>5. GroupInStep'
      BY <2>1 DEF IInv, GroupInStep, StoppedIsReal
    <2>6. OutputInStep'
      BY <2>1 DEF IInv, OutputInStep, Quiet, RetainedIsOutput
    <2>7. QED BY <2>2, <2>3, <2>4, <2>5, <2>6 DEF IInv
  <1>24. QED
    BY <1>1, <1>2, <1>3, <1>4, <1>5, <1>6, <1>7, <1>8, <1>9, <1>10, <1>11, <1>12, <1>13,
       <1>14, <1>15, <1>16, <1>17, <1>18, <1>19, <1>20, <1>21, <1>22, <1>23 DEF Next

\* stdin is what the controller accepted, in order and once.
LEMMA InOrder == IInv => StdinInOrder
  <1> SUFFICES ASSUME IInv PROVE StdinInOrder
    OBVIOUS
  <1>1. Len(pipe) <= MaxPackets
        /\ \A i \in 1 .. Len(pipe) : packet[i - 1] # "absent" /\ pipe[i] = packet[i - 1]
    BY DEF IInv, InputInStep
  <1>2. \A i \in 1 .. Len(pipe) : i - 1 < Len(rows) /\ pipe[i] = rows[i]
    <2>1. SUFFICES ASSUME NEW i \in 1 .. Len(pipe)
                   PROVE  i - 1 < Len(rows) /\ pipe[i] = rows[i]
      OBVIOUS
    <2>2. i - 1 \in Inputs /\ (i - 1) + 1 = i
      <3>1. Len(pipe) \in Nat
        BY Facts
      <3>2. QED BY <1>1, <3>1, CommandAssumption DEF Inputs
    <2>3. packet[i - 1] # "absent" => i - 1 < Len(rows) /\ packet[i - 1] = rows[(i - 1) + 1]
      BY <2>2 DEF IInv, InputInStep
    <2>4. QED BY <1>1, <2>2, <2>3
  <1>3. Len(pipe) <= Len(rows)
    <2>1. Len(pipe) \in Nat /\ Len(rows) \in Nat
      BY Facts
    <2>2. CASE Len(pipe) = 0
      BY <2>1, <2>2
    <2>3. CASE Len(pipe) # 0
      <3>1. Len(pipe) \in 1 .. Len(pipe)
        BY <2>1, <2>3
      <3>2. Len(pipe) - 1 < Len(rows)
        BY <1>2, <3>1
      <3>3. QED BY <2>1, <3>2
    <2>4. QED BY <2>2, <2>3
  <1>4. QED BY <1>2, <1>3 DEF StdinInOrder

\* What was accepted, delivered, written and reported of the command's input
\* agrees between the controller and the guest: the process reads the accepted
\* packets in their order, none twice and none left out, and what is reported
\* as written or delivered was (supervisor.go: feedInput, Input;
\* command_output.go: readCommand).
THEOREM InputIsTrue == Spec => []Inv
  <1>1. IInv => Inv
    BY InOrder DEF IInv, Inv, WrittenIsTrue
  <1>2. QED BY <1>1, InitInv, NextInv, PTL DEF Spec

\* A record that says how the command ended is published only when no process of
\* the command is left (supervisor.go: supervise; process_linux.go: Kill).
THEOREM EndIsReal == Spec => []StoppedIsReal
  <1>1. IInv => StoppedIsReal
    BY DEF IInv, GroupInStep
  <1>2. QED BY <1>1, InitInv, NextInv, PTL DEF Spec

\* The retained file is a prefix of what the process wrote, whatever poll was
\* interrupted between the file and its row, and complete only with all of it
\* (command_output.go: retainStream).
THEOREM RetentionIsTrue == Spec => []RetainedIsOutput
  <1>1. IInv => RetainedIsOutput
    BY DEF IInv, OutputInStep
  <1>2. QED BY <1>1, InitInv, NextInv, PTL DEF Spec

\* A final record and a settled output stream never change again in the
\* controller (command_output.go: readCommand refuses a changed record).
THEOREM SettledStays == Spec => SettledIsFinal
  <1> DEFINE Same == /\ cmd.status.final => cmd'.status = cmd.status
                     /\ RetainedDone => cmd'.retained = cmd.retained /\ cmd'.bytes = cmd.bytes
  <1>1. IInv /\ [Next]_vars => [Same]_vars
    <2> SUFFICES ASSUME IInv, Next PROVE Same
      OBVIOUS
    <2>1. CASE cmd' = cmd
      BY <2>1
    <2>2. CASE StartCommand \/ CancelCommand \/ OutputTimeout
      <3>1. cmd \in Rows
        BY Facts
      <3>2. CASE StartCommand
        <4>1. cmd' = [cmd EXCEPT !.retained = "open"] /\ ~RetainedDone
          BY <3>2, Beginnings DEF StartCommand, RetainedDone
        <4>2. QED BY <3>1, <4>1, RowChanges
      <3>3. CASE CancelCommand
        <4>1. cmd' = [cmd EXCEPT !.cancel = "requested"]
          BY <3>3 DEF CancelCommand
        <4>2. QED BY <3>1, <4>1, RowChanges
      <3>4. CASE OutputTimeout
        <4>1. cmd' = [cmd EXCEPT !.retained = "incomplete"] /\ ~RetainedDone
          BY <3>4 DEF OutputTimeout, Polling, Observing
        <4>2. QED BY <3>1, <4>1, RowChanges
      <3>5. QED BY <2>2, <3>2, <3>3, <3>4
    <2>3. CASE \E s \in Inputs : InputAnswered(s)
      BY <2>3, Delivery DEF InputAnswered, guest, supervisor
    <2>4. CASE PollSent
      <3>1. poll.from \in Inputs
        <4>1. poll.from < poll.to /\ poll.to <= Len(rows) /\ Len(rows) <= work.packets
          BY <2>4 DEF IInv, InputInStep, PollSent
        <4>2. QED BY <4>1, Facts, CommandAssumption DEF Inputs
      <3>2. QED BY <2>4, <3>1, Delivery DEF PollSent, guest, supervisor
    <2>5. CASE RecordPoll
      <3>1. cmd.status.final => poll.answer = cmd.status
        BY <2>5 DEF RecordPoll, Refused
      <3>2. QED BY <2>5, <3>1, RecordedRow
    <2>6. CASE ReleaseCommand
      BY <2>6, ReleasedRow DEF RetainedDone
    <2>7. QED
      BY <2>1, <2>2, <2>3, <2>4, <2>5, <2>6
         DEF Next, GuestStart, GuestReject, Launched, StartFailed, Feed, Progress, Output, Exit,
             Copy, Stop, Finish, Decide, SupervisorDies, ServiceReconciles, PublishLost,
             GuestCancel, LoseCall, CommandInput, GuestInput, StartPoll, ReadReconciles,
             PollLost, PollRefused, PollSendFails, EndLab, Restart, control
  <1>2. QED BY <1>1, InitInv, NextInv, PTL DEF Spec, SettledIsFinal
=============================================================================
