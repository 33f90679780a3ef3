---------------------- MODULE OperationReceiptsProofs ----------------------
(***************************************************************************)
(* What OperationReceipts promises for every set of request_ids and        *)
(* parameters, any number of crashes and with failing writes, and what the *)
(* store of the bodies behind the receipts (BodyStore) does.               *)
(***************************************************************************)
EXTENDS OperationReceipts, BodyStore, TLAPS

(* What is stored when a receipt ends is a receipt (revision.go 41-50).    *)
LEMMA EndedIsOp ==
    ASSUME NEW d \in Digests, NEW s \in Final
    PROVE  /\ Ended(d, s) \in Ops
           /\ Ended(d, s).digest = d /\ Ended(d, s).state = s
           /\ Ended(d, s).stage \in {"confirmed", "unknown"}
           /\ Ended(d, s) # NoOp
  BY ReceiptAssumption DEF Ended, Ops, States, Final, NoOp

(* A receipt that is there carries a digest; the absent one is known by    *)
(* its state (api.go 603-612, requestOperation).                           *)
LEMMA OpOrNoOp ==
    ASSUME NEW o \in Ops \cup {NoOp}
    PROVE  /\ o = NoOp <=> o.state = "absent"
           /\ o # NoOp => o \in Ops /\ o.digest \in Digests /\ o.state \in States
           /\ o = NoOp => o.digest = NoDigest /\ o.stage = "absent"
           /\ o.state \in States => o \in Ops
  BY ReceiptAssumption DEF Ops, NoOp, States

(* Nothing about a request changes when its receipt, its goroutine and its *)
(* effects stay as they are.                                               *)
LEMMA Frame ==
    ASSUME NEW q \in Requests, Agrees(q),
           row'[q] = row[q], mem'[q] = mem[q], call'[q] = call[q],
           effects'[q] = effects[q], up' = up,
           q \in pending' => q \in pending,
           q \in moot' <=> q \in moot,
           \A d : <<q, d>> \in inflight' <=> <<q, d>> \in inflight
    PROVE  Agrees(q)'
  <1>1. /\ Untouched(q)' <=> Untouched(q)
        /\ Done(q)' <=> Done(q)
        /\ Quiet(q)' <=> Quiet(q)
    BY DEF Untouched, Done, Quiet
  <1>2. IssuedOnce(q)' <=> IssuedOnce(q)
    BY DEF IssuedOnce
  <1>3. RowTells(q)' /\ PendingAgrees(q)'
    BY <1>1 DEF Agrees, RowTells, PendingAgrees
  <1>4. CallAgrees(q)'
    BY <1>1 DEF Agrees, CallAgrees
  <1>. QED BY <1>1, <1>2, <1>3, <1>4 DEF Agrees

(* The empty database agrees with everything (server.go New).              *)
LEMMA InitIInv == Init => IInv
  <1>. SUFFICES ASSUME Init PROVE IInv
    OBVIOUS
  <1>1. TypeOK
    <2>1. NoEffects \in [Digests -> Nat]
      BY DEF NoEffects
    <2>2. effects \in [Requests -> [Digests -> Nat]]
      BY <2>1 DEF Init
    <2>3. row \in [Requests -> Ops \cup {NoOp}] /\ mem \in [Requests -> Ops \cup {NoOp}]
      BY DEF Init
    <2>4. crashes \in 0 .. Crashes
      BY ReceiptAssumption DEF Init
    <2>5. call \in [Requests -> {"none", "spawned", "unsaved", "mutating",
                                 "issued", "refused", "moot", "ok", "late",
                                 "unclear"}]
      BY DEF Init
    <2>6. moot \subseteq Requests /\ up \in BOOLEAN /\ closed \in BOOLEAN
      BY DEF Init
    <2>. QED BY <2>2, <2>3, <2>4, <2>5, <2>6 DEF Init, TypeOK
  <1>2. ASSUME NEW q \in Requests PROVE Agrees(q)
    BY DEF Init, Agrees, CallAgrees, RowTells, PendingAgrees, Untouched,
           Quiet, NoOp
  <1>. QED BY <1>1, <1>2 DEF IInv

(***************************************************************************)
(* Each action keeps the invariant: first the types, then the request it   *)
(* is about; Frame takes care of the others.                               *)
(***************************************************************************)

(* Admission (api.go 370-545).                                             *)
LEMMA AdmitKeeps ==
    ASSUME IInv, NEW r \in Requests, NEW d \in Digests, Admit(r, d),
           mem[r] = NoOp, d \in Creates \/ up,
           UNCHANGED <<pending, inflight, moot, up, closed, crashes>>,
           probing' \subseteq probing
    PROVE  IInv'
  <1>. USE DEF IInv
  <1>0. call[r] = "none" /\ r \notin pending /\ Untouched(r) /\ r \notin moot
    BY OpOrNoOp DEF Admit, Agrees, CallAgrees, PendingAgrees, RowTells, TypeOK, NoOp
  <1>1. CASE d \in Creates
    <2>. DEFINE op == Ended(d, "succeeded")
    <2>1. op \in Ops /\ op.digest = d /\ op.state = "succeeded" /\ op # NoOp
          /\ op.stage = "confirmed"
      BY EndedIsOp DEF Final, States, Ended
    <2>. HIDE DEF op
    <2>2. row' = [row EXCEPT ![r] = op] /\ mem' = mem /\ call' = call
          /\ effects' = [effects EXCEPT ![r][d] = @ + 1]
      BY <1>1 DEF Admit, op
    <2>3. effects' \in [Requests -> [Digests -> Nat]]
      BY <2>2 DEF TypeOK
    <2>4. row' \in [Requests -> Ops \cup {NoOp}]
      BY <2>1, <2>2 DEF TypeOK
    <2>5. TypeOK'
      BY <2>2, <2>3, <2>4 DEF TypeOK
    <2>6. ASSUME NEW q \in Requests PROVE Agrees(q)'
      <3>1. CASE q # r
        BY <3>1, <2>2, Frame DEF TypeOK
      <3>2. CASE q = r
        <4>1. row'[r] = op /\ call'[r] = "none" /\ r \notin pending'
          BY <2>2, <1>0 DEF TypeOK
        <4>2. effects'[r][d] = 1
              /\ \A e \in Digests : e # d => effects'[r][e] = 0
          BY <2>2, <1>0 DEF Untouched, NoEffects, TypeOK
        <4>3. \A e \in Digests : <<r, e>> \notin inflight'
          BY <1>0 DEF Untouched, Quiet
        <4>4. IssuedOnce(r)'
          BY <4>1, <4>2, <4>3, <2>1 DEF IssuedOnce
        <4>5. RowTells(r)'
          BY <4>1, <4>2, <4>3, <2>1, <1>0 DEF RowTells, Done, Quiet
        <4>. QED BY <4>1, <4>4, <4>5, <3>2 DEF Agrees, CallAgrees, PendingAgrees
      <3>. QED BY <3>1, <3>2
    <2>. QED BY <2>5, <2>6
  <1>2. CASE d \notin Creates
    <2>. DEFINE op == [digest |-> d, state |-> "pending", stage |-> "prepared"]
    <2>1. op \in Ops /\ op.digest = d /\ op.state = "pending"
          /\ op.stage = "prepared"
      BY DEF Ops, States
    <2>2. row' = [row EXCEPT ![r] = op] /\ mem' = [mem EXCEPT ![r] = op]
          /\ call' = [call EXCEPT ![r] = "spawned"] /\ effects' = effects
      BY <1>2 DEF Admit
    <2>. HIDE DEF op
    <2>3. TypeOK'
      BY <2>1, <2>2 DEF TypeOK
    <2>4. ASSUME NEW q \in Requests PROVE Agrees(q)'
      <3>1. CASE q # r
        BY <3>1, <2>2, Frame DEF TypeOK
      <3>2. CASE q = r
        <4>1. row'[r] = op /\ mem'[r] = op /\ call'[r] = "spawned"
              /\ r \notin pending'
          BY <2>2, <1>0 DEF TypeOK
        <4>2. Untouched(r)'
          BY <2>2, <1>0 DEF Untouched, Quiet
        <4>. QED BY <4>1, <4>2, <3>2, <2>1, <1>0, <1>2
               DEF Agrees, CallAgrees, RowTells, PendingAgrees
      <3>. QED BY <3>1, <3>2
    <2>. QED BY <2>3, <2>4
  <1>. QED BY <1>1, <1>2

(* The goroutine of a receipt (api.go 546-592).                            *)
LEMMA DispatchKeeps ==
    ASSUME IInv, NEW r \in Requests, Dispatch(r)
    PROVE  IInv'
  <1>. USE DEF IInv
  <1>. DEFINE op == [mem[r] EXCEPT !.stage = "dispatched"]
  <1>0. /\ row[r].state = "pending" /\ mem[r].state = "pending"
        /\ mem[r].digest = row[r].digest /\ row[r].stage = "prepared"
        /\ up /\ r \notin pending /\ Untouched(r) /\ r \notin moot
    BY DEF Dispatch, Agrees, CallAgrees, RowTells
  <1>1. mem[r] \in Ops /\ row[r] \in Ops
    BY <1>0, OpOrNoOp DEF TypeOK, States
  <1>2. op \in Ops /\ op.digest = row[r].digest /\ op.state = "pending"
        /\ op.stage = "dispatched"
    BY <1>0, <1>1 DEF Ops
  <1>3. mem' = [mem EXCEPT ![r] = op] /\ mem'[r] = op
    BY DEF Dispatch, TypeOK
  <1>. HIDE DEF op
  <1>4. PICK saved \in Saved :
          /\ row' = [row EXCEPT ![r] = IF saved THEN op ELSE @]
          /\ call' = [call EXCEPT ![r] = IF saved THEN "mutating" ELSE "unsaved"]
    BY <1>3 DEF Dispatch
  <1>5. UNCHANGED <<probing, pending, inflight, effects, moot, up, closed, crashes>>
    BY DEF Dispatch
  <1>6. TypeOK'
    BY <1>2, <1>3, <1>4, <1>5 DEF TypeOK
  <1>7. ASSUME NEW q \in Requests PROVE Agrees(q)'
    <2>1. CASE q # r
      BY <2>1, <1>3, <1>4, <1>5, Frame DEF TypeOK
    <2>2. CASE q = r
      <3>1. Untouched(r)' /\ r \notin moot'
        BY <1>0, <1>5 DEF Untouched, Quiet
      <3>2. CASE saved
        <4>1. row'[r] = op /\ call'[r] = "mutating"
          BY <3>2, <1>4 DEF TypeOK
        <4>. QED BY <4>1, <3>1, <2>2, <1>0, <1>2, <1>3, <1>5
               DEF Agrees, CallAgrees, RowTells, PendingAgrees
      <3>3. CASE ~saved
        <4>1. row'[r] = row[r] /\ call'[r] = "unsaved"
          BY <3>3, <1>4 DEF TypeOK
        <4>. QED BY <4>1, <3>1, <2>2, <1>0, <1>2, <1>3, <1>5
               DEF Agrees, CallAgrees, RowTells, PendingAgrees
      <3>. QED BY <3>2, <3>3
    <2>. QED BY <2>1, <2>2
  <1>. QED BY <1>6, <1>7

\* mutate rejects the call, finds nothing to do or issues the effect.
LEMMA MutateKeeps ==
    ASSUME IInv, NEW r \in Requests, Mutate(r)
    PROVE  IInv'
  <1>. USE DEF IInv
  <1>. DEFINE d == row[r].digest
  <1>0. /\ row[r].state = "pending" /\ mem[r].state = "pending"
        /\ mem[r].digest = d /\ row[r].stage = "dispatched"
        /\ up /\ r \notin pending /\ Untouched(r) /\ r \notin moot
    BY DEF Mutate, Agrees, CallAgrees
  <1>1. row[r] \in Ops /\ d \in Digests /\ row[r] # NoOp
    BY <1>0, OpOrNoOp DEF TypeOK, States
  <1>. HIDE DEF d
  <1>2. UNCHANGED <<row, mem, probing, pending, effects, up, closed, crashes>>
    BY DEF Mutate
  <1>3. ASSUME NEW c \in {"refused", "moot"}, call' = [call EXCEPT ![r] = c],
               inflight' = inflight,
               moot' = IF c = "moot" THEN moot \cup {r} ELSE moot
        PROVE  IInv'
    <2>1. TypeOK'
      BY <1>2, <1>3 DEF TypeOK
    <2>2. ASSUME NEW q \in Requests PROVE Agrees(q)'
      <3>1. CASE q # r
        BY <3>1, <1>2, <1>3, Frame DEF TypeOK
      <3>2. CASE q = r
        <4>1. call'[r] = c /\ Untouched(r)' /\ (r \in moot' <=> c = "moot")
          BY <1>0, <1>2, <1>3 DEF TypeOK, Untouched, Quiet
        <4>2. c = "moot" => Done(r)'
          BY <4>1 DEF Untouched, Done
        <4>. QED BY <4>1, <4>2, <3>2, <1>0, <1>2
               DEF Agrees, CallAgrees, RowTells, PendingAgrees, d
      <3>. QED BY <3>1, <3>2
    <2>. QED BY <2>1, <2>2
  <1>4. CASE /\ call' = [call EXCEPT ![r] = "issued"]
             /\ inflight' = inflight \cup {<<r, d>>} /\ moot' = moot
    <2>1. TypeOK'
      BY <1>1, <1>2, <1>4 DEF TypeOK
    <2>2. ASSUME NEW q \in Requests PROVE Agrees(q)'
      <3>1. CASE q # r
        BY <3>1, <1>2, <1>4, Frame DEF TypeOK
      <3>2. CASE q = r
        <4>1. call'[r] = "issued"
          BY <1>4 DEF TypeOK
        <4>2. IssuedOnce(r)'
          BY <1>0, <1>1, <1>2, <1>4 DEF IssuedOnce, Untouched, Quiet, NoEffects, d
        <4>3. <<r, row'[r].digest>> \in inflight'
          BY <1>2, <1>4 DEF d
        <4>. QED BY <4>1, <4>2, <4>3, <3>2, <1>0, <1>2, <1>4
               DEF Agrees, CallAgrees, RowTells, PendingAgrees, d
      <3>. QED BY <3>1, <3>2
    <2>. QED BY <2>1, <2>2
  <1>5. \/ \E c \in {"refused", "moot"} :
             /\ call' = [call EXCEPT ![r] = c] /\ inflight' = inflight
             /\ moot' = IF c = "moot" THEN moot \cup {r} ELSE moot
        \/ /\ call' = [call EXCEPT ![r] = "issued"]
           /\ inflight' = inflight \cup {<<r, d>>} /\ moot' = moot
    BY <1>0 DEF Mutate, d
  <1>. QED BY <1>3, <1>4, <1>5

(* An effect takes place (operations.go 672, backend.Action).              *)
LEMMA LandKeeps ==
    ASSUME IInv, NEW r \in Requests, NEW d \in Digests, Land(r, d)
    PROVE  IInv'
  <1>. USE DEF IInv
  <1>1. UNCHANGED <<row, mem, call, probing, pending, moot, up, closed, crashes>>
        /\ inflight' = inflight \ {<<r, d>>}
        /\ effects' = [effects EXCEPT ![r][d] = @ + 1]
    BY DEF Land
  <1>2. IssuedOnce(r) /\ d = row[r].digest /\ effects[r][d] = 0
    BY DEF Land, Agrees, Untouched, Quiet, IssuedOnce
  <1>3. effects' \in [Requests -> [Digests -> Nat]]
    BY <1>1 DEF TypeOK
  <1>4. TypeOK'
    BY <1>1, <1>3 DEF TypeOK
  <1>5. ASSUME NEW q \in Requests PROVE Agrees(q)'
    <2>1. CASE q # r
      BY <2>1, <1>1, Frame DEF TypeOK
    <2>2. CASE q = r
      <3>1. effects'[r][d] = 1 /\ <<r, d>> \notin inflight'
            /\ \A e \in Digests \ {d} : effects'[r][e] = effects[r][e]
        BY <1>1, <1>2 DEF TypeOK
      <3>2. IssuedOnce(r)'
        BY <3>1, <1>1, <1>2 DEF IssuedOnce
      <3>3. ~Untouched(r) /\ ~Done(r) /\ ~Quiet(r)
        BY DEF Untouched, Done, Quiet, Land
      <3>4. RowTells(r)'
        BY <3>1, <3>3, <1>1, <1>2 DEF Agrees, RowTells
      <3>5. CallAgrees(r)'
        BY <3>1, <3>3, <1>1, <1>2 DEF Agrees, CallAgrees
      <3>6. PendingAgrees(r)'
        BY <1>1 DEF Agrees, PendingAgrees
      <3>. QED BY <3>2, <3>4, <3>5, <3>6, <2>2 DEF Agrees
    <2>. QED BY <2>1, <2>2
  <1>. QED BY <1>4, <1>5

\* The backend call returns.
LEMMA ReturnKeeps ==
    ASSUME IInv, NEW r \in Requests, Return(r)
    PROVE  IInv'
  <1>. USE DEF IInv
  <1>1. UNCHANGED <<row, mem, probing, pending, inflight, effects, moot, up, closed,
                    crashes>>
    BY DEF Return
  <1>0. /\ call[r] = "issued" /\ mem[r].digest = row[r].digest
        /\ row[r].state = "pending" /\ row[r].stage = "dispatched"
        /\ r \notin moot
        /\ effects[r][row[r].digest] = 1 \/ <<r, row[r].digest>> \in inflight
    BY DEF Return, Agrees, CallAgrees
  <1>2. PICK c \in {"ok", "late", "unclear"} :
          /\ call' = [call EXCEPT ![r] = c]
          /\ c # "unclear" => <<r, row[r].digest>> \notin inflight
          /\ c = "late" => row[r].digest \in Followed
    BY <1>0 DEF Return
  <1>3. TypeOK'
    BY <1>1, <1>2 DEF TypeOK
  <1>4. ASSUME NEW q \in Requests PROVE Agrees(q)'
    <2>1. CASE q # r
      BY <2>1, <1>1, <1>2, Frame DEF TypeOK
    <2>2. CASE q = r
      <3>1. call'[r] = c
        BY <1>2 DEF TypeOK
      <3>2. c # "unclear" => Done(r)
        <4>1. IssuedOnce(r) \/ Quiet(r)
          BY DEF Agrees, Untouched
        <4>2. c # "unclear" => Quiet(r)
          BY <4>1, <1>2 DEF IssuedOnce, Quiet
        <4>. QED BY <4>2, <1>0, <1>2 DEF Done
      <3>3. /\ Untouched(r)' <=> Untouched(r)
            /\ Done(r)' <=> Done(r)
            /\ Quiet(r)' <=> Quiet(r)
            /\ IssuedOnce(r)' <=> IssuedOnce(r)
        BY <1>1 DEF Untouched, Done, Quiet, IssuedOnce
      <3>4. CallAgrees(r)'
        BY <3>1, <3>2, <3>3, <1>0, <1>1, <1>2 DEF Agrees, CallAgrees
      <3>. QED BY <3>3, <3>4, <2>2, <1>1 DEF Agrees, RowTells, PendingAgrees
    <2>. QED BY <2>1, <2>2
  <1>. QED BY <1>3, <1>4

\* The outcome is written.
LEMMA ConfirmKeeps ==
    ASSUME IInv, NEW r \in Requests, Confirm(r)
    PROVE  IInv'
  <1>. USE DEF IInv
  <1>. DEFINE d == mem[r].digest
  <1>0. /\ row[r].state = "pending" /\ mem[r].state = "pending"
        /\ d = row[r].digest /\ up /\ r \notin pending
    BY DEF Confirm, Agrees, CallAgrees
  <1>1. d \in Digests
    BY <1>0, OpOrNoOp DEF TypeOK, States
  <1>2. PICK saved \in Saved, state \in Outcome(r) :
          /\ row' = [row EXCEPT ![r] = IF saved THEN Ended(d, state) ELSE @]
          /\ closed' = (closed \/ ~saved)
    BY DEF Confirm
  <1>3. /\ mem' = [mem EXCEPT ![r] = NoOp]
        /\ call' = [call EXCEPT ![r] = "none"]
        /\ UNCHANGED <<probing, pending, inflight, effects, moot, up, crashes>>
    BY DEF Confirm
  <1>4. /\ state \in Final
        /\ state = "succeeded" => call[r] \in {"ok", "moot"}
        /\ state = "failed" /\ d \in Native => call[r] \in {"refused", "late"}
    BY DEF Confirm, Outcome, Final, States
  <1>5. Ended(d, state) \in Ops /\ Ended(d, state).digest = d
        /\ Ended(d, state).state = state /\ Ended(d, state) # NoOp
        /\ Ended(d, state).stage \in {"confirmed", "unknown"}
    BY <1>1, <1>4, EndedIsOp
  <1>. HIDE DEF d
  <1>6. closed' \in BOOLEAN
    BY <1>2
  <1>7. TypeOK'
    BY <1>2, <1>3, <1>5, <1>6 DEF TypeOK
  <1>8. ASSUME NEW q \in Requests PROVE Agrees(q)'
    <2>1. CASE q # r
      BY <2>1, <1>2, <1>3, Frame DEF TypeOK
    <2>2. CASE q = r
      <3>1. /\ call'[r] = "none" /\ (Untouched(r) => Untouched(r)')
            /\ Quiet(r)' <=> Quiet(r)
            /\ r \in moot' <=> r \in moot
        BY <1>3 DEF TypeOK, Untouched, Quiet
      <3>2. CallAgrees(r)' /\ PendingAgrees(r)'
        BY <3>1, <1>0, <1>3 DEF CallAgrees, PendingAgrees
      <3>3. CASE ~saved
        <4>1. row'[r] = row[r]
          BY <3>3, <1>2 DEF TypeOK
        <4>2. RowTells(r)'
          BY <4>1, <3>1, <1>3 DEF Agrees, RowTells, Done
        <4>. QED BY <4>1, <4>2, <3>1, <3>2, <2>2, <1>3 DEF Agrees, IssuedOnce
      <3>4. CASE saved
        <4>1. row'[r] = Ended(d, state)
          BY <3>4, <1>2 DEF TypeOK
        <4>2. state = "succeeded" => Done(r)'
          <5>1. row'[r].digest = row[r].digest
            BY <4>1, <1>0, <1>5
          <5>2. state = "succeeded" => Done(r)
            BY <1>4 DEF Agrees, CallAgrees
          <5>. QED BY <5>1, <5>2, <3>1, <1>3 DEF Done
        <4>3. state = "failed" /\ d \in Native =>
                 Quiet(r)' /\ (d \notin Followed => effects'[r] = NoEffects)
          BY <3>1, <1>0, <1>3, <1>4 DEF Agrees, CallAgrees, Done, Untouched
        <4>4. RowTells(r)'
          BY <4>1, <4>2, <4>3, <3>1, <1>3, <1>4, <1>5
             DEF Agrees, RowTells, Final, States
        <4>5. Untouched(r)' \/ IssuedOnce(r)'
          BY <4>1, <3>1, <1>0, <1>3, <1>5 DEF Agrees, IssuedOnce
        <4>. QED BY <4>4, <4>5, <3>2, <2>2 DEF Agrees
      <3>. QED BY <3>3, <3>4
    <2>. QED BY <2>1, <2>2
  <1>. QED BY <1>7, <1>8

(* Retention (retention.go 252-283).                                       *)
LEMMA ForgetKeeps ==
    ASSUME IInv, NEW r \in Requests, Forget(r)
    PROVE  IInv'
  <1>. USE DEF IInv
  <1>0. call[r] = "none" /\ r \notin pending
    BY DEF Forget, Agrees, CallAgrees, PendingAgrees, Final, States
  <1>1. /\ row' = [row EXCEPT ![r] = NoOp] /\ mem' = [mem EXCEPT ![r] = NoOp]
        /\ effects' = [effects EXCEPT ![r] = NoEffects]
        /\ moot' = moot \ {r}
        /\ UNCHANGED <<call, probing, pending, inflight, up, closed, crashes>>
    BY DEF Forget
  <1>2. NoEffects \in [Digests -> Nat]
    BY DEF NoEffects
  <1>3. TypeOK'
    BY <1>1, <1>2 DEF TypeOK
  <1>4. ASSUME NEW q \in Requests PROVE Agrees(q)'
    <2>1. CASE q # r
      BY <2>1, <1>1, Frame DEF TypeOK
    <2>2. CASE q = r
      <3>1. row'[r] = NoOp /\ effects'[r] = NoEffects
        BY <1>1 DEF TypeOK
      <3>2. Untouched(r)'
        BY <3>1, <1>1 DEF Untouched, Quiet, Forget
      <3>. QED BY <3>1, <3>2, <2>2, <1>0, <1>1
             DEF Agrees, CallAgrees, RowTells, PendingAgrees, NoOp
    <2>. QED BY <2>1, <2>2
  <1>. QED BY <1>3, <1>4

\* Settled receipts leave the memory.
LEMMA EvictKeeps ==
    ASSUME IInv, Evict
    PROVE  IInv'
  <1>. USE DEF IInv
  <1>1. /\ mem' = [r \in Requests |-> IF mem[r].state = "pending" THEN mem[r]
                                                                 ELSE NoOp]
        /\ UNCHANGED <<row, call, probing, pending, inflight, effects, moot, up,
                       closed, crashes>>
    BY DEF Evict
  <1>2. TypeOK'
    BY <1>1 DEF TypeOK
  <1>3. ASSUME NEW q \in Requests PROVE Agrees(q)'
    <2>1. mem[q].state = "pending" => mem'[q] = mem[q]
      BY <1>1
    <2>2. CallAgrees(q)' /\ PendingAgrees(q)'
      BY <2>1, <1>1 DEF Agrees, CallAgrees, PendingAgrees, Untouched, Done, Quiet
    <2>. QED BY <2>2, <1>1 DEF Agrees, RowTells, Untouched, Done, Quiet, IssuedOnce
  <1>. QED BY <1>2, <1>3

(* The end of the service (server.go 239-254, or a crash).                 *)
LEMMA DownKeeps ==
    ASSUME IInv, Down, crashes' \in 0 .. Crashes
    PROVE  IInv'
  <1>. USE DEF IInv
  <1>1. TypeOK'
    BY DEF Down, TypeOK
  <1>2. ASSUME NEW q \in Requests PROVE Agrees(q)'
    BY DEF Down, Agrees, CallAgrees, PendingAgrees, RowTells, Untouched,
           Done, Quiet, IssuedOnce
  <1>. QED BY <1>1, <1>2

(* Recovery declares only receipts that were dispatched (server.go         *)
(* 102-123).                                                               *)
LEMMA DeclaredTells ==
    ASSUME IInv, NEW S \in SUBSET Interrupted, row' = Declared(S),
           UNCHANGED <<effects, inflight, moot>>, NEW q \in Requests
    PROVE  /\ row'[q] \in Ops \cup {NoOp}
           /\ q \notin S => row'[q] = row[q]
           /\ q \in S => row'[q].state = "uncertain"
           /\ RowTells(q)' /\ (Untouched(q)' \/ IssuedOnce(q)')
  <1>. USE DEF IInv
  <1>1. row[q] \in Ops \cup {NoOp} /\ (Untouched(q) => Untouched(q)')
        /\ (Quiet(q)' <=> Quiet(q))
    BY DEF TypeOK, Untouched, Quiet
  <1>2. CASE q \in S
    <2>1. row'[q] = Ended(row[q].digest, "uncertain") /\ row[q].state = "pending"
      BY <1>2 DEF Declared, Interrupted
    <2>2. row[q].digest \in Digests
      BY <2>1, <1>1, OpOrNoOp DEF States
    <2>3. row'[q] \in Ops /\ row'[q].digest = row[q].digest
          /\ row'[q].state = "uncertain" /\ row'[q] # NoOp
          /\ row'[q].stage \in {"confirmed", "unknown"}
      BY <2>1, <2>2, EndedIsOp DEF Final, States
    <2>. QED BY <2>3, <1>1, <1>2 DEF Agrees, RowTells, IssuedOnce
  <1>3. CASE q \notin S
    <2>1. row'[q] = row[q]
      BY <1>3 DEF Declared
    <2>. QED BY <2>1, <1>1, <1>3 DEF Agrees, RowTells, Done, IssuedOnce
  <1>. QED BY <1>2, <1>3

\* A restart reads the rows and decides what to resume.
LEMMA RestartKeeps ==
    ASSUME IInv, Restart
    PROVE  IInv'
  <1>. USE DEF IInv
  <1>0. pending = {} /\ \A q \in Requests : call[q] = "none"
    BY DEF Restart, Agrees, CallAgrees, PendingAgrees, TypeOK
  <1>1. row' = Declared(Interrupted) /\ UNCHANGED <<call, effects, inflight, moot>>
    BY DEF Restart
  <1>2. row' \in [Requests -> Ops \cup {NoOp}]
    <2>1. \A q \in Requests : row'[q] \in Ops \cup {NoOp}
      BY <1>1, DeclaredTells
    <2>. QED BY <2>1, <1>1 DEF Declared
  <1>3. mem' \in [Requests -> Ops \cup {NoOp}]
    BY <1>2 DEF Restart
  <1>4. TypeOK'
    BY <1>2, <1>3 DEF TypeOK, Restart
  <1>5. ASSUME NEW q \in Requests PROVE Agrees(q)'
    <2>1. RowTells(q)' /\ (Untouched(q)' \/ IssuedOnce(q)')
      BY <1>1, DeclaredTells
    <2>2. CallAgrees(q)'
      BY <1>0, <1>1 DEF CallAgrees
    <2>3. ASSUME q \in pending' PROVE PendingAgrees(q)'
      <3>1. row[q].state = "pending" /\ row[q].stage = "prepared"
        BY <2>3 DEF Restart, Interrupted
      <3>2. row'[q] = row[q]
        BY <3>1, <1>1, DeclaredTells DEF Interrupted
      <3>3. mem'[q] = row'[q]
        BY <3>1 DEF Restart
      <3>. QED BY <3>1, <3>2, <3>3 DEF PendingAgrees, Restart
    <2>. QED BY <2>1, <2>2, <2>3 DEF Agrees, PendingAgrees
  <1>. QED BY <1>4, <1>5

\* A restart that fails has declared some interrupted receipts.
LEMMA RestartFailsKeeps ==
    ASSUME IInv, RestartFails
    PROVE  IInv'
  <1>. USE DEF IInv
  <1>0. pending = {} /\ \A q \in Requests : call[q] = "none"
    BY DEF RestartFails, Agrees, CallAgrees, PendingAgrees, TypeOK
  <1>1. PICK S \in SUBSET Interrupted : row' = Declared(S)
    BY DEF RestartFails
  <1>2. UNCHANGED <<mem, call, probing, pending, inflight, effects, moot, up, closed,
                    crashes>>
    BY DEF RestartFails
  <1>3. TypeOK'
    <2>1. \A q \in Requests : row'[q] \in Ops \cup {NoOp}
      BY <1>1, <1>2, DeclaredTells
    <2>2. row' \in [Requests -> Ops \cup {NoOp}]
      BY <2>1, <1>1 DEF Declared
    <2>. QED BY <2>2, <1>2 DEF TypeOK
  <1>4. ASSUME NEW q \in Requests PROVE Agrees(q)'
    <2>1. RowTells(q)' /\ (Untouched(q)' \/ IssuedOnce(q)')
      BY <1>1, <1>2, DeclaredTells
    <2>. QED BY <2>1, <1>0, <1>2 DEF Agrees, CallAgrees, PendingAgrees
  <1>. QED BY <1>3, <1>4

(* Resumption (dispatch.go 15-51).                                         *)
LEMMA ResumeKeeps ==
    ASSUME IInv, NEW S \in SUBSET Requests, NEW L \in SUBSET Requests,
           Resume(S, L)
    PROVE  IInv'
  <1>. USE DEF IInv
  <1>. DEFINE F == pending \ S
              failed == [r \in Requests |-> Ended(mem[r].digest, "failed")]
  <1>1. /\ up /\ S \subseteq pending /\ L \subseteq F
        /\ call' = [r \in Requests |-> IF r \in S THEN "spawned" ELSE call[r]]
        /\ mem' = [r \in Requests |-> IF r \in F THEN failed[r] ELSE mem[r]]
        /\ row' = [r \in Requests |-> IF r \in F \ L THEN failed[r] ELSE row[r]]
        /\ closed' = (closed \/ L # {})
        /\ pending' = {}
        /\ UNCHANGED <<probing, inflight, effects, moot, up, crashes>>
    BY DEF Resume
  <1>2. ASSUME NEW q \in pending
        PROVE  /\ q \in Requests /\ mem[q] = row[q] /\ call[q] = "none"
               /\ row[q].state = "pending" /\ row[q].stage = "prepared"
               /\ Untouched(q) /\ Untouched(q)' /\ row[q].digest \in Digests
               /\ q \notin moot /\ q \notin moot'
    <2>1. q \in Requests
      BY DEF TypeOK
    <2>2. mem[q] = row[q] /\ call[q] = "none" /\ row[q].state = "pending"
          /\ row[q].stage = "prepared" /\ Untouched(q) /\ q \notin moot
      BY <2>1 DEF Agrees, PendingAgrees, CallAgrees, RowTells
    <2>3. row[q].digest \in Digests
      BY <2>1, <2>2, OpOrNoOp DEF TypeOK, States
    <2>. QED BY <2>1, <2>2, <2>3, <1>1 DEF Untouched, Quiet
  <1>3. ASSUME NEW q \in pending
        PROVE  /\ failed[q] \in Ops /\ failed[q].digest = row[q].digest
               /\ failed[q].state = "failed"
               /\ failed[q].stage \in {"confirmed", "unknown"}
    BY <1>2, EndedIsOp DEF Final, States
  <1>. HIDE DEF failed
  <1>4. TypeOK'
    <2>1. closed' \in BOOLEAN
      BY <1>1
    <2>2. row' \in [Requests -> Ops \cup {NoOp}]
      BY <1>1, <1>3 DEF TypeOK
    <2>3. mem' \in [Requests -> Ops \cup {NoOp}]
      BY <1>1, <1>3 DEF TypeOK
    <2>. QED BY <2>1, <2>2, <2>3, <1>1 DEF TypeOK
  <1>5. ASSUME NEW q \in Requests PROVE Agrees(q)'
    <2>1. CASE q \notin pending
      <3>1. row'[q] = row[q] /\ mem'[q] = mem[q] /\ call'[q] = call[q]
        BY <2>1, <1>1
      <3>. QED BY <3>1, <2>1, <1>1, Frame
    <2>2. CASE q \in S
      <3>1. row'[q] = row[q] /\ mem'[q] = mem[q] /\ call'[q] = "spawned"
        BY <2>2, <1>1
      <3>. QED BY <3>1, <2>2, <1>1, <1>2
             DEF Agrees, CallAgrees, RowTells, PendingAgrees
    <2>3. CASE q \in F
      <3>1. call'[q] = "none" /\ row'[q] \in {row[q], failed[q]}
        BY <2>3, <1>1, <1>2
      <3>. QED BY <3>1, <2>3, <1>1, <1>2, <1>3
             DEF Agrees, CallAgrees, RowTells, PendingAgrees, Untouched
    <2>. QED BY <2>1, <2>2, <2>3
  <1>. QED BY <1>4, <1>5

(* The invariant is inductive: every action of the service, the backend    *)
(* and retention keeps it.                                                 *)
LEMMA NextIInv == IInv /\ [Next]_vars => IInv'
  <1>. SUFFICES ASSUME IInv, [Next]_vars PROVE IInv'
    OBVIOUS
  <1>1. ASSUME NEW r \in Requests, NEW d \in Digests, Accept(r, d) PROVE IInv'
    BY <1>1, AdmitKeeps DEF Accept
  <1>2. ASSUME NEW r \in Requests, NEW d \in Digests, Probe(r, d) PROVE IInv'
    <2>1. TypeOK'
      BY <1>2 DEF Probe, IInv, TypeOK
    <2>2. ASSUME NEW q \in Requests PROVE Agrees(q)'
      BY <1>2, Frame DEF Probe, IInv
    <2>. QED BY <2>1, <2>2 DEF IInv
  <1>3. ASSUME NEW r \in Requests, NEW d \in Digests, NixAccept(r, d) PROVE IInv'
    <2>1. d \in Creates
      BY <1>3 DEF NixAccept, IInv, TypeOK, Creates
    <2>. QED BY <1>3, <2>1, AdmitKeeps DEF NixAccept
  <1>4. ASSUME NEW r \in Requests, NEW d \in Digests, NixDecline(r, d) PROVE IInv'
    <2>1. TypeOK'
      BY <1>4 DEF NixDecline, IInv, TypeOK
    <2>2. ASSUME NEW q \in Requests PROVE Agrees(q)'
      BY <1>4, Frame DEF NixDecline, IInv
    <2>. QED BY <2>1, <2>2 DEF IInv
  <1>5. CASE Close
    <2>1. TypeOK'
      BY <1>5 DEF Close, IInv, TypeOK
    <2>2. ASSUME NEW q \in Requests PROVE Agrees(q)'
      BY <1>5, Frame DEF Close, IInv
    <2>. QED BY <2>1, <2>2 DEF IInv
  <1>6. CASE Exit
    BY <1>6, DownKeeps DEF Exit, IInv, TypeOK
  <1>7. CASE Crash
    <2>1. crashes' \in 0 .. Crashes
      BY <1>7, ReceiptAssumption DEF Crash, IInv, TypeOK
    <2>. QED BY <1>7, <2>1, DownKeeps DEF Crash
  <1>8. CASE UNCHANGED vars
    <2>1. TypeOK'
      BY <1>8 DEF vars, IInv, TypeOK
    <2>2. ASSUME NEW q \in Requests PROVE Agrees(q)'
      BY <1>8, Frame DEF vars, IInv
    <2>. QED BY <2>1, <2>2 DEF IInv
  <1>. QED BY <1>1, <1>2, <1>3, <1>4, <1>5, <1>6, <1>7, <1>8, DispatchKeeps,
              MutateKeeps, LandKeeps, ReturnKeeps, ConfirmKeeps, ForgetKeeps,
              EvictKeeps, RestartKeeps, RestartFailsKeeps, ResumeKeeps
         DEF Next

(* The database, the memory, the goroutines and the effects agree in every *)
(* reachable state (api.go, dispatch.go, server.go New, retention.go).     *)
THEOREM Invariant == Spec => []IInv
  BY InitIInv, NextIInv, PTL DEF Spec

(* A request_id has one effect at most, and only the one it was admitted   *)
(* for (api.go accept and dispatchOperation).                              *)
THEOREM OneEffect == Spec => []AtMostOnce
  <1>1. ASSUME IInv PROVE AtMostOnce
    <2>. SUFFICES ASSUME NEW r \in Requests, NEW d \in Digests
                  PROVE  /\ effects[r][d] \in {0, 1}
                         /\ effects[r][d] = 1 => row[r].digest = d
      BY DEF AtMostOnce
    <2>1. CASE Untouched(r)
      BY <2>1 DEF Untouched, NoEffects
    <2>2. CASE IssuedOnce(r)
      <3>1. effects[r][d] \in {0, 1}
        BY <2>2 DEF IssuedOnce
      <3>2. d # row[r].digest => effects[r][d] = 0
        BY <2>2 DEF IssuedOnce
      <3>. QED BY <3>1, <3>2
    <2>. QED BY <2>1, <2>2, <1>1 DEF IInv, Agrees
  <1>. QED BY <1>1, Invariant, PTL

(* What a receipt reports is true (api.go 577-583).                        *)
THEOREM Truthful == Spec => []ReceiptIsTrue
  <1>1. ASSUME IInv PROVE ReceiptIsTrue
    BY <1>1 DEF IInv, ReceiptIsTrue, Agrees, RowTells
  <1>. QED BY <1>1, Invariant, PTL

(* The outcome of a stored receipt never changes (repository.go 144-147    *)
(* and 297-308, retention.go 252-254).                                     *)
THEOREM FinalOutcome == Spec => ReceiptIsFinal
  <1>1. ASSUME IInv, [Next]_vars, NEW r \in Requests, row[r].state \in Final
        PROVE  row'[r] \in {row[r], NoOp}
    <2>0. /\ row \in [Requests -> Ops \cup {NoOp}]
          /\ row[r] # NoOp /\ call[r] = "none" /\ r \notin pending
          /\ r \notin Interrupted
      <3>1. row \in [Requests -> Ops \cup {NoOp}] /\ Agrees(r)
        BY <1>1 DEF IInv, TypeOK
      <3>2. row[r] # NoOp /\ row[r].state # "pending"
        BY <1>1 DEF Final, States, NoOp
      <3>. QED BY <3>1, <3>2 DEF Agrees, CallAgrees, PendingAgrees, Interrupted
    <2>1. ASSUME NEW q \in Requests, NEW d \in Digests,
                 Accept(q, d) \/ NixAccept(q, d)
          PROVE  row'[r] = row[r]
      BY <2>0, <2>1 DEF Accept, NixAccept, Admit
    <2>2. ASSUME NEW q \in Requests, Dispatch(q) \/ Confirm(q) PROVE row'[r] = row[r]
      BY <2>0, <2>2 DEF Dispatch, Confirm
    <2>3. ASSUME NEW q \in Requests, Forget(q) PROVE row'[r] \in {row[r], NoOp}
      BY <2>0, <2>3 DEF Forget
    <2>4. CASE Restart \/ RestartFails
      BY <2>0, <2>4 DEF Restart, RestartFails, Declared
    <2>5. ASSUME NEW S \in SUBSET Requests, NEW L \in SUBSET Requests, Resume(S, L)
          PROVE  row'[r] = row[r]
      BY <2>0, <2>5 DEF Resume
    <2>. QED
      BY <1>1, <2>1, <2>2, <2>3, <2>4, <2>5
         DEF Next, vars, Probe, NixDecline, Land, Mutate, Return, Close, Exit,
             Crash, Down, Evict
  <1>2. IInv /\ [Next]_vars
          => [\A r \in Requests :
                 row[r].state \in Final => row'[r] \in {row[r], NoOp}]_vars
    BY <1>1
  <1>. QED BY <1>2, Invariant, PTL DEF Spec, ReceiptIsFinal
-----------------------------------------------------------------------------
(* The bodies that hold the intents of operations, command specifications  *)
(* and stdin packets (BodyStore), for every set of writers and contents,   *)
(* with contents that are stored again and again: a row finds the body it  *)
(* refers to, unless it was committed to an orphan that had grown old.     *)

\* A sweep has read every reference to an old body: a body referred to since
\* then is young, and stays so while the sweep lasts.
SweepKnows ==
    sweep # "idle" =>
        \A w \in anchored : Content[w] \in known \/ file[Content[w]] = "young"

\* The inductive invariant.
StoreInv == Inv /\ SweepKnows

\* Every step keeps what is referred to: a writer anchors its reference to a
\* young body or to one that an anchored row refers to, and no sweep removes
\* either.
LEMMA StoreNextInv == StoreInv /\ [StoreNext]_storeVars => StoreInv'
  <1> SUFFICES ASSUME StoreInv, [StoreNext]_storeVars PROVE StoreInv'
    OBVIOUS
  <1> USE BodyAssumption
      DEF StoreInv, Inv, StoreTypeOK, YoungWhileWritten, AnchoredIsThere, SweepKnows
  <1>1. ASSUME NEW w \in Writers, Publish(w) PROVE StoreInv'
    BY <1>1 DEF Publish
  <1>2. ASSUME NEW w \in Writers, Commit(w) PROVE StoreInv'
    BY <1>2 DEF Commit, Anchors
  <1>3. ASSUME NEW w \in Writers, Release(w) PROVE StoreInv'
    BY <1>3 DEF Release
  <1>4. ASSUME NEW b \in Bodies, Age(b) PROVE StoreInv'
    BY <1>4 DEF Age
  <1>5. ASSUME NEW b \in Bodies, SweepEntry(b) PROVE StoreInv'
    <2>1. ASSUME NEW w \in anchored PROVE file'[Content[w]] = file[Content[w]]
      BY <1>5 DEF SweepEntry
    <2> QED BY <1>5, <2>1 DEF SweepEntry
  <1>6. CASE SweepRefs
    BY <1>6 DEF SweepRefs, Referred
  <1>7. CASE SweepList
    BY <1>7 DEF SweepList
  <1>8. CASE SweepDone \/ SweepFails \/ StoreRestart
    BY <1>8 DEF SweepDone, SweepFails, StoreRestart
  <1>9. CASE UNCHANGED storeVars
    BY <1>9 DEF storeVars
  <1> QED BY <1>1, <1>2, <1>3, <1>4, <1>5, <1>6, <1>7, <1>8, <1>9 DEF StoreNext

\* A body that a row refers to is there, however the sweep and the writers
\* interleave and however often its content is stored, unless the row was
\* committed to an old orphan; and a body is young until its own transaction has
\* ended (repository_retention.go SweepBodies, bodies.go PublishBody).
THEOREM ReferredStays == StoreSpec => []Inv
  <1>1. StoreInit => StoreInv
    BY BodyAssumption DEF StoreInit, StoreInv, Inv, StoreTypeOK, YoungWhileWritten,
       AnchoredIsThere, SweepKnows
  <1>2. StoreInv => Inv
    BY DEF StoreInv
  <1> QED BY <1>1, <1>2, StoreNextInv, PTL DEF StoreSpec
=============================================================================
