----------------------- MODULE RelayBinding_proofs -----------------------
(***************************************************************************)
(* Proofs about RelayBinding, for any number of streams, completers and    *)
(* reservations.                                                           *)
(***************************************************************************)
EXTENDS RelayBinding, TLAPS

(* The helpers of the handlers stay within the types of what they change. *)
LEMMA GotoType ==
  ASSUME TypeOK, NEW s \in Stream, NEW pc \in PC, Goto(s, pc)
  PROVE  op' \in [Stream -> Op]
<1>1. op[s] \in Op
  BY DEF TypeOK
<1>2. [op[s] EXCEPT !.pc = pc] \in Op
  BY <1>1 DEF Op
<1> QED BY <1>2 DEF TypeOK, Goto

(* A handler remembers the claim it made, or that the Broadcast is known. *)
LEMMA OpFieldsType ==
  ASSUME TypeOK, NEW s \in Stream, NEW pc \in PC, NEW n \in Id \union {0}
  PROVE  /\ [op EXCEPT ![s].pc = pc, ![s].id = n] \in [Stream -> Op]
         /\ [op EXCEPT ![s].pc = pc, ![s].known = TRUE] \in [Stream -> Op]
<1>1. op[s] \in Op /\ op \in [Stream -> Op]
  BY DEF TypeOK
<1>2. /\ [op[s] EXCEPT !.pc = pc, !.id = n] \in Op
      /\ [op[s] EXCEPT !.pc = pc, !.known = TRUE] \in Op
  BY <1>1 DEF Op
<1>3. /\ [op EXCEPT ![s].pc = pc, ![s].id = n]
           = [op EXCEPT ![s] = [op[s] EXCEPT !.pc = pc, !.id = n]]
      /\ [op EXCEPT ![s].pc = pc, ![s].known = TRUE]
           = [op EXCEPT ![s] = [op[s] EXCEPT !.pc = pc, !.known = TRUE]]
  BY <1>1
<1> QED BY <1>1, <1>2, <1>3

(* A handler that returns holds nothing. *)
LEMMA NoOpType ==
  /\ NoOp \in Op
  /\ \A s \in Stream : Return(s) /\ TypeOK => op' \in [Stream -> Op]
<1>1. NoOp \in Op
  BY DEF NoOp, Op, PC
<1> QED BY <1>1 DEF Return, TypeOK

(* A stop, force stop or heartbeat failure begins. *)
LEMMA BeginType ==
  ASSUME TypeOK, NEW s \in Stream, NEW k \in {"stop", "force", "heartbeat"},
         Begin(s, k)
  PROVE  op' \in [Stream -> Op]
<1>1. [NoOp EXCEPT !.pc = "stop", !.kind = k, !.own = TRUE] \in Op
  BY DEF NoOp, Op, PC
<1> QED BY <1>1 DEF Begin, TypeOK

(* A status write. *)
LEMMA StatusType ==
  ASSUME TypeOK, NEW s \in Stream, NEW st \in Status, SetStatus(s, st)
  PROVE  status' \in [Stream -> Status]
  BY DEF TypeOK, SetStatus

(* The updates of the claim row. *)
LEMMA ClaimType ==
  ASSUME NEW c \in Claim
  PROVE  /\ NoClaim \in Claim
         /\ [c EXCEPT !.prepared = TRUE] \in Claim
         /\ [c EXCEPT !.dispatched = TRUE] \in Claim
         /\ [c EXCEPT !.stopped = TRUE] \in Claim
         /\ [c EXCEPT !.state = "recovery_required"] \in Claim
         /\ [c EXCEPT !.state = "prepared", !.known = TRUE] \in Claim
         /\ \A k \in BOOLEAN :
              [c EXCEPT !.state = "recovery_required", !.known = k] \in Claim
         /\ ReconciledReserved(c) \in Claim
  BY DEF Claim, NoClaim, ReconciledReserved

(* The runtime row is kept or deleted. *)
LEMMA DropType ==
  ASSUME TypeOK, NEW s \in Stream, DropRuntime(s) \/ KeepRuntime
  PROVE  /\ runtime' \in [Stream -> Id \union {0}]
         /\ retry' \in [Stream -> BOOLEAN]
  BY DEF TypeOK, DropRuntime, KeepRuntime

(* What an Encoder does on a Stop. *)
LEMMA AnswersType ==
  ASSUME TypeOK, NEW s \in Stream, NEW a, StopAnswers(s, a)
  PROVE  /\ broadcast' \in [Id -> {"none", "open", "closed"}]
         /\ sending' \subseteq Stream /\ inflight' \subseteq Stream
  BY DEF TypeOK, StopAnswers

(* Starts preserve the type invariant. *)
LEMMA StartType ==
  ASSUME TypeOK, NEW s \in Stream, StartStep(s)
  PROVE  TypeOK'
<1>1. CASE StartClaim(s)
  <2>1. op' \in [Stream -> Op]
    BY <1>1, NoOpType DEF StartClaim, TypeOK, Op, PC
  <2>2. status' \in [Stream -> Status]
    BY <1>1, StatusType DEF StartClaim, Status
  <2> QED BY <1>1, <2>1, <2>2 DEF StartClaim, TypeOK, external
<1>2. CASE Reserve(s)
  <2>0. issued < MaxClaims => issued + 1 \in Id
    BY RelayAssumption DEF TypeOK, Id
  <2>1. op' \in [Stream -> Op]
    <3>1. CASE issued < MaxClaims /\ \E pc \in {"mark", "converge"} :
                 op' = [op EXCEPT ![s].pc = pc, ![s].id = issued + 1]
      <4>1. PICK pc \in {"mark", "converge"} :
              op' = [op EXCEPT ![s].pc = pc, ![s].id = issued + 1]
        BY <3>1
      <4>2. pc \in PC /\ issued + 1 \in Id \union {0}
        BY <2>0, <3>1 DEF PC
      <4> QED BY <4>1, <4>2, OpFieldsType
    <3>2. CASE Goto(s, "converge")
      BY <3>2, GotoType DEF PC
    <3> QED BY <1>2, <3>1, <3>2 DEF Reserve
  <2>2. issued' \in Id \union {0} /\ claim' \in Claim
    <3>1. issued < MaxClaims =>
            [NoClaim EXCEPT !.stream = s, !.id = issued + 1,
                            !.state = "reserved"] \in Claim
      BY <2>0 DEF Claim, NoClaim
    <3> QED BY <1>2, <2>0, <3>1 DEF Reserve, TypeOK
  <2> QED BY <1>2, <2>1, <2>2 DEF Reserve, TypeOK, external
<1>3. CASE Converge(s)
  <2>1. op' \in [Stream -> Op] /\ status' \in [Stream -> Status]
    BY <1>3, NoOpType, StatusType DEF Converge, Status, TypeOK
  <2> QED BY <1>3, <2>1 DEF Converge, TypeOK, external
<1>4. CASE MarkPossiblyPrepared(s)
  <2>1. op' \in [Stream -> Op] /\ status' \in [Stream -> Status]
    BY <1>4, GotoType, StatusType DEF MarkPossiblyPrepared, Status, PC, TypeOK
  <2>2. claim' \in Claim
    BY <1>4, ClaimType DEF MarkPossiblyPrepared, TypeOK
  <2> QED BY <1>4, <2>1, <2>2 DEF MarkPossiblyPrepared, TypeOK, external
<1>5. CASE ReconcileReserved(s)
  <2>1. op' \in [Stream -> Op]
    BY <1>5, GotoType DEF ReconcileReserved, PC
  <2>2. claim' \in Claim
    BY <1>5, ClaimType DEF ReconcileReserved, TypeOK
  <2> QED BY <1>5, <2>1, <2>2 DEF ReconcileReserved, TypeOK, external
<1>6. CASE Prepare(s)
  <2>1. op' \in [Stream -> Op]
    <3>1. "finalize" \in PC /\ "fence" \in PC /\ 0 \in Id \union {0}
      BY DEF PC
    <3>2. \/ op' = [op EXCEPT ![s].pc = "finalize", ![s].known = TRUE]
          \/ op' = [op EXCEPT ![s].pc = "fence", ![s].known = TRUE]
          \/ Goto(s, "fence")
      BY <1>6 DEF Prepare, Goto
    <3>3. /\ [op EXCEPT ![s].pc = "finalize", ![s].known = TRUE] \in [Stream -> Op]
          /\ [op EXCEPT ![s].pc = "fence", ![s].known = TRUE] \in [Stream -> Op]
      BY <3>1, OpFieldsType
    <3>4. Goto(s, "fence") => op' \in [Stream -> Op]
      BY <3>1, GotoType
    <3> QED BY <3>2, <3>3, <3>4
  <2>2. broadcast' \in [Id -> {"none", "open", "closed"}]
    BY <1>6 DEF Prepare, TypeOK
  <2> QED BY <1>6, <2>1, <2>2 DEF Prepare, TypeOK
<1>7. CASE MarkRecoveryRequired(s)
  <2>1. op' \in [Stream -> Op]
    BY <1>7, GotoType DEF MarkRecoveryRequired, PC
  <2>2. claim' \in Claim
    <3>1. op[s].known \in BOOLEAN
      BY DEF TypeOK, Op
    <3>2. [claim EXCEPT !.state = "recovery_required",
                        !.known = op[s].known] \in Claim
      BY <3>1, ClaimType DEF TypeOK
    <3> QED BY <1>7, <3>2 DEF MarkRecoveryRequired, TypeOK
  <2>3. runtime' \in [Stream -> Id \union {0}] /\ retry' \in [Stream -> BOOLEAN]
    BY <1>7, DropType DEF MarkRecoveryRequired
  <2> QED BY <1>7, <2>1, <2>2, <2>3 DEF MarkRecoveryRequired, TypeOK, external
<1>8. CASE Finalize(s)
  <2>1. op' \in [Stream -> Op]
    BY <1>8, GotoType DEF Finalize, PC
  <2>2. claim' \in Claim
    BY <1>8, ClaimType DEF Finalize, TypeOK
  <2>3. runtime' \in [Stream -> Id \union {0}] /\ retry' \in [Stream -> BOOLEAN]
    BY <1>8, DropType DEF Finalize, TypeOK, Claim
  <2> QED BY <1>8, <2>1, <2>2, <2>3 DEF Finalize, TypeOK, external
<1>9. CASE MarkPossiblyDispatched(s)
  <2>1. op' \in [Stream -> Op]
    BY <1>9, GotoType DEF MarkPossiblyDispatched, PC
  <2>2. claim' \in Claim
    BY <1>9, ClaimType DEF MarkPossiblyDispatched, TypeOK
  <2> QED BY <1>9, <2>1, <2>2 DEF MarkPossiblyDispatched, TypeOK, external
<1>10. CASE DispatchStart(s)
  <2>1. op' \in [Stream -> Op]
    BY <1>10, GotoType DEF DispatchStart, PC
  <2> QED BY <1>10, <2>1 DEF DispatchStart, TypeOK
<1>11. CASE CompleteStart(s)
  <2>1. op' \in [Stream -> Op] /\ status' \in [Stream -> Status]
    BY <1>11, NoOpType, GotoType, StatusType
       DEF CompleteStart, Superseded, Status, PC, TypeOK
  <2> QED BY <1>11, <2>1 DEF CompleteStart, TypeOK, external
<1>12. CASE FailStart(s)
  <2>1. op' \in [Stream -> Op] /\ status' \in [Stream -> Status]
    BY <1>12, NoOpType, GotoType, StatusType
       DEF FailStart, Superseded, Status, PC, TypeOK
  <2> QED BY <1>12, <2>1 DEF FailStart, TypeOK, external
<1>13. CASE FailPreparedStart(s)
  <2>1. op' \in [Stream -> Op] /\ status' \in [Stream -> Status]
    BY <1>13, NoOpType, GotoType, StatusType DEF FailPreparedStart, Status, PC, TypeOK
  <2> QED BY <1>13, <2>1, AnswersType DEF FailPreparedStart, TypeOK
<1>14. CASE Compensate(s)
  <2>1. op' \in [Stream -> Op]
    BY <1>14, NoOpType, GotoType DEF Compensate, PC
  <2> QED BY <1>14, <2>1, AnswersType DEF Compensate, TypeOK
<1>15. CASE Abandon(s)
  <2>1. op' \in [Stream -> Op]
    BY <1>15, NoOpType DEF Abandon
  <2>2. claim' \in Claim
    BY <1>15, ClaimType DEF Abandon, TypeOK
  <2> QED BY <1>15, <2>1, <2>2, DropType DEF Abandon, TypeOK, external
<1> QED
  BY <1>1, <1>2, <1>3, <1>4, <1>5, <1>6, <1>7, <1>8, <1>9, <1>10, <1>11,
     <1>12, <1>13, <1>14, <1>15 DEF StartStep

(* Stops and heartbeat failures preserve the type invariant. *)
LEMMA StopType ==
  ASSUME TypeOK, NEW s \in Stream, StopStep(s)
  PROVE  TypeOK'
<1>1. CASE StopClaim(s)
  <2>1. op' \in [Stream -> Op] /\ status' \in [Stream -> Status]
    BY <1>1, BeginType, StatusType DEF StopClaim, Status
  <2> QED BY <1>1, <2>1 DEF StopClaim, TypeOK, external
<1>2. CASE HeartbeatFail(s)
  <2>1. op' \in [Stream -> Op] /\ status' \in [Stream -> Status]
    BY <1>2, BeginType, StatusType DEF HeartbeatFail, Status
  <2> QED BY <1>2, <2>1 DEF HeartbeatFail, TypeOK, external
<1>3. CASE DispatchStop(s)
  <2>1. PICK a \in Answer, others \in BOOLEAN :
          LET all == others /\ (a = "ok" \/ Normalized(s, a)) IN
          /\ StopAnswers(s, a)
          /\ op' = [op EXCEPT ![s].enc = (a = "ok"), ![s].all = all,
                      ![s].pc = CASE ~all /\ op[s].kind = "stop" -> "failStop"
                                  [] ~all /\ op[s].kind = "heartbeat" -> "abandon"
                                  [] OTHER -> "receipt"]
    BY <1>3 DEF DispatchStop
  <2> DEFINE all == others /\ (a = "ok" \/ Normalized(s, a))
             pc == CASE ~all /\ op[s].kind = "stop" -> "failStop"
                     [] ~all /\ op[s].kind = "heartbeat" -> "abandon"
                     [] OTHER -> "receipt"
  <2>2. pc \in PC
    BY DEF PC
  <2>3. op' \in [Stream -> Op]
    <3> HIDE DEF pc
    <3>1. op[s] \in Op /\ op \in [Stream -> Op]
      BY DEF TypeOK
    <3>2. (a = "ok") \in BOOLEAN /\ all \in BOOLEAN
      OBVIOUS
    <3> HIDE DEF all
    <3>3. [op[s] EXCEPT !.enc = (a = "ok"), !.all = all, !.pc = pc] \in Op
      BY <3>1, <3>2, <2>2 DEF Op
    <3>4. op' = [op EXCEPT ![s] = [op[s] EXCEPT !.enc = (a = "ok"), !.all = all,
                                                !.pc = pc]]
      BY <2>1, <3>1 DEF all, pc
    <3> QED BY <3>1, <3>3, <3>4
  <2> QED BY <1>3, <2>1, <2>3, AnswersType DEF DispatchStop, TypeOK
<1>4. CASE FailStop(s)
  <2>1. op' \in [Stream -> Op] /\ status' \in [Stream -> Status]
    BY <1>4, NoOpType, GotoType, StatusType DEF FailStop, Status, PC, TypeOK
  <2> QED BY <1>4, <2>1 DEF FailStop, TypeOK, external
<1>5. CASE Receipt(s)
  <2>1. op' \in [Stream -> Op]
    BY <1>5, GotoType DEF Receipt, PC
  <2>2. claim' \in Claim
    BY <1>5, ClaimType DEF Receipt, TypeOK
  <2> QED BY <1>5, <2>1, <2>2 DEF Receipt, TypeOK, external
<1>6. CASE CompleteStop(s)
  <2>1. op' \in [Stream -> Op] /\ status' \in [Stream -> Status]
    BY <1>6, NoOpType, GotoType, StatusType DEF CompleteStop, Status, PC, TypeOK
  <2>2. comp' \in [Stream \union Completer -> Comp]
    BY <1>6 DEF CompleteStop, TypeOK, Comp, NoComp
  <2> QED BY <1>6, <2>1, <2>2 DEF CompleteStop, TypeOK, external
<1>7. CASE Rearm(s)
  <2>1. op' \in [Stream -> Op] /\ status' \in [Stream -> Status]
    BY <1>7, NoOpType, StatusType DEF Rearm, Status, TypeOK
  <2> QED BY <1>7, <2>1 DEF Rearm, TypeOK, external
<1> QED
  BY <1>1, <1>2, <1>3, <1>4, <1>5, <1>6, <1>7 DEF StopStep

(* The recovery route preserves the type invariant. *)
LEMMA RecoverType ==
  ASSUME TypeOK, NEW s \in Stream, RecoverStep(s)
  PROVE  TypeOK'
<1>1. CASE RecoverBegin(s)
  <2>1. [NoOp EXCEPT !.pc = "reconcile", !.kind = "recover", !.id = claim.id] \in Op
    BY DEF TypeOK, Claim, NoOp, Op, PC
  <2>2. op' \in [Stream -> Op]
    BY <1>1, <2>1 DEF RecoverBegin, TypeOK
  <2> QED BY <1>1, <2>2 DEF RecoverBegin, TypeOK, external
<1>2. CASE RecoverReconcile(s)
  <2>1. op' \in [Stream -> Op]
    BY <1>2, NoOpType, GotoType DEF RecoverReconcile, PC
  <2>2. claim' \in Claim
    BY <1>2, ClaimType DEF RecoverReconcile, TypeOK
  <2> QED BY <1>2, <2>1, <2>2, DropType DEF RecoverReconcile, TypeOK, external
<1>3. CASE RecoverStop(s)
  <2>1. op' \in [Stream -> Op]
    BY <1>3, NoOpType, GotoType DEF RecoverStop, PC
  <2>2. claim' \in Claim
    BY <1>3, ClaimType DEF RecoverStop, TypeOK
  <2>3. /\ broadcast' \in [Id -> {"none", "open", "closed"}]
        /\ sending' \subseteq Stream /\ inflight' \subseteq Stream
    BY <1>3, AnswersType DEF RecoverStop, TypeOK, external
  <2> QED BY <1>3, <2>1, <2>2, <2>3 DEF RecoverStop, TypeOK
<1>4. CASE RecoverCleanup(s)
  <2>1. op' \in [Stream -> Op]
    BY <1>4, NoOpType, GotoType DEF RecoverCleanup, PC
  <2> QED BY <1>4, <2>1 DEF RecoverCleanup, TypeOK
<1>5. CASE ResolveRecovery(s)
  <2>1. op' \in [Stream -> Op]
    BY <1>5, NoOpType DEF ResolveRecovery
  <2>2. claim' \in Claim
    BY <1>5, ClaimType DEF ResolveRecovery, TypeOK
  <2> QED BY <1>5, <2>1, <2>2 DEF ResolveRecovery, TypeOK, external
<1> QED
  BY <1>1, <1>2, <1>3, <1>4, <1>5 DEF RecoverStep

(* Completion preserves the type invariant. *)
LEMMA CompletionType ==
  ASSUME TypeOK, NEW c \in Stream \union Completer,
         \/ CompleteBroadcast(c) \/ Release(c)
         \/ c \in Completer /\ \E s \in Stream : CompleteRuntime(c, s)
  PROVE  TypeOK'
<1>0. comp[c] \in Comp /\ NoComp \in Comp
  BY DEF TypeOK, Comp, NoComp
<1>1. CASE CompleteBroadcast(c)
  <2>1. comp' \in [Stream \union Completer -> Comp]
    BY <1>0, <1>1 DEF CompleteBroadcast, Done, TypeOK, Comp
  <2>2. broadcast' \in [Id -> {"none", "open", "closed"}]
    BY <1>1 DEF CompleteBroadcast, TypeOK
  <2>3. retry' \in [Stream -> BOOLEAN]
    BY <1>1 DEF CompleteBroadcast, RecordFailure, TypeOK
  <2> QED BY <1>1, <2>1, <2>2, <2>3 DEF CompleteBroadcast, TypeOK
<1>2. CASE Release(c)
  <2>1. comp' \in [Stream \union Completer -> Comp]
    BY <1>0, <1>2 DEF Release, Done, TypeOK
  <2>2. claim' \in Claim
    BY <1>2, ClaimType DEF Release, TypeOK
  <2>3. runtime' \in [Stream -> Id \union {0}] /\ retry' \in [Stream -> BOOLEAN]
    BY <1>2 DEF Release, DropRuntime, RecordFailure, TypeOK
  <2> QED BY <1>2, <2>1, <2>2, <2>3 DEF Release, TypeOK, external
<1>3. ASSUME c \in Completer, NEW s \in Stream, CompleteRuntime(c, s)
      PROVE  TypeOK'
  <2>1. [pc |-> "provider", stream |-> s, id |-> runtime[s]] \in Comp
    BY DEF TypeOK, Comp
  <2> QED BY <1>3, <2>1 DEF CompleteRuntime, TypeOK, external
<1> QED BY <1>1, <1>2, <1>3

(* Crashes, the Encoder and markStreamFailed preserve the type invariant. *)
LEMMA OtherType ==
  ASSUME TypeOK, NEW s \in Stream,
         MarkFailed(s) \/ Crash(s) \/ LateStart(s) \/ EncoderDies(s)
  PROVE  TypeOK'
<1>1. CASE MarkFailed(s)
  <2>1. op[s] \in Op
    BY DEF TypeOK
  <2>2. [op[s] EXCEPT !.own = FALSE] \in Op
    BY <2>1 DEF Op
  <2>3. op' \in [Stream -> Op] /\ status' \in [Stream -> Status]
    BY <1>1, <2>2, StatusType DEF MarkFailed, TypeOK, Status
  <2> QED BY <1>1, <2>3 DEF MarkFailed, TypeOK, external
<1>2. CASE Crash(s)
  <2>1. NoComp \in Comp
    BY DEF Comp, NoComp
  <2> QED BY <1>2, <2>1, NoOpType DEF Crash, Done, TypeOK, external
<1>3. CASE LateStart(s)
  BY <1>3 DEF LateStart, TypeOK
<1>4. CASE EncoderDies(s)
  BY <1>4 DEF EncoderDies, TypeOK
<1> QED BY <1>1, <1>2, <1>3, <1>4

(* Type correctness: the claim row keeps one of its four states, a handler's
   memory and the runtime rows only hold reservations that were made. *)
THEOREM TypeCorrect == Spec => []TypeOK
<1>1. Init => TypeOK
  <2>1. NoOp \in Op /\ NoComp \in Comp /\ NoClaim \in Claim
    BY DEF NoOp, Op, PC, NoComp, Comp, NoClaim, Claim
  <2> QED BY <2>1 DEF Init, TypeOK, Status
<1>2. TypeOK /\ [Next]_vars => TypeOK'
  <2> SUFFICES ASSUME TypeOK, [Next]_vars PROVE TypeOK'
    OBVIOUS
  <2>1. ASSUME NEW s \in Stream, StartStep(s) \/ StopStep(s) \/ RecoverStep(s)
        PROVE  TypeOK'
    BY <2>1, StartType, StopType, RecoverType
  <2>2. ASSUME NEW c \in Completer, Interrupted(c) PROVE TypeOK'
    <3>1. NoComp \in Comp
      BY DEF Comp, NoComp
    <3> QED BY <2>2, <3>1 DEF Interrupted, Done, TypeOK, external
  <2>3. CASE UNCHANGED vars
    BY <2>3 DEF vars, external, TypeOK
  <2> QED BY <2>1, <2>2, <2>3, OtherType, CompletionType DEF Next
<1> QED BY <1>1, <1>2, PTL DEF Spec

-----------------------------------------------------------------------------
(* RuntimeFenced, with the type invariant, is inductive.                   *)

(* With no prepared claim, neither before nor after, nothing can go wrong. *)
LEMMA UnpreparedFenced ==
  ASSUME TypeOK, RuntimeFenced, claim.state # "prepared",
         claim'.state # "prepared", UNCHANGED runtime
  PROVE  RuntimeFenced'
  BY DEF RuntimeFenced, PreparedFor, TypeOK

(* A prepared claim is given up together with the runtime of its stream. *)
LEMMA GivenUpFenced ==
  ASSUME TypeOK, RuntimeFenced, NEW s \in Stream, claim.stream = s,
         claim'.state # "prepared", runtime' = [runtime EXCEPT ![s] = 0]
  PROVE  RuntimeFenced'
<1>1. \A t \in Stream : runtime'[t] = 0
  BY DEF RuntimeFenced, PreparedFor, TypeOK
<1> QED BY <1>1 DEF RuntimeFenced

(* What reconciliation makes of a claim that is not prepared. *)
LEMMA ReconciledUnprepared ==
  ASSUME NEW c \in Claim, c.state # "prepared"
  PROVE  ReconciledReserved(c).state # "prepared"
  BY DEF ReconciledReserved, Claim, NoClaim

(* Starts keep runtime and prepared claim together. *)
LEMMA StartFenced ==
  ASSUME TypeOK, RuntimeFenced, NEW s \in Stream, StartStep(s)
  PROVE  RuntimeFenced'
<1> USE DEF RuntimeFenced, PreparedFor
<1>1. CASE Reserve(s)
  <2>1. CASE UNCHANGED claim
    BY <1>1, <2>1 DEF Reserve
  <2>2. CASE /\ claim = NoClaim
             /\ claim' = [NoClaim EXCEPT !.stream = s, !.id = issued + 1,
                                        !.state = "reserved"]
    <3>1. claim.state # "prepared" /\ claim'.state # "prepared"
      BY <2>2 DEF NoClaim
    <3> QED BY <1>1, <3>1, UnpreparedFenced DEF Reserve
  <2> QED BY <1>1, <2>1, <2>2 DEF Reserve
<1>2. CASE MarkPossiblyPrepared(s)
  BY <1>2 DEF MarkPossiblyPrepared, TypeOK, Claim
<1>3. CASE ReconcileReserved(s)
  <2>1. CASE UNCHANGED claim
    BY <1>3, <2>1 DEF ReconcileReserved
  <2>2. CASE claim.state # "prepared" /\ claim' = ReconciledReserved(claim)
    BY <1>3, <2>2, ReconciledUnprepared, UnpreparedFenced
       DEF ReconcileReserved, TypeOK
  <2> QED BY <1>3, <2>1, <2>2 DEF ReconcileReserved
<1>4. CASE MarkRecoveryRequired(s)
  BY <1>4, ZenonT(60) DEF MarkRecoveryRequired, DropRuntime, KeepRuntime, Same, TypeOK, Claim
<1>5. CASE Finalize(s)
  <2>1. CASE UNCHANGED claim /\ KeepRuntime
    BY <2>1 DEF KeepRuntime
  <2>2. CASE /\ claim.stream = s /\ claim.state = "reserved"
             /\ claim' = [claim EXCEPT !.state = "prepared", !.known = TRUE]
             /\ runtime' = [runtime EXCEPT ![s] = claim.id]
    <3>1. \A t \in Stream \ {s} : runtime'[t] = 0
      BY <2>2 DEF TypeOK
    <3>2. /\ claim'.stream = s /\ claim'.state = "prepared"
          /\ claim'.id = claim.id /\ runtime'[s] = claim.id
      BY <2>2 DEF TypeOK, Claim
    <3> QED BY <3>1, <3>2
  <2> QED BY <1>5, <2>1, <2>2 DEF Finalize, Same
<1>6. CASE MarkPossiblyDispatched(s)
  BY <1>6 DEF MarkPossiblyDispatched, TypeOK, Claim
<1>7. CASE Abandon(s)
  BY <1>7 DEF Abandon, DropRuntime, KeepRuntime, TypeOK, Claim
<1>8. CASE \/ StartClaim(s) \/ Converge(s) \/ Prepare(s) \/ DispatchStart(s)
           \/ CompleteStart(s) \/ FailStart(s) \/ FailPreparedStart(s)
           \/ Compensate(s)
  BY <1>8 DEF StartClaim, Converge, Prepare, DispatchStart, CompleteStart,
              FailStart, FailPreparedStart, Compensate
<1> QED
  BY <1>1, <1>2, <1>3, <1>4, <1>5, <1>6, <1>7, <1>8 DEF StartStep

(* Stops only record the receipt. *)
LEMMA StopFenced ==
  ASSUME TypeOK, RuntimeFenced, NEW s \in Stream, StopStep(s)
  PROVE  RuntimeFenced'
<1> USE DEF RuntimeFenced, PreparedFor
<1>1. CASE Receipt(s)
  BY <1>1 DEF Receipt, TypeOK, Claim
<1>2. CASE \/ StopClaim(s) \/ HeartbeatFail(s) \/ DispatchStop(s) \/ FailStop(s)
           \/ CompleteStop(s) \/ Rearm(s)
  BY <1>2 DEF StopClaim, HeartbeatFail, DispatchStop, FailStop, CompleteStop, Rearm
<1> QED BY <1>1, <1>2 DEF StopStep

(* The recovery route gives both up together. *)
LEMMA RecoverFenced ==
  ASSUME TypeOK, RuntimeFenced, NEW s \in Stream, RecoverStep(s)
  PROVE  RuntimeFenced'
<1> USE DEF RuntimeFenced, PreparedFor
<1>1. CASE RecoverReconcile(s)
  <2>1. CASE UNCHANGED claim /\ KeepRuntime
    BY <2>1 DEF KeepRuntime
  <2>2. CASE claim.state # "prepared" /\ claim' = ReconciledReserved(claim)
             /\ KeepRuntime
    BY <2>2, ReconciledUnprepared, UnpreparedFenced DEF KeepRuntime, TypeOK
  <2>3. CASE /\ claim.stream = s /\ DropRuntime(s)
             /\ claim' = [claim EXCEPT !.state = "recovery_required"]
    BY <2>3, GivenUpFenced DEF DropRuntime, TypeOK, Claim
  <2> QED BY <1>1, <2>1, <2>2, <2>3 DEF RecoverReconcile, Same
<1>2. CASE RecoverStop(s)
  BY <1>2 DEF RecoverStop, TypeOK, Claim
<1>3. CASE ResolveRecovery(s)
  <2>1. CASE UNCHANGED claim
    BY <1>3, <2>1 DEF ResolveRecovery
  <2>2. CASE claim.state = "recovery_required" /\ claim' = NoClaim
    BY <1>3, <2>2, UnpreparedFenced DEF ResolveRecovery, NoClaim
  <2> QED BY <1>3, <2>1, <2>2 DEF ResolveRecovery
<1>4. CASE RecoverBegin(s) \/ RecoverCleanup(s)
  BY <1>4 DEF RecoverBegin, RecoverCleanup
<1> QED BY <1>1, <1>2, <1>3, <1>4 DEF RecoverStep

(* A completer releases both together, or nothing. *)
LEMMA ReleaseFenced ==
  ASSUME TypeOK, RuntimeFenced, NEW c \in Stream \union Completer, Release(c)
  PROVE  RuntimeFenced'
<1> USE DEF RuntimeFenced, PreparedFor
<1>1. CASE UNCHANGED <<claim, runtime>>
  BY <1>1
<1>2. CASE /\ PreparedFor(comp[c].stream)
           /\ claim' = NoClaim /\ DropRuntime(comp[c].stream)
  <2>1. claim.stream = comp[c].stream /\ claim'.state # "prepared"
    BY <1>2 DEF NoClaim
  <2>2. CASE comp[c].stream \in Stream
    BY <1>2, <2>1, <2>2, GivenUpFenced DEF DropRuntime
  <2>3. CASE comp[c].stream \notin Stream
    <3>1. UNCHANGED runtime
      BY <1>2, <2>3 DEF DropRuntime, TypeOK
    <3>2. \A t \in Stream : runtime[t] = 0
      BY <2>1, <2>3
    <3> QED BY <2>1, <3>1, <3>2
  <2> QED BY <2>2, <2>3
<1> QED BY <1>1, <1>2 DEF Release

(* The runtime row of a stream and its prepared claim exist together or not
   at all, in every state: each of the transactions that create, abandon,
   reconcile or release a claim treats both, whatever is lost in between.  The
   completion worker, which works from runtime rows, and the recovery route,
   which works from recovery claims, never own the same Broadcast. *)
THEOREM RuntimeStaysFenced == Spec => []RuntimeFenced
<1>1. Init => RuntimeFenced
  <2>1. Init => claim.state # "prepared" /\ \A s \in Stream : runtime[s] = 0
    BY DEF Init, NoClaim
  <2> QED BY <2>1 DEF RuntimeFenced
<1>2. TypeOK /\ RuntimeFenced /\ [Next]_vars => RuntimeFenced'
  <2> SUFFICES ASSUME TypeOK, RuntimeFenced, [Next]_vars PROVE RuntimeFenced'
    OBVIOUS
  <2>1. ASSUME NEW s \in Stream, StartStep(s) \/ StopStep(s) \/ RecoverStep(s)
        PROVE  RuntimeFenced'
    BY <2>1, StartFenced, StopFenced, RecoverFenced
  <2>2. CASE \/ UNCHANGED vars
             \/ \E s \in Stream : \/ MarkFailed(s) \/ Crash(s) \/ LateStart(s)
                                  \/ EncoderDies(s)
             \/ \E c \in Completer, s \in Stream : CompleteRuntime(c, s)
             \/ \E c \in Stream \union Completer : CompleteBroadcast(c)
             \/ \E c \in Completer : Interrupted(c)
    BY <2>2 DEF vars, MarkFailed, Crash, LateStart, EncoderDies, CompleteRuntime,
                CompleteBroadcast, Interrupted, RuntimeFenced, PreparedFor
  <2>3. ASSUME NEW c \in Stream \union Completer, Release(c)
        PROVE  RuntimeFenced'
    BY <2>3, ReleaseFenced
  <2> QED BY <2>1, <2>2, <2>3 DEF Next
<1> QED BY <1>1, <1>2, TypeCorrect, PTL DEF Spec

-----------------------------------------------------------------------------
(* SenderFenced and the two action properties need to know what a handler  *)
(* may rely on between two of its steps.                                   *)

\* Where a start has a claim of its own.
HandoffPC == {"mark", "prepare", "finalize", "handoff", "dispatch"}

OnAir == sending \union inflight

\* A start keeps the claim it made until it has handed it to the Encoder.
StartOK ==
  \A s \in Stream :
    /\ op[s].pc \in HandoffPC \union {"reserve"} =>
         status[s] # "completed" /\ ~op[s].enc /\ ~op[s].all
    /\ op[s].pc \in HandoffPC =>
         /\ claim.stream = s /\ claim.id = op[s].id /\ ~claim.stopped
         /\ claim.dispatched <=> op[s].pc = "dispatch"
         /\ op[s].pc = "prepare" => claim.prepared

ClaimOK ==
  /\ claim.id <= issued
  /\ claim.state = "reserved" => claim.stream \in Stream
  /\ claim.stream \in Stream => claim.id # 0
  /\ claim.state \in {"none", "reserved"} => ~claim.dispatched
  /\ claim.stopped => claim.dispatched

\* What the Encoder has acknowledged, or a completed stream stands for, lasts.
QuietOK ==
  \A s \in Stream : \/ op[s].enc \/ op[s].all \/ op[s].pc = "completeStop"
                    \/ status[s] = "completed"
                    => s \notin OnAir

\* A reservation a handler remembers is the stream's own.
IdsOK ==
  \A s \in Stream :
    /\ op[s].id <= issued
    /\ op[s].id # 0 /\ op[s].id = claim.id => claim.stream = s
    /\ op[s].kind = "recover" => op[s].id # 0
    /\ op[s].pc \in {"recoverStop", "cleanup", "resolve"} => op[s].kind = "recover"

\* A completion under way is never that of a start under way, and the Encoder
\* of its claim is quiet.
CompOK ==
  \A c \in Stream \union Completer : comp[c].pc # "idle" =>
    /\ comp[c].id <= issued
    /\ \A s \in Stream : op[s].pc \in HandoffPC => comp[c].id # op[s].id
    /\ comp[c].id = claim.id => claim.stream \notin OnAir

CleanupOK ==
  \A s \in Stream :
    /\ op[s].pc = "cleanup" /\ claim.id = op[s].id => claim.stopped \/ ~claim.dispatched
    /\ op[s].pc = "resolve" => broadcast[op[s].id] # "open"

BroadcastsOK ==
  /\ claim.state = "reserved" /\ ~claim.prepared => broadcast[claim.id] # "open"
  /\ \A n \in Id : n > issued => broadcast[n] # "open"

RelayInv == /\ SenderFenced /\ StartOK /\ ClaimOK /\ QuietOK /\ IdsOK
            /\ CompOK /\ CleanupOK /\ BroadcastsOK

(* The handler's record after a step. *)
LEMMA GotoFacts ==
  ASSUME TypeOK, NEW s \in Stream, NEW pc, Goto(s, pc)
  PROVE  /\ op'[s].pc = pc /\ op'[s].kind = op[s].kind /\ op'[s].id = op[s].id
         /\ op'[s].known = op[s].known
         /\ op'[s].enc = op[s].enc /\ op'[s].all = op[s].all
         /\ \A t \in Stream : t # s => op'[t] = op[t]
<1>1. op[s] \in Op /\ DOMAIN op = Stream
  BY DEF TypeOK
<1>2. op' = [op EXCEPT ![s] = [op[s] EXCEPT !.pc = pc]]
  BY DEF Goto
<1> DEFINE r == [op[s] EXCEPT !.pc = pc]
<1>3. /\ r.pc = pc /\ r.kind = op[s].kind /\ r.id = op[s].id /\ r.known = op[s].known
      /\ r.enc = op[s].enc /\ r.all = op[s].all
  BY <1>1 DEF Op
<1> HIDE DEF r
<1>4. op'[s] = r /\ \A t \in Stream : t # s => op'[t] = op[t]
  BY <1>1, <1>2 DEF r
<1> QED BY <1>3, <1>4

LEMMA ReturnFacts ==
  ASSUME TypeOK, NEW s \in Stream, Return(s)
  PROVE  /\ op'[s].pc = "idle" /\ op'[s].kind = "none" /\ op'[s].id = 0
         /\ op'[s].enc = FALSE /\ op'[s].all = FALSE
         /\ \A t \in Stream : t # s => op'[t] = op[t]
BY DEF TypeOK, Return, NoOp

(* Steps that hand nothing over: a handler ends, or goes on where nothing  *)
(* is relied on; the claim keeps its identity and its marks.               *)
KeepsPlace(t) == /\ op'[t].pc = op[t].pc /\ op'[t].id = op[t].id /\ op'[t].kind = op[t].kind
                 /\ op'[t].enc = op[t].enc /\ op'[t].all = op[t].all
LeavesPlace(t) ==
  /\ op'[t].pc \notin HandoffPC \union {"reserve", "completeStop", "cleanup", "resolve"}
  /\ op'[t].enc => op[t].enc
  /\ op'[t].all => op[t].all
  /\ op'[t].id \in {0, op[t].id}
  /\ op'[t].kind = "recover" => op[t].kind = "recover" /\ op'[t].id = op[t].id
  /\ op'[t].pc = "recoverStop" => op'[t].kind = "recover"
OpsSettle == \A t \in Stream : KeepsPlace(t) \/ LeavesPlace(t)
RestSettles ==
  /\ UNCHANGED issued
  /\ sending' \union inflight' \subseteq sending \union inflight
  /\ \A t \in Stream : status'[t] = "completed" => status[t] = "completed"
  /\ \A c \in Stream \union Completer :
       comp'[c].pc # "idle" => comp[c].pc # "idle" /\ comp'[c].id = comp[c].id
ClaimMoves ==
  /\ claim'.stream = claim.stream /\ claim'.id = claim.id
  /\ claim'.dispatched = claim.dispatched /\ claim'.stopped = claim.stopped
  /\ claim.prepared => claim'.prepared
  /\ claim'.state = "reserved" => claim.state = "reserved"
  /\ claim'.state \in {"none", "reserved"} => ~claim.dispatched
\* Broadcasts are only closed.
BroadcastsClose == \A n \in Id : broadcast'[n] = "open" => broadcast[n] = "open"

LEMMA SettledOK ==
  ASSUME TypeOK, RelayInv, OpsSettle, RestSettles, ClaimMoves, BroadcastsClose
  PROVE  RelayInv'
<1> USE DEF OnAir
<1>0. 0 <= issued
  BY RelayAssumption DEF TypeOK, Id
<1>1. SenderFenced'
  BY DEF RelayInv, SenderFenced, RestSettles, ClaimMoves
<1>2. StartOK'
  BY DEF RelayInv, StartOK, OpsSettle, KeepsPlace, LeavesPlace, RestSettles, ClaimMoves, HandoffPC
<1>3. ClaimOK'
  BY DEF RelayInv, ClaimOK, RestSettles, ClaimMoves
<1>4. QuietOK'
  BY DEF RelayInv, QuietOK, OpsSettle, KeepsPlace, LeavesPlace, RestSettles
<1>5. IdsOK'
  BY <1>0 DEF RelayInv, IdsOK, OpsSettle, KeepsPlace, LeavesPlace, RestSettles, ClaimMoves
<1>6. CompOK'
  BY DEF RelayInv, CompOK, OpsSettle, KeepsPlace, LeavesPlace, RestSettles, ClaimMoves
<1>7. CleanupOK'
  <2>1. \A t \in Stream : op[t].pc = "resolve" => op[t].id \in Id
    BY DEF RelayInv, IdsOK, TypeOK, Op
  <2> QED BY <2>1 DEF RelayInv, CleanupOK, OpsSettle, KeepsPlace, LeavesPlace, ClaimMoves,
                      BroadcastsClose
<1>8. BroadcastsOK'
  <2>1. claim.state = "reserved" => claim.id \in Id
    BY DEF RelayInv, ClaimOK, TypeOK, Claim
  <2> QED BY <2>1 DEF RelayInv, BroadcastsOK, RestSettles, ClaimMoves, BroadcastsClose
<1> QED BY <1>1, <1>2, <1>3, <1>4, <1>5, <1>6, <1>7, <1>8 DEF RelayInv

(* The claim is given up while its stream is quiet and starts nothing. *)
LEMMA DroppedOK ==
  ASSUME TypeOK, RelayInv, OpsSettle, RestSettles, BroadcastsClose,
         claim' = NoClaim, claim.stream \notin OnAir,
         \A t \in Stream : op'[t].pc \in HandoffPC => claim.stream # t
  PROVE  RelayInv'
<1> USE DEF OnAir
<1>0. 0 <= issued
  BY RelayAssumption DEF TypeOK, Id
<1>1. /\ claim'.stream = NoStream /\ claim'.id = 0 /\ claim'.state = "none"
      /\ ~claim'.dispatched /\ ~claim'.stopped
  BY DEF NoClaim
<1>2. sending \union inflight = {}
  BY DEF RelayInv, SenderFenced
<1>3. \A t \in Stream : op'[t].pc \notin HandoffPC
  BY DEF RelayInv, StartOK, OpsSettle, KeepsPlace, LeavesPlace
<1>4. StartOK'
  BY <1>3 DEF RelayInv, StartOK, OpsSettle, KeepsPlace, LeavesPlace, RestSettles
<1>5. ClaimOK'
  BY <1>1, RelayAssumption DEF ClaimOK, TypeOK, Id, RestSettles
<1>6. QuietOK' /\ SenderFenced'
  BY <1>2 DEF QuietOK, SenderFenced, RestSettles
<1>7. IdsOK'
  BY <1>0, <1>1 DEF RelayInv, IdsOK, OpsSettle, KeepsPlace, LeavesPlace, RestSettles
<1>8. CompOK'
  BY <1>2, <1>3 DEF RelayInv, CompOK, RestSettles
<1>9. CleanupOK'
  <2>1. \A t \in Stream : op[t].pc = "resolve" => op[t].id \in Id
    BY DEF RelayInv, IdsOK, TypeOK, Op
  <2> QED BY <1>1, <2>1 DEF RelayInv, CleanupOK, OpsSettle, KeepsPlace, LeavesPlace,
                            BroadcastsClose
<1>10. BroadcastsOK'
  BY <1>1 DEF RelayInv, BroadcastsOK, RestSettles, BroadcastsClose
<1> QED BY <1>4, <1>5, <1>6, <1>7, <1>8, <1>9, <1>10 DEF RelayInv

(* The ways a handler settles. *)
RestPC == PC \ (HandoffPC \union {"reserve", "completeStop", "cleanup", "resolve", "recoverStop"})

LEMMA GotoSettles ==
  ASSUME TypeOK, NEW s \in Stream, NEW pc \in RestPC, Goto(s, pc)
  PROVE  OpsSettle
BY GotoFacts DEF OpsSettle, KeepsPlace, LeavesPlace, RestPC, HandoffPC

LEMMA ReturnSettles ==
  ASSUME TypeOK, NEW s \in Stream, Return(s)
  PROVE  OpsSettle
BY ReturnFacts DEF OpsSettle, KeepsPlace, LeavesPlace, HandoffPC

LEMMA BeginSettles ==
  ASSUME TypeOK, NEW s \in Stream, NEW k \in {"stop", "force", "heartbeat"}, Begin(s, k)
  PROVE  OpsSettle
<1> DEFINE r == [NoOp EXCEPT !.pc = "stop", !.kind = k, !.own = TRUE]
<1>1. r.pc = "stop" /\ r.kind = k /\ r.id = 0 /\ r.enc = FALSE /\ r.all = FALSE
  BY DEF NoOp
<1>2. op'[s] = r /\ \A t \in Stream : t # s => op'[t] = op[t]
  BY DEF Begin, TypeOK
<1> QED BY <1>1, <1>2 DEF OpsSettle, KeepsPlace, LeavesPlace, HandoffPC

LEMMA StatusSettles ==
  ASSUME TypeOK, NEW s \in Stream, NEW st, st # "completed", SetStatus(s, st)
  PROVE  \A t \in Stream : status'[t] = "completed" => status[t] = "completed"
BY DEF TypeOK, SetStatus

LEMMA ClaimStays ==
  ASSUME RelayInv, UNCHANGED claim
  PROVE  ClaimMoves
BY DEF RelayInv, ClaimOK, ClaimMoves

LEMMA AnswerSettles ==
  ASSUME NEW s, NEW a, StopAnswers(s, a)
  PROVE  sending' \union inflight' \subseteq sending \union inflight /\ broadcast' = broadcast
BY DEF StopAnswers

LEMMA CompSettles ==
  ASSUME TypeOK, NEW d, Done(d)
  PROVE  \A c \in Stream \union Completer :
           comp'[c].pc # "idle" => comp[c].pc # "idle" /\ comp'[c].id = comp[c].id
BY DEF TypeOK, Done, NoComp

(* The steps that settle and leave the claim alone. *)
LEMMA CalmOK ==
  ASSUME TypeOK, RelayInv, NEW s \in Stream,
         \/ Converge(s) \/ CompleteStart(s) \/ FailStart(s) \/ FailPreparedStart(s)
         \/ Compensate(s) \/ StopClaim(s) \/ HeartbeatFail(s) \/ FailStop(s) \/ Rearm(s)
         \/ Crash(s)
  PROVE  RelayInv'
<1>1. ClaimMoves
  <2>1. UNCHANGED claim
    BY DEF Converge, CompleteStart, FailStart, FailPreparedStart, Compensate, StopClaim,
           HeartbeatFail, FailStop, Rearm, Crash
  <2> QED BY <2>1, ClaimStays
<1>2. OpsSettle
  <2>1. \/ Return(s)
        \/ \E pc \in {"undo", "compensate", "abandon", "receipt"} : Goto(s, pc)
        \/ \E k \in {"stop", "force", "heartbeat"} : Begin(s, k)
    BY DEF Converge, CompleteStart, FailStart, FailPreparedStart, Compensate, StopClaim,
           HeartbeatFail, FailStop, Rearm, Crash, Superseded
  <2>2. {"undo", "compensate", "abandon", "receipt"} \subseteq RestPC
    BY DEF RestPC, PC, HandoffPC
  <2> QED BY <2>1, <2>2, ReturnSettles, GotoSettles, BeginSettles
<1>3. \A t \in Stream : status'[t] = "completed" => status[t] = "completed"
  <2>1. UNCHANGED status \/ \E st \in {"failed", "live", "stopping", "ready"} : SetStatus(s, st)
    BY DEF Converge, CompleteStart, FailStart, FailPreparedStart, Compensate, StopClaim,
           HeartbeatFail, FailStop, Rearm, Crash
  <2> QED BY <2>1, StatusSettles
<1>4. sending' \union inflight' \subseteq sending \union inflight /\ broadcast' = broadcast
  <2>1. UNCHANGED external \/ \E a \in Answer : StopAnswers(s, a)
    BY DEF Converge, CompleteStart, FailStart, FailPreparedStart, Compensate, StopClaim,
           HeartbeatFail, FailStop, Rearm, Crash
  <2> QED BY <2>1, AnswerSettles DEF external
<1>5. \A c \in Stream \union Completer :
        comp'[c].pc # "idle" => comp[c].pc # "idle" /\ comp'[c].id = comp[c].id
  <2>1. UNCHANGED comp \/ Done(s)
    BY DEF Converge, CompleteStart, FailStart, FailPreparedStart, Compensate, StopClaim,
           HeartbeatFail, FailStop, Rearm, Crash
  <2> QED BY <2>1, CompSettles
<1>6. UNCHANGED issued
  BY DEF Converge, CompleteStart, FailStart, FailPreparedStart, Compensate, StopClaim,
         HeartbeatFail, FailStop, Rearm, Crash
<1>7. RestSettles /\ BroadcastsClose
  BY <1>3, <1>4, <1>5, <1>6 DEF RestSettles, BroadcastsClose
<1> QED BY <1>1, <1>2, <1>7, SettledOK

LEMMA EncoderOK ==
  ASSUME TypeOK, RelayInv, NEW s \in Stream, MarkFailed(s) \/ LateStart(s) \/ EncoderDies(s)
  PROVE  RelayInv'
<1>1. ClaimMoves
  BY ClaimStays DEF MarkFailed, LateStart, EncoderDies
<1>2. OpsSettle
  <2>1. CASE MarkFailed(s)
    <3> DEFINE r == [op[s] EXCEPT !.own = FALSE]
    <3>1. op[s] \in Op /\ DOMAIN op = Stream
      BY DEF TypeOK
    <3>2. /\ r.pc = op[s].pc /\ r.id = op[s].id /\ r.kind = op[s].kind
          /\ r.enc = op[s].enc /\ r.all = op[s].all
      BY <3>1 DEF Op
    <3>3. op' = [op EXCEPT ![s] = r]
      BY <2>1 DEF MarkFailed
    <3> HIDE DEF r
    <3>4. op'[s] = r /\ \A t \in Stream : t # s => op'[t] = op[t]
      BY <3>1, <3>3
    <3> QED BY <3>2, <3>4 DEF OpsSettle, KeepsPlace
  <2>2. CASE UNCHANGED op
    BY <2>2 DEF OpsSettle, KeepsPlace
  <2> QED BY <2>1, <2>2 DEF LateStart, EncoderDies
<1>3. RestSettles /\ BroadcastsClose
  <2>1. \A t \in Stream : status'[t] = "completed" => status[t] = "completed"
    <3>1. UNCHANGED status \/ SetStatus(s, "failed")
      BY DEF MarkFailed, LateStart, EncoderDies
    <3> QED BY <3>1, StatusSettles
  <2> QED BY <2>1 DEF MarkFailed, LateStart, EncoderDies, RestSettles, BroadcastsClose, external
<1> QED BY <1>1, <1>2, <1>3, SettledOK

LEMMA OpsStay ==
  ASSUME UNCHANGED op
  PROVE  OpsSettle
BY DEF OpsSettle, KeepsPlace

LEMMA NothingElse ==
  ASSUME UNCHANGED <<status, comp, external, issued>>
  PROVE  RestSettles /\ BroadcastsClose
BY DEF RestSettles, BroadcastsClose, external

(* What reconciliation does to the claim of a stream. *)
LEMMA Reconciled ==
  ASSUME TypeOK, RelayInv, NEW s \in Stream, claim.stream = s, claim.state # "prepared",
         claim' = ReconciledReserved(claim)
  PROVE  ClaimMoves \/ (claim' = NoClaim /\ claim.stream \notin OnAir)
<1>1. CASE claim.state = "reserved" /\ ~claim.prepared
  <2>1. claim' = NoClaim /\ ~claim.dispatched
    BY <1>1 DEF ReconciledReserved, RelayInv, ClaimOK
  <2> QED BY <2>1 DEF RelayInv, SenderFenced, OnAir
<1>2. CASE claim.state = "reserved" /\ claim.prepared
  <2>1. claim' = [claim EXCEPT !.state = "recovery_required", !.known = FALSE]
    BY <1>2 DEF ReconciledReserved
  <2>2. /\ claim'.stream = claim.stream /\ claim'.id = claim.id
        /\ claim'.dispatched = claim.dispatched /\ claim'.stopped = claim.stopped
        /\ claim'.prepared = claim.prepared /\ claim'.state = "recovery_required"
    BY <2>1 DEF TypeOK, Claim
  <2> QED BY <2>2 DEF ClaimMoves
<1>3. CASE claim.state # "reserved"
  <2>1. claim' = claim
    BY <1>3 DEF ReconciledReserved
  <2> QED BY <2>1, ClaimStays
<1> QED BY <1>1, <1>2, <1>3 DEF TypeOK, Claim

LEMMA RecoveryMarked ==
  ASSUME TypeOK, RelayInv, NEW k,
         \/ claim' = [claim EXCEPT !.state = "recovery_required"]
         \/ claim' = [claim EXCEPT !.state = "recovery_required", !.known = k]
  PROVE  ClaimMoves
<1>1. /\ claim'.stream = claim.stream /\ claim'.id = claim.id
      /\ claim'.dispatched = claim.dispatched /\ claim'.stopped = claim.stopped
      /\ claim'.prepared = claim.prepared /\ claim'.state = "recovery_required"
  BY DEF TypeOK, Claim
<1> QED BY <1>1 DEF ClaimMoves

LEMMA ReconcileReservedOK ==
  ASSUME TypeOK, RelayInv, NEW s \in Stream, ReconcileReserved(s)
  PROVE  RelayInv'
<1>1. Goto(s, "converge") /\ RestSettles /\ BroadcastsClose
  BY NothingElse DEF ReconcileReserved
<1>2. OpsSettle /\ op'[s].pc = "converge" /\ \A t \in Stream : t # s => op'[t] = op[t]
  BY <1>1, GotoSettles, GotoFacts DEF RestPC, PC, HandoffPC
<1>3. CASE ClaimMoves
  BY <1>1, <1>2, <1>3, SettledOK
<1>4. CASE claim.stream = s /\ claim' = NoClaim /\ claim.stream \notin OnAir
  BY <1>1, <1>2, <1>4, DroppedOK DEF HandoffPC
<1>5. \/ UNCHANGED claim
      \/ claim.stream = s /\ claim.state # "prepared" /\ claim' = ReconciledReserved(claim)
  BY DEF ReconcileReserved, Same
<1> QED BY <1>3, <1>4, <1>5, ClaimStays, Reconciled

LEMMA MarkRecoveryRequiredOK ==
  ASSUME TypeOK, RelayInv, NEW s \in Stream, MarkRecoveryRequired(s)
  PROVE  RelayInv'
<1>1. Goto(s, "converge") /\ RestSettles /\ BroadcastsClose
  BY NothingElse DEF MarkRecoveryRequired
<1>2. OpsSettle
  BY <1>1, GotoSettles DEF RestPC, PC, HandoffPC
<1>3. ClaimMoves
  BY ClaimStays, RecoveryMarked DEF MarkRecoveryRequired
<1> QED BY <1>1, <1>2, <1>3, SettledOK

LEMMA AbandonOK ==
  ASSUME TypeOK, RelayInv, NEW s \in Stream, Abandon(s)
  PROVE  RelayInv'
<1>1. Return(s) /\ RestSettles /\ BroadcastsClose
  BY NothingElse DEF Abandon
<1>2. ClaimMoves
  BY ClaimStays, RecoveryMarked DEF Abandon
<1> QED BY <1>1, <1>2, ReturnSettles, SettledOK

LEMMA RecoverReconcileOK ==
  ASSUME TypeOK, RelayInv, NEW s \in Stream, RecoverReconcile(s)
  PROVE  RelayInv'
<1>1. RestSettles /\ BroadcastsClose
  BY NothingElse DEF RecoverReconcile
<1>2. Return(s) \/ Goto(s, "recoverStop")
  BY DEF RecoverReconcile
<1>3. OpsSettle /\ op'[s].pc \notin HandoffPC
  <2>1. CASE Return(s)
    BY <2>1, ReturnSettles, ReturnFacts DEF HandoffPC
  <2>2. CASE Goto(s, "recoverStop")
    <3>1. op[s].kind = "recover"
      BY DEF RecoverReconcile
    <3> QED BY <2>2, <3>1, GotoFacts DEF OpsSettle, KeepsPlace, LeavesPlace, HandoffPC
  <2> QED BY <1>2, <2>1, <2>2
<1>4. CASE ClaimMoves
  BY <1>1, <1>3, <1>4, SettledOK
<1>5. CASE claim.stream = s /\ claim' = NoClaim /\ claim.stream \notin OnAir
  BY <1>1, <1>3, <1>5, DroppedOK
<1>6. \/ UNCHANGED claim
      \/ claim.stream = s /\ claim.state # "prepared" /\ claim' = ReconciledReserved(claim)
      \/ claim' = [claim EXCEPT !.state = "recovery_required"]
  BY DEF RecoverReconcile, Same
<1> QED BY <1>4, <1>5, <1>6, ClaimStays, Reconciled, RecoveryMarked

LEMMA ResolveOK ==
  ASSUME TypeOK, RelayInv, NEW s \in Stream, ResolveRecovery(s)
  PROVE  RelayInv'
<1>1. Return(s) /\ RestSettles /\ BroadcastsClose
  BY NothingElse DEF ResolveRecovery
<1>2. OpsSettle /\ op'[s].pc \notin HandoffPC
  BY <1>1, ReturnSettles, ReturnFacts DEF HandoffPC
<1>3. CASE UNCHANGED claim
  BY <1>1, <1>2, <1>3, ClaimStays, SettledOK
<1>4. CASE Same(s) /\ (claim.dispatched => claim.stopped) /\ claim' = NoClaim
  <2>1. claim.stream = s /\ claim.stream \notin OnAir
    BY <1>4 DEF Same, RelayInv, SenderFenced, OnAir
  <2> QED BY <1>1, <1>2, <1>4, <2>1, DroppedOK
<1> QED BY <1>3, <1>4 DEF ResolveRecovery

LEMMA ReleaseOK ==
  ASSUME TypeOK, RelayInv, NEW c \in Stream \union Completer, Release(c)
  PROVE  RelayInv'
<1> DEFINE s == comp[c].stream
<1>1. UNCHANGED <<status, op, external, issued>> /\ Done(c)
  BY DEF Release
<1>2. OpsSettle /\ RestSettles /\ BroadcastsClose
  BY <1>1, OpsStay, CompSettles DEF RestSettles, BroadcastsClose, external
<1>3. CASE UNCHANGED claim
  BY <1>2, <1>3, ClaimStays, SettledOK
<1>4. CASE status[s] = "completed" /\ PreparedFor(s) /\ claim' = NoClaim
  <2>1. claim.stream = s
    BY <1>4 DEF PreparedFor
  <2>2. s \notin OnAir
    BY <1>4 DEF RelayInv, QuietOK, TypeOK, OnAir
  <2>3. \A t \in Stream : op'[t].pc \in HandoffPC => t # s
    BY <1>1, <1>4 DEF RelayInv, StartOK
  <2> QED BY <1>2, <1>4, <2>1, <2>2, <2>3, DroppedOK
<1> QED BY <1>3, <1>4 DEF Release

LEMMA CompleteBroadcastOK ==
  ASSUME TypeOK, RelayInv, NEW c \in Stream \union Completer, CompleteBroadcast(c)
  PROVE  RelayInv'
<1>1. UNCHANGED <<status, claim, op, sending, inflight, issued>>
  BY DEF CompleteBroadcast
<1>2. BroadcastsClose
  BY DEF CompleteBroadcast, BroadcastsClose, TypeOK
<1>3. \A d \in Stream \union Completer :
        comp'[d].pc # "idle" => comp[d].pc # "idle" /\ comp'[d].id = comp[d].id
  <2>1. CASE Done(c)
    BY <2>1, CompSettles
  <2>2. CASE comp[c].pc = "provider" /\ comp' = [comp EXCEPT ![c].pc = "release"]
    BY <2>2 DEF TypeOK, Comp
  <2> QED BY <2>1, <2>2 DEF CompleteBroadcast
<1>4. RestSettles
  BY <1>1, <1>3 DEF RestSettles
<1> QED BY <1>1, <1>2, <1>4, OpsStay, ClaimStays, SettledOK

LEMMA InterruptedOK ==
  ASSUME TypeOK, RelayInv, NEW c \in Completer, Interrupted(c)
  PROVE  RelayInv'
<1>1. UNCHANGED <<status, claim, op, external, issued>> /\ Done(c)
  BY DEF Interrupted
<1>2. RestSettles /\ BroadcastsClose
  BY <1>1, CompSettles DEF RestSettles, BroadcastsClose, external
<1> QED BY <1>1, <1>2, OpsStay, ClaimStays, SettledOK

(* The steps of a start that rely on its claim. *)
LEMMA StartClaimOK ==
  ASSUME TypeOK, RelayInv, NEW s \in Stream, StartClaim(s)
  PROVE  RelayInv'
<1> USE DEF OnAir
<1> DEFINE r == [NoOp EXCEPT !.pc = "reserve", !.kind = "start", !.own = TRUE]
<1>1. r.pc = "reserve" /\ r.kind = "start" /\ r.id = 0 /\ r.enc = FALSE /\ r.all = FALSE
  BY DEF NoOp
<1>2. op'[s] = r /\ \A t \in Stream : t # s => op'[t] = op[t]
  BY DEF StartClaim, TypeOK
<1> HIDE DEF r
<1>3. /\ UNCHANGED <<claim, comp, broadcast, sending, inflight, issued>>
      /\ status'[s] = "starting" /\ \A t \in Stream : t # s => status'[t] = status[t]
  BY DEF StartClaim, SetStatus, TypeOK, external
<1>4. 0 <= issued
  BY RelayAssumption DEF TypeOK, Id
<1>5. SenderFenced' /\ ClaimOK' /\ BroadcastsOK'
  BY <1>3 DEF RelayInv, SenderFenced, ClaimOK, BroadcastsOK
<1>6. StartOK' /\ QuietOK'
  BY <1>1, <1>2, <1>3 DEF RelayInv, StartOK, QuietOK, HandoffPC
<1>7. IdsOK'
  BY <1>1, <1>2, <1>3, <1>4 DEF RelayInv, IdsOK
<1>8. CompOK' /\ CleanupOK'
  BY <1>1, <1>2, <1>3 DEF RelayInv, CompOK, CleanupOK, HandoffPC
<1> QED BY <1>5, <1>6, <1>7, <1>8 DEF RelayInv

LEMMA ReserveOK ==
  ASSUME TypeOK, RelayInv, NEW s \in Stream, Reserve(s)
  PROVE  RelayInv'
<1> USE DEF OnAir
<1>1. CASE Goto(s, "converge") /\ UNCHANGED <<claim, issued>>
  <2>1. RestSettles /\ BroadcastsClose
    BY <1>1, NothingElse DEF Reserve
  <2>2. OpsSettle
    BY <1>1, GotoSettles DEF RestPC, PC, HandoffPC
  <2> QED BY <1>1, <2>1, <2>2, ClaimStays, SettledOK
<1>2. CASE /\ status[s] = "starting" /\ claim = NoClaim /\ issued < MaxClaims
           /\ issued' = issued + 1
           /\ claim' = [NoClaim EXCEPT !.stream = s, !.id = issued + 1, !.state = "reserved"]
           /\ \E pc \in {"mark", "converge"} :
                op' = [op EXCEPT ![s].pc = pc, ![s].id = issued + 1]
  <2> DEFINE n == issued + 1
  <2>1. issued \in Nat /\ n \in Id /\ n > issued /\ n # 0
    BY <1>2, RelayAssumption DEF TypeOK, Id
  <2>2. /\ claim'.stream = s /\ claim'.id = n /\ claim'.state = "reserved"
        /\ ~claim'.prepared /\ ~claim'.dispatched /\ ~claim'.stopped
    BY <1>2 DEF NoClaim
  <2>3. PICK pc \in {"mark", "converge"} : op' = [op EXCEPT ![s].pc = pc, ![s].id = n]
    BY <1>2
  <2>4. /\ op'[s].pc = pc /\ op'[s].id = n /\ op'[s].kind = op[s].kind
        /\ op'[s].enc = op[s].enc /\ op'[s].all = op[s].all
        /\ \A t \in Stream : t # s => op'[t] = op[t]
    <3> DEFINE r == [op[s] EXCEPT !.pc = pc, !.id = n]
    <3>1. op[s] \in Op /\ DOMAIN op = Stream
      BY DEF TypeOK
    <3>2. /\ r.pc = pc /\ r.id = n /\ r.kind = op[s].kind
          /\ r.enc = op[s].enc /\ r.all = op[s].all
      BY <3>1 DEF Op
    <3>3. op' = [op EXCEPT ![s] = r]
      BY <2>3, <3>1
    <3> HIDE DEF r
    <3>4. op'[s] = r /\ \A t \in Stream : t # s => op'[t] = op[t]
      BY <3>1, <3>3
    <3> QED BY <3>2, <3>4
  <2>5. UNCHANGED <<status, comp, broadcast, sending, inflight>> /\ op[s].pc = "reserve"
    BY DEF Reserve, external, At
  <2>6. sending \union inflight = {}
    BY <1>2 DEF RelayInv, SenderFenced, NoClaim
  <2>7. \A t \in Stream : op[t].pc \notin HandoffPC
    BY <1>2, RelayAssumption DEF RelayInv, StartOK, NoClaim
  <2> HIDE DEF n
  <2>8. SenderFenced' /\ QuietOK'
    BY <2>5, <2>6 DEF SenderFenced, QuietOK
  <2>9. StartOK'
    BY <1>2, <2>2, <2>4, <2>5, <2>7 DEF RelayInv, StartOK, HandoffPC
  <2>10. ClaimOK'
    BY <1>2, <2>1, <2>2 DEF ClaimOK, n
  <2>11. IdsOK'
    <3>1. \A t \in Stream : op[t].id <= issued /\ op[t].id \in Nat
      <4>1. Id \union {0} \subseteq Nat
        BY RelayAssumption DEF Id
      <4>2. \A t \in Stream : op[t].id \in Id \union {0}
        BY DEF TypeOK, Op
      <4>3. \A t \in Stream : op[t].id <= issued
        BY DEF RelayInv, IdsOK
      <4>4. \A t \in Stream : op[t].id \in Nat
        BY <4>1, <4>2, Zenon
      <4> QED BY <4>3, <4>4, Zenon
    <3>2. \A t \in Stream : op[t].id # n /\ op[t].id <= n
      <4> SUFFICES ASSUME NEW t \in Stream PROVE op[t].id # n /\ op[t].id <= n
        OBVIOUS
      <4> DEFINE i == op[t].id
      <4>1. i <= issued /\ i \in Nat
        BY <3>1
      <4> HIDE DEF i
      <4>2. i # n /\ i <= n
        BY <2>1, <4>1 DEF n
      <4> QED BY <4>2 DEF i
    <3>3. op'[s].id <= issued'
      BY <1>2, <2>1, <2>4 DEF n
    <3>4. \A t \in Stream : op'[t].id <= issued'
      BY <1>2, <2>4, <3>2, <3>3 DEF n
    <3>5. \A t \in Stream : op'[t].id = claim'.id => claim'.stream = t
      BY <2>2, <2>4, <3>2
    <3> QED BY <2>1, <2>3, <2>4, <3>4, <3>5 DEF RelayInv, IdsOK
  <2>12. CompOK'
    <3>1. \A c \in Stream \union Completer : comp[c].id \in Nat
      BY RelayAssumption DEF TypeOK, Comp, Id
    <3>2. \A c \in Stream \union Completer : comp[c].pc # "idle" => comp[c].id <= issued
      BY DEF RelayInv, CompOK
    <3>3. \A c \in Stream \union Completer : comp[c].pc # "idle" => comp[c].id <= n /\ comp[c].id # n
      BY <2>1, <3>1, <3>2 DEF n
    <3> QED BY <1>2, <2>4, <2>5, <2>6, <2>7, <3>3 DEF CompOK, n
  <2>13. CleanupOK'
    BY <2>2, <2>3, <2>4, <2>5 DEF RelayInv, CleanupOK
  <2>14. BroadcastsOK'
    <3>1. broadcast[n] # "open" /\ \A k \in Id : k > n => broadcast[k] # "open"
      BY <2>1 DEF RelayInv, BroadcastsOK, n, Id
    <3> QED BY <1>2, <2>2, <2>5, <3>1 DEF BroadcastsOK, n
  <2> QED BY <2>8, <2>9, <2>10, <2>11, <2>12, <2>13, <2>14 DEF RelayInv
<1> QED BY <1>1, <1>2 DEF Reserve

(* A start goes on with its claim, which gets a mark at most. *)
LEMMA AdvancedOK ==
  ASSUME TypeOK, RelayInv, NEW s \in Stream, NEW pc \in (HandoffPC \ {"mark"}) \union {"fence"},
         Goto(s, pc), op[s].pc \in HandoffPC \ {"dispatch"},
         UNCHANGED <<status, comp, external, issued>>,
         claim'.stream = claim.stream, claim'.id = claim.id, claim'.stopped = claim.stopped,
         pc \in HandoffPC => (claim'.dispatched <=> pc = "dispatch"),
         claim.prepared => claim'.prepared,
         pc = "prepare" => claim'.prepared,
         claim'.state = "reserved" => claim.state = "reserved",
         claim'.state \in {"none", "reserved"} => ~claim'.dispatched
  PROVE  RelayInv'
<1> USE DEF OnAir, external
<1>1. /\ op'[s].pc = pc /\ op'[s].kind = op[s].kind /\ op'[s].id = op[s].id
      /\ op'[s].enc = op[s].enc /\ op'[s].all = op[s].all
      /\ \A t \in Stream : t # s => op'[t] = op[t]
  BY GotoFacts
<1>2. claim.stream = s /\ claim.id = op[s].id /\ ~claim.stopped /\ ~claim.dispatched
  BY DEF RelayInv, StartOK
<1>3. \A t \in Stream : t # s => op[t].pc \notin HandoffPC
  BY <1>2 DEF RelayInv, StartOK
<1>4. SenderFenced'
  BY <1>2 DEF RelayInv, SenderFenced
<1>5. StartOK'
  BY <1>1, <1>2, <1>3 DEF RelayInv, StartOK, HandoffPC
<1>6. ClaimOK'
  BY <1>2 DEF RelayInv, ClaimOK
<1>7. QuietOK' /\ IdsOK'
  BY <1>1, <1>2 DEF RelayInv, QuietOK, IdsOK, HandoffPC
<1>8. CompOK'
  BY <1>1 DEF RelayInv, CompOK
<1>9. CleanupOK'
  <2>1. \A t \in Stream : op'[t].pc = "cleanup" => t # s /\ op[t] = op'[t] /\ op[t].id # claim.id
    BY <1>1, <1>2 DEF HandoffPC, RelayInv, IdsOK
  <2> QED BY <1>1, <2>1 DEF RelayInv, CleanupOK, HandoffPC
<1>10. BroadcastsOK'
  BY DEF RelayInv, BroadcastsOK
<1> QED BY <1>4, <1>5, <1>6, <1>7, <1>8, <1>9, <1>10 DEF RelayInv

LEMMA MarkPossiblyPreparedOK ==
  ASSUME TypeOK, RelayInv, NEW s \in Stream, MarkPossiblyPrepared(s)
  PROVE  RelayInv'
<1>1. op[s].pc = "mark" /\ UNCHANGED <<comp, external, issued>>
  BY DEF MarkPossiblyPrepared, At
<1>2. ~claim.dispatched
  BY <1>1 DEF RelayInv, StartOK, HandoffPC
<1> DEFINE m == [claim EXCEPT !.prepared = TRUE]
<1>3. /\ m.stream = claim.stream /\ m.id = claim.id /\ m.state = claim.state
      /\ m.prepared /\ m.dispatched = claim.dispatched /\ m.stopped = claim.stopped
  BY DEF TypeOK, Claim
<1>4. \/ claim' = m /\ Goto(s, "prepare") /\ UNCHANGED status
      \/ /\ claim' = m \/ UNCHANGED claim
         /\ Goto(s, "reconcile") \/ Goto(s, "converge")
         /\ UNCHANGED status \/ SetStatus(s, "failed")
  BY DEF MarkPossiblyPrepared
<1> HIDE DEF m
<1>5. CASE claim' = m /\ Goto(s, "prepare") /\ UNCHANGED status
  BY <1>1, <1>2, <1>3, <1>5, AdvancedOK DEF HandoffPC
<1>6. CASE /\ claim' = m \/ UNCHANGED claim
           /\ Goto(s, "reconcile") \/ Goto(s, "converge")
           /\ UNCHANGED status \/ SetStatus(s, "failed")
  <2>1. ClaimMoves
    BY <1>2, <1>3, <1>6 DEF ClaimMoves
  <2>2. OpsSettle
    BY <1>6, GotoSettles DEF RestPC, PC, HandoffPC
  <2>3. \A t \in Stream : status'[t] = "completed" => status[t] = "completed"
    BY <1>6, StatusSettles
  <2>4. RestSettles /\ BroadcastsClose
    BY <1>1, <2>3 DEF RestSettles, BroadcastsClose, external
  <2> QED BY <2>1, <2>2, <2>4, SettledOK
<1> QED BY <1>4, <1>5, <1>6

LEMMA PrepareOK ==
  ASSUME TypeOK, RelayInv, NEW s \in Stream, Prepare(s)
  PROVE  RelayInv'
<1> USE DEF OnAir
<1>1. /\ op[s].pc = "prepare"
      /\ UNCHANGED <<status, claim, comp, sending, inflight, issued>>
  BY DEF Prepare, At
<1>2. /\ claim.stream = s /\ claim.id = op[s].id /\ claim.prepared /\ ~claim.dispatched
      /\ ~claim.stopped
  BY <1>1 DEF RelayInv, StartOK, HandoffPC
<1>3. /\ op'[s].pc \in {"finalize", "fence"} /\ op'[s].id = op[s].id
      /\ op'[s].kind = op[s].kind /\ op'[s].enc = op[s].enc /\ op'[s].all = op[s].all
      /\ \A t \in Stream : t # s => op'[t] = op[t]
  <2>1. op[s] \in Op /\ DOMAIN op = Stream
    BY DEF TypeOK
  <2>2. PICK pc \in {"finalize", "fence"} :
          \/ op' = [op EXCEPT ![s].pc = pc, ![s].known = TRUE]
          \/ op' = [op EXCEPT ![s].pc = pc]
    BY DEF Prepare
  <2> DEFINE r == [op[s] EXCEPT !.pc = pc, !.known = TRUE]
             q == [op[s] EXCEPT !.pc = pc]
  <2>3. /\ r.pc = pc /\ r.id = op[s].id /\ r.kind = op[s].kind
        /\ r.enc = op[s].enc /\ r.all = op[s].all
    BY <2>1 DEF Op
  <2>4. /\ q.pc = pc /\ q.id = op[s].id /\ q.kind = op[s].kind
        /\ q.enc = op[s].enc /\ q.all = op[s].all
    BY <2>1 DEF Op
  <2>5. op' = [op EXCEPT ![s] = r] \/ op' = [op EXCEPT ![s] = q]
    BY <2>1, <2>2
  <2> HIDE DEF r, q
  <2>6. op'[s] \in {r, q} /\ \A t \in Stream : t # s => op'[t] = op[t]
    BY <2>1, <2>5
  <2> QED BY <2>3, <2>4, <2>6
<1>4. \A n \in Id : n # claim.id => broadcast'[n] = broadcast[n]
  BY <1>2 DEF Prepare, TypeOK
<1>5. SenderFenced' /\ ClaimOK' /\ QuietOK'
  BY <1>1, <1>3 DEF RelayInv, SenderFenced, ClaimOK, QuietOK
<1>6. StartOK'
  BY <1>1, <1>2, <1>3 DEF RelayInv, StartOK, HandoffPC
<1>7. IdsOK' /\ CompOK'
  BY <1>1, <1>3 DEF RelayInv, IdsOK, CompOK, HandoffPC
<1>8. CleanupOK'
  <2>1. \A t \in Stream : op'[t].pc = "resolve" => /\ op'[t] = op[t] /\ op[t].id # claim.id
                                                 /\ op[t].id \in Id
    BY <1>1, <1>2, <1>3 DEF RelayInv, IdsOK, TypeOK, Op
  <2> QED BY <1>1, <1>3, <1>4, <2>1 DEF RelayInv, CleanupOK
<1>9. BroadcastsOK'
  <2>1. claim.id <= issued /\ claim.id \in Nat /\ issued \in Nat
    BY RelayAssumption DEF RelayInv, ClaimOK, TypeOK, Claim, Id
  <2>2. \A n \in Id : n > issued => n # claim.id
    BY <2>1 DEF Id
  <2> QED BY <1>1, <1>2, <1>4, <2>2 DEF RelayInv, BroadcastsOK
<1> QED BY <1>5, <1>6, <1>7, <1>8, <1>9 DEF RelayInv

LEMMA FinalizeOK ==
  ASSUME TypeOK, RelayInv, NEW s \in Stream, Finalize(s)
  PROVE  RelayInv'
<1>1. op[s].pc = "finalize" /\ UNCHANGED <<status, comp, external, issued>>
  BY DEF Finalize, At
<1>2. ~claim.dispatched
  BY <1>1 DEF RelayInv, StartOK, HandoffPC
<1> DEFINE m == [claim EXCEPT !.state = "prepared", !.known = TRUE]
<1>3. /\ m.stream = claim.stream /\ m.id = claim.id /\ m.state = "prepared"
      /\ m.prepared = claim.prepared /\ m.dispatched = claim.dispatched
      /\ m.stopped = claim.stopped
  BY DEF TypeOK, Claim
<1>4. claim' \in {claim, m} /\ (Goto(s, "handoff") \/ Goto(s, "fence"))
  BY DEF Finalize
<1> HIDE DEF m
<1> QED BY <1>1, <1>2, <1>3, <1>4, AdvancedOK DEF HandoffPC

LEMMA MarkPossiblyDispatchedOK ==
  ASSUME TypeOK, RelayInv, NEW s \in Stream, MarkPossiblyDispatched(s)
  PROVE  RelayInv'
<1>1. op[s].pc = "handoff" /\ UNCHANGED <<status, comp, external, issued>>
  BY DEF MarkPossiblyDispatched, At
<1>2. ~claim.dispatched
  BY <1>1 DEF RelayInv, StartOK, HandoffPC
<1> DEFINE m == [claim EXCEPT !.dispatched = TRUE]
<1>3. /\ m.stream = claim.stream /\ m.id = claim.id /\ m.state = claim.state
      /\ m.prepared = claim.prepared /\ m.dispatched /\ m.stopped = claim.stopped
  BY DEF TypeOK, Claim
<1>4. \/ claim.state = "prepared" /\ claim' = m /\ (Goto(s, "dispatch") \/ Goto(s, "fence"))
      \/ UNCHANGED claim /\ Goto(s, "fence")
  BY DEF MarkPossiblyDispatched, PreparedFor
<1> HIDE DEF m
<1>5. CASE claim.state = "prepared" /\ claim' = m /\ (Goto(s, "dispatch") \/ Goto(s, "fence"))
  BY <1>1, <1>3, <1>5, AdvancedOK DEF HandoffPC
<1>6. CASE UNCHANGED claim /\ Goto(s, "fence")
  BY <1>1, <1>2, <1>6, AdvancedOK DEF HandoffPC
<1> QED BY <1>4, <1>5, <1>6

(* The Encoder is told to start only under the stream's own claim. *)
LEMMA DispatchStartOK ==
  ASSUME TypeOK, RelayInv, NEW s \in Stream, DispatchStart(s)
  PROVE  RelayInv'
<1> USE DEF OnAir
<1>1. op[s].pc = "dispatch" /\ UNCHANGED <<status, claim, comp, broadcast, issued>>
  BY DEF DispatchStart, At
<1>2. /\ claim.stream = s /\ claim.id = op[s].id /\ claim.dispatched /\ ~claim.stopped
      /\ status[s] # "completed" /\ ~op[s].enc /\ ~op[s].all
  BY <1>1 DEF RelayInv, StartOK, HandoffPC
<1>3. PICK pc \in {"complete", "failed"} : Goto(s, pc)
  BY DEF DispatchStart
<1>4. /\ op'[s].pc = pc /\ op'[s].kind = op[s].kind /\ op'[s].id = op[s].id
      /\ op'[s].enc = op[s].enc /\ op'[s].all = op[s].all
      /\ \A t \in Stream : t # s => op'[t] = op[t]
  BY <1>3, GotoFacts
<1>5. sending' \union inflight' \subseteq sending \union inflight \union {s}
  BY DEF DispatchStart
<1>6. SenderFenced' /\ QuietOK'
  BY <1>1, <1>2, <1>4, <1>5 DEF RelayInv, SenderFenced, QuietOK
<1>7. StartOK' /\ ClaimOK' /\ IdsOK'
  BY <1>1, <1>2, <1>4 DEF RelayInv, StartOK, ClaimOK, IdsOK, HandoffPC
<1>8. CompOK'
  BY <1>1, <1>2, <1>4 DEF RelayInv, CompOK, HandoffPC
<1>9. CleanupOK' /\ BroadcastsOK'
  BY <1>1, <1>4 DEF RelayInv, CleanupOK, BroadcastsOK
<1> QED BY <1>6, <1>7, <1>8, <1>9 DEF RelayInv

(* A stop or recovery handler goes on; at most a receipt is recorded, for a  *)
(* stream that is off the air.                                             *)
Moved(s) ==
  /\ \A t \in Stream : t # s => op'[t] = op[t]
  /\ op'[s].pc \notin HandoffPC \union {"reserve"}
  /\ op'[s].id <= issued
  /\ op'[s].id # 0 /\ op'[s].id = claim.id => claim.stream = s
  /\ op'[s].kind = "recover" => op'[s].id # 0
  /\ op'[s].pc \in {"recoverStop", "cleanup", "resolve"} => op'[s].kind = "recover"
  /\ op'[s].enc \/ op'[s].all \/ op'[s].pc = "completeStop" => s \notin sending' \union inflight'
  /\ op'[s].pc = "cleanup" /\ claim'.id = op'[s].id => claim'.stopped \/ ~claim'.dispatched
  /\ op'[s].pc = "resolve" => broadcast'[op'[s].id] # "open"
Receipted(s) ==
  /\ claim'.stream = claim.stream /\ claim'.id = claim.id /\ claim'.state = claim.state
  /\ claim'.prepared = claim.prepared /\ claim'.dispatched = claim.dispatched
  /\ \/ claim'.stopped = claim.stopped
     \/ /\ claim.stream = s /\ claim.dispatched /\ claim'.stopped
        /\ op[s].pc \notin HandoffPC /\ s \notin sending' \union inflight'

LEMMA MovedOK ==
  ASSUME TypeOK, RelayInv, NEW s \in Stream, Moved(s), Receipted(s),
         UNCHANGED <<status, comp, issued>>, BroadcastsClose,
         sending' \union inflight' \subseteq sending \union inflight
  PROVE  RelayInv'
<1> USE DEF OnAir
<1>1. SenderFenced'
  BY DEF RelayInv, SenderFenced, Receipted
<1>2. StartOK'
  BY DEF RelayInv, StartOK, Moved, Receipted
<1>3. ClaimOK'
  BY DEF RelayInv, ClaimOK, Receipted
<1>4. QuietOK'
  BY DEF RelayInv, QuietOK, Moved
<1>5. IdsOK'
  BY DEF RelayInv, IdsOK, Moved, Receipted
<1>6. CompOK'
  BY DEF RelayInv, CompOK, Moved, Receipted
<1>7. CleanupOK'
  <2>1. \A t \in Stream : op[t].pc = "resolve" => op[t].id \in Id
    BY DEF RelayInv, IdsOK, TypeOK, Op
  <2>2. \A t \in Stream : t # s /\ op'[t].pc = "cleanup" /\ claim'.id = op'[t].id
                            => claim'.stopped \/ ~claim'.dispatched
    BY DEF RelayInv, CleanupOK, Moved, Receipted
  <2>3. \A t \in Stream : t # s /\ op'[t].pc = "resolve" => broadcast'[op'[t].id] # "open"
    BY <2>1 DEF RelayInv, CleanupOK, Moved, BroadcastsClose
  <2> QED BY <2>2, <2>3 DEF CleanupOK, Moved
<1>8. BroadcastsOK'
  <2>1. claim.state = "reserved" => claim.id \in Id
    BY DEF RelayInv, ClaimOK, TypeOK, Claim
  <2> QED BY <2>1 DEF RelayInv, BroadcastsOK, Receipted, BroadcastsClose
<1> QED BY <1>1, <1>2, <1>3, <1>4, <1>5, <1>6, <1>7, <1>8 DEF RelayInv

(* Where a handler that only moves its pc goes. *)
LEMMA GotoMoves ==
  ASSUME TypeOK, RelayInv, NEW s \in Stream,
         NEW pc \in PC \ (HandoffPC \union {"reserve"}), Goto(s, pc),
         pc \in {"recoverStop", "cleanup", "resolve"} => op[s].kind = "recover",
         pc = "completeStop" => s \notin sending \union inflight,
         sending' \union inflight' \subseteq sending \union inflight,
         pc = "cleanup" /\ claim'.id = op[s].id => claim'.stopped \/ ~claim'.dispatched,
         pc = "resolve" => broadcast'[op[s].id] # "open"
  PROVE  Moved(s)
<1>1. /\ op'[s].pc = pc /\ op'[s].kind = op[s].kind /\ op'[s].id = op[s].id
      /\ op'[s].enc = op[s].enc /\ op'[s].all = op[s].all
      /\ \A t \in Stream : t # s => op'[t] = op[t]
  BY GotoFacts
<1>2. /\ op[s].id <= issued
      /\ op[s].id # 0 /\ op[s].id = claim.id => claim.stream = s
      /\ op[s].kind = "recover" => op[s].id # 0
      /\ op[s].enc \/ op[s].all => s \notin sending \union inflight
  BY DEF RelayInv, IdsOK, QuietOK, OnAir
<1> QED BY <1>1, <1>2 DEF Moved

LEMMA ReturnMoves ==
  ASSUME TypeOK, NEW s \in Stream, Return(s)
  PROVE  Moved(s)
<1>1. 0 <= issued
  BY RelayAssumption DEF TypeOK, Id
<1> QED BY <1>1, ReturnFacts DEF Moved, HandoffPC

LEMMA ClaimReceipted ==
  ASSUME NEW s, UNCHANGED claim
  PROVE  Receipted(s)
BY DEF Receipted

LEMMA StopReceipted ==
  ASSUME TypeOK, NEW s, claim' = [claim EXCEPT !.stopped = TRUE],
         claim.stream = s, claim.dispatched, op[s].pc \notin HandoffPC,
         s \notin sending' \union inflight'
  PROVE  Receipted(s)
<1>1. /\ claim'.stream = claim.stream /\ claim'.id = claim.id /\ claim'.state = claim.state
      /\ claim'.prepared = claim.prepared /\ claim'.dispatched = claim.dispatched
      /\ claim'.stopped
  BY DEF TypeOK, Claim
<1> QED BY <1>1 DEF Receipted

(* The Encoder's positive answer, or its ignorance of a stream without a   *)
(* claim, is what a stop may rely on.                                      *)
LEMMA DispatchStopOK ==
  ASSUME TypeOK, RelayInv, NEW s \in Stream, DispatchStop(s)
  PROVE  RelayInv'
<1>1. PICK a \in Answer, others \in BOOLEAN :
        LET all == others /\ (a = "ok" \/ Normalized(s, a)) IN
        /\ StopAnswers(s, a)
        /\ op' = [op EXCEPT ![s].enc = (a = "ok"), ![s].all = all,
                    ![s].pc = CASE ~all /\ op[s].kind = "stop" -> "failStop"
                                [] ~all /\ op[s].kind = "heartbeat" -> "abandon"
                                [] OTHER -> "receipt"]
  BY DEF DispatchStop
<1> DEFINE all == others /\ (a = "ok" \/ Normalized(s, a))
           pc == CASE ~all /\ op[s].kind = "stop" -> "failStop"
                   [] ~all /\ op[s].kind = "heartbeat" -> "abandon"
                   [] OTHER -> "receipt"
           r == [op[s] EXCEPT !.enc = (a = "ok"), !.all = all, !.pc = pc]
<1>2. pc \in {"failStop", "abandon", "receipt"}
  OBVIOUS
<1>3. op[s] \in Op /\ op \in [Stream -> Op]
  BY DEF TypeOK
<1>4. op' = [op EXCEPT ![s] = r]
  <2> HIDE DEF pc, all
  <2>1. op' = [op EXCEPT ![s].enc = (a = "ok"), ![s].all = all, ![s].pc = pc]
    BY <1>1 DEF pc, all
  <2> QED BY <1>3, <2>1
<1>5. /\ r.pc = pc /\ r.id = op[s].id /\ r.kind = op[s].kind
      /\ r.enc = (a = "ok") /\ r.all = all
  <2> HIDE DEF pc, all
  <2> QED BY <1>3 DEF Op
<1>6. /\ a = "ok" => s \notin sending' \union inflight'
      /\ a # "ok" /\ all => claim.stream # s
      /\ sending' \union inflight' \subseteq sending \union inflight
  BY <1>1 DEF StopAnswers, Normalized
<1>7. claim.stream # s => s \notin sending \union inflight
  BY DEF RelayInv, SenderFenced
<1> HIDE DEF r, pc, all
<1>8. op'[s] = r /\ \A t \in Stream : t # s => op'[t] = op[t]
  BY <1>3, <1>4
<1>9. r.enc \/ r.all => s \notin sending' \union inflight'
  BY <1>5, <1>6, <1>7
<1>10. /\ op[s].id <= issued
       /\ op[s].id # 0 /\ op[s].id = claim.id => claim.stream = s
       /\ op[s].kind = "recover" => op[s].id # 0
  BY DEF RelayInv, IdsOK
<1>11. Moved(s)
  BY <1>2, <1>5, <1>8, <1>9, <1>10 DEF Moved, HandoffPC
<1>12. UNCHANGED <<status, claim, comp, issued, broadcast>>
  BY <1>1 DEF DispatchStop, StopAnswers
<1> QED BY <1>6, <1>11, <1>12, MovedOK, ClaimReceipted DEF BroadcastsClose

LEMMA ReceiptOK ==
  ASSUME TypeOK, RelayInv, NEW s \in Stream, Receipt(s)
  PROVE  RelayInv'
<1>1. UNCHANGED <<status, comp, issued, broadcast, sending, inflight>> /\ op[s].pc = "receipt"
  BY DEF Receipt, At, external
<1>2. op[s].enc \/ op[s].all => s \notin sending \union inflight
  BY DEF RelayInv, QuietOK, OnAir
<1>3. Receipted(s)
  <2>1. CASE /\ op[s].enc /\ claim.stream = s /\ claim.dispatched
             /\ claim' = [claim EXCEPT !.stopped = TRUE]
    BY <1>1, <1>2, <2>1, StopReceipted DEF HandoffPC
  <2> QED BY <2>1, ClaimReceipted DEF Receipt, PreparedFor
<1>4. Moved(s)
  <2>1. \/ op[s].all /\ Goto(s, "completeStop")
        \/ Goto(s, "abandon")
    BY DEF Receipt
  <2> QED BY <1>1, <1>2, <2>1, GotoMoves DEF PC, HandoffPC
<1> QED BY <1>1, <1>3, <1>4, MovedOK DEF BroadcastsClose

(* The recovery route acts on the claim it found. *)
LEMMA RecoverBeginOK ==
  ASSUME TypeOK, RelayInv, NEW s \in Stream, RecoverBegin(s)
  PROVE  RelayInv'
<1> DEFINE r == [NoOp EXCEPT !.pc = "reconcile", !.kind = "recover", !.id = claim.id]
<1>1. r.pc = "reconcile" /\ r.kind = "recover" /\ r.id = claim.id /\ r.enc = FALSE /\ r.all = FALSE
  BY DEF NoOp
<1>2. op'[s] = r /\ \A t \in Stream : t # s => op'[t] = op[t]
  BY DEF RecoverBegin, TypeOK
<1> HIDE DEF r
<1>3. claim.stream = s /\ claim.id # 0 /\ claim.id <= issued
  BY DEF RecoverBegin, RelayInv, ClaimOK
<1>4. UNCHANGED <<status, claim, comp, issued, broadcast, sending, inflight>>
  BY DEF RecoverBegin, external
<1>5. Moved(s)
  BY <1>1, <1>2, <1>3 DEF Moved, HandoffPC
<1> QED BY <1>4, <1>5, MovedOK, ClaimReceipted DEF BroadcastsClose

LEMMA RecoverStopOK ==
  ASSUME TypeOK, RelayInv, NEW s \in Stream, RecoverStop(s)
  PROVE  RelayInv'
<1>1. op[s].pc = "recoverStop" /\ op[s].kind = "recover" /\ Same(s)
  BY DEF RecoverStop, At, RelayInv, IdsOK
<1>2. UNCHANGED <<status, comp, issued>>
  BY DEF RecoverStop
<1>3. CASE claim.stopped /\ Goto(s, "cleanup") /\ UNCHANGED <<claim, external>>
  <2>1. UNCHANGED <<sending, inflight, broadcast>>
    BY <1>3 DEF external
  <2>2. Moved(s)
    BY <1>1, <1>3, <2>1, GotoMoves DEF PC, HandoffPC
  <2> QED BY <1>2, <1>3, <2>1, <2>2, MovedOK, ClaimReceipted DEF BroadcastsClose
<1>4. ASSUME NEW a \in Answer, StopAnswers(s, a),
             \/ ~claim.dispatched /\ Goto(s, "cleanup") /\ UNCHANGED claim
             \/ /\ StopConfirmed(a, claim.dispatched) /\ claim.dispatched
                /\ claim' = [claim EXCEPT !.stopped = TRUE]
                /\ Goto(s, "cleanup") \/ Return(s)
             \/ Return(s) /\ UNCHANGED claim
      PROVE  RelayInv'
  <2>1. /\ sending' \union inflight' \subseteq sending \union inflight
        /\ BroadcastsClose
    BY <1>4, AnswerSettles DEF BroadcastsClose
  <2>2. CASE UNCHANGED claim /\ (Return(s) \/ (~claim.dispatched /\ Goto(s, "cleanup")))
    <3>1. Moved(s)
      BY <1>1, <2>1, <2>2, GotoMoves, ReturnMoves DEF PC, HandoffPC
    <3> QED BY <1>2, <2>1, <2>2, <3>1, MovedOK, ClaimReceipted
  <2>3. CASE /\ StopConfirmed(a, claim.dispatched) /\ claim.dispatched
             /\ claim' = [claim EXCEPT !.stopped = TRUE]
             /\ Goto(s, "cleanup") \/ Return(s)
    <3>1. s \notin sending' \union inflight'
      BY <1>4, <2>3 DEF StopConfirmed, StopAnswers
    <3>2. Receipted(s)
      BY <1>1, <2>3, <3>1, StopReceipted DEF Same, HandoffPC
    <3>3. claim'.stopped
      BY <2>3 DEF TypeOK, Claim
    <3>4. Moved(s)
      BY <1>1, <2>1, <2>3, <3>3, GotoMoves, ReturnMoves DEF PC, HandoffPC
    <3> QED BY <1>2, <2>1, <3>2, <3>4, MovedOK
  <2> QED BY <1>4, <2>2, <2>3
<1> QED BY <1>3, <1>4 DEF RecoverStop

LEMMA RecoverCleanupOK ==
  ASSUME TypeOK, RelayInv, NEW s \in Stream, RecoverCleanup(s)
  PROVE  RelayInv'
<1>1. op[s].pc = "cleanup" /\ op[s].kind = "recover" /\ op[s].id \in Id
  BY DEF RecoverCleanup, At, RelayInv, IdsOK, TypeOK, Op
<1>2. UNCHANGED <<status, claim, comp, issued, sending, inflight>>
  BY DEF RecoverCleanup
<1>3. BroadcastsClose
  BY DEF RecoverCleanup, BroadcastsClose, TypeOK
<1>4. Moved(s)
  <2>1. CASE broadcast' = [broadcast EXCEPT ![op[s].id] = "closed"] /\ Goto(s, "resolve")
    <3>1. broadcast'[op[s].id] # "open"
      BY <1>1, <2>1 DEF TypeOK
    <3> QED BY <1>1, <1>2, <2>1, <3>1, GotoMoves DEF PC, HandoffPC
  <2> QED BY <2>1, ReturnMoves DEF RecoverCleanup
<1> QED BY <1>2, <1>3, <1>4, MovedOK, ClaimReceipted

(* A completion begins with the runtime of a completed stream, which is    *)
(* that of the claim.                                                      *)
LEMMA CompletionBegins ==
  ASSUME TypeOK, RelayInv, RuntimeFenced, NEW c \in Stream \union Completer, NEW s \in Stream,
         UNCHANGED <<claim, issued, sending, inflight>>, s \notin OnAir,
         op[s].pc \notin HandoffPC,
         \A t \in Stream : op'[t].pc \in HandoffPC => op'[t] = op[t],
         \A d \in Stream \union Completer : d # c => comp'[d] = comp[d],
         \/ comp'[c].pc = "idle"
         \/ runtime[s] # 0 /\ comp'[c].id = runtime[s]
  PROVE  CompOK'
<1> USE DEF OnAir
<1>1. runtime[s] # 0 => claim.stream = s /\ claim.id = runtime[s]
  BY DEF RuntimeFenced, PreparedFor
<1>2. claim.stream = s => \A t \in Stream : op[t].pc \notin HandoffPC
  BY DEF RelayInv, StartOK
<1>3. comp'[c].pc # "idle" => /\ comp'[c].id <= issued'
                             /\ \A t \in Stream : op'[t].pc \notin HandoffPC
                             /\ claim'.stream \notin sending' \union inflight'
  BY <1>1, <1>2 DEF RelayInv, ClaimOK
<1>4. ASSUME NEW d \in Stream \union Completer, d # c, comp'[d].pc # "idle"
      PROVE  /\ comp'[d].id <= issued'
             /\ \A t \in Stream : op'[t].pc \in HandoffPC => comp'[d].id # op'[t].id
             /\ comp'[d].id = claim'.id => claim'.stream \notin sending' \union inflight'
  BY <1>4 DEF RelayInv, CompOK
<1> QED BY <1>3, <1>4 DEF CompOK

LEMMA CompleteStopOK ==
  ASSUME TypeOK, RelayInv, RuntimeFenced, NEW s \in Stream, CompleteStop(s)
  PROVE  RelayInv'
<1> USE DEF OnAir
<1>1. /\ op[s].pc = "completeStop" /\ s \notin OnAir
      /\ UNCHANGED <<claim, issued, broadcast, sending, inflight>>
  BY DEF CompleteStop, At, external, RelayInv, QuietOK
<1>2. CASE Return(s) /\ UNCHANGED <<status, comp>>
  <2>1. RestSettles /\ BroadcastsClose
    BY <1>1, <1>2 DEF RestSettles, BroadcastsClose
  <2> QED BY <1>1, <1>2, <2>1, ReturnSettles, ClaimStays, SettledOK
<1>3. CASE /\ SetStatus(s, "completed") /\ Goto(s, "finish")
           /\ comp' = [comp EXCEPT ![s] =
                 IF runtime[s] = 0 THEN NoComp
                 ELSE [pc |-> "provider", stream |-> s, id |-> runtime[s]]]
  <2>1. /\ op'[s].pc = "finish" /\ op'[s].kind = op[s].kind /\ op'[s].id = op[s].id
        /\ op'[s].enc = op[s].enc /\ op'[s].all = op[s].all
        /\ \A t \in Stream : t # s => op'[t] = op[t]
    BY <1>3, GotoFacts
  <2>2. \A t \in Stream : t # s => status'[t] = status[t]
    BY <1>3 DEF SetStatus, TypeOK
  <2>3. SenderFenced' /\ ClaimOK' /\ BroadcastsOK'
    BY <1>1 DEF RelayInv, SenderFenced, ClaimOK, BroadcastsOK
  <2>4. StartOK' /\ QuietOK'
    BY <1>1, <2>1, <2>2 DEF RelayInv, StartOK, QuietOK, HandoffPC
  <2>5. IdsOK' /\ CleanupOK'
    BY <1>1, <2>1 DEF RelayInv, IdsOK, CleanupOK
  <2>6. CompOK'
    <3>1. \A d \in Stream \union Completer : d # s => comp'[d] = comp[d]
      BY <1>3 DEF TypeOK
    <3>2. comp'[s].pc = "idle" \/ (runtime[s] # 0 /\ comp'[s].id = runtime[s])
      BY <1>3 DEF TypeOK, NoComp
    <3> QED BY <1>1, <2>1, <3>1, <3>2, CompletionBegins DEF HandoffPC
  <2> QED BY <2>3, <2>4, <2>5, <2>6 DEF RelayInv
<1> QED BY <1>2, <1>3 DEF CompleteStop

LEMMA CompleteRuntimeOK ==
  ASSUME TypeOK, RelayInv, RuntimeFenced, NEW c \in Completer, NEW s \in Stream,
         CompleteRuntime(c, s)
  PROVE  RelayInv'
<1> USE DEF OnAir
<1>1. /\ UNCHANGED <<status, claim, op, issued, broadcast, sending, inflight>>
      /\ runtime[s] # 0 /\ status[s] = "completed"
  BY DEF CompleteRuntime, external
<1>2. s \notin OnAir /\ op[s].pc \notin HandoffPC
  BY <1>1 DEF RelayInv, QuietOK, StartOK
<1>3. CompOK'
  <2>1. \A d \in Stream \union Completer : d # c => comp'[d] = comp[d]
    BY DEF CompleteRuntime, TypeOK
  <2>2. comp'[c].id = runtime[s]
    BY DEF CompleteRuntime, TypeOK
  <2> QED BY <1>1, <1>2, <2>1, <2>2, CompletionBegins
<1>4. SenderFenced' /\ StartOK' /\ ClaimOK' /\ QuietOK'
  BY <1>1 DEF RelayInv, SenderFenced, StartOK, ClaimOK, QuietOK
<1>5. IdsOK' /\ CleanupOK' /\ BroadcastsOK'
  BY <1>1 DEF RelayInv, IdsOK, CleanupOK, BroadcastsOK
<1> QED BY <1>3, <1>4, <1>5 DEF RelayInv

(* The invariant holds in the initial state and every step keeps it. *)
LEMMA InitRelay ==
  Init => RelayInv
<1> SUFFICES ASSUME Init PROVE RelayInv
  OBVIOUS
<1>1. /\ claim.stream = NoStream /\ claim.id = 0 /\ claim.state = "none"
      /\ claim.prepared = FALSE /\ claim.dispatched = FALSE /\ claim.stopped = FALSE
  BY DEF Init, NoClaim
<1>2. \A s \in Stream : /\ op[s].pc = "idle" /\ op[s].kind = "none" /\ op[s].id = 0
                        /\ op[s].enc = FALSE /\ op[s].all = FALSE
  BY DEF Init, NoOp
<1>3. \A c \in Stream \union Completer : comp[c].pc = "idle"
  BY DEF Init, NoComp
<1>4. sending \union inflight = {} /\ issued = 0
  BY DEF Init
<1>5. \A n \in Id : broadcast[n] # "open"
  BY DEF Init
<1>6. SenderFenced /\ QuietOK /\ CompOK
  BY <1>3, <1>4 DEF SenderFenced, QuietOK, CompOK, OnAir
<1>7. StartOK /\ IdsOK /\ CleanupOK
  BY <1>1, <1>2, <1>4 DEF StartOK, IdsOK, CleanupOK, HandoffPC
<1>8. ClaimOK /\ BroadcastsOK
  BY <1>1, <1>4, <1>5, RelayAssumption DEF ClaimOK, BroadcastsOK
<1> QED BY <1>6, <1>7, <1>8 DEF RelayInv

LEMMA NextRelay ==
  ASSUME TypeOK, RuntimeFenced, RelayInv, [Next]_vars
  PROVE  RelayInv'
<1>1. ASSUME NEW s \in Stream, StartStep(s) PROVE RelayInv'
  BY <1>1, StartClaimOK, ReserveOK, CalmOK, MarkPossiblyPreparedOK, ReconcileReservedOK,
     PrepareOK, MarkRecoveryRequiredOK, FinalizeOK, MarkPossiblyDispatchedOK, DispatchStartOK,
     AbandonOK DEF StartStep
<1>2. ASSUME NEW s \in Stream, StopStep(s) PROVE RelayInv'
  BY <1>2, CalmOK, DispatchStopOK, ReceiptOK, CompleteStopOK DEF StopStep
<1>3. ASSUME NEW s \in Stream, RecoverStep(s) PROVE RelayInv'
  BY <1>3, RecoverBeginOK, RecoverReconcileOK, RecoverStopOK, RecoverCleanupOK, ResolveOK
     DEF RecoverStep
<1>4. ASSUME NEW s \in Stream, MarkFailed(s) \/ Crash(s) \/ LateStart(s) \/ EncoderDies(s)
      PROVE  RelayInv'
  BY <1>4, CalmOK, EncoderOK
<1>5. ASSUME NEW c \in Completer, NEW s \in Stream, CompleteRuntime(c, s) PROVE RelayInv'
  BY <1>5, CompleteRuntimeOK
<1>6. ASSUME NEW c \in Stream \union Completer, CompleteBroadcast(c) \/ Release(c)
      PROVE  RelayInv'
  BY <1>6, CompleteBroadcastOK, ReleaseOK
<1>7. ASSUME NEW c \in Completer, Interrupted(c) PROVE RelayInv'
  BY <1>7, InterruptedOK
<1>8. CASE UNCHANGED vars
  <2>1. UNCHANGED <<status, claim, op, comp, external, issued>>
    BY <1>8 DEF vars
  <2> QED BY <2>1, OpsStay, NothingElse, ClaimStays, SettledOK
<1> QED BY <1>1, <1>2, <1>3, <1>4, <1>5, <1>6, <1>7, <1>8 DEF Next

(* What a handler relies on between two of its steps (its claim, the        *)
(* Encoder's answers, the Broadcast it closed) holds whatever the other     *)
(* handlers, the completion worker, the operator and the Encoder do.        *)
THEOREM RelayInvariant == Spec => []RelayInv
<1>1. Init => RelayInv
  BY InitRelay
<1>2. TypeOK /\ RuntimeFenced /\ RelayInv /\ [Next]_vars => RelayInv'
  BY NextRelay
<1> QED BY <1>1, <1>2, TypeCorrect, RuntimeStaysFenced, PTL DEF Spec

(* While an Encoder pushes to the relay, or may yet execute a Start, the
   binding is claimed by that very stream, handed off and without a stop
   receipt: no second stream is ever given the relay under a sender. *)
THEOREM SenderStaysFenced == Spec => []SenderFenced
<1>1. RelayInv => SenderFenced
  BY DEF RelayInv
<1> QED BY <1>1, RelayInvariant, PTL

(* The steps that close Broadcasts, and the steps that change the claim. *)
LEMMA BroadcastSteps ==
  ASSUME [Next]_vars, broadcast' # broadcast
  PROVE  \/ \E s \in Stream : Prepare(s) \/ RecoverCleanup(s)
         \/ \E c \in Stream \union Completer : CompleteBroadcast(c)
<1>1. ASSUME NEW s \in Stream, StartStep(s) PROVE Prepare(s)
  BY <1>1 DEF StartStep, StartClaim, Reserve, Converge, MarkPossiblyPrepared,
              ReconcileReserved, MarkRecoveryRequired, Finalize, MarkPossiblyDispatched,
              DispatchStart, CompleteStart, FailStart, FailPreparedStart, Compensate, Abandon,
              StopAnswers, external
<1>2. ASSUME NEW s \in Stream, StopStep(s) PROVE FALSE
  BY <1>2 DEF StopStep, StopClaim, HeartbeatFail, DispatchStop, FailStop, Receipt,
              CompleteStop, Rearm, StopAnswers, external
<1>3. ASSUME NEW s \in Stream, RecoverStep(s) PROVE RecoverCleanup(s)
  BY <1>3 DEF RecoverStep, RecoverBegin, RecoverReconcile, RecoverStop, ResolveRecovery,
              StopAnswers, external
<1>4. ASSUME NEW s \in Stream, MarkFailed(s) \/ Crash(s) \/ LateStart(s) \/ EncoderDies(s)
      PROVE  FALSE
  BY <1>4 DEF MarkFailed, Crash, LateStart, EncoderDies, external
<1>5. ASSUME NEW c \in Completer, NEW s \in Stream, CompleteRuntime(c, s) PROVE FALSE
  BY <1>5 DEF CompleteRuntime, external
<1>6. ASSUME NEW c \in Stream \union Completer, Release(c) PROVE FALSE
  BY <1>6 DEF Release, external
<1>7. ASSUME NEW c \in Completer, Interrupted(c) PROVE FALSE
  BY <1>7 DEF Interrupted, external
<1>8. ~UNCHANGED vars
  BY DEF vars, external
<1> QED BY <1>1, <1>2, <1>3, <1>4, <1>5, <1>6, <1>7, <1>8 DEF Next

(* Completion, deletion and the operator's word close the Broadcast of the
   current claim only when no Encoder pushes to it, nor may yet begin to:
   a Broadcast is not taken from under a live stream. *)
THEOREM CompletionIsQuiet == Spec => CompletedQuiet
<1> DEFINE Quiet == \A n \in Id :
                      broadcast[n] = "open" /\ broadcast'[n] = "closed" /\ claim.id = n
                        => claim.stream \notin sending \union inflight
<1>1. ASSUME TypeOK, RelayInv, [Next]_vars PROVE Quiet
  <2> SUFFICES ASSUME NEW n \in Id, broadcast[n] = "open", broadcast'[n] = "closed",
                      claim.id = n
               PROVE  claim.stream \notin sending \union inflight
    OBVIOUS
  <2>1. broadcast' # broadcast
    OBVIOUS
  <2>2. CASE \E s \in Stream : Prepare(s)
    <3>1. PICK s \in Stream : Prepare(s)
      BY <2>2
    <3>2. ~claim.dispatched
      BY <1>1, <3>1 DEF Prepare, At, RelayInv, StartOK, HandoffPC
    <3> QED BY <1>1, <3>2 DEF RelayInv, SenderFenced
  <2>3. CASE \E s \in Stream : RecoverCleanup(s)
    <3>1. PICK s \in Stream : RecoverCleanup(s)
      BY <2>3
    <3>2. op[s].id = n
      BY <1>1, <3>1 DEF RecoverCleanup, TypeOK
    <3>3. claim.stopped \/ ~claim.dispatched
      BY <1>1, <3>1, <3>2 DEF RecoverCleanup, At, RelayInv, CleanupOK
    <3> QED BY <1>1, <3>3 DEF RelayInv, SenderFenced
  <2>4. CASE \E c \in Stream \union Completer : CompleteBroadcast(c)
    <3>1. PICK c \in Stream \union Completer : CompleteBroadcast(c)
      BY <2>4
    <3>2. comp[c].id = n /\ comp[c].pc # "idle"
      BY <1>1, <3>1 DEF CompleteBroadcast, TypeOK
    <3> QED BY <1>1, <3>2 DEF RelayInv, CompOK, OnAir
  <2> QED BY <1>1, <2>1, <2>2, <2>3, <2>4, BroadcastSteps
<1>2. TypeOK /\ RelayInv /\ [Next]_vars => [Quiet]_vars
  BY <1>1
<1> HIDE DEF Quiet
<1>3. Spec => [][Quiet]_vars
  BY <1>2, TypeCorrect, RelayInvariant, PTL DEF Spec
<1> QED BY <1>3 DEF CompletedQuiet, Quiet

(* The claim leaves a reservation, or a recovery, in three ways only. *)
LEMMA ClaimSteps ==
  ASSUME TypeOK, RelayInv, [Next]_vars, claim'.id # claim.id,
         claim.state \in {"reserved", "recovery_required"}
  PROVE  \E s \in Stream : \/ ReconcileReserved(s) /\ claim' = ReconciledReserved(claim)
                           \/ RecoverReconcile(s) /\ claim' = ReconciledReserved(claim)
                           \/ ResolveRecovery(s) /\ Same(s)
<1>0. /\ claim # NoClaim
      /\ [claim EXCEPT !.prepared = TRUE].id = claim.id
      /\ [claim EXCEPT !.dispatched = TRUE].id = claim.id
      /\ [claim EXCEPT !.stopped = TRUE].id = claim.id
      /\ [claim EXCEPT !.state = "recovery_required"].id = claim.id
      /\ [claim EXCEPT !.state = "prepared", !.known = TRUE].id = claim.id
  BY DEF TypeOK, Claim, NoClaim
<1>1. ASSUME NEW s \in Stream, StartStep(s)
      PROVE  ReconcileReserved(s) /\ claim' = ReconciledReserved(claim)
  <2>1. CASE Reserve(s) \/ MarkPossiblyPrepared(s) \/ Finalize(s) \/ MarkPossiblyDispatched(s)
    BY <1>0, <2>1 DEF Reserve, MarkPossiblyPrepared, Finalize, MarkPossiblyDispatched
  <2>2. CASE MarkRecoveryRequired(s) \/ Abandon(s)
    <3>1. \/ UNCHANGED claim
          \/ claim' = [claim EXCEPT !.state = "recovery_required"]
          \/ claim' = [claim EXCEPT !.state = "recovery_required", !.known = op[s].known]
      BY <2>2 DEF MarkRecoveryRequired, Abandon
    <3>2. claim'.id = claim.id
      BY <3>1 DEF TypeOK, Claim
    <3> QED BY <3>2
  <2>3. CASE ReconcileReserved(s)
    BY <2>3 DEF ReconcileReserved
  <2>4. CASE \/ StartClaim(s) \/ Converge(s) \/ Prepare(s) \/ DispatchStart(s)
             \/ CompleteStart(s) \/ FailStart(s) \/ FailPreparedStart(s) \/ Compensate(s)
    BY <2>4 DEF StartClaim, Converge, Prepare, DispatchStart, CompleteStart, FailStart,
                FailPreparedStart, Compensate
  <2> QED BY <1>1, <2>1, <2>2, <2>3, <2>4 DEF StartStep
<1>2. ASSUME NEW s \in Stream, StopStep(s) PROVE FALSE
  BY <1>0, <1>2 DEF StopStep, StopClaim, HeartbeatFail, DispatchStop, FailStop, Receipt,
                    CompleteStop, Rearm
<1>3. ASSUME NEW s \in Stream, RecoverStep(s)
      PROVE  \/ RecoverReconcile(s) /\ claim' = ReconciledReserved(claim)
             \/ ResolveRecovery(s) /\ Same(s)
  BY <1>0, <1>3 DEF RecoverStep, RecoverBegin, RecoverReconcile, RecoverStop, RecoverCleanup,
                    ResolveRecovery
<1>4. ASSUME NEW s \in Stream, MarkFailed(s) \/ Crash(s) \/ LateStart(s) \/ EncoderDies(s)
      PROVE  FALSE
  BY <1>4 DEF MarkFailed, Crash, LateStart, EncoderDies
<1>5. ASSUME NEW c \in Completer, NEW s \in Stream, CompleteRuntime(c, s) PROVE FALSE
  BY <1>5 DEF CompleteRuntime
<1>6. ASSUME NEW c \in Stream \union Completer, CompleteBroadcast(c) \/ Release(c) PROVE FALSE
  BY <1>6 DEF CompleteBroadcast, Release, PreparedFor
<1>7. ASSUME NEW c \in Completer, Interrupted(c) PROVE FALSE
  BY <1>7 DEF Interrupted
<1>8. ~UNCHANGED vars
  BY DEF vars
<1> QED BY <1>1, <1>2, <1>3, <1>4, <1>5, <1>6, <1>7, <1>8 DEF Next

(* Neither a failed start nor the recovery route gives a claim up while its
   Broadcast is open: a reservation is dropped only before the hand-off to
   YouTube, a recovery claim only by the handler that closed its Broadcast. *)
THEOREM RecoveryLeaksNothing == Spec => RecoveryNeverLeaks
<1> DEFINE Kept == claim.state \in {"reserved", "recovery_required"} /\ claim'.id # claim.id
                     => broadcast[claim.id] # "open"
<1>1. ASSUME TypeOK, RelayInv, [Next]_vars PROVE Kept
  <2> SUFFICES ASSUME claim.state \in {"reserved", "recovery_required"}, claim'.id # claim.id
               PROVE  broadcast[claim.id] # "open"
    OBVIOUS
  <2>1. PICK s \in Stream : \/ claim' = ReconciledReserved(claim)
                            \/ ResolveRecovery(s) /\ Same(s)
    BY <1>1, ClaimSteps
  <2>2. CASE claim' = ReconciledReserved(claim)
    <3>1. claim.state = "reserved" /\ ~claim.prepared
      <4>1. [claim EXCEPT !.state = "recovery_required", !.known = FALSE].id = claim.id
        BY <1>1 DEF TypeOK, Claim
      <4> QED BY <2>2, <4>1 DEF ReconciledReserved
    <3> QED BY <1>1, <3>1 DEF RelayInv, BroadcastsOK
  <2>3. CASE ResolveRecovery(s) /\ Same(s)
    BY <1>1, <2>3 DEF ResolveRecovery, At, Same, RelayInv, CleanupOK
  <2> QED BY <2>1, <2>2, <2>3
<1>2. TypeOK /\ RelayInv /\ [Next]_vars => [Kept]_vars
  BY <1>1
<1> HIDE DEF Kept
<1>3. Spec => [][Kept]_vars
  BY <1>2, TypeCorrect, RelayInvariant, PTL DEF Spec
<1> QED BY <1>3 DEF RecoveryNeverLeaks, Kept
=============================================================================
