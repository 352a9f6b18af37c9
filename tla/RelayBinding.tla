---------------------------- MODULE RelayBinding ----------------------------
(***************************************************************************)
(* One fixed relay binding (a pre-provisioned YouTube LiveStream behind the *)
(* Encoder's local relay) and the streams whose output names it.  A start  *)
(* reserves the binding, marks the hand-off to YouTube before it calls it, *)
(* finalises claim and runtime together, marks the hand-off to the Encoder *)
(* before it dispatches; stops, completions and the recovery route take    *)
(* the claim down again.  The lifecycle mutex serialises the handlers of a *)
(* stream; the completion worker, the manual completion route and the      *)
(* operator's "mark failed" run outside it.  Any response may be lost.     *)
(***************************************************************************)
EXTENDS Naturals

CONSTANTS
  Stream, NoStream,
  Completer,    \* the completion worker and manual completion requests
  AutoStart,    \* streams with auto_start_trigger = discord voice join
  MaxClaims     \* bound on the reservations ever made

ASSUME RelayAssumption ==
  /\ NoStream \notin Stream
  /\ Stream \intersect Completer = {}
  /\ AutoStart \subseteq Stream
  /\ MaxClaims \in Nat

VARIABLES
  status,       \* streams.status
  pending,      \* a row of stream_normal_stop_pending
  claim,        \* the row of stream_youtube_relay_binding_claims
  runtime,      \* broadcast of the row of stream_youtube_runtimes (0: none)
  retry,        \* runtime.complete_next_retry_at is set
  op,           \* the handler holding the stream's lifecycle mutex
  comp,         \* completeYouTubeRuntime under way, per handler or completer
  broadcast,    \* external: the YouTube Broadcasts
  sending,      \* external: streams whose Encoder pushes to the relay
  inflight,     \* external: streams whose Start the Encoder may yet execute
  issued        \* number of reservations so far

external == <<broadcast, sending, inflight>>
vars == <<status, pending, claim, runtime, retry, op, comp, external, issued>>

Status == {"ready", "starting", "live", "stopping", "completed", "failed"}
Active(st) == st \in {"starting", "live", "stopping"}
ReceiptStatus == {"stopping", "failed", "completed"}
Id == 1 .. MaxClaims

\* id: reservation token, and the broadcast it may own; prepared and
\* dispatched: the two hand-off marks; stopped: encoder_stop_confirmed_at is
\* set; known: broadcast_id is a provider id, not the placeholder.
Claim == [stream : Stream \union {NoStream}, id : Id \union {0},
          state : {"none", "reserved", "prepared", "recovery_required"},
          prepared : BOOLEAN, dispatched : BOOLEAN, stopped : BOOLEAN,
          known : BOOLEAN]
NoClaim == [stream |-> NoStream, id |-> 0, state |-> "none", prepared |-> FALSE,
            dispatched |-> FALSE, stopped |-> FALSE, known |-> FALSE]

PC == {"idle", "reserve", "mark", "reconcile", "prepare", "fence", "finalize",
       "handoff", "dispatch", "complete", "failed", "compensate", "undo",
       "abandon", "converge", "stop", "failStop", "receipt", "completeStop",
       "finish", "recoverStop", "cleanup", "resolve"}

\* own: the row still has the version this handler wrote; id, known: the
\* claim it read; enc, all: what the Encoder and all services acknowledged.
Op == [pc : PC, kind : {"none", "start", "stop", "force", "heartbeat", "recover"},
       own : BOOLEAN, id : Id \union {0}, known : BOOLEAN, enc : BOOLEAN,
       all : BOOLEAN]
NoOp == [pc |-> "idle", kind |-> "none", own |-> FALSE, id |-> 0,
         known |-> FALSE, enc |-> FALSE, all |-> FALSE]

Comp == [pc : {"idle", "provider", "release"}, stream : Stream \union {NoStream},
         id : Id \union {0}]
NoComp == [pc |-> "idle", stream |-> NoStream, id |-> 0]

TypeOK ==
  /\ status \in [Stream -> Status]
  /\ pending \in [Stream -> BOOLEAN]
  /\ claim \in Claim
  /\ runtime \in [Stream -> Id \union {0}]
  /\ retry \in [Stream -> BOOLEAN]
  /\ op \in [Stream -> Op]
  /\ comp \in [Stream \union Completer -> Comp]
  /\ broadcast \in [Id -> {"none", "open", "closed"}]
  /\ sending \subseteq Stream /\ inflight \subseteq Stream
  /\ issued \in Id \union {0}

Init ==
  /\ status = [s \in Stream |-> "ready"]
  /\ pending = [s \in Stream |-> FALSE]
  /\ claim = NoClaim
  /\ runtime = [s \in Stream |-> 0]
  /\ retry = [s \in Stream |-> FALSE]
  /\ op = [s \in Stream |-> NoOp]
  /\ comp = [c \in Stream \union Completer |-> NoComp]
  /\ broadcast = [n \in Id |-> "none"]
  /\ sending = {} /\ inflight = {}
  /\ issued = 0

-----------------------------------------------------------------------------
(* Helpers.                                                                *)

At(s, pc) == op[s].pc = pc
Goto(s, pc) == op' = [op EXCEPT ![s].pc = pc]
Return(s) == op' = [op EXCEPT ![s] = NoOp]
SetStatus(s, st) == status' = [status EXCEPT ![s] = st]

\* sameYouTubeRelayBindingReservation with the claim the handler holds
Same(s) == claim.stream = s /\ claim.id = op[s].id
\* TransitionClaimedStreamStart: the row this start claimed, still starting
Owned(s) == op[s].own /\ status[s] = "starting"
\* GetStreamYouTubeRelayBindingClaimForStream and runtimeMatches...
PreparedFor(s) ==
  /\ claim.stream = s /\ claim.state = "prepared"
  /\ runtime[s] = claim.id

DropRuntime(s) ==
  /\ runtime' = [runtime EXCEPT ![s] = 0]
  /\ retry' = [retry EXCEPT ![s] = FALSE]
KeepRuntime == UNCHANGED <<runtime, retry>>

\* The Encoder's answer to a Stop.  A positive answer means that it knew the
\* stream, so the one Start it was sent has been executed; "not_running" says
\* nothing of a Start still under way; an error says nothing at all.
StopAnswers(s, a) ==
  /\ UNCHANGED <<broadcast, inflight>>
  /\ \/ a = "ok" /\ s \notin inflight /\ sending' = sending \ {s}
     \/ a = "not_running" /\ s \notin sending /\ UNCHANGED sending
     \/ a = "error" /\ sending' = sending \ {s}
     \/ a = "error" /\ UNCHANGED sending
Answer == {"ok", "not_running", "error"}

-----------------------------------------------------------------------------
(* Start, up to the first external call.                                   *)

\* The ownership claim: a startable row without a pending stop.
StartClaim(s) ==
  /\ op[s] = NoOp
  /\ status[s] \in {"ready", "failed"} /\ ~pending[s]
  /\ SetStatus(s, "starting")
  /\ op' = [op EXCEPT ![s] = [NoOp EXCEPT !.pc = "reserve", !.kind = "start",
                                          !.own = TRUE]]
  /\ UNCHANGED <<pending, claim, runtime, retry, comp, external, issued>>

\* Readiness, credentials, changed profile, a claim of any stream on the
\* binding, or a lost answer: the start converges to failed.
Reserve(s) ==
  /\ At(s, "reserve")
  /\ \/ /\ status[s] = "starting" /\ claim = NoClaim
        /\ issued < MaxClaims
        /\ issued' = issued + 1
        /\ claim' = [NoClaim EXCEPT !.stream = s, !.id = issued + 1,
                                    !.state = "reserved"]
        /\ \E pc \in {"mark", "converge"} :
             op' = [op EXCEPT ![s].pc = pc, ![s].id = issued + 1]
     \/ Goto(s, "converge") /\ UNCHANGED <<claim, issued>>
  /\ UNCHANGED <<status, pending, runtime, retry, comp, external>>

\* convergeRelayStaticPreDispatchFailure
Converge(s) ==
  /\ At(s, "converge")
  /\ IF Owned(s) THEN SetStatus(s, "failed") ELSE UNCHANGED status
  /\ Return(s)
  /\ UNCHANGED <<pending, claim, runtime, retry, comp, external, issued>>

Markable(s) ==
  /\ status[s] = "starting" /\ Same(s)
  /\ claim.state = "reserved" /\ ~claim.dispatched
  /\ runtime[s] = 0

\* The mark precedes the call.  When its answer is lost the start is failed
\* first and the claim reconciled from what was stored.
MarkPossiblyPrepared(s) ==
  /\ At(s, "mark")
  /\ LET marked == [claim EXCEPT !.prepared = TRUE] IN
     \/ /\ Markable(s) /\ claim' = marked
        /\ Goto(s, "prepare")
        /\ UNCHANGED status
     \/ /\ (Markable(s) /\ claim' = marked) \/ UNCHANGED claim
        /\ \/ /\ IF Owned(s) THEN SetStatus(s, "failed") ELSE UNCHANGED status
              /\ Goto(s, "reconcile")
           \/ Goto(s, "converge") /\ UNCHANGED status
  /\ UNCHANGED <<pending, runtime, retry, comp, external, issued>>

ReconciledReservedAlways(c) ==
  IF c.state = "reserved" THEN NoClaim ELSE c

\* A reservation that never reached YouTube is released, one that may have
\* is kept for recovery with the placeholder broadcast.
ReconciledReserved(c) ==
  CASE c.state = "reserved" /\ ~c.prepared -> NoClaim
    [] c.state = "reserved" /\ c.prepared ->
         [c EXCEPT !.state = "recovery_required", !.known = FALSE]
    [] OTHER -> c

\* ReconcileReserved...AfterPrepareFence at the end of a failed start
ReconcileReserved(s) ==
  /\ At(s, "reconcile") /\ op[s].kind = "start"
  /\ \/ /\ ~Active(status[s]) /\ Same(s) /\ claim.state # "prepared"
        /\ runtime[s] = 0
        /\ claim' = ReconciledReserved(claim)
     \/ UNCHANGED claim
  /\ Goto(s, "converge")
  /\ UNCHANGED <<status, pending, runtime, retry, comp, external, issued>>

\* PrepareRelayStatic: the Broadcast exists, or was created and may or may
\* not have been cleaned up, or nobody knows.
Prepare(s) ==
  /\ At(s, "prepare")
  /\ \/ /\ broadcast' = [broadcast EXCEPT ![op[s].id] = "open"]
        /\ op' = [op EXCEPT ![s].pc = "finalize", ![s].known = TRUE]
     \/ \E b \in {"open", "closed"} :
          /\ broadcast' = [broadcast EXCEPT ![op[s].id] = b]
          /\ op' = [op EXCEPT ![s].pc = "fence", ![s].known = TRUE]
     \/ \E b \in {"none", "open", "closed"} :
          /\ broadcast' = [broadcast EXCEPT ![op[s].id] = b]
          /\ op' = [op EXCEPT ![s].pc = "fence"]
  /\ UNCHANGED <<status, pending, claim, runtime, retry, comp, sending,
                 inflight, issued>>

\* MarkStreamYouTubeRelayBindingClaimRecoveryRequired: never past the
\* Encoder hand-off; a prepared runtime goes with it.
MarkRecoveryRequired(s) ==
  /\ At(s, "fence")
  /\ \/ /\ Same(s) /\ ~claim.dispatched
        /\ \/ claim.state = "reserved" /\ runtime[s] = 0
           \/ PreparedFor(s)
        /\ claim' = [claim EXCEPT !.state = "recovery_required",
                                  !.known = op[s].known]
        /\ DropRuntime(s)
     \/ UNCHANGED claim /\ KeepRuntime
  /\ Goto(s, "converge")
  /\ UNCHANGED <<status, pending, comp, external, issued>>

\* FinalizeStreamYouTubeRuntimeAndMarkRelayBindingPrepared: claim and runtime
\* in one transaction; a lost answer continues only if both are seen.
Finalize(s) ==
  /\ At(s, "finalize")
  /\ \/ /\ status[s] = "starting" /\ Same(s)
        /\ claim.state = "reserved" /\ claim.prepared /\ ~claim.dispatched
        /\ runtime[s] = 0
        /\ claim' = [claim EXCEPT !.state = "prepared", !.known = TRUE]
        /\ runtime' = [runtime EXCEPT ![s] = claim.id]
        /\ retry' = [retry EXCEPT ![s] = FALSE]
        /\ Goto(s, "handoff") \/ Goto(s, "fence")
     \/ Goto(s, "fence") /\ UNCHANGED claim /\ KeepRuntime
  /\ UNCHANGED <<status, pending, comp, external, issued>>

-----------------------------------------------------------------------------
(* Start, the Encoder.                                                     *)

\* markYouTubeRelayStaticPossiblyDispatched
MarkPossiblyDispatched(s) ==
  /\ At(s, "handoff")
  /\ \/ /\ status[s] = "starting" /\ Same(s) /\ PreparedFor(s) /\ ~retry[s]
        /\ claim' = [claim EXCEPT !.dispatched = TRUE]
        /\ Goto(s, "dispatch") \/ Goto(s, "fence")
     \/ Goto(s, "fence") /\ UNCHANGED claim
  /\ UNCHANGED <<status, pending, runtime, retry, comp, external, issued>>

\* dispatcher.Start: acknowledged by every service; or a service failed, and
\* the Encoder has started, may still start, or never will.
DispatchStart(s) ==
  /\ At(s, "dispatch")
  /\ \/ Goto(s, "complete") /\ sending' = sending \union {s} /\ UNCHANGED inflight
     \/ Goto(s, "failed") /\ sending' = sending \union {s} /\ UNCHANGED inflight
     \/ Goto(s, "failed") /\ inflight' = inflight \union {s} /\ UNCHANGED sending
     \/ Goto(s, "failed") /\ UNCHANGED <<sending, inflight>>
  /\ UNCHANGED <<status, pending, claim, runtime, retry, comp, broadcast, issued>>

SupersededRequiresStop(st) == st \in {"stopping", "completed", "failed"}
Superseded(s) ==
  /\ status[s] # "starting"
  /\ IF SupersededRequiresStop(status[s]) THEN Goto(s, "undo") ELSE Return(s)

CompleteStart(s) ==
  /\ At(s, "complete")
  /\ \/ status[s] = "starting" /\ SetStatus(s, "live") /\ Return(s)
     \/ Superseded(s) /\ UNCHANGED status
     \/ \* recording the cover or the burn-in failed
        \/ Owned(s) /\ SetStatus(s, "failed") /\ Goto(s, "undo")
        \/ ~Owned(s) /\ Return(s) /\ UNCHANGED status
  /\ UNCHANGED <<pending, claim, runtime, retry, comp, external, issued>>

FailStart(s) ==
  /\ At(s, "failed")
  /\ \/ Owned(s) /\ SetStatus(s, "failed") /\ Goto(s, "compensate")
     \/ Superseded(s) /\ UNCHANGED status
  /\ UNCHANGED <<pending, claim, runtime, retry, comp, external, issued>>

\* failPreparedStreamStart: cleanup first, and only a confirmed cleanup by
\* the current owner fails the row.
FailPreparedStart(s) ==
  /\ At(s, "failed") \/ At(s, "complete")
  /\ \E a \in Answer : StopAnswers(s, a)
  /\ \/ Owned(s) /\ SetStatus(s, "failed") /\ Goto(s, "abandon")
     \/ Return(s) /\ UNCHANGED status
  /\ UNCHANGED <<pending, claim, runtime, retry, comp, issued>>

\* The best-effort Stop after a failed or superseded start.
Compensate(s) ==
  /\ At(s, "compensate") \/ At(s, "undo")
  /\ \E a \in Answer : StopAnswers(s, a)
  /\ IF At(s, "compensate") THEN Goto(s, "abandon") ELSE Return(s)
  /\ UNCHANGED <<status, pending, claim, runtime, retry, comp, issued>>

AbandonKeepingRuntime(s) ==
  /\ At(s, "abandon")
  /\ PreparedFor(s) /\ status[s] = "failed" /\ claim.dispatched
  /\ claim' = [claim EXCEPT !.state = "recovery_required"]
  /\ KeepRuntime
  /\ Return(s)
  /\ UNCHANGED <<status, pending, comp, external, issued>>

\* abandonYouTubeRelayStaticRuntimeForUnconfirmedDispatch
Abandon(s) ==
  /\ At(s, "abandon")
  /\ \/ /\ PreparedFor(s) /\ status[s] = "failed" /\ claim.dispatched
        /\ claim' = [claim EXCEPT !.state = "recovery_required"]
        /\ DropRuntime(s)
     \/ UNCHANGED claim /\ KeepRuntime
  /\ Return(s)
  /\ UNCHANGED <<status, pending, comp, external, issued>>

-----------------------------------------------------------------------------
(* Stop, force stop and heartbeat failure.                                 *)

Begin(s, k) ==
  op' = [op EXCEPT ![s] = [NoOp EXCEPT !.pc = "stop", !.kind = k, !.own = TRUE]]

StopClaim(s) ==
  /\ op[s] = NoOp
  /\ \/ /\ status[s] \in {"starting", "live", "failed"}
        /\ SetStatus(s, "stopping") /\ Begin(s, "stop")
     \/ /\ Active(status[s]) \/ status[s] = "failed"
        /\ SetStatus(s, "failed") /\ Begin(s, "force")
  /\ pending' = [pending EXCEPT ![s] = TRUE]
  /\ UNCHANGED <<claim, runtime, retry, comp, external, issued>>

HeartbeatFail(s) ==
  /\ op[s] = NoOp
  /\ status[s] = "live"
  /\ SetStatus(s, "failed") /\ Begin(s, "heartbeat")
  /\ UNCHANGED <<pending, claim, runtime, retry, comp, external, issued>>

NormalizedAlways(s, a) == a = "not_running" /\ op[s].kind = "stop"

\* normalizeManualStopAlreadyStoppedResults: the Encoder's no-process answer
\* counts for a normal stop of a stream that has no claim.
Normalized(s, a) ==
  a = "not_running" /\ op[s].kind = "stop" /\ claim.stream # s

\* dispatcher.Stop; the other services may fail on their own.
DispatchStop(s) ==
  /\ At(s, "stop")
  /\ \E a \in Answer, others \in BOOLEAN :
       LET all == others /\ (a = "ok" \/ Normalized(s, a)) IN
       /\ StopAnswers(s, a)
       /\ op' = [op EXCEPT ![s].enc = (a = "ok"), ![s].all = all,
                   ![s].pc = CASE ~all /\ op[s].kind = "stop" -> "failStop"
                               [] ~all /\ op[s].kind = "heartbeat" -> "abandon"
                               [] OTHER -> "receipt"]
  /\ UNCHANGED <<status, pending, claim, runtime, retry, comp, issued>>

\* FailNormalStop; a stop that was overtaken leaves everything alone.
FailStop(s) ==
  /\ At(s, "failStop")
  /\ \/ /\ op[s].own /\ status[s] = "stopping"
        /\ SetStatus(s, "failed") /\ Goto(s, "receipt")
     \/ ~(op[s].own /\ status[s] = "stopping") /\ Return(s) /\ UNCHANGED status
  /\ UNCHANGED <<pending, claim, runtime, retry, comp, external, issued>>

\* markYouTubeRelayStaticEncoderStopConfirmed
Receipt(s) ==
  /\ At(s, "receipt")
  /\ \/ /\ op[s].enc /\ PreparedFor(s) /\ claim.dispatched
        /\ status[s] \in ReceiptStatus
        /\ claim' = [claim EXCEPT !.stopped = TRUE]
     \/ UNCHANGED claim
  /\ IF op[s].all /\ op[s].kind # "heartbeat" THEN Goto(s, "completeStop")
                                              ELSE Goto(s, "abandon")
  /\ UNCHANGED <<status, pending, runtime, retry, comp, external, issued>>

StopTarget(k) == IF k = "stop" THEN "stopping" ELSE "failed"

\* CompleteNormalStop, CompleteConfirmedForceStop; then the handler completes
\* the YouTube runtime as a completer does.
CompleteStop(s) ==
  /\ At(s, "completeStop")
  /\ IF op[s].own /\ status[s] = StopTarget(op[s].kind)
       THEN /\ SetStatus(s, "completed")
            /\ pending' = [pending EXCEPT ![s] = FALSE]
            /\ Goto(s, "finish")
            /\ comp' = [comp EXCEPT ![s] =
                 IF runtime[s] = 0 THEN NoComp
                 ELSE [pc |-> "provider", stream |-> s, id |-> runtime[s]]]
       ELSE Return(s) /\ UNCHANGED <<status, pending, comp>>
  /\ UNCHANGED <<claim, runtime, retry, external, issued>>

\* ensureAutoStartWaitingStream, whatever became of the completion.
Rearm(s) ==
  /\ At(s, "finish") /\ comp[s] = NoComp
  /\ IF s \in AutoStart /\ status[s] = "completed"
       THEN SetStatus(s, "ready") ELSE UNCHANGED status
  /\ Return(s)
  /\ UNCHANGED <<pending, claim, runtime, retry, comp, external, issued>>

\* markStreamFailed: no mutex, no version, no Stop.
MarkFailed(s) ==
  /\ SetStatus(s, "failed")
  /\ op' = [op EXCEPT ![s].own = FALSE]
  /\ UNCHANGED <<pending, claim, runtime, retry, comp, external, issued>>

-----------------------------------------------------------------------------
(* completeYouTubeRuntime, by a stop, the worker or the manual route.      *)

Done(c) == comp' = [comp EXCEPT ![c] = NoComp]

\* The runtime is read and the stream is completed.
CompleteRuntime(c, s) ==
  /\ comp[c] = NoComp
  /\ runtime[s] # 0 /\ status[s] = "completed"
  /\ comp' = [comp EXCEPT ![c] = [pc |-> "provider", stream |-> s,
                                  id |-> runtime[s]]]
  /\ UNCHANGED <<status, pending, claim, runtime, retry, op, external, issued>>

\* recordYouTubeRuntimeCompleteFailure, by stream
RecordFailure(s) == retry' = [retry EXCEPT ![s] = runtime[s] # 0]

\* CompleteRelayStaticBroadcast: done, or failed with or without effect.
CompleteBroadcast(c) ==
  /\ comp[c].pc = "provider"
  /\ LET n == comp[c].id IN
     \/ /\ broadcast' = [broadcast EXCEPT ![n] = "closed"]
        /\ comp' = [comp EXCEPT ![c].pc = "release"]
        /\ UNCHANGED retry
     \/ /\ \/ broadcast' = [broadcast EXCEPT ![n] = "closed"]
           \/ UNCHANGED broadcast
        /\ RecordFailure(comp[c].stream)
        /\ Done(c)
  /\ UNCHANGED <<status, pending, claim, runtime, op, sending, inflight, issued>>

\* The claim of the stream is read now, and claim and runtime are removed if
\* the stream is still completed.  A failed release is recorded for a retry; a
\* stream that is visibly no longer completed is not.
Release(c) ==
  /\ comp[c].pc = "release"
  /\ LET s == comp[c].stream IN
     \/ /\ status[s] = "completed" /\ PreparedFor(s) /\ claim.dispatched
        /\ claim' = NoClaim
        /\ DropRuntime(s)
     \/ /\ UNCHANGED <<claim, runtime>>
        /\ RecordFailure(s) \/ UNCHANGED retry
  /\ Done(c)
  /\ UNCHANGED <<status, pending, op, external, issued>>

-----------------------------------------------------------------------------
(* resolveYouTubeRelayStaticRecovery: the operator confirms that the       *)
(* external cleanup is done, the Encoder that it has stopped.              *)

RecoverBegin(s) ==
  /\ op[s] = NoOp
  /\ ~Active(status[s]) /\ claim.stream = s
  /\ op' = [op EXCEPT ![s] = [NoOp EXCEPT !.pc = "reconcile", !.kind = "recover",
                                          !.id = claim.id]]
  /\ UNCHANGED <<status, pending, claim, runtime, retry, comp, external, issued>>

\* Reserved and prepared claims become recovery claims first, or are
\* released when nothing external ever happened.
RecoverReconcile(s) ==
  /\ At(s, "reconcile") /\ op[s].kind = "recover"
  /\ \/ /\ Same(s) /\ ~Active(status[s])
        /\ claim.state # "prepared" /\ runtime[s] = 0
        /\ claim' = ReconciledReserved(claim)
        /\ IF claim' = NoClaim THEN Return(s) ELSE Goto(s, "recoverStop")
        /\ KeepRuntime
     \/ /\ Same(s) /\ PreparedFor(s) /\ status[s] = "failed"
        /\ claim' = [claim EXCEPT !.state = "recovery_required"]
        /\ DropRuntime(s)
        /\ Goto(s, "recoverStop")
     \/ Return(s) /\ UNCHANGED claim /\ KeepRuntime
  /\ UNCHANGED <<status, pending, comp, external, issued>>

StopConfirmedLoosely(a, dispatched) == a \in {"ok", "not_running"}

\* relayStaticEncoderStopConfirmed
StopConfirmed(a, dispatched) ==
  a = "ok" \/ (a = "not_running" /\ ~dispatched)

\* A fresh Stop unless a receipt is on record; for a dispatched claim the
\* receipt must be stored before the handler goes on.
RecoverStop(s) ==
  /\ At(s, "recoverStop")
  /\ \/ Same(s) /\ claim.stopped /\ Goto(s, "cleanup") /\ UNCHANGED <<claim, external>>
     \/ /\ Same(s) /\ ~claim.stopped
        /\ \E a \in Answer :
             /\ StopAnswers(s, a)
             /\ \/ /\ StopConfirmed(a, claim.dispatched) /\ ~claim.dispatched
                   /\ Goto(s, "cleanup") /\ UNCHANGED claim
                \/ /\ StopConfirmed(a, claim.dispatched) /\ claim.dispatched
                   /\ status[s] \in ReceiptStatus /\ runtime[s] = 0
                   /\ claim' = [claim EXCEPT !.stopped = TRUE]
                   /\ Goto(s, "cleanup") \/ Return(s)
                \/ Return(s) /\ UNCHANGED claim
  /\ UNCHANGED <<status, pending, runtime, retry, comp, issued>>

\* Delete for a Broadcast never handed to an Encoder, Complete for one that
\* was; an unknown one, or one whose Complete failed after a recorded
\* Encoder stop, is closed on the operator's word.
RecoverCleanup(s) ==
  /\ At(s, "cleanup")
  /\ \/ /\ claim.known \/ ~claim.dispatched
        /\ broadcast' = [broadcast EXCEPT ![op[s].id] = "closed"]
        /\ Goto(s, "resolve")
     \/ /\ Return(s)
        /\ \/ UNCHANGED broadcast
           \/ claim.known /\ broadcast' = [broadcast EXCEPT ![op[s].id] = "closed"]
  /\ UNCHANGED <<status, pending, claim, runtime, retry, comp, sending, inflight,
                 issued>>

\* ResolveStreamYouTubeRelayBindingRecovery
ResolveRecovery(s) ==
  /\ At(s, "resolve")
  /\ \/ /\ ~Active(status[s]) /\ Same(s)
        /\ claim.state = "recovery_required"
        /\ claim.dispatched => claim.stopped
        /\ runtime[s] = 0
        /\ claim' = NoClaim
     \/ UNCHANGED claim
  /\ Return(s)
  /\ UNCHANGED <<status, pending, runtime, retry, comp, external, issued>>

-----------------------------------------------------------------------------
(* What can be lost, and the Encoder.                                      *)

\* The Panel dies or a transaction fails where the handler only returns.
Crash(s) ==
  /\ op[s] # NoOp
  /\ Return(s)
  /\ Done(s)
  /\ UNCHANGED <<status, pending, claim, runtime, retry, external, issued>>

Interrupted(c) ==
  /\ c \in Completer /\ comp[c] # NoComp
  /\ Done(c)
  /\ UNCHANGED <<status, pending, claim, runtime, retry, op, external, issued>>

\* A Start whose answer nobody waits for is executed, or never was received.
LateStart(s) ==
  /\ s \in inflight
  /\ inflight' = inflight \ {s}
  /\ sending' = sending \union {s} \/ UNCHANGED sending
  /\ UNCHANGED <<status, pending, claim, runtime, retry, op, comp, broadcast, issued>>

EncoderDies(s) ==
  /\ s \in sending
  /\ sending' = sending \ {s}
  /\ UNCHANGED <<status, pending, claim, runtime, retry, op, comp, broadcast,
                 inflight, issued>>

StartStep(s) ==
  \/ StartClaim(s)
  \/ Reserve(s)
  \/ Converge(s)
  \/ MarkPossiblyPrepared(s)
  \/ ReconcileReserved(s)
  \/ Prepare(s)
  \/ MarkRecoveryRequired(s)
  \/ Finalize(s)
  \/ MarkPossiblyDispatched(s)
  \/ DispatchStart(s)
  \/ CompleteStart(s)
  \/ FailStart(s)
  \/ FailPreparedStart(s)
  \/ Compensate(s)
  \/ Abandon(s)

StopStep(s) ==
  \/ StopClaim(s)
  \/ HeartbeatFail(s)
  \/ DispatchStop(s)
  \/ FailStop(s)
  \/ Receipt(s)
  \/ CompleteStop(s)
  \/ Rearm(s)

RecoverStep(s) ==
  \/ RecoverBegin(s)
  \/ RecoverReconcile(s)
  \/ RecoverStop(s)
  \/ RecoverCleanup(s)
  \/ ResolveRecovery(s)

Next ==
  \/ \E s \in Stream : \/ StartStep(s) \/ StopStep(s) \/ RecoverStep(s)
                       \/ MarkFailed(s) \/ Crash(s) \/ LateStart(s) \/ EncoderDies(s)
  \/ \E c \in Completer, s \in Stream : CompleteRuntime(c, s)
  \/ \E c \in Stream \union Completer : CompleteBroadcast(c) \/ Release(c)
  \/ \E c \in Completer : Interrupted(c)

Spec == Init /\ [][Next]_vars

-----------------------------------------------------------------------------
(* Properties.                                                             *)

\* While the Encoder of a stream pushes to the relay, or may yet begin to,
\* the binding is claimed by that stream and marked as handed off, and no
\* Encoder-stop receipt is on record: no other stream can take the relay.
SenderFenced ==
  \A s \in sending \union inflight :
    claim.stream = s /\ claim.dispatched /\ ~claim.stopped

\* A runtime row exists exactly while the stream's claim is prepared: the
\* completion worker and the recovery route never both own a Broadcast.
RuntimeFenced ==
  \A s \in Stream :
    /\ runtime[s] # 0 => PreparedFor(s)
    /\ claim.stream = s /\ claim.state = "prepared" => runtime[s] = claim.id

\* The Panel never completes or deletes the Broadcast of the current claim
\* while an Encoder pushes to it or may yet begin to.
CompletedQuiet ==
  [][\A n \in Id :
       broadcast[n] = "open" /\ broadcast'[n] = "closed" /\ claim.id = n
         => claim.stream \notin sending \union inflight]_vars

\* A claim that was not completed normally is given up only when its
\* Broadcast is gone: neither a failed start nor the recovery route frees the
\* relay under a Broadcast that may exist.
RecoveryNeverLeaks ==
  [][claim.state \in {"reserved", "recovery_required"} /\ claim'.id # claim.id
       => broadcast[claim.id] # "open"]_vars

=============================================================================
