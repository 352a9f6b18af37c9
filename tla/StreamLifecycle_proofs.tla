----------------------- MODULE StreamLifecycle_proofs -----------------------
(***************************************************************************)
(* Proofs about StreamLifecycle, for every set of requests and Panels, any *)
(* kinds of request and any clock skew.  ClaimIsExclusive and              *)
(* OwnerGoesLive are about Panels whose clocks are at most one write       *)
(* apart, the last two theorems about a single Panel.                      *)
(***************************************************************************)
EXTENDS StreamLifecycle, TLAPS

(* Stamps and bumped stamps are natural numbers. *)
LEMMA StampsType == TypeOK => Stamps \subseteq Nat /\ \A t \in Stamps : Bumped(t) \in Nat
  BY DEF TypeOK, Stamps, Bumped

(* A stamped write stays within the types of the row's status and time. *)
LEMMA WriteType ==
  ASSUME TypeOK, NEW s \in Status, NEW t \in Nat, Write(s, t)
  PROVE  status' \in Status /\ updatedAt' \in Nat /\ clock' \in Nat
  BY DEF TypeOK, Write

(* A request record is updated within its type by the handlers' helpers. *)
LEMMA GotoType ==
  ASSUME TypeOK, NEW r \in Req, NEW pc \in PC, Goto(r, pc)
  PROVE  req' \in [Req -> Request]
  BY DEF TypeOK, Goto, Request

LEMMA UnlockType ==
  ASSUME TypeOK, NEW r \in Req, Unlock(r)
  PROVE  lock' \in [Panel -> Req \union {NoReq}]
  BY DEF TypeOK, Unlock

LEMMA ReturnType ==
  ASSUME TypeOK, NEW r \in Req, Return(r)
  PROVE  /\ req' \in [Req -> Request]
         /\ lock' \in [Panel -> Req \union {NoReq}]
  BY GotoType, UnlockType DEF Return, PC

LEMMA ReadType ==
  ASSUME TypeOK, NEW r \in Req, NEW k \in Kinds, NEW m \in {"plain", "prepared"},
         NEW pc \in PC, Read(r, k, m, pc)
  PROVE  req' \in [Req -> Request]
  BY DEF TypeOK, Read, Request

(* A claim moves the request on and remembers the stamp it wrote. *)
LEMMA ClaimType ==
  ASSUME TypeOK, NEW r \in Req, NEW t \in Nat,
         req' = [req EXCEPT ![r].pc = "dispatch", ![r].at = t]
  PROVE  req' \in [Req -> Request]
<1>1. req[r] \in Request
  BY DEF TypeOK
<1>2. [req[r] EXCEPT !.pc = "dispatch", !.at = t] \in Request
  BY <1>1 DEF Request, PC
<1>3. req' = [req EXCEPT ![r] = [req[r] EXCEPT !.pc = "dispatch", !.at = t]]
  BY DEF TypeOK
<1> QED BY <1>2, <1>3 DEF TypeOK

LEMMA OnceType ==
  ASSUME TypeOK, NEW r \in Req, NEW k \in Kinds, Once(r, k)
  PROVE  /\ req' \in [Req -> Request]
         /\ UNCHANGED <<lock, remote, owner>>
<1>1. req[r] \in Request
  BY DEF TypeOK
<1>2. [req[r] EXCEPT !.pc = "done", !.kind = k] \in Request
  BY <1>1 DEF Request, PC
<1>3. req' = [req EXCEPT ![r] = [req[r] EXCEPT !.pc = "done", !.kind = k]]
  BY DEF TypeOK, Once
<1> QED BY <1>2, <1>3 DEF TypeOK, Once

(* Starts preserve the type invariant. *)
LEMMA StartStepType ==
  ASSUME TypeOK, NEW r \in Req, StartStep(r)
  PROVE  TypeOK'
<1> USE DEF row, guards, remote
<1>0. Stamps \subseteq Nat /\ \A t \in Stamps : Bumped(t) \in Nat
  BY StampsType
<1>1. CASE StartClaim(r)
  <2>1. CASE Return(r) /\ UNCHANGED <<row, guards, clock, remote, owner, doubt>>
    BY <2>1, ReturnType DEF TypeOK
  <2>2. CASE \E now \in Stamps :
               /\ Write("starting", now)
               /\ archiveAt' = ArchiveAuthority(r, now)
               /\ archiveReported' = FALSE
               /\ owner' = r
               /\ req' = [req EXCEPT ![r].pc = "dispatch", ![r].at = now]
               /\ UNCHANGED <<deleted, guards, lock, remote, doubt>>
    <3>1. PICK now \in Stamps :
               /\ Write("starting", now)
               /\ archiveAt' = ArchiveAuthority(r, now)
               /\ archiveReported' = FALSE
               /\ owner' = r
               /\ req' = [req EXCEPT ![r].pc = "dispatch", ![r].at = now]
               /\ UNCHANGED <<deleted, guards, lock, remote, doubt>>
      BY <2>2
    <3>2. req' \in [Req -> Request]
      BY <1>0, <3>1, ClaimType
    <3>3. archiveAt' \in Nat
      BY <1>0, <3>1 DEF ArchiveAuthority
    <3>4. status' \in Status /\ updatedAt' \in Nat /\ clock' \in Nat
      BY <1>0, <3>1, WriteType DEF Status
    <3>5. UNCHANGED <<deleted, stopPending, retryPending, receipts, lock, net, acks, running, doubt>>
      BY <3>1
    <3>6. archiveReported' \in BOOLEAN /\ owner' \in Req \union {NoReq}
      BY <3>1
    <3> QED BY <3>2, <3>3, <3>4, <3>5, <3>6 DEF TypeOK
  <2> QED BY <1>1, <2>1, <2>2 DEF StartClaim, ClaimStreamStart
<1>2. CASE PreDispatchFailure(r)
  BY <1>0, <1>2, ReturnType DEF PreDispatchFailure, TypeOK, TransitionClaimed, Write, Status
<1>3. CASE StartDispatch(r)
  BY <1>3, ReturnType, GotoType DEF StartDispatch, DispatchPlain, DispatchPrepared, TypeOK, PC, Calls
<1>4. CASE CompletePlainStart(r)
  BY <1>0, <1>4, ReturnType, GotoType DEF CompletePlainStart, TypeOK, Write, Status, PC
<1>5. CASE CompletePreparedStart(r)
  BY <1>0, <1>5, ReturnType DEF CompletePreparedStart, TypeOK, TransitionClaimed, Write, Status
<1>6. CASE FailPlainStart(r)
  BY <1>0, <1>6, ReturnType, GotoType DEF FailPlainStart, TypeOK, TransitionClaimed, Write, Status, PC
<1>7. CASE FailPlainStartLate(r)
  BY <1>7, ReturnType DEF FailPlainStartLate, TypeOK
<1>8. CASE FailPreparedStart(r)
  BY <1>8, ReturnType, GotoType DEF FailPreparedStart, TypeOK, PC, Calls
<1>9. CASE CleanupPreparedStart(r)
  <2>1. req' \in [Req -> Request] /\ lock' \in [Panel -> Req \union {NoReq}]
    BY <1>9, ReturnType DEF CleanupPreparedStart
  <2>2. status' \in Status /\ updatedAt' \in Nat /\ clock' \in Nat
    BY <1>0, <1>9 DEF CleanupPreparedStart, TypeOK, TransitionClaimed, Write, Status
  <2>3. UNCHANGED <<archiveAt, archiveReported, deleted, guards, remote, owner>>
    BY <1>9 DEF CleanupPreparedStart, TransitionClaimed
  <2>4. doubt' \in BOOLEAN
    BY <1>9 DEF CleanupPreparedStart, TypeOK
  <2> QED BY <2>1, <2>2, <2>3, <2>4 DEF TypeOK
<1>10. CASE Compensate(r)
  BY <1>10, GotoType DEF Compensate, TypeOK, PC, Calls
<1>11. CASE Compensated(r)
  BY <1>11, ReturnType DEF Compensated, TypeOK
<1> QED
  BY <1>1, <1>2, <1>3, <1>4, <1>5, <1>6, <1>7, <1>8, <1>9, <1>10, <1>11 DEF StartStep

(* Stops and force stops preserve the type invariant. *)
LEMMA StopStepType ==
  ASSUME TypeOK, NEW r \in Req, StopStep(r)
  PROVE  TypeOK'
<1> USE DEF row, guards, remote
<1>0. Stamps \subseteq Nat /\ \A t \in Stamps : Bumped(t) \in Nat
  BY StampsType
<1>1. CASE StopClaim(r)
  <2>1. CASE status = req[r].status /\ updatedAt = req[r].at
    <3>1. PICK now \in Stamps :
               /\ Write(StopClaimTarget(req[r].kind), Bumped(now))
               /\ req' = [req EXCEPT ![r].pc = "dispatch", ![r].at = Bumped(now)]
      BY <1>1, <2>1 DEF StopClaim
    <3>2. req' \in [Req -> Request]
      BY <1>0, <3>1, ClaimType
    <3>3. StopClaimTarget(req[r].kind) \in Status
      BY DEF StopClaimTarget, Status
    <3>4. status' \in Status /\ updatedAt' \in Nat /\ clock' \in Nat
      BY <1>0, <3>1, <3>3, WriteType
    <3>5. UNCHANGED <<archiveAt, archiveReported, deleted, retryPending, receipts, lock, net, acks, running, owner, doubt>> /\ stopPending' = TRUE
      BY <1>1, <2>1 DEF StopClaim
    <3> QED BY <3>2, <3>4, <3>5 DEF TypeOK
  <2>2. CASE ~(status = req[r].status /\ updatedAt = req[r].at)
    BY <1>1, <2>2, ReturnType DEF StopClaim, TypeOK
  <2> QED BY <2>1, <2>2
<1>2. CASE StopDispatch(r)
  BY <1>2, GotoType DEF StopDispatch, TypeOK, PC, Calls
<1>3. CASE CompleteStop(r)
  <2>1. CASE OwnsStop(r)
    <3>1. req[r].source \in Nat
      BY DEF TypeOK, Request
    <3>2. /\ status' \in Status /\ updatedAt' \in Nat /\ clock' \in Nat
          /\ receipts' \subseteq Nat
      <4>1. CASE CompleteNormalStop(r)
        <5>1. status' \in Status /\ updatedAt' \in Nat /\ clock' \in Nat
          BY <1>0, <4>1 DEF CompleteNormalStop, Write, TypeOK, Status
        <5>2. receipts' = receipts \union {req[r].source}
          BY <4>1 DEF CompleteNormalStop
        <5> QED BY <3>1, <5>1, <5>2 DEF TypeOK
      <4>2. CASE CompleteForceStop(r)
        BY <1>0, <4>2 DEF CompleteForceStop, Write, TypeOK, Status
      <4> QED BY <1>3, <2>1, <4>1, <4>2 DEF CompleteStop
    <3>3. req' \in [Req -> Request] /\ lock' \in [Panel -> Req \union {NoReq}]
      BY <1>3, <2>1, ReturnType, GotoType DEF CompleteStop, TypeOK, PC
    <3>4. /\ UNCHANGED <<archiveAt, archiveReported, deleted, retryPending, net, acks, running, owner, doubt>>
          /\ stopPending' = FALSE
      BY <1>3, <2>1 DEF CompleteStop
    <3> QED BY <3>2, <3>3, <3>4 DEF TypeOK
  <2>2. CASE ~OwnsStop(r)
    BY <1>3, <2>2, ReturnType DEF CompleteStop, TypeOK
  <2> QED BY <2>1, <2>2
<1>4. CASE FailStop(r)
  BY <1>0, <1>4, ReturnType DEF FailStop, TypeOK, Write, Status
<1>5. CASE Rearm(r)
  BY <1>0, <1>5, ReturnType DEF Rearm, TypeOK, Write, Status
<1> QED
  BY <1>1, <1>2, <1>3, <1>4, <1>5 DEF StopStep

(* The other requests preserve the type invariant. *)
LEMMA OtherStepType ==
  ASSUME TypeOK, NEW r \in Req, OtherStep(r)
  PROVE  TypeOK'
<1> USE DEF row, guards, remote
<1>0. Stamps \subseteq Nat
  BY StampsType
<1>1. CASE HeartbeatObserve(r)
  BY <1>1, ReadType DEF HeartbeatObserve, TypeOK, PC
<1>2. CASE HeartbeatFail(r)
  BY <1>0, <1>2, ReturnType, GotoType DEF HeartbeatFail, TypeOK, Write, Status, PC
<1>3. CASE MarkFailed(r)
  <2>1. "markFailed" \in Kinds /\ Once(r, "markFailed")
    BY <1>3 DEF MarkFailed, Once
  <2>2. req' \in [Req -> Request] /\ UNCHANGED <<lock, remote, owner>>
    BY <2>1, OnceType
  <2> QED BY <1>0, <1>3, <2>2 DEF MarkFailed, TypeOK, Write, Status
<1>4. CASE ArchiveReport(r)
  <2>1. "report" \in Kinds /\ Once(r, "report")
    BY <1>4 DEF ArchiveReport, Once
  <2>2. req' \in [Req -> Request] /\ UNCHANGED <<lock, remote, owner>>
    BY <2>1, OnceType
  <2>3. updatedAt' \in Nat /\ clock' \in Nat
    BY <1>0, <1>4 DEF ArchiveReport, TypeOK
  <2>4. archiveReported' \in BOOLEAN /\ retryPending' \in BOOLEAN
    BY <1>4 DEF ArchiveReport
  <2>5. UNCHANGED <<status, archiveAt, deleted, stopPending, receipts, doubt>>
    BY <1>4 DEF ArchiveReport
  <2> QED BY <2>2, <2>3, <2>4, <2>5 DEF TypeOK
<1>5. CASE ArchiveRetry(r)
  <2>1. "retry" \in Kinds /\ Once(r, "retry")
    BY <1>5 DEF ArchiveRetry, Once
  <2>2. req' \in [Req -> Request] /\ UNCHANGED <<lock, remote, owner>>
    BY <2>1, OnceType
  <2>3. updatedAt' \in Nat /\ clock' \in Nat
    BY <1>0, <1>5 DEF ArchiveRetry, TypeOK
  <2>4. archiveReported' \in BOOLEAN /\ retryPending' \in BOOLEAN
    BY <1>5 DEF ArchiveRetry
  <2>5. UNCHANGED <<status, archiveAt, deleted, stopPending, receipts, doubt>>
    BY <1>5 DEF ArchiveRetry
  <2> QED BY <2>2, <2>3, <2>4, <2>5 DEF TypeOK
<1>6. CASE Delete(r)
  <2>1. "delete" \in Kinds /\ Once(r, "delete")
    BY <1>6 DEF Delete, Once
  <2>2. req' \in [Req -> Request] /\ UNCHANGED <<lock, remote, owner>>
    BY <2>1, OnceType
  <2> QED BY <1>0, <1>6, <2>2 DEF Delete, TypeOK, Write, Status
<1>7. CASE WriteSettings(r)
  BY <1>0, <1>7, ReturnType DEF WriteSettings, TypeOK
<1>8. CASE Lost(r)
  BY <1>8, ReturnType DEF Lost, TypeOK
<1> QED
  BY <1>1, <1>2, <1>3, <1>4, <1>5, <1>6, <1>7, <1>8 DEF OtherStep

(* Every step preserves the type invariant. *)
LEMMA NextType == TypeOK /\ [Next]_vars => TypeOK'
<1> SUFFICES ASSUME TypeOK, [Next]_vars PROVE TypeOK'
  OBVIOUS
<1>1. CASE UNCHANGED vars
  BY <1>1 DEF vars, row, guards, remote, TypeOK
<1>2. ASSUME NEW r \in Req, NEW p \in Panel, Begin(r, p) PROVE TypeOK'
  <2>1. lock' \in [Panel -> Req \union {NoReq}]
    BY <1>2 DEF Begin, TypeOK
  <2>2. req' \in [Req -> Request]
    BY <1>2, ReadType, ConstantsAssumption DEF Begin, PC
  <2> QED BY <1>2, <2>1, <2>2 DEF Begin, TypeOK, row, guards, remote
<1>3. ASSUME NEW r \in Req, NEW p \in Panel, HeartbeatRecheck(r, p) PROVE TypeOK'
  BY <1>3, GotoType DEF HeartbeatRecheck, TypeOK, PC, row, guards, remote
<1>4. ASSUME NEW c \in net, Deliver(c) PROVE TypeOK'
  <2>1. c[2] \in Req /\ c \in Calls
    BY DEF TypeOK, Calls
  <2> QED BY <1>4, <2>1 DEF Deliver, TypeOK, row, guards
<1>5. ASSUME NEW c \in net, Drop(c) PROVE TypeOK'
  BY <1>5 DEF Drop, TypeOK, row, guards
<1> QED
  BY <1>1, <1>2, <1>3, <1>4, <1>5, StartStepType, StopStepType, OtherStepType DEF Next

(* Type correctness: every reachable state of the row, the requests, the   *)
(* mutexes and the calls is of its type.                                   *)
THEOREM TypeCorrect == Spec => []TypeOK
<1>1. Init => TypeOK
  <2> SUFFICES ASSUME Init PROVE TypeOK
    OBVIOUS
  <2>1. NoRequest \in Request
    BY DEF NoRequest, Request, PC, Status
  <2>2. req \in [Req -> Request]
    BY <2>1 DEF Init
  <2> QED BY <2>2 DEF Init, TypeOK, Status
<1> QED BY <1>1, NextType, PTL DEF Spec

-----------------------------------------------------------------------------
(* A start leaves an unconfirmed stop alone: it is claimed only from an    *)
(* unprotected row, and every later write of it needs a starting or live   *)
(* one.                                                                    *)
LEMMA StartStepFenced ==
  ASSUME PendingStopFenced, NEW r \in Req, StartStep(r)
  PROVE  PendingStopFenced'
<1> USE DEF PendingStopFenced, row, guards, remote
<1>1. CASE StartClaim(r)
  BY <1>1 DEF StartClaim, ClaimStreamStart, StartClaimable, Protected, Write
<1>2. CASE PreDispatchFailure(r)
  BY <1>2 DEF PreDispatchFailure, TransitionClaimed, OwnsStart, Write
<1>3. CASE StartDispatch(r)
  BY <1>3 DEF StartDispatch, DispatchPlain, DispatchPrepared
<1>4. CASE CompletePlainStart(r)
  BY <1>4 DEF CompletePlainStart, Write
<1>5. CASE CompletePreparedStart(r)
  BY <1>5 DEF CompletePreparedStart, TransitionClaimed, OwnsStart, Write
<1>6. CASE FailPlainStart(r)
  BY <1>6 DEF FailPlainStart, TransitionClaimed, OwnsStart, Write
<1>7. CASE FailPlainStartLate(r)
  BY <1>7 DEF FailPlainStartLate
<1>8. CASE FailPreparedStart(r)
  BY <1>8 DEF FailPreparedStart
<1>9. CASE CleanupPreparedStart(r)
  BY <1>9 DEF CleanupPreparedStart, TransitionClaimed, OwnsStart, Write
<1>10. CASE Compensate(r)
  BY <1>10 DEF Compensate
<1>11. CASE Compensated(r)
  BY <1>11 DEF Compensated
<1> QED
  BY <1>1, <1>2, <1>3, <1>4, <1>5, <1>6, <1>7, <1>8, <1>9, <1>10, <1>11 DEF StartStep

(* A stop raises the mark together with the status, and completion clears  *)
(* both in one transaction.                                                *)
LEMMA StopStepFenced ==
  ASSUME PendingStopFenced, NEW r \in Req, StopStep(r)
  PROVE  PendingStopFenced'
<1> USE DEF PendingStopFenced, row, guards, remote
<1>1. CASE StopClaim(r)
  BY <1>1 DEF StopClaim, Write, StopClaimTarget
<1>2. CASE StopDispatch(r)
  BY <1>2 DEF StopDispatch
<1>3. CASE CompleteStop(r)
  BY <1>3 DEF CompleteStop
<1>4. CASE FailStop(r)
  BY <1>4 DEF FailStop, Write
<1>5. CASE Rearm(r)
  BY <1>5 DEF Rearm, Write
<1> QED
  BY <1>1, <1>2, <1>3, <1>4, <1>5 DEF StopStep

(* The other requests fail the stream, delete it unprotected, or do not    *)
(* touch its status.                                                       *)
LEMMA OtherStepFenced ==
  ASSUME PendingStopFenced, NEW r \in Req, OtherStep(r)
  PROVE  PendingStopFenced'
<1> USE DEF PendingStopFenced, row, guards, remote
<1>1. CASE HeartbeatObserve(r)
  BY <1>1 DEF HeartbeatObserve
<1>2. CASE HeartbeatFail(r)
  BY <1>2 DEF HeartbeatFail, Write
<1>3. CASE MarkFailed(r)
  BY <1>3 DEF MarkFailed, Write
<1>4. CASE ArchiveReport(r)
  BY <1>4 DEF ArchiveReport
<1>5. CASE ArchiveRetry(r)
  BY <1>5 DEF ArchiveRetry
<1>6. CASE Delete(r)
  BY <1>6 DEF Delete, Deletable, Protected, Write
<1>7. CASE WriteSettings(r)
  BY <1>7 DEF WriteSettings
<1>8. CASE Lost(r)
  BY <1>8 DEF Lost
<1> QED
  BY <1>1, <1>2, <1>3, <1>4, <1>5, <1>6, <1>7, <1>8 DEF OtherStep

(* No start, re-arm, completion or deletion overtakes an unconfirmed stop, *)
(* whatever the Panels, their clocks and the lost calls do.                *)
THEOREM StopFenced == Spec => []PendingStopFenced
<1>1. Init => PendingStopFenced
  BY DEF Init, PendingStopFenced
<1>2. PendingStopFenced /\ [Next]_vars => PendingStopFenced'
  <2> SUFFICES ASSUME PendingStopFenced, [Next]_vars PROVE PendingStopFenced'
    OBVIOUS
  <2>1. CASE UNCHANGED vars
    BY <2>1 DEF vars, row, guards, PendingStopFenced
  <2>2. ASSUME NEW r \in Req, NEW p \in Panel, Begin(r, p) PROVE PendingStopFenced'
    BY <2>2 DEF Begin, row, guards, PendingStopFenced
  <2>3. ASSUME NEW r \in Req, NEW p \in Panel, HeartbeatRecheck(r, p)
        PROVE PendingStopFenced'
    BY <2>3 DEF HeartbeatRecheck, row, guards, PendingStopFenced
  <2>4. ASSUME NEW c \in net, Deliver(c) \/ Drop(c) PROVE PendingStopFenced'
    BY <2>4 DEF Deliver, Drop, row, guards, PendingStopFenced
  <2> QED
    BY <2>1, <2>2, <2>3, <2>4, StartStepFenced, StopStepFenced, OtherStepFenced DEF Next
<1> QED BY <1>1, <1>2, PTL DEF Spec

-----------------------------------------------------------------------------
(* A Panel's clock may be behind by one write (Skew <= 1): a write may carry *)
(* the stamp of the write before it.  Two claims still differ, because some *)
(* write ends a claim before the next start can be claimed.                *)

Claiming(r) == req[r].pc \in {"dispatch", "await", "cleanup"}

\* No start can be claimed now.
Fenced == status \in {"starting", "stopping"} \/ stopPending

\* A claim is at most as new as the row, and fences it until the next write;
\* no two have the same stamp; and a start whose stamp the row still carries
\* made the last claim of a start.
ClaimsOK ==
  /\ updatedAt <= clock
  /\ \A r \in Req : Claiming(r) =>
       /\ req[r].at <= updatedAt
       /\ req[r].at = clock => Fenced
       /\ req[r].kind = "start" /\ req[r].at = updatedAt => owner = r
  /\ \A r, q \in Req : Claiming(r) /\ Claiming(q) /\ req[r].at = req[q].at => r = q

\* A start has one of the modes that starts may have.
ModesOK == \A r \in Req : req[r].kind = "start" => req[r].mode \in Modes

Ticks == clock' = clock + 1 /\ updatedAt <= updatedAt' /\ updatedAt' <= clock + 1
Still == UNCHANGED <<status, updatedAt, clock, stopPending>>

\* A new claim of r is stamped later than every claim in flight.
Claims(r) ==
  /\ Ticks /\ Fenced'
  /\ req'[r].at = updatedAt'
  /\ \A q \in Req : Claiming(q) => req[q].at < updatedAt'
  /\ req'[r].kind = "start" => owner' = r

\* What a step of request r does to the claims.
Moves(r) ==
  /\ \A q \in Req : q # r => req'[q] = req[q]
  /\ Still \/ Ticks
  /\ owner' = owner \/ Claims(r)
  /\ Claiming(r)' => \/ Claiming(r) /\ req'[r].at = req[r].at /\ req'[r].kind = req[r].kind
                     \/ Claims(r)
  /\ req'[r].kind = "start" => \/ req[r].kind = "start" /\ req'[r].mode = req[r].mode
                               \/ req'[r].mode \in Modes

(* Stamps do not go back, and a bumped stamp goes forward. *)
LEMMA StampGrows ==
  ASSUME TypeOK, Skew \in 0 .. 1, updatedAt <= clock, NEW t \in Stamps
  PROVE  /\ clock <= t /\ updatedAt <= t /\ t <= clock + 1
         /\ updatedAt < Bumped(t) /\ updatedAt <= Bumped(t) /\ Bumped(t) <= clock + 1
  BY DEF TypeOK, Stamps, Bumped

LEMMA GotoMoves ==
  ASSUME TypeOK, NEW r \in Req, NEW pc, Goto(r, pc)
  PROVE  /\ \A q \in Req : q # r => req'[q] = req[q]
         /\ req'[r].pc = pc /\ req'[r].at = req[r].at /\ req'[r].kind = req[r].kind
         /\ req'[r].mode = req[r].mode
  BY DEF TypeOK, Goto, Request

LEMMA ReturnMoves ==
  ASSUME TypeOK, NEW r \in Req, Return(r)
  PROVE  /\ \A q \in Req : q # r => req'[q] = req[q]
         /\ req'[r].pc = "done" /\ req'[r].kind = req[r].kind /\ req'[r].mode = req[r].mode
  BY GotoMoves DEF Return

LEMMA ReadMoves ==
  ASSUME TypeOK, NEW r \in Req, NEW k, NEW m, NEW pc, Read(r, k, m, pc)
  PROVE  /\ \A q \in Req : q # r => req'[q] = req[q]
         /\ req'[r].pc = pc /\ req'[r].kind = k /\ req'[r].mode = m
  BY DEF TypeOK, Read

LEMMA OnceMoves ==
  ASSUME TypeOK, NEW r \in Req, NEW k, Once(r, k)
  PROVE  /\ \A q \in Req : q # r => req'[q] = req[q]
         /\ req'[r].pc = "done" /\ req'[r].kind = k /\ owner' = owner
  BY DEF TypeOK, Once, Request

LEMMA ClaimMoves ==
  ASSUME TypeOK, NEW r \in Req, NEW t,
         req' = [req EXCEPT ![r].pc = "dispatch", ![r].at = t]
  PROVE  /\ \A q \in Req : q # r => req'[q] = req[q]
         /\ req'[r].pc = "dispatch" /\ req'[r].at = t /\ req'[r].kind = req[r].kind
         /\ req'[r].mode = req[r].mode
<1>1. req[r] \in Request
  BY DEF TypeOK
<1>2. req' = [req EXCEPT ![r] = [req[r] EXCEPT !.pc = "dispatch", !.at = t]]
  BY DEF TypeOK
<1> QED BY <1>1, <1>2 DEF TypeOK, Request

(* Three ways of going on: with the row as it is, with a stamped write, or *)
(* with one of the two by a request that ends.                             *)
LEMMA GoOn ==
  ASSUME TypeOK, NEW r \in Req, NEW pc, Goto(r, pc), Still \/ Ticks, owner' = owner,
         pc \in {"dispatch", "await", "cleanup"} => Claiming(r)
  PROVE  Moves(r)
  BY GotoMoves DEF Moves, Claiming

LEMMA End ==
  ASSUME TypeOK, NEW r \in Req, Return(r), Still \/ Ticks, owner' = owner
  PROVE  Moves(r)
  BY GoOn DEF Return

LEMMA StartMoves ==
  ASSUME TypeOK, Skew \in 0 .. 1, ClaimsOK, NEW r \in Req, StartStep(r)
  PROVE  Moves(r)
<1> USE DEF row, guards, remote
<1>0. \A t \in Stamps : /\ clock <= t /\ updatedAt <= t /\ t <= clock + 1
                        /\ updatedAt < Bumped(t) /\ updatedAt <= Bumped(t) /\ Bumped(t) <= clock + 1
  BY StampGrows DEF ClaimsOK
<1>1. CASE StartClaim(r)
  <2>1. CASE Return(r) /\ UNCHANGED <<row, guards, clock, remote, owner, doubt>>
    BY <2>1, End DEF Still
  <2>2. CASE \E now \in Stamps : /\ StartClaimable(r, now) /\ ClaimStreamStart(r, now)
                                 /\ owner' = r
    <3>1. PICK now \in Stamps : /\ StartClaimable(r, now) /\ ClaimStreamStart(r, now)
                                /\ owner' = r
      BY <2>2
    <3>2. Ticks /\ Fenced' /\ updatedAt' = now
      BY <1>0, <3>1 DEF ClaimStreamStart, Write, Ticks, Fenced
    <3>3. /\ \A q \in Req : q # r => req'[q] = req[q]
          /\ req'[r].at = now /\ req'[r].kind = req[r].kind /\ req'[r].mode = req[r].mode
      BY <3>1, ClaimMoves DEF ClaimStreamStart
    <3>4. ~Fenced
      BY <3>1 DEF StartClaimable, ManuallyStartable, AutoStartable, Protected, Fenced
    <3>5. ASSUME NEW q \in Req, Claiming(q) PROVE req[q].at < now
      <4>1. req[q].at <= updatedAt /\ updatedAt <= clock /\ req[q].at # clock
        BY <3>4, <3>5 DEF ClaimsOK
      <4>2. req[q].at \in Nat /\ updatedAt \in Nat /\ clock \in Nat /\ now \in Nat /\ clock <= now
        BY <1>0, StampsType DEF TypeOK, Request
      <4> QED BY <4>1, <4>2
    <3>6. Claims(r)
      BY <3>1, <3>2, <3>3, <3>5 DEF Claims
    <3> QED BY <3>2, <3>3, <3>6 DEF Moves
  <2> QED BY <1>1, <2>1, <2>2 DEF StartClaim
<1>2. CASE PreDispatchFailure(r)
  BY <1>0, <1>2, End DEF PreDispatchFailure, TransitionClaimed, Write, Still, Ticks
<1>3. CASE StartDispatch(r)
  BY <1>3, GoOn, End DEF StartDispatch, DispatchPlain, DispatchPrepared, Still, At, Claiming
<1>4. CASE CompletePlainStart(r)
  <2>1. Still \/ Ticks
    BY <1>0, <1>4 DEF CompletePlainStart, Write, Still, Ticks
  <2> QED BY <1>4, <2>1, GoOn, End DEF CompletePlainStart
<1>5. CASE CompletePreparedStart(r)
  BY <1>0, <1>5, End DEF CompletePreparedStart, TransitionClaimed, Write, Ticks
<1>6. CASE FailPlainStart(r)
  <2>1. Still \/ Ticks
    BY <1>0, <1>6 DEF FailPlainStart, TransitionClaimed, Write, Still, Ticks
  <2> QED BY <1>6, <2>1, GoOn, End DEF FailPlainStart
<1>7. CASE FailPlainStartLate(r)
  BY <1>7, End DEF FailPlainStartLate, Still
<1>8. CASE FailPreparedStart(r)
  BY <1>8, GoOn, End DEF FailPreparedStart, Still, At, Claiming
<1>9. CASE CleanupPreparedStart(r)
  BY <1>0, <1>9, End DEF CleanupPreparedStart, TransitionClaimed, Write, Still, Ticks
<1>10. CASE Compensate(r)
  BY <1>10, GoOn DEF Compensate, Still
<1>11. CASE Compensated(r)
  BY <1>11, End DEF Compensated, Still
<1> QED
  BY <1>1, <1>2, <1>3, <1>4, <1>5, <1>6, <1>7, <1>8, <1>9, <1>10, <1>11 DEF StartStep

LEMMA StopMoves ==
  ASSUME TypeOK, Skew \in 0 .. 1, ClaimsOK, NEW r \in Req, StopStep(r)
  PROVE  Moves(r)
<1> USE DEF row, guards, remote
<1>0. \A t \in Stamps : /\ clock <= t /\ updatedAt <= t /\ t <= clock + 1
                        /\ updatedAt < Bumped(t) /\ updatedAt <= Bumped(t) /\ Bumped(t) <= clock + 1
  BY StampGrows DEF ClaimsOK
<1>1. CASE StopClaim(r)
  <2>1. CASE status = req[r].status /\ updatedAt = req[r].at
    <3>1. PICK now \in Stamps :
               /\ Write(StopClaimTarget(req[r].kind), Bumped(now))
               /\ req' = [req EXCEPT ![r].pc = "dispatch", ![r].at = Bumped(now)]
      BY <1>1, <2>1 DEF StopClaim
    <3>2. Ticks /\ Fenced' /\ updatedAt' = Bumped(now)
      <4>1. stopPending'
        BY <1>1, <2>1 DEF StopClaim
      <4>2. clock' = clock + 1 /\ updatedAt' = Bumped(now) /\ updatedAt \in Nat /\ Bumped(now) \in Nat
        BY <3>1, StampsType DEF Write, TypeOK
      <4> QED BY <1>0, <4>1, <4>2 DEF Ticks, Fenced
    <3>3. /\ \A q \in Req : q # r => req'[q] = req[q]
          /\ req'[r].at = Bumped(now) /\ req'[r].kind = req[r].kind
          /\ req'[r].mode = req[r].mode
      BY <3>1, ClaimMoves
    <3>4. owner' = owner /\ req[r].kind # "start"
      BY <1>1 DEF StopClaim
    <3>5. ASSUME NEW q \in Req, Claiming(q) PROVE req[q].at < updatedAt'
      <4>1. req[q].at <= updatedAt /\ updatedAt < updatedAt'
        BY <1>0, <3>2, <3>5 DEF ClaimsOK
      <4>2. req[q].at \in Nat /\ updatedAt \in Nat /\ updatedAt' \in Nat
        BY <3>2, StampsType DEF TypeOK, Request
      <4> QED BY <4>1, <4>2
    <3>6. Claims(r)
      BY <3>2, <3>3, <3>4, <3>5 DEF Claims
    <3> QED BY <3>2, <3>3, <3>4, <3>6 DEF Moves
  <2>2. CASE ~(status = req[r].status /\ updatedAt = req[r].at)
    BY <1>1, <2>2, End DEF StopClaim, Still
  <2> QED BY <2>1, <2>2
<1>2. CASE StopDispatch(r)
  BY <1>2, GoOn DEF StopDispatch, Still, At, Claiming
<1>3. CASE CompleteStop(r)
  <2>1. Still \/ Ticks
    BY <1>0, <1>3 DEF CompleteStop, CompleteNormalStop, CompleteForceStop, Write, Still, Ticks
  <2> QED BY <1>3, <2>1, GoOn, End DEF CompleteStop
<1>4. CASE FailStop(r)
  BY <1>0, <1>4, End DEF FailStop, Write, Still, Ticks
<1>5. CASE Rearm(r)
  BY <1>0, <1>5, End DEF Rearm, Write, Still, Ticks
<1> QED
  BY <1>1, <1>2, <1>3, <1>4, <1>5 DEF StopStep

LEMMA OtherMoves ==
  ASSUME TypeOK, Skew \in 0 .. 1, ClaimsOK, NEW r \in Req, OtherStep(r)
  PROVE  Moves(r)
<1> USE DEF row, guards, remote
<1>0. \A t \in Stamps : updatedAt <= t /\ t <= clock + 1
  BY StampGrows DEF ClaimsOK
<1>1. CASE HeartbeatObserve(r)
  BY <1>1, ReadMoves DEF HeartbeatObserve, Moves, Still, Claiming
<1>2. CASE HeartbeatFail(r)
  <2>1. Still \/ Ticks
    BY <1>0, <1>2 DEF HeartbeatFail, Write, Still, Ticks
  <2> QED BY <1>2, <2>1, GoOn, End DEF HeartbeatFail
<1>3. ASSUME NEW k \in {"markFailed", "report", "retry", "delete"}, Once(r, k), Still \/ Ticks
      PROVE  Moves(r)
  BY <1>3, OnceMoves DEF Moves, Claiming
<1>4. CASE MarkFailed(r)
  BY <1>0, <1>3, <1>4 DEF MarkFailed, Write, Ticks
<1>5. CASE ArchiveReport(r)
  BY <1>0, <1>3, <1>5 DEF ArchiveReport, Still, Ticks
<1>6. CASE ArchiveRetry(r)
  BY <1>0, <1>3, <1>6 DEF ArchiveRetry, Still, Ticks
<1>7. CASE Delete(r)
  BY <1>0, <1>3, <1>7 DEF Delete, Write, Ticks
<1>8. CASE WriteSettings(r)
  BY <1>0, <1>8, End DEF WriteSettings, Ticks
<1>9. CASE Lost(r)
  BY <1>9, End DEF Lost, Still
<1> QED
  BY <1>1, <1>2, <1>4, <1>5, <1>6, <1>7, <1>8, <1>9 DEF OtherStep

LEMMA BeginMoves ==
  ASSUME TypeOK, NEW r \in Req, NEW p \in Panel, Begin(r, p) \/ HeartbeatRecheck(r, p)
  PROVE  Moves(r)
<1>1. CASE Begin(r, p)
  <2>1. Still /\ owner' = owner
    BY <1>1 DEF Begin, row, guards, Still
  <2>2. \/ \E m \in Modes : Read(r, "start", m, "claim")
        \/ \E k \in {"stop", "force"} : Read(r, k, "plain", "claim")
        \/ Read(r, "settings", "plain", "write")
    BY <1>1 DEF Begin
  <2> QED BY <2>1, <2>2, ReadMoves DEF Moves, Claiming
<1>2. CASE HeartbeatRecheck(r, p)
  BY <1>2, GoOn DEF HeartbeatRecheck, row, guards, Still
<1> QED BY <1>1, <1>2

(* Every step is one of a request, or leaves requests and row alone. *)
LEMMA NextMoves ==
  ASSUME TypeOK, Skew \in 0 .. 1, ClaimsOK, [Next]_vars
  PROVE  (\E r \in Req : Moves(r)) \/ UNCHANGED <<status, updatedAt, clock, stopPending, req, owner>>
<1>1. ASSUME NEW c \in net, Deliver(c) \/ Drop(c)
      PROVE  UNCHANGED <<status, updatedAt, clock, stopPending, req, owner>>
  BY <1>1 DEF Deliver, Drop, row, guards
<1> QED BY <1>1, StartMoves, StopMoves, OtherMoves, BeginMoves DEF Next, vars, row, guards

LEMMA ClaimsStep ==
  ASSUME TypeOK, Skew \in 0 .. 1, ClaimsOK, ModesOK, [Next]_vars, TypeOK'
  PROVE  ClaimsOK' /\ ModesOK'
<1>0. updatedAt \in Nat /\ clock \in Nat /\ updatedAt <= clock
      /\ \A q \in Req : req[q].at \in Nat
  BY DEF TypeOK, ClaimsOK, Request
<1>1. ASSUME NEW r \in Req, Moves(r) PROVE ClaimsOK' /\ ModesOK'
  <2>1. ModesOK'
    BY <1>1 DEF Moves, ModesOK
  <2>2. updatedAt' <= clock' /\ updatedAt <= updatedAt'
    BY <1>0, <1>1 DEF Moves, Still, Ticks
  <2>0. \A q \in Req : req'[q].at \in Nat
    BY DEF TypeOK, Request
  <2>3. ASSUME NEW q \in Req, Claiming(q)'
        PROVE  \/ Claiming(q) /\ req'[q].at = req[q].at /\ req'[q].kind = req[q].kind
               \/ q = r /\ Claims(r)
    BY <1>1, <2>3 DEF Moves, Claiming
  <2>4. ASSUME NEW q \in Req, Claiming(q)'
        PROVE  /\ req'[q].at <= updatedAt'
               /\ req'[q].at = clock' => Fenced'
               /\ req'[q].kind = "start" /\ req'[q].at = updatedAt' => owner' = q
    <3>1. CASE q = r /\ Claims(r)
      BY <2>0, <3>1 DEF Claims
    <3>2. CASE Claiming(q) /\ req'[q].at = req[q].at /\ req'[q].kind = req[q].kind
               /\ ~(q = r /\ Claims(r))
      <4>1. /\ req[q].at <= updatedAt /\ (req[q].at = clock => Fenced)
            /\ req[q].kind = "start" /\ req[q].at = updatedAt => owner = q
        BY <3>2 DEF ClaimsOK
      <4>2. req'[q].at <= updatedAt'
        BY <1>0, <2>2, <3>2, <4>1 DEF TypeOK
      <4>3. req'[q].at = clock' => Fenced'
        <5>1. CASE Still
          BY <3>2, <4>1, <5>1 DEF Still, Fenced
        <5>2. CASE Ticks
          BY <1>0, <3>2, <4>1, <5>2 DEF Ticks
        <5> QED BY <1>1, <5>1, <5>2 DEF Moves
      <4>4. req'[q].kind = "start" /\ req'[q].at = updatedAt' => owner' = q
        <5>1. CASE owner' = owner
          BY <1>0, <2>2, <3>2, <4>1, <5>1 DEF TypeOK
        <5>2. CASE Claims(r)
          <6>1. req[q].at < updatedAt' /\ req[q].at \in Nat /\ updatedAt' \in Nat
            BY <1>0, <3>2, <5>2 DEF Claims, TypeOK
          <6>2. req'[q].at # updatedAt'
            BY <3>2, <6>1
          <6> QED BY <6>2
        <5> QED BY <1>1, <5>1, <5>2 DEF Moves
      <4> QED BY <4>2, <4>3, <4>4
    <3> QED BY <2>3, <2>4, <3>1, <3>2
  <2>5. ASSUME NEW q \in Req, NEW s \in Req, Claiming(q)', Claiming(s)', req'[q].at = req'[s].at
        PROVE  q = s
    <3>1. CASE Claims(r)
      <4>1. \A x \in Req : Claiming(x) => req[x].at # updatedAt'
        BY <1>0, <3>1 DEF Claims
      <4> QED BY <2>3, <2>5, <3>1, <4>1 DEF ClaimsOK, Claims
    <3>2. CASE ~Claims(r)
      BY <2>3, <2>5, <3>2 DEF ClaimsOK
    <3> QED BY <3>1, <3>2
  <2> QED BY <2>1, <2>2, <2>4, <2>5 DEF ClaimsOK
<1>2. CASE UNCHANGED <<status, updatedAt, clock, stopPending, req, owner>>
  BY <1>2 DEF ClaimsOK, ModesOK, Claiming, Fenced
<1> QED BY <1>0, <1>1, <1>2, NextMoves

LEMMA ClaimsInvariant == Skew \in 0 .. 1 => (Spec => [](TypeOK /\ ClaimsOK /\ ModesOK))
<1> SUFFICES ASSUME Skew \in 0 .. 1 PROVE Spec => [](TypeOK /\ ClaimsOK /\ ModesOK)
  OBVIOUS
<1>1. Init => ClaimsOK /\ ModesOK
  BY DEF Init, NoRequest, ClaimsOK, ModesOK, Claiming
<1>2. TypeOK /\ ClaimsOK /\ ModesOK /\ [Next]_vars /\ TypeOK' => ClaimsOK' /\ ModesOK'
  BY ClaimsStep
<1> QED BY <1>1, <1>2, TypeCorrect, PTL DEF Spec

(* Among Panels whose clocks are at most one write apart, at most one      *)
(* request in flight can still finish against the row: the compare-and-set *)
(* on updated_at in TransitionClaimedStreamStart and finishClaimedStop     *)
(* never admits two.                                                       *)
THEOREM ClaimIsExclusive == Skew \in 0 .. 1 => (Spec => []ClaimExclusive)
<1> SUFFICES ASSUME Skew \in 0 .. 1 PROVE Spec => []ClaimExclusive
  OBVIOUS
<1>1. TypeOK /\ ClaimsOK /\ ModesOK => ClaimExclusive
  BY DEF ClaimsOK, Claiming, ClaimExclusive, ClaimHeld, OwnsStart, OwnsStop, ClaimMatches
<1> QED BY <1>1, ClaimsInvariant, PTL

(* Among Panels whose clocks are at most one write apart, a prepared start *)
(* completes (completeStreamStart) only if its claim was the last claim of *)
(* a start.                                                                *)
THEOREM OwnerGoesLive == Skew \in 0 .. 1 /\ Modes \subseteq {"prepared"} => (Spec => LiveOnlyByOwner)
<1> SUFFICES ASSUME Skew \in 0 .. 1, Modes \subseteq {"prepared"} PROVE Spec => LiveOnlyByOwner
  OBVIOUS
<1> DEFINE Live == \A r \in Req : (/\ status # "live" /\ status' = "live"
                                   /\ req'[r].pc # req[r].pc) => owner = r
<1>1. TypeOK /\ ClaimsOK /\ ModesOK /\ [Next]_vars => [Live]_vars
  <2> SUFFICES ASSUME TypeOK, ClaimsOK, ModesOK, Next, status # "live", status' = "live"
               PROVE  \A r \in Req : req'[r].pc # req[r].pc => owner = r
    BY DEF vars, row
  <2> USE DEF row
  <2>1. ASSUME NEW r \in Req, StartStep(r)
        PROVE  \A q \in Req : req'[q].pc # req[q].pc => owner = q
    <3>1. ~CompletePlainStart(r)
      BY DEF CompletePlainStart, ModesOK
    <3>2. CompletePreparedStart(r)
      BY <2>1, <3>1 DEF StartStep, StartClaim, ClaimStreamStart, PreDispatchFailure, StartDispatch,
        FailPlainStart, FailPlainStartLate, FailPreparedStart, CleanupPreparedStart, Compensate,
        Compensated, TransitionClaimed, Write
    <3>3. owner = r
      BY <3>2 DEF CompletePreparedStart, TransitionClaimed, OwnsStart, ClaimMatches, At, ClaimsOK,
        Claiming
    <3>4. \A q \in Req : q # r => req'[q] = req[q]
      BY <3>2, ReturnMoves DEF CompletePreparedStart
    <3> QED BY <3>3, <3>4
  <2>2. ASSUME NEW r \in Req, StopStep(r) PROVE FALSE
    BY <2>2 DEF StopStep, StopClaim, StopClaimTarget, StopDispatch, CompleteStop,
      CompleteNormalStop, CompleteForceStop, FailStop, Rearm, Write
  <2>3. ASSUME NEW r \in Req, OtherStep(r) PROVE FALSE
    BY <2>3 DEF OtherStep, HeartbeatObserve, HeartbeatFail, MarkFailed, ArchiveReport, ArchiveRetry,
      Delete, WriteSettings, Lost, Write
  <2>4. ASSUME NEW r \in Req, NEW p \in Panel, Begin(r, p) \/ HeartbeatRecheck(r, p) PROVE FALSE
    BY <2>4 DEF Begin, HeartbeatRecheck
  <2>5. ASSUME NEW c \in net, Deliver(c) \/ Drop(c) PROVE FALSE
    BY <2>5 DEF Deliver, Drop
  <2> QED BY <2>1, <2>2, <2>3, <2>4, <2>5 DEF Next
<1> QED BY <1>1, ClaimsInvariant, PTL DEF Spec, LiveOnlyByOwner

-----------------------------------------------------------------------------
(* One Panel.  The lifecycle mutex serves one request at a time; what is   *)
(* not under it (marking a stream failed, archive reports, deletion) may   *)
(* still come at any moment.                                               *)

OnePanel == \A p, q \in Panel : p = q

\* What a request does while it holds the lifecycle mutex.
Serving(r) == req[r].pc \in {"claim", "dispatch", "await", "compensate", "compensating", "cleanup",
                             "rearm", "converge", "write"}

MutexHeld == \A r \in Req : Serving(r) => \E p \in Panel : lock[p] = r

\* Each call is made at one place of its request.
CallOK(r) ==
  /\ <<"start", r>> \in net \union acks =>
       /\ req[r].pc \in {"await", "compensate", "compensating", "cleanup", "done"}
       /\ req[r].kind = "start"
  /\ <<"stop", r>> \in net \union acks =>
       \/ req[r].pc \in {"compensating", "rearm", "done"}
       \/ req[r].pc = "await" /\ req[r].kind # "start"
  /\ <<"abort", r>> \in net \union acks => req[r].pc \in {"cleanup", "done"}

\* A stop at its claim has read a status it may claim from; a start that has
\* claimed, and still holds the mutex, made the last claim.
ClaimantOK(r) ==
  /\ req[r].pc = "cleanup" => req[r].kind = "start"
  /\ req[r].pc = "claim" /\ req[r].kind # "start" =>
       req[r].status \notin {"created", "ready", "completed"}
  /\ req[r].pc \in {"dispatch", "await", "cleanup"} /\ req[r].kind = "start" => owner = r

\* As long as nothing was lost, whoever made a call still waits for it ...
AwaitedOK(r) ==
  /\ <<"start", r>> \in net => req[r].pc = "await"
  /\ <<"stop", r>> \in net => req[r].pc \in {"await", "compensating"}
  /\ <<"abort", r>> \in net => req[r].pc = "cleanup"

\* ... a start under way runs nothing but its own job ...
StartingOK(r) ==
  req[r].kind = "start" /\ req[r].pc \in {"dispatch", "await", "cleanup"} =>
    /\ status = "starting"
    /\ running \in {NoReq, r}
    /\ req[r].pc = "dispatch" \/ <<"abort", r>> \in acks => running = NoReq

\* ... a stop under way is marked, and nothing runs once it is acknowledged ...
StoppingOK(r) ==
  /\ req[r].kind # "start" /\ req[r].pc \in {"dispatch", "await"} => stopPending
  /\ req[r].kind # "start" /\ req[r].pc = "await" /\ <<"stop", r>> \in acks => running = NoReq
  /\ req[r].pc = "compensating" /\ <<"stop", r>> \in acks => running = NoReq

\* ... a job that runs is started, marked to be stopped, or about to be ...
JobExplained(r) ==
  running # NoReq =>
    \/ status \in {"starting", "live"}
    \/ stopPending
    \/ req[r].pc \in {"compensate", "compensating"}

JobOK == running # NoReq => \/ status \in {"starting", "live"}
                            \/ stopPending
                            \/ \E r \in Req : req[r].pc \in {"compensate", "compensating"}

\* ... and a deleted stream has ended.
DeletedOK == deleted => status \in {"completed", "ready"}

SureOK(r) == AwaitedOK(r) /\ StartingOK(r) /\ StoppingOK(r)

QuietInv == /\ MutexHeld
            /\ net \intersect acks = {}
            /\ \A r \in Req : CallOK(r) /\ ClaimantOK(r)
            /\ ~doubt => JobOK /\ DeletedOK /\ \A r \in Req : SureOK(r)

\* The same, as the one request that is served sees it.
Own(r) == /\ CallOK(r) /\ ClaimantOK(r)
          /\ ~doubt => SureOK(r) /\ JobExplained(r) /\ DeletedOK

\* A step of r: no other request moves or loses the mutex, and no other
\* request's call is made or answered.
StepOf(r) ==
  /\ \A q \in Req : q # r => req'[q] = req[q]
  /\ \A q \in Req, p \in Panel : q # r /\ lock[p] = q => lock'[p] = q
  /\ Serving(r)' => \E p \in Panel : lock'[p] = r

CallsOf(r) ==
  /\ net' \intersect acks' = {}
  /\ \A q \in Req, k \in {"start", "stop", "abort"} :
       q # r => /\ <<k, q>> \in net' <=> <<k, q>> \in net
                /\ <<k, q>> \in acks' <=> <<k, q>> \in acks

LEMMA OneServed ==
  ASSUME OnePanel, MutexHeld, NEW r \in Req, NEW q \in Req, Serving(r), Serving(q)
  PROVE  q = r
BY DEF OnePanel, MutexHeld

LEMMA OwnPart ==
  ASSUME OnePanel, QuietInv, NEW r \in Req, Serving(r)
  PROVE  Own(r) /\ \A q \in Req : q # r => ~Serving(q)
<1>1. \A q \in Req : q # r => ~Serving(q)
  BY OneServed DEF QuietInv
<1>2. JobOK => JobExplained(r)
  BY <1>1 DEF JobOK, JobExplained, Serving
<1> QED BY <1>1, <1>2 DEF QuietInv, Own

LEMMA MutexStep ==
  ASSUME MutexHeld, NEW r \in Req, StepOf(r)
  PROVE  MutexHeld'
BY DEF MutexHeld, StepOf, Serving

(* A step of a request while no other holds the mutex. *)
LEMMA AloneStep ==
  ASSUME QuietInv, NEW r \in Req, \A q \in Req : q # r => ~Serving(q), StepOf(r), CallsOf(r),
         Own(r)', doubt => doubt'
  PROVE  QuietInv'
<1>1. \A q \in Req : q # r => ~Serving(q) /\ CallOK(q) /\ (~doubt => AwaitedOK(q))
  BY DEF QuietInv, SureOK
<1>2. MutexHeld'
  BY MutexStep DEF QuietInv
<1>3. ASSUME NEW q \in Req, q # r
      PROVE  CallOK(q)' /\ ClaimantOK(q)' /\ (~doubt' => SureOK(q)')
  <2>1. req'[q] = req[q] /\ ~Serving(q) /\ CallOK(q)
    BY <1>1, <1>3 DEF StepOf
  <2>2. \A k \in {"start", "stop", "abort"} : /\ <<k, q>> \in net' <=> <<k, q>> \in net
                                              /\ <<k, q>> \in acks' <=> <<k, q>> \in acks
    BY <1>3 DEF CallsOf
  <2>3. CallOK(q)' /\ ClaimantOK(q)'
    BY <2>1, <2>2 DEF CallOK, ClaimantOK, Serving
  <2>4. ASSUME ~doubt'
        PROVE  SureOK(q)'
    <3>1. AwaitedOK(q)
      BY <1>1, <1>3, <2>4
    <3>2. AwaitedOK(q)'
      BY <2>1, <2>2, <3>1 DEF AwaitedOK
    <3>3. StartingOK(q)' /\ StoppingOK(q)'
      BY <2>1 DEF StartingOK, StoppingOK, Serving
    <3> QED BY <3>2, <3>3 DEF SureOK
  <2> QED BY <2>3, <2>4
<1>4. CallOK(r)' /\ ClaimantOK(r)' /\ (~doubt' => SureOK(r)' /\ JobOK' /\ DeletedOK')
  BY DEF Own, JobExplained, JobOK
<1> QED BY <1>2, <1>3, <1>4 DEF QuietInv, CallsOf

LEMMA ServedStep ==
  ASSUME OnePanel, QuietInv, NEW r \in Req, Serving(r), StepOf(r), CallsOf(r), Own(r)',
         doubt => doubt'
  PROVE  QuietInv'
BY OwnPart, AloneStep

(* A step of a request that neither has nor takes the mutex. *)
LEMMA AsideStep ==
  ASSUME QuietInv, NEW r \in Req, StepOf(r), UNCHANGED <<net, acks, running, owner>>,
         req[r].pc \in {"idle", "observed"}, req'[r].pc \in {"observed", "done"}, doubt => doubt',
         \/ doubt'
         \/ UNCHANGED <<stopPending, status, deleted>>
         \/ UNCHANGED stopPending /\ status \notin {"starting", "live"} /\ status' = "completed"
  PROVE  QuietInv'
<1>1. MutexHeld' /\ net' \intersect acks' = {}
  BY MutexStep DEF QuietInv
<1>2. \A k \in {"start", "stop", "abort"} : <<k, r>> \notin net \union acks
  BY DEF QuietInv, CallOK
<1>3. CallOK(r)' /\ ClaimantOK(r)'
  BY <1>2 DEF CallOK, ClaimantOK
<1>4. \A q \in Req : q # r => CallOK(q)' /\ ClaimantOK(q)'
  BY DEF QuietInv, CallOK, ClaimantOK, StepOf
<1>5. ASSUME ~doubt' PROVE JobOK' /\ DeletedOK' /\ \A q \in Req : SureOK(q)'
  <2>1. JobOK /\ DeletedOK /\ \A q \in Req : SureOK(q)
    BY <1>5 DEF QuietInv
  <2>2. UNCHANGED stopPending
    BY <1>5
  <2>3. JobOK'
    <3>1. \A q \in Req : req[q].pc \in {"compensate", "compensating"} =>
                         req'[q].pc \in {"compensate", "compensating"}
      BY DEF StepOf
    <3> QED BY <1>5, <2>1, <2>2, <3>1 DEF JobOK
  <2>4. DeletedOK'
    BY <1>5, <2>1 DEF DeletedOK
  <2>5. SureOK(r)'
    BY <1>2 DEF SureOK, AwaitedOK, StartingOK, StoppingOK
  <2>6. ASSUME NEW q \in Req, q # r PROVE SureOK(q)'
    <3>1. req'[q] = req[q] /\ SureOK(q)
      BY <2>1, <2>6 DEF StepOf
    <3>2. status' = status \/ status # "starting"
      BY <1>5
    <3> QED BY <2>2, <3>1, <3>2 DEF SureOK, AwaitedOK, StartingOK, StoppingOK
  <2> QED BY <2>3, <2>4, <2>5, <2>6
<1> QED BY <1>1, <1>3, <1>4, <1>5 DEF QuietInv

LEMMA ReturnStep ==
  ASSUME TypeOK, NEW r \in Req, Return(r)
  PROVE  StepOf(r) /\ req'[r].pc = "done" /\ req'[r].kind = req[r].kind
<1>1. /\ \A q \in Req : q # r => req'[q] = req[q]
      /\ req'[r].pc = "done" /\ req'[r].kind = req[r].kind
  BY ReturnMoves
<1>2. \A q \in Req, p \in Panel : q # r /\ lock[p] = q => lock'[p] = q
  BY DEF Return, Unlock
<1> QED BY <1>1, <1>2 DEF StepOf, Serving

LEMMA GotoStep ==
  ASSUME TypeOK, MutexHeld, NEW r \in Req, Serving(r), NEW pc, Goto(r, pc), UNCHANGED lock
  PROVE  StepOf(r) /\ req'[r].pc = pc /\ req'[r].kind = req[r].kind
<1>1. /\ \A q \in Req : q # r => req'[q] = req[q]
      /\ req'[r].pc = pc /\ req'[r].kind = req[r].kind
  BY GotoMoves
<1> QED BY <1>1 DEF StepOf, MutexHeld

LEMMA ClaimStep ==
  ASSUME TypeOK, MutexHeld, NEW r \in Req, Serving(r), NEW t, UNCHANGED lock,
         req' = [req EXCEPT ![r].pc = "dispatch", ![r].at = t]
  PROVE  StepOf(r) /\ req'[r].pc = "dispatch" /\ req'[r].kind = req[r].kind
<1>1. /\ \A q \in Req : q # r => req'[q] = req[q]
      /\ req'[r].pc = "dispatch" /\ req'[r].kind = req[r].kind
  BY ClaimMoves
<1> QED BY <1>1 DEF StepOf, MutexHeld

(* A call that was never made is made, or answered at once. *)
LEMMA CallMade ==
  ASSUME net \intersect acks = {}, NEW r \in Req, NEW k, <<k, r>> \notin net \union acks,
         \/ net' = net \union {<<k, r>>} /\ acks' = acks
         \/ acks' = acks \union {<<k, r>>} /\ net' = net
  PROVE  CallsOf(r)
BY DEF CallsOf

LEMMA NoCall ==
  ASSUME net \intersect acks = {}, NEW r \in Req, UNCHANGED <<net, acks>>
  PROVE  CallsOf(r)
BY DEF CallsOf

(* The steps of a start. *)
LEMMA QuietStart ==
  ASSUME OnePanel, TypeOK, PendingStopFenced, QuietInv, NEW r \in Req, StartStep(r)
  PROVE  QuietInv'
<1> USE DEF row, guards, remote, At
<1>0. MutexHeld /\ net \intersect acks = {}
  BY DEF QuietInv
<1>1. CASE StartClaim(r)
  <2>1. Serving(r) /\ Own(r)
    BY <1>1, OwnPart DEF StartClaim, Serving
  <2>2. UNCHANGED <<net, acks, running, stopPending, doubt, deleted>>
    BY <1>1 DEF StartClaim
  <2>3. CASE \E now \in Stamps : /\ StartClaimable(r, now) /\ ClaimStreamStart(r, now)
                                 /\ owner' = r /\ UNCHANGED lock
    <3>1. PICK now \in Stamps : /\ StartClaimable(r, now) /\ ClaimStreamStart(r, now)
                                /\ owner' = r /\ UNCHANGED lock
      BY <2>3
    <3>2. StepOf(r) /\ req'[r].pc = "dispatch" /\ req'[r].kind = "start" /\ req[r].pc = "claim"
      BY <1>0, <1>1, <2>1, <3>1, ClaimStep DEF ClaimStreamStart, StartClaim
    <3>3. /\ status \notin {"starting", "live"} /\ ~stopPending /\ ~deleted
          /\ status' = "starting"
      BY <3>1 DEF StartClaimable, ManuallyStartable, AutoStartable, Protected, ClaimStreamStart, Write
    <3>4. Own(r)'
      BY <1>1, <2>1, <2>2, <3>1, <3>2, <3>3 DEF Own, CallOK, ClaimantOK, SureOK, AwaitedOK, StartingOK,
         StoppingOK, JobExplained, DeletedOK, StartClaim
    <3> QED BY <1>0, <2>1, <2>2, <3>2, <3>4, NoCall, ServedStep
  <2>4. CASE Return(r) /\ UNCHANGED <<row, owner>>
    <3>1. StepOf(r) /\ req'[r].pc = "done" /\ req[r].pc = "claim"
      BY <1>1, <2>4, ReturnStep DEF StartClaim
    <3>2. Own(r)'
      BY <2>1, <2>2, <2>4, <3>1 DEF Own, CallOK, ClaimantOK, SureOK, AwaitedOK, StartingOK, StoppingOK,
         JobExplained, DeletedOK
    <3> QED BY <1>0, <2>1, <2>2, <3>1, <3>2, NoCall, ServedStep
  <2> QED BY <1>1, <2>3, <2>4 DEF StartClaim
<1>2. CASE PreDispatchFailure(r)
  <2>1. Serving(r) /\ Own(r) /\ req[r].pc = "dispatch" /\ req[r].kind = "start"
    BY <1>2, OwnPart DEF PreDispatchFailure, Serving
  <2>2. UNCHANGED <<net, acks, running, stopPending, doubt, deleted>> /\ status' \in {status, "failed"}
    BY <1>2 DEF PreDispatchFailure, TransitionClaimed, Write
  <2>3. StepOf(r) /\ req'[r].pc = "done" /\ req'[r].kind = req[r].kind
    BY <1>2, ReturnStep DEF PreDispatchFailure
  <2>4. Own(r)'
    BY <2>1, <2>2, <2>3 DEF Own, CallOK, ClaimantOK, SureOK, AwaitedOK, StartingOK, StoppingOK,
       JobExplained, DeletedOK
  <2> QED BY <1>0, <2>1, <2>2, <2>3, <2>4, NoCall, ServedStep
<1>3. CASE StartDispatch(r)
  <2>1. Serving(r) /\ Own(r) /\ req[r].pc = "dispatch" /\ req[r].kind = "start"
    BY <1>3, OwnPart DEF StartDispatch, Serving
  <2>2. UNCHANGED <<row, acks, running, stopPending, doubt, owner>>
    BY <1>3 DEF StartDispatch
  <2>3. CASE net' = net \union {<<"start", r>>} /\ Goto(r, "await") /\ UNCHANGED lock
    <3>1. StepOf(r) /\ req'[r].pc = "await" /\ req'[r].kind = "start"
      BY <1>0, <2>1, <2>3, GotoStep
    <3>2. CallsOf(r)
      BY <1>0, <2>1, <2>2, <2>3, CallMade DEF Own, CallOK
    <3>3. Own(r)'
      BY <2>1, <2>2, <2>3, <3>1 DEF Own, CallOK, ClaimantOK, SureOK, AwaitedOK, StartingOK, StoppingOK,
         JobExplained, DeletedOK
    <3> QED BY <2>1, <2>2, <3>1, <3>2, <3>3, ServedStep
  <2>4. CASE Return(r) /\ UNCHANGED net
    <3>1. StepOf(r) /\ req'[r].pc = "done" /\ req'[r].kind = req[r].kind
      BY <2>4, ReturnStep
    <3>2. Own(r)'
      BY <2>1, <2>2, <2>4, <3>1 DEF Own, CallOK, ClaimantOK, SureOK, AwaitedOK, StartingOK, StoppingOK,
         JobExplained, DeletedOK
    <3> QED BY <1>0, <2>1, <2>2, <2>4, <3>1, <3>2, NoCall, ServedStep
  <2> QED BY <1>3, <2>3, <2>4 DEF StartDispatch, DispatchPlain, DispatchPrepared
<1>4. CASE CompletePlainStart(r)
  <2>1. /\ Serving(r) /\ Own(r) /\ req[r].pc = "await" /\ req[r].kind = "start"
        /\ <<"start", r>> \in acks
    BY <1>4, OwnPart DEF CompletePlainStart, Serving
  <2>2. UNCHANGED <<net, acks, running, stopPending, doubt, owner, deleted>>
    BY <1>4 DEF CompletePlainStart
  <2>3. CASE Return(r) /\ (status' = status \/ (status = "starting" /\ status' = "live"))
    <3>1. StepOf(r) /\ req'[r].pc = "done" /\ req'[r].kind = req[r].kind
      BY <2>3, ReturnStep
    <3>2. Own(r)'
      BY <1>0, <2>1, <2>2, <2>3, <3>1 DEF Own, CallOK, ClaimantOK, SureOK, AwaitedOK, StartingOK, StoppingOK,
         JobExplained, DeletedOK
    <3> QED BY <1>0, <2>1, <2>2, <3>1, <3>2, NoCall, ServedStep
  <2>4. CASE Goto(r, "compensate") /\ UNCHANGED <<lock, status>>
    <3>1. StepOf(r) /\ req'[r].pc = "compensate" /\ req'[r].kind = "start"
      BY <1>0, <2>1, <2>4, GotoStep
    <3>2. Own(r)'
      BY <1>0, <2>1, <2>2, <2>4, <3>1 DEF Own, CallOK, ClaimantOK, SureOK, AwaitedOK, StartingOK, StoppingOK,
         JobExplained, DeletedOK
    <3> QED BY <1>0, <2>1, <2>2, <3>1, <3>2, NoCall, ServedStep
  <2> QED BY <1>4, <2>3, <2>4 DEF CompletePlainStart, Write
<1>5. CASE CompletePreparedStart(r)
  <2>1. /\ Serving(r) /\ Own(r) /\ req[r].pc = "await" /\ req[r].kind = "start"
        /\ <<"start", r>> \in acks
    BY <1>5, OwnPart DEF CompletePreparedStart, Serving
  <2>2. /\ UNCHANGED <<net, acks, running, stopPending, doubt, owner, deleted>>
        /\ status = "starting" /\ status' = "live"
    BY <1>5 DEF CompletePreparedStart, TransitionClaimed, OwnsStart, Write
  <2>3. StepOf(r) /\ req'[r].pc = "done" /\ req'[r].kind = req[r].kind
    BY <1>5, ReturnStep DEF CompletePreparedStart
  <2>4. Own(r)'
    BY <1>0, <2>1, <2>2, <2>3 DEF Own, CallOK, ClaimantOK, SureOK, AwaitedOK, StartingOK, StoppingOK,
       JobExplained, DeletedOK
  <2> QED BY <1>0, <2>1, <2>2, <2>3, <2>4, NoCall, ServedStep
<1>6. CASE FailPlainStart(r)
  <2>1. /\ Serving(r) /\ Own(r) /\ req[r].pc = "await" /\ req[r].kind = "start"
    BY <1>6, OwnPart DEF FailPlainStart, Serving
  <2>2. /\ UNCHANGED <<net, acks, running, stopPending, owner, deleted>>
        /\ doubt' = (doubt \/ <<"start", r>> \notin acks)
    BY <1>6 DEF FailPlainStart, TransitionClaimed
  <2>3. CASE /\ Goto(r, "compensate") /\ UNCHANGED lock
             /\ status' = status \/ (status = "starting" /\ status' = "failed")
    <3>1. StepOf(r) /\ req'[r].pc = "compensate" /\ req'[r].kind = "start"
      BY <1>0, <2>1, <2>3, GotoStep
    <3>2. Own(r)'
      BY <1>0, <2>1, <2>2, <2>3, <3>1 DEF Own, CallOK, ClaimantOK, SureOK, AwaitedOK, StartingOK, StoppingOK,
         JobExplained, DeletedOK
    <3> QED BY <1>0, <2>1, <2>2, <3>1, <3>2, NoCall, ServedStep
  <2>4. CASE Return(r) /\ UNCHANGED status
    <3>1. StepOf(r) /\ req'[r].pc = "done" /\ req'[r].kind = req[r].kind
      BY <2>4, ReturnStep
    <3>2. Own(r)'
      BY <1>0, <2>1, <2>2, <2>4, <3>1 DEF Own, CallOK, ClaimantOK, SureOK, AwaitedOK, StartingOK, StoppingOK,
         JobExplained, DeletedOK
    <3> QED BY <1>0, <2>1, <2>2, <3>1, <3>2, NoCall, ServedStep
  <2> QED BY <1>6, <2>3, <2>4 DEF FailPlainStart, TransitionClaimed, OwnsStart, Write
<1>7. CASE FailPlainStartLate(r)
  <2>1. /\ Serving(r) /\ Own(r) /\ req[r].pc = "await" /\ req[r].kind = "start"
    BY <1>7, OwnPart DEF FailPlainStartLate, Serving
  <2>2. UNCHANGED <<net, acks, owner>> /\ doubt'
    BY <1>7 DEF FailPlainStartLate
  <2>3. StepOf(r) /\ req'[r].pc = "done" /\ req'[r].kind = "start"
    BY <1>7, <2>1, ReturnStep DEF FailPlainStartLate
  <2>4. Own(r)'
    BY <2>1, <2>2, <2>3 DEF Own, CallOK, ClaimantOK
  <2> QED BY <1>0, <2>1, <2>2, <2>3, <2>4, NoCall, ServedStep
<1>8. CASE FailPreparedStart(r)
  <2>1. /\ Serving(r) /\ Own(r) /\ req[r].pc = "await" /\ req[r].kind = "start"
    BY <1>8, OwnPart DEF FailPreparedStart, Serving
  <2>2. /\ UNCHANGED <<status, acks, running, stopPending, owner, deleted>>
        /\ doubt' = (doubt \/ <<"start", r>> \notin acks)
    BY <1>8 DEF FailPreparedStart
  <2>3. CASE net' = net \union {<<"abort", r>>} /\ Goto(r, "cleanup") /\ UNCHANGED lock
    <3>1. StepOf(r) /\ req'[r].pc = "cleanup" /\ req'[r].kind = "start"
      BY <1>0, <2>1, <2>3, GotoStep
    <3>2. CallsOf(r)
      BY <1>0, <2>1, <2>2, <2>3, CallMade DEF Own, CallOK
    <3>3. Own(r)'
      BY <1>0, <2>1, <2>2, <2>3, <3>1 DEF Own, CallOK, ClaimantOK, SureOK, AwaitedOK, StartingOK, StoppingOK,
         JobExplained, DeletedOK
    <3> QED BY <2>1, <2>2, <3>1, <3>2, <3>3, ServedStep
  <2>4. CASE Return(r) /\ UNCHANGED net
    <3>1. StepOf(r) /\ req'[r].pc = "done" /\ req'[r].kind = "start"
      BY <2>1, <2>4, ReturnStep
    <3>2. Own(r)'
      BY <1>0, <2>1, <2>2, <2>4, <3>1 DEF Own, CallOK, ClaimantOK, SureOK, AwaitedOK, StartingOK, StoppingOK,
         JobExplained, DeletedOK
    <3> QED BY <1>0, <2>1, <2>2, <2>4, <3>1, <3>2, NoCall, ServedStep
  <2> QED BY <1>8, <2>3, <2>4 DEF FailPreparedStart
<1>9. CASE CleanupPreparedStart(r)
  <2>1. /\ Serving(r) /\ Own(r) /\ req[r].pc = "cleanup"
    BY <1>9, OwnPart DEF CleanupPreparedStart, Serving
  <2>2. /\ UNCHANGED <<net, acks, running, stopPending, owner, deleted>>
        /\ \/ <<"abort", r>> \in acks /\ status = "starting" /\ status' = "failed" /\ doubt' = doubt
           \/ doubt'
    BY <1>9 DEF CleanupPreparedStart, TransitionClaimed, OwnsStart, Write
  <2>3. StepOf(r) /\ req'[r].pc = "done" /\ req'[r].kind = req[r].kind
    BY <1>9, ReturnStep DEF CleanupPreparedStart
  <2>4. Own(r)'
    BY <1>0, <2>1, <2>2, <2>3 DEF Own, CallOK, ClaimantOK, SureOK, AwaitedOK, StartingOK, StoppingOK,
       JobExplained, DeletedOK
  <2> QED BY <1>0, <2>1, <2>2, <2>3, <2>4, NoCall, ServedStep
<1>10. CASE Compensate(r)
  <2>1. Serving(r) /\ Own(r) /\ req[r].pc = "compensate"
    BY <1>10, OwnPart DEF Compensate, Serving
  <2>2. /\ UNCHANGED <<status, acks, running, stopPending, doubt, owner, deleted>>
        /\ net' = net \union {<<"stop", r>>}
    BY <1>10 DEF Compensate
  <2>3. StepOf(r) /\ req'[r].pc = "compensating" /\ req'[r].kind = req[r].kind
    BY <1>0, <1>10, <2>1, GotoStep DEF Compensate
  <2>4. CallsOf(r)
    BY <1>0, <2>1, <2>2, CallMade DEF Own, CallOK
  <2>5. Own(r)'
    BY <1>0, <2>1, <2>2, <2>3 DEF Own, CallOK, ClaimantOK, SureOK, AwaitedOK, StartingOK, StoppingOK,
       JobExplained, DeletedOK
  <2> QED BY <2>1, <2>2, <2>3, <2>4, <2>5, ServedStep
<1>11. CASE Compensated(r)
  <2>1. Serving(r) /\ Own(r) /\ req[r].pc = "compensating"
    BY <1>11, OwnPart DEF Compensated, Serving
  <2>2. /\ UNCHANGED <<status, net, acks, running, stopPending, owner, deleted>>
        /\ doubt' = (doubt \/ <<"stop", r>> \notin acks)
    BY <1>11 DEF Compensated
  <2>3. StepOf(r) /\ req'[r].pc = "done" /\ req'[r].kind = req[r].kind
    BY <1>11, ReturnStep DEF Compensated
  <2>4. Own(r)'
    BY <1>0, <2>1, <2>2, <2>3 DEF Own, CallOK, ClaimantOK, SureOK, AwaitedOK, StartingOK, StoppingOK,
       JobExplained, DeletedOK
  <2> QED BY <1>0, <2>1, <2>2, <2>3, <2>4, NoCall, ServedStep
<1> QED
  BY <1>1, <1>2, <1>3, <1>4, <1>5, <1>6, <1>7, <1>8, <1>9, <1>10, <1>11 DEF StartStep

(* The steps of a stop. *)
LEMMA QuietStop ==
  ASSUME OnePanel, TypeOK, PendingStopFenced, QuietInv, NEW r \in Req, StopStep(r)
  PROVE  QuietInv'
<1> USE DEF row, guards, remote, At
<1>0. MutexHeld /\ net \intersect acks = {}
  BY DEF QuietInv
<1>1. CASE StopClaim(r)
  <2>1. Serving(r) /\ Own(r) /\ req[r].pc = "claim" /\ req[r].kind # "start"
    BY <1>1, OwnPart DEF StopClaim, Serving
  <2>2. UNCHANGED <<net, acks, running, owner, doubt, deleted>>
    BY <1>1 DEF StopClaim
  <2>3. CASE \E now \in Stamps :
               /\ status = req[r].status
               /\ Write(StopClaimTarget(req[r].kind), Bumped(now))
               /\ req' = [req EXCEPT ![r].pc = "dispatch", ![r].at = Bumped(now)]
               /\ stopPending' = TRUE /\ UNCHANGED lock
    <3>1. PICK now \in Stamps :
               /\ status = req[r].status
               /\ Write(StopClaimTarget(req[r].kind), Bumped(now))
               /\ req' = [req EXCEPT ![r].pc = "dispatch", ![r].at = Bumped(now)]
               /\ stopPending' = TRUE /\ UNCHANGED lock
      BY <2>3
    <3>2. StepOf(r) /\ req'[r].pc = "dispatch" /\ req'[r].kind = req[r].kind
      BY <1>0, <2>1, <3>1, ClaimStep
    <3>3. stopPending' /\ status \notin {"created", "ready", "completed"}
      BY <2>1, <3>1 DEF Own, ClaimantOK
    <3>4. Own(r)'
      BY <2>1, <2>2, <3>2, <3>3 DEF Own, CallOK, ClaimantOK, SureOK, AwaitedOK, StartingOK,
         StoppingOK, JobExplained, DeletedOK
    <3> QED BY <1>0, <2>1, <2>2, <3>2, <3>4, NoCall, ServedStep
  <2>4. CASE Return(r) /\ UNCHANGED <<row, guards>>
    <3>1. StepOf(r) /\ req'[r].pc = "done"
      BY <2>4, ReturnStep
    <3>2. Own(r)'
      BY <2>1, <2>2, <2>4, <3>1 DEF Own, CallOK, ClaimantOK, SureOK, AwaitedOK, StartingOK,
         StoppingOK, JobExplained, DeletedOK
    <3> QED BY <1>0, <2>1, <2>2, <3>1, <3>2, NoCall, ServedStep
  <2> QED BY <1>1, <2>3, <2>4 DEF StopClaim
<1>2. CASE StopDispatch(r)
  <2>1. Serving(r) /\ Own(r) /\ req[r].pc = "dispatch" /\ req[r].kind # "start"
    BY <1>2, OwnPart DEF StopDispatch, Serving
  <2>2. UNCHANGED <<row, stopPending, running, owner, doubt>>
    BY <1>2 DEF StopDispatch
  <2>3. StepOf(r) /\ req'[r].pc = "await" /\ req'[r].kind = req[r].kind
    BY <1>0, <1>2, <2>1, GotoStep DEF StopDispatch
  <2>4. /\ \/ net' = net \union {<<"stop", r>>} /\ acks' = acks
           \/ acks' = acks \union {<<"stop", r>>} /\ net' = net
        /\ ~deleted => acks' = acks /\ net' = net \union {<<"stop", r>>}
    BY <1>2 DEF StopDispatch
  <2>5. CallsOf(r)
    BY <1>0, <2>1, <2>4, CallMade DEF Own, CallOK
  <2>6. ~doubt => stopPending /\ ~deleted
    BY <2>1 DEF Own, SureOK, StoppingOK, DeletedOK, PendingStopFenced
  <2>7. \A k \in {"start", "stop", "abort"} : <<k, r>> \notin net \union acks
    BY <2>1 DEF Own, CallOK
  <2>8. CallOK(r)' /\ ClaimantOK(r)'
    BY <2>1, <2>3, <2>4, <2>7 DEF CallOK, ClaimantOK
  <2>9. ASSUME ~doubt' PROVE SureOK(r)' /\ JobExplained(r)' /\ DeletedOK'
    <3>1. /\ ~doubt /\ stopPending' /\ ~deleted' /\ acks' = acks
          /\ net' = net \union {<<"stop", r>>}
      BY <2>2, <2>4, <2>6, <2>9
    <3> QED BY <2>1, <2>3, <2>7, <3>1 DEF SureOK, AwaitedOK, StartingOK, StoppingOK,
         JobExplained, DeletedOK
  <2> QED BY <2>1, <2>2, <2>3, <2>5, <2>8, <2>9, ServedStep DEF Own
<1>3. CASE CompleteStop(r)
  <2>1. /\ Serving(r) /\ Own(r) /\ req[r].pc = "await" /\ req[r].kind # "start"
        /\ <<"stop", r>> \in acks
    BY <1>3, OwnPart DEF CompleteStop, Serving
  <2>2. /\ UNCHANGED <<net, acks, running, owner, doubt, deleted>>
        /\ status' \in {status, "completed"}
    BY <1>3 DEF CompleteStop, CompleteNormalStop, CompleteForceStop, Write
  <2>3. ~doubt => running = NoReq
    BY <2>1 DEF Own, SureOK, StoppingOK
  <2>4. StepOf(r) /\ req'[r].pc \in {"rearm", "done"} /\ req'[r].kind = req[r].kind
    BY <1>0, <1>3, <2>1, GotoStep, ReturnStep DEF CompleteStop
  <2>5. Own(r)'
    BY <1>0, <2>1, <2>2, <2>3, <2>4 DEF Own, CallOK, ClaimantOK, SureOK, AwaitedOK, StartingOK,
       StoppingOK, JobExplained, DeletedOK
  <2> QED BY <1>0, <2>1, <2>2, <2>4, <2>5, NoCall, ServedStep
<1>4. CASE FailStop(r)
  <2>1. /\ Serving(r) /\ Own(r) /\ req[r].pc = "await" /\ req[r].kind # "start"
    BY <1>4, OwnPart DEF FailStop, Serving
  <2>2. UNCHANGED <<net, acks>> /\ doubt'
    BY <1>4 DEF FailStop
  <2>3. StepOf(r) /\ req'[r].pc = "done"
    BY <1>4, ReturnStep DEF FailStop
  <2>4. Own(r)'
    BY <2>1, <2>2, <2>3 DEF Own, CallOK, ClaimantOK
  <2> QED BY <1>0, <2>1, <2>2, <2>3, <2>4, NoCall, ServedStep
<1>5. CASE Rearm(r)
  <2>1. Serving(r) /\ Own(r) /\ req[r].pc = "rearm"
    BY <1>5, OwnPart DEF Rearm, Serving
  <2>2. /\ UNCHANGED <<net, acks, running, stopPending, owner, doubt, deleted>>
        /\ status' = status \/ (status = "completed" /\ status' = "ready")
    BY <1>5 DEF Rearm, Write
  <2>3. StepOf(r) /\ req'[r].pc = "done"
    BY <1>5, ReturnStep DEF Rearm
  <2>4. Own(r)'
    BY <2>1, <2>2, <2>3 DEF Own, CallOK, ClaimantOK, SureOK, AwaitedOK, StartingOK,
       StoppingOK, JobExplained, DeletedOK
  <2> QED BY <1>0, <2>1, <2>2, <2>3, <2>4, NoCall, ServedStep
<1> QED BY <1>1, <1>2, <1>3, <1>4, <1>5 DEF StopStep

(* The other steps of a request: those under the mutex ... *)
LEMMA QuietOther ==
  ASSUME OnePanel, TypeOK, QuietInv, NEW r \in Req, OtherStep(r)
  PROVE  QuietInv'
<1> USE DEF row, guards, remote, At
<1>0. MutexHeld /\ net \intersect acks = {}
  BY DEF QuietInv
<1>1. CASE HeartbeatFail(r)
  <2>1. Serving(r) /\ Own(r) /\ req[r].pc = "converge"
    BY <1>1, OwnPart DEF HeartbeatFail, Serving
  <2>2. UNCHANGED <<net, acks, running, stopPending, owner, doubt, deleted>>
    BY <1>1 DEF HeartbeatFail
  <2>3. CASE /\ status = "live" /\ status' = "failed"
             /\ Goto(r, "compensate") /\ UNCHANGED lock
    <3>1. StepOf(r) /\ req'[r].pc = "compensate"
      BY <1>0, <2>1, <2>3, GotoStep
    <3>2. Own(r)'
      BY <2>1, <2>2, <2>3, <3>1 DEF Own, CallOK, ClaimantOK, SureOK, AwaitedOK, StartingOK,
         StoppingOK, JobExplained, DeletedOK
    <3> QED BY <1>0, <2>1, <2>2, <3>1, <3>2, NoCall, ServedStep
  <2>4. CASE Return(r) /\ UNCHANGED status
    <3>1. StepOf(r) /\ req'[r].pc = "done"
      BY <2>4, ReturnStep
    <3>2. Own(r)'
      BY <2>1, <2>2, <2>4, <3>1 DEF Own, CallOK, ClaimantOK, SureOK, AwaitedOK, StartingOK,
         StoppingOK, JobExplained, DeletedOK
    <3> QED BY <1>0, <2>1, <2>2, <3>1, <3>2, NoCall, ServedStep
  <2> QED BY <1>1, <2>3, <2>4 DEF HeartbeatFail, Write
<1>2. CASE WriteSettings(r)
  <2>1. Serving(r) /\ Own(r) /\ req[r].pc = "write"
    BY <1>2, OwnPart DEF WriteSettings, Serving
  <2>2. UNCHANGED <<status, net, acks, running, stopPending, owner, doubt, deleted>>
    BY <1>2 DEF WriteSettings
  <2>3. StepOf(r) /\ req'[r].pc = "done"
    BY <1>2, ReturnStep DEF WriteSettings
  <2>4. Own(r)'
    BY <2>1, <2>2, <2>3 DEF Own, CallOK, ClaimantOK, SureOK, AwaitedOK, StartingOK,
       StoppingOK, JobExplained, DeletedOK
  <2> QED BY <1>0, <2>1, <2>2, <2>3, <2>4, NoCall, ServedStep
<1>3. CASE Lost(r)
  <2>1. /\ StepOf(r) /\ req'[r].pc = "done" /\ req'[r].kind = req[r].kind
        /\ UNCHANGED <<net, acks, running, owner>> /\ doubt'
    BY <1>3, ReturnStep DEF Lost
  <2>2. req[r].pc = "observed" \/ Serving(r)
    <3>1. req[r].pc \in PC \ {"idle", "done"}
      BY <1>3 DEF Lost, TypeOK, Request
    <3> QED BY <3>1 DEF PC, Serving
  <2>3. CASE Serving(r)
    <3>1. Own(r)
      BY <2>3, OwnPart
    <3>2. CallOK(r)'
      BY <2>1, <3>1 DEF Own, CallOK
    <3>3. Own(r)'
      BY <2>1, <3>2 DEF Own, ClaimantOK
    <3> QED BY <1>0, <2>1, <2>3, <3>3, NoCall, ServedStep
  <2>4. CASE req[r].pc = "observed"
    BY <2>1, <2>4, AsideStep
  <2> QED BY <2>2, <2>3, <2>4
(* ... and those outside it. *)
<1>4. CASE HeartbeatObserve(r)
  <2>1. /\ \A q \in Req : q # r => req'[q] = req[q]
        /\ req'[r].pc = "observed" /\ req[r].pc = "idle"
    BY <1>4, ReadMoves DEF HeartbeatObserve
  <2>2. UNCHANGED <<lock, net, acks, running, owner, stopPending, status, deleted, doubt>>
    BY <1>4 DEF HeartbeatObserve
  <2>3. StepOf(r)
    BY <2>1, <2>2 DEF StepOf, Serving
  <2> QED BY <2>1, <2>2, <2>3, AsideStep
<1>5. ASSUME NEW k, Once(r, k)
      PROVE  /\ StepOf(r) /\ req[r].pc = "idle" /\ req'[r].pc = "done"
             /\ UNCHANGED <<net, acks, running, owner>>
  <2>1. /\ \A q \in Req : q # r => req'[q] = req[q]
        /\ req'[r].pc = "done"
    BY <1>5, OnceMoves
  <2>2. UNCHANGED <<lock, net, acks, running, owner>> /\ req[r].pc = "idle"
    BY <1>5 DEF Once
  <2> QED BY <2>1, <2>2 DEF StepOf, Serving
<1>6. CASE MarkFailed(r)
  <2>1. Once(r, "markFailed") /\ doubt'
    BY <1>6 DEF MarkFailed
  <2> QED BY <1>5, <2>1, AsideStep
<1>7. CASE ArchiveReport(r)
  <2>1. Once(r, "report") /\ UNCHANGED <<stopPending, status, deleted, doubt>>
    BY <1>7 DEF ArchiveReport
  <2> QED BY <1>5, <2>1, AsideStep
<1>8. CASE ArchiveRetry(r)
  <2>1. Once(r, "retry") /\ UNCHANGED <<stopPending, status, deleted, doubt>>
    BY <1>8 DEF ArchiveRetry
  <2> QED BY <1>5, <2>1, AsideStep
<1>9. CASE Delete(r)
  <2>1. /\ Once(r, "delete") /\ UNCHANGED <<stopPending, doubt>>
        /\ status \notin {"starting", "live"} /\ status' = "completed"
    BY <1>9 DEF Delete, Deletable, Protected, Write
  <2> QED BY <1>5, <2>1, AsideStep
<1> QED BY <1>1, <1>2, <1>3, <1>4, <1>6, <1>7, <1>8, <1>9 DEF OtherStep

(* Taking the mutex: there is one, and nobody holds it. *)
LEMMA QuietTake ==
  ASSUME OnePanel, TypeOK, QuietInv, NEW r \in Req, NEW p \in Panel,
         Begin(r, p) \/ HeartbeatRecheck(r, p)
  PROVE  QuietInv'
<1> USE DEF row, guards, remote, At
<1>0. MutexHeld /\ net \intersect acks = {}
  BY DEF QuietInv
<1>1. /\ lock[p] = NoReq /\ req[r].pc \in {"idle", "observed"}
      /\ UNCHANGED <<status, deleted, stopPending, net, acks, running, owner, doubt>>
  BY DEF Begin, HeartbeatRecheck
<1>2. \A q \in Req : ~Serving(q)
  BY <1>0, <1>1, ConstantsAssumption DEF OnePanel, MutexHeld
<1>3. \A k \in {"start", "stop", "abort"} : <<k, r>> \notin net \union acks
  BY <1>1 DEF QuietInv, CallOK
<1>4. /\ \A q \in Req : q # r => req'[q] = req[q]
      /\ req'[r].pc \in {"claim", "write", "converge", "done"}
      /\ lock' = [lock EXCEPT ![p] = r] \/ (lock' = lock /\ req'[r].pc = "done")
      /\ req'[r].pc = "claim" /\ req'[r].kind # "start" =>
           req'[r].status \notin {"created", "ready", "completed"}
  <2>1. CASE Begin(r, p)
    <3>1. CASE \E m \in Modes : Read(r, "start", m, "claim")
      BY <2>1, <3>1, ReadMoves DEF Begin
    <3>2. CASE ManuallyStoppable(status) /\ Read(r, "stop", "plain", "claim")
      <4>1. req'[r].status = status
        BY <3>2 DEF Read, TypeOK
      <4> QED BY <2>1, <3>2, <4>1, ReadMoves DEF Begin, ManuallyStoppable
    <3>3. CASE ForceStoppable(status) /\ Read(r, "force", "plain", "claim")
      <4>1. req'[r].status = status
        BY <3>3 DEF Read, TypeOK
      <4> QED BY <2>1, <3>3, <4>1, ReadMoves DEF Begin, ForceStoppable
    <3>4. CASE Read(r, "settings", "plain", "write")
      BY <2>1, <3>4, ReadMoves DEF Begin
    <3> QED BY <2>1, <3>1, <3>2, <3>3, <3>4 DEF Begin
  <2>2. CASE HeartbeatRecheck(r, p)
    <3>1. CASE Goto(r, "converge") /\ lock' = [lock EXCEPT ![p] = r]
      BY <3>1, GotoMoves
    <3>2. CASE Goto(r, "done") /\ UNCHANGED lock
      BY <3>2, GotoMoves
    <3> QED BY <2>2, <3>1, <3>2 DEF HeartbeatRecheck
  <2> QED BY <2>1, <2>2
<1>5. StepOf(r)
  <2>1. \A q \in Req, s \in Panel : q # r /\ lock[s] = q => lock'[s] = q
    BY <1>1, <1>4, ConstantsAssumption DEF TypeOK
  <2>2. Serving(r)' => lock'[p] = r
    BY <1>4 DEF Serving, TypeOK
  <2> QED BY <1>4, <2>1, <2>2 DEF StepOf
<1>6. ~doubt => JobExplained(r) /\ DeletedOK /\ (running # NoReq => status \in {"starting", "live"} \/ stopPending)
  BY <1>2 DEF QuietInv, JobOK, JobExplained, Serving
<1>7. Own(r)'
  BY <1>1, <1>3, <1>4, <1>6 DEF Own, CallOK, ClaimantOK, SureOK, AwaitedOK, StartingOK, StoppingOK,
     JobExplained, DeletedOK
<1> QED BY <1>0, <1>1, <1>2, <1>5, <1>7, NoCall, AloneStep

(* The services. *)
LEMMA QuietDeliver ==
  ASSUME OnePanel, TypeOK, QuietInv, NEW c \in net, Deliver(c)
  PROVE  QuietInv'
<1> USE DEF row, guards, remote
<1>0. MutexHeld /\ net \intersect acks = {}
  BY DEF QuietInv
<1>1. PICK k \in {"start", "stop", "abort"}, r \in Req : c = <<k, r>>
  BY DEF TypeOK, Calls
<1>2. /\ net' = net \ {c} /\ acks' = acks \union {c}
      /\ UNCHANGED <<status, deleted, stopPending, lock, req, owner, doubt>>
  BY DEF Deliver
<1>3. net' \union acks' = net \union acks /\ net' \intersect acks' = {}
  BY <1>0, <1>2
<1>4. MutexHeld' /\ \A q \in Req : CallOK(q)' /\ ClaimantOK(q)'
  BY <1>2, <1>3 DEF QuietInv, MutexHeld, Serving, CallOK, ClaimantOK
<1>5. CASE doubt
  BY <1>2, <1>3, <1>4, <1>5 DEF QuietInv
<1>6. CASE ~doubt
  <2>1. AwaitedOK(r) /\ CallOK(r) /\ <<k, r>> \in net
    BY <1>1, <1>6 DEF QuietInv, SureOK
  <2>2. Serving(r)
    BY <2>1 DEF AwaitedOK, Serving
  <2>3. Own(r)
    BY <2>2, OwnPart
  <2>4. StepOf(r)
    BY <1>2, <1>4, <2>2 DEF StepOf, MutexHeld, Serving
  <2>5. CallsOf(r)
    BY <1>1, <1>2, <1>3 DEF CallsOf
  <2>6. /\ k = "start" => running' = r
        /\ k = "stop" => running' = NoReq
        /\ k = "abort" => running' = IF running = r THEN NoReq ELSE running
    <3>1. c[1] = k /\ c[2] = r
      BY <1>1
    <3> QED BY <3>1 DEF Deliver
  <2>7. SureOK(r) /\ JobExplained(r) /\ DeletedOK
    BY <1>6, <2>3 DEF Own
  <2>8. AwaitedOK(r)' /\ DeletedOK'
    BY <1>2, <2>7 DEF SureOK, AwaitedOK, DeletedOK
  <2>9. StartingOK(r)' /\ StoppingOK(r)' /\ JobExplained(r)'
    <3>1. CASE k = "start"
      <4>1. req[r].pc = "await" /\ req[r].kind = "start" /\ <<"abort", r>> \notin acks'
        BY <1>1, <1>2, <2>1, <3>1 DEF AwaitedOK, CallOK
      <4> QED BY <1>2, <2>6, <2>7, <3>1, <4>1 DEF SureOK, StartingOK, StoppingOK, JobExplained
    <3>2. CASE k = "stop"
      BY <1>2, <2>6, <2>7, <3>2 DEF SureOK, StartingOK, StoppingOK, JobExplained
    <3>3. CASE k = "abort"
      <4>1. req[r].pc = "cleanup" /\ req[r].kind = "start"
        BY <2>1, <2>3, <3>3 DEF AwaitedOK, Own, ClaimantOK
      <4>2. running' = NoReq /\ status = "starting"
        BY <2>6, <2>7, <3>3, <4>1 DEF SureOK, StartingOK
      <4> QED BY <1>2, <4>1, <4>2 DEF StartingOK, StoppingOK, JobExplained
    <3> QED BY <3>1, <3>2, <3>3
  <2>10. Own(r)'
    BY <1>4, <2>8, <2>9 DEF Own, SureOK
  <2> QED BY <1>2, <2>2, <2>4, <2>5, <2>10, ServedStep
<1> QED BY <1>5, <1>6

LEMMA QuietDrop ==
  ASSUME QuietInv, NEW c \in net, Drop(c)
  PROVE  QuietInv'
<1>1. net' \subseteq net /\ acks' = acks /\ doubt' /\ UNCHANGED <<lock, req, owner>>
  BY DEF Drop, remote
<1> QED BY <1>1 DEF QuietInv, MutexHeld, Serving, CallOK, ClaimantOK

LEMMA QuietStep ==
  ASSUME OnePanel, TypeOK, PendingStopFenced, QuietInv, [Next]_vars
  PROVE  QuietInv'
<1>1. CASE UNCHANGED vars
  BY <1>1 DEF vars, row, guards, remote, QuietInv, MutexHeld, Serving, CallOK, ClaimantOK, JobOK,
     DeletedOK, SureOK, AwaitedOK, StartingOK, StoppingOK
<1> QED BY <1>1, QuietStart, QuietStop, QuietOther, QuietTake, QuietDeliver, QuietDrop DEF Next

LEMMA QuietInvariant == OnePanel => (Spec => [](TypeOK /\ QuietInv))
<1> SUFFICES ASSUME OnePanel PROVE Spec => [](TypeOK /\ QuietInv)
  OBVIOUS
<1>1. Init => QuietInv
  BY DEF Init, NoRequest, QuietInv, MutexHeld, Serving, CallOK, ClaimantOK, JobOK, DeletedOK,
     SureOK, AwaitedOK, StartingOK, StoppingOK
<1>2. TypeOK /\ PendingStopFenced /\ QuietInv /\ [Next]_vars => QuietInv'
  BY QuietStep
<1> QED BY <1>1, <1>2, TypeCorrect, StopFenced, PTL DEF Spec

(* With one Panel, a stream shown as completed or waiting has no media job *)
(* running once nothing is in flight, whatever requests interleave outside *)
(* the lifecycle mutex: unless a call or a request was lost, every start   *)
(* that lost the row has stopped what it started.                          *)
THEOREM StoppedIsQuiet == OnePanel => (Spec => []QuietWhenStopped)
<1> SUFFICES ASSUME OnePanel PROVE Spec => []QuietWhenStopped
  OBVIOUS
<1>1. TypeOK /\ PendingStopFenced /\ QuietInv => QuietWhenStopped
  BY DEF QuietInv, JobOK, QuietWhenStopped, AtRest, PendingStopFenced
<1> QED BY <1>1, QuietInvariant, StopFenced, PTL

(* With one Panel, any start, plain ones included, takes the stream live   *)
(* (completeStreamStart) only if its claim was the last claim of a start:  *)
(* the mutex makes up for the compare-and-set on the status alone.         *)
THEOREM OwnerGoesLiveAlone == OnePanel => (Spec => LiveOnlyByOwner)
<1> SUFFICES ASSUME OnePanel PROVE Spec => LiveOnlyByOwner
  OBVIOUS
<1> DEFINE Live == \A r \in Req : (/\ status # "live" /\ status' = "live"
                                   /\ req'[r].pc # req[r].pc) => owner = r
<1>1. TypeOK /\ QuietInv /\ [Next]_vars => [Live]_vars
  <2> SUFFICES ASSUME TypeOK, QuietInv, Next, status # "live", status' = "live"
               PROVE  \A r \in Req : req'[r].pc # req[r].pc => owner = r
    BY DEF vars, row
  <2> USE DEF row
  <2>1. ASSUME NEW r \in Req, StartStep(r)
        PROVE  \A q \in Req : req'[q].pc # req[q].pc => owner = q
    <3>1. CompletePlainStart(r) \/ CompletePreparedStart(r)
      BY <2>1 DEF StartStep, StartClaim, ClaimStreamStart, PreDispatchFailure, StartDispatch,
        FailPlainStart, FailPlainStartLate, FailPreparedStart, CleanupPreparedStart, Compensate,
        Compensated, TransitionClaimed, Write
    <3>2. req[r].pc = "await" /\ req[r].kind = "start" /\ Return(r)
      BY <3>1 DEF CompletePlainStart, CompletePreparedStart, At
    <3>3. owner = r
      BY <3>2 DEF QuietInv, ClaimantOK
    <3>4. \A q \in Req : q # r => req'[q] = req[q]
      BY <3>2, ReturnMoves
    <3> QED BY <3>3, <3>4
  <2>2. ASSUME NEW r \in Req, StopStep(r) PROVE FALSE
    BY <2>2 DEF StopStep, StopClaim, StopClaimTarget, StopDispatch, CompleteStop,
      CompleteNormalStop, CompleteForceStop, FailStop, Rearm, Write
  <2>3. ASSUME NEW r \in Req, OtherStep(r) PROVE FALSE
    BY <2>3 DEF OtherStep, HeartbeatObserve, HeartbeatFail, MarkFailed, ArchiveReport, ArchiveRetry,
      Delete, WriteSettings, Lost, Write
  <2>4. ASSUME NEW r \in Req, NEW p \in Panel, Begin(r, p) \/ HeartbeatRecheck(r, p) PROVE FALSE
    BY <2>4 DEF Begin, HeartbeatRecheck
  <2>5. ASSUME NEW c \in net, Deliver(c) \/ Drop(c) PROVE FALSE
    BY <2>5 DEF Deliver, Drop
  <2> QED BY <2>1, <2>2, <2>3, <2>4, <2>5 DEF Next
<1> QED BY <1>1, QuietInvariant, PTL DEF Spec, LiveOnlyByOwner
=============================================================================
