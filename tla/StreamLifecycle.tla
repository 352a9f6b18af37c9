-------------------------- MODULE StreamLifecycle --------------------------
(***************************************************************************)
(* One stream of the control plane: the row of table streams, the requests *)
(* that drive it (start, stop, force stop, heartbeat failure, settings,    *)
(* mark failed, archive report and retry, delete) and the media services   *)
(* it is dispatched to.  A request runs in one Panel process and makes its *)
(* database transactions and its remote calls one after the other; the     *)
(* lifecycle mutex serialises requests within a Panel, and only the        *)
(* compare-and-set transactions serialise them across Panels.              *)
(***************************************************************************)
EXTENDS Naturals, FiniteSets

CONSTANTS
  Req,        \* request identities, each used once
  NoReq,      \* "no request": a free mutex, nothing running
  Panel,      \* Panel processes sharing the database
  Kinds,      \* the kinds of request that may be made
  Modes,      \* "plain" starts, "prepared" (Worker video) starts, or both
  Archive,    \* the stream has an archive profile
  AutoStart,  \* auto_start_trigger = discord voice join
  Skew        \* how far a Panel's clock may lag behind the newest stamp

ASSUME ConstantsAssumption ==
  /\ NoReq \notin Req
  /\ Kinds \subseteq {"start", "stop", "force", "heartbeat", "settings",
                      "markFailed", "report", "retry", "delete"}
  /\ Modes \subseteq {"plain", "prepared"}
  /\ Archive \in BOOLEAN
  /\ AutoStart \in BOOLEAN
  /\ Skew \in Nat

VARIABLES
  status, updatedAt,      \* streams.status, streams.updated_at
  archiveAt,              \* streams.archive_started_at (0: NULL)
  archiveReported,        \* streams.archive_reported_at IS NOT NULL
  deleted,                \* streams.deleted_at IS NOT NULL
  stopPending,            \* a row of stream_normal_stop_pending
  retryPending,           \* an open archive-retry guard in stream_logs
  receipts,               \* source versions in stream_normal_stop_receipts
  clock,                  \* number of stamped writes so far
  lock,                   \* per Panel: the request holding the lifecycle mutex
  req,                    \* the requests
  net, acks,              \* remote calls under way, remote calls acknowledged
  running,                \* the start whose media job the services run
  owner,                  \* history: the start whose claim committed last
  doubt                   \* history: a call or a request was lost, or the
                          \* operator marked the stream failed

row == <<status, updatedAt, archiveAt, archiveReported, deleted>>
guards == <<stopPending, retryPending, receipts>>
remote == <<net, acks, running>>
vars == <<row, guards, clock, lock, req, remote, owner, doubt>>

Status == {"created", "ready", "starting", "live", "stopping", "completed",
           "failed"}
PC == {"idle", "claim", "dispatch", "await", "compensate", "compensating",
       "cleanup", "rearm", "observed", "converge", "write", "done"}
Lifecycle == {"start", "stop", "force"}
Calls == {"start", "stop", "abort"} \X Req

NoRequest == [pc |-> "idle", kind |-> "none", mode |-> "plain",
              status |-> "created", at |-> 0, source |-> 0]

Request == [pc : PC, kind : Kinds \union {"none"}, mode : {"plain", "prepared"},
            status : Status, at : Nat, source : Nat]

TypeOK ==
  /\ status \in Status
  /\ updatedAt \in Nat /\ archiveAt \in Nat /\ clock \in Nat
  /\ archiveReported \in BOOLEAN /\ deleted \in BOOLEAN
  /\ stopPending \in BOOLEAN /\ retryPending \in BOOLEAN
  /\ receipts \subseteq Nat
  /\ lock \in [Panel -> Req \union {NoReq}]
  /\ req \in [Req -> Request]
  /\ net \subseteq Calls /\ acks \subseteq Calls
  /\ running \in Req \union {NoReq}
  /\ owner \in Req \union {NoReq}
  /\ doubt \in BOOLEAN

Init ==
  /\ status = "created" /\ updatedAt = 0 /\ archiveAt = 0
  /\ archiveReported = FALSE /\ deleted = FALSE
  /\ stopPending = FALSE /\ retryPending = FALSE /\ receipts = {}
  /\ clock = 0
  /\ lock = [p \in Panel |-> NoReq]
  /\ req = [r \in Req |-> NoRequest]
  /\ net = {} /\ acks = {} /\ running = NoReq
  /\ owner = NoReq /\ doubt = FALSE

-----------------------------------------------------------------------------
(* Time.  Every stamped write reads the clock of the Panel that makes it:  *)
(* with Skew = 0 stamps are distinct and increasing, with a larger Skew    *)
(* they may tie or go back, as the clocks of two Panels may.               *)

Stamps == {t \in 0 .. (clock + 1) : t + Skew >= clock + 1}

\* streamMutationTime and the same bump in claimStop and finishClaimedStop
Bumped(t) == IF t > updatedAt THEN t ELSE updatedAt + 1

Write(s, t) ==
  /\ status' = s
  /\ updatedAt' = t
  /\ clock' = clock + 1

-----------------------------------------------------------------------------
(* Status classes and the protection that assignments, starts and deletion *)
(* all consult.                                                            *)

AutoStartable(s) == s \in {"created", "ready"}
ManuallyStartable(s) == AutoStartable(s) \/ s = "failed"
ManuallyStoppable(s) == s \in {"starting", "live", "failed"}
ForceStoppable(s) == s \in {"starting", "live", "stopping", "failed"}
SupersededRequiresStop(s) == s \in {"stopping", "completed", "failed"}

PendingArchiveRun ==
  /\ archiveAt # 0
  /\ ~archiveReported
  /\ status \in {"stopping", "completed", "ready"}

ProtectedIgnoringStop ==
  \/ status \in {"starting", "live", "stopping"}
  \/ retryPending
  \/ PendingArchiveRun

Protected ==
  \/ status \in {"starting", "live", "stopping"}
  \/ retryPending
  \/ stopPending
  \/ PendingArchiveRun

-----------------------------------------------------------------------------
(* Requests and the lifecycle mutex.                                       *)

At(r, pc) == req[r].pc = pc
Goto(r, pc) == req' = [req EXCEPT ![r].pc = pc]
Holds(r) == {p \in Panel : lock[p] = r}
Unlock(r) == lock' = [p \in Panel |-> IF lock[p] = r THEN NoReq ELSE lock[p]]
Return(r) == Goto(r, "done") /\ Unlock(r)

\* GetStream under the mutex: what the handler compares with later.
Read(r, k, m, pc) ==
  req' = [req EXCEPT ![r] = [pc |-> pc, kind |-> k, mode |-> m,
                             status |-> status, at |-> updatedAt,
                             source |-> updatedAt]]

\* A handler takes the mutex, reads the stream and passes its status check.
Begin(r, p) ==
  /\ At(r, "idle")
  /\ lock[p] = NoReq
  /\ lock' = [lock EXCEPT ![p] = r]
  /\ \/ /\ "start" \in Kinds /\ ManuallyStartable(status)
        /\ \E m \in Modes : Read(r, "start", m, "claim")
     \/ /\ "stop" \in Kinds /\ ManuallyStoppable(status) /\ ~deleted
        /\ Read(r, "stop", "plain", "claim")
     \/ /\ "force" \in Kinds /\ ForceStoppable(status)
        /\ Read(r, "force", "plain", "claim")
     \/ /\ "settings" \in Kinds /\ status \notin {"starting", "stopping"}
        /\ Read(r, "settings", "plain", "write")
  /\ UNCHANGED <<row, guards, clock, remote, owner, doubt>>

-----------------------------------------------------------------------------
(* Start.                                                                  *)

\* streamStartClockConflict
StartClockConflict(now) ==
  \/ now < updatedAt
  \/ /\ now = updatedAt
     /\ status = "failed"
     /\ archiveAt >= now

\* The row is still the one the preflight read and nothing protects it.
StartClaimable(r, now) ==
  /\ ~deleted
  /\ ManuallyStartable(status)
  /\ status = req[r].status /\ updatedAt = req[r].at
  /\ ~Protected
  /\ ~StartClockConflict(now)

\* A run identity is allocated for an archive profile and for every
\* prepared start.
ArchiveAuthority(r, t) ==
  IF Archive \/ req[r].mode = "prepared" THEN t ELSE 0

\* ClaimStreamStart: one transaction takes ownership of the row.
ClaimStreamStart(r, now) ==
  /\ Write("starting", now)
  /\ archiveAt' = ArchiveAuthority(r, now)
  /\ archiveReported' = FALSE
  /\ req' = [req EXCEPT ![r].pc = "dispatch", ![r].at = now]

StartClaim(r) ==
  /\ At(r, "claim") /\ req[r].kind = "start"
  /\ \E now \in Stamps :
       \/ /\ StartClaimable(r, now)
          /\ ClaimStreamStart(r, now)
          /\ owner' = r
          /\ UNCHANGED <<deleted, guards, lock, remote, doubt>>
       \/ /\ ~StartClaimable(r, now)
          /\ Return(r)
          /\ UNCHANGED <<row, guards, clock, remote, owner, doubt>>

\* The ownership claim of r still describes the row (status aside): update
\* time, identity and archive authority of TransitionClaimedStreamStart.
ClaimMatches(r) ==
  /\ updatedAt = req[r].at
  /\ archiveAt = ArchiveAuthority(r, req[r].at)
  /\ ~archiveReported

OwnsStart(r) == status = "starting" /\ ClaimMatches(r)

\* TransitionClaimedStreamStart(claim, s); a stamp older than the row is a
\* conflict and writes nothing.
TransitionClaimed(r, s) ==
  /\ OwnsStart(r)
  /\ \E now \in Stamps : now >= updatedAt /\ Write(s, now)
  /\ UNCHANGED <<archiveAt, archiveReported, deleted>>

\* Anything that fails between the claim and the first remote call: cover
\* generation, visual snapshot, relay fence, output, runtime, dispatch mark.
PreDispatchFailure(r) ==
  /\ At(r, "dispatch") /\ req[r].kind = "start"
  /\ \/ TransitionClaimed(r, "failed")
     \/ ~OwnsStart(r) /\ UNCHANGED <<row, clock>>
  /\ Return(r)
  /\ UNCHANGED <<guards, remote, owner, doubt>>

\* Encoder, Worker and Bot are called in turn, whatever the row says by now.
DispatchPlain(r) ==
  /\ req[r].mode = "plain"
  /\ net' = net \union {<<"start", r>>}
  /\ Goto(r, "await")
  /\ UNCHANGED lock

\* A prepared start checks its claim before each call.
DispatchPrepared(r) ==
  /\ req[r].mode = "prepared"
  /\ \/ /\ OwnsStart(r)
        /\ net' = net \union {<<"start", r>>}
        /\ Goto(r, "await")
        /\ UNCHANGED lock
     \/ /\ ~OwnsStart(r)
        /\ Return(r)
        /\ UNCHANGED net

\* dispatcher.Start
StartDispatch(r) ==
  /\ At(r, "dispatch") /\ req[r].kind = "start"
  /\ DispatchPlain(r) \/ DispatchPrepared(r)
  /\ UNCHANGED <<row, guards, clock, acks, running, owner, doubt>>

\* completeStreamStart of a plain start: a compare-and-set on the status
\* alone; superseded, it stops what it started if the row has ended.
CompletePlainStart(r) ==
  /\ At(r, "await") /\ req[r].kind = "start" /\ req[r].mode = "plain"
  /\ <<"start", r>> \in acks
  /\ \/ /\ status = "starting"
        /\ \E now \in Stamps : Write("live", now)
        /\ UNCHANGED <<archiveAt, archiveReported, deleted>>
        /\ Return(r)
     \/ /\ status # "starting"
        /\ UNCHANGED <<row, clock>>
        /\ IF SupersededRequiresStop(status)
             THEN Goto(r, "compensate") /\ UNCHANGED lock
             ELSE Return(r)
  /\ UNCHANGED <<guards, remote, owner, doubt>>

\* completeStreamStart of a prepared start: fenced by the ownership claim.
CompletePreparedStartByStatus(r) ==
  /\ At(r, "await") /\ req[r].kind = "start" /\ req[r].mode = "prepared"
  /\ <<"start", r>> \in acks
  /\ status = "starting"
  /\ \E now \in Stamps : Write("live", now)
  /\ Return(r)
  /\ UNCHANGED <<archiveAt, archiveReported, deleted, guards, remote, owner,
                 doubt>>

CompletePreparedStart(r) ==
  /\ At(r, "await") /\ req[r].kind = "start" /\ req[r].mode = "prepared"
  /\ <<"start", r>> \in acks
  /\ TransitionClaimed(r, "live")
  /\ Return(r)
  /\ UNCHANGED <<guards, remote, owner, doubt>>

FailPlainStartUncompensated(r) ==
  /\ At(r, "await") /\ req[r].kind = "start" /\ req[r].mode = "plain"
  /\ \/ TransitionClaimed(r, "failed")
     \/ ~OwnsStart(r) /\ UNCHANGED <<row, clock>>
  /\ Return(r)
  /\ doubt' = (doubt \/ <<"start", r>> \notin acks)
  /\ UNCHANGED <<guards, remote, owner>>

\* A failed Start dispatch or YouTube transition of a plain start.
FailPlainStart(r) ==
  /\ At(r, "await") /\ req[r].kind = "start" /\ req[r].mode = "plain"
  /\ \/ /\ TransitionClaimed(r, "failed")
        /\ Goto(r, "compensate") /\ UNCHANGED lock
     \/ /\ status # "starting"
        /\ UNCHANGED <<row, clock>>
        /\ IF SupersededRequiresStop(status)
             THEN Goto(r, "compensate") /\ UNCHANGED lock
             ELSE Return(r)
     \/ /\ status = "starting" /\ ~ClaimMatches(r)
        /\ UNCHANGED <<row, clock>>
        /\ Return(r)
  /\ doubt' = (doubt \/ <<"start", r>> \notin acks)
  /\ UNCHANGED <<guards, remote, owner>>

\* Recording the applied cover or the burn-in failed after the services had
\* started.  A start that still owns the row fails it as above; a superseded
\* one returns here without a compensating stop.
FailPlainStartLate(r) ==
  /\ At(r, "await") /\ req[r].kind = "start" /\ req[r].mode = "plain"
  /\ <<"start", r>> \in acks
  /\ ~OwnsStart(r)
  /\ Return(r)
  /\ doubt' = TRUE
  /\ UNCHANGED <<row, guards, clock, remote, owner>>

\* failPreparedStreamStart: clean up only while the claim is current.
FailPreparedStart(r) ==
  /\ At(r, "await") /\ req[r].kind = "start" /\ req[r].mode = "prepared"
  /\ \/ /\ OwnsStart(r)
        /\ net' = net \union {<<"abort", r>>}
        /\ Goto(r, "cleanup") /\ UNCHANGED lock
     \/ /\ ~OwnsStart(r)
        /\ Return(r) /\ UNCHANGED net
  /\ doubt' = (doubt \/ <<"start", r>> \notin acks)
  /\ UNCHANGED <<row, guards, clock, acks, running, owner>>

\* A confirmed cleanup by the current owner fails the stream; otherwise the
\* row stays as it is (start_preparation_ownership_unknown).
CleanupPreparedStart(r) ==
  /\ At(r, "cleanup")
  /\ \/ <<"abort", r>> \in acks /\ TransitionClaimed(r, "failed")
        /\ UNCHANGED doubt
     \/ /\ <<"abort", r>> \notin acks \/ ~OwnsStart(r)
        /\ doubt' = TRUE
        /\ UNCHANGED <<row, clock>>
  /\ Return(r)
  /\ UNCHANGED <<guards, remote, owner>>

\* The detached Stop that follows a failed or superseded start.
Compensate(r) ==
  /\ At(r, "compensate")
  /\ net' = net \union {<<"stop", r>>}
  /\ Goto(r, "compensating")
  /\ UNCHANGED <<row, guards, clock, lock, acks, running, owner, doubt>>

Compensated(r) ==
  /\ At(r, "compensating")
  /\ doubt' = (doubt \/ <<"stop", r>> \notin acks)
  /\ Return(r)
  /\ UNCHANGED <<row, guards, clock, remote, owner>>

-----------------------------------------------------------------------------
(* Stop and force stop.                                                    *)

StopClaimTarget(k) == IF k = "stop" THEN "stopping" ELSE "failed"

\* claimStop: compare-and-set on status and version, with the pending mark.
StopClaim(r) ==
  /\ At(r, "claim") /\ req[r].kind \in {"stop", "force"}
  /\ IF status = req[r].status /\ updatedAt = req[r].at
       THEN /\ \E now \in Stamps :
                 /\ Write(StopClaimTarget(req[r].kind), Bumped(now))
                 /\ req' = [req EXCEPT ![r].pc = "dispatch",
                                       ![r].at = Bumped(now)]
            /\ stopPending' = TRUE
            /\ UNCHANGED <<archiveAt, archiveReported, deleted, retryPending,
                           receipts, lock>>
       ELSE /\ Return(r)
            /\ UNCHANGED <<row, guards, clock>>
  /\ UNCHANGED <<remote, owner, doubt>>

\* dispatcher.Stop; a deleted stream has no services left to call.
StopDispatch(r) ==
  /\ At(r, "dispatch") /\ req[r].kind \in {"stop", "force"}
  /\ IF deleted
       THEN acks' = acks \union {<<"stop", r>>} /\ UNCHANGED net
       ELSE net' = net \union {<<"stop", r>>} /\ UNCHANGED acks
  /\ Goto(r, "await")
  /\ UNCHANGED <<row, guards, clock, lock, running, owner, doubt>>

OwnsStopByStatus(r) == status = StopClaimTarget(req[r].kind)

\* The row still carries this stop's claim.
OwnsStop(r) ==
  status = StopClaimTarget(req[r].kind) /\ updatedAt = req[r].at

\* CompleteNormalStop: the stamp of the completed row is not bumped.
CompleteNormalStop(r) ==
  /\ \E now \in Stamps : Write("completed", now)
  /\ receipts' = receipts \union {req[r].source}

\* CompleteConfirmedForceStop: no receipt, and a bumped stamp.
CompleteForceStop(r) ==
  /\ \E now \in Stamps : Write("completed", Bumped(now))
  /\ UNCHANGED receipts

\* Every service acknowledged the Stop.
CompleteStop(r) ==
  /\ At(r, "await") /\ req[r].kind \in {"stop", "force"}
  /\ <<"stop", r>> \in acks
  /\ IF OwnsStop(r)
       THEN /\ \/ req[r].kind = "stop" /\ CompleteNormalStop(r)
               \/ req[r].kind = "force" /\ CompleteForceStop(r)
            /\ stopPending' = FALSE
            /\ IF AutoStart THEN Goto(r, "rearm") /\ UNCHANGED lock
                            ELSE Return(r)
            /\ UNCHANGED <<archiveAt, archiveReported, deleted, retryPending>>
       ELSE /\ Return(r)
            /\ UNCHANGED <<row, guards, clock>>
  /\ UNCHANGED <<remote, owner, doubt>>

\* A service did not acknowledge: FailNormalStop, or a force stop that
\* stays failed; the pending mark remains either way.
FailStop(r) ==
  /\ At(r, "await") /\ req[r].kind \in {"stop", "force"}
  /\ IF OwnsStop(r) /\ req[r].kind = "stop"
       THEN /\ \E now \in Stamps : Write("failed", Bumped(now))
            /\ UNCHANGED <<archiveAt, archiveReported, deleted>>
       ELSE UNCHANGED <<row, clock>>
  /\ doubt' = TRUE
  /\ Return(r)
  /\ UNCHANGED <<guards, remote, owner>>

\* ensureAutoStartWaitingStream, a transaction of its own.
Rearm(r) ==
  /\ At(r, "rearm")
  /\ IF status = "completed"
       THEN /\ \E now \in Stamps : Write("ready", now)
            /\ UNCHANGED <<archiveAt, archiveReported, deleted>>
       ELSE UNCHANGED <<row, clock>>
  /\ Return(r)
  /\ UNCHANGED <<guards, remote, owner, doubt>>

-----------------------------------------------------------------------------
(* A critical heartbeat mismatch, observed before the mutex is taken.      *)

HeartbeatObserve(r) ==
  /\ "heartbeat" \in Kinds
  /\ At(r, "idle")
  /\ status = "live"
  /\ Read(r, "heartbeat", "plain", "observed")
  /\ UNCHANGED <<row, guards, clock, lock, remote, owner, doubt>>

\* convergeServiceMediaFailure re-reads the stream under the mutex ...
HeartbeatRecheck(r, p) ==
  /\ At(r, "observed")
  /\ lock[p] = NoReq
  /\ IF status = "live" /\ updatedAt = req[r].at
       THEN Goto(r, "converge") /\ lock' = [lock EXCEPT ![p] = r]
       ELSE Goto(r, "done") /\ UNCHANGED lock
  /\ UNCHANGED <<row, guards, clock, remote, owner, doubt>>

\* ... and then moves it by status alone, and stops the services.
HeartbeatFail(r) ==
  /\ At(r, "converge")
  /\ IF status = "live"
       THEN /\ \E now \in Stamps : Write("failed", now)
            /\ UNCHANGED <<archiveAt, archiveReported, deleted>>
            /\ Goto(r, "compensate") /\ UNCHANGED lock
       ELSE /\ UNCHANGED <<row, clock>>
            /\ Return(r)
  /\ UNCHANGED <<guards, remote, owner, doubt>>

-----------------------------------------------------------------------------
(* Requests that are one transaction, outside the mutex.                   *)

Once(r, k) ==
  /\ k \in Kinds
  /\ At(r, "idle")
  /\ req' = [req EXCEPT ![r].pc = "done", ![r].kind = k]
  /\ UNCHANGED <<lock, remote, owner>>

\* markStreamFailed: unconditional, no mutex, no version, no Stop.
MarkFailed(r) ==
  /\ Once(r, "markFailed")
  /\ \E now \in Stamps : Write("failed", now)
  /\ doubt' = TRUE
  /\ UNCHANGED <<archiveAt, archiveReported, deleted, guards>>

\* An artifact report for the current archive run; it also closes the
\* archive-retry guard.
ArchiveReport(r) ==
  /\ Once(r, "report")
  /\ ~deleted /\ archiveAt # 0
  /\ IF archiveReported
       THEN UNCHANGED <<updatedAt, clock>>
       ELSE \E now \in Stamps : updatedAt' = now /\ clock' = clock + 1
  /\ archiveReported' = TRUE
  /\ retryPending' = FALSE
  /\ UNCHANGED <<status, archiveAt, deleted, stopPending, receipts, doubt>>

\* BeginStreamArchiveRetryGuarded by the stream's own encoder.
ArchiveRetry(r) ==
  /\ Once(r, "retry")
  /\ ~deleted
  /\ retryPending' = TRUE
  /\ IF archiveReported
       THEN \E now \in Stamps : updatedAt' = now /\ clock' = clock + 1
       ELSE UNCHANGED <<updatedAt, clock>>
  /\ archiveReported' = FALSE
  /\ UNCHANGED <<status, archiveAt, deleted, stopPending, receipts, doubt>>

\* DeleteStream: the row stays, completed and unassigned.
Deletable == ~deleted /\ ~Protected

Delete(r) ==
  /\ Once(r, "delete")
  /\ Deletable
  /\ \E now \in Stamps : Write("completed", now)
  /\ deleted' = TRUE
  /\ UNCHANGED <<archiveAt, archiveReported, guards, doubt>>

\* updateStreamSettings and updateStreamRuntimeSettings: the status was
\* checked when the handler read the row, the write stamps it regardless.
WriteSettings(r) ==
  /\ At(r, "write")
  /\ \E now \in Stamps : updatedAt' = now /\ clock' = clock + 1
  /\ Return(r)
  /\ UNCHANGED <<status, archiveAt, archiveReported, deleted, guards, remote,
                 owner, doubt>>

-----------------------------------------------------------------------------
(* The services, and what can be lost.                                     *)

\* A service executes a call.  Start replaces the job, Stop ends any job of
\* the stream, the abort of a prepared start ends only its own.
Deliver(c) ==
  /\ c \in net
  /\ net' = net \ {c}
  /\ acks' = acks \union {c}
  /\ running' = CASE c[1] = "start" -> c[2]
                  [] c[1] = "stop" -> NoReq
                  [] OTHER -> IF running = c[2] THEN NoReq ELSE running
  /\ UNCHANGED <<row, guards, clock, lock, req, owner, doubt>>

\* A call that never reached its service, for a request that gave up on it.
Drop(c) ==
  /\ c \in net
  /\ At(c[2], "done")
  /\ net' = net \ {c}
  /\ doubt' = TRUE
  /\ UNCHANGED <<row, guards, clock, lock, req, acks, running, owner>>

\* The request ends where it is: the Panel crashed, its deadline passed, or
\* a transaction failed.
Lost(r) ==
  /\ req[r].pc \notin {"idle", "done"}
  /\ Return(r)
  /\ doubt' = TRUE
  /\ UNCHANGED <<row, guards, clock, remote, owner>>

StartStep(r) ==
  \/ StartClaim(r)
  \/ PreDispatchFailure(r)
  \/ StartDispatch(r)
  \/ CompletePlainStart(r)
  \/ CompletePreparedStart(r)
  \/ FailPlainStart(r)
  \/ FailPlainStartLate(r)
  \/ FailPreparedStart(r)
  \/ CleanupPreparedStart(r)
  \/ Compensate(r)
  \/ Compensated(r)

StopStep(r) ==
  \/ StopClaim(r)
  \/ StopDispatch(r)
  \/ CompleteStop(r)
  \/ FailStop(r)
  \/ Rearm(r)

OtherStep(r) ==
  \/ HeartbeatObserve(r)
  \/ HeartbeatFail(r)
  \/ MarkFailed(r)
  \/ ArchiveReport(r)
  \/ ArchiveRetry(r)
  \/ Delete(r)
  \/ WriteSettings(r)
  \/ Lost(r)

Next ==
  \/ \E r \in Req, p \in Panel : Begin(r, p) \/ HeartbeatRecheck(r, p)
  \/ \E r \in Req : StartStep(r) \/ StopStep(r) \/ OtherStep(r)
  \/ \E c \in net : Deliver(c) \/ Drop(c)

Spec == Init /\ [][Next]_vars

-----------------------------------------------------------------------------
(* Properties.                                                             *)

\* An unconfirmed stop (stream_normal_stop_pending) is never overtaken: while
\* the mark stands the stream is stopping or failed, so no start, re-arm,
\* completion or deletion got past it, whatever the Panels interleave.
PendingStopFenced == stopPending => status \in {"stopping", "failed"}

ClaimHeld(r) ==
  /\ req[r].pc \in {"dispatch", "await", "cleanup"}
  /\ \/ req[r].kind = "start" /\ OwnsStart(r)
     \/ req[r].kind \in {"stop", "force"} /\ OwnsStop(r)

\* At most one request in flight can still finish against the row: the claim
\* of a start or stop that another Panel overtook never matches again.
ClaimExclusive ==
  \A r, q \in Req : ClaimHeld(r) /\ ClaimHeld(q) => r = q

\* The start that moves the stream to live is the one that claimed it last
\* ("the newer lifecycle transition is authoritative").
LiveOnlyByOwner ==
  [][\A r \in Req : (/\ status # "live" /\ status' = "live"
                     /\ req'[r].pc # req[r].pc) => owner = r]_vars

AtRest ==
  /\ net = {}
  /\ \A r \in Req : req[r].pc \in {"idle", "rearm", "done"}

\* When nothing is in flight and every call was acknowledged, a stream shown
\* as completed or waiting has no media job running.
QuietWhenStopped ==
  AtRest /\ ~doubt /\ status \in {"completed", "ready"} => running = NoReq

=============================================================================
