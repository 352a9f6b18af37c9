----------------------------- MODULE PortChange -----------------------------
(***************************************************************************)
(* A port reconfiguration is a job with a transaction of its own.  Creating *)
(* it reserves the new port and announces the new endpoint; consuming its  *)
(* mutation grant installs the target policy; finishing it keeps the       *)
(* target, installs the rollback policy, or latches a failed rollback that *)
(* holds the host until a later recovery proves otherwise.  This module    *)
(* defines the transaction; UpdateJobs drives it through claims, grants    *)
(* and reports.  Only contract version 2 reaches the store from HTTP.      *)
(* An advertised endpoint is named by its port.                            *)
(***************************************************************************)
EXTENDS HostState

CONSTANT MaxJobs  \* bound: jobs ever created

\* An absent result is none of the results a port transaction can have.
ASSUME PortAssumption ==
  /\ MaxJobs \in Nat
  /\ None \notin {"applied", "unchanged", "rolled_back", "rollback_failed"}

IsPortV2(j) == j.op = "port"

PortV2NoOp(j) == IsPortV2(j) /\ j.plan.before.local = j.plan.target.local

PortV2Recoverable(j) ==
  IsPortV2(j) /\ j.recovery /\ j.result = None /\ j.phase = "rollback_latched"

\* The policy row as the transaction's snapshots store it.
PortSnapshotPolicy(s) == [src |-> s.src, proj |-> s.proj, exec |-> s.exec]

\* What the store can restore of a target before a change: it needs an
\* endpoint revision that the agent has confirmed as applied.
GetPortPolicySnapshot(a, t) ==
  [src |-> policy[a].src, proj |-> policy[a].proj, exec |-> policy[a].exec,
   local |-> ep[t].local, adv |-> ep[t].applied, rev |-> ep[t].rev,
   arev |-> ep[t].arev, config |-> ep[t].config, token |-> svc[a].token]

PortSnapshotAvailable(a, t) ==
  /\ own.agent = a /\ own.rev = policy[a].proj /\ own.epoch >= 1
  /\ ep[t].arev >= 1
  /\ ep[t].desired = ep[t].applied

\* The snapshot "step" revisions later, with another listening port and
\* advertised endpoint; the endpoint revision moves with the advertisement.
PortTransitionSnapshot(b, local, adv, moved, step) ==
  [b EXCEPT !.src = @ + step, !.proj = @ + step, !.exec = @ + step,
            !.config = @ + step, !.local = local, !.adv = adv,
            !.rev = IF moved THEN @ + step ELSE @,
            !.arev = IF moved THEN b.rev + step ELSE @]

PortV2Job(a, t, new, adv) ==
  LET b == GetPortPolicySnapshot(a, t)
      changed == new # b.local
      moved == adv # b.adv
  IN [op |-> "port", target |-> t, agent |-> a, status |-> "queued", gen |-> 0,
      seq |-> 0, lease |-> "none", epoch |-> own.epoch, rev |-> own.rev,
      phase |-> "created", recovery |-> FALSE, result |-> None,
      plan |-> [before |-> b,
                target |-> IF changed THEN PortTransitionSnapshot(b, new, adv, moved, 1) ELSE b,
                rollback |-> IF changed THEN PortTransitionSnapshot(b, b.local, b.adv, moved, 2) ELSE b,
                cancelRev |-> IF moved THEN b.rev + 2 ELSE b.rev]]

\* The old port is the target's own, the target has no reservation pending,
\* and the new port is free.
ValidatePortReservations(t, old, new) ==
  /\ ports[old] = [svc |-> t, role |-> "api"]
  /\ \A p \in Ports : ports[p] # [svc |-> t, role |-> "api_pending"]
  /\ new # old => ports[new] = None

\* The agent is heard of, serves the current ownership and has applied the
\* policy it would have to change.
ValidatePortV2Ready(a) ==
  /\ svc[a].epoch = own.epoch
  /\ AgentAvailable(a)
  /\ svc[a].repoch = own.epoch
  /\ svc[a].applied = policy[a].proj
  /\ ~SelfUpdateBusy(a)

CanCreatePortV2(a, t, new, adv) ==
  /\ HoldingJobs = {}
  /\ ActiveRotations = {}
  /\ ActiveUpdates = {}
  /\ tokens[svc[a].token] = "live"
  /\ ValidatePortV2Ready(a)
  /\ PortSnapshotAvailable(a, t)
  /\ ValidatePortReservations(t, ep[t].local, new)
  /\ new = ep[t].local => adv = ep[t].applied     \* no advertised-only change

\* Reservation, announced endpoint and job row are one transaction.
InsertPortV2(a, t, new, adv) ==
  LET j == PortV2Job(a, t, new, adv) IN
  /\ jobs' = Append(jobs, j)
  /\ ports' = IF new = ep[t].local THEN ports
              ELSE [ports EXCEPT ![new] = [svc |-> t, role |-> "api_pending"]]
  /\ ep' = IF PortV2NoOp(j) THEN ep
           ELSE [ep EXCEPT ![t] = [@ EXCEPT !.desired = j.plan.target.adv,
                                            !.rev = j.plan.target.rev,
                                            !.status = "pending"]]

CreatePortReconfiguration(a, t, new, adv) ==
  /\ Len(jobs) < MaxJobs
  /\ CanCreatePortV2(a, t, new, adv)
  /\ InsertPortV2(a, t, new, adv)
  /\ UNCHANGED <<own, policy, svc, tokens, grants, rots, ups, upGrants, host>>

\* The snapshot whose policy must be installed in this phase.
PortV2Expected(j) ==
  IF j.phase \in {"consumed", "rollback_latched"} THEN j.plan.target ELSE j.plan.before

PortV2OwnershipMatches(j) ==
  own.rev = CASE j.result = "rolled_back" -> j.plan.rollback.proj
              [] j.result = "applied"     -> j.plan.target.proj
              [] OTHER                    -> PortV2Expected(j).proj

\* Policy, ownership, credentials, endpoints and both reservations are as the
\* transaction left them; anything else makes every further step refuse.
ValidatePortV2State(j) ==
  LET b == j.plan.before
      announced == IF PortV2NoOp(j) THEN b ELSE j.plan.target
  IN /\ policy[j.agent] = PortSnapshotPolicy(PortV2Expected(j))
     /\ svc[j.agent].epoch = j.epoch
     /\ tokens[svc[j.agent].token] = "live"
     /\ svc[j.agent].token = b.token
     /\ PortV2OwnershipMatches(j)
     /\ ep[j.target].applied = b.adv
     /\ ep[j.target].desired = announced.adv
     /\ ep[j.target].rev = announced.rev
     /\ ep[j.target].arev = b.arev
     /\ ep[j.target].config = b.config
     /\ ports[b.local] = [svc |-> j.target, role |-> "api"]
     /\ ~PortV2NoOp(j) =>
          ports[j.plan.target.local] = [svc |-> j.target, role |-> "api_pending"]

\* The snapshot becomes the agent's policy and the revision of the ownership.
SavePortPolicySnapshot(j, s) ==
  /\ policy' = [policy EXCEPT ![j.agent] = PortSnapshotPolicy(s)]
  /\ own' = [own EXCEPT !.rev = s.proj]

\* Consuming the apply grant installs the target policy; a reconcile grant
\* changes nothing but the grant.
ConsumePortV2(i, op) ==
  LET j == jobs[i] IN
  /\ ValidatePortV2State(j)
  /\ j.result = None /\ ~PortV2NoOp(j)
  /\ \/ /\ op = "apply"
        /\ j.phase = "created" /\ ~j.recovery
        /\ SavePortPolicySnapshot(j, j.plan.target)
        /\ ep' = [ep EXCEPT ![j.target].local = j.plan.target.local]
        /\ jobs' = [jobs EXCEPT ![i].phase = "consumed"]
     \/ /\ op = "reconcile"
        /\ j.phase \in {"consumed", "rollback_latched"}
        /\ UNCHANGED <<policy, own, ep, jobs>>

\* Mutant: the pending reservation is left behind.
WithdrawKeepingPort(j) ==
  /\ ep' = [ep EXCEPT ![j.target] = [@ EXCEPT !.desired = ep[j.target].applied,
                                              !.rev = j.plan.cancelRev, !.status = "applied"]]
  /\ UNCHANGED ports

\* Announced endpoint and pending reservation are withdrawn.
WithdrawPortV2(j) ==
  /\ ep' = IF PortV2NoOp(j) THEN ep
           ELSE [ep EXCEPT ![j.target] = [@ EXCEPT !.desired = ep[j.target].applied,
                                                   !.rev = j.plan.cancelRev,
                                                   !.status = "applied"]]
  /\ ports' = IF PortV2NoOp(j) THEN ports
              ELSE [ports EXCEPT ![j.plan.target.local] = None]

CancelPortV2(j) ==
  /\ j.phase = "created" /\ j.result = None
  /\ ValidatePortV2State(j)
  /\ WithdrawPortV2(j)
  /\ UNCHANGED <<own, policy>>

\* A result that the phase allows.
PortResultAllowed(j, result) ==
  CASE result = None              -> j.phase = "created"
    [] result = "rollback_failed" -> j.phase \in {"consumed", "rollback_latched"}
    [] result = "unchanged"       -> PortV2NoOp(j) /\ j.phase = "created"
    [] result = "applied"         -> j.phase = "consumed" /\ ~j.recovery
    [] result = "rolled_back"     -> j.phase \in {"consumed", "rollback_latched"}
    [] OTHER                      -> FALSE

\* The transaction's fields after a terminal report.
FinishedPortV2(j, result) ==
  CASE result = None              -> [j EXCEPT !.phase = "premutation_failed"]
    [] result = "rollback_failed" -> [j EXCEPT !.phase = "rollback_latched", !.recovery = TRUE]
    [] OTHER                      -> [j EXCEPT !.phase = "accepted", !.result = result,
                                               !.recovery = FALSE]

\* Mutant: a rollback gives up the port it returns to.
InstallFreeingOld(j, final, status) ==
  /\ SavePortPolicySnapshot(j, final)
  /\ ep' = [ep EXCEPT ![j.target].local = final.local, ![j.target].desired = final.adv,
                      ![j.target].applied = final.adv]
  /\ ports' = [ports EXCEPT ![j.plan.before.local] = None,
                            ![j.plan.target.local] = [svc |-> j.target, role |-> "api"]]

\* The target serves the final snapshot; the reservation that lost is deleted.
InstallPortV2(j, final, status) ==
  /\ SavePortPolicySnapshot(j, final)
  /\ ep' = [ep EXCEPT ![j.target] =
              [local |-> final.local, applied |-> final.adv, desired |-> final.adv,
               rev |-> final.rev, arev |-> final.arev, config |-> final.config,
               status |-> status]]
  /\ ports' = IF status = "applied"
                THEN [ports EXCEPT ![j.plan.before.local] = None,
                                   ![final.local] = [svc |-> j.target, role |-> "api"]]
                ELSE [ports EXCEPT ![j.plan.target.local] = None]

FinishPortV2(j, result) ==
  /\ ValidatePortV2State(j)
  /\ PortResultAllowed(j, result)
  /\ CASE result = None -> WithdrawPortV2(j) /\ UNCHANGED <<own, policy>>
       [] result = "rollback_failed" ->
            /\ ep' = [ep EXCEPT ![j.target].status = "rollback_failed"]
            /\ UNCHANGED <<own, policy, ports>>
       [] result = "unchanged" -> UNCHANGED <<own, policy, ep, ports>>
       [] result = "applied" -> InstallPortV2(j, j.plan.target, "applied")
       [] result = "rolled_back" -> InstallPortV2(j, j.plan.rollback, "rolled_back")

\* A heartbeat that carries the baseline of the current policy confirms the
\* applied endpoint revision once; anything stale is ignored.
ConfirmPortPolicyBaseline(a, applied) ==
  ep' = [t \in Targets |->
          IF /\ HoldingJobs = {}
             /\ applied = policy[a].proj
             /\ ep[t].arev = 0
             /\ \A u \in Targets : ep[u].desired = ep[u].applied
            THEN [ep[t] EXCEPT !.arev = ep[t].rev]
            ELSE ep[t]]
=============================================================================
