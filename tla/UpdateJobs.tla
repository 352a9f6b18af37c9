----------------------------- MODULE UpdateJobs -----------------------------
(***************************************************************************)
(* Update jobs of one execution host: created by an administrator, claimed *)
(* by the host's agent under a lease with a generation, mutated under      *)
(* one-time grants and ended by the agent's report.  An agent that lost    *)
(* its lease claims its journalled job again, which raises the generation  *)
(* and leaves only reconciliation; grants and reports of an earlier        *)
(* generation must have no effect from then on.  The agent and its         *)
(* executor run on the host; the network may lose, repeat and delay what   *)
(* they send.                                                              *)
(***************************************************************************)
EXTENDS PortChange

CONSTANTS
  Reported,    \* progress statuses the agent reports
  MaxGen,      \* bound: lease generations of a job
  MaxSeq,      \* bound: reports accepted under one lease
  MaxSent,     \* bound: reports the network holds at once
  MaxGrants    \* bound: mutation grants ever issued

\* A progress report ends nothing, and an absent journal is no journal entry.
ASSUME JobsAssumption ==
  /\ Reported \subseteq ExecutingJob
  /\ None \notin [id : Nat, gen : Nat, seq : Nat, ended : BOOLEAN]

\* Rank of the forward path; everything else is outside it.
ForwardRank(s) ==
  LET order == <<"claimed", "downloading", "verifying", "staging", "stopping",
                 "installing", "starting", "health_checking", "succeeded">>
  IN IF \E k \in DOMAIN order : order[k] = s
       THEN (CHOOSE k \in DOMAIN order : order[k] = s) - 1
       ELSE 99

OnPath(s) == ForwardRank(s) # 99

AllowedTransition(cur, next) ==
  IF cur \in TerminalJob THEN FALSE
  ELSE IF cur = next THEN TRUE
  ELSE IF cur = "reconciling" THEN next \in {"succeeded", "rolled_back", "failed"}
  ELSE IF next = "reconciling"
    THEN cur \in {"installing", "starting", "health_checking", "rolling_back"}
  ELSE IF next = "failed" THEN TRUE
  ELSE IF cur = "health_checking" /\ next = "rolled_back" THEN TRUE
  ELSE IF cur = "rolling_back" THEN next = "rolled_back"
  ELSE IF next = "rolling_back" THEN OnPath(cur) /\ ForwardRank(cur) >= ForwardRank("stopping")
  ELSE OnPath(cur) /\ OnPath(next) /\ ForwardRank(next) > ForwardRank(cur)

AllowedJobTransition(j, next) ==
  \/ PortV2Recoverable(j) /\ j.status = "reconciling" /\ next = "rolling_back"
  \/ AllowedTransition(j.status, next)

\* The job belongs to the ownership that is current and to its agent.
AuthorizeJobOwnership(j) ==
  /\ j.epoch = own.epoch /\ j.epoch >= 1
  /\ IF IsPortV2(j) THEN PortV2OwnershipMatches(j) ELSE j.rev = own.rev
  /\ own.agent = j.agent

\* The calling agent's row and the ownership row describe one binding.
ValidatePullAgentOwnership(a) == Owns(a) /\ svc[a].epoch = own.epoch

\* -------------------------------------------------------------- creation --

SoftwareJob(a, t) ==
  [op |-> "software", target |-> t, agent |-> a, status |-> "queued", gen |-> 0,
   seq |-> 0, lease |-> "none", epoch |-> own.epoch, rev |-> own.rev,
   phase |-> "none", recovery |-> FALSE, result |-> None, plan |-> None]

\* The inventory shows the target as eligible: its agent is online, serves
\* the current ownership and has applied the policy that lists the target.
TargetEligible(a) ==
  /\ AgentAvailable(a) /\ svc[a].epoch = own.epoch
  /\ svc[a].repoch = own.epoch /\ svc[a].applied = policy[a].proj

CanCreateJob(a, t) ==
  /\ ActiveRotations = {}
  /\ \A i \in HoldingJobs : ~IsPortV2(jobs[i]) /\ jobs[i].target # t
  /\ Owns(a)

InsertJob(a, t) == jobs' = Append(jobs, SoftwareJob(a, t))

CreateSystemUpdate(a, t) ==
  /\ Len(jobs) < MaxJobs
  /\ TargetEligible(a)
  /\ CanCreateJob(a, t)
  /\ InsertJob(a, t)
  /\ UNCHANGED <<own, policy, svc, tokens, grants, rots, ups, upGrants, ports, ep, host>>

\* Only a queued job can be canceled; a port job first withdraws what its
\* creation announced.
CanCancelJob(j) == j.status = "queued"

CancelJob(i) ==
  /\ jobs' = [jobs EXCEPT ![i].status = "canceled",
                          ![i].phase = IF IsPortV2(jobs[i]) THEN "canceled" ELSE @]
  /\ IF IsPortV2(jobs[i]) THEN CancelPortV2(jobs[i])
                          ELSE UNCHANGED <<own, policy, ep, ports>>

CancelSystemUpdate(i) ==
  /\ CanCancelJob(jobs[i])
  /\ CancelJob(i)
  /\ UNCHANGED <<svc, tokens, grants, rots, ups, upGrants, host>>

\* ----------------------------------------------------------------- claim --

\* Targets the agent may start work on: covered by the policy it has applied
\* and not busy with a stream ("idle" is read from the stream table).
TargetsForAgentHostClaim(a, idle) ==
  IF svc[a].applied = policy[a].proj THEN idle ELSE {}

\* A job to recover needs its target in the policy, but neither an idle
\* target nor an applied policy: the policy must be the job's own.
PullRecoveryEligible(a, j) ==
  /\ j.agent = a /\ j.epoch = svc[a].epoch
  /\ own.agent = a /\ own.epoch = j.epoch
  /\ IF IsPortV2(j)
       THEN /\ own.rev = policy[a].proj
            /\ \E s \in {j.plan.before, j.plan.target, j.plan.rollback} :
                 policy[a] = PortSnapshotPolicy(s)
       ELSE own.rev = j.rev /\ policy[a].proj = j.rev

\* The oldest queued job of an eligible target.
FindClaimable(a, targets) ==
  {i \in DOMAIN jobs :
     /\ jobs[i].status = "queued" /\ jobs[i].agent = a /\ jobs[i].target \in targets
     /\ \A k \in 1..(i - 1) :
          ~(jobs[k].status = "queued" /\ jobs[k].agent = a /\ jobs[k].target \in targets)}

\* One executing job per agent (unique key of the table).
FindExecuting(a) == {i \in DOMAIN jobs : jobs[i].agent = a /\ jobs[i].status \in ExecutingJob}

\* What is left of a journalled job: it can be recovered, or the Panel has
\* closed it and the agent may forget it.
InspectActiveJob(i) ==
  IF jobs[i].status \in ExecutingJob \/ PortV2Recoverable(jobs[i]) THEN "recover"
  ELSE IF JobHoldsHost(jobs[i]) THEN "unavailable"
  ELSE "clear"

CanClaimJob(i) ==
  /\ AuthorizeJobOwnership(jobs[i])
  /\ IsPortV2(jobs[i]) => ValidatePortV2State(jobs[i])

\* The lease is new, and so is the numbering of the reports.
ClaimJob(i) ==
  jobs' = [jobs EXCEPT ![i].status = IF @ = "queued" THEN "claimed" ELSE "reconciling",
                       ![i].gen = @ + 1, ![i].seq = 0, ![i].lease = "live"]

\* The agent journals the lease it is given; the answer may be lost.
JournalLease(i, delivered) ==
  host' = IF delivered
            THEN [host EXCEPT !.job = [id |-> i, gen |-> jobs[i].gen + 1, seq |-> 0,
                                        ended |-> FALSE]]
            ELSE host

ServiceClaim(a, i, idle, delivered) ==
  /\ Authenticates(a, svc[a].token)
  /\ AgentAvailable(a)
  /\ ValidatePullAgentOwnership(a)
  /\ jobs[i].gen < MaxGen
  /\ \/ /\ host.job = None
        /\ i \in FindClaimable(a, TargetsForAgentHostClaim(a, idle))
        /\ FindExecuting(a) = {}
     \/ /\ host.job # None /\ host.job.id = i
        /\ host.job.gen = jobs[i].gen
        /\ InspectActiveJob(i) = "recover"
        /\ PullRecoveryEligible(a, jobs[i])
  /\ CanClaimJob(i)
  /\ ClaimJob(i)
  /\ JournalLease(i, delivered)
  /\ UNCHANGED <<own, policy, svc, tokens, grants, rots, ups, upGrants, ports, ep>>

\* The answer "clear_active_job" lets the agent drop its journal.
ServiceClaimClears(a) ==
  /\ host.job # None
  /\ Authenticates(a, svc[a].token)
  /\ AgentAvailable(a)
  /\ ValidatePullAgentOwnership(a)
  /\ host.job.gen = jobs[host.job.id].gen
  /\ jobs[host.job.id].epoch = svc[a].epoch
  /\ InspectActiveJob(host.job.id) = "clear"
  /\ host' = [host EXCEPT !.job = None]
  /\ UNCHANGED <<own, policy, svc, tokens, jobs, grants, rots, ups, upGrants, ports, ep>>

\* A lease is not renewed by reports and ends by time; so do its grants.
LeaseExpires(i) ==
  /\ jobs[i].lease = "live"
  /\ jobs' = [jobs EXCEPT ![i].lease = "expired"]
  /\ grants' = [g \in DOMAIN grants |->
                  IF grants[g].job = i THEN [grants[g] EXCEPT !.live = FALSE] ELSE grants[g]]
  /\ UNCHANGED <<own, policy, svc, tokens, rots, ups, upGrants, ports, ep, host>>

\* ---------------------------------------------------------------- report --

\* Mutant: a report of an earlier lease is taken for the current one.
ReportOfAnyLease(j, r, unexpired) == unexpired => j.lease = "live"

ReportLeaseMatches(j, r, unexpired) ==
  /\ j.gen = r.gen
  /\ unexpired => j.lease = "live"

\* The sequence of a result is chosen by the Panel, that of a progress report
\* by the agent; only the next one has an effect.
MapReport(j, r) ==
  IF r.seq > 0 THEN r.seq
  ELSE IF j.status \in TerminalJob /\ ~(j.recovery /\ j.result = None) THEN j.seq
  ELSE j.seq + 1

\* The port result that belongs to the reported status.
CanonicalizePortReport(j, r) ==
  CASE r.status = "succeeded"   -> r.result \in {"applied", "unchanged"}
    [] r.status = "rolled_back" -> r.result = "rolled_back"
    [] r.status = "failed"      -> \/ r.result = "rollback_failed"
                                   \/ r.result = None /\ j.phase = "created"
    [] OTHER                    -> r.result = None

CanReport(j, r) ==
  /\ AuthorizeJobOwnership(j)
  /\ j.status \notin TerminalJob
  /\ ReportLeaseMatches(j, r, TRUE)
  /\ MapReport(j, r) = j.seq + 1
  /\ AllowedJobTransition(j, r.status)
  /\ IsPortV2(j) => CanonicalizePortReport(j, r)

\* A terminal report ends the lease and, for a port job, the transaction.
ReportJob(i, r) ==
  LET j == jobs[i]
      done == r.status \in TerminalJob
      next == [j EXCEPT !.status = r.status, !.seq = @ + 1,
                        !.lease = IF done THEN "none" ELSE @]
  IN IF done /\ IsPortV2(j)
       THEN /\ FinishPortV2(j, r.result)
            /\ jobs' = [jobs EXCEPT ![i] = FinishedPortV2(next, r.result)]
       ELSE /\ jobs' = [jobs EXCEPT ![i] = next]
            /\ UNCHANGED <<own, policy, ep, ports>>

ServiceReport(r) ==
  LET a == jobs[r.job].agent IN
  /\ Authenticates(a, svc[a].token)
  /\ ValidatePullAgentOwnership(a)
  /\ jobs[r.job].seq < MaxSeq
  /\ CanReport(jobs[r.job], r)
  /\ ReportJob(r.job, r)
  /\ UNCHANGED <<svc, tokens, grants, rots, ups, upGrants, host>>

\* ------------------------------------------------------- mutation grants --

\* The status in which each operation may be granted and used.
GrantOperationMatchesStatus(op, s) ==
  \/ op = "apply" /\ s = "installing"
  \/ op = "reconcile" /\ s = "reconciling"

AuthorizePortGrantIssue(j, op) ==
  /\ j.result = None /\ ~PortV2NoOp(j)
  /\ op = "apply" => j.phase = "created" /\ ~j.recovery
  /\ op = "reconcile" => j.phase \in {"consumed", "rollback_latched"}

AuthorizeGrantIssue(j, gen, op) ==
  /\ IsPortV2(j) => AuthorizePortGrantIssue(j, op)
  /\ j.gen = gen /\ j.lease = "live"
  /\ GrantOperationMatchesStatus(op, j.status)

CanIssueGrant(j, gen, op) ==
  /\ AuthorizeJobOwnership(j)
  /\ AuthorizeGrantIssue(j, gen, op)
  /\ IsPortV2(j) => ValidatePortV2State(j)

IssueGrant(i, gen, op) ==
  grants' = Append(grants, [job |-> i, gen |-> gen, op |-> op, live |-> TRUE,
                            consumed |-> FALSE])

MutationGrantIssue(op) ==
  LET i == host.job.id
      a == jobs[i].agent
  IN /\ host.job # None
     /\ Len(grants) < MaxGrants
     /\ Authenticates(a, svc[a].token)
     /\ ValidatePullAgentOwnership(a)
     /\ CanIssueGrant(jobs[i], host.job.gen, op)
     /\ IssueGrant(i, host.job.gen, op)
     /\ UNCHANGED <<own, policy, svc, tokens, jobs, rots, ups, upGrants, ports, ep, host>>

GrantMatchesCurrentJob(g, j) ==
  /\ j.gen = g.gen /\ j.lease = "live"
  /\ GrantOperationMatchesStatus(g.op, j.status)

CanConsumeGrant(g) ==
  /\ g.live
  /\ AuthorizeJobOwnership(jobs[g.job])
  /\ GrantMatchesCurrentJob(g, jobs[g.job])

\* A second consumption answers as the first one did and writes nothing.
ConsumeGrant(k) ==
  LET g == grants[k] IN
  /\ grants' = [grants EXCEPT ![k].consumed = TRUE]
  /\ IF IsPortV2(jobs[g.job]) /\ ~g.consumed
       THEN ConsumePortV2(g.job, g.op)
       ELSE /\ IsPortV2(jobs[g.job]) => ValidatePortV2State(jobs[g.job])
            /\ UNCHANGED <<own, policy, ep, jobs>>

\* The executor presents the grant token alone and mutates the host as soon
\* as the Panel accepts it: an apply replaces the running service, a
\* reconciliation keeps or takes back whatever was applied.  The agent sends
\* a result only after its executor has ended, so nothing follows one.
ExecutorEnded(g) ==
  host.job # None /\ host.job.id = g.job /\ host.job.gen = g.gen /\ host.job.ended

MutationGrantConsume(k, outcome) ==
  /\ ~ExecutorEnded(grants[k])
  /\ CanConsumeGrant(grants[k])
  /\ ~grants[k].consumed
  /\ ConsumeGrant(k)
  /\ outcome = IF grants[k].op = "apply" THEN "applied" ELSE outcome
  /\ host' = [host EXCEPT !.effect[grants[k].job] =
                IF grants[k].op = "reconcile" /\ @ = "none" THEN @ ELSE outcome]
  /\ UNCHANGED <<svc, tokens, rots, ups, upGrants, ports>>

\* -------------------------------------------------- the agent on the host --

\* The network keeps the new report and loses any of the older ones.
Send(r) ==
  \E kept \in SUBSET host.sent :
    /\ Cardinality(kept) < MaxSent
    /\ host' = [host EXCEPT !.sent = kept \cup {r},
                            !.job.seq = IF r.seq > 0 THEN r.seq ELSE @,
                            !.job.ended = @ \/ (r.seq = 0 /\ r.status \in TerminalJob)]

\* Progress is numbered; the agent sends the next one once the Panel has
\* acknowledged the last.
AgentReportsProgress(s) ==
  /\ host.job # None
  /\ LET i == host.job.id IN
     /\ jobs[i].gen = host.job.gen => jobs[i].seq >= host.job.seq
     /\ host.job.seq < Cardinality(Reported)
     /\ Send([job |-> i, gen |-> host.job.gen, seq |-> host.job.seq + 1,
                  status |-> s, result |-> None])
  /\ UNCHANGED <<own, policy, svc, tokens, jobs, grants, rots, ups, upGrants, ports, ep>>

\* A result states what the host did: success only for an applied change,
\* a rollback only for one taken back.
HonestResult(j, effect, s, result) ==
  /\ s = "succeeded" => \/ effect = "applied"
                        \/ PortV2NoOp(j)
  /\ s = "rolled_back" => effect = "rolled"
  /\ s = "failed" => effect = "none" \/ IsPortV2(j)
  /\ IF IsPortV2(j)
       THEN result = CASE s = "succeeded" -> IF PortV2NoOp(j) THEN "unchanged" ELSE "applied"
                       [] s = "rolled_back" -> "rolled_back"
                       [] s = "failed" -> IF effect = "none" THEN None ELSE "rollback_failed"
                       [] OTHER -> None
       ELSE result = None

AgentReportsResult(s, result) ==
  /\ host.job # None
  /\ LET i == host.job.id IN
     /\ ~host.job.ended
     /\ HonestResult(jobs[i], host.effect[i], s, result)
     /\ Send([job |-> i, gen |-> host.job.gen, seq |-> 0, status |-> s, result |-> result])
  /\ UNCHANGED <<own, policy, svc, tokens, jobs, grants, rots, ups, upGrants, ports, ep>>

JobsNext ==
  \/ \E a \in Agents, t \in Targets :
       \/ CreateSystemUpdate(a, t)
       \/ \E p \in Ports : \E adv \in {ep[t].applied, p} : CreatePortReconfiguration(a, t, p, adv)
  \/ \E i \in DOMAIN jobs :
       \/ CancelSystemUpdate(i)
       \/ LeaseExpires(i)
       \/ \E a \in Agents, idle \in SUBSET Targets, d \in BOOLEAN : ServiceClaim(a, i, idle, d)
  \/ \E a \in Agents : ServiceClaimClears(a)
  \/ \E r \in host.sent : ServiceReport(r)
  \/ \E op \in {"apply", "reconcile"} : MutationGrantIssue(op)
  \/ \E k \in DOMAIN grants, o \in {"applied", "rolled"} : MutationGrantConsume(k, o)
  \/ \E s \in Reported : AgentReportsProgress(s)
  \/ \E s \in {"succeeded", "rolled_back", "failed", "reconciling"},
        r \in {None, "applied", "unchanged", "rolled_back", "rollback_failed"} :
       AgentReportsResult(s, r)
=============================================================================
