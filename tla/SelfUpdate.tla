----------------------------- MODULE SelfUpdate -----------------------------
(***************************************************************************)
(* Updates of the host agent and its executor themselves.  The Panel never *)
(* receives a report about one: it issues one-time grants for the host's   *)
(* steps and infers progress from the capabilities of the last heartbeat   *)
(* whenever the agent polls its policy.  An attempt is named by its index. *)
(* The host replaces its own binaries, may lose power at any moment and    *)
(* then recovers under a reconcile grant.  Versions are numbers; protocol  *)
(* versions move with them.  A grant names the revision of the attempt it  *)
(* was issued for and is "outdated" once the row has another one.          *)
(***************************************************************************)
EXTENDS HostState

CONSTANTS
  Versions,     \* releases, oldest first
  Sessions,     \* executor sessions, one per run of the executor
  MaxUpdates,   \* bound: self-updates ever created
  MaxUpGrants   \* bound: self-update grants ever issued

ASSUME SelfUpdateAssumption == Versions \subseteq Nat

\* ---------------------------------------------------------- administrator --

\* Ownership, policy and agent row describe one binding, and the agent last
\* reported a stable runtime older than the target.
ValidateHostSelfUpdateReady(a, v) ==
  /\ Owns(a) /\ svc[a].epoch = own.epoch
  /\ own.rev = policy[a].proj
  /\ policy[a].src >= 1 /\ policy[a].proj >= 1 /\ policy[a].exec >= 1
  /\ svc[a].phase = "stable" /\ ~svc[a].recovery
  /\ tokens[svc[a].token] = "live"
  /\ v > svc[a].ver

HostSelfUpdateOtherLanesFree == ActiveRotations = {} /\ HoldingJobs = {}

CanCreateHostSelfUpdate(a, v) ==
  /\ ActiveUpdates = {}
  /\ HostSelfUpdateOtherLanesFree
  /\ ValidateHostSelfUpdateReady(a, v)
  /\ ~HasStagedServiceNodeConfiguration(a)

QueuedHostSelfUpdate(a, v) ==
  [agent |-> a, status |-> "queued", target |-> v,
   prev |-> svc[a].ver, epoch |-> own.epoch, src |-> policy[a].src,
   proj |-> policy[a].proj, exec |-> policy[a].exec, obs |-> "unknown",
   phase |-> "none"]

CreateHostSelfUpdateTx(a, v) ==
  /\ CanCreateHostSelfUpdate(a, v)
  /\ ups' = Append(ups, QueuedHostSelfUpdate(a, v))
  /\ UNCHANGED <<own, policy, svc, tokens, jobs, grants, rots, upGrants, ports, ep, host>>

CreateHostSelfUpdate(a, v) ==
  Len(ups) < MaxUpdates /\ CreateHostSelfUpdateTx(a, v)

\* Every change of an attempt raises its revision and outdates its grants.
Outdated(i) ==
  [k \in DOMAIN upGrants |->
     IF upGrants[k].up = i /\ upGrants[k].state # "consumed"
       THEN [upGrants[k] EXCEPT !.state = "outdated"] ELSE upGrants[k]]

\* A terminal attempt is repeated with the same release under a new name.
RetryHostSelfUpdate(i) ==
  /\ Len(ups) < MaxUpdates
  /\ ups[i].status \in TerminalUpdate
  /\ CreateHostSelfUpdateTx(own.agent, ups[i].target)

\* Mutant: an attempt the host has begun can still be canceled.
CanCancelBegun(u) == u.status \notin TerminalUpdate

CanCancelHostSelfUpdate(u) == u.status = "queued"

CancelHostSelfUpdate(i) ==
  /\ CanCancelHostSelfUpdate(ups[i])
  /\ ups' = [ups EXCEPT ![i].status = "canceled"]
  /\ upGrants' = Outdated(i)
  /\ UNCHANGED <<own, policy, svc, tokens, jobs, grants, rots, ports, ep, host>>

\* ------------------------------------------------------------ observation --

HostSelfUpdateRank(s) ==
  CASE s = "queued" -> 0 [] s = "staging" -> 1 [] s = "activating" -> 2
    [] s = "verifying" -> 3 [] s = "rolling_back" -> 4 [] OTHER -> 5

\* Status never falls back along the rank.
SetHostSelfUpdateStatus(u, s) ==
  IF u.status \in TerminalUpdate \/ HostSelfUpdateRank(s) < HostSelfUpdateRank(u.status)
    THEN u ELSE [u EXCEPT !.status = s]

StrictSuccess(i, u, a) == u.status # "queued" /\ svc[a].gen = i /\ svc[a].ver = u.target

StrictRollback(i, u, a) == svc[a].failed = i /\ svc[a].ver = u.prev

AdvanceFromObservation(i, u, a) ==
  CASE svc[a].phase # "stable" /\ svc[a].pending # i -> u
    [] svc[a].phase = "staged" -> SetHostSelfUpdateStatus(u, "staging")
    [] svc[a].phase \in {"activating", "verifying", "rolling_back"} ->
         SetHostSelfUpdateStatus(u, svc[a].phase)
    [] svc[a].phase = "stable" /\ StrictSuccess(i, u, a) -> [u EXCEPT !.status = "succeeded"]
    [] svc[a].phase = "stable" /\ StrictRollback(i, u, a) -> [u EXCEPT !.status = "rolled_back"]
    [] OTHER -> u

\* The heartbeat belongs to another attempt: the poll is answered with a
\* conflict and nothing is written.
StaleObservation(i, a) ==
  \/ svc[a].phase \notin {"none", "stable"} /\ svc[a].pending # i
  \/ svc[a].phase = "stable" /\ svc[a].gen \notin {None, i} /\ svc[a].failed # i

\* "stalled": the last heartbeat is more than two minutes old.
ReconcileObservation(i, u, a, stalled) ==
  IF svc[a].hb = "none" THEN [u EXCEPT !.obs = "unknown", !.phase = "none"]
  ELSE IF stalled THEN [u EXCEPT !.obs = "stalled"]
  ELSE IF svc[a].recovery THEN [u EXCEPT !.obs = "unknown", !.phase = "none"]
  ELSE AdvanceFromObservation(i, [u EXCEPT !.obs = "known", !.phase = svc[a].phase], a)

ObserveHostSelfUpdate(i, stalled) ==
  LET a == ups[i].agent
      next == ReconcileObservation(i, ups[i], a, stalled)
  IN /\ \/ svc[a].hb = "none" \/ stalled \/ svc[a].recovery
        \/ ~StaleObservation(i, a)
     /\ ups' = [ups EXCEPT ![i] = next]
     /\ upGrants' = IF next = ups[i] THEN upGrants ELSE Outdated(i)

\* The update was created for the binding the agent has now.
HostAgentSelfUpdateDirective(a, u) ==
  /\ u.agent = a /\ u.epoch = svc[a].epoch
  /\ u.src = policy[a].src /\ u.proj = policy[a].proj /\ u.exec = policy[a].exec

HostAgentRotationDirective(a, r) ==
  /\ r.agent = a /\ r.epoch = svc[a].epoch
  /\ r.src = policy[a].src /\ r.proj = policy[a].proj /\ r.exec = policy[a].exec

\* The agent polls its policy: the Panel observes an active self-update, and
\* the answer, unless lost, makes the agent apply the policy it carries.
ServiceHostAgentPolicy(a, stalled, delivered) ==
  /\ Authenticates(a, svc[a].token)
  /\ host.applied <= policy[a].proj
  /\ \A i \in ActiveRotations : HostAgentRotationDirective(a, rots[i])
  /\ \A i \in ActiveUpdates : HostAgentSelfUpdateDirective(a, ups[i])
  /\ IF ActiveUpdates = {} THEN UNCHANGED <<ups, upGrants>>
     ELSE \E i \in ActiveUpdates : ObserveHostSelfUpdate(i, stalled)
  /\ LET answered == delivered /\ (ActiveRotations = {} \/ ActiveUpdates = {})
     IN host' = IF answered THEN [host EXCEPT !.applied = policy[a].proj, !.epoch = svc[a].epoch] ELSE host
  /\ UNCHANGED <<own, policy, svc, tokens, jobs, grants, rots, ports, ep>>

\* ------------------------------------------------------------------ grants --

\* Re-validated under the locks both when a grant is issued and when it is
\* used: the revision, the whole binding and the other lanes.
ValidateHostSelfUpdateGrantState(u) ==
  /\ u.status \notin TerminalUpdate
  /\ own.agent = u.agent /\ own.epoch = u.epoch /\ own.rev = u.proj
  /\ policy[u.agent].src = u.src /\ policy[u.agent].proj = u.proj
  /\ policy[u.agent].exec = u.exec
  /\ svc[u.agent].epoch = u.epoch
  /\ ~HasStagedServiceNodeConfiguration(u.agent)
  /\ HostSelfUpdateOtherLanesFree

\* The grant of a session is issued again (with a new token) as long as it is
\* unused and asks for the same thing.
SessionGrants(i, op, s) ==
  {k \in DOMAIN upGrants : upGrants[k].up = i /\ upGrants[k].op = op /\ upGrants[k].session = s}

CanIssueHostSelfUpdateGrant(i, op, s) ==
  /\ ValidateHostSelfUpdateGrantState(ups[i])
  /\ IF op = "stage" THEN ups[i].status = "queued" ELSE ups[i].status # "queued"
  /\ \A k \in SessionGrants(i, op, s) :
       upGrants[k].state \in {"live", "expired"}

IssueGrantTx(i, op, s) ==
  LET g == [up |-> i, op |-> op, session |-> s, state |-> "live"]
  IN upGrants' = IF SessionGrants(i, op, s) = {} THEN Append(upGrants, g)
                 ELSE [k \in DOMAIN upGrants |->
                         IF k \in SessionGrants(i, op, s) THEN g ELSE upGrants[k]]

IssueHostSelfUpdateGrant(i, op, s) ==
  /\ Len(upGrants) < MaxUpGrants
  /\ Authenticates(ups[i].agent, svc[ups[i].agent].token)
  /\ CanIssueHostSelfUpdateGrant(i, op, s)
  /\ IssueGrantTx(i, op, s)
  /\ UNCHANGED <<own, policy, svc, tokens, jobs, grants, rots, ups, ports, ep, host>>

HostSelfUpdateGrantExpires(k) ==
  /\ upGrants[k].state = "live"
  /\ upGrants' = [upGrants EXCEPT ![k].state = "expired"]
  /\ UNCHANGED <<own, policy, svc, tokens, jobs, grants, rots, ups, ports, ep, host>>

ReserveHostSelfUpdateStage(u) ==
  [u EXCEPT !.status = "staging"]

\* A used grant may be presented again while the attempt runs; the answer is
\* repeated and nothing is written.
ValidateConsumedHostSelfUpdateGrant(u) ==
  u.status \in {"staging", "activating", "verifying", "rolling_back"}

CanConsumeHostSelfUpdateGrant(g) ==
  /\ g.state = "live"
  /\ ValidateHostSelfUpdateGrantState(ups[g.up])
  /\ g.op = "stage" => ups[g.up].status = "queued"

ConsumeGrantTx(k) ==
  LET g == upGrants[k] IN
  /\ ups' = IF g.op = "stage"
              THEN [ups EXCEPT ![g.up] = ReserveHostSelfUpdateStage(@)] ELSE ups
  /\ upGrants' = [(IF g.op = "stage" THEN Outdated(g.up) ELSE upGrants)
                    EXCEPT ![k].state = "consumed"]

\* The executor acts as soon as the grant is accepted, or on a later repeat
\* when the first answer was lost: it stages the release, or it takes up an
\* interrupted attempt again.
ExecutorActs(g) ==
  /\ host.pending \in {None, g.up}
  /\ \/ /\ g.op = "stage" /\ host.phase = "stable" /\ host.gen # g.up /\ host.failed # g.up
        /\ host' = [host EXCEPT !.phase = "staged", !.pending = g.up]
     \/ /\ g.op = "reconcile" /\ host.recovery /\ host.pending = g.up
        /\ host' = [host EXCEPT !.recovery = FALSE]

ConsumeHostSelfUpdateGrant(k, delivered) ==
  LET g == upGrants[k] IN
  /\ \/ CanConsumeHostSelfUpdateGrant(g) /\ ConsumeGrantTx(k)
     \/ /\ g.state = "consumed" /\ ValidateConsumedHostSelfUpdateGrant(ups[g.up])
        /\ delivered /\ UNCHANGED <<ups, upGrants>>
  /\ IF delivered THEN ExecutorActs(g) ELSE UNCHANGED host
  /\ UNCHANGED <<own, policy, svc, tokens, jobs, grants, rots, ports, ep>>

\* ------------------------------------------------------ the host (external) --

\* The staged release is activated and verified; a release that fails is
\* taken back.  Both ends leave the host stable.
HostUpdates(next) ==
  /\ host.pending # None /\ ~host.recovery
  /\ LET u == ups[host.pending] IN
     \/ /\ host.phase = "staged" /\ next = "activating"
        /\ host' = [host EXCEPT !.phase = next]
     \/ /\ host.phase = "activating" /\ next = "verifying"
        /\ host' = [host EXCEPT !.phase = next, !.ver = u.target]
     \/ /\ host.phase \in {"staged", "activating", "verifying"} /\ next = "rolling_back"
        /\ host' = [host EXCEPT !.phase = next]
     \/ /\ host.phase = "verifying" /\ next = "stable"
        /\ host' = [host EXCEPT !.phase = next, !.gen = host.pending, !.pending = None]
     \/ /\ host.phase = "rolling_back" /\ next = "stable"
        /\ host' = [host EXCEPT !.phase = next, !.ver = u.prev, !.failed = host.pending,
                                !.pending = None]
  /\ UNCHANGED <<own, policy, svc, tokens, jobs, grants, rots, ups, upGrants, ports, ep>>

\* Power is lost in the middle of an attempt.
HostLosesPower ==
  /\ host.phase # "stable" /\ ~host.recovery
  /\ host' = [host EXCEPT !.recovery = TRUE]
  /\ UNCHANGED <<own, policy, svc, tokens, jobs, grants, rots, ups, upGrants, ports, ep>>

SelfUpdateNext ==
  \/ \E a \in Agents, v \in Versions : CreateHostSelfUpdate(a, v)
  \/ \E i \in DOMAIN ups :
       \/ RetryHostSelfUpdate(i)
       \/ CancelHostSelfUpdate(i)
       \/ \E op \in {"stage", "reconcile"}, s \in Sessions : IssueHostSelfUpdateGrant(i, op, s)
  \/ \E k \in DOMAIN upGrants :
       \/ HostSelfUpdateGrantExpires(k)
       \/ \E d \in BOOLEAN : ConsumeHostSelfUpdateGrant(k, d)
  \/ \E p \in {"activating", "verifying", "rolling_back", "stable"} : HostUpdates(p)
  \/ HostLosesPower
=============================================================================
