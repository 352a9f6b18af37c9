-------------------------- MODULE UpdaterOwnership --------------------------
(***************************************************************************)
(* Who may mutate the host, and under which policy.  An administrator      *)
(* saves the agent's policy, hands the host to an agent that observes it,  *)
(* and takes it back; every hand-over raises the ownership epoch.  An      *)
(* agent's identity is replaced through a one-time configure token: the    *)
(* new configuration is staged in the service row and activated by the     *)
(* host in a second call.  All of these handlers run under one process     *)
(* mutex and refuse while other work holds the host; the checks differ     *)
(* from one handler to the next and are kept as they are.                  *)
(***************************************************************************)
EXTENDS TokenRotation

CONSTANTS
  MaxEpoch,     \* bound: ownership epochs
  MaxRevision,  \* bound: policy revisions
  MaxTokens     \* bound: service tokens ever created

\* ------------------------------------------------------------------ policy --

\* The policy of an agent that owns the host is frozen while a job or a
\* rotation holds it; the ownership row then follows the new projection.
CanSavePolicy(a) ==
  IF own.agent # None
    THEN /\ own.agent = a /\ own.epoch >= 1
         /\ own.rev = policy[a].proj
         /\ HoldingJobs = {} /\ ActiveRotations = {}
    ELSE own.epoch = 0 /\ own.rev = 0

SavePullUpdaterPolicy(a) ==
  /\ CanSavePolicy(a)
  /\ policy' = [policy EXCEPT ![a] = [src |-> @.src + 1, proj |-> @.proj + 1, exec |-> @.exec + 1]]
  /\ own' = IF own.agent # None THEN [own EXCEPT !.rev = policy[a].proj + 1] ELSE own

\* The row must carry the current epoch, or none (an observer).
UpdateUpdaterPolicy(a) ==
  /\ policy[a].src < MaxRevision
  /\ svc[a].epoch \in {0, own.epoch}
  /\ SavePullUpdaterPolicy(a)
  /\ UNCHANGED <<svc, tokens, jobs, grants, rots, ups, upGrants, ports, ep, host>>

\* --------------------------------------------------------------- ownership --

\* The agent observes: it is online, has applied the policy, mutates nothing
\* and has nothing to recover.
PullObserverReadyForActivation(a) ==
  /\ AgentAvailable(a) /\ ~svc[a].recovery
  /\ svc[a].repoch = 0
  /\ svc[a].applied = policy[a].proj

\* Every target listens on a port of its own that nobody else has reserved.
BaselineReservations ==
  {[port |-> ep[t].local, row |-> [svc |-> t, role |-> "api"]] : t \in Targets}

BaselineFree ==
  /\ \A r \in BaselineReservations : ports[r.port] \in {None, r.row}
  /\ \A r, s \in BaselineReservations : r.port = s.port => r = s

\* Nobody else owns the host and no job holds it; rotations and self-updates
\* are not asked for.
HostFreeFor(a) == own.agent \in {None, a} /\ HoldingJobs = {}

\* The agent has a policy, a usable token and no ownership yet.
ObserverBound(a) ==
  /\ policy[a].src >= 1
  /\ svc[a].epoch = 0
  /\ tokens[svc[a].token] = "live"

CanActivateOwnership(a) ==
  /\ HostFreeFor(a)
  /\ ObserverBound(a)
  /\ PullObserverReadyForActivation(a)
  /\ BaselineFree

ActivatePullUpdaterOwnership(a) ==
  /\ own' = [epoch |-> own.epoch + 1, agent |-> a, rev |-> policy[a].proj]
  /\ svc' = [svc EXCEPT ![a].epoch = own.epoch + 1]
  /\ ports' = [p \in Ports |->
                IF \E r \in BaselineReservations : r.port = p
                  THEN (CHOOSE r \in BaselineReservations : r.port = p).row
                  ELSE ports[p]]

ActivateUpdaterOwnership(a) ==
  /\ own.epoch < MaxEpoch
  /\ CanActivateOwnership(a)
  /\ ActivatePullUpdaterOwnership(a)
  /\ UNCHANGED <<policy, tokens, jobs, grants, rots, ups, upGrants, ep, host>>

\* Grants stay usable until they expire, whether their job is over or not.
UnsettledMutationGrant == \E g \in DOMAIN grants : grants[g].live

\* Nothing that still acts on the owner's authority.
HostSettled ==
  /\ HoldingJobs = {} /\ ActiveUpdates = {} /\ ActiveRotations = {}
  /\ ~UnsettledMutationGrant

CanDeactivateOwnership(a) ==
  /\ Owns(a) /\ svc[a].epoch = own.epoch
  /\ tokens[svc[a].token] = "live"
  /\ svc[a].hb # "none" /\ ~svc[a].recovery
  /\ own.rev = policy[a].proj
  /\ HostSettled

\* The agent stays named in the ownership row, but its own row returns to
\* observing.
DeactivatePullUpdaterOwnership(a) ==
  /\ own' = [epoch |-> own.epoch + 1, agent |-> a, rev |-> policy[a].proj]
  /\ svc' = [svc EXCEPT ![a].epoch = 0]

DeactivateUpdaterOwnership(a) ==
  /\ own.epoch < MaxEpoch
  /\ CanDeactivateOwnership(a)
  /\ DeactivatePullUpdaterOwnership(a)
  /\ UNCHANGED <<policy, tokens, jobs, grants, rots, ups, upGrants, ports, ep, host>>

\* ---------------------------------------------------------------- identity --

HasActiveReference(a) == \E i \in HoldingJobs : jobs[i].agent = a

RejectIdentityMutationDuringActiveWork(a) ==
  HasSystemUpdateIdentityMutationFence(a) \/ HasActiveReference(a)

\* A new configure token voids what an earlier one staged; only the name of
\* the staged token is kept, and still counts as a staged configuration.
SetServiceConfigureToken(a) ==
  svc' = [svc EXCEPT ![a] = [@ EXCEPT !.ct = "live",
            !.cfg = IF @ = None THEN None ELSE [prev |-> None]]]

RegenerateNodeConfigureToken(a) ==
  /\ Len(tokens) < MaxTokens
  /\ ~RejectIdentityMutationDuringActiveWork(a)
  /\ SetServiceConfigureToken(a)
  /\ UNCHANGED <<own, policy, tokens, jobs, grants, rots, ups, upGrants, ports, ep, host>>

ConfigureTokenExpires(a) ==
  /\ svc[a].ct \in {"live", "used"}
  /\ svc' = [svc EXCEPT ![a].ct = "none"]
  /\ UNCHANGED <<own, policy, tokens, jobs, grants, rots, ups, upGrants, ports, ep, host>>

\* A revoked token may be replaced only if an emergency revocation left it.
EmergencyRevokedAnchor(a) ==
  /\ ~svc[a].online /\ svc[a].hb = "none" /\ svc[a].phase = "none"
  /\ tokens[svc[a].token] = "revoked"

CanStageConfiguration(a) ==
  /\ svc[a].ct = "live"
  /\ \/ tokens[svc[a].token] = "live"
     \/ /\ EmergencyRevokedAnchor(a)
        /\ svc[a].cfg = None \/ svc[a].cfg = [prev |-> None]

\* The new token's row is inserted only by the activation; until then it
\* exists in the service row alone.
StageServiceNodeConfiguration(a) ==
  svc' = [svc EXCEPT ![a] = [@ EXCEPT !.cfg = [prev |-> svc[a].token], !.ct = "used"]]

HostAgentRuntimeIdentityStage(a) ==
  /\ policy[a].src >= 1
  /\ ~RejectIdentityMutationDuringActiveWork(a)
  /\ CanStageConfiguration(a)
  /\ StageServiceNodeConfiguration(a)
  /\ UNCHANGED <<own, policy, tokens, jobs, grants, rots, ups, upGrants, ports, ep, host>>

CanActivateConfiguration(a) ==
  /\ svc[a].cfg = [prev |-> svc[a].token]
  /\ svc[a].ct = "used"
  /\ tokens[svc[a].token] = "live" \/ EmergencyRevokedAnchor(a)

\* Token row, service row and revocation of the old token are one
\* transaction.  The host has held the new token since it was staged.
ActivateServiceNodeConfiguration(a) ==
  LET old == svc[a].token
      new == Len(tokens) + 1
  IN /\ tokens' = Append([tokens EXCEPT ![old] = "revoked"], "live")
     /\ svc' = [svc EXCEPT ![a] =
          [Unreported(@) EXCEPT !.token = new, !.cfg = None, !.ct = "none"]]
     /\ host' = [host EXCEPT !.held = @ \cup {new}]

HostAgentRuntimeIdentityActivate(a) ==
  /\ Len(tokens) < MaxTokens
  /\ ~RejectIdentityMutationDuringActiveWork(a)
  /\ CanActivateConfiguration(a)
  /\ ActivateServiceNodeConfiguration(a)
  /\ UNCHANGED <<own, policy, jobs, grants, rots, ups, upGrants, ports, ep>>

OwnershipNext ==
  \E a \in Agents :
    \/ UpdateUpdaterPolicy(a)
    \/ ActivateUpdaterOwnership(a)
    \/ DeactivateUpdaterOwnership(a)
    \/ RegenerateNodeConfigureToken(a)
    \/ ConfigureTokenExpires(a)
    \/ HostAgentRuntimeIdentityStage(a)
    \/ HostAgentRuntimeIdentityActivate(a)
=============================================================================
