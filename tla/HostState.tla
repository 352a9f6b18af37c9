----------------------------- MODULE HostState -----------------------------
(***************************************************************************)
(* The rows that the update machinery of one execution host shares: the    *)
(* ownership row, the updater policies, the update agents' service rows    *)
(* and tokens, and the four kinds of work that may hold the host: software *)
(* and port jobs, runtime token rotations and host self-updates.           *)
(* TokenRotation, UpdateJobs, PortChange, SelfUpdate and UpdaterOwnership  *)
(* define the operations on them and ExecutionHost composes the modules.   *)
(* Every transaction first locks the host row (SELECT ... FOR UPDATE), so  *)
(* one transaction is one step.                                            *)
(***************************************************************************)
EXTENDS Naturals, Sequences, FiniteSets

CONSTANTS
  Agents,         \* services of type update_agent that may own the host
  Targets,        \* services deployed on the host
  Ports,          \* TCP ports of the host's network namespace
  None            \* an absent identifier

ASSUME HostAssumption == /\ IsFiniteSet(Agents)
                         /\ None \notin Agents
                         /\ None \notin Targets
                         /\ None \notin Ports
                         /\ None \notin Nat
                         /\ None \notin [svc : Targets, role : {"api", "api_pending"}]

VARIABLES
  own,      \* the system_update_execution_hosts row
  policy,   \* agent -> its update_agent_policies row
  svc,      \* agent -> its services row
  tokens,   \* service_tokens, in order of creation: "live" or "revoked"
  jobs,     \* system_update_jobs, in order of creation
  grants,   \* system_update_mutation_grants
  rots,     \* system_update_runtime_token_rotations, in order of creation
  ups,      \* system_update_host_self_updates, in order of creation
  upGrants, \* system_update_host_self_update_grants
  ports,    \* port -> its service_port_reservations row, or None
  ep,       \* target -> listening port and advertised endpoint
  host      \* what the host itself runs and journals (outside the Panel)

vars == <<own, policy, svc, tokens, jobs, grants, rots, ups, upGrants,
          ports, ep, host>>

TerminalJob == {"succeeded", "rolled_back", "failed", "canceled"}
ExecutingJob == {"claimed", "downloading", "verifying", "staging", "stopping",
                 "installing", "starting", "health_checking", "rolling_back",
                 "reconciling"}
ActiveRotation == {"staged", "local_staged", "heartbeat_proved",
                   "cancel_requested"}
TerminalUpdate == {"succeeded", "rolled_back", "failed", "canceled"}

\* A job holds the host until it is terminal, and after that as long as its
\* port transaction still waits for a recovery proof.
JobHoldsHost(j) == j.status \notin TerminalJob \/ j.recovery

HoldingJobs == {i \in DOMAIN jobs : JobHoldsHost(jobs[i])}

ActiveRotations == {i \in DOMAIN rots : rots[i].status \in ActiveRotation}

ActiveUpdates == {i \in DOMAIN ups : ups[i].status \notin TerminalUpdate}

\* The transport and agent columns of the ownership row name this agent.
Owns(a) == own.epoch >= 1 /\ own.agent = a

\* Any column of a staged node configuration is set.
HasStagedServiceNodeConfiguration(a) == svc[a].cfg # None

\* A row whose identity is replaced loses its heartbeat and its reported
\* capabilities.
Unreported(row) ==
  [row EXCEPT !.online = FALSE, !.hb = "none", !.phase = "none", !.recovery = FALSE,
              !.receipt = None, !.applied = 0, !.repoch = 0, !.ver = 0,
              !.pending = None, !.failed = None, !.gen = None]

\* What the agent last reported says an update of the agent itself is under
\* way or must be recovered.
SelfUpdateBusy(a) == svc[a].recovery \/ svc[a].phase \notin {"none", "stable"}

\* The agent is online with a heartbeat inside the offline window.
AgentAvailable(a) == svc[a].online

\* The bearer token authenticates a service call: it exists, is not revoked,
\* and is the token of the named agent's row.
Authenticates(a, t) == tokens[t] = "live" /\ svc[a].token = t
=============================================================================
