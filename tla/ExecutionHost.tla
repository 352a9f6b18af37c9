--------------------------- MODULE ExecutionHost ---------------------------
(***************************************************************************)
(* One execution host with everything that may hold it: software and port  *)
(* jobs, token rotations, self-updates, changes of policy, ownership and   *)
(* identity, and the agent that polls, reports and goes silent.            *)
(***************************************************************************)
EXTENDS UpdateJobs, SelfUpdate, UpdaterOwnership

\* --------------------------------------------------- the agent (external) --

\* The receipt an agent reports names the newest credential it has stored.
LocalStageReceipt == CHOOSE t \in host.held : \A u \in host.held : u <= t

\* The heartbeat is authenticated again under the mutex, replaces everything
\* the agent reported before and may confirm the endpoint baseline.
Heartbeat(a) ==
  svc' = [svc EXCEPT ![a] =
    [@ EXCEPT !.online = TRUE, !.hb = "after", !.phase = host.phase,
              !.recovery = host.recovery, !.receipt = LocalStageReceipt,
              !.applied = host.applied, !.repoch = host.epoch, !.ver = host.ver,
              !.pending = host.pending, !.failed = host.failed, !.gen = host.gen]]

PersistServiceHeartbeat(a) ==
  /\ svc[a].token \in host.held
  /\ Authenticates(a, svc[a].token)
  /\ Heartbeat(a)
  /\ ConfirmPortPolicyBaseline(a, host.applied)
  /\ UNCHANGED <<own, policy, tokens, jobs, grants, rots, ups, upGrants, ports, host>>

\* No heartbeat for longer than the offline window.
AgentGoesSilent(a) ==
  /\ svc[a].online
  /\ svc' = [svc EXCEPT ![a].online = FALSE]
  /\ UNCHANGED <<own, policy, tokens, jobs, grants, rots, ups, upGrants, ports, ep, host>>

AgentNext ==
  \E a \in Agents :
    \/ PersistServiceHeartbeat(a)
    \/ AgentGoesSilent(a)
    \/ \E s, d \in BOOLEAN : ServiceHostAgentPolicy(a, s, d)

\* ----------------------------------------------------------- specification --

\* Agents are registered and unheard of, nobody owns the host, no policy is
\* saved and no port is reserved; every target listens somewhere.
Init ==
  \E listens \in [Targets -> Ports], held \in [Agents -> 1..Cardinality(Agents)],
     a \in Agents, v \in Versions :
    /\ \A t, u \in Targets : listens[t] = listens[u] => t = u
    /\ \A b, c \in Agents : held[b] = held[c] => b = c
    /\ \A w \in Versions : v <= w
    /\ own = [epoch |-> 0, agent |-> None, rev |-> 0]
    /\ policy = [b \in Agents |-> [src |-> 0, proj |-> 0, exec |-> 0]]
    /\ tokens = [k \in 1..Cardinality(Agents) |-> "live"]
    /\ svc = [b \in Agents |->
         [token |-> held[b], epoch |-> 0, online |-> FALSE, hb |-> "none", phase |-> "none",
          recovery |-> FALSE, receipt |-> None, cfg |-> None, ct |-> "none", applied |-> 0,
          repoch |-> 0, ver |-> 0, pending |-> None, failed |-> None, gen |-> None]]
    /\ host = [held |-> {held[a]}, job |-> None, effect |-> [i \in 1..MaxJobs |-> "none"],
               sent |-> {}, applied |-> 0, epoch |-> 0, ver |-> v, phase |-> "stable",
               recovery |-> FALSE, pending |-> None, failed |-> None, gen |-> None]
    /\ jobs = <<>> /\ grants = <<>> /\ rots = <<>> /\ ups = <<>> /\ upGrants = <<>>
    /\ ports = [p \in Ports |-> None]
    /\ ep = [t \in Targets |-> [local |-> listens[t], applied |-> listens[t],
                                desired |-> listens[t], rev |-> 1, arev |-> 0,
                                config |-> 1, status |-> "applied"]]

Next == JobsNext \/ RotationNext \/ SelfUpdateNext \/ OwnershipNext \/ AgentNext

Spec == Init /\ [][Next]_vars

\* -------------------------------------------------------------- properties --

\* Whatever order of staging, claiming, proving, activating, cancelling,
\* revoking and reconfiguring, a service never has two tokens that
\* authenticate: the only live ones are those the service rows name.
OneLiveIdentity ==
  \A t \in DOMAIN tokens : tokens[t] = "live" => \E a \in Agents : svc[a].token = t

\* An emergency revocation is final: neither of the rotation's two tokens
\* ever authenticates again, not even when the activation arrives late.
EmergencyIsFinal ==
  \A i \in DOMAIN rots : rots[i].emergency # None =>
    tokens[rots[i].prev] = "revoked" /\ tokens[rots[i].staged] = "revoked"

\* The recorded outcome is what happened on the host, although reports are
\* repeated, delayed and overtaken by a later lease generation.
VerdictTrue ==
  \A i \in DOMAIN jobs :
    LET e == host.effect[i] IN
    /\ jobs[i].status = "succeeded" => e = "applied" \/ PortV2NoOp(jobs[i])
    /\ jobs[i].status = "rolled_back" => e = "rolled"
    /\ jobs[i].status = "canceled" => e = "none"
    /\ jobs[i].status = "failed" => e = "none" \/ jobs[i].recovery

\* A self-update reported as succeeded is what the host runs (or something
\* newer); one that was canceled was never begun on the host.
SucceededRuns ==
  \A i \in DOMAIN ups :
    /\ ups[i].status = "succeeded" => host.ver >= ups[i].target
    /\ ups[i].status = "canceled" => i \notin {host.pending, host.gen, host.failed}

\* Every target owns the port it listens on, and a port transaction keeps
\* both ports reserved until it is settled, through crash and recovery.
PortsReserved ==
  /\ own.epoch > 0 =>
       \A t \in Targets : ports[ep[t].local] # None /\ ports[ep[t].local].svc = t
  /\ \A i \in HoldingJobs : IsPortV2(jobs[i]) =>
       \A s \in {jobs[i].plan.before, jobs[i].plan.target} :
         ports[s.local] # None /\ ports[s.local].svc = jobs[i].target

\* When no port transaction is open, nothing of one is left: no pending
\* reservation, no announced endpoint, and the ownership names the policy
\* revision the agent is given.
PortSettled ==
  own.epoch > 0 /\ (\A i \in HoldingJobs : ~IsPortV2(jobs[i])) =>
    /\ \A p \in Ports : ports[p] # None => ports[p].role = "api"
    /\ \A t \in Targets : ep[t].desired = ep[t].applied /\ ports[ep[t].local].role = "api"
    /\ own.rev = policy[own.agent].proj
=============================================================================
