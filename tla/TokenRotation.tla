--------------------------- MODULE TokenRotation ---------------------------
(***************************************************************************)
(* Rotation of an update agent's runtime token.  The administrator stages  *)
(* a new token, stored revoked; the agent claims it with its old token,    *)
(* acknowledges that it is stored on the host, proves with a heartbeat     *)
(* that the staged slot runs, and activates it, which swaps the two tokens *)
(* in one transaction.  Cancellation, its acknowledgement and an emergency *)
(* revocation race with every one of these steps.  The checks of a step    *)
(* are read off the in-memory store, its writes off the MariaDB store; the *)
(* two implement one interface.  A request whose expected revision is not  *)
(* the row's, and a replay of one already applied, changes nothing.        *)
(***************************************************************************)
EXTENDS HostState

CONSTANTS
  ClaimIds,       \* claim identifiers an agent chooses
  MaxRotations    \* bound: rotations ever staged

ASSUME RotationAssumption == MaxRotations \in Nat /\ None \notin ClaimIds

\* The handler reads service, policy and ownership and refuses unless they
\* describe one pull-mode binding.
RuntimeTokenRotationStageBinding(a) ==
  /\ Owns(a)
  /\ svc[a].epoch = own.epoch
  /\ policy[a].src >= 1 /\ policy[a].proj >= 1 /\ policy[a].exec >= 1
  /\ own.rev = policy[a].proj

\* The revisions a rotation was staged under are still the current ones.
ValidateRuntimeTokenRotationOwnership(r) ==
  /\ svc[r.agent].epoch = r.epoch
  /\ policy[r.agent].src = r.src
  /\ policy[r.agent].proj = r.proj
  /\ policy[r.agent].exec = r.exec
  /\ own.agent = r.agent /\ own.epoch = r.epoch
  /\ own.rev = r.proj

\* The weaker fence of activation and cancellation: the host row alone.
RuntimeTokenRotationHostFence(r) ==
  own.agent = r.agent /\ own.epoch = r.epoch /\ own.rev = r.proj

\* No job holds the host, no self-update is active, no node configuration is
\* staged and the agent reports no self-update of its own.
LanesFree(a) ==
  /\ HoldingJobs = {}
  /\ ActiveUpdates = {}
  /\ ~HasStagedServiceNodeConfiguration(a)
  /\ ~SelfUpdateBusy(a)

\* The credential the agent replaces is in use by this service and nobody
\* else, and the staged one is still stored revoked.
TokensUntouched(r) ==
  /\ svc[r.agent].token = r.prev
  /\ tokens[r.prev] = "live"
  /\ tokens[r.staged] = "revoked"

\* What every step of the exchange asks before it moves a rotation on.
FencesHold(r) ==
  /\ r.emergency = None
  /\ LanesFree(r.agent)
  /\ ValidateRuntimeTokenRotationOwnership(r)
  /\ TokensUntouched(r)

\* Terminal rows lose the sealed token and the claim.
ScrubReplaySecrets(r) == [r EXCEPT !.sealed = FALSE, !.claim = None]

UpdateRotation(i, r) == rots' = [rots EXCEPT ![i] = r]

CanStage(a) ==
  /\ ActiveRotations = {}
  /\ HoldingJobs = {}
  /\ ActiveUpdates = {}
  /\ ~HasStagedServiceNodeConfiguration(a)
  /\ tokens[svc[a].token] = "live"

StagedRotation(a) ==
  [agent |-> a, status |-> "staged", epoch |-> own.epoch,
   src |-> policy[a].src, proj |-> policy[a].proj, exec |-> policy[a].exec,
   prev |-> svc[a].token, staged |-> Len(tokens) + 1, sealed |-> TRUE,
   claimed |-> FALSE, claim |-> None, emergency |-> None, acked |-> FALSE]

\* The new token row is inserted revoked, in the rotation's transaction.
StageOnce(a) ==
  /\ CanStage(a)
  /\ tokens' = Append(tokens, "revoked")
  /\ rots' = Append(rots, StagedRotation(a))
  /\ UNCHANGED <<own, policy, svc, jobs, grants, ups, upGrants, ports, ep, host>>

StageRuntimeTokenRotation(a) ==
  /\ Len(rots) < MaxRotations
  /\ RuntimeTokenRotationStageBinding(a)
  /\ StageOnce(a)

\* The first claim takes the row at its revision; later ones must repeat the
\* claim identifier and are answered from the sealed token.
CredentialClaimMode(r, c) ==
  IF r.claim = None THEN "first" ELSE IF r.claim = c THEN "replay" ELSE "refused"

CanClaim(r) ==
  /\ r.status = "staged"
  /\ r.sealed
  /\ FencesHold(r)

RecordCredentialClaim(i, c) ==
  IF CredentialClaimMode(rots[i], c) = "first"
    THEN UpdateRotation(i, [rots[i] EXCEPT !.claim = c, !.claimed = TRUE])
    ELSE UNCHANGED rots

\* The agent authenticates with the token being replaced.  The answer may be
\* lost; the agent then repeats the claim, which changes no row.
ClaimStagedCredential(i, c, delivered) ==
  LET r == rots[i] IN
  /\ CanClaim(r)
  /\ CredentialClaimMode(r, c) # "refused"
  /\ RecordCredentialClaim(i, c)
  /\ host' = [host EXCEPT !.held = IF delivered THEN @ \cup {r.staged} ELSE @]

ClaimRuntimeTokenRotationCredential(i, c, delivered) ==
  /\ Authenticates(rots[i].agent, rots[i].prev)
  /\ ClaimStagedCredential(i, c, delivered)
  /\ UNCHANGED <<own, policy, svc, tokens, jobs, grants, ups, upGrants, ports, ep>>

CanMarkLocalStaged(r) ==
  /\ r.status = "staged"
  /\ r.claimed
  /\ FencesHold(r)

\* A heartbeat received before the acknowledgement proves nothing any more.
MarkLocalStaged(i) ==
  /\ UpdateRotation(i, [rots[i] EXCEPT !.status = "local_staged"])
  /\ svc' = [svc EXCEPT ![rots[i].agent].hb = IF @ = "after" THEN "before" ELSE @]

\* The staged bearer endpoints accept whoever presents the staged token.
RuntimeTokenRotationStagedTransition(i) == rots[i].staged \in host.held

AcknowledgeLocalStage(i) ==
  /\ RuntimeTokenRotationStagedTransition(i)
  /\ CanMarkLocalStaged(rots[i])
  /\ MarkLocalStaged(i)
  /\ UNCHANGED <<own, policy, tokens, jobs, grants, ups, upGrants, ports, ep, host>>

\* Online, heard of after the local stage, with capabilities that name the
\* staged receipt and the current revisions.
ValidateHeartbeatProof(r) ==
  /\ AgentAvailable(r.agent)
  /\ svc[r.agent].hb = "after"
  /\ svc[r.agent].receipt = r.staged
  /\ svc[r.agent].repoch = r.epoch /\ svc[r.agent].applied = r.proj
  /\ ~SelfUpdateBusy(r.agent)
  /\ svc[r.agent].token = r.prev

CanProve(r) ==
  /\ r.status = "local_staged"
  /\ FencesHold(r)
  /\ ValidateHeartbeatProof(r)

ProveHeartbeat(i) ==
  UpdateRotation(i, [rots[i] EXCEPT !.status = "heartbeat_proved"])

ProveRuntimeTokenRotationHeartbeat(i) ==
  /\ RuntimeTokenRotationStagedTransition(i)
  /\ CanProve(rots[i])
  /\ ProveHeartbeat(i)
  /\ UNCHANGED <<own, policy, svc, tokens, jobs, grants, ups, upGrants, ports, ep, host>>

\* Activation asks neither for free lanes nor for an unrevoked old token.
CanActivate(r) ==
  /\ r.status = "heartbeat_proved"
  /\ r.emergency # r.staged
  /\ RuntimeTokenRotationHostFence(r)
  /\ svc[r.agent].token = r.prev
  /\ svc[r.agent].epoch = r.epoch

\* Mutant: the replaced token stays valid.
ActivateKeepingBoth(i) ==
  LET r == rots[i] IN
  /\ tokens' = [tokens EXCEPT ![r.staged] = "live"]
  /\ svc' = [svc EXCEPT ![r.agent].token = r.staged, ![r.agent].hb = "before"]
  /\ UpdateRotation(i, ScrubReplaySecrets([r EXCEPT !.status = "activated"]))

\* Both token rows, the service row and the rotation change in one
\* transaction; the heartbeat column keeps the proof's time, so the agent
\* counts as unheard of under its new identity.
ActivateRotation(i) ==
  LET r == rots[i] IN
  /\ tokens' = [tokens EXCEPT ![r.staged] = "live", ![r.prev] = "revoked"]
  /\ svc' = [svc EXCEPT ![r.agent].token = r.staged, ![r.agent].hb = "before"]
  /\ UpdateRotation(i, ScrubReplaySecrets([r EXCEPT !.status = "activated"]))

ActivateRuntimeTokenRotation(i) ==
  /\ RuntimeTokenRotationStagedTransition(i)
  /\ CanActivate(rots[i])
  /\ ActivateRotation(i)
  /\ UNCHANGED <<own, policy, jobs, grants, ups, upGrants, ports, ep, host>>

CanCancel(r) ==
  /\ r.status \in {"staged", "local_staged", "heartbeat_proved"}
  /\ RuntimeTokenRotationHostFence(r)

\* Nobody holds a staged token that was never claimed: such a rotation ends
\* at once, any other waits for the agent's acknowledgement.
CancelRotation(i) ==
  LET r == rots[i] IN
  IF r.status = "staged" /\ ~r.claimed
    THEN /\ tokens' = [tokens EXCEPT ![r.staged] = "revoked"]
         /\ UpdateRotation(i, ScrubReplaySecrets([r EXCEPT !.status = "canceled"]))
    ELSE /\ UNCHANGED tokens
         /\ UpdateRotation(i, [r EXCEPT !.status = "cancel_requested"])

CancelRuntimeTokenRotation(i) ==
  /\ CanCancel(rots[i])
  /\ CancelRotation(i)
  /\ UNCHANGED <<own, policy, svc, jobs, grants, ups, upGrants, ports, ep, host>>

CanAcknowledgeCancel(r) ==
  /\ r.status = "cancel_requested"
  /\ LanesFree(r.agent)
  /\ ValidateRuntimeTokenRotationOwnership(r)
  /\ svc[r.agent].token = r.prev
  /\ tokens[r.prev] = "live"

AcknowledgeCancel(i) ==
  LET r == rots[i] IN
  /\ tokens' = [tokens EXCEPT ![r.staged] = "revoked"]
  /\ UpdateRotation(i, ScrubReplaySecrets(
       [r EXCEPT !.status = "canceled", !.acked = TRUE]))

AcknowledgeRuntimeTokenRotationCancel(i) ==
  /\ Authenticates(rots[i].agent, rots[i].prev)
  /\ CanAcknowledgeCancel(rots[i])
  /\ AcknowledgeCancel(i)
  /\ UNCHANGED <<own, policy, svc, jobs, grants, ups, upGrants, ports, ep, host>>

CanEmergencyRevoke(r) ==
  /\ r.emergency = None
  /\ r.status # "canceled"
  /\ svc[r.agent].token \in {r.prev, r.staged}

\* Mutant: only the named slot is revoked.
EmergencyRevokeNamed(i, t) ==
  LET r == rots[i] IN
  /\ tokens' = [tokens EXCEPT ![t] = "revoked"]
  /\ svc' = [svc EXCEPT ![r.agent] = [Unreported(@) EXCEPT !.ct = "none", !.cfg = None]]
  /\ UpdateRotation(i, ScrubReplaySecrets([r EXCEPT !.status = "canceled", !.emergency = t]))

\* Both tokens go, whichever slot was named, and the service row is stripped
\* so that only a new node configuration brings the agent back.
EmergencyRevoke(i, t) ==
  LET r == rots[i] IN
  /\ tokens' = [tokens EXCEPT ![r.prev] = "revoked", ![r.staged] = "revoked"]
  /\ svc' = [svc EXCEPT ![r.agent] =
       [Unreported(@) EXCEPT !.ct = "none", !.cfg = None]]
  /\ UpdateRotation(i, ScrubReplaySecrets(
       [r EXCEPT !.status = "canceled", !.acked = FALSE, !.emergency = t]))

EmergencyRevokeRuntimeTokenRotation(i, slot) ==
  /\ CanEmergencyRevoke(rots[i])
  /\ EmergencyRevoke(i, IF slot = "staged" THEN rots[i].staged ELSE rots[i].prev)
  /\ UNCHANGED <<own, policy, jobs, grants, ups, upGrants, ports, ep, host>>

\* What the registry asks before it changes an agent's identity by other
\* means: a rotation is active, or activated and not yet heard of, or a
\* self-update is active.
HasSystemUpdateIdentityMutationFence(a) ==
  \/ \E i \in DOMAIN rots :
       /\ rots[i].agent = a
       /\ \/ rots[i].status \in ActiveRotation
          \/ /\ rots[i].status = "activated"
             /\ svc[a].token = rots[i].staged
             /\ svc[a].hb # "after"
  \/ \E i \in ActiveUpdates : ups[i].agent = a

\* The agent's identity was destroyed by an emergency revocation and nothing
\* has replaced it yet.
IsSystemUpdateEmergencyIdentityRecovery(a) ==
  /\ ~svc[a].online /\ svc[a].hb = "none" /\ svc[a].phase = "none"
  /\ tokens[svc[a].token] = "revoked"
  /\ \E i \in DOMAIN rots : /\ rots[i].agent = a
                            /\ rots[i].emergency # None
                            /\ svc[a].token \in {rots[i].prev, rots[i].staged}

RotationNext ==
  \/ \E a \in Agents : StageRuntimeTokenRotation(a)
  \/ \E i \in DOMAIN rots :
       \/ \E c \in ClaimIds, d \in BOOLEAN : ClaimRuntimeTokenRotationCredential(i, c, d)
       \/ AcknowledgeLocalStage(i)
       \/ ProveRuntimeTokenRotationHeartbeat(i)
       \/ ActivateRuntimeTokenRotation(i)
       \/ CancelRuntimeTokenRotation(i)
       \/ AcknowledgeRuntimeTokenRotationCancel(i)
       \/ \E s \in {"previous", "staged"} : EmergencyRevokeRuntimeTokenRotation(i, s)
=============================================================================
