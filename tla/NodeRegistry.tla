---------------------------- MODULE NodeRegistry ----------------------------
(***************************************************************************)
(* The registry of nodes and the service tokens they authenticate with,    *)
(* together with the bootstrap jobs of updaters.  Registering a node is    *)
(* four store calls with best-effort compensation; the administrator's     *)
(* token handlers read the services first and write later; a node's call   *)
(* is authenticated before its write.  Between any two of these steps the  *)
(* others run, and the Panel may restart.  Handlers that concern an        *)
(* updater hold the process mutex from their checks to their write.        *)
(* The staged (two-phase) identity change of an updater and the runtime    *)
(* token rotation of pull agents are in UpdaterOwnership, TokenRotation.   *)
(***************************************************************************)
EXTENDS HostBootstrap

CONSTANTS
  MaxTokens,    \* bound: service tokens ever created
  MaxRevision,  \* bound: policy revisions
  MaxTypes      \* bound: service types that get tokens in one behaviour

VARIABLES
  row,      \* node -> its services row
  tokens,   \* service_tokens, in order of creation
  pol,      \* updater -> revision of its policy (0: none)
  req,      \* the registration handler in flight
  adm,      \* the token handler in flight
  call      \* the node call in flight: authenticated, not yet written

regVars == <<row, tokens, pol, req, adm, call>>
vars == <<row, tokens, pol, req, adm, call, boot, held, accepted>>

Absent == [st |-> "absent", tok |-> 0, sealed |-> 0, ct |-> "none", hb |-> 0,
           key |-> None, applied |-> 0]
Idle == [op |-> "idle", n |-> None, t |-> 0]

Init ==
  /\ row = [n \in Nodes |-> Absent]
  /\ tokens = <<>> /\ pol = [u \in Updaters |-> 0]
  /\ req = Idle /\ adm = Idle /\ call = Idle
  /\ boot = <<>> /\ held = {} /\ accepted = {}

Live(t) == t # 0 /\ tokens[t].live

\* A handler about an updater runs under systemUpdateOperationMu.
MutexHeld == adm.op # "idle" /\ tokens[adm.t].type = "update_agent"

\* The fence of the identity handlers; asking the broker expires its jobs.
RejectDuringBootstrap(n) == n \in Updaters /\ HasActiveJob(n)
Asked(n) == IF n \in Updaters THEN Touch ELSE UNCHANGED bootVars

\* The row loses its heartbeat and what the node reported with the old token.
Repointed(r, t) == [r EXCEPT !.tok = t, !.hb = 0, !.key = None, !.applied = 0]

TypeOf(n) == IF n \in Updaters THEN "update_agent" ELSE "node"

\* A token of the type, bound to node n once a row names it; handed says
\* whether somebody outside the Panel has received it.
NewToken(type, n, handed) == [live |-> TRUE, type |-> type, n |-> n, handed |-> handed]

\* ---------------------------------------------------------- store operations --

\* The nodes whose rows name the token.
References(t) == {n \in Nodes : row[n].st # "absent" /\ row[n].tok = t}

RevokeServiceToken(t) ==
  IF ~Live(t) THEN UNCHANGED <<tokens, row>>
  ELSE /\ tokens' = [tokens EXCEPT ![t].live = FALSE]
       /\ row' = [n \in Nodes |-> IF n \in References(t) THEN Repointed(row[n], t) ELSE row[n]]

\* Every row that references the token follows to the new one.
RotateServiceToken(t) ==
  IF ~Live(t) \/ Len(tokens) = MaxTokens THEN UNCHANGED <<tokens, row>>
  ELSE LET new == Len(tokens) + 1
       IN  /\ tokens' = Append([tokens EXCEPT ![t].live = FALSE], NewToken(tokens[t].type, tokens[t].n, TRUE))
           /\ row' = [n \in Nodes |-> IF n \in References(t) THEN Repointed(row[n], new) ELSE row[n]]

\* Mutant: the token the caller saw is not compared with the row's.
RotateUnfenced(n, exp) == row[n].st # "absent" /\ n \notin Updaters

CanRotateNode(n, exp) == n \in References(exp) /\ n \notin Updaters /\ Live(exp)

\* The token the handler read must still be the row's; the configure token
\* dies with the old identity.
RotateServiceNodeToken(n, exp) ==
  IF ~CanRotateNode(n, exp) \/ Len(tokens) = MaxTokens
  THEN UNCHANGED <<tokens, row>>
  ELSE LET new == Len(tokens) + 1
       IN  /\ tokens' = Append([tokens EXCEPT ![exp].live = FALSE], NewToken(TypeOf(n), n, TRUE))
           /\ row' = [row EXCEPT ![n] = [Repointed(@, new) EXCEPT !.sealed = new, !.ct = "none"]]

\* The row goes with its token.
DeleteService(n) ==
  IF row[n].st = "absent" THEN UNCHANGED <<tokens, row>>
  ELSE /\ row' = [row EXCEPT ![n] = Absent]
       /\ tokens' = [tokens EXCEPT ![row[n].tok].live = FALSE]

\* A new row is bound to the token only if the token is still as created.
CanPrecreate(n, t) == row[n].st = "absent" /\ Live(t)

PrecreateService(n, t, handed) ==
  /\ CanPrecreate(n, t)
  /\ row' = [row EXCEPT ![n] = [Absent EXCEPT !.st = "pending", !.tok = t]]
  /\ tokens' = [tokens EXCEPT ![t].n = n, ![t].handed = handed]

SetServiceNodeTokenSecret(n, t) ==
  /\ row[n].st # "absent"
  /\ row' = [row EXCEPT ![n].sealed = t]

SetServiceConfigureToken(n) ==
  /\ row[n].st # "absent"
  /\ row' = [row EXCEPT ![n].ct = "live"]

\* ------------------------------------------------------ registering a node --

CreateServiceToken(n, op) ==
  /\ req.op = "idle" /\ Len(tokens) < MaxTokens
  /\ Cardinality({tokens[t].type : t \in DOMAIN tokens} \cup {TypeOf(n)}) <= MaxTypes
  /\ tokens' = Append(tokens, NewToken(TypeOf(n), None, FALSE))
  /\ req' = [op |-> op, n |-> n, t |-> Len(tokens) + 1]
  /\ UNCHANGED <<row, pol, adm, call>> /\ UNCHANGED bootVars

\* An API token for a service that registers itself is not kept by the Panel;
\* a node's is sealed into its row and a configure token is issued.
CreateApiToken ==
  /\ req.op = "api"
  /\ \/ PrecreateService(req.n, req.t, TRUE) /\ req' = Idle
     \/ req' = [req EXCEPT !.op = "revoke"] /\ UNCHANGED <<row, tokens>>
  /\ UNCHANGED <<pol, adm, call>> /\ UNCHANGED bootVars

\* Each of the three calls may fail.  After a failed seal the handler has
\* overwritten the service it got from the precreation, so what it deletes is
\* the empty id: the token is revoked and the pending row stays.
CreateNodeRegistrationToken ==
  /\ \/ /\ req.op = "precreate"
        /\ \/ PrecreateService(req.n, req.t, FALSE) /\ req' = [req EXCEPT !.op = "persist"]
           \/ req' = [req EXCEPT !.op = "revoke"] /\ UNCHANGED <<row, tokens>>
     \/ /\ req.op = "persist" /\ UNCHANGED tokens
        /\ \/ SetServiceNodeTokenSecret(req.n, req.t) /\ req' = [req EXCEPT !.op = "issue"]
           \/ req' = [req EXCEPT !.op = "revoke"] /\ UNCHANGED row
     \/ /\ req.op = "issue"
        /\ \/ /\ SetServiceConfigureToken(req.n) /\ req' = Idle
              /\ tokens' = [tokens EXCEPT ![req.t].handed = TRUE]
           \/ req' = [req EXCEPT !.op = "undo"] /\ UNCHANGED <<row, tokens>>
  /\ UNCHANGED <<pol, adm, call>> /\ UNCHANGED bootVars

\* The errors of the compensating calls are ignored.
Compensate ==
  /\ \/ /\ req.op \in {"revoke", "undo"}
        /\ req' = IF req.op = "undo" THEN [req EXCEPT !.op = "delete"] ELSE Idle
        /\ RevokeServiceToken(req.t) \/ UNCHANGED <<row, tokens>>
     \/ /\ req.op = "delete" /\ req' = Idle
        /\ DeleteService(req.n) \/ UNCHANGED <<row, tokens>>
  /\ UNCHANGED <<pol, adm, call>> /\ UNCHANGED bootVars

\* ------------------------------------------------- the administrator's handlers --

\* Mutant: a token is changed while its updater is setting up hosts.
TokenHandlerUnfenced(t) ==
  /\ adm.op = "idle" /\ Live(t)
  /\ \A n \in Nodes : row[n].tok = t => row[n].sealed = 0
  /\ Asked(tokens[t].n)

\* Refused while a row keeps the token sealed: such a token is rotated or
\* deleted with its node.  The check is made on services read earlier.
TokenHandlerChecks(t) ==
  /\ adm.op = "idle" /\ Live(t)
  /\ \A n \in Nodes : row[n].tok = t => row[n].sealed = 0 /\ ~RejectDuringBootstrap(n)
  /\ Asked(tokens[t].n)

RevokeServiceTokenHandler(t) ==
  /\ TokenHandlerChecks(t)
  /\ adm' = [op |-> "revoke", n |-> tokens[t].n, t |-> t]
  /\ UNCHANGED <<row, tokens, pol, req, call>>

RotateServiceTokenHandler(t) ==
  /\ TokenHandlerChecks(t)
  /\ adm' = [op |-> "rotate", n |-> tokens[t].n, t |-> t]
  /\ UNCHANGED <<row, tokens, pol, req, call>>

\* An updater's token is rotated in stages only.
RotateNodeRuntimeToken(n) ==
  /\ adm.op = "idle" /\ row[n].st # "absent" /\ n \notin Updaters
  /\ adm' = [op |-> "rotatenode", n |-> n, t |-> row[n].tok]
  /\ UNCHANGED <<row, tokens, pol, req, call>> /\ UNCHANGED bootVars

\* The second half of the handler in flight.
TokenHandlerWrites ==
  /\ \/ adm.op = "revoke" /\ RevokeServiceToken(adm.t)
     \/ adm.op = "rotate" /\ RotateServiceToken(adm.t)
     \/ adm.op = "rotatenode" /\ RotateServiceNodeToken(adm.n, adm.t)
  /\ adm' = Idle
  /\ UNCHANGED <<pol, req, call>> /\ UNCHANGED bootVars

RegenerateNodeConfigureToken(n) ==
  /\ ~MutexHeld \/ n \notin Updaters
  /\ ~RejectDuringBootstrap(n)
  /\ SetServiceConfigureToken(n)
  /\ Asked(n)
  /\ UNCHANGED <<tokens, pol, req, adm, call>>

DeleteServiceHandler(n) ==
  /\ ~MutexHeld /\ row[n].st # "absent"
  /\ ~RejectDuringBootstrap(n)
  /\ DeleteService(n)
  /\ Asked(n)
  /\ UNCHANGED <<pol, req, adm, call>>

UpdateUpdaterPolicy(u) ==
  /\ ~MutexHeld /\ row[u].st # "absent" /\ pol[u] < MaxRevision
  /\ ~HasActiveJob(u)
  /\ pol' = [pol EXCEPT ![u] = @ + 1]
  /\ Touch
  /\ UNCHANGED <<row, tokens, req, adm, call>>

\* ------------------------------------------------------------ a node's calls --

CanConfigure(n) == n \notin Updaters /\ row[n].ct = "live" /\ Live(row[n].tok)

\* A node trades its configure token for a runtime token of its own.
ConfigureServiceNode(n) ==
  /\ CanConfigure(n)
  /\ Len(tokens) < MaxTokens
  /\ tokens' = Append([tokens EXCEPT ![row[n].tok].live = FALSE], NewToken(TypeOf(n), n, TRUE))
  /\ row' = [row EXCEPT ![n] = [Repointed(@, Len(tokens) + 1) EXCEPT
                                !.st = "registered", !.sealed = Len(tokens) + 1, !.ct = "used"]]
  /\ UNCHANGED <<pol, req, adm, call>> /\ UNCHANGED bootVars

ConfigureTokenExpires(n) ==
  /\ row[n].ct = "live"
  /\ row' = [row EXCEPT ![n].ct = "none"]
  /\ UNCHANGED <<tokens, pol, req, adm, call>> /\ UNCHANGED bootVars

\* The bearer token is looked up before the request body is read.
AuthenticateServiceToken(t) ==
  /\ call.op = "idle" /\ Live(t) /\ tokens[t].handed /\ tokens[t].type = "node" /\ tokens[t].n # None
  /\ call' = [op |-> "authenticated", n |-> tokens[t].n, t |-> t]
  /\ UNCHANGED <<row, tokens, pol, req, adm>> /\ UNCHANGED bootVars

\* Registration asks for the row's token, not for its being live.
CanRegister(n, t) == n \in References(t)

RegisterService(n, t) ==
  /\ CanRegister(n, t)
  /\ row' = [row EXCEPT ![n].st = "registered"]

\* Mutant: the heartbeat trusts the authentication made before it.
HeartbeatUnchecked(n, t) == n \in References(t)

\* The row must still carry the token and the token must still be live.
CanHeartbeat(n, t) == n \in References(t) /\ Live(t)

Heartbeat(n, t, key, applied) ==
  /\ CanHeartbeat(n, t)
  /\ row' = [row EXCEPT ![n].st = "registered", ![n].hb = t, ![n].key = key, ![n].applied = applied]

ServiceCallWrites ==
  /\ call.op = "authenticated" /\ call' = Idle
  /\ \/ RegisterService(call.n, call.t)
     \/ Heartbeat(call.n, call.t, None, 0)
     \/ UNCHANGED row
  /\ UNCHANGED <<tokens, pol, req, adm>> /\ UNCHANGED bootVars

\* Under the mutex the updater's token is looked up a second time.
UpdaterAuthenticated(u) ==
  /\ ~MutexHeld /\ row[u].st # "absent"
  /\ Live(row[u].tok) /\ tokens[row[u].tok].handed

PersistServiceHeartbeat(u, key, applied) ==
  /\ UpdaterAuthenticated(u)
  /\ applied <= pol[u]
  /\ Heartbeat(u, row[u].tok, key, applied)
  /\ UNCHANGED <<tokens, pol, req, adm, call>> /\ UNCHANGED bootVars

\* ------------------------------------------------------- bootstrap handlers --

\* The updater is online, has applied the policy the administrator saw, and
\* the envelope is sealed for the key it reports.
BootstrapReady(u) ==
  /\ row[u].hb # 0 /\ row[u].key # None
  /\ pol[u] >= 1 /\ row[u].applied = pol[u]

CreateUpdateHostBootstrapJob(u, hs) ==
  /\ ~MutexHeld /\ BootstrapReady(u)
  /\ Create(u, pol[u], row[u].key, hs)
  /\ UNCHANGED regVars

ServiceUpdateHostBootstrapClaim(j, key) ==
  /\ UpdaterAuthenticated(boot[j].u)
  /\ \/ \E delivered \in BOOLEAN : key = row[boot[j].u].key /\ Claim(j, pol[boot[j].u], key, delivered)
     \/ ClaimRecipientChanged(j, pol[boot[j].u], key)
  /\ UNCHANGED regVars

ServiceUpdateHostBootstrapAccept(j, lease) ==
  /\ <<j, lease>> \in held /\ UpdaterAuthenticated(boot[j].u)
  /\ Accept(j, boot[j].u, pol[boot[j].u], lease)
  /\ UNCHANGED regVars

ServiceUpdateHostBootstrapReport(j, lease, h, s) ==
  /\ <<j, lease>> \in held /\ UpdaterAuthenticated(boot[j].u)
  /\ h \in DOMAIN boot[j].hosts
  /\ Report(j, boot[j].u, pol[boot[j].u], lease, h, s)
  /\ UNCHANGED regVars

\* The administrator's page polls the list.
ListUpdateHostBootstrapJobs == Touch /\ UNCHANGED regVars

\* -------------------------------------------------------------- specification --

\* Handlers in flight die with the process; so does the broker.
PanelRestart ==
  /\ req' = Idle /\ adm' = Idle /\ call' = Idle
  /\ boot' = Forget
  /\ UNCHANGED <<row, tokens, pol, held, accepted>>

RegistryNext ==
  \/ \E n \in Nodes, op \in {"api", "precreate"} : CreateServiceToken(n, op)
  \/ CreateApiToken
  \/ CreateNodeRegistrationToken
  \/ Compensate
  \/ \E t \in DOMAIN tokens : RevokeServiceTokenHandler(t)
  \/ \E t \in DOMAIN tokens : RotateServiceTokenHandler(t)
  \/ \E n \in Nodes : RotateNodeRuntimeToken(n)
  \/ TokenHandlerWrites
  \/ \E n \in Nodes : RegenerateNodeConfigureToken(n)
  \/ \E n \in Nodes : DeleteServiceHandler(n)
  \/ \E u \in Updaters : UpdateUpdaterPolicy(u)
  \/ \E n \in Nodes : ConfigureServiceNode(n)
  \/ \E n \in Nodes : ConfigureTokenExpires(n)
  \/ \E t \in DOMAIN tokens : AuthenticateServiceToken(t)
  \/ ServiceCallWrites
  \/ \E u \in Updaters, k \in Keys : PersistServiceHeartbeat(u, k, pol[u])
  \/ PanelRestart

BootstrapNext ==
  \/ \E u \in Updaters, hs \in SUBSET Hosts \ {{}} : CreateUpdateHostBootstrapJob(u, hs)
  \/ \E j \in DOMAIN boot, k \in Keys : ServiceUpdateHostBootstrapClaim(j, k)
  \/ \E j \in DOMAIN boot, l \in 1..MaxLeases : ServiceUpdateHostBootstrapAccept(j, l)
  \/ \E j \in DOMAIN boot, l \in 1..MaxLeases, h \in Hosts, s \in Stages :
       ServiceUpdateHostBootstrapReport(j, l, h, s)
  \/ ListUpdateHostBootstrapJobs
  \/ \E j \in DOMAIN boot : Prune(j) /\ UNCHANGED regVars
  \/ \E j \in DOMAIN boot : DeadlinePasses(j) /\ UNCHANGED regVars

Next == RegistryNext \/ BootstrapNext

\* A deadline is an instant that comes, and the administrator's page and the
\* updater keep calling.
Fairness ==
  /\ \A j \in 1..MaxJobs : WF_vars(j \in DOMAIN boot /\ DeadlinePasses(j) /\ UNCHANGED regVars)
  /\ WF_vars(ListUpdateHostBootstrapJobs)

Spec == Init /\ [][Next]_vars /\ Fairness

\* ---------------------------------------------------------------- properties --

\* A node has at most one live token: whatever the interleaving of
\* registration, compensation, rotation, configuration and deletion, a live
\* token that was ever bound to a node is the one its row names
\* (service_tokens_mariadb.go, service_registration_mariadb.go).
OneLiveToken ==
  \A t \in DOMAIN tokens :
    tokens[t].live /\ tokens[t].n # None =>
      row[tokens[t].n].st # "absent" /\ row[tokens[t].n].tok = t

\* A node counts as heard from only on the word of a holder of its current,
\* unrevoked token, although the token was looked up before the heartbeat was
\* written (service_reports_mariadb.go, Heartbeat).
HeardFromHolder ==
  \A n \in Nodes : row[n].hb # 0 => row[n].hb = row[n].tok /\ Live(row[n].tok)

\* No two processes of an updater set up the hosts of one job: however often
\* a job is claimed and answers are lost, one lease is ever accepted, and a
\* running or ended job keeps no envelope (update_host_bootstrap_broker.go).
OneBootstrapper ==
  \A j \in DOMAIN boot :
    /\ Cardinality({l \in 1..MaxLeases : <<j, l>> \in accepted}) <= 1
    /\ boot[j].env => boot[j].status \in {"queued", "claimed"}

\* While a bootstrap job of an updater is under way no handler of the registry
\* changes the token its leases are bound to, although the handlers check the
\* broker first and write later (server_service_reports.go, rejectUpdaterIdentityMutationDuringBootstrap).
\* A late registration that compensates may still delete the row: it asks
\* nobody.  So the job can outlive its updater's row, and a token handler that
\* read the services before the next registration bound its token asked about
\* no updater: it is the one that may still replace the token of that row.
IdentityStable ==
  [][\A u \in Updaters :
       /\ ActiveJobs(boot, u) # {} /\ ActiveJobs(boot', u) # {}
       /\ row[u].st # "absent" /\ row'[u].st # "absent"
       => \/ row'[u].tok = row[u].tok
          \/ adm.op = "rotate" /\ adm.t = row[u].tok /\ adm.n = None]_vars

\* Every bootstrap job ends, and its credential is gone, even if its updater
\* never calls again.
BootstrapSettles ==
  \A j \in 1..MaxJobs :
    (j \in DOMAIN boot /\ boot[j].status \in ActiveStatus)
      ~> (j \in DOMAIN boot /\ boot[j].status \notin ActiveStatus /\ ~boot[j].env)
=============================================================================
