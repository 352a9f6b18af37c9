--------------------------- MODULE HostBootstrap ---------------------------
(***************************************************************************)
(* The broker that hands an updater the sealed credentials with which it   *)
(* sets up new hosts.  A job lives in the Panel's memory only: an          *)
(* administrator creates it with an envelope sealed for the updater's key, *)
(* the updater claims it (each claim issues a new lease and returns the    *)
(* envelope again), accepts it (the envelope is wiped) and reports host by *)
(* host.  Every call, also one that is refused, first expires the jobs     *)
(* whose deadline has passed; nothing expires between two calls.           *)
(* The actions are the broker's methods; NodeRegistry's handlers call them *)
(* with the updater's identity, policy revision and reported key.          *)
(***************************************************************************)
EXTENDS Naturals, Sequences, FiniteSets, Functions

CONSTANTS
  Nodes,        \* service ids
  Updaters,     \* those of type update_agent
  Hosts,        \* hosts an updater's policy names
  Keys,         \* encryption keys an updater may report
  Stages,       \* the host states that are reported
  None,         \* an absent identifier
  MaxJobs,      \* bound: bootstrap jobs ever created
  MaxLeases     \* bound: claims of one job

Rank == [queued |-> 0, connecting |-> 1, verifying |-> 2, uploading |-> 3, installing |-> 4,
         probing |-> 5, succeeded |-> 6]

ASSUME BootstrapAssumption == /\ Updaters \subseteq Nodes
                              /\ None \notin Nodes \cup Keys
                              /\ Stages \subseteq (DOMAIN Rank \ {"queued"}) \cup {"failed"}
                              /\ MaxJobs \in Nat /\ MaxLeases \in Nat

VARIABLES
  boot,      \* the broker's job records, in order of creation
  held,      \* <<job, lease>> pairs some updater process has received
  accepted   \* <<job, lease>> pairs whose Accept succeeded (a ghost)

bootVars == <<boot, held, accepted>>

ActiveStatus == {"queued", "claimed", "running"}
TerminalStatus == {"succeeded", "failed", "partial_failed", "credential_expired"}
TerminalHost == {"succeeded", "failed"}

\* ------------------------------------------------------- a record's changes --

ClearSecretState(r) == [r EXCEPT !.env = FALSE, !.lease = 0]

FailUnfinishedHosts(r) ==
  [r EXCEPT !.hosts = [h \in DOMAIN @ |-> IF @[h] \in TerminalHost THEN @[h] ELSE "failed"]]

TerminalizeJob(r, status) ==
  ClearSecretState([FailUnfinishedHosts(r) EXCEPT !.status = status, !.due = FALSE])

\* The job ends when every host has; its verdict is derived from theirs.
DeriveJobProgress(r) ==
  LET verdicts == Range(r.hosts)
  IN  [r EXCEPT !.status = IF ~(verdicts \subseteq TerminalHost) THEN "running"
                           ELSE IF verdicts = {"succeeded"} THEN "succeeded"
                           ELSE IF verdicts = {"failed"} THEN "failed"
                           ELSE "partial_failed"]

\* The deadline of a job that waits for its updater is the credential's, that
\* of a running one slides with every report up to an absolute limit.
Expired(r) ==
  IF ~r.due THEN r
  ELSE IF r.status = "running"
       THEN ClearSecretState(DeriveJobProgress([FailUnfinishedHosts(r) EXCEPT !.due = FALSE]))
       ELSE TerminalizeJob(r, "credential_expired")

\* Mutant: a running job has no deadline.
ExpireWaitingOnly(b) ==
  [j \in DOMAIN b |-> IF b[j].status = "running" THEN b[j] ELSE Expired(b[j])]

ExpireLocked(b) == [j \in DOMAIN b |-> Expired(b[j])]

ActiveJobs(b, u) == {j \in DOMAIN b : b[j].u = u /\ b[j].status \in ActiveStatus}

HasActiveJob(u) == ActiveJobs(ExpireLocked(boot), u) # {}

\* A lease is bound to the updater and the policy revision it was issued for.
ValidLease(r, u, rev, lease) == lease # 0 /\ r.lease = lease /\ r.u = u /\ r.rev = rev

\* A host's report never goes back, and an ended host stays as it is.
HostTransition(current, next) ==
  IF current \in TerminalHost THEN next = current
  ELSE next # "failed" => Rank[current] <= Rank[next]

\* ----------------------------------------------------------- broker methods --

\* Any call: List, HasActiveJob, a refused call or an idempotent replay.
Touch == boot' = ExpireLocked(boot) /\ UNCHANGED <<held, accepted>>

\* One active job per updater.
Create(u, rev, key, hs) ==
  /\ Len(boot) < MaxJobs
  /\ ~HasActiveJob(u)
  /\ boot' = Append(ExpireLocked(boot),
                    [u |-> u, rev |-> rev, key |-> key, status |-> "queued", env |-> TRUE,
                     lease |-> 0, issued |-> 0, hosts |-> [h \in hs |-> "queued"], due |-> FALSE])
  /\ UNCHANGED <<held, accepted>>

\* A claim by an updater that no longer holds the envelope's key ends the job,
\* also a running one.
ClaimRecipientChanged(j, rev, key) ==
  LET b == ExpireLocked(boot)
  IN  /\ b[j].status \in ActiveStatus /\ b[j].rev = rev /\ b[j].key # key
      /\ boot' = [b EXCEPT ![j] = TerminalizeJob(@, "credential_expired")]
      /\ UNCHANGED <<held, accepted>>

\* Mutant: a job that is already running can be claimed again.
ClaimRunning(j, rev, key, delivered) ==
  LET b == ExpireLocked(boot)
  IN  /\ b[j].status \in ActiveStatus /\ b[j].rev = rev /\ b[j].key = key
      /\ b[j].issued < MaxLeases
      /\ boot' = [b EXCEPT ![j].status = "claimed", ![j].lease = b[j].issued + 1,
                           ![j].issued = @ + 1]
      /\ held' = IF delivered THEN held \cup {<<j, b[j].issued + 1>>} ELSE held
      /\ UNCHANGED accepted

\* The lease replaces the one before it.  The answer may be lost, or withheld
\* because the release token is gone: the lease is then known to nobody.
Claim(j, rev, key, delivered) ==
  LET b == ExpireLocked(boot)
  IN  /\ b[j].status \in {"queued", "claimed"} /\ b[j].env
      /\ b[j].rev = rev /\ b[j].key = key
      /\ b[j].issued < MaxLeases
      /\ boot' = [b EXCEPT ![j].status = "claimed", ![j].lease = b[j].issued + 1,
                           ![j].issued = @ + 1]
      /\ held' = IF delivered THEN held \cup {<<j, b[j].issued + 1>>} ELSE held
      /\ UNCHANGED accepted

\* A repeated Accept with the same lease succeeds and changes nothing.
Accept(j, u, rev, lease) ==
  LET b == ExpireLocked(boot)
  IN  /\ ValidLease(b[j], u, rev, lease)
      /\ b[j].status \in {"claimed", "running"}
      /\ boot' = [b EXCEPT ![j].status = "running", ![j].env = FALSE]
      /\ accepted' = accepted \cup {<<j, lease>>}
      /\ UNCHANGED held

Report(j, u, rev, lease, h, s) ==
  LET b == ExpireLocked(boot)
      r == DeriveJobProgress([b[j] EXCEPT !.hosts[h] = s])
  IN  /\ ValidLease(b[j], u, rev, lease)
      /\ b[j].status = "running"
      /\ HostTransition(b[j].hosts[h], s)
      /\ boot' = [b EXCEPT ![j] = IF r.status = "running" THEN r ELSE ClearSecretState(r)]
      /\ UNCHANGED <<held, accepted>>

\* A terminal record is dropped after its retention time, or when more than
\* the allowed number are kept.
Prune(j) ==
  LET b == ExpireLocked(boot)
  IN  /\ b[j].status \in TerminalStatus
      /\ boot' = [b EXCEPT ![j].status = "gone"]
      /\ UNCHANGED <<held, accepted>>

\* The clock reaches a job's deadline; nothing happens until the next call.
DeadlinePasses(j) ==
  /\ boot[j].status \in ActiveStatus /\ ~boot[j].due
  /\ boot' = [boot EXCEPT ![j].due = TRUE]
  /\ UNCHANGED <<held, accepted>>

\* A restarted Panel has an empty broker.
Forget == [j \in DOMAIN boot |-> ClearSecretState([boot[j] EXCEPT !.status = "gone", !.due = FALSE])]
=============================================================================
