------------------------- MODULE NodeRegistry_proofs -------------------------
(***************************************************************************)
(* Proofs about NodeRegistry and the bootstrap broker it extends, for any  *)
(* nodes, updaters, hosts, keys and bounds.  The invariant has one part    *)
(* for the two tables together (a row and the token it names), one for the *)
(* handlers in flight and one for the broker's records.                    *)
(***************************************************************************)
EXTENDS NodeRegistry, TLAPS, FiniteSetTheorems, SequenceTheorems

Row == [st : {"absent", "pending", "registered"}, tok : Nat, sealed : Nat,
        ct : {"none", "live", "used"}, hb : Nat, key : Keys \cup {None}, applied : Nat]
Token == [live : BOOLEAN, type : {"update_agent", "node"}, n : Nodes \cup {None},
          handed : BOOLEAN]

TypeOK == /\ row \in [Nodes -> Row]
          /\ tokens \in Seq(Token)
          /\ pol \in [Updaters -> Nat]

\* A row that exists names a token bound to it, of its own type.
RowsNamed ==
  \A n \in Nodes :
    IF row[n].st = "absent" THEN row[n].tok = 0 /\ row[n].hb = 0
    ELSE /\ row[n].tok \in DOMAIN tokens
         /\ tokens[row[n].tok].n = n /\ tokens[row[n].tok].type = TypeOf(n)

TablesOK == TypeOK /\ RowsNamed /\ OneLiveToken /\ HeardFromHolder

Registration == [op : {"idle", "api", "precreate", "persist", "issue", "revoke", "undo", "delete"},
                 n : Nodes \cup {None}, t : Nat]

\* A registration works on the token it created, unbound until the precreation.
ReqOK == /\ req \in Registration
         /\ req.op # "idle" =>
              /\ req.n \in Nodes /\ req.t \in DOMAIN tokens
              /\ tokens[req.t].type = TypeOf(req.n)
              /\ req.op \in {"api", "precreate"} => tokens[req.t].n = None

\* A handler that saw whose token it works on works on that node's token still.
AdmOK == adm.op # "idle" =>
           /\ adm.t \in DOMAIN tokens
           /\ adm.op = "rotatenode" => adm.n \in Nodes \ Updaters
           /\ adm.n # None /\ adm.op # "rotatenode" =>
                /\ adm.n \in Nodes /\ tokens[adm.t].n = adm.n
                /\ tokens[adm.t].type = TypeOf(adm.n)

CallOK == call.op # "idle" => call.n \in Nodes /\ call.t \in DOMAIN tokens

\* No job of the updater whose token a handler is about to change is active.
Fenced == adm.op \in {"revoke", "rotate"} /\ adm.n \in Updaters => ActiveJobs(boot, adm.n) = {}

RegInv == TablesOK /\ ReqOK /\ AdmOK /\ CallOK

HostMaps == UNION {[hs -> {"queued", "failed"} \cup Stages] : hs \in SUBSET Hosts}
Waiting == {"queued", "claimed"}
Job == [u : Updaters, rev : Nat, key : Keys, status : ActiveStatus \cup TerminalStatus \cup {"gone"},
        env : BOOLEAN, lease : Nat, issued : Nat, hosts : HostMaps, due : BOOLEAN]

\* What was accepted is the record's lease, unless the record has none any more,
\* and a job one of whose leases was accepted cannot be claimed again.
JobOK(r, j) ==
  /\ r.env => r.status \in Waiting
  /\ \A l : <<j, l>> \in accepted => r.status \notin Waiting /\ (r.lease # 0 => r.lease = l)

BootInv ==
  /\ boot \in Seq(Job)
  /\ \A j \in DOMAIN boot : JobOK(boot[j], j)
  /\ \A j, l : <<j, l>> \in accepted => j \in DOMAIN boot
  /\ \A j, l, m : <<j, l>> \in accepted /\ <<j, m>> \in accepted => l = m

IInv == RegInv /\ Fenced /\ BootInv

-----------------------------------------------------------------------------
(* Sequences. *)

(* A function on the domain of a sequence with values in S is a sequence. *)
LEMMA OnDomainSeq ==
  ASSUME NEW S, NEW s \in Seq(S), NEW f \in [DOMAIN s -> S]
  PROVE  f \in Seq(S) /\ Len(f) = Len(s) /\ DOMAIN f = DOMAIN s
<1>1. DOMAIN s = 1 .. Len(s) /\ Len(s) \in Nat
  OBVIOUS
<1> QED BY <1>1

(* One element of a sequence is replaced. *)
LEMMA PutSeq ==
  ASSUME NEW S, NEW s \in Seq(S), NEW i \in DOMAIN s, NEW e \in S
  PROVE  /\ [s EXCEPT ![i] = e] \in Seq(S)
         /\ Len([s EXCEPT ![i] = e]) = Len(s)
         /\ DOMAIN [s EXCEPT ![i] = e] = DOMAIN s
         /\ [s EXCEPT ![i] = e][i] = e
         /\ \A k \in DOMAIN s : k # i => [s EXCEPT ![i] = e][k] = s[k]
<1>1. s \in [DOMAIN s -> S]
  OBVIOUS
<1>2. [s EXCEPT ![i] = e] \in [DOMAIN s -> S]
  BY <1>1
<1> QED BY <1>1, <1>2, OnDomainSeq

(* An element is added at the end. *)
LEMMA PushSeq ==
  ASSUME NEW S, NEW s \in Seq(S), NEW e \in S
  PROVE  /\ Append(s, e) \in Seq(S)
         /\ DOMAIN Append(s, e) = DOMAIN s \cup {Len(s) + 1}
         /\ Len(s) + 1 \notin DOMAIN s
         /\ Len(s) + 1 \in Nat /\ Len(s) + 1 # 0 /\ 0 \notin DOMAIN s
         /\ \A j \in DOMAIN s : Append(s, e)[j] = s[j]
         /\ Append(s, e)[Len(s) + 1] = e
<1>1. DOMAIN s = 1 .. Len(s) /\ Len(s) \in Nat
  OBVIOUS
<1>2. Append(s, e) \in Seq(S) /\ Len(Append(s, e)) = Len(s) + 1
  BY AppendProperties
<1>3. DOMAIN Append(s, e) = 1 .. (Len(s) + 1)
  BY <1>1, <1>2
<1> QED BY <1>1, <1>2, <1>3, AppendProperties

-----------------------------------------------------------------------------
(* The broker's records. *)

\* How a record changes when no lease is issued or accepted: it may lose its
\* envelope or its lease, and it may end.
Ages(r, q) ==
  /\ q \in Job /\ q.u = r.u
  /\ q.env => r.env /\ q.status = r.status
  /\ q.status \in Waiting => r.status \in Waiting
  /\ q.lease # 0 => q.lease = r.lease
  /\ q.status \in ActiveStatus => r.status \in ActiveStatus

LEMMA AgesTwice ==
  ASSUME NEW r, NEW q, NEW s, Ages(r, q), Ages(q, s)
  PROVE  Ages(r, s)
BY DEF Ages

LEMMA AgedJob ==
  ASSUME NEW r, NEW q, NEW j, JobOK(r, j), Ages(r, q)
  PROVE  JobOK(q, j)
BY DEF Ages, JobOK

(* Clearing the secrets. *)
LEMMA Cleared ==
  ASSUME NEW r \in Job
  PROVE  /\ ClearSecretState(r) \in Job
         /\ ClearSecretState(r).u = r.u /\ ClearSecretState(r).status = r.status
         /\ ~ClearSecretState(r).env /\ ClearSecretState(r).lease = 0
BY DEF ClearSecretState, Job

(* Ending the hosts that have not ended. *)
LEMMA HostsFailed ==
  ASSUME NEW r \in Job
  PROVE  /\ FailUnfinishedHosts(r) \in Job
         /\ FailUnfinishedHosts(r).u = r.u /\ FailUnfinishedHosts(r).status = r.status
<1> DEFINE hs == [h \in DOMAIN r.hosts |-> IF r.hosts[h] \in TerminalHost THEN r.hosts[h] ELSE "failed"]
<1>1. PICK d \in SUBSET Hosts : r.hosts \in [d -> {"queued", "failed"} \cup Stages]
  <2>1. r.hosts \in HostMaps
    BY DEF Job
  <2> QED BY <2>1 DEF HostMaps
<1>2. hs \in [d -> {"queued", "failed"} \cup Stages]
  BY <1>1
<1>3. hs \in HostMaps
  BY <1>2 DEF HostMaps
<1>4. FailUnfinishedHosts(r) = [r EXCEPT !.hosts = hs]
  BY DEF FailUnfinishedHosts
<1> HIDE DEF hs
<1> QED BY <1>3, <1>4 DEF Job

(* The job's state derived from its hosts': it no longer waits. *)
LEMMA Derived ==
  ASSUME NEW r \in Job
  PROVE  /\ DeriveJobProgress(r) \in Job
         /\ DeriveJobProgress(r).u = r.u /\ DeriveJobProgress(r).env = r.env
         /\ DeriveJobProgress(r).lease = r.lease
         /\ DeriveJobProgress(r).status \notin Waiting
<1> DEFINE s == DeriveJobProgress(r).status
<1>1. DeriveJobProgress(r) = [r EXCEPT !.status = s] /\ s \in {"running", "succeeded", "failed", "partial_failed"}
  BY DEF DeriveJobProgress, Job
<1> HIDE DEF s
<1> QED BY <1>1 DEF Job, ActiveStatus, TerminalStatus, Waiting

LEMMA Terminalized ==
  ASSUME NEW r \in Job, NEW s \in TerminalStatus
  PROVE  Ages(r, TerminalizeJob(r, s))
<1> DEFINE f == FailUnfinishedHosts(r)
           g == [f EXCEPT !.status = s, !.due = FALSE]
<1>1. f \in Job /\ f.u = r.u
  BY HostsFailed
<1>2. TerminalizeJob(r, s) = ClearSecretState(g)
  BY DEF TerminalizeJob
<1> HIDE DEF f
<1>3. g \in Job /\ g.u = r.u /\ g.status = s
  BY <1>1 DEF Job
<1> HIDE DEF g
<1> QED BY <1>2, <1>3, Cleared DEF Ages, ActiveStatus, TerminalStatus, Waiting

LEMMA ExpiredAges ==
  ASSUME NEW r \in Job
  PROVE  Ages(r, Expired(r))
<1>1. CASE ~r.due
  BY <1>1 DEF Expired, Ages
<1>2. CASE r.due /\ r.status # "running"
  BY <1>2, Terminalized DEF Expired, TerminalStatus
<1>3. CASE r.due /\ r.status = "running"
  <2> DEFINE f == FailUnfinishedHosts(r)
             g == [f EXCEPT !.due = FALSE]
             d == DeriveJobProgress(g)
  <2>1. f \in Job /\ f.u = r.u
    BY HostsFailed
  <2>2. Expired(r) = ClearSecretState(d)
    BY <1>3 DEF Expired
  <2> HIDE DEF f
  <2>3. g \in Job /\ g.u = r.u
    BY <2>1 DEF Job
  <2> HIDE DEF g
  <2>4. d \in Job /\ d.u = r.u /\ d.status \notin Waiting
    BY <2>3, Derived
  <2> HIDE DEF d
  <2> QED BY <1>3, <2>2, <2>4, Cleared DEF Ages, ActiveStatus
<1>4. r.due \in BOOLEAN
  BY DEF Job
<1> QED BY <1>1, <1>2, <1>3, <1>4

(* Every call first expires what is due. *)
LEMMA ExpireAges ==
  ASSUME BootInv
  PROVE  /\ ExpireLocked(boot) \in Seq(Job)
         /\ DOMAIN ExpireLocked(boot) = DOMAIN boot /\ Len(ExpireLocked(boot)) = Len(boot)
         /\ \A j \in DOMAIN boot : Ages(boot[j], ExpireLocked(boot)[j])
         /\ \A j \in DOMAIN boot : ExpireLocked(boot)[j] \in Job /\ JobOK(ExpireLocked(boot)[j], j)
<1>1. \A j \in DOMAIN boot : boot[j] \in Job
  BY DEF BootInv
<1>2. \A j \in DOMAIN boot : Ages(boot[j], ExpireLocked(boot)[j])
  BY <1>1, ExpiredAges DEF ExpireLocked
<1>3. \A j \in DOMAIN boot : ExpireLocked(boot)[j] \in Job /\ JobOK(ExpireLocked(boot)[j], j)
  BY <1>2, AgedJob DEF BootInv, Ages
<1>4. ExpireLocked(boot) \in [DOMAIN boot -> Job]
  BY <1>3 DEF ExpireLocked
<1> QED BY <1>2, <1>3, <1>4, OnDomainSeq DEF BootInv

\* What every action of the broker but Create does: no job becomes active.
Settling == /\ DOMAIN boot' = DOMAIN boot
            /\ \A j \in DOMAIN boot : boot'[j].u = boot[j].u
            /\ \A j \in DOMAIN boot : boot'[j].status \in ActiveStatus => boot[j].status \in ActiveStatus

(* Records that only age. *)
LEMMA AgedBroker ==
  ASSUME BootInv, boot' \in Seq(Job), DOMAIN boot' = DOMAIN boot,
         \A j \in DOMAIN boot : Ages(boot[j], boot'[j]), accepted' = accepted
  PROVE  BootInv' /\ Settling
<1>1. \A j \in DOMAIN boot : JobOK(boot'[j], j)
  BY AgedJob DEF BootInv
<1>2. \A j \in DOMAIN boot : JobOK(boot[j], j)'
  BY <1>1 DEF JobOK
<1> QED BY <1>2 DEF BootInv, Settling, Ages

(* One record of the expired ones is replaced by an older form of itself. *)
LEMMA AgedOne ==
  ASSUME BootInv, NEW j \in DOMAIN boot, NEW q, Ages(ExpireLocked(boot)[j], q),
         boot' = [ExpireLocked(boot) EXCEPT ![j] = q], accepted' = accepted
  PROVE  BootInv' /\ Settling
<1> DEFINE b == ExpireLocked(boot)
<1>1. /\ b \in Seq(Job) /\ DOMAIN b = DOMAIN boot
      /\ \A k \in DOMAIN boot : Ages(boot[k], b[k])
  BY ExpireAges
<1> HIDE DEF b
<1>2. q \in Job
  BY DEF Ages
<1>3. boot' \in Seq(Job) /\ DOMAIN boot' = DOMAIN boot /\ boot'[j] = q
      /\ \A k \in DOMAIN boot : k # j => boot'[k] = b[k]
  BY <1>1, <1>2, PutSeq DEF b
<1>4. \A k \in DOMAIN boot : Ages(boot[k], boot'[k])
  <2> TAKE k \in DOMAIN boot
  <2>1. CASE k = j
    <3>1. Ages(boot[j], b[j]) /\ Ages(b[j], q)
      BY <1>1 DEF b
    <3> QED BY <2>1, <3>1, <1>3, AgesTwice
  <2>2. CASE k # j
    BY <2>2, <1>1, <1>3
  <2> QED BY <2>1, <2>2
<1> QED BY <1>3, <1>4, AgedBroker

LEMMA TouchOK ==
  ASSUME BootInv, Touch
  PROVE  BootInv' /\ Settling
BY ExpireAges, AgedBroker DEF Touch

LEMMA UntouchedOK ==
  ASSUME BootInv, UNCHANGED bootVars
  PROVE  BootInv' /\ Settling
BY DEF BootInv, JobOK, Settling, bootVars

LEMMA CreateOK ==
  ASSUME BootInv, NEW u \in Updaters, NEW rev \in Nat, NEW key \in Keys,
         NEW hs \in SUBSET Hosts, Create(u, rev, key, hs)
  PROVE  BootInv'
<1> DEFINE b == ExpireLocked(boot)
           hosts == [h \in hs |-> "queued"]
           new == [u |-> u, rev |-> rev, key |-> key, status |-> "queued", env |-> TRUE,
                   lease |-> 0, issued |-> 0, hosts |-> hosts, due |-> FALSE]
<1>1. /\ b \in Seq(Job) /\ DOMAIN b = DOMAIN boot /\ Len(b) = Len(boot)
      /\ \A k \in DOMAIN boot : JobOK(b[k], k)
  BY ExpireAges
<1>2. boot' = Append(b, new) /\ accepted' = accepted
  BY DEF Create
<1> HIDE DEF b
<1>3. hosts \in HostMaps
  BY DEF HostMaps
<1> HIDE DEF hosts
<1>4. new \in Job /\ new.status = "queued"
  BY <1>3 DEF Job, ActiveStatus
<1> HIDE DEF new
<1>5. /\ boot' \in Seq(Job) /\ DOMAIN boot' = DOMAIN boot \cup {Len(b) + 1}
      /\ Len(b) + 1 \notin DOMAIN boot
      /\ \A k \in DOMAIN boot : boot'[k] = b[k]
      /\ boot'[Len(b) + 1] = new
  BY <1>1, <1>2, <1>4, PushSeq
<1>6. \A k \in DOMAIN boot' : JobOK(boot[k], k)'
  <2> TAKE k \in DOMAIN boot'
  <2>1. CASE k \in DOMAIN boot
    BY <2>1, <1>1, <1>2, <1>5 DEF JobOK
  <2>2. CASE k = Len(b) + 1
    BY <2>2, <1>2, <1>4, <1>5 DEF JobOK, BootInv, Waiting
  <2> QED BY <2>1, <2>2, <1>5
<1> QED BY <1>2, <1>5, <1>6 DEF BootInv

LEMMA ClaimOK ==
  ASSUME BootInv, NEW j \in DOMAIN boot, NEW rev, NEW key, NEW delivered,
         Claim(j, rev, key, delivered)
  PROVE  BootInv' /\ Settling
<1> DEFINE b == ExpireLocked(boot)
           n == b[j].issued + 1
           q == [b[j] EXCEPT !.status = "claimed", !.lease = n, !.issued = n]
<1>1. /\ b \in Seq(Job) /\ DOMAIN b = DOMAIN boot
      /\ \A k \in DOMAIN boot : Ages(boot[k], b[k]) /\ b[k] \in Job /\ JobOK(b[k], k)
  BY ExpireAges
<1>2. /\ boot' = [b EXCEPT ![j] = q] /\ accepted' = accepted
      /\ b[j].status \in Waiting
  BY <1>1 DEF Claim, Waiting
<1> HIDE DEF b
<1>3. q \in Job /\ q.u = b[j].u /\ q.status = "claimed"
  <2>1. b[j] \in Job /\ n \in Nat
    BY <1>1 DEF Job
  <2> HIDE DEF n
  <2> QED BY <2>1 DEF Job, ActiveStatus
<1> HIDE DEF q
<1>4. boot' \in Seq(Job) /\ DOMAIN boot' = DOMAIN boot /\ boot'[j] = q
      /\ \A k \in DOMAIN boot : k # j => boot'[k] = b[k]
  BY <1>1, <1>2, <1>3, PutSeq
<1>5. \A l : <<j, l>> \notin accepted
  BY <1>1, <1>2 DEF JobOK
<1>6. \A k \in DOMAIN boot : JobOK(boot[k], k)'
  <2> TAKE k \in DOMAIN boot
  <2>1. CASE k = j
    BY <2>1, <1>2, <1>3, <1>4, <1>5 DEF JobOK, Waiting
  <2>2. CASE k # j
    BY <2>2, <1>1, <1>2, <1>4 DEF JobOK
  <2> QED BY <2>1, <2>2
<1>7. BootInv'
  BY <1>2, <1>4, <1>6 DEF BootInv
<1>8. Settling
  <2>1. boot[j].status \in ActiveStatus /\ q.u = boot[j].u
    BY <1>1, <1>2, <1>3 DEF Ages, ActiveStatus, Waiting
  <2> QED BY <2>1, <1>1, <1>4 DEF Settling, Ages
<1> QED BY <1>7, <1>8

LEMMA AcceptOK ==
  ASSUME BootInv, NEW j \in DOMAIN boot, NEW u, NEW rev, NEW lease, Accept(j, u, rev, lease)
  PROVE  BootInv' /\ Settling
<1> DEFINE b == ExpireLocked(boot)
           q == [b[j] EXCEPT !.status = "running", !.env = FALSE]
<1>1. /\ b \in Seq(Job) /\ DOMAIN b = DOMAIN boot
      /\ \A k \in DOMAIN boot : Ages(boot[k], b[k]) /\ b[k] \in Job /\ JobOK(b[k], k)
  BY ExpireAges
<1>2. /\ boot' = [b EXCEPT ![j] = q] /\ accepted' = accepted \cup {<<j, lease>>}
      /\ b[j].status \in {"claimed", "running"} /\ lease # 0 /\ b[j].lease = lease
  BY <1>1 DEF Accept, ValidLease
<1> HIDE DEF b
<1>3. q \in Job /\ q.u = b[j].u /\ q.status = "running" /\ ~q.env /\ q.lease = lease
  BY <1>1, <1>2 DEF Job, ActiveStatus
<1> HIDE DEF q
<1>4. boot' \in Seq(Job) /\ DOMAIN boot' = DOMAIN boot /\ boot'[j] = q
      /\ \A k \in DOMAIN boot : k # j => boot'[k] = b[k]
  BY <1>1, <1>2, <1>3, PutSeq
<1>5. \A l : <<j, l>> \in accepted' => l = lease
  <2> SUFFICES ASSUME NEW l, <<j, l>> \in accepted PROVE l = lease
    BY <1>2
  <2> QED BY <1>1, <1>2 DEF JobOK
<1>6. \A k, l : k # j => (<<k, l>> \in accepted' <=> <<k, l>> \in accepted)
  BY <1>2
<1>7. \A k \in DOMAIN boot : JobOK(boot[k], k)'
  <2> TAKE k \in DOMAIN boot
  <2>1. CASE k = j
    BY <2>1, <1>3, <1>4, <1>5 DEF JobOK, Waiting
  <2>2. CASE k # j
    BY <2>2, <1>1, <1>4, <1>6 DEF JobOK
  <2> QED BY <2>1, <2>2
<1>8. BootInv'
  <2>1. \A k, l : <<k, l>> \in accepted' => k \in DOMAIN boot'
    BY <1>4, <1>6 DEF BootInv
  <2>2. \A k, l, m : <<k, l>> \in accepted' /\ <<k, m>> \in accepted' => l = m
    BY <1>5, <1>6 DEF BootInv
  <2> QED BY <2>1, <2>2, <1>4, <1>7 DEF BootInv
<1>9. Settling
  <2>1. boot[j].status \in ActiveStatus /\ q.u = boot[j].u
    BY <1>1, <1>2, <1>3 DEF Ages, ActiveStatus
  <2> QED BY <2>1, <1>1, <1>4 DEF Settling, Ages
<1> QED BY <1>8, <1>9

LEMMA ReportOK ==
  ASSUME BootInv, NEW j \in DOMAIN boot, NEW u, NEW rev, NEW lease, NEW h, NEW s \in Stages,
         Report(j, u, rev, lease, h, s)
  PROVE  BootInv' /\ Settling
<1> DEFINE b == ExpireLocked(boot)
           p == [b[j] EXCEPT !.hosts = [b[j].hosts EXCEPT ![h] = s]]
           r == DeriveJobProgress(p)
           q == IF r.status = "running" THEN r ELSE ClearSecretState(r)
<1>1. b[j] \in Job /\ JobOK(b[j], j)
  BY ExpireAges
<1>2. /\ boot' = [b EXCEPT ![j] = q] /\ accepted' = accepted
      /\ b[j].status = "running"
  BY DEF Report
<1> HIDE DEF b
<1>3. p \in Job /\ p.u = b[j].u /\ p.env = b[j].env /\ p.lease = b[j].lease
  <2> DEFINE hs == [b[j].hosts EXCEPT ![h] = s]
  <2>1. PICK d \in SUBSET Hosts : b[j].hosts \in [d -> {"queued", "failed"} \cup Stages]
    <3>1. b[j].hosts \in HostMaps
      BY <1>1 DEF Job
    <3> QED BY <3>1 DEF HostMaps
  <2>2. hs \in [d -> {"queued", "failed"} \cup Stages]
    BY <2>1
  <2>3. hs \in HostMaps
    BY <2>2 DEF HostMaps
  <2>4. p = [b[j] EXCEPT !.hosts = hs] /\ b[j] \in Job
    BY <1>1
  <2> HIDE DEF hs, p
  <2>5. p \in Job /\ p.u = b[j].u /\ p.lease = b[j].lease
    BY <2>3, <2>4 DEF Job
  <2>6. p.env = b[j].env
    BY <2>4 DEF Job
  <2> QED BY <2>5, <2>6
<1> HIDE DEF p
<1>4. r \in Job /\ r.u = b[j].u /\ r.env = b[j].env /\ r.lease = b[j].lease /\ r.status \notin Waiting
  BY <1>3, Derived
<1> HIDE DEF r
<1>5. ~b[j].env
  BY <1>1, <1>2 DEF JobOK, Waiting
<1>6. Ages(b[j], q)
  <2>1. CASE r.status = "running"
    BY <2>1, <1>2, <1>4, <1>5 DEF Ages
  <2>2. CASE r.status # "running"
    BY <2>2, <1>2, <1>4, Cleared DEF Ages, ActiveStatus
  <2> QED BY <2>1, <2>2
<1> HIDE DEF q
<1> QED BY <1>2, <1>6, AgedOne DEF b

LEMMA EndedClaimOK ==
  ASSUME BootInv, NEW j \in DOMAIN boot, NEW rev, NEW key, ClaimRecipientChanged(j, rev, key)
  PROVE  BootInv' /\ Settling
<1> DEFINE b == ExpireLocked(boot)
<1>1. b[j] \in Job /\ DOMAIN b = DOMAIN boot
  BY ExpireAges
<1>2. Ages(b[j], TerminalizeJob(b[j], "credential_expired"))
  BY <1>1, Terminalized DEF TerminalStatus
<1>3. boot' = [b EXCEPT ![j] = TerminalizeJob(b[j], "credential_expired")] /\ accepted' = accepted
  BY DEF ClaimRecipientChanged
<1> QED BY <1>2, <1>3, AgedOne

LEMMA PruneOK ==
  ASSUME BootInv, NEW j \in DOMAIN boot, Prune(j)
  PROVE  BootInv' /\ Settling
<1> DEFINE b == ExpireLocked(boot)
           q == [b[j] EXCEPT !.status = "gone"]
<1>1. b[j] \in Job /\ JobOK(b[j], j)
  BY ExpireAges
<1>2. boot' = [b EXCEPT ![j] = q] /\ accepted' = accepted /\ b[j].status \in TerminalStatus
  BY DEF Prune
<1> HIDE DEF b
<1>3. q \in Job /\ q.u = b[j].u /\ q.env = b[j].env /\ q.lease = b[j].lease /\ q.status = "gone"
  BY <1>1 DEF Job
<1> HIDE DEF q
<1>4. Ages(b[j], q)
  BY <1>1, <1>2, <1>3 DEF Ages, JobOK, Waiting, TerminalStatus, ActiveStatus
<1> QED BY <1>2, <1>4, AgedOne DEF b

LEMMA DeadlineOK ==
  ASSUME BootInv, NEW j \in DOMAIN boot, DeadlinePasses(j)
  PROVE  BootInv' /\ Settling
<1> DEFINE q == [boot[j] EXCEPT !.due = TRUE]
<1>1. boot \in Seq(Job) /\ \A k \in DOMAIN boot : boot[k] \in Job
  BY DEF BootInv
<1>2. boot' = [boot EXCEPT ![j] = q] /\ accepted' = accepted
  BY DEF DeadlinePasses
<1>3. q \in Job /\ Ages(boot[j], q)
  BY <1>1 DEF Job, Ages
<1> HIDE DEF q
<1>4. boot' \in Seq(Job) /\ DOMAIN boot' = DOMAIN boot /\ boot'[j] = q
      /\ \A k \in DOMAIN boot : k # j => boot'[k] = boot[k]
  BY <1>1, <1>2, <1>3, PutSeq
<1>5. \A k \in DOMAIN boot : Ages(boot[k], boot'[k])
  BY <1>1, <1>3, <1>4 DEF Ages
<1> QED BY <1>2, <1>4, <1>5, AgedBroker

LEMMA ForgetOK ==
  ASSUME BootInv, boot' = Forget, accepted' = accepted
  PROVE  BootInv' /\ Settling
<1>1. boot \in Seq(Job) /\ \A k \in DOMAIN boot : boot[k] \in Job
  BY DEF BootInv
<1>2. \A k \in DOMAIN boot : Ages(boot[k], boot'[k])
  <2> TAKE k \in DOMAIN boot
  <2> DEFINE g == [boot[k] EXCEPT !.status = "gone", !.due = FALSE]
  <2>1. g \in Job /\ g.u = boot[k].u /\ g.status = "gone"
    BY <1>1 DEF Job
  <2>2. boot'[k] = ClearSecretState(g)
    BY DEF Forget
  <2> HIDE DEF g
  <2> QED BY <2>1, <2>2, Cleared DEF Ages, Waiting, ActiveStatus
<1>3. boot' \in [DOMAIN boot -> Job]
  BY <1>2 DEF Forget, Ages
<1> QED BY <1>1, <1>2, <1>3, OnDomainSeq, AgedBroker

-----------------------------------------------------------------------------
(* The rows and the tokens. *)

\* Tokens are never deleted, and stay bound to their node.
Grown == /\ DOMAIN tokens \subseteq DOMAIN tokens'
         /\ \A i \in DOMAIN tokens : /\ tokens'[i].type = tokens[i].type
                                     /\ tokens'[i].n = tokens[i].n

Kill(t) == [tokens EXCEPT ![t].live = FALSE]

(* A token is revoked. *)
LEMMA Killed ==
  ASSUME TypeOK, NEW t \in DOMAIN tokens
  PROVE  /\ Kill(t) \in Seq(Token) /\ DOMAIN Kill(t) = DOMAIN tokens /\ Len(Kill(t)) = Len(tokens)
         /\ \A i \in DOMAIN tokens : Kill(t)[i].n = tokens[i].n /\ Kill(t)[i].type = tokens[i].type
         /\ ~Kill(t)[t].live
         /\ \A i \in DOMAIN tokens : i # t => Kill(t)[i] = tokens[i]
<1> DEFINE e == [tokens[t] EXCEPT !.live = FALSE]
<1>1. tokens \in Seq(Token) /\ tokens[t] \in Token
  BY DEF TypeOK
<1>2. e \in Token /\ e.n = tokens[t].n /\ e.type = tokens[t].type /\ ~e.live
  BY <1>1 DEF Token
<1>3. Kill(t) = [tokens EXCEPT ![t] = e]
  BY DEF Kill
<1> HIDE DEF e
<1>4. /\ Kill(t) \in Seq(Token) /\ Len(Kill(t)) = Len(tokens) /\ DOMAIN Kill(t) = DOMAIN tokens
      /\ Kill(t)[t] = e
      /\ \A i \in DOMAIN tokens : i # t => Kill(t)[i] = tokens[i]
  <2>1. e \in Token
    BY <1>2
  <2> QED BY <2>1, <1>1, <1>3, PutSeq
<1>5. \A i \in DOMAIN tokens : Kill(t)[i].n = tokens[i].n /\ Kill(t)[i].type = tokens[i].type
  <2>1. Kill(t)[t].n = tokens[t].n /\ Kill(t)[t].type = tokens[t].type
    BY <1>2, <1>4
  <2> QED BY <2>1, <1>4
<1>6. ~Kill(t)[t].live
  BY <1>2, <1>4
<1> QED BY <1>4, <1>5, <1>6

(* A token is revoked and another one created. *)
LEMMA Replaced ==
  ASSUME TypeOK, NEW t \in DOMAIN tokens, NEW e \in Token, tokens' = Append(Kill(t), e)
  PROVE  /\ tokens' \in Seq(Token) /\ DOMAIN tokens' = DOMAIN tokens \cup {Len(tokens) + 1}
         /\ Len(tokens) + 1 \notin DOMAIN tokens /\ Len(tokens) + 1 \in Nat /\ Len(tokens) + 1 # 0
         /\ tokens'[Len(tokens) + 1] = e
         /\ ~tokens'[t].live
         /\ \A i \in DOMAIN tokens : i # t => tokens'[i] = tokens[i]
         /\ Grown
<1> DEFINE k == Kill(t)
<1>1. /\ DOMAIN k = DOMAIN tokens /\ Len(k) = Len(tokens)
      /\ \A i \in DOMAIN tokens : k[i].n = tokens[i].n /\ k[i].type = tokens[i].type
      /\ \A i \in DOMAIN tokens : i # t => k[i] = tokens[i]
  BY Killed
<1>2. ~k[t].live
  BY Killed
<1>3. k \in Seq(Token)
  BY Killed
<1>4. /\ tokens' \in Seq(Token) /\ DOMAIN tokens' = DOMAIN k \cup {Len(k) + 1}
      /\ Len(k) + 1 \notin DOMAIN k /\ Len(k) + 1 \in Nat /\ Len(k) + 1 # 0
      /\ \A j \in DOMAIN k : tokens'[j] = k[j]
      /\ tokens'[Len(k) + 1] = e
  BY <1>3, PushSeq
<1> HIDE DEF k
<1>5. ~tokens'[t].live
  <2>1. tokens'[t] = k[t]
    BY <1>1, <1>4
  <2> QED BY <2>1, <1>2
<1>6. Grown
  BY <1>1, <1>4 DEF Grown
<1> QED BY <1>1, <1>4, <1>5, <1>6

LEMMA NoToken0 ==
  ASSUME TypeOK
  PROVE  0 \notin DOMAIN tokens /\ \A i \in DOMAIN tokens : i \in Nat /\ tokens[i] \in Token
BY DEF TypeOK

\* A token may be handed out; nothing else about the tokens changes.
SameTokens == /\ tokens' \in Seq(Token) /\ DOMAIN tokens' = DOMAIN tokens
              /\ \A i \in DOMAIN tokens : /\ tokens'[i].live <=> tokens[i].live
                                          /\ tokens'[i].n = tokens[i].n
                                          /\ tokens'[i].type = tokens[i].type

LEMMA TokensUnchanged ==
  ASSUME TypeOK, UNCHANGED tokens
  PROVE  SameTokens
BY DEF TypeOK, SameTokens

HandOut(t) == [tokens EXCEPT ![t].handed = TRUE]

LEMMA TokenHanded ==
  ASSUME TypeOK, NEW t \in DOMAIN tokens, tokens' = HandOut(t)
  PROVE  SameTokens
<1> DEFINE e == [tokens[t] EXCEPT !.handed = TRUE]
<1>1. tokens \in Seq(Token) /\ tokens[t] \in Token
  BY DEF TypeOK
<1>2. e \in Token
  BY <1>1 DEF Token
<1>3. e.n = tokens[t].n /\ e.type = tokens[t].type
  BY <1>1 DEF Token
<1>4. e.live <=> tokens[t].live
  BY <1>1 DEF Token
<1>5. tokens' = [tokens EXCEPT ![t] = e]
  BY DEF HandOut
<1> HIDE DEF e
<1>6. /\ tokens' \in Seq(Token) /\ DOMAIN tokens' = DOMAIN tokens /\ tokens'[t] = e
      /\ \A i \in DOMAIN tokens : i # t => tokens'[i] = tokens[i]
  BY <1>1, <1>2, <1>5, PutSeq
<1>7. \A i \in DOMAIN tokens : tokens'[i].n = tokens[i].n /\ tokens'[i].type = tokens[i].type
  BY <1>3, <1>6
<1>8. \A i \in DOMAIN tokens : tokens'[i].live <=> tokens[i].live
  BY <1>4, <1>6, Zenon
<1> QED BY <1>6, <1>7, <1>8 DEF SameTokens

(* A row changes, but not the token it names. *)
LEMMA RowWritten ==
  ASSUME TablesOK, NEW n \in Nodes, NEW r \in Row,
         r.st = "absent" <=> row[n].st = "absent", r.tok = row[n].tok,
         r.hb = row[n].hb \/ (r.st # "absent" /\ r.hb = r.tok /\ Live(r.tok)),
         row' = [row EXCEPT ![n] = r], SameTokens, UNCHANGED pol
  PROVE  TablesOK' /\ Grown
<1>1. /\ row \in [Nodes -> Row]
      /\ \A m \in Nodes : row'[m] = IF m = n THEN r ELSE row[m]
  BY DEF TablesOK, TypeOK
<1>2. TypeOK'
  BY <1>1 DEF TablesOK, TypeOK, SameTokens
<1>3. RowsNamed'
  BY <1>1 DEF TablesOK, RowsNamed, SameTokens
<1>4. OneLiveToken'
  <2> SUFFICES ASSUME NEW t \in DOMAIN tokens, tokens'[t].live, tokens'[t].n # None
               PROVE  row'[tokens'[t].n].st # "absent" /\ row'[tokens'[t].n].tok = t
    BY DEF OneLiveToken, SameTokens
  <2>1. tokens[t].live /\ tokens[t].n = tokens'[t].n
    BY DEF SameTokens
  <2>2. tokens[t].n \in Nodes
    BY <2>1, NoToken0 DEF TablesOK, Token
  <2>3. row[tokens[t].n].st # "absent" /\ row[tokens[t].n].tok = t
    BY <2>1 DEF TablesOK, OneLiveToken
  <2> QED BY <2>1, <2>2, <2>3, <1>1
<1>5. HeardFromHolder'
  <2> SUFFICES ASSUME NEW m \in Nodes, row'[m].hb # 0
               PROVE  row'[m].hb = row'[m].tok /\ row'[m].tok # 0 /\ tokens'[row'[m].tok].live
    BY DEF HeardFromHolder, Live
  <2>1. row'[m].hb = row'[m].tok /\ Live(row'[m].tok) /\ row'[m].st # "absent"
    BY <1>1 DEF TablesOK, HeardFromHolder, RowsNamed
  <2>2. row'[m].tok \in DOMAIN tokens
    BY <2>1, <1>1 DEF TablesOK, RowsNamed
  <2> QED BY <2>1, <2>2 DEF SameTokens, Live
<1>6. Grown
  BY DEF Grown, SameTokens
<1> QED BY <1>2, <1>3, <1>4, <1>5, <1>6 DEF TablesOK

LEMMA TablesUnchanged ==
  ASSUME TablesOK, UNCHANGED <<row, tokens, pol>>
  PROVE  TablesOK' /\ Grown
BY DEF TablesOK, TypeOK, RowsNamed, OneLiveToken, HeardFromHolder, Live, Grown

(* A new token that no row names. *)
LEMMA TokenCreated ==
  ASSUME TablesOK, NEW e \in Token, e.n = None, tokens' = Append(tokens, e), UNCHANGED <<row, pol>>
  PROVE  /\ TablesOK' /\ Grown
         /\ Len(tokens) + 1 \in DOMAIN tokens' /\ tokens'[Len(tokens) + 1] = e
<1>1. /\ tokens' \in Seq(Token) /\ DOMAIN tokens' = DOMAIN tokens \cup {Len(tokens) + 1}
      /\ \A j \in DOMAIN tokens : tokens'[j] = tokens[j]
      /\ tokens'[Len(tokens) + 1] = e
  BY PushSeq DEF TablesOK, TypeOK
<1>2. TypeOK'
  BY <1>1 DEF TablesOK, TypeOK
<1>3. RowsNamed'
  BY <1>1 DEF TablesOK, RowsNamed
<1>4. OneLiveToken'
  BY <1>1 DEF TablesOK, OneLiveToken
<1>5. HeardFromHolder'
  <2> SUFFICES ASSUME NEW m \in Nodes, row[m].hb # 0
               PROVE  row[m].hb = row[m].tok /\ Live(row[m].tok)'
    BY DEF HeardFromHolder, Live
  <2>1. row[m].st # "absent" /\ row[m].hb = row[m].tok /\ Live(row[m].tok)
    BY DEF TablesOK, HeardFromHolder, RowsNamed
  <2>2. row[m].tok \in DOMAIN tokens
    BY <2>1 DEF TablesOK, RowsNamed
  <2> QED BY <1>1, <2>1, <2>2 DEF Live
<1>6. Grown
  BY <1>1 DEF Grown
<1> QED BY <1>1, <1>2, <1>3, <1>4, <1>5, <1>6 DEF TablesOK

(* The rows that name the token are the one it is bound to, if any. *)
LEMMA ReferenceIsBound ==
  ASSUME TablesOK, NEW t, NEW n \in References(t)
  PROVE  /\ n \in Nodes /\ t \in DOMAIN tokens /\ tokens[t].n = n /\ tokens[t].type = TypeOf(n)
         /\ row[n].st # "absent" /\ row[n].tok = t
BY DEF References, TablesOK, RowsNamed

LEMMA RevokeOK ==
  ASSUME TablesOK, NEW t \in DOMAIN tokens, RevokeServiceToken(t), UNCHANGED pol
  PROVE  TablesOK' /\ Grown
<1>1. CASE ~Live(t)
  BY <1>1, TablesUnchanged DEF RevokeServiceToken
<1>2. CASE Live(t)
  <2> DEFINE R(n) == Repointed(row[n], t)
  <2>1. /\ tokens' = Kill(t)
        /\ row' = [n \in Nodes |-> IF n \in References(t) THEN R(n) ELSE row[n]]
    BY <1>2 DEF RevokeServiceToken, Kill
  <2>2. /\ tokens' \in Seq(Token) /\ DOMAIN tokens' = DOMAIN tokens
        /\ \A i \in DOMAIN tokens : tokens'[i].n = tokens[i].n /\ tokens'[i].type = tokens[i].type
        /\ ~tokens'[t].live
        /\ \A i \in DOMAIN tokens : i # t => tokens'[i] = tokens[i]
    BY <2>1, Killed DEF TablesOK
  <2>3. \A n \in Nodes : row[n] \in Row
    BY DEF TablesOK, TypeOK
  <2>4. \A n \in References(t) : /\ R(n) \in Row /\ R(n).st = row[n].st /\ R(n).tok = row[n].tok
                                 /\ R(n).hb = 0
    <3> TAKE n \in References(t)
    <3>1. row[n] \in Row /\ t \in Nat /\ row[n].tok = t
      BY <2>3, NoToken0 DEF References, TablesOK
    <3> QED BY <3>1 DEF Repointed, Row
  <2> HIDE DEF R
  <2>5. \A n \in Nodes : /\ row'[n] \in Row /\ row'[n].st = row[n].st /\ row'[n].tok = row[n].tok
                         /\ row'[n].hb = IF n \in References(t) THEN 0 ELSE row[n].hb
    BY <2>1, <2>3, <2>4
  <2>6. TypeOK'
    BY <2>1, <2>2, <2>5 DEF TablesOK, TypeOK
  <2>7. RowsNamed'
    <3> SUFFICES ASSUME NEW n \in Nodes
                 PROVE  IF row'[n].st = "absent" THEN row'[n].tok = 0 /\ row'[n].hb = 0
                        ELSE /\ row'[n].tok \in DOMAIN tokens'
                             /\ tokens'[row'[n].tok].n = n /\ tokens'[row'[n].tok].type = TypeOf(n)
      BY DEF RowsNamed, TypeOf
    <3>1. IF row[n].st = "absent" THEN row[n].tok = 0 /\ row[n].hb = 0
          ELSE /\ row[n].tok \in DOMAIN tokens
               /\ tokens[row[n].tok].n = n /\ tokens[row[n].tok].type = TypeOf(n)
      BY DEF TablesOK, RowsNamed
    <3> QED BY <3>1, <2>2, <2>5
  <2>8. OneLiveToken'
    <3> SUFFICES ASSUME NEW i \in DOMAIN tokens, tokens'[i].live, tokens'[i].n # None
                 PROVE  row'[tokens'[i].n].st # "absent" /\ row'[tokens'[i].n].tok = i
      BY <2>2 DEF OneLiveToken
    <3>1. i # t /\ tokens'[i] = tokens[i]
      BY <2>2
    <3>2. tokens[i].n \in Nodes
      BY <3>1, NoToken0 DEF TablesOK, Token
    <3>3. row[tokens[i].n].st # "absent" /\ row[tokens[i].n].tok = i
      BY <3>1 DEF TablesOK, OneLiveToken
    <3> QED BY <3>1, <3>2, <3>3, <2>5
  <2>9. HeardFromHolder'
    <3> SUFFICES ASSUME NEW m \in Nodes, row'[m].hb # 0
                 PROVE  row'[m].hb = row'[m].tok /\ row'[m].tok # 0 /\ tokens'[row'[m].tok].live
      BY DEF HeardFromHolder, Live
    <3>1. m \notin References(t) /\ row[m].hb # 0 /\ row'[m].hb = row[m].hb
      BY <2>5
    <3>2. row[m].hb = row[m].tok /\ Live(row[m].tok) /\ row[m].st # "absent"
      BY <3>1 DEF TablesOK, HeardFromHolder, RowsNamed
    <3>3. row[m].tok # t /\ row[m].tok \in DOMAIN tokens
      BY <3>1, <3>2 DEF References, TablesOK, RowsNamed
    <3> QED BY <3>1, <3>2, <3>3, <2>2, <2>5 DEF Live
  <2>10. Grown
    BY <2>2 DEF Grown
  <2> QED BY <2>6, <2>7, <2>8, <2>9, <2>10 DEF TablesOK
<1> QED BY <1>1, <1>2

(* A node's live token is replaced and its row follows. *)
LEMMA TokenMoved ==
  ASSUME TablesOK, NEW n \in Nodes, row[n].st # "absent", Live(row[n].tok),
         NEW r \in Row, r.st # "absent", r.tok = Len(tokens) + 1, r.hb = 0,
         NEW e \in Token, e.n = n, e.type = TypeOf(n),
         tokens' = Append(Kill(row[n].tok), e), row' = [row EXCEPT ![n] = r], UNCHANGED pol
  PROVE  TablesOK' /\ Grown
<1> DEFINE t == row[n].tok
           new == Len(tokens) + 1
<1>1. t \in DOMAIN tokens /\ tokens[t].n = n
  BY DEF TablesOK, RowsNamed
<1>2. /\ tokens' \in Seq(Token) /\ DOMAIN tokens' = DOMAIN tokens \cup {new}
      /\ new \notin DOMAIN tokens /\ new # 0 /\ tokens'[new] = e
      /\ ~tokens'[t].live
      /\ \A i \in DOMAIN tokens : i # t => tokens'[i] = tokens[i]
      /\ Grown
  BY <1>1, Replaced DEF TablesOK
<1>3. row \in [Nodes -> Row] /\ \A m \in Nodes : row'[m] = IF m = n THEN r ELSE row[m]
  BY DEF TablesOK, TypeOK
<1> HIDE DEF t, new
<1>4. TypeOK'
  BY <1>2, <1>3 DEF TablesOK, TypeOK
<1>5. \A m \in Nodes : m # n /\ row[m].st # "absent" => row[m].tok \in DOMAIN tokens /\ row[m].tok # t
  <2> SUFFICES ASSUME NEW m \in Nodes, m # n, row[m].st # "absent"
               PROVE  row[m].tok \in DOMAIN tokens /\ row[m].tok # t
    OBVIOUS
  <2>1. row[m].tok \in DOMAIN tokens /\ tokens[row[m].tok].n = m
    BY DEF TablesOK, RowsNamed
  <2> QED BY <2>1, <1>1
<1>6. RowsNamed'
  <2> SUFFICES ASSUME NEW m \in Nodes
               PROVE  IF row'[m].st = "absent" THEN row'[m].tok = 0 /\ row'[m].hb = 0
                      ELSE /\ row'[m].tok \in DOMAIN tokens'
                           /\ tokens'[row'[m].tok].n = m /\ tokens'[row'[m].tok].type = TypeOf(m)
    BY DEF RowsNamed, TypeOf
  <2>1. CASE m = n
    <3>1. row'[m].tok = new
      BY <2>1, <1>3 DEF new
    <3> QED BY <2>1, <3>1, <1>2, <1>3
  <2>2. CASE m # n
    BY <2>2, <1>2, <1>3, <1>5 DEF TablesOK, RowsNamed, Grown
  <2> QED BY <2>1, <2>2
<1>7. OneLiveToken'
  <2> SUFFICES ASSUME NEW i \in DOMAIN tokens', tokens'[i].live, tokens'[i].n # None
               PROVE  row'[tokens'[i].n].st # "absent" /\ row'[tokens'[i].n].tok = i
    BY DEF OneLiveToken
  <2>1. CASE i = new
    <3>1. tokens'[i].n = n /\ row'[n] = r /\ r.tok = i
      BY <2>1, <1>2, <1>3 DEF new
    <3> QED BY <3>1
  <2>2. CASE i # new
    <3>1. i \in DOMAIN tokens /\ i # t /\ tokens'[i] = tokens[i]
      BY <2>2, <1>2
    <3>2. tokens[i].n \in Nodes
      BY <3>1, NoToken0 DEF TablesOK, Token
    <3>3. row[tokens[i].n].st # "absent" /\ row[tokens[i].n].tok = i
      BY <3>1 DEF TablesOK, OneLiveToken
    <3>4. tokens[i].n # n
      BY <3>1, <3>3 DEF t
    <3> QED BY <3>1, <3>2, <3>3, <3>4, <1>3
  <2> QED BY <2>1, <2>2
<1>8. HeardFromHolder'
  <2> SUFFICES ASSUME NEW m \in Nodes, row'[m].hb # 0
               PROVE  row'[m].hb = row'[m].tok /\ row'[m].tok # 0 /\ tokens'[row'[m].tok].live
    BY DEF HeardFromHolder, Live
  <2>1. m # n /\ row'[m] = row[m]
    BY <1>3
  <2>2. row[m].hb = row[m].tok /\ Live(row[m].tok) /\ row[m].st # "absent"
    BY <2>1 DEF TablesOK, HeardFromHolder, RowsNamed
  <2>3. tokens'[row[m].tok] = tokens[row[m].tok]
    BY <2>1, <2>2, <1>2, <1>5
  <2> QED BY <2>1, <2>2, <2>3 DEF Live
<1> QED BY <1>2, <1>4, <1>6, <1>7, <1>8 DEF TablesOK

(* A token that no row names is replaced by another such token. *)
LEMMA UnboundReplaced ==
  ASSUME TablesOK, NEW t \in DOMAIN tokens, tokens[t].n = None, NEW e \in Token, e.n = None,
         tokens' = Append(Kill(t), e), UNCHANGED <<row, pol>>
  PROVE  TablesOK' /\ Grown
<1> DEFINE new == Len(tokens) + 1
<1>1. /\ tokens' \in Seq(Token) /\ DOMAIN tokens' = DOMAIN tokens \cup {new}
      /\ tokens'[new] = e
      /\ ~tokens'[t].live
      /\ \A i \in DOMAIN tokens : i # t => tokens'[i] = tokens[i]
      /\ Grown
  BY Replaced DEF TablesOK
<1> HIDE DEF new
<1>2. \A m \in Nodes : row[m].st # "absent" => row[m].tok \in DOMAIN tokens /\ row[m].tok # t
  BY BootstrapAssumption DEF TablesOK, RowsNamed
<1>3. TypeOK'
  BY <1>1 DEF TablesOK, TypeOK
<1>4. RowsNamed'
  BY <1>1, <1>2 DEF TablesOK, RowsNamed, Grown
<1>5. OneLiveToken'
  <2> SUFFICES ASSUME NEW i \in DOMAIN tokens', tokens'[i].live, tokens'[i].n # None
               PROVE  row[tokens'[i].n].st # "absent" /\ row[tokens'[i].n].tok = i
    BY DEF OneLiveToken
  <2>1. i \in DOMAIN tokens /\ i # t /\ tokens'[i] = tokens[i]
    BY <1>1
  <2> QED BY <2>1 DEF TablesOK, OneLiveToken
<1>6. HeardFromHolder'
  <2> SUFFICES ASSUME NEW m \in Nodes, row[m].hb # 0
               PROVE  row[m].hb = row[m].tok /\ row[m].tok # 0 /\ tokens'[row[m].tok].live
    BY DEF HeardFromHolder, Live
  <2>1. row[m].hb = row[m].tok /\ Live(row[m].tok) /\ row[m].st # "absent"
    BY DEF TablesOK, HeardFromHolder, RowsNamed
  <2>2. tokens'[row[m].tok] = tokens[row[m].tok]
    BY <2>1, <1>1, <1>2
  <2> QED BY <2>1, <2>2 DEF Live
<1> QED BY <1>1, <1>3, <1>4, <1>5, <1>6 DEF TablesOK

LEMMA RepointedRow ==
  ASSUME NEW r \in Row, NEW t \in Nat
  PROVE  /\ Repointed(r, t) \in Row /\ Repointed(r, t).st = r.st
         /\ Repointed(r, t).tok = t /\ Repointed(r, t).hb = 0
BY DEF Repointed, Row

LEMMA RotateOK ==
  ASSUME TablesOK, NEW t \in DOMAIN tokens, RotateServiceToken(t), UNCHANGED pol
  PROVE  TablesOK' /\ Grown
<1>1. CASE ~Live(t) \/ Len(tokens) = MaxTokens
  BY <1>1, TablesUnchanged DEF RotateServiceToken
<1>2. CASE Live(t) /\ Len(tokens) # MaxTokens
  <2> DEFINE new == Len(tokens) + 1
             e == NewToken(tokens[t].type, tokens[t].n, TRUE)
  <2>1. /\ tokens' = Append(Kill(t), e)
        /\ row' = [m \in Nodes |-> IF m \in References(t) THEN Repointed(row[m], new) ELSE row[m]]
    BY <1>2 DEF RotateServiceToken, Kill
  <2>2. tokens[t] \in Token /\ new \in Nat /\ row \in [Nodes -> Row]
    BY DEF TablesOK, TypeOK
  <2>3. e \in Token /\ e.n = tokens[t].n /\ e.type = tokens[t].type
    BY <2>2 DEF NewToken, Token
  <2> HIDE DEF e, new
  <2>4. CASE tokens[t].n = None
    <3>1. References(t) = {}
      BY <2>4, ReferenceIsBound, BootstrapAssumption
    <3>2. row' = row
      BY <2>1, <2>2, <3>1
    <3> QED BY <2>1, <2>3, <2>4, <3>2, UnboundReplaced
  <2>5. CASE tokens[t].n # None
    <3> DEFINE n == tokens[t].n
               r == Repointed(row[n], new)
    <3>1. n \in Nodes /\ row[n].st # "absent" /\ row[n].tok = t /\ e.n = n
      BY <2>2, <2>3, <2>5, <1>2 DEF TablesOK, OneLiveToken, Live, Token
    <3>2. References(t) = {n}
      BY <3>1, ReferenceIsBound DEF References
    <3>3. e.type = TypeOf(n)
      BY <3>2, <2>3, ReferenceIsBound
    <3>4. r \in Row /\ r.st # "absent" /\ r.tok = new /\ r.hb = 0
      BY <3>1, <2>2, RepointedRow
    <3>5. row' = [row EXCEPT ![n] = r]
      BY <2>1, <2>2, <3>1, <3>2
    <3> HIDE DEF n, r
    <3> QED BY <1>2, <2>1, <2>3, <3>1, <3>3, <3>4, <3>5, TokenMoved DEF new
  <2> QED BY <2>4, <2>5
<1> QED BY <1>1, <1>2

LEMMA RotateNodeOK ==
  ASSUME TablesOK, NEW n \in Nodes, NEW t, RotateServiceNodeToken(n, t), UNCHANGED pol
  PROVE  TablesOK' /\ Grown
<1>1. CASE ~CanRotateNode(n, t) \/ Len(tokens) = MaxTokens
  BY <1>1, TablesUnchanged DEF RotateServiceNodeToken
<1>2. CASE CanRotateNode(n, t) /\ Len(tokens) # MaxTokens
  <2> DEFINE new == Len(tokens) + 1
             e == NewToken(TypeOf(n), n, TRUE)
             q == Repointed(row[n], new)
             r == [q EXCEPT !.sealed = new, !.ct = "none"]
  <2>1. tokens' = Append(Kill(t), e) /\ row' = [row EXCEPT ![n] = r]
    BY <1>2 DEF RotateServiceNodeToken, Kill
  <2>2. new \in Nat /\ row[n] \in Row
    BY DEF TablesOK, TypeOK
  <2>3. row[n].st # "absent" /\ row[n].tok = t /\ Live(t)
    BY <1>2, ReferenceIsBound DEF CanRotateNode
  <2>4. e \in Token /\ e.n = n /\ e.type = TypeOf(n)
    BY DEF NewToken, Token, TypeOf
  <2> HIDE DEF e
  <2>5. q \in Row /\ q.st # "absent" /\ q.tok = new /\ q.hb = 0
    BY <2>2, <2>3, RepointedRow
  <2> HIDE DEF q
  <2>6. r \in Row /\ r.st # "absent" /\ r.tok = new /\ r.hb = 0
    BY <2>2, <2>5 DEF Row
  <2> HIDE DEF r
  <2> QED BY <2>1, <2>3, <2>4, <2>6, TokenMoved
<1> QED BY <1>1, <1>2

LEMMA ConfigureOK ==
  ASSUME TablesOK, NEW n \in Nodes, ConfigureServiceNode(n)
  PROVE  TablesOK' /\ Grown
<1> DEFINE new == Len(tokens) + 1
           e == NewToken(TypeOf(n), n, TRUE)
           q == Repointed(row[n], new)
           r == [q EXCEPT !.st = "registered", !.sealed = new, !.ct = "used"]
<1>1. /\ tokens' = Append(Kill(row[n].tok), e) /\ row' = [row EXCEPT ![n] = r]
      /\ Live(row[n].tok) /\ pol' = pol
  BY DEF ConfigureServiceNode, CanConfigure, Kill
<1>2. new \in Nat /\ row[n] \in Row
  BY DEF TablesOK, TypeOK
<1>3. row[n].st # "absent"
  BY <1>1 DEF TablesOK, RowsNamed, Live
<1>4. e \in Token /\ e.n = n /\ e.type = TypeOf(n)
  BY DEF NewToken, Token, TypeOf
<1> HIDE DEF e
<1>5. q \in Row /\ q.tok = new /\ q.hb = 0
  BY <1>2, RepointedRow
<1> HIDE DEF q
<1>6. r \in Row /\ r.st # "absent" /\ r.tok = new /\ r.hb = 0
  BY <1>2, <1>5 DEF Row
<1> HIDE DEF r
<1> QED BY <1>1, <1>3, <1>4, <1>6, TokenMoved

LEMMA DeleteOK ==
  ASSUME TablesOK, NEW n \in Nodes, DeleteService(n), UNCHANGED pol
  PROVE  TablesOK' /\ Grown
<1>1. CASE row[n].st = "absent"
  BY <1>1, TablesUnchanged DEF DeleteService
<1>2. CASE row[n].st # "absent"
  <2> DEFINE t == row[n].tok
  <2>1. tokens' = Kill(t) /\ row' = [row EXCEPT ![n] = Absent]
    BY <1>2 DEF DeleteService, Kill
  <2>2. t \in DOMAIN tokens /\ tokens[t].n = n
    BY <1>2 DEF TablesOK, RowsNamed
  <2> HIDE DEF t
  <2>3. /\ tokens' \in Seq(Token) /\ DOMAIN tokens' = DOMAIN tokens
        /\ \A i \in DOMAIN tokens : tokens'[i].n = tokens[i].n /\ tokens'[i].type = tokens[i].type
        /\ ~tokens'[t].live
        /\ \A i \in DOMAIN tokens : i # t => tokens'[i] = tokens[i]
    BY <2>1, <2>2, Killed DEF TablesOK
  <2>4. Absent \in Row /\ Absent.st = "absent" /\ Absent.tok = 0 /\ Absent.hb = 0
    BY DEF Absent, Row
  <2>5. row \in [Nodes -> Row] /\ \A m \in Nodes : row'[m] = IF m = n THEN Absent ELSE row[m]
    BY <2>1 DEF TablesOK, TypeOK
  <2>6. TypeOK'
    BY <2>1, <2>3, <2>4, <2>5 DEF TablesOK, TypeOK
  <2>7. RowsNamed'
    BY <2>3, <2>4, <2>5 DEF TablesOK, RowsNamed
  <2>8. OneLiveToken'
    <3> SUFFICES ASSUME NEW i \in DOMAIN tokens, tokens'[i].live, tokens'[i].n # None
                 PROVE  row'[tokens'[i].n].st # "absent" /\ row'[tokens'[i].n].tok = i
      BY <2>3 DEF OneLiveToken
    <3>1. i # t /\ tokens'[i] = tokens[i]
      BY <2>3
    <3>2. tokens[i].n \in Nodes
      BY <3>1, NoToken0 DEF TablesOK, Token
    <3>3. row[tokens[i].n].st # "absent" /\ row[tokens[i].n].tok = i
      BY <3>1 DEF TablesOK, OneLiveToken
    <3>4. tokens[i].n # n
      BY <3>1, <3>3 DEF t
    <3> QED BY <3>1, <3>2, <3>3, <3>4, <2>5
  <2>9. HeardFromHolder'
    <3> SUFFICES ASSUME NEW m \in Nodes, row'[m].hb # 0
                 PROVE  row'[m].hb = row'[m].tok /\ row'[m].tok # 0 /\ tokens'[row'[m].tok].live
      BY DEF HeardFromHolder, Live
    <3>1. m # n /\ row'[m] = row[m]
      BY <2>4, <2>5
    <3>2. row[m].hb = row[m].tok /\ Live(row[m].tok) /\ row[m].st # "absent"
      BY <3>1 DEF TablesOK, HeardFromHolder, RowsNamed
    <3>3. row[m].tok # t /\ row[m].tok \in DOMAIN tokens
      BY <3>1, <3>2, <2>2 DEF TablesOK, RowsNamed
    <3> QED BY <3>1, <3>2, <3>3, <2>3 DEF Live
  <2>10. Grown
    BY <2>3 DEF Grown
  <2> QED BY <2>6, <2>7, <2>8, <2>9, <2>10 DEF TablesOK
<1> QED BY <1>1, <1>2

(* The precreation binds the registration's token. *)
LEMMA PrecreateOK ==
  ASSUME TablesOK, NEW n \in Nodes, NEW t \in DOMAIN tokens, NEW handed \in BOOLEAN,
         tokens[t].n = None, tokens[t].type = TypeOf(n), PrecreateService(n, t, handed), UNCHANGED pol
  PROVE  /\ TablesOK'
         /\ DOMAIN tokens' = DOMAIN tokens
         /\ tokens'[t].type = tokens[t].type
         /\ \A i \in DOMAIN tokens : i # t => tokens'[i] = tokens[i]
<1> DEFINE e == [tokens[t] EXCEPT !.n = n, !.handed = handed]
           r == [Absent EXCEPT !.st = "pending", !.tok = t]
<1>1. tokens \in Seq(Token) /\ tokens[t] \in Token /\ t \in Nat /\ row \in [Nodes -> Row]
  BY NoToken0 DEF TablesOK, TypeOK
<1>2. e \in Token
  BY <1>1 DEF Token
<1>3. e.n = n /\ e.type = tokens[t].type
  BY <1>1 DEF Token
<1>4. e.live <=> tokens[t].live
  BY <1>1 DEF Token
<1>5. tokens' = [tokens EXCEPT ![t] = e] /\ row' = [row EXCEPT ![n] = r] /\ row[n].st = "absent"
      /\ Live(t)
  BY DEF PrecreateService, CanPrecreate
<1>6. r \in Row /\ r.st = "pending" /\ r.tok = t /\ r.hb = 0
  BY <1>1 DEF Absent, Row
<1> HIDE DEF e, r
<1>7. /\ tokens' \in Seq(Token) /\ DOMAIN tokens' = DOMAIN tokens /\ tokens'[t] = e
      /\ \A i \in DOMAIN tokens : i # t => tokens'[i] = tokens[i]
  BY <1>1, <1>2, <1>5, PutSeq
<1>8. \A m \in Nodes : row'[m] = IF m = n THEN r ELSE row[m]
  BY <1>1, <1>5
<1>9. TypeOK'
  BY <1>1, <1>5, <1>6, <1>7, <1>8 DEF TablesOK, TypeOK
<1>10. \A m \in Nodes : m # n /\ row[m].st # "absent" => row[m].tok \in DOMAIN tokens /\ row[m].tok # t
  BY BootstrapAssumption DEF TablesOK, RowsNamed
<1>11. RowsNamed'
  <2> SUFFICES ASSUME NEW m \in Nodes
               PROVE  IF row'[m].st = "absent" THEN row'[m].tok = 0 /\ row'[m].hb = 0
                      ELSE /\ row'[m].tok \in DOMAIN tokens'
                           /\ tokens'[row'[m].tok].n = m /\ tokens'[row'[m].tok].type = TypeOf(m)
    BY DEF RowsNamed, TypeOf
  <2>1. CASE m = n
    BY <2>1, <1>3, <1>6, <1>7, <1>8
  <2>2. CASE m # n
    BY <2>2, <1>7, <1>8, <1>10 DEF TablesOK, RowsNamed
  <2> QED BY <2>1, <2>2
<1>12. OneLiveToken'
  <2> SUFFICES ASSUME NEW i \in DOMAIN tokens, tokens'[i].live, tokens'[i].n # None
               PROVE  row'[tokens'[i].n].st # "absent" /\ row'[tokens'[i].n].tok = i
    BY <1>7 DEF OneLiveToken
  <2>1. CASE i = t
    BY <2>1, <1>3, <1>6, <1>7, <1>8
  <2>2. CASE i # t
    <3>1. tokens'[i] = tokens[i]
      BY <2>2, <1>7
    <3>2. tokens[i].n \in Nodes
      BY <3>1, NoToken0 DEF TablesOK, Token
    <3>3. row[tokens[i].n].st # "absent" /\ row[tokens[i].n].tok = i
      BY <3>1 DEF TablesOK, OneLiveToken
    <3> QED BY <3>1, <3>2, <3>3, <1>5, <1>8
  <2> QED BY <2>1, <2>2
<1>13. HeardFromHolder'
  <2> SUFFICES ASSUME NEW m \in Nodes, row'[m].hb # 0
               PROVE  row'[m].hb = row'[m].tok /\ row'[m].tok # 0 /\ tokens'[row'[m].tok].live
    BY DEF HeardFromHolder, Live
  <2>1. m # n /\ row'[m] = row[m]
    BY <1>6, <1>8
  <2>2. row[m].hb = row[m].tok /\ Live(row[m].tok) /\ row[m].st # "absent"
    BY <2>1 DEF TablesOK, HeardFromHolder, RowsNamed
  <2>3. tokens'[row[m].tok] = tokens[row[m].tok]
    BY <2>1, <2>2, <1>7, <1>10
  <2> QED BY <2>1, <2>2, <2>3 DEF Live
<1> QED BY <1>3, <1>7, <1>9, <1>11, <1>12, <1>13 DEF TablesOK

(* What a handler in flight relies on survives the others' writes. *)
LEMMA InFlightKept ==
  ASSUME Grown
  PROVE  /\ ReqOK /\ UNCHANGED req => ReqOK'
         /\ AdmOK /\ UNCHANGED adm => AdmOK'
         /\ CallOK /\ UNCHANGED call => CallOK'
<1>1. ReqOK /\ UNCHANGED req => ReqOK'
  BY DEF Grown, ReqOK, TypeOf
<1>2. AdmOK /\ UNCHANGED adm => AdmOK'
  BY DEF Grown, AdmOK, TypeOf
<1>3. CallOK /\ UNCHANGED call => CallOK'
  BY DEF Grown, CallOK
<1> QED BY <1>1, <1>2, <1>3

LEMMA IdleOK ==
  /\ req' = Idle => ReqOK'
  /\ adm' = Idle => AdmOK' /\ Fenced'
  /\ call' = Idle => CallOK'
BY DEF Idle, ReqOK, Registration, AdmOK, CallOK, Fenced

(* No job becomes active while a handler is in flight. *)
LEMMA FenceKept ==
  ASSUME Fenced, Settling, UNCHANGED adm
  PROVE  Fenced'
BY DEF Fenced, Settling, ActiveJobs

-----------------------------------------------------------------------------
(* The handlers. *)

(* The registration goes on with the token it has. *)
LEMMA ReqMoves ==
  ASSUME ReqOK, Grown, req.op # "idle", NEW o \in {"persist", "issue", "revoke", "undo", "delete"},
         req' = [req EXCEPT !.op = o]
  PROVE  ReqOK'
<1>1. req' \in Registration /\ req'.n = req.n /\ req'.t = req.t /\ req'.op = o
  BY DEF ReqOK, Registration
<1> QED BY <1>1 DEF ReqOK, Grown, TypeOf

LEMMA CreateServiceTokenOK ==
  ASSUME RegInv, NEW n \in Nodes, NEW op \in {"api", "precreate"}, CreateServiceToken(n, op)
  PROVE  RegInv'
<1> DEFINE e == NewToken(TypeOf(n), None, FALSE)
<1>1. e \in Token /\ e.n = None /\ e.type = TypeOf(n)
  BY DEF NewToken, Token, TypeOf
<1>2. /\ tokens' = Append(tokens, e) /\ UNCHANGED <<row, pol, adm, call>>
      /\ req' = [op |-> op, n |-> n, t |-> Len(tokens) + 1]
  BY DEF CreateServiceToken
<1> HIDE DEF e
<1>3. /\ TablesOK' /\ Grown
      /\ Len(tokens) + 1 \in DOMAIN tokens' /\ tokens'[Len(tokens) + 1] = e
  BY <1>1, <1>2, TokenCreated DEF RegInv
<1>4. ReqOK'
  <2>1. req' \in Registration /\ req'.n = n /\ req'.t = Len(tokens) + 1
    BY <1>2 DEF Registration, RegInv, TablesOK, TypeOK
  <2> QED BY <2>1, <1>1, <1>3 DEF ReqOK, TypeOf
<1>5. AdmOK' /\ CallOK'
  BY <1>2, <1>3, InFlightKept DEF RegInv
<1> QED BY <1>3, <1>4, <1>5 DEF RegInv

(* The precreation within a registration. *)
LEMMA BoundOK ==
  ASSUME RegInv, req.op \in {"api", "precreate"}, NEW handed \in BOOLEAN,
         PrecreateService(req.n, req.t, handed), UNCHANGED <<pol, adm, call>>,
         req' = Idle \/ req' = [req EXCEPT !.op = "persist"]
  PROVE  RegInv'
<1>1. /\ req.n \in Nodes /\ req.t \in DOMAIN tokens /\ tokens[req.t].n = None
      /\ tokens[req.t].type = TypeOf(req.n)
  BY DEF RegInv, ReqOK
<1>2. /\ TablesOK' /\ DOMAIN tokens' = DOMAIN tokens
      /\ tokens'[req.t].type = tokens[req.t].type
      /\ \A i \in DOMAIN tokens : i # req.t => tokens'[i] = tokens[i]
  BY <1>1, PrecreateOK DEF RegInv
<1>3. ReqOK'
  <2>1. CASE req' = Idle
    BY <2>1, IdleOK
  <2>2. CASE req' = [req EXCEPT !.op = "persist"]
    <3>1. req' \in Registration /\ req'.n = req.n /\ req'.t = req.t /\ req'.op = "persist"
      BY <2>2 DEF RegInv, ReqOK, Registration
    <3> QED BY <3>1, <1>1, <1>2 DEF ReqOK, TypeOf
  <2> QED BY <2>1, <2>2
<1>4. AdmOK'
  <2>1. adm.op # "idle" /\ adm.op # "rotatenode" /\ adm.n # None => adm.t # req.t
    BY <1>1 DEF RegInv, AdmOK
  <2> QED BY <2>1, <1>2 DEF RegInv, AdmOK, TypeOf
<1>5. CallOK'
  BY <1>2 DEF RegInv, CallOK
<1> QED BY <1>2, <1>3, <1>4, <1>5 DEF RegInv

(* A step of a registration that leaves tables as they are. *)
LEMMA ReqOnly ==
  ASSUME RegInv, req.op # "idle", UNCHANGED <<row, tokens, pol, adm, call>>,
         NEW o \in {"persist", "issue", "revoke", "undo", "delete"}, req' = [req EXCEPT !.op = o]
  PROVE  RegInv'
<1>1. TablesOK' /\ Grown
  BY TablesUnchanged DEF RegInv
<1> QED BY <1>1, InFlightKept, ReqMoves DEF RegInv

LEMMA CreateApiTokenOK ==
  ASSUME RegInv, CreateApiToken
  PROVE  RegInv'
<1>1. CASE PrecreateService(req.n, req.t, TRUE) /\ req' = Idle
  BY <1>1, BoundOK DEF CreateApiToken
<1>2. CASE req' = [req EXCEPT !.op = "revoke"] /\ UNCHANGED <<row, tokens>>
  <2>1. UNCHANGED <<row, tokens, pol, adm, call>> /\ req.op # "idle"
    BY <1>2 DEF CreateApiToken
  <2> QED BY <2>1, <1>2, ReqOnly
<1> QED BY <1>1, <1>2 DEF CreateApiToken

(* A column of an existing row is set. *)
LEMMA ColumnSet ==
  ASSUME TablesOK, NEW n \in Nodes, row[n].st # "absent", SameTokens, UNCHANGED pol,
         \/ \E t \in Nat : row' = [row EXCEPT ![n].sealed = t]
         \/ \E c \in {"none", "live"} : row' = [row EXCEPT ![n].ct = c]
  PROVE  TablesOK' /\ Grown
<1>1. row[n] \in Row
  BY DEF TablesOK, TypeOK
<1>2. ASSUME NEW t \in Nat, row' = [row EXCEPT ![n].sealed = t]
      PROVE  TablesOK' /\ Grown
  <2> DEFINE r == [row[n] EXCEPT !.sealed = t]
  <2>1. r \in Row /\ r.st = row[n].st /\ r.tok = row[n].tok /\ r.hb = row[n].hb
    BY <1>1 DEF Row
  <2>2. row' = [row EXCEPT ![n] = r]
    BY <1>2
  <2> HIDE DEF r
  <2> QED BY <2>1, <2>2, RowWritten
<1>3. ASSUME NEW c \in {"none", "live"}, row' = [row EXCEPT ![n].ct = c]
      PROVE  TablesOK' /\ Grown
  <2> DEFINE r == [row[n] EXCEPT !.ct = c]
  <2>1. r \in Row /\ r.st = row[n].st /\ r.tok = row[n].tok /\ r.hb = row[n].hb
    BY <1>1 DEF Row
  <2>2. row' = [row EXCEPT ![n] = r]
    BY <1>3
  <2> HIDE DEF r
  <2> QED BY <2>1, <2>2, RowWritten
<1> QED BY <1>2, <1>3

LEMMA CreateNodeRegistrationTokenOK ==
  ASSUME RegInv, CreateNodeRegistrationToken
  PROVE  RegInv'
<1>1. UNCHANGED <<pol, adm, call>>
  BY DEF CreateNodeRegistrationToken
<1>2. CASE req.op = "precreate" /\ PrecreateService(req.n, req.t, FALSE)
           /\ req' = [req EXCEPT !.op = "persist"]
  BY <1>1, <1>2, BoundOK
<1>3. ASSUME NEW o \in {"revoke", "undo"}, req.op # "idle", req' = [req EXCEPT !.op = o],
             UNCHANGED <<row, tokens>>
      PROVE  RegInv'
  BY <1>1, <1>3, ReqOnly
<1>4. CASE req.op = "persist" /\ UNCHANGED tokens /\ SetServiceNodeTokenSecret(req.n, req.t)
           /\ req' = [req EXCEPT !.op = "issue"]
  <2>1. req.n \in Nodes /\ req.t \in Nat /\ row[req.n].st # "absent"
        /\ row' = [row EXCEPT ![req.n].sealed = req.t]
    BY <1>4 DEF RegInv, ReqOK, Registration, SetServiceNodeTokenSecret
  <2>2. SameTokens
    BY <1>4, TokensUnchanged DEF RegInv, TablesOK
  <2>3. TablesOK' /\ Grown
    BY <1>1, <2>1, <2>2, ColumnSet DEF RegInv
  <2> QED BY <1>1, <1>4, <2>3, InFlightKept, ReqMoves DEF RegInv
<1>5. CASE req.op = "issue" /\ SetServiceConfigureToken(req.n) /\ req' = Idle
           /\ tokens' = [tokens EXCEPT ![req.t].handed = TRUE]
  <2>1. req.n \in Nodes /\ req.t \in DOMAIN tokens /\ row[req.n].st # "absent"
        /\ row' = [row EXCEPT ![req.n].ct = "live"]
    BY <1>5 DEF RegInv, ReqOK, Registration, SetServiceConfigureToken
  <2>2. SameTokens
    BY <1>5, <2>1, TokenHanded DEF RegInv, TablesOK, HandOut
  <2>3. TablesOK' /\ Grown
    BY <1>1, <2>1, <2>2, ColumnSet DEF RegInv
  <2> QED BY <1>1, <1>5, <2>3, InFlightKept, IdleOK DEF RegInv
<1> QED BY <1>2, <1>3, <1>4, <1>5 DEF CreateNodeRegistrationToken

LEMMA CompensateOK ==
  ASSUME RegInv, Compensate
  PROVE  RegInv'
<1>1. UNCHANGED <<pol, adm, call>> /\ req.op \in {"revoke", "undo", "delete"}
  BY DEF Compensate
<1>2. req.n \in Nodes /\ req.t \in DOMAIN tokens
  BY <1>1 DEF RegInv, ReqOK
<1>3. TablesOK' /\ Grown
  <2>1. CASE UNCHANGED <<row, tokens>>
    BY <1>1, <2>1, TablesUnchanged DEF RegInv
  <2>2. CASE RevokeServiceToken(req.t)
    BY <1>1, <1>2, <2>2, RevokeOK DEF RegInv
  <2>3. CASE DeleteService(req.n)
    BY <1>1, <1>2, <2>3, DeleteOK DEF RegInv
  <2> QED BY <2>1, <2>2, <2>3 DEF Compensate
<1>4. ReqOK'
  <2>1. CASE req' = Idle
    BY <2>1, IdleOK
  <2>2. CASE req' = [req EXCEPT !.op = "delete"]
    BY <1>1, <1>3, <2>2, ReqMoves DEF RegInv
  <2> QED BY <2>1, <2>2 DEF Compensate
<1> QED BY <1>1, <1>3, <1>4, InFlightKept DEF RegInv

(* A token handler that has made its checks: if it saw a row, no job of that *)
(* updater is active.                                                        *)
LEMMA HandlerStarts ==
  ASSUME IInv, NEW t \in DOMAIN tokens, RevokeServiceTokenHandler(t) \/ RotateServiceTokenHandler(t)
  PROVE  IInv'
<1>1. /\ TokenHandlerChecks(t) /\ UNCHANGED <<row, tokens, pol, req, call>>
      /\ adm'.t = t /\ adm'.n = tokens[t].n /\ adm'.op \in {"revoke", "rotate"}
  BY DEF RevokeServiceTokenHandler, RotateServiceTokenHandler
<1>2. BootInv'
  BY <1>1, TouchOK, UntouchedOK DEF TokenHandlerChecks, Asked, IInv
<1>3. TablesOK' /\ Grown
  BY <1>1, TablesUnchanged DEF IInv, RegInv
<1>4. ASSUME tokens[t].n # None
      PROVE  /\ tokens[t].n \in Nodes /\ tokens[t].type = TypeOf(tokens[t].n)
             /\ row[tokens[t].n].tok = t
  <2>1. tokens[t].n \in Nodes
    BY <1>4, NoToken0 DEF IInv, RegInv, TablesOK, Token
  <2>2. row[tokens[t].n].st # "absent" /\ row[tokens[t].n].tok = t
    BY <1>1, <1>4 DEF IInv, RegInv, TablesOK, OneLiveToken, TokenHandlerChecks, Live
  <2> QED BY <2>1, <2>2 DEF IInv, RegInv, TablesOK, RowsNamed
<1>5. AdmOK'
  BY <1>1, <1>4 DEF AdmOK, TypeOf
<1>6. Fenced'
  <2> SUFFICES ASSUME tokens[t].n \in Updaters PROVE ActiveJobs(boot', tokens[t].n) = {}
    BY <1>1 DEF Fenced, ActiveJobs
  <2>1. tokens[t].n \in Nodes /\ tokens[t].n # None
    BY BootstrapAssumption
  <2>2. ~RejectDuringBootstrap(tokens[t].n)
    BY <1>1, <1>4, <2>1 DEF TokenHandlerChecks
  <2>3. boot' = ExpireLocked(boot)
    BY <1>1 DEF TokenHandlerChecks, Asked, Touch
  <2> QED BY <2>2, <2>3 DEF RejectDuringBootstrap, HasActiveJob
<1>7. ReqOK' /\ CallOK'
  BY <1>1, <1>3, InFlightKept DEF IInv, RegInv
<1> QED BY <1>2, <1>3, <1>5, <1>6, <1>7 DEF IInv, RegInv

LEMMA RotateNodeStarts ==
  ASSUME IInv, NEW n \in Nodes, RotateNodeRuntimeToken(n)
  PROVE  IInv'
<1>1. /\ UNCHANGED <<row, tokens, pol, req, call>> /\ UNCHANGED bootVars
      /\ row[n].st # "absent" /\ n \notin Updaters
      /\ adm'.op = "rotatenode" /\ adm'.n = n /\ adm'.t = row[n].tok
  BY DEF RotateNodeRuntimeToken
<1>2. BootInv'
  BY <1>1, UntouchedOK DEF IInv
<1>3. TablesOK' /\ Grown
  BY <1>1, TablesUnchanged DEF IInv, RegInv
<1>4. AdmOK'
  <2>1. row[n].tok \in DOMAIN tokens
    BY <1>1 DEF IInv, RegInv, TablesOK, RowsNamed
  <2> QED BY <1>1, <2>1 DEF AdmOK
<1>5. Fenced'
  BY <1>1 DEF Fenced
<1>6. ReqOK' /\ CallOK'
  BY <1>1, <1>3, InFlightKept DEF IInv, RegInv
<1> QED BY <1>2, <1>3, <1>4, <1>5, <1>6 DEF IInv, RegInv

LEMMA HandlerWritesOK ==
  ASSUME IInv, TokenHandlerWrites
  PROVE  IInv'
<1>1. adm' = Idle /\ UNCHANGED <<pol, req, call>> /\ UNCHANGED bootVars
      /\ adm.op \in {"revoke", "rotate", "rotatenode"}
  BY DEF TokenHandlerWrites
<1>2. adm.t \in DOMAIN tokens /\ (adm.op = "rotatenode" => adm.n \in Nodes)
  BY <1>1 DEF IInv, RegInv, AdmOK
<1>3. TablesOK' /\ Grown
  <2>1. CASE adm.op = "revoke" /\ RevokeServiceToken(adm.t)
    BY <1>1, <1>2, <2>1, RevokeOK DEF IInv, RegInv
  <2>2. CASE adm.op = "rotate" /\ RotateServiceToken(adm.t)
    BY <1>1, <1>2, <2>2, RotateOK DEF IInv, RegInv
  <2>3. CASE adm.op = "rotatenode" /\ RotateServiceNodeToken(adm.n, adm.t)
    BY <1>1, <1>2, <2>3, RotateNodeOK DEF IInv, RegInv
  <2> QED BY <2>1, <2>2, <2>3 DEF TokenHandlerWrites
<1>4. BootInv'
  BY <1>1, UntouchedOK DEF IInv
<1>5. AdmOK' /\ Fenced'
  BY <1>1, IdleOK
<1>6. ReqOK' /\ CallOK'
  BY <1>1, <1>3, InFlightKept DEF IInv, RegInv
<1> QED BY <1>3, <1>4, <1>5, <1>6 DEF IInv, RegInv

(* An action that leaves the handlers in flight alone. *)
LEMMA TablesOnly ==
  ASSUME IInv, TablesOK', Grown, UNCHANGED <<req, adm, call>>, BootInv', Settling
  PROVE  IInv'
<1>1. ReqOK' /\ AdmOK' /\ CallOK'
  BY InFlightKept DEF IInv, RegInv
<1>2. Fenced'
  BY FenceKept DEF IInv
<1> QED BY <1>1, <1>2 DEF IInv, RegInv

LEMMA AskedOK ==
  ASSUME BootInv, NEW n, Asked(n)
  PROVE  BootInv' /\ Settling
BY TouchOK, UntouchedOK DEF Asked

LEMMA ConfigureTokenSetOK ==
  ASSUME IInv, NEW n \in Nodes, RegenerateNodeConfigureToken(n) \/ ConfigureTokenExpires(n)
  PROVE  IInv'
<1>1. UNCHANGED <<tokens, pol, req, adm, call>>
  BY DEF RegenerateNodeConfigureToken, ConfigureTokenExpires
<1>2. BootInv' /\ Settling
  BY AskedOK, UntouchedOK DEF RegenerateNodeConfigureToken, ConfigureTokenExpires, IInv
<1>3. PICK c \in {"none", "live"} : row' = [row EXCEPT ![n].ct = c]
  BY DEF RegenerateNodeConfigureToken, ConfigureTokenExpires, SetServiceConfigureToken
<1> DEFINE r == [row[n] EXCEPT !.ct = c]
<1>4. row[n] \in Row
  BY DEF IInv, RegInv, TablesOK, TypeOK
<1>5. r \in Row /\ r.st = row[n].st /\ r.tok = row[n].tok /\ r.hb = row[n].hb
  BY <1>4 DEF Row
<1>6. row' = [row EXCEPT ![n] = r]
  BY <1>3
<1> HIDE DEF r
<1>7. SameTokens
  BY <1>1, TokensUnchanged DEF IInv, RegInv, TablesOK
<1>8. TablesOK' /\ Grown
  BY <1>1, <1>5, <1>6, <1>7, RowWritten DEF IInv, RegInv
<1> QED BY <1>1, <1>2, <1>8, TablesOnly

LEMMA DeleteHandlerOK ==
  ASSUME IInv, NEW n \in Nodes, DeleteServiceHandler(n)
  PROVE  IInv'
<1>1. UNCHANGED <<pol, req, adm, call>> /\ DeleteService(n) /\ Asked(n)
  BY DEF DeleteServiceHandler
<1>2. TablesOK' /\ Grown
  BY <1>1, DeleteOK DEF IInv, RegInv
<1>3. BootInv' /\ Settling
  BY <1>1, AskedOK DEF IInv
<1> QED BY <1>1, <1>2, <1>3, TablesOnly

LEMMA PolicyOK ==
  ASSUME IInv, NEW u \in Updaters, UpdateUpdaterPolicy(u)
  PROVE  IInv'
<1>1. UNCHANGED <<row, tokens, req, adm, call>> /\ Touch /\ pol' = [pol EXCEPT ![u] = @ + 1]
  BY DEF UpdateUpdaterPolicy
<1>2. pol' \in [Updaters -> Nat]
  BY <1>1 DEF IInv, RegInv, TablesOK, TypeOK
<1>3. TablesOK' /\ Grown
  BY <1>1, <1>2 DEF IInv, RegInv, TablesOK, TypeOK, RowsNamed, OneLiveToken, HeardFromHolder, Live, Grown
<1>4. BootInv' /\ Settling
  BY <1>1, TouchOK DEF IInv
<1> QED BY <1>1, <1>3, <1>4, TablesOnly

LEMMA ConfigureNodeOK ==
  ASSUME IInv, NEW n \in Nodes, ConfigureServiceNode(n)
  PROVE  IInv'
<1>1. TablesOK' /\ Grown
  BY ConfigureOK DEF IInv, RegInv
<1>2. UNCHANGED <<req, adm, call>> /\ UNCHANGED bootVars
  BY DEF ConfigureServiceNode
<1>3. BootInv' /\ Settling
  BY <1>2, UntouchedOK DEF IInv
<1> QED BY <1>1, <1>2, <1>3, TablesOnly

LEMMA AuthenticateOK ==
  ASSUME IInv, NEW t \in DOMAIN tokens, AuthenticateServiceToken(t)
  PROVE  IInv'
<1>1. /\ UNCHANGED <<row, tokens, pol, req, adm>> /\ UNCHANGED bootVars
      /\ call'.n = tokens[t].n /\ call'.t = t /\ tokens[t].n # None
  BY DEF AuthenticateServiceToken
<1>2. TablesOK' /\ Grown
  BY <1>1, TablesUnchanged DEF IInv, RegInv
<1>3. CallOK'
  <2>1. tokens[t].n \in Nodes
    BY <1>1, NoToken0 DEF IInv, RegInv, TablesOK, Token
  <2> QED BY <1>1, <2>1 DEF CallOK
<1>4. BootInv' /\ Fenced'
  BY <1>1, UntouchedOK, FenceKept DEF IInv
<1> QED BY <1>1, <1>2, <1>3, <1>4, InFlightKept DEF IInv, RegInv

(* A node's report is written only into a row that names a live token. *)
LEMMA HeartbeatOK ==
  ASSUME TablesOK, NEW n \in Nodes, NEW t, NEW key \in Keys \cup {None}, NEW applied \in Nat,
         Heartbeat(n, t, key, applied), UNCHANGED <<tokens, pol>>
  PROVE  TablesOK' /\ Grown
<1> DEFINE r == [row[n] EXCEPT !.st = "registered", !.hb = t, !.key = key, !.applied = applied]
<1>1. row' = [row EXCEPT ![n] = r] /\ n \in References(t) /\ Live(t)
  BY DEF Heartbeat, CanHeartbeat
<1>2. t \in DOMAIN tokens /\ row[n].st # "absent" /\ row[n].tok = t
  BY <1>1, ReferenceIsBound
<1>3. row[n] \in Row /\ t \in Nat
  BY <1>2, NoToken0 DEF TablesOK, TypeOK
<1>4. r \in Row /\ r.st = "registered" /\ r.tok = t /\ r.hb = t
  BY <1>2, <1>3 DEF Row
<1> HIDE DEF r
<1>5. SameTokens
  BY TokensUnchanged DEF TablesOK
<1> QED BY <1>1, <1>2, <1>4, <1>5, RowWritten

LEMMA RegisterOK ==
  ASSUME TablesOK, NEW n \in Nodes, NEW t, RegisterService(n, t), UNCHANGED <<tokens, pol>>
  PROVE  TablesOK' /\ Grown
<1> DEFINE r == [row[n] EXCEPT !.st = "registered"]
<1>1. row' = [row EXCEPT ![n] = r] /\ n \in References(t)
  BY DEF RegisterService, CanRegister
<1>2. row[n].st # "absent" /\ row[n] \in Row
  BY <1>1, ReferenceIsBound DEF TablesOK, TypeOK
<1>3. r \in Row /\ r.st = "registered" /\ r.tok = row[n].tok /\ r.hb = row[n].hb
  BY <1>2 DEF Row
<1> HIDE DEF r
<1>4. SameTokens
  BY TokensUnchanged DEF TablesOK
<1> QED BY <1>1, <1>2, <1>3, <1>4, RowWritten

LEMMA ServiceCallOK ==
  ASSUME IInv, ServiceCallWrites
  PROVE  IInv'
<1>1. /\ call' = Idle /\ call.op # "idle" /\ UNCHANGED <<tokens, pol, req, adm>> /\ UNCHANGED bootVars
      /\ \/ RegisterService(call.n, call.t)
         \/ Heartbeat(call.n, call.t, None, 0)
         \/ UNCHANGED row
  BY DEF ServiceCallWrites
<1>2. call.n \in Nodes
  BY <1>1 DEF IInv, RegInv, CallOK
<1>3. TablesOK' /\ Grown
  <2>1. CASE UNCHANGED row
    BY <1>1, <2>1, TablesUnchanged DEF IInv, RegInv
  <2>2. CASE RegisterService(call.n, call.t)
    BY <1>1, <1>2, <2>2, RegisterOK DEF IInv, RegInv
  <2>3. CASE Heartbeat(call.n, call.t, None, 0)
    BY <1>1, <1>2, <2>3, HeartbeatOK DEF IInv, RegInv
  <2> QED BY <1>1, <2>1, <2>2, <2>3
<1>4. BootInv' /\ Fenced'
  BY <1>1, UntouchedOK, FenceKept DEF IInv
<1> QED BY <1>1, <1>3, <1>4, InFlightKept, IdleOK DEF IInv, RegInv

LEMMA UpdaterHeartbeatOK ==
  ASSUME IInv, NEW u \in Updaters, NEW k \in Keys, PersistServiceHeartbeat(u, k, pol[u])
  PROVE  IInv'
<1>1. /\ UNCHANGED <<tokens, pol, req, adm, call>> /\ UNCHANGED bootVars
      /\ Heartbeat(u, row[u].tok, k, pol[u])
  BY DEF PersistServiceHeartbeat
<1>2. u \in Nodes /\ pol[u] \in Nat
  BY BootstrapAssumption DEF IInv, RegInv, TablesOK, TypeOK
<1>3. TablesOK' /\ Grown
  BY <1>1, <1>2, HeartbeatOK DEF IInv, RegInv
<1>4. BootInv' /\ Settling
  BY <1>1, UntouchedOK DEF IInv
<1> QED BY <1>1, <1>3, <1>4, TablesOnly

LEMMA RestartOK ==
  ASSUME IInv, PanelRestart
  PROVE  IInv'
<1>1. TablesOK'
  BY TablesUnchanged DEF PanelRestart, IInv, RegInv
<1>2. BootInv'
  BY ForgetOK DEF PanelRestart, IInv
<1> QED BY <1>1, <1>2, IdleOK DEF PanelRestart, IInv, RegInv

(* A bootstrap handler changes the broker only; none is created while a token *)
(* handler about an updater is in flight.                                     *)
LEMMA BootstrapOK ==
  ASSUME IInv, BootstrapNext
  PROVE  IInv'
<1>1. UNCHANGED regVars
  BY DEF BootstrapNext, CreateUpdateHostBootstrapJob, ServiceUpdateHostBootstrapClaim,
         ServiceUpdateHostBootstrapAccept, ServiceUpdateHostBootstrapReport, ListUpdateHostBootstrapJobs
<1>2. TablesOK' /\ Grown /\ UNCHANGED <<req, adm, call>>
  BY <1>1, TablesUnchanged DEF regVars, IInv, RegInv
<1>3. ASSUME NEW u \in Updaters, NEW hs \in SUBSET Hosts \ {{}}, CreateUpdateHostBootstrapJob(u, hs)
      PROVE  IInv'
  <2>1. row[u] \in Row /\ pol[u] \in Nat
    BY BootstrapAssumption DEF IInv, RegInv, TablesOK, TypeOK
  <2>2. row[u].key \in Keys /\ Create(u, pol[u], row[u].key, hs) /\ ~MutexHeld
    BY <1>3, <2>1 DEF CreateUpdateHostBootstrapJob, BootstrapReady, Row
  <2>3. BootInv'
    BY <2>1, <2>2, CreateOK DEF IInv
  <2>4. Fenced'
    <3> SUFFICES ASSUME adm.op \in {"revoke", "rotate"}, adm.n \in Updaters PROVE FALSE
      BY <1>2 DEF Fenced
    <3>1. adm.n # None /\ adm.op # "idle" /\ adm.op # "rotatenode"
      BY BootstrapAssumption
    <3>2. tokens[adm.t].type = "update_agent"
      BY <3>1 DEF IInv, RegInv, AdmOK, TypeOf
    <3> QED BY <2>2, <3>1, <3>2 DEF MutexHeld
  <2> QED BY <1>2, <2>3, <2>4, InFlightKept DEF IInv, RegInv
<1>4. ASSUME BootInv' /\ Settling
      PROVE  IInv'
  BY <1>2, <1>4, TablesOnly
<1>5. ASSUME NEW j \in DOMAIN boot, NEW k \in Keys, ServiceUpdateHostBootstrapClaim(j, k)
      PROVE  IInv'
  BY <1>4, <1>5, ClaimOK, EndedClaimOK DEF ServiceUpdateHostBootstrapClaim, IInv
<1>6. ASSUME NEW j \in DOMAIN boot, NEW l \in 1..MaxLeases, ServiceUpdateHostBootstrapAccept(j, l)
      PROVE  IInv'
  BY <1>4, <1>6, AcceptOK DEF ServiceUpdateHostBootstrapAccept, IInv
<1>7. ASSUME NEW j \in DOMAIN boot, NEW l \in 1..MaxLeases, NEW h \in Hosts, NEW s \in Stages,
             ServiceUpdateHostBootstrapReport(j, l, h, s)
      PROVE  IInv'
  BY <1>4, <1>7, ReportOK DEF ServiceUpdateHostBootstrapReport, IInv
<1>8. CASE ListUpdateHostBootstrapJobs
  BY <1>4, <1>8, TouchOK DEF ListUpdateHostBootstrapJobs, IInv
<1>9. ASSUME NEW j \in DOMAIN boot, Prune(j) \/ DeadlinePasses(j)
      PROVE  IInv'
  BY <1>4, <1>9, PruneOK, DeadlineOK DEF IInv
<1> QED BY <1>3, <1>5, <1>6, <1>7, <1>8, <1>9 DEF BootstrapNext

-----------------------------------------------------------------------------
(* The invariant of the specification. *)

LEMMA InitOK ==
  ASSUME Init
  PROVE  IInv
<1>1. Absent \in Row /\ Absent.st = "absent" /\ Absent.tok = 0 /\ Absent.hb = 0
  BY DEF Absent, Row
<1>2. tokens = <<>> /\ tokens \in Seq(Token) /\ DOMAIN tokens = {}
  BY DEF Init
<1>3. boot \in Seq(Job) /\ DOMAIN boot = {} /\ accepted = {}
  BY DEF Init
<1>4. TablesOK
  BY <1>1, <1>2 DEF Init, TablesOK, TypeOK, RowsNamed, OneLiveToken, HeardFromHolder
<1>5. ReqOK /\ AdmOK /\ CallOK /\ Fenced
  BY DEF Init, Idle, ReqOK, Registration, AdmOK, CallOK, Fenced
<1>6. BootInv
  BY <1>3 DEF BootInv
<1> QED BY <1>4, <1>5, <1>6 DEF IInv, RegInv

LEMMA RegistrationOK ==
  ASSUME IInv,
         \/ \E n \in Nodes, op \in {"api", "precreate"} : CreateServiceToken(n, op)
         \/ CreateApiToken \/ CreateNodeRegistrationToken \/ Compensate
  PROVE  IInv'
<1>1. RegInv'
  BY CreateServiceTokenOK, CreateApiTokenOK, CreateNodeRegistrationTokenOK, CompensateOK DEF IInv
<1>2. UNCHANGED bootVars /\ UNCHANGED adm
  BY DEF CreateServiceToken, CreateApiToken, CreateNodeRegistrationToken, Compensate
<1>3. BootInv' /\ Settling
  BY <1>2, UntouchedOK DEF IInv
<1>4. Fenced'
  BY <1>2, <1>3, FenceKept DEF IInv
<1> QED BY <1>1, <1>3, <1>4 DEF IInv

LEMMA NextOK ==
  ASSUME IInv, [Next]_vars
  PROVE  IInv'
<1>1. CASE UNCHANGED vars
  <2>1. UNCHANGED <<req, adm, call>> /\ UNCHANGED <<row, tokens, pol>> /\ UNCHANGED bootVars
    BY <1>1 DEF vars, bootVars
  <2>2. TablesOK' /\ Grown
    BY <2>1, TablesUnchanged DEF IInv, RegInv
  <2>3. BootInv' /\ Settling
    BY <2>1, UntouchedOK DEF IInv
  <2> QED BY <2>1, <2>2, <2>3, TablesOnly
<1>2. CASE BootstrapNext
  BY <1>2, BootstrapOK
<1>3. CASE RegistryNext
  BY <1>3, RegistrationOK, HandlerStarts, RotateNodeStarts, HandlerWritesOK, ConfigureTokenSetOK,
     DeleteHandlerOK, PolicyOK, ConfigureNodeOK, AuthenticateOK, ServiceCallOK, UpdaterHeartbeatOK,
     RestartOK DEF RegistryNext
<1> QED BY <1>1, <1>2, <1>3 DEF Next

(* The invariant holds in every state of every behaviour. *)
THEOREM RegistryInvariant == Spec => []IInv
BY InitOK, NextOK, PTL DEF Spec

(* A live token that was ever bound to a node is the one the node's row      *)
(* names, however registration, compensation, rotation, configuration and    *)
(* deletion interleave.                                                      *)
THEOREM TokenIsUnique == Spec => []OneLiveToken
<1>1. IInv => OneLiveToken
  BY DEF IInv, RegInv, TablesOK
<1> QED BY <1>1, RegistryInvariant, PTL

(* A node counts as heard from only while its row names the live token with  *)
(* which it reported.                                                        *)
THEOREM HeardOnlyFromHolder == Spec => []HeardFromHolder
<1>1. IInv => HeardFromHolder
  BY DEF IInv, RegInv, TablesOK
<1> QED BY <1>1, RegistryInvariant, PTL

(* A set whose elements are all equal has at most one. *)
LEMMA AllEqual ==
  ASSUME NEW S, \A x, y \in S : x = y
  PROVE  Cardinality(S) <= 1
<1>1. CASE S = {}
  BY <1>1, FS_EmptySet
<1>2. CASE S # {}
  <2>1. PICK x : S = {x}
    BY <1>2
  <2> QED BY <2>1, FS_Singleton
<1> QED BY <1>1, <1>2

(* Of all the leases issued for a bootstrap job at most one is ever          *)
(* accepted, and the envelope is gone once one is.                           *)
THEOREM BootstrapperIsUnique == Spec => []OneBootstrapper
<1>1. ASSUME IInv
      PROVE  OneBootstrapper
  <2> SUFFICES ASSUME NEW j \in DOMAIN boot
               PROVE  /\ Cardinality({l \in 1..MaxLeases : <<j, l>> \in accepted}) <= 1
                      /\ boot[j].env => boot[j].status \in {"queued", "claimed"}
    BY DEF OneBootstrapper
  <2>1. \A l, m \in {l \in 1..MaxLeases : <<j, l>> \in accepted} : l = m
    BY <1>1 DEF IInv, BootInv
  <2>2. boot[j].env => boot[j].status \in {"queued", "claimed"}
    BY <1>1 DEF IInv, BootInv, JobOK, Waiting
  <2> QED BY <2>1, <2>2, AllEqual
<1> QED BY <1>1, RegistryInvariant, PTL

-----------------------------------------------------------------------------
(* The identity of an updater that is setting up hosts. *)

\* What a step may do to the row of an updater.
Kept(u) == row[u].st # "absent" /\ row'[u].st # "absent" => row'[u].tok = row[u].tok

LEMMA RevokeKeeps ==
  ASSUME TablesOK, NEW t, RevokeServiceToken(t), NEW u \in Nodes
  PROVE  Kept(u)
<1>1. row[u] \in Row
  BY DEF TablesOK, TypeOK
<1>2. u \in References(t) => row[u].tok = t /\ Repointed(row[u], t).tok = t
  BY <1>1 DEF References, Repointed, Row
<1>3. row'[u] = row[u] \/ (u \in References(t) /\ row'[u] = Repointed(row[u], t))
  BY DEF RevokeServiceToken
<1> QED BY <1>2, <1>3 DEF Kept

LEMMA DeleteKeeps ==
  ASSUME TablesOK, NEW n \in Nodes, DeleteService(n), NEW u \in Nodes
  PROVE  Kept(u)
<1>1. row'[u] = row[u] \/ row'[u] = Absent
  BY DEF DeleteService, TablesOK, TypeOK
<1> QED BY <1>1 DEF Kept, Absent

LEMMA PrecreateKeeps ==
  ASSUME TablesOK, NEW n \in Nodes, NEW t, NEW handed, PrecreateService(n, t, handed), NEW u \in Nodes
  PROVE  Kept(u)
BY DEF PrecreateService, CanPrecreate, TablesOK, TypeOK, Kept

(* A row's other columns are written. *)
LEMMA ColumnsKeep ==
  ASSUME TablesOK, NEW n \in Nodes, NEW u \in Nodes,
         \/ UNCHANGED row
         \/ \E t : SetServiceNodeTokenSecret(n, t)
         \/ SetServiceConfigureToken(n)
         \/ row' = [row EXCEPT ![n].ct = "none"]
         \/ \E t : RegisterService(n, t)
         \/ \E t, k, a : Heartbeat(n, t, k, a)
  PROVE  Kept(u)
<1>1. row \in [Nodes -> Row] /\ row[n] \in Row
  BY DEF TablesOK, TypeOK
<1>2. CASE UNCHANGED row
  BY <1>2 DEF Kept
<1>3. ASSUME NEW t, SetServiceNodeTokenSecret(n, t) PROVE Kept(u)
  BY <1>1, <1>3 DEF SetServiceNodeTokenSecret, Kept, Row
<1>4. CASE SetServiceConfigureToken(n)
  BY <1>1, <1>4 DEF SetServiceConfigureToken, Kept, Row
<1>5. CASE row' = [row EXCEPT ![n].ct = "none"]
  BY <1>1, <1>5 DEF Kept, Row
<1>6. ASSUME NEW t, RegisterService(n, t) PROVE Kept(u)
  BY <1>1, <1>6 DEF RegisterService, Kept, Row
<1>7. ASSUME NEW t, NEW k, NEW a, Heartbeat(n, t, k, a) PROVE Kept(u)
  BY <1>1, <1>7 DEF Heartbeat, Kept, Row
<1> QED BY <1>2, <1>3, <1>4, <1>5, <1>6, <1>7

(* The write of a token handler: if it saw whose token it rotates, that       *)
(* updater has no active job.                                                 *)
LEMMA HandlerWriteKeeps ==
  ASSUME IInv, TokenHandlerWrites, NEW u \in Updaters
  PROVE  \/ Kept(u)
         \/ adm.op = "rotate" /\ adm.t = row[u].tok /\ adm.n = None
         \/ ActiveJobs(boot, u) = {}
<1>1. u \in Nodes /\ row \in [Nodes -> Row] /\ adm.op # "idle"
  BY BootstrapAssumption DEF IInv, RegInv, TablesOK, TypeOK, TokenHandlerWrites
<1>2. CASE adm.op = "revoke" /\ RevokeServiceToken(adm.t)
  BY <1>1, <1>2, RevokeKeeps DEF IInv, RegInv
<1>3. CASE adm.op = "rotate" /\ RotateServiceToken(adm.t)
  <2>1. CASE u \notin References(adm.t)
    <3>1. row'[u] = row[u]
      BY <1>1, <1>3, <2>1 DEF RotateServiceToken
    <3> QED BY <3>1 DEF Kept
  <2>2. CASE u \in References(adm.t)
    <3>1. row[u].tok = adm.t /\ tokens[adm.t].n = u
      BY <2>2, ReferenceIsBound DEF IInv, RegInv
    <3>2. adm.n # None => adm.n = u
      BY <1>1, <1>3, <3>1 DEF IInv, RegInv, AdmOK
    <3> QED BY <1>3, <3>1, <3>2 DEF IInv, Fenced
  <2> QED BY <2>1, <2>2
<1>4. CASE adm.op = "rotatenode" /\ RotateServiceNodeToken(adm.n, adm.t)
  <2>1. adm.n # u
    BY <1>1, <1>4 DEF IInv, RegInv, AdmOK
  <2>2. row'[u] = row[u]
    BY <1>1, <1>4, <2>1 DEF RotateServiceNodeToken
  <2> QED BY <2>2 DEF Kept
<1> QED BY <1>2, <1>3, <1>4 DEF TokenHandlerWrites

LEMMA RegistrationKeeps ==
  ASSUME IInv, NEW u \in Nodes,
         \/ \E n \in Nodes, op \in {"api", "precreate"} : CreateServiceToken(n, op)
         \/ CreateApiToken \/ CreateNodeRegistrationToken \/ Compensate
  PROVE  Kept(u)
<1>1. TablesOK /\ (req.op # "idle" => req.n \in Nodes)
  BY DEF IInv, RegInv, ReqOK
<1>2. CASE UNCHANGED row
  BY <1>2 DEF Kept
<1>3. CASE CreateApiToken
  BY <1>1, <1>2, <1>3, PrecreateKeeps DEF CreateApiToken
<1>4. CASE CreateNodeRegistrationToken
  BY <1>1, <1>2, <1>4, PrecreateKeeps, ColumnsKeep DEF CreateNodeRegistrationToken
<1>5. CASE Compensate
  BY <1>1, <1>2, <1>5, RevokeKeeps, DeleteKeeps DEF Compensate
<1> QED BY <1>2, <1>3, <1>4, <1>5 DEF CreateServiceToken

(* While a bootstrap job of an updater is under way no handler replaces the  *)
(* token of the updater's row, but for one that looked at the services       *)
(* before any row named its token.                                           *)
THEOREM IdentityIsStable == Spec => IdentityStable
<1>1. ASSUME IInv, [Next]_vars
      PROVE  [\A u \in Updaters :
                /\ ActiveJobs(boot, u) # {} /\ ActiveJobs(boot', u) # {}
                /\ row[u].st # "absent" /\ row'[u].st # "absent"
                => \/ row'[u].tok = row[u].tok
                   \/ adm.op = "rotate" /\ adm.t = row[u].tok /\ adm.n = None]_vars
  <2> SUFFICES ASSUME NEW u \in Updaters, Next
               PROVE  \/ Kept(u)
                      \/ adm.op = "rotate" /\ adm.t = row[u].tok /\ adm.n = None
                      \/ ActiveJobs(boot, u) = {}
    BY <1>1 DEF Kept
  <2>1. u \in Nodes /\ TablesOK /\ row \in [Nodes -> Row]
    BY <1>1, BootstrapAssumption DEF IInv, RegInv, TablesOK, TypeOK
  <2>2. CASE UNCHANGED row
    BY <2>2 DEF Kept
  <2>3. CASE BootstrapNext
    <3>1. UNCHANGED row
      BY <2>3 DEF BootstrapNext, CreateUpdateHostBootstrapJob, ServiceUpdateHostBootstrapClaim,
           ServiceUpdateHostBootstrapAccept, ServiceUpdateHostBootstrapReport,
           ListUpdateHostBootstrapJobs, regVars
    <3> QED BY <2>2, <3>1
  <2>4. CASE \/ \E n \in Nodes, op \in {"api", "precreate"} : CreateServiceToken(n, op)
             \/ CreateApiToken \/ CreateNodeRegistrationToken \/ Compensate
    BY <1>1, <2>1, <2>4, RegistrationKeeps
  <2>5. CASE TokenHandlerWrites
    BY <1>1, <2>5, HandlerWriteKeeps
  <2>6. ASSUME NEW t \in DOMAIN tokens,
               RevokeServiceTokenHandler(t) \/ RotateServiceTokenHandler(t) \/ AuthenticateServiceToken(t)
        PROVE  UNCHANGED row
    BY <2>6 DEF RevokeServiceTokenHandler, RotateServiceTokenHandler, AuthenticateServiceToken
  <2>7. ASSUME NEW n \in Nodes, RotateNodeRuntimeToken(n)
        PROVE  UNCHANGED row
    BY <2>7 DEF RotateNodeRuntimeToken
  <2>8. ASSUME NEW n \in Nodes, RegenerateNodeConfigureToken(n) \/ ConfigureTokenExpires(n)
        PROVE  Kept(u)
    BY <2>1, <2>8, ColumnsKeep DEF RegenerateNodeConfigureToken, ConfigureTokenExpires
  <2>9. ASSUME NEW n \in Nodes, DeleteServiceHandler(n)
        PROVE  Kept(u)
    BY <2>1, <2>9, DeleteKeeps DEF DeleteServiceHandler
  <2>10. ASSUME NEW n \in Nodes, ConfigureServiceNode(n)
         PROVE  Kept(u)
    <3>1. n # u /\ row'[u] = row[u]
      BY <2>1, <2>10 DEF ConfigureServiceNode, CanConfigure
    <3> QED BY <3>1 DEF Kept
  <2>11. ASSUME NEW v \in Updaters, UpdateUpdaterPolicy(v)
         PROVE  UNCHANGED row
    BY <2>11 DEF UpdateUpdaterPolicy
  <2>12. CASE ServiceCallWrites
    <3>1. call.n \in Nodes
      BY <1>1, <2>12 DEF ServiceCallWrites, IInv, RegInv, CallOK
    <3> QED BY <2>1, <2>12, <3>1, ColumnsKeep DEF ServiceCallWrites
  <2>13. ASSUME NEW v \in Updaters, NEW k \in Keys, PersistServiceHeartbeat(v, k, pol[v])
         PROVE  Kept(u)
    BY <2>1, <2>13, ColumnsKeep, BootstrapAssumption DEF PersistServiceHeartbeat
  <2>14. CASE PanelRestart
    BY <2>2, <2>14 DEF PanelRestart
  <2> QED BY <2>2, <2>3, <2>4, <2>5, <2>6, <2>7, <2>8, <2>9, <2>10, <2>11, <2>12, <2>13, <2>14
          DEF Next, RegistryNext
<1> QED BY <1>1, RegistryInvariant, PTL DEF Spec, IdentityStable
=============================================================================
