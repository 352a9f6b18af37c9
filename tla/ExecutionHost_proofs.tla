------------------------ MODULE ExecutionHost_proofs ------------------------
(***************************************************************************)
(* Proofs about an execution host, for any agents, targets, ports,         *)
(* releases and bounds, in four parts.  The credentials of its agents rest *)
(* on three tables alone: the token each service row names, the token rows *)
(* and the rotations (IInv).  The ports rest on the job rows, the          *)
(* reservations and the endpoints (HostWorkInv).  The recorded outcome of  *)
(* a job rests on what the host did and on the reports still under way     *)
(* (VerdictOK), that of a self-update on what the host runs and on what    *)
(* the service rows last heard of it (UpdatesOK).  In every part the other *)
(* lanes of the host leave what it rests on as it is.                      *)
(***************************************************************************)
EXTENDS ExecutionHost, TLAPS, FiniteSetTheorems, SequenceTheorems

RowFields == {"token", "epoch", "online", "hb", "phase", "recovery", "receipt", "cfg", "ct",
              "applied", "repoch", "ver", "pending", "failed", "gen"}
RotationFields == {"agent", "status", "epoch", "src", "proj", "exec", "prev", "staged", "sealed",
                   "claimed", "claim", "emergency", "acked"}

IsSeq(s) == s \in Seq({s[k] : k \in DOMAIN s})

\* Every agent has a row, which names a token no other row names.
RowsOK == /\ DOMAIN svc = Agents
          /\ \A a \in Agents : DOMAIN svc[a] = RowFields
          /\ \A a \in Agents : svc[a].token \in DOMAIN tokens
          /\ \A a, b \in Agents : svc[a].token = svc[b].token => a = b

TokensOK == tokens \in Seq({"live", "revoked"})

\* A rotation replaces one token by another one.
RotationOK(r) == /\ DOMAIN r = RotationFields
                 /\ r.agent \in Agents
                 /\ r.prev \in DOMAIN tokens /\ r.staged \in DOMAIN tokens
                 /\ r.prev # r.staged
                 /\ r.emergency # None => r.status = "canceled"

\* The token an active rotation has staged is nobody's: no row names it and no
\* other rotation has ever used it.
StagedApart(i) ==
  rots[i].status \in ActiveRotation =>
    /\ \A a \in Agents : svc[a].token # rots[i].staged
    /\ \A k \in DOMAIN rots : k # i => rots[i].staged \notin {rots[k].prev, rots[k].staged}

RotationsOK == /\ IsSeq(rots)
               /\ \A i \in DOMAIN rots : RotationOK(rots[i])
               /\ \A i \in DOMAIN rots : StagedApart(i)

IInv == RowsOK /\ TokensOK /\ RotationsOK /\ OneLiveIdentity /\ EmergencyIsFinal

-----------------------------------------------------------------------------
(* Sequences. *)

LEMMA ElementPut ==
  ASSUME NEW S, NEW s \in Seq(S), NEW i \in DOMAIN s, NEW e \in S
  PROVE  /\ [s EXCEPT ![i] = e] \in Seq(S)
         /\ DOMAIN [s EXCEPT ![i] = e] = DOMAIN s
         /\ [s EXCEPT ![i] = e][i] = e
         /\ \A k \in DOMAIN s : k # i => [s EXCEPT ![i] = e][k] = s[k]
<1>1. s \in [DOMAIN s -> S] /\ DOMAIN s = 1 .. Len(s) /\ Len(s) \in Nat
  OBVIOUS
<1>2. [s EXCEPT ![i] = e] \in [1 .. Len(s) -> S]
  BY <1>1
<1> QED BY <1>1, <1>2

LEMMA ElementPushed ==
  ASSUME NEW S, NEW s \in Seq(S), NEW e \in S
  PROVE  /\ Append(s, e) \in Seq(S)
         /\ DOMAIN Append(s, e) = DOMAIN s \cup {Len(s) + 1}
         /\ Len(s) + 1 \notin DOMAIN s
         /\ \A j \in DOMAIN s : Append(s, e)[j] = s[j]
         /\ Append(s, e)[Len(s) + 1] = e
<1>1. DOMAIN s = 1 .. Len(s) /\ Len(s) \in Nat
  OBVIOUS
<1>2. Append(s, e) \in Seq(S) /\ Len(Append(s, e)) = Len(s) + 1
  BY AppendProperties
<1>3. DOMAIN Append(s, e) = 1 .. (Len(s) + 1)
  BY <1>1, <1>2
<1> QED BY <1>1, <1>2, <1>3, AppendProperties

(* The same for a sequence whose elements are of no particular set. *)
LEMMA AnySeqPut ==
  ASSUME NEW s, IsSeq(s), NEW i \in DOMAIN s, NEW e
  PROVE  /\ IsSeq([s EXCEPT ![i] = e])
         /\ DOMAIN [s EXCEPT ![i] = e] = DOMAIN s
         /\ [s EXCEPT ![i] = e][i] = e
         /\ \A k \in DOMAIN s : k # i => [s EXCEPT ![i] = e][k] = s[k]
<1> DEFINE q == [s EXCEPT ![i] = e]
           R == {q[k] : k \in DOMAIN q}
<1>1. DOMAIN s = 1 .. Len(s) /\ Len(s) \in Nat
  BY DEF IsSeq
<1>2. DOMAIN q = DOMAIN s /\ q[i] = e /\ \A k \in DOMAIN s : k # i => q[k] = s[k]
  OBVIOUS
<1>3. q = [k \in DOMAIN s |-> q[k]]
  OBVIOUS
<1> HIDE DEF q
<1>4. q \in [1 .. Len(s) -> R]
  BY <1>1, <1>2, <1>3
<1>5. q \in Seq(R)
  BY <1>1, <1>4
<1> QED BY <1>2, <1>5 DEF IsSeq, q

LEMMA AnySeqPushed ==
  ASSUME NEW s, IsSeq(s), NEW e
  PROVE  /\ IsSeq(Append(s, e))
         /\ DOMAIN Append(s, e) = DOMAIN s \cup {Len(s) + 1}
         /\ Len(s) + 1 \notin DOMAIN s
         /\ \A j \in DOMAIN s : Append(s, e)[j] = s[j]
         /\ Append(s, e)[Len(s) + 1] = e
<1> DEFINE S == {s[k] : k \in DOMAIN s} \cup {e}
           q == Append(s, e)
           R == {q[k] : k \in DOMAIN q}
<1>1. s \in Seq(S)
  <2>1. s \in Seq({s[k] : k \in DOMAIN s})
    BY DEF IsSeq
  <2> QED BY <2>1
<1>2. e \in S
  OBVIOUS
<1> HIDE DEF S
<1>3. /\ q \in Seq(S) /\ DOMAIN q = DOMAIN s \cup {Len(s) + 1} /\ Len(s) + 1 \notin DOMAIN s
      /\ \A j \in DOMAIN s : q[j] = s[j]
      /\ q[Len(s) + 1] = e
  BY <1>1, <1>2, ElementPushed
<1> HIDE DEF q
<1>4. DOMAIN q = 1 .. Len(q) /\ Len(q) \in Nat /\ q = [k \in DOMAIN q |-> q[k]]
  BY <1>3
<1>5. q \in [1 .. Len(q) -> R]
  BY <1>4
<1>6. q \in Seq(R)
  BY <1>4, <1>5
<1> QED BY <1>3, <1>6 DEF IsSeq, q

-----------------------------------------------------------------------------
(* Steps that leave the credentials alone. *)

\* The service rows name the tokens they named.
SvcKept == /\ DOMAIN svc' = Agents
           /\ \A a \in Agents : DOMAIN svc'[a] = RowFields /\ svc'[a].token = svc[a].token

LEMMA SvcUnchanged ==
  ASSUME RowsOK, UNCHANGED svc
  PROVE  SvcKept
BY DEF RowsOK, SvcKept

LEMMA RowPut ==
  ASSUME RowsOK, NEW a \in Agents, NEW r, DOMAIN r = RowFields, r.token = svc[a].token,
         svc' = [svc EXCEPT ![a] = r]
  PROVE  SvcKept
BY DEF RowsOK, SvcKept

LEMMA UnreportedRow ==
  ASSUME NEW w, DOMAIN w = RowFields
  PROVE  DOMAIN Unreported(w) = RowFields /\ Unreported(w).token = w.token
BY DEF Unreported, RowFields

LEMMA CredentialsKept ==
  ASSUME IInv, SvcKept, UNCHANGED <<tokens, rots>>
  PROVE  IInv'
<1>1. RowsOK'
  BY DEF IInv, RowsOK, SvcKept
<1>2. TokensOK'
  BY DEF IInv, TokensOK
<1>3. RotationsOK'
  BY DEF IInv, RotationsOK, IsSeq, RotationOK, StagedApart, SvcKept
<1>4. OneLiveIdentity'
  BY DEF IInv, OneLiveIdentity, SvcKept
<1>5. EmergencyIsFinal'
  BY DEF IInv, EmergencyIsFinal
<1> QED BY <1>1, <1>2, <1>3, <1>4, <1>5 DEF IInv

(* A rotation moves on, and no token changes. *)
LEMMA RotationMoved ==
  ASSUME IInv, SvcKept, UNCHANGED tokens, NEW i \in DOMAIN rots, NEW r,
         UpdateRotation(i, r), DOMAIN r = RotationFields, r.agent = rots[i].agent,
         r.prev = rots[i].prev, r.staged = rots[i].staged, r.emergency = rots[i].emergency,
         rots[i].status \in ActiveRotation /\ rots[i].status # "canceled"
  PROVE  IInv'
<1>1. /\ IsSeq(rots') /\ DOMAIN rots' = DOMAIN rots /\ rots'[i] = r
      /\ \A k \in DOMAIN rots : k # i => rots'[k] = rots[k]
  BY AnySeqPut DEF UpdateRotation, IInv, RotationsOK
<1>2. RotationOK(rots[i]) /\ r.emergency = None
  BY DEF IInv, RotationsOK, RotationOK
<1>3. \A k \in DOMAIN rots : RotationOK(rots[k])'
  BY <1>1, <1>2 DEF IInv, RotationsOK, RotationOK
<1>4. \A k \in DOMAIN rots : rots'[k].prev = rots[k].prev /\ rots'[k].staged = rots[k].staged
  BY <1>1
<1>5. \A k \in DOMAIN rots : rots'[k].status \in ActiveRotation => rots[k].status \in ActiveRotation
  BY <1>1
<1>6. \A k \in DOMAIN rots : StagedApart(k)'
  BY <1>1, <1>4, <1>5 DEF IInv, RotationsOK, StagedApart, SvcKept
<1>7. RowsOK'
  BY DEF IInv, RowsOK, SvcKept
<1>8. TokensOK' /\ OneLiveIdentity'
  BY DEF IInv, TokensOK, OneLiveIdentity, SvcKept
<1>9. EmergencyIsFinal'
  BY <1>1, <1>2 DEF IInv, EmergencyIsFinal
<1> QED BY <1>1, <1>3, <1>6, <1>7, <1>8, <1>9 DEF IInv, RotationsOK

\* Tokens are revoked, none is added.
Revoking == /\ tokens' \in Seq({"live", "revoked"}) /\ DOMAIN tokens' = DOMAIN tokens
            /\ \A t \in DOMAIN tokens : tokens'[t] = tokens[t] \/ tokens'[t] = "revoked"

LEMMA OneRevoked ==
  ASSUME TokensOK, NEW t \in DOMAIN tokens, tokens' = [tokens EXCEPT ![t] = "revoked"]
  PROVE  Revoking
BY ElementPut DEF TokensOK, Revoking

(* A rotation ends and takes tokens with it. *)
LEMMA RotationEnded ==
  ASSUME IInv, SvcKept, Revoking, NEW i \in DOMAIN rots, NEW r,
         UpdateRotation(i, r), DOMAIN r = RotationFields, r.agent = rots[i].agent,
         r.prev = rots[i].prev, r.staged = rots[i].staged, r.status = "canceled",
         r.emergency # None => tokens'[r.prev] = "revoked" /\ tokens'[r.staged] = "revoked"
  PROVE  IInv'
<1>1. /\ IsSeq(rots') /\ DOMAIN rots' = DOMAIN rots /\ rots'[i] = r
      /\ \A k \in DOMAIN rots : k # i => rots'[k] = rots[k]
  BY AnySeqPut DEF UpdateRotation, IInv, RotationsOK
<1>2. \A k \in DOMAIN rots : RotationOK(rots[k])'
  BY <1>1 DEF IInv, RotationsOK, RotationOK, Revoking
<1>3. \A k \in DOMAIN rots : rots'[k].prev = rots[k].prev /\ rots'[k].staged = rots[k].staged
  BY <1>1
<1>4. \A k \in DOMAIN rots : rots'[k].status \in ActiveRotation => rots[k].status \in ActiveRotation
  BY <1>1 DEF ActiveRotation
<1>5. \A k \in DOMAIN rots : StagedApart(k)'
  BY <1>1, <1>3, <1>4 DEF IInv, RotationsOK, StagedApart, SvcKept
<1>6. RowsOK'
  BY DEF IInv, RowsOK, SvcKept, Revoking
<1>7. TokensOK' /\ OneLiveIdentity'
  BY DEF IInv, TokensOK, OneLiveIdentity, SvcKept, Revoking
<1>8. EmergencyIsFinal'
  <2> SUFFICES ASSUME NEW k \in DOMAIN rots, rots'[k].emergency # None
               PROVE  tokens'[rots'[k].prev] = "revoked" /\ tokens'[rots'[k].staged] = "revoked"
    BY <1>1 DEF EmergencyIsFinal
  <2>1. CASE k = i
    BY <2>1, <1>1
  <2>2. CASE k # i
    BY <2>2, <1>1 DEF IInv, EmergencyIsFinal, Revoking, RotationsOK, RotationOK
  <2> QED BY <2>1, <2>2
<1> QED BY <1>1, <1>2, <1>5, <1>6, <1>7, <1>8 DEF IInv, RotationsOK

-----------------------------------------------------------------------------
(* The exchange. *)

LEMMA ScrubbedRotation ==
  ASSUME NEW r, DOMAIN r = RotationFields
  PROVE  /\ DOMAIN ScrubReplaySecrets(r) = RotationFields
         /\ \A f \in RotationFields \ {"sealed", "claim"} : ScrubReplaySecrets(r)[f] = r[f]
BY DEF ScrubReplaySecrets, RotationFields

\* The new token is nobody's, and no other rotation is under way.
LEMMA StageOK ==
  ASSUME IInv, NEW a \in Agents, StageRuntimeTokenRotation(a)
  PROVE  IInv'
<1> DEFINE n == Len(tokens) + 1
           m == Len(rots) + 1
<1>1. /\ tokens' \in Seq({"live", "revoked"}) /\ DOMAIN tokens' = DOMAIN tokens \cup {n}
      /\ n \notin DOMAIN tokens /\ tokens'[n] = "revoked"
      /\ \A t \in DOMAIN tokens : tokens'[t] = tokens[t]
  BY ElementPushed DEF StageRuntimeTokenRotation, StageOnce, IInv, TokensOK
<1>2. /\ IsSeq(rots') /\ DOMAIN rots' = DOMAIN rots \cup {m} /\ m \notin DOMAIN rots
      /\ rots'[m] = StagedRotation(a) /\ \A k \in DOMAIN rots : rots'[k] = rots[k]
  BY AnySeqPushed DEF StageRuntimeTokenRotation, StageOnce, IInv, RotationsOK
<1>3. /\ DOMAIN StagedRotation(a) = RotationFields
      /\ StagedRotation(a).agent = a /\ StagedRotation(a).prev = svc[a].token
      /\ StagedRotation(a).staged = n /\ StagedRotation(a).emergency = None
  BY DEF StagedRotation, RotationFields
<1>4. svc' = svc /\ \A k \in DOMAIN rots : rots[k].status \notin ActiveRotation
  BY DEF StageRuntimeTokenRotation, StageOnce, CanStage, ActiveRotations
<1> HIDE DEF n, m
<1>5. \A k \in DOMAIN rots : RotationOK(rots[k])
  BY DEF IInv, RotationsOK
<1>6. RowsOK
  BY DEF IInv
<1>7. RowsOK'
  BY <1>1, <1>4, <1>6 DEF RowsOK
<1>8. \A k \in DOMAIN rots' : RotationOK(rots[k])'
  BY <1>1, <1>2, <1>3, <1>5, <1>6 DEF RotationOK, RowsOK
<1>9. \A k \in DOMAIN rots' : StagedApart(k)'
  <2>1. \A k \in DOMAIN rots : StagedApart(k)'
    BY <1>2, <1>4 DEF StagedApart
  <2>2. \A b \in Agents : svc'[b].token # rots'[m].staged
    BY <1>1, <1>2, <1>3, <1>4, <1>6 DEF RowsOK
  <2>3. \A k \in DOMAIN rots' : k # m => rots'[m].staged \notin {rots'[k].prev, rots'[k].staged}
    BY <1>1, <1>2, <1>3, <1>5 DEF RotationOK
  <2>4. \A k \in DOMAIN rots' : k = m => StagedApart(k)'
    BY <2>2, <2>3 DEF StagedApart
  <2> QED BY <2>1, <2>4, <1>2
<1>10. OneLiveIdentity'
  BY <1>1, <1>4 DEF IInv, OneLiveIdentity
<1>11. EmergencyIsFinal'
  BY <1>1, <1>2, <1>3, <1>5 DEF IInv, EmergencyIsFinal, RotationOK
<1> QED BY <1>1, <1>2, <1>7, <1>8, <1>9, <1>10, <1>11 DEF IInv, TokensOK, RotationsOK

LEMMA ClaimOK ==
  ASSUME IInv, NEW i \in DOMAIN rots, NEW c, NEW d,
         ClaimRuntimeTokenRotationCredential(i, c, d)
  PROVE  IInv'
<1> DEFINE r == [rots[i] EXCEPT !.claim = c, !.claimed = TRUE]
<1>1. SvcKept /\ tokens' = tokens
  BY SvcUnchanged DEF ClaimRuntimeTokenRotationCredential, IInv
<1>2. DOMAIN rots[i] = RotationFields
  BY DEF IInv, RotationsOK, RotationOK
<1>3. /\ DOMAIN r = RotationFields /\ r.agent = rots[i].agent /\ r.prev = rots[i].prev
      /\ r.staged = rots[i].staged /\ r.emergency = rots[i].emergency
  BY <1>2 DEF RotationFields
<1>4. rots[i].status \in ActiveRotation /\ rots[i].status # "canceled"
  BY DEF ClaimRuntimeTokenRotationCredential, ClaimStagedCredential, CanClaim, ActiveRotation
<1>5. UpdateRotation(i, r) \/ UNCHANGED rots
  BY DEF ClaimRuntimeTokenRotationCredential, ClaimStagedCredential, RecordCredentialClaim
<1> HIDE DEF r
<1>6. CASE UpdateRotation(i, r)
  BY <1>1, <1>3, <1>4, <1>6, RotationMoved
<1>7. CASE UNCHANGED rots
  BY <1>1, <1>7, CredentialsKept
<1> QED BY <1>5, <1>6, <1>7

LEMMA LocalStageOK ==
  ASSUME IInv, NEW i \in DOMAIN rots, AcknowledgeLocalStage(i)
  PROVE  IInv'
<1> DEFINE r == [rots[i] EXCEPT !.status = "local_staged"]
           a == rots[i].agent
           w == [svc[a] EXCEPT !.hb = IF @ = "after" THEN "before" ELSE @]
<1>1. DOMAIN rots[i] = RotationFields /\ a \in Agents
  BY DEF IInv, RotationsOK, RotationOK
<1>2. DOMAIN svc = Agents /\ DOMAIN svc[a] = RowFields
  BY <1>1 DEF IInv, RowsOK
<1>3. DOMAIN w = RowFields /\ w.token = svc[a].token
  BY <1>2 DEF RowFields
<1>4. svc' = [svc EXCEPT ![a] = w]
  BY <1>1, <1>2 DEF AcknowledgeLocalStage, MarkLocalStaged
<1>5. /\ DOMAIN r = RotationFields /\ r.agent = rots[i].agent /\ r.prev = rots[i].prev
      /\ r.staged = rots[i].staged /\ r.emergency = rots[i].emergency
  BY <1>1 DEF RotationFields
<1>6. rots[i].status \in ActiveRotation /\ rots[i].status # "canceled"
  BY DEF AcknowledgeLocalStage, CanMarkLocalStaged, ActiveRotation
<1>7. UpdateRotation(i, r) /\ tokens' = tokens
  BY DEF AcknowledgeLocalStage, MarkLocalStaged
<1> HIDE DEF r, w
<1>8. SvcKept
  BY <1>1, <1>3, <1>4, RowPut DEF IInv
<1> QED BY <1>5, <1>6, <1>7, <1>8, RotationMoved

LEMMA ProveOK ==
  ASSUME IInv, NEW i \in DOMAIN rots, ProveRuntimeTokenRotationHeartbeat(i)
  PROVE  IInv'
<1> DEFINE r == [rots[i] EXCEPT !.status = "heartbeat_proved"]
<1>1. SvcKept /\ tokens' = tokens
  BY SvcUnchanged DEF ProveRuntimeTokenRotationHeartbeat, IInv
<1>2. DOMAIN rots[i] = RotationFields
  BY DEF IInv, RotationsOK, RotationOK
<1>3. /\ DOMAIN r = RotationFields /\ r.agent = rots[i].agent /\ r.prev = rots[i].prev
      /\ r.staged = rots[i].staged /\ r.emergency = rots[i].emergency
  BY <1>2 DEF RotationFields
<1>4. rots[i].status \in ActiveRotation /\ rots[i].status # "canceled"
  BY DEF ProveRuntimeTokenRotationHeartbeat, CanProve, ActiveRotation
<1>5. UpdateRotation(i, r)
  BY DEF ProveRuntimeTokenRotationHeartbeat, ProveHeartbeat
<1> HIDE DEF r
<1> QED BY <1>1, <1>3, <1>4, <1>5, RotationMoved

LEMMA CancelOK ==
  ASSUME IInv, NEW i \in DOMAIN rots, CancelRuntimeTokenRotation(i)
  PROVE  IInv'
<1> DEFINE q == [rots[i] EXCEPT !.status = "cancel_requested"]
           e == [rots[i] EXCEPT !.status = "canceled"]
           r == ScrubReplaySecrets(e)
<1>1. SvcKept
  BY SvcUnchanged DEF CancelRuntimeTokenRotation, IInv
<1>2. RotationOK(rots[i]) /\ DOMAIN rots[i] = RotationFields
  BY DEF IInv, RotationsOK, RotationOK
<1>3. rots[i].status \in ActiveRotation /\ rots[i].status # "canceled"
  BY DEF CancelRuntimeTokenRotation, CanCancel, ActiveRotation
<1>4. /\ DOMAIN q = RotationFields /\ q.agent = rots[i].agent /\ q.prev = rots[i].prev
      /\ q.staged = rots[i].staged /\ q.emergency = rots[i].emergency
  BY <1>2 DEF RotationFields
<1>5. /\ DOMAIN e = RotationFields /\ e.agent = rots[i].agent /\ e.prev = rots[i].prev
      /\ e.staged = rots[i].staged /\ e.emergency = rots[i].emergency /\ e.status = "canceled"
  BY <1>2 DEF RotationFields
<1>6. \/ tokens' = [tokens EXCEPT ![rots[i].staged] = "revoked"] /\ UpdateRotation(i, r)
      \/ tokens' = tokens /\ UpdateRotation(i, q)
  BY DEF CancelRuntimeTokenRotation, CancelRotation
<1> HIDE DEF q, e
<1>7. /\ DOMAIN r = RotationFields /\ r.agent = rots[i].agent /\ r.prev = rots[i].prev
      /\ r.staged = rots[i].staged /\ r.emergency = rots[i].emergency /\ r.status = "canceled"
  BY <1>5, ScrubbedRotation DEF RotationFields
<1> HIDE DEF r
<1>8. rots[i].emergency = None /\ rots[i].staged \in DOMAIN tokens
  BY <1>2, <1>3 DEF RotationOK
<1>9. CASE tokens' = [tokens EXCEPT ![rots[i].staged] = "revoked"] /\ UpdateRotation(i, r)
  <2>1. Revoking
    BY <1>8, <1>9, OneRevoked DEF IInv
  <2> QED BY <2>1, <1>1, <1>7, <1>8, <1>9, RotationEnded
<1>10. CASE tokens' = tokens /\ UpdateRotation(i, q)
  BY <1>1, <1>3, <1>4, <1>10, RotationMoved
<1> QED BY <1>6, <1>9, <1>10

LEMMA CancelAcknowledgedOK ==
  ASSUME IInv, NEW i \in DOMAIN rots, AcknowledgeRuntimeTokenRotationCancel(i)
  PROVE  IInv'
<1> DEFINE e == [rots[i] EXCEPT !.status = "canceled", !.acked = TRUE]
           r == ScrubReplaySecrets(e)
<1>1. SvcKept
  BY SvcUnchanged DEF AcknowledgeRuntimeTokenRotationCancel, IInv
<1>2. RotationOK(rots[i]) /\ DOMAIN rots[i] = RotationFields
  BY DEF IInv, RotationsOK, RotationOK
<1>3. rots[i].status = "cancel_requested"
  BY DEF AcknowledgeRuntimeTokenRotationCancel, CanAcknowledgeCancel
<1>4. /\ DOMAIN e = RotationFields /\ e.agent = rots[i].agent /\ e.prev = rots[i].prev
      /\ e.staged = rots[i].staged /\ e.emergency = rots[i].emergency /\ e.status = "canceled"
  BY <1>2 DEF RotationFields
<1>5. tokens' = [tokens EXCEPT ![rots[i].staged] = "revoked"] /\ UpdateRotation(i, r)
  BY DEF AcknowledgeRuntimeTokenRotationCancel, AcknowledgeCancel
<1> HIDE DEF e
<1>6. /\ DOMAIN r = RotationFields /\ r.agent = rots[i].agent /\ r.prev = rots[i].prev
      /\ r.staged = rots[i].staged /\ r.emergency = rots[i].emergency /\ r.status = "canceled"
  BY <1>4, ScrubbedRotation DEF RotationFields
<1> HIDE DEF r
<1>7. rots[i].emergency = None /\ rots[i].staged \in DOMAIN tokens
  BY <1>2, <1>3 DEF RotationOK
<1>8. Revoking
  BY <1>5, <1>7, OneRevoked DEF IInv
<1> QED BY <1>1, <1>5, <1>6, <1>7, <1>8, RotationEnded

LEMMA EmergencyOK ==
  ASSUME IInv, NEW i \in DOMAIN rots, NEW s, EmergencyRevokeRuntimeTokenRotation(i, s)
  PROVE  IInv'
<1> DEFINE t == IF s = "staged" THEN rots[i].staged ELSE rots[i].prev
           e == [rots[i] EXCEPT !.status = "canceled", !.acked = FALSE, !.emergency = t]
           r == ScrubReplaySecrets(e)
           a == rots[i].agent
           u == Unreported(svc[a])
           w == [u EXCEPT !.ct = "none", !.cfg = None]
           p == rots[i].prev
           g == rots[i].staged
<1>1. RotationOK(rots[i]) /\ DOMAIN rots[i] = RotationFields
  BY DEF IInv, RotationsOK, RotationOK
<1>2. a \in Agents /\ p \in DOMAIN tokens /\ g \in DOMAIN tokens
  BY <1>1 DEF RotationOK
<1>3. DOMAIN svc = Agents /\ DOMAIN svc[a] = RowFields
  BY <1>2 DEF IInv, RowsOK
<1>4. /\ tokens' = [tokens EXCEPT ![p] = "revoked", ![g] = "revoked"]
      /\ svc' = [svc EXCEPT ![a] = [Unreported(@) EXCEPT !.ct = "none", !.cfg = None]]
      /\ UpdateRotation(i, r)
  BY DEF EmergencyRevokeRuntimeTokenRotation, EmergencyRevoke
<1>5. svc' = [svc EXCEPT ![a] = w]
  BY <1>2, <1>3, <1>4
<1>6. DOMAIN u = RowFields /\ u.token = svc[a].token
  BY <1>3, UnreportedRow
<1> HIDE DEF u
<1>7. DOMAIN w = RowFields /\ w.token = svc[a].token
  BY <1>6 DEF RowFields
<1> HIDE DEF w
<1>8. SvcKept
  BY <1>2, <1>5, <1>7, RowPut DEF IInv
<1>9. /\ DOMAIN e = RotationFields /\ e.agent = rots[i].agent /\ e.prev = rots[i].prev
      /\ e.staged = rots[i].staged /\ e.status = "canceled"
  BY <1>1 DEF RotationFields
<1> HIDE DEF e
<1>10. /\ DOMAIN r = RotationFields /\ r.agent = rots[i].agent /\ r.prev = rots[i].prev
       /\ r.staged = rots[i].staged /\ r.status = "canceled"
  BY <1>9, ScrubbedRotation DEF RotationFields
<1> HIDE DEF r
<1>11. Revoking /\ tokens'[p] = "revoked" /\ tokens'[g] = "revoked"
  <2> DEFINE x == [tokens EXCEPT ![p] = "revoked"]
  <2>1. /\ x \in Seq({"live", "revoked"}) /\ DOMAIN x = DOMAIN tokens /\ x[p] = "revoked"
        /\ \A k \in DOMAIN tokens : k # p => x[k] = tokens[k]
    BY <1>2, ElementPut DEF IInv, TokensOK
  <2>2. tokens' = [x EXCEPT ![g] = "revoked"]
    BY <1>4
  <2> HIDE DEF x
  <2>3. /\ tokens' \in Seq({"live", "revoked"}) /\ DOMAIN tokens' = DOMAIN x
        /\ tokens'[g] = "revoked" /\ \A k \in DOMAIN x : k # g => tokens'[k] = x[k]
    BY <2>1, <2>2, <1>2, ElementPut
  <2> QED BY <2>1, <2>3, <1>2 DEF Revoking
<1> QED BY <1>4, <1>8, <1>10, <1>11, RotationEnded

(* The staged token becomes the agent's and the old one is revoked: the    *)
(* staged one was nobody's, so no row and no rotation that was ended by a  *)
(* revocation is touched.                                                  *)
LEMMA ActivationOK ==
  ASSUME IInv, NEW i \in DOMAIN rots, ActivateRuntimeTokenRotation(i)
  PROVE  IInv'
<1> DEFINE a == rots[i].agent
           p == rots[i].prev
           g == rots[i].staged
           w == [svc[a] EXCEPT !.token = g, !.hb = "before"]
           e == [rots[i] EXCEPT !.status = "activated"]
           r == ScrubReplaySecrets(e)
<1>1. RotationOK(rots[i]) /\ DOMAIN rots[i] = RotationFields
  BY DEF IInv, RotationsOK, RotationOK
<1>2. a \in Agents /\ p \in DOMAIN tokens /\ g \in DOMAIN tokens /\ p # g
  BY <1>1 DEF RotationOK
<1>3. DOMAIN svc = Agents /\ DOMAIN svc[a] = RowFields
  BY <1>2 DEF IInv, RowsOK
<1>4. /\ tokens' = [tokens EXCEPT ![g] = "live", ![p] = "revoked"]
      /\ svc' = [svc EXCEPT ![a].token = g, ![a].hb = "before"]
      /\ UpdateRotation(i, r)
  BY DEF ActivateRuntimeTokenRotation, ActivateRotation
<1>5. svc' = [svc EXCEPT ![a] = w]
  BY <1>2, <1>3, <1>4
<1>6. DOMAIN w = RowFields /\ w.token = g
  BY <1>3 DEF RowFields
<1>7. rots[i].status = "heartbeat_proved" /\ svc[a].token = p
  BY DEF ActivateRuntimeTokenRotation, CanActivate
<1>8. /\ \A b \in Agents : svc[b].token # g
      /\ \A k \in DOMAIN rots : k # i => g \notin {rots[k].prev, rots[k].staged}
  BY <1>7 DEF IInv, RotationsOK, StagedApart, ActiveRotation
<1>9. rots[i].emergency = None
  BY <1>1, <1>7 DEF RotationOK
<1>10. /\ DOMAIN e = RotationFields /\ e.agent = a /\ e.prev = p /\ e.staged = g
       /\ e.status = "activated" /\ e.emergency = None
  BY <1>1, <1>9 DEF RotationFields
<1> HIDE DEF w, e
<1>11. /\ DOMAIN r = RotationFields /\ r.agent = a /\ r.prev = p /\ r.staged = g
       /\ r.status = "activated" /\ r.emergency = None
  BY <1>10, ScrubbedRotation DEF RotationFields
<1> HIDE DEF r
<1>12. /\ IsSeq(rots') /\ DOMAIN rots' = DOMAIN rots /\ rots'[i] = r
       /\ \A k \in DOMAIN rots : k # i => rots'[k] = rots[k]
  BY <1>4, AnySeqPut DEF UpdateRotation, IInv, RotationsOK
<1>13. /\ tokens' \in Seq({"live", "revoked"}) /\ DOMAIN tokens' = DOMAIN tokens
       /\ tokens'[g] = "live" /\ tokens'[p] = "revoked"
       /\ \A k \in DOMAIN tokens : k \notin {p, g} => tokens'[k] = tokens[k]
  <2> DEFINE x == [tokens EXCEPT ![g] = "live"]
  <2>1. /\ x \in Seq({"live", "revoked"}) /\ DOMAIN x = DOMAIN tokens /\ x[g] = "live"
        /\ \A k \in DOMAIN tokens : k # g => x[k] = tokens[k]
    BY <1>2, ElementPut DEF IInv, TokensOK
  <2>2. tokens' = [x EXCEPT ![p] = "revoked"]
    BY <1>4
  <2> HIDE DEF x
  <2>3. /\ tokens' \in Seq({"live", "revoked"}) /\ DOMAIN tokens' = DOMAIN x
        /\ tokens'[p] = "revoked" /\ \A k \in DOMAIN x : k # p => tokens'[k] = x[k]
    BY <2>1, <2>2, <1>2, ElementPut
  <2> QED BY <2>1, <2>3, <1>2
<1>14. /\ DOMAIN svc' = Agents /\ svc'[a] = w /\ \A b \in Agents : b # a => svc'[b] = svc[b]
  BY <1>2, <1>3, <1>5
<1> HIDE DEF a, p, g
<1>15. RowsOK
  BY DEF IInv
<1>16. RowsOK'
  BY <1>2, <1>6, <1>8, <1>13, <1>14, <1>15 DEF RowsOK
<1>17. \A k \in DOMAIN rots : RotationOK(rots[k])
  BY DEF IInv, RotationsOK
<1>18. \A k \in DOMAIN rots : RotationOK(rots[k])'
  BY <1>2, <1>11, <1>12, <1>13, <1>17 DEF RotationOK
<1>19. \A k \in DOMAIN rots : StagedApart(k)'
  <2> SUFFICES ASSUME NEW k \in DOMAIN rots, rots'[k].status \in ActiveRotation
               PROVE  /\ \A b \in Agents : svc'[b].token # rots'[k].staged
                      /\ \A j \in DOMAIN rots : j # k =>
                            rots'[k].staged \notin {rots'[j].prev, rots'[j].staged}
    BY <1>12 DEF StagedApart
  <2>1. k # i
    BY <1>11, <1>12 DEF ActiveRotation
  <2>2. rots'[k] = rots[k] /\ rots[k].staged # g
    BY <2>1, <1>8, <1>12
  <2>3. StagedApart(k)
    BY DEF IInv, RotationsOK
  <2>4. \A j \in DOMAIN rots : rots'[j].prev = rots[j].prev /\ rots'[j].staged = rots[j].staged
    BY <1>11, <1>12 DEF p, g
  <2>5. \A b \in Agents : svc'[b].token # rots'[k].staged
    BY <2>2, <2>3, <1>6, <1>14 DEF StagedApart
  <2> QED BY <2>2, <2>3, <2>4, <2>5 DEF StagedApart
<1>20. OneLiveIdentity'
  <2> SUFFICES ASSUME NEW t \in DOMAIN tokens, tokens'[t] = "live"
               PROVE  \E b \in Agents : svc'[b].token = t
    BY <1>13 DEF OneLiveIdentity
  <2>1. CASE t = g
    BY <2>1, <1>2, <1>6, <1>14
  <2>2. CASE t # g
    <3>1. t # p /\ tokens[t] = "live"
      BY <2>2, <1>13
    <3>2. PICK b \in Agents : svc[b].token = t
      BY <3>1 DEF IInv, OneLiveIdentity
    <3> QED BY <3>1, <3>2, <1>7, <1>14
  <2> QED BY <2>1, <2>2
<1>21. EmergencyIsFinal'
  <2> SUFFICES ASSUME NEW k \in DOMAIN rots, rots'[k].emergency # None
               PROVE  tokens'[rots'[k].prev] = "revoked" /\ tokens'[rots'[k].staged] = "revoked"
    BY <1>12 DEF EmergencyIsFinal
  <2>1. k # i /\ rots'[k] = rots[k]
    BY <1>11, <1>12
  <2>2. tokens[rots[k].prev] = "revoked" /\ tokens[rots[k].staged] = "revoked"
    BY <2>1 DEF IInv, EmergencyIsFinal
  <2>3. /\ rots[k].prev \in DOMAIN tokens /\ rots[k].staged \in DOMAIN tokens
        /\ rots[k].prev # g /\ rots[k].staged # g
    BY <2>1, <1>8, <1>17 DEF RotationOK
  <2> QED BY <2>1, <2>2, <2>3, <1>13
<1> QED BY <1>12, <1>13, <1>16, <1>18, <1>19, <1>20, <1>21 DEF IInv, TokensOK, RotationsOK

(* A new node configuration brings a token of its own. *)
LEMMA ConfigurationOK ==
  ASSUME IInv, NEW a \in Agents, HostAgentRuntimeIdentityActivate(a)
  PROVE  IInv'
<1> DEFINE old == svc[a].token
           n == Len(tokens) + 1
           x == [tokens EXCEPT ![old] = "revoked"]
           u == Unreported(svc[a])
           w == [u EXCEPT !.token = n, !.cfg = None, !.ct = "none"]
<1>1. DOMAIN svc = Agents /\ DOMAIN svc[a] = RowFields /\ old \in DOMAIN tokens
  BY DEF IInv, RowsOK
<1>2. tokens' = Append(x, "live") /\ rots' = rots
  BY DEF HostAgentRuntimeIdentityActivate, ActivateServiceNodeConfiguration
<1>3. svc' = [svc EXCEPT ![a] = w]
  BY <1>1 DEF HostAgentRuntimeIdentityActivate, ActivateServiceNodeConfiguration
<1>4. /\ x \in Seq({"live", "revoked"}) /\ DOMAIN x = DOMAIN tokens /\ x[old] = "revoked"
      /\ \A t \in DOMAIN tokens : t # old => x[t] = tokens[t]
  BY <1>1, ElementPut DEF IInv, TokensOK
<1>5. Len(x) = Len(tokens)
  BY <1>1 DEF IInv, TokensOK
<1> HIDE DEF x
<1>6. /\ tokens' \in Seq({"live", "revoked"}) /\ DOMAIN tokens' = DOMAIN tokens \cup {n}
      /\ n \notin DOMAIN tokens /\ tokens'[n] = "live"
      /\ \A t \in DOMAIN tokens : tokens'[t] = x[t]
  BY <1>2, <1>4, <1>5, ElementPushed
<1>7. DOMAIN u = RowFields
  BY <1>1, UnreportedRow
<1> HIDE DEF u, n
<1>8. DOMAIN w = RowFields /\ w.token = n
  BY <1>7 DEF RowFields
<1> HIDE DEF w
<1>9. DOMAIN svc' = Agents /\ svc'[a] = w /\ \A b \in Agents : b # a => svc'[b] = svc[b]
  BY <1>1, <1>3
<1>10. RowsOK
  BY DEF IInv
<1>11. RowsOK'
  BY <1>6, <1>8, <1>9, <1>10 DEF RowsOK
<1>12. \A k \in DOMAIN rots : RotationOK(rots[k]) /\ StagedApart(k)
  BY DEF IInv, RotationsOK
<1>13. \A k \in DOMAIN rots : RotationOK(rots[k])'
  BY <1>2, <1>6, <1>12 DEF RotationOK
<1>14. \A k \in DOMAIN rots : StagedApart(k)'
  <2>1. \A k \in DOMAIN rots : rots[k].staged # n
    BY <1>6, <1>12 DEF RotationOK
  <2> QED BY <2>1, <1>2, <1>8, <1>9, <1>12 DEF StagedApart
<1>15. RotationsOK'
  BY <1>2, <1>13, <1>14 DEF IInv, RotationsOK, IsSeq
<1>16. OneLiveIdentity'
  <2> SUFFICES ASSUME NEW t \in DOMAIN tokens', tokens'[t] = "live"
               PROVE  \E b \in Agents : svc'[b].token = t
    BY DEF OneLiveIdentity
  <2>1. CASE t = n
    BY <2>1, <1>8, <1>9
  <2>2. CASE t # n
    <3>1. t \in DOMAIN tokens /\ t # old /\ tokens[t] = "live"
      BY <2>2, <1>4, <1>6
    <3>2. PICK b \in Agents : svc[b].token = t
      BY <3>1 DEF IInv, OneLiveIdentity
    <3> QED BY <3>1, <3>2, <1>9
  <2> QED BY <2>1, <2>2
<1>17. EmergencyIsFinal'
  BY <1>2, <1>4, <1>6, <1>12 DEF IInv, EmergencyIsFinal, RotationOK
<1> QED BY <1>6, <1>11, <1>15, <1>16, <1>17 DEF IInv, TokensOK

-----------------------------------------------------------------------------
(* The other lanes. *)

LEMMA JobsKeep ==
  ASSUME JobsNext
  PROVE  UNCHANGED <<svc, tokens, rots>>
<1>1. ASSUME NEW a \in Agents, NEW t \in Targets, CreateSystemUpdate(a, t)
      PROVE  UNCHANGED <<svc, tokens, rots>>
  BY <1>1 DEF CreateSystemUpdate
<1>2. ASSUME NEW a \in Agents, NEW t \in Targets, NEW p \in Ports, NEW adv,
             CreatePortReconfiguration(a, t, p, adv)
      PROVE  UNCHANGED <<svc, tokens, rots>>
  BY <1>2 DEF CreatePortReconfiguration
<1>3. ASSUME NEW i \in DOMAIN jobs, CancelSystemUpdate(i)
      PROVE  UNCHANGED <<svc, tokens, rots>>
  BY <1>3 DEF CancelSystemUpdate
<1>4. ASSUME NEW i \in DOMAIN jobs, LeaseExpires(i)
      PROVE  UNCHANGED <<svc, tokens, rots>>
  BY <1>4 DEF LeaseExpires
<1>5. ASSUME NEW i \in DOMAIN jobs, NEW a \in Agents, NEW idle, NEW d, ServiceClaim(a, i, idle, d)
      PROVE  UNCHANGED <<svc, tokens, rots>>
  BY <1>5 DEF ServiceClaim
<1>6. ASSUME NEW a \in Agents, ServiceClaimClears(a)
      PROVE  UNCHANGED <<svc, tokens, rots>>
  BY <1>6 DEF ServiceClaimClears
<1>7. ASSUME NEW r \in host.sent, ServiceReport(r)
      PROVE  UNCHANGED <<svc, tokens, rots>>
  BY <1>7 DEF ServiceReport
<1>8. ASSUME NEW op, MutationGrantIssue(op)
      PROVE  UNCHANGED <<svc, tokens, rots>>
  BY <1>8 DEF MutationGrantIssue
<1>9. ASSUME NEW k \in DOMAIN grants, NEW o, MutationGrantConsume(k, o)
      PROVE  UNCHANGED <<svc, tokens, rots>>
  BY <1>9 DEF MutationGrantConsume
<1>10. ASSUME NEW s, AgentReportsProgress(s)
       PROVE  UNCHANGED <<svc, tokens, rots>>
  BY <1>10 DEF AgentReportsProgress
<1>11. ASSUME NEW s, NEW r, AgentReportsResult(s, r)
       PROVE  UNCHANGED <<svc, tokens, rots>>
  BY <1>11 DEF AgentReportsResult
<1> QED BY <1>1, <1>2, <1>3, <1>4, <1>5, <1>6, <1>7, <1>8, <1>9, <1>10, <1>11 DEF JobsNext

LEMMA SelfUpdatesKeep ==
  ASSUME SelfUpdateNext
  PROVE  UNCHANGED <<svc, tokens, rots>>
<1>1. ASSUME NEW a \in Agents, NEW v \in Versions, CreateHostSelfUpdate(a, v)
      PROVE  UNCHANGED <<svc, tokens, rots>>
  BY <1>1 DEF CreateHostSelfUpdate, CreateHostSelfUpdateTx
<1>2. ASSUME NEW i \in DOMAIN ups, RetryHostSelfUpdate(i) \/ CancelHostSelfUpdate(i)
      PROVE  UNCHANGED <<svc, tokens, rots>>
  BY <1>2 DEF RetryHostSelfUpdate, CreateHostSelfUpdateTx, CancelHostSelfUpdate
<1>3. ASSUME NEW i \in DOMAIN ups, NEW op, NEW s, IssueHostSelfUpdateGrant(i, op, s)
      PROVE  UNCHANGED <<svc, tokens, rots>>
  BY <1>3 DEF IssueHostSelfUpdateGrant
<1>4. ASSUME NEW k \in DOMAIN upGrants, HostSelfUpdateGrantExpires(k)
      PROVE  UNCHANGED <<svc, tokens, rots>>
  BY <1>4 DEF HostSelfUpdateGrantExpires
<1>5. ASSUME NEW k \in DOMAIN upGrants, NEW d, ConsumeHostSelfUpdateGrant(k, d)
      PROVE  UNCHANGED <<svc, tokens, rots>>
  BY <1>5 DEF ConsumeHostSelfUpdateGrant
<1>6. ASSUME NEW p, HostUpdates(p)
      PROVE  UNCHANGED <<svc, tokens, rots>>
  BY <1>6 DEF HostUpdates
<1>7. ASSUME HostLosesPower
      PROVE  UNCHANGED <<svc, tokens, rots>>
  BY <1>7 DEF HostLosesPower
<1> QED BY <1>1, <1>2, <1>3, <1>4, <1>5, <1>6, <1>7 DEF SelfUpdateNext

(* What the row's other columns say changes; its token does not. *)
LEMMA RowColumnsOK ==
  ASSUME IInv, NEW a \in Agents,
         \/ ActivateUpdaterOwnership(a) \/ DeactivateUpdaterOwnership(a)
         \/ RegenerateNodeConfigureToken(a) \/ ConfigureTokenExpires(a)
         \/ HostAgentRuntimeIdentityStage(a)
         \/ PersistServiceHeartbeat(a) \/ AgentGoesSilent(a)
  PROVE  IInv'
<1>1. DOMAIN svc = Agents /\ DOMAIN svc[a] = RowFields
  BY DEF IInv, RowsOK
<1>2. UNCHANGED <<tokens, rots>>
  BY DEF ActivateUpdaterOwnership, DeactivateUpdaterOwnership, RegenerateNodeConfigureToken,
         ConfigureTokenExpires, HostAgentRuntimeIdentityStage, PersistServiceHeartbeat,
         AgentGoesSilent
<1>3. ASSUME NEW w, DOMAIN w = RowFields, w.token = svc[a].token, svc' = [svc EXCEPT ![a] = w]
      PROVE  IInv'
  <2>1. SvcKept
    BY <1>3, RowPut DEF IInv
  <2> QED BY <2>1, <1>2, CredentialsKept
<1>4. CASE ActivateUpdaterOwnership(a)
  <2> DEFINE w == [svc[a] EXCEPT !.epoch = own.epoch + 1]
  <2>1. svc' = [svc EXCEPT ![a] = w]
    BY <1>1, <1>4 DEF ActivateUpdaterOwnership, ActivatePullUpdaterOwnership
  <2>2. DOMAIN w = RowFields /\ w.token = svc[a].token
    BY <1>1 DEF RowFields
  <2> QED BY <2>1, <2>2, <1>3
<1>5. CASE DeactivateUpdaterOwnership(a)
  <2> DEFINE w == [svc[a] EXCEPT !.epoch = 0]
  <2>1. svc' = [svc EXCEPT ![a] = w]
    BY <1>1, <1>5 DEF DeactivateUpdaterOwnership, DeactivatePullUpdaterOwnership
  <2>2. DOMAIN w = RowFields /\ w.token = svc[a].token
    BY <1>1 DEF RowFields
  <2> QED BY <2>1, <2>2, <1>3
<1>6. CASE RegenerateNodeConfigureToken(a)
  <2>1. svc' = [svc EXCEPT ![a] = [@ EXCEPT !.ct = "live",
                                     !.cfg = IF @ = None THEN None ELSE [prev |-> None]]]
    BY <1>6 DEF RegenerateNodeConfigureToken, SetServiceConfigureToken
  <2>2. DOMAIN svc' = DOMAIN svc /\ \A b \in DOMAIN svc : b # a => svc'[b] = svc[b]
    BY <2>1
  <2>3. DOMAIN svc'[a] = RowFields /\ svc'[a].token = svc[a].token
    BY <2>1, <1>1 DEF RowFields
  <2>4. SvcKept
    BY <2>2, <2>3 DEF SvcKept, IInv, RowsOK
  <2> QED BY <2>4, <1>2, CredentialsKept
<1>7. CASE ConfigureTokenExpires(a)
  <2> DEFINE w == [svc[a] EXCEPT !.ct = "none"]
  <2>1. svc' = [svc EXCEPT ![a] = w]
    BY <1>1, <1>7 DEF ConfigureTokenExpires
  <2>2. DOMAIN w = RowFields /\ w.token = svc[a].token
    BY <1>1 DEF RowFields
  <2> QED BY <2>1, <2>2, <1>3
<1>8. CASE HostAgentRuntimeIdentityStage(a)
  <2> DEFINE w == [svc[a] EXCEPT !.cfg = [prev |-> svc[a].token], !.ct = "used"]
  <2>1. svc' = [svc EXCEPT ![a] = w]
    BY <1>1, <1>8 DEF HostAgentRuntimeIdentityStage, StageServiceNodeConfiguration
  <2>2. DOMAIN w = RowFields /\ w.token = svc[a].token
    BY <1>1 DEF RowFields
  <2> QED BY <2>1, <2>2, <1>3
<1>9. CASE PersistServiceHeartbeat(a)
  <2> DEFINE w == [svc[a] EXCEPT
                     !.online = TRUE, !.hb = "after", !.phase = host.phase,
                     !.recovery = host.recovery, !.receipt = LocalStageReceipt,
                     !.applied = host.applied, !.repoch = host.epoch, !.ver = host.ver,
                     !.pending = host.pending, !.failed = host.failed, !.gen = host.gen]
  <2>1. svc' = [svc EXCEPT ![a] = w]
    BY <1>1, <1>9 DEF PersistServiceHeartbeat, Heartbeat
  <2>2. DOMAIN w = RowFields /\ w.token = svc[a].token
    BY <1>1 DEF RowFields
  <2> QED BY <2>1, <2>2, <1>3
<1>10. CASE AgentGoesSilent(a)
  <2> DEFINE w == [svc[a] EXCEPT !.online = FALSE]
  <2>1. svc' = [svc EXCEPT ![a] = w]
    BY <1>1, <1>10 DEF AgentGoesSilent
  <2>2. DOMAIN w = RowFields /\ w.token = svc[a].token
    BY <1>1 DEF RowFields
  <2> QED BY <2>1, <2>2, <1>3
<1> QED BY <1>4, <1>5, <1>6, <1>7, <1>8, <1>9, <1>10

LEMMA Untouched ==
  ASSUME IInv, UNCHANGED <<svc, tokens, rots>>
  PROVE  IInv'
<1>1. SvcKept
  BY SvcUnchanged DEF IInv
<1> QED BY <1>1, CredentialsKept

-----------------------------------------------------------------------------
(* The specification. *)

(* There are as many agents as tokens and no two of them have the same one, *)
(* so every token is somebody's.                                            *)
LEMMA InitOK ==
  ASSUME Init
  PROVE  IInv
<1> DEFINE c == Cardinality(Agents)
<1>1. c \in Nat
  BY HostAssumption, FS_CardinalityType
<1>2. PICK held \in [Agents -> 1 .. c] :
        /\ \A a, b \in Agents : held[a] = held[b] => a = b
        /\ tokens = [k \in 1 .. c |-> "live"]
        /\ svc = [b \in Agents |->
             [token |-> held[b], epoch |-> 0, online |-> FALSE, hb |-> "none", phase |-> "none",
              recovery |-> FALSE, receipt |-> None, cfg |-> None, ct |-> "none", applied |-> 0,
              repoch |-> 0, ver |-> 0, pending |-> None, failed |-> None, gen |-> None]]
        /\ rots = <<>>
  BY DEF Init
<1>3. /\ DOMAIN svc = Agents
      /\ \A a \in Agents : DOMAIN svc[a] = RowFields /\ svc[a].token = held[a]
  BY <1>2 DEF RowFields
<1>4. DOMAIN tokens = 1 .. c /\ TokensOK
  <2>1. tokens \in [1 .. c -> {"live", "revoked"}]
    BY <1>2
  <2> QED BY <2>1, <1>1 DEF TokensOK
<1>5. IsFiniteSet(1 .. c) /\ Cardinality(1 .. c) = c
  BY <1>1, FS_Interval
<1>6. held \in Injection(Agents, 1 .. c)
  BY <1>2 DEF Injection, IsInjective
<1>7. held \in Surjection(Agents, 1 .. c)
  BY <1>5, <1>6, HostAssumption, FS_Injection
<1>8. \A t \in 1 .. c : \E a \in Agents : held[a] = t
  BY <1>7 DEF Surjection
<1>9. RowsOK
  BY <1>2, <1>3, <1>4 DEF RowsOK
<1>10. OneLiveIdentity
  BY <1>3, <1>4, <1>8 DEF OneLiveIdentity
<1>11. DOMAIN rots = {} /\ IsSeq(rots)
  BY <1>2 DEF IsSeq
<1> QED BY <1>4, <1>9, <1>10, <1>11 DEF IInv, RotationsOK, EmergencyIsFinal

LEMMA NextOK ==
  ASSUME IInv, [Next]_vars
  PROVE  IInv'
<1>1. CASE JobsNext
  BY <1>1, JobsKeep, Untouched
<1>2. CASE RotationNext
  BY <1>2, StageOK, ClaimOK, LocalStageOK, ProveOK, ActivationOK, CancelOK,
     CancelAcknowledgedOK, EmergencyOK DEF RotationNext
<1>3. CASE SelfUpdateNext
  BY <1>3, SelfUpdatesKeep, Untouched
<1>4. ASSUME NEW a \in Agents, UpdateUpdaterPolicy(a)
      PROVE  IInv'
  <2>1. UNCHANGED <<svc, tokens, rots>>
    BY <1>4 DEF UpdateUpdaterPolicy
  <2> QED BY <2>1, Untouched
<1>5. CASE OwnershipNext
  BY <1>4, <1>5, RowColumnsOK, ConfigurationOK DEF OwnershipNext
<1>6. ASSUME NEW a \in Agents, NEW s, NEW d, ServiceHostAgentPolicy(a, s, d)
      PROVE  IInv'
  <2>1. UNCHANGED <<svc, tokens, rots>>
    BY <1>6 DEF ServiceHostAgentPolicy
  <2> QED BY <2>1, Untouched
<1>7. CASE AgentNext
  BY <1>6, <1>7, RowColumnsOK DEF AgentNext
<1>8. CASE UNCHANGED vars
  BY <1>8, Untouched DEF vars
<1> QED BY <1>1, <1>2, <1>3, <1>5, <1>7, <1>8 DEF Next

(* The invariant holds in every reachable state of the host. *)
THEOREM HostInvariant == Spec => []IInv
<1>1. Init => IInv
  BY InitOK
<1>2. IInv /\ [Next]_vars => IInv'
  BY NextOK
<1> QED BY <1>1, <1>2, PTL DEF Spec

(* However the steps of a rotation, its cancellation, its revocation and a *)
(* new node configuration follow each other, for any number of agents,     *)
(* rotations and tokens: every token that authenticates is the one some    *)
(* service row names, so no agent has two.                                 *)
THEOREM IdentityIsUnique == Spec => []OneLiveIdentity
<1>1. IInv => OneLiveIdentity
  BY DEF IInv
<1> QED BY <1>1, HostInvariant, PTL

(* Neither token of a rotation that was revoked in an emergency is ever    *)
(* accepted again, whatever arrives late and however often an identity is  *)
(* replaced afterwards.                                                    *)
THEOREM RevocationIsFinal == Spec => []EmergencyIsFinal
<1>1. IInv => EmergencyIsFinal
  BY DEF IInv
<1> QED BY <1>1, HostInvariant, PTL

-----------------------------------------------------------------------------
(* Jobs, grants, reservations and what the agent has journalled. *)

HostFields == {"held", "job", "effect", "sent", "applied", "epoch", "ver", "phase", "recovery",
               "pending", "failed", "gen"}
JobFields == {"op", "target", "agent", "status", "gen", "seq", "lease", "epoch", "rev", "phase",
              "recovery", "result", "plan"}
GrantFields == {"job", "gen", "op", "live", "consumed"}
JournalEntry == [id : Nat, gen : Nat, seq : Nat, ended : BOOLEAN]

\* The host is owned by one agent for good once it has had an owner, and the
\* ownership row names the policy revision of that agent.
OwnOK == /\ DOMAIN own = {"epoch", "agent", "rev"}
         /\ own.epoch \in Nat
         /\ own.agent \in Agents \cup {None}
         /\ own.agent = None <=> own.epoch = 0
         /\ DOMAIN policy = Agents
         /\ own.agent # None => own.rev = policy[own.agent].proj

\* A port job's plan names ports of the host, and a rollback returns to the
\* port the target listened on.
JobOK(j) == /\ DOMAIN j = JobFields
            /\ j.agent = own.agent /\ j.agent \in Agents
            /\ j.target \in Targets
            /\ j.recovery \in BOOLEAN
            /\ j.gen \in Nat
            /\ IsPortV2(j) => /\ j.plan.before.local \in Ports /\ j.plan.target.local \in Ports
                              /\ j.plan.rollback.local = j.plan.before.local

JobRowsOK == IsSeq(jobs) /\ \A i \in DOMAIN jobs : JobOK(jobs[i])

GrantsOK == /\ IsSeq(grants)
            /\ \A k \in DOMAIN grants : DOMAIN grants[k] = GrantFields /\ grants[k].job \in DOMAIN jobs

\* What the agent has journalled and sent is about jobs that exist, under
\* leases that were given.
JournalOK == /\ DOMAIN host = HostFields
             /\ host.job # None => /\ host.job \in JournalEntry
                                   /\ host.job.id \in DOMAIN jobs
                                   /\ host.job.gen <= jobs[host.job.id].gen
             /\ \A r \in host.sent :
                  /\ r.job \in DOMAIN jobs
                  /\ r.gen \in Nat /\ r.gen <= jobs[r.job].gen
                  /\ r.status \in ExecutingJob \cup {"succeeded", "rolled_back", "failed"}

JobsOK == JobRowsOK /\ GrantsOK /\ JournalOK

(* A function over the positions of a sequence is a sequence. *)
LEMMA SequenceOver ==
  ASSUME NEW s, IsSeq(s), NEW q, DOMAIN q = DOMAIN s, q = [k \in DOMAIN q |-> q[k]]
  PROVE  IsSeq(q)
<1> DEFINE R == {q[k] : k \in DOMAIN q}
<1>1. DOMAIN s = 1 .. Len(s) /\ Len(s) \in Nat
  BY DEF IsSeq
<1>2. q \in [1 .. Len(s) -> R]
  BY <1>1
<1>3. q \in Seq(R)
  BY <1>1, <1>2
<1> QED BY <1>3 DEF IsSeq

-----------------------------------------------------------------------------
(* What a step of the job lane does to a job row. *)

\* One row changes; what it is about stays.
JobStep(i) == /\ IsSeq(jobs') /\ DOMAIN jobs' = DOMAIN jobs
              /\ \A k \in DOMAIN jobs : k # i => jobs'[k] = jobs[k]
              /\ DOMAIN jobs'[i] = JobFields
              /\ jobs'[i].op = jobs[i].op /\ jobs'[i].target = jobs[i].target
              /\ jobs'[i].agent = jobs[i].agent /\ jobs'[i].plan = jobs[i].plan

\* Everything but status, lease and numbering stays.
SamePhase(i) == /\ jobs'[i].phase = jobs[i].phase /\ jobs'[i].recovery = jobs[i].recovery

LEMMA JobPut ==
  ASSUME JobRowsOK, NEW i \in DOMAIN jobs, NEW n, jobs' = [jobs EXCEPT ![i] = n],
         DOMAIN n = JobFields, n.op = jobs[i].op, n.target = jobs[i].target,
         n.agent = jobs[i].agent, n.plan = jobs[i].plan
  PROVE  JobStep(i) /\ jobs'[i] = n
BY AnySeqPut DEF JobRowsOK, JobStep

LEMMA JobFieldsOf ==
  ASSUME JobRowsOK, NEW i \in DOMAIN jobs
  PROVE  DOMAIN jobs[i] = JobFields
BY DEF JobRowsOK, JobOK

LEMMA CancelShape ==
  ASSUME JobRowsOK, NEW i \in DOMAIN jobs, CancelSystemUpdate(i)
  PROVE  /\ JobStep(i) /\ jobs'[i].status = "canceled" /\ jobs'[i].gen = jobs[i].gen
         /\ jobs'[i].recovery = jobs[i].recovery
<1> DEFINE n == [jobs[i] EXCEPT !.status = "canceled",
                                !.phase = IF IsPortV2(jobs[i]) THEN "canceled" ELSE @]
<1>1. DOMAIN jobs[i] = JobFields
  BY JobFieldsOf
<1>2. jobs' = [jobs EXCEPT ![i] = n]
  BY <1>1 DEF CancelSystemUpdate, CancelJob
<1>3. /\ DOMAIN n = JobFields /\ n.op = jobs[i].op /\ n.target = jobs[i].target
      /\ n.agent = jobs[i].agent /\ n.plan = jobs[i].plan
      /\ n.status = "canceled" /\ n.gen = jobs[i].gen /\ n.recovery = jobs[i].recovery
  BY <1>1 DEF JobFields
<1> HIDE DEF n
<1> QED BY <1>2, <1>3, JobPut

LEMMA LeaseShape ==
  ASSUME JobRowsOK, NEW i \in DOMAIN jobs, LeaseExpires(i)
  PROVE  /\ JobStep(i) /\ SamePhase(i) /\ jobs'[i].status = jobs[i].status
         /\ jobs'[i].gen = jobs[i].gen
<1> DEFINE n == [jobs[i] EXCEPT !.lease = "expired"]
<1>1. DOMAIN jobs[i] = JobFields
  BY JobFieldsOf
<1>2. jobs' = [jobs EXCEPT ![i] = n]
  BY <1>1 DEF LeaseExpires
<1>3. /\ DOMAIN n = JobFields /\ n.op = jobs[i].op /\ n.target = jobs[i].target
      /\ n.agent = jobs[i].agent /\ n.plan = jobs[i].plan
      /\ n.status = jobs[i].status /\ n.gen = jobs[i].gen /\ n.recovery = jobs[i].recovery
      /\ n.phase = jobs[i].phase
  BY <1>1 DEF JobFields
<1> HIDE DEF n
<1>4. JobStep(i) /\ jobs'[i] = n
  BY <1>2, <1>3, JobPut
<1> QED BY <1>3, <1>4 DEF SamePhase

LEMMA ClaimShape ==
  ASSUME JobRowsOK, NEW i \in DOMAIN jobs, ClaimJob(i)
  PROVE  /\ JobStep(i) /\ SamePhase(i)
         /\ jobs'[i].status = IF jobs[i].status = "queued" THEN "claimed" ELSE "reconciling"
         /\ jobs'[i].gen = jobs[i].gen + 1
<1> DEFINE n == [jobs[i] EXCEPT !.status = IF @ = "queued" THEN "claimed" ELSE "reconciling",
                                !.gen = @ + 1, !.seq = 0, !.lease = "live"]
<1>1. DOMAIN jobs[i] = JobFields
  BY JobFieldsOf
<1>2. jobs' = [jobs EXCEPT ![i] = n]
  BY <1>1 DEF ClaimJob
<1>3. /\ DOMAIN n = JobFields /\ n.op = jobs[i].op /\ n.target = jobs[i].target
      /\ n.agent = jobs[i].agent /\ n.plan = jobs[i].plan
      /\ n.status = (IF jobs[i].status = "queued" THEN "claimed" ELSE "reconciling")
      /\ n.gen = jobs[i].gen + 1 /\ n.recovery = jobs[i].recovery
      /\ n.phase = jobs[i].phase
  BY <1>1 DEF JobFields
<1> HIDE DEF n
<1>4. JobStep(i) /\ jobs'[i] = n
  BY <1>2, <1>3, JobPut
<1> QED BY <1>3, <1>4 DEF SamePhase

\* What a terminal report does to the transaction of a port job.
FinishedAs(i, result) ==
  /\ result = None => /\ jobs'[i].phase = "premutation_failed"
                      /\ jobs'[i].recovery = jobs[i].recovery
  /\ result = "rollback_failed" => /\ jobs'[i].phase = "rollback_latched" /\ jobs'[i].recovery
  /\ result \notin {None, "rollback_failed"} => ~jobs'[i].recovery

LEMMA ReportShape ==
  ASSUME JobRowsOK, NEW i \in DOMAIN jobs, NEW r, ReportJob(i, r)
  PROVE  /\ JobStep(i) /\ jobs'[i].status = r.status /\ jobs'[i].gen = jobs[i].gen
         /\ jobs'[i].recovery \in BOOLEAN
         /\ IF r.status \in TerminalJob /\ IsPortV2(jobs[i])
              THEN FinishPortV2(jobs[i], r.result) /\ FinishedAs(i, r.result)
              ELSE UNCHANGED <<own, policy, ep, ports>> /\ SamePhase(i)
<1> DEFINE done == r.status \in TerminalJob
           n == [jobs[i] EXCEPT !.status = r.status, !.seq = @ + 1,
                                !.lease = IF done THEN "none" ELSE @]
           f == FinishedPortV2(n, r.result)
<1>1. DOMAIN jobs[i] = JobFields
  BY JobFieldsOf
<1>2. IF done /\ IsPortV2(jobs[i])
        THEN FinishPortV2(jobs[i], r.result) /\ jobs' = [jobs EXCEPT ![i] = f]
        ELSE jobs' = [jobs EXCEPT ![i] = n] /\ UNCHANGED <<own, policy, ep, ports>>
  BY <1>1 DEF ReportJob
<1>3. /\ DOMAIN n = JobFields /\ n.op = jobs[i].op /\ n.target = jobs[i].target
      /\ n.agent = jobs[i].agent /\ n.plan = jobs[i].plan
      /\ n.status = r.status /\ n.gen = jobs[i].gen /\ n.recovery = jobs[i].recovery
      /\ n.phase = jobs[i].phase
  BY <1>1 DEF JobFields
<1> HIDE DEF n
<1>4. /\ DOMAIN f = JobFields /\ f.op = n.op /\ f.target = n.target
      /\ f.agent = n.agent /\ f.plan = n.plan /\ f.status = n.status /\ f.gen = n.gen
      /\ r.result = None => f.phase = "premutation_failed" /\ f.recovery = n.recovery
      /\ r.result = "rollback_failed" => f.phase = "rollback_latched" /\ f.recovery = TRUE
      /\ r.result \notin {None, "rollback_failed"} => f.recovery = FALSE
  <2>1. None # "rollback_failed"
    BY PortAssumption
  <2>2. CASE r.result = None
    BY <1>3, <2>1, <2>2 DEF FinishedPortV2, JobFields
  <2>3. CASE r.result = "rollback_failed"
    BY <1>3, <2>1, <2>3 DEF FinishedPortV2, JobFields
  <2>4. CASE r.result \notin {None, "rollback_failed"}
    BY <1>3, <2>1, <2>4 DEF FinishedPortV2, JobFields
  <2> QED BY <2>2, <2>3, <2>4
<1> HIDE DEF f
<1>7. jobs[i].recovery \in BOOLEAN
  BY DEF JobRowsOK, JobOK
<1>8. n.recovery \in BOOLEAN /\ f.recovery \in BOOLEAN
  BY <1>3, <1>4, <1>7
<1>5. CASE done /\ IsPortV2(jobs[i])
  <2>1. JobStep(i) /\ jobs'[i] = f
    BY <1>2, <1>3, <1>4, <1>5, JobPut
  <2>2. FinishedAs(i, r.result)
    BY <2>1, <1>3, <1>4 DEF FinishedAs
  <2> QED BY <2>1, <2>2, <1>2, <1>3, <1>4, <1>5, <1>8
<1>6. CASE ~(done /\ IsPortV2(jobs[i]))
  <2>1. JobStep(i) /\ jobs'[i] = n
    BY <1>2, <1>3, <1>6, JobPut
  <2> QED BY <2>1, <1>2, <1>3, <1>6, <1>8 DEF SamePhase
<1> QED BY <1>5, <1>6

LEMMA ConsumeShape ==
  ASSUME JobRowsOK, NEW i \in DOMAIN jobs, ConsumePortV2(i, "apply")
  PROVE  /\ JobStep(i) /\ jobs'[i].status = jobs[i].status /\ jobs'[i].gen = jobs[i].gen
         /\ jobs'[i].recovery = jobs[i].recovery /\ jobs'[i].phase = "consumed"
<1> DEFINE n == [jobs[i] EXCEPT !.phase = "consumed"]
<1>1. DOMAIN jobs[i] = JobFields
  BY JobFieldsOf
<1>2. jobs' = [jobs EXCEPT ![i] = n]
  BY <1>1 DEF ConsumePortV2
<1>3. /\ DOMAIN n = JobFields /\ n.op = jobs[i].op /\ n.target = jobs[i].target
      /\ n.agent = jobs[i].agent /\ n.plan = jobs[i].plan
      /\ n.status = jobs[i].status /\ n.gen = jobs[i].gen /\ n.recovery = jobs[i].recovery
      /\ n.phase = "consumed"
  BY <1>1 DEF JobFields
<1> HIDE DEF n
<1> QED BY <1>2, <1>3, JobPut

-----------------------------------------------------------------------------
(* The ownership. *)

SameOwner == own'.agent = own.agent /\ own'.epoch = own.epoch

LEMMA OwnUntouched ==
  ASSUME OwnOK, UNCHANGED <<own, policy>>
  PROVE  OwnOK' /\ SameOwner
BY DEF OwnOK, SameOwner

(* A policy is installed together with its revision in the ownership. *)
LEMMA PolicyInstalled ==
  ASSUME OwnOK, NEW a \in Agents, a = own.agent, NEW p, NEW v, v = p.proj,
         policy' = [policy EXCEPT ![a] = p], own' = [own EXCEPT !.rev = v]
  PROVE  OwnOK' /\ SameOwner
<1>1. /\ DOMAIN own' = DOMAIN own /\ own'.agent = own.agent /\ own'.epoch = own.epoch
      /\ own'.rev = v
  BY DEF OwnOK
<1>2. DOMAIN policy' = DOMAIN policy /\ policy'[a] = p
  BY DEF OwnOK
<1> QED BY <1>1, <1>2 DEF OwnOK, SameOwner

LEMMA SnapshotInstalled ==
  ASSUME OwnOK, NEW j, j.agent = own.agent, j.agent \in Agents, NEW s,
         SavePortPolicySnapshot(j, s)
  PROVE  OwnOK' /\ SameOwner
<1> DEFINE p == PortSnapshotPolicy(s)
<1>1. p.proj = s.proj
  BY DEF PortSnapshotPolicy
<1>2. policy' = [policy EXCEPT ![j.agent] = p] /\ own' = [own EXCEPT !.rev = s.proj]
  BY DEF SavePortPolicySnapshot
<1> HIDE DEF p
<1> QED BY <1>1, <1>2, PolicyInstalled

\* What each result of a port transaction does.
FinishCases(j, result) ==
  \/ result = None /\ WithdrawPortV2(j) /\ UNCHANGED <<own, policy>>
  \/ /\ result = "rollback_failed"
     /\ ep' = [ep EXCEPT ![j.target].status = "rollback_failed"]
     /\ UNCHANGED <<own, policy, ports>>
  \/ result = "unchanged" /\ UNCHANGED <<own, policy, ep, ports>>
  \/ result = "applied" /\ InstallPortV2(j, j.plan.target, "applied")
  \/ result = "rolled_back" /\ InstallPortV2(j, j.plan.rollback, "rolled_back")

LEMMA FinishSplit ==
  ASSUME NEW j, NEW result, FinishPortV2(j, result)
  PROVE  FinishCases(j, result) /\ PortResultAllowed(j, result) /\ ValidatePortV2State(j)
<1>1. None \notin {"applied", "unchanged", "rolled_back", "rollback_failed"}
  BY PortAssumption
<1>2. PortResultAllowed(j, result) /\ ValidatePortV2State(j)
  BY DEF FinishPortV2
<1>3. result \in {None, "rollback_failed", "unchanged", "applied", "rolled_back"}
  BY <1>2 DEF PortResultAllowed
<1>4. CASE result = None
  BY <1>1, <1>4 DEF FinishPortV2, FinishCases
<1>5. CASE result = "rollback_failed"
  BY <1>1, <1>5 DEF FinishPortV2, FinishCases
<1>6. CASE result = "unchanged"
  BY <1>1, <1>6 DEF FinishPortV2, FinishCases
<1>7. CASE result = "applied"
  BY <1>1, <1>7 DEF FinishPortV2, FinishCases
<1>8. CASE result = "rolled_back"
  BY <1>1, <1>8 DEF FinishPortV2, FinishCases
<1> QED BY <1>2, <1>3, <1>4, <1>5, <1>6, <1>7, <1>8

LEMMA FinishOwn ==
  ASSUME OwnOK, NEW j, j.agent = own.agent, j.agent \in Agents, NEW result,
         FinishPortV2(j, result)
  PROVE  OwnOK' /\ SameOwner
<1>1. FinishCases(j, result)
  BY FinishSplit
<1>2. CASE UNCHANGED <<own, policy>>
  BY <1>2, OwnUntouched
<1>3. ASSUME NEW s, SavePortPolicySnapshot(j, s)
      PROVE  OwnOK' /\ SameOwner
  BY <1>3, SnapshotInstalled
<1> QED BY <1>1, <1>2, <1>3 DEF FinishCases, InstallPortV2

-----------------------------------------------------------------------------
(* Job rows, grants, journal. *)

EndpointFields == {"local", "applied", "desired", "rev", "arev", "config", "status"}
EndpointsOK == /\ DOMAIN ep = Targets
               /\ \A t \in Targets : DOMAIN ep[t] = EndpointFields /\ ep[t].local \in Ports

\* Rows are kept, and lease generations only grow.
JobsGrow == /\ DOMAIN jobs \subseteq DOMAIN jobs'
            /\ \A k \in DOMAIN jobs : jobs'[k].gen \in Nat /\ jobs'[k].gen >= jobs[k].gen

LEMMA JobRowChanged ==
  ASSUME JobRowsOK, NEW i \in DOMAIN jobs, JobStep(i), SameOwner,
         jobs'[i].gen \in Nat, jobs'[i].gen >= jobs[i].gen, jobs'[i].recovery \in BOOLEAN
  PROVE  JobRowsOK' /\ JobsGrow
<1>1. \A k \in DOMAIN jobs : JobOK(jobs[k])
  BY DEF JobRowsOK
<1>2. JobOK(jobs[i])'
  BY <1>1 DEF JobOK, JobStep, SameOwner, IsPortV2
<1>3. \A k \in DOMAIN jobs : k # i => JobOK(jobs[k])'
  BY <1>1 DEF JobOK, JobStep, SameOwner, IsPortV2
<1>4. JobsGrow
  BY <1>1 DEF JobOK, JobStep, JobsGrow
<1> QED BY <1>2, <1>3, <1>4 DEF JobRowsOK, JobStep

LEMMA JobRowsUntouched ==
  ASSUME JobRowsOK, UNCHANGED jobs, own'.agent = own.agent
  PROVE  JobRowsOK' /\ JobsGrow
BY DEF JobRowsOK, JobOK, JobsGrow, IsPortV2, IsSeq

\* A row is added.
JobAdded(n) == /\ IsSeq(jobs') /\ DOMAIN jobs' = DOMAIN jobs \cup {Len(jobs) + 1}
               /\ Len(jobs) + 1 \notin DOMAIN jobs
               /\ \A k \in DOMAIN jobs : jobs'[k] = jobs[k]
               /\ jobs'[Len(jobs) + 1] = n

LEMMA JobPushed ==
  ASSUME JobRowsOK, NEW n, jobs' = Append(jobs, n)
  PROVE  JobAdded(n)
BY AnySeqPushed DEF JobRowsOK, JobAdded

LEMMA JobRowAdded ==
  ASSUME JobRowsOK, NEW n, JobAdded(n), JobOK(n), own'.agent = own.agent
  PROVE  JobRowsOK' /\ JobsGrow
<1>1. \A k \in DOMAIN jobs : JobOK(jobs[k])
  BY DEF JobRowsOK
<1>2. \A k \in DOMAIN jobs : JobOK(jobs[k])'
  BY <1>1 DEF JobOK, JobAdded, IsPortV2
<1>3. \A k \in DOMAIN jobs' : k \notin DOMAIN jobs => JobOK(jobs[k])'
  BY DEF JobAdded, JobOK, IsPortV2
<1> QED BY <1>1, <1>2, <1>3 DEF JobRowsOK, JobAdded, JobsGrow, JobOK

LEMMA GrantsUntouched ==
  ASSUME GrantsOK, JobsGrow, UNCHANGED grants
  PROVE  GrantsOK'
BY DEF GrantsOK, JobsGrow, IsSeq

LEMMA JournalUntouched ==
  ASSUME JournalOK, JobRowsOK, JobsGrow, DOMAIN host' = HostFields, host'.job = host.job,
         host'.sent = host.sent
  PROVE  JournalOK'
<1>1. \A k \in DOMAIN jobs : jobs[k].gen \in Nat
  BY DEF JobRowsOK, JobOK
<1> QED BY <1>1 DEF JournalOK, JobsGrow, JournalEntry

-----------------------------------------------------------------------------
(* The job lane keeps the rows consistent, and every row it does not write. *)

\* The part of the host that self-updates are about.
HostRunsSame == /\ DOMAIN host' = HostFields
                /\ host'.ver = host.ver /\ host'.phase = host.phase
                /\ host'.pending = host.pending /\ host'.gen = host.gen
                /\ host'.failed = host.failed

\* The part of the host that jobs are about.
HostWorksSame == /\ DOMAIN host' = HostFields
                 /\ host'.job = host.job /\ host'.sent = host.sent
                 /\ host'.effect = host.effect

LaneOK == OwnOK /\ JobsOK /\ EndpointsOK

LEMMA HostUntouched ==
  ASSUME LaneOK, UNCHANGED host
  PROVE  HostRunsSame /\ HostWorksSame
BY DEF LaneOK, JobsOK, JournalOK, HostRunsSame, HostWorksSame

LEMMA RefsUntouched ==
  ASSUME LaneOK, UNCHANGED <<grants, host>>, JobsGrow
  PROVE  GrantsOK' /\ JournalOK' /\ HostRunsSame
<1>1. HostRunsSame /\ HostWorksSame
  BY HostUntouched
<1>2. GrantsOK' /\ JournalOK'
  BY <1>1, GrantsUntouched, JournalUntouched DEF LaneOK, JobsOK, HostWorksSame
<1> QED BY <1>1, <1>2

(* What the lane leaves behind after each step. *)
LaneKept == OwnOK' /\ SameOwner /\ JobsOK' /\ HostRunsSame

LEMMA CreateLane ==
  ASSUME LaneOK, NEW a \in Agents, NEW t \in Targets, CreateSystemUpdate(a, t)
  PROVE  LaneKept /\ JobAdded(SoftwareJob(a, t))
<1> DEFINE n == SoftwareJob(a, t)
<1>1. OwnOK' /\ SameOwner
  BY OwnUntouched DEF CreateSystemUpdate, LaneOK
<1>2. JobRowsOK /\ own.agent = a
  BY DEF LaneOK, JobsOK, CreateSystemUpdate, CanCreateJob, Owns
<1>3. JobOK(n)
  BY <1>2 DEF JobOK, SoftwareJob, JobFields, IsPortV2
<1>4. jobs' = Append(jobs, n)
  BY DEF CreateSystemUpdate, InsertJob
<1> HIDE DEF n
<1>5. JobAdded(n)
  BY <1>2, <1>4, JobPushed
<1>6. JobRowsOK' /\ JobsGrow
  BY <1>1, <1>2, <1>3, <1>5, JobRowAdded DEF SameOwner
<1>7. GrantsOK' /\ JournalOK' /\ HostRunsSame
  BY <1>6, RefsUntouched DEF CreateSystemUpdate
<1> QED BY <1>1, <1>5, <1>6, <1>7 DEF LaneKept, JobsOK, n

LEMMA PortJobOK ==
  ASSUME LaneOK, NEW a \in Agents, NEW t \in Targets, NEW p \in Ports, NEW adv,
         own.agent = a
  PROVE  /\ JobOK(PortV2Job(a, t, p, adv)) /\ IsPortV2(PortV2Job(a, t, p, adv))
         /\ PortV2Job(a, t, p, adv).target = t
         /\ PortV2Job(a, t, p, adv).phase = "created"
         /\ PortV2Job(a, t, p, adv).status = "queued"
         /\ ~PortV2Job(a, t, p, adv).recovery
         /\ PortV2Job(a, t, p, adv).plan.before.local = ep[t].local
         /\ PortV2Job(a, t, p, adv).plan.target.local = p
         /\ PortV2NoOp(PortV2Job(a, t, p, adv)) <=> p = ep[t].local
<1> DEFINE n == PortV2Job(a, t, p, adv)
           b == GetPortPolicySnapshot(a, t)
<1>1. b.local = ep[t].local /\ ep[t].local \in Ports
  BY DEF GetPortPolicySnapshot, LaneOK, EndpointsOK
<1>2. /\ DOMAIN n = JobFields /\ n.op = "port" /\ n.target = t /\ n.agent = a /\ n.gen = 0
      /\ n.phase = "created" /\ n.status = "queued" /\ n.recovery = FALSE
  BY DEF PortV2Job, JobFields
<1>3. n.plan.before.local = ep[t].local
  BY <1>1 DEF PortV2Job
<1>4. n.plan.target.local = p
  BY <1>1 DEF PortV2Job, PortTransitionSnapshot, GetPortPolicySnapshot
<1>5. n.plan.rollback.local = ep[t].local
  BY <1>1 DEF PortV2Job, PortTransitionSnapshot, GetPortPolicySnapshot
<1> HIDE DEF n
<1>6. JobOK(n) /\ IsPortV2(n)
  <2>1. n.recovery \in BOOLEAN
    BY <1>2
  <2>2. n.agent = own.agent /\ n.agent \in Agents
    BY <1>2
  <2> QED BY <2>1, <2>2, <1>1, <1>2, <1>3, <1>4, <1>5 DEF JobOK, IsPortV2
<1>7. PortV2NoOp(n) <=> p = ep[t].local
  BY <1>3, <1>4, <1>6 DEF PortV2NoOp
<1> QED BY <1>2, <1>3, <1>4, <1>6, <1>7 DEF n

LEMMA CreatePortLane ==
  ASSUME LaneOK, NEW a \in Agents, NEW t \in Targets, NEW p \in Ports, NEW adv,
         CreatePortReconfiguration(a, t, p, adv)
  PROVE  LaneKept /\ JobAdded(PortV2Job(a, t, p, adv))
<1> DEFINE n == PortV2Job(a, t, p, adv)
<1>1. OwnOK' /\ SameOwner
  BY OwnUntouched DEF CreatePortReconfiguration, LaneOK
<1>2. JobRowsOK /\ own.agent = a
  BY DEF LaneOK, JobsOK, CreatePortReconfiguration, CanCreatePortV2, PortSnapshotAvailable
<1>3. JobOK(n)
  BY <1>2, PortJobOK
<1>4. jobs' = Append(jobs, n)
  BY DEF CreatePortReconfiguration, InsertPortV2
<1> HIDE DEF n
<1>5. JobAdded(n)
  BY <1>2, <1>4, JobPushed
<1>6. JobRowsOK' /\ JobsGrow
  BY <1>1, <1>2, <1>3, <1>5, JobRowAdded DEF SameOwner
<1>7. GrantsOK' /\ JournalOK' /\ HostRunsSame
  BY <1>6, RefsUntouched DEF CreatePortReconfiguration
<1> QED BY <1>1, <1>5, <1>6, <1>7 DEF LaneKept, JobsOK, n

LEMMA CancelLane ==
  ASSUME LaneOK, NEW i \in DOMAIN jobs, CancelSystemUpdate(i)
  PROVE  LaneKept
<1>1. JobRowsOK /\ JobOK(jobs[i])
  BY DEF LaneOK, JobsOK, JobRowsOK
<1>2. /\ JobStep(i) /\ jobs'[i].gen = jobs[i].gen /\ jobs'[i].recovery = jobs[i].recovery
  BY <1>1, CancelShape
<1>3. UNCHANGED <<own, policy, grants, host>>
  BY DEF CancelSystemUpdate, CancelJob, CancelPortV2
<1>4. OwnOK' /\ SameOwner
  BY <1>3, OwnUntouched DEF LaneOK
<1>5. JobRowsOK' /\ JobsGrow
  BY <1>1, <1>2, <1>4, JobRowChanged DEF JobOK
<1>6. GrantsOK' /\ JournalOK' /\ HostRunsSame
  BY <1>3, <1>5, RefsUntouched
<1> QED BY <1>4, <1>5, <1>6 DEF LaneKept, JobsOK

LEMMA LeaseLane ==
  ASSUME LaneOK, NEW i \in DOMAIN jobs, LeaseExpires(i)
  PROVE  LaneKept
<1>1. JobRowsOK /\ JobOK(jobs[i])
  BY DEF LaneOK, JobsOK, JobRowsOK
<1>2. JobStep(i) /\ jobs'[i].gen = jobs[i].gen /\ jobs'[i].recovery = jobs[i].recovery
  BY <1>1, LeaseShape DEF SamePhase
<1>3. OwnOK' /\ SameOwner
  BY OwnUntouched DEF LaneOK, LeaseExpires
<1>4. JobRowsOK' /\ JobsGrow
  BY <1>1, <1>2, <1>3, JobRowChanged DEF JobOK
<1>5. JournalOK' /\ HostRunsSame
  <2>1. HostRunsSame /\ HostWorksSame
    BY HostUntouched DEF LeaseExpires
  <2> QED BY <2>1, <1>1, <1>4, JournalUntouched DEF LaneOK, JobsOK, HostWorksSame
<1>6. GrantsOK'
  <2>1. /\ DOMAIN grants' = DOMAIN grants /\ IsSeq(grants)
        /\ grants' = [g \in DOMAIN grants |->
                  IF grants[g].job = i THEN [grants[g] EXCEPT !.live = FALSE] ELSE grants[g]]
    BY DEF LeaseExpires, LaneOK, JobsOK, GrantsOK
  <2>2. \A k \in DOMAIN grants : DOMAIN grants'[k] = GrantFields /\ grants'[k].job = grants[k].job
    <3>1. \A k \in DOMAIN grants : DOMAIN grants[k] = GrantFields
      BY DEF LaneOK, JobsOK, GrantsOK
    <3> QED BY <2>1, <3>1 DEF GrantFields
  <2>3. IsSeq(grants')
    BY <2>1, SequenceOver
  <2> QED BY <2>1, <2>2, <2>3, <1>4 DEF GrantsOK, LaneOK, JobsOK, JobsGrow
<1> QED BY <1>3, <1>4, <1>5, <1>6 DEF LaneKept, JobsOK

\* The lease is journalled, or the answer is lost.
LEMMA JournalShape ==
  ASSUME LaneOK, NEW i \in DOMAIN jobs, NEW d, JournalLease(i, d)
  PROVE  /\ HostRunsSame /\ host'.sent = host.sent /\ host'.effect = host.effect
         /\ \/ host'.job = host.job
            \/ host'.job = [id |-> i, gen |-> jobs[i].gen + 1, seq |-> 0, ended |-> FALSE]
<1>1. DOMAIN host = HostFields
  BY DEF LaneOK, JobsOK, JournalOK
<1> QED BY <1>1 DEF JournalLease, HostRunsSame, HostFields

LEMMA ClaimLane ==
  ASSUME LaneOK, NEW i \in DOMAIN jobs, NEW a \in Agents, NEW idle, NEW d,
         ServiceClaim(a, i, idle, d)
  PROVE  LaneKept
<1>1. JobRowsOK /\ JobOK(jobs[i]) /\ ClaimJob(i) /\ JournalLease(i, d)
  BY DEF LaneOK, JobsOK, JobRowsOK, ServiceClaim
<1>2. JobStep(i) /\ jobs'[i].gen = jobs[i].gen + 1 /\ jobs'[i].recovery = jobs[i].recovery
  BY <1>1, ClaimShape DEF SamePhase
<1>3. OwnOK' /\ SameOwner
  BY OwnUntouched DEF LaneOK, ServiceClaim
<1>4. JobRowsOK' /\ JobsGrow
  BY <1>1, <1>2, <1>3, JobRowChanged DEF JobOK
<1>5. GrantsOK'
  BY <1>4, GrantsUntouched DEF LaneOK, JobsOK, ServiceClaim
<1>6. HostRunsSame /\ host'.sent = host.sent
  BY <1>1, JournalShape
<1>7. JournalOK'
  <2>1. CASE host'.job = host.job
    BY <2>1, <1>1, <1>4, <1>6, JournalUntouched DEF LaneOK, JobsOK, HostRunsSame
  <2>2. CASE host'.job = [id |-> i, gen |-> jobs[i].gen + 1, seq |-> 0, ended |-> FALSE]
    <3>1. i \in Nat /\ jobs[i].gen \in Nat
      BY <1>1 DEF JobRowsOK, IsSeq, JobOK
    <3>2. /\ host'.job \in JournalEntry /\ host'.job.id = i
          /\ host'.job.gen = jobs'[i].gen
      BY <2>2, <3>1, <1>2 DEF JournalEntry
    <3>3. \A r \in host.sent : r.job \in DOMAIN jobs' /\ r.gen \in Nat /\ r.gen <= jobs'[r.job].gen
      <4>1. \A k \in DOMAIN jobs : jobs[k].gen \in Nat
        BY <1>1 DEF JobRowsOK, JobOK
      <4> QED BY <4>1, <1>4 DEF JobsGrow, LaneOK, JobsOK, JournalOK
    <3>4. jobs'[i].gen \in Nat /\ i \in DOMAIN jobs'
      BY <1>2, <3>1, <1>4 DEF JobsGrow
    <3> QED BY <3>2, <3>3, <3>4, <1>6 DEF JournalOK, HostRunsSame, LaneOK, JobsOK
  <2> QED BY <2>1, <2>2, <1>1, JournalShape
<1> QED BY <1>3, <1>4, <1>5, <1>6, <1>7 DEF LaneKept, JobsOK

LEMMA ClearLane ==
  ASSUME LaneOK, NEW a \in Agents, ServiceClaimClears(a)
  PROVE  /\ LaneKept /\ host'.job = None /\ host'.sent = host.sent
         /\ host'.effect = host.effect
<1>1. OwnOK' /\ SameOwner
  BY OwnUntouched DEF LaneOK, ServiceClaimClears
<1>2. JobRowsOK' /\ JobsGrow
  BY <1>1, JobRowsUntouched DEF LaneOK, JobsOK, ServiceClaimClears, SameOwner
<1>3. GrantsOK'
  BY <1>2, GrantsUntouched DEF LaneOK, JobsOK, ServiceClaimClears
<1>4. DOMAIN host = HostFields
  BY DEF LaneOK, JobsOK, JournalOK
<1>5. /\ HostRunsSame /\ host'.job = None /\ host'.sent = host.sent
      /\ host'.effect = host.effect
  BY <1>4 DEF ServiceClaimClears, HostRunsSame, HostFields
<1>6. JournalOK'
  <2>1. jobs' = jobs
    BY DEF ServiceClaimClears
  <2> QED BY <2>1, <1>5 DEF LaneOK, JobsOK, JournalOK, HostRunsSame
<1> QED BY <1>1, <1>2, <1>3, <1>5, <1>6 DEF LaneKept, JobsOK

LEMMA ReportLane ==
  ASSUME LaneOK, NEW r \in host.sent, ServiceReport(r)
  PROVE  LaneKept /\ r.job \in DOMAIN jobs
<1> DEFINE i == r.job
<1>1. /\ i \in DOMAIN jobs /\ JobRowsOK /\ JobOK(jobs[i]) /\ ReportJob(i, r)
      /\ UNCHANGED <<grants, host>>
  BY DEF LaneOK, JobsOK, JournalOK, JobRowsOK, ServiceReport
<1> HIDE DEF i
<1>2. /\ JobStep(i) /\ jobs'[i].gen = jobs[i].gen
      /\ jobs'[i].recovery \in BOOLEAN
      /\ \/ FinishPortV2(jobs[i], r.result)
         \/ UNCHANGED <<own, policy>>
  BY <1>1, ReportShape
<1>3. OwnOK' /\ SameOwner
  <2>1. CASE FinishPortV2(jobs[i], r.result)
    BY <2>1, <1>1, FinishOwn DEF LaneOK, JobOK
  <2>2. CASE UNCHANGED <<own, policy>>
    BY <2>2, OwnUntouched DEF LaneOK
  <2> QED BY <2>1, <2>2, <1>2
<1>4. JobRowsOK' /\ JobsGrow
  BY <1>1, <1>2, <1>3, JobRowChanged DEF JobOK
<1>5. GrantsOK' /\ JournalOK' /\ HostRunsSame
  BY <1>1, <1>4, RefsUntouched
<1> QED BY <1>1, <1>3, <1>4, <1>5 DEF LaneKept, JobsOK, i

LEMMA GrantLane ==
  ASSUME LaneOK, NEW op, MutationGrantIssue(op)
  PROVE  LaneKept
<1> DEFINE g == [job |-> host.job.id, gen |-> host.job.gen, op |-> op, live |-> TRUE,
                 consumed |-> FALSE]
<1>1. OwnOK' /\ SameOwner
  BY OwnUntouched DEF LaneOK, MutationGrantIssue
<1>2. JobRowsOK' /\ JobsGrow
  BY <1>1, JobRowsUntouched DEF LaneOK, JobsOK, MutationGrantIssue, SameOwner
<1>3. HostRunsSame /\ HostWorksSame
  BY HostUntouched DEF MutationGrantIssue
<1>4. JournalOK'
  BY <1>2, <1>3, JournalUntouched DEF LaneOK, JobsOK, HostWorksSame
<1>5. g.job \in DOMAIN jobs /\ DOMAIN g = GrantFields
  BY DEF MutationGrantIssue, LaneOK, JobsOK, JournalOK, GrantFields
<1>6. grants' = Append(grants, g)
  BY DEF MutationGrantIssue, IssueGrant
<1> HIDE DEF g
<1>7. /\ IsSeq(grants') /\ DOMAIN grants' = DOMAIN grants \cup {Len(grants) + 1}
      /\ \A k \in DOMAIN grants : grants'[k] = grants[k]
      /\ grants'[Len(grants) + 1] = g
  BY <1>6, AnySeqPushed DEF LaneOK, JobsOK, GrantsOK
<1>8. GrantsOK'
  BY <1>2, <1>5, <1>7 DEF GrantsOK, LaneOK, JobsOK, JobsGrow
<1> QED BY <1>1, <1>2, <1>3, <1>4, <1>8 DEF LaneKept, JobsOK

\* What using a grant does to the job it names and to the effect on the host.
ConsumeCases(i) ==
  \/ /\ IsPortV2(jobs[i]) /\ ConsumePortV2(i, "apply")
  \/ UNCHANGED <<own, policy, ep, jobs>>

LEMMA ConsumeSplit ==
  ASSUME LaneOK, NEW k \in DOMAIN grants, NEW o, MutationGrantConsume(k, o)
  PROVE  /\ grants[k].job \in DOMAIN jobs
         /\ ConsumeCases(grants[k].job)
         /\ jobs[grants[k].job].status \in {"installing", "reconciling"}
         /\ jobs[grants[k].job].gen = grants[k].gen
         /\ ~ExecutorEnded(grants[k])
         /\ UNCHANGED <<svc, ports>>
<1> DEFINE i == grants[k].job
<1>1. i \in DOMAIN jobs
  BY DEF LaneOK, JobsOK, GrantsOK
<1>2. ~grants[k].consumed /\ ConsumeGrant(k) /\ CanConsumeGrant(grants[k]) /\ ~ExecutorEnded(grants[k])
      /\ UNCHANGED <<svc, ports>>
  BY DEF MutationGrantConsume
<1>3. IF IsPortV2(jobs[i]) THEN ConsumePortV2(i, grants[k].op) ELSE UNCHANGED <<own, policy, ep, jobs>>
  BY <1>2 DEF ConsumeGrant
<1>4. ConsumePortV2(i, grants[k].op) => ConsumePortV2(i, "apply") \/ UNCHANGED <<own, policy, ep, jobs>>
  BY DEF ConsumePortV2
<1>5. jobs[i].status \in {"installing", "reconciling"} /\ jobs[i].gen = grants[k].gen
  BY <1>2 DEF CanConsumeGrant, GrantMatchesCurrentJob, GrantOperationMatchesStatus
<1> QED BY <1>1, <1>2, <1>3, <1>4, <1>5 DEF ConsumeCases

LEMMA ConsumeHost ==
  ASSUME LaneOK, NEW k \in DOMAIN grants, NEW o, MutationGrantConsume(k, o)
  PROVE  /\ HostRunsSame /\ host'.job = host.job /\ host'.sent = host.sent
         /\ DOMAIN host'.effect = DOMAIN host.effect
         /\ \A m \in DOMAIN host.effect : m # grants[k].job => host'.effect[m] = host.effect[m]
<1>1. DOMAIN host = HostFields
  BY DEF LaneOK, JobsOK, JournalOK
<1>2. PICK x : host' = [host EXCEPT !.effect = [@ EXCEPT ![grants[k].job] = x]]
  BY <1>1 DEF MutationGrantConsume, HostFields
<1> QED BY <1>1, <1>2 DEF HostRunsSame, HostFields

LEMMA ConsumeLane ==
  ASSUME LaneOK, NEW k \in DOMAIN grants, NEW o, MutationGrantConsume(k, o)
  PROVE  LaneKept
<1> DEFINE i == grants[k].job
           g == [grants[k] EXCEPT !.consumed = TRUE]
<1>1. i \in DOMAIN jobs /\ ConsumeCases(i)
  BY ConsumeSplit
<1>2. JobRowsOK /\ JobOK(jobs[i])
  BY <1>1 DEF LaneOK, JobsOK, JobRowsOK
<1>3. DOMAIN grants[k] = GrantFields /\ i \in DOMAIN jobs
  BY DEF LaneOK, JobsOK, GrantsOK
<1>4. DOMAIN g = GrantFields /\ g.job = i
  BY <1>3 DEF GrantFields
<1>5. grants' = [grants EXCEPT ![k] = g]
  BY <1>3 DEF MutationGrantConsume, ConsumeGrant
<1> HIDE DEF g, i
<1>6. /\ IsSeq(grants') /\ DOMAIN grants' = DOMAIN grants /\ grants'[k] = g
      /\ \A m \in DOMAIN grants : m # k => grants'[m] = grants[m]
  BY <1>5, AnySeqPut DEF LaneOK, JobsOK, GrantsOK
<1>7. OwnOK' /\ SameOwner /\ JobRowsOK' /\ JobsGrow
  <2>1. CASE IsPortV2(jobs[i]) /\ ConsumePortV2(i, "apply")
    <3>1. SavePortPolicySnapshot(jobs[i], jobs[i].plan.target)
      BY <2>1 DEF ConsumePortV2
    <3>2. OwnOK' /\ SameOwner
      BY <3>1, <1>2, SnapshotInstalled DEF LaneOK, JobOK
    <3>3. /\ JobStep(i) /\ jobs'[i].gen = jobs[i].gen
          /\ jobs'[i].recovery = jobs[i].recovery
      BY <2>1, <1>1, <1>2, ConsumeShape
    <3> QED BY <3>2, <3>3, <1>1, <1>2, JobRowChanged DEF JobOK
  <2>2. CASE UNCHANGED <<own, policy, ep, jobs>>
    <3>1. OwnOK' /\ SameOwner
      BY <2>2, OwnUntouched DEF LaneOK
    <3> QED BY <3>1, <2>2, <1>2, JobRowsUntouched DEF SameOwner
  <2> QED BY <2>1, <2>2, <1>1 DEF ConsumeCases
<1>8. GrantsOK'
  BY <1>1, <1>4, <1>6, <1>7 DEF GrantsOK, LaneOK, JobsOK, JobsGrow
<1>9. HostRunsSame /\ host'.job = host.job /\ host'.sent = host.sent
  BY ConsumeHost
<1>10. JournalOK'
  BY <1>2, <1>7, <1>9, JournalUntouched DEF LaneOK, JobsOK, HostRunsSame
<1> QED BY <1>7, <1>8, <1>9, <1>10 DEF LaneKept, JobsOK

\* What sending a report changes.
SentAs(r) ==
  /\ HostRunsSame /\ host'.effect = host.effect
  /\ \A q \in host'.sent : q \in host.sent \/ q = r
  /\ host'.job \in JournalEntry /\ host'.job.id = host.job.id /\ host'.job.gen = host.job.gen
  /\ host.job.ended => host'.job.ended
  /\ r.seq = 0 /\ r.status \in TerminalJob => host'.job.ended

LEMMA SendShape ==
  ASSUME DOMAIN host = HostFields, host.job \in JournalEntry, NEW r, r.seq \in Nat, Send(r)
  PROVE  SentAs(r)
<1> DEFINE e == r.seq = 0 /\ r.status \in TerminalJob
           j == [host.job EXCEPT !.seq = IF r.seq > 0 THEN r.seq ELSE @, !.ended = @ \/ e]
<1>1. PICK kept \in SUBSET host.sent :
        host' = [host EXCEPT !.sent = kept \cup {r},
                             !.job.seq = IF r.seq > 0 THEN r.seq ELSE @,
                             !.job.ended = @ \/ (r.seq = 0 /\ r.status \in TerminalJob)]
  BY DEF Send
<1>2. host' = [host EXCEPT !.sent = kept \cup {r}, !.job = j]
  BY <1>1 DEF HostFields, JournalEntry
<1>3. /\ j.id = host.job.id /\ j.gen = host.job.gen
      /\ j.seq \in Nat /\ j.ended = (host.job.ended \/ e)
      /\ DOMAIN j = DOMAIN host.job
  BY DEF JournalEntry
<1>4. j \in JournalEntry
  BY DEF JournalEntry
<1> HIDE DEF j
<1>5. /\ host'.sent = kept \cup {r} /\ host'.job = j /\ host'.effect = host.effect /\ HostRunsSame
  BY <1>2 DEF HostRunsSame, HostFields
<1> QED BY <1>3, <1>4, <1>5 DEF SentAs

LEMMA SendLane ==
  ASSUME LaneOK, host.job # None, NEW r, r.job = host.job.id, r.gen = host.job.gen, r.seq \in Nat,
         r.status \in ExecutingJob \cup {"succeeded", "rolled_back", "failed"},
         Send(r), UNCHANGED <<own, policy, svc, tokens, jobs, grants, rots, ups, upGrants, ports, ep>>
  PROVE  LaneKept /\ SentAs(r)
<1>1. OwnOK' /\ SameOwner
  BY OwnUntouched DEF LaneOK
<1>2. JobRowsOK' /\ JobsGrow
  BY <1>1, JobRowsUntouched DEF LaneOK, JobsOK, SameOwner
<1>3. GrantsOK'
  BY <1>2, GrantsUntouched DEF LaneOK, JobsOK
<1>4. /\ DOMAIN host = HostFields /\ host.job \in JournalEntry /\ host.job.id \in DOMAIN jobs
      /\ host.job.gen <= jobs[host.job.id].gen /\ host.job.gen \in Nat
  BY DEF LaneOK, JobsOK, JournalOK, JournalEntry
<1>5. SentAs(r)
  BY <1>4, SendShape
<1>6. \A q \in host.sent :
        /\ q.job \in DOMAIN jobs
        /\ q.gen \in Nat /\ q.gen <= jobs[q.job].gen
        /\ q.status \in ExecutingJob \cup {"succeeded", "rolled_back", "failed"}
  BY DEF LaneOK, JobsOK, JournalOK
<1>7. JournalOK'
  BY <1>4, <1>5, <1>6 DEF JournalOK, SentAs, HostRunsSame
<1> QED BY <1>1, <1>2, <1>3, <1>5, <1>7 DEF LaneKept, JobsOK, SentAs

LEMMA ProgressLane ==
  ASSUME LaneOK, NEW s \in Reported, AgentReportsProgress(s)
  PROVE  /\ LaneKept
         /\ \E r : SentAs(r) /\ r.status \notin TerminalJob /\ host.job # None
<1> DEFINE r == [job |-> host.job.id, gen |-> host.job.gen, seq |-> host.job.seq + 1,
                 status |-> s, result |-> None]
<1>1. host.job # None /\ Send(r)
      /\ UNCHANGED <<own, policy, svc, tokens, jobs, grants, rots, ups, upGrants, ports, ep>>
  BY DEF AgentReportsProgress
<1>2. host.job.seq \in Nat
  BY <1>1 DEF LaneOK, JobsOK, JournalOK, JournalEntry
<1>3. s \in ExecutingJob
  BY JobsAssumption
<1>4. /\ r.job = host.job.id /\ r.gen = host.job.gen /\ r.seq \in Nat /\ r.status = s
  BY <1>2
<1> HIDE DEF r
<1>5. LaneKept /\ SentAs(r)
  BY <1>1, <1>3, <1>4, SendLane
<1>6. s \notin TerminalJob
  BY <1>3 DEF ExecutingJob, TerminalJob
<1> QED BY <1>1, <1>4, <1>5, <1>6

LEMMA ResultLane ==
  ASSUME LaneOK, NEW s \in {"succeeded", "rolled_back", "failed", "reconciling"}, NEW x,
         AgentReportsResult(s, x)
  PROVE  /\ LaneKept
         /\ \E r : /\ SentAs(r) /\ r.job = host.job.id /\ r.gen = host.job.gen /\ r.seq = 0
                   /\ r.status = s /\ r.result = x /\ host.job # None
                   /\ HonestResult(jobs[host.job.id], host.effect[host.job.id], s, x)
<1> DEFINE r == [job |-> host.job.id, gen |-> host.job.gen, seq |-> 0, status |-> s,
                 result |-> x]
<1>1. host.job # None /\ Send(r)
      /\ HonestResult(jobs[host.job.id], host.effect[host.job.id], s, x)
      /\ UNCHANGED <<own, policy, svc, tokens, jobs, grants, rots, ups, upGrants, ports, ep>>
  BY DEF AgentReportsResult
<1>2. /\ r.job = host.job.id /\ r.gen = host.job.gen /\ r.seq = 0 /\ r.status = s
      /\ r.result = x
  OBVIOUS
<1> HIDE DEF r
<1>3. s \in ExecutingJob \cup {"succeeded", "rolled_back", "failed"}
  BY DEF ExecutingJob
<1>4. LaneKept /\ SentAs(r)
  BY <1>1, <1>2, <1>3, SendLane
<1> QED BY <1>1, <1>2, <1>4

-----------------------------------------------------------------------------
(* Port transactions. *)

Taken(t) == [svc |-> t, role |-> "api"]
Announced(t) == [svc |-> t, role |-> "api_pending"]

OpenPort(j) == IsPortV2(j) /\ JobHoldsHost(j)

\* An open transaction has both ports; its target listens on the old one until
\* the target policy is installed and on the new one from then on.
OpenOK(j) ==
  /\ j.phase \in {"created", "consumed", "rollback_latched"}
  /\ j.recovery => j.phase = "rollback_latched"
  /\ ports[j.plan.before.local] = Taken(j.target)
  /\ PortV2NoOp(j) => j.phase = "created" /\ ep[j.target].desired = ep[j.target].applied
  /\ ~PortV2NoOp(j) => ports[j.plan.target.local] = Announced(j.target)
  /\ ep[j.target].local = IF j.phase = "created" THEN j.plan.before.local
                                                  ELSE j.plan.target.local

\* A target without an open transaction owns the port it listens on.
SettledTarget(t) == ports[ep[t].local] = Taken(t) /\ ep[t].desired = ep[t].applied

BusyTarget(t) == \E i \in DOMAIN jobs : OpenPort(jobs[i]) /\ jobs[i].target = t

PortRolesOK ==
  \A p \in Ports : ports[p] # None =>
    \/ ports[p].role = "api"
    \/ \E i \in DOMAIN jobs : /\ OpenPort(jobs[i]) /\ ~PortV2NoOp(jobs[i])
                              /\ p = jobs[i].plan.target.local

\* An open transaction is the only work on the host.
OnlyWork(i) == \A k \in DOMAIN jobs : JobHoldsHost(jobs[k]) => k = i

PortsOK ==
  /\ DOMAIN ports = Ports
  /\ own.epoch = 0 => DOMAIN jobs = {} /\ \A p \in Ports : ports[p] = None
  /\ own.epoch = 0 => \A t \in Targets : ep[t].desired = ep[t].applied
  /\ own.epoch # 0 => \A t \in Targets : ~BusyTarget(t) => SettledTarget(t)
  /\ \A i \in DOMAIN jobs : OpenPort(jobs[i]) => OpenOK(jobs[i]) /\ OnlyWork(i)
  /\ PortRolesOK

LEMMA Reservations ==
  ASSUME NEW t \in Targets
  PROVE  /\ Taken(t) # None /\ Announced(t) # None /\ Taken(t) # Announced(t)
         /\ Taken(t).role = "api" /\ Taken(t).svc = t /\ Announced(t).svc = t
         /\ \A u \in Targets : u # t => Taken(u) # Taken(t) /\ Taken(u) # Announced(t)
<1>1. Taken(t) \in [svc : Targets, role : {"api", "api_pending"}]
  BY DEF Taken
<1>2. Announced(t) \in [svc : Targets, role : {"api", "api_pending"}]
  BY DEF Announced
<1>3. Taken(t).role = "api" /\ Announced(t).role = "api_pending"
  BY DEF Taken, Announced
<1>4. Taken(t).svc = t /\ Announced(t).svc = t /\ \A u \in Targets : Taken(u).svc = u
  BY DEF Taken, Announced
<1> QED BY <1>1, <1>2, <1>3, <1>4, HostAssumption

\* Endpoints keep what the properties are about.
EndpointsKept == /\ DOMAIN ep' = Targets
                 /\ \A t \in Targets : /\ DOMAIN ep'[t] = EndpointFields
                                       /\ ep'[t].local = ep[t].local
                                       /\ ep'[t].desired = ep[t].desired
                                       /\ ep'[t].applied = ep[t].applied

LEMMA EndpointsUntouched ==
  ASSUME EndpointsOK, UNCHANGED ep
  PROVE  EndpointsKept
BY DEF EndpointsOK, EndpointsKept

LEMMA EndpointsKeptOK ==
  ASSUME EndpointsOK, EndpointsKept
  PROVE  EndpointsOK'
BY DEF EndpointsOK, EndpointsKept

\* Transactions neither open nor close nor move.
TransactionsKept ==
  /\ DOMAIN jobs' = DOMAIN jobs
  /\ \A i \in DOMAIN jobs :
       /\ jobs'[i].op = jobs[i].op /\ jobs'[i].target = jobs[i].target
       /\ jobs'[i].plan = jobs[i].plan
       /\ OpenPort(jobs'[i]) <=> OpenPort(jobs[i])
       /\ OpenPort(jobs[i]) => jobs'[i].phase = jobs[i].phase /\ jobs'[i].recovery = jobs[i].recovery
       /\ JobHoldsHost(jobs'[i]) => JobHoldsHost(jobs[i])

LEMMA PortsKept ==
  ASSUME PortsOK, TransactionsKept, EndpointsKept, UNCHANGED ports, own'.epoch = own.epoch,
         \A i \in DOMAIN jobs : jobs[i].target \in Targets
  PROVE  PortsOK'
<1>1. \A t \in Targets : BusyTarget(t)' => BusyTarget(t)
  BY DEF TransactionsKept, BusyTarget, OpenPort, JobHoldsHost, IsPortV2
<1>2. \A t \in Targets : BusyTarget(t) => BusyTarget(t)'
  BY DEF TransactionsKept, BusyTarget, OpenPort, JobHoldsHost, IsPortV2
<1>3. \A t \in Targets : SettledTarget(t) => SettledTarget(t)'
  BY DEF SettledTarget, Taken, EndpointsKept
<1>4. ASSUME NEW i \in DOMAIN jobs, OpenPort(jobs'[i])
      PROVE  OpenOK(jobs[i])' /\ OnlyWork(i)'
  <2>1. OpenPort(jobs[i]) /\ OpenOK(jobs[i]) /\ OnlyWork(i)
    BY <1>4 DEF TransactionsKept, PortsOK
  <2>2. OnlyWork(i)'
    BY <2>1 DEF OnlyWork, TransactionsKept, JobHoldsHost
  <2>3. OpenOK(jobs[i])'
    BY <2>1 DEF OpenOK, TransactionsKept, EndpointsKept, PortV2NoOp, IsPortV2, Taken, Announced
  <2> QED BY <2>2, <2>3
<1>5. PortRolesOK'
  BY DEF PortsOK, PortRolesOK, TransactionsKept, OpenPort, JobHoldsHost, PortV2NoOp, IsPortV2
<1>6. \A i \in DOMAIN jobs' : OpenPort(jobs[i])' => OpenOK(jobs[i])' /\ OnlyWork(i)'
  BY <1>4 DEF TransactionsKept, OpenPort, JobHoldsHost, IsPortV2
<1>7. own'.epoch = 0 => DOMAIN jobs' = {} /\ \A p \in Ports : ports'[p] = None
  BY DEF PortsOK, TransactionsKept
<1>8. own'.epoch = 0 => \A t \in Targets : ep'[t].desired = ep'[t].applied
  BY DEF PortsOK, EndpointsKept
<1>9. own'.epoch # 0 => \A t \in Targets : ~BusyTarget(t)' => SettledTarget(t)'
  BY <1>2, <1>3 DEF PortsOK
<1> QED BY <1>5, <1>6, <1>7, <1>8, <1>9 DEF PortsOK

LEMMA TransactionKept ==
  ASSUME NEW i \in DOMAIN jobs, JobStep(i), SamePhase(i),
         JobHoldsHost(jobs'[i]) => JobHoldsHost(jobs[i]),
         IsPortV2(jobs[i]) => (JobHoldsHost(jobs'[i]) <=> JobHoldsHost(jobs[i]))
  PROVE  TransactionsKept
<1>1. \A k \in DOMAIN jobs : k # i => jobs'[k] = jobs[k]
  BY DEF JobStep
<1>2. /\ jobs'[i].op = jobs[i].op /\ jobs'[i].target = jobs[i].target
      /\ jobs'[i].plan = jobs[i].plan
      /\ jobs'[i].phase = jobs[i].phase /\ jobs'[i].recovery = jobs[i].recovery
  BY DEF JobStep, SamePhase
<1>3. OpenPort(jobs'[i]) <=> OpenPort(jobs[i])
  BY <1>2 DEF OpenPort, IsPortV2
<1>4. DOMAIN jobs' = DOMAIN jobs
  BY DEF JobStep
<1> QED BY <1>1, <1>2, <1>3, <1>4 DEF TransactionsKept

(* A job that is no port job begins while no transaction is open. *)
LEMMA PortsUnderNewJob ==
  ASSUME PortsOK, EndpointsOK, NEW n, JobAdded(n), ~IsPortV2(n), UNCHANGED <<ports, ep>>,
         own'.epoch = own.epoch, own.epoch # 0,
         \A i \in DOMAIN jobs : ~OpenPort(jobs[i])
  PROVE  PortsOK'
<1>1. \A i \in DOMAIN jobs' : ~OpenPort(jobs'[i])
  BY DEF JobAdded, OpenPort
<1>2. \A i \in DOMAIN jobs' : ~OpenPort(jobs[i])'
  BY <1>1 DEF OpenPort, JobHoldsHost, IsPortV2
<1>3. \A t \in Targets : ~BusyTarget(t) /\ SettledTarget(t)
  BY DEF BusyTarget, PortsOK
<1>4. \A t \in Targets : SettledTarget(t)'
  BY <1>3 DEF SettledTarget, Taken
<1>5. PortRolesOK'
  BY DEF PortsOK, PortRolesOK
<1> QED BY <1>2, <1>4, <1>5 DEF PortsOK

\* What the transaction of job i leaves of the endpoints and the reservations
\* when it ends.
SettledFor(i) ==
  LET t == jobs[i].target
      old == jobs[i].plan.before.local
      new == jobs[i].plan.target.local
  IN /\ DOMAIN ports' = Ports /\ DOMAIN ep' = Targets
     /\ \A u \in Targets : DOMAIN ep'[u] = EndpointFields /\ (u # t => ep'[u] = ep[u])
     /\ \A p \in Ports : p \notin {old, new} => ports'[p] = ports[p]
     /\ \A p \in {old, new} : ports'[p] \in {None, Taken(t)}
     /\ ep'[t].local \in Ports
     /\ ports'[ep'[t].local] = Taken(t) /\ ep'[t].desired = ep'[t].applied

LEMMA PortClosed ==
  ASSUME PortsOK, EndpointsOK, JobRowsOK, NEW i \in DOMAIN jobs, OpenPort(jobs[i]), JobStep(i),
         ~JobHoldsHost(jobs'[i]), SettledFor(i), own'.epoch = own.epoch
  PROVE  PortsOK' /\ EndpointsOK'
<1> DEFINE t == jobs[i].target
           old == jobs[i].plan.before.local
           new == jobs[i].plan.target.local
<1>1. t \in Targets /\ old \in Ports /\ new \in Ports
  BY DEF JobRowsOK, JobOK, OpenPort
<1>2. OpenOK(jobs[i]) /\ OnlyWork(i) /\ own.epoch # 0
  BY DEF PortsOK
<1>3. ports[old] = Taken(t) /\ ports[new] \in {Taken(t), Announced(t)}
  BY <1>2 DEF OpenOK, PortV2NoOp, OpenPort
<1>4. \A k \in DOMAIN jobs' : ~JobHoldsHost(jobs'[k])
  BY <1>2 DEF OnlyWork, JobStep
<1>5. \A k \in DOMAIN jobs' : ~OpenPort(jobs[k])'
  BY <1>4 DEF OpenPort, JobHoldsHost
<1>6. EndpointsOK'
  BY DEF SettledFor, EndpointsOK
<1>7. \A u \in Targets : u # t => SettledTarget(u)
  <2> SUFFICES ASSUME NEW u \in Targets, u # t
               PROVE  ~BusyTarget(u)
    BY <1>2 DEF PortsOK
  <2> QED BY <1>2 DEF BusyTarget, OnlyWork, OpenPort
<1>8. \A u \in Targets : u # t => ep[u].local \notin {old, new} /\ ep[u].local \in Ports
  BY <1>1, <1>3, <1>7, Reservations DEF SettledTarget, EndpointsOK
<1>9. \A u \in Targets : u # t => SettledTarget(u)'
  <2> SUFFICES ASSUME NEW u \in Targets, u # t
               PROVE  ports'[ep'[u].local] = Taken(u) /\ ep'[u].desired = ep'[u].applied
    BY DEF SettledTarget, Taken
  <2>1. ep'[u] = ep[u] /\ ports'[ep[u].local] = ports[ep[u].local]
    BY <1>8 DEF SettledFor
  <2> QED BY <2>1, <1>7 DEF SettledTarget
<1>10. ports'[ep'[t].local] = Taken(t) /\ ep'[t].desired = ep'[t].applied
  BY DEF SettledFor
<1>11. \A u \in Targets : u = t => ports'[ep'[u].local] = Taken(u) /\ ep'[u].desired = ep'[u].applied
  BY <1>10
<1>12. \A u \in Targets : u = t => SettledTarget(u)'
  BY <1>11 DEF SettledTarget, Taken
<1>13. PortRolesOK'
  <2> SUFFICES ASSUME NEW p \in Ports, ports'[p] # None
               PROVE  ports'[p].role = "api"
    BY DEF PortRolesOK
  <2>1. CASE p \in {old, new}
    BY <2>1, <1>1, Reservations DEF SettledFor
  <2>2. CASE p \notin {old, new}
    <3>1. ports'[p] = ports[p]
      BY <2>2 DEF SettledFor
    <3>2. \A k \in DOMAIN jobs : OpenPort(jobs[k]) => k = i
      BY <1>2 DEF OnlyWork, OpenPort
    <3> QED BY <2>2, <3>1, <3>2 DEF PortsOK, PortRolesOK
  <2> QED BY <2>1, <2>2
<1>14. DOMAIN ports' = Ports
  BY DEF SettledFor
<1> QED BY <1>2, <1>5, <1>6, <1>9, <1>12, <1>13, <1>14 DEF PortsOK

(* Creating a transaction announces its endpoint and takes its port. *)
LEMMA PortCreated ==
  ASSUME LaneOK, PortsOK, NEW a \in Agents, NEW t \in Targets, NEW p \in Ports, NEW adv,
         CreatePortReconfiguration(a, t, p, adv)
  PROVE  PortsOK' /\ EndpointsOK'
<1> DEFINE n == PortV2Job(a, t, p, adv)
           m == Len(jobs) + 1
<1>1. /\ own.agent = a /\ own.epoch # 0 /\ own' = own
      /\ \A k \in DOMAIN jobs : ~JobHoldsHost(jobs[k])
      /\ ports[ep[t].local] = Taken(t) /\ (p # ep[t].local => ports[p] = None)
  BY DEF CreatePortReconfiguration, CanCreatePortV2, PortSnapshotAvailable, HoldingJobs,
         ValidatePortReservations, Taken, LaneOK, OwnOK
<1>2. JobAdded(n)
  BY CreatePortLane
<1>3. /\ IsPortV2(n) /\ n.target = t /\ n.phase = "created" /\ ~n.recovery
      /\ n.plan.before.local = ep[t].local /\ n.plan.target.local = p
      /\ PortV2NoOp(n) <=> p = ep[t].local
      /\ n.status = "queued"
  BY <1>1, PortJobOK
<1>4. /\ ports' = IF p = ep[t].local THEN ports ELSE [ports EXCEPT ![p] = Announced(t)]
      /\ ep' = IF PortV2NoOp(n) THEN ep
           ELSE [ep EXCEPT ![t] = [@ EXCEPT !.desired = n.plan.target.adv,
                                            !.rev = n.plan.target.rev,
                                            !.status = "pending"]]
  BY DEF CreatePortReconfiguration, InsertPortV2, Announced
<1> HIDE DEF n, m
<1>5. /\ DOMAIN ep = Targets /\ DOMAIN ports = Ports
      /\ \A u \in Targets : DOMAIN ep[u] = EndpointFields /\ ep[u].local \in Ports
  BY DEF LaneOK, EndpointsOK, PortsOK
<1>6. /\ DOMAIN ep' = Targets /\ DOMAIN ports' = Ports
      /\ \A u \in Targets : DOMAIN ep'[u] = EndpointFields /\ ep'[u].local = ep[u].local
      /\ \A u \in Targets : u # t \/ p = ep[t].local => ep'[u] = ep[u]
  BY <1>3, <1>4, <1>5 DEF EndpointFields
<1>7. /\ \A q \in Ports : q # p => ports'[q] = ports[q]
      /\ p = ep[t].local => ports' = ports
      /\ p # ep[t].local => ports'[p] = Announced(t)
  BY <1>4, <1>5
<1>8. /\ DOMAIN jobs' = DOMAIN jobs \cup {m} /\ m \notin DOMAIN jobs
      /\ jobs'[m] = n /\ \A k \in DOMAIN jobs : jobs'[k] = jobs[k]
  BY <1>2 DEF JobAdded, m
<1>9. JobHoldsHost(n) /\ OpenPort(n)
  BY <1>3 DEF JobHoldsHost, TerminalJob, OpenPort
<1>10. /\ \A k \in DOMAIN jobs' : JobHoldsHost(jobs'[k]) <=> k = m
       /\ \A k \in DOMAIN jobs' : OpenPort(jobs'[k]) <=> k = m
  BY <1>1, <1>8, <1>9 DEF OpenPort
<1>11. EndpointsOK'
  BY <1>5, <1>6 DEF EndpointsOK
<1>12. \A u \in Targets : SettledTarget(u)
  BY <1>1 DEF PortsOK, BusyTarget, OpenPort
<1>13. \A u \in Targets : u # t => SettledTarget(u)'
  <2> SUFFICES ASSUME NEW u \in Targets, u # t
               PROVE  ports'[ep'[u].local] = Taken(u) /\ ep'[u].desired = ep'[u].applied
    BY DEF SettledTarget, Taken
  <2>1. ports[ep[u].local] = Taken(u) /\ ep[u].desired = ep[u].applied /\ ep'[u] = ep[u]
    BY <1>6, <1>12 DEF SettledTarget
  <2>2. ports'[ep[u].local] = ports[ep[u].local]
    <3>1. Taken(u) # None
      BY Reservations
    <3> QED BY <3>1, <2>1, <1>1, <1>5, <1>7
  <2> QED BY <2>1, <2>2
<1>14. \A u \in Targets : ~BusyTarget(u)' => u # t
  <2>1. OpenPort(jobs'[m]) /\ jobs'[m].target = t /\ m \in DOMAIN jobs'
    BY <1>3, <1>8, <1>9
  <2> QED BY <2>1 DEF BusyTarget, OpenPort, JobHoldsHost, IsPortV2
<1>15. ports'[ep[t].local] = Taken(t)
  BY <1>1, <1>5, <1>7
<1>16. \A k \in DOMAIN jobs' : k = m => OpenOK(jobs[k])'
  <2> SUFFICES ASSUME NEW k \in DOMAIN jobs', k = m
               PROVE  OpenOK(jobs[k])'
    OBVIOUS
  <2>1. /\ jobs'[k].phase = "created" /\ ~jobs'[k].recovery
        /\ jobs'[k].target = t /\ jobs'[k].plan.before.local = ep[t].local
        /\ jobs'[k].plan.target.local = p
    BY <1>3, <1>8
  <2>2. PortV2NoOp(jobs'[k]) <=> p = ep[t].local
    BY <1>3, <1>8
  <2>3. PortV2NoOp(jobs'[k]) => ep'[t].desired = ep'[t].applied
    BY <2>2, <1>6, <1>12 DEF SettledTarget
  <2>4. ~PortV2NoOp(jobs'[k]) => ports'[p] = Announced(t)
    BY <2>2, <1>7
  <2>5. ep'[t].local = ep[t].local
    BY <1>6
  <2> QED BY <2>1, <2>3, <2>4, <2>5, <1>15 DEF OpenOK, Taken, Announced, PortV2NoOp, IsPortV2
<1>17. \A k \in DOMAIN jobs' : OpenPort(jobs[k])' => OpenOK(jobs[k])' /\ OnlyWork(k)'
  <2>1. \A k \in DOMAIN jobs' : OpenPort(jobs[k])' => k = m
    BY <1>10 DEF OpenPort, JobHoldsHost, IsPortV2
  <2>2. \A k \in DOMAIN jobs' : k = m => OnlyWork(k)'
    BY <1>10 DEF OnlyWork, JobHoldsHost
  <2> QED BY <2>1, <2>2, <1>16
<1>18. PortRolesOK'
  <2> SUFFICES ASSUME NEW q \in Ports, ports'[q] # None, ports'[q].role # "api"
               PROVE  /\ OpenPort(jobs'[m]) /\ ~PortV2NoOp(jobs'[m])
                      /\ q = jobs'[m].plan.target.local
    BY <1>8 DEF PortRolesOK, OpenPort, JobHoldsHost, PortV2NoOp, IsPortV2
  <2>1. \A r \in Ports : ports[r] # None => ports[r].role = "api"
    BY <1>1 DEF PortsOK, PortRolesOK, OpenPort
  <2> QED BY <2>1, <1>3, <1>7, <1>8, <1>9
<1> QED BY <1>1, <1>6, <1>11, <1>13, <1>14, <1>17, <1>18 DEF PortsOK

LEMMA Withdrawn ==
  ASSUME LaneOK, PortsOK, NEW i \in DOMAIN jobs, OpenPort(jobs[i]), jobs[i].phase = "created",
         WithdrawPortV2(jobs[i])
  PROVE  SettledFor(i)
<1> DEFINE t == jobs[i].target
           old == jobs[i].plan.before.local
           new == jobs[i].plan.target.local
<1>1. t \in Targets /\ old \in Ports /\ new \in Ports
  BY DEF LaneOK, JobsOK, JobRowsOK, JobOK, OpenPort
<1>2. OpenOK(jobs[i])
  BY DEF PortsOK
<1>3. /\ DOMAIN ep = Targets /\ DOMAIN ports = Ports
      /\ \A u \in Targets : DOMAIN ep[u] = EndpointFields /\ ep[u].local \in Ports
  BY DEF LaneOK, EndpointsOK, PortsOK
<1>4. ep[t].local = old /\ ports[old] = Taken(t)
  BY <1>2 DEF OpenOK
<1>5. CASE PortV2NoOp(jobs[i])
  <2>1. ep' = ep /\ ports' = ports /\ new = old /\ ep[t].desired = ep[t].applied
    BY <1>2, <1>5 DEF WithdrawPortV2, PortV2NoOp, OpenOK
  <2> QED BY <2>1, <1>1, <1>3, <1>4 DEF SettledFor
<1>6. CASE ~PortV2NoOp(jobs[i])
  <2>1. new # old
    BY <1>6 DEF PortV2NoOp, OpenPort
  <2>2. /\ ep' = [ep EXCEPT ![t] = [@ EXCEPT !.desired = ep[t].applied,
                                             !.rev = jobs[i].plan.cancelRev,
                                             !.status = "applied"]]
        /\ ports' = [ports EXCEPT ![new] = None]
    BY <1>6 DEF WithdrawPortV2
  <2>3. /\ DOMAIN ep' = Targets
        /\ \A u \in Targets : DOMAIN ep'[u] = EndpointFields /\ (u # t => ep'[u] = ep[u])
        /\ ep'[t].local = old /\ ep'[t].desired = ep'[t].applied
    BY <2>2, <1>1, <1>3, <1>4 DEF EndpointFields
  <2>4. /\ DOMAIN ports' = Ports /\ ports'[new] = None
        /\ \A p \in Ports : p # new => ports'[p] = ports[p]
    BY <2>2, <1>1, <1>3
  <2> HIDE DEF t, old, new
  <2>5. ports'[old] = Taken(t)
    BY <2>1, <2>4, <1>1, <1>4
  <2> QED BY <2>3, <2>4, <2>5, <1>1 DEF SettledFor, t, old, new
<1> QED BY <1>5, <1>6

LEMMA Installed ==
  ASSUME LaneOK, PortsOK, NEW i \in DOMAIN jobs, OpenPort(jobs[i]),
         jobs[i].phase \in {"consumed", "rollback_latched"},
         NEW final, NEW s,
         \/ s = "applied" /\ final.local = jobs[i].plan.target.local
         \/ s = "rolled_back" /\ final.local = jobs[i].plan.before.local,
         InstallPortV2(jobs[i], final, s)
  PROVE  SettledFor(i)
<1> DEFINE t == jobs[i].target
           old == jobs[i].plan.before.local
           new == jobs[i].plan.target.local
<1>1. t \in Targets /\ old \in Ports /\ new \in Ports
  BY DEF LaneOK, JobsOK, JobRowsOK, JobOK, OpenPort
<1>2. OpenOK(jobs[i])
  BY DEF PortsOK
<1>3. new # old /\ ports[old] = Taken(t) /\ ports[new] = Announced(t)
  BY <1>2 DEF OpenOK, PortV2NoOp, OpenPort
<1>4. /\ DOMAIN ep = Targets /\ DOMAIN ports = Ports
      /\ \A u \in Targets : DOMAIN ep[u] = EndpointFields /\ ep[u].local \in Ports
  BY DEF LaneOK, EndpointsOK, PortsOK
<1>5. ep' = [ep EXCEPT ![t] =
              [local |-> final.local, applied |-> final.adv, desired |-> final.adv,
               rev |-> final.rev, arev |-> final.arev, config |-> final.config,
               status |-> s]]
  BY DEF InstallPortV2
<1>6. /\ DOMAIN ep' = Targets
      /\ \A u \in Targets : DOMAIN ep'[u] = EndpointFields /\ (u # t => ep'[u] = ep[u])
      /\ ep'[t].local = final.local /\ ep'[t].desired = ep'[t].applied
  BY <1>1, <1>4, <1>5 DEF EndpointFields
<1>7. /\ s = "applied" => ports' = [ports EXCEPT ![old] = None, ![final.local] = Taken(t)]
      /\ s # "applied" => ports' = [ports EXCEPT ![new] = None]
  BY DEF InstallPortV2, Taken
<1> HIDE DEF t, old, new
<1>8. CASE s = "applied"
  <2>1. /\ DOMAIN ports' = Ports /\ ports'[old] = None /\ ports'[new] = Taken(t)
        /\ \A p \in Ports : p \notin {old, new} => ports'[p] = ports[p]
        /\ final.local = new
    BY <1>1, <1>3, <1>4, <1>7, <1>8 DEF new
  <2> QED BY <2>1, <1>1, <1>6 DEF SettledFor, t, old, new
<1>9. CASE s # "applied"
  <2>1. /\ DOMAIN ports' = Ports /\ ports'[old] = Taken(t) /\ ports'[new] = None
        /\ \A p \in Ports : p \notin {old, new} => ports'[p] = ports[p]
        /\ final.local = old
    BY <1>1, <1>3, <1>4, <1>7, <1>9 DEF old
  <2> QED BY <2>1, <1>1, <1>6 DEF SettledFor, t, old, new
<1> QED BY <1>8, <1>9

(* A transaction moves on and stays open. *)
LEMMA PortMoved ==
  ASSUME LaneOK, PortsOK, NEW i \in DOMAIN jobs, OpenPort(jobs[i]), JobStep(i),
         JobHoldsHost(jobs'[i]), OpenOK(jobs[i])', UNCHANGED ports, own'.epoch = own.epoch,
         EndpointsOK', \A u \in Targets : u # jobs[i].target => ep'[u] = ep[u]
  PROVE  PortsOK'
<1> DEFINE t == jobs[i].target
<1>1. OnlyWork(i) /\ own.epoch # 0 /\ DOMAIN ports = Ports
  BY DEF PortsOK
<1>2. OpenPort(jobs'[i])
  BY DEF OpenPort, JobStep, IsPortV2
<1>3. \A k \in DOMAIN jobs' : JobHoldsHost(jobs'[k]) => k = i
  BY <1>1 DEF OnlyWork, JobStep
<1>4. \A k \in DOMAIN jobs' : OpenPort(jobs[k])' => k = i
  BY <1>3 DEF OpenPort, JobHoldsHost
<1>5. \A k \in DOMAIN jobs' : k = i => OnlyWork(k)'
  BY <1>3 DEF OnlyWork, JobHoldsHost
<1>6. \A k \in DOMAIN jobs' : k = i => OpenOK(jobs[k])'
  OBVIOUS
<1>7. \A u \in Targets : ~BusyTarget(u)' => u # t
  <2>1. jobs'[i].target = t /\ i \in DOMAIN jobs'
    BY DEF JobStep
  <2> QED BY <2>1, <1>2 DEF BusyTarget, OpenPort, JobHoldsHost, IsPortV2
<1>8. \A u \in Targets : u # t => SettledTarget(u)'
  <2> SUFFICES ASSUME NEW u \in Targets, u # t
               PROVE  SettledTarget(u)'
    OBVIOUS
  <2>1. SettledTarget(u)
    BY <1>1 DEF PortsOK, BusyTarget, OnlyWork, OpenPort
  <2> QED BY <2>1 DEF SettledTarget, Taken
<1>9. PortRolesOK'
  <2> SUFFICES ASSUME NEW q \in Ports, ports[q] # None, ports[q].role # "api"
               PROVE  /\ OpenPort(jobs'[i]) /\ ~PortV2NoOp(jobs'[i])
                      /\ q = jobs'[i].plan.target.local /\ i \in DOMAIN jobs'
    BY DEF PortRolesOK, OpenPort, JobHoldsHost, PortV2NoOp, IsPortV2
  <2>1. PICK k \in DOMAIN jobs : /\ OpenPort(jobs[k]) /\ q = jobs[k].plan.target.local
                                 /\ ~PortV2NoOp(jobs[k])
    BY DEF PortsOK, PortRolesOK
  <2>2. k = i
    BY <2>1, <1>1 DEF OnlyWork, OpenPort
  <2>3. ~PortV2NoOp(jobs'[i])
    BY <2>1, <2>2 DEF PortV2NoOp, IsPortV2, JobStep
  <2> QED BY <2>1, <2>2, <2>3, <1>2 DEF JobStep
<1> QED BY <1>1, <1>4, <1>5, <1>6, <1>7, <1>8, <1>9 DEF PortsOK

(* Installing the target policy moves the listening port. *)
LEMMA PortConsumed ==
  ASSUME LaneOK, PortsOK, NEW i \in DOMAIN jobs, OpenPort(jobs[i]), ConsumePortV2(i, "apply"),
         UNCHANGED ports, own'.epoch = own.epoch
  PROVE  PortsOK' /\ EndpointsOK'
<1> DEFINE t == jobs[i].target
           new == jobs[i].plan.target.local
<1>1. /\ JobStep(i) /\ jobs'[i].status = jobs[i].status
      /\ jobs'[i].recovery = jobs[i].recovery /\ jobs'[i].phase = "consumed"
  BY ConsumeShape DEF LaneOK, JobsOK
<1>2. OpenOK(jobs[i])
  BY DEF PortsOK
<1>3. ~PortV2NoOp(jobs[i]) /\ jobs[i].phase = "created"
      /\ ep' = [ep EXCEPT ![t] = [@ EXCEPT !.local = new]]
  BY DEF ConsumePortV2
<1>4. /\ DOMAIN ep = Targets
      /\ \A u \in Targets : DOMAIN ep[u] = EndpointFields /\ ep[u].local \in Ports
  BY DEF LaneOK, EndpointsOK
<1>5. t \in Targets /\ new \in Ports
  BY DEF LaneOK, JobsOK, JobRowsOK, JobOK, OpenPort
<1>6. /\ DOMAIN ep' = Targets /\ ep'[t].local = new
      /\ \A u \in Targets : DOMAIN ep'[u] = EndpointFields /\ (u # t => ep'[u] = ep[u])
  BY <1>3, <1>4, <1>5 DEF EndpointFields
<1>7. EndpointsOK'
  BY <1>4, <1>5, <1>6 DEF EndpointsOK
<1>8. JobHoldsHost(jobs'[i])
  BY <1>1 DEF OpenPort, JobHoldsHost
<1>9. OpenOK(jobs[i])'
  <2>1. /\ jobs'[i].phase = "consumed" /\ jobs'[i].recovery = jobs[i].recovery
        /\ jobs'[i].target = t /\ jobs'[i].plan = jobs[i].plan /\ jobs'[i].op = jobs[i].op
    BY <1>1 DEF JobStep
  <2>2. ~jobs[i].recovery /\ ports[jobs[i].plan.before.local] = Taken(t) /\ ports[new] = Announced(t)
    BY <1>2, <1>3 DEF OpenOK
  <2>3. ~PortV2NoOp(jobs'[i])
    BY <2>1, <1>3 DEF PortV2NoOp, IsPortV2
  <2> QED BY <2>1, <2>2, <2>3, <1>6 DEF OpenOK, PortV2NoOp, IsPortV2, Taken, Announced
<1> QED BY <1>1, <1>6, <1>7, <1>8, <1>9, PortMoved

(* A failed rollback keeps everything and holds the host. *)
LEMMA PortLatched ==
  ASSUME LaneOK, PortsOK, NEW i \in DOMAIN jobs, OpenPort(jobs[i]), JobStep(i),
         jobs[i].phase \in {"consumed", "rollback_latched"},
         jobs'[i].phase = "rollback_latched", jobs'[i].recovery,
         ep' = [ep EXCEPT ![jobs[i].target].status = "rollback_failed"],
         UNCHANGED ports, own'.epoch = own.epoch
  PROVE  PortsOK' /\ EndpointsOK'
<1> DEFINE t == jobs[i].target
<1>1. OpenOK(jobs[i])
  BY DEF PortsOK
<1>2. /\ DOMAIN ep = Targets
      /\ \A u \in Targets : DOMAIN ep[u] = EndpointFields /\ ep[u].local \in Ports
  BY DEF LaneOK, EndpointsOK
<1>3. t \in Targets
  BY DEF LaneOK, JobsOK, JobRowsOK, JobOK
<1>4. /\ DOMAIN ep' = Targets /\ ep'[t].local = ep[t].local
      /\ \A u \in Targets : DOMAIN ep'[u] = EndpointFields /\ (u # t => ep'[u] = ep[u])
  BY <1>2, <1>3 DEF EndpointFields
<1>5. EndpointsOK'
  BY <1>2, <1>4 DEF EndpointsOK
<1>6. JobHoldsHost(jobs'[i])
  BY DEF JobHoldsHost
<1>7. OpenOK(jobs[i])'
  <2>1. jobs'[i].target = t /\ jobs'[i].plan = jobs[i].plan /\ jobs'[i].op = jobs[i].op
    BY DEF JobStep
  <2>2. /\ ports[jobs[i].plan.before.local] = Taken(t)
        /\ ports[jobs[i].plan.target.local] = Announced(t)
        /\ ep[t].local = jobs[i].plan.target.local /\ ~PortV2NoOp(jobs[i])
    BY <1>1 DEF OpenOK
  <2>3. ~PortV2NoOp(jobs'[i])
    BY <2>1, <2>2 DEF PortV2NoOp, IsPortV2
  <2> QED BY <2>1, <2>2, <2>3, <1>4 DEF OpenOK, PortV2NoOp, IsPortV2, Taken, Announced
<1> QED BY <1>4, <1>5, <1>6, <1>7, PortMoved

(* What a report does to the transaction of its job. *)
LEMMA PortReported ==
  ASSUME LaneOK, PortsOK, NEW r \in host.sent, ServiceReport(r)
  PROVE  PortsOK' /\ EndpointsOK'
<1> DEFINE i == r.job
           j == jobs[i]
<1>1. /\ i \in DOMAIN jobs /\ own'.epoch = own.epoch
      /\ r.status \in ExecutingJob \cup {"succeeded", "rolled_back", "failed"}
  BY ReportLane DEF LaneKept, SameOwner, LaneOK, JobsOK, JournalOK
<1>2. JobRowsOK /\ JobOK(j)
  BY <1>1 DEF LaneOK, JobsOK, JobRowsOK
<1>3. /\ ReportJob(i, r) /\ j.status \notin TerminalJob
      /\ IsPortV2(j) => CanonicalizePortReport(j, r)
  BY DEF ServiceReport, CanReport
<1> HIDE DEF i
<1>4. /\ JobStep(i) /\ jobs'[i].status = r.status
      /\ IF r.status \in TerminalJob /\ IsPortV2(j)
           THEN FinishPortV2(j, r.result) /\ FinishedAs(i, r.result)
           ELSE UNCHANGED <<own, policy, ep, ports>> /\ SamePhase(i)
  BY <1>1, <1>2, <1>3, ReportShape
<1>5. JobHoldsHost(j)
  BY <1>3 DEF JobHoldsHost
<1>6. CASE ~(r.status \in TerminalJob /\ IsPortV2(j))
  <2>1. IsPortV2(j) => JobHoldsHost(jobs'[i])
    BY <1>4, <1>6 DEF JobHoldsHost
  <2>2. TransactionsKept
    BY <2>1, <1>1, <1>4, <1>5, <1>6, TransactionKept
  <2>3. EndpointsKept /\ ports' = ports
    BY <1>4, <1>6, EndpointsUntouched DEF LaneOK
  <2>4. \A k \in DOMAIN jobs : jobs[k].target \in Targets
    BY <1>2 DEF JobRowsOK, JobOK
  <2> QED BY <2>2, <2>3, <2>4, <1>1, PortsKept, EndpointsKeptOK DEF LaneOK
<1>7. CASE r.status \in TerminalJob /\ IsPortV2(j)
  <2>1. /\ OpenPort(j) /\ FinishCases(j, r.result) /\ PortResultAllowed(j, r.result)
        /\ FinishedAs(i, r.result) /\ CanonicalizePortReport(j, r)
    BY <1>3, <1>4, <1>5, <1>7, FinishSplit DEF OpenPort
  <2>2. OpenOK(j)
    BY <2>1, <1>1 DEF PortsOK
  <2>3. None \notin {"applied", "unchanged", "rolled_back", "rollback_failed"}
    BY PortAssumption
  <2>4. ASSUME r.result # "rollback_failed", SettledFor(i)
        PROVE  PortsOK' /\ EndpointsOK'
    <3>1. ~jobs'[i].recovery
      <4>1. CASE r.result = None
        <5>1. j.phase = "created"
          BY <4>1, <2>1, <2>3 DEF PortResultAllowed
        <5>2. ~j.recovery
          BY <5>1, <2>2 DEF OpenOK
        <5> QED BY <5>2, <4>1, <2>1 DEF FinishedAs
      <4>2. CASE r.result # None
        BY <4>2, <2>1, <2>4 DEF FinishedAs
      <4> QED BY <4>1, <4>2
    <3>2. ~JobHoldsHost(jobs'[i])
      BY <3>1, <1>4, <1>7 DEF JobHoldsHost
    <3> QED BY <3>2, <2>1, <2>4, <1>1, <1>2, <1>4, PortClosed DEF LaneOK
  <2>5. CASE r.result = None /\ WithdrawPortV2(j)
    <3>1. j.phase = "created"
      BY <2>5, <2>1, <2>3 DEF PortResultAllowed
    <3>2. SettledFor(i)
      BY <3>1, <2>1, <2>5, <1>1, Withdrawn
    <3> QED BY <3>2, <2>3, <2>4, <2>5
  <2>6. CASE r.result = "rollback_failed" /\ ep' = [ep EXCEPT ![j.target].status = "rollback_failed"]
             /\ UNCHANGED ports
    <3>1. j.phase \in {"consumed", "rollback_latched"}
      BY <2>6, <2>1, <2>3 DEF PortResultAllowed
    <3>2. jobs'[i].phase = "rollback_latched" /\ jobs'[i].recovery
      BY <2>6, <2>1 DEF FinishedAs
    <3> QED BY <3>1, <3>2, <2>1, <2>6, <1>1, <1>4, PortLatched
  <2>7. CASE r.result = "unchanged" /\ UNCHANGED <<ep, ports>>
    <3>1. j.phase = "created" /\ PortV2NoOp(j)
      BY <2>7, <2>1, <2>3 DEF PortResultAllowed
    <3>2. WithdrawPortV2(j)
      BY <3>1, <2>7 DEF WithdrawPortV2
    <3>3. SettledFor(i)
      BY <3>1, <3>2, <2>1, <1>1, Withdrawn
    <3> QED BY <3>3, <2>4, <2>7
  <2>8. CASE r.result = "applied" /\ InstallPortV2(j, j.plan.target, "applied")
    <3>1. j.phase \in {"consumed", "rollback_latched"}
      BY <2>8, <2>1, <2>3 DEF PortResultAllowed
    <3>2. SettledFor(i)
      BY <3>1, <2>1, <2>8, <1>1, Installed
    <3> QED BY <3>2, <2>4, <2>8
  <2>9. CASE r.result = "rolled_back" /\ InstallPortV2(j, j.plan.rollback, "rolled_back")
    <3>1. j.phase \in {"consumed", "rollback_latched"}
      BY <2>9, <2>1, <2>3 DEF PortResultAllowed
    <3>2. j.plan.rollback.local = j.plan.before.local
      BY <1>2, <1>7 DEF JobOK
    <3>3. SettledFor(i)
      BY <3>1, <3>2, <2>1, <2>9, <1>1, Installed
    <3> QED BY <3>3, <2>4, <2>9
  <2> QED BY <2>1, <2>5, <2>6, <2>7, <2>8, <2>9 DEF FinishCases
<1> QED BY <1>6, <1>7

LEMMA PortsUnderJob ==
  ASSUME LaneOK, PortsOK, NEW i \in DOMAIN jobs, JobStep(i), SamePhase(i),
         JobHoldsHost(jobs'[i]) <=> JobHoldsHost(jobs[i]),
         UNCHANGED <<own, ports, ep>>
  PROVE  PortsOK' /\ EndpointsOK'
<1>1. TransactionsKept /\ EndpointsKept
  BY TransactionKept, EndpointsUntouched DEF LaneOK
<1>2. \A k \in DOMAIN jobs : jobs[k].target \in Targets
  BY DEF LaneOK, JobsOK, JobRowsOK, JobOK
<1> QED BY <1>1, <1>2, PortsKept, EndpointsKeptOK DEF LaneOK

LEMMA PortsUntouched ==
  ASSUME LaneOK, PortsOK, UNCHANGED <<jobs, ports>>, EndpointsKept, own'.epoch = own.epoch
  PROVE  PortsOK' /\ EndpointsOK'
<1>1. TransactionsKept
  BY DEF TransactionsKept
<1>2. \A k \in DOMAIN jobs : jobs[k].target \in Targets
  BY DEF LaneOK, JobsOK, JobRowsOK, JobOK
<1> QED BY <1>1, <1>2, PortsKept, EndpointsKeptOK DEF LaneOK

LEMMA PortCanceled ==
  ASSUME LaneOK, PortsOK, NEW i \in DOMAIN jobs, CancelSystemUpdate(i)
  PROVE  PortsOK' /\ EndpointsOK'
<1>1. JobRowsOK /\ JobOK(jobs[i])
  BY DEF LaneOK, JobsOK, JobRowsOK
<1>2. /\ JobStep(i) /\ jobs'[i].status = "canceled" /\ jobs'[i].recovery = jobs[i].recovery
  BY <1>1, CancelShape
<1>3. jobs[i].status = "queued" /\ own' = own
  BY DEF CancelSystemUpdate, CanCancelJob, CancelJob, CancelPortV2
<1>4. JobHoldsHost(jobs[i])
  BY <1>3 DEF JobHoldsHost, TerminalJob
<1>5. CASE IsPortV2(jobs[i])
  <2>1. OpenPort(jobs[i]) /\ OpenOK(jobs[i])
    BY <1>4, <1>5 DEF OpenPort, PortsOK
  <2>2. jobs[i].phase = "created" /\ WithdrawPortV2(jobs[i])
    BY <1>5 DEF CancelSystemUpdate, CancelJob, CancelPortV2
  <2>3. ~JobHoldsHost(jobs'[i])
    BY <2>1, <2>2, <1>2 DEF OpenOK, JobHoldsHost, TerminalJob
  <2>4. SettledFor(i)
    BY <2>1, <2>2, Withdrawn
  <2> QED BY <2>1, <2>3, <2>4, <1>1, <1>2, <1>3, PortClosed DEF LaneOK
<1>6. CASE ~IsPortV2(jobs[i])
  <2>1. UNCHANGED <<ep, ports>>
    BY <1>6 DEF CancelSystemUpdate, CancelJob
  <2>2. \A k \in DOMAIN jobs : k # i => jobs'[k] = jobs[k]
    BY <1>2 DEF JobStep
  <2>3. ~OpenPort(jobs'[i]) /\ ~OpenPort(jobs[i])
    BY <1>2, <1>6 DEF OpenPort, IsPortV2, JobStep
  <2>4. TransactionsKept
    BY <1>2, <1>4, <2>2, <2>3 DEF TransactionsKept, JobStep
  <2>5. EndpointsKept
    BY <2>1, EndpointsUntouched DEF LaneOK
  <2>6. \A k \in DOMAIN jobs : jobs[k].target \in Targets
    BY <1>1 DEF JobRowsOK, JobOK
  <2> QED BY <2>1, <2>4, <2>5, <2>6, <1>3, PortsKept, EndpointsKeptOK DEF LaneOK
<1> QED BY <1>5, <1>6

LEMMA PortsUnderCreate ==
  ASSUME LaneOK, PortsOK, NEW a \in Agents, NEW t \in Targets, CreateSystemUpdate(a, t)
  PROVE  PortsOK' /\ EndpointsOK'
<1>1. JobAdded(SoftwareJob(a, t))
  BY CreateLane
<1>2. ~IsPortV2(SoftwareJob(a, t))
  BY DEF SoftwareJob, IsPortV2
<1>3. UNCHANGED <<own, ports, ep>> /\ own.epoch # 0
  BY DEF CreateSystemUpdate, CanCreateJob, Owns, LaneOK, OwnOK
<1>4. \A i \in DOMAIN jobs : ~OpenPort(jobs[i])
  BY DEF CreateSystemUpdate, CanCreateJob, HoldingJobs, OpenPort
<1>5. PortsOK'
  BY <1>1, <1>2, <1>3, <1>4, PortsUnderNewJob DEF LaneOK
<1>6. EndpointsOK'
  BY <1>3 DEF LaneOK, EndpointsOK
<1> QED BY <1>5, <1>6

LEMMA PortsUnderClaim ==
  ASSUME LaneOK, PortsOK, NEW i \in DOMAIN jobs, NEW a \in Agents, NEW idle, NEW d,
         ServiceClaim(a, i, idle, d)
  PROVE  PortsOK' /\ EndpointsOK'
<1>1. JobStep(i) /\ SamePhase(i)
      /\ jobs'[i].status = (IF jobs[i].status = "queued" THEN "claimed" ELSE "reconciling")
  BY ClaimShape DEF LaneOK, JobsOK, ServiceClaim
<1>2. JobHoldsHost(jobs'[i])
  BY <1>1 DEF JobHoldsHost, TerminalJob
<1>3. JobHoldsHost(jobs[i])
  <2>1. CASE i \in FindClaimable(a, TargetsForAgentHostClaim(a, idle))
    BY <2>1 DEF FindClaimable, JobHoldsHost, TerminalJob
  <2>2. CASE InspectActiveJob(i) = "recover"
    <3>1. jobs[i].status \in ExecutingJob \/ PortV2Recoverable(jobs[i])
      BY <2>2 DEF InspectActiveJob
    <3> QED BY <3>1 DEF PortV2Recoverable, ExecutingJob, TerminalJob, JobHoldsHost
  <2> QED BY <2>1, <2>2 DEF ServiceClaim
<1> QED BY <1>1, <1>2, <1>3, PortsUnderJob DEF ServiceClaim

LEMMA PortsUnderGrant ==
  ASSUME LaneOK, PortsOK, NEW k \in DOMAIN grants, NEW o, MutationGrantConsume(k, o)
  PROVE  PortsOK' /\ EndpointsOK'
<1> DEFINE i == grants[k].job
<1>1. /\ i \in DOMAIN jobs /\ ConsumeCases(i) /\ ports' = ports
      /\ jobs[i].status \in {"installing", "reconciling"}
  BY ConsumeSplit
<1>2. own'.epoch = own.epoch
  BY ConsumeLane DEF LaneKept, SameOwner
<1> HIDE DEF i
<1>3. CASE IsPortV2(jobs[i]) /\ ConsumePortV2(i, "apply")
  <2>1. OpenPort(jobs[i])
    BY <1>1, <1>3 DEF OpenPort, JobHoldsHost, TerminalJob
  <2> QED BY <2>1, <1>1, <1>2, <1>3, PortConsumed
<1>4. CASE UNCHANGED <<own, policy, ep, jobs>>
  <2>1. EndpointsKept
    BY <1>4, EndpointsUntouched DEF LaneOK
  <2> QED BY <2>1, <1>1, <1>2, <1>4, PortsUntouched
<1> QED BY <1>1, <1>3, <1>4 DEF ConsumeCases

LEMMA PortsUnderOther ==
  ASSUME LaneOK, PortsOK, UNCHANGED <<own, jobs, ports, ep>>
  PROVE  PortsOK' /\ EndpointsOK'
BY EndpointsUntouched, PortsUntouched DEF LaneOK

LEMMA JobLane ==
  ASSUME LaneOK, PortsOK, JobsNext
  PROVE  LaneKept /\ PortsOK' /\ EndpointsOK'
<1> DEFINE Goal == LaneKept /\ PortsOK' /\ EndpointsOK'
<1>1. ASSUME NEW a \in Agents, NEW t \in Targets, CreateSystemUpdate(a, t)
      PROVE  Goal
  BY <1>1, CreateLane, PortsUnderCreate
<1>2. ASSUME NEW a \in Agents, NEW t \in Targets, NEW p \in Ports, NEW adv,
             CreatePortReconfiguration(a, t, p, adv)
      PROVE  Goal
  BY <1>2, CreatePortLane, PortCreated
<1>3. ASSUME NEW i \in DOMAIN jobs, CancelSystemUpdate(i)
      PROVE  Goal
  BY <1>3, CancelLane, PortCanceled
<1>4. ASSUME NEW i \in DOMAIN jobs, LeaseExpires(i)
      PROVE  Goal
  <2>1. LaneKept
    BY <1>4, LeaseLane
  <2>2. /\ JobStep(i) /\ SamePhase(i) /\ jobs'[i].status = jobs[i].status
    BY <1>4, LeaseShape DEF LaneOK, JobsOK
  <2>3. JobHoldsHost(jobs'[i]) <=> JobHoldsHost(jobs[i])
    BY <2>2 DEF JobHoldsHost, SamePhase
  <2>4. UNCHANGED <<own, ports, ep>>
    BY <1>4 DEF LeaseExpires
  <2> QED BY <2>1, <2>2, <2>3, <2>4, PortsUnderJob
<1>5. ASSUME NEW i \in DOMAIN jobs, NEW a \in Agents, NEW idle, NEW d, ServiceClaim(a, i, idle, d)
      PROVE  Goal
  BY <1>5, ClaimLane, PortsUnderClaim
<1>6. ASSUME NEW a \in Agents, ServiceClaimClears(a)
      PROVE  Goal
  <2>1. UNCHANGED <<own, jobs, ports, ep>>
    BY <1>6 DEF ServiceClaimClears
  <2> QED BY <2>1, <1>6, ClearLane, PortsUnderOther
<1>7. ASSUME NEW r \in host.sent, ServiceReport(r)
      PROVE  Goal
  BY <1>7, ReportLane, PortReported
<1>8. ASSUME NEW op, MutationGrantIssue(op)
      PROVE  Goal
  <2>1. UNCHANGED <<own, jobs, ports, ep>>
    BY <1>8 DEF MutationGrantIssue
  <2> QED BY <2>1, <1>8, GrantLane, PortsUnderOther
<1>9. ASSUME NEW k \in DOMAIN grants, NEW o, MutationGrantConsume(k, o)
      PROVE  Goal
  BY <1>9, ConsumeLane, PortsUnderGrant
<1>10. ASSUME NEW s \in Reported, AgentReportsProgress(s)
       PROVE  Goal
  <2>1. UNCHANGED <<own, jobs, ports, ep>>
    BY <1>10 DEF AgentReportsProgress
  <2> QED BY <2>1, <1>10, ProgressLane, PortsUnderOther
<1>11. ASSUME NEW s \in {"succeeded", "rolled_back", "failed", "reconciling"}, NEW x,
              AgentReportsResult(s, x)
       PROVE  Goal
  <2>1. UNCHANGED <<own, jobs, ports, ep>>
    BY <1>11 DEF AgentReportsResult
  <2> QED BY <2>1, <1>11, ResultLane, PortsUnderOther
<1> HIDE DEF Goal
<1>12. Goal
  BY <1>1, <1>2, <1>3, <1>4, <1>5, <1>6, <1>7, <1>8, <1>9, <1>10, <1>11 DEF JobsNext
<1> QED BY <1>12 DEF Goal

-----------------------------------------------------------------------------
(* The other lanes leave jobs, grants and the agent's work on them alone. *)

WorkSame == UNCHANGED <<jobs, grants>> /\ HostWorksSame

LEMMA HostPut ==
  ASSUME DOMAIN host = HostFields, NEW x,
         \/ host' = host
         \/ host' = [host EXCEPT !.held = x]
         \/ host' = [host EXCEPT !.recovery = x]
  PROVE  HostWorksSame /\ HostRunsSame
BY DEF HostWorksSame, HostRunsSame, HostFields

LEMMA RotationsWork ==
  ASSUME LaneOK, RotationNext
  PROVE  WorkSame /\ HostRunsSame /\ UNCHANGED <<own, policy, ports, ep, ups, upGrants>>
<1> DEFINE Kept == UNCHANGED <<own, policy, jobs, grants, ports, ep, ups, upGrants>>
<1>1. DOMAIN host = HostFields
  BY DEF LaneOK, JobsOK, JournalOK
<1>2. ASSUME NEW a \in Agents, StageRuntimeTokenRotation(a)
      PROVE  Kept /\ host' = host
  BY <1>2 DEF StageRuntimeTokenRotation, StageOnce
<1>3. ASSUME NEW i \in DOMAIN rots, NEW c, NEW d, ClaimRuntimeTokenRotationCredential(i, c, d)
      PROVE  Kept /\ \E x : host' = [host EXCEPT !.held = x]
  BY <1>3 DEF ClaimRuntimeTokenRotationCredential, ClaimStagedCredential
<1>4. ASSUME NEW i \in DOMAIN rots,
             \/ AcknowledgeLocalStage(i) \/ ProveRuntimeTokenRotationHeartbeat(i)
             \/ ActivateRuntimeTokenRotation(i) \/ CancelRuntimeTokenRotation(i)
             \/ AcknowledgeRuntimeTokenRotationCancel(i)
      PROVE  Kept /\ host' = host
  BY <1>4 DEF AcknowledgeLocalStage, ProveRuntimeTokenRotationHeartbeat,
       ActivateRuntimeTokenRotation, CancelRuntimeTokenRotation,
       AcknowledgeRuntimeTokenRotationCancel
<1>5. ASSUME NEW i \in DOMAIN rots, NEW s, EmergencyRevokeRuntimeTokenRotation(i, s)
      PROVE  Kept /\ host' = host
  BY <1>5 DEF EmergencyRevokeRuntimeTokenRotation
<1>6. Kept /\ (host' = host \/ \E x : host' = [host EXCEPT !.held = x])
  <2> HIDE DEF Kept
  <2> QED BY <1>2, <1>3, <1>4, <1>5 DEF RotationNext
<1>7. HostWorksSame /\ HostRunsSame
  BY <1>1, <1>6, HostPut
<1> QED BY <1>6, <1>7 DEF WorkSame

LEMMA SelfUpdatesWork ==
  ASSUME LaneOK, SelfUpdateNext
  PROVE  WorkSame /\ UNCHANGED <<own, policy, ports, ep>>
<1> DEFINE Kept == UNCHANGED <<own, policy, jobs, grants, ports, ep>>
<1>1. DOMAIN host = HostFields
  BY DEF LaneOK, JobsOK, JournalOK
<1>2. UNCHANGED host => HostWorksSame
  BY <1>1 DEF HostWorksSame
<1>3. ASSUME NEW a \in Agents, NEW v \in Versions, CreateHostSelfUpdate(a, v)
      PROVE  Kept /\ HostWorksSame
  BY <1>2, <1>3 DEF CreateHostSelfUpdate, CreateHostSelfUpdateTx
<1>4. ASSUME NEW i \in DOMAIN ups, RetryHostSelfUpdate(i) \/ CancelHostSelfUpdate(i)
      PROVE  Kept /\ HostWorksSame
  BY <1>2, <1>4 DEF RetryHostSelfUpdate, CreateHostSelfUpdateTx, CancelHostSelfUpdate
<1>5. ASSUME NEW i \in DOMAIN ups, NEW op, NEW s, IssueHostSelfUpdateGrant(i, op, s)
      PROVE  Kept /\ HostWorksSame
  BY <1>2, <1>5 DEF IssueHostSelfUpdateGrant
<1>6. ASSUME NEW k \in DOMAIN upGrants, HostSelfUpdateGrantExpires(k)
      PROVE  Kept /\ HostWorksSame
  BY <1>2, <1>6 DEF HostSelfUpdateGrantExpires
<1>7. ASSUME NEW k \in DOMAIN upGrants, NEW d, ConsumeHostSelfUpdateGrant(k, d)
      PROVE  Kept /\ HostWorksSame
  <2>1. Kept /\ (ExecutorActs(upGrants[k]) \/ UNCHANGED host)
    BY <1>7 DEF ConsumeHostSelfUpdateGrant
  <2>2. ExecutorActs(upGrants[k]) => HostWorksSame
    BY <1>1 DEF ExecutorActs, HostWorksSame, HostFields
  <2> QED BY <2>1, <2>2, <1>2
<1>8. ASSUME NEW p, HostUpdates(p)
      PROVE  Kept /\ HostWorksSame
  BY <1>1, <1>8 DEF HostUpdates, HostWorksSame, HostFields
<1>9. ASSUME HostLosesPower
      PROVE  Kept /\ HostWorksSame
  BY <1>1, <1>9 DEF HostLosesPower, HostWorksSame, HostFields
<1> HIDE DEF Kept
<1>10. Kept /\ HostWorksSame
  BY <1>3, <1>4, <1>5, <1>6, <1>7, <1>8, <1>9 DEF SelfUpdateNext
<1> QED BY <1>10 DEF Kept, WorkSame

(* The job rows follow an owner that is appointed once. *)
LEMMA WorkKept ==
  ASSUME LaneOK, PortsOK, WorkSame, own.agent # None => own'.agent = own.agent
  PROVE  JobsOK'
<1>1. JobRowsOK' /\ JobsGrow
  <2>1. CASE own.agent = None
    <3>1. DOMAIN jobs = {} /\ jobs' = jobs
      BY <2>1 DEF LaneOK, OwnOK, PortsOK, WorkSame
    <3> QED BY <3>1 DEF LaneOK, JobsOK, JobRowsOK, JobsGrow, IsSeq
  <2>2. CASE own.agent # None
    BY <2>2, JobRowsUntouched DEF LaneOK, JobsOK, WorkSame
  <2> QED BY <2>1, <2>2
<1>2. GrantsOK'
  BY <1>1, GrantsUntouched DEF LaneOK, JobsOK, WorkSame
<1>3. JournalOK'
  BY <1>1, JournalUntouched DEF LaneOK, JobsOK, WorkSame, HostWorksSame
<1> QED BY <1>1, <1>2, <1>3 DEF JobsOK

(* A new owner reserves the port every target listens on. *)
LEMMA OwnershipActivated ==
  ASSUME LaneOK, PortsOK, NEW a \in Agents, ActivateUpdaterOwnership(a)
  PROVE  /\ OwnOK' /\ PortsOK' /\ EndpointsOK'
         /\ own.agent # None => own'.agent = own.agent
<1>1. /\ own.agent \in {None, a} /\ \A i \in DOMAIN jobs : ~JobHoldsHost(jobs[i])
      /\ BaselineFree
  BY DEF ActivateUpdaterOwnership, CanActivateOwnership, HostFreeFor, HoldingJobs
<1>2. own' = [epoch |-> own.epoch + 1, agent |-> a, rev |-> policy[a].proj]
      /\ UNCHANGED <<policy, jobs, ep>>
  BY DEF ActivateUpdaterOwnership, ActivatePullUpdaterOwnership
<1>3. ports' = [p \in Ports |->
                IF \E r \in BaselineReservations : r.port = p
                  THEN (CHOOSE r \in BaselineReservations : r.port = p).row
                  ELSE ports[p]]
  BY DEF ActivateUpdaterOwnership, ActivatePullUpdaterOwnership
<1>4. OwnOK' /\ own'.epoch # 0 /\ own'.agent = a
  BY <1>2, HostAssumption DEF LaneOK, OwnOK
<1>5. EndpointsOK'
  BY <1>2 DEF LaneOK, EndpointsOK
<1>6. \A i \in DOMAIN jobs' : ~OpenPort(jobs[i])'
  BY <1>1, <1>2 DEF OpenPort, JobHoldsHost
<1>7. \A t \in Targets : ports'[ep[t].local] = Taken(t)
  <2> SUFFICES ASSUME NEW t \in Targets
               PROVE  ports'[ep[t].local] = Taken(t)
    OBVIOUS
  <2> DEFINE q == [port |-> ep[t].local, row |-> Taken(t)]
             c == CHOOSE r \in BaselineReservations : r.port = ep[t].local
  <2>1. q \in BaselineReservations /\ q.port = ep[t].local /\ q.row = Taken(t)
    BY DEF BaselineReservations, Taken
  <2>2. c \in BaselineReservations /\ c.port = ep[t].local
    BY <2>1
  <2> HIDE DEF q, c
  <2>3. c = q
    BY <2>1, <2>2, <1>1 DEF BaselineFree
  <2>4. ep[t].local \in Ports
    BY DEF LaneOK, EndpointsOK
  <2>5. ports'[ep[t].local] = c.row
    BY <2>1, <2>4, <1>3 DEF c
  <2> QED BY <2>1, <2>3, <2>5
<1>8. \A p \in Ports : ports[p] # None => ports[p].role = "api"
  BY <1>1 DEF PortsOK, PortRolesOK, OpenPort
<1>9. \A p \in Ports : ports'[p] # None => ports'[p].role = "api"
  <2> SUFFICES ASSUME NEW p \in Ports, ports'[p] # None
               PROVE  ports'[p].role = "api"
    OBVIOUS
  <2>1. CASE \E r \in BaselineReservations : r.port = p
    <3>1. PICK t \in Targets : ep[t].local = p
      BY <2>1 DEF BaselineReservations
    <3> QED BY <3>1, <1>7, Reservations
  <2>2. CASE ~\E r \in BaselineReservations : r.port = p
    BY <2>2, <1>3, <1>8
  <2> QED BY <2>1, <2>2
<1>10. PortRolesOK'
  BY <1>9 DEF PortRolesOK
<1>11. \A t \in Targets : ep[t].desired = ep[t].applied
  <2>1. CASE own.epoch = 0
    BY <2>1 DEF PortsOK
  <2>2. CASE own.epoch # 0
    BY <2>2, <1>1 DEF PortsOK, BusyTarget, OpenPort, SettledTarget
  <2> QED BY <2>1, <2>2
<1>12. \A t \in Targets : SettledTarget(t)'
  BY <1>2, <1>7, <1>11 DEF SettledTarget, Taken
<1>13. DOMAIN ports' = Ports
  BY <1>3
<1>14. PortsOK'
  BY <1>4, <1>6, <1>10, <1>12, <1>13 DEF PortsOK
<1> QED BY <1>1, <1>4, <1>5, <1>14

LEMMA OwnershipDeactivated ==
  ASSUME LaneOK, PortsOK, NEW a \in Agents, DeactivateUpdaterOwnership(a)
  PROVE  OwnOK' /\ PortsOK' /\ EndpointsOK' /\ own'.agent = own.agent
<1>1. own.agent = a /\ own.epoch \in Nat /\ own.epoch # 0
  BY DEF DeactivateUpdaterOwnership, CanDeactivateOwnership, Owns, LaneOK, OwnOK
<1>2. own' = [epoch |-> own.epoch + 1, agent |-> a, rev |-> policy[a].proj]
      /\ UNCHANGED <<policy, jobs, ports, ep>>
  BY DEF DeactivateUpdaterOwnership, DeactivatePullUpdaterOwnership
<1>3. OwnOK' /\ own'.epoch # 0 /\ own'.agent = a
  BY <1>1, <1>2, HostAssumption DEF LaneOK, OwnOK
<1>4. EndpointsOK'
  BY <1>2 DEF LaneOK, EndpointsOK
<1>5. \A t \in Targets : ~BusyTarget(t)' => SettledTarget(t)'
  BY <1>1, <1>2 DEF PortsOK, BusyTarget, SettledTarget, OpenPort, JobHoldsHost, IsPortV2, Taken
<1>6. \A i \in DOMAIN jobs' : OpenPort(jobs[i])' => OpenOK(jobs[i])' /\ OnlyWork(i)'
  BY <1>2 DEF PortsOK, OpenOK, OnlyWork, OpenPort, JobHoldsHost, IsPortV2, PortV2NoOp, Taken, Announced
<1>7. PortRolesOK'
  BY <1>2 DEF PortsOK, PortRolesOK, OpenPort, JobHoldsHost, IsPortV2, PortV2NoOp
<1>8. PortsOK'
  BY <1>2, <1>3, <1>5, <1>6, <1>7 DEF PortsOK
<1> QED BY <1>1, <1>3, <1>4, <1>8

LEMMA PolicySaved ==
  ASSUME LaneOK, NEW a \in Agents, UpdateUpdaterPolicy(a)
  PROVE  OwnOK' /\ SameOwner
<1> DEFINE p == [src |-> policy[a].src + 1, proj |-> policy[a].proj + 1, exec |-> policy[a].exec + 1]
<1>1. /\ CanSavePolicy(a)
      /\ policy' = [policy EXCEPT ![a] = p]
      /\ own' = IF own.agent # None THEN [own EXCEPT !.rev = policy[a].proj + 1] ELSE own
  BY DEF UpdateUpdaterPolicy, SavePullUpdaterPolicy, LaneOK, OwnOK
<1>2. p.proj = policy[a].proj + 1
  OBVIOUS
<1> HIDE DEF p
<1>3. CASE own.agent # None
  <2>1. own.agent = a
    BY <1>1, <1>3 DEF CanSavePolicy
  <2> QED BY <2>1, <1>1, <1>2, <1>3, PolicyInstalled DEF LaneOK
<1>4. CASE own.agent = None
  BY <1>1, <1>4 DEF LaneOK, OwnOK, SameOwner
<1> QED BY <1>3, <1>4

LEMMA OwnershipWork ==
  ASSUME LaneOK, PortsOK, OwnershipNext
  PROVE  /\ WorkSame /\ HostRunsSame /\ UNCHANGED <<ups, upGrants>>
         /\ OwnOK' /\ PortsOK' /\ EndpointsOK'
         /\ own.agent # None => own'.agent = own.agent
<1> DEFINE Goal == /\ WorkSame /\ HostRunsSame /\ UNCHANGED <<ups, upGrants>>
                   /\ OwnOK' /\ PortsOK' /\ EndpointsOK'
                   /\ own.agent # None => own'.agent = own.agent
<1>1. DOMAIN host = HostFields
  BY DEF LaneOK, JobsOK, JournalOK
<1>2. UNCHANGED host => HostWorksSame /\ HostRunsSame
  BY <1>1 DEF HostWorksSame, HostRunsSame
<1>3. ASSUME NEW a \in Agents, UpdateUpdaterPolicy(a)
      PROVE  Goal
  <2>1. UNCHANGED <<jobs, grants, ups, upGrants, ports, ep, host>>
    BY <1>3 DEF UpdateUpdaterPolicy
  <2>2. OwnOK' /\ SameOwner
    BY <1>3, PolicySaved
  <2>3. EndpointsKept
    BY <2>1, EndpointsUntouched DEF LaneOK
  <2>4. PortsOK' /\ EndpointsOK'
    BY <2>1, <2>2, <2>3, PortsUntouched DEF SameOwner
  <2> QED BY <2>1, <2>2, <2>4, <1>2 DEF WorkSame, SameOwner
<1>4. ASSUME NEW a \in Agents, ActivateUpdaterOwnership(a)
      PROVE  Goal
  <2>1. UNCHANGED <<jobs, grants, ups, upGrants, host>>
    BY <1>4 DEF ActivateUpdaterOwnership
  <2> QED BY <2>1, <1>2, <1>4, OwnershipActivated DEF WorkSame
<1>5. ASSUME NEW a \in Agents, DeactivateUpdaterOwnership(a)
      PROVE  Goal
  <2>1. UNCHANGED <<jobs, grants, ups, upGrants, host>>
    BY <1>5 DEF DeactivateUpdaterOwnership
  <2> QED BY <2>1, <1>2, <1>5, OwnershipDeactivated DEF WorkSame
<1>6. ASSUME UNCHANGED <<own, policy, jobs, grants, ups, upGrants, ports, ep>>, HostWorksSame,
             HostRunsSame
      PROVE  Goal
  <2>1. OwnOK' /\ SameOwner
    BY <1>6, OwnUntouched DEF LaneOK
  <2>2. PortsOK' /\ EndpointsOK'
    BY <1>6, PortsUnderOther
  <2> QED BY <2>1, <2>2, <1>6 DEF WorkSame, SameOwner
<1>7. ASSUME NEW a \in Agents,
             \/ RegenerateNodeConfigureToken(a) \/ ConfigureTokenExpires(a)
             \/ HostAgentRuntimeIdentityStage(a)
      PROVE  Goal
  <2>1. UNCHANGED <<own, policy, jobs, grants, ups, upGrants, ports, ep, host>>
    BY <1>7 DEF RegenerateNodeConfigureToken, ConfigureTokenExpires, HostAgentRuntimeIdentityStage
  <2> QED BY <2>1, <1>2, <1>6
<1>8. ASSUME NEW a \in Agents, HostAgentRuntimeIdentityActivate(a)
      PROVE  Goal
  <2>1. UNCHANGED <<own, policy, jobs, grants, ups, upGrants, ports, ep>>
    BY <1>8 DEF HostAgentRuntimeIdentityActivate
  <2>2. \E x : host' = [host EXCEPT !.held = x]
    BY <1>8 DEF HostAgentRuntimeIdentityActivate, ActivateServiceNodeConfiguration
  <2>3. HostWorksSame /\ HostRunsSame
    BY <2>2, <1>1, HostPut
  <2> QED BY <2>1, <2>3, <1>6
<1> HIDE DEF Goal
<1>9. Goal
  BY <1>3, <1>4, <1>5, <1>7, <1>8 DEF OwnershipNext
<1> QED BY <1>9 DEF Goal

LEMMA AgentWork ==
  ASSUME LaneOK, PortsOK, AgentNext
  PROVE  /\ WorkSame /\ UNCHANGED <<own, policy>>
         /\ PortsOK' /\ EndpointsOK' /\ HostRunsSame
<1>1. DOMAIN host = HostFields
  BY DEF LaneOK, JobsOK, JournalOK
<1>2. UNCHANGED host => HostWorksSame /\ HostRunsSame
  BY <1>1 DEF HostWorksSame, HostRunsSame
<1>3. ASSUME NEW a \in Agents, PersistServiceHeartbeat(a)
      PROVE  UNCHANGED <<own, policy, jobs, grants, ports, host>> /\ EndpointsKept
  <2>1. /\ DOMAIN ep = Targets
        /\ \A u \in Targets : DOMAIN ep[u] = EndpointFields
    BY DEF LaneOK, EndpointsOK
  <2>2. DOMAIN ep' = Targets
    BY <1>3 DEF PersistServiceHeartbeat, ConfirmPortPolicyBaseline
  <2>3. \A t \in Targets : ep'[t] = ep[t] \/ ep'[t] = [ep[t] EXCEPT !.arev = ep[t].rev]
    BY <1>3 DEF PersistServiceHeartbeat, ConfirmPortPolicyBaseline
  <2>4. EndpointsKept
    BY <2>1, <2>2, <2>3 DEF EndpointsKept, EndpointFields
  <2> QED BY <2>4, <1>3 DEF PersistServiceHeartbeat
<1>4. ASSUME NEW a \in Agents, AgentGoesSilent(a)
      PROVE  UNCHANGED <<own, policy, jobs, grants, ports, ep, host>>
  BY <1>4 DEF AgentGoesSilent
<1>5. ASSUME NEW a \in Agents, NEW s, NEW d, ServiceHostAgentPolicy(a, s, d)
      PROVE  UNCHANGED <<own, policy, jobs, grants, ports, ep>> /\ HostWorksSame /\ HostRunsSame
  BY <1>1, <1>5 DEF ServiceHostAgentPolicy, HostWorksSame, HostRunsSame, HostFields
<1>6. EndpointsOK => (ep' = ep => EndpointsKept)
  BY EndpointsUntouched
<1>7. UNCHANGED <<own, policy, jobs, grants, ports>> /\ HostWorksSame /\ HostRunsSame /\ EndpointsKept
  BY <1>2, <1>3, <1>4, <1>5, <1>6 DEF AgentNext, LaneOK
<1>8. PortsOK' /\ EndpointsOK'
  BY <1>7, PortsUntouched
<1> QED BY <1>7, <1>8 DEF WorkSame

HostWorkInv == LaneOK /\ PortsOK

LEMMA WorkInit ==
  ASSUME Init
  PROVE  HostWorkInv
<1>1. /\ own = [epoch |-> 0, agent |-> None, rev |-> 0]
      /\ policy = [b \in Agents |-> [src |-> 0, proj |-> 0, exec |-> 0]]
      /\ jobs = <<>> /\ grants = <<>>
      /\ ports = [p \in Ports |-> None]
  BY DEF Init
<1>2. OwnOK
  BY <1>1 DEF OwnOK
<1>3. DOMAIN jobs = {} /\ DOMAIN grants = {} /\ IsSeq(jobs) /\ IsSeq(grants)
  BY <1>1 DEF IsSeq
<1>4. DOMAIN host = HostFields /\ host.job = None /\ host.sent = {}
  BY DEF Init, HostFields
<1>10. PICK listens \in [Targets -> Ports] :
         ep = [t \in Targets |-> [local |-> listens[t], applied |-> listens[t],
                                 desired |-> listens[t], rev |-> 1, arev |-> 0,
                                 config |-> 1, status |-> "applied"]]
  BY DEF Init
<1>5. JobsOK
  BY <1>3, <1>4 DEF JobsOK, JobRowsOK, GrantsOK, JournalOK
<1>6. /\ DOMAIN ep = Targets
      /\ \A t \in Targets : /\ DOMAIN ep[t] = EndpointFields /\ ep[t].local \in Ports
                            /\ ep[t].desired = ep[t].applied
  BY <1>10 DEF EndpointFields
<1>7. DOMAIN ports = Ports /\ \A p \in Ports : ports[p] = None
  BY <1>1
<1>8. own.epoch = 0
  BY <1>1
<1>9. PortsOK
  BY <1>3, <1>6, <1>7, <1>8 DEF PortsOK, PortRolesOK
<1> QED BY <1>2, <1>5, <1>6, <1>9 DEF HostWorkInv, LaneOK, EndpointsOK

LEMMA WorkNext ==
  ASSUME HostWorkInv, [Next]_vars
  PROVE  HostWorkInv'
<1>1. CASE JobsNext
  BY <1>1, JobLane DEF HostWorkInv, LaneKept, LaneOK
<1>2. ASSUME WorkSame, UNCHANGED <<own, policy, ports, ep>>
      PROVE  HostWorkInv'
  <2>1. OwnOK' /\ SameOwner
    BY <1>2, OwnUntouched DEF HostWorkInv, LaneOK
  <2>2. PortsOK' /\ EndpointsOK'
    BY <1>2, PortsUnderOther DEF HostWorkInv, WorkSame
  <2>3. JobsOK'
    BY <1>2, <2>1, WorkKept DEF HostWorkInv, SameOwner
  <2> QED BY <2>1, <2>2, <2>3 DEF HostWorkInv, LaneOK
<1>3. CASE RotationNext
  BY <1>2, <1>3, RotationsWork DEF HostWorkInv
<1>4. CASE SelfUpdateNext
  BY <1>2, <1>4, SelfUpdatesWork DEF HostWorkInv
<1>5. CASE OwnershipNext
  <2>1. /\ WorkSame /\ OwnOK' /\ PortsOK' /\ EndpointsOK'
        /\ own.agent # None => own'.agent = own.agent
    BY <1>5, OwnershipWork DEF HostWorkInv
  <2>2. JobsOK'
    BY <2>1, WorkKept DEF HostWorkInv
  <2> QED BY <2>1, <2>2 DEF HostWorkInv, LaneOK
<1>6. CASE AgentNext
  <2>1. /\ WorkSame /\ UNCHANGED <<own, policy>> /\ PortsOK' /\ EndpointsOK'
    BY <1>6, AgentWork DEF HostWorkInv
  <2>2. OwnOK' /\ SameOwner
    BY <2>1, OwnUntouched DEF HostWorkInv, LaneOK
  <2>3. JobsOK'
    BY <2>1, <2>2, WorkKept DEF HostWorkInv, SameOwner
  <2> QED BY <2>1, <2>2, <2>3 DEF HostWorkInv, LaneOK
<1>7. CASE UNCHANGED vars
  <2>1. WorkSame
    BY <1>7, HostUntouched DEF vars, WorkSame, HostWorkInv
  <2> QED BY <2>1, <1>2, <1>7 DEF vars
<1> QED BY <1>1, <1>3, <1>4, <1>5, <1>6, <1>7 DEF Next

(* Jobs, reservations, endpoints and ownership stay consistent under every *)
(* interleaving of administrator, agent and host.                          *)
THEOREM WorkInvariant == Spec => []HostWorkInv
<1>1. Init => HostWorkInv
  BY WorkInit
<1>2. HostWorkInv /\ [Next]_vars => HostWorkInv'
  BY WorkNext
<1> QED BY <1>1, <1>2, PTL DEF Spec

(* No interleaving of claims, reports, cancellations, expired leases and   *)
(* recoveries frees a port a service listens on, or one of the two ports   *)
(* of a port change that is not settled.                                   *)
THEOREM PortsStayReserved == Spec => []PortsReserved
<1>1. ASSUME HostWorkInv
      PROVE  PortsReserved
  <2>1. ASSUME NEW i \in HoldingJobs, IsPortV2(jobs[i])
        PROVE  /\ jobs[i].target \in Targets /\ OpenOK(jobs[i])
               /\ \A s \in {jobs[i].plan.before, jobs[i].plan.target} :
                    ports[s.local] # None /\ ports[s.local].svc = jobs[i].target
    <3>1. /\ i \in DOMAIN jobs /\ OpenOK(jobs[i]) /\ jobs[i].target \in Targets
      BY <1>1, <2>1 DEF HoldingJobs, HostWorkInv, PortsOK, OpenPort, LaneOK, JobsOK, JobRowsOK, JobOK
    <3>2. /\ ports[jobs[i].plan.before.local] = Taken(jobs[i].target)
          /\ ports[jobs[i].plan.target.local] \in {Taken(jobs[i].target), Announced(jobs[i].target)}
      BY <3>1, <2>1 DEF OpenOK, PortV2NoOp
    <3> QED BY <3>1, <3>2, Reservations
  <2>2. ASSUME own.epoch > 0, NEW t \in Targets
        PROVE  ports[ep[t].local] # None /\ ports[ep[t].local].svc = t
    <3>1. CASE ~BusyTarget(t)
      <4>1. own.epoch # 0
        BY <1>1, <2>2 DEF HostWorkInv, LaneOK, OwnOK
      <4>2. ports[ep[t].local] = Taken(t)
        BY <1>1, <3>1, <4>1 DEF HostWorkInv, PortsOK, SettledTarget
      <4> QED BY <4>2, Reservations
    <3>2. CASE BusyTarget(t)
      <4>1. PICK i \in DOMAIN jobs : OpenPort(jobs[i]) /\ jobs[i].target = t
        BY <3>2 DEF BusyTarget
      <4>2. i \in HoldingJobs /\ IsPortV2(jobs[i])
        BY <4>1 DEF OpenPort, HoldingJobs
      <4>3. ep[t].local \in {jobs[i].plan.before.local, jobs[i].plan.target.local}
        BY <4>1, <4>2, <2>1 DEF OpenOK
      <4> QED BY <4>1, <4>2, <4>3, <2>1
    <3> QED BY <3>1, <3>2
  <2> QED BY <2>1, <2>2 DEF PortsReserved
<1> QED BY <1>1, WorkInvariant, PTL

(* Whichever way the last port change ended, nothing of it is left: no     *)
(* pending reservation, no announced endpoint, and the ownership row names *)
(* the revision of the policy the agent is given.                          *)
THEOREM TransactionsSettle == Spec => []PortSettled
<1>1. ASSUME HostWorkInv
      PROVE  PortSettled
  <2> SUFFICES ASSUME own.epoch > 0, \A i \in HoldingJobs : ~IsPortV2(jobs[i])
               PROVE  /\ \A p \in Ports : ports[p] # None => ports[p].role = "api"
                      /\ \A t \in Targets : ep[t].desired = ep[t].applied /\ ports[ep[t].local].role = "api"
                      /\ own.rev = policy[own.agent].proj
    BY DEF PortSettled
  <2>1. \A i \in DOMAIN jobs : ~OpenPort(jobs[i])
    BY DEF HoldingJobs, OpenPort
  <2>2. own.epoch # 0 /\ own.agent # None /\ own.rev = policy[own.agent].proj
    BY <1>1 DEF HostWorkInv, LaneOK, OwnOK
  <2>3. \A t \in Targets : SettledTarget(t)
    BY <1>1, <2>1, <2>2 DEF HostWorkInv, PortsOK, BusyTarget
  <2>4. \A p \in Ports : ports[p] # None => ports[p].role = "api"
    BY <1>1, <2>1 DEF HostWorkInv, PortsOK, PortRolesOK
  <2> QED BY <2>2, <2>3, <2>4, Reservations DEF SettledTarget
<1> QED BY <1>1, WorkInvariant, PTL

-----------------------------------------------------------------------------
(* The recorded outcome is what happened on the host. *)

\* The Panel has closed the job: no later claim can open it again.
Closed(j) == j.status \in TerminalJob /\ ~j.recovery

\* The agent still remembers that it sent this result, so its executor has
\* ended.
Journalled(r) == host.job # None /\ host.job.id = r.job /\ host.job.gen = r.gen /\ host.job.ended

\* A result of the current lease on the network states what the host did and
\* nothing can change that any more.
ReportTrue(r) ==
  r.status \in TerminalJob /\ r.gen = jobs[r.job].gen =>
    /\ HonestResult(jobs[r.job], host.effect[r.job], r.status, r.result)
    /\ Journalled(r) \/ Closed(jobs[r.job])

VerdictOf(i) ==
  /\ jobs[i].status = "queued" => host.effect[i] = "none"
  /\ jobs[i].status = "succeeded" => host.effect[i] = "applied" \/ PortV2NoOp(jobs[i])
  /\ jobs[i].status = "rolled_back" => host.effect[i] = "rolled"
  /\ jobs[i].status = "canceled" => host.effect[i] = "none"
  /\ jobs[i].status = "failed" => host.effect[i] = "none" \/ jobs[i].recovery

EffectsOK == /\ DOMAIN host.effect = 1 .. MaxJobs
             /\ DOMAIN jobs \subseteq 1 .. MaxJobs
             /\ \A i \in 1 .. MaxJobs : i \notin DOMAIN jobs => host.effect[i] = "none"

VerdictOK == /\ EffectsOK
             /\ \A i \in DOMAIN jobs : VerdictOf(i)
             /\ \A r \in host.sent : ReportTrue(r)

LEMMA HonestSame ==
  ASSUME NEW j, NEW k, j.op = k.op, j.plan = k.plan, NEW e, NEW s, NEW x,
         HonestResult(j, e, s, x)
  PROVE  HonestResult(k, e, s, x)
<1>1. (IsPortV2(j) <=> IsPortV2(k)) /\ (PortV2NoOp(j) <=> PortV2NoOp(k))
  BY DEF IsPortV2, PortV2NoOp
<1> HIDE DEF IsPortV2, PortV2NoOp
<1> QED BY <1>1 DEF HonestResult

LEMMA SentAbout ==
  ASSUME LaneOK, NEW r \in host.sent
  PROVE  r.job \in DOMAIN jobs /\ r.gen \in Nat /\ r.gen <= jobs[r.job].gen
         /\ jobs[r.job].gen \in Nat
BY DEF LaneOK, JobsOK, JournalOK, JobRowsOK, JobOK

(* One row changes, and what the host has done and sent does not. *)
LEMMA VerdictStep ==
  ASSUME LaneOK, VerdictOK, NEW i \in DOMAIN jobs, JobStep(i), HostWorksSame,
         jobs'[i].gen = jobs[i].gen, VerdictOf(i)', Closed(jobs[i]) => Closed(jobs'[i])
  PROVE  VerdictOK'
<1>1. /\ DOMAIN jobs' = DOMAIN jobs /\ \A k \in DOMAIN jobs : k # i => jobs'[k] = jobs[k]
      /\ host'.effect = host.effect /\ host'.sent = host.sent /\ host'.job = host.job
      /\ jobs'[i].op = jobs[i].op /\ jobs'[i].plan = jobs[i].plan
  BY DEF JobStep, HostWorksSame
<1>2. EffectsOK'
  BY <1>1 DEF VerdictOK, EffectsOK
<1>3. ASSUME NEW k \in DOMAIN jobs
      PROVE  VerdictOf(k)'
  <2>1. CASE k = i
    BY <2>1
  <2>2. CASE k # i
    BY <1>1, <1>3, <2>2 DEF VerdictOK, VerdictOf, PortV2NoOp, IsPortV2
  <2> QED BY <2>1, <2>2
<1>4. ASSUME NEW r \in host.sent
      PROVE  ReportTrue(r)'
  <2>1. ReportTrue(r) /\ r.job \in DOMAIN jobs
    BY <1>4, SentAbout DEF VerdictOK
  <2>2. CASE r.job # i
    <3>1. jobs'[r.job] = jobs[r.job]
      BY <1>1, <2>1, <2>2
    <3> QED BY <1>1, <2>1, <3>1 DEF ReportTrue, Journalled, Closed, HonestResult, PortV2NoOp, IsPortV2
  <2>3. CASE r.job = i
    <3> SUFFICES ASSUME r.status \in TerminalJob, r.gen = jobs'[r.job].gen
                 PROVE  /\ HonestResult(jobs'[r.job], host'.effect[r.job], r.status, r.result)
                        /\ Journalled(r)' \/ Closed(jobs'[r.job])
      BY DEF ReportTrue, HonestResult, PortV2NoOp, IsPortV2, Closed
    <3>1. /\ HonestResult(jobs[r.job], host.effect[r.job], r.status, r.result)
          /\ Journalled(r) \/ Closed(jobs[r.job])
      BY <2>1, <2>3 DEF ReportTrue
    <3>2. HonestResult(jobs'[r.job], host'.effect[r.job], r.status, r.result)
      BY <3>1, <1>1, <2>3, HonestSame
    <3>3. Journalled(r) => Journalled(r)'
      BY <1>1 DEF Journalled
    <3> QED BY <3>1, <3>2, <3>3, <2>3
  <2> QED BY <2>2, <2>3
<1> QED BY <1>1, <1>2, <1>3, <1>4 DEF VerdictOK

(* A new job has had no effect yet. *)
LEMMA VerdictNew ==
  ASSUME LaneOK, VerdictOK, NEW n, JobAdded(n), n.status = "queued", Len(jobs) < MaxJobs,
         HostWorksSame
  PROVE  VerdictOK'
<1> DEFINE m == Len(jobs) + 1
<1>1. /\ DOMAIN jobs' = DOMAIN jobs \cup {m} /\ m \notin DOMAIN jobs
      /\ \A k \in DOMAIN jobs : jobs'[k] = jobs[k]
      /\ jobs'[m] = n
      /\ host'.effect = host.effect /\ host'.sent = host.sent /\ host'.job = host.job
  BY DEF JobAdded, HostWorksSame
<1>2. m \in 1 .. MaxJobs
  BY PortAssumption DEF LaneOK, JobsOK, JobRowsOK, IsSeq
<1> HIDE DEF m
<1>3. EffectsOK'
  BY <1>1, <1>2 DEF VerdictOK, EffectsOK
<1>4. ASSUME NEW k \in DOMAIN jobs'
      PROVE  VerdictOf(k)'
  <2>1. CASE k \in DOMAIN jobs
    BY <1>1, <2>1 DEF VerdictOK, VerdictOf, PortV2NoOp, IsPortV2
  <2>2. CASE k = m
    <3>1. jobs'[k].status = "queued" /\ host'.effect[k] = "none"
      BY <1>1, <1>2, <2>2 DEF VerdictOK, EffectsOK
    <3> QED BY <3>1 DEF VerdictOf
  <2> QED BY <2>1, <2>2, <1>1
<1>5. ASSUME NEW r \in host.sent
      PROVE  ReportTrue(r)'
  <2>1. ReportTrue(r) /\ jobs'[r.job] = jobs[r.job]
    BY <1>1, <1>5, SentAbout DEF VerdictOK
  <2> QED BY <1>1, <2>1 DEF ReportTrue, Journalled, Closed, HonestResult, PortV2NoOp, IsPortV2
<1> QED BY <1>1, <1>3, <1>4, <1>5 DEF VerdictOK

LEMMA VerdictUntouched ==
  ASSUME VerdictOK, UNCHANGED jobs, HostWorksSame
  PROVE  VerdictOK'
BY DEF VerdictOK, EffectsOK, VerdictOf, ReportTrue, Journalled, Closed, HonestResult, PortV2NoOp,
       IsPortV2, HostWorksSame

LEMMA VerdictCancel ==
  ASSUME LaneOK, VerdictOK, NEW i \in DOMAIN jobs, CancelSystemUpdate(i)
  PROVE  VerdictOK'
<1>1. JobStep(i) /\ jobs'[i].status = "canceled" /\ jobs'[i].gen = jobs[i].gen
  BY CancelShape DEF LaneOK, JobsOK
<1>2. jobs[i].status = "queued"
  BY DEF CancelSystemUpdate, CanCancelJob
<1>3. HostWorksSame
  BY HostUntouched DEF CancelSystemUpdate
<1>4. VerdictOf(i)'
  BY <1>1, <1>2, <1>3 DEF VerdictOK, VerdictOf, HostWorksSame
<1>5. ~Closed(jobs[i])
  BY <1>2 DEF Closed, TerminalJob
<1> QED BY <1>1, <1>3, <1>4, <1>5, VerdictStep

LEMMA VerdictLease ==
  ASSUME LaneOK, VerdictOK, NEW i \in DOMAIN jobs, LeaseExpires(i)
  PROVE  VerdictOK'
<1>1. /\ JobStep(i) /\ jobs'[i].status = jobs[i].status /\ jobs'[i].gen = jobs[i].gen
      /\ jobs'[i].recovery = jobs[i].recovery
  BY LeaseShape DEF LaneOK, JobsOK, SamePhase
<1>2. HostWorksSame
  BY HostUntouched DEF LeaseExpires
<1>3. PortV2NoOp(jobs[i]) <=> PortV2NoOp(jobs'[i])
  BY <1>1 DEF JobStep, PortV2NoOp, IsPortV2
<1>4. VerdictOf(i)'
  BY <1>1, <1>2, <1>3 DEF VerdictOK, VerdictOf, HostWorksSame, PortV2NoOp, IsPortV2
<1>5. Closed(jobs[i]) => Closed(jobs'[i])
  BY <1>1 DEF Closed
<1> QED BY <1>1, <1>2, <1>4, <1>5, VerdictStep

(* A claim raises the generation: no result of an earlier lease counts any *)
(* more, and the journal that is replaced was about the same job.          *)
LEMMA VerdictClaim ==
  ASSUME LaneOK, VerdictOK, NEW i \in DOMAIN jobs, NEW a \in Agents, NEW idle, NEW d,
         ServiceClaim(a, i, idle, d)
  PROVE  VerdictOK'
<1>1. /\ JobStep(i) /\ jobs'[i].status \in {"claimed", "reconciling"}
      /\ jobs'[i].gen = jobs[i].gen + 1
  BY ClaimShape DEF LaneOK, JobsOK, ServiceClaim
<1>2. /\ host'.sent = host.sent /\ host'.effect = host.effect
      /\ host'.job = host.job \/ host.job = None \/ host.job.id = i
  BY JournalShape DEF ServiceClaim
<1>3. /\ DOMAIN jobs' = DOMAIN jobs /\ \A k \in DOMAIN jobs : k # i => jobs'[k] = jobs[k]
  BY <1>1 DEF JobStep
<1>4. EffectsOK'
  BY <1>2, <1>3 DEF VerdictOK, EffectsOK
<1>5. ASSUME NEW k \in DOMAIN jobs
      PROVE  VerdictOf(k)'
  <2>1. CASE k = i
    BY <1>1, <2>1 DEF VerdictOf
  <2>2. CASE k # i
    BY <1>2, <1>3, <1>5, <2>2 DEF VerdictOK, VerdictOf, PortV2NoOp, IsPortV2
  <2> QED BY <2>1, <2>2
<1>6. ASSUME NEW r \in host.sent
      PROVE  ReportTrue(r)'
  <2>1. ReportTrue(r) /\ r.job \in DOMAIN jobs /\ r.gen \in Nat /\ r.gen <= jobs[r.job].gen
        /\ jobs[r.job].gen \in Nat
    BY <1>6, SentAbout DEF VerdictOK
  <2>2. CASE r.job = i
    <3>1. r.gen # jobs'[r.job].gen
      BY <1>1, <2>1, <2>2
    <3> QED BY <3>1 DEF ReportTrue
  <2>3. CASE r.job # i
    <3>1. jobs'[r.job] = jobs[r.job]
      BY <1>3, <2>1, <2>3
    <3>2. Journalled(r) => Journalled(r)'
      BY <1>2, <2>3 DEF Journalled
    <3> QED BY <1>2, <2>1, <3>1, <3>2 DEF ReportTrue, Closed, HonestResult, PortV2NoOp, IsPortV2
  <2> QED BY <2>2, <2>3
<1> QED BY <1>2, <1>3, <1>4, <1>5, <1>6 DEF VerdictOK

(* The agent drops its journal only once the Panel has closed the job. *)
LEMMA VerdictClear ==
  ASSUME LaneOK, VerdictOK, NEW a \in Agents, ServiceClaimClears(a)
  PROVE  VerdictOK'
<1>1. /\ jobs' = jobs /\ host'.job = None /\ host'.sent = host.sent /\ host'.effect = host.effect
  BY ClearLane DEF ServiceClaimClears
<1>2. host.job # None => Closed(jobs[host.job.id])
  <2>1. InspectActiveJob(host.job.id) = "clear"
    BY DEF ServiceClaimClears
  <2>2. ~JobHoldsHost(jobs[host.job.id])
    BY <2>1 DEF InspectActiveJob
  <2> QED BY <2>2 DEF JobHoldsHost, Closed
<1>3. EffectsOK' /\ \A k \in DOMAIN jobs : VerdictOf(k)'
  BY <1>1 DEF VerdictOK, EffectsOK, VerdictOf, PortV2NoOp, IsPortV2
<1>4. ASSUME NEW r \in host.sent
      PROVE  ReportTrue(r)'
  <2>1. ReportTrue(r)
    BY <1>4 DEF VerdictOK
  <2>2. Journalled(r) => Closed(jobs[r.job])
    BY <1>2 DEF Journalled
  <2> QED BY <1>1, <2>1, <2>2 DEF ReportTrue, Closed, HonestResult, PortV2NoOp, IsPortV2
<1> QED BY <1>1, <1>3, <1>4 DEF VerdictOK

(* An honest result of the current lease is what the host did. *)
LEMMA VerdictReport ==
  ASSUME LaneOK, VerdictOK, NEW r \in host.sent, ServiceReport(r)
  PROVE  VerdictOK'
<1> DEFINE i == r.job
<1>1. i \in DOMAIN jobs /\ ReportTrue(r)
  BY SentAbout DEF VerdictOK
<1>2. /\ ReportJob(i, r) /\ jobs[i].gen = r.gen /\ jobs[i].status \notin TerminalJob
      /\ UNCHANGED host
  BY DEF ServiceReport, CanReport, ReportLeaseMatches
<1>3. /\ JobStep(i) /\ jobs'[i].status = r.status /\ jobs'[i].gen = jobs[i].gen
      /\ r.status \in TerminalJob /\ IsPortV2(jobs[i]) => FinishedAs(i, r.result)
  BY <1>1, <1>2, ReportShape DEF LaneOK, JobsOK
<1>4. HostWorksSame
  BY <1>2, HostUntouched
<1>5. r.status \in ExecutingJob \cup {"succeeded", "rolled_back", "failed"}
  BY DEF LaneOK, JobsOK, JournalOK
<1>6. ~Closed(jobs[i])
  BY <1>2 DEF Closed
<1>7. VerdictOf(i)'
  <2>1. CASE r.status \in ExecutingJob
    BY <1>3, <2>1 DEF VerdictOf, ExecutingJob
  <2>2. CASE r.status \in {"succeeded", "rolled_back", "failed"}
    <3>1. r.status \in TerminalJob
      BY <2>2 DEF TerminalJob
    <3>2. HonestResult(jobs[i], host.effect[i], r.status, r.result)
      BY <1>1, <1>2, <3>1 DEF ReportTrue
    <3>3. host'.effect[i] = host.effect[i]
      BY <1>4 DEF HostWorksSame
    <3>4. PortV2NoOp(jobs[i]) <=> PortV2NoOp(jobs'[i])
      BY <1>3 DEF JobStep, PortV2NoOp, IsPortV2
    <3>5. CASE r.status = "succeeded"
      <4>1. host.effect[i] = "applied" \/ PortV2NoOp(jobs'[i])
        BY <3>2, <3>4, <3>5 DEF HonestResult
      <4> QED BY <4>1, <3>3, <3>5, <1>3 DEF VerdictOf, PortV2NoOp, IsPortV2
    <3>6. CASE r.status = "rolled_back"
      <4>1. host.effect[i] = "rolled"
        BY <3>2, <3>6 DEF HonestResult
      <4> QED BY <4>1, <3>3, <3>6, <1>3 DEF VerdictOf
    <3>7. CASE r.status = "failed"
      <4>1. host.effect[i] = "none" \/ IsPortV2(jobs[i])
        BY <3>2, <3>7 DEF HonestResult
      <4>2. CASE host.effect[i] = "none"
        BY <4>2, <3>3, <3>7, <1>3 DEF VerdictOf
      <4>3. CASE IsPortV2(jobs[i]) /\ host.effect[i] # "none"
        <5>1. r.result = "rollback_failed"
          BY <3>2, <3>7, <4>3 DEF HonestResult
        <5>2. jobs'[i].recovery
          BY <1>3, <3>1, <4>3, <5>1 DEF FinishedAs
        <5> QED BY <5>2, <3>7, <1>3 DEF VerdictOf
      <4> QED BY <4>1, <4>2, <4>3
    <3> QED BY <2>2, <3>5, <3>6, <3>7
  <2> QED BY <1>5, <2>1, <2>2
<1> HIDE DEF i
<1> QED BY <1>1, <1>3, <1>4, <1>6, <1>7, VerdictStep

(* The executor acts under the current lease before any result of that *)
(* lease is sent.                                                       *)
LEMMA VerdictConsume ==
  ASSUME LaneOK, VerdictOK, NEW k \in DOMAIN grants, NEW o, MutationGrantConsume(k, o)
  PROVE  VerdictOK'
<1> DEFINE i == grants[k].job
<1>1. /\ i \in DOMAIN jobs /\ ConsumeCases(i) /\ jobs[i].status \in {"installing", "reconciling"}
      /\ jobs[i].gen = grants[k].gen /\ ~ExecutorEnded(grants[k])
  BY ConsumeSplit
<1>2. /\ host'.job = host.job /\ host'.sent = host.sent
      /\ DOMAIN host'.effect = DOMAIN host.effect
      /\ \A m \in DOMAIN host.effect : m # i => host'.effect[m] = host.effect[m]
  BY ConsumeHost
<1>3. /\ DOMAIN jobs' = DOMAIN jobs /\ \A m \in DOMAIN jobs : m # i => jobs'[m] = jobs[m]
      /\ jobs'[i].status = jobs[i].status /\ jobs'[i].gen = jobs[i].gen
  <2>1. CASE ConsumePortV2(i, "apply")
    BY <2>1, <1>1, ConsumeShape DEF LaneOK, JobsOK, JobStep
  <2> QED BY <2>1, <1>1 DEF ConsumeCases
<1>4. EffectsOK'
  BY <1>1, <1>2, <1>3 DEF VerdictOK, EffectsOK
<1>5. ASSUME NEW m \in DOMAIN jobs
      PROVE  VerdictOf(m)'
  <2>1. CASE m = i
    BY <1>1, <1>3, <2>1 DEF VerdictOf
  <2>2. CASE m # i
    <3>1. jobs'[m] = jobs[m] /\ host'.effect[m] = host.effect[m]
      BY <1>2, <1>3, <1>5, <2>2 DEF VerdictOK, EffectsOK
    <3> QED BY <3>1, <1>5 DEF VerdictOK, VerdictOf, PortV2NoOp, IsPortV2
  <2> QED BY <2>1, <2>2
<1>6. ASSUME NEW r \in host.sent
      PROVE  ReportTrue(r)'
  <2>1. ReportTrue(r) /\ r.job \in DOMAIN jobs
    BY <1>6, SentAbout DEF VerdictOK
  <2>2. CASE r.job = i
    <3>1. ~(r.status \in TerminalJob /\ r.gen = jobs[i].gen)
      <4>1. ~Closed(jobs[i])
        BY <1>1 DEF Closed, TerminalJob
      <4>2. r.gen = jobs[i].gen => ~Journalled(r)
        BY <1>1, <2>2 DEF Journalled, ExecutorEnded
      <4> QED BY <2>1, <2>2, <4>1, <4>2 DEF ReportTrue
    <3> QED BY <3>1, <2>2, <1>3 DEF ReportTrue
  <2>3. CASE r.job # i
    <3>1. jobs'[r.job] = jobs[r.job] /\ host'.effect[r.job] = host.effect[r.job]
      BY <1>2, <1>3, <2>1, <2>3 DEF VerdictOK, EffectsOK
    <3> QED BY <1>2, <2>1, <3>1 DEF ReportTrue, Journalled, Closed, HonestResult, PortV2NoOp, IsPortV2
  <2> QED BY <2>2, <2>3
<1> QED BY <1>2, <1>3, <1>4, <1>5, <1>6 DEF VerdictOK

(* A result is honest when it is sent, and ends the executor's work. *)
LEMMA VerdictSend ==
  ASSUME LaneOK, VerdictOK, UNCHANGED jobs, host.job # None, NEW r, SentAs(r),
         r.status \in TerminalJob =>
           /\ r.job = host.job.id /\ r.gen = host.job.gen /\ r.seq = 0
           /\ HonestResult(jobs[r.job], host.effect[r.job], r.status, r.result)
  PROVE  VerdictOK'
<1>1. /\ host'.effect = host.effect
      /\ \A q \in host'.sent : q \in host.sent \/ q = r
      /\ host'.job \in JournalEntry /\ host'.job.id = host.job.id /\ host'.job.gen = host.job.gen
      /\ host.job.ended => host'.job.ended
      /\ r.seq = 0 /\ r.status \in TerminalJob => host'.job.ended
  BY DEF SentAs
<1>2. host'.job # None
  BY <1>1, JobsAssumption DEF JournalEntry
<1>3. EffectsOK' /\ \A k \in DOMAIN jobs : VerdictOf(k)'
  BY <1>1 DEF VerdictOK, EffectsOK, VerdictOf, PortV2NoOp, IsPortV2
<1>4. ASSUME NEW q \in host.sent
      PROVE  ReportTrue(q)'
  <2>1. ReportTrue(q)
    BY <1>4 DEF VerdictOK
  <2>2. Journalled(q) => Journalled(q)'
    BY <1>1, <1>2 DEF Journalled
  <2> QED BY <1>1, <2>1, <2>2 DEF ReportTrue, Closed, HonestResult, PortV2NoOp, IsPortV2
<1>5. ReportTrue(r)'
  <2>1. CASE r.status \notin TerminalJob
    BY <2>1 DEF ReportTrue
  <2>2. CASE r.status \in TerminalJob
    <3>1. Journalled(r)'
      BY <1>1, <1>2, <2>2 DEF Journalled
    <3>2. HonestResult(jobs'[r.job], host'.effect[r.job], r.status, r.result)
      BY <1>1, <2>2
    <3> QED BY <3>1, <3>2 DEF ReportTrue, HonestResult, PortV2NoOp, IsPortV2
  <2> QED BY <2>1, <2>2
<1> QED BY <1>1, <1>3, <1>4, <1>5 DEF VerdictOK

LEMMA VerdictJobs ==
  ASSUME LaneOK, VerdictOK, JobsNext
  PROVE  VerdictOK'
<1> DEFINE Goal == VerdictOK'
<1>1. ASSUME NEW a \in Agents, NEW t \in Targets, CreateSystemUpdate(a, t)
      PROVE  Goal
  <2>1. SoftwareJob(a, t).status = "queued"
    BY DEF SoftwareJob
  <2>2. JobAdded(SoftwareJob(a, t)) /\ Len(jobs) < MaxJobs
    BY <1>1, CreateLane DEF CreateSystemUpdate
  <2>3. HostWorksSame
    BY <1>1, HostUntouched DEF CreateSystemUpdate
  <2> QED BY <2>1, <2>2, <2>3, VerdictNew
<1>2. ASSUME NEW a \in Agents, NEW t \in Targets, NEW p \in Ports, NEW adv,
             CreatePortReconfiguration(a, t, p, adv)
      PROVE  Goal
  <2>1. PortV2Job(a, t, p, adv).status = "queued"
    BY DEF PortV2Job
  <2>2. JobAdded(PortV2Job(a, t, p, adv)) /\ Len(jobs) < MaxJobs
    BY <1>2, CreatePortLane DEF CreatePortReconfiguration
  <2>3. HostWorksSame
    BY <1>2, HostUntouched DEF CreatePortReconfiguration
  <2> QED BY <2>1, <2>2, <2>3, VerdictNew
<1>3. ASSUME NEW i \in DOMAIN jobs, CancelSystemUpdate(i)
      PROVE  Goal
  BY <1>3, VerdictCancel
<1>4. ASSUME NEW i \in DOMAIN jobs, LeaseExpires(i)
      PROVE  Goal
  BY <1>4, VerdictLease
<1>5. ASSUME NEW i \in DOMAIN jobs, NEW a \in Agents, NEW idle, NEW d, ServiceClaim(a, i, idle, d)
      PROVE  Goal
  BY <1>5, VerdictClaim
<1>6. ASSUME NEW a \in Agents, ServiceClaimClears(a)
      PROVE  Goal
  BY <1>6, VerdictClear
<1>7. ASSUME NEW r \in host.sent, ServiceReport(r)
      PROVE  Goal
  BY <1>7, VerdictReport
<1>8. ASSUME NEW op, MutationGrantIssue(op)
      PROVE  Goal
  <2>1. UNCHANGED <<jobs, host>>
    BY <1>8 DEF MutationGrantIssue
  <2> QED BY <2>1, HostUntouched, VerdictUntouched
<1>9. ASSUME NEW k \in DOMAIN grants, NEW o, MutationGrantConsume(k, o)
      PROVE  Goal
  BY <1>9, VerdictConsume
<1>10. ASSUME NEW s \in Reported, AgentReportsProgress(s)
       PROVE  Goal
  <2>1. PICK r : SentAs(r) /\ r.status \notin TerminalJob /\ host.job # None
    BY <1>10, ProgressLane
  <2>2. UNCHANGED jobs
    BY <1>10 DEF AgentReportsProgress
  <2> QED BY <2>1, <2>2, VerdictSend
<1>11. ASSUME NEW s \in {"succeeded", "rolled_back", "failed", "reconciling"}, NEW x,
              AgentReportsResult(s, x)
       PROVE  Goal
  <2>1. PICK r : /\ SentAs(r) /\ r.job = host.job.id /\ r.gen = host.job.gen /\ r.seq = 0
                 /\ r.status = s /\ r.result = x /\ host.job # None
                 /\ HonestResult(jobs[host.job.id], host.effect[host.job.id], s, x)
    BY <1>11, ResultLane
  <2>2. UNCHANGED jobs
    BY <1>11 DEF AgentReportsResult
  <2>3. HonestResult(jobs[r.job], host.effect[r.job], r.status, r.result)
    BY <2>1
  <2> QED BY <2>1, <2>2, <2>3, VerdictSend
<1> HIDE DEF Goal
<1>12. Goal
  BY <1>1, <1>2, <1>3, <1>4, <1>5, <1>6, <1>7, <1>8, <1>9, <1>10, <1>11 DEF JobsNext
<1> QED BY <1>12 DEF Goal

LEMMA VerdictInit ==
  ASSUME Init
  PROVE  VerdictOK
<1>1. jobs = <<>>
  BY DEF Init
<1>2. host.sent = {} /\ host.effect = [i \in 1 .. MaxJobs |-> "none"]
  BY DEF Init
<1>3. DOMAIN jobs = {}
  BY <1>1
<1> QED BY <1>2, <1>3 DEF VerdictOK, EffectsOK

(* The recorded outcome of every job is what happened on the host,         *)
(* although its reports are repeated, delayed and overtaken by the lease   *)
(* of a later claim.                                                       *)
THEOREM VerdictsTrue == Spec => []VerdictTrue
<1>1. Init => VerdictOK
  BY VerdictInit
<1>2. ASSUME HostWorkInv, VerdictOK, [Next]_vars
      PROVE  VerdictOK'
  <2>1. CASE JobsNext
    BY <2>1, <1>2, VerdictJobs DEF HostWorkInv
  <2>2. CASE RotationNext \/ SelfUpdateNext \/ OwnershipNext \/ AgentNext
    <3>1. WorkSame
      BY <2>2, <1>2, RotationsWork, SelfUpdatesWork, OwnershipWork, AgentWork DEF HostWorkInv
    <3> QED BY <3>1, <1>2, VerdictUntouched DEF WorkSame
  <2>3. CASE UNCHANGED vars
    <3>1. HostWorksSame
      BY <2>3, <1>2, HostUntouched DEF vars, HostWorkInv
    <3> QED BY <3>1, <2>3, <1>2, VerdictUntouched DEF vars
  <2> QED BY <1>2, <2>1, <2>2, <2>3 DEF Next
<1>3. VerdictOK => VerdictTrue
  BY DEF VerdictOK, VerdictOf, VerdictTrue
<1> QED BY <1>1, <1>2, <1>3, WorkInvariant, PTL DEF Spec

-----------------------------------------------------------------------------
(* Self-updates of the host. *)

UpFields == {"agent", "status", "target", "prev", "epoch", "src", "proj", "exec", "obs", "phase"}
UpGrantFields == {"up", "op", "session", "state"}
HostPhases == {"stable", "staged", "activating", "verifying", "rolling_back"}

\* The host has been told to begin.
Started(u) == u.status \notin TerminalUpdate \cup {"queued"}

\* An attempt some row may name.
Named == DOMAIN ups \cup {None}

UpOK(u) == /\ DOMAIN u = UpFields /\ u.agent = own.agent /\ u.agent \in Agents
           /\ u.target \in Nat /\ u.prev \in Nat /\ u.target > u.prev

UpRowsOK == IsSeq(ups) /\ \A i \in DOMAIN ups : UpOK(ups[i])

UpGrantsOK == /\ IsSeq(upGrants)
              /\ \A k \in DOMAIN upGrants : /\ DOMAIN upGrants[k] = UpGrantFields
                                            /\ upGrants[k].up \in DOMAIN ups

RunsOK == /\ host.ver \in Nat /\ host.phase \in HostPhases
          /\ host.pending = None <=> host.phase = "stable"
          /\ host.pending \in Named /\ host.gen \in Named /\ host.failed \in Named
          /\ host.pending # None => Started(ups[host.pending])

RowsReportOK == \A a \in Agents : /\ svc[a].ver \in Nat
                                  /\ svc[a].gen \in Named /\ svc[a].failed \in Named

\* Nothing of a queued attempt has happened on the host.
QueuedOK(i) ==
  ups[i].status = "queued" =>
    /\ host.ver = ups[i].prev
    /\ i # host.pending /\ i # host.gen /\ i # host.failed
    /\ \A a \in Agents : i # svc[a].gen /\ i # svc[a].failed

\* The host runs the target once it has proved it and the previous release
\* until it activates, and what a row says of the attempt is true.
StartedOK(i) ==
  Started(ups[i]) =>
    /\ host.pending \in {None, i}
    /\ \A a \in Agents : /\ svc[a].gen = i => host.gen = i
                         /\ svc[a].failed = i => host.failed = i
    /\ host.gen = i => host.ver = ups[i].target /\ host.failed # i
    /\ host.gen # i => \/ host.ver = ups[i].prev
                       \/ /\ host.pending = i /\ host.ver = ups[i].target
                          /\ host.phase \in {"verifying", "rolling_back"}
    /\ host.pending = i => /\ host.gen # i /\ host.failed # i
                           /\ host.phase = "verifying" => host.ver = ups[i].target

OneActive == \A i, k \in DOMAIN ups :
               ups[i].status \notin TerminalUpdate /\ ups[k].status \notin TerminalUpdate => i = k

\* While no attempt runs, what the owner last reported as stable is what the
\* host runs.
QuietReports ==
  (\A i \in DOMAIN ups : ~Started(ups[i])) =>
     \A a \in Agents : own.agent \in {None, a} /\ svc[a].phase = "stable" => svc[a].ver = host.ver

EndedOK(i) ==
  /\ ups[i].status = "succeeded" =>
       /\ host.ver >= ups[i].target
       /\ \A k \in DOMAIN ups : ups[k].status \notin TerminalUpdate => ups[k].prev >= ups[i].target
  /\ ups[i].status = "canceled" => i # host.pending /\ i # host.gen /\ i # host.failed

UpdateTypes == UpRowsOK /\ UpGrantsOK /\ RunsOK /\ RowsReportOK
UpdateLane == OneActive /\ QuietReports
              /\ \A i \in DOMAIN ups : QueuedOK(i) /\ StartedOK(i) /\ EndedOK(i)

UpdatesOK == UpdateTypes /\ UpdateLane

\* What a row says of the host: what it said before, nothing, or the truth.
RowsFollow ==
  \A a \in Agents :
    \/ /\ svc'[a].ver = svc[a].ver /\ svc'[a].phase = svc[a].phase
       /\ svc'[a].gen = svc[a].gen /\ svc'[a].failed = svc[a].failed
    \/ /\ svc'[a].ver = 0 /\ svc'[a].phase = "none"
       /\ svc'[a].gen = None /\ svc'[a].failed = None
    \/ /\ svc'[a].ver = host.ver /\ svc'[a].phase = host.phase
       /\ svc'[a].gen = host.gen /\ svc'[a].failed = host.failed

(* The other lanes change neither the attempts nor what the host runs. *)
LEMMA UpdatesFrame ==
  ASSUME UpdatesOK, UNCHANGED ups, UpGrantsOK', HostRunsSame, RowsFollow,
         own.agent # None => own'.agent = own.agent
  PROVE  UpdatesOK'
<1>1. /\ host'.ver = host.ver /\ host'.phase = host.phase /\ host'.pending = host.pending
      /\ host'.gen = host.gen /\ host'.failed = host.failed
  BY DEF HostRunsSame
<1>2. UpRowsOK'
  <2>1. \A i \in DOMAIN ups : UpOK(ups[i])
    BY DEF UpdatesOK, UpdateTypes, UpRowsOK
  <2>2. \A i \in DOMAIN ups : own.agent # None
    BY <2>1, HostAssumption DEF UpOK
  <2>3. \A i \in DOMAIN ups : UpOK(ups[i])'
    BY <2>1, <2>2 DEF UpOK
  <2> QED BY <2>3 DEF UpdatesOK, UpdateTypes, UpRowsOK, IsSeq
<1>4. RunsOK'
  BY <1>1 DEF UpdatesOK, UpdateTypes, RunsOK, Named, Started
<1>5. RowsReportOK'
  <2>1. RowsReportOK /\ RunsOK
    BY DEF UpdatesOK, UpdateTypes
  <2> QED BY <2>1 DEF RowsReportOK, RunsOK, RowsFollow, Named
<1>6. \A i \in DOMAIN ups : QueuedOK(i)'
  <2>1. \A i \in DOMAIN ups : QueuedOK(i) /\ i # None
    BY HostAssumption DEF UpdatesOK, UpdateLane, UpdateTypes, UpRowsOK, IsSeq
  <2> QED BY <1>1, <2>1 DEF QueuedOK, RowsFollow
<1>7. \A i \in DOMAIN ups : StartedOK(i)'
  <2>1. \A i \in DOMAIN ups : StartedOK(i) /\ i # None
    BY HostAssumption DEF UpdatesOK, UpdateLane, UpdateTypes, UpRowsOK, IsSeq
  <2> QED BY <1>1, <2>1 DEF StartedOK, Started, RowsFollow
<1>8. \A i \in DOMAIN ups : EndedOK(i)'
  BY <1>1 DEF UpdatesOK, UpdateLane, EndedOK
<1>9. QuietReports'
  <2>1. \A a \in Agents : own'.agent \in {None, a} => own.agent \in {None, a}
    OBVIOUS
  <2>2. QuietReports
    BY DEF UpdatesOK, UpdateLane
  <2> QED BY <1>1, <2>1, <2>2 DEF QuietReports, Started, RowsFollow
<1>10. OneActive'
  BY DEF UpdatesOK, UpdateLane, OneActive
<1> QED BY <1>2, <1>4, <1>5, <1>6, <1>7, <1>8, <1>9, <1>10 DEF UpdatesOK, UpdateTypes, UpdateLane

-----------------------------------------------------------------------------
(* One attempt moves on. *)

UpStep(i) == /\ IsSeq(ups') /\ DOMAIN ups' = DOMAIN ups
             /\ \A k \in DOMAIN ups : k # i => ups'[k] = ups[k]
             /\ DOMAIN ups'[i] = UpFields
             /\ ups'[i].agent = ups[i].agent /\ ups'[i].target = ups[i].target
             /\ ups'[i].prev = ups[i].prev

LEMMA UpPut ==
  ASSUME UpRowsOK, NEW i \in DOMAIN ups, NEW n, ups' = [ups EXCEPT ![i] = n],
         DOMAIN n = UpFields, n.agent = ups[i].agent, n.target = ups[i].target,
         n.prev = ups[i].prev
  PROVE  UpStep(i) /\ ups'[i] = n
BY AnySeqPut DEF UpRowsOK, UpStep

LEMMA UpUntouched ==
  ASSUME UpRowsOK, NEW i \in DOMAIN ups, UNCHANGED ups
  PROVE  UpStep(i)
BY DEF UpRowsOK, UpStep, UpOK, IsSeq

LEMMA OnlyActive ==
  ASSUME UpdatesOK, NEW i \in DOMAIN ups, ups[i].status \notin TerminalUpdate
  PROVE  /\ \A k \in DOMAIN ups : k # i => ups[k].status \in TerminalUpdate
         /\ host.pending \in {None, i}
<1>1. OneActive /\ RunsOK
  BY DEF UpdatesOK, UpdateLane, UpdateTypes
<1> QED BY <1>1 DEF OneActive, RunsOK, Started, Named

LEMMA UpStepTypes ==
  ASSUME UpRowsOK, NEW i \in DOMAIN ups, UpStep(i), UNCHANGED own
  PROVE  UpRowsOK'
<1>1. \A k \in DOMAIN ups : UpOK(ups[k])
  BY DEF UpRowsOK
<1>2. \A k \in DOMAIN ups : k # i => UpOK(ups[k])'
  BY <1>1 DEF UpOK, UpStep
<1>3. UpOK(ups[i])'
  BY <1>1 DEF UpOK, UpStep
<1> QED BY <1>2, <1>3 DEF UpRowsOK, UpStep

\* The attempt goes on, under way or still waiting.
GoesOn(i) == /\ ups[i].status \notin TerminalUpdate
             /\ ups'[i].status \notin TerminalUpdate
             /\ ups'[i].status = "queued" => ups[i].status = "queued"

\* The executor has staged the release.
HostBegun(i) == /\ host.phase = "stable" /\ host.gen # i /\ host.failed # i
                /\ host'.phase = "staged" /\ host'.pending = i /\ host'.ver = host.ver
                /\ host'.gen = host.gen /\ host'.failed = host.failed

LEMMA UpdateGoesOn ==
  ASSUME UpdatesOK, NEW i \in DOMAIN ups, UpStep(i), GoesOn(i), UNCHANGED <<own, svc>>,
         UpGrantsOK',
         \/ HostRunsSame
         \/ HostBegun(i) /\ ups'[i].status # "queued"
  PROVE  UpdatesOK'
<1>1. /\ \A k \in DOMAIN ups : k # i => ups[k].status \in TerminalUpdate
      /\ host.pending \in {None, i} /\ i # None
  BY OnlyActive, HostAssumption DEF GoesOn, UpdatesOK, UpdateTypes, UpRowsOK, IsSeq
<1>2. /\ DOMAIN ups' = DOMAIN ups /\ \A k \in DOMAIN ups : k # i => ups'[k] = ups[k]
      /\ ups'[i].target = ups[i].target /\ ups'[i].prev = ups[i].prev
  BY DEF UpStep
<1>3. UpRowsOK'
  BY UpStepTypes DEF UpdatesOK, UpdateTypes
<1>4. RunsOK /\ RowsReportOK /\ QueuedOK(i) /\ StartedOK(i)
  BY DEF UpdatesOK, UpdateTypes, UpdateLane
<1>5. /\ host'.ver = host.ver /\ host'.gen = host.gen /\ host'.failed = host.failed
      /\ \/ host'.phase = host.phase /\ host'.pending = host.pending
         \/ HostBegun(i) /\ ups'[i].status # "queued"
  BY DEF HostRunsSame, HostBegun
<1>6. RunsOK'
  <2>1. Started(ups[i]) => Started(ups'[i])
    BY DEF GoesOn, Started
  <2>2. HostBegun(i) /\ ups'[i].status # "queued" => Started(ups'[i])
    BY DEF GoesOn, Started
  <2>3. CASE host'.phase = host.phase /\ host'.pending = host.pending
    BY <1>1, <1>2, <1>4, <1>5, <2>1, <2>3 DEF RunsOK, Named, Started
  <2>4. CASE HostBegun(i) /\ ups'[i].status # "queued"
    BY <1>1, <1>2, <1>4, <1>5, <2>2, <2>4 DEF RunsOK, Named, Started, HostBegun, HostPhases
  <2> QED BY <1>5, <2>3, <2>4
<1>7. RowsReportOK'
  BY <1>2, <1>4 DEF RowsReportOK, Named
<1>8. QueuedOK(i)'
  BY <1>2, <1>4, <1>5 DEF QueuedOK, GoesOn
<1>9. StartedOK(i)'
  <2>1. CASE ups[i].status = "queued"
    BY <1>1, <1>2, <1>4, <1>5, <2>1 DEF QueuedOK, StartedOK, HostBegun
  <2>2. CASE ups[i].status # "queued"
    <3>1. Started(ups[i])
      BY <2>2 DEF Started, GoesOn
    <3>2. CASE host'.phase = host.phase /\ host'.pending = host.pending
      BY <1>2, <1>4, <1>5, <3>1, <3>2 DEF StartedOK
    <3>3. CASE HostBegun(i)
      <4>1. host.pending = None
        BY <1>4, <3>3 DEF RunsOK, HostBegun
      <4> QED BY <1>1, <1>2, <1>4, <1>5, <3>1, <3>3, <4>1 DEF StartedOK, HostBegun
    <3> QED BY <1>5, <3>2, <3>3
  <2> QED BY <2>1, <2>2
<1>10. ASSUME NEW k \in DOMAIN ups, k # i
       PROVE  QueuedOK(k)' /\ StartedOK(k)' /\ EndedOK(k)'
  <2>1. ups'[k] = ups[k] /\ ups[k].status \in TerminalUpdate /\ EndedOK(k)
    BY <1>1, <1>2, <1>10 DEF UpdatesOK, UpdateLane
  <2>2. QueuedOK(k)' /\ StartedOK(k)'
    BY <2>1 DEF QueuedOK, StartedOK, Started, TerminalUpdate
  <2>3. EndedOK(k)'
    <3>1. host'.pending \in {host.pending, i}
      BY <1>5 DEF HostBegun
    <3> QED BY <1>1, <1>2, <1>5, <1>10, <2>1, <3>1 DEF EndedOK, GoesOn
  <2> QED BY <2>2, <2>3
<1>11. EndedOK(i)'
  BY DEF EndedOK, GoesOn, TerminalUpdate
<1>12. OneActive'
  BY <1>1, <1>2 DEF OneActive
<1>13. QuietReports'
  <2>1. QuietReports
    BY DEF UpdatesOK, UpdateLane
  <2>2. (\A k \in DOMAIN ups : ~Started(ups'[k])) => \A k \in DOMAIN ups : ~Started(ups[k])
    BY <1>1, <1>2 DEF Started, GoesOn
  <2> QED BY <1>2, <1>5, <2>1, <2>2 DEF QuietReports, Started
<1> QED BY <1>2, <1>3, <1>6, <1>7, <1>8, <1>9, <1>10, <1>11, <1>12, <1>13
        DEF UpdatesOK, UpdateTypes, UpdateLane

\* The attempt ends with what the host has done: proved, taken back or never
\* begun.
Ends(i) == /\ ups[i].status \notin TerminalUpdate
           /\ \/ /\ ups'[i].status = "succeeded" /\ ups[i].status # "queued"
                 /\ svc[ups[i].agent].gen = i /\ svc[ups[i].agent].ver = ups[i].target
              \/ /\ ups'[i].status = "rolled_back"
                 /\ svc[ups[i].agent].failed = i /\ svc[ups[i].agent].ver = ups[i].prev
              \/ ups'[i].status = "canceled" /\ ups[i].status = "queued"

LEMMA UpdateEnds ==
  ASSUME UpdatesOK, NEW i \in DOMAIN ups, UpStep(i), Ends(i), UNCHANGED <<own, svc>>,
         UpGrantsOK', HostRunsSame
  PROVE  UpdatesOK'
<1> DEFINE a == ups[i].agent
<1>1. /\ \A k \in DOMAIN ups : k # i => ups[k].status \in TerminalUpdate
      /\ host.pending \in {None, i} /\ i # None
  BY OnlyActive, HostAssumption DEF Ends, UpdatesOK, UpdateTypes, UpRowsOK, IsSeq
<1>2. /\ DOMAIN ups' = DOMAIN ups /\ \A k \in DOMAIN ups : k # i => ups'[k] = ups[k]
      /\ ups'[i].target = ups[i].target /\ ups'[i].prev = ups[i].prev
  BY DEF UpStep
<1>3. UpRowsOK'
  BY UpStepTypes DEF UpdatesOK, UpdateTypes
<1>4. RunsOK /\ RowsReportOK /\ QueuedOK(i) /\ StartedOK(i) /\ UpOK(ups[i])
  BY DEF UpdatesOK, UpdateTypes, UpdateLane, UpRowsOK
<1>5. /\ host'.ver = host.ver /\ host'.gen = host.gen /\ host'.failed = host.failed
      /\ host'.phase = host.phase /\ host'.pending = host.pending
  BY DEF HostRunsSame
<1>6. a \in Agents /\ a = own.agent /\ a # None
  BY <1>4, HostAssumption DEF UpOK
<1>7. host.pending = None
  <2>1. CASE ups[i].status = "queued"
    BY <1>1, <1>4, <2>1 DEF QueuedOK
  <2>2. CASE Started(ups[i])
    <3>1. svc[a].gen = i \/ svc[a].failed = i
      BY <2>2 DEF Ends, Started
    <3>2. host.gen = i \/ host.failed = i
      BY <2>2, <3>1, <1>4, <1>6 DEF StartedOK
    <3> QED BY <1>1, <2>2, <3>2, <1>4 DEF StartedOK
  <2> QED BY <2>1, <2>2 DEF Ends, Started
<1>8. ups'[i].status \in {"succeeded", "rolled_back"} =>
        /\ Started(ups[i]) /\ svc[a].ver = host.ver
        /\ ups'[i].status = "succeeded" => host.ver = ups[i].target
  <2>1. CASE ups'[i].status = "succeeded"
    <3>1. Started(ups[i]) /\ svc[a].gen = i /\ svc[a].ver = ups[i].target
      BY <2>1 DEF Ends, Started
    <3>2. host.gen = i /\ host.ver = ups[i].target
      BY <3>1, <1>4, <1>6 DEF StartedOK
    <3> QED BY <3>1, <3>2
  <2>2. CASE ups'[i].status = "rolled_back"
    <3>1. svc[a].failed = i /\ svc[a].ver = ups[i].prev /\ ups[i].status \notin TerminalUpdate
      BY <2>2 DEF Ends
    <3>2. Started(ups[i])
      BY <3>1, <1>4, <1>6 DEF Started, QueuedOK
    <3>3. host.failed = i
      BY <3>1, <3>2, <1>4, <1>6 DEF StartedOK
    <3>4. host.ver = ups[i].prev
      BY <3>2, <3>3, <1>1, <1>4, <1>7 DEF StartedOK
    <3> QED BY <2>2, <3>1, <3>2, <3>4
  <2> QED BY <2>1, <2>2
<1>9. \A k \in DOMAIN ups : ups'[k].status \in TerminalUpdate
  BY <1>1, <1>2 DEF Ends, TerminalUpdate
<1>10. RunsOK' /\ RowsReportOK'
  BY <1>2, <1>4, <1>5, <1>7 DEF RunsOK, RowsReportOK, Named
<1>11. \A k \in DOMAIN ups : QueuedOK(k)' /\ StartedOK(k)'
  BY <1>9 DEF QueuedOK, StartedOK, Started, TerminalUpdate
<1>12. OneActive'
  BY <1>2, <1>9 DEF OneActive
<1>13. QuietReports'
  <2> SUFFICES ASSUME NEW b \in Agents, own.agent \in {None, b}, svc[b].phase = "stable"
               PROVE  svc[b].ver = host.ver
    BY <1>5 DEF QuietReports
  <2>1. b = a
    BY <1>6
  <2>2. CASE ups'[i].status \in {"succeeded", "rolled_back"}
    BY <1>8, <2>1, <2>2
  <2>3. CASE ups'[i].status = "canceled"
    <3>1. ~Started(ups[i])
      BY <2>3 DEF Ends, Started
    <3>2. \A k \in DOMAIN ups : ~Started(ups[k])
      BY <1>1, <3>1 DEF Started
    <3> QED BY <3>2 DEF UpdatesOK, UpdateLane, QuietReports
  <2> QED BY <2>2, <2>3 DEF Ends
<1>14. ASSUME NEW k \in DOMAIN ups
       PROVE  EndedOK(k)'
  <2>1. CASE k # i
    <3>1. ups'[k] = ups[k] /\ EndedOK(k)
      BY <1>2, <1>14, <2>1 DEF UpdatesOK, UpdateLane
    <3> QED BY <1>2, <1>5, <1>9, <3>1 DEF EndedOK
  <2>2. CASE k = i
    <3>1. ups'[i].status = "succeeded" => host'.ver >= ups'[i].target
      BY <1>2, <1>4, <1>5, <1>8 DEF UpOK
    <3>2. ups'[i].status = "canceled" => i # host.pending /\ i # host.gen /\ i # host.failed
      BY <1>4 DEF Ends, QueuedOK
    <3> QED BY <1>2, <1>5, <1>9, <2>2, <3>1, <3>2 DEF EndedOK
  <2> QED BY <2>1, <2>2
<1> QED BY <1>2, <1>3, <1>10, <1>11, <1>12, <1>13, <1>14 DEF UpdatesOK, UpdateTypes, UpdateLane

(* A new attempt starts from what the host runs. *)
LEMMA UpdateCreated ==
  ASSUME UpdatesOK, RowsOK, NEW a \in Agents, NEW v \in Nat, CreateHostSelfUpdateTx(a, v)
  PROVE  UpdatesOK'
<1> DEFINE n == QueuedHostSelfUpdate(a, v)
           m == Len(ups) + 1
<1>1. /\ ActiveUpdates = {} /\ own.agent = a /\ svc[a].phase = "stable" /\ v > svc[a].ver
      /\ ups' = Append(ups, n) /\ UNCHANGED <<own, svc, upGrants, host>>
  BY DEF CreateHostSelfUpdateTx, CanCreateHostSelfUpdate, ValidateHostSelfUpdateReady, Owns
<1>2. \A k \in DOMAIN ups : ups[k].status \in TerminalUpdate
  BY <1>1 DEF ActiveUpdates
<1>3. /\ DOMAIN n = UpFields /\ n.agent = a /\ n.target = v /\ n.prev = svc[a].ver
      /\ n.status = "queued"
  BY DEF QueuedHostSelfUpdate, UpFields
<1> HIDE DEF n
<1>4. /\ IsSeq(ups') /\ DOMAIN ups' = DOMAIN ups \cup {m} /\ m \notin DOMAIN ups
      /\ \A k \in DOMAIN ups : ups'[k] = ups[k]
      /\ ups'[m] = n
  BY <1>1, AnySeqPushed DEF UpdatesOK, UpdateTypes, UpRowsOK
<1>5. m # None
  BY HostAssumption DEF UpdatesOK, UpdateTypes, UpRowsOK, IsSeq
<1> HIDE DEF m
<1>6. RunsOK /\ RowsReportOK /\ UpRowsOK
  BY DEF UpdatesOK, UpdateTypes
<1>7. svc[a].ver = host.ver
  BY <1>1, <1>2 DEF UpdatesOK, UpdateLane, QuietReports, Started
<1>8. UpRowsOK'
  <2>1. \A k \in DOMAIN ups : UpOK(ups[k])'
    BY <1>1, <1>4, <1>6 DEF UpRowsOK, UpOK
  <2>2. svc[a].ver \in Nat /\ own'.agent = a
    BY <1>1, <1>6 DEF RowsReportOK
  <2>3. \A k \in DOMAIN ups' : k = m => UpOK(ups[k])'
    BY <1>1, <1>3, <1>4, <2>2 DEF UpOK
  <2> QED BY <1>4, <2>1, <2>3 DEF UpRowsOK
<1>9. UpGrantsOK'
  BY <1>1, <1>4 DEF UpdatesOK, UpdateTypes, UpGrantsOK, IsSeq
<1>10. host.pending = None
  BY <1>2, <1>6 DEF RunsOK, Named, Started
<1>11. RunsOK' /\ RowsReportOK'
  BY <1>1, <1>4, <1>6, <1>10 DEF RunsOK, RowsReportOK, Named
<1>12. /\ m # host.gen /\ m # host.failed /\ m # host.pending
       /\ \A b \in Agents : m # svc[b].gen /\ m # svc[b].failed
  BY <1>4, <1>5, <1>6, <1>10 DEF RunsOK, RowsReportOK, Named
<1>13. ASSUME NEW k \in DOMAIN ups'
       PROVE  QueuedOK(k)' /\ StartedOK(k)' /\ EndedOK(k)'
  <2>1. CASE k \in DOMAIN ups
    <3>1. ups'[k] = ups[k] /\ ups[k].status \in TerminalUpdate /\ EndedOK(k)
      BY <1>2, <1>4, <2>1 DEF UpdatesOK, UpdateLane
    <3>2. QueuedOK(k)' /\ StartedOK(k)'
      BY <3>1 DEF QueuedOK, StartedOK, Started, TerminalUpdate
    <3>3. EndedOK(k)'
      BY <1>1, <1>2, <1>3, <1>4, <1>7, <3>1 DEF EndedOK
    <3> QED BY <3>2, <3>3
  <2>2. CASE k = m
    <3>1. ups'[k].status = "queued" /\ ups'[k].prev = host.ver
      BY <1>3, <1>4, <1>7, <2>2
    <3>2. QueuedOK(k)'
      BY <3>1, <2>2, <1>1, <1>12 DEF QueuedOK
    <3> QED BY <3>1, <3>2 DEF StartedOK, Started, EndedOK
  <2> QED BY <1>4, <2>1, <2>2
<1>14. OneActive'
  BY <1>2, <1>4 DEF OneActive
<1>15. QuietReports'
  <2>1. \A k \in DOMAIN ups : ~Started(ups[k])
    BY <1>2 DEF Started
  <2> QED BY <2>1, <1>1 DEF UpdatesOK, UpdateLane, QuietReports
<1> QED BY <1>8, <1>9, <1>11, <1>13, <1>14, <1>15 DEF UpdatesOK, UpdateTypes, UpdateLane

\* How the host moves through an attempt.
HostMoves(i) ==
  LET u == ups[i] IN
  \/ /\ host.phase = "staged" /\ host'.phase = "activating"
     /\ host'.ver = host.ver /\ host'.pending = i /\ host'.gen = host.gen /\ host'.failed = host.failed
  \/ /\ host.phase = "activating" /\ host'.phase = "verifying"
     /\ host'.ver = u.target /\ host'.pending = i /\ host'.gen = host.gen /\ host'.failed = host.failed
  \/ /\ host.phase \in {"staged", "activating", "verifying"} /\ host'.phase = "rolling_back"
     /\ host'.ver = host.ver /\ host'.pending = i /\ host'.gen = host.gen /\ host'.failed = host.failed
  \/ /\ host.phase = "verifying" /\ host'.phase = "stable"
     /\ host'.ver = host.ver /\ host'.pending = None /\ host'.gen = i /\ host'.failed = host.failed
  \/ /\ host.phase = "rolling_back" /\ host'.phase = "stable"
     /\ host'.ver = u.prev /\ host'.pending = None /\ host'.gen = host.gen /\ host'.failed = i

LEMMA UpdateRuns ==
  ASSUME UpdatesOK, NEW i \in DOMAIN ups, host.pending = i, HostMoves(i),
         UNCHANGED <<own, svc, ups, upGrants>>
  PROVE  UpdatesOK'
<1>1. RunsOK /\ RowsReportOK /\ StartedOK(i) /\ UpOK(ups[i]) /\ i # None
  BY HostAssumption DEF UpdatesOK, UpdateTypes, UpdateLane, UpRowsOK, IsSeq
<1>2. Started(ups[i])
  BY <1>1 DEF RunsOK
<1>3. \A k \in DOMAIN ups : k # i => ups[k].status \in TerminalUpdate
  BY <1>2, OnlyActive DEF Started
<1>4. /\ host.gen # i /\ host.failed # i
      /\ host.phase = "verifying" => host.ver = ups[i].target
      /\ host.phase \in {"staged", "activating"} => host.ver = ups[i].prev
      /\ host.ver \in {ups[i].prev, ups[i].target}
  BY <1>1, <1>2 DEF StartedOK
<1>5. UpRowsOK' /\ UpGrantsOK' /\ RowsReportOK' /\ OneActive'
  BY DEF UpdatesOK, UpdateTypes, UpdateLane, UpRowsOK, UpOK, UpGrantsOK, RowsReportOK, OneActive,
         IsSeq, Named
<1>6. RunsOK'
  BY <1>1, <1>2 DEF RunsOK, HostMoves, HostPhases, Named, Started, UpOK
<1>7. QuietReports'
  BY <1>2 DEF QuietReports, Started
<1>8. ASSUME NEW k \in DOMAIN ups, k # i
      PROVE  QueuedOK(k)' /\ StartedOK(k)'
  BY <1>3, <1>8 DEF QueuedOK, StartedOK, Started, TerminalUpdate
<1>9. QueuedOK(i)'
  BY <1>2 DEF QueuedOK, Started
<1>10. StartedOK(i)'
  <2>1. \A b \in Agents : svc[b].gen # i /\ svc[b].failed # i
    BY <1>1, <1>2, <1>4 DEF StartedOK
  <2> QED BY <1>1, <1>4, <2>1 DEF StartedOK, HostMoves, Started
<1>11. ASSUME NEW k \in DOMAIN ups
       PROVE  EndedOK(k)'
  <2>1. EndedOK(k) /\ UpOK(ups[k])
    BY <1>11 DEF UpdatesOK, UpdateLane, UpdateTypes, UpRowsOK
  <2>2. CASE k = i
    BY <1>2, <2>2 DEF EndedOK, Started, TerminalUpdate
  <2>3. CASE k # i
    <3>1. ups[k].status = "succeeded" => ups[i].prev >= ups[k].target
      BY <1>2, <2>1 DEF EndedOK, Started
    <3>2. host'.ver \in {host.ver, ups[i].prev, ups[i].target}
      BY DEF HostMoves
    <3>3. ups[k].status = "succeeded" => host'.ver >= ups[k].target
      BY <1>1, <2>1, <3>1, <3>2 DEF UpOK, EndedOK
    <3>4. ups[k].status = "canceled" => k # host'.pending /\ k # host'.gen /\ k # host'.failed
      <4>1. k # None
        BY HostAssumption DEF UpdatesOK, UpdateTypes, UpRowsOK, IsSeq
      <4> QED BY <4>1, <2>1, <2>3 DEF EndedOK, HostMoves
    <3> QED BY <2>1, <3>3, <3>4 DEF EndedOK
  <2> QED BY <2>2, <2>3
<1> QED BY <1>5, <1>6, <1>7, <1>8, <1>9, <1>10, <1>11 DEF UpdatesOK, UpdateTypes, UpdateLane

-----------------------------------------------------------------------------
(* The operations on self-updates. *)

(* Outdating a grant keeps what it is about. *)
LEMMA GrantsOutdated ==
  ASSUME UpGrantsOK, DOMAIN ups' = DOMAIN ups, NEW i, upGrants' = Outdated(i)
  PROVE  UpGrantsOK'
<1>1. /\ DOMAIN upGrants' = DOMAIN upGrants
      /\ upGrants' = [k \in DOMAIN upGrants' |-> upGrants'[k]]
  BY DEF Outdated
<1>2. \A k \in DOMAIN upGrants : DOMAIN upGrants'[k] = UpGrantFields /\ upGrants'[k].up = upGrants[k].up
  <2>1. \A k \in DOMAIN upGrants : DOMAIN upGrants[k] = UpGrantFields
    BY DEF UpGrantsOK
  <2> QED BY <2>1 DEF Outdated, UpGrantFields
<1>3. IsSeq(upGrants')
  BY <1>1, SequenceOver DEF UpGrantsOK
<1> QED BY <1>1, <1>2, <1>3 DEF UpGrantsOK

LEMMA UpGrantsUntouched ==
  ASSUME UpGrantsOK, DOMAIN ups' = DOMAIN ups, UNCHANGED upGrants
  PROVE  UpGrantsOK'
BY DEF UpGrantsOK, IsSeq

LEMMA UpFieldsOf ==
  ASSUME UpdatesOK, NEW i \in DOMAIN ups
  PROVE  UpRowsOK /\ UpGrantsOK /\ DOMAIN ups[i] = UpFields
BY DEF UpdatesOK, UpdateTypes, UpRowsOK, UpOK

LEMMA UpdateCanceled ==
  ASSUME UpdatesOK, LaneOK, NEW i \in DOMAIN ups, CancelHostSelfUpdate(i)
  PROVE  UpdatesOK'
<1> DEFINE n == [ups[i] EXCEPT !.status = "canceled"]
<1>1. DOMAIN ups[i] = UpFields /\ UpRowsOK /\ UpGrantsOK
  BY UpFieldsOf
<1>2. ups' = [ups EXCEPT ![i] = n]
  BY <1>1 DEF CancelHostSelfUpdate
<1>3. /\ DOMAIN n = UpFields /\ n.agent = ups[i].agent /\ n.target = ups[i].target
      /\ n.prev = ups[i].prev /\ n.status = "canceled"
  BY <1>1 DEF UpFields
<1> HIDE DEF n
<1>4. UpStep(i) /\ ups'[i] = n
  BY <1>1, <1>2, <1>3, UpPut
<1>5. Ends(i)
  BY <1>3, <1>4 DEF Ends, CancelHostSelfUpdate, CanCancelHostSelfUpdate, TerminalUpdate
<1>6. UpGrantsOK'
  BY <1>1, <1>4, GrantsOutdated DEF UpStep, CancelHostSelfUpdate
<1>7. HostRunsSame
  BY HostUntouched DEF CancelHostSelfUpdate
<1> QED BY <1>4, <1>5, <1>6, <1>7, UpdateEnds DEF CancelHostSelfUpdate

\* What an observation makes of an attempt.
ObservedAs(i, n) ==
  LET u == ups[i]
      a == u.agent
  IN /\ DOMAIN n = UpFields /\ n.agent = u.agent /\ n.target = u.target /\ n.prev = u.prev
     /\ \/ n.status = u.status
        \/ n.status \in {"staging", "activating", "verifying", "rolling_back"}
        \/ /\ n.status = "succeeded" /\ u.status # "queued"
           /\ svc[a].gen = i /\ svc[a].ver = u.target
        \/ /\ n.status = "rolled_back"
           /\ svc[a].failed = i /\ svc[a].ver = u.prev

LEMMA AdvanceShape ==
  ASSUME NEW u, DOMAIN u = UpFields, u.target # u.prev, NEW i, NEW a
  PROVE  LET n == AdvanceFromObservation(i, u, a) IN
         /\ DOMAIN n = UpFields /\ n.agent = u.agent /\ n.target = u.target /\ n.prev = u.prev
         /\ \/ n.status = u.status
            \/ n.status \in {"staging", "activating", "verifying", "rolling_back"}
            \/ /\ n.status = "succeeded" /\ u.status # "queued"
               /\ svc[a].gen = i /\ svc[a].ver = u.target
            \/ /\ n.status = "rolled_back"
               /\ svc[a].failed = i /\ svc[a].ver = u.prev
<1> DEFINE n == AdvanceFromObservation(i, u, a)
           Shape == \/ n = u
                    \/ \E s \in {"staging", "activating", "verifying", "rolling_back"} :
                         n = SetHostSelfUpdateStatus(u, s)
                    \/ StrictSuccess(i, u, a) /\ n = [u EXCEPT !.status = "succeeded"]
                    \/ StrictRollback(i, u, a) /\ n = [u EXCEPT !.status = "rolled_back"]
<1>1. \A s : LET w == [u EXCEPT !.status = s] IN
              /\ DOMAIN w = UpFields /\ w.agent = u.agent /\ w.target = u.target
              /\ w.prev = u.prev /\ w.status = s
  BY DEF UpFields
<1>2. \A s : \/ SetHostSelfUpdateStatus(u, s) = u
             \/ SetHostSelfUpdateStatus(u, s) = [u EXCEPT !.status = s]
  BY DEF SetHostSelfUpdateStatus
<1>3. Shape
  <2>1. CASE svc[a].phase = "stable" /\ StrictSuccess(i, u, a)
    <3>1. ~StrictRollback(i, u, a)
      BY <2>1 DEF StrictSuccess, StrictRollback
    <3>2. n = [u EXCEPT !.status = "succeeded"]
      BY <2>1, <3>1 DEF AdvanceFromObservation
    <3> QED BY <2>1, <3>2
  <2>2. CASE svc[a].phase = "stable" /\ ~StrictSuccess(i, u, a) /\ StrictRollback(i, u, a)
    <3>1. n = [u EXCEPT !.status = "rolled_back"]
      BY <2>2 DEF AdvanceFromObservation
    <3> QED BY <2>2, <3>1
  <2>3. CASE svc[a].phase = "stable" /\ ~StrictSuccess(i, u, a) /\ ~StrictRollback(i, u, a)
    <3>1. n = u
      BY <2>3 DEF AdvanceFromObservation
    <3> QED BY <3>1
  <2>4. CASE svc[a].phase # "stable" /\ svc[a].pending # i
    <3>1. n \in {u, SetHostSelfUpdateStatus(u, "staging"), SetHostSelfUpdateStatus(u, svc[a].phase)}
      BY <2>4 DEF AdvanceFromObservation
    <3>2. svc[a].phase \notin {"activating", "verifying", "rolling_back"} =>
            n \in {u, SetHostSelfUpdateStatus(u, "staging")}
      BY <2>4 DEF AdvanceFromObservation
    <3> QED BY <3>1, <3>2
  <2>5. CASE svc[a].phase = "staged" /\ svc[a].pending = i
    <3>1. n = SetHostSelfUpdateStatus(u, "staging")
      BY <2>5 DEF AdvanceFromObservation
    <3> QED BY <3>1
  <2>6. CASE svc[a].phase \in {"activating", "verifying", "rolling_back"} /\ svc[a].pending = i
    <3>1. n = SetHostSelfUpdateStatus(u, svc[a].phase)
      BY <2>6 DEF AdvanceFromObservation
    <3> QED BY <2>6, <3>1
  <2>7. CASE svc[a].phase \notin {"staged", "stable", "activating", "verifying", "rolling_back"}
    <3>1. n = u
      BY <2>7 DEF AdvanceFromObservation
    <3> QED BY <3>1
  <2> HIDE DEF n, Shape
  <2> QED BY <2>1, <2>2, <2>3, <2>4, <2>5, <2>6, <2>7
<1> HIDE DEF n
<1>4. \/ n = u
      \/ \E s \in {"staging", "activating", "verifying", "rolling_back"} : n = [u EXCEPT !.status = s]
      \/ StrictSuccess(i, u, a) /\ n = [u EXCEPT !.status = "succeeded"]
      \/ StrictRollback(i, u, a) /\ n = [u EXCEPT !.status = "rolled_back"]
  BY <1>2, <1>3
<1>5. /\ DOMAIN n = UpFields /\ n.agent = u.agent /\ n.target = u.target /\ n.prev = u.prev
  BY <1>1, <1>4
<1>6. \/ n.status = u.status
      \/ n.status \in {"staging", "activating", "verifying", "rolling_back"}
      \/ n.status = "succeeded" /\ StrictSuccess(i, u, a)
      \/ n.status = "rolled_back" /\ StrictRollback(i, u, a)
  BY <1>1, <1>4
<1> QED BY <1>5, <1>6 DEF StrictSuccess, StrictRollback, n

LEMMA ObserveShape ==
  ASSUME UpdatesOK, NEW i \in DOMAIN ups, NEW st
  PROVE  ObservedAs(i, ReconcileObservation(i, ups[i], ups[i].agent, st))
<1> DEFINE u == ups[i]
           a == ups[i].agent
           w == [u EXCEPT !.obs = "known", !.phase = svc[a].phase]
           n == ReconcileObservation(i, u, a, st)
<1>1. DOMAIN u = UpFields /\ u.target # u.prev
  BY DEF UpdatesOK, UpdateTypes, UpRowsOK, UpOK
<1>2. \/ n = [u EXCEPT !.obs = "unknown", !.phase = "none"]
      \/ n = [u EXCEPT !.obs = "stalled"]
      \/ n = AdvanceFromObservation(i, w, a)
  BY DEF ReconcileObservation
<1> HIDE DEF n
<1>3. /\ DOMAIN w = UpFields /\ w.agent = u.agent /\ w.target = u.target /\ w.prev = u.prev
      /\ w.status = u.status
  BY <1>1 DEF UpFields
<1>4. CASE n = [u EXCEPT !.obs = "unknown", !.phase = "none"] \/ n = [u EXCEPT !.obs = "stalled"]
  <2>1. /\ DOMAIN n = UpFields /\ n.agent = u.agent /\ n.target = u.target /\ n.prev = u.prev
        /\ n.status = u.status
    BY <1>1, <1>4 DEF UpFields
  <2> QED BY <2>1 DEF ObservedAs, n
<1>5. CASE n = AdvanceFromObservation(i, w, a)
  <2> HIDE DEF w
  <2>1. /\ DOMAIN n = UpFields /\ n.agent = w.agent /\ n.target = w.target /\ n.prev = w.prev
        /\ \/ n.status = w.status
           \/ n.status \in {"staging", "activating", "verifying", "rolling_back"}
           \/ /\ n.status = "succeeded" /\ w.status # "queued"
              /\ svc[a].gen = i /\ svc[a].ver = w.target
           \/ /\ n.status = "rolled_back"
              /\ svc[a].failed = i /\ svc[a].ver = w.prev
    BY <1>1, <1>3, <1>5, AdvanceShape
  <2> QED BY <1>3, <2>1 DEF ObservedAs, n
<1> QED BY <1>2, <1>4, <1>5

LEMMA UpdateObserved ==
  ASSUME UpdatesOK, NEW i \in DOMAIN ups, ups[i].status \notin TerminalUpdate, NEW st,
         ObserveHostSelfUpdate(i, st), HostRunsSame, UNCHANGED <<own, svc>>
  PROVE  UpdatesOK'
<1> DEFINE n == ReconcileObservation(i, ups[i], ups[i].agent, st)
<1>1. UpRowsOK /\ UpGrantsOK
  BY UpFieldsOf
<1>2. ups' = [ups EXCEPT ![i] = n] /\ (upGrants' = upGrants \/ upGrants' = Outdated(i))
  BY DEF ObserveHostSelfUpdate
<1>3. ObservedAs(i, n)
  BY ObserveShape
<1> HIDE DEF n
<1>4. UpStep(i) /\ ups'[i] = n
  BY <1>1, <1>2, <1>3, UpPut DEF ObservedAs
<1>5. UpGrantsOK'
  BY <1>1, <1>2, <1>4, GrantsOutdated, UpGrantsUntouched DEF UpStep
<1>6. GoesOn(i) \/ Ends(i)
  BY <1>3, <1>4 DEF ObservedAs, GoesOn, Ends, TerminalUpdate
<1> QED BY <1>4, <1>5, <1>6, UpdateGoesOn, UpdateEnds

LEMMA UpdatePolled ==
  ASSUME UpdatesOK, LaneOK, NEW a \in Agents, NEW st, NEW d, ServiceHostAgentPolicy(a, st, d)
  PROVE  UpdatesOK'
<1>1. DOMAIN host = HostFields
  BY DEF LaneOK, JobsOK, JournalOK
<1>2. HostRunsSame /\ UNCHANGED <<own, svc>>
  BY <1>1 DEF ServiceHostAgentPolicy, HostRunsSame, HostFields
<1>3. CASE UNCHANGED <<ups, upGrants>>
  <2>1. UpGrantsOK'
    BY <1>3, UpGrantsUntouched DEF UpdatesOK, UpdateTypes
  <2>2. RowsFollow
    BY <1>2 DEF RowsFollow
  <2> QED BY <1>2, <1>3, <2>1, <2>2, UpdatesFrame
<1>4. CASE \E i \in ActiveUpdates : ObserveHostSelfUpdate(i, st)
  BY <1>2, <1>4, UpdateObserved DEF ActiveUpdates
<1> QED BY <1>3, <1>4 DEF ServiceHostAgentPolicy

LEMMA UpdateGrantIssued ==
  ASSUME UpdatesOK, LaneOK, NEW i \in DOMAIN ups, NEW op, NEW s, IssueHostSelfUpdateGrant(i, op, s)
  PROVE  UpdatesOK'
<1> DEFINE g == [up |-> i, op |-> op, session |-> s, state |-> "live"]
<1>1. /\ UNCHANGED <<own, svc, ups, host>> /\ IssueGrantTx(i, op, s)
  BY DEF IssueHostSelfUpdateGrant
<1>2. UpGrantsOK
  BY DEF UpdatesOK, UpdateTypes
<1>3. DOMAIN g = UpGrantFields /\ g.up = i
  BY DEF UpGrantFields
<1>4. \/ upGrants' = Append(upGrants, g)
      \/ upGrants' = [k \in DOMAIN upGrants |->
                         IF k \in SessionGrants(i, op, s) THEN g ELSE upGrants[k]]
  BY <1>1 DEF IssueGrantTx
<1> HIDE DEF g
<1>5. UpGrantsOK'
  <2>1. CASE upGrants' = Append(upGrants, g)
    <3>1. /\ IsSeq(upGrants') /\ DOMAIN upGrants' = DOMAIN upGrants \cup {Len(upGrants) + 1}
          /\ \A k \in DOMAIN upGrants : upGrants'[k] = upGrants[k]
          /\ upGrants'[Len(upGrants) + 1] = g
      BY <2>1, <1>2, AnySeqPushed DEF UpGrantsOK
    <3> QED BY <3>1, <1>1, <1>2, <1>3 DEF UpGrantsOK
  <2>2. CASE upGrants' = [k \in DOMAIN upGrants |->
                            IF k \in SessionGrants(i, op, s) THEN g ELSE upGrants[k]]
    <3>1. /\ DOMAIN upGrants' = DOMAIN upGrants
          /\ upGrants' = [k \in DOMAIN upGrants' |-> upGrants'[k]]
          /\ \A k \in DOMAIN upGrants : upGrants'[k] \in {g, upGrants[k]}
      BY <2>2
    <3>2. IsSeq(upGrants')
      BY <3>1, <1>2, SequenceOver DEF UpGrantsOK
    <3> QED BY <3>1, <3>2, <1>1, <1>2, <1>3 DEF UpGrantsOK
  <2> QED BY <1>4, <2>1, <2>2
<1>6. HostRunsSame /\ RowsFollow
  BY <1>1, HostUntouched DEF RowsFollow
<1> QED BY <1>1, <1>5, <1>6, UpdatesFrame

\* A grant changes its state alone.
LEMMA GrantStated ==
  ASSUME UpGrantsOK, NEW k \in DOMAIN upGrants, NEW x, NEW G, IsSeq(G), DOMAIN G = DOMAIN upGrants,
         \A m \in DOMAIN G : DOMAIN G[m] = UpGrantFields /\ G[m].up = upGrants[m].up,
         upGrants' = [G EXCEPT ![k].state = x], DOMAIN ups' = DOMAIN ups
  PROVE  UpGrantsOK'
<1> DEFINE n == [G[k] EXCEPT !.state = x]
<1>1. upGrants' = [G EXCEPT ![k] = n]
  OBVIOUS
<1>2. DOMAIN n = UpGrantFields /\ n.up = upGrants[k].up
  BY DEF UpGrantFields
<1> DEFINE q == [G EXCEPT ![k] = n]
<1> HIDE DEF n
<1>3. /\ IsSeq(q) /\ DOMAIN q = DOMAIN G /\ q[k] = n
      /\ \A m \in DOMAIN G : m # k => q[m] = G[m]
  BY AnySeqPut
<1>4. q = upGrants'
  BY <1>1
<1> HIDE DEF q
<1> QED BY <1>2, <1>3, <1>4 DEF UpGrantsOK

LEMMA UpdateGrantExpired ==
  ASSUME UpdatesOK, LaneOK, NEW k \in DOMAIN upGrants, HostSelfUpdateGrantExpires(k)
  PROVE  UpdatesOK'
<1>1. /\ UNCHANGED <<own, svc, ups, host>>
      /\ upGrants' = [upGrants EXCEPT ![k].state = "expired"]
  BY DEF HostSelfUpdateGrantExpires
<1>2. UpGrantsOK
  BY DEF UpdatesOK, UpdateTypes
<1>3. UpGrantsOK'
  BY <1>1, <1>2, GrantStated DEF UpGrantsOK
<1>4. HostRunsSame /\ RowsFollow
  BY <1>1, HostUntouched DEF RowsFollow
<1> QED BY <1>1, <1>3, <1>4, UpdatesFrame

(* What using a grant writes: the attempt it names moves on. *)
LEMMA GrantUsed ==
  ASSUME UpdatesOK, NEW k \in DOMAIN upGrants, NEW i \in DOMAIN ups, upGrants[k].up = i,
         CanConsumeHostSelfUpdateGrant(upGrants[k]), ConsumeGrantTx(k)
  PROVE  /\ UpStep(i) /\ GoesOn(i) /\ UpGrantsOK'
         /\ upGrants[k].op = "stage" => ups'[i].status # "queued"
<1> DEFINE n == ReserveHostSelfUpdateStage(ups[i])
           G == IF upGrants[k].op = "stage" THEN Outdated(i) ELSE upGrants
<1>1. UpRowsOK /\ UpGrantsOK /\ DOMAIN ups[i] = UpFields
  BY UpFieldsOf
<1>2. /\ ups[i].status \notin TerminalUpdate
      /\ upGrants[k].op = "stage" => ups[i].status = "queued"
  BY DEF CanConsumeHostSelfUpdateGrant, ValidateHostSelfUpdateGrantState
<1>3. /\ DOMAIN n = UpFields /\ n.agent = ups[i].agent /\ n.target = ups[i].target
      /\ n.prev = ups[i].prev /\ n.status = "staging"
  BY <1>1 DEF ReserveHostSelfUpdateStage, UpFields
<1>4. /\ upGrants[k].op = "stage" => ups' = [ups EXCEPT ![i] = n]
      /\ upGrants[k].op # "stage" => ups' = ups
      /\ upGrants' = [G EXCEPT ![k].state = "consumed"]
  BY DEF ConsumeGrantTx
<1> HIDE DEF n
<1>5. UpStep(i) /\ (ups'[i] = n \/ (upGrants[k].op # "stage" /\ ups' = ups))
  <2>1. CASE upGrants[k].op = "stage"
    BY <1>1, <1>3, <1>4, <2>1, UpPut
  <2>2. CASE upGrants[k].op # "stage"
    BY <1>1, <1>4, <2>2, UpUntouched
  <2> QED BY <2>1, <2>2
<1>6. GoesOn(i) /\ (upGrants[k].op = "stage" => ups'[i].status # "queued")
  BY <1>2, <1>3, <1>5 DEF GoesOn, TerminalUpdate
<1>7. /\ IsSeq(G) /\ DOMAIN G = DOMAIN upGrants
      /\ \A m \in DOMAIN G : DOMAIN G[m] = UpGrantFields /\ G[m].up = upGrants[m].up
  <2>1. /\ IsSeq(upGrants)
        /\ \A m \in DOMAIN upGrants : DOMAIN upGrants[m] = UpGrantFields
    BY <1>1 DEF UpGrantsOK
  <2>2. /\ DOMAIN Outdated(i) = DOMAIN upGrants
        /\ Outdated(i) = [m \in DOMAIN Outdated(i) |-> Outdated(i)[m]]
    BY DEF Outdated
  <2>3. \A m \in DOMAIN upGrants : /\ DOMAIN Outdated(i)[m] = UpGrantFields
                                   /\ Outdated(i)[m].up = upGrants[m].up
    BY <2>1 DEF Outdated, UpGrantFields
  <2>4. IsSeq(Outdated(i))
    BY <2>1, <2>2, SequenceOver
  <2> QED BY <2>1, <2>2, <2>3, <2>4
<1> HIDE DEF G
<1>8. UpGrantsOK'
  BY <1>1, <1>4, <1>5, <1>7, GrantStated DEF UpStep
<1> QED BY <1>5, <1>6, <1>8

LEMMA UpdateGrantConsumed ==
  ASSUME UpdatesOK, LaneOK, NEW k \in DOMAIN upGrants, NEW d, ConsumeHostSelfUpdateGrant(k, d)
  PROVE  UpdatesOK'
<1> DEFINE g == upGrants[k]
           i == upGrants[k].up
<1>1. i \in DOMAIN ups /\ UpGrantsOK /\ UpRowsOK
  BY DEF UpdatesOK, UpdateTypes, UpGrantsOK
<1>2. UNCHANGED <<own, svc>> /\ (ExecutorActs(g) \/ UNCHANGED host)
  BY DEF ConsumeHostSelfUpdateGrant
<1>3. /\ UpStep(i) /\ GoesOn(i) /\ UpGrantsOK'
      /\ g.op = "stage" => ups'[i].status # "queued"
  <2>1. CASE CanConsumeHostSelfUpdateGrant(g) /\ ConsumeGrantTx(k)
    BY <1>1, <2>1, GrantUsed
  <2>2. CASE ValidateConsumedHostSelfUpdateGrant(ups[i]) /\ UNCHANGED <<ups, upGrants>>
    <3>1. UpStep(i) /\ UpGrantsOK'
      BY <1>1, <2>2, UpUntouched, UpGrantsUntouched
    <3> QED BY <3>1, <2>2 DEF GoesOn, ValidateConsumedHostSelfUpdateGrant, TerminalUpdate
  <2> QED BY <2>1, <2>2 DEF ConsumeHostSelfUpdateGrant
<1>4. HostRunsSame \/ (HostBegun(i) /\ g.op = "stage")
  <2>1. DOMAIN host = HostFields
    BY DEF LaneOK, JobsOK, JournalOK
  <2>2. CASE UNCHANGED host
    BY <2>2, HostUntouched
  <2>3. CASE /\ g.op = "stage" /\ host.phase = "stable" /\ host.gen # i /\ host.failed # i
             /\ host' = [host EXCEPT !.phase = "staged", !.pending = i]
    BY <2>1, <2>3 DEF HostBegun, HostFields
  <2>4. CASE host' = [host EXCEPT !.recovery = FALSE]
    BY <2>1, <2>4, HostPut
  <2> QED BY <1>2, <2>2, <2>3, <2>4 DEF ExecutorActs
<1> HIDE DEF g, i
<1> QED BY <1>1, <1>2, <1>3, <1>4, UpdateGoesOn

LEMMA UpdateRetried ==
  ASSUME UpdatesOK, RowsOK, NEW i \in DOMAIN ups, RetryHostSelfUpdate(i)
  PROVE  UpdatesOK'
<1>1. own.agent \in Agents /\ ups[i].target \in Nat
  BY DEF UpdatesOK, UpdateTypes, UpRowsOK, UpOK
<1> QED BY <1>1, UpdateCreated DEF RetryHostSelfUpdate

LEMMA UpdateMoved ==
  ASSUME UpdatesOK, LaneOK, NEW p, HostUpdates(p)
  PROVE  UpdatesOK'
<1> DEFINE i == host.pending
<1>1. DOMAIN host = HostFields
  BY DEF LaneOK, JobsOK, JournalOK
<1>2. i \in DOMAIN ups
  BY DEF HostUpdates, UpdatesOK, UpdateTypes, RunsOK, Named
<1>3. UNCHANGED <<own, svc, ups, upGrants>>
  BY DEF HostUpdates
<1>4. HostMoves(i)
  BY <1>1 DEF HostUpdates, HostMoves, HostFields
<1> QED BY <1>2, <1>3, <1>4, UpdateRuns

LEMMA UpdateSelf ==
  ASSUME UpdatesOK, LaneOK, RowsOK, SelfUpdateNext
  PROVE  UpdatesOK'
<1>1. ASSUME NEW a \in Agents, NEW v \in Versions, CreateHostSelfUpdate(a, v)
      PROVE  UpdatesOK'
  BY <1>1, UpdateCreated, SelfUpdateAssumption DEF CreateHostSelfUpdate
<1>2. ASSUME NEW i \in DOMAIN ups, RetryHostSelfUpdate(i) \/ CancelHostSelfUpdate(i)
      PROVE  UpdatesOK'
  BY <1>2, UpdateRetried, UpdateCanceled
<1>3. ASSUME NEW i \in DOMAIN ups, NEW op, NEW s, IssueHostSelfUpdateGrant(i, op, s)
      PROVE  UpdatesOK'
  BY <1>3, UpdateGrantIssued
<1>4. ASSUME NEW k \in DOMAIN upGrants, HostSelfUpdateGrantExpires(k)
      PROVE  UpdatesOK'
  BY <1>4, UpdateGrantExpired
<1>5. ASSUME NEW k \in DOMAIN upGrants, NEW d, ConsumeHostSelfUpdateGrant(k, d)
      PROVE  UpdatesOK'
  BY <1>5, UpdateGrantConsumed
<1>6. ASSUME NEW p, HostUpdates(p)
      PROVE  UpdatesOK'
  BY <1>6, UpdateMoved
<1>7. ASSUME HostLosesPower
      PROVE  UpdatesOK'
  <2>1. /\ UNCHANGED <<own, svc, ups, upGrants>> /\ host' = [host EXCEPT !.recovery = TRUE]
    BY <1>7 DEF HostLosesPower
  <2>2. HostRunsSame /\ RowsFollow
    BY <2>1, HostPut DEF LaneOK, JobsOK, JournalOK, RowsFollow
  <2>3. UpGrantsOK'
    BY <2>1, UpGrantsUntouched DEF UpdatesOK, UpdateTypes
  <2> QED BY <2>1, <2>2, <2>3, UpdatesFrame
<1> QED BY <1>1, <1>2, <1>3, <1>4, <1>5, <1>6, <1>7 DEF SelfUpdateNext

-----------------------------------------------------------------------------
(* The other lanes: what the rows say of the host follows the host. *)

\* One row changes, and says of the host what it said, nothing, or the truth.
RowFollows(a, w) ==
  \/ w.ver = svc[a].ver /\ w.phase = svc[a].phase /\ w.gen = svc[a].gen /\ w.failed = svc[a].failed
  \/ w.ver = 0 /\ w.phase = "none" /\ w.gen = None /\ w.failed = None
  \/ w.ver = host.ver /\ w.phase = host.phase /\ w.gen = host.gen /\ w.failed = host.failed

LEMMA RowFollowed ==
  ASSUME RowsOK, NEW a \in Agents, NEW w, RowFollows(a, w), svc' = [svc EXCEPT ![a] = w]
  PROVE  RowsFollow
<1>1. svc'[a] = w /\ \A b \in Agents : b # a => svc'[b] = svc[b]
  BY DEF RowsOK
<1> QED BY <1>1 DEF RowsFollow, RowFollows

LEMMA RowCleared ==
  ASSUME NEW w, DOMAIN w = RowFields
  PROVE  LET u == Unreported(w) IN
         /\ DOMAIN u = RowFields /\ u.ver = 0 /\ u.phase = "none" /\ u.gen = None /\ u.failed = None
BY DEF Unreported, RowFields

LEMMA RotationRows ==
  ASSUME IInv, RotationNext
  PROVE  RowsFollow
<1>1. RowsOK /\ \A i \in DOMAIN rots : rots[i].agent \in Agents
  BY DEF IInv, RotationsOK, RotationOK
<1>2. UNCHANGED svc => RowsFollow
  BY DEF RowsFollow
<1>3. ASSUME NEW a \in Agents, StageRuntimeTokenRotation(a)
      PROVE  RowsFollow
  BY <1>2, <1>3 DEF StageRuntimeTokenRotation, StageOnce
<1>4. ASSUME NEW i \in DOMAIN rots, NEW c, NEW d, ClaimRuntimeTokenRotationCredential(i, c, d)
      PROVE  RowsFollow
  BY <1>2, <1>4 DEF ClaimRuntimeTokenRotationCredential
<1>5. ASSUME NEW i \in DOMAIN rots,
             \/ ProveRuntimeTokenRotationHeartbeat(i) \/ CancelRuntimeTokenRotation(i)
             \/ AcknowledgeRuntimeTokenRotationCancel(i)
      PROVE  RowsFollow
  BY <1>2, <1>5 DEF ProveRuntimeTokenRotationHeartbeat, CancelRuntimeTokenRotation,
       AcknowledgeRuntimeTokenRotationCancel
<1>6. ASSUME NEW i \in DOMAIN rots, AcknowledgeLocalStage(i)
      PROVE  RowsFollow
  <2> DEFINE a == rots[i].agent
             w == [svc[a] EXCEPT !.hb = IF @ = "after" THEN "before" ELSE @]
  <2>1. a \in Agents /\ DOMAIN svc[a] = RowFields /\ DOMAIN svc = Agents
    BY <1>1, <1>6 DEF RowsOK
  <2>2. svc' = [svc EXCEPT ![a] = w]
    BY <1>6, <2>1 DEF AcknowledgeLocalStage, MarkLocalStaged
  <2>3. RowFollows(a, w)
    BY <2>1 DEF RowFollows, RowFields
  <2> HIDE DEF a, w
  <2> QED BY <1>1, <2>1, <2>2, <2>3, RowFollowed
<1>7. ASSUME NEW i \in DOMAIN rots, ActivateRuntimeTokenRotation(i)
      PROVE  RowsFollow
  <2> DEFINE a == rots[i].agent
             w == [svc[a] EXCEPT !.token = rots[i].staged, !.hb = "before"]
  <2>1. a \in Agents /\ DOMAIN svc[a] = RowFields /\ DOMAIN svc = Agents
    BY <1>1, <1>7 DEF RowsOK
  <2>2. svc' = [svc EXCEPT ![a] = w]
    BY <1>7, <2>1 DEF ActivateRuntimeTokenRotation, ActivateRotation
  <2>3. RowFollows(a, w)
    BY <2>1 DEF RowFollows, RowFields
  <2> HIDE DEF a, w
  <2> QED BY <1>1, <2>1, <2>2, <2>3, RowFollowed
<1>8. ASSUME NEW i \in DOMAIN rots, NEW s, EmergencyRevokeRuntimeTokenRotation(i, s)
      PROVE  RowsFollow
  <2> DEFINE a == rots[i].agent
             u == Unreported(svc[a])
             w == [u EXCEPT !.ct = "none", !.cfg = None]
  <2>1. a \in Agents /\ DOMAIN svc[a] = RowFields /\ DOMAIN svc = Agents
    BY <1>1, <1>8 DEF RowsOK
  <2>2. svc' = [svc EXCEPT ![a] = w]
    BY <1>8, <2>1 DEF EmergencyRevokeRuntimeTokenRotation, EmergencyRevoke
  <2>3. /\ DOMAIN u = RowFields /\ u.ver = 0 /\ u.phase = "none" /\ u.gen = None /\ u.failed = None
    BY <2>1, RowCleared
  <2> HIDE DEF u
  <2>4. RowFollows(a, w)
    BY <2>3 DEF RowFollows, RowFields
  <2> HIDE DEF a, w
  <2> QED BY <1>1, <2>1, <2>2, <2>4, RowFollowed
<1> QED BY <1>3, <1>4, <1>5, <1>6, <1>7, <1>8 DEF RotationNext

LEMMA OwnershipRows ==
  ASSUME IInv, OwnershipNext
  PROVE  RowsFollow
<1>1. RowsOK
  BY DEF IInv
<1>2. ASSUME NEW a \in Agents
      PROVE  DOMAIN svc[a] = RowFields /\ DOMAIN svc = Agents
  BY <1>1, <1>2 DEF RowsOK
<1>3. ASSUME NEW a \in Agents, UpdateUpdaterPolicy(a)
      PROVE  RowsFollow
  BY <1>3 DEF UpdateUpdaterPolicy, RowsFollow
<1>4. ASSUME NEW a \in Agents, ActivateUpdaterOwnership(a) \/ DeactivateUpdaterOwnership(a)
      PROVE  RowsFollow
  <2>1. PICK x : svc' = [svc EXCEPT ![a] = [svc[a] EXCEPT !.epoch = x]]
    BY <1>4, <1>2 DEF ActivateUpdaterOwnership, ActivatePullUpdaterOwnership,
       DeactivateUpdaterOwnership, DeactivatePullUpdaterOwnership
  <2> DEFINE w == [svc[a] EXCEPT !.epoch = x]
  <2>2. RowFollows(a, w)
    BY <1>2 DEF RowFollows, RowFields
  <2> HIDE DEF w
  <2>3. svc' = [svc EXCEPT ![a] = w]
    BY <2>1 DEF w
  <2> QED BY <1>1, <2>2, <2>3, RowFollowed
<1>5. ASSUME NEW a \in Agents,
             \/ RegenerateNodeConfigureToken(a) \/ ConfigureTokenExpires(a)
             \/ HostAgentRuntimeIdentityStage(a)
      PROVE  RowsFollow
  <2>1. DOMAIN svc' = DOMAIN svc /\ \A b \in DOMAIN svc : b # a => svc'[b] = svc[b]
    BY <1>5 DEF RegenerateNodeConfigureToken, SetServiceConfigureToken, ConfigureTokenExpires,
       HostAgentRuntimeIdentityStage, StageServiceNodeConfiguration
  <2>2. /\ svc'[a].ver = svc[a].ver /\ svc'[a].phase = svc[a].phase
        /\ svc'[a].gen = svc[a].gen /\ svc'[a].failed = svc[a].failed
    <3>1. CASE RegenerateNodeConfigureToken(a)
      BY <3>1, <1>2 DEF RegenerateNodeConfigureToken, SetServiceConfigureToken, RowFields
    <3>2. CASE ConfigureTokenExpires(a)
      BY <3>2, <1>2 DEF ConfigureTokenExpires, RowFields
    <3>3. CASE HostAgentRuntimeIdentityStage(a)
      BY <3>3, <1>2 DEF HostAgentRuntimeIdentityStage, StageServiceNodeConfiguration, RowFields
    <3> QED BY <1>5, <3>1, <3>2, <3>3
  <2> QED BY <1>2, <2>1, <2>2 DEF RowsFollow
<1>6. ASSUME NEW a \in Agents, HostAgentRuntimeIdentityActivate(a)
      PROVE  RowsFollow
  <2> DEFINE u == Unreported(svc[a])
             w == [u EXCEPT !.token = Len(tokens) + 1, !.cfg = None, !.ct = "none"]
  <2>1. svc' = [svc EXCEPT ![a] = w]
    BY <1>2, <1>6 DEF HostAgentRuntimeIdentityActivate, ActivateServiceNodeConfiguration
  <2>2. /\ DOMAIN u = RowFields /\ u.ver = 0 /\ u.phase = "none" /\ u.gen = None /\ u.failed = None
    BY <1>2, <1>6, RowCleared
  <2> HIDE DEF u
  <2>3. RowFollows(a, w)
    BY <2>2 DEF RowFollows, RowFields
  <2> HIDE DEF w
  <2> QED BY <1>1, <2>1, <2>3, RowFollowed
<1> QED BY <1>3, <1>4, <1>5, <1>6 DEF OwnershipNext

LEMMA HeartbeatRows ==
  ASSUME IInv, NEW a \in Agents, PersistServiceHeartbeat(a) \/ AgentGoesSilent(a)
  PROVE  RowsFollow
<1>1. RowsOK /\ DOMAIN svc[a] = RowFields /\ DOMAIN svc = Agents
  BY DEF IInv, RowsOK
<1>2. CASE PersistServiceHeartbeat(a)
  <2> DEFINE w == [svc[a] EXCEPT
                     !.online = TRUE, !.hb = "after", !.phase = host.phase,
                     !.recovery = host.recovery, !.receipt = LocalStageReceipt,
                     !.applied = host.applied, !.repoch = host.epoch, !.ver = host.ver,
                     !.pending = host.pending, !.failed = host.failed, !.gen = host.gen]
  <2>1. svc' = [svc EXCEPT ![a] = w]
    BY <1>1, <1>2 DEF PersistServiceHeartbeat, Heartbeat
  <2>2. RowFollows(a, w)
    BY <1>1 DEF RowFollows, RowFields
  <2> HIDE DEF w
  <2> QED BY <1>1, <2>1, <2>2, RowFollowed
<1>3. CASE AgentGoesSilent(a)
  <2> DEFINE w == [svc[a] EXCEPT !.online = FALSE]
  <2>1. svc' = [svc EXCEPT ![a] = w]
    BY <1>1, <1>3 DEF AgentGoesSilent
  <2>2. RowFollows(a, w)
    BY <1>1 DEF RowFollows, RowFields
  <2> HIDE DEF w
  <2> QED BY <1>1, <2>1, <2>2, RowFollowed
<1> QED BY <1>2, <1>3

LEMMA JobsKeepUpdates ==
  ASSUME JobsNext
  PROVE  UNCHANGED <<ups, upGrants>>
<1> DEFINE Kept == UNCHANGED <<ups, upGrants>>
<1>1. ASSUME NEW a \in Agents, NEW t \in Targets, CreateSystemUpdate(a, t)
      PROVE  Kept
  BY <1>1 DEF CreateSystemUpdate
<1>2. ASSUME NEW a \in Agents, NEW t \in Targets, NEW p \in Ports, NEW adv,
             CreatePortReconfiguration(a, t, p, adv)
      PROVE  Kept
  BY <1>2 DEF CreatePortReconfiguration
<1>3. ASSUME NEW i \in DOMAIN jobs, CancelSystemUpdate(i) \/ LeaseExpires(i)
      PROVE  Kept
  BY <1>3 DEF CancelSystemUpdate, LeaseExpires
<1>4. ASSUME NEW i \in DOMAIN jobs, NEW a \in Agents, NEW idle, NEW d, ServiceClaim(a, i, idle, d)
      PROVE  Kept
  BY <1>4 DEF ServiceClaim
<1>5. ASSUME NEW a \in Agents, ServiceClaimClears(a)
      PROVE  Kept
  BY <1>5 DEF ServiceClaimClears
<1>6. ASSUME NEW r \in host.sent, ServiceReport(r)
      PROVE  Kept
  BY <1>6 DEF ServiceReport
<1>7. ASSUME NEW op, MutationGrantIssue(op)
      PROVE  Kept
  BY <1>7 DEF MutationGrantIssue
<1>8. ASSUME NEW k \in DOMAIN grants, NEW o, MutationGrantConsume(k, o)
      PROVE  Kept
  BY <1>8 DEF MutationGrantConsume
<1>9. ASSUME NEW s, AgentReportsProgress(s)
      PROVE  Kept
  BY <1>9 DEF AgentReportsProgress
<1>10. ASSUME NEW s, NEW r, AgentReportsResult(s, r)
       PROVE  Kept
  BY <1>10 DEF AgentReportsResult
<1> HIDE DEF Kept
<1>11. Kept
  BY <1>1, <1>2, <1>3, <1>4, <1>5, <1>6, <1>7, <1>8, <1>9, <1>10 DEF JobsNext
<1> QED BY <1>11 DEF Kept

LEMMA UpdatesInit ==
  ASSUME Init
  PROVE  UpdatesOK
<1>1. ups = <<>> /\ upGrants = <<>>
  BY DEF Init
<1>2. DOMAIN ups = {} /\ DOMAIN upGrants = {} /\ IsSeq(ups) /\ IsSeq(upGrants)
  BY <1>1 DEF IsSeq
<1>3. \A a \in Agents : svc[a].phase = "none" /\ svc[a].ver = 0 /\ svc[a].gen = None
                         /\ svc[a].failed = None
  BY DEF Init
<1>4. /\ host.phase = "stable" /\ host.pending = None /\ host.gen = None /\ host.failed = None
      /\ host.ver \in Versions
  BY DEF Init
<1>5. UpdateTypes
  <2>1. UpRowsOK /\ UpGrantsOK
    BY <1>2 DEF UpRowsOK, UpGrantsOK
  <2>2. host.ver \in Nat
    BY <1>4, SelfUpdateAssumption
  <2>3. RunsOK
    BY <1>4, <2>2 DEF RunsOK, Named, HostPhases
  <2>4. RowsReportOK
    BY <1>3 DEF RowsReportOK, Named
  <2> QED BY <2>1, <2>3, <2>4 DEF UpdateTypes
<1>6. UpdateLane
  BY <1>2, <1>3 DEF UpdateLane, OneActive, QuietReports
<1> QED BY <1>5, <1>6 DEF UpdatesOK

LEMMA UpdatesNext ==
  ASSUME IInv, HostWorkInv, UpdatesOK, [Next]_vars
  PROVE  UpdatesOK'
<1>1. LaneOK /\ PortsOK /\ RowsOK /\ UpGrantsOK
  BY DEF HostWorkInv, IInv, UpdatesOK, UpdateTypes
<1>2. ASSUME UNCHANGED <<ups, upGrants>>, HostRunsSame, RowsFollow,
             own.agent # None => own'.agent = own.agent
      PROVE  UpdatesOK'
  <2>1. UpGrantsOK'
    BY <1>1, <1>2, UpGrantsUntouched
  <2> QED BY <1>2, <2>1, UpdatesFrame
<1>3. CASE JobsNext
  <2>1. HostRunsSame /\ SameOwner
    BY <1>1, <1>3, JobLane DEF LaneKept
  <2>2. UNCHANGED <<svc, ups, upGrants>>
    BY <1>3, JobsKeep, JobsKeepUpdates
  <2>3. RowsFollow
    BY <2>2 DEF RowsFollow
  <2> QED BY <1>2, <2>1, <2>2, <2>3 DEF SameOwner
<1>4. CASE RotationNext
  BY <1>1, <1>2, <1>4, RotationsWork, RotationRows
<1>5. CASE SelfUpdateNext
  BY <1>1, <1>5, UpdateSelf
<1>6. CASE OwnershipNext
  BY <1>1, <1>2, <1>6, OwnershipWork, OwnershipRows
<1>7. CASE AgentNext
  <2>1. ASSUME NEW a \in Agents, PersistServiceHeartbeat(a) \/ AgentGoesSilent(a)
        PROVE  UpdatesOK'
    <3>1. UNCHANGED <<own, ups, upGrants, host>>
      BY <2>1 DEF PersistServiceHeartbeat, AgentGoesSilent
    <3>2. HostRunsSame /\ RowsFollow
      BY <1>1, <2>1, <3>1, HostUntouched, HeartbeatRows
    <3> QED BY <1>2, <3>1, <3>2
  <2>2. ASSUME NEW a \in Agents, NEW s, NEW d, ServiceHostAgentPolicy(a, s, d)
        PROVE  UpdatesOK'
    BY <1>1, <2>2, UpdatePolled
  <2> QED BY <1>7, <2>1, <2>2 DEF AgentNext
<1>8. CASE UNCHANGED vars
  <2>1. HostRunsSame /\ RowsFollow
    BY <1>1, <1>8, HostUntouched DEF vars, RowsFollow
  <2> QED BY <1>2, <1>8, <2>1 DEF vars
<1> QED BY <1>3, <1>4, <1>5, <1>6, <1>7, <1>8 DEF Next

(* The Panel records a self-update as succeeded only from what a heartbeat *)
(* says, which may be late, repeated or from before a power loss.  Still   *)
(* the host runs the recorded release or a newer one, and an attempt that  *)
(* was canceled was never begun there.                                     *)
THEOREM SelfUpdatesTrue == Spec => []SucceededRuns
<1>1. Init => UpdatesOK
  BY UpdatesInit
<1>2. IInv /\ HostWorkInv /\ UpdatesOK /\ [Next]_vars => UpdatesOK'
  BY UpdatesNext
<1>3. UpdatesOK => SucceededRuns
  BY DEF UpdatesOK, UpdateLane, EndedOK, SucceededRuns
<1> QED BY <1>1, <1>2, <1>3, HostInvariant, WorkInvariant, PTL DEF Spec
=============================================================================
