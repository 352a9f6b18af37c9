------------------------- MODULE Assignment_proofs -------------------------
(***************************************************************************)
(* Proofs about the assignments, for any streams, services, types, orders   *)
(* of ids and concurrent requests: the atomic operations of the store keep  *)
(* its invariants (Inv), so do settings forms among them (EditInv), and the *)
(* MariaDB transactions (LocksInv) implement those operations and never     *)
(* wait for each other in a circle.                                         *)
(***************************************************************************)
EXTENDS AssignmentEdit, AssignmentLocks, TLAPS, WellFoundedInduction

\* What every operation preserves.  OnePrimary alone is not inductive: a
\* creation puts services on a new stream, which has none yet only because
\* no assignment points at a stream that does not exist.
Inv == TypeOK /\ OnePrimary /\ NoDangling

LEMMA OnInjective ==
  ASSUME NEW s, NEW t, NEW p, NEW q, On(s, p) = On(t, q)
  PROVE  s = t /\ p = q
<1>1. On(s, p).stream = s /\ On(s, p).role = p BY DEF On
<1>2. On(t, q).stream = t /\ On(t, q).role = q BY DEF On
<1> QED BY <1>1, <1>2

\* Placing a service keeps assignments well typed and primaries unique.
LEMMA PlacedKeeps ==
  ASSUME TypeOK, OnePrimary, NEW v \in Service, NEW s \in Stream, NEW role \in Role,
         owner' = Placed(owner, v, s, role)
  PROVE  owner' \in [Service -> Assignment] /\ OnePrimary'
<1>1. \A w \in Service : owner'[w] \in {On(s, role), Unassigned, owner[w]}
  BY DEF Placed
<1>2. owner' \in [Service -> Assignment]
  BY <1>1 DEF Placed, Assignment, TypeOK
<1>3. ASSUME NEW x \in Service, NEW y \in Service, owner'[x] = owner'[y],
             owner'[x].role = "primary", TypeOf[x] = TypeOf[y]
      PROVE  x = y
  <2>1. CASE x # v /\ y # v
    <3>1. owner'[x] # Unassigned /\ owner'[y] # Unassigned
      BY <1>3 DEF Unassigned, On
    <3>2. owner'[x] = owner[x] /\ owner'[y] = owner[y]
      BY <2>1, <3>1 DEF Placed
    <3> QED BY <3>2, <1>3 DEF OnePrimary
  <2>2. ASSUME NEW w \in Service, w # v, owner'[w] = owner'[v],
               owner'[v].role = "primary", TypeOf[w] = TypeOf[v]
        PROVE  FALSE
    <3>1. owner'[v] = On(s, role) BY DEF Placed
    <3>2. role = "primary" BY <3>1, <2>2 DEF On
    <3>3. owner'[w] # Unassigned
      BY <3>1, <3>2, <2>2 DEF Unassigned, On
    <3>4. owner'[w] = owner[w] /\ owner[w] # On(s, "primary")
      BY <3>2, <3>3, <2>2 DEF Placed
    <3> QED BY <3>1, <3>2, <3>4, <2>2
  <2> QED BY <2>1, <2>2, <1>3
<1> QED BY <1>2, <1>3 DEF OnePrimary

\* So does setting services free.
LEMMA ClearedKeeps ==
  ASSUME TypeOK, OnePrimary, NEW ws, owner' = Cleared(owner, ws)
  PROVE  owner' \in [Service -> Assignment] /\ OnePrimary'
<1>1. owner' \in [Service -> Assignment]
  BY DEF Cleared, TypeOK, Assignment
<1>2. ASSUME NEW x \in Service, NEW y \in Service, owner'[x] = owner'[y],
             owner'[x].role = "primary", TypeOf[x] = TypeOf[y]
      PROVE  x = y
  <2>1. owner'[x] # Unassigned /\ owner'[y] # Unassigned
    BY <1>2 DEF Unassigned, On
  <2>2. owner'[x] = owner[x] /\ owner'[y] = owner[y]
    BY <2>1 DEF Cleared
  <2> QED BY <2>2, <1>2 DEF OnePrimary
<1> QED BY <1>1, <1>2 DEF OnePrimary

LEMMA InitInv == Init => Inv
BY DEF Init, Inv, TypeOK, OnePrimary, NoDangling, Unassigned, On, Assignment, Phase

LEMMA AssignInv ==
  ASSUME Inv, NEW v \in Service, NEW s \in Stream, NEW role \in Role, NEW e,
         Assign(v, s, role, e)
  PROVE  Inv'
<1>1. CASE owner[v] = On(s, role)
  BY <1>1 DEF Assign, Inv, TypeOK, OnePrimary, NoDangling, Exists
<1>2. CASE owner[v] # On(s, role)
  <2>1. owner' = Placed(owner, v, s, role) BY <1>2 DEF Assign
  <2>2. owner' \in [Service -> Assignment] /\ OnePrimary'
    BY <2>1, PlacedKeeps DEF Inv
  <2>3. TypeOK' BY <2>2 DEF TypeOK, Inv, Assign
  <2>4. NoDangling'
    <3> SUFFICES ASSUME NEW w \in Service, owner'[w] # Unassigned
                 PROVE  w \in present /\ Exists(owner'[w].stream)
      BY DEF NoDangling, Assign, Exists
    <3>1. CASE w = v
      BY <3>1, <2>1 DEF Placed, Assign, AssignAllowed, On
    <3>2. CASE w # v
      BY <3>2, <2>1 DEF Placed, Inv, NoDangling
    <3> QED BY <3>1, <3>2
  <2> QED BY <2>2, <2>3, <2>4 DEF Inv
<1> QED BY <1>1, <1>2

\* An operation that sets the services ws free and moves streams and
\* registrations only where no remaining assignment points.
LEMMA ClearInv ==
  ASSUME Inv, NEW ws, owner' = Cleared(owner, ws),
         phase' \in [Stream -> Phase], present' \subseteq Service,
         \A w \in Service \ ws : owner[w] # Unassigned =>
           w \in present' /\ phase'[owner[w].stream] \in {"idle", "protected"}
  PROVE  Inv'
<1>1. owner' \in [Service -> Assignment] /\ OnePrimary'
  BY ClearedKeeps DEF Inv
<1>2. NoDangling'
  <2> SUFFICES ASSUME NEW w \in Service, owner'[w] # Unassigned
               PROVE  w \in present' /\ phase'[owner'[w].stream] \in {"idle", "protected"}
    BY DEF NoDangling, Exists
  <2>1. w \notin ws /\ owner'[w] = owner[w]
    BY DEF Cleared
  <2> QED BY <2>1
<1> QED BY <1>1, <1>2 DEF Inv, TypeOK

LEMMA UnassignInv ==
  ASSUME Inv, NEW v \in Service, NEW e, Unassign(v, e)
  PROVE  Inv'
BY ClearInv DEF Unassign, Inv, TypeOK, NoDangling, Exists

LEMMA DeleteServiceInv ==
  ASSUME Inv, NEW v \in Service, DeleteService(v)
  PROVE  Inv'
BY ClearInv DEF DeleteService, Inv, TypeOK, NoDangling, Exists

LEMMA DeleteStreamInv ==
  ASSUME Inv, NEW s \in Stream, DeleteStream(s)
  PROVE  Inv'
<1> DEFINE ws == {v \in Service : owner[v].stream = s}
<1>1. owner' = Cleared(owner, ws) BY DEF DeleteStream
<1>2. phase' \in [Stream -> Phase] /\ present' \subseteq Service
  BY DEF DeleteStream, Inv, TypeOK, Phase
<1>3. ASSUME NEW w \in Service \ ws, owner[w] # Unassigned
      PROVE  w \in present' /\ phase'[owner[w].stream] \in {"idle", "protected"}
  <2>1. w \in present /\ phase[owner[w].stream] \in {"idle", "protected"}
    BY <1>3 DEF Inv, NoDangling, Exists
  <2>2. owner[w].stream \in Stream
    BY <1>3 DEF Inv, TypeOK, Assignment, Unassigned, On
  <2>3. owner[w].stream # s BY <1>3
  <2> QED BY <2>1, <2>2, <2>3 DEF DeleteStream, Inv, TypeOK
<1> HIDE DEF ws
<1> QED BY <1>1, <1>2, <1>3, ClearInv

\* Operations that leave the assignments alone.
LEMMA SameOwnersInv ==
  ASSUME Inv, owner' = owner, phase' \in [Stream -> Phase], present' \subseteq Service,
         \A v \in Service : owner[v] # Unassigned =>
           v \in present' /\ phase'[owner[v].stream] \in {"idle", "protected"}
  PROVE  Inv'
BY DEF Inv, TypeOK, OnePrimary, NoDangling, Exists

LEMMA AssignedStream ==
  ASSUME Inv, NEW v \in Service, owner[v] # Unassigned
  PROVE  /\ owner[v].stream \in Stream /\ v \in present
         /\ phase[owner[v].stream] \in {"idle", "protected"}
BY DEF Inv, TypeOK, NoDangling, Exists, Assignment, On

LEMMA RegisterInv ==
  ASSUME Inv, NEW v \in Service, Register(v)
  PROVE  Inv'
BY SameOwnersInv, AssignedStream DEF Register, Inv, TypeOK

LEMMA ProtectionInv ==
  ASSUME Inv, NEW s \in Stream, owner' = owner, present' = present,
         NEW p \in {"idle", "protected"}, phase' = [phase EXCEPT ![s] = p]
  PROVE  Inv'
<1>1. phase' \in [Stream -> Phase]
  BY DEF Inv, TypeOK, Phase
<1>2. \A v \in Service : owner[v] # Unassigned =>
        v \in present' /\ phase'[owner[v].stream] \in {"idle", "protected"}
  BY AssignedStream DEF Inv, TypeOK
<1> QED BY <1>1, <1>2, SameOwnersInv DEF Inv, TypeOK

\* Free services of distinct types are put on a stream that serves none of
\* these types.
LEMMA PutInv ==
  ASSUME Inv, NEW s \in Stream, NEW vs \in SUBSET present,
         NEW p \in {"idle", "protected"},
         \A v, w \in vs : TypeOf[v] = TypeOf[w] => v = w,
         \A v \in vs, w \in Service \ vs :
           owner[w] = On(s, "primary") => TypeOf[w] # TypeOf[v],
         owner' = [v \in Service |-> IF v \in vs THEN On(s, "primary") ELSE owner[v]],
         phase' = [phase EXCEPT ![s] = p],
         present' = present
  PROVE  Inv'
<1>1. owner' \in [Service -> Assignment]
  <2>1. On(s, "primary") \in Assignment BY DEF Assignment, Role
  <2> QED BY <2>1 DEF Inv, TypeOK
<1>2. TypeOK'
  BY <1>1 DEF Inv, TypeOK, Phase
<1>3. OnePrimary'
  <2> SUFFICES ASSUME NEW x \in Service, NEW y \in Service, owner'[x] = owner'[y],
                      owner'[x].role = "primary", TypeOf[x] = TypeOf[y]
               PROVE  x = y
    BY DEF OnePrimary
  <2>1. CASE x \in vs /\ y \in vs BY <2>1
  <2>2. CASE x \in vs /\ y \notin vs
    <3>1. owner[y] = On(s, "primary") BY <2>2
    <3> QED BY <3>1, <2>2
  <2>3. CASE x \notin vs /\ y \in vs
    <3>1. owner[x] = On(s, "primary") BY <2>3
    <3> QED BY <3>1, <2>3
  <2>4. CASE x \notin vs /\ y \notin vs
    BY <2>4 DEF Inv, OnePrimary
  <2> QED BY <2>1, <2>2, <2>3, <2>4
<1>4. NoDangling'
  <2> SUFFICES ASSUME NEW w \in Service, owner'[w] # Unassigned
               PROVE  w \in present' /\ phase'[owner'[w].stream] \in {"idle", "protected"}
    BY DEF NoDangling, Exists
  <2>1. CASE w \in vs
    BY <2>1 DEF On, Inv, TypeOK
  <2>2. CASE w \notin vs
    <3>1. owner'[w] = owner[w] BY <2>2
    <3> QED BY <3>1, AssignedStream DEF Inv, TypeOK
  <2> QED BY <2>1, <2>2
<1> QED BY <1>2, <1>3, <1>4 DEF Inv

LEMMA CreateStreamInv ==
  ASSUME Inv, NEW s \in Stream, NEW vs \in SUBSET Service, CreateStream(s, vs)
  PROVE  Inv'
<1>1. vs \in SUBSET present BY DEF CreateStream
<1>2. \A w \in Service : owner[w] # On(s, "primary")
  <2> SUFFICES ASSUME NEW w \in Service, owner[w] = On(s, "primary")
               PROVE  FALSE
    OBVIOUS
  <2>1. owner[w].stream = s /\ owner[w] # Unassigned
    BY DEF On, Unassigned
  <2> QED BY <2>1, AssignedStream DEF CreateStream
<1> QED BY <1>1, <1>2, PutInv DEF CreateStream

LEMMA ClaimStartInv ==
  ASSUME Inv, NEW s \in Stream, NEW m \in {{}} \cup {{v} : v \in Service},
         ClaimStart(s, m)
  PROVE  Inv'
<1>1. m \in SUBSET present /\ \A v, w \in m : v = w
  BY DEF ClaimStart
<1>2. \A v \in m, w \in Service \ m : owner[w] = On(s, "primary") => TypeOf[w] # TypeOf[v]
  BY DEF ClaimStart, Served
<1> QED BY <1>1, <1>2, PutInv DEF ClaimStart

LEMMA NextInv ==
  ASSUME Inv, [Next]_vars
  PROVE  Inv'
<1>1. CASE UNCHANGED vars
  BY <1>1 DEF vars, Inv, TypeOK, OnePrimary, NoDangling, Exists
<1>2. CASE \E v \in Service, s \in Stream, role \in Role,
             e \in Stream \cup {NoStream, AnyStream} : Assign(v, s, role, e)
  BY <1>2, AssignInv
<1>3. CASE \E v \in Service, e \in Stream \cup {NoStream, AnyStream} : Unassign(v, e)
  BY <1>3, UnassignInv
<1>4. CASE \E v \in Service : DeleteService(v) \/ Register(v)
  BY <1>4, DeleteServiceInv, RegisterInv
<1>5. CASE \E s \in Stream : DeleteStream(s) \/ EndProtection(s)
  BY <1>5, DeleteStreamInv, ProtectionInv DEF EndProtection
<1>6. CASE \E s \in Stream, vs \in SUBSET Service : CreateStream(s, vs)
  BY <1>6, CreateStreamInv
<1>7. CASE \E s \in Stream, m \in {{}} \cup {{v} : v \in Service} : ClaimStart(s, m)
  BY <1>7, ClaimStartInv
<1>8. CASE \E v \in Service, s \in Stream : BeginArchiveRetry(v, s)
  BY <1>8, ProtectionInv DEF BeginArchiveRetry
<1> QED BY <1>1, <1>2, <1>3, <1>4, <1>5, <1>6, <1>7, <1>8 DEF Next

LEMMA Invariance == Spec => []Inv
BY InitInv, NextInv, PTL DEF Spec

\* Whatever transfers, creations, deletions and start claims happen, a
\* stream has at most one primary service of each type.
THEOREM PrimaryUnique == Spec => []OnePrimary
BY Invariance, PTL DEF Inv

\* No assignment ever points from a deleted service or to a stream that does
\* not exist.
THEOREM NothingDangles == Spec => []NoDangling
BY Invariance, PTL DEF Inv

\* What ProtectedFrozen says of one step.
Frozen ==
  \A s \in Stream : phase[s] = "protected" =>
    \A v \in Service :
      (owner[v].stream = s \/ owner'[v].stream = s) => owner'[v] = owner[v]

LEMMA ClearedFrozen ==
  ASSUME Inv, NEW ws, owner' = Cleared(owner, ws),
         \A w \in ws \cap Service : ~Protected(owner[w].stream)
  PROVE  Frozen
<1> SUFFICES ASSUME NEW s \in Stream, phase[s] = "protected", NEW v \in Service,
                    owner[v].stream = s \/ owner'[v].stream = s
             PROVE  owner'[v] = owner[v]
  BY DEF Frozen
<1>1. CASE v \in ws
  <2>1. owner'[v].stream = NoStream BY <1>1 DEF Cleared, Unassigned, On
  <2>2. owner[v].stream = s BY <2>1, AssignmentAssumption
  <2> QED BY <1>1, <2>2 DEF Protected
<1>2. CASE v \notin ws BY <1>2 DEF Cleared
<1> QED BY <1>1, <1>2

LEMMA PlacedFrozen ==
  ASSUME Inv, NEW x \in Service, NEW t \in Stream, NEW role \in Role,
         owner' = Placed(owner, x, t, role),
         ~Protected(owner[x].stream), ~Protected(t)
  PROVE  Frozen
<1> SUFFICES ASSUME NEW s \in Stream, phase[s] = "protected", NEW v \in Service,
                    owner[v].stream = s \/ owner'[v].stream = s
             PROVE  owner'[v] = owner[v]
  BY DEF Frozen
<1>1. s # t /\ s # NoStream BY AssignmentAssumption DEF Protected
<1>2. v # x
  <2>1. owner'[x].stream = t BY DEF Placed, On
  <2> QED BY <2>1, <1>1 DEF Protected
<1>3. \/ owner'[v] = owner[v]
      \/ owner'[v] = Unassigned /\ owner[v] = On(t, "primary")
  BY <1>2 DEF Placed
<1> QED BY <1>1, <1>3 DEF On, Unassigned

LEMMA PutFrozen ==
  ASSUME NEW t \in Stream, ~Protected(t), NEW vs,
         \A v \in vs \cap Service : owner[v].stream \in {NoStream, t},
         owner' = [v \in Service |-> IF v \in vs THEN On(t, "primary") ELSE owner[v]]
  PROVE  Frozen
<1> SUFFICES ASSUME NEW s \in Stream, phase[s] = "protected", NEW v \in Service,
                    owner[v].stream = s \/ owner'[v].stream = s
             PROVE  owner'[v] = owner[v]
  BY DEF Frozen
<1>1. s # t /\ s # NoStream BY AssignmentAssumption DEF Protected
<1>2. CASE v \in vs BY <1>1, <1>2 DEF On
<1>3. CASE v \notin vs BY <1>3
<1> QED BY <1>2, <1>3

LEMMA NextFrozen ==
  ASSUME Inv, Next
  PROVE  Frozen
<1>1. ASSUME NEW v \in Service, NEW s \in Stream, NEW role \in Role, NEW e,
             Assign(v, s, role, e)
      PROVE  Frozen
  <2>1. CASE owner[v] = On(s, role) BY <1>1, <2>1 DEF Assign, Frozen
  <2>2. CASE owner[v] # On(s, role)
    BY <1>1, <2>2, PlacedFrozen DEF Assign, AssignAllowed
  <2> QED BY <2>1, <2>2
<1>2. ASSUME NEW v \in Service, NEW e, Unassign(v, e)
      PROVE  Frozen
  BY <1>2, ClearedFrozen DEF Unassign, UnassignAllowed
<1>3. ASSUME NEW v \in Service, DeleteService(v) \/ Register(v)
      PROVE  Frozen
  <2>1. CASE DeleteService(v) BY <2>1, ClearedFrozen DEF DeleteService
  <2>2. CASE Register(v) BY <2>2 DEF Register, Frozen
  <2> QED BY <1>3, <2>1, <2>2
<1>4. ASSUME NEW s \in Stream, DeleteStream(s) \/ EndProtection(s)
      PROVE  Frozen
  <2>1. CASE DeleteStream(s)
    <3> DEFINE ws == {v \in Service : owner[v].stream = s}
    <3>1. owner' = Cleared(owner, ws) BY <2>1 DEF DeleteStream
    <3>2. \A w \in ws \cap Service : ~Protected(owner[w].stream)
      BY <2>1 DEF DeleteStream, Protected
    <3> HIDE DEF ws
    <3> QED BY <3>1, <3>2, ClearedFrozen
  <2>2. CASE EndProtection(s) BY <2>2 DEF EndProtection, Frozen
  <2> QED BY <1>4, <2>1, <2>2
<1>5. ASSUME NEW s \in Stream, NEW vs \in SUBSET Service, CreateStream(s, vs)
      PROVE  Frozen
  <2>1. \A v \in vs \cap Service : owner[v].stream \in {NoStream, s}
    BY <1>5 DEF CreateStream, Unassigned, On
  <2> QED BY <1>5, <2>1, PutFrozen DEF CreateStream, Protected
<1>6. ASSUME NEW s \in Stream, NEW m \in {{}} \cup {{v} : v \in Service}, ClaimStart(s, m)
      PROVE  Frozen
  <2>1. \A v \in m \cap Service : owner[v].stream \in {NoStream, s}
    BY <1>6 DEF ClaimStart, Unassigned, On
  <2> QED BY <1>6, <2>1, PutFrozen DEF ClaimStart, Protected
<1>7. ASSUME NEW v \in Service, NEW s \in Stream, BeginArchiveRetry(v, s)
      PROVE  Frozen
  BY <1>7 DEF BeginArchiveRetry, Frozen
<1> QED BY <1>1, <1>2, <1>3, <1>4, <1>5, <1>6, <1>7 DEF Next

\* No operation moves, adds, displaces or deletes a service of a stream that
\* is starting, live, stopping or still archiving.
THEOREM ProtectedKept == Spec => ProtectedFrozen
<1>1. Inv /\ [Next]_vars => [Frozen]_vars
  BY NextFrozen
<1> QED BY <1>1, Invariance, PTL DEF Spec, ProtectedFrozen, Frozen
-----------------------------------------------------------------------------
(* The settings form.                                                      *)

EditPc == {"idle", "apply", "rollback", "saved", "failed", "rollback_failed"}
Op == [kind : {"set", "clear", "undo", "restore"}, service : Service]
SnapRow == {On(s, role) : s \in Stream \cup {NoStream}, role \in Role}
Snapshot == UNION {[vs -> SnapRow] : vs \in SUBSET Service}
EditRecord ==
  [pc : EditPc, stream : Stream \cup {NoStream}, snapshot : Snapshot,
   todo : SUBSET Op, applied : SUBSET Service, mutated : BOOLEAN]

\* What is known of an operation an edit has still to perform: its arguments
\* are those of a request to the store, and a Bot it sets was free or the
\* stream's own when the snapshot was made.
OpOK(e, op) ==
  /\ e.stream \in Stream
  /\ e.pc = "apply" => op.kind \in {"set", "clear"}
  /\ op.kind \in {"set", "restore"} => op.service \in DOMAIN e.snapshot
  /\ op.kind = "restore" => e.snapshot[op.service].stream \in Stream
  /\ op.kind = "set" /\ TypeOf[op.service] = "discord_bot" =>
       e.snapshot[op.service].stream \in {NoStream, e.stream}

EditOK(e) ==
  /\ e \in EditRecord
  /\ e.applied \subseteq DOMAIN e.snapshot
  /\ e.pc = "apply" => e.stream \in Stream
  /\ \A op \in e.todo : OpOK(e, op)

EditInv == DOMAIN edit = Editor /\ \A r \in Editor : EditOK(edit[r])

LEMMA SnapshotDomain ==
  ASSUME NEW f \in Snapshot
  PROVE  DOMAIN f \subseteq Service /\ \A v \in DOMAIN f : f[v] \in SnapRow
BY DEF Snapshot

LEMMA SnapRowFields ==
  ASSUME NEW o \in SnapRow
  PROVE  o.stream \in Stream \cup {NoStream} /\ o.role \in Role
BY DEF SnapRow, On

LEMMA NoEditOK == EditOK(NoEdit)
<1>1. <<>> \in [{} -> SnapRow] OBVIOUS
<1>2. <<>> \in Snapshot
  <2>1. {} \in SUBSET Service OBVIOUS
  <2> QED BY <1>1, <2>1 DEF Snapshot
<1> QED BY <1>2 DEF NoEdit, EditOK, EditRecord, EditPc

\* One edit changes, to a state that is all right.
LEMMA EditChanges ==
  ASSUME EditInv, NEW r \in Editor, NEW f, EditOK(f), edit' = [edit EXCEPT ![r] = f]
  PROVE  EditInv'
BY DEF EditInv

\* The snapshot of a form is one of services and their owners.
LEMMA SnapshotOK ==
  ASSUME TypeOK, NEW s \in Stream, NEW form \in Form
  PROVE  /\ SnapshotOf(s, form) \in Snapshot
         /\ Named(form) \subseteq DOMAIN SnapshotOf(s, form)
<1> DEFINE vs == {w \in Service : owner[w].stream = s /\ form[TypeOf[w]] # Keep} \cup Named(form)
<1>1. vs \in SUBSET Service BY DEF Named
<1>2. ASSUME NEW v \in vs
      PROVE  (IF v \in Named(form) THEN On(owner[v].stream, "primary") ELSE owner[v]) \in SnapRow
  <2>1. owner[v] \in Assignment BY <1>1 DEF TypeOK
  <2>2. CASE v \in Named(form)
    BY <2>1, <2>2 DEF Assignment, SnapRow, Unassigned, On, Role
  <2>3. CASE v \notin Named(form)
    <3>1. owner[v].stream = s BY <2>3
    <3>2. owner[v] # Unassigned BY <3>1, AssignmentAssumption DEF Unassigned, On
    <3> QED BY <2>1, <2>3, <3>2 DEF Assignment, SnapRow
  <2> QED BY <2>2, <2>3
<1>3. SnapshotOf(s, form) \in [vs -> SnapRow] BY <1>2 DEF SnapshotOf
<1>4. DOMAIN SnapshotOf(s, form) = vs BY <1>3
<1> HIDE DEF vs
<1>5. SnapshotOf(s, form) \in Snapshot BY <1>1, <1>3 DEF Snapshot
<1> QED BY <1>4, <1>5 DEF vs

LEMMA BeginOK ==
  ASSUME TypeOK, EditInv, NEW r \in Editor, Begin(r)
  PROVE  EditInv'
<1>1. PICK s \in Stream, form \in {f \in Form : WellTyped(f)} :
        /\ ~BotTaken(s, form, SnapshotOf(s, form))
        /\ edit' = [edit EXCEPT ![r] =
             [NoEdit EXCEPT !.pc = "apply", !.stream = s, !.snapshot = SnapshotOf(s, form),
                !.todo = UNION {OpsFor(t, s, form, SnapshotOf(s, form)) : t \in DOMAIN form}]]
  BY DEF Begin
<1>2. PICK snapshot : snapshot = SnapshotOf(s, form) OBVIOUS
<1>3. snapshot \in Snapshot /\ Named(form) \subseteq DOMAIN snapshot
  BY <1>2, SnapshotOK
<1>4. PICK todo : todo = UNION {OpsFor(t, s, form, snapshot) : t \in DOMAIN form} OBVIOUS
<1>5. PICK f : f = [NoEdit EXCEPT !.pc = "apply", !.stream = s, !.snapshot = snapshot,
                      !.todo = todo]
  OBVIOUS
<1>6. edit' = [edit EXCEPT ![r] = f] BY <1>1, <1>2, <1>4, <1>5
<1>7. /\ f.pc = "apply" /\ f.stream = s /\ f.snapshot = snapshot /\ f.todo = todo
      /\ f.applied = {}
  BY <1>5 DEF NoEdit
<1>8. ASSUME NEW op \in todo
      PROVE  /\ op \in Op
             /\ op.kind \in {"set", "clear"}
             /\ op.kind = "set" => op.service \in Named(form)
  <2>1. PICK t \in DOMAIN form : op \in OpsFor(t, s, form, snapshot) BY <1>4
  <2>2. CASE form[t] \in Service
    BY <2>1, <2>2 DEF OpsFor, Ops, Op, Named
  <2>3. CASE form[t] \notin Service /\ form[t] = Clear
    <3>1. PICK v \in DOMAIN snapshot : op = [kind |-> "clear", service |-> v]
      BY <2>1, <2>3 DEF OpsFor, Ops
    <3> QED BY <3>1, <1>3, SnapshotDomain DEF Op
  <2>4. CASE form[t] \notin Service /\ form[t] # Clear
    BY <2>1, <2>4 DEF OpsFor
  <2> QED BY <2>2, <2>3, <2>4
<1>9. \A op \in todo : OpOK(f, op)
  BY <1>1, <1>2, <1>3, <1>7, <1>8 DEF OpOK, BotTaken
<1>10. f \in EditRecord
  BY <1>3, <1>5, <1>8 DEF EditRecord, NoEdit, EditPc
<1>11. EditOK(f) BY <1>7, <1>9, <1>10 DEF EditOK
<1> QED BY <1>6, <1>11, EditChanges

LEMMA RollingBackOK ==
  ASSUME NEW e, EditOK(e), e.stream \in Stream
  PROVE  EditOK(RollingBack(e))
<1> DEFINE owned == {v \in DOMAIN e.snapshot : e.snapshot[v].stream # NoStream}
           todo == Ops("undo", e.applied) \cup Ops("restore", owned)
<1>0. /\ e \in EditRecord /\ e.applied \subseteq DOMAIN e.snapshot
      /\ e.snapshot \in Snapshot
  BY DEF EditOK, EditRecord
<1>1. CASE ~e.mutated
  <2>1. PICK f : f = [e EXCEPT !.pc = "failed", !.todo = {}] OBVIOUS
  <2>2. f \in EditRecord /\ f.todo = {} /\ f.pc = "failed" /\ f.applied = e.applied
        /\ f.snapshot = e.snapshot
    BY <1>0, <2>1 DEF EditRecord, EditPc
  <2>3. EditOK(f) BY <1>0, <2>2 DEF EditOK
  <2> QED BY <1>1, <2>1, <2>3 DEF RollingBack
<1>2. CASE e.mutated
  <2>1. PICK f : f = [e EXCEPT !.pc = "rollback", !.todo = todo] OBVIOUS
  <2>2. \A op \in todo :
          /\ op \in Op /\ op.kind \in {"undo", "restore"}
          /\ op.kind = "restore" => op.service \in owned
    <3>1. e.applied \subseteq Service /\ owned \subseteq Service
      BY <1>0, SnapshotDomain
    <3> QED BY <3>1 DEF Ops, Op
  <2>3. \A v \in owned : v \in DOMAIN e.snapshot /\ e.snapshot[v].stream \in Stream
    BY <1>0, SnapshotDomain, SnapRowFields
  <2> HIDE DEF owned, todo
  <2>4. f \in EditRecord /\ f.todo = todo /\ f.pc = "rollback" /\ f.applied = e.applied
        /\ f.snapshot = e.snapshot /\ f.stream = e.stream
    BY <1>0, <2>1, <2>2 DEF EditRecord, EditPc
  <2>5. \A op \in todo : OpOK(f, op) BY <2>2, <2>3, <2>4 DEF OpOK
  <2>6. EditOK(f) BY <1>0, <2>4, <2>5 DEF EditOK
  <2> QED BY <1>2, <2>1, <2>6 DEF RollingBack, todo, owned
<1> QED BY <1>1, <1>2

\* Fewer operations to do, or another state without any.
LEMMA FewerOps ==
  ASSUME NEW e, EditOK(e), NEW op, NEW f, f = [e EXCEPT !.todo = @ \ {op}]
  PROVE  EditOK(f)
<1>1. /\ f \in EditRecord /\ f.todo = e.todo \ {op} /\ f.pc = e.pc /\ f.stream = e.stream
      /\ f.snapshot = e.snapshot /\ f.applied = e.applied
  BY DEF EditOK, EditRecord
<1> QED BY <1>1 DEF EditOK, OpOK

LEMMA OpsOver ==
  ASSUME NEW e, EditOK(e), NEW pc \in EditPc \ {"apply"},
         NEW f, f = [e EXCEPT !.pc = pc, !.todo = {}]
  PROVE  EditOK(f)
<1>1. /\ f \in EditRecord /\ f.todo = {} /\ f.pc = pc
      /\ f.snapshot = e.snapshot /\ f.applied = e.applied
  BY DEF EditOK, EditRecord
<1> QED BY <1>1 DEF EditOK

LEMMA RecordedOK ==
  ASSUME NEW e, EditOK(e), NEW op \in e.todo
  PROVE  EditOK(Recorded(e, op))
<1>0. e \in EditRecord /\ OpOK(e, op) /\ op \in Op BY DEF EditOK, EditRecord
<1>1. PICK f : f = Recorded(e, op) OBVIOUS
<1>2. /\ f \in EditRecord /\ f.todo = e.todo /\ f.pc = e.pc /\ f.stream = e.stream
      /\ f.snapshot = e.snapshot
      /\ f.applied = e.applied \/ (op.kind = "set" /\ f.applied = e.applied \cup {op.service})
  BY <1>0, <1>1 DEF Recorded, EditRecord, Op
<1>3. f.applied \subseteq DOMAIN f.snapshot BY <1>0, <1>2 DEF EditOK, OpOK
<1>4. \A q \in f.todo : OpOK(f, q) BY <1>2 DEF EditOK, OpOK
<1> QED BY <1>1, <1>2, <1>3, <1>4 DEF EditOK

LEMMA EditStepOK ==
  ASSUME TypeOK, EditInv, NEW r \in Editor, EditStep(r)
  PROVE  EditInv'
<1>0. EditOK(edit[r]) BY DEF EditInv
<1>1. CASE Begin(r) BY <1>1, BeginOK
<1>2. CASE Apply(r)
  <2>1. PICK op \in NextOp(edit[r]) :
          edit' = [edit EXCEPT ![r] = [Recorded(edit[r], op) EXCEPT !.todo = @ \ {op}]]
    BY <1>2 DEF Apply
  <2>2. EditOK(Recorded(edit[r], op)) BY <1>0, <2>1, RecordedOK DEF NextOp
  <2>3. EditOK([Recorded(edit[r], op) EXCEPT !.todo = @ \ {op}]) BY <2>2, FewerOps
  <2> QED BY <2>1, <2>3, EditChanges
<1>3. CASE Refused(r)
  <2>1. PICK op \in NextOp(edit[r]) :
          edit' = [edit EXCEPT ![r] =
            IF edit[r].pc = "apply" THEN RollingBack(edit[r])
            ELSE IF op.kind = "undo" /\ op.service \notin present
              THEN [edit[r] EXCEPT !.todo = @ \ {op}]
              ELSE [edit[r] EXCEPT !.pc = "rollback_failed", !.todo = {}]]
    BY <1>3 DEF Refused
  <2>2. edit[r].pc = "apply" => EditOK(RollingBack(edit[r]))
    BY <1>0, RollingBackOK DEF EditOK
  <2>3. EditOK([edit[r] EXCEPT !.todo = @ \ {op}]) BY <1>0, FewerOps
  <2>4. EditOK([edit[r] EXCEPT !.pc = "rollback_failed", !.todo = {}])
    BY <1>0, OpsOver DEF EditPc
  <2> QED BY <2>1, <2>2, <2>3, <2>4, EditChanges
<1>4. CASE Save(r)
  <2>1. PICK f : f = [edit[r] EXCEPT !.pc = "saved", !.todo = {}] OBVIOUS
  <2>2. f = [edit[r] EXCEPT !.pc = "saved"] BY <1>0, <1>4, <2>1 DEF Save, EditOK, EditRecord
  <2>3. EditOK(f) BY <1>0, <2>1, OpsOver DEF EditPc
  <2> QED BY <1>4, <2>2, <2>3, EditChanges DEF Save
<1>5. CASE SaveFails(r)
  <2>1. EditOK(RollingBack(edit[r])) BY <1>0, <1>5, RollingBackOK DEF SaveFails, EditOK
  <2> QED BY <1>5, <2>1, EditChanges DEF SaveFails
<1>6. CASE RolledBack(r)
  <2>1. PICK f : f = [edit[r] EXCEPT !.pc = "failed", !.todo = {}] OBVIOUS
  <2>2. f = [edit[r] EXCEPT !.pc = "failed"]
    BY <1>0, <1>6, <2>1 DEF RolledBack, EditOK, EditRecord
  <2>3. EditOK(f) BY <1>0, <2>1, OpsOver DEF EditPc
  <2> QED BY <1>6, <2>2, <2>3, EditChanges DEF RolledBack, EditInv
<1>7. CASE Respond(r) BY <1>7, NoEditOK, EditChanges DEF Respond
<1> QED BY <1>1, <1>2, <1>3, <1>4, <1>5, <1>6, <1>7 DEF EditStep

\* Every operation of a form, of its rollback included, is one request to the
\* store that anyone might make.
LEMMA PerformIsNext ==
  ASSUME NEW e, EditOK(e), NEW op \in e.todo, Perform(e, op)
  PROVE  Next
<1>0. OpOK(e, op) /\ op \in Op /\ e \in EditRecord BY DEF EditOK, EditRecord
<1>1. op.service \in Service /\ e.stream \in Stream BY <1>0 DEF Op, OpOK
<1>2. ASSUME op.service \in DOMAIN e.snapshot
      PROVE  /\ e.snapshot[op.service].stream \in Stream \cup {NoStream}
             /\ e.snapshot[op.service].role \in Role
  BY <1>0, <1>2, SnapshotDomain, SnapRowFields DEF EditRecord
<1>3. CASE op.kind \in {"clear", "undo"}
  <2>1. Unassign(op.service, e.stream) BY <1>3 DEF Perform
  <2> QED BY <1>1, <2>1 DEF Next
<1>4. CASE op.kind = "set"
  <2>1. Assign(op.service, e.stream, "primary", e.snapshot[op.service].stream)
    BY <1>4 DEF Perform, ExpectedBy
  <2>2. e.snapshot[op.service].stream \in Stream \cup {NoStream, AnyStream}
    BY <1>0, <1>2, <1>4 DEF OpOK
  <2> QED BY <1>1, <2>1, <2>2 DEF Next, Role
<1>5. CASE op.kind = "restore"
  <2>1. Assign(op.service, e.snapshot[op.service].stream, e.snapshot[op.service].role, NoStream)
    BY <1>5 DEF Perform
  <2>2. e.snapshot[op.service].stream \in Stream /\ e.snapshot[op.service].role \in Role
    BY <1>0, <1>2, <1>5 DEF OpOK
  <2> QED BY <1>1, <2>1, <2>2 DEF Next
<1> QED BY <1>0, <1>3, <1>4, <1>5 DEF Op

LEMMA EditStoreStep ==
  ASSUME EditInv, [EditNext]_editVars
  PROVE  [Next]_vars
<1>1. CASE UNCHANGED editVars BY <1>1 DEF editVars, vars
<1>2. CASE Next BY <1>2
<1>3. ASSUME NEW r \in Editor, EditStep(r)
      PROVE  [Next]_vars
  <2>1. CASE Apply(r)
    <3>1. PICK op \in NextOp(edit[r]) : Perform(edit[r], op) BY <2>1 DEF Apply
    <3> QED BY <3>1, <1>3, PerformIsNext DEF EditInv, NextOp
  <2>2. CASE Begin(r) \/ Refused(r) \/ Save(r) \/ SaveFails(r) \/ RolledBack(r) \/ Respond(r)
    BY <2>2 DEF Begin, Refused, Save, SaveFails, RolledBack, Respond
  <2> QED BY <1>3, <2>1, <2>2 DEF EditStep
<1> QED BY <1>1, <1>2, <1>3 DEF EditNext

LEMMA EditInitInv == EditInit => Inv /\ EditInv
BY NoEditOK DEF EditInit, Inv, TypeOK, Phase, EditInv

LEMMA EditNextInv ==
  ASSUME Inv, EditInv, [EditNext]_editVars
  PROVE  Inv' /\ EditInv'
<1>1. Inv' BY EditStoreStep, NextInv
<1>2. EditInv'
  <2>1. CASE UNCHANGED edit BY <2>1 DEF EditInv
  <2>2. CASE \E r \in Editor : EditStep(r) BY <2>2, EditStepOK DEF Inv
  <2> QED BY <2>1, <2>2 DEF EditNext, editVars
<1> QED BY <1>1, <1>2

LEMMA EditInvariance == EditSpec => [](Inv /\ EditInv)
BY EditInitInv, EditNextInv, PTL DEF EditSpec

\* The store's guarantees survive any settings forms, their rollbacks and the
\* operations that happen between their steps.
THEOREM EditsKeepStore == EditSpec => []OnePrimary /\ []NoDangling /\ ProtectedFrozen
<1>1. Inv /\ EditInv /\ [EditNext]_editVars => [Frozen]_vars
  BY EditStoreStep, NextFrozen
<1>2. Inv => OnePrimary /\ NoDangling BY DEF Inv
<1> QED BY <1>1, <1>2, EditInvariance, PTL DEF EditSpec, ProtectedFrozen, Frozen

\* What BotNotTransferred says of one step.
NoBotTaken ==
  \A r \in Editor : \A v \in Service :
    /\ edit[r].pc = "apply" /\ edit'[r] # edit[r]
    /\ TypeOf[v] = "discord_bot"
    /\ owner'[v].stream = edit[r].stream
    => owner[v].stream \in {NoStream, edit[r].stream}

LEMMA SetKeepsBots ==
  ASSUME TypeOK, NEW e, EditOK(e), e.pc = "apply", NEW op \in e.todo, Perform(e, op),
         NEW v \in Service, TypeOf[v] = "discord_bot", owner'[v].stream = e.stream
  PROVE  owner[v].stream \in {NoStream, e.stream}
<1>0. OpOK(e, op) /\ op \in Op /\ e \in EditRecord BY DEF EditOK, EditRecord
<1>1. e.stream # NoStream BY <1>0, AssignmentAssumption DEF OpOK
<1>2. CASE op.kind = "clear"
  <2>1. owner' = Cleared(owner, {op.service}) BY <1>2 DEF Perform, Unassign
  <2>2. owner'[v] \in {owner[v], Unassigned} BY <2>1 DEF Cleared
  <2> QED BY <1>1, <2>2 DEF Unassigned, On
<1>3. CASE op.kind = "set"
  <2>1. Assign(op.service, e.stream, "primary", e.snapshot[op.service].stream)
    BY <1>3 DEF Perform, ExpectedBy
  <2>2. CASE owner' = owner BY <2>2
  <2>3. CASE owner' = Placed(owner, op.service, e.stream, "primary") /\ v # op.service
    <3>1. owner'[v] \in {owner[v], Unassigned} BY <2>3 DEF Placed
    <3> QED BY <1>1, <3>1 DEF Unassigned, On
  <2>4. CASE v = op.service
    <3>1. e.snapshot[v].stream \in {NoStream, e.stream} BY <1>0, <1>3, <2>4 DEF OpOK
    <3>2. e.snapshot[v].stream # AnyStream BY <1>0, <3>1, AssignmentAssumption DEF OpOK
    <3>3. e.snapshot[v].stream = owner[v].stream
      BY <2>1, <2>4, <3>2 DEF Assign, AssignAllowed
    <3> QED BY <3>1, <3>3
  <2> QED BY <2>1, <2>2, <2>3, <2>4 DEF Assign
<1> QED BY <1>0, <1>2, <1>3 DEF OpOK

LEMMA EditTakesNoBot ==
  ASSUME TypeOK, EditInv, EditNext
  PROVE  NoBotTaken
<1> SUFFICES ASSUME NEW r \in Editor, NEW v \in Service,
                    edit[r].pc = "apply", edit'[r] # edit[r],
                    TypeOf[v] = "discord_bot", owner'[v].stream = edit[r].stream
             PROVE  owner[v].stream \in {NoStream, edit[r].stream}
  BY DEF NoBotTaken
<1>1. PICK q \in Editor : EditStep(q) BY DEF EditNext
<1>2. CASE owner' = owner BY <1>2
<1>3. CASE Apply(q)
  <2>1. PICK op \in NextOp(edit[q]) :
          /\ Perform(edit[q], op)
          /\ edit' = [edit EXCEPT ![q] = [Recorded(edit[q], op) EXCEPT !.todo = @ \ {op}]]
    BY <1>3 DEF Apply
  <2>2. q = r BY <2>1 DEF EditInv
  <2> QED BY <2>1, <2>2, SetKeepsBots DEF EditInv, NextOp
<1> QED BY <1>1, <1>2, <1>3
     DEF EditStep, Begin, Refused, Save, SaveFails, RolledBack, Respond, vars

\* No settings form ever takes a Bot that another stream owns, not even one
\* that was given away between the form's snapshot and its assignment.
THEOREM BotsStay == EditSpec => BotNotTransferred
<1>1. Inv /\ EditInv /\ [EditNext]_editVars => [NoBotTaken]_editVars
  BY EditTakesNoBot DEF Inv
<1> QED BY <1>1, EditInvariance, PTL DEF EditSpec, BotNotTransferred, NoBotTaken
-----------------------------------------------------------------------------
(* The MariaDB transactions.                                               *)

OpRecord ==
  [kind : Kind \cup {"none"}, services : SUBSET Service, stream : Stream \cup {NoStream},
   role : Role \cup {"none"}, expected : Stream \cup {NoStream, AnyStream},
   materialize : SUBSET Service]
PlanRecord == [delete : SUBSET Row, clear : SUBSET Service, insert : SUBSET Service]
TxRecord ==
  [pc : {"idle", "discover", "lock", "write"}, op : OpRecord,
   owner : Stream \cup {NoStream}, rows : SUBSET Row, holders : SUBSET Service,
   held : SUBSET Locks, todo : SUBSET Locks, plan : PlanRecord]

\* What a request of each kind names.
RequestOK(op) ==
  /\ op \in OpRecord
  /\ Single(op) => \E v \in Service : op.services = {v}
  /\ op.kind \in {"assign", "retry", "deleteStream", "create", "claim"} => op.stream \in Stream
  /\ op.kind = "assign" => op.role \in Role
  /\ op.kind = "deleteStream" => op.services = {}
  /\ op.kind = "create" =>
       /\ CreateTypes \subseteq TypesOf(op.services)
       /\ TypesOf(op.services) \subseteq StartTypes
       /\ \A v, w \in op.services : TypeOf[v] = TypeOf[w] => v = w
  /\ op.kind = "claim" =>
       /\ op.materialize \subseteq op.services
       /\ op.materialize = {} \/ \E v \in Service : op.materialize = {v}

\* Two-phase locking: what is held and what is still to be locked are the
\* locks of the operation, the former all before the latter.
LocksOK(t) ==
  /\ IF t.pc = "idle" THEN t = Idle ELSE t.op.kind # "none"
  /\ t.pc \in {"idle", "discover"} => t.held = {} /\ t.todo = {}
  /\ t.pc \in {"lock", "write"} => t.held \cup t.todo = LocksOf(t)
  /\ IF t.pc = "write" THEN t.todo = {} ELSE t.plan = NoPlan
  /\ \A x \in t.held, y \in t.todo : Rank[x] < Rank[y]
  /\ \A q, r \in t.rows : q.service = r.service => q = r

TxOK(t) == t \in TxRecord /\ RequestOK(t.op) /\ LocksOK(t)

TablesOK ==
  /\ rows \subseteq Row
  /\ current \in [Service -> Stream \cup {NoStream}]
  /\ phase \in [Stream -> Phase]
  /\ present \subseteq Service

\* No row is locked by two transactions.
Exclusive == \A a, b \in Actor : a # b => tx[a].held \cap tx[b].held = {}

\* A locked stream was created, a locked service is registered.
HeldFound ==
  \A a \in Actor :
    /\ \A s \in Stream : StreamRow(s) \in tx[a].held => phase[s] # "absent"
    /\ \A v \in Service : ServiceRow(v) \in tx[a].held => v \in present

\* Two creations draw different ids.
NewIds ==
  \A a, b \in Actor :
    a # b /\ tx[a].op.kind = "create" /\ tx[b].op.kind = "create" =>
      tx[a].op.stream # tx[b].op.stream

\* What was decided after the locks is still true.
Decided(t) == Revalidated(t) /\ Allowed(t) /\ t.plan = PlanOf(t)

LocksInv ==
  /\ TablesOK
  /\ TablesAgree
  /\ DOMAIN tx = Actor
  /\ \A a \in Actor : TxOK(tx[a])
  /\ Exclusive /\ HeldFound /\ NewIds
  /\ \A a \in Actor : tx[a].pc = "write" => Decided(tx[a])

\* The sorted order of locks: positive, bounded, and strict but for the rows
\* of one service.
RankBound == Len(StreamOrder) + Len(ServiceOrder) + Len(ServiceOrder)

LEMMA PositionOf ==
  ASSUME NEW S, NEW order \in Seq(S), Range(order) = S, NEW x \in S
  PROVE  Position(order, x) \in 1..Len(order) /\ order[Position(order, x)] = x
<1>1. \E i \in DOMAIN order : order[i] = x BY DEF Range
<1>2. Position(order, x) \in DOMAIN order /\ order[Position(order, x)] = x
  BY <1>1 DEF Position
<1> QED BY <1>2

LEMMA RankTable ==
  /\ \A s \in Stream : Rank[StreamRow(s)] = Position(StreamOrder, s)
  /\ \A v \in Service : Rank[ServiceRow(v)] = Len(StreamOrder) + Position(ServiceOrder, v)
  /\ \A r \in Row : Rank[AssignmentRow(r)] =
       Len(StreamOrder) + Len(ServiceOrder) + Position(ServiceOrder, r.service)
<1>1. ASSUME NEW s \in Stream PROVE Rank[StreamRow(s)] = Position(StreamOrder, s)
  <2>1. /\ StreamRow(s) \in Locks /\ StreamRow(s).table = "streams" /\ StreamRow(s).row = s
    BY DEF Locks, StreamRow
  <2> QED BY <2>1 DEF Rank
<1>2. ASSUME NEW v \in Service
      PROVE  Rank[ServiceRow(v)] = Len(StreamOrder) + Position(ServiceOrder, v)
  <2>1. /\ ServiceRow(v) \in Locks /\ ServiceRow(v).table = "services" /\ ServiceRow(v).row = v
    BY DEF Locks, ServiceRow
  <2> QED BY <2>1 DEF Rank
<1>3. ASSUME NEW r \in Row
      PROVE  Rank[AssignmentRow(r)] =
               Len(StreamOrder) + Len(ServiceOrder) + Position(ServiceOrder, r.service)
  <2>1. /\ AssignmentRow(r) \in Locks /\ AssignmentRow(r).table = "stream_service_assignments"
        /\ AssignmentRow(r).row = r
    BY DEF Locks, AssignmentRow
  <2> QED BY <2>1 DEF Rank
<1> QED BY <1>1, <1>2, <1>3

LEMMA LockCases ==
  ASSUME NEW x \in Locks
  PROVE  \/ \E s \in Stream : x = StreamRow(s)
         \/ \E v \in Service : x = ServiceRow(v)
         \/ \E r \in Row : x = AssignmentRow(r)
BY DEF Locks

LEMMA RankBounds ==
  /\ RankBound \in Nat
  /\ \A x \in Locks : Rank[x] \in 0..RankBound
<1>1. Len(StreamOrder) \in Nat /\ Len(ServiceOrder) \in Nat
  BY LocksAssumption, OrderAssumption
<1>2. \A s \in Stream : Position(StreamOrder, s) \in 1..Len(StreamOrder)
  BY LocksAssumption, PositionOf
<1>3. \A v \in Service : Position(ServiceOrder, v) \in 1..Len(ServiceOrder)
  BY OrderAssumption, PositionOf
<1>4. ASSUME NEW x \in Locks PROVE Rank[x] \in 0..RankBound
  <2>1. CASE \E s \in Stream : x = StreamRow(s) BY <1>1, <1>2, <2>1, RankTable DEF RankBound
  <2>2. CASE \E v \in Service : x = ServiceRow(v) BY <1>1, <1>3, <2>2, RankTable DEF RankBound
  <2>3. CASE \E r \in Row : x = AssignmentRow(r)
    <3>1. PICK r \in Row : x = AssignmentRow(r) BY <2>3
    <3>2. r.service \in Service BY DEF Row
    <3> QED BY <1>1, <1>3, <3>1, <3>2, RankTable DEF RankBound
  <2> QED BY <2>1, <2>2, <2>3, LockCases
<1> QED BY <1>1, <1>4 DEF RankBound

\* Two locks of one transaction with the same rank are the same lock.
LEMMA RankStrict ==
  ASSUME NEW rs \in SUBSET Row, \A q, r \in rs : q.service = r.service => q = r,
         NEW x \in Locks, NEW y \in Locks, Rank[x] = Rank[y],
         \A r \in Row : x = AssignmentRow(r) \/ y = AssignmentRow(r) => r \in rs
  PROVE  x = y
<1>1. Len(StreamOrder) \in Nat /\ Len(ServiceOrder) \in Nat
  BY LocksAssumption, OrderAssumption
<1>2. \A s \in Stream : /\ Position(StreamOrder, s) \in 1..Len(StreamOrder)
                        /\ StreamOrder[Position(StreamOrder, s)] = s
  BY LocksAssumption, PositionOf
<1>3. \A v \in Service : /\ Position(ServiceOrder, v) \in 1..Len(ServiceOrder)
                         /\ ServiceOrder[Position(ServiceOrder, v)] = v
  BY OrderAssumption, PositionOf
<1>4. \A r \in Row : r.service \in Service BY DEF Row
<1>5. CASE \E s \in Stream : x = StreamRow(s)
  <2>1. PICK s \in Stream : x = StreamRow(s) BY <1>5
  <2>2. PICK z \in Stream : y = StreamRow(z)
    BY <1>1, <1>2, <1>3, <1>4, <2>1, RankTable, LockCases
  <2>3. s = z BY <1>2, <2>1, <2>2, RankTable
  <2> QED BY <2>1, <2>2, <2>3
<1>6. CASE \E v \in Service : x = ServiceRow(v)
  <2>1. PICK v \in Service : x = ServiceRow(v) BY <1>6
  <2>2. PICK w \in Service : y = ServiceRow(w)
    BY <1>1, <1>2, <1>3, <1>4, <2>1, RankTable, LockCases
  <2>3. Position(ServiceOrder, v) = Position(ServiceOrder, w)
    BY <1>1, <1>3, <2>1, <2>2, RankTable
  <2> QED BY <1>3, <2>1, <2>2, <2>3
<1>7. CASE \E r \in Row : x = AssignmentRow(r)
  <2>1. PICK r \in Row : x = AssignmentRow(r) BY <1>7
  <2>2. PICK q \in Row : y = AssignmentRow(q)
    BY <1>1, <1>2, <1>3, <1>4, <2>1, RankTable, LockCases
  <2>3. Position(ServiceOrder, r.service) = Position(ServiceOrder, q.service)
    BY <1>1, <1>3, <1>4, <2>1, <2>2, RankTable
  <2>4. r.service = q.service BY <1>3, <1>4, <2>3
  <2> QED BY <2>1, <2>2, <2>4
<1> QED BY <1>5, <1>6, <1>7, LockCases

\* A set of naturals, not empty and bounded, has a greatest element.
LEMMA Greatest ==
  ASSUME NEW bound \in Nat, NEW T, T \subseteq 0..bound, T # {}
  PROVE  \E m \in T : \A n \in T : n <= m
<1> DEFINE U == {bound - n : n \in T}
<1>1. U \subseteq Nat /\ U # {} OBVIOUS
<1> HIDE DEF U
<1>2. PICK x \in U : \A y \in U : ~(<<y, x>> \in OpToRel(<, Nat))
  BY <1>1, NatLessThanWellFounded, WFMin
<1>3. ASSUME NEW y \in U PROVE x <= y
  <2>1. OpToRel(<, Nat) = {ss \in Nat \X Nat : ss[1] < ss[2]} BY DEF OpToRel
  <2>2. x \in Nat /\ y \in Nat BY <1>1
  <2>3. <<y, x>> \notin {ss \in Nat \X Nat : ss[1] < ss[2]} BY <1>2, <2>1
  <2>4. ~(y < x) BY <2>2, <2>3
  <2> QED BY <2>2, <2>4
<1>4. PICK m \in T : x = bound - m BY DEF U
<1>5. ASSUME NEW n \in T PROVE n <= m
  <2>1. bound - n \in U BY DEF U
  <2>2. bound - m <= bound - n BY <1>3, <1>4, <2>1
  <2> QED BY <2>2
<1> QED BY <1>4, <1>5

\* Nobody waits in a circle: of the transactions of a circle, the one that
\* waits for the lock of greatest rank waits for one whose next lock is
\* greater still.
LEMMA OrderedNoCycle ==
  ASSUME \A a \in Actor : TxOK(tx[a])
  PROVE  NoWaitCycle
<1> SUFFICES ASSUME NEW as \in SUBSET Actor, as # {},
                    \A a \in as : \E b \in as : WaitsFor(a, b)
             PROVE  FALSE
  BY DEF NoWaitCycle
<1> DEFINE Next1 == UNION {NextLock(tx[a]) : a \in as}
           T == {Rank[x] : x \in Next1}
<1>1. \A a \in as : NextLock(tx[a]) # {} BY DEF WaitsFor
<1>2. \A a \in Actor : tx[a].todo \subseteq Locks /\ tx[a].held \subseteq Locks
  BY DEF TxOK, TxRecord
<1>3. Next1 \subseteq Locks BY <1>2 DEF NextLock
<1>4. T \subseteq 0..RankBound BY <1>3, RankBounds
<1>5. T # {} BY <1>1
<1> HIDE DEF T
<1>6. PICK m \in T : \A n \in T : n <= m BY <1>4, <1>5, RankBounds, Greatest
<1>7. PICK a \in as : \E x \in NextLock(tx[a]) : m = Rank[x] BY DEF T
<1>15. PICK x \in NextLock(tx[a]) : m = Rank[x] BY <1>7
<1>8. PICK b \in as : WaitsFor(a, b) OBVIOUS
<1>9. PICK z \in NextLock(tx[a]) : z \in tx[b].held BY <1>8 DEF WaitsFor
<1>10. PICK y \in NextLock(tx[b]) : TRUE BY <1>1
<1>11. Rank[z] < Rank[y] BY <1>9, <1>10 DEF TxOK, LocksOK, NextLock
<1>12. Rank[x] <= Rank[z] BY <1>15, <1>9 DEF NextLock
<1>13. Rank[y] <= Rank[x] BY <1>6, <1>15, <1>10 DEF T
<1>14. Rank[x] \in Nat /\ Rank[y] \in Nat /\ Rank[z] \in Nat
  <2>1. x \in Locks /\ y \in Locks /\ z \in Locks
    BY <1>2, <1>15, <1>9, <1>10 DEF NextLock
  <2> QED BY <2>1, RankBounds
<1> QED BY <1>11, <1>12, <1>13, <1>14
-----------------------------------------------------------------------------
(* Requests, their rows and their locks.                                   *)

LEMMA TheServiceOf ==
  ASSUME NEW op, NEW v, op.services = {v}
  PROVE  TheService(op) = v
BY DEF TheService

LEMMA ConsistentLocal ==
  ASSUME NEW v
  PROVE  Consistent(v) <=>
           \/ RowsOf(v) = {} /\ current[v] = NoStream
           \/ \E r : RowsOf(v) = {r} /\ current[v] = r.stream
BY DEF Consistent, RowsOf

\* A request is well formed when it arrives.
LEMMA RequestsOK ==
  ASSUME TablesOK, NEW kind \in Kind, NEW op \in Requests(kind)
  PROVE  RequestOK(op) /\ op.kind # "none" /\ (op.kind = "create" => NewId(op.stream))
<1>0. present \subseteq Service /\ Existing \subseteq Stream BY DEF TablesOK, Existing
<1>1. ASSUME NEW v \in Service, NEW s \in Stream \cup {NoStream}, NEW role \in Role \cup {"none"},
             NEW e \in Stream \cup {NoStream, AnyStream},
             op = Operation(kind, {v}, s, role, e, {}),
             kind \in {"assign", "unassign", "deleteService", "retry", "heartbeat"},
             kind \in {"assign", "retry"} => s \in Stream,
             kind = "assign" => role \in Role
      PROVE  RequestOK(op) /\ op.kind \notin {"none", "create"}
  BY <1>1 DEF RequestOK, OpRecord, Kind, Single, Operation
<1>2. CASE kind = "assign"
  <2>1. PICK v \in present, s \in Existing, role \in Roles, e \in Expectations :
          op = Operation(kind, {v}, s, role, e, {})
    BY <1>2 DEF Requests, Operation
  <2> QED BY <1>0, <1>1, <1>2, <2>1, LocksAssumption
<1>3. CASE kind = "unassign"
  <2>1. PICK v \in present, e \in Expectations :
          op = Operation(kind, {v}, NoStream, "none", e, {})
    BY <1>3 DEF Requests, Operation
  <2> QED BY <1>0, <1>1, <1>3, <2>1, LocksAssumption
<1>4. CASE kind = "deleteService"
  <2>1. PICK v \in present : op = Operation(kind, {v}, NoStream, "none", AnyStream, {})
    BY <1>4 DEF Requests, Operation
  <2> QED BY <1>0, <1>1, <1>4, <2>1
<1>5. CASE kind = "retry"
  <2>1. PICK v \in present, s \in Stream : op = Operation(kind, {v}, s, "none", AnyStream, {})
    BY <1>5 DEF Requests, Operation
  <2> QED BY <1>0, <1>1, <1>5, <2>1
<1>6. CASE kind = "heartbeat"
  <2>1. PICK v \in present, s \in Stream \cup {NoStream} :
          op = Operation(kind, {v}, s, "none", AnyStream, {})
    BY <1>6 DEF Requests, Operation
  <2> QED BY <1>0, <1>1, <1>6, <2>1
<1>7. CASE kind = "deleteStream"
  <2>1. PICK s \in Existing : op = Operation(kind, {}, s, "none", AnyStream, {})
    BY <1>7 DEF Requests, Operation
  <2> QED BY <1>0, <1>7, <2>1 DEF RequestOK, OpRecord, Kind, Single, Operation
<1>8. CASE kind = "create"
  <2>1. PICK vs \in Reservations, s \in FreshIds :
          op = Operation(kind, vs, s, "none", AnyStream, {})
    BY <1>8 DEF Requests, Operation
  <2>2. /\ s \in Stream /\ NewId(s)
        /\ vs \in SUBSET Service
        /\ CreateTypes \subseteq TypesOf(vs)
        /\ TypesOf(vs) \subseteq StartTypes
        /\ \A v, w \in vs : TypeOf[v] = TypeOf[w] => v = w
    BY <1>0 DEF FreshIds, Reservations
  <2>3. /\ op.kind = "create" /\ op.stream = s /\ op.services = vs
        /\ op \in OpRecord
    BY <1>8, <2>1, <2>2 DEF OpRecord, Kind, Operation
  <2> QED BY <2>2, <2>3 DEF RequestOK, Single
<1>9. CASE kind = "claim"
  <2>1. PICK s \in Existing, m \in {{}} \cup {{v} : v \in present} :
          op = Operation(kind, ServicesOf(PrimariesOn(s)) \cup m, s, "none", AnyStream, m)
    BY <1>9 DEF Requests, Operation
  <2>2. ServicesOf(PrimariesOn(s)) \subseteq Service
    BY DEF ServicesOf, PrimariesOn, RowsOn, TablesOK, Row
  <2>3. PICK vs : vs = ServicesOf(PrimariesOn(s)) \cup m OBVIOUS
  <2>4. vs \subseteq Service /\ m \subseteq vs /\ m \subseteq Service
        /\ (m = {} \/ \E v \in Service : m = {v})
    BY <1>0, <2>2, <2>3
  <2>5. /\ op.kind = "claim" /\ op.stream = s /\ op.services = vs /\ op.materialize = m
        /\ op \in OpRecord
    BY <1>0, <1>9, <2>1, <2>3, <2>4 DEF OpRecord, Kind, Operation
  <2>6. op.materialize \subseteq op.services
        /\ (op.materialize = {} \/ \E v \in Service : op.materialize = {v})
    BY <2>4, <2>5
  <2> QED BY <1>0, <2>5, <2>6 DEF RequestOK, Single
<1> QED BY <1>2, <1>3, <1>4, <1>5, <1>6, <1>7, <1>8, <1>9 DEF Kind

LEMMA DiscoverRowsSub ==
  ASSUME NEW op
  PROVE  DiscoverRows(op) \subseteq rows
BY DEF DiscoverRows

\* No service has two rows.
LEMMA OneRow ==
  ASSUME TablesAgree, TablesOK, NEW q \in rows, NEW r \in rows, q.service = r.service
  PROVE  q = r
<1>1. q.service \in Service BY DEF TablesOK, Row
<1>2. q \in RowsOf(q.service) /\ r \in RowsOf(q.service) BY DEF RowsOf
<1> QED BY <1>1, <1>2 DEF TablesAgree, Consistent

\* The locks a transaction needs are locks.
LEMMA LocksOfSub ==
  ASSUME NEW t \in TxRecord
  PROVE  LocksOf(t) \subseteq Locks
<1>1. StreamLocks(t) \subseteq Stream BY DEF StreamLocks
<1>2. ServiceLocks(t) \subseteq Service
  BY DEF ServiceLocks, TxRecord, OpRecord, ServicesOf, Row
<1>3. t.rows \subseteq Row BY DEF TxRecord
<1> QED BY <1>1, <1>2, <1>3 DEF LocksOf, Locks

\* Which locks these are.
LEMMA LocksOfMembers ==
  ASSUME NEW t
  PROVE  /\ \A s : StreamRow(s) \in LocksOf(t) <=> s \in StreamLocks(t)
         /\ \A v : ServiceRow(v) \in LocksOf(t) <=> v \in ServiceLocks(t)
         /\ \A r : AssignmentRow(r) \in LocksOf(t) <=> r \in t.rows
<1>1. /\ \A s, z : StreamRow(s) = StreamRow(z) => s = z
      /\ \A v, w : ServiceRow(v) = ServiceRow(w) => v = w
      /\ \A q, r : AssignmentRow(q) = AssignmentRow(r) => q = r
  BY DEF StreamRow, ServiceRow, AssignmentRow
<1>2. \A s, v, r : /\ StreamRow(s) # ServiceRow(v)
                   /\ StreamRow(s) # AssignmentRow(r)
                   /\ ServiceRow(v) # AssignmentRow(r)
  BY DEF StreamRow, ServiceRow, AssignmentRow
<1>3. \A s : StreamRow(s) \in LocksOf(t) <=> s \in StreamLocks(t)
  BY <1>1, <1>2 DEF LocksOf
<1>4. \A v : ServiceRow(v) \in LocksOf(t) <=> v \in ServiceLocks(t)
  BY <1>1, <1>2 DEF LocksOf
<1>5. \A r : AssignmentRow(r) \in LocksOf(t) <=> r \in t.rows
  BY <1>1, <1>2 DEF LocksOf
<1> QED BY <1>3, <1>4, <1>5
-----------------------------------------------------------------------------
(* A decision stays right while its locks are held.                        *)

\* A step that changes the tables only at the services vs and the streams ss.
Touches(vs, ss) ==
  /\ \A r \in rows : r \notin rows' => r.service \in vs
  /\ \A r \in rows' : r \notin rows => r.service \in vs /\ r.stream \in ss
  /\ \A v \in Service : current'[v] # current[v] =>
       v \in vs /\ current'[v] \in ss \cup {NoStream}
  /\ \A s \in Stream : phase'[s] # phase[s] => s \in ss
  /\ \A v \in Service : (v \in present') # (v \in present) => v \in vs

\* What transaction t locked is not touched.
Spares(t, vs, ss) ==
  /\ ServiceLocks(t) \cap vs = {}
  /\ StreamLocks(t) \cap ss = {}
  /\ t.op.kind = "create" => t.op.stream \notin ss

LEMMA LockedKeys ==
  ASSUME NEW t, TxOK(t), t.op.kind # "none"
  PROVE  /\ ServiceLocks(t) \subseteq Service
         /\ t.op.services \subseteq ServiceLocks(t)
         /\ \A r \in t.rows : r.service \in ServiceLocks(t)
         /\ t.holders \subseteq ServiceLocks(t)
         /\ t.op.kind # "create" /\ t.op.stream \in Stream => t.op.stream \in StreamLocks(t)
         /\ t.op.kind # "create" /\ t.owner \in Stream => t.owner \in StreamLocks(t)
         /\ t.op.kind # "create" => \A r \in t.rows : r.stream \in StreamLocks(t)
<1>1. /\ t.op.services \subseteq Service /\ t.holders \subseteq Service /\ t.rows \subseteq Row
  BY DEF TxOK, TxRecord, OpRecord
<1>2. \A r \in t.rows : r.service \in Service /\ r.stream \in Stream BY <1>1 DEF Row
<1> QED BY <1>1, <1>2 DEF ServiceLocks, StreamLocks, ServicesOf

LEMMA StableRows ==
  ASSUME TablesOK, TablesOK', NEW t, TxOK(t), t.op.kind # "none",
         NEW vs, NEW ss, Touches(vs, ss), Spares(t, vs, ss)
  PROVE  /\ \A v \in ServiceLocks(t) :
              /\ {r \in rows' : r.service = v} = {r \in rows : r.service = v}
              /\ current'[v] = current[v]
              /\ v \in present' <=> v \in present
              /\ Consistent(v)' <=> Consistent(v)
         /\ \A s \in StreamLocks(t) : phase'[s] = phase[s]
<1>1. ServiceLocks(t) \subseteq Service /\ StreamLocks(t) \subseteq Stream
  BY LockedKeys DEF StreamLocks
<1>2. ASSUME NEW v \in ServiceLocks(t)
      PROVE  /\ {r \in rows' : r.service = v} = {r \in rows : r.service = v}
             /\ current'[v] = current[v]
             /\ v \in present' <=> v \in present
             /\ Consistent(v)' <=> Consistent(v)
  <2>1. v \in Service /\ v \notin vs BY <1>1 DEF Spares
  <2>2. \A r : r.service = v => (r \in rows' <=> r \in rows) BY <2>1 DEF Touches
  <2>3. {r \in rows' : r.service = v} = {r \in rows : r.service = v} BY <2>2
  <2>4. current'[v] = current[v] BY <2>1 DEF Touches
  <2>5. v \in present' <=> v \in present BY <2>1 DEF Touches
  <2>6. Consistent(v)' <=> Consistent(v)
    <3>1. PICK R : R = {r \in rows : r.service = v} OBVIOUS
    <3>2. Consistent(v) <=> \/ R = {} /\ current[v] = NoStream
                            \/ \E r \in R : R = {r} /\ current[v] = r.stream
      BY <3>1 DEF Consistent, RowsOf
    <3>3. Consistent(v)' <=> \/ R = {} /\ current'[v] = NoStream
                             \/ \E r \in R : R = {r} /\ current'[v] = r.stream
      BY <2>3, <3>1 DEF Consistent, RowsOf
    <3> QED BY <2>4, <3>2, <3>3
  <2> QED BY <2>3, <2>4, <2>5, <2>6
<1>3. \A s \in StreamLocks(t) : phase'[s] = phase[s]
  BY <1>1 DEF Spares, Touches
<1> QED BY <1>2, <1>3

LEMMA StableDiscovery ==
  ASSUME TablesOK, TablesOK', TablesAgree, NEW t, TxOK(t), t.op.kind # "none",
         NEW vs, NEW ss, Touches(vs, ss), Spares(t, vs, ss),
         t.rows = DiscoverRows(t.op), t.holders = DiscoverHolders(t.op)
  PROVE  /\ DiscoverRows(t.op)' = DiscoverRows(t.op)
         /\ DiscoverHolders(t.op)' = DiscoverHolders(t.op)
<1> DEFINE op == t.op
<1>0. op \in OpRecord BY DEF TxOK, RequestOK
<1>1. ASSUME NEW r \in DiscoverRows(op) PROVE r \in DiscoverRows(op)'
  <2>1. r \in t.rows /\ r \in rows BY DEF DiscoverRows
  <2>2. r.service \in ServiceLocks(t) BY <2>1, LockedKeys
  <2>3. r \in rows' BY <2>1, <2>2 DEF Touches, Spares
  <2> QED BY <2>3 DEF DiscoverRows
<1>2. ASSUME NEW r, r \in DiscoverRows(op)' PROVE r \in DiscoverRows(op)
  <2>1. r \in rows' /\ op.kind # "create" BY <1>2 DEF DiscoverRows
  <2>2. r.stream \in Stream BY <2>1 DEF TablesOK, Row
  <2>3. r.service \in op.services \/ r.stream = op.stream BY <1>2 DEF DiscoverRows
  <2>4. r \in rows
    <3>1. SUFFICES ASSUME r \notin rows PROVE FALSE OBVIOUS
    <3>2. r.service \in vs /\ r.stream \in ss BY <2>1, <3>1 DEF Touches
    <3>3. CASE r.service \in op.services BY <3>2, <3>3, LockedKeys DEF Spares
    <3>4. CASE r.stream = op.stream BY <2>1, <2>2, <3>2, <3>4, LockedKeys DEF Spares
    <3> QED BY <2>3, <3>3, <3>4
  <2> QED BY <1>2, <2>4 DEF DiscoverRows
<1>3. DiscoverRows(op)' = DiscoverRows(op) BY <1>1, <1>2
<1>4. CASE op.kind # "deleteStream" BY <1>3, <1>4 DEF DiscoverHolders
<1>5. CASE op.kind = "deleteStream"
  <2>0. op.stream \in Stream /\ op.stream \notin ss /\ op.stream # NoStream
    BY <1>5, LockedKeys, AssignmentAssumption DEF TxOK, RequestOK, Spares
  <2>1. ASSUME NEW v \in DiscoverHolders(op) PROVE v \in DiscoverHolders(op)'
    <3>1. v \in ServiceLocks(t) /\ v \in present /\ current[v] = op.stream
      BY LockedKeys DEF DiscoverHolders
    <3>2. v \in present' /\ current'[v] = op.stream BY <3>1, StableRows
    <3> QED BY <1>5, <3>2 DEF DiscoverHolders
  <2>2. ASSUME NEW v, v \in DiscoverHolders(op)' PROVE v \in DiscoverHolders(op)
    <3>1. v \in present' /\ current'[v] = op.stream /\ v \in Service
      BY <2>2 DEF DiscoverHolders, TablesOK
    <3>2. current[v] = op.stream BY <2>0, <3>1 DEF Touches
    <3>3. v \in present
      <4>1. SUFFICES ASSUME v \notin present PROVE FALSE OBVIOUS
      <4>2. RowsOf(v) = {} /\ Consistent(v) BY <3>1, <4>1 DEF TablesAgree
      <4>3. current[v] = NoStream BY <4>2 DEF Consistent
      <4> QED BY <2>0, <3>2, <4>3
    <3> QED BY <1>5, <3>2, <3>3 DEF DiscoverHolders
  <2> QED BY <1>3, <2>1, <2>2
<1> QED BY <1>4, <1>5

LEMMA StableRevalidation ==
  ASSUME TablesOK, TablesOK', TablesAgree, NEW t, TxOK(t), t.op.kind # "none",
         NEW vs, NEW ss, Touches(vs, ss), Spares(t, vs, ss), Revalidated(t)
  PROVE  Revalidated(t)'
<1>1. Single(t.op) => TheService(t.op) \in ServiceLocks(t)
  BY TheServiceOf, LockedKeys DEF TxOK, RequestOK
<1>2. Single(t.op) => current'[TheService(t.op)] = t.owner
  BY <1>1, StableRows DEF Revalidated
<1>3. t.rows = DiscoverRows(t.op) /\ t.holders = DiscoverHolders(t.op)
  BY DEF Revalidated
<1> QED BY <1>2, <1>3, StableDiscovery DEF Revalidated

\* What a request about one service reads is under its locks.
LEMMA StableSingle ==
  ASSUME TablesOK, TablesOK', TablesAgree, NEW t, TxOK(t), Single(t.op),
         NEW vs, NEW ss, Touches(vs, ss), Spares(t, vs, ss), Revalidated(t)
  PROVE  /\ TheService(t.op) \in ServiceLocks(t)
         /\ current'[TheService(t.op)] = current[TheService(t.op)]
         /\ Consistent(TheService(t.op))' <=> Consistent(TheService(t.op))
         /\ Expected(t.op)' <=> Expected(t.op)
         /\ AlreadyAssigned(t.op)' <=> AlreadyAssigned(t.op)
         /\ MayLeave(TheService(t.op))' <=> MayLeave(TheService(t.op))
         /\ Replaced(t.op)' = Replaced(t.op)
         /\ t.op.stream \in Stream => phase'[t.op.stream] = phase[t.op.stream]
<1>0. t.op.kind \notin {"none", "create"} BY DEF Single
<1>1. PICK v : v = TheService(t.op) OBVIOUS
<1>2. v \in ServiceLocks(t) /\ v \in Service
  BY <1>0, <1>1, TheServiceOf, LockedKeys DEF TxOK, RequestOK
<1>3. /\ {r \in rows' : r.service = v} = {r \in rows : r.service = v}
      /\ current'[v] = current[v]
      /\ Consistent(v)' <=> Consistent(v)
  BY <1>0, <1>2, StableRows
<1>4. Expected(t.op)' <=> Expected(t.op) BY <1>1, <1>3 DEF Expected
<1>5. AlreadyAssigned(t.op)' <=> AlreadyAssigned(t.op)
  BY <1>1, <1>3 DEF AlreadyAssigned, RowsOf
<1>6. MayLeave(v)' <=> MayLeave(v)
  <2>1. current[v] = t.owner BY <1>1 DEF Revalidated
  <2>2. CASE current[v] = NoStream BY <1>3, <2>2 DEF MayLeave
  <2>3. CASE current[v] # NoStream
    <3>1. current[v] \in Stream BY <1>2, <2>3 DEF TablesOK
    <3>2. phase'[current[v]] = phase[current[v]]
      BY <1>0, <2>1, <3>1, LockedKeys, StableRows
    <3> QED BY <1>3, <3>2 DEF MayLeave
  <2> QED BY <2>2, <2>3
<1>7. Replaced(t.op)' = Replaced(t.op)
  <2>1. DiscoverRows(t.op)' = DiscoverRows(t.op)
    BY <1>0, StableDiscovery DEF Revalidated
  <2> QED BY <2>1 DEF Replaced
<1>8. t.op.stream \in Stream => phase'[t.op.stream] = phase[t.op.stream]
  BY <1>0, LockedKeys, StableRows
<1> QED BY <1>1, <1>2, <1>3, <1>4, <1>5, <1>6, <1>7, <1>8

LEMMA StableDecision ==
  ASSUME TablesOK, TablesOK', TablesAgree, NEW t, TxOK(t), t.op.kind # "none",
         NEW vs, NEW ss, Touches(vs, ss), Spares(t, vs, ss), Decided(t)
  PROVE  Decided(t)'
<1>0. Revalidated(t) /\ Allowed(t) /\ t.plan = PlanOf(t) BY DEF Decided
<1>1. Revalidated(t)' BY <1>0, StableRevalidation
<1>2. t.rows = DiscoverRows(t.op) /\ DiscoverRows(t.op)' = DiscoverRows(t.op)
  BY <1>0, StableDiscovery DEF Revalidated
<1>3. RequestOK(t.op) BY DEF TxOK
<1>4. \A r \in t.rows : Consistent(r.service)' <=> Consistent(r.service)
  BY LockedKeys, StableRows
<1>5. CASE t.op.kind = "assign"
  <2>0. Single(t.op) /\ t.op.stream \in Stream BY <1>3, <1>5 DEF Single, RequestOK
  <2>1. phase'[t.op.stream] = phase[t.op.stream] BY <1>0, <2>0, StableSingle
  <2>2. \A r \in Replaced(t.op) : Consistent(r.service)' <=> Consistent(r.service)
    BY <1>2, <1>4 DEF Replaced
  <2>3. Replaced(t.op)' = Replaced(t.op) BY <1>0, <2>0, StableSingle
  <2>4. /\ Exists(t.op.stream)' <=> Exists(t.op.stream)
        /\ Protected(t.op.stream)' <=> Protected(t.op.stream)
    BY <2>1 DEF Exists, Protected
  <2>5. MayAssign(t.op) BY <1>0, <1>5 DEF Allowed
  <2>6. /\ Consistent(TheService(t.op))' <=> Consistent(TheService(t.op))
        /\ Expected(t.op)' <=> Expected(t.op)
        /\ AlreadyAssigned(t.op)' <=> AlreadyAssigned(t.op)
        /\ MayLeave(TheService(t.op))' <=> MayLeave(TheService(t.op))
    BY <1>0, <2>0, StableSingle
  <2>7. MayAssign(t.op)' BY <2>2, <2>3, <2>4, <2>5, <2>6 DEF MayAssign
  <2>8. PlanOf(t)' = PlanOf(t) BY <1>5, <2>3, <2>6 DEF PlanOf
  <2> QED BY <1>0, <1>1, <1>5, <2>7, <2>8 DEF Decided, Allowed
<1>6. CASE t.op.kind \in {"unassign", "deleteService"}
  <2>0. Single(t.op) BY <1>6 DEF Single
  <2>1. MayUnassign(t.op) BY <1>0, <1>6 DEF Allowed
  <2>2. MayUnassign(t.op)' BY <1>0, <2>0, <2>1, StableSingle DEF MayUnassign
  <2>3. PlanOf(t)' = PlanOf(t) BY <1>6 DEF PlanOf
  <2> QED BY <1>0, <1>1, <1>6, <2>2, <2>3 DEF Decided, Allowed
<1>7. CASE t.op.kind = "retry"
  <2>0. Single(t.op) /\ t.op.stream \in Stream BY <1>3, <1>7 DEF Single, RequestOK
  <2>1. MayRetry(t.op) BY <1>0, <1>7 DEF Allowed
  <2>2. MayRetry(t.op)' BY <1>0, <2>0, <2>1, StableSingle DEF MayRetry, Exists
  <2>3. PlanOf(t)' = PlanOf(t) BY <1>7 DEF PlanOf
  <2> QED BY <1>0, <1>1, <1>7, <2>2, <2>3 DEF Decided, Allowed
<1>8. CASE t.op.kind = "heartbeat"
  <2>0. Single(t.op) BY <1>8 DEF Single
  <2>1. MayReport(t.op) BY <1>0, <1>8 DEF Allowed
  <2>2. MayReport(t.op)' BY <1>0, <2>0, <2>1, StableSingle DEF MayReport
  <2>3. PlanOf(t)' = PlanOf(t) BY <1>8 DEF PlanOf
  <2> QED BY <1>0, <1>1, <1>8, <2>2, <2>3 DEF Decided, Allowed
<1>9. CASE t.op.kind = "deleteStream"
  <2>0. t.op.stream \in Stream BY <1>3, <1>9 DEF RequestOK
  <2>1. MayDeleteStream(t) BY <1>0, <1>9 DEF Allowed
  <2>2. phase'[t.op.stream] = phase[t.op.stream] BY <1>9, <2>0, LockedKeys, StableRows
  <2>3. \A v \in t.holders : Consistent(v)' <=> Consistent(v) BY LockedKeys, StableRows
  <2>4. MayDeleteStream(t)' BY <2>1, <2>2, <2>3 DEF MayDeleteStream, Exists, Protected
  <2>5. PlanOf(t)' = PlanOf(t) BY <1>9 DEF PlanOf
  <2> QED BY <1>0, <1>1, <1>9, <2>4, <2>5 DEF Decided, Allowed
<1>10. CASE t.op.kind = "create"
  <2>0. t.op.stream \in Stream BY <1>3, <1>10 DEF RequestOK
  <2>1. MayCreate(t.op) BY <1>0, <1>10 DEF Allowed
  <2>2. phase'[t.op.stream] = phase[t.op.stream] BY <1>10, <2>0 DEF Spares, Touches
  <2>3. \A v \in t.op.services : /\ Consistent(v)' <=> Consistent(v)
                                 /\ current'[v] = current[v]
    BY LockedKeys, StableRows
  <2>4. MayCreate(t.op)' BY <2>1, <2>2, <2>3 DEF MayCreate
  <2>5. PlanOf(t)' = PlanOf(t) BY <1>10 DEF PlanOf
  <2> QED BY <1>0, <1>1, <1>10, <2>4, <2>5 DEF Decided, Allowed
<1>11. CASE t.op.kind = "claim"
  <2>0. t.op.stream \in Stream BY <1>3, <1>11 DEF RequestOK
  <2>1. MayClaim(t.op) BY <1>0, <1>11 DEF Allowed
  <2>2. phase'[t.op.stream] = phase[t.op.stream] BY <1>11, <2>0, LockedKeys, StableRows
  <2>3. PrimariesOn(t.op.stream)' = PrimariesOn(t.op.stream)
    <3>1. PrimariesOn(t.op.stream) =
            {r \in DiscoverRows(t.op) : r.stream = t.op.stream /\ r.role = "primary"}
      BY <1>11 DEF PrimariesOn, RowsOn, DiscoverRows
    <3>2. PrimariesOn(t.op.stream)' =
            {r \in DiscoverRows(t.op)' : r.stream = t.op.stream /\ r.role = "primary"}
      BY <1>11 DEF PrimariesOn, RowsOn, DiscoverRows
    <3> QED BY <1>2, <3>1, <3>2
  <2>4. PrimariesOn(t.op.stream) \subseteq t.rows
    BY <1>2, <1>11 DEF PrimariesOn, RowsOn, DiscoverRows
  <2>5. PICK actual : actual = ServicesOf(PrimariesOn(t.op.stream)) OBVIOUS
  <2>6. ServicesOf(PrimariesOn(t.op.stream))' = actual BY <2>3, <2>5 DEF ServicesOf
  <2>7. \A v \in actual : Consistent(v)' <=> Consistent(v)
    BY <1>4, <2>4, <2>5 DEF ServicesOf
  <2>8. \A v \in t.op.materialize : /\ Consistent(v)' <=> Consistent(v)
                                    /\ current'[v] = current[v]
    BY <1>3, <1>11, LockedKeys, StableRows DEF RequestOK
  <2>9. /\ Exists(t.op.stream)' <=> Exists(t.op.stream)
        /\ Protected(t.op.stream)' <=> Protected(t.op.stream)
    BY <2>2 DEF Exists, Protected
  <2>10. MayClaim(t.op)'
    <3>1. /\ Exists(t.op.stream) /\ ~Protected(t.op.stream)
          /\ \A v \in actual : Consistent(v) /\ \A w \in actual : TypeOf[v] = TypeOf[w] => v = w
          /\ \A v \in t.op.materialize :
               /\ TypeOf[v] \notin TypesOf(actual)
               /\ Consistent(v)
               /\ current[v] \in {NoStream, t.op.stream}
          /\ t.op.services = actual \cup t.op.materialize
          /\ StartTypes \subseteq TypesOf(t.op.services)
      BY <2>1, <2>5 DEF MayClaim
    <3>2. /\ Exists(t.op.stream)' /\ ~Protected(t.op.stream)'
          /\ \A v \in actual : Consistent(v)' /\ \A w \in actual : TypeOf[v] = TypeOf[w] => v = w
          /\ \A v \in t.op.materialize :
               /\ TypeOf[v] \notin TypesOf(actual)
               /\ Consistent(v)'
               /\ current'[v] \in {NoStream, t.op.stream}
          /\ t.op.services = actual \cup t.op.materialize
          /\ StartTypes \subseteq TypesOf(t.op.services)
      BY <2>7, <2>8, <2>9, <3>1
    <3> QED BY <2>6, <3>2 DEF MayClaim
  <2>11. PlanOf(t)' = PlanOf(t) BY <1>11 DEF PlanOf
  <2> QED BY <1>0, <1>1, <1>11, <2>10, <2>11 DEF Decided, Allowed
<1> QED BY <1>3, <1>5, <1>6, <1>7, <1>8, <1>9, <1>10, <1>11 DEF RequestOK, OpRecord, Kind
-----------------------------------------------------------------------------
(* What a transaction writes.                                              *)

NewRow(op, v) == [stream |-> op.stream, service |-> v, role |-> InsertedRole(op)]

\* The tables after the commit of t.
Committed(t) ==
  /\ rows' = (rows \ t.plan.delete) \cup {NewRow(t.op, v) : v \in t.plan.insert}
  /\ current' = [v \in Service |->
       IF v \in t.plan.insert THEN t.op.stream
       ELSE IF v \in t.plan.clear THEN NoStream
       ELSE IF t.op.kind = "heartbeat" /\ v \in t.op.services /\ t.op.stream # NoStream
         THEN t.op.stream
         ELSE current[v]]
  /\ phase' = IF t.op.kind \in {"deleteStream", "create", "claim", "retry"}
                THEN [phase EXCEPT ![t.op.stream] = PhaseAfter(t.op)] ELSE phase
  /\ present' = IF t.op.kind = "deleteService" THEN present \ t.op.services ELSE present

\* A plan deletes every row of the services it sets free or assigns, and no
\* other; it assigns and frees different services, all of them locked.
Covers(t) ==
  LET plan == t.plan IN
  /\ \A v \in plan.insert \cup plan.clear : RowsOf(v) \subseteq plan.delete
  /\ \A r \in plan.delete : r \in rows /\ r.service \in plan.insert \cup plan.clear
  /\ plan.insert \cap plan.clear = {}
  /\ plan.insert \cup plan.clear \subseteq ServiceLocks(t)
  /\ plan.insert # {} => /\ t.op.kind \in {"assign", "create", "claim"}
                         /\ t.op.stream \in Stream
                         /\ InsertedRole(t.op) \in Role
  /\ t.op.kind = "deleteService" => plan.clear = t.op.services
  /\ t.op.kind = "heartbeat" /\ t.op.stream # NoStream =>
       \A v \in t.op.services : current[v] = t.op.stream

\* A service whose rows and owner agree has one row, or none and no owner.
LEMMA AgreedRows ==
  ASSUME TablesOK, TablesAgree, NEW v \in Service
  PROVE  /\ current[v] = NoStream => RowsOf(v) = {}
         /\ \A r \in RowsOf(v) : RowsOf(v) = {r} /\ r.stream = current[v] /\ r.service = v
<1>1. Consistent(v) BY DEF TablesAgree
<1>2. \A r \in RowsOf(v) : r \in Row /\ r.service = v BY DEF RowsOf, TablesOK
<1>3. \A r \in RowsOf(v) : r.stream \in Stream /\ r.stream # NoStream
  BY <1>2, AssignmentAssumption DEF Row
<1> QED BY <1>1, <1>2, <1>3 DEF Consistent

LEMMA PlanCovers ==
  ASSUME TablesOK, TablesAgree, NEW t, TxOK(t), t.op.kind # "none", Decided(t)
  PROVE  Covers(t)
<1>0. /\ Allowed(t) /\ t.plan = PlanOf(t) /\ t.rows = DiscoverRows(t.op)
      /\ t.holders = DiscoverHolders(t.op) /\ RequestOK(t.op)
  BY DEF Decided, Revalidated, TxOK
<1>1. t.op \in OpRecord BY <1>0 DEF RequestOK
<1>2. t.rows \subseteq rows BY <1>0, DiscoverRowsSub
<1>3. t.op.kind # "create" => \A v \in t.op.services : RowsOf(v) \subseteq t.rows
  BY <1>0 DEF RowsOf, DiscoverRows
<1>4. \A r \in t.rows : RowsOf(r.service) = {r}
  <2>1. \A r \in t.rows : r.service \in Service /\ r \in RowsOf(r.service)
    BY <1>2 DEF TablesOK, Row, RowsOf
  <2> QED BY <2>1, AgreedRows
<1>5. CASE t.plan = NoPlan /\ t.op.kind \in {"assign", "retry"}
  BY <1>5 DEF NoPlan, Covers
<1>6. CASE t.op.kind = "assign" /\ ~AlreadyAssigned(t.op)
  <2>1. t.plan = [delete |-> t.rows, clear |-> ServicesOf(Replaced(t.op)),
                  insert |-> t.op.services]
    BY <1>0, <1>6 DEF PlanOf
  <2>2. Replaced(t.op) = {r \in t.rows : r.service \notin t.op.services} BY <1>0 DEF Replaced
  <2>3. \A v \in ServicesOf(Replaced(t.op)) : \E r \in t.rows : r.service = v /\ v \notin t.op.services
    BY <2>2 DEF ServicesOf
  <2>4. \A v \in t.plan.insert \cup t.plan.clear : RowsOf(v) \subseteq t.plan.delete
    BY <1>3, <1>4, <1>6, <2>1, <2>3
  <2>5. \A r \in t.plan.delete : r \in rows /\ r.service \in t.plan.insert \cup t.plan.clear
    BY <1>2, <2>1, <2>2 DEF ServicesOf
  <2>6. t.plan.insert \cap t.plan.clear = {} BY <2>1, <2>3
  <2>7. t.plan.insert \cup t.plan.clear \subseteq ServiceLocks(t)
    BY <2>1, <2>3, LockedKeys
  <2>8. t.op.stream \in Stream /\ InsertedRole(t.op) \in Role
    BY <1>0, <1>6 DEF RequestOK, InsertedRole
  <2> QED BY <1>6, <2>4, <2>5, <2>6, <2>7, <2>8 DEF Covers
<1>7. CASE t.op.kind \in {"unassign", "deleteService"}
  <2>1. t.plan = [delete |-> t.rows, clear |-> t.op.services, insert |-> {}]
    BY <1>0, <1>7 DEF PlanOf
  <2>2. \A r \in t.rows : r \in rows /\ r.service \in t.op.services
    BY <1>0, <1>7 DEF DiscoverRows
  <2> QED BY <1>3, <1>7, <2>1, <2>2, LockedKeys DEF Covers
<1>8. CASE t.op.kind = "deleteStream"
  <2>1. t.plan = [delete |-> t.rows, clear |-> t.holders, insert |-> {}]
    BY <1>0, <1>8 DEF PlanOf
  <2>2. ServicesOf(t.rows) = t.holders BY <1>0, <1>8 DEF Allowed, MayDeleteStream
  <2>3. \A v \in t.holders : RowsOf(v) \subseteq t.rows BY <1>4, <2>2 DEF ServicesOf
  <2>4. \A r \in t.rows : r \in rows /\ r.service \in t.holders BY <1>2, <2>2 DEF ServicesOf
  <2> QED BY <1>8, <2>1, <2>3, <2>4, LockedKeys DEF Covers
<1>9. CASE t.op.kind = "create"
  <2>1. t.plan.delete = {} /\ t.plan.clear = {} /\ t.plan.insert = t.op.services
    BY <1>0, <1>9 DEF PlanOf, NoPlan
  <2>2. \A v \in t.op.services : RowsOf(v) = {}
    BY <1>0, <1>1, <1>9, AgreedRows DEF Allowed, MayCreate, OpRecord
  <2>3. t.op.stream \in Stream /\ InsertedRole(t.op) \in Role
    BY <1>0, <1>9 DEF RequestOK, InsertedRole, Role
  <2> QED BY <1>9, <2>1, <2>2, <2>3, LockedKeys DEF Covers
<1>10. CASE t.op.kind = "claim"
  <2>1. /\ t.plan.delete = {r \in t.rows : r.service \in t.op.materialize}
        /\ t.plan.clear = {} /\ t.plan.insert = t.op.materialize
    BY <1>0, <1>10 DEF PlanOf, NoPlan
  <2>2. t.op.materialize \subseteq t.op.services BY <1>0, <1>10 DEF RequestOK
  <2>3. \A v \in t.op.materialize : RowsOf(v) \subseteq t.plan.delete
    BY <1>3, <1>10, <2>1, <2>2 DEF RowsOf
  <2>4. t.op.stream \in Stream /\ InsertedRole(t.op) \in Role
    BY <1>0, <1>10 DEF RequestOK, InsertedRole, Role
  <2> QED BY <1>2, <1>10, <2>1, <2>2, <2>3, <2>4, LockedKeys DEF Covers
<1>11. CASE t.op.kind = "heartbeat"
  <2>1. t.plan = NoPlan BY <1>0, <1>11 DEF PlanOf
  <2>2. MayReport(t.op) BY <1>0, <1>11 DEF Allowed
  <2>3. \A v \in t.op.services : v = TheService(t.op)
    BY <1>0, <1>11, TheServiceOf DEF RequestOK, Single
  <2>4. t.op.stream # NoStream => \A v \in t.op.services : current[v] = t.op.stream
    BY <2>2, <2>3 DEF MayReport
  <2> QED BY <1>11, <2>1, <2>4 DEF NoPlan, Covers
<1>12. t.op.kind = "retry" \/ (t.op.kind = "assign" /\ AlreadyAssigned(t.op)) => t.plan = NoPlan
  BY <1>0 DEF PlanOf
<1> QED BY <1>1, <1>5, <1>6, <1>7, <1>8, <1>9, <1>10, <1>11, <1>12 DEF OpRecord, Kind

LEMMA WriteCommits ==
  ASSUME NEW a \in Actor, Write(a), NEW t, t = tx[a], Covers(t)
  PROVE  Committed(t) /\ tx' = [tx EXCEPT ![a] = Idle]
<1>1. t.plan.delete \subseteq rows BY DEF Covers
<1> QED BY <1>1 DEF Write, Committed, NewRow

\* The rows and the owner of each service after the commit.
LEMMA Written ==
  ASSUME TablesOK, NEW t, TxOK(t), t.op.kind # "none", Covers(t), Committed(t),
         NEW v \in Service
  PROVE  /\ v \in t.plan.insert => RowsOf(v)' = {NewRow(t.op, v)} /\ current'[v] = t.op.stream
         /\ v \in t.plan.clear => RowsOf(v)' = {} /\ current'[v] = NoStream
         /\ v \notin t.plan.insert \cup t.plan.clear =>
              RowsOf(v)' = RowsOf(v) /\ current'[v] = current[v]
<1>1. \A w : NewRow(t.op, w).service = w BY DEF NewRow
<1>2. RowsOf(v)' = {r \in rows : r.service = v /\ r \notin t.plan.delete}
                     \cup {NewRow(t.op, w) : w \in t.plan.insert \cap {v}}
  BY <1>1 DEF RowsOf, Committed
<1>3. CASE v \in t.plan.insert
  <2>1. {r \in rows : r.service = v /\ r \notin t.plan.delete} = {} BY <1>3 DEF Covers, RowsOf
  <2> QED BY <1>2, <1>3, <2>1 DEF Committed, Covers
<1>4. CASE v \in t.plan.clear
  <2>1. {r \in rows : r.service = v /\ r \notin t.plan.delete} = {} BY <1>4 DEF Covers, RowsOf
  <2>2. v \notin t.plan.insert BY <1>4 DEF Covers
  <2> QED BY <1>2, <1>4, <2>1, <2>2 DEF Committed
<1>5. CASE v \notin t.plan.insert \cup t.plan.clear
  <2>1. {r \in rows : r.service = v /\ r \notin t.plan.delete} = RowsOf(v)
    BY <1>5 DEF Covers, RowsOf
  <2>2. current'[v] = current[v] BY <1>5 DEF Committed, Covers
  <2> QED BY <1>2, <1>5, <2>1, <2>2
<1> QED BY <1>3, <1>4, <1>5

LEMMA WrittenTables ==
  ASSUME TablesOK, TablesAgree, NEW t, TxOK(t), t.op.kind # "none", Covers(t), Committed(t),
         ServiceLocks(t) \subseteq present
  PROVE  TablesOK' /\ TablesAgree'
<1>0. t.op \in OpRecord BY DEF TxOK, RequestOK
<1>1. rows' \subseteq Row
  <2>1. \A v \in t.plan.insert : NewRow(t.op, v) \in Row
    <3>1. t.plan.insert \subseteq Service BY LockedKeys DEF Covers
    <3> QED BY <3>1 DEF Covers, NewRow, Row
  <2> QED BY <2>1 DEF TablesOK, Committed
<1>2. current' \in [Service -> Stream \cup {NoStream}]
  <2>1. \A v \in Service : current'[v] \in Stream \cup {NoStream}
    BY <1>0 DEF Committed, TablesOK, Covers, OpRecord
  <2>2. current' = [v \in Service |-> current'[v]] BY DEF Committed
  <2> QED BY <2>1, <2>2
<1>3. phase' \in [Stream -> Phase]
  BY DEF Committed, TablesOK, PhaseAfter, Phase
<1>4. present' \subseteq Service BY DEF Committed, TablesOK
<1>5. ASSUME NEW v \in Service
      PROVE  Consistent(v)' /\ (v \notin present' => RowsOf(v)' = {})
  <2>0. RowsOf(v)' \subseteq rows' /\ Consistent(v) BY DEF RowsOf, TablesAgree
  <2>1. CASE v \in t.plan.insert
    <3>1. RowsOf(v)' = {NewRow(t.op, v)} /\ current'[v] = t.op.stream BY <2>1, Written
    <3>2. NewRow(t.op, v).stream = t.op.stream BY DEF NewRow
    <3>3. v \in present BY <2>1 DEF Covers
    <3>4. present' = present BY <2>1 DEF Covers, Committed
    <3> QED BY <2>0, <3>1, <3>2, <3>3, <3>4 DEF Consistent
  <2>2. CASE v \in t.plan.clear
    BY <2>2, Written DEF Consistent
  <2>3. CASE v \notin t.plan.insert \cup t.plan.clear
    <3>1. RowsOf(v)' = RowsOf(v) /\ current'[v] = current[v] BY <2>3, Written
    <3>2. Consistent(v)' BY <2>0, <3>1 DEF Consistent, RowsOf
    <3>3. v \notin present' => v \notin present BY <2>3 DEF Committed, Covers
    <3> QED BY <3>1, <3>2, <3>3 DEF TablesAgree
  <2> QED BY <2>1, <2>2, <2>3
<1> QED BY <1>1, <1>2, <1>3, <1>4, <1>5 DEF TablesOK, TablesAgree

LEMMA WrittenTouches ==
  ASSUME TablesOK, NEW t, TxOK(t), t.op.kind # "none", Covers(t), Committed(t)
  PROVE  Touches(ServiceLocks(t), {t.op.stream})
<1>1. \A r \in rows : r \notin rows' => r.service \in ServiceLocks(t)
  BY DEF Committed, Covers
<1>2. \A r \in rows' : r \notin rows =>
        r.service \in ServiceLocks(t) /\ r.stream \in {t.op.stream}
  BY DEF Committed, Covers, NewRow
<1>3. \A v \in Service : current'[v] # current[v] =>
        v \in ServiceLocks(t) /\ current'[v] \in {t.op.stream} \cup {NoStream}
  <2>1. \A v \in Service : v \in t.plan.insert \cup t.plan.clear => v \in ServiceLocks(t)
    BY DEF Covers
  <2> QED BY <2>1, Written
<1>4. \A s \in Stream : phase'[s] # phase[s] => s \in {t.op.stream}
  BY DEF Committed, TablesOK
<1>5. \A v \in Service : (v \in present') # (v \in present) => v \in ServiceLocks(t)
  BY LockedKeys DEF Committed
<1> QED BY <1>1, <1>2, <1>3, <1>4, <1>5 DEF Touches
-----------------------------------------------------------------------------
(* The invariant of the transactions.                                      *)

LEMMA IdleOK == TxOK(Idle)
<1>1. NoOp \in OpRecord /\ NoOp.kind = "none" BY DEF NoOp, Operation, OpRecord
<1>2. /\ Idle.pc = "idle" /\ Idle.op = NoOp /\ Idle.held = {} /\ Idle.todo = {} /\ Idle.rows = {}
      /\ Idle.plan = NoPlan
  BY DEF Idle
<1>3. Idle \in TxRecord BY <1>1 DEF Idle, TxRecord, NoPlan, PlanRecord
<1>4. RequestOK(NoOp) BY <1>1 DEF RequestOK, Single
<1> QED BY <1>2, <1>3, <1>4 DEF TxOK, LocksOK

LEMMA SameTables ==
  ASSUME TablesOK, TablesAgree, UNCHANGED <<rows, current, phase, present>>
  PROVE  TablesOK' /\ TablesAgree' /\ Touches({}, {}) /\ \A t : Spares(t, {}, {})
BY DEF TablesOK, TablesAgree, Consistent, RowsOf, Touches, Spares

\* One transaction moves on and the tables stay as they are.
LEMMA TxMoves ==
  ASSUME LocksInv, NEW a \in Actor, NEW n, TxOK(n), tx' = [tx EXCEPT ![a] = n],
         UNCHANGED <<rows, current, phase, present>>,
         \A b \in Actor : b # a => n.held \cap tx[b].held = {},
         \A s \in Stream : StreamRow(s) \in n.held => phase[s] # "absent",
         \A v \in Service : ServiceRow(v) \in n.held => v \in present,
         n.op.kind = "create" =>
           \A b \in Actor : b # a /\ tx[b].op.kind = "create" => tx[b].op.stream # n.op.stream,
         n.pc = "write" => Decided(n)
  PROVE  LocksInv'
<1>0. /\ TablesOK /\ TablesAgree /\ DOMAIN tx = Actor /\ Exclusive /\ HeldFound /\ NewIds
      /\ \A b \in Actor : TxOK(tx[b]) /\ (tx[b].pc = "write" => Decided(tx[b]))
  BY DEF LocksInv
<1>1. TablesOK' /\ TablesAgree' /\ Touches({}, {}) /\ \A t : Spares(t, {}, {})
  BY <1>0, SameTables
<1>2. tx'[a] = n /\ \A b \in Actor : b # a => tx'[b] = tx[b] BY <1>0
<1>3. DOMAIN tx' = Actor /\ \A b \in Actor : TxOK(tx'[b]) BY <1>0, <1>2
<1>4. ASSUME NEW t, TxOK(t), t.pc = "write", Decided(t)
      PROVE  Decided(t)'
  <2>1. t.op.kind # "none" BY <1>4 DEF TxOK, LocksOK
  <2> QED BY <1>0, <1>1, <1>4, <2>1, StableDecision
<1>5. ASSUME NEW b \in Actor, tx'[b].pc = "write" PROVE Decided(tx[b])'
  <2>1. PICK t : t = tx'[b] OBVIOUS
  <2>2. TxOK(t) /\ t.pc = "write" BY <1>3, <1>5, <2>1
  <2>3. Decided(t) BY <1>0, <1>2, <1>5, <2>1
  <2>4. Decided(t)' BY <1>4, <2>2, <2>3
  <2> QED BY <2>1, <2>4
<1>6. Exclusive' BY <1>0, <1>2 DEF Exclusive
<1>7. HeldFound' BY <1>0, <1>2 DEF HeldFound
<1>8. NewIds' BY <1>0, <1>2 DEF NewIds
<1> QED BY <1>1, <1>3, <1>5, <1>6, <1>7, <1>8 DEF LocksInv

LEMMA RollbackInv ==
  ASSUME LocksInv, NEW a \in Actor, Rollback(a)
  PROVE  LocksInv'
<1>1. /\ Idle.held = {} /\ Idle.pc = "idle" /\ Idle.op.kind = "none"
  BY DEF Idle, NoOp, Operation
<1> QED BY <1>1, IdleOK, TxMoves DEF Rollback

LEMMA RequestInv ==
  ASSUME LocksInv, NEW a \in Actor, Request(a)
  PROVE  LocksInv'
<1>0. TablesOK BY DEF LocksInv
<1>11. PICK kind \in Kinds[a] : \E op \in Requests(kind) :
        tx' = [tx EXCEPT ![a] =
                 [Idle EXCEPT !.pc = "discover", !.op = op,
                    !.owner = IF Single(op) THEN current[TheService(op)] ELSE NoStream]]
  BY DEF Request
<1>1. PICK op \in Requests(kind) :
        tx' = [tx EXCEPT ![a] =
                 [Idle EXCEPT !.pc = "discover", !.op = op,
                    !.owner = IF Single(op) THEN current[TheService(op)] ELSE NoStream]]
  BY <1>11
<1>2. kind \in Kind BY LocksAssumption
<1>3. RequestOK(op) /\ op.kind # "none" /\ (op.kind = "create" => NewId(op.stream))
  BY <1>0, <1>1, <1>2, RequestsOK
<1>4. PICK own : own = IF Single(op) THEN current[TheService(op)] ELSE NoStream OBVIOUS
<1>5. own \in Stream \cup {NoStream}
  BY <1>0, <1>3, <1>4, TheServiceOf DEF RequestOK, TablesOK
<1>6. PICK n : n = [Idle EXCEPT !.pc = "discover", !.op = op, !.owner = own] OBVIOUS
<1>7. /\ n.pc = "discover" /\ n.op = op /\ n.rows = {} /\ n.held = {} /\ n.todo = {}
      /\ n \in TxRecord /\ n.plan = NoPlan
  BY <1>3, <1>5, <1>6 DEF Idle, TxRecord, NoPlan, PlanRecord, RequestOK
<1>8. TxOK(n) BY <1>3, <1>7 DEF TxOK, LocksOK
<1>9. tx' = [tx EXCEPT ![a] = n] BY <1>1, <1>4, <1>6
<1>10. n.op.kind = "create" =>
         \A b \in Actor : b # a /\ tx[b].op.kind = "create" => tx[b].op.stream # n.op.stream
  BY <1>3, <1>7 DEF NewId
<1> QED BY <1>7, <1>8, <1>9, <1>10, TxMoves DEF Request

LEMMA DiscoverInv ==
  ASSUME LocksInv, NEW a \in Actor, Discover(a)
  PROVE  LocksInv'
<1>0. TablesOK /\ TablesAgree /\ TxOK(tx[a]) /\ tx[a].pc = "discover" BY DEF LocksInv, Discover
<1>1. PICK t : t = tx[a] OBVIOUS
<1>2. PICK rs, hs : rs = DiscoverRows(t.op) /\ hs = DiscoverHolders(t.op) OBVIOUS
<1>3. rs \subseteq Row /\ hs \subseteq Service
  BY <1>0, <1>2, DiscoverRowsSub DEF TablesOK, DiscoverHolders
<1>4. \A q, r \in rs : q.service = r.service => q = r
  BY <1>0, <1>2, DiscoverRowsSub, OneRow
<1>5. PICK f : f = [t EXCEPT !.rows = rs, !.holders = hs] OBVIOUS
<1>6. f \in TxRecord /\ f.op = t.op /\ f.rows = rs /\ f.holders = hs /\ f.owner = t.owner
      /\ f.held = t.held /\ f.plan = t.plan
  BY <1>0, <1>1, <1>3, <1>5 DEF TxOK, TxRecord
<1>7. PICK locks : locks = LocksOf(f) OBVIOUS
<1>8. locks \subseteq Locks BY <1>6, <1>7, LocksOfSub
<1>9. PICK n : n = [f EXCEPT !.pc = "lock", !.todo = locks] OBVIOUS
<1>10. /\ n \in TxRecord /\ n.op = t.op /\ n.rows = rs /\ n.holders = hs /\ n.owner = t.owner
       /\ n.held = t.held /\ n.pc = "lock" /\ n.todo = locks /\ n.plan = t.plan
  BY <1>6, <1>8, <1>9 DEF TxRecord
<1>11. LocksOf(n) = locks
  BY <1>6, <1>7, <1>10 DEF LocksOf, StreamLocks, ServiceLocks
<1>12. t.held = {} /\ t.op.kind # "none" /\ RequestOK(t.op) /\ t.plan = NoPlan
  BY <1>0, <1>1 DEF TxOK, LocksOK
<1>13. TxOK(n) BY <1>4, <1>10, <1>11, <1>12 DEF TxOK, LocksOK
<1>14. tx' = [tx EXCEPT ![a] = n]
  BY <1>1, <1>2, <1>5, <1>7, <1>9 DEF Discover
<1>15. n.op.kind = "create" =>
         \A b \in Actor : b # a /\ tx[b].op.kind = "create" => tx[b].op.stream # n.op.stream
  BY <1>1, <1>10 DEF LocksInv, NewIds
<1> QED BY <1>10, <1>12, <1>13, <1>14, <1>15, TxMoves DEF Discover

\* Taking the lock of lowest rank keeps what is held before what is not.
LEMMA LockInv ==
  ASSUME LocksInv, NEW a \in Actor, Lock(a)
  PROVE  LocksInv'
<1>0. TxOK(tx[a]) /\ TablesOK BY DEF LocksInv
<1>1. PICK x \in NextLock(tx[a]) :
        /\ ~HeldByOther(a, x)
        /\ IF Found(x)
             THEN /\ tx' = [tx EXCEPT ![a].held = @ \cup {x}, ![a].todo = @ \ {x}]
                  /\ UNCHANGED <<rows, current, phase, present>>
             ELSE Rollback(a)
  BY DEF Lock
<1>2. CASE ~Found(x) BY <1>1, <1>2, RollbackInv
<1>3. CASE Found(x)
  <2>1. PICK t : t = tx[a] OBVIOUS
  <2>2. x \in t.todo /\ (\A y \in t.todo : Rank[x] <= Rank[y]) /\ TxOK(t)
    BY <1>0, <1>1, <2>1 DEF NextLock
  <2>3. /\ t \in TxRecord /\ t.held \subseteq Locks /\ t.todo \subseteq Locks /\ t.rows \subseteq Row
    BY <2>2 DEF TxOK, TxRecord
  <2>4. t.pc = "lock" /\ t.held \cup t.todo = LocksOf(t)
    BY <2>2, <2>3 DEF TxOK, LocksOK, TxRecord
  <2>5. PICK n : n = [t EXCEPT !.held = @ \cup {x}, !.todo = @ \ {x}] OBVIOUS
  <2>6. /\ n \in TxRecord /\ n.op = t.op /\ n.rows = t.rows /\ n.holders = t.holders
        /\ n.owner = t.owner /\ n.pc = "lock" /\ n.held = t.held \cup {x} /\ n.todo = t.todo \ {x}
        /\ n.plan = t.plan
    BY <2>2, <2>3, <2>4, <2>5 DEF TxRecord
  <2>7. LocksOf(n) = LocksOf(t) BY <2>6 DEF LocksOf, StreamLocks, ServiceLocks
  <2>8. \A p \in n.held, y \in n.todo : Rank[p] < Rank[y]
    <3>1. SUFFICES ASSUME NEW y \in n.todo PROVE Rank[x] < Rank[y]
      BY <2>2, <2>6 DEF TxOK, LocksOK
    <3>2. y \in t.todo /\ y # x /\ x \in Locks /\ y \in Locks BY <2>2, <2>3, <2>6
    <3>3. \A r \in Row : x = AssignmentRow(r) \/ y = AssignmentRow(r) => r \in t.rows
      BY <2>2, <2>4, <3>2, LocksOfMembers
    <3>4. Rank[x] # Rank[y] BY <2>2, <2>3, <3>2, <3>3, RankStrict DEF TxOK, LocksOK
    <3>5. Rank[x] \in Nat /\ Rank[y] \in Nat BY <3>2, RankBounds
    <3>6. Rank[x] <= Rank[y] BY <2>2, <3>2
    <3> QED BY <3>4, <3>5, <3>6
  <2>9. TxOK(n)
    <3>1. n.held \cup n.todo = LocksOf(n) BY <2>2, <2>4, <2>6, <2>7
    <3>2. n.op.kind # "none" /\ RequestOK(n.op) /\ n.plan = NoPlan
      BY <2>2, <2>4, <2>6 DEF TxOK, LocksOK
    <3>3. \A q, r \in n.rows : q.service = r.service => q = r BY <2>2, <2>6 DEF TxOK, LocksOK
    <3> QED BY <2>6, <2>8, <3>1, <3>2, <3>3 DEF TxOK, LocksOK
  <2>10. tx' = [tx EXCEPT ![a] = n]
    BY <1>1, <1>3, <2>1, <2>5 DEF LocksInv
  <2>11. \A b \in Actor : b # a => n.held \cap tx[b].held = {}
    BY <1>1, <2>1, <2>6 DEF LocksInv, Exclusive, HeldByOther
  <2>12. \A s \in Stream : StreamRow(s) \in n.held => phase[s] # "absent"
    <3>1. SUFFICES ASSUME NEW s \in Stream, StreamRow(s) = x PROVE phase[s] # "absent"
      BY <2>1, <2>6 DEF LocksInv, HeldFound
    <3>2. x.table = "streams" /\ x.row = s BY <3>1 DEF StreamRow
    <3> QED BY <1>3, <3>2 DEF Found
  <2>13. \A v \in Service : ServiceRow(v) \in n.held => v \in present
    <3>1. SUFFICES ASSUME NEW v \in Service, ServiceRow(v) = x PROVE v \in present
      BY <2>1, <2>6 DEF LocksInv, HeldFound
    <3>2. x.table = "services" /\ x.row = v BY <3>1 DEF ServiceRow
    <3> QED BY <1>3, <3>2 DEF Found
  <2>14. n.op.kind = "create" =>
           \A b \in Actor : b # a /\ tx[b].op.kind = "create" => tx[b].op.stream # n.op.stream
    BY <2>1, <2>6 DEF LocksInv, NewIds
  <2>15. UNCHANGED <<rows, current, phase, present>> BY <1>1, <1>3
  <2> QED BY <2>6, <2>9, <2>10, <2>11, <2>12, <2>13, <2>14, <2>15, TxMoves
<1> QED BY <1>2, <1>3

LEMMA PlanTyped ==
  ASSUME TablesOK, NEW t \in TxRecord
  PROVE  PlanOf(t) \in PlanRecord
<1>1. t.rows \subseteq Row /\ t.holders \subseteq Service /\ t.op \in OpRecord BY DEF TxRecord
<1>2. ServicesOf(Replaced(t.op)) \subseteq Service
  <2>1. Replaced(t.op) \subseteq Row BY DiscoverRowsSub DEF Replaced, TablesOK
  <2> QED BY <2>1 DEF ServicesOf, Row
<1>3. t.op.services \subseteq Service /\ t.op.materialize \subseteq Service BY <1>1 DEF OpRecord
<1>4. CASE t.op.kind = "assign" /\ ~AlreadyAssigned(t.op)
  BY <1>1, <1>2, <1>3, <1>4 DEF PlanOf, PlanRecord
<1>5. CASE t.op.kind \in {"unassign", "deleteService"}
  BY <1>1, <1>3, <1>5 DEF PlanOf, PlanRecord
<1>6. CASE t.op.kind = "deleteStream" BY <1>1, <1>6 DEF PlanOf, PlanRecord
<1>7. CASE t.op.kind = "create" BY <1>1, <1>3, <1>7 DEF PlanOf, PlanRecord, NoPlan
<1>8. CASE t.op.kind = "claim"
  <2>1. PlanOf(t) = [NoPlan EXCEPT !.delete = {r \in t.rows : r.service \in t.op.materialize},
                                   !.insert = t.op.materialize]
    BY <1>8 DEF PlanOf
  <2> QED BY <1>1, <1>3, <2>1 DEF PlanRecord, NoPlan
<1>9. CASE \/ t.op.kind \in {"retry", "heartbeat", "none"}
           \/ t.op.kind = "assign" /\ AlreadyAssigned(t.op)
  <2>1. PlanOf(t) = NoPlan BY <1>9 DEF PlanOf
  <2> QED BY <2>1 DEF NoPlan, PlanRecord
<1> QED BY <1>1, <1>4, <1>5, <1>6, <1>7, <1>8, <1>9 DEF OpRecord, Kind

LEMMA ValidateInv ==
  ASSUME LocksInv, NEW a \in Actor, Validate(a)
  PROVE  LocksInv'
<1>0. TxOK(tx[a]) /\ TablesOK BY DEF LocksInv
<1>1. CASE Rollback(a) BY <1>1, RollbackInv
<1>2. CASE /\ Revalidated(tx[a]) /\ Allowed(tx[a])
           /\ tx' = [tx EXCEPT ![a].pc = "write", ![a].plan = PlanOf(tx[a])]
           /\ UNCHANGED <<rows, current, phase, present>>
  <2>1. PICK t : t = tx[a] OBVIOUS
  <2>2. PICK plan : plan = PlanOf(t) OBVIOUS
  <2>3. t \in TxRecord /\ plan \in PlanRecord BY <1>0, <2>1, <2>2, PlanTyped DEF TxOK
  <2>4. PICK n : n = [t EXCEPT !.pc = "write", !.plan = plan] OBVIOUS
  <2>5. /\ n \in TxRecord /\ n.op = t.op /\ n.rows = t.rows /\ n.holders = t.holders
        /\ n.owner = t.owner /\ n.pc = "write" /\ n.held = t.held /\ n.todo = t.todo
        /\ n.plan = plan
    BY <2>3, <2>4 DEF TxRecord
  <2>6. LocksOf(n) = LocksOf(t) BY <2>5 DEF LocksOf, StreamLocks, ServiceLocks
  <2>7. t.pc = "lock" /\ t.todo = {} BY <2>1 DEF Validate
  <2>8. TxOK(n) BY <1>0, <2>1, <2>5, <2>6, <2>7 DEF TxOK, LocksOK
  <2>9. Decided(n)
    <3>1. Revalidated(n) BY <1>2, <2>1, <2>5 DEF Revalidated
    <3>2. Allowed(n) BY <1>2, <2>1, <2>5 DEF Allowed, MayDeleteStream
    <3>3. PlanOf(n) = PlanOf(t) BY <2>5 DEF PlanOf
    <3> QED BY <2>2, <2>5, <3>1, <3>2, <3>3 DEF Decided
  <2>10. tx' = [tx EXCEPT ![a] = n] BY <1>2, <2>1, <2>2, <2>4 DEF LocksInv
  <2>11. /\ \A b \in Actor : b # a => n.held \cap tx[b].held = {}
         /\ \A s \in Stream : StreamRow(s) \in n.held => phase[s] # "absent"
         /\ \A v \in Service : ServiceRow(v) \in n.held => v \in present
         /\ n.op.kind = "create" =>
              \A b \in Actor : b # a /\ tx[b].op.kind = "create" => tx[b].op.stream # n.op.stream
    BY <2>1, <2>5 DEF LocksInv, Exclusive, HeldFound, NewIds
  <2> QED BY <1>2, <2>8, <2>9, <2>10, <2>11, TxMoves
<1> QED BY <1>1, <1>2 DEF Validate

\* The tables change at vs and ss, which no other transaction has locked, and
\* transaction a, if any, ends.
LEMMA TablesMove ==
  ASSUME LocksInv, TablesOK', TablesAgree', NEW vs, NEW ss, Touches(vs, ss),
         NEW ends, DOMAIN tx' = Actor,
         \A b \in Actor : tx'[b] = IF b \in ends THEN Idle ELSE tx[b],
         \A b \in Actor \ ends :
           /\ \A v \in Service : ServiceRow(v) \in tx[b].held => v \notin vs
           /\ \A s \in Stream : StreamRow(s) \in tx[b].held => s \notin ss
           /\ tx[b].op.kind = "create" /\ tx[b].pc = "write" => tx[b].op.stream \notin ss,
         \A s \in Stream : phase[s] # "absent" => phase'[s] # "absent"
  PROVE  LocksInv'
<1>0. /\ TablesOK /\ TablesAgree /\ DOMAIN tx = Actor /\ Exclusive /\ HeldFound /\ NewIds
      /\ \A b \in Actor : TxOK(tx[b]) /\ (tx[b].pc = "write" => Decided(tx[b]))
  BY DEF LocksInv
<1>1. /\ Idle.held = {} /\ Idle.pc = "idle" /\ Idle.op.kind = "none"
  BY DEF Idle, NoOp, Operation
<1>2. DOMAIN tx' = Actor /\ \A b \in Actor : tx'[b] = IF b \in ends THEN Idle ELSE tx[b]
  OBVIOUS
<1>3. \A b \in Actor : TxOK(tx'[b]) BY <1>0, <1>2, IdleOK
<1>4. Exclusive' BY <1>0, <1>1, <1>2 DEF Exclusive
<1>5. NewIds' BY <1>0, <1>1, <1>2 DEF NewIds
<1>6. HeldFound'
  <2> SUFFICES ASSUME NEW b \in Actor
               PROVE  /\ \A s \in Stream : StreamRow(s) \in tx'[b].held => phase'[s] # "absent"
                      /\ \A v \in Service : ServiceRow(v) \in tx'[b].held => v \in present'
    BY DEF HeldFound
  <2>1. CASE b \in ends BY <1>1, <1>2, <2>1
  <2>2. CASE b \notin ends
    <3>1. tx'[b] = tx[b] BY <1>2, <2>2
    <3>2. \A s \in Stream : StreamRow(s) \in tx[b].held => phase'[s] # "absent"
      BY <1>0 DEF HeldFound
    <3>3. \A v \in Service : ServiceRow(v) \in tx[b].held => v \in present /\ v \notin vs
      BY <1>0, <2>2 DEF HeldFound
    <3>4. \A v \in Service : ServiceRow(v) \in tx[b].held => v \in present'
      BY <3>3 DEF Touches
    <3> QED BY <3>1, <3>2, <3>4
  <2> QED BY <2>1, <2>2
<1>7. ASSUME NEW b \in Actor, tx'[b].pc = "write" PROVE Decided(tx[b])'
  <2>1. PICK t : t = tx'[b] OBVIOUS
  <2>2. b \notin ends /\ t = tx[b] BY <1>1, <1>2, <1>7, <2>1
  <2>3. TxOK(t) /\ Decided(t) /\ t.pc = "write" BY <1>0, <1>7, <2>1, <2>2
  <2>4. t.op.kind # "none" /\ t.held = LocksOf(t) BY <2>3 DEF TxOK, LocksOK
  <2>5. Spares(t, vs, ss)
    <3>1. ServiceLocks(t) \cap vs = {}
      BY <2>2, <2>3, <2>4, LockedKeys, LocksOfMembers
    <3>2. StreamLocks(t) \cap ss = {}
      <4>1. StreamLocks(t) \subseteq Stream BY DEF StreamLocks
      <4> QED BY <2>2, <2>4, <4>1, LocksOfMembers
    <3> QED BY <2>2, <2>3, <3>1, <3>2 DEF Spares
  <2>6. Decided(t)' BY <1>0, <2>3, <2>4, <2>5, StableDecision
  <2> QED BY <2>1, <2>6
<1> QED BY <1>2, <1>3, <1>4, <1>5, <1>6, <1>7 DEF LocksInv

\* The commit of a disturbs no other transaction: what it writes is locked by
\* a, or is the fresh stream of a's creation.
LEMMA WriteInv ==
  ASSUME LocksInv, NEW a \in Actor, Write(a)
  PROVE  LocksInv'
<1>0. /\ TablesOK /\ TablesAgree /\ DOMAIN tx = Actor /\ Exclusive /\ HeldFound /\ NewIds
      /\ \A b \in Actor : TxOK(tx[b]) /\ (tx[b].pc = "write" => Decided(tx[b]))
  BY DEF LocksInv
<1>1. PICK t : t = tx[a] OBVIOUS
<1>2. t.pc = "write" BY <1>1 DEF Write
<1>3. TxOK(t) /\ Decided(t) BY <1>0, <1>1, <1>2
<1>4. /\ t.op.kind # "none" /\ t.held = LocksOf(t) /\ t.op \in OpRecord /\ RequestOK(t.op)
  BY <1>2, <1>3 DEF TxOK, LocksOK, RequestOK
<1>5. Covers(t) BY <1>0, <1>3, <1>4, PlanCovers
<1>6. Committed(t) /\ tx' = [tx EXCEPT ![a] = Idle] BY <1>1, <1>5, WriteCommits
<1>7. /\ \A v \in ServiceLocks(t) : ServiceRow(v) \in t.held
      /\ \A s \in StreamLocks(t) : StreamRow(s) \in t.held
  BY <1>4, LocksOfMembers
<1>8. ServiceLocks(t) \subseteq Service BY <1>3, <1>4, LockedKeys
<1>9. ServiceLocks(t) \subseteq present BY <1>0, <1>1, <1>7, <1>8 DEF HeldFound
<1>10. TablesOK' /\ TablesAgree'
  BY <1>0, <1>3, <1>4, <1>5, <1>6, <1>9, WrittenTables
<1>11. Touches(ServiceLocks(t), {t.op.stream})
  BY <1>0, <1>3, <1>4, <1>5, <1>6, WrittenTouches
<1>12. ASSUME NEW b \in Actor \ {a}
       PROVE  /\ \A v \in Service : ServiceRow(v) \in tx[b].held => v \notin ServiceLocks(t)
              /\ \A s \in Stream : StreamRow(s) \in tx[b].held => s \notin {t.op.stream}
              /\ tx[b].op.kind = "create" /\ tx[b].pc = "write" =>
                   tx[b].op.stream \notin {t.op.stream}
  <2>1. tx[b].held \cap t.held = {} BY <1>0, <1>1, <1>12 DEF Exclusive
  <2>2. \A v \in Service : ServiceRow(v) \in tx[b].held => v \notin ServiceLocks(t)
    BY <1>7, <2>1
  <2>3. tx[b].op.kind = "create" /\ tx[b].pc = "write" =>
          tx[b].op.stream \in Stream /\ phase[tx[b].op.stream] = "absent"
    BY <1>0, <1>12 DEF Decided, Allowed, MayCreate, TxOK, RequestOK
  <2>4. CASE t.op.kind = "create"
    <3>1. phase[t.op.stream] = "absent" BY <1>3, <2>4 DEF Decided, Allowed, MayCreate
    <3>2. \A s \in Stream : StreamRow(s) \in tx[b].held => s # t.op.stream
      BY <1>0, <3>1 DEF HeldFound
    <3>3. tx[b].op.kind = "create" => tx[b].op.stream # t.op.stream
      BY <1>0, <1>1, <1>12, <2>4 DEF NewIds
    <3> QED BY <2>2, <3>2, <3>3
  <2>5. CASE t.op.kind # "create" /\ t.op.stream \in Stream
    <3>1. StreamRow(t.op.stream) \in t.held BY <1>3, <1>4, <1>7, <2>5, LockedKeys
    <3>2. phase[t.op.stream] # "absent" BY <1>0, <1>1, <2>5, <3>1 DEF HeldFound
    <3> QED BY <2>1, <2>2, <2>3, <3>1, <3>2
  <2>6. CASE t.op.stream \notin Stream BY <2>2, <2>3, <2>6
  <2> QED BY <2>4, <2>5, <2>6
<1>13. \A s \in Stream : phase[s] # "absent" => phase'[s] # "absent"
  <2>1. t.op.kind \in {"deleteStream", "create", "claim", "retry"} =>
          PhaseAfter(t.op) # "absent"
    BY DEF PhaseAfter
  <2> QED BY <1>0, <1>6, <2>1 DEF Committed, TablesOK
<1>14. DOMAIN tx' = Actor /\ \A b \in Actor : tx'[b] = IF b \in {a} THEN Idle ELSE tx[b]
  BY <1>0, <1>6
<1>15. PICK ends, ss : ends = {a} /\ ss = {t.op.stream} OBVIOUS
<1>16. \A b \in Actor : tx'[b] = IF b \in ends THEN Idle ELSE tx[b] BY <1>14, <1>15
<1>17. \A b \in Actor \ ends :
         /\ \A v \in Service : ServiceRow(v) \in tx[b].held => v \notin ServiceLocks(t)
         /\ \A s \in Stream : StreamRow(s) \in tx[b].held => s \notin ss
         /\ tx[b].op.kind = "create" /\ tx[b].pc = "write" => tx[b].op.stream \notin ss
  BY <1>12, <1>15
<1> QED BY <1>10, <1>11, <1>13, <1>14, <1>15, <1>16, <1>17, TablesMove

LEMMA EndInv ==
  ASSUME LocksInv, NEW s \in Stream, ProtectionEnds(s)
  PROVE  LocksInv'
<1>0. /\ TablesOK /\ TablesAgree /\ DOMAIN tx = Actor /\ HeldFound
      /\ \A b \in Actor : TxOK(tx[b]) /\ (tx[b].pc = "write" => Decided(tx[b]))
  BY DEF LocksInv
<1>1. TablesOK' BY <1>0 DEF TablesOK, ProtectionEnds, Phase
<1>2. TablesAgree' BY <1>0 DEF TablesAgree, Consistent, RowsOf, ProtectionEnds
<1>3. Touches({}, {s}) BY <1>0 DEF Touches, ProtectionEnds, TablesOK
<1>4. DOMAIN tx' = Actor /\ \A b \in Actor : tx'[b] = IF b \in {} THEN Idle ELSE tx[b]
  BY <1>0 DEF ProtectionEnds
<1>5. ASSUME NEW b \in Actor \ {}
      PROVE  /\ \A v \in Service : ServiceRow(v) \in tx[b].held => v \notin {}
             /\ \A z \in Stream : StreamRow(z) \in tx[b].held => z \notin {s}
             /\ tx[b].op.kind = "create" /\ tx[b].pc = "write" => tx[b].op.stream \notin {s}
  <2>1. tx[b].op.kind = "create" /\ tx[b].pc = "write" => phase[tx[b].op.stream] = "absent"
    BY <1>0, <1>5 DEF Decided, Allowed, MayCreate
  <2> QED BY <1>5, <2>1 DEF ProtectionEnds
<1>6. \A z \in Stream : phase[z] # "absent" => phase'[z] # "absent"
  BY <1>0 DEF TablesOK, ProtectionEnds
<1> QED BY <1>1, <1>2, <1>3, <1>4, <1>5, <1>6, TablesMove

LEMMA RegisteredInv ==
  ASSUME LocksInv, NEW v \in Service, Registered(v)
  PROVE  LocksInv'
<1>0. /\ TablesOK /\ TablesAgree /\ DOMAIN tx = Actor /\ HeldFound BY DEF LocksInv
<1>1. TablesOK' BY <1>0 DEF TablesOK, Registered
<1>2. TablesAgree' BY <1>0 DEF TablesAgree, Consistent, RowsOf, Registered
<1>3. Touches({v}, {}) BY <1>0 DEF Touches, Registered
<1>4. DOMAIN tx' = Actor /\ \A b \in Actor : tx'[b] = IF b \in {} THEN Idle ELSE tx[b]
  BY <1>0 DEF Registered
<1>5. ASSUME NEW b \in Actor \ {}
      PROVE  /\ \A w \in Service : ServiceRow(w) \in tx[b].held => w \notin {v}
             /\ \A z \in Stream : StreamRow(z) \in tx[b].held => z \notin {}
             /\ tx[b].op.kind = "create" /\ tx[b].pc = "write" => tx[b].op.stream \notin {}
  BY <1>0, <1>5 DEF HeldFound, Registered
<1>6. \A z \in Stream : phase[z] # "absent" => phase'[z] # "absent" BY DEF Registered
<1> QED BY <1>1, <1>2, <1>3, <1>4, <1>5, <1>6, TablesMove

LEMMA LocksStart ==
  ASSUME LocksInit
  PROVE  LocksInv
<1>1. TablesOK BY DEF LocksInit, TablesOK, Phase
<1>2. TablesAgree BY DEF LocksInit, TablesAgree, Consistent, RowsOf
<1>3. DOMAIN tx = Actor /\ \A a \in Actor : tx[a] = Idle BY DEF LocksInit
<1>4. /\ Idle.held = {} /\ Idle.pc = "idle" /\ Idle.op.kind = "none"
  BY DEF Idle, NoOp, Operation
<1>5. \A a \in Actor : TxOK(tx[a]) BY <1>3, IdleOK
<1>6. Exclusive /\ HeldFound /\ NewIds BY <1>3, <1>4 DEF Exclusive, HeldFound, NewIds
<1> QED BY <1>1, <1>2, <1>3, <1>4, <1>5, <1>6 DEF LocksInv

LEMMA LocksStep ==
  ASSUME LocksInv, [LocksNext]_lockVars
  PROVE  LocksInv'
<1>1. CASE UNCHANGED lockVars
  <2>1. UNCHANGED <<rows, current, phase, present, tx>> BY <1>1 DEF lockVars
  <2>2. TablesOK' /\ TablesAgree' /\ Touches({}, {}) BY <2>1, SameTables DEF LocksInv
  <2>3. DOMAIN tx' = Actor /\ \A b \in Actor : tx'[b] = IF b \in {} THEN Idle ELSE tx[b]
    BY <2>1 DEF LocksInv
  <2> QED BY <2>1, <2>2, <2>3, TablesMove
<1>2. ASSUME NEW a \in Actor, Step(a) PROVE LocksInv'
  BY <1>2, RequestInv, DiscoverInv, LockInv, ValidateInv, WriteInv, RollbackInv DEF Step, Fail
<1>3. ASSUME NEW s \in Stream, ProtectionEnds(s) PROVE LocksInv' BY <1>3, EndInv
<1>4. ASSUME NEW v \in Service, Registered(v) PROVE LocksInv' BY <1>4, RegisteredInv
<1> QED BY <1>1, <1>2, <1>3, <1>4 DEF LocksNext

LEMMA LocksInvariance == LocksSpec => []LocksInv
<1>1. LocksInit => LocksInv BY LocksStart
<1>2. LocksInv /\ [LocksNext]_lockVars => LocksInv' BY LocksStep
<1> QED BY <1>1, <1>2, PTL DEF LocksSpec

\* services.current_stream_id and stream_service_assignments name the same
\* owner of every service after every commit, however many requests discover,
\* lock, revalidate, fail and write at once (TablesAgree): a decision made
\* after the locks (Decided) stays true until the write, because whoever could
\* change what it read needs a lock of the deciding transaction.
THEOREM TablesStayEqual == LocksSpec => []TablesAgree
<1>1. LocksInv => TablesAgree BY DEF LocksInv
<1> QED BY <1>1, LocksInvariance, PTL

\* The sorted order streams, services, assignment rows of every FOR UPDATE
\* leaves no circle of requests waiting for each other (NoWaitCycle): the
\* one whose next lock ranks highest among the waiting waits for no one.
THEOREM NoDeadlock == LocksSpec => []NoWaitCycle
<1>1. LocksInv => NoWaitCycle BY OrderedNoCycle DEF LocksInv
<1> QED BY <1>1, LocksInvariance, PTL

\* The type invariant of the transactions' state (LocksTypeOK).
THEOREM LocksTypeCorrect == LocksSpec => []LocksTypeOK
<1>1. ASSUME LocksInv PROVE LocksTypeOK
  <2>1. \A a \in Actor : TxOK(tx[a]) /\ (tx[a].pc = "write" => Decided(tx[a]))
    BY <1>1 DEF LocksInv
  <2>2. \A a \in Actor : tx[a].plan.delete \subseteq tx[a].rows
    <3> SUFFICES ASSUME NEW a \in Actor, NEW t, t = tx[a] PROVE t.plan.delete \subseteq t.rows
      OBVIOUS
    <3>1. CASE t.pc # "write" BY <2>1, <3>1 DEF TxOK, LocksOK, NoPlan
    <3>2. CASE t.pc = "write"
      <4>1. t.plan = PlanOf(t) BY <2>1, <3>2 DEF Decided
      <4>2. PlanOf(t).delete \subseteq t.rows
        <5>1. CASE t.op.kind = "assign" /\ ~AlreadyAssigned(t.op) BY <5>1 DEF PlanOf
        <5>2. CASE t.op.kind = "assign" /\ AlreadyAssigned(t.op) BY <5>2 DEF PlanOf, NoPlan
        <5>3. CASE t.op.kind \in {"unassign", "deleteService"} BY <5>3 DEF PlanOf
        <5>4. CASE t.op.kind = "deleteStream" BY <5>4 DEF PlanOf
        <5>5. CASE t.op.kind = "create" BY <5>5 DEF PlanOf, NoPlan
        <5>6. CASE t.op.kind = "claim" BY <5>6 DEF PlanOf, NoPlan
        <5>7. CASE t.op.kind \notin {"assign", "unassign", "deleteService", "deleteStream",
                                     "create", "claim"}
          BY <5>7 DEF PlanOf, NoPlan
        <5> QED BY <5>1, <5>2, <5>3, <5>4, <5>5, <5>6, <5>7
      <4> QED BY <4>1, <4>2
    <3> QED BY <3>1, <3>2
  <2> QED BY <1>1, <2>1, <2>2 DEF LocksInv, TablesOK, LocksTypeOK, TxOK, TxRecord
<1> QED BY <1>1, LocksInvariance, PTL
-----------------------------------------------------------------------------
(* The transactions implement the store.                                   *)

\* The owner that the rows rs of a service record.
OwnerIn(rs) ==
  LET on == {[stream |-> r.stream, role |-> r.role] : r \in rs}
  IN IF on = {} THEN [stream |-> NoStream, role |-> "none"] ELSE CHOOSE o \in on : TRUE

LEMMA OwnerInOf ==
  /\ OwnerIn({}) = [stream |-> NoStream, role |-> "none"]
  /\ \A r : OwnerIn({r}) = [stream |-> r.stream, role |-> r.role]
<1>1. {[stream |-> r.stream, role |-> r.role] : r \in {}} = {} OBVIOUS
<1>2. ASSUME NEW r PROVE OwnerIn({r}) = [stream |-> r.stream, role |-> r.role]
  <2>1. PICK o : o = [stream |-> r.stream, role |-> r.role] OBVIOUS
  <2>2. {[stream |-> q.stream, role |-> q.role] : q \in {r}} = {o} BY <2>1
  <2>3. (CHOOSE p \in {o} : TRUE) = o OBVIOUS
  <2> QED BY <2>1, <2>2, <2>3 DEF OwnerIn
<1> QED BY <1>1, <1>2 DEF OwnerIn

LEMMA OwnersFrom ==
  /\ OwnerOf = [v \in Service |-> OwnerIn(RowsOf(v))]
  /\ OwnerOf' = [v \in Service |-> OwnerIn(RowsOf(v)')]
BY DEF OwnerOf, OwnerIn

\* The store's owner in terms of the tables.
LEMMA OwnerRows ==
  ASSUME TablesOK, TablesAgree, NEW v \in Service
  PROVE  /\ OwnerOf[v].stream = current[v]
         /\ OwnerOf[v] = [stream |-> NoStream, role |-> "none"] <=> current[v] = NoStream
         /\ \A s \in Stream, role \in Role :
              OwnerOf[v] = [stream |-> s, role |-> role] <=>
                [stream |-> s, service |-> v, role |-> role] \in rows
         /\ current[v] \in Stream =>
              v \in present /\ \E role \in Role : OwnerOf[v] = [stream |-> current[v], role |-> role]
<1>1. OwnerOf[v] = OwnerIn(RowsOf(v)) BY OwnersFrom
<1>2. CASE RowsOf(v) = {}
  <2>1. current[v] = NoStream BY <1>2 DEF TablesAgree, Consistent
  <2>2. OwnerOf[v] = [stream |-> NoStream, role |-> "none"] BY <1>1, <1>2, OwnerInOf
  <2>3. \A s \in Stream, role \in Role : [stream |-> s, service |-> v, role |-> role] \notin rows
    BY <1>2 DEF RowsOf
  <2> QED BY <2>1, <2>2, <2>3, AssignmentAssumption
<1>3. CASE RowsOf(v) # {}
  <2>1. PICK r \in RowsOf(v) : TRUE BY <1>3
  <2>2. RowsOf(v) = {r} /\ r.stream = current[v] /\ r.service = v BY <2>1, AgreedRows
  <2>3. r \in Row /\ r \in rows BY <2>1 DEF RowsOf, TablesOK
  <2>4. r.stream \in Stream /\ r.role \in Role /\ r.stream # NoStream
        /\ r = [stream |-> r.stream, service |-> v, role |-> r.role]
    BY <2>2, <2>3, AssignmentAssumption DEF Row
  <2>5. OwnerOf[v] = [stream |-> r.stream, role |-> r.role] BY <1>1, <2>2, OwnerInOf
  <2>6. v \in present BY <1>3 DEF TablesAgree
  <2>7. \A s \in Stream, role \in Role :
          [stream |-> s, service |-> v, role |-> role] \in rows => r.stream = s /\ r.role = role
    <3> SUFFICES ASSUME NEW s \in Stream, NEW role \in Role,
                        [stream |-> s, service |-> v, role |-> role] \in rows
                 PROVE  r.stream = s /\ r.role = role
      OBVIOUS
    <3>1. [stream |-> s, service |-> v, role |-> role] \in RowsOf(v) BY DEF RowsOf
    <3>2. [stream |-> s, service |-> v, role |-> role] = r BY <2>2, <3>1
    <3> QED BY <3>2
  <2>8. \A s \in Stream, role \in Role :
          OwnerOf[v] = [stream |-> s, role |-> role] <=>
            [stream |-> s, service |-> v, role |-> role] \in rows
    <3> SUFFICES ASSUME NEW s \in Stream, NEW role \in Role
                 PROVE  OwnerOf[v] = [stream |-> s, role |-> role] <=>
                          [stream |-> s, service |-> v, role |-> role] \in rows
      OBVIOUS
    <3>1. OwnerOf[v] = [stream |-> s, role |-> role] <=> r.stream = s /\ r.role = role BY <2>5
    <3> QED BY <2>3, <2>4, <2>7, <3>1
  <2>9. OwnerOf[v] # [stream |-> NoStream, role |-> "none"] /\ current[v] # NoStream
    BY <2>2, <2>4, <2>5
  <2> QED BY <2>2, <2>4, <2>5, <2>6, <2>8, <2>9
<1> QED BY <1>2, <1>3

\* The store's owners after the commit of t.
LEMMA OwnersWritten ==
  ASSUME TablesOK, NEW t, TxOK(t), t.op.kind # "none", Covers(t), Committed(t)
  PROVE  OwnerOf' = [v \in Service |->
           IF v \in t.plan.insert THEN [stream |-> t.op.stream, role |-> InsertedRole(t.op)]
           ELSE IF v \in t.plan.clear THEN [stream |-> NoStream, role |-> "none"]
           ELSE OwnerOf[v]]
<1>1. ASSUME NEW v \in Service
      PROVE  OwnerIn(RowsOf(v)') =
           IF v \in t.plan.insert THEN [stream |-> t.op.stream, role |-> InsertedRole(t.op)]
           ELSE IF v \in t.plan.clear THEN [stream |-> NoStream, role |-> "none"]
           ELSE OwnerOf[v]
  <2>1. CASE v \in t.plan.insert
    <3>1. RowsOf(v)' = {NewRow(t.op, v)} BY <2>1, Written
    <3>2. NewRow(t.op, v).stream = t.op.stream /\ NewRow(t.op, v).role = InsertedRole(t.op)
      BY DEF NewRow
    <3>3. OwnerIn({NewRow(t.op, v)}) =
            [stream |-> NewRow(t.op, v).stream, role |-> NewRow(t.op, v).role]
      BY OwnerInOf
    <3> QED BY <2>1, <3>1, <3>2, <3>3
  <2>2. CASE v \in t.plan.clear /\ v \notin t.plan.insert
    <3>1. RowsOf(v)' = {} BY <2>2, Written
    <3> QED BY <2>2, <3>1, OwnerInOf
  <2>3. CASE v \notin t.plan.insert \cup t.plan.clear
    <3>1. RowsOf(v)' = RowsOf(v) BY <2>3, Written
    <3> QED BY <2>3, <3>1, OwnersFrom
  <2> QED BY <2>1, <2>2, <2>3
<1> QED BY <1>1, OwnersFrom

\* What a commit starts from, and the tables it leaves.
Commits(t) ==
  /\ TablesOK /\ TablesAgree
  /\ TxOK(t) /\ t.op.kind # "none" /\ Decided(t)
  /\ ServiceLocks(t) \subseteq present
  /\ Covers(t) /\ Committed(t)

LEMMA CommitFacts ==
  ASSUME NEW t, Commits(t)
  PROVE  /\ Allowed(t) /\ t.plan = PlanOf(t) /\ t.rows = DiscoverRows(t.op)
         /\ t.holders = DiscoverHolders(t.op) /\ RequestOK(t.op) /\ t.op \in OpRecord
         /\ t.op.services \subseteq present /\ present \subseteq Service
         /\ OwnerOf' = [v \in Service |->
              IF v \in t.plan.insert THEN [stream |-> t.op.stream, role |-> InsertedRole(t.op)]
              ELSE IF v \in t.plan.clear THEN [stream |-> NoStream, role |-> "none"]
              ELSE OwnerOf[v]]
         /\ OwnerOf = [v \in Service |-> OwnerOf[v]]
         /\ \A v \in Service : OwnerOf[v].stream = current[v]
<1>1. t.op.services \subseteq present BY LockedKeys DEF Commits
<1>2. OwnerOf = [v \in Service |-> OwnerOf[v]] BY OwnersFrom
<1>3. \A v \in Service : OwnerOf[v].stream = current[v] BY OwnerRows DEF Commits
<1>4. /\ Allowed(t) /\ t.plan = PlanOf(t) /\ t.rows = DiscoverRows(t.op)
      /\ t.holders = DiscoverHolders(t.op) /\ RequestOK(t.op) /\ t.op \in OpRecord
      /\ present \subseteq Service
  BY DEF Commits, Decided, Revalidated, TxOK, RequestOK, TablesOK
<1>5. OwnerOf' = [v \in Service |->
              IF v \in t.plan.insert THEN [stream |-> t.op.stream, role |-> InsertedRole(t.op)]
              ELSE IF v \in t.plan.clear THEN [stream |-> NoStream, role |-> "none"]
              ELSE OwnerOf[v]]
  BY OwnersWritten DEF Commits
<1> QED BY <1>1, <1>2, <1>3, <1>4, <1>5

\* A plan that neither inserts nor frees leaves the owners as they are.
LEMMA NoPlanKeeps ==
  ASSUME NEW t, Commits(t), t.plan = NoPlan
  PROVE  OwnerOf' = OwnerOf
<1>1. t.plan.insert = {} /\ t.plan.clear = {} BY DEF NoPlan
<1>2. OwnerOf = [v \in Service |-> OwnerOf[v]] BY OwnersFrom
<1>3. OwnerOf' = [v \in Service |-> OwnerOf[v]] BY <1>1, CommitFacts
<1> QED BY <1>2, <1>3

LEMMA CommitAssign ==
  ASSUME NEW t, Commits(t), t.op.kind = "assign"
  PROVE  \/ UNCHANGED <<OwnerOf, phase, present>>
         \/ \E v \in Service, s \in Stream, role \in Role,
               e \in Stream \cup {NoStream, AnyStream} : Store!Assign(v, s, role, e)
<1>0. phase' = phase /\ present' = present BY DEF Commits, Committed
<1>1. RequestOK(t.op) /\ MayAssign(t.op) /\ t.plan = PlanOf(t)
  BY CommitFacts DEF Allowed
<1>2. CASE AlreadyAssigned(t.op)
  <2>1. t.plan = NoPlan BY <1>1, <1>2 DEF PlanOf
  <2> QED BY <1>0, <2>1, NoPlanKeeps
<1>3. CASE ~AlreadyAssigned(t.op)
  <2>1. PICK v \in Service : t.op.services = {v} BY <1>1 DEF RequestOK, Single
  <2>2. PICK s \in Stream, role \in Role, e \in Stream \cup {NoStream, AnyStream} :
          s = t.op.stream /\ role = t.op.role /\ e = t.op.expected
    BY <1>1 DEF RequestOK, OpRecord
  <2>3. v = TheService(t.op) BY <2>1, TheServiceOf
  <2>4. t.plan.insert = {v} /\ t.plan.clear = ServicesOf(Replaced(t.op))
    BY <1>1, <1>3, <2>1 DEF PlanOf
  <2>5. InsertedRole(t.op) = role BY <2>2 DEF InsertedRole
  <2>6. v \in present BY <2>1, CommitFacts
  <2>7. Store!AssignAllowed(v, s, role, e)
    <3>1. Exists(s) /\ e \in {AnyStream, OwnerOf[v].stream}
      BY <1>1, <2>2, <2>3, CommitFacts DEF MayAssign, Expected
    <3>2. ~Protected(s) /\ MayLeave(v) BY <1>1, <1>3, <2>2, <2>3 DEF MayAssign
    <3>3. ~Protected(OwnerOf[v].stream)
      BY <3>2, CommitFacts, AssignmentAssumption DEF MayLeave, Protected
    <3> QED BY <2>6, <3>1, <3>2, <3>3
         DEF Store!AssignAllowed, Store!Exists, Store!Protected, Exists, Protected
  <2>8. \A w \in Service : w \in t.plan.clear <=>
          /\ w # v /\ role = "primary" /\ TypeOf[w] = TypeOf[v]
          /\ OwnerOf[w] = [stream |-> s, role |-> "primary"]
    <3> SUFFICES ASSUME NEW w \in Service
                 PROVE  w \in t.plan.clear <=>
                          /\ w # v /\ role = "primary" /\ TypeOf[w] = TypeOf[v]
                          /\ OwnerOf[w] = [stream |-> s, role |-> "primary"]
      OBVIOUS
    <3>1. OwnerOf[w] = [stream |-> s, role |-> "primary"] <=>
            [stream |-> s, service |-> w, role |-> "primary"] \in rows
      BY OwnerRows DEF Commits, Role
    <3>2. w \in t.plan.clear <=> \E r \in Replaced(t.op) : r.service = w
      BY <2>4 DEF ServicesOf
    <3>3. \A r : r \in Replaced(t.op) <=>
            /\ r \in rows /\ r.service # v /\ r.stream = s
            /\ role = "primary" /\ r.role = "primary" /\ TypeOf[r.service] = TypeOf[v]
      BY <2>1, <2>2, <2>3 DEF Replaced, DiscoverRows
    <3>4. \A r \in rows : r.stream = s /\ r.role = "primary" /\ r.service = w =>
            r = [stream |-> s, service |-> w, role |-> "primary"]
      BY DEF Commits, TablesOK, Row
    <3>5. ASSUME w \in t.plan.clear
          PROVE  /\ w # v /\ role = "primary" /\ TypeOf[w] = TypeOf[v]
                 /\ OwnerOf[w] = [stream |-> s, role |-> "primary"]
      BY <3>1, <3>2, <3>3, <3>4, <3>5
    <3>6. ASSUME /\ w # v /\ role = "primary" /\ TypeOf[w] = TypeOf[v]
                 /\ OwnerOf[w] = [stream |-> s, role |-> "primary"]
          PROVE  w \in t.plan.clear
      <4>1. PICK r : r = [stream |-> s, service |-> w, role |-> "primary"] OBVIOUS
      <4>2. r \in rows /\ r.stream = s /\ r.service = w /\ r.role = "primary"
        BY <3>1, <3>6, <4>1
      <4> QED BY <3>2, <3>3, <3>6, <4>2
    <3> QED BY <3>5, <3>6
  <2>9. OwnerOf[v] # [stream |-> s, role |-> role]
    <3>1. ASSUME [stream |-> s, service |-> v, role |-> role] \in rows PROVE AlreadyAssigned(t.op)
      <4>1. PICK r : r = [stream |-> s, service |-> v, role |-> role] OBVIOUS
      <4>2. r \in RowsOf(v) /\ r.stream = s /\ r.role = role BY <3>1, <4>1 DEF RowsOf
      <4> QED BY <2>2, <2>3, <4>2 DEF AlreadyAssigned
    <3> QED BY <1>3, <3>1, OwnerRows DEF Commits
  <2>10. OwnerOf' = [w \in Service |->
           IF w = v THEN [stream |-> s, role |-> role]
           ELSE IF role = "primary" /\ OwnerOf[w] = [stream |-> s, role |-> "primary"]
                     /\ TypeOf[w] = TypeOf[v]
             THEN [stream |-> NoStream, role |-> "none"]
             ELSE OwnerOf[w]]
    <3>1. OwnerOf' = [w \in Service |->
            IF w \in t.plan.insert THEN [stream |-> s, role |-> role]
            ELSE IF w \in t.plan.clear THEN [stream |-> NoStream, role |-> "none"]
            ELSE OwnerOf[w]]
      BY <2>2, <2>5, CommitFacts
    <3> QED BY <2>4, <2>8, <3>1
  <2>11. Store!Assign(v, s, role, e)
    BY <1>0, <2>7, <2>9, <2>10
    DEF Store!Assign, Store!On, Store!Placed, Store!Unassigned
  <2> QED BY <2>11
<1> QED BY <1>2, <1>3

LEMMA CommitUnassign ==
  ASSUME NEW t, Commits(t), t.op.kind \in {"unassign", "deleteService"}
  PROVE  \/ \E v \in Service, e \in Stream \cup {NoStream, AnyStream} : Store!Unassign(v, e)
         \/ \E v \in Service : Store!DeleteService(v)
<1>1. RequestOK(t.op) /\ MayUnassign(t.op) /\ t.plan = PlanOf(t)
  BY CommitFacts DEF Allowed
<1>2. PICK v \in Service : t.op.services = {v} BY <1>1 DEF RequestOK, Single
<1>3. PICK e \in Stream \cup {NoStream, AnyStream} : e = t.op.expected
  BY <1>1 DEF RequestOK, OpRecord
<1>4. v = TheService(t.op) BY <1>2, TheServiceOf
<1>5. t.plan.insert = {} /\ t.plan.clear = {v} BY <1>1, <1>2 DEF PlanOf
<1>6. v \in present BY <1>2, CommitFacts
<1>7. e \in {AnyStream, OwnerOf[v].stream} BY <1>1, <1>3, <1>4, CommitFacts DEF MayUnassign, Expected
<1>8. ~Store!Protected(OwnerOf[v].stream)
  BY <1>1, <1>4, CommitFacts, AssignmentAssumption DEF MayUnassign, MayLeave, Store!Protected
<1>9. OwnerOf' = Store!Cleared(OwnerOf, {v})
  BY <1>5, CommitFacts DEF Store!Cleared, Store!Unassigned, Store!On
<1>10. phase' = phase BY DEF Commits, Committed
<1>11. CASE t.op.kind = "unassign"
  <2>1. present' = present BY <1>11 DEF Commits, Committed
  <2>2. Store!Unassign(v, e)
    BY <1>6, <1>7, <1>8, <1>9, <1>10, <2>1 DEF Store!Unassign, Store!UnassignAllowed
  <2> QED BY <2>2
<1>12. CASE t.op.kind = "deleteService"
  <2>1. present' = present \ {v} BY <1>2, <1>12 DEF Commits, Committed
  <2>2. Store!DeleteService(v) BY <1>6, <1>8, <1>9, <1>10, <2>1 DEF Store!DeleteService
  <2> QED BY <2>2
<1> QED BY <1>11, <1>12

LEMMA CommitDeleteStream ==
  ASSUME NEW t, Commits(t), t.op.kind = "deleteStream"
  PROVE  \E s \in Stream : Store!DeleteStream(s)
<1>1. RequestOK(t.op) /\ MayDeleteStream(t) /\ t.plan = PlanOf(t) /\ t.holders = DiscoverHolders(t.op)
  BY CommitFacts DEF Allowed
<1>2. PICK s \in Stream : s = t.op.stream BY <1>1 DEF RequestOK
<1>3. phase[s] = "idle" BY <1>1, <1>2 DEF MayDeleteStream, Exists, Protected
<1>4. t.plan.insert = {} /\ t.plan.clear = t.holders BY <1>1 DEF PlanOf
<1>5. \A v \in Service : v \in t.plan.clear <=> OwnerOf[v].stream = s
  <2>1. \A v \in Service : current[v] = s => v \in present BY OwnerRows DEF Commits
  <2> QED BY <1>1, <1>2, <1>4, <2>1, CommitFacts DEF DiscoverHolders
<1>6. OwnerOf' = Store!Cleared(OwnerOf, {v \in Service : OwnerOf[v].stream = s})
  BY <1>4, <1>5, CommitFacts DEF Store!Cleared, Store!Unassigned, Store!On
<1>7. phase' = [phase EXCEPT ![s] = "deleted"] /\ present' = present
  BY <1>2 DEF Commits, Committed, PhaseAfter
<1>8. Store!DeleteStream(s) BY <1>3, <1>6, <1>7 DEF Store!DeleteStream
<1> QED BY <1>8

LEMMA CommitCreate ==
  ASSUME NEW t, Commits(t), t.op.kind = "create"
  PROVE  \E s \in Stream, vs \in SUBSET Service : Store!CreateStream(s, vs)
<1>1. RequestOK(t.op) /\ MayCreate(t.op) /\ t.plan = PlanOf(t) BY CommitFacts DEF Allowed
<1>2. PICK s \in Stream : s = t.op.stream BY <1>1 DEF RequestOK
<1>3. PICK vs \in SUBSET Service : vs = t.op.services BY <1>1 DEF RequestOK, OpRecord
<1>4. t.plan.insert = vs /\ t.plan.clear = {} BY <1>1, <1>3 DEF PlanOf, NoPlan
<1>5. InsertedRole(t.op) = "primary" BY DEF InsertedRole
<1>6. phase[s] = "absent" BY <1>1, <1>2 DEF MayCreate
<1>7. \A v \in vs : /\ v \in present /\ TypeOf[v] \in StartTypes
                    /\ OwnerOf[v] = [stream |-> NoStream, role |-> "none"]
  <2>1. \A v \in vs : v \in present /\ v \in Service /\ current[v] = NoStream
    BY <1>1, <1>3, CommitFacts DEF MayCreate
  <2>2. \A v \in vs : TypeOf[v] \in StartTypes BY <1>1, <1>3 DEF RequestOK, TypesOf
  <2> QED BY <2>1, <2>2, OwnerRows DEF Commits
<1>8. /\ CreateTypes \subseteq {TypeOf[v] : v \in vs}
      /\ \A v, w \in vs : TypeOf[v] = TypeOf[w] => v = w
  BY <1>1, <1>3 DEF RequestOK, TypesOf
<1>9. OwnerOf' = [v \in Service |->
         IF v \in vs THEN [stream |-> s, role |-> "primary"] ELSE OwnerOf[v]]
  BY <1>2, <1>4, <1>5, CommitFacts
<1>10. phase' = [phase EXCEPT ![s] = "idle"] /\ present' = present
  BY <1>2 DEF Commits, Committed, PhaseAfter
<1>11. vs \subseteq {v \in present : OwnerOf[v] = [stream |-> NoStream, role |-> "none"]
                                      /\ TypeOf[v] \in StartTypes}
  BY <1>7
<1>12. Store!CreateStream(s, vs)
  BY <1>6, <1>8, <1>9, <1>10, <1>11 DEF Store!CreateStream, Store!Unassigned, Store!On
<1> QED BY <1>12

LEMMA CommitClaim ==
  ASSUME NEW t, Commits(t), t.op.kind = "claim"
  PROVE  \E s \in Stream, m \in {{}} \cup {{v} : v \in Service} : Store!ClaimStart(s, m)
<1>1. RequestOK(t.op) /\ MayClaim(t.op) /\ t.plan = PlanOf(t) BY CommitFacts DEF Allowed
<1>2. PICK s \in Stream : s = t.op.stream BY <1>1 DEF RequestOK
<1>3. PICK m \in {{}} \cup {{v} : v \in Service} : m = t.op.materialize BY <1>1 DEF RequestOK
<1>4. m \subseteq t.op.services /\ t.op.services \subseteq present /\ present \subseteq Service
  BY <1>1, <1>3, CommitFacts DEF RequestOK
<1>5. t.plan.insert = m /\ t.plan.clear = {} BY <1>1, <1>3 DEF PlanOf, NoPlan
<1>6. InsertedRole(t.op) = "primary" BY DEF InsertedRole
<1>7. phase[s] = "idle" BY <1>1, <1>2 DEF MayClaim, Exists, Protected
<1>8. PICK actual : actual = ServicesOf(PrimariesOn(s)) OBVIOUS
<1>9. \A v \in Service : v \in actual <=> OwnerOf[v] = [stream |-> s, role |-> "primary"]
  <2> SUFFICES ASSUME NEW v \in Service
               PROVE  v \in actual <=> OwnerOf[v] = [stream |-> s, role |-> "primary"]
    OBVIOUS
  <2>1. OwnerOf[v] = [stream |-> s, role |-> "primary"] <=>
          [stream |-> s, service |-> v, role |-> "primary"] \in rows
    BY OwnerRows DEF Commits, Role
  <2>2. v \in actual <=> \E r \in rows : r.stream = s /\ r.role = "primary" /\ r.service = v
    BY <1>8 DEF ServicesOf, PrimariesOn, RowsOn
  <2>3. \A r \in rows : r.stream = s /\ r.role = "primary" /\ r.service = v =>
          r = [stream |-> s, service |-> v, role |-> "primary"]
    BY DEF Commits, TablesOK, Row
  <2>4. [stream |-> s, service |-> v, role |-> "primary"] \in rows => v \in actual
    <3>1. PICK r : r = [stream |-> s, service |-> v, role |-> "primary"] OBVIOUS
    <3>2. r.stream = s /\ r.role = "primary" /\ r.service = v BY <3>1
    <3> QED BY <2>2, <3>1, <3>2
  <2> QED BY <2>1, <2>2, <2>3, <2>4
<1>10. /\ \A v \in m : TypeOf[v] \notin TypesOf(actual) /\ current[v] \in {NoStream, s}
       /\ t.op.services = actual \cup m
       /\ StartTypes \subseteq TypesOf(t.op.services)
  BY <1>1, <1>2, <1>3, <1>8 DEF MayClaim
<1>11. actual \subseteq Service BY <1>4, <1>10
<1>12. Store!Served(OwnerOf, s) = TypesOf(actual)
  BY <1>9, <1>11 DEF Store!Served, Store!On, TypesOf
<1>13. ASSUME NEW v \in m
       PROVE  /\ v \in present /\ TypeOf[v] \notin Store!Served(OwnerOf, s)
              /\ OwnerOf[v] \in {Store!Unassigned, Store!On(s, "standby")}
  <2>1. v \in present /\ v \in Service BY <1>4, <1>13
  <2>2. v \notin actual BY <1>10, <1>13 DEF TypesOf
  <2>3. OwnerOf[v] # [stream |-> s, role |-> "primary"] BY <1>9, <2>1, <2>2
  <2>4. CASE current[v] = NoStream
    <3>1. OwnerOf[v] = [stream |-> NoStream, role |-> "none"] BY <2>1, <2>4, OwnerRows DEF Commits
    <3> QED BY <1>10, <1>12, <1>13, <2>1, <3>1 DEF Store!Unassigned, Store!On
  <2>5. CASE current[v] = s
    <3>1. \E role \in Role : OwnerOf[v] = [stream |-> s, role |-> role]
      BY <2>1, <2>5, OwnerRows DEF Commits
    <3>2. OwnerOf[v] = [stream |-> s, role |-> "standby"] BY <2>3, <3>1 DEF Role
    <3> QED BY <1>10, <1>12, <1>13, <2>1, <3>2 DEF Store!Unassigned, Store!On
  <2> QED BY <1>10, <1>13, <2>4, <2>5
<1>14. OwnerOf' = [v \in Service |->
         IF v \in m THEN [stream |-> s, role |-> "primary"] ELSE OwnerOf[v]]
  BY <1>2, <1>5, <1>6, CommitFacts
<1>15. StartTypes \subseteq Store!Served(OwnerOf', s)
  <2>1. \A w \in t.op.services : w \in Service /\ OwnerOf'[w] = [stream |-> s, role |-> "primary"]
    BY <1>4, <1>9, <1>10, <1>11, <1>14
  <2>2. TypesOf(t.op.services) \subseteq Store!Served(OwnerOf', s)
    BY <2>1 DEF Store!Served, Store!On, TypesOf
  <2> QED BY <1>10, <2>2
<1>16. phase' = [phase EXCEPT ![s] = "protected"] /\ present' = present
  BY <1>2 DEF Commits, Committed, PhaseAfter
<1>17. Store!ClaimStart(s, m)
  BY <1>7, <1>13, <1>14, <1>15, <1>16 DEF Store!ClaimStart, Store!On
<1> QED BY <1>17

LEMMA CommitRetry ==
  ASSUME NEW t, Commits(t), t.op.kind = "retry"
  PROVE  \E v \in Service, s \in Stream : Store!BeginArchiveRetry(v, s)
<1>1. RequestOK(t.op) /\ MayRetry(t.op) /\ t.plan = NoPlan
  BY CommitFacts DEF Allowed, PlanOf
<1>2. PICK v \in Service : t.op.services = {v} BY <1>1 DEF RequestOK, Single
<1>3. PICK s \in Stream : s = t.op.stream BY <1>1 DEF RequestOK
<1>4. v = TheService(t.op) /\ v \in present BY <1>2, TheServiceOf, CommitFacts
<1>5. TypeOf[v] = "encoder_recorder" /\ OwnerOf[v].stream = s /\ Store!Exists(s)
  BY <1>1, <1>3, <1>4, CommitFacts DEF MayRetry, Exists, Store!Exists
<1>6. OwnerOf' = OwnerOf BY <1>1, NoPlanKeeps
<1>7. phase' = [phase EXCEPT ![s] = "protected"] /\ present' = present
  BY <1>3 DEF Commits, Committed, PhaseAfter
<1>8. Store!BeginArchiveRetry(v, s) BY <1>4, <1>5, <1>6, <1>7 DEF Store!BeginArchiveRetry
<1> QED BY <1>8

\* Every commit is one operation of the store, or leaves it as it is.
LEMMA CommitStep ==
  ASSUME NEW t, Commits(t)
  PROVE  UNCHANGED <<OwnerOf, phase, present>> \/ Store!Next
<1>1. t.op.kind \in Kind BY DEF Commits, TxOK, RequestOK, OpRecord
<1>2. CASE t.op.kind = "assign"
  <2>1. CASE UNCHANGED <<OwnerOf, phase, present>> BY <2>1
  <2>2. CASE \E v \in Service, s \in Stream, role \in Role,
                e \in Stream \cup {NoStream, AnyStream} : Store!Assign(v, s, role, e)
    BY <2>2 DEF Store!Next, Store!Role, Role
  <2> QED BY <1>2, <2>1, <2>2, CommitAssign
<1>3. CASE t.op.kind \in {"unassign", "deleteService"} BY <1>3, CommitUnassign DEF Store!Next
<1>4. CASE t.op.kind = "deleteStream" BY <1>4, CommitDeleteStream DEF Store!Next
<1>5. CASE t.op.kind = "create" BY <1>5, CommitCreate DEF Store!Next
<1>6. CASE t.op.kind = "claim" BY <1>6, CommitClaim DEF Store!Next
<1>7. CASE t.op.kind = "retry" BY <1>7, CommitRetry DEF Store!Next
<1>8. CASE t.op.kind = "heartbeat"
  <2>1. t.plan = NoPlan BY <1>8, CommitFacts DEF PlanOf
  <2>2. phase' = phase /\ present' = present BY <1>8 DEF Commits, Committed
  <2> QED BY <2>1, <2>2, NoPlanKeeps
<1> QED BY <1>1, <1>2, <1>3, <1>4, <1>5, <1>6, <1>7, <1>8 DEF Kind

LEMMA WriteCommitted ==
  ASSUME LocksInv, NEW a \in Actor, Write(a)
  PROVE  \E t : Commits(t)
<1>0. /\ TablesOK /\ TablesAgree /\ HeldFound
      /\ \A b \in Actor : TxOK(tx[b]) /\ (tx[b].pc = "write" => Decided(tx[b]))
  BY DEF LocksInv
<1>1. PICK t : t = tx[a] OBVIOUS
<1>2. t.pc = "write" BY <1>1 DEF Write
<1>3. TxOK(t) /\ Decided(t) BY <1>0, <1>1, <1>2
<1>4. t.op.kind # "none" /\ t.held = LocksOf(t) BY <1>2, <1>3 DEF TxOK, LocksOK
<1>5. Covers(t) BY <1>0, <1>3, <1>4, PlanCovers
<1>6. Committed(t) BY <1>1, <1>5, WriteCommits
<1>7. \A v \in ServiceLocks(t) : ServiceRow(v) \in t.held BY <1>4, LocksOfMembers
<1>8. ServiceLocks(t) \subseteq Service BY <1>3, <1>4, LockedKeys
<1>9. ServiceLocks(t) \subseteq present BY <1>0, <1>1, <1>7, <1>8 DEF HeldFound
<1> QED BY <1>0, <1>3, <1>4, <1>5, <1>6, <1>9 DEF Commits

LEMMA StoreStep ==
  ASSUME LocksInv, [LocksNext]_lockVars
  PROVE  UNCHANGED <<OwnerOf, phase, present>> \/ Store!Next
<1>0. rows' = rows => OwnerOf' = OwnerOf
  <2>1. ASSUME rows' = rows PROVE \A v \in Service : RowsOf(v)' = RowsOf(v) BY <2>1 DEF RowsOf
  <2> QED BY <2>1, OwnersFrom
<1>1. CASE UNCHANGED <<rows, current, phase, present>> BY <1>0, <1>1
<1>2. CASE UNCHANGED lockVars BY <1>1, <1>2 DEF lockVars
<1>3. ASSUME NEW a \in Actor, Write(a)
      PROVE  UNCHANGED <<OwnerOf, phase, present>> \/ Store!Next
  BY <1>3, WriteCommitted, CommitStep
<1>4. ASSUME NEW a \in Actor, Step(a)
      PROVE  UNCHANGED <<rows, current, phase, present>> \/ Write(a)
  BY <1>4 DEF Step, Request, Discover, Lock, Validate, Fail, Rollback
<1>5. ASSUME NEW s \in Stream, ProtectionEnds(s)
      PROVE  UNCHANGED <<OwnerOf, phase, present>> \/ Store!Next
  <2>1. Store!EndProtection(s) BY <1>0, <1>5 DEF ProtectionEnds, Store!EndProtection
  <2> QED BY <2>1 DEF Store!Next
<1>6. ASSUME NEW v \in Service, Registered(v)
      PROVE  UNCHANGED <<OwnerOf, phase, present>> \/ Store!Next
  <2>1. Store!Register(v) BY <1>0, <1>6 DEF Registered, Store!Register
  <2> QED BY <2>1 DEF Store!Next
<1> QED BY <1>1, <1>2, <1>3, <1>4, <1>5, <1>6 DEF LocksNext

\* The MariaDB transactions, for any number of requests, streams and services,
\* implement the atomic operations of AssignmentStore (ImplementsStore): the
\* commit is the operation, everything before it leaves the owners alone, and
\* what the commit writes is what the operation says of the tables as they are
\* at the commit, not as they were when the locks were taken.
THEOREM TransactionsImplementStore == LocksSpec => ImplementsStore
<1>1. ASSUME LocksInit PROVE Store!Init
  <2>1. \A v \in Service : RowsOf(v) = {} BY <1>1 DEF LocksInit, RowsOf
  <2>2. OwnerOf = [v \in Service |-> [stream |-> NoStream, role |-> "none"]]
    BY <2>1, OwnersFrom, OwnerInOf
  <2> QED BY <1>1, <2>2 DEF LocksInit, Store!Init, Store!Unassigned, Store!On
<1>2. LocksInv /\ [LocksNext]_lockVars =>
        [Store!vars' # Store!vars => Store!Next]_lockVars
  BY StoreStep DEF Store!vars
<1> QED BY <1>1, <1>2, LocksInvariance, PTL DEF LocksSpec, ImplementsStore
=============================================================================
