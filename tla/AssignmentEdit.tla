--------------------------- MODULE AssignmentEdit ---------------------------
(***************************************************************************)
(* The settings form of a stream changes its encoder, Worker and Bot with   *)
(* one request, but each service is a transaction of its own: the handler   *)
(* snapshots the owners, applies one guarded operation after the other,     *)
(* saves the settings, and undoes what it applied when a step fails.        *)
(* Operators on other pages and start claims act between its steps.         *)
(***************************************************************************)
EXTENDS AssignmentStore

CONSTANTS
  Editor,         \* concurrent settings requests
  Keep, Clear,    \* what the form says of a type besides naming a service
  InitialRoles    \* the roles services have when a run begins

ASSUME EditAssumption ==
  /\ Keep \notin Service /\ Clear \notin Service /\ Keep # Clear

VARIABLE edit  \* the settings request each editor has under way

editVars == <<owner, phase, present, edit>>

TypeOrder == <<"encoder_recorder", "worker", "discord_bot">>
Form == [Range(TypeOrder) -> Service \cup {Keep, Clear}]
WellTyped(form) == \A t \in DOMAIN form : form[t] \in Service => TypeOf[form[t]] = t
Named(form) == {form[t] : t \in DOMAIN form} \cap Service

NoForm == [t \in Range(TypeOrder) |-> Keep]
NoEdit == [pc |-> "idle", stream |-> NoStream, snapshot |-> <<>>, todo |-> {},
           applied |-> {}, mutated |-> FALSE]

\* snapshotStreamServiceAssignments.  A service the form names is read again
\* with GetService, which has no role: it normalises to primary.
SnapshotOf(s, form) ==
  [v \in {w \in Service : owner[w].stream = s /\ form[TypeOf[w]] # Keep} \cup Named(form) |->
     IF v \in Named(form) THEN On(owner[v].stream, "primary") ELSE owner[v]]

Ops(kind, vs) == {[kind |-> kind, service |-> v] : v \in vs}

\* The operations of the form for type t: set it, or clear it everywhere.
OpsFor(t, s, form, snapshot) ==
  IF form[t] \in Service THEN Ops("set", {form[t]})
  ELSE IF form[t] = Clear
    THEN Ops("clear", {v \in DOMAIN snapshot : TypeOf[v] = t /\ snapshot[v].stream = s})
    ELSE {}

\* A Bot another stream owns is not transferred by the form.
BotTaken(s, form, snapshot) ==
  \E v \in Named(form) :
    TypeOf[v] = "discord_bot" /\ snapshot[v].stream \notin {NoStream, s}

\* The store as earlier requests left it: a stream is protected by a start or
\* an archive retry, and so has an encoder.
EditInit ==
  /\ owner \in [Service -> {o \in Assignment : o.role \in InitialRoles \cup {"none"}}]
  /\ phase \in [Stream -> {"absent", "idle", "protected"}]
  /\ present = Service
  /\ OnePrimary /\ NoDangling
  /\ \A s \in Stream : Protected(s) =>
       \E v \in Service : owner[v].stream = s /\ TypeOf[v] = "encoder_recorder"
  /\ edit = [r \in Editor |-> NoEdit]

\* updateStreamSettings up to its first guarded operation.  It refuses a
\* stream whose status is active; one that is protected for its archive
\* alone passes, and is refused by the store.
Begin(r) ==
  /\ edit[r].pc = "idle"
  /\ \E s \in Stream, form \in {f \in Form : WellTyped(f)} :
       LET snapshot == SnapshotOf(s, form) IN
       /\ Exists(s)
       /\ form # NoForm
       /\ Named(form) \subseteq present
       /\ ~BotTaken(s, form, snapshot)
       /\ edit' = [edit EXCEPT ![r] =
            [NoEdit EXCEPT !.pc = "apply", !.stream = s, !.snapshot = snapshot,
               !.todo = UNION {OpsFor(t, s, form, snapshot) : t \in DOMAIN form}]]
  /\ UNCHANGED vars

\* Rollback: a no-op unless something was recorded as applied or cleared.
\* Otherwise it undoes what was applied, then gives the snapshotted services
\* back to the streams that had them.
RollingBack(e) ==
  LET owned == {v \in DOMAIN e.snapshot : e.snapshot[v].stream # NoStream} IN
  IF e.mutated
    THEN [e EXCEPT !.pc = "rollback", !.todo = Ops("undo", e.applied) \cup Ops("restore", owned)]
    ELSE [e EXCEPT !.pc = "failed", !.todo = {}]

\* The operations are taken by stages, and sorted by service id in each: the
\* form's types in turn; then what is undone, what is restored to other
\* streams and what to this one.
Stage(e, op) ==
  CASE op.kind \in {"set", "clear"} -> Position(TypeOrder, TypeOf[op.service])
    [] op.kind = "undo" -> 1
    [] op.kind = "restore" -> IF e.snapshot[op.service].stream = e.stream THEN 3 ELSE 2

Earlier(e, p, q) ==
  \/ Stage(e, p) < Stage(e, q)
  \/ /\ Stage(e, p) = Stage(e, q)
     /\ Position(ServiceOrder, p.service) < Position(ServiceOrder, q.service)

\* The operation that is next, if any is left.
NextOp(e) == {op \in e.todo : \A other \in e.todo : ~Earlier(e, other, op)}

\* Mutant: the assignment of a settings edit carries no expected owner.
ExpectedByAnyone(e, v) == AnyStream

\* The owner an assignment of the form expects: the one it saw.
ExpectedBy(e, v) == e.snapshot[v].stream

Perform(e, op) ==
  CASE op.kind = "clear" -> Unassign(op.service, e.stream)
    [] op.kind = "set" ->
         Assign(op.service, e.stream, "primary", ExpectedBy(e, op.service))
    [] op.kind = "undo" -> Unassign(op.service, e.stream)
    [] op.kind = "restore" ->
         Assign(op.service, e.snapshot[op.service].stream,
                e.snapshot[op.service].role, NoStream)

\* What the handler remembers of a step it applied.
Recorded(e, op) ==
  IF op.kind = "clear" THEN [e EXCEPT !.mutated = TRUE]
  ELSE IF op.kind = "set" /\ e.snapshot[op.service] # On(e.stream, "primary")
    THEN [e EXCEPT !.mutated = TRUE, !.applied = @ \cup {op.service}]
    ELSE e

Apply(r) ==
  LET e == edit[r] IN
  \E op \in NextOp(e) :
    /\ Perform(e, op)
    /\ edit' = [edit EXCEPT ![r] = [Recorded(e, op) EXCEPT !.todo = @ \ {op}]]

\* The store refuses, for what it found or for a lock conflict or an outage:
\* an applying edit rolls back, a rollback gives up.  An undo of a service
\* deleted meanwhile is passed over.
Refused(r) ==
  LET e == edit[r] IN
  /\ \E op \in NextOp(e) :
       edit' = [edit EXCEPT ![r] =
         IF e.pc = "apply" THEN RollingBack(e)
         ELSE IF op.kind = "undo" /\ op.service \notin present
           THEN [e EXCEPT !.todo = @ \ {op}]
           ELSE [e EXCEPT !.pc = "rollback_failed", !.todo = {}]]
  /\ UNCHANGED vars

\* The settings are saved, or refused: a relay binding claim, an archive
\* setting, a deleted stream.
Save(r) ==
  /\ edit[r].pc = "apply" /\ edit[r].todo = {}
  /\ edit' = [edit EXCEPT ![r] = [@ EXCEPT !.pc = "saved"]]
  /\ UNCHANGED vars

SaveFails(r) ==
  /\ edit[r].pc = "apply" /\ edit[r].todo = {}
  /\ edit' = [edit EXCEPT ![r] = RollingBack(@)]
  /\ UNCHANGED vars

RolledBack(r) ==
  /\ edit[r].pc = "rollback" /\ edit[r].todo = {}
  /\ edit' = [edit EXCEPT ![r].pc = "failed"]
  /\ UNCHANGED vars

Respond(r) ==
  /\ edit[r].pc \in {"saved", "failed", "rollback_failed"}
  /\ edit' = [edit EXCEPT ![r] = NoEdit]
  /\ UNCHANGED vars

EditStep(r) ==
  Begin(r) \/ Apply(r) \/ Refused(r) \/ Save(r) \/ SaveFails(r) \/ RolledBack(r) \/ Respond(r)

EditNext ==
  \/ \E r \in Editor : EditStep(r)
  \/ Next /\ UNCHANGED edit

EditSpec == EditInit /\ [][EditNext]_editVars
-----------------------------------------------------------------------------
(* Properties.                                                             *)

EditTypeOK ==
  /\ TypeOK
  /\ \A r \in Editor :
       /\ edit[r].pc \in {"idle", "apply", "rollback", "saved", "failed", "rollback_failed"}
       /\ edit[r].stream \in Stream \cup {NoStream}
       /\ edit[r].applied \subseteq DOMAIN edit[r].snapshot

\* The form never takes a Bot from another stream, even when the Bot was
\* given away between the snapshot and the guarded assignment.
BotNotTransferred ==
  [][\A r \in Editor : \A v \in Service :
       /\ edit[r].pc = "apply" /\ edit'[r] # edit[r]
       /\ TypeOf[v] = "discord_bot"
       /\ owner'[v].stream = edit[r].stream
       => owner[v].stream \in {NoStream, edit[r].stream}]_editVars

=============================================================================
