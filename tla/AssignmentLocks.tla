-------------------------- MODULE AssignmentLocks --------------------------
(***************************************************************************)
(* The MariaDB transactions behind the guarded assignment store.  No unique *)
(* key of the schema forbids two primaries, and two tables say who owns a   *)
(* service, so correctness rests on the protocol every writer follows:      *)
(* discover without locks what the operation touches; lock the streams,     *)
(* then the services, then the assignment rows, each sorted by id; read     *)
(* everything again and compare; decide; write and commit.                  *)
(*                                                                         *)
(* One action is one group of statements: the read of the service, the      *)
(* read of the rows, one FOR UPDATE, the reads after the locks, the writes  *)
(* with the commit.  A lock wait timeout, a deadlock victim, a lost         *)
(* connection or a cancelled request rolls the transaction back.            *)
(*                                                                         *)
(* Row ids are left out: the code takes a row deleted and inserted again    *)
(* between discovery and revalidation for a conflict, the model lets that   *)
(* transaction go on as well as fail.  The order of row ids, any fixed one,  *)
(* is that of the services.                                                *)
(***************************************************************************)
EXTENDS AssignmentTables

CONSTANTS
  Actor,         \* concurrent requests, on any number of Panels
  Kinds,         \* the operations a run lets each request perform
  Roles,         \* the roles a run's assignments ask for
  Expectations,  \* the values of ExpectedCurrentStreamID a run tries
  StreamOrder    \* the streams, sorted by id

Kind == {"assign", "unassign", "deleteService", "retry", "heartbeat", "deleteStream",
         "create", "claim"}

ASSUME LocksAssumption ==
  /\ \A a \in Actor : Kinds[a] \subseteq Kind
  /\ Roles \subseteq Role
  /\ Expectations \subseteq Stream \cup {NoStream, AnyStream}
  /\ StreamOrder \in Seq(Stream)
  /\ Range(StreamOrder) = Stream

VARIABLES
  rows,      \* stream_service_assignments
  current,   \* services.current_stream_id
  tx         \* the transaction each request has under way

lockVars == <<rows, current, phase, present, tx>>

Row == [stream : Stream, service : Service, role : Role]

RowsOf(v) == {r \in rows : r.service = v}
RowsOn(s) == {r \in rows : r.stream = s}
PrimariesOn(s) == {r \in RowsOn(s) : r.role = "primary"}
ServicesOf(rs) == {r.service : r \in rs}
TypesOf(vs) == {TypeOf[v] : v \in vs}

\* consistentMariaDBServiceAssignment: the two tables agree on v's owner.
Consistent(v) ==
  \/ RowsOf(v) = {} /\ current[v] = NoStream
  \/ \E r \in rows : RowsOf(v) = {r} /\ current[v] = r.stream
-----------------------------------------------------------------------------
(* Requests.  op.services are the services the request names: the one to   *)
(* assign, unassign, report for, retry or delete; those a creation         *)
(* reserves; those the start's preflight saw, materialized one included.   *)

Operation(kind, vs, s, role, e, m) ==
  [kind |-> kind, services |-> vs, stream |-> s, role |-> role, expected |-> e,
   materialize |-> m]
NoOp == Operation("none", {}, NoStream, "none", AnyStream, {})

\* A creation draws a fresh stream id: no other creation has the same one.
NewId(s) ==
  /\ phase[s] = "absent"
  /\ \A a \in Actor : tx[a].op.kind = "create" => tx[a].op.stream # s

Existing == {s \in Stream : Exists(s)}
FreshIds == {s \in Stream : NewId(s)}

\* What a creation may reserve: one service of each type, none missing.
Reservations ==
  {vs \in SUBSET present :
     /\ CreateTypes \subseteq TypesOf(vs)
     /\ TypesOf(vs) \subseteq StartTypes
     /\ \A v, w \in vs : TypeOf[v] = TypeOf[w] => v = w}

Requests(kind) ==
  CASE kind = "assign" ->
         {Operation(kind, {v}, s, role, e, {}) :
            v \in present, s \in Existing, role \in Roles, e \in Expectations}
    [] kind = "unassign" ->
         {Operation(kind, {v}, NoStream, "none", e, {}) : v \in present, e \in Expectations}
    [] kind = "deleteService" ->
         {Operation(kind, {v}, NoStream, "none", AnyStream, {}) : v \in present}
    [] kind = "retry" ->
         {Operation(kind, {v}, s, "none", AnyStream, {}) : v \in present, s \in Stream}
    [] kind = "heartbeat" ->
         {Operation(kind, {v}, s, "none", AnyStream, {}) :
            v \in present, s \in Stream \cup {NoStream}}
    [] kind = "deleteStream" ->
         {Operation(kind, {}, s, "none", AnyStream, {}) : s \in Existing}
    [] kind = "create" ->
         {Operation(kind, vs, s, "none", AnyStream, {}) : vs \in Reservations, s \in FreshIds}
    [] kind = "claim" ->
         {Operation(kind, ServicesOf(PrimariesOn(s)) \cup m, s, "none", AnyStream, m) :
            s \in Existing, m \in {{}} \cup {{v} : v \in present}}

Single(op) == op.kind \in {"assign", "unassign", "deleteService", "retry", "heartbeat"}
TheService(op) == CHOOSE v \in op.services : TRUE

\* The rows an operation works on, read without locks and again after them.
DiscoverRows(op) ==
  {r \in rows :
     /\ op.kind # "create"
     /\ \/ r.service \in op.services
        \/ /\ r.stream = op.stream
           /\ \/ op.kind \in {"deleteStream", "claim"}
              \/ /\ op.kind = "assign" /\ op.role = "primary" /\ r.role = "primary"
                 /\ TypeOf[r.service] = TypeOf[TheService(op)]}

\* discoverMariaDBCurrentStreamServiceIDs, which only a stream's deletion reads.
DiscoverHolders(op) ==
  {v \in present : op.kind = "deleteStream" /\ current[v] = op.stream}

NoPlan == [delete |-> {}, clear |-> {}, insert |-> {}]
Idle == [pc |-> "idle", op |-> NoOp, owner |-> NoStream, rows |-> {},
         holders |-> {}, held |-> {}, todo |-> {}, plan |-> NoPlan]

LocksInit ==
  /\ rows = {}
  /\ current = [v \in Service |-> NoStream]
  /\ phase \in [Stream -> {"absent", "idle"}]
  /\ present = Service
  /\ tx = [a \in Actor |-> Idle]

\* The request arrives; a service operation reads its services row.
Request(a) ==
  /\ tx[a].pc = "idle"
  /\ \E kind \in Kinds[a] : \E op \in Requests(kind) :
       tx' = [tx EXCEPT ![a] =
                [Idle EXCEPT !.pc = "discover", !.op = op,
                   !.owner = IF Single(op) THEN current[TheService(op)] ELSE NoStream]]
  /\ UNCHANGED <<rows, current, phase, present>>

-----------------------------------------------------------------------------
(* Locks.                                                                  *)

\* A lock is the lock of one row of one of the three tables.
StreamRow(s) == [table |-> "streams", row |-> s]
ServiceRow(v) == [table |-> "services", row |-> v]
AssignmentRow(r) == [table |-> "stream_service_assignments", row |-> r]
Locks ==
  {StreamRow(s) : s \in Stream} \cup {ServiceRow(v) : v \in Service}
  \cup {AssignmentRow(r) : r \in Row}

StreamLocks(t) ==
  IF t.op.kind = "create" THEN {}
  ELSE Stream \cap ({t.op.stream, t.owner} \cup {r.stream : r \in t.rows})
ServiceLocks(t) == t.op.services \cup t.holders \cup ServicesOf(t.rows)

\* The locks transaction t needs.
LocksOf(t) ==
  {StreamRow(s) : s \in StreamLocks(t)} \cup {ServiceRow(v) : v \in ServiceLocks(t)}
  \cup {AssignmentRow(r) : r \in t.rows}

\* The sorted order of locks: streams, then services, then assignment rows.
Rank ==
  [lock \in Locks |->
     CASE lock.table = "streams" -> Position(StreamOrder, lock.row)
       [] lock.table = "services" -> Len(StreamOrder) + Position(ServiceOrder, lock.row)
       [] OTHER ->
            Len(StreamOrder) + Len(ServiceOrder) + Position(ServiceOrder, lock.row.service)]

\* Mutant: the streams and services the request names are locked first.
NextLockAsNamed(t) ==
  LET named(lock) == lock.row \in {t.op.stream} \cup t.op.materialize
      before(x, y) == \/ x.table = y.table /\ named(x) /\ ~named(y)
                      \/ (x.table = y.table => (named(x) = named(y))) /\ Rank[x] < Rank[y]
  IN {lock \in t.todo : \A other \in t.todo : ~before(other, lock)}

\* The lock t takes next, if any is left: the first in the sorted order.
NextLock(t) == {lock \in t.todo : \A other \in t.todo : Rank[lock] <= Rank[other]}

\* The discovery reads its rows; the transaction begins.
Discover(a) ==
  LET op == tx[a].op
      found == [tx[a] EXCEPT !.rows = DiscoverRows(op), !.holders = DiscoverHolders(op)]
  IN /\ tx[a].pc = "discover"
     /\ tx' = [tx EXCEPT ![a] = [found EXCEPT !.pc = "lock", !.todo = LocksOf(found)]]
     /\ UNCHANGED <<rows, current, phase, present>>

HeldByOther(a, x) == \E b \in Actor \ {a} : x \in tx[b].held

\* What a FOR UPDATE finds: the row, or nothing left to lock.
Found(x) ==
  CASE x.table = "streams" -> phase[x.row] # "absent"
    [] x.table = "services" -> x.row \in present
    [] OTHER -> x.row \in rows

Rollback(a) ==
  /\ tx' = [tx EXCEPT ![a] = Idle]
  /\ UNCHANGED <<rows, current, phase, present>>

Lock(a) ==
  \E x \in NextLock(tx[a]) :
    /\ ~HeldByOther(a, x)
    /\ IF Found(x)
         THEN /\ tx' = [tx EXCEPT ![a].held = @ \cup {x}, ![a].todo = @ \ {x}]
              /\ UNCHANGED <<rows, current, phase, present>>
         ELSE Rollback(a)

Fail(a) == tx[a].pc # "idle" /\ Rollback(a)
-----------------------------------------------------------------------------
(* The decision, after all locks.                                          *)

\* What was discovered is still what the tables say.
Revalidated(t) ==
  /\ Single(t.op) => current[TheService(t.op)] = t.owner
  /\ t.rows = DiscoverRows(t.op)
  /\ t.holders = DiscoverHolders(t.op)

Expected(op) == op.expected \in {AnyStream, current[TheService(op)]}
AlreadyAssigned(op) ==
  \E r \in RowsOf(TheService(op)) : r.stream = op.stream /\ r.role = op.role

Replaced(op) == {r \in DiscoverRows(op) : r.service \notin op.services}

\* The owner, if any, exists and is not protected.
MayLeave(v) == current[v] = NoStream \/ phase[current[v]] = "idle"

\* Mutant: only the former owner's protection is looked at.
MayAssignToProtected(op) ==
  /\ Exists(op.stream) /\ Consistent(TheService(op)) /\ Expected(op)
  /\ MayLeave(TheService(op))
  /\ \A r \in Replaced(op) : Replaced(op) = {r} /\ Consistent(r.service)

MayAssign(op) ==
  /\ Exists(op.stream)
  /\ Consistent(TheService(op))
  /\ Expected(op)
  /\ \/ AlreadyAssigned(op) /\ Replaced(op) = {}
     \/ /\ ~AlreadyAssigned(op)
        /\ MayLeave(TheService(op))
        /\ ~Protected(op.stream)
        /\ \A r \in Replaced(op) : Replaced(op) = {r} /\ Consistent(r.service)

MayUnassign(op) ==
  /\ Consistent(TheService(op))
  /\ Expected(op)
  /\ MayLeave(TheService(op))

MayRetry(op) ==
  /\ TypeOf[TheService(op)] = "encoder_recorder"
  /\ Consistent(TheService(op))
  /\ current[TheService(op)] = op.stream
  /\ Exists(op.stream)

\* Mutant: a heartbeat's stream is stored without comparing it with the owner.
MayReportAny(op) == Consistent(TheService(op))

MayReport(op) ==
  /\ Consistent(TheService(op))
  /\ op.stream \in {NoStream, current[TheService(op)]}

MayDeleteStream(t) ==
  /\ Exists(t.op.stream) /\ ~Protected(t.op.stream)
  /\ ServicesOf(t.rows) = t.holders
  /\ \A v \in t.holders : Consistent(v)

MayCreate(op) ==
  /\ phase[op.stream] = "absent"
  /\ \A v \in op.services : Consistent(v) /\ current[v] = NoStream

MayClaim(op) ==
  LET primaries == PrimariesOn(op.stream)
      actual == ServicesOf(primaries)
  IN /\ Exists(op.stream) /\ ~Protected(op.stream)
     /\ \A v \in actual : Consistent(v) /\ \A w \in actual : TypeOf[v] = TypeOf[w] => v = w
     /\ \A v \in op.materialize :
          /\ TypeOf[v] \notin TypesOf(actual)
          /\ Consistent(v)
          /\ current[v] \in {NoStream, op.stream}
     /\ op.services = actual \cup op.materialize
     /\ StartTypes \subseteq TypesOf(op.services)

Allowed(t) ==
  CASE t.op.kind = "assign" -> MayAssign(t.op)
    [] t.op.kind = "unassign" -> MayUnassign(t.op)
    [] t.op.kind = "deleteService" -> MayUnassign(t.op)
    [] t.op.kind = "retry" -> MayRetry(t.op)
    [] t.op.kind = "heartbeat" -> MayReport(t.op)
    [] t.op.kind = "deleteStream" -> MayDeleteStream(t)
    [] t.op.kind = "create" -> MayCreate(t.op)
    [] t.op.kind = "claim" -> MayClaim(t.op)

\* The rows to delete, the services to set free and those to insert a row for.
PlanOf(t) ==
  LET op == t.op IN
  CASE op.kind = "assign" /\ ~AlreadyAssigned(op) ->
         [delete |-> t.rows, clear |-> ServicesOf(Replaced(op)), insert |-> op.services]
    [] op.kind \in {"unassign", "deleteService"} ->
         [delete |-> t.rows, clear |-> op.services, insert |-> {}]
    [] op.kind = "deleteStream" ->
         [delete |-> t.rows, clear |-> t.holders, insert |-> {}]
    [] op.kind = "create" -> [NoPlan EXCEPT !.insert = op.services]
    [] op.kind = "claim" ->
         [NoPlan EXCEPT !.delete = {r \in t.rows : r.service \in op.materialize},
                        !.insert = op.materialize]
    [] OTHER -> NoPlan

Validate(a) ==
  /\ tx[a].pc = "lock" /\ tx[a].todo = {}
  /\ IF Revalidated(tx[a]) /\ Allowed(tx[a])
       THEN /\ tx' = [tx EXCEPT ![a].pc = "write", ![a].plan = PlanOf(tx[a])]
            /\ UNCHANGED <<rows, current, phase, present>>
       ELSE Rollback(a)
-----------------------------------------------------------------------------
(* The writes and the commit.                                              *)

InsertedRole(op) == IF op.kind = "assign" THEN op.role ELSE "primary"

PhaseAfter(op) ==
  CASE op.kind = "deleteStream" -> "deleted"
    [] op.kind = "create" -> "idle"
    [] op.kind \in {"claim", "retry"} -> "protected"

Write(a) ==
  LET t == tx[a]
      op == t.op
  IN
  /\ t.pc = "write"
  /\ IF ~(t.plan.delete \subseteq rows)
       THEN Rollback(a)
       ELSE
         /\ rows' = (rows \ t.plan.delete) \cup
              {[stream |-> op.stream, service |-> v, role |-> InsertedRole(op)] : v \in t.plan.insert}
         /\ current' = [v \in Service |->
              IF v \in t.plan.insert THEN op.stream
              ELSE IF v \in t.plan.clear THEN NoStream
              ELSE IF op.kind = "heartbeat" /\ v \in op.services /\ op.stream # NoStream
                THEN op.stream
                ELSE current[v]]
         /\ phase' = IF op.kind \in {"deleteStream", "create", "claim", "retry"}
                       THEN [phase EXCEPT ![op.stream] = PhaseAfter(op)] ELSE phase
         /\ present' = IF op.kind = "deleteService" THEN present \ op.services ELSE present
         /\ tx' = [tx EXCEPT ![a] = Idle]

\* The lifecycle's own UPDATE of the streams row waits for its lock.
ProtectionEnds(s) ==
  /\ phase[s] = "protected"
  /\ \A a \in Actor : StreamRow(s) \notin tx[a].held
  /\ phase' = [phase EXCEPT ![s] = "idle"]
  /\ UNCHANGED <<rows, current, present, tx>>

Registered(v) ==
  /\ v \notin present
  /\ present' = present \cup {v}
  /\ UNCHANGED <<rows, current, phase, tx>>

Step(a) == Request(a) \/ Discover(a) \/ Lock(a) \/ Validate(a) \/ Write(a) \/ Fail(a)

LocksNext ==
  \/ \E a \in Actor : Step(a)
  \/ \E s \in Stream : ProtectionEnds(s)
  \/ \E v \in Service : Registered(v)

LocksSpec == LocksInit /\ [][LocksNext]_lockVars
-----------------------------------------------------------------------------
(* Properties.                                                             *)

LocksTypeOK ==
  /\ rows \subseteq Row
  /\ current \in [Service -> Stream \cup {NoStream}]
  /\ phase \in [Stream -> Phase]
  /\ present \subseteq Service
  /\ \A a \in Actor :
       /\ tx[a].pc \in {"idle", "discover", "lock", "write"}
       /\ tx[a].rows \subseteq Row
       /\ tx[a].held \subseteq Locks
       /\ tx[a].plan.delete \subseteq tx[a].rows

\* The two tables agree on every service's owner at every commit, heartbeats
\* included: an inconsistent service would be refused by every later
\* operation, its deletion included.
TablesAgree == \A v \in Service : Consistent(v) /\ (v \notin present => RowsOf(v) = {})

\* The next lock a needs is b's.
WaitsFor(a, b) == b # a /\ NextLock(tx[a]) \cap tx[b].held # {}

\* No set of requests waits in a circle for each other's locks: the sorted
\* streams-services-rows order leaves no deadlock for InnoDB to break
\* (service_assignment_guard_order_mariadb.go).
NoWaitCycle ==
  \A as \in (SUBSET Actor) \ {{}} : \E a \in as : \A b \in as : ~WaitsFor(a, b)

\* The owner that both tables record.
OwnerOf ==
  [v \in Service |->
     LET on == {[stream |-> r.stream, role |-> r.role] : r \in RowsOf(v)}
     IN IF on = {} THEN [stream |-> NoStream, role |-> "none"] ELSE CHOOSE o \in on : TRUE]
Store == INSTANCE AssignmentStore WITH owner <- OwnerOf

\* The MariaDB transactions (discover, lock, revalidate, write) implement the
\* atomic operations of AssignmentStore: this is Store!Spec, stated so that TLC
\* looks for a store step only where the store changes.
ImplementsStore ==
  Store!Init /\ [][Store!vars' # Store!vars => Store!Next]_lockVars
=============================================================================
