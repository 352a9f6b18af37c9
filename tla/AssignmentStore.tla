-------------------------- MODULE AssignmentStore --------------------------
(***************************************************************************)
(* What the guarded assignment store promises its callers: every operation *)
(* on stream_service_assignments and services.current_stream_id is one     *)
(* atomic step that either refuses or leaves each service with at most one *)
(* owner, each stream with at most one primary service per service type,   *)
(* and the services of a protected stream where they are.                  *)
(* The error codes of a refusal are not told apart: a refused operation    *)
(* changes nothing.                                                        *)
(***************************************************************************)
EXTENDS AssignmentTables

VARIABLE owner  \* each service's assignment

vars == <<owner, phase, present>>

On(s, role) == [stream |-> s, role |-> role]
Unassigned == On(NoStream, "none")
Assignment == {On(s, role) : s \in Stream, role \in Role} \cup {Unassigned}

\* Mutant: the displaced primary keeps its assignment.
PlacedBeside(o, v, s, role) == [o EXCEPT ![v] = On(s, role)]

\* The assignments o once v serves s in that role: v leaves its former
\* owner and, as a primary, displaces the primary of its type.
Placed(o, v, s, role) ==
  [w \in Service |->
     IF w = v THEN On(s, role)
     ELSE IF role = "primary" /\ o[w] = On(s, "primary") /\ TypeOf[w] = TypeOf[v]
       THEN Unassigned
       ELSE o[w]]

\* The assignments o without those of ws.
Cleared(o, ws) == [w \in Service |-> IF w \in ws THEN Unassigned ELSE o[w]]

Served(o, s) == {TypeOf[w] : w \in {x \in Service : o[x] = On(s, "primary")}}

TypeOK ==
  /\ owner \in [Service -> Assignment]
  /\ phase \in [Stream -> Phase]
  /\ present \subseteq Service

Init ==
  /\ owner = [v \in Service |-> Unassigned]
  /\ phase \in [Stream -> {"absent", "idle"}]
  /\ present = Service
-----------------------------------------------------------------------------
\* Mutant: only the target's protection is looked at.
AssignAllowedFromProtected(v, s, role, expected) ==
  /\ v \in present
  /\ Exists(s)
  /\ expected \in {AnyStream, owner[v].stream}
  /\ ~Protected(s)

AssignAllowed(v, s, role, expected) ==
  /\ v \in present
  /\ Exists(s)
  /\ expected \in {AnyStream, owner[v].stream}
  /\ \/ owner[v] = On(s, role)
     \/ ~Protected(owner[v].stream) /\ ~Protected(s)

Assign(v, s, role, expected) ==
  /\ AssignAllowed(v, s, role, expected)
  /\ owner' = IF owner[v] = On(s, role) THEN owner ELSE Placed(owner, v, s, role)
  /\ UNCHANGED <<phase, present>>

UnassignAllowed(v, expected) ==
  /\ v \in present
  /\ expected \in {AnyStream, owner[v].stream}
  /\ ~Protected(owner[v].stream)

Unassign(v, expected) ==
  /\ UnassignAllowed(v, expected)
  /\ owner' = Cleared(owner, {v})
  /\ UNCHANGED <<phase, present>>

\* Mutant: a deleted stream keeps its standby services.
DeleteStreamPrimaries(s) ==
  /\ phase[s] = "idle"
  /\ owner' = Cleared(owner, {v \in Service : owner[v] = On(s, "primary")})
  /\ phase' = [phase EXCEPT ![s] = "deleted"]
  /\ UNCHANGED present

DeleteStream(s) ==
  /\ phase[s] = "idle"
  /\ owner' = Cleared(owner, {v \in Service : owner[v].stream = s})
  /\ phase' = [phase EXCEPT ![s] = "deleted"]
  /\ UNCHANGED present

DeleteService(v) ==
  /\ v \in present
  /\ ~Protected(owner[v].stream)
  /\ owner' = Cleared(owner, {v})
  /\ present' = present \ {v}
  /\ UNCHANGED phase

Register(v) ==
  /\ v \notin present
  /\ present' = present \cup {v}
  /\ UNCHANGED <<owner, phase>>

\* The new stream takes free services only, one per type.
CreateStream(s, vs) ==
  /\ phase[s] = "absent"
  /\ vs \subseteq {v \in present : owner[v] = Unassigned /\ TypeOf[v] \in StartTypes}
  /\ CreateTypes \subseteq {TypeOf[v] : v \in vs}
  /\ \A v, w \in vs : TypeOf[v] = TypeOf[w] => v = w
  /\ owner' = [v \in Service |-> IF v \in vs THEN On(s, "primary") ELSE owner[v]]
  /\ phase' = [phase EXCEPT ![s] = "idle"]
  /\ UNCHANGED present

\* A start claim, which may first make the configured service its primary.
ClaimStart(s, materialize) ==
  /\ phase[s] = "idle"
  /\ \A v \in materialize :
       /\ v \in present
       /\ owner[v] \in {Unassigned, On(s, "standby")}
       /\ TypeOf[v] \notin Served(owner, s)
  /\ owner' = [v \in Service |->
                 IF v \in materialize THEN On(s, "primary") ELSE owner[v]]
  /\ StartTypes \subseteq Served(owner', s)
  /\ phase' = [phase EXCEPT ![s] = "protected"]
  /\ UNCHANGED present

BeginArchiveRetry(v, s) ==
  /\ v \in present
  /\ TypeOf[v] = "encoder_recorder"
  /\ owner[v].stream = s
  /\ Exists(s)
  /\ phase' = [phase EXCEPT ![s] = "protected"]
  /\ UNCHANGED <<owner, present>>

\* The stream's lifecycle and its archive work come to their end.
EndProtection(s) ==
  /\ phase[s] = "protected"
  /\ phase' = [phase EXCEPT ![s] = "idle"]
  /\ UNCHANGED <<owner, present>>

Next ==
  \/ \E v \in Service, s \in Stream, role \in Role,
        e \in Stream \cup {NoStream, AnyStream} : Assign(v, s, role, e)
  \/ \E v \in Service, e \in Stream \cup {NoStream, AnyStream} : Unassign(v, e)
  \/ \E v \in Service : DeleteService(v) \/ Register(v)
  \/ \E s \in Stream : DeleteStream(s) \/ EndProtection(s)
  \/ \E s \in Stream, vs \in SUBSET Service : CreateStream(s, vs)
  \/ \E s \in Stream, m \in {{}} \cup {{v} : v \in Service} : ClaimStart(s, m)
  \/ \E v \in Service, s \in Stream : BeginArchiveRetry(v, s)

Spec == Init /\ [][Next]_vars
-----------------------------------------------------------------------------
(* Properties.                                                             *)

\* A stream never has two primary services of one type, whatever transfers,
\* creations and start claims happened: dispatch picks "the" encoder.
OnePrimary ==
  \A v, w \in Service :
    owner[v] = owner[w] /\ owner[v].role = "primary" /\ TypeOf[v] = TypeOf[w] => v = w

\* Only a registered service is assigned, and only to a stream that exists:
\* deleting either side never leaves a dangling assignment.
NoDangling ==
  \A v \in Service :
    owner[v] # Unassigned => v \in present /\ Exists(owner[v].stream)

\* A protected stream keeps exactly its services, in their roles, at every
\* step that leaves it protected: not lost to a transfer, not gained, not
\* displaced, not deleted with their service.
ProtectedFrozen ==
  [][\A s \in Stream : phase[s] = "protected" =>
       \A v \in Service :
         (owner[v].stream = s \/ owner'[v].stream = s) => owner'[v] = owner[v]]_vars

=============================================================================
