-------------------------- MODULE AssignmentTables --------------------------
(***************************************************************************)
(* What the guarded assignment store, its MariaDB transactions and the      *)
(* settings form speak of: streams and services, which of them there are    *)
(* now, and the order of their ids.                                         *)
(*                                                                         *)
(* A stream is "protected" while streamAssignmentProtection.protected()    *)
(* holds of it: an active lifecycle status, a pending normal stop or       *)
(* archive retry, or an archive run not reported yet.  StreamLifecycle     *)
(* models how a stream gets there; here only entering and leaving matter.  *)
(***************************************************************************)
EXTENDS Naturals, Sequences, Functions

CONSTANTS
  Stream,       \* stream ids
  Service,      \* service ids
  TypeOf,       \* services.service_type of each service
  StartTypes,   \* the types a start requires: encoder, worker, discord
  CreateTypes,  \* the types a creation must reserve: encoder, worker
  NoStream,     \* current_stream_id NULL
  AnyStream,    \* ExpectedCurrentStreamID nil: no compare-and-set fence
  ServiceOrder  \* the services, sorted by id

ASSUME AssignmentAssumption ==
  /\ NoStream \notin Stream
  /\ AnyStream \notin Stream \cup {NoStream}
  /\ CreateTypes \subseteq StartTypes

ASSUME OrderAssumption ==
  /\ ServiceOrder \in Seq(Service)
  /\ Range(ServiceOrder) = Service

VARIABLES
  phase,    \* each stream: not created yet, editable, protected, deleted
  present   \* the services registered now

Role == {"primary", "standby"}
Phase == {"absent", "idle", "protected", "deleted"}

Exists(s) == phase[s] \in {"idle", "protected"}
Protected(s) == s \in Stream /\ phase[s] = "protected"

\* Where x comes in an order of ids.
Position(order, x) == CHOOSE i \in DOMAIN order : order[i] = x
=============================================================================
