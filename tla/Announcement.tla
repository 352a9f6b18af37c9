---------------------------- MODULE Announcement ----------------------------
(***************************************************************************)
(* What the live-notification outbox promises for each notification: the   *)
(* message is posted to Discord at most once; "delivered" is claimed only  *)
(* for a posted message and "suppressed" only for one that never will be;  *)
(* an outcome, once recorded, stands.                                      *)
(***************************************************************************)
CONSTANT Notification

VARIABLES outcome, posted

Outcome == {"none", "open", "delivered", "unknown", "suppressed"}

Init ==
  /\ outcome = [n \in Notification |-> "none"]
  /\ posted = [n \in Notification |-> FALSE]

Open(n) ==
  /\ outcome[n] = "none"
  /\ outcome' = [outcome EXCEPT ![n] = "open"]
  /\ UNCHANGED posted

\* A call made while the outcome was open may reach Discord after the Panel
\* has recorded that it does not know.
Post(n) ==
  /\ outcome[n] \in {"open", "unknown"}
  /\ ~posted[n]
  /\ posted' = [posted EXCEPT ![n] = TRUE]
  /\ UNCHANGED outcome

Conclude(n, o) ==
  /\ outcome[n] = "open"
  /\ o = "delivered" => posted[n]
  /\ o = "suppressed" => ~posted[n]
  /\ outcome' = [outcome EXCEPT ![n] = o]
  /\ UNCHANGED posted

\* Expired side-effect fences are closed together.
Fence(S) ==
  /\ \A n \in S : outcome[n] = "open"
  /\ outcome' = [n \in Notification |-> IF n \in S THEN "unknown" ELSE outcome[n]]
  /\ UNCHANGED posted

Next ==
  \/ \E n \in Notification :
       \/ Open(n)
       \/ Post(n)
       \/ \E o \in {"delivered", "unknown", "suppressed"} : Conclude(n, o)
  \/ \E S \in SUBSET Notification : Fence(S)

Spec == Init /\ [][Next]_<<outcome, posted>>
=============================================================================
