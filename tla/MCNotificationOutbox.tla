------------------------ MODULE MCNotificationOutbox ------------------------
(* Instances of NotificationOutbox for TLC. *)
EXTENDS NotificationOutbox

CONSTANTS n1, n2, d1, d2

MCNotifications == {n1, n2}
MCDispatchers == {d1, d2}
=============================================================================
