---------------------- MODULE NotificationOutbox_proofs ----------------------
(***************************************************************************)
(* Proofs about NotificationOutbox, for any notifications, dispatch loops, *)
(* modes and number of starts: no event id is posted twice, and the outbox *)
(* implements Announcement.                                                *)
(***************************************************************************)
EXTENDS NotificationOutbox, TLAPS

\* Nothing was posted under the event id and nothing may be any more.
Untouched(n) == posts[n] = 0 /\ \A d \in Dispatcher : <<d, n>> \notin calls

\* A call under way is the only one of its event id, the row has crossed the
\* Bot boundary and nothing was posted.
CallsOK ==
  \A d \in Dispatcher, n \in Notification : <<d, n>> \in calls =>
    /\ posts[n] = 0
    /\ row[n].state \in {"bot_dispatching", "delivery_unknown"}
    /\ \A e \in Dispatcher : <<e, n>> \in calls => e = d

\* A posted message belongs to a row that has crossed the Bot boundary, and a
\* delivered one was posted.
PostsOK ==
  \A n \in Notification :
    /\ posts[n] \in {0, 1}
    /\ posts[n] = 1 => row[n].state \in {"bot_dispatching", "delivered", "delivery_unknown"}
    /\ row[n].state = "delivered" => posts[n] = 1

\* A loop past its scan has a row, and only one that has called has an answer.
LoopsOK ==
  \A d \in Dispatcher :
    /\ disp[d].pc \in {"claimed", "checked", "ready", "calling"} => disp[d].n \in Notification
    /\ disp[d].pc # "calling" => answers[d] = "none"

\* A loop that has called the Bot holds the row, unless the row was fenced;
\* what it was answered is what became of the message.
CallersOK ==
  \A d \in Dispatcher : disp[d].pc = "calling" =>
    /\ row[disp[d].n].state \in {"bot_dispatching", "delivery_unknown"}
    /\ row[disp[d].n].state = "bot_dispatching" => row[disp[d].n].lease = d
    /\ answers[d] \in {"receipt", "no_receipt"} => posts[disp[d].n] = 1
    /\ answers[d] \in {"retryable", "rejected"} => Untouched(disp[d].n)

\* The lease on a row past the boundary is of no use to a loop that has not
\* called the Bot.
LeasesOK ==
  \A d \in Dispatcher : \A n \in Notification :
    disp[d].n = n /\ row[n].lease = d /\ row[n].state = "bot_dispatching" => disp[d].pc = "calling"

IInv == TypeOK /\ CallsOK /\ PostsOK /\ LoopsOK /\ CallersOK /\ LeasesOK

-----------------------------------------------------------------------------
(* Steps that leave the Bot, the calls and the loops alone. *)

(* A row that is not past the Bot boundary is rewritten and does not pass it. *)
LEMMA RowMoves ==
  ASSUME IInv, NEW n \in Notification, NEW r \in Row,
         row[n].state \notin {"bot_dispatching", "delivered", "delivery_unknown"},
         r.state \notin {"bot_dispatching", "delivered"},
         row' = [row EXCEPT ![n] = r],
         UNCHANGED <<disp, calls, answers, posts>>, streamLive' \in BOOLEAN,
         lifecycle' \in [Notification -> Lifecycle]
  PROVE  IInv'
<1> USE DEF IInv
<1>1. TypeOK'
  BY DEF TypeOK
<1>2. row'[n] = r /\ \A m \in Notification : m # n => row'[m] = row[m]
  BY DEF TypeOK
<1>3. CallsOK'
  BY <1>2 DEF CallsOK
<1>4. PostsOK'
  BY <1>2 DEF PostsOK
<1>5. LoopsOK'
  BY DEF LoopsOK
<1>6. CallersOK'
  BY <1>2 DEF CallersOK, LoopsOK, Untouched
<1>7. LeasesOK'
  BY <1>2 DEF LeasesOK
<1> QED BY <1>1, <1>3, <1>4, <1>5, <1>6, <1>7

(* A new row is a row. *)
LEMMA NewRowType ==
  ASSUME NEW m \in {"stream_key", "live_api"}, NEW p \in Notification \cup {NoNotification}
  PROVE  NewRow(m, p) \in Row /\ NewRow(m, p).state \in {"dispatch_pending", "awaiting_youtube_live"}
BY DEF NewRow, NoRow, Row, State, InitialState

(* A start completes. *)
LEMMA StartStep ==
  ASSUME IInv, NEW n \in Notification, StartCompletes(n)
  PROVE  IInv'
<1>1. PICK m \in Modes : row' = [row EXCEPT ![n] = NewRow(m, NoNotification)]
  BY DEF StartCompletes
<1>2. m \in {"stream_key", "live_api"}
  BY OutboxAssumption
<1>3. /\ row[n].state = "absent" /\ streamLive' \in BOOLEAN /\ lifecycle' \in [Notification -> Lifecycle]
      /\ UNCHANGED <<disp, calls, answers, posts>>
  BY DEF StartCompletes, IInv, TypeOK
<1> QED BY <1>1, <1>2, <1>3, NewRowType, RowMoves

(* An operator recovers an unknown delivery. *)
LEMMA RecoverStep ==
  ASSUME IInv, NEW n \in Notification, NEW k \in Notification, Recover(n, k)
  PROVE  IInv'
<1>1. row' = [row EXCEPT ![k] = NewRow(row[n].mode, n)] /\ row[k].state = "absent"
  BY DEF Recover
<1>2. row[n].mode \in {"stream_key", "live_api"}
  BY DEF IInv, TypeOK, Row
<1>3. /\ streamLive' \in BOOLEAN /\ lifecycle' \in [Notification -> Lifecycle]
      /\ UNCHANGED <<disp, calls, answers, posts>>
  BY DEF Recover, IInv, TypeOK
<1> QED BY <1>1, <1>2, <1>3, NewRowType, RowMoves

(* Time passes for a row. *)
LEMMA TimeStep ==
  ASSUME IInv, NEW n \in Notification, LeaseLapses(n) \/ BecomesDue(n)
  PROVE  IInv'
<1> USE DEF IInv
<1> row[n] \in Row /\ row \in [Notification -> Row]
  BY DEF TypeOK
<1>1. PICK r \in Row : /\ row' = [row EXCEPT ![n] = r]
                       /\ r.state = row[n].state /\ r.lease = row[n].lease
  <2>1. CASE LeaseLapses(n)
    <3>1. /\ [row[n] EXCEPT !.lapsed = TRUE] \in Row
          /\ [row[n] EXCEPT !.lapsed = TRUE].state = row[n].state
          /\ [row[n] EXCEPT !.lapsed = TRUE].lease = row[n].lease
      BY DEF Row
    <3> QED BY <2>1, <3>1 DEF LeaseLapses
  <2>2. CASE BecomesDue(n)
    <3>1. /\ [row[n] EXCEPT !.due = TRUE] \in Row
          /\ [row[n] EXCEPT !.due = TRUE].state = row[n].state
          /\ [row[n] EXCEPT !.due = TRUE].lease = row[n].lease
      BY DEF Row
    <3> QED BY <2>2, <3>1 DEF BecomesDue
  <2> QED BY <2>1, <2>2
<1>2. UNCHANGED <<streamLive, lifecycle, disp, calls, answers, posts>>
  BY DEF LeaseLapses, BecomesDue
<1>3. \A m \in Notification : row'[m].state = row[m].state /\ row'[m].lease = row[m].lease
  BY <1>1
<1>4. TypeOK'
  BY <1>1, <1>2 DEF TypeOK
<1>5. CallsOK' /\ PostsOK' /\ LoopsOK'
  BY <1>2, <1>3 DEF CallsOK, PostsOK, LoopsOK
<1>6. CallersOK' /\ LeasesOK'
  BY <1>2, <1>3 DEF CallersOK, LeasesOK, LoopsOK, Untouched
<1> QED BY <1>4, <1>5, <1>6

-----------------------------------------------------------------------------
(* The dispatch loop. *)

(* A loop gives its work up. *)
LEMMA IdleOK ==
  ASSUME IInv, NEW d \in Dispatcher, Idle(d),
         UNCHANGED <<row, calls, posts>>, streamLive' \in BOOLEAN,
         lifecycle' \in [Notification -> Lifecycle]
  PROVE  IInv'
<1> USE DEF IInv
<1>1. /\ disp'[d] = NoWork /\ answers'[d] = "none"
      /\ \A e \in Dispatcher : e # d => disp'[e] = disp[e] /\ answers'[e] = answers[e]
      /\ NoWork.pc = "idle" /\ NoWork.n = NoNotification
  BY DEF Idle, NoWork, TypeOK
<1>2. TypeOK'
  BY DEF TypeOK, Idle, NoWork, PC, Answer
<1>3. CallsOK' /\ PostsOK'
  BY DEF CallsOK, PostsOK
<1>4. LoopsOK'
  BY <1>1 DEF LoopsOK
<1>5. CallersOK'
  BY <1>1 DEF CallersOK, Untouched
<1>6. LeasesOK'
  BY <1>1, OutboxAssumption DEF LeasesOK
<1> QED BY <1>2, <1>3, <1>4, <1>5, <1>6

(* A loop goes on and has not called the Bot. *)
LEMMA GotoOK ==
  ASSUME IInv, NEW d \in Dispatcher, NEW q \in PC \ {"calling"}, Goto(d, q),
         disp[d].pc # "calling", q \in {"idle", "scanned"} \/ disp[d].n \in Notification,
         UNCHANGED <<row, calls, answers, posts>>, streamLive' \in BOOLEAN,
         lifecycle' \in [Notification -> Lifecycle]
  PROVE  IInv'
<1> USE DEF IInv
<1> DEFINE w == [disp[d] EXCEPT !.pc = q]
<1>1. /\ w \in [pc : PC, n : Notification \union {NoNotification}, asked : BOOLEAN]
      /\ w.pc = q /\ w.n = disp[d].n
  BY DEF TypeOK
<1>2. disp' = [disp EXCEPT ![d] = w]
  BY DEF Goto
<1> HIDE DEF w
<1>3. disp'[d] = w /\ \A e \in Dispatcher : e # d => disp'[e] = disp[e]
  BY <1>2 DEF TypeOK
<1>4. TypeOK'
  BY <1>1, <1>2 DEF TypeOK
<1>5. CallsOK' /\ PostsOK'
  BY DEF CallsOK, PostsOK
<1>6. LoopsOK'
  BY <1>1, <1>3 DEF LoopsOK
<1>7. CallersOK'
  BY <1>1, <1>3 DEF CallersOK, Untouched
<1>8. LeasesOK'
  BY <1>1, <1>3 DEF LeasesOK
<1> QED BY <1>4, <1>5, <1>6, <1>7, <1>8

(* What may be recorded in a row past the Bot boundary. *)
Truthful(n, s) ==
  row[n].state = "bot_dispatching" =>
    /\ s = "delivered" => posts[n] = 1
    /\ s \notin {"delivered", "delivery_unknown"} => Untouched(n)

(* A loop records a state it has reason for, and is done. *)
LEMMA RecordOK ==
  ASSUME IInv, NEW d \in Dispatcher, NEW n \in Notification, disp[d].n = n,
         NEW s \in {"awaiting_youtube_live", "dispatch_pending", "delivered", "delivery_unknown",
                    "suppressed"},
         NEW asked \in BOOLEAN, Record(d, n, s, asked),
         LeaseHeld(d, n) => Truthful(n, s),
         lifecycle' \in [Notification -> Lifecycle]
  PROVE  IInv'
<1> USE DEF IInv
<1>0. /\ Idle(d) /\ UNCHANGED <<streamLive, calls, posts>> /\ streamLive' \in BOOLEAN
  BY DEF Record, TypeOK
<1>1. CASE UNCHANGED row
  BY <1>0, <1>1, IdleOK
<1> DEFINE r == [row[n] EXCEPT !.state = s, !.asked = asked, !.due = FALSE,
                               !.lease = NoDispatcher, !.lapsed = FALSE]
<1>2. CASE /\ LeaseHeld(d, n)
           /\ s \in {"delivered", "delivery_unknown"} => row[n].state = "bot_dispatching"
           /\ row' = [row EXCEPT ![n] = r]
  <2>1. r \in Row /\ r.state = s /\ r.lease = NoDispatcher
    <3>1. row[n] \in Row
      BY DEF TypeOK
    <3> QED BY <3>1 DEF Row, State
  <2> HIDE DEF r
  <2>2. row'[n] = r /\ \A m \in Notification : m # n => row'[m] = row[m]
    BY <1>2 DEF TypeOK
  <2>3. /\ disp'[d] = NoWork /\ answers'[d] = "none"
        /\ \A e \in Dispatcher : e # d => disp'[e] = disp[e] /\ answers'[e] = answers[e]
        /\ NoWork.pc = "idle" /\ NoWork.n = NoNotification
    BY <1>0 DEF Idle, NoWork, TypeOK
  <2>4. row[n].lease = d /\ row[n].state \in {"dispatching", "bot_dispatching"}
    BY <1>2 DEF LeaseHeld
  <2>5. Truthful(n, s)
    BY <1>2
  <2>6. s = "delivered" => posts[n] = 1
    BY <2>4, <2>5, <1>2 DEF Truthful
  <2>7. s \notin {"delivered", "delivery_unknown"} => Untouched(n)
    BY <2>4, <2>5 DEF Truthful, Untouched, PostsOK, CallsOK
  <2>8. TypeOK'
    <3>1. row' \in [Notification -> Row]
      BY <1>2, <2>1 DEF TypeOK
    <3> QED BY <1>0, <3>1 DEF TypeOK, Idle, NoWork, PC, Answer
  <2>9. CallsOK'
    BY <1>0, <2>1, <2>2, <2>6, <2>7 DEF CallsOK, Untouched
  <2>10. PostsOK'
    BY <1>0, <2>1, <2>2, <2>6, <2>7 DEF PostsOK, Untouched
  <2>11. LoopsOK'
    BY <2>3 DEF LoopsOK
  <2>12. CallersOK'
    <3> SUFFICES ASSUME NEW e \in Dispatcher, disp'[e].pc = "calling"
                 PROVE  /\ row'[disp'[e].n].state \in {"bot_dispatching", "delivery_unknown"}
                        /\ row'[disp'[e].n].state = "bot_dispatching" => row'[disp'[e].n].lease = e
                        /\ answers'[e] \in {"receipt", "no_receipt"} => posts'[disp'[e].n] = 1
                        /\ answers'[e] \in {"retryable", "rejected"} => Untouched(disp[e].n)'
      BY DEF CallersOK
    <3>1. e # d /\ disp'[e] = disp[e] /\ answers'[e] = answers[e] /\ disp[e].n \in Notification
      BY <2>3 DEF LoopsOK
    <3>2. disp[e].n # n
      BY <2>4, <3>1 DEF CallersOK
    <3> QED BY <1>0, <2>2, <3>1, <3>2 DEF CallersOK, Untouched
  <2>13. LeasesOK'
    BY <2>1, <2>2, <2>3, OutboxAssumption DEF LeasesOK
  <2> QED BY <2>8, <2>9, <2>10, <2>11, <2>12, <2>13
<1>3. UNCHANGED row \/ row' = [row EXCEPT ![n] = r]
  BY DEF Record
<1> QED BY <1>1, <1>2, <1>3 DEF Record

(* Before the call, the row a loop holds is not past the boundary. *)
LEMMA NotPast ==
  ASSUME IInv, NEW d \in Dispatcher, disp[d].n \in Notification, disp[d].pc # "calling",
         NEW s
  PROVE  LeaseHeld(d, disp[d].n) => Truthful(disp[d].n, s)
BY DEF IInv, LeasesOK, LeaseHeld, Truthful

(* Lapsed leases past the boundary are fenced. *)
LEMMA FenceStep ==
  ASSUME IInv, NEW d \in Dispatcher, FenceExpired(d)
  PROVE  IInv'
<1> USE DEF IInv
<1> DEFINE Closed(m) == [row[m] EXCEPT !.state = "delivery_unknown", !.due = FALSE,
                                       !.lease = NoDispatcher, !.lapsed = FALSE, !.asked = FALSE]
<1>1. ASSUME NEW m \in Notification
      PROVE  /\ row[m] \in Row /\ Closed(m) \in Row
             /\ Closed(m).state = "delivery_unknown" /\ Closed(m).lease = NoDispatcher
  <2>1. row[m] \in Row
    BY DEF TypeOK
  <2> QED BY <2>1 DEF Row, State
<1>2. row' = [m \in Notification |->
                IF row[m].state = "bot_dispatching" /\ row[m].lapsed THEN Closed(m) ELSE row[m]]
  BY DEF FenceExpired
<1> HIDE DEF Closed
<1>3. row' \in [Notification -> Row]
  BY <1>1, <1>2
<1>4. \A m \in Notification : \/ row'[m] = row[m]
                              \/ /\ row[m].state = "bot_dispatching"
                                 /\ row'[m].state = "delivery_unknown"
                                 /\ row'[m].lease = NoDispatcher
  BY <1>1, <1>2
<1> DEFINE w == [disp[d] EXCEPT !.pc = "scanned"]
<1>5. /\ w \in [pc : PC, n : Notification \union {NoNotification}, asked : BOOLEAN]
      /\ w.pc = "scanned" /\ w.n = disp[d].n
  BY DEF TypeOK, PC
<1>6. disp' = [disp EXCEPT ![d] = w] /\ disp[d].pc = "idle"
      /\ UNCHANGED <<streamLive, lifecycle, calls, answers, posts>>
  BY DEF FenceExpired, Goto, At
<1> HIDE DEF w
<1>7. disp'[d].pc = "scanned" /\ \A e \in Dispatcher : e # d => disp'[e] = disp[e]
  BY <1>5, <1>6 DEF TypeOK
<1>8. TypeOK'
  BY <1>3, <1>5, <1>6 DEF TypeOK
<1>9. CallsOK' /\ PostsOK'
  BY <1>4, <1>6 DEF CallsOK, PostsOK
<1>10. LoopsOK'
  BY <1>6, <1>7 DEF LoopsOK
<1>11. CallersOK'
  BY <1>4, <1>6, <1>7 DEF CallersOK, LoopsOK, Untouched
<1>12. LeasesOK'
  <2> SUFFICES ASSUME NEW e \in Dispatcher, NEW m \in Notification, disp'[e].n = m,
                      row'[m].lease = e, row'[m].state = "bot_dispatching"
               PROVE  disp'[e].pc = "calling"
    BY DEF LeasesOK
  <2>1. row'[m] = row[m]
    BY <1>4
  <2>2. CASE e = d
    <3>1. disp'[d].n = disp[d].n
      BY <1>5, <1>6 DEF TypeOK
    <3> QED BY <2>1, <2>2, <3>1, <1>6 DEF LeasesOK
  <2>3. CASE e # d
    BY <2>1, <2>3, <1>7 DEF LeasesOK
  <2> QED BY <2>2, <2>3
<1> QED BY <1>8, <1>9, <1>10, <1>11, <1>12

(* A due row is claimed, or there is none. *)
LEMMA ClaimStep ==
  ASSUME IInv, NEW d \in Dispatcher, Claim(d)
  PROVE  IInv'
<1> USE DEF IInv
<1>1. CASE Goto(d, "idle") /\ UNCHANGED row
  BY <1>1, GotoOK DEF Claim, At, PC, TypeOK
<1>2. ASSUME NEW n \in Notification, ClaimDue(n),
             row' = [row EXCEPT ![n].state = "dispatching", ![n].lease = d, ![n].lapsed = FALSE],
             disp' = [disp EXCEPT ![d] = [pc |-> "claimed", n |-> n, asked |-> row[n].asked]]
      PROVE  IInv'
  <2> DEFINE r == [row[n] EXCEPT !.state = "dispatching", !.lease = d, !.lapsed = FALSE]
  <2>1. row[n] \in Row
    BY DEF TypeOK
  <2>2. r \in Row /\ r.state = "dispatching"
    BY <2>1 DEF Row, State
  <2>3. row' = [row EXCEPT ![n] = r]
    BY <1>2
  <2> HIDE DEF r
  <2>4. row'[n].state = "dispatching" /\ \A m \in Notification : m # n => row'[m] = row[m]
    BY <2>2, <2>3 DEF TypeOK
  <2>5. row[n].state \in {"awaiting_youtube_live", "dispatch_pending", "dispatching"}
    BY <1>2 DEF ClaimDue
  <2>6. /\ disp'[d].pc = "claimed" /\ disp'[d].n = n
        /\ \A e \in Dispatcher : e # d => disp'[e] = disp[e]
    BY <1>2 DEF TypeOK
  <2>7. disp[d].pc = "scanned" /\ UNCHANGED <<streamLive, lifecycle, calls, answers, posts>>
    BY DEF Claim, At
  <2>8. TypeOK'
    <3>1. row' \in [Notification -> Row]
      BY <2>2, <2>3 DEF TypeOK
    <3>2. row[n].asked \in BOOLEAN
      BY <2>1 DEF Row
    <3>3. disp' \in [Dispatcher -> [pc : PC, n : Notification \union {NoNotification}, asked : BOOLEAN]]
      BY <1>2, <3>2 DEF TypeOK, PC
    <3> QED BY <2>7, <3>1, <3>3 DEF TypeOK
  <2>9. CallsOK' /\ PostsOK'
    BY <2>4, <2>5, <2>7 DEF CallsOK, PostsOK
  <2>10. LoopsOK'
    BY <2>6, <2>7 DEF LoopsOK
  <2>11. CallersOK'
    BY <2>4, <2>5, <2>6, <2>7 DEF CallersOK, LoopsOK, Untouched
  <2>12. LeasesOK'
    BY <2>4, <2>6 DEF LeasesOK
  <2> QED BY <2>8, <2>9, <2>10, <2>11, <2>12
<1> QED BY <1>1, <1>2 DEF Claim

(* The stream is looked up. *)
LEMMA CheckStreamStep ==
  ASSUME IInv, NEW d \in Dispatcher, CheckStream(d)
  PROVE  IInv'
<1>1. /\ disp[d].pc = "claimed" /\ disp[d].n \in Notification /\ streamLive \in BOOLEAN
      /\ lifecycle' \in [Notification -> Lifecycle]
  BY DEF CheckStream, At, IInv, LoopsOK, TypeOK
<1>2. CASE \E s \in {"suppressed", "dispatch_pending"} : Record(d, disp[d].n, s, FALSE)
  BY <1>1, <1>2, NotPast, RecordOK
<1>3. CASE Goto(d, "checked") /\ UNCHANGED <<row, streamLive, calls, answers, posts>>
  BY <1>1, <1>3, GotoOK DEF PC
<1> QED BY <1>2, <1>3 DEF CheckStream

(* The provider is asked. *)
LEMMA CheckProviderStep ==
  ASSUME IInv, NEW d \in Dispatcher, CheckProvider(d)
  PROVE  IInv'
<1>1. /\ disp[d].pc = "checked" /\ disp[d].n \in Notification /\ streamLive \in BOOLEAN
      /\ lifecycle' \in [Notification -> Lifecycle]
  <2>1. disp[d].pc = "checked" /\ disp[d].n \in Notification /\ streamLive \in BOOLEAN
    BY DEF CheckProvider, At, IInv, LoopsOK, TypeOK
  <2>2. \/ UNCHANGED lifecycle
        \/ \E s \in {"liveStarting", "live", "complete"} :
             lifecycle' = [lifecycle EXCEPT ![disp[d].n] = s]
    BY DEF CheckProvider
  <2>3. lifecycle' \in [Notification -> Lifecycle]
    BY <2>2 DEF IInv, TypeOK, Lifecycle
  <2> QED BY <2>1, <2>3
<1>2. CASE \E s \in {"suppressed", "awaiting_youtube_live"}, asked \in BOOLEAN :
             Record(d, disp[d].n, s, asked)
  BY <1>1, <1>2, NotPast, RecordOK
<1>3. CASE Goto(d, "ready") /\ UNCHANGED <<row, streamLive, calls, answers, posts>>
  BY <1>1, <1>3, GotoOK DEF PC
<1> QED BY <1>2, <1>3 DEF CheckProvider, Retry, Lifecycled

(* The boundary is committed and the Bot is called. *)
LEMMA BeginStep ==
  ASSUME IInv, NEW d \in Dispatcher, BeginBotDispatch(d)
  PROVE  IInv'
<1> USE DEF IInv
<1> DEFINE n == disp[d].n
<1>1. /\ disp[d].pc = "ready" /\ n \in Notification
      /\ UNCHANGED lifecycle /\ lifecycle' \in [Notification -> Lifecycle]
  BY DEF BeginBotDispatch, At, LoopsOK, TypeOK
<1>2. CASE Record(d, n, "dispatch_pending", FALSE)
  BY <1>1, <1>2, NotPast, RecordOK
<1>3. CASE Idle(d) /\ UNCHANGED <<row, streamLive, calls, posts>>
  BY <1>1, <1>3, IdleOK DEF TypeOK
<1>4. CASE /\ LeaseHeld(d, n) /\ row[n].state = "dispatching"
           /\ row' = [row EXCEPT ![n].state = "bot_dispatching"]
           /\ calls' = calls \union {<<d, n>>}
           /\ Goto(d, "calling")
           /\ UNCHANGED <<streamLive, answers, posts>>
  <2> DEFINE r == [row[n] EXCEPT !.state = "bot_dispatching"]
  <2>1. r \in Row /\ r.state = "bot_dispatching" /\ r.lease = d
    <3>1. row[n] \in Row
      BY <1>1 DEF TypeOK
    <3> QED BY <1>4, <3>1 DEF Row, State, LeaseHeld
  <2>2. row' = [row EXCEPT ![n] = r]
    BY <1>4
  <2> DEFINE w == [disp[d] EXCEPT !.pc = "calling"]
  <2>3. /\ w \in [pc : PC, n : Notification \union {NoNotification}, asked : BOOLEAN]
        /\ w.pc = "calling" /\ w.n = n
    BY DEF TypeOK, PC
  <2>4. disp' = [disp EXCEPT ![d] = w]
    BY <1>4 DEF Goto
  <2> HIDE DEF r, w, n
  <2>5. /\ row'[n].state = "bot_dispatching" /\ row'[n].lease = d
        /\ \A m \in Notification : m # n => row'[m] = row[m]
        /\ disp'[d].pc = "calling" /\ disp'[d].n = n
        /\ \A e \in Dispatcher : e # d => disp'[e] = disp[e]
    BY <1>1, <2>1, <2>2, <2>3, <2>4 DEF TypeOK
  <2>6. Untouched(n)
    BY <1>1, <1>4 DEF Untouched, CallsOK, PostsOK
  <2>7. answers[d] = "none"
    BY <1>1 DEF LoopsOK
  <2>8. TypeOK'
    <3>1. row' \in [Notification -> Row]
      BY <2>1, <2>2 DEF TypeOK
    <3>2. disp' \in [Dispatcher -> [pc : PC, n : Notification \union {NoNotification}, asked : BOOLEAN]]
      BY <2>3, <2>4 DEF TypeOK
    <3> QED BY <1>1, <1>4, <3>1, <3>2 DEF TypeOK
  <2>9. CallsOK'
    BY <1>4, <2>5, <2>6 DEF CallsOK, Untouched
  <2>10. PostsOK'
    BY <1>4, <2>5, <2>6 DEF PostsOK, Untouched
  <2>11. LoopsOK'
    BY <1>1, <1>4, <2>5 DEF LoopsOK
  <2>12. CallersOK'
    <3> SUFFICES ASSUME NEW e \in Dispatcher, disp'[e].pc = "calling"
                 PROVE  /\ row'[disp'[e].n].state \in {"bot_dispatching", "delivery_unknown"}
                        /\ row'[disp'[e].n].state = "bot_dispatching" => row'[disp'[e].n].lease = e
                        /\ answers'[e] \in {"receipt", "no_receipt"} => posts'[disp'[e].n] = 1
                        /\ answers'[e] \in {"retryable", "rejected"} => Untouched(disp[e].n)'
      BY DEF CallersOK
    <3>1. CASE e = d
      BY <1>4, <2>5, <2>7, <3>1
    <3>2. CASE e # d
      <4>1. disp'[e] = disp[e] /\ disp[e].n \in Notification /\ disp[e].n # n
        BY <1>1, <1>4, <2>5, <3>2 DEF CallersOK, LoopsOK
      <4> QED BY <1>4, <2>5, <4>1 DEF CallersOK, Untouched
    <3> QED BY <3>1, <3>2
  <2>13. LeasesOK'
    BY <2>5 DEF LeasesOK
  <2> QED BY <2>8, <2>9, <2>10, <2>11, <2>12, <2>13
<1> QED BY <1>2, <1>3, <1>4 DEF BeginBotDispatch

(* The answer is recorded. *)
LEMMA OutcomeStep ==
  ASSUME IInv, NEW d \in Dispatcher, RecordOutcome(d)
  PROVE  IInv'
<1>1. /\ disp[d].pc = "calling" /\ disp[d].n \in Notification
      /\ lifecycle' \in [Notification -> Lifecycle] /\ answers[d] \in Answer \ {"none"}
      /\ Record(d, disp[d].n, OutcomeOf(answers[d]), FALSE)
  BY DEF RecordOutcome, At, IInv, LoopsOK, TypeOK
<1>2. /\ OutcomeOf(answers[d]) \in {"dispatch_pending", "delivered", "delivery_unknown", "suppressed"}
      /\ OutcomeOf(answers[d]) = "delivered" => answers[d] = "receipt"
      /\ OutcomeOf(answers[d]) \in {"dispatch_pending", "suppressed"}
           => answers[d] \in {"retryable", "rejected"}
  BY <1>1 DEF OutcomeOf, Answer
<1>3. Truthful(disp[d].n, OutcomeOf(answers[d]))
  BY <1>1, <1>2 DEF Truthful, IInv, CallersOK
<1> QED BY <1>1, <1>2, <1>3, RecordOK

(* A loop dies. *)
LEMMA AbandonStep ==
  ASSUME IInv, NEW d \in Dispatcher, Abandon(d)
  PROVE  IInv'
BY IdleOK DEF Abandon, IInv, TypeOK

-----------------------------------------------------------------------------
(* The Bot. *)

(* A call that is under way names a loop and a row. *)
LEMMA CallType ==
  ASSUME IInv, NEW c \in calls
  PROVE  c[1] \in Dispatcher /\ c[2] \in Notification /\ c = <<c[1], c[2]>>
BY DEF IInv, TypeOK

(* The Bot executes a call. *)
LEMMA BotStep ==
  ASSUME IInv, NEW c \in calls, BotExecutes(c)
  PROVE  IInv'
<1> USE DEF IInv
<1> DEFINE d == c[1]
           n == c[2]
<1>1. d \in Dispatcher /\ n \in Notification /\ c = <<d, n>>
  BY CallType
<1>2. PICK a \in {"receipt", "no_receipt", "retryable", "rejected"} :
        /\ posts' = IF a \in {"receipt", "no_receipt"} THEN [posts EXCEPT ![n] = @ + 1] ELSE posts
        /\ answers' = IF At(d, "calling") /\ disp[d].n = n /\ answers[d] = "none"
                        THEN [answers EXCEPT ![d] = a] ELSE answers
  BY DEF BotExecutes
<1>3. calls' = calls \ {c} /\ UNCHANGED <<row, streamLive, lifecycle, disp>>
  BY DEF BotExecutes
<1> HIDE DEF d, n
<1>4. /\ posts[n] = 0 /\ row[n].state \in {"bot_dispatching", "delivery_unknown"}
      /\ \A e \in Dispatcher : <<e, n>> \notin calls'
  BY <1>1, <1>3 DEF CallsOK
<1>5. /\ posts'[n] = IF a \in {"receipt", "no_receipt"} THEN 1 ELSE 0
      /\ \A m \in Notification : m # n => posts'[m] = posts[m]
      /\ posts' \in [Notification -> Nat]
  BY <1>1, <1>2, <1>4 DEF TypeOK
<1>6. TypeOK'
  BY <1>1, <1>2, <1>3, <1>5 DEF TypeOK, Answer
<1>7. CallsOK'
  BY <1>3, <1>4, <1>5 DEF CallsOK
<1>8. PostsOK'
  BY <1>1, <1>3, <1>4, <1>5 DEF PostsOK
<1>9. LoopsOK'
  BY <1>1, <1>2, <1>3 DEF LoopsOK, At, TypeOK
<1>10. CallersOK'
  <2> SUFFICES ASSUME NEW e \in Dispatcher, disp'[e].pc = "calling"
               PROVE  /\ row'[disp'[e].n].state \in {"bot_dispatching", "delivery_unknown"}
                      /\ row'[disp'[e].n].state = "bot_dispatching" => row'[disp'[e].n].lease = e
                      /\ answers'[e] \in {"receipt", "no_receipt"} => posts'[disp'[e].n] = 1
                      /\ answers'[e] \in {"retryable", "rejected"} => Untouched(disp[e].n)'
    BY DEF CallersOK
  <2>1. disp'[e] = disp[e] /\ disp[e].n \in Notification
    BY <1>3 DEF LoopsOK
  <2>2. /\ row'[disp'[e].n].state \in {"bot_dispatching", "delivery_unknown"}
        /\ row'[disp'[e].n].state = "bot_dispatching" => row'[disp'[e].n].lease = e
    BY <1>3, <2>1 DEF CallersOK
  <2>3. CASE answers'[e] = answers[e]
    <3>1. answers[e] \in {"receipt", "no_receipt"} => disp[e].n # n
      BY <1>4, <2>1, <1>3 DEF CallersOK
    <3>2. answers[e] \in {"retryable", "rejected"} => disp[e].n # n
      BY <1>1, <2>1, <1>3 DEF CallersOK, Untouched
    <3> QED BY <1>3, <1>5, <2>1, <2>2, <2>3, <3>1, <3>2 DEF CallersOK, Untouched
  <2>4. CASE answers'[e] # answers[e]
    <3>1. e = d /\ disp[e].n = n /\ answers'[e] = a
      BY <1>1, <1>2, <2>4 DEF TypeOK
    <3> QED BY <1>4, <1>5, <2>1, <2>2, <3>1 DEF Untouched
  <2> QED BY <2>3, <2>4
<1>11. LeasesOK'
  BY <1>3 DEF LeasesOK
<1> QED BY <1>6, <1>7, <1>8, <1>9, <1>10, <1>11

(* A call gets no answer. *)
LEMMA LostStep ==
  ASSUME IInv, NEW c \in calls, CallLost(c)
  PROVE  IInv'
<1> USE DEF IInv
<1>1. c[1] \in Dispatcher /\ disp[c[1]].pc = "calling"
  BY CallType DEF CallLost, At
<1>2. /\ calls' \subseteq calls /\ answers' = [answers EXCEPT ![c[1]] = "unknown"]
      /\ UNCHANGED <<row, streamLive, lifecycle, disp, posts>>
  BY DEF CallLost
<1>3. answers'[c[1]] = "unknown" /\ \A e \in Dispatcher : e # c[1] => answers'[e] = answers[e]
  BY <1>1, <1>2 DEF TypeOK
<1>4. TypeOK'
  BY <1>1, <1>2 DEF TypeOK, Answer
<1>5. CallsOK' /\ PostsOK'
  BY <1>2 DEF CallsOK, PostsOK
<1>6. LoopsOK'
  BY <1>1, <1>2, <1>3 DEF LoopsOK
<1>7. CallersOK'
  BY <1>1, <1>2, <1>3 DEF CallersOK, Untouched
<1>8. LeasesOK'
  BY <1>2 DEF LeasesOK
<1> QED BY <1>4, <1>5, <1>6, <1>7, <1>8

-----------------------------------------------------------------------------
(* The invariant. *)

(* It holds at the start. *)
LEMMA InitOK == Init => IInv
<1> SUFFICES ASSUME Init PROVE IInv
  OBVIOUS
<1>1. /\ NoRow \in Row /\ NoRow.state = "absent"
      /\ NoWork.pc = "idle"
      /\ NoWork \in [pc : PC, n : Notification \union {NoNotification}, asked : BOOLEAN]
  BY DEF NoRow, Row, State, NoWork, PC
<1>2. TypeOK
  BY <1>1 DEF Init, TypeOK, Lifecycle, Answer
<1>3. CallsOK /\ PostsOK
  BY <1>1 DEF Init, CallsOK, PostsOK
<1>4. LoopsOK /\ CallersOK
  BY <1>1 DEF Init, LoopsOK, CallersOK
<1>5. LeasesOK
  BY <1>1 DEF Init, LeasesOK
<1> QED BY <1>2, <1>3, <1>4, <1>5 DEF IInv

(* Every step keeps it. *)
LEMMA NextOK == IInv /\ [Next]_vars => IInv'
<1> SUFFICES ASSUME IInv, [Next]_vars PROVE IInv'
  OBVIOUS
<1>1. CASE \E n \in Notification : StartCompletes(n)
  BY <1>1, StartStep
<1>2. CASE \E n \in Notification : LeaseLapses(n) \/ BecomesDue(n)
  BY <1>2, TimeStep
<1>3. CASE \E n, k \in Notification : Recover(n, k)
  BY <1>3, RecoverStep
<1>4. CASE \E d \in Dispatcher : Step(d) \/ Abandon(d)
  BY <1>4, FenceStep, ClaimStep, CheckStreamStep, CheckProviderStep, BeginStep, OutcomeStep,
     AbandonStep DEF Step
<1>5. CASE \E c \in calls : BotExecutes(c) \/ CallLost(c)
  BY <1>5, BotStep, LostStep
<1>6. CASE /\ UNCHANGED <<row, disp, calls, answers, posts>> /\ streamLive' \in BOOLEAN
           /\ lifecycle' \in [Notification -> Lifecycle]
  <2>1. TypeOK'
    BY <1>6 DEF IInv, TypeOK
  <2>2. CallsOK' /\ PostsOK' /\ LoopsOK'
    BY <1>6 DEF IInv, CallsOK, PostsOK, LoopsOK
  <2>3. CallersOK' /\ LeasesOK'
    BY <1>6 DEF IInv, CallersOK, LeasesOK, Untouched
  <2> QED BY <2>1, <2>2, <2>3 DEF IInv
<1>7. CASE UNCHANGED vars \/ StreamEnds \/ StartUnannounced
  BY <1>6, <1>7 DEF vars, StreamEnds, StartUnannounced, IInv, TypeOK
<1>8. CASE \E n \in Notification : BroadcastMoves(n)
  BY <1>6, <1>8 DEF BroadcastMoves, IInv, TypeOK, Lifecycle
<1> QED BY <1>1, <1>2, <1>3, <1>4, <1>5, <1>7, <1>8 DEF Next

(* It holds in every state of every behaviour. *)
LEMMA Inductive == Spec => []IInv
BY InitOK, NextOK, PTL DEF Spec

(* No event id is posted twice, for any number of Panels, crashes, lapsed
   leases and late calls
   (discord_youtube_live_notification_outbox.go, dispatch loop). *)
THEOREM MessagePostedOnce == Spec => []PostedOnce
<1>1. IInv => PostedOnce
  BY DEF IInv, PostsOK, PostedOnce
<1> QED BY <1>1, Inductive, PTL

-----------------------------------------------------------------------------
(* The outbox implements Announcement. *)

\* What a row's state is to a reader of Discord.
Seen(st) ==
  CASE st = "absent" -> "none"
    [] st = "delivery_unknown" -> "unknown"
    [] st \in {"delivered", "suppressed"} -> st
    [] OTHER -> "open"

(* The refinement mapping, row by row. *)
LEMMA Mapped ==
  /\ outcome = [n \in Notification |-> Seen(row[n].state)]
  /\ posted = [n \in Notification |-> posts[n] > 0]
BY DEF outcome, posted, Seen

(* Whether a message was posted, read off its count. *)
LEMMA PostedValue ==
  ASSUME NEW n \in Notification
  PROVE  /\ posts[n] = 0 => posted[n] = FALSE
         /\ posts[n] = 1 => posted[n] = TRUE
<1>1. posted[n] = (posts[n] > 0)
  BY Mapped, Zenon
<1>2. posts[n] = 0 => (posts[n] > 0) = FALSE
  OBVIOUS
<1>3. posts[n] = 1 => (posts[n] > 0) = TRUE
  OBVIOUS
<1> QED BY <1>1, <1>2, <1>3, Zenon

(* A step that changes neither what readers see of a row nor the messages
   stutters. *)
LEMMA Stutters ==
  ASSUME \A n \in Notification : Seen(row'[n].state) = Seen(row[n].state), UNCHANGED posts
  PROVE  UNCHANGED <<outcome, posted>>
<1>1. outcome' = [n \in Notification |-> Seen(row'[n].state)]
  BY DEF outcome, Seen
<1>2. posted' = [n \in Notification |-> posts'[n] > 0]
  BY DEF posted
<1> QED BY <1>1, <1>2, Mapped

(* One row changes its state. *)
LEMMA OneRow ==
  ASSUME IInv, IInv', NEW n \in Notification, UNCHANGED posts,
         \A m \in Notification : m # n => row'[m].state = row[m].state,
         \/ Seen(row'[n].state) = Seen(row[n].state)
         \/ Seen(row[n].state) = "none" /\ Seen(row'[n].state) = "open"
         \/ Seen(row[n].state) = "open" /\ Seen(row'[n].state) \in {"delivered", "unknown", "suppressed"}
  PROVE  [Promise!Next]_<<outcome, posted>>
<1> DEFINE o == Seen(row'[n].state)
<1>1. CASE o = Seen(row[n].state)
  BY <1>1, Stutters
<1>2. outcome' = [m \in Notification |-> Seen(row'[m].state)]
  BY DEF outcome, Seen
<1>3. outcome[n] = Seen(row[n].state)
  BY Mapped
<1>4. outcome' = [outcome EXCEPT ![n] = o]
  BY <1>2, Mapped
<1>5. UNCHANGED posted
  BY DEF posted
<1>6. CASE Seen(row[n].state) = "none" /\ o = "open"
  <2>1. Promise!Open(n)
    BY <1>3, <1>4, <1>5, <1>6 DEF Promise!Open
  <2> QED BY <2>1 DEF Promise!Next
<1>7. CASE Seen(row[n].state) = "open" /\ o \in {"delivered", "unknown", "suppressed"}
  <2>1. o = "delivered" => posts[n] = 1
    <3>1. o = "delivered" => row'[n].state = "delivered"
      BY DEF Seen
    <3> QED BY <3>1 DEF IInv, PostsOK
  <2>2. o = "suppressed" => posts[n] = 0
    <3>1. o = "suppressed" => row'[n].state = "suppressed"
      BY DEF Seen
    <3> QED BY <3>1 DEF IInv, PostsOK
  <2>3. (o = "delivered" => posted[n]) /\ (o = "suppressed" => ~posted[n])
    BY <2>1, <2>2, PostedValue, Zenon
  <2>4. outcome[n] = "open"
    BY <1>3, <1>7
  <2> HIDE DEF o
  <2>5. Promise!Conclude(n, o)
    BY <1>4, <1>5, <2>3, <2>4 DEF Promise!Conclude
  <2> QED BY <1>7, <2>5 DEF Promise!Next
<1> QED BY <1>1, <1>6, <1>7

(* Recording changes the state of a row that is being dispatched, if any. *)
LEMMA RecordRefines ==
  ASSUME IInv, IInv', NEW d \in Dispatcher, NEW n \in Notification, NEW asked,
         NEW s \in {"awaiting_youtube_live", "dispatch_pending", "delivered", "delivery_unknown",
                    "suppressed"},
         Record(d, n, s, asked)
  PROVE  [Promise!Next]_<<outcome, posted>>
<1>1. CASE UNCHANGED row
  BY <1>1, Stutters DEF Record
<1>2. CASE LeaseHeld(d, n) /\ row' = [row EXCEPT ![n].state = s, ![n].asked = asked,
             ![n].due = FALSE, ![n].lease = NoDispatcher, ![n].lapsed = FALSE]
  <2>1. row'[n].state = s /\ \A m \in Notification : m # n => row'[m].state = row[m].state
    BY <1>2 DEF IInv, TypeOK, Row
  <2>2. Seen(row[n].state) = "open"
    BY <1>2 DEF LeaseHeld, Seen
  <2>3. Seen(s) \in {"open", "delivered", "unknown", "suppressed"}
    BY DEF Seen
  <2> QED BY <2>1, <2>2, <2>3, OneRow DEF Record
<1> QED BY <1>1, <1>2 DEF Record

(* A step of a dispatch loop. *)
LEMMA LoopRefines ==
  ASSUME IInv, IInv', NEW d \in Dispatcher, Step(d) \/ Abandon(d)
  PROVE  [Promise!Next]_<<outcome, posted>>
<1>0. disp[d].pc \in {"claimed", "checked", "ready", "calling"} => disp[d].n \in Notification
  BY DEF IInv, LoopsOK
<1>1. CASE FenceExpired(d)
  <2> DEFINE S == {n \in Notification : row[n].state = "bot_dispatching" /\ row[n].lapsed}
  <2>1. \A n \in Notification : row'[n].state = IF n \in S THEN "delivery_unknown" ELSE row[n].state
    BY <1>1 DEF FenceExpired, IInv, TypeOK, Row
  <2>2. \A n \in S : outcome[n] = "open"
    BY Mapped DEF Seen
  <2>3. outcome' = [n \in Notification |-> Seen(row'[n].state)] /\ Seen("delivery_unknown") = "unknown"
    BY DEF outcome, Seen
  <2>4. outcome' = [n \in Notification |-> IF n \in S THEN "unknown" ELSE outcome[n]]
    BY <2>1, <2>3, Mapped
  <2>5. UNCHANGED posted
    BY <1>1 DEF FenceExpired, posted
  <2>6. S \in SUBSET Notification
    OBVIOUS
  <2> HIDE DEF S
  <2>7. Promise!Fence(S)
    BY <2>2, <2>4, <2>5 DEF Promise!Fence
  <2> QED BY <2>6, <2>7 DEF Promise!Next
<1>2. CASE Claim(d)
  <2>1. CASE UNCHANGED row
    BY <1>2, <2>1, Stutters DEF Claim
  <2>2. ASSUME NEW n \in Notification, ClaimDue(n),
               row' = [row EXCEPT ![n].state = "dispatching", ![n].lease = d, ![n].lapsed = FALSE]
        PROVE  [Promise!Next]_<<outcome, posted>>
    <3>1. /\ row'[n].state = "dispatching"
          /\ \A m \in Notification : m # n => row'[m].state = row[m].state
      BY <2>2 DEF IInv, TypeOK, Row
    <3>2. Seen("dispatching") = "open" /\ Seen(row[n].state) = "open"
      BY <2>2 DEF ClaimDue, Seen
    <3>3. UNCHANGED posts
      BY <1>2 DEF Claim
    <3> QED BY <3>1, <3>2, <3>3, OneRow
  <2> QED BY <1>2, <2>1, <2>2 DEF Claim
<1>3. CASE CheckStream(d)
  <2>1. disp[d].n \in Notification
    BY <1>0, <1>3 DEF CheckStream, At
  <2>2. CASE \E s \in {"suppressed", "dispatch_pending"} : Record(d, disp[d].n, s, FALSE)
    BY <2>1, <2>2, RecordRefines
  <2>3. CASE UNCHANGED <<row, posts>>
    BY <2>3, Stutters
  <2> QED BY <1>3, <2>2, <2>3 DEF CheckStream
<1>4. CASE CheckProvider(d)
  <2>1. disp[d].n \in Notification
    BY <1>0, <1>4 DEF CheckProvider, At
  <2>2. CASE \E s \in {"suppressed", "awaiting_youtube_live"}, asked \in BOOLEAN :
               Record(d, disp[d].n, s, asked)
    BY <2>1, <2>2, RecordRefines
  <2>3. CASE UNCHANGED <<row, posts>>
    BY <2>3, Stutters
  <2> QED BY <1>4, <2>2, <2>3 DEF CheckProvider, Retry, Lifecycled
<1>5. CASE BeginBotDispatch(d)
  <2>1. disp[d].n \in Notification
    BY <1>0, <1>5 DEF BeginBotDispatch, At
  <2>2. CASE Record(d, disp[d].n, "dispatch_pending", FALSE)
    BY <2>1, <2>2, RecordRefines
  <2>3. CASE UNCHANGED <<row, posts>>
    BY <2>3, Stutters
  <2>4. CASE /\ row[disp[d].n].state = "dispatching" /\ UNCHANGED posts
             /\ row' = [row EXCEPT ![disp[d].n].state = "bot_dispatching"]
    <3>1. /\ row'[disp[d].n].state = "bot_dispatching"
          /\ \A m \in Notification : m # disp[d].n => row'[m].state = row[m].state
      BY <2>1, <2>4 DEF IInv, TypeOK, Row
    <3>2. Seen("bot_dispatching") = Seen("dispatching")
      BY DEF Seen
    <3> QED BY <2>1, <2>4, <3>1, <3>2, OneRow
  <2> QED BY <1>5, <2>2, <2>3, <2>4 DEF BeginBotDispatch
<1>6. CASE RecordOutcome(d)
  <2>1. disp[d].n \in Notification /\ Record(d, disp[d].n, OutcomeOf(answers[d]), FALSE)
    BY <1>0, <1>6 DEF RecordOutcome, At
  <2>2. OutcomeOf(answers[d]) \in {"dispatch_pending", "delivered", "delivery_unknown", "suppressed"}
    BY DEF OutcomeOf
  <2> QED BY <2>1, <2>2, RecordRefines
<1>7. CASE Abandon(d)
  BY <1>7, Stutters DEF Abandon
<1> QED BY <1>1, <1>2, <1>3, <1>4, <1>5, <1>6, <1>7 DEF Step

(* The Bot posts a message that was not posted before. *)
LEMMA BotRefines ==
  ASSUME IInv, NEW c \in calls, BotExecutes(c)
  PROVE  [Promise!Next]_<<outcome, posted>>
<1> DEFINE n == c[2]
<1>1. c[1] \in Dispatcher /\ n \in Notification /\ c = <<c[1], n>>
  BY CallType
<1>2. posts[n] = 0 /\ row[n].state \in {"bot_dispatching", "delivery_unknown"}
  BY <1>1 DEF IInv, CallsOK
<1>3. CASE UNCHANGED posts
  BY <1>3, Stutters DEF BotExecutes
<1>4. CASE posts' = [posts EXCEPT ![n] = @ + 1]
  <2>1. outcome[n] \in {"open", "unknown"}
    BY <1>1, <1>2, Mapped DEF Seen
  <2>2. posted' = [m \in Notification |-> posts'[m] > 0]
    BY DEF posted
  <2>3. posts \in [Notification -> Nat]
    BY DEF IInv, TypeOK
  <2>4. posts'[n] = 1 /\ \A m \in Notification : m # n => posts'[m] = posts[m]
    BY <1>1, <1>2, <1>4, <2>3
  <2>5. posted = [m \in Notification |-> posts[m] > 0]
    BY Mapped
  <2>6. posted' = [posted EXCEPT ![n] = TRUE]
    <3>1. (posts'[n] > 0) = TRUE
      BY <2>4
    <3>2. ASSUME NEW m \in Notification, m # n
          PROVE  (posts'[m] > 0) = (posts[m] > 0)
      BY <2>4, <3>2
    <3>3. \A m \in Notification : (posts'[m] > 0) = IF m = n THEN TRUE ELSE posted[m]
      BY <2>5, <3>1, <3>2, Zenon
    <3>4. [posted EXCEPT ![n] = TRUE] = [m \in Notification |-> IF m = n THEN TRUE ELSE posted[m]]
      BY <2>5
    <3> QED BY <2>2, <3>3, <3>4, Zenon
  <2>7. UNCHANGED outcome
    BY DEF BotExecutes, outcome
  <2>8. Promise!Post(n)
    BY <1>1, <1>2, <2>1, <2>6, <2>7, PostedValue, Zenon DEF Promise!Post
  <2> QED BY <1>1, <2>8 DEF Promise!Next
<1> QED BY <1>3, <1>4 DEF BotExecutes

(* Every step of the outbox is a step of Announcement or stutters. *)
LEMMA StepRefines == IInv /\ IInv' /\ [Next]_vars => [Promise!Next]_<<outcome, posted>>
<1> SUFFICES ASSUME IInv, IInv', [Next]_vars PROVE [Promise!Next]_<<outcome, posted>>
  OBVIOUS
<1>1. ASSUME NEW n \in Notification, StartCompletes(n)
      PROVE  [Promise!Next]_<<outcome, posted>>
  <2>1. PICK m \in Modes : row' = [row EXCEPT ![n] = NewRow(m, NoNotification)]
    BY <1>1 DEF StartCompletes
  <2>2. m \in {"stream_key", "live_api"}
    BY OutboxAssumption
  <2>3. /\ row'[n].state \in {"dispatch_pending", "awaiting_youtube_live"}
        /\ \A k \in Notification : k # n => row'[k].state = row[k].state
    BY <2>1, <2>2, NewRowType DEF IInv, TypeOK
  <2>4. Seen(row'[n].state) = "open" /\ Seen(row[n].state) = "none"
    BY <1>1, <2>3 DEF StartCompletes, Seen
  <2> QED BY <1>1, <2>3, <2>4, OneRow DEF StartCompletes
<1>2. ASSUME NEW n \in Notification, NEW k \in Notification, Recover(n, k)
      PROVE  [Promise!Next]_<<outcome, posted>>
  <2>1. row' = [row EXCEPT ![k] = NewRow(row[n].mode, n)]
    BY <1>2 DEF Recover
  <2>2. row[n].mode \in {"stream_key", "live_api"}
    BY DEF IInv, TypeOK, Row
  <2>3. /\ row'[k].state \in {"dispatch_pending", "awaiting_youtube_live"}
        /\ \A m \in Notification : m # k => row'[m].state = row[m].state
    BY <2>1, <2>2, NewRowType DEF IInv, TypeOK
  <2>4. Seen(row'[k].state) = "open" /\ Seen(row[k].state) = "none"
    BY <1>2, <2>3 DEF Recover, Seen
  <2> QED BY <1>2, <2>3, <2>4, OneRow DEF Recover
<1>3. ASSUME NEW n \in Notification, LeaseLapses(n) \/ BecomesDue(n)
      PROVE  [Promise!Next]_<<outcome, posted>>
  <2>1. \A m \in Notification : row'[m].state = row[m].state
    BY <1>3 DEF LeaseLapses, BecomesDue, IInv, TypeOK, Row
  <2> QED BY <1>3, <2>1, Stutters DEF LeaseLapses, BecomesDue
<1>4. CASE \E d \in Dispatcher : Step(d) \/ Abandon(d)
  BY <1>4, LoopRefines
<1>5. CASE \E c \in calls : BotExecutes(c)
  BY <1>5, BotRefines
<1>6. CASE UNCHANGED <<row, posts>>
  BY <1>6, Stutters
<1> QED BY <1>1, <1>2, <1>3, <1>4, <1>5, <1>6
     DEF Next, vars, BroadcastMoves, StreamEnds, StartUnannounced, CallLost

(* The outbox implements Announcement: every message is posted at most once,
   outcomes are truthful and final
   (discord_youtube_live_notification_outbox.go, the dispatch loop, the fence
   and the recovery). *)
THEOREM PromiseKept == Spec => KeepsPromise
<1>1. Init => Promise!Init
  <2> SUFFICES ASSUME Init PROVE Promise!Init
    OBVIOUS
  <2>1. \A n \in Notification : Seen(row[n].state) = "none" /\ (posts[n] > 0) = FALSE
    BY DEF Init, NoRow, Seen
  <2> QED BY <2>1, Mapped DEF Promise!Init
<1> QED BY <1>1, StepRefines, Inductive, PTL DEF Spec, KeepsPromise, Promise!Spec
=============================================================================
