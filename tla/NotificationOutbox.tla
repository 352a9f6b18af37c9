------------------------- MODULE NotificationOutbox -------------------------
(***************************************************************************)
(* The durable outbox of "stream is live on YouTube" messages for Discord: *)
(* table stream_discord_youtube_live_notifications, the dispatch loop of   *)
(* every Panel, the YouTube broadcast it polls and the Discord Bot it      *)
(* calls.  A dispatcher claims one row under a lease, asks YouTube, commits *)
(* the side-effect fence (bot_dispatching), calls the Bot and records what *)
(* it learnt.  It may die anywhere, its lease may expire at any moment     *)
(* (clocks of Panels differ), and a Bot call may be executed late.         *)
(***************************************************************************)
EXTENDS Naturals, FiniteSets

CONSTANTS
  Notification,    \* identities of outbox rows (and of their Bot event ids)
  NoNotification,
  Dispatcher,      \* the loops of the Panels sharing the database
  NoDispatcher,
  Modes,           \* "stream_key" and "live_api" outputs
  MaxStarts        \* bound: rows that come from a start; the others are recoveries

ASSUME OutboxAssumption ==
  /\ NoNotification \notin Notification
  /\ NoDispatcher \notin Dispatcher
  /\ Modes \subseteq {"stream_key", "live_api"}
  /\ MaxStarts \in Nat

VARIABLES
  row,          \* the table
  streamLive,   \* streams.status = "live"
  lifecycle,    \* the YouTube broadcast of each notification
  disp,         \* the dispatch loops
  calls,        \* Bot calls not yet executed
  answers,      \* per dispatcher: the answer to its Bot call
  posts         \* history: Discord messages per event id

vars == <<row, streamLive, lifecycle, disp, calls, answers, posts>>

State == {"absent", "awaiting_youtube_live", "dispatch_pending", "dispatching",
          "bot_dispatching", "delivered", "delivery_unknown", "suppressed"}
Lifecycle == {"ready", "liveStarting", "live", "complete"}
Answer == {"none", "receipt", "no_receipt", "retryable", "rejected", "unknown"}
PC == {"idle", "scanned", "claimed", "checked", "ready", "calling"}

\* lease: the dispatcher whose token the row carries; lapsed: lease_expires_at
\* has passed; due: next_attempt_at has passed; asked: last_error holds the
\* code of a live-transition request.
Row == [state : State, mode : {"stream_key", "live_api"},
        lease : Dispatcher \union {NoDispatcher}, lapsed : BOOLEAN,
        due : BOOLEAN, asked : BOOLEAN,
        recoveryOf : Notification \union {NoNotification}]

TypeOK ==
  /\ row \in [Notification -> Row]
  /\ streamLive \in BOOLEAN
  /\ lifecycle \in [Notification -> Lifecycle]
  /\ disp \in [Dispatcher -> [pc : PC, n : Notification \union {NoNotification},
                                asked : BOOLEAN]]
  /\ calls \subseteq Dispatcher \X Notification
  /\ answers \in [Dispatcher -> Answer]
  /\ posts \in [Notification -> Nat]

NoRow == [state |-> "absent", mode |-> "stream_key", lease |-> NoDispatcher,
          lapsed |-> FALSE, due |-> FALSE, asked |-> FALSE,
          recoveryOf |-> NoNotification]

NoWork == [pc |-> "idle", n |-> NoNotification, asked |-> FALSE]

Init ==
  /\ row = [n \in Notification |-> NoRow]
  /\ streamLive = FALSE
  /\ lifecycle = [n \in Notification |-> "ready"]
  /\ disp = [d \in Dispatcher |-> NoWork]
  /\ calls = {}
  /\ answers = [d \in Dispatcher |-> "none"]
  /\ posts = [n \in Notification |-> 0]

-----------------------------------------------------------------------------
(* Rows come from a start that completes, or from an operator's recovery.  *)

\* initialDiscordYouTubeLiveNotificationState
InitialState(mode) ==
  IF mode = "stream_key" THEN "dispatch_pending" ELSE "awaiting_youtube_live"

\* normalizeNewDiscordYouTubeLiveNotification: due at once, nothing carried over
NewRow(mode, prior) ==
  [NoRow EXCEPT !.state = InitialState(mode), !.mode = mode, !.due = TRUE,
                !.recoveryOf = prior]

\* TransitionStreamStatusAndEnqueue...: the stream goes live and the row is
\* inserted in one transaction.
StartCompletes(n) ==
  /\ ~streamLive
  /\ row[n].state = "absent"
  /\ Cardinality({k \in Notification : /\ row[k].state # "absent"
                                        /\ row[k].recoveryOf = NoNotification}) < MaxStarts
  /\ streamLive' = TRUE
  /\ \E m \in Modes : row' = [row EXCEPT ![n] = NewRow(m, NoNotification)]
  /\ UNCHANGED <<lifecycle, disp, calls, answers, posts>>

\* A start of a stream that has nothing to announce any more: older rows find
\* the stream live again.
StartUnannounced ==
  /\ ~streamLive
  /\ streamLive' = TRUE
  /\ UNCHANGED <<row, lifecycle, disp, calls, answers, posts>>

StreamEnds ==
  /\ streamLive
  /\ streamLive' = FALSE
  /\ UNCHANGED <<row, lifecycle, disp, calls, answers, posts>>

\* CreateDiscordYouTubeLiveNotificationRecovery: one new event id for a row
\* whose delivery is unknown, at most once.
Recoverable(n) ==
  /\ streamLive
  /\ row[n].state = "delivery_unknown"
  /\ \A k \in Notification : row[k].recoveryOf # n

Recover(n, k) ==
  /\ Recoverable(n)
  /\ row[k].state = "absent"
  /\ row' = [row EXCEPT ![k] = NewRow(row[n].mode, n)]
  /\ lifecycle' = [lifecycle EXCEPT ![k] = lifecycle[n]]
  /\ UNCHANGED <<streamLive, disp, calls, answers, posts>>

-----------------------------------------------------------------------------
(* The dispatch loop.                                                      *)

At(d, pc) == disp[d].pc = pc
Goto(d, pc) == disp' = [disp EXCEPT ![d].pc = pc]
\* The dispatcher is done with its claim, whatever became of the row.
Idle(d) ==
  /\ disp' = [disp EXCEPT ![d] = NoWork]
  /\ answers' = [answers EXCEPT ![d] = "none"]

FenceSkipped(d) ==
  /\ At(d, "idle")
  /\ Goto(d, "scanned")
  /\ UNCHANGED <<row, streamLive, lifecycle, calls, answers, posts>>

\* FenceExpired...: lapsed leases that crossed the Bot boundary are closed.
FenceExpired(d) ==
  /\ At(d, "idle")
  /\ row' = [n \in Notification |->
               IF row[n].state = "bot_dispatching" /\ row[n].lapsed
                 THEN [row[n] EXCEPT !.state = "delivery_unknown", !.due = FALSE,
                                     !.lease = NoDispatcher, !.lapsed = FALSE,
                                     !.asked = FALSE]
                 ELSE row[n]]
  /\ Goto(d, "scanned")
  /\ UNCHANGED <<streamLive, lifecycle, calls, answers, posts>>

\* Due for a claim: its time has come, or the lease of a dispatcher that had
\* not reached the Bot has lapsed.
ClaimDueAnyLease(n) ==
  \/ row[n].state \in {"awaiting_youtube_live", "dispatch_pending"} /\ row[n].due
  \/ row[n].state \in {"dispatching", "bot_dispatching"} /\ row[n].lapsed

ClaimDue(n) ==
  \/ row[n].state \in {"awaiting_youtube_live", "dispatch_pending"} /\ row[n].due
  \/ row[n].state = "dispatching" /\ row[n].lapsed

\* ClaimDueDiscordYouTubeLiveNotifications with a batch of one.
Claim(d) ==
  /\ At(d, "scanned")
  /\ \/ \E n \in Notification :
          /\ ClaimDue(n)
          /\ row' = [row EXCEPT ![n].state = "dispatching", ![n].lease = d,
                                ![n].lapsed = FALSE]
          /\ disp' = [disp EXCEPT ![d] = [pc |-> "claimed", n |-> n,
                                          asked |-> row[n].asked]]
     \/ /\ \A n \in Notification : ~ClaimDue(n)
        /\ Goto(d, "idle")
        /\ UNCHANGED row
  /\ UNCHANGED <<streamLive, lifecycle, calls, answers, posts>>

\* The row still carries this dispatcher's token and the lease is running.
LeaseHeld(d, n) ==
  /\ row[n].lease = d /\ ~row[n].lapsed
  /\ row[n].state \in {"dispatching", "bot_dispatching"}

\* updateClaimedDiscordYouTubeLiveNotification: without the lease the row is
\* left alone, and the dispatcher only logs.
Record(d, n, s, asked) ==
  /\ IF LeaseHeld(d, n) /\ (s \in {"delivered", "delivery_unknown"}
                              => row[n].state = "bot_dispatching")
       THEN row' = [row EXCEPT ![n].state = s, ![n].asked = asked, ![n].due = FALSE,
                               ![n].lease = NoDispatcher, ![n].lapsed = FALSE]
       ELSE UNCHANGED row
  /\ Idle(d)
  /\ UNCHANGED <<streamLive, calls, posts>>

\* GetStream: gone or not live is the end, a failed lookup a retry.
CheckStream(d) ==
  /\ At(d, "claimed")
  /\ LET n == disp[d].n IN
     \/ ~streamLive /\ Record(d, n, "suppressed", FALSE)
     \/ Record(d, n, "dispatch_pending", FALSE)
     \/ streamLive /\ Goto(d, "checked")
        /\ UNCHANGED <<row, streamLive, calls, answers, posts>>
  /\ UNCHANGED lifecycle

Retry(d, asked) == Record(d, disp[d].n, "awaiting_youtube_live", asked)

\* discordYouTubeLiveNotificationLifecycle for what the broadcast now says.
Lifecycled(d, s, asked) ==
  \/ s = "live" /\ Goto(d, "ready")
     /\ UNCHANGED <<row, streamLive, calls, answers, posts>>
  \/ s = "complete" /\ Record(d, disp[d].n, "suppressed", FALSE)
  \/ s \notin {"live", "complete"} /\ Retry(d, asked)

\* A lookup that fails says nothing; one that answers liveStarting asks for
\* the transition unless the claimed row remembers that somebody did.
CheckProvider(d) ==
  /\ At(d, "checked")
  /\ LET n == disp[d].n IN
     \/ /\ row[n].mode = "stream_key"
        /\ Goto(d, "ready")
        /\ UNCHANGED <<row, streamLive, lifecycle, calls, answers, posts>>
     \/ /\ row[n].mode = "live_api"
        /\ Retry(d, FALSE)
        /\ UNCHANGED lifecycle
     \/ /\ row[n].mode = "live_api"
        /\ lifecycle[n] # "liveStarting"
        /\ Lifecycled(d, lifecycle[n], FALSE)
        /\ UNCHANGED lifecycle
     \/ /\ row[n].mode = "live_api" /\ lifecycle[n] = "liveStarting"
        /\ disp[d].asked
        /\ Retry(d, TRUE)
        /\ UNCHANGED lifecycle
     \/ /\ row[n].mode = "live_api" /\ lifecycle[n] = "liveStarting"
        /\ ~disp[d].asked
        /\ \E s \in {"liveStarting", "live", "complete"} :
             /\ lifecycle' = [lifecycle EXCEPT ![n] = s]
             /\ Lifecycled(d, s, TRUE)

\* Assignment lookup, target or notifier missing: retry.  Otherwise the fence
\* is committed and the Bot is called.
BeginBotDispatch(d) ==
  /\ At(d, "ready")
  /\ LET n == disp[d].n IN
     \/ Record(d, n, "dispatch_pending", FALSE)
     \/ /\ LeaseHeld(d, n) /\ row[n].state = "dispatching"
        /\ row' = [row EXCEPT ![n].state = "bot_dispatching"]
        /\ calls' = calls \union {<<d, n>>}
        /\ Goto(d, "calling")
        /\ UNCHANGED <<streamLive, answers, posts>>
     \/ /\ ~(LeaseHeld(d, n) /\ row[n].state = "dispatching")
        /\ Idle(d)
        /\ UNCHANGED <<row, streamLive, calls, posts>>
  /\ UNCHANGED lifecycle

\* The Bot executes a call: it posts, with or without a receipt in the
\* answer, or refuses before posting.  A dispatcher that gave up gets nothing.
BotExecutes(c) ==
  /\ c \in calls
  /\ calls' = calls \ {c}
  /\ \E a \in {"receipt", "no_receipt", "retryable", "rejected"} :
       /\ posts' = IF a \in {"receipt", "no_receipt"}
                     THEN [posts EXCEPT ![c[2]] = @ + 1] ELSE posts
       /\ answers' = IF At(c[1], "calling") /\ disp[c[1]].n = c[2]
                          /\ answers[c[1]] = "none"
                       THEN [answers EXCEPT ![c[1]] = a] ELSE answers
  /\ UNCHANGED <<row, streamLive, lifecycle, disp>>

\* The call's deadline passes or the transport fails: the Bot may still
\* execute it, or never got it.
CallLost(c) ==
  /\ c \in calls
  /\ At(c[1], "calling") /\ disp[c[1]].n = c[2] /\ answers[c[1]] = "none"
  /\ calls' = calls \ {c} \/ UNCHANGED calls
  /\ answers' = [answers EXCEPT ![c[1]] = "unknown"]
  /\ UNCHANGED <<row, streamLive, lifecycle, disp, posts>>

OutcomeOptimistic(a) ==
  CASE a = "receipt" -> "delivered"
    [] a = "no_receipt" -> "delivery_unknown"
    [] a = "rejected" -> "suppressed"
    [] OTHER -> "dispatch_pending"

\* What the answer becomes in the row.
OutcomeOf(a) ==
  CASE a = "receipt" -> "delivered"
    [] a \in {"no_receipt", "unknown"} -> "delivery_unknown"
    [] a = "retryable" -> "dispatch_pending"
    [] OTHER -> "suppressed"

RecordOutcome(d) ==
  /\ At(d, "calling")
  /\ answers[d] # "none"
  /\ Record(d, disp[d].n, OutcomeOf(answers[d]), FALSE)
  /\ UNCHANGED lifecycle

\* The Panel dies, its work deadline passes, or saving fails: the claim is
\* dropped and only the lease is left.
Abandon(d) ==
  /\ disp[d].n # NoNotification
  /\ Idle(d)
  /\ UNCHANGED <<row, streamLive, lifecycle, calls, posts>>

-----------------------------------------------------------------------------
(* Time and YouTube.                                                       *)

LeaseLapses(n) ==
  /\ row[n].state \in {"dispatching", "bot_dispatching"} /\ ~row[n].lapsed
  /\ row' = [row EXCEPT ![n].lapsed = TRUE]
  /\ UNCHANGED <<streamLive, lifecycle, disp, calls, answers, posts>>

BecomesDue(n) ==
  /\ row[n].state \in {"awaiting_youtube_live", "dispatch_pending"} /\ ~row[n].due
  /\ row' = [row EXCEPT ![n].due = TRUE]
  /\ UNCHANGED <<streamLive, lifecycle, disp, calls, answers, posts>>

BroadcastMoves(n) ==
  /\ row[n].mode = "live_api" /\ row[n].state # "absent"
  /\ \/ lifecycle[n] = "ready" /\ lifecycle' = [lifecycle EXCEPT ![n] = "liveStarting"]
     \/ lifecycle[n] = "liveStarting" /\ lifecycle' = [lifecycle EXCEPT ![n] = "live"]
     \/ lifecycle[n] # "complete" /\ lifecycle' = [lifecycle EXCEPT ![n] = "complete"]
  /\ UNCHANGED <<row, streamLive, disp, calls, answers, posts>>

Step(d) ==
  \/ FenceExpired(d)
  \/ Claim(d)
  \/ CheckStream(d)
  \/ CheckProvider(d)
  \/ BeginBotDispatch(d)
  \/ RecordOutcome(d)

Next ==
  \/ \E n \in Notification : StartCompletes(n) \/ LeaseLapses(n) \/ BecomesDue(n)
                             \/ BroadcastMoves(n)
  \/ \E n, k \in Notification : Recover(n, k)
  \/ StreamEnds \/ StartUnannounced
  \/ \E d \in Dispatcher : Step(d) \/ Abandon(d)
  \/ \E c \in calls : BotExecutes(c) \/ CallLost(c)

Spec == Init /\ [][Next]_vars

\* The ticker of each Panel goes on; time passes, so leases lapse; every call
\* has a deadline.
Fairness ==
  /\ \A d \in Dispatcher : WF_vars(Step(d))
  /\ \A n \in Notification : WF_vars(LeaseLapses(n))
  /\ \A d \in Dispatcher : WF_vars(\E c \in calls : c[1] = d /\ CallLost(c))

FairSpec == Spec /\ Fairness

-----------------------------------------------------------------------------
(* Properties.                                                             *)

\* The promise: at most one message per event id, and truthful outcomes
\* ("retrying that event automatically could duplicate a public message").
outcome == [n \in Notification |->
  CASE row[n].state = "absent" -> "none"
    [] row[n].state = "delivery_unknown" -> "unknown"
    [] row[n].state \in {"delivered", "suppressed"} -> row[n].state
    [] OTHER -> "open"]
posted == [n \in Notification |-> posts[n] > 0]

Promise == INSTANCE Announcement

\* The outbox keeps the promise: every step of the dispatchers, the Bot and
\* the operators is a step of Announcement or changes nothing it speaks of.
KeepsPromise == Promise!Spec

\* No event id is ever posted twice, whatever crashes, lapsed leases and late
\* calls do, and without counting on the Bot to recognise a repeated id.
PostedOnce == \A n \in Notification : posts[n] <= 1

\* A row past the Bot boundary never stays there: it is recorded or fenced.
BotDispatchSettles ==
  \A n \in Notification :
    row[n].state = "bot_dispatching" ~> row[n].state # "bot_dispatching"

=============================================================================
