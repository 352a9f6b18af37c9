----------------------------- MODULE VideoCover -----------------------------
(***************************************************************************)
(* The picture that covers a stream's video, and how the Panel switches it *)
(* while the stream runs.  Every start of the stream opens a generation: a *)
(* runtime row with the desired cover, the cover known to be applied and a *)
(* reconciliation status.  A request names the generation and revision it  *)
(* saw and carries an idempotency key; the Panel stores it as an action,   *)
(* sends it to the Encoder once, and records applied, failed or, when the  *)
(* answer is lost, confirming.  A confirming action is never sent again:   *)
(* the Panel only asks the Encoder what it shows (ReconcileVideoCover).    *)
(*                                                                         *)
(* One stream; its start and stop are reduced to what they do to the cover *)
(* (StreamLifecycle has the rest).  Requests run in different processes    *)
(* and Panels, so any of them may stop between two steps, and a request    *)
(* the Panel no longer waits for may still reach the Encoder.              *)
(***************************************************************************)
EXTENDS Naturals, Sequences, FiniteSets

CONSTANTS
  Variants,     \* processed pictures a stream may show
  Keys,         \* idempotency keys
  Procs,        \* Panel processes serving cover requests
  None,         \* an absent variant or key
  MaxHistory    \* bound: starts, stored cover changes and settings updates together

ASSUME CoverAssumption == None \notin Variants \cup Keys /\ MaxHistory \in Nat

VARIABLES
  stream,     \* "ready", "begun" and "sent" (starting), "live", "deleted"
  visual,     \* the cover part of the stream's visual settings
  rt,         \* runtime rows, one per generation
  acts,       \* for each generation the stored action of each key
  enc,        \* the Encoder's job: its generation and the cover it shows
  proc,       \* the requests being served
  wire,       \* cover changes on their way to the Encoder
  puts        \* <<generation, key, n>>: the n-th sending of a change (a ghost)

vars == <<stream, visual, rt, acts, enc, proc, wire, puts>>

\* A cover at a revision; revision 0 is NULL.
NoCover == [rev |-> 0, active |-> FALSE, variant |-> None]

\* What a cover puts on air: a hidden one has no picture.
Shown(c) == [c EXCEPT !.variant = IF c.active THEN @ ELSE None]

Gen == Len(rt)
Latest == rt[Gen]
Starting == {"begun", "sent"}

NoAction == [status |-> "absent"]
Unresolved == {"pending", "confirming"}

History == Gen + visual.rev - 1
             + Cardinality({x \in (DOMAIN acts) \X Keys : acts[x[1]][x[2]] # NoAction})

\* What RequestFingerprint covers besides the generation and the key.
Fingerprint(r) == [active |-> r.active, rev |-> r.rev, cand |-> r.cand, visual |-> r.visual]

\* The requests ValidateRequest admits from a client that has seen the current
\* state, and its repeats of stored ones.  One that saw less is refused like one
\* overtaken while it is being checked.
Requests ==
  {r \in [gen : {Gen}, key : Keys, active : BOOLEAN, rev : 1..(MaxHistory + 1),
          cand : Variants \cup {None}, visual : 0..visual.rev] :
      /\ (r.cand = None) <=> (r.visual = 0)
      /\ r.cand # None => r.active
      /\ Gen > 0
      /\ \/ r.rev = Latest.desired.rev /\ r.visual \in {0, visual.rev}
         \/ acts[Gen][r.key] # NoAction /\ acts[Gen][r.key].fp = Fingerprint(r)}

Idle == [pc |-> "idle"]

\* ------------------------------------------------------ the cover's tables --

EnsureGeneration(variant, active) ==
  /\ rt' = Append(rt, [desired |-> [rev |-> 1, active |-> active, variant |-> variant],
                       applied |-> NoCover, status |-> "idle", key |-> None, retired |-> FALSE])
  /\ acts' = Append(acts, [k \in Keys |-> NoAction])

StartMayApply(g, c) == rt[g].desired = c /\ rt[g].applied = NoCover

RecordStartApplied(g) ==
  rt' = [rt EXCEPT ![g].applied = Shown(rt[g].desired), ![g].status = "applied"]

\* Mutant: a failed change may be tried again under its key.
LookupForgetsFailed(r) ==
  r.gen = Gen /\ acts[Gen][r.key].status \notin {"absent", "failed"}

LookupActionReplay(r) == r.gen = Gen /\ acts[Gen][r.key] # NoAction

SameRequest(r) == acts[r.gen][r.key].fp = Fingerprint(r)

\* Mutant: only the expected revision guards a change.
AdmittedByRevision(r) == Latest.desired.rev = r.rev /\ History < MaxHistory

\* A change is admitted at the revision it names and while no other one of the
\* generation is unresolved.
Admitted(r) ==
  /\ Latest.desired.rev = r.rev
  /\ Latest.status # "confirming"
  /\ ~(Latest.status = "idle" /\ Latest.key # None)
  /\ History < MaxHistory

CandidateCurrent(r) == r.cand # None => visual.rev = r.visual /\ r.cand \in visual.cands

Prepared(r) == [rev |-> r.rev + 1, active |-> r.active,
                variant |-> IF r.cand = None THEN Latest.desired.variant ELSE r.cand]

PrepareAction(r) ==
  /\ acts' = [acts EXCEPT ![Gen][r.key] =
                [status |-> "pending", fp |-> Fingerprint(r), cover |-> Prepared(r)]]
  /\ rt' = [rt EXCEPT ![Gen] = [@ EXCEPT !.desired = Prepared(r), !.status = "idle", !.key = r.key]]

\* The outcome settles the row only if the action is still its current one.
CurrentActionMayResolve(row, k, a) ==
  /\ row.key = k /\ row.desired.rev = a.cover.rev
  /\ \/ row.status = "idle" /\ a.status = "pending"
     \/ row.status = "confirming" /\ a.status = "confirming"

\* An action is settled once; its outcome reaches the row as far as it may.
Resolve(g, k, outcome, applied) ==
  LET a == acts[g][k]
  IN  IF a.status \notin Unresolved \/ a.status = outcome
      THEN UNCHANGED <<rt, acts>>
      ELSE /\ acts' = [acts EXCEPT ![g][k].status = outcome]
           /\ rt' = IF ~CurrentActionMayResolve(rt[g], k, a) THEN rt
                    ELSE [rt EXCEPT ![g].status = outcome, ![g].applied = applied]

RecordApplied(g, k) == Resolve(g, k, "applied", Shown(rt[g].desired))
RecordAmbiguous(g, k) == Resolve(g, k, "confirming", rt[g].applied)
RecordFailed(g, k) == Resolve(g, k, "failed", rt[g].applied)

\* -------------------------------------------------------- visual settings --

\* A candidate the running generation shows or may still show stays.
CandidateProtected(v) ==
  /\ Gen > 0 /\ ~Latest.retired
  /\ \/ Latest.applied.variant = v /\ Latest.applied.active
     \/ Latest.desired.variant = v /\ Latest.status \in {"idle", "confirming"}

UpdateVisualSettings ==
  /\ stream = "ready" /\ History < MaxHistory
  /\ \E cs \in SUBSET Variants : \E sel \in cs \cup {None}, on \in BOOLEAN :
       /\ \A v \in visual.cands \ cs : ~CandidateProtected(v)
       /\ visual' = [cands |-> cs, sel |-> sel, on |-> on /\ sel # None, rev |-> visual.rev + 1]
  /\ UNCHANGED <<stream, rt, acts, enc, proc, wire, puts>>

\* --------------------------------------------------------- start and stop --

NoJob == [gen |-> 0, cover |-> NoCover, doubt |-> NoCover]

BeginVideoCoverGeneration ==
  /\ stream = "ready" /\ History < MaxHistory
  /\ stream' = "begun"
  /\ EnsureGeneration(visual.sel, visual.on)
  /\ UNCHANGED <<visual, enc, proc, wire, puts>>

\* The start snapshot is the generation's first revision with the settings'
\* picture; the settings cannot change while the stream starts.
StartSnapshot == [rev |-> 1, active |-> visual.on, variant |-> visual.sel]

DispatchStart ==
  /\ stream = "begun"
  /\ stream' = "sent"
  /\ enc' = [gen |-> Gen, cover |-> Shown(StartSnapshot), doubt |-> NoCover]
  /\ UNCHANGED <<visual, rt, acts, proc, wire, puts>>

\* A start that fails is stopped at the Encoder; the generation stays open.
FailStart ==
  /\ stream \in Starting
  /\ stream' = "ready" /\ enc' = NoJob
  /\ UNCHANGED <<visual, rt, acts, proc, wire, puts>>

CompleteStart ==
  /\ stream = "sent" /\ StartMayApply(Gen, StartSnapshot)
  /\ RecordStartApplied(Gen)
  /\ stream' = "live"
  /\ UNCHANGED <<visual, acts, enc, proc, wire, puts>>

StopStream ==
  /\ stream \in Starting \cup {"live"}
  /\ stream' = "ready" /\ enc' = NoJob
  /\ rt' = [g \in DOMAIN rt |-> [rt[g] EXCEPT !.retired = TRUE]]
  /\ UNCHANGED <<visual, acts, proc, wire, puts>>

RetireStreamCovers ==
  /\ rt' = [g \in DOMAIN rt |-> [rt[g] EXCEPT !.retired = TRUE, !.desired.variant = None,
                                              !.applied.variant = None]]
  /\ acts' = [g \in DOMAIN acts |-> [k \in Keys |->
                IF acts[g][k] = NoAction THEN NoAction
                ELSE [acts[g][k] EXCEPT !.cover.variant = None]]]
  /\ visual' = [visual EXCEPT !.cands = {}, !.sel = None, !.on = FALSE]

DeleteStream ==
  /\ stream = "ready"
  /\ stream' = "deleted"
  /\ RetireStreamCovers
  /\ UNCHANGED <<enc, proc, wire, puts>>

\* ----------------------------------------------------- a request's journey --

\* The action is the one its generation is confirming.
StillConfirming(r) ==
  /\ acts[r.gen][r.key].status = "confirming"
  /\ Latest.key = r.key /\ Latest.status = "confirming"

\* A stored action is answered from its row, or asked about.
Replay(p, r) ==
  proc' = [proc EXCEPT ![p] = IF SameRequest(r) /\ StillConfirming(r)
                              THEN [pc |-> "reconcile", gen |-> r.gen, key |-> r.key,
                                    cover |-> acts[r.gen][r.key].cover]
                              ELSE Idle]

\* The picture must be one the settings offer.
PictureAvailable(r) ==
  LET v == IF r.cand = None THEN Latest.desired.variant ELSE r.cand
  IN  /\ r.cand # None => visual.rev = r.visual
      /\ v # None
      /\ v \in visual.cands \/ (v = visual.sel /\ r.cand = None)

\* Every check before PrepareAction; a request refused here changes nothing.
AcceptRequest(p, r) ==
  /\ proc[p] = Idle
  /\ \/ LookupActionReplay(r) /\ Replay(p, r)
     \/ /\ ~LookupActionReplay(r) /\ r.gen = Gen /\ PictureAvailable(r)
        /\ proc' = [proc EXCEPT ![p] = [pc |-> "checked", r |-> r]]
  /\ UNCHANGED <<stream, visual, rt, acts, enc, wire, puts>>

PrepareStep(p) ==
  /\ proc[p].pc = "checked"
  /\ LET r == proc[p].r
         live == stream # "deleted" /\ CandidateCurrent(r) /\ r.gen = Gen
     IN  \/ /\ live /\ LookupActionReplay(r)
            /\ Replay(p, r)
            /\ UNCHANGED <<rt, acts>>
         \/ /\ live /\ ~LookupActionReplay(r) /\ Admitted(r)
            /\ PrepareAction(r)
            /\ proc' = [proc EXCEPT ![p] = [pc |-> "prepared", gen |-> r.gen, key |-> r.key,
                                            cover |-> Prepared(r)]]
         \/ /\ ~live \/ (~LookupActionReplay(r) /\ ~Admitted(r))
            /\ proc' = [proc EXCEPT ![p] = Idle]
            /\ UNCHANGED <<rt, acts>>
  /\ UNCHANGED <<stream, visual, enc, wire, puts>>

Settle(p, outcome) ==
  proc' = [proc EXCEPT ![p] = [pc |-> "record", gen |-> @.gen, key |-> @.key, cover |-> @.cover,
                               outcome |-> outcome]]

FailsUnsent(p) ==
  /\ Settle(p, "failed")
  /\ UNCHANGED <<wire, puts>>

PutRuntimeState(p) ==
  /\ proc' = [proc EXCEPT ![p].pc = "sent"]
  /\ wire' = wire \cup {[gen |-> proc[p].gen, key |-> proc[p].key, cover |-> Shown(proc[p].cover)]}
  /\ LET earlier == {x \in puts : x[1] = proc[p].gen /\ x[2] = proc[p].key}
     IN  puts' = puts \cup {<<proc[p].gen, proc[p].key, Cardinality(earlier) + 1>>}

\* Before it sends anything the Panel reads the file and the Encoder's state; an
\* unreadable file or Encoder, or another generation, fails the action.  The
\* time between reading and sending is time the change is on the wire, where
\* one that is lost stays for good.
DispatchVideoCover(p) ==
  /\ proc[p].pc = "prepared"
  /\ \/ FailsUnsent(p)
     \/ enc.gen = proc[p].gen /\ PutRuntimeState(p)
  /\ UNCHANGED <<stream, visual, rt, acts, enc>>

Awaits(p, msg) == proc[p].pc = "sent" /\ proc[p].gen = msg.gen /\ proc[p].key = msg.key

\* No answer within the timeout.
LoseAnswer(p) ==
  /\ proc[p].pc = "sent"
  /\ Settle(p, "confirming")
  /\ UNCHANGED <<stream, visual, rt, acts, enc, wire, puts>>

\* The answer reaches the process if it still waits for it.
Answer(msg, outcome) ==
  \/ \E p \in Procs : Awaits(p, msg) /\ Settle(p, outcome)
  \/ (\A p \in Procs : ~Awaits(p, msg)) /\ UNCHANGED proc

\* The Encoder's fence: its own generation and a newer revision than it has.
Fenced(msg) == \/ msg.gen # enc.gen
               \/ msg.cover.rev <= enc.cover.rev
               \/ msg.cover.rev <= enc.doubt.rev

\* It applies the change, refuses it, or cannot tell whether its graph took it.
EncoderHandles(msg) ==
  /\ wire' = wire \ {msg}
  /\ \/ enc' = enc /\ Answer(msg, "failed")
     \/ ~Fenced(msg) /\ enc' = [enc EXCEPT !.cover = msg.cover] /\ Answer(msg, "applied")
     \/ ~Fenced(msg) /\ enc' = [enc EXCEPT !.doubt = msg.cover] /\ Answer(msg, "confirming")
  /\ UNCHANGED <<stream, visual, rt, acts, puts>>

EncoderSettles ==
  /\ enc.doubt # NoCover
  /\ \E c \in {enc.cover, enc.doubt} : enc' = [enc EXCEPT !.cover = c, !.doubt = NoCover]
  /\ UNCHANGED <<stream, visual, rt, acts, proc, wire, puts>>

\* getVideoCoverState asks about the action its reading found confirming.
PollState(p) ==
  /\ proc[p] = Idle /\ Gen > 0
  /\ Latest.status = "confirming" /\ Latest.key # None
  /\ proc' = [proc EXCEPT ![p] = [pc |-> "reconcile", gen |-> Gen, key |-> Latest.key,
                                  cover |-> Latest.desired]]
  /\ UNCHANGED <<stream, visual, rt, acts, enc, wire, puts>>

\* Mutant: a cover that is not the requested one is a refusal.
AbsentIsFailure(p) ==
  IF enc.gen # proc[p].gen \/ enc.cover # Shown(proc[p].cover) THEN "failed" ELSE "applied"

\* What the Encoder's state says of the action: only the requested revision
\* settles it, an older one proves nothing.
ReconcileVideoCover(p) ==
  IF enc.gen # proc[p].gen THEN "failed"
  ELSE IF enc.doubt # NoCover \/ enc.cover.rev # proc[p].cover.rev
            \/ enc.cover.active # proc[p].cover.active THEN "confirming"
  ELSE IF enc.cover # Shown(proc[p].cover) THEN "failed" ELSE "applied"

AskEncoder(p) ==
  /\ proc[p].pc = "reconcile"
  /\ \/ Settle(p, "confirming")
     \/ enc.gen # 0 /\ Settle(p, ReconcileVideoCover(p))
  /\ UNCHANGED <<stream, visual, rt, acts, enc, wire, puts>>

RecordOutcome(p) ==
  /\ proc[p].pc = "record"
  /\ CASE proc[p].outcome = "applied" -> RecordApplied(proc[p].gen, proc[p].key)
       [] proc[p].outcome = "confirming" -> RecordAmbiguous(proc[p].gen, proc[p].key)
       [] OTHER -> RecordFailed(proc[p].gen, proc[p].key)
  /\ proc' = [proc EXCEPT ![p] = Idle]
  /\ UNCHANGED <<stream, visual, enc, wire, puts>>

\* The process dies; what it stored and sent stays.
Crash(p) ==
  /\ proc[p] # Idle
  /\ proc' = [proc EXCEPT ![p] = Idle]
  /\ UNCHANGED <<stream, visual, rt, acts, enc, wire, puts>>

\* ------------------------------------------------------------ specification --

Init ==
  /\ stream = "ready"
  /\ \E sel \in Variants, on \in BOOLEAN :
       visual = [cands |-> Variants, sel |-> sel, on |-> on, rev |-> 1]
  /\ rt = <<>> /\ acts = <<>>
  /\ enc = NoJob
  /\ proc = [p \in Procs |-> Idle]
  /\ wire = {} /\ puts = {}

Lifecycle == \/ BeginVideoCoverGeneration \/ DispatchStart \/ FailStart \/ CompleteStart
             \/ StopStream \/ DeleteStream

Request(p) == \/ \E r \in Requests : AcceptRequest(p, r)
              \/ PrepareStep(p) \/ DispatchVideoCover(p) \/ LoseAnswer(p)
              \/ PollState(p) \/ AskEncoder(p) \/ RecordOutcome(p) \/ Crash(p)

Next == \/ UpdateVisualSettings
        \/ Lifecycle
        \/ \E p \in Procs : Request(p)
        \/ \E msg \in wire : EncoderHandles(msg)
        \/ EncoderSettles

Spec == Init /\ [][Next]_vars

\* --------------------------------------------------------------- properties --

\* When a generation's row says applied, the Encoder that runs the generation
\* shows exactly the applied cover: no answer that arrives late, no earlier
\* action and no request still on the wire changes it behind the row's back.
ShownAsRecorded ==
  \A g \in DOMAIN rt :
     rt[g].status = "applied" /\ enc.gen = g => enc.cover = rt[g].applied /\ enc.doubt = NoCover

\* A change reported as failed is not on air in its generation and is not on
\* its way: RecordFailed is never reached while the outcome is in doubt.
FailedNotShown ==
  \A g \in DOMAIN acts, k \in Keys :
     acts[g][k].status = "failed" /\ enc.gen = g =>
        /\ acts[g][k].cover.rev \notin {enc.cover.rev, enc.doubt.rev}
        /\ \A msg \in wire : <<msg.gen, msg.key>> # <<g, k>>

\* However often a key is repeated and by whichever process, its change is
\* sent to the Encoder at most once (no automatic resend).
SentOnce == \A x \in puts : x[3] = 1
=============================================================================
