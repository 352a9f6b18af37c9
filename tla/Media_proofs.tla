---------------------------- MODULE Media_proofs ----------------------------
(***************************************************************************)
(* Proofs about VideoCover, for any variants, keys, processes and number   *)
(* of generations and changes, and, from AssetRow on, about MediaAssets,   *)
(* for any sessions, assets, streams, presets, contents and writers.       *)
(***************************************************************************)
EXTENDS VideoCover, MediaAssets, FiniteSetTheorems, TLAPS

-----------------------------------------------------------------------------
(* The types.                                                              *)

Cover == [rev : Nat, active : BOOLEAN, variant : Variants \cup {None}]
Row == [desired : Cover, applied : Cover,
        status : {"idle", "applied", "failed", "confirming"},
        key : Keys \cup {None}, retired : BOOLEAN]
Fp == [active : BOOLEAN, rev : Nat, cand : Variants \cup {None}, visual : Nat]
Stored == [status : {"pending", "confirming", "applied", "failed"}, fp : Fp, cover : Cover]
Req == [gen : Nat \ {0}, key : Keys, active : BOOLEAN, rev : Nat, cand : Variants \cup {None},
        visual : Nat]
Msg == [gen : Nat, key : Keys, cover : Cover]
Checked == [pc : {"checked"}, r : Req]
OnAction == [pc : {"prepared", "sent", "reconcile"}, gen : Nat, key : Keys, cover : Cover]
Recording == [pc : {"record"}, gen : Nat, key : Keys, cover : Cover,
              outcome : {"applied", "confirming", "failed"}]

\* The table of actions of a generation.
Table == [Keys -> Stored \cup {NoAction}]

TypeOK ==
  /\ stream \in {"ready", "begun", "sent", "live", "deleted"}
  /\ visual \in [cands : SUBSET Variants, sel : Variants \cup {None}, on : BOOLEAN, rev : Nat]
  /\ rt \in Seq(Row) /\ acts \in Seq(Table) /\ Len(acts) = Len(rt)
  /\ enc \in [gen : Nat, cover : Cover, doubt : Cover]
  /\ proc \in [Procs -> {Idle} \cup Checked \cup OnAction \cup Recording]
  /\ wire \subseteq Msg

-----------------------------------------------------------------------------
(* The inductive invariant.                                                *)

Has(g, k) == acts[g][k] # NoAction
RowStatus(st) == IF st = "pending" THEN "idle" ELSE st

\* A row names the last action of its generation and stands as that action
\* does; every other action is settled.
RowOK(g) ==
  /\ rt[g].desired.rev >= 1
  /\ rt[g].key = None =>
       /\ rt[g].desired.rev = 1 /\ rt[g].status \in {"idle", "applied"}
       /\ \A k \in Keys : ~Has(g, k)
  /\ rt[g].key # None =>
       /\ Has(g, rt[g].key)
       /\ acts[g][rt[g].key].cover = rt[g].desired
       /\ rt[g].status = RowStatus(acts[g][rt[g].key].status)

ActionOK(g, k) ==
  Has(g, k) =>
    /\ acts[g][k].cover.rev >= 2 /\ acts[g][k].cover.rev <= rt[g].desired.rev
    /\ acts[g][k].status \in Unresolved => rt[g].key = k
    /\ \A l \in Keys : Has(g, l) /\ acts[g][l].cover.rev = acts[g][k].cover.rev => l = k

RowsOK == \A g \in DOMAIN rt : RowOK(g) /\ \A k \in Keys : ActionOK(g, k)

\* The processes at work on a stored action.
Busy(p) == proc[p].pc \in {"prepared", "sent", "reconcile", "record"}
On(p, g, k) == Busy(p) /\ proc[p].gen = g /\ proc[p].key = k

\* While an action is pending one process has it at most.
ProcOK(p) ==
  Busy(p) =>
    LET a == acts[proc[p].gen][proc[p].key] IN
    /\ proc[p].gen \in DOMAIN rt /\ a # NoAction
    /\ stream # "deleted" => proc[p].cover = a.cover
    /\ proc[p].pc \in {"prepared", "sent"} => a.status = "pending"
    /\ proc[p].pc = "reconcile" => a.status # "pending"
    /\ a.status = "pending" => \A q \in Procs : On(q, proc[p].gen, proc[p].key) => q = p

\* What was sent, and what of it is still on its way.
SentOK ==
  /\ puts \subseteq (DOMAIN rt) \X Keys \X {1}
  /\ \A x \in puts : Has(x[1], x[2])
  /\ \A p \in Procs : proc[p].pc = "prepared" => <<proc[p].gen, proc[p].key, 1>> \notin puts

MessageOK(m) ==
  /\ <<m.gen, m.key, 1>> \in puts
  /\ stream # "deleted" => m.cover = Shown(acts[m.gen][m.key].cover)
  /\ \A n \in wire : n.gen = m.gen /\ n.key = m.key => n = m

WireOK == \A m \in wire : MessageOK(m)

\* The Encoder's job is that of the last generation.
JobOK ==
  /\ enc.gen = 0 => enc = NoJob /\ stream \notin {"sent", "live"}
  /\ enc.gen # 0 => enc.gen = Gen /\ stream \in {"sent", "live"}
  /\ stream = "begun" => Gen > 0

\* The generation that has a job, or is about to get one.
Current(g) == g = Gen /\ stream \in {"begun", "sent", "live"}

Revs == {enc.cover.rev, enc.doubt.rev}
OnWire(g, k) == \E m \in wire : m.gen = g /\ m.key = k

\* A change that is neither on air, nor in doubt, nor on its way.
Off(g, k) == acts[g][k].cover.rev \notin Revs /\ ~OnWire(g, k)
\* A change that is on air for good.
OnAir(g, k) == /\ enc.gen = g /\ enc.cover = Shown(acts[g][k].cover) /\ enc.doubt = NoCover
               /\ ~OnWire(g, k)

\* Before the job there is nothing of its generation at the Encoder.
BegunOK ==
  stream = "begun" =>
    /\ rt[Gen].status \in {"idle", "failed"}
    /\ \A k \in Keys : ~OnWire(Gen, k)
    /\ \A k \in Keys : Has(Gen, k) => acts[Gen][k].status \in {"pending", "failed"}
    /\ \A p \in Procs : Busy(p) /\ proc[p].gen = Gen =>
         \/ proc[p].pc = "prepared"
         \/ proc[p].pc = "record" /\ proc[p].outcome = "failed"

\* What the Encoder shows or doubts is the start's cover or a stored change.
ShowsOK ==
  enc.gen # 0 =>
    /\ \/ /\ enc.cover.rev = 1
          /\ stream = "sent" => enc.cover = Shown(StartSnapshot)
       \/ \E k \in Keys : Has(Gen, k) /\ enc.cover = Shown(acts[Gen][k].cover)
    /\ \/ enc.doubt = NoCover
       \/ \E k \in Keys : /\ Has(Gen, k) /\ enc.doubt = Shown(acts[Gen][k].cover)
                          /\ acts[Gen][k].status \in Unresolved

\* A change on its way is undecided and new to the Encoder; one that was not
\* sent, or has failed, is unknown to it.
ChangesOK ==
  \A g \in DOMAIN rt : Current(g) =>
    /\ \A m \in wire : m.gen = g =>
         acts[g][m.key].status \in Unresolved /\ acts[g][m.key].cover.rev \notin Revs
    /\ \A k \in Keys : Has(g, k) /\ acts[g][k].status = "failed" => Off(g, k)
    /\ \A p \in Procs : proc[p].pc = "prepared" /\ proc[p].gen = g => Off(g, proc[p].key)

\* What a process is about to record is true, unless it was recorded already.
OutcomeOK(p) ==
  /\ proc[p].pc = "record" /\ Current(proc[p].gen)
  /\ acts[proc[p].gen][proc[p].key].status \in Unresolved
  => /\ proc[p].outcome = "failed" => Off(proc[p].gen, proc[p].key)
     /\ proc[p].outcome = "applied" => OnAir(proc[p].gen, proc[p].key)

OutcomesOK == \A p \in Procs : OutcomeOK(p)
ProcsOK == \A p \in Procs : ProcOK(p)

IInv == /\ TypeOK /\ RowsOK /\ ProcsOK /\ SentOK /\ WireOK /\ JobOK
        /\ BegunOK /\ ShowsOK /\ ChangesOK /\ OutcomesOK /\ ShownAsRecorded

-----------------------------------------------------------------------------
(* What the types say of a state.                                          *)

LEMMA RowTypes ==
  ASSUME TypeOK
  PROVE  /\ Gen \in Nat /\ DOMAIN rt = 1 .. Gen /\ DOMAIN acts = 1 .. Gen
         /\ \A g \in DOMAIN rt : rt[g] \in Row /\ acts[g] \in Table
<1>1. /\ Len(rt) \in Nat /\ DOMAIN rt = 1 .. Len(rt)
      /\ \A g \in DOMAIN rt : rt[g] \in Row
  <2> HIDE DEF Row
  <2> QED BY DEF TypeOK
<1>2. DOMAIN acts = 1 .. Len(acts) /\ \A g \in DOMAIN acts : acts[g] \in Table
  <2> HIDE DEF Table
  <2> QED BY DEF TypeOK
<1> QED BY <1>1, <1>2 DEF TypeOK, Gen

LEMMA ActionTypes ==
  ASSUME TypeOK, NEW g \in DOMAIN rt, NEW k \in Keys
  PROVE  /\ Has(g, k) => acts[g][k] \in Stored
         /\ Has(g, k) <=> acts[g][k].status # "absent"
<1>1. acts[g][k] \in Stored \cup {NoAction}
  BY RowTypes DEF Table
<1> QED BY <1>1 DEF Has, Stored, NoAction

LEMMA ProcTypes ==
  ASSUME TypeOK, NEW p \in Procs
  PROVE  /\ proc[p].pc = "checked" => proc[p] \in Checked
         /\ proc[p].pc \in {"prepared", "sent", "reconcile"} => proc[p] \in OnAction
         /\ proc[p].pc = "record" => proc[p] \in Recording
         /\ Busy(p) => proc[p].gen \in Nat /\ proc[p].key \in Keys /\ proc[p].cover \in Cover
<1>1. proc[p] \in {Idle} \cup Checked \cup OnAction \cup Recording
  BY DEF TypeOK
<1>2. /\ proc[p].pc = "checked" => proc[p] \in Checked
      /\ proc[p].pc \in {"prepared", "sent", "reconcile"} => proc[p] \in OnAction
      /\ proc[p].pc = "record" => proc[p] \in Recording
  BY <1>1 DEF Idle, Checked, OnAction, Recording
<1> QED BY <1>2 DEF Busy, OnAction, Recording

LEMMA CoverTypes ==
  /\ NoCover \in Cover /\ NoCover.rev = 0
  /\ \A c \in Cover : Shown(c) \in Cover /\ Shown(c).rev = c.rev
<1>1. NoCover \in Cover /\ NoCover.rev = 0
  BY DEF NoCover, Cover
<1>2. ASSUME NEW c \in Cover PROVE Shown(c) \in Cover /\ Shown(c).rev = c.rev
  BY DEF Shown, Cover
<1> QED BY <1>1, <1>2

-----------------------------------------------------------------------------
(* Steps of one process.                                                   *)

\* A process takes up, goes on with or gives up an action that others left.
NewProc(p) ==
  /\ proc'[p].pc \notin {"prepared", "sent"}
  /\ proc'[p].pc \in {"reconcile", "record"} =>
       LET g == proc'[p].gen  k == proc'[p].key IN
       /\ g \in DOMAIN rt /\ Has(g, k)
       /\ stream # "deleted" => proc'[p].cover = acts[g][k].cover
       /\ proc'[p].pc = "reconcile" => acts[g][k].status # "pending"
       /\ acts[g][k].status = "pending" => On(p, g, k)
       /\ stream = "begun" /\ g = Gen => proc'[p].pc = "record" /\ proc'[p].outcome = "failed"
       /\ proc'[p].pc = "record" /\ Current(g) /\ acts[g][k].status \in Unresolved =>
            /\ proc'[p].outcome = "failed" => Off(g, k)
            /\ proc'[p].outcome = "applied" => OnAir(g, k)

LEMMA ProcStep ==
  ASSUME IInv, NEW p \in Procs, UNCHANGED <<stream, visual, rt, acts, enc, wire, puts>>,
         NEW e \in {Idle} \cup Checked \cup OnAction \cup Recording,
         proc' = [proc EXCEPT ![p] = e], NewProc(p)
  PROVE  IInv'
<1>1. TypeOK'
  BY DEF IInv, TypeOK
<1>2. \A q \in Procs : q # p => proc'[q] = proc[q]
  BY DEF IInv, TypeOK
<1>3. RowsOK' /\ JobOK' /\ ShowsOK' /\ ShownAsRecorded'
  BY DEF IInv, RowsOK, RowOK, ActionOK, JobOK, ShowsOK, ShownAsRecorded, Has, Gen, StartSnapshot
<1>4. WireOK'
  BY DEF IInv, WireOK, MessageOK
<1>5. SentOK'
  BY <1>2 DEF IInv, SentOK, Has, NewProc
<1>10. /\ Gen' = Gen /\ Revs' = Revs
       /\ \A h : Current(h)' <=> Current(h)
       /\ \A h, l : /\ Has(h, l)' <=> Has(h, l)
                    /\ OnWire(h, l)' <=> OnWire(h, l)
                    /\ Off(h, l)' <=> Off(h, l)
  BY DEF Gen, Revs, Current, Has, OnWire, Off
<1>6. BegunOK'
  <2> SUFFICES ASSUME stream = "begun" PROVE BegunOK'
    BY DEF BegunOK
  <2>1. ASSUME NEW q \in Procs, Busy(q)', proc'[q].gen = Gen
        PROVE  proc'[q].pc = "prepared" \/ (proc'[q].pc = "record" /\ proc'[q].outcome = "failed")
    <3>1. CASE q = p
      BY <2>1, <3>1 DEF Busy, NewProc
    <3>2. CASE q # p
      BY <1>2, <2>1, <3>2 DEF IInv, BegunOK, Busy
    <3> QED BY <3>1, <3>2
  <2> QED BY <1>10, <2>1 DEF IInv, BegunOK
<1>7. ChangesOK'
  <2>1. ASSUME NEW q \in Procs, proc'[q].pc = "prepared" PROVE proc'[q] = proc[q]
    BY <1>2, <2>1 DEF NewProc
  <2> QED BY <1>10, <2>1 DEF IInv, ChangesOK
<1>8. OutcomesOK'
  <2>1. ASSUME NEW q \in Procs, q # p PROVE OutcomeOK(q)'
    BY <1>2, <2>1 DEF IInv, OutcomesOK, OutcomeOK, Current, Gen, Off, OnAir, OnWire, Revs
  <2>2. OutcomeOK(p)'
    BY DEF OutcomeOK, Current, Gen, Off, OnAir, OnWire, Revs, NewProc
  <2> QED BY <2>1, <2>2 DEF OutcomesOK
<1>9. ProcsOK'
  <2>1. ASSUME NEW q \in Procs, q # p PROVE ProcOK(q)'
    BY <1>2, <2>1 DEF IInv, ProcsOK, ProcOK, On, Busy, NewProc
  <2>2. ProcOK(p)'
    BY <1>2 DEF IInv, ProcsOK, ProcOK, On, Busy, NewProc, Has
  <2> QED BY <2>1, <2>2 DEF ProcsOK
<1> QED BY <1>1, <1>3, <1>4, <1>5, <1>6, <1>7, <1>8, <1>9 DEF IInv

(* A process that ends, or has only checked a request, has no action. *)
LEMMA FreeStep ==
  ASSUME IInv, NEW p \in Procs, UNCHANGED <<stream, visual, rt, acts, enc, wire, puts>>,
         NEW e \in {Idle} \cup Checked, proc' = [proc EXCEPT ![p] = e]
  PROVE  IInv'
<1>1. proc'[p] = e
  BY DEF IInv, TypeOK
<1>2. e.pc \in {"idle", "checked"}
  BY DEF Idle, Checked
<1>3. NewProc(p)
  BY <1>1, <1>2 DEF NewProc
<1> QED BY <1>3, ProcStep

LEMMA CrashOK ==
  ASSUME IInv, NEW p \in Procs, Crash(p)
  PROVE  IInv'
BY FreeStep DEF Crash

(* An action found confirming is asked about. *)
LEMMA AskStep ==
  ASSUME IInv, NEW p \in Procs, UNCHANGED <<stream, visual, rt, acts, enc, wire, puts>>,
         NEW k \in Keys, Gen > 0, Has(Gen, k), acts[Gen][k].status = "confirming",
         NEW c, c = acts[Gen][k].cover,
         proc' = [proc EXCEPT ![p] = [pc |-> "reconcile", gen |-> Gen, key |-> k, cover |-> c]]
  PROVE  IInv'
<1> DEFINE e == [pc |-> "reconcile", gen |-> Gen, key |-> k, cover |-> c]
<1>0. Gen \in Nat /\ Gen \in DOMAIN rt /\ c \in Cover
  BY RowTypes, ActionTypes DEF IInv, Stored
<1>1. e \in OnAction
  BY <1>0 DEF OnAction
<1>2. e.pc = "reconcile" /\ e.gen = Gen /\ e.key = k /\ e.cover = c
  OBVIOUS
<1> HIDE DEF e
<1>3. proc' = [proc EXCEPT ![p] = e]
  BY DEF e
<1>4. proc'[p] = e
  BY <1>3 DEF IInv, TypeOK
<1>5. stream # "begun"
  BY DEF IInv, BegunOK
<1>6. NewProc(p)
  BY <1>0, <1>2, <1>4, <1>5 DEF NewProc
<1> QED BY <1>1, <1>3, <1>6, ProcStep

LEMMA ReplayOK ==
  ASSUME IInv, NEW p \in Procs, NEW r, r.key \in Keys, Gen > 0, LookupActionReplay(r),
         Replay(p, r), UNCHANGED <<stream, visual, rt, acts, enc, wire, puts>>
  PROVE  IInv'
<1>1. r.gen = Gen /\ Has(Gen, r.key)
  BY DEF LookupActionReplay, Has
<1>2. CASE SameRequest(r) /\ StillConfirming(r)
  <2>1. acts[Gen][r.key].status = "confirming"
    BY <1>1, <1>2 DEF StillConfirming
  <2>2. proc' = [proc EXCEPT ![p] = [pc |-> "reconcile", gen |-> Gen, key |-> r.key,
                                     cover |-> acts[Gen][r.key].cover]]
    BY <1>1, <1>2 DEF Replay
  <2> QED BY <1>1, <2>1, <2>2, AskStep
<1>3. CASE ~(SameRequest(r) /\ StillConfirming(r))
  BY <1>3, FreeStep DEF Replay
<1> QED BY <1>2, <1>3

LEMMA RequestTypes ==
  ASSUME TypeOK, NEW r \in Requests
  PROVE  r \in Req /\ r.gen = Gen /\ Gen > 0
<1>1. /\ r \in [gen : {Gen}, key : Keys, active : BOOLEAN, rev : 1..(MaxHistory + 1),
                cand : Variants \cup {None}, visual : 0..visual.rev]
      /\ Gen > 0
  BY DEF Requests
<1>2. Gen \in Nat /\ visual.rev \in Nat
  BY RowTypes DEF TypeOK
<1>3. /\ DOMAIN r = {"gen", "key", "active", "rev", "cand", "visual"}
      /\ r = [gen |-> r.gen, key |-> r.key, active |-> r.active, rev |-> r.rev,
              cand |-> r.cand, visual |-> r.visual]
      /\ r.gen = Gen /\ r.key \in Keys /\ r.active \in BOOLEAN /\ r.rev \in 1..(MaxHistory + 1)
      /\ r.cand \in Variants \cup {None} /\ r.visual \in 0..visual.rev
  BY <1>1
<1>4. r.rev \in Nat /\ r.visual \in Nat
  BY <1>2, <1>3, CoverAssumption
<1> QED BY <1>1, <1>2, <1>3, <1>4 DEF Req

LEMMA AcceptOK ==
  ASSUME IInv, NEW p \in Procs, NEW r \in Requests, AcceptRequest(p, r)
  PROVE  IInv'
<1>1. r \in Req /\ r.key \in Keys /\ r.gen = Gen /\ Gen > 0
  BY RequestTypes DEF IInv, Req
<1>2. CASE LookupActionReplay(r) /\ Replay(p, r)
  BY <1>1, <1>2, ReplayOK DEF AcceptRequest
<1>3. CASE proc' = [proc EXCEPT ![p] = [pc |-> "checked", r |-> r]]
  <2>1. [pc |-> "checked", r |-> r] \in Checked
    BY <1>1 DEF Checked
  <2> QED BY <1>3, <2>1, FreeStep DEF AcceptRequest
<1> QED BY <1>2, <1>3 DEF AcceptRequest

LEMMA PollOK ==
  ASSUME IInv, NEW p \in Procs, PollState(p)
  PROVE  IInv'
<1> DEFINE k == Latest.key
<1>1. Gen \in DOMAIN rt /\ Gen > 0 /\ k \in Keys /\ k # None
  BY RowTypes DEF IInv, PollState, Latest, Row
<1>2. /\ Has(Gen, k) /\ acts[Gen][k].cover = Latest.desired
      /\ Latest.status = RowStatus(acts[Gen][k].status)
  BY <1>1 DEF IInv, RowsOK, RowOK, Latest
<1>3. acts[Gen][k].status = "confirming"
  BY <1>2 DEF PollState, RowStatus
<1> QED BY <1>1, <1>2, <1>3, AskStep DEF PollState

(* A process has learnt an outcome and is about to record it. *)
LEMMA SettleStep ==
  ASSUME IInv, NEW p \in Procs, UNCHANGED <<stream, visual, rt, acts, enc, wire, puts>>,
         proc[p].pc \in {"prepared", "sent", "reconcile"},
         NEW o \in {"applied", "confirming", "failed"}, Settle(p, o),
         stream = "begun" /\ proc[p].gen = Gen => o = "failed",
         Current(proc[p].gen) /\ o = "failed" => Off(proc[p].gen, proc[p].key),
         Current(proc[p].gen) /\ o = "applied" => OnAir(proc[p].gen, proc[p].key)
  PROVE  IInv'
<1> DEFINE e == [pc |-> "record", gen |-> proc[p].gen, key |-> proc[p].key,
                 cover |-> proc[p].cover, outcome |-> o]
<1>1. Busy(p) /\ proc[p].gen \in Nat /\ proc[p].key \in Keys /\ proc[p].cover \in Cover
  BY ProcTypes DEF IInv, Busy
<1>2. e \in Recording
  BY <1>1 DEF Recording
<1>3. /\ e.pc = "record" /\ e.gen = proc[p].gen /\ e.key = proc[p].key
      /\ e.cover = proc[p].cover /\ e.outcome = o
  OBVIOUS
<1>4. proc' = [proc EXCEPT ![p] = e]
  BY DEF Settle, IInv, TypeOK
<1> HIDE DEF e
<1>5. proc'[p] = e
  BY <1>4 DEF IInv, TypeOK
<1>6. ProcOK(p)
  BY DEF IInv, ProcsOK
<1>7. NewProc(p)
  BY <1>1, <1>3, <1>5, <1>6 DEF NewProc, ProcOK, Has, On
<1> QED BY <1>2, <1>4, <1>7, ProcStep

LEMMA LoseAnswerOK ==
  ASSUME IInv, NEW p \in Procs, LoseAnswer(p)
  PROVE  IInv'
<1>1. ~(stream = "begun" /\ proc[p].gen = Gen)
  BY DEF LoseAnswer, IInv, BegunOK, Busy
<1> QED BY <1>1, SettleStep DEF LoseAnswer

(* What the Encoder's state says of a change is what becomes of it. *)
LEMMA AskEncoderOK ==
  ASSUME IInv, NEW p \in Procs, AskEncoder(p)
  PROVE  IInv'
<1> DEFINE g == proc[p].gen
           k == proc[p].key
<1>1. proc[p].pc = "reconcile" /\ UNCHANGED <<stream, visual, rt, acts, enc, wire, puts>>
  BY DEF AskEncoder
<1>2. ~(stream = "begun" /\ g = Gen)
  BY <1>1 DEF IInv, BegunOK, Busy
<1>3. CASE Settle(p, "confirming")
  BY <1>1, <1>2, <1>3, SettleStep
<1>4. CASE enc.gen # 0 /\ Settle(p, ReconcileVideoCover(p))
  <2>1. enc.gen = Gen /\ stream # "deleted" /\ stream # "begun"
    BY <1>4 DEF IInv, JobOK
  <2>2. /\ g \in DOMAIN rt /\ k \in Keys /\ Has(g, k) /\ proc[p].cover = acts[g][k].cover
        /\ acts[g][k].cover \in Cover
    BY <1>1, <2>1, ProcTypes, ActionTypes DEF IInv, ProcsOK, ProcOK, Busy, Has, Stored
  <2>3. CASE g # Gen
    <3>1. ReconcileVideoCover(p) = "failed" /\ ~Current(g)
      BY <2>1, <2>3 DEF ReconcileVideoCover, Current
    <3> QED BY <1>1, <1>2, <1>4, <3>1, SettleStep
  <2>4. CASE g = Gen
    <3>1. /\ acts[g][k].cover.rev >= 2
          /\ \A l \in Keys : Has(g, l) /\ acts[g][l].cover.rev = acts[g][k].cover.rev => l = k
      BY <2>2 DEF IInv, RowsOK, ActionOK
    <3>2. Shown(acts[g][k].cover).rev = acts[g][k].cover.rev
      <4>1. \A c \in Cover : Shown(c).rev = c.rev
        BY CoverTypes
      <4> QED BY <2>2, <4>1
    <3>3. enc.cover.rev = acts[g][k].cover.rev => enc.cover = Shown(acts[g][k].cover)
      <4>1. \A l \in Keys : Has(g, l) => Shown(acts[g][l].cover).rev = acts[g][l].cover.rev
        BY <2>2, ActionTypes, CoverTypes DEF IInv, Stored
      <4>2. \/ enc.cover.rev = 1
            \/ \E l \in Keys : Has(g, l) /\ enc.cover = Shown(acts[g][l].cover)
        BY <1>4, <2>4 DEF IInv, ShowsOK
      <4>3. acts[g][k].cover.rev # 1
        BY <2>2, <3>1 DEF Cover
      <4> QED BY <3>1, <4>1, <4>2, <4>3
    <3>4. \/ ReconcileVideoCover(p) = "confirming"
          \/ /\ ReconcileVideoCover(p) = "applied"
             /\ enc.doubt = NoCover /\ enc.cover = Shown(acts[g][k].cover)
      BY <2>1, <2>2, <2>4, <3>3 DEF ReconcileVideoCover
    <3>5. CASE ReconcileVideoCover(p) = "confirming"
      BY <1>1, <1>2, <1>4, <3>5, SettleStep
    <3>6. CASE /\ ReconcileVideoCover(p) = "applied"
               /\ enc.doubt = NoCover /\ enc.cover = Shown(acts[g][k].cover)
      <4>1. Current(g)
        BY <1>4, <2>4 DEF IInv, JobOK, Current
      <4>2. ~OnWire(g, k)
        <5>1. acts[g][k].cover.rev \in Revs
          BY <3>2, <3>6 DEF Revs
        <5>2. \A m \in wire : m.gen = g => acts[g][m.key].cover.rev \notin Revs
          BY <2>2, <4>1 DEF IInv, ChangesOK
        <5> QED BY <5>1, <5>2 DEF OnWire
      <4>3. OnAir(g, k)
        BY <2>1, <2>4, <3>6, <4>2 DEF OnAir
      <4> QED BY <1>1, <1>2, <1>4, <3>6, <4>3, SettleStep
    <3> QED BY <3>4, <3>5, <3>6
  <2> QED BY <2>3, <2>4
<1> QED BY <1>3, <1>4 DEF AskEncoder

(* An action is sent by the one process that prepared it. *)
LEMMA PutOK ==
  ASSUME IInv, NEW p \in Procs, proc[p].pc = "prepared", enc.gen = proc[p].gen,
         PutRuntimeState(p), UNCHANGED <<stream, visual, rt, acts, enc>>
  PROVE  IInv'
<1> DEFINE g == proc[p].gen
           k == proc[p].key
           m == [gen |-> g, key |-> k, cover |-> Shown(proc[p].cover)]
           e == [proc[p] EXCEPT !.pc = "sent"]
<1>0. /\ Busy(p) /\ g \in Nat /\ k \in Keys /\ proc[p].cover \in Cover /\ proc[p] \in OnAction
      /\ g \in DOMAIN rt /\ Has(g, k) /\ acts[g][k].status = "pending"
      /\ \A q \in Procs : On(q, g, k) => q = p
  BY ProcTypes DEF IInv, ProcsOK, ProcOK, Busy, Has
<1>1. g > 0 /\ enc.gen # 0 /\ g = Gen /\ stream \in {"sent", "live"} /\ Current(g)
  BY <1>0, RowTypes DEF IInv, JobOK, Current
<1>2. proc[p].cover = acts[g][k].cover
  BY <1>0, <1>1 DEF IInv, ProcsOK, ProcOK
<1>3. Off(g, k) /\ <<g, k, 1>> \notin puts
  BY <1>0, <1>1 DEF IInv, ChangesOK, SentOK
<1>4. /\ e \in OnAction /\ e.pc = "sent" /\ e.gen = g /\ e.key = k /\ e.cover = proc[p].cover
  BY <1>0 DEF OnAction
<1>5. m \in Msg /\ m.gen = g /\ m.key = k /\ m.cover = Shown(acts[g][k].cover)
  BY <1>0, <1>2, CoverTypes DEF Msg
<1>6. proc' = [proc EXCEPT ![p] = e] /\ wire' = wire \cup {m}
  BY DEF PutRuntimeState
<1>7. puts' = puts \cup {<<g, k, 1>>}
  <2>1. {x \in puts : x[1] = g /\ x[2] = k} = {}
    <3>1. puts \subseteq (DOMAIN rt) \X Keys \X {1}
      BY DEF IInv, SentOK
    <3>2. \A x \in puts : x = <<x[1], x[2], 1>>
      BY <3>1
    <3> QED BY <1>3, <3>2
  <2>2. Cardinality({}) + 1 = 1
    BY FS_EmptySet
  <2>3. puts' = puts \cup {<<g, k, Cardinality({x \in puts : x[1] = g /\ x[2] = k}) + 1>>}
    BY DEF PutRuntimeState
  <2> QED BY <2>1, <2>2, <2>3
<1> HIDE DEF e, m
<1>8. proc'[p] = e /\ \A q \in Procs : q # p => proc'[q] = proc[q]
  BY <1>6 DEF IInv, TypeOK
<1>9. \A q \in Procs : q # p => ~On(q, g, k)
  BY <1>0
<1>10. TypeOK'
  BY <1>4, <1>5, <1>6 DEF IInv, TypeOK
<1>11. RowsOK' /\ JobOK' /\ ShowsOK' /\ ShownAsRecorded'
  BY DEF IInv, RowsOK, RowOK, ActionOK, JobOK, ShowsOK, ShownAsRecorded, Has, Gen, StartSnapshot
<1>12. SentOK'
  <2>1. puts' \subseteq (DOMAIN rt') \X Keys \X {1} /\ \A x \in puts' : Has(x[1], x[2])'
    BY <1>0, <1>7 DEF IInv, SentOK, Has
  <2>2. ASSUME NEW q \in Procs, proc'[q].pc = "prepared"
        PROVE  <<proc'[q].gen, proc'[q].key, 1>> \notin puts'
    BY <1>4, <1>7, <1>8, <1>9, <2>2 DEF IInv, SentOK, On, Busy
  <2> QED BY <2>1, <2>2 DEF SentOK
<1>13. WireOK'
  <2>1. \A n \in wire : <<n.gen, n.key, 1>> \in puts
    BY DEF IInv, WireOK, MessageOK
  <2>2. \A n \in wire : ~(n.gen = g /\ n.key = k)
    BY <1>3, <2>1
  <2>3. ASSUME NEW n \in wire', n = m PROVE MessageOK(n)'
    BY <1>5, <1>6, <1>7, <2>2, <2>3 DEF MessageOK
  <2>4. ASSUME NEW n \in wire', n \in wire PROVE MessageOK(n)'
    BY <1>5, <1>6, <1>7, <2>2, <2>4 DEF IInv, WireOK, MessageOK
  <2> QED BY <1>6, <2>3, <2>4 DEF WireOK
<1>14. BegunOK'
  BY <1>1 DEF BegunOK
<1>15. \A h, l : OnWire(h, l)' => OnWire(h, l) \/ (h = g /\ l = k)
  BY <1>5, <1>6 DEF OnWire
<1>16. ChangesOK'
  <2> SUFFICES ASSUME NEW h \in DOMAIN rt', Current(h)'
               PROVE  /\ \A n \in wire' : n.gen = h =>
                           /\ acts'[h][n.key].status \in Unresolved
                           /\ acts'[h][n.key].cover.rev \notin Revs'
                      /\ \A l \in Keys : Has(h, l)' /\ acts'[h][l].status = "failed" => Off(h, l)'
                      /\ \A q \in Procs : \A l : proc'[q].pc = "prepared" /\ proc'[q].gen = h
                                                   /\ proc'[q].key = l => Off(h, l)'
    BY DEF ChangesOK
  <2>1. h = g /\ h \in DOMAIN rt /\ Current(h)
    <3>1. h \in DOMAIN rt /\ (Current(h)' <=> Current(h))
      BY DEF Current, Gen
    <3> QED BY <1>1, <3>1 DEF Current
  <2>2. \A n \in wire' : n.gen = h => /\ acts'[h][n.key].status \in Unresolved
                                     /\ acts'[h][n.key].cover.rev \notin Revs'
    <3>1. \A n \in wire : n.gen = h => /\ acts[h][n.key].status \in Unresolved
                                      /\ acts[h][n.key].cover.rev \notin Revs
      BY <2>1 DEF IInv, ChangesOK
    <3>2. acts[g][k].status \in Unresolved /\ acts[g][k].cover.rev \notin Revs
      BY <1>0, <1>3 DEF Off, Unresolved
    <3>3. Revs' = Revs /\ acts' = acts
      BY DEF Revs
    <3> QED BY ONLY <1>5, <1>6, <2>1, <3>1, <3>2, <3>3
  <2>3. \A l \in Keys : Has(h, l)' /\ acts'[h][l].status = "failed" => Off(h, l)'
    <3>1. \A l \in Keys : Has(h, l) /\ acts[h][l].status = "failed" => Off(h, l)
      BY <2>1 DEF IInv, ChangesOK
    <3>2. acts[g][k].status # "failed"
      BY <1>0
    <3>3. \A l : l # k /\ Off(h, l) => Off(h, l)'
      BY <1>15 DEF Off, Revs
    <3>4. \A l : Has(h, l)' <=> Has(h, l)
      BY DEF Has
    <3> QED BY <2>1, <3>1, <3>2, <3>3, <3>4
  <2>4. ASSUME NEW q \in Procs, NEW l, proc'[q].pc = "prepared", proc'[q].gen = h,
               proc'[q].key = l
        PROVE  Off(h, l)'
    <3>1. q # p /\ proc'[q] = proc[q] /\ l # k
      BY <1>4, <1>8, <1>9, <2>1, <2>4 DEF On, Busy
    <3>2. Off(h, l)
      BY <2>1, <2>4, <3>1 DEF IInv, ChangesOK
    <3> QED BY <1>15, <3>1, <3>2 DEF Off, Revs
  <2> QED BY <2>2, <2>3, <2>4
<1>17. OutcomesOK'
  <2> SUFFICES ASSUME NEW q \in Procs PROVE OutcomeOK(q)'
    BY DEF OutcomesOK
  <2>1. CASE q = p
    BY <1>4, <1>8, <2>1 DEF OutcomeOK
  <2>2. CASE q # p
    <3>1. OutcomeOK(q) /\ proc'[q] = proc[q]
      BY <1>8, <2>2 DEF IInv, OutcomesOK
    <3>2. proc[q].pc = "record" => ~(proc[q].gen = g /\ proc[q].key = k)
      BY <1>9, <2>2 DEF On, Busy
    <3> QED BY <1>15, <3>1, <3>2 DEF OutcomeOK, Current, Gen, Off, OnAir, Revs
  <2> QED BY <2>1, <2>2
<1>18. ProcsOK'
  <2>1. ProcOK(p)'
    BY <1>0, <1>2, <1>4, <1>8 DEF ProcOK, On, Busy, Has
  <2>2. ASSUME NEW q \in Procs, q # p PROVE ProcOK(q)'
    <3>1. ProcOK(q) /\ proc'[q] = proc[q]
      BY <1>8, <2>2 DEF IInv, ProcsOK
    <3>2. Busy(q) => ~(proc[q].gen = g /\ proc[q].key = k)
      BY <1>9, <2>2 DEF On
    <3> QED BY <1>4, <1>8, <3>1, <3>2 DEF ProcOK, On, Busy
  <2> QED BY <2>1, <2>2 DEF ProcsOK
<1> QED BY <1>10, <1>11, <1>12, <1>13, <1>14, <1>16, <1>17, <1>18 DEF IInv

LEMMA DispatchOK ==
  ASSUME IInv, NEW p \in Procs, DispatchVideoCover(p)
  PROVE  IInv'
<1>1. CASE FailsUnsent(p)
  <2>1. proc[p].gen \in DOMAIN rt
    BY DEF DispatchVideoCover, IInv, ProcsOK, ProcOK, Busy
  <2>2. Current(proc[p].gen) => Off(proc[p].gen, proc[p].key)
    BY <2>1 DEF DispatchVideoCover, IInv, ChangesOK
  <2> QED BY <1>1, <2>2, SettleStep DEF DispatchVideoCover, FailsUnsent
<1>2. CASE enc.gen = proc[p].gen /\ PutRuntimeState(p)
  BY <1>2, PutOK DEF DispatchVideoCover
<1> QED BY <1>1, <1>2 DEF DispatchVideoCover

(* With no unresolved change, a new one becomes the generation's current   *)
(* one, at a revision the Encoder has never heard of.                      *)
LEMMA PrepareActionOK ==
  ASSUME IInv, NEW p \in Procs, NEW r \in Req, r.gen = Gen, stream # "deleted",
         ~LookupActionReplay(r), Admitted(r), PrepareAction(r), ~Busy(p),
         proc' = [proc EXCEPT ![p] = [pc |-> "prepared", gen |-> r.gen, key |-> r.key,
                                      cover |-> Prepared(r)]],
         UNCHANGED <<stream, visual, enc, wire, puts>>,
         NEW g, g = Gen, NEW k, k = r.key, NEW c, c = Prepared(r), NEW n, n = rt[g].desired.rev
  PROVE  IInv'
<1> DEFINE e == [pc |-> "prepared", gen |-> g, key |-> k, cover |-> c]
           a == [status |-> "pending", fp |-> Fingerprint(r), cover |-> c]
           row == [rt[g] EXCEPT !.desired = c, !.status = "idle", !.key = k]
           tab == [acts[g] EXCEPT ![k] = a]
<1>0. /\ g \in DOMAIN rt /\ g \in Nat /\ k \in Keys /\ k # None /\ g \in DOMAIN acts
      /\ rt[g] \in Row /\ acts[g] \in Table
  BY RowTypes, CoverAssumption DEF IInv, Req
<1>1. ~Has(g, k) /\ r.rev = n /\ n \in Nat /\ n >= 1
  BY <1>0 DEF LookupActionReplay, Has, Admitted, Latest, IInv, RowsOK, RowOK, Row, Cover
<1>2. c \in Cover /\ c.rev = n + 1
  BY <1>0, <1>1 DEF Prepared, Latest, Req, Row, Cover
<1>3. e \in OnAction /\ e.pc = "prepared" /\ e.gen = g /\ e.key = k /\ e.cover = c
  BY <1>0, <1>2 DEF OnAction
<1>4. a \in Stored /\ a # NoAction /\ a.status = "pending" /\ a.cover = c
  BY <1>2 DEF Stored, Fingerprint, Fp, Req, NoAction
<1>5. /\ row \in Row /\ row.desired = c /\ row.status = "idle" /\ row.key = k
      /\ row.applied = rt[g].applied
  BY <1>0, <1>2 DEF Row
<1>6. tab \in Table /\ tab[k] = a /\ \A l \in Keys : l # k => tab[l] = acts[g][l]
  BY <1>0, <1>4 DEF Table
<1>7. rt' = [rt EXCEPT ![g] = row] /\ acts' = [acts EXCEPT ![g] = tab]
  BY <1>0 DEF PrepareAction, Gen
<1>8. proc' = [proc EXCEPT ![p] = e]
  OBVIOUS
<1>9. \A l \in Keys : Has(g, l) => acts[g][l].status \notin Unresolved
  <2> SUFFICES ASSUME NEW l \in Keys, Has(g, l), acts[g][l].status \in Unresolved PROVE FALSE
    OBVIOUS
  <2>1. rt[g].key = l /\ l # None
    BY <1>0, CoverAssumption DEF IInv, RowsOK, ActionOK
  <2>2. rt[g].status = RowStatus(acts[g][l].status)
    BY <1>0, <2>1 DEF IInv, RowsOK, RowOK
  <2> QED BY <2>1, <2>2 DEF RowStatus, Unresolved, Admitted, Latest
<1>10. enc.gen # 0 => enc.gen = g /\ enc.doubt = NoCover /\ enc.cover.rev <= n
  <2> SUFFICES ASSUME enc.gen # 0
               PROVE  enc.gen = g /\ enc.doubt = NoCover /\ enc.cover.rev <= n
    OBVIOUS
  <2>1. enc.doubt = NoCover /\ enc.gen = g
    BY <1>9 DEF IInv, ShowsOK, JobOK
  <2>2. \A l \in Keys : Has(g, l) => /\ acts[g][l].cover.rev <= n
                                    /\ Shown(acts[g][l].cover).rev = acts[g][l].cover.rev
    BY <1>0, ActionTypes, CoverTypes DEF IInv, RowsOK, ActionOK, Stored
  <2>3. enc.cover.rev = 1 \/ \E l \in Keys : Has(g, l) /\ enc.cover = Shown(acts[g][l].cover)
    BY DEF IInv, ShowsOK
  <2> QED BY <1>1, <2>1, <2>2, <2>3
<1>11. c.rev \notin Revs
  <2>1. enc.gen = 0 => enc.cover.rev = 0 /\ enc.doubt.rev = 0
    BY DEF IInv, JobOK, NoJob, NoCover
  <2>2. enc.doubt = NoCover => enc.doubt.rev = 0
    BY DEF NoCover
  <2>3. enc.cover.rev \in Nat
    BY DEF IInv, TypeOK, Cover
  <2> QED BY <1>1, <1>2, <1>10, <2>1, <2>2, <2>3 DEF Revs
<1> HIDE DEF e, a, row, tab
<1>12. proc'[p] = e /\ \A q \in Procs : q # p => proc'[q] = proc[q]
  BY <1>8 DEF IInv, TypeOK
<1>13. /\ rt' \in Seq(Row) /\ DOMAIN rt' = DOMAIN rt /\ Len(rt') = Len(rt)
       /\ rt'[g] = row /\ \A h \in DOMAIN rt : h # g => rt'[h] = rt[h]
  <2> HIDE DEF Row
  <2> QED BY <1>0, <1>5, <1>7 DEF IInv, TypeOK
<1>14. /\ acts' \in Seq(Table) /\ Len(acts') = Len(acts)
       /\ acts'[g] = tab /\ \A h \in DOMAIN rt : h # g => acts'[h] = acts[h]
  <2>1. DOMAIN acts = DOMAIN rt
    BY RowTypes DEF IInv
  <2> HIDE DEF Table
  <2> QED BY <1>0, <1>6, <1>7, <2>1 DEF IInv, TypeOK
<1>15. Gen' = g
  BY <1>13 DEF Gen
<1>16. /\ acts'[g][k] = a /\ Has(g, k)'
       /\ \A h \in DOMAIN rt, l \in Keys : h # g \/ l # k => acts'[h][l] = acts[h][l]
  BY <1>4, <1>6, <1>14 DEF Has
<1>17. \A h \in DOMAIN rt, l \in Keys : h # g \/ l # k => (Has(h, l)' <=> Has(h, l))
  BY <1>16 DEF Has
<1>18. TypeOK'
  BY <1>3, <1>8, <1>13, <1>14 DEF IInv, TypeOK
<1>19. RowsOK'
  <2> DEFINE m == c.rev
  <2>0. m \in Nat /\ m >= 2 /\ m > n
    BY <1>1, <1>2
  <2>1. RowOK(g)'
    BY <1>0, <1>4, <1>5, <1>13, <1>16, <2>0 DEF RowOK, RowStatus
  <2>2. ASSUME NEW l \in Keys PROVE ActionOK(g, l)'
    <3>1. \A i \in Keys : Has(g, i) => /\ acts[g][i].cover.rev \in Nat
                                      /\ acts[g][i].cover.rev >= 2
                                      /\ acts[g][i].cover.rev <= n
      BY <1>0, ActionTypes DEF IInv, RowsOK, ActionOK, Stored, Cover
    <3>2. \A i \in Keys : Has(g, i) => acts[g][i].cover.rev # m /\ acts[g][i].cover.rev <= m
      <4> SUFFICES ASSUME NEW i \in Keys, Has(g, i)
                   PROVE  acts[g][i].cover.rev # m /\ acts[g][i].cover.rev <= m
        OBVIOUS
      <4> DEFINE j == acts[g][i].cover.rev
      <4>1. j \in Nat /\ j <= n
        BY <3>1
      <4> HIDE DEF j, m
      <4>2. j # m /\ j <= m
        BY <1>1, <2>0, <4>1
      <4> QED BY <4>2 DEF j
    <3>3. CASE l = k
      BY <1>0, <1>4, <1>5, <1>13, <1>16, <1>17, <2>0, <3>2, <3>3 DEF ActionOK
    <3>4. CASE l # k
      <4>1. Has(g, l) => \A i \in Keys : Has(g, i) /\ acts[g][i].cover.rev = acts[g][l].cover.rev
                                           => i = l
        BY <1>0 DEF IInv, RowsOK, ActionOK
      <4> QED BY <1>0, <1>4, <1>5, <1>9, <1>13, <1>16, <1>17, <3>1, <3>2, <3>4, <4>1 DEF ActionOK
    <3> QED BY <3>3, <3>4
  <2>3. ASSUME NEW h \in DOMAIN rt, h # g
        PROVE  RowOK(h)' /\ \A l \in Keys : ActionOK(h, l)'
    <3>1. rt'[h] = rt[h] /\ acts'[h] = acts[h]
      BY <1>13, <1>14, <2>3
    <3>2. RowOK(h) /\ \A l \in Keys : ActionOK(h, l)
      BY DEF IInv, RowsOK
    <3> QED BY <3>1, <3>2 DEF RowOK, ActionOK, Has
  <2> QED BY <1>13, <2>1, <2>2, <2>3 DEF RowsOK
<1>20. \A q \in Procs : Busy(q) => /\ proc[q].gen \in DOMAIN rt /\ proc[q].key \in Keys
                                  /\ ~(proc[q].gen = g /\ proc[q].key = k)
  BY <1>1, ProcTypes DEF IInv, ProcsOK, ProcOK, Has
<1>21. ProcsOK'
  <2>1. ProcOK(p)'
    BY <1>0, <1>3, <1>4, <1>12, <1>13, <1>16, <1>20 DEF ProcOK, On, Busy
  <2>2. ASSUME NEW q \in Procs, q # p PROVE ProcOK(q)'
    <3>1. ProcOK(q) /\ proc'[q] = proc[q]
      BY <1>12, <2>2 DEF IInv, ProcsOK
    <3>2. Busy(q) => acts'[proc[q].gen][proc[q].key] = acts[proc[q].gen][proc[q].key]
      <4> SUFFICES ASSUME Busy(q)
                   PROVE  acts'[proc[q].gen][proc[q].key] = acts[proc[q].gen][proc[q].key]
        OBVIOUS
      <4>1. /\ proc[q].gen \in DOMAIN rt /\ proc[q].key \in Keys
            /\ proc[q].gen # g \/ proc[q].key # k
        BY <1>20
      <4> QED BY <1>16, <4>1
    <3>3. ~Busy(p)
      OBVIOUS
    <3> QED BY <1>3, <1>12, <1>13, <1>20, <3>1, <3>2, <3>3 DEF ProcOK, On, Busy
  <2> QED BY <2>1, <2>2 DEF ProcsOK
<1>22. SentOK'
  <2>1. \A x \in puts : x[1] \in DOMAIN rt /\ x[2] \in Keys /\ Has(x[1], x[2])
    BY DEF IInv, SentOK
  <2>2. puts' \subseteq (DOMAIN rt') \X Keys \X {1}
    BY <1>13 DEF IInv, SentOK
  <2>3. \A x \in puts : x[1] # g \/ x[2] # k
    BY <1>1, <2>1
  <2>4. \A x \in puts' : Has(x[1], x[2])'
    BY <1>17, <2>1, <2>3
  <2>5. <<g, k, 1>> \notin puts
    BY <2>3
  <2> QED BY <1>3, <1>12, <2>2, <2>4, <2>5 DEF IInv, SentOK
<1>23. \A m \in wire : m.gen \in DOMAIN rt /\ m.key \in Keys /\ (m.gen # g \/ m.key # k)
  BY <1>1 DEF IInv, WireOK, MessageOK, SentOK
<1>24. WireOK'
  BY <1>16, <1>23 DEF IInv, WireOK, MessageOK
<1>25. JobOK'
  BY <1>15 DEF IInv, JobOK
<1>26. BegunOK'
  <2> SUFFICES ASSUME stream = "begun" PROVE BegunOK'
    BY DEF BegunOK
  <2>1. rt'[g].status = "idle" /\ \A l \in Keys : ~OnWire(g, l)'
    BY <1>5, <1>13 DEF IInv, BegunOK, OnWire
  <2>2. \A l \in Keys : Has(g, l)' => acts'[g][l].status \in {"pending", "failed"}
    BY <1>0, <1>4, <1>16, <1>17 DEF IInv, BegunOK
  <2>3. \A q \in Procs : Busy(q)' /\ proc'[q].gen = g =>
         proc'[q].pc = "prepared" \/ (proc'[q].pc = "record" /\ proc'[q].outcome = "failed")
    BY <1>3, <1>12 DEF IInv, BegunOK, Busy
  <2> QED BY <1>15, <2>1, <2>2, <2>3 DEF BegunOK
<1>27. ShowsOK'
  <2> SUFFICES ASSUME enc.gen # 0 PROVE ShowsOK'
    BY DEF ShowsOK
  <2>1. \/ enc.cover.rev = 1 /\ (stream = "sent" => enc.cover = Shown(StartSnapshot))
        \/ \E l \in Keys : Has(g, l) /\ enc.cover = Shown(acts[g][l].cover)
    BY DEF IInv, ShowsOK
  <2>2. \A l \in Keys : Has(g, l) => Has(g, l)' /\ acts'[g][l] = acts[g][l]
    BY <1>0, <1>1, <1>16, <1>17
  <2> QED BY <1>10, <1>15, <2>1, <2>2 DEF ShowsOK, StartSnapshot
<1>28. \A h, l : OnWire(h, l)' <=> OnWire(h, l)
  BY DEF OnWire
<1>29. ~OnWire(g, k)
  BY <1>23 DEF OnWire
<1>30. ChangesOK'
  <2> SUFFICES ASSUME Current(g)'
               PROVE  /\ \A m \in wire' : m.gen = g =>
                           /\ acts'[g][m.key].status \in Unresolved
                           /\ acts'[g][m.key].cover.rev \notin Revs'
                      /\ \A l \in Keys : Has(g, l)' /\ acts'[g][l].status = "failed" => Off(g, l)'
                      /\ \A q \in Procs : \A l : proc'[q].pc = "prepared" /\ proc'[q].gen = g
                                                   /\ proc'[q].key = l => Off(g, l)'
    BY <1>15 DEF ChangesOK, Current
  <2>1. Current(g)
    BY <1>15 DEF Current
  <2>2. \A m \in wire' : m.gen = g => /\ acts'[g][m.key].status \in Unresolved
                                     /\ acts'[g][m.key].cover.rev \notin Revs'
    BY <1>0, <1>16, <1>23, <2>1 DEF IInv, ChangesOK, Revs
  <2>3. \A l \in Keys : Has(g, l)' /\ acts'[g][l].status = "failed" => Off(g, l)'
    BY <1>0, <1>4, <1>16, <1>17, <1>28, <2>1 DEF IInv, ChangesOK, Revs, Off
  <2>4. ASSUME NEW q \in Procs, NEW l, proc'[q].pc = "prepared", proc'[q].gen = g,
               proc'[q].key = l
        PROVE  Off(g, l)'
    <3>1. CASE q = p
      BY <1>3, <1>4, <1>11, <1>12, <1>16, <1>28, <1>29, <2>4, <3>1 DEF Off, Revs
    <3>2. CASE q # p
      <4>1. proc'[q] = proc[q] /\ Busy(q) /\ l # k /\ l \in Keys
        <5>1. proc'[q] = proc[q] /\ proc[q].pc = "prepared" /\ proc[q].gen = g /\ proc[q].key = l
          BY <1>12, <2>4, <3>2
        <5>2. Busy(q)
          BY <5>1 DEF Busy
        <5> QED BY <1>20, <5>1, <5>2
      <4>2. Off(g, l)
        BY <1>0, <2>1, <2>4, <4>1 DEF IInv, ChangesOK
      <4> QED BY <1>0, <1>16, <1>28, <4>1, <4>2 DEF Off, Revs
    <3> QED BY <3>1, <3>2
  <2> QED BY <2>2, <2>3, <2>4
<1>31. OutcomesOK'
  <2> SUFFICES ASSUME NEW q \in Procs PROVE OutcomeOK(q)'
    BY DEF OutcomesOK
  <2>1. CASE q = p
    BY <1>3, <1>12, <2>1 DEF OutcomeOK
  <2>2. CASE q # p
    <3>1. OutcomeOK(q) /\ proc'[q] = proc[q]
      BY <1>12, <2>2 DEF IInv, OutcomesOK
    <3>2. Busy(q) => acts'[proc[q].gen][proc[q].key] = acts[proc[q].gen][proc[q].key]
      <4> SUFFICES ASSUME Busy(q)
                   PROVE  acts'[proc[q].gen][proc[q].key] = acts[proc[q].gen][proc[q].key]
        OBVIOUS
      <4>1. /\ proc[q].gen \in DOMAIN rt /\ proc[q].key \in Keys
            /\ proc[q].gen # g \/ proc[q].key # k
        BY <1>20
      <4> QED BY <1>16, <4>1
    <3> QED BY <1>15, <1>28, <3>1, <3>2
            DEF OutcomeOK, Current, Off, OnAir, Revs, Busy
  <2> QED BY <2>1, <2>2
<1>32. ShownAsRecorded'
  BY <1>5, <1>13 DEF IInv, ShownAsRecorded
<1> QED BY <1>18, <1>19, <1>21, <1>22, <1>24, <1>25, <1>26, <1>27, <1>30, <1>31, <1>32 DEF IInv

LEMMA PrepareStepOK ==
  ASSUME IInv, NEW p \in Procs, PrepareStep(p)
  PROVE  IInv'
<1> DEFINE r == proc[p].r
           live == stream # "deleted" /\ CandidateCurrent(r) /\ r.gen = Gen
<1>1. r \in Req /\ r.key \in Keys /\ r.gen > 0 /\ ~Busy(p)
  BY ProcTypes DEF IInv, PrepareStep, Checked, Req, Busy
<1>2. UNCHANGED <<stream, visual, enc, wire, puts>>
  BY DEF PrepareStep
<1>3. CASE live /\ LookupActionReplay(r) /\ Replay(p, r) /\ UNCHANGED <<rt, acts>>
  BY <1>1, <1>2, <1>3, ReplayOK
<1>4. CASE /\ live /\ ~LookupActionReplay(r) /\ Admitted(r) /\ PrepareAction(r)
           /\ proc' = [proc EXCEPT ![p] = [pc |-> "prepared", gen |-> r.gen, key |-> r.key,
                                           cover |-> Prepared(r)]]
  <2> HIDE DEF r
  <2>1. PICK s \in Req : s = r
    BY <1>1
  <2>2. PICK g : g = Gen
    OBVIOUS
  <2>3. PICK k : k = s.key
    OBVIOUS
  <2>4. PICK c : c = Prepared(s)
    OBVIOUS
  <2>5. PICK n : n = rt[g].desired.rev
    OBVIOUS
  <2> QED BY <1>1, <1>2, <1>4, <2>1, <2>2, <2>3, <2>4, <2>5, PrepareActionOK
<1>5. CASE proc' = [proc EXCEPT ![p] = Idle] /\ UNCHANGED <<rt, acts>>
  BY <1>2, <1>5, FreeStep
<1> QED BY <1>3, <1>4, <1>5 DEF PrepareStep

\* Process p records outcome o of action k and is done; the row and the action
\* are all that changes.
Resolved(p, g, k, o, v) ==
  /\ proc'[p] = Idle /\ \A q \in Procs : q # p => proc'[q] = proc[q]
  /\ DOMAIN rt' = DOMAIN rt /\ Len(rt') = Len(rt)
  /\ rt'[g].desired = rt[g].desired /\ rt'[g].key = k
  /\ rt'[g].status = o /\ rt'[g].applied = v
  /\ \A h \in DOMAIN rt : h # g => rt'[h] = rt[h] /\ acts'[h] = acts[h]
  /\ acts'[g][k] # NoAction /\ acts'[g][k].status = o
  /\ acts'[g][k].cover = acts[g][k].cover
  /\ \A l \in Keys : l # k => acts'[g][l] = acts[g][l]

(* An unresolved action takes the outcome its process has learnt, and so   *)
(* does the row, whose current action it is.                               *)
LEMMA ResolvedOK ==
  ASSUME IInv, TypeOK', NEW p \in Procs, proc[p].pc = "record",
         NEW g, g = proc[p].gen, NEW k, k = proc[p].key, NEW o, o = proc[p].outcome,
         acts[g][k].status \in Unresolved,
         NEW v, o = "applied" => v = Shown(rt[g].desired),
         Resolved(p, g, k, o, v), UNCHANGED <<stream, visual, enc, wire, puts>>
  PROVE  IInv'
<1>0. /\ Busy(p) /\ g \in DOMAIN rt /\ k \in Keys /\ k # None /\ Has(g, k)
      /\ o \in {"applied", "confirming", "failed"}
  BY ProcTypes, CoverAssumption DEF IInv, ProcsOK, ProcOK, Busy, Has, Recording
<1>1. acts[g][k] \in Stored
  BY <1>0, ActionTypes DEF IInv
<1>2. rt[g].key = k /\ acts[g][k].cover = rt[g].desired
  BY <1>0 DEF IInv, RowsOK, RowOK, ActionOK
<1>4. /\ acts'[g][k] # NoAction /\ acts'[g][k].status = o
      /\ acts'[g][k].cover = acts[g][k].cover
  BY DEF Resolved
<1>5. /\ rt'[g].desired = rt[g].desired /\ rt'[g].key = k
      /\ rt'[g].status = o /\ rt'[g].applied = v
  BY DEF Resolved
<1>8. proc'[p] = Idle /\ \A q \in Procs : q # p => proc'[q] = proc[q]
  BY DEF Resolved
<1>9. /\ DOMAIN rt' = DOMAIN rt /\ Len(rt') = Len(rt)
      /\ \A h \in DOMAIN rt : h # g => rt'[h] = rt[h]
  BY DEF Resolved
<1>10. \A h \in DOMAIN rt : h # g => acts'[h] = acts[h]
  BY DEF Resolved
<1>11. Gen' = Gen
  BY <1>9 DEF Gen
<1>12. \A h \in DOMAIN rt, l \in Keys : ~(h = g /\ l = k) => acts'[h][l] = acts[h][l]
  BY DEF Resolved
<1>13. \A h \in DOMAIN rt, l \in Keys : /\ Has(h, l)' <=> Has(h, l)
                                       /\ acts'[h][l].cover = acts[h][l].cover
  BY <1>0, <1>4, <1>12 DEF Has
<1>15. RowsOK'
  <2> SUFFICES ASSUME NEW h \in DOMAIN rt PROVE RowOK(h)' /\ \A l \in Keys : ActionOK(h, l)'
    BY <1>9 DEF RowsOK
  <2>1. RowOK(h) /\ \A l \in Keys : ActionOK(h, l)
    BY DEF IInv, RowsOK
  <2>2. rt'[h].desired = rt[h].desired /\ rt'[h].key = rt[h].key
    BY <1>2, <1>5, <1>9
  <2>3. \A l \in Keys : ActionOK(h, l)'
    <3> SUFFICES ASSUME NEW l \in Keys, Has(h, l)'
                 PROVE  /\ acts'[h][l].cover.rev >= 2
                        /\ acts'[h][l].cover.rev <= rt'[h].desired.rev
                        /\ acts'[h][l].status \in Unresolved => rt'[h].key = l
                        /\ \A i \in Keys : Has(h, i)' /\ acts'[h][i].cover.rev = acts'[h][l].cover.rev
                                             => i = l
      BY DEF ActionOK
    <3>1. Has(h, l)
      BY <1>13
    <3>2. acts'[h][l].status \in Unresolved => rt'[h].key = l
      BY <1>2, <1>12, <2>1, <2>2, <3>1 DEF ActionOK
    <3> QED BY <1>13, <2>1, <2>2, <3>1, <3>2 DEF ActionOK
  <2>4. CASE h = g
    <3>1. rt'[g].key = k /\ rt'[g].status = o /\ rt'[g].desired = rt[g].desired
      BY <1>5, <1>9
    <3>2. Has(g, k)' /\ acts'[g][k].cover = rt[g].desired /\ acts'[g][k].status = o
      BY <1>0, <1>2, <1>4, <1>12, <1>13
    <3>3. rt[g].desired.rev >= 1 /\ o = RowStatus(o)
      BY <1>0, <2>1, <2>4 DEF RowOK, RowStatus
    <3>4. RowOK(g)'
      BY <1>0, <3>1, <3>2, <3>3 DEF RowOK
    <3> QED BY <2>3, <2>4, <3>4
  <2>5. CASE h # g
    BY <1>9, <1>10, <2>1, <2>3, <2>5 DEF RowOK, Has
  <2> QED BY <2>3, <2>4, <2>5
<1>16. ProcsOK'
  <2> SUFFICES ASSUME NEW q \in Procs, Busy(q)' PROVE ProcOK(q)'
    BY DEF ProcsOK, ProcOK
  <2>1. q # p /\ proc'[q] = proc[q] /\ Busy(q) /\ ProcOK(q)
    BY <1>8 DEF IInv, ProcsOK, Busy, Idle
  <2> DEFINE h == proc[q].gen
             l == proc[q].key
  <2>2. h \in DOMAIN rt /\ l \in Keys /\ Has(h, l)
    BY <2>1, ProcTypes DEF IInv, ProcOK, Has
  <2>3. \A i \in Procs : \A d : \A f : On(i, d, f)' => On(i, d, f)
    BY <1>8 DEF On, Busy, Idle
  <2>4. CASE h = g /\ l = k
    <3>1. acts[g][k].status # "pending"
      BY <1>0, <2>1, <2>4 DEF IInv, ProcsOK, ProcOK, On
    <3>2. acts'[g][k].status # "pending" /\ acts'[g][k] # NoAction
      BY <1>0, <1>4, <1>12
    <3>3. proc'[q].gen = g /\ proc'[q].key = k /\ g \in DOMAIN rt'
      BY <1>0, <1>9, <2>1, <2>4
    <3>4. stream # "deleted" => proc'[q].cover = acts'[g][k].cover
      BY <1>4, <1>12, <2>1, <2>4 DEF ProcOK
    <3>5. proc'[q].pc \notin {"prepared", "sent"}
      BY <2>1, <2>4, <3>1 DEF ProcOK
    <3> QED BY <3>2, <3>3, <3>4, <3>5 DEF ProcOK
  <2>5. CASE ~(h = g /\ l = k)
    <3>1. acts'[h][l] = acts[h][l]
      BY <1>12, <2>2, <2>5
    <3> QED BY <1>9, <2>1, <2>2, <2>3, <3>1 DEF ProcOK, Busy
  <2> QED BY <2>4, <2>5
<1>17. SentOK'
  <2>1. \A x \in puts : x[1] \in DOMAIN rt /\ x[2] \in Keys /\ Has(x[1], x[2])
    BY DEF IInv, SentOK
  <2>2. \A x \in puts' : Has(x[1], x[2])'
    BY <1>13, <2>1
  <2>3. puts' \subseteq (DOMAIN rt') \X Keys \X {1}
    BY <1>9 DEF IInv, SentOK
  <2>4. \A q \in Procs : proc'[q].pc = "prepared" => proc'[q] = proc[q]
    BY <1>8 DEF Idle
  <2>5. \A q \in Procs : proc[q].pc = "prepared" => <<proc[q].gen, proc[q].key, 1>> \notin puts
    BY DEF IInv, SentOK
  <2>6. ASSUME NEW q \in Procs, proc'[q].pc = "prepared"
        PROVE  <<proc'[q].gen, proc'[q].key, 1>> \notin puts'
    <3>1. proc'[q] = proc[q] /\ puts' = puts
      BY <2>4, <2>6
    <3> QED BY <2>5, <2>6, <3>1
  <2> QED BY ONLY <2>2, <2>3, <2>6 DEF SentOK
<1>18. \A m \in wire : m.gen \in DOMAIN rt /\ m.key \in Keys /\ Has(m.gen, m.key)
  BY DEF IInv, WireOK, MessageOK, SentOK
<1>19. WireOK'
  BY <1>13, <1>18 DEF IInv, WireOK, MessageOK
<1>20. JobOK'
  BY <1>11 DEF IInv, JobOK
<1>21. BegunOK'
  <2> SUFFICES ASSUME stream = "begun" PROVE BegunOK'
    BY DEF BegunOK
  <2>0. g = Gen => o = "failed"
    BY <1>0 DEF IInv, BegunOK
  <2>1. Gen \in DOMAIN rt
    BY RowTypes DEF IInv, JobOK
  <2>2. rt'[Gen].status \in {"idle", "failed"} /\ \A l \in Keys : ~OnWire(Gen, l)
    BY <1>5, <1>9, <2>0, <2>1 DEF IInv, BegunOK
  <2>3. \A l \in Keys : Has(Gen, l) => acts'[Gen][l].status \in {"pending", "failed"}
    BY <1>4, <1>12, <2>0, <2>1 DEF IInv, BegunOK
  <2>4. \A q \in Procs : Busy(q)' /\ proc'[q].gen = Gen =>
          proc'[q].pc = "prepared" \/ (proc'[q].pc = "record" /\ proc'[q].outcome = "failed")
    BY <1>8 DEF IInv, BegunOK, Busy, Idle
  <2> QED BY <1>11, <1>13, <2>1, <2>2, <2>3, <2>4 DEF BegunOK, OnWire
(* What the process learnt is true of its change. *)
<1>22. /\ Current(g) /\ o = "failed" => acts[g][k].cover.rev \notin Revs /\ ~OnWire(g, k)
       /\ Current(g) /\ o = "applied" => /\ enc.gen = g /\ enc.cover = Shown(acts[g][k].cover)
                                         /\ enc.doubt = NoCover /\ ~OnWire(g, k)
  BY DEF IInv, OutcomesOK, OutcomeOK, Off, OnAir
<1>23. \A h, l : OnWire(h, l)' <=> OnWire(h, l)
  BY DEF OnWire
<1>24. \A h : Current(h)' <=> Current(h)
  BY <1>11 DEF Current
<1>25. Revs' = Revs
  BY DEF Revs
<1>26. ShowsOK'
  <2> SUFFICES ASSUME enc.gen # 0 PROVE ShowsOK'
    BY DEF ShowsOK
  <2>1. Gen \in DOMAIN rt /\ Current(Gen)
    BY RowTypes DEF IInv, JobOK, Current
  <2>2. \/ enc.cover.rev = 1 /\ (stream = "sent" => enc.cover = Shown(StartSnapshot))
        \/ \E l \in Keys : Has(Gen, l) /\ enc.cover = Shown(acts[Gen][l].cover)
    BY DEF IInv, ShowsOK
  <2>3. \/ enc.doubt = NoCover
        \/ \E l \in Keys : /\ Has(Gen, l) /\ enc.doubt = Shown(acts[Gen][l].cover)
                           /\ acts'[Gen][l].status \in Unresolved
    <3> SUFFICES ASSUME enc.doubt # NoCover, NEW l \in Keys, Has(Gen, l),
                        enc.doubt = Shown(acts[Gen][l].cover), acts[Gen][l].status \in Unresolved
                 PROVE  acts'[Gen][l].status \in Unresolved
      BY DEF IInv, ShowsOK
    <3>1. CASE Gen = g /\ l = k
      <4>1. enc.doubt.rev = acts[g][k].cover.rev
        BY <1>1, <3>1, CoverTypes DEF Stored
      <4>2. o = "confirming"
        BY <1>0, <1>22, <2>1, <3>1, <4>1 DEF Revs
      <4> QED BY <1>4, <1>12, <3>1, <4>2 DEF Unresolved
    <3>2. CASE ~(Gen = g /\ l = k)
      BY <1>12, <2>1, <3>2
    <3> QED BY <3>1, <3>2
  <2>4. \/ enc'.cover.rev = 1 /\ (stream' = "sent" => enc'.cover = Shown(StartSnapshot)')
        \/ \E l \in Keys : acts'[Gen][l] # NoAction /\ enc'.cover = Shown(acts'[Gen][l].cover)
    BY <1>13, <2>1, <2>2 DEF StartSnapshot, Has
  <2>5. \/ enc'.doubt = NoCover
        \/ \E l \in Keys : /\ acts'[Gen][l] # NoAction /\ enc'.doubt = Shown(acts'[Gen][l].cover)
                           /\ acts'[Gen][l].status \in Unresolved
    BY <1>13, <2>1, <2>3 DEF Has
  <2> QED BY <1>11, <2>4, <2>5 DEF ShowsOK, Has
<1>27. ChangesOK'
  <2> SUFFICES ASSUME NEW h \in DOMAIN rt', Current(h)'
               PROVE  /\ \A m \in wire' : m.gen = h =>
                           /\ acts'[h][m.key].status \in Unresolved
                           /\ acts'[h][m.key].cover.rev \notin Revs'
                      /\ \A l \in Keys : Has(h, l)' /\ acts'[h][l].status = "failed" => Off(h, l)'
                      /\ \A q \in Procs : \A l : proc'[q].pc = "prepared" /\ proc'[q].gen = h
                                                   /\ proc'[q].key = l => Off(h, l)'
    BY DEF ChangesOK
  <2>0. h \in DOMAIN rt /\ Current(h)
    BY <1>9, <1>24
  <2>1. \A l \in Keys : Off(h, l)' <=> Off(h, l)
    BY <1>13, <1>23, <1>25, <2>0 DEF Off
  <2>2. ASSUME NEW m \in wire, m.gen = h
        PROVE  acts'[h][m.key].status \in Unresolved /\ acts'[h][m.key].cover.rev \notin Revs
    <3>1. m.key \in Keys
      BY <1>18
    <3>2. acts[h][m.key].status \in Unresolved /\ acts[h][m.key].cover.rev \notin Revs
      BY <2>0, <2>2 DEF IInv, ChangesOK
    <3>3. CASE h = g /\ m.key = k
      <4>1. OnWire(g, k)
        BY <2>2, <3>3 DEF OnWire
      <4>2. o = "confirming"
        BY <1>0, <1>22, <2>0, <3>3, <4>1
      <4> QED BY <1>4, <1>12, <1>13, <2>0, <3>1, <3>2, <3>3, <4>2 DEF Unresolved
    <3>4. CASE ~(h = g /\ m.key = k)
      BY <1>12, <2>0, <3>1, <3>2, <3>4
    <3> QED BY <3>3, <3>4
  <2>3. ASSUME NEW l \in Keys, Has(h, l)', acts'[h][l].status = "failed" PROVE Off(h, l)'
    <3>1. CASE h = g /\ l = k
      BY <1>4, <1>12, <1>22, <2>0, <2>1, <2>3, <3>1 DEF Off
    <3>2. CASE ~(h = g /\ l = k)
      <4>1. \A i \in Keys : Has(h, i) /\ acts[h][i].status = "failed" => Off(h, i)
        BY <2>0 DEF IInv, ChangesOK
      <4>2. Has(h, l) /\ acts[h][l].status = "failed"
        BY <1>12, <1>13, <2>0, <2>3, <3>2
      <4> QED BY <2>1, <4>1, <4>2
    <3> QED BY <3>1, <3>2
  <2>4. ASSUME NEW q \in Procs, NEW l, proc'[q].pc = "prepared", proc'[q].gen = h,
               proc'[q].key = l
        PROVE  Off(h, l)'
    <3>1. proc[q].pc = "prepared" /\ proc[q].gen = h /\ proc[q].key = l
      BY <1>8, <2>4 DEF Idle
    <3>2. l \in Keys
      BY <3>1, ProcTypes DEF IInv, Busy
    <3> QED BY <2>0, <2>1, <3>1, <3>2 DEF IInv, ChangesOK
  <2>5. \A m \in wire' : m.gen = h => /\ acts'[h][m.key].status \in Unresolved
                                     /\ acts'[h][m.key].cover.rev \notin Revs'
    BY <1>25, <2>2
  <2> QED BY <2>3, <2>4, <2>5
<1>28. OutcomesOK'
  <2> SUFFICES ASSUME NEW q \in Procs, proc'[q].pc = "record" PROVE OutcomeOK(q)'
    BY DEF OutcomesOK, OutcomeOK
  <2>1. q # p /\ proc'[q] = proc[q] /\ Busy(q) /\ ProcOK(q) /\ OutcomeOK(q)
    BY <1>8 DEF IInv, ProcsOK, OutcomesOK, Busy, Idle
  <2>2. PICK h : h = proc[q].gen
    OBVIOUS
  <2>3. PICK l : l = proc[q].key
    OBVIOUS
  <2>4. h \in DOMAIN rt /\ l \in Keys
    BY <2>1, <2>2, <2>3, ProcTypes DEF IInv, ProcOK
  <2>5. acts'[h][l].status \in Unresolved => acts[h][l].status \in Unresolved
    BY <1>12, <2>4
  <2>6. acts'[h][l].cover = acts[h][l].cover
    BY <1>13, <2>4
  <2> QED BY <1>11, <2>1, <2>2, <2>3, <2>5, <2>6
          DEF OutcomeOK, Off, OnAir, OnWire, Revs, Current
<1>29. ShownAsRecorded'
  <2> SUFFICES ASSUME NEW h \in DOMAIN rt, rt'[h].status = "applied", enc.gen = h
               PROVE  enc.cover = rt'[h].applied /\ enc.doubt = NoCover
    BY <1>9 DEF ShownAsRecorded
  <2>1. CASE h = g
    <3>1. o = "applied" /\ Current(g)
      BY <1>5, <1>9, <2>1, RowTypes DEF IInv, JobOK, Current
    <3> QED BY <1>2, <1>5, <1>9, <1>22, <2>1, <3>1
  <2>2. CASE h # g
    BY <1>9, <2>2 DEF IInv, ShownAsRecorded
  <2> QED BY <2>1, <2>2
<1> QED BY <1>15, <1>16, <1>17, <1>19, <1>20, <1>21, <1>26, <1>27, <1>28, <1>29 DEF IInv

LEMMA ResolveOK ==
  ASSUME IInv, NEW p \in Procs, proc[p].pc = "record",
         NEW g, g = proc[p].gen, NEW k, k = proc[p].key, NEW o, o = proc[p].outcome,
         acts[g][k].status \in Unresolved, acts[g][k].status # o,
         NEW v, v = IF o = "applied" THEN Shown(rt[g].desired) ELSE rt[g].applied,
         acts' = [acts EXCEPT ![g][k].status = o],
         rt' = [rt EXCEPT ![g].status = o, ![g].applied = v],
         proc' = [proc EXCEPT ![p] = Idle], UNCHANGED <<stream, visual, enc, wire, puts>>
  PROVE  IInv'
<1> DEFINE a == [acts[g][k] EXCEPT !.status = o]
           row == [rt[g] EXCEPT !.status = o, !.applied = v]
           tab == [acts[g] EXCEPT ![k] = a]
<1>0. /\ Busy(p) /\ g \in DOMAIN rt /\ k \in Keys /\ k # None /\ Has(g, k)
      /\ o \in {"applied", "confirming", "failed"}
  BY ProcTypes, CoverAssumption DEF IInv, ProcsOK, ProcOK, Busy, Has, Recording
<1>1. acts[g][k] \in Stored /\ rt[g] \in Row /\ acts[g] \in Table /\ DOMAIN acts = DOMAIN rt
  BY <1>0, RowTypes, ActionTypes DEF IInv
<1>2. rt[g].key = k /\ acts[g][k].cover = rt[g].desired
  BY <1>0 DEF IInv, RowsOK, RowOK, ActionOK
<1>3. v \in Cover
  BY <1>1, CoverTypes DEF Row
<1>4. a \in Stored /\ a # NoAction /\ a.status = o /\ a.cover = acts[g][k].cover
  BY <1>0, <1>1 DEF Stored, NoAction
<1>5. /\ row \in Row /\ row.desired = rt[g].desired /\ row.status = o /\ row.key = k
      /\ row.applied = v
  BY ONLY <1>0, <1>1, <1>2, <1>3 DEF Row
<1>6. tab \in Table /\ tab[k] = a /\ \A l \in Keys : l # k => tab[l] = acts[g][l]
  BY <1>0, <1>1, <1>4 DEF Table
<1>7. rt' = [rt EXCEPT ![g] = row] /\ acts' = [acts EXCEPT ![g] = tab]
  BY <1>0, <1>1
<1> HIDE DEF a, row, tab
<1>8. proc'[p] = Idle /\ \A q \in Procs : q # p => proc'[q] = proc[q]
  BY DEF IInv, TypeOK
<1>9. /\ rt' \in Seq(Row) /\ DOMAIN rt' = DOMAIN rt /\ Len(rt') = Len(rt)
      /\ rt'[g] = row /\ \A h \in DOMAIN rt : h # g => rt'[h] = rt[h]
  <2> HIDE DEF Row
  <2> QED BY <1>0, <1>5, <1>7 DEF IInv, TypeOK
<1>10. /\ acts' \in Seq(Table) /\ Len(acts') = Len(acts)
       /\ acts'[g] = tab /\ \A h \in DOMAIN rt : h # g => acts'[h] = acts[h]
  <2> HIDE DEF Table
  <2> QED BY <1>0, <1>1, <1>6, <1>7 DEF IInv, TypeOK
<1>11. TypeOK'
  <2>0. /\ proc \in [Procs -> {Idle} \cup Checked \cup OnAction \cup Recording]
        /\ proc' = [proc EXCEPT ![p] = Idle] /\ p \in Procs
    BY DEF IInv, TypeOK
  <2>1. proc' \in [Procs -> {Idle} \cup Checked \cup OnAction \cup Recording]
    BY ONLY <2>0
  <2> QED BY <1>9, <1>10, <2>1 DEF IInv, TypeOK
<1>12. Resolved(p, g, k, o, v)
  <2>1. rt'[g].desired = rt[g].desired /\ rt'[g].key = k /\ rt'[g].status = o /\ rt'[g].applied = v
    BY ONLY <1>5, <1>9
  <2>2. /\ acts'[g][k] # NoAction /\ acts'[g][k].status = o
        /\ acts'[g][k].cover = acts[g][k].cover
        /\ \A l \in Keys : l # k => acts'[g][l] = acts[g][l]
    BY ONLY <1>4, <1>6, <1>10
  <2> QED BY ONLY <1>8, <1>9, <1>10, <2>1, <2>2 DEF Resolved
<1>13. o = "applied" => v = Shown(rt[g].desired)
  OBVIOUS
<1> QED BY <1>11, <1>12, <1>13, ResolvedOK

LEMMA RecordOutcomeOK ==
  ASSUME IInv, NEW p \in Procs, RecordOutcome(p)
  PROVE  IInv'
<1>1. PICK g : g = proc[p].gen
  OBVIOUS
<1>2. PICK k : k = proc[p].key
  OBVIOUS
<1>3. PICK o : o = proc[p].outcome
  OBVIOUS
<1>4. PICK v : v = IF o = "applied" THEN Shown(rt[g].desired) ELSE rt[g].applied
  OBVIOUS
<1>5. /\ proc[p].pc = "record" /\ proc' = [proc EXCEPT ![p] = Idle]
      /\ UNCHANGED <<stream, visual, enc, wire, puts>>
  BY DEF RecordOutcome
<1>6. /\ g \in DOMAIN rt /\ k \in Keys /\ k # None /\ Has(g, k)
      /\ o \in {"applied", "confirming", "failed"}
  BY <1>1, <1>2, <1>3, <1>5, ProcTypes, CoverAssumption
  DEF IInv, ProcsOK, ProcOK, Busy, Has, Recording
<1>7. Resolve(g, k, o, v)
  <2>1. CASE o = "applied"
    BY <1>1, <1>2, <1>3, <1>4, <2>1 DEF RecordOutcome, RecordApplied
  <2>2. CASE o = "confirming"
    BY <1>1, <1>2, <1>3, <1>4, <2>2 DEF RecordOutcome, RecordAmbiguous
  <2>3. CASE o = "failed"
    BY <1>1, <1>2, <1>3, <1>4, <2>3 DEF RecordOutcome, RecordFailed
  <2> QED BY <1>6, <2>1, <2>2, <2>3
<1>8. CASE acts[g][k].status \notin Unresolved \/ acts[g][k].status = o
  <2>1. UNCHANGED <<rt, acts>>
    BY <1>7, <1>8 DEF Resolve
  <2> QED BY <1>5, <2>1, FreeStep
<1>9. CASE acts[g][k].status \in Unresolved /\ acts[g][k].status # o
  <2>1. rt[g].key = k /\ acts[g][k].cover = rt[g].desired
    BY <1>6, <1>9 DEF IInv, RowsOK, RowOK, ActionOK
  <2>2. rt[g].status = RowStatus(acts[g][k].status)
    BY <1>6, <2>1 DEF IInv, RowsOK, RowOK
  <2>3. CurrentActionMayResolve(rt[g], k, acts[g][k])
    BY <1>9, <2>1, <2>2 DEF CurrentActionMayResolve, RowStatus, Unresolved
  <2>4. /\ acts' = [acts EXCEPT ![g][k].status = o]
        /\ rt' = [rt EXCEPT ![g].status = o, ![g].applied = v]
    BY <1>7, <1>9, <2>3 DEF Resolve
  <2> QED BY <1>1, <1>2, <1>3, <1>4, <1>5, <1>9, <2>4, ResolveOK
<1> QED BY <1>8, <1>9

-----------------------------------------------------------------------------
(* Steps of the Encoder.                                                   *)

\* The process that waits for the message has its answer.
Answered(q, m, o) ==
  /\ Awaits(q, m) /\ proc'[q] \in Recording /\ proc'[q].gen = proc[q].gen
  /\ proc'[q].key = proc[q].key /\ proc'[q].cover = proc[q].cover /\ proc'[q].outcome = o

Answering(m, o) ==
  /\ proc' \in [Procs -> {Idle} \cup Checked \cup OnAction \cup Recording]
  /\ \A q \in Procs : proc'[q] = proc[q] \/ Answered(q, m, o)

LEMMA AnswerStep ==
  ASSUME IInv, NEW m \in wire, NEW o \in {"applied", "confirming", "failed"}, Answer(m, o)
  PROVE  Answering(m, o)
<1>1. ASSUME NEW p \in Procs, Awaits(p, m), Settle(p, o) PROVE Answering(m, o)
  <2> DEFINE e == [pc |-> "record", gen |-> proc[p].gen, key |-> proc[p].key,
                   cover |-> proc[p].cover, outcome |-> o]
  <2>1. Busy(p) /\ proc[p].gen \in Nat /\ proc[p].key \in Keys /\ proc[p].cover \in Cover
    BY <1>1, ProcTypes DEF IInv, Busy, Awaits
  <2>2. e \in Recording
    BY <2>1 DEF Recording
  <2>3. /\ e.gen = proc[p].gen /\ e.key = proc[p].key /\ e.cover = proc[p].cover
        /\ e.outcome = o
    OBVIOUS
  <2>4. proc' = [proc EXCEPT ![p] = e]
    BY <1>1 DEF Settle, IInv, TypeOK
  <2> HIDE DEF e
  <2>5. proc'[p] = e /\ \A q \in Procs : q # p => proc'[q] = proc[q]
    BY <2>4 DEF IInv, TypeOK
  <2>6. proc' \in [Procs -> {Idle} \cup Checked \cup OnAction \cup Recording]
    BY <2>2, <2>4 DEF IInv, TypeOK
  <2> QED BY <1>1, <2>2, <2>3, <2>5, <2>6 DEF Answering, Answered
<1>2. CASE UNCHANGED proc
  BY <1>2 DEF Answering, IInv, TypeOK
<1> QED BY <1>1, <1>2 DEF Answer

(* A message leaves the wire and its sender, if it still waits, learns the *)
(* outcome: what that does, whatever the Encoder made of the message.      *)
LEMMA HandledStep ==
  ASSUME IInv, NEW m \in wire, NEW o \in {"applied", "confirming", "failed"}, Answering(m, o),
         wire' = wire \ {m}, UNCHANGED <<stream, visual, rt, acts, puts>>,
         enc' \in [gen : Nat, cover : Cover, doubt : Cover], enc'.gen = enc.gen,
         enc.gen = 0 => enc' = enc
  PROVE  /\ TypeOK' /\ RowsOK' /\ ProcsOK' /\ SentOK' /\ WireOK' /\ JobOK' /\ BegunOK'
         /\ m.gen \in DOMAIN rt /\ m.key \in Keys /\ Has(m.gen, m.key)
         /\ \A h, l : OnWire(h, l)' => OnWire(h, l) /\ ~(h = m.gen /\ l = m.key)
         /\ \A q \in Procs : proc'[q].pc = "prepared" => proc'[q] = proc[q]
<1>1. /\ \A q \in Procs : Busy(q)' <=> Busy(q)
      /\ \A q \in Procs : Busy(q) => /\ proc'[q].gen = proc[q].gen /\ proc'[q].key = proc[q].key
                                     /\ proc'[q].cover = proc[q].cover
                                     /\ proc'[q].pc = proc[q].pc \/ proc'[q].pc = "record"
  BY DEF Answering, Answered, Awaits, Busy, Recording
<1>2. \A q \in Procs : \A h : \A l : On(q, h, l)' <=> On(q, h, l)
  BY <1>1 DEF On
<1>3. m.gen \in DOMAIN rt /\ m.key \in Keys /\ Has(m.gen, m.key)
  BY DEF IInv, WireOK, MessageOK, SentOK
<1>4. \A h, l : OnWire(h, l)' => OnWire(h, l) /\ ~(h = m.gen /\ l = m.key)
  BY DEF IInv, WireOK, MessageOK, OnWire
<1>5. \A q \in Procs : proc'[q].pc = "prepared" => proc'[q] = proc[q]
  BY DEF Answering, Answered, Recording
<1>6. TypeOK'
  BY DEF IInv, TypeOK, Answering
<1>7. RowsOK'
  BY DEF IInv, RowsOK, RowOK, ActionOK, Has
<1>8. ProcsOK'
  <2> SUFFICES ASSUME NEW q \in Procs, Busy(q)' PROVE ProcOK(q)'
    BY DEF ProcsOK, ProcOK
  <2>1. Busy(q) /\ ProcOK(q)
    BY <1>1 DEF IInv, ProcsOK
  <2>2. /\ proc'[q].gen = proc[q].gen /\ proc'[q].key = proc[q].key
        /\ proc'[q].cover = proc[q].cover
        /\ proc'[q].pc = proc[q].pc \/ proc'[q].pc = "record"
    BY <1>1, <2>1
  <2>3. PICK h : h = proc[q].gen
    OBVIOUS
  <2>4. PICK l : l = proc[q].key
    OBVIOUS
  <2>5. /\ h \in DOMAIN rt /\ acts[h][l] # NoAction
        /\ stream # "deleted" => proc[q].cover = acts[h][l].cover
        /\ proc[q].pc \in {"prepared", "sent"} => acts[h][l].status = "pending"
        /\ proc[q].pc = "reconcile" => acts[h][l].status # "pending"
        /\ acts[h][l].status = "pending" => \A i \in Procs : On(i, h, l) => i = q
    BY <2>1, <2>3, <2>4 DEF ProcOK
  <2>6. acts[h][l].status = "pending" => \A i \in Procs : On(i, h, l)' => i = q
    BY <1>2, <2>5
  <2> QED BY <2>2, <2>3, <2>4, <2>5, <2>6 DEF ProcOK, On
<1>9. SentOK'
  BY <1>5 DEF IInv, SentOK, Has
<1>10. WireOK'
  BY DEF IInv, WireOK, MessageOK
<1>11. JobOK'
  BY DEF IInv, JobOK, Gen
<1>12. BegunOK'
  <2> SUFFICES ASSUME stream = "begun" PROVE BegunOK'
    BY DEF BegunOK
  <2>1. \A k \in Keys : ~OnWire(Gen, k)
    BY DEF IInv, BegunOK
  <2>2. m.gen # Gen
    BY <1>3, <2>1 DEF OnWire
  <2>3. \A k \in Keys : ~OnWire(Gen, k)'
    BY <2>1 DEF OnWire, Gen
  <2>4. \A q \in Procs : Busy(q)' /\ proc'[q].gen = Gen => proc'[q] = proc[q]
    BY <1>1, <2>2 DEF Answering, Answered, Awaits
  <2> QED BY <1>1, <2>3, <2>4 DEF IInv, BegunOK, Gen, Has
<1> QED BY <1>3, <1>4, <1>5, <1>6, <1>7, <1>8, <1>9, <1>10, <1>11, <1>12
(* A change the Encoder refuses is nowhere any more. *)
LEMMA RefuseOK ==
  ASSUME IInv, NEW m \in wire, Answering(m, "failed"), wire' = wire \ {m},
         UNCHANGED <<stream, visual, rt, acts, puts, enc>>
  PROVE  IInv'
<1>1. /\ TypeOK' /\ RowsOK' /\ ProcsOK' /\ SentOK' /\ WireOK' /\ JobOK' /\ BegunOK'
      /\ m.gen \in DOMAIN rt /\ m.key \in Keys /\ Has(m.gen, m.key)
  BY HandledStep DEF IInv, TypeOK
<1>2. \A h, l : OnWire(h, l)' => OnWire(h, l) /\ ~(h = m.gen /\ l = m.key)
  BY HandledStep DEF IInv, TypeOK
<1>3. \A q \in Procs : proc'[q].pc = "prepared" => proc'[q] = proc[q]
  BY HandledStep DEF IInv, TypeOK
<1>4. Gen' = Gen /\ Revs' = Revs /\ \A h : Current(h)' <=> Current(h)
  BY DEF Gen, Revs, Current
<1>5. ShowsOK' /\ ShownAsRecorded'
  BY DEF IInv, ShowsOK, ShownAsRecorded, Gen, Has, StartSnapshot
<1>6. \A h, l : Off(h, l) => Off(h, l)'
  BY <1>2, <1>4 DEF Off
<1>7. ChangesOK'
  <2> SUFFICES ASSUME NEW h \in DOMAIN rt', Current(h)'
               PROVE  /\ \A n \in wire' : n.gen = h =>
                           /\ acts'[h][n.key].status \in Unresolved
                           /\ acts'[h][n.key].cover.rev \notin Revs'
                      /\ \A l \in Keys : Has(h, l)' /\ acts'[h][l].status = "failed" => Off(h, l)'
                      /\ \A q \in Procs : \A l : proc'[q].pc = "prepared" /\ proc'[q].gen = h
                                                   /\ proc'[q].key = l => Off(h, l)'
    BY DEF ChangesOK
  <2>1. h \in DOMAIN rt /\ Current(h)
    BY <1>4
  <2> QED BY <1>3, <1>4, <1>6, <2>1 DEF IInv, ChangesOK, Has
<1>8. OutcomesOK'
  <2> SUFFICES ASSUME NEW q \in Procs PROVE OutcomeOK(q)'
    BY DEF OutcomesOK
  <2>1. PICK h : h = proc'[q].gen
    OBVIOUS
  <2>2. PICK l : l = proc'[q].key
    OBVIOUS
  <2>3. CASE proc'[q] = proc[q]
    <3>1. OutcomeOK(q)
      BY DEF IInv, OutcomesOK
    <3> QED BY <1>4, <2>3, <3>1 DEF OutcomeOK, Off, OnAir, OnWire, Revs, Current
  <2>4. CASE Answered(q, m, "failed")
    <3>1. h = m.gen /\ l = m.key /\ proc'[q].outcome = "failed"
      BY <2>1, <2>2, <2>4 DEF Answered, Awaits
    <3>2. Current(h) => Off(h, l)'
      <4> SUFFICES ASSUME Current(h) PROVE Off(h, l)'
        OBVIOUS
      <4>1. acts[h][l].cover.rev \notin Revs
        BY <1>1, <3>1 DEF IInv, ChangesOK
      <4> QED BY <1>2, <1>4, <3>1, <4>1 DEF Off
    <3> QED BY <1>4, <2>1, <2>2, <3>1, <3>2 DEF OutcomeOK, Current
  <2> QED BY <2>3, <2>4 DEF Answering
<1> QED BY <1>1, <1>5, <1>7, <1>8 DEF IInv

(* A change the Encoder takes is the one unresolved change of its          *)
(* generation, and nothing else of the generation is on its way.           *)
LEMMA TakeOK ==
  ASSUME IInv, NEW m \in wire, ~Fenced(m),
         NEW o \in {"applied", "confirming"}, Answering(m, o), wire' = wire \ {m},
         \/ o = "applied" /\ enc' = [enc EXCEPT !.cover = m.cover]
         \/ o = "confirming" /\ enc' = [enc EXCEPT !.doubt = m.cover],
         UNCHANGED <<stream, visual, rt, acts, puts>>,
         NEW g, g = m.gen, NEW k, k = m.key
  PROVE  IInv'
<1>0. g \in DOMAIN rt /\ k \in Keys /\ Has(g, k) /\ m.cover \in Cover
  BY DEF IInv, WireOK, MessageOK, SentOK, TypeOK, Msg
<1>1. enc.gen = g /\ g # 0 /\ g = Gen /\ stream \in {"sent", "live"} /\ Current(g)
  BY <1>0, RowTypes DEF IInv, JobOK, Fenced, Current
<1>2. acts[g][k].status \in Unresolved /\ acts[g][k].cover.rev \notin Revs
  BY <1>0, <1>1 DEF IInv, ChangesOK
<1>3. m.cover = Shown(acts[g][k].cover) /\ m.cover.rev = acts[g][k].cover.rev
  <2>1. m.cover = Shown(acts[g][k].cover)
    BY <1>1 DEF IInv, WireOK, MessageOK
  <2>2. acts[g][k].cover \in Cover
    BY <1>0, ActionTypes DEF IInv, Stored
  <2>3. \A c \in Cover : Shown(c).rev = c.rev
    BY CoverTypes
  <2> QED BY ONLY <2>1, <2>2, <2>3
<1>4. \A l \in Keys : Has(g, l) /\ acts[g][l].status \in Unresolved => l = k
  BY <1>0, <1>2 DEF IInv, RowsOK, ActionOK
<1>5. enc.doubt = NoCover
  <2> SUFFICES ASSUME enc.doubt # NoCover PROVE FALSE
    OBVIOUS
  <2>1. enc.doubt = Shown(acts[g][k].cover)
    BY <1>1, <1>4 DEF IInv, ShowsOK
  <2> QED BY <1>2, <1>3, <2>1 DEF Revs
<1>6. /\ enc' \in [gen : Nat, cover : Cover, doubt : Cover] /\ enc'.gen = g
      /\ o = "applied" => enc'.cover = m.cover /\ enc'.doubt = NoCover
      /\ o = "confirming" => enc'.cover = enc.cover /\ enc'.doubt = m.cover
  BY <1>0, <1>1, <1>5 DEF IInv, TypeOK
<1>7. /\ TypeOK' /\ RowsOK' /\ ProcsOK' /\ SentOK' /\ WireOK' /\ JobOK' /\ BegunOK'
  BY <1>1, <1>6, HandledStep
<1>8. \A h, l : OnWire(h, l)' => OnWire(h, l) /\ ~(h = g /\ l = k)
  BY <1>1, <1>6, HandledStep
<1>9. \A q \in Procs : proc'[q].pc = "prepared" => proc'[q] = proc[q]
  BY <1>1, <1>6, HandledStep
<1>10. Gen' = g /\ \A h : Current(h)' <=> h = g
  BY <1>1 DEF Gen, Current
<1>11. OnWire(g, k)
  BY DEF OnWire
<1>12. \A n \in wire : n.gen = g => n.key = k /\ n = m
  <2> SUFFICES ASSUME NEW n \in wire, n.gen = g PROVE n.key = k /\ n = m
    OBVIOUS
  <2>0. <<n.gen, n.key, 1>> \in puts
    BY DEF IInv, WireOK, MessageOK
  <2>1. n.key \in Keys /\ Has(g, n.key)
    BY <2>0 DEF IInv, SentOK
  <2>2. n.key = k
    BY <1>0, <1>1, <1>4, <2>1 DEF IInv, ChangesOK
  <2> QED BY <2>2 DEF IInv, WireOK, MessageOK
<1>13. \A l : ~OnWire(g, l)'
  BY <1>12 DEF OnWire
<1>14. Revs' \subseteq Revs \cup {acts[g][k].cover.rev}
  BY <1>3, <1>5, <1>6 DEF Revs
<1>15. ShowsOK'
  <2>1. CASE o = "applied"
    BY <1>0, <1>1, <1>3, <1>6, <1>10, <2>1 DEF ShowsOK, Has
  <2>2. CASE o = "confirming"
    <3>1. \/ enc.cover.rev = 1 /\ (stream = "sent" => enc.cover = Shown(StartSnapshot))
          \/ \E l \in Keys : Has(g, l) /\ enc.cover = Shown(acts[g][l].cover)
      BY <1>1 DEF IInv, ShowsOK
    <3> QED BY <1>0, <1>1, <1>2, <1>3, <1>6, <1>10, <2>2, <3>1 DEF ShowsOK, Has, StartSnapshot
  <2> QED BY <2>1, <2>2
<1>16. ShownAsRecorded'
  <2>1. rt[g].key = k /\ k # None /\ rt[g].status # "applied"
    BY <1>0, <1>2, CoverAssumption DEF IInv, RowsOK, RowOK, ActionOK, RowStatus, Unresolved
  <2> QED BY <1>6, <2>1 DEF ShownAsRecorded
<1>17. ChangesOK'
  <2> SUFFICES ASSUME NEW h \in DOMAIN rt', Current(h)'
               PROVE  /\ \A n \in wire' : n.gen = h =>
                           /\ acts'[h][n.key].status \in Unresolved
                           /\ acts'[h][n.key].cover.rev \notin Revs'
                      /\ \A l \in Keys : Has(h, l)' /\ acts'[h][l].status = "failed" => Off(h, l)'
                      /\ \A q \in Procs : \A l : proc'[q].pc = "prepared" /\ proc'[q].gen = h
                                                   /\ proc'[q].key = l => Off(h, l)'
    BY DEF ChangesOK
  <2>1. h = g
    BY <1>10
  <2>2. \A n \in wire' : n.gen # h
    BY <1>12, <2>1
  <2>3. ASSUME NEW l \in Keys, Has(h, l)', acts'[h][l].status = "failed" PROVE Off(h, l)'
    <3>1. Has(g, l) /\ acts[g][l].status = "failed" /\ l # k
      BY <1>2, <2>1, <2>3 DEF Has, Unresolved
    <3>2. Off(g, l)
      BY <1>0, <1>1, <3>1 DEF IInv, ChangesOK
    <3>3. acts[g][l].cover.rev # acts[g][k].cover.rev
      BY <1>0, <3>1 DEF IInv, RowsOK, ActionOK
    <3> QED BY <1>13, <1>14, <2>1, <3>2, <3>3 DEF Off
  <2>4. ASSUME NEW q \in Procs, NEW l, proc'[q].pc = "prepared", proc'[q].gen = h,
               proc'[q].key = l
        PROVE  FALSE
    <3>1. proc[q].pc = "prepared" /\ proc[q].gen = g /\ proc[q].key = l /\ Busy(q)
      BY <1>9, <2>1, <2>4 DEF Busy
    <3>2. Off(g, l)
      BY <1>0, <1>1, <3>1 DEF IInv, ChangesOK
    <3>3. l \in Keys /\ Has(g, l) /\ acts[g][l].status = "pending"
      BY <3>1, ProcTypes DEF IInv, ProcsOK, ProcOK, Has
    <3>4. l = k
      BY <1>4, <3>3 DEF Unresolved
    <3> QED BY <1>11, <3>2, <3>4 DEF Off
  <2> QED BY <2>2, <2>3, <2>4
<1>18. OutcomesOK'
  <2> SUFFICES ASSUME NEW q \in Procs, NEW h, NEW l, h = proc'[q].gen, l = proc'[q].key,
                      proc'[q].pc = "record", Current(h)', acts'[h][l].status \in Unresolved
               PROVE  /\ proc'[q].outcome = "failed" => Off(h, l)'
                      /\ proc'[q].outcome = "applied" => OnAir(h, l)'
    BY DEF OutcomesOK, OutcomeOK, Current, Off, OnAir, OnWire, Revs
  <2>1. h = g
    BY <1>10
  <2>3. CASE proc'[q] = proc[q]
    <3>1. OutcomeOK(q) /\ Busy(q) /\ ProcOK(q)
      BY <2>3 DEF IInv, OutcomesOK, ProcsOK, Busy
    <3>2. l \in Keys /\ Has(g, l)
      BY <2>1, <2>3, <3>1, ProcTypes DEF IInv, ProcOK, Has
    <3>3. l = k
      BY <1>4, <2>1, <2>3, <3>2
    <3>4. proc[q].outcome \notin {"failed", "applied"}
      BY <1>1, <1>2, <1>11, <2>1, <2>3, <3>1, <3>3 DEF OutcomeOK, Off, OnAir
    <3> QED BY <2>3, <3>4
  <2>4. CASE Answered(q, m, o)
    <3>1. l = k /\ proc'[q].outcome = o
      BY <2>4 DEF Answered, Awaits
    <3>2. o = "applied" => OnAir(g, k)'
      BY <1>3, <1>6, <1>13 DEF OnAir
    <3> QED BY <2>1, <3>1, <3>2
  <2> QED BY <2>3, <2>4 DEF Answering
<1> QED BY <1>7, <1>15, <1>16, <1>17, <1>18 DEF IInv

LEMMA EncoderHandlesOK ==
  ASSUME IInv, NEW m \in wire, EncoderHandles(m)
  PROVE  IInv'
<1>1. CASE enc' = enc /\ Answer(m, "failed")
  BY <1>1, AnswerStep, RefuseOK DEF EncoderHandles
<1>2. PICK g : g = m.gen
  OBVIOUS
<1>3. PICK k : k = m.key
  OBVIOUS
<1>4. CASE ~Fenced(m) /\ enc' = [enc EXCEPT !.cover = m.cover] /\ Answer(m, "applied")
  <2>1. Answering(m, "applied")
    BY <1>4, AnswerStep
  <2> QED BY <1>2, <1>3, <1>4, <2>1, TakeOK DEF EncoderHandles
<1>5. CASE ~Fenced(m) /\ enc' = [enc EXCEPT !.doubt = m.cover] /\ Answer(m, "confirming")
  <2>1. Answering(m, "confirming")
    BY <1>5, AnswerStep
  <2> QED BY <1>2, <1>3, <1>5, <2>1, TakeOK DEF EncoderHandles
<1> QED BY <1>1, <1>4, <1>5 DEF EncoderHandles

(* The Encoder's doubt ends one way or the other. *)
LEMMA EncoderSettlesOK ==
  ASSUME IInv, EncoderSettles
  PROVE  IInv'
<1>1. UNCHANGED <<stream, visual, rt, acts, proc, wire, puts>> /\ enc.doubt # NoCover
  BY DEF EncoderSettles
<1>2. PICK c \in {enc.cover, enc.doubt} : enc' = [enc EXCEPT !.cover = c, !.doubt = NoCover]
  BY DEF EncoderSettles
<1>3. enc.gen # 0 /\ enc.gen = Gen /\ stream \in {"sent", "live"} /\ Gen \in DOMAIN rt
  BY <1>1, RowTypes DEF IInv, JobOK, NoJob
<1>4. c \in Cover
  BY DEF IInv, TypeOK
<1>5. /\ enc' \in [gen : Nat, cover : Cover, doubt : Cover]
      /\ enc'.gen = enc.gen /\ enc'.cover = c /\ enc'.doubt = NoCover
  BY <1>2, <1>4, CoverTypes DEF IInv, TypeOK
<1>6. TypeOK' /\ RowsOK' /\ WireOK' /\ JobOK' /\ SentOK' /\ BegunOK'
  BY <1>1, <1>3, <1>5
  DEF IInv, TypeOK, RowsOK, RowOK, ActionOK, Has, WireOK, MessageOK, JobOK, Gen, SentOK, BegunOK
<1>7. ProcsOK'
  BY <1>1 DEF IInv, ProcsOK, ProcOK, On, Busy
<1>8. Revs' \subseteq Revs \cup {0}
  BY <1>5, CoverTypes DEF Revs
<1>9. \A h \in DOMAIN rt, k \in Keys : Has(h, k) => acts[h][k].cover.rev # 0
  <2> SUFFICES ASSUME NEW h \in DOMAIN rt, NEW k \in Keys, Has(h, k)
               PROVE  acts[h][k].cover.rev # 0
    OBVIOUS
  <2>1. acts[h][k].cover.rev >= 2
    BY DEF IInv, RowsOK, ActionOK
  <2> QED BY <2>1
<1>10. \A h, k : OnWire(h, k)' <=> OnWire(h, k)
  BY <1>1 DEF OnWire
<1>11. \A h \in DOMAIN rt, k \in Keys : Has(h, k) /\ Off(h, k) => Off(h, k)'
  BY <1>1, <1>8, <1>9, <1>10 DEF Off
<1>12. Gen' = Gen /\ \A h : Current(h)' <=> Current(h)
  BY <1>1 DEF Gen, Current
<1>13. ShowsOK'
  <2>1. \/ c.rev = 1 /\ (stream = "sent" => c = Shown(StartSnapshot))
        \/ \E k \in Keys : Has(Gen, k) /\ c = Shown(acts[Gen][k].cover)
    BY <1>1, <1>2, <1>3 DEF IInv, ShowsOK
  <2> QED BY <1>1, <1>5, <1>12, <2>1 DEF ShowsOK, StartSnapshot, Has
<1>14. ShownAsRecorded'
  BY <1>1, <1>3, <1>5 DEF IInv, ShownAsRecorded
<1>15. ChangesOK'
  <2> SUFFICES ASSUME NEW h \in DOMAIN rt', Current(h)'
               PROVE  /\ \A m \in wire' : m.gen = h =>
                           /\ acts'[h][m.key].status \in Unresolved
                           /\ acts'[h][m.key].cover.rev \notin Revs'
                      /\ \A k \in Keys : Has(h, k)' /\ acts'[h][k].status = "failed" => Off(h, k)'
                      /\ \A q \in Procs : \A k : proc'[q].pc = "prepared" /\ proc'[q].gen = h
                                                   /\ proc'[q].key = k => Off(h, k)'
    BY DEF ChangesOK
  <2>1. h \in DOMAIN rt /\ Current(h)
    BY <1>1, <1>12
  <2>2. ASSUME NEW m \in wire, m.gen = h
        PROVE  acts[h][m.key].status \in Unresolved /\ acts[h][m.key].cover.rev \notin Revs'
    <3>1. m.key \in Keys /\ Has(h, m.key)
      BY <2>2 DEF IInv, WireOK, MessageOK, SentOK
    <3>2. acts[h][m.key].status \in Unresolved /\ acts[h][m.key].cover.rev \notin Revs
      BY <2>1, <2>2 DEF IInv, ChangesOK
    <3> QED BY <1>8, <1>9, <2>1, <3>1, <3>2
  <2>3. \A k \in Keys : Has(h, k)' /\ acts'[h][k].status = "failed" => Off(h, k)'
    BY <1>1, <1>11, <2>1 DEF IInv, ChangesOK, Has
  <2>4. ASSUME NEW q \in Procs, NEW k, proc'[q].pc = "prepared", proc'[q].gen = h,
               proc'[q].key = k
        PROVE  Off(h, k)'
    <3>1. proc[q].pc = "prepared" /\ proc[q].gen = h /\ proc[q].key = k /\ Busy(q)
      BY <1>1, <2>4 DEF Busy
    <3>2. k \in Keys /\ Has(h, k)
      BY <3>1, ProcTypes DEF IInv, ProcsOK, ProcOK, Has
    <3> QED BY <1>11, <2>1, <3>1, <3>2 DEF IInv, ChangesOK
  <2> QED BY <1>1, <2>2, <2>3, <2>4
<1>16. OutcomesOK'
  <2> SUFFICES ASSUME NEW q \in Procs, proc[q].pc = "record", Current(proc[q].gen),
                      acts[proc[q].gen][proc[q].key].status \in Unresolved
               PROVE  /\ proc'[q].outcome = "failed" => Off(proc[q].gen, proc[q].key)'
                      /\ proc'[q].outcome = "applied" => OnAir(proc[q].gen, proc[q].key)'
    BY <1>1, <1>12 DEF OutcomesOK, OutcomeOK, Current
  <2>1. PICK h : h = proc[q].gen
    OBVIOUS
  <2>2. PICK k : k = proc[q].key
    OBVIOUS
  <2>3. h \in DOMAIN rt /\ k \in Keys /\ Has(h, k)
    BY <2>1, <2>2, ProcTypes DEF IInv, ProcsOK, ProcOK, Has, Busy
  <2>4. /\ proc[q].outcome = "failed" => Off(h, k)
        /\ proc[q].outcome # "applied"
    BY <1>1, <2>1, <2>2 DEF IInv, OutcomesOK, OutcomeOK, OnAir
  <2>5. proc[q].outcome = "failed" => Off(h, k)'
    BY <1>11, <2>3, <2>4
  <2> QED BY <1>1, <2>1, <2>2, <2>4, <2>5 DEF Off, OnWire, Revs
<1> QED BY <1>6, <1>7, <1>13, <1>14, <1>15, <1>16 DEF IInv

-----------------------------------------------------------------------------
(* Starts, stops and settings.                                             *)

(* What processes work on, and what is on the wire, belongs to a generation. *)
LEMMA Owned ==
  ASSUME IInv
  PROVE  /\ \A q \in Procs : Busy(q) => /\ proc[q].gen \in DOMAIN rt /\ proc[q].key \in Keys
                                        /\ Has(proc[q].gen, proc[q].key)
         /\ \A m \in wire : m.gen \in DOMAIN rt /\ m.key \in Keys /\ Has(m.gen, m.key)
         /\ \A x \in puts : x[1] \in DOMAIN rt /\ x[2] \in Keys /\ Has(x[1], x[2])
<1>1. \A x \in puts : x[1] \in DOMAIN rt /\ x[2] \in Keys /\ Has(x[1], x[2])
  BY DEF IInv, SentOK
<1>2. \A q \in Procs : Busy(q) => /\ proc[q].gen \in DOMAIN rt /\ proc[q].key \in Keys
                                  /\ Has(proc[q].gen, proc[q].key)
  BY ProcTypes DEF IInv, ProcsOK, ProcOK, Has
<1>3. ASSUME NEW m \in wire PROVE m.gen \in DOMAIN rt /\ m.key \in Keys /\ Has(m.gen, m.key)
  BY DEF IInv, WireOK, MessageOK, SentOK
<1> QED BY <1>1, <1>2, <1>3

LEMMA BeginOK ==
  ASSUME IInv, BeginVideoCoverGeneration
  PROVE  IInv'
<1> DEFINE row == [desired |-> [rev |-> 1, active |-> visual.on, variant |-> visual.sel],
                   applied |-> NoCover, status |-> "idle", key |-> None, retired |-> FALSE]
           tab == [k \in Keys |-> NoAction]
<1>1. /\ stream = "ready" /\ stream' = "begun" /\ UNCHANGED <<visual, enc, proc, wire, puts>>
      /\ rt' = Append(rt, row) /\ acts' = Append(acts, tab)
  BY DEF BeginVideoCoverGeneration, EnsureGeneration
<1>2. enc = NoJob /\ enc.gen = 0
  BY <1>1 DEF IInv, JobOK
<1>3. /\ row \in Row /\ row.desired.rev = 1 /\ row.status = "idle" /\ row.key = None
  BY CoverTypes DEF Row, Cover, IInv, TypeOK
<1>4. tab \in Table /\ \A k \in Keys : tab[k] = NoAction
  BY DEF Table
<1> HIDE DEF row, tab
<1>5. PICK n \in Nat : n = Gen
  BY RowTypes DEF IInv
<1>6. DOMAIN rt = 1 .. n /\ DOMAIN acts = 1 .. n /\ Len(rt) = n /\ Len(acts) = n
  BY <1>5, RowTypes DEF IInv, TypeOK, Gen
<1>7. /\ rt' \in Seq(Row) /\ Len(rt') = n + 1 /\ DOMAIN rt' = 1 .. (n + 1)
      /\ rt'[n + 1] = row /\ \A h \in 1 .. n : rt'[h] = rt[h]
  <2> HIDE DEF Row
  <2>1. rt \in Seq(Row) /\ row \in Row
    BY <1>3 DEF IInv, TypeOK
  <2> QED BY <1>1, <1>6, <2>1
<1>8. /\ acts' \in Seq(Table) /\ Len(acts') = n + 1
      /\ acts'[n + 1] = tab /\ \A h \in 1 .. n : acts'[h] = acts[h]
  <2> HIDE DEF Table
  <2>1. acts \in Seq(Table) /\ tab \in Table
    BY <1>4 DEF IInv, TypeOK
  <2> QED BY <1>1, <1>6, <2>1
<1>9. PICK g : g = n + 1
  OBVIOUS
<1>10. /\ g \in Nat /\ g # 0 /\ g \notin 1 .. n /\ Gen' = g
       /\ DOMAIN rt' = (1 .. n) \cup {g}
       /\ rt'[g] = row /\ acts'[g] = tab
  BY <1>7, <1>8, <1>9 DEF Gen
<1>11. TypeOK'
  BY <1>1, <1>7, <1>8 DEF IInv, TypeOK
<1>12. /\ \A h \in 1 .. n, l \in Keys : Has(h, l)' <=> Has(h, l)
       /\ \A l \in Keys : ~Has(g, l)'
  BY <1>4, <1>8, <1>10 DEF Has
<1>13. RowsOK'
  <2>1. ASSUME NEW h \in 1 .. n PROVE RowOK(h)' /\ \A k \in Keys : ActionOK(h, k)'
    <3>1. RowOK(h) /\ \A k \in Keys : ActionOK(h, k)
      BY <1>6 DEF IInv, RowsOK
    <3>2. rt'[h] = rt[h] /\ acts'[h] = acts[h]
      BY <1>7, <1>8
    <3> QED BY <3>1, <3>2 DEF RowOK, ActionOK, Has
  <2>2. RowOK(g)' /\ \A k \in Keys : ActionOK(g, k)'
    BY <1>3, <1>10, <1>12 DEF RowOK, ActionOK
  <2> QED BY <1>10, <2>1, <2>2 DEF RowsOK
<1>14. /\ \A q \in Procs : Busy(q) => proc[q].gen \in 1 .. n
       /\ \A m \in wire : m.gen \in 1 .. n
       /\ \A x \in puts : x[1] \in 1 .. n /\ x[2] \in Keys /\ Has(x[1], x[2])
  BY <1>6, Owned
<1>15. ProcsOK'
  <2> SUFFICES ASSUME NEW q \in Procs, Busy(q) PROVE ProcOK(q)'
    BY <1>1 DEF ProcsOK, ProcOK, Busy
  <2>1. ProcOK(q) /\ proc[q].gen \in 1 .. n
    BY <1>14 DEF IInv, ProcsOK
  <2>2. acts'[proc[q].gen] = acts[proc[q].gen] /\ proc[q].gen \in DOMAIN rt'
    BY <1>8, <1>10, <2>1
  <2> QED BY <1>1, <2>1, <2>2 DEF ProcOK, On, Busy
<1>16. SentOK'
  <2>1. puts' \subseteq (DOMAIN rt') \X Keys \X {1}
    BY <1>1, <1>6, <1>10 DEF IInv, SentOK
  <2>2. \A x \in puts' : Has(x[1], x[2])'
    BY <1>1, <1>12, <1>14
  <2> QED BY <1>1, <2>1, <2>2 DEF IInv, SentOK
<1>17. WireOK'
  BY <1>1, <1>8, <1>14 DEF IInv, WireOK, MessageOK
<1>18. JobOK'
  BY <1>1, <1>2, <1>10 DEF JobOK
<1>19. \A k \in Keys : ~OnWire(g, k)'
  BY <1>1, <1>10, <1>14 DEF OnWire
<1>20. \A q \in Procs : Busy(q)' => proc'[q].gen # g
  BY <1>1, <1>10, <1>14 DEF Busy
<1>21. BegunOK'
  <2>1. rt'[g].status = "idle"
    BY <1>3, <1>10
  <2> QED BY <1>10, <1>12, <1>19, <1>20, <2>1 DEF BegunOK, OnWire, Has
<1>22. ShowsOK'
  BY <1>1, <1>2 DEF ShowsOK
<1>23. \A h : Current(h)' => h = g
  BY <1>10 DEF Current
<1>24. ChangesOK'
  <2>1. \A m \in wire' : m.gen # g
    BY <1>1, <1>10, <1>14
  <2>2. \A q \in Procs : proc'[q].pc = "prepared" => proc'[q].gen # g
    BY <1>20 DEF Busy
  <2> QED BY <1>12, <1>23, <2>1, <2>2 DEF ChangesOK
<1>25. OutcomesOK'
  <2>1. \A q \in Procs : proc'[q].pc = "record" => proc'[q].gen # g
    BY <1>20 DEF Busy
  <2> QED BY <1>10, <2>1 DEF OutcomesOK, OutcomeOK, Current
<1>26. ShownAsRecorded'
  BY <1>1, <1>2, <1>10 DEF ShownAsRecorded
<1> QED BY <1>11, <1>13, <1>15, <1>16, <1>17, <1>18, <1>21, <1>22, <1>24, <1>25, <1>26 DEF IInv

(* The job starts with a revision that no change has. *)
LEMMA DispatchStartOK ==
  ASSUME IInv, DispatchStart
  PROVE  IInv'
<1> DEFINE s == Shown(StartSnapshot)
<1>1. /\ stream = "begun" /\ stream' = "sent" /\ UNCHANGED <<visual, rt, acts, proc, wire, puts>>
      /\ enc' = [gen |-> Gen, cover |-> s, doubt |-> NoCover]
  BY DEF DispatchStart
<1>2. Gen \in Nat /\ Gen > 0 /\ Gen \in DOMAIN rt
  BY <1>1, RowTypes DEF IInv, JobOK
<1>3. StartSnapshot \in Cover /\ StartSnapshot.rev = 1
  BY DEF StartSnapshot, Cover, IInv, TypeOK
<1>4. s \in Cover /\ s.rev = 1
  BY <1>3, CoverTypes
<1>5. s' = s
  BY <1>1 DEF StartSnapshot, Shown
<1> HIDE DEF s
<1>6. /\ enc' \in [gen : Nat, cover : Cover, doubt : Cover]
      /\ enc'.gen = Gen /\ enc'.cover = s /\ enc'.doubt = NoCover
  BY <1>1, <1>2, <1>4, CoverTypes
<1>7. TypeOK' /\ RowsOK' /\ SentOK'
  BY <1>1, <1>6 DEF IInv, TypeOK, RowsOK, RowOK, ActionOK, Has, SentOK
<1>8. WireOK' /\ JobOK' /\ BegunOK'
  BY <1>1, <1>2, <1>6 DEF IInv, WireOK, MessageOK, JobOK, Gen, BegunOK
<1>9. ProcsOK'
  BY <1>1 DEF IInv, ProcsOK, ProcOK, On, Busy
<1>10. ShowsOK'
  BY <1>4, <1>5, <1>6 DEF ShowsOK, s
<1>11. \A h \in DOMAIN rt, k \in Keys : Has(h, k) => acts[h][k].cover.rev \notin Revs'
  <2> SUFFICES ASSUME NEW h \in DOMAIN rt, NEW k \in Keys, Has(h, k)
               PROVE  acts[h][k].cover.rev \notin Revs'
    OBVIOUS
  <2>1. acts[h][k].cover.rev >= 2
    BY DEF IInv, RowsOK, ActionOK
  <2> QED BY <1>4, <1>6, <2>1, CoverTypes DEF Revs
<1>12. \A k \in Keys : ~OnWire(Gen, k)
  BY <1>1 DEF IInv, BegunOK
<1>13. \A h : Current(h)' => h = Gen
  BY <1>1 DEF Current, Gen
<1>14. \A h, k : OnWire(h, k)' <=> OnWire(h, k)
  BY <1>1 DEF OnWire
<1>15. \A h \in DOMAIN rt, k \in Keys : h = Gen /\ Has(h, k) => Off(h, k)'
  BY <1>1, <1>11, <1>12, <1>14 DEF Off
<1>16. ChangesOK'
  <2> SUFFICES ASSUME NEW h \in DOMAIN rt', Current(h)'
               PROVE  /\ \A m \in wire' : m.gen # h
                      /\ \A k \in Keys : Has(h, k)' /\ acts'[h][k].status = "failed" => Off(h, k)'
                      /\ \A q \in Procs : \A k : proc'[q].pc = "prepared" /\ proc'[q].gen = h
                                                   /\ proc'[q].key = k => Off(h, k)'
    BY DEF ChangesOK
  <2>1. h = Gen /\ h \in DOMAIN rt
    BY <1>1, <1>13
  <2>2. \A m \in wire' : m.gen # h
    BY <1>1, <1>12, <2>1, Owned DEF OnWire
  <2>3. \A k \in Keys : Has(h, k)' /\ acts'[h][k].status = "failed" => Off(h, k)'
    BY <1>1, <1>15, <2>1 DEF Has
  <2>4. ASSUME NEW q \in Procs, NEW k, proc'[q].pc = "prepared", proc'[q].gen = h,
               proc'[q].key = k
        PROVE  Off(h, k)'
    <3>1. k \in Keys /\ Has(h, k)
      BY <1>1, <2>4, Owned DEF Busy
    <3> QED BY <1>15, <2>1, <3>1
  <2> QED BY <2>2, <2>3, <2>4
<1>17. OutcomesOK'
  <2> SUFFICES ASSUME NEW q \in Procs, NEW h, NEW k, h = proc'[q].gen, k = proc'[q].key,
                      proc'[q].pc = "record", Current(h)'
               PROVE  proc'[q].outcome = "failed" /\ Off(h, k)'
    BY DEF OutcomesOK, OutcomeOK, Current, Off, OnWire, Revs
  <2>1. h = Gen
    BY <1>13
  <2>2. k \in Keys /\ Has(h, k) /\ proc[q].outcome = "failed"
    BY <1>1, <2>1, Owned DEF IInv, BegunOK, Busy
  <2> QED BY <1>1, <1>2, <1>15, <2>1, <2>2
<1>18. ShownAsRecorded'
  BY <1>1, <1>2, <1>6 DEF IInv, BegunOK, ShownAsRecorded
<1> QED BY <1>7, <1>8, <1>9, <1>10, <1>16, <1>17, <1>18 DEF IInv

(* The row still has the start's cover only if no change was stored, so    *)
(* that cover is what the Encoder shows.                                   *)
LEMMA CompleteStartOK ==
  ASSUME IInv, CompleteStart, NEW g, g = Gen
  PROVE  IInv'
<1> DEFINE v == Shown(rt[g].desired)
           row == [rt[g] EXCEPT !.applied = v, !.status = "applied"]
<1>1. /\ stream = "sent" /\ stream' = "live" /\ UNCHANGED <<visual, acts, enc, proc, wire, puts>>
      /\ rt[g].desired = StartSnapshot
  BY DEF CompleteStart, StartMayApply
<1>2. enc.gen = g /\ g # 0 /\ g \in DOMAIN rt /\ rt[g] \in Row
  BY <1>1, RowTypes DEF IInv, JobOK
<1>3. rt[g].key = None /\ \A k \in Keys : ~Has(g, k)
  <2>1. rt[g].desired.rev = 1
    BY <1>1 DEF StartSnapshot
  <2>2. ASSUME rt[g].key # None PROVE FALSE
    <3>1. rt[g].key \in Keys /\ Has(g, rt[g].key) /\ acts[g][rt[g].key].cover.rev = 1
      BY <1>2, <2>1, <2>2 DEF IInv, RowsOK, RowOK, Row
    <3> QED BY <1>2, <3>1 DEF IInv, RowsOK, ActionOK
  <2> QED BY <1>2, <2>2 DEF IInv, RowsOK, RowOK
<1>4. enc.cover = Shown(StartSnapshot) /\ enc.cover.rev = 1 /\ enc.doubt = NoCover
  BY <1>1, <1>2, <1>3 DEF IInv, ShowsOK
<1>5. v \in Cover /\ v = enc.cover
  BY <1>1, <1>2, <1>4, CoverTypes DEF Row
<1>6. /\ row \in Row /\ row.desired = rt[g].desired /\ row.key = rt[g].key
      /\ row.status = "applied" /\ row.applied = enc.cover
  BY <1>2, <1>5 DEF Row
<1>7. rt' = [rt EXCEPT ![g] = row]
  BY <1>2 DEF CompleteStart, RecordStartApplied
<1> HIDE DEF v, row
<1>8. /\ rt' \in Seq(Row) /\ DOMAIN rt' = DOMAIN rt /\ Len(rt') = Len(rt)
      /\ rt'[g] = row /\ \A h \in DOMAIN rt : h # g => rt'[h] = rt[h]
  <2> HIDE DEF Row
  <2> QED BY <1>2, <1>6, <1>7 DEF IInv, TypeOK
<1>9. TypeOK'
  BY <1>1, <1>8 DEF IInv, TypeOK
<1>10. Gen' = Gen /\ Revs' = Revs /\ \A h : Current(h)' <=> Current(h)
  BY <1>1, <1>8 DEF Gen, Revs, Current
<1>11. RowsOK'
  <2>1. ASSUME NEW h \in DOMAIN rt PROVE RowOK(h)' /\ \A k \in Keys : ActionOK(h, k)'
    <3>1. RowOK(h) /\ \A k \in Keys : ActionOK(h, k)
      BY DEF IInv, RowsOK
    <3>2. rt'[h].desired = rt[h].desired /\ rt'[h].key = rt[h].key
      BY <1>6, <1>8
    <3>3. \A k \in Keys : ActionOK(h, k)'
      BY <1>1, <3>1, <3>2 DEF ActionOK, Has
    <3>4. CASE h = g
      BY <1>1, <1>3, <1>6, <1>8, <3>1, <3>2, <3>3, <3>4 DEF RowOK, Has
    <3>5. CASE h # g
      BY <1>1, <1>8, <3>1, <3>3, <3>5 DEF RowOK, Has
    <3> QED BY <3>4, <3>5
  <2> QED BY <1>8, <2>1 DEF RowsOK
<1>12. ProcsOK' /\ SentOK' /\ WireOK' /\ JobOK' /\ BegunOK'
  <2>1. ProcsOK'
    BY <1>1, <1>8 DEF IInv, ProcsOK, ProcOK, On, Busy
  <2>2. SentOK' /\ WireOK'
    BY <1>1, <1>8 DEF IInv, SentOK, Has, WireOK, MessageOK
  <2>3. JobOK' /\ BegunOK'
    BY <1>1, <1>10 DEF IInv, JobOK, BegunOK
  <2> QED BY <2>1, <2>2, <2>3
<1>13. ShowsOK'
  BY <1>1, <1>4 DEF ShowsOK
<1>14. ChangesOK' /\ OutcomesOK'
  <2>1. \A h, l : (OnWire(h, l)' <=> OnWire(h, l)) /\ (Has(h, l)' <=> Has(h, l))
    BY <1>1 DEF OnWire, Has
  <2>2. \A h, l : (Off(h, l)' <=> Off(h, l)) /\ (OnAir(h, l)' <=> OnAir(h, l))
    BY <1>1, <1>10, <2>1 DEF Off, OnAir
  <2>3. ChangesOK'
    BY <1>1, <1>8, <1>10, <2>1, <2>2 DEF IInv, ChangesOK
  <2>4. ASSUME NEW q \in Procs PROVE OutcomeOK(q)'
    BY <1>1, <1>10, <2>2 DEF IInv, OutcomesOK, OutcomeOK
  <2> QED BY <2>3, <2>4 DEF OutcomesOK
<1>15. ShownAsRecorded'
  BY <1>1, <1>2, <1>4, <1>6, <1>8 DEF IInv, ShownAsRecorded
<1> QED BY <1>9, <1>11, <1>12, <1>13, <1>14, <1>15 DEF IInv

(* Without a job no generation is current. *)
LEMMA EndedOK ==
  ASSUME IInv, TypeOK', RowsOK', stream' \in {"ready", "deleted"}, enc' = NoJob,
         UNCHANGED <<proc, wire, puts>>, DOMAIN rt' = DOMAIN rt,
         stream = "deleted" => stream' = "deleted", stream' # "deleted" => acts' = acts,
         \A h \in DOMAIN rt, l \in Keys :
            acts'[h][l].status = acts[h][l].status /\ (Has(h, l)' <=> Has(h, l))
  PROVE  IInv'
<1>1. enc'.gen = 0 /\ \A h : ~Current(h)'
  BY DEF NoJob, Current
<1>2. ProcsOK'
  <2> SUFFICES ASSUME NEW q \in Procs, Busy(q) PROVE ProcOK(q)'
    BY DEF ProcsOK, ProcOK, Busy
  <2>1. ProcOK(q) /\ proc[q].gen \in DOMAIN rt /\ proc[q].key \in Keys
    BY Owned DEF IInv, ProcsOK
  <2>2. PICK h \in DOMAIN rt : h = proc[q].gen
    BY <2>1
  <2>3. PICK l \in Keys : l = proc[q].key
    BY <2>1
  <2>4. /\ acts[h][l] # NoAction
        /\ stream # "deleted" => proc[q].cover = acts[h][l].cover
        /\ proc[q].pc \in {"prepared", "sent"} => acts[h][l].status = "pending"
        /\ proc[q].pc = "reconcile" => acts[h][l].status # "pending"
        /\ acts[h][l].status = "pending" => \A i \in Procs : On(i, h, l) => i = q
    BY <2>1, <2>2, <2>3 DEF ProcOK
  <2>5. acts'[h][l] # NoAction /\ acts'[h][l].status = acts[h][l].status
    BY <2>4 DEF Has
  <2>6. stream' # "deleted" => proc'[q].cover = acts'[h][l].cover
    BY <2>4
  <2>7. \A i \in Procs : On(i, h, l)' <=> On(i, h, l)
    BY DEF On, Busy
  <2> QED BY <2>2, <2>3, <2>4, <2>5, <2>6, <2>7 DEF ProcOK, On, Busy
<1>3. SentOK'
  <2>1. \A x \in puts' : Has(x[1], x[2])'
    BY Owned
  <2> QED BY <2>1 DEF IInv, SentOK
<1>4. WireOK'
  BY DEF IInv, WireOK, MessageOK
<1>5. JobOK' /\ BegunOK' /\ ShowsOK'
  BY <1>1 DEF JobOK, BegunOK, ShowsOK
<1>6. ChangesOK'
  BY <1>1 DEF ChangesOK
<1>7. OutcomesOK'
  BY DEF OutcomesOK, OutcomeOK, Current
<1>8. ShownAsRecorded'
  <2>1. \A h \in DOMAIN rt' : h # 0
    BY RowTypes DEF IInv
  <2> QED BY <1>1, <2>1 DEF ShownAsRecorded
<1> QED BY <1>2, <1>3, <1>4, <1>5, <1>6, <1>7, <1>8 DEF IInv

LEMMA NoJobTypes == NoJob \in [gen : Nat, cover : Cover, doubt : Cover]
BY CoverTypes DEF NoJob

LEMMA FailStartOK ==
  ASSUME IInv, FailStart
  PROVE  IInv'
<1>1. /\ stream # "deleted" /\ stream' = "ready" /\ enc' = NoJob
      /\ UNCHANGED <<visual, rt, acts, proc, wire, puts>>
  BY DEF FailStart, Starting
<1>2. TypeOK' /\ RowsOK'
  BY <1>1, NoJobTypes DEF IInv, TypeOK, RowsOK, RowOK, ActionOK, Has
<1> QED BY <1>1, <1>2, EndedOK DEF Has

LEMMA StopStreamOK ==
  ASSUME IInv, StopStream
  PROVE  IInv'
<1>1. /\ stream # "deleted" /\ stream' = "ready" /\ enc' = NoJob
      /\ UNCHANGED <<visual, acts, proc, wire, puts>>
      /\ rt' = [g \in DOMAIN rt |-> [rt[g] EXCEPT !.retired = TRUE]]
  BY DEF StopStream, Starting
<1>2. /\ DOMAIN rt' = DOMAIN rt
      /\ \A g \in DOMAIN rt : /\ rt'[g] \in Row /\ rt'[g].desired = rt[g].desired
                              /\ rt'[g].status = rt[g].status /\ rt'[g].key = rt[g].key
  <2>1. \A g \in DOMAIN rt : rt[g] \in Row
    BY RowTypes DEF IInv
  <2>2. \A x \in Row : /\ [x EXCEPT !.retired = TRUE] \in Row
                       /\ [x EXCEPT !.retired = TRUE].desired = x.desired
                       /\ [x EXCEPT !.retired = TRUE].status = x.status
                       /\ [x EXCEPT !.retired = TRUE].key = x.key
    BY DEF Row
  <2> QED BY <1>1, <2>1, <2>2
<1>3. rt' \in Seq(Row) /\ Len(rt') = Len(rt)
  <2> HIDE DEF Row
  <2>1. DOMAIN rt = 1 .. Len(rt) /\ Len(rt) \in Nat
    BY DEF IInv, TypeOK
  <2>2. rt' = [g \in 1 .. Len(rt) |-> rt'[g]] /\ \A g \in 1 .. Len(rt) : rt'[g] \in Row
    BY <1>1, <1>2, <2>1
  <2> QED BY <2>1, <2>2
<1>4. TypeOK'
  BY <1>1, <1>3, NoJobTypes DEF IInv, TypeOK
<1>5. RowsOK'
  BY <1>1, <1>2 DEF IInv, RowsOK, RowOK, ActionOK, Has
<1> QED BY <1>1, <1>2, <1>4, <1>5, EndedOK DEF Has

(* Deleting the stream takes the pictures out of rows and actions alike. *)
LEMMA DeleteStreamOK ==
  ASSUME IInv, DeleteStream
  PROVE  IInv'
<1> DEFINE Bare(c) == [c EXCEPT !.variant = None]
           Over(x) == [x EXCEPT !.retired = TRUE, !.desired.variant = None,
                                !.applied.variant = None]
           Cut(a) == [a EXCEPT !.cover.variant = None]
<1>1. /\ stream = "ready" /\ stream' = "deleted" /\ UNCHANGED <<enc, proc, wire, puts>>
      /\ rt' = [g \in DOMAIN rt |-> Over(rt[g])]
      /\ acts' = [g \in DOMAIN acts |-> [k \in Keys |->
                    IF acts[g][k] = NoAction THEN NoAction ELSE Cut(acts[g][k])]]
      /\ visual' = [visual EXCEPT !.cands = {}, !.sel = None, !.on = FALSE]
  BY DEF DeleteStream, RetireStreamCovers
<1>2. enc' = NoJob
  BY <1>1 DEF IInv, JobOK
<1>3. \A c \in Cover : Bare(c) \in Cover /\ Bare(c).rev = c.rev
  BY DEF Cover
<1>4. \A x \in Row : /\ Over(x) \in Row /\ Over(x).desired = Bare(x.desired)
                     /\ Over(x).status = x.status /\ Over(x).key = x.key
  <2> SUFFICES ASSUME NEW x \in Row
               PROVE  /\ Over(x) \in Row /\ Over(x).desired = Bare(x.desired)
                      /\ Over(x).status = x.status /\ Over(x).key = x.key
    OBVIOUS
  <2>1. /\ x.desired \in Cover /\ x.applied \in Cover
        /\ Bare(x.desired) \in Cover /\ Bare(x.applied) \in Cover
    BY <1>3 DEF Row
  <2>2. Over(x) = [x EXCEPT !.retired = TRUE, !.desired = Bare(x.desired),
                            !.applied = Bare(x.applied)]
    BY DEF Row
  <2> HIDE DEF Bare, Over
  <2> QED BY <2>1, <2>2 DEF Row
<1>5. \A a \in Stored : /\ Cut(a) \in Stored /\ Cut(a) # NoAction
                        /\ Cut(a).status = a.status /\ Cut(a).cover = Bare(a.cover)
  <2> SUFFICES ASSUME NEW a \in Stored
               PROVE  /\ Cut(a) \in Stored /\ Cut(a) # NoAction
                      /\ Cut(a).status = a.status /\ Cut(a).cover = Bare(a.cover)
    OBVIOUS
  <2>1. Bare(a.cover) \in Cover
    BY <1>3 DEF Stored
  <2>2. Cut(a) = [a EXCEPT !.cover = Bare(a.cover)]
    BY DEF Stored
  <2> HIDE DEF Bare, Cut
  <2> QED BY <2>1, <2>2 DEF Stored, NoAction
<1> HIDE DEF Bare, Over, Cut
<1>6. DOMAIN acts = DOMAIN rt /\ \A g \in DOMAIN rt : rt[g] \in Row
  BY RowTypes DEF IInv
<1>7. /\ DOMAIN rt' = DOMAIN rt
      /\ \A g \in DOMAIN rt : /\ rt'[g] \in Row /\ rt'[g].desired = Bare(rt[g].desired)
                              /\ rt'[g].status = rt[g].status /\ rt'[g].key = rt[g].key
                              /\ rt'[g].desired.rev = rt[g].desired.rev
  BY <1>1, <1>3, <1>4, <1>6 DEF Row
<1>8. \A g \in DOMAIN rt, k \in Keys :
        /\ Has(g, k)' <=> Has(g, k)
        /\ acts'[g][k].status = acts[g][k].status
        /\ acts'[g][k] \in Stored \cup {NoAction}
        /\ Has(g, k) => /\ acts'[g][k].cover = Bare(acts[g][k].cover)
                        /\ acts'[g][k].cover.rev = acts[g][k].cover.rev
  <2> SUFFICES ASSUME NEW g \in DOMAIN rt, NEW k \in Keys
               PROVE  /\ Has(g, k)' <=> Has(g, k)
                      /\ acts'[g][k].status = acts[g][k].status
                      /\ acts'[g][k] \in Stored \cup {NoAction}
                      /\ Has(g, k) => /\ acts'[g][k].cover = Bare(acts[g][k].cover)
                                      /\ acts'[g][k].cover.rev = acts[g][k].cover.rev
    OBVIOUS
  <2>1. acts'[g][k] = IF acts[g][k] = NoAction THEN NoAction ELSE Cut(acts[g][k])
    BY <1>1, <1>6
  <2>2. CASE Has(g, k)
    <3>1. acts[g][k] \in Stored /\ acts[g][k].cover \in Cover
      BY <2>2, ActionTypes DEF IInv, Stored
    <3>2. acts'[g][k] = Cut(acts[g][k])
      BY <2>1, <2>2 DEF Has
    <3> QED BY <1>3, <1>5, <2>2, <3>1, <3>2 DEF Has
  <2>3. CASE ~Has(g, k)
    BY <2>1, <2>3 DEF Has
  <2> QED BY <2>2, <2>3
<1>9. rt' \in Seq(Row) /\ Len(rt') = Len(rt)
  <2> HIDE DEF Row
  <2>1. DOMAIN rt = 1 .. Len(rt) /\ Len(rt) \in Nat
    BY DEF IInv, TypeOK
  <2>2. rt' = [g \in 1 .. Len(rt) |-> rt'[g]] /\ \A g \in 1 .. Len(rt) : rt'[g] \in Row
    BY <1>1, <1>7, <2>1
  <2> QED BY <2>1, <2>2
<1>10. acts' \in Seq(Table) /\ Len(acts') = Len(acts)
  <2>1. \A g \in DOMAIN rt : acts'[g] \in Table
    <3> SUFFICES ASSUME NEW g \in DOMAIN rt PROVE acts'[g] \in Table
      OBVIOUS
    <3>1. acts'[g] = [k \in Keys |-> acts'[g][k]]
      BY <1>1, <1>6
    <3> QED BY <1>8, <3>1 DEF Table
  <2> HIDE DEF Table
  <2>2. DOMAIN acts = 1 .. Len(acts) /\ Len(acts) \in Nat
    BY DEF IInv, TypeOK
  <2>3. acts' = [g \in 1 .. Len(acts) |-> acts'[g]]
    BY <1>1, <2>2
  <2> QED BY <1>6, <2>1, <2>2, <2>3
<1>11. TypeOK'
  BY <1>1, <1>2, <1>9, <1>10 DEF IInv, TypeOK
<1>12. RowsOK'
  <2> SUFFICES ASSUME NEW g \in DOMAIN rt PROVE RowOK(g)' /\ \A k \in Keys : ActionOK(g, k)'
    BY <1>7 DEF RowsOK
  <2>1. RowOK(g) /\ \A k \in Keys : ActionOK(g, k)
    BY DEF IInv, RowsOK
  <2>2. rt[g].key \in Keys \cup {None}
    BY <1>6 DEF Row
  <2>3. RowOK(g)'
    BY <1>7, <1>8, <2>1, <2>2 DEF RowOK
  <2>4. \A k \in Keys : ActionOK(g, k)'
    BY <1>7, <1>8, <2>1 DEF ActionOK
  <2> QED BY <2>3, <2>4
<1> QED BY <1>1, <1>2, <1>7, <1>8, <1>11, <1>12, EndedOK

LEMMA UpdateVisualSettingsOK ==
  ASSUME IInv, UpdateVisualSettings
  PROVE  IInv'
<1>1. stream = "ready" /\ UNCHANGED <<stream, rt, acts, enc, proc, wire, puts>>
  BY DEF UpdateVisualSettings
<1>2. visual' \in [cands : SUBSET Variants, sel : Variants \cup {None}, on : BOOLEAN, rev : Nat]
  <2>1. PICK cs \in SUBSET Variants : \E sel \in cs \cup {None}, on \in BOOLEAN :
          visual' = [cands |-> cs, sel |-> sel, on |-> on /\ sel # None, rev |-> visual.rev + 1]
    BY DEF UpdateVisualSettings
  <2>2. PICK sel \in cs \cup {None}, on \in BOOLEAN :
          visual' = [cands |-> cs, sel |-> sel, on |-> on /\ sel # None, rev |-> visual.rev + 1]
    BY <2>1
  <2>3. visual.rev + 1 \in Nat /\ (on /\ sel # None) \in BOOLEAN
    BY DEF IInv, TypeOK
  <2> QED BY <2>2, <2>3
<1>3. TypeOK'
  BY <1>1, <1>2 DEF IInv, TypeOK
<1>4. RowsOK'
  BY <1>1 DEF IInv, RowsOK, RowOK, ActionOK, Has
<1> QED BY <1>1, <1>3, <1>4, EndedOK DEF IInv, JobOK, Has

-----------------------------------------------------------------------------
(* The theorems.                                                           *)

LEMMA InitOK ==
  ASSUME Init
  PROVE  IInv
<1>1. /\ stream = "ready" /\ rt = <<>> /\ acts = <<>> /\ enc = NoJob /\ wire = {} /\ puts = {}
      /\ proc = [p \in Procs |-> Idle]
  BY DEF Init
<1>2. visual \in [cands : SUBSET Variants, sel : Variants \cup {None}, on : BOOLEAN, rev : Nat]
  BY DEF Init
<1>3. rt \in Seq(Row) /\ acts \in Seq(Table) /\ Len(acts) = Len(rt) /\ DOMAIN rt = {} /\ Gen = 0
  <2> HIDE DEF Row, Table
  <2> QED BY <1>1 DEF Gen
<1>4. enc.gen = 0
  BY <1>1 DEF NoJob
<1>5. TypeOK
  BY <1>1, <1>2, <1>3, NoJobTypes DEF TypeOK
<1>6. \A p \in Procs : proc[p].pc = "idle"
  BY <1>1 DEF Idle
<1>7. RowsOK /\ ProcsOK /\ SentOK /\ WireOK
  BY <1>1, <1>3, <1>6 DEF RowsOK, ProcsOK, ProcOK, Busy, SentOK, WireOK
<1>8. JobOK /\ BegunOK /\ ShowsOK
  BY <1>1, <1>4 DEF JobOK, BegunOK, ShowsOK
<1>9. ChangesOK /\ OutcomesOK /\ ShownAsRecorded
  BY <1>3, <1>6 DEF ChangesOK, OutcomesOK, OutcomeOK, ShownAsRecorded
<1> QED BY <1>5, <1>7, <1>8, <1>9 DEF IInv

LEMMA NextOK ==
  ASSUME IInv, [Next]_vars
  PROVE  IInv'
<1>1. CASE UpdateVisualSettings
  BY <1>1, UpdateVisualSettingsOK
<1>2. CASE Lifecycle
  <2>1. CASE CompleteStart
    <3>1. PICK g : g = Gen
      OBVIOUS
    <3> QED BY <2>1, <3>1, CompleteStartOK
  <2> QED BY <1>2, <2>1, BeginOK, DispatchStartOK, FailStartOK, StopStreamOK, DeleteStreamOK
          DEF Lifecycle
<1>3. ASSUME NEW p \in Procs, Request(p) PROVE IInv'
  BY <1>3, AcceptOK, PrepareStepOK, DispatchOK, LoseAnswerOK, PollOK, AskEncoderOK,
     RecordOutcomeOK, CrashOK
  DEF Request
<1>4. ASSUME NEW msg \in wire, EncoderHandles(msg) PROVE IInv'
  BY <1>4, EncoderHandlesOK
<1>5. CASE EncoderSettles
  BY <1>5, EncoderSettlesOK
<1>6. CASE UNCHANGED vars
  <2>1. TypeOK' /\ RowsOK' /\ SentOK' /\ WireOK' /\ JobOK' /\ ShownAsRecorded'
    BY <1>6 DEF vars, IInv, TypeOK, RowsOK, RowOK, ActionOK, Has, SentOK, WireOK, MessageOK,
                JobOK, Gen, ShownAsRecorded
  <2>2. ProcsOK'
    BY <1>6 DEF vars, IInv, ProcsOK, ProcOK, On, Busy
  <2>3. BegunOK' /\ ShowsOK'
    BY <1>6 DEF vars, IInv, BegunOK, ShowsOK, Gen, Has, OnWire, Busy, StartSnapshot
  <2>4. ChangesOK'
    BY <1>6 DEF vars, IInv, ChangesOK, Current, Gen, Has, Off, OnWire, Revs
  <2>5. OutcomesOK'
    BY <1>6 DEF vars, IInv, OutcomesOK, OutcomeOK, Current, Gen, Off, OnAir, OnWire, Revs
  <2> QED BY <2>1, <2>2, <2>3, <2>4, <2>5 DEF IInv
<1> QED BY <1>1, <1>2, <1>3, <1>4, <1>5, <1>6 DEF Next

(* The inductive invariant of the cover: rows, actions, requests, messages *)
(* on the wire and the Encoder's job agree as its parts say.               *)
THEOREM CoverInvariant == Spec => []IInv
<1>1. Init => IInv
  BY InitOK
<1>2. IInv /\ [Next]_vars => IInv'
  BY NextOK
<1> QED BY <1>1, <1>2, PTL DEF Spec

(* A generation's row that says applied tells what the Encoder shows       *)
(* (RecordApplied, RecordStartApplied), whatever answers are lost or late. *)
THEOREM AppliedIsShown == Spec => []ShownAsRecorded
<1>1. IInv => ShownAsRecorded
  BY DEF IInv
<1> QED BY <1>1, CoverInvariant, PTL

(* A change recorded as failed (RecordFailed) is neither on air in its     *)
(* generation, nor in doubt there, nor on its way to it.                   *)
THEOREM FailedIsOff == Spec => []FailedNotShown
<1>1. ASSUME IInv PROVE FailedNotShown
  <2> SUFFICES ASSUME NEW g \in DOMAIN acts, NEW k \in Keys, acts[g][k].status = "failed",
                      enc.gen = g
               PROVE  /\ acts[g][k].cover.rev \notin {enc.cover.rev, enc.doubt.rev}
                      /\ \A msg \in wire : <<msg.gen, msg.key>> # <<g, k>>
    BY DEF FailedNotShown
  <2>1. g \in DOMAIN rt /\ g # 0
    BY <1>1, RowTypes DEF IInv
  <2>2. Current(g) /\ Has(g, k)
    BY <1>1, <2>1, ActionTypes DEF IInv, JobOK, Current
  <2>3. Off(g, k)
    BY <1>1, <2>1, <2>2 DEF IInv, ChangesOK
  <2> QED BY <2>3 DEF Off, OnWire, Revs
<1> QED BY <1>1, CoverInvariant, PTL

(* The Panel sends a change at most once (DispatchVideoCover), however     *)
(* often its key is repeated and whichever processes die on the way.       *)
THEOREM ChangeSentOnce == Spec => []SentOnce
<1>1. IInv => SentOnce
  BY DEF IInv, SentOK, SentOnce
<1> QED BY <1>1, CoverInvariant, PTL

-----------------------------------------------------------------------------
(* The pictures behind the covers (MediaAssets).                           *)

AssetRow == [owner : {"draft", "stream", "preset"}, of : Sessions \cup Streams \cup Presets,
             session : Sessions \cup {Nothing}, content : Contents,
             usage : {"video_cover", "scene_background"}, deleted : BOOLEAN,
             retention : {"none", "running", "over"}]
AssetState == AssetRow \cup {Absent, Gone}
SessionState == {Absent, Gone} \cup [owner : {"draft"}, lapsed : BOOLEAN]
                               \cup [owner : {"stream"}, of : Streams, lapsed : BOOLEAN]
Uploading == [job : {"upload"}, session : Sessions, usage : {"video_cover", "scene_background"},
              content : Contents, key : Contents \X {"original", "variant"}]
Converting == [job : {"convert"}, asset : Assets, content : Contents]
Converted == [job : {"variant"}, asset : Assets, key : Contents \X {"original", "variant"}]

AssetsTypeOK ==
  /\ session \in [Sessions -> SessionState]
  /\ asset \in [Assets -> AssetState]
  /\ variant \in [Assets -> {"none", "processing", "ready", "failed"}]
  /\ disk \subseteq Contents \X {"original", "variant"}
  /\ queue \subseteq Contents \X {"original", "variant"}
  /\ lost \subseteq Contents \X {"original", "variant"}
  /\ streams \in [Streams -> {"new", "ready", "deleted"}]
  /\ cands \in [Streams -> SUBSET (Assets \X (Presets \cup {Nothing}))]
  /\ back \in [Streams -> Assets \cup {Nothing}]
  /\ pins \in [Streams -> SUBSET Assets]
  /\ preset \in [Presets -> {Absent, Gone} \cup [owner : {"live", "deleted"}, asset : Assets]]
  /\ work \in [Workers -> {NoWork} \cup Uploading \cup Converting \cup Converted]

\* From one state of the table to another no row comes or goes, and none
\* changes its content.
Kept(f, g) ==
  /\ g \in [Assets -> AssetState]
  /\ \A a \in Assets : \/ g[a] = f[a]
                       \/ /\ f[a] \in AssetRow /\ g[a] \in AssetRow
                          /\ g[a].content = f[a].content

LEMMA NoRow == Absent \notin AssetRow /\ Gone \notin AssetRow
BY DEF Absent, Gone, AssetRow

LEMMA RowType ==
  ASSUME AssetsTypeOK, NEW a \in Assets
  PROVE  a \in Rows <=> asset[a] \in AssetRow
BY NoRow DEF AssetsTypeOK, Rows, AssetState

LEMMA UndeletedRow ==
  ASSUME AssetsTypeOK, NEW a \in Assets
  PROVE  /\ Undeleted(a) => asset[a] \in AssetRow
         /\ Ready(a) => asset[a] \in AssetRow
BY RowType DEF Undeleted, Ready

LEMMA KeptRows ==
  ASSUME AssetsTypeOK, Kept(asset, asset')
  PROVE  /\ Rows' = Rows
         /\ \A a \in Rows : asset'[a].content = asset[a].content
<1>1. ASSUME NEW a \in Assets
      PROVE  asset'[a] \notin {Absent, Gone} <=> asset[a] \notin {Absent, Gone}
  BY NoRow DEF Kept
<1>2. Rows' = Rows
  BY <1>1 DEF Rows
<1> QED BY <1>2 DEF Kept, Rows

LEMMA KeptSame ==
  ASSUME NEW f \in [Assets -> AssetState] PROVE Kept(f, f)
BY DEF Kept

LEMMA KeptAgain ==
  ASSUME NEW f, NEW g, NEW h, Kept(f, g), Kept(g, h) PROVE Kept(f, h)
BY DEF Kept

LEMMA KeptAt ==
  ASSUME NEW f \in [Assets -> AssetState], NEW a \in Assets, NEW r \in AssetRow, f[a] \in AssetRow,
         r.content = f[a].content
  PROVE  Kept(f, [f EXCEPT ![a] = r])
BY DEF Kept, AssetState

LEMMA MarkedRow ==
  ASSUME NEW r \in AssetRow, NEW t \in {"none", "running", "over"}
  PROVE  Marked(r, t) \in AssetRow /\ Marked(r, t).content = r.content
BY DEF Marked, AssetRow

LEMMA SoftDeleteKept ==
  ASSUME AssetsTypeOK, NEW a \in Assets, DeleteMediaAsset(a) PROVE Kept(asset, asset')
<1>1. a \in Rows /\ asset[a] \in AssetRow
  BY RowType DEF DeleteMediaAsset, SoftDeleteAsset, SoftDeleteDraftAsset
<1>2. \E t \in {"none", "running", "over"} : asset' = [asset EXCEPT ![a] = Marked(asset[a], t)]
  <2>1. asset[a].retention \in {"none", "running", "over"}
    BY <1>1 DEF AssetRow
  <2> QED BY <2>1 DEF DeleteMediaAsset, SoftDeleteAsset, SoftDeleteDraftAsset, AssetsTypeOK
<1>3. PICK t \in {"none", "running", "over"} : asset' = [asset EXCEPT ![a] = Marked(asset[a], t)]
  BY <1>2
<1> QED BY <1>1, <1>3, MarkedRow, KeptAt DEF AssetsTypeOK

LEMMA LapseKept ==
  ASSUME AssetsTypeOK, NEW a \in Assets, LapseRetention(a) PROVE Kept(asset, asset')
<1> DEFINE r == [asset[a] EXCEPT !.retention = "over"]
<1>1. asset[a] \in AssetRow
  BY RowType DEF LapseRetention
<1>2. r \in AssetRow /\ r.content = asset[a].content
  BY <1>1 DEF AssetRow
<1>3. asset' = [asset EXCEPT ![a] = r]
  BY DEF LapseRetention, AssetsTypeOK
<1> HIDE DEF r
<1> QED BY <1>1, <1>2, <1>3, KeptAt DEF AssetsTypeOK

LEMMA ClaimedKept ==
  ASSUME AssetsTypeOK, NEW s \in Sessions, NEW x \in Streams
  PROVE  Kept(asset, ClaimedAssets(s, x))
<1> DEFINE new(a) == [asset[a] EXCEPT !.owner = "stream", !.of = x]
<1>1. ASSUME NEW a \in Assets, asset[a] \in AssetRow
      PROVE  new(a) \in AssetRow /\ new(a).content = asset[a].content
  BY <1>1 DEF AssetRow
<1>2. CASE session[s].owner = "stream"
  BY <1>2, KeptSame DEF ClaimedAssets, AssetsTypeOK
<1>3. CASE session[s].owner # "stream"
  <2>1. ClaimedAssets(s, x) = [a \in Assets |-> IF Undeleted(a) /\ DraftOf(a, s) THEN new(a)
                                                ELSE asset[a]]
    BY <1>3 DEF ClaimedAssets
  <2> HIDE DEF new
  <2>2. \A a \in Assets : \/ ClaimedAssets(s, x)[a] = asset[a]
                          \/ asset[a] \in AssetRow /\ ClaimedAssets(s, x)[a] = new(a)
    BY <2>1, UndeletedRow
  <2>3. ClaimedAssets(s, x) \in [Assets -> AssetState]
    BY <1>1, <2>1, UndeletedRow DEF AssetsTypeOK, AssetState
  <2> QED BY <1>1, <2>2, <2>3 DEF Kept
<1> QED BY <1>2, <1>3

LEMMA ApplyKept ==
  ASSUME AssetsTypeOK, NEW x \in Streams, ApplyVisual(x)
  PROVE  /\ Kept(asset, asset')
         /\ \/ UNCHANGED session
            \/ \E s \in Sessions : MayClaim(s, x) /\ session' = ClaimDraft(s, x)
<1>1. \/ UNCHANGED <<session, asset>>
      \/ \E s \in Sessions : /\ MayClaim(s, x) /\ session' = ClaimDraft(s, x)
                             /\ asset' = ClaimedAssets(s, x)
  BY DEF ApplyVisual
<1> QED BY <1>1, ClaimedKept, KeptSame DEF AssetsTypeOK

LEMMA RetiredKept ==
  ASSUME AssetsTypeOK, NEW x \in Streams, RetireStreamCoverAssets(x)
  PROVE  Kept(asset, asset')
<1> DEFINE new(a) == Marked(asset[a], "over")
           Retired(a) == /\ a \in Rows /\ asset[a].owner = "stream" /\ asset[a].of = x
                         /\ asset[a].usage = "video_cover" /\ ~CitedWithout(x, a)
<1>1. ASSUME NEW a \in Assets, asset[a] \in AssetRow
      PROVE  new(a) \in AssetRow /\ new(a).content = asset[a].content
  BY <1>1, MarkedRow
<1>2. asset' = [a \in Assets |-> IF Retired(a) THEN new(a) ELSE asset[a]]
  BY DEF RetireStreamCoverAssets
<1>3. \A a \in Assets : Retired(a) => asset[a] \in AssetRow
  BY RowType
<1> HIDE DEF new, Retired
<1>4. \A a \in Assets : asset'[a] = asset[a] \/ (asset[a] \in AssetRow /\ asset'[a] = new(a))
  BY <1>2, <1>3
<1>5. asset' \in [Assets -> AssetState]
  BY <1>1, <1>2, <1>3 DEF AssetsTypeOK, AssetState
<1> QED BY <1>1, <1>4, <1>5 DEF Kept

LEMMA ClaimPresetKept ==
  ASSUME AssetsTypeOK, NEW a \in Assets, NEW p \in Presets, PresetAssetValid(a)
  PROVE  Kept(asset, ClaimPresetAsset(a, p))
<1> DEFINE r == [asset[a] EXCEPT !.owner = "preset", !.of = p, !.session = Nothing]
<1>1. asset[a] \in AssetRow
  BY UndeletedRow DEF PresetAssetValid
<1>2. r \in AssetRow /\ r.content = asset[a].content
  BY <1>1 DEF AssetRow
<1>3. ClaimPresetAsset(a, p) = asset \/ ClaimPresetAsset(a, p) = [asset EXCEPT ![a] = r]
  BY DEF ClaimPresetAsset, AssetsTypeOK
<1> HIDE DEF r
<1> QED BY <1>1, <1>2, <1>3, KeptAt, KeptSame DEF AssetsTypeOK

LEMMA RetirePresetKept ==
  ASSUME NEW f \in [Assets -> AssetState], NEW a \in Assets, NEW p
  PROVE  Kept(f, RetirePresetAsset(f, a, p))
<1>1. CASE f[a].owner = "preset" /\ f[a].of = p
  <2>1. f[a] \in AssetRow
    <3>1. f[a] # Absent /\ f[a] # Gone
      BY <1>1 DEF Absent, Gone
    <3>2. f[a] \in AssetState
      OBVIOUS
    <3> QED BY <3>1, <3>2 DEF AssetState
  <2> DEFINE r == Marked(f[a], "running")
  <2>2. RetirePresetAsset(f, a, p) = [f EXCEPT ![a] = r]
    BY <1>1 DEF RetirePresetAsset
  <2>3. r \in AssetRow /\ r.content = f[a].content
    BY <2>1, MarkedRow
  <2> HIDE DEF r
  <2>4. Kept(f, [f EXCEPT ![a] = r])
    BY <2>1, <2>3, KeptAt
  <2> QED BY <2>2, <2>4
<1>2. CASE ~(f[a].owner = "preset" /\ f[a].of = p)
  BY <1>2, KeptSame DEF RetirePresetAsset
<1> QED BY <1>1, <1>2

LEMMA PresetKept ==
  ASSUME AssetsTypeOK, NEW p \in Presets,
         DeletePreset(p) \/ \E a \in Assets : CreatePreset(p, a) \/ UpdatePreset(p, a)
  PROVE  Kept(asset, asset')
<1>1. CASE DeletePreset(p)
  <2>1. preset[p].asset \in Assets
    BY <1>1 DEF DeletePreset, LivePresets, AssetsTypeOK, Absent, Gone
  <2> QED BY <1>1, <2>1, RetirePresetKept DEF DeletePreset, AssetsTypeOK
<1>2. ASSUME NEW a \in Assets, CreatePreset(p, a) PROVE Kept(asset, asset')
  BY <1>2, ClaimPresetKept DEF CreatePreset
<1>3. ASSUME NEW a \in Assets, UpdatePreset(p, a) PROVE Kept(asset, asset')
  <2>1. preset[p].asset \in Assets
    BY <1>3 DEF UpdatePreset, LivePresets, AssetsTypeOK, Absent, Gone
  <2>2. Kept(asset, ClaimPresetAsset(a, p))
    BY <1>3, ClaimPresetKept DEF UpdatePreset
  <2>3. Kept(ClaimPresetAsset(a, p), asset')
    BY <1>3, <2>1, <2>2, RetirePresetKept DEF UpdatePreset, Kept
  <2> QED BY <2>2, <2>3, KeptAgain
<1> QED BY <1>1, <1>2, <1>3

LEMMA SessionsKept ==
  ASSUME AssetsTypeOK, CollectSessions PROVE Kept(asset, asset')
<1> DEFINE new(a) == [asset[a] EXCEPT !.session = Nothing]
           Freed(a) == a \in Rows /\ asset[a].session \in FinishedSessions
<1>1. ASSUME NEW a \in Assets, asset[a] \in AssetRow
      PROVE  new(a) \in AssetRow /\ new(a).content = asset[a].content
  BY <1>1 DEF AssetRow
<1>2. asset' = [a \in Assets |-> IF Freed(a) THEN new(a) ELSE asset[a]]
  BY DEF CollectSessions
<1>3. \A a \in Assets : Freed(a) => asset[a] \in AssetRow
  BY RowType
<1> HIDE DEF new, Freed
<1>4. \A a \in Assets : asset'[a] = asset[a] \/ (asset[a] \in AssetRow /\ asset'[a] = new(a))
  BY <1>2, <1>3
<1>5. asset' \in [Assets -> AssetState]
  BY <1>1, <1>2, <1>3 DEF AssetsTypeOK, AssetState
<1> QED BY <1>1, <1>4, <1>5 DEF Kept

LEMMA JobType ==
  ASSUME AssetsTypeOK, NEW w \in Workers
  PROVE  /\ work[w].job = "upload" <=> work[w] \in Uploading
         /\ work[w].job = "convert" <=> work[w] \in Converting
         /\ work[w].job = "variant" <=> work[w] \in Converted
         /\ work[w] = NoWork <=> work[w].job = "idle"
<1>1. work[w] \in {NoWork} \cup Uploading \cup Converting \cup Converted
  BY DEF AssetsTypeOK
<1> QED BY <1>1 DEF NoWork, Uploading, Converting, Converted

LEMMA NewIdUnused ==
  ASSUME NEW f, Unused(f) # {} PROVE NewId(f) \in DOMAIN f /\ f[NewId(f)] = Absent
<1>1. NewId(f) \in Unused(f)
  BY DEF NewId
<1> QED BY <1>1 DEF Unused

LEMMA WriterType ==
  ASSUME AssetsTypeOK, NEW w \in Workers, WriterStep(w) PROVE AssetsTypeOK'
<1> USE DEF files, visuals
<1>1. ASSUME NEW s \in Sessions, NEW c \in Contents, NEW u \in {"video_cover", "scene_background"},
             Upload(w, s, c, u)
      PROVE  AssetsTypeOK'
  <2> DEFINE j == [job |-> "upload", session |-> s, usage |-> u, content |-> c, key |-> Original(c)]
  <2>1. Original(c) \in Contents \X {"original", "variant"}
    BY DEF Original
  <2>2. j \in Uploading /\ work' = [work EXCEPT ![w] = j] /\ disk' = disk \cup {Original(c)}
    BY <1>1, <2>1 DEF Upload, Uploading, WriteContentAddressed
  <2> HIDE DEF j
  <2> QED BY <1>1, <2>1, <2>2 DEF AssetsTypeOK, Upload
<1>2. ASSUME NEW a \in Assets, StartVariant(w, a) PROVE AssetsTypeOK'
  <2> DEFINE j == [job |-> "convert", asset |-> a, content |-> asset[a].content]
  <2>1. asset[a] \in AssetRow
    BY <1>2, UndeletedRow DEF StartVariant
  <2>2. j \in Converting /\ work' = [work EXCEPT ![w] = j]
    BY <1>2, <2>1 DEF StartVariant, Converting, AssetRow
  <2> HIDE DEF j
  <2> QED BY <1>2, <2>2 DEF AssetsTypeOK, StartVariant
<1>3. CASE PublishUpload(w)
  <2> DEFINE r == [owner |-> "draft", of |-> work[w].session, session |-> work[w].session,
                   content |-> work[w].content, usage |-> work[w].usage, deleted |-> FALSE,
                   retention |-> "none"]
             n == NewId(asset)
  <2>1. work[w] \in Uploading
    BY <1>3, JobType DEF PublishUpload
  <2>2. r \in AssetRow
    BY <2>1 DEF Uploading, AssetRow
  <2>3. n \in Assets
    BY <1>3, NewIdUnused DEF PublishUpload, AssetsTypeOK
  <2>4. asset' = [asset EXCEPT ![n] = r] /\ queue' \subseteq queue /\ work' = [work EXCEPT ![w] = NoWork]
    BY <1>3 DEF PublishUpload
  <2>5. UNCHANGED <<session, variant, streams, cands, back, pins, disk, lost, preset>>
    BY <1>3 DEF PublishUpload
  <2> HIDE DEF r, n
  <2>6. asset' \in [Assets -> AssetState]
    BY <2>2, <2>3, <2>4 DEF AssetsTypeOK, AssetState
  <2> QED BY <2>4, <2>5, <2>6 DEF AssetsTypeOK
<1>4. CASE CreateVariant(w)
  <2>1. work[w] \in Converting
    BY <1>4, JobType DEF CreateVariant
  <2>2. work[w].asset \in Assets /\ work[w].content \in Contents
    BY <2>1 DEF Converting
  <2>3. CASE /\ disk' = disk \cup {Processed(work[w].content)}
             /\ work' = [work EXCEPT ![w] = [job |-> "variant", asset |-> work[w].asset,
                                             key |-> Processed(work[w].content)]]
             /\ UNCHANGED variant
    <3> DEFINE k == Processed(work[w].content)
               j == [job |-> "variant", asset |-> work[w].asset, key |-> k]
    <3>1. k \in Contents \X {"original", "variant"}
      BY <2>2 DEF Processed
    <3>2. j \in Converted
      BY <2>2, <3>1 DEF Converted
    <3>3. disk' = disk \cup {k} /\ work' = [work EXCEPT ![w] = j]
      BY <2>3
    <3> HIDE DEF k, j
    <3> QED BY <1>4, <2>3, <3>1, <3>2, <3>3 DEF AssetsTypeOK, CreateVariant
  <2>4. CASE /\ work' = [work EXCEPT ![w] = NoWork] /\ UNCHANGED disk
             /\ variant' = variant \/ variant' = [variant EXCEPT ![work[w].asset] = "failed"]
    BY <1>4, <2>2, <2>4 DEF AssetsTypeOK, CreateVariant
  <2> QED BY <1>4, <2>3, <2>4 DEF CreateVariant, WriteContentAddressed
<1>5. CASE PublishVariant(w)
  <2>1. work[w] \in Converted
    BY <1>5, JobType DEF PublishVariant
  <2>2. work[w].asset \in Assets
    BY <2>1 DEF Converted
  <2> QED BY <1>5, <2>2 DEF AssetsTypeOK, PublishVariant
<1>6. CASE FailToPublish(w)
  <2>1. work[w] \in Uploading \cup Converted
    BY <1>6, JobType DEF FailToPublish
  <2>2. work[w].key \in Contents \X {"original", "variant"}
    BY <2>1 DEF Uploading, Converted
  <2> QED BY <1>6, <2>2 DEF AssetsTypeOK, FailToPublish, QueueUnpublishedFile
<1>7. CASE WriterDies(w)
  <2>1. work[w] \in Uploading \cup Converting \cup Converted
    BY <1>7 DEF WriterDies, AssetsTypeOK
  <2>2. lost' \subseteq Contents \X {"original", "variant"}
    <3>1. CASE work[w].job = "convert"
      BY <1>7, <3>1 DEF WriterDies, AssetsTypeOK
    <3>2. CASE work[w].job # "convert"
      <4>1. work[w].key \in Contents \X {"original", "variant"}
        BY <2>1, <3>2 DEF Uploading, Converting, Converted
      <4> QED BY <1>7, <3>2, <4>1 DEF WriterDies, AssetsTypeOK
    <3> QED BY <3>1, <3>2
  <2> QED BY <1>7, <2>2 DEF AssetsTypeOK, WriterDies
<1> QED BY <1>1, <1>2, <1>3, <1>4, <1>5, <1>6, <1>7 DEF WriterStep

\* What every step of a user, of time and of the collection of sessions does
\* to the assets and their files.
Aside ==
  Kept(asset, asset') /\ UNCHANGED <<variant, disk, queue, lost, work>>

LEMMA AsideType ==
  ASSUME AssetsTypeOK, Aside, session' \in [Sessions -> SessionState],
         streams' \in [Streams -> {"new", "ready", "deleted"}],
         cands' \in [Streams -> SUBSET (Assets \X (Presets \cup {Nothing}))],
         back' \in [Streams -> Assets \cup {Nothing}],
         pins' \in [Streams -> SUBSET Assets],
         preset' \in [Presets -> {Absent, Gone} \cup [owner : {"live", "deleted"}, asset : Assets]]
  PROVE  AssetsTypeOK'
BY DEF AssetsTypeOK, Aside, Kept

LEMMA ApplyType ==
  ASSUME AssetsTypeOK, NEW x \in Streams, ApplyVisual(x)
  PROVE  /\ session' \in [Sessions -> SessionState]
         /\ cands' \in [Streams -> SUBSET (Assets \X (Presets \cup {Nothing}))]
         /\ back' \in [Streams -> Assets \cup {Nothing}]
<1>1. UNCHANGED session => session' \in [Sessions -> SessionState]
  BY DEF AssetsTypeOK
<1>2. ASSUME NEW s \in Sessions, MayClaim(s, x), session' = ClaimDraft(s, x)
      PROVE  session' \in [Sessions -> SessionState]
  <2> DEFINE n == [owner |-> "stream", of |-> x, lapsed |-> session[s].lapsed]
  <2>1. session[s] \in SessionState /\ session[s].owner \in {"draft", "stream"}
    BY <1>2 DEF AssetsTypeOK, MayClaim, ValidDraft
  <2>2. session[s].lapsed \in BOOLEAN
    BY <2>1 DEF SessionState, Absent, Gone
  <2>3. n \in SessionState
    BY <2>2 DEF SessionState
  <2>4. session' = [session EXCEPT ![s] = n]
    BY <1>2 DEF ClaimDraft
  <2> HIDE DEF n
  <2> QED BY <2>3, <2>4 DEF AssetsTypeOK
<1>3. session' \in [Sessions -> SessionState]
  BY <1>1, <1>2, ApplyKept
<1>4. PICK cs \in SUBSET (Rows \X (Presets \cup {Nothing})), b \in Rows \cup {Nothing} : Save(x, cs, b)
  BY DEF ApplyVisual
<1>5. Rows \subseteq Assets
  BY DEF Rows
<1>6. cands' \in [Streams -> SUBSET (Assets \X (Presets \cup {Nothing}))]
  <2>1. cs \in SUBSET (Assets \X (Presets \cup {Nothing}))
    BY <1>5
  <2> QED BY <1>4, <2>1 DEF Save, AssetsTypeOK
<1>7. back' \in [Streams -> Assets \cup {Nothing}]
  BY <1>4, <1>5 DEF Save, AssetsTypeOK
<1> QED BY <1>3, <1>6, <1>7

LEMMA ClaimSessionType ==
  ASSUME AssetsTypeOK, NEW a \in Assets, asset[a] \in AssetRow
  PROVE  SessionsAfterClaim(a) \in [Sessions -> SessionState]
BY DEF SessionsAfterClaim, AssetsTypeOK, SessionState

LEMMA UserType ==
  ASSUME AssetsTypeOK, User PROVE Aside /\ AssetsTypeOK'
<1> USE DEF files, visuals
<1>1. CASE CreateUploadSession
  <2>1. NewId(session) \in Sessions
    BY <1>1, NewIdUnused DEF CreateUploadSession, AssetsTypeOK
  <2>2. [owner |-> "draft", lapsed |-> FALSE] \in SessionState
    BY DEF SessionState
  <2>3. session' \in [Sessions -> SessionState]
    BY <1>1, <2>1, <2>2 DEF CreateUploadSession, AssetsTypeOK
  <2>4. Aside
    BY <1>1, KeptSame DEF CreateUploadSession, Aside, AssetsTypeOK
  <2> QED BY <1>1, <2>3, <2>4, AsideType DEF CreateUploadSession, AssetsTypeOK
<1>2. ASSUME NEW a \in Assets, DeleteMediaAsset(a) PROVE Aside /\ AssetsTypeOK'
  <2>1. UNCHANGED <<session, variant, streams, cands, back, pins, disk, queue, lost, preset, work>>
    BY <1>2 DEF DeleteMediaAsset, SoftDeleteAsset, SoftDeleteDraftAsset
  <2>2. Aside
    BY <1>2, <2>1, SoftDeleteKept DEF Aside
  <2> QED BY <2>1, <2>2, AsideType DEF AssetsTypeOK
<1>3. ASSUME NEW x \in Streams, UpdateVisual(x) PROVE Aside /\ AssetsTypeOK'
  <2>1. ApplyVisual(x) /\ UNCHANGED <<variant, streams, pins, disk, queue, lost, preset, work>>
    BY <1>3 DEF UpdateVisual
  <2>2. Aside
    BY <2>1, ApplyKept DEF Aside
  <2> QED BY <2>1, <2>2, ApplyType, AsideType DEF AssetsTypeOK
<1>4. ASSUME NEW x \in Streams, CreateStream(x) PROVE Aside /\ AssetsTypeOK'
  <2>1. ApplyVisual(x) /\ UNCHANGED <<variant, pins, disk, queue, lost, preset, work>>
    BY <1>4 DEF CreateStream
  <2>2. Aside
    BY <2>1, ApplyKept DEF Aside
  <2>3. streams' \in [Streams -> {"new", "ready", "deleted"}]
    BY <1>4 DEF CreateStream, AssetsTypeOK
  <2> QED BY <2>1, <2>2, <2>3, ApplyType, AsideType DEF AssetsTypeOK
<1>5. ASSUME NEW x \in Streams, RetireStreamCoverAssets(x) PROVE Aside /\ AssetsTypeOK'
  <2>1. UNCHANGED <<session, variant, back, disk, queue, lost, preset, work>>
    BY <1>5 DEF RetireStreamCoverAssets
  <2>2. Aside
    BY <1>5, <2>1, RetiredKept DEF Aside
  <2>3. /\ streams' \in [Streams -> {"new", "ready", "deleted"}]
        /\ cands' \in [Streams -> SUBSET (Assets \X (Presets \cup {Nothing}))]
        /\ pins' \in [Streams -> SUBSET Assets]
    BY <1>5 DEF RetireStreamCoverAssets, AssetsTypeOK
  <2> QED BY <2>1, <2>2, <2>3, AsideType DEF AssetsTypeOK
<1>6. ASSUME NEW x \in Streams, NEW a \in Assets, PinCover(x, a) PROVE Aside /\ AssetsTypeOK'
  <2>1. UNCHANGED <<session, asset, variant, streams, cands, back, disk, queue, lost, preset, work>>
    BY <1>6 DEF PinCover
  <2>2. Aside
    BY <2>1, KeptSame DEF Aside, AssetsTypeOK
  <2>3. pins' \in [Streams -> SUBSET Assets]
    BY <1>6 DEF PinCover, AssetsTypeOK
  <2> QED BY <2>1, <2>2, <2>3, AsideType DEF AssetsTypeOK
<1>7. ASSUME NEW p \in Presets, DeletePreset(p) PROVE Aside /\ AssetsTypeOK'
  <2>1. UNCHANGED <<session, variant, streams, cands, back, pins, disk, queue, lost, work>>
    BY <1>7 DEF DeletePreset
  <2>2. Aside
    BY <1>7, <2>1, PresetKept DEF Aside
  <2>3. preset[p] \in [owner : {"live", "deleted"}, asset : Assets]
    BY <1>7 DEF DeletePreset, LivePresets, AssetsTypeOK, Absent, Gone
  <2>4. preset' \in [Presets -> {Absent, Gone} \cup [owner : {"live", "deleted"}, asset : Assets]]
    BY <1>7, <2>3 DEF DeletePreset, AssetsTypeOK
  <2> QED BY <2>1, <2>2, <2>4, AsideType DEF AssetsTypeOK
<1>8. ASSUME NEW p \in Presets, NEW a \in Assets, CreatePreset(p, a) PROVE Aside /\ AssetsTypeOK'
  <2>1. UNCHANGED <<variant, streams, cands, back, pins, disk, queue, lost, work>>
    BY <1>8 DEF CreatePreset
  <2>2. Aside
    BY <1>8, <2>1, PresetKept DEF Aside
  <2>3. asset[a] \in AssetRow /\ session' = SessionsAfterClaim(a)
    BY <1>8, UndeletedRow DEF CreatePreset, PresetAssetValid
  <2>4. preset' \in [Presets -> {Absent, Gone} \cup [owner : {"live", "deleted"}, asset : Assets]]
    BY <1>8 DEF CreatePreset, AssetsTypeOK
  <2> QED BY <2>1, <2>2, <2>3, <2>4, ClaimSessionType, AsideType DEF AssetsTypeOK
<1>9. ASSUME NEW p \in Presets, NEW a \in Assets, UpdatePreset(p, a) PROVE Aside /\ AssetsTypeOK'
  <2>1. UNCHANGED <<variant, streams, cands, back, pins, disk, queue, lost, work>>
    BY <1>9 DEF UpdatePreset
  <2>2. Aside
    BY <1>9, <2>1, PresetKept DEF Aside
  <2>3. asset[a] \in AssetRow /\ session' = SessionsAfterClaim(a)
    BY <1>9, UndeletedRow DEF UpdatePreset, PresetAssetValid
  <2>4. preset[p] \in [owner : {"live", "deleted"}, asset : Assets]
    BY <1>9 DEF UpdatePreset, LivePresets, AssetsTypeOK, Absent, Gone
  <2>5. preset' \in [Presets -> {Absent, Gone} \cup [owner : {"live", "deleted"}, asset : Assets]]
    BY <1>9, <2>4 DEF UpdatePreset, AssetsTypeOK
  <2> QED BY <2>1, <2>2, <2>3, <2>5, ClaimSessionType, AsideType DEF AssetsTypeOK
<1> QED BY <1>1, <1>2, <1>3, <1>4, <1>5, <1>6, <1>7, <1>8, <1>9 DEF User

LEMMA TimeType ==
  ASSUME AssetsTypeOK, Time PROVE Aside /\ AssetsTypeOK'
<1> USE DEF files, visuals
<1>1. ASSUME NEW s \in Sessions, LapseSession(s) PROVE Aside /\ AssetsTypeOK'
  <2>1. session[s] \in SessionState \ {Absent, Gone}
    BY <1>1 DEF LapseSession, AssetsTypeOK
  <2>2. [session[s] EXCEPT !.lapsed = TRUE] \in SessionState
    BY <2>1 DEF SessionState
  <2>3. session' \in [Sessions -> SessionState]
    BY <1>1, <2>2 DEF LapseSession, AssetsTypeOK
  <2>4. Aside
    BY <1>1, KeptSame DEF LapseSession, Aside, AssetsTypeOK
  <2> QED BY <1>1, <2>3, <2>4, AsideType DEF LapseSession, AssetsTypeOK
<1>2. ASSUME NEW a \in Assets, LapseRetention(a) PROVE Aside /\ AssetsTypeOK'
  <2>1. UNCHANGED <<session, variant, streams, cands, back, pins, disk, queue, lost, preset, work>>
    BY <1>2 DEF LapseRetention
  <2>2. Aside
    BY <1>2, <2>1, LapseKept DEF Aside
  <2> QED BY <2>1, <2>2, AsideType DEF AssetsTypeOK
<1> QED BY <1>1, <1>2 DEF Time

LEMMA SessionsType ==
  ASSUME AssetsTypeOK, CollectSessions PROVE Aside /\ AssetsTypeOK'
<1> USE DEF files, visuals
<1>1. UNCHANGED <<variant, streams, cands, back, pins, disk, queue, lost, preset, work>>
  BY DEF CollectSessions
<1>2. Aside
  BY <1>1, SessionsKept DEF Aside
<1>3. session' \in [Sessions -> SessionState]
  BY DEF CollectSessions, AssetsTypeOK, SessionState
<1> QED BY <1>1, <1>2, <1>3, AsideType DEF AssetsTypeOK

LEMMA CollectType ==
  ASSUME AssetsTypeOK, GarbageCollect PROVE AssetsTypeOK'
<1> USE DEF files, visuals
<1>1. ASSUME NEW a \in Assets, DeleteUnreferencedAsset(a) PROVE AssetsTypeOK'
  <2>1. asset[a].content \in Contents
    BY <1>1, RowType DEF DeleteUnreferencedAsset, AssetRow
  <2>2. KeysOf(a) \subseteq Contents \X {"original", "variant"}
    BY <2>1 DEF KeysOf, Original, Processed
  <2>3. queue' \subseteq Contents \X {"original", "variant"}
    BY <1>1, <2>2 DEF DeleteUnreferencedAsset, AssetsTypeOK
  <2>4. preset' \in [Presets -> {Absent, Gone} \cup [owner : {"live", "deleted"}, asset : Assets]]
    BY <1>1 DEF DeleteUnreferencedAsset, AssetsTypeOK
  <2>5. asset' \in [Assets -> AssetState]
    BY <1>1 DEF DeleteUnreferencedAsset, AssetsTypeOK, AssetState
  <2> QED BY <1>1, <2>3, <2>4, <2>5 DEF DeleteUnreferencedAsset, AssetsTypeOK
<1>2. ASSUME NEW k \in queue, CollectFileDeletion(k) PROVE AssetsTypeOK'
  <2>1. disk' \subseteq disk /\ queue' \subseteq queue /\ lost' \subseteq lost
    BY <1>2 DEF CollectFileDeletion
  <2> QED BY <1>2, <2>1 DEF CollectFileDeletion, AssetsTypeOK
<1> QED BY <1>1, <1>2, SessionsType DEF GarbageCollect

(* The tables, the files and the writers keep their types. *)
THEOREM AssetsTypeCorrect == AssetsSpec => []AssetsTypeOK
<1>1. AssetsInit => AssetsTypeOK
  BY DEF AssetsInit, AssetsTypeOK, AssetState, SessionState
<1>2. AssetsTypeOK /\ [AssetsNext]_assetVars => AssetsTypeOK'
  <2> SUFFICES ASSUME AssetsTypeOK, [AssetsNext]_assetVars PROVE AssetsTypeOK'
    OBVIOUS
  <2>1. CASE UNCHANGED assetVars
    BY <2>1 DEF assetVars, AssetsTypeOK
  <2> QED BY <2>1, WriterType, UserType, TimeType, CollectType DEF AssetsNext
<1> QED BY <1>1, <1>2, PTL DEF AssetsSpec

-----------------------------------------------------------------------------
(* Rows, files and the references to them.                                  *)

\* Only a row has a variant.
VariantsOK == \A a \in Assets : a \notin Rows => variant[a] = "none"

\* The asset a writer makes a variant of.
Converts(w, a) == work[w].job \in {"convert", "variant"} /\ work[w].asset = a

\* A writer knows the content of the row it works for, and no other writer
\* works for it; the row may be gone meanwhile.
WriterOK(w) ==
  /\ work[w].job = "upload" => work[w].key = Original(work[w].content)
  /\ \A a \in Assets : Converts(w, a) =>
       /\ asset[a] # Absent
       /\ \A v \in Workers : Converts(v, a) => v = w
       /\ a \in Rows => /\ variant[a] = "processing"
                        /\ work[w].job = "convert" => work[w].content = asset[a].content
                        /\ work[w].job = "variant" => work[w].key = Processed(asset[a].content)

WritersOK == \A w \in Workers : WriterOK(w)

FilesInv == AssetsTypeOK /\ VariantsOK /\ WritersOK /\ RowsHaveFiles /\ FilesAccounted

LEMMA KeysSame ==
  ASSUME AssetsTypeOK, Aside
  PROVE  Rows' = Rows /\ (\A a \in Rows : KeysOf(a)' = KeysOf(a)) /\ \A k : References(k)' = References(k)
<1>1. Rows' = Rows /\ \A a \in Rows : asset'[a].content = asset[a].content
  BY KeptRows DEF Aside
<1>2. \A a \in Rows : KeysOf(a)' = KeysOf(a)
  BY <1>1 DEF Aside, KeysOf, Original, Processed
<1> QED BY <1>1, <1>2 DEF References

LEMMA AsideFiles ==
  ASSUME FilesInv, Aside PROVE VariantsOK' /\ WritersOK' /\ RowsHaveFiles' /\ FilesAccounted'
<1>0. AssetsTypeOK
  BY DEF FilesInv
<1>1. /\ Rows' = Rows /\ \A a \in Rows : KeysOf(a)' = KeysOf(a)
      /\ \A k : References(k)' = References(k)
  BY <1>0, KeysSame
<1>2. UNCHANGED <<variant, disk, queue, lost, work>>
  BY DEF Aside
<1>3. \A a \in Rows : asset'[a].content = asset[a].content
  BY <1>0, KeptRows DEF Aside
<1>4. \A a \in Assets : asset[a] # Absent => asset'[a] # Absent
  BY NoRow DEF Aside, Kept
<1>5. VariantsOK'
  BY <1>1, <1>2 DEF FilesInv, VariantsOK
<1>6. WritersOK'
  BY <1>1, <1>2, <1>3, <1>4 DEF FilesInv, WritersOK, WriterOK, Converts, Original, Processed
<1>7. RowsHaveFiles'
  BY <1>1, <1>2 DEF FilesInv, RowsHaveFiles
<1>8. FilesAccounted'
  BY <1>1, <1>2 DEF FilesInv, FilesAccounted
<1> QED BY <1>5, <1>6, <1>7, <1>8

LEMMA OtherWriters ==
  ASSUME WritersOK, NEW v \in Workers, work'[v] = work[v],
         \A a \in Assets : Converts(v, a) => asset'[a] = asset[a] /\ variant'[a] = variant[a],
         \A u \in Workers, a \in Assets : Converts(v, a) /\ Converts(u, a)' => u = v
  PROVE  WriterOK(v)'
<1>1. WriterOK(v)
  BY DEF WritersOK
<1>2. \A a : Converts(v, a)' <=> Converts(v, a)
  BY DEF Converts
<1>3. ASSUME NEW a \in Assets, Converts(v, a)
      PROVE  /\ asset'[a] # Absent
             /\ \A u \in Workers : Converts(u, a)' => u = v
             /\ a \in Rows' => /\ variant'[a] = "processing"
                               /\ work'[v].job = "convert" => work'[v].content = asset'[a].content
                               /\ work'[v].job = "variant" => work'[v].key = Processed(asset'[a].content)
  <2>1. asset'[a] = asset[a] /\ variant'[a] = variant[a] /\ (a \in Rows' <=> a \in Rows)
    BY <1>3 DEF Rows
  <2> QED BY <1>1, <1>3, <2>1 DEF WriterOK
<1> QED BY <1>1, <1>2, <1>3 DEF WriterOK

\* The writers once w has none or another job for the same row, the rows and
\* their variants being as before.
LEMMA WriterMoves ==
  ASSUME FilesInv, NEW w \in Workers, NEW j, work' = [work EXCEPT ![w] = j],
         UNCHANGED asset,
         \A a \in Assets : variant'[a] # variant[a] => Converts(w, a),
         j.job \in {"idle", "upload"} \/ \E a \in Assets : Converts(w, a) /\ j.asset = a,
         WriterOK(w)'
  PROVE  WritersOK'
<1>0. AssetsTypeOK /\ WritersOK
  BY DEF FilesInv
<1>1. work'[w] = j /\ \A v \in Workers : v # w => work'[v] = work[v]
  BY <1>0 DEF AssetsTypeOK
<1>2. ASSUME NEW v \in Workers, v # w PROVE WriterOK(v)'
  <2>1. work'[v] = work[v]
    BY <1>1, <1>2
  <2>2. \A a \in Assets : Converts(v, a) => ~Converts(w, a)
    BY <1>0, <1>2 DEF WritersOK, WriterOK
  <2>3. ASSUME NEW u \in Workers, NEW a \in Assets, Converts(v, a), Converts(u, a)' PROVE u = v
    <3>1. CASE u = w
      <4>1. Converts(w, a)
        BY <1>1, <2>3, <3>1 DEF Converts
      <4> QED BY <2>2, <2>3, <4>1
    <3>2. CASE u # w
      <4>1. Converts(u, a)
        BY <1>1, <2>3, <3>2 DEF Converts
      <4> QED BY <1>0, <2>3, <4>1 DEF WritersOK, WriterOK
    <3> QED BY <3>1, <3>2
  <2>4. \A a \in Assets : Converts(v, a) => asset'[a] = asset[a] /\ variant'[a] = variant[a]
    BY <2>2
  <2> QED BY <1>0, <2>1, <2>3, <2>4, OtherWriters
<1> QED BY <1>2 DEF WritersOK

\* A file is accounted for.
Accounted(k) == \/ References(k) # {} \/ k \in queue \/ k \in lost
                \/ \E w \in Workers : work[w].job \in {"upload", "variant"} /\ work[w].key = k

LEMMA AccountedAll == FilesAccounted <=> \A k \in disk : Accounted(k)
BY DEF FilesAccounted, Accounted

\* Rows, variants that are ready and so the references stay.
LEMMA SameKeys ==
  ASSUME UNCHANGED asset, \A a \in Assets : variant'[a] = "ready" <=> variant[a] = "ready"
  PROVE  Rows' = Rows /\ (\A a \in Rows : KeysOf(a)' = KeysOf(a)) /\ \A k : References(k)' = References(k)
<1>1. Rows' = Rows
  BY DEF Rows
<1>2. \A a \in Rows : KeysOf(a)' = KeysOf(a)
  BY DEF KeysOf, Original, Processed, Rows
<1> QED BY <1>1, <1>2 DEF References

LEMMA UploadFiles ==
  ASSUME FilesInv, NEW w \in Workers, NEW s \in Sessions, NEW c \in Contents,
         NEW u \in {"video_cover", "scene_background"}, Upload(w, s, c, u)
  PROVE  VariantsOK' /\ WritersOK' /\ RowsHaveFiles' /\ FilesAccounted'
<1> USE DEF files, visuals
<1> DEFINE k0 == Original(c)
           j == [job |-> "upload", session |-> s, usage |-> u, content |-> c, key |-> Original(c)]
<1>0. AssetsTypeOK /\ VariantsOK /\ RowsHaveFiles /\ FilesAccounted
  BY DEF FilesInv
<1>1. /\ work[w] = NoWork /\ work' = [work EXCEPT ![w] = j] /\ disk' = disk \cup {k0}
      /\ UNCHANGED <<asset, variant, queue, lost>>
  BY DEF Upload, WriteContentAddressed
<1>2. j.job = "upload" /\ j.key = Original(j.content) /\ j.key = k0
  OBVIOUS
<1> HIDE DEF j, k0
<1>3. work'[w] = j /\ \A v \in Workers : v # w => work'[v] = work[v]
  BY <1>0, <1>1 DEF AssetsTypeOK
<1>4. WriterOK(w)'
  BY <1>2, <1>3 DEF WriterOK, Converts
<1>5. WritersOK'
  BY <1>1, <1>2, <1>4, WriterMoves
<1>6. Rows' = Rows /\ (\A a \in Rows : KeysOf(a)' = KeysOf(a)) /\ \A k : References(k)' = References(k)
  BY <1>1, SameKeys
<1>7. VariantsOK' /\ RowsHaveFiles'
  BY <1>0, <1>1, <1>6 DEF VariantsOK, RowsHaveFiles
<1>8. ASSUME NEW k \in disk' PROVE Accounted(k)'
  <2>1. CASE k = k0
    BY <1>2, <1>3, <2>1 DEF Accounted
  <2>2. CASE k \in disk
    <3>1. Accounted(k)
      BY <1>0, <2>2, AccountedAll
    <3>2. work[w].job = "idle"
      BY <1>1 DEF NoWork
    <3> QED BY <1>1, <1>3, <1>6, <3>1, <3>2 DEF Accounted
  <2> QED BY <1>1, <1>8, <2>1, <2>2
<1>9. FilesAccounted'
  BY <1>8 DEF FilesAccounted, Accounted
<1> QED BY <1>5, <1>7, <1>9

LEMMA StartFiles ==
  ASSUME FilesInv, NEW w \in Workers, NEW a \in Assets, StartVariant(w, a)
  PROVE  VariantsOK' /\ WritersOK' /\ RowsHaveFiles' /\ FilesAccounted'
<1> USE DEF files, visuals
<1> DEFINE j == [job |-> "convert", asset |-> a, content |-> asset[a].content]
<1>0. AssetsTypeOK /\ VariantsOK /\ WritersOK /\ RowsHaveFiles /\ FilesAccounted
  BY DEF FilesInv
<1>1. /\ work[w] = NoWork /\ work' = [work EXCEPT ![w] = j] /\ a \in Rows /\ variant[a] = "none"
      /\ variant' = [variant EXCEPT ![a] = "processing"] /\ UNCHANGED <<asset, disk, queue, lost>>
  BY DEF StartVariant, Undeleted
<1>2. j.job = "convert" /\ j.asset = a /\ j.content = asset[a].content
  OBVIOUS
<1> HIDE DEF j
<1>3. work'[w] = j /\ (\A v \in Workers : v # w => work'[v] = work[v]) /\ work[w].job = "idle"
  BY <1>0, <1>1 DEF AssetsTypeOK, NoWork
<1>4. variant'[a] = "processing" /\ \A b \in Assets : b # a => variant'[b] = variant[b]
  BY <1>0, <1>1 DEF AssetsTypeOK
<1>5. \A v \in Workers : ~Converts(v, a)
  BY <1>0, <1>1 DEF WritersOK, WriterOK
<1>6. Rows' = Rows /\ (\A b \in Rows : KeysOf(b)' = KeysOf(b)) /\ \A k : References(k)' = References(k)
  BY <1>1, <1>4, SameKeys
<1>7. WriterOK(w)'
  <2>1. \A v \in Workers : Converts(v, a)' => v = w
    BY <1>3, <1>5 DEF Converts
  <2>2. asset'[a] # Absent
    BY <1>1 DEF Rows
  <2>3. \A b \in Assets : Converts(w, b)' => b = a
    BY <1>2, <1>3 DEF Converts
  <2> QED BY <1>1, <1>2, <1>3, <1>4, <2>1, <2>2, <2>3 DEF WriterOK
<1>8. ASSUME NEW v \in Workers, v # w PROVE WriterOK(v)'
  <2>1. work'[v] = work[v] /\ ~Converts(v, a)
    BY <1>3, <1>5, <1>8
  <2>2. \A b \in Assets : Converts(v, b) => asset'[b] = asset[b] /\ variant'[b] = variant[b]
    BY <1>1, <1>4, <2>1
  <2>3. ASSUME NEW u \in Workers, NEW b \in Assets, Converts(v, b), Converts(u, b)' PROVE u = v
    <3>1. u # w
      BY <1>2, <1>3, <2>1, <2>3 DEF Converts
    <3>2. Converts(u, b)
      BY <1>3, <2>3, <3>1 DEF Converts
    <3> QED BY <1>0, <2>3, <3>2 DEF WritersOK, WriterOK
  <2> QED BY <1>0, <2>1, <2>2, <2>3, OtherWriters
<1>9. VariantsOK' /\ RowsHaveFiles'
  BY <1>0, <1>1, <1>4, <1>6 DEF VariantsOK, RowsHaveFiles
<1>10. FilesAccounted'
  <2>1. \A k \in disk : Accounted(k)
    BY <1>0, AccountedAll
  <2>2. \A k \in disk' : Accounted(k)'
    BY <1>1, <1>3, <1>6, <2>1 DEF Accounted
  <2> QED BY <2>2 DEF FilesAccounted, Accounted
<1> QED BY <1>7, <1>8, <1>9, <1>10 DEF WritersOK

LEMMA ConvertFiles ==
  ASSUME FilesInv, NEW w \in Workers, CreateVariant(w)
  PROVE  VariantsOK' /\ WritersOK' /\ RowsHaveFiles' /\ FilesAccounted'
<1> USE DEF files, visuals
<1>0. AssetsTypeOK /\ VariantsOK /\ WritersOK /\ RowsHaveFiles /\ FilesAccounted
  BY DEF FilesInv
<1>1. work[w].job = "convert" /\ work[w].asset \in Assets /\ UNCHANGED <<asset, queue, lost>>
  <2>1. work[w] \in Converting
    BY <1>0, JobType DEF CreateVariant
  <2> QED BY <2>1 DEF CreateVariant, Converting
<1>a. PICK a \in Assets : a = work[w].asset
  BY <1>1
<1>2. a \in Assets /\ Converts(w, a)
  BY <1>1, <1>a DEF Converts
<1>3. /\ asset[a] # Absent /\ \A v \in Workers : Converts(v, a) => v = w
      /\ a \in Rows => variant[a] = "processing" /\ work[w].content = asset[a].content
  BY <1>0, <1>1, <1>2 DEF WritersOK, WriterOK
<1>4. \A k \in disk : Accounted(k)
  BY <1>0, AccountedAll
<1>5. ASSUME disk' = disk \cup {Processed(work[w].content)}, UNCHANGED variant,
             work' = [work EXCEPT ![w] = [job |-> "variant", asset |-> work[w].asset,
                                          key |-> Processed(work[w].content)]]
      PROVE  VariantsOK' /\ WritersOK' /\ RowsHaveFiles' /\ FilesAccounted'
  <2>a. PICK k0 : k0 = Processed(work[w].content)
    OBVIOUS
  <2> DEFINE j == [job |-> "variant", asset |-> a, key |-> k0]
  <2>1. j.job = "variant" /\ j.asset = a /\ j.key = k0
    OBVIOUS
  <2>2. work' = [work EXCEPT ![w] = j] /\ disk' = disk \cup {k0}
    BY <1>5, <1>a, <2>a
  <2>3. a \in Rows => k0 = Processed(asset[a].content)
    BY <1>3, <2>a
  <2> HIDE DEF j
  <2>4. work'[w] = j /\ \A v \in Workers : v # w => work'[v] = work[v]
    BY <1>0, <2>2 DEF AssetsTypeOK
  <2>5. Rows' = Rows /\ (\A b \in Rows : KeysOf(b)' = KeysOf(b)) /\ \A k : References(k)' = References(k)
    BY <1>1, <1>5, SameKeys
  <2>6. WriterOK(w)'
    <3>1. \A v \in Workers : Converts(v, a)' => v = w
      BY <1>3, <2>4 DEF Converts
    <3>2. \A b \in Assets : Converts(w, b)' => b = a
      BY <2>1, <2>4 DEF Converts
    <3>3. asset'[a] = asset[a] /\ variant'[a] = variant[a]
      BY <1>1, <1>5
    <3> QED BY <1>3, <2>1, <2>3, <2>4, <2>5, <3>1, <3>2, <3>3 DEF WriterOK
  <2>7. WritersOK'
    BY <1>1, <1>2, <1>5, <2>1, <2>2, <2>6, WriterMoves
  <2>8. VariantsOK' /\ RowsHaveFiles'
    BY <1>0, <1>5, <2>2, <2>5 DEF VariantsOK, RowsHaveFiles
  <2>9. \A k \in disk' : Accounted(k)'
    <3>1. Accounted(k0)'
      BY <2>1, <2>4 DEF Accounted
    <3>2. \A k \in disk : Accounted(k)'
      BY <1>1, <1>4, <2>4, <2>5 DEF Accounted
    <3> QED BY <2>2, <3>1, <3>2
  <2> QED BY <2>7, <2>8, <2>9 DEF FilesAccounted, Accounted
<1>6. ASSUME UNCHANGED disk, work' = [work EXCEPT ![w] = NoWork],
             variant' = IF work[w].asset \in Rows THEN [variant EXCEPT ![work[w].asset] = "failed"]
                        ELSE variant
      PROVE  VariantsOK' /\ WritersOK' /\ RowsHaveFiles' /\ FilesAccounted'
  <2>1. /\ a \in Rows => variant'[a] = "failed"
        /\ a \notin Rows => variant'[a] = variant[a]
        /\ \A b \in Assets : b # a => variant'[b] = variant[b]
    BY <1>0, <1>6, <1>a DEF AssetsTypeOK
  <2>2. work'[w] = NoWork /\ \A v \in Workers : v # w => work'[v] = work[v]
    BY <1>0, <1>6 DEF AssetsTypeOK
  <2>3. \A b \in Assets : variant'[b] = "ready" <=> variant[b] = "ready"
    BY <1>3, <2>1
  <2>4. Rows' = Rows /\ (\A b \in Rows : KeysOf(b)' = KeysOf(b)) /\ \A k : References(k)' = References(k)
    BY <1>1, <2>3, SameKeys
  <2>5. WriterOK(w)'
    BY <2>2 DEF WriterOK, Converts, NoWork
  <2>6. WritersOK'
    <3>1. NoWork.job = "idle"
      BY DEF NoWork
    <3>2. \A b \in Assets : variant'[b] # variant[b] => Converts(w, b)
      BY <1>2, <2>1
    <3> QED BY <1>1, <1>6, <2>5, <3>1, <3>2, WriterMoves
  <2>7. VariantsOK' /\ RowsHaveFiles'
    BY <1>0, <1>6, <2>1, <2>4 DEF VariantsOK, RowsHaveFiles
  <2>8. \A k \in disk' : Accounted(k)'
    BY <1>1, <1>4, <1>6, <2>2, <2>4 DEF Accounted
  <2> QED BY <2>6, <2>7, <2>8 DEF FilesAccounted, Accounted
<1> QED BY <1>5, <1>6 DEF CreateVariant, WriteContentAddressed

LEMMA PublishFiles ==
  ASSUME FilesInv, NEW w \in Workers, PublishUpload(w)
  PROVE  VariantsOK' /\ WritersOK' /\ RowsHaveFiles' /\ FilesAccounted'
<1> USE DEF files, visuals
<1>0. AssetsTypeOK /\ VariantsOK /\ WritersOK /\ RowsHaveFiles /\ FilesAccounted
  BY DEF FilesInv
<1>a. PICK n : n = NewId(asset)
  OBVIOUS
<1>b. PICK k0 : k0 = work[w].key
  OBVIOUS
<1> DEFINE r == [owner |-> "draft", of |-> work[w].session, session |-> work[w].session,
                 content |-> work[w].content, usage |-> work[w].usage, deleted |-> FALSE,
                 retention |-> "none"]
<1>1. /\ work[w].job = "upload" /\ n \in Assets /\ asset[n] = Absent /\ k0 \in disk
      /\ asset' = [asset EXCEPT ![n] = r] /\ queue' = queue \ {k0}
      /\ work' = [work EXCEPT ![w] = NoWork] /\ UNCHANGED <<variant, disk, lost>>
  BY <1>0, <1>a, <1>b, NewIdUnused DEF PublishUpload, Verify, AssetsTypeOK
<1>2. /\ r.content = work[w].content /\ k0 = Original(r.content) /\ r \notin {Absent, Gone}
  BY <1>0, <1>1, <1>b DEF WritersOK, WriterOK, Absent, Gone
<1> HIDE DEF r
<1>3. asset'[n] = r /\ \A b \in Assets : b # n => asset'[b] = asset[b]
  BY <1>0, <1>1 DEF AssetsTypeOK
<1>4. work'[w] = NoWork /\ \A v \in Workers : v # w => work'[v] = work[v]
  BY <1>0, <1>1 DEF AssetsTypeOK
<1>5. Rows' = Rows \cup {n} /\ n \notin Rows
  BY <1>1, <1>2, <1>3 DEF Rows
<1>6. \A b \in Rows : KeysOf(b)' = KeysOf(b)
  BY <1>1, <1>3, <1>5 DEF KeysOf, Original, Processed, Rows
<1>7. variant'[n] = "none"
  BY <1>0, <1>1, <1>5 DEF VariantsOK
<1>8. KeysOf(n)' = {k0}
  BY <1>2, <1>3, <1>7 DEF KeysOf, Original, Processed
<1>9. VariantsOK'
  BY <1>0, <1>1, <1>5 DEF VariantsOK
<1>10. RowsHaveFiles'
  BY <1>0, <1>1, <1>5, <1>6, <1>8 DEF RowsHaveFiles
<1>11. WritersOK'
  <2>1. WriterOK(w)'
    BY <1>4 DEF WriterOK, Converts, NoWork
  <2>2. ASSUME NEW v \in Workers, v # w PROVE WriterOK(v)'
    <3>1. ~Converts(v, n)
      BY <1>0, <1>1 DEF WritersOK, WriterOK
    <3>2. \A b \in Assets : Converts(v, b) => asset'[b] = asset[b] /\ variant'[b] = variant[b]
      BY <1>1, <1>3, <3>1
    <3>3. ASSUME NEW u \in Workers, NEW b \in Assets, Converts(v, b), Converts(u, b)' PROVE u = v
      <4>1. u # w
        BY <1>4, <3>3 DEF Converts, NoWork
      <4>2. Converts(u, b)
        BY <1>4, <3>3, <4>1 DEF Converts
      <4> QED BY <1>0, <3>3, <4>2 DEF WritersOK, WriterOK
    <3>4. work'[v] = work[v]
      BY <1>4, <2>2
    <3> QED BY <1>0, <3>2, <3>3, <3>4, OtherWriters
  <2> QED BY <2>1, <2>2 DEF WritersOK
<1>12. \A k \in disk' : Accounted(k)'
  <2>1. Accounted(k0)'
    BY <1>5, <1>8 DEF Accounted, References
  <2>2. ASSUME NEW k \in disk, k # k0 PROVE Accounted(k)'
    <3>1. Accounted(k)
      BY <1>0, <2>2, AccountedAll
    <3>2. References(k) # {} => References(k)' # {}
      BY <1>5, <1>6 DEF References
    <3> QED BY <1>1, <1>4, <1>b, <2>2, <3>1, <3>2 DEF Accounted
  <2> QED BY <1>1, <2>1, <2>2
<1> QED BY <1>9, <1>10, <1>11, <1>12 DEF FilesAccounted, Accounted

LEMMA ReadyFiles ==
  ASSUME FilesInv, NEW w \in Workers, PublishVariant(w)
  PROVE  VariantsOK' /\ WritersOK' /\ RowsHaveFiles' /\ FilesAccounted'
<1> USE DEF files, visuals
<1>0. AssetsTypeOK /\ VariantsOK /\ WritersOK /\ RowsHaveFiles /\ FilesAccounted
  BY DEF FilesInv
<1>1. work[w].job = "variant" /\ work[w].asset \in Assets /\ work[w].asset \in Rows
  <2>1. work[w] \in Converted
    BY <1>0, JobType DEF PublishVariant
  <2> QED BY <2>1 DEF PublishVariant, Converted, Undeleted
<1>a. PICK a \in Assets : a = work[w].asset
  BY <1>1
<1>b. PICK k0 : k0 = work[w].key
  OBVIOUS
<1>2. /\ a \in Rows /\ Converts(w, a) /\ k0 \in disk /\ k0 = Processed(asset[a].content)
      /\ variant' = [variant EXCEPT ![a] = "ready"] /\ queue' = queue \ {k0}
      /\ work' = [work EXCEPT ![w] = NoWork] /\ UNCHANGED <<asset, disk, lost>>
  <2>1. a \in Rows /\ Converts(w, a)
    BY <1>1, <1>a DEF Converts
  <2>2. k0 = Processed(asset[a].content)
    BY <1>0, <1>1, <1>b, <2>1 DEF WritersOK, WriterOK
  <2> QED BY <1>a, <1>b, <2>1, <2>2 DEF PublishVariant, Verify
<1>3. variant'[a] = "ready" /\ \A b \in Assets : b # a => variant'[b] = variant[b]
  BY <1>0, <1>2 DEF AssetsTypeOK
<1>4. work'[w] = NoWork /\ \A v \in Workers : v # w => work'[v] = work[v]
  BY <1>0, <1>2 DEF AssetsTypeOK
<1>5. Rows' = Rows
  BY <1>2 DEF Rows
<1>6. \A b \in Rows : KeysOf(b) \subseteq KeysOf(b)' /\ (b # a => KeysOf(b)' = KeysOf(b))
  BY <1>2, <1>3 DEF KeysOf, Original, Processed, Rows
<1>7. KeysOf(a)' = {Original(asset[a].content), k0}
  BY <1>2, <1>3 DEF KeysOf, Original, Processed
<1>8. VariantsOK'
  BY <1>0, <1>2, <1>3, <1>5 DEF VariantsOK
<1>9. RowsHaveFiles'
  <2>1. Original(asset[a].content) \in disk
    BY <1>0, <1>2 DEF RowsHaveFiles, KeysOf
  <2> QED BY <1>0, <1>2, <1>5, <1>6, <1>7, <2>1 DEF RowsHaveFiles
<1>10. WritersOK'
  <2>1. WriterOK(w)'
    BY <1>4 DEF WriterOK, Converts, NoWork
  <2>2. NoWork.job = "idle"
    BY DEF NoWork
  <2> QED BY <1>2, <1>3, <2>1, <2>2, WriterMoves
<1>11. \A k \in disk' : Accounted(k)'
  <2>1. Accounted(k0)'
    BY <1>2, <1>5, <1>7 DEF Accounted, References
  <2>2. ASSUME NEW k \in disk, k # k0 PROVE Accounted(k)'
    <3>1. Accounted(k)
      BY <1>0, <2>2, AccountedAll
    <3>2. References(k) # {} => References(k)' # {}
      BY <1>5, <1>6 DEF References
    <3> QED BY <1>2, <1>4, <1>b, <2>2, <3>1, <3>2 DEF Accounted
  <2> QED BY <1>2, <2>1, <2>2
<1> QED BY <1>8, <1>9, <1>10, <1>11 DEF FilesAccounted, Accounted

\* A writer that ends leaves its file to the collector, or is lost with it.
LEMMA EndFiles ==
  ASSUME FilesInv, NEW w \in Workers, FailToPublish(w) \/ WriterDies(w)
  PROVE  VariantsOK' /\ WritersOK' /\ RowsHaveFiles' /\ FilesAccounted'
<1> USE DEF files, visuals
<1>0. AssetsTypeOK /\ VariantsOK /\ WritersOK /\ RowsHaveFiles /\ FilesAccounted
  BY DEF FilesInv
<1>1. /\ UNCHANGED <<asset, variant, disk>> /\ work' = [work EXCEPT ![w] = NoWork]
      /\ queue \subseteq queue' /\ lost \subseteq lost'
      /\ work[w].job \in {"upload", "variant"} => work[w].key \in queue' \cup lost'
  BY DEF FailToPublish, WriterDies, QueueUnpublishedFile
<1>2. work'[w] = NoWork /\ \A v \in Workers : v # w => work'[v] = work[v]
  BY <1>0, <1>1 DEF AssetsTypeOK
<1>3. Rows' = Rows /\ (\A a \in Rows : KeysOf(a)' = KeysOf(a)) /\ \A k : References(k)' = References(k)
  BY <1>1, SameKeys
<1>4. WritersOK'
  <2>1. WriterOK(w)'
    BY <1>2 DEF WriterOK, Converts, NoWork
  <2>2. NoWork.job = "idle"
    BY DEF NoWork
  <2> QED BY <1>1, <2>1, <2>2, WriterMoves
<1>5. VariantsOK' /\ RowsHaveFiles'
  BY <1>0, <1>1, <1>3 DEF VariantsOK, RowsHaveFiles
<1>6. \A k \in disk : Accounted(k)
  BY <1>0, AccountedAll
<1>7. \A k \in disk' : Accounted(k)'
  BY <1>1, <1>2, <1>3, <1>6 DEF Accounted
<1> QED BY <1>4, <1>5, <1>7 DEF FilesAccounted, Accounted

LEMMA RemoveFiles ==
  ASSUME FilesInv, NEW a \in Assets, DeleteUnreferencedAsset(a)
  PROVE  VariantsOK' /\ WritersOK' /\ RowsHaveFiles' /\ FilesAccounted'
<1> USE DEF files, visuals
<1>0. AssetsTypeOK /\ VariantsOK /\ WritersOK /\ RowsHaveFiles /\ FilesAccounted
  BY DEF FilesInv
<1>1. /\ a \in Rows /\ asset' = [asset EXCEPT ![a] = Gone]
      /\ variant' = [variant EXCEPT ![a] = "none"] /\ queue' = queue \cup KeysOf(a)
      /\ UNCHANGED <<disk, lost, work>>
  BY DEF DeleteUnreferencedAsset
<1>2. /\ asset'[a] = Gone /\ variant'[a] = "none"
      /\ \A b \in Assets : b # a => asset'[b] = asset[b] /\ variant'[b] = variant[b]
  BY <1>0, <1>1 DEF AssetsTypeOK
<1>3. Rows' = Rows \ {a}
  BY <1>2 DEF Rows
<1>4. \A b \in Rows' : KeysOf(b)' = KeysOf(b)
  BY <1>2, <1>3 DEF KeysOf, Original, Processed, Rows
<1>5. VariantsOK'
  BY <1>0, <1>2, <1>3 DEF VariantsOK
<1>6. RowsHaveFiles'
  BY <1>0, <1>1, <1>3, <1>4 DEF RowsHaveFiles
<1>7. ASSUME NEW w \in Workers PROVE WriterOK(w)'
  <2>1. WriterOK(w) /\ work' = work
    BY <1>0, <1>1 DEF WritersOK
  <2>2. \A v, b : Converts(v, b)' <=> Converts(v, b)
    BY <1>1 DEF Converts
  <2>3. asset'[a] # Absent /\ a \notin Rows'
    BY <1>2, <1>3 DEF Absent, Gone
  <2>4. ASSUME NEW b \in Assets, Converts(w, b)
        PROVE  /\ asset'[b] # Absent
               /\ \A v \in Workers : Converts(v, b)' => v = w
               /\ b \in Rows' =>
                    /\ variant'[b] = "processing"
                    /\ work'[w].job = "convert" => work'[w].content = asset'[b].content
                    /\ work'[w].job = "variant" => work'[w].key = Processed(asset'[b].content)
    BY <1>2, <1>3, <2>1, <2>2, <2>3, <2>4 DEF WriterOK
  <2> QED BY <2>1, <2>2, <2>4 DEF WriterOK
<1>8. \A k \in disk' : Accounted(k)'
  <2>1. ASSUME NEW k \in disk PROVE Accounted(k)'
    <3>1. Accounted(k)
      BY <1>0, <2>1, AccountedAll
    <3>2. References(k) # {} => References(k)' # {} \/ k \in KeysOf(a)
      BY <1>3, <1>4 DEF References
    <3> QED BY <1>1, <3>1, <3>2 DEF Accounted
  <2> QED BY <1>1, <2>1
<1> QED BY <1>5, <1>6, <1>7, <1>8 DEF WritersOK, FilesAccounted, Accounted

LEMMA CollectFiles ==
  ASSUME FilesInv, NEW k \in queue, CollectFileDeletion(k)
  PROVE  VariantsOK' /\ WritersOK' /\ RowsHaveFiles' /\ FilesAccounted'
<1> USE DEF files, visuals
<1>0. AssetsTypeOK /\ VariantsOK /\ WritersOK /\ RowsHaveFiles /\ FilesAccounted
  BY DEF FilesInv
<1>1. /\ UNCHANGED <<asset, variant, work>> /\ lost' = lost \ {k}
      /\ queue' \in {queue, queue \ {k}}
      /\ \/ References(k) # {} /\ disk' = disk
         \/ References(k) = {} /\ disk' = disk \ {k}
  BY DEF CollectFileDeletion
<1>2. Rows' = Rows /\ (\A a \in Rows : KeysOf(a)' = KeysOf(a)) /\ \A l : References(l)' = References(l)
  BY <1>1, SameKeys
<1>3. VariantsOK' /\ WritersOK'
  BY <1>0, <1>1, <1>2 DEF VariantsOK, WritersOK, WriterOK, Converts
<1>4. RowsHaveFiles'
  <2>1. disk' # disk => \A a \in Rows : k \notin KeysOf(a)
    BY <1>1 DEF References
  <2> QED BY <1>0, <1>1, <1>2, <2>1 DEF RowsHaveFiles
<1>5. \A l \in disk' : Accounted(l)'
  <2>1. ASSUME NEW l \in disk', l # k PROVE Accounted(l)'
    <3>1. Accounted(l)
      BY <1>0, <1>1, <2>1, AccountedAll
    <3> QED BY <1>1, <1>2, <2>1, <3>1 DEF Accounted
  <2>2. k \in disk' => Accounted(k)'
    BY <1>1, <1>2 DEF Accounted
  <2> QED BY <2>1, <2>2
<1> QED BY <1>3, <1>4, <1>5 DEF FilesAccounted, Accounted

LEMMA FilesInvariant == AssetsSpec => []FilesInv
<1>1. AssetsInit => FilesInv
  <2> SUFFICES ASSUME AssetsInit PROVE FilesInv
    OBVIOUS
  <2>1. AssetsTypeOK
    BY DEF AssetsInit, AssetsTypeOK, AssetState, SessionState
  <2>2. Rows = {} /\ disk = {}
    BY DEF AssetsInit, Rows
  <2>3. VariantsOK /\ RowsHaveFiles /\ FilesAccounted
    BY <2>2 DEF AssetsInit, VariantsOK, RowsHaveFiles, FilesAccounted
  <2>4. WritersOK
    BY DEF AssetsInit, WritersOK, WriterOK, Converts, NoWork
  <2> QED BY <2>1, <2>3, <2>4 DEF FilesInv
<1>2. FilesInv /\ AssetsTypeOK' /\ [AssetsNext]_assetVars => FilesInv'
  <2> SUFFICES ASSUME FilesInv, AssetsTypeOK', [AssetsNext]_assetVars
               PROVE  VariantsOK' /\ WritersOK' /\ RowsHaveFiles' /\ FilesAccounted'
    BY DEF FilesInv
  <2>0. AssetsTypeOK
    BY DEF FilesInv
  <2>1. CASE UNCHANGED assetVars
    <3>1. Aside
      BY <2>0, <2>1, KeptSame DEF assetVars, Aside, AssetsTypeOK
    <3> QED BY <3>1, AsideFiles
  <2>2. ASSUME NEW w \in Workers, WriterStep(w)
        PROVE  VariantsOK' /\ WritersOK' /\ RowsHaveFiles' /\ FilesAccounted'
    BY <2>2, UploadFiles, StartFiles, ConvertFiles, PublishFiles, ReadyFiles, EndFiles DEF WriterStep
  <2>3. CASE User \/ Time \/ CollectSessions
    BY <2>0, <2>3, UserType, TimeType, SessionsType, AsideFiles
  <2>4. CASE GarbageCollect
    BY <2>3, <2>4, RemoveFiles, CollectFiles DEF GarbageCollect
  <2> QED BY <2>1, <2>2, <2>3, <2>4 DEF AssetsNext
<1> QED BY <1>1, <1>2, AssetsTypeCorrect, PTL DEF AssetsSpec

(* Every row's file is there: the collector counts references under the    *)
(* lock of the key's row in media_asset_file_deletions, under which a row  *)
(* is published too (collectFileDeletion), and so never removes a file     *)
(* that an upload of equal content comes to cite.                          *)
THEOREM RowsKeepFiles == AssetsSpec => []RowsHaveFiles
<1>1. FilesInv => RowsHaveFiles
  BY DEF FilesInv
<1> QED BY <1>1, FilesInvariant, PTL

(* No file is forgotten: whoever does not publish its file queues it       *)
(* (queueUnpublishedFile), and a removed row queues its files, unless the  *)
(* writer died or could not reach the database.                            *)
THEOREM FilesAreAccounted == AssetsSpec => []FilesAccounted
<1>1. FilesInv => FilesAccounted
  BY DEF FilesInv
<1> QED BY <1>1, FilesInvariant, PTL

-----------------------------------------------------------------------------
(* What is cited is kept.                                                   *)

\* A row with its variant: what may be cited.
Whole(a) == a \in Rows /\ variant[a] = "ready"

LEMMA CitedParts ==
  CitedKept <=> /\ \A x \in Streams : \A a \in pins[x] : Whole(a)
                /\ \A x \in Streams : \A y \in cands[x] : Whole(y[1])
                /\ \A x \in Streams : back[x] # Nothing => Whole(back[x])
                /\ \A p \in LivePresets : Whole(preset[p].asset)
BY DEF CitedKept, Whole

\* Nothing that is whole goes, and what is newly cited is whole or was cited.
LEMMA CitedStep ==
  ASSUME CitedKept, \A a : Whole(a) => a \in Rows' /\ variant'[a] = "ready",
         \A x \in Streams : \A a \in pins'[x] : a \in pins[x] \/ \E y \in cands[x] : a = y[1],
         \A x \in Streams : \A y \in cands'[x] : y \in cands[x] \/ Whole(y[1]),
         \A x \in Streams : back'[x] \in {back[x], Nothing} \/ Whole(back'[x]),
         \A p \in LivePresets' : \/ Whole(preset'[p].asset)
                                 \/ p \in LivePresets /\ preset'[p].asset = preset[p].asset
  PROVE  CitedKept'
<1>1. /\ \A x \in Streams : \A a \in pins[x] : Whole(a)
      /\ \A x \in Streams : \A y \in cands[x] : Whole(y[1])
      /\ \A x \in Streams : back[x] # Nothing => Whole(back[x])
      /\ \A p \in LivePresets : Whole(preset[p].asset)
  BY CitedParts
<1>2. /\ \A x \in Streams : \A a \in pins'[x] : a \in Rows' /\ variant'[a] = "ready"
      /\ \A x \in Streams : \A y \in cands'[x] : y[1] \in Rows' /\ variant'[y[1]] = "ready"
      /\ \A x \in Streams : back'[x] # Nothing => back'[x] \in Rows' /\ variant'[back'[x]] = "ready"
      /\ \A p \in LivePresets' : preset'[p].asset \in Rows' /\ variant'[preset'[p].asset] = "ready"
  BY <1>1
<1> QED BY <1>2 DEF CitedKept

LEMMA CitedSame ==
  ASSUME CitedKept, UNCHANGED <<cands, back, pins, preset>>,
         \A a : Whole(a) => a \in Rows' /\ variant'[a] = "ready"
  PROVE  CitedKept'
<1>1. LivePresets' = LivePresets
  BY DEF LivePresets
<1> QED BY <1>1, CitedStep

LEMMA WriterCited ==
  ASSUME FilesInv, CitedKept, NEW w \in Workers, WriterStep(w) PROVE CitedKept'
<1> USE DEF files, visuals
<1>0. AssetsTypeOK /\ WritersOK
  BY DEF FilesInv
<1>1. UNCHANGED <<cands, back, pins, preset>>
  BY DEF WriterStep, Upload, StartVariant, PublishUpload, CreateVariant, PublishVariant,
     FailToPublish, WriterDies
<1>2. CASE UNCHANGED <<asset, variant>>
  BY <1>1, <1>2, CitedSame DEF Whole, Rows
<1>3. CASE PublishUpload(w)
  <2>1. PICK n : n = NewId(asset)
    OBVIOUS
  <2>2. PICK r : asset' = [asset EXCEPT ![n] = r]
    BY <1>3, <2>1 DEF PublishUpload
  <2>3. asset[n] = Absent /\ UNCHANGED variant
    BY <1>3, <2>1, NewIdUnused DEF PublishUpload
  <2>4. \A a \in Rows : asset'[a] = asset[a]
    BY <1>0, <2>2, <2>3 DEF Rows, AssetsTypeOK
  <2> QED BY <1>1, <2>3, <2>4, CitedSame DEF Whole, Rows
<1>4. ASSUME NEW a \in Assets, StartVariant(w, a) PROVE CitedKept'
  <2>1. UNCHANGED asset /\ variant' = [variant EXCEPT ![a] = "processing"] /\ variant[a] = "none"
    BY <1>4 DEF StartVariant
  <2>2. \A b \in Assets : variant[b] = "ready" => variant'[b] = "ready"
    BY <1>0, <2>1 DEF AssetsTypeOK
  <2> QED BY <1>1, <2>1, <2>2, CitedSame DEF Whole, Rows
<1>5. CASE PublishVariant(w)
  <2>1. UNCHANGED asset /\ variant' = [variant EXCEPT ![work[w].asset] = "ready"]
    BY <1>5 DEF PublishVariant
  <2>2. \A b \in Assets : variant[b] = "ready" => variant'[b] = "ready"
    BY <1>0, <2>1 DEF AssetsTypeOK
  <2> QED BY <1>1, <2>1, <2>2, CitedSame DEF Whole, Rows
<1>6. CASE CreateVariant(w)
  <2>1. work[w] \in Converting
    BY <1>0, <1>6, JobType DEF CreateVariant
  <2>2. PICK a \in Assets : a = work[w].asset /\ Converts(w, a)
    BY <2>1 DEF Converting, Converts
  <2>3. a \in Rows => variant[a] = "processing"
    BY <1>0, <2>2 DEF WritersOK, WriterOK
  <2>4. /\ UNCHANGED asset
        /\ variant' = variant \/ (a \in Rows /\ variant' = [variant EXCEPT ![a] = "failed"])
    BY <1>6, <2>2 DEF CreateVariant
  <2>5. \A b \in Assets : variant[b] = "ready" => variant'[b] = "ready"
    BY <1>0, <2>3, <2>4 DEF AssetsTypeOK
  <2> QED BY <1>1, <2>4, <2>5, CitedSame DEF Whole, Rows
<1>7. ASSUME NEW s, NEW c, NEW u, Upload(w, s, c, u) PROVE UNCHANGED <<asset, variant>>
  BY <1>7 DEF Upload
<1>8. FailToPublish(w) \/ WriterDies(w) => UNCHANGED <<asset, variant>>
  BY DEF FailToPublish, WriterDies
<1> QED BY <1>2, <1>3, <1>4, <1>5, <1>6, <1>7, <1>8 DEF WriterStep

LEMMA AsideWhole ==
  ASSUME AssetsTypeOK, Aside PROVE \A a : Whole(a) => a \in Rows' /\ variant'[a] = "ready"
<1>1. Rows' = Rows /\ UNCHANGED variant
  BY KeptRows DEF Aside
<1> QED BY <1>1 DEF Whole

\* New settings name what they named, or what is ready.
LEMMA ApplyCited ==
  ASSUME AssetsTypeOK, NEW x \in Streams, ApplyVisual(x)
  PROVE  /\ \A z \in Streams : \A y \in cands'[z] : y \in cands[z] \/ Whole(y[1])
         /\ \A z \in Streams : back'[z] \in {back[z], Nothing} \/ Whole(back'[z])
<1>1. PICK cs, b, rows : Save(x, cs, b) /\ SettingsValid(rows, x, cs, b)
  BY DEF ApplyVisual
<1>2. \A a : Ready(a) => Whole(a)
  BY DEF Ready, Undeleted, Whole
<1>3. \A y \in cs : y \in cands[x] \/ Whole(y[1])
  BY <1>1, <1>2 DEF SettingsValid, CandidateValid, OwnedVariant, PresetVariant
<1>4. b \in {back[x], Nothing} \/ Whole(b)
  BY <1>1, <1>2 DEF SettingsValid, OwnedVariant
<1>5. /\ cands'[x] = cs /\ back'[x] = b
      /\ \A z \in Streams : z # x => cands'[z] = cands[z] /\ back'[z] = back[z]
  BY <1>1 DEF Save, AssetsTypeOK
<1>6. \A z \in Streams : \A y \in cands'[z] : y \in cands[z] \/ Whole(y[1])
  BY <1>3, <1>5
<1>7. \A z \in Streams : back'[z] \in {back[z], Nothing} \/ Whole(back'[z])
  BY <1>4, <1>5
<1> QED BY <1>6, <1>7

LEMMA UserCited ==
  ASSUME AssetsTypeOK, CitedKept, User PROVE CitedKept'
<1> USE DEF files, visuals
<1>1. \A a : Whole(a) => a \in Rows' /\ variant'[a] = "ready"
  BY UserType, AsideWhole
<1>2. CASE CreateUploadSession \/ \E a \in Assets : DeleteMediaAsset(a)
  BY <1>1, <1>2, CitedSame
     DEF CreateUploadSession, DeleteMediaAsset, SoftDeleteAsset, SoftDeleteDraftAsset
<1>3. ASSUME NEW x \in Streams, UpdateVisual(x) \/ CreateStream(x) PROVE CitedKept'
  <2>1. ApplyVisual(x) /\ UNCHANGED <<pins, preset>>
    BY <1>3 DEF UpdateVisual, CreateStream
  <2>2. LivePresets' = LivePresets
    BY <2>1 DEF LivePresets
  <2> QED BY <1>1, <2>1, <2>2, ApplyCited, CitedStep
<1>4. ASSUME NEW x \in Streams, RetireStreamCoverAssets(x) PROVE CitedKept'
  <2>1. /\ \A z \in Streams : cands'[z] \subseteq cands[z] /\ pins'[z] \subseteq pins[z]
        /\ UNCHANGED <<back, preset>>
    BY <1>4 DEF RetireStreamCoverAssets, AssetsTypeOK
  <2>2. LivePresets' = LivePresets
    BY <2>1 DEF LivePresets
  <2> QED BY <1>1, <2>1, <2>2, CitedStep
<1>5. ASSUME NEW x \in Streams, NEW a \in Assets, PinCover(x, a) PROVE CitedKept'
  <2>1. /\ \A z \in Streams : \A b \in pins'[z] : b \in pins[z] \/ \E y \in cands[z] : b = y[1]
        /\ UNCHANGED <<cands, back, preset>>
    BY <1>5 DEF PinCover, AssetsTypeOK
  <2>2. LivePresets' = LivePresets
    BY <2>1 DEF LivePresets
  <2> QED BY <1>1, <2>1, <2>2, CitedStep
<1>6. ASSUME NEW p \in Presets, DeletePreset(p) PROVE CitedKept'
  <2>1. UNCHANGED <<cands, back, pins>> /\ preset' = [preset EXCEPT ![p].owner = "deleted"]
    BY <1>6 DEF DeletePreset
  <2>2. preset[p] \in [owner : {"live", "deleted"}, asset : Assets]
    BY <1>6 DEF DeletePreset, LivePresets, AssetsTypeOK, Absent, Gone
  <2>3. \A q \in LivePresets' : q \in LivePresets /\ preset'[q].asset = preset[q].asset
    BY <2>1, <2>2 DEF LivePresets, AssetsTypeOK
  <2> QED BY <1>1, <2>1, <2>3, CitedStep
<1>7. ASSUME NEW p \in Presets, NEW a \in Assets, CreatePreset(p, a) \/ UpdatePreset(p, a)
      PROVE  CitedKept'
  <2>1. UNCHANGED <<cands, back, pins>> /\ Whole(a)
    BY <1>7 DEF CreatePreset, UpdatePreset, PresetAssetValid, Ready, Undeleted, Whole
  <2>2. preset'[p].asset = a /\ \A q \in Presets : q # p => preset'[q] = preset[q]
    <3>1. CASE CreatePreset(p, a)
      BY <3>1 DEF CreatePreset, AssetsTypeOK
    <3>2. CASE UpdatePreset(p, a)
      <4>1. preset[p] \in [owner : {"live", "deleted"}, asset : Assets]
        BY <3>2 DEF UpdatePreset, LivePresets, AssetsTypeOK, Absent, Gone
      <4> QED BY <3>2, <4>1 DEF UpdatePreset, AssetsTypeOK
    <3> QED BY <1>7, <3>1, <3>2
  <2>3. \A q \in LivePresets' : \/ Whole(preset'[q].asset)
                                \/ q \in LivePresets /\ preset'[q].asset = preset[q].asset
    BY <2>1, <2>2 DEF LivePresets
  <2> QED BY <1>1, <2>1, <2>3, CitedStep
<1> QED BY <1>2, <1>3, <1>4, <1>5, <1>6, <1>7 DEF User

\* The collector removes nothing that is cited: a preset whose tombstone goes
\* with the asset is not live.
LEMMA CollectCited ==
  ASSUME AssetsTypeOK, CitedKept, GarbageCollect PROVE CitedKept'
<1> USE DEF files, visuals
<1>1. ASSUME NEW a \in Assets, DeleteUnreferencedAsset(a) PROVE CitedKept'
  <2>1. /\ \A x \in Streams : back[x] # a /\ a \notin pins[x] /\ \A y \in cands[x] : y[1] # a
        /\ \A p \in Presets \ DeadPresets(a) : preset[p] \notin {Absent, Gone} => preset[p].asset # a
        /\ UNCHANGED <<cands, back, pins>>
    BY <1>1 DEF DeleteUnreferencedAsset, Unreferenced
  <2>2. \A b \in Rows : b # a => b \in Rows' /\ variant'[b] = variant[b]
    BY <1>1 DEF DeleteUnreferencedAsset, AssetsTypeOK, Rows
  <2>3. \A p \in LivePresets' : p \in LivePresets /\ preset'[p] = preset[p]
    BY <1>1 DEF DeleteUnreferencedAsset, LivePresets, Gone
  <2>4. \A p \in LivePresets : preset[p].asset # a
    <3>1. \A p \in LivePresets : p \in Presets \ DeadPresets(a) /\ preset[p] \notin {Absent, Gone}
      BY DEF LivePresets, DeadPresets, Absent, Gone
    <3> QED BY <2>1, <3>1
  <2>5. /\ \A x \in Streams : \A b \in pins[x] : Whole(b)
        /\ \A x \in Streams : \A y \in cands[x] : Whole(y[1])
        /\ \A x \in Streams : back[x] # Nothing => Whole(back[x])
        /\ \A p \in LivePresets : Whole(preset[p].asset)
    BY CitedParts
  <2>6. \A b : Whole(b) /\ b # a => b \in Rows' /\ variant'[b] = "ready"
    BY <2>2 DEF Whole
  <2>7. /\ \A x \in Streams : \A b \in pins'[x] : b \in Rows' /\ variant'[b] = "ready"
        /\ \A x \in Streams : \A y \in cands'[x] : y[1] \in Rows' /\ variant'[y[1]] = "ready"
        /\ \A x \in Streams : back'[x] # Nothing => back'[x] \in Rows' /\ variant'[back'[x]] = "ready"
        /\ \A p \in LivePresets' : preset'[p].asset \in Rows' /\ variant'[preset'[p].asset] = "ready"
    BY <2>1, <2>3, <2>4, <2>5, <2>6
  <2> QED BY <2>7 DEF CitedKept
<1>2. ASSUME NEW k \in queue, CollectFileDeletion(k) PROVE CitedKept'
  <2>1. UNCHANGED <<asset, variant, cands, back, pins, preset>>
    BY <1>2 DEF CollectFileDeletion
  <2> QED BY <2>1, CitedSame DEF Whole, Rows
<1>3. CASE CollectSessions
  <2>1. UNCHANGED <<cands, back, pins, preset>>
    BY <1>3 DEF CollectSessions
  <2> QED BY <1>3, <2>1, SessionsType, AsideWhole, CitedSame
<1> QED BY <1>1, <1>2, <1>3 DEF GarbageCollect

(* What settings, candidates, live presets, runtime rows and actions cite  *)
(* is still there with its ready variant: the collector asks every table   *)
(* that may cite an asset (deleteUnreferencedAsset), settings only take    *)
(* up what is ready, and a failed conversion marks no variant another      *)
(* writer has published.                                                   *)
THEOREM CitedIsKept == AssetsSpec => []CitedKept
<1>1. AssetsInit => CitedKept
  BY DEF AssetsInit, CitedKept, LivePresets, Absent
<1>2. FilesInv /\ CitedKept /\ [AssetsNext]_assetVars => CitedKept'
  <2> SUFFICES ASSUME FilesInv, CitedKept, [AssetsNext]_assetVars PROVE CitedKept'
    OBVIOUS
  <2>0. AssetsTypeOK
    BY DEF FilesInv
  <2>1. CASE UNCHANGED assetVars
    BY <2>1, CitedSame DEF assetVars, Whole, Rows
  <2>2. CASE Time
    <3>1. UNCHANGED <<cands, back, pins, preset>>
      BY <2>2 DEF Time, LapseSession, LapseRetention, visuals
    <3> QED BY <2>0, <2>2, <3>1, TimeType, AsideWhole, CitedSame
  <2> QED BY <2>0, <2>1, <2>2, WriterCited, UserCited, CollectCited DEF AssetsNext
<1> QED BY <1>1, <1>2, FilesInvariant, PTL DEF AssetsSpec
=============================================================================
