----------------------------- MODULE MediaAssets -----------------------------
(***************************************************************************)
(* Uploaded pictures: their files, the rows that own them and the garbage  *)
(* collector that removes both.                                            *)
(*                                                                         *)
(* A picture is uploaded into a draft session, and its asset row stays a   *)
(* draft until a stream's visual settings or a cover preset claim it.      *)
(* Files are content-addressed: two uploads of equal content share one     *)
(* file, and so do their processed variants.  A file is written outside    *)
(* any transaction; the row that cites it is inserted under the lock of    *)
(* the key's row in media_asset_file_deletions, the same lock under which  *)
(* the collector counts references and removes the file.  Deletion marks a *)
(* row, and only the collector removes it, once its retention is over and  *)
(* nothing refers to it.                                                   *)
(*                                                                         *)
(* One user acts (a second one is only ever refused), each asset has the   *)
(* one variant its usage needs, and covers reach the running stream as     *)
(* "pins": variants named by its runtime rows and actions (VideoCover).    *)
(***************************************************************************)
EXTENDS Naturals, FiniteSets

CONSTANTS
  Sessions, Assets, Streams, Presets,   \* identifiers; their number bounds the model
  Contents,                             \* what a picture's bytes may be
  Workers,                              \* requests that write files
  CoverLimit,                           \* MaxStreamCoverUploads
  Nothing

ASSUME AssetsAssumption == /\ CoverLimit \in Nat \ {0}
                           /\ Nothing \notin Sessions \cup Assets \cup Streams \cup Presets

VARIABLES
  session,   \* media_upload_sessions: who owns the session, whether it has expired
  asset,     \* media_assets
  variant,   \* media_asset_variants: the status of each asset's variant
  disk,      \* keys of the files present
  queue,     \* media_asset_file_deletions
  streams,    \* "new", "ready", "deleted"
  cands,     \* cover candidates of each stream: <<asset, preset or None>>
  back,      \* background asset of each stream
  pins,      \* assets named by each stream's cover runtime and action rows
  preset,    \* video_cover_presets
  work,      \* the uploads and variants being processed
  lost       \* keys whose writer died or could not queue them (a ghost)

assetVars == <<session, asset, variant, disk, queue, streams, cands, back, pins, preset, work, lost>>
files == <<disk, queue, lost>>
visuals == <<streams, cands, back, pins>>

Absent == [owner |-> "absent"]    \* no such row yet
Gone == [owner |-> "gone"]        \* the row was removed; its id is not used again
NoWork == [job |-> "idle"]

\* A new row's id: which unused one makes no difference.
Unused(f) == {i \in DOMAIN f : f[i] = Absent}
NewId(f) == CHOOSE i \in Unused(f) : TRUE

Original(c) == <<c, "original">>
Processed(c) == <<c, "variant">>

Rows == {a \in Assets : asset[a] \notin {Absent, Gone}}
Undeleted(a) == a \in Rows /\ ~asset[a].deleted
Ready(a) == Undeleted(a) /\ variant[a] = "ready"

KeysOf(a) == {Original(asset[a].content)}
             \cup {k \in {Processed(asset[a].content)} : variant[a] = "ready"}

References(k) == {a \in Rows : k \in KeysOf(a)}

\* ---------------------------------------------------------------- sessions --

CreateUploadSession ==
  /\ Unused(session) # {}
  /\ session' = [session EXCEPT ![NewId(session)] = [owner |-> "draft", lapsed |-> FALSE]]
  /\ UNCHANGED <<asset, variant, visuals, files, preset, work>>

ValidDraft(s) == session[s].owner = "draft" /\ ~session[s].lapsed

DraftCovers(s) == {a \in Rows : /\ asset[a].session = s /\ ~asset[a].deleted
                                /\ asset[a].usage = "video_cover"}

WithinDraftLimit(s, usage) == usage = "video_cover" => Cardinality(DraftCovers(s)) < CoverLimit

LapseSession(s) ==
  /\ session[s] \notin {Absent, Gone} /\ ~session[s].lapsed
  /\ session' = [session EXCEPT ![s].lapsed = TRUE]
  /\ UNCHANGED <<asset, variant, visuals, files, preset, work>>

\* ----------------------------------------------------------- uploads, files --

MayUpload(s, usage) == ValidDraft(s) /\ WithinDraftLimit(s, usage)

\* A file of the same content that is already there is kept.
WriteContentAddressed(k) == disk' = disk \cup {k}

\* Checking the draft and writing are one step: the draft is checked again to
\* publish.  A picture the processor refuses changes nothing.
Upload(w, s, c, usage) ==
  /\ work[w] = NoWork
  /\ MayUpload(s, usage)
  /\ WriteContentAddressed(Original(c))
  /\ work' = [work EXCEPT ![w] = [job |-> "upload", session |-> s, usage |-> usage,
                                  content |-> c, key |-> Original(c)]]
  /\ UNCHANGED <<session, asset, variant, visuals, queue, lost, preset>>

\* Mutant: the file is not looked at again under the lock.
VerifyNothing(k) == TRUE

Verify(k) == k \in disk

\* One transaction, holding the session's row and the key's deletion row.
PublishUpload(w) ==
  /\ work[w].job = "upload" /\ Unused(asset) # {}
  /\ MayUpload(work[w].session, work[w].usage)
  /\ Verify(work[w].key)
  /\ asset' = [asset EXCEPT ![NewId(asset)] =
                 [owner |-> "draft", of |-> work[w].session, session |-> work[w].session,
                  content |-> work[w].content, usage |-> work[w].usage, deleted |-> FALSE,
                  retention |-> "none"]]
  /\ queue' = queue \ {work[w].key}
  /\ work' = [work EXCEPT ![w] = NoWork]
  /\ UNCHANGED <<session, variant, visuals, disk, lost, preset>>

StartVariant(w, a) ==
  /\ work[w] = NoWork /\ Undeleted(a) /\ variant[a] = "none"
  /\ variant' = [variant EXCEPT ![a] = "processing"]
  /\ work' = [work EXCEPT ![w] = [job |-> "convert", asset |-> a, content |-> asset[a].content]]
  /\ UNCHANGED <<session, asset, visuals, files, preset>>

\* The variant is made from the original; one that cannot be made is failed.
CreateVariant(w) ==
  /\ work[w].job = "convert"
  /\ \/ /\ Original(work[w].content) \in disk
        /\ WriteContentAddressed(Processed(work[w].content))
        /\ work' = [work EXCEPT ![w] = [job |-> "variant", asset |-> work[w].asset,
                                        key |-> Processed(work[w].content)]]
        /\ UNCHANGED variant
     \/ /\ work' = [work EXCEPT ![w] = NoWork]
        /\ variant' = IF work[w].asset \in Rows THEN [variant EXCEPT ![work[w].asset] = "failed"]
                      ELSE variant
        /\ UNCHANGED disk
  /\ UNCHANGED <<session, asset, visuals, queue, lost, preset>>

PublishVariant(w) ==
  /\ work[w].job = "variant"
  /\ Undeleted(work[w].asset) /\ variant[work[w].asset] = "processing"
  /\ Verify(work[w].key)
  /\ variant' = [variant EXCEPT ![work[w].asset] = "ready"]
  /\ queue' = queue \ {work[w].key}
  /\ work' = [work EXCEPT ![w] = NoWork]
  /\ UNCHANGED <<session, asset, visuals, disk, lost, preset>>

\* Mutant: an upload that is not published is forgotten.
ForgetUnpublished(w) == UNCHANGED <<queue, lost>>

\* The file of an upload that is not published is queued for the collector,
\* unless the database cannot be reached within the five seconds it has.
QueueUnpublishedFile(w) ==
  \/ queue' = queue \cup {work[w].key} /\ UNCHANGED lost
  \/ lost' = lost \cup {work[w].key} /\ UNCHANGED queue

\* The publishing transaction is refused or fails.
FailToPublish(w) ==
  /\ work[w].job \in {"upload", "variant"}
  /\ QueueUnpublishedFile(w)
  /\ work' = [work EXCEPT ![w] = NoWork]
  /\ UNCHANGED <<session, asset, variant, visuals, disk, preset>>

\* The process dies between the file and the row.
WriterDies(w) ==
  /\ work[w] # NoWork
  /\ lost' = lost \cup (IF work[w].job = "convert" THEN {} ELSE {work[w].key})
  /\ work' = [work EXCEPT ![w] = NoWork]
  /\ UNCHANGED <<session, asset, variant, visuals, disk, queue, preset>>

\* ---------------------------------------------------------------- deletion --

Marked(r, retention) == [r EXCEPT !.deleted = TRUE, !.retention = retention]

SoftDeleteAsset(a) ==
  /\ a \in Rows
  /\ asset' = [asset EXCEPT ![a] = Marked(@, "running")]
  /\ UNCHANGED <<session, variant, visuals, files, preset, work>>

DraftOf(a, s) == asset[a].owner = "draft" /\ asset[a].of = s /\ asset[a].session = s

SoftDeleteDraftAsset(a, s) ==
  /\ session[s].owner = "draft"
  /\ a \in Rows /\ DraftOf(a, s)
  /\ asset' = [asset EXCEPT ![a] = Marked(@, IF @.retention = "none" THEN "running" ELSE @.retention)]
  /\ UNCHANGED <<session, variant, visuals, files, preset, work>>

\* The request names the session it expects the asset in, or just the asset.
DeleteMediaAsset(a) == SoftDeleteAsset(a) \/ \E s \in Sessions : SoftDeleteDraftAsset(a, s)

LapseRetention(a) ==
  /\ a \in Rows /\ asset[a].retention = "running"
  /\ asset' = [asset EXCEPT ![a].retention = "over"]
  /\ UNCHANGED <<session, variant, visuals, files, preset, work>>

\* ---------------------------------------------------------- visual settings --

UploadsOf(cs) == {x[1] : x \in {y \in cs : y[2] = Nothing}}

\* The uploads an update selects that the settings did not have.
SelectedUploads(x, cs, b) ==
  (UploadsOf(cs) \ {y[1] : y \in cands[x]}) \cup ({b} \ {back[x], Nothing})

CoverUploadLimit(x, cs) ==
  \/ Cardinality(UploadsOf(cs)) <= CoverLimit
  \/ UploadsOf(cs) \subseteq UploadsOf(cands[x])

MayClaim(s, x) ==
  \/ session[s].owner = "stream" /\ session[s].of = x
  \/ ValidDraft(s) /\ Cardinality(DraftCovers(s)) <= CoverLimit

\* Claiming gives the stream every asset of the session that is not deleted.
ClaimedAssets(s, x) ==
  IF session[s].owner = "stream" THEN asset
  ELSE [a \in Assets |-> IF Undeleted(a) /\ DraftOf(a, s)
                         THEN [asset[a] EXCEPT !.owner = "stream", !.of = x] ELSE asset[a]]

ClaimDraft(s, x) == [session EXCEPT ![s] = [owner |-> "stream", of |-> x, lapsed |-> @.lapsed]]

\* What the session holds after the claim is what the update selects.
ClaimedDraftSelection(rows, s, x, selected) ==
  /\ selected # {}
  /\ {a \in Rows : rows[a].session = s /\ ~rows[a].deleted} = selected
  /\ \A a \in selected : rows[a].owner = "stream" /\ rows[a].of = x

OwnedVariant(rows, a, x, usage) ==
  Ready(a) /\ rows[a].owner = "stream" /\ rows[a].of = x /\ rows[a].usage = usage

PresetVariant(a, p) == preset[p].owner = "live" /\ preset[p].asset = a /\ Ready(a)

\* A candidate is kept as it was, or comes from an upload or a live preset.
CandidateValid(rows, x, y) ==
  \/ y \in cands[x]
  \/ y[2] = Nothing /\ OwnedVariant(rows, y[1], x, "video_cover")
  \/ y[2] # Nothing /\ PresetVariant(y[1], y[2])

SettingsValid(rows, x, cs, b) ==
  /\ \A y \in cs : CandidateValid(rows, x, y)
  /\ \A y, z \in cs : y[1] = z[1] => y = z
  /\ b \in {back[x], Nothing} \/ OwnedVariant(rows, b, x, "scene_background")
  /\ CoverUploadLimit(x, cs)

Save(x, cs, b) == /\ cands' = [cands EXCEPT ![x] = cs]
                  /\ back' = [back EXCEPT ![x] = b]

\* New settings, with the pictures of a session or with what is at hand.
ApplyVisual(x) ==
  \E cs \in SUBSET (Rows \X (Presets \cup {Nothing})), b \in Rows \cup {Nothing} :
     /\ \/ /\ SettingsValid(asset, x, cs, b)
           /\ UNCHANGED <<session, asset>>
        \/ \E s \in Sessions :
             /\ MayClaim(s, x)
             /\ ClaimedDraftSelection(ClaimedAssets(s, x), s, x, SelectedUploads(x, cs, b))
             /\ SettingsValid(ClaimedAssets(s, x), x, cs, b)
             /\ session' = ClaimDraft(s, x)
             /\ asset' = ClaimedAssets(s, x)
     /\ Save(x, cs, b)

UpdateVisual(x) ==
  /\ streams[x] = "ready"
  /\ ApplyVisual(x)
  /\ UNCHANGED <<variant, streams, pins, files, preset, work>>

CreateStream(x) ==
  /\ streams[x] = "new"
  /\ streams' = [streams EXCEPT ![x] = "ready"]
  /\ ApplyVisual(x)
  /\ UNCHANGED <<variant, pins, files, preset, work>>

\* A generation or an action of the stream's cover names a candidate's variant,
\* and keeps naming it after the settings drop it (VideoCover).
PinCover(x, a) ==
  /\ streams[x] = "ready" /\ a \in {y[1] : y \in cands[x]}
  /\ pins' = [pins EXCEPT ![x] = @ \cup {a}]
  /\ UNCHANGED <<session, asset, variant, streams, cands, back, files, preset, work>>

LivePresets == {p \in Presets : preset[p].owner = "live"}

\* Who refers to an asset once stream x has given up its covers.
CitedWithout(x, a) ==
  \/ \E z \in Streams : back[z] = a
  \/ \E z \in Streams \ {x} : a \in pins[z] \/ \E y \in cands[z] : y[1] = a
  \/ \E p \in LivePresets : preset[p].asset = a

\* Deletion retires the stream's covers at once, without retention.
RetireStreamCoverAssets(x) ==
  /\ streams[x] = "ready"
  /\ streams' = [streams EXCEPT ![x] = "deleted"]
  /\ cands' = [cands EXCEPT ![x] = {}]
  /\ pins' = [pins EXCEPT ![x] = {}]
  /\ asset' = [a \in Assets |->
                 IF /\ a \in Rows /\ asset[a].owner = "stream" /\ asset[a].of = x
                    /\ asset[a].usage = "video_cover" /\ ~CitedWithout(x, a)
                 THEN Marked(asset[a], "over") ELSE asset[a]]
  /\ UNCHANGED <<session, variant, back, files, preset, work>>

\* ----------------------------------------------------------------- presets --

PresetAssetValid(a) == Ready(a) /\ asset[a].usage = "video_cover"

\* A preset keeps its own asset or takes a draft of a valid session.
MayClaimPresetAsset(a, p) ==
  \/ asset[a].owner = "preset" /\ asset[a].of = p
  \/ asset[a].owner = "draft" /\ asset[a].session # Nothing /\ ValidDraft(asset[a].session)

ClaimPresetAsset(a, p) ==
  IF asset[a].owner = "preset" THEN asset
  ELSE [asset EXCEPT ![a] = [@ EXCEPT !.owner = "preset", !.of = p, !.session = Nothing]]

\* The draft session goes with its last asset.
SessionsAfterClaim(a) ==
  LET s == asset[a].session
  IN  IF s # Nothing /\ {b \in Rows : asset[b].session = s} = {a}
      THEN [session EXCEPT ![s] = Gone] ELSE session

CreatePreset(p, a) ==
  /\ preset[p] = Absent /\ PresetAssetValid(a) /\ MayClaimPresetAsset(a, p)
  /\ preset' = [preset EXCEPT ![p] = [owner |-> "live", asset |-> a]]
  /\ asset' = ClaimPresetAsset(a, p)
  /\ session' = SessionsAfterClaim(a)
  /\ UNCHANGED <<variant, visuals, files, work>>

RetirePresetAsset(rows, a, p) ==
  IF rows[a].owner = "preset" /\ rows[a].of = p
  THEN [rows EXCEPT ![a] = Marked(@, "running")] ELSE rows

UpdatePreset(p, a) ==
  /\ p \in LivePresets /\ PresetAssetValid(a) /\ MayClaimPresetAsset(a, p)
  /\ a # preset[p].asset
  /\ preset' = [preset EXCEPT ![p].asset = a]
  /\ asset' = RetirePresetAsset(ClaimPresetAsset(a, p), preset[p].asset, p)
  /\ session' = SessionsAfterClaim(a)
  /\ UNCHANGED <<variant, visuals, files, work>>

DeletePreset(p) ==
  /\ p \in LivePresets
  /\ preset' = [preset EXCEPT ![p].owner = "deleted"]
  /\ asset' = RetirePresetAsset(asset, preset[p].asset, p)
  /\ UNCHANGED <<session, variant, visuals, files, work>>

\* ------------------------------------------------------- garbage collection --

Collectable(a) ==
  \/ asset[a].deleted /\ asset[a].retention = "over"
  \/ /\ asset[a].owner = "draft" /\ asset[a].session # Nothing
     /\ session[asset[a].session].owner = "draft" /\ session[asset[a].session].lapsed

\* Tombstones of presets on the asset that no settings name any more.
DeadPresets(a) ==
  {p \in Presets : /\ preset[p].owner = "deleted" /\ preset[p].asset = a
                   /\ \A z \in Streams : \A y \in cands[z] : y[2] # p}

\* Mutant: runtime rows and actions of covers do not count.
UnreferencedBySettings(a) ==
  /\ \A z \in Streams : back[z] # a /\ \A y \in cands[z] : y[1] # a
  /\ \A p \in Presets \ DeadPresets(a) : preset[p] \notin {Absent, Gone} => preset[p].asset # a

Unreferenced(a) ==
  /\ \A z \in Streams : back[z] # a /\ a \notin pins[z] /\ \A y \in cands[z] : y[1] # a
  /\ \A p \in Presets \ DeadPresets(a) : preset[p] \notin {Absent, Gone} => preset[p].asset # a

DeleteUnreferencedAsset(a) ==
  /\ a \in Rows /\ Collectable(a) /\ Unreferenced(a)
  /\ asset' = [asset EXCEPT ![a] = Gone]
  /\ variant' = [variant EXCEPT ![a] = "none"]
  /\ preset' = [p \in Presets |-> IF p \in DeadPresets(a) THEN Gone ELSE preset[p]]
  /\ queue' = queue \cup KeysOf(a)
  /\ UNCHANGED <<session, visuals, disk, lost, work>>

\* A file still referenced is only taken off the queue.  Removing one may fail,
\* or succeed in a transaction that does not commit.
CollectFileDeletion(k) ==
  /\ k \in queue
  /\ \/ /\ References(k) # {} /\ queue' = queue \ {k} /\ disk' = disk
     \/ /\ References(k) = {} /\ disk' = disk \ {k}
        /\ queue' \in {queue, queue \ {k}}
        /\ disk' # disk \/ queue' # queue
  /\ lost' = lost \ {k}
  /\ UNCHANGED <<session, asset, variant, visuals, preset, work>>

\* Mutant: every session whose time is over goes.
AllLapsed == {s \in Sessions : session[s] \notin {Absent, Gone} /\ session[s].lapsed}

\* A draft session stays while an asset names it.
FinishedSessions ==
  {s \in Sessions : /\ session[s] \notin {Absent, Gone} /\ session[s].lapsed
                    /\ \/ session[s].owner = "stream"
                       \/ \A a \in Rows : asset[a].session # s}

CollectSessions ==
  /\ FinishedSessions # {}
  /\ session' = [s \in Sessions |-> IF s \in FinishedSessions THEN Gone ELSE session[s]]
  /\ asset' = [a \in Assets |-> IF a \in Rows /\ asset[a].session \in FinishedSessions
                                THEN [asset[a] EXCEPT !.session = Nothing] ELSE asset[a]]
  /\ UNCHANGED <<variant, visuals, files, preset, work>>

\* ------------------------------------------------------------ specification --

AssetsInit ==
  /\ session = [s \in Sessions |-> Absent]
  /\ asset = [a \in Assets |-> Absent] /\ variant = [a \in Assets |-> "none"]
  /\ disk = {} /\ queue = {} /\ lost = {}
  /\ streams = [x \in Streams |-> "new"]
  /\ cands = [x \in Streams |-> {}] /\ back = [x \in Streams |-> Nothing]
  /\ pins = [x \in Streams |-> {}]
  /\ preset = [p \in Presets |-> Absent]
  /\ work = [w \in Workers |-> NoWork]

WriterStep(w) ==
  \/ \E s \in Sessions, c \in Contents, u \in {"video_cover", "scene_background"} : Upload(w, s, c, u)
  \/ \E a \in Assets : StartVariant(w, a)
  \/ PublishUpload(w) \/ CreateVariant(w) \/ PublishVariant(w) \/ FailToPublish(w) \/ WriterDies(w)

User ==
  \/ CreateUploadSession
  \/ \E a \in Assets : DeleteMediaAsset(a)
  \/ \E x \in Streams : \/ UpdateVisual(x) \/ CreateStream(x) \/ RetireStreamCoverAssets(x)
                        \/ \E a \in Assets : PinCover(x, a)
  \/ \E p \in Presets : \/ DeletePreset(p)
                        \/ \E a \in Assets : CreatePreset(p, a) \/ UpdatePreset(p, a)

Time == \/ \E s \in Sessions : LapseSession(s)
        \/ \E a \in Assets : LapseRetention(a)

GarbageCollect ==
  \/ \E a \in Assets : DeleteUnreferencedAsset(a)
  \/ \E k \in queue : CollectFileDeletion(k)
  \/ CollectSessions

AssetsNext == (\E w \in Workers : WriterStep(w)) \/ User \/ Time \/ GarbageCollect

AssetsSpec == AssetsInit /\ [][AssetsNext]_assetVars

\* Time passes, and the collector runs at every tick.
FairAssetsSpec ==
  /\ AssetsSpec
  /\ \A s \in Sessions : WF_assetVars(LapseSession(s))
  /\ \A a \in Assets : WF_assetVars(DeleteUnreferencedAsset(a))
  /\ WF_assetVars(CollectSessions)

\* --------------------------------------------------------------- properties --

\* Every row's file is there: the collector, which may find a shared key
\* unreferenced while an upload relies on the file it saw, never removes a file
\* that a row comes to cite.
RowsHaveFiles == \A a \in Rows : KeysOf(a) \subseteq disk

\* What settings, candidates, live presets, runtime rows and actions refer to
\* is still there with its ready variant, whatever was deleted meanwhile.
CitedKept ==
  /\ \A x \in Streams : \A a \in pins[x] \cup {y[1] : y \in cands[x]} \cup ({back[x]} \ {Nothing}) :
       a \in Rows /\ variant[a] = "ready"
  /\ \A p \in LivePresets : preset[p].asset \in Rows /\ variant[preset[p].asset] = "ready"

\* No file is forgotten: one on disk is cited by a row, queued for the
\* collector, or relied on by a running request.  Only a writer that died, or
\* could not reach the database to queue its file, leaves one behind.
FilesAccounted ==
  \A k \in disk : \/ References(k) # {} \/ k \in queue \/ k \in lost
                  \/ \E w \in Workers : work[w].job \in {"upload", "variant"} /\ work[w].key = k

\* No draft is kept for ever: it is claimed, deleted or collected.
DraftsVanish ==
  \A a \in Assets : asset[a].owner = "draft" ~> asset[a].owner # "draft" \/ asset[a].deleted
=============================================================================
