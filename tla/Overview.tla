------------------------------ MODULE Overview ------------------------------
(***************************************************************************)
(* The map's overview (server/routes/map.py): one image assembled from all *)
(* uploaded tiles (server/routes/tiles.py), cached in memory and in two    *)
(* files, an image and its metadata.                                       *)
(*                                                                         *)
(* None of these handlers awaits anything once it has its request's body,  *)
(* so the event loop runs one at a time; but each file operation can fail, *)
(* and the process can die, between any two.                               *)
(***************************************************************************)
EXTENDS Integers, Sequences, FiniteSetsExt

CONSTANTS
    Chunks,      \* chunk coordinates, on one axis
    Pics,        \* contents of tiles
    MaxTrouble,  \* bound on failed file operations and deaths of the process
    Missing,     \* the file does not exist, the variable is None
    Torn         \* a file cut short while it was written

\* What an image shows, and the bounds of its canvas.
Spans == Chunks \X Chunks
Pictures == [shown : SUBSET (Chunks \X Pics), span : Spans]

\* A world has finitely many chunks; no content of a file is mistaken for a file
\* that is not there or cut short.
ASSUME OverviewAssumption ==
    /\ Chunks \subseteq Int /\ IsFiniteSet(Chunks)
    /\ MaxTrouble \in Nat
    /\ Missing # Torn
    /\ {Missing, Torn} \cap (Pics \cup Spans \cup Pictures) = {}
    /\ Missing \notin [image : Pictures \cup {Torn}, span : Spans]

VARIABLES
    tiles,    \* tiles[c]: file z5_x<c>_z0.png
    image,    \* file _overview.png
    meta,     \* file _overview_meta.txt
    overview, \* _overview_cache
    loop,     \* what the handler that runs has to do next
    batch,    \* tiles of the upload not yet written
    missed,   \* whether tiles changed and the overview was not invalidated
    trouble   \* failures so far

mapFiles == <<tiles, image, meta>>
mapVars  == <<mapFiles, overview, loop, batch, missed, trouble>>

OverviewInit ==
    /\ tiles = [c \in Chunks |-> Missing]
    /\ image = Missing /\ meta = Missing /\ overview = Missing
    /\ loop = "idle"
    /\ batch = <<>>
    /\ missed = FALSE
    /\ trouble = 0

-----------------------------------------------------------------------------
(* Uploads *)

UploadTiles(ts) ==
    /\ loop = "idle"
    /\ batch' = ts
    /\ loop' = "writing"
    /\ UNCHANGED <<mapFiles, overview, missed, trouble>>

\* write_bytes of the next tile; after the last, invalidate_overview.
WriteTile ==
    /\ loop = "writing"
    /\ tiles' = [tiles EXCEPT ![Head(batch)[1]] = Head(batch)[2]]
    /\ batch' = Tail(batch)
    /\ loop' = IF Tail(batch) = <<>> THEN "forgetting" ELSE "writing"
    /\ missed' = TRUE
    /\ UNCHANGED <<image, meta, overview, trouble>>

Forget_FilesOnly ==
    /\ loop = "forgetting"
    /\ loop' = "unlinkImage"
    /\ UNCHANGED <<mapFiles, overview, batch, missed, trouble>>

\* invalidate_overview: the variable, the image, the metadata.
ForgetOverview ==
    /\ loop = "forgetting"
    /\ overview' = Missing
    /\ loop' = "unlinkImage"
    /\ UNCHANGED <<mapFiles, batch, missed, trouble>>

UnlinkImage ==
    /\ loop = "unlinkImage"
    /\ image' = Missing
    /\ missed' = FALSE
    /\ loop' = "unlinkMeta"
    /\ UNCHANGED <<tiles, meta, overview, batch, trouble>>

UnlinkMeta_Kept ==
    /\ loop = "unlinkMeta"
    /\ loop' = "idle"
    /\ UNCHANGED <<mapFiles, overview, batch, missed, trouble>>

UnlinkMeta ==
    /\ loop = "unlinkMeta"
    /\ meta' = Missing
    /\ loop' = "idle"
    /\ UNCHANGED <<tiles, image, overview, batch, missed, trouble>>

-----------------------------------------------------------------------------
(* The overview *)

Span(S) == <<Min(S), Max(S)>>

Existing == {c \in Chunks : tiles[c] # Missing}
Readable == {c \in Existing : tiles[c] # Torn}

\* _build_overview_image: the tiles that can be read, on a canvas that spans
\* all of them.
Picture == [shown |-> {<<c, tiles[c]>> : c \in Readable}, span |-> Span(Existing)]

HasMeta_Exists == meta # Missing

\* The metadata file exists and parses.
HasMeta == meta \notin {Missing, Torn}

\* _get_or_build_overview with nothing in memory: the two files, if both exist
\* and the metadata parses, else a build.  Without a readable tile there is no
\* overview.
LoadOverview ==
    /\ loop = "idle" /\ overview = Missing
    /\ image # Missing /\ HasMeta
    /\ overview' = [image |-> image, span |-> meta]
    /\ UNCHANGED <<mapFiles, loop, batch, missed, trouble>>

BuildOverview ==
    /\ loop = "idle" /\ overview = Missing
    /\ image = Missing \/ ~HasMeta
    /\ Readable # {}
    /\ overview' = [image |-> Picture, span |-> Picture.span]
    /\ loop' = "saveImage"
    /\ UNCHANGED <<mapFiles, batch, missed, trouble>>

SaveImage ==
    /\ loop = "saveImage"
    /\ image' = overview.image
    /\ loop' = "saveMeta"
    /\ UNCHANGED <<tiles, meta, overview, batch, missed, trouble>>

SaveMeta ==
    /\ loop = "saveMeta"
    /\ meta' = overview.span
    /\ loop' = "idle"
    /\ UNCHANGED <<tiles, image, overview, batch, missed, trouble>>

-----------------------------------------------------------------------------
(* Failures *)

\* The file being written, if any, stays as it was or is cut short: a tile,
TearTile ==
    \/ UNCHANGED tiles
    \/ loop = "writing" /\ tiles' = [tiles EXCEPT ![Head(batch)[1]] = Torn]

\* or one of the two files of the overview.
Tear ==
    /\ TearTile
    /\ image' \in {image} \cup (IF loop = "saveImage" THEN {Torn} ELSE {})
    /\ meta' \in {meta} \cup (IF loop = "saveMeta" THEN {Torn} ELSE {})
    /\ missed' = (missed \/ tiles' # tiles)

\* A write raises: the upload is answered 500, a save is only logged.
WriteFails ==
    /\ loop \in {"writing", "saveImage", "saveMeta"}
    /\ trouble < MaxTrouble
    /\ Tear
    /\ loop' = "idle"
    /\ batch' = <<>>
    /\ trouble' = trouble + 1
    /\ UNCHANGED overview

\* The process dies and is started again.
OverviewRestart ==
    /\ trouble < MaxTrouble
    /\ Tear
    /\ overview' = Missing
    /\ loop' = "idle"
    /\ batch' = <<>>
    /\ trouble' = trouble + 1

OverviewNext ==
    \/ \E n \in 1..2 : \E ts \in [1..n -> Chunks \X Pics] : UploadTiles(ts)
    \/ WriteTile \/ ForgetOverview \/ UnlinkImage \/ UnlinkMeta
    \/ LoadOverview \/ BuildOverview \/ SaveImage \/ SaveMeta
    \/ WriteFails \/ OverviewRestart

OverviewSpec == OverviewInit /\ [][OverviewNext]_mapVars

-----------------------------------------------------------------------------
(* Properties *)

\* The files, the cached overview and the state of the running handler have
\* values they can have.
OverviewTypeOK ==
    /\ tiles \in [Chunks -> Pics \cup {Missing, Torn}]
    /\ image \in {Missing, Torn} \cup Pictures
    /\ meta \in {Missing, Torn} \cup Spans
    /\ overview \in {Missing} \cup [image : Pictures \cup {Torn}, span : Spans]
    /\ loop \in {"idle", "writing", "forgetting", "unlinkImage", "unlinkMeta",
                 "saveImage", "saveMeta"}
    /\ loop = "writing" <=> batch # <<>>
    /\ missed \in BOOLEAN /\ trouble \in 0..MaxTrouble

Current(pic) == pic.shown = {<<c, tiles[c]>> : c \in Readable}

\* Between two requests the overview kept in memory, and the one its two files
\* would give after a restart, shows the tiles as they are, unless an upload was
\* broken off after it changed a tile; the next upload that completes repairs
\* even that (invalidate_overview, _get_or_build_overview).
OverviewIsCurrent ==
    loop = "idle" /\ ~missed =>
        /\ overview # Missing /\ overview.image # Torn => Current(overview.image)
        /\ image \notin {Missing, Torn} /\ meta \notin {Missing, Torn} => Current(image)

\* The bounds an overview is cropped by are those of its image: the image and
\* the metadata file are written and removed one after the other, and still a
\* single failure or death at any point never leaves an image beside the
\* metadata of another.  (Two can.)
OverviewHasItsBounds ==
    trouble < 2 /\ overview # Missing =>
        /\ overview.image # Torn
        /\ overview.image.span = overview.span

=============================================================================
