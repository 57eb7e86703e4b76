------------------------------- MODULE Tiles -------------------------------
(***************************************************************************)
(* The pictures of one region's chunks.  mcmap (tiler/src/main.rs) renders *)
(* every chunk it can read in the region file, on all cores, and writes a  *)
(* PNG each; it exits with 0 when some could not be written.  The client   *)
(* runs it after the generation and before the world is saved, while       *)
(* Minecraft may be saving by itself, and sends what it finds in the       *)
(* output directory in batches (client/tiler.py, client/work_loop.py,      *)
(* client/uploader.py), which the server writes into its cache file by     *)
(* file (server/routes/tiles.py), maybe when the client no longer waits.   *)
(* The server's RustTiler keeps its own directory                          *)
(* (server/map_generator/rust_bridge.py); it is asked by one caller at a   *)
(* time.                                                                   *)
(***************************************************************************)
EXTENDS Naturals, FiniteSets, FiniteSetsExt

CONSTANTS
    TileChunks,  \* chunks of the region
    TileBatch,   \* tiles per upload (50)
    Uploads,     \* the batches that may be under way at a time
    NoChunk

ASSUME TilesAssumption ==
    /\ IsFiniteSet(TileChunks)
    /\ TileBatch \in Nat \ {0}
    /\ NoChunk \notin TileChunks

VARIABLES
    place,     \* who renders: "client" or "server"
    inFile,    \* chunks saved in the region file
    png,       \* png[k]: the file of chunk k in the output directory
    mcmap,     \* mcmap runs
    toWrite,   \* chunks this run has still to write
    opened,    \* those whose file is open
    asked,     \* server: the chunk that was asked for
    marker,    \* server: .rendered
    toSend,    \* client: tiles not yet sent
    arriving,  \* arriving[u]: the batch under way in u, with what was read of each chunk
    onMap,     \* onMap[k]: the picture the map got of chunk k
    brokenOff, \* chunks whose picture on the map is of a write that was broken off
    unwritten, \* chunks mcmap ever failed to write
    leftTorn,  \* chunks a run that was cut short left half written
    skipped    \* chunks in the file that a run could not read

mapVars == <<arriving, onMap, brokenOff>>

tilesVars == <<place, inFile, png, mcmap, toWrite, opened, asked, marker, toSend, mapVars,
               unwritten, leftTorn, skipped>>

Pictures == {"absent", "torn", "whole"}

NoTiles == [k \in TileChunks |-> "absent"]

\* On the server the region is stored, on the client it is still to be saved.
TilesInit ==
    /\ place \in {"client", "server"}
    /\ inFile \in IF place = "client" THEN {{}} ELSE (SUBSET TileChunks) \ {{}}
    /\ png = NoTiles
    /\ mcmap = FALSE /\ toWrite = {} /\ opened = {}
    /\ asked = NoChunk /\ marker = FALSE /\ toSend = {}
    /\ arriving = [u \in Uploads |-> NoTiles] /\ onMap = NoTiles /\ brokenOff = {}
    /\ unwritten = {} /\ leftTorn = {} /\ skipped = {}

\* Minecraft saves a chunk whenever it likes.
SaveChunk(k) ==
    /\ place = "client" /\ k \notin inFile
    /\ inFile' = inFile \cup {k}
    /\ UNCHANGED <<place, png, mcmap, toWrite, opened, asked, marker, toSend, mapVars,
                   unwritten, leftTorn, skipped>>

-----------------------------------------------------------------------------
(* mcmap *)

\* read_region_file leaves out the chunks it cannot read; without any, mcmap
\* ends with an error.
Reads(R) ==
    /\ R # {} /\ R \subseteq inFile
    /\ mcmap' = TRUE /\ toWrite' = R
    /\ skipped' = skipped \cup (inFile \ R)

\* The client comes to a region, for the first time or again.
RenderRegion ==
    /\ place = "client" /\ ~mcmap /\ toSend = {}
    /\ \E R \in SUBSET inFile : Reads(R)
    /\ UNCHANGED <<place, inFile, png, opened, asked, marker, toSend, mapVars, unwritten, leftTorn>>

\* std::fs::write: the file is created or emptied, then written, and either may fail.
OpenPng(k) ==
    /\ k \in toWrite \ opened
    /\ \/ /\ png' = [png EXCEPT ![k] = "torn"]
          /\ opened' = opened \cup {k}
          /\ UNCHANGED <<toWrite, unwritten>>
       \/ /\ toWrite' = toWrite \ {k}
          /\ unwritten' = unwritten \cup {k}
          /\ UNCHANGED <<png, opened>>
    /\ UNCHANGED <<place, inFile, mcmap, asked, marker, toSend, mapVars, leftTorn, skipped>>

WritePng(k) ==
    /\ k \in opened
    /\ opened' = opened \ {k} /\ toWrite' = toWrite \ {k}
    /\ \/ png' = [png EXCEPT ![k] = "whole"] /\ UNCHANGED unwritten
       \/ unwritten' = unwritten \cup {k} /\ UNCHANGED png
    /\ UNCHANGED <<place, inFile, mcmap, asked, marker, toSend, mapVars, leftTorn, skipped>>

\* What ends a run early leaves: after a timeout, a crash or a kill.
Leaves ==
    /\ mcmap /\ mcmap' = FALSE
    /\ toWrite' = {} /\ opened' = {}
    /\ leftTorn' = leftTorn \cup opened
    /\ UNCHANGED <<place, inFile, png, mapVars, unwritten, skipped>>

-----------------------------------------------------------------------------
(* The client *)

\* Everything in the output directory, whichever run wrote it.
Collected == {k \in TileChunks : png[k] # "absent"}

RunCutShort_Collects ==
    /\ place = "client" /\ Leaves
    /\ toSend' = Collected
    /\ UNCHANGED <<asked, marker>>

\* render_region returns nothing then.
RunCutShort ==
    /\ place = "client" /\ Leaves
    /\ UNCHANGED <<asked, marker, toSend>>

MapEnds ==
    /\ place = "client" /\ mcmap /\ toWrite = {}
    /\ mcmap' = FALSE /\ toSend' = Collected
    /\ UNCHANGED <<place, inFile, png, toWrite, opened, asked, marker, mapVars, unwritten, leftTorn,
                   skipped>>

\* The tiles are read, and the request takes what it takes: the client goes on with
\* the answer or without one, and does not send the batch again.
SendBatch ==
    /\ place = "client" /\ toSend # {}
    /\ \E S \in SUBSET toSend :
        /\ Cardinality(S) = Min({TileBatch, Cardinality(toSend)})
        /\ toSend' = toSend \ S
        /\ \/ UNCHANGED arriving
           \/ \E u \in Uploads :
                /\ arriving[u] = NoTiles
                /\ arriving' = [arriving EXCEPT ![u] =
                                 [k \in TileChunks |-> IF k \in S THEN png[k] ELSE "absent"]]
    /\ UNCHANGED <<place, inFile, png, mcmap, toWrite, opened, asked, marker, onMap, brokenOff,
                   unwritten, leftTorn, skipped>>

\* The client is stopped between two batches.
StopsSending ==
    /\ place = "client" /\ toSend # {}
    /\ toSend' = {}
    /\ UNCHANGED <<place, inFile, png, mcmap, toWrite, opened, asked, marker, mapVars, unwritten,
                   leftTorn, skipped>>

-----------------------------------------------------------------------------
(* upload_tiles_batch on the server *)

InBatch(u) == {k \in TileChunks : arriving[u][k] # "absent"}

\* The tiles of S are written over what the map has.
Stores(u, S) == [k \in TileChunks |-> IF k \in S THEN arriving[u][k] ELSE onMap[k]]

Handled(u) ==
    /\ InBatch(u) # {}
    /\ arriving' = [arriving EXCEPT ![u] = NoTiles]
    /\ UNCHANGED <<place, inFile, png, mcmap, toWrite, opened, asked, marker, toSend, unwritten,
                   leftTorn, skipped>>

StoreBatch(u) ==
    /\ Handled(u)
    /\ onMap' = Stores(u, InBatch(u)) /\ brokenOff' = brokenOff \ InBatch(u)

\* The handler raises, breaks off or dies with the server: some tiles are written,
\* the next one perhaps in part, and the others never; none when the request was
\* refused.
StoreBreaksOff(u) ==
    /\ Handled(u)
    /\ \E S \in SUBSET InBatch(u) :
        \/ onMap' = Stores(u, S) /\ brokenOff' = brokenOff \ S
        \/ \E k \in InBatch(u) \ S :
            /\ onMap' = [Stores(u, S) EXCEPT ![k] = "torn"]
            /\ brokenOff' = (brokenOff \ S) \cup {k}

-----------------------------------------------------------------------------
(* RustTiler.render_chunk *)

Answers(k) == onMap' = [onMap EXCEPT ![k] = png[k]]

\* A file that is there is the answer; without it all are rendered, once.
RenderChunk(k) ==
    /\ place = "server" /\ ~mcmap
    /\ \/ /\ png[k] # "absent" \/ marker
          /\ Answers(k)
          /\ UNCHANGED <<mcmap, toWrite, asked, skipped>>
       \/ /\ png[k] = "absent" /\ ~marker
          /\ asked' = k /\ Reads(inFile)
          /\ UNCHANGED onMap
    /\ UNCHANGED <<place, inFile, png, opened, marker, toSend, arriving, brokenOff, unwritten,
                   leftTorn>>

\* The run fails: nothing is answered and nothing marked.
RenderFails ==
    /\ place = "server" /\ Leaves
    /\ asked' = NoChunk
    /\ UNCHANGED <<marker, toSend>>

RegionRendered ==
    /\ place = "server" /\ mcmap /\ toWrite = {}
    /\ mcmap' = FALSE /\ marker' = TRUE
    /\ Answers(asked) /\ asked' = NoChunk
    /\ UNCHANGED <<place, inFile, png, toWrite, opened, toSend, arriving, brokenOff, unwritten,
                   leftTorn, skipped>>

TilesNext ==
    \/ RenderRegion \/ RunCutShort \/ MapEnds \/ SendBatch \/ StopsSending
    \/ RenderFails \/ RegionRendered
    \/ \E u \in Uploads : StoreBatch(u) \/ StoreBreaksOff(u)
    \/ \E k \in TileChunks : SaveChunk(k) \/ OpenPng(k) \/ WritePng(k) \/ RenderChunk(k)

TilesSpec == TilesInit /\ [][TilesNext]_tilesVars

-----------------------------------------------------------------------------
(* Properties *)

\* Types; and a file that is open is being written by the run.
TilesTypeOK ==
    /\ inFile \subseteq TileChunks
    /\ png \in [TileChunks -> Pictures] /\ onMap \in [TileChunks -> Pictures]
    /\ arriving \in [Uploads -> [TileChunks -> Pictures]]
    /\ opened \subseteq toWrite /\ toWrite \subseteq inFile
    /\ ~mcmap => toWrite = {}
    /\ \A k \in opened : png[k] = "torn"

\* A torn picture is on the map for one of four reasons: the server was broken off
\* in writing it, and did not get another since; mcmap once could not write it; on
\* the server, a run was cut short, since what it left is never rendered again; on
\* the client, a run was cut short and another, which the client believed, could not
\* read that chunk.  What was cut short is never sent by itself, however late a batch
\* arrives.  And what the server takes for completely rendered is, but for what
\* could not be written.
TornTilesAreExplained ==
    /\ \A k \in TileChunks : onMap[k] = "torn" =>
        \/ k \in brokenOff
        \/ k \in unwritten
        \/ k \in leftTorn /\ (place = "client" => k \in skipped)
    /\ marker => \A k \in inFile : png[k] = "whole" \/ k \in unwritten

=============================================================================
