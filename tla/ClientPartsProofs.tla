------------------------- MODULE ClientPartsProofs --------------------------
(***************************************************************************)
(* Proofs about the parts of a client: Minecraft's process, the update of  *)
(* its own files, the tiles it renders, what it installs before a launch   *)
(* (for any number of attempts, releases, chunks, failures and crashes),   *)
(* and what it makes of Chunky's percentages (for any number of chunks     *)
(* below 10000); and that the parts, explored together, take no steps but  *)
(* their own.                                                              *)
(***************************************************************************)
EXTENDS MCClientParts, RconProofs, TLAPS

(* ServerProcess: whose readiness the client acts on, and no server left over *)

\* The flag and the pipe are of the process that runs now.
ReadyInv ==
    /\ pipe \/ ready => printed
    /\ main \in {"check", "connect", "work"} => printed

LEMMA ReadyStep == ReadyInv /\ [ProcessNext]_procVars => ReadyInv'
<1> SUFFICES ASSUME ReadyInv, [ProcessNext]_procVars
             PROVE  ReadyInv'
  OBVIOUS
<1> USE DEF ReadyInv
<1>1. CASE Launch1 \/ Restarts
  BY <1>1 DEF Launch1, Restarts, Spawn, Fresh
<1>2. CASE SeesReady
  BY <1>2 DEF SeesReady
<1>3. CASE GivesUpWaiting
  BY <1>3 DEF GivesUpWaiting, NotReady, StopLifecycle
<1>4. CASE Checks
  BY <1>4 DEF Checks
<1>5. CASE Connects
  BY <1>5 DEF Connects, StopLifecycle
<1>6. CASE WorkEnds
  BY <1>6 DEF WorkEnds, StopLifecycle
<1>7. CASE StopReturns \/ StopDone \/ StopKills
  BY <1>7 DEF StopReturns, StopDone, StopKills, Stopped, AfterStop
<1>8. CASE StopGoesOn \/ StopWrites
  BY <1>8 DEF StopGoesOn, StopWrites
<1>9. CASE Prints \/ ReaderSees
  BY <1>9 DEF Prints, ReaderSees
<1>10. CASE Boots \/ Exits \/ StrayExits
  BY <1>10 DEF Boots, Exits, StrayExits
<1>11. CASE LoggerActs
  BY <1>11 DEF LoggerActs, LoggerEnds
<1>12. CASE UNCHANGED procVars
  BY <1>12 DEF procVars
<1> QED
  BY <1>1, <1>2, <1>3, <1>4, <1>5, <1>6, <1>7, <1>8, <1>9, <1>10, <1>11, <1>12
  DEF ProcessNext, MainActs

\* The client goes on to RCON only after the process that runs now said it is
\* ready (MCServer.wait_until_ready in client/instance_runner.py).
THEOREM ReadyIsAlwaysOfThisProcess == ProcessSpec => []ReadyIsOfThisProcess
<1>1. ProcessInit => ReadyInv
  BY DEF ProcessInit, ReadyInv
<1>2. ReadyInv => ReadyIsOfThisProcess
  BY DEF ReadyInv, ReadyIsOfThisProcess
<1> QED
  BY <1>1, ReadyStep, <1>2, PTL DEF ProcessSpec

-----------------------------------------------------------------------------

\* A call of stop is under way only in restart_for_rcon and at the end; whoever
\* returned from it, or failed in it, has no server; and no process was ever left
\* behind by a launch.
StrayInv ==
    /\ stopAt # "idle" => main \in {"stop", "restart"}
    /\ main = "stop" => stopAt # "idle"
    /\ main = "work" => link
    /\ immortal \/ /\ stray = 0
                   /\ main \in {"launch", "ended"} => ~Alive
                   /\ main = "restart" /\ stopAt = "idle" => ~Alive
                   /\ main = "raised" /\ ~link => ~Alive

LEMMA StrayStep == StrayInv /\ [ProcessNext]_procVars => StrayInv'
<1> SUFFICES ASSUME StrayInv, [ProcessNext]_procVars
             PROVE  StrayInv'
  OBVIOUS
<1> USE DEF StrayInv
<1>1. CASE Launch1 \/ Restarts
  <2>1. /\ main' \in {"wait", "wait again"}
        /\ immortal' = immortal /\ stray' = stray + (IF Alive THEN 1 ELSE 0)
        /\ immortal \/ ~Alive
    BY <1>1 DEF Launch1, Restarts, Spawn
  <2>2. stopAt' = "idle"
    BY <1>1, <2>1 DEF Launch1, Restarts
  <2>3. ASSUME stray = 0, ~Alive PROVE stray' = 0
    <3>1. stray' = stray + 0
      BY <2>1, <2>3, Zenon
    <3> QED BY <2>3, <3>1
  <2> QED BY <2>1, <2>2, <2>3
<1>2. CASE SeesReady
  BY <1>2 DEF SeesReady, Waiting, Alive
<1>3. CASE GivesUpWaiting
  BY <1>3 DEF GivesUpWaiting, NotReady, StopLifecycle, Alive
<1>4. CASE Checks
  BY <1>4 DEF Checks, Alive
<1>5. CASE Connects
  BY <1>5 DEF Connects, StopLifecycle, Alive
<1>6. CASE WorkEnds
  BY <1>6 DEF WorkEnds, StopLifecycle, Alive
<1>7. CASE StopReturns \/ StopDone
  BY <1>7 DEF StopReturns, StopDone, Stopped, AfterStop, Alive
<1>8. CASE StopKills
  BY <1>8 DEF StopKills, Stopped, AfterStop, Alive
<1>9. CASE StopGoesOn \/ StopWrites
  BY <1>9 DEF StopGoesOn, StopWrites, Alive
<1>10. CASE Prints \/ ReaderSees
  BY <1>10 DEF Prints, ReaderSees, Alive
<1>11. CASE Boots \/ Exits \/ StrayExits
  BY <1>11 DEF Boots, Exits, StrayExits, Alive
<1>12. CASE LoggerActs
  BY <1>12 DEF LoggerActs, LoggerEnds, Alive
<1>13. CASE UNCHANGED procVars
  BY <1>13 DEF procVars, Alive
<1> QED
  BY <1>1, <1>2, <1>3, <1>4, <1>5, <1>6, <1>7, <1>8, <1>9, <1>10, <1>11, <1>12, <1>13
  DEF ProcessNext, MainActs

\* Two servers never run on one world, and a client that ends leaves none behind,
\* unless one survived kill (MCServer.stop and MCLifecycle.restart_for_rcon).
THEOREM NoServerIsLeftOver == ProcessSpec => []NoStrayServer
<1>1. ProcessInit => StrayInv
  BY DEF ProcessInit, StrayInv, Alive
<1>2. StrayInv => NoStrayServer
  BY DEF StrayInv, NoStrayServer
<1> QED
  BY <1>1, StrayStep, <1>2, PTL DEF ProcessSpec

-----------------------------------------------------------------------------
(* Updater: one of the two directories is always a whole client *)

\* UpdateCanBeUndone, and what it rests on: the copy is made of a whole client,
\* and from then on it is the whole one.
UndoInv ==
    spoilt \/ /\ Whole(client) \/ Whole(backup)
              /\ doing = "copy" => Whole(client) /\ taken = client
              /\ doing \in {"unpack", "remove", "move"} => Whole(backup) /\ backup = taken

LEMMA UndoStep == UndoInv /\ [UpdaterNext]_updVars => UndoInv'
<1> SUFFICES ASSUME UndoInv, [UpdaterNext]_updVars
             PROVE  UndoInv'
  OBVIOUS
<1> USE DEF UndoInv, Whole
<1>1. CASE Release \/ Check \/ Download \/ DownloadFails
  BY <1>1 DEF Release, Check, Download, DownloadFails
<1>2. CASE Clear
  BY <1>2 DEF Clear
<1>3. CASE Copy
  BY <1>3 DEF Copy
<1>4. CASE Unpack \/ UnpackFails
  BY <1>4 DEF Unpack, UnpackFails
<1>5. CASE Remove
  BY <1>5 DEF Remove
<1>6. CASE Move
  BY <1>6 DEF Move
<1>7. CASE Dies
  BY <1>7 DEF Dies
<1>8. CASE UNCHANGED updVars
  BY <1>8 DEF updVars
<1> QED
  BY <1>1, <1>2, <1>3, <1>4, <1>5, <1>6, <1>7, <1>8 DEF UpdaterNext

\* Until an update starts from files of two versions, one of the directory and its
\* copy is a whole client, and a rollback has the version the update started from
\* (apply_update in client/updater.py).
THEOREM UpdatesCanBeUndone == UpdaterSpec => []UpdateCanBeUndone
<1>1. UpdaterInit => UndoInv
  BY DEF UpdaterInit, UndoInv, Whole, Full
<1>2. UndoInv => UpdateCanBeUndone
  BY DEF UndoInv, UpdateCanBeUndone
<1> QED
  BY <1>1, UndoStep, <1>2, PTL DEF UpdaterSpec

-----------------------------------------------------------------------------
(* Tiles: how a torn picture can reach the map *)

\* Why the tile of chunk k may be torn and yet be believed.
Explained(k) == k \in unwritten \/ (k \in leftTorn /\ (place = "client" => k \in skipped))

\* A torn tile is open, could not be written, or was left by a run cut short; a
\* run makes good what it can read; what is to be sent, what is under way and what
\* was shown is explained; the marker stands for a directory nobody writes any more.
TornInv ==
    /\ place \in {"client", "server"}
    /\ png \in [TileChunks -> Pictures] /\ onMap \in [TileChunks -> Pictures]
    /\ arriving \in [Uploads -> [TileChunks -> Pictures]]
    /\ opened \subseteq toWrite /\ leftTorn \subseteq inFile /\ toWrite \subseteq inFile
    /\ toSend \subseteq TileChunks /\ (place = "server" => toSend = {})
    /\ ~mcmap => toWrite = {}
    /\ \A k \in TileChunks : png[k] = "torn" => k \in opened \cup unwritten \cup leftTorn
    /\ \A k \in TileChunks : onMap[k] = "torn" => k \in brokenOff \/ Explained(k)
    /\ \A u \in Uploads, k \in TileChunks : arriving[u][k] = "torn" => Explained(k)
    /\ \A k \in toSend : png[k] = "torn" => Explained(k)
    /\ mcmap => /\ toSend = {}
                /\ \A k \in TileChunks \ toWrite : png[k] = "torn" => Explained(k)
                /\ place = "server" =>
                     \A k \in inFile \ toWrite : png[k] = "whole" \/ k \in unwritten
    /\ marker => /\ ~mcmap /\ place = "server"
                 /\ \A k \in inFile : png[k] = "whole" \/ k \in unwritten

LEMMA TornInit == TilesInit => TornInv
  BY DEF TilesInit, NoTiles, TornInv, Pictures, Explained

\* What the tiles of S bring to the map is explained, and what was there keeps its
\* reason.
LEMMA StoredIsExplained ==
    ASSUME TornInv, NEW u \in Uploads, NEW S \in SUBSET TileChunks
    PROVE  /\ Stores(u, S) \in [TileChunks -> Pictures]
           /\ \A k \in TileChunks : Stores(u, S)[k] = "torn" =>
                                        k \in brokenOff \ S \/ Explained(k)
<1> USE DEF TornInv
<1>1. \A k \in TileChunks :
          Stores(u, S)[k] = IF k \in S THEN arriving[u][k] ELSE onMap[k]
  BY DEF Stores
<1>2. Stores(u, S) \in [TileChunks -> Pictures]
  BY DEF Stores
<1> QED
  BY <1>1, <1>2

LEMMA TornStep == TornInv /\ [TilesNext]_tilesVars => TornInv'
<1> SUFFICES ASSUME TornInv, [TilesNext]_tilesVars
             PROVE  TornInv'
  OBVIOUS
<1> USE DEF TornInv, Explained, mapVars
<1>1. ASSUME NEW k \in TileChunks, SaveChunk(k) PROVE TornInv'
  BY <1>1 DEF SaveChunk
<1>2. CASE RenderRegion
  <2>1. PICK R \in SUBSET inFile :
          /\ mcmap' = TRUE /\ toWrite' = R /\ skipped' = skipped \cup (inFile \ R)
    BY <1>2 DEF RenderRegion, Reads
  <2>2. /\ place = "client" /\ opened = {} /\ toSend = {}
        /\ UNCHANGED <<place, inFile, png, opened, asked, marker, toSend, mapVars,
                       unwritten, leftTorn>>
    BY <1>2 DEF RenderRegion
  <2>3. \A k \in TileChunks : Explained(k) => Explained(k)'
    BY <2>1, <2>2
  <2>4. \A k \in TileChunks \ toWrite' : png[k] = "torn" => Explained(k)'
    BY <2>1, <2>2
  <2>5. ~marker
    BY <2>2
  <2> HIDE DEF Explained
  <2> QED BY <2>1, <2>2, <2>3, <2>4, <2>5
<1>3. ASSUME NEW k \in TileChunks, OpenPng(k) PROVE TornInv'
  <2>0. /\ k \in toWrite /\ mcmap
        /\ UNCHANGED <<place, inFile, mcmap, asked, marker, toSend, mapVars, leftTorn, skipped>>
    BY <1>3 DEF OpenPng
  <2>1. CASE /\ png' = [png EXCEPT ![k] = "torn"] /\ opened' = opened \cup {k}
             /\ UNCHANGED <<toWrite, unwritten>>
    <3>1. png' \in [TileChunks -> Pictures] /\ png'[k] = "torn"
      BY <2>1 DEF Pictures
    <3>2. \A j \in TileChunks \ {k} : png'[j] = png[j]
      BY <2>1
    <3> QED BY <2>0, <2>1, <3>1, <3>2
  <2>2. CASE /\ toWrite' = toWrite \ {k} /\ unwritten' = unwritten \cup {k}
             /\ k \notin opened /\ UNCHANGED <<png, opened>>
    BY <2>0, <2>2
  <2> QED BY <1>3, <2>1, <2>2 DEF OpenPng
<1>4. ASSUME NEW k \in TileChunks, WritePng(k) PROVE TornInv'
  <2>0. /\ k \in opened /\ k \in toWrite /\ mcmap
        /\ opened' = opened \ {k} /\ toWrite' = toWrite \ {k}
        /\ UNCHANGED <<place, inFile, mcmap, asked, marker, toSend, mapVars, leftTorn, skipped>>
    BY <1>4 DEF WritePng
  <2>1. CASE png' = [png EXCEPT ![k] = "whole"] /\ UNCHANGED unwritten
    <3>1. png' \in [TileChunks -> Pictures] /\ png'[k] = "whole"
      BY <2>1 DEF Pictures
    <3>2. \A j \in TileChunks \ {k} : png'[j] = png[j]
      BY <2>1
    <3> QED BY <2>0, <2>1, <3>1, <3>2
  <2>2. CASE unwritten' = unwritten \cup {k} /\ UNCHANGED png
    BY <2>0, <2>2
  <2> QED BY <1>4, <2>1, <2>2 DEF WritePng
<1>5. CASE RunCutShort
  BY <1>5 DEF RunCutShort, Leaves
<1>6. CASE MapEnds
  BY <1>6 DEF MapEnds, Collected
<1>7. CASE SendBatch
  <2>1. UNCHANGED <<place, inFile, png, mcmap, toWrite, opened, asked, marker, onMap, brokenOff,
                    unwritten, leftTorn, skipped>>
    BY <1>7 DEF SendBatch
  <2>2. PICK S \in SUBSET toSend :
          /\ toSend' = toSend \ S
          /\ \/ UNCHANGED arriving
             \/ \E u \in Uploads : arriving' = [arriving EXCEPT ![u] =
                    [k \in TileChunks |-> IF k \in S THEN png[k] ELSE "absent"]]
    BY <1>7 DEF SendBatch
  <2>3. /\ arriving' \in [Uploads -> [TileChunks -> Pictures]]
        /\ \A u \in Uploads, k \in TileChunks : arriving'[u][k] = "torn" => Explained(k)
    BY <2>2 DEF Pictures
  <2>4. \A k \in TileChunks : Explained(k)' = Explained(k)
    BY <2>1
  <2> HIDE DEF Explained
  <2> QED BY <2>1, <2>2, <2>3, <2>4
<1>8. CASE StopsSending
  BY <1>8 DEF StopsSending
<1>9. ASSUME NEW k \in TileChunks, RenderChunk(k) PROVE TornInv'
  <2>0. /\ place = "server" /\ ~mcmap /\ opened = {}
        /\ UNCHANGED <<place, inFile, png, opened, marker, toSend, arriving, brokenOff,
                       unwritten, leftTorn>>
    BY <1>9 DEF RenderChunk
  <2>1. CASE Answers(k) /\ UNCHANGED <<mcmap, toWrite, asked, skipped>>
    <3>1. /\ onMap' \in [TileChunks -> Pictures] /\ onMap'[k] = png[k]
          /\ \A j \in TileChunks \ {k} : onMap'[j] = onMap[j]
      BY <2>1 DEF Answers
    <3> QED BY <2>0, <2>1, <3>1
  <2>2. CASE ~marker /\ Reads(inFile) /\ UNCHANGED onMap
    <3>1. mcmap' = TRUE /\ toWrite' = inFile /\ skipped' = skipped
      BY <2>2 DEF Reads
    <3>2. \A j \in TileChunks : Explained(j) => Explained(j)'
      BY <2>0, <2>2, <3>1
    <3>3. \A j \in TileChunks \ toWrite' : png[j] = "torn" => Explained(j)'
      BY <2>0, <2>2, <3>1
    <3>4. toSend = {}
      BY <2>0
    <3> HIDE DEF Explained
    <3> QED BY <2>0, <2>2, <3>1, <3>2, <3>3, <3>4
  <2> QED BY <1>9, <2>1, <2>2 DEF RenderChunk
<1>10. CASE RenderFails
  BY <1>10 DEF RenderFails, Leaves
<1>11. CASE RegionRendered
  BY <1>11 DEF RegionRendered, Answers
<1>12. ASSUME NEW u \in Uploads, StoreBatch(u) \/ StoreBreaksOff(u) PROVE TornInv'
  <2>1. /\ arriving' = [arriving EXCEPT ![u] = NoTiles]
        /\ UNCHANGED <<place, inFile, png, mcmap, toWrite, opened, asked, marker, toSend,
                       unwritten, leftTorn, skipped>>
    BY <1>12 DEF StoreBatch, StoreBreaksOff, Handled
  <2>2. /\ arriving' \in [Uploads -> [TileChunks -> Pictures]]
        /\ \A v \in Uploads, k \in TileChunks : arriving'[v][k] = "torn" => Explained(k)
    BY <2>1 DEF NoTiles, Pictures
  <2>3. /\ onMap' \in [TileChunks -> Pictures]
        /\ \A k \in TileChunks : onMap'[k] = "torn" => k \in brokenOff' \/ Explained(k)
    <3>1. CASE StoreBatch(u)
      BY <3>1, StoredIsExplained DEF StoreBatch, InBatch
    <3>2. CASE StoreBreaksOff(u)
      <4>1. PICK S \in SUBSET InBatch(u) :
              \/ onMap' = Stores(u, S) /\ brokenOff' = brokenOff \ S
              \/ \E k \in InBatch(u) \ S :
                   /\ onMap' = [Stores(u, S) EXCEPT ![k] = "torn"]
                   /\ brokenOff' = (brokenOff \ S) \cup {k}
        BY <3>2 DEF StoreBreaksOff
      <4>2. S \in SUBSET TileChunks
        BY DEF InBatch
      <4>3. /\ Stores(u, S) \in [TileChunks -> Pictures]
            /\ \A k \in TileChunks : Stores(u, S)[k] = "torn" =>
                                         k \in brokenOff \ S \/ Explained(k)
        BY <4>2, StoredIsExplained
      <4>4. CASE onMap' = Stores(u, S) /\ brokenOff' = brokenOff \ S
        BY <4>3, <4>4
      <4>5. ASSUME NEW k \in InBatch(u) \ S,
                   onMap' = [Stores(u, S) EXCEPT ![k] = "torn"],
                   brokenOff' = (brokenOff \ S) \cup {k}
            PROVE  /\ onMap' \in [TileChunks -> Pictures]
                   /\ \A j \in TileChunks :
                        onMap'[j] = "torn" => j \in brokenOff' \/ Explained(j)
        BY <4>3, <4>5 DEF Pictures
      <4> QED
        BY <4>1, <4>4, <4>5
    <3> QED
      BY <1>12, <3>1, <3>2
  <2>4. \A k \in TileChunks : Explained(k)' = Explained(k)
    BY <2>1
  <2> HIDE DEF Explained
  <2> QED BY <2>1, <2>2, <2>3, <2>4
<1>13. CASE UNCHANGED tilesVars
  BY <1>13 DEF tilesVars
<1> QED
  BY <1>1, <1>2, <1>3, <1>4, <1>5, <1>6, <1>7, <1>8, <1>9, <1>10, <1>11, <1>12, <1>13
  DEF TilesNext

\* A torn tile is on the map only when the server was broken off in writing it, when
\* mcmap could not write it, or, after a run cut short, when nothing renders it
\* again, however late the batch that carried it was written; and what is marked as
\* rendered is, but for what could not be written (upload_tiles_batch in
\* server/routes/tiles.py, render_region in client/tiler.py, render_chunk in
\* server/map_generator/rust_bridge.py).
THEOREM TornTilesAreAlwaysExplained == TilesSpec => []TornTilesAreExplained
<1>1. TornInv => TornTilesAreExplained
  BY DEF TornInv, Explained, TornTilesAreExplained
<1> QED
  BY TornInit, TornStep, <1>1, PTL DEF TilesSpec

-----------------------------------------------------------------------------
(* Provisioning: what a launch can rely on, and what stays damaged *)

\* What the variables hold.
StepTypes == step \in 0 .. 10
CountTypes == cuts \in 0 .. MaxCuts /\ badJava \in Nat
DiskTypes ==
    /\ disk \in [Files -> {"absent", "part", "inert", "whole"}]
    /\ cut \subseteq Files \cup {"java"}
    /\ pwSeen \in {"none", "empty", "token"}
    /\ writing \in BOOLEAN
ProvTypes == StepTypes /\ CountTypes /\ DiskTypes

\* Where the run is, by number and by name.
LEMMA WhereTheRunIs ==
    ASSUME step \in 0 .. 10
    PROVE  /\ (step = 0 <=> Now = "nothing") /\ (step = 1 <=> Now = "java")
           /\ (step = 2 <=> Now = "eula") /\ (step = 3 <=> Now = "mods")
           /\ (step = 4 <=> Now = "installer") /\ (step = 5 <=> Now = "jar")
           /\ (step = 6 <=> Now = "palette") /\ (step = 7 <=> Now = "mcmap")
           /\ (step = 8 <=> Now = "password") /\ (step = 9 <=> Now = "properties")
           /\ (step = 10 <=> Now = "launched")
<1>1. /\ Steps[1] = "java" /\ Steps[2] = "eula" /\ Steps[3] = "mods"
      /\ Steps[4] = "installer" /\ Steps[5] = "jar" /\ Steps[6] = "palette"
      /\ Steps[7] = "mcmap" /\ Steps[8] = "password" /\ Steps[9] = "properties"
      /\ Steps[10] = "launched"
  BY DEF Steps
<1> QED
  BY <1>1 DEF Now

\* Files are written during steps 2 to 9.
LEMMA FilesHaveSteps ==
    ASSUME step \in 0 .. 10
    PROVE  Now \in Files <=> step \in 2 .. 9
  BY WhereTheRunIs DEF Files

\* Files that are not written again once they exist.
Kept == Files \ ({"properties"} \cup IF zip THEN {"mods"} ELSE {})

\* What the steps behind the run have left on the disk.
ReachedInv ==
    /\ step > 1 => sysJava \/ jdk
    /\ step > 3 /\ zip => disk["mods"] = "whole"
    /\ step > 5 => There("jar")
    /\ step > 8 => There("password")
    /\ step > 9 => /\ disk["properties"] = "whole"
                   /\ pwSeen = "token" <=> disk["password"] = "whole"

\* A file is open only during its step, Java only where there is none, and the
\* installer that runs is whole; a jar that is downloaded needs none.
OpenInv ==
    /\ writing => step \in 1 .. 9
    /\ writing /\ step = 1 => ~sysJava /\ ~jdk
    /\ writing /\ step = 5 /\ ~direct => disk["installer"] = "whole"
    /\ direct => disk["installer"] = "absent"

JavaInv ==
    /\ junk => "java" \in cut
    /\ badJava <= 1 /\ (badJava = 1 => "java" \in cut /\ jdk)

\* DamageIsForEver, and what it says of the file that is open: it is damaged
\* and was whole or absent before.
DamageOf(f) ==
    IF writing /\ Now = f THEN Damaged(f) /\ f \notin cut ELSE Damaged(f) <=> f \in cut

DamageInv == \A f \in Kept : DamageOf(f)

ProvInv == ProvTypes /\ ReachedInv /\ OpenInv /\ JavaInv /\ DamageInv

LEMMA ProvInit == ProvisioningInit => ProvInv
<1> SUFFICES ASSUME ProvisioningInit
             PROVE  ProvInv
  OBVIOUS
<1> USE ProvisioningAssumption DEF ProvisioningInit
<1>1. disk \in [Files -> {"absent", "part", "inert", "whole"}]
  OBVIOUS
<1>2. ProvTypes
  <2>1. cuts \in 0 .. MaxCuts /\ step \in 0 .. 10 /\ badJava \in Nat
    OBVIOUS
  <2> QED
    BY <1>1, <2>1 DEF ProvTypes, StepTypes, CountTypes, DiskTypes
<1>3. ASSUME NEW f \in Kept
      PROVE  DamageOf(f)
  <2>1. disk[f] = "absent"
    BY DEF Kept
  <2> QED
    BY <2>1 DEF DamageOf, Damaged
<1>4. JavaInv /\ ReachedInv
  BY DEF JavaInv, ReachedInv
<1>5. OpenInv
  BY DEF OpenInv, Files
<1> QED
  BY <1>2, <1>3, <1>4, <1>5 DEF ProvInv, DamageInv

\* Steps during which no file is open, before and after, and that leave the
\* files alone.
LEMMA SameDamage ==
    ASSUME DamageInv,
           writing => Now \notin Files, writing' => (Now \notin Files)',
           UNCHANGED <<zip, disk, cut>>
    PROVE  DamageInv'
<1> SUFFICES ASSUME NEW f \in Kept
             PROVE  DamageOf(f)'
  BY Zenon DEF DamageInv, Kept
<1>1. f \in Files
  BY DEF Kept
<1>2. Damaged(f) <=> f \in cut
  BY <1>1 DEF DamageInv, DamageOf
<1> QED
  BY <1>1, <1>2 DEF DamageOf, Damaged

\* The same if what an upload of Java cuts short is noted.
LEMMA JavaDamagesNoFile ==
    ASSUME DamageInv,
           writing => Now \notin Files, ~writing',
           UNCHANGED <<zip, disk>>, cut' = cut \cup {"java"}
    PROVE  DamageInv'
<1> SUFFICES ASSUME NEW f \in Kept
             PROVE  DamageOf(f)'
  BY Zenon DEF DamageInv, Kept
<1>1. f \in Files /\ f # "java"
  BY DEF Kept, Files
<1>2. Damaged(f) <=> f \in cut
  BY <1>1 DEF DamageInv, DamageOf
<1> QED
  BY <1>1, <1>2 DEF DamageOf, Damaged

LEMMA ProvStep == ProvInv /\ [ProvisioningNext]_provVars => ProvInv'
<1> SUFFICES ASSUME ProvInv, [ProvisioningNext]_provVars
             PROVE  ProvInv'
  OBVIOUS
<1> USE ProvisioningAssumption
<1> step \in 0 .. 10
  BY DEF ProvInv, ProvTypes, StepTypes, CountTypes, DiskTypes
<1> USE WhereTheRunIs, FilesHaveSteps
<1>1. CASE StartClient
  <2>1. step' = 1 /\ ~writing /\ writing' = FALSE
    BY <1>1 DEF StartClient, ProvInv, OpenInv, Launch, ProvTypes, StepTypes, CountTypes, DiskTypes
  <2>2. DamageInv'
    BY <1>1, <2>1, SameDamage DEF StartClient, ProvInv
  <2> QED
    BY <1>1, <2>1, <2>2
    DEF StartClient, ProvInv, ProvTypes, StepTypes, CountTypes, DiskTypes, ReachedInv,
        OpenInv, JavaInv
<1>2. CASE Take
  <2>1. /\ step \in 2 .. 9 /\ step' = step + 1 /\ ~writing /\ writing' = FALSE
        /\ UNCHANGED <<zip, sysJava, direct, disk, cut, cuts, jdk, junk, badJava, pwSeen>>
    BY <1>2 DEF Take, Advance
  <2>2. DamageInv'
    BY <2>1, SameDamage DEF ProvInv
  <2>3. step # 9 /\ (step = 3 => ~zip) /\ (step = 5 => There("jar"))
        /\ (step = 8 => There("password"))
    BY <1>2 DEF Take, Skipped, ModsKept, JarKept, PasswordKept
  <2>4. ReachedInv'
    BY <2>1, <2>3 DEF ProvInv, ReachedInv, There
  <2>5. StepTypes'
    BY <2>1 DEF StepTypes
  <2>6. CountTypes' /\ DiskTypes'
    BY <2>1 DEF ProvInv, ProvTypes, CountTypes, DiskTypes
  <2>7. OpenInv'
    BY <2>1 DEF ProvInv, OpenInv
  <2> QED
    BY <2>1, <2>2, <2>3, <2>4, <2>5, <2>6, <2>7 DEF ProvInv, ProvTypes, JavaInv
<1>3. CASE Open
  <2>1. /\ step \in 2 .. 9 /\ step' = step /\ ~writing /\ writing' = TRUE /\ Now' = Now
        /\ disk' = [disk EXCEPT ![Now] = "part"]
        /\ UNCHANGED <<zip, sysJava, direct, cut, cuts, jdk, junk, badJava>>
    BY <1>3 DEF Open, Now
  <2>2. /\ \A f \in Files : disk'[f] = IF f = Now THEN "part" ELSE disk[f]
        /\ disk' \in [Files -> {"absent", "part", "inert", "whole"}]
    BY <2>1 DEF ProvInv, ProvTypes, StepTypes, CountTypes, DiskTypes
  <2>3. ProvTypes'
    BY <1>3, <2>1, <2>2 DEF ProvInv, ProvTypes, StepTypes, CountTypes, DiskTypes, Open
  <2>4. ReachedInv'
    BY <2>1, <2>2 DEF ProvInv, ReachedInv, There, Files
  <2>5. /\ step = 5 /\ ~direct => disk["installer"] = "whole"
        /\ step = 4 => ~direct
    BY <1>3 DEF Open, CanWrite, Skipped, InstallerKept
  <2>6. OpenInv'
    BY <2>1, <2>2, <2>5 DEF ProvInv, OpenInv, Files
  <2>7. ASSUME NEW f \in Kept
        PROVE  DamageOf(f)'
    <3>1. f \in Files /\ (f = "mods" => ~zip) /\ f # "properties"
      BY DEF Kept
    <3>2. Damaged(f) <=> f \in cut
      BY <2>1 DEF ProvInv, DamageInv, DamageOf
    <3>3. CASE f = Now
      <4>1. f # "jar" /\ f # "installer" => disk[f] = "absent"
        BY <1>3, <3>1, <3>3
        DEF Open, Skipped, EulaKept, ModsKept, PaletteKept, McmapKept, PasswordKept,
            There, Files
      <4>2. f = "jar" \/ f = "installer" => disk[f] = "absent"
        BY <1>3, <3>1, <3>3 DEF Open, Skipped, JarKept, InstallerKept, There
      <4> QED
        BY <2>1, <2>2, <3>1, <3>2, <3>3, <4>1, <4>2 DEF DamageOf, Damaged
    <3>4. CASE f # Now
      BY <2>1, <2>2, <3>1, <3>2, <3>4 DEF DamageOf, Damaged
    <3> QED
      BY <3>3, <3>4
  <2>8. DamageInv'
    BY <2>1, <2>7 DEF DamageInv, Kept
  <2> QED
    BY <2>1, <2>3, <2>4, <2>6, <2>8 DEF ProvInv, JavaInv
<1>4. CASE Close
  <2>1. /\ step \in 2 .. 9 /\ writing
        /\ UNCHANGED <<zip, sysJava, direct, cut, cuts, jdk, junk, badJava>>
    BY <1>4 DEF Close
  <2>2. /\ \A f \in Files : disk'[f] =
              IF f = Now THEN IF f = "mcmap" /\ disk[f] = "part" THEN "inert" ELSE "whole"
              ELSE IF f = "installer" /\ Now = "jar" THEN "absent" ELSE disk[f]
        /\ disk' \in [Files -> {"absent", "part", "inert", "whole"}]
    <3>1. disk' = [f \in Files |->
              IF f = Now THEN IF f = "mcmap" /\ disk[f] = "part" THEN "inert" ELSE "whole"
              ELSE IF f = "installer" /\ Now = "jar" THEN "absent" ELSE disk[f]]
      BY <1>4 DEF Close
    <3> QED
      BY <3>1 DEF ProvInv, ProvTypes, StepTypes, CountTypes, DiskTypes
  <2>3. \/ step' = step + 1 /\ writing' = FALSE /\ disk'[Now] = "whole"
        \/ step' = step /\ writing' /\ step = 7 /\ Now' = Now /\ disk'[Now] = "inert"
    <3>1. CASE Finished(Now)
      BY <1>4, <2>1, <2>2, <3>1 DEF Close, Finished, Advance
    <3>2. CASE ~Finished(Now)
      <4>1. Now = "mcmap" /\ step' = step /\ writing' = writing
        BY <1>4, <3>2 DEF Close, Finished
      <4>2. Damaged("mcmap")
        BY <2>1, <4>1 DEF ProvInv, DamageInv, DamageOf, Kept, Files
      <4> QED
        BY <1>4, <2>1, <2>2, <3>2, <4>1, <4>2 DEF Finished, Damaged, Now
    <3> QED
      BY <3>1, <3>2
  <2>4. ProvTypes'
    <3>2. CountTypes' /\ StepTypes'
      BY <2>1, <2>3 DEF ProvInv, ProvTypes, StepTypes, CountTypes
    <3>1. pwSeen' \in {"none", "empty", "token"}
      BY <1>4 DEF Close, Password, ProvInv, ProvTypes, StepTypes, CountTypes, DiskTypes
    <3> QED
      BY <2>1, <2>2, <2>3, <3>1, <3>2 DEF ProvInv, ProvTypes, StepTypes, CountTypes, DiskTypes
  <2>5. ReachedInv'
    <3>1. step = 9 => (pwSeen' = "token" <=> disk'["password"] = "whole")
      BY <1>4, <2>1, <2>2 DEF Close, Password, Files
    <3>2. There("jar")' <=> IF Now = "jar" THEN TRUE ELSE There("jar")
      BY <2>2 DEF There, Files
    <3>3. There("password")' <=> IF Now = "password" THEN TRUE ELSE There("password")
      BY <2>2 DEF There, Files
    <3>4. disk["mods"] = "whole" => disk'["mods"] = "whole"
      BY <2>2 DEF Files
    <3> QED
      BY <2>1, <2>2, <2>3, <3>1, <3>2, <3>3, <3>4 DEF ProvInv, ReachedInv, Files
  <2>6. OpenInv'
    <3>1. direct => disk'["installer"] = "absent"
      BY <2>1, <2>2 DEF ProvInv, OpenInv, DamageInv, DamageOf, Damaged, Kept, Files
    <3> QED
      BY <2>1, <2>3, <3>1 DEF ProvInv, OpenInv
  <2>7. ASSUME NEW f \in Kept
        PROVE  DamageOf(f)'
    <3>1. f \in Files
      BY DEF Kept
    <3>2. CASE f = Now
      BY <2>1, <2>2, <2>3, <3>1, <3>2 DEF ProvInv, DamageInv, DamageOf, Damaged
    <3>3. CASE f # Now /\ f = "installer" /\ Now = "jar"
      BY <2>1, <2>2, <2>3, <3>1, <3>3 DEF ProvInv, OpenInv, DamageInv, DamageOf, Damaged
    <3>4. CASE f # Now /\ ~(f = "installer" /\ Now = "jar")
      BY <2>1, <2>2, <2>3, <3>1, <3>4 DEF ProvInv, DamageInv, DamageOf, Damaged
    <3> QED
      BY <3>2, <3>3, <3>4
  <2>8. DamageInv'
    BY <2>1, <2>7 DEF DamageInv, Kept
  <2> QED
    BY <2>1, <2>4, <2>5, <2>6, <2>8 DEF ProvInv, JavaInv
<1>5. CASE Refused
  <2>1. /\ step \in 2 .. 9 /\ ~writing /\ writing' = FALSE
        /\ step' = 0 \/ (step \in {6, 7} /\ step' = step + 1)
        /\ UNCHANGED <<zip, sysJava, direct, disk, cut, cuts, jdk, junk, badJava, pwSeen>>
    BY <1>5 DEF Refused, Advance, Quit, Optional
  <2>2. DamageInv'
    BY <2>1, SameDamage DEF ProvInv
  <2>9. ProvTypes'
    <3>1. StepTypes'
      BY <2>1, <2>2 DEF ProvInv, ProvTypes, StepTypes
    <3>3. CountTypes'
      BY <2>1, <2>2 DEF ProvInv, ProvTypes, CountTypes
    <3>2. DiskTypes'
      BY <2>1, <2>2 DEF ProvInv, ProvTypes, DiskTypes
    <3> QED
      BY <3>1, <3>2, <3>3 DEF ProvTypes
  <2>10. ReachedInv'
    BY <2>1, <2>2 DEF ProvInv, ReachedInv, There
  <2>11. OpenInv'
    BY <2>1, <2>2 DEF ProvInv, OpenInv
  <2>12. JavaInv'
    BY <2>1, <2>2 DEF ProvInv, ProvTypes, StepTypes, CountTypes, DiskTypes, JavaInv
  <2> QED
    BY <2>2, <2>9, <2>10, <2>11, <2>12 DEF ProvInv
<1>6. CASE CutShort
  <2>1. /\ step \in 2 .. 9 /\ writing /\ writing' = FALSE
        /\ step' = 0 \/ (step = 7 /\ step' = 8)
        /\ cut' = cut \cup {Now} /\ cuts' = cuts + 1 /\ cuts < MaxCuts
        /\ UNCHANGED <<zip, sysJava, direct, disk, jdk, junk, badJava, pwSeen>>
    BY <1>6 DEF CutShort, AfterCut, Cut, Advance, Quit
  <2>2. ASSUME NEW f \in Kept
        PROVE  DamageOf(f)'
    BY <2>1 DEF ProvInv, DamageInv, DamageOf, Damaged
  <2>3. DamageInv'
    BY <2>1, <2>2 DEF DamageInv, Kept
  <2>9. ProvTypes'
    <3>1. StepTypes'
      BY <2>1, <2>3 DEF ProvInv, ProvTypes, StepTypes
    <3>3. CountTypes'
      BY <2>1, <2>3 DEF ProvInv, ProvTypes, CountTypes
    <3>2. DiskTypes'
      BY <2>1, <2>3 DEF ProvInv, ProvTypes, DiskTypes
    <3> QED
      BY <3>1, <3>2, <3>3 DEF ProvTypes
  <2>10. ReachedInv'
    BY <2>1, <2>3 DEF ProvInv, ReachedInv, There
  <2>11. OpenInv'
    BY <2>1, <2>3 DEF ProvInv, OpenInv
  <2>12. JavaInv'
    BY <2>1, <2>3 DEF ProvInv, ProvTypes, StepTypes, CountTypes, DiskTypes, JavaInv
  <2> QED
    BY <2>3, <2>9, <2>10, <2>11, <2>12 DEF ProvInv
<1>7. CASE HasJava
  <2>1. /\ step = 1 /\ step' = 2 /\ ~writing /\ writing' = FALSE /\ (sysJava \/ jdk)
        /\ UNCHANGED <<zip, sysJava, direct, disk, cut, cuts, jdk, junk, badJava, pwSeen>>
    BY <1>7 DEF HasJava, Advance, Usable
  <2>2. DamageInv'
    BY <2>1, SameDamage DEF ProvInv
  <2>9. ProvTypes'
    <3>1. StepTypes'
      BY <2>1, <2>2 DEF ProvInv, ProvTypes, StepTypes
    <3>3. CountTypes'
      BY <2>1, <2>2 DEF ProvInv, ProvTypes, CountTypes
    <3>2. DiskTypes'
      BY <2>1, <2>2 DEF ProvInv, ProvTypes, DiskTypes
    <3> QED
      BY <3>1, <3>2, <3>3 DEF ProvTypes
  <2>10. ReachedInv'
    BY <2>1, <2>2 DEF ProvInv, ReachedInv, There
  <2>11. OpenInv'
    BY <2>1, <2>2 DEF ProvInv, OpenInv
  <2>12. JavaInv'
    BY <2>1, <2>2 DEF ProvInv, ProvTypes, StepTypes, CountTypes, DiskTypes, JavaInv
  <2> QED
    BY <2>2, <2>9, <2>10, <2>11, <2>12 DEF ProvInv
<1>8. CASE UnpackJava
  <2>1. /\ step = 1 /\ step' = 1 /\ ~writing /\ writing' /\ ~sysJava /\ ~jdk
        /\ writing' = TRUE /\ (Now \notin Files)'
        /\ UNCHANGED <<zip, sysJava, direct, disk, cut, cuts, jdk, junk, badJava, pwSeen>>
    BY <1>8 DEF UnpackJava, Usable, Now
  <2>2. DamageInv'
    BY <2>1, SameDamage DEF ProvInv
  <2>9. ProvTypes'
    <3>1. StepTypes'
      BY <2>1, <2>2 DEF ProvInv, ProvTypes, StepTypes
    <3>3. CountTypes'
      BY <2>1, <2>2 DEF ProvInv, ProvTypes, CountTypes
    <3>2. DiskTypes'
      BY <2>1, <2>2 DEF ProvInv, ProvTypes, DiskTypes
    <3> QED
      BY <3>1, <3>2, <3>3 DEF ProvTypes
  <2>10. ReachedInv'
    BY <2>1, <2>2 DEF ProvInv, ReachedInv, There
  <2>11. OpenInv'
    BY <2>1, <2>2 DEF ProvInv, OpenInv
  <2>12. JavaInv'
    BY <2>1, <2>2 DEF ProvInv, ProvTypes, StepTypes, CountTypes, DiskTypes, JavaInv
  <2> QED
    BY <2>2, <2>9, <2>10, <2>11, <2>12 DEF ProvInv
<1>9. CASE InstallJava
  <2>1. /\ step = 1 /\ writing /\ writing' = FALSE /\ jdk' /\ jdk' = TRUE
        /\ \/ step' = 2 /\ badJava' = badJava
           \/ step' = 0 /\ junk /\ badJava' = badJava + 1
        /\ UNCHANGED <<zip, sysJava, direct, disk, cut, cuts, junk, pwSeen>>
    BY <1>9 DEF InstallJava, Advance, Quit
  <2>2. DamageInv'
    BY <2>1, SameDamage DEF ProvInv
  <2>3. badJava = 0
    BY <2>1 DEF ProvInv, ProvTypes, StepTypes, CountTypes, DiskTypes, OpenInv, JavaInv
  <2>9. ProvTypes'
    <3>1. StepTypes'
      BY <2>1, <2>2, <2>3 DEF ProvInv, ProvTypes, StepTypes
    <3>3. CountTypes'
      BY <2>1, <2>2, <2>3 DEF ProvInv, ProvTypes, CountTypes
    <3>2. DiskTypes'
      BY <2>1, <2>2, <2>3 DEF ProvInv, ProvTypes, DiskTypes
    <3> QED
      BY <3>1, <3>2, <3>3 DEF ProvTypes
  <2>10. ReachedInv'
    BY <2>1, <2>2, <2>3 DEF ProvInv, ReachedInv, There
  <2>11. OpenInv'
    BY <2>1, <2>2, <2>3 DEF ProvInv, OpenInv
  <2>12. JavaInv'
    BY <2>1, <2>2, <2>3 DEF ProvInv, ProvTypes, StepTypes, CountTypes, DiskTypes, JavaInv
  <2> QED
    BY <2>2, <2>3, <2>9, <2>10, <2>11, <2>12 DEF ProvInv
<1>10. CASE JavaFails
  <2>1. /\ step = 1 /\ step' = 0 /\ writing' = FALSE
        /\ UNCHANGED <<zip, sysJava, direct, disk, cut, cuts, jdk, junk, badJava, pwSeen>>
    BY <1>10 DEF JavaFails, Quit
  <2>2. DamageInv'
    BY <2>1, SameDamage DEF ProvInv
  <2>9. ProvTypes'
    <3>1. StepTypes'
      BY <2>1, <2>2 DEF ProvInv, ProvTypes, StepTypes
    <3>3. CountTypes'
      BY <2>1, <2>2 DEF ProvInv, ProvTypes, CountTypes
    <3>2. DiskTypes'
      BY <2>1, <2>2 DEF ProvInv, ProvTypes, DiskTypes
    <3> QED
      BY <3>1, <3>2, <3>3 DEF ProvTypes
  <2>10. ReachedInv'
    BY <2>1, <2>2 DEF ProvInv, ReachedInv, There
  <2>11. OpenInv'
    BY <2>1, <2>2 DEF ProvInv, OpenInv
  <2>12. JavaInv'
    BY <2>1, <2>2 DEF ProvInv, ProvTypes, StepTypes, CountTypes, DiskTypes, JavaInv
  <2> QED
    BY <2>2, <2>9, <2>10, <2>11, <2>12 DEF ProvInv
<1>11. CASE CrashInJava
  <2>1. /\ step = 1 /\ step' = 0 /\ writing /\ writing' = FALSE
        /\ cut' = cut \cup {"java"} /\ cuts' = cuts + 1 /\ cuts < MaxCuts
        /\ UNCHANGED <<zip, sysJava, direct, disk, badJava, pwSeen>>
    BY <1>11 DEF CrashInJava, Cut, Quit
  <2>2. DamageInv'
    BY <2>1, JavaDamagesNoFile DEF ProvInv
  <2>3. badJava = 0
    BY <2>1 DEF ProvInv, ProvTypes, StepTypes, CountTypes, DiskTypes, OpenInv, JavaInv
  <2>9. ProvTypes'
    <3>1. StepTypes'
      BY <2>1, <2>2, <2>3 DEF ProvInv, ProvTypes, StepTypes
    <3>3. CountTypes'
      BY <2>1, <2>2, <2>3 DEF ProvInv, ProvTypes, CountTypes
    <3>2. DiskTypes'
      BY <2>1, <2>2, <2>3 DEF ProvInv, ProvTypes, DiskTypes
    <3> QED
      BY <3>1, <3>2, <3>3 DEF ProvTypes
  <2>10. ReachedInv'
    BY <2>1, <2>2, <2>3 DEF ProvInv, ReachedInv, There
  <2>11. OpenInv'
    BY <2>1, <2>2, <2>3 DEF ProvInv, OpenInv
  <2>12. JavaInv'
    BY <2>1, <2>2, <2>3 DEF ProvInv, ProvTypes, StepTypes, CountTypes, DiskTypes, JavaInv
  <2> QED
    BY <2>2, <2>3, <2>9, <2>10, <2>11, <2>12 DEF ProvInv
<1>12. CASE UNCHANGED provVars
  BY <1>12
  DEF provVars, ProvInv, ProvTypes, StepTypes, CountTypes, DiskTypes, ReachedInv, OpenInv,
      JavaInv, DamageInv, DamageOf, Now, There, Damaged, Kept
<1> QED
  BY <1>1, <1>2, <1>3, <1>4, <1>5, <1>6, <1>7, <1>8, <1>9, <1>10, <1>11, <1>12
  DEF ProvisioningNext

LEMMA ProvAlways == ProvisioningSpec => []ProvInv
  BY ProvInit, ProvStep, PTL DEF ProvisioningSpec

\* Variables keep their types, and neither Minecraft nor the installer of its
\* loader is started from a file that is not there (install_loader, start_server).
THEOREM ProvisioningTypesHold == ProvisioningSpec => []ProvisioningTypeOK
<1>1. ProvInv => ProvisioningTypeOK
  <2> SUFFICES ASSUME ProvInv
               PROVE  ProvisioningTypeOK
    OBVIOUS
  <2>1. step \in 0 .. 10 /\ step \in 0 .. Len(Steps)
    BY DEF ProvInv, ProvTypes, StepTypes, Steps
  <2>2. Launch => There("jar")
    BY <2>1, WhereTheRunIs DEF ProvInv, ReachedInv, Launch
  <2>3. writing /\ Now = "jar" /\ ~direct => There("installer")
    BY <2>1, WhereTheRunIs DEF ProvInv, OpenInv, There
  <2> QED
    BY <2>1, <2>2, <2>3 DEF ProvInv, ProvTypes, CountTypes, DiskTypes, ProvisioningTypeOK
<1> QED
  BY <1>1, ProvAlways, PTL

\* Whatever was cut short before, a launch finds mods.zip, server.properties and
\* Java in order and Minecraft gets the password the client will use; a download
\* of Java that was cut short costs one start at most.
THEOREM LaunchAlwaysRepairs == ProvisioningSpec => []LaunchRepairs
<1>1. ProvInv => LaunchRepairs
  <2> SUFFICES ASSUME ProvInv
               PROVE  LaunchRepairs
    OBVIOUS
  <2>1. Launch => step = 10
    BY WhereTheRunIs DEF ProvInv, ProvTypes, StepTypes, Launch
  <2> QED
    BY <2>1 DEF ProvInv, ReachedInv, JavaInv, LaunchRepairs
<1> QED
  BY <1>1, ProvAlways, PTL

\* What else was cut short stays damaged in every later start, and nothing else
\* is ever damaged: a file is taken for complete because it exists.
THEOREM DamageLastsForEver == ProvisioningSpec => []DamageIsForEver
<1>1. ProvInv => DamageIsForEver
  BY DEF ProvInv, DamageInv, DamageOf, DamageIsForEver, Kept
<1> QED
  BY <1>1, ProvAlways, PTL

-----------------------------------------------------------------------------
(* Types *)

\* A process is left behind only by the one restart, so that there is at most one.
StrayTypes ==
    /\ stray \in 0 .. 1
    /\ main = "launch" => child = "none"
    /\ main \in {"launch", "wait", "check", "restart"} => stray = 0

TriesTypes == tries \in 0 .. Tries - 1

PlaceTypes ==
    /\ main \in {"launch", "wait", "check", "restart", "wait again", "connect", "work",
                 "stop", "ended", "raised"}
    /\ stopAt \in {"idle", "called", "write", "wait"}
    /\ child \in {"none", "boots", "serves", "gone"}
    /\ loggers \subseteq {1, 2}

FlagTypes == {printed, pipe, ready, immortal, link, halt} \subseteq BOOLEAN

ProcessTypes == StrayTypes /\ TriesTypes /\ PlaceTypes /\ FlagTypes

LEMMA ProcessTypesInit == ProcessInit => ProcessTypes
<1> SUFFICES ASSUME ProcessInit PROVE ProcessTypes
  OBVIOUS
<1>1. StrayTypes /\ TriesTypes
  BY ProcessAssumption DEF ProcessInit, StrayTypes, TriesTypes
<1>2. PlaceTypes /\ FlagTypes
  BY DEF ProcessInit, PlaceTypes, FlagTypes
<1> QED BY <1>1, <1>2 DEF ProcessTypes

\* The places of main, stop and child, the flags and the log threads.
LEMMA PlacesStep == PlaceTypes /\ FlagTypes /\ [ProcessNext]_procVars => PlaceTypes' /\ FlagTypes'
<1> SUFFICES ASSUME PlaceTypes, FlagTypes, [ProcessNext]_procVars
             PROVE  PlaceTypes' /\ FlagTypes'
  OBVIOUS
<1> USE DEF PlaceTypes, FlagTypes
<1>1. CASE Launch1 \/ Restarts
  BY <1>1 DEF Launch1, Restarts, Spawn, Fresh, AddLogger
<1>2. CASE SeesReady
  BY <1>2 DEF SeesReady
<1>3. CASE GivesUpWaiting
  BY <1>3 DEF GivesUpWaiting, NotReady, StopLifecycle
<1>4. CASE Checks
  BY <1>4 DEF Checks
<1>5. CASE Connects
  BY <1>5, Zenon DEF Connects, StopLifecycle
<1>6. CASE WorkEnds
  BY <1>6 DEF WorkEnds, StopLifecycle
<1>7. CASE StopReturns \/ StopDone
  BY <1>7 DEF StopReturns, StopDone, Stopped, AfterStop
<1>8. CASE StopKills
  BY <1>8 DEF StopKills, Stopped, AfterStop
<1>9. CASE StopGoesOn \/ StopWrites
  BY <1>9 DEF StopGoesOn, StopWrites
<1>10. CASE Prints \/ ReaderSees
  BY <1>10 DEF Prints, ReaderSees
<1>11. CASE Boots \/ Exits \/ StrayExits
  BY <1>11 DEF Boots, Exits, StrayExits
<1>12. CASE LoggerActs
  BY <1>12 DEF LoggerActs, LoggerEnds
<1>13. CASE UNCHANGED procVars
  BY <1>13 DEF procVars
<1> QED
  BY <1>1, <1>2, <1>3, <1>4, <1>5, <1>6, <1>7, <1>8, <1>9, <1>10, <1>11, <1>12, <1>13
  DEF ProcessNext, MainActs

LEMMA TriesStep == TriesTypes /\ [ProcessNext]_procVars => TriesTypes'
<1> SUFFICES ASSUME TriesTypes, [ProcessNext]_procVars
             PROVE  TriesTypes'
  OBVIOUS
<1>1. CASE Connects
  <2>1. tries' = tries \/ (tries + 1 < Tries /\ tries' = tries + 1) \/ tries' = 0
    BY <1>1, Zenon DEF Connects
  <2> QED BY <2>1, ProcessAssumption DEF TriesTypes
<1>2. CASE ~Connects
  <2>1. tries' = tries
    BY <1>2 DEF ProcessNext, MainActs, LoggerActs, LoggerEnds, Launch1, SeesReady, GivesUpWaiting,
       Checks, Restarts, WorkEnds, StopReturns, StopGoesOn, StopWrites, StopDone, StopKills,
       Prints, Boots, Exits, StrayExits, ReaderSees, procVars
  <2> QED BY <2>1 DEF TriesTypes
<1> QED BY <1>1, <1>2

LEMMA StrayTypesStep == StrayTypes /\ [ProcessNext]_procVars => StrayTypes'
<1> SUFFICES ASSUME StrayTypes, [ProcessNext]_procVars
             PROVE  StrayTypes'
  OBVIOUS
<1>1. CASE Launch1
  <2>1. main' = "wait" /\ stray' = stray + 0 /\ stray = 0
    BY <1>1, Zenon DEF Launch1, Spawn, Alive, StrayTypes
  <2> QED BY <2>1 DEF StrayTypes
<1>2. CASE Restarts
  <2>1. main' = "wait again" /\ stray = 0
    BY <1>2, Zenon DEF Restarts, StrayTypes
  <2>2. stray' = stray + 0 \/ stray' = stray + 1
    BY <1>2, Zenon DEF Restarts, Spawn
  <2>3. stray' \in {0 + 0, 0 + 1}
    BY <2>1, <2>2, Zenon
  <2>4. {0 + 0, 0 + 1} = 0 .. 1
    OBVIOUS
  <2>5. stray' \in 0 .. 1 /\ main' # "launch"
        /\ main' \notin {"launch", "wait", "check", "restart"}
    BY <2>1, <2>3, <2>4, Zenon
  <2> QED BY <2>5, Zenon DEF StrayTypes
<1>3. CASE StrayExits
  BY <1>3 DEF StrayExits, StrayTypes
<1>4. CASE SeesReady \/ GivesUpWaiting \/ Checks
  BY <1>4 DEF SeesReady, GivesUpWaiting, Waiting, NotReady, StopLifecycle, Checks, StrayTypes
<1>5. CASE Connects \/ WorkEnds
  <2>1. stray' = stray /\ main' \in {"connect", "work", "stop", "raised"}
    BY <1>5, Zenon DEF Connects, WorkEnds, StopLifecycle
  <2> QED BY <2>1 DEF StrayTypes
<1>6. CASE StopReturns \/ StopDone \/ StopKills
  <2>1. stray' = stray /\ main' \in {"ended", main}
    BY <1>6 DEF StopReturns, StopDone, StopKills, Stopped, AfterStop
  <2>2. main = "launch" => child' = "none"
    BY <1>6 DEF StopReturns, StopDone, StopKills, Alive, StrayTypes
  <2> QED BY <2>1, <2>2 DEF StrayTypes
<1>7. CASE StopGoesOn \/ StopWrites
  BY <1>7 DEF StopGoesOn, StopWrites, Alive, StrayTypes
<1>8. CASE Prints \/ ReaderSees \/ LoggerActs
  BY <1>8 DEF Prints, ReaderSees, LoggerActs, LoggerEnds, StrayTypes
<1>9. CASE Boots \/ Exits
  BY <1>9 DEF Boots, Exits, Alive, StrayTypes
<1>10. CASE UNCHANGED procVars
  BY <1>10 DEF procVars, StrayTypes
<1> QED
  BY <1>1, <1>2, <1>3, <1>4, <1>5, <1>6, <1>7, <1>8, <1>9, <1>10 DEF ProcessNext, MainActs

LEMMA ProcessTypesStep == ProcessTypes /\ [ProcessNext]_procVars => ProcessTypes'
  BY StrayTypesStep, TriesStep, PlacesStep DEF ProcessTypes

LEMMA ProcessTypesOK == ProcessTypes => ProcessTypeOK
  BY Zenon DEF ProcessTypes, StrayTypes, TriesTypes, PlaceTypes, FlagTypes, ProcessTypeOK

\* At most one process is left over, by the one restart, and the connection is tried
\* at most Tries times (MCLifecycle.connect_rcon and restart_for_rcon).
THEOREM ProcessTypesHold == ProcessSpec => []ProcessTypeOK
  BY ProcessTypesInit, ProcessTypesStep, ProcessTypesOK, PTL DEF ProcessSpec

LEMMA UpdaterTypesInit == UpdaterInit => UpdaterTypeOK
  BY UpdaterAssumption DEF UpdaterInit, UpdaterTypeOK, Dir, Versions, Full, Bad

LEMMA UpdaterTypesStep == UpdaterTypeOK /\ [UpdaterNext]_updVars => UpdaterTypeOK'
<1> SUFFICES ASSUME UpdaterTypeOK, [UpdaterNext]_updVars
             PROVE  UpdaterTypeOK'
  OBVIOUS
<1> USE DEF UpdaterTypeOK
<1>0. /\ Bad("part") \in Dir /\ Bad("mixed") \in Dir /\ Bad("absent") \in Dir
      /\ Full(released) \in Dir
  BY DEF Dir
<1>1. CASE Release
  BY <1>1, UpdaterAssumption DEF Release, Versions
<1>2. CASE Check \/ Download \/ DownloadFails
  BY <1>0, <1>2 DEF Check, Download, DownloadFails
<1>3. CASE Clear
  BY <1>0, <1>3 DEF Clear
<1>4. CASE Copy
  BY <1>0, <1>4 DEF Copy
<1>5. CASE Unpack \/ UnpackFails
  BY <1>0, <1>5 DEF Unpack, UnpackFails
<1>6. CASE Remove
  BY <1>0, <1>6 DEF Remove
<1>7. CASE Move
  BY <1>0, <1>7 DEF Move
<1>8. CASE Dies
  BY <1>8 DEF Dies
<1>9. CASE UNCHANGED updVars
  BY <1>9 DEF updVars
<1> QED
  BY <1>1, <1>2, <1>3, <1>4, <1>5, <1>6, <1>7, <1>8, <1>9 DEF UpdaterNext

\* Each directory of the client's program holds a version, or what a failure left.
THEOREM UpdaterTypesHold == UpdaterSpec => []UpdaterTypeOK
  BY UpdaterTypesInit, UpdaterTypesStep, PTL DEF UpdaterSpec

LEMMA TilesTypesInit == TilesInit => TilesTypeOK
  BY DEF TilesInit, NoTiles, TilesTypeOK, Pictures

LEMMA TilesTypesStep == TilesTypeOK /\ [TilesNext]_tilesVars => TilesTypeOK'
<1> SUFFICES ASSUME TilesTypeOK, [TilesNext]_tilesVars
             PROVE  TilesTypeOK'
  OBVIOUS
<1> USE DEF TilesTypeOK, Pictures, mapVars
<1>1. ASSUME NEW k \in TileChunks, SaveChunk(k) PROVE TilesTypeOK'
  BY <1>1 DEF SaveChunk
<1>2. CASE RenderRegion
  BY <1>2 DEF RenderRegion, Reads
<1>3. ASSUME NEW k \in TileChunks, OpenPng(k) PROVE TilesTypeOK'
  <2>1. mcmap /\ UNCHANGED <<inFile, mcmap, arriving, onMap>>
    BY <1>3 DEF OpenPng
  <2>2. CASE png' = [png EXCEPT ![k] = "torn"] /\ opened' = opened \cup {k} /\ toWrite' = toWrite
    BY <1>3, <2>1, <2>2 DEF OpenPng
  <2>3. CASE toWrite' = toWrite \ {k} /\ UNCHANGED <<png, opened>>
    BY <1>3, <2>1, <2>3 DEF OpenPng
  <2> QED BY <1>3, <2>2, <2>3 DEF OpenPng
<1>4. ASSUME NEW k \in TileChunks, WritePng(k) PROVE TilesTypeOK'
  <2>1. /\ mcmap /\ UNCHANGED <<inFile, mcmap, arriving, onMap>>
        /\ opened' = opened \ {k} /\ toWrite' = toWrite \ {k}
    BY <1>4 DEF WritePng
  <2>2. /\ png' \in [TileChunks -> Pictures]
        /\ \A j \in TileChunks \ {k} : png'[j] = png[j]
    BY <1>4 DEF WritePng
  <2> QED BY <2>1, <2>2
<1>5. CASE RunCutShort
  BY <1>5 DEF RunCutShort, Leaves
<1>6. CASE MapEnds
  BY <1>6 DEF MapEnds
<1>7. CASE SendBatch
  <2>1. UNCHANGED <<inFile, png, mcmap, toWrite, opened, onMap>>
    BY <1>7 DEF SendBatch
  <2>2. arriving' \in [Uploads -> [TileChunks -> Pictures]]
    BY <1>7 DEF SendBatch
  <2> QED BY <2>1, <2>2
<1>8. CASE StopsSending
  BY <1>8 DEF StopsSending
<1>9. ASSUME NEW k \in TileChunks, RenderChunk(k) PROVE TilesTypeOK'
  BY <1>9 DEF RenderChunk, Answers, Reads
<1>10. CASE RenderFails
  BY <1>10 DEF RenderFails, Leaves
<1>11. CASE RegionRendered
  BY <1>11 DEF RegionRendered, Answers
<1>12. ASSUME NEW u \in Uploads, StoreBatch(u) \/ StoreBreaksOff(u) PROVE TilesTypeOK'
  <2>1. UNCHANGED <<inFile, png, mcmap, toWrite, opened>>
    BY <1>12 DEF StoreBatch, StoreBreaksOff, Handled
  <2>2. arriving' \in [Uploads -> [TileChunks -> Pictures]]
    BY <1>12 DEF StoreBatch, StoreBreaksOff, Handled, NoTiles
  <2>3. \A S \in SUBSET TileChunks : Stores(u, S) \in [TileChunks -> Pictures]
    BY DEF Stores
  <2>4. InBatch(u) \subseteq TileChunks
    BY DEF InBatch
  <2>5. onMap' \in [TileChunks -> Pictures]
    BY <1>12, <2>3, <2>4 DEF StoreBatch, StoreBreaksOff
  <2> QED BY <2>1, <2>2, <2>5
<1>13. CASE UNCHANGED tilesVars
  BY <1>13 DEF tilesVars
<1> QED
  BY <1>1, <1>2, <1>3, <1>4, <1>5, <1>6, <1>7, <1>8, <1>9, <1>10, <1>11, <1>12, <1>13
  DEF TilesNext

\* Region files, tiles on disk and tiles sent have their types.
THEOREM TilesTypesHold == TilesSpec => []TilesTypeOK
  BY TilesTypesInit, TilesTypesStep, PTL DEF TilesSpec

-----------------------------------------------------------------------------
(* ChunkyParser: when a percentage tells that the last chunk is there *)

\* Division with remainder.
LEMMA DivIsFloor ==
    ASSUME NEW a \in Nat, NEW b \in Nat \ {0}
    PROVE  /\ a \div b \in Nat
           /\ (a \div b) * b <= a /\ a < (a \div b) * b + b
  OBVIOUS

\* The percentage is the nearest one, and no more than 100.00.
LEMMA PercentIsNearest ==
    ASSUME size \in Nat \ {0}, NEW d \in Nat
    PROVE  /\ Percent(d) \in Nat
           /\ 2 * (Percent(d) * size) <= 20000 * d + size
           /\ 20000 * d + size < 2 * (Percent(d) * size) + 2 * size
<1> DEFINE a == 20000 * d + size
           b == 2 * size
           p == a \div b
<1>1. a \in Nat /\ b \in Nat \ {0}
  OBVIOUS
<1> HIDE DEF a, b
<1>2. p \in Nat /\ p * b <= a /\ a < p * b + b
  BY <1>1, DivIsFloor
<1>3. Percent(d) = p
  BY DEF Percent, a, b
<1> HIDE DEF p
<1>4. p * b = 2 * (p * size)
  BY <1>2 DEF b
<1>5. p \in Nat /\ 2 * (p * size) <= a /\ a < 2 * (p * size) + 2 * size
  BY <1>1, <1>2, <1>4 DEF b
<1> QED
  BY <1>3, <1>5 DEF a

LEMMA PercentIsAtMost ==
    ASSUME size \in Nat \ {0}, NEW d \in Nat, d <= size
    PROVE  Percent(d) \in Nat /\ Percent(d) <= 10000
<1> DEFINE p == Percent(d)
<1>1. p \in Nat /\ 2 * (p * size) <= 20000 * d + size
  BY PercentIsNearest
<1> HIDE DEF p
<1>2. p <= 10000
  <2>1. SUFFICES ASSUME p >= 10001
                 PROVE  FALSE
    BY <1>1
  <2>2. p * size >= 10001 * size
    BY <1>1, <2>1
  <2> QED
    BY <1>1, <2>2
<1> QED
  BY <1>1, <1>2 DEF p

LEMMA PercentOfWhole ==
    ASSUME size \in Nat \ {0}
    PROVE  Percent(size) = 10000
<1> DEFINE p == Percent(size)
<1>1. \A d \in Nat : d = size => /\ Percent(d) \in Nat /\ Percent(d) <= 10000
                                /\ 20000 * d + size < 2 * (Percent(d) * size) + 2 * size
  BY PercentIsNearest, PercentIsAtMost
<1>2. p \in Nat /\ p <= 10000 /\ 20000 * size + size < 2 * (p * size) + 2 * size
  BY <1>1
<1> HIDE DEF p
<1>3. p >= 10000
  <2>1. SUFFICES ASSUME p <= 9999
                 PROVE  FALSE
    BY <1>2
  <2>2. p * size <= 9999 * size
    BY <1>2, <2>1
  <2> QED
    BY <1>2, <2>2
<1>4. p = 10000
  BY <1>2, <1>3
<1> QED
  BY <1>4 DEF p

\* For a task in part the quotient is below the percentage's share by more than
\* one chunk, unless the percentage hides the last one.
LEMMA PartIsBelow ==
    ASSUME size \in Nat \ {0}, NEW d \in Nat \ {0}, d < size, d < Cap,
           ~(d = size - 1 /\ Percent(d) * size >= 10000 * d)
    PROVE  Percent(d) * (d + 1) < 10000 * d
<1> DEFINE p == Percent(d)
           e == size - d - 1
<1>1. p \in Nat /\ 2 * (p * size) <= 20000 * d + size
  BY PercentIsNearest
<1>2. CASE e = 0
  <2>1. d = size - 1 /\ d + 1 = size
    BY <1>2
  <2>2. p * size \in Nat /\ p * size < 10000 * d
    BY <1>1, <2>1
  <2> QED
    BY <2>1, <2>2
<1>3. CASE e # 0 /\ size < 10000
  <2>0. e \in Nat \ {0} /\ size = d + 1 + e
    BY <1>3
  <2> HIDE DEF p, e
  <2>1. (2 * (p * size)) * (d + 1) <= (20000 * d + size) * (d + 1)
    BY <1>1
  <2>2. (2 * (p * size)) * (d + 1) = (2 * size) * (p * (d + 1))
    BY <1>1
  <2>3. (20000 * d + size) * (d + 1) = 20000 * (d * (d + 1)) + size * (d + 1)
    OBVIOUS
  <2>4. size * (d + 1) <= size * (2 * d) /\ size * (2 * d) = 2 * (size * d)
    OBVIOUS
  <2>5. size * d < 10000 * d /\ d <= d * e
    BY <1>3, <2>0
  <2>6. d * size = d * (d + 1) + d * e
    BY <2>0
  <2>7. d * size \in Nat /\ d * (d + 1) \in Nat /\ d * e \in Nat /\ size * d = d * size
    BY <2>0
  <2>8. (2 * size) * (p * (d + 1)) < 20000 * (d * size)
    BY <2>1, <2>2, <2>3, <2>4, <2>5, <2>6, <2>7, <1>1
  <2>9. 20000 * (d * size) = (2 * size) * (10000 * d)
    OBVIOUS
  <2>10. (2 * size) * (p * (d + 1)) < (2 * size) * (10000 * d)
    BY <2>8, <2>9
  <2>11. p * (d + 1) \in Nat /\ 10000 * d \in Nat /\ 2 * size \in Nat \ {0}
    BY <1>1
  <2>12. \A x, y, z \in Nat : z * x < z * y => x < y
    OBVIOUS
  <2>13. p * (d + 1) < 10000 * d
    BY <2>10, <2>11, <2>12
  <2> QED
    BY <2>13 DEF p
<1>4. CASE size >= 10000
  <2> HIDE DEF p
  <2>1. CASE p >= d + 1
    <3>1. p * size >= (d + 1) * size /\ p * size \in Nat
      BY <1>1, <2>1
    <3>2. (d + 1) * size = d * size + size /\ d * size >= d * 10000 /\ d * size \in Nat
      BY <1>4
    <3> QED
      BY <1>1, <1>4, <3>1, <3>2
  <2>2. CASE p <= d
    <3>1. p * (d + 1) <= d * (d + 1) /\ d * (d + 1) <= d * 1024
      BY <1>1, <2>2 DEF Cap
    <3> QED
      BY <1>1, <3>1 DEF p
  <2> QED
    BY <1>1, <2>1, <2>2
<1> QED
  BY <1>1, <1>2, <1>3, <1>4

\* A quotient is never less than what is done,
LEMMA QuotientIsAtLeast ==
    ASSUME NEW d \in Nat \ {0}, NEW p \in Nat \ {0}, p <= 10000, NEW q \in Quotients(d, p)
    PROVE  q \in Nat /\ q >= d
<1> DEFINE n == (d * 10000) \div p
<1>2. q = n \/ (q = n - 1 /\ n * p = d * 10000 /\ p # 10000)
  BY DEF Quotients
<1>3. n \in Nat /\ n * p <= d * 10000 /\ d * 10000 < n * p + p
  BY DivIsFloor
<1> HIDE DEF n
<1>4. d * p <= d * 10000 /\ d * p \in Nat
  OBVIOUS
<1>5. n >= d
  <2>1. SUFFICES ASSUME n + 1 <= d
                 PROVE  FALSE
    BY <1>3
  <2>2. (n + 1) * p <= d * p
    BY <1>3, <2>1
  <2>3. (n + 1) * p = n * p + p
    BY <1>3
  <2>4. n * p \in Nat
    BY <1>3
  <2> QED
    BY <1>3, <1>4, <2>2, <2>3, <2>4
<1>6. CASE q = n - 1 /\ n * p = d * 10000 /\ p # 10000
  <2>1. d * p < d * 10000
    BY <1>6
  <2>2. n # d
    BY <1>3, <1>6, <2>1
  <2> QED
    BY <1>3, <1>5, <1>6, <2>2
<1> QED
  BY <1>2, <1>3, <1>5, <1>6

\* of a task in part it is more,
LEMMA QuotientOfPart ==
    ASSUME NEW d \in Nat \ {0}, NEW p \in Nat \ {0}, p * (d + 1) < 10000 * d,
           NEW q \in Quotients(d, p)
    PROVE  q \in Nat /\ q > d
<1> DEFINE n == (d * 10000) \div p
<1>1. n \in Nat /\ n * p <= d * 10000 /\ d * 10000 < n * p + p
  BY DivIsFloor
<1>2. q = n \/ (q = n - 1 /\ n * p = d * 10000)
  BY DEF Quotients
<1> HIDE DEF n
<1>3. CASE n <= d
  <2>1. n * p + p <= d * p + p
    BY <1>1, <1>3
  <2>2. d * p + p = p * (d + 1)
    OBVIOUS
  <2> QED
    BY <1>1, <2>1, <2>2
<1>4. CASE n = d + 1
  <2>1. n * p = p * (d + 1)
    BY <1>4
  <2> QED
    BY <1>1, <1>2, <1>4, <2>1
<1>5. CASE n > d + 1
  BY <1>1, <1>2, <1>5
<1> QED
  BY <1>1, <1>3, <1>4, <1>5

\* and of 100.00 it is exact.
LEMMA QuotientOfWhole ==
    ASSUME NEW d \in Nat \ {0}, NEW q \in Quotients(d, 10000)
    PROVE  q = d
<1>1. (d * 10000) \div 10000 = d
  OBVIOUS
<1> QED
  BY <1>1 DEF Quotients

\* The totals of the three forms.
LEMMA TotalsOfPercent ==
    ASSUME NEW form, form = "percent", NEW d, d > 0, Percent(d) > 0
    PROVE  Totals(form, d) = {Smaller(q, Cap) : q \in Quotients(d, Percent(d))}
<1>1. form # "of total"
  OBVIOUS
<1> QED
  BY <1>1, Zenon DEF Totals

LEMMA TotalsOfTotal ==
    ASSUME NEW d
    PROVE  Totals("of total", d) = {size}
  BY Zenon DEF Totals

LEMMA TotalsByDefault ==
    ASSUME NEW form, NEW d, form # "of total",
           ~(form = "percent" /\ d > 0 /\ Percent(d) > 0)
    PROVE  Totals(form, d) = {Cap}
  BY Zenon DEF Totals

\* What a text makes the loop believe, by its form.
Believed(form, t) ==
    /\ shown >= Needed(form) => Says(shown, t)
    /\ Says(shown, t) => shown >= Needed(form) \/ (form = "percent" /\ LastHidden)

ShownInv == size \in Nat \ {0} /\ shown \in 0 .. size

LEMMA ShownFacts ==
    ShownInv => size \in Nat \ {0} /\ shown \in Nat /\ shown <= size
  BY DEF ShownInv

LEMMA PercentIsBelieved ==
    ASSUME ShownInv, shown > 0, Percent(shown) > 0, NEW t \in Totals("percent", shown)
    PROVE  Believed("percent", t)
<1>0. size \in Nat \ {0} /\ shown \in Nat \ {0} /\ shown <= size
  BY DEF ShownInv
<1>1. Percent(shown) \in Nat \ {0} /\ Percent(shown) <= 10000
  <2>1. \A d \in Nat : d <= size => Percent(d) \in Nat /\ Percent(d) <= 10000
    BY <1>0, PercentIsAtMost
  <2> QED
    BY <1>0, <2>1
<1>2. PICK q \in Quotients(shown, Percent(shown)) : t = Smaller(q, Cap)
  BY <1>0, TotalsOfPercent
<1>3. q \in Nat /\ q >= shown
  BY <1>0, <1>1, QuotientIsAtLeast
<1>4. Needed("percent") = Smaller(size, Cap)
  BY DEF Needed
<1>5. CASE shown >= Cap
  BY <1>0, <1>2, <1>3, <1>4, <1>5 DEF Believed, Says, Smaller, Cap
<1>6. CASE shown < Cap /\ shown = size
  <2>1. q = shown
    BY <1>0, <1>6, PercentOfWhole, QuotientOfWhole
  <2> QED
    BY <1>0, <1>2, <1>4, <1>6, <2>1 DEF Believed, Says, Smaller, Cap
<1>7. CASE shown < Cap /\ shown < size /\ ~LastHidden
  <2>1. Percent(shown) * (shown + 1) < 10000 * shown
    BY <1>0, <1>7, PartIsBelow DEF LastHidden
  <2>2. q > shown
    BY <1>0, <1>1, <2>1, QuotientOfPart
  <2> QED
    BY <1>0, <1>2, <1>3, <1>4, <1>7, <2>2 DEF Believed, Says, Smaller, Cap
<1>8. CASE shown < Cap /\ shown < size /\ LastHidden
  BY <1>0, <1>4, <1>8 DEF Believed, Smaller, Cap
<1> QED
  BY <1>0, <1>5, <1>6, <1>7, <1>8 DEF Cap

LEMMA DefaultIsBelieved ==
    ASSUME ShownInv, NEW form \in Forms, form # "of total",
           form = "percent" => shown = 0 \/ size > Cap
    PROVE  Believed(form, Cap)
<1>0. size \in Nat \ {0} /\ shown \in Nat /\ shown <= size
  BY ShownFacts, Zenon
<1>1. CASE form = "bare"
  BY <1>0, <1>1 DEF Believed, Needed, Says, Smaller, Cap
<1>2. CASE form = "percent"
  BY <1>0, <1>2 DEF Believed, Needed, Says, Smaller, Cap
<1> QED
  BY <1>1, <1>2 DEF Forms

\* Only a very large task is shown with chunks and still with 0.00%.
LEMMA NoPercentOfMany ==
    ASSUME ShownInv, shown > 0
    PROVE  Percent(shown) > 0 \/ size > Cap
<1> DEFINE p == Percent(shown)
<1>0. size \in Nat \ {0} /\ shown \in Nat \ {0}
  BY DEF ShownInv
<1>1. \A d \in Nat : /\ Percent(d) \in Nat
                    /\ 20000 * d + size < 2 * (Percent(d) * size) + 2 * size
  BY <1>0, PercentIsNearest
<1>2. p \in Nat /\ 20000 * shown + size < 2 * (p * size) + 2 * size
  BY <1>0, <1>1
<1> HIDE DEF p
<1>3. CASE p = 0
  <2>1. p * size = 0
    BY <1>0, <1>3
  <2>2. size > Cap
    BY <1>0, <1>2, <2>1 DEF Cap
  <2> QED
    BY <2>2
<1>4. CASE p # 0
  <2>1. p > 0
    BY <1>2, <1>4
  <2> QED
    BY <2>1 DEF p
<1> QED
  BY <1>3, <1>4

LEMMA ShownAlways == ParserSpec => []ShownInv
<1>1. ParserInit => ShownInv
  BY SizesAssumption DEF ParserInit, ShownInv
<1>2. ShownInv /\ [ParserNext]_parserVars => ShownInv'
  BY DEF ParserNext, ShownInv, parserVars
<1> QED
  BY <1>1, <1>2, PTL DEF ParserSpec

LEMMA VerdictOf == ShownInv => VerdictIsExact
<1> SUFFICES ASSUME ShownInv, NEW form \in Forms, NEW t \in Totals(form, shown)
             PROVE  Believed(form, t)
  BY DEF VerdictIsExact, Believed
<1>1. CASE form = "percent" /\ shown > 0 /\ Percent(shown) > 0
  BY <1>1, PercentIsBelieved
<1>2. CASE form = "of total"
  <2>1. Totals(form, shown) = {size}
    BY <1>2, TotalsOfTotal, Zenon
  <2>2. t = size
    BY <2>1
  <2>3. size \in Nat \ {0} /\ shown \in Nat /\ shown <= size
    BY ShownFacts, Zenon
  <2>4. Needed(form) = Smaller(size, Cap)
    BY <1>2 DEF Needed
  <2> QED
    BY <2>2, <2>3, <2>4 DEF Believed, Says, Smaller, Cap
<1>3. CASE form # "of total" /\ ~(form = "percent" /\ shown > 0 /\ Percent(shown) > 0)
  <2>1. Totals(form, shown) = {Cap}
    BY <1>3, TotalsByDefault, Zenon
  <2>2. t = Cap
    BY <2>1
  <2>3. form = "percent" /\ shown > 0 => size > Cap
    BY <1>3, NoPercentOfMany, Zenon
  <2>4. shown > 0 \/ shown = 0
    BY DEF ShownInv
  <2>5. form = "percent" => shown = 0 \/ size > Cap
    BY <2>3, <2>4, Zenon
  <2> QED
    BY <1>3, <2>2, <2>5, DefaultIsBelieved, Zenon
<1> QED
  BY <1>1, <1>2, <1>3, Zenon

\* Whatever the form of the text and the size of the task, the loop waits for as
\* many chunks as it means to, all of them or 1024, and for no more; only a
\* percentage may hide the last chunk of a smaller task (chunky_parser.py,
\* work_loop.py).
THEOREM VerdictIsAlwaysExact == ParserSpec => []VerdictIsExact
  BY ShownAlways, VerdictOf, PTL

\* The task of a square region has 1024 chunks.
RegionIsExact ==
    size = 1024 => \A form \in Forms : \A t \in Totals(form, shown) :
                       Says(shown, t) <=> shown = 1024

\* For such a task all forms tell the same, and exactly when the last chunk is
\* there: 1023 chunks are shown as 99.90%, which is rounded down.
THEOREM VerdictOfRegionIsExact == ParserSpec => []RegionIsExact
<1>1. ShownInv /\ VerdictIsExact => RegionIsExact
  <2> SUFFICES ASSUME ShownInv, VerdictIsExact, size = 1024
               PROVE  \A form \in Forms : \A t \in Totals(form, shown) :
                          Says(shown, t) <=> shown = 1024
    BY DEF RegionIsExact
  <2>1. Percent(1023) = 9990
    BY DEF Percent
  <2>2. ~LastHidden
    BY <2>1 DEF LastHidden
  <2>3. \A form \in Forms : Needed(form) = 1024
    BY DEF Needed, Smaller, Cap
  <2>4. shown \in 0 .. 1024
    BY DEF ShownInv
  <2> QED
    BY <2>2, <2>3, <2>4 DEF VerdictIsExact
<1> QED
  BY <1>1, ShownAlways, VerdictOf, PTL

\* The exception is real: where the percentage of a smaller task with one chunk
\* missing is rounded up, every such text ends the wait for it, and where it is
\* exact, one may.
THEOREM LastChunkIsHidden ==
    ASSUME size \in Nat \ {0}, size <= Cap, shown \in Nat \ {0}, LastHidden
    PROVE  /\ \E t \in Totals("percent", shown) : Says(shown, t)
           /\ Percent(shown) * size > 10000 * shown =>
                \A t \in Totals("percent", shown) : Says(shown, t)
<1> DEFINE p == Percent(shown)
           n == (shown * 10000) \div p
<1>0. shown + 1 = size /\ p * size >= 10000 * shown
  BY DEF LastHidden
<1>1. p \in Nat /\ p <= 10000
  <2>1. \A d \in Nat : d <= size => Percent(d) \in Nat /\ Percent(d) <= 10000
    BY PercentIsAtMost
  <2> QED
    BY <1>0, <2>1
<1>2. p > 0 => Totals("percent", shown) = {Smaller(q, Cap) : q \in Quotients(shown, p)}
  <2>1. shown > 0
    OBVIOUS
  <2> QED
    BY <2>1, TotalsOfPercent
<1> HIDE DEF p
<1>3. p > 0
  <2>1. p * size > 0 /\ p * size \in Nat
    BY <1>0, <1>1
  <2>2. p = 0 => p * size = 0
    OBVIOUS
  <2>3. p # 0
    BY <2>1, <2>2
  <2> QED
    BY <1>1, <2>3
<1>4. n \in Nat /\ n * p <= shown * 10000 /\ shown * 10000 < n * p + p
  <2>1. shown * 10000 \in Nat /\ p \in Nat \ {0}
    BY <1>1, <1>3
  <2>2. \A a \in Nat, b \in Nat \ {0} :
            a \div b \in Nat /\ (a \div b) * b <= a /\ a < (a \div b) * b + b
    BY DivIsFloor
  <2> QED
    BY <2>1, <2>2
<1>5. \A q \in Quotients(shown, p) : q \in Nat /\ q >= shown /\ q <= n
  <2>1. \A q \in Quotients(shown, p) : q = n \/ q = n - 1
    BY DEF Quotients
  <2>2. \A d \in Nat \ {0}, x \in Nat \ {0} :
            x <= 10000 => \A q \in Quotients(d, x) : q \in Nat /\ q >= d
    BY QuotientIsAtLeast
  <2>3. \A q \in Quotients(shown, p) : q \in Nat /\ q >= shown
    BY <1>1, <1>3, <2>2
  <2> HIDE DEF n
  <2> QED
    BY <1>4, <2>1, <2>3
<1>6. Says(shown, Smaller(shown, Cap))
  BY <1>0 DEF Says, Smaller, Cap
<1>7. n \in Quotients(shown, p) \/ (n - 1 \in Quotients(shown, p) /\ n * p = shown * 10000)
  BY DEF Quotients
<1>8. n * p = shown * 10000 /\ p # 10000 => n - 1 \in Quotients(shown, p)
  BY DEF Quotients
<1> HIDE DEF n
<1>9. CASE p * size > 10000 * shown
  <2>1. n <= shown
    <3>1. SUFFICES ASSUME n >= size
                   PROVE  FALSE
      BY <1>0, <1>4
    <3>2. n * p >= size * p
      BY <1>1, <1>4, <3>1
    <3>3. size * p = p * size /\ n * p \in Nat /\ p * size \in Nat
      BY <1>1, <1>4
    <3>4. n * p <= 10000 * shown
      BY <1>4
    <3> QED
      BY <1>9, <3>2, <3>3, <3>4
  <2>2. \A q \in Quotients(shown, p) : q = shown
    BY <1>4, <1>5, <2>1
  <2>3. \A t \in Totals("percent", shown) : t = Smaller(shown, Cap)
    BY <1>2, <1>3, <2>2
  <2>4. Smaller(shown, Cap) \in Totals("percent", shown)
    <3>1. PICK q \in Quotients(shown, p) : TRUE
      BY <1>7
    <3> QED
      BY <1>2, <1>3, <2>2, <3>1
  <2> QED
    BY <1>6, <2>3, <2>4
<1>10. CASE p * size = 10000 * shown
  <2>1. size * p = shown * 10000 /\ p # 10000
    BY <1>0, <1>1, <1>10
  <2>2. n = size
    <3>1. CASE n > size
      <4>1. n * p >= (size + 1) * p
        BY <1>1, <1>4, <3>1
      <4>2. (size + 1) * p = size * p + p
        BY <1>1
      <4> QED
        BY <1>1, <1>3, <1>4, <2>1, <4>1, <4>2
    <3>2. CASE n < size
      <4>1. (n + 1) * p <= size * p
        BY <1>1, <1>4, <3>2
      <4>2. (n + 1) * p = n * p + p
        BY <1>1, <1>4
      <4> QED
        BY <1>1, <1>4, <2>1, <4>1, <4>2
    <3> QED
      BY <1>4, <3>1, <3>2
  <2>3. shown \in Quotients(shown, p)
    BY <1>0, <1>8, <2>1, <2>2
  <2>4. Smaller(shown, Cap) \in Totals("percent", shown)
    BY <1>2, <1>3, <2>3
  <2>5. ~(p * size > 10000 * shown)
    BY <1>10
  <2> QED
    BY <1>6, <2>4, <2>5 DEF p
<1> QED
  BY <1>0, <1>1, <1>9, <1>10 DEF p

-----------------------------------------------------------------------------
(* ServerProcess: the main thread gets to its end.  What is left of        *)
(* StartAndLogsEnd is that a step that can be taken is taken.              *)

\* What MCServer.stop has still to do.
StopRank ==
    CASE stopAt = "called" -> 3
      [] stopAt = "write"  -> 2
      [] stopAt = "wait"   -> 1
      [] OTHER             -> 0

\* What the main thread has still to do, at most, from each place: one launch, one
\* restart with a stop in it, Tries attempts to connect, the work, one more stop.
Rank ==
    CASE main = "launch"     -> Tries + 13
      [] main = "wait"       -> Tries + 12
      [] main = "check"      -> Tries + 11
      [] main = "restart"    -> Tries + 7 + StopRank
      [] main = "wait again" -> Tries + 6
      [] main = "connect"    -> Tries - tries + 5
      [] main = "work"       -> 5
      [] main = "stop"       -> 1 + StopRank
      [] OTHER               -> 0

CountsDown == Rank' < Rank \/ UNCHANGED <<main, stopAt, tries>>

\* A stop that was called is under way, and there is room for the log thread of the
\* launch and for the one of the restart.
StuckInv ==
    /\ main = "stop" => stopAt # "idle"
    /\ main = "launch" => loggers = {}
    /\ main \in {"wait", "check", "restart"} => \E t \in {1, 2} : loggers \subseteq {t}

\* The main thread has a step to take: a wait or an attempt always ends one way or the
\* other, and start_log_stream finds a place for its thread.
HasAStep ==
    \/ main \in {"launch", "restart"} /\ stopAt = "idle" /\ {1, 2} \ loggers # {}
    \/ main \in {"wait", "check", "wait again", "connect", "work"}
    \/ main \in {"stop", "restart"} /\ stopAt \in {"called", "write", "wait"}

LEMMA StopRanks ==
    /\ stopAt = "called" => StopRank = 3
    /\ stopAt = "write" => StopRank = 2
    /\ stopAt = "wait" => StopRank = 1
    /\ stopAt = "idle" => StopRank = 0
  BY DEF StopRank

LEMMA Ranks ==
    /\ main = "launch" => Rank = Tries + 13
    /\ main = "wait" => Rank = Tries + 12
    /\ main = "check" => Rank = Tries + 11
    /\ main = "restart" => Rank = Tries + 7 + StopRank
    /\ main = "wait again" => Rank = Tries + 6
    /\ main = "connect" => Rank = Tries - tries + 5
    /\ main = "work" => Rank = 5
    /\ main = "stop" => Rank = 1 + StopRank
    /\ main \in {"ended", "raised"} => Rank = 0
  BY DEF Rank

LEMMA EveryStepCountsDown ==
  ASSUME StrayInv, ProcessTypes, ProcessTypes', [ProcessNext]_procVars
  PROVE  CountsDown
<1>0. Tries \in Nat /\ tries \in 0 .. Tries - 1 /\ tries' \in 0 .. Tries - 1
  BY ProcessAssumption DEF ProcessTypes, TriesTypes
<1>1. /\ main' = "wait" => Rank' = Tries + 12
      /\ main' = "check" => Rank' = Tries + 11
      /\ main' = "restart" => Rank' = Tries + 7 + StopRank'
      /\ main' = "wait again" => Rank' = Tries + 6
      /\ main' = "connect" => Rank' = Tries - tries' + 5
      /\ main' = "work" => Rank' = 5
      /\ main' = "stop" => Rank' = 1 + StopRank'
      /\ main' \in {"ended", "raised"} => Rank' = 0
  BY DEF Rank
<1>2. /\ stopAt' = "called" => StopRank' = 3
      /\ stopAt' = "write" => StopRank' = 2
      /\ stopAt' = "wait" => StopRank' = 1
      /\ stopAt' = "idle" => StopRank' = 0
  BY DEF StopRank
<1> SUFFICES ASSUME MainActs
             PROVE  Rank' < Rank
  BY DEF CountsDown, ProcessNext, LoggerActs, LoggerEnds, Prints, Boots, Exits, StrayExits,
     ReaderSees, procVars
<1>3. CASE Launch1
  <2>1. main = "launch" /\ main' = "wait"
    BY <1>3 DEF Launch1
  <2> QED
    BY <1>0, <1>1, <2>1, Ranks
<1>4. CASE SeesReady
  <2>1. \/ main = "wait" /\ main' = "check"
        \/ main = "wait again" /\ main' = "connect"
    BY <1>4 DEF SeesReady, Waiting
  <2>2. main' = "connect" => tries' = tries
    BY <1>4 DEF SeesReady
  <2>3. \/ Rank = Tries + 12 /\ Rank' = Tries + 11
        \/ Rank = Tries + 6 /\ Rank' = Tries - tries' + 5
    BY <1>1, <2>1, Ranks
  <2> QED
    BY <1>0, <2>3
<1>5. CASE GivesUpWaiting
  <2>1. main \in {"wait", "wait again"} /\ main' = "stop" /\ stopAt' = "called"
    BY <1>5 DEF GivesUpWaiting, Waiting, NotReady, StopLifecycle
  <2>2. /\ Rank = Tries + 12 \/ Rank = Tries + 6
        /\ Rank' = 1 + 3
    BY <1>1, <1>2, <2>1, Ranks
  <2> QED
    BY <1>0, <2>2
<1>6. CASE Checks
  <2>1. /\ main = "check"
        /\ main' = "connect" \/ (main' = "restart" /\ stopAt' = "called")
    BY <1>6 DEF Checks
  <2>2. /\ Rank = Tries + 11
        /\ Rank' = Tries - tries' + 5 \/ Rank' = Tries + 7 + 3
    BY <1>1, <1>2, <2>1, Ranks
  <2> QED
    BY <1>0, <2>2
<1>7. CASE Restarts
  <2>1. main = "restart" /\ stopAt = "idle" /\ main' = "wait again"
    BY <1>7 DEF Restarts
  <2>2. Rank = Tries + 7 + 0 /\ Rank' = Tries + 6
    BY <1>1, <2>1, Ranks, StopRanks
  <2> QED
    BY <1>0, <2>2
<1>8. CASE Connects
  <2>1. /\ main = "connect"
        /\ \/ main' = "work"
           \/ main' = "connect" /\ tries' = tries + 1
           \/ main' = "stop" /\ stopAt' = "called"
    BY <1>8, Zenon DEF Connects, StopLifecycle
  <2>2. /\ Rank = Tries - tries + 5
        /\ \/ Rank' = 5
           \/ Rank' = Tries - tries' + 5 /\ tries' = tries + 1
           \/ Rank' = 1 + 3
    BY <1>1, <1>2, <2>1, Ranks
  <2> QED
    BY <1>0, <2>2
<1>9. CASE WorkEnds
  <2>1. /\ main = "work"
        /\ main' = "raised" \/ (main' = "stop" /\ stopAt' = "called")
    BY <1>9, Zenon DEF WorkEnds, StopLifecycle
  <2>2. /\ Rank = 5
        /\ Rank' = 0 \/ Rank' = 1 + 3
    BY <1>1, <1>2, <2>1, Ranks
  <2> QED
    BY <2>2
<1>10. CASE StopReturns \/ StopGoesOn \/ StopWrites \/ StopDone \/ StopKills
  <2>1. main \in {"stop", "restart"}
    BY <1>10 DEF StopReturns, StopGoesOn, StopWrites, StopDone, StopKills, StrayInv
  <2>2. \/ main' = main /\ stopAt = "called" /\ stopAt' = "write"
        \/ main' = main /\ stopAt = "write" /\ stopAt' = "wait"
        \/ main' = "raised"
        \/ stopAt \in {"called", "wait"} /\ stopAt' = "idle" /\ main' = AfterStop
    BY <1>10 DEF StopReturns, StopGoesOn, StopWrites, StopDone, StopKills, Stopped
  <2>3. stopAt \in {"called", "write", "wait"}
    BY <1>10 DEF StopReturns, StopGoesOn, StopWrites, StopDone, StopKills
  <2>4. StopRank \in 1 .. 3
    BY <2>3, StopRanks
  <2>5. Rank = 1 + StopRank \/ Rank = Tries + 7 + StopRank
    BY <2>1, Ranks
  <2>6. CASE main' = "raised"
    <3>1. Rank' = 0
      BY <1>1, <2>6
    <3> QED
      BY <1>0, <2>4, <2>5, <3>1
  <2>7. CASE main' = main /\ StopRank' < StopRank /\ StopRank' \in 0 .. 3
    <3>1. \/ Rank = 1 + StopRank /\ Rank' = 1 + StopRank'
          \/ Rank = Tries + 7 + StopRank /\ Rank' = Tries + 7 + StopRank'
      BY <1>1, <2>1, <2>7, Ranks
    <3> QED
      BY <1>0, <2>4, <2>7, <3>1
  <2>8. CASE stopAt \in {"called", "wait"} /\ stopAt' = "idle" /\ main' = AfterStop
    <3>1. \/ main = "stop" /\ main' = "ended"
          \/ main = "restart" /\ main' = main
      BY <2>1, <2>8 DEF AfterStop
    <3>2. StopRank' = 0
      BY <1>2, <2>8
    <3>3. \/ Rank = 1 + StopRank /\ Rank' = 0
          \/ Rank = Tries + 7 + StopRank /\ Rank' = Tries + 7 + StopRank'
      BY <1>1, <3>1, Ranks
    <3> QED
      BY <1>0, <2>4, <3>2, <3>3
  <2> QED
    BY <1>2, <2>2, <2>6, <2>7, <2>8, StopRanks
<1> QED
  BY <1>3, <1>4, <1>5, <1>6, <1>7, <1>8, <1>9, <1>10 DEF MainActs

LEMMA RankIsNat == StrayInv /\ ProcessTypes => Rank \in 0 .. Tries + 13
<1> SUFFICES ASSUME StrayInv, ProcessTypes
             PROVE  Rank \in 0 .. Tries + 13
  OBVIOUS
<1>1. Tries \in Nat /\ tries \in 0 .. Tries - 1
  BY ProcessAssumption DEF ProcessTypes, TriesTypes
<1>2. StopRank \in 0 .. 3
  <2>1. stopAt \in {"idle", "called", "write", "wait"}
    BY DEF ProcessTypes, PlaceTypes
  <2>2. StopRank \in {0, 1, 2, 3}
    BY <2>1, StopRanks
  <2> QED
    BY <2>2
<1>3. main \in {"launch", "wait", "check", "restart", "wait again", "connect", "work",
                "stop", "ended", "raised"}
  BY DEF ProcessTypes, PlaceTypes
<1>4. Rank \in {Tries + 13, Tries + 12, Tries + 11, Tries + 7 + StopRank, Tries + 6,
                Tries - tries + 5, 5, 1 + StopRank, 0}
  BY <1>3, Ranks
<1> QED
  BY <1>1, <1>2, <1>4

\* Whatever Minecraft does, the main thread has an end: each of its steps brings it
\* nearer to it, and none of another thread sets it back, so that it takes at most
\* Tries + 13 in all.  The server is restarted for RCON once at most (main.py,
\* MCLifecycle.restart_for_rcon and connect_rcon).
THEOREM MainThreadCountsDown ==
    ProcessSpec => [](Rank \in 0 .. Tries + 13) /\ [][CountsDown]_procVars
<1>1. StrayInv /\ ProcessTypes /\ [ProcessNext]_procVars
      => (StrayInv /\ ProcessTypes)' /\ [CountsDown]_procVars
  BY StrayStep, ProcessTypesStep, EveryStepCountsDown
<1>2. ProcessInit => StrayInv
  BY DEF ProcessInit, StrayInv, Alive
<1> QED
  BY <1>1, <1>2, ProcessTypesInit, RankIsNat, PTL DEF ProcessSpec

LEMMA StuckStep ==
  StuckInv /\ StrayInv /\ ProcessTypes /\ [ProcessNext]_procVars => StuckInv'
<1> SUFFICES ASSUME StuckInv, StrayInv, ProcessTypes, [ProcessNext]_procVars
             PROVE  StuckInv'
  OBVIOUS
<1>1. CASE Launch1
  <2>1. main' = "wait" /\ \E t \in {1, 2} : loggers' = {t}
    BY <1>1 DEF Launch1, AddLogger, StuckInv
  <2> QED
    BY <2>1 DEF StuckInv
<1>2. CASE Restarts
  <2>1. main' = "wait again"
    BY <1>2 DEF Restarts
  <2> QED
    BY <2>1 DEF StuckInv
<1>3. CASE SeesReady \/ Checks
  <2>1. main' \in {"check", "connect", "restart"} /\ loggers' = loggers
    BY <1>3 DEF SeesReady, Checks
  <2>2. main' \in {"check", "restart"} => main \in {"wait", "check"}
    BY <1>3 DEF SeesReady, Checks
  <2> QED
    BY <2>1, <2>2 DEF StuckInv
<1>4. CASE GivesUpWaiting \/ Connects \/ WorkEnds
  <2>1. \/ main' = "stop" /\ stopAt' = "called"
        \/ main' \in {"work", "raised"}
        \/ main' = "connect"
    BY <1>4, Zenon DEF GivesUpWaiting, NotReady, Connects, WorkEnds, StopLifecycle
  <2> QED
    BY <2>1 DEF StuckInv
<1>5. CASE StopReturns \/ StopDone \/ StopKills
  <2>1. loggers' = loggers /\ main \in {"stop", "restart"}
    BY <1>5 DEF StopReturns, StopDone, StopKills, StrayInv
  <2>2. main' \in {"ended", "restart"} /\ (main' = "restart" => main = "restart")
    BY <1>5, <2>1 DEF StopReturns, StopDone, StopKills, Stopped, AfterStop
  <2> QED
    BY <2>1, <2>2 DEF StuckInv
<1>6. CASE StopGoesOn \/ StopWrites
  <2>1. loggers' = loggers
    BY <1>6 DEF StopGoesOn, StopWrites
  <2>2. main' = "raised" \/ (main' = main /\ stopAt' # "idle")
    BY <1>6 DEF StopGoesOn, StopWrites
  <2> QED
    BY <2>1, <2>2 DEF StuckInv
<1>7. CASE LoggerActs \/ Prints \/ Boots \/ Exits \/ StrayExits \/ ReaderSees
          \/ UNCHANGED procVars
  <2>1. UNCHANGED <<main, stopAt>> /\ loggers' \subseteq loggers
    BY <1>7 DEF LoggerActs, LoggerEnds, Prints, Boots, Exits, StrayExits, ReaderSees, procVars
  <2> QED
    BY <2>1 DEF StuckInv
<1> QED
  BY <1>1, <1>2, <1>3, <1>4, <1>5, <1>6, <1>7 DEF ProcessNext, MainActs

\* The main thread never hangs on something that nobody does: until it has ended it
\* has a step to take, whatever Minecraft and the log threads do (main.py).  HasAStep is what
\* ENABLED MainActs comes to, in terms of the variables.
THEOREM MainThreadIsNeverStuck ==
    ProcessSpec => [](main \notin {"ended", "raised"} => HasAStep)
<1>1. StuckInv /\ StrayInv /\ ProcessTypes => (main \notin {"ended", "raised"} => HasAStep)
  <2> SUFFICES ASSUME StuckInv, StrayInv, ProcessTypes, main \notin {"ended", "raised"}
               PROVE  HasAStep
    OBVIOUS
  <2>1. \A t \in {1, 2} : {1, 2} \ {t} # {}
    OBVIOUS
  <2>2. main \in {"launch", "restart"} => {1, 2} \ loggers # {}
    BY <2>1 DEF StuckInv
  <2>3. /\ main \in {"launch", "wait", "check", "restart", "wait again", "connect", "work",
                     "stop"}
        /\ stopAt \in {"idle", "called", "write", "wait"}
        /\ main = "launch" => stopAt = "idle"
        /\ main = "stop" => stopAt # "idle"
    BY DEF ProcessTypes, PlaceTypes, StrayInv
  <2> QED
    BY <2>2, <2>3 DEF HasAStep
<1>2. ProcessInit => StuckInv /\ StrayInv
  BY DEF ProcessInit, StuckInv, StrayInv, Alive
<1> QED
  BY <1>1, <1>2, StuckStep, StrayStep, ProcessTypesInit, ProcessTypesStep, PTL DEF ProcessSpec

-----------------------------------------------------------------------------
(* The parts of the client together *)

LEMMA ClientPartsStart ==
    ClientPartsInit => /\ RconInit /\ ParserInit /\ ProcessInit
                       /\ ProvisioningInit /\ UpdaterInit /\ TilesInit
  BY Zenon DEF ClientPartsInit

LEMMA ClientPartsMove ==
    [ClientPartsNext]_clientPartsVars =>
        /\ [RconNext]_rconVars /\ [ParserNext]_parserVars /\ [ProcessNext]_procVars
        /\ [ProvisioningNext]_provVars /\ [UpdaterNext]_updVars /\ [TilesNext]_tilesVars
<1>1. UNCHANGED clientPartsVars =>
          UNCHANGED <<rconVars, parserVars, procVars, provVars, updVars, tilesVars>>
  BY DEF clientPartsVars
<1> QED
  BY <1>1, Zenon DEF ClientPartsNext, ExploresRcon, ExploresParser, ExploresProcess,
     ExploresProvisioning, ExploresUpdate, ExploresTiles

\* The client's parts share no state: a behaviour that explores one of them takes
\* no step that a part does not allow, so that what is proved of the steps of a
\* part holds where the parts are explored together.
THEOREM ClientPartsTakeTheirSteps ==
    ClientPartsSpec =>
        /\ RconInit /\ [][RconNext]_rconVars
        /\ ParserSpec
        /\ ProcessInit /\ [][ProcessNext]_procVars
        /\ ProvisioningSpec /\ UpdaterSpec /\ TilesSpec
  BY ClientPartsStart, ClientPartsMove, PTL
     DEF ClientPartsSpec, ParserSpec, ProvisioningSpec, UpdaterSpec, TilesSpec

\* The state of every part of the client has its type, whichever is explored.
THEOREM ClientPartsTypesHold == ClientPartsSpec => []ClientPartsTypeOK
<1>1. RconInit /\ [][RconNext]_rconVars => []RconTypeOK
  BY RconTypesInit, RconTypesStep, RconTypes, PTL
<1>2. ProcessInit /\ [][ProcessNext]_procVars => []ProcessTypeOK
  BY ProcessTypesInit, ProcessTypesStep, ProcessTypesOK, PTL
<1>3. /\ RconTypeOK /\ ProcessTypeOK /\ ProvisioningTypeOK /\ UpdaterTypeOK /\ TilesTypeOK
      => ClientPartsTypeOK
  BY Zenon DEF ClientPartsTypeOK
<1> QED
  BY <1>1, <1>2, <1>3, ClientPartsTakeTheirSteps, ProvisioningTypesHold, UpdaterTypesHold,
     TilesTypesHold, PTL

=============================================================================
