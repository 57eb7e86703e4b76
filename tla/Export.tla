------------------------------- MODULE Export -------------------------------
(***************************************************************************)
(* What leaves the server: regions are assembled by hard links, or copies, *)
(* into the world to export (server/assembler.py), the world is packed     *)
(* into an archive named after the second (server/exporter.py), both asked *)
(* for in server/routes/admin.py, and after each completed batch regions   *)
(* are sent to cloud storage (server/s3_storage.py, submit_tasks).  Each   *)
(* runs on the event loop to its end, so that nothing but a crash or an    *)
(* exception comes in between.                                             *)
(***************************************************************************)
EXTENDS Naturals

CONSTANTS
    Areas,    \* region files
    LastTime  \* bound on the clock, in seconds

ASSUME ExportAssumption == LastTime \in Nat \ {0}

Times == 1 .. LastTime

VARIABLES
    hard,      \* data/ takes hard links
    kept,      \* kept[f]: f in data/regions, write-once (ChunkStorage)
    exported,  \* exported[f]: f in the world to export
    clock,     \* int(time.time())
    archives,  \* archives[t]: the archive named after t
    task,      \* what the event loop does
    left,      \* the files it has still to look at
    into,      \* the archive it writes
    covered,   \* files the last assembly that ended has looked at
    spoilt,    \* files a copy into the exported world was cut short of
    cloud,     \* files in cloud storage, under the key of one batch or another
    due        \* files stored before the last upload that did not fail

exportVars == <<hard, kept, exported, clock, archives, task, left, into, covered, spoilt,
                cloud, due>>

\* An archive: whether it is there and whole, the files packed, those that are
\* not whole, and the files the assembly before it covered.
NoArchive == [is |-> "absent", has |-> {}, torn |-> {}, must |-> {}]
Archive == [is : {"absent", "part", "whole"}, has : SUBSET Areas, torn : SUBSET Areas,
            must : SUBSET Areas]

ExportInit ==
    /\ hard \in BOOLEAN
    /\ kept = [f \in Areas |-> "absent"]
    /\ exported = [f \in Areas |-> "absent"]
    /\ clock = 1 /\ archives = [t \in Times |-> NoArchive]
    /\ task = "idle" /\ left = {} /\ into = 1
    /\ covered = {} /\ spoilt = {}
    /\ cloud = {} /\ due = {}

Stored == {f \in Areas : kept[f] # "absent"}
Assembled == {f \in Areas : exported[f] # "absent"}

Tick ==
    /\ clock < LastTime /\ clock' = clock + 1
    /\ UNCHANGED <<hard, kept, exported, archives, task, left, into, covered, spoilt,
                   cloud, due>>

\* A region is uploaded; where it is copied, a crash leaves part of it for good.
StoreArea(f) ==
    /\ task = "idle" /\ kept[f] = "absent"
    /\ \E s \in {"whole"} \cup IF hard THEN {} ELSE {"part"} : kept' = [kept EXCEPT ![f] = s]
    /\ UNCHANGED <<hard, exported, clock, archives, task, left, into, covered, spoilt,
                   cloud, due>>

-----------------------------------------------------------------------------
(* RegionAssembler.assemble *)

Assemble ==
    /\ task = "idle"
    /\ task' = "assembling" /\ left' = Stored
    /\ UNCHANGED <<hard, kept, exported, clock, archives, into, covered, spoilt, cloud,
                   due>>

Skips_AfterError(f) == exported[f] # "absent" \/ spoilt # {}

\* What has been assembled is never compared with what is stored.
Skips(f) == exported[f] # "absent"

\* The copy was cut short, by a crash or by an error, after which the assembly
\* goes on.
CopyCut(f) ==
    /\ exported' = [exported EXCEPT ![f] = "part"]
    /\ spoilt' = spoilt \cup {f}
    /\ \/ left' = left \ {f} /\ UNCHANGED task
       \/ left' = {} /\ task' = "idle"

AssembleFile(f) ==
    /\ task = "assembling" /\ f \in left
    /\ \/ /\ Skips(f)
          /\ left' = left \ {f}
          /\ UNCHANGED <<exported, spoilt, task>>
       \/ /\ ~Skips(f)
          /\ exported' = [exported EXCEPT ![f] = kept[f]]
          /\ left' = left \ {f}
          /\ UNCHANGED <<spoilt, task>>
       \/ ~Skips(f) /\ ~hard /\ CopyCut(f)
    /\ UNCHANGED <<hard, kept, clock, archives, into, covered, cloud, due>>

AssembleEnds ==
    /\ task = "assembling" /\ left = {}
    /\ task' = "idle" /\ covered' = Stored
    /\ UNCHANGED <<hard, kept, exported, clock, archives, left, into, spoilt, cloud, due>>

-----------------------------------------------------------------------------
(* ExportManager *)

\* The archive is opened: one of the same second is gone.
StartExport ==
    /\ task = "idle" /\ Assembled # {}
    /\ task' = "exporting" /\ into' = clock /\ left' = Assembled
    /\ archives' = [archives EXCEPT ![clock] = [NoArchive EXCEPT !.is = "part", !.must = covered]]
    /\ UNCHANGED <<hard, kept, exported, clock, covered, spoilt, cloud, due>>

Pack(f) ==
    /\ task = "exporting" /\ f \in left
    /\ left' = left \ {f}
    /\ LET a == archives[into] IN
       archives' = [archives EXCEPT ![into] =
           [a EXCEPT !.has = a.has \cup {f},
                     !.torn = IF exported[f] = "part" THEN a.torn \cup {f} ELSE a.torn]]
    /\ UNCHANGED <<hard, kept, exported, clock, task, into, covered, spoilt, cloud, due>>

ExportEnds ==
    /\ task = "exporting" /\ left = {}
    /\ task' = "idle"
    /\ archives' = [archives EXCEPT ![into].is = "whole"]
    /\ UNCHANGED <<hard, kept, exported, clock, left, into, covered, spoilt, cloud, due>>

\* delete_archive; nothing in the program calls it, the operator may do the same.
Delete(t) ==
    /\ task = "idle" /\ archives[t].is # "absent"
    /\ archives' = [archives EXCEPT ![t] = NoArchive]
    /\ UNCHANGED <<hard, kept, exported, clock, task, left, into, covered, spoilt, cloud, due>>

-----------------------------------------------------------------------------
(* S3Storage.upload_batch *)

ToUpload_OwnOnly(f) == {f}

\* All of data/regions, whichever batch was completed.
ToUpload(f) == Stored

\* A batch of region f is completed, on the strength of whatever is stored.
StartUpload(f) ==
    /\ task = "idle" /\ f \in Stored
    /\ task' = "uploading" /\ left' = ToUpload(f)
    /\ UNCHANGED <<hard, kept, exported, clock, archives, into, covered, spoilt, cloud,
                   due>>

UploadFile(f) ==
    /\ task = "uploading" /\ f \in left
    /\ left' = left \ {f} /\ cloud' = cloud \cup {f}
    /\ UNCHANGED <<hard, kept, exported, clock, archives, task, into, covered, spoilt,
                   due>>

UploadEnds ==
    /\ task = "uploading" /\ left = {}
    /\ task' = "idle" /\ due' = Stored
    /\ UNCHANGED <<hard, kept, exported, clock, archives, left, into, covered, spoilt,
                   cloud>>

\* The process dies at work, packing fails, or an upload fails, which is logged.
CutOff ==
    /\ task # "idle"
    /\ task' = "idle" /\ left' = {}
    /\ UNCHANGED <<hard, kept, exported, clock, archives, into, covered, spoilt, cloud,
                   due>>

ExportNext ==
    \/ Tick \/ Assemble \/ AssembleEnds \/ StartExport \/ ExportEnds \/ UploadEnds \/ CutOff
    \/ \E f \in Areas : StoreArea(f) \/ AssembleFile(f) \/ Pack(f) \/ StartUpload(f) \/ UploadFile(f)
    \/ \E t \in Times : Delete(t)

ExportSpec == ExportInit /\ [][ExportNext]_exportVars

-----------------------------------------------------------------------------
(* Properties *)

\* Types; and what is under way has something to do.
ExportTypeOK ==
    /\ kept \in [Areas -> {"absent", "part", "whole"}]
    /\ exported \in [Areas -> {"absent", "part", "whole"}]
    /\ archives \in [Times -> Archive]
    /\ task \in {"idle", "assembling", "exporting", "uploading"}
    /\ left \subseteq Stored /\ covered \subseteq Stored
    /\ task = "idle" => left = {}

\* An archive that was finished has every region the last assembly before it
\* looked at, and all that older archives have; and it has them as they are
\* stored, but for those whose copy into the exported world was once cut short:
\* they are torn in every archive from then on, however often the world is
\* assembled again.
ArchivesAreExplained ==
    \A t \in Times : LET a == archives[t] IN a.is = "whole" =>
        /\ a.must \subseteq a.has
        /\ a.torn = {f \in a.has : f \in spoilt \/ kept[f] = "part"}
        /\ \A u \in Times : u < t /\ archives[u].is = "whole" => archives[u].has \subseteq a.has

\* Cloud storage has all that was stored when an upload last ended well: one
\* that fails is made up for by the next completed batch, of any region, since
\* each sends everything.
CloudCatchesUp == due \subseteq cloud

=============================================================================
