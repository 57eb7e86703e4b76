---------------------------- MODULE ChunkStorage ----------------------------
(***************************************************************************)
(* server/storage_manager.py: region files and their content-addressed     *)
(* blobs on disk.  Threads write under one class-wide lock; compact_blobs  *)
(* takes no lock; the process can die between any two file operations, the *)
(* file system stays as it is.                                             *)
(***************************************************************************)
EXTENDS Naturals

CONSTANTS
    Writers,    \* threads calling write_mca
    FileNames,  \* names of region files
    Bytes,      \* contents, equal iff their SHA-256 are equal
    Absent, Part, Whole,  \* state of a blob or temporary file
    Nobody      \* the lock is free, the thread has no job

ASSUME StorageAssumption ==
    /\ Nobody \notin Writers /\ Nobody \notin FileNames \X Bytes
    /\ Absent \notin Bytes /\ Part \notin Bytes /\ Absent # Part
    /\ Absent # Whole /\ Part # Whole

VARIABLES
    blob,  \* blob[x]: file .blobs/<sha of x>
    tmp,   \* tmp[x]: file .blobs/<sha of x>.tmp
    links, \* whether the file system supports hard links
    dest,  \* dest[f]: content of region file f, Absent, or Part of a content
    lock,  \* holder of _write_lock
    at,    \* at[w]: where thread w is in write_mca
    job    \* job[w]: its arguments <<filename, data>>

disk == <<blob, tmp, dest>>
storageVars == <<disk, links, lock, at, job>>

Locked == {"opening", "filling", "renaming", "storing", "copying"}

StorageInit ==
    /\ blob = [x \in Bytes |-> Absent]
    /\ tmp = [x \in Bytes |-> Absent]
    /\ dest = [f \in FileNames |-> Absent]
    /\ links \in BOOLEAN
    /\ lock = Nobody
    /\ at = [w \in Writers |-> "idle"]
    /\ job = [w \in Writers |-> Nobody]

Name(w) == job[w][1]
Data(w) == job[w][2]

Proceed(w, l) == at' = [at EXCEPT ![w] = l] /\ UNCHANGED <<lock, job>>

Finish_KeepsJob(w) ==
    /\ at' = [at EXCEPT ![w] = "idle"]
    /\ lock' = Nobody
    /\ UNCHANGED job

\* The with block ends, normally or by an exception.
Finish(w) ==
    /\ at' = [at EXCEPT ![w] = "idle"]
    /\ job' = [job EXCEPT ![w] = Nobody]
    /\ lock' = Nobody

Begin(w, f, x) ==
    /\ at[w] = "idle"
    /\ at' = [at EXCEPT ![w] = "waiting"]
    /\ job' = [job EXCEPT ![w] = <<f, x>>]
    /\ UNCHANGED <<disk, lock>>

Acquire_NoLock(w) ==
    /\ at[w] = "waiting"
    /\ lock' = w
    /\ at' = [at EXCEPT ![w] = IF blob[Data(w)] = Absent THEN "opening" ELSE "storing"]
    /\ UNCHANGED <<disk, job>>

\* The lock is taken; an existing blob is used as it is.
Acquire(w) ==
    /\ at[w] = "waiting"
    /\ lock = Nobody
    /\ lock' = w
    /\ at' = [at EXCEPT ![w] = IF blob[Data(w)] = Absent THEN "opening" ELSE "storing"]
    /\ UNCHANGED <<disk, job>>

OpenTmp_InPlace(w) ==
    /\ at[w] = "opening"
    /\ blob' = [blob EXCEPT ![Data(w)] = Part]
    /\ tmp' = [tmp EXCEPT ![Data(w)] = Part]
    /\ Proceed(w, "filling")
    /\ UNCHANGED dest

\* write_bytes truncates the temporary file, then fills it.
OpenTmp(w) ==
    /\ at[w] = "opening"
    /\ tmp' = [tmp EXCEPT ![Data(w)] = Part]
    /\ Proceed(w, "filling")
    /\ UNCHANGED <<blob, dest>>

\* If it was unlinked meanwhile, the data goes to a file without a name.
FillTmp(w) ==
    /\ at[w] = "filling"
    /\ tmp' = [tmp EXCEPT ![Data(w)] = IF @ = Absent THEN Absent ELSE Whole]
    /\ Proceed(w, "renaming")
    /\ UNCHANGED <<blob, dest>>

\* The temporary file becomes the blob; without it the rename raises.
Rename(w) ==
    /\ at[w] = "renaming"
    /\ \/ /\ tmp[Data(w)] # Absent
          /\ blob' = [blob EXCEPT ![Data(w)] = tmp[Data(w)]]
          /\ tmp' = [tmp EXCEPT ![Data(w)] = Absent]
          /\ Proceed(w, "storing")
       \/ /\ tmp[Data(w)] = Absent
          /\ Finish(w)
          /\ UNCHANGED <<blob, tmp>>
    /\ UNCHANGED dest

\* What a name linked to, or copied from, the blob of x has.
Content(x) == IF blob[x] = Whole THEN x ELSE Part

Store_Overwrites(w) ==
    /\ at[w] = "storing"
    /\ blob[Data(w)] # Absent
    /\ dest' = [dest EXCEPT ![Name(w)] = Content(Data(w))]
    /\ Finish(w)
    /\ UNCHANGED <<blob, tmp>>

\* A name that exists stays; otherwise the blob is linked to it, or where links
\* fail, copied; if the blob is gone both raise.
Store(w) ==
    /\ at[w] = "storing"
    /\ \/ /\ dest[Name(w)] # Absent \/ blob[Data(w)] = Absent
          /\ Finish(w)
          /\ UNCHANGED dest
       \/ /\ dest[Name(w)] = Absent /\ blob[Data(w)] # Absent
          /\ links
          /\ dest' = [dest EXCEPT ![Name(w)] = Content(Data(w))]
          /\ Finish(w)
       \/ /\ dest[Name(w)] = Absent /\ blob[Data(w)] # Absent
          /\ ~links
          /\ dest' = [dest EXCEPT ![Name(w)] = Part]
          /\ Proceed(w, "copying")
    /\ UNCHANGED <<blob, tmp>>

\* The copy goes on from the opened blob even if its name is gone.
Copied(w) ==
    /\ at[w] = "copying"
    /\ dest' = [dest EXCEPT ![Name(w)] = Data(w)]
    /\ Finish(w)
    /\ UNCHANGED <<blob, tmp>>

\* compact_blobs: a region file resolves to its own name, never to that of a
\* blob, so no blob counts as referenced and all files in .blobs are unlinked.
Compact ==
    /\ blob' = [x \in Bytes |-> Absent]
    /\ tmp' = [x \in Bytes |-> Absent]
    /\ UNCHANGED <<dest, lock, at, job>>

\* The process dies and starts again.
Die ==
    /\ lock' = Nobody
    /\ at' = [w \in Writers |-> "idle"]
    /\ job' = [w \in Writers |-> Nobody]
    /\ UNCHANGED disk

Write(w) ==
    \/ Acquire(w) \/ OpenTmp(w) \/ FillTmp(w) \/ Rename(w) \/ Store(w) \/ Copied(w)

StorageStep ==
    \/ \E w \in Writers :
        \/ \E f \in FileNames, x \in Bytes : Begin(w, f, x)
        \/ Write(w)
    \/ Compact
    \/ Die

StorageNext == StorageStep /\ UNCHANGED links

StorageSpec == StorageInit /\ [][StorageNext]_storageVars

-----------------------------------------------------------------------------
(* Properties *)

\* Files, the lock and the threads' locals have values they can have, and a
\* thread has arguments exactly while it is in write_mca.
StorageTypeOK ==
    /\ blob \in [Bytes -> {Absent, Part, Whole}]
    /\ tmp \in [Bytes -> {Absent, Part, Whole}]
    /\ dest \in [FileNames -> Bytes \cup {Absent, Part}]
    /\ links \in BOOLEAN
    /\ lock \in Writers \cup {Nobody}
    /\ at \in [Writers -> Locked \cup {"idle", "waiting"}]
    /\ job \in [Writers -> (FileNames \X Bytes) \cup {Nobody}]
    /\ \A w \in Writers : at[w] = "idle" <=> job[w] = Nobody

\* A blob under its final name holds all its bytes, whatever threads, crashes
\* and compactions do: later uploads of the same content rely on its name alone
\* (blob.exists() in write_mca).
BlobsAreWhole == \A x \in Bytes : blob[x] # Part

\* With hard links a region file is never incomplete, and so never blocks a
\* complete one from being stored under its name (dest.exists() in write_mca).
RegionFilesAreWhole == links => \A f \in FileNames : dest[f] # Part

\* Region files as far as they are complete.
Complete == [f \in FileNames |-> IF dest[f] = Part THEN Absent ELSE dest[f]]

\* Other parts of the server see write-once region files (what Orchestrator
\* assumes of write_mca, read_mca and get_mca_hash): a complete file keeps its
\* content through uploads, compactions and crashes, linked or copied.
Regions == INSTANCE RegionFiles
    WITH Files <- FileNames, Contents <- Bytes, NoFile <- Absent, stored <- Complete
StorageIsWriteOnce == Regions!Spec

=============================================================================
