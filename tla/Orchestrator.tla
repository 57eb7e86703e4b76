---------------------------- MODULE Orchestrator ----------------------------
(***************************************************************************)
(* The server side of task orchestration: which region is given to which   *)
(* client (server/tasker.py), how uploads and submissions move a batch     *)
(* (server/routes/tasks.py), how region files are kept (ChunkStorage, here *)
(* reduced to its write-once effect) and how batches of silent clients are *)
(* taken back (server/api.py).                                             *)
(*                                                                         *)
(* A handler that awaits the database twice is two actions: between them   *)
(* the event loop runs other handlers.  A single SQLite write transaction  *)
(* is one action.  Clients are constrained only by what the client program *)
(* ever does: it sends a file at most once per batch, for batches it was   *)
(* given, and submits each batch at most once, naming files whose upload   *)
(* was acknowledged.                                                       *)
(***************************************************************************)
EXTENDS Integers, FiniteSets

CONSTANTS
    Clients,       \* client ids handed out by login
    Regions,       \* rows of the tasks table, as pairs <<region_x, region_z>>
    Contents,      \* contents a region file can have; equal iff SHA-256 equal
    Verification,  \* config.verification: double generation on or off
    MaxBatches,    \* bound on the batch rows ever inserted
    NoClient,      \* assigned_to IS NULL
    NoRegion,      \* no region selected by the request
    NoFile         \* the file does not exist

ASSUME OrchestratorAssumption ==
    /\ Regions \subseteq Int \X Int
    /\ Verification \in BOOLEAN
    /\ MaxBatches \in Nat
    /\ NoClient \notin Clients
    /\ NoRegion \notin Regions
    /\ NoFile \notin Contents

ASSUME ClientsAreFinite == IsFiniteSet(Clients)

VARIABLES
    issued,     \* highest batch id inserted so far
    region,     \* region[b]: region_x, region_z of batch b
    status,     \* status[b]: the status column ("none" before the insert)
    owner,      \* owner[b]: the assigned_to column
    retries,    \* retries[b]: the retry_count column
    assignee,   \* assignee[b]: the client the batch was returned to
    rows,       \* rows[b]: validation rows of b, pairs <<storage_path, file_hash>>
    uploads,    \* uploads[b][f]: upload of file f under b: "no", "sent", "acked"
    declared,   \* declared[b]: chunk_hashes submitted for b, pairs <<file, hash>>
    verdict,    \* verdict[b]: all_valid of the submission being handled
    stored,     \* stored[f]: content of data/regions/<f>, or NoFile
    seen,       \* seen[c]: last_seen against the 60 s timeout
    picked,     \* picked[c]: region selected by c's get_batch, not yet inserted
    writing,    \* uploads stored on disk and not yet in the database, with
                \* what the handler knows of a row with the same hash
    sweep       \* the sweeper between its reads and its commit

batchRow == <<issued, region, owner, retries, assignee>>
files    == <<rows, uploads, stored, writing>>
submits  == <<declared, verdict>>
vars == <<batchRow, status, files, submits, seen, picked, sweep>>

BatchIds   == 1..MaxBatches
InProgress == {"assigned", "working"}
Passed     == {"completed", "validated"}
Statuses   == InProgress \cup Passed \cup {"none", "pending", "hash_error"}
SweepIdle  == [dead |-> {}, stuck |-> {}]

Issued(b) == status[b] # "none"

(***************************************************************************)
(* Files of a region: r.<x>.<z>.mca, so files are named by regions.        *)
(***************************************************************************)
Files == Regions

Init ==
    /\ issued = 0
    /\ region = [b \in BatchIds |-> NoRegion]
    /\ status = [b \in BatchIds |-> "none"]
    /\ owner = [b \in BatchIds |-> NoClient]
    /\ retries = [b \in BatchIds |-> 0]
    /\ assignee = [b \in BatchIds |-> NoClient]
    /\ rows = [b \in BatchIds |-> {}]
    /\ uploads = [b \in BatchIds |-> [f \in Files |-> "no"]]
    /\ declared = [b \in BatchIds |-> {}]
    /\ verdict = [b \in BatchIds |-> "none"]
    /\ stored = [f \in Files |-> NoFile]
    /\ seen = [c \in Clients |-> "absent"]
    /\ picked = [c \in Clients |-> NoRegion]
    /\ writing = {}
    /\ sweep = SweepIdle

-----------------------------------------------------------------------------
(* Login, heartbeat and the passing of time *)

Login(c) ==
    /\ seen[c] = "absent"
    /\ seen' = [seen EXCEPT ![c] = "never"]
    /\ UNCHANGED <<batchRow, status, files, submits, picked, sweep>>

Heartbeat(c) ==
    /\ seen[c] # "absent"
    /\ seen' = [seen EXCEPT ![c] = "fresh"]
    /\ UNCHANGED <<batchRow, status, files, submits, picked, sweep>>

\* HEARTBEAT_TIMEOUT_SECONDS go by without a heartbeat of c reaching the server.
Expire(c) ==
    /\ seen[c] = "fresh"
    /\ seen' = [seen EXCEPT ![c] = "stale"]
    /\ UNCHANGED <<batchRow, status, files, submits, picked, sweep>>

-----------------------------------------------------------------------------
(* GET /tasks/batch *)

MaxAssign_One == 1

MaxAssign == IF Verification THEN 2 ELSE 1

\* Batches that count against a region's assignments.
Counted(r) == {b \in BatchIds : region[b] = r /\ status[b] \in InProgress \cup Passed}

Available_OffByOne == {r \in Regions : Cardinality(Counted(r)) <= MaxAssign}

Available == {r \in Regions : Cardinality(Counted(r)) < MaxAssign}

DistSq(r) == r[1] * r[1] + r[2] * r[2]

Nearest(S) == {r \in S : \A q \in S : DistSq(r) <= DistSq(q)}

\* First session: the nearest region with room, read without any lock kept.
SelectTask(c) ==
    /\ seen[c] # "absent"
    /\ picked[c] = NoRegion
    /\ \E r \in Nearest(Available) : picked' = [picked EXCEPT ![c] = r]
    /\ UNCHANGED <<batchRow, status, files, submits, seen, sweep>>

\* Second session: a new batch row for the region selected before.  The
\* find-or-create of the World row only supplies a foreign key.
InsertBatch(c) ==
    /\ picked[c] # NoRegion
    /\ issued < MaxBatches
    /\ issued' = issued + 1
    /\ region' = [region EXCEPT ![issued + 1] = picked[c]]
    /\ status' = [status EXCEPT ![issued + 1] = "assigned"]
    /\ owner' = [owner EXCEPT ![issued + 1] = c]
    /\ assignee' = [assignee EXCEPT ![issued + 1] = c]
    /\ picked' = [picked EXCEPT ![c] = NoRegion]
    /\ UNCHANGED <<retries, files, submits, seen, sweep>>

\* The second session fails (database locked, request cancelled).
AbortAssignment(c) ==
    /\ picked[c] # NoRegion
    /\ picked' = [picked EXCEPT ![c] = NoRegion]
    /\ UNCHANGED <<batchRow, status, files, submits, seen, sweep>>

-----------------------------------------------------------------------------
(* PUT /tasks/upload/{batch_id} *)

WriteMca_Overwrites(f, x) == stored' = [stored EXCEPT ![f] = x]

\* ChunkStorage.write_mca: the first content stored under a name stays.
WriteMca(f, x) ==
    stored' = IF stored[f] = NoFile THEN [stored EXCEPT ![f] = x] ELSE stored

\* A request may arrive long after its client gave it up: beside other uploads of
\* that client, and after the batch was submitted.
ReceiveUpload(c, b, f, x) ==
    /\ Issued(b) /\ assignee[b] = c
    /\ uploads[b][f] = "no"
    /\ WriteMca(f, x)
    /\ uploads' = [uploads EXCEPT ![b][f] = "sent"]
    /\ writing' = writing \cup
            {[client |-> c, batch |-> b, file |-> f, content |-> x, row |-> "unread"]}
    /\ UNCHANGED <<batchRow, status, rows, submits, seen, picked, sweep>>

\* Rows of w's batch with the hash of what it uploads, whatever file they name.
SameHash(w) == {row \in rows[w.batch] : row[2] = w.content}

\* The database half begins by looking for such a row, without a lock; of two, which
\* uploads side by side can leave, scalar_one_or_none makes an error (FailUpload).
LookUpRow(w) ==
    /\ w \in writing /\ w.row = "unread"
    /\ \A r, s \in SameHash(w) : r = s
    /\ writing' = (writing \ {w}) \cup
            {[w EXCEPT !.row = IF SameHash(w) = {} THEN "absent" ELSE "present"]}
    /\ UNCHANGED <<batchRow, status, rows, uploads, stored, submits, seen, picked, sweep>>

AfterUpload_Always(s) == "working"

\* What an upload makes of the batch's status.
AfterUpload(s) == IF s = "assigned" THEN "working" ELSE s

\* Without such a row one is added, and assigned becomes working.  The INSERT takes
\* the write lock before the batch is read; where there was a row, the batch is
\* not "assigned" any more.
RecordUpload(w) ==
    /\ w \in writing /\ w.row # "unread"
    /\ writing' = writing \ {w}
    /\ rows' = IF w.row = "present"
               THEN rows
               ELSE [rows EXCEPT ![w.batch] = @ \cup {<<w.file, w.content>>}]
    /\ status' = [status EXCEPT ![w.batch] = AfterUpload(@)]
    /\ uploads' = [uploads EXCEPT ![w.batch][w.file] = "acked"]
    /\ UNCHANGED <<batchRow, stored, submits, seen, picked, sweep>>

\* The database half fails: the file is stored, the client sees an error.
FailUpload(w) ==
    /\ w \in writing
    /\ writing' = writing \ {w}
    /\ UNCHANGED <<batchRow, status, rows, uploads, stored, submits, seen, picked, sweep>>

-----------------------------------------------------------------------------
(* POST /tasks/submit *)

ActualHashes_AnyBatch(b, f) ==
    LET cached == {row \in UNION {rows[o] : o \in BatchIds} : row[1] = f}
    IN  IF cached # {} THEN {row[2] : row \in cached} ELSE {stored[f]}

\* What a declared hash of f is compared with: the cached row, else the file.
ActualHashes(b, f) ==
    LET cached == {row \in rows[b] : row[1] = f}
    IN  IF cached # {} THEN {row[2] : row \in cached} ELSE {stored[f]}

\* Declarations the client can make: at least one acknowledged file, and one
\* hash for each file.
Declarations(b) ==
    {D \in SUBSET ({f \in Files : uploads[b][f] = "acked"} \X Contents) :
        D # {} /\ \A d, e \in D : d[1] = e[1] => d = e}

AllValid_Some(D, actual) == \E d \in D : actual[d] = d[2]

AllValid(D, actual) == \A d \in D : actual[d] = d[2]

\* The declared hashes are compared file by file, in sessions of their own.
CheckHashes(c, b, D) ==
    /\ Issued(b) /\ assignee[b] = c
    /\ declared[b] = {}
    /\ declared' = [declared EXCEPT ![b] = D]
    /\ \E actual \in [D -> Contents \cup {NoFile}] :
        /\ \A d \in D : actual[d] \in ActualHashes(b, d[1])
        /\ verdict' = [verdict EXCEPT ![b] =
                        IF AllValid(D, actual) THEN "valid" ELSE "invalid"]
    /\ UNCHANGED <<batchRow, status, files, seen, picked, sweep>>

\* storage.get_mca_hash of every declared file against the declared hash.
StoredAgrees(b) == \A d \in declared[b] : stored[d[1]] = d[2]

Doubles_Validated(b) ==
    {o \in BatchIds \ {b} : region[o] = region[b] /\ status[o] = "validated"}

Doubles_AnyStatus(b) == {o \in BatchIds \ {b} : region[o] = region[b]}

\* The other batch of the region waiting for its double.
Doubles(b) ==
    {o \in BatchIds \ {b} : region[o] = region[b] /\ status[o] = "completed"}

SetBoth(b, o, s) == [p \in BatchIds |-> IF p \in {b, o} THEN s ELSE status[p]]

\* The closing transaction.  The UPDATE flushed before the double is looked up
\* takes SQLite's write lock, so submissions run it one after the other.
FinishSubmit(b) ==
    /\ verdict[b] # "none"
    /\ verdict' = [verdict EXCEPT ![b] = "none"]
    /\ \/ /\ verdict[b] = "invalid"
          /\ status' = [status EXCEPT ![b] = "hash_error"]
          /\ UNCHANGED retries
       \/ /\ verdict[b] = "valid"
          /\ ~Verification \/ Doubles(b) = {}
          /\ status' = [status EXCEPT ![b] = "completed"]
          /\ UNCHANGED retries
       \/ /\ verdict[b] = "valid"
          /\ Verification
          /\ \E o \in Doubles(b) :
                IF StoredAgrees(b)
                THEN /\ status' = SetBoth(b, o, "validated")
                     /\ UNCHANGED retries
                ELSE /\ status' = SetBoth(b, o, "hash_error")
                     /\ retries' = [p \in BatchIds |->
                            IF p \in {b, o} THEN retries[p] + 1 ELSE retries[p]]
    /\ UNCHANGED <<issued, region, owner, assignee, files, declared, seen, picked, sweep>>

\* The closing transaction fails: nothing of it stays.
FailSubmit(b) ==
    /\ verdict[b] # "none"
    /\ verdict' = [verdict EXCEPT ![b] = "none"]
    /\ UNCHANGED <<batchRow, status, files, declared, seen, picked, sweep>>

-----------------------------------------------------------------------------
(* _sweep_dead_clients *)

Stuck_AssignedOnly(c) == {b \in BatchIds : owner[b] = c /\ status[b] = "assigned"}

Stuck(c) == {b \in BatchIds : owner[b] = c /\ status[b] \in InProgress}

\* Read the clients whose last heartbeat is too old; a NULL last_seen is not.
SweepScan ==
    /\ sweep = SweepIdle
    /\ \E c \in Clients : seen[c] = "stale"
    /\ sweep' = [sweep EXCEPT !.dead = {c \in Clients : seen[c] = "stale"}]
    /\ UNCHANGED <<batchRow, status, files, submits, seen, picked>>

\* Read one dead client's batches; no lock is held until something is written.
SweepRead(c) ==
    /\ c \in sweep.dead
    /\ sweep.stuck = {}
    /\ sweep' = [dead |-> sweep.dead \ {c}, stuck |-> Stuck(c)]
    /\ UNCHANGED <<batchRow, status, files, submits, seen, picked>>

Unassigned_Zero == 0

\* assigned_to of a batch taken back.
Unassigned == NoClient

\* The batches read before are written blindly; the remaining clients are read
\* and written under the lock the first write took.
SweepCommit ==
    /\ sweep.stuck # {}
    /\ LET taken == sweep.stuck \cup UNION {Stuck(c) : c \in sweep.dead}
       IN  /\ status' = [b \in BatchIds |-> IF b \in taken THEN "pending" ELSE status[b]]
           /\ owner' = [b \in BatchIds |-> IF b \in taken THEN Unassigned ELSE owner[b]]
    /\ sweep' = SweepIdle
    /\ UNCHANGED <<issued, region, retries, assignee, files, submits, seen, picked>>

-----------------------------------------------------------------------------
\* The server process dies and is started again: requests and the sweep in
\* progress are lost, the database and the region files stay.
Restart ==
    /\ picked' = [c \in Clients |-> NoRegion]
    /\ writing' = {}
    /\ verdict' = [b \in BatchIds |-> "none"]
    /\ sweep' = SweepIdle
    /\ UNCHANGED <<batchRow, status, rows, uploads, stored, declared, seen>>

Next ==
    \/ \E c \in Clients :
        \/ Login(c) \/ Heartbeat(c) \/ Expire(c)
        \/ SelectTask(c) \/ InsertBatch(c) \/ AbortAssignment(c)
        \/ \E b \in BatchIds, f \in Files, x \in Contents : ReceiveUpload(c, b, f, x)
        \/ \E b \in BatchIds : \E D \in Declarations(b) : CheckHashes(c, b, D)
        \/ SweepRead(c)
    \/ \E w \in writing : LookUpRow(w) \/ RecordUpload(w) \/ FailUpload(w)
    \/ \E b \in BatchIds : FinishSubmit(b) \/ FailSubmit(b)
    \/ SweepScan
    \/ SweepCommit
    \/ Restart

Spec == Init /\ [][Next]_vars

-----------------------------------------------------------------------------
(* Properties *)

UploadRequest == [client : Clients, batch : BatchIds, file : Files, content : Contents,
                  row : {"unread", "absent", "present"}]

\* Every column, file and request slot holds a value the code can put there
\* (the types of db.py and the locals of the handlers).
TypeOK ==
    /\ issued \in 0..MaxBatches
    /\ region \in [BatchIds -> Regions \cup {NoRegion}]
    /\ status \in [BatchIds -> Statuses]
    /\ owner \in [BatchIds -> Clients \cup {NoClient}]
    /\ retries \in [BatchIds -> Nat]
    /\ assignee \in [BatchIds -> Clients \cup {NoClient}]
    /\ rows \in [BatchIds -> SUBSET (Files \X Contents)]
    /\ uploads \in [BatchIds -> [Files -> {"no", "sent", "acked"}]]
    /\ declared \in [BatchIds -> SUBSET (Files \X Contents)]
    /\ verdict \in [BatchIds -> {"none", "valid", "invalid"}]
    /\ stored \in [Files -> Contents \cup {NoFile}]
    /\ seen \in [Clients -> {"absent", "never", "fresh", "stale"}]
    /\ picked \in [Clients -> Regions \cup {NoRegion}]
    /\ writing \subseteq UploadRequest
    /\ sweep \in [dead : SUBSET Clients, stuck : SUBSET BatchIds]

\* A declared hash is backed: an upload of that very content was recorded for
\* the batch, or the stored region file has it.
Backed(b) == \A d \in declared[b] : d \in rows[b] \/ stored[d[1]] = d[2]

\* A batch counted as done (completed or validated) was submitted with at least
\* one hash, and every hash it declared is still backed by what the server
\* keeps: no later upload, sweep, restart or other client's submission takes
\* the evidence away (submit_tasks, upload_chunks, write_mca).
DoneIsBacked ==
    \A b \in BatchIds : status[b] \in Passed => declared[b] # {} /\ Backed(b)

\* With verification on, two batches of one region never both wait as
\* "completed" for a double: whoever submits second is paired with the first
\* (the lookup and the two updates of submit_tasks are one transaction).
OneAwaitsDouble ==
    Verification =>
        \A b, o \in BatchIds :
            /\ status[b] = "completed" /\ status[o] = "completed"
            /\ region[b] = region[o]
            => b = o

\* Every file b declared is stored with the content it declared.
InStore(b) == \A d \in declared[b] : stored[d[1]] = d[2]

\* A validated batch has a double, another batch of the same region that was
\* submitted too, and what one of the two declared is what the server stores.
ValidatedHasDouble ==
    \A b \in BatchIds : status[b] = "validated" =>
        /\ Verification
        /\ \E o \in BatchIds \ {b} :
            /\ region[o] = region[b]
            /\ declared[o] # {}
            /\ InStore(b) \/ InStore(o)

\* A batch in progress is owned by the client that received it, so the sweeper
\* can still take it back; in particular a late upload never puts a batch the
\* sweeper already took back into progress again (upload_chunks' status test).
\* A batch that is up for reassignment is nobody's.
InProgressIsOwned ==
    \A b \in BatchIds :
        /\ status[b] \in InProgress => owner[b] = assignee[b] /\ owner[b] \in Clients
        /\ status[b] = "pending" => owner[b] = NoClient

\* retry_count never exceeds one, and a batch that was ever counted as retried
\* is never done: a mismatch closes the batch row for good.
RetriedIsClosed ==
    \A b \in BatchIds :
        /\ retries[b] <= 1
        /\ retries[b] = 1 => status[b] \in {"hash_error", "pending"}

Owned(r)   == {b \in Counted(r) : owner[b] # NoClient}
Picking(r) == {c \in Clients : picked[c] = r}

\* How far the assignments of one region can exceed their limit, the select and
\* the insert of get_batch being two sessions: by the requests that selected the
\* region while it had room, at most one of each client.  A batch the sweeper
\* took back and a late submission revived comes on top: it has no owner.
OverAssignmentBound ==
    \A r \in Regions :
        Cardinality(Owned(r)) + Cardinality(Picking(r))
            <= MaxAssign - 1 + Cardinality(Clients)

\* The bookkeeping the properties above rest on: ids are given out in order, a
\* row not given out is blank, a submission is under way only for a row that has
\* not been concluded, a concluded or retried row was submitted, and the sweeper
\* holds ids of real rows only.
Bookkeeping ==
    /\ \A b \in BatchIds :
        /\ status[b] = "none" <=> b > issued
        /\ b > issued => declared[b] = {} /\ verdict[b] = "none" /\ retries[b] = 0
        /\ verdict[b] # "none" =>
                /\ declared[b] # {}
                /\ retries[b] = 0
                /\ status[b] \in InProgress \cup {"pending"}
        /\ status[b] \in Passed \cup {"hash_error"} \/ retries[b] > 0 => declared[b] # {}
    /\ \A b \in sweep.stuck : b <= issued

\* Every move of the status column is one BatchLifecycle allows: concluded rows
\* are not concluded twice, a swept row never goes back into progress.
Lifecycle == INSTANCE BatchLifecycle WITH Batches <- BatchIds
StatusFollowsLifecycle == Lifecycle!Spec

\* Region files behave as write-once registers for the handlers that read them
\* (get_mca_hash, read_mca) between other clients' uploads.
Storage == INSTANCE RegionFiles
FilesAreWriteOnce == Storage!Spec

-----------------------------------------------------------------------------
(* What the repository's texts say and the code does not do *)

\* submit_tasks, "Validate submitted chunk hashes against stored data.": the
\* hashes of a completed batch are those of the stored files.
CompletedMatchesStored ==
    \A b \in BatchIds : status[b] = "completed" => InStore(b)

\* README, "double-generation integrity check": two batches of a region that
\* both passed verification declared the same content for the same file.
ValidatedPairAgrees ==
    \A b, o \in BatchIds :
        /\ status[b] = "validated" /\ status[o] = "validated"
        /\ region[b] = region[o]
        => \A d \in declared[b], e \in declared[o] : d[1] = e[1] => d[2] = e[2]

\* "detect and reassign batches from dead clients": what the sweeper takes back
\* is a batch still in progress, not one that was concluded meanwhile.
SweepTakesUnfinished ==
    [][\A b \in BatchIds : status[b] \in Passed => status'[b] # "pending"]_vars

=============================================================================
