# ChunkDMesh in TLA+

ChunkDMesh generates a Minecraft world on many machines. A server
(`server/`, FastAPI, SQLite through SQLAlchemy) cuts the world into regions of
32 x 32 chunks and hands them out; clients (`client/`) log in, run a headless
Minecraft server with the Chunky mod over RCON, and send the region files back
with their SHA-256 hashes. Optionally every region is generated twice by
different requests and the generations are compared.

This directory models the parts of the program that keep state: modules
(`*.tla`), TLC configurations (`*.cfg`), proofs (`*Proofs.tla`), and
`PROJECT.json`, which maps every definition to the lines it models, every
property to the hazards it is for, and every property to a plausible bug that
breaks it.

    tlc -workers 2 -config OrchVerify.cfg MCOrchestrator
    tlapm OrchestratorProofs.tla

## The system

| Component | State | Operations | What is hard | What makes it correct |
|---|---|---|---|---|
| Task orchestration `server/tasker.py`, `routes/tasks.py`, `api.py`, `db.py` | tables `tasks`, `batches`, `clients`, `validations` | `get_batch`, `upload_chunks`, `submit_tasks`, `_sweep_dead_clients` | each handler awaits the database several times, so handlers of all clients and the sweeper interleave; the server dies in between | a batch counted as done rests on evidence the server keeps; pairs are formed once; a batch in progress can always be taken back |
| Authentication, heartbeat `routes/auth.py`, `routes/client.py` | `clients.last_seen`, `key.pem` | `login`, `heartbeat`, `get_secret_key` | never-seen clients; a crash between creating and writing the key | a silent client is noticed; tokens outlive restarts |
| Client worker `client/work_loop.py`, `uploader.py`, `main.py` | locals of the loop, the world directory | fetch, generate, collect, hash, upload, submit; a heartbeat thread | a client gives up on a request that is still on its way or being handled; handlers fail; either process dies at any point | the client keeps to the order of requests the server relies on |
| Region file storage `server/storage_manager.py` | `data/regions/*.mca`, `.blobs/*` | `write_mca`, `read_mca`, `get_mca_hash`, `compact_blobs` | threads, crashes between file operations, a compaction without a lock | a complete region file never changes; no blob is ever partial |
| Tasks table `server/tasker.py`, `geometry.py`, `main.py` | table `tasks` | `fill_tasks_table` | several commits, crash in between, edited configuration | the rows are a prefix of one spiral; complete unless cut short |
| Map tile cache `map_generator/tile_cache.py` | PNG and JSON files, an LRU | uploads, `get_tile_png`, `get_hover_data` | uploads bypass the LRU | LRU order and bound |
| Map overview `routes/map.py`, `routes/tiles.py` | `_overview_cache`, `_overview.png`, `_overview_meta.txt` | upload, invalidate, load, build | two files that belong together, failures between them | the overview shows the current tiles, with its own bounds |
| RCON and Chunky control `client/rcon_client.py`, `chunky_parser.py`, `work_loop.py` | a TCP stream whose replies are not matched to commands | a script of commands per region, polling | late replies, a hanging or dying server, rounded percentages, tasks of another size than a region | a region is left for done only when it is |
| Minecraft process `mc_lifecycle.py`, `instance_runner.py` | a child process, its output thread, log threads, one event | start, wait, restart for RCON, stop, kill | readiness against exit, a process that survives kill, an event two threads share | readiness is of the process that runs; one server per world; start and threads end |
| Provisioning `provisioner.py`, `asset_manager.py`, `java_utils.py` | downloaded and generated files | download, verify, install | files cut short are taken for complete by the next start | what is repaired and what stays damaged is known exactly |
| Update `updater.py` | client directory, its copy, the archive | check, download, copy, unpack, roll back | a crash between any two files | one of directory and copy is a whole client |
| Configuration `config.py`, `main.py`, `routes/assets.py` | the file, a singleton, the seed of this start | load, first configuration, serve | a seed drawn at each load | clients generate regions of one world |
| Export `assembler.py`, `exporter.py`, `routes/admin.py` | exported world, archives | assemble, pack, delete | copies cut short, regions stored meanwhile | an archive lacks and spoils only what is explained |
| Cloud storage `s3_storage.py` | objects | upload after a completed batch | an upload that fails half-way | the next one makes up for it |
| Tiles `client/tiler.py`, `client/uploader.py`, `tiler/src/main.rs`, `routes/tiles.py`, `map_generator/rust_bridge.py` | output directories, a marker file, the map's tile files | render a region, collect, send in batches, store them; render on demand | runs that time out, writes that fail with exit code 0, batches stored in part or late | a torn picture on the map has a known cause |
| P2P, asset routes, loader look-up, hover service, region watcher, TUIs, packaging | - | - | - | not modelled, see the end |

Interactions. Clients call the server over HTTP only. The handlers share the
database (one SQLite file: one writer at a time), the region files, and the map
cache directory. The sweeper is a coroutine beside the handlers. Region file
writes are synchronous calls inside handlers; tests call `ChunkStorage` from
threads. The map reads what tile uploads write to disk. On a client the main
thread talks to Minecraft through a pipe (output), a socket (RCON) and the world
directory; an output thread, log threads and the heartbeat thread run beside it.

## Modules

| Module | What it is |
|---|---|
| `Orchestrator` | the server side of orchestration, one action per atomic piece of a handler |
| `BatchLifecycle` | abstract: which moves the status of a batch may make |
| `RegionFiles` | abstract: region files are write-once registers |
| `OrchestratorProofs` | theorems about `Orchestrator` |
| `Mesh` | client programs and heartbeats, composed with `Orchestrator` |
| `MeshProofs` | theorems about `Mesh`, and that it implements `Orchestrator` |
| `ChunkStorage` | `write_mca` on files, one action per file operation, and `compact_blobs` |
| `ChunkStorageProofs` | theorems about `ChunkStorage` |
| `TaskTable` | spiral order, shape filter, filling in parts |
| `TileCache` | the LRU before the tile and hover files |
| `Overview` | the map's overview |
| `Continuity` | configuration, seed, key file, tokens and worlds across restarts of the server |
| `Export` | assembly, archives, upload to cloud storage |
| `Rcon` | the work loop's commands, the RCON stream, Chunky and Minecraft |
| `ChunkyParser` | what the parser makes of Chunky's texts, against the size of the task and the chunks generated |
| `ServerProcess` | the Minecraft process, the main thread and the threads beside it |
| `Provisioning` | the files of a client's start, each of which may be cut short |
| `Updater` | self-update and rollback |
| `Tiles` | rendering of map tiles on the client and on the server, sending and storing them in batches |
| `TaskTableProofs` | theorems about `TaskTable` |
| `MapProofs` | theorems about `TileCache` and `Overview` |
| `WorldProofs` | theorems about `Continuity` and `Export`, and that the server's parts together follow their specifications |
| `RconProofs` | theorems about `Rcon` |
| `ClientPartsProofs` | theorems about `ServerProcess`, `Provisioning`, `Updater`, `Tiles` and `ChunkyParser`, and that the client's parts together take only their own steps |
| `MCOrchestrator`, `MCMesh`, `MCTaskTable`, `MCServerParts`, `MCClientParts` | instances for TLC |

How they fit: `Orchestrator` uses `write_mca` as the operator `WriteMca` (the
first content under a name stays). `ChunkStorage` refines that: both refine
`RegionFiles`. `Export` takes its region files as `ChunkStorage` leaves them,
with the partial copy its header tells of. `Mesh` EXTENDS `Orchestrator`; each
of its server steps is an action of `Orchestrator` conjoined with what the
client, if it still waits, does with the reply; what it has as one step, "generate", is `Rcon`.
`MCServerParts` and `MCClientParts` explore the small components one at a time,
in one run each: they share no variable.

### Orchestrator and the code

* `SelectTask` / `InsertBatch` / `AbortAssignment`: `attribute_tasks_to_client`
  opens two sessions; other handlers run between them. The World row it finds or
  creates is a foreign key nobody reads and is left out.
* `ReceiveUpload` / `LookUpRow` / `RecordUpload` / `FailUpload`: `upload_chunks`
  writes the file, then looks for a row with the same hash without a lock, then
  inserts or not and tests the status of the batch. Any number of uploads may be
  between these steps, also several of one client, and also after their batch was
  submitted, as a client does not wait for ever: two uploads of equal content can
  both find no row and both insert one, and a third then fails in
  `scalar_one_or_none`. Insert and status test are one action, as the INSERT takes
  SQLite's write lock before the batch row is read; without an insert, the batch
  is not `assigned` any more.
* `CheckHashes` / `FinishSubmit` / `FailSubmit`: `submit_tasks` compares hashes in sessions of
  their own and concludes in one transaction. The UPDATE of the batch is flushed
  before the double is looked up, so the transaction holds the write lock while
  it looks, and concurrent closings run one after the other. The upload to S3
  that follows is in `Export`.
* `SweepScan` / `SweepRead` / `SweepCommit`: the sweeper reads the dead clients,
  then the batches of each. Until the first batch is modified it holds no lock;
  what it read by then is written without another test.
* `Restart`: requests in flight and the sweep vanish; tables and files stay. Ends
  and starts of a process are no code of it: `PROJECT.json` lists them as external.
* `rows`, `uploads`, `declared`, `verdict`, `assignee`, `seen`: `validations`,
  history of requests per batch, the body of the submission, `all_valid`, the
  client a batch was returned to, and `last_seen` against 60 s.

Clients of `Orchestrator` are constrained only by what the client program does:
a batch's files are uploaded for the client it was given to, each at most once;
a client asks for one batch at a time; a batch is submitted at most once, and the
submission names files whose upload was recorded. Nothing is said of when these
requests are handled. `Mesh` has the program itself, and `ClientMeetsContract`
checks these assumptions of it. A client that is restarted logs in anew and is
another client.

### Mesh and the code

* A request is sent by a client's step (`Fetch`, `SendFile`, `Submit`), arrives in a
  step of its own (`FetchArrives`, `UploadArrives`, `SubmitArrives`) and is handled by
  the server's. `asked`, `onWay` and `posted` hold what was sent and has not arrived.
* `GivesUpUpload`, `GivesUpSubmit`: httpx waits 120 s for an upload and 30 s for a
  submission; then, or when the connection breaks, the client logs it and goes on
  to the next file, the submission or the next batch. The request stays where it
  is: it arrives later or never (`UploadLost`, `SubmitLost`), or its handler is
  already at work and ends in its own time. `Awaits` says whether a handler that
  ends still has somebody to answer to. Waiting for a batch, an exception leaves
  the work loop: that is a `Crash`, whose request may likewise still arrive.
* `Forget`: an upload that raised leaves no hash, so the submission does not name
  its file, although the server may have it and may yet record it.
* `ServerRestart` is a `Restart` of the server as the clients see it: connections
  break, and with them what was under way.

### The other modules and the code

* `Continuity`. `StartServer`, `EnsureConfig`, `Edited`: `Config._load`,
  `ensure_config` and its three attempts with the editor. `LoadKey` / `WriteKey`:
  `get_secret_key` creates `key.pem` and then writes it. An empty file is a key
  for it (`0`). Clients log in, fetch the configuration and let Minecraft create
  the world from it once. A configuration that came up once is assumed not to be
  edited afterwards.
* `Export`. Assembly, packing and upload run on the event loop without an await,
  so only a crash or an exception (`CutOff`, `CopyCut`) comes in between. Archives
  are named after the second they were begun in; the clock is assumed not to run
  backwards. `due` remembers what was stored when an upload last ended well, as a
  failed one only leaves a line in the log. Objects are regarded as a set of
  files, whichever batch's key they are under.
* `Rcon`. `todo` is what is left of the script of commands for a region; `Read`
  takes the next packet whatever it answers, as `_recv` does. Chunky answers in
  order, as slowly as it likes, may say "not running" between two ticks of a task
  (`paused`), and may die. Time is four stages the code distinguishes (3 s, 30 s,
  30 min). A timeout in the middle of a packet is not modelled.
* `ServerProcess`. `main` and `stopAt` are program counters of `main.py` with
  `MCLifecycle` and of `MCServer.stop`. A stop tests, writes "stop", waits and kills
  in separate steps, and the process may end between any two.
* `Provisioning`. `Steps` is the order of `main.py`; a file is opened (`Open`),
  written (`Close`), or cut short (`CutShort`), and each `...Kept` is the test by
  which a later start skips it.
* `Updater`. Directories are removed, copied and unpacked file by file: what they
  hold is a version, files of two, part of one, or nothing.
* `ChunkyParser`. `size` is what Chunky made the task of; it is 1024 for a square on
  a region's corners and another number for the other shapes the server may ask
  for. `Cap` is the literal 1024 of the code, which is the total where the text
  gives none, and what every total is cut to. `Totals` is the total the parser
  returns: that of the text, the quotient of count and percentage, or 1024.
* `Tiles`. `place` says who renders. A tile is created or emptied and then
  written, either may fail, and mcmap still exits with 0. `SendBatch` reads the
  files and sends a batch, and the client goes on, with an answer or after it gave
  up; the batch is in `arriving`, or lost. `StoreBatch` and `StoreBreaksOff` are
  `upload_tiles_batch`: it writes the tiles one after the other, without an await in
  between, and may raise, break off or die on the way, which leaves some, one of
  them torn, and the others not there.
* `Overview`. `TearTile` is the same failure as the overview sees it, `Tear` that of
  a write of the image or its bounds.

## Runs

| Run | Instance | Shows |
|---|---|---|
| `OrchVerify` | 2 clients, 1 region, 2 contents, 2 batches, double generation | type invariant, four safety invariants, refinement of `BatchLifecycle` and `RegionFiles` |
| `OrchFiles` | 2 clients, 2 regions, 2 contents, 1 batch | `DoneIsBacked` for submissions of several files |
| `MeshFaults` | 2 clients, 1 region, a complete and an incomplete content, 3 batches, any 2 faults | every request that may still arrive keeps to the contract; over-assignment is bounded |
| `MeshDone` | 2 clients, 2 regions, 6 batches, double generation, no fault | everything gets generated, verified and stored, the loops end |
| `MeshRelease` | 2 clients, 1 region, 1 batch, any 3 faults | batches of dead clients are released |
| `ServerParts` | storage: 2 threads, 2 names, 2 contents; table: radii 1, 32, 33, 65; cache: 3 keys, LRU of 2; overview: 2 tiles, 2 contents, 2 failures; continuity: 2 clients, 3 starts; export: 2 regions, 2 seconds | the invariants of `ChunkStorage`, `TaskTable`, `TileCache`, `Overview`, `Continuity`, `Export` |
| `ClientParts` | rcon: 2 regions of 2 chunks, 1 late poll and one more per region; parser: tasks of 1, 2, 3, 40, 804, 1000, 1023, 1024, 1025 and 1089 chunks; process: 2 attempts to connect; provisioning: 2 cuts; update: 2 releases; tiles: 2 chunks, 2 per upload, one upload under way | the invariants of `Rcon`, `ChunkyParser`, `ServerProcess`, `Provisioning`, `Updater`, `Tiles`, and that polling, start and log threads end |

Bounds. Two clients and two batches are what a pair needs; a third client or
batch can only join as a third generation, which `MeshFaults` and the proofs
cover. Two contents are the least that can differ. `MaxBatches` bounds rows ever
inserted; where a run is about progress (`MeshDone`) it is above what the
behaviours use. `MaxFaults` bounds what goes wrong in a behaviour; a client that
gives up is a fault, what becomes of its request is none. Two faults are what it
takes for an upload that was given up to meet a crash, a restart or another one.
`MeshRelease` is about one batch, so it has one, and three faults: the crash
that makes it a dead client's, a restart of the server, and one thing more (a
failed handler, an upload or a submission given up, another restart). In
`ServerParts`, the radii are the boundary cases of the division by 32, a part
has 8 rows where the code has 1000, so that fills take up to seven commits, two
failures are one more than `OverviewHasItsBounds` tolerates, three starts are
one more than two clients need to get different seeds, and two seconds allow an
archive to be overwritten and to be followed by another. In `ClientParts`,
`Before`, `Between` and `After` are 0, so that `Gap` is 4 instead of the 12 of
the code: the commands left out change nothing polls depend on, and with fewer
of them late replies reach the next region sooner; two regions are one that is
left too early and the one that suffers. Two cuts of provisioning are one and
another in the run that should repair it; two releases an update over an update.
The parser has the real 1024 and, beside the size of a region, sizes on either
side of it, sizes whose last percentage is rounded down (1023), exact (1000) or
up (804: its last chunk is hidden), and the least. A tile upload takes two
tiles, so that the server can store one and not the other; in the run one upload
is under way at a time, and it may be as late as it likes, so that a later
rendering has replaced the files it was read from. `TornTilesAreAlwaysExplained`
has any number. Symmetry is used for safety runs of `Orchestrator` only.

Deadlock is checked except in `Mesh`, where clients finish and the bound on
faults is used up, and in `ClientParts`, where the client ends.

What the invariants say about things that do go wrong, they say exactly:
`LagIsExact` (a poll that timed out puts the client one reply behind for good),
`SavingFollowsWork` (a client whose poll timed out may upload while Minecraft
still writes), `DoneIsGenerated` (which combination of lateness and a region
left early makes it take a region for complete that is not), `DamageIsForEver`
(a file cut short stays so in all later starts, and only those do),
`VerdictIsExact` (a percentage that does not show the last chunk of a task
smaller than a region ends the wait one chunk early), `TornTilesAreExplained`,
`ArchivesAreExplained` and `OneSeedPerWorld` (a server restarted without a seed
in its configuration hands out a second world).

### What the texts say and the code does not do

| Run | Text | Counterexample |
|---|---|---|
| `OrchStoredDiffers` | "Validate submitted chunk hashes against stored data." `server/routes/tasks.py:75` | a batch completes on the hash recorded at its upload, while an earlier upload is what is stored |
| `OrchPairDisagrees` | "double-generation integrity check" `README.md:45` | the second generation equals the stored file, which is its own; the first differs; both are validated |
| `OrchSweptDone` | "detect and reassign batches from dead clients" `server/api.py:29` | the sweeper read a batch as working, it is completed, the sweeper writes pending |
| `MeshNeverSeen` | "dead clients auto-reassign their tasks" `README.md:156` | a client that dies before its first heartbeat has `last_seen` NULL and is never swept |
| `TableShape` | "Check if a chunk coordinate (cx, cz) is inside the given shape with radius." `server/geometry.py:35` | a str never equals a member of a plain Enum: every shape is the square |

Some more of the kind have no run of their own:

* `Config.is_unconfigured` says "until all four are provided"; the code is
  `not any(...)` (`server/config.py:107`), and `Continuity` has the code: a file in
  which one of the four is filled in counts as configured and the start fails.
* `S3Storage.upload_batch` says "all .mca files in a batch directory"
  (`server/s3_storage.py:70`), but is called with `data/regions`, which all batches
  share (`routes/tasks.py:174`). `Export` has the call; `CloudCatchesUp` holds because
  of it.
* "We must NOT break on "not running" or "no tasks" without first seeing actual
  progress", says `docs/CHUNKY_REFERENCE.md:198`; after 30 s `work_loop.py:264` does,
  "assuming done". `Rcon` has this as `Assumed`; `DoneIsGenerated` says nothing of
  such regions, only what they do to the next.
* `TileCache` and `work_loop` handle hover data; mcmap, called with `--all`,
  writes none.

## Fairness

`MeshDone`, `MeshRelease` (and `MeshNeverSeen`) use weak fairness: a running
client takes its next step (its waits are bounded: 30 min of polling, 60 tries
for the file, HTTP timeouts), a handler that was started is finished by the
event loop, the heartbeat thread fires every 15 s, the sweeper every 30 s, and
time passes for clients that are gone; a request that was sent arrives, unless it
is lost. Nothing that counts as a fault is fair; a crash or a client that gives up
may happen at any time or never.

In `ClientParts`, the client of `Rcon` keeps acting (weak: each command has a
timeout of 10 s) and time passes (strong: the loop sleeps on each turn, but in
between it waits for a reply, where `TimePasses` is not enabled). The main thread
of `ServerProcess` keeps acting (weak: each of its waits has a limit), and so
does a log thread (it looks at the event once a second). Minecraft and Chunky
owe nothing: `PollingEnds` and `StartAndLogsEnd` hold if they hang for ever.

## Proofs

For any finite set of clients, any regions, contents and number of batches
(`OrchestratorProofs`):

* `TypeCorrect`, `BookkeepingHolds` (with `InProgressIsOwned` and
  `RetriedIsClosed`), `DoneBatchesAreBacked`, `AtMostOneAwaitsDouble`,
  `ValidatedBatchHasDouble`, `OverAssignmentIsBounded`.
* `ImplementsLifecycle`, `ImplementsRegionFiles`: initial states and steps map to
  those of the abstract specifications.

The invariants of `Orchestrator` are not inductive one by one. `DoneIsBacked`
needs `Bookkeeping`: a submission that is being concluded has declared hashes, its
verdict was computed from rows and files that only grow, and only batches that
are still open are concluded. So the proof first establishes that a verdict
"valid" means the declared hashes are backed, using that `rows` only grows and
`stored` never changes once set, then that a step to `completed` or `validated`
starts from such a verdict. `OneAwaitsDouble` and `ValidatedHasDouble` rest on
the same bookkeeping. `OverAssignmentBound` is about cardinalities: a selection
in flight is counted before it becomes a row, so the sum only grows by a
selection, made while the region had room, by a client that had none in flight.

For any set of threads, names and contents (`ChunkStorageProofs`):

* `BlobsStayWhole`, `RegionFilesStayWhole`, `StorageImplementsRegionFiles`: the
  inductive invariant says which thread is in the locked section, that only the
  lock holder is past `Acquire`, and what it knows there: while it renames, its
  temporary file is either whole or unlinked.
* `StorageTypesHold`, from the same invariant.

For any finite set of clients, any regions, contents, batches and faults
(`MeshProofs`):

* `MeshImplementsOrchestrator`: the client programs, composed with the server,
  are clients the `Orchestrator` allows. Initial states and steps map one to one;
  what has to be shown is that an upload or a submission arrives only where
  `Orchestrator` takes one, however long ago its client gave up on it. What is
  proved of `Orchestrator` therefore holds of the composed system; `MeshIsBounded`
  and `MeshDoneIsBacked` are two instances.
* `ClientsMeetTheContract`: the inductive invariant (`MeshInv`) ties each client's
  locals, and each request under way, to the rows of the server. A busy client
  holds a batch that is its own, undeclared, and not posted; a file still to be
  sent was never sent for that batch, or is the one the client waits for; every
  hash the client keeps is of an upload that was recorded, or of the one it waits
  for; and a request on its way is the only one of its kind that ever was,
  whether or not its client still runs. That a client had only one request under
  way was never needed and is not assumed. The bookkeeping of `Orchestrator` is part
  of the invariant and is kept by the lemmas of `OrchestratorProofs`, as every step is
  one of its.
* `MeshTypeCorrect`.

For any clients, any number of starts, any regions and any last time
(`WorldProofs`):

* `TokensAlwaysValid`: the key file decides. Every token was signed with what it
  holds, the key in memory is what it holds, and while a drawn key is not yet
  written there are neither tokens nor a key in memory. (The empty key a crash
  leaves is kept by all later starts, so tokens signed with it stay valid, too.)
* `WorldsHaveOneSeed`: what a client fetched is recorded with the start it is of.
  Copies of the current start have this process's seed, copies of one start have
  one seed, with a seed in the file it is that of every copy, and once there is
  a copy the configuration is not edited any more.
* `CloudAlwaysCatchesUp`: during an upload, what is stored is in the cloud or
  left to do, since no region arrives meanwhile.
* `ArchivesAlwaysExplained`: the same for assembling (`covered` is assembled) and
  packing (`must` is packed or left), together with what spoils a file: an
  assembled file is torn exactly if it is in `spoilt` or stored in part, and
  neither is ever undone.
* `ContinuityTypesHold`: that a server which is up has a whole configuration and a
  seed needs where each phase comes from (`PhaseInv`), and the bound on the seeds
  drawn is a count over starts and edits (`CountInv`: a start draws once, and so
  does each of the at most three edits after it).
* `ExportTypesHold`: whatever is under way has only stored files left (`LeftInv`).
* `PartsFollowTheirSpecs`: a behaviour of `MCServerParts` is one of the
  specification of each part, since each step is one of the part explored and
  leaves the others alone; so what `ServerParts` checks of all parts in one run is
  what the theorems say of each, and `PartsTypesHold` puts their types together.

For any finite set of chunks, any tile contents, keys and cache size
(`MapProofs`):

* `OverviewIsAlwaysCurrent`: unless an upload was broken off, both the overview in
  memory and the image on disk are of the tiles as they are, at every step of a
  removal or a save, each of which may fail or be the last one; while files are
  removed nothing is in memory.
* `OverviewAlwaysHasItsBounds`: before the first failure there are both files or
  none; before the second, an image that is there together with bounds is
  whole and has these bounds, the bounds are removed only after the image, and
  saved only after the image they belong to.
* `OverviewTypesHold` needs that the bounds are chunks, so that a finite set of
  integers has a least and a greatest element, which is proved by well-founded
  induction on strict subsets.
* `MemIsAlwaysMostRecent`: the list in memory is, position by position, the end of
  the list of all keys ever served in order of last use. A hit moves one element
  to the end of both; a miss appends to one what it moves to the end of the
  other, and drops the first when the cache is full.
* `CacheTypesHold`.

For any radii and any number of rows per commit (`TaskTableProofs`):

* `TableIsAlwaysOnePrefix`, `TableIsAlwaysComplete`. The process part is an invariant
  (`FillInv`): what is committed and what a fill has still to add are, put
  together, the spiral of the configuration the fill read at its start; at any
  other time the table is a prefix of it, and the whole of it unless a fill was
  cut short. It holds because a fill starts only from an empty table, so that
  an edited radius matters only when there are no rows.
* The rest says what the spiral is, for every number of rings
  (`SpiralCoversSquare`): a sequence of all regions of the square, as long as there
  are regions, hence without a repetition. The sort key of a ring is a strict
  total order (`BeforeIsStrictOrder`: within a half plane the sign of the cross
  product is transitive, and two places in one direction at one distance are
  one), so the numbers of smaller elements are all different and the sort is a
  permutation (`SortedIsPermutation`); ring n is what square n has more than
  square n - 1 (`RingSurrounds`). The library's induction theorem and its theorem that
  recursive functions exist take operators, so both are proved here for what is
  needed: induction as a set of naturals without a least element outside it
  (`AllNaturals`), and the function put together from its beginnings
  (`RecursionExists`).
* `TableAssumption` says that shapes are `str` values, which is what `config.shape`
  holds; it is why no row is filtered out (the disagreement `TableHasShape`
  shows).
* `TableTypesHold`.

For any regions, chunks, late polls and number of commands (`RconProofs`):

* `LagStaysExact`: the stream is a sequence on both sides, and each action adds
  to both sides of the equation alike.
* `UploadsAreQuiet` (`QuietWhileUploading`, the half of `SavingFollowsWork` about the
  upload): with no poll timed out, what is in flight is the current command
  alone, by the lag; the script, however it is cut or prefixed, has save-on only
  after save-off; so when save-on is next, the reply to save-off has been read.
* `PollsAlwaysSeeOwnRegion`: no stream position is kept in the model, so the
  invariant counts. The script has its one poll at a fixed distance from its end
  (`ScriptInv`); and each poll in flight that is of another region is followed
  there by so many commands that, with those left of the script before the next
  poll is sent, they make a full round of `Gap` (`AgeInv`). By the lag, a client with
  fewer than `Gap` polls late reads a command that is younger. When Minecraft has
  died, what is left to read was answered before (`LastReplyInv`).
* `DoneIsAlwaysGenerated`, `SavingAlwaysFollowsWork`. Neither is inductive. The
  invariant (`GenInv`) says that commands in flight and still to be sent follow the
  order of the script, region by region (`OrderInv`), which makes what an earlier
  command has done known when a later one is handled: the corners are the
  region's when its start or its polls are (`CornersInv`), a task is that of the
  region started last (`TaskInv`), a region that was given up is cancelled before
  another start (`CancelInv`), and save-on is behind save-off (`SaveInv`). So a start
  is refused only because of a region left running, and "confirm" replaces the
  task unless the reply is read too late; then a region that is polled is being
  generated or is complete (`StartInv`), and replies say what was so (`ReplyInv`).
  With `PollsSeeOwnRegion` the client reads them for the region they are about.
  A start that finds a task of an earlier region that was "done" would contradict
  `DoneIsGenerated` itself, which is therefore part of the invariant.
* `RconTypesHold`: on top of that invariant (Chunky has no task of a region that
  is complete), what is in flight is of the script (`CommandsInv`), and a poll that
  times out is one of `MaxLate`, or the last of its region, or its timeout ends the
  work (`LateInv`), which is the bound on `late`.

For any number of attempts to connect, of releases, of downloads cut short, for
any finite set of chunks and any batch size (`ClientPartsProofs`):

* `ReadyIsAlwaysOfThisProcess`: the pipe and the flag are only ever set by a line
  of the current process.
* `NoServerIsLeftOver`: a stop is under way only in a restart and at the end;
  whoever returned from it, or failed in it, has no server, or one that survived
  kill; so a launch never leaves one behind.
* `LaunchAlwaysRepairs`: what the steps behind a run have left on the disk
  (`ReachedInv`), and that a file is open only during its own step (`OpenInv`); a
  directory left by an unpacking of Java that was cut short can be chosen for the
  JDK, but only by the start that unpacks a whole one, which the next start takes.
* `DamageLastsForEver`: a file outside those that are written anew is kept if it
  exists, so it is damaged exactly if it was once cut short.
* `ProvisioningTypesHold`.
* `UpdatesCanBeUndone`: the copy is made of a whole client, and from then on,
  until the update has ended, it is the whole one.
* `MainThreadCountsDown`, `MainThreadIsNeverStuck`: what can be proved of
  `StartAndLogsEnd` without fairness. `Rank` is what the main thread has still to do at
  most: a launch, a restart with a stop in it, `Tries` attempts, the work, a stop.
  Each of its steps lowers `Rank` and no step of Minecraft, the output thread or a
  log thread changes where it is, because a restart is entered from the first
  check only and a stop always returns. `HasAStep` says in terms of the variables
  that one of its actions is possible: a stop that was called is under way, and
  there is a place for each log thread (`StuckInv`). What is left to fairness is
  that a thread with a step to take takes it.
* `ProcessTypesHold`, `UpdaterTypesHold`, `TilesTypesHold`. The first needs which
  place of the main thread can have a process left over from the restart.
* `VerdictIsAlwaysExact`: for tasks of any sizes. With d of n chunks generated,
  Chunky shows p, the nearest hundredth of a percent, and the parser computes d / p
  and cuts it off and to 1024. For n up to 1024 and d below n - 1 that is above d,
  and so is it at n - 1 if p is below the true share; at d = n it is at most n. For
  larger n, d chunks below 1024 are a share whose quotient is above d, too. What is
  left is the case the property names (`LastHidden`), and `LastChunkIsHidden` says
  that it is real: where p is above the true share, every such text ends the wait
  with one chunk to go; where it is the true share, one may, as a quotient of
  floating point numbers may come out just below a whole number.
  `VerdictOfRegionIsExact`: for the 1024 chunks of a region it does not happen, as
  1023 are shown as 99.90%.
* `ClientPartsTakeTheirSteps`, `ClientPartsTypesHold`: as on the server; of `Rcon` and
  `ServerProcess` it is the steps without their fairness, which `ClientParts` states
  for the part that is explored.
* `TornTilesAreAlwaysExplained`: a file that is torn is open, could not be
  written, or was left by a run that was cut short, and a run makes good all it
  can read; so what is torn after a run that ended well is explained, it stays so
  in a batch that is under way while later runs go on, and on the map a tile is
  what a batch carried or what the server broke off in writing.

Assumptions are those named in the modules (`OrchestratorAssumption`,
`ClientsAreFinite`, `StorageAssumption`, `ContinuityAssumption`, ...): the markers
for "none" are no elements of the sets they are added to, bounds are natural
numbers, and the chunks the map shows are finitely many.

Every invariant a run checks is stated by a theorem. Model-checked only is
liveness (`AllRegionsDone`, `DeadOwnersReleased`, `PollingEnds`, `StartAndLogsEnd`),
which is out of the prover's reach.

## Not modelled, and why

`p2p.py`, `p2p_server.py` wrap libtorrent; what they add is a table of handles.
Asset and loader routes and the choice of versions are HTTP look-ups; installers
of loaders are external programs. Token expiry: a client without a valid token
does what `Mesh` lets one do that is cut off. The terminal interfaces, monitors
and logs show state and keep none that matters. The Rust tiler's parsing,
shading and water flow, and the palette script, are sequential computations on
pixels.

Code without a caller in the running program: `hover_service.py`,
`region_watcher.py`, `set_tile_png`, `set_hover_data`, `invalidate_tile`,
`get_latest_archive`, `save_config`, and the downloads and listings of
`s3_storage.py`. `compact_blobs`, `RustTiler`, `check_and_update` and
`delete_archive` have none either, but are modelled, as each is an operation on
state that others rely on.

Hazards without a property are listed with the reason in `PROJECT.json`: that a
tile uploaded again stays as it was in memory, and that tiles rendered before
the world is saved may lack chunks, are what the code does and nothing in it
promises otherwise.

## Plan

1. `Mesh`: the client's "generate" replaced by `Rcon`.
2. Algorithms of the tiler with a reference definition (bit unpacking, flow).
