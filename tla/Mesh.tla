-------------------------------- MODULE Mesh --------------------------------
(***************************************************************************)
(* Client programs (client/work_loop.py, client/uploader.py, the heartbeat *)
(* thread of client/main.py) composed with the Orchestrator.  A request is *)
(* sent by its client, arrives and is handled by the server, in steps of   *)
(* their own: a client whose patience ends goes on to the next file, the   *)
(* submission or the next batch (or, waiting for a batch, ends), while     *)
(* what it sent may still arrive or be handled.                            *)
(*                                                                         *)
(* Everything that goes wrong (a crash, a client that gives up waiting, a  *)
(* failed handler, an incomplete generation, a late heartbeat, a server    *)
(* restart) uses up one of MaxFaults.                                      *)
(***************************************************************************)
EXTENDS Orchestrator

CONSTANTS
    Full,       \* contents with all 1024 chunks
    MaxFaults   \* bound on the number of things that go wrong

ASSUME MeshAssumption ==
    /\ Full \subseteq Contents
    /\ MaxFaults \in Nat

VARIABLES
    pc,      \* pc[c]: where c's process is
    work,    \* work[c]: the batch it works on, 0 when none
    disk,    \* disk[c][f]: region file f in c's world directory
    found,   \* found[c]: files still to upload
    hashes,  \* hashes[c]: all_hashes and hex_hash, pairs <<file, hash>>
    asked,   \* clients whose get_batch was sent and has not arrived
    onWay,   \* uploads that were sent and have not arrived
    posted,  \* posted[b]: the hashes of b's submission, sent and not arrived
    faults   \* things that went wrong so far

program  == <<pc, work, disk, found, hashes>>
requests == <<asked, onWay, posted>>
meshVars == <<vars, program, requests, faults>>

Gone    == {"off", "finished", "crashed"}
Running == {"idle", "fetching", "generating", "saving", "uploading", "sending", "submitting"}

MeshInit ==
    /\ Init
    /\ pc = [c \in Clients |-> "off"]
    /\ work = [c \in Clients |-> 0]
    /\ disk = [c \in Clients |-> [f \in Files |-> NoFile]]
    /\ found = [c \in Clients |-> {}]
    /\ hashes = [c \in Clients |-> {}]
    /\ asked = {}
    /\ onWay = {}
    /\ posted = [b \in BatchIds |-> {}]
    /\ faults = 0

Goto(c, l) == pc' = [pc EXCEPT ![c] = l]

Fault   == faults < MaxFaults /\ faults' = faults + 1
NoFault == UNCHANGED faults

-----------------------------------------------------------------------------
(* Start and heartbeat *)

Launch(c) ==
    /\ pc[c] = "off"
    /\ Login(c)
    /\ Goto(c, "idle")
    /\ NoFault /\ UNCHANGED <<work, disk, found, hashes, requests>>

\* The heartbeat thread runs from before the work loop until its end.
Beat(c) ==
    /\ pc[c] \in Running
    /\ Heartbeat(c)
    /\ NoFault /\ UNCHANGED <<program, requests>>

\* A minute without a heartbeat: of a process that is gone, or (heartbeats
\* delayed or lost) of one that runs.
Silence(c) ==
    /\ Expire(c)
    /\ IF pc[c] \in Running THEN Fault ELSE NoFault
    /\ UNCHANGED <<program, requests>>

-----------------------------------------------------------------------------
(* run_work_loop: fetch a batch *)

Fetch(c) ==
    /\ pc[c] = "idle"
    /\ asked' = asked \cup {c}
    /\ Goto(c, "fetching")
    /\ NoFault /\ UNCHANGED <<vars, work, disk, found, hashes, onWay, posted>>

FetchArrives(c) ==
    /\ c \in asked /\ asked' = asked \ {c}
    /\ SelectTask(c)
    /\ NoFault /\ UNCHANGED <<program, onWay, posted>>

\* 404 ends the loop, then main stops the heartbeat.
NoMoreTasks(c) ==
    /\ c \in asked /\ asked' = asked \ {c}
    /\ Available = {}
    /\ IF pc[c] = "fetching" THEN Goto(c, "finished") ELSE UNCHANGED pc
    /\ NoFault /\ UNCHANGED <<vars, work, disk, found, hashes, onWay, posted>>

\* The client is gone, and so may be its request.
FetchLost(c) ==
    /\ c \in asked /\ pc[c] # "fetching"
    /\ asked' = asked \ {c}
    /\ NoFault /\ UNCHANGED <<vars, program, onWay, posted>>

\* The batch is inserted; the reply reaches the client, if it still waits.
Assigned(c) ==
    /\ InsertBatch(c)
    /\ IF pc[c] = "fetching"
       THEN /\ Goto(c, "generating")
            /\ work' = [work EXCEPT ![c] = issued + 1]
       ELSE UNCHANGED <<pc, work>>
    /\ NoFault /\ UNCHANGED <<disk, found, hashes, requests>>

\* A 500 reply: the client sleeps and asks again.
FetchRejected(c) ==
    /\ AbortAssignment(c)
    /\ IF pc[c] = "fetching" THEN Goto(c, "idle") ELSE UNCHANGED pc
    /\ Fault /\ UNCHANGED <<work, disk, found, hashes, requests>>

-----------------------------------------------------------------------------
(* _run_chunky and _upload_and_submit *)

\* Chunky is done, or believed to be: the region file is complete, or with a
\* fault (timeout, polling cut short) incomplete or missing.
Generate(c) ==
    /\ pc[c] = "generating"
    /\ LET f == region[work[c]]
       IN  \/ /\ \E x \in Full : disk' = [disk EXCEPT ![c][f] = x]
              /\ NoFault
           \/ /\ \E x \in Contents \ Full : disk' = [disk EXCEPT ![c][f] = x]
              /\ Fault
           \/ UNCHANGED disk /\ Fault
    /\ Goto(c, "saving")
    /\ UNCHANGED <<vars, work, found, hashes, requests>>

Present_All(c) == Files

Present(c) == {f \in Files : disk[c][f] # NoFile}

\* The expected file if it has all its chunks; otherwise, after 60 tries,
\* whatever files are there and stable.
Collect(c) ==
    /\ pc[c] = "saving"
    /\ LET f == region[work[c]]
       IN  \/ disk[c][f] \in Full /\ found' = [found EXCEPT ![c] = {f}]
           \/ /\ disk[c][f] \notin Full
              /\ \E S \in SUBSET Present(c) : found' = [found EXCEPT ![c] = S]
    /\ NoFault
    /\ hashes' = [hashes EXCEPT ![c] = {}]
    /\ Goto(c, "uploading")
    /\ UNCHANGED <<vars, work, disk, requests>>

\* The file is hashed, then read again and sent; a region file that Minecraft
\* still completes in between is sent with another content than was hashed.
SendFile(c, f, x) ==
    /\ pc[c] = "uploading"
    /\ f \in found[c]
    /\ \/ x = disk[c][f] /\ NoFault /\ UNCHANGED disk
       \/ /\ x # disk[c][f] /\ disk[c][f] \notin Full
          /\ Fault
          /\ disk' = [disk EXCEPT ![c][f] = x]
    /\ hashes' = [hashes EXCEPT ![c] = @ \cup {<<f, disk[c][f]>>}]
    /\ onWay' = onWay \cup {[client |-> c, batch |-> work[c], file |-> f, content |-> x]}
    /\ Goto(c, "sending")
    /\ UNCHANGED <<vars, work, found, asked, posted>>

\* The reply to u is what its client waits for.
Awaits(u) ==
    pc[u.client] = "sending" /\ work[u.client] = u.batch /\ u.file \in found[u.client]

UploadArrives(u) ==
    /\ u \in onWay
    /\ ReceiveUpload(u.client, u.batch, u.file, u.content)
    /\ onWay' = onWay \ {u}
    /\ NoFault /\ UNCHANGED <<program, asked, posted>>

LooksUp(w) ==
    /\ LookUpRow(w)
    /\ NoFault /\ UNCHANGED <<program, requests>>

\* The upload of w is done; if it is still waited for, its hash will be submitted.
SentOk(w) ==
    /\ RecordUpload(w)
    /\ IF Awaits(w)
       THEN /\ Goto(w.client, "uploading")
            /\ found' = [found EXCEPT ![w.client] = @ \ {w.file}]
       ELSE UNCHANGED <<pc, found>>
    /\ NoFault /\ UNCHANGED <<work, disk, hashes, requests>>

Forget_KeepsHash(c) ==
    /\ Goto(c, "uploading")
    /\ found' = [found EXCEPT ![c] = {f \in @ : ~\E d \in hashes[c] : d[1] = f}]
    /\ UNCHANGED hashes

\* What the client keeps of an upload that raised: nothing.  (The file it is about
\* is the one that is both still to upload and hashed.)
Forget(c) ==
    /\ Goto(c, "uploading")
    /\ found' = [found EXCEPT ![c] = {f \in @ : ~\E d \in hashes[c] : d[1] = f}]
    /\ hashes' = [hashes EXCEPT ![c] = {d \in @ : d[1] \notin found[c]}]

\* The handler fails: the client, if it still waits, logs it and goes on.
SentFailed(w) ==
    /\ FailUpload(w)
    /\ IF Awaits(w) THEN Forget(w.client) ELSE UNCHANGED <<pc, found, hashes>>
    /\ Fault /\ UNCHANGED <<work, disk, requests>>

\* 120 s pass, or the connection is lost: the client goes on all the same, and the
\* request stays where it is.
GivesUpUpload(c) ==
    /\ pc[c] = "sending"
    /\ Forget(c)
    /\ Fault /\ UNCHANGED <<vars, work, disk, requests>>

\* A request that nobody waits for any more may be lost.
UploadLost(u) ==
    /\ u \in onWay /\ ~Awaits(u)
    /\ onWay' = onWay \ {u}
    /\ NoFault /\ UNCHANGED <<vars, program, asked, posted>>

Submit(c) ==
    /\ pc[c] = "uploading"
    /\ found[c] = {} /\ hashes[c] # {}
    /\ posted' = [posted EXCEPT ![work[c]] = hashes[c]]
    /\ Goto(c, "submitting")
    /\ NoFault /\ UNCHANGED <<vars, work, disk, found, hashes, asked, onWay>>

\* Nothing was uploaded: the submission is skipped.
SkipSubmit(c) ==
    /\ pc[c] = "uploading"
    /\ found[c] = {} /\ hashes[c] = {}
    /\ Goto(c, "idle")
    /\ NoFault /\ UNCHANGED <<vars, work, disk, found, hashes, requests>>

AwaitsSubmit(b) == pc[assignee[b]] = "submitting" /\ work[assignee[b]] = b

SubmitArrives(b) ==
    /\ posted[b] # {}
    /\ CheckHashes(assignee[b], b, posted[b])
    /\ posted' = [posted EXCEPT ![b] = {}]
    /\ NoFault /\ UNCHANGED <<program, asked, onWay>>

\* Whatever the answer is, the client logs it and asks for the next batch.
Submitted(b) ==
    /\ FinishSubmit(b)
    /\ IF AwaitsSubmit(b) THEN Goto(assignee[b], "idle") ELSE UNCHANGED pc
    /\ NoFault /\ UNCHANGED <<work, disk, found, hashes, requests>>

SubmitFailed(b) ==
    /\ FailSubmit(b)
    /\ IF AwaitsSubmit(b) THEN Goto(assignee[b], "idle") ELSE UNCHANGED pc
    /\ Fault /\ UNCHANGED <<work, disk, found, hashes, requests>>

\* 30 s pass, or the connection is lost: it is only logged.
GivesUpSubmit(c) ==
    /\ pc[c] = "submitting"
    /\ Goto(c, "idle")
    /\ Fault /\ UNCHANGED <<vars, work, disk, found, hashes, requests>>

SubmitLost(b) ==
    /\ posted[b] # {} /\ ~AwaitsSubmit(b)
    /\ posted' = [posted EXCEPT ![b] = {}]
    /\ NoFault /\ UNCHANGED <<vars, program, asked, onWay>>

-----------------------------------------------------------------------------
(* Crashes and the sweeper *)

\* The client process ends: killed, or an exception leaves run_work_loop.
Crash(c) ==
    /\ pc[c] \in Running
    /\ Goto(c, "crashed")
    /\ Fault /\ UNCHANGED <<vars, work, disk, found, hashes, requests>>

\* The server restarts, and connections are lost.  A get_batch under way raises in
\* the client; an upload or a submission under way is logged there.
ServerRestart ==
    /\ Restart
    /\ pc' = [c \in Clients |->
                CASE pc[c] = "fetching" -> "crashed"
                  [] pc[c] = "sending" -> "uploading"
                  [] pc[c] = "submitting" -> "idle"
                  [] OTHER -> pc[c]]
    /\ found' = [c \in Clients |-> {f \in found[c] : ~\E d \in hashes[c] : d[1] = f}]
    /\ hashes' = [c \in Clients |-> {d \in hashes[c] : d[1] \notin found[c]}]
    /\ asked' = {} /\ onWay' = {} /\ posted' = [b \in BatchIds |-> {}]
    /\ Fault /\ UNCHANGED <<work, disk>>

Sweep ==
    /\ SweepScan \/ SweepCommit \/ \E c \in Clients : SweepRead(c)
    /\ NoFault /\ UNCHANGED <<program, requests>>

ClientStep(c) ==
    \/ Launch(c) \/ Fetch(c)
    \/ Generate(c) \/ Collect(c)
    \/ \E f \in Files, x \in Contents : SendFile(c, f, x)
    \/ Submit(c) \/ SkipSubmit(c)

MeshNext ==
    \/ \E c \in Clients :
        \/ ClientStep(c)
        \/ Beat(c) \/ Silence(c)
        \/ FetchArrives(c) \/ NoMoreTasks(c) \/ FetchLost(c)
        \/ Assigned(c) \/ FetchRejected(c)
        \/ GivesUpUpload(c) \/ GivesUpSubmit(c) \/ Crash(c)
    \/ \E u \in onWay : UploadArrives(u) \/ UploadLost(u)
    \/ \E w \in writing : LooksUp(w) \/ SentOk(w) \/ SentFailed(w)
    \/ \E b \in BatchIds :
        SubmitArrives(b) \/ SubmitLost(b) \/ Submitted(b) \/ SubmitFailed(b)
    \/ ServerRestart
    \/ Sweep

MeshSpec == MeshInit /\ [][MeshNext]_meshVars

(***************************************************************************)
(* Fairness.  A running process keeps taking its steps (its loops have     *)
(* bounded waits: 30 min of polling, 60 tries for the file, HTTP           *)
(* timeouts), requests arrive and the event loop completes every handler,  *)
(* the heartbeat thread fires every 15 s, the sweeper every 30 s, and time *)
(* passes for clients that are gone.  Nothing that is a fault is fair.     *)
(***************************************************************************)
Fairness ==
    /\ \A c \in Clients :
        /\ WF_meshVars(ClientStep(c))
        /\ WF_meshVars(FetchArrives(c) \/ NoMoreTasks(c))
        /\ WF_meshVars(Assigned(c))
        /\ WF_meshVars(Beat(c))
        /\ WF_meshVars(pc[c] \in Gone /\ Silence(c))
    /\ WF_meshVars(\E u \in onWay : UploadArrives(u))
    /\ WF_meshVars(\E w \in writing : LooksUp(w) \/ SentOk(w))
    /\ \A b \in BatchIds : WF_meshVars(SubmitArrives(b) \/ Submitted(b))
    /\ WF_meshVars(Sweep)

FairMesh == MeshSpec /\ Fairness

-----------------------------------------------------------------------------
(* Properties *)

Sending == [client : Clients, batch : BatchIds, file : Files, content : Contents]

\* The programs' variables hold values they can have (locals of run_work_loop
\* and _upload_and_submit).
MeshTypeOK ==
    /\ pc \in [Clients -> Gone \cup Running]
    /\ work \in [Clients -> 0..MaxBatches]
    /\ disk \in [Clients -> [Files -> Contents \cup {NoFile}]]
    /\ found \in [Clients -> SUBSET Files]
    /\ hashes \in [Clients -> SUBSET (Files \X Contents)]
    /\ asked \subseteq Clients
    /\ onWay \subseteq Sending
    /\ posted \in [BatchIds -> SUBSET (Files \X Contents)]
    /\ faults \in 0..MaxFaults

\* What the Orchestrator relies on its clients for, of every request that may still
\* arrive, whatever its client does by then: an upload is for a batch of its client
\* and the only one ever of that file for it; a client asks for one batch at a time;
\* a submission is the first of its batch, and names files whose upload was recorded,
\* with one hash each - in spite of uploads that were given up and are still on their
\* way or being handled (_upload_and_submit in client/work_loop.py, upload_file in
\* client/uploader.py).
ClientMeetsContract ==
    /\ \A u \in onWay :
        /\ Issued(u.batch) /\ assignee[u.batch] = u.client
        /\ uploads[u.batch][u.file] = "no"
        /\ \A v \in onWay : v.batch = u.batch /\ v.file = u.file => v = u
    /\ \A c \in asked : picked[c] = NoRegion
    /\ \A b \in BatchIds : posted[b] # {} =>
        /\ Issued(b) /\ assignee[b] \in Clients
        /\ declared[b] = {}
        /\ posted[b] \in Declarations(b)

Dead(c) == pc[c] \in {"finished", "crashed"}

\* A batch in progress whose client is gone, and had sent a heartbeat, is taken
\* back or concluded (_sweep_dead_clients).
DeadOwnersReleased ==
    \A b \in BatchIds : \A c \in Clients :
        (status[b] \in InProgress /\ owner[b] = c /\ Dead(c) /\ seen[c] # "never")
            ~> (status[b] \notin InProgress)

Target == IF Verification THEN "validated" ELSE "completed"

\* When nothing goes wrong every region ends up generated (verified, with
\* verification on) with a complete file stored, and every client's loop ends.
AllRegionsDone ==
    [](faults = 0) =>
        <>[](/\ \A r \in Regions :
                    /\ \E b \in BatchIds : region[b] = r /\ status[b] = Target
                    /\ stored[r] \in Full
             /\ \A c \in Clients : pc[c] = "finished")

-----------------------------------------------------------------------------
(* What the repository's texts say and the code does not do *)

\* README, "dead clients auto-reassign their tasks": a dead client's batch does
\* not stay in progress, whether or not the client ever sent a heartbeat.
DeadClientsReleased ==
    \A b \in BatchIds : \A c \in Clients :
        (status[b] \in InProgress /\ owner[b] = c /\ Dead(c)) ~> (status[b] \notin InProgress)

=============================================================================
