----------------------------- MODULE MeshProofs -----------------------------
(***************************************************************************)
(* Proofs about Mesh, for every set of clients, regions and contents and   *)
(* every number of faults: the requests of the client programs are those   *)
(* the Orchestrator was specified for, even of a client that gave up on    *)
(* one and went on while it is still under way, so that the composition is *)
(* an Orchestrator and has all it was proved to have.                      *)
(***************************************************************************)
EXTENDS Mesh, OrchestratorProofs

USE MeshAssumption

(***************************************************************************)
(* The invariant.  Beside types it says what requests may be under way,    *)
(* and ties a client's locals to the rows and requests of its batch; the   *)
(* steps of the others leave what it says of one client alone.             *)
(***************************************************************************)

\* Where a client has a batch that it has not submitted.
Busy == {"generating", "saving", "uploading", "sending"}

\* A file was sent for a batch: it is on its way, or it arrived.
Sent(b, f) == uploads[b][f] # "no" \/ \E u \in onWay : u.batch = b /\ u.file = f

Hashed(c) == {d[1] : d \in hashes[c]}

\* A row given out has a region; a row not given out was not uploaded to.
RowsFilled ==
    \A b \in BatchIds :
        /\ b <= issued => region[b] \in Regions
        /\ b > issued => \A f \in Files : uploads[b][f] = "no"

\* Uploads are for batches of their clients, and no file is sent twice for a batch.
UploadsInv ==
    /\ \A u \in onWay :
        /\ u.batch <= issued /\ assignee[u.batch] = u.client
        /\ uploads[u.batch][u.file] = "no"
        /\ \A v \in onWay : v.batch = u.batch /\ v.file = u.file => v = u
    /\ \A w \in writing :
        /\ w.batch <= issued /\ assignee[w.batch] = w.client
        /\ uploads[w.batch][w.file] # "no"

\* A client waits for its get_batch, or was gone before it was answered.
AskedInv ==
    \A c \in Clients :
        /\ c \in asked => picked[c] = NoRegion /\ pc[c] \in {"fetching", "crashed"}
        /\ picked[c] # NoRegion => pc[c] \in {"fetching", "crashed"}

\* A submission is the first of its batch, and right when it was sent.
PostedInv ==
    \A b \in BatchIds : posted[b] # {} =>
        /\ b <= issued /\ assignee[b] \in Clients
        /\ declared[b] = {}
        /\ posted[b] \in Declarations(b)

\* The batch a client works on is its own, and not submitted yet.
HoldsBatch(c) ==
    pc[c] \in Busy =>
        /\ work[c] \in BatchIds /\ work[c] <= issued
        /\ assignee[work[c]] = c
        /\ declared[work[c]] = {} /\ posted[work[c]] = {}

NothingSentYet(c) ==
    pc[c] \in {"generating", "saving"} => \A f \in Files : ~Sent(work[c], f)

\* Files still to upload are there and were not sent, but for the one that is waited
\* for; every other hash is the only one of its file, whose upload was acknowledged.
SentInOrder(c) ==
    pc[c] \in {"uploading", "sending"} =>
        /\ \A f \in found[c] : disk[c][f] # NoFile /\ (f \in Hashed(c) \/ ~Sent(work[c], f))
        /\ \A d \in hashes[c] : d[1] \in found[c] \/ uploads[work[c]][d[1]] = "acked"
        /\ \A d, e \in hashes[c] : d[1] = e[1] => d = e
        /\ pc[c] = "uploading" => Hashed(c) \cap found[c] = {}
        /\ \A f, g \in Hashed(c) \cap found[c] : f = g

ClientInv(c) == HoldsBatch(c) /\ NothingSentYet(c) /\ SentInOrder(c)

MeshInv ==
    /\ TypeOK /\ BookInv
    /\ MeshTypeOK
    /\ RowsFilled /\ UploadsInv /\ AskedInv /\ PostedInv
    /\ \A c \in Clients : ClientInv(c)

-----------------------------------------------------------------------------
(* What the invariant gives: the contract, and steps of the Orchestrator *)

\* Rows given out are those that are issued.
LEMMA GivenOut ==
  ASSUME TypeOK, BookInv, NEW b \in BatchIds
  PROVE  /\ Issued(b) <=> b <= issued
         /\ b \in Int /\ issued \in Int /\ b >= 1
         /\ b > issued => declared[b] = {}
  BY DEF BookInv, Bookkeeping, Issued, BatchIds, TypeOK

LEMMA ContractFromInv == MeshInv => ClientMeetsContract
<1> SUFFICES ASSUME MeshInv PROVE ClientMeetsContract
  OBVIOUS
<1>1. ASSUME NEW u \in onWay
      PROVE  /\ Issued(u.batch) /\ assignee[u.batch] = u.client
             /\ uploads[u.batch][u.file] = "no"
             /\ \A v \in onWay : v.batch = u.batch /\ v.file = u.file => v = u
  <2>1. u.batch \in BatchIds
    BY DEF MeshInv, MeshTypeOK, Sending
  <2> QED BY <2>1, GivenOut DEF MeshInv, UploadsInv
<1>2. \A c \in asked : picked[c] = NoRegion
  BY DEF MeshInv, MeshTypeOK, AskedInv
<1>3. \A b \in BatchIds : posted[b] # {} =>
        /\ Issued(b) /\ assignee[b] \in Clients
        /\ declared[b] = {}
        /\ posted[b] \in Declarations(b)
  BY GivenOut DEF MeshInv, PostedInv
<1> QED
  BY <1>1, <1>2, <1>3 DEF ClientMeetsContract

\* Every step of the composition is a step of the Orchestrator or leaves its
\* variables alone.
LEMMA MeshStepsAreServerSteps == MeshInv /\ [MeshNext]_meshVars => [Next]_vars
<1> SUFFICES ASSUME MeshInv, [MeshNext]_meshVars
             PROVE  [Next]_vars
  OBVIOUS
<1>1. ASSUME NEW c \in Clients, ClientStep(c) PROVE [Next]_vars
  BY <1>1 DEF ClientStep, Launch, Fetch, Generate, Collect, SendFile, Submit, SkipSubmit, Next
<1>2. ASSUME NEW c \in Clients,
             \/ Beat(c) \/ Silence(c) \/ FetchArrives(c) \/ NoMoreTasks(c) \/ FetchLost(c)
             \/ Assigned(c) \/ FetchRejected(c)
             \/ GivesUpUpload(c) \/ GivesUpSubmit(c) \/ Crash(c)
      PROVE  [Next]_vars
  BY <1>2 DEF Beat, Silence, FetchArrives, NoMoreTasks, FetchLost, Assigned, FetchRejected,
     GivesUpUpload, GivesUpSubmit, Crash, Next
<1>3. ASSUME NEW u \in onWay, UploadArrives(u) PROVE [Next]_vars
  <2>1. /\ u.client \in Clients /\ u.batch \in BatchIds
        /\ u.file \in Files /\ u.content \in Contents
    BY DEF MeshInv, MeshTypeOK, Sending
  <2> QED BY <1>3, <2>1 DEF UploadArrives, Next
<1>4. ASSUME NEW u \in onWay, UploadLost(u) PROVE [Next]_vars
  BY <1>4 DEF UploadLost
<1>5. ASSUME NEW w \in writing, LooksUp(w) \/ SentOk(w) \/ SentFailed(w) PROVE [Next]_vars
  BY <1>5 DEF LooksUp, SentOk, SentFailed, Next
<1>6. ASSUME NEW b \in BatchIds, SubmitArrives(b) PROVE [Next]_vars
  <2>1. assignee[b] \in Clients /\ posted[b] \in Declarations(b)
    BY <1>6 DEF SubmitArrives, MeshInv, PostedInv
  <2> QED BY <1>6, <2>1 DEF SubmitArrives, Next
<1>7. ASSUME NEW b \in BatchIds, SubmitLost(b) \/ Submitted(b) \/ SubmitFailed(b)
      PROVE  [Next]_vars
  BY <1>7 DEF SubmitLost, Submitted, SubmitFailed, Next
<1>8. CASE ServerRestart
  BY <1>8 DEF ServerRestart, Next
<1>9. CASE Sweep
  BY <1>9 DEF Sweep, Next
<1>10. CASE UNCHANGED meshVars
  BY <1>10 DEF meshVars
<1> QED
  BY <1>1, <1>2, <1>3, <1>4, <1>5, <1>6, <1>7, <1>8, <1>9, <1>10 DEF MeshNext

-----------------------------------------------------------------------------
(* The invariant is kept: types *)

\* A client that sends has a batch of its own.
LEMMA BusyHasBatch ==
  ASSUME MeshInv, NEW c \in Clients, pc[c] \in Busy
  PROVE  /\ work[c] \in BatchIds /\ work[c] <= issued /\ assignee[work[c]] = c
         /\ declared[work[c]] = {} /\ posted[work[c]] = {}
  BY DEF MeshInv, ClientInv, HoldsBatch

LEMMA MeshTypeStep == MeshInv /\ [MeshNext]_meshVars => MeshTypeOK'
<1> SUFFICES ASSUME MeshInv, [MeshNext]_meshVars
             PROVE  MeshTypeOK'
  OBVIOUS
<1>0. TypeOK /\ MeshTypeOK
  BY DEF MeshInv
<1> USE DEF MeshTypeOK, program, requests, Goto, Fault, NoFault, Gone, Running
<1>1. ASSUME NEW c \in Clients, Launch(c) \/ Fetch(c) \/ SkipSubmit(c) \/ Submit(c)
      PROVE  MeshTypeOK'
  BY <1>0, <1>1 DEF Launch, Fetch, SkipSubmit, Submit
<1>2. ASSUME NEW c \in Clients, Beat(c) \/ Silence(c) \/ FetchArrives(c) \/ FetchLost(c)
      PROVE  MeshTypeOK'
  BY <1>0, <1>2 DEF Beat, Silence, FetchArrives, FetchLost
<1>3. ASSUME NEW c \in Clients, Generate(c)
      PROVE  MeshTypeOK'
  <2>1. /\ UNCHANGED <<work, found, hashes, requests>>
        /\ pc' = [pc EXCEPT ![c] = "saving"] /\ faults' \in 0 .. MaxFaults
    BY <1>0, <1>3 DEF Generate
  <2>2. disk' = disk \/ \E f : \E x \in Contents : disk' = [disk EXCEPT ![c][f] = x]
    BY <1>3 DEF Generate
  <2>3. disk' \in [Clients -> [Files -> Contents \cup {NoFile}]]
    <3>1. ASSUME NEW f, NEW x \in Contents, disk' = [disk EXCEPT ![c][f] = x]
          PROVE  disk' \in [Clients -> [Files -> Contents \cup {NoFile}]]
      BY <1>0, <3>1
    <3> QED BY <1>0, <2>2, <3>1
  <2> QED BY <1>0, <2>1, <2>3
<1>4. ASSUME NEW c \in Clients, Collect(c)
      PROVE  MeshTypeOK'
  <2>1. region[work[c]] \in Files
    BY <1>4, BusyHasBatch DEF Collect, MeshInv, Busy, RowsFilled, Files
  <2>2. /\ UNCHANGED <<work, disk, requests, faults>>
        /\ pc' = [pc EXCEPT ![c] = "uploading"]
        /\ hashes' = [hashes EXCEPT ![c] = {}]
    BY <1>4 DEF Collect
  <2>3. \E S \in SUBSET Files : found' = [found EXCEPT ![c] = S]
    BY <1>4, <2>1 DEF Collect, Present
  <2> QED BY <1>0, <2>2, <2>3
<1>5. ASSUME NEW c \in Clients, NEW f \in Files, NEW x \in Contents, SendFile(c, f, x)
      PROVE  MeshTypeOK'
  <2>1. disk[c][f] \in Contents
    <3>1. disk[c][f] # NoFile
      BY <1>5 DEF SendFile, MeshInv, ClientInv, SentInOrder
    <3> QED BY <1>0, <3>1
  <2>2. /\ UNCHANGED <<work, found, asked, posted>> /\ faults' \in 0 .. MaxFaults
        /\ pc' = [pc EXCEPT ![c] = "sending"]
        /\ hashes' = [hashes EXCEPT ![c] = @ \cup {<<f, disk[c][f]>>}]
        /\ disk' = disk \/ disk' = [disk EXCEPT ![c][f] = x]
    BY <1>0, <1>5 DEF SendFile
  <2>3. onWay' \subseteq Sending
    BY <1>0, <1>5, BusyHasBatch DEF SendFile, Sending, Busy
  <2>4. disk' \in [Clients -> [Files -> Contents \cup {NoFile}]]
    <3>1. ASSUME disk' = [disk EXCEPT ![c][f] = x]
          PROVE  disk' \in [Clients -> [Files -> Contents \cup {NoFile}]]
      BY <1>0, <3>1
    <3> QED BY <1>0, <2>2, <3>1
  <2>5. hashes' \in [Clients -> SUBSET (Files \X Contents)]
    <3>1. hashes[c] \cup {<<f, disk[c][f]>>} \in SUBSET (Files \X Contents)
      BY <1>0, <2>1
    <3> QED BY <1>0, <2>2, <3>1
  <2>6. pc' \in [Clients -> Gone \cup Running]
    BY <1>0, <2>2
  <2> QED BY <1>0, <2>2, <2>3, <2>4, <2>5, <2>6
<1>6. ASSUME NEW c \in Clients, NoMoreTasks(c) \/ GivesUpSubmit(c) \/ Crash(c)
      PROVE  MeshTypeOK'
  <2>1. /\ UNCHANGED <<work, disk, found, hashes, onWay, posted>> /\ faults' \in 0 .. MaxFaults
        /\ asked' \subseteq asked
        /\ pc' = pc \/ \E l \in Gone \cup Running : pc' = [pc EXCEPT ![c] = l]
    <3>1. CASE NoMoreTasks(c)
      BY <1>0, <3>1 DEF NoMoreTasks
    <3>2. CASE GivesUpSubmit(c)
      BY <1>0, <3>2 DEF GivesUpSubmit
    <3>3. CASE Crash(c)
      BY <1>0, <3>3 DEF Crash
    <3> QED BY <1>6, <3>1, <3>2, <3>3
  <2> QED BY <1>0, <2>1
<1>7. ASSUME NEW c \in Clients, Assigned(c) \/ FetchRejected(c)
      PROVE  MeshTypeOK'
  <2>1. CASE Assigned(c)
    <3>1. issued + 1 \in 0 .. MaxBatches
      <4>1. issued < MaxBatches
        BY <2>1 DEF Assigned, InsertBatch
      <4>2. issued \in 0 .. MaxBatches
        BY <1>0 DEF TypeOK
      <4> QED BY <4>1, <4>2, OrchestratorAssumption
    <3>2. /\ UNCHANGED <<disk, found, hashes, requests, faults>>
          /\ pc' = pc \/ pc' = [pc EXCEPT ![c] = "generating"]
          /\ work' = work \/ work' = [work EXCEPT ![c] = issued + 1]
      BY <2>1 DEF Assigned
    <3> QED BY <1>0, <3>1, <3>2
  <2>2. CASE FetchRejected(c)
    BY <1>0, <2>2 DEF FetchRejected
  <2> QED BY <1>7, <2>1, <2>2
<1>8. ASSUME NEW c \in Clients, Forget(c), UNCHANGED <<work, disk, requests>>,
             faults' \in 0 .. MaxFaults
      PROVE  MeshTypeOK'
  BY <1>0, <1>8 DEF Forget
<1>9. ASSUME NEW c \in Clients, GivesUpUpload(c)
      PROVE  MeshTypeOK'
  BY <1>0, <1>8, <1>9 DEF GivesUpUpload
<1>10. ASSUME NEW u \in onWay, UploadArrives(u) \/ UploadLost(u)
       PROVE  MeshTypeOK'
  BY <1>0, <1>10 DEF UploadArrives, UploadLost
<1>11. ASSUME NEW w \in writing, LooksUp(w)
       PROVE  MeshTypeOK'
  BY <1>0, <1>11 DEF LooksUp
<1>12. ASSUME NEW w \in writing, SentOk(w)
       PROVE  MeshTypeOK'
  <2>1. /\ UNCHANGED <<work, disk, hashes, requests, faults>>
        /\ pc' = pc \/ pc' = [pc EXCEPT ![w.client] = "uploading"]
        /\ found' = found \/ found' = [found EXCEPT ![w.client] = @ \ {w.file}]
    BY <1>12 DEF SentOk
  <2>2. pc' \in [Clients -> Gone \cup Running]
    BY <1>0, <2>1
  <2>3. found' \in [Clients -> SUBSET Files]
    BY <1>0, <2>1
  <2> QED BY <1>0, <2>1, <2>2, <2>3
<1>13. ASSUME NEW w \in writing, SentFailed(w)
       PROVE  MeshTypeOK'
  <2>1. w.client \in Clients
    BY <1>0 DEF TypeOK, UploadRequest
  <2> QED BY <1>0, <1>8, <1>13, <2>1 DEF SentFailed
<1>14. ASSUME NEW b \in BatchIds,
              SubmitArrives(b) \/ SubmitLost(b) \/ Submitted(b) \/ SubmitFailed(b)
       PROVE  MeshTypeOK'
  BY <1>0, <1>14 DEF SubmitArrives, SubmitLost, Submitted, SubmitFailed
<1>15. CASE ServerRestart
  BY <1>0, <1>15 DEF ServerRestart
<1>16. CASE Sweep
  BY <1>0, <1>16 DEF Sweep
<1>17. CASE UNCHANGED meshVars
  BY <1>0, <1>17 DEF meshVars
<1> QED
  BY <1>1, <1>2, <1>3, <1>4, <1>5, <1>6, <1>7, <1>9, <1>10, <1>11, <1>12, <1>13, <1>14,
     <1>15, <1>16, <1>17
  DEF MeshNext, ClientStep

-----------------------------------------------------------------------------
(* The invariant is kept: rows and requests *)

\* Rows that were given out stay, and stay with their client.
RowsStay ==
    /\ issued' >= issued
    /\ \A b \in BatchIds : b <= issued => b <= issued' /\ assignee'[b] = assignee[b]

LEMMA RowsAreKept == MeshInv /\ [Next]_vars => RowsStay
<1> SUFFICES ASSUME MeshInv, [Next]_vars PROVE RowsStay
  OBVIOUS
<1>0. TypeOK /\ BookInv
  BY DEF MeshInv
<1>1. ASSUME NEW c \in Clients, InsertBatch(c) PROVE RowsStay
  BY <1>0, <1>1 DEF InsertBatch, TypeOK, BatchIds, RowsStay
<1>2. CASE UNCHANGED <<issued, assignee>>
  BY <1>0, <1>2 DEF RowsStay, TypeOK
<1> QED
  BY <1>1, <1>2 DEF Next, vars, batchRow, files, submits, Login, Heartbeat, Expire,
     SelectTask, AbortAssignment, ReceiveUpload, LookUpRow, RecordUpload, FailUpload,
     CheckHashes, FinishSubmit, FailSubmit, SweepScan, SweepRead, SweepCommit, Restart

LEMMA RowsStep == MeshInv /\ [Next]_vars => RowsFilled'
<1> SUFFICES ASSUME MeshInv, [Next]_vars
             PROVE  RowsFilled'
  OBVIOUS
<1>0. TypeOK /\ BookInv /\ RowsFilled
  BY DEF MeshInv
<1> USE DEF RowsFilled, batchRow, files, submits
<1>1. ASSUME NEW c \in Clients, InsertBatch(c) PROVE RowsFilled'
  BY <1>0, <1>1 DEF InsertBatch, TypeOK, BatchIds
<1>2. ASSUME NEW c \in Clients, NEW b \in BatchIds, NEW f \in Files, NEW x \in Contents,
             ReceiveUpload(c, b, f, x)
      PROVE  RowsFilled'
  <2>1. b <= issued /\ b \in Int /\ issued \in Int
    BY <1>0, <1>2, GivenOut DEF ReceiveUpload
  <2> QED BY <1>0, <1>2, <2>1 DEF ReceiveUpload, TypeOK, BatchIds
<1>3. ASSUME NEW w \in writing, RecordUpload(w) PROVE RowsFilled'
  <2>1. w \in UploadRequest /\ w.batch <= issued
    BY DEF MeshInv, TypeOK, UploadsInv
  <2> QED BY <1>0, <1>3, <2>1 DEF RecordUpload, TypeOK, BatchIds, UploadRequest
<1>4. CASE UNCHANGED <<issued, region, uploads>>
  BY <1>0, <1>4
<1> QED
  BY <1>1, <1>2, <1>3, <1>4 DEF Next, vars, Login, Heartbeat, Expire, SelectTask,
     AbortAssignment, LookUpRow, FailUpload, CheckHashes, FinishSubmit, FailSubmit,
     SweepScan, SweepRead, SweepCommit, Restart

\* A step that sends nothing and brings nothing to the server's rows: requests can
\* only become fewer.
Quiet ==
    /\ onWay' \subseteq onWay
    /\ \A b \in BatchIds : posted'[b] \in {posted[b], {}}
    /\ \A v \in writing' : \E w \in writing :
            v.client = w.client /\ v.batch = w.batch /\ v.file = w.file
    /\ UNCHANGED <<uploads, declared>>

\* All steps are quiet but the sending and the arrival of an upload or a submission,
\* and the recording of an upload.
LEMMA QuietSteps ==
  ASSUME MeshInv, [MeshNext]_meshVars
  PROVE  \/ Quiet
         \/ \E c \in Clients : Submit(c) \/ \E f \in Files, x \in Contents : SendFile(c, f, x)
         \/ \E u \in onWay : UploadArrives(u)
         \/ \E w \in writing : SentOk(w)
         \/ \E b \in BatchIds : SubmitArrives(b)
<1>0. TypeOK /\ MeshTypeOK
  BY DEF MeshInv
<1> USE DEF Quiet, batchRow, files, submits, requests
<1>1. ASSUME NEW c \in Clients,
             \/ Launch(c) \/ Fetch(c) \/ Generate(c) \/ Collect(c) \/ SkipSubmit(c)
             \/ Beat(c) \/ Silence(c)
             \/ FetchArrives(c) \/ NoMoreTasks(c) \/ FetchLost(c)
             \/ Assigned(c) \/ FetchRejected(c)
             \/ GivesUpUpload(c) \/ GivesUpSubmit(c) \/ Crash(c)
      PROVE  Quiet
  BY <1>1 DEF Launch, Login, Fetch, Generate, Collect, SkipSubmit, Beat, Heartbeat, Silence,
     Expire, FetchArrives, SelectTask, NoMoreTasks, FetchLost, Assigned, InsertBatch,
     FetchRejected, AbortAssignment, GivesUpUpload, GivesUpSubmit, Crash, vars
<1>2. ASSUME NEW u \in onWay, UploadLost(u) PROVE Quiet
  BY <1>2 DEF UploadLost, vars
<1>3. ASSUME NEW w \in writing, LooksUp(w) PROVE Quiet
  <2>1. w \in UploadRequest
    BY <1>0 DEF TypeOK
  <2> QED BY <1>3, <2>1 DEF LooksUp, LookUpRow, UploadRequest
<1>4. ASSUME NEW w \in writing, SentFailed(w) PROVE Quiet
  BY <1>4 DEF SentFailed, FailUpload
<1>5. ASSUME NEW b \in BatchIds, SubmitLost(b) PROVE Quiet
  BY <1>0, <1>5 DEF SubmitLost, vars, MeshTypeOK
<1>6. ASSUME NEW b \in BatchIds, Submitted(b) \/ SubmitFailed(b) PROVE Quiet
  BY <1>6 DEF Submitted, SubmitFailed, FinishSubmit, FailSubmit
<1>7. CASE ServerRestart
  BY <1>7 DEF ServerRestart, Restart
<1>8. CASE Sweep
  BY <1>8 DEF Sweep, SweepScan, SweepRead, SweepCommit
<1>9. CASE UNCHANGED meshVars
  BY <1>9 DEF meshVars, vars
<1> QED
  BY <1>1, <1>2, <1>3, <1>4, <1>5, <1>6, <1>7, <1>8, <1>9 DEF MeshNext, ClientStep

\* What the four kinds of steps that are not quiet do to rows and requests.
LEMMA SendFileEffect ==
  ASSUME MeshInv, NEW c \in Clients, NEW f \in Files, NEW x \in Contents, SendFile(c, f, x)
  PROVE  /\ \E u \in Sending :
                /\ u.client = c /\ u.batch = work[c] /\ u.file = f
                /\ onWay' = onWay \cup {u}
         /\ ~Sent(work[c], f)
         /\ UNCHANGED <<posted, writing, uploads, declared>>
<1>1. pc[c] = "uploading" /\ f \in found[c]
  BY DEF SendFile
<1>2. ~Sent(work[c], f)
  BY <1>1 DEF MeshInv, ClientInv, SentInOrder
<1>3. [client |-> c, batch |-> work[c], file |-> f, content |-> x] \in Sending
  BY <1>1, BusyHasBatch DEF Sending, Busy
<1> QED
  BY <1>2, <1>3 DEF SendFile, vars, files, submits

LEMMA UploadArrivesEffect ==
  ASSUME MeshInv, NEW u \in onWay, UploadArrives(u)
  PROVE  /\ u \in Sending /\ u.batch <= issued /\ assignee[u.batch] = u.client
         /\ uploads' = [uploads EXCEPT ![u.batch][u.file] = "sent"]
         /\ \E w \in UploadRequest :
                /\ w.client = u.client /\ w.batch = u.batch /\ w.file = u.file
                /\ writing' = writing \cup {w}
         /\ onWay' = onWay \ {u}
         /\ UNCHANGED <<posted, declared, program>>
<1>1. u \in Sending /\ u.batch <= issued /\ assignee[u.batch] = u.client
  BY DEF MeshInv, MeshTypeOK, UploadsInv
<1>2. [client |-> u.client, batch |-> u.batch, file |-> u.file, content |-> u.content,
       row |-> "unread"] \in UploadRequest
  BY <1>1 DEF Sending, UploadRequest
<1> QED
  BY <1>1, <1>2 DEF UploadArrives, ReceiveUpload, submits

LEMMA SentOkEffect ==
  ASSUME MeshInv, NEW w \in writing, SentOk(w)
  PROVE  /\ w \in UploadRequest /\ w.batch <= issued /\ assignee[w.batch] = w.client
         /\ uploads[w.batch][w.file] # "no"
         /\ uploads' = [uploads EXCEPT ![w.batch][w.file] = "acked"]
         /\ writing' = writing \ {w}
         /\ UNCHANGED <<onWay, posted, declared, work, disk, hashes>>
<1>1. w \in UploadRequest /\ w.batch <= issued /\ assignee[w.batch] = w.client
  BY DEF MeshInv, TypeOK, UploadsInv
<1>2. uploads[w.batch][w.file] # "no"
  BY DEF MeshInv, UploadsInv
<1> QED
  BY <1>1, <1>2 DEF SentOk, RecordUpload, submits, requests

LEMMA SubmitArrivesEffect ==
  ASSUME MeshInv, NEW b \in BatchIds, SubmitArrives(b)
  PROVE  /\ posted[b] # {}
         /\ declared' = [declared EXCEPT ![b] = posted[b]]
         /\ posted' = [posted EXCEPT ![b] = {}]
         /\ UNCHANGED <<onWay, writing, uploads, program>>
  BY DEF SubmitArrives, CheckHashes, files

LEMMA UploadsStep ==
  ASSUME MeshInv, [MeshNext]_meshVars, RowsStay
  PROVE  UploadsInv'
<1>0. TypeOK /\ MeshTypeOK /\ UploadsInv
  BY DEF MeshInv
<1>1. CASE Quiet
  <2>1. ASSUME NEW v \in onWay'
        PROVE  /\ v.batch <= issued' /\ assignee'[v.batch] = v.client
               /\ uploads'[v.batch][v.file] = "no"
               /\ \A q \in onWay' : q.batch = v.batch /\ q.file = v.file => q = v
    <3>1. v \in onWay /\ v.batch \in BatchIds
      BY <1>0, <1>1 DEF Quiet, MeshTypeOK, Sending
    <3> QED BY <1>0, <1>1, <3>1 DEF Quiet, UploadsInv, RowsStay
  <2>2. ASSUME NEW v \in writing'
        PROVE  /\ v.batch <= issued' /\ assignee'[v.batch] = v.client
               /\ uploads'[v.batch][v.file] # "no"
    <3>1. PICK w \in writing : v.client = w.client /\ v.batch = w.batch /\ v.file = w.file
      BY <1>1 DEF Quiet
    <3>2. w.batch \in BatchIds
      BY <1>0 DEF TypeOK, UploadRequest
    <3> QED BY <1>0, <1>1, <3>1, <3>2 DEF Quiet, UploadsInv, RowsStay
  <2> QED BY <2>1, <2>2 DEF UploadsInv
<1>2. ASSUME NEW c \in Clients, Submit(c) PROVE UploadsInv'
  <2>1. UNCHANGED <<onWay, writing, uploads, issued, assignee>>
    BY <1>2 DEF Submit, vars, files, batchRow
  <2> QED BY <1>0, <2>1 DEF UploadsInv
<1>3. ASSUME NEW c \in Clients, NEW f \in Files, NEW x \in Contents, SendFile(c, f, x)
      PROVE  UploadsInv'
  <2>1. PICK u \in Sending :
          /\ u.client = c /\ u.batch = work[c] /\ u.file = f
          /\ onWay' = onWay \cup {u}
    BY <1>3, SendFileEffect
  <2>2. ~Sent(work[c], f) /\ UNCHANGED <<writing, uploads>>
    BY <1>3, SendFileEffect
  <2>3. UNCHANGED <<issued, assignee>>
    BY <1>3 DEF SendFile, vars, batchRow
  <2>4. work[c] <= issued /\ assignee[work[c]] = c
    BY <1>3, BusyHasBatch DEF SendFile, Busy
  <2> QED BY <1>0, <2>1, <2>2, <2>3, <2>4 DEF UploadsInv, Sent
<1>4. ASSUME NEW u \in onWay, UploadArrives(u) PROVE UploadsInv'
  <2>1. PICK w \in UploadRequest :
          /\ w.client = u.client /\ w.batch = u.batch /\ w.file = u.file
          /\ writing' = writing \cup {w}
    BY <1>4, UploadArrivesEffect
  <2>2. /\ u \in Sending /\ u.batch <= issued /\ assignee[u.batch] = u.client
        /\ uploads' = [uploads EXCEPT ![u.batch][u.file] = "sent"]
        /\ onWay' = onWay \ {u}
    BY <1>4, UploadArrivesEffect
  <2>3. UNCHANGED <<issued, assignee>>
    BY <1>4 DEF UploadArrives, ReceiveUpload, batchRow
  <2>4. \A b \in BatchIds : \A f \in Files :
          uploads'[b][f] = IF b = u.batch /\ f = u.file THEN "sent" ELSE uploads[b][f]
    BY <1>0, <2>2 DEF TypeOK, Sending
  <2>5. ASSUME NEW v \in onWay'
        PROVE  uploads'[v.batch][v.file] = "no"
    <3>1. v \in onWay /\ v # u /\ v.batch \in BatchIds /\ v.file \in Files
      BY <1>0, <2>2 DEF MeshTypeOK, Sending
    <3>2. ~(v.batch = u.batch /\ v.file = u.file) /\ uploads[v.batch][v.file] = "no"
      BY <1>0, <3>1 DEF UploadsInv
    <3> QED BY <2>4, <3>1, <3>2
  <2>6. ASSUME NEW v \in writing'
        PROVE  /\ v.batch <= issued /\ assignee[v.batch] = v.client
               /\ uploads'[v.batch][v.file] # "no"
    <3>1. CASE v = w
      BY <2>1, <2>2, <2>4, <3>1 DEF Sending
    <3>2. CASE v \in writing
      <4>1. v.batch \in BatchIds /\ v.file \in Files
        BY <1>0, <3>2 DEF TypeOK, UploadRequest
      <4> QED BY <1>0, <2>4, <3>2, <4>1 DEF UploadsInv
    <3> QED BY <2>1, <2>6, <3>1, <3>2
  <2> QED BY <1>0, <2>2, <2>3, <2>5, <2>6 DEF UploadsInv
<1>5. ASSUME NEW w \in writing, SentOk(w) PROVE UploadsInv'
  <2>1. /\ w \in UploadRequest /\ w.batch <= issued /\ assignee[w.batch] = w.client
        /\ uploads[w.batch][w.file] # "no"
        /\ uploads' = [uploads EXCEPT ![w.batch][w.file] = "acked"]
        /\ writing' = writing \ {w} /\ onWay' = onWay
    BY <1>5, SentOkEffect
  <2>2. UNCHANGED <<issued, assignee>>
    BY <1>5 DEF SentOk, RecordUpload, batchRow
  <2>3. \A b \in BatchIds : \A f \in Files :
          uploads'[b][f] = IF b = w.batch /\ f = w.file THEN "acked" ELSE uploads[b][f]
    BY <1>0, <2>1 DEF TypeOK, UploadRequest
  <2>4. ASSUME NEW v \in onWay'
        PROVE  uploads'[v.batch][v.file] = "no"
    <3>1. v \in onWay /\ v.batch \in BatchIds /\ v.file \in Files
      BY <1>0, <2>1 DEF MeshTypeOK, Sending
    <3> QED BY <1>0, <2>1, <2>3, <3>1 DEF UploadsInv
  <2>5. ASSUME NEW v \in writing'
        PROVE  uploads'[v.batch][v.file] # "no"
    <3>1. v \in writing /\ v.batch \in BatchIds /\ v.file \in Files
      BY <1>0, <2>1 DEF TypeOK, UploadRequest
    <3> QED BY <1>0, <2>3, <3>1 DEF UploadsInv
  <2> QED BY <1>0, <2>1, <2>2, <2>4, <2>5 DEF UploadsInv
<1>6. ASSUME NEW b \in BatchIds, SubmitArrives(b) PROVE UploadsInv'
  <2>1. UNCHANGED <<onWay, writing, uploads, issued, assignee>>
    BY <1>6 DEF SubmitArrives, CheckHashes, files, batchRow
  <2> QED BY <1>0, <2>1 DEF UploadsInv
<1> QED
  BY <1>1, <1>2, <1>3, <1>4, <1>5, <1>6, QuietSteps

\* What may be declared for a batch only grows with the uploads that are recorded.
LEMMA DeclarationsKept ==
  ASSUME NEW b \in BatchIds, NEW D \in Declarations(b),
         \A f \in Files : uploads[b][f] = "acked" => uploads'[b][f] = "acked"
  PROVE  D \in Declarations(b)'
  BY DEF Declarations, Files

\* Recorded uploads stay recorded.
AckedKept ==
    \A b \in BatchIds : \A f \in Files : uploads[b][f] = "acked" => uploads'[b][f] = "acked"

LEMMA AckedStep == MeshInv /\ [MeshNext]_meshVars => AckedKept
<1> SUFFICES ASSUME MeshInv, [MeshNext]_meshVars PROVE AckedKept
  OBVIOUS
<1>0. TypeOK /\ MeshTypeOK /\ UploadsInv
  BY DEF MeshInv
<1>1. CASE uploads' = uploads
  BY <1>1 DEF AckedKept
<1>2. ASSUME NEW u \in onWay, UploadArrives(u) PROVE AckedKept
  <2>1. u \in Sending /\ uploads' = [uploads EXCEPT ![u.batch][u.file] = "sent"]
    BY <1>2, UploadArrivesEffect
  <2>2. uploads[u.batch][u.file] = "no"
    BY <1>0 DEF UploadsInv
  <2> QED BY <1>0, <2>1, <2>2 DEF AckedKept, TypeOK, Sending
<1>3. ASSUME NEW w \in writing, SentOk(w) PROVE AckedKept
  <2>1. w \in UploadRequest /\ uploads' = [uploads EXCEPT ![w.batch][w.file] = "acked"]
    BY <1>3, SentOkEffect
  <2> QED BY <1>0, <2>1 DEF AckedKept, TypeOK, UploadRequest
<1>4. ASSUME NEW c \in Clients, Submit(c) PROVE uploads' = uploads
  BY <1>4 DEF Submit, vars, files
<1> QED
  BY <1>1, <1>2, <1>3, <1>4, QuietSteps, SendFileEffect, SubmitArrivesEffect DEF Quiet

\* What a client is about to submit is right.
LEMMA SubmitIsRight ==
  ASSUME MeshInv, NEW c \in Clients, Submit(c)
  PROVE  hashes[c] \in Declarations(work[c])
<1>1. /\ pc[c] = "uploading" /\ found[c] = {} /\ hashes[c] # {}
  BY DEF Submit
<1>2. SentInOrder(c) /\ hashes[c] \subseteq Files \X Contents
  BY DEF MeshInv, ClientInv, MeshTypeOK
<1>3. \A d \in hashes[c] : uploads[work[c]][d[1]] = "acked"
  BY <1>1, <1>2 DEF SentInOrder
<1>4. hashes[c] \subseteq {f \in Files : uploads[work[c]][f] = "acked"} \X Contents
  BY <1>2, <1>3
<1>5. \A d, e \in hashes[c] : d[1] = e[1] => d = e
  BY <1>1, <1>2 DEF SentInOrder
<1> QED
  BY <1>1, <1>4, <1>5 DEF Declarations

LEMMA PostedStep ==
  ASSUME MeshInv, [MeshNext]_meshVars, RowsStay
  PROVE  PostedInv'
<1>0. MeshTypeOK /\ TypeOK /\ PostedInv /\ AckedKept
  BY AckedStep DEF MeshInv
<1> SUFFICES ASSUME NEW b \in BatchIds, posted'[b] # {}
             PROVE  /\ b <= issued' /\ assignee'[b] \in Clients
                    /\ declared'[b] = {}
                    /\ posted'[b] \in Declarations(b)'
  BY DEF PostedInv
<1>1. ASSUME posted'[b] = posted[b], declared'[b] = declared[b]
      PROVE  /\ b <= issued' /\ assignee'[b] \in Clients
             /\ declared'[b] = {}
             /\ posted'[b] \in Declarations(b)'
  BY <1>0, <1>1, DeclarationsKept DEF PostedInv, RowsStay, AckedKept
<1>2. ASSUME NEW c \in Clients, Submit(c)
      PROVE  /\ b <= issued' /\ assignee'[b] \in Clients
             /\ declared'[b] = {}
             /\ posted'[b] \in Declarations(b)'
  <2>1. posted' = [posted EXCEPT ![work[c]] = hashes[c]] /\ declared' = declared
    BY <1>2 DEF Submit, vars, submits
  <2>2. CASE b = work[c]
    <3>1. /\ b <= issued /\ assignee[b] = c /\ declared[b] = {}
      BY <1>2, <2>2, BusyHasBatch DEF Submit, Busy
    <3>2. posted'[b] = hashes[c] /\ hashes[c] \in Declarations(b)
      BY <1>0, <1>2, <2>1, <2>2, SubmitIsRight DEF MeshTypeOK
    <3>3. posted'[b] \in Declarations(b)'
      BY <1>0, <3>2, DeclarationsKept DEF AckedKept
    <3> QED BY <2>1, <3>1, <3>3 DEF RowsStay
  <2>3. CASE b # work[c]
    BY <1>0, <1>1, <2>1, <2>3 DEF MeshTypeOK
  <2> QED BY <2>2, <2>3
<1>3. ASSUME NEW e \in BatchIds, SubmitArrives(e)
      PROVE  posted'[b] = posted[b] /\ declared'[b] = declared[b]
  BY <1>0, <1>3, SubmitArrivesEffect DEF MeshTypeOK, TypeOK
<1>4. CASE Quiet
  BY <1>1, <1>4 DEF Quiet
<1> QED
  BY <1>1, <1>2, <1>3, <1>4, QuietSteps, SendFileEffect, UploadArrivesEffect, SentOkEffect

LEMMA AskedStep == MeshInv /\ [MeshNext]_meshVars => AskedInv'
<1> SUFFICES ASSUME MeshInv, [MeshNext]_meshVars PROVE AskedInv'
  OBVIOUS
<1>0. TypeOK /\ MeshTypeOK /\ AskedInv
  BY DEF MeshInv
<1> USE DEF AskedInv, Goto, program, requests
<1>1. ASSUME NEW c \in Clients, Fetch(c) PROVE AskedInv'
  BY <1>0, <1>1 DEF Fetch, vars, MeshTypeOK
<1>2. ASSUME NEW c \in Clients, FetchArrives(c) PROVE AskedInv'
  BY <1>0, <1>2 DEF FetchArrives, SelectTask, TypeOK
<1>3. ASSUME NEW c \in Clients, NoMoreTasks(c) \/ FetchLost(c) PROVE AskedInv'
  BY <1>0, <1>3 DEF NoMoreTasks, FetchLost, vars, MeshTypeOK
<1>4. ASSUME NEW c \in Clients, Assigned(c) \/ FetchRejected(c) PROVE AskedInv'
  <2>1. /\ picked[c] # NoRegion /\ picked' = [picked EXCEPT ![c] = NoRegion] /\ asked' = asked
        /\ pc' = pc \/ \E l : pc' = [pc EXCEPT ![c] = l]
    BY <1>4 DEF Assigned, InsertBatch, FetchRejected, AbortAssignment
  <2>2. c \notin asked /\ picked'[c] = NoRegion
    BY <1>0, <2>1 DEF TypeOK
  <2>3. \A d \in Clients : d # c => pc'[d] = pc[d] /\ picked'[d] = picked[d]
    BY <1>0, <2>1 DEF TypeOK, MeshTypeOK
  <2> QED BY <1>0, <2>1, <2>2, <2>3
<1>5. CASE ServerRestart
  BY <1>5 DEF ServerRestart, Restart
<1>6. ASSUME UNCHANGED <<picked, asked>>, NEW c \in Clients, NEW l,
             pc' = [pc EXCEPT ![c] = l],
             l = "crashed" \/ pc[c] \notin {"fetching", "crashed"}
      PROVE  AskedInv'
  BY <1>0, <1>6 DEF MeshTypeOK
<1>7. CASE UNCHANGED <<pc, picked, asked>>
  BY <1>0, <1>7
<1>8. ASSUME NEW c \in Clients,
             \/ Launch(c) \/ Generate(c) \/ Collect(c) \/ Submit(c) \/ SkipSubmit(c)
             \/ (\E f \in Files, x \in Contents : SendFile(c, f, x))
             \/ GivesUpUpload(c) \/ GivesUpSubmit(c) \/ Crash(c)
      PROVE  AskedInv'
  <2>1. UNCHANGED <<picked, asked>>
    BY <1>8 DEF Launch, Login, Generate, Collect, Submit, SkipSubmit, SendFile, GivesUpUpload,
       GivesUpSubmit, Crash, vars
  <2>2. PICK l : /\ pc' = [pc EXCEPT ![c] = l]
                 /\ l = "crashed" \/ pc[c] \notin {"fetching", "crashed"}
    BY <1>8 DEF Launch, Generate, Collect, Submit, SkipSubmit, SendFile, GivesUpUpload,
       Forget, GivesUpSubmit, Crash
  <2> QED BY <1>6, <2>1, <2>2
<1>9. ASSUME NEW w \in writing, SentOk(w) \/ SentFailed(w) PROVE AskedInv'
  <2>1. UNCHANGED <<picked, asked>> /\ w.client \in Clients
    BY <1>0, <1>9 DEF SentOk, SentFailed, RecordUpload, FailUpload, TypeOK, UploadRequest
  <2>2. pc' = pc \/ (pc[w.client] = "sending" /\ pc' = [pc EXCEPT ![w.client] = "uploading"])
    BY <1>9 DEF SentOk, SentFailed, Awaits, Forget
  <2> QED BY <1>6, <1>7, <2>1, <2>2
<1>10. ASSUME NEW b \in BatchIds, Submitted(b) \/ SubmitFailed(b) PROVE AskedInv'
  <2>1. UNCHANGED <<picked, asked>>
    BY <1>10 DEF Submitted, SubmitFailed, FinishSubmit, FailSubmit
  <2>2. pc' = pc \/ (/\ pc[assignee[b]] = "submitting"
                     /\ pc' = [pc EXCEPT ![assignee[b]] = "idle"])
    BY <1>10 DEF Submitted, SubmitFailed, AwaitsSubmit
  <2> QED BY <1>0, <2>1, <2>2 DEF MeshTypeOK
<1>11. ASSUME \/ \E c \in Clients : Beat(c) \/ Silence(c)
              \/ \E u \in onWay : UploadArrives(u) \/ UploadLost(u)
              \/ \E w \in writing : LooksUp(w)
              \/ \E b \in BatchIds : SubmitArrives(b) \/ SubmitLost(b)
              \/ Sweep
              \/ UNCHANGED meshVars
       PROVE  AskedInv'
  BY <1>7, <1>11 DEF Beat, Heartbeat, Silence, Expire, UploadArrives, ReceiveUpload, UploadLost,
     LooksUp, LookUpRow, SubmitArrives, CheckHashes, SubmitLost, Sweep, SweepScan, SweepRead,
     SweepCommit, meshVars, vars
<1> QED
  BY <1>1, <1>2, <1>3, <1>4, <1>5, <1>8, <1>9, <1>10, <1>11 DEF MeshNext, ClientStep

-----------------------------------------------------------------------------
(* The invariant is kept: the clients *)

\* A step after which what holds of a client's batch rows and requests still does:
\* nothing new was sent or submitted for them.
Calm(c) ==
    /\ RowsStay
    /\ \A b \in BatchIds : b <= issued /\ assignee[b] = c =>
        /\ declared[b] = {} /\ posted[b] = {} => declared'[b] = {} /\ posted'[b] = {}
        /\ \A f \in Files :
            /\ Sent(b, f)' => Sent(b, f)
            /\ uploads[b][f] = "acked" => uploads'[b][f] = "acked"

\* Every step is, but for the client's own sending and submitting.
LEMMA CalmStep ==
  ASSUME MeshInv, [MeshNext]_meshVars, RowsStay, NEW c \in Clients,
         ~Submit(c), ~\E f \in Files, x \in Contents : SendFile(c, f, x)
  PROVE  Calm(c)
<1>0. TypeOK /\ MeshTypeOK /\ AckedKept
  BY AckedStep DEF MeshInv
<1> SUFFICES ASSUME NEW b \in BatchIds, b <= issued, assignee[b] = c, NEW f
             PROVE  /\ declared[b] = {} /\ posted[b] = {} => declared'[b] = {} /\ posted'[b] = {}
                    /\ f \in Files => (Sent(b, f)' => Sent(b, f))
  BY <1>0 DEF Calm, AckedKept
<1>1. CASE Quiet
  BY <1>1 DEF Quiet, Sent
<1>2. ASSUME NEW e \in Clients, Submit(e)
      PROVE  /\ declared[b] = {} /\ posted[b] = {} => declared'[b] = {} /\ posted'[b] = {}
             /\ f \in Files => (Sent(b, f)' => Sent(b, f))
  <2>1. b # work[e]
    <3>1. assignee[work[e]] = e
      BY <1>2, BusyHasBatch DEF Submit, Busy
    <3> QED BY <1>2, <3>1
  <2> QED BY <1>0, <1>2, <2>1 DEF Submit, vars, files, submits, Sent, MeshTypeOK
<1>3. ASSUME NEW e \in Clients, NEW g \in Files, NEW x \in Contents, SendFile(e, g, x)
      PROVE  /\ declared[b] = {} /\ posted[b] = {} => declared'[b] = {} /\ posted'[b] = {}
             /\ f \in Files => (Sent(b, f)' => Sent(b, f))
  <2>1. b # work[e]
    <3>1. assignee[work[e]] = e
      BY <1>3, BusyHasBatch DEF SendFile, Busy
    <3> QED BY <1>3, <3>1
  <2>2. PICK u \in Sending : u.batch = work[e] /\ onWay' = onWay \cup {u}
    BY <1>3, SendFileEffect
  <2>3. UNCHANGED <<posted, uploads, declared>>
    BY <1>3, SendFileEffect
  <2> QED BY <2>1, <2>2, <2>3 DEF Sent
<1>4. ASSUME NEW u \in onWay, UploadArrives(u)
      PROVE  /\ declared[b] = {} /\ posted[b] = {} => declared'[b] = {} /\ posted'[b] = {}
             /\ f \in Files => (Sent(b, f)' => Sent(b, f))
  <2>1. /\ u \in Sending /\ uploads' = [uploads EXCEPT ![u.batch][u.file] = "sent"]
        /\ onWay' = onWay \ {u} /\ UNCHANGED <<posted, declared>>
    BY <1>4, UploadArrivesEffect
  <2>2. f \in Files /\ uploads'[b][f] # uploads[b][f] => b = u.batch /\ f = u.file
    BY <1>0, <2>1 DEF TypeOK, Sending
  <2> QED BY <2>1, <2>2 DEF Sent
<1>5. ASSUME NEW w \in writing, SentOk(w)
      PROVE  /\ declared[b] = {} /\ posted[b] = {} => declared'[b] = {} /\ posted'[b] = {}
             /\ f \in Files => (Sent(b, f)' => Sent(b, f))
  <2>1. /\ w \in UploadRequest /\ uploads[w.batch][w.file] # "no"
        /\ uploads' = [uploads EXCEPT ![w.batch][w.file] = "acked"]
        /\ UNCHANGED <<onWay, posted, declared>>
    BY <1>5, SentOkEffect
  <2>2. f \in Files /\ uploads'[b][f] # uploads[b][f] => b = w.batch /\ f = w.file
    BY <1>0, <2>1 DEF TypeOK, UploadRequest
  <2> QED BY <2>1, <2>2 DEF Sent
<1>6. ASSUME NEW e \in BatchIds, SubmitArrives(e)
      PROVE  /\ declared[b] = {} /\ posted[b] = {} => declared'[b] = {} /\ posted'[b] = {}
             /\ f \in Files => (Sent(b, f)' => Sent(b, f))
  BY <1>0, <1>6, SubmitArrivesEffect DEF Sent, MeshTypeOK, TypeOK
<1> QED
  BY <1>1, <1>2, <1>3, <1>4, <1>5, <1>6, QuietSteps

\* A client that has no batch has nothing to keep.
LEMMA AtRest ==
  ASSUME NEW c \in Clients, pc'[c] \notin Busy
  PROVE  ClientInv(c)'
  BY DEF ClientInv, HoldsBatch, NothingSentYet, SentInOrder, Busy

\* A calm step that leaves the client alone.
LEMMA ClientFrame ==
  ASSUME MeshInv, NEW c \in Clients, Calm(c),
         pc'[c] = pc[c], work'[c] = work[c], disk'[c] = disk[c],
         found'[c] = found[c], hashes'[c] = hashes[c]
  PROVE  ClientInv(c)'
<1>0. ClientInv(c) /\ MeshTypeOK
  BY DEF MeshInv
<1>1. ASSUME pc[c] \in Busy
      PROVE  /\ work[c] \in BatchIds /\ work[c] <= issued /\ assignee[work[c]] = c
             /\ declared[work[c]] = {} /\ posted[work[c]] = {}
             /\ \A f \in Files :
                    /\ Sent(work[c], f)' => Sent(work[c], f)
                    /\ uploads[work[c]][f] = "acked" => uploads'[work[c]][f] = "acked"
  BY <1>1, BusyHasBatch DEF Calm
<1>2. HoldsBatch(c)'
  BY <1>1 DEF HoldsBatch, Calm, RowsStay
<1>3. NothingSentYet(c)'
  BY <1>0, <1>1 DEF ClientInv, NothingSentYet, Busy, Sent
<1>4. SentInOrder(c)'
  <2> SUFFICES ASSUME pc[c] \in {"uploading", "sending"}
               PROVE  SentInOrder(c)'
    BY DEF SentInOrder
  <2>1. Hashed(c)' = Hashed(c)
    BY DEF Hashed
  <2>2. \A d \in hashes[c] : d[1] \in Files
    BY <1>0 DEF MeshTypeOK
  <2>3. found[c] \subseteq Files
    BY <1>0 DEF MeshTypeOK
  <2>4. SentInOrder(c)
    BY <1>0 DEF ClientInv
  <2>5. \A f \in found[c] : disk'[c][f] # NoFile /\ (f \in Hashed(c) \/ ~Sent(work[c], f)')
    BY <1>1, <2>3, <2>4 DEF SentInOrder, Busy
  <2>6. \A d \in hashes[c] : d[1] \in found[c] \/ uploads'[work[c]][d[1]] = "acked"
    BY <1>1, <2>2, <2>4 DEF SentInOrder, Busy
  <2> QED BY <2>1, <2>4, <2>5, <2>6 DEF SentInOrder, Sent
<1> QED
  BY <1>2, <1>3, <1>4 DEF ClientInv

\* The client is given a batch: nothing was sent for it yet.
LEMMA AssignedKeeps ==
  ASSUME MeshInv, NEW c \in Clients, Assigned(c), pc[c] = "fetching", Calm(c)
  PROVE  ClientInv(c)'
<1>0. TypeOK /\ BookInv /\ MeshTypeOK /\ RowsFilled /\ UploadsInv /\ PostedInv
  BY DEF MeshInv
<1>1. issued < MaxBatches /\ issued \in Nat
  BY <1>0 DEF Assigned, InsertBatch, TypeOK
<1> PICK b : b = issued + 1
  OBVIOUS
<1>2. b \in BatchIds /\ b > issued
  BY <1>1, OrchestratorAssumption DEF BatchIds
<1>3. /\ issued' = b /\ assignee' = [assignee EXCEPT ![b] = c]
      /\ UNCHANGED <<files, submits, requests>>
      /\ pc' = [pc EXCEPT ![c] = "generating"] /\ work' = [work EXCEPT ![c] = b]
  BY DEF Assigned, InsertBatch, Goto
<1>4. pc'[c] = "generating" /\ work'[c] = b /\ assignee'[b] = c /\ b <= issued'
  BY <1>0, <1>1, <1>2, <1>3 DEF TypeOK, MeshTypeOK
<1>5. declared'[b] = {}
  BY <1>0, <1>2, <1>3, GivenOut DEF submits
<1>6. posted'[b] = {}
  BY <1>1, <1>2, <1>0, <1>3 DEF PostedInv, requests
<1>7. \A f \in Files : ~Sent(b, f)'
  <2>1. \A f \in Files : uploads[b][f] = "no"
    BY <1>0, <1>2 DEF RowsFilled
  <2>2. \A u \in onWay : u.batch # b
    BY <1>0, <1>1, <1>2 DEF UploadsInv
  <2> QED BY <1>3, <2>1, <2>2 DEF Sent, files, requests
<1> QED
  BY <1>2, <1>4, <1>5, <1>6, <1>7
  DEF ClientInv, HoldsBatch, NothingSentYet, SentInOrder

\* The client's own files are generated, and found.
LEMMA GenerateKeeps ==
  ASSUME MeshInv, NEW c \in Clients, Generate(c)
  PROVE  ClientInv(c)'
<1>1. ClientInv(c) /\ MeshTypeOK
  BY DEF MeshInv
<1>2. pc[c] = "generating" /\ pc'[c] = "saving" /\ work' = work /\ UNCHANGED <<vars, requests>>
  BY <1>1 DEF Generate, Goto, MeshTypeOK
<1> QED
  BY <1>1, <1>2 DEF ClientInv, HoldsBatch, NothingSentYet, SentInOrder, Sent, Busy, vars,
     batchRow, files, submits, requests

LEMMA CollectKeeps ==
  ASSUME MeshInv, NEW c \in Clients, Collect(c)
  PROVE  ClientInv(c)'
<1>1. ClientInv(c) /\ MeshTypeOK /\ RowsFilled
  BY DEF MeshInv
<1>2. /\ pc[c] = "saving" /\ pc'[c] = "uploading"
      /\ hashes'[c] = {} /\ UNCHANGED <<work, disk>> /\ UNCHANGED <<vars, requests>>
  BY <1>1 DEF Collect, Goto, MeshTypeOK
<1>3. region[work[c]] \in Files
  BY <1>1, <1>2, BusyHasBatch DEF Busy, RowsFilled, Files
<1>4. \A f \in found'[c] : f \in Files /\ disk[c][f] # NoFile
  <2>1. CASE \E S \in SUBSET Present(c) : found' = [found EXCEPT ![c] = S]
    BY <1>1, <2>1 DEF Present, MeshTypeOK
  <2>2. CASE /\ disk[c][region[work[c]]] \in Full
             /\ found' = [found EXCEPT ![c] = {region[work[c]]}]
    <3>1. disk[c][region[work[c]]] # NoFile
      BY <2>2, OrchestratorAssumption, MeshAssumption
    <3>2. found'[c] = {region[work[c]]}
      BY <1>1, <2>2 DEF MeshTypeOK
    <3> QED BY <1>3, <3>1, <3>2
  <2> QED BY <2>1, <2>2 DEF Collect
<1>5. HoldsBatch(c)'
  BY <1>1, <1>2 DEF ClientInv, HoldsBatch, Busy, vars, batchRow, submits, requests
<1>6. \A f \in found'[c] : ~Sent(work[c], f)'
  BY <1>1, <1>2, <1>4 DEF ClientInv, NothingSentYet, Sent, vars, files, requests
<1>7. SentInOrder(c)'
  BY <1>2, <1>4, <1>6 DEF SentInOrder, Hashed, Sent
<1> QED
  BY <1>2, <1>5, <1>7 DEF ClientInv, NothingSentYet

\* A file is sent: it is the one hashed file among those still to upload.
LEMMA SendFileKeeps ==
  ASSUME MeshInv, RowsStay, NEW c \in Clients, NEW f \in Files, NEW x \in Contents,
         SendFile(c, f, x)
  PROVE  ClientInv(c)'
<1>0. ClientInv(c) /\ MeshTypeOK /\ TypeOK
  BY DEF MeshInv
<1>1. /\ pc[c] = "uploading" /\ f \in found[c]
      /\ pc' = [pc EXCEPT ![c] = "sending"]
      /\ hashes' = [hashes EXCEPT ![c] = @ \cup {<<f, disk[c][f]>>}]
      /\ disk' = disk \/ disk' = [disk EXCEPT ![c][f] = x]
      /\ UNCHANGED <<work, found>>
  BY DEF SendFile, Goto
<1>2. pc'[c] = "sending" /\ hashes'[c] = hashes[c] \cup {<<f, disk[c][f]>>}
  BY <1>0, <1>1 DEF MeshTypeOK
<1>3. PICK u \in Sending : /\ u.batch = work[c] /\ u.file = f
                           /\ onWay' = onWay \cup {u}
  BY SendFileEffect
<1>4. UNCHANGED <<posted, uploads, declared>>
  BY SendFileEffect
<1>5. HoldsBatch(c)'
  BY <1>1, <1>2, <1>4, BusyHasBatch DEF HoldsBatch, Busy, RowsStay
<1>6. SentInOrder(c) /\ Hashed(c) \cap found[c] = {}
  BY <1>0, <1>1 DEF ClientInv, SentInOrder
<1>7. Hashed(c)' = Hashed(c) \cup {f}
  <2>1. <<f, disk[c][f]>>[1] = f
    OBVIOUS
  <2>2. \A g : (\E d \in hashes'[c] : d[1] = g) <=> (\E d \in hashes[c] : d[1] = g) \/ g = f
    BY <1>2, <2>1
  <2> QED BY <2>2 DEF Hashed
<1>8. ASSUME NEW g \in found[c]
      PROVE  disk'[c][g] # NoFile /\ (g \in Hashed(c)' \/ ~Sent(work[c], g)')
  <2>1. g \in Files /\ disk[c][g] # NoFile /\ ~Sent(work[c], g)
    BY <1>0, <1>1, <1>6, <1>8 DEF SentInOrder, MeshTypeOK
  <2>2. x # NoFile
    BY OrchestratorAssumption
  <2>3. disk'[c][g] # NoFile
    BY <1>0, <1>1, <2>1, <2>2 DEF MeshTypeOK
  <2>4. g # f => ~Sent(work[c], g)'
    BY <1>1, <1>3, <1>4, <2>1 DEF Sent
  <2> QED BY <1>7, <2>3, <2>4
<1>9. \A d \in hashes'[c] : d[1] \in found[c] \/ uploads[work[c]][d[1]] = "acked"
  BY <1>1, <1>2, <1>6 DEF SentInOrder
<1>10. \A d, e \in hashes'[c] : d[1] = e[1] => d = e
  <2>1. \A d \in hashes[c] : d[1] # f
    BY <1>1, <1>6 DEF Hashed
  <2> QED BY <1>1, <1>2, <1>6, <2>1 DEF SentInOrder
<1>11. \A g, h \in Hashed(c)' \cap found[c] : g = h
  BY <1>6, <1>7
<1>12. SentInOrder(c)'
  BY <1>1, <1>2, <1>4, <1>8, <1>9, <1>10, <1>11 DEF SentInOrder
<1> QED
  BY <1>2, <1>5, <1>12 DEF ClientInv, NothingSentYet

\* The upload that is waited for is done.
LEMMA SentOkKeeps ==
  ASSUME MeshInv, NEW w \in writing, SentOk(w), Awaits(w), Calm(w.client)
  PROVE  ClientInv(w.client)'
<1> DEFINE c == w.client
<1>1. /\ w \in UploadRequest /\ uploads[w.batch][w.file] # "no"
      /\ uploads' = [uploads EXCEPT ![w.batch][w.file] = "acked"]
      /\ UNCHANGED <<onWay, posted, declared, work, disk, hashes>>
  BY SentOkEffect
<1>2. c \in Clients /\ w.batch \in BatchIds /\ w.file \in Files
  BY <1>1 DEF UploadRequest
<1>3. /\ pc[c] = "sending" /\ work[c] = w.batch /\ w.file \in found[c]
      /\ pc' = [pc EXCEPT ![c] = "uploading"]
      /\ found' = [found EXCEPT ![c] = @ \ {w.file}]
  BY DEF SentOk, Awaits, Goto
<1>4. Calm(c)
  OBVIOUS
<1> HIDE DEF c
<1>0. ClientInv(c) /\ MeshTypeOK /\ TypeOK
  BY <1>2 DEF MeshInv
<1>5. pc'[c] = "uploading" /\ found'[c] = found[c] \ {w.file}
  BY <1>0, <1>2, <1>3 DEF MeshTypeOK
<1>6. HoldsBatch(c)'
  BY <1>1, <1>2, <1>3, <1>4, BusyHasBatch DEF HoldsBatch, Busy, Calm, RowsStay
<1>7. SentInOrder(c) /\ Sent(work[c], w.file)
  BY <1>0, <1>1, <1>3 DEF ClientInv, SentInOrder, Sent
<1>8. w.file \in Hashed(c)
  BY <1>3, <1>7 DEF SentInOrder
<1>9. Hashed(c)' = Hashed(c) /\ Hashed(c) \cap found[c] = {w.file}
  BY <1>1, <1>3, <1>7, <1>8 DEF Hashed, SentInOrder
<1>10. \A g \in found'[c] : disk'[c][g] # NoFile /\ ~Sent(work[c], g)'
  <2> SUFFICES ASSUME NEW g \in found'[c]
               PROVE  disk'[c][g] # NoFile /\ ~Sent(work[c], g)'
    OBVIOUS
  <2>1. g \in found[c] /\ g \in Files /\ g \notin Hashed(c)
    BY <1>0, <1>2, <1>5, <1>9 DEF MeshTypeOK
  <2>2. disk[c][g] # NoFile /\ ~Sent(work[c], g)
    BY <1>3, <1>7, <2>1 DEF SentInOrder
  <2>3. work[c] <= issued /\ assignee[work[c]] = c
    BY <1>2, <1>3, BusyHasBatch DEF Busy
  <2>4. Sent(work[c], g)' => Sent(work[c], g)
    BY <1>1, <1>2, <1>3, <1>4, <2>1, <2>3 DEF Calm, Sent
  <2> QED BY <1>1, <2>2, <2>4
<1>11. \A d \in hashes'[c] : uploads'[work[c]][d[1]] = "acked"
  <2> SUFFICES ASSUME NEW d \in hashes[c] PROVE uploads'[work[c]][d[1]] = "acked"
    BY <1>1
  <2>1. d[1] \in Hashed(c) /\ d[1] \in Files
    BY <1>0, <1>2 DEF Hashed, MeshTypeOK
  <2>2. CASE d[1] = w.file
    BY <1>0, <1>1, <1>2, <1>3, <2>2 DEF TypeOK
  <2>3. CASE d[1] # w.file
    <3>1. uploads[work[c]][d[1]] = "acked"
      BY <1>3, <1>7, <1>9, <2>1, <2>3 DEF SentInOrder
    <3> QED BY <1>0, <1>1, <1>2, <1>3, <2>1, <2>3, <3>1 DEF TypeOK
  <2> QED BY <2>2, <2>3
<1>12. SentInOrder(c)'
  BY <1>1, <1>3, <1>5, <1>7, <1>9, <1>10, <1>11 DEF SentInOrder, Sent
<1> QED
  BY <1>5, <1>6, <1>12 DEF ClientInv, NothingSentYet, c

\* An upload that raised is forgotten; without one nothing is.
LEMMA ForgetKeeps ==
  ASSUME MeshInv, NEW c \in Clients, Calm(c),
         pc[c] \in {"uploading", "sending"}, pc'[c] = "uploading",
         work'[c] = work[c], disk'[c] = disk[c],
         found'[c] = {f \in found[c] : ~\E d \in hashes[c] : d[1] = f},
         hashes'[c] = {d \in hashes[c] : d[1] \notin found[c]}
  PROVE  ClientInv(c)'
<1>0. SentInOrder(c) /\ MeshTypeOK
  BY DEF MeshInv, ClientInv
<1>1. /\ work[c] \in BatchIds /\ work[c] <= issued /\ assignee[work[c]] = c
      /\ declared[work[c]] = {} /\ posted[work[c]] = {}
  BY BusyHasBatch DEF Busy
<1>2. /\ declared'[work[c]] = {} /\ posted'[work[c]] = {}
      /\ \A f \in Files :
            /\ Sent(work[c], f)' => Sent(work[c], f)
            /\ uploads[work[c]][f] = "acked" => uploads'[work[c]][f] = "acked"
  BY <1>1 DEF Calm
<1>3. HoldsBatch(c)'
  BY <1>1, <1>2 DEF HoldsBatch, Calm, RowsStay
<1>4. \A f \in found'[c] : disk'[c][f] # NoFile /\ ~Sent(work[c], f)'
  <2> SUFFICES ASSUME NEW f \in found'[c]
               PROVE  disk'[c][f] # NoFile /\ ~Sent(work[c], f)'
    OBVIOUS
  <2>1. f \in found[c] /\ f \in Files /\ f \notin Hashed(c)
    BY <1>0 DEF MeshTypeOK, Hashed
  <2> QED BY <1>0, <1>2, <2>1 DEF SentInOrder
<1>5. \A d \in hashes'[c] : uploads'[work[c]][d[1]] = "acked" /\ d[1] \notin found[c]
  <2> SUFFICES ASSUME NEW d \in hashes'[c]
               PROVE  uploads'[work[c]][d[1]] = "acked" /\ d[1] \notin found[c]
    OBVIOUS
  <2>1. d \in hashes[c] /\ d[1] \notin found[c] /\ d[1] \in Files
    BY <1>0 DEF MeshTypeOK
  <2> QED BY <1>0, <1>2, <2>1 DEF SentInOrder
<1>6. Hashed(c)' \cap found'[c] = {}
  BY <1>5 DEF Hashed
<1>7. \A d, e \in hashes'[c] : d[1] = e[1] => d = e
  BY <1>0 DEF SentInOrder
<1>8. SentInOrder(c)'
  BY <1>4, <1>5, <1>6, <1>7 DEF SentInOrder, Sent
<1> QED
  BY <1>3, <1>8 DEF ClientInv, NothingSentYet

\* The server restarts: what was under way is given up on both sides.
LEMMA RestartKeeps ==
  ASSUME MeshInv, ServerRestart, NEW c \in Clients, Calm(c)
  PROVE  ClientInv(c)'
<1>0. ClientInv(c) /\ MeshTypeOK
  BY DEF MeshInv
<1>1. /\ pc'[c] = CASE pc[c] = "fetching" -> "crashed"
                    [] pc[c] = "sending" -> "uploading"
                    [] pc[c] = "submitting" -> "idle"
                    [] OTHER -> pc[c]
      /\ found'[c] = {f \in found[c] : ~\E d \in hashes[c] : d[1] = f}
      /\ hashes'[c] = {d \in hashes[c] : d[1] \notin found[c]}
      /\ UNCHANGED <<work, disk>>
  BY DEF ServerRestart
<1>2. CASE pc[c] \in {"sending", "uploading"}
  BY <1>1, <1>2, ForgetKeeps
<1>3. CASE pc[c] \in {"generating", "saving"}
  <2>1. pc'[c] = pc[c] /\ pc'[c] \notin {"uploading", "sending"}
    BY <1>1, <1>3
  <2>2. /\ work[c] \in BatchIds /\ work[c] <= issued /\ assignee[work[c]] = c
        /\ declared[work[c]] = {} /\ posted[work[c]] = {}
    BY <1>3, BusyHasBatch DEF Busy
  <2>3. HoldsBatch(c)'
    BY <1>1, <2>2 DEF HoldsBatch, Calm, RowsStay
  <2>4. NothingSentYet(c)'
    BY <1>0, <1>1, <1>3, <2>2 DEF ClientInv, NothingSentYet, Calm, Sent
  <2> QED BY <2>1, <2>3, <2>4 DEF ClientInv, SentInOrder
<1>4. CASE pc[c] \notin Busy
  BY <1>1, <1>4, AtRest DEF Busy
<1> QED
  BY <1>2, <1>3, <1>4 DEF Busy

LEMMA ClientsStep ==
  ASSUME MeshInv, [MeshNext]_meshVars, RowsStay, NEW c \in Clients
  PROVE  ClientInv(c)'
<1>0. MeshTypeOK /\ TypeOK
  BY DEF MeshInv
<1>1. ASSUME Calm(c), UNCHANGED program PROVE ClientInv(c)'
  BY <1>1, ClientFrame DEF program
<1>2. ASSUME NEW e \in Clients, NEW l, l \notin Busy, pc' = [pc EXCEPT ![e] = l],
             UNCHANGED <<work, disk, found, hashes>>, Calm(c)
      PROVE  ClientInv(c)'
  <2>1. CASE c = e
    <3>1. pc'[c] \notin Busy
      BY <1>0, <1>2, <2>1 DEF MeshTypeOK
    <3> QED BY <3>1, AtRest
  <2>2. CASE c # e
    <3>1. pc'[c] = pc[c]
      BY <1>0, <1>2, <2>2 DEF MeshTypeOK
    <3> QED BY <1>2, <3>1, ClientFrame
  <2> QED BY <2>1, <2>2
<1>3. ASSUME Submit(c) PROVE ClientInv(c)'
  <2>1. pc'[c] = "submitting"
    BY <1>0, <1>3 DEF Submit, Goto, MeshTypeOK
  <2> QED BY <2>1, AtRest DEF Busy
<1>4. ASSUME NEW f \in Files, NEW x \in Contents, SendFile(c, f, x) PROVE ClientInv(c)'
  BY <1>4, SendFileKeeps
<1> SUFFICES ASSUME ~Submit(c), ~\E f \in Files, x \in Contents : SendFile(c, f, x)
             PROVE  ClientInv(c)'
  BY <1>3, <1>4
<1>c. Calm(c)
  BY CalmStep
<1>5. ASSUME NEW e \in Clients,
             \/ Launch(e) \/ Fetch(e) \/ NoMoreTasks(e) \/ FetchRejected(e)
             \/ Submit(e) \/ SkipSubmit(e) \/ GivesUpSubmit(e) \/ Crash(e)
      PROVE  ClientInv(c)'
  <2>1. /\ UNCHANGED <<work, disk, found, hashes>>
        /\ pc' = pc \/ \E l : l \notin Busy /\ pc' = [pc EXCEPT ![e] = l]
    BY <1>5 DEF Launch, Fetch, NoMoreTasks, FetchRejected, Submit, SkipSubmit, GivesUpSubmit,
       Crash, Goto, Busy
  <2> QED BY <1>1, <1>2, <1>c, <2>1 DEF program
<1>6. ASSUME NEW b \in BatchIds, Submitted(b) \/ SubmitFailed(b)
      PROVE  ClientInv(c)'
  <2>1. /\ UNCHANGED <<work, disk, found, hashes>>
        /\ pc' = pc \/ pc' = [pc EXCEPT ![assignee[b]] = "idle"]
    BY <1>6 DEF Submitted, SubmitFailed, Goto
  <2>2. ASSUME pc' = [pc EXCEPT ![assignee[b]] = "idle"], c = assignee[b]
        PROVE  ClientInv(c)'
    <3>1. pc'[c] = "idle"
      BY <1>0, <2>2 DEF MeshTypeOK
    <3> QED BY <3>1, AtRest DEF Busy
  <2>3. ASSUME pc' = [pc EXCEPT ![assignee[b]] = "idle"], c # assignee[b]
        PROVE  pc'[c] = pc[c]
    BY <1>0, <2>3 DEF MeshTypeOK
  <2> QED BY <1>1, <1>c, <2>1, <2>2, <2>3, ClientFrame DEF program
<1>7. ASSUME NEW e \in Clients, Assigned(e) PROVE ClientInv(c)'
  <2>1. CASE c = e /\ pc[e] = "fetching"
    BY <1>7, <1>c, <2>1, AssignedKeeps
  <2>2. CASE ~(c = e /\ pc[e] = "fetching")
    <3>1. pc'[c] = pc[c] /\ work'[c] = work[c] /\ UNCHANGED <<disk, found, hashes>>
      BY <1>0, <1>7, <2>2 DEF Assigned, Goto, MeshTypeOK
    <3> QED BY <1>c, <3>1, ClientFrame
  <2> QED BY <2>1, <2>2
<1>8. ASSUME NEW e \in Clients,
             \/ Generate(e) \/ Collect(e)
             \/ \E f \in Files, x \in Contents : SendFile(e, f, x)
      PROVE  ClientInv(c)'
  <2>1. CASE c = e
    BY <1>8, <2>1, GenerateKeeps, CollectKeeps
  <2>2. CASE c # e
    <3>1. /\ work' = work
          /\ pc'[c] = pc[c] /\ disk'[c] = disk[c] /\ found'[c] = found[c] /\ hashes'[c] = hashes[c]
      BY <1>0, <1>8, <2>2 DEF Generate, Collect, SendFile, Goto, MeshTypeOK
    <3> QED BY <1>c, <3>1, ClientFrame
  <2> QED BY <2>1, <2>2
<1>9. ASSUME NEW e \in Clients, Forget(e), UNCHANGED <<work, disk>>, pc[e] = "sending"
      PROVE  ClientInv(c)'
  <2>1. CASE c = e
    <3>1. /\ pc'[c] = "uploading"
          /\ found'[c] = {f \in found[c] : ~\E d \in hashes[c] : d[1] = f}
          /\ hashes'[c] = {d \in hashes[c] : d[1] \notin found[c]}
      BY <1>0, <1>9, <2>1 DEF Forget, Goto, MeshTypeOK
    <3> QED BY <1>9, <1>c, <2>1, <3>1, ForgetKeeps
  <2>2. CASE c # e
    <3>1. pc'[c] = pc[c] /\ found'[c] = found[c] /\ hashes'[c] = hashes[c]
      BY <1>0, <1>9, <2>2 DEF Forget, Goto, MeshTypeOK
    <3> QED BY <1>9, <1>c, <3>1, ClientFrame
  <2> QED BY <2>1, <2>2
<1>10. ASSUME NEW e \in Clients, GivesUpUpload(e) PROVE ClientInv(c)'
  BY <1>9, <1>10 DEF GivesUpUpload
<1>11. ASSUME NEW w \in writing, SentFailed(w) PROVE ClientInv(c)'
  <2>1. w.client \in Clients
    BY <1>0 DEF TypeOK, UploadRequest
  <2>2. UNCHANGED program \/ (Forget(w.client) /\ pc[w.client] = "sending")
    BY <1>11 DEF SentFailed, Awaits, program
  <2> QED BY <1>1, <1>9, <1>11, <1>c, <2>1, <2>2 DEF SentFailed
<1>12. ASSUME NEW w \in writing, SentOk(w) PROVE ClientInv(c)'
  <2>1. CASE c = w.client /\ Awaits(w)
    BY <1>12, <1>c, <2>1, SentOkKeeps
  <2>2. CASE ~(c = w.client /\ Awaits(w))
    <3>1. /\ pc'[c] = pc[c] /\ found'[c] = found[c]
          /\ UNCHANGED <<work, disk, hashes>>
      BY <1>0, <1>12, <2>2 DEF SentOk, Goto, MeshTypeOK
    <3> QED BY <1>c, <3>1, ClientFrame
  <2> QED BY <2>1, <2>2
<1>13. CASE ServerRestart
  BY <1>13, <1>c, RestartKeeps
<1>14. ASSUME \/ \E e \in Clients : Beat(e) \/ Silence(e) \/ FetchArrives(e) \/ FetchLost(e)
              \/ \E u \in onWay : UploadArrives(u) \/ UploadLost(u)
              \/ \E w \in writing : LooksUp(w)
              \/ \E b \in BatchIds : SubmitArrives(b) \/ SubmitLost(b)
              \/ Sweep
              \/ UNCHANGED meshVars
       PROVE  ClientInv(c)'
  <2>1. UNCHANGED program
    BY <1>14 DEF Beat, Silence, FetchArrives, FetchLost, UploadArrives, UploadLost, LooksUp,
       SubmitArrives, SubmitLost, Sweep, meshVars, program
  <2> QED BY <1>1, <1>c, <2>1
<1> QED
  BY <1>5, <1>6, <1>7, <1>8, <1>10, <1>11, <1>12, <1>13, <1>14 DEF MeshNext, ClientStep

-----------------------------------------------------------------------------
(* Theorems *)

LEMMA MeshInitInv == MeshInit => MeshInv
<1> SUFFICES ASSUME MeshInit
             PROVE  MeshInv
  OBVIOUS
<1>1. TypeOK /\ BookInv
  BY InitType, InitBook DEF MeshInit
<1>2. MeshTypeOK
  BY OrchestratorAssumption DEF MeshInit, MeshTypeOK, Gone
<1>3. RowsFilled /\ UploadsInv /\ AskedInv /\ PostedInv
  BY DEF MeshInit, Init, RowsFilled, UploadsInv, AskedInv, PostedInv, BatchIds
<1>4. ASSUME NEW c \in Clients PROVE ClientInv(c)
  BY DEF MeshInit, ClientInv, HoldsBatch, NothingSentYet, SentInOrder, Busy
<1> QED
  BY <1>1, <1>2, <1>3, <1>4 DEF MeshInv

LEMMA MeshNextInv == MeshInv /\ [MeshNext]_meshVars => MeshInv'
<1> SUFFICES ASSUME MeshInv, [MeshNext]_meshVars
             PROVE  MeshInv'
  OBVIOUS
<1>1. [Next]_vars /\ RowsStay
  BY MeshStepsAreServerSteps, RowsAreKept
<1>2. TypeOK' /\ BookInv'
  BY <1>1, NextType, NextBook DEF MeshInv
<1>3. MeshTypeOK' /\ RowsFilled' /\ UploadsInv' /\ AskedInv' /\ PostedInv'
  BY <1>1, MeshTypeStep, RowsStep, UploadsStep, AskedStep, PostedStep
<1>4. \A c \in Clients : ClientInv(c)'
  BY <1>1, ClientsStep
<1> QED
  BY <1>2, <1>3, <1>4 DEF MeshInv

LEMMA MeshInvHolds == MeshSpec => []MeshInv
  BY MeshInitInv, MeshNextInv, PTL DEF MeshSpec

\* The locals of the client programs and the requests under way always hold values
\* of their types; in particular what is submitted is pairs of a file and a content
\* that was there.
THEOREM MeshTypeCorrect == MeshSpec => []MeshTypeOK
<1>1. MeshInv => MeshTypeOK
  BY DEF MeshInv
<1> QED
  BY <1>1, MeshInvHolds, PTL

\* Whatever request may still arrive is one the Orchestrator relies on, also one its
\* client gave up on before it went to the next file, the submission or the next
\* batch, or left behind when it crashed (run_work_loop and _upload_and_submit in
\* client/work_loop.py, upload_file in client/uploader.py).
THEOREM ClientsMeetTheContract == MeshSpec => []ClientMeetsContract
  BY ContractFromInv, MeshInvHolds, PTL

\* So the composition implements the Orchestrator: every step of the programs, of
\* their requests and of the server is one of its steps, or invisible to it, although
\* handlers go on after their clients did.
THEOREM MeshImplementsOrchestrator == MeshSpec => Spec
<1>1. MeshInit => Init
  BY DEF MeshInit
<1> QED
  BY <1>1, MeshInvHolds, MeshStepsAreServerSteps, PTL DEF MeshSpec, Spec

\* What was proved of the Orchestrator therefore holds of the composition: its
\* rows are backed, a region is not assigned more often than one request of each
\* client can explain, and so on.
THEOREM MeshIsBounded == MeshSpec => []OverAssignmentBound
  BY MeshImplementsOrchestrator, OverAssignmentIsBounded, PTL

\* Likewise a batch is not counted as done without evidence, late uploads and
\* submissions that nobody waits for any more included.
THEOREM MeshDoneIsBacked == MeshSpec => []DoneIsBacked
  BY MeshImplementsOrchestrator, DoneBatchesAreBacked, PTL

=============================================================================
