------------------------- MODULE OrchestratorProofs -------------------------
(***************************************************************************)
(* Proofs about Orchestrator: type correctness, the inductive invariant    *)
(* behind its safety invariants, and that it implements BatchLifecycle and *)
(* RegionFiles, for every set of clients, regions and contents and every   *)
(* bound on the batches.                                                   *)
(***************************************************************************)
EXTENDS Orchestrator, FiniteSetTheorems, TLAPS

USE OrchestratorAssumption

LEMMA InitType == Init => TypeOK
  BY DEF Init, TypeOK, BatchIds, Statuses, InProgress, Passed, Files, SweepIdle,
         UploadRequest

\* The three ways a submission ends: rejected, completed, or paired with the
\* batch that awaited its double.
LEMMA FinishOutcome ==
  ASSUME TypeOK, NEW b \in BatchIds, FinishSubmit(b)
  PROVE  \/ /\ verdict[b] = "invalid"
            /\ status' = [status EXCEPT ![b] = "hash_error"]
            /\ retries' = retries
         \/ /\ verdict[b] = "valid"
            /\ ~Verification \/ Doubles(b) = {}
            /\ status' = [status EXCEPT ![b] = "completed"]
            /\ retries' = retries
         \/ \E o \in BatchIds :
              /\ verdict[b] = "valid"
              /\ Verification
              /\ o # b /\ region[o] = region[b] /\ status[o] = "completed"
              /\ \/ /\ StoredAgrees(b)
                    /\ status' = SetBoth(b, o, "validated")
                    /\ retries' = retries
                 \/ /\ ~StoredAgrees(b)
                    /\ status' = SetBoth(b, o, "hash_error")
                    /\ retries' = [p \in BatchIds |->
                        IF p \in {b, o} THEN retries[p] + 1 ELSE retries[p]]
  BY Zenon DEF FinishSubmit, Doubles

LEMMA NextType == TypeOK /\ [Next]_vars => TypeOK'
<1> SUFFICES ASSUME TypeOK, [Next]_vars PROVE TypeOK'
  OBVIOUS
<1> USE DEF TypeOK, batchRow, files, submits, Statuses, InProgress, Passed, Files
<1>1. ASSUME NEW c \in Clients, Login(c) PROVE TypeOK'
  BY <1>1 DEF Login
<1>2. ASSUME NEW c \in Clients, Heartbeat(c) PROVE TypeOK'
  BY <1>2 DEF Heartbeat
<1>3. ASSUME NEW c \in Clients, Expire(c) PROVE TypeOK'
  BY <1>3 DEF Expire
<1>4. ASSUME NEW c \in Clients, SelectTask(c) PROVE TypeOK'
  BY <1>4 DEF SelectTask, Nearest, Available
<1>5. ASSUME NEW c \in Clients, InsertBatch(c) PROVE TypeOK'
  BY <1>5 DEF InsertBatch, BatchIds
<1>6. ASSUME NEW c \in Clients, AbortAssignment(c) PROVE TypeOK'
  BY <1>6 DEF AbortAssignment
<1>7. ASSUME NEW c \in Clients, NEW b \in BatchIds, NEW f \in Files, NEW x \in Contents,
             ReceiveUpload(c, b, f, x)
      PROVE  TypeOK'
  BY <1>7 DEF ReceiveUpload, WriteMca, UploadRequest
<1>8. ASSUME NEW w \in writing, LookUpRow(w) \/ FailUpload(w) PROVE TypeOK'
  <2>1. CASE LookUpRow(w)
    BY <2>1 DEF LookUpRow, UploadRequest
  <2>2. CASE FailUpload(w)
    BY <2>2 DEF FailUpload
  <2>3. QED
    BY <1>8, <2>1, <2>2
<1>9. ASSUME NEW w \in writing, RecordUpload(w) PROVE TypeOK'
  <2>1. w \in UploadRequest
    OBVIOUS
  <2>2. rows' \in [BatchIds -> SUBSET (Files \X Contents)]
    BY <1>9, <2>1 DEF RecordUpload, UploadRequest
  <2>3. status' \in [BatchIds -> Statuses]
    BY <1>9, <2>1 DEF RecordUpload, AfterUpload, UploadRequest
  <2>4. QED
    BY <1>9, <2>1, <2>2, <2>3 DEF RecordUpload, UploadRequest
<1>10. ASSUME NEW c \in Clients, NEW b \in BatchIds, NEW D \in Declarations(b),
              CheckHashes(c, b, D)
       PROVE  TypeOK'
  <2>1. D \in SUBSET (Files \X Contents)
    BY DEF Declarations
  <2>2. QED
    BY <1>10, <2>1 DEF CheckHashes
<1>11. ASSUME NEW b \in BatchIds, FinishSubmit(b) PROVE TypeOK'
  <2>1. /\ verdict' \in [BatchIds -> {"none", "valid", "invalid"}]
        /\ UNCHANGED <<issued, region, owner, assignee, files, declared, seen, picked, sweep>>
    BY <1>11 DEF FinishSubmit
  <2>2. status' \in [BatchIds -> Statuses] /\ retries' \in [BatchIds -> Nat]
    <3>0. PICK o \in BatchIds :
             \/ status' = [status EXCEPT ![b] = "hash_error"] /\ retries' = retries
             \/ status' = [status EXCEPT ![b] = "completed"] /\ retries' = retries
             \/ /\ status' = SetBoth(b, o, "validated")
                /\ retries' = retries
             \/ /\ status' = SetBoth(b, o, "hash_error")
                /\ retries' = [p \in BatchIds |->
                        IF p \in {b, o} THEN retries[p] + 1 ELSE retries[p]]
      BY <1>11, FinishOutcome
    <3>1. CASE status' = [status EXCEPT ![b] = "hash_error"] /\ retries' = retries
      BY <3>1
    <3>2. CASE status' = [status EXCEPT ![b] = "completed"] /\ retries' = retries
      BY <3>2
    <3>3. CASE /\ status' = SetBoth(b, o, "validated")
               /\ retries' = retries
      BY <3>3 DEF SetBoth
    <3>4. CASE /\ status' = SetBoth(b, o, "hash_error")
               /\ retries' = [p \in BatchIds |->
                        IF p \in {b, o} THEN retries[p] + 1 ELSE retries[p]]
      BY <3>4 DEF SetBoth
    <3>5. QED
      BY Zenon, <3>0, <3>1, <3>2, <3>3, <3>4
  <2>3. QED
    BY <2>1, <2>2
<1>12. CASE SweepScan
  BY <1>12 DEF SweepScan
<1>13. ASSUME NEW c \in Clients, SweepRead(c) PROVE TypeOK'
  BY <1>13 DEF SweepRead, Stuck
<1>14. CASE SweepCommit
  BY <1>14 DEF SweepCommit, Unassigned, SweepIdle
<1>15. CASE Restart
  BY <1>15 DEF Restart, SweepIdle
<1>16. ASSUME NEW b \in BatchIds, FailSubmit(b) PROVE TypeOK'
  BY <1>16 DEF FailSubmit
<1>17. CASE UNCHANGED vars
  BY <1>17 DEF vars
<1> QED
  BY <1>1, <1>2, <1>3, <1>4, <1>5, <1>6, <1>7, <1>8, <1>9, <1>10, <1>11, <1>12,
     <1>13, <1>14, <1>15, <1>16, <1>17 DEF Next

\* The server's rows, files and request slots always hold values of their types.
THEOREM TypeCorrect == Spec => []TypeOK
  BY InitType, NextType, PTL DEF Spec

-----------------------------------------------------------------------------
(* The bookkeeping invariant *)

BookInv == Bookkeeping /\ InProgressIsOwned /\ RetriedIsClosed

LEMMA InitBook == Init => BookInv
  BY DEF Init, BookInv, Bookkeeping, InProgressIsOwned, RetriedIsClosed, BatchIds,
         InProgress, Passed, SweepIdle

LEMMA NextBook == TypeOK /\ BookInv /\ [Next]_vars => BookInv'
<1> SUFFICES ASSUME TypeOK, BookInv, [Next]_vars PROVE BookInv'
  OBVIOUS
<1> USE DEF BookInv, Bookkeeping, InProgressIsOwned, RetriedIsClosed,
            batchRow, files, submits, InProgress, Passed
<1>1. ASSUME UNCHANGED <<batchRow, status, submits>>,
             sweep' = sweep \/ sweep'.stuck = {}
      PROVE  BookInv'
  BY <1>1 DEF TypeOK
<1>2. ASSUME NEW c \in Clients,
             Login(c) \/ Heartbeat(c) \/ Expire(c) \/ SelectTask(c) \/ AbortAssignment(c)
      PROVE  BookInv'
  BY <1>1, <1>2 DEF Login, Heartbeat, Expire, SelectTask, AbortAssignment
<1>3. ASSUME NEW c \in Clients, InsertBatch(c) PROVE BookInv'
  BY <1>3 DEF InsertBatch, TypeOK, BatchIds
<1>4. ASSUME NEW c \in Clients, NEW b \in BatchIds, NEW f \in Files, NEW x \in Contents,
             ReceiveUpload(c, b, f, x)
      PROVE  BookInv'
  BY <1>1, <1>4 DEF ReceiveUpload
<1>5. ASSUME NEW w \in writing, RecordUpload(w) PROVE BookInv'
  BY <1>5 DEF RecordUpload, AfterUpload, TypeOK, UploadRequest, Statuses
<1>6. ASSUME NEW w \in writing, LookUpRow(w) \/ FailUpload(w) PROVE BookInv'
  BY <1>1, <1>6 DEF LookUpRow, FailUpload
<1>7. ASSUME NEW c \in Clients, NEW b \in BatchIds, NEW D \in Declarations(b),
             CheckHashes(c, b, D)
      PROVE  BookInv'
  <2>1. D # {}
    BY DEF Declarations
  <2>2. /\ b <= issued /\ retries[b] = 0
        /\ status[b] \in InProgress \cup {"pending"}
    BY <1>7 DEF CheckHashes, Issued, TypeOK, Statuses, BatchIds
  <2>3. /\ declared' = [declared EXCEPT ![b] = D]
        /\ verdict' = [verdict EXCEPT ![b] = verdict'[b]]
        /\ UNCHANGED <<batchRow, status, sweep>>
    BY <1>7 DEF CheckHashes, TypeOK
  <2>4. QED
    BY <2>1, <2>2, <2>3 DEF TypeOK, BatchIds
<1>8. ASSUME NEW b \in BatchIds, FinishSubmit(b) PROVE BookInv'
  <2>1. /\ verdict' = [verdict EXCEPT ![b] = "none"]
        /\ UNCHANGED <<issued, owner, assignee, declared, sweep>>
        /\ b <= issued /\ declared[b] # {} /\ retries[b] = 0
    BY <1>8 DEF FinishSubmit, TypeOK, BatchIds
  <2>2. PICK o \in BatchIds :
           \/ status' = [status EXCEPT ![b] = "hash_error"] /\ retries' = retries
           \/ status' = [status EXCEPT ![b] = "completed"] /\ retries' = retries
           \/ /\ status[o] = "completed"
              /\ status' = SetBoth(b, o, "validated")
              /\ retries' = retries
           \/ /\ status[o] = "completed"
              /\ status' = SetBoth(b, o, "hash_error")
              /\ retries' = [p \in BatchIds |->
                                IF p \in {b, o} THEN retries[p] + 1 ELSE retries[p]]
    BY <1>8, FinishOutcome
  <2>3. CASE status' = [status EXCEPT ![b] = "hash_error"] /\ retries' = retries
    BY <2>1, <2>3 DEF TypeOK, BatchIds
  <2>4. CASE status' = [status EXCEPT ![b] = "completed"] /\ retries' = retries
    BY <2>1, <2>4 DEF TypeOK, BatchIds
  <2>5. CASE /\ status[o] = "completed"
             /\ status' = SetBoth(b, o, "validated")
             /\ retries' = retries
    BY <2>1, <2>5 DEF TypeOK, BatchIds, SetBoth
  <2>6. CASE /\ status[o] = "completed"
             /\ status' = SetBoth(b, o, "hash_error")
             /\ retries' = [p \in BatchIds |->
                               IF p \in {b, o} THEN retries[p] + 1 ELSE retries[p]]
    <3>0. retries[o] \in Nat /\ o \in Int /\ issued \in Int
      BY DEF TypeOK, BatchIds
    <3>1. /\ retries[o] = 0
          /\ declared[o] # {}
          /\ verdict[o] = "none"
          /\ o <= issued
      <4>1. retries[o] = 0
        BY <2>6, <3>0
      <4>2. declared[o] # {}
        BY <2>6
      <4>3. verdict[o] = "none"
        BY <2>6
      <4>4. o <= issued
        BY <2>6, <3>0
      <4>5. QED
        BY <4>1, <4>2, <4>3, <4>4
    <3>2. \A p \in BatchIds : retries'[p] = IF p \in {b, o} THEN 1 ELSE retries[p]
      BY <2>1, <2>6, <3>1
    <3>3. \A p \in BatchIds : status'[p] = IF p \in {b, o} THEN "hash_error" ELSE status[p]
      BY <2>6 DEF SetBoth
    <3>4. \A p \in BatchIds : verdict'[p] = IF p = b THEN "none" ELSE verdict[p]
      BY <2>1 DEF TypeOK
    <3>5. Bookkeeping'
      BY <2>1, <3>1, <3>2, <3>3, <3>4 DEF TypeOK, BatchIds
    <3>6. InProgressIsOwned' /\ RetriedIsClosed'
      BY <2>1, <3>2, <3>3 DEF TypeOK
    <3>7. QED
      BY <3>5, <3>6
  <2>7. QED
    BY Zenon, <2>2, <2>3, <2>4, <2>5, <2>6
<1>9. CASE SweepScan
  BY <1>9 DEF SweepScan, TypeOK, SweepIdle
<1>10. ASSUME NEW c \in Clients, SweepRead(c) PROVE BookInv'
  BY <1>10 DEF SweepRead, Stuck, TypeOK, BatchIds
<1>11. CASE SweepCommit
  BY <1>11 DEF SweepCommit, Unassigned, SweepIdle, Stuck, TypeOK, BatchIds
<1>12. CASE Restart
  BY <1>12 DEF Restart, SweepIdle, TypeOK
<1>13. ASSUME NEW b \in BatchIds, FailSubmit(b) PROVE BookInv'
  BY <1>13 DEF FailSubmit, TypeOK
<1>14. CASE UNCHANGED vars
  BY <1>1, <1>14 DEF vars
<1> QED
  BY <1>2, <1>3, <1>4, <1>5, <1>6, <1>7, <1>8, <1>9, <1>10, <1>11, <1>12, <1>13, <1>14
  DEF Next

\* The bookkeeping of the rows is right, a batch in progress is owned by the
\* client that received it and one taken back by nobody, and a batch counted as
\* retried is closed.
THEOREM BookkeepingHolds == Spec => [](Bookkeeping /\ InProgressIsOwned /\ RetriedIsClosed)
<1>1. Init /\ [][Next]_vars => []BookInv
  BY InitType, NextType, InitBook, NextBook, PTL
<1>2. BookInv => Bookkeeping /\ InProgressIsOwned /\ RetriedIsClosed
  BY DEF BookInv
<1>3. QED
  BY <1>1, <1>2, PTL DEF Spec

-----------------------------------------------------------------------------
(* What never changes once it is there *)

\* A stored region file keeps its content.
LEMMA StoredKept ==
  ASSUME TypeOK, [Next]_vars, NEW f \in Files, stored[f] # NoFile
  PROVE  stored'[f] = stored[f]
<1>1. ASSUME NEW c \in Clients, NEW b \in BatchIds, NEW g \in Files, NEW x \in Contents,
             ReceiveUpload(c, b, g, x)
      PROVE  stored'[f] = stored[f]
  BY <1>1 DEF ReceiveUpload, WriteMca, TypeOK
<1>2. CASE stored' = stored
  BY <1>2
<1>3. QED
  BY <1>1, <1>2 DEF Next, vars, batchRow, files, submits, Login, Heartbeat, Expire,
     SelectTask, InsertBatch, AbortAssignment, RecordUpload, LookUpRow, FailUpload,
     FailSubmit, CheckHashes, FinishSubmit, SweepScan, SweepRead, SweepCommit, Restart

\* Validation rows are only added.
LEMMA RowsKept ==
  ASSUME TypeOK, [Next]_vars, NEW b \in BatchIds
  PROVE  rows[b] \subseteq rows'[b]
<1>1. ASSUME NEW w \in writing, RecordUpload(w)
      PROVE  rows[b] \subseteq rows'[b]
  BY <1>1 DEF RecordUpload, AfterUpload, UploadRequest, TypeOK
<1>2. CASE rows' = rows
  BY <1>2
<1>3. QED
  BY <1>1, <1>2 DEF Next, vars, batchRow, files, submits, Login, Heartbeat, Expire,
     SelectTask, InsertBatch, AbortAssignment, ReceiveUpload, LookUpRow, FailUpload,
     FailSubmit, CheckHashes, FinishSubmit, SweepScan, SweepRead, SweepCommit, Restart

\* What was declared for a batch is not declared again.
LEMMA DeclaredKept ==
  ASSUME TypeOK, [Next]_vars, NEW b \in BatchIds, declared[b] # {}
  PROVE  declared'[b] = declared[b]
<1>1. ASSUME NEW c \in Clients, NEW e \in BatchIds, NEW D \in Declarations(e),
             CheckHashes(c, e, D)
      PROVE  declared'[b] = declared[b]
  BY <1>1 DEF CheckHashes, TypeOK
<1>2. CASE declared' = declared
  BY <1>2
<1>3. QED
  BY <1>1, <1>2 DEF Next, vars, batchRow, files, submits, Login, Heartbeat, Expire,
     SelectTask, InsertBatch, AbortAssignment, ReceiveUpload, RecordUpload, LookUpRow,
     FailUpload, FailSubmit, FinishSubmit, SweepScan, SweepRead, SweepCommit, Restart

\* A batch row keeps its region.
LEMMA RegionKept ==
  ASSUME TypeOK, [Next]_vars, NEW b \in BatchIds, b <= issued
  PROVE  region'[b] = region[b]
<1>1. ASSUME NEW c \in Clients, InsertBatch(c)
      PROVE  region'[b] = region[b]
  BY <1>1 DEF InsertBatch, TypeOK, BatchIds
<1>2. CASE region' = region
  BY <1>2
<1>3. QED
  BY <1>1, <1>2 DEF Next, vars, batchRow, files, submits, Login, Heartbeat, Expire,
     SelectTask, AbortAssignment, ReceiveUpload, RecordUpload, LookUpRow, FailUpload,
     FailSubmit, CheckHashes, FinishSubmit, SweepScan, SweepRead, SweepCommit, Restart

\* Hence evidence for a declaration is never lost.
LEMMA EvidenceKept ==
  ASSUME TypeOK, [Next]_vars, NEW b \in BatchIds, declared[b] # {}
  PROVE  /\ Backed(b) => Backed(b)'
         /\ InStore(b) => InStore(b)'
<1>1. declared'[b] = declared[b]
  BY DeclaredKept
<1>2. \A d \in declared[b] : d[1] \in Files /\ d[2] # NoFile
  BY DEF TypeOK
<1>3. \A d \in declared[b] : stored[d[1]] = d[2] => stored'[d[1]] = d[2]
  BY <1>2, StoredKept
<1>4. rows[b] \subseteq rows'[b]
  BY RowsKept
<1>5. QED
  BY <1>1, <1>3, <1>4 DEF Backed, InStore

-----------------------------------------------------------------------------
(* Done batches are backed *)

ValidIsBacked == \A b \in BatchIds : verdict[b] = "valid" => Backed(b)

EvidenceInv == ValidIsBacked /\ DoneIsBacked

\* Only CheckHashes gives a verdict, and a valid one says what was declared is
\* backed.
LEMMA VerdictStep ==
  ASSUME TypeOK, [Next]_vars, NEW b \in BatchIds, verdict'[b] = "valid"
  PROVE  verdict[b] = "valid" \/ Backed(b)'
<1>1. ASSUME NEW c \in Clients, NEW e \in BatchIds, NEW D \in Declarations(e),
             CheckHashes(c, e, D), e = b
      PROVE  Backed(b)'
  <2>1. PICK actual \in [D -> Contents \cup {NoFile}] :
          /\ \A d \in D : actual[d] \in ActualHashes(b, d[1])
          /\ verdict' = [verdict EXCEPT ![b] =
                            IF AllValid(D, actual) THEN "valid" ELSE "invalid"]
    BY <1>1 DEF CheckHashes
  <2>2. \A d \in D : actual[d] = d[2]
    BY <2>1 DEF TypeOK, AllValid
  <2>3. declared'[b] = D /\ stored' = stored /\ rows' = rows
    BY <1>1 DEF CheckHashes, TypeOK, files
  <2>4. ASSUME NEW d \in D
        PROVE  d \in rows[b] \/ stored[d[1]] = d[2]
    <3>1. d \in Files \X Contents
      BY DEF Declarations
    <3>2. d[2] \in ActualHashes(b, d[1])
      BY <2>1, <2>2
    <3>3. rows[b] \subseteq Files \X Contents
      BY DEF TypeOK
    <3>4. (\E row \in rows[b] : row[1] = d[1] /\ row[2] = d[2]) \/ stored[d[1]] = d[2]
      BY <3>2 DEF ActualHashes
    <3>5. QED
      BY <3>1, <3>3, <3>4
  <2>5. QED
    BY <2>3, <2>4 DEF Backed
<1>2. ASSUME NEW c \in Clients, NEW e \in BatchIds, NEW D \in Declarations(e),
             CheckHashes(c, e, D), e # b
      PROVE  verdict'[b] = verdict[b]
  BY <1>2 DEF CheckHashes, TypeOK
<1>3. ASSUME NEW e \in BatchIds, FinishSubmit(e) \/ FailSubmit(e)
      PROVE  verdict[b] = "valid"
  BY <1>3 DEF FinishSubmit, FailSubmit, TypeOK
<1>4. CASE verdict' = verdict
  BY <1>4
<1>5. CASE Restart
  BY <1>5 DEF Restart
<1>6. QED
  BY <1>1, <1>2, <1>3, <1>4, <1>5 DEF Next, vars, batchRow, files, submits, Login,
     Heartbeat, Expire, SelectTask, InsertBatch, AbortAssignment, ReceiveUpload,
     RecordUpload, LookUpRow, FailUpload, FailSubmit, SweepScan, SweepRead, SweepCommit

\* A batch becomes done only by its own valid submission; its double was done
\* before.
LEMMA PassedStep ==
  ASSUME TypeOK, [Next]_vars, NEW b \in BatchIds, status'[b] \in Passed
  PROVE  status[b] \in Passed \/ verdict[b] = "valid"
<1>1. ASSUME NEW e \in BatchIds, FinishSubmit(e)
      PROVE  status[b] \in Passed \/ verdict[b] = "valid"
  <2>1. PICK o \in BatchIds :
           \/ status' = [status EXCEPT ![e] = "hash_error"]
           \/ verdict[e] = "valid" /\ status' = [status EXCEPT ![e] = "completed"]
           \/ /\ verdict[e] = "valid" /\ status[o] = "completed"
              /\ status' = SetBoth(e, o, "validated")
           \/ status' = SetBoth(e, o, "hash_error")
    BY <1>1, FinishOutcome
  <2>2. QED
    BY <2>1 DEF SetBoth, Passed, TypeOK
<1>2. ASSUME NEW c \in Clients, InsertBatch(c) PROVE status[b] \in Passed
  BY <1>2 DEF InsertBatch, TypeOK, BatchIds, Passed
<1>3. ASSUME NEW w \in writing, RecordUpload(w) PROVE status[b] \in Passed
  BY <1>3 DEF RecordUpload, AfterUpload, UploadRequest, TypeOK, Passed
<1>4. CASE SweepCommit
  BY <1>4 DEF SweepCommit, Unassigned, Passed
<1>5. CASE status' = status
  BY <1>5
<1>6. QED
  BY <1>1, <1>2, <1>3, <1>4, <1>5 DEF Next, vars, batchRow, files, submits, Login,
     Heartbeat, Expire, SelectTask, AbortAssignment, ReceiveUpload, LookUpRow, FailUpload,
     FailSubmit, CheckHashes, SweepScan, SweepRead, Restart

LEMMA InitEvidence == Init => EvidenceInv
  BY DEF Init, EvidenceInv, ValidIsBacked, DoneIsBacked, Passed

LEMMA NextEvidence == TypeOK /\ BookInv /\ EvidenceInv /\ [Next]_vars => EvidenceInv'
<1> SUFFICES ASSUME TypeOK, BookInv, EvidenceInv, [Next]_vars PROVE EvidenceInv'
  OBVIOUS
<1>1. ASSUME NEW b \in BatchIds, verdict[b] = "valid"
      PROVE  declared[b] # {} /\ Backed(b)
  BY <1>1 DEF BookInv, Bookkeeping, EvidenceInv, ValidIsBacked
<1>2. ASSUME NEW b \in BatchIds, status[b] \in Passed
      PROVE  declared[b] # {} /\ Backed(b)
  BY <1>2 DEF EvidenceInv, DoneIsBacked
<1>3. ASSUME NEW b \in BatchIds, verdict'[b] = "valid"
      PROVE  Backed(b)'
  BY <1>1, <1>3, VerdictStep, EvidenceKept
<1>4. ASSUME NEW b \in BatchIds, status'[b] \in Passed
      PROVE  declared'[b] # {} /\ Backed(b)'
  <2>1. declared[b] # {} /\ Backed(b)
    BY <1>1, <1>2, <1>4, PassedStep
  <2>2. QED
    BY <2>1, DeclaredKept, EvidenceKept
<1>5. QED
  BY <1>3, <1>4 DEF EvidenceInv, ValidIsBacked, DoneIsBacked

\* A batch counted as done was submitted, and every hash it declared stays
\* backed by a validation row or the stored file.
THEOREM DoneBatchesAreBacked == Spec => []DoneIsBacked
<1>1. Init /\ [][Next]_vars => []EvidenceInv
  BY InitType, NextType, InitBook, NextBook, InitEvidence, NextEvidence, PTL
<1>2. EvidenceInv => DoneIsBacked
  BY DEF EvidenceInv
<1>3. QED
  BY <1>1, <1>2, PTL DEF Spec

-----------------------------------------------------------------------------
(* Double generation *)

DoubleInv == OneAwaitsDouble /\ ValidatedHasDouble

\* Apart from a concluding submission no step makes a batch completed or validated.
LEMMA OnlySubmissionConcludes ==
  ASSUME TypeOK, [Next]_vars, ~\E e \in BatchIds : FinishSubmit(e), NEW b \in BatchIds,
         status'[b] \in {"completed", "validated"}
  PROVE  status[b] = status'[b]
<1>1. ASSUME NEW c \in Clients, InsertBatch(c) PROVE status[b] = status'[b]
  BY <1>1 DEF InsertBatch, TypeOK, BatchIds
<1>2. ASSUME NEW w \in writing, RecordUpload(w) PROVE status[b] = status'[b]
  BY <1>2 DEF RecordUpload, AfterUpload, UploadRequest, TypeOK
<1>3. CASE SweepCommit
  BY <1>3 DEF SweepCommit, Unassigned
<1>4. CASE status' = status
  BY <1>4
<1>5. QED
  BY <1>1, <1>2, <1>3, <1>4 DEF Next, vars, batchRow, files, submits, Login, Heartbeat,
     Expire, SelectTask, AbortAssignment, ReceiveUpload, LookUpRow, FailUpload, FailSubmit,
     CheckHashes, SweepScan, SweepRead, Restart

LEMMA FinishDouble ==
  ASSUME TypeOK, BookInv, DoubleInv, NEW e \in BatchIds, FinishSubmit(e)
  PROVE  DoubleInv'
<1>1. UNCHANGED <<region, declared, stored>>
  BY DEF FinishSubmit, files
<1>2. \A b \in BatchIds : InStore(b)' <=> InStore(b)
  BY <1>1 DEF InStore
<1>3. CASE status' = [status EXCEPT ![e] = "hash_error"]
  BY <1>1, <1>2, <1>3 DEF DoubleInv, OneAwaitsDouble, ValidatedHasDouble, TypeOK
<1>4. CASE /\ ~Verification \/ Doubles(e) = {}
           /\ status' = [status EXCEPT ![e] = "completed"]
  <2>1. Verification => \A o \in BatchIds :
            o # e /\ region[o] = region[e] => status[o] # "completed"
    BY <1>4 DEF Doubles
  <2>2. \A b \in BatchIds : status'[b] = IF b = e THEN "completed" ELSE status[b]
    BY <1>4 DEF TypeOK
  <2>3. OneAwaitsDouble'
    BY <1>1, <2>1, <2>2 DEF DoubleInv, OneAwaitsDouble
  <2>4. ValidatedHasDouble'
    BY <1>1, <1>2, <2>2 DEF DoubleInv, ValidatedHasDouble
  <2>5. QED
    BY <2>3, <2>4 DEF DoubleInv
<1>5. ASSUME NEW o \in BatchIds, Verification, o # e, region[o] = region[e],
             status[o] = "completed", StoredAgrees(e),
             status' = SetBoth(e, o, "validated")
      PROVE  DoubleInv'
  <2>1. \A b \in BatchIds : status'[b] = IF b \in {e, o} THEN "validated" ELSE status[b]
    BY <1>5 DEF SetBoth
  <2>2. declared[o] # {} /\ declared[e] # {}
    BY <1>5 DEF BookInv, Bookkeeping, FinishSubmit, Passed
  <2>3. OneAwaitsDouble'
    BY <1>1, <2>1 DEF DoubleInv, OneAwaitsDouble
  <2>4. ValidatedHasDouble'
    <3>1. InStore(e)
      BY <1>5 DEF InStore, StoredAgrees
    <3>2. QED
      BY <1>1, <1>2, <1>5, <2>1, <2>2, <3>1 DEF DoubleInv, ValidatedHasDouble
  <2>5. QED
    BY <2>3, <2>4 DEF DoubleInv
<1>6. ASSUME NEW o \in BatchIds, status' = SetBoth(e, o, "hash_error")
      PROVE  DoubleInv'
  <2>1. \A b \in BatchIds : status'[b] = IF b \in {e, o} THEN "hash_error" ELSE status[b]
    BY <1>6 DEF SetBoth
  <2>2. QED
    BY <1>1, <1>2, <2>1 DEF DoubleInv, OneAwaitsDouble, ValidatedHasDouble
<1>7. QED
  BY <1>3, <1>4, <1>5, <1>6, FinishOutcome

LEMMA InitDouble == Init => DoubleInv
  BY DEF Init, DoubleInv, OneAwaitsDouble, ValidatedHasDouble

LEMMA NextDouble == TypeOK /\ BookInv /\ DoubleInv /\ [Next]_vars => DoubleInv'
<1> SUFFICES ASSUME TypeOK, BookInv, DoubleInv, [Next]_vars PROVE DoubleInv'
  OBVIOUS
<1>1. CASE \E e \in BatchIds : FinishSubmit(e)
  BY <1>1, FinishDouble
<1>2. CASE ~\E e \in BatchIds : FinishSubmit(e)
  <2>1. \A b \in BatchIds : status'[b] \in {"completed", "validated"} => status[b] = status'[b]
    BY <1>2, OnlySubmissionConcludes
  <2>2. \A b \in BatchIds : status[b] # "none" \/ declared[b] # {} => region'[b] = region[b]
    <3>1. \A b \in BatchIds : status[b] # "none" \/ declared[b] # {} => b <= issued
      BY DEF BookInv, Bookkeeping, BatchIds, TypeOK
    <3>2. QED
      BY <3>1, RegionKept
  <2>3. OneAwaitsDouble'
    BY <2>1, <2>2 DEF DoubleInv, OneAwaitsDouble
  <2>4. ASSUME NEW b \in BatchIds, status'[b] = "validated"
        PROVE  /\ Verification
               /\ \E o \in BatchIds \ {b} :
                    /\ region'[o] = region'[b]
                    /\ declared'[o] # {}
                    /\ InStore(b)' \/ InStore(o)'
    <3>1. status[b] = "validated"
      BY <2>1, <2>4
    <3>2. PICK o \in BatchIds \ {b} :
             /\ region[o] = region[b]
             /\ declared[o] # {}
             /\ InStore(b) \/ InStore(o)
      BY <3>1 DEF DoubleInv, ValidatedHasDouble
    <3>3. declared[b] # {}
      BY <3>1 DEF BookInv, Bookkeeping, Passed
    <3>4. region'[o] = region'[b]
      BY <2>2, <3>2, <3>3
    <3>5. declared'[o] # {} /\ (InStore(b)' \/ InStore(o)')
      BY <3>2, <3>3, DeclaredKept, EvidenceKept
    <3>6. QED
      BY <3>1, <3>4, <3>5 DEF DoubleInv, ValidatedHasDouble
  <2>5. QED
    BY <2>3, <2>4 DEF DoubleInv, ValidatedHasDouble
<1>3. QED
  BY <1>1, <1>2

\* With verification, at most one batch of a region awaits its double.
THEOREM AtMostOneAwaitsDouble == Spec => []OneAwaitsDouble
<1>1. Init /\ [][Next]_vars => []DoubleInv
  BY InitType, NextType, InitBook, NextBook, InitDouble, NextDouble, PTL
<1>2. DoubleInv => OneAwaitsDouble
  BY DEF DoubleInv
<1>3. QED
  BY <1>1, <1>2, PTL DEF Spec

\* A validated batch has a submitted double, and one of the two agrees with the
\* stored files.
THEOREM ValidatedBatchHasDouble == Spec => []ValidatedHasDouble
<1>1. Init /\ [][Next]_vars => []DoubleInv
  BY InitType, NextType, InitBook, NextBook, InitDouble, NextDouble, PTL
<1>2. DoubleInv => ValidatedHasDouble
  BY DEF DoubleInv
<1>3. QED
  BY <1>1, <1>2, PTL DEF Spec

-----------------------------------------------------------------------------
(* How many assignments a region can have *)

LEMMA FiniteCounts ==
  ASSUME NEW r \in Regions
  PROVE  /\ IsFiniteSet(Counted(r)) /\ IsFiniteSet(Owned(r)) /\ IsFiniteSet(Picking(r))
         /\ Cardinality(Owned(r)) <= Cardinality(Counted(r))
         /\ Cardinality(Picking(r)) <= Cardinality(Clients)
         /\ Cardinality(Counted(r)) \in Nat /\ Cardinality(Owned(r)) \in Nat
         /\ Cardinality(Picking(r)) \in Nat /\ Cardinality(Clients) \in Nat
<1>1. IsFiniteSet(BatchIds)
  BY FS_Interval DEF BatchIds
<1>2. IsFiniteSet(Counted(r))
  BY <1>1, FS_Subset DEF Counted
<1>3. IsFiniteSet(Owned(r)) /\ Cardinality(Owned(r)) <= Cardinality(Counted(r))
  BY <1>2, FS_Subset DEF Owned
<1>4. IsFiniteSet(Picking(r)) /\ Cardinality(Picking(r)) <= Cardinality(Clients)
  BY FS_Subset, ClientsAreFinite DEF Picking
<1>5. QED
  BY <1>2, <1>3, <1>4, ClientsAreFinite, FS_CardinalityType

\* A step under which neither set of a region gains a member keeps its bound.
LEMMA SmallerCounts ==
  ASSUME OverAssignmentBound, NEW r \in Regions,
         Owned(r)' \subseteq Owned(r), Picking(r)' \subseteq Picking(r)
  PROVE  Cardinality(Owned(r)') + Cardinality(Picking(r)') <= MaxAssign - 1 + Cardinality(Clients)
<1>1. Cardinality(Owned(r)') <= Cardinality(Owned(r)) /\ Cardinality(Owned(r)') \in Nat
  BY FiniteCounts, FS_Subset, FS_CardinalityType
<1>2. Cardinality(Picking(r)') <= Cardinality(Picking(r)) /\ Cardinality(Picking(r)') \in Nat
  BY FiniteCounts, FS_Subset, FS_CardinalityType
<1>3. Cardinality(Owned(r)) + Cardinality(Picking(r)) <= MaxAssign - 1 + Cardinality(Clients)
  BY DEF OverAssignmentBound
<1>4. QED
  BY <1>1, <1>2, <1>3, FiniteCounts DEF MaxAssign

LEMMA InitBound == Init => OverAssignmentBound
<1> SUFFICES ASSUME Init, NEW r \in Regions
             PROVE  Cardinality(Owned(r)) + Cardinality(Picking(r))
                        <= MaxAssign - 1 + Cardinality(Clients)
  BY DEF OverAssignmentBound
<1>1. Owned(r) = {} /\ Picking(r) = {}
  BY DEF Init, Owned, Counted, Picking
<1>2. QED
  BY <1>1, FS_EmptySet, FiniteCounts DEF MaxAssign

\* Only an insert makes a batch count that did not, or gives a counted one an owner.
LEMMA OwnedStep ==
  ASSUME TypeOK, BookInv, [Next]_vars, ~\E c \in Clients : InsertBatch(c), NEW r \in Regions
  PROVE  Owned(r)' \subseteq Owned(r)
<1> USE DEF InProgress, Passed
<1> SUFFICES ASSUME NEW b \in BatchIds, region'[b] = r, owner'[b] # NoClient,
                    status'[b] \in InProgress \cup Passed
             PROVE  region[b] = r /\ owner[b] # NoClient /\ status[b] \in InProgress \cup Passed
  BY DEF Owned, Counted, BatchIds
<1>1. ASSUME NEW e \in BatchIds, FinishSubmit(e)
      PROVE  region[b] = r /\ owner[b] # NoClient /\ status[b] \in InProgress \cup Passed
  <2>1. region' = region /\ owner' = owner
    BY <1>1 DEF FinishSubmit
  <2>2. PICK o \in BatchIds :
           \/ status' = [status EXCEPT ![e] = "hash_error"]
           \/ status' = [status EXCEPT ![e] = "completed"]
           \/ status[o] = "completed" /\ status' = SetBoth(e, o, "validated")
           \/ status' = SetBoth(e, o, "hash_error")
    BY <1>1, FinishOutcome
  <2>3. status[e] \in InProgress \cup {"pending"}
    BY <1>1 DEF FinishSubmit, BookInv, Bookkeeping
  <2>4. status[b] = "pending" => owner[b] = NoClient
    BY DEF BookInv, InProgressIsOwned
  <2>5. status[b] \in InProgress \cup Passed \cup {"pending"}
    BY <2>2, <2>3 DEF SetBoth, TypeOK
  <2>6. QED
    BY <2>1, <2>4, <2>5
<1>2. ASSUME NEW w \in writing, RecordUpload(w)
      PROVE  region[b] = r /\ owner[b] # NoClient /\ status[b] \in InProgress \cup Passed
  BY <1>2 DEF RecordUpload, AfterUpload, UploadRequest, TypeOK, batchRow
<1>3. CASE SweepCommit
  BY <1>3 DEF SweepCommit, Unassigned
<1>4. CASE UNCHANGED <<region, owner, status>>
  BY <1>4
<1>5. QED
  BY <1>1, <1>2, <1>3, <1>4 DEF Next, vars, batchRow, files, submits, Login, Heartbeat,
     Expire, SelectTask, AbortAssignment, ReceiveUpload, LookUpRow, FailUpload, FailSubmit,
     CheckHashes, SweepScan, SweepRead, Restart

\* Only a select makes a client pick a region.
LEMMA PickingStep ==
  ASSUME TypeOK, [Next]_vars, ~\E c \in Clients : SelectTask(c), NEW r \in Regions
  PROVE  Picking(r)' \subseteq Picking(r)
<1>1. ASSUME NEW c \in Clients, InsertBatch(c) \/ AbortAssignment(c)
      PROVE  Picking(r)' \subseteq Picking(r)
  BY <1>1 DEF InsertBatch, AbortAssignment, Picking, TypeOK
<1>2. CASE Restart
  BY <1>2 DEF Restart, Picking
<1>3. CASE picked' = picked
  BY <1>3 DEF Picking
<1>4. QED
  BY <1>1, <1>2, <1>3 DEF Next, vars, batchRow, files, submits, Login, Heartbeat, Expire,
     ReceiveUpload, RecordUpload, LookUpRow, FailUpload, FailSubmit, CheckHashes,
     FinishSubmit, SweepScan, SweepRead, SweepCommit

LEMMA NextBound ==
  TypeOK /\ BookInv /\ OverAssignmentBound /\ [Next]_vars => OverAssignmentBound'
<1> SUFFICES ASSUME TypeOK, BookInv, OverAssignmentBound, [Next]_vars, NEW r \in Regions
             PROVE  Cardinality(Owned(r)') + Cardinality(Picking(r)')
                        <= MaxAssign - 1 + Cardinality(Clients)
  BY DEF OverAssignmentBound, MaxAssign
<1>1. ASSUME NEW c \in Clients, SelectTask(c)
      PROVE  Cardinality(Owned(r)') + Cardinality(Picking(r)')
                 <= MaxAssign - 1 + Cardinality(Clients)
  <2>1. Owned(r)' = Owned(r)
    BY <1>1 DEF SelectTask, Owned, Counted, batchRow
  <2>2. CASE r \in Available
    <3>1. Cardinality(Counted(r)) < MaxAssign
      BY <2>2 DEF Available
    <3>2. Picking(r)' \subseteq Clients
      BY DEF Picking
    <3>3. Cardinality(Picking(r)') <= Cardinality(Clients) /\ Cardinality(Picking(r)') \in Nat
      BY <3>2, FS_Subset, FS_CardinalityType, ClientsAreFinite
    <3>4. QED
      BY <2>1, <3>1, <3>3, FiniteCounts DEF MaxAssign
  <2>3. CASE r \notin Available
    <3>1. Picking(r)' \subseteq Picking(r)
      BY <1>1, <2>3 DEF SelectTask, Nearest, Picking, TypeOK
    <3>2. QED
      BY <2>1, <3>1, SmallerCounts
  <2>4. QED
    BY <2>2, <2>3
<1>2. ASSUME NEW c \in Clients, InsertBatch(c), picked[c] = r
      PROVE  Cardinality(Owned(r)') + Cardinality(Picking(r)')
                 <= MaxAssign - 1 + Cardinality(Clients)
  <2>1. Picking(r)' = Picking(r) \ {c} /\ c \in Picking(r)
    BY <1>2 DEF InsertBatch, Picking, TypeOK
  <2>2. issued + 1 \notin Owned(r)
    BY DEF Owned, Counted, BookInv, Bookkeeping, TypeOK, InProgress, Passed, BatchIds
  <2>3. Owned(r)' \subseteq Owned(r) \cup {issued + 1}
    BY <1>2 DEF InsertBatch, Owned, Counted, TypeOK, BatchIds
  <2>4. Cardinality(Picking(r)') = Cardinality(Picking(r)) - 1
    BY <2>1, FiniteCounts, FS_RemoveElement
  <2>5. /\ IsFiniteSet(Owned(r) \cup {issued + 1})
        /\ Cardinality(Owned(r) \cup {issued + 1}) = Cardinality(Owned(r)) + 1
    BY <2>2, FiniteCounts, FS_AddElement
  <2>6. Cardinality(Owned(r)') <= Cardinality(Owned(r)) + 1 /\ Cardinality(Owned(r)') \in Nat
    BY <2>3, <2>5, FS_Subset, FS_CardinalityType
  <2>7. Cardinality(Owned(r)) + Cardinality(Picking(r)) <= MaxAssign - 1 + Cardinality(Clients)
    BY DEF OverAssignmentBound
  <2>8. QED
    BY <2>4, <2>6, <2>7, FiniteCounts DEF MaxAssign
<1>3. ASSUME NEW c \in Clients, InsertBatch(c), picked[c] # r
      PROVE  Owned(r)' \subseteq Owned(r)
  BY <1>3 DEF InsertBatch, Owned, Counted, TypeOK, BatchIds
<1>4. CASE ~\E c \in Clients : SelectTask(c) \/ (InsertBatch(c) /\ picked[c] = r)
  BY <1>3, <1>4, OwnedStep, PickingStep, SmallerCounts
<1>5. QED
  BY <1>1, <1>2, <1>4

\* A region never has more owned batches and pending selects than its limit
\* allows and one for each further client.
THEOREM OverAssignmentIsBounded == Spec => []OverAssignmentBound
  BY InitType, NextType, InitBook, NextBook, InitBound, NextBound, PTL DEF Spec

-----------------------------------------------------------------------------
(* The abstract specifications it implements *)

LEMMA LifecycleStep == TypeOK /\ TypeOK' /\ BookInv /\ [Next]_vars => [Lifecycle!Next]_status
<1> SUFFICES ASSUME TypeOK, TypeOK', BookInv, [Next]_vars
             PROVE  [Lifecycle!Next]_status
  OBVIOUS
<1>a. status' \in [BatchIds -> Lifecycle!Given \cup {"none"}]
  BY DEF TypeOK, Statuses, InProgress, Passed, Lifecycle!Given, Lifecycle!Open
<1> SUFFICES ASSUME NEW b \in BatchIds, status'[b] # status[b]
             PROVE  <<status[b], status'[b]>> \in Lifecycle!Moves
  BY <1>a DEF Lifecycle!Next
<1> USE DEF Lifecycle!Moves, Lifecycle!Given, Lifecycle!Open
<1>1. ASSUME NEW c \in Clients, InsertBatch(c)
      PROVE  <<status[b], status'[b]>> \in Lifecycle!Moves
  <2>1. b = issued + 1 /\ status'[b] = "assigned"
    BY <1>1 DEF InsertBatch, TypeOK, BatchIds
  <2>2. status[b] = "none"
    BY <2>1 DEF BookInv, Bookkeeping, TypeOK
  <2>3. QED
    BY <2>1, <2>2
<1>2. ASSUME NEW w \in writing, RecordUpload(w)
      PROVE  <<status[b], status'[b]>> \in Lifecycle!Moves
  BY <1>2 DEF RecordUpload, AfterUpload, UploadRequest, TypeOK
<1>3. ASSUME NEW e \in BatchIds, FinishSubmit(e)
      PROVE  <<status[b], status'[b]>> \in Lifecycle!Moves
  <2>1. status[e] \in {"assigned", "working", "pending"}
    BY <1>3 DEF FinishSubmit, BookInv, Bookkeeping, InProgress
  <2>2. PICK o \in BatchIds :
           \/ status' = [status EXCEPT ![e] = "hash_error"]
           \/ status' = [status EXCEPT ![e] = "completed"]
           \/ status[o] = "completed" /\ status' = SetBoth(e, o, "validated")
           \/ status[o] = "completed" /\ status' = SetBoth(e, o, "hash_error")
    BY <1>3, FinishOutcome
  <2>3. QED
    BY <2>1, <2>2 DEF SetBoth, TypeOK
<1>4. CASE SweepCommit
  <2>0. /\ status'[b] = "pending"
        /\ b \in sweep.stuck \/ status[b] \in InProgress
    BY <1>4 DEF SweepCommit, Unassigned, Stuck
  <2>1. b <= issued /\ status'[b] = "pending"
    <3>1. CASE b \in sweep.stuck
      BY <2>0, <3>1 DEF BookInv, Bookkeeping
    <3>2. CASE status[b] \in InProgress
      BY <2>0, <3>2 DEF InProgress, BookInv, Bookkeeping, TypeOK, BatchIds
    <3>3. QED
      BY <2>0, <3>1, <3>2
  <2>2. status[b] \in Statuses \ {"none"}
    BY <2>1 DEF BookInv, Bookkeeping, TypeOK, BatchIds
  <2>3. QED
    BY <2>1, <2>2 DEF Statuses, InProgress, Passed
<1>5. CASE status' = status
  BY <1>5
<1>6. QED
  BY <1>1, <1>2, <1>3, <1>4, <1>5 DEF Next, vars, batchRow, files, submits, Login,
     Heartbeat, Expire, SelectTask, AbortAssignment, ReceiveUpload, LookUpRow, FailUpload,
     FailSubmit, CheckHashes, SweepScan, SweepRead, Restart

\* Every status change is a move of BatchLifecycle.
THEOREM ImplementsLifecycle == Spec => StatusFollowsLifecycle
<1>1. Init => Lifecycle!Init
  BY DEF Init, Lifecycle!Init
<1>2. Init /\ [][Next]_vars => [](TypeOK /\ BookInv)
  BY InitType, NextType, InitBook, NextBook, PTL
<1>3. QED
  BY <1>1, <1>2, LifecycleStep, PTL DEF Spec, StatusFollowsLifecycle, Lifecycle!Spec

LEMMA StorageStep == TypeOK /\ [Next]_vars => [Storage!Next]_stored
<1> SUFFICES ASSUME TypeOK, [Next]_vars, stored' # stored PROVE Storage!Next
  OBVIOUS
<1>1. PICK c \in Clients, b \in BatchIds, f \in Files, x \in Contents :
         ReceiveUpload(c, b, f, x)
  BY DEF Next, vars, batchRow, files, submits, Login, Heartbeat, Expire, SelectTask,
     InsertBatch, AbortAssignment, RecordUpload, LookUpRow, FailUpload, FailSubmit,
     CheckHashes, FinishSubmit, SweepScan, SweepRead, SweepCommit, Restart
<1>2. Storage!Write(f, x)
  BY <1>1 DEF ReceiveUpload, WriteMca, Storage!Write
<1>3. QED
  BY <1>2 DEF Storage!Next

\* Region files are write-once registers.
THEOREM ImplementsRegionFiles == Spec => FilesAreWriteOnce
<1>1. Init => Storage!Init
  BY DEF Init, Storage!Init
<1>2. Init /\ [][Next]_vars => []TypeOK
  BY InitType, NextType, PTL
<1>3. QED
  BY <1>1, <1>2, StorageStep, PTL DEF Spec, FilesAreWriteOnce, Storage!Spec

=============================================================================
