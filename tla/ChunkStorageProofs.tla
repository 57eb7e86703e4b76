------------------------- MODULE ChunkStorageProofs -------------------------
(***************************************************************************)
(* Proofs about ChunkStorage, for any threads, names and contents: blobs   *)
(* are whole, linked region files are whole, and region files are          *)
(* write-once.                                                             *)
(***************************************************************************)
EXTENDS ChunkStorage, TLAPS

USE StorageAssumption

\* Only the holder of the lock is inside the with block; there a temporary file
\* about to be renamed is not partial, and a file being copied is seen partial.
InsideInv ==
    /\ \A w \in Writers : at[w] \in Locked => lock = w
    /\ \A w \in Writers : at[w] = "renaming" => tmp[Data(w)] # Part
    /\ \A w \in Writers : at[w] = "copying" => dest[Name(w)] = Part /\ ~links

StorageInv == StorageTypeOK /\ InsideInv /\ BlobsAreWhole /\ RegionFilesAreWhole

LEMMA JobTypes ==
  ASSUME StorageTypeOK, NEW w \in Writers, at[w] # "idle"
  PROVE  Name(w) \in FileNames /\ Data(w) \in Bytes /\ job[w] # Nobody
<1>1. job[w] \in FileNames \X Bytes
  BY DEF StorageTypeOK
<1>2. QED
  BY <1>1 DEF Name, Data

LEMMA StorageInitInv == StorageInit => StorageInv
  BY DEF StorageInit, StorageInv, StorageTypeOK, InsideInv, BlobsAreWhole,
         RegionFilesAreWhole, Locked

LEMMA StorageNextInv == StorageInv /\ [StorageNext]_storageVars => StorageInv'
<1> SUFFICES ASSUME StorageInv, [StorageNext]_storageVars PROVE StorageInv'
  OBVIOUS
<1> USE DEF StorageInv, StorageTypeOK, InsideInv, BlobsAreWhole, RegionFilesAreWhole, disk, Locked
<1>1. ASSUME NEW w \in Writers, NEW f \in FileNames, NEW x \in Bytes, Begin(w, f, x),
             links' = links
      PROVE  StorageInv'
  BY <1>1 DEF Begin, Name, Data
<1>2. ASSUME NEW w \in Writers, Acquire(w), links' = links PROVE StorageInv'
  BY <1>2 DEF Acquire, Name, Data
<1>3. ASSUME NEW w \in Writers, OpenTmp(w), links' = links PROVE StorageInv'
  BY <1>3, JobTypes DEF OpenTmp, Proceed, Name, Data
<1>4. ASSUME NEW w \in Writers, FillTmp(w), links' = links PROVE StorageInv'
  BY <1>4, JobTypes DEF FillTmp, Proceed, Name, Data
<1>5. ASSUME NEW w \in Writers, Rename(w), links' = links PROVE StorageInv'
  BY <1>5, JobTypes DEF Rename, Proceed, Finish, Name, Data
<1>6. ASSUME NEW w \in Writers, Store(w), links' = links PROVE StorageInv'
  BY <1>6, JobTypes DEF Store, Proceed, Finish, Content, Name, Data
<1>7. ASSUME NEW w \in Writers, Copied(w), links' = links PROVE StorageInv'
  BY <1>7, JobTypes DEF Copied, Finish, Name, Data
<1>8. CASE Compact /\ links' = links
  BY <1>8 DEF Compact, Name, Data
<1>9. CASE Die /\ links' = links
  BY <1>9 DEF Die
<1>10. CASE UNCHANGED storageVars
  BY <1>10 DEF storageVars, Name, Data
<1>11. QED
  BY <1>1, <1>2, <1>3, <1>4, <1>5, <1>6, <1>7, <1>8, <1>9, <1>10
     DEF StorageNext, StorageStep, Write

\* No thread, crash or compaction leaves an incomplete blob under its name.
THEOREM BlobsStayWhole == StorageSpec => []BlobsAreWhole
<1>1. StorageInit /\ [][StorageNext]_storageVars => []StorageInv
  BY StorageInitInv, StorageNextInv, PTL
<1>2. StorageInv => BlobsAreWhole
  BY DEF StorageInv
<1>3. QED
  BY <1>1, <1>2, PTL DEF StorageSpec

\* With hard links no region file is ever incomplete.
THEOREM RegionFilesStayWhole == StorageSpec => []RegionFilesAreWhole
<1>1. StorageInit /\ [][StorageNext]_storageVars => []StorageInv
  BY StorageInitInv, StorageNextInv, PTL
<1>2. StorageInv => RegionFilesAreWhole
  BY DEF StorageInv
<1>3. QED
  BY <1>1, <1>2, PTL DEF StorageSpec

LEMMA WriteOnceStep == StorageInv /\ [StorageNext]_storageVars => [Regions!Next]_Complete
<1> SUFFICES ASSUME StorageInv, [StorageNext]_storageVars, Complete' # Complete
             PROVE  Regions!Next
  OBVIOUS
<1>1. PICK w \in Writers : Store(w) \/ Copied(w)
  BY DEF StorageNext, StorageStep, Write, storageVars, disk, Begin, Acquire, OpenTmp,
         FillTmp, Rename, Compact, Die, Complete
<1>2. Name(w) \in FileNames /\ Data(w) \in Bytes
  BY <1>1, JobTypes DEF StorageInv, Store, Copied
<1>3. CASE Store(w)
  <2>1. dest[Name(w)] = Absent /\ dest' \in {[dest EXCEPT ![Name(w)] = Content(Data(w))],
                                              [dest EXCEPT ![Name(w)] = Part], dest}
    BY <1>3 DEF Store, Complete
  <2>2. Content(Data(w)) \in {Data(w), Part}
    BY DEF Content
  <2>3. Complete' = [Complete EXCEPT ![Name(w)] = Data(w)]
    BY <1>2, <2>1, <2>2 DEF Complete, StorageInv, StorageTypeOK
  <2>4. Complete[Name(w)] = Absent
    BY <1>2, <2>1 DEF Complete
  <2>5. QED
    BY <1>2, <2>3, <2>4 DEF Regions!Next, Regions!Write
<1>4. CASE Copied(w)
  <2>1. dest[Name(w)] = Part /\ dest' = [dest EXCEPT ![Name(w)] = Data(w)]
    BY <1>4 DEF Copied, StorageInv, InsideInv
  <2>2. Complete[Name(w)] = Absent /\ Complete' = [Complete EXCEPT ![Name(w)] = Data(w)]
    BY <1>2, <2>1 DEF Complete, StorageInv, StorageTypeOK
  <2>3. QED
    BY <1>2, <2>2 DEF Regions!Next, Regions!Write
<1>5. QED
  BY <1>1, <1>3, <1>4

\* The storage implements write-once region files.
THEOREM StorageImplementsRegionFiles == StorageSpec => StorageIsWriteOnce
<1>1. StorageInit => Regions!Init
  BY DEF StorageInit, Regions!Init, Complete
<1>2. StorageInit /\ [][StorageNext]_storageVars => []StorageInv
  BY StorageInitInv, StorageNextInv, PTL
<1>3. QED
  BY <1>1, <1>2, WriteOnceStep, PTL DEF StorageSpec, StorageIsWriteOnce, Regions!Spec

\* Temporary and stored files hold what a writer gave or a part of it, and a save
\* that is under way has a name and bytes (write_mca, server/storage_manager.py).
THEOREM StorageTypesHold == StorageSpec => []StorageTypeOK
<1>1. StorageInv => StorageTypeOK
  BY DEF StorageInv
<1>2. QED
  BY StorageInitInv, StorageNextInv, <1>1, PTL DEF StorageSpec

=============================================================================
