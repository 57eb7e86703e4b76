----------------------------- MODULE MapProofs ------------------------------
(***************************************************************************)
(* Proofs about the map.  Overview: what it shows and by which bounds it   *)
(* is cropped, for any finite set of chunks, any contents of tiles and any *)
(* number of failures.  TileCache: what memory holds, for any keys and any *)
(* size of the cache.                                                      *)
(***************************************************************************)
EXTENDS TileCache, Overview, FiniteSetTheorems, SequenceTheorems,
        WellFoundedInduction, TLAPS

\* A finite set of integers that is not empty has a least and a greatest element:
\* what lies below an element of it is a finite set, and a smallest such set is
\* empty.
LEMMA LeastExists ==
    ASSUME NEW S, S \subseteq Int, IsFiniteSet(S), S # {}
    PROVE  \E x \in S : \A y \in S : x =< y
<1> DEFINE Below(x) == {y \in S : y < x}
           R == StrictSubsetOrdering(S)
           F == FiniteSubsetsOf(S)
           T == {Below(x) : x \in S}
<1>1. IsWellFoundedOn(R, F)
  BY FS_StrictSubsetOrderingWellFounded
<1>2. T \subseteq F /\ T # {}
  <2>1. ASSUME NEW x \in S
        PROVE  Below(x) \in FiniteSubsetsOf(S)
    <3>1. Below(x) \in SUBSET S
      OBVIOUS
    <3> QED
      BY <3>1, FS_Subset DEF FiniteSubsetsOf
  <2> QED
    BY <2>1
<1>3. \E U \in T : \A V \in T : ~ (<<V, U>> \in R)
  <2> HIDE DEF R, F, T
  <2> QED
    BY <1>1, <1>2, WFMin
<1>4. PICK x \in S : \A V \in T : ~ (<<V, Below(x)>> \in R)
  BY <1>3
<1>5. ASSUME NEW y \in S, ~(x =< y)
      PROVE  FALSE
  <2>1. Below(y) \subseteq Below(x) /\ y \in Below(x) /\ y \notin Below(y)
    <3>1. x \in Int /\ y \in Int /\ y < x
      BY <1>5
    <3>2. ~(y < y) /\ \A z \in S : z < y => z < x
      BY <3>1
    <3>3. y \in Below(x) /\ y \notin Below(y)
      BY <3>1, <3>2
    <3>4. Below(y) \subseteq Below(x)
      BY Zenon, <3>2
    <3> QED
      BY Zenon, <3>3, <3>4
  <2>2. <<Below(y), Below(x)>> \in R
    BY <2>1 DEF StrictSubsetOrdering
  <2> QED
    BY <1>4, <2>2
<1> QED
  BY <1>5

LEMMA GreatestExists ==
    ASSUME NEW S, S \subseteq Int, IsFiniteSet(S), S # {}
    PROVE  \E x \in S : \A y \in S : x >= y
<1> DEFINE Above(x) == {y \in S : y > x}
           R == StrictSubsetOrdering(S)
           F == FiniteSubsetsOf(S)
           T == {Above(x) : x \in S}
<1>1. IsWellFoundedOn(R, F)
  BY FS_StrictSubsetOrderingWellFounded
<1>2. T \subseteq F /\ T # {}
  <2>1. ASSUME NEW x \in S
        PROVE  Above(x) \in FiniteSubsetsOf(S)
    <3>1. Above(x) \in SUBSET S
      OBVIOUS
    <3> QED
      BY <3>1, FS_Subset DEF FiniteSubsetsOf
  <2> QED
    BY <2>1
<1>3. \E U \in T : \A V \in T : ~ (<<V, U>> \in R)
  <2> HIDE DEF R, F, T
  <2> QED
    BY <1>1, <1>2, WFMin
<1>4. PICK x \in S : \A V \in T : ~ (<<V, Above(x)>> \in R)
  BY <1>3
<1>5. ASSUME NEW y \in S, ~(x >= y)
      PROVE  FALSE
  <2>1. Above(y) \subseteq Above(x) /\ y \in Above(x) /\ y \notin Above(y)
    <3>1. x \in Int /\ y \in Int /\ y > x
      BY <1>5
    <3>2. ~(y > y) /\ \A z \in S : z > y => z > x
      BY <3>1
    <3>3. y \in Above(x) /\ y \notin Above(y)
      BY <3>1, <3>2
    <3>4. Above(y) \subseteq Above(x)
      BY Zenon, <3>2
    <3> QED
      BY Zenon, <3>3, <3>4
  <2>2. <<Above(y), Above(x)>> \in R
    BY <2>1 DEF StrictSubsetOrdering
  <2> QED
    BY <1>4, <2>2
<1> QED
  BY <1>5

LEMMA MinIsLeast ==
    ASSUME NEW S, S \subseteq Int, IsFiniteSet(S), S # {}
    PROVE  Min(S) \in S /\ \A y \in S : Min(S) =< y
  BY LeastExists DEF Min

LEMMA MaxIsGreatest ==
    ASSUME NEW S, S \subseteq Int, IsFiniteSet(S), S # {}
    PROVE  Max(S) \in S /\ \A y \in S : Max(S) >= y
  BY GreatestExists DEF Max

-----------------------------------------------------------------------------
(* Overview: types *)

\* A picture spans chunks as soon as one tile can be read.
LEMMA PictureType ==
    ASSUME OverviewTypeOK, Readable # {}
    PROVE  Picture \in Pictures /\ Picture.span \in Spans
<1>1. Existing \subseteq Chunks /\ Readable \subseteq Existing /\ Existing # {}
  BY DEF Existing, Readable
<1>2. Existing \subseteq Int /\ IsFiniteSet(Existing)
  BY <1>1, OverviewAssumption, FS_Subset
<1>3. Span(Existing) \in Spans
  BY <1>1, <1>2, MinIsLeast, MaxIsGreatest DEF Span, Spans
<1>4. ASSUME NEW c \in Readable
      PROVE  <<c, tiles[c]>> \in Chunks \X Pics
  BY DEF Readable, Existing, OverviewTypeOK
<1>5. {<<c, tiles[c]>> : c \in Readable} \in SUBSET (Chunks \X Pics)
  BY <1>4
<1> QED
  BY <1>3, <1>5 DEF Picture, Pictures

\* OverviewTypeOK, and the type of what is left of an upload; what is saved is
\* there.
MapTypes ==
    /\ OverviewTypeOK
    /\ batch \in Seq(Chunks \X Pics)
    /\ loop \in {"saveImage", "saveMeta"} => overview # Missing

LEMMA TypesInit == OverviewInit => MapTypes
<1> SUFFICES ASSUME OverviewInit
             PROVE  MapTypes
  OBVIOUS
<1> USE OverviewAssumption DEF OverviewInit
<1>1. tiles \in [Chunks -> Pics \cup {Missing, Torn}]
  OBVIOUS
<1>2. trouble \in 0 .. MaxTrouble /\ batch \in Seq(Chunks \X Pics)
  OBVIOUS
<1> QED
  BY <1>1, <1>2 DEF MapTypes, OverviewTypeOK

\* What a failure does to files and variables, whatever comes after it.
LEMMA TearTypes ==
    ASSUME MapTypes, Tear, trouble < MaxTrouble,
           overview' \in {overview, Missing}, loop' = "idle", batch' = <<>>,
           trouble' = trouble + 1
    PROVE  MapTypes'
<1> USE DEF MapTypes, OverviewTypeOK
<1>1. tiles' \in [Chunks -> Pics \cup {Missing, Torn}]
  BY DEF Tear, TearTile
<1>2. image' \in {Missing, Torn} \cup Pictures /\ meta' \in {Missing, Torn} \cup Spans
  BY DEF Tear, TearTile
<1>3. missed' \in BOOLEAN
  BY DEF Tear, TearTile
<1>4. trouble' \in 0 .. MaxTrouble
  BY OverviewAssumption
<1>5. overview' \in {Missing} \cup [image : Pictures \cup {Torn}, span : Spans]
  BY Zenon
<1> QED
  BY <1>1, <1>2, <1>3, <1>4, <1>5

LEMMA TypesStep == MapTypes /\ [OverviewNext]_mapVars => MapTypes'
<1> SUFFICES ASSUME MapTypes, [OverviewNext]_mapVars
             PROVE  MapTypes'
  OBVIOUS
<1> USE OverviewAssumption DEF MapTypes, OverviewTypeOK, mapFiles
<1>1. ASSUME NEW n \in 1 .. 2, NEW ts \in [1 .. n -> Chunks \X Pics], UploadTiles(ts)
      PROVE  MapTypes'
  <2>1. ts \in Seq(Chunks \X Pics) /\ Len(ts) = n /\ n > 0
    OBVIOUS
  <2>2. ts # <<>>
    BY <2>1
  <2> QED
    BY <1>1, <2>1, <2>2 DEF UploadTiles
<1>2. CASE WriteTile
  <2>1. batch # <<>> /\ Head(batch) \in Chunks \X Pics /\ Tail(batch) \in Seq(Chunks \X Pics)
    BY <1>2 DEF WriteTile
  <2>2. Head(batch)[1] \in Chunks /\ Head(batch)[2] \in Pics
    BY <2>1
  <2>3. tiles' \in [Chunks -> Pics \cup {Missing, Torn}]
    BY <1>2, <2>2 DEF WriteTile
  <2>4. batch' \in Seq(Chunks \X Pics) /\ (loop' = "writing" <=> batch' # <<>>)
    BY <1>2, <2>1 DEF WriteTile
  <2> QED
    BY <1>2, <2>3, <2>4 DEF WriteTile
<1>3. CASE ForgetOverview
  BY <1>3 DEF ForgetOverview
<1>4. CASE UnlinkImage
  BY <1>4 DEF UnlinkImage
<1>5. CASE UnlinkMeta
  BY <1>5 DEF UnlinkMeta
<1>6. CASE LoadOverview
  <2>1. image \in Pictures \cup {Torn} /\ meta \in Spans
    BY <1>6 DEF LoadOverview, HasMeta
  <2>2. overview' \in [image : Pictures \cup {Torn}, span : Spans]
    BY <1>6, <2>1 DEF LoadOverview
  <2> QED
    BY <1>6, <2>2 DEF LoadOverview
<1>7. CASE BuildOverview
  <2>1. Picture \in Pictures /\ Picture.span \in Spans
    BY <1>7, PictureType DEF BuildOverview
  <2>2. overview' \in [image : Pictures \cup {Torn}, span : Spans]
    BY <1>7, <2>1 DEF BuildOverview
  <2> QED
    BY <1>7, <2>2 DEF BuildOverview
<1>8. CASE SaveImage
  <2>1. overview \in [image : Pictures \cup {Torn}, span : Spans]
    BY <1>8 DEF SaveImage
  <2> QED
    BY <1>8, <2>1 DEF SaveImage
<1>9. CASE SaveMeta
  <2>1. overview \in [image : Pictures \cup {Torn}, span : Spans]
    BY <1>9 DEF SaveMeta
  <2> QED
    BY <1>9, <2>1 DEF SaveMeta
<1>10. CASE WriteFails
  BY <1>10, TearTypes DEF WriteFails
<1>11. CASE OverviewRestart
  BY <1>11, TearTypes DEF OverviewRestart
<1>12. CASE UNCHANGED mapVars
  BY <1>12 DEF mapVars
<1> QED
  BY <1>1, <1>2, <1>3, <1>4, <1>5, <1>6, <1>7, <1>8, <1>9, <1>10, <1>11, <1>12
  DEF OverviewNext

-----------------------------------------------------------------------------
(* Overview: what is shown *)

\* OverviewIsCurrent whatever the handler that runs is about, and whether or not
\* the image has its metadata; while the files are removed nothing is in memory.
CurrentInv ==
    /\ ~missed =>
        /\ overview # Missing /\ overview.image # Torn => Current(overview.image)
        /\ image \notin {Missing, Torn} => Current(image)
    /\ loop \in {"unlinkImage", "unlinkMeta"} => overview = Missing

\* Steps that leave the tiles alone change nothing about what is current.
LEMMA SameTiles ==
    ASSUME UNCHANGED tiles, NEW pic
    PROVE  Current(pic)' <=> Current(pic)
  BY DEF Current, Readable, Existing

LEMMA CurrentStep ==
    ASSUME MapTypes, CurrentInv, [OverviewNext]_mapVars
    PROVE  CurrentInv'
<1> USE DEF CurrentInv, mapFiles
<1>1. ASSUME NEW n \in 1 .. 2, NEW ts \in [1 .. n -> Chunks \X Pics], UploadTiles(ts)
      PROVE  CurrentInv'
  BY <1>1 DEF UploadTiles, Current, Readable, Existing
<1>2. CASE WriteTile
  BY <1>2 DEF WriteTile
<1>3. CASE ForgetOverview
  BY <1>3 DEF ForgetOverview, Current, Readable, Existing
<1>4. CASE UnlinkImage
  BY <1>4 DEF UnlinkImage, Current, Readable, Existing
<1>5. CASE UnlinkMeta
  BY <1>5 DEF UnlinkMeta, Current, Readable, Existing
<1>6. CASE LoadOverview
  BY <1>6 DEF LoadOverview, Current, Readable, Existing
<1>7. CASE BuildOverview
  BY <1>7 DEF BuildOverview, Picture, Current, Readable, Existing
<1>8. CASE SaveImage
  BY <1>8 DEF SaveImage, Current, Readable, Existing, MapTypes
<1>9. CASE SaveMeta
  BY <1>9 DEF SaveMeta, Current, Readable, Existing
<1>10. CASE WriteFails
  BY <1>10 DEF WriteFails, Tear, TearTile, Current, Readable, Existing
<1>11. CASE OverviewRestart
  <2>1. overview' = Missing /\ loop' = "idle" /\ image' \in {image, Torn}
    BY <1>11 DEF OverviewRestart, Tear, TearTile
  <2>2. ~missed' => ~missed /\ tiles' = tiles
    BY <1>11 DEF OverviewRestart, Tear, TearTile
  <2> QED
    BY <2>1, <2>2, SameTiles
<1>12. CASE UNCHANGED mapVars
  BY <1>12 DEF mapVars, Current, Readable, Existing
<1> QED
  BY <1>1, <1>2, <1>3, <1>4, <1>5, <1>6, <1>7, <1>8, <1>9, <1>10, <1>11, <1>12
  DEF OverviewNext

-----------------------------------------------------------------------------
(* Overview: by which bounds it is cropped *)

\* Outside of the two writes and the two removals.
Settled == loop \in {"idle", "writing", "forgetting", "unlinkImage"}

\* What holds until a second failure: of the variable, of the files between two
\* requests, and of the files in the middle of a removal and of a save.
BoundsInv ==
    trouble < 2 =>
        /\ overview # Missing => /\ overview.image # Torn
                                 /\ overview.image.span = overview.span
        /\ Settled /\ image # Missing /\ HasMeta => image # Torn /\ image.span = meta
        /\ loop = "unlinkMeta" => image = Missing
        /\ loop = "saveMeta" => image = overview.image

\* And what holds until the first: there are both files or none.
UntroubledInv ==
    trouble = 0 =>
        /\ image # Torn /\ meta # Torn
        /\ Settled => (image = Missing <=> meta = Missing)
        /\ loop = "saveImage" => image = Missing
        /\ loop \in {"saveImage", "saveMeta"} => meta = Missing

LEMMA BoundsStep ==
    ASSUME MapTypes, BoundsInv, UntroubledInv, [OverviewNext]_mapVars
    PROVE  BoundsInv' /\ UntroubledInv'
<1> USE OverviewAssumption DEF BoundsInv, UntroubledInv, Settled, HasMeta, mapFiles
<1>0. /\ trouble \in Nat
      /\ overview # Missing => overview \in [image : Pictures \cup {Torn}, span : Spans]
      /\ loop \in {"saveImage", "saveMeta"} => overview # Missing
  BY DEF MapTypes, OverviewTypeOK
<1>1. ASSUME NEW n \in 1 .. 2, NEW ts \in [1 .. n -> Chunks \X Pics], UploadTiles(ts)
      PROVE  BoundsInv' /\ UntroubledInv'
  BY <1>0, <1>1 DEF UploadTiles
<1>2. CASE WriteTile
  BY <1>0, <1>2 DEF WriteTile
<1>3. CASE ForgetOverview
  BY <1>0, <1>3 DEF ForgetOverview
<1>4. CASE UnlinkImage
  BY <1>0, <1>4 DEF UnlinkImage
<1>5. CASE UnlinkMeta
  BY <1>0, <1>5 DEF UnlinkMeta
<1>6. CASE LoadOverview
  BY <1>0, <1>6 DEF LoadOverview
<1>7. CASE BuildOverview
  <2>1. Picture \in Pictures /\ Picture.span \in Spans
    BY <1>7, PictureType DEF BuildOverview, MapTypes
  <2>2. Picture # Torn
    BY <2>1
  <2> QED
    BY <1>0, <1>7, <2>1, <2>2 DEF BuildOverview
<1>8. CASE SaveImage
  BY <1>0, <1>8 DEF SaveImage
<1>9. CASE SaveMeta
  <2>1. overview.span \in Spans /\ overview.span \notin {Missing, Torn}
    BY <1>0, <1>9 DEF SaveMeta
  <2>2. trouble < 2 => overview.image \in Pictures /\ overview.image \notin {Missing, Torn}
    BY <1>0, <1>9 DEF SaveMeta
  <2> QED
    BY <1>0, <1>9, <2>1, <2>2 DEF SaveMeta
<1>10. CASE WriteFails
  BY <1>0, <1>10 DEF WriteFails, Tear, TearTile
<1>11. CASE OverviewRestart
  <2>1. /\ overview' = Missing /\ loop' = "idle" /\ trouble' = trouble + 1
        /\ image' = image \/ (loop = "saveImage" /\ image' = Torn)
        /\ meta' = meta \/ (loop = "saveMeta" /\ meta' = Torn)
    BY <1>11 DEF OverviewRestart, Tear, TearTile
  <2>2. CASE loop = "saveImage"
    BY <1>0, <2>1, <2>2
  <2>3. CASE loop = "saveMeta"
    BY <1>0, <2>1, <2>3
  <2>4. CASE loop = "unlinkMeta"
    BY <1>0, <2>1, <2>4
  <2>5. CASE Settled
    BY <1>0, <2>1, <2>5
  <2> QED
    BY <2>2, <2>3, <2>4, <2>5 DEF MapTypes, OverviewTypeOK
<1>12. CASE UNCHANGED mapVars
  BY <1>12 DEF mapVars
<1> QED
  BY <1>1, <1>2, <1>3, <1>4, <1>5, <1>6, <1>7, <1>8, <1>9, <1>10, <1>11, <1>12
  DEF OverviewNext

-----------------------------------------------------------------------------
MapInv == MapTypes /\ CurrentInv /\ BoundsInv /\ UntroubledInv

LEMMA MapAlways == OverviewSpec => []MapInv
<1>1. OverviewInit => MapInv
  <2> SUFFICES ASSUME OverviewInit
               PROVE  MapInv
    OBVIOUS
  <2>1. CurrentInv /\ BoundsInv /\ UntroubledInv
    BY OverviewAssumption DEF OverviewInit, CurrentInv, BoundsInv, UntroubledInv, HasMeta, Settled
  <2> QED
    BY <2>1, TypesInit DEF MapInv
<1>2. MapInv /\ [OverviewNext]_mapVars => MapInv'
  BY TypesStep, CurrentStep, BoundsStep DEF MapInv
<1> QED
  BY <1>1, <1>2, PTL DEF OverviewSpec

\* Files, the overview in memory and what is left of an upload keep their types;
\* in particular a picture that is built spans chunks of the world.
THEOREM OverviewTypesHold == OverviewSpec => []OverviewTypeOK
<1>1. MapInv => OverviewTypeOK
  BY DEF MapInv, MapTypes
<1> QED
  BY <1>1, MapAlways, PTL

\* Whatever is kept of the overview between two requests shows the tiles as they
\* are, unless an upload was broken off after it changed one
\* (invalidate_overview, _get_or_build_overview).
THEOREM OverviewIsAlwaysCurrent == OverviewSpec => []OverviewIsCurrent
<1>1. MapInv => OverviewIsCurrent
  BY DEF MapInv, CurrentInv, OverviewIsCurrent
<1> QED
  BY <1>1, MapAlways, PTL

\* One failure or death at any point never leaves an image beside the metadata of
\* another (_get_or_build_overview, invalidate_overview).
THEOREM OverviewAlwaysHasItsBounds == OverviewSpec => []OverviewHasItsBounds
<1>1. MapInv => OverviewHasItsBounds
  BY DEF MapInv, BoundsInv, OverviewHasItsBounds
<1> QED
  BY <1>1, MapAlways, PTL

-----------------------------------------------------------------------------
(* TileCache: what memory holds *)

\* An entry moved to the end: those behind it move up by one.
LEMMA MovedToEnd ==
    ASSUME NEW E, NEW s \in Seq(E), NEW i \in 1 .. Len(s)
    PROVE  /\ ToEnd(s, i) \in Seq(E) /\ Len(ToEnd(s, i)) = Len(s)
           /\ \A j \in 1 .. Len(s) :
                ToEnd(s, i)[j] = IF j < i THEN s[j] ELSE IF j < Len(s) THEN s[j + 1] ELSE s[i]
<1> DEFINE a == SubSeq(s, 1, i - 1)
           b == SubSeq(s, i + 1, Len(s))
<1>1. /\ a \in Seq(E) /\ Len(a) = i - 1
      /\ \A j \in 1 .. i - 1 : a[j] = s[j]
  OBVIOUS
<1>2. /\ b \in Seq(E) /\ Len(b) = Len(s) - i
      /\ \A j \in 1 .. Len(s) - i : b[j] = s[i + j]
  OBVIOUS
<1>3. s[i] \in E
  OBVIOUS
<1> HIDE DEF a, b
<1>4. /\ a \o b \in Seq(E) /\ Len(a \o b) = Len(s) - 1
      /\ \A j \in 1 .. Len(s) - 1 : (a \o b)[j] = IF j < i THEN s[j] ELSE s[j + 1]
  <2>1. a \o b \in Seq(E) /\ Len(a \o b) = Len(s) - 1
    <3>0. a \in Seq(E) /\ b \in Seq(E)
      BY <1>1, <1>2
    <3>1. a \o b \in Seq(E) /\ Len(a \o b) = Len(a) + Len(b)
      BY <3>0
    <3>2. (i - 1) + (Len(s) - i) = Len(s) - 1
      OBVIOUS
    <3> QED
      BY <1>1, <1>2, <3>1, <3>2
  <2>2. ASSUME NEW j \in 1 .. Len(s) - 1
        PROVE  (a \o b)[j] = IF j < i THEN s[j] ELSE s[j + 1]
    <3>1. CASE j < i
      BY <1>1, <1>2, <3>1
    <3>2. CASE ~(j < i)
      <4>1. j - (i - 1) \in 1 .. Len(s) - i /\ i + (j - (i - 1)) = j + 1
        BY <3>2
      <4>2. (a \o b)[j] = b[j - (i - 1)]
        BY <1>1, <1>2, <3>2
      <4> QED
        BY <1>2, <3>2, <4>1, <4>2
    <3> QED
      BY <3>1, <3>2
  <2> QED
    BY <2>1, <2>2
<1>5. ToEnd(s, i) = (a \o b) \o <<s[i]>>
  BY DEF ToEnd, RemoveAt, a, b
<1> DEFINE ab == a \o b
<1> HIDE DEF ab
<1>6. /\ ab \in Seq(E) /\ Len(ab) = Len(s) - 1
      /\ \A j \in 1 .. Len(s) - 1 : ab[j] = IF j < i THEN s[j] ELSE s[j + 1]
  BY <1>4 DEF ab
<1>7. ToEnd(s, i) = Append(ab, s[i])
  BY <1>3, <1>5, <1>6 DEF ab
<1> QED
  BY <1>3, <1>6, <1>7

\* What the cache holds, and what was asked for, each key once; memory is the end
\* of that.
Entries == Keys \X (Payloads \cup {Broken})

CacheTypes ==
    /\ file \in [Keys -> Payloads \cup {NoData, Broken}]
    /\ mem \in Seq(Entries) /\ asked \in Seq(Keys)
    /\ \A i \in 1 .. Len(mem) : mem[i][1] \in Hovers => mem[i][2] \in Payloads

RecentInv ==
    /\ \A i, j \in 1 .. Len(asked) : asked[i] = asked[j] => i = j
    /\ Len(mem) = IF Len(asked) < MemLimit THEN Len(asked) ELSE MemLimit
    /\ \A i \in 1 .. Len(mem) : mem[i][1] = asked[Len(asked) - Len(mem) + i]

CacheInv == CacheTypes /\ RecentInv

LEMMA CacheInitInv == CacheInit => CacheInv
  BY CacheAssumption DEF CacheInit, CacheInv, CacheTypes, RecentInv

\* A key that memory has.
LEMMA HitStep ==
    ASSUME CacheInv, NEW k \in Keys, Get(k), InMem(k)
    PROVE  CacheInv'
<1> DEFINE m == Len(mem)
           n == Len(asked)
<1>1. /\ mem \in Seq(Entries) /\ asked \in Seq(Keys) /\ m \in Nat /\ n \in Nat /\ m =< n
  BY CacheAssumption DEF CacheInv, CacheTypes, RecentInv
<1>2. PICK i \in 1 .. m : mem[i][1] = k /\ mem' = ToEnd(mem, i)
  <2>1. \E i \in DOMAIN mem : mem[i][1] = k
    BY DEF InMem
  <2> DEFINE c == CHOOSE i \in DOMAIN mem : mem[i][1] = k
  <2>2. c \in DOMAIN mem /\ mem[c][1] = k
    BY <2>1
  <2>3. mem' = ToEnd(mem, c)
    BY DEF Get, Touch
  <2> HIDE DEF c
  <2>4. c \in 1 .. m
    BY <1>1, <2>2
  <2> QED
    BY <2>2, <2>3, <2>4
<1>3. asked[n - m + i] = k /\ n - m + i \in 1 .. n
  BY <1>1, <1>2 DEF CacheInv, RecentInv
<1>4. asked' = ToEnd(asked, n - m + i)
  <2> DEFINE c == CHOOSE j \in DOMAIN asked : asked[j] = k
  <2>1. c \in DOMAIN asked /\ asked[c] = k
    BY <1>1, <1>3
  <2>2. c = n - m + i
    BY <1>1, <1>3, <2>1 DEF CacheInv, RecentInv
  <2>3. \E j \in DOMAIN asked : asked[j] = k
    BY <1>1, <1>3
  <2>4. asked' = ToEnd(asked, c)
    BY <2>3 DEF Get
  <2> QED
    BY <2>2, <2>4
<1>5. /\ mem' \in Seq(Entries) /\ Len(mem') = m
      /\ \A j \in 1 .. m :
           mem'[j] = IF j < i THEN mem[j] ELSE IF j < m THEN mem[j + 1] ELSE mem[i]
  BY <1>1, <1>2, MovedToEnd
<1>6. /\ asked' \in Seq(Keys) /\ Len(asked') = n
      /\ \A j \in 1 .. n :
           asked'[j] = IF j < n - m + i THEN asked[j] ELSE IF j < n THEN asked[j + 1] ELSE k
  BY <1>1, <1>3, <1>4, MovedToEnd
<1> HIDE DEF m, n
<1>7. CacheTypes'
  <2>1. ASSUME NEW j \in 1 .. m
        PROVE  mem'[j][1] \in Hovers => mem'[j][2] \in Payloads
    <3>1. PICK l \in 1 .. m : mem'[j] = mem[l]
      BY <1>1, <1>2, <1>5
    <3> QED
      BY <3>1 DEF CacheInv, CacheTypes, m
  <2> QED
    BY <1>5, <1>6, <2>1 DEF CacheInv, CacheTypes, Get
<1>8. \A p, q \in 1 .. n : asked[p] = asked[q] => p = q
  BY DEF CacheInv, RecentInv, n
<1>9. \A p, q \in 1 .. n : asked'[p] = asked'[q] => p = q
  <2> DEFINE from(p) == IF p < n - m + i THEN p ELSE IF p < n THEN p + 1 ELSE n - m + i
  <2>1. ASSUME NEW p \in 1 .. n
        PROVE  from(p) \in 1 .. n /\ asked'[p] = asked[from(p)]
    BY <1>1, <1>3, <1>6
  <2>2. \A p, q \in 1 .. n : from(p) = from(q) => p = q
    BY <1>1, <1>3
  <2> HIDE DEF from
  <2> QED
    BY <1>8, <2>1, <2>2
<1>10. \A j \in 1 .. m : mem[j][1] = asked[n - m + j]
  BY DEF CacheInv, RecentInv, m, n
<1>11. \A j \in 1 .. m : mem'[j][1] = asked'[n - m + j]
  <2> SUFFICES ASSUME NEW j \in 1 .. m
               PROVE  mem'[j][1] = asked'[n - m + j]
    OBVIOUS
  <2>1. n - m + j \in 1 .. n
    BY <1>1
  <2>2. CASE j < i
    <3>1. mem'[j][1] = asked[n - m + j]
      BY <1>5, <1>10, <2>2
    <3>2. n - m + j < n - m + i
      BY <1>1, <2>2
    <3> QED
      BY <1>6, <2>1, <3>1, <3>2
  <2>3. CASE ~(j < i) /\ j < m
    <3>1. j + 1 \in 1 .. m /\ n - m + (j + 1) = n - m + j + 1
      BY <1>1, <2>3
    <3>2. mem'[j][1] = asked[n - m + j + 1]
      BY <1>5, <1>10, <2>3, <3>1
    <3> QED
      BY <1>1, <1>6, <2>1, <2>3, <3>2
  <2>4. CASE ~(j < i) /\ j = m
    BY <1>1, <1>2, <1>5, <1>6, <2>1, <2>4
  <2> QED
    BY <1>1, <2>2, <2>3, <2>4
<1> QED
  BY <1>5, <1>6, <1>7, <1>9, <1>11 DEF CacheInv, RecentInv, m, n

\* A key that memory does not have and its file has.
LEMMA MissStep ==
    ASSUME CacheInv, NEW k \in Keys, Get(k), ~InMem(k)
    PROVE  CacheInv'
<1> DEFINE m == Len(mem)
           n == Len(asked)
           e == <<k, file[k]>>
<1>1. /\ mem \in Seq(Entries) /\ asked \in Seq(Keys) /\ m \in Nat /\ n \in Nat /\ m =< n
      /\ MemLimit \in Nat \ {0} /\ m = IF n < MemLimit THEN n ELSE MemLimit
  BY CacheAssumption DEF CacheInv, CacheTypes, RecentInv
<1>2. file[k] # NoData /\ Parses(k) /\ mem' = Evict(Append(mem, e)) /\ file' = file
  BY DEF Get
<1>3. e \in Entries /\ (k \in Hovers => file[k] \in Payloads)
  BY <1>2 DEF CacheInv, CacheTypes, Parses, Entries
<1>4. /\ \A p, q \in 1 .. n : asked[p] = asked[q] => p = q
      /\ \A j \in 1 .. m : mem[j][1] = asked[n - m + j]
      /\ \A j \in 1 .. m : mem[j][1] \in Hovers => mem[j][2] \in Payloads
  BY DEF CacheInv, CacheTypes, RecentInv
<1>5. \A j \in 1 .. m : mem[j][1] # k
  BY <1>1 DEF InMem
<1> HIDE DEF m, n, e
<1>6. m < MemLimit => /\ mem' \in Seq(Entries) /\ Len(mem') = m + 1
                      /\ \A j \in 1 .. m + 1 : mem'[j] = IF j < m + 1 THEN mem[j] ELSE e
  BY <1>1, <1>2, <1>3 DEF Evict, m
<1>7. m = MemLimit => /\ mem' \in Seq(Entries) /\ Len(mem') = m
                      /\ \A j \in 1 .. m : mem'[j] = IF j < m THEN mem[j + 1] ELSE e
  <2> DEFINE s == Append(mem, e)
  <2>1. /\ s \in Seq(Entries) /\ Len(s) = m + 1
        /\ \A j \in 1 .. m + 1 : s[j] = IF j < m + 1 THEN mem[j] ELSE e
    BY <1>1, <1>3 DEF m
  <2> HIDE DEF s
  <2>2. m = MemLimit => mem' = Tail(s)
    BY <1>1, <1>2, <2>1 DEF Evict, s
  <2>3. /\ Tail(s) \in Seq(Entries) /\ Len(Tail(s)) = m
        /\ \A j \in 1 .. m : Tail(s)[j] = s[j + 1]
    BY <1>1, <2>1
  <2>4. ASSUME m = MemLimit, NEW j \in 1 .. m
        PROVE  mem'[j] = IF j < m THEN mem[j + 1] ELSE e
    <3>1. mem'[j] = s[j + 1] /\ j + 1 \in 1 .. m + 1
      <4>1. mem' = Tail(s)
        BY <2>2, <2>4
      <4>2. Tail(s)[j] = s[j + 1] /\ j + 1 \in 1 .. m + 1
        BY <1>1, <2>3
      <4> QED
        BY <4>1, <4>2
    <3> QED
      BY <1>1, <2>1, <3>1
  <2> QED
    BY <2>2, <2>3, <2>4
<1>8. CacheTypes'
  <2>1. mem' \in Seq(Entries)
    BY <1>1, <1>6, <1>7
  <2>2. ASSUME NEW j \in 1 .. Len(mem')
        PROVE  mem'[j][1] \in Hovers => mem'[j][2] \in Payloads
    <3>1. mem'[j] = e \/ \E l \in 1 .. m : mem'[j] = mem[l]
      BY <1>1, <1>6, <1>7
    <3> QED
      BY <1>3, <1>4, <3>1 DEF e
  <2>3. asked' \in Seq(Keys)
    <3>1. CASE \E i \in DOMAIN asked : asked[i] = k
      <4> DEFINE c == CHOOSE i \in DOMAIN asked : asked[i] = k
      <4>1. c \in 1 .. Len(asked)
        BY <1>1, <3>1
      <4> HIDE DEF c
      <4>2. asked' = ToEnd(asked, c)
        BY <3>1 DEF Get, c
      <4> QED
        BY <1>1, <4>1, <4>2, MovedToEnd
    <3>2. CASE ~(\E i \in DOMAIN asked : asked[i] = k)
      BY <1>1, <3>2 DEF Get
    <3> QED
      BY <3>1, <3>2
  <2> QED
    BY <1>2, <2>1, <2>2, <2>3 DEF CacheInv, CacheTypes
<1>9. CASE \E i \in DOMAIN asked : asked[i] = k
  <2> DEFINE c == CHOOSE i \in DOMAIN asked : asked[i] = k
  <2>1. c \in 1 .. n /\ asked[c] = k
    BY <1>1, <1>9 DEF n
  <2> HIDE DEF c
  <2>2. asked' = ToEnd(asked, c)
    BY <1>9 DEF Get, c
  <2>3. /\ Len(asked') = n
        /\ \A j \in 1 .. n :
             asked'[j] = IF j < c THEN asked[j] ELSE IF j < n THEN asked[j + 1] ELSE k
    BY <1>1, <2>1, <2>2, MovedToEnd DEF n
  <2>4. c =< n - m
    <3>1. ASSUME c > n - m
          PROVE  FALSE
      <4>1. c - (n - m) \in 1 .. m /\ n - m + (c - (n - m)) = c
        BY <1>1, <2>1, <3>1
      <4>2. mem[c - (n - m)][1] = k
        BY <1>4, <2>1, <4>1
      <4> QED
        BY <1>5, <4>1, <4>2
    <3> QED
      BY <1>1, <2>1, <3>1
  <2>5. m = MemLimit /\ m > 0
    BY <1>1, <2>1, <2>4
  <2>6. \A p, q \in 1 .. n : asked'[p] = asked'[q] => p = q
    <3> DEFINE from(p) == IF p < c THEN p ELSE IF p < n THEN p + 1 ELSE c
    <3>1. ASSUME NEW p \in 1 .. n
          PROVE  from(p) \in 1 .. n /\ asked'[p] = asked[from(p)]
      BY <1>1, <2>1, <2>3
    <3>2. \A p, q \in 1 .. n : from(p) = from(q) => p = q
      BY <1>1, <2>1
    <3> HIDE DEF from
    <3> QED
      BY <1>4, <3>1, <3>2
  <2>7. ASSUME NEW j \in 1 .. m
        PROVE  mem'[j][1] = asked'[n - m + j]
    <3>1. n - m + j \in 1 .. n /\ ~(n - m + j < c)
      BY <1>1, <2>1, <2>4
    <3>2. CASE j < m
      <4>1. j + 1 \in 1 .. m /\ n - m + (j + 1) = n - m + j + 1 /\ n - m + j < n
        BY <1>1, <3>2
      <4>2. mem'[j][1] = asked[n - m + j + 1]
        BY <1>4, <1>7, <2>5, <3>2, <4>1
      <4> QED
        BY <2>3, <3>1, <4>1, <4>2
    <3>3. CASE j = m
      <4>1. n - m + j = n
        BY <1>1, <3>3
      <4>2. mem'[j][1] = k
        BY <1>7, <2>5, <3>3 DEF e
      <4> QED
        BY <2>3, <3>1, <4>1, <4>2
    <3> QED
      BY <1>1, <3>2, <3>3
  <2> QED
    BY <1>1, <1>7, <1>8, <2>3, <2>5, <2>6, <2>7 DEF CacheInv, RecentInv
<1>10. CASE ~(\E i \in DOMAIN asked : asked[i] = k)
  <2>1. asked' = Append(asked, k)
    BY <1>10 DEF Get
  <2>2. /\ Len(asked') = n + 1
        /\ \A j \in 1 .. n + 1 : asked'[j] = IF j < n + 1 THEN asked[j] ELSE k
    BY <1>1, <2>1 DEF n
  <2>3. \A j \in 1 .. n : asked[j] # k
    BY <1>1, <1>10 DEF n
  <2>4. \A p, q \in 1 .. n + 1 : asked'[p] = asked'[q] => p = q
    BY <1>1, <1>4, <2>2, <2>3
  <2>5. CASE m < MemLimit
    <3>1. m = n
      BY <1>1, <2>5
    <3>2. ASSUME NEW j \in 1 .. m
          PROVE  mem[j][1] = asked[j]
      <4>1. n - m + j = j
        BY <1>1, <3>1
      <4> QED
        BY <1>4, <4>1
    <3>3. ASSUME NEW j \in 1 .. m + 1
          PROVE  mem'[j][1] = asked'[(n + 1) - (m + 1) + j]
      <4>1. (n + 1) - (m + 1) + j = j
        BY <1>1, <3>1
      <4>2. CASE j < m + 1
        <5>1. mem'[j][1] = asked[j]
          BY <1>1, <1>6, <2>5, <3>2, <4>2
        <5> QED
          BY <1>1, <2>2, <3>1, <4>1, <4>2, <5>1
      <4>3. CASE j = m + 1
        <5>1. mem'[j][1] = k
          BY <1>1, <1>6, <2>5, <4>3 DEF e
        <5> QED
          BY <1>1, <2>2, <3>1, <4>1, <4>3, <5>1
      <4> QED
        BY <1>1, <4>2, <4>3
    <3>4. Len(mem') = IF n + 1 < MemLimit THEN n + 1 ELSE MemLimit
      BY <1>1, <1>6, <2>5, <3>1
    <3>5. \A j \in 1 .. Len(mem') : mem'[j][1] = asked'[Len(asked') - Len(mem') + j]
      BY <1>6, <2>2, <2>5, <3>3
    <3> QED
      BY <1>8, <2>2, <2>4, <3>4, <3>5 DEF CacheInv, RecentInv
  <2>6. CASE m = MemLimit
    <3>1. ASSUME NEW j \in 1 .. m
          PROVE  mem'[j][1] = asked'[(n + 1) - m + j]
      <4>1. CASE j < m
        <5>1. /\ j + 1 \in 1 .. m /\ n - m + (j + 1) = (n + 1) - m + j
              /\ (n + 1) - m + j \in 1 .. n + 1 /\ (n + 1) - m + j < n + 1
          BY <1>1, <4>1
        <5>2. mem'[j][1] = asked[(n + 1) - m + j]
          BY <1>4, <1>7, <2>6, <4>1, <5>1
        <5> QED
          BY <2>2, <5>1, <5>2
      <4>2. CASE j = m
        <5>1. (n + 1) - m + j = n + 1 /\ n + 1 \in 1 .. n + 1
          BY <1>1, <4>2
        <5>2. mem'[j][1] = k
          BY <1>7, <2>6, <4>2 DEF e
        <5> QED
          BY <2>2, <5>1, <5>2
      <4> QED
        BY <1>1, <4>1, <4>2
    <3>2. Len(mem') = IF n + 1 < MemLimit THEN n + 1 ELSE MemLimit
      BY <1>1, <1>7, <2>6
    <3>3. \A j \in 1 .. Len(mem') : mem'[j][1] = asked'[Len(asked') - Len(mem') + j]
      BY <1>7, <2>2, <2>6, <3>1
    <3> QED
      BY <1>8, <2>2, <2>4, <3>2, <3>3 DEF CacheInv, RecentInv
  <2> QED
    BY <1>1, <2>5, <2>6
<1> QED
  BY <1>9, <1>10

LEMMA CacheStep == CacheInv /\ [CacheNext]_cacheVars => CacheInv'
<1> SUFFICES ASSUME CacheInv, [CacheNext]_cacheVars
             PROVE  CacheInv'
  OBVIOUS
<1>1. ASSUME NEW k \in Keys, Upload(k)
      PROVE  CacheInv'
  <2>1. file' \in [Keys -> Payloads \cup {NoData, Broken}]
    BY <1>1 DEF Upload, CacheInv, CacheTypes
  <2> QED
    BY <1>1, <2>1 DEF Upload, CacheInv, CacheTypes, RecentInv
<1>2. ASSUME NEW k \in Keys, Get(k)
      PROVE  CacheInv'
  BY <1>2, HitStep, MissStep
<1>3. CASE Forgets
  BY <1>3, CacheAssumption DEF Forgets, CacheInv, CacheTypes, RecentInv
<1>4. CASE UNCHANGED cacheVars
  BY <1>4 DEF cacheVars, CacheInv, CacheTypes, RecentInv
<1> QED
  BY <1>1, <1>2, <1>3, <1>4 DEF CacheNext

LEMMA CacheAlways == CacheSpec => []CacheInv
  BY CacheInitInv, CacheStep, PTL DEF CacheSpec

\* What memory and files hold keeps its type: hover data is parsed before it is
\* kept (get_hover_data).
THEOREM CacheTypesHold == CacheSpec => []CacheTypeOK
<1>1. CacheInv => CacheTypeOK
  <2> SUFFICES ASSUME CacheInv
               PROVE  CacheTypeOK
    OBVIOUS
  <2>1. mem \in Seq(Entries) /\ \A i \in 1 .. Len(mem) : mem[i] \in Entries
    BY DEF CacheInv, CacheTypes
  <2> QED
    BY <2>1 DEF CacheInv, CacheTypes, CacheTypeOK, Entries
<1> QED
  BY <1>1, CacheAlways, PTL

\* The cache holds the keys served last, as many as fit, each once, in the order
\* in which they were served (move_to_end, _evict).
THEOREM MemIsAlwaysMostRecent == CacheSpec => []MemIsMostRecent
<1>1. CacheInv => MemIsMostRecent
  <2> SUFFICES ASSUME CacheInv
               PROVE  MemIsMostRecent
    OBVIOUS
  <2> DEFINE m == Len(mem)
             n == Len(asked)
             suffix == SubSeq(asked, n - m + 1, n)
             keys == [i \in DOMAIN mem |-> mem[i][1]]
  <2>1. /\ mem \in Seq(Entries) /\ asked \in Seq(Keys) /\ m \in Nat /\ n \in Nat /\ m =< n
        /\ m = IF n < MemLimit THEN n ELSE MemLimit
    BY CacheAssumption DEF CacheInv, CacheTypes, RecentInv
  <2>2. suffix \in Seq(Keys) /\ Len(suffix) = m
        /\ \A i \in 1 .. m : suffix[i] = asked[n - m + i]
    BY <2>1
  <2>3. keys \in Seq(Keys) /\ Len(keys) = m /\ \A i \in 1 .. m : keys[i] = mem[i][1]
    BY <2>1 DEF Entries
  <2>4. \A i \in 1 .. m : keys[i] = suffix[i]
    BY <2>2, <2>3 DEF CacheInv, RecentInv
  <2> HIDE DEF suffix, keys
  <2>5. keys = suffix
    BY <2>2, <2>3, <2>4, SeqEqual
  <2> QED
    BY <2>1, <2>5 DEF MemIsMostRecent, suffix, keys
<1> QED
  BY <1>1, CacheAlways, PTL

=============================================================================
