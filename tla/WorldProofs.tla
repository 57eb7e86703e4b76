---------------------------- MODULE WorldProofs -----------------------------
(***************************************************************************)
(* Proofs about what the server keeps and makes of the world: tokens and   *)
(* seed (for any number of clients, starts, crashes and corrections of the *)
(* configuration), archives and cloud storage (for any regions and times); *)
(* and that the parts of the server, explored together, follow their own   *)
(* specifications.                                                         *)
(***************************************************************************)
EXTENDS MCServerParts, ChunkStorageProofs, TaskTableProofs, MapProofs, TLAPS

(* Continuity: tokens stay valid, and the worlds have one seed *)

\* The key file decides: every token was signed with what it holds, the key in
\* memory is what it holds, and while a drawn key is not yet written there are
\* neither tokens nor a key in memory.
TokenInv ==
    /\ token \in [Users -> {keyFile, Unset}]
    /\ cached # Unset => cached = keyFile
    /\ fresh # Unset => cached = Unset /\ \A u \in Users : token[u] = Unset

LEMMA TokenInit == ContinuityInit => TokenInv
  BY DEF ContinuityInit, TokenInv

LEMMA TokenStep == TokenInv /\ [ContinuityNext]_contVars => TokenInv'
<1> SUFFICES ASSUME TokenInv, [ContinuityNext]_contVars
             PROVE  TokenInv'
  OBVIOUS
<1> USE DEF TokenInv
<1>1. CASE LoadKey
  <2>1. CASE keyFile # Unset
    BY <1>1, <2>1 DEF LoadKey, ReadsKey
  <2>2. CASE keyFile = Unset
    <3>1. \A u \in Users : token[u] = Unset
      BY <2>2
    <3>2. token' = token /\ cached' = Unset
      BY <1>1, <2>2 DEF LoadKey, ReadsKey
    <3> QED BY <3>1, <3>2
  <2> QED BY <2>1, <2>2
<1>2. CASE WriteKey
  BY <1>2 DEF WriteKey
<1>3. ASSUME NEW u \in Users, LogIn(u) PROVE TokenInv'
  BY <1>3 DEF LogIn, serverSide
<1>4. CASE StartServer \/ EnsureConfig \/ Edited \/ Corrected
  BY <1>4 DEF StartServer, EnsureConfig, Edited, Corrected
<1>5. CASE Stop
  BY <1>5 DEF Stop, Ends
<1>6. ASSUME NEW u \in Users, FetchConfig(u) \/ CreateWorld(u) PROVE TokenInv'
  BY <1>6 DEF FetchConfig, CreateWorld, serverSide
<1>7. CASE UNCHANGED contVars
  BY <1>7 DEF contVars, serverSide
<1> QED
  BY <1>1, <1>2, <1>3, <1>4, <1>5, <1>6, <1>7 DEF ContinuityNext

\* Whenever the server knows its key it is the one every token was signed with,
\* whatever restarts and crashes there were (get_secret_key in
\* server/routes/auth.py).
THEOREM TokensAlwaysValid == ContinuitySpec => []TokensStayValid
<1>1. TokenInv => TokensStayValid
  BY DEF TokenInv, TokensStayValid
<1> QED
  BY TokenInit, TokenStep, <1>1, PTL DEF ContinuitySpec

-----------------------------------------------------------------------------

\* The configurations clients have fetched and the worlds they created from them.
Copies == ({got[u] : u \in Users} \cup {world[u] : u \in Users}) \ {Unset}

Accepted == config.filled = "all" /\ ~config.wrong

\* Once a client has a copy the configuration is settled and never edited again.
\* A copy of the current start has this process's seed, copies of one start have
\* one seed, and with a seed in the file it is that of every copy.
SeedInv ==
    /\ starts \in Nat
    /\ got \in [Users -> Copies \cup {Unset}] /\ world \in [Users -> Copies \cup {Unset}]
    /\ phase = "up" \/ Copies # {} => Accepted
    /\ phase = "edited" => config.filled = "none"
    /\ phase = "starting" => ~config.wrong
    /\ phase \in {"starting", "up"} /\ config.seeded => seed = 0
    /\ \A x \in Copies :
        /\ x.start \in Nat /\ x.start <= starts
        /\ x.start = starts => x.seed = seed
        /\ config.seeded => x.seed = 0
        /\ \A y \in Copies : x.start = y.start => x.seed = y.seed

LEMMA SeedInit == ContinuityInit => SeedInv
<1> SUFFICES ASSUME ContinuityInit PROVE SeedInv
  OBVIOUS
<1>1. Copies = {}
  BY DEF ContinuityInit, Copies
<1> QED
  BY <1>1 DEF ContinuityInit, SeedInv

\* A step that changes neither copies nor configuration, and the seed only with
\* the start.
LEMMA SameCopies ==
    ASSUME SeedInv, UNCHANGED <<got, world, config, starts, seed>>,
           phase' = "up" => Accepted,
           phase' = "edited" => config.filled = "none",
           phase' = "starting" => ~config.wrong,
           phase' \in {"starting", "up"} /\ config.seeded => seed = 0
    PROVE  SeedInv'
<1>1. Copies' = Copies
  BY DEF Copies
<1> QED
  BY <1>1 DEF SeedInv, Accepted

\* A step of the configuration, taken while no client has a copy.
LEMMA NoCopies ==
    ASSUME SeedInv, Copies = {}, UNCHANGED <<got, world, starts>>,
           phase' = "up" => Accepted',
           phase' = "edited" => config'.filled = "none",
           phase' = "starting" => ~config'.wrong,
           phase' \in {"starting", "up"} /\ config'.seeded => seed' = 0
    PROVE  SeedInv'
<1>1. Copies' = {}
  BY DEF Copies
<1> QED
  BY <1>1 DEF SeedInv

\* A client forgets its copy, or makes a world of it.
LEMMA FewerCopies ==
    ASSUME SeedInv, UNCHANGED serverSide, NEW u \in Users,
           \/ world' = world /\ got' = [got EXCEPT ![u] = Unset]
           \/ got' = got /\ world' = [world EXCEPT ![u] = got[u]]
    PROVE  SeedInv'
<1>1. UNCHANGED <<config, phase, starts, seed>>
  BY DEF serverSide
<1>2. /\ got' \in [Users -> Copies \cup {Unset}]
      /\ world' \in [Users -> Copies \cup {Unset}]
  BY DEF SeedInv
<1>3. Copies' \subseteq Copies
  BY <1>2 DEF Copies
<1>4. /\ got' \in [Users -> Copies' \cup {Unset}]
      /\ world' \in [Users -> Copies' \cup {Unset}]
  BY <1>2 DEF Copies
<1> QED
  BY <1>1, <1>3, <1>4 DEF SeedInv, Accepted

LEMMA SeedStep == SeedInv /\ [ContinuityNext]_contVars => SeedInv'
<1> SUFFICES ASSUME SeedInv, [ContinuityNext]_contVars
             PROVE  SeedInv'
  OBVIOUS
<1>1. CASE StartServer
  <2>1. Copies' = Copies /\ UNCHANGED <<got, world, config>> /\ starts' = starts + 1
    BY <1>1 DEF StartServer, Copies
  <2>2. \A x \in Copies : x.start < starts'
    BY <2>1 DEF SeedInv
  <2>3. phase' \in {"starting", "down"} /\ (phase' = "starting" => ~config.wrong)
    BY <1>1 DEF StartServer
  <2>4. phase' = "starting" /\ config.seeded => seed' = 0
    BY <1>1 DEF StartServer, LoadSeed
  <2> QED
    BY <2>1, <2>2, <2>3, <2>4 DEF SeedInv, Accepted
<1>2. CASE EnsureConfig
  <2>1. UNCHANGED <<got, world, config, starts, seed>> /\ phase = "starting"
    BY <1>2 DEF EnsureConfig
  <2>2. CASE ~Unconfigured(config) /\ Validated(config) /\ phase' = "up"
    <3>1. config.filled = "all"
      BY <2>2 DEF Validated
    <3> QED BY <2>1, <2>2, <3>1, SameCopies DEF SeedInv, Accepted
  <2>3. CASE phase' = "down"
    BY <2>1, <2>3, SameCopies
  <2>4. CASE Unconfigured(config) /\ phase' = "edited"
    BY <2>1, <2>4, SameCopies DEF Unconfigured
  <2> QED BY <1>2, <2>2, <2>3, <2>4 DEF EnsureConfig
<1>3. CASE Edited
  <2>1. Copies = {}
    BY <1>3 DEF Edited, SeedInv, Accepted
  <2>2. PICK c \in ConfigFile :
          /\ config' = c
          /\ \/ phase' = "down"
             \/ ~c.wrong /\ LoadSeed(c) /\ phase' = "up" /\ Validated(c)
             \/ ~c.wrong /\ LoadSeed(c) /\ phase' = "edited" /\ Unconfigured(c)
    BY <1>3 DEF Edited
  <2>3. UNCHANGED <<got, world, starts>>
    BY <1>3 DEF Edited
  <2> QED
    BY <2>1, <2>2, <2>3, NoCopies DEF LoadSeed, Validated, Unconfigured, Accepted
<1>4. CASE Corrected
  <2>1. Copies = {}
    BY <1>4 DEF Corrected, SeedInv, Accepted
  <2> QED
    BY <1>4, <2>1, NoCopies DEF Corrected
<1>5. CASE Stop
  BY <1>5, SameCopies DEF Stop, Ends
<1>6. CASE LoadKey \/ WriteKey
  BY <1>6, SameCopies DEF LoadKey, WriteKey, SeedInv
<1>7. ASSUME NEW u \in Users, LogIn(u) PROVE SeedInv'
  <2>1. UNCHANGED serverSide /\ world' = world /\ got' = [got EXCEPT ![u] = Unset]
    BY <1>7 DEF LogIn
  <2> QED BY <2>1, FewerCopies
<1>8. ASSUME NEW u \in Users, FetchConfig(u) PROVE SeedInv'
  <2> DEFINE x == [seed |-> seed, start |-> starts]
  <2>1. /\ UNCHANGED serverSide /\ world' = world /\ phase = "up"
        /\ got' = [got EXCEPT ![u] = x]
    BY <1>8 DEF FetchConfig
  <2>2. /\ Copies' \subseteq Copies \cup {x}
        /\ got' \in [Users -> Copies' \cup {Unset}] /\ world' \in [Users -> Copies' \cup {Unset}]
    BY <2>1 DEF Copies, SeedInv
  <2>3. UNCHANGED <<config, phase, starts, seed>>
    BY <2>1 DEF serverSide
  <2>4. x.start = starts /\ x.seed = seed
    OBVIOUS
  <2> HIDE DEF x
  <2>5. \A y \in Copies' : /\ y.start \in Nat /\ y.start <= starts
                           /\ y.start = starts => y.seed = seed
                           /\ config.seeded => y.seed = 0
    BY <2>1, <2>2, <2>4 DEF SeedInv
  <2>6. \A y, z \in Copies' : y.start = z.start => y.seed = z.seed
    BY <2>2, <2>4, <2>5 DEF SeedInv
  <2> QED
    BY <2>1, <2>2, <2>3, <2>5, <2>6 DEF SeedInv, Accepted
<1>9. ASSUME NEW u \in Users, CreateWorld(u) PROVE SeedInv'
  <2>1. UNCHANGED serverSide /\ got' = got /\ world' = [world EXCEPT ![u] = got[u]]
    BY <1>9 DEF CreateWorld
  <2> QED BY <2>1, FewerCopies
<1>10. CASE UNCHANGED contVars
  BY <1>10, SameCopies DEF contVars, serverSide, SeedInv
<1> QED
  BY <1>1, <1>2, <1>3, <1>4, <1>5, <1>6, <1>7, <1>8, <1>9, <1>10 DEF ContinuityNext

\* The worlds the clients generate have one seed, unless it was left to chance
\* and they read the configuration in different starts (server/config.py).
THEOREM WorldsHaveOneSeed == ContinuitySpec => []OneSeedPerWorld
<1>1. SeedInv => OneSeedPerWorld
  <2> SUFFICES ASSUME SeedInv, NEW u \in Users, NEW v \in Users,
                      world[u] # Unset, world[v] # Unset, world[u].seed # world[v].seed
               PROVE  ~config.seeded /\ world[u].start # world[v].start
    BY DEF OneSeedPerWorld
  <2>1. world[u] \in Copies /\ world[v] \in Copies
    BY DEF Copies
  <2> QED BY <2>1 DEF SeedInv
<1> QED
  BY SeedInit, SeedStep, <1>1, PTL DEF ContinuitySpec

-----------------------------------------------------------------------------
(* Export: what archives and cloud storage hold *)

\* What an upload has still to send and what is sent are together all there is.
CloudInv ==
    /\ due \subseteq cloud
    /\ task = "uploading" => Stored \subseteq left \cup cloud

LEMMA CloudStep == CloudInv /\ [ExportNext]_exportVars => CloudInv'
<1> SUFFICES ASSUME CloudInv, [ExportNext]_exportVars
             PROVE  CloudInv'
  OBVIOUS
<1> USE DEF CloudInv
<1>1. CASE Tick
  BY <1>1 DEF Tick, Stored
<1>2. CASE Assemble \/ AssembleEnds
  BY <1>2 DEF Assemble, AssembleEnds
<1>3. CASE StartExport \/ ExportEnds
  BY <1>3 DEF StartExport, ExportEnds
<1>4. CASE UploadEnds
  BY <1>4 DEF UploadEnds
<1>5. CASE CutOff
  BY <1>5 DEF CutOff
<1>6. ASSUME NEW f \in Areas, StoreArea(f) \/ Pack(f) PROVE CloudInv'
  BY <1>6 DEF StoreArea, Pack
<1>7. ASSUME NEW f \in Areas, AssembleFile(f) PROVE CloudInv'
  BY <1>7 DEF AssembleFile, CopyCut
<1>8. ASSUME NEW f \in Areas, StartUpload(f) PROVE CloudInv'
  BY <1>8 DEF StartUpload, ToUpload, Stored
<1>9. ASSUME NEW f \in Areas, UploadFile(f) PROVE CloudInv'
  BY <1>9 DEF UploadFile, Stored
<1>10. ASSUME NEW t \in Times, Delete(t) PROVE CloudInv'
  BY <1>10 DEF Delete, Stored
<1>11. CASE UNCHANGED exportVars
  BY <1>11 DEF exportVars, Stored
<1> QED
  BY <1>1, <1>2, <1>3, <1>4, <1>5, <1>6, <1>7, <1>8, <1>9, <1>10, <1>11 DEF ExportNext

\* Cloud storage has all that was stored when an upload last ended well
\* (S3Storage.upload_batch sends every region, server/s3_storage.py).
THEOREM CloudAlwaysCatchesUp == ExportSpec => []CloudCatchesUp
<1>1. ExportInit => CloudInv
  BY DEF ExportInit, CloudInv
<1>2. CloudInv => CloudCatchesUp
  BY DEF CloudInv, CloudCatchesUp
<1> QED
  BY <1>1, CloudStep, <1>2, PTL DEF ExportSpec

-----------------------------------------------------------------------------

Types ==
    /\ kept \in [Areas -> {"absent", "part", "whole"}]
    /\ exported \in [Areas -> {"absent", "part", "whole"}]
    /\ archives \in [Times -> Archive]
    /\ clock \in Times /\ into \in Times

\* What is in the exported world is stored; it is in part exactly where its copy
\* was cut short or what is stored is in part.
WorldInv ==
    /\ covered \subseteq Assembled /\ spoilt \subseteq Assembled
    /\ \A f \in Assembled :
        /\ kept[f] # "absent"
        /\ exported[f] = "part" <=> f \in spoilt \/ kept[f] = "part"
    /\ task = "assembling" => left \subseteq Stored /\ Stored \subseteq left \cup Assembled

\* An archive holds files of the exported world, and it is not newer than the
\* clock; those under way are the newest and lack only what is left.
ArchiveInv ==
    /\ \A t \in Times : archives[t].is # "absent" =>
        /\ t <= clock /\ (task = "exporting" => t <= into)
        /\ archives[t].has \subseteq Assembled
        /\ archives[t].torn = {f \in archives[t].has : exported[f] = "part"}
    /\ task = "exporting" =>
        /\ archives[into].is = "part" /\ into <= clock
        /\ archives[into].must = covered
        /\ left \subseteq Assembled /\ Assembled \subseteq left \cup archives[into].has
    /\ \A t \in Times : archives[t].is = "whole" =>
        /\ archives[t].must \subseteq archives[t].has
        /\ \A u \in Times : u < t /\ archives[u].is = "whole"
            => archives[u].has \subseteq archives[t].has

WholeInv == Types /\ WorldInv /\ ArchiveInv

LEMMA WholeInit == ExportInit => WholeInv
<1> SUFFICES ASSUME ExportInit PROVE WholeInv
  OBVIOUS
<1> USE DEF ExportInit
<1>1. Types
  BY ExportAssumption DEF Types, Times, Archive, NoArchive
<1>2. Assembled = {}
  BY DEF Assembled
<1> QED
  BY <1>1, <1>2 DEF WholeInv, WorldInv, ArchiveInv, NoArchive

\* A step that changes neither regions nor copies.
LEMMA SameWorld ==
    ASSUME WorldInv, UNCHANGED <<kept, exported, covered, spoilt>>,
           task' = "assembling" => left' \subseteq Stored /\ Stored \subseteq left' \cup Assembled
    PROVE  WorldInv'
  BY DEF WorldInv, Stored, Assembled

\* A step that changes no archive.
LEMMA SameArchives ==
    ASSUME Types, ArchiveInv, UNCHANGED <<archives, exported, into>>,
           clock' \in Times, clock <= clock',
           task' = "exporting" => UNCHANGED <<task, left, covered>>
    PROVE  ArchiveInv'
<1>1. Assembled' = Assembled
  BY DEF Assembled
<1> QED
  BY <1>1 DEF Types, ArchiveInv, Times

\* A step that writes a file of the exported world.
LEMMA FileAssembled ==
    ASSUME WholeInv, NEW f \in Areas, f \in Stored \ Assembled,
           NEW s \in {"part", "whole"}, exported' = [exported EXCEPT ![f] = s],
           UNCHANGED <<kept, archives, clock, into, covered>>,
           spoilt' \subseteq spoilt \cup {f}, spoilt \subseteq spoilt',
           s = "part" <=> f \in spoilt' \/ kept[f] = "part",
           task' # "exporting",
           task' = "assembling" => task = "assembling" /\ left' = left \ {f}
    PROVE  WholeInv'
<1>1. Types'
  BY DEF WholeInv, Types
<1>2. Assembled' = Assembled \cup {f} /\ \A g \in Assembled : exported'[g] = exported[g]
  BY DEF Assembled, WholeInv, Types
<1>3. WorldInv'
  <2>1. covered' \subseteq Assembled' /\ spoilt' \subseteq Assembled'
    BY <1>2 DEF WholeInv, WorldInv
  <2>2. ASSUME NEW g \in Assembled'
        PROVE  /\ kept'[g] # "absent"
               /\ exported'[g] = "part" <=> g \in spoilt' \/ kept'[g] = "part"
    <3>1. CASE g = f
      BY <3>1 DEF Stored, WholeInv, Types
    <3>2. CASE g # f
      <4>1. g \in Assembled
        BY <1>2, <3>2
      <4>2. exported'[g] = exported[g] /\ (g \in spoilt' <=> g \in spoilt)
        BY <1>2, <3>2, <4>1
      <4> QED BY <4>1, <4>2 DEF WholeInv, WorldInv
    <3> QED BY <3>1, <3>2
  <2>3. task' = "assembling" => left' \subseteq Stored' /\ Stored' \subseteq left' \cup Assembled'
    BY <1>2 DEF WholeInv, WorldInv, Stored
  <2> QED BY <2>1, <2>2, <2>3 DEF WorldInv
<1>4. ArchiveInv'
  <2>1. ASSUME NEW t \in Times, archives[t].is # "absent"
        PROVE  /\ t <= clock /\ archives[t].has \subseteq Assembled'
               /\ archives[t].torn = {g \in archives[t].has : exported'[g] = "part"}
    <3>1. /\ t <= clock /\ archives[t].has \subseteq Assembled
          /\ archives[t].torn = {g \in archives[t].has : exported[g] = "part"}
      BY <2>1 DEF WholeInv, ArchiveInv
    <3> QED BY <1>2, <3>1
  <2> QED BY <2>1 DEF WholeInv, ArchiveInv
<1> QED
  BY <1>1, <1>3, <1>4 DEF WholeInv

LEMMA WholeStep == WholeInv /\ [ExportNext]_exportVars => WholeInv'
<1> SUFFICES ASSUME WholeInv, [ExportNext]_exportVars
             PROVE  WholeInv'
  OBVIOUS
<1>0. Types /\ WorldInv /\ ArchiveInv
  BY DEF WholeInv
<1> USE DEF WholeInv
<1>1. CASE Tick
  <2>1. Types' /\ clock <= clock'
    BY <1>0, <1>1, ExportAssumption DEF Tick, Types, Times
  <2> QED
    BY <1>0, <1>1, <2>1, SameWorld, SameArchives DEF Tick, Types, WorldInv
<1>2. ASSUME NEW f \in Areas, StoreArea(f) PROVE WholeInv'
  <2>1. Types'
    BY <1>0, <1>2 DEF StoreArea, Types
  <2>2. WorldInv'
    BY <1>0, <1>2 DEF StoreArea, Types, WorldInv, Assembled
  <2>3. ArchiveInv'
    BY <1>0, <1>2, SameArchives DEF StoreArea, Types, Times
  <2> QED BY <2>1, <2>2, <2>3
<1>3. CASE Assemble \/ CutOff \/ UploadEnds
  <2>1. UNCHANGED <<hard, kept, exported, clock, archives, into, covered, spoilt>>
    BY <1>3 DEF Assemble, CutOff, UploadEnds
  <2>2. Types'
    BY <1>0, <2>1 DEF Types
  <2>3. task' # "exporting" /\ (task' = "assembling" => left' = Stored)
    BY <1>3 DEF Assemble, CutOff, UploadEnds
  <2> QED
    BY <1>0, <2>1, <2>2, <2>3, SameWorld, SameArchives DEF Types, Times
<1>4. ASSUME NEW f \in Areas, AssembleFile(f) PROVE WholeInv'
  <2>0. task = "assembling" /\ UNCHANGED <<hard, kept, clock, archives, into, covered>>
    BY <1>4 DEF AssembleFile
  <2>1. CASE Skips(f) /\ left' = left \ {f} /\ UNCHANGED <<exported, spoilt, task>>
    <3>1. Types'
      BY <1>0, <2>0, <2>1 DEF Types
    <3>2. WorldInv'
      BY <1>0, <2>0, <2>1 DEF WorldInv, Stored, Assembled, Skips
    <3>3. ArchiveInv'
      BY <1>0, <2>0, <2>1, SameArchives DEF Types, Times
    <3> QED BY <3>1, <3>2, <3>3
  <2>2. CASE ~Skips(f) /\ kept[f] # "absent"
    <3>1. f \in Stored \ Assembled
      BY <2>2 DEF Skips, Stored, Assembled
    <3>2. CASE /\ exported' = [exported EXCEPT ![f] = kept[f]] /\ left' = left \ {f}
               /\ UNCHANGED <<spoilt, task>>
      <4>1. kept[f] \in {"part", "whole"} /\ f \notin spoilt
        BY <1>0, <2>2, <3>1 DEF Types, WorldInv
      <4> QED
        BY <2>0, <3>1, <3>2, <4>1, FileAssembled
    <3>3. CASE CopyCut(f)
      BY <2>0, <3>1, <3>3, FileAssembled DEF CopyCut
    <3> QED BY <1>4, <2>2, <3>2, <3>3 DEF AssembleFile
  <2>3. kept[f] # "absent"
    BY <1>0, <1>4, <2>0 DEF AssembleFile, WorldInv, Stored
  <2> QED BY <1>4, <2>1, <2>2, <2>3 DEF AssembleFile
<1>5. CASE AssembleEnds
  <2>1. Types' /\ task' = "idle"
    BY <1>0, <1>5 DEF AssembleEnds, Types
  <2>2. WorldInv'
    BY <1>0, <1>5 DEF AssembleEnds, WorldInv, Stored, Assembled
  <2>3. ArchiveInv'
    BY <1>0, <1>5, <2>1, SameArchives DEF AssembleEnds, Types, Times
  <2> QED BY <2>1, <2>2, <2>3
<1>6. CASE StartExport
  <2> DEFINE a == [NoArchive EXCEPT !.is = "part", !.must = covered]
  <2>1. /\ archives' = [archives EXCEPT ![clock] = a] /\ into' = clock
        /\ task' = "exporting" /\ left' = Assembled
        /\ UNCHANGED <<kept, exported, clock, covered, spoilt>>
    BY <1>6 DEF StartExport
  <2>2. a.is = "part" /\ a.has = {} /\ a.torn = {} /\ a.must = covered
    BY DEF NoArchive
  <2>3. covered \subseteq Areas
    BY <1>0 DEF WorldInv, Assembled
  <2>4. a \in Archive
    BY <2>3 DEF NoArchive, Archive
  <2> HIDE DEF a
  <2>5. Types'
    BY <1>0, <2>1, <2>4 DEF Types
  <2>6. WorldInv'
    BY <1>0, <2>1, SameWorld
  <2>7. archives'[clock] = a /\ \A t \in Times \ {clock} : archives'[t] = archives[t]
    BY <1>0, <2>1 DEF Types
  <2>8. Assembled' = Assembled
    BY <2>1 DEF Assembled
  <2>9. ArchiveInv'
    BY <1>0, <2>1, <2>2, <2>7, <2>8 DEF ArchiveInv, Types, Times
  <2> QED BY <2>5, <2>6, <2>9
<1>7. ASSUME NEW f \in Areas, Pack(f) PROVE WholeInv'
  <2> DEFINE a == archives[into]
             b == [a EXCEPT !.has = a.has \cup {f},
                            !.torn = IF exported[f] = "part" THEN a.torn \cup {f} ELSE a.torn]
  <2>1. /\ task = "exporting" /\ f \in left /\ left' = left \ {f}
        /\ archives' = [archives EXCEPT ![into] = b]
        /\ UNCHANGED <<kept, exported, clock, task, into, covered, spoilt>>
    BY <1>7 DEF Pack
  <2>2. a \in Archive
    BY <1>0 DEF Types
  <2>3. /\ b \in Archive /\ b.is = a.is /\ b.must = a.must /\ b.has = a.has \cup {f}
        /\ b.torn = IF exported[f] = "part" THEN a.torn \cup {f} ELSE a.torn
    BY <2>2 DEF Archive
  <2>4. /\ a.is = "part" /\ a.has \subseteq Assembled /\ f \in Assembled
        /\ a.torn = {g \in a.has : exported[g] = "part"}
    BY <1>0, <2>1 DEF ArchiveInv, Types
  <2> HIDE DEF b
  <2>5. b.has \subseteq Assembled /\ b.torn = {g \in b.has : exported[g] = "part"}
    BY <2>3, <2>4
  <2>6. Types'
    BY <1>0, <2>1, <2>3 DEF Types
  <2>7. WorldInv'
    BY <1>0, <2>1, SameWorld
  <2>8. archives'[into] = b /\ \A t \in Times \ {into} : archives'[t] = archives[t]
    BY <1>0, <2>1 DEF Types
  <2>9. Assembled' = Assembled
    BY <2>1 DEF Assembled
  <2>10. ArchiveInv'
    BY <1>0, <2>1, <2>3, <2>4, <2>5, <2>8, <2>9 DEF ArchiveInv, Types
  <2> QED BY <2>6, <2>7, <2>10
<1>8. CASE ExportEnds
  <2> DEFINE a == archives[into]
             b == [a EXCEPT !.is = "whole"]
  <2>1. /\ task = "exporting" /\ left = {} /\ task' = "idle"
        /\ archives' = [archives EXCEPT ![into] = b]
        /\ UNCHANGED <<kept, exported, clock, into, covered, spoilt>>
    BY <1>0, <1>8 DEF ExportEnds, Types
  <2>2. a \in Archive
    BY <1>0 DEF Types
  <2>3. /\ b \in Archive /\ b.is = "whole" /\ b.must = a.must /\ b.has = a.has
        /\ b.torn = a.torn
    BY <2>2 DEF Archive
  <2>4. /\ a.is = "part" /\ a.has = Assembled /\ a.must = covered /\ into <= clock
        /\ a.torn = {g \in a.has : exported[g] = "part"}
    BY <1>0, <2>1 DEF ArchiveInv, Types
  <2> HIDE DEF b
  <2>6. Types'
    BY <1>0, <2>1, <2>3 DEF Types
  <2>7. WorldInv'
    BY <1>0, <2>1, SameWorld
  <2>8. archives'[into] = b /\ \A t \in Times \ {into} : archives'[t] = archives[t]
    BY <1>0, <2>1 DEF Types
  <2>9. Assembled' = Assembled
    BY <2>1 DEF Assembled
  <2>10. \A t \in Times : archives[t].is # "absent" =>
            t <= into /\ t <= clock /\ archives[t].has \subseteq Assembled
    BY <1>0, <2>1 DEF ArchiveInv
  <2>11. ASSUME NEW t \in Times, archives'[t].is = "whole"
         PROVE  /\ archives'[t].must \subseteq archives'[t].has
                /\ \A u \in Times : u < t /\ archives'[u].is = "whole"
                        => archives'[u].has \subseteq archives'[t].has
    <3>1. CASE t = into
      BY <1>0, <2>3, <2>4, <2>8, <2>10, <3>1 DEF WorldInv, Times
    <3>2. CASE t # into
      BY <1>0, <2>8, <2>10, <2>11, <3>2 DEF ArchiveInv, Types, Times
    <3> QED BY <3>1, <3>2
  <2>12. \A t \in Times : archives'[t].is # "absent" =>
            /\ t <= clock /\ archives'[t].has \subseteq Assembled
            /\ archives'[t].torn = {f \in archives'[t].has : exported[f] = "part"}
    BY <1>0, <2>3, <2>4, <2>8 DEF ArchiveInv
  <2>13. ArchiveInv'
    BY <2>1, <2>9, <2>11, <2>12 DEF ArchiveInv
  <2> QED BY <2>6, <2>7, <2>13
<1>9. ASSUME NEW t \in Times, Delete(t) PROVE WholeInv'
  <2>1. /\ task = "idle" /\ archives' = [archives EXCEPT ![t] = NoArchive]
        /\ UNCHANGED <<kept, exported, clock, task, left, into, covered, spoilt>>
    BY <1>9 DEF Delete
  <2>2. NoArchive \in Archive /\ NoArchive.is = "absent"
    BY DEF NoArchive, Archive
  <2>3. Types'
    BY <1>0, <2>1, <2>2 DEF Types
  <2>4. WorldInv'
    BY <1>0, <2>1, SameWorld
  <2>5. archives'[t].is = "absent" /\ \A u \in Times \ {t} : archives'[u] = archives[u]
    BY <1>0, <2>1, <2>2 DEF Types
  <2>6. Assembled' = Assembled
    BY <2>1 DEF Assembled
  <2>7. ArchiveInv'
    BY <1>0, <2>1, <2>5, <2>6 DEF ArchiveInv
  <2> QED BY <2>3, <2>4, <2>7
<1>10. ASSUME NEW f \in Areas, StartUpload(f) \/ UploadFile(f) PROVE WholeInv'
  <2>1. /\ UNCHANGED <<hard, kept, exported, clock, archives, into, covered, spoilt>>
        /\ task' = "uploading"
    BY <1>10 DEF StartUpload, UploadFile
  <2>2. Types'
    BY <1>0, <2>1 DEF Types
  <2> QED
    BY <1>0, <2>1, <2>2, SameWorld, SameArchives DEF Types, Times
<1>11. CASE UNCHANGED exportVars
  <2>1. Types' /\ WorldInv'
    BY <1>0, <1>11 DEF exportVars, Types, WorldInv, Stored, Assembled
  <2> QED
    BY <1>0, <1>11, <2>1, SameArchives DEF exportVars, Types, Times
<1> QED
  BY <1>1, <1>2, <1>3, <1>4, <1>5, <1>6, <1>7, <1>8, <1>9, <1>10, <1>11 DEF ExportNext

\* A finished archive has what the last assembly before it looked at and all that
\* older archives have, as it is stored but for copies once cut short
\* (server/assembler.py, server/exporter.py).
THEOREM ArchivesAlwaysExplained == ExportSpec => []ArchivesAreExplained
<1>1. WholeInv => ArchivesAreExplained
  <2> SUFFICES ASSUME WholeInv, NEW t \in Times, archives[t].is = "whole"
               PROVE  archives[t].torn =
                          {f \in archives[t].has : f \in spoilt \/ kept[f] = "part"}
    BY DEF ArchivesAreExplained, WholeInv, ArchiveInv
  <2>1. /\ archives[t].has \subseteq Assembled
        /\ archives[t].torn = {f \in archives[t].has : exported[f] = "part"}
    BY DEF WholeInv, ArchiveInv
  <2>2. \A f \in archives[t].has : exported[f] = "part" <=> f \in spoilt \/ kept[f] = "part"
    BY <2>1 DEF WholeInv, WorldInv
  <2> QED BY <2>1, <2>2
<1> QED
  BY WholeInit, WholeStep, <1>1, PTL DEF ExportSpec

-----------------------------------------------------------------------------
(* Types *)

\* d draws, at s starts and e edits since the last of them, spare the three to come.
Within(d, s, e) == d + 3 <= 4 * s + e

\* Each start draws a seed, and so does each of its at most three edits.
CountInv ==
    /\ edits \in 0 .. 3 /\ starts \in 0 .. MaxStarts /\ draws \in Nat /\ keys \in Nat
    /\ starts = 0 => draws = 0
    /\ starts # 0 => Within(draws, starts, edits)

\* The numbers of a start in progress: edits are counted from 0 and end after the
\* third; what is loaded is not wrong and has a seed; a key is drawn while it is up.
PhaseInv ==
    /\ config \in ConfigFile
    /\ phase \in {"down", "starting", "edited", "up"}
    /\ phase = "starting" => edits = 0
    /\ phase = "edited" => edits < 3
    /\ phase # "down" => ~config.wrong /\ seed # Unset /\ starts > 0
    /\ phase = "up" => config.filled = "all"
    /\ fresh # Unset => phase = "up" /\ keyFile = 0

LEMMA SomeSeed ==
    ASSUME NEW c \in ConfigFile, draws \in Nat, LoadSeed(c)
    PROVE  seed' # Unset /\ draws' \in Nat /\ draws <= draws' /\ draws' <= draws + 1
  BY ContinuityAssumption DEF LoadSeed

\* One draw more at a start, which counts edits from 0 again.
LEMMA DrawAtStart ==
    ASSUME NEW d \in Nat, NEW n \in Nat, NEW e \in 0 .. 3, NEW x \in Nat,
           n = 0 => d = 0, n # 0 => Within(d, n, e), x <= d + 1
    PROVE  Within(x, n + 1, 0)
  BY DEF Within

\* One draw more at an edit.
LEMMA DrawAtEdit ==
    ASSUME NEW d \in Nat, NEW n \in Nat, NEW e \in 0 .. 3, NEW x \in Nat,
           Within(d, n, e), x <= d + 1
    PROVE  Within(x, n, e + 1)
  BY DEF Within

LEMMA CountStep == CountInv /\ PhaseInv /\ [ContinuityNext]_contVars => CountInv' /\ PhaseInv'
<1> SUFFICES ASSUME CountInv, PhaseInv, [ContinuityNext]_contVars
             PROVE  CountInv' /\ PhaseInv'
  OBVIOUS
<1> USE ContinuityAssumption
<1>1. CASE StartServer
  <2>1. /\ phase = "down" /\ starts' = starts + 1 /\ starts < MaxStarts /\ edits' = 0
        /\ UNCHANGED <<config, keyFile, fresh, keys>>
    BY <1>1 DEF StartServer
  <2>2. \/ phase' = "down" /\ draws' = draws
        \/ ~config.wrong /\ LoadSeed(config) /\ phase' = "starting"
    BY <1>1, <2>1 DEF StartServer
  <2>3. draws' \in Nat /\ draws' <= draws + 1
    <3>1. draws \in Nat
      BY DEF CountInv
    <3>2. CASE draws' = draws
      BY <3>1, <3>2
    <3> QED BY <2>2, <3>1, <3>2, SomeSeed DEF PhaseInv
  <2>4. CountInv'
    <3>1. /\ draws \in Nat /\ starts \in Nat /\ edits \in 0 .. 3 /\ keys \in Nat
          /\ starts = 0 => draws = 0
          /\ starts # 0 => Within(draws, starts, edits)
      BY DEF CountInv
    <3>2. Within(draws', starts + 1, 0)
      BY <2>3, <3>1, DrawAtStart
    <3>3. starts + 1 \in 0 .. MaxStarts /\ starts + 1 # 0 /\ 0 \in 0 .. 3
      BY <2>1, <3>1
    <3>4. Within(draws', starts', edits')
      BY <2>1, <3>2, Zenon
    <3>5. starts' \in 0 .. MaxStarts /\ starts' # 0 /\ edits' \in 0 .. 3 /\ keys' \in Nat
      BY <2>1, <3>1, <3>3, Zenon
    <3> QED BY <2>3, <3>4, <3>5, Zenon DEF CountInv
  <2>5. PhaseInv'
    <3>1. CASE phase' = "down"
      BY <2>1, <3>1 DEF PhaseInv
    <3>2. CASE ~config.wrong /\ LoadSeed(config) /\ phase' = "starting"
      <4>1. seed' # Unset /\ starts' > 0
        BY <2>1, <3>2, SomeSeed DEF CountInv, PhaseInv
      <4> QED BY <2>1, <3>2, <4>1 DEF PhaseInv
    <3> QED BY <2>2, <3>1, <3>2
  <2> QED BY <2>4, <2>5
<1>2. CASE EnsureConfig
  <2>1. /\ phase = "starting" /\ phase' \in {"up", "down", "edited"}
        /\ phase' = "up" => config.filled = "all"
        /\ UNCHANGED <<config, edits, starts, seed, draws, keyFile, fresh, keys>>
    BY <1>2 DEF EnsureConfig, Validated
  <2>2. CountInv'
    BY <2>1 DEF CountInv
  <2>3. PhaseInv'
    BY <2>1 DEF PhaseInv
  <2> QED BY <2>2, <2>3
<1>3. CASE Edited
  <2>1. PICK c \in ConfigFile :
          /\ config' = c /\ edits' = edits + 1
          /\ \/ phase' = "down" /\ draws' = draws
             \/ ~c.wrong /\ LoadSeed(c) /\ phase' = "up" /\ Validated(c)
             \/ ~c.wrong /\ LoadSeed(c) /\ phase' = "down"
             \/ ~c.wrong /\ LoadSeed(c) /\ phase' = "edited" /\ edits < 2
    BY <1>3, Zenon DEF Edited
  <2>2. phase = "edited" /\ UNCHANGED <<starts, keyFile, fresh, keys>>
    BY <1>3 DEF Edited
  <2>3. edits \in 0 .. 2 /\ starts > 0 /\ starts \in Nat /\ fresh = Unset
    BY <2>2 DEF CountInv, PhaseInv
  <2>4. /\ draws' \in Nat /\ draws' <= draws + 1
        /\ phase' # "down" => seed' # Unset /\ ~c.wrong
    BY <2>1, SomeSeed DEF CountInv
  <2>9. Within(draws', starts, edits + 1)
    <3>1. edits \in 0 .. 3 /\ starts \in Nat /\ starts # 0
      BY <2>3
    <3>2. draws \in Nat /\ Within(draws, starts, edits)
      BY <3>1 DEF CountInv
    <3>3. draws' \in Nat /\ draws' <= draws + 1
      BY <2>4
    <3> QED BY <3>1, <3>2, <3>3, DrawAtEdit
  <2>10. edits + 1 \in 0 .. 3
    BY <2>3
  <2>5. CountInv'
    <3>1. starts \in 0 .. MaxStarts /\ keys \in Nat
      BY DEF CountInv
    <3>2. /\ starts' = starts /\ edits' = edits + 1 /\ keys' = keys
      BY <2>1, <2>2
    <3>3. Within(draws', starts', edits')
      BY <2>9, <3>2, Zenon
    <3>4. starts # 0
      BY <2>3
    <3>5. edits' \in 0 .. 3 /\ starts' \in 0 .. MaxStarts /\ keys' \in Nat /\ starts' # 0
      BY <2>10, <3>1, <3>2, <3>4, Zenon
    <3> QED BY <2>4, <3>3, <3>5, Zenon DEF CountInv
  <2>6. /\ phase' \in {"down", "up", "edited"}
        /\ phase' = "up" => c.filled = "all"
        /\ phase' = "edited" => edits < 2
    BY <2>1 DEF Validated
  <2>7. phase' = "edited" => edits' < 3
    BY <2>1, <2>3, <2>6
  <2>8. PhaseInv'
    BY <2>1, <2>2, <2>3, <2>4, <2>6, <2>7 DEF PhaseInv
  <2> QED BY <2>5, <2>8
<1>4. CASE Corrected
  <2>1. /\ phase = "down" /\ config' \in ConfigFile
        /\ UNCHANGED <<phase, edits, starts, seed, draws, keyFile, fresh, keys>>
    BY <1>4 DEF Corrected
  <2> QED BY <2>1 DEF CountInv, PhaseInv
<1>5. CASE Stop
  <2>1. /\ phase' = "down" /\ fresh' = Unset
        /\ UNCHANGED <<config, edits, starts, seed, draws, keyFile, keys>>
    BY <1>5 DEF Stop, Ends
  <2> QED BY <2>1 DEF CountInv, PhaseInv
<1>6. CASE LoadKey \/ WriteKey
  <2>1. /\ phase = "up" /\ UNCHANGED <<config, phase, edits, starts, seed, draws>>
        /\ keys' \in {keys, keys + 1} /\ (fresh' # Unset => keyFile' = 0)
    BY <1>6 DEF LoadKey, WriteKey
  <2>2. CountInv'
    BY <2>1 DEF CountInv
  <2>3. PhaseInv'
    BY <2>1 DEF PhaseInv
  <2> QED BY <2>2, <2>3
<1>7. CASE (\E u \in Users : LogIn(u) \/ FetchConfig(u) \/ CreateWorld(u)) \/ UNCHANGED contVars
  <2>1. UNCHANGED serverSide
    BY <1>7 DEF LogIn, FetchConfig, CreateWorld, contVars
  <2> QED BY <2>1 DEF serverSide, CountInv, PhaseInv
<1> QED
  BY <1>1, <1>2, <1>3, <1>4, <1>5, <1>6, <1>7 DEF ContinuityNext

LEMMA CountInit == ContinuityInit => CountInv /\ PhaseInv
  BY ContinuityAssumption DEF ContinuityInit, CountInv, PhaseInv, ConfigFile

LEMMA ContinuityTypes == CountInv /\ PhaseInv => ContinuityTypeOK
<1> SUFFICES ASSUME CountInv, PhaseInv PROVE ContinuityTypeOK
  OBVIOUS
<1>1. draws \in 0 .. 4 * MaxStarts
  BY ContinuityAssumption DEF CountInv, Within
<1> QED
  BY <1>1 DEF CountInv, PhaseInv, ContinuityTypeOK

\* What the server's configuration, seed and key hold has its type; a server that is
\* up has a configuration all of which is there, and a seed.
THEOREM ContinuityTypesHold == ContinuitySpec => []ContinuityTypeOK
  BY CountInit, CountStep, ContinuityTypes, PTL DEF ContinuitySpec

-----------------------------------------------------------------------------

\* What is under way has only stored files left.
LeftInv ==
    /\ task \in {"idle", "assembling", "exporting", "uploading"}
    /\ left \subseteq Stored
    /\ task = "idle" => left = {}

LEMMA LeftStep == WholeInv /\ LeftInv /\ [ExportNext]_exportVars => LeftInv'
<1> SUFFICES ASSUME WholeInv, LeftInv, [ExportNext]_exportVars
             PROVE  LeftInv'
  OBVIOUS
<1>0. Assembled \subseteq Stored
  BY DEF WholeInv, WorldInv, Assembled, Stored
<1> USE DEF LeftInv
<1>1. CASE Tick
  BY <1>1 DEF Tick, Stored
<1>2. ASSUME NEW f \in Areas, StoreArea(f) PROVE LeftInv'
  BY <1>2 DEF StoreArea
<1>3. CASE Assemble \/ AssembleEnds
  BY <1>3 DEF Assemble, AssembleEnds, Stored
<1>4. ASSUME NEW f \in Areas, AssembleFile(f) PROVE LeftInv'
  BY <1>4 DEF AssembleFile, CopyCut, Stored
<1>5. CASE StartExport
  BY <1>0, <1>5 DEF StartExport, Stored
<1>6. CASE ExportEnds
  BY <1>6 DEF ExportEnds, Stored
<1>7. ASSUME NEW f \in Areas, Pack(f) PROVE LeftInv'
  BY <1>7 DEF Pack, Stored
<1>8. ASSUME NEW t \in Times, Delete(t) PROVE LeftInv'
  BY <1>8 DEF Delete, Stored
<1>9. ASSUME NEW f \in Areas, StartUpload(f) \/ UploadFile(f) PROVE LeftInv'
  BY <1>9 DEF StartUpload, ToUpload, UploadFile, Stored
<1>10. CASE UploadEnds \/ CutOff
  BY <1>10 DEF UploadEnds, CutOff, Stored
<1>11. CASE UNCHANGED exportVars
  BY <1>11 DEF exportVars, Stored
<1> QED
  BY <1>1, <1>2, <1>3, <1>4, <1>5, <1>6, <1>7, <1>8, <1>9, <1>10, <1>11 DEF ExportNext

LEMMA LeftInit == ExportInit => LeftInv
  BY DEF ExportInit, LeftInv

LEMMA ExportTypes == WholeInv /\ LeftInv => ExportTypeOK
  BY DEF WholeInv, Types, WorldInv, LeftInv, Assembled, Stored, ExportTypeOK

\* Regions, exported world and archives have their types, and whatever is under way
\* goes on over stored files only.
THEOREM ExportTypesHold == ExportSpec => []ExportTypeOK
  BY WholeInit, WholeStep, LeftInit, LeftStep, ExportTypes, PTL DEF ExportSpec

-----------------------------------------------------------------------------
(* The parts of the server together *)

LEMMA PartsStart ==
    PartsInit => /\ StorageInit /\ TableInit /\ CacheInit
                 /\ OverviewInit /\ ContinuityInit /\ ExportInit
  BY Zenon DEF PartsInit

LEMMA PartsMove ==
    [PartsNext]_partsVars =>
        /\ [StorageNext]_storageVars /\ [TableNext]_tableVars /\ [CacheNext]_cacheVars
        /\ [OverviewNext]_mapVars /\ [ContinuityNext]_contVars /\ [ExportNext]_exportVars
<1>1. UNCHANGED partsVars =>
          UNCHANGED <<storageVars, tableVars, cacheVars, mapVars, contVars, exportVars>>
  BY DEF partsVars
<1> QED
  BY <1>1, Zenon DEF PartsNext

\* The server's parts share no state: a behaviour that explores one of them is a
\* behaviour of each of them, so that what is proved of a part's own
\* specification holds where the parts are explored together.
THEOREM PartsFollowTheirSpecs ==
    PartsSpec => /\ StorageSpec /\ TableSpec /\ CacheSpec
                 /\ OverviewSpec /\ ContinuitySpec /\ ExportSpec
  BY PartsStart, PartsMove, PTL DEF PartsSpec, StorageSpec, TableSpec, CacheSpec,
     OverviewSpec, ContinuitySpec, ExportSpec

\* The state of every part of the server has its type, whichever is explored.
THEOREM PartsTypesHold == PartsSpec => []PartsTypeOK
<1>1. /\ StorageTypeOK /\ TableTypeOK /\ CacheTypeOK /\ OverviewTypeOK
      /\ ContinuityTypeOK /\ ExportTypeOK
      => PartsTypeOK
  BY Zenon DEF PartsTypeOK
<1> QED
  BY <1>1, PartsFollowTheirSpecs, StorageTypesHold, TableTypesHold, CacheTypesHold,
     OverviewTypesHold, ContinuityTypesHold, ExportTypesHold, PTL

=============================================================================
