--------------------------- MODULE MCServerParts ---------------------------
(***************************************************************************)
(* Parts of the server that share no state with each other, explored one   *)
(* at a time: the region file store, the filling of the tasks table, the   *)
(* tile cache, the map's overview, what clients keep when the server       *)
(* restarts, and what is exported.  The parts that are not explored stay   *)
(* in one of their initial states.                                         *)
(***************************************************************************)
EXTENDS ChunkStorage, MCTaskTable, TileCache, Overview, Continuity, Export

VARIABLE part  \* the part this behaviour explores

partsVars == <<storageVars, tableVars, cacheVars, mapVars, contVars, exportVars, part>>

PartsInit ==
    /\ part \in {"storage", "table", "cache", "overview", "continuity", "export"}
    /\ StorageInit /\ TableInit /\ CacheInit /\ OverviewInit /\ ContinuityInit /\ ExportInit
    /\ part # "storage" => links
    /\ part # "table" => radius = 1 /\ shape = Str("square")
    /\ part # "export" => hard

\* The bound on starts is reached, and the server is down for good.
LastStart == phase = "down" /\ starts = MaxStarts

PartsNext ==
    /\ UNCHANGED part
    /\ \/ /\ part = "storage" /\ StorageNext
          /\ UNCHANGED <<tableVars, cacheVars, mapVars, contVars, exportVars>>
       \/ /\ part = "table" /\ TableNext
          /\ UNCHANGED <<storageVars, cacheVars, mapVars, contVars, exportVars>>
       \/ /\ part = "cache" /\ CacheNext
          /\ UNCHANGED <<storageVars, tableVars, mapVars, contVars, exportVars>>
       \/ /\ part = "overview" /\ OverviewNext
          /\ UNCHANGED <<storageVars, tableVars, cacheVars, contVars, exportVars>>
       \/ /\ part = "continuity" /\ ContinuityNext
          /\ UNCHANGED <<storageVars, tableVars, cacheVars, mapVars, exportVars>>
       \/ part = "continuity" /\ LastStart /\ UNCHANGED partsVars
       \/ /\ part = "export" /\ ExportNext
          /\ UNCHANGED <<storageVars, tableVars, cacheVars, mapVars, contVars>>

PartsSpec == PartsInit /\ [][PartsNext]_partsVars

\* The type invariants of the parts.
PartsTypeOK ==
    /\ StorageTypeOK /\ TableTypeOK /\ CacheTypeOK /\ OverviewTypeOK
    /\ ContinuityTypeOK /\ ExportTypeOK

=============================================================================
