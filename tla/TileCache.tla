----------------------------- MODULE TileCache -----------------------------
(***************************************************************************)
(* server/map_generator/tile_cache.py as the map's routes use it: tile and *)
(* hover files on disk, written by the upload routes without telling the   *)
(* cache (server/routes/tiles.py), and read through one bounded LRU        *)
(* (server/routes/map.py).  set_tile_png, set_hover_data and               *)
(* invalidate_tile have no caller in the running server.                   *)
(***************************************************************************)
EXTENDS Naturals, SequencesExt

CONSTANTS
    Keys,        \* cache keys: the tile and the hover data of each chunk
    Hovers,      \* those that are hover data
    Payloads,    \* what a file can hold
    MemLimit,    \* TILE_CACHE_MAX_SIZE
    NoData,      \* the file does not exist
    Broken       \* the file was cut short while it was written

ASSUME CacheAssumption ==
    /\ Hovers \subseteq Keys
    /\ MemLimit \in Nat \ {0}
    /\ NoData \notin Payloads /\ Broken \notin Payloads /\ NoData # Broken

VARIABLES
    file,   \* file[k]: content of the file of k
    mem,    \* _mem_cache, oldest entry first, entries <<key, data>>
    asked   \* keys served since the start, the latest last

cacheVars == <<file, mem, asked>>

CacheInit ==
    /\ file = [k \in Keys |-> NoData]
    /\ mem = <<>>
    /\ asked = <<>>

\* upload_tile, upload_tiles_batch, upload_hover: the file is written, entirely
\* or (an exception) in part; what memory has of it stays.
Upload(k) ==
    /\ \E x \in Payloads \cup {Broken} : file' = [file EXCEPT ![k] = x]
    /\ UNCHANGED <<mem, asked>>

InMem(k) == \E i \in DOMAIN mem : mem[i][1] = k

\* move_to_end
ToEnd(s, i) == RemoveAt(s, i) \o <<s[i]>>

Touch_InPlace(k) == mem

\* A key is in the dictionary once.
Touch(k) == ToEnd(mem, CHOOSE i \in DOMAIN mem : mem[i][1] = k)

Evict(s) == IF Len(s) > MemLimit THEN Tail(s) ELSE s

Parses_Always(k) == TRUE

\* Hover data that does not parse counts as missing; a tile is not looked at.
Parses(k) == k \in Hovers => file[k] # Broken

\* get_tile_png, get_hover_data: from memory, else from disk into memory.
Get(k) ==
    /\ \/ /\ InMem(k)
          /\ mem' = Touch(k)
       \/ /\ ~InMem(k)
          /\ file[k] # NoData
          /\ Parses(k)
          /\ mem' = Evict(Append(mem, <<k, file[k]>>))
    /\ asked' = IF \E i \in DOMAIN asked : asked[i] = k
                THEN ToEnd(asked, CHOOSE i \in DOMAIN asked : asked[i] = k)
                ELSE Append(asked, k)
    /\ UNCHANGED file

\* The server starts again.
Forgets ==
    /\ mem' = <<>> /\ asked' = <<>>
    /\ UNCHANGED file

CacheNext == (\E k \in Keys : Upload(k) \/ Get(k)) \/ Forgets

CacheSpec == CacheInit /\ [][CacheNext]_cacheVars

-----------------------------------------------------------------------------
(* Properties *)

\* Files, memory and history hold what they can hold; hover data is parsed
\* before it is kept.
CacheTypeOK ==
    /\ file \in [Keys -> Payloads \cup {NoData, Broken}]
    /\ \A i \in DOMAIN mem :
        /\ mem[i] \in Keys \X (Payloads \cup {Broken})
        /\ mem[i][1] \in Hovers => mem[i][2] \in Payloads
    /\ asked \in Seq(Keys)

\* Memory holds exactly the MemLimit keys served last, each once, tiles and
\* hover data together: what is looked at again and again is never the entry
\* thrown out, and what was thrown out is read again (move_to_end and _evict).
MemIsMostRecent ==
    LET n == IF Len(asked) < MemLimit THEN Len(asked) ELSE MemLimit
    IN  [i \in DOMAIN mem |-> mem[i][1]] = SubSeq(asked, Len(asked) - n + 1, Len(asked))

=============================================================================
