----------------------------- MODULE Continuity -----------------------------
(***************************************************************************)
(* What clients take from the server and keep when it stops and starts     *)
(* again: the token they log in with and the seed of their world.  The     *)
(* server reads its configuration at each start (server/config.py,         *)
(* server/main.py) and its key when it is first needed                     *)
(* (server/routes/auth.py); clients log in, fetch the configuration        *)
(* (server/routes/assets.py, client/provisioner.py), and Minecraft creates *)
(* their world with the seed of server.properties, once.  Tokens expire    *)
(* after 24 h: not modelled.                                               *)
(***************************************************************************)
EXTENDS Naturals

CONSTANTS
    Users,      \* client machines
    MaxStarts,  \* bound on the starts of the server
    Unset       \* no key, no token, no seed

ASSUME ContinuityAssumption ==
    /\ MaxStarts \in Nat
    /\ Unset \notin Nat

\* The configuration file: which of version, loader, loader version and Chunky
\* version are filled in, whether a value makes _normalize_defaults raise, and
\* whether there is a seed (0 counts as none).
ConfigFile == [filled : {"none", "some", "all"}, wrong : BOOLEAN, seeded : BOOLEAN]

VARIABLES
    config,    \* the configuration file
    phase,     \* "down", "starting", "edited" (in the operator's editor), "up"
    edits,     \* attempts at editing in this start
    starts,    \* starts so far
    seed,      \* Config.seed of this process: 0 from the file, else drawn
    draws,     \* seeds drawn so far
    keyFile,   \* key.pem: Unset (no file), 0 (empty), or a key
    cached,    \* _secret_key_cache
    fresh,     \* a key drawn, its file created but not yet written
    keys,      \* keys drawn so far
    token,     \* token[u]: the key it was signed with
    got,       \* got[u]: the configuration u runs with, its seed and the start it is of
    world      \* world[u]: seed and start its world was created with

serverSide == <<config, phase, edits, starts, seed, draws, keyFile, cached, fresh, keys>>
contVars == <<serverSide, token, got, world>>

ContinuityInit ==
    /\ config = [filled |-> "none", wrong |-> FALSE, seeded |-> FALSE]
    /\ phase = "down" /\ edits = 0 /\ starts = 0
    /\ seed = Unset /\ draws = 0
    /\ keyFile = Unset /\ cached = Unset /\ fresh = Unset /\ keys = 0
    /\ token = [u \in Users |-> Unset]
    /\ got = [u \in Users |-> Unset]
    /\ world = [u \in Users |-> Unset]

-----------------------------------------------------------------------------
(* The server's start *)

\* Config._load: a seed that is left out is drawn, at every load.
LoadSeed(c) ==
    IF c.seeded
    THEN seed' = 0 /\ UNCHANGED draws
    ELSE seed' = draws + 1 /\ draws' = draws + 1

\* is_unconfigured is "not any", so that one value is enough to count as configured.
Unconfigured(c) == c.filled = "none"

\* What remains of a process that has ended.
Ends == phase' = "down" /\ cached' = Unset /\ fresh' = Unset

StartServer ==
    /\ phase = "down" /\ starts < MaxStarts
    /\ starts' = starts + 1 /\ edits' = 0
    /\ IF config.wrong
       THEN UNCHANGED <<phase, seed, draws>>
       ELSE LoadSeed(config) /\ phase' = "starting"
    /\ UNCHANGED <<config, keyFile, cached, fresh, keys, token, got, world>>

\* validate asks Mojang and Modrinth, which may be down.
Validated(c) == c.filled = "all"

EnsureConfig ==
    /\ phase = "starting"
    /\ \/ ~Unconfigured(config) /\ Validated(config) /\ phase' = "up"
       \/ phase' = "down"
       \/ Unconfigured(config) /\ phase' = "edited"
    /\ UNCHANGED <<config, edits, starts, seed, draws, keyFile, cached, fresh, keys, token, got, world>>

\* The operator saves the file and the server reloads it, up to three times.
Edited ==
    /\ phase = "edited"
    /\ \E c \in ConfigFile :
        /\ config' = c
        /\ edits' = edits + 1
        /\ IF c.wrong
           THEN phase' = "down" /\ UNCHANGED <<seed, draws>>
           ELSE /\ LoadSeed(c)
                /\ \/ ~Unconfigured(c) /\ Validated(c) /\ phase' = "up"
                   \/ ~Unconfigured(c) /\ phase' = "down"
                   \/ Unconfigured(c) /\ phase' = (IF edits < 2 THEN "edited" ELSE "down")
    /\ UNCHANGED <<starts, keyFile, cached, fresh, keys, token, got, world>>

\* Between two starts a configuration that never came up is corrected, too.
Corrected ==
    /\ phase = "down"
    /\ config.wrong \/ config.filled # "all"
    /\ config' \in ConfigFile
    /\ UNCHANGED <<phase, edits, starts, seed, draws, keyFile, cached, fresh, keys, token, got, world>>

\* The process stops or dies, at any moment.
Stop ==
    /\ phase # "down"
    /\ Ends
    /\ UNCHANGED <<config, edits, starts, seed, draws, keyFile, keys, token, got, world>>

-----------------------------------------------------------------------------
(* The key *)

ReadsKey_Never == FALSE

\* key.pem exists: it is the key, even when it is empty.
ReadsKey == keyFile # Unset

\* get_secret_key, at the first request that needs it: the key is read, or
\* drawn and its file created ...
LoadKey ==
    /\ phase = "up" /\ cached = Unset /\ fresh = Unset
    /\ \/ /\ ReadsKey
          /\ cached' = keyFile
          /\ UNCHANGED <<keyFile, fresh, keys>>
       \/ /\ ~ReadsKey
          /\ keys' = keys + 1 /\ fresh' = keys + 1
          /\ keyFile' = 0
          /\ UNCHANGED cached
    /\ UNCHANGED <<config, phase, edits, starts, seed, draws, token, got, world>>

\* ... and then written.
WriteKey ==
    /\ phase = "up" /\ fresh # Unset
    /\ keyFile' = fresh /\ cached' = fresh /\ fresh' = Unset
    /\ UNCHANGED <<config, phase, edits, starts, seed, draws, keys, token, got, world>>

-----------------------------------------------------------------------------
(* Clients *)

Verifies(u) == cached # Unset /\ token[u] = cached

\* The client starts, or starts again, and logs in.
LogIn(u) ==
    /\ phase = "up" /\ cached # Unset
    /\ token' = [token EXCEPT ![u] = cached]
    /\ got' = [got EXCEPT ![u] = Unset]
    /\ UNCHANGED <<serverSide, world>>

FetchConfig_Reloads(u) ==
    /\ phase = "up" /\ got[u] = Unset /\ Verifies(u)
    /\ draws < 4 * MaxStarts
    /\ LoadSeed(config)
    /\ got' = [got EXCEPT ![u] = [seed |-> seed', start |-> starts]]
    /\ UNCHANGED <<config, phase, edits, starts, keyFile, cached, fresh, keys, token, world>>

\* get_config serves the configuration this process loaded.
FetchConfig(u) ==
    /\ phase = "up" /\ got[u] = Unset /\ Verifies(u)
    /\ got' = [got EXCEPT ![u] = [seed |-> seed, start |-> starts]]
    /\ UNCHANGED <<serverSide, token, world>>

\* server.properties has the seed; Minecraft uses it when there is no world yet.
CreateWorld(u) ==
    /\ got[u] # Unset /\ world[u] = Unset
    /\ world' = [world EXCEPT ![u] = got[u]]
    /\ UNCHANGED <<serverSide, token, got>>

ContinuityNext ==
    \/ StartServer \/ EnsureConfig \/ Edited \/ Corrected \/ Stop
    \/ LoadKey \/ WriteKey
    \/ \E u \in Users : LogIn(u) \/ FetchConfig(u) \/ CreateWorld(u)

ContinuitySpec == ContinuityInit /\ [][ContinuityNext]_contVars

-----------------------------------------------------------------------------
(* Properties *)

\* Types; and the server is up only with a configuration all of which is there,
\* and serves a seed then.
ContinuityTypeOK ==
    /\ config \in ConfigFile
    /\ phase \in {"down", "starting", "edited", "up"}
    /\ edits \in 0 .. 3 /\ starts \in 0 .. MaxStarts
    /\ draws \in 0 .. 4 * MaxStarts /\ keys \in Nat
    /\ phase = "up" => config.filled = "all" /\ ~config.wrong /\ seed # Unset
    /\ fresh # Unset => phase = "up" /\ keyFile = 0

\* A token stays valid: whenever the server knows its key, it is the one every
\* token ever issued was signed with, whatever restarts and crashes there were,
\* even between the creation of key.pem and its writing.
TokensStayValid ==
    cached # Unset => \A u \in Users : token[u] # Unset => token[u] = cached

\* Clients generate regions of one world, unless its seed was left to chance and
\* they read the configuration in different starts of the server: each start
\* draws its own, and what was drawn is never written back to the file.
OneSeedPerWorld ==
    \A u, v \in Users :
        world[u] # Unset /\ world[v] # Unset /\ world[u].seed # world[v].seed
            => ~config.seeded /\ world[u].start # world[v].start

=============================================================================
