--------------------------- MODULE MCClientParts ---------------------------
(***************************************************************************)
(* Parts of a client that share no variables, explored one at a time: the  *)
(* polling of Chunky over RCON, the parser of its texts, the life of the   *)
(* Minecraft process, what is on the disk before Minecraft is launched,    *)
(* the update of the client, and the rendering of map tiles.  The parts    *)
(* that are not explored stay in one of their initial states.              *)
(***************************************************************************)
EXTENDS Rcon, ChunkyParser, ServerProcess, Provisioning, Updater, Tiles

VARIABLE client_part  \* the part this behaviour explores

clientPartsVars == <<rconVars, parserVars, procVars, provVars, updVars, tilesVars, client_part>>

ClientPartsInit ==
    /\ client_part \in {"rcon", "parser", "process", "provisioning", "update", "tiles"}
    /\ RconInit /\ ParserInit /\ ProcessInit /\ ProvisioningInit /\ UpdaterInit /\ TilesInit
    /\ client_part # "provisioning" => zip /\ sysJava /\ direct
    /\ client_part # "parser" => size = Max(Sizes)
    /\ client_part # "tiles" => place = "client"

ExploresRcon ==
    /\ client_part = "rcon"
    /\ UNCHANGED <<parserVars, procVars, provVars, updVars, tilesVars, client_part>>
ExploresParser ==
    /\ client_part = "parser"
    /\ UNCHANGED <<rconVars, procVars, provVars, updVars, tilesVars, client_part>>
ExploresProcess ==
    /\ client_part = "process"
    /\ UNCHANGED <<rconVars, parserVars, provVars, updVars, tilesVars, client_part>>
ExploresProvisioning ==
    /\ client_part = "provisioning"
    /\ UNCHANGED <<rconVars, parserVars, procVars, updVars, tilesVars, client_part>>
ExploresUpdate ==
    /\ client_part = "update"
    /\ UNCHANGED <<rconVars, parserVars, procVars, provVars, tilesVars, client_part>>
ExploresTiles ==
    /\ client_part = "tiles"
    /\ UNCHANGED <<rconVars, parserVars, procVars, provVars, updVars, client_part>>

ClientPartsNext ==
    \/ ExploresRcon /\ RconNext
    \/ ExploresParser /\ ParserNext
    \/ ExploresProcess /\ ProcessNext
    \/ ExploresProvisioning /\ ProvisioningNext
    \/ ExploresUpdate /\ UpdaterNext
    \/ ExploresTiles /\ TilesNext

\* RconFairness and ProcessFairness, for the part that is explored.
ClientPartsFairness ==
    /\ WF_clientPartsVars(ExploresRcon /\ ClientActs)
    /\ SF_clientPartsVars(ExploresRcon /\ TimePasses)
    /\ WF_clientPartsVars(ExploresProcess /\ MainActs)
    /\ WF_clientPartsVars(ExploresProcess /\ LoggerActs)

ClientPartsSpec ==
    ClientPartsInit /\ [][ClientPartsNext]_clientPartsVars /\ ClientPartsFairness

\* The type invariants of the parts.
ClientPartsTypeOK ==
    RconTypeOK /\ ProcessTypeOK /\ ProvisioningTypeOK /\ UpdaterTypeOK /\ TilesTypeOK

=============================================================================
