------------------------------ MODULE Updater -------------------------------
(***************************************************************************)
(* client/updater.py: the client replaces its own directory by an archive  *)
(* from the server, with a copy of the directory to fall back on.          *)
(* Directories are removed, copied and unpacked file by file; only the     *)
(* final move of the copy is one step.  Exceptions are handled, crashes    *)
(* are not; the next start runs whatever is in the directory.              *)
(***************************************************************************)
EXTENDS Naturals

CONSTANTS
    Newest  \* versions 0 .. Newest are released one after the other

ASSUME UpdaterAssumption == Newest \in Nat

Versions == 0 .. Newest

\* What a directory holds: a version, files of two versions, some of the files
\* of a version, or it does not exist.
Full(v) == [is |-> "whole", of |-> v]
Bad(kind) == [is |-> kind, of |-> 0]
Dir == {Full(v) : v \in Versions} \cup {Bad("mixed"), Bad("part"), Bad("absent")}

Whole(d) == d.is = "whole"

VARIABLES
    released,  \* the version the server offers
    client,    \* the client's directory
    backup,    \* client_backup
    archive,   \* the archive: a version, or part of one
    doing,     \* what the updater does; "nothing": it does not run
    taken,     \* the version the update started from, once it is copied
    spoilt     \* an update once started from a directory that was not whole

updVars == <<released, client, backup, archive, doing, taken, spoilt>>

UpdaterInit ==
    /\ released = 0 /\ client = Full(0) /\ backup = Bad("absent") /\ archive = Bad("part")
    /\ doing = "nothing" /\ taken = Full(0) /\ spoilt = FALSE

Release ==
    /\ released < Newest /\ released' = released + 1
    /\ UNCHANGED <<client, backup, archive, doing, taken, spoilt>>

\* check_and_update, up to the download.  The version written after an update
\* ends in ".tar", so that a client that was ever updated always finds another
\* version on the server.
Check ==
    /\ doing = "nothing" /\ client.is # "absent"
    /\ released > 0
    /\ doing' = "download"
    /\ archive' = Bad("part")
    /\ UNCHANGED <<released, client, backup, taken, spoilt>>

Download ==
    /\ doing = "download"
    /\ archive' = Full(released)
    /\ doing' = "clear"
    /\ UNCHANGED <<released, client, backup, taken, spoilt>>

DownloadFails ==
    /\ doing = "download" /\ doing' = "nothing"
    /\ UNCHANGED <<released, client, backup, archive, taken, spoilt>>

Clear_KeepsOld ==
    /\ doing = "clear"
    /\ doing' = IF backup.is = "absent" THEN "copy" ELSE "unpack"
    /\ spoilt' = (spoilt \/ ~Whole(client))
    /\ taken' = IF Whole(client) THEN client ELSE taken
    /\ UNCHANGED <<released, client, backup, archive>>

\* apply_update: the last copy is removed, then a new one is made.
Clear ==
    /\ doing = "clear"
    /\ \/ backup' = Bad("part") /\ UNCHANGED doing  \* not all of it yet
       \/ backup' = Bad("absent") /\ doing' = "copy"
    /\ spoilt' = (spoilt \/ ~Whole(client))
    /\ taken' = IF Whole(client) THEN client ELSE taken
    /\ UNCHANGED <<released, client, archive>>

Copy ==
    /\ doing = "copy"
    /\ \/ backup' = Bad("part") /\ UNCHANGED doing
       \/ backup' = client /\ doing' = "unpack"
    /\ UNCHANGED <<released, client, archive, taken, spoilt>>

Unpack ==
    /\ doing = "unpack"
    /\ \/ client' = (IF client = archive THEN client ELSE Bad("mixed")) /\ UNCHANGED doing
       \/ client' = archive /\ doing' = "nothing"
    /\ UNCHANGED <<released, backup, archive, taken, spoilt>>

\* Any exception while unpacking or writing the version.
UnpackFails ==
    /\ doing = "unpack" /\ doing' = "remove"
    /\ UNCHANGED <<released, client, backup, archive, taken, spoilt>>

\* rmtree(client_dir), move(backup_dir, client_dir)
Remove ==
    /\ doing = "remove"
    /\ \/ client' = Bad("part") /\ UNCHANGED doing
       \/ client' = Bad("absent") /\ doing' = "move"
    /\ UNCHANGED <<released, backup, archive, taken, spoilt>>

Move ==
    /\ doing = "move"
    /\ client' = backup /\ backup' = Bad("absent")
    /\ doing' = "nothing"
    /\ UNCHANGED <<released, archive, taken, spoilt>>

Dies ==
    /\ doing # "nothing" /\ doing' = "nothing"
    /\ UNCHANGED <<released, client, backup, archive, taken, spoilt>>

UpdaterNext ==
    \/ Release \/ Check \/ Download \/ DownloadFails \/ Clear \/ Copy \/ Unpack \/ UnpackFails
    \/ Remove \/ Move \/ Dies

UpdaterSpec == UpdaterInit /\ [][UpdaterNext]_updVars

-----------------------------------------------------------------------------
(* Properties *)

\* Types; and the copy is moved to a name that is free: onto a directory,
\* shutil.move would put it inside.
UpdaterTypeOK ==
    /\ released \in Versions /\ {archive, taken} \subseteq Dir
    /\ client \in Dir /\ backup \in Dir
    /\ doing \in {"nothing", "download", "clear", "copy", "unpack", "remove", "move"}
    /\ doing = "move" => client = Bad("absent")

\* At every moment, a crash included, one of the two directories is a whole
\* client, and a rollback under way has the version the update started from; all
\* that until an update starts from files of two versions: it throws the good
\* copy away before it copies the bad directory.
UpdateCanBeUndone ==
    spoilt \/ /\ Whole(client) \/ Whole(backup)
              /\ doing \in {"unpack", "remove", "move"} => backup = taken

=============================================================================
