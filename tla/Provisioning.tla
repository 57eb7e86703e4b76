---------------------------- MODULE Provisioning ----------------------------
(***************************************************************************)
(* What a client puts on its disk before it can launch Minecraft           *)
(* (client/provisioner.py, asset_manager.py, java_utils.py, in the order   *)
(* of main.py).  Every file is written in place, so that an exception or a *)
(* crash leaves part of it.  The next start finds it and either writes it  *)
(* again, or looks at what it is worth (Java), or takes it for complete    *)
(* because it exists.                                                      *)
(***************************************************************************)
EXTENDS Naturals, Sequences

CONSTANTS
    MaxCuts  \* bound on the writes that are cut short

ASSUME ProvisioningAssumption == MaxCuts \in Nat

VARIABLES
    zip,      \* the server offers mods.zip (else: jars from Modrinth)
    sysJava,  \* the machine has a compatible Java of its own
    direct,   \* the loader's jar is downloaded (Fabric), not installed
    step,     \* what the run is about, an index of Steps; 0: not running
    writing,  \* the file of the step is open
    disk,     \* disk[f]
    cut,      \* files whose writing was cut short, in any run
    cuts,     \* how often
    jdk,      \* a compatible Java is under jdk-<version>
    junk,     \* so is a temporary directory that was left behind
    badJava,  \* runs that ended because the directory chosen was no Java
    pwSeen    \* the password in server.properties

provVars == <<zip, sysJava, direct, step, writing, disk, cut, cuts, jdk, junk, badJava, pwSeen>>

\* main: ensure_java, setup_server, download_mods, install_loader,
\* download_palettes, setup_mcmap, start_server.
Steps == <<"java", "eula", "mods", "installer", "jar", "palette", "mcmap", "password",
           "properties", "launched">>

Files == {"eula", "mods", "installer", "jar", "palette", "mcmap", "password", "properties"}

\* What a start can do without: a palette the server does not have, no binary
\* for the platform, a build that fails.
Optional == {"palette", "mcmap"}

ProvisioningInit ==
    /\ zip \in BOOLEAN /\ sysJava \in BOOLEAN /\ direct \in BOOLEAN
    /\ step = 1 /\ writing = FALSE
    /\ disk = [f \in Files |-> "absent"]
    /\ cut = {} /\ cuts = 0
    /\ jdk = FALSE /\ junk = FALSE /\ badJava = 0
    /\ pwSeen = "none"

Now == IF step = 0 THEN "nothing" ELSE Steps[step]
Advance == step' = step + 1 /\ writing' = FALSE
Quit == step' = 0 /\ writing' = FALSE
Cut(f) == cuts < MaxCuts /\ cuts' = cuts + 1 /\ cut' = cut \cup {f}

Launch == Now = "launched"

StartClient ==
    /\ step = 0 \/ Launch
    /\ step' = 1
    /\ UNCHANGED <<zip, sysJava, direct, writing, disk, cut, cuts, jdk, junk, badJava, pwSeen>>

-----------------------------------------------------------------------------
(* Files *)

There(f) == disk[f] # "absent"

\* A jar from Modrinth is kept; mods.zip is asked for without a hash and
\* downloaded every time.
ModsKept == ~zip /\ There("mods")

JarKept == There("jar")

\* The installer is not needed when the jar is there or downloaded itself.
InstallerKept == direct \/ JarKept \/ There("installer")

EulaKept == There("eula")
PaletteKept == There("palette")
McmapKept == There("mcmap")
PasswordKept == There("password")

\* What is not written on this start; server.properties always is.
Skipped(f) ==
    \/ f = "eula" /\ EulaKept
    \/ f = "mods" /\ ModsKept
    \/ f = "installer" /\ InstallerKept
    \/ f = "jar" /\ JarKept
    \/ f = "palette" /\ PaletteKept
    \/ f = "mcmap" /\ McmapKept
    \/ f = "password" /\ PasswordKept

Take ==
    /\ Now \in Files /\ ~writing /\ Skipped(Now)
    /\ Advance
    /\ UNCHANGED <<zip, sysJava, direct, disk, cut, cuts, jdk, junk, badJava, pwSeen>>

\* Minecraft's password is what get_rcon_password finds in its file.
Password == IF disk["password"] = "whole" THEN "token" ELSE "empty"

CanWrite(f) == f = "jar" /\ ~direct => disk["installer"] = "whole"

\* open(..., "wb"): what was there is gone.
Open ==
    /\ Now \in Files /\ ~writing /\ ~Skipped(Now) /\ CanWrite(Now)
    /\ writing' = TRUE
    /\ disk' = [disk EXCEPT ![Now] = "part"]
    /\ pwSeen' = IF Now = "properties" THEN "none" ELSE pwSeen
    /\ UNCHANGED <<zip, sysJava, direct, step, cut, cuts, jdk, junk, badJava>>

Finished_NoChmod(f) == TRUE

\* mcmap is made executable after it is written.
Finished(f) == f = "mcmap" => disk[f] = "inert"

\* An installer that has done its work is removed.
Close ==
    /\ writing /\ Now \in Files
    /\ disk' = [f \in Files |->
                  CASE f = Now -> IF f = "mcmap" /\ disk[f] = "part" THEN "inert" ELSE "whole"
                    [] f = "installer" /\ Now = "jar" -> "absent"
                    [] OTHER -> disk[f]]
    /\ pwSeen' = IF Now = "properties" THEN Password ELSE pwSeen
    /\ IF Finished(Now) THEN Advance ELSE UNCHANGED <<step, writing>>
    /\ UNCHANGED <<zip, sysJava, direct, cut, cuts, jdk, junk, badJava>>

Refused_GoesOn ==
    /\ Now \in Files /\ ~writing /\ ~Skipped(Now)
    /\ Advance
    /\ UNCHANGED <<zip, sysJava, direct, disk, cut, cuts, jdk, junk, badJava, pwSeen>>

\* Nothing was opened: the server or the network refuses, or the installer is
\* no jar.
Refused ==
    /\ Now \in Files /\ ~writing /\ ~Skipped(Now)
    /\ Quit \/ (Now \in Optional /\ Advance)
    /\ UNCHANGED <<zip, sysJava, direct, disk, cut, cuts, jdk, junk, badJava, pwSeen>>

\* An exception while the file is written ends the run, and so does a crash.  A
\* copy of the compiled mcmap that fails is only logged.
AfterCut == Quit \/ (Now = "mcmap" /\ Advance)

CutShort ==
    /\ writing /\ Now \in Files
    /\ Cut(Now)
    /\ AfterCut
    /\ UNCHANGED <<zip, sysJava, direct, disk, jdk, junk, badJava, pwSeen>>

-----------------------------------------------------------------------------
(* ensure_java, download_java *)

Usable_First == jdk /\ ~junk

\* Every directory under jdk-<version> is tried.
Usable == jdk

\* A compatible Java on the system, or one downloaded before.
HasJava ==
    /\ Now = "java" /\ ~writing
    /\ sysJava \/ Usable
    /\ Advance
    /\ UNCHANGED <<zip, sysJava, direct, disk, cut, cuts, jdk, junk, badJava, pwSeen>>

\* The archive is downloaded, whatever an earlier download left of it, and
\* unpacked in a temporary directory (a .tar.gz: Linux and macOS).
UnpackJava ==
    /\ Now = "java" /\ ~writing /\ ~sysJava /\ ~Usable
    /\ writing' = TRUE
    /\ UNCHANGED <<zip, sysJava, direct, step, disk, cut, cuts, jdk, junk, badJava, pwSeen>>

\* ... and moved; "the first directory" may be one that was left behind.
InstallJava ==
    /\ Now = "java" /\ writing
    /\ jdk' = TRUE
    /\ \/ Advance /\ UNCHANGED badJava
       \/ junk /\ Quit /\ badJava' = badJava + 1
    /\ UNCHANGED <<zip, sysJava, direct, disk, cut, cuts, junk, pwSeen>>

\* An exception removes the temporary directory; a crash leaves it.
JavaFails ==
    /\ Now = "java" /\ writing
    /\ Quit
    /\ UNCHANGED <<zip, sysJava, direct, disk, cut, cuts, jdk, junk, badJava, pwSeen>>

CrashInJava ==
    /\ Now = "java" /\ writing
    /\ Cut("java") /\ Quit
    /\ junk' = TRUE /\ jdk' \in {FALSE, TRUE}
    /\ UNCHANGED <<zip, sysJava, direct, disk, badJava, pwSeen>>

ProvisioningNext ==
    \/ StartClient \/ Take \/ Open \/ Close \/ Refused \/ CutShort
    \/ HasJava \/ UnpackJava \/ InstallJava \/ JavaFails \/ CrashInJava

ProvisioningSpec == ProvisioningInit /\ [][ProvisioningNext]_provVars

-----------------------------------------------------------------------------
(* Properties *)

\* Types; and the client never starts Minecraft, nor the installer of its
\* loader, from a file that is not there.
ProvisioningTypeOK ==
    /\ step \in 0 .. Len(Steps) /\ writing \in BOOLEAN
    /\ disk \in [Files -> {"absent", "part", "inert", "whole"}]
    /\ cut \subseteq Files \cup {"java"} /\ cuts \in 0 .. MaxCuts
    /\ Launch => There("jar")
    /\ writing /\ Now = "jar" /\ ~direct => There("installer")
    /\ badJava \in Nat /\ pwSeen \in {"none", "empty", "token"}

Damaged(f) == disk[f] \in {"part", "inert"}

\* A launch finds mods.zip, server.properties and Java in order whatever was
\* cut short before: they are written or tested on every start.  A download of
\* Java that was cut short costs at most one start, which takes the directory
\* left behind for the new one.  Minecraft is given the password the client
\* will use, even where that file was left empty: both read it from the file.
LaunchRepairs ==
    /\ Launch => /\ zip => disk["mods"] = "whole"
                 /\ disk["properties"] = "whole"
                 /\ sysJava \/ jdk
                 /\ There("password") /\ (pwSeen = "token" <=> disk["password"] = "whole")
    /\ badJava <= 1 /\ (badJava = 1 => "java" \in cut /\ jdk)

\* Everything else that was once cut short stays so for ever, and no other file
\* is ever in part: each start takes it for complete because it exists.
DamageIsForEver ==
    \A f \in Files \ ({"properties"} \cup IF zip THEN {"mods"} ELSE {}) :
        ~(writing /\ Now = f) => (Damaged(f) <=> f \in cut)

=============================================================================
