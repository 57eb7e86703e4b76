--------------------------- MODULE ServerProcess ----------------------------
(***************************************************************************)
(* The life of the Minecraft server a client runs: client/mc_lifecycle.py, *)
(* instance_runner.py and the part of main.py that calls them.  A child    *)
(* process, a thread that reads its output, the main thread that waits,    *)
(* restarts and stops, and the threads that copy latest.log.               *)
(*                                                                         *)
(* The process is external: it boots, prints, serves, hangs or exits       *)
(* whenever it likes, and may even survive kill for longer than 10 s.      *)
(***************************************************************************)
EXTENDS Naturals

CONSTANTS
    Tries  \* attempts to connect to RCON, 15

ASSUME ProcessAssumption == Tries \in Nat \ {0}

VARIABLES
    main,     \* where the main thread is
    stopAt,   \* how far a call of MCServer.stop has come
    child,    \* the process of the current MCServer
    printed,  \* it printed a ready line
    pipe,     \* that line is in the pipe, not read yet
    ready,    \* _ready of the current MCServer
    stray,    \* processes of earlier MCServers that still run
    immortal, \* a kill had no effect within 10 s
    tries,    \* attempts to connect so far
    link,     \* RCON is connected
    halt,     \* _mc_log_stop is set
    loggers   \* log threads, a set of 1 .. 2

procVars == <<main, stopAt, child, printed, pipe, ready, stray, immortal, tries, link,
              halt, loggers>>

Alive == child \in {"boots", "serves"}

ProcessInit ==
    /\ main = "launch" /\ stopAt = "idle"
    /\ child = "none" /\ printed = FALSE /\ pipe = FALSE /\ ready = FALSE
    /\ stray = 0 /\ immortal = FALSE
    /\ tries = 0 /\ link = FALSE
    /\ halt = FALSE /\ loggers = {}

-----------------------------------------------------------------------------
(* The process and the threads beside the main thread *)

\* A line with a ready pattern, of the server or of any mod, is printed.
Prints ==
    /\ Alive /\ ~printed
    /\ printed' = TRUE /\ pipe' = TRUE
    /\ UNCHANGED <<main, stopAt, child, ready, stray, immortal, tries, link, halt, loggers>>

Boots ==
    /\ child = "boots" /\ child' = "serves"
    /\ UNCHANGED <<main, stopAt, printed, pipe, ready, stray, immortal, tries, link, halt,
                   loggers>>

\* The process ends by itself, on "stop", or when it is killed.
Exits ==
    /\ Alive /\ child' = "gone"
    /\ UNCHANGED <<main, stopAt, printed, pipe, ready, stray, immortal, tries, link,
                   halt, loggers>>

StrayExits ==
    /\ stray > 0 /\ stray' = stray - 1
    /\ UNCHANGED <<main, stopAt, child, printed, pipe, ready, immortal, tries, link,
                   halt, loggers>>

\* _read_output sees the line, possibly after the process is gone.
ReaderSees ==
    /\ pipe /\ pipe' = FALSE /\ ready' = TRUE
    /\ UNCHANGED <<main, stopAt, child, printed, stray, immortal, tries, link, halt, loggers>>

\* A log thread wakes up, once a second, and finds the event set.
LoggerEnds(t) ==
    /\ t \in loggers /\ halt
    /\ loggers' = loggers \ {t}
    /\ UNCHANGED <<main, stopAt, child, printed, pipe, ready, stray, immortal, tries, link, halt>>

-----------------------------------------------------------------------------
(* The main thread *)

Fresh_KeepsReady == ready

\* A new MCServer starts with _ready = False.
Fresh == FALSE

Spawn ==
    /\ stray' = stray + (IF Alive THEN 1 ELSE 0)
    /\ child' = "boots" /\ printed' = FALSE /\ pipe' = FALSE
    /\ ready' = Fresh

\* start_log_stream; its thread only ends when it finds the event set.
AddLogger == \E t \in {1, 2} \ loggers : loggers' = loggers \cup {t}

\* start_server and start_log_stream.
Launch1 ==
    /\ main = "launch" /\ main' = "wait"
    /\ Spawn
    /\ AddLogger
    /\ UNCHANGED <<stopAt, immortal, tries, link, halt>>

\* wait_until_ready, first for the launch, then for the restart: _ready is
\* looked at first, then the process, then the clock (5 minutes).
Waiting == main \in {"wait", "wait again"}

SeesReady ==
    /\ Waiting /\ ready
    /\ main' = IF main = "wait" THEN "check" ELSE "connect"
    /\ UNCHANGED <<stopAt, child, printed, pipe, ready, stray, immortal, tries, link, halt,
                   loggers>>

StopLifecycle_KeepsLog ==
    /\ main' = "stop" /\ stopAt' = "called"
    /\ link' = FALSE /\ UNCHANGED halt

\* MCLifecycle.stop: disconnect, set the event, MCServer.stop.
StopLifecycle ==
    /\ main' = "stop" /\ stopAt' = "called"
    /\ link' = FALSE /\ halt' = TRUE

NotReady == StopLifecycle

GivesUpWaiting ==
    /\ Waiting /\ ~ready
    /\ NotReady
    /\ UNCHANGED <<child, printed, pipe, ready, stray, immortal, tries, loggers>>

\* check_rcon_enabled; if not, restart_for_rcon begins by stopping the server.
Checks ==
    /\ main = "check"
    /\ \/ main' = "connect" /\ UNCHANGED <<stopAt, halt>>
       \/ main' = "restart" /\ stopAt' = "called" /\ halt' = TRUE
    /\ UNCHANGED <<child, printed, pipe, ready, stray, immortal, tries, link, loggers>>

\* The rest of restart_for_rcon: the event is cleared, whether or not the log
\* thread has seen it, and a second log thread is started.
Restarts ==
    /\ main = "restart" /\ stopAt = "idle"
    /\ main' = "wait again"
    /\ halt' = FALSE
    /\ AddLogger
    /\ Spawn
    /\ UNCHANGED <<stopAt, immortal, tries, link>>

\* RCONConnection.connect: the socket of a failed attempt is closed.
Connects ==
    /\ main = "connect"
    /\ \/ /\ child = "serves"
          /\ link' = TRUE /\ main' = "work"
          /\ UNCHANGED <<tries, stopAt, halt>>
       \/ /\ tries + 1 < Tries
          /\ tries' = tries + 1
          /\ UNCHANGED <<link, main, stopAt, halt>>
       \/ /\ tries + 1 = Tries
          /\ tries' = 0
          /\ StopLifecycle
    /\ UNCHANGED <<child, printed, pipe, ready, stray, immortal, loggers>>

\* The work loop returns, or an exception leaves it and the client ends at once.
WorkEnds ==
    /\ main = "work"
    /\ \/ StopLifecycle
       \/ main' = "raised" /\ UNCHANGED <<stopAt, link, halt>>
    /\ UNCHANGED <<child, printed, pipe, ready, stray, immortal, tries, loggers>>

-----------------------------------------------------------------------------
(* MCServer.stop *)

AfterStop == IF main = "stop" THEN "ended" ELSE main

Stopped == stopAt' = "idle" /\ main' = AfterStop

\* Not running: return.
StopReturns ==
    /\ stopAt = "called" /\ ~Alive
    /\ Stopped
    /\ UNCHANGED <<child, printed, pipe, ready, stray, immortal, tries, link, halt, loggers>>

StopGoesOn ==
    /\ stopAt = "called" /\ Alive
    /\ stopAt' = "write"
    /\ UNCHANGED <<main, child, printed, pipe, ready, stray, immortal, tries, link, halt,
                   loggers>>

\* send_command("stop"): raises if the process has ended since it was looked at.
StopWrites ==
    /\ stopAt = "write"
    /\ IF Alive THEN stopAt' = "wait" /\ UNCHANGED main
                ELSE stopAt' = "idle" /\ main' = "raised"
    /\ UNCHANGED <<child, printed, pipe, ready, stray, immortal, tries, link, halt, loggers>>

StopDone ==
    /\ stopAt = "wait" /\ ~Alive
    /\ Stopped
    /\ UNCHANGED <<child, printed, pipe, ready, stray, immortal, tries, link, halt, loggers>>

\* 30 s passed: kill; the process ends within 10 s or it does not.
StopKills_Hopes ==
    /\ stopAt = "wait" /\ Alive
    /\ Stopped
    /\ UNCHANGED <<child, printed, pipe, ready, stray, immortal, tries, link, halt, loggers>>

StopKills ==
    /\ stopAt = "wait" /\ Alive
    /\ \/ child' = "gone" /\ UNCHANGED immortal
       \/ immortal' = TRUE /\ UNCHANGED child
    /\ Stopped
    /\ UNCHANGED <<printed, pipe, ready, stray, tries, link, halt, loggers>>

MainActs ==
    \/ Launch1 \/ SeesReady \/ GivesUpWaiting \/ Checks \/ Restarts \/ Connects \/ WorkEnds
    \/ StopReturns \/ StopGoesOn \/ StopWrites \/ StopDone \/ StopKills

LoggerActs == \E t \in {1, 2} : LoggerEnds(t)

ProcessNext == MainActs \/ LoggerActs \/ Prints \/ Boots \/ Exits \/ StrayExits \/ ReaderSees

\* Every wait of the main thread has a limit, and log threads look at the event
\* once a second; the process owes nothing.
ProcessFairness == WF_procVars(MainActs) /\ WF_procVars(LoggerActs)

ProcessSpec == ProcessInit /\ [][ProcessNext]_procVars /\ ProcessFairness

-----------------------------------------------------------------------------
(* Properties *)

\* Types; and only the current process can be behind the flag and the pipe.
ProcessTypeOK ==
    /\ main \in {"launch", "wait", "check", "restart", "wait again", "connect", "work",
                 "stop", "ended", "raised"}
    /\ stopAt \in {"idle", "called", "write", "wait"}
    /\ child \in {"none", "boots", "serves", "gone"}
    /\ stray \in 0 .. 1 /\ tries \in 0 .. Tries - 1
    /\ loggers \subseteq {1, 2}
    /\ {printed, pipe, ready, immortal, link, halt} \subseteq BOOLEAN

\* wait_until_ready answers for the process that runs now: the client goes on to
\* RCON only after that very process said it is ready, restart or not.
ReadyIsOfThisProcess == main \in {"check", "connect", "work"} => printed

\* Two servers never run on one world, and a client that ends, or that fails in
\* stop because the server went away under it, leaves none behind, unless the
\* server survived kill.  (One that an exception throws out of the work loop
\* does leave it: main has no finally.)
NoStrayServer ==
    \/ immortal
    \/ /\ stray + (IF Alive THEN 1 ELSE 0) <= 1
       /\ main = "ended" \/ (main = "raised" /\ ~link) => ~Alive /\ stray = 0

\* The start ends, in the work loop or in giving up, however the server behaves;
\* and after the end no log thread goes on, not even the one restart_for_rcon
\* may have left over by clearing the event before that thread saw it.
StartAndLogsEnd ==
    /\ main = "wait" ~> main \in {"work", "ended", "raised"}
    /\ main = "ended" ~> loggers = {}

=============================================================================
