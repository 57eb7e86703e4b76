-------------------------------- MODULE Rcon --------------------------------
(***************************************************************************)
(* The client drives Chunky over RCON: client/rcon_client.py sends one     *)
(* command at a time and takes the next packet of the TCP stream for its   *)
(* reply, without looking at its id; client/work_loop.py sends a fixed     *)
(* script of commands for each region, one of which, "progress", it        *)
(* repeats until it believes the region is generated.  A poll that gets no *)
(* reply in 10 s is given up, but its reply still comes, and from then on  *)
(* every command reads an older command's reply.                           *)
(*                                                                         *)
(* Minecraft and Chunky are external: they take commands in order, may be  *)
(* arbitrarily slow, and may die.                                          *)
(***************************************************************************)
EXTENDS Naturals, Sequences

CONSTANTS
    LastRegion,  \* the client is given regions 1 .. LastRegion, in this order
    Total,       \* chunks of a region, 1024
    MaxLate,     \* bound on the polls that time out, but for one more in each region
    Before,      \* commands that change nothing the polls depend on, sent before
    Between,     \* "corners" (4: save-all, selection, world, dimension), between it
    After        \* and "start" (2: shape, pattern), after polling (2: save-all, selection)

ASSUME RconAssumption ==
    /\ LastRegion \in Nat \ {0}
    /\ Before \in Nat /\ Between \in Nat /\ After \in Nat
    /\ Total \in Nat \ {0}
    /\ MaxLate \in Nat

Regions == 1 .. LastRegion

Settings(n) == [i \in 1 .. n |-> "setting"]

Prologue == Settings(Before) \o <<"corners">> \o Settings(Between) \o <<"start">>

Epilogue_StaysOff == Settings(After) \o <<"save-off">>

Epilogue == Settings(After) \o <<"save-off", "save-on">>

Script == Prologue \o <<"progress">> \o Epilogue

Gap == Before + Between + After + 4

Clock == {"first-3-s", "first-30-s", "first-30-min", "later"}

VARIABLES
    region,   \* the region the client works on
    todo,     \* commands of the region it has not completed yet
    await,    \* it has sent the first of them and waits for a packet
    elapsed,  \* time since polling began
    seen,     \* seen_progress
    working,  \* no exception has ended the work loop
    why,      \* why[r]: what made the client stop polling for region r
    inbox,    \* commands sent, not handled by Minecraft yet
    replies,  \* packets sent by Minecraft, not read yet
    late,     \* number of polls that timed out
    up,       \* Minecraft runs
    corners,  \* the region last selected in Chunky
    task,     \* the region Chunky generates, 0: none
    made,     \* made[r]: chunks Chunky has generated of region r
    paused,   \* regions during which Chunky said "Not running" between ticks
    saving    \* Minecraft writes chunks to disk (save-on)

clientVars == <<region, todo, await, elapsed, seen, working, why>>
streamVars == <<inbox, replies, late>>
chunkyVars == <<up, corners, task, made, paused, saving>>
rconVars == <<clientVars, streamVars, chunkyVars>>

RconInit ==
    /\ region = 1 /\ todo = Script /\ await = FALSE
    /\ elapsed = "first-3-s" /\ seen = FALSE /\ working = TRUE
    /\ why = [r \in Regions |-> "polling"]
    /\ inbox = <<>> /\ replies = <<>> /\ late = 0
    /\ up = TRUE /\ corners = 1 /\ task = 0 /\ saving = TRUE
    /\ made = [r \in Regions |-> 0] /\ paused = {}

Ready == working /\ ~await /\ todo # <<>>
Polling == todo # <<>> /\ Head(todo) = "progress"

Send_Twice ==
    /\ Ready /\ up
    /\ Polling => elapsed # "later"
    /\ inbox' = inbox \o [i \in 1 .. 2 |-> [cmd |-> Head(todo), of |-> region]]
    /\ await' = TRUE
    /\ UNCHANGED <<region, todo, elapsed, seen, working, why, replies, late, chunkyVars>>

\* RCONConnection.run, _send: a poll is only sent in the first 30 minutes.
Send ==
    /\ Ready /\ up
    /\ Polling => elapsed # "later"
    /\ inbox' = Append(inbox, [cmd |-> Head(todo), of |-> region])
    /\ await' = TRUE
    /\ UNCHANGED <<region, todo, elapsed, seen, working, why, replies, late, chunkyVars>>

\* The command fails at once or its reply does not come in 10 s: a poll is
\* tried again, any other command ends the work loop.
Raise ==
    /\ working' = Polling
    /\ await' = FALSE
    /\ UNCHANGED <<region, todo, seen, why, inbox, replies, chunkyVars>>

\* Once MaxLate polls have timed out, the next one takes the rest of the 30
\* minutes with it (in the code many more do, one after the other).
TimeOut ==
    /\ working /\ await /\ up /\ replies = <<>>
    /\ late' = late + 1
    /\ elapsed' = IF Polling /\ late >= MaxLate THEN "later" ELSE elapsed
    /\ Raise

LinkFails ==
    /\ working /\ ~up
    /\ \/ ~await /\ todo # <<>> /\ (Polling => elapsed # "later")
       \/ await /\ replies = <<>>
    /\ UNCHANGED <<late, elapsed>>
    /\ Raise

Complete_NearlyAll(r) ==
    \/ r.kind = "finished" /\ elapsed # "first-3-s"
    \/ r.kind = "count" /\ r.done + 1 >= Total

\* Chunky's replies as parse_chunky_progress reads them: a number of chunks of
\* the task, the word finished, or not running; anything else says nothing.
Complete(r) ==
    \/ r.kind = "finished" /\ elapsed # "first-3-s"
    \/ r.kind = "count" /\ r.done >= Total

SeenNow(r) == seen \/ (r.kind = "count" /\ r.done > 0)

Assumed(r) == r.kind = "idle" /\ ~SeenNow(r) /\ elapsed \notin {"first-3-s", "first-30-s"}

Idle(r) == r.kind = "idle" /\ SeenNow(r)

Verdict(r) ==
    CASE Complete(r) -> "complete"
      [] Idle(r)     -> "idle"
      [] Assumed(r)  -> "assumed"
      [] OTHER       -> "polling"

\* "confirm" in start_resp.lower()
Unstarted(r) == Head(todo) = "start" /\ r.kind = "confirm"

\* A packet is read: whatever it is, it is the reply.
Read ==
    /\ working /\ await /\ replies # <<>>
    /\ LET r == Head(replies) IN
        /\ replies' = Tail(replies)
        /\ await' = FALSE
        /\ IF Polling
           THEN /\ seen' = SeenNow(r)
                /\ why' = [why EXCEPT ![region] = Verdict(r)]
                /\ todo' = IF Verdict(r) = "polling" THEN todo ELSE Tail(todo)
           ELSE /\ UNCHANGED <<seen, why>>
                /\ todo' = IF Unstarted(r) THEN <<"confirm", "start-again">> \o Tail(todo)
                                           ELSE Tail(todo)
        /\ UNCHANGED <<region, elapsed, working, inbox, late, chunkyVars>>

GiveUp_Unseen ==
    /\ Ready /\ Polling /\ elapsed = "later" /\ ~seen
    /\ todo' = <<"cancel">> \o Tail(todo)
    /\ why' = [why EXCEPT ![region] = "timed-out"]
    /\ UNCHANGED <<region, await, elapsed, seen, working, streamVars, chunkyVars>>

\* The loop finds that more than 30 minutes have passed.
GiveUp ==
    /\ Ready /\ Polling /\ elapsed = "later"
    /\ todo' = <<"cancel">> \o Tail(todo)
    /\ why' = [why EXCEPT ![region] = "timed-out"]
    /\ UNCHANGED <<region, await, elapsed, seen, working, streamVars, chunkyVars>>

TimePasses ==
    /\ Ready /\ Polling /\ elapsed # "later"
    /\ elapsed' = CASE elapsed = "first-3-s"  -> "first-30-s"
                    [] elapsed = "first-30-s" -> "first-30-min"
                    [] OTHER                  -> "later"
    /\ UNCHANGED <<region, todo, await, seen, working, why, streamVars, chunkyVars>>

NextRegion ==
    /\ working /\ todo = <<>> /\ region < LastRegion
    /\ region' = region + 1
    /\ todo' = Script /\ elapsed' = "first-3-s" /\ seen' = FALSE
    /\ UNCHANGED <<await, working, why, streamVars, chunkyVars>>

-----------------------------------------------------------------------------
(* Minecraft and Chunky *)

Reply(kind, n) ==
    /\ replies' = Append(replies, [cmd |-> Head(inbox).cmd, of |-> Head(inbox).of,
                                   kind |-> kind, done |-> n])
    /\ inbox' = Tail(inbox)

Handles(cmds) == up /\ inbox # <<>> /\ Head(inbox).cmd \in cmds

\* A region whose chunks all exist is finished as soon as it is started.
Begun(r) == IF made[r] < Total THEN r ELSE 0

HandleStart ==
    /\ Handles({"start", "start-again", "confirm"})
    /\ \/ /\ task # 0 /\ Head(inbox).cmd # "confirm"
          /\ Reply("confirm", 0)
          /\ UNCHANGED task
       \/ /\ Reply("other", 0)
          /\ task' = Begun(corners)
    /\ UNCHANGED <<clientVars, late, up, corners, made, paused, saving>>

HandleProgress ==
    /\ Handles({"progress"})
    /\ \/ /\ task # 0
          /\ \/ Reply("count", made[task]) /\ UNCHANGED paused
             \/ Reply("idle", 0) /\ paused' = paused \cup {Head(inbox).of}
       \/ /\ task = 0
          /\ \/ Reply("idle", 0)
             \/ made[corners] = Total /\ \E k \in {"finished", "count"} : Reply(k, Total)
          /\ UNCHANGED paused
    /\ UNCHANGED <<clientVars, late, up, corners, task, made, saving>>

HandleOther ==
    /\ Handles({"setting", "corners", "cancel", "save-off", "save-on"})
    /\ Reply("other", 0)
    /\ LET c == Head(inbox) IN
        /\ corners' = IF c.cmd = "corners" THEN c.of ELSE corners
        /\ task' = IF c.cmd = "cancel" THEN 0 ELSE task
        /\ saving' = CASE c.cmd = "save-off" -> FALSE
                       [] c.cmd = "save-on"  -> TRUE
                       [] OTHER              -> saving
    /\ UNCHANGED <<clientVars, late, up, made, paused>>

Generate1 ==
    /\ up /\ task # 0
    /\ made' = [made EXCEPT ![task] = @ + 1]
    /\ task' = IF made[task] + 1 < Total THEN task ELSE 0
    /\ UNCHANGED <<clientVars, streamVars, up, corners, paused, saving>>

MinecraftDies ==
    /\ up /\ up' = FALSE
    /\ task' = 0 /\ inbox' = <<>>
    /\ UNCHANGED <<clientVars, replies, late, corners, made, paused, saving>>

ClientActs == Send \/ LinkFails \/ TimeOut \/ Read \/ GiveUp \/ NextRegion

RconNext ==
    \/ ClientActs \/ TimePasses
    \/ HandleStart \/ HandleProgress \/ HandleOther \/ Generate1 \/ MinecraftDies

\* The loop goes on, and it sleeps on every turn, so that it cannot turn for ever
\* without time passing; Minecraft owes nothing.
RconFairness == WF_rconVars(ClientActs) /\ SF_rconVars(TimePasses)

RconSpec == RconInit /\ [][RconNext]_rconVars /\ RconFairness

-----------------------------------------------------------------------------
(* Properties *)

Packet == [cmd : {Script[i] : i \in DOMAIN Script} \cup {"confirm", "start-again", "cancel"},
           of : Regions, kind : {"other", "confirm", "idle", "finished", "count"},
           done : 0 .. Total]

\* The state of client, stream and Chunky has its type; Chunky makes no chunk
\* twice, and works on nothing that is complete.
RconTypeOK ==
    /\ region \in Regions /\ await \in BOOLEAN /\ seen \in BOOLEAN
    /\ working \in BOOLEAN /\ elapsed \in Clock
    /\ replies \in Seq(Packet)
    /\ why \in [Regions -> {"polling", "complete", "idle", "assumed", "timed-out"}]
    /\ late \in 0 .. MaxLate + LastRegion + 1
    /\ made \in [Regions -> 0 .. Total]
    /\ task # 0 => made[task] < Total

\* As long as the loop goes on and the server lives, what is in flight is the
\* current command and one more for each poll that timed out: the client never
\* catches up, since nothing reads the packets left over (_recv takes the next
\* packet whatever its id).
LagIsExact ==
    working /\ up => Len(inbox) + Len(replies) = late + (IF await THEN 1 ELSE 0)

\* A poll may read the answer to an earlier poll, but while fewer than Gap polls
\* have timed out, never one made for another region: between the last poll of
\* a region and the first of the next, Gap (12) other commands are sent.
PollsSeeOwnRegion ==
    working /\ Polling /\ await /\ replies # <<>> /\ late < Gap =>
        (Head(replies).cmd = "progress" => Head(replies).of = region)

LeftRunning(r) == \E q \in 1 .. r - 1 : why[q] \in {"idle", "assumed"}

\* The polling loop ends with "done", or with "not running" after progress, only
\* for a region Chunky has generated in full, unless Chunky said "not running"
\* between two ticks of a running task.  That holds after late replies (fewer
\* than Gap) and after regions left too early, thanks to "confirm", but not
\* after both: the reply to "start" is then read too late to be confirmed,
\* Chunky still works on the region before, and its progress is taken for this
\* region's.
DoneIsGenerated ==
    \A r \in Regions :
        /\ why[r] = "complete" \/ (why[r] = "idle" /\ r \notin paused)
        /\ late = 0 \/ (late < Gap /\ ~LeftRunning(r))
        => made[r] = Total

\* Chunks are generated with saving on (save-on is sent in a finally), unless
\* Chunky was left running: then save-off hits a region that is not complete.
SavedWhileGenerating ==
    task # 0 /\ ~saving => \E q \in Regions : why[q] \in {"idle", "assumed", "complete"}
                                             /\ made[q] < Total

\* From the reply to save-off until save-on is sent the client hashes files, reads
\* them again and uploads them, and Minecraft writes nothing then, unless a poll
\* has timed out: what is read for the reply is that of an earlier command.
QuietWhileUploading ==
    working /\ up /\ ~await /\ todo # <<>> /\ Head(todo) = "save-on" /\ late = 0 => ~saving

\* save-off and save-on bracket the upload and nothing else.
SavingFollowsWork == SavedWhileGenerating /\ QuietWhileUploading

\* Polling ends, whatever Minecraft does: it may hang, die or never report.
PollingEnds == (working /\ Polling) ~> ~(working /\ Polling)

=============================================================================
