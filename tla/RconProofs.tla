----------------------------- MODULE RconProofs -----------------------------
(***************************************************************************)
(* Proofs about Rcon, for any number of regions, chunks, late polls and    *)
(* commands between polls: the client stays behind the replies by exactly  *)
(* the number of polls that timed out; as long as none did, it uploads     *)
(* only while Minecraft does not write; as long as fewer did than there    *)
(* are commands between two regions' polls, no poll is answered with the   *)
(* progress of another region; a region taken for done is generated, but   *)
(* for the cases DoneIsGenerated leaves out; saving is on while chunks are *)
(* generated, unless Chunky was left running; and everything has its type, *)
(* with the bound on the polls that time out.                              *)
(***************************************************************************)
EXTENDS Rcon, TLAPS

IsSeq(s) == \E S : s \in Seq(S)

LEMMA EmptyIsSeq == IsSeq(<<>>)
  BY <<>> \in Seq({}) DEF IsSeq

LEMMA AppendIsSeq ==
  ASSUME NEW s, IsSeq(s), NEW e
  PROVE  IsSeq(Append(s, e)) /\ Len(Append(s, e)) = Len(s) + 1
<1>1. PICK S : s \in Seq(S)
  BY DEF IsSeq
<1>2. s \in Seq(S \cup {e}) /\ e \in S \cup {e}
  BY <1>1
<1>3. Append(s, e) \in Seq(S \cup {e}) /\ Len(Append(s, e)) = Len(s) + 1
  BY <1>2
<1> QED
  BY <1>3 DEF IsSeq

LEMMA TailIsSeq ==
  ASSUME NEW s, IsSeq(s), s # <<>>
  PROVE  IsSeq(Tail(s)) /\ Len(Tail(s)) + 1 = Len(s)
<1>1. PICK S : s \in Seq(S)
  BY DEF IsSeq
<1>2. Tail(s) \in Seq(S) /\ Len(Tail(s)) + 1 = Len(s)
  BY <1>1
<1> QED
  BY <1>2 DEF IsSeq

LEMMA LenIsNat ==
  ASSUME NEW s, IsSeq(s)
  PROVE  Len(s) \in Nat
  BY DEF IsSeq

\* What the lengths of the two halves of the stream rest on.
LagInv ==
    /\ IsSeq(inbox) /\ IsSeq(replies)
    /\ late \in Nat
    /\ LagIsExact

LEMMA LagInit == RconInit => LagInv
<1> SUFFICES ASSUME RconInit
             PROVE  LagInv
  OBVIOUS
<1>1. inbox = <<>> /\ replies = <<>> /\ late = 0 /\ ~await
  BY DEF RconInit
<1>2. Len(inbox) + Len(replies) = 0
  BY <1>1
<1>3. LagIsExact
  BY <1>1, <1>2 DEF LagIsExact
<1> QED
  BY <1>1, <1>3, EmptyIsSeq DEF LagInv

\* A packet that is handled moves from one half of the stream to the other.
LEMMA ReplyKeepsLag ==
  ASSUME LagInv, inbox # <<>>, NEW kind, NEW n, Reply(kind, n),
         UNCHANGED <<clientVars, late, up>>
  PROVE  LagInv'
<1>1. /\ inbox' = Tail(inbox)
      /\ \E p : replies' = Append(replies, p)
  BY DEF Reply
<1>2. IsSeq(inbox) /\ IsSeq(replies) /\ late \in Nat
  BY DEF LagInv
<1>3. IsSeq(inbox') /\ Len(inbox') + 1 = Len(inbox)
  BY <1>1, <1>2, TailIsSeq
<1>4. IsSeq(replies') /\ Len(replies') = Len(replies) + 1
  BY <1>1, <1>2, AppendIsSeq
<1>5. Len(inbox') \in Nat /\ Len(inbox) \in Nat /\ Len(replies') \in Nat /\ Len(replies) \in Nat
  BY <1>2, <1>3, <1>4, LenIsNat
<1>6. Len(inbox') + Len(replies') = Len(inbox) + Len(replies)
  BY <1>3, <1>4, <1>5
<1>7. late' = late /\ await' = await /\ working' = working /\ up' = up
  BY DEF clientVars
<1>8. LagIsExact'
  BY <1>6, <1>7 DEF LagInv, LagIsExact
<1> QED
  BY <1>2, <1>3, <1>4, <1>7, <1>8 DEF LagInv

LEMMA LagStep == LagInv /\ [RconNext]_rconVars => LagInv'
<1> SUFFICES ASSUME LagInv, [RconNext]_rconVars
             PROVE  LagInv'
  OBVIOUS
<1>0. /\ IsSeq(inbox) /\ IsSeq(replies) /\ late \in Nat /\ LagIsExact
      /\ Len(inbox) \in Nat /\ Len(replies) \in Nat
  BY LenIsNat DEF LagInv
<1>1. CASE Send
  <2>1. PICK c : inbox' = Append(inbox, c)
    BY <1>1 DEF Send
  <2>2. /\ working' = working /\ up' = up /\ replies' = replies /\ late' = late
        /\ working /\ up /\ ~await /\ await'
    BY <1>1 DEF Send, Ready, chunkyVars
  <2>3. IsSeq(inbox') /\ Len(inbox') = Len(inbox) + 1
    BY <2>1, <1>0, AppendIsSeq
  <2>4. Len(inbox) + Len(replies) = late
    BY <1>0, <2>2 DEF LagIsExact
  <2>5. Len(inbox') + Len(replies') = late' + 1
    BY <2>2, <2>3, <2>4, <1>0
  <2>6. LagIsExact'
    BY <2>2, <2>5 DEF LagIsExact
  <2> QED
    BY <1>0, <2>2, <2>3, <2>6 DEF LagInv
<1>2. CASE TimeOut
  <2>1. /\ inbox' = inbox /\ replies' = replies /\ late' = late + 1 /\ up' = up
        /\ working /\ up /\ await /\ ~await'
    BY <1>2 DEF TimeOut, Raise, chunkyVars
  <2>2. Len(inbox) + Len(replies) = late + 1
    BY <1>0, <2>1 DEF LagIsExact
  <2>3. Len(inbox') + Len(replies') = late' + 0
    BY <2>1, <2>2, <1>0
  <2>4. LagIsExact'
    BY <2>1, <2>3 DEF LagIsExact
  <2> QED
    BY <1>0, <2>1, <2>4 DEF LagInv
<1>3. CASE LinkFails
  <2>1. inbox' = inbox /\ replies' = replies /\ late' = late /\ ~up'
    BY <1>3 DEF LinkFails, Raise, chunkyVars
  <2> QED
    BY <1>0, <2>1 DEF LagInv, LagIsExact
<1>4. CASE Read
  <2>1. /\ inbox' = inbox /\ replies' = Tail(replies) /\ late' = late /\ up' = up
        /\ working /\ await /\ ~await' /\ replies # <<>>
    BY <1>4 DEF Read, chunkyVars
  <2>2. IsSeq(replies') /\ Len(replies') + 1 = Len(replies)
    BY <2>1, <1>0, TailIsSeq
  <2>3. up => Len(inbox) + Len(replies) = late + 1
    BY <1>0, <2>1 DEF LagIsExact
  <2>4. Len(replies') \in Nat
    BY <2>2, LenIsNat
  <2>5. up => Len(inbox') + Len(replies') = late' + 0
    BY <2>1, <2>2, <2>3, <2>4, <1>0
  <2>6. LagIsExact'
    BY <2>1, <2>5 DEF LagIsExact
  <2> QED
    BY <1>0, <2>1, <2>2, <2>6 DEF LagInv
<1>5. CASE GiveUp \/ NextRegion \/ TimePasses
  <2>1. /\ inbox' = inbox /\ replies' = replies /\ late' = late
        /\ await' = await /\ working' = working /\ up' = up
    BY <1>5 DEF GiveUp, NextRegion, TimePasses, streamVars, chunkyVars
  <2> QED
    BY <1>0, <2>1 DEF LagInv, LagIsExact
<1>6. CASE HandleStart
  BY <1>6, ReplyKeepsLag DEF HandleStart, Handles
<1>7. CASE HandleProgress
  BY <1>7, ReplyKeepsLag DEF HandleProgress, Handles
<1>8. CASE HandleOther
  BY <1>8, ReplyKeepsLag DEF HandleOther, Handles
<1>9. CASE Generate1
  BY <1>0, <1>9 DEF Generate1, clientVars, streamVars, LagInv, LagIsExact
<1>10. CASE MinecraftDies
  BY <1>0, <1>10, EmptyIsSeq DEF MinecraftDies, LagInv, LagIsExact
<1>11. CASE UNCHANGED rconVars
  BY <1>0, <1>11 DEF rconVars, clientVars, streamVars, chunkyVars, LagInv, LagIsExact
<1> QED
  BY <1>1, <1>2, <1>3, <1>4, <1>5, <1>6, <1>7, <1>8, <1>9, <1>10, <1>11
  DEF RconNext, ClientActs

\* While the work loop goes on and Minecraft lives, what is in flight is the
\* current command and one more for each poll that timed out: the client never
\* drops a reply left over (_recv in client/rcon_client.py).
THEOREM LagStaysExact == RconSpec => []LagIsExact
<1>1. LagInv => LagIsExact
  BY DEF LagInv
<1> QED
  BY LagInit, LagStep, <1>1, PTL DEF RconSpec

-----------------------------------------------------------------------------
(* Saving is off while the client uploads *)

Commands == {"setting", "corners", "start", "progress", "confirm", "start-again", "cancel",
             "save-off", "save-on"}

\* A list of commands in which save-on comes right after save-off, or first.
Paired(s) ==
    /\ s \in Seq(Commands)
    /\ \A i \in 1 .. Len(s) - 1 : s[i + 1] = "save-on" => s[i] = "save-off"

StartsPaired(s) == Paired(s) /\ (s # <<>> => s[1] # "save-on")

LEMMA JoinPaired ==
  ASSUME NEW s, NEW t, StartsPaired(s), StartsPaired(t)
  PROVE  StartsPaired(s \o t)
<1> DEFINE st == s \o t
<1>1. /\ s \in Seq(Commands) /\ t \in Seq(Commands)
      /\ Len(s) \in Nat /\ Len(t) \in Nat
  BY DEF StartsPaired, Paired
<1>2. /\ st \in Seq(Commands) /\ Len(st) = Len(s) + Len(t)
      /\ \A i \in 1 .. Len(s) : st[i] = s[i]
      /\ \A i \in Len(s) + 1 .. Len(s) + Len(t) : st[i] = t[i - Len(s)]
  BY <1>1
<1> HIDE DEF st
<1>3. ASSUME NEW i \in 1 .. Len(st) - 1, st[i + 1] = "save-on"
      PROVE  st[i] = "save-off"
  <2>1. CASE i + 1 <= Len(s)
    <3>1. i \in 1 .. Len(s) - 1 /\ st[i] = s[i] /\ st[i + 1] = s[i + 1]
      BY <2>1, <1>1, <1>2
    <3> QED BY <3>1, <1>3 DEF StartsPaired, Paired
  <2>2. CASE i = Len(s)
    <3>1. t # <<>> /\ st[i + 1] = t[1]
      BY <2>2, <1>1, <1>2
    <3> QED BY <3>1, <1>3 DEF StartsPaired
  <2>3. CASE i > Len(s)
    <3>1. i - Len(s) \in 1 .. Len(t) - 1
      BY <2>3, <1>1, <1>2
    <3>2. st[i] = t[i - Len(s)] /\ st[i + 1] = t[(i - Len(s)) + 1]
      BY <2>3, <1>1, <1>2
    <3> QED BY <3>1, <3>2, <1>3 DEF StartsPaired, Paired
  <2> QED BY <1>1, <1>2, <2>1, <2>2, <2>3
<1>4. st # <<>> => st[1] # "save-on"
  <2>1. CASE s # <<>>
    <3>1. Len(s) >= 1 /\ st[1] = s[1]
      BY <2>1, <1>1, <1>2
    <3> QED BY <3>1, <2>1 DEF StartsPaired
  <2>2. CASE s = <<>>
    <3>1. Len(s) = 0
      BY <2>2
    <3>2. st # <<>> => t # <<>> /\ st[1] = t[1]
      BY <3>1, <1>1, <1>2
    <3> QED BY <3>2 DEF StartsPaired
  <2> QED BY <2>1, <2>2
<1> QED
  BY <1>2, <1>3, <1>4 DEF StartsPaired, Paired, st

LEMMA ScriptIsPaired == StartsPaired(Script)
<1>1. ASSUME NEW n \in Nat PROVE StartsPaired(Settings(n))
  <2>1. Settings(n) \in Seq(Commands) /\ Len(Settings(n)) = n
    <3>1. Settings(n) \in [1 .. n -> Commands]
      BY DEF Settings, Commands
    <3> HIDE DEF Settings
    <3>2. Settings(n) \in Seq(Commands)
      BY <3>1
    <3>3. 1 .. Len(Settings(n)) = 1 .. n /\ Len(Settings(n)) \in Nat
      BY <3>1, <3>2
    <3>4. ~(n < Len(Settings(n)))
      <4>1. n < Len(Settings(n)) => n + 1 \in 1 .. Len(Settings(n)) /\ n + 1 \notin 1 .. n
        BY <3>3
      <4> QED BY <4>1, <3>3
    <3>5. ~(Len(Settings(n)) < n)
      <4>1. Len(Settings(n)) < n => n \in 1 .. n /\ n \notin 1 .. Len(Settings(n))
        BY <3>3
      <4> QED BY <4>1, <3>3
    <3>6. Len(Settings(n)) \in Nat
      BY <3>3
    <3>7. Len(Settings(n)) = n
      BY <3>4, <3>5, <3>6
    <3> QED BY <3>2, <3>7
  <2>2. \A i \in 1 .. n : Settings(n)[i] = "setting"
    BY DEF Settings
  <2>3. Settings(n) # <<>> => n >= 1
    BY <2>1
  <2> HIDE DEF Settings
  <2> QED BY <2>1, <2>2, <2>3 DEF StartsPaired, Paired
<1>2. ASSUME NEW c \in {"corners", "start", "progress"} PROVE StartsPaired(<<c>>)
  <2>0. c \in Commands
    BY <1>2 DEF Commands
  <2>1. <<c>> \in Seq(Commands) /\ Len(<<c>>) = 1 /\ <<c>>[1] = c
    BY <2>0
  <2>2. c # "save-on"
    BY <1>2
  <2> QED BY <2>1, <2>2 DEF StartsPaired, Paired
<1>3. StartsPaired(<<"save-off", "save-on">>)
  <2> DEFINE t == <<"save-off", "save-on">>
  <2>1. t \in Seq(Commands) /\ Len(t) = 2 /\ t[1] = "save-off" /\ t[2] = "save-on"
    BY DEF Commands
  <2> HIDE DEF t
  <2>2. \A i \in 1 .. Len(t) - 1 : t[i] = "save-off"
    BY <2>1
  <2>3. StartsPaired(t)
    BY <2>1, <2>2 DEF StartsPaired, Paired
  <2> QED BY <2>3 DEF t
<1>4. Before \in Nat /\ Between \in Nat /\ After \in Nat
  BY RconAssumption
<1>5. StartsPaired(Prologue)
  <2>1. StartsPaired(Settings(Before) \o <<"corners">>)
    BY <1>1, <1>2, <1>4, JoinPaired
  <2>2. StartsPaired((Settings(Before) \o <<"corners">>) \o Settings(Between))
    BY <2>1, <1>1, <1>4, JoinPaired
  <2>3. StartsPaired(((Settings(Before) \o <<"corners">>) \o Settings(Between)) \o <<"start">>)
    BY <2>2, <1>2, JoinPaired
  <2> QED BY <2>3 DEF Prologue
<1>6. StartsPaired(Epilogue)
  BY <1>1, <1>3, <1>4, JoinPaired DEF Epilogue
<1>7. StartsPaired(Prologue \o <<"progress">>)
  BY <1>5, <1>2, JoinPaired
<1>8. StartsPaired((Prologue \o <<"progress">>) \o Epilogue)
  BY <1>7, <1>6, JoinPaired
<1> QED
  BY <1>8 DEF Script

LEMMA TwoArePaired ==
  ASSUME NEW a \in Commands, NEW b \in Commands, a # "save-on", b # "save-on"
  PROVE  StartsPaired(<<a, b>>) /\ <<a, b>> # <<>>
<1> DEFINE p == <<a, b>>
<1>1. p \in Seq(Commands) /\ Len(p) = 2 /\ p[1] = a /\ p[2] = b
  OBVIOUS
<1> HIDE DEF p
<1>2. \A i \in 1 .. Len(p) - 1 : i = 1
  BY <1>1
<1>3. p[1 + 1] # "save-on" /\ p[1] # "save-on" /\ p # <<>>
  <2>1. p[1] # "save-on" /\ p[2] # "save-on"
    BY <1>1
  <2>2. 1 + 1 = 2
    OBVIOUS
  <2>3. p[1 + 1] = p[2]
    BY <2>2, Zenon
  <2>4. Len(p) # 0
    BY <1>1
  <2>5. p # <<>>
    BY <2>4
  <2> QED BY <2>1, <2>3, <2>5, Zenon
<1>4. Paired(p)
  BY <1>1, <1>2, <1>3 DEF Paired
<1> QED BY <1>3, <1>4 DEF p, StartsPaired

LEMMA ConfirmIsPaired ==
  StartsPaired(<<"confirm", "start-again">>) /\ <<"confirm", "start-again">> # <<>>
<1>1. "confirm" \in Commands /\ "start-again" \in Commands
  BY Zenon DEF Commands
<1>2. "confirm" # "save-on" /\ "start-again" # "save-on"
  BY Zenon
<1> QED
  BY <1>1, <1>2, TwoArePaired, Zenon

LEMMA TailPaired ==
  ASSUME NEW s, Paired(s), s # <<>>
  PROVE  /\ Paired(Tail(s))
         /\ s[1] # "save-off" => StartsPaired(Tail(s))
<1>1. s \in Seq(Commands) /\ Len(s) \in Nat /\ Len(s) >= 1
  BY DEF Paired
<1>2. /\ Tail(s) \in Seq(Commands) /\ Len(Tail(s)) = Len(s) - 1
      /\ \A i \in 1 .. Len(Tail(s)) : Tail(s)[i] = s[i + 1]
  BY <1>1
<1>3. ASSUME NEW i \in 1 .. Len(Tail(s)) - 1, Tail(s)[i + 1] = "save-on"
      PROVE  Tail(s)[i] = "save-off"
  <2>1. i + 1 \in 1 .. Len(s) - 1 /\ s[(i + 1) + 1] = Tail(s)[i + 1] /\ s[i + 1] = Tail(s)[i]
    BY <1>1, <1>2
  <2> QED BY <2>1, <1>3 DEF Paired
<1>4. Paired(Tail(s))
  BY <1>2, <1>3 DEF Paired
<1>5. ASSUME Tail(s) # <<>>, Tail(s)[1] = "save-on" PROVE s[1] = "save-off"
  <2>1. 1 \in 1 .. Len(s) - 1 /\ s[1 + 1] = "save-on"
    BY <1>1, <1>2, <1>5
  <2> QED BY <2>1 DEF Paired
<1> QED
  BY <1>4, <1>5 DEF StartsPaired

LEMMA PrefixPaired ==
  ASSUME NEW s, NEW p, StartsPaired(p), p # <<>>, Paired(s), s # <<>>, s[1] # "save-off"
  PROVE  StartsPaired(p \o Tail(s))
  BY TailPaired, JoinPaired

\* While no poll has timed out, what is in flight is the current command alone;
\* once Minecraft has answered save-off, saving is off until save-on.
QuietInv ==
    /\ LagInv
    /\ Paired(todo)
    /\ await => todo # <<>>
    /\ working /\ up /\ late = 0 =>
        /\ inbox # <<>> => Head(inbox).cmd = todo[1]
        /\ await /\ replies # <<>> /\ todo[1] = "save-off" => ~saving
        /\ ~await /\ todo # <<>> /\ todo[1] = "save-on" => ~saving

LEMMA NothingInFlight ==
  ASSUME NEW s, IsSeq(s)
  PROVE  s = <<>> <=> Len(s) = 0
  BY DEF IsSeq

\* At most one command is in flight, and none when the client does not wait.
LEMMA OneInFlight ==
  ASSUME LagInv, working, up, late = 0
  PROVE  /\ ~await => inbox = <<>> /\ replies = <<>>
         /\ inbox # <<>> => await /\ replies = <<>> /\ Len(inbox) = 1
         /\ replies # <<>> => inbox = <<>>
<1>1. IsSeq(inbox) /\ IsSeq(replies) /\ Len(inbox) \in Nat /\ Len(replies) \in Nat
  BY LenIsNat DEF LagInv
<1>2. ~await => Len(inbox) + Len(replies) = 0
  BY DEF LagInv, LagIsExact
<1>3. await => Len(inbox) + Len(replies) = 1
  BY DEF LagInv, LagIsExact
<1>4. ~await => inbox = <<>> /\ replies = <<>>
  <2>1. ~await => Len(inbox) = 0 /\ Len(replies) = 0
    BY <1>1, <1>2
  <2> QED BY <2>1, <1>1, NothingInFlight
<1>5. ASSUME inbox # <<>> PROVE await /\ replies = <<>> /\ Len(inbox) = 1
  <2>1. await /\ Len(inbox) # 0
    BY <1>5, <1>4, <1>1, NothingInFlight
  <2>2. Len(inbox) + Len(replies) = 1
    BY <2>1, <1>3
  <2>3. Len(inbox) = 1 /\ Len(replies) = 0
    BY <2>1, <2>2, <1>1
  <2> QED BY <2>1, <2>3, <1>1, NothingInFlight
<1> QED
  BY <1>4, <1>5

\* Minecraft handles the current command.
LEMMA ReplyKeepsQuiet ==
  ASSUME QuietInv, inbox # <<>>, NEW kind, NEW n, Reply(kind, n),
         UNCHANGED <<clientVars, late, up>>,
         Head(inbox).cmd = "save-off" => ~saving'
  PROVE  QuietInv'
<1>1. LagInv'
  BY ReplyKeepsLag DEF QuietInv
<1>2. UNCHANGED <<todo, await, working, late, up>> /\ inbox' = Tail(inbox)
  BY DEF clientVars, Reply
<1>3. ASSUME working', up', late' = 0
      PROVE  /\ await' /\ inbox' = <<>>
             /\ todo'[1] = "save-off" => ~saving'
  <2>1. await /\ Len(inbox) = 1 /\ Head(inbox).cmd = todo[1]
    BY <1>2, <1>3, OneInFlight DEF QuietInv
  <2>2. IsSeq(inbox)
    BY DEF QuietInv, LagInv
  <2>3. Tail(inbox) = <<>>
    <3>1. IsSeq(Tail(inbox)) /\ Len(Tail(inbox)) + 1 = 1
      BY <2>1, <2>2, TailIsSeq
    <3>2. Len(Tail(inbox)) = 0
      BY <3>1, LenIsNat
    <3> QED BY <3>1, <3>2, NothingInFlight
  <2> QED BY <2>1, <2>3, <1>2
<1> QED
  BY <1>1, <1>2, <1>3 DEF QuietInv, Paired

LEMMA QuietStep == QuietInv /\ [RconNext]_rconVars => QuietInv'
<1> SUFFICES ASSUME QuietInv, [RconNext]_rconVars
             PROVE  QuietInv'
  OBVIOUS
<1>0. LagInv /\ LagInv'
  BY LagStep DEF QuietInv
<1>t. Paired(todo) /\ (todo # <<>> => Head(todo) = todo[1])
  BY DEF QuietInv, Paired
<1>1. CASE Send
  <2>1. /\ UNCHANGED <<todo, working, up, late, replies>> /\ working /\ up /\ ~await
        /\ await' /\ todo # <<>>
        /\ inbox' = Append(inbox, [cmd |-> Head(todo), of |-> region])
    BY <1>1 DEF Send, Ready, chunkyVars
  <2>2. ASSUME late = 0 PROVE replies' = <<>> /\ Head(inbox').cmd = todo'[1]
    <3>1. inbox = <<>> /\ replies = <<>>
      BY <2>1, <2>2, <1>0, OneInFlight
    <3>2. inbox' = <<[cmd |-> Head(todo), of |-> region]>>
      BY <2>1, <3>1
    <3>3. Head(inbox').cmd = Head(todo)
      BY <3>2
    <3> QED BY <3>1, <3>3, <2>1, <1>t
  <2> QED BY <2>1, <2>2, <1>0, <1>t DEF QuietInv, Paired
<1>2. CASE TimeOut
  <2>1. late' = late + 1 /\ todo' = todo /\ ~await' /\ late \in Nat
    BY <1>2, <1>0 DEF TimeOut, Raise, LagInv
  <2>2. late' # 0
    BY <2>1
  <2> QED BY <2>1, <2>2, <1>0, <1>t DEF QuietInv, Paired
<1>3. CASE LinkFails
  <2>1. ~up' /\ todo' = todo /\ ~await'
    BY <1>3 DEF LinkFails, Raise, chunkyVars
  <2> QED BY <2>1, <1>0, <1>t DEF QuietInv, Paired
<1>4. CASE Read
  <2>1. /\ UNCHANGED <<working, up, late, inbox, saving>>
        /\ working /\ await /\ replies # <<>> /\ ~await' /\ todo # <<>>
    BY <1>4 DEF Read, chunkyVars, QuietInv
  <2>2. \/ todo' = todo /\ todo[1] = "progress"
        \/ todo' = Tail(todo)
        \/ todo' = <<"confirm", "start-again">> \o Tail(todo) /\ todo[1] = "start"
    BY <1>4, <1>t, <2>1 DEF Read, Polling, Unstarted
  <2>3. StartsPaired(<<"confirm", "start-again">>) /\ <<"confirm", "start-again">> # <<>>
    BY ConfirmIsPaired
  <2>4. Paired(todo') /\ (todo[1] # "save-off" => todo' = <<>> \/ todo'[1] # "save-on")
    <3>1. CASE todo' = todo /\ todo[1] = "progress"
      BY <3>1, <1>t
    <3>2. CASE todo' = Tail(todo)
      BY <3>2, <1>t, <2>1, TailPaired DEF StartsPaired
    <3>3. CASE todo' = <<"confirm", "start-again">> \o Tail(todo) /\ todo[1] = "start"
      <4>1. todo[1] # "save-off"
        BY <3>3
      <4>2. StartsPaired(<<"confirm", "start-again">> \o Tail(todo))
        BY <4>1, <1>t, <2>1, <2>3, PrefixPaired
      <4> QED BY <3>3, <4>2 DEF StartsPaired
    <3> QED BY <2>2, <3>1, <3>2, <3>3
  <2>5. ASSUME up, late = 0
        PROVE inbox = <<>> /\ (todo[1] = "save-off" => ~saving)
    BY <2>1, <2>5, <1>0, OneInFlight DEF QuietInv
  <2> QED BY <2>1, <2>4, <2>5, <1>0 DEF QuietInv
<1>5. CASE GiveUp
  <2>1. /\ UNCHANGED <<working, up, late, inbox, replies, await>>
        /\ working /\ ~await /\ todo # <<>> /\ todo[1] = "progress"
        /\ todo' = <<"cancel">> \o Tail(todo)
    BY <1>5, <1>t DEF GiveUp, Ready, Polling, chunkyVars, streamVars
  <2>2. StartsPaired(<<"cancel">>)
    <3>1. <<"cancel">> \in Seq(Commands) /\ Len(<<"cancel">>) = 1 /\ <<"cancel">>[1] = "cancel"
      BY DEF Commands
    <3> QED BY <3>1 DEF StartsPaired, Paired
  <2>3. StartsPaired(todo')
    BY <2>1, <2>2, <1>t, PrefixPaired
  <2>4. up /\ late = 0 => inbox = <<>>
    BY <2>1, <1>0, OneInFlight
  <2> QED BY <2>1, <2>3, <2>4, <1>0 DEF QuietInv, StartsPaired
<1>6. CASE NextRegion
  <2>1. /\ UNCHANGED <<working, up, late, inbox, replies, await>>
        /\ working /\ ~await /\ todo' = Script
    BY <1>6 DEF NextRegion, chunkyVars, streamVars, QuietInv
  <2>2. up /\ late = 0 => inbox = <<>>
    BY <2>1, <1>0, OneInFlight
  <2> QED BY <2>1, <2>2, <1>0, ScriptIsPaired DEF QuietInv, StartsPaired
<1>7. CASE TimePasses
  <2>1. UNCHANGED <<working, up, late, inbox, replies, await, todo, saving>>
    BY <1>7 DEF TimePasses, chunkyVars, streamVars
  <2> QED BY <2>1, <1>0, <1>t DEF QuietInv, Paired
<1>8. CASE HandleStart
  <2>1. inbox # <<>> /\ Head(inbox).cmd # "save-off" /\ UNCHANGED <<clientVars, late, up>>
    BY <1>8 DEF HandleStart, Handles
  <2>2. PICK kind, n : Reply(kind, n)
    BY <1>8 DEF HandleStart
  <2> QED BY <2>1, <2>2, ReplyKeepsQuiet
<1>9. CASE HandleProgress
  <2>1. inbox # <<>> /\ Head(inbox).cmd # "save-off" /\ UNCHANGED <<clientVars, late, up>>
    BY <1>9 DEF HandleProgress, Handles
  <2>2. PICK kind, n : Reply(kind, n)
    BY <1>9 DEF HandleProgress
  <2> QED BY <2>1, <2>2, ReplyKeepsQuiet
<1>10. CASE HandleOther
  <2>1. inbox # <<>> /\ UNCHANGED <<clientVars, late, up>> /\ Reply("other", 0)
    BY <1>10 DEF HandleOther, Handles
  <2>2. Head(inbox).cmd = "save-off" => ~saving'
    BY <1>10 DEF HandleOther
  <2> QED BY <2>1, <2>2, ReplyKeepsQuiet
<1>11. CASE Generate1
  <2>1. UNCHANGED <<working, up, late, inbox, replies, await, todo, saving>>
    BY <1>11 DEF Generate1, clientVars, streamVars
  <2> QED BY <2>1, <1>0, <1>t DEF QuietInv, Paired
<1>12. CASE MinecraftDies
  <2>1. ~up' /\ todo' = todo /\ await' = await
    BY <1>12 DEF MinecraftDies, clientVars
  <2> QED BY <2>1, <1>0, <1>t DEF QuietInv, Paired
<1>13. CASE UNCHANGED rconVars
  <2>1. UNCHANGED <<working, up, late, inbox, replies, await, todo, saving>>
    BY <1>13 DEF rconVars, clientVars, streamVars, chunkyVars
  <2> QED BY <2>1, <1>0, <1>t DEF QuietInv, Paired
<1> QED
  BY <1>1, <1>2, <1>3, <1>4, <1>5, <1>6, <1>7, <1>8, <1>9, <1>10, <1>11, <1>12, <1>13
  DEF RconNext, ClientActs

\* As long as no poll has timed out, Minecraft does not write from the reply to
\* save-off until save-on is sent, while the client hashes and uploads
\* (_upload_and_submit in client/work_loop.py).
THEOREM UploadsAreQuiet == RconSpec => []QuietWhileUploading
<1>1. RconInit => QuietInv
  <2> SUFFICES ASSUME RconInit
               PROVE  QuietInv
    OBVIOUS
  <2>1. LagInv
    BY LagInit
  <2>2. todo = Script /\ ~await /\ inbox = <<>>
    BY DEF RconInit
  <2> QED
    BY <2>1, <2>2, ScriptIsPaired DEF QuietInv, StartsPaired
<1>2. QuietInv => QuietWhileUploading
  <2> SUFFICES ASSUME QuietInv
               PROVE  QuietWhileUploading
    OBVIOUS
  <2>1. todo # <<>> => Head(todo) = todo[1]
    BY DEF QuietInv, Paired
  <2> QED
    BY <2>1 DEF QuietInv, QuietWhileUploading
<1> QED
  BY <1>1, QuietStep, <1>2, PTL DEF RconSpec

-----------------------------------------------------------------------------
(* Polls read nothing of another region *)

\* Commands sent and not answered to the client yet, the oldest first: those
\* whose replies wait to be read, then those Minecraft has not handled.
InFlight == Len(replies) + Len(inbox)
Sent(i) == IF i <= Len(replies) THEN replies[i] ELSE inbox[i - Len(replies)]

\* The region's polls are still to come, or under way.
PollAhead == Len(todo) > After + 2 /\ todo[Len(todo) - After - 2] = "progress"

\* What is left of a region's commands: there is one poll, it has its place
\* counted from the end, and "start" comes before it.
ScriptInv ==
    /\ todo \in Seq(Commands)
    /\ await => todo # <<>>
    /\ \A i \in 1 .. Len(todo) : todo[i] = "progress" => Len(todo) = i + After + 2
    /\ \A i \in 1 .. Len(todo) : todo[i] = "start" => i + After + 2 < Len(todo) /\ PollAhead
    /\ ~PollAhead => Len(todo) <= After + 3

Waits == IF await THEN 1 ELSE 0

\* How many commands n were sent after a poll for region q: after the polls of
\* the region itself its epilogue as far as it has been sent, and after those of
\* other regions all commands between two polls as far as they have been sent.
Aged(q, n) ==
    IF PollAhead
    THEN q # region => n + Len(todo) >= Gap + After + 3 + Waits
    ELSE n + Len(todo) >= After + 2 + Waits

AgeInv ==
    \A i \in 1 .. InFlight : Sent(i).cmd = "progress" => Aged(Sent(i).of, InFlight - i)

\* PollsSeeOwnRegion, of a client that reads what a dead Minecraft had answered.
LastReplyInv ==
    Polling /\ await /\ replies # <<>> /\ late < Gap =>
        (Head(replies).cmd = "progress" => Head(replies).of = region)

PollsInv ==
    /\ LagInv /\ ScriptInv
    /\ working /\ up => AgeInv
    /\ working /\ ~up => LastReplyInv

-----------------------------------------------------------------------------
\* Commands that are neither the poll nor "start".
Plain(s) == s \in Seq(Commands) /\ \A i \in 1 .. Len(s) : s[i] \notin {"progress", "start"}

LEMMA JoinElements ==
  ASSUME NEW s \in Seq(Commands), NEW t \in Seq(Commands)
  PROVE  /\ s \o t \in Seq(Commands) /\ Len(s \o t) = Len(s) + Len(t)
         /\ Len(s) \in Nat /\ Len(t) \in Nat
         /\ \A i \in 1 .. Len(s) : (s \o t)[i] = s[i]
         /\ \A i \in Len(s) + 1 .. Len(s) + Len(t) : (s \o t)[i] = t[i - Len(s)]
  OBVIOUS

LEMMA JoinPlain ==
  ASSUME NEW s, NEW t, Plain(s), Plain(t)
  PROVE  Plain(s \o t) /\ Len(s \o t) = Len(s) + Len(t)
<1> DEFINE st == s \o t
<1>1. s \in Seq(Commands) /\ t \in Seq(Commands)
  BY DEF Plain
<1>2. /\ st \in Seq(Commands) /\ Len(st) = Len(s) + Len(t)
      /\ Len(s) \in Nat /\ Len(t) \in Nat
      /\ \A i \in 1 .. Len(s) : st[i] = s[i]
      /\ \A i \in Len(s) + 1 .. Len(s) + Len(t) : st[i] = t[i - Len(s)]
  BY <1>1, JoinElements
<1> HIDE DEF st
<1>3. ASSUME NEW i \in 1 .. Len(st)
      PROVE  st[i] \notin {"progress", "start"}
  <2>1. CASE i <= Len(s)
    BY <1>2, <2>1 DEF Plain
  <2>2. CASE i > Len(s)
    <3>1. i - Len(s) \in 1 .. Len(t) /\ st[i] = t[i - Len(s)]
      BY <1>2, <2>2
    <3> QED
      BY <3>1 DEF Plain
  <2> QED
    BY <1>2, <2>1, <2>2
<1>4. Plain(st) /\ Len(st) = Len(s) + Len(t)
  BY <1>2, <1>3 DEF Plain
<1> QED
  BY <1>4 DEF st

LEMMA PlainOne ==
  ASSUME NEW c \in Commands, c \notin {"progress", "start"}
  PROVE  Plain(<<c>>) /\ Len(<<c>>) = 1
  BY DEF Plain

LEMMA PlainSettings ==
  ASSUME NEW n \in Nat
  PROVE  Plain(Settings(n)) /\ Len(Settings(n)) = n
<1>1. Settings(n) \in [1 .. n -> Commands] /\ \A i \in 1 .. n : Settings(n)[i] = "setting"
  BY DEF Settings, Commands
<1> HIDE DEF Settings
<1>2. Settings(n) \in Seq(Commands)
  BY <1>1
<1>3. DOMAIN Settings(n) = 1 .. n /\ DOMAIN Settings(n) = 1 .. Len(Settings(n))
      /\ Len(Settings(n)) \in Nat
  BY <1>1, <1>2
<1>4. Len(Settings(n)) = n
  <2>1. ~(n < Len(Settings(n)))
    <3>1. n < Len(Settings(n)) => n + 1 \in 1 .. Len(Settings(n)) /\ n + 1 \notin 1 .. n
      BY <1>3
    <3> QED
      BY <1>3, <3>1
  <2>2. ~(Len(Settings(n)) < n)
    <3>1. Len(Settings(n)) < n => n \in 1 .. n /\ n \notin 1 .. Len(Settings(n))
      BY <1>3
    <3> QED
      BY <1>3, <3>1
  <2> QED
    BY <1>3, <2>1, <2>2
<1> QED
  BY <1>1, <1>2, <1>4 DEF Plain

\* The script of a region: its poll is the command before the last After + 2,
\* "start" the one before it.
LEMMA ScriptShape ==
  /\ Script \in Seq(Commands) /\ Len(Script) = Gap + 1
  /\ \A i \in 1 .. Len(Script) :
       /\ Script[i] = "progress" <=> i = Before + Between + 3
       /\ Script[i] = "start" <=> i = Before + Between + 2
<1> DEFINE p == (Settings(Before) \o <<"corners">>) \o Settings(Between)
           ps == p \o <<"start">>
           psp == ps \o <<"progress">>
           e == Epilogue
<1>1. Before \in Nat /\ Between \in Nat /\ After \in Nat
  BY RconAssumption
<1>2. Plain(p) /\ Len(p) = Before + 1 + Between
  <2>1. Plain(<<"corners">>) /\ Len(<<"corners">>) = 1
    BY PlainOne DEF Commands
  <2>2. Plain(Settings(Before) \o <<"corners">>)
        /\ Len(Settings(Before) \o <<"corners">>) = Before + 1
    BY <1>1, <2>1, PlainSettings, JoinPlain
  <2> QED
    BY <1>1, <2>2, PlainSettings, JoinPlain
<1>3. Plain(e) /\ Len(e) = After + 2
  <2> DEFINE off == <<"save-off", "save-on">>
  <2>1. Plain(off) /\ Len(off) = 2
    <3>1. off \in Seq(Commands) /\ Len(off) = 2 /\ off[1] = "save-off" /\ off[2] = "save-on"
      BY DEF Commands
    <3> HIDE DEF off
    <3>2. \A i \in 1 .. 2 : i = 1 \/ i = 2
      OBVIOUS
    <3> QED
      BY <3>1, <3>2 DEF Plain
  <2> HIDE DEF off
  <2>3. Plain(Settings(After)) /\ Len(Settings(After)) = After
    BY <1>1, PlainSettings
  <2>2. Plain(Settings(After) \o off) /\ Len(Settings(After) \o off) = After + 2
    BY <2>1, <2>3, JoinPlain
  <2> QED
    BY <2>2 DEF Epilogue, off
<1>4. Script = psp \o e
  BY DEF Script, Prologue
<1> HIDE DEF p, e
<1>5. /\ p \in Seq(Commands) /\ e \in Seq(Commands)
      /\ <<"start">> \in Seq(Commands) /\ Len(<<"start">>) = 1 /\ <<"start">>[1] = "start"
      /\ <<"progress">> \in Seq(Commands) /\ Len(<<"progress">>) = 1
      /\ <<"progress">>[1] = "progress"
  <2>1. p \in Seq(Commands) /\ e \in Seq(Commands)
    BY <1>2, <1>3 DEF Plain
  <2>2. "start" \in Commands /\ "progress" \in Commands
    BY DEF Commands
  <2> QED
    BY <2>1, <2>2
<1>6. /\ ps \in Seq(Commands) /\ Len(ps) = Before + Between + 2
      /\ \A i \in 1 .. Before + Between + 1 : ps[i] = p[i]
      /\ ps[Before + Between + 2] = "start"
  BY <1>1, <1>2, <1>5
<1> HIDE DEF ps
<1>7. /\ psp \in Seq(Commands) /\ Len(psp) = Before + Between + 3
      /\ \A i \in 1 .. Before + Between + 2 : psp[i] = ps[i]
      /\ psp[Before + Between + 3] = "progress"
  BY <1>1, <1>5, <1>6
<1> HIDE DEF psp
<1>8. /\ psp \o e \in Seq(Commands) /\ Len(psp \o e) = (Before + Between + 3) + (After + 2)
      /\ \A i \in 1 .. Before + Between + 3 : (psp \o e)[i] = psp[i]
      /\ \A i \in Before + Between + 3 + 1 .. (Before + Between + 3) + (After + 2) :
           (psp \o e)[i] = e[i - (Before + Between + 3)]
  <2>1. /\ psp \o e \in Seq(Commands) /\ Len(psp \o e) = Len(psp) + Len(e)
        /\ \A i \in 1 .. Len(psp) : (psp \o e)[i] = psp[i]
        /\ \A i \in Len(psp) + 1 .. Len(psp) + Len(e) : (psp \o e)[i] = e[i - Len(psp)]
    BY <1>5, <1>7, JoinElements
  <2> QED
    BY Zenon, <1>3, <1>7, <2>1
<1>9. /\ Script \in Seq(Commands) /\ Len(Script) = (Before + Between + 3) + (After + 2)
      /\ \A i \in 1 .. Before + Between + 3 : Script[i] = psp[i]
      /\ \A i \in Before + Between + 3 + 1 .. (Before + Between + 3) + (After + 2) :
           Script[i] = e[i - (Before + Between + 3)]
  BY <1>4, <1>8
<1>10. Len(Script) = Gap + 1
  BY <1>1, <1>9 DEF Gap
<1>11. ASSUME NEW i \in 1 .. Len(Script)
       PROVE  /\ Script[i] = "progress" <=> i = Before + Between + 3
              /\ Script[i] = "start" <=> i = Before + Between + 2
  <2>1. CASE i \in 1 .. Before + Between + 1
    <3>1. Script[i] = p[i] /\ i \in 1 .. Len(p)
      BY <1>1, <1>2, <1>6, <1>7, <1>9, <2>1
    <3>2. Script[i] \notin {"progress", "start"}
      BY <1>2, <3>1 DEF Plain
    <3> QED
      BY <1>1, <2>1, <3>2
  <2>2. CASE i = Before + Between + 2
    BY <1>1, <1>6, <1>7, <1>9, <2>2
  <2>3. CASE i = Before + Between + 3
    BY <1>1, <1>7, <1>9, <2>3
  <2>4. CASE i > Before + Between + 3
    <3>1. i - (Before + Between + 3) \in 1 .. Len(e)
          /\ Script[i] = e[i - (Before + Between + 3)]
      BY <1>1, <1>3, <1>9, <2>4
    <3>2. Script[i] \notin {"progress", "start"}
      BY <1>3, <3>1 DEF Plain
    <3> QED
      BY <1>1, <2>4, <3>2
  <2> QED
    BY <1>1, <1>9, <2>1, <2>2, <2>3, <2>4
<1> QED
  BY <1>9, <1>10, <1>11

-----------------------------------------------------------------------------
LEMMA StreamLengths ==
  ASSUME LagInv
  PROVE  /\ IsSeq(inbox) /\ IsSeq(replies) /\ late \in Nat
         /\ Len(inbox) \in Nat /\ Len(replies) \in Nat /\ InFlight \in Nat
  BY LenIsNat DEF LagInv, InFlight

LEMMA AppendElements ==
  ASSUME NEW s, IsSeq(s), NEW e
  PROVE  /\ \A i \in 1 .. Len(s) : Append(s, e)[i] = s[i]
         /\ Append(s, e)[Len(s) + 1] = e
<1>1. PICK S : s \in Seq(S)
  BY DEF IsSeq
<1> QED
  BY <1>1

LEMMA TailElements ==
  ASSUME NEW s, IsSeq(s), s # <<>>
  PROVE  /\ \A i \in 1 .. Len(s) - 1 : Tail(s)[i] = s[i + 1]
         /\ Head(s) = s[1] /\ Len(s) >= 1
<1>1. PICK S : s \in Seq(S)
  BY DEF IsSeq
<1> QED
  BY <1>1

\* A command is sent.
LEMMA SentOneMore ==
  ASSUME LagInv, NEW c, inbox' = Append(inbox, c), replies' = replies
  PROVE  /\ InFlight' = InFlight + 1
         /\ \A i \in 1 .. InFlight : Sent(i)' = Sent(i)
         /\ \A i \in {InFlight + 1} : Sent(i)' = c
<1>1. /\ IsSeq(inbox) /\ Len(inbox) \in Nat /\ Len(replies) \in Nat
  BY StreamLengths
<1>2. /\ Len(inbox') = Len(inbox) + 1
      /\ \A i \in 1 .. Len(inbox) : inbox'[i] = inbox[i]
      /\ inbox'[Len(inbox) + 1] = c
  BY <1>1, AppendIsSeq, AppendElements
<1>3. ASSUME NEW i \in 1 .. InFlight
      PROVE  Sent(i)' = Sent(i)
  <2>1. CASE i <= Len(replies)
    BY <2>1 DEF Sent
  <2>2. CASE ~(i <= Len(replies))
    <3>1. i - Len(replies) \in 1 .. Len(inbox)
      BY <1>1, <2>2 DEF InFlight
    <3> QED
      BY <1>2, <2>2, <3>1 DEF Sent
  <2> QED
    BY <2>1, <2>2
<1>4. ASSUME NEW i \in {InFlight + 1}
      PROVE  Sent(i)' = c
  <2>1. ~(i <= Len(replies)) /\ i - Len(replies) = Len(inbox) + 1
    BY <1>1 DEF InFlight
  <2> QED
    BY <1>2, <2>1 DEF Sent
<1> QED
  BY <1>1, <1>2, <1>3, <1>4 DEF InFlight

\* A reply is read.
LEMMA SentOneLess ==
  ASSUME LagInv, replies # <<>>, replies' = Tail(replies), inbox' = inbox
  PROVE  /\ InFlight' = InFlight - 1
         /\ \A i \in 1 .. InFlight - 1 : Sent(i)' = Sent(i + 1)
<1>1. /\ IsSeq(replies) /\ Len(inbox) \in Nat /\ Len(replies) \in Nat
  BY StreamLengths
<1>2. /\ Len(replies') + 1 = Len(replies) /\ Len(replies') \in Nat
      /\ \A i \in 1 .. Len(replies) - 1 : replies'[i] = replies[i + 1]
  BY <1>1, TailIsSeq, TailElements, LenIsNat
<1>3. ASSUME NEW i \in 1 .. InFlight - 1
      PROVE  Sent(i)' = Sent(i + 1)
  <2>1. CASE i + 1 <= Len(replies)
    BY <1>1, <1>2, <2>1 DEF Sent, InFlight
  <2>2. CASE ~(i + 1 <= Len(replies))
    <3>1. i - Len(replies') = (i + 1) - Len(replies) /\ ~(i <= Len(replies'))
      BY <1>1, <1>2, <2>2 DEF InFlight
    <3> QED
      BY <2>2, <3>1 DEF Sent
  <2> QED
    BY <2>1, <2>2
<1> QED
  BY <1>1, <1>2, <1>3 DEF InFlight

\* A command is handled: its reply takes its place.
LEMMA SentAnswered ==
  ASSUME LagInv, inbox # <<>>, NEW kind, NEW n, Reply(kind, n)
  PROVE  /\ InFlight' = InFlight
         /\ \A i \in 1 .. InFlight : Sent(i)'.cmd = Sent(i).cmd /\ Sent(i)'.of = Sent(i).of
<1> DEFINE p == [cmd |-> Head(inbox).cmd, of |-> Head(inbox).of, kind |-> kind, done |-> n]
<1>1. /\ IsSeq(inbox) /\ IsSeq(replies) /\ Len(inbox) \in Nat /\ Len(replies) \in Nat
  BY StreamLengths
<1>2. inbox' = Tail(inbox) /\ replies' = Append(replies, p)
  BY DEF Reply
<1>3. p.cmd = Head(inbox).cmd /\ p.of = Head(inbox).of
  OBVIOUS
<1> HIDE DEF p
<1>4. /\ Len(inbox') + 1 = Len(inbox) /\ Len(inbox') \in Nat /\ Head(inbox) = inbox[1]
      /\ \A i \in 1 .. Len(inbox) - 1 : inbox'[i] = inbox[i + 1]
  BY <1>1, <1>2, TailIsSeq, TailElements, LenIsNat
<1>5. /\ Len(replies') = Len(replies) + 1
      /\ \A i \in 1 .. Len(replies) : replies'[i] = replies[i]
      /\ replies'[Len(replies) + 1] = p
  BY <1>1, <1>2, AppendIsSeq, AppendElements
<1>6. ASSUME NEW i \in 1 .. InFlight
      PROVE  Sent(i)'.cmd = Sent(i).cmd /\ Sent(i)'.of = Sent(i).of
  <2>1. CASE i <= Len(replies)
    <3>1. i \in 1 .. Len(replies) /\ i <= Len(replies')
      BY <1>1, <1>5, <2>1
    <3>2. Sent(i)' = replies'[i] /\ Sent(i) = replies[i]
      BY <2>1, <3>1 DEF Sent
    <3> QED
      BY <1>5, <3>1, <3>2
  <2>2. CASE i = Len(replies) + 1
    <3>1. i <= Len(replies') /\ ~(i <= Len(replies)) /\ i - Len(replies) = 1
      BY <1>1, <1>5, <2>2
    <3>2. Sent(i)' = p /\ Sent(i) = inbox[1]
      BY <1>5, <2>2, <3>1 DEF Sent
    <3> QED
      BY <1>3, <1>4, <3>2
  <2>3. CASE i > Len(replies) + 1
    <3>1. /\ ~(i <= Len(replies')) /\ ~(i <= Len(replies))
          /\ i - Len(replies') \in 1 .. Len(inbox) - 1
          /\ i - Len(replies') + 1 = i - Len(replies)
      BY <1>1, <1>5, <2>3 DEF InFlight
    <3>2. Sent(i)' = inbox'[i - Len(replies')] /\ Sent(i) = inbox[i - Len(replies)]
      BY <3>1 DEF Sent
    <3> QED
      BY <1>4, <3>1, <3>2
  <2> QED
    BY <1>1, <2>1, <2>2, <2>3
<1>7. InFlight' = InFlight
  <2>1. InFlight' = (Len(replies) + 1) + Len(inbox') /\ InFlight = Len(replies) + Len(inbox)
    BY <1>5 DEF InFlight
  <2>2. (Len(replies) + 1) + Len(inbox') = Len(replies) + Len(inbox)
    <3>1. \A k, l, n1 \in Nat : l + 1 = n1 => (k + 1) + l = k + n1
      OBVIOUS
    <3> QED
      BY <1>1, <1>4, <3>1
  <2> QED
    BY <2>1, <2>2
<1> QED
  BY <1>6, <1>7

-----------------------------------------------------------------------------
\* What the head of the script says about where the poll is.
LEMMA HeadOfScript ==
  ASSUME ScriptInv, todo # <<>>
  PROVE  /\ Len(todo) \in Nat /\ Len(todo) >= 1 /\ Head(todo) = todo[1]
         /\ todo[1] = "progress" => PollAhead /\ Len(todo) = After + 3
         /\ todo[1] # "progress" => (PollAhead => Len(todo) > After + 3)
         /\ todo[1] = "start" => PollAhead
<1>1. After \in Nat
  BY RconAssumption
<1>2. todo \in Seq(Commands) /\ Len(todo) \in Nat /\ Len(todo) >= 1 /\ Head(todo) = todo[1]
  BY DEF ScriptInv
<1>3. todo[1] = "progress" => Len(todo) = After + 3
  BY <1>1, <1>2 DEF ScriptInv
<1>4. Len(todo) = After + 3 => Len(todo) - After - 2 = 1 /\ Len(todo) > After + 2
  BY <1>1, <1>2
<1>5. todo[1] = "progress" => PollAhead
  BY <1>3, <1>4 DEF PollAhead
<1>6. todo[1] # "progress" => (PollAhead => Len(todo) > After + 3)
  <2>1. PollAhead => Len(todo) > After + 2 /\ todo[Len(todo) - After - 2] = "progress"
    BY DEF PollAhead
  <2> QED
    BY <1>1, <1>2, <1>4, <2>1
<1>7. todo[1] = "start" => PollAhead
  BY <1>2 DEF ScriptInv
<1> QED
  BY <1>2, <1>3, <1>5, <1>6, <1>7

\* A command is done with: the poll keeps its place, or it is behind.
LEMMA ScriptTail ==
  ASSUME ScriptInv, todo # <<>>, todo' = Tail(todo), ~await'
  PROVE  /\ ScriptInv' /\ Len(todo') = Len(todo) - 1
         /\ todo[1] # "progress" => (PollAhead' <=> PollAhead)
         /\ todo[1] = "progress" => ~PollAhead'
<1> DEFINE T == Len(todo)
<1>1. /\ T \in Nat /\ T >= 1 /\ After \in Nat
      /\ todo[1] = "progress" => PollAhead /\ T = After + 3
      /\ todo[1] # "progress" => (PollAhead => T > After + 3)
  BY HeadOfScript, RconAssumption
<1>2. /\ todo' \in Seq(Commands) /\ Len(todo') = T - 1
      /\ \A i \in 1 .. T - 1 : todo'[i] = todo[i + 1]
  BY DEF ScriptInv
<1> HIDE DEF T
<1>3. T > After + 3 => (PollAhead' <=> PollAhead)
  <2>1. ASSUME T > After + 3
        PROVE  /\ T - 1 > After + 2 /\ T > After + 2
               /\ T - 1 - After - 2 \in 1 .. T - 1
               /\ (T - 1 - After - 2) + 1 = T - After - 2
    BY <1>1, <2>1
  <2>2. ASSUME T > After + 3
        PROVE  todo'[T - 1 - After - 2] = todo[T - After - 2]
    BY <1>2, <2>1, <2>2
  <2> QED
    BY <1>2, <2>1, <2>2 DEF PollAhead, T
<1>4. T <= After + 3 => ~PollAhead'
  BY <1>1, <1>2 DEF PollAhead
<1>5. /\ todo[1] # "progress" => (PollAhead' <=> PollAhead)
      /\ todo[1] = "progress" => ~PollAhead'
  BY <1>1, <1>3, <1>4
<1>6. ASSUME NEW i \in 1 .. T - 1, todo'[i] = "progress"
      PROVE  T - 1 = i + After + 2
  <2>1. i + 1 \in 1 .. T /\ todo[i + 1] = "progress"
    BY <1>1, <1>2, <1>6
  <2> QED
    BY <1>1, <2>1 DEF ScriptInv, T
<1>7. ASSUME NEW i \in 1 .. T - 1, todo'[i] = "start"
      PROVE  i + After + 2 < T - 1 /\ PollAhead'
  <2>1. i + 1 \in 1 .. T /\ todo[i + 1] = "start"
    BY <1>1, <1>2, <1>7
  <2>2. (i + 1) + After + 2 < T /\ PollAhead
    BY <2>1 DEF ScriptInv, T
  <2> QED
    BY <1>1, <1>3, <2>2
<1>8. ~PollAhead' => T - 1 <= After + 3
  <2>1. ~PollAhead => T <= After + 3
    BY DEF ScriptInv, T
  <2> QED
    BY <1>1, <1>5, <2>1
<1>9. ScriptInv'
  BY <1>2, <1>6, <1>7, <1>8 DEF ScriptInv
<1> QED
  BY <1>2, <1>5, <1>9 DEF T

\* "confirm" and "start-again" take the place of "start".
LEMMA ScriptConfirm ==
  ASSUME ScriptInv, todo # <<>>, todo[1] = "start", ~await',
         NEW a \in Commands, NEW b \in Commands,
         a \notin {"progress", "start"}, b \notin {"progress", "start"},
         todo' = <<a, b>> \o Tail(todo)
  PROVE  ScriptInv' /\ Len(todo') = Len(todo) + 1 /\ PollAhead /\ PollAhead'
<1> DEFINE T == Len(todo)
           ab == <<a, b>>
<1>1. T \in Nat /\ T >= 1 /\ After \in Nat /\ PollAhead
  BY HeadOfScript, RconAssumption
<1>2. T > After + 3 /\ todo[T - After - 2] = "progress"
  <2>1. T > After + 3
    BY <1>1, HeadOfScript
  <2> QED
    BY <1>1, <2>1 DEF PollAhead
<1>3. /\ Tail(todo) \in Seq(Commands) /\ Len(Tail(todo)) = T - 1
      /\ \A i \in 1 .. T - 1 : Tail(todo)[i] = todo[i + 1]
  BY DEF ScriptInv
<1>4. ab \in Seq(Commands) /\ Len(ab) = 2 /\ ab[1] = a /\ ab[2] = b
  OBVIOUS
<1>5. todo' = ab \o Tail(todo)
  OBVIOUS
<1> HIDE DEF T, ab
<1>6. /\ todo' \in Seq(Commands) /\ Len(todo') = T + 1
      /\ todo'[1] = a /\ todo'[2] = b
      /\ \A i \in 3 .. T + 1 : todo'[i] = todo[i - 1]
  <2> DEFINE t == Tail(todo)
  <2>1. /\ t \in Seq(Commands) /\ Len(t) = T - 1
        /\ \A i \in 1 .. T - 1 : t[i] = todo[i + 1]
    BY <1>3
  <2> HIDE DEF t
  <2>2. /\ todo' \in Seq(Commands) /\ Len(todo') = 2 + (T - 1)
        /\ todo'[1] = a /\ todo'[2] = b
        /\ \A i \in 3 .. 2 + (T - 1) : todo'[i] = t[i - 2]
    <3>1. /\ ab \o t \in Seq(Commands) /\ Len(ab \o t) = Len(ab) + Len(t)
          /\ \A i \in 1 .. Len(ab) : (ab \o t)[i] = ab[i]
          /\ \A i \in Len(ab) + 1 .. Len(ab) + Len(t) : (ab \o t)[i] = t[i - Len(ab)]
      BY <1>4, <2>1, JoinElements
    <3>2. todo' = ab \o t
      BY <1>5 DEF t
    <3>3. /\ 1 \in 1 .. Len(ab) /\ 2 \in 1 .. Len(ab)
          /\ Len(ab) + Len(t) = 2 + (T - 1) /\ Len(ab) + 1 = 3
      BY <1>4, <2>1
    <3>4. todo'[1] = a /\ todo'[2] = b
      BY <1>4, <3>1, <3>2, <3>3, Zenon
    <3>5. todo' \in Seq(Commands) /\ Len(todo') = 2 + (T - 1)
      BY <3>1, <3>2, <3>3, Zenon
    <3>6. \A i \in 3 .. 2 + (T - 1) : todo'[i] = t[i - 2]
      BY <1>4, <3>1, <3>2, <3>3, Zenon
    <3> QED
      BY <3>4, <3>5, <3>6
  <2>3. ASSUME NEW i \in 3 .. T + 1
        PROVE  todo'[i] = todo[i - 1]
    <3>1. i - 2 \in 1 .. T - 1 /\ (i - 2) + 1 = i - 1 /\ i \in 3 .. 2 + (T - 1)
      BY <1>1
    <3> QED
      BY <2>1, <2>2, <3>1
  <2>4. 2 + (T - 1) = T + 1
    BY <1>1
  <2> QED
    BY <2>2, <2>3, <2>4
<1>7. PollAhead'
  <2>1. /\ T + 1 > After + 2 /\ (T + 1) - After - 2 \in 3 .. T + 1
        /\ ((T + 1) - After - 2) - 1 = T - After - 2
    BY <1>1, <1>2
  <2>2. todo'[(T + 1) - After - 2] = "progress"
    BY <1>2, <1>6, <2>1
  <2>3. Len(todo') > After + 2 /\ todo'[Len(todo') - After - 2] = "progress"
    <3>1. Len(todo') = T + 1
      BY <1>6
    <3>2. T + 1 > After + 2
      BY <2>1
    <3> QED
      BY <2>2, <3>1, <3>2, Zenon
  <2> QED
    BY <2>3 DEF PollAhead
<1>8. ASSUME NEW i \in 1 .. T + 1, todo'[i] \in {"progress", "start"}
      PROVE  i - 1 \in 1 .. T /\ todo'[i] = todo[i - 1]
  <2>1. i # 1 /\ i # 2
    BY <1>6, <1>8
  <2> QED
    BY <1>1, <1>6, <2>1
<1>9. ASSUME NEW i \in 1 .. T + 1, todo'[i] = "progress"
      PROVE  T + 1 = i + After + 2
  <2>1. i - 1 \in 1 .. T /\ todo[i - 1] = "progress"
    BY <1>8, <1>9
  <2>2. T = (i - 1) + After + 2
    BY <2>1 DEF ScriptInv, T
  <2> QED
    BY <1>1, <2>2
<1>10. ASSUME NEW i \in 1 .. T + 1, todo'[i] = "start"
       PROVE  i + After + 2 < T + 1
  <2>1. i - 1 \in 1 .. T /\ todo[i - 1] = "start"
    BY <1>8, <1>10
  <2>2. (i - 1) + After + 2 < T
    BY <2>1 DEF ScriptInv, T
  <2> QED
    BY <1>1, <2>2
<1>11. ScriptInv'
  BY <1>6, <1>7, <1>9, <1>10 DEF ScriptInv
<1> QED
  BY <1>1, <1>6, <1>7, <1>11 DEF T

\* "cancel" takes the place of the poll.
LEMMA ScriptCancel ==
  ASSUME ScriptInv, todo # <<>>, todo[1] = "progress", ~await',
         NEW c \in Commands, c \notin {"progress", "start"},
         todo' = <<c>> \o Tail(todo)
  PROVE  ScriptInv' /\ Len(todo) = After + 3 /\ Len(todo') = After + 3
         /\ PollAhead /\ ~PollAhead'
<1> DEFINE T == Len(todo)
<1>1. T \in Nat /\ After \in Nat /\ PollAhead /\ T = After + 3
  BY HeadOfScript, RconAssumption
<1>2. /\ todo' \in Seq(Commands) /\ Len(todo') = T /\ todo'[1] = c
      /\ \A i \in 2 .. T : todo'[i] = todo[i]
  BY DEF ScriptInv
<1> HIDE DEF T
<1>3. ~PollAhead'
  <2>1. T - After - 2 = 1
    BY <1>1
  <2> QED
    BY <1>2, <2>1 DEF PollAhead
<1>4. ASSUME NEW i \in 1 .. T
      PROVE  todo'[i] \notin {"progress", "start"}
  <2>1. CASE i = 1
    BY <1>2, <2>1
  <2>2. CASE i # 1
    <3>1. todo[i] # "progress"
      BY <1>1, <2>2 DEF ScriptInv, T
    <3>2. todo[i] # "start"
      BY <1>1, <2>2 DEF ScriptInv, T
    <3> QED
      BY <1>2, <2>2, <3>1, <3>2
  <2> QED
    BY <2>1, <2>2
<1>5. ScriptInv'
  BY <1>1, <1>2, <1>3, <1>4 DEF ScriptInv
<1> QED
  BY <1>1, <1>2, <1>3, <1>5 DEF T

\* A region's script from the start.
LEMMA ScriptIsWhole ==
  /\ Len(Script) = Gap + 1 /\ Gap + 1 > After + 2
  /\ (Gap + 1) - After - 2 \in 1 .. Gap + 1
  /\ Script[(Gap + 1) - After - 2] = "progress"
  /\ \A i \in 1 .. Gap + 1 : Script[i] = "progress" => Gap + 1 = i + After + 2
  /\ \A i \in 1 .. Gap + 1 : Script[i] = "start" => i + After + 2 < Gap + 1
<1>1. /\ After \in Nat /\ Before \in Nat /\ Between \in Nat
      /\ Gap = Before + Between + After + 4
  BY RconAssumption DEF Gap
<1>2. (Gap + 1) - After - 2 = Before + Between + 3 /\ Gap + 1 > After + 2
      /\ Before + Between + 3 \in 1 .. Gap + 1
  BY <1>1
<1>3. Script[(Gap + 1) - After - 2] = "progress"
  BY <1>2, ScriptShape
<1>4. ASSUME NEW i \in 1 .. Gap + 1, Script[i] = "progress"
      PROVE  Gap + 1 = i + After + 2
  <2>1. i = Before + Between + 3
    BY <1>4, ScriptShape
  <2> QED
    BY <1>1, <2>1
<1>5. ASSUME NEW i \in 1 .. Gap + 1, Script[i] = "start"
      PROVE  i + After + 2 < Gap + 1
  <2>1. i = Before + Between + 2
    BY <1>5, ScriptShape
  <2> QED
    BY <1>1, <2>1
<1> QED
  BY <1>2, <1>3, <1>4, <1>5, ScriptShape

LEMMA ScriptIsScript ==
  ASSUME todo = Script, ~await
  PROVE  ScriptInv
<1>1. PollAhead
  BY ScriptIsWhole DEF PollAhead
<1> QED
  BY <1>1, ScriptShape, ScriptIsWhole DEF ScriptInv

LEMMA ScriptStarts ==
  ASSUME todo' = Script, ~await'
  PROVE  ScriptInv' /\ PollAhead' /\ Len(todo') = Gap + 1
<1>1. PollAhead'
  BY ScriptIsWhole DEF PollAhead
<1> QED
  BY <1>1, ScriptShape, ScriptIsWhole DEF ScriptInv

-----------------------------------------------------------------------------
\* A poll of another region that far behind is not read while fewer than Gap
\* polls have timed out.
LEMMA OwnFromAge ==
  ASSUME LagInv, ScriptInv, AgeInv, working, up
  PROVE  PollsSeeOwnRegion
<1> SUFFICES ASSUME Polling, await, replies # <<>>, late < Gap,
                    Head(replies).cmd = "progress", Head(replies).of # region
             PROVE  FALSE
  BY DEF PollsSeeOwnRegion
<1>1. /\ IsSeq(replies) /\ late \in Nat /\ Len(inbox) \in Nat /\ Len(replies) \in Nat
  BY StreamLengths
<1>2. Head(replies) = replies[1] /\ Len(replies) >= 1
  BY <1>1, TailElements
<1>3. Sent(1) = replies[1]
  BY <1>2 DEF Sent
<1>4. InFlight = late + 1 /\ 1 \in 1 .. InFlight
  BY <1>1, <1>2 DEF InFlight, LagInv, LagIsExact
<1>5. Aged(Sent(1).of, InFlight - 1)
  BY <1>2, <1>3, <1>4 DEF AgeInv
<1>6. todo # <<>> /\ Head(todo) = "progress"
  BY DEF Polling
<1>7. PollAhead /\ Len(todo) = After + 3
  BY <1>6, HeadOfScript
<1>8. (InFlight - 1) + Len(todo) >= Gap + After + 3 + 1
  <2>1. Sent(1).of # region
    BY <1>2, <1>3
  <2> QED
    BY <1>5, <1>7, <2>1 DEF Aged, Waits
<1>9. Gap \in Nat /\ After \in Nat
  BY RconAssumption DEF Gap
<1> QED
  BY <1>1, <1>4, <1>7, <1>8, <1>9

\* Every poll in flight was in flight before, as many commands ago, and that many
\* are still enough.
LEMMA AgesKept ==
  ASSUME AgeInv, InFlight \in Nat, InFlight' \in Nat,
         \A i \in 1 .. InFlight' :
           \E j \in 1 .. InFlight :
             /\ Sent(j).cmd = Sent(i)'.cmd /\ Sent(j).of = Sent(i)'.of
             /\ InFlight - j = InFlight' - i,
         \A q : \A n \in Nat : Aged(q, n) => Aged(q, n)'
  PROVE  AgeInv'
<1>1. ASSUME NEW i \in 1 .. InFlight', Sent(i)'.cmd = "progress"
      PROVE  Aged(Sent(i).of, InFlight - i)'
  <2>1. PICK j \in 1 .. InFlight :
               /\ Sent(j).cmd = Sent(i)'.cmd /\ Sent(j).of = Sent(i)'.of
               /\ InFlight - j = InFlight' - i
    OBVIOUS
  <2>2. PICK q, n : q = Sent(j).of /\ n = InFlight - j
    OBVIOUS
  <2>3. n \in Nat
    BY <2>1, <2>2
  <2>4. Aged(q, n)
    BY <1>1, <2>1, <2>2 DEF AgeInv
  <2>5. Aged(q, n)'
    BY <2>3, <2>4
  <2>6. q = Sent(i)'.of /\ n = InFlight' - i
    BY <2>1, <2>2
  <2> QED
    BY <2>5, <2>6, Zenon DEF Aged
<1> QED
  BY <1>1 DEF AgeInv

LEMMA SameStream ==
  ASSUME LagInv, inbox' = inbox, replies' = replies
  PROVE  /\ InFlight \in Nat /\ InFlight' \in Nat
         /\ \A i \in 1 .. InFlight' :
              \E j \in 1 .. InFlight :
                /\ Sent(j).cmd = Sent(i)'.cmd /\ Sent(j).of = Sent(i)'.of
                /\ InFlight - j = InFlight' - i
<1>1. InFlight \in Nat /\ InFlight' = InFlight
  BY StreamLengths DEF InFlight
<1>2. \A i \in 1 .. InFlight : Sent(i)' = Sent(i)
  BY DEF Sent
<1> QED
  BY <1>1, <1>2

LEMMA ReadStream ==
  ASSUME LagInv, replies # <<>>, replies' = Tail(replies), inbox' = inbox
  PROVE  /\ InFlight \in Nat /\ InFlight' \in Nat
         /\ \A i \in 1 .. InFlight' :
              \E j \in 1 .. InFlight :
                /\ Sent(j).cmd = Sent(i)'.cmd /\ Sent(j).of = Sent(i)'.of
                /\ InFlight - j = InFlight' - i
<1>1. /\ InFlight \in Nat /\ InFlight' = InFlight - 1
      /\ \A i \in 1 .. InFlight - 1 : Sent(i)' = Sent(i + 1)
  BY StreamLengths, SentOneLess
<1>2. InFlight >= 1
  <2>1. IsSeq(replies) /\ Len(replies) \in Nat /\ Len(inbox) \in Nat
    BY StreamLengths
  <2>2. Len(replies) >= 1
    BY <2>1, TailElements
  <2> QED
    BY <2>1, <2>2 DEF InFlight
<1>3. ASSUME NEW i \in 1 .. InFlight'
      PROVE  \E j \in 1 .. InFlight :
                /\ Sent(j).cmd = Sent(i)'.cmd /\ Sent(j).of = Sent(i)'.of
                /\ InFlight - j = InFlight' - i
  <2>1. i \in 1 .. InFlight - 1 /\ i + 1 \in 1 .. InFlight
        /\ InFlight - (i + 1) = InFlight' - i
    BY <1>1
  <2>2. Sent(i)' = Sent(i + 1)
    BY <1>1, <2>1
  <2> QED
    BY <2>1, <2>2
<1> QED
  BY <1>1, <1>2, <1>3

LEMMA AnsweredStream ==
  ASSUME LagInv, inbox # <<>>, NEW kind, NEW n, Reply(kind, n)
  PROVE  /\ InFlight \in Nat /\ InFlight' \in Nat
         /\ \A i \in 1 .. InFlight' :
              \E j \in 1 .. InFlight :
                /\ Sent(j).cmd = Sent(i)'.cmd /\ Sent(j).of = Sent(i)'.of
                /\ InFlight - j = InFlight' - i
<1>1. /\ InFlight \in Nat /\ InFlight' = InFlight
      /\ \A i \in 1 .. InFlight : Sent(i)'.cmd = Sent(i).cmd /\ Sent(i)'.of = Sent(i).of
  BY StreamLengths, SentAnswered
<1> QED
  BY <1>1

LEMMA GapIsNat == After \in Nat /\ Gap \in Nat
  BY RconAssumption DEF Gap

LEMMA ScriptKept ==
  ASSUME ScriptInv, todo' = todo, await' => todo # <<>>
  PROVE  ScriptInv' /\ (PollAhead' <=> PollAhead)
  BY DEF ScriptInv, PollAhead

\* Waiting ends or goes on: enough is still enough.
LEMMA AgedKept ==
  ASSUME ScriptInv, todo' = todo, region' = region, await' => await
  PROVE  \A q : \A n \in Nat : Aged(q, n) => Aged(q, n)'
<1>1. After \in Nat /\ Gap \in Nat /\ Len(todo) \in Nat
  BY GapIsNat DEF ScriptInv
<1>2. PollAhead' <=> PollAhead
  BY DEF PollAhead
<1>3. Waits \in Nat /\ Waits' \in Nat /\ Waits' <= Waits
  BY DEF Waits
<1>4. ASSUME NEW q, NEW n \in Nat, Aged(q, n)
      PROVE  Aged(q, n)'
  BY <1>1, <1>2, <1>3, <1>4 DEF Aged
<1> QED
  BY <1>4

\* A reply is read and its command completed, or replaced: the script is one
\* shorter and nothing is awaited.
LEMMA AgedOneDone ==
  ASSUME ScriptInv, todo # <<>>, await, ~await', region' = region,
         Len(todo') = Len(todo) - 1,
         todo[1] # "progress" => (PollAhead' <=> PollAhead),
         todo[1] = "progress" => ~PollAhead'
  PROVE  \A q : \A n \in Nat : Aged(q, n) => Aged(q, n)'
<1>1. /\ After \in Nat /\ Gap \in Nat /\ Len(todo) \in Nat
      /\ todo[1] = "progress" => Len(todo) = After + 3
  BY GapIsNat, HeadOfScript
<1>2. Waits = 1 /\ Waits' = 0
  BY DEF Waits
<1>3. ASSUME NEW q, NEW n \in Nat, Aged(q, n)
      PROVE  Aged(q, n)'
  <2>1. CASE todo[1] = "progress"
    <3>1. n + Len(todo') >= After + 2
      BY <1>1, <2>1
    <3> QED
      BY <1>1, <1>2, <2>1, <3>1 DEF Aged
  <2>2. CASE todo[1] # "progress" /\ PollAhead
    <3>1. q # region => n + Len(todo) >= Gap + After + 3 + 1
      BY <1>2, <1>3, <2>2 DEF Aged
    <3>2. q # region => n + Len(todo') >= Gap + After + 3 + 0
      BY <1>1, <3>1
    <3> QED
      BY <1>2, <2>2, <3>2 DEF Aged
  <2>3. CASE todo[1] # "progress" /\ ~PollAhead
    <3>1. n + Len(todo) >= After + 2 + 1
      BY <1>2, <1>3, <2>3 DEF Aged
    <3>2. n + Len(todo') >= After + 2 + 0
      BY <1>1, <3>1
    <3> QED
      BY <1>2, <2>3, <3>2 DEF Aged
  <2> QED
    BY <2>1, <2>2, <2>3
<1> QED
  BY <1>3

LEMMA AgedConfirmed ==
  ASSUME ScriptInv, todo # <<>>, ~await', region' = region,
         Len(todo') = Len(todo) + 1, PollAhead, PollAhead'
  PROVE  \A q : \A n \in Nat : Aged(q, n) => Aged(q, n)'
<1>1. /\ After \in Nat /\ Gap \in Nat /\ Len(todo) \in Nat
  BY GapIsNat, HeadOfScript
<1>2. Waits \in Nat /\ Waits' = 0
  BY DEF Waits
<1>3. ASSUME NEW q, NEW n \in Nat, Aged(q, n)
      PROVE  Aged(q, n)'
  <2>1. q # region => n + Len(todo) >= Gap + After + 3 + Waits
    BY <1>3 DEF Aged
  <2>2. q # region => n + Len(todo') >= Gap + After + 3 + 0
    BY <1>1, <1>2, <2>1
  <2> QED
    BY <1>2, <2>2 DEF Aged
<1> QED
  BY <1>3

LEMMA AgedCancelled ==
  ASSUME ~await', Len(todo') = After + 3, ~PollAhead'
  PROVE  \A q : \A n \in Nat : Aged(q, n) => Aged(q, n)'
<1>1. ASSUME NEW q, NEW n \in Nat
      PROVE  Aged(q, n)'
  <2>1. n + Len(todo') >= After + 2 + 0
    BY GapIsNat
  <2>2. Waits' = 0
    BY DEF Waits
  <2> QED
    BY <2>1, <2>2 DEF Aged
<1> QED
  BY <1>1

LEMMA AgedNextRegion ==
  ASSUME ScriptInv, todo = <<>>, ~await', PollAhead', Len(todo') = Gap + 1
  PROVE  \A q : \A n \in Nat : Aged(q, n) => Aged(q, n)'
<1>1. Len(todo) = 0 /\ ~PollAhead /\ Waits = 0 /\ Waits' = 0
  <2>1. Len(todo) = 0
    OBVIOUS
  <2> QED
    BY <2>1, GapIsNat DEF PollAhead, Waits, ScriptInv
<1>2. ASSUME NEW q, NEW n \in Nat, Aged(q, n)
      PROVE  Aged(q, n)'
  <2>1. n + 0 >= After + 2 + 0
    BY <1>1, <1>2 DEF Aged
  <2>2. n + Len(todo') >= Gap + After + 3 + 0
    BY <2>1, GapIsNat
  <2> QED
    BY <1>1, <2>2 DEF Aged
<1> QED
  BY <1>2

\* The poll that is sent is the region's own.
LEMMA AgesSend ==
  ASSUME LagInv, ScriptInv, AgeInv, Send
  PROVE  ScriptInv' /\ AgeInv'
<1>1. /\ todo' = todo /\ region' = region /\ replies' = replies /\ ~await /\ await'
      /\ todo # <<>>
      /\ inbox' = Append(inbox, [cmd |-> Head(todo), of |-> region])
  BY DEF Send, Ready
<1>2. ScriptInv' /\ (PollAhead' <=> PollAhead)
  BY <1>1, ScriptKept
<1> DEFINE c == [cmd |-> Head(todo), of |-> region]
<1>3. c.cmd = Head(todo) /\ c.of = region
  OBVIOUS
<1> HIDE DEF c
<1>4. /\ InFlight \in Nat /\ InFlight' = InFlight + 1
      /\ \A i \in 1 .. InFlight : Sent(i)' = Sent(i)
      /\ \A i \in {InFlight + 1} : Sent(i)' = c
  BY <1>1, StreamLengths, SentOneMore DEF c
<1>5. After \in Nat /\ Gap \in Nat /\ Len(todo) \in Nat /\ Waits = 0 /\ Waits' = 1
  BY <1>1, GapIsNat DEF ScriptInv, Waits
<1>6. ASSUME NEW i \in 1 .. InFlight', Sent(i)'.cmd = "progress"
      PROVE  Aged(Sent(i).of, InFlight - i)'
  <2>1. CASE i \in 1 .. InFlight
    <3>1. PICK q, n : q = Sent(i).of /\ n = InFlight - i
      OBVIOUS
    <3>2. Aged(q, n) /\ n \in Nat
      BY <1>4, <1>6, <2>1, <3>1 DEF AgeInv
    <3>3. ASSUME PollAhead PROVE Aged(q, n + 1)'
      <4>1. q # region => n + Len(todo) >= Gap + After + 3 + 0
        BY <1>5, <3>2, <3>3 DEF Aged
      <4>2. q # region => (n + 1) + Len(todo) >= Gap + After + 3 + 1
        BY <1>5, <3>2, <4>1
      <4> QED
        BY <1>1, <1>2, <1>5, <3>3, <4>2 DEF Aged
    <3>4. ASSUME ~PollAhead PROVE Aged(q, n + 1)'
      <4>1. n + Len(todo) >= After + 2 + 0
        BY <1>5, <3>2, <3>4 DEF Aged
      <4>2. (n + 1) + Len(todo) >= After + 2 + 1
        BY <1>5, <3>2, <4>1
      <4> QED
        BY <1>1, <1>2, <1>5, <3>4, <4>2 DEF Aged
    <3>5. Aged(q, n + 1)'
      BY <3>3, <3>4
    <3>6. q = Sent(i)'.of /\ n + 1 = InFlight' - i
      BY <1>4, <2>1, <3>1
    <3> QED
      BY <3>5, <3>6, Zenon DEF Aged
  <2>2. CASE i = InFlight + 1
    <3>1. Sent(i)' = c
      BY <1>4, <2>2
    <3>2. Sent(i)'.of = region' /\ Head(todo) = "progress"
      BY <1>1, <1>3, <1>6, <3>1
    <3>3. PollAhead'
      BY <1>1, <1>2, <3>2, HeadOfScript
    <3> QED
      BY <3>2, <3>3 DEF Aged
  <2> QED
    BY <1>4, <2>1, <2>2
<1> QED
  BY <1>2, <1>6 DEF AgeInv

LEMMA PollsHold == PollsInv => PollsSeeOwnRegion
<1> SUFFICES ASSUME PollsInv
             PROVE  PollsSeeOwnRegion
  OBVIOUS
<1>1. CASE working /\ up
  BY <1>1, OwnFromAge DEF PollsInv
<1>2. CASE working /\ ~up
  BY <1>2 DEF PollsInv, LastReplyInv, PollsSeeOwnRegion
<1>3. CASE ~working
  BY <1>3 DEF PollsSeeOwnRegion
<1> QED
  BY <1>1, <1>2, <1>3

\* Minecraft handles a command.
LEMMA ReplyKeepsPolls ==
  ASSUME PollsInv, inbox # <<>>, NEW kind, NEW n, Reply(kind, n), up,
         UNCHANGED <<clientVars, late, up>>
  PROVE  PollsInv'
<1>1. LagInv /\ LagInv' /\ ScriptInv
  BY ReplyKeepsLag DEF PollsInv
<1>2. UNCHANGED <<todo, region, await, working, up>>
  BY DEF clientVars
<1>3. ScriptInv'
  BY <1>1, <1>2, ScriptKept DEF ScriptInv
<1>4. working' => AgeInv'
  BY <1>1, <1>2, AnsweredStream, AgedKept, AgesKept DEF PollsInv
<1> QED
  BY <1>1, <1>2, <1>3, <1>4 DEF PollsInv

LEMMA PollsStep == PollsInv /\ [RconNext]_rconVars => PollsInv'
<1> SUFFICES ASSUME PollsInv, [RconNext]_rconVars
             PROVE  PollsInv'
  OBVIOUS
<1>0. LagInv /\ LagInv' /\ ScriptInv
  BY LagStep DEF PollsInv
<1>1. CASE Send
  <2>1. up' /\ working /\ up
    BY <1>1 DEF Send, Ready, chunkyVars
  <2> QED
    BY <1>0, <1>1, <2>1, AgesSend DEF PollsInv
<1>2. CASE TimeOut
  <2>1. /\ todo' = todo /\ region' = region /\ inbox' = inbox /\ replies' = replies
        /\ working /\ up /\ ~await' /\ up'
    BY <1>2 DEF TimeOut, Raise, chunkyVars
  <2>2. ScriptInv'
    BY <1>0, <2>1, ScriptKept
  <2>3. AgeInv'
    BY <1>0, <2>1, SameStream, AgedKept, AgesKept DEF PollsInv
  <2> QED
    BY <1>0, <2>1, <2>2, <2>3 DEF PollsInv
<1>3. CASE LinkFails
  <2>1. todo' = todo /\ ~await' /\ ~up'
    BY <1>3 DEF LinkFails, Raise, chunkyVars
  <2>2. ScriptInv'
    BY <1>0, <2>1, ScriptKept
  <2> QED
    BY <1>0, <2>1, <2>2 DEF PollsInv, LastReplyInv
<1>4. CASE Read
  <2>1. /\ region' = region /\ inbox' = inbox /\ replies' = Tail(replies) /\ up' = up
        /\ working' = working /\ replies # <<>> /\ await /\ ~await' /\ working
        /\ todo # <<>>
    BY <1>0, <1>4 DEF Read, chunkyVars, ScriptInv
  <2>2. Head(todo) = todo[1]
    BY <1>0, <2>1, HeadOfScript
  <2>3. \/ todo' = todo
        \/ todo' = Tail(todo)
        \/ todo' = <<"confirm", "start-again">> \o Tail(todo) /\ todo[1] = "start"
    BY <1>4, <2>2 DEF Read, Unstarted
  <2>4. ScriptInv' /\ \A q : \A n \in Nat : Aged(q, n) => Aged(q, n)'
    <3>1. CASE todo' = todo
      BY <1>0, <2>1, <3>1, ScriptKept, AgedKept
    <3>2. CASE todo' = Tail(todo)
      <4>1. /\ ScriptInv' /\ Len(todo') = Len(todo) - 1
            /\ todo[1] # "progress" => (PollAhead' <=> PollAhead)
            /\ todo[1] = "progress" => ~PollAhead'
        BY <1>0, <2>1, <3>2, ScriptTail
      <4> QED
        BY <1>0, <2>1, <4>1, AgedOneDone
    <3>3. CASE todo' = <<"confirm", "start-again">> \o Tail(todo) /\ todo[1] = "start"
      <4>1. /\ "confirm" \in Commands /\ "confirm" \notin {"progress", "start"}
            /\ "start-again" \in Commands /\ "start-again" \notin {"progress", "start"}
        BY Zenon DEF Commands
      <4>2. ScriptInv' /\ Len(todo') = Len(todo) + 1 /\ PollAhead /\ PollAhead'
        <5>1. PICK a, b : a = "confirm" /\ b = "start-again"
          BY Zenon
        <5>2. /\ a \in Commands /\ a \notin {"progress", "start"}
              /\ b \in Commands /\ b \notin {"progress", "start"}
              /\ todo' = <<a, b>> \o Tail(todo)
          BY <3>3, <4>1, <5>1, Zenon
        <5> QED
          BY <1>0, <2>1, <3>3, <5>2, ScriptConfirm
      <4> QED
        BY <1>0, <2>1, <4>2, AgedConfirmed
    <3> QED
      BY <2>3, <3>1, <3>2, <3>3
  <2>5. up => AgeInv'
    BY <1>0, <2>1, <2>4, ReadStream, AgesKept DEF PollsInv
  <2> QED
    BY <1>0, <2>1, <2>4, <2>5 DEF PollsInv, LastReplyInv
<1>5. CASE GiveUp
  <2>1. /\ region' = region /\ inbox' = inbox /\ replies' = replies /\ up' = up
        /\ working /\ ~await' /\ todo # <<>> /\ Head(todo) = "progress"
        /\ todo' = <<"cancel">> \o Tail(todo)
    BY <1>5 DEF GiveUp, Ready, Polling, chunkyVars, streamVars
  <2>2. "cancel" \in Commands /\ "cancel" \notin {"progress", "start"}
    BY DEF Commands
  <2>3. todo[1] = "progress"
    BY <1>0, <2>1, HeadOfScript
  <2>4. ScriptInv' /\ Len(todo') = After + 3 /\ ~PollAhead'
    BY <1>0, <2>1, <2>2, <2>3, ScriptCancel
  <2>5. up => AgeInv'
    BY <1>0, <2>1, <2>4, SameStream, AgedCancelled, AgesKept DEF PollsInv
  <2> QED
    BY <1>0, <2>1, <2>4, <2>5 DEF PollsInv, LastReplyInv
<1>6. CASE NextRegion
  <2>1. /\ inbox' = inbox /\ replies' = replies /\ up' = up
        /\ working /\ todo = <<>> /\ todo' = Script
        /\ ~await /\ ~await'
    BY <1>0, <1>6 DEF NextRegion, chunkyVars, streamVars, ScriptInv
  <2>2. ScriptInv' /\ PollAhead' /\ Len(todo') = Gap + 1
    BY <2>1, ScriptStarts
  <2>3. up => AgeInv'
    BY <1>0, <2>1, <2>2, SameStream, AgedNextRegion, AgesKept DEF PollsInv
  <2> QED
    BY <1>0, <2>1, <2>2, <2>3 DEF PollsInv, LastReplyInv
<1>7. CASE TimePasses
  <2>1. /\ UNCHANGED <<todo, region, await, inbox, replies, up>>
        /\ working /\ ~await
    BY <1>7 DEF TimePasses, Ready, streamVars, chunkyVars
  <2>2. ScriptInv'
    BY <1>0, <2>1, ScriptKept
  <2>3. up => AgeInv'
    BY <1>0, <2>1, SameStream, AgedKept, AgesKept DEF PollsInv
  <2> QED
    BY <1>0, <2>1, <2>2, <2>3 DEF PollsInv, LastReplyInv
<1>8. CASE HandleStart \/ HandleProgress \/ HandleOther
  <2>1. inbox # <<>> /\ up /\ UNCHANGED <<clientVars, late, up>>
    BY <1>8 DEF HandleStart, HandleProgress, HandleOther, Handles
  <2>2. PICK kind, n : Reply(kind, n)
    BY <1>8 DEF HandleStart, HandleProgress, HandleOther
  <2> QED
    BY <2>1, <2>2, ReplyKeepsPolls
<1>9. CASE Generate1 \/ UNCHANGED rconVars
  <2>1. UNCHANGED <<todo, region, await, working, inbox, replies, late, up>>
    BY <1>9 DEF Generate1, rconVars, clientVars, streamVars, chunkyVars
  <2>2. ScriptInv'
    BY <1>0, <2>1, ScriptKept DEF ScriptInv
  <2>3. working /\ up => AgeInv'
    BY <1>0, <2>1, SameStream, AgedKept, AgesKept DEF PollsInv
  <2>4. working /\ ~up => LastReplyInv'
    BY <2>1 DEF PollsInv, LastReplyInv, Polling
  <2> QED
    BY <1>0, <2>1, <2>2, <2>3, <2>4 DEF PollsInv
<1>10. CASE MinecraftDies
  <2>1. UNCHANGED <<todo, region, await, working, replies, late>> /\ ~up'
    BY <1>10 DEF MinecraftDies, clientVars
  <2>2. ScriptInv'
    BY <1>0, <2>1, ScriptKept DEF ScriptInv
  <2>3. working => LastReplyInv'
    BY <2>1, PollsHold DEF PollsSeeOwnRegion, LastReplyInv, Polling
  <2> QED
    BY <1>0, <2>1, <2>2, <2>3 DEF PollsInv
<1> QED
  BY <1>1, <1>2, <1>3, <1>4, <1>5, <1>6, <1>7, <1>8, <1>9, <1>10
  DEF RconNext, ClientActs

LEMMA PollsInit == RconInit => PollsInv
<1> SUFFICES ASSUME RconInit
             PROVE  PollsInv
  OBVIOUS
<1>1. LagInv
  BY LagInit
<1>2. todo = Script /\ ~await /\ inbox = <<>> /\ replies = <<>> /\ up
  BY DEF RconInit
<1>3. ScriptInv
  BY <1>2, ScriptIsScript
<1>4. AgeInv
  <2>1. InFlight = 0
    BY <1>2 DEF InFlight
  <2> QED
    BY <2>1 DEF AgeInv
<1> QED
  BY <1>1, <1>2, <1>3, <1>4 DEF PollsInv

\* While fewer than Gap polls have timed out, what a poll reads may be the answer
\* to an earlier poll, but never to one made for another region (region by region
\* the client sends its commands in order, _run_chunky in
\* client/work_loop.py, and takes the next packet for the reply, _recv in
\* client/rcon_client.py).
THEOREM PollsAlwaysSeeOwnRegion == RconSpec => []PollsSeeOwnRegion
  BY PollsInit, PollsStep, PollsHold, PTL DEF RconSpec

-----------------------------------------------------------------------------
(* "done" is true, and saving follows the work.  The client's commands, in   *)
(* flight and to be sent, are in the order of the script, region by region;  *)
(* what each of them changes in Chunky is then known when the next one is    *)
(* handled.  Only the sets of commands matter besides their order.           *)

Items(s) == {s[i] : i \in 1 .. Len(s)}

Starts == {"start", "confirm", "start-again"}

\* The order of the commands of a region; "setting" has no place of its own.
Phase(c) ==
    IF c = "corners" THEN 1
    ELSE IF c \in Starts THEN 2
    ELSE IF c = "progress" THEN 3
    ELSE IF c = "cancel" THEN 4
    ELSE IF c = "save-off" THEN 5 ELSE 6

NotAfter(c, d) == c # "setting" /\ d # "setting" => Phase(c) <= Phase(d)

Ordered(p, q) == p.of < q.of \/ (p.of = q.of /\ NotAfter(p.cmd, q.cmd))

SentCommands == [cmd : Commands, of : Regions]

CommandOrder == {r \in Commands \X Commands : NotAfter(r[1], r[2])}
StreamOrder == {r \in SentCommands \X SentCommands : Ordered(r[1], r[2])}

Sorted(s, R) == \A i, j \in 1 .. Len(s) : i < j => <<s[i], s[j]>> \in R

LEMMA Phases ==
  /\ Phase("corners") = 1 /\ Phase("progress") = 3 /\ Phase("cancel") = 4
  /\ Phase("save-off") = 5 /\ Phase("save-on") = 6
  /\ \A c \in Starts : Phase(c) = 2 /\ c # "setting" /\ c \in Commands /\ c # "progress"
                       /\ c # "cancel" /\ c # "save-off" /\ c # "save-on" /\ c # "corners"
  /\ "start" \in Starts /\ "confirm" \in Starts
  /\ \A c \in Commands : Phase(c) \in 1 .. 6
  BY DEF Phase, Starts, Commands

-----------------------------------------------------------------------------
LEMMA ItemsEmpty == Items(<<>>) = {}
  BY DEF Items

LEMMA ItemsTyped ==
  ASSUME NEW S, NEW s \in Seq(S)
  PROVE  \A x \in Items(s) : x \in S
  BY DEF Items

LEMMA ItemsTail ==
  ASSUME NEW S, NEW s \in Seq(S), s # <<>>
  PROVE  /\ Tail(s) \in Seq(S) /\ Head(s) \in S
         /\ Items(s) = {Head(s)} \cup Items(Tail(s))
<1> DEFINE t == Tail(s)
<1>1. /\ t \in Seq(S) /\ Len(t) = Len(s) - 1 /\ Len(s) \in Nat /\ Len(s) >= 1
      /\ \A i \in 1 .. Len(t) : t[i] = s[i + 1]
      /\ Head(s) = s[1] /\ Head(s) \in S
  OBVIOUS
<1> HIDE DEF t
<1>2. ASSUME NEW x \in Items(t)
      PROVE  x \in Items(s)
  <2>1. PICK i \in 1 .. Len(t) : x = t[i]
    BY DEF Items
  <2>2. i + 1 \in 1 .. Len(s) /\ s[i + 1] = x
    BY <1>1, <2>1
  <2> QED
    BY <2>2 DEF Items
<1>3. Head(s) \in Items(s)
  <2>1. 1 \in 1 .. Len(s)
    BY <1>1
  <2> QED
    BY <1>1, <2>1 DEF Items
<1>4. ASSUME NEW x \in Items(s), x # Head(s)
      PROVE  x \in Items(t)
  <2>1. PICK i \in 1 .. Len(s) : x = s[i]
    BY DEF Items
  <2>2. i - 1 \in 1 .. Len(t) /\ (i - 1) + 1 = i
    BY <1>1, <1>4, <2>1
  <2>3. t[i - 1] = x
    BY <1>1, <2>1, <2>2
  <2> QED
    BY <2>2, <2>3 DEF Items
<1>5. Items(s) = {Head(s)} \cup Items(t)
  BY <1>2, <1>3, <1>4
<1> QED
  BY <1>1, <1>5 DEF t

LEMMA ItemsJoin ==
  ASSUME NEW S, NEW s \in Seq(S), NEW t \in Seq(S)
  PROVE  /\ s \o t \in Seq(S)
         /\ Items(s \o t) = Items(s) \cup Items(t)
<1> DEFINE st == s \o t
<1>1. /\ st \in Seq(S) /\ Len(st) = Len(s) + Len(t) /\ Len(s) \in Nat /\ Len(t) \in Nat
      /\ \A i \in 1 .. Len(s) : st[i] = s[i]
      /\ \A i \in Len(s) + 1 .. Len(s) + Len(t) : st[i] = t[i - Len(s)]
  OBVIOUS
<1> HIDE DEF st
<1>2. ASSUME NEW x \in Items(st)
      PROVE  x \in Items(s) \cup Items(t)
  <2>1. PICK i \in 1 .. Len(st) : x = st[i]
    BY DEF Items
  <2>2. CASE i \in 1 .. Len(s)
    BY <1>1, <2>1, <2>2 DEF Items
  <2>3. CASE ~(i \in 1 .. Len(s))
    <3>1. i - Len(s) \in 1 .. Len(t) /\ x = t[i - Len(s)]
      BY <1>1, <2>1, <2>3
    <3> QED
      BY <3>1 DEF Items
  <2> QED
    BY <2>2, <2>3
<1>3. ASSUME NEW x \in Items(s)
      PROVE  x \in Items(st)
  <2>1. PICK i \in 1 .. Len(s) : x = s[i]
    BY DEF Items
  <2>2. i \in 1 .. Len(st) /\ st[i] = x
    BY <1>1, <2>1
  <2> QED
    BY <2>2 DEF Items
<1>4. ASSUME NEW x \in Items(t)
      PROVE  x \in Items(st)
  <2>1. PICK i \in 1 .. Len(t) : x = t[i]
    BY DEF Items
  <2>2. i + Len(s) \in 1 .. Len(st) /\ i + Len(s) \in Len(s) + 1 .. Len(s) + Len(t)
        /\ (i + Len(s)) - Len(s) = i
    BY <1>1
  <2>3. st[i + Len(s)] = x
    BY <1>1, <2>1, <2>2
  <2> QED
    BY <2>2, <2>3 DEF Items
<1>5. Items(st) = Items(s) \cup Items(t)
  BY <1>2, <1>3, <1>4
<1> QED
  BY <1>1, <1>5 DEF st

LEMMA ItemsOne == \A e : Items(<<e>>) = {e}
<1>1. ASSUME NEW e
      PROVE  Items(<<e>>) = {e}
  <2>1. Len(<<e>>) = 1 /\ <<e>>[1] = e
    OBVIOUS
  <2>2. 1 .. 1 = {1}
    OBVIOUS
  <2> QED
    BY <2>1, <2>2 DEF Items
<1> QED
  BY <1>1

LEMMA ItemsAppend ==
  ASSUME NEW S, NEW s \in Seq(S), NEW e \in S
  PROVE  Append(s, e) \in Seq(S) /\ Items(Append(s, e)) = Items(s) \cup {e}
<1> DEFINE o == <<e>>
<1>1. Append(s, e) = s \o o /\ o \in Seq(S)
  OBVIOUS
<1>2. Items(o) = {e}
  BY ItemsOne
<1> HIDE DEF o
<1>3. s \o o \in Seq(S) /\ Items(s \o o) = Items(s) \cup {e}
  BY <1>1, <1>2, ItemsJoin
<1> QED
  BY <1>1, <1>3

LEMMA ItemsPrepend ==
  ASSUME NEW S, NEW s \in Seq(S), NEW e \in S
  PROVE  <<e>> \o s \in Seq(S) /\ Items(<<e>> \o s) = {e} \cup Items(s)
<1> DEFINE o == <<e>>
<1>1. o \in Seq(S)
  OBVIOUS
<1>2. Items(o) = {e}
  BY ItemsOne
<1> HIDE DEF o
<1>3. o \o s \in Seq(S) /\ Items(o \o s) = {e} \cup Items(s)
  BY <1>1, <1>2, ItemsJoin
<1> QED
  BY <1>3 DEF o

-----------------------------------------------------------------------------
LEMMA SortedEmpty == \A R : Sorted(<<>>, R)
  BY DEF Sorted

LEMMA SortedTail ==
  ASSUME NEW S, NEW s \in Seq(S), s # <<>>, NEW R, Sorted(s, R)
  PROVE  Sorted(Tail(s), R) /\ \A x \in Items(Tail(s)) : <<Head(s), x>> \in R
<1> DEFINE t == Tail(s)
<1>1. /\ Len(t) = Len(s) - 1 /\ Len(s) \in Nat /\ Len(s) >= 1
      /\ \A i \in 1 .. Len(t) : t[i] = s[i + 1]
      /\ Head(s) = s[1]
  OBVIOUS
<1> HIDE DEF t
<1>2. ASSUME NEW i \in 1 .. Len(t), NEW j \in 1 .. Len(t), i < j
      PROVE  <<t[i], t[j]>> \in R
  <2>1. i + 1 \in 1 .. Len(s) /\ j + 1 \in 1 .. Len(s) /\ i + 1 < j + 1
    BY <1>1, <1>2
  <2>2. <<s[i + 1], s[j + 1]>> \in R
    BY <2>1 DEF Sorted
  <2> QED
    BY <1>1, <2>2
<1>3. ASSUME NEW x \in Items(t)
      PROVE  <<Head(s), x>> \in R
  <2>1. PICK i \in 1 .. Len(t) : x = t[i]
    BY DEF Items
  <2>2. 1 \in 1 .. Len(s) /\ i + 1 \in 1 .. Len(s) /\ 1 < i + 1
    BY <1>1
  <2>3. <<s[1], s[i + 1]>> \in R
    BY <2>2 DEF Sorted
  <2> QED
    BY <1>1, <2>1, <2>3
<1>4. Sorted(t, R)
  BY <1>2 DEF Sorted
<1> QED
  BY <1>3, <1>4 DEF t

LEMMA SortedJoin ==
  ASSUME NEW S, NEW s \in Seq(S), NEW t \in Seq(S), NEW R, Sorted(s, R), Sorted(t, R),
         \A x \in Items(s) : \A y \in Items(t) : <<x, y>> \in R
  PROVE  Sorted(s \o t, R)
<1> DEFINE st == s \o t
<1>1. /\ st \in Seq(S) /\ Len(st) = Len(s) + Len(t) /\ Len(s) \in Nat /\ Len(t) \in Nat
      /\ \A i \in 1 .. Len(s) : st[i] = s[i]
      /\ \A i \in Len(s) + 1 .. Len(s) + Len(t) : st[i] = t[i - Len(s)]
  OBVIOUS
<1> HIDE DEF st
<1>2. ASSUME NEW i \in 1 .. Len(st), NEW j \in 1 .. Len(st), i < j
      PROVE  <<st[i], st[j]>> \in R
  <2>1. CASE j <= Len(s)
    <3>1. /\ i \in 1 .. Len(s) /\ j \in 1 .. Len(s)
          /\ st[i] = s[i] /\ st[j] = s[j]
      BY <1>1, <1>2, <2>1
    <3> QED
      BY <1>2, <3>1 DEF Sorted
  <2>2. CASE i <= Len(s) /\ j > Len(s)
    <3>1. /\ i \in 1 .. Len(s) /\ j - Len(s) \in 1 .. Len(t)
          /\ st[i] = s[i] /\ st[j] = t[j - Len(s)]
      BY <1>1, <2>2
    <3>2. s[i] \in Items(s) /\ t[j - Len(s)] \in Items(t)
      BY <3>1 DEF Items
    <3> QED
      BY <3>1, <3>2
  <2>3. CASE i > Len(s)
    <3>1. /\ i - Len(s) \in 1 .. Len(t) /\ j - Len(s) \in 1 .. Len(t)
          /\ i - Len(s) < j - Len(s)
          /\ st[i] = t[i - Len(s)] /\ st[j] = t[j - Len(s)]
      BY <1>1, <1>2, <2>3
    <3> QED
      BY <3>1 DEF Sorted
  <2> QED
    BY <1>1, <2>1, <2>2, <2>3
<1> QED
  BY <1>2 DEF Sorted, st

LEMMA SortedOne == \A e, R : Sorted(<<e>>, R)
<1>1. ASSUME NEW e, NEW R
      PROVE  Sorted(<<e>>, R)
  <2>1. Len(<<e>>) = 1
    OBVIOUS
  <2> QED
    BY <2>1 DEF Sorted
<1> QED
  BY <1>1

LEMMA SortedAppend ==
  ASSUME NEW S, NEW s \in Seq(S), NEW e \in S, NEW R, Sorted(s, R),
         \A x \in Items(s) : <<x, e>> \in R
  PROVE  Sorted(Append(s, e), R)
<1> DEFINE o == <<e>>
<1>1. Append(s, e) = s \o o /\ o \in Seq(S)
  OBVIOUS
<1>2. Items(o) = {e} /\ Sorted(o, R)
  BY ItemsOne, SortedOne
<1> HIDE DEF o
<1>3. Sorted(s \o o, R)
  BY <1>1, <1>2, SortedJoin
<1> QED
  BY <1>1, <1>3

LEMMA SortedPrepend ==
  ASSUME NEW S, NEW s \in Seq(S), NEW e \in S, NEW R, Sorted(s, R),
         \A x \in Items(s) : <<e, x>> \in R
  PROVE  Sorted(<<e>> \o s, R)
<1> DEFINE o == <<e>>
<1>1. o \in Seq(S)
  OBVIOUS
<1>2. Items(o) = {e} /\ Sorted(o, R)
  BY ItemsOne, SortedOne
<1> HIDE DEF o
<1>3. Sorted(o \o s, R)
  BY <1>1, <1>2, SortedJoin
<1> QED
  BY <1>3 DEF o

LEMMA InCommandOrder ==
  /\ \A c \in Commands : <<"setting", c>> \in CommandOrder /\ <<c, "setting">> \in CommandOrder
  /\ \A c, d \in Commands : Phase(c) <= Phase(d) => <<c, d>> \in CommandOrder
  /\ \A c, d : <<c, d>> \in CommandOrder => NotAfter(c, d)
  /\ "setting" \in Commands
  BY DEF CommandOrder, NotAfter, Commands

\* The script of a region is in this order and has what the invariants count on.
LEMMA ScriptInOrder ==
  /\ Script \in Seq(Commands) /\ Sorted(Script, CommandOrder)
  /\ {"corners", "start", "save-on"} \subseteq Items(Script)
<1>1. /\ "setting" \in Commands /\ "corners" \in Commands /\ "start" \in Commands
      /\ "progress" \in Commands /\ "save-off" \in Commands /\ "save-on" \in Commands
      /\ Phase("corners") = 1 /\ Phase("start") = 2 /\ Phase("progress") = 3
      /\ Phase("save-off") = 5 /\ Phase("save-on") = 6
  BY Phases DEF Commands
<1>2. ASSUME NEW n \in Nat
      PROVE  /\ Settings(n) \in Seq(Commands) /\ Sorted(Settings(n), CommandOrder)
             /\ Items(Settings(n)) \subseteq {"setting"}
  <2>1. Settings(n) \in Seq(Commands) /\ Len(Settings(n)) = n
    BY PlainSettings DEF Plain
  <2>2. \A i \in 1 .. n : Settings(n)[i] = "setting"
    BY DEF Settings
  <2> HIDE DEF Settings
  <2>3. Items(Settings(n)) \subseteq {"setting"}
    BY <2>1, <2>2 DEF Items
  <2>4. Sorted(Settings(n), CommandOrder)
    BY <1>1, <2>1, <2>2, InCommandOrder DEF Sorted
  <2> QED
    BY <2>1, <2>3, <2>4
<1> DEFINE One(x) == <<x>>
<1>3. ASSUME NEW c \in Commands
      PROVE  One(c) \in Seq(Commands) /\ Sorted(One(c), CommandOrder) /\ Items(One(c)) = {c}
  <2>1. Sorted(<<c>>, CommandOrder) /\ Items(<<c>>) = {c}
    BY SortedOne, ItemsOne
  <2> QED
    BY <2>1
<1>4. ASSUME NEW s \in Seq(Commands), NEW t \in Seq(Commands),
             Sorted(s, CommandOrder), Sorted(t, CommandOrder),
             \A x \in Items(s) : \A y \in Items(t) :
               x = "setting" \/ y = "setting" \/ Phase(x) <= Phase(y)
      PROVE  /\ s \o t \in Seq(Commands) /\ Sorted(s \o t, CommandOrder)
             /\ Items(s \o t) = Items(s) \cup Items(t)
  <2>1. \A x \in Items(s) : \A y \in Items(t) : <<x, y>> \in CommandOrder
    <3>1. /\ \A x \in Items(s) : x \in Commands
          /\ \A y \in Items(t) : y \in Commands
      BY ItemsTyped
    <3> QED
      BY <1>4, <3>1, InCommandOrder
  <2> QED
    BY <1>4, <2>1, ItemsJoin, SortedJoin
<1> HIDE DEF One
<1> DEFINE a == Settings(Before) \o One("corners")
           b == a \o Settings(Between)
           c == b \o One("start")
           d == c \o One("progress")
           off == <<"save-off", "save-on">>
           e == Settings(After) \o off
<1>5. Before \in Nat /\ Between \in Nat /\ After \in Nat
  BY RconAssumption
<1>6. /\ a \in Seq(Commands) /\ Sorted(a, CommandOrder)
      /\ Items(a) \subseteq {"setting", "corners"} /\ "corners" \in Items(a)
  <2>1. /\ Settings(Before) \in Seq(Commands) /\ Sorted(Settings(Before), CommandOrder)
        /\ Items(Settings(Before)) \subseteq {"setting"}
    BY <1>2, <1>5
  <2>2. /\ One("corners") \in Seq(Commands) /\ Sorted(One("corners"), CommandOrder)
        /\ Items(One("corners")) = {"corners"}
    BY <1>1, <1>3
  <2>3. \A x \in Items(Settings(Before)) : \A y \in Items(One("corners")) :
               x = "setting" \/ y = "setting" \/ Phase(x) <= Phase(y)
    BY <2>1
  <2>4. /\ a \in Seq(Commands) /\ Sorted(a, CommandOrder)
        /\ Items(a) = Items(Settings(Before)) \cup Items(One("corners"))
    BY <1>4, <2>1, <2>2, <2>3
  <2> QED
    BY <2>1, <2>2, <2>4
<1> HIDE DEF a
<1>7. /\ b \in Seq(Commands) /\ Sorted(b, CommandOrder)
      /\ Items(b) \subseteq {"setting", "corners"} /\ "corners" \in Items(b)
  <2>1. /\ Settings(Between) \in Seq(Commands) /\ Sorted(Settings(Between), CommandOrder)
        /\ Items(Settings(Between)) \subseteq {"setting"}
    BY <1>2, <1>5
  <2>2. \A x \in Items(a) : \A y \in Items(Settings(Between)) :
               x = "setting" \/ y = "setting" \/ Phase(x) <= Phase(y)
    BY <1>1, <1>6, <2>1
  <2>3. /\ a \o Settings(Between) \in Seq(Commands) /\ Sorted(a \o Settings(Between), CommandOrder)
        /\ Items(a \o Settings(Between)) = Items(a) \cup Items(Settings(Between))
    BY <1>4, <1>6, <2>1, <2>2
  <2> QED
    BY <1>6, <2>1, <2>3
<1> HIDE DEF b
<1>8. /\ c \in Seq(Commands) /\ Sorted(c, CommandOrder)
      /\ Items(c) \subseteq {"setting", "corners", "start"}
      /\ {"corners", "start"} \subseteq Items(c)
  <2>1. /\ One("start") \in Seq(Commands) /\ Sorted(One("start"), CommandOrder)
        /\ Items(One("start")) = {"start"}
    BY <1>1, <1>3
  <2>2. \A x \in Items(b) : \A y \in Items(One("start")) :
               x = "setting" \/ y = "setting" \/ Phase(x) <= Phase(y)
    BY <1>1, <1>7, <2>1
  <2>3. /\ b \o One("start") \in Seq(Commands) /\ Sorted(b \o One("start"), CommandOrder)
        /\ Items(b \o One("start")) = Items(b) \cup Items(One("start"))
    BY <1>4, <1>7, <2>1, <2>2
  <2> QED
    BY <1>7, <2>1, <2>3
<1> HIDE DEF c
<1>9. /\ d \in Seq(Commands) /\ Sorted(d, CommandOrder)
      /\ Items(d) \subseteq {"setting", "corners", "start", "progress"}
      /\ {"corners", "start"} \subseteq Items(d)
  <2>1. /\ One("progress") \in Seq(Commands) /\ Sorted(One("progress"), CommandOrder)
        /\ Items(One("progress")) = {"progress"}
    BY <1>1, <1>3
  <2>2. \A x \in Items(c) : \A y \in Items(One("progress")) :
               x = "setting" \/ y = "setting" \/ Phase(x) <= Phase(y)
    BY <1>1, <1>8, <2>1
  <2>3. /\ c \o One("progress") \in Seq(Commands) /\ Sorted(c \o One("progress"), CommandOrder)
        /\ Items(c \o One("progress")) = Items(c) \cup Items(One("progress"))
    BY <1>4, <1>8, <2>1, <2>2
  <2> QED
    BY <1>8, <2>1, <2>3
<1> HIDE DEF d
<1>10. /\ off \in Seq(Commands) /\ Sorted(off, CommandOrder)
       /\ Items(off) = {"save-off", "save-on"}
  <2>1. off \in Seq(Commands) /\ Len(off) = 2 /\ off[1] = "save-off" /\ off[2] = "save-on"
    BY <1>1
  <2> HIDE DEF off
  <2>2. 1 .. 2 = {1, 2}
    OBVIOUS
  <2>3. Items(off) = {"save-off", "save-on"}
    BY <2>1, <2>2 DEF Items
  <2>4. <<"save-off", "save-on">> \in CommandOrder
    BY <1>1, InCommandOrder
  <2>5. ASSUME NEW i \in 1 .. Len(off), NEW j \in 1 .. Len(off), i < j
        PROVE  <<off[i], off[j]>> \in CommandOrder
    <3>1. i = 1 /\ j = 2
      BY <2>1, <2>5
    <3> QED
      BY <2>1, <2>4, <3>1
  <2> QED
    BY <2>1, <2>3, <2>5 DEF Sorted
<1> HIDE DEF off
<1>12. /\ e \in Seq(Commands) /\ Sorted(e, CommandOrder)
       /\ Items(e) \subseteq {"setting", "save-off", "save-on"} /\ "save-on" \in Items(e)
  <2>1. /\ Settings(After) \in Seq(Commands) /\ Sorted(Settings(After), CommandOrder)
        /\ Items(Settings(After)) \subseteq {"setting"}
    BY <1>2, <1>5
  <2>2. \A x \in Items(Settings(After)) : \A y \in Items(off) :
               x = "setting" \/ y = "setting" \/ Phase(x) <= Phase(y)
    BY <1>1, <1>10, <2>1
  <2>3. /\ Settings(After) \o off \in Seq(Commands) /\ Sorted(Settings(After) \o off, CommandOrder)
        /\ Items(Settings(After) \o off) = Items(Settings(After)) \cup Items(off)
    BY <1>4, <1>10, <2>1, <2>2
  <2> QED
    BY <1>10, <2>1, <2>3
<1>13. Script = d \o e
  BY DEF Script, Prologue, Epilogue, One, off, a, b, c, d, e
<1> HIDE DEF e
<1>14. d \o e \in Seq(Commands) /\ Sorted(d \o e, CommandOrder)
       /\ Items(d \o e) = Items(d) \cup Items(e)
  BY <1>1, <1>4, <1>9, <1>12
<1> QED
  BY <1>9, <1>12, <1>13, <1>14

Kinds == {"other", "confirm", "idle", "finished", "count"}
Replies == [cmd : Commands, of : Regions, kind : Kinds, done : Nat]
Whys == {"polling", "complete", "idle", "assumed", "timed-out"}

GenTypes ==
    /\ inbox \in Seq(SentCommands) /\ replies \in Seq(Replies)
    /\ region \in Regions /\ corners \in Regions
    /\ why \in [Regions -> Whys] /\ made \in [Regions -> 0 .. Total]

\* What the client sends next, unless it repeats a poll.
Unsent == IF await THEN Tail(todo) ELSE todo

\* Commands in flight and commands to be sent are in the order of the script.
OrderInv ==
    /\ Sorted(inbox, StreamOrder) /\ Sorted(todo, CommandOrder)
    /\ \A p \in Items(inbox) :
         /\ p.of <= region
         /\ p.of = region => \A c \in Items(todo) : NotAfter(p.cmd, c)
    /\ (\E c \in Items(todo) : c \in Starts) => PollAhead
    /\ "save-off" \in Items(todo) => "save-on" \in Items(todo)

InFlightIs(c, q) == \E p \in Items(inbox) : p.cmd = c /\ p.of = q

\* Corners are selected before anything depends on them.
CornersInv == up =>
    /\ corners <= region /\ \A p \in Items(inbox) : corners <= p.of
    /\ \A p \in Items(inbox) :
         p.cmd \in Starts \cup {"progress"} => corners = p.of \/ InFlightIs("corners", p.of)
    /\ working /\ "corners" \notin Items(Unsent) =>
         corners = region \/ InFlightIs("corners", region)

\* A task belongs to the region whose start was handled last.
TaskInv ==
    /\ ~up => task = 0
    /\ task # 0 =>
        /\ task \in Regions /\ task <= region /\ made[task] < Total
        /\ \A p \in Items(inbox) : task < p.of \/ (task = p.of /\ NotAfter("start", p.cmd))
        /\ task = region => \A c \in Items(todo) : NotAfter("start", c)

WhyInv ==
    /\ \A q \in Regions : (q < region => why[q] # "polling") /\ (q > region => why[q] = "polling")
    /\ PollAhead <=> why[region] = "polling"

\* A region that was given up has been cancelled, or will be before anything else.
CancelInv == up =>
    \A q \in Regions :
        /\ why[q] = "timed-out"
        /\ task = q \/ \E p \in Items(inbox) : p.of = q /\ p.cmd \in Starts
        => InFlightIs("cancel", q) \/ (q = region /\ "cancel" \in Items(Unsent))

\* save-on follows save-off before the next region is started.
SaveInv == up =>
    /\ \A p \in Items(inbox) : p.cmd = "save-off" =>
         InFlightIs("save-on", p.of) \/ (p.of = region /\ "save-on" \in Items(Unsent))
    /\ ~saving =>
        /\ \A p \in Items(inbox) : p.cmd \in Starts =>
             \E q \in Items(inbox) : q.cmd = "save-on" /\ q.of < p.of
        /\ \/ \E q \in Items(inbox) : q.cmd = "save-on"
           \/ ~PollAhead /\ "save-on" \in Items(Unsent)
        /\ task # 0 => why[task] \in {"idle", "assumed", "complete"}

Good == late < Gap /\ (late = 0 \/ ~LeftRunning(region))
OnTask == task = region \/ made[region] = Total

\* What Minecraft said of a region was so.
ReplyInv ==
    /\ \A p \in Items(replies) :
         /\ p.of <= region
         /\ p.kind \in {"idle", "finished", "count"} => p.cmd = "progress"
         /\ p.kind = "finished" \/ (p.kind = "count" /\ p.done >= Total) => made[p.of] = Total
    /\ working /\ PollAhead /\ Good /\ region \notin paused =>
         \A p \in Items(replies) : p.kind = "idle" /\ p.of = region => made[region] = Total

Confirming ==
    await /\ Head(todo) = "start" /\ replies # <<>> /\ Head(replies).kind = "confirm"

\* Once its start was handled a region is generated: at once if nothing is left
\* running, else once "confirm" was handled.
StartInv == working /\ up /\ PollAhead =>
    /\ /\ late < Gap /\ ~LeftRunning(region)
       /\ "start" \notin Items(Unsent) /\ ~InFlightIs("start", region)
       => OnTask
    /\ /\ late = 0 /\ ~Confirming
       /\ "start" \notin Items(Unsent) /\ ~InFlightIs("start", region)
       /\ "confirm" \notin Items(Unsent) /\ ~InFlightIs("confirm", region)
       => OnTask

WorkInv ==
    /\ GenTypes
    /\ OrderInv /\ CornersInv /\ TaskInv /\ WhyInv /\ CancelInv /\ SaveInv
    /\ ReplyInv /\ StartInv
    /\ DoneIsGenerated

GenInv == PollsInv /\ QuietInv /\ WorkInv

-----------------------------------------------------------------------------
LEMMA RegionNumbers ==
  /\ Regions \subseteq Nat /\ 0 \notin Regions /\ 1 \in Regions
  /\ LastRegion \in Nat /\ Total \in Nat /\ Total > 0
  /\ \A q \in Regions : q < LastRegion => q + 1 \in Regions
  BY RconAssumption DEF Regions

LEMMA SendFacts ==
  ASSUME GenTypes, ScriptInv, Send
  PROVE  /\ UNCHANGED <<region, todo, working, why, replies, late, up, corners, task, made,
                        paused, saving>>
         /\ working /\ up /\ ~await /\ await' /\ todo # <<>>
         /\ Head(todo) \in Commands
         /\ [cmd |-> Head(todo), of |-> region] \in SentCommands
         /\ inbox' = Append(inbox, [cmd |-> Head(todo), of |-> region])
         /\ inbox' \in Seq(SentCommands)
         /\ Items(inbox') = Items(inbox) \cup {[cmd |-> Head(todo), of |-> region]}
         /\ Items(Unsent) = Items(todo)
         /\ Items(todo) = {Head(todo)} \cup Items(Unsent')
<1>1. /\ UNCHANGED <<region, todo, working, why, replies, late, up, corners, task, made,
                     paused, saving>>
      /\ working /\ up /\ ~await /\ await' /\ todo # <<>>
      /\ inbox' = Append(inbox, [cmd |-> Head(todo), of |-> region])
  BY DEF Send, Ready, chunkyVars
<1>2. todo \in Seq(Commands)
  BY DEF ScriptInv
<1>3. Tail(todo) \in Seq(Commands) /\ Head(todo) \in Commands
      /\ Items(todo) = {Head(todo)} \cup Items(Tail(todo))
  BY <1>1, <1>2, ItemsTail
<1>4. Unsent = todo /\ Unsent' = Tail(todo)
  BY <1>1 DEF Unsent
<1> DEFINE c == [cmd |-> Head(todo), of |-> region]
<1>5. c \in SentCommands
  BY <1>3 DEF GenTypes, SentCommands
<1> HIDE DEF c
<1>6. inbox \in Seq(SentCommands) /\ inbox' = Append(inbox, c)
  BY <1>1 DEF GenTypes, c
<1>7. inbox' \in Seq(SentCommands) /\ Items(inbox') = Items(inbox) \cup {c}
  BY <1>5, <1>6, ItemsAppend
<1> QED
  BY <1>1, <1>3, <1>4, <1>5, <1>7 DEF c

LEMMA HandleFacts ==
  ASSUME GenTypes, OrderInv, inbox # <<>>, NEW kind \in Kinds, NEW n \in Nat, Reply(kind, n)
  PROVE  /\ inbox' \in Seq(SentCommands) /\ replies' \in Seq(Replies)
         /\ Head(inbox) \in SentCommands
         /\ Items(inbox) = {Head(inbox)} \cup Items(inbox')
         /\ Sorted(inbox', StreamOrder)
         /\ \A p \in Items(inbox') : Ordered(Head(inbox), p)
         /\ Items(replies') = Items(replies)
              \cup {[cmd |-> Head(inbox).cmd, of |-> Head(inbox).of, kind |-> kind, done |-> n]}
         /\ Head(replies').kind = IF replies = <<>> THEN kind ELSE Head(replies).kind
<1>1. inbox \in Seq(SentCommands) /\ replies \in Seq(Replies) /\ Sorted(inbox, StreamOrder)
  BY DEF GenTypes, OrderInv
<1> DEFINE a == [cmd |-> Head(inbox).cmd, of |-> Head(inbox).of, kind |-> kind, done |-> n]
<1>2. inbox' = Tail(inbox) /\ replies' = Append(replies, a)
  BY DEF Reply
<1>3. /\ inbox' \in Seq(SentCommands) /\ Head(inbox) \in SentCommands
      /\ Items(inbox) = {Head(inbox)} \cup Items(inbox')
  BY <1>1, <1>2, ItemsTail
<1>4. /\ Sorted(inbox', StreamOrder)
      /\ \A p \in Items(inbox') : <<Head(inbox), p>> \in StreamOrder
  BY <1>1, <1>2, SortedTail
<1>5. \A p \in Items(inbox') : Ordered(Head(inbox), p)
  BY <1>4 DEF StreamOrder
<1>6. a \in Replies /\ a.kind = kind
  BY <1>3 DEF Replies, SentCommands
<1> HIDE DEF a
<1>7. replies' \in Seq(Replies) /\ Items(replies') = Items(replies) \cup {a}
  BY <1>1, <1>2, <1>6, ItemsAppend
<1>8. Head(replies').kind = IF replies = <<>> THEN kind ELSE Head(replies).kind
  <2>1. CASE replies = <<>>
    <3>1. Head(replies') = a
      BY <1>2, <2>1
    <3> QED
      BY <1>6, <2>1, <3>1
  <2>2. CASE replies # <<>>
    <3>1. Head(replies') = Head(replies)
      BY <1>1, <1>2, <1>6, <2>2
    <3> QED
      BY <2>2, <3>1
  <2> QED
    BY <2>1, <2>2
<1> QED
  BY <1>3, <1>4, <1>5, <1>7, <1>8 DEF a

LEMMA VerdictFacts ==
  ASSUME NEW r
  PROVE  /\ Verdict(r) \in {"polling", "complete", "idle", "assumed"}
         /\ Verdict(r) = "complete" =>
              r.kind = "finished" \/ (r.kind = "count" /\ r.done >= Total)
         /\ Verdict(r) = "idle" => r.kind = "idle"
<1>0. "complete" # "idle" /\ "assumed" # "idle" /\ "polling" # "idle"
      /\ "complete" # "assumed" /\ "complete" # "polling"
  OBVIOUS
<1>1. Complete(r) => r.kind = "finished" \/ (r.kind = "count" /\ r.done >= Total)
  BY Zenon DEF Complete
<1>2. Idle(r) => r.kind = "idle" /\ SeenNow(r)
  BY Zenon DEF Idle
<1>3. Assumed(r) => r.kind = "idle" /\ ~SeenNow(r)
  BY Zenon DEF Assumed
<1>4. r.kind = "idle" => r.kind # "finished" /\ r.kind # "count"
  OBVIOUS
<1>5. ~(Complete(r) /\ Idle(r)) /\ ~(Complete(r) /\ Assumed(r)) /\ ~(Idle(r) /\ Assumed(r))
  BY <1>1, <1>2, <1>3, <1>4, Zenon
<1>6. CASE Complete(r)
  <2>1. Verdict(r) = "complete"
    BY <1>5, <1>6, Zenon DEF Verdict
  <2> QED
    BY <1>0, <1>1, <1>6, <2>1, Zenon
<1>7. CASE Idle(r)
  <2>1. Verdict(r) = "idle"
    BY <1>5, <1>7, Zenon DEF Verdict
  <2> QED
    BY <1>0, <1>2, <1>7, <2>1, Zenon
<1>8. CASE Assumed(r)
  <2>1. Verdict(r) = "assumed"
    BY <1>5, <1>8, Zenon DEF Verdict
  <2> QED
    BY <1>0, <2>1, Zenon
<1>9. CASE ~Complete(r) /\ ~Idle(r) /\ ~Assumed(r)
  <2>1. Verdict(r) = "polling"
    BY <1>9, Zenon DEF Verdict
  <2> QED
    BY <1>0, <2>1, Zenon
<1> QED
  BY <1>6, <1>7, <1>8, <1>9

LEMMA AwaitFacts ==
  ASSUME ScriptInv, todo # <<>>
  PROVE  /\ Head(todo) = todo[1] /\ Head(todo) \in Commands
         /\ Tail(todo) \in Seq(Commands)
         /\ Items(todo) = {Head(todo)} \cup Items(Tail(todo))
         /\ await => Items(Unsent) = Items(Tail(todo))
         /\ ~await => Items(Unsent) = Items(todo)
<1>1. todo \in Seq(Commands)
  BY DEF ScriptInv
<1> QED
  BY <1>1, ItemsTail DEF Unsent

LEMMA UnsentIn ==
  ASSUME ScriptInv
  PROVE  /\ todo \in Seq(Commands)
         /\ Items(Unsent) \subseteq Items(todo)
         /\ \A c \in Items(todo) : c \in Commands
<1>1. todo \in Seq(Commands) /\ (await => todo # <<>>)
  BY DEF ScriptInv
<1>2. \A c \in Items(todo) : c \in Commands
  BY <1>1, ItemsTyped
<1>3. todo # <<>> => Items(Tail(todo)) \subseteq Items(todo)
  BY <1>1, ItemsTail
<1> QED
  BY <1>1, <1>2, <1>3 DEF Unsent

LEMMA PollIsThere ==
  ASSUME ScriptInv, PollAhead
  PROVE  "progress" \in Items(todo)
<1>1. After \in Nat /\ Len(todo) \in Nat /\ Len(todo) > After + 2
      /\ todo[Len(todo) - After - 2] = "progress"
  BY RconAssumption DEF ScriptInv, PollAhead
<1>2. Len(todo) - After - 2 \in 1 .. Len(todo)
  BY <1>1
<1> QED
  BY <1>1, <1>2 DEF Items

LEMMA OnlyOnePoll ==
  ASSUME ScriptInv, todo # <<>>, Head(todo) = "progress"
  PROVE  "progress" \notin Items(Tail(todo))
<1> SUFFICES ASSUME "progress" \in Items(Tail(todo))
             PROVE  FALSE
  OBVIOUS
<1>1. /\ todo \in Seq(Commands) /\ Len(todo) \in Nat /\ Len(todo) >= 1 /\ Head(todo) = todo[1]
      /\ Len(todo) = After + 3 /\ After \in Nat
  BY HeadOfScript, GapIsNat DEF ScriptInv
<1> DEFINE t == Tail(todo)
<1>2. Len(t) = Len(todo) - 1 /\ \A i \in 1 .. Len(t) : t[i] = todo[i + 1]
  BY <1>1
<1> HIDE DEF t
<1>3. PICK i \in 1 .. Len(t) : t[i] = "progress"
  BY DEF Items, t
<1>4. i + 1 \in 1 .. Len(todo) /\ todo[i + 1] = "progress"
  BY <1>1, <1>2, <1>3
<1>5. Len(todo) = (i + 1) + After + 2
  BY <1>4 DEF ScriptInv
<1> QED
  BY <1>1, <1>3, <1>5

\* The commands of a region that come before what is left are not left.
LEMMA HeadIsFirst ==
  ASSUME ScriptInv, OrderInv, todo # <<>>
  PROVE  \A c \in Items(todo) : NotAfter(Head(todo), c)
<1>1. todo \in Seq(Commands) /\ Sorted(todo, CommandOrder)
  BY DEF ScriptInv, OrderInv
<1>2. \A c \in Items(Tail(todo)) : <<Head(todo), c>> \in CommandOrder
  BY <1>1, SortedTail
<1>3. \A c \in Items(Tail(todo)) : NotAfter(Head(todo), c)
  BY <1>2, InCommandOrder
<1>4. Items(todo) = {Head(todo)} \cup Items(Tail(todo)) /\ Head(todo) \in Commands
  BY <1>1, ItemsTail
<1>5. NotAfter(Head(todo), Head(todo))
  BY <1>4, Phases DEF NotAfter
<1> QED
  BY <1>3, <1>4, <1>5

\* What comes after a poll, and after later commands.
LEMMA Places ==
  /\ \A c \in Starts \cup {"progress", "cancel", "save-off", "save-on"} : ~NotAfter(c, "corners")
  /\ \A c \in {"progress", "cancel", "save-off", "save-on"} : \A d \in Starts : ~NotAfter(c, d)
  /\ \A c \in {"cancel", "save-off", "save-on"} : ~NotAfter(c, "progress")
  /\ \A c \in {"save-off", "save-on"} : ~NotAfter(c, "cancel")
  /\ ~NotAfter("save-on", "save-off")
  /\ \A c \in Commands, s \in Starts : NotAfter(s, c) <=> NotAfter("start", c)
  /\ \A c \in Commands, s \in Starts : NotAfter(c, s) <=> NotAfter(c, "start")
  /\ \A c \in Commands : NotAfter(c, "start") => NotAfter(c, "progress")
  /\ \A c \in Commands : NotAfter(c, "progress") => NotAfter(c, "cancel")
  /\ \A c \in Commands : NotAfter("progress", c) /\ c # "progress" => NotAfter("cancel", c)
<1>1. /\ Phase("corners") = 1 /\ Phase("progress") = 3 /\ Phase("cancel") = 4
      /\ Phase("save-off") = 5 /\ Phase("save-on") = 6
      /\ \A c \in Starts : Phase(c) = 2 /\ c # "setting" /\ c \in Commands
      /\ "start" \in Starts
      /\ \A c \in Commands : Phase(c) \in 1 .. 6
  BY Phases
<1>2. \A c \in Commands : c # "setting" /\ Phase(c) = 3 => c = "progress"
  BY DEF Phase
<1> QED
  BY <1>1, <1>2 DEF NotAfter

LEMMA RegionOfSent ==
  ASSUME GenTypes
  PROVE  \A p \in Items(inbox) : p \in SentCommands /\ p.cmd \in Commands /\ p.of \in Regions
                                 /\ p.of \in Nat
<1>1. \A p \in Items(inbox) : p \in SentCommands
  BY ItemsTyped DEF GenTypes
<1> QED
  BY <1>1, RegionNumbers DEF SentCommands

LEMMA ReadFacts ==
  ASSUME GenTypes, ScriptInv, OrderInv, WhyInv, Read
  PROVE  /\ UNCHANGED <<region, working, inbox, late, up, corners, task, made, paused, saving>>
         /\ working /\ await /\ ~await' /\ todo # <<>> /\ replies # <<>>
         /\ replies' \in Seq(Replies) /\ Head(replies) \in Replies
         /\ Items(replies) = {Head(replies)} \cup Items(replies')
         /\ \/ /\ Head(todo) = "progress" /\ UNCHANGED <<todo, why>>
               /\ Items(Unsent') = Items(Unsent) \cup {"progress"}
            \/ /\ Head(todo) = "progress" /\ todo' = Tail(todo)
               /\ Items(Unsent') = Items(Unsent) /\ PollAhead /\ ~PollAhead'
               /\ \E v \in {"complete", "idle", "assumed"} :
                    /\ why' = [why EXCEPT ![region] = v]
                    /\ v = "complete" => LET r == Head(replies) IN
                         r.kind = "finished" \/ (r.kind = "count" /\ r.done >= Total)
                    /\ v = "idle" => Head(replies).kind = "idle"
            \/ /\ Head(todo) # "progress" /\ todo' = Tail(todo) /\ why' = why /\ ~Confirming
               /\ Items(Unsent') = Items(Unsent) /\ (PollAhead' <=> PollAhead)
            \/ /\ Head(todo) = "start" /\ why' = why
               /\ todo' = <<"confirm", "start-again">> \o Tail(todo)
               /\ Items(Unsent') = Items(Unsent) \cup {"confirm", "start-again"}
               /\ Items(todo') = Items(Tail(todo)) \cup {"confirm", "start-again"}
               /\ PollAhead /\ PollAhead'
<1>1. /\ UNCHANGED <<region, working, inbox, late, up, corners, task, made, paused, saving>>
      /\ working /\ await /\ ~await' /\ replies # <<>> /\ replies' = Tail(replies)
  BY DEF Read, chunkyVars
<1>2. todo # <<>> /\ todo \in Seq(Commands)
  BY <1>1 DEF ScriptInv
<1>3. replies' \in Seq(Replies) /\ Head(replies) \in Replies
      /\ Items(replies) = {Head(replies)} \cup Items(replies')
  BY <1>1, ItemsTail DEF GenTypes
<1> DEFINE r == Head(replies)
           a == <<"confirm", "start-again">>
<1>4. IF Head(todo) = "progress"
      THEN /\ why' = [why EXCEPT ![region] = Verdict(r)]
           /\ todo' = IF Verdict(r) = "polling" THEN todo ELSE Tail(todo)
      ELSE /\ why' = why
           /\ todo' = IF Unstarted(r) THEN a \o Tail(todo) ELSE Tail(todo)
  BY <1>2, Zenon DEF Read, Polling
<1>5. /\ Verdict(r) \in {"polling", "complete", "idle", "assumed"}
      /\ Verdict(r) = "complete" => r.kind = "finished" \/ (r.kind = "count" /\ r.done >= Total)
      /\ Verdict(r) = "idle" => r.kind = "idle"
  BY VerdictFacts
<1>6. /\ Head(todo) = todo[1] /\ Head(todo) \in Commands /\ Tail(todo) \in Seq(Commands)
      /\ Items(todo) = {Head(todo)} \cup Items(Tail(todo))
      /\ Items(Unsent) = Items(Tail(todo)) /\ Unsent' = todo'
  BY <1>1, <1>2, AwaitFacts DEF Unsent
<1> HIDE DEF r
<1>7. CASE Head(todo) = "progress" /\ Verdict(r) = "polling"
  <2>1. why' = [why EXCEPT ![region] = "polling"] /\ todo' = todo
    BY <1>4, <1>7, Zenon
  <2>2. why[region] = "polling"
    BY <1>2, <1>6, <1>7, HeadOfScript DEF WhyInv
  <2>3. why' = why
    BY <2>1, <2>2 DEF GenTypes
  <2>4. Items(Unsent') = Items(Unsent) \cup {"progress"}
    BY <1>6, <1>7, <2>1
  <2> QED
    BY <1>1, <1>2, <1>3, <1>7, <2>1, <2>3, <2>4
<1>8. CASE Head(todo) = "progress" /\ Verdict(r) # "polling"
  <2>1. why' = [why EXCEPT ![region] = Verdict(r)] /\ todo' = Tail(todo)
    BY <1>4, <1>8, Zenon
  <2>2. PollAhead /\ ~PollAhead'
    BY <1>1, <1>2, <1>6, <1>8, <2>1, HeadOfScript, ScriptTail
  <2>3. PICK v : v = Verdict(r)
    OBVIOUS
  <2>4. /\ v \in {"complete", "idle", "assumed"} /\ why' = [why EXCEPT ![region] = v]
        /\ v = "complete" => r.kind = "finished" \/ (r.kind = "count" /\ r.done >= Total)
        /\ v = "idle" => r.kind = "idle"
    <3>1. v \in {"complete", "idle", "assumed"}
      BY <1>5, <1>8, <2>3
    <3> QED
      BY <1>5, <2>1, <2>3, <3>1, Zenon
  <2>5. Items(Unsent') = Items(Unsent)
    BY <1>6, <2>1
  <2> QED
    BY <1>1, <1>2, <1>3, <1>8, <2>1, <2>2, <2>4, <2>5 DEF r
<1>9. CASE Head(todo) # "progress" /\ ~Unstarted(r)
  <2>1. why' = why /\ todo' = Tail(todo)
    BY <1>4, <1>9, Zenon
  <2>2. PollAhead' <=> PollAhead
    BY <1>1, <1>2, <1>6, <1>9, <2>1, ScriptTail
  <2>3. ~Confirming
    BY <1>9 DEF Confirming, Unstarted, r
  <2>4. Items(Unsent') = Items(Unsent)
    BY <1>6, <2>1
  <2> QED
    BY <1>1, <1>2, <1>3, <1>9, <2>1, <2>2, <2>3, <2>4
<1>10. CASE Head(todo) # "progress" /\ Unstarted(r)
  <2>1. why' = why /\ todo' = a \o Tail(todo) /\ Head(todo) = "start"
    BY <1>4, <1>10, Zenon DEF Unstarted
  <2>2. /\ "confirm" \in Commands /\ "confirm" \notin {"progress", "start"}
        /\ "start-again" \in Commands /\ "start-again" \notin {"progress", "start"}
    BY DEF Commands
  <2>3. PollAhead /\ PollAhead'
    <3>1. PICK x, y : x = "confirm" /\ y = "start-again"
      BY Zenon
    <3>2. /\ x \in Commands /\ x \notin {"progress", "start"}
          /\ y \in Commands /\ y \notin {"progress", "start"}
          /\ todo' = <<x, y>> \o Tail(todo)
      BY <2>1, <2>2, <3>1, Zenon
    <3> QED
      BY <1>1, <1>2, <1>6, <2>1, <3>2, ScriptConfirm
  <2>4. a \in Seq(Commands) /\ Items(a) = {"confirm", "start-again"}
    <3>1. a \in Seq(Commands) /\ Len(a) = 2 /\ a[1] = "confirm" /\ a[2] = "start-again"
      BY <2>2
    <3>2. 1 .. 2 = {1, 2}
      OBVIOUS
    <3> HIDE DEF a
    <3> QED
      BY <3>1, <3>2 DEF Items
  <2> HIDE DEF a
  <2>5. Items(a \o Tail(todo)) = Items(a) \cup Items(Tail(todo))
    <3>1. a \in Seq(Commands) /\ Tail(todo) \in Seq(Commands)
      BY <1>6, <2>4
    <3> QED
      BY <3>1, ItemsJoin
  <2>6. Items(todo') = Items(Tail(todo)) \cup {"confirm", "start-again"}
    BY <2>1, <2>4, <2>5
  <2>7. Items(Unsent') = Items(Unsent) \cup {"confirm", "start-again"}
    BY <1>6, <2>6
  <2> QED
    BY <1>1, <1>2, <1>3, <1>10, <2>1, <2>3, <2>6, <2>7 DEF a
<1> QED
  BY <1>7, <1>8, <1>9, <1>10

LEMMA GiveUpFacts ==
  ASSUME GenTypes, ScriptInv, GiveUp
  PROVE  /\ UNCHANGED <<region, working, inbox, replies, late, up, corners, task, made, paused,
                        saving>>
         /\ working /\ ~await /\ ~await' /\ todo # <<>> /\ Head(todo) = "progress"
         /\ todo' = <<"cancel">> \o Tail(todo)
         /\ why' = [why EXCEPT ![region] = "timed-out"]
         /\ PollAhead /\ ~PollAhead'
         /\ Items(todo) = {"progress"} \cup Items(Tail(todo))
         /\ "progress" \notin Items(Tail(todo))
         /\ Items(todo') = {"cancel"} \cup Items(Tail(todo))
         /\ Items(Unsent) = Items(todo) /\ Items(Unsent') = Items(todo')
<1>1. /\ UNCHANGED <<region, working, inbox, replies, late, up, corners, task, made, paused,
                     saving>>
      /\ working /\ ~await /\ ~await' /\ todo # <<>> /\ Head(todo) = "progress"
      /\ todo' = <<"cancel">> \o Tail(todo)
      /\ why' = [why EXCEPT ![region] = "timed-out"]
  BY DEF GiveUp, Ready, Polling, chunkyVars, streamVars
<1>2. /\ Head(todo) = todo[1] /\ Tail(todo) \in Seq(Commands)
      /\ Items(todo) = {"progress"} \cup Items(Tail(todo))
      /\ Unsent = todo /\ Unsent' = todo'
  BY <1>1, AwaitFacts DEF Unsent
<1>3. "cancel" \in Commands /\ "cancel" \notin {"progress", "start"}
  BY DEF Commands
<1>4. PollAhead /\ ~PollAhead'
  BY <1>1, <1>2, <1>3, ScriptCancel
<1>5. Items(todo') = {"cancel"} \cup Items(Tail(todo))
  <2>1. PICK c : c = "cancel"
    BY Zenon
  <2>2. c \in Commands /\ todo' = <<c>> \o Tail(todo)
    BY <1>1, <1>3, <2>1, Zenon
  <2>3. Items(todo') = {c} \cup Items(Tail(todo))
    BY <1>2, <2>2, ItemsPrepend
  <2> QED
    BY <2>1, <2>3
<1>6. "progress" \notin Items(Tail(todo))
  BY <1>1, OnlyOnePoll
<1> QED
  BY <1>1, <1>2, <1>4, <1>5, <1>6

LEMMA NextRegionFacts ==
  ASSUME GenTypes, ScriptInv, NextRegion
  PROVE  /\ UNCHANGED <<working, why, inbox, replies, late, up, corners, task, made, paused,
                        saving>>
         /\ working /\ ~await /\ ~await' /\ todo' = Script
         /\ region' = region + 1 /\ region \in Nat /\ region' \in Regions
         /\ ~PollAhead /\ PollAhead'
         /\ Items(todo) = {} /\ Items(Unsent) = {}
         /\ Items(todo') = Items(Script) /\ Items(Unsent') = Items(Script)
<1>1. /\ UNCHANGED <<working, why, inbox, replies, late, up, corners, task, made, paused, saving>>
      /\ working /\ ~await /\ ~await' /\ todo = <<>> /\ todo' = Script
      /\ region' = region + 1 /\ region < LastRegion
  BY DEF NextRegion, chunkyVars, streamVars, ScriptInv
<1>2. PollAhead'
  BY <1>1, ScriptStarts
<1>3. ~PollAhead
  <2>1. Len(todo) = 0
    BY <1>1
  <2> QED
    BY <2>1, GapIsNat DEF PollAhead
<1>4. region \in Nat /\ region' \in Regions
  BY <1>1, RegionNumbers DEF GenTypes
<1>5. Unsent = <<>> /\ Unsent' = Script /\ Items(todo) = {}
  BY <1>1, ItemsEmpty DEF Unsent
<1> QED
  BY <1>1, <1>2, <1>3, <1>4, <1>5, ItemsEmpty

\* The client hears nothing, for 10 s or because Minecraft is gone.
LEMMA RaiseFacts ==
  ASSUME GenTypes, ScriptInv, TimeOut \/ LinkFails
  PROVE  /\ UNCHANGED <<region, todo, why, inbox, replies, up, corners, task, made, paused,
                        saving>>
         /\ working /\ ~await' /\ todo # <<>> /\ (PollAhead' <=> PollAhead)
         /\ working' => Head(todo) = "progress"
         /\ Items(Unsent) \subseteq Items(Unsent')
         /\ working' => Items(Unsent') \subseteq Items(Unsent) \cup {"progress"}
         /\ up => late' = late + 1
         /\ ~up => late' = late
<1>1. /\ UNCHANGED <<region, todo, why, inbox, replies, up, corners, task, made, paused, saving>>
      /\ working /\ ~await' /\ (working' => Head(todo) = "progress")
      /\ await \/ todo # <<>>
      /\ up => late' = late + 1
      /\ ~up => late' = late
  BY DEF TimeOut, LinkFails, Raise, chunkyVars, Polling
<1>2. todo # <<>>
  BY <1>1 DEF ScriptInv
<1>3. PollAhead' <=> PollAhead
  BY <1>1 DEF PollAhead
<1>4. /\ Items(todo) = {Head(todo)} \cup Items(Tail(todo))
      /\ await => Items(Unsent) = Items(Tail(todo))
      /\ ~await => Items(Unsent) = Items(todo)
  BY <1>2, AwaitFacts
<1>5. Unsent' = todo
  BY <1>1 DEF Unsent
<1> QED
  BY <1>1, <1>2, <1>3, <1>4, <1>5

LEMMA SendKeeps ==
  ASSUME GenInv, Send
  PROVE  WorkInv'
<1>0. /\ GenTypes /\ ScriptInv /\ OrderInv /\ CornersInv /\ TaskInv /\ WhyInv /\ CancelInv
      /\ SaveInv /\ ReplyInv /\ StartInv /\ DoneIsGenerated
  BY DEF GenInv, WorkInv, PollsInv
<1> DEFINE h == Head(todo)
           c == [cmd |-> Head(todo), of |-> region]
<1>1. /\ UNCHANGED <<region, todo, working, why, replies, late, up, corners, task, made,
                     paused, saving>>
      /\ working /\ up /\ ~await /\ await' /\ todo # <<>>
      /\ h \in Commands /\ c \in SentCommands /\ c.cmd = h /\ c.of = region
      /\ inbox' = Append(inbox, c) /\ inbox' \in Seq(SentCommands)
      /\ Items(inbox') = Items(inbox) \cup {c}
      /\ Items(Unsent) = Items(todo)
      /\ Items(todo) = {h} \cup Items(Unsent')
  BY <1>0, SendFacts
<1>2. \A d \in Items(todo) : NotAfter(h, d)
  BY <1>0, <1>1, HeadIsFirst
<1>3. \A p \in Items(inbox) : p \in SentCommands /\ p.cmd \in Commands /\ p.of \in Regions
                              /\ p.of \in Nat
  BY <1>0, RegionOfSent
<1>4. PollAhead' <=> PollAhead
  BY <1>1 DEF PollAhead
<1> HIDE DEF h, c
<1>5. region \in Nat /\ corners \in Nat
  BY <1>0, RegionNumbers DEF GenTypes
<1>6. \A d, q : InFlightIs(d, q) => \E p \in Items(inbox') : p.cmd = d /\ p.of = q
  BY <1>1 DEF InFlightIs
<1>11. GenTypes'
  BY <1>0, <1>1 DEF GenTypes
<1>12. OrderInv'
  <2>1. \A p \in Items(inbox) : p.of <= region /\ (p.of = region => NotAfter(p.cmd, h))
    BY <1>0, <1>1 DEF OrderInv
  <2>2. \A p \in Items(inbox) : <<p, c>> \in StreamOrder
    BY <1>1, <1>3, <1>5, <2>1 DEF StreamOrder, Ordered
  <2>3. Sorted(inbox', StreamOrder)
    BY <1>0, <1>1, <2>2, SortedAppend DEF GenTypes, OrderInv
  <2>4. \A p \in Items(inbox') :
           p.of <= region /\ (p.of = region => \A d \in Items(todo) : NotAfter(p.cmd, d))
    BY <1>0, <1>1, <1>2, <1>5 DEF OrderInv
  <2> QED
    BY <1>0, <1>1, <1>4, <2>3, <2>4 DEF OrderInv
<1>13. CornersInv'
  <2>1. h \in Starts \cup {"progress"} => "corners" \notin Items(todo)
    BY <1>2, Places
  <2>2. h = "corners" => \E p \in Items(inbox') : p.cmd = "corners" /\ p.of = region
    BY <1>1
  <2>3. ASSUME NEW p \in Items(inbox'), p.cmd \in Starts \cup {"progress"}
        PROVE  corners = p.of \/ \E q \in Items(inbox') : q.cmd = "corners" /\ q.of = p.of
    BY <1>0, <1>1, <1>6, <2>1, <2>3 DEF CornersInv
  <2>4. ASSUME "corners" \notin Items(Unsent')
        PROVE  corners = region \/ \E q \in Items(inbox') : q.cmd = "corners" /\ q.of = region
    BY <1>0, <1>1, <1>6, <2>2, <2>4 DEF CornersInv
  <2>5. corners <= region /\ \A p \in Items(inbox') : corners <= p.of
    BY <1>0, <1>1 DEF CornersInv
  <2> QED
    BY <1>1, <2>3, <2>4, <2>5 DEF CornersInv, InFlightIs
<1>14. TaskInv'
  <2>1. task # 0 => task < region \/ (task = region /\ NotAfter("start", h))
    <3>1. task # 0 => task \in Nat /\ task <= region
      BY <1>0, RegionNumbers DEF TaskInv
    <3>2. task # 0 /\ task = region => NotAfter("start", h)
      BY <1>0, <1>1 DEF TaskInv
    <3> QED
      BY <1>5, <3>1, <3>2
  <2> QED
    BY <1>0, <1>1, <2>1 DEF TaskInv
<1>15. WhyInv'
  BY <1>0, <1>1, <1>4 DEF WhyInv
<1>16. CancelInv'
  <2>1. h \in Starts => why[region] # "timed-out"
    BY <1>0, <1>1 DEF OrderInv, WhyInv
  <2>2. ASSUME NEW q \in Regions, why[q] = "timed-out",
               task = q \/ \E p \in Items(inbox') : p.of = q /\ p.cmd \in Starts
        PROVE  \/ \E p \in Items(inbox') : p.cmd = "cancel" /\ p.of = q
               \/ q = region /\ "cancel" \in Items(Unsent')
    <3>1. task = q \/ \E p \in Items(inbox) : p.of = q /\ p.cmd \in Starts
      BY <1>1, <2>1, <2>2
    <3>2. InFlightIs("cancel", q) \/ (q = region /\ "cancel" \in Items(todo))
      BY <1>0, <1>1, <2>2, <3>1 DEF CancelInv
    <3> QED
      BY <1>1, <1>6, <3>2
  <2> QED
    BY <1>1, <2>2 DEF CancelInv, InFlightIs
<1>17. SaveInv'
  <2>1. ASSUME NEW p \in Items(inbox'), p.cmd = "save-off"
        PROVE  \/ \E q \in Items(inbox') : q.cmd = "save-on" /\ q.of = p.of
               \/ p.of = region /\ "save-on" \in Items(Unsent')
    <3>1. CASE p \in Items(inbox)
      <4>1. InFlightIs("save-on", p.of) \/ (p.of = region /\ "save-on" \in Items(todo))
        BY <1>0, <1>1, <2>1, <3>1 DEF SaveInv
      <4> QED
        BY <1>1, <1>6, <4>1
    <3>2. CASE p = c
      <4>1. "save-off" \in Items(todo) /\ h # "save-on"
        BY <1>1, <2>1, <3>2
      <4>2. "save-on" \in Items(todo)
        BY <1>0, <4>1 DEF OrderInv
      <4> QED
        BY <1>1, <3>2, <4>1, <4>2
    <3> QED
      BY <1>1, <3>1, <3>2
  <2>2. ASSUME ~saving
        PROVE  \/ \E q \in Items(inbox') : q.cmd = "save-on"
               \/ ~PollAhead /\ "save-on" \in Items(Unsent')
    <3>1. \/ \E q \in Items(inbox) : q.cmd = "save-on"
          \/ ~PollAhead /\ "save-on" \in Items(todo)
      BY <1>0, <1>1, <2>2 DEF SaveInv
    <3> QED
      BY <1>1, <3>1
  <2>3. ASSUME ~saving, NEW p \in Items(inbox'), p.cmd \in Starts
        PROVE  \E q \in Items(inbox') : q.cmd = "save-on" /\ q.of < p.of
    <3>1. CASE p \in Items(inbox)
      BY <1>0, <1>1, <2>3, <3>1 DEF SaveInv
    <3>2. CASE p = c
      <4>1. PollAhead /\ h \in Starts
        BY <1>0, <1>1, <2>3, <3>2 DEF OrderInv
      <4>2. PICK q \in Items(inbox) : q.cmd = "save-on"
        BY <1>0, <1>1, <2>3, <4>1 DEF SaveInv
      <4>3. q.of <= region /\ (q.of = region => NotAfter("save-on", h))
        BY <1>0, <1>1, <4>2 DEF OrderInv
      <4>4. ~NotAfter("save-on", h)
        BY <4>1, Places
      <4>5. q.of < region
        BY <1>3, <1>5, <4>2, <4>3, <4>4
      <4> QED
        BY <1>1, <3>2, <4>2, <4>5
    <3> QED
      BY <1>1, <3>1, <3>2
  <2> QED
    BY <1>0, <1>1, <1>4, <2>1, <2>2, <2>3 DEF SaveInv, InFlightIs
<1>18. ReplyInv'
  BY <1>0, <1>1, <1>4 DEF ReplyInv, Good, LeftRunning
<1>19. StartInv'
  <2>1. \A d : d \notin Items(Unsent') /\ ~(\E p \in Items(inbox') : p.cmd = d /\ p.of = region)
               => d \notin Items(Unsent) /\ ~InFlightIs(d, region)
    BY <1>1 DEF InFlightIs
  <2>2. ~Confirming
    BY <1>1 DEF Confirming
  <2> QED
    BY <1>0, <1>1, <1>4, <2>1, <2>2 DEF StartInv, OnTask, LeftRunning, InFlightIs
<1>20. DoneIsGenerated'
  BY <1>0, <1>1 DEF DoneIsGenerated, LeftRunning
<1> QED
  BY <1>11, <1>12, <1>13, <1>14, <1>15, <1>16, <1>17, <1>18, <1>19, <1>20 DEF WorkInv

LEMMA RaiseKeeps ==
  ASSUME GenInv, TimeOut \/ LinkFails
  PROVE  WorkInv'
<1>0. /\ GenTypes /\ ScriptInv /\ OrderInv /\ CornersInv /\ TaskInv /\ WhyInv /\ CancelInv
      /\ SaveInv /\ ReplyInv /\ StartInv /\ DoneIsGenerated
      /\ late \in Nat
  BY DEF GenInv, WorkInv, PollsInv, LagInv
<1>1. /\ UNCHANGED <<region, todo, why, inbox, replies, up, corners, task, made, paused,
                     saving>>
      /\ working /\ ~await' /\ todo # <<>> /\ (PollAhead' <=> PollAhead)
      /\ working' => Head(todo) = "progress"
      /\ Items(Unsent) \subseteq Items(Unsent')
      /\ working' => Items(Unsent') \subseteq Items(Unsent) \cup {"progress"}
      /\ up => late' = late + 1
      /\ ~up => late' = late
  BY <1>0, RaiseFacts
<1>2. up => late' # 0
  BY <1>0, <1>1
<1>3. Gap \in Nat /\ (late' < Gap => late < Gap) /\ (late' = 0 => late = 0)
  BY <1>0, <1>1, GapIsNat
<1>11. GenTypes'
  BY <1>0, <1>1 DEF GenTypes
<1>12. OrderInv'
  BY <1>0, <1>1 DEF OrderInv
<1>13. CornersInv'
  BY <1>0, <1>1 DEF CornersInv, InFlightIs
<1>14. TaskInv'
  BY <1>0, <1>1 DEF TaskInv
<1>15. WhyInv'
  BY <1>0, <1>1 DEF WhyInv
<1>16. CancelInv'
  BY <1>0, <1>1 DEF CancelInv, InFlightIs
<1>17. SaveInv'
  BY <1>0, <1>1 DEF SaveInv, InFlightIs
<1>18. ReplyInv'
  <2>1. Good' => Good
    BY <1>1, <1>3 DEF Good, LeftRunning
  <2> QED
    BY <1>0, <1>1, <2>1 DEF ReplyInv
<1>19. StartInv'
  <2>1. up' => late' # 0
    BY <1>1, <1>2
  <2>2. OnTask' <=> OnTask
    BY <1>1 DEF OnTask
  <2> QED
    BY <1>0, <1>1, <1>3, <2>1, <2>2 DEF StartInv, InFlightIs, LeftRunning
<1>20. DoneIsGenerated'
  BY <1>0, <1>1, <1>3 DEF DoneIsGenerated, LeftRunning
<1> QED
  BY <1>11, <1>12, <1>13, <1>14, <1>15, <1>16, <1>17, <1>18, <1>19, <1>20 DEF WorkInv

\* Nothing changes but the client's clock.
LEMMA WaitKeeps ==
  ASSUME GenInv, TimePasses \/ UNCHANGED rconVars
  PROVE  WorkInv'
<1>0. /\ GenTypes /\ ScriptInv /\ OrderInv /\ CornersInv /\ TaskInv /\ WhyInv /\ CancelInv
      /\ SaveInv /\ ReplyInv /\ StartInv /\ DoneIsGenerated
  BY DEF GenInv, WorkInv, PollsInv
<1>1. UNCHANGED <<region, todo, await, working, why, inbox, replies, late, up, corners, task,
                  made, paused, saving>>
  BY DEF TimePasses, rconVars, clientVars, streamVars, chunkyVars
<1>2. (PollAhead' <=> PollAhead) /\ Unsent' = Unsent
  BY <1>1 DEF PollAhead, Unsent
<1>11. GenTypes' /\ OrderInv' /\ CornersInv' /\ TaskInv' /\ WhyInv'
  BY <1>0, <1>1, <1>2 DEF GenTypes, OrderInv, CornersInv, TaskInv, WhyInv, InFlightIs
<1>12. CancelInv' /\ SaveInv'
  BY <1>0, <1>1, <1>2 DEF CancelInv, SaveInv, InFlightIs
<1>13. ReplyInv' /\ StartInv' /\ DoneIsGenerated'
  BY <1>0, <1>1, <1>2 DEF ReplyInv, StartInv, DoneIsGenerated, LeftRunning, Good, OnTask,
     Confirming, InFlightIs
<1> QED
  BY <1>11, <1>12, <1>13 DEF WorkInv

LEMMA GenerateKeeps ==
  ASSUME GenInv, Generate1
  PROVE  WorkInv'
<1>0. /\ GenTypes /\ ScriptInv /\ OrderInv /\ CornersInv /\ TaskInv /\ WhyInv /\ CancelInv
      /\ SaveInv /\ ReplyInv /\ StartInv /\ DoneIsGenerated
  BY DEF GenInv, WorkInv, PollsInv
<1>1. /\ UNCHANGED <<region, todo, await, working, why, inbox, replies, late, up, corners,
                     paused, saving>>
      /\ up /\ task # 0
      /\ made' = [made EXCEPT ![task] = @ + 1]
      /\ task' = IF made[task] + 1 < Total THEN task ELSE 0
  BY DEF Generate1, clientVars, streamVars
<1>2. (PollAhead' <=> PollAhead) /\ Unsent' = Unsent
  BY <1>1 DEF PollAhead, Unsent
<1>3. task \in Regions /\ made[task] < Total /\ Total \in Nat /\ 0 \notin Regions
      /\ made \in [Regions -> 0 .. Total]
  BY <1>0, <1>1, RegionNumbers DEF TaskInv, GenTypes
<1>4. /\ made' \in [Regions -> 0 .. Total]
      /\ \A q \in Regions : q # task => made'[q] = made[q]
      /\ made'[task] = made[task] + 1
  BY <1>1, <1>3
<1>5. \A q \in Regions : made[q] = Total => made'[q] = Total
  BY <1>3, <1>4
<1>6. \/ task' = task /\ made'[task] < Total
      \/ task' = 0 /\ made'[task] = Total
  BY <1>1, <1>3, <1>4
<1>7. region \in Regions
  BY <1>0 DEF GenTypes
<1>11. GenTypes' /\ OrderInv' /\ CornersInv' /\ WhyInv'
  BY <1>0, <1>1, <1>2, <1>4 DEF GenTypes, OrderInv, CornersInv, WhyInv, InFlightIs
<1>12. TaskInv'
  BY <1>0, <1>1, <1>6 DEF TaskInv
<1>13. CancelInv'
  BY <1>0, <1>1, <1>2, <1>3, <1>6 DEF CancelInv, InFlightIs
<1>14. SaveInv'
  BY <1>0, <1>1, <1>2, <1>6 DEF SaveInv, InFlightIs
<1>15. ReplyInv'
  <2>1. \A p \in Items(replies) : p.of \in Regions
    <3>1. \A p \in Items(replies) : p \in Replies
      BY <1>0, ItemsTyped DEF GenTypes
    <3> QED
      BY <3>1 DEF Replies
  <2> QED
    BY <1>0, <1>1, <1>2, <1>5, <1>7, <2>1 DEF ReplyInv, Good, LeftRunning
<1>16. StartInv'
  <2>1. OnTask => OnTask'
    BY <1>1, <1>5, <1>6, <1>7 DEF OnTask
  <2> QED
    BY <1>0, <1>1, <1>2, <2>1 DEF StartInv, InFlightIs, LeftRunning, Confirming
<1>17. DoneIsGenerated'
  BY <1>0, <1>1, <1>5 DEF DoneIsGenerated, LeftRunning
<1> QED
  BY <1>11, <1>12, <1>13, <1>14, <1>15, <1>16, <1>17 DEF WorkInv

LEMMA DeathKeeps ==
  ASSUME GenInv, MinecraftDies
  PROVE  WorkInv'
<1>0. /\ GenTypes /\ ScriptInv /\ OrderInv /\ WhyInv /\ ReplyInv /\ DoneIsGenerated
  BY DEF GenInv, WorkInv, PollsInv
<1>1. /\ UNCHANGED <<region, todo, await, working, why, replies, late, corners, made, paused,
                     saving>>
      /\ ~up' /\ task' = 0 /\ inbox' = <<>>
  BY DEF MinecraftDies, clientVars
<1>2. (PollAhead' <=> PollAhead) /\ Unsent' = Unsent
  BY <1>1 DEF PollAhead, Unsent
<1>3. Items(inbox') = {} /\ inbox' \in Seq(SentCommands) /\ Sorted(inbox', StreamOrder)
  BY <1>1, ItemsEmpty, SortedEmpty
<1>11. GenTypes' /\ OrderInv' /\ TaskInv' /\ WhyInv'
  BY <1>0, <1>1, <1>2, <1>3 DEF GenTypes, OrderInv, TaskInv, WhyInv
<1>12. CornersInv' /\ CancelInv' /\ SaveInv' /\ StartInv'
  BY <1>1 DEF CornersInv, CancelInv, SaveInv, StartInv
<1>13. ReplyInv' /\ DoneIsGenerated'
  BY <1>0, <1>1, <1>2 DEF ReplyInv, DoneIsGenerated, Good, LeftRunning
<1> QED
  BY <1>11, <1>12, <1>13 DEF WorkInv

\* The polls of a region end only once: what is known of other regions stays.
LEMMA VerdictsStay ==
  ASSUME GenTypes, WhyInv, PollAhead, NEW v, why' = [why EXCEPT ![region] = v],
         region' = region
  PROVE  /\ why'[region] = v /\ \A q \in Regions : q # region => why'[q] = why[q]
         /\ why[region] = "polling"
         /\ \A r \in Regions : LeftRunning(r) => LeftRunning(r)'
         /\ LeftRunning(region)' => LeftRunning(region)
<1>1. region \in Regions /\ region \in Nat
  BY RegionNumbers DEF GenTypes
<1>2. /\ why'[region] = v /\ \A q \in Regions : q # region => why'[q] = why[q]
      /\ why[region] = "polling"
  BY <1>1 DEF GenTypes, WhyInv
<1>3. LastRegion \in Nat
  BY RegionNumbers
<1>4. \A r \in Regions : \A q \in 1 .. r - 1 : q \in Regions
  BY <1>3 DEF Regions
<1>5. \A q \in 1 .. region - 1 : q \in Regions /\ q # region
  BY <1>1, <1>4
<1>6. \A r \in Regions : (\E q \in 1 .. r - 1 : why[q] \in {"idle", "assumed"})
                           => \E q \in 1 .. r - 1 : why'[q] \in {"idle", "assumed"}
  BY <1>2, <1>4
<1>7. (\E q \in 1 .. region - 1 : why'[q] \in {"idle", "assumed"})
        => \E q \in 1 .. region - 1 : why[q] \in {"idle", "assumed"}
  BY <1>2, <1>5
<1>8. \A r : LeftRunning(r) <=> \E q \in 1 .. r - 1 : why[q] \in {"idle", "assumed"}
  BY DEF LeftRunning
<1>9. /\ \A r \in Regions : LeftRunning(r)
                            => \E q \in 1 .. r - 1 : why'[q] \in {"idle", "assumed"}
      /\ (\E q \in 1 .. region - 1 : why'[q] \in {"idle", "assumed"}) => LeftRunning(region)
  BY <1>6, <1>7, <1>8
<1>10. \A r : LeftRunning(r)' <=> \E q \in 1 .. r - 1 : why'[q] \in {"idle", "assumed"}
  BY DEF LeftRunning
<1>11. LeftRunning(region)' <=> \E q \in 1 .. region' - 1 : why'[q] \in {"idle", "assumed"}
  BY DEF LeftRunning
<1> QED
  BY <1>2, <1>9, <1>10, <1>11

LEMMA GiveUpKeeps ==
  ASSUME GenInv, GiveUp
  PROVE  WorkInv'
<1>0. /\ GenTypes /\ ScriptInv /\ OrderInv /\ CornersInv /\ TaskInv /\ WhyInv /\ CancelInv
      /\ SaveInv /\ ReplyInv /\ StartInv /\ DoneIsGenerated
  BY DEF GenInv, WorkInv, PollsInv
<1>1. /\ UNCHANGED <<region, working, inbox, replies, late, up, corners, task, made, paused,
                     saving>>
      /\ working /\ ~await /\ ~await' /\ todo # <<>> /\ Head(todo) = "progress"
      /\ todo' = <<"cancel">> \o Tail(todo)
      /\ why' = [why EXCEPT ![region] = "timed-out"]
      /\ PollAhead /\ ~PollAhead'
      /\ Items(todo) = {"progress"} \cup Items(Tail(todo))
      /\ "progress" \notin Items(Tail(todo))
      /\ Items(todo') = {"cancel"} \cup Items(Tail(todo))
      /\ Items(Unsent) = Items(todo) /\ Items(Unsent') = Items(todo')
  BY <1>0, GiveUpFacts
<1> DEFINE c == "cancel"
           t == Tail(todo)
<1>2. /\ why'[region] = "timed-out" /\ \A q \in Regions : q # region => why'[q] = why[q]
      /\ why[region] = "polling"
      /\ \A r \in Regions : LeftRunning(r) => LeftRunning(r)'
  BY <1>0, <1>1, VerdictsStay
<1>3. todo \in Seq(Commands) /\ t \in Seq(Commands) /\ c \in Commands
      /\ \A d \in Items(todo) : d \in Commands
  <2>1. c \in Commands
    BY DEF Commands
  <2> QED
    BY <1>0, <1>1, <2>1, AwaitFacts, UnsentIn
<1>4. \A d \in Items(todo) : NotAfter("progress", d)
  BY <1>0, <1>1, HeadIsFirst
<1>5. \A p \in Items(inbox) : p.cmd \in Commands
  BY <1>0, RegionOfSent
<1>6. region \in Regions
  BY <1>0 DEF GenTypes
<1>7. \A s \in Starts : s \notin Items(todo) /\ s \notin Items(todo')
  <2>1. \A s \in Starts : s # "cancel" /\ s \notin Items(todo)
    BY <1>4, Places, Phases
  <2> QED
    BY <1>1, <2>1
<1>8. NotAfter("start", c)
  BY Phases DEF NotAfter
<1>11. GenTypes'
  BY <1>0, <1>1 DEF GenTypes, Whys
<1>12. OrderInv'
  <2>1. \A d \in Items(t) : NotAfter(c, d)
    BY <1>1, <1>3, <1>4, Places
  <2>2. \A d \in Items(t) : <<c, d>> \in CommandOrder
    BY <1>1, <1>3, <2>1 DEF CommandOrder
  <2>3. Sorted(t, CommandOrder)
    BY <1>0, <1>1, <1>3, SortedTail DEF OrderInv
  <2>4. Sorted(todo', CommandOrder)
    <3>1. PICK e : e = c
      OBVIOUS
    <3>2. e \in Commands /\ \A d \in Items(t) : <<e, d>> \in CommandOrder
      BY <1>3, <2>2, <3>1
    <3>3. Sorted(<<e>> \o t, CommandOrder)
      BY <1>3, <2>3, <3>2, SortedPrepend
    <3>4. todo' = <<e>> \o t
      BY <1>1, <3>1, Zenon
    <3> QED
      BY <3>3, <3>4
  <2>5. ASSUME NEW p \in Items(inbox), p.of = region
        PROVE  \A d \in Items(todo') : NotAfter(p.cmd, d)
    <3>1. \A d \in Items(todo) : NotAfter(p.cmd, d)
      BY <1>0, <2>5 DEF OrderInv
    <3>2. NotAfter(p.cmd, c)
      BY <1>1, <1>5, <3>1, Places
    <3> QED
      BY <1>1, <3>1, <3>2
  <2>6. "save-off" \in Items(todo') => "save-on" \in Items(todo')
    BY <1>0, <1>1 DEF OrderInv
  <2>7. \A p \in Items(inbox) : p.of <= region
    BY <1>0 DEF OrderInv
  <2>8. Sorted(inbox, StreamOrder)
    BY <1>0 DEF OrderInv
  <2> QED
    BY <1>1, <1>7, <2>4, <2>5, <2>6, <2>7, <2>8 DEF OrderInv
<1>13. CornersInv'
  BY <1>0, <1>1 DEF CornersInv, InFlightIs
<1>14. TaskInv'
  BY <1>0, <1>1, <1>8 DEF TaskInv
<1>15. WhyInv'
  BY <1>0, <1>1, <1>2 DEF WhyInv
<1>16. CancelInv'
  BY <1>0, <1>1, <1>2 DEF CancelInv, InFlightIs
<1>17. SaveInv'
  <2>1. "save-on" \in Items(todo) => "save-on" \in Items(todo')
    BY <1>1
  <2>2. ASSUME up, ~saving, task # 0
        PROVE  why'[task] \in {"idle", "assumed", "complete"}
    <3>1. why[task] \in {"idle", "assumed", "complete"} /\ task \in Regions
      BY <1>0, <2>2 DEF SaveInv, TaskInv
    <3> QED
      BY <1>2, <3>1
  <2> QED
    BY <1>0, <1>1, <2>1, <2>2 DEF SaveInv, InFlightIs
<1>18. ReplyInv'
  BY <1>0, <1>1 DEF ReplyInv
<1>19. StartInv'
  BY <1>1 DEF StartInv
<1>20. DoneIsGenerated'
  <2>1. ASSUME NEW r \in Regions,
               why'[r] = "complete" \/ (why'[r] = "idle" /\ r \notin paused),
               late = 0 \/ (late < Gap /\ ~LeftRunning(r)')
        PROVE  made[r] = Total
    <3>1. why'[r] = why[r]
      BY <1>2, <2>1
    <3>2. ~LeftRunning(r)' => ~LeftRunning(r)
      BY <1>2
    <3> QED
      BY <1>0, <2>1, <3>1, <3>2 DEF DoneIsGenerated
  <2> QED
    BY <1>1, <2>1 DEF DoneIsGenerated, LeftRunning
<1> QED
  BY <1>11, <1>12, <1>13, <1>14, <1>15, <1>16, <1>17, <1>18, <1>19, <1>20 DEF WorkInv

LEMMA NextRegionKeeps ==
  ASSUME GenInv, NextRegion
  PROVE  WorkInv'
<1>0. /\ GenTypes /\ ScriptInv /\ OrderInv /\ CornersInv /\ TaskInv /\ WhyInv /\ CancelInv
      /\ SaveInv /\ ReplyInv /\ StartInv /\ DoneIsGenerated
  BY DEF GenInv, WorkInv, PollsInv
<1>1. /\ UNCHANGED <<working, why, inbox, replies, late, up, corners, task, made, paused,
                     saving>>
      /\ working /\ ~await /\ ~await' /\ todo' = Script
      /\ region' = region + 1 /\ region \in Nat /\ region' \in Regions
      /\ ~PollAhead /\ PollAhead'
      /\ Items(todo) = {} /\ Items(Unsent) = {}
      /\ Items(todo') = Items(Script) /\ Items(Unsent') = Items(Script)
  BY <1>0, NextRegionFacts
<1>2. /\ Sorted(Script, CommandOrder)
      /\ "corners" \in Items(Script) /\ "start" \in Items(Script) /\ "save-on" \in Items(Script)
  BY ScriptInOrder
<1>3. \A p \in Items(inbox) : p.of \in Nat /\ p.of <= region
  BY <1>0, RegionOfSent DEF OrderInv
<1>4. Regions \subseteq Nat
  BY RegionNumbers
<1>11. GenTypes'
  BY <1>0, <1>1 DEF GenTypes
<1>12. OrderInv'
  <2>1. \A p \in Items(inbox) : p.of <= region' /\ p.of # region'
    BY <1>1, <1>3
  <2> QED
    BY <1>0, <1>1, <1>2, <2>1 DEF OrderInv
<1>13. CornersInv'
  <2>1. up => corners <= region'
    <3>1. up => corners \in Nat /\ corners <= region
      BY <1>0, <1>4 DEF CornersInv, GenTypes
    <3> QED
      BY <1>1, <3>1
  <2> QED
    BY <1>0, <1>1, <1>2, <2>1 DEF CornersInv, InFlightIs
<1>14. TaskInv'
  <2>1. task # 0 => task <= region' /\ task # region'
    <3>1. task # 0 => task \in Nat /\ task <= region
      BY <1>0, <1>4 DEF TaskInv
    <3> QED
      BY <1>1, <3>1
  <2> QED
    BY <1>0, <1>1, <2>1 DEF TaskInv
<1>15. WhyInv'
  <2>1. why[region] # "polling" /\ why[region'] = "polling"
    <3>1. region' > region
      BY <1>1
    <3> QED
      BY <1>0, <1>1, <3>1 DEF WhyInv
  <2>2. ASSUME NEW q \in Regions
        PROVE  (q < region' => why[q] # "polling") /\ (q > region' => why[q] = "polling")
    <3>1. q < region' => q < region \/ q = region
      BY <1>1, <1>4
    <3>2. q > region' => q > region
      BY <1>1, <1>4
    <3> QED
      BY <1>0, <2>1, <3>1, <3>2 DEF WhyInv
  <2> QED
    BY <1>1, <2>1, <2>2 DEF WhyInv
<1>16. CancelInv'
  BY <1>0, <1>1 DEF CancelInv, InFlightIs
<1>17. SaveInv'
  BY <1>0, <1>1 DEF SaveInv, InFlightIs
<1>18. ReplyInv'
  <2>1. \A p \in Items(replies) : p.of \in Nat /\ p.of <= region
    <3>1. \A p \in Items(replies) : p \in Replies
      BY <1>0, ItemsTyped DEF GenTypes
    <3>2. \A p \in Items(replies) : p.of \in Regions
      BY <3>1 DEF Replies
    <3> QED
      BY <1>0, <1>4, <3>2 DEF ReplyInv
  <2>2. \A p \in Items(replies) : p.of <= region' /\ p.of # region'
    BY <1>1, <2>1
  <2> QED
    BY <1>0, <1>1, <2>2 DEF ReplyInv
<1>19. StartInv'
  BY <1>1, <1>2 DEF StartInv
<1>20. DoneIsGenerated'
  BY <1>0, <1>1 DEF DoneIsGenerated, LeftRunning
<1> QED
  BY <1>11, <1>12, <1>13, <1>14, <1>15, <1>16, <1>17, <1>18, <1>19, <1>20 DEF WorkInv

\* What a poll read shows the region to be, it is.
LEMMA ReadIsRight ==
  ASSUME GenInv, working, await, todo # <<>>, Head(todo) = "progress", replies # <<>>,
         late < Gap
  PROVE  LET r == Head(replies) IN
           /\ r.kind = "finished" \/ (r.kind = "count" /\ r.done >= Total) => made[region] = Total
           /\ r.kind = "idle" /\ region \notin paused /\ (late = 0 \/ ~LeftRunning(region))
                => made[region] = Total
<1> DEFINE r == Head(replies)
<1>1. /\ GenTypes /\ ScriptInv /\ ReplyInv /\ PollsSeeOwnRegion
  BY PollsHold DEF GenInv, WorkInv, PollsInv
<1>2. r \in Items(replies)
  BY <1>1, ItemsTail DEF GenTypes
<1>3. PollAhead
  BY <1>1, HeadOfScript
<1>4. r.cmd = "progress" => r.of = region
  BY <1>1 DEF PollsSeeOwnRegion, Polling
<1> HIDE DEF r
<1>5. r.kind \in {"idle", "finished", "count"} => r.of = region
  BY <1>1, <1>2, <1>4 DEF ReplyInv
<1>6. r.kind = "finished" \/ (r.kind = "count" /\ r.done >= Total) => made[region] = Total
  BY <1>1, <1>2, <1>5 DEF ReplyInv
<1>7. ASSUME r.kind = "idle", region \notin paused, late = 0 \/ ~LeftRunning(region)
      PROVE  made[region] = Total
  <2>1. Good
    BY <1>7 DEF Good
  <2> QED
    BY <1>1, <1>2, <1>3, <1>5, <1>7, <2>1 DEF ReplyInv
<1> QED
  BY <1>6, <1>7 DEF r

LEMMA ReadKeeps ==
  ASSUME GenInv, Read
  PROVE  WorkInv'
<1>0. /\ GenTypes /\ ScriptInv /\ OrderInv /\ CornersInv /\ TaskInv /\ WhyInv /\ CancelInv
      /\ SaveInv /\ ReplyInv /\ StartInv /\ DoneIsGenerated
      /\ ScriptInv' /\ late \in Nat
  <2>1. PollsInv'
    <3>1. [RconNext]_rconVars
      BY DEF RconNext, ClientActs
    <3> QED
      BY <3>1, PollsStep DEF GenInv
  <2> QED
    BY <2>1 DEF GenInv, WorkInv, PollsInv, LagInv
<1>1. /\ UNCHANGED <<region, working, inbox, late, up, corners, task, made, paused, saving>>
      /\ working /\ await /\ ~await' /\ todo # <<>> /\ replies # <<>>
      /\ replies' \in Seq(Replies) /\ Head(replies) \in Replies
      /\ Items(replies) = {Head(replies)} \cup Items(replies')
  BY <1>0, ReadFacts
<1> DEFINE t == Tail(todo)
           fresh == {"confirm", "start-again"}
           A == /\ Head(todo) = "progress" /\ UNCHANGED <<todo, why>>
                /\ Items(Unsent') = Items(Unsent) \cup {"progress"}
           B == /\ Head(todo) = "progress" /\ todo' = Tail(todo)
                /\ Items(Unsent') = Items(Unsent) /\ PollAhead /\ ~PollAhead'
                /\ \E v \in {"complete", "idle", "assumed"} :
                    /\ why' = [why EXCEPT ![region] = v]
                    /\ v = "complete" => LET r == Head(replies) IN
                         r.kind = "finished" \/ (r.kind = "count" /\ r.done >= Total)
                    /\ v = "idle" => Head(replies).kind = "idle"
           C == /\ Head(todo) # "progress" /\ todo' = Tail(todo) /\ why' = why /\ ~Confirming
                /\ Items(Unsent') = Items(Unsent) /\ (PollAhead' <=> PollAhead)
           D == /\ Head(todo) = "start" /\ why' = why
                /\ todo' = <<"confirm", "start-again">> \o Tail(todo)
                /\ Items(Unsent') = Items(Unsent) \cup {"confirm", "start-again"}
                /\ Items(todo') = Items(Tail(todo)) \cup {"confirm", "start-again"}
                /\ PollAhead /\ PollAhead'
<1>2. A \/ B \/ C \/ D
  BY <1>0, ReadFacts
<1>3. /\ todo \in Seq(Commands) /\ t \in Seq(Commands) /\ Head(todo) \in Commands
      /\ Items(todo) = {Head(todo)} \cup Items(t)
      /\ \A d \in Items(todo) : d \in Commands
  BY <1>0, <1>1, AwaitFacts, UnsentIn
<1>4. \A d \in Items(todo) : NotAfter(Head(todo), d)
  BY <1>0, <1>1, HeadIsFirst
<1>5. \A p \in Items(inbox) : p.cmd \in Commands /\ p.of \in Regions
  BY <1>0, RegionOfSent
<1>6. region \in Regions
  BY <1>0 DEF GenTypes
<1>7. A \/ C \/ D => (PollAhead' <=> PollAhead) /\ why' = why
  BY DEF PollAhead
<1>8. /\ Items(Unsent) \subseteq Items(Unsent')
      /\ Items(Unsent') \subseteq Items(Unsent) \cup {"progress"} \cup fresh
  BY <1>2
<1>9. \/ Items(todo') \subseteq Items(todo)
      \/ D /\ Items(todo') = Items(t) \cup fresh
  BY <1>2, <1>3
<1>10. /\ \A q \in Regions : q # region => why'[q] = why[q]
       /\ \A r \in Regions : LeftRunning(r) => LeftRunning(r)'
       /\ LeftRunning(region)' => LeftRunning(region)
       /\ \/ (PollAhead' <=> PollAhead) /\ why' = why
          \/ /\ PollAhead /\ ~PollAhead' /\ why[region] = "polling"
             /\ why'[region] \in {"complete", "idle", "assumed"}
  <2>1. CASE why' = why /\ (PollAhead' <=> PollAhead)
    <3>1. \A r : LeftRunning(r)' <=> \E q \in 1 .. r - 1 : why'[q] \in {"idle", "assumed"}
      BY DEF LeftRunning
    <3>2. \A r : LeftRunning(r) <=> \E q \in 1 .. r - 1 : why[q] \in {"idle", "assumed"}
      BY DEF LeftRunning
    <3>3. LeftRunning(region)' <=> \E q \in 1 .. region' - 1 : why'[q] \in {"idle", "assumed"}
      BY DEF LeftRunning
    <3>4. /\ \A r : LeftRunning(r)' <=> LeftRunning(r)
          /\ LeftRunning(region)' <=> LeftRunning(region)
      <4>1. why' = why /\ region' = region
        BY <1>1, <2>1
      <4> QED
        BY <3>1, <3>2, <3>3, <4>1, Zenon
    <3> QED
      BY <2>1, <3>4
  <2>2. CASE B
    <3>1. PICK v \in {"complete", "idle", "assumed"} : why' = [why EXCEPT ![region] = v]
      BY <2>2
    <3>2. PollAhead
      BY <2>2
    <3>3. ~PollAhead'
      BY <2>2
    <3> QED
      BY <1>0, <1>1, <3>1, <3>2, <3>3, VerdictsStay
  <2> QED
    BY <1>2, <1>7, <2>1, <2>2
<1>21. ~LeftRunning(region)' => ~LeftRunning(region)
  <2>1. PICK r \in Regions : r = region
    BY <1>6
  <2>2. LeftRunning(r) => LeftRunning(r)'
    BY <1>10
  <2>3. /\ LeftRunning(r)' <=> \E q \in 1 .. r - 1 : why'[q] \in {"idle", "assumed"}
        /\ LeftRunning(region)' <=> \E q \in 1 .. region' - 1 : why'[q] \in {"idle", "assumed"}
    BY DEF LeftRunning
  <2>4. LeftRunning(region)' <=> LeftRunning(r)'
    BY <1>1, <2>1, <2>3, Zenon
  <2>5. LeftRunning(region) <=> LeftRunning(r)
    BY <2>1, Zenon
  <2> QED
    BY <2>2, <2>4, <2>5
<1> HIDE DEF A, B, C
<1>11. GenTypes'
  <2>1. why' \in [Regions -> Whys]
    <3>1. CASE why' = why
      BY <1>0, <3>1 DEF GenTypes
    <3>2. CASE B
      BY <1>0, <3>2 DEF B, GenTypes, Whys
    <3> QED
      BY <1>2, <1>7, <3>1, <3>2
  <2> QED
    BY <1>0, <1>1, <2>1 DEF GenTypes
<1>12. OrderInv'
  <2>1. Sorted(t, CommandOrder)
    BY <1>0, <1>1, <1>3, SortedTail DEF OrderInv
  <2>2. Sorted(todo', CommandOrder)
    <3>1. CASE A
      BY <1>0, <3>1 DEF A, OrderInv
    <3>2. CASE B \/ C
      BY <2>1, <3>2 DEF B, C
    <3>3. CASE D
      <4> DEFINE a == <<"confirm", "start-again">>
      <4>1. "confirm" \in Commands /\ "start-again" \in Commands
            /\ "confirm" \in Starts /\ "start-again" \in Starts
        BY DEF Commands, Starts
      <4>2. \A s \in fresh : \A d \in Items(t) : <<s, d>> \in CommandOrder
        <5>1. \A d \in Items(t) : NotAfter("start", d)
          BY <1>3, <1>4, <3>3
        <5>2. \A s \in fresh : \A d \in Items(t) : NotAfter(s, d)
          BY <1>3, <4>1, <5>1, Places
        <5> QED
          BY <1>3, <4>1, <5>2 DEF CommandOrder
      <4>3. <<"confirm", "start-again">> \in CommandOrder
        BY <4>1, Phases, InCommandOrder
      <4>4. Sorted(a, CommandOrder) /\ a \in Seq(Commands)
        <5>1. Len(a) = 2 /\ a[1] = "confirm" /\ a[2] = "start-again" /\ a \in Seq(Commands)
          BY <4>1
        <5> HIDE DEF a
        <5>2. ASSUME NEW i \in 1 .. Len(a), NEW j \in 1 .. Len(a), i < j
              PROVE  <<a[i], a[j]>> \in CommandOrder
          <6>1. i = 1 /\ j = 2
            BY <5>1, <5>2
          <6> QED
            BY <4>3, <5>1, <6>1
        <5> QED
          BY <5>1, <5>2 DEF Sorted
      <4>5. Items(a) = fresh
        <5>1. Len(a) = 2 /\ a[1] = "confirm" /\ a[2] = "start-again"
          OBVIOUS
        <5>2. 1 .. 2 = {1, 2}
          OBVIOUS
        <5> HIDE DEF a
        <5> QED
          BY <5>1, <5>2 DEF Items
      <4>6. todo' = a \o t
        BY <3>3
      <4> HIDE DEF a
      <4>7. \A x \in Items(a) : \A y \in Items(t) : <<x, y>> \in CommandOrder
        BY <4>2, <4>5
      <4>8. Sorted(a \o t, CommandOrder)
        BY <1>3, <2>1, <4>4, <4>7, SortedJoin
      <4> QED
        BY <4>6, <4>8
    <3> QED
      BY <1>2, <3>1, <3>2, <3>3
  <2>3. ASSUME NEW p \in Items(inbox), p.of = region
        PROVE  \A d \in Items(todo') : NotAfter(p.cmd, d)
    <3>1. \A d \in Items(todo) : NotAfter(p.cmd, d)
      BY <1>0, <2>3 DEF OrderInv
    <3>2. ASSUME D PROVE \A d \in fresh : NotAfter(p.cmd, d)
      <4>1. NotAfter(p.cmd, "start")
        BY <1>3, <3>1, <3>2
      <4>2. \A d \in fresh : d \in Starts
        BY DEF Starts
      <4> QED
        BY <1>5, <4>1, <4>2, Places
    <3> QED
      BY <1>3, <1>9, <3>1, <3>2
  <2>4. (\E d \in Items(todo') : d \in Starts) => PollAhead'
    <3>1. CASE PollAhead' <=> PollAhead
      <4>1. (\E d \in Items(todo) : d \in Starts) => PollAhead
        BY <1>0 DEF OrderInv
      <4> QED
        BY <1>9, <3>1, <4>1
    <3>2. CASE B
      <4>1. Head(todo) = "progress" /\ Items(todo') \subseteq Items(todo)
        BY <1>3, <3>2 DEF B
      <4> QED
        BY <1>4, <4>1, Places
    <3> QED
      BY <1>2, <1>7, <3>1, <3>2
  <2>5. "save-off" \in Items(todo') => "save-on" \in Items(todo')
    <3>1. Head(todo) = "save-on" => "save-off" \notin Items(todo)
      BY <1>4, Places
    <3>2. "save-off" \in Items(todo) => "save-on" \in Items(todo)
      BY <1>0 DEF OrderInv
    <3>3. CASE A
      BY <3>2, <3>3 DEF A
    <3>4. CASE B \/ C
      BY <1>3, <3>1, <3>2, <3>4 DEF B, C
    <3>5. CASE D
      BY <1>3, <3>2, <3>5
    <3> QED
      BY <1>2, <3>3, <3>4, <3>5
  <2>6. /\ \A p \in Items(inbox) : p.of <= region
        /\ Sorted(inbox, StreamOrder)
    BY <1>0 DEF OrderInv
  <2> QED
    BY <1>1, <2>2, <2>3, <2>4, <2>5, <2>6 DEF OrderInv
<1>13. CornersInv'
  BY <1>0, <1>1, <1>8 DEF CornersInv, InFlightIs
<1>14. TaskInv'
  <2>1. ASSUME task # 0, task = region, NEW d \in Items(todo')
        PROVE  NotAfter("start", d)
    <3>1. \A e \in Items(todo) : NotAfter("start", e)
      BY <1>0, <2>1 DEF TaskInv
    <3>2. \A e \in fresh : NotAfter("start", e)
      BY Phases DEF NotAfter, Starts
    <3> QED
      BY <1>3, <1>9, <2>1, <3>1, <3>2
  <2> QED
    BY <1>0, <1>1, <2>1 DEF TaskInv
<1>15. WhyInv'
  <2>1. \A q \in Regions :
          (q < region => why'[q] # "polling") /\ (q > region => why'[q] = "polling")
    <3>1. region \in Nat /\ Regions \subseteq Nat
      BY <1>6, RegionNumbers
    <3> QED
      BY <1>0, <1>10, <3>1 DEF WhyInv
  <2>2. PollAhead' <=> why'[region] = "polling"
    BY <1>0, <1>10 DEF WhyInv
  <2> QED
    BY <1>1, <2>1, <2>2 DEF WhyInv
<1>16. CancelInv'
  <2>1. \A q \in Regions : why'[q] = "timed-out" => why[q] = "timed-out"
    BY <1>10
  <2> QED
    BY <1>0, <1>1, <1>8, <2>1 DEF CancelInv, InFlightIs
<1>17. SaveInv'
  <2>1. ASSUME up, ~saving, task # 0
        PROVE  why'[task] \in {"idle", "assumed", "complete"}
    <3>1. why[task] \in {"idle", "assumed", "complete"} /\ task \in Regions
      BY <1>0, <2>1 DEF SaveInv, TaskInv
    <3> QED
      BY <1>10, <3>1
  <2>2. ~PollAhead => ~PollAhead'
    BY <1>10
  <2> QED
    BY <1>0, <1>1, <1>8, <2>1, <2>2 DEF SaveInv, InFlightIs
<1>18. ReplyInv'
  <2>1. PollAhead' /\ Good' => PollAhead /\ Good
    BY <1>1, <1>10, <1>21 DEF Good
  <2> QED
    BY <1>0, <1>1, <2>1 DEF ReplyInv
<1>19. StartInv'
  <2>1. PollAhead' => PollAhead
    BY <1>10
  <2>2. ASSUME late < Gap, ~LeftRunning(region), "start" \notin Items(Unsent'),
               ~InFlightIs("start", region), up, PollAhead'
        PROVE  OnTask
    BY <1>0, <1>1, <1>8, <2>1, <2>2 DEF StartInv
  <2>3. ASSUME late = 0, "start" \notin Items(Unsent'), ~InFlightIs("start", region),
               "confirm" \notin Items(Unsent'), ~InFlightIs("confirm", region), up, PollAhead'
        PROVE  OnTask
    <3>1. ~Confirming
      <4>1. CASE A
        BY <4>1 DEF A, Confirming
      <4>2. CASE C
        BY <4>2 DEF C
      <4>3. ~B /\ ~D
        BY <2>3 DEF B
      <4> QED
        BY <1>2, <4>1, <4>2, <4>3
    <3> QED
      BY <1>0, <1>1, <1>8, <2>1, <2>3, <3>1 DEF StartInv
  <2>4. (OnTask' <=> OnTask) /\ (InFlightIs("start", region)' <=> InFlightIs("start", region))
        /\ (InFlightIs("confirm", region)' <=> InFlightIs("confirm", region))
    BY <1>1 DEF OnTask, InFlightIs
  <2> QED
    BY <1>1, <1>21, <2>2, <2>3, <2>4 DEF StartInv
<1>20. DoneIsGenerated'
  <2>1. ASSUME NEW r \in Regions,
               why'[r] = "complete" \/ (why'[r] = "idle" /\ r \notin paused),
               late = 0 \/ (late < Gap /\ ~LeftRunning(r)')
        PROVE  made[r] = Total
    <3>1. ~LeftRunning(r)' => ~LeftRunning(r)
      BY <1>10
    <3>2. CASE why'[r] = why[r]
      BY <1>0, <2>1, <3>1, <3>2 DEF DoneIsGenerated
    <3>3. CASE why'[r] # why[r]
      <4>1. r = region /\ B
        BY <1>2, <1>7, <1>10, <3>3
      <4>2. PICK v \in {"complete", "idle", "assumed"} :
                    /\ why' = [why EXCEPT ![region] = v]
                    /\ v = "complete" => LET a == Head(replies) IN
                         a.kind = "finished" \/ (a.kind = "count" /\ a.done >= Total)
                    /\ v = "idle" => Head(replies).kind = "idle"
        BY <4>1 DEF B
      <4>3. why'[region] = v
        BY <1>0, <1>6, <4>2 DEF GenTypes
      <4>4. late < Gap
        <5>1. Gap \in Nat /\ Gap > 0
          BY RconAssumption DEF Gap
        <5> QED
          BY <1>0, <2>1, <5>1
      <4>5. Head(todo) = "progress"
        BY <4>1 DEF B
      <4> QED
        BY <1>1, <2>1, <3>1, <4>1, <4>2, <4>3, <4>4, <4>5, ReadIsRight
    <3> QED
      BY <3>2, <3>3
  <2> QED
    BY <1>1, <2>1 DEF DoneIsGenerated, LeftRunning
<1> QED
  BY <1>11, <1>12, <1>13, <1>14, <1>15, <1>16, <1>17, <1>18, <1>19, <1>20 DEF WorkInv

LEMMA HandledFacts ==
  ASSUME GenInv, inbox # <<>>, up, NEW kind \in Kinds, NEW n \in Nat, Reply(kind, n),
         UNCHANGED <<clientVars, late, up>>
  PROVE  LET h == Head(inbox) IN
         /\ UNCHANGED <<region, todo, await, working, why, late, up>>
         /\ (PollAhead' <=> PollAhead) /\ Unsent' = Unsent
         /\ inbox' \in Seq(SentCommands) /\ replies' \in Seq(Replies)
         /\ h \in Items(inbox) /\ h.cmd \in Commands /\ h.of \in Regions /\ h.of \in Nat
         /\ Items(inbox) = {h} \cup Items(inbox')
         /\ \A p \in Items(inbox') :
              /\ p.cmd \in Commands /\ p.of \in Nat
              /\ h.of < p.of \/ (h.of = p.of /\ NotAfter(h.cmd, p.cmd))
         /\ h.of <= region
         /\ h.of = region => \A c \in Items(todo) : NotAfter(h.cmd, c)
         /\ Items(replies')
              = Items(replies) \cup {[cmd |-> h.cmd, of |-> h.of, kind |-> kind, done |-> n]}
         /\ Head(replies').kind = IF replies = <<>> THEN kind ELSE Head(replies).kind
         /\ replies' # <<>>
         /\ OrderInv' /\ WhyInv'
         /\ working /\ late = 0 =>
              await /\ replies = <<>> /\ Items(inbox') = {} /\ h.cmd = Head(todo)
<1>0. /\ GenTypes /\ ScriptInv /\ OrderInv /\ WhyInv /\ LagInv /\ QuietInv
      /\ todo \in Seq(Commands) /\ (await => todo # <<>>)
  BY DEF GenInv, WorkInv, PollsInv, ScriptInv
<1> DEFINE h == Head(inbox)
           a == [cmd |-> Head(inbox).cmd, of |-> Head(inbox).of, kind |-> kind, done |-> n]
<1>1. UNCHANGED <<region, todo, await, working, why, late, up>>
  BY DEF clientVars
<1>2. (PollAhead' <=> PollAhead) /\ Unsent' = Unsent
  BY <1>1 DEF PollAhead, Unsent
<1>3. /\ inbox' \in Seq(SentCommands) /\ replies' \in Seq(Replies)
      /\ h \in SentCommands
      /\ Items(inbox) = {h} \cup Items(inbox')
      /\ Sorted(inbox', StreamOrder)
      /\ \A p \in Items(inbox') : Ordered(h, p)
      /\ Items(replies') = Items(replies) \cup {a}
      /\ Head(replies').kind = IF replies = <<>> THEN kind ELSE Head(replies).kind
  BY <1>0, HandleFacts
<1>4. replies' # <<>> /\ inbox' = Tail(inbox)
  <2>1. replies \in Seq(Replies)
    BY <1>0 DEF GenTypes
  <2>2. replies' = Append(replies, a) /\ inbox' = Tail(inbox)
    BY DEF Reply
  <2> HIDE DEF a
  <2>3. Append(replies, a) # <<>>
    <3>1. Len(Append(replies, a)) = Len(replies) + 1 /\ Len(replies) \in Nat
      BY <1>0, <2>1, AppendIsSeq DEF LagInv
    <3>2. Len(<<>>) = 0
      OBVIOUS
    <3> QED
      BY <3>1, <3>2
  <2> QED
    BY <2>2, <2>3
<1> HIDE DEF a
<1>5. \A p \in Items(inbox) : p.cmd \in Commands /\ p.of \in Regions /\ p.of \in Nat
  BY <1>0, RegionOfSent
<1>6. \A p \in Items(inbox) :
        p.of <= region /\ (p.of = region => \A c \in Items(todo) : NotAfter(p.cmd, c))
  BY <1>0 DEF OrderInv
<1>7. OrderInv'
  BY <1>0, <1>1, <1>2, <1>3 DEF OrderInv
<1>8. WhyInv'
  BY <1>0, <1>1, <1>2 DEF WhyInv
<1>9. ASSUME working, late = 0
      PROVE  await /\ replies = <<>> /\ Items(inbox') = {} /\ h.cmd = Head(todo)
  <2>1. await /\ replies = <<>> /\ Len(inbox) = 1
    BY <1>0, <1>9, OneInFlight
  <2>2. inbox' = <<>>
    BY <1>0, <1>4, <2>1 DEF GenTypes
  <2>3. h.cmd = todo[1]
    BY <1>0, <1>9 DEF QuietInv
  <2>4. Head(todo) = todo[1]
    BY <1>0, <2>1
  <2> QED
    BY <2>1, <2>2, <2>3, <2>4, ItemsEmpty
<1>10. \A p \in Items(inbox') : h.of < p.of \/ (h.of = p.of /\ NotAfter(h.cmd, p.cmd))
  BY <1>3 DEF Ordered
<1> HIDE DEF h
<1>11. /\ h \in Items(inbox) /\ h.cmd \in Commands /\ h.of \in Regions /\ h.of \in Nat
       /\ \A p \in Items(inbox') : p.cmd \in Commands /\ p.of \in Nat
       /\ h.of <= region
       /\ h.of = region => \A c \in Items(todo) : NotAfter(h.cmd, c)
  BY <1>3, <1>5, <1>6
<1> QED
  BY <1>1, <1>2, <1>3, <1>4, <1>7, <1>8, <1>9, <1>10, <1>11 DEF h, a

LEMMA HandledCorners ==
  ASSUME GenTypes, CornersInv, up, inbox # <<>>, NEW h \in Items(inbox), NEW rest,
         h.of \in Nat, h.cmd \in Starts \cup {"progress"}, Items(inbox) = {h} \cup rest,
         \A p \in rest : h.of < p.of \/ (h.of = p.of /\ NotAfter(h.cmd, p.cmd))
  PROVE  corners = h.of
<1>1. CASE InFlightIs("corners", h.of)
  <2>1. PICK p \in Items(inbox) : p.cmd = "corners" /\ p.of = h.of
    BY <1>1 DEF InFlightIs
  <2>2. h.cmd # "corners"
    BY Phases
  <2>3. p \in rest
    BY <2>1, <2>2
  <2>4. NotAfter(h.cmd, "corners")
    BY <2>1, <2>3
  <2> QED
    BY <2>4, Places
<1>2. CASE ~InFlightIs("corners", h.of)
  BY <1>2 DEF CornersInv
<1> QED
  BY <1>1, <1>2

\* "Not running" is the reply to a poll of the current region only when the
\* region is generated, unless its task is between two ticks.
LEMMA HandleProgressKeeps ==
  ASSUME GenInv, HandleProgress
  PROVE  WorkInv'
<1>0. /\ GenTypes /\ ScriptInv /\ OrderInv /\ CornersInv /\ TaskInv /\ WhyInv /\ CancelInv
      /\ SaveInv /\ ReplyInv /\ StartInv /\ DoneIsGenerated
      /\ Total \in Nat /\ 0 \notin Regions
      /\ region \in Regions /\ corners \in Regions /\ made \in [Regions -> 0 .. Total]
  BY RegionNumbers DEF GenInv, WorkInv, PollsInv, GenTypes
<1> DEFINE h == Head(inbox)
<1>1. /\ up /\ inbox # <<>> /\ h.cmd = "progress"
      /\ UNCHANGED <<clientVars, late, up, corners, task, made, saving>>
  BY DEF HandleProgress, Handles
<1>2. PICK kind \in Kinds, n \in Nat :
        /\ Reply(kind, n)
        /\ \/ /\ task # 0
              /\ \/ kind = "count" /\ n = made[task] /\ UNCHANGED paused
                 \/ kind = "idle" /\ paused' = paused \cup {h.of}
           \/ /\ task = 0 /\ kind = "idle" /\ UNCHANGED paused
           \/ /\ task = 0 /\ kind \in {"finished", "count"} /\ n = Total
              /\ made[corners] = Total /\ UNCHANGED paused
  <2>1. "idle" \in Kinds /\ "count" \in Kinds /\ "finished" \in Kinds /\ 0 \in Nat
    BY DEF Kinds
  <2>2. CASE task # 0
    <3>1. made[task] \in Nat
      BY <1>0, <2>2 DEF TaskInv
    <3>2. \/ Reply("count", made[task]) /\ UNCHANGED paused
          \/ Reply("idle", 0) /\ paused' = paused \cup {h.of}
      BY <2>2 DEF HandleProgress
    <3> QED
      BY <2>1, <2>2, <3>1, <3>2
  <2>3. CASE task = 0
    <3>1. /\ UNCHANGED paused
          /\ \/ Reply("idle", 0)
             \/ made[corners] = Total /\ \E k \in {"finished", "count"} : Reply(k, Total)
      BY <2>3 DEF HandleProgress
    <3>2. CASE Reply("idle", 0)
      BY <2>1, <2>3, <3>1, <3>2
    <3>3. CASE made[corners] = Total /\ \E k \in {"finished", "count"} : Reply(k, Total)
      <4>1. PICK k \in {"finished", "count"} : Reply(k, Total)
        BY <3>3
      <4>2. k \in Kinds
        BY <2>1
      <4> QED
        BY <1>0, <2>3, <3>1, <3>3, <4>1, <4>2
    <3> QED
      BY <3>1, <3>2, <3>3
  <2> QED
    BY <2>2, <2>3
<1> DEFINE a == [cmd |-> h.cmd, of |-> h.of, kind |-> kind, done |-> n]
<1>3. /\ UNCHANGED <<region, todo, await, working, why, late, up>>
      /\ (PollAhead' <=> PollAhead) /\ Unsent' = Unsent
      /\ inbox' \in Seq(SentCommands) /\ replies' \in Seq(Replies)
      /\ h \in Items(inbox) /\ h.cmd \in Commands /\ h.of \in Regions /\ h.of \in Nat
      /\ Items(inbox) = {h} \cup Items(inbox')
      /\ \A p \in Items(inbox') :
           /\ p.cmd \in Commands /\ p.of \in Nat
           /\ h.of < p.of \/ (h.of = p.of /\ NotAfter(h.cmd, p.cmd))
      /\ h.of <= region
      /\ h.of = region => \A c \in Items(todo) : NotAfter(h.cmd, c)
      /\ Items(replies') = Items(replies) \cup {a}
      /\ Head(replies').kind = IF replies = <<>> THEN kind ELSE Head(replies).kind
      /\ OrderInv' /\ WhyInv'
      /\ working /\ late = 0 =>
           await /\ replies = <<>> /\ Items(inbox') = {} /\ h.cmd = Head(todo)
  BY <1>1, <1>2, HandledFacts
<1>4. a.cmd = h.cmd /\ a.of = h.of /\ a.kind = kind /\ a.done = n
  OBVIOUS
<1> HIDE DEF h, a
<1>5. corners = h.of
  BY <1>0, <1>1, <1>3, HandledCorners
<1>6. \A d, q : d # "progress" =>
        (InFlightIs(d, q) <=> \E p \in Items(inbox') : p.cmd = d /\ p.of = q)
  BY <1>1, <1>3 DEF InFlightIs
<1>7. UNCHANGED <<corners, task, made, saving>>
  BY <1>1
<1>8. LeftRunning(region)' <=> LeftRunning(region)
  BY <1>3 DEF LeftRunning
<1>11. GenTypes'
  BY <1>0, <1>3, <1>7 DEF GenTypes
<1>12. CornersInv'
  <2>1. \A q : InFlightIs("corners", q)
                 => \E p \in Items(inbox') : p.cmd = "corners" /\ p.of = q
    BY <1>6
  <2>2. \A p \in Items(inbox') : p \in Items(inbox)
    BY <1>3
  <2> QED
    BY <1>0, <1>1, <1>3, <1>7, <2>1, <2>2 DEF CornersInv, InFlightIs
<1>13. TaskInv'
  BY <1>0, <1>3, <1>7 DEF TaskInv
<1>14. CancelInv'
  <2>1. \A q : InFlightIs("cancel", q)
                 => \E p \in Items(inbox') : p.cmd = "cancel" /\ p.of = q
    BY <1>6
  <2>2. \A p \in Items(inbox') : p \in Items(inbox)
    BY <1>3
  <2> QED
    BY <1>0, <1>1, <1>3, <1>7, <2>1, <2>2 DEF CancelInv, InFlightIs
<1>15. SaveInv'
  <2>1. \A p \in Items(inbox) : p.cmd = "save-on" => p \in Items(inbox')
    BY <1>1, <1>3
  <2> QED
    BY <1>0, <1>3, <1>6, <1>7, <2>1 DEF SaveInv, InFlightIs
<1>16. ReplyInv'
  <2>1. kind = "finished" \/ (kind = "count" /\ n >= Total) => made[h.of] = Total
    <3>1. task # 0 => made[task] < Total /\ made[task] \in Nat
      BY <1>0 DEF TaskInv
    <3> QED
      BY <1>0, <1>2, <1>5, <3>1
  <2>2. \A p \in Items(replies') :
           /\ p.of <= region
           /\ p.kind \in {"idle", "finished", "count"} => p.cmd = "progress"
           /\ p.kind = "finished" \/ (p.kind = "count" /\ p.done >= Total) => made[p.of] = Total
    BY <1>0, <1>1, <1>3, <1>4, <2>1 DEF ReplyInv
  <2>3. ASSUME working, PollAhead, Good, region \notin paused', kind = "idle", h.of = region
        PROVE  made[region] = Total
    <3>1. task = 0
      BY <1>2, <2>3
    <3>2. ~NotAfter("progress", "start") /\ ~NotAfter("progress", "confirm")
      BY Places, Phases
    <3>3. Items(Unsent) \subseteq Items(todo)
      BY <1>0, UnsentIn
    <3>4. "start" \notin Items(Unsent) /\ "confirm" \notin Items(Unsent)
      BY <1>1, <1>3, <2>3, <3>2, <3>3
    <3>5. ~InFlightIs("start", region) /\ ~InFlightIs("confirm", region)
      BY <1>1, <1>3, <1>6, <2>3, <3>2
    <3>6. OnTask
      <4>1. CASE late = 0
        <5>1. ~Confirming
          BY <1>3, <2>3, <4>1 DEF Confirming
        <5> QED
          BY <1>0, <1>1, <2>3, <3>4, <3>5, <4>1, <5>1 DEF StartInv
      <4>2. CASE late # 0
        <5>1. late < Gap /\ ~LeftRunning(region)
          BY <2>3, <4>2 DEF Good
        <5> QED
          BY <1>0, <1>1, <2>3, <3>4, <3>5, <5>1 DEF StartInv
      <4> QED
        BY <4>1, <4>2
    <3> QED
      BY <1>0, <3>1, <3>6 DEF OnTask
  <2>4. ASSUME working, PollAhead, Good, region \notin paused', NEW p \in Items(replies'),
               p.kind = "idle", p.of = region
        PROVE  made[region] = Total
    <3>1. CASE p = a
      BY <1>4, <2>3, <2>4, <3>1
    <3>2. CASE p \in Items(replies)
      <4>1. region \notin paused
        BY <1>2, <2>4
      <4> QED
        BY <1>0, <2>4, <3>2, <4>1 DEF ReplyInv
    <3> QED
      BY <1>3, <2>4, <3>1, <3>2
  <2>5. Good' <=> Good
    BY <1>3, <1>8 DEF Good
  <2> QED
    BY <1>3, <1>7, <2>2, <2>4, <2>5 DEF ReplyInv
<1>17. StartInv'
  <2>1. Confirming => Confirming'
    <3>1. replies # <<>> => replies' # <<>>
      BY <1>1, <1>2, HandledFacts
    <3> QED
      BY <1>3, <3>1 DEF Confirming
  <2>2. OnTask' <=> OnTask
    BY <1>3, <1>7 DEF OnTask
  <2>3. \A d \in {"start", "confirm"} : InFlightIs(d, region)' <=> InFlightIs(d, region)
    <3>1. ASSUME NEW d \in {"start", "confirm"}
          PROVE  InFlightIs(d, region)' <=> InFlightIs(d, region)
      <4>1. InFlightIs(d, region)' <=> \E p \in Items(inbox') : p.cmd = d /\ p.of = region'
        BY DEF InFlightIs
      <4>2. d # "progress"
        OBVIOUS
      <4> QED
        BY <1>3, <1>6, <4>1, <4>2
    <3> QED
      BY <3>1
  <2> QED
    BY <1>0, <1>3, <1>8, <2>1, <2>2, <2>3 DEF StartInv
<1>18. DoneIsGenerated'
  <2>1. \A r : r \notin paused' => r \notin paused
    BY <1>2
  <2> QED
    BY <1>0, <1>3, <1>7, <2>1 DEF DoneIsGenerated, LeftRunning
<1> QED
  BY <1>3, <1>11, <1>12, <1>13, <1>14, <1>15, <1>16, <1>17, <1>18 DEF WorkInv

LEMMA HandleOtherKeeps ==
  ASSUME GenInv, HandleOther
  PROVE  WorkInv'
<1>0. /\ GenTypes /\ ScriptInv /\ OrderInv /\ CornersInv /\ TaskInv /\ WhyInv /\ CancelInv
      /\ SaveInv /\ ReplyInv /\ StartInv /\ DoneIsGenerated
      /\ Regions \subseteq Nat /\ 0 \notin Regions
      /\ region \in Regions /\ corners \in Regions /\ region \in Nat /\ corners \in Nat
  BY RegionNumbers DEF GenInv, WorkInv, PollsInv, GenTypes
<1> DEFINE h == Head(inbox)
           a == [cmd |-> h.cmd, of |-> h.of, kind |-> "other", done |-> 0]
           Offs == {"setting", "corners", "cancel", "save-off", "save-on"}
<1>1. /\ up /\ inbox # <<>> /\ h.cmd \in Offs
      /\ Reply("other", 0)
      /\ UNCHANGED <<clientVars, late, up, made, paused>>
  BY DEF HandleOther, Handles
<1>2. /\ corners' = IF h.cmd = "corners" THEN h.of ELSE corners
      /\ task' = IF h.cmd = "cancel" THEN 0 ELSE task
      /\ saving' = CASE h.cmd = "save-off" -> FALSE
                     [] h.cmd = "save-on"  -> TRUE
                     [] OTHER              -> saving
  BY Zenon DEF HandleOther
<1>3. /\ "other" \in Kinds /\ 0 \in Nat
      /\ "save-off" # "save-on"
  BY DEF Kinds
<1>4. /\ UNCHANGED <<region, todo, await, working, why, late, up>>
      /\ (PollAhead' <=> PollAhead) /\ Unsent' = Unsent
      /\ inbox' \in Seq(SentCommands) /\ replies' \in Seq(Replies)
      /\ h \in Items(inbox) /\ h.cmd \in Commands /\ h.of \in Regions /\ h.of \in Nat
      /\ Items(inbox) = {h} \cup Items(inbox')
      /\ \A p \in Items(inbox') :
           /\ p.cmd \in Commands /\ p.of \in Nat
           /\ h.of < p.of \/ (h.of = p.of /\ NotAfter(h.cmd, p.cmd))
      /\ h.of <= region
      /\ h.of = region => \A c \in Items(todo) : NotAfter(h.cmd, c)
      /\ Items(replies') = Items(replies) \cup {a}
      /\ Head(replies').kind = IF replies = <<>> THEN "other" ELSE Head(replies).kind
      /\ replies' # <<>>
      /\ OrderInv' /\ WhyInv'
      /\ working /\ late = 0 =>
           await /\ replies = <<>> /\ Items(inbox') = {} /\ h.cmd = Head(todo)
  BY <1>1, <1>3, HandledFacts
<1>5. a.cmd = h.cmd /\ a.of = h.of /\ a.kind = "other" /\ a.done = 0
  OBVIOUS
<1> HIDE DEF h, a
<1>6. /\ h.cmd = "save-off" => ~saving'
      /\ h.cmd = "save-on" => saving'
      /\ h.cmd # "save-off" /\ h.cmd # "save-on" => saving' = saving
  BY <1>2, <1>3, Zenon
<1>7. \A d, q : d # h.cmd =>
        (InFlightIs(d, q) <=> \E p \in Items(inbox') : p.cmd = d /\ p.of = q)
  BY <1>4 DEF InFlightIs
<1>8. /\ UNCHANGED <<made, paused>>
      /\ LeftRunning(region)' <=> LeftRunning(region)
  BY <1>1, <1>4 DEF LeftRunning
<1>9. \A p \in Items(inbox') : p \in Items(inbox) /\ h.of <= p.of
  BY <1>4
<1>10. \A s \in Starts \cup {"progress"} : s # h.cmd
  BY <1>1, Phases
<1>11. GenTypes'
  BY <1>0, <1>2, <1>4, <1>8 DEF GenTypes
<1>12. CornersInv'
  <2>1. CASE h.cmd = "corners"
    <3>1. corners' = h.of
      BY <1>2, <2>1
    <3>2. corners <= h.of
      BY <1>0, <1>1, <1>4 DEF CornersInv
    <3>3. ASSUME NEW q \in Nat, h.of <= q, corners = q \/ InFlightIs("corners", q)
          PROVE  h.of = q \/ \E p \in Items(inbox') : p.cmd = "corners" /\ p.of = q
      <4>1. CASE InFlightIs("corners", q)
        <5>1. PICK p \in Items(inbox) : p.cmd = "corners" /\ p.of = q
          BY <4>1 DEF InFlightIs
        <5> QED
          BY <1>4, <5>1
      <4>2. CASE corners = q
        BY <1>0, <1>4, <3>2, <3>3, <4>2
      <4> QED
        BY <3>3, <4>1, <4>2
    <3>4. \A p \in Items(inbox') : p.cmd \in Starts \cup {"progress"} =>
            h.of = p.of \/ \E q \in Items(inbox') : q.cmd = "corners" /\ q.of = p.of
      <4>1. ASSUME NEW p \in Items(inbox'), p.cmd \in Starts \cup {"progress"}
            PROVE  h.of = p.of \/ \E q \in Items(inbox') : q.cmd = "corners" /\ q.of = p.of
        <5>1. corners = p.of \/ InFlightIs("corners", p.of)
          BY <1>0, <1>1, <1>9, <4>1 DEF CornersInv
        <5>2. p.of \in Nat /\ h.of <= p.of
          BY <1>4, <1>9
        <5> QED
          BY <3>3, <5>1, <5>2
      <4> QED
        BY <4>1
    <3>5. working /\ "corners" \notin Items(Unsent) =>
            h.of = region \/ \E q \in Items(inbox') : q.cmd = "corners" /\ q.of = region
      <4>1. working /\ "corners" \notin Items(Unsent) =>
              corners = region \/ InFlightIs("corners", region)
        BY <1>0, <1>1 DEF CornersInv
      <4> QED
        BY <1>0, <1>4, <3>3, <4>1
    <3> QED
      BY <1>4, <1>9, <3>1, <3>4, <3>5 DEF CornersInv, InFlightIs
  <2>2. CASE h.cmd # "corners"
    <3>1. corners' = corners
      BY <1>2, <2>2
    <3>2. \A q : InFlightIs("corners", q)
                   => \E p \in Items(inbox') : p.cmd = "corners" /\ p.of = q
      BY <1>7, <2>2
    <3> QED
      BY <1>0, <1>1, <1>4, <1>9, <3>1, <3>2 DEF CornersInv, InFlightIs
  <2> QED
    BY <2>1, <2>2
<1>13. TaskInv'
  <2>1. task' = 0 \/ task' = task
    BY <1>2
  <2> QED
    BY <1>0, <1>1, <1>4, <1>8, <1>9, <2>1 DEF TaskInv
<1>14. CancelInv'
  <2>1. ASSUME NEW q \in Regions, why[q] = "timed-out",
               task' = q \/ \E p \in Items(inbox') : p.of = q /\ p.cmd \in Starts
        PROVE  \/ \E p \in Items(inbox') : p.cmd = "cancel" /\ p.of = q
               \/ q = region /\ "cancel" \in Items(Unsent)
    <3>1. task' = q => task = q /\ h.cmd # "cancel"
      BY <1>0, <1>2
    <3>2. task = q \/ \E p \in Items(inbox) : p.of = q /\ p.cmd \in Starts
      BY <1>9, <2>1, <3>1
    <3>3. InFlightIs("cancel", q) \/ (q = region /\ "cancel" \in Items(Unsent))
      BY <1>0, <1>1, <2>1, <3>2 DEF CancelInv
    <3>4. ASSUME InFlightIs("cancel", q)
          PROVE  \E p \in Items(inbox') : p.cmd = "cancel" /\ p.of = q
      <4>1. PICK c \in Items(inbox) : c.cmd = "cancel" /\ c.of = q
        BY <3>4 DEF InFlightIs
      <4>2. ASSUME c = h PROVE FALSE
        <5>1. PICK p \in Items(inbox') : p.of = q /\ p.cmd \in Starts
          BY <2>1, <3>1, <4>1, <4>2
        <5>2. NotAfter("cancel", p.cmd)
          BY <1>4, <4>1, <4>2, <5>1
        <5> QED
          BY <5>1, <5>2, Places
      <4> QED
        BY <1>4, <4>1, <4>2
    <3> QED
      BY <3>3, <3>4
  <2> QED
    BY <1>4, <2>1 DEF CancelInv, InFlightIs
<1>15. SaveInv'
  <2>1. ASSUME NEW p \in Items(inbox), p.cmd = "save-off", p # h \/ h.cmd = "save-off"
        PROVE  \/ \E q \in Items(inbox') : q.cmd = "save-on" /\ q.of = p.of
               \/ p.of = region /\ "save-on" \in Items(Unsent)
    <3>1. InFlightIs("save-on", p.of) \/ (p.of = region /\ "save-on" \in Items(Unsent))
      BY <1>0, <1>1, <2>1 DEF SaveInv
    <3>2. ASSUME InFlightIs("save-on", p.of)
          PROVE  \E q \in Items(inbox') : q.cmd = "save-on" /\ q.of = p.of
      <4>1. PICK q \in Items(inbox) : q.cmd = "save-on" /\ q.of = p.of
        BY <3>2 DEF InFlightIs
      <4>2. ASSUME q = h PROVE FALSE
        <5>1. p \in Items(inbox')
          BY <1>3, <1>4, <2>1, <4>1, <4>2
        <5>2. NotAfter("save-on", "save-off")
          BY <1>4, <2>1, <4>1, <4>2, <5>1
        <5> QED
          BY <5>2, Places
      <4> QED
        BY <1>4, <4>1, <4>2
    <3> QED
      BY <3>1, <3>2
  <2>2. \A p \in Items(inbox') : p.cmd = "save-off" =>
          \/ \E q \in Items(inbox') : q.cmd = "save-on" /\ q.of = p.of
          \/ p.of = region /\ "save-on" \in Items(Unsent)
    <3>1. ASSUME NEW p \in Items(inbox'), p.cmd = "save-off", p = h
          PROVE  h.cmd = "save-off"
      BY <3>1
    <3> QED
      BY <1>9, <2>1, <3>1
  <2>3. ASSUME ~saving'
        PROVE  /\ \A p \in Items(inbox') : p.cmd \in Starts =>
                    \E q \in Items(inbox') : q.cmd = "save-on" /\ q.of < p.of
               /\ \/ \E q \in Items(inbox') : q.cmd = "save-on"
                  \/ ~PollAhead /\ "save-on" \in Items(Unsent)
               /\ task' # 0 => why[task'] \in {"idle", "assumed", "complete"}
    <3>1. CASE h.cmd = "save-off"
      <4>1. \/ \E q \in Items(inbox') : q.cmd = "save-on" /\ q.of = h.of
            \/ h.of = region /\ "save-on" \in Items(Unsent)
        BY <1>4, <2>1, <3>1
      <4>2. h.of = region => ~PollAhead /\ "cancel" \notin Items(todo)
        <5>1. h.of = region => \A c \in Items(todo) : NotAfter("save-off", c)
          BY <1>4, <3>1
        <5> QED
          BY <1>0, <5>1, PollIsThere, Places
      <4>3. ASSUME NEW p \in Items(inbox'), p.cmd \in Starts
            PROVE  \E q \in Items(inbox') : q.cmd = "save-on" /\ q.of < p.of
        <5>1. ~NotAfter("save-off", p.cmd)
          BY <4>3, Places
        <5>2. h.of < p.of
          BY <1>4, <3>1, <5>1
        <5>3. p.of <= region /\ p.of \in Nat
          BY <1>0, <1>4, <1>9 DEF OrderInv
        <5>4. h.of # region
          BY <1>0, <1>4, <5>2, <5>3
        <5> QED
          BY <4>1, <5>2, <5>4
      <4>4. ASSUME task' # 0
            PROVE  why[task'] \in {"idle", "assumed", "complete"}
        <5>1. task' = task /\ task # 0 /\ task \in Regions /\ task \in Nat /\ task <= region
              /\ task <= h.of
          <6>1. task' = task
            BY <1>2, <3>1
          <6>2. task # 0 /\ task \in Regions /\ task <= region
                /\ (task < h.of \/ task = h.of)
            BY <1>0, <1>4, <4>4, <6>1 DEF TaskInv
          <6> QED
            BY <1>0, <1>4, <6>1, <6>2
        <5>2. why[task] # "polling"
          <6>1. CASE task < region
            BY <1>0, <5>1, <6>1 DEF WhyInv
          <6>2. CASE task = region
            <7>1. h.of = region
              BY <1>0, <1>4, <5>1, <6>2
            <7> QED
              BY <1>0, <4>2, <6>2, <7>1 DEF WhyInv
          <6> QED
            BY <1>0, <5>1, <6>1, <6>2
        <5>3. ASSUME why[task] = "timed-out" PROVE FALSE
          <6>1. InFlightIs("cancel", task) \/ (task = region /\ "cancel" \in Items(Unsent))
            BY <1>0, <1>1, <5>1, <5>3 DEF CancelInv
          <6>2. CASE InFlightIs("cancel", task)
            <7>1. PICK p \in Items(inbox) : p.cmd = "cancel" /\ p.of = task
              BY <6>2 DEF InFlightIs
            <7>2. p \in Items(inbox')
              BY <1>4, <3>1, <7>1
            <7>3. NotAfter("save-off", "cancel")
              BY <1>4, <3>1, <5>1, <7>1, <7>2
            <7> QED
              BY <7>3, Places
          <6>3. CASE task = region /\ "cancel" \in Items(Unsent)
            <7>1. h.of = region
              BY <1>0, <1>4, <5>1, <6>3
            <7> QED
              BY <1>0, <4>2, <6>3, <7>1, UnsentIn
          <6> QED
            BY <6>1, <6>2, <6>3
        <5>4. why[task] \in Whys
          BY <1>0, <5>1 DEF GenTypes
        <5> QED
          BY <5>1, <5>2, <5>3, <5>4 DEF Whys
      <4> QED
        BY <4>1, <4>2, <4>3, <4>4
    <3>2. CASE h.cmd # "save-off"
      <4>1. ~saving /\ h.cmd # "save-on"
        BY <1>6, <2>3, <3>2
      <4>2. \A p \in Items(inbox) : p.cmd = "save-on" => p \in Items(inbox')
        BY <1>4, <4>1
      <4>3. task' = 0 \/ task' = task
        BY <1>2
      <4> QED
        BY <1>0, <1>1, <1>9, <4>1, <4>2, <4>3 DEF SaveInv
    <3> QED
      BY <3>1, <3>2
  <2> QED
    BY <1>4, <2>2, <2>3 DEF SaveInv, InFlightIs
<1>16. ReplyInv'
  <2>1. Good' <=> Good
    BY <1>4, <1>8 DEF Good
  <2> QED
    BY <1>0, <1>4, <1>5, <1>8, <2>1 DEF ReplyInv
<1>17. StartInv'
  <2>1. Confirming => Confirming'
    BY <1>4 DEF Confirming
  <2>2. ASSUME PollAhead, OnTask
        PROVE  OnTask'
    <3>1. CASE h.cmd = "cancel"
      <4>1. h.of # region
        <5>1. ASSUME h.of = region PROVE FALSE
          <6>1. NotAfter("cancel", "progress")
            BY <1>0, <1>4, <2>2, <3>1, <5>1, PollIsThere
          <6> QED
            BY <6>1, Places
        <5> QED
          BY <5>1
      <4>2. task # 0 => task <= h.of
        <5>1. task # 0 => task \in Nat /\ (task < h.of \/ task = h.of)
          BY <1>0, <1>4 DEF TaskInv
        <5> QED
          BY <1>4, <5>1
      <4>3. task # region
        BY <1>0, <1>4, <4>1, <4>2
      <4> QED
        BY <1>4, <1>8, <2>2, <4>3 DEF OnTask
    <3>2. CASE h.cmd # "cancel"
      <4>1. task' = task
        BY <1>2, <3>2
      <4> QED
        BY <1>4, <1>8, <2>2, <4>1 DEF OnTask
    <3> QED
      BY <3>1, <3>2
  <2>3. \A d \in {"start", "confirm"} : InFlightIs(d, region)' <=> InFlightIs(d, region)
    <3>1. ASSUME NEW d \in {"start", "confirm"}
          PROVE  InFlightIs(d, region)' <=> InFlightIs(d, region)
      <4>1. InFlightIs(d, region)' <=> \E p \in Items(inbox') : p.cmd = d /\ p.of = region'
        BY DEF InFlightIs
      <4>2. d # h.cmd
        BY <1>10, Phases
      <4> QED
        BY <1>4, <1>7, <4>1, <4>2
    <3> QED
      BY <3>1
  <2> QED
    BY <1>0, <1>4, <1>8, <2>1, <2>2, <2>3 DEF StartInv
<1>18. DoneIsGenerated'
  BY <1>0, <1>4, <1>8 DEF DoneIsGenerated, LeftRunning
<1> QED
  BY <1>4, <1>11, <1>12, <1>13, <1>14, <1>15, <1>16, <1>17, <1>18 DEF WorkInv

\* A start is confirmed only if a task is running.  It may be that of the current
\* region, or of one that was left running; not that of a region Chunky was done
\* with, nor of one that was given up: "cancel" has been handled by then.
LEMMA HandleStartKeeps ==
  ASSUME GenInv, HandleStart
  PROVE  WorkInv'
<1>0. /\ GenTypes /\ ScriptInv /\ OrderInv /\ CornersInv /\ TaskInv /\ WhyInv /\ CancelInv
      /\ SaveInv /\ ReplyInv /\ StartInv /\ DoneIsGenerated
      /\ Regions \subseteq Nat /\ 0 \notin Regions /\ Total \in Nat
      /\ region \in Regions /\ corners \in Regions /\ region \in Nat
      /\ made \in [Regions -> 0 .. Total]
  BY RegionNumbers DEF GenInv, WorkInv, PollsInv, GenTypes
<1> DEFINE h == Head(inbox)
<1>1. /\ up /\ inbox # <<>> /\ h.cmd \in Starts
      /\ UNCHANGED <<clientVars, late, up, corners, made, paused, saving>>
  BY DEF HandleStart, Handles, Starts
<1>2. PICK kind \in {"confirm", "other"} :
        /\ Reply(kind, 0)
        /\ \/ kind = "confirm" /\ task # 0 /\ h.cmd # "confirm" /\ task' = task
           \/ kind = "other" /\ task' = Begun(corners)
  BY DEF HandleStart
<1>3. kind \in Kinds /\ 0 \in Nat
  BY DEF Kinds
<1> DEFINE a == [cmd |-> h.cmd, of |-> h.of, kind |-> kind, done |-> 0]
<1>4. /\ UNCHANGED <<region, todo, await, working, why, late, up>>
      /\ (PollAhead' <=> PollAhead) /\ Unsent' = Unsent
      /\ inbox' \in Seq(SentCommands) /\ replies' \in Seq(Replies)
      /\ h \in Items(inbox) /\ h.cmd \in Commands /\ h.of \in Regions /\ h.of \in Nat
      /\ Items(inbox) = {h} \cup Items(inbox')
      /\ \A p \in Items(inbox') :
           /\ p.cmd \in Commands /\ p.of \in Nat
           /\ h.of < p.of \/ (h.of = p.of /\ NotAfter(h.cmd, p.cmd))
      /\ h.of <= region
      /\ h.of = region => \A c \in Items(todo) : NotAfter(h.cmd, c)
      /\ Items(replies') = Items(replies) \cup {a}
      /\ Head(replies').kind = IF replies = <<>> THEN kind ELSE Head(replies).kind
      /\ replies' # <<>>
      /\ OrderInv' /\ WhyInv'
      /\ working /\ late = 0 =>
           await /\ replies = <<>> /\ Items(inbox') = {} /\ h.cmd = Head(todo)
  BY <1>1, <1>2, <1>3, HandledFacts
<1>5. a.cmd = h.cmd /\ a.of = h.of /\ a.kind = kind /\ a.done = 0
  OBVIOUS
<1> HIDE DEF h, a
<1>6. corners = h.of
  BY <1>0, <1>1, <1>4, HandledCorners
<1>7. UNCHANGED <<corners, made, paused, saving>>
      /\ (LeftRunning(region)' <=> LeftRunning(region))
  BY <1>1, <1>4 DEF LeftRunning
<1>8. \A d, q : d \notin Starts =>
        (InFlightIs(d, q) <=> \E p \in Items(inbox') : p.cmd = d /\ p.of = q)
  BY <1>1, <1>4 DEF InFlightIs
<1>9. \A p \in Items(inbox') : p \in Items(inbox) /\ h.of <= p.of
  BY <1>4
<1>10. \/ kind = "confirm" /\ task # 0 /\ h.cmd # "confirm" /\ task' = task
       \/ kind = "other" /\ task' = h.of /\ made[h.of] < Total
       \/ kind = "other" /\ task' = 0 /\ made[h.of] = Total
  <2>1. made[h.of] \in 0 .. Total
    BY <1>0, <1>4
  <2> QED
    BY <1>0, <1>2, <1>6, <2>1 DEF Begun
<1>11. GenTypes'
  BY <1>0, <1>4, <1>7 DEF GenTypes
<1>12. CornersInv'
  <2>1. "corners" \notin Starts
    BY DEF Starts
  <2>2. \A q : InFlightIs("corners", q)
                 => \E p \in Items(inbox') : p.cmd = "corners" /\ p.of = q
    BY <1>8, <2>1
  <2> QED
    BY <1>0, <1>1, <1>4, <1>7, <1>9, <2>2 DEF CornersInv, InFlightIs
<1>13. TaskInv'
  <2>1. CASE task' = h.of /\ made[h.of] < Total
    <3>1. \A p \in Items(inbox') : h.of < p.of \/ (h.of = p.of /\ NotAfter("start", p.cmd))
      BY <1>1, <1>4, Places
    <3>2. h.of = region => \A c \in Items(todo) : NotAfter("start", c)
      BY <1>0, <1>1, <1>4, UnsentIn, Places
    <3> QED
      BY <1>1, <1>4, <1>7, <2>1, <3>1, <3>2 DEF TaskInv
  <2>2. CASE task' = 0
    BY <2>2 DEF TaskInv
  <2>3. CASE task' = task
    BY <1>0, <1>1, <1>4, <1>7, <1>9, <2>3 DEF TaskInv
  <2> QED
    BY <1>10, <2>1, <2>2, <2>3
<1>14. CancelInv'
  <2>1. "cancel" \notin Starts
    BY DEF Starts
  <2>2. ASSUME NEW q \in Regions, why[q] = "timed-out",
               task' = q \/ \E p \in Items(inbox') : p.of = q /\ p.cmd \in Starts
        PROVE  \/ \E p \in Items(inbox') : p.cmd = "cancel" /\ p.of = q
               \/ q = region /\ "cancel" \in Items(Unsent)
    <3>1. task = q \/ \E p \in Items(inbox) : p.of = q /\ p.cmd \in Starts
      <4>1. CASE task' = q
        <5>1. q = task \/ q = h.of
          BY <1>0, <1>10, <4>1
        <5> QED
          BY <1>1, <1>4, <5>1
      <4>2. CASE \E p \in Items(inbox') : p.of = q /\ p.cmd \in Starts
        BY <1>9, <4>2
      <4> QED
        BY <2>2, <4>1, <4>2
    <3>2. InFlightIs("cancel", q) \/ (q = region /\ "cancel" \in Items(Unsent))
      BY <1>0, <1>1, <2>2, <3>1 DEF CancelInv
    <3> QED
      BY <1>8, <2>1, <3>2
  <2> QED
    BY <1>4, <2>2 DEF CancelInv, InFlightIs
<1>15. SaveInv'
  <2>1. "save-on" \notin Starts
    BY DEF Starts
  <2>2. \A p \in Items(inbox) : p.cmd = "save-on" => p \in Items(inbox')
    BY <1>1, <1>4, <2>1
  <2>3. ASSUME ~saving PROVE task' = 0 \/ task' = task
    <3>1. PICK q \in Items(inbox) : q.cmd = "save-on" /\ q.of < h.of
      BY <1>0, <1>1, <1>4, <2>3 DEF SaveInv
    <3>2. q \in Items(inbox') /\ q.of \in Nat
      BY <1>4, <2>2, <3>1
    <3> QED
      BY <1>4, <1>9, <3>1, <3>2
  <2>4. \A q : InFlightIs("save-on", q)
                 => \E p \in Items(inbox') : p.cmd = "save-on" /\ p.of = q
    BY <1>8, <2>1
  <2> QED
    BY <1>0, <1>1, <1>4, <1>7, <1>9, <2>2, <2>3, <2>4 DEF SaveInv, InFlightIs
<1>16. ReplyInv'
  <2>1. Good' <=> Good
    BY <1>4, <1>7 DEF Good
  <2>2. kind \notin {"idle", "finished", "count"}
    BY <1>2
  <2> QED
    BY <1>0, <1>4, <1>5, <1>7, <2>1, <2>2 DEF ReplyInv
<1>17. StartInv'
  <2>1. ASSUME OnTask
        PROVE  OnTask'
    <3>1. CASE h.of = region
      BY <1>4, <1>7, <1>10, <2>1, <3>1 DEF OnTask
    <3>2. CASE h.of # region
      <4>1. CASE task = region
        <5>1. task < h.of \/ task = h.of
          BY <1>0, <1>4, <4>1 DEF TaskInv
        <5> QED
          BY <1>0, <1>4, <3>2, <4>1, <5>1
      <4>2. CASE task # region
        BY <1>4, <1>7, <2>1, <4>2 DEF OnTask
      <4> QED
        BY <4>1, <4>2
    <3> QED
      BY <3>1, <3>2
  <2>2. ASSUME kind = "other", h.of = region
        PROVE  OnTask'
    BY <1>4, <1>7, <1>10, <2>2 DEF OnTask
  <2>3. \A d \in {"start", "confirm"} :
          ~(\E p \in Items(inbox') : p.cmd = d /\ p.of = region) =>
            ~InFlightIs(d, region) \/ (h.cmd = d /\ h.of = region)
    BY <1>4 DEF InFlightIs
  <2>4. ASSUME working, PollAhead, late < Gap, ~LeftRunning(region),
               "start" \notin Items(Unsent),
               ~(\E p \in Items(inbox') : p.cmd = "start" /\ p.of = region)
        PROVE  OnTask'
    <3>1. CASE ~InFlightIs("start", region)
      BY <1>0, <1>1, <2>1, <2>4, <3>1 DEF StartInv
    <3>2. CASE h.cmd = "start" /\ h.of = region /\ kind = "other"
      BY <2>2, <3>2
    <3>3. CASE h.cmd = "start" /\ h.of = region /\ kind = "confirm"
      <4>1. task' = task /\ task # 0
        BY <1>10, <3>3
      <4>2. task \in Regions /\ task <= region /\ task \in Nat /\ made[task] < Total
            /\ (task < h.of \/ task = h.of)
        BY <1>0, <1>4, <4>1 DEF TaskInv
      <4>3. CASE task = region
        BY <1>4, <4>1, <4>3 DEF OnTask
      <4>4. CASE task < region
        <5>1. why[task] # "polling"
          BY <1>0, <4>2, <4>4 DEF WhyInv
        <5>2. ASSUME why[task] = "timed-out" PROVE FALSE
          <6>1. InFlightIs("cancel", task)
            BY <1>0, <1>1, <4>2, <4>4, <5>2 DEF CancelInv
          <6>2. PICK p \in Items(inbox') : p.cmd = "cancel" /\ p.of = task
            BY <1>8, <6>1 DEF Starts
          <6> QED
            BY <1>0, <1>9, <3>3, <4>2, <4>4, <6>2
        <5>3. task \in 1 .. region - 1
          BY <1>0, <4>2, <4>4
        <5>4. why[task] \notin {"idle", "assumed"}
          BY <2>4, <5>3 DEF LeftRunning
        <5>5. why[task] = "complete"
          BY <1>0, <4>2, <5>1, <5>2, <5>4 DEF GenTypes, Whys
        <5>6. ~LeftRunning(task)
          <6>1. \A q \in 1 .. task - 1 : q \in 1 .. region - 1
            BY <1>0, <4>2, <4>4
          <6> QED
            BY <2>4, <6>1 DEF LeftRunning
        <5>7. made[task] = Total
          BY <1>0, <2>4, <4>2, <5>5, <5>6 DEF DoneIsGenerated
        <5> QED
          BY <1>0, <4>2, <5>7
      <4> QED
        BY <1>0, <4>2, <4>3, <4>4
    <3> QED
      BY <1>2, <2>3, <2>4, <3>1, <3>2, <3>3
  <2>5. ASSUME working, PollAhead, late = 0, ~Confirming',
               "start" \notin Items(Unsent), "confirm" \notin Items(Unsent),
               ~(\E p \in Items(inbox') : p.cmd = "start" /\ p.of = region),
               ~(\E p \in Items(inbox') : p.cmd = "confirm" /\ p.of = region)
        PROVE  OnTask'
    <3>1. await /\ replies = <<>> /\ h.cmd = Head(todo)
      BY <1>4, <2>5
    <3>2. ~Confirming
      BY <3>1 DEF Confirming
    <3>3. CASE h.cmd = "start" /\ h.of = region
      <4>1. kind # "confirm"
        BY <1>4, <2>5, <3>1, <3>3 DEF Confirming
      <4> QED
        BY <1>2, <2>2, <3>3, <4>1
    <3>4. CASE h.cmd = "confirm" /\ h.of = region
      BY <1>10, <1>2, <2>2, <3>4
    <3>5. CASE ~InFlightIs("start", region) /\ ~InFlightIs("confirm", region)
      BY <1>0, <1>1, <2>1, <2>5, <3>2, <3>5 DEF StartInv
    <3> QED
      BY <2>3, <2>5, <3>3, <3>4, <3>5
  <2> QED
    BY <1>4, <1>7, <2>4, <2>5 DEF StartInv, InFlightIs
<1>18. DoneIsGenerated'
  BY <1>0, <1>4, <1>7 DEF DoneIsGenerated, LeftRunning
<1> QED
  BY <1>4, <1>11, <1>12, <1>13, <1>14, <1>15, <1>16, <1>17, <1>18 DEF WorkInv

LEMMA GenStep == GenInv /\ [RconNext]_rconVars => GenInv'
<1> SUFFICES ASSUME GenInv, [RconNext]_rconVars
             PROVE  GenInv'
  OBVIOUS
<1>1. PollsInv' /\ QuietInv'
  BY PollsStep, QuietStep DEF GenInv
<1>2. WorkInv'
  BY SendKeeps, RaiseKeeps, WaitKeeps, GenerateKeeps, DeathKeeps, GiveUpKeeps, NextRegionKeeps,
     ReadKeeps, HandleProgressKeeps, HandleOtherKeeps, HandleStartKeeps
     DEF RconNext, ClientActs
<1> QED
  BY <1>1, <1>2 DEF GenInv

LEMMA GenInit == RconInit => GenInv
<1> SUFFICES ASSUME RconInit
             PROVE  GenInv
  OBVIOUS
<1>1. /\ region = 1 /\ todo = Script /\ ~await /\ working
      /\ why = [r \in Regions |-> "polling"]
      /\ inbox = <<>> /\ replies = <<>> /\ late = 0
      /\ up /\ corners = 1 /\ task = 0 /\ saving
      /\ made = [r \in Regions |-> 0]
  BY DEF RconInit
<1>2. LagInv
  BY LagInit
<1>3. PollsInv /\ ScriptInv
  BY PollsInit DEF PollsInv
<1>4. QuietInv
  <2>1. Paired(Script) /\ (Script # <<>> => Script[1] # "save-on")
    BY ScriptIsPaired DEF StartsPaired
  <2> QED
    BY <1>1, <1>2, <2>1 DEF QuietInv
<1>5. Items(inbox) = {} /\ Items(replies) = {} /\ Sorted(inbox, StreamOrder)
  BY <1>1, ItemsEmpty, SortedEmpty
<1>6. /\ Sorted(Script, CommandOrder)
      /\ "corners" \in Items(Script) /\ "start" \in Items(Script) /\ "save-on" \in Items(Script)
      /\ Unsent = Script
  BY <1>1, ScriptInOrder DEF Unsent
<1>7. PollAhead
  BY <1>1, ScriptIsWhole DEF PollAhead
<1>8. Regions \subseteq Nat /\ 0 \notin Regions /\ 1 \in Regions /\ Total \in Nat
  BY RegionNumbers
<1>9. \A q \in Regions : why[q] = "polling"
  BY <1>1
<1>11. GenTypes
  <2>1. inbox \in Seq(SentCommands) /\ replies \in Seq(Replies)
    BY <1>1
  <2>2. "polling" \in Whys /\ 0 \in 0 .. Total
    BY <1>8 DEF Whys
  <2>3. why \in [Regions -> Whys] /\ made \in [Regions -> 0 .. Total]
    BY <1>1, <2>2
  <2> QED
    BY <1>1, <1>8, <2>1, <2>3 DEF GenTypes
<1>12. OrderInv
  BY <1>1, <1>5, <1>6, <1>7 DEF OrderInv
<1>13. CornersInv /\ TaskInv
  BY <1>1, <1>5 DEF CornersInv, TaskInv
<1>14. WhyInv
  <2>1. \A q \in Regions : ~(q < region)
    BY <1>1, <1>8
  <2> QED
    BY <1>1, <1>7, <1>8, <1>9, <2>1 DEF WhyInv
<1>15. CancelInv /\ SaveInv
  <2>1. \A q \in Regions : why[q] # "timed-out"
    BY <1>9
  <2> QED
    BY <1>1, <1>5, <2>1 DEF CancelInv, SaveInv
<1>16. ReplyInv /\ StartInv
  BY <1>1, <1>5, <1>6 DEF ReplyInv, StartInv
<1>17. DoneIsGenerated
  BY <1>9 DEF DoneIsGenerated
<1> QED
  BY <1>3, <1>4, <1>11, <1>12, <1>13, <1>14, <1>15, <1>16, <1>17 DEF GenInv, WorkInv

\* The polling loop of a region ends with "done", or with "not running" after
\* progress, only when Chunky has generated it in full, but for the two cases the
\* property leaves out (_run_chunky in client/work_loop.py).
THEOREM DoneIsAlwaysGenerated == RconSpec => []DoneIsGenerated
<1>1. GenInv => DoneIsGenerated
  BY DEF GenInv, WorkInv
<1> QED
  BY GenInit, GenStep, <1>1, PTL DEF RconSpec

\* Chunks are generated with saving on unless Chunky was left running, and while
\* the client uploads saving is off as long as no poll has timed out (the finally
\* of _upload_and_submit in client/work_loop.py).
THEOREM SavingAlwaysFollowsWork == RconSpec => []SavingFollowsWork
<1>1. GenInv => SavingFollowsWork
  <2> SUFFICES ASSUME GenInv
               PROVE  SavingFollowsWork
    OBVIOUS
  <2>1. TaskInv /\ SaveInv /\ QuietInv
    BY DEF GenInv, WorkInv
  <2>2. ASSUME task # 0, ~saving
        PROVE  \E q \in Regions : why[q] \in {"idle", "assumed", "complete"} /\ made[q] < Total
    <3>1. up /\ task \in Regions /\ made[task] < Total
      BY <2>1, <2>2 DEF TaskInv
    <3>2. why[task] \in {"idle", "assumed", "complete"}
      BY <2>1, <2>2, <3>1 DEF SaveInv
    <3> QED
      BY <3>1, <3>2
  <2>3. QuietWhileUploading
    <3>1. todo # <<>> => Head(todo) = todo[1]
      BY <2>1 DEF QuietInv, Paired
    <3> QED
      BY <2>1, <3>1 DEF QuietInv, QuietWhileUploading
  <2> QED
    BY <2>2, <2>3 DEF SavingFollowsWork, SavedWhileGenerating
<1> QED
  BY GenInit, GenStep, <1>1, PTL DEF RconSpec

-----------------------------------------------------------------------------
(* Types.  The commands of a region are those of the script and those the  *)
(* client adds to it; a poll that times out is one of the MaxLate, or the  *)
(* last of its region, and any other command that does ends the work.      *)

Asked == Items(Script) \cup {"confirm", "start-again", "cancel"}

CommandsInv ==
    /\ Items(todo) \subseteq Asked
    /\ \A p \in Items(inbox) : p.cmd \in Asked
    /\ \A p \in Items(replies) : p.cmd \in Asked /\ p.done \in 0 .. Total

FlagsInv ==
    /\ await \in BOOLEAN /\ seen \in BOOLEAN /\ working \in BOOLEAN
    /\ elapsed \in Clock
    /\ await /\ Polling => elapsed # "later"

LateInv ==
    late <= MaxLate + (region - 1) + (IF elapsed = "later" THEN 1 ELSE 0)
                                   + (IF working THEN 0 ELSE 1)

\* A sequence all of whose elements are in T is a sequence over T.
LEMMA SeqOfItems ==
  ASSUME NEW S, NEW s \in Seq(S), NEW T, \A x \in Items(s) : x \in T
  PROVE  s \in Seq(T)
<1>1. Len(s) \in Nat /\ s \in [1 .. Len(s) -> S]
  OBVIOUS
<1>2. \A i \in 1 .. Len(s) : s[i] \in T
  BY DEF Items
<1>3. s \in [1 .. Len(s) -> T]
  BY <1>1, <1>2
<1> QED
  BY <1>1, <1>3

LEMMA AddedAreAsked ==
  {"confirm", "start-again", "cancel"} \subseteq Asked /\ Items(Script) \subseteq Asked
  BY DEF Asked

\* Minecraft answers a command with a reply about at most Total chunks.
LEMMA HandleReplies ==
  ASSUME GenTypes, TaskInv, HandleStart \/ HandleProgress \/ HandleOther
  PROVE  /\ UNCHANGED <<region, todo, await, elapsed, seen, working, late>> /\ inbox # <<>>
         /\ \E kind \in Kinds, n \in 0 .. Total : Reply(kind, n)
<1>1. UNCHANGED <<region, todo, await, elapsed, seen, working, late>> /\ inbox # <<>>
  BY DEF HandleStart, HandleProgress, HandleOther, Handles, clientVars
<1>2. 0 \in 0 .. Total /\ Total \in 0 .. Total
  BY RegionNumbers
<1>3. task # 0 => made[task] \in 0 .. Total
  BY DEF GenTypes, TaskInv
<1>4. \E kind \in Kinds, n \in 0 .. Total : Reply(kind, n)
  <2>1. CASE HandleStart
    <3>1. Reply("confirm", 0) \/ Reply("other", 0)
      BY <2>1, Zenon DEF HandleStart
    <3> QED
      BY <1>2, <3>1 DEF Kinds
  <2>2. CASE HandleProgress
    <3>1. \/ task # 0 /\ Reply("count", made[task])
          \/ Reply("idle", 0)
          \/ Reply("finished", Total)
          \/ Reply("count", Total)
      BY <2>2, Zenon DEF HandleProgress
    <3> QED
      BY <1>2, <1>3, <3>1 DEF Kinds
  <2>3. CASE HandleOther
    <3>1. Reply("other", 0)
      BY <2>3, Zenon DEF HandleOther
    <3> QED
      BY <1>2, <3>1 DEF Kinds
  <2> QED
    BY <2>1, <2>2, <2>3
<1> QED
  BY <1>1, <1>4

LEMMA CommandsStep == GenInv /\ CommandsInv /\ [RconNext]_rconVars => CommandsInv'
<1> SUFFICES ASSUME GenInv, CommandsInv, [RconNext]_rconVars
             PROVE  CommandsInv'
  OBVIOUS
<1>0. GenTypes /\ ScriptInv /\ OrderInv /\ TaskInv /\ WhyInv
  BY DEF GenInv, WorkInv, PollsInv
<1>1. CASE Send
  <2>1. /\ UNCHANGED <<todo, replies>>
        /\ Items(inbox') = Items(inbox) \cup {[cmd |-> Head(todo), of |-> region]}
        /\ Head(todo) \in Items(todo)
    BY <1>0, <1>1, SendFacts
  <2> QED
    BY <2>1 DEF CommandsInv
<1>2. CASE TimeOut \/ LinkFails
  <2>1. UNCHANGED <<todo, inbox, replies>>
    BY <1>0, <1>2, RaiseFacts
  <2> QED
    BY <2>1 DEF CommandsInv
<1>3. CASE Read
  <2>1. /\ inbox' = inbox /\ todo # <<>>
        /\ Items(replies') \subseteq Items(replies)
        /\ \/ todo' = todo
           \/ todo' = Tail(todo)
           \/ Items(todo') = Items(Tail(todo)) \cup {"confirm", "start-again"}
    BY <1>0, <1>3, ReadFacts
  <2>2. Items(Tail(todo)) \subseteq Items(todo)
    BY <1>0, <2>1, AwaitFacts
  <2>3. Items(todo') \subseteq Asked
    BY <2>1, <2>2, AddedAreAsked DEF CommandsInv
  <2> QED
    BY <2>1, <2>3 DEF CommandsInv
<1>4. CASE GiveUp
  <2>1. /\ UNCHANGED <<inbox, replies>>
        /\ Items(Tail(todo)) \subseteq Items(todo)
        /\ Items(todo') = {"cancel"} \cup Items(Tail(todo))
    BY <1>0, <1>4, GiveUpFacts
  <2>2. Items(todo') \subseteq Asked
    BY <2>1, AddedAreAsked DEF CommandsInv
  <2> QED
    BY <2>1, <2>2 DEF CommandsInv
<1>5. CASE NextRegion
  <2>1. UNCHANGED <<inbox, replies>> /\ Items(todo') = Items(Script)
    BY <1>0, <1>5, NextRegionFacts
  <2> QED
    BY <2>1, AddedAreAsked DEF CommandsInv
<1>6. CASE HandleStart \/ HandleProgress \/ HandleOther
  <2>1. todo' = todo /\ inbox # <<>> /\ \E kind \in Kinds, n \in 0 .. Total : Reply(kind, n)
    BY <1>0, <1>6, HandleReplies
  <2>2. PICK kind \in Kinds, n \in 0 .. Total : Reply(kind, n)
    BY <2>1
  <2>3. n \in Nat
    BY <2>2
  <2>4. /\ Items(inbox) = {Head(inbox)} \cup Items(inbox')
        /\ Items(replies') = Items(replies)
             \cup {[cmd |-> Head(inbox).cmd, of |-> Head(inbox).of, kind |-> kind, done |-> n]}
    BY <1>0, <2>1, <2>2, <2>3, HandleFacts
  <2>5. Head(inbox).cmd \in Asked
    BY <2>4 DEF CommandsInv
  <2> QED
    BY <2>1, <2>4, <2>5 DEF CommandsInv
<1>7. CASE MinecraftDies
  <2>1. todo' = todo /\ replies' = replies /\ Items(inbox') = {}
    BY <1>7, ItemsEmpty DEF MinecraftDies, clientVars
  <2> QED
    BY <2>1 DEF CommandsInv
<1>8. CASE TimePasses \/ Generate1 \/ UNCHANGED rconVars
  <2>1. UNCHANGED <<todo, inbox, replies>>
    BY <1>8 DEF TimePasses, Generate1, rconVars, clientVars, streamVars
  <2> QED
    BY <2>1 DEF CommandsInv
<1> QED
  BY <1>1, <1>2, <1>3, <1>4, <1>5, <1>6, <1>7, <1>8 DEF RconNext, ClientActs

LEMMA FlagsStep == GenInv /\ FlagsInv /\ [RconNext]_rconVars => FlagsInv'
<1> SUFFICES ASSUME GenInv, FlagsInv, [RconNext]_rconVars
             PROVE  FlagsInv'
  OBVIOUS
<1>0. GenTypes /\ TaskInv /\ (Polling \in BOOLEAN) /\ (todo' = todo => (Polling' <=> Polling))
  BY DEF GenInv, WorkInv, Polling
<1>1. CASE Send
  <2>1. /\ UNCHANGED <<todo, elapsed, seen, working>> /\ await' = TRUE
        /\ Polling => elapsed # "later"
    BY <1>1 DEF Send
  <2> QED
    BY <1>0, <2>1 DEF FlagsInv
<1>2. CASE TimeOut \/ LinkFails
  <2>1. seen' = seen /\ await' = FALSE /\ working' = Polling
    BY <1>2 DEF TimeOut, LinkFails, Raise
  <2>2. elapsed' \in {elapsed, "later"}
    BY <1>2 DEF TimeOut, LinkFails
  <2> QED
    BY <1>0, <2>1, <2>2 DEF FlagsInv, Clock
<1>3. CASE Read
  <2>1. UNCHANGED <<elapsed, working>> /\ await' = FALSE
    BY <1>3 DEF Read
  <2>2. seen' \in BOOLEAN
    <3>1. seen' = SeenNow(Head(replies)) \/ seen' = seen
      BY <1>3, Zenon DEF Read
    <3>2. SeenNow(Head(replies)) \in BOOLEAN
      BY Zenon DEF SeenNow
    <3> QED
      BY <3>1, <3>2, Zenon DEF FlagsInv
  <2> QED
    BY <2>1, <2>2 DEF FlagsInv
<1>4. CASE GiveUp
  <2>1. UNCHANGED <<await, elapsed, seen, working>> /\ ~await
    BY <1>4 DEF GiveUp, Ready
  <2> QED
    BY <2>1 DEF FlagsInv
<1>5. CASE NextRegion
  <2>1. UNCHANGED <<await, working>> /\ elapsed' = "first-3-s" /\ seen' = FALSE
    BY <1>5 DEF NextRegion
  <2> QED
    BY <2>1 DEF FlagsInv, Clock
<1>6. CASE TimePasses
  <2>1. UNCHANGED <<await, seen, working>> /\ ~await
    BY <1>6 DEF TimePasses, Ready
  <2>2. elapsed' \in {"first-30-s", "first-30-min", "later"}
    BY <1>6 DEF TimePasses
  <2> QED
    BY <2>1, <2>2 DEF FlagsInv, Clock
<1>7. CASE HandleStart \/ HandleProgress \/ HandleOther
  BY <1>0, <1>7, HandleReplies DEF FlagsInv
<1>8. CASE Generate1 \/ MinecraftDies \/ UNCHANGED rconVars
  <2>1. UNCHANGED <<todo, await, elapsed, seen, working>>
    BY <1>8 DEF Generate1, MinecraftDies, rconVars, clientVars
  <2> QED
    BY <1>0, <2>1 DEF FlagsInv
<1> QED
  BY <1>1, <1>2, <1>3, <1>4, <1>5, <1>6, <1>7, <1>8 DEF RconNext, ClientActs

LEMMA LateStep == GenInv /\ FlagsInv /\ LateInv /\ [RconNext]_rconVars => LateInv'
<1> SUFFICES ASSUME GenInv, FlagsInv, LateInv, [RconNext]_rconVars
             PROVE  LateInv'
  OBVIOUS
<1>0. /\ GenTypes /\ TaskInv /\ late \in Nat /\ MaxLate \in Nat
      /\ region \in Nat /\ region >= 1
  BY RconAssumption DEF GenInv, WorkInv, PollsInv, LagInv, GenTypes, Regions
<1>1. CASE TimeOut
  <2>1. /\ working /\ await /\ late' = late + 1 /\ region' = region
        /\ elapsed' = IF Polling /\ late >= MaxLate THEN "later" ELSE elapsed
        /\ working' = Polling
    BY <1>1 DEF TimeOut, Raise
  <2>2. CASE Polling /\ late >= MaxLate
    <3>1. elapsed # "later" /\ elapsed' = "later"
      BY <2>1, <2>2 DEF FlagsInv
    <3> QED
      BY <1>0, <2>1, <2>2, <3>1 DEF LateInv
  <2>3. CASE Polling /\ ~(late >= MaxLate)
    BY <1>0, <2>1, <2>3 DEF LateInv
  <2>4. CASE ~Polling
    BY <1>0, <2>1, <2>4 DEF LateInv
  <2> QED
    BY <2>2, <2>3, <2>4
<1>2. CASE LinkFails
  <2>1. UNCHANGED <<late, elapsed, region>> /\ working
    BY <1>2 DEF LinkFails, Raise
  <2> QED
    BY <1>0, <2>1 DEF LateInv
<1>3. CASE NextRegion
  <2>1. UNCHANGED <<late, working>> /\ elapsed' = "first-3-s" /\ region' = region + 1
    BY <1>3 DEF NextRegion, streamVars
  <2> QED
    BY <1>0, <2>1 DEF LateInv
<1>4. CASE TimePasses
  <2>1. UNCHANGED <<late, region, working>> /\ elapsed # "later"
    BY <1>4 DEF TimePasses, streamVars
  <2> QED
    BY <1>0, <2>1 DEF LateInv
<1>5. CASE HandleStart \/ HandleProgress \/ HandleOther
  BY <1>0, <1>5, HandleReplies DEF LateInv
<1>6. CASE Send \/ Read \/ GiveUp \/ Generate1 \/ MinecraftDies \/ UNCHANGED rconVars
  <2>1. UNCHANGED <<late, region, elapsed, working>>
    BY <1>6 DEF Send, Read, GiveUp, Generate1, MinecraftDies, rconVars, clientVars, streamVars
  <2> QED
    BY <2>1 DEF LateInv
<1> QED
  BY <1>1, <1>2, <1>3, <1>4, <1>5, <1>6 DEF RconNext, ClientActs

RconTypesInv == GenInv /\ CommandsInv /\ FlagsInv /\ LateInv

LEMMA RconTypesInit == RconInit => RconTypesInv
<1> SUFFICES ASSUME RconInit
             PROVE  RconTypesInv
  OBVIOUS
<1>1. CommandsInv
  <2>1. todo = Script /\ Items(inbox) = {} /\ Items(replies) = {}
    BY ItemsEmpty DEF RconInit
  <2> QED
    BY <2>1, AddedAreAsked DEF CommandsInv
<1>2. elapsed = "first-3-s" /\ await = FALSE /\ seen = FALSE /\ working = TRUE
  BY DEF RconInit
<1>3. FlagsInv
  BY <1>2 DEF FlagsInv, Clock
<1>4. LateInv
  <2>1. late = 0 /\ region = 1 /\ MaxLate \in Nat
    BY RconAssumption DEF RconInit
  <2> QED
    BY <1>2, <2>1 DEF LateInv
<1> QED
  BY <1>1, <1>3, <1>4, GenInit DEF RconTypesInv

LEMMA RconTypesStep == RconTypesInv /\ [RconNext]_rconVars => RconTypesInv'
  BY GenStep, CommandsStep, FlagsStep, LateStep DEF RconTypesInv

LEMMA RconTypes == RconTypesInv => RconTypeOK
<1> SUFFICES ASSUME RconTypesInv
             PROVE  RconTypeOK
  OBVIOUS
<1>0. GenTypes /\ TaskInv /\ CommandsInv /\ FlagsInv /\ LateInv /\ late \in Nat
  BY DEF RconTypesInv, GenInv, WorkInv, PollsInv, LagInv
<1>1. replies \in Seq(Packet)
  <2>1. {Script[i] : i \in DOMAIN Script} = Items(Script)
    <3>1. DOMAIN Script = 1 .. Len(Script)
      BY ScriptInOrder
    <3> QED
      BY <3>1 DEF Items
  <2>2. \A p \in Items(replies) : p \in Replies
    BY <1>0, ItemsTyped DEF GenTypes
  <2>3. \A p \in Items(replies) : p \in Packet
    BY <1>0, <2>1, <2>2 DEF CommandsInv, Replies, Kinds, Asked, Packet
  <2> QED
    BY <1>0, <2>3, SeqOfItems DEF GenTypes
<1>2. late \in 0 .. MaxLate + LastRegion + 1
  <2>1. region \in Nat /\ region <= LastRegion /\ LastRegion \in Nat /\ MaxLate \in Nat
    BY <1>0, RconAssumption DEF GenTypes, Regions
  <2> QED
    BY <1>0, <2>1 DEF LateInv
<1>3. /\ region \in Regions /\ made \in [Regions -> 0 .. Total]
      /\ why \in [Regions -> {"polling", "complete", "idle", "assumed", "timed-out"}]
      /\ task # 0 => made[task] < Total
  BY <1>0 DEF GenTypes, Whys, TaskInv
<1>4. /\ await \in BOOLEAN /\ seen \in BOOLEAN /\ working \in BOOLEAN /\ elapsed \in Clock
  BY <1>0 DEF FlagsInv
<1> QED
  BY <1>1, <1>2, <1>3, <1>4 DEF RconTypeOK

\* The state of client, stream and Chunky has its type, with the bound on the polls
\* that time out; Chunky works on nothing that is complete.
THEOREM RconTypesHold == RconSpec => []RconTypeOK
  BY RconTypesInit, RconTypesStep, RconTypes, PTL DEF RconSpec

=============================================================================
