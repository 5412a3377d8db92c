------------------------- MODULE ProcessServerProofs -------------------------
(***************************************************************************)
(* Proofs about ProcessServer, for any number of clients, tries and server *)
(* processes, any timeout, with crashes or without.                        *)
(***************************************************************************)
EXTENDS ProcessServerProperties, SequenceTheorems, TLAPS

LOCAL INSTANCE SequencesExt

-----------------------------------------------------------------------------
(* The lock and the socket file. They are proved together: who has the     *)
(* lock is the only one that listens, so that the socket file of a server  *)
(* that listens is never removed or replaced by another.                   *)

Locked == stage \in [Server -> Stages] /\ OneServer

Serving == {"select", "accept", "control", "command", "claim", "answer", "hangup",
            "join", "close"}

LEMMA InitLocked == Init => Locked
BY DEF Init, Locked, OneServer, Listening, Stages

\* Steps that the lock, the socket and the main loops have no part in.
LEMMA StayLocked ==
    ASSUME Locked, UNCHANGED <<files, stage>> PROVE Locked'
BY DEF Locked, OneServer, Listening, files

\* Steps of the main loop, and out of it.
LEMMA ServeLocked ==
    ASSUME Locked, NEW s \in Server, stage[s] \in Serving,
           NEW g \in Serving \cup {"release"}, At(s, g), UNCHANGED files
    PROVE  Locked'
BY DEF Locked, OneServer, Listening, files, At, Serving, Stages

\* The end of a process: it lets go of the lock, or somebody else has it.
LEMMA GoneLocked ==
    ASSUME Locked, NEW s \in Server, At(s, "down"), UNCHANGED sockfile,
           lock' = lock \/ (lock = s /\ lock' = Free)
    PROVE  Locked'
BY NamesAssumption DEF Locked, OneServer, Listening, At, Stages

LEMMA ClientLocked ==
    ASSUME Locked, NEW k \in Client, ClientStep(k) \/ Build(k) \/ Leave(k)
    PROVE  Locked'
<1>1. CASE Start(k)
  <2> DEFINE down == {x \in Server : stage[x] = "down"}
             s == CHOOSE x \in down : TRUE
  <2>1. s \in Server /\ stage[s] = "down" /\ lock = Free /\ lock' = s
        /\ stage' = [stage EXCEPT ![s] = "starting"] /\ sockfile' = sockfile
    BY <1>1 DEF Start
  <2> HIDE DEF s
  <2> QED
    BY <2>1, NamesAssumption DEF Locked, OneServer, Listening, Stages
<1>2. CASE \/ NoneToKill(k) \/ WaitInVain(k) \/ Connect(k) \/ Refused(k) \/ SendPipes(k)
           \/ GetReply(k) \/ GetBusy(k) \/ GetEvent(k) \/ Kill(k) \/ Killed(k) \/ GiveUp(k)
           \/ Build(k) \/ Leave(k)
  <2>1. UNCHANGED <<files, stage>>
    BY <1>2 DEF NoneToKill, WaitInVain, Connect, Refused, SendPipes, GetReply, GetBusy,
                GetEvent, Kill, Killed, GiveUp, Build, Leave, Retry, main
  <2> QED
    BY <2>1, StayLocked
<1> QED
  BY <1>1, <1>2 DEF ClientStep

LEMMA MainLocked ==
    ASSUME Locked, NEW s \in Server,
           MainStep(s) \/ StartFails(s) \/ Crash(s) \/ ChildrenEnd(s) \/ Unload(s)
    PROVE  Locked'
<1>1. CASE Started(s)
  <2>1. stage[s] = "starting" /\ sockfile' = s /\ At(s, "select") /\ lock' = lock
    BY <1>1 DEF Started
  <2> QED
    BY <2>1 DEF Locked, OneServer, Listening, At, Stages
<1>2. CASE \/ Select(s) \/ LeaveLoop(s) \/ Accept(s) \/ Receive(s) \/ EndOfConnection(s)
           \/ Terminate(s) \/ SyncCommand(s) \/ AsyncCommand(s) \/ Claim(s) \/ Answer(s)
           \/ Busy(s) \/ Disconnect(s) \/ Join(s)
  <2>1. stage[s] \in Serving /\ UNCHANGED files
    BY <1>2 DEF Select, LeaveLoop, Accept, Receive, EndOfConnection, Terminate, SyncCommand,
                AsyncCommand, Claim, Answer, Busy, Disconnect, Join, Take, Serving
  <2>2. \E g \in Serving : At(s, g)
    <3>1. ASSUME NEW fs, Serve(s, fs) PROVE \E g \in Serving : At(s, g)
      BY <3>1 DEF Serve, Serving
    <3>2. CASE Select(s) \/ Accept(s) \/ Receive(s) \/ Disconnect(s)
      BY <3>1, <3>2 DEF Select, Accept, Receive, Disconnect
    <3>3. CASE \/ LeaveLoop(s) \/ EndOfConnection(s) \/ Terminate(s) \/ SyncCommand(s)
               \/ AsyncCommand(s) \/ Claim(s) \/ Answer(s) \/ Busy(s) \/ Join(s)
      BY <3>3 DEF LeaveLoop, EndOfConnection, Terminate, SyncCommand, AsyncCommand,
                  Claim, Answer, Busy, Join, Serving
    <3> QED
      BY <1>2, <3>2, <3>3
  <2> QED
    BY <2>1, <2>2, ServeLocked
<1>3. CASE CloseSocket(s)
  <2>1. stage[s] = "close" /\ At(s, "release") /\ lock' = lock
        /\ sockfile' = IF sockfile = s THEN NoServer ELSE sockfile
    BY <1>3 DEF CloseSocket
  <2> QED
    BY <2>1, NamesAssumption DEF Locked, OneServer, Listening, At, Stages
<1>4. CASE Release(s)
  <2>1. stage[s] = "release" /\ At(s, "relock") /\ lock' \in {Free, lock} /\ sockfile' = sockfile
    BY <1>4 DEF Release, Unlocked
  <2>2. lock = s
    BY <2>1 DEF Locked, OneServer
  <2> QED
    BY <2>1, <2>2 DEF Locked, OneServer, Listening, At, Stages
<1>5. CASE Relock(s)
  <2>1. stage[s] = "relock" /\ lock = Free /\ At(s, "unlock") /\ lock' = s /\ sockfile' = sockfile
    BY <1>5 DEF Relock
  <2> QED
    BY <2>1, NamesAssumption DEF Locked, OneServer, Listening, At, Stages
<1>6. CASE RelockFails(s) \/ Unlock(s) \/ Crash(s)
  <2>1. At(s, "down") /\ UNCHANGED sockfile
    BY <1>6 DEF RelockFails, Unlock, Crash, Gone, files
  <2>2. lock' = lock \/ (lock = s /\ lock' = Free)
    BY <1>6 DEF RelockFails, Unlock, Crash, files, Unlocked, Locked, OneServer
  <2> QED
    BY <2>1, <2>2, GoneLocked
<1>7. CASE StartFails(s)
  <2>1. stage[s] = "starting" /\ At(s, "down") /\ sockfile' = s
        /\ lock' \in Unlocked(s)
    BY <1>7 DEF StartFails, Gone
  <2>2. lock = s
    BY <2>1 DEF Locked, OneServer
  <2> QED
    BY <2>1, <2>2 DEF Locked, OneServer, Listening, At, Stages
<1>8. CASE ChildrenEnd(s)
  <2>1. stage[s] \in {"down", "relock"} /\ lock = s /\ lock' = Free
        /\ UNCHANGED <<sockfile, stage>>
    BY <1>8 DEF ChildrenEnd, main
  <2> QED
    BY <2>1 DEF Locked, OneServer, Listening
<1>9. CASE Unload(s)
  BY <1>9, StayLocked DEF Unload
<1> QED
  BY <1>1, <1>2, <1>3, <1>4, <1>5, <1>6, <1>7, <1>8, <1>9 DEF MainStep

LEMMA NextLocked == Locked /\ [Next]_vars => Locked'
<1> SUFFICES ASSUME Locked, [Next]_vars PROVE Locked'
  OBVIOUS
<1>1. CASE UNCHANGED vars
  BY <1>1, StayLocked DEF vars, main
<1>2. ASSUME NEW s \in Server, IdleStep(s) \/ IdleDies(s) PROVE Locked'
  <2>1. UNCHANGED <<files, stage>>
    BY <1>2 DEF IdleStep, IdleDies, IdleQuit, RunBuild, RunAtOnce, RunFails, RemoveRun,
                BuildDone, BuildRaises, FinishEvent, ClearAsync, main
  <2> QED
    BY <2>1, StayLocked
<1> QED
  BY <1>1, <1>2, ClientLocked, MainLocked DEF Next

\* One server works on a build directory, and whoever finds the lock taken and the
\* socket there can connect: the lock of lib/bb/main.py:455 and the order of
\* lib/bb/server/process.py:327 (socket) and 363 (lock).
THEOREM OneServerHolds == Spec => []OneServer
<1>1. Init => Locked
  BY InitLocked
<1>2. Locked /\ [Next]_vars => Locked'
  BY NextLocked
<1>3. Locked => OneServer
  BY DEF Locked
<1> QED
  BY <1>1, <1>2, <1>3, PTL DEF Spec

-----------------------------------------------------------------------------
(* Who is told. As long as a command is set, the client that is served is  *)
(* the one that has given it; if there is none, the server quits, and      *)
(* serves nobody else.                                                     *)

AtClient == {"accept", "control", "command", "claim", "answer", "hangup"}

ChannelType ==
    /\ stage \in [Server -> Stages] /\ quit \in [Server -> BOOLEAN]
    /\ control = [s \in Server |-> control[s]] /\ channel = [s \in Server |-> channel[s]]
    /\ async = [s \in Server |-> async[s]] /\ told = [c \in Connections |-> told[c]]
    /\ ready \in [Server -> SUBSET {"sock", "control", "command"}]

Channel ==
    \A s \in Server :
        /\ channel[s] \in {control[s], NoConnection}
        /\ async[s] # NoConnection /\ channel[s] # async[s] =>
            channel[s] = NoConnection /\ quit[s] /\ stage[s] \notin AtClient
        /\ stage[s] \in {"command", "claim", "answer"}
                \/ (stage[s] \in AtClient /\ "command" \in ready[s])
            => channel[s] # NoConnection

Told == ChannelType /\ Channel /\ TellsOwner

LEMMA InitTold == Init => Told
<1> SUFFICES ASSUME Init PROVE Told
  OBVIOUS
<1>1. ChannelType
  BY DEF Init, ChannelType, Stages
<1>2. Channel /\ TellsOwner
  BY DEF Init, Channel, TellsOwner, AtClient
<1> QED
  BY <1>1, <1>2 DEF Told

\* Steps that neither the main loop nor the command has a part in.
LEMMA StayTold ==
    ASSUME Told, UNCHANGED <<stage, quit, control, channel, async, ready, told>> PROVE Told'
BY DEF Told, ChannelType, Channel, TellsOwner

\* Clients only forget what they were told.
LEMMA ClientTold ==
    ASSUME Told, NEW k \in Client, ClientStep(k) \/ Build(k) \/ Leave(k) PROVE Told'
<1>1. CASE Start(k)
  <2> DEFINE down == {x \in Server : stage[x] = "down"}
             s == CHOOSE x \in down : TRUE
  <2>1. s \in Server /\ stage' = [stage EXCEPT ![s] = "starting"]
        /\ UNCHANGED <<quit, control, channel, async, ready, told>>
    BY <1>1 DEF Start, sockets, idle
  <2> HIDE DEF s
  <2> QED
    BY <2>1 DEF Told, ChannelType, Channel, TellsOwner, AtClient, Stages
<1>2. CASE \/ NoneToKill(k) \/ WaitInVain(k) \/ Connect(k) \/ Refused(k) \/ SendPipes(k)
           \/ GetReply(k) \/ GetBusy(k) \/ GetEvent(k) \/ Kill(k) \/ Killed(k) \/ GiveUp(k)
           \/ Build(k) \/ Leave(k)
  <2>1. UNCHANGED <<stage, quit, control, channel, async, ready>>
    BY <1>2 DEF NoneToKill, WaitInVain, Connect, Refused, SendPipes, GetReply, GetBusy,
                GetEvent, Kill, Killed, GiveUp, Build, Leave, Retry, main, sockets, idle
  <2>2. told' = told \/ told' = [told EXCEPT ![Now(k)] = NoConnection]
    BY <1>2 DEF NoneToKill, WaitInVain, Connect, Refused, SendPipes, GetReply, GetBusy,
                GetEvent, Kill, Killed, GiveUp, Build, Leave, Retry, Close, pipes
  <2>3. (told = [c \in Connections |-> told[c]])' /\ TellsOwner'
    BY <2>2 DEF Told, ChannelType, TellsOwner
  <2> QED
    BY <2>1, <2>3 DEF Told, ChannelType, Channel
<1> QED
  BY <1>1, <1>2 DEF ClientStep

\* What Serve() makes of the stage.
LEMMA ServeType ==
    ASSUME ChannelType, NEW s \in Server, NEW fs \in SUBSET {"sock", "control", "command"},
           Serve(s, fs)
    PROVE  /\ stage' \in [Server -> Stages] /\ ready' \in [Server -> SUBSET {"sock", "control", "command"}]
           /\ \A z \in Server : z # s => stage'[z] = stage[z] /\ ready'[z] = ready[z]
           /\ ready'[s] = fs
           /\ stage'[s] = "command" => "command" \in fs
           /\ stage'[s] \in {"accept", "control", "command", "select"}
           /\ fs = {} => stage'[s] = "select"
<1>1. stage' = [stage EXCEPT ![s] = stage'[s]] /\ stage'[s] \in {"accept", "control", "command", "select"}
      /\ (stage'[s] = "command" => "command" \in fs) /\ (fs = {} => stage'[s] = "select")
  BY DEF Serve, At, ChannelType
<1>2. ready' = [ready EXCEPT ![s] = fs]
  BY DEF Serve
<1> QED
  BY <1>1, <1>2 DEF ChannelType, Stages

LEMMA SelectTold ==
    ASSUME Told, NEW s \in Server, Select(s) \/ Accept(s) \/ Receive(s) \/ Disconnect(s)
    PROVE  Told'
<1>1. CASE Select(s)
  <2>1. /\ ~quit[s] /\ Serve(s, Ready(s)) /\ stage[s] = "select"
        /\ UNCHANGED <<quit, control, channel, async, told>>
    BY <1>1 DEF Select, pipes, sockets, idle
  <2>2. Ready(s) \in SUBSET {"sock", "control", "command"}
        /\ ("command" \in Ready(s) => channel[s] # NoConnection)
    BY DEF Ready
  <2>3. ChannelType'
    BY <2>1, <2>2, ServeType DEF Told, ChannelType
  <2>4. Channel'
    BY <2>1, <2>2, ServeType DEF Told, Channel, AtClient
  <2> QED
    BY <2>1, <2>3, <2>4 DEF Told, TellsOwner
<1>2. CASE Accept(s)
  <2>1. /\ stage[s] = "accept" /\ Serve(s, ready[s] \ {"sock"})
        /\ control' = [control EXCEPT ![s] =
                IF control[s] = NoConnection THEN Head(backlog[s]) ELSE control[s]]
        /\ UNCHANGED <<quit, channel, async, told>>
    BY <1>2 DEF Accept, pipes, idle
  <2>2. ready[s] \ {"sock"} \in SUBSET {"sock", "control", "command"}
    BY DEF Told, ChannelType
  <2>3. ChannelType'
    BY <2>1, <2>2, ServeType DEF Told, ChannelType
  <2>4. \A z \in Server : channel[z] \in {control'[z], NoConnection}
    BY <2>1 DEF Told, ChannelType, Channel
  <2>5. Channel'
    BY <2>1, <2>2, <2>4, ServeType DEF Told, Channel, AtClient
  <2> QED
    BY <2>1, <2>3, <2>5 DEF Told, TellsOwner
<1>3. CASE Receive(s)
  <2>1. /\ stage[s] = "control" /\ Serve(s, ready[s] \ {"control"}) /\ channel[s] # control[s]
        /\ channel' = [channel EXCEPT ![s] = control[s]]
        /\ UNCHANGED <<quit, control, async, told>>
    BY <1>3 DEF Receive, pipes, idle
  <2>2. ready[s] \ {"control"} \in SUBSET {"sock", "control", "command"}
    BY DEF Told, ChannelType
  <2>3. channel[s] = NoConnection /\ async[s] = NoConnection /\ "command" \notin ready[s]
    BY <2>1 DEF Told, Channel, AtClient
  <2>4. ChannelType'
    BY <2>1, <2>2, ServeType DEF Told, ChannelType
  <2>5. channel'[s] = control[s] /\ \A z \in Server : z # s => channel'[z] = channel[z]
    BY <2>1 DEF Told, ChannelType
  <2>6. Channel'
    BY <2>1, <2>2, <2>3, <2>5, ServeType DEF Told, Channel, AtClient
  <2> QED
    BY <2>1, <2>4, <2>6 DEF Told, TellsOwner
<1>4. CASE Disconnect(s)
  <2> DEFINE late == channel[s] # NoConnection /\ ~IdleCheck(s)
  <2>1. /\ stage[s] = "hangup" /\ Serve(s, {})
        /\ NextClient(s, late)
        /\ channel' = [channel EXCEPT ![s] = NoConnection]
        /\ UNCHANGED <<async, told>>
    BY <1>4 DEF Disconnect, idle
  <2>2. /\ control' = [z \in Server |-> control'[z]]
        /\ \A z \in Server : z # s => control'[z] = control[z] /\ quit'[z] = quit[z]
        /\ quit' \in [Server -> BOOLEAN] /\ (late => quit'[s]) /\ (quit[s] => quit'[s])
    BY <2>1 DEF NextClient, Told, ChannelType
  <2>3. ChannelType'
    BY <2>1, <2>2, ServeType DEF Told, ChannelType
  <2>4. async[s] # NoConnection => late
    BY <2>1 DEF Told, Channel, AtClient, IdleCheck
  <2>5. channel'[s] = NoConnection /\ \A z \in Server : z # s => channel'[z] = channel[z]
    BY <2>1 DEF Told, ChannelType
  <2> HIDE DEF late
  <2>6. Channel'
    BY <2>1, <2>2, <2>4, <2>5, ServeType DEF Told, Channel, AtClient
  <2> QED
    BY <2>1, <2>3, <2>6 DEF Told, TellsOwner
<1> QED
  BY <1>1, <1>2, <1>3, <1>4

\* Steps of the main loop that leave the channel alone.
LEMMA LoopTold ==
    ASSUME Told, NEW s \in Server,
           \/ LeaveLoop(s) \/ EndOfConnection(s) \/ Terminate(s) \/ SyncCommand(s)
           \/ AsyncCommand(s) \/ Claim(s) \/ Answer(s) \/ Busy(s) \/ Join(s) \/ Unload(s)
    PROVE  Told'
<1>1. CASE LeaveLoop(s) \/ Join(s)
  <2>1. /\ stage' = [stage EXCEPT ![s] = "join"] \/ stage' = [stage EXCEPT ![s] = "close"]
        /\ quit' = quit \/ quit' = [quit EXCEPT ![s] = TRUE]
        /\ UNCHANGED <<ready, control, channel, async, told>>
    BY <1>1 DEF LeaveLoop, Join, At, pipes, sockets, idle
  <2>2. ChannelType'
    BY <2>1 DEF Told, ChannelType, Stages
  <2>3. Channel'
    BY <2>1 DEF Told, ChannelType, Channel, AtClient
  <2> QED
    BY <2>1, <2>2, <2>3 DEF Told, TellsOwner
<1>2. CASE EndOfConnection(s)
  <2>1. /\ stage[s] = "control" /\ stage' = [stage EXCEPT ![s] = "hangup"]
        /\ UNCHANGED <<ready, quit, control, channel, async, told>>
    BY <1>2 DEF EndOfConnection, At, pipes, sockets, idle
  <2> QED
    BY <2>1 DEF Told, ChannelType, Channel, AtClient, Stages, TellsOwner
<1>3. CASE Terminate(s) \/ SyncCommand(s) \/ AsyncCommand(s) \/ Answer(s) \/ Busy(s)
  <2>1. /\ stage[s] \in {"command", "claim", "answer"}
        /\ stage' = [stage EXCEPT ![s] = "select"] \/ stage' = [stage EXCEPT ![s] = "claim"]
        /\ quit' = quit \/ quit' = [quit EXCEPT ![s] = TRUE]
        /\ ready' = ready \/ ready' = [ready EXCEPT ![s] = {}]
        /\ UNCHANGED <<control, channel, async, told>>
    BY <1>3 DEF Terminate, SyncCommand, AsyncCommand, Answer, Busy, Take, At, sockets, idle
  <2>2. ChannelType'
    BY <2>1 DEF Told, ChannelType, Stages
  <2>3. Channel'
    BY <2>1 DEF Told, ChannelType, Channel, AtClient
  <2> QED
    BY <2>1, <2>2, <2>3 DEF Told, TellsOwner
<1>4. CASE Claim(s)
  <2>1. /\ stage[s] = "claim" /\ stage' = [stage EXCEPT ![s] = "answer"]
        /\ async' = [async EXCEPT ![s] = channel[s]]
        /\ UNCHANGED <<ready, quit, control, channel, told>>
    BY <1>4 DEF Claim, At, pipes, sockets
  <2> QED
    BY <2>1 DEF Told, ChannelType, Channel, AtClient, Stages, TellsOwner
<1>5. CASE Unload(s)
  <2>1. quit' = [quit EXCEPT ![s] = TRUE] /\ UNCHANGED <<stage, ready, control, channel, async, told>>
    BY <1>5 DEF Unload, pipes, sockets, idle
  <2> QED
    BY <2>1 DEF Told, ChannelType, Channel, TellsOwner
<1> QED
  BY <1>1, <1>2, <1>3, <1>4, <1>5

\* The end of the process.
LEMMA EndTold ==
    ASSUME Told, NEW s \in Server,
           \/ Started(s) \/ CloseSocket(s) \/ Release(s) \/ Relock(s) \/ RelockFails(s)
           \/ Unlock(s) \/ StartFails(s) \/ Crash(s) \/ ChildrenEnd(s)
    PROVE  Told'
<1>1. CASE Started(s) \/ CloseSocket(s) \/ Release(s) \/ Relock(s) \/ ChildrenEnd(s)
  <2>1. /\ \/ stage' = stage \/ stage' = [stage EXCEPT ![s] = "select"]
           \/ stage' = [stage EXCEPT ![s] = "release"] \/ stage' = [stage EXCEPT ![s] = "relock"]
           \/ stage' = [stage EXCEPT ![s] = "unlock"]
        /\ UNCHANGED <<ready, quit, control, channel, async, told>>
    BY <1>1 DEF Started, CloseSocket, Release, Relock, ChildrenEnd, At, main, sockets, idle, pipes
  <2> QED
    BY <2>1 DEF Told, ChannelType, Channel, AtClient, Stages, TellsOwner
<1>2. CASE RelockFails(s) \/ Unlock(s) \/ StartFails(s) \/ Crash(s)
  <2>1. /\ stage' = [stage EXCEPT ![s] = "down"] /\ ready' = [ready EXCEPT ![s] = {}]
        /\ quit' = [quit EXCEPT ![s] = FALSE]
        /\ control' = [control EXCEPT ![s] = NoConnection]
        /\ channel' = [channel EXCEPT ![s] = NoConnection]
        /\ async' = [async EXCEPT ![s] = NoConnection]
        /\ told' = told
    BY <1>2 DEF RelockFails, Unlock, StartFails, Crash, Gone, At
  <2> QED
    BY <2>1 DEF Told, ChannelType, Channel, AtClient, Stages, TellsOwner
<1> QED
  BY <1>1, <1>2

LEMMA IdleTold ==
    ASSUME Told, NEW s \in Server, IdleStep(s) \/ IdleDies(s) PROVE Told'
<1>1. CASE \/ IdleQuit(s) \/ RunBuild(s) \/ RunAtOnce(s) \/ RunFails(s) \/ RemoveRun(s)
           \/ BuildDone(s) \/ IdleDies(s)
  <2>1. UNCHANGED <<stage, quit, control, channel, async, ready, told>>
    BY <1>1 DEF IdleQuit, RunBuild, RunAtOnce, RunFails, RemoveRun, BuildDone, IdleDies,
                main, sockets, pipes
  <2> QED
    BY <2>1, StayTold
<1>2. CASE BuildRaises(s)
  <2>1. quit' = [quit EXCEPT ![s] = TRUE]
        /\ UNCHANGED <<stage, control, channel, async, ready, told>>
    BY <1>2 DEF BuildRaises, sockets, pipes
  <2> QED
    BY <2>1 DEF Told, ChannelType, Channel, TellsOwner
<1>3. CASE FinishEvent(s)
  <2>1. /\ told' = told \/ told' = [told EXCEPT ![channel[s]] = async[s]]
        /\ UNCHANGED <<stage, quit, control, channel, async, ready>>
    BY <1>3 DEF FinishEvent, main, sockets
  <2>2. async[s] \in {channel[s], NoConnection} \/ channel[s] = NoConnection
    BY DEF Told, Channel
  <2>3. TellsOwner' /\ (told = [c \in Connections |-> told[c]])'
    BY <2>1, <2>2, NamesAssumption DEF Told, ChannelType, TellsOwner
  <2> QED
    BY <2>1, <2>3 DEF Told, ChannelType, Channel
<1>4. CASE ClearAsync(s)
  <2>1. async' = [async EXCEPT ![s] = NoConnection]
        /\ UNCHANGED <<stage, quit, control, channel, ready, told>>
    BY <1>4 DEF ClearAsync, main, sockets, pipes
  <2> QED
    BY <2>1 DEF Told, ChannelType, Channel, TellsOwner
<1> QED
  BY <1>1, <1>2, <1>3, <1>4 DEF IdleStep

LEMMA NextTold == Told /\ [Next]_vars => Told'
<1> SUFFICES ASSUME Told, [Next]_vars PROVE Told'
  OBVIOUS
<1>1. CASE UNCHANGED vars
  BY <1>1, StayTold DEF vars, main, sockets, idle, pipes
<1>2. ASSUME NEW s \in Server, MainStep(s) PROVE Told'
  BY <1>2, SelectTold, LoopTold, EndTold DEF MainStep
<1> QED
  BY <1>1, <1>2, ClientTold, IdleTold, LoopTold, EndTold DEF Next

\* A client is told only of the end of its own command: disconnect_client() of
\* lib/bb/server/process.py:198 and finishAsyncCommand() of lib/bb/command.py:146.
THEOREM OwnerHolds == Spec => []TellsOwner
<1>1. Init => Told
  BY InitTold
<1>2. Told /\ [Next]_vars => Told'
  BY NextTold
<1>3. Told => TellsOwner
  BY DEF Told
<1> QED
  BY <1>1, <1>2, <1>3, PTL DEF Spec


-----------------------------------------------------------------------------
(* The command and the idle functions, as the idle thread goes from one to *)
(* the other and the main loop sets the next.                              *)

InHand(s) ==
    /\ ipc[s] = "top" =>
        \/ async[s] = NoConnection /\ funs[s] = {}
        \/ async[s] # NoConnection /\ funs[s] \in {{"run"}, {"build"}}
        \/ async[s] # NoConnection /\ funs[s] = {} /\ quit[s]
    /\ ipc[s] = "remove" =>
        \/ async[s] # NoConnection /\ funs[s] = {"run", "build"}
        \/ async[s] = NoConnection /\ funs[s] = {"run"}
    /\ ipc[s] \in {"finish", "clear"} =>
        async[s] # NoConnection /\ funs[s] \in {{}, {"run"}}

CommandType ==
    /\ ipc \in [Server -> {"top", "remove", "finish", "clear", "ended"}]
    /\ funs \in [Server -> SUBSET {"run", "build"}]

Commands == CommandType /\ \A s \in Server : InHand(s)

LEMMA InitCommands == Init => Commands
  BY DEF Init, Commands, CommandType, InHand

\* A server that goes on, and is to quit if it was, with the command it had.
Same(s) ==
    ipc'[s] = ipc[s] /\ async'[s] = async[s] /\ funs'[s] = funs[s]
        /\ (quit[s] => quit'[s])

LEMMA SameInHand == ASSUME NEW s, InHand(s), Same(s) PROVE InHand(s)'
  BY DEF InHand, Same

LEMMA ClientCommands ==
    ASSUME NEW k \in Client, ClientStep(k) \/ Build(k) \/ Leave(k)
    PROVE  UNCHANGED <<ipc, async, funs, quit>>
  BY DEF ClientStep, NoneToKill, WaitInVain, Connect, Refused, SendPipes, GetReply,
         GetBusy, GetEvent, Kill, Killed, GiveUp, Build, Leave, Retry, Start, main, idle

LEMMA MainCommands ==
    ASSUME Told, NEW s \in Server, MainStep(s) \/ Unload(s) \/ ChildrenEnd(s),
           ~Claim(s), ~RelockFails(s), ~Unlock(s)
    PROVE  UNCHANGED idle /\ \A z \in Server : quit[z] => quit'[z]
<1>1. CASE Disconnect(s)
  BY <1>1 DEF Disconnect, NextClient, Told, ChannelType
<1>2. CASE ~Disconnect(s) /\ MainStep(s)
  BY <1>2 DEF MainStep, Started, Select, LeaveLoop, Accept, Receive,
     EndOfConnection, Terminate, SyncCommand, AsyncCommand, Answer, Busy, Join,
       CloseSocket, Release, Relock, Told, ChannelType
<1>3. CASE Unload(s) \/ ChildrenEnd(s)
  BY <1>3 DEF Unload, ChildrenEnd, main, Told, ChannelType
<1> QED
  BY <1>1, <1>2, <1>3

LEMMA GoneCommands ==
    ASSUME Commands, Told, NEW s \in Server, Gone(s)
    PROVE  Commands'
<1>1. /\ ipc' = [ipc EXCEPT ![s] = "top"] /\ funs' = [funs EXCEPT ![s] = {}]
      /\ async' = [async EXCEPT ![s] = NoConnection]
      /\ quit' = [quit EXCEPT ![s] = FALSE]
  BY DEF Gone
<1>2. CommandType'
  BY <1>1 DEF Commands, CommandType
<1>3. ASSUME NEW z \in Server, z # s PROVE InHand(z)'
  BY <1>1, <1>3, SameInHand DEF Commands, CommandType, Told, ChannelType, Same
<1>4. InHand(s)'
  BY <1>1 DEF Commands, CommandType, Told, ChannelType, InHand
<1> QED
  BY <1>2, <1>3, <1>4 DEF Commands

\* A command is set when none is, and nothing of the last one is left to run.
LEMMA ClaimCommands ==
    ASSUME Commands, Told, NEW s \in Server, Claim(s)
    PROVE  Commands'
<1>1. /\ stage[s] = "claim" /\ funs[s] = {} /\ async[s] = NoConnection
      /\ async' = [async EXCEPT ![s] = channel[s]]
      /\ funs' = [funs EXCEPT ![s] = {"run"}] /\ UNCHANGED <<ipc, quit>>
  BY DEF Claim, IdleCheck
<1>2. channel[s] # NoConnection
  BY <1>1 DEF Told, Channel
<1>3. CommandType'
  BY <1>1 DEF Commands, CommandType
<1>4. ASSUME NEW z \in Server, z # s PROVE InHand(z)'
  BY <1>1, <1>4, SameInHand DEF Commands, CommandType, Told, ChannelType, Same
<1>5. InHand(s)'
  BY <1>1, <1>2 DEF Commands, CommandType, Told, ChannelType, InHand
<1> QED
  BY <1>3, <1>4, <1>5 DEF Commands

\* The idle thread of a server changes its own command only.
LEMMA IdleOthers ==
    ASSUME Commands, Told, NEW s \in Server, IdleStep(s) \/ IdleDies(s)
    PROVE  /\ CommandType'
           /\ \A z \in Server : z # s => Same(z)
           /\ quit[s] => quit'[s]
  BY DEF IdleStep, IdleDies, IdleQuit, RunBuild, RunAtOnce, RunFails, RemoveRun,
         BuildDone, BuildRaises, FinishEvent, ClearAsync, To, Unregister, main,
         Commands, CommandType, Told, ChannelType, Same

LEMMA IdleInHand ==
    ASSUME Commands, Told, NEW s \in Server, IdleStep(s) \/ IdleDies(s)
    PROVE  InHand(s)'
<1> USE DEF Commands, CommandType, Told, ChannelType, To, Unregister
<1>0. InHand(s)
  OBVIOUS
<1>1. CASE IdleQuit(s) \/ IdleDies(s)
  BY <1>1 DEF IdleQuit, IdleDies, InHand
<1>2. CASE RunBuild(s)
  BY <1>0, <1>2 DEF RunBuild, InHand
<1>3. CASE RunAtOnce(s)
  BY <1>0, <1>3 DEF RunAtOnce, InHand
<1>4. CASE RunFails(s)
  BY <1>0, <1>4 DEF RunFails, InHand
<1>5. CASE RemoveRun(s)
  BY <1>0, <1>5 DEF RemoveRun, InHand
<1>6. CASE BuildDone(s)
  BY <1>0, <1>6 DEF BuildDone, InHand
<1>7. CASE BuildRaises(s)
  BY <1>0, <1>7 DEF BuildRaises, InHand
<1>8. CASE FinishEvent(s)
  BY <1>0, <1>8 DEF FinishEvent, InHand, main
<1>9. CASE ClearAsync(s)
  BY <1>0, <1>9 DEF ClearAsync, InHand
<1> QED
  BY <1>1, <1>2, <1>3, <1>4, <1>5, <1>6, <1>7, <1>8, <1>9 DEF IdleStep

LEMMA NextCommands == Commands /\ Told /\ [Next]_vars => Commands'
<1> SUFFICES ASSUME Commands, Told, [Next]_vars PROVE Commands'
  OBVIOUS
<1>1. ASSUME UNCHANGED idle, \A z \in Server : quit[z] => quit'[z] PROVE Commands'
  BY <1>1, SameInHand DEF Commands, CommandType, Same, idle
<1>2. CASE UNCHANGED vars
  BY <1>1, <1>2 DEF vars, main
<1>3. ASSUME NEW k \in Client, ClientStep(k) \/ Build(k) \/ Leave(k) PROVE Commands'
  BY <1>1, <1>3, ClientCommands DEF idle
<1>4. ASSUME NEW s \in Server, IdleStep(s) \/ IdleDies(s) PROVE Commands'
  BY <1>4, IdleOthers, IdleInHand, SameInHand DEF Commands
<1>5. ASSUME NEW s \in Server, StartFails(s) \/ Crash(s) \/ RelockFails(s) \/ Unlock(s)
      PROVE  Commands'
  BY <1>5, GoneCommands DEF StartFails, Crash, RelockFails, Unlock
<1>6. ASSUME NEW s \in Server, MainStep(s) \/ Unload(s) \/ ChildrenEnd(s)
      PROVE  Commands'
  <2>1. CASE Claim(s)
    BY <2>1, ClaimCommands
  <2>2. CASE RelockFails(s) \/ Unlock(s)
    BY <2>2, <1>5
  <2>3. CASE ~Claim(s) /\ ~RelockFails(s) /\ ~Unlock(s)
    <3>1. UNCHANGED idle /\ \A z \in Server : quit[z] => quit'[z]
      BY <1>6, <2>3, MainCommands
    <3> QED
      BY <1>1, <3>1
  <2> QED
    BY <2>1, <2>2, <2>3
<1> QED
  BY <1>2, <1>3, <1>4, <1>5, <1>6 DEF Next

\* The two threads never mix up two commands: Claim checks what the idle thread
\* leaves, in any interleaving with the functions it runs, whoever has left and
\* whatever raises an exception (lib/bb/server/process.py:165 and 398, lib/bb/command.py:105).
THEOREM OneCommandHolds == Spec => []OneCommand
<1>1. Init => Told /\ Commands
  BY InitTold, InitCommands
<1>2. Told /\ Commands /\ [Next]_vars => (Told /\ Commands)'
  BY NextTold, NextCommands
<1>3. Commands => OneCommand
  BY DEF Commands, InHand, OneCommand
<1> QED
  BY <1>1, <1>2, <1>3, PTL DEF Spec

-----------------------------------------------------------------------------
(* Where the connections are. One that was made is with one server, and    *)
(* waits to be accepted, or to be served, or is served, and goes from the  *)
(* one to the other without being queued again: a client that tries again  *)
(* does so on a new connection, and what a server closes when it ends is   *)
(* its own. Hence what its main loop has found is still there when it gets *)
(* to it.                                                                  *)

Items(q) == {q[i] : i \in 1..Len(q)}

Distinct(q) == \A i, j \in 1..Len(q) : q[i] = q[j] => i = j

Held(s) == Items(backlog[s]) \cup Items(queue[s]) \cup ({control[s]} \ {NoConnection})

\* The connections a client has still to make.
Unused(k) ==
    {<<k, i>> : i \in {j \in 1..MaxTries[k] :
        j > try[k] \/ (j = try[k] /\ phase[k] \in {"lock", "starting"})}}

OnePlace(s) ==
    /\ Distinct(backlog[s]) /\ Distinct(queue[s])
    /\ Items(backlog[s]) \cap Items(queue[s]) = {}
    /\ control[s] \notin Items(backlog[s]) \cup Items(queue[s])

Own(s) ==
    /\ \A c \in Held(s) : peer[c] \in {s, NoServer}
    /\ \A z \in Server \ {s} : Held(s) \cap Held(z) = {}
    /\ \A k \in Client : Held(s) \cap Unused(k) = {}

Apart == \A s \in Server : OnePlace(s) /\ Own(s)

\* What select() found, until the main loop has gone through it.
Found(s) ==
    /\ stage[s] = "accept" => backlog[s] # <<>>
    /\ stage[s] = "control" => "sock" \notin ready[s]
    /\ stage[s] = "command" => "command" \in ready[s]
    /\ stage[s] \in {"accept", "control", "command"} /\ "command" \in ready[s] =>
        cmds[channel[s]] # <<>>

Kinds == {"features", "build", "terminate"}

ClientTypes ==
    /\ phase \in [Client -> Phases] /\ try \in [Client -> Nat]
    /\ \A k \in Client : try[k] \in 1..MaxTries[k]
    /\ peer \in [Connections -> Server \cup {NoServer}]
    /\ open \subseteq Connections /\ sent \subseteq Connections
    /\ cmds \in [Connections -> Seq(Kinds)]
    /\ reply \in [Connections -> {"none", "ok", "busy"}]

ServerTypes ==
    /\ lock \in Server \cup {Free} /\ sockfile \in Server \cup {NoServer}
    /\ hadui \in [Server -> BOOLEAN]
    /\ backlog \in [Server -> Seq(Connections)] /\ queue \in [Server -> Seq(Connections)]
    /\ control \in [Server -> SomeConnection] /\ channel \in [Server -> SomeConnection]
    /\ async \in [Server -> SomeConnection]

Places == Told /\ ClientTypes /\ ServerTypes /\ Apart /\ \A s \in Server : Found(s)

-----------------------------------------------------------------------------
(* Sequences.                                                              *)

LEMMA NoItems == Items(<<>>) = {} /\ Distinct(<<>>)
BY DEF Items, Distinct

LEMMA AppendItems ==
    ASSUME NEW S, NEW q \in Seq(S), NEW c \in S
    PROVE  /\ Append(q, c) \in Seq(S) /\ Append(q, c) # <<>>
           /\ Items(Append(q, c)) = Items(q) \cup {c}
           /\ Distinct(q) /\ c \notin Items(q) => Distinct(Append(q, c))
<1> DEFINE r == Append(q, c)
<1>1. r \in Seq(S) /\ Len(r) = Len(q) + 1 /\ r[Len(q) + 1] = c
      /\ \A i \in 1..Len(q) : r[i] = q[i]
  OBVIOUS
<1>2. Len(q) \in Nat
  OBVIOUS
<1> HIDE DEF r
<1>3. Items(r) = Items(q) \cup {c}
  BY <1>1, <1>2 DEF Items
<1>4. Distinct(q) /\ c \notin Items(q) => Distinct(r)
  BY <1>1, <1>2 DEF Items, Distinct
<1>5. r # <<>>
  BY <1>1, <1>2
<1> QED
  BY <1>1, <1>3, <1>4, <1>5 DEF r

LEMMA TailItems ==
    ASSUME NEW S, NEW q \in Seq(S), q # <<>>
    PROVE  /\ Head(q) \in Items(q) /\ Head(q) \in S /\ Tail(q) \in Seq(S)
           /\ Items(Tail(q)) \subseteq Items(q)
           /\ Distinct(q) => Distinct(Tail(q)) /\ Head(q) \notin Items(Tail(q))
<1> DEFINE r == Tail(q)
<1>1. Len(q) \in Nat \ {0} /\ Head(q) = q[1] /\ q[1] \in S
  OBVIOUS
<1>2. r \in Seq(S) /\ Len(r) = Len(q) - 1 /\ \A i \in 1..Len(r) : r[i] = q[i + 1]
  OBVIOUS
<1> HIDE DEF r
<1>3. \A i \in 1..Len(r) : i + 1 \in 1..Len(q) /\ i + 1 # 1
  BY <1>1, <1>2
<1>4. Head(q) \in Items(q) /\ Items(r) \subseteq Items(q)
  BY <1>1, <1>2, <1>3 DEF Items
<1>5. ASSUME Distinct(q) PROVE Distinct(r) /\ Head(q) \notin Items(r)
  BY <1>1, <1>2, <1>3, <1>5 DEF Items, Distinct
<1> QED
  BY <1>1, <1>2, <1>4, <1>5 DEF r

LEMMA FrontItems ==
    ASSUME NEW S, NEW q \in Seq(S), q # <<>>
    PROVE  /\ Last(q) \in Items(q) /\ Last(q) \in S /\ Front(q) \in Seq(S)
           /\ Items(Front(q)) \subseteq Items(q)
           /\ Distinct(q) => Distinct(Front(q)) /\ Last(q) \notin Items(Front(q))
<1> DEFINE r == SubSeq(q, 1, Len(q) - 1)
<1>1. Len(q) \in Nat \ {0} /\ Last(q) = q[Len(q)] /\ q[Len(q)] \in S /\ Front(q) = r
  BY DEF Last, Front
<1>2. r \in Seq(S) /\ Len(r) = Len(q) - 1 /\ \A i \in 1..Len(r) : r[i] = q[i]
  <2>1. \A i \in 1..(Len(q) - 1) : q[i] \in S
    BY <1>1
  <2> HIDE DEF r
  <2>2. /\ r \in Seq(S) /\ Len(r) = IF 1 <= Len(q) - 1 THEN Len(q) - 1 - 1 + 1 ELSE 0
        /\ \A i \in 1..(Len(q) - 1 - 1 + 1) : r[i] = q[1 + i - 1]
    BY <1>1, <2>1, SubSeqProperties DEF r
  <2>3. Len(q) - 1 \in Nat /\ Len(q) - 1 - 1 + 1 = Len(q) - 1
    BY <1>1
  <2>4. Len(r) = Len(q) - 1
    <3>1. CASE Len(q) = 1
      BY <2>2, <3>1
    <3>2. CASE Len(q) # 1
      <4>0. Len(q) \in Nat /\ Len(q) # 0
        BY <1>1
      <4>1. 1 <= Len(q) - 1
        <5>1. \A n \in Nat : n # 0 /\ n # 1 => 1 <= n - 1
          OBVIOUS
        <5> QED
          BY <4>0, <3>2, <5>1
      <4> QED
        BY <2>2, <2>3, <4>1
    <3> QED
      BY <3>1, <3>2
  <2>5. ASSUME NEW i \in 1..Len(r) PROVE r[i] = q[i]
    <3>1. i \in 1..(Len(q) - 1 - 1 + 1) /\ 1 + i - 1 = i
      BY <1>1, <2>4
    <3> QED
      BY <2>2, <3>1
  <2> QED
    BY <2>2, <2>4, <2>5
<1> HIDE DEF r
<1>3. \A i \in 1..Len(r) : i \in 1..Len(q) /\ i # Len(q)
  BY <1>1, <1>2
<1>4. Last(q) \in Items(q) /\ Items(r) \subseteq Items(q)
  BY <1>1, <1>2, <1>3 DEF Items
<1>5. ASSUME Distinct(q) PROVE Distinct(r) /\ Last(q) \notin Items(r)
  BY <1>1, <1>2, <1>3, <1>5 DEF Items, Distinct
<1> QED
  BY <1>1, <1>2, <1>4, <1>5

LEMMA JoinItems ==
    ASSUME NEW S, NEW p \in Seq(S), NEW q \in Seq(S)
    PROVE  /\ p \o q \in Seq(S) /\ Items(p \o q) = Items(p) \cup Items(q)
           /\ Distinct(p) /\ Distinct(q) /\ Items(p) \cap Items(q) = {} => Distinct(p \o q)
<1> DEFINE r == p \o q
<1>1. /\ r \in Seq(S) /\ Len(r) = Len(p) + Len(q)
      /\ \A i \in 1..Len(r) : r[i] = IF i <= Len(p) THEN p[i] ELSE q[i - Len(p)]
  OBVIOUS
<1>2. Len(p) \in Nat /\ Len(q) \in Nat
  OBVIOUS
<1> HIDE DEF r
<1>3. \A i \in 1..Len(p) : i \in 1..Len(r) /\ r[i] = p[i]
  BY <1>1, <1>2
<1>4. \A j \in 1..Len(q) : Len(p) + j \in 1..Len(r) /\ r[Len(p) + j] = q[j]
  <2> TAKE j \in 1..Len(q)
  <2>1. Len(p) + j \in 1..Len(r) /\ ~(Len(p) + j <= Len(p)) /\ Len(p) + j - Len(p) = j
    BY <1>1, <1>2
  <2> QED
    BY <1>1, <2>1
<1>5. \A i \in 1..Len(r) : i \in 1..Len(p) \/ \E j \in 1..Len(q) : i = Len(p) + j
  <2> SUFFICES ASSUME NEW i \in 1..Len(r), i \notin 1..Len(p)
               PROVE  \E j \in 1..Len(q) : i = Len(p) + j
    OBVIOUS
  <2>1. i - Len(p) \in 1..Len(q) /\ i = Len(p) + (i - Len(p))
    BY <1>1, <1>2, SMTT(30)
  <2> QED
    BY <2>1
<1>6. Items(r) = Items(p) \cup Items(q)
  <2>1. ASSUME NEW x \in Items(r) PROVE x \in Items(p) \cup Items(q)
    <3>1. PICK i \in 1..Len(r) : x = r[i]
      BY <2>1 DEF Items
    <3>2. CASE i \in 1..Len(p)
      BY <1>3, <3>1, <3>2 DEF Items
    <3>3. ASSUME NEW j \in 1..Len(q), i = Len(p) + j PROVE x \in Items(q)
      BY <1>4, <3>1, <3>3 DEF Items
    <3> QED
      BY <1>5, <3>2, <3>3
  <2>2. Items(p) \subseteq Items(r)
    BY <1>3 DEF Items
  <2>3. Items(q) \subseteq Items(r)
    BY <1>4 DEF Items
  <2> QED
    BY <2>1, <2>2, <2>3
<1>7. ASSUME Distinct(p), Distinct(q), Items(p) \cap Items(q) = {} PROVE Distinct(r)
  <2> SUFFICES ASSUME NEW i \in 1..Len(r), NEW j \in 1..Len(r), r[i] = r[j] PROVE i = j
    BY DEF Distinct
  <2>1. CASE i \in 1..Len(p) /\ j \in 1..Len(p)
    BY <1>3, <1>7, <2>1 DEF Distinct
  <2>2. ASSUME NEW m \in 1..Len(q), NEW n \in 1..Len(q), i = Len(p) + m, j = Len(p) + n
        PROVE  i = j
    BY <1>4, <1>7, <2>2 DEF Distinct
  <2>3. ASSUME NEW m \in 1..Len(p), NEW n \in 1..Len(q) PROVE r[m] # r[Len(p) + n]
    BY <1>3, <1>4, <1>7, <2>3 DEF Items
  <2> QED
    BY <1>5, <2>1, <2>2, <2>3
<1> QED
  BY <1>1, <1>6, <1>7 DEF r

-----------------------------------------------------------------------------
(* What the steps change.                                                  *)

LEMMA InitPlaces == Init => Places
<1> SUFFICES ASSUME Init PROVE Places
  OBVIOUS
<1>1. ClientTypes
  BY TriesAssumption DEF Init, ClientTypes, Phases
<1>2. ServerTypes
  BY DEF Init, ServerTypes, SomeConnection
<1>3. ASSUME NEW s \in Server PROVE OnePlace(s) /\ Held(s) = {}
  BY NoItems, NamesAssumption DEF Init, OnePlace, Held
<1>4. Apart
  BY <1>3 DEF Apart, Own
<1>5. \A s \in Server : Found(s)
  BY DEF Init, Found
<1> QED
  BY <1>1, <1>2, <1>4, <1>5, InitTold DEF Places

LEMMA NowIsConnection ==
    ASSUME ClientTypes, NEW k \in Client
    PROVE  Now(k) \in Connections /\ Now(k) = <<k, try[k]>>
<1>1. Now(k) \in {k} \X (1..MaxTries[k])
  BY DEF ClientTypes, Now
<1> QED
  BY <1>1 DEF Connections, Now

LEMMA HeldConnections ==
    ASSUME ServerTypes, NEW s \in Server PROVE Held(s) \subseteq Connections
BY DEF ServerTypes, Held, Items, SomeConnection

\* The pipes in use are those of the connection that is served.
LEMMA ChannelHeld ==
    ASSUME Places, NEW s \in Server, channel[s] # NoConnection
    PROVE  channel[s] \in Held(s) /\ channel[s] \in Connections
BY DEF Places, Told, Channel, Held, ServerTypes, SomeConnection

\* Connections are closed or forgotten, but not made, and no others become unused.
LEMMA FewerApart ==
    ASSUME Apart,
           \A s \in Server :
              /\ backlog'[s] \in {backlog[s], <<>>} /\ queue'[s] \in {queue[s], <<>>}
              /\ control'[s] \in {control[s], NoConnection},
           \A s \in Server : \A c \in Held(s) : peer'[c] \in {peer[c], NoServer},
           \A k \in Client : Unused(k)' \subseteq Unused(k),
           NoConnection \notin UNION {Held(s) : s \in Server}
    PROVE  Apart'
<1> SUFFICES ASSUME NEW s \in Server PROVE (OnePlace(s) /\ Own(s))'
  BY DEF Apart
<1>1. \A z \in Server : Held(z)' \subseteq Held(z)
  BY NoItems DEF Held
<1>2. OnePlace(s)'
  BY NoItems DEF Apart, OnePlace, Held
<1>3. Own(s)'
  BY <1>1 DEF Apart, Own
<1> QED
  BY <1>2, <1>3

\* A server moves its connections, or gets new ones.
LEMMA MovedApart ==
    ASSUME Apart, NEW s \in Server, NEW new,
           OnePlace(s)', Held(s)' \subseteq Held(s) \cup new,
           \A z \in Server \ {s} :
              backlog'[z] = backlog[z] /\ queue'[z] = queue[z] /\ control'[z] = control[z],
           \A z \in Server : new \cap Held(z) = {},
           \A z \in Server : \A c \in Held(z) : peer'[c] \in {peer[c], NoServer},
           \A c \in new : peer'[c] \in {s, NoServer},
           \A k \in Client : Unused(k)' \subseteq Unused(k) \ new
    PROVE  Apart'
<1>1. \A z \in Server \ {s} : Held(z)' = Held(z) /\ OnePlace(z)'
  BY DEF Apart, Held, OnePlace
<1>2. Own(s)'
  <2>1. \A c \in Held(s)' : peer'[c] \in {s, NoServer}
    BY DEF Apart, Own
  <2>2. \A z \in Server \ {s} : Held(s)' \cap Held(z)' = {}
    BY <1>1 DEF Apart, Own
  <2>3. \A k \in Client : Held(s)' \cap Unused(k)' = {}
    BY DEF Apart, Own
  <2> QED
    BY <2>1, <2>2, <2>3 DEF Own
<1>3. ASSUME NEW z \in Server \ {s} PROVE Own(z)'
  <2>1. \A c \in Held(z)' : peer'[c] \in {z, NoServer}
    BY <1>1 DEF Apart, Own
  <2>2. \A y \in Server \ {z} : Held(z)' \cap Held(y)' = {}
    <3> SUFFICES ASSUME NEW y \in Server \ {z} PROVE Held(z)' \cap Held(y)' = {}
      OBVIOUS
    <3>1. CASE y = s
      BY <1>1, <3>1 DEF Apart, Own
    <3>2. CASE y # s
      BY <1>1, <3>2 DEF Apart, Own
    <3> QED
      BY <3>1, <3>2
  <2>3. \A k \in Client : Held(z)' \cap Unused(k)' = {}
    BY <1>1 DEF Apart, Own
  <2> QED
    BY <2>1, <2>2, <2>3 DEF Own
<1> QED
  BY <1>1, <1>2, <1>3 DEF Apart

\* What a server has found stays there, as far as the others are concerned.
LEMMA FoundKept ==
    ASSUME Channel, NEW s \in Server, Found(s),
           stage'[s] = stage[s], ready'[s] = ready[s], channel'[s] = channel[s],
           backlog[s] # <<>> => backlog'[s] # <<>>,
           channel[s] # NoConnection /\ cmds[channel[s]] # <<>> => cmds'[channel[s]] # <<>>
    PROVE  Found(s)'
BY DEF Found, Channel, AtClient

\* A server closes its own connections only.
LEMMA OthersFound ==
    ASSUME Places, NEW s \in Server, NEW z \in Server, z # s,
           stage'[z] = stage[z], ready'[z] = ready[z], channel'[z] = channel[z],
           backlog'[z] = backlog[z],
           \A c \in Connections : c \in Held(s) \/ peer[c] = s \/ cmds'[c] = cmds[c]
    PROVE  Found(z)'
<1>1. ASSUME channel[z] # NoConnection PROVE cmds'[channel[z]] = cmds[channel[z]]
  <2>1. channel[z] \in Held(z) /\ channel[z] \in Connections
    BY <1>1, ChannelHeld
  <2>2. channel[z] \notin Held(s) /\ peer[channel[z]] # s
    BY <2>1, NamesAssumption DEF Places, Apart, Own
  <2> QED
    BY <2>1, <2>2
<1> QED
  BY <1>1, FoundKept DEF Places, Told

-----------------------------------------------------------------------------
(* The clients' steps.                                                     *)

\* Steps that close the client's connection, or make none.
QuietClient(k) ==
    /\ UNCHANGED <<files, main, async>>
    /\ \E p \in Phases :
        /\ phase' = [phase EXCEPT ![k] = p]
        /\ \/ try' = try /\ p \notin {"lock", "starting"}
           \/ try[k] < MaxTries[k] /\ p = "lock" /\ try' = [try EXCEPT ![k] = @ + 1]
    /\ peer' = peer \/ peer' = [peer EXCEPT ![Now(k)] = NoServer]
    /\ open' \subseteq open
    /\ sent' = sent \/ sent' = sent \cup {Now(k)}
    /\ cmds' = cmds \/ \E m \in Kinds : cmds' = [cmds EXCEPT ![Now(k)] = Append(@, m)]
    /\ reply' = reply \/ reply' = [reply EXCEPT ![Now(k)] = "none"]

LEMMA QuietClients ==
    ASSUME NEW k \in Client,
           \/ NoneToKill(k) \/ WaitInVain(k) \/ Refused(k) \/ SendPipes(k) \/ GetReply(k)
           \/ GetBusy(k) \/ GetEvent(k) \/ Kill(k) \/ Killed(k) \/ GiveUp(k)
           \/ Build(k) \/ Leave(k)
    PROVE  QuietClient(k)
<1>1. ASSUME Retry(k) PROVE QuietClient(k)
  BY <1>1 DEF Retry, Close, Goto, QuietClient, Phases, idle
<1>2. ASSUME Leave(k) PROVE QuietClient(k)
  BY <1>2 DEF Leave, Close, Goto, QuietClient, Phases, idle
<1>3. CASE NoneToKill(k) \/ GetReply(k) \/ GetEvent(k)
  BY <1>3 DEF NoneToKill, GetReply, GetEvent, Goto, QuietClient, Phases, idle, pipes
<1>4. CASE SendPipes(k) \/ Kill(k) \/ Build(k)
  BY <1>4 DEF SendPipes, Kill, Build, Send, Goto, QuietClient, Phases, Kinds, idle
<1>5. CASE GetBusy(k) \/ Killed(k)
  BY <1>5 DEF GetBusy, Killed, Close, Goto, QuietClient, Phases, idle
<1>6. CASE WaitInVain(k) \/ Refused(k) \/ GiveUp(k) \/ Leave(k)
  BY <1>1, <1>2, <1>6 DEF WaitInVain, Refused, GiveUp
<1> QED
  BY <1>3, <1>4, <1>5, <1>6

LEMMA QuietClientPlaces ==
    ASSUME Places, Told', NEW k \in Client, QuietClient(k) PROVE Places'
<1>0. Now(k) \in Connections
  BY NowIsConnection DEF Places
<1>1. PICK p \in Phases :
        /\ phase' = [phase EXCEPT ![k] = p]
        /\ \/ try' = try /\ p \notin {"lock", "starting"}
           \/ try[k] < MaxTries[k] /\ p = "lock" /\ try' = [try EXCEPT ![k] = @ + 1]
  BY DEF QuietClient
<1>2. cmds' \in [Connections -> Seq(Kinds)]
      /\ \A c \in Connections : cmds[c] # <<>> => cmds'[c] # <<>>
  <2>1. CASE cmds' = cmds
    BY <2>1 DEF Places, ClientTypes
  <2>2. ASSUME NEW m \in Kinds, cmds' = [cmds EXCEPT ![Now(k)] = Append(@, m)]
        PROVE  cmds' \in [Connections -> Seq(Kinds)]
               /\ \A c \in Connections : cmds[c] # <<>> => cmds'[c] # <<>>
    <3>1. Append(cmds[Now(k)], m) \in Seq(Kinds) /\ Append(cmds[Now(k)], m) # <<>>
      BY <1>0, AppendItems DEF Places, ClientTypes
    <3> QED
      BY <1>0, <2>2, <3>1 DEF Places, ClientTypes
  <2> QED
    BY <2>1, <2>2 DEF QuietClient
<1>3. /\ phase' \in [Client -> Phases] /\ try' \in [Client -> Nat]
      /\ \A j \in Client : try'[j] \in 1..MaxTries[j]
  <2>1. CASE try' = try
    BY <1>1, <2>1 DEF Places, ClientTypes
  <2>2. CASE try[k] < MaxTries[k] /\ try' = [try EXCEPT ![k] = @ + 1]
    <3>1. MaxTries[k] \in Nat /\ try[k] \in Nat
      BY TriesAssumption DEF Places, ClientTypes
    <3>2. try[k] + 1 \in 1..MaxTries[k] /\ try[k] + 1 \in Nat
      BY <2>2, <3>1
    <3> QED
      BY <1>1, <2>2, <3>2 DEF Places, ClientTypes
  <2> QED
    BY <1>1, <2>1, <2>2
<1>4. ClientTypes'
  BY <1>0, <1>2, <1>3 DEF QuietClient, Places, ClientTypes
<1>5. ServerTypes'
  BY DEF QuietClient, Places, ServerTypes, files, main, sockets
<1>6. \A j \in Client : Unused(j)' \subseteq Unused(j)
  <2>1. ASSUME NEW j \in Client, NEW i \in 1..MaxTries[j],
               i > try'[j] \/ (i = try'[j] /\ phase'[j] \in {"lock", "starting"})
        PROVE  i > try[j] \/ (i = try[j] /\ phase[j] \in {"lock", "starting"})
    BY <1>1, <2>1, TriesAssumption DEF Places, ClientTypes
  <2> QED
    BY <2>1 DEF Unused
<1>7. Apart'
  <2>1. UNCHANGED <<backlog, queue, control>>
    BY DEF QuietClient, main, sockets
  <2>2. \A c \in Connections : peer'[c] \in {peer[c], NoServer}
    BY <1>0 DEF QuietClient, Places, ClientTypes
  <2>3. \A s \in Server : Held(s) \subseteq Connections
    BY HeldConnections DEF Places
  <2> QED
    BY <1>6, <2>1, <2>2, <2>3, FewerApart, NamesAssumption DEF Places
<1>8. ASSUME NEW s \in Server PROVE Found(s)'
  BY <1>2, ChannelHeld, FoundKept DEF QuietClient, Places, Told, main, sockets
<1> QED
  BY <1>4, <1>5, <1>7, <1>8 DEF Places

\* A connection that is made is a new one.
LEMMA ConnectPlaces ==
    ASSUME Places, Told', NEW k \in Client, Connect(k) PROVE Places'
<1>0. PICK c \in Connections : c = Now(k) /\ c = <<k, try[k]>>
  BY NowIsConnection DEF Places
<1>1. PICK s \in Server : s = sockfile
  BY DEF Connect, Refuses
<1>2. /\ peer' = [peer EXCEPT ![c] = s] /\ open' = open \cup {c}
      /\ backlog' = [backlog EXCEPT ![s] = Append(backlog[s], c)]
      /\ phase[k] \in {"lock", "starting"} /\ phase' = [phase EXCEPT ![k] = "connected"]
      /\ UNCHANGED <<files, try, sent, cmds, reply, told, stage, ready, quit, hadui,
                     queue, control, channel, async>>
  BY <1>0, <1>1 DEF Connect, MayConnect, Goto, idle
<1>3. c \in Unused(k)
  BY <1>0, <1>2 DEF Places, ClientTypes, Unused
<1>4. \A z \in Server : c \notin Held(z)
  BY <1>3 DEF Places, Apart, Own
<1>5. ClientTypes'
  BY <1>0, <1>1, <1>2 DEF Places, ClientTypes, Phases
<1>6. backlog[s] \in Seq(Connections) /\ backlog'[s] = Append(backlog[s], c)
      /\ \A z \in Server \ {s} : backlog'[z] = backlog[z]
  BY <1>1, <1>2 DEF Places, ServerTypes
<1>7. /\ backlog'[s] \in Seq(Connections) /\ backlog'[s] # <<>>
      /\ Items(backlog'[s]) = Items(backlog[s]) \cup {c}
      /\ Distinct(backlog[s]) /\ c \notin Items(backlog[s]) => Distinct(backlog'[s])
  BY <1>6, AppendItems
<1>8. ServerTypes'
  BY <1>1, <1>2, <1>6, <1>7 DEF Places, ServerTypes, files
<1>9. Apart'
  <2>1. Held(s)' \subseteq Held(s) \cup {c}
    BY <1>2, <1>7 DEF Held
  <2>2. OnePlace(s)'
    BY <1>2, <1>4, <1>7, NamesAssumption DEF Places, Apart, OnePlace, Held
  <2>3. \A j \in Client : Unused(j)' \subseteq Unused(j) \ {c}
    <3>1. ASSUME NEW j \in Client, NEW i \in 1..MaxTries[j],
                 i > try[j] \/ (i = try[j] /\ phase'[j] \in {"lock", "starting"})
          PROVE  /\ i > try[j] \/ (i = try[j] /\ phase[j] \in {"lock", "starting"})
                 /\ <<j, i>> # c
      <4>1. CASE j = k
        <5>1. phase'[j] = "connected"
          BY <1>2, <4>1 DEF Places, ClientTypes
        <5>2. i > try[k] /\ try[k] \in Nat
          BY <3>1, <4>1, <5>1 DEF Places, ClientTypes
        <5>3. i # try[k]
          BY <5>2, <4>1, TriesAssumption
        <5> QED
          BY <1>0, <4>1, <5>2, <5>3
      <4>2. CASE j # k
        BY <1>0, <1>2, <3>1, <4>2 DEF Places, ClientTypes
      <4> QED
        BY <4>1, <4>2
    <3> QED
      BY <1>2, <3>1 DEF Unused
  <2>4. \A z \in Server : \A d \in Held(z) : peer'[d] = peer[d]
    BY <1>2, <1>4, HeldConnections DEF Places, ClientTypes
  <2>5. peer'[c] = s
    BY <1>2 DEF Places, ClientTypes
  <2>6. \A z \in Server : {c} \cap Held(z) = {}
    BY <1>4
  <2>7. \A z \in Server \ {s} :
          backlog'[z] = backlog[z] /\ queue'[z] = queue[z] /\ control'[z] = control[z]
    BY <1>2, <1>6
  <2> QED
    BY <2>1, <2>2, <2>3, <2>4, <2>5, <2>6, <2>7, MovedApart DEF Places
<1>10. ASSUME NEW z \in Server PROVE Found(z)'
  BY <1>2, <1>6, <1>7, FoundKept DEF Places, Told
<1> QED
  BY <1>5, <1>8, <1>9, <1>10 DEF Places

LEMMA StartPlaces ==
    ASSUME Places, Told', NEW k \in Client, Start(k) PROVE Places'
<1>0. PICK c \in Connections : c = Now(k) /\ c = <<k, try[k]>>
  BY NowIsConnection DEF Places
<1>1. PICK s \in Server :
      /\ stage[s] = "down" /\ phase[k] = "lock" /\ lock' = s
      /\ stage' = [stage EXCEPT ![s] = "starting"] /\ peer' = [peer EXCEPT ![c] = s]
      /\ phase' = [phase EXCEPT ![k] = "starting"]
      /\ UNCHANGED <<sockfile, try, open, sent, cmds, reply, told, ready, quit, hadui,
                     backlog, queue, control, channel, async>>
  BY <1>0 DEF Start, Goto, sockets, idle
<1>2. c \in Unused(k)
  BY <1>0, <1>1 DEF Places, ClientTypes, Unused
<1>3. \A z \in Server : c \notin Held(z)
  BY <1>2 DEF Places, Apart, Own
<1>4. ClientTypes'
  BY <1>0, <1>1 DEF Places, ClientTypes, Phases
<1>5. ServerTypes'
  BY <1>1 DEF Places, ServerTypes
<1>6. \A j \in Client : Unused(j)' \subseteq Unused(j)
  BY <1>1 DEF Places, ClientTypes, Unused
<1>7. Apart'
  <2>1. \A z \in Server : Held(z) \subseteq Connections
    BY HeldConnections DEF Places
  <2>2. \A z \in Server : \A d \in Held(z) : peer'[d] = peer[d]
    BY <1>1, <1>3, <2>1 DEF Places, ClientTypes
  <2> QED
    BY <1>1, <1>6, <2>1, <2>2, FewerApart, NamesAssumption DEF Places
<1>8. ASSUME NEW z \in Server PROVE Found(z)'
  <2>1. CASE z = s
    BY <1>1, <2>1 DEF Places, Told, ChannelType, Found
  <2>2. CASE z # s
    BY <1>1, <2>2, FoundKept DEF Places, Told, ChannelType
  <2> QED
    BY <2>1, <2>2
<1> QED
  BY <1>4, <1>5, <1>7, <1>8 DEF Places

LEMMA ClientPlaces ==
    ASSUME Places, Told', NEW k \in Client, ClientStep(k) \/ Build(k) \/ Leave(k)
    PROVE  Places'
BY QuietClients, QuietClientPlaces, ConnectPlaces, StartPlaces DEF ClientStep

-----------------------------------------------------------------------------
(* The steps of a server that leave its connections where they are.        *)

QuietServer(s) ==
    /\ UNCHANGED <<clients, peer, open, sent, backlog, queue, control>>
    /\ lock' \in {lock, Free, s} /\ sockfile' \in {sockfile, s}
    /\ hadui' = hadui \/ hadui' = [hadui EXCEPT ![s] = TRUE]
    /\ channel' = channel \/ channel' = [channel EXCEPT ![s] = control[s]]
    /\ \/ async' = async
       \/ async' = [async EXCEPT ![s] = channel[s]]
       \/ async' = [async EXCEPT ![s] = NoConnection]
    /\ \/ reply' = reply
       \/ reply' = [reply EXCEPT ![channel[s]] = "ok"]
       \/ reply' = [reply EXCEPT ![channel[s]] = "busy"]
    /\ \/ cmds' = cmds
       \/ stage[s] = "command" /\ cmds' = [cmds EXCEPT ![channel[s]] = Tail(@)]
    /\ \A z \in Server \ {s} : stage'[z] = stage[z] /\ ready'[z] = ready[z]

Idling(s) == IdleStep(s) \/ IdleDies(s) \/ Unload(s) \/ ChildrenEnd(s)

Moving(s) == Select(s) \/ Receive(s)

Working(s) ==
    \/ Started(s) \/ LeaveLoop(s) \/ EndOfConnection(s) \/ Terminate(s) \/ SyncCommand(s)
    \/ AsyncCommand(s) \/ Claim(s) \/ Answer(s) \/ Busy(s) \/ Join(s) \/ Release(s) \/ Relock(s)

LEMMA IdlingQuiet ==
    ASSUME Places, NEW s \in Server, Idling(s)
    PROVE  QuietServer(s) /\ Found(s)'
<1>1. UNCHANGED <<stage, ready, channel, cmds, backlog>>
  BY DEF Idling, IdleStep, IdleDies, IdleQuit, RunBuild, RunAtOnce, RunFails, RemoveRun,
         BuildDone, BuildRaises, FinishEvent, ClearAsync, Unload, ChildrenEnd,
         main, sockets, pipes
<1>2. Found(s)'
  BY <1>1 DEF Places, Found
<1> SUFFICES QuietServer(s)
  BY <1>2
<1>3. CASE IdleStep(s) \/ IdleDies(s)
  BY <1>3 DEF QuietServer, IdleStep, IdleDies, IdleQuit, RunBuild, RunAtOnce, RunFails,
     RemoveRun, BuildDone, BuildRaises, FinishEvent, ClearAsync, main, sockets, pipes, files
<1>4. CASE Unload(s) \/ ChildrenEnd(s)
  BY <1>4 DEF QuietServer, Unload, ChildrenEnd, main, sockets, pipes, files, idle
<1> QED
  BY <1>2, <1>3, <1>4 DEF Idling

\* What Serve() goes on with has been found, and a connection to accept first.
LEMMA ServeOrder ==
    ASSUME ChannelType, NEW s \in Server, NEW fs, Serve(s, fs)
    PROVE  /\ stage'[s] = "accept" => "sock" \in fs
           /\ stage'[s] = "control" => "sock" \notin fs
           /\ stage'[s] = "command" => "command" \in fs
BY DEF Serve, At, ChannelType

LEMMA MovingQuiet ==
    ASSUME Places, NEW s \in Server, Moving(s)
    PROVE  QuietServer(s) /\ Found(s)'
<1>1. CASE Select(s)
  <2>1. Serve(s, Ready(s)) /\ UNCHANGED <<files, clients, pipes, quit, hadui, sockets, idle>>
    BY <1>1 DEF Select
  <2>2. Ready(s) \in SUBSET {"sock", "control", "command"}
    BY DEF Ready
  <2>3. QuietServer(s)
    BY <2>1, <2>2, ServeType DEF QuietServer, files, pipes, sockets, idle, Places, Told
  <2>4. /\ ready'[s] = Ready(s)
        /\ stage'[s] = "accept" => "sock" \in Ready(s)
        /\ stage'[s] = "control" => "sock" \notin Ready(s)
        /\ stage'[s] = "command" => "command" \in Ready(s)
    BY <2>1, <2>2, ServeType, ServeOrder DEF Places, Told
  <2>5. UNCHANGED <<backlog, channel, cmds>>
    BY <2>1 DEF pipes, sockets
  <2> QED
    BY <2>3, <2>4, <2>5 DEF Found, Ready
<1>2. CASE Receive(s)
  <2>1. /\ stage[s] = "control" /\ control[s] \in sent /\ channel[s] # control[s]
        /\ Serve(s, ready[s] \ {"control"})
        /\ channel' = [channel EXCEPT ![s] = control[s]] /\ hadui' = [hadui EXCEPT ![s] = TRUE]
        /\ UNCHANGED <<files, clients, pipes, quit, backlog, queue, control, idle>>
    BY <1>2 DEF Receive
  <2>2. ready[s] \ {"control"} \in SUBSET {"sock", "control", "command"}
    BY DEF Places, Told, ChannelType
  <2>3. QuietServer(s)
    BY <2>1, <2>2, ServeType DEF QuietServer, files, pipes, idle, Places, Told
  <2>4. ready[s] \subseteq {"control"}
    BY <2>1 DEF Places, Found, Told, ChannelType, Channel, AtClient
  <2>5. stage'[s] = "select"
    BY <2>1, <2>2, <2>4, ServeType DEF Places, Told
  <2> QED
    BY <2>3, <2>5 DEF Found
<1> QED
  BY <1>1, <1>2 DEF Moving

LEMMA WorkingQuiet ==
    ASSUME Places, NEW s \in Server, Working(s)
    PROVE  QuietServer(s) /\ Found(s)'
<1>1. stage' \in {[stage EXCEPT ![s] = g] :
                g \in {"select", "join", "hangup", "claim", "answer", "close", "relock", "unlock"}}
  BY DEF Working, Started, LeaveLoop, EndOfConnection, Terminate, SyncCommand, AsyncCommand,
         Claim, Answer, Busy, Join, Release, Relock, At
<1>2. Found(s)'
  BY <1>1 DEF Places, Told, ChannelType, Found
<1>3. ready' = ready \/ ready' = [ready EXCEPT ![s] = {}]
  BY DEF Working, Started, LeaveLoop, EndOfConnection, Terminate, SyncCommand, AsyncCommand,
         Claim, Answer, Busy, Join, Release, Relock, Take
<1>4. \A z \in Server \ {s} : stage'[z] = stage[z] /\ ready'[z] = ready[z]
  BY <1>1, <1>3 DEF Places, Told, ChannelType
<1> SUFFICES QuietServer(s)
  BY <1>2
<1>5. CASE Started(s) \/ LeaveLoop(s) \/ EndOfConnection(s) \/ Join(s) \/ Relock(s)
  BY <1>4, <1>5 DEF QuietServer, Started, LeaveLoop, EndOfConnection, Join, Relock,
                    files, pipes, sockets, idle
<1>6. CASE Release(s)
  BY <1>4, <1>6 DEF QuietServer, Release, Unlocked, pipes, sockets, idle
<1>7. CASE Terminate(s) \/ SyncCommand(s) \/ AsyncCommand(s)
  BY <1>4, <1>7 DEF QuietServer, Terminate, SyncCommand, AsyncCommand, Take, Tell,
                    files, pipes, sockets, idle
<1>8. CASE Claim(s) \/ Answer(s) \/ Busy(s)
  BY <1>4, <1>8 DEF QuietServer, Claim, Answer, Busy, Tell, files, pipes, sockets, idle
<1> QED
  BY <1>2, <1>5, <1>6, <1>7, <1>8 DEF Working

LEMMA QuietServerPlaces ==
    ASSUME Places, Told', NEW s \in Server, QuietServer(s), Found(s)'
    PROVE  Places'
<1>1. UNCHANGED <<phase, try, peer, open, sent, backlog, queue, control>>
  BY DEF QuietServer, clients
<1>2. /\ cmds' \in [Connections -> Seq(Kinds)]
      /\ \A c \in Connections : c \in Held(s) \/ cmds'[c] = cmds[c]
  <2>1. CASE stage[s] = "command" /\ cmds' = [cmds EXCEPT ![channel[s]] = Tail(@)]
    <3>1. channel[s] # NoConnection /\ cmds[channel[s]] # <<>>
      BY <2>1 DEF Places, Told, Channel, Found
    <3>2. channel[s] \in Held(s) /\ channel[s] \in Connections
      BY <3>1, ChannelHeld
    <3>3. Tail(cmds[channel[s]]) \in Seq(Kinds)
      BY <3>1, <3>2, TailItems DEF Places, ClientTypes
    <3> QED
      BY <2>1, <3>2, <3>3 DEF Places, ClientTypes
  <2>2. CASE cmds' = cmds
    BY <2>2 DEF Places, ClientTypes
  <2> QED
    BY <2>1, <2>2 DEF QuietServer
<1>3. ClientTypes'
  BY <1>1, <1>2 DEF QuietServer, Places, ClientTypes
<1>4. ServerTypes'
  BY <1>1 DEF QuietServer, Places, ServerTypes, SomeConnection
<1>5. Apart'
  <2>1. \A z \in Server : Held(z) \subseteq Connections
    BY HeldConnections DEF Places
  <2>2. \A k \in Client : Unused(k)' = Unused(k)
    BY <1>1 DEF Unused
  <2> QED
    BY <1>1, <2>1, <2>2, FewerApart, NamesAssumption DEF Places
<1>6. ASSUME NEW z \in Server \ {s} PROVE Found(z)'
  <2>1. channel'[z] = channel[z] /\ backlog'[z] = backlog[z]
    BY <1>1 DEF QuietServer, Places, ServerTypes
  <2>2. stage'[z] = stage[z] /\ ready'[z] = ready[z]
    BY DEF QuietServer
  <2> QED
    BY <1>2, <2>1, <2>2, OthersFound
<1> QED
  BY <1>3, <1>4, <1>5, <1>6 DEF Places

-----------------------------------------------------------------------------
(* The steps of a server that move or close connections.                   *)

LEMMA HangupTypes ==
    ASSUME Places, NEW cs, Hangup(cs)
    PROVE  /\ peer' \in [Connections -> Server \cup {NoServer}]
           /\ sent' \subseteq Connections /\ cmds' \in [Connections -> Seq(Kinds)]
           /\ \A c \in Connections : peer'[c] \in {peer[c], NoServer}
           /\ \A c \in Connections \ cs : cmds'[c] = cmds[c]
<1>1. <<>> \in Seq(Kinds)
  OBVIOUS
<1> QED
  BY <1>1 DEF Hangup, Places, ClientTypes

LEMMA AcceptPlaces ==
    ASSUME Places, Told', NEW s \in Server, Accept(s) PROVE Places'
<1> DEFINE b == backlog[s]
           q == queue[s]
<1>1. /\ stage[s] = "accept" /\ Serve(s, ready[s] \ {"sock"})
      /\ backlog' = [backlog EXCEPT ![s] = <<>>]
      /\ UNCHANGED <<files, clients, pipes, quit, hadui, channel, async>>
  BY DEF Accept, idle
<1>2. b \in Seq(Connections) /\ b # <<>> /\ q \in Seq(Connections)
  BY <1>1 DEF Places, ServerTypes, Found
<1>3. /\ Distinct(b) /\ Distinct(q) /\ Items(b) \cap Items(q) = {}
      /\ control[s] \notin Items(b) \cup Items(q)
  BY DEF Places, Apart, OnePlace
<1>4. /\ control'[s] = IF control[s] = NoConnection THEN Head(b) ELSE control[s]
      /\ queue'[s] = q \o IF control[s] = NoConnection THEN Tail(b) ELSE b
      /\ backlog'[s] = <<>>
      /\ \A z \in Server \ {s} :
            backlog'[z] = backlog[z] /\ queue'[z] = queue[z] /\ control'[z] = control[z]
      /\ control' = [control EXCEPT ![s] = control'[s]]
      /\ queue' = [queue EXCEPT ![s] = queue'[s]]
  BY DEF Accept, Places, ServerTypes
<1>5. PICK r \in Seq(Connections) :
      /\ queue'[s] = q \o r /\ Distinct(r) /\ Items(r) \subseteq Items(b)
      /\ control'[s] \notin Items(r)
      /\ control'[s] \in {control[s]} \cup Items(b)
      /\ control'[s] \in SomeConnection
  <2>1. CASE control[s] = NoConnection
    <3>1. /\ Head(b) \in Items(b) /\ Head(b) \in Connections /\ Tail(b) \in Seq(Connections)
          /\ Items(Tail(b)) \subseteq Items(b)
          /\ Distinct(b) => Distinct(Tail(b)) /\ Head(b) \notin Items(Tail(b))
      BY <1>2, TailItems
    <3> QED
      BY <1>3, <1>4, <2>1, <3>1 DEF SomeConnection
  <2>2. CASE control[s] # NoConnection
    BY <1>2, <1>3, <1>4, <2>2 DEF Places, ServerTypes
  <2> QED
    BY <2>1, <2>2
<1>6. /\ queue'[s] \in Seq(Connections)
      /\ Items(queue'[s]) = Items(q) \cup Items(r)
      /\ Distinct(queue'[s])
  <2>1. Items(q) \cap Items(r) = {}
    BY <1>3, <1>5
  <2> QED
    BY <1>2, <1>3, <1>5, <2>1, JoinItems
<1>7. ClientTypes'
  BY <1>1 DEF Places, ClientTypes, clients, pipes
<1>8. ServerTypes'
  <2>1. <<>> \in Seq(Connections)
    OBVIOUS
  <2> QED
    BY <1>1, <1>4, <1>5, <1>6, <2>1 DEF Places, ServerTypes, files
<1>9. Apart'
  <2>1. OnePlace(s)'
    BY <1>3, <1>4, <1>5, <1>6, NoItems DEF OnePlace
  <2>2. Held(s)' \subseteq Held(s)
    BY <1>4, <1>5, <1>6, NoItems DEF Held
  <2>3. \A k \in Client : Unused(k)' = Unused(k)
    BY <1>1 DEF Unused, clients
  <2> DEFINE new == {}
  <2>4. /\ Held(s)' \subseteq Held(s) \cup new
        /\ \A z \in Server : new \cap Held(z) = {}
        /\ \A c \in new : peer'[c] \in {s, NoServer}
        /\ \A k \in Client : Unused(k)' \subseteq Unused(k) \ new
        /\ \A z \in Server : \A c \in Held(z) : peer'[c] \in {peer[c], NoServer}
    BY <1>1, <2>2, <2>3 DEF pipes
  <2> HIDE DEF new
  <2> QED
    BY <1>4, <2>1, <2>4, MovedApart DEF Places
<1>10. Found(s)'
  <2>1. ready[s] \ {"sock"} \in SUBSET {"sock", "control", "command"}
    BY DEF Places, Told, ChannelType
  <2>2. /\ ready'[s] = ready[s] \ {"sock"} /\ stage'[s] # "accept"
        /\ stage'[s] = "command" => "command" \in ready'[s]
    BY <1>1, <2>1, ServeType, ServeOrder DEF Places, Told
  <2>3. "command" \in ready[s] => cmds[channel[s]] # <<>>
    BY <1>1 DEF Places, Found
  <2> QED
    BY <1>1, <2>2, <2>3 DEF Found, pipes
<1>11. ASSUME NEW z \in Server \ {s} PROVE Found(z)'
  <2>1. ready[s] \ {"sock"} \in SUBSET {"sock", "control", "command"}
    BY DEF Places, Told, ChannelType
  <2>2. stage'[z] = stage[z] /\ ready'[z] = ready[z]
    BY <1>1, <2>1, ServeType DEF Places, Told
  <2> QED
    BY <1>1, <1>4, <2>2, OthersFound DEF pipes
<1> QED
  BY <1>7, <1>8, <1>9, <1>10, <1>11 DEF Places

LEMMA DisconnectPlaces ==
    ASSUME Places, Told', NEW s \in Server, Disconnect(s) PROVE Places'
<1> DEFINE late == channel[s] # NoConnection /\ ~IdleCheck(s)
           q == queue[s]
<1>1. /\ NextClient(s, late) /\ Hangup({control[s]}) /\ Serve(s, {})
      /\ channel' = [channel EXCEPT ![s] = NoConnection]
      /\ UNCHANGED <<files, clients, open, reply, told, hadui, backlog, async>>
  BY DEF Disconnect, idle
<1> HIDE DEF late
<1>2. PICK more \in BOOLEAN :
      /\ more => queue[s] # <<>>
      /\ control' = [control EXCEPT ![s] = IF more THEN Last(queue[s]) ELSE NoConnection]
      /\ queue' = [queue EXCEPT ![s] = IF more THEN Front(queue[s]) ELSE queue[s]]
  BY <1>1 DEF NextClient
<1>3. /\ q \in Seq(Connections) /\ Distinct(q) /\ Items(backlog[s]) \cap Items(q) = {}
      /\ Items(backlog[s]) \subseteq Connections
  <2>1. backlog[s] \in Seq(Connections) /\ q \in Seq(Connections)
    BY DEF Places, ServerTypes
  <2>2. Distinct(q) /\ Items(backlog[s]) \cap Items(q) = {}
    BY DEF Places, Apart, OnePlace
  <2>3. Items(backlog[s]) \subseteq Connections
    BY <2>1 DEF Items
  <2> QED
    BY <2>1, <2>2, <2>3
<1>4. /\ queue'[s] \in Seq(Connections) /\ Distinct(queue'[s])
      /\ Items(queue'[s]) \subseteq Items(q)
      /\ control'[s] \notin Items(queue'[s])
      /\ control'[s] \in Items(q) \cup {NoConnection} /\ control'[s] \in SomeConnection
      /\ \A z \in Server \ {s} : queue'[z] = queue[z] /\ control'[z] = control[z]
  <2>1. CASE more
    <3>1. /\ Last(q) \in Items(q) /\ Last(q) \in Connections /\ Front(q) \in Seq(Connections)
          /\ Items(Front(q)) \subseteq Items(q)
          /\ Distinct(Front(q)) /\ Last(q) \notin Items(Front(q))
      BY <1>2, <1>3, <2>1, FrontItems
    <3>2. /\ queue'[s] = Front(q) /\ control'[s] = Last(q)
          /\ \A z \in Server \ {s} : queue'[z] = queue[z] /\ control'[z] = control[z]
      BY <1>2, <2>1 DEF Places, ServerTypes
    <3> QED
      BY <3>1, <3>2 DEF SomeConnection
  <2>2. CASE ~more
    <3>1. /\ queue'[s] = q /\ control'[s] = NoConnection
          /\ \A z \in Server \ {s} : queue'[z] = queue[z] /\ control'[z] = control[z]
      BY <1>2, <2>2 DEF Places, ServerTypes
    <3>2. NoConnection \notin Items(q)
      BY <1>3, NamesAssumption DEF Items
    <3> QED
      BY <1>3, <3>1, <3>2 DEF SomeConnection
  <2> QED
    BY <2>1, <2>2
<1>5. ClientTypes'
  BY <1>1, HangupTypes DEF Places, ClientTypes, clients
<1>6. control' \in [Server -> SomeConnection] /\ queue' \in [Server -> Seq(Connections)]
  <2>1. control' = [control EXCEPT ![s] = control'[s]] /\ queue' = [queue EXCEPT ![s] = queue'[s]]
    BY <1>2 DEF Places, ServerTypes
  <2> QED
    BY <1>4, <2>1 DEF Places, ServerTypes
<1>7. ServerTypes'
  BY <1>1, <1>6 DEF Places, ServerTypes, files, SomeConnection
<1>8. Apart'
  <2>1. OnePlace(s)'
    <3>1. control'[s] \notin Items(backlog[s])
      BY <1>3, <1>4, NamesAssumption
    <3> QED
      BY <1>1, <1>3, <1>4, <3>1 DEF Places, Apart, OnePlace
  <2>2. Held(s)' \subseteq Held(s)
    BY <1>1, <1>4 DEF Held
  <2>3. \A k \in Client : Unused(k)' = Unused(k)
    BY <1>1 DEF Unused, clients
  <2> DEFINE new == {}
  <2>4. /\ Held(s)' \subseteq Held(s) \cup new
        /\ \A z \in Server : new \cap Held(z) = {}
        /\ \A c \in new : peer'[c] \in {s, NoServer}
        /\ \A k \in Client : Unused(k)' \subseteq Unused(k) \ new
    BY <2>2, <2>3
  <2> HIDE DEF new
  <2>5. \A z \in Server : \A c \in Held(z) : peer'[c] \in {peer[c], NoServer}
    BY <1>1, HangupTypes, HeldConnections DEF Places
  <2> QED
    BY <1>1, <1>4, <2>1, <2>4, <2>5, MovedApart DEF Places
<1>9. Found(s)'
  BY <1>1, ServeType DEF Places, Told, Found
<1>10. ASSUME NEW z \in Server \ {s} PROVE Found(z)'
  <2>1. stage'[z] = stage[z] /\ ready'[z] = ready[z]
    BY <1>1, ServeType DEF Places, Told
  <2>2. channel'[z] = channel[z]
    BY <1>1 DEF Places, ServerTypes
  <2>3. \A c \in Connections : c \in Held(s) \/ cmds'[c] = cmds[c]
    BY <1>1, HangupTypes, NamesAssumption DEF Held
  <2> QED
    BY <1>1, <2>1, <2>2, <2>3, OthersFound
<1> QED
  BY <1>5, <1>7, <1>8, <1>9, <1>10 DEF Places

\* What a server leaves behind when its socket is closed or its process ends.
Closes(s, cs) ==
    /\ Hangup(cs)
    /\ \A c \in cs : c \in Held(s) \/ c = NoConnection \/ peer[c] = s
    /\ UNCHANGED <<clients, open, reply, told>>
    /\ lock' \in {lock, Free, s} /\ sockfile' \in {sockfile, s, NoServer}
    /\ backlog' = [backlog EXCEPT ![s] = <<>>]
    /\ queue' = queue \/ queue' = [queue EXCEPT ![s] = <<>>]
    /\ control' = control \/ control' = [control EXCEPT ![s] = NoConnection]
    /\ channel' = channel \/ channel' = [channel EXCEPT ![s] = NoConnection]
    /\ async' = async \/ async' = [async EXCEPT ![s] = NoConnection]
    /\ hadui' = hadui \/ hadui' = [hadui EXCEPT ![s] = FALSE]
    /\ stage' = [stage EXCEPT ![s] = "release"] \/ stage' = [stage EXCEPT ![s] = "down"]
    /\ ready' = ready \/ ready' = [ready EXCEPT ![s] = {}]

LEMMA ClosesPlaces ==
    ASSUME Places, Told', NEW s \in Server, NEW cs, Closes(s, cs) PROVE Places'
<1>1. /\ UNCHANGED <<phase, try, open, reply>> /\ backlog' = [backlog EXCEPT ![s] = <<>>]
      /\ Hangup(cs)
  BY DEF Closes, clients
<1>2. <<>> \in Seq(Connections)
  OBVIOUS
<1>3. ClientTypes'
  BY <1>1, HangupTypes DEF Places, ClientTypes
<1>4. ServerTypes'
  BY <1>2 DEF Closes, Places, ServerTypes, SomeConnection
<1>5. \A z \in Server :
        /\ backlog'[z] \in {backlog[z], <<>>} /\ queue'[z] \in {queue[z], <<>>}
        /\ control'[z] \in {control[z], NoConnection}
  BY DEF Closes, Places, ServerTypes
<1>6. Apart'
  <2>1. \A z \in Server : Held(z) \subseteq Connections
    BY HeldConnections DEF Places
  <2>2. \A z \in Server : \A c \in Held(z) : peer'[c] \in {peer[c], NoServer}
    BY <1>1, <2>1, HangupTypes
  <2>3. \A k \in Client : Unused(k)' = Unused(k)
    BY <1>1 DEF Unused
  <2> QED
    BY <1>5, <2>1, <2>2, <2>3, FewerApart, NamesAssumption DEF Places
<1>7. Found(s)'
  <2>1. stage'[s] \in {"release", "down"}
    BY DEF Closes, Places, Told, ChannelType
  <2> QED
    BY <2>1 DEF Found
<1>8. ASSUME NEW z \in Server \ {s} PROVE Found(z)'
  <2>1. /\ stage'[z] = stage[z] /\ ready'[z] = ready[z] /\ channel'[z] = channel[z]
        /\ backlog'[z] = backlog[z]
    BY DEF Closes, Places, ServerTypes, Told, ChannelType
  <2>2. \A c \in Connections : c \in Held(s) \/ peer[c] = s \/ cmds'[c] = cmds[c]
    BY <1>1, HangupTypes, NamesAssumption DEF Closes
  <2> QED
    BY <2>1, <2>2, OthersFound
<1> QED
  BY <1>3, <1>4, <1>6, <1>7, <1>8 DEF Places

LEMMA ClosePlaces ==
    ASSUME Places, Told', NEW s \in Server,
           CloseSocket(s) \/ RelockFails(s) \/ Unlock(s) \/ StartFails(s) \/ Crash(s)
    PROVE  Places'
<1>1. ToSet(backlog[s]) \subseteq Held(s) /\ ToSet(queue[s]) \subseteq Held(s)
  <2>1. ASSUME NEW q \in Seq(Connections) PROVE ToSet(q) = Items(q)
    <3>1. DOMAIN q = 1..Len(q)
      OBVIOUS
    <3> QED
      BY <3>1 DEF ToSet, Items
  <2> QED
    BY <2>1 DEF Held, Places, ServerTypes
<1>2. CASE CloseSocket(s)
  BY <1>1, <1>2, ClosesPlaces DEF CloseSocket, Closes, At, idle
<1>3. CASE RelockFails(s) \/ Unlock(s) \/ StartFails(s) \/ Crash(s)
  <2> DEFINE cs == ToSet(backlog[s]) \cup ToSet(queue[s]) \cup {control[s]}
                   \cup {c \in Connections : peer[c] = s}
  <2>1. Gone(s)
    BY <1>3 DEF RelockFails, Unlock, StartFails, Crash
  <2>2. lock' \in {lock, Free, s} /\ sockfile' \in {sockfile, s, NoServer}
    BY <1>3 DEF RelockFails, Unlock, StartFails, Crash, files, Unlocked
  <2>3. \A c \in cs : c \in Held(s) \/ c = NoConnection \/ peer[c] = s
    BY <1>1 DEF Held
  <2>4. Closes(s, cs)
    <3>1. Hangup(cs)
      BY <2>1 DEF Gone
    <3> HIDE DEF cs
    <3> QED
      BY <2>1, <2>2, <2>3, <3>1 DEF Gone, Closes, At
  <2> QED
    BY <2>4, ClosesPlaces
<1> QED
  BY <1>2, <1>3

LEMMA NextPlaces == Places /\ [Next]_vars => Places'
<1> SUFFICES ASSUME Places, [Next]_vars PROVE Places'
  OBVIOUS
<1>1. Told'
  BY NextTold DEF Places
<1>2. ASSUME NEW s \in Server, Idling(s) \/ Moving(s) \/ Working(s) PROVE Places'
  BY <1>1, <1>2, IdlingQuiet, MovingQuiet, WorkingQuiet, QuietServerPlaces
<1>3. ASSUME NEW s \in Server, MainStep(s) PROVE Places'
  BY <1>1, <1>2, <1>3, AcceptPlaces, DisconnectPlaces, ClosePlaces DEF MainStep, Moving, Working
<1>4. CASE UNCHANGED vars
  BY <1>1, <1>4 DEF vars, files, clients, pipes, main, sockets, idle, Places, ClientTypes,
     ServerTypes, Apart, OnePlace, Own, Held, Unused, Found
<1> QED
  BY <1>1, <1>2, <1>3, <1>4, ClientPlaces, ClosePlaces DEF Next, Idling

\* Nobody waits twice, and the connection that is served is no longer in the queue
\* (lib/bb/server/process.py:165 and 198); what select() has found is there when the
\* loop gets to it (process.py:255); every variable has its type.
THEOREM TypeHolds == Spec => []TypeOK
<1>1. Init => Locked /\ Places /\ Commands
  BY InitLocked, InitPlaces, InitCommands
<1>2. Locked /\ Places /\ Commands /\ [Next]_vars => (Locked /\ Places /\ Commands)'
  BY NextLocked, NextPlaces, NextCommands DEF Places
<1>3. Locked /\ Places /\ Commands => TypeOK
  <2> SUFFICES ASSUME Places, Commands PROVE TypeOK
    OBVIOUS
  <2>1. told \in [Connections -> SomeConnection]
    BY DEF Places, Told, ChannelType, TellsOwner, SomeConnection
  <2>2. \A s \in Server : \A i \in 1..Len(queue[s]) : queue[s][i] # control[s]
    BY DEF Places, Apart, OnePlace, Items
  <2>3. ClientTypes /\ ServerTypes /\ ChannelType /\ CommandType /\ Channel
    BY DEF Places, Told, Commands
  <2> QED
    BY <2>1, <2>2, <2>3 DEF TypeOK, ClientTypes, ServerTypes, ChannelType, CommandType,
                            Channel, Kinds
<1> QED
  BY <1>1, <1>2, <1>3, PTL DEF Spec
=============================================================================
