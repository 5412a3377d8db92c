---------------------------- MODULE ProcessServer ----------------------------
(***************************************************************************)
(* The BitBake server of a build directory, and the clients that start it, *)
(* connect to it and run commands on it.                                   *)
(*                                                                         *)
(* Whoever has the lock file may start a server, which inherits the lock.  *)
(* A client connects to the server's socket and sends the ends of three    *)
(* pipes: for commands, replies and events. The server has two threads:    *)
(* its main loop accepts connections and takes commands, of one client at  *)
(* a time; the idle thread calls the idle functions, which carry out the   *)
(* asynchronous command, if there is one.                                  *)
(*                                                                         *)
(* A client makes a new connection for each try. stage is where the main   *)
(* loop of a server is, ipc where its idle thread is.                      *)
(***************************************************************************)
EXTENDS Naturals, Sequences

LOCAL INSTANCE SequencesExt

CONSTANTS
    Client, Server,     \* processes; a server that is down may be started again
    NoServer, NoConnection,
    Free,               \* the lock, when nobody has it
    Killers,            \* the clients that were run with --kill-server
    MaxTries,           \* bound: each client's tries to connect (8 in the code)
    Timeout,            \* the server's: "none", "some" or "never" (-1)
    MayFail             \* servers may crash or fail to start

ASSUME TimeoutAssumption == Timeout \in {"none", "some", "never"}

ASSUME TriesAssumption == MaxTries \in [Client -> Nat \ {0}]

Connections == UNION {{k} \X (1..MaxTries[k]) : k \in Client}

ASSUME NamesAssumption ==
    Free \notin Server /\ NoServer \notin Server /\ NoConnection \notin Connections

VARIABLES
    lock, sockfile,
    phase, try,         \* of each client
    peer,               \* the server a connection goes to,
    open,               \* those whose client has not closed them,
    sent,               \* or has sent its pipes on them
    cmds, reply, told,  \* the pipes; told: whose command was said to be complete
    stage, ready, quit, hadui,
    backlog, queue,     \* connections to accept, and newconnections
    control, channel,   \* controllersock, and the client whose pipes are in use
    ipc, async, funs    \* currentAsyncCommand and _idlefuns

files   == <<lock, sockfile>>
clients == <<phase, try>>
pipes   == <<peer, open, sent, cmds, reply, told>>
sockets == <<backlog, queue, control, channel>>
main    == <<stage, ready, quit, hadui, sockets>>
idle    == <<ipc, async, funs>>
vars    == <<files, clients, pipes, main, idle>>

Init ==
    /\ lock = Free /\ sockfile = NoServer
    /\ phase = [k \in Client |-> "lock"] /\ try = [k \in Client |-> 1]
    /\ peer = [c \in Connections |-> NoServer] /\ open = {} /\ sent = {}
    /\ cmds = [c \in Connections |-> <<>>]
    /\ reply = [c \in Connections |-> "none"]
    /\ told = [c \in Connections |-> NoConnection]
    /\ stage = [s \in Server |-> "down"] /\ ready = [s \in Server |-> {}]
    /\ quit = [s \in Server |-> FALSE] /\ hadui = [s \in Server |-> FALSE]
    /\ backlog = [s \in Server |-> <<>>] /\ queue = [s \in Server |-> <<>>]
    /\ control = [s \in Server |-> NoConnection]
    /\ channel = [s \in Server |-> NoConnection]
    /\ ipc = [s \in Server |-> "top"]
    /\ async = [s \in Server |-> NoConnection] /\ funs = [s \in Server |-> {}]

-----------------------------------------------------------------------------
(* Clients: setup_bitbake(), then the user interface.                      *)

Now(k) == <<k, try[k]>>

Goto(k, p) == phase' = [phase EXCEPT ![k] = p]

\* The socket and the pipes are closed; the commands that were sent stay sent.
Close(k) ==
    /\ open' = open \ {Now(k)}
    /\ peer' = [peer EXCEPT ![Now(k)] = NoServer]
    /\ reply' = [reply EXCEPT ![Now(k)] = "none"]
    /\ told' = [told EXCEPT ![Now(k)] = NoConnection]

\* Something went wrong: try again, a limited number of times.
Retry(k) ==
    /\ Close(k)
    /\ IF try[k] < MaxTries[k]
       THEN try' = [try EXCEPT ![k] = @ + 1] /\ Goto(k, "lock")
       ELSE Goto(k, "failed") /\ UNCHANGED try
    /\ UNCHANGED <<files, sent, cmds, main, idle>>

\* With the lock, no server is running.
NoneToKill(k) ==
    /\ phase[k] = "lock" /\ lock = Free /\ k \in Killers
    /\ Goto(k, "done")
    /\ UNCHANGED <<files, try, pipes, main, idle>>

\* BitBakeServer(): the lock goes to the new process.
Start(k) ==
    LET down == {x \in Server : stage[x] = "down"}
        s == CHOOSE x \in down : TRUE
    IN
    /\ phase[k] = "lock" /\ lock = Free /\ k \notin Killers /\ down # {}
    /\ lock' = s
    /\ stage' = [stage EXCEPT ![s] = "starting"]
    /\ peer' = [peer EXCEPT ![Now(k)] = s]
    /\ Goto(k, "starting")
    /\ UNCHANGED <<sockfile, try, open, sent, cmds, reply, told>>
    /\ UNCHANGED <<ready, quit, hadui, sockets, idle>>

\* The last one is still shutting down, or the next one starting. (Five seconds
\* later the lock is taken, if it is free, and let go of at once.)
WaitInVain(k) ==
    /\ phase[k] = "lock" /\ lock # Free /\ sockfile = NoServer
    /\ Retry(k)

\* Somebody's server has a socket, or the one that was started says it is ready.
MayConnect(k) ==
    \/ phase[k] = "lock" /\ lock # Free /\ sockfile # NoServer
    \/ phase[k] = "starting" /\ \E s \in Server : peer[Now(k)] = s /\ stage[s] # "starting"

Listening(s) == stage[s] \notin {"down", "starting", "release", "relock", "unlock"}

Refuses == \A s \in Server : sockfile = s => ~Listening(s)

Connect(k) ==
    /\ MayConnect(k) /\ ~Refuses
    /\ peer' = [peer EXCEPT ![Now(k)] = sockfile]
    /\ open' = open \cup {Now(k)}
    /\ backlog' = [backlog EXCEPT ![sockfile] = Append(@, Now(k))]
    /\ Goto(k, "connected")
    /\ UNCHANGED <<files, try, sent, cmds, reply, told>>
    /\ UNCHANGED <<stage, ready, quit, hadui, queue, control, channel, idle>>

\* The socket file is left over from a server that has gone.
Refused(k) == MayConnect(k) /\ Refuses /\ Retry(k)

\* Nothing arrives when the server has gone.
Send(k, command) ==
    cmds' = IF peer[Now(k)] = NoServer THEN cmds ELSE [cmds EXCEPT ![Now(k)] = Append(@, command)]

\* sendfds() and updateFeatureSet().
SendPipes(k) ==
    /\ phase[k] = "connected" /\ peer[Now(k)] # NoServer
    /\ sent' = sent \cup {Now(k)} /\ Send(k, "features")
    /\ Goto(k, "features")
    /\ UNCHANGED <<files, try, peer, open, reply, told, main, idle>>

\* A reply is read.
GetReply(k) ==
    /\ phase[k] \in {"features", "async"} /\ reply[Now(k)] = "ok"
    /\ reply' = [reply EXCEPT ![Now(k)] = "none"]
    /\ Goto(k, IF phase[k] = "features" THEN "ui" ELSE "building")
    /\ UNCHANGED <<files, try, peer, open, sent, cmds, told, main, idle>>

\* "Busy": the user interface gives up.
GetBusy(k) ==
    /\ phase[k] = "async" /\ reply[Now(k)] = "busy"
    /\ Close(k) /\ Goto(k, "done")
    /\ UNCHANGED <<files, try, sent, cmds, main, idle>>

\* An asynchronous command, such as buildTargets.
Build(k) ==
    /\ phase[k] = "ui" /\ k \notin Killers
    /\ Send(k, "build") /\ Goto(k, "async")
    /\ UNCHANGED <<files, try, peer, open, sent, reply, told, main, idle>>

\* CommandCompleted, CommandFailed or CommandExit.
GetEvent(k) ==
    /\ phase[k] = "building" /\ told[Now(k)] # NoConnection
    /\ Goto(k, "ui")
    /\ told' = [told EXCEPT ![Now(k)] = NoConnection]
    /\ UNCHANGED <<files, try, peer, open, sent, cmds, reply, main, idle>>

\* terminateServer(), then terminate().
Kill(k) ==
    /\ phase[k] = "ui" /\ k \in Killers
    /\ Send(k, "terminate") /\ Goto(k, "killing")
    /\ UNCHANGED <<files, try, peer, open, sent, reply, told, main, idle>>

Killed(k) ==
    /\ phase[k] = "killing"
    /\ Close(k) /\ Goto(k, "killed")
    /\ UNCHANGED <<files, try, sent, cmds, main, idle>>

\* The user interface ends, or is killed, whatever it is doing.
Leave(k) ==
    /\ phase[k] \in {"connected", "features", "ui", "async", "building"}
    /\ Close(k) /\ Goto(k, "done")
    /\ UNCHANGED <<files, try, sent, cmds, main, idle>>

\* Mutant: no timeout, once the connection is made.
GiveUpWhenGone(k) ==
    \/ /\ phase[k] \in {"starting", "connected", "features"}
       /\ phase[k] # "starting" => peer[Now(k)] = NoServer
       /\ Retry(k)
    \/ /\ phase[k] \in {"async", "ui", "building"} /\ peer[Now(k)] = NoServer
       /\ Leave(k)

\* The server has gone, or has not answered for 60 seconds (90 when it starts).
\* Once the user interface runs, it ends: ProcessTimeout is a SystemExit.
GiveUp(k) ==
    \/ /\ phase[k] \in {"starting", "connected", "features"}
       /\ phase[k] = "connected" => peer[Now(k)] = NoServer
       /\ Retry(k)
    \/ /\ \/ phase[k] = "async"
          \/ phase[k] \in {"ui", "building"} /\ peer[Now(k)] = NoServer
       /\ Leave(k)

-----------------------------------------------------------------------------
(* The main loop of a server.                                              *)

At(s, g) == stage' = [stage EXCEPT ![s] = g]

\* A stale socket file is replaced by the one of this server.
Started(s) ==
    /\ stage[s] = "starting"
    /\ sockfile' = s /\ At(s, "select")
    /\ UNCHANGED <<lock, clients, pipes, ready, quit, hadui, sockets, idle>>

IdleEnded(s) == ipc[s] = "ended"

\* What select() finds: a connection to accept, one that has sent its pipes or
\* was closed, a command. A client closes its connection before its pipes, so the
\* end of the commands is never what is found first.
Ready(s) ==
    {f \in {"sock", "control", "command"} :
        \/ f = "sock" /\ backlog[s] # <<>>
        \/ f = "control" /\ control[s] # NoConnection
            /\ (control[s] \notin open \/ (control[s] \in sent /\ channel[s] # control[s]))
        \/ f = "command" /\ channel[s] # NoConnection
            /\ cmds[channel[s]] # <<>>}

\* They are looked at in this order; what is not ready is passed over.
Serve(s, fs) ==
    /\ ready' = [ready EXCEPT ![s] = fs]
    /\ At(s, IF "sock" \in fs THEN "accept" ELSE IF "control" \in fs THEN "control"
             ELSE IF "command" \in fs THEN "command" ELSE "select")

Select(s) ==
    /\ stage[s] = "select" /\ ~quit[s] /\ ~IdleEnded(s)
    /\ Ready(s) # {} /\ Serve(s, Ready(s))
    /\ UNCHANGED <<files, clients, pipes, quit, hadui, sockets, idle>>

LeaveLoop(s) ==
    /\ stage[s] = "select" /\ (quit[s] \/ IdleEnded(s))
    /\ quit' = [quit EXCEPT ![s] = TRUE] /\ At(s, "join")
    /\ UNCHANGED <<files, clients, pipes, ready, hadui, sockets, idle>>

\* Inactivity, or no client within 30 seconds of the start.
Unload(s) ==
    /\ stage[s] = "select" /\ ~quit[s]
    /\ channel[s] = NoConnection
    /\ Timeout = "some" \/ (Timeout = "none" /\ ~hadui[s])
    /\ quit' = [quit EXCEPT ![s] = TRUE]
    /\ UNCHANGED <<files, clients, pipes, stage, ready, hadui, sockets, idle>>

\* Every connection that waits is accepted; one is served, the others queue.
Accept(s) ==
    LET free == control[s] = NoConnection IN
    /\ stage[s] = "accept"
    /\ backlog' = [backlog EXCEPT ![s] = <<>>]
    /\ control' = [control EXCEPT ![s] = IF free THEN Head(backlog[s]) ELSE @]
    /\ queue' = [queue EXCEPT ![s] = @ \o IF free THEN Tail(backlog[s]) ELSE backlog[s]]
    /\ Serve(s, ready[s] \ {"sock"})
    /\ UNCHANGED <<files, clients, pipes, quit, hadui, channel, idle>>

\* The pipes of the client are received,
Receive(s) ==
    /\ stage[s] = "control" /\ control[s] \in sent /\ channel[s] # control[s]
    /\ channel' = [channel EXCEPT ![s] = control[s]] /\ hadui' = [hadui EXCEPT ![s] = TRUE]
    /\ Serve(s, ready[s] \ {"control"})
    /\ UNCHANGED <<files, clients, pipes, quit, backlog, queue, control, idle>>

\* or there is nothing to receive, as it has gone.
EndOfConnection(s) ==
    /\ stage[s] = "control" /\ (control[s] \in sent => channel[s] = control[s])
    /\ At(s, "hangup")
    /\ UNCHANGED <<files, clients, pipes, ready, quit, hadui, sockets, idle>>

\* A command of this kind is taken.
Take(s, kind) ==
    /\ stage[s] = "command" /\ Head(cmds[channel[s]]) = kind
    /\ ready' = [ready EXCEPT ![s] = {}]
    /\ cmds' = [cmds EXCEPT ![channel[s]] = Tail(@)]

Terminate(s) ==
    /\ Take(s, "terminate")
    /\ quit' = [quit EXCEPT ![s] = TRUE] /\ At(s, "select")
    /\ UNCHANGED <<files, clients, peer, open, sent, reply, told, hadui, sockets, idle>>

\* The reply is lost if the client has gone.
Tell(c, answer) == reply' = IF c \in open THEN [reply EXCEPT ![c] = answer] ELSE reply

SyncCommand(s) ==
    /\ Take(s, "features")
    /\ Tell(channel[s], "ok") /\ At(s, "select")
    /\ UNCHANGED <<files, clients, peer, open, sent, told, quit, hadui, sockets, idle>>

AsyncCommand(s) ==
    /\ Take(s, "build") /\ At(s, "claim")
    /\ UNCHANGED <<files, clients, peer, open, sent, reply, told, quit, hadui>>
    /\ UNCHANGED <<sockets, idle>>

\* Mutant: the functions that still run are not looked at.
NoCommandSet(s) == async[s] = NoConnection

\* _idle_check()
IdleCheck(s) == funs[s] = {} /\ async[s] = NoConnection

\* set_async_cmd(), and its function is registered,
Claim(s) ==
    /\ stage[s] = "claim" /\ IdleCheck(s)
    /\ async' = [async EXCEPT ![s] = channel[s]]
    /\ funs' = [funs EXCEPT ![s] = @ \cup {"run"}]
    /\ At(s, "answer")
    /\ UNCHANGED <<files, clients, pipes, ready, quit, hadui, sockets, ipc>>

Answer(s) ==
    /\ stage[s] = "answer"
    /\ Tell(channel[s], "ok") /\ At(s, "select")
    /\ UNCHANGED <<files, clients, peer, open, sent, cmds, told, ready, quit, hadui>>
    /\ UNCHANGED <<sockets, idle>>

\* or the last one has not ended in 30 seconds.
Busy(s) ==
    /\ stage[s] = "claim" /\ ~IdleCheck(s)
    /\ Tell(channel[s], "busy") /\ At(s, "select")
    /\ UNCHANGED <<files, clients, peer, open, sent, cmds, told, ready, quit, hadui>>
    /\ UNCHANGED <<sockets, idle>>

\* Connections are closed by the server, with what was sent on them.
Hangup(cs) ==
    /\ peer' = [c \in Connections |-> IF c \in cs THEN NoServer ELSE peer[c]]
    /\ sent' = sent \ cs
    /\ cmds' = [c \in Connections |-> IF c \in cs THEN <<>> ELSE cmds[c]]

\* Mutant: the client stays in the queue.
NextClientOnce(s, late) ==
    LET leave == quit[s] \/ late
        more  == queue[s] # <<>> /\ ~leave
    IN  /\ control' = [control EXCEPT ![s] = IF more THEN Last(queue[s]) ELSE NoConnection]
        /\ UNCHANGED queue
        /\ quit' = [quit EXCEPT ![s] =
            leave \/ (~more /\ Timeout = "none" /\ backlog[s] = <<>>)]

\* The client that was queued last is served next, unless the server quits: it
\* was to, or the command of the last client has not ended.
NextClient(s, late) ==
    LET leave == quit[s] \/ late
        more  == queue[s] # <<>> /\ ~leave
    IN  /\ control' = [control EXCEPT ![s] = IF more THEN Last(queue[s]) ELSE NoConnection]
        /\ queue' = [queue EXCEPT ![s] = IF more THEN Front(@) ELSE @]
        /\ quit' = [quit EXCEPT ![s] =
            leave \/ (~more /\ Timeout = "none" /\ backlog[s] = <<>>)]

\* Mutant: the command of the client is not waited for.
DisconnectAtOnce(s) ==
    /\ stage[s] = "hangup"
    /\ NextClient(s, FALSE)
    /\ channel' = [channel EXCEPT ![s] = NoConnection]
    /\ Hangup({control[s]}) /\ Serve(s, {})
    /\ UNCHANGED <<files, clients, open, reply, told, hadui, backlog, idle>>

\* disconnect_client() waits until the command of the client has ended, for at
\* most 30 seconds.
Disconnect(s) ==
    /\ stage[s] = "hangup"
    /\ NextClient(s, channel[s] # NoConnection /\ ~IdleCheck(s))
    /\ channel' = [channel EXCEPT ![s] = NoConnection]
    /\ Hangup({control[s]}) /\ Serve(s, {})
    /\ UNCHANGED <<files, clients, open, reply, told, hadui, backlog, idle>>

-----------------------------------------------------------------------------
(* The end of a server.                                                    *)

Join(s) ==
    /\ stage[s] = "join" /\ IdleEnded(s)
    /\ At(s, "close")
    /\ UNCHANGED <<files, clients, pipes, ready, quit, hadui, sockets, idle>>

\* Mutant: the lock is closed together with the socket.
CloseSocketAndLock(s) ==
    /\ stage[s] = "close"
    /\ sockfile' = IF sockfile = s THEN NoServer ELSE sockfile
    /\ Hangup(ToSet(backlog[s])) /\ backlog' = [backlog EXCEPT ![s] = <<>>]
    /\ lock' = Free
    /\ At(s, "release")
    /\ UNCHANGED <<clients, open, reply, told, ready, quit, hadui>>
    /\ UNCHANGED <<queue, control, channel, idle>>

\* The socket is removed, if it is the one of this server, and closed.
CloseSocket(s) ==
    /\ stage[s] = "close"
    /\ sockfile' = IF sockfile = s THEN NoServer ELSE sockfile
    /\ Hangup(ToSet(backlog[s])) /\ backlog' = [backlog EXCEPT ![s] = <<>>]
    /\ At(s, "release")
    /\ UNCHANGED <<lock, clients, open, reply, told, ready, quit, hadui>>
    /\ UNCHANGED <<queue, control, channel, idle>>

\* A closed lock stays locked as long as a process the server has forked, such
\* as its hash equivalence server, has it open.
Unlocked(s) == IF lock = s THEN {Free, s} ELSE {lock}

\* post_serve(), and the lock is closed.
Release(s) ==
    /\ stage[s] = "release"
    /\ lock' \in Unlocked(s)
    /\ At(s, "relock")
    /\ UNCHANGED <<sockfile, clients, pipes, ready, quit, hadui, sockets, idle>>

\* The process is gone.
Gone(s) ==
    /\ At(s, "down")
    /\ Hangup(ToSet(backlog[s]) \cup ToSet(queue[s]) \cup {control[s]}
              \cup {c \in Connections : peer[c] = s})
    /\ ready' = [ready EXCEPT ![s] = {}]
    /\ quit' = [quit EXCEPT ![s] = FALSE] /\ hadui' = [hadui EXCEPT ![s] = FALSE]
    /\ backlog' = [backlog EXCEPT ![s] = <<>>] /\ queue' = [queue EXCEPT ![s] = <<>>]
    /\ control' = [control EXCEPT ![s] = NoConnection]
    /\ channel' = [channel EXCEPT ![s] = NoConnection]
    /\ ipc' = [ipc EXCEPT ![s] = "top"] /\ funs' = [funs EXCEPT ![s] = {}]
    /\ async' = [async EXCEPT ![s] = NoConnection]
    /\ UNCHANGED <<clients, open, reply, told>>

\* The lock is taken once more, to remove its file.
Relock(s) ==
    /\ stage[s] = "relock" /\ lock = Free
    /\ lock' = s /\ At(s, "unlock")
    /\ UNCHANGED <<sockfile, clients, pipes, ready, quit, hadui, sockets, idle>>

\* Mutant: the comparison the wrong way round.
RelockFailsIfOwn(s) ==
    /\ stage[s] = "relock" /\ lock = s
    /\ Gone(s) /\ UNCHANGED files

\* Somebody has it. Whoever that is, the comparison of the file's contents
\* raises a TypeError, which ends the process.
RelockFails(s) ==
    /\ stage[s] = "relock" /\ lock # Free
    /\ Gone(s) /\ UNCHANGED files

Unlock(s) ==
    /\ stage[s] = "unlock"
    /\ Gone(s) /\ lock' = Free /\ UNCHANGED sockfile

\* BBCooker() raised an exception, when the socket was there already.
StartFails(s) ==
    /\ MayFail /\ stage[s] = "starting"
    /\ Gone(s) /\ sockfile' = s /\ lock' \in Unlocked(s)

Crash(s) ==
    /\ MayFail /\ stage[s] # "down"
    /\ Gone(s) /\ lock' \in Unlocked(s) /\ UNCHANGED sockfile

\* The processes that were left over end.
ChildrenEnd(s) ==
    /\ stage[s] \in {"down", "relock"} /\ lock = s
    /\ lock' = Free
    /\ UNCHANGED <<sockfile, clients, pipes, main, idle>>

-----------------------------------------------------------------------------
(* The idle thread. A function that is not done is called again, which      *)
(* changes nothing here.                                                   *)

Running(s) == stage[s] \notin {"down", "starting"}

To(s, p) == ipc' = [ipc EXCEPT ![s] = p]

Unregister(s, f) == funs' = [funs EXCEPT ![s] = @ \ {f}]

\* quit is looked at between two rounds.
IdleQuit(s) ==
    /\ Running(s) /\ ipc[s] = "top" /\ quit[s]
    /\ To(s, "ended")
    /\ UNCHANGED <<files, clients, pipes, main, async, funs>>

\* runAsyncCommand(), the recipes parsed: a command that registers a function
\* of its own, one that is done at once, and one that fails.
RunBuild(s) ==
    /\ Running(s) /\ ipc[s] = "top" /\ "run" \in funs[s]
    /\ funs' = [funs EXCEPT ![s] = @ \cup {"build"}] /\ To(s, "remove")
    /\ UNCHANGED <<files, clients, pipes, main, async>>

RunAtOnce(s) ==
    /\ Running(s) /\ ipc[s] = "top" /\ "run" \in funs[s]
    /\ To(s, "finish")
    /\ UNCHANGED <<files, clients, pipes, main, async, funs>>

RunFails(s) ==
    /\ Running(s) /\ ipc[s] = "top" /\ "run" \in funs[s]
    /\ Unregister(s, "run") /\ To(s, "finish")
    /\ UNCHANGED <<files, clients, pipes, main, async>>

\* It has returned False.
RemoveRun(s) ==
    /\ Running(s) /\ ipc[s] = "remove"
    /\ Unregister(s, "run") /\ To(s, "top")
    /\ UNCHANGED <<files, clients, pipes, main, async>>

\* buildTargetsIdle() and its like, when they are done,
BuildDone(s) ==
    /\ Running(s) /\ ipc[s] = "top" /\ "build" \in funs[s]
    /\ Unregister(s, "build") /\ To(s, "finish")
    /\ UNCHANGED <<files, clients, pipes, main, async>>

\* or raise an exception: nobody ends the command, the server quits.
BuildRaises(s) ==
    /\ Running(s) /\ ipc[s] = "top" /\ "build" \in funs[s]
    /\ Unregister(s, "build") /\ quit' = [quit EXCEPT ![s] = TRUE]
    /\ UNCHANGED <<files, clients, pipes, stage, ready, hadui, sockets, ipc, async>>

\* SystemExit, from a handler of a heartbeat, ends the thread.
IdleDies(s) ==
    /\ Running(s) /\ ipc[s] = "top" /\ ~quit[s]
    /\ To(s, "ended")
    /\ UNCHANGED <<files, clients, pipes, main, async, funs>>

\* finishAsyncCommand(): the event for the client there is,
FinishEvent(s) ==
    /\ Running(s) /\ ipc[s] = "finish"
    /\ told' = IF channel[s] \in open THEN [told EXCEPT ![channel[s]] = async[s]] ELSE told
    /\ To(s, "clear")
    /\ UNCHANGED <<files, clients, peer, open, sent, cmds, reply, main, async, funs>>

\* and room for the next command.
ClearAsync(s) ==
    /\ Running(s) /\ ipc[s] = "clear"
    /\ async' = [async EXCEPT ![s] = NoConnection]
    /\ To(s, IF "run" \in funs[s] THEN "remove" ELSE "top")
    /\ UNCHANGED <<files, clients, pipes, main, funs>>

-----------------------------------------------------------------------------
MainStep(s) ==
    \/ Started(s) \/ Select(s) \/ LeaveLoop(s) \/ Accept(s) \/ Receive(s)
    \/ EndOfConnection(s) \/ Terminate(s) \/ SyncCommand(s)
    \/ AsyncCommand(s) \/ Claim(s) \/ Answer(s) \/ Busy(s) \/ Disconnect(s)
    \/ Join(s) \/ CloseSocket(s) \/ Release(s) \/ Relock(s) \/ RelockFails(s) \/ Unlock(s)

IdleStep(s) ==
    \/ IdleQuit(s) \/ RunBuild(s) \/ RunAtOnce(s) \/ RunFails(s) \/ RemoveRun(s)
    \/ BuildDone(s) \/ BuildRaises(s) \/ FinishEvent(s) \/ ClearAsync(s)

ClientStep(k) ==
    \/ NoneToKill(k) \/ Start(k) \/ WaitInVain(k)
    \/ Connect(k) \/ Refused(k) \/ SendPipes(k) \/ GetReply(k) \/ GetBusy(k)
    \/ GetEvent(k) \/ Kill(k) \/ Killed(k) \/ GiveUp(k)

Next ==
    \/ \E k \in Client : ClientStep(k) \/ Build(k) \/ Leave(k)
    \/ \E s \in Server :
        \/ MainStep(s) \/ IdleStep(s)
        \/ Unload(s) \/ IdleDies(s) \/ StartFails(s) \/ Crash(s) \/ ChildrenEnd(s)

\* Both threads of a server run, clients take what they are sent and give up
\* after a time, and an idle function is done some time.
Fairness ==
    /\ \A s \in Server : WF_vars(MainStep(s)) /\ WF_vars(IdleStep(s))
    /\ \A k \in Client : WF_vars(ClientStep(k))

Spec == Init /\ [][Next]_vars

FairSpec == Spec /\ Fairness
=============================================================================
