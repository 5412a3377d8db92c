----------------------- MODULE ProcessServerProperties -----------------------
(***************************************************************************)
(* What the users of a build directory may rely on.                        *)
(***************************************************************************)
EXTENDS ProcessServer

Stages == {"down", "starting", "select", "accept", "control", "command", "claim", "answer",
           "hangup", "join", "close", "release", "relock", "unlock"}

Phases == {"lock", "starting", "connected", "features", "ui", "async",
           "building", "killing", "killed", "done", "failed"}

\* Phases in which a client waits for nothing.
Settled == {"ui", "killed", "done", "failed"}

SomeConnection == Connections \cup {NoConnection}

\* Every variable has its type; whoever is served is the one whose socket is
\* served, and nobody waits to be served twice.
TypeOK ==
    /\ lock \in Server \cup {Free} /\ sockfile \in Server \cup {NoServer}
    /\ phase \in [Client -> Phases] /\ try \in [Client -> Nat]
    /\ \A k \in Client : try[k] \in 1..MaxTries[k]
    /\ peer \in [Connections -> Server \cup {NoServer}]
    /\ open \subseteq Connections /\ sent \subseteq Connections
    /\ cmds \in [Connections -> Seq({"features", "build", "terminate"})]
    /\ reply \in [Connections -> {"none", "ok", "busy"}]
    /\ told \in [Connections -> SomeConnection]
    /\ stage \in [Server -> Stages]
    /\ ready \in [Server -> SUBSET {"sock", "control", "command"}]
    /\ quit \in [Server -> BOOLEAN] /\ hadui \in [Server -> BOOLEAN]
    /\ backlog \in [Server -> Seq(Connections)] /\ queue \in [Server -> Seq(Connections)]
    /\ control \in [Server -> SomeConnection] /\ channel \in [Server -> SomeConnection]
    /\ ipc \in [Server -> {"top", "remove", "finish", "clear", "ended"}]
    /\ async \in [Server -> SomeConnection] /\ funs \in [Server -> SUBSET {"run", "build"}]
    /\ \A s \in Server :
        /\ channel[s] \in {control[s], NoConnection}
        /\ \A i \in 1..Len(queue[s]) : queue[s][i] # control[s]

\* One server works on a build directory at a time: until it lets go of the lock
\* nobody starts another one, whoever crashes, retries or gives up waiting for it.
\* And a server that accepts connections can be reached: no other server, late in
\* its shutdown or early in its start, has removed or replaced its socket file.
OneServer ==
    \A s \in Server :
        /\ stage[s] \notin {"down", "relock"} => lock = s
        /\ Listening(s) => sockfile = s

\* A client is told only of the end of its own command: no command of a client
\* that has left ends while the next one is connected.
TellsOwner ==
    \A c \in Connections : told[c] \in {c, NoConnection}

\* The threads never mix up two commands: between two idle functions, the command
\* that is set has one that will end it, or the server quits, and a command that
\* has ended has left none to be run with the next.
OneCommand ==
    \A s \in Server : ipc[s] = "top" =>
        /\ async[s] = NoConnection => funs[s] = {}
        /\ async[s] # NoConnection => quit[s] \/ \E f \in {"run", "build"} : funs[s] = {f}

\* Nobody waits for ever, neither for a server that shuts down, starts or serves
\* somebody else, nor for the end of a command, although nobody ends one whose
\* function raises an exception: a client gets a connection, the answer and the
\* event it waits for, or gives up, or sees the server go.
WaitsEnd ==
    \A k \in Client : phase[k] \notin Settled ~> phase[k] \in Settled

\* A server that is to quit does, and lets go of the lock.
QuitEnds == \A s \in Server : quit[s] ~> stage[s] = "down"
=============================================================================
