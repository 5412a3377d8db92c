----------------------------- MODULE ParserPool -----------------------------
(***************************************************************************)
(* The cooker parses the recipes in a pool of processes, and may be        *)
(* stopped while it does.                                                  *)
(*                                                                         *)
(* Each parser has its own share of the recipes and puts the results on a  *)
(* queue they all share: a buffer in each process, whose thread writes to  *)
(* a pipe under a lock. The idle thread of the server takes one result in  *)
(* each call of updateCache(); the main thread stops the cooker and then   *)
(* shuts the pool down, wherever the idle thread may be. Parsers and       *)
(* server send events to the user interface under one other lock.          *)
(*                                                                         *)
(* at is where a thread of the server is:                                  *)
(*   update, construct, assign   in updateCache()                          *)
(*   while, reap, get            in parse_generator()                      *)
(*   free, look                  (main) no stop yet; shutdown() of cooker  *)
(*   check, enter, event, drain, quit, int, kill, term, join               *)
(*                               in shutdown() of CookerParser             *)
(*   ended, raised               returned, or left by an exception         *)
(***************************************************************************)
EXTENDS Integers, SequencesExt

CONSTANTS
    num_processes,
    Recipes,        \* how many recipes each process has to parse
    PipeResults,    \* capacity of the pipe of the result queue, in results
    MayFail,        \* the processes whose recipes may fail to parse
    MayStop,        \* the cooker may be stopped
    Warns,          \* the processes whose recipes give a warning
    Killable        \* the processes that somebody else may kill

Parser == 1..num_processes

ASSUME PoolAssumption ==
    /\ num_processes \in Nat \ {0}
    /\ Recipes \in [Parser -> Nat \ {0}]
    /\ PipeResults \in Nat \ {0}
    /\ MayStop \in BOOLEAN
    /\ MayFail \subseteq Parser /\ Warns \subseteq Parser /\ Killable \subseteq Parser

None == 0

\* The recipes that are not in the cache.
willparse == UNION {{p} \X (1..Recipes[p]) : p \in Parser}
toparse == Cardinality(willparse)

Thread == {"idle", "main"}

VARIABLES
    state,          \* cooker.state
    made,           \* cooker.parser is there
    haveshutdown, quit,
    at, pos, victim, \* of each thread: the place, and in a loop over processes
                    \* the index and the process about to be signalled
    processes, copy, \* the list, and what parse_generator() has yet to look at
    parsed, empty, reason, \* why the idle thread shuts the pool down
    proc,           \* what each parser is doing
    jobs, buf,      \* what it has left to parse, and to write
    signals, mute,  \* the parsers with signals in signal_received, and those
                    \* that have lost their UI handler
    pipe, writer, torn, \* the pipe, who writes to it, whether half a result
                    \* was written by a parser that died
    sender,         \* who has the lock of the event pipe
    failed, killed, termed \* whether a recipe was bad; the parsers that were
                    \* killed, and those a SIGTERM was queued for

cooker       == <<state, made, haveshutdown, quit>>
threads      == <<at, pos, victim>>
round        == <<copy, parsed, empty, reason>>
server       == <<cooker, threads, round, processes>>
parsers      == <<jobs, buf, signals, mute>>
result_queue == <<pipe, writer, torn>>
history      == <<failed, killed, termed>>
pool         == <<proc, parsers, result_queue, sender, history>>
vars         == <<server, pool>>

Init ==
    /\ state = "initial" /\ made = FALSE /\ haveshutdown = FALSE /\ quit = FALSE
    /\ at = [t \in Thread |-> IF t = "idle" THEN "update" ELSE "free"]
    /\ pos = [t \in Thread |-> 1] /\ victim = [t \in Thread |-> None]
    /\ processes = <<>> /\ copy = <<>>
    /\ parsed = 0 /\ empty = FALSE /\ reason = "none"
    /\ proc = [p \in Parser |-> "none"] /\ jobs = Recipes
    /\ buf = [p \in Parser |-> <<>>]
    /\ signals = {} /\ mute = {}
    /\ pipe = <<>> /\ writer = None /\ torn = FALSE /\ sender = None
    /\ failed = FALSE /\ killed = {} /\ termed = {}

-----------------------------------------------------------------------------
(* The parsers.                                                            *)

Alive(p) == proc[p] \in {"loop", "parse", "send", "sent", "close"}

Go(p, where) == proc' = [proc EXCEPT ![p] = where]

Pop(p) ==
    /\ proc[p] = "loop" /\ ~quit /\ jobs[p] > 0
    /\ jobs' = [jobs EXCEPT ![p] = @ - 1] /\ Go(p, "parse")
    /\ UNCHANGED <<server, buf, signals, mute, result_queue, sender, history>>

\* The queue is closed, and its thread is waited for.
LeaveLoop(p) ==
    /\ proc[p] = "loop" /\ (quit \/ jobs[p] = 0)
    /\ Go(p, "close")
    /\ UNCHANGED <<server, parsers, result_queue, sender, history>>

\* An event, such as a warning (at most one for each recipe). From here on
\* signals are queued.
Send(p) ==
    /\ proc[p] = "parse" /\ p \in Warns \ mute /\ sender = None
    /\ sender' = p /\ Go(p, "send")
    /\ UNCHANGED <<server, parsers, result_queue, history>>

\* The event is written. The last one of the queued signals is taken for a list
\* of signals: a TypeError, which only costs the process its UI handler.
Sent(p) ==
    /\ proc[p] = "send"
    /\ sender' = None /\ Go(p, "sent")
    /\ signals' = signals \ {p} /\ mute' = mute \cup (signals \cap {p})
    /\ UNCHANGED <<server, jobs, buf, result_queue, history>>

Parsing(p) == proc[p] \in {"parse", "sent"}

\* The result of a recipe, good or bad, is put on the queue.
Put(p, result) == Go(p, "loop") /\ buf' = [buf EXCEPT ![p] = Append(@, result)]

Parsed(p) ==
    /\ Parsing(p) /\ Put(p, "ok")
    /\ UNCHANGED <<server, jobs, signals, mute, result_queue, sender, history>>

ParseFails(p) ==
    /\ p \in MayFail /\ Parsing(p) /\ Put(p, "bad")
    /\ failed' = TRUE
    /\ UNCHANGED <<server, jobs, signals, mute, result_queue, sender, killed, termed>>

\* The thread of the queue takes the lock and begins to write,
BeginWrite(p) ==
    /\ Alive(p) /\ buf[p] # <<>> /\ writer = None
    /\ writer' = p
    /\ UNCHANGED <<server, proc, parsers, pipe, torn, sender, history>>

\* Mutant: the thread does not wait for the pipe to be read.
EndWriteAtOnce(p) ==
    /\ Alive(p) /\ writer = p
    /\ pipe' = Append(pipe, Head(buf[p])) /\ writer' = None
    /\ buf' = [buf EXCEPT ![p] = Tail(@)]
    /\ UNCHANGED <<server, proc, jobs, signals, mute, torn, sender, history>>

\* and is done when the pipe has had room for it.
EndWrite(p) ==
    /\ Alive(p) /\ writer = p /\ Len(pipe) < PipeResults
    /\ pipe' = Append(pipe, Head(buf[p])) /\ writer' = None
    /\ buf' = [buf EXCEPT ![p] = Tail(@)]
    /\ UNCHANGED <<server, proc, jobs, signals, mute, torn, sender, history>>

Exit(p) ==
    /\ proc[p] = "close" /\ buf[p] = <<>>
    /\ Go(p, "dead")
    /\ UNCHANGED <<server, parsers, result_queue, sender, history>>

\* The process dies, with what is in its buffer. A lock it has stays locked.
Die(p) ==
    /\ Go(p, "dead")
    /\ buf' = [buf EXCEPT ![p] = <<>>]
    /\ torn' \in IF writer = p THEN {torn, TRUE} ELSE {torn}
    /\ UNCHANGED <<jobs, signals, mute, pipe, writer>>

Killed(p) ==
    /\ p \in Killable \ killed /\ Alive(p) /\ Die(p)
    /\ killed' = killed \cup {p}
    /\ UNCHANGED <<server, sender, failed, termed>>

Queued(p) == proc[p] = "send"

QueueSignal(p) ==
    /\ Queued(p)
    /\ signals' = signals \cup {p}
    /\ UNCHANGED <<proc, jobs, buf, mute, result_queue>>

\* KeyboardInterrupt: a recipe fails, or, when an event was about to be sent,
\* only the UI handler is dropped; elsewhere the parser leaves its loop, and
\* when it waits for the thread already, it ends.
Interrupt(p) ==
    \/ QueueSignal(p)
    \/ Parsing(p) /\ Put(p, "bad") /\ UNCHANGED <<jobs, signals, mute, result_queue>>
    \/ /\ proc[p] = "parse" /\ p \in Warns \ mute
       /\ mute' = mute \cup {p}
       /\ UNCHANGED <<proc, jobs, buf, signals, result_queue>>
    \/ proc[p] = "loop" /\ Go(p, "close") /\ UNCHANGED <<parsers, result_queue>>
    \/ proc[p] = "close" /\ Die(p)
    \/ ~Alive(p) /\ UNCHANGED <<proc, parsers, result_queue>>

\* Mutant: the process ends at once, whatever it does.
TerminateAtOnce(p) ==
    \/ Alive(p) /\ Die(p)
    \/ ~Alive(p) /\ UNCHANGED <<proc, parsers, result_queue>>

\* SIGTERM
Terminate(p) ==
    \/ QueueSignal(p)
    \/ Alive(p) /\ ~Queued(p) /\ Die(p)
    \/ ~Alive(p) /\ UNCHANGED <<proc, parsers, result_queue>>

-----------------------------------------------------------------------------
(* CookerParser.shutdown(), in either thread.                              *)

Goto(t, where) == at' = [at EXCEPT ![t] = where]

Other(t) == IF t = "idle" THEN "main" ELSE "idle"

\* The idle thread goes on in updateCache(): the cooker is running, or the
\* command fails. The main thread answers its client.
Return(t) ==
    /\ Goto(t, "ended")
    /\ state' = IF t = "idle" /\ reason = "complete" THEN "running" ELSE state

Check(t) ==
    /\ at[t] = "check"
    /\ IF haveshutdown THEN Return(t) ELSE Goto(t, "enter") /\ UNCHANGED state
    /\ UNCHANGED <<made, haveshutdown, quit, pos, victim, round, processes, pool>>

Enter(t) ==
    /\ at[t] = "enter"
    /\ haveshutdown' = TRUE /\ Goto(t, "event")
    /\ UNCHANGED <<state, made, quit, pos, victim, round, processes, pool>>

\* ParseCompleted or ParseError.
Event(t) ==
    /\ at[t] = "event" /\ sender = None
    /\ Goto(t, "drain")
    /\ UNCHANGED <<cooker, pos, victim, round, processes, pool>>

\* Within its timeout get() finds nothing, or the other thread reading.
NoResult(t) ==
    \/ pipe = <<>> /\ ~torn
    \/ at[Other(t)] \in {"get", "drain"}

Drain(t) ==
    /\ at[t] = "drain" /\ pipe # <<>>
    /\ pipe' = Tail(pipe)
    /\ UNCHANGED <<server, proc, parsers, writer, torn, sender, history>>

Drained(t) ==
    /\ at[t] = "drain" /\ NoResult(t)
    /\ Goto(t, "quit")
    /\ UNCHANGED <<cooker, pos, victim, round, processes, pool>>

Quit(t) ==
    /\ at[t] = "quit"
    /\ quit' = TRUE /\ Goto(t, "int") /\ pos' = [pos EXCEPT ![t] = 1]
    /\ UNCHANGED <<state, made, haveshutdown, victim, round, processes, pool>>

\* The for loops go by the index in a list the idle thread takes dead
\* processes from.
This(t) == processes[pos[t]]

In(t, loop) == at[t] = loop /\ pos[t] <= Len(processes)

NextOne(t) == pos' = [pos EXCEPT ![t] = @ + 1]

Through(t) ==
    /\ at[t] \in {"int", "term", "join"} /\ pos[t] > Len(processes)
    /\ pos' = [pos EXCEPT ![t] = 1]
    /\ IF at[t] = "join" THEN Return(t)
       ELSE Goto(t, IF at[t] = "int" THEN "term" ELSE "join") /\ UNCHANGED state
    /\ UNCHANGED <<made, haveshutdown, quit, victim, round, processes, pool>>

Poll(p) == proc' = IF proc[p] = "dead" THEN [proc EXCEPT ![p] = "reaped"] ELSE proc

\* ValueError: the process object is closed. It ends what the thread does.
Raise(t) ==
    /\ In(t, "int") \/ In(t, "term") \/ In(t, "join")
    /\ proc[This(t)] = "closed"
    /\ Goto(t, "raised") /\ pos' = [pos EXCEPT ![t] = 1]
    /\ UNCHANGED <<cooker, victim, round, processes, pool>>

\* exitcode is None: os.kill() is next.
ToKill(t) ==
    /\ In(t, "int") /\ Alive(This(t))
    /\ victim' = [victim EXCEPT ![t] = This(t)] /\ Goto(t, "kill")
    /\ UNCHANGED <<cooker, pos, round, processes, pool>>

Kill(t) ==
    /\ at[t] = "kill" /\ proc[victim[t]] \notin {"reaped", "closed"}
    /\ Interrupt(victim[t])
    /\ NextOne(t) /\ Goto(t, "int") /\ victim' = [victim EXCEPT ![t] = None]
    /\ UNCHANGED <<cooker, round, processes, sender, history>>

\* ProcessLookupError: the other thread has collected it.
KillFails(t) ==
    /\ at[t] = "kill" /\ proc[victim[t]] \in {"reaped", "closed"}
    /\ Goto(t, "raised")
    /\ pos' = [pos EXCEPT ![t] = 1] /\ victim' = [victim EXCEPT ![t] = None]
    /\ UNCHANGED <<cooker, round, processes, pool>>

TermOne(t) ==
    /\ In(t, "term") /\ Alive(This(t))
    /\ Terminate(This(t)) /\ NextOne(t)
    /\ termed' = IF Queued(This(t)) THEN termed \cup {This(t)} ELSE termed
    /\ UNCHANGED <<cooker, at, victim, round, processes, sender, failed, killed>>

\* Nothing to do for a process that has ended.
PassOver(t) ==
    /\ In(t, "int") \/ In(t, "term")
    /\ proc[This(t)] \in {"dead", "reaped"}
    /\ Poll(This(t)) /\ NextOne(t)
    /\ UNCHANGED <<cooker, at, victim, round, processes, parsers, result_queue, sender, history>>

\* join() without a timeout, and close().
JoinOne(t) ==
    /\ In(t, "join") /\ proc[This(t)] \in {"dead", "reaped"}
    /\ Go(This(t), "closed") /\ NextOne(t)
    /\ UNCHANGED <<cooker, at, victim, round, processes, parsers, result_queue, sender, history>>

Shutdown(t) ==
    \/ Check(t) \/ Enter(t) \/ Event(t) \/ Drain(t) \/ Drained(t) \/ Quit(t)
    \/ Through(t) \/ Raise(t) \/ ToKill(t) \/ Kill(t) \/ KillFails(t)
    \/ TermOne(t) \/ PassOver(t) \/ JoinOne(t)

-----------------------------------------------------------------------------
(* The idle thread: updateCache(), parse_next() and parse_generator().     *)

\* A cooker that was stopped shuts the parser down, if there is one.
UpdateStopped ==
    /\ at["idle"] = "update" /\ state = "stopped"
    /\ Goto("idle", IF made THEN "check" ELSE "ended") /\ reason' = "stop"
    /\ UNCHANGED <<cooker, pos, victim, copy, parsed, empty, processes, pool>>

Update ==
    /\ at["idle"] = "update" /\ state # "stopped"
    /\ Goto("idle", IF made THEN "assign" ELSE "construct")
    /\ UNCHANGED <<cooker, pos, victim, round, processes, pool>>

\* CookerParser(): the processes are started, then it is the cooker's.
Construct ==
    /\ at["idle"] = "construct"
    /\ made' = TRUE
    /\ processes' = [p \in Parser |-> p] /\ proc' = [p \in Parser |-> "loop"]
    /\ Goto("idle", "assign")
    /\ UNCHANGED <<state, haveshutdown, quit, pos, victim, round>>
    /\ UNCHANGED <<parsers, result_queue, sender, history>>

\* The state may have been another one since it was looked at.
Assign ==
    /\ at["idle"] = "assign"
    /\ state' = "parsing" /\ Goto("idle", "while")
    /\ UNCHANGED <<made, haveshutdown, quit, pos, victim, round, processes, pool>>

\* The pool is shut down.
Over(why) == Goto("idle", "check") /\ reason' = why

\* while self.processes or not empty
While ==
    /\ at["idle"] = "while" /\ (processes # <<>> \/ ~empty)
    /\ copy' = processes /\ Goto("idle", "reap")
    /\ UNCHANGED <<cooker, pos, victim, parsed, empty, reason, processes, pool>>

\* Mutant: when all processes have ended, the parsing is complete.
GiveUpComplete ==
    /\ at["idle"] = "while" /\ processes = <<>> /\ empty
    /\ Over("complete")
    /\ UNCHANGED <<cooker, pos, victim, copy, parsed, empty, processes, pool>>

\* "Not all recipes parsed, parser thread killed/died?", unless they are.
GiveUp ==
    /\ at["idle"] = "while" /\ processes = <<>> /\ empty
    /\ Over(IF parsed >= toparse THEN "complete" ELSE "error")
    /\ UNCHANGED <<cooker, pos, victim, copy, parsed, empty, processes, pool>>

Reap ==
    /\ at["idle"] = "reap" /\ copy # <<>> /\ proc[Head(copy)] # "closed"
    /\ copy' = Tail(copy)
    /\ Poll(Head(copy))
    /\ processes' = IF Alive(Head(copy)) THEN processes ELSE RemoveFirst(processes, Head(copy))
    /\ UNCHANGED <<cooker, threads, parsed, empty, reason>>
    /\ UNCHANGED <<parsers, result_queue, sender, history>>

\* The other thread has closed the process: ValueError.
ReapFails ==
    /\ at["idle"] = "reap" /\ copy # <<>> /\ proc[Head(copy)] = "closed"
    /\ Over("error") /\ copy' = <<>>
    /\ UNCHANGED <<cooker, pos, victim, parsed, empty, processes, pool>>

Reaped ==
    /\ at["idle"] = "reap" /\ copy = <<>>
    /\ IF parsed >= toparse THEN Over("complete")
       ELSE Goto("idle", "get") /\ UNCHANGED reason
    /\ UNCHANGED <<cooker, pos, victim, copy, parsed, empty, processes, pool>>

GetResult ==
    /\ at["idle"] = "get" /\ pipe # <<>>
    /\ pipe' = Tail(pipe) /\ empty' = FALSE
    /\ IF Head(pipe) = "ok"
       THEN parsed' = parsed + 1 /\ Goto("idle", "update") /\ UNCHANGED reason
       ELSE Over("error") /\ UNCHANGED parsed
    /\ UNCHANGED <<cooker, pos, victim, copy, processes>>
    /\ UNCHANGED <<proc, parsers, writer, torn, sender, history>>

\* Mutant: that the queue was empty is forgotten.
GetNothing ==
    /\ at["idle"] = "get" /\ NoResult("idle")
    /\ Goto("idle", "update")
    /\ UNCHANGED <<cooker, pos, victim, round, processes, pool>>

GetEmpty ==
    /\ at["idle"] = "get" /\ NoResult("idle")
    /\ empty' = TRUE /\ Goto("idle", "update")
    /\ UNCHANGED <<cooker, pos, victim, copy, parsed, reason, processes, pool>>

Round ==
    \/ UpdateStopped \/ Update \/ Construct \/ Assign \/ While \/ GiveUp
    \/ Reap \/ ReapFails \/ Reaped \/ GetResult \/ GetEmpty

-----------------------------------------------------------------------------
(* The main thread: stateShutdown and stateForceShutdown. When the parsing *)
(* is over, a stop is the run queue's.                                     *)

Ended(t) == at[t] \in {"ended", "raised"}

Stop ==
    /\ MayStop /\ at["main"] = "free" /\ ~Ended("idle")
    /\ state' = "stopped" /\ Goto("main", "look")
    /\ UNCHANGED <<made, haveshutdown, quit, pos, victim, round, processes, pool>>

Look ==
    /\ at["main"] = "look"
    /\ Goto("main", IF made THEN "check" ELSE "ended")
    /\ UNCHANGED <<cooker, pos, victim, round, processes, pool>>

-----------------------------------------------------------------------------
ParserStep(p) ==
    Pop(p) \/ LeaveLoop(p) \/ Send(p) \/ Sent(p) \/ Parsed(p) \/ ParseFails(p) \/ Exit(p)

Next ==
    \/ Round \/ Stop \/ Look
    \/ \E t \in Thread : Shutdown(t)
    \/ \E p \in Parser : ParserStep(p) \/ BeginWrite(p) \/ EndWrite(p) \/ Killed(p)

\* The idle thread and all processes run, and the user interface reads the events.
\* The main thread need not: what a stop leads to is not promised.
Fairness ==
    /\ WF_vars(Round \/ Shutdown("idle"))
    /\ \A p \in Parser : WF_vars(ParserStep(p)) /\ WF_vars(BeginWrite(p) \/ EndWrite(p))

Spec == Init /\ [][Next]_vars /\ Fairness
=============================================================================
