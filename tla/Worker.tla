------------------------------- MODULE Worker -------------------------------
(***************************************************************************)
(* One bitbake-worker and the run queue that drives it.                    *)
(*                                                                         *)
(* The run queue writes commands to the worker's stdin and reads events    *)
(* and exit codes from its stdout. The worker's main loop, serve(), takes  *)
(* the commands it finds, forks a process for every task, copies what the  *)
(* processes write to their pipes, and collects their exits; a thread of   *)
(* the worker writes the messages to stdout. Both pipes are bounded, so    *)
(* either side can block on the other.                                     *)
(*                                                                         *)
(* cmds is the command stream from the run queue to the worker: the first  *)
(* taken commands are in the worker's own queue, the ones up to flushed in *)
(* the pipe, the rest still in the run queue's buffer. out is the message  *)
(* stream back: the first piped messages are in the pipe, the rest in      *)
(* worker_queue.                                                           *)
(*                                                                         *)
(* stage is where serve() is:                                              *)
(*   select   waiting for its input, its children's pipes or a second      *)
(*   item     in handle_item() for the kind of command in kind             *)
(*   kill     handle_finishnow(), with the children still to be signalled  *)
(*   wait     its waitpid(-1) after a signal that was delivered            *)
(*   pipes    reading the pipes of the children                            *)
(*   waitpid  process_waitpid()                                            *)
(*   flush    leaving: waiting for the thread to write what is left        *)
(*   exited   the process is gone                                          *)
(***************************************************************************)
EXTENDS Integers, Sequences

CONSTANTS
    Tasks,          \* the tasks of this worker
    NoTask,         \* what a command without a task has for one
    MaxEvents,      \* bound: events one task fires
    MaxHashes,      \* bound: how often unihashes change
    PipeCommands,   \* capacity of the worker's stdin, in commands
    PipeMessages,   \* capacity of its stdout, in messages
    PipeEvents,     \* capacity of the pipe of a task, in events
    MayDie,         \* the worker may be killed
    OthersMayDie,   \* another worker of the build may be found dead
    CookerMayDie    \* the run queue's process may be killed

ASSUME CapacityAssumption ==
    /\ PipeCommands \in Nat \ {0}
    /\ PipeMessages \in Nat \ {0}
    /\ PipeEvents \in Nat \ {0}

ASSUME TaskAssumption == NoTask \notin Tasks

ASSUME BoundAssumption ==
    /\ MaxEvents \in Nat
    /\ MaxHashes \in Nat
    /\ {MayDie, OthersMayDie, CookerMayDie} \subseteq BOOLEAN

None == -1
Killed == 128 + 15          \* 128 + SIGTERM
Codes == {0, 1, Killed}

VARIABLES
    state,      \* rq.state, and how far the teardown of the worker is
    hashes,     \* how often the run queue has changed unihashes
    sent,       \* tasks given to the worker,
    sentwith,   \* and the hashes they were given with
    live,       \* those whose exit has not been read
    told, over, \* events and exit code read of each task
    writing,    \* what the run queue is blocked writing
    cmds, taken, flushed, closed,
    stage, kind, todo, dying,
    newhashes,  \* workerdata["newhashes"]
    build_pids,
    child,      \* the process of each task
    runswith,   \* the hashes it was forked with
    signalled,  \* the processes that got a SIGTERM
    fired, exit,
    passed,     \* events of each task the worker has taken from its pipe
    out, piped

queue    == <<state, hashes, sent, sentwith, live, told, over, writing>>
commands == <<cmds, taken, flushed, closed>>
loop     == <<stage, kind, todo, dying, newhashes, build_pids, passed>>
children == <<child, runswith, signalled, fired, exit>>
messages == <<out, piped>>
vars     == <<queue, commands, loop, children, messages>>

Kinds == {"config", "newtaskhashes", "runtask", "finishnow", "quit"}

\* The order of the handle_item() calls in serve().
Rank == [config |-> 1, newtaskhashes |-> 2, runtask |-> 3, finishnow |-> 4, quit |-> 5]

Command(k, t) == [kind |-> k, task |-> t, hashes |-> hashes]

Event(t, n) == [task |-> t, event |-> n, code |-> None]
Exitcode(t) == [task |-> t, event |-> 0, code |-> exit[t]]

Init ==
    /\ state = "Running" /\ hashes = 0
    /\ sent = {} /\ live = {} /\ sentwith = [t \in Tasks |-> None]
    /\ told = [t \in Tasks |-> 0] /\ over = [t \in Tasks |-> None]
    /\ writing = "config"
    /\ cmds = <<[kind |-> "config", task |-> NoTask, hashes |-> 0]>>
    /\ taken = 0 /\ flushed = 0 /\ closed = FALSE
    /\ stage = "select" /\ kind = "config" /\ todo = {} /\ dying = FALSE
    /\ newhashes = 0 /\ build_pids = {}
    /\ child = [t \in Tasks |-> "none"] /\ runswith = [t \in Tasks |-> None]
    /\ signalled = {}
    /\ fired = [t \in Tasks |-> 0] /\ exit = [t \in Tasks |-> None]
    /\ passed = [t \in Tasks |-> 0]
    /\ out = <<>> /\ piped = 0

-----------------------------------------------------------------------------
(* The run queue.                                                          *)

Exited == stage = "exited"

\* Neither blocked in a write nor dead.
Free == writing = "none" /\ state \notin {"Gone", "Dead"}

\* A command goes into the buffer of the stream, and is flushed.
Write(k, t) ==
    /\ cmds' = Append(cmds, Command(k, t))
    /\ writing' = k
    /\ UNCHANGED <<taken, flushed, closed>>

\* One more command fits into the pipe. teardown closes stdin after <quit>.
WriteOne ==
    /\ writing # "none" /\ ~Exited
    /\ flushed - taken < PipeCommands
    /\ flushed' = flushed + 1
    /\ writing' = IF flushed' = Len(cmds) THEN "none" ELSE writing
    /\ closed' = (closed \/ (writing = "quit" /\ flushed' = Len(cmds)))
    /\ UNCHANGED <<state, hashes, sent, sentwith, live, told, over, cmds, taken>>
    /\ UNCHANGED <<loop, children, messages>>

\* The worker has gone: a broken pipe. finish_now() and _teardown_worker()
\* ignore it; anywhere else execute_runqueue() tears the workers down.
WriteFails ==
    /\ writing # "none" /\ Exited
    /\ writing' = "none"
    /\ state' = IF writing \in {"finishnow", "quit"} THEN state ELSE "Teardown"
    /\ live' = IF writing = "runtask" THEN live \ {cmds[Len(cmds)].task} ELSE live
    /\ UNCHANGED <<hashes, sent, sentwith, told, over>>
    /\ UNCHANGED <<commands, loop, children, messages>>

\* execute() starts a task. The pass in which a dead worker was noticed goes
\* on after finish_now() and may still start one.
StartTask(t) ==
    /\ Free /\ state \in {"Running", "OverInPass"}
    /\ t \notin sent
    /\ Write("runtask", t)
    /\ sent' = sent \cup {t} /\ live' = live \cup {t}
    /\ sentwith' = [sentwith EXCEPT ![t] = hashes]
    /\ state' = IF state = "Running" THEN state ELSE "Over"
    /\ UNCHANGED <<hashes, told, over, loop, children, messages>>

\* Mutant: the hashes are written before they are brought up to date.
NewHashesEarly ==
    /\ Free /\ state = "Running" /\ hashes < MaxHashes
    /\ hashes' = hashes + 1
    /\ cmds' = Append(cmds, Command("newtaskhashes", NoTask))
    /\ writing' \in {"none", "newtaskhashes"}
    /\ UNCHANGED <<state, sent, sentwith, live, told, over, taken, flushed, closed>>
    /\ UNCHANGED <<loop, children, messages>>

\* process_possible_migrations() writes the new hashes without a flush; what
\* does not fit the buffer is written at once.
NewHashes ==
    /\ Free /\ state = "Running" /\ hashes < MaxHashes
    /\ hashes' = hashes + 1
    /\ cmds' = Append(cmds, [kind |-> "newtaskhashes", task |-> NoTask, hashes |-> hashes'])
    /\ writing' \in {"none", "newtaskhashes"}
    /\ UNCHANGED <<state, sent, sentwith, live, told, over, taken, flushed, closed>>
    /\ UNCHANGED <<loop, children, messages>>

\* runQueuePipe.read(), one message.
Read ==
    /\ Free /\ piped > 0
    /\ LET m == Head(out) IN
        IF m.code = None
        THEN /\ told' = [told EXCEPT ![m.task] = m.event]
             /\ UNCHANGED <<live, over>>
        ELSE /\ over' = [over EXCEPT ![m.task] = m.code]
             /\ live' = live \ {m.task}
             /\ UNCHANGED told
    /\ out' = Tail(out) /\ piped' = piped - 1
    /\ UNCHANGED <<state, hashes, sent, sentwith, writing, commands, loop, children>>

\* finish(): a task failed, or the build is stopped; then wait for the rest.
Finish ==
    /\ Free /\ state = "Running"
    /\ state' = "CleanUp"
    /\ UNCHANGED <<hashes, sent, sentwith, live, told, over, writing>>
    /\ UNCHANGED <<commands, loop, children, messages>>

\* Nothing is left to run, or to wait for.
Complete ==
    /\ Free /\ state \in {"Running", "CleanUp"} /\ live = {}
    /\ state' = "Over"
    /\ UNCHANGED <<hashes, sent, sentwith, live, told, over, writing>>
    /\ UNCHANGED <<commands, loop, children, messages>>

\* finish_now(), between two passes of execute().
FinishNow ==
    /\ Free /\ state \in {"Running", "CleanUp"}
    /\ Write("finishnow", NoTask)
    /\ state' = "Over"
    /\ UNCHANGED <<hashes, sent, sentwith, live, told, over, loop, children, messages>>

\* read() finds that a worker, this one or another one, is gone, and calls
\* finish_now() in the middle of a pass.
NoticeDeath ==
    /\ Free /\ state \in {"Running", "CleanUp"}
    /\ Exited \/ OthersMayDie
    /\ Write("finishnow", NoTask)
    /\ state' = IF state = "Running" THEN "OverInPass" ELSE "Over"
    /\ UNCHANGED <<hashes, sent, sentwith, live, told, over, loop, children, messages>>

\* The read at the end of that pass finds the same.
NoticeAgain ==
    /\ Free /\ state = "OverInPass"
    /\ Write("finishnow", NoTask)
    /\ state' = "Over"
    /\ UNCHANGED <<hashes, sent, sentwith, live, told, over, loop, children, messages>>

\* _teardown_worker(): tell the worker to quit, then read until it has.
Teardown ==
    /\ Free /\ state \in {"Over", "OverInPass"}
    /\ Write("quit", NoTask)
    /\ state' = "Teardown"
    /\ UNCHANGED <<hashes, sent, sentwith, live, told, over, loop, children, messages>>

TornDown ==
    /\ Free /\ state = "Teardown" /\ Exited /\ piped = 0
    /\ state' = "Gone"
    /\ UNCHANGED <<hashes, sent, sentwith, live, told, over, writing>>
    /\ UNCHANGED <<commands, loop, children, messages>>

\* The process of the run queue dies, and with it its ends of the pipes.
CookerDies ==
    /\ CookerMayDie /\ state \notin {"Gone", "Dead"}
    /\ state' = "Dead" /\ writing' = "none" /\ closed' = TRUE
    /\ cmds' = SubSeq(cmds, 1, flushed)
    /\ UNCHANGED <<hashes, sent, sentwith, live, told, over, taken, flushed>>
    /\ UNCHANGED <<loop, children, messages>>

-----------------------------------------------------------------------------
(* The worker's main loop.                                                 *)

Unreaped == {t \in Tasks : child[t] \in {"early", "running", "zombie"}}
Zombies == {t \in Tasks : child[t] = "zombie"}
Unread(t) == fired[t] > passed[t]

\* What handle_item() goes on with: the command at the head of the queue,
\* unless the calls for its kind are behind.
GoOn(n, from) ==
    IF n > taken \/ Rank[cmds[n].kind] < from
    THEN stage' = "pipes" /\ UNCHANGED kind
    ELSE stage' = "item" /\ kind' = cmds[n].kind

\* Commands have come in.
TakeCommands ==
    /\ stage = "select" /\ flushed > taken
    /\ taken' = flushed
    /\ stage' = "item" /\ kind' = cmds[1].kind
    /\ UNCHANGED <<queue, cmds, flushed, closed, todo, dying, newhashes, build_pids, passed>>
    /\ UNCHANGED <<children, messages>>

\* Mutant: without the second, only input and the children's pipes are waited for.
WakeUpForPipes ==
    /\ stage = "select" /\ flushed = taken /\ ~closed
    /\ taken > 0 \/ \E t \in build_pids : Unread(t)
    /\ GoOn(1, 1)
    /\ UNCHANGED <<queue, commands, todo, dying, newhashes, build_pids, passed>>
    /\ UNCHANGED <<children, messages>>

\* A pipe of a child is ready, or the second is over.
WakeUp ==
    /\ stage = "select" /\ flushed = taken /\ ~closed
    /\ taken > 0 \/ Zombies \cap build_pids # {} \/ \E t \in build_pids : Unread(t)
    /\ GoOn(1, 1)
    /\ UNCHANGED <<queue, commands, todo, dying, newhashes, build_pids, passed>>
    /\ UNCHANGED <<children, messages>>

\* End of file: the server has gone, or has closed the pipe after <quit>.
EndOfFile ==
    /\ stage = "select" /\ flushed = taken /\ closed
    /\ stage' = "kill" /\ todo' = build_pids /\ dying' = TRUE
    /\ UNCHANGED <<queue, commands, kind, newhashes, build_pids, passed>>
    /\ UNCHANGED <<children, messages>>

\* Where the closing tags of this kind are in the worker's queue.
Closing == {n \in 1..taken : cmds[n].kind = kind}

\* The commands up to the n-th are taken off the queue.
Drop(n) ==
    /\ cmds' = SubSeq(cmds, n + 1, Len(cmds))
    /\ taken' = taken - n /\ flushed' = flushed - n
    /\ UNCHANGED closed

\* handle_item() has handled the commands of this kind.
ItemDone ==
    /\ stage = "item" /\ Closing = {}
    /\ GoOn(1, Rank[kind])
    /\ UNCHANGED <<queue, commands, todo, dying, newhashes, build_pids, passed>>
    /\ UNCHANGED <<children, messages>>

\* The next command, when it is of this kind.
First(k) == stage = "item" /\ kind = k /\ taken > 0 /\ cmds[1].kind = k

HandleConfig ==
    /\ First("config") /\ Drop(1)
    /\ UNCHANGED <<queue, loop, children, messages>>

HandleNewTaskHashes ==
    /\ First("newtaskhashes") /\ Drop(1)
    /\ newhashes' = cmds[1].hashes
    /\ UNCHANGED <<queue, stage, kind, todo, dying, build_pids, passed, children, messages>>

\* fork_off_task(). The process has yet to leave the worker's process group.
HandleRunTask ==
    /\ First("runtask") /\ Drop(1)
    /\ LET t == cmds[1].task IN
        /\ child' = [child EXCEPT ![t] = "early"]
        /\ runswith' = [runswith EXCEPT ![t] = newhashes]
        /\ build_pids' = build_pids \cup {t}
    /\ UNCHANGED <<queue, stage, kind, todo, dying, newhashes, passed>>
    /\ UNCHANGED <<signalled, fired, exit, messages>>

\* Once one command of a kind was handled, the closing tag of the next one is
\* looked for wherever it is: with another command in between, both are taken
\* for one, and cannot be unpickled.
Misread ==
    /\ stage = "item" /\ kind \in {"newtaskhashes", "runtask"}
    /\ Closing # {} /\ 1 \notin Closing
    /\ stage' = "flush"
    /\ UNCHANGED <<queue, commands, kind, todo, dying, newhashes, build_pids, passed>>
    /\ UNCHANGED <<children, messages>>

\* <finishnow> has no data, so what is in between is dropped with it.
HandleFinishNow ==
    /\ stage = "item" /\ kind = "finishnow"
    /\ \E n \in Closing : (\A m \in Closing : n <= m) /\ Drop(n)
    /\ stage' = "kill" /\ todo' = build_pids
    /\ UNCHANGED <<queue, kind, dying, newhashes, build_pids, passed, children, messages>>

HandleQuit ==
    /\ First("quit") /\ Drop(1)
    /\ stage' = "flush"
    /\ UNCHANGED <<queue, kind, todo, dying, newhashes, build_pids, passed>>
    /\ UNCHANGED <<children, messages>>

\* Mutant: a process that was signalled is forgotten.
KillForgets(t) ==
    /\ stage = "kill" /\ t \in todo
    /\ todo' = todo \ {t} /\ build_pids' = build_pids \ {t}
    /\ IF child[t] \in {"running", "zombie"}
       THEN signalled' = signalled \cup {t} /\ stage' = "wait"
       ELSE UNCHANGED <<signalled, stage>>
    /\ UNCHANGED <<queue, commands, kind, dying, newhashes, passed>>
    /\ UNCHANGED <<child, runswith, fired, exit, messages>>

\* Mutant: a process that could not be signalled is waited for as well.
KillWaits(t) ==
    /\ stage = "kill" /\ t \in todo
    /\ todo' = todo \ {t} /\ stage' = "wait"
    /\ signalled' = IF child[t] \in {"running", "zombie"} THEN signalled \cup {t} ELSE signalled
    /\ UNCHANGED <<queue, commands, kind, dying, newhashes, build_pids, passed>>
    /\ UNCHANGED <<child, runswith, fired, exit, messages>>

\* os.kill(-pid, SIGTERM): the process group is there from the setsid() of the
\* process until the process is collected. If it is not, the error is ignored.
Kill(t) ==
    /\ stage = "kill" /\ t \in todo
    /\ todo' = todo \ {t}
    /\ IF child[t] \in {"running", "zombie"}
       THEN signalled' = signalled \cup {t} /\ stage' = "wait"
       ELSE UNCHANGED <<signalled, stage>>
    /\ UNCHANGED <<queue, commands, kind, dying, newhashes, build_pids, passed>>
    /\ UNCHANGED <<child, runswith, fired, exit, messages>>

\* os.waitpid(-1, 0): whichever child has ended, or ends first.
WaitAny(t) ==
    /\ stage = "wait" /\ t \in Zombies
    /\ child' = [child EXCEPT ![t] = "reaped"]
    /\ stage' = "kill"
    /\ UNCHANGED <<queue, commands, kind, todo, dying, newhashes, build_pids, passed>>
    /\ UNCHANGED <<runswith, signalled, fired, exit, messages>>

\* The events of a task that wait in its pipe.
Waiting(t) == [n \in 1..(fired[t] - passed[t]) |-> Event(t, passed[t] + n)]

\* runQueueWorkerPipe.read(), in the loop and at the end of handle_finishnow().
ReadPipe(t) ==
    /\ stage = "pipes" \/ (stage = "kill" /\ todo = {})
    /\ t \in build_pids /\ Unread(t)
    /\ out' = out \o Waiting(t)
    /\ passed' = [passed EXCEPT ![t] = fired[t]]
    /\ UNCHANGED <<queue, commands, stage, kind, todo, dying, newhashes, build_pids>>
    /\ UNCHANGED <<children, piped>>

PipesRead == \A t \in build_pids : ~Unread(t)

PipesDone ==
    /\ stage = "pipes" /\ PipesRead
    /\ stage' = "waitpid"
    /\ UNCHANGED <<queue, commands, kind, todo, dying, newhashes, build_pids, passed>>
    /\ UNCHANGED <<children, messages>>

\* Mutant: the exit is sent first, what is left in the pipe is read later.
CollectAtOnce(t) ==
    /\ stage = "waitpid" /\ t \in Zombies
    /\ child' = [child EXCEPT ![t] = "reaped"]
    /\ build_pids' = build_pids \ {t}
    /\ out' = Append(out, Exitcode(t)) \o Waiting(t)
    /\ passed' = [passed EXCEPT ![t] = fired[t]]
    /\ UNCHANGED <<queue, commands, stage, kind, todo, dying, newhashes>>
    /\ UNCHANGED <<runswith, signalled, fired, exit, piped>>

\* process_waitpid(): the pipe is read to its end before the exit is sent.
Collect(t) ==
    /\ stage = "waitpid" /\ t \in Zombies
    /\ child' = [child EXCEPT ![t] = "reaped"]
    /\ build_pids' = build_pids \ {t}
    /\ out' = Append(out \o Waiting(t), Exitcode(t))
    /\ passed' = [passed EXCEPT ![t] = fired[t]]
    /\ UNCHANGED <<queue, commands, stage, kind, todo, dying, newhashes>>
    /\ UNCHANGED <<runswith, signalled, fired, exit, piped>>

CollectDone ==
    /\ stage = "waitpid" /\ Zombies = {}
    /\ stage' = "select"
    /\ UNCHANGED <<queue, commands, kind, todo, dying, newhashes, build_pids, passed>>
    /\ UNCHANGED <<children, messages>>

\* Mutant: the children are not told.
ExitAlone ==
    /\ stage' = "exited"
    /\ out' = SubSeq(out, 1, piped)
    /\ UNCHANGED <<queue, commands, kind, todo, dying, newhashes, build_pids, passed>>
    /\ UNCHANGED <<children, piped>>

\* The process ends: its thread with it, and what the thread has not written.
\* Children that have asked for it get a SIGTERM.
Exit ==
    /\ stage' = "exited"
    /\ out' = SubSeq(out, 1, piped)
    /\ signalled' = signalled \cup {t \in Tasks : child[t] = "running"}
    /\ UNCHANGED <<queue, commands, kind, todo, dying, newhashes, build_pids, passed>>
    /\ UNCHANGED <<child, runswith, fired, exit, piped>>

KillDone ==
    /\ stage = "kill" /\ todo = {} /\ PipesRead /\ ~dying
    /\ stage' = "item"
    /\ UNCHANGED <<queue, commands, kind, todo, dying, newhashes, build_pids, passed>>
    /\ UNCHANGED <<children, messages>>

\* The end of sigterm_exception(): the worker kills itself.
KillSelf == stage = "kill" /\ todo = {} /\ PipesRead /\ dying /\ Exit

\* worker_thread.join() returns when the thread has written everything.
Leave == stage = "flush" /\ piped = Len(out) /\ Exit

WorkerKilled == MayDie /\ ~Exited /\ Exit

\* The thread: one message fits into the pipe.
Flush ==
    /\ ~Exited /\ state # "Dead"
    /\ piped < Len(out) /\ piped < PipeMessages
    /\ piped' = piped + 1
    /\ UNCHANGED <<queue, commands, loop, children, out>>

-----------------------------------------------------------------------------
(* The processes of the tasks.                                             *)

\* prctl(PR_SET_PDEATHSIG) and setsid().
Ready(t) ==
    /\ child[t] = "early"
    /\ child' = [child EXCEPT ![t] = "running"]
    /\ UNCHANGED <<queue, commands, loop, runswith, signalled, fired, exit, messages>>

\* worker_child_fire(): the event is in the pipe when it returns.
Fire(t) ==
    /\ child[t] = "running" /\ ~Exited
    /\ fired[t] < MaxEvents /\ fired[t] - passed[t] < PipeEvents
    /\ fired' = [fired EXCEPT ![t] = @ + 1]
    /\ UNCHANGED <<queue, commands, loop, child, runswith, signalled, exit, messages>>

Ends(t, code) ==
    /\ child[t] = "running"
    /\ child' = [child EXCEPT ![t] = "zombie"]
    /\ exit' = [exit EXCEPT ![t] = code]
    /\ UNCHANGED <<queue, commands, loop, runswith, signalled, fired, messages>>

EndsByItself(t) == \E code \in {0, 1} : Ends(t, code)

\* sigterm_handler() of the child.
EndsBySignal(t) == t \in signalled /\ Ends(t, Killed)

-----------------------------------------------------------------------------
\* The thread goes on writing to a pipe nobody reads, for ever.
Spinning == stage = "flush" /\ state = "Dead" /\ piped < Len(out)

Terminated ==
    /\ state \in {"Gone", "Dead"} /\ (Exited \/ Spinning)
    /\ \A t \in Tasks : child[t] \notin {"early", "running"}
    /\ UNCHANGED vars

QueueStep ==
    \/ WriteOne \/ WriteFails
    \/ \E t \in Tasks : StartTask(t)
    \/ NewHashes \/ Read \/ Finish \/ Complete \/ FinishNow
    \/ NoticeDeath \/ NoticeAgain \/ Teardown \/ TornDown

ItemStep ==
    \/ ItemDone \/ HandleConfig \/ HandleNewTaskHashes \/ HandleRunTask
    \/ Misread \/ HandleFinishNow \/ HandleQuit

WorkerStep ==
    \/ TakeCommands \/ WakeUp \/ EndOfFile \/ ItemStep
    \/ \E t \in Tasks : Kill(t) \/ WaitAny(t) \/ ReadPipe(t) \/ Collect(t)
    \/ PipesDone \/ CollectDone \/ KillDone \/ KillSelf \/ Leave

ChildStep ==
    \E t \in Tasks : Ready(t) \/ Fire(t) \/ EndsByItself(t) \/ EndsBySignal(t)

Next ==
    \/ QueueStep \/ CookerDies
    \/ WorkerStep \/ WorkerKilled \/ Flush
    \/ ChildStep
    \/ Terminated

\* What goes on by itself: the run queue reads, writes and tears down what is
\* over, the worker and its thread run, and a child gets ready and obeys a
\* signal. That a task ends by itself is not assumed.
Fairness ==
    /\ WF_vars(WriteOne \/ WriteFails) /\ WF_vars(Read)
    /\ WF_vars(Teardown) /\ WF_vars(TornDown)
    /\ WF_vars(Exited /\ NoticeDeath)
    /\ WF_vars(WorkerStep) /\ WF_vars(Flush)
    /\ \A t \in Tasks : WF_vars(Ready(t)) /\ WF_vars(EndsBySignal(t))

Spec == Init /\ [][Next]_vars

FairSpec == Spec /\ Fairness
=============================================================================
