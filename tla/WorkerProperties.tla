-------------------------- MODULE WorkerProperties --------------------------
(***************************************************************************)
(* What the run queue may rely on when it gives tasks to a worker.         *)
(***************************************************************************)
EXTENDS Worker

Stages == {"select", "item", "kill", "wait", "pipes", "waitpid", "flush", "exited"}

States == {"Running", "CleanUp", "OverInPass", "Over", "Teardown", "Gone", "Dead"}

CommandType == [kind : Kinds, task : Tasks \cup {NoTask}, hashes : 0..MaxHashes]

Message == [task : Tasks, event : 0..MaxEvents, code : Codes \cup {None}]

\* Every variable has its type, and the marks in the two streams are in order:
\* what the worker has taken was flushed, what is in a pipe fits into it.
TypeOK ==
    /\ state \in States /\ hashes \in 0..MaxHashes
    /\ sent \subseteq Tasks /\ live \subseteq sent
    /\ sentwith \in [Tasks -> (0..MaxHashes) \cup {None}]
    /\ told \in [Tasks -> 0..MaxEvents] /\ over \in [Tasks -> Codes \cup {None}]
    /\ writing \in Kinds \cup {"none"}
    /\ cmds \in Seq(CommandType)
    /\ flushed \in 0..Len(cmds) /\ taken \in 0..flushed
    /\ flushed - taken <= PipeCommands
    /\ closed \in BOOLEAN
    /\ stage \in Stages /\ kind \in Kinds /\ todo \subseteq Tasks /\ dying \in BOOLEAN
    /\ newhashes \in 0..MaxHashes /\ build_pids \subseteq Tasks
    /\ child \in [Tasks -> {"none", "early", "running", "zombie", "reaped"}]
    /\ runswith \in [Tasks -> (0..MaxHashes) \cup {None}]
    /\ signalled \subseteq Tasks
    /\ fired \in [Tasks -> 0..MaxEvents] /\ exit \in [Tasks -> Codes \cup {None}]
    /\ passed \in [Tasks -> 0..MaxEvents]
    /\ out \in Seq(Message)
    /\ piped \in 0..Len(out) /\ piped <= PipeMessages

J == INSTANCE Jobs

\* Whatever the worker, its thread and the pipes do, the run queue is told of
\* its tasks as Jobs promises: every event before the exit of its task, at most
\* one exit, with the code the process has ended with, even when the worker is
\* killed, a child is collected by the wrong waitpid(), or a command is lost.
ImplementsJobs == J!Spec

\* A process is forked with the unihashes the run queue had when it started the
\* task: the new hashes travel unflushed in the same stream as the tasks, and
\* are handled by a call that comes before the one for tasks.
RunsWithItsHashes ==
    \A t \in Tasks : runswith[t] # None => runswith[t] = sentwith[t]

\* process_waitpid() finds every process it collects in build_pids, also after
\* handle_finishnow() has collected some without taking them out.
ChildrenKnown == ~Exited => Unreaped \subseteq build_pids

\* The exit of a task that has ended reaches the run queue as long as it waits
\* for it, although nothing but the second in select() tells of an exit, and both
\* sides may at times be blocked writing.
EndedIsReported ==
    \A t \in Tasks :
        exit[t] # None ~> (over[t] # None \/ state \notin {"Running", "CleanUp"})

\* A build that is over is torn down, although no task need end by itself: the
\* waitpid() after each signal always has a child to wait for that will end, and
\* the two processes never block on each other's full pipes.
FinishNowEnds == state \in {"OverInPass", "Over", "Teardown"} ~> state \in {"Gone", "Dead"}

\* When the server has gone, so will the worker, unless its thread was still
\* writing to it (see Spinning), and every task it had asked to tell it.
WorkerEnds ==
    /\ state = "Dead" ~> (Exited \/ Spinning)
    /\ \A t \in Tasks :
        (state = "Dead" /\ child[t] = "running" /\ ~Exited)
            ~> (Spinning \/ child[t] # "running")

\* lib/bb/runqueue.py:3163 calls it an unexpected exit when a worker has ended
\* and is not being torn down.
ExitsOnlyWhenTold == Exited => state \in {"Teardown", "Gone", "Dead"}
=============================================================================
