------------------------- MODULE RunQueueProperties -------------------------
(***************************************************************************)
(* What a build may rely on, whatever the order in which workers finish,   *)
(* fail and report hashes: properties of RunQueue.                         *)
(***************************************************************************)
EXTENDS RunQueue

SceneQueueStates ==
    [buildable : SUBSET Setscene, running : SUBSET Setscene,
     covered : SUBSET Setscene, notcovered : SUBSET Setscene,
     notneeded : SUBSET Setscene, done : SUBSET Tasks,
     deferred : [Setscene -> Setscene \cup {None}],
     outrightfail : SUBSET Setscene, stamps : [Setscene -> Nat],
     holdoff_need_update : BOOLEAN]

TypeOK ==
    /\ pc \in {"top", "read", "migrate", "setscene", "holdoff", "next", "tail", "wait"}
    /\ state \in {"Running", "CleanUp", "Failed", "Complete"}
    /\ stopped \in BOOLEAN
    /\ runq_buildable \subseteq Tasks /\ runq_running \subseteq Tasks
    /\ runq_complete \subseteq Tasks /\ runq_tasksrun \subseteq Tasks
    /\ failed_tids \subseteq Tasks
    /\ active \in -MaxRefusals..NumberTasks
    /\ build_stamps \in [Tasks -> Nat \cup {None}]
    /\ runq_live \subseteq Tasks /\ sq_live \subseteq Setscene
    /\ sq \in SceneQueueStates /\ sqdone \in BOOLEAN
    /\ tasks_covered \subseteq Tasks /\ tasks_notcovered \subseteq Tasks
    /\ holdoff_tasks \subseteq Tasks
    /\ unihash \in [Tasks -> Nat]
    /\ updated_taskhash_queue \subseteq Tasks \X Nat
    /\ pending_migrations \subseteq Setscene
    /\ disk.task \in [Names -> Nat \cup {None}]
    /\ disk.setscene \in [Names -> Nat \cup {None}]
    /\ disk.fresh \subseteq Names

-----------------------------------------------------------------------------
\* A task is started, skipped or found buildable only after everything it
\* depends on is complete, whether it became buildable through
\* task_completeoutright(), update_holdofftasks() or the setscene code.
DependenciesFirst ==
    \A t \in runq_buildable \cup runq_running : Depends[t] \subseteq runq_complete

\* stats.active counts the jobs of the run queue (task_skip() lets it go up
\* and down at once), so that the limit and the end of the build, which both
\* rely on it, are right.
ActiveCountsJobs == active = Cardinality(runq_live)

\* The output of a task exists: it was run, or its stamp was current, or its
\* setscene variant has put it in place.
HasOutput(t) ==
    \/ t \in runq_tasksrun
    \/ t \in Setscene /\ t \in sq.covered \ sq.notneeded

\* A task that really runs finds the output of everything it depends on: no
\* dependency was skipped as covered or not needed while this task is run.
InputsPresent ==
    [][\A t \in Tasks : StartTask(t) => \A d \in Depends[t] : HasOutput(d)]_vars

\* "If covered tasks are running, need to wait for them to complete": a
\* setscene task is not put in place while a task it covers, or the task
\* itself, is being run.
SetsceneExclusive ==
    \A s \in sq_live : (SqCovers[s] \cup {s}) \cap runq_live = {}

\* Twins are the tasks of several multiconfigs that make one stamp. As long as
\* they have the hash of the start of the build, plain twins have no jobs at the
\* same time: the scheduler passes over a task whose stamp is being made.
Twins(s, t) == s # t /\ Name[s] = Name[t]

SameFirstStamp(s, t) == build_stamps[s] = InitialUnihash /\ build_stamps[t] = InitialUnihash

NoDuplicateTasks ==
    \A s, t \in runq_live : Twins(s, t) => ~SameFirstStamp(s, t)

\* A setscene task that is, or may be, put in place under its first hash although
\* the first of its twins, which it is deferred after, is not complete.
OutOfTurn(s) ==
    /\ s # FirstOfName(s) /\ FirstOfName(s) \notin runq_complete
    /\ sq.deferred[s] = None
    /\ s \notin sq.covered \cup sq.notcovered
    /\ (IF s \in sq_live THEN build_stamps[s] ELSE unihash[s]) = InitialUnihash

\* "Cache of stamp files so duplicates can't run in parallel", and "We shouldn't
\* allow all to run at once as it is prone to races" of the tasks deferred: plain
\* twins never run together, the first of setscene twins runs beside another only
\* when that one is out of turn, and nothing gets a setscene task out of turn, no
\* release, migration or return to an old hash, but the idle loop that gives its
\* deferral up ("Runqueue deadlocked on deferred tasks").
NoDuplicateJobs ==
    /\ [](/\ NoDuplicateTasks
          /\ \A s, t \in sq_live :
               Twins(s, t) /\ SameFirstStamp(s, t) /\ s = FirstOfName(s) => OutOfTurn(t))
    /\ [][\A s \in Setscene :
            OutOfTurn(s)' /\ ~OutOfTurn(s) => TailForceDeferred(s)]_vars

\* "While the target that failed and anything depending on it cannot be built,
\* as much as possible will be built before stopping" (-k).
KeepsGoing ==
    Ended /\ ~Halt /\ ~stopped =>
        Tasks \ Closure(Tasks, failed_tids, LAMBDA t : Rev[t]) \subseteq runq_complete

\* A build whose tasks have all been done before starts no job at all, of
\* either queue.
UpToDateRunsNothing ==
    disk.fresh = {} /\ (\A t \in Tasks : disk.task[Name[t]] = unihash[t]) => Live = {}

\* A build ends only when the workers have reported the end of every job, and
\* fails only because a task did: the sanity checks ("was never marked as ...",
\* "never ran!") never fire.
EndsCleanly ==
    /\ Ended /\ ~stopped => Live = {}
    /\ state = "Failed" => failed_tids # {}

\* No build halts because a task it skipped turns out to be needed ("marked
\* as completed but now needing to rerun? Halting build.").
NoLateRerun == \A t \in failed_tids : t \in MayFail \/ SetsceneEnforce

\* Stopping a build starts nothing more, not even for the tasks that were
\* about to become buildable, and after finish_now() no task is started.
StopStartsNothing ==
    [][stopped => Live' \subseteq Live]_vars

\* RunQueue implements Build: the queues, the hold-offs and the migrations
\* never start a task twice, too early, or on a thread that is taken.
B == INSTANCE Build WITH started <- runq_running, running <- runq_live,
                         done <- runq_complete, failed <- failed_tids,
                         staging <- sq_live

ImplementsBuild == B!Spec

\* Every build ends.
Terminates == <>Ended

=============================================================================
