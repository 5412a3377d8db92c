------------------------------ MODULE RunQueue ------------------------------
(***************************************************************************)
(* RunQueueExecute of lib/bb/runqueue.py: one build, from the moment the   *)
(* queues are set up until the run queue is complete or has failed.        *)
(*                                                                         *)
(* The cooker's idle loop calls execute_runqueue() again and again. A call *)
(* is a pass through the stages below, in this order; pc is the stage the  *)
(* pass is in, and "top" is between two calls.                             *)
(*   read      read_workers() at the start of execute()                    *)
(*   migrate   process_possible_migrations(), when there is something      *)
(*   setscene  choose and start one setscene task                          *)
(*   holdoff   update_holdofftasks(), and the end of the setscene queue    *)
(*   next      choose and start one task                                   *)
(*   tail      nothing was started: wait for workers, or finish            *)
(*   wait      the final read_workers()                                    *)
(* Workers act at any time but the run queue only learns of it when it     *)
(* reads their pipe, so their messages are actions of the reading stages.  *)
(***************************************************************************)
EXTENDS SceneQueue

CONSTANTS
    NumberTasks,        \* BB_NUMBER_THREADS
    Halt,               \* not -k
    ForceTargets,              \* -f
    SetsceneOnly,       \* --setscene-only
    SkipSetscene,       \* --skip-setscene
    SetsceneEnforce,    \* BB_SETSCENE_ENFORCE
    SetsceneIgnore,     \* tasks matched by BB_SETSCENE_ENFORCE_IGNORE_TASKS
    NotRequired,        \* tasks BB_SETSCENE_DEPVALID lets the build do without
    InitialTaskStamps,  \* what earlier builds may have left: stamps by name,
    InitialSetsceneStamps, \* stamps of setscene variants,
    InitialSstate,      \* and sets of cached outputs
    NewUnihashes,       \* unihashes the hash equivalence server may report
    MayFail,            \* tasks whose worker may report a failure
    MayStop,            \* how a build may be stopped from outside
    MaxRefusals         \* bound: how often a task that never ran is counted down

ASSUME NumberTasksAssumption == NumberTasks \in Nat \ {0}

ASSUME OptionsAssumption ==
    /\ {Halt, ForceTargets, SetsceneOnly, SkipSetscene, SetsceneEnforce} \subseteq BOOLEAN
    /\ NewUnihashes \subseteq Nat
    /\ InitialTaskStamps \subseteq [Names -> Nat \cup {None}]
    /\ InitialSetsceneStamps \subseteq [Names -> Nat \cup {None}]
    /\ MaxRefusals \in Nat
    /\ MayStop \subseteq {"shutdown", "forceshutdown"}

VARIABLES
    pc,
    state,                      \* rq.state
    stopped,                    \* the build was stopped from outside
    runq_buildable, runq_running, runq_complete, runq_tasksrun,
    failed_tids,
    active,                     \* stats.active
    runq_live,                  \* tasks given to the workers whose exit has not
                                \* been read (active is the code's count of it)
    sq_live,                    \* the same of setscene tasks
    build_stamps,               \* hash of the stamp each live job will make
    sq, sqdone,
    tasks_covered, tasks_notcovered, holdoff_tasks,
    unihash, updated_taskhash_queue, pending_migrations,
    disk

control  == <<pc, state, stopped>>
runq     == <<runq_buildable, runq_running, runq_complete, runq_tasksrun,
              failed_tids, active>>
jobs     == <<runq_live, sq_live, build_stamps>>
scene    == <<sq, sqdone>>
cover    == <<tasks_covered, tasks_notcovered, holdoff_tasks>>
hashes   == <<unihash, updated_taskhash_queue, pending_migrations>>

vars == <<control, runq, jobs, scene, cover, hashes, disk>>

InitialUnihash == 0

Live == runq_live \cup sq_live

\* Mutant: the limit itself is taken for a free thread.
StartAtLimit(nactive, live) == nactive + Cardinality(live) <= NumberTasks

can_start_task(nactive, live) == nactive + Cardinality(live) < NumberTasks

\* A task of the same name is being run with this hash in its stamp.
StampInUse(t, hash) ==
    \E r \in runq_live : Name[r] = Name[t] /\ build_stamps[r] = hash

Init ==
    /\ pc = "top" /\ state = "Running" /\ stopped = FALSE
    /\ \E tasks \in InitialTaskStamps, setscene \in InitialSetsceneStamps,
          sstate \in InitialSstate :
         disk = [task |-> tasks, setscene |-> setscene, fresh |-> {}, sstate |-> sstate]
    /\ unihash = [t \in Tasks |-> InitialUnihash]
    /\ updated_taskhash_queue = {} /\ pending_migrations = {}
    /\ sq = InitialSceneQueue(disk, unihash)
    /\ sqdone = (Setscene = {})
    /\ runq_buildable = {t \in Unskip \ Setscene : Depends[t] = {}}
    /\ runq_running = {} /\ runq_complete = {} /\ runq_tasksrun = {}
    /\ failed_tids = {} /\ active = 0
    /\ runq_live = {} /\ sq_live = {} /\ build_stamps = [t \in Tasks |-> None]
    /\ tasks_covered = {} /\ holdoff_tasks = {}
    /\ tasks_notcovered = IF Setscene = {} THEN Tasks ELSE {}

-----------------------------------------------------------------------------
(* The idle loop: execute(), finish(), and stopping a build.               *)

Goto(stage) == pc' = stage /\ UNCHANGED <<state, stopped>>

EnterExecute ==
    /\ pc = "top" /\ state = "Running"
    /\ Goto("read")
    /\ UNCHANGED <<runq, jobs, scene, cover, hashes, disk>>

FinalState == IF failed_tids # {} THEN "Failed" ELSE "Complete"

\* Mutant: finish() forgets the setscene jobs.
FinishWithoutSetscene ==
    /\ pc = "top"
    /\ \/ /\ state = "CleanUp" /\ UNCHANGED stopped
       \/ /\ state = "Running" /\ "shutdown" \in MayStop /\ stopped' = TRUE
    /\ IF active > 0 THEN pc' = "wait" /\ state' = "CleanUp"
                     ELSE UNCHANGED pc /\ state' = FinalState
    /\ UNCHANGED <<runq, jobs, scene, cover, hashes, disk>>

\* finish(): wait for the jobs that still run, start nothing.
Finish ==
    /\ pc = "top"
    /\ \/ /\ state = "CleanUp" /\ UNCHANGED stopped
       \/ /\ state = "Running" /\ "shutdown" \in MayStop /\ stopped' = TRUE
    /\ IF active + Cardinality(sq_live) > 0
       THEN pc' = "wait" /\ state' = "CleanUp"
       ELSE UNCHANGED pc /\ state' = FinalState
    /\ UNCHANGED <<runq, jobs, scene, cover, hashes, disk>>

\* finish_now(): the workers are told to kill their jobs.
FinishNow ==
    /\ pc = "top" /\ state \in {"Running", "CleanUp"}
    /\ "forceshutdown" \in MayStop
    /\ state' = FinalState /\ stopped' = TRUE
    /\ UNCHANGED <<pc, runq, jobs, scene, cover, hashes, disk>>

-----------------------------------------------------------------------------
(* Messages of the workers: runQueuePipe.read().                           *)

Reading == pc \in {"read", "wait"}

\* A task that had a cacheable output reported its hash, and the server
\* answered that an earlier output is equivalent (taskUniHashUpdate).
ReadUniHash(t, u) ==
    /\ Reading
    /\ t \in runq_live \cap Setscene
    /\ u # build_stamps[t] /\ \A m \in updated_taskhash_queue : m[1] # t
    /\ updated_taskhash_queue' = updated_taskhash_queue \cup {<<t, u>>}
    /\ UNCHANGED <<control, runq, jobs, scene, cover, unihash,
                   pending_migrations, disk>>

\* The hash a finished task's stamp and cached output carry.
FinalHash(t) ==
    IF \E m \in updated_taskhash_queue : m[1] = t
    THEN (CHOOSE m \in updated_taskhash_queue : m[1] = t)[2]
    ELSE build_stamps[t]

\* make_stamp() removes the stamps a task had under other hashes, and those
\* of its setscene variant; a dry run leaves nothing.
TaskDone(t) ==
    IF SetsceneEnforce THEN disk
    ELSE [disk EXCEPT !.task[Name[t]] = FinalHash(t),
                      !.setscene[Name[t]] = None,
                      !.fresh = @ \cup {Name[t]},
                      !.sstate = IF t \in Setscene THEN @ \cup {<<Name[t], FinalHash(t)>>}
                                                   ELSE @]

SetsceneDone(t) == [disk EXCEPT !.setscene[Name[t]] = build_stamps[t]]

\* task_completeoutright(): tasks whose dependencies are now complete become
\* buildable, and a task deferred after this one may go on.
CompleteOutright(t, running, buildable, newdisk) ==
    /\ runq_complete' = runq_complete \cup {t}
    /\ runq_buildable' = buildable \cup
            {r \in Rev[t] \ (running \cup buildable) :
                Depends[r] \subseteq runq_complete \cup {t}}
    /\ sq' = ReleaseDeferred(sq, t, newdisk, unihash)

JobEnds(t) == build_stamps' = [build_stamps EXCEPT ![t] = None]

\* task_complete()
ReadTaskComplete(t) ==
    /\ Reading /\ t \in runq_live
    /\ JobEnds(t) /\ runq_live' = runq_live \ {t}
    /\ active' = active - 1
    /\ disk' = TaskDone(t)
    /\ CompleteOutright(t, runq_running, runq_buildable, disk')
    /\ runq_tasksrun' = runq_tasksrun \cup {t}
    /\ UNCHANGED <<control, runq_running, failed_tids, sq_live, sqdone, cover, hashes>>

\* Bounded: only MaxRefusals tasks that were never active are counted down.
OneLess(t) ==
    IF active > Cardinality(runq_live \ {t}) - MaxRefusals THEN active - 1 ELSE active

\* Mutant: a failed task is still counted as active.
FailStaysActive(t) ==
    /\ failed_tids' = failed_tids \cup {t}
    /\ state' = IF Halt THEN "CleanUp" ELSE state
    /\ UNCHANGED active

\* Mutants: a failure always, or never, ends the build.
FailAlwaysHalts(t) ==
    /\ active' = active - 1
    /\ failed_tids' = failed_tids \cup {t}
    /\ state' = "CleanUp"

FailNeverHalts(t) ==
    /\ active' = OneLess(t)
    /\ failed_tids' = failed_tids \cup {t}
    /\ UNCHANGED state

\* task_fail(), whether or not the task was ever counted as active.
TaskFail(t) ==
    /\ active' = OneLess(t)
    /\ failed_tids' = failed_tids \cup {t}
    /\ state' = IF Halt THEN "CleanUp" ELSE state

ReadTaskFailed(t) ==
    /\ Reading /\ t \in runq_live \cap MayFail
    /\ JobEnds(t) /\ runq_live' = runq_live \ {t}
    /\ TaskFail(t)
    /\ UNCHANGED <<pc, stopped, runq_buildable, runq_running, runq_complete,
                   runq_tasksrun, sq_live, scene, cover, hashes, disk>>

\* sq_task_complete()
ReadSetsceneComplete(t) ==
    /\ Reading /\ t \in sq_live
    /\ JobEnds(t) /\ sq_live' = sq_live \ {t}
    /\ disk' = SetsceneDone(t)
    /\ sq' = Cover(sq, {t})
    /\ UNCHANGED <<control, runq, runq_live, sqdone, cover, hashes>>

\* sq_task_fail() and sq_check_taskfail()
ReadSetsceneFailed(t) ==
    /\ Reading /\ t \in sq_live
    /\ JobEnds(t) /\ sq_live' = sq_live \ {t}
    /\ sq' = FailOutright(sq, {t}, disk, unihash)
    /\ state' = IF SetsceneEnforce /\ t \notin SetsceneIgnore THEN "CleanUp" ELSE state
    /\ UNCHANGED <<pc, stopped, runq, runq_live, sqdone, cover, hashes, disk>>

EndRead ==
    \/ /\ pc = "read"
       /\ Goto(IF updated_taskhash_queue # {} \/ pending_migrations # {}
               THEN "migrate" ELSE "setscene")
       /\ UNCHANGED <<runq, jobs, scene, cover, hashes, disk>>
    \/ /\ pc = "wait"
       /\ Goto("top")
       /\ UNCHANGED <<runq, jobs, scene, cover, hashes, disk>>

-----------------------------------------------------------------------------
(* Hash equivalence: process_possible_migrations().                        *)

ReadyReports == {m \in updated_taskhash_queue : m[1] \notin runq_running \ runq_complete}

\* A reported unihash holds for the task and for the tasks deferred after it.
Reported(ready) ==
    LET told(t) == {m \in ready : \/ m[1] = t
                                  \/ t \in Setscene /\ sq.deferred[t] = m[1]
                                        /\ m[2] # unihash[m[1]]}
    IN  [t \in Tasks |->
            IF told(t) = {} THEN unihash[t]
            ELSE (CHOOSE m \in told(t) :
                    (\E n \in told(t) : n[1] = t) => m[1] = t)[2]]

\* The taskhash of a task is a digest of the unihashes it depends on; the sum
\* stands for it.
Digest(uni) == SumFunction(uni)

\* Mutant: tasks whose setscene variant has been used are rehashed as well.
RehashCovered(reported, same) ==
    LET total == Closure(Tasks, {t \in Tasks : \E d \in Depends[t] :
                                                 reported[d] # unihash[d]},
                         LAMBDA t : Rev[t])
        new[t \in Tasks] ==
            IF \/ t \notin total
               \/ \A d \in Depends[t] : new[d] = unihash[d]
               \/ t \in Setscene /\ Name[t] \in same
            THEN reported[t]
            ELSE Digest([d \in Depends[t] |-> new[d]])
    IN  [t \in Tasks |-> new[t]]

\* When the taskhash of t has changed, the unihash follows it, unless the
\* server knows the new taskhash as equivalent (names in same), or the
\* setscene variant has been used already and the new taskhash is reported
\* to the server as equivalent (remapped). A task nobody caches has its
\* taskhash for unihash.
Rehash(reported, same) ==
    LET total    == Closure(Tasks, {t \in Tasks : \E d \in Depends[t] :
                                                    reported[d] # unihash[d]},
                            LAMBDA t : Rev[t])
        remapped == sq.covered \cup sq_live
        new[t \in Tasks] ==
            IF \/ t \notin total
               \/ \A d \in Depends[t] : new[d] = unihash[d]
               \/ t \in Setscene /\ (Name[t] \in same \/ t \in remapped)
            THEN reported[t]
            ELSE Digest([d \in Depends[t] |-> new[d]])
    IN  [t \in Tasks |-> new[t]]

\* The plain tasks the setscene tasks in S stand for.
Below(S) == UNION {SqCovers[t] : t \in S}

\* Plain tasks below t that are being run.
CoveredRunning(t) == SqCovers[t] \cap (runq_running \ runq_complete)

\* t has been covered and a plain task below it was skipped for that reason.
SkippedBelow(t) == SqCovers[t] \cap (runq_complete \ runq_tasksrun) # {}

\* Forget what the setscene queue knows about the tasks in S.
Reopen(S, uni) ==
    LET below == Below(S) \ (runq_complete \cup Unskip)
    IN  [sq EXCEPT !.done = @ \ (S \cup below),
                   !.buildable = @ \ S, !.running = @ \ S, !.outrightfail = @ \ S,
                   !.notcovered = @ \ S, !.covered = @ \ S, !.notneeded = @ \ S,
                   !.stamps = [t \in Setscene |-> IF t \in S THEN uni[t] ELSE @[t]]]

\* Queue the reopened tasks again under their new hashes.
Requeue(opened, S, uni) ==
    LET harddepfail == {t \in S : \E a \in opened.notcovered : <<a, t>> \in HardDeps}
        ready  == {t \in S : \/ SqRev[t] = {}
                             \/ /\ t \notin harddepfail
                                /\ SqRev[t] \subseteq opened.covered \cup opened.notcovered}
        queued == [opened EXCEPT
                    !.buildable = @ \cup ready,
                    !.deferred = [t \in Setscene |->
                        IF t \in S /\ uni[t] = InitialUnihash /\ t # FirstOfName(t)
                        THEN FirstOfName(t) ELSE @[t]]]
        looked == UpdateSceneQueueData(queued, S, disk, uni)
    IN  IF harddepfail = {} THEN looked
        ELSE FailOutright(looked, harddepfail, disk, uni)

\* The setscene tasks whose migration can go ahead: not running already, and
\* with no task below them being run.
TooLate(pending) == pending \cap (runq_running \cup sq_live)

\* Mutant: a task below that is being run does not hold a migration up.
MovableAlways(pending) == pending \ TooLate(pending)

Movable(pending) == {t \in pending \ TooLate(pending) : CoveredRunning(t) = {}}

\* The migrations of this pass: all that can go ahead, in any order, but up
\* to the first one with a task below it that was skipped.
Passes(go) ==
    LET broken == {t \in go : SkippedBelow(t)}
    IN  IF broken = {} THEN {[done |-> go, broken |-> {}]}
        ELSE {[done |-> before, broken |-> {t}] : before \in SUBSET (go \ broken),
                                                  t \in broken}

MigrateTo(uni, changed, pending) ==
    \E go \in {Movable(pending)} : \E pass \in Passes(go) :
        /\ pending_migrations' =
             pending \ (TooLate(pending) \cup pass.done \cup pass.broken)
        /\ IF pass.broken = {}
           THEN /\ sq' = [IF go = {} THEN sq ELSE Requeue(Reopen(go, uni), go, uni)
                          EXCEPT !.holdoff_need_update = @ \/ changed \cup go # {}]
                /\ sqdone' = (sqdone /\ go = {})
                /\ UNCHANGED <<state, failed_tids>>
           \* "marked as completed but now needing to rerun? Halting build."
           ELSE /\ sq' = [Reopen(pass.done, uni) EXCEPT !.done = @ \ pass.broken]
                /\ failed_tids' = failed_tids \cup pass.broken
                /\ state' = "CleanUp"
                /\ UNCHANGED sqdone

\* Singleton sets name what is computed once.
Migrate ==
    /\ pc = "migrate" /\ pc' = "setscene"
    /\ updated_taskhash_queue' = updated_taskhash_queue \ ReadyReports
    /\ \E same \in SUBSET {Name[s] : s \in Setscene},
          reported \in {Reported(ReadyReports)} :
         \E uni \in {Rehash(reported, same)} :
           \E changed \in {IF uni = reported THEN {}
                          ELSE {t \in Tasks : uni[t] # reported[t]}} :
             /\ unihash' = uni
             /\ MigrateTo(uni, changed, pending_migrations \cup (changed \cap Setscene))
    /\ UNCHANGED <<stopped, runq_buildable, runq_running, runq_complete,
                   runq_tasksrun, active, jobs, cover, disk>>

-----------------------------------------------------------------------------
(* The setscene queue.                                                     *)

\* A covered setscene task whose dependants are covered too and do not need it.
Unneeded(t) ==
    /\ t \notin Unskip \cup Targets
    /\ SqRev[t] # {} /\ SqRev[t] \subseteq sq.covered
    /\ t \in NotRequired

\* Mutant: a deferred task goes on as soon as the task it waits for has started.
SelectableEarly ==
    {t \in sq.buildable \ sq.running :
        /\ ~StampInUse(t, sq.stamps[t])
        /\ Unneeded(t) \/ sq.deferred[t] \in runq_running \cup {None}}

Selectable ==
    {t \in sq.buildable \ sq.running :
        /\ ~StampInUse(t, sq.stamps[t])
        /\ Unneeded(t) \/ sq.deferred[t] \in runq_complete \cup {None}}

ChooseSetscene(t) ==
    /\ pc = "setscene"
    /\ ~sqdone /\ can_start_task(active, sq_live)
    /\ Selectable # {} /\ t = Min(Selectable)

Undefer(t) == [sq EXCEPT !.deferred[t] = None]

SetsceneNotNeeded(t) ==
    /\ ChooseSetscene(t) /\ Unneeded(t)
    /\ sq' = [Cover(Undefer(t), {t}) EXCEPT !.notneeded = @ \cup {t}]
    /\ Goto("top")
    /\ UNCHANGED <<runq, jobs, sqdone, cover, hashes, disk>>

\* It was deferred and its output has not turned up, or it is known not to
\* be there.
Unavailable(t) ==
    \/ sq.deferred[t] # None /\ ValidHashes(disk, unihash, {t}) = {}
    \/ t \in sq.outrightfail

SetsceneHopeless(t) ==
    \/ Unavailable(t)
    \/ StampIsCurrent(disk, unihash, t, TRUE)
    \/ ForceTargets /\ t \in Targets
    \/ SkipSetscene /\ ~SetsceneStamp(disk, unihash, t)

SetsceneFail(t) ==
    /\ ChooseSetscene(t) /\ ~Unneeded(t) /\ SetsceneHopeless(t)
    /\ sq' = FailOutright(Undefer(t), {t}, disk, unihash)
    /\ Goto("top")
    /\ UNCHANGED <<runq, jobs, sqdone, cover, hashes, disk>>

SetsceneSkip(t) ==
    /\ ChooseSetscene(t) /\ ~Unneeded(t) /\ ~SetsceneHopeless(t)
    /\ SetsceneStamp(disk, unihash, t)
    /\ sq' = Cover(Undefer(t), {t})
    /\ Goto("top")
    /\ UNCHANGED <<runq, jobs, sqdone, cover, hashes, disk>>

SetsceneStart(t) ==
    /\ ChooseSetscene(t) /\ ~Unneeded(t) /\ ~SetsceneHopeless(t)
    /\ ~SetsceneStamp(disk, unihash, t)
    /\ build_stamps' = [build_stamps EXCEPT ![t] = unihash[t]]
    /\ sq_live' = sq_live \cup {t} /\ UNCHANGED runq_live
    /\ sq' = [Undefer(t) EXCEPT !.running = @ \cup {t}]
    /\ Goto(IF can_start_task(active, sq_live') THEN "top" ELSE "holdoff")
    /\ UNCHANGED <<runq, sqdone, cover, hashes, disk>>

NoSetscene ==
    /\ pc = "setscene"
    /\ sqdone \/ ~can_start_task(active, sq_live) \/ Selectable = {}
    /\ Goto("holdoff")
    /\ UNCHANGED <<runq, jobs, scene, cover, hashes, disk>>

\* update_holdofftasks(): what the settled setscene tasks say of all tasks.
NotCoveredNow ==
    (sq.notcovered \cup CantSkip \cup Below(sq.notcovered)
        \cup (Unskip \ Setscene)) \cap sq.done

\* Mutant: a task below a covered and an uncovered one counts as covered.
CoveredByAny ==
    (sq.covered \cup Below(sq.covered)) \cap sq.done

CoveredNow ==
    ((sq.covered \cup Below(sq.covered)) \ NotCoveredNow)
        \cap sq.done

HoldoffNow ==
    LET unsettled == Setscene \ (sq.covered \cup sq.notcovered)
    IN  unsettled \cup (Below(unsettled) \ runq_complete)

\* Mutant: a settled task is buildable whatever it depends on.
UpdateHoldoffEager ==
    IF sq.holdoff_need_update
    THEN /\ tasks_covered' = CoveredNow
         /\ tasks_notcovered' = NotCoveredNow
         /\ holdoff_tasks' = HoldoffNow
         /\ runq_buildable' = runq_buildable \cup CoveredNow \cup NotCoveredNow
         /\ sq' = [sq EXCEPT !.holdoff_need_update = FALSE]
    ELSE UNCHANGED <<cover, runq_buildable, sq>>

UpdateHoldoff ==
    IF sq.holdoff_need_update
    THEN /\ tasks_covered' = CoveredNow
         /\ tasks_notcovered' = NotCoveredNow
         /\ holdoff_tasks' = HoldoffNow
         /\ runq_buildable' = runq_buildable \cup
                {t \in CoveredNow \cup NotCoveredNow : Depends[t] \subseteq runq_complete}
         /\ sq' = [sq EXCEPT !.holdoff_need_update = FALSE]
    ELSE UNCHANGED <<cover, runq_buildable, sq>>

NoDeferred == \A t \in Setscene : sq.deferred[t] = None

\* summarise_scenequeue_errors(), of the values after UpdateHoldoff.
SceneQueueError ==
    \/ ~NoDeferred
    \/ updated_taskhash_queue # {}
    \/ holdoff_tasks' # {}
    \/ Setscene \ (sq.covered \cup sq.notcovered) # {}
    \/ Setscene \ sq.buildable # {} \/ Setscene \ sq.running # {}
    \/ Tasks \ (tasks_covered' \cup tasks_notcovered') # {}
    \/ Tasks \ sq.done # {}
    \/ {t \in Tasks : Depends[t] = {}} \ runq_buildable' # {}

SceneQueueDone ==
    /\ sq_live = {} /\ ~sqdone /\ NoDeferred
    /\ updated_taskhash_queue = {} /\ holdoff_tasks' = {}

HoldoffStage ==
    /\ pc = "holdoff"
    /\ UpdateHoldoff
    /\ IF SceneQueueDone
       THEN IF SceneQueueError
            THEN state' = "Failed" /\ pc' = "top" /\ UNCHANGED sqdone
            ELSE IF SetsceneOnly
                 THEN state' = "Complete" /\ pc' = "top" /\ UNCHANGED sqdone
                 ELSE sqdone' = TRUE /\ pc' = "next" /\ UNCHANGED state
       ELSE pc' = "next" /\ UNCHANGED <<state, sqdone>>
    /\ UNCHANGED <<stopped, runq_running, runq_complete, runq_tasksrun,
                   failed_tids, active, jobs, hashes, disk>>

-----------------------------------------------------------------------------
(* The run queue.                                                          *)

\* next_buildable_task(). The schedulers differ in which of these they take.
Schedulable ==
    {t \in ((runq_buildable \ runq_running) \ holdoff_tasks)
                \cap (tasks_covered \cup tasks_notcovered) :
        ~StampInUse(t, InitialUnihash)}

ChooseTask(t) ==
    /\ pc = "next" /\ ~SetsceneOnly
    /\ can_start_task(active, sq_live)
    /\ t \in Schedulable

\* check_setscene_ignore_tasks()
Refused(t) ==
    /\ SetsceneEnforce
    /\ t \notin tasks_covered \cup NoExec \cup SetsceneIgnore
    /\ ~StampIsCurrent(disk, unihash, t, FALSE)

RefuseTask(t) ==
    /\ ChooseTask(t) /\ Refused(t)
    /\ TaskFail(t)
    /\ pc' = "top"
    /\ UNCHANGED <<stopped, runq_buildable, runq_running, runq_complete,
                   runq_tasksrun, jobs, scene, cover, hashes, disk>>

\* Mutant: task_skip() only counts the end of the task.
SkipTaskUncounted(t) ==
    /\ ChooseTask(t) /\ ~Refused(t)
    /\ t \in tasks_covered
    /\ runq_running' = runq_running \cup {t}
    /\ active' = active - 1
    /\ CompleteOutright(t, runq_running', runq_buildable, disk)
    /\ Goto("top")
    /\ UNCHANGED <<failed_tids, runq_tasksrun, jobs, sqdone, cover, hashes, disk>>

\* task_skip(), because it is covered or because its stamp is current.
SkipTask(t) ==
    /\ ChooseTask(t) /\ ~Refused(t)
    /\ \/ t \in tasks_covered /\ UNCHANGED runq_tasksrun
       \/ /\ t \notin tasks_covered /\ StampIsCurrent(disk, unihash, t, FALSE)
          /\ runq_tasksrun' = runq_tasksrun \cup {t}
    /\ runq_running' = runq_running \cup {t}
    /\ CompleteOutright(t, runq_running', runq_buildable, disk)
    /\ Goto("top")
    /\ UNCHANGED <<failed_tids, active, jobs, sqdone, cover, hashes, disk>>

ToRun(t) ==
    /\ ChooseTask(t) /\ ~Refused(t)
    /\ t \notin tasks_covered /\ ~StampIsCurrent(disk, unihash, t, FALSE)

NoExecTask(t) ==
    /\ ToRun(t) /\ t \in NoExec
    /\ runq_running' = runq_running \cup {t}
    /\ disk' = IF SetsceneEnforce THEN disk
               ELSE [disk EXCEPT !.task[Name[t]] = unihash[t],
                                 !.setscene[Name[t]] = None,
                                 !.fresh = @ \cup {Name[t]}]
    /\ CompleteOutright(t, runq_running', runq_buildable, disk')
    /\ runq_tasksrun' = runq_tasksrun \cup {t}
    /\ Goto("top")
    /\ UNCHANGED <<failed_tids, active, jobs, sqdone, cover, hashes>>

StartTask(t) ==
    /\ ToRun(t) /\ t \notin NoExec
    /\ build_stamps' = [build_stamps EXCEPT ![t] = unihash[t]]
    /\ runq_live' = runq_live \cup {t}
    /\ runq_running' = runq_running \cup {t}
    /\ active' = active + 1
    /\ Goto(IF can_start_task(active', sq_live) THEN "top" ELSE "tail")
    /\ UNCHANGED <<runq_buildable, runq_complete, runq_tasksrun, failed_tids,
                   sq_live, scene, cover, hashes, disk>>

\* Nothing to start; with a job active, the scheduler may also hold back
\* because of system pressure or of a task's number_threads.
NoTask ==
    /\ pc = "next"
    /\ \/ SetsceneOnly \/ ~can_start_task(active, sq_live)
       \/ Schedulable = {} \/ active # 0
    /\ Goto("tail")
    /\ UNCHANGED <<runq, jobs, scene, cover, hashes, disk>>

Idle == ~(active > 0 \/ sq_live # {})

TailWait ==
    /\ pc = "tail" /\ ~Idle
    /\ Goto("wait")
    /\ UNCHANGED <<runq, jobs, scene, cover, hashes, disk>>

\* "Runqueue deadlocked on deferred tasks, forcing task"
TailForceDeferred(t) ==
    /\ pc = "tail" /\ Idle /\ sq.deferred[t] # None
    /\ sq' = Undefer(t)
    /\ Goto("top")
    /\ UNCHANGED <<runq, jobs, sqdone, cover, hashes, disk>>

NothingLeft == pc = "tail" /\ Idle /\ NoDeferred

\* The sanity checks at the end of execute(), on values settled long before.
NeverDone ==
    \/ Tasks \ runq_buildable # {} \/ Tasks \ runq_running # {}
    \/ Tasks \ runq_complete # {}

TailFinish ==
    /\ NothingLeft
    /\ UNCHANGED <<cover, runq>>
    /\ state' = IF failed_tids # {} \/ SceneQueueError \/ NeverDone
                THEN "Failed" ELSE "Complete"
    /\ pc' = "top"
    /\ UNCHANGED <<stopped, jobs, scene, hashes, disk>>

-----------------------------------------------------------------------------
Ended == state \in {"Failed", "Complete"} /\ pc = "top"

Terminated == Ended /\ UNCHANGED vars

\* What the cooker does by itself, and what it does on a worker's message.
Step ==
    \/ EnterExecute \/ Finish
    \/ EndRead \/ Migrate
    \/ \E t \in Setscene :
          \/ SetsceneNotNeeded(t) \/ SetsceneFail(t)
          \/ SetsceneSkip(t) \/ SetsceneStart(t)
          \/ TailForceDeferred(t)
    \/ NoSetscene
    \/ HoldoffStage
    \/ \E t \in Tasks : RefuseTask(t) \/ SkipTask(t) \/ NoExecTask(t) \/ StartTask(t)
    \/ NoTask
    \/ TailWait \/ TailFinish

ReadExit(t) ==
    \/ ReadTaskComplete(t) \/ ReadTaskFailed(t)
    \/ ReadSetsceneComplete(t) \/ ReadSetsceneFailed(t)

Next ==
    \/ Step
    \/ \E t \in Tasks : ReadExit(t)
    \/ \E t \in Tasks, u \in NewUnihashes : ReadUniHash(t, u)
    \/ FinishNow
    \/ Terminated

\* The idle loop calls execute_runqueue() for as long as it returns True or
\* file descriptors. Jobs end, and the pipe keeps the message until a read.
Spec ==
    /\ Init /\ [][Next]_vars
    /\ WF_vars(Step)
    /\ \A t \in Tasks : SF_vars(ReadExit(t))

=============================================================================
