---------------------------- MODULE RunQueueProofs ----------------------------
(***************************************************************************)
(* Proofs about RunQueue, for every task graph, every history and every    *)
(* interleaving: the order of the tasks, the count of the jobs, that a     *)
(* stopped build starts nothing, that RunQueue implements Build, that a    *)
(* build with nothing to do runs nothing; and of the setscene queue, that  *)
(* a setscene task and what it covers are never run at the same time, how  *)
(* tasks that make one stamp take turns, that a task that runs finds its   *)
(* inputs, that no build halts because a skipped task is needed, how a     *)
(* build ends, and its types.                                              *)
(***************************************************************************)
EXTENDS RunQueueProperties, SceneQueueDataProofs, FiniteSetTheorems, TLAPS

-----------------------------------------------------------------------------
(* The order of the tasks. Only the sets of the run queue matter: what the *)
(* setscene queue and the rehashing do reaches these sets through          *)
(* runq_buildable, sq_live and pending_migrations alone.                   *)

QueueOrder ==
    /\ runq_running \subseteq Tasks
    /\ runq_complete \subseteq runq_running
    /\ runq_live \subseteq runq_running \ runq_complete
    /\ sq_live \subseteq Setscene
    /\ pending_migrations \subseteq Setscene
    /\ DependenciesFirst

queues == <<runq_buildable, runq_running, runq_complete, runq_live, sq_live,
            pending_migrations>>

LEMMA InitQueueOrder == Init => QueueOrder
BY DEF Init, QueueOrder, DependenciesFirst

LEMMA StutterQueueOrder == QueueOrder /\ UNCHANGED queues => QueueOrder'
BY DEF QueueOrder, DependenciesFirst, queues

\* task_completeoutright() keeps the order, for a task that was counted as
\* running before (task_complete) or is so now (task_skip).
LEMMA CompletionKeepsOrder ==
    ASSUME QueueOrder, NEW t \in Tasks, NEW newdisk,
           runq_running' = runq_running \cup {t},
           Depends[t] \subseteq runq_complete,
           CompleteOutright(t, runq_running', runq_buildable, newdisk)
    PROVE  /\ DependenciesFirst'
           /\ runq_complete' = runq_complete \cup {t}
           /\ runq_running' \subseteq Tasks
           /\ runq_complete' \subseteq runq_running'
BY DEF QueueOrder, DependenciesFirst, CompleteOutright

\* A task the scheduler chooses has not been started and comes after
\* everything it depends on.
LEMMA ChosenIsReady ==
    ASSUME QueueOrder, NEW t \in Tasks, ChooseTask(t)
    PROVE  t \notin runq_running /\ Depends[t] \subseteq runq_complete
BY DEF QueueOrder, DependenciesFirst, ChooseTask, Schedulable

\* The steps of the idle loop and of the setscene queue, but for the start
\* of a setscene job, leave the queues alone.
LEMMA QuietSteps ==
    ASSUME \/ EnterExecute \/ Finish \/ FinishNow \/ EndRead \/ NoSetscene
           \/ NoTask \/ TailWait \/ TailFinish \/ Terminated
           \/ \E t \in Setscene :
                 \/ SetsceneNotNeeded(t) \/ SetsceneFail(t)
                 \/ SetsceneSkip(t) \/ TailForceDeferred(t)
           \/ \E t \in Tasks : RefuseTask(t)
           \/ \E t \in Tasks, u \in NewUnihashes : ReadUniHash(t, u)
    PROVE  UNCHANGED queues
BY DEF queues, runq, jobs, scene, cover, hashes, control, vars,
       EnterExecute, Finish, FinishNow, EndRead, NoSetscene, NoTask, TailWait,
       TailFinish, Terminated, SetsceneNotNeeded, SetsceneFail, SetsceneSkip,
       TailForceDeferred, RefuseTask, ReadUniHash, Goto

LEMMA NextQueueOrder == QueueOrder /\ [Next]_vars => QueueOrder'
<1> SUFFICES ASSUME QueueOrder, [Next]_vars PROVE QueueOrder'
  OBVIOUS
<1>1. ASSUME UNCHANGED queues PROVE QueueOrder'
  BY <1>1, StutterQueueOrder
<1>2. ASSUME NEW t \in Tasks, ReadTaskComplete(t) PROVE QueueOrder'
  <2>1. t \in runq_running /\ runq_running' = runq_running \cup {t}
    BY <1>2 DEF QueueOrder, ReadTaskComplete
  <2>2. CompleteOutright(t, runq_running', runq_buildable, disk')
    BY <1>2 DEF ReadTaskComplete
  <2>3. Depends[t] \subseteq runq_complete
    BY <2>1 DEF QueueOrder, DependenciesFirst
  <2>4. UNCHANGED <<sq_live, pending_migrations>> /\ runq_live' = runq_live \ {t}
    BY <1>2 DEF ReadTaskComplete, hashes
  <2> QED
    BY <2>1, <2>2, <2>3, <2>4, CompletionKeepsOrder DEF QueueOrder
<1>3. ASSUME NEW t \in Tasks, ReadTaskFailed(t) PROVE QueueOrder'
  BY <1>3 DEF ReadTaskFailed, QueueOrder, DependenciesFirst, hashes
<1>4. ASSUME NEW t \in Tasks, ReadSetsceneComplete(t) \/ ReadSetsceneFailed(t)
      PROVE  QueueOrder'
  BY <1>4 DEF ReadSetsceneComplete, ReadSetsceneFailed, QueueOrder,
              DependenciesFirst, hashes, runq
<1>5. ASSUME Migrate PROVE QueueOrder'
  <2>1. UNCHANGED <<runq_buildable, runq_running, runq_complete, runq_live, sq_live>>
    BY <1>5 DEF Migrate, jobs
  <2>2. pending_migrations' \subseteq Setscene
    BY <1>5 DEF Migrate, MigrateTo, QueueOrder
  <2> QED
    BY <2>1, <2>2 DEF QueueOrder, DependenciesFirst
<1>6. ASSUME NEW t \in Setscene, SetsceneStart(t) PROVE QueueOrder'
  BY <1>6 DEF SetsceneStart, QueueOrder, DependenciesFirst, runq, hashes
<1>7. ASSUME HoldoffStage PROVE QueueOrder'
  <2>1. UNCHANGED <<runq_running, runq_complete, runq_live, sq_live,
                    pending_migrations>>
    BY <1>7 DEF HoldoffStage, jobs, hashes
  <2>2. \A t \in runq_buildable' : t \in runq_buildable \/ Depends[t] \subseteq runq_complete
    BY <1>7 DEF HoldoffStage, UpdateHoldoff
  <2> QED
    BY <2>1, <2>2 DEF QueueOrder, DependenciesFirst
<1>8. ASSUME NEW t \in Tasks, SkipTask(t) \/ NoExecTask(t) PROVE QueueOrder'
  <2>1. ChooseTask(t) /\ runq_running' = runq_running \cup {t}
    BY <1>8 DEF SkipTask, NoExecTask, ToRun
  <2>2. PICK newdisk : CompleteOutright(t, runq_running', runq_buildable, newdisk)
    BY <1>8 DEF SkipTask, NoExecTask
  <2>3. UNCHANGED <<runq_live, sq_live, pending_migrations>>
    BY <1>8 DEF SkipTask, NoExecTask, jobs, hashes
  <2> QED
    BY <2>1, <2>2, <2>3, ChosenIsReady, CompletionKeepsOrder DEF QueueOrder
<1>9. ASSUME NEW t \in Tasks, StartTask(t) PROVE QueueOrder'
  <2>1. t \notin runq_running /\ Depends[t] \subseteq runq_complete
    BY <1>9, ChosenIsReady DEF StartTask, ToRun
  <2> QED
    BY <1>9, <2>1 DEF StartTask, QueueOrder, DependenciesFirst, hashes
<1>10. CASE UNCHANGED vars
  BY <1>10, <1>1 DEF vars, queues, runq, jobs, hashes
<1> QED
  BY <1>1, <1>2, <1>3, <1>4, <1>5, <1>6, <1>7, <1>8, <1>9, <1>10, QuietSteps
  DEF Next, Step, ReadExit

\* Every task is started, skipped or found buildable only after everything it
\* depends on is complete, on every task graph, whatever the hash equivalence
\* server answers and whatever is left from earlier builds.
THEOREM OrderHolds == Spec => []DependenciesFirst
<1>1. QueueOrder => DependenciesFirst
  BY DEF QueueOrder
<1> QED
  BY <1>1, InitQueueOrder, NextQueueOrder, PTL DEF Spec

-----------------------------------------------------------------------------
(* The count of the jobs. BB_SETSCENE_ENFORCE is excluded: a task refused  *)
(* by check_setscene_ignore_tasks() is counted down without having been    *)
(* counted up.                                                             *)

JobCount == QueueOrder /\ ActiveCountsJobs

LEMMA LiveFinite == QueueOrder => IsFiniteSet(runq_live)
BY TasksAssumption, FS_Subset DEF QueueOrder

LEMMA InitJobCount == Init => JobCount
BY InitQueueOrder, FS_EmptySet DEF Init, JobCount, ActiveCountsJobs

\* The end of a job is counted once, and never hits the model's bound.
LEMMA ExitCounts ==
    ASSUME JobCount, NEW t \in runq_live, runq_live' = runq_live \ {t},
           \/ active' = active - 1
           \/ TaskFail(t)
    PROVE  ActiveCountsJobs'
<1>1. IsFiniteSet(runq_live)
  BY LiveFinite DEF JobCount
<1>2. /\ Cardinality(runq_live) \in Nat
      /\ Cardinality(runq_live') = Cardinality(runq_live) - 1
      /\ Cardinality(runq_live') \in Nat
  BY <1>1, FS_RemoveElement, FS_CardinalityType, FS_Subset
<1>3. active' = active - 1
  BY <1>2, OptionsAssumption DEF TaskFail, OneLess, JobCount, ActiveCountsJobs
<1> QED
  BY <1>2, <1>3 DEF JobCount, ActiveCountsJobs

LEMMA NextJobCount ==
    ASSUME ~SetsceneEnforce
    PROVE  JobCount /\ [Next]_vars => JobCount'
<1> SUFFICES ASSUME JobCount, [Next]_vars PROVE ActiveCountsJobs'
  BY NextQueueOrder DEF JobCount
<1>1. ASSUME UNCHANGED <<active, runq_live>> PROVE ActiveCountsJobs'
  BY <1>1 DEF JobCount, ActiveCountsJobs
<1>2. ASSUME NEW t \in Tasks, ReadTaskComplete(t) \/ ReadTaskFailed(t)
      PROVE  ActiveCountsJobs'
  BY <1>2, ExitCounts DEF ReadTaskComplete, ReadTaskFailed
<1>3. ASSUME NEW t \in Tasks, ReadSetsceneComplete(t) \/ ReadSetsceneFailed(t)
      PROVE  ActiveCountsJobs'
  BY <1>3, <1>1 DEF ReadSetsceneComplete, ReadSetsceneFailed, runq
<1>4. ASSUME NEW t \in Setscene,
             \/ SetsceneNotNeeded(t) \/ SetsceneFail(t) \/ SetsceneSkip(t)
             \/ SetsceneStart(t) \/ TailForceDeferred(t)
      PROVE  ActiveCountsJobs'
  BY <1>4, <1>1 DEF SetsceneNotNeeded, SetsceneFail, SetsceneSkip, SetsceneStart,
     TailForceDeferred, runq, jobs
<1>5. ASSUME NEW t \in Tasks, RefuseTask(t) PROVE FALSE
  BY <1>5 DEF RefuseTask, Refused
<1>6. ASSUME NEW t \in Tasks, SkipTask(t) \/ NoExecTask(t) PROVE ActiveCountsJobs'
  BY <1>6, <1>1 DEF SkipTask, NoExecTask, jobs
<1>7. ASSUME NEW t \in Tasks, StartTask(t) PROVE ActiveCountsJobs'
  <2>1. t \notin runq_live
    BY <1>7, ChosenIsReady DEF StartTask, ToRun, JobCount, QueueOrder
  <2>2. Cardinality(runq_live \cup {t}) = Cardinality(runq_live) + 1
    BY <2>1, LiveFinite, FS_AddElement DEF JobCount
  <2> QED
    BY <1>7, <2>2 DEF StartTask, JobCount, ActiveCountsJobs
<1>8. ASSUME Migrate \/ HoldoffStage PROVE ActiveCountsJobs'
  BY <1>8, <1>1 DEF Migrate, HoldoffStage, jobs
<1>9. ASSUME EnterExecute \/ Finish \/ FinishNow \/ EndRead \/ NoSetscene
             \/ NoTask \/ TailWait \/ TailFinish \/ Terminated \/ UNCHANGED vars
      PROVE  ActiveCountsJobs'
  BY <1>9, <1>1 DEF EnterExecute, Finish, FinishNow, EndRead, NoSetscene, NoTask,
     TailWait, TailFinish, Terminated, runq, jobs, vars
<1>10. ASSUME NEW t \in Tasks, NEW u \in NewUnihashes, ReadUniHash(t, u)
       PROVE  ActiveCountsJobs'
  BY <1>10, <1>1 DEF ReadUniHash, runq, jobs
<1> QED
  BY <1>2, <1>3, <1>4, <1>5, <1>6, <1>7, <1>8, <1>9, <1>10 DEF Next, Step, ReadExit

\* stats.active, on which the limit and the end of the build rely, is the
\* number of the tasks given to the workers, for every build that does not
\* enforce the use of setscene tasks.
THEOREM CountHolds ==
    ASSUME ~SetsceneEnforce
    PROVE  Spec => []ActiveCountsJobs
<1>1. JobCount => ActiveCountsJobs
  BY DEF JobCount
<1>2. JobCount /\ [Next]_vars => JobCount'
  BY NextJobCount
<1> QED
  BY <1>1, <1>2, InitJobCount, PTL DEF Spec

-----------------------------------------------------------------------------
(* A stopped build.                                                        *)

StopIsFinal == stopped => state # "Running" /\ pc \in {"top", "wait"}

LEMMA NextStopIsFinal == StopIsFinal /\ [Next]_vars => StopIsFinal'
<1> SUFFICES ASSUME StopIsFinal, [Next]_vars PROVE StopIsFinal'
  OBVIOUS
<1>1. ASSUME UNCHANGED control PROVE StopIsFinal'
  BY <1>1 DEF StopIsFinal, control
<1>2. ASSUME Finish \/ FinishNow \/ EndRead \/ EnterExecute PROVE StopIsFinal'
  BY <1>2 DEF Finish, FinishNow, EndRead, EnterExecute, Goto, FinalState, StopIsFinal
<1>3. ASSUME NEW t \in Tasks, ReadExit(t) PROVE StopIsFinal'
  BY <1>3 DEF ReadExit, ReadTaskComplete, ReadTaskFailed, ReadSetsceneComplete,
     ReadSetsceneFailed, TaskFail, control, StopIsFinal
<1>4. ASSUME NEW t \in Tasks, NEW u \in NewUnihashes, ReadUniHash(t, u)
      PROVE  StopIsFinal'
  BY <1>4, <1>1 DEF ReadUniHash
<1>5. ASSUME pc \in {"migrate", "setscene", "holdoff", "next", "tail"},
             UNCHANGED stopped
      PROVE  StopIsFinal'
  BY <1>5 DEF StopIsFinal
<1>6. ASSUME \/ Migrate \/ NoSetscene \/ HoldoffStage \/ NoTask \/ TailWait
             \/ TailFinish
      PROVE  StopIsFinal'
  BY <1>6, <1>5 DEF Migrate, NoSetscene, HoldoffStage, NoTask, TailWait,
     TailFinish, NothingLeft, Goto
<1>7. ASSUME NEW t \in Setscene,
             \/ SetsceneNotNeeded(t) \/ SetsceneFail(t) \/ SetsceneSkip(t)
             \/ SetsceneStart(t) \/ TailForceDeferred(t)
      PROVE  StopIsFinal'
  BY <1>7, <1>5 DEF SetsceneNotNeeded, SetsceneFail, SetsceneSkip, SetsceneStart,
     TailForceDeferred, ChooseSetscene, Goto
<1>8. ASSUME NEW t \in Tasks,
             RefuseTask(t) \/ SkipTask(t) \/ NoExecTask(t) \/ StartTask(t)
      PROVE  StopIsFinal'
  BY <1>8, <1>5 DEF RefuseTask, SkipTask, NoExecTask, StartTask, ToRun, ChooseTask, Goto
<1>9. ASSUME Terminated \/ UNCHANGED vars PROVE StopIsFinal'
  BY <1>9, <1>1 DEF Terminated, vars
<1> QED
  BY <1>2, <1>3, <1>4, <1>6, <1>7, <1>8, <1>9 DEF Next, Step

\* Once stopped, in whatever state of the queues, a build starts no job.
THEOREM StopHolds == Spec => StopStartsNothing
<1>1. Init => StopIsFinal
  BY DEF Init, StopIsFinal
<1>2. StopIsFinal /\ [Next]_vars => [stopped => Live' \subseteq Live]_vars
  <2> SUFFICES ASSUME stopped, pc \in {"top", "wait"}, Next
               PROVE  Live' \subseteq Live
    BY DEF StopIsFinal
  <2>1. ASSUME UNCHANGED jobs PROVE Live' \subseteq Live
    BY <2>1 DEF Live, jobs
  <2>2. ASSUME NEW t \in Tasks, ReadExit(t) PROVE Live' \subseteq Live
    BY <2>2 DEF ReadExit, ReadTaskComplete, ReadTaskFailed, ReadSetsceneComplete,
       ReadSetsceneFailed, Live
  <2>3. ASSUME NEW t \in Setscene, SetsceneStart(t) PROVE FALSE
    BY <2>3 DEF SetsceneStart, ChooseSetscene
  <2>4. ASSUME NEW t \in Tasks, StartTask(t) PROVE FALSE
    BY <2>4 DEF StartTask, ToRun, ChooseTask
  <2>5. ASSUME \/ EnterExecute \/ Finish \/ FinishNow \/ EndRead \/ Migrate
               \/ NoSetscene \/ HoldoffStage \/ NoTask \/ TailWait \/ TailFinish
               \/ Terminated
               \/ \E t \in Setscene :
                     \/ SetsceneNotNeeded(t) \/ SetsceneFail(t)
                     \/ SetsceneSkip(t) \/ TailForceDeferred(t)
               \/ \E t \in Tasks : RefuseTask(t) \/ SkipTask(t) \/ NoExecTask(t)
               \/ \E t \in Tasks, u \in NewUnihashes : ReadUniHash(t, u)
        PROVE  UNCHANGED jobs
    BY <2>5 DEF EnterExecute, Finish, FinishNow, EndRead, Migrate, NoSetscene,
       HoldoffStage, NoTask, TailWait, TailFinish, Terminated, vars,
       SetsceneNotNeeded, SetsceneFail, SetsceneSkip, TailForceDeferred,
       RefuseTask, SkipTask, NoExecTask, ReadUniHash
  <2> QED
    BY <2>1, <2>2, <2>3, <2>4, <2>5 DEF Next, Step
<1> QED
  BY <1>1, <1>2, NextStopIsFinal, PTL DEF Spec, StopStartsNothing

-----------------------------------------------------------------------------
(* RunQueue implements Build.                                              *)

LEMMA FreeThreadLeft ==
    ASSUME JobCount, can_start_task(active, sq_live)
    PROVE  B!FreeThread
<1>1. \A S : B!Cardinality(S) = Cardinality(S)
  BY DEF B!Cardinality, Cardinality
<1> QED
  BY <1>1 DEF JobCount, ActiveCountsJobs, can_start_task, B!FreeThread

\* A migration that finds a task which was skipped and is needed after all
\* fails a setscene task that has not been started.
LEMMA MigrateRefuses ==
    ASSUME QueueOrder, Migrate
    PROVE  [B!Next]_B!vars
<1>1. UNCHANGED <<runq_running, runq_live, runq_complete, sq_live>>
  BY DEF Migrate, jobs
<1>2. CASE UNCHANGED failed_tids
  BY <1>1, <1>2 DEF B!vars
<1>3. ASSUME NEW t \in Setscene, t \notin runq_running,
             failed_tids' = failed_tids \cup {t}
      PROVE  B!Next
  <2>1. t \in Tasks /\ B!Refuse(t)
    BY <1>1, <1>3, SubsetsAssumption DEF B!Refuse
  <2> QED
    BY <2>1 DEF B!Next
<1>4. PICK uni, changed :
         MigrateTo(uni, changed, pending_migrations \cup (changed \cap Setscene))
  BY DEF Migrate
<1> DEFINE pending == pending_migrations \cup (changed \cap Setscene)
<1>5. pending \subseteq Setscene
  BY DEF QueueOrder
<1>6. PICK pass \in Passes(Movable(pending)) :
         IF pass.broken = {} THEN UNCHANGED failed_tids
                             ELSE failed_tids' = failed_tids \cup pass.broken
  BY <1>4 DEF MigrateTo
<1>7. pass.broken = {} \/ \E t \in Movable(pending) : pass.broken = {t}
  BY <1>6 DEF Passes
<1>8. \A t \in Movable(pending) : t \in Setscene /\ t \notin runq_running
  BY <1>5 DEF Movable, TooLate
<1> QED
  BY <1>2, <1>3, <1>6, <1>7, <1>8

LEMMA NextImplements ==
    ASSUME ~SetsceneEnforce, JobCount, [Next]_vars
    PROVE  [B!Next]_B!vars
<1> USE DEF JobCount
<1>1. ASSUME UNCHANGED <<runq_running, runq_complete, failed_tids, runq_live, sq_live>>
      PROVE  UNCHANGED B!vars
  BY <1>1 DEF B!vars
<1>2. ASSUME NEW t \in Tasks, ReadTaskComplete(t) PROVE B!Next
  <2>1. B!Succeed(t)
    BY <1>2 DEF ReadTaskComplete, CompleteOutright, B!Succeed
  <2> QED
    BY <2>1 DEF B!Next
<1>3. ASSUME NEW t \in Tasks, ReadTaskFailed(t) PROVE B!Next
  <2>1. B!Fail(t)
    BY <1>3 DEF ReadTaskFailed, TaskFail, B!Fail
  <2> QED
    BY <2>1 DEF B!Next
<1>4. ASSUME NEW t \in Tasks, ReadSetsceneComplete(t) \/ ReadSetsceneFailed(t)
      PROVE  B!Next
  <2>1. t \in Setscene
    BY <1>4 DEF ReadSetsceneComplete, ReadSetsceneFailed, QueueOrder
  <2>2. B!Unstage(t)
    BY <1>4 DEF ReadSetsceneComplete, ReadSetsceneFailed, B!Unstage, runq
  <2> QED
    BY <2>1, <2>2 DEF B!Next
<1>5. ASSUME NEW t \in Setscene, SetsceneStart(t) PROVE B!Next
  <2>1. B!FreeThread
    BY <1>5, FreeThreadLeft DEF SetsceneStart, ChooseSetscene
  <2>2. B!Stage(t)
    BY <1>5, <2>1 DEF SetsceneStart, B!Stage, runq
  <2> QED
    BY <2>2 DEF B!Next
<1>6. ASSUME NEW t \in Tasks, SkipTask(t) \/ NoExecTask(t) PROVE B!Next
  <2>1. B!Ready(t)
    BY <1>6, ChosenIsReady DEF SkipTask, NoExecTask, ToRun, B!Ready
  <2>2. B!Skip(t)
    BY <1>6, <2>1 DEF SkipTask, NoExecTask, CompleteOutright, B!Skip, jobs
  <2> QED
    BY <2>2 DEF B!Next
<1>7. ASSUME NEW t \in Tasks, StartTask(t) PROVE B!Next
  <2>1. B!Ready(t) /\ B!FreeThread
    BY <1>7, ChosenIsReady, FreeThreadLeft DEF StartTask, ToRun, ChooseTask, B!Ready
  <2>2. B!Begin(t)
    BY <1>7, <2>1 DEF StartTask, B!Begin
  <2> QED
    BY <2>2 DEF B!Next
<1>8. ASSUME NEW t \in Tasks, RefuseTask(t) PROVE FALSE
  BY <1>8 DEF RefuseTask, Refused
<1>9. ASSUME \/ EnterExecute \/ Finish \/ FinishNow \/ EndRead \/ NoSetscene
             \/ HoldoffStage \/ NoTask \/ TailWait \/ TailFinish \/ Terminated
             \/ \E t \in Setscene :
                   \/ SetsceneNotNeeded(t) \/ SetsceneFail(t)
                   \/ SetsceneSkip(t) \/ TailForceDeferred(t)
             \/ \E t \in Tasks, u \in NewUnihashes : ReadUniHash(t, u)
             \/ UNCHANGED vars
      PROVE  UNCHANGED <<runq_running, runq_complete, failed_tids, runq_live, sq_live>>
  BY <1>9 DEF runq, jobs, vars, EnterExecute, Finish, FinishNow, EndRead,
     NoSetscene, HoldoffStage, NoTask, TailWait, TailFinish, Terminated,
     SetsceneNotNeeded, SetsceneFail, SetsceneSkip, TailForceDeferred, ReadUniHash
<1> QED
  BY <1>1, <1>2, <1>3, <1>4, <1>5, <1>6, <1>7, <1>8, <1>9, MigrateRefuses
  DEF Next, Step, ReadExit

\* The queues, hold-offs, deferrals and migrations together implement what a
\* build promises: a task is begun at most once, after what it depends on,
\* and never on more threads than BB_NUMBER_THREADS.
THEOREM Implements ==
    ASSUME ~SetsceneEnforce
    PROVE  Spec => ImplementsBuild
<1>1. Init => B!Init
  BY DEF Init, B!Init
<1>2. JobCount /\ [Next]_vars => JobCount'
  BY NextJobCount
<1>3. JobCount /\ [Next]_vars => [B!Next]_B!vars
  BY NextImplements
<1> QED
  BY <1>1, <1>2, <1>3, InitJobCount, PTL DEF Spec, ImplementsBuild, B!Spec

-----------------------------------------------------------------------------
(* A build with nothing to do.                                             *)

UpToDate == disk.fresh = {} /\ \A t \in Tasks : disk.task[Name[t]] = unihash[t]

\* With every stamp in place and none of this build, check_stamp_task() says so
\* of every task: a first task of which it does not would have only dependencies
\* of which it does.
LEMMA AllCurrent ==
    ASSUME UpToDate, NEW t \in Tasks, NEW recurse \in BOOLEAN
    PROVE  StampIsCurrent(disk, unihash, t, recurse)
<1> DEFINE ok(u, current) ==
              /\ disk.task[Name[u]] = unihash[u]
              /\ \A d \in Depends[u] :
                   \/ SetsceneStamp(disk, unihash, d) \/ d \in Setscene \cap NoExec
                   \/ Recipe[d] # Recipe[u]
                   \/ /\ disk.task[Name[d]] = unihash[d]
                      /\ Name[d] \in disk.fresh => Name[u] \in disk.fresh
                      /\ recurse => current[d]
           current == CHOOSE f : f = [u \in Tasks |-> ok(u, f)]
           always  == [u \in Tasks |-> TRUE]
<1>1. \A u \in Tasks : Depends[u] \subseteq Tasks
  BY DependsAssumption
<1>2. ASSUME NEW u \in Tasks, NEW f, recurse => \A d \in Depends[u] : f[d]
      PROVE  ok(u, f) = TRUE
  BY <1>1, <1>2 DEF UpToDate
<1>3. \A u \in Tasks : \A d \in Depends[u] : always[d]
  BY <1>1
<1>4. \A u \in Tasks : ok(u, always) = TRUE
  BY <1>2, <1>3
<1> HIDE DEF ok
<1>5. always = [u \in Tasks |-> ok(u, always)]
  BY <1>4
<1>6. current = [u \in Tasks |-> ok(u, current)]
  <2>1. \E f : f = [u \in Tasks |-> ok(u, f)]
    BY <1>5
  <2> HIDE DEF always
  <2> QED
    BY <2>1
<1> HIDE DEF current
<1> DEFINE stale == {u \in Tasks : ~current[u]}
<1>7. ASSUME stale # {} PROVE FALSE
  <2>1. stale \in (SUBSET Tasks) \ {{}}
    BY <1>7
  <2>2. PICK u \in stale : Depends[u] \cap stale = {}
    BY <2>1, AcyclicAssumption
  <2>3. \A d \in Depends[u] : current[d]
    BY <1>1, <2>2
  <2>4. current[u] = ok(u, current)
    BY <1>6, <2>2
  <2> QED
    BY <1>2, <2>2, <2>3, <2>4
<1>8. current[t]
  BY <1>7
<1> QED
  BY <1>8 DEF current, ok, StampIsCurrent

NothingToDo ==
    /\ QueueOrder
    /\ disk = [task |-> disk.task, setscene |-> disk.setscene,
               fresh |-> disk.fresh, sstate |-> disk.sstate]
    /\ unihash = [t \in Tasks |-> unihash[t]]
    /\ \A m \in updated_taskhash_queue :
          m[1] \in runq_running /\ (m[1] \in runq_complete => disk.fresh # {})
    /\ UpToDateRunsNothing

LEMMA InitNothingToDo == Init => NothingToDo
<1> SUFFICES ASSUME Init PROVE NothingToDo
  OBVIOUS
<1>1. QueueOrder
  BY InitQueueOrder
<1>2. PICK tasks, setscene, sstate :
        disk = [task |-> tasks, setscene |-> setscene, fresh |-> {}, sstate |-> sstate]
  BY DEF Init
<1> QED
  BY <1>1, <1>2 DEF Init, NothingToDo, UpToDateRunsNothing, Live

\* Without a report whose task is complete no hash changes.
LEMMA QuietMigration ==
    ASSUME Migrate, ReadyReports = {}, unihash = [t \in Tasks |-> unihash[t]]
    PROVE  UNCHANGED unihash
<1>1. Reported(ReadyReports) = unihash
  BY DEF Reported
<1>2. PICK same : unihash' = Rehash(unihash, same)
  BY <1>1 DEF Migrate
<1> DEFINE total == Closure(Tasks, {t \in Tasks : \E d \in Depends[t] :
                                                unihash[d] # unihash[d]},
                            LAMBDA t : Rev[t])
           remapped == sq.covered \cup sq_live
           hash(t, new) ==
              IF \/ t \notin total
                 \/ \A d \in Depends[t] : new[d] = unihash[d]
                 \/ t \in Setscene /\ (Name[t] \in same \/ t \in remapped)
              THEN unihash[t]
              ELSE Digest([d \in Depends[t] |-> new[d]])
           new == CHOOSE f : f = [t \in Tasks |-> hash(t, f)]
<1>3. total = {}
  BY DEF Closure
<1> HIDE DEF total, remapped
<1>4. \A t, f : hash(t, f) = unihash[t]
  BY <1>3
<1>5. unihash' = [t \in Tasks |-> new[t]]
  BY <1>2 DEF Rehash, total, remapped
<1> HIDE DEF hash
<1>6. \A f : f = [t \in Tasks |-> hash(t, f)] <=> f = unihash
  BY <1>4
<1>7. new = unihash
  BY <1>6
<1> QED
  BY <1>5, <1>7

LEMMA NextNothingToDo ==
    ASSUME ~SetsceneEnforce
    PROVE  NothingToDo /\ [Next]_vars => NothingToDo'
<1> SUFFICES ASSUME NothingToDo, [Next]_vars PROVE NothingToDo'
  OBVIOUS
<1>1. QueueOrder'
  BY NextQueueOrder DEF NothingToDo
<1>2. QueueOrder
  BY DEF NothingToDo
<1> DEFINE D == disk = [task |-> disk.task, setscene |-> disk.setscene,
                        fresh |-> disk.fresh, sstate |-> disk.sstate]
           U == unihash = [t \in Tasks |-> unihash[t]]
           Q == \A m \in updated_taskhash_queue :
                   m[1] \in runq_running /\ (m[1] \in runq_complete => disk.fresh # {})
<1>3. D /\ U /\ Q /\ UpToDateRunsNothing
  BY DEF NothingToDo
<1> DEFINE Kept == /\ UNCHANGED <<disk.task, disk.fresh, unihash>>
                   /\ D' /\ Q'
           Worked == D' /\ Q' /\ U' /\ disk.fresh' # {}
<1>4. ASSUME Worked PROVE NothingToDo'
  BY <1>1, <1>4 DEF NothingToDo, UpToDateRunsNothing
<1>5. ASSUME Kept, Live' \subseteq Live PROVE NothingToDo'
  <2>1. UpToDateRunsNothing'
    BY <1>3, <1>5 DEF UpToDateRunsNothing
  <2> QED
    BY <1>1, <1>3, <1>5, <2>1 DEF NothingToDo
<1>6. ASSUME Kept, ~UpToDate PROVE NothingToDo'
  <2>1. UpToDateRunsNothing'
    BY <1>6 DEF UpToDateRunsNothing, UpToDate
  <2> QED
    BY <1>1, <1>3, <1>6, <2>1 DEF NothingToDo
<1>7. ASSUME UNCHANGED <<disk, unihash, updated_taskhash_queue, runq_running, runq_complete>>
      PROVE  Kept
  BY <1>3, <1>7
<1> HIDE DEF Kept, Worked
<1>8. ASSUME \/ EnterExecute \/ Finish \/ FinishNow \/ EndRead \/ NoSetscene
             \/ HoldoffStage \/ NoTask \/ TailWait \/ TailFinish \/ Terminated
             \/ \E t \in Setscene :
                   \/ SetsceneNotNeeded(t) \/ SetsceneFail(t)
                   \/ SetsceneSkip(t) \/ TailForceDeferred(t)
             \/ \E t \in Tasks : RefuseTask(t)
             \/ UNCHANGED vars
      PROVE  NothingToDo'
  <2>1. UNCHANGED <<disk, unihash, updated_taskhash_queue, runq_running, runq_complete, jobs>>
    BY <1>8 DEF vars, runq, hashes, EnterExecute, Finish, FinishNow, EndRead,
       NoSetscene, HoldoffStage, NoTask, TailWait, TailFinish, Terminated,
       SetsceneNotNeeded, SetsceneFail, SetsceneSkip, TailForceDeferred, RefuseTask
  <2>2. UNCHANGED Live
    BY <2>1 DEF jobs, Live
  <2> QED
    BY <1>5, <1>7, <2>1, <2>2
<1>9. ASSUME NEW t \in Tasks, NEW u \in NewUnihashes, ReadUniHash(t, u) PROVE NothingToDo'
  <2>1. /\ UNCHANGED <<disk, unihash, runq_running, runq_complete, jobs>>
        /\ updated_taskhash_queue' = updated_taskhash_queue \cup {<<t, u>>}
        /\ t \in runq_live
    BY <1>9 DEF ReadUniHash, runq
  <2>2. t \in runq_running \ runq_complete
    BY <1>2, <2>1 DEF QueueOrder
  <2>3. Kept
    BY <1>3, <2>1, <2>2 DEF Kept
  <2>4. UNCHANGED Live
    BY <2>1 DEF jobs, Live
  <2> QED
    BY <1>5, <2>3, <2>4
<1>10. ASSUME NEW t \in Tasks, ReadTaskComplete(t) PROVE NothingToDo'
  <2>1. /\ disk' = [disk EXCEPT !.task[Name[t]] = FinalHash(t),
                      !.setscene[Name[t]] = None,
                      !.fresh = @ \cup {Name[t]},
                      !.sstate = IF t \in Setscene THEN @ \cup {<<Name[t], FinalHash(t)>>}
                                                   ELSE @]
        /\ UNCHANGED <<unihash, updated_taskhash_queue, runq_running>>
    BY <1>10 DEF ReadTaskComplete, TaskDone, hashes
  <2>2. D' /\ Name[t] \in disk'.fresh
    BY <1>3, <2>1
  <2>3. Worked
    BY <1>3, <2>1, <2>2 DEF Worked
  <2> QED
    BY <1>4, <2>3
<1>11. ASSUME NEW t \in Tasks, NoExecTask(t) PROVE NothingToDo'
  <2>1. /\ disk' = [disk EXCEPT !.task[Name[t]] = unihash[t],
                                 !.setscene[Name[t]] = None,
                                 !.fresh = @ \cup {Name[t]}]
        /\ UNCHANGED <<unihash, updated_taskhash_queue>>
        /\ runq_running' = runq_running \cup {t}
    BY <1>11 DEF NoExecTask, hashes
  <2>2. D' /\ Name[t] \in disk'.fresh
    BY <1>3, <2>1
  <2>3. Worked
    BY <1>3, <2>1, <2>2 DEF Worked
  <2> QED
    BY <1>4, <2>3
<1>12. ASSUME NEW t \in Tasks, SkipTask(t) PROVE NothingToDo'
  <2>1. /\ UNCHANGED <<disk, unihash, updated_taskhash_queue, jobs>>
        /\ runq_running' = runq_running \cup {t}
        /\ runq_complete' = runq_complete \cup {t}
        /\ t \notin runq_running
    BY <1>2, <1>12, ChosenIsReady DEF SkipTask, CompleteOutright, hashes
  <2>2. Kept
    BY <1>3, <2>1 DEF Kept
  <2>3. UNCHANGED Live
    BY <2>1 DEF jobs, Live
  <2> QED
    BY <1>5, <2>2, <2>3
<1>13. ASSUME NEW t \in Tasks, ReadTaskFailed(t) PROVE NothingToDo'
  <2>1. /\ UNCHANGED <<disk, unihash, updated_taskhash_queue, runq_running, runq_complete>>
        /\ Live' \subseteq Live
    BY <1>13 DEF ReadTaskFailed, hashes, Live
  <2> QED
    BY <1>5, <1>7, <2>1
<1>14. ASSUME NEW t \in Tasks, ReadSetsceneFailed(t) PROVE NothingToDo'
  <2>1. /\ UNCHANGED <<disk, unihash, updated_taskhash_queue, runq_running, runq_complete>>
        /\ Live' \subseteq Live
    BY <1>14 DEF ReadSetsceneFailed, hashes, runq, Live
  <2> QED
    BY <1>5, <1>7, <2>1
<1>15. ASSUME NEW t \in Tasks, ReadSetsceneComplete(t) PROVE NothingToDo'
  <2>1. /\ disk' = [disk EXCEPT !.setscene[Name[t]] = build_stamps[t]]
        /\ UNCHANGED <<unihash, updated_taskhash_queue, runq_running, runq_complete>>
        /\ Live' \subseteq Live
    BY <1>15 DEF ReadSetsceneComplete, SetsceneDone, hashes, runq, Live
  <2>2. D' /\ UNCHANGED <<disk.task, disk.fresh>>
    BY <1>3, <2>1
  <2>3. Kept
    BY <1>3, <2>1, <2>2 DEF Kept
  <2> QED
    BY <1>5, <2>1, <2>3
<1>16. ASSUME Migrate PROVE NothingToDo'
  <2>1. /\ UNCHANGED <<disk, runq_running, runq_complete, jobs>>
        /\ updated_taskhash_queue' \subseteq updated_taskhash_queue
        /\ unihash' = [t \in Tasks |-> unihash'[t]]
    BY <1>16 DEF Migrate, Rehash
  <2>2. UNCHANGED Live
    BY <2>1 DEF jobs, Live
  <2>3. CASE disk.fresh = {}
    <3>1. ReadyReports = {}
      BY <1>3, <2>3 DEF ReadyReports
    <3>2. UNCHANGED unihash
      BY <1>3, <1>16, <3>1, QuietMigration
    <3>3. Kept
      BY <1>3, <2>1, <3>2 DEF Kept
    <3> QED
      BY <1>5, <2>2, <3>3
  <2>4. CASE disk.fresh # {}
    <3>1. Worked
      BY <1>3, <2>1, <2>4 DEF Worked
    <3> QED
      BY <1>4, <3>1
  <2> QED
    BY <2>3, <2>4
<1>17. ASSUME NEW t \in Setscene, SetsceneStart(t) PROVE NothingToDo'
  <2>1. Kept
    BY <1>7, <1>17 DEF SetsceneStart, runq, hashes
  <2>2. ~StampIsCurrent(disk, unihash, t, TRUE) /\ t \in Tasks
    BY <1>17, SubsetsAssumption DEF SetsceneStart, SetsceneHopeless
  <2> QED
    BY <1>6, <2>1, <2>2, AllCurrent
<1>18. ASSUME NEW t \in Tasks, StartTask(t) PROVE NothingToDo'
  <2>1. ~StampIsCurrent(disk, unihash, t, FALSE)
    BY <1>18 DEF StartTask, ToRun
  <2>2. /\ UNCHANGED <<disk, unihash, updated_taskhash_queue, runq_complete>>
        /\ runq_running' = runq_running \cup {t} /\ t \notin runq_running
    BY <1>2, <1>18, ChosenIsReady DEF StartTask, ToRun, hashes
  <2>3. Kept
    BY <1>3, <2>2 DEF Kept
  <2> QED
    BY <1>6, <2>1, <2>3, AllCurrent
<1> QED
  BY <1>8, <1>9, <1>10, <1>11, <1>12, <1>13, <1>14, <1>15, <1>16, <1>17, <1>18
  DEF Next, Step, ReadExit

\* A build that finds every stamp in place starts no job of either queue, on
\* every task graph and whatever the caches hold: nothing that is read before the
\* first job has run (hash reports, setscene stamps, skipped tasks) makes a stamp
\* out of date. BB_SETSCENE_ENFORCE is excluded: it makes a dry run, which leaves
\* no stamps.
THEOREM NothingRuns ==
    ASSUME ~SetsceneEnforce
    PROVE  Spec => []UpToDateRunsNothing
<1>1. NothingToDo => UpToDateRunsNothing
  BY DEF NothingToDo
<1>2. NothingToDo /\ [Next]_vars => NothingToDo'
  BY NextNothingToDo
<1> QED
  BY <1>1, <1>2, InitNothingToDo, PTL DEF Spec

-----------------------------------------------------------------------------
(* The setscene queue. When setscene tasks name others in their [depends]  *)
(* flag (HardDeps), their hashes may not change and hard dependants are    *)
(* not deferred after a twin: otherwise the code does fail a setscene task *)
(* whose job is running, and puts one that was migrated or deferred in     *)
(* both scenequeue_covered and scenequeue_notcovered.                      *)
(*                                                                         *)
(* First what the static data says of the task graph, and what the         *)
(* handlers of SceneQueue make of a state of the queue.                    *)

HardDepsInOrder ==
    \/ HardDeps = {}
    \/ NewUnihashes = {} /\ \A p \in HardDeps : p[2] = FirstOfName(p[2])

\* No setscene task that has a hard dependency is one itself.
HardDepsFlat == \A p, q \in HardDeps : p[2] # q[1]

\* A family of subsets of a finite set has a smallest member.
LEMMA SmallestSubset ==
    ASSUME NEW S, IsFiniteSet(S), NEW F, F \subseteq SUBSET S, F # {}
    PROVE  \E D \in F : \A E \in F : E \subseteq D => E = D
<1>1. FiniteSubsetsOf(S) = SUBSET S
  BY FS_FiniteSubsetsOfFinite
<1>2. IsWellFoundedOn(StrictSubsetOrdering(S), SUBSET S)
  BY <1>1, FS_StrictSubsetOrderingWellFounded
<1>3. PICK D \in F : \A E \in F : ~ (<<E, D>> \in StrictSubsetOrdering(S))
  BY <1>2, WFMin
<1> QED
  BY <1>3 DEF StrictSubsetOrdering

\* The task graph is finite, so that a set of tasks has one that nothing in the
\* set depends on, as it has one that depends on nothing in the set.
LEMMA GraphShape == Shape(G)
<1>1. G.tasks = Tasks /\ G.depends = Depends /\ G.setscene = Setscene
  BY DEF G
<1>2. ASSUME NEW C \in (SUBSET Tasks) \ {{}}
      PROVE  \E t \in C : \A u \in C : t \notin Depends[u]
  <2> DEFINE F == {D \in SUBSET C : /\ D # {}
                                    /\ \A d \in D, u \in C : d \in Depends[u] => u \in D}
  <2>1. C \in F
    OBVIOUS
  <2>2. F \subseteq SUBSET Tasks /\ F # {}
    BY <2>1
  <2>3. PICK D \in F : \A E \in F : E \subseteq D => E = D
    <3> HIDE DEF F
    <3> QED
      BY <2>2, SmallestSubset, TasksAssumption, ZenonT(30)
  <2>4. PICK t \in D : Depends[t] \cap D = {}
    BY <2>3, AcyclicAssumption
  <2>5. D \ {t} \notin F
    <3> HIDE DEF F
    <3> QED
      BY <2>3
  <2>6. \A d \in D \ {t}, u \in C : d \in Depends[u] => u \in D \ {t}
    BY <2>3, <2>4
  <2>7. D = {t}
    BY <2>3, <2>5, <2>6
  <2>8. \A u \in C : t \notin Depends[u]
    BY <2>3, <2>4, <2>7
  <2> QED
    BY <2>3, <2>4, <2>8
<1> QED
  BY <1>1, <1>2, DependsAssumption, SubsetsAssumption DEF Shape

-----------------------------------------------------------------------------
\* What the static data of the setscene queue says of the task graph.
LEMMA StaticFacts ==
    /\ Unskip \subseteq Tasks
    /\ Setscene \subseteq Tasks
    /\ \A t \in Tasks : Rev[t] = {u \in Tasks : t \in Depends[u]}
    /\ \A t \in Tasks : Depends[t] \subseteq Tasks
    /\ CantSkip \subseteq Unskip
    /\ \A t \in Tasks : Rev[t] = {} => t \in Unskip
    /\ \A p \in Unskip \ Setscene : Depends[p] \subseteq Unskip
    /\ \A s \in Setscene : SqCovers[s] \subseteq Tasks \ Setscene
    /\ \A s \in Setscene : SqRev[s] \subseteq Setscene
    /\ \A s \in Setscene : SqDeps[s] = {d \in Setscene : s \in SqRev[d]}
<1> USE GraphShape, SubsetsAssumption, DependsAssumption
<1>1. G.tasks = Tasks /\ G.depends = Depends /\ G.setscene = Setscene /\ G.cantskip = CantSkip
  BY DEF G
<1>2. \A t \in Tasks : Rev[t] = {u \in Tasks : t \in Depends[u]}
  BY <1>1 DEF Rev, Revdeps
<1>3. CantSkip \subseteq Tasks
  BY DEF CantSkip
<1>4. Endpoints(G) \cap Tasks = {t \in Tasks : Rev[t] = {}}
  BY <1>1, <1>2 DEF Endpoints, Revdeps
<1>5. /\ Unskip \subseteq Tasks
      /\ (Endpoints(G) \cup CantSkip) \cap Tasks \subseteq Unskip
      /\ \A p \in Unskip \ Setscene : Depends[p] \subseteq Unskip
  BY <1>1, UnskippableHolds DEF Unskip
<1>6. \A s \in Setscene : SqCovers[s] = Chain(G, s) \ Setscene
  BY <1>1 DEF SqCovers, CoveredTasks
<1>7. \A s \in Setscene : Chain(G, s) \subseteq Tasks
  BY <1>1, ChainHolds
<1>8. \A s \in Setscene : SqRev[s] \subseteq Setscene
  BY <1>1 DEF SqRev, SqRevdeps, Squashed
<1> QED
  BY <1>2, <1>3, <1>4, <1>5, <1>6, <1>7, <1>8 DEF SqDeps

\* The plain tasks below a setscene task, and the setscene tasks that wait for
\* it, follow from what it and those plain tasks depend on.
LEMMA BelowFacts ==
    ASSUME NEW s \in Setscene, NEW u \in {s} \cup SqCovers[s]
    PROVE  /\ \A d \in Depends[u] \ Setscene : d \in SqCovers[s]
           /\ \A d \in Depends[u] \cap Setscene :
                 s \in SqRev[d] \/ \E b \in Setscene : <<d, b>> \in HardDeps
<1> USE GraphShape, SubsetsAssumption, DependsAssumption
<1>1. G.tasks = Tasks /\ G.depends = Depends /\ G.setscene = Setscene /\ G.harddeps = HardDeps
  BY DEF G
<1>2. SqCovers[s] = Chain(G, s) \ Setscene
  BY <1>1 DEF SqCovers, CoveredTasks
<1>3. Depends[u] \subseteq Chain(G, s)
  BY <1>1, <1>2, ChainHolds
<1>4. ASSUME NEW d \in Setscene, d \in Chain(G, s), ~\E b \in Setscene : <<d, b>> \in HardDeps
      PROVE  s \in SqRev[d]
  <2>1. Squashed(G)[d] = {r \in Setscene : d \in Chain(G, r)}
    BY <1>1 DEF Squashed
  <2>2. HardDependants(G, d) = {}
    BY <1>1, <1>4 DEF HardDependants
  <2>3. SqRev[d] = Squashed(G)[d] \cup {a \in Setscene : <<a, d>> \in G.harddeps}
    BY <1>1, <2>2 DEF SqRev, SqRevdeps
  <2> QED
    BY <1>4, <2>1, <2>3
<1> QED
  BY <1>2, <1>3, <1>4

\* A task that others name as a hard dependency and that names none itself comes
\* after no setscene task.
LEMMA HardDependencyFirst ==
    ASSUME HardDepsFlat, NEW d \in Setscene, NEW b \in Setscene, <<d, b>> \in HardDeps
    PROVE  SqRev[d] = {}
<1>1. SqRev[d] = {a \in Setscene : <<a, d>> \in HardDeps}
  BY DEF SqRev, SqRevdeps, HardDependants, G
<1>2. ASSUME NEW a \in Setscene, <<a, d>> \in HardDeps PROVE FALSE
  <2> DEFINE p == <<a, d>>
             q == <<d, b>>
  <2>1. p \in HardDeps /\ q \in HardDeps /\ p[2] = q[1]
    BY <1>2
  <2> HIDE DEF p, q
  <2> QED
    BY <2>1 DEF HardDepsFlat
<1> QED
  BY <1>1, <1>2

LEMMA BelowLinked ==
    ASSUME NEW s \in Setscene, NEW p \in SqCovers[s]
    PROVE  \E u \in {s} \cup SqCovers[s] : p \in Depends[u]
<1>1. G.tasks = Tasks /\ G.depends = Depends /\ G.setscene = Setscene
  BY DEF G
<1>2. SqCovers[s] = Chain(G, s) \ Setscene
  BY <1>1 DEF SqCovers, CoveredTasks
<1> QED
  BY <1>1, <1>2, GraphShape, ChainLinked

LEMMA PlainFacts ==
    ASSUME NEW t \in Tasks \ Setscene
    PROVE  t \in Unskip \/ \E s \in Setscene : t \in SqCovers[s]
BY GraphShape, PlainTaskSettled DEF G, Unskip, SqCovers

-----------------------------------------------------------------------------
Settled(q) == q.covered \cup q.notcovered

Unsettled(q) == Setscene \ Settled(q)

SceneFields ==
    {"buildable", "running", "covered", "notcovered", "notneeded", "done",
     "deferred", "outrightfail", "stamps", "holdoff_need_update"}

SceneTypes(q) ==
    /\ q = [f \in SceneFields |-> q[f]]
    /\ q.buildable \subseteq Setscene
    /\ q.covered \subseteq Setscene /\ q.notcovered \subseteq Setscene
    /\ q.done \subseteq Tasks
    /\ q.deferred = [s \in Setscene |-> q.deferred[s]]
    /\ q.holdoff_need_update \in BOOLEAN

\* A setscene task is covered or not, never both, and settled for good but for
\* a migration; what is deferred has not failed, and is not the first of its name.
SettledOnce(q) ==
    /\ q.covered \cap q.notcovered = {}
    /\ Settled(q) \subseteq q.buildable \cap q.running \cap q.done
    /\ \A s \in Setscene : q.deferred[s] # None => s \notin q.notcovered /\ s # FirstOfName(s)
    /\ \A d \in q.notneeded :
          d \in Setscene \ Unskip /\ SqRev[d] # {} /\ SqRev[d] \subseteq q.covered

\* Without hard dependencies a task is buildable if what comes before it is
\* settled, with them only if it is (a migration reopens what comes before).
ReadyBuildable(q) ==
    /\ HardDeps = {} => \A d \in Setscene : SqRev[d] \subseteq Settled(q) => d \in q.buildable
    /\ HardDeps # {} => \A d \in (q.buildable \cup q.running) \ Settled(q) :
                           SqRev[d] \subseteq Settled(q)

DoneClosed(done) ==
    /\ Unskip \ Setscene \subseteq done
    /\ \A p \in Tasks \ Setscene : Rev[p] \subseteq done => p \in done

SceneOK(q) ==
    SceneTypes(q) /\ SettledOnce(q) /\ ReadyBuildable(q) /\ DoneClosed(q.done)

\* scenequeue_updatecounters() adds the settled tasks and plain ones, and
\* follows the plain tasks as far as they go.
LEMMA DoneWithFacts ==
    ASSUME NEW done \in SUBSET Tasks, NEW settled \in SUBSET Setscene
    PROVE  /\ done \cup settled \subseteq DoneWith(done, settled)
           /\ DoneWith(done, settled) \subseteq Tasks
           /\ DoneWith(done, settled) \cap Setscene \subseteq done \cup settled
           /\ DoneClosed(done) => DoneClosed(DoneWith(done, settled))
<1> USE StaticFacts
<1> DEFINE closed(C) ==
              /\ done \cup settled \subseteq C
              /\ \A v \in C \ (done \ settled) :
                   \A d \in Depends[v] \ Setscene : Rev[d] \subseteq C => d \in C
           R == DoneWith(done, settled)
<1>1. R = {x \in Tasks : \A C \in SUBSET Tasks : closed(C) => x \in C}
  BY DEF DoneWith
<1> DEFINE most == done \cup settled \cup (Tasks \ Setscene)
<1>2. closed(most) /\ most \in SUBSET Tasks
  OBVIOUS
<1>3. R \cap Setscene \subseteq done \cup settled
  <2> HIDE DEF closed
  <2> QED
    BY <1>1, <1>2
<1>4. done \cup settled \subseteq R /\ R \subseteq Tasks
  BY <1>1
<1>5. closed(R)
  BY <1>1, <1>4
<1>6. ASSUME DoneClosed(done), NEW p \in Tasks \ Setscene, Rev[p] \subseteq R PROVE p \in R
  <2>1. CASE \E v \in Rev[p] : v \notin done \ settled
    BY <1>5, <1>6, <2>1
  <2>2. CASE Rev[p] \subseteq done \ settled
    BY <1>4, <1>6, <2>2 DEF DoneClosed
  <2> QED
    BY <2>1, <2>2
<1> QED
  BY <1>3, <1>4, <1>6 DEF DoneClosed

-----------------------------------------------------------------------------
\* r is q with the tasks in K settled, as covered or as not covered.
Settles(q, K, r) ==
    /\ SceneTypes(r)
    /\ q.buildable \cup K \subseteq r.buildable
    /\ HardDeps = {} =>
          \A t \in K : \A d \in SqDeps[t] : SqRev[d] \subseteq Settled(r) => d \in r.buildable
    /\ \A d \in r.buildable \ (q.buildable \cup K) : SqRev[d] \subseteq Settled(r)
    /\ r.running = q.running \cup K
    /\ r.done = DoneWith(q.done, K)
    /\ r.notneeded = q.notneeded /\ r.deferred = q.deferred
    /\ r.holdoff_need_update = TRUE

SettlesCovered(q, K, r) ==
    Settles(q, K, r) /\ r.covered = q.covered \cup K /\ r.notcovered = q.notcovered

SettlesFailed(q, K, r) ==
    Settles(q, K, r) /\ r.covered = q.covered /\ r.notcovered = q.notcovered \cup K

LEMMA CoverFacts ==
    ASSUME NEW q, SceneTypes(q), NEW K \in SUBSET Setscene
    PROVE  SettlesCovered(q, K, Cover(q, K))
<1> DEFINE p == [q EXCEPT !.running   = @ \cup K,
                          !.buildable = @ \cup K,
                          !.covered   = @ \cup K]
<1>1. /\ q = [f \in SceneFields |-> q[f]]
      /\ q.covered \subseteq Setscene /\ q.buildable \subseteq Setscene
  BY DEF SceneTypes
<1>2. /\ p = [f \in SceneFields |-> p[f]]
      /\ p.running = q.running \cup K /\ p.buildable = q.buildable \cup K
      /\ p.covered = q.covered \cup K /\ p.notcovered = q.notcovered
      /\ p.done = q.done /\ p.notneeded = q.notneeded /\ p.deferred = q.deferred
      /\ p.holdoff_need_update = q.holdoff_need_update
  BY <1>1 DEF SceneFields
<1> DEFINE next == UNION {SqDeps[t] \ {} : t \in K}
           r == Cover(q, K)
<1>3. r = [p EXCEPT !.buildable = @ \cup {d \in next :
                                      SqRev[d] \subseteq p.covered \cup p.notcovered},
                    !.done = DoneWith(@, K),
                    !.holdoff_need_update = TRUE]
  BY DEF Cover, UpdateCounters
<1>4. next \subseteq Setscene /\ \A t \in K : SqDeps[t] \subseteq next
  BY StaticFacts
<1> HIDE DEF p, next, r
<1>5. p.covered \subseteq Setscene /\ p.buildable \subseteq Setscene
  BY <1>1, <1>2
<1>6. SceneTypes(p)
  BY <1>2, <1>5 DEF SceneTypes
<1>7. /\ r = [f \in SceneFields |-> r[f]]
      /\ r.running = p.running
      /\ r.buildable = p.buildable \cup {d \in next :
                                    SqRev[d] \subseteq p.covered \cup p.notcovered}
      /\ r.covered = p.covered /\ r.notcovered = p.notcovered
      /\ r.done = DoneWith(p.done, K) /\ r.notneeded = p.notneeded /\ r.deferred = p.deferred
      /\ r.holdoff_need_update = TRUE
  BY <1>2, <1>3 DEF SceneFields
<1>8. SceneTypes(r)
  <2>1. DoneWith(p.done, K) \subseteq Tasks
    BY DEF DoneWith
  <2>2. p.deferred = [s \in Setscene |-> p.deferred[s]]
    BY <1>6 DEF SceneTypes
  <2>3. /\ p.covered \subseteq Setscene /\ p.notcovered \subseteq Setscene
        /\ p.buildable \subseteq Setscene
    BY <1>6 DEF SceneTypes
  <2>4. /\ r.covered \subseteq Setscene /\ r.notcovered \subseteq Setscene
        /\ r.done \subseteq Tasks /\ r.holdoff_need_update \in BOOLEAN
        /\ r.deferred = [s \in Setscene |-> r.deferred[s]]
        /\ r.buildable \subseteq Setscene
    BY <1>4, <1>7, <2>1, <2>2, <2>3
  <2> QED
    BY <1>7, <2>4 DEF SceneTypes
<1>9. /\ \A t \in K : \A d \in SqDeps[t] : SqRev[d] \subseteq Settled(r) => d \in r.buildable
      /\ \A d \in r.buildable \ (q.buildable \cup K) : SqRev[d] \subseteq Settled(r)
  BY <1>2, <1>4, <1>7 DEF Settled
<1>10. SettlesCovered(q, K, r)
  BY <1>2, <1>7, <1>8, <1>9 DEF SettlesCovered, Settles
<1> QED
  BY <1>10 DEF r

\* A failure settles the task and hard dependants that have not begun.
LEMMA FailFacts ==
    ASSUME HardDepsInOrder, NEW q, SceneOK(q), NEW t \in Setscene,
           t \notin Settled(q), q.deferred[t] = None, NEW dsk, NEW uni
    PROVE  \E F \in SUBSET Setscene :
              /\ t \in F /\ F \cap Settled(q) = {} /\ F \cap q.running \subseteq {t}
              /\ \A s \in F : q.deferred[s] = None
              /\ SettlesFailed(q, F, FailOutright(q, {t}, dsk, uni))
<1> DEFINE open(a) == {b \in HardDependants(G, a) :
                         /\ b \notin q.covered \cup q.notcovered \cup NoExec
                         /\ ~StampPresent(dsk, uni, b)}
           failed == Closure(Setscene, {t}, open)
           p == [q EXCEPT !.running    = @ \cup failed,
                          !.buildable  = @ \cup failed,
                          !.notcovered = @ \cup failed]
<1>1. /\ \A a : HardDependants(G, a) = {b \in Setscene : <<a, b>> \in HardDeps}
      /\ \A a : open(a) \subseteq {b \in Setscene \ Settled(q) : <<a, b>> \in HardDeps}
  BY DEF HardDependants, G, Settled
<1> DEFINE dependants == {b \in Setscene \ Settled(q) :
                            \E a \in Setscene \ Settled(q) : <<a, b>> \in HardDeps}
<1>2. /\ failed \subseteq {t} \cup dependants
      /\ t \in failed
  <2>1. failed = {x \in Setscene : \A C \in SUBSET Setscene :
                     {t} \subseteq C /\ (\A c \in C : open(c) \subseteq C) => x \in C}
    BY DEF Closure
  <2>2. \A c \in {t} \cup dependants : open(c) \subseteq dependants
    <3> HIDE DEF open
    <3> QED
      BY <1>1
  <2>3. {t} \cup dependants \in SUBSET Setscene
    OBVIOUS
  <2> HIDE DEF open, dependants
  <2> QED
    BY <2>1, <2>2, <2>3
<1>3. /\ failed \subseteq Setscene /\ failed \cap Settled(q) = {}
      /\ failed \cap q.running \subseteq {t}
      /\ \A s \in failed : q.deferred[s] = None
      /\ HardDeps = {} => failed = {t}
  <2>1. ASSUME NEW b \in dependants
        PROVE  b \notin q.running /\ q.deferred[b] = None
    <3>1. PICK a \in Setscene \ Settled(q) : <<a, b>> \in HardDeps
      OBVIOUS
    <3>2. a \in SqRev[b]
      BY <3>1 DEF SqRev, SqRevdeps, G
    <3>3. b \notin (q.buildable \cup q.running) \ Settled(q)
      BY <3>1, <3>2 DEF SceneOK, ReadyBuildable
    <3>4. b = FirstOfName(b)
      <4> DEFINE link == <<a, b>>
      <4>1. link \in HardDeps /\ link[2] = b
        BY <3>1
      <4> HIDE DEF link
      <4> QED
        BY <4>1 DEF HardDepsInOrder
    <3> QED
      BY <3>3, <3>4 DEF SceneOK, SettledOnce
  <2> HIDE DEF failed
  <2> QED
    BY <1>2, <2>1
<1> DEFINE next == UNION {SqDeps[u] \ HardDependants(G, u) : u \in failed}
           r == FailOutright(q, {t}, dsk, uni)
<1>4. r = [p EXCEPT !.buildable = @ \cup {d \in next :
                                      SqRev[d] \subseteq p.covered \cup p.notcovered},
                    !.done = DoneWith(@, failed),
                    !.holdoff_need_update = TRUE]
  BY DEF FailOutright, UpdateCounters
<1>5. /\ next \subseteq Setscene
      /\ HardDeps = {} => \A u \in failed : SqDeps[u] \subseteq next
  <2> HIDE DEF failed
  <2>1. \A u \in failed : SqDeps[u] \subseteq Setscene
    BY <1>3, StaticFacts
  <2>2. HardDeps = {} => \A u \in failed : HardDependants(G, u) = {}
    BY <1>1
  <2> QED
    BY <2>1, <2>2
<1> HIDE DEF failed, open, next, r, dependants
<1>6. /\ q = [f \in SceneFields |-> q[f]]
      /\ q.notcovered \subseteq Setscene /\ q.buildable \subseteq Setscene
      /\ SceneTypes(q)
  BY DEF SceneOK, SceneTypes
<1>7. /\ p = [f \in SceneFields |-> p[f]]
      /\ p.running = q.running \cup failed /\ p.buildable = q.buildable \cup failed
      /\ p.notcovered = q.notcovered \cup failed /\ p.covered = q.covered
      /\ p.done = q.done /\ p.notneeded = q.notneeded /\ p.deferred = q.deferred
      /\ p.holdoff_need_update = q.holdoff_need_update
  BY <1>6 DEF SceneFields
<1> HIDE DEF p
<1>8. SceneTypes(p)
  <2>1. p.notcovered \subseteq Setscene /\ p.buildable \subseteq Setscene
    BY <1>3, <1>6, <1>7
  <2> QED
    BY <1>6, <1>7, <2>1 DEF SceneTypes
<1>9. /\ r = [f \in SceneFields |-> r[f]]
      /\ r.running = p.running
      /\ r.buildable = p.buildable \cup {d \in next :
                                    SqRev[d] \subseteq p.covered \cup p.notcovered}
      /\ r.covered = p.covered /\ r.notcovered = p.notcovered
      /\ r.done = DoneWith(p.done, failed) /\ r.notneeded = p.notneeded
      /\ r.deferred = p.deferred /\ r.holdoff_need_update = TRUE
  BY <1>4, <1>7 DEF SceneFields
<1>10. SceneTypes(r)
  <2>1. DoneWith(p.done, failed) \subseteq Tasks
    BY DEF DoneWith
  <2>2. p.deferred = [s \in Setscene |-> p.deferred[s]]
    BY <1>8 DEF SceneTypes
  <2>3. /\ p.covered \subseteq Setscene /\ p.notcovered \subseteq Setscene
        /\ p.buildable \subseteq Setscene
    BY <1>8 DEF SceneTypes
  <2>4. /\ r.covered \subseteq Setscene /\ r.notcovered \subseteq Setscene
        /\ r.done \subseteq Tasks /\ r.holdoff_need_update \in BOOLEAN
        /\ r.deferred = [s \in Setscene |-> r.deferred[s]]
        /\ r.buildable \subseteq Setscene
    BY <1>5, <1>9, <2>1, <2>2, <2>3
  <2> QED
    BY <1>9, <2>4 DEF SceneTypes
<1>11. /\ HardDeps = {} => \A u \in failed : \A d \in SqDeps[u] :
                              SqRev[d] \subseteq Settled(r) => d \in r.buildable
       /\ \A d \in r.buildable \ (q.buildable \cup failed) : SqRev[d] \subseteq Settled(r)
  BY <1>5, <1>7, <1>9 DEF Settled
<1>12. SettlesFailed(q, failed, r)
  BY <1>7, <1>9, <1>10, <1>11 DEF SettlesFailed, Settles
<1> QED
  BY <1>2, <1>3, <1>12 DEF r

\* Settling a task keeps the order of the setscene queue.
LEMMA SettlingKeeps ==
    ASSUME NEW q, SceneOK(q), NEW K \in SUBSET Setscene, NEW r,
           \/ SettlesCovered(q, K, r) /\ K \cap q.notcovered = {}
           \/ /\ SettlesFailed(q, K, r) /\ K \cap q.covered = {}
              /\ \A s \in K : q.deferred[s] = None
    PROVE  SceneOK(r)
<1>1. /\ SceneTypes(r) /\ Settled(r) = Settled(q) \cup K
      /\ q.covered \subseteq r.covered
      /\ q.buildable \cup K \subseteq r.buildable
      /\ HardDeps = {} =>
            \A t \in K : \A d \in SqDeps[t] : SqRev[d] \subseteq Settled(r) => d \in r.buildable
      /\ \A d \in r.buildable \ (q.buildable \cup K) : SqRev[d] \subseteq Settled(r)
      /\ r.running = q.running \cup K
      /\ r.done = DoneWith(q.done, K)
      /\ r.notneeded = q.notneeded /\ r.deferred = q.deferred
  BY DEF SettlesCovered, SettlesFailed, Settles, Settled
<1>2. SettledOnce(q) /\ ReadyBuildable(q) /\ DoneClosed(q.done) /\ q.done \subseteq Tasks
  BY DEF SceneOK, SceneTypes
<1>3. q.done \cup K \subseteq r.done /\ DoneClosed(r.done)
  BY <1>1, <1>2, DoneWithFacts
<1>4. SettledOnce(r)
  <2>1. r.covered \cap r.notcovered = {}
    BY <1>2 DEF SettledOnce, SettlesCovered, SettlesFailed
  <2>2. Settled(r) \subseteq r.buildable \cap r.running \cap r.done
    BY <1>1, <1>2, <1>3 DEF SettledOnce
  <2>3. \A s \in Setscene : r.deferred[s] # None => s \notin r.notcovered /\ s # FirstOfName(s)
    BY <1>1, <1>2 DEF SettledOnce, SettlesCovered, SettlesFailed
  <2> QED
    BY <1>1, <1>2, <2>1, <2>2, <2>3 DEF SettledOnce
<1>5. ReadyBuildable(r)
  <2>1. ASSUME HardDeps = {}, NEW d \in Setscene, SqRev[d] \subseteq Settled(r)
        PROVE  d \in r.buildable
    <3>1. CASE SqRev[d] \subseteq Settled(q)
      BY <1>1, <1>2, <2>1, <3>1 DEF ReadyBuildable
    <3>2. ASSUME NEW t \in K, t \in SqRev[d] PROVE d \in r.buildable
      BY <1>1, <2>1, <3>2, StaticFacts
    <3> QED
      BY <1>1, <2>1, <3>1, <3>2
  <2>2. ASSUME HardDeps # {}, NEW d \in (r.buildable \cup r.running) \ Settled(r)
        PROVE  SqRev[d] \subseteq Settled(r)
    <3>1. CASE d \in q.buildable \cup q.running
      BY <1>1, <1>2, <2>2, <3>1 DEF ReadyBuildable
    <3> QED
      BY <1>1, <2>2, <3>1
  <2> QED
    BY <2>1, <2>2 DEF ReadyBuildable
<1> QED
  BY <1>1, <1>3, <1>4, <1>5 DEF SceneOK

\* update_scenequeue_data() covers some of the tasks it looks at.
LEMMA LookFacts ==
    ASSUME NEW q, SceneTypes(q), NEW S \in SUBSET Setscene,
           NEW dsk, NEW uni
    PROVE  \E K \in SUBSET S : SettlesCovered(q, K, UpdateSceneQueueData(q, S, dsk, uni))
<1> DEFINE K == {t \in S : t \in NoExec \/ StampPresent(dsk, uni, t)}
           p == [q EXCEPT !.outrightfail = @ \ S]
           now == Cover(p, K)
           r == UpdateSceneQueueData(q, S, dsk, uni)
<1>1. PICK missing : r = [now EXCEPT !.outrightfail = @ \cup missing]
  BY DEF UpdateSceneQueueData
<1>2. K \in SUBSET S /\ K \in SUBSET Setscene
  OBVIOUS
<1> HIDE DEF K, r
<1>3. q = [f \in SceneFields |-> q[f]]
  BY DEF SceneTypes
<1>4. /\ p = [f \in SceneFields |-> p[f]]
      /\ p.running = q.running /\ p.buildable = q.buildable
      /\ p.notcovered = q.notcovered /\ p.covered = q.covered
      /\ p.done = q.done /\ p.notneeded = q.notneeded /\ p.deferred = q.deferred
      /\ p.holdoff_need_update = q.holdoff_need_update
  BY <1>3 DEF SceneFields
<1> HIDE DEF p
<1>5. SceneTypes(p)
  BY <1>4 DEF SceneTypes
<1>6. SettlesCovered(p, K, now)
  BY <1>2, <1>5, CoverFacts
<1> HIDE DEF now
<1>7. SceneTypes(now)
  BY <1>6 DEF SettlesCovered, Settles
<1>8. now = [f \in SceneFields |-> now[f]]
  BY <1>7 DEF SceneTypes
<1>9. /\ r = [f \in SceneFields |-> r[f]]
      /\ r.running = now.running /\ r.buildable = now.buildable
      /\ r.notcovered = now.notcovered /\ r.covered = now.covered
      /\ r.done = now.done /\ r.notneeded = now.notneeded /\ r.deferred = now.deferred
      /\ r.holdoff_need_update = now.holdoff_need_update
  BY <1>1, <1>8 DEF SceneFields
<1>10. SceneTypes(r)
  BY <1>7, <1>9 DEF SceneTypes
<1>11. SettlesCovered(q, K, r)
  BY <1>4, <1>6, <1>9, <1>10 DEF SettlesCovered, Settles, Settled
<1> QED
  BY <1>2, <1>11 DEF r

LEMMA MinIsMember ==
    ASSUME NEW S \in SUBSET Tasks, S # {}
    PROVE  Min(S) \in S
<1> DEFINE upto(n) == {m \in S : m <= n}
           F == {upto(n) : n \in S}
<1>1. S \in SUBSET Nat
  BY TasksAssumption
<1>2. IsFiniteSet(S)
  BY TasksAssumption, FS_Subset
<1>3. F \subseteq SUBSET S /\ F # {}
  OBVIOUS
<1>4. PICK D \in F : \A E \in F : E \subseteq D => E = D
  <2> HIDE DEF F
  <2>1. F \subseteq SUBSET S
    BY <1>3
  <2>2. F # {}
    BY <1>3
  <2> QED
    BY ONLY <1>2, <2>1, <2>2, SmallestSubset
<1>5. PICK n \in S : D = upto(n)
  BY <1>4
<1>6. ASSUME NEW m \in S PROVE n <= m
  <2>1. CASE m < n
    <3>1. \A k \in S : k \in Nat
      BY <1>1
    <3>2. \A k \in S : k <= m => k <= n
      BY <3>1, <2>1
    <3>3. upto(m) \subseteq upto(n)
      BY <3>2
    <3>4. upto(m) \in F
      OBVIOUS
    <3>5. upto(m) = upto(n)
      <4> HIDE DEF upto, F
      <4> QED
        BY <1>4, <1>5, <3>3, <3>4
    <3>6. n \in upto(n)
      BY <1>1
    <3>7. n \in upto(m)
      BY <3>5, <3>6
    <3> QED
      BY <3>7
  <2> QED
    BY <1>1, <2>1
<1> QED
  BY <1>6 DEF Min

\* What a change of the deferrals leaves of the order of the setscene queue.
LEMMA DeferKeeps ==
    ASSUME NEW q, SceneOK(q),
           NEW def, def = [s \in Setscene |-> def[s]],
           \A s \in Setscene : def[s] # None => s \notin q.notcovered /\ s # FirstOfName(s)
    PROVE  SceneOK([q EXCEPT !.deferred = def])
<1> DEFINE r == [q EXCEPT !.deferred = def]
<1>1. q = [f \in SceneFields |-> q[f]]
  BY DEF SceneOK, SceneTypes
<1>2. /\ r = [f \in SceneFields |-> r[f]]
      /\ r.running = q.running /\ r.buildable = q.buildable
      /\ r.notcovered = q.notcovered /\ r.covered = q.covered
      /\ r.done = q.done /\ r.notneeded = q.notneeded /\ r.deferred = def
      /\ r.holdoff_need_update = q.holdoff_need_update
  BY <1>1 DEF SceneFields
<1> HIDE DEF r
<1>3. SceneTypes(r)
  <2>1. /\ r.covered \subseteq Setscene /\ r.notcovered \subseteq Setscene
        /\ r.done \subseteq Tasks /\ r.holdoff_need_update \in BOOLEAN
        /\ r.buildable \subseteq Setscene
    BY <1>2 DEF SceneOK, SceneTypes
  <2> QED
    BY <1>2, <2>1 DEF SceneTypes
<1>4. SettledOnce(r) /\ ReadyBuildable(r) /\ DoneClosed(r.done)
  BY <1>2 DEF SceneOK, SettledOnce, ReadyBuildable, Settled
<1>5. SceneOK(r)
  BY <1>3, <1>4 DEF SceneOK
<1> QED
  BY <1>5 DEF r

\* What task_completeoutright() does to the setscene queue: it may cover tasks
\* that were deferred.
Releases(q, r) ==
    /\ SceneOK(r)
    /\ r = q \/ r.holdoff_need_update = TRUE
    /\ \E K \in SUBSET Setscene :
         /\ \A s \in K : q.deferred[s] # None
         /\ r.covered = q.covered \cup K
         /\ r.running = q.running \cup K
    /\ r.notcovered = q.notcovered
    /\ \A s \in Setscene : q.deferred[s] = None => r.deferred[s] = None
    /\ q.buildable \subseteq r.buildable

LEMMA ReleaseFacts ==
    ASSUME NEW q, SceneOK(q), NEW t \in Tasks, NEW dsk, NEW uni,
           NEW r, r = ReleaseDeferred(q, t, dsk, uni)
    PROVE  /\ Releases(q, r)
           /\ \A s \in Setscene : r.deferred[s] = q.deferred[s] \/ q.deferred[s] = t
<1> DEFINE waiting == {s \in Setscene : q.deferred[s] = t}
           found == Min(waiting)
           def == [s \in Setscene |->
                    CASE s = found -> None
                      [] s \in waiting \ {found} -> found
                      [] OTHER -> q.deferred[s]]
           p == [q EXCEPT !.deferred = def]
<1>1. CASE waiting = {}
  <2>1. r = q
    BY <1>1 DEF ReleaseDeferred
  <2>2. q.covered = q.covered \cup {} /\ q.running = q.running \cup {}
    OBVIOUS
  <2>3. \E K \in SUBSET Setscene : /\ \A s \in K : q.deferred[s] # None
                                    /\ r.covered = q.covered \cup K
                                    /\ r.running = q.running \cup K
    BY <2>1, <2>2
  <2> QED
    BY <2>1, <2>3 DEF Releases
<1>2. CASE waiting # {}
  <2>1. found \in waiting
    BY <1>2, MinIsMember, SubsetsAssumption
  <2>2. t # None
    BY TasksAssumption DEF None
  <2>3. \A s \in waiting : s \notin q.notcovered /\ s # FirstOfName(s)
    BY <2>2 DEF SceneOK, SettledOnce
  <2>4. r = UpdateSceneQueueData(p, {found}, dsk, uni)
    <3>1. q.deferred = [s \in Setscene |-> q.deferred[s]]
      BY DEF SceneOK, SceneTypes
    <3> QED
      BY <1>2 DEF ReleaseDeferred
  <2> HIDE DEF waiting, found
  <2>5. \A s \in Setscene : def[s] # None => s \notin q.notcovered /\ s # FirstOfName(s)
    BY <2>3 DEF SceneOK, SettledOnce
  <2>6. def = [s \in Setscene |-> def[s]]
    OBVIOUS
  <2>7. \A s \in Setscene : /\ q.deferred[s] = None => def[s] = None
                            /\ def[s] = q.deferred[s] \/ q.deferred[s] = t
    BY <2>1, <2>2 DEF waiting
  <2> HIDE DEF def
  <2>8. SceneOK(p)
    BY <2>5, <2>6, DeferKeeps
  <2>9. /\ p.running = q.running /\ p.buildable = q.buildable
        /\ p.notcovered = q.notcovered /\ p.covered = q.covered
        /\ p.deferred = def
    <3>1. q = [f \in SceneFields |-> q[f]]
      BY DEF SceneOK, SceneTypes
    <3> QED
      BY <3>1 DEF SceneFields
  <2> HIDE DEF p
  <2>10. {found} \in SUBSET Setscene
    BY <2>1 DEF waiting
  <2>11. PICK K \in SUBSET {found} : SettlesCovered(p, K, r)
    BY <2>4, <2>8, <2>10, LookFacts DEF SceneOK
  <2>12. K \in SUBSET Setscene /\ \A s \in K : q.deferred[s] # None
    BY <2>1, <2>2, <2>11 DEF waiting
  <2>13. K \cap p.notcovered = {}
    BY <2>1, <2>3, <2>9, <2>11
  <2>14. SceneOK(r)
    BY <2>8, <2>10, <2>11, <2>13, SettlingKeeps
  <2>15. /\ r.covered = q.covered \cup K /\ r.running = q.running \cup K
         /\ r.notcovered = q.notcovered /\ r.deferred = def
         /\ q.buildable \subseteq r.buildable
         /\ r.holdoff_need_update = TRUE
    BY <2>9, <2>11 DEF SettlesCovered, Settles
  <2> QED
    BY <2>7, <2>12, <2>14, <2>15 DEF Releases
<1> QED
  BY <1>1, <1>2

\* What process_possible_migrations() does to the setscene queue when the tasks
\* in S, none of them covered, can be migrated.
Reopens(q, S, uni, r) ==
    /\ SceneOK(r)
    /\ \E K \in SUBSET S : /\ r.covered = q.covered \cup K
                           /\ r.running = (q.running \ S) \cup K
    /\ r.notcovered = q.notcovered \ S
    /\ \A s \in Setscene \ S : r.deferred[s] = q.deferred[s]
    /\ \A s \in S : IF uni[s] = InitialUnihash /\ s # FirstOfName(s)
                    THEN r.deferred[s] = FirstOfName(s)
                    ELSE r.deferred[s] = q.deferred[s]
    /\ r.holdoff_need_update = TRUE

\* What is done stays closed when tasks are reopened: a task that has lost its
\* done mark and is not itself below a reopened task would be needed for its own
\* sake or be complete.
LEMMA ReopenFacts ==
    ASSUME HardDeps = {}, QueueOrder, SceneOK(sq),
           NEW S \in SUBSET Setscene, S \cap sq.covered = {}, NEW uni,
           NEW r, r = Requeue(Reopen(S, uni), S, uni)
    PROVE  Reopens(sq, S, uni, r)
<1> USE StaticFacts
<1> DEFINE below == Below(S) \ (runq_complete \cup Unskip)
           opened == Reopen(S, uni)
           ready  == {t \in S : \/ SqRev[t] = {}
                                \/ /\ t \notin {}
                                   /\ SqRev[t] \subseteq opened.covered \cup opened.notcovered}
           def == [t \in Setscene |->
                     IF t \in S /\ uni[t] = InitialUnihash /\ t # FirstOfName(t)
                     THEN FirstOfName(t) ELSE opened.deferred[t]]
           queued == [opened EXCEPT !.buildable = @ \cup ready, !.deferred = def]
<1>1. /\ sq = [f \in SceneFields |-> sq[f]]
      /\ sq.covered \subseteq Setscene /\ sq.notcovered \subseteq Setscene
      /\ sq.done \subseteq Tasks /\ sq.holdoff_need_update \in BOOLEAN
      /\ sq.buildable \subseteq Setscene
      /\ sq.deferred = [s \in Setscene |-> sq.deferred[s]]
  BY DEF SceneOK, SceneTypes
<1>2. /\ opened = [f \in SceneFields |-> opened[f]]
      /\ opened.done = sq.done \ (S \cup below)
      /\ opened.buildable = sq.buildable \ S /\ opened.running = sq.running \ S
      /\ opened.notcovered = sq.notcovered \ S /\ opened.covered = sq.covered
      /\ opened.notneeded = sq.notneeded \ S /\ opened.deferred = sq.deferred
      /\ opened.holdoff_need_update = sq.holdoff_need_update
  <2> HIDE DEF below
  <2>1. sq.covered \ S = sq.covered
    OBVIOUS
  <2> QED
    BY <1>1, <2>1 DEF Reopen, SceneFields, below
<1>3. r = UpdateSceneQueueData(queued, S, disk, uni)
  <2> HIDE DEF opened
  <2>1. {t \in S : \E a \in opened.notcovered : <<a, t>> \in HardDeps} = {}
    OBVIOUS
  <2> QED
    BY <2>1 DEF Requeue, opened
<1>4. ready = {t \in S : SqRev[t] \subseteq Settled(opened)}
  BY DEF Settled
<1> HIDE DEF opened, ready
<1>5. \A s \in Setscene : def[s] # None => s \notin opened.notcovered /\ s # FirstOfName(s)
  BY <1>2 DEF SceneOK, SettledOnce
<1>6. /\ def = [s \in Setscene |-> def[s]]
      /\ \A s \in Setscene \ S : def[s] = sq.deferred[s]
      /\ \A s \in S : IF uni[s] = InitialUnihash /\ s # FirstOfName(s)
                      THEN def[s] = FirstOfName(s) ELSE def[s] = sq.deferred[s]
  BY <1>2
<1> HIDE DEF def
<1>7. /\ queued = [f \in SceneFields |-> queued[f]]
      /\ queued.done = opened.done /\ queued.notneeded = opened.notneeded
      /\ queued.buildable = opened.buildable \cup ready
      /\ queued.running = opened.running
      /\ queued.notcovered = opened.notcovered /\ queued.covered = opened.covered
      /\ queued.deferred = def
      /\ queued.holdoff_need_update = opened.holdoff_need_update
  BY <1>2 DEF SceneFields
<1> HIDE DEF queued, below
<1>8. SceneTypes(queued)
  <2>1. /\ queued.covered \subseteq Setscene /\ queued.notcovered \subseteq Setscene
        /\ queued.done \subseteq Tasks /\ queued.holdoff_need_update \in BOOLEAN
        /\ queued.buildable \subseteq Setscene
    BY <1>1, <1>2, <1>4, <1>7
  <2> QED
    BY <1>6, <1>7, <2>1 DEF SceneTypes
<1>9. SettledOnce(queued)
  <2>0. queued.covered = sq.covered /\ queued.notcovered = sq.notcovered \ S
    BY <1>2, <1>7
  <2>1. SettledOnce(sq) /\ sq.covered \cap sq.notcovered = {}
    BY DEF SceneOK, SettledOnce
  <2>2. queued.covered \cap queued.notcovered = {}
    BY <2>0, <2>1
  <2>3. below \cap Setscene = {}
    BY DEF below, Below
  <2>4. Settled(queued) \subseteq Settled(sq) \ S /\ Settled(sq) \subseteq Setscene
    BY <1>1, <2>0 DEF Settled
  <2>5. Settled(queued) \subseteq queued.buildable \cap queued.running \cap queued.done
    BY <1>2, <1>7, <2>1, <2>3, <2>4 DEF SettledOnce
  <2>6. \A d \in queued.notneeded :
            d \in Setscene \ Unskip /\ SqRev[d] # {} /\ SqRev[d] \subseteq queued.covered
    BY <1>2, <1>7, <2>1 DEF SettledOnce
  <2>7. \A s \in Setscene :
            queued.deferred[s] # None => s \notin queued.notcovered /\ s # FirstOfName(s)
    BY <1>5, <1>7
  <2> QED
    BY <2>2, <2>5, <2>6, <2>7 DEF SettledOnce
<1>10. ReadyBuildable(queued)
  <2>1. ReadyBuildable(sq)
    BY DEF SceneOK
  <2> QED
    BY <1>2, <1>4, <1>7, <2>1 DEF ReadyBuildable, Settled
<1>11. DoneClosed(queued.done)
  <2>1. DoneClosed(sq.done)
    BY DEF SceneOK
  <2>2. Unskip \ Setscene \subseteq queued.done
    BY <1>2, <1>7, <2>1 DEF DoneClosed, below
  <2>3. ASSUME NEW p \in Tasks \ Setscene, Rev[p] \subseteq queued.done PROVE p \in queued.done
    <3>1. p \in sq.done
      BY <1>2, <1>7, <2>1, <2>3 DEF DoneClosed
    <3>2. ASSUME p \in below PROVE FALSE
      <4>1. PICK s \in S : p \in SqCovers[s]
        BY <3>2 DEF below, Below
      <4>2. PICK u \in {s} \cup SqCovers[s] : p \in Depends[u]
        BY <4>1, BelowLinked
      <4>3. u \in Tasks /\ u \in Rev[p]
        BY <4>1, <4>2
      <4>4. u \in sq.done \ (S \cup below)
        BY <1>2, <1>7, <2>3, <4>3
      <4>5. u \in SqCovers[s] /\ u \notin Setscene
        BY <4>1, <4>2, <4>4
      <4>6. u \in runq_complete \cup Unskip
        BY <4>1, <4>4, <4>5 DEF below, Below
      <4>7. CASE u \in runq_complete
        <5>1. p \in runq_complete
          BY <4>2, <4>7 DEF QueueOrder, DependenciesFirst
        <5> QED
          BY <3>2, <5>1 DEF below
      <4>8. CASE u \in Unskip
        <5>1. p \in Unskip
          BY <4>2, <4>5, <4>8
        <5> QED
          BY <3>2, <5>1 DEF below
      <4> QED
        BY <4>6, <4>7, <4>8
    <3> QED
      BY <1>2, <1>7, <2>3, <3>1, <3>2
  <2> QED
    BY <2>2, <2>3 DEF DoneClosed
<1>12. SceneOK(queued)
  BY <1>8, <1>9, <1>10, <1>11 DEF SceneOK
<1>13. PICK K \in SUBSET S : SettlesCovered(queued, K, r)
  BY <1>3, <1>8, LookFacts
<1>14. K \cap queued.notcovered = {}
  BY <1>2, <1>7, <1>13
<1>15. SceneOK(r)
  BY <1>12, <1>13, <1>14, SettlingKeeps
<1>16. /\ r.covered = sq.covered \cup K /\ r.running = (sq.running \ S) \cup K
       /\ r.notcovered = sq.notcovered \ S /\ r.deferred = def
       /\ r.holdoff_need_update = TRUE
  BY <1>2, <1>7, <1>13 DEF SettlesCovered, Settles
<1> QED
  BY <1>6, <1>15, <1>16 DEF Reopens

\* The state build_scenequeue_data() starts the setscene queue in.
LEMMA InitialFacts ==
    ASSUME NEW dsk, NEW uni,
           NEW r, r = InitialSceneQueue(dsk, uni)
    PROVE  /\ SceneOK(r)
           /\ r.running = r.covered /\ r.notcovered = {}
           /\ r.holdoff_need_update = TRUE
           /\ \A s \in Setscene : r.deferred[s] \in {None, FirstOfName(s)}
<1> USE StaticFacts
<1> DEFINE first == {s \in Setscene : SqRev[s] = {}}
           def == [s \in Setscene |-> IF s = FirstOfName(s) THEN None ELSE FirstOfName(s)]
           stamps == [s \in Setscene |-> uni[s]]
           q == [buildable |-> first, running |-> {}, covered |-> {}, notcovered |-> {},
                 notneeded |-> {}, done |-> Unskip \ Setscene, deferred |-> def,
                 outrightfail |-> {}, stamps |-> stamps, holdoff_need_update |-> TRUE]
<1>1. r = UpdateSceneQueueData(q, Setscene, dsk, uni)
  BY DEF InitialSceneQueue
<1>2. /\ def = [s \in Setscene |-> def[s]]
      /\ \A s \in Setscene : /\ def[s] # None => s # FirstOfName(s)
                            /\ def[s] \in {None, FirstOfName(s)}
  OBVIOUS
<1> HIDE DEF def, stamps
<1>3. /\ q = [f \in SceneFields |-> q[f]]
      /\ q.buildable = first /\ q.running = {} /\ q.covered = {} /\ q.notcovered = {}
      /\ q.notneeded = {} /\ q.done = Unskip \ Setscene /\ q.deferred = def
      /\ q.holdoff_need_update = TRUE
  BY DEF SceneFields
<1> HIDE DEF q
<1>4. SceneTypes(q)
  <2>1. /\ q.covered \subseteq Setscene /\ q.notcovered \subseteq Setscene
        /\ q.done \subseteq Tasks /\ q.holdoff_need_update \in BOOLEAN
        /\ q.buildable \subseteq Setscene
    BY <1>3
  <2> QED
    BY <1>2, <1>3, <2>1 DEF SceneTypes
<1>5. SettledOnce(q) /\ ReadyBuildable(q)
  BY <1>2, <1>3 DEF SettledOnce, ReadyBuildable, Settled
<1>6. DoneClosed(q.done)
  <2>1. ASSUME NEW p \in Tasks \ Setscene, Rev[p] \subseteq Unskip \ Setscene PROVE p \in Unskip
    BY <2>1
  <2> QED
    BY <1>3, <2>1 DEF DoneClosed
<1>7. SceneOK(q)
  BY <1>4, <1>5, <1>6 DEF SceneOK
<1>8. PICK K \in SUBSET Setscene : SettlesCovered(q, K, r)
  BY <1>1, <1>4, LookFacts
<1>9. SceneOK(r)
  BY <1>3, <1>7, <1>8, SettlingKeeps
<1> QED
  BY <1>2, <1>3, <1>8, <1>9 DEF SettlesCovered, Settles

-----------------------------------------------------------------------------
\* What the pass of the rehashing makes of a task, given what it makes of the
\* tasks it depends on.
Rehashed(reported) ==
    Closure(Tasks, {x \in Tasks : \E d \in Depends[x] : reported[d] # unihash[d]},
            LAMBDA x : Rev[x])

NewHash(reported, same, x, new) ==
    IF \/ x \notin Rehashed(reported)
       \/ \A d \in Depends[x] : new[d] = unihash[d]
       \/ x \in Setscene /\ (Name[x] \in same \/ x \in sq.covered \cup sq_live)
    THEN reported[x]
    ELSE Digest([d \in Depends[x] |-> new[d]])

\* Rehashing goes through the tasks in the order of their dependencies, so that
\* every task has a hash.
LEMMA RehashSolves ==
    ASSUME NEW reported, NEW same
    PROVE  Rehash(reported, same) =
             [x \in Tasks |-> NewHash(reported, same, x, Rehash(reported, same))]
<1> USE DependsAssumption
<1> DEFINE hash(x, f) == NewHash(reported, same, x, f)
           new == CHOOSE f : f = [x \in Tasks |-> hash(x, f)]
<1>1. Rehash(reported, same) = [x \in Tasks |-> new[x]]
  BY DEF Rehash, NewHash, Rehashed
<1>2. ASSUME NEW x \in Tasks, NEW f, NEW g, \A d \in Depends[x] : f[d] = g[d]
      PROVE  hash(x, f) = hash(x, g)
  <2>1. [d \in Depends[x] |-> f[d]] = [d \in Depends[x] |-> g[d]]
    BY <1>2
  <2> QED
    BY <1>2, <2>1 DEF NewHash
<1> HIDE DEF hash
<1>3. \E f : f = [x \in Tasks |-> hash(x, f)]
  <2> DEFINE upto(U) == \A x \in Tasks \ U : Depends[x] \cap U = {}
             good(f, U) == \A x \in Tasks \ U : f[x] = hash(x, f)
             F == {U \in SUBSET Tasks :
                     upto(U) /\ \E f : f = [x \in Tasks |-> f[x]] /\ good(f, U)}
  <2>1. Tasks \in F
    <3>1. upto(Tasks)
      OBVIOUS
    <3> DEFINE f == [x \in Tasks |-> 0]
    <3>2. f = [x \in Tasks |-> f[x]] /\ good(f, Tasks)
      OBVIOUS
    <3> QED
      BY <3>1, <3>2
  <2>2. F \subseteq SUBSET Tasks
    OBVIOUS
  <2>3. PICK U \in F : \A E \in F : E \subseteq U => E = U
    <3> HIDE DEF F
    <3>1. F # {}
      BY <2>1
    <3>2. IsFiniteSet(Tasks)
      BY TasksAssumption
    <3> QED
      BY ONLY <2>2, <3>1, <3>2, SmallestSubset
  <2>4. upto(U) /\ U \in SUBSET Tasks
    BY <2>3
  <2>5. PICK f : f = [x \in Tasks |-> f[x]] /\ good(f, U)
    BY <2>3
  <2>6. ASSUME U # {} PROVE FALSE
    <3>1. PICK x \in U : Depends[x] \cap U = {}
      BY <2>4, <2>6, AcyclicAssumption
    <3> DEFINE g == [y \in Tasks |-> IF y = x THEN hash(x, f) ELSE f[y]]
    <3>2. x \in Tasks /\ x \notin Depends[x]
      BY <2>4, <3>1
    <3>3. g = [y \in Tasks |-> g[y]]
      OBVIOUS
    <3>4. g[x] = hash(x, f) /\ \A y \in Tasks \ {x} : g[y] = f[y]
      BY <3>2
    <3> HIDE DEF g
    <3>5. upto(U \ {x})
      BY <2>4, <3>1
    <3>6. ASSUME NEW y \in Tasks \ (U \ {x}) PROVE g[y] = hash(y, g)
      <4>1. \A d \in Depends[y] : f[d] = g[d]
        BY <2>4, <3>1, <3>2, <3>4
      <4>2. hash(y, f) = hash(y, g)
        BY <1>2, <4>1
      <4>3. g[y] = hash(y, f)
        BY <2>5, <3>4
      <4> QED
        BY <4>2, <4>3
    <3>7. U \ {x} \in F
      BY <2>4, <3>3, <3>5, <3>6
    <3> HIDE DEF F
    <3> QED
      BY <2>3, <3>1, <3>7
  <2>7. \A x \in Tasks : f[x] = hash(x, f)
    BY <2>5, <2>6
  <2> QED
    BY <2>5, <2>7
<1>4. new = [x \in Tasks |-> hash(x, new)]
  BY <1>3
<1> HIDE DEF new
<1>5. Rehash(reported, same) = new
  BY <1>1, <1>4
<1> QED
  BY <1>4, <1>5 DEF hash

\* Those whose setscene variant has been used or is being used have the hash
\* that was reported for them.
LEMMA RehashKeepsUsed ==
    ASSUME NEW reported, NEW same, NEW t \in Setscene \cap (sq.covered \cup sq_live)
    PROVE  Rehash(reported, same)[t] = reported[t]
<1>1. t \in Tasks
  BY SubsetsAssumption
<1>2. Rehash(reported, same)[t] = NewHash(reported, same, t, Rehash(reported, same))
  BY <1>1, RehashSolves
<1> QED
  BY <1>2 DEF NewHash

-----------------------------------------------------------------------------
(* The invariant of the setscene queue: what is settled, what has a job,   *)
(* what has been skipped because of it, and what update_holdofftasks() has *)
(* made of it for the run queue.                                           *)

\* A setscene job that runs is not settled and no longer deferred, and what is
\* marked as running is settled or has a job.
LiveUnsettled ==
    /\ \A s \in sq_live : s \in sq.running \ Settled(sq) /\ sq.deferred[s] = None
    /\ sq.running \subseteq Settled(sq) \cup sq_live

\* As long as a setscene task is not settled, neither it nor a plain task below
\* it is being run.
Apart ==
    \A s \in Unsettled(sq) :
        ({s} \cup SqCovers[s]) \cap (runq_running \ runq_complete) = {}

\* A task that was skipped as covered has every setscene task above it covered.
SkippedIsCovered ==
    \A p \in runq_complete \ runq_tasksrun :
        /\ p \in Setscene => p \in sq.covered
        /\ p \notin Setscene => p \notin Unskip
        /\ \A s \in Setscene : p \in SqCovers[s] => s \in sq.covered

\* What waits to be migrated has failed.
PendingUncovered == pending_migrations \subseteq sq.notcovered

\* Unless the tables of update_holdofftasks() are known to be stale, they say
\* what the setscene queue says.
HoldoffFresh ==
    ~sq.holdoff_need_update =>
        /\ tasks_covered = CoveredNow /\ tasks_notcovered = NotCoveredNow
        /\ \A s \in Unsettled(sq) : {s} \cup (SqCovers[s] \ runq_complete) \subseteq holdoff_tasks
        /\ holdoff_tasks \subseteq Unsettled(sq) \cup Below(Unsettled(sq))

\* Where a task is chosen, they are not stale.
StageFresh == pc \in {"next", "tail"} => ~sq.holdoff_need_update

SceneInv ==
    /\ SceneOK(sq)
    /\ LiveUnsettled
    /\ Apart
    /\ SkippedIsCovered
    /\ PendingUncovered
    /\ HoldoffFresh
    /\ StageFresh
    /\ NoLateRerun

LEMMA InitSceneInv == Init => SceneInv
<1> SUFFICES ASSUME Init PROVE SceneInv
  OBVIOUS
<1>1. /\ SceneOK(sq) /\ sq.running = sq.covered /\ sq.notcovered = {}
      /\ sq.holdoff_need_update = TRUE
  BY InitialFacts DEF Init
<1>2. /\ sq_live = {} /\ runq_running = {} /\ runq_complete = {}
      /\ pending_migrations = {} /\ failed_tids = {} /\ pc = "top"
  BY DEF Init
<1>3. LiveUnsettled
  BY <1>1, <1>2 DEF LiveUnsettled, Settled
<1> QED
  BY <1>1, <1>2, <1>3 DEF SceneInv, Apart, SkippedIsCovered, PendingUncovered,
     HoldoffFresh, StageFresh, NoLateRerun

\* The tables hold what they held when the setscene queue settles nothing.
LEMMA HoldoffKept ==
    ASSUME HoldoffFresh, UNCHANGED cover, runq_complete \subseteq runq_complete',
           sq'.covered = sq.covered, sq'.notcovered = sq.notcovered, sq'.done = sq.done,
           sq'.holdoff_need_update = sq.holdoff_need_update
    PROVE  HoldoffFresh'
<1>1. UNCHANGED <<CoveredNow, NotCoveredNow>>
  BY DEF CoveredNow, NotCoveredNow
<1>2. Unsettled(sq') = Unsettled(sq)
  BY DEF Unsettled, Settled
<1> QED
  BY <1>1, <1>2 DEF HoldoffFresh, cover

\* The steps that leave the setscene queue and what has been started alone.
LEMMA SceneStutters ==
    ASSUME SceneInv, UNCHANGED <<sq, sq_live, cover, runq_running, runq_complete,
                                 runq_tasksrun, pending_migrations>>,
           pc' \in {"next", "tail"} => pc \in {"next", "tail"},
           NoLateRerun'
    PROVE  SceneInv'
<1>1. HoldoffFresh'
  BY HoldoffKept DEF SceneInv
<1> QED
  BY <1>1 DEF SceneInv, LiveUnsettled, Apart, SkippedIsCovered, PendingUncovered, StageFresh

LEMMA SceneQuietSteps ==
    ASSUME SceneInv,
           \/ EnterExecute \/ Finish \/ FinishNow \/ EndRead \/ NoSetscene
           \/ NoTask \/ TailWait \/ TailFinish \/ Terminated \/ UNCHANGED vars
           \/ \E t \in Tasks : RefuseTask(t) \/ ReadTaskFailed(t)
           \/ \E t \in Tasks, u \in NewUnihashes : ReadUniHash(t, u)
    PROVE  SceneInv'
<1>1. UNCHANGED <<sq, sq_live, cover, runq_running, runq_complete, runq_tasksrun,
                  pending_migrations>>
  BY DEF vars, control, runq, jobs, scene, cover, hashes, EnterExecute, Finish,
     FinishNow, EndRead, NoSetscene, NoTask, TailWait, TailFinish, Terminated,
     RefuseTask, ReadTaskFailed, ReadUniHash
<1>2. pc' \in {"next", "tail"} => pc \in {"next", "tail"}
  BY DEF vars, control, EnterExecute, Finish, FinishNow, EndRead, NoSetscene,
     NoTask, TailWait, TailFinish, Terminated, RefuseTask, ReadTaskFailed,
     ReadUniHash, Goto
<1>3. \/ UNCHANGED failed_tids
      \/ \E t \in Tasks : /\ failed_tids' = failed_tids \cup {t}
                          /\ t \in MayFail \/ SetsceneEnforce
  BY DEF vars, control, runq, EnterExecute, Finish, FinishNow, EndRead, NoSetscene,
     NoTask, TailWait, TailFinish, Terminated, RefuseTask, Refused, ReadTaskFailed,
     ReadUniHash, TaskFail
<1>4. NoLateRerun'
  BY <1>3 DEF SceneInv, NoLateRerun
<1> QED
  BY <1>1, <1>2, <1>4, SceneStutters

\* Settling setscene tasks that have no job: tasks chosen by the idle loop, or
\* looked at again.
LEMMA SceneSettles ==
    ASSUME SceneInv, SceneOK(sq'), sq_live' \subseteq sq_live,
           \A s \in sq_live' : sq'.deferred[s] = None,
           NEW K, sq'.running = sq.running \cup K, Settled(sq') = Settled(sq) \cup K,
           sq.covered \subseteq sq'.covered, sq.notcovered \subseteq sq'.notcovered,
           K \cap sq_live' = {}, sq_live \ sq_live' \subseteq K,
           HoldoffFresh',
           runq_running' \ runq_complete' \subseteq runq_running \ runq_complete,
           \A p \in runq_complete' \ runq_tasksrun' :
              \/ p \in runq_complete \ runq_tasksrun
              \/ /\ p \in Setscene => p \in sq.covered
                 /\ p \notin Setscene => p \notin Unskip
                 /\ \A s \in Setscene : p \in SqCovers[s] => s \in sq.covered,
           UNCHANGED <<pending_migrations, failed_tids>>,
           pc' \notin {"next", "tail"}
    PROVE  SceneInv'
<1>1. LiveUnsettled'
  BY DEF SceneInv, LiveUnsettled
<1>2. Apart'
  <2>1. Unsettled(sq') \subseteq Unsettled(sq)
    BY DEF Unsettled
  <2> QED
    BY <2>1 DEF SceneInv, Apart
<1>3. SkippedIsCovered'
  BY DEF SceneInv, SkippedIsCovered
<1>4. PendingUncovered' /\ NoLateRerun'
  BY DEF SceneInv, PendingUncovered, NoLateRerun
<1>5. StageFresh'
  BY DEF StageFresh
<1> QED
  BY <1>1, <1>2, <1>3, <1>4, <1>5 DEF SceneInv

\* task_completeoutright() and the release of deferred tasks.
LEMMA SceneCompletes ==
    ASSUME QueueOrder, SceneInv, NEW t \in Tasks, NEW dsk,
           sq' = ReleaseDeferred(sq, t, dsk, unihash),
           UNCHANGED <<sq_live, cover, pending_migrations, failed_tids>>,
           runq_running' \subseteq runq_running \cup {t},
           runq_complete' = runq_complete \cup {t},
           runq_tasksrun \subseteq runq_tasksrun',
           \/ t \in runq_tasksrun'
           \/ /\ t \in Setscene => t \in sq.covered
              /\ t \notin Setscene => t \notin Unskip
              /\ \A s \in Setscene : t \in SqCovers[s] => s \in sq.covered,
           pc' \notin {"next", "tail"}
    PROVE  SceneInv'
<1>1. SceneOK(sq) /\ LiveUnsettled /\ HoldoffFresh /\ sq_live \subseteq Setscene
  BY DEF SceneInv, QueueOrder
<1>2. Releases(sq, sq')
  BY <1>1, ReleaseFacts
<1>3. /\ SceneOK(sq')
      /\ sq' = sq \/ sq'.holdoff_need_update = TRUE
      /\ sq'.notcovered = sq.notcovered
      /\ \A s \in Setscene : sq.deferred[s] = None => sq'.deferred[s] = None
  BY <1>2 DEF Releases
<1>4. PICK K \in SUBSET Setscene :
           /\ \A s \in K : sq.deferred[s] # None
           /\ sq'.covered = sq.covered \cup K /\ sq'.running = sq.running \cup K
  BY <1>2 DEF Releases
<1>5. K \cap sq_live' = {} /\ \A s \in sq_live' : sq'.deferred[s] = None
  BY <1>1, <1>3, <1>4 DEF LiveUnsettled
<1>6. HoldoffFresh'
  <2>1. CASE sq' = sq
    BY <1>1, <2>1, HoldoffKept
  <2>2. CASE sq'.holdoff_need_update = TRUE
    BY <2>2 DEF HoldoffFresh
  <2> QED
    BY <1>3, <2>1, <2>2
<1>7. Settled(sq') = Settled(sq) \cup K
  BY <1>3, <1>4 DEF Settled
<1>8. sq.covered \subseteq sq'.covered /\ sq.notcovered \subseteq sq'.notcovered
  BY <1>3, <1>4
<1> QED
  BY <1>3, <1>4, <1>5, <1>6, <1>7, <1>8, SceneSettles

LEMMA SceneTaskSteps ==
    ASSUME QueueOrder, SceneInv, NEW t \in Tasks,
           ReadTaskComplete(t) \/ SkipTask(t) \/ NoExecTask(t)
    PROVE  SceneInv'
<1>1. PICK dsk : sq' = ReleaseDeferred(sq, t, dsk, unihash)
  BY DEF ReadTaskComplete, SkipTask, NoExecTask, CompleteOutright
<1>2. UNCHANGED <<sq_live, cover, pending_migrations, failed_tids>>
  BY DEF ReadTaskComplete, SkipTask, NoExecTask, jobs, hashes
<1>3. /\ runq_running' \subseteq runq_running \cup {t}
      /\ runq_complete' = runq_complete \cup {t}
      /\ runq_tasksrun \subseteq runq_tasksrun'
  BY DEF ReadTaskComplete, SkipTask, NoExecTask, CompleteOutright
<1>4. pc' \notin {"next", "tail"}
  BY DEF ReadTaskComplete, SkipTask, NoExecTask, Goto, Reading, control
<1>5. \/ t \in runq_tasksrun'
      \/ /\ t \in Setscene => t \in sq.covered
         /\ t \notin Setscene => t \notin Unskip
         /\ \A s \in Setscene : t \in SqCovers[s] => s \in sq.covered
  <2>1. CASE ReadTaskComplete(t) \/ NoExecTask(t)
    BY <2>1 DEF ReadTaskComplete, NoExecTask
  <2>2. CASE SkipTask(t) /\ t \notin tasks_covered
    BY <2>2 DEF SkipTask
  <2>3. CASE SkipTask(t) /\ t \in tasks_covered
    <3>1. /\ pc = "next" /\ t \notin runq_running /\ t \notin holdoff_tasks
      BY <2>3 DEF SkipTask, ChooseTask, Schedulable
    <3>2. /\ tasks_covered = CoveredNow
          /\ \A s \in Unsettled(sq) : {s} \cup (SqCovers[s] \ runq_complete) \subseteq holdoff_tasks
      BY <3>1 DEF SceneInv, StageFresh, HoldoffFresh
    <3>3. t \in CoveredNow /\ t \notin runq_complete
      BY <2>3, <3>1, <3>2 DEF QueueOrder
    <3>4. /\ t \in sq.covered \cup Below(sq.covered)
          /\ t \notin Below(sq.notcovered) /\ t \notin Unskip \ Setscene
      BY <3>3 DEF CoveredNow, NotCoveredNow
    <3>5. ASSUME NEW s \in Setscene, t \in SqCovers[s] PROVE s \in sq.covered
      BY <3>1, <3>2, <3>3, <3>4, <3>5 DEF Below, Unsettled, Settled
    <3>6. sq.covered \subseteq Setscene
      BY DEF SceneInv, SceneOK, SceneTypes
    <3>7. t \in Setscene => t \in sq.covered
      BY <3>4, <3>6, StaticFacts DEF Below
    <3> QED
      BY <3>4, <3>5, <3>7
  <2> QED
    BY <2>1, <2>2, <2>3
<1> QED
  BY <1>1, <1>2, <1>3, <1>4, <1>5, SceneCompletes

LEMMA SceneStartTask ==
    ASSUME QueueOrder, SceneInv, NEW t \in Tasks, StartTask(t)
    PROVE  SceneInv'
<1>1. /\ UNCHANGED <<sq, sq_live, cover, runq_complete, runq_tasksrun,
                     pending_migrations, failed_tids>>
      /\ runq_running' = runq_running \cup {t}
      /\ pc = "next" /\ t \notin runq_running /\ t \notin holdoff_tasks
  BY DEF StartTask, ToRun, ChooseTask, Schedulable, scene, hashes
<1>2. Apart'
  <2>1. \A s \in Unsettled(sq) : {s} \cup (SqCovers[s] \ runq_complete) \subseteq holdoff_tasks
    BY <1>1 DEF SceneInv, StageFresh, HoldoffFresh
  <2>2. t \notin runq_complete
    BY <1>1 DEF QueueOrder
  <2>3. \A s \in Unsettled(sq) : t \notin {s} \cup SqCovers[s]
    BY <1>1, <2>1, <2>2
  <2> QED
    BY <1>1, <2>3 DEF Apart, SceneInv
<1>3. HoldoffFresh'
  BY <1>1, HoldoffKept DEF SceneInv
<1>4. StageFresh'
  BY <1>1 DEF SceneInv, StageFresh
<1> QED
  BY <1>1, <1>2, <1>3, <1>4 DEF SceneInv, LiveUnsettled, SkippedIsCovered,
     PendingUncovered, NoLateRerun

\* Setscene tasks settled by the idle loop or by the job of one of them.
LEMMA SceneSomeSettle ==
    ASSUME QueueOrder, SceneInv, NEW q, SceneOK(q), NEW K \in SUBSET Setscene,
           K \cap Settled(sq) = {}, \A s \in K : q.deferred[s] = None,
           K \cap sq_live' = {}, sq_live \ sq_live' \subseteq K, sq_live' \subseteq sq_live,
           q.covered = sq.covered, q.notcovered = sq.notcovered, q.running = sq.running,
           \A s \in Setscene : sq.deferred[s] = None => q.deferred[s] = None,
           \/ SettlesCovered(q, K, sq') \/ SettlesFailed(q, K, sq'),
           UNCHANGED <<pending_migrations, failed_tids, runq_running, runq_complete,
                       runq_tasksrun>>,
           pc' \notin {"next", "tail"}
    PROVE  SceneInv'
<1>1. K \cap q.notcovered = {} /\ K \cap q.covered = {}
  BY DEF Settled
<1>2. SceneOK(sq')
  BY <1>1, SettlingKeeps
<1>3. /\ sq'.running = sq.running \cup K /\ Settled(sq') = Settled(sq) \cup K
      /\ sq.covered \subseteq sq'.covered /\ sq.notcovered \subseteq sq'.notcovered
      /\ sq'.deferred = q.deferred /\ HoldoffFresh'
  BY DEF SettlesCovered, SettlesFailed, Settles, Settled, HoldoffFresh
<1>4. \A s \in sq_live' : sq'.deferred[s] = None
  BY <1>3 DEF QueueOrder, SceneInv, LiveUnsettled
<1>5. SkippedIsCovered
  BY DEF SceneInv
<1> QED
  BY <1>2, <1>3, <1>4, <1>5, SceneSettles DEF SkippedIsCovered

LEMMA UndeferFacts ==
    ASSUME SceneOK(sq), NEW t \in Setscene, NEW q, q = Undefer(t)
    PROVE  /\ SceneOK(q)
           /\ q.covered = sq.covered /\ q.notcovered = sq.notcovered
           /\ q.running = sq.running /\ q.done = sq.done /\ q.buildable = sq.buildable
           /\ q.notneeded = sq.notneeded
           /\ q.holdoff_need_update = sq.holdoff_need_update
           /\ q.deferred[t] = None
           /\ \A s \in Setscene \ {t} : q.deferred[s] = sq.deferred[s]
           /\ \A s \in Setscene : sq.deferred[s] = None => q.deferred[s] = None
<1> DEFINE def == [s \in Setscene |-> IF s = t THEN None ELSE sq.deferred[s]]
<1>1. sq = [f \in SceneFields |-> sq[f]] /\ sq.deferred = [s \in Setscene |-> sq.deferred[s]]
  BY DEF SceneOK, SceneTypes
<1>2. def = [sq.deferred EXCEPT ![t] = None]
  BY <1>1
<1>3. q = [sq EXCEPT !.deferred = def]
  BY <1>1, <1>2 DEF Undefer, SceneFields
<1>4. \A s \in Setscene : def[s] # None => s \notin sq.notcovered /\ s # FirstOfName(s)
  BY DEF SceneOK, SettledOnce
<1>5. /\ def = [s \in Setscene |-> def[s]] /\ def[t] = None
      /\ \A s \in Setscene \ {t} : def[s] = sq.deferred[s]
      /\ \A s \in Setscene : sq.deferred[s] = None => def[s] = None
  OBVIOUS
<1> HIDE DEF def
<1>6. SceneOK(q)
  BY <1>3, <1>4, <1>5, DeferKeeps
<1> QED
  BY <1>1, <1>3, <1>5, <1>6 DEF SceneFields

\* The setscene task the idle loop chooses is not settled and has no job.
LEMMA ChosenUnsettled ==
    ASSUME QueueOrder, SceneInv, NEW t \in Setscene, ChooseSetscene(t)
    PROVE  /\ t \notin Settled(sq) /\ t \notin sq_live
           /\ t \in sq.buildable \ sq.running /\ t \in Selectable
<1>1. t \in sq.buildable \ sq.running /\ t \in Selectable
  <2>1. sq.buildable \subseteq Tasks
    BY SubsetsAssumption DEF SceneInv, SceneOK, SceneTypes
  <2>2. Selectable \in SUBSET Tasks /\ Selectable # {}
    BY <2>1 DEF ChooseSetscene, Selectable
  <2>3. t \in Selectable
    BY <2>2, MinIsMember DEF ChooseSetscene
  <2> QED
    BY <2>3 DEF Selectable
<1> QED
  BY <1>1 DEF SceneInv, SceneOK, SettledOnce, LiveUnsettled

\* The choice not to run a setscene task: it is not needed, its output is
\* missing, or it is in place already.
LEMMA SceneChoiceSteps ==
    ASSUME HardDepsInOrder, QueueOrder, SceneInv, NEW t \in Setscene,
           SetsceneNotNeeded(t) \/ SetsceneFail(t) \/ SetsceneSkip(t)
    PROVE  SceneInv'
<1>1. ChooseSetscene(t)
  BY DEF SetsceneNotNeeded, SetsceneFail, SetsceneSkip
<1>2. t \notin Settled(sq) /\ t \notin sq_live
  BY <1>1, ChosenUnsettled
<1>3. PICK q : q = Undefer(t)
  OBVIOUS
<1>4. /\ SceneOK(q)
      /\ q.covered = sq.covered /\ q.notcovered = sq.notcovered
      /\ q.running = sq.running
      /\ q.deferred[t] = None
      /\ \A s \in Setscene : sq.deferred[s] = None => q.deferred[s] = None
  BY <1>3, UndeferFacts DEF SceneInv
<1>5. SceneTypes(q)
  BY <1>4 DEF SceneOK
<1>6. /\ UNCHANGED <<sq_live, pending_migrations, failed_tids, runq_running,
                     runq_complete, runq_tasksrun>>
      /\ pc' = "top"
  BY DEF SetsceneNotNeeded, SetsceneFail, SetsceneSkip, Goto, runq, jobs, hashes
<1>7. CASE SetsceneSkip(t)
  <2>1. SettlesCovered(q, {t}, sq')
    BY <1>3, <1>5, <1>7, CoverFacts DEF SetsceneSkip
  <2>2. {t} \cap Settled(sq) = {} /\ {t} \cap sq_live' = {} /\ \A s \in {t} : q.deferred[s] = None
    BY <1>2, <1>4, <1>6
  <2> QED
    BY <1>4, <1>6, <2>1, <2>2, SceneSomeSettle
<1>8. CASE SetsceneFail(t)
  <2>1. Settled(q) = Settled(sq)
    BY <1>4 DEF Settled
  <2>2. sq' = FailOutright(q, {t}, disk, unihash)
    BY <1>3, <1>8 DEF SetsceneFail
  <2>3. PICK F \in SUBSET Setscene :
             /\ t \in F /\ F \cap Settled(q) = {} /\ F \cap q.running \subseteq {t}
             /\ \A s \in F : q.deferred[s] = None
             /\ SettlesFailed(q, F, sq')
    BY <1>2, <1>4, <2>1, <2>2, FailFacts
  <2>4. F \cap sq_live' = {}
    BY <1>2, <1>4, <1>6, <2>3 DEF SceneInv, LiveUnsettled
  <2> QED
    BY <1>4, <1>6, <2>1, <2>3, <2>4, SceneSomeSettle
<1>9. CASE SetsceneNotNeeded(t)
  <2>1. PICK r : r = Cover(q, {t})
    OBVIOUS
  <2>2. SettlesCovered(q, {t}, r)
    BY <1>5, <2>1, CoverFacts
  <2>3. {t} \cap q.notcovered = {}
    BY <1>2, <1>4 DEF Settled
  <2>4. SceneOK(r)
    BY <1>4, <2>2, <2>3, SettlingKeeps
  <2>5. sq' = [r EXCEPT !.notneeded = @ \cup {t}]
    BY <1>3, <1>9, <2>1 DEF SetsceneNotNeeded
  <2>6. r = [f \in SceneFields |-> r[f]]
    BY <2>4 DEF SceneOK, SceneTypes
  <2>7. /\ sq' = [f \in SceneFields |-> sq'[f]]
        /\ sq'.running = r.running /\ sq'.buildable = r.buildable
        /\ sq'.notcovered = r.notcovered /\ sq'.covered = r.covered
        /\ sq'.done = r.done /\ sq'.notneeded = r.notneeded \cup {t}
        /\ sq'.deferred = r.deferred
        /\ sq'.holdoff_need_update = r.holdoff_need_update
    BY <2>5, <2>6 DEF SceneFields
  <2>8. t \notin Unskip /\ SqRev[t] # {} /\ SqRev[t] \subseteq r.covered
    <3>1. t \notin Unskip /\ SqRev[t] # {} /\ SqRev[t] \subseteq sq.covered
      BY <1>9 DEF SetsceneNotNeeded, Unneeded
    <3>2. sq.covered \subseteq r.covered
      BY <1>4, <2>2 DEF SettlesCovered
    <3> QED
      BY <3>1, <3>2
  <2>9. SceneOK(sq')
    <3>1. SceneTypes(r) /\ SettledOnce(r) /\ ReadyBuildable(r) /\ DoneClosed(r.done)
      BY <2>4 DEF SceneOK
    <3>2. SceneTypes(sq')
      <4>1. /\ sq'.covered \subseteq Setscene /\ sq'.notcovered \subseteq Setscene
            /\ sq'.done \subseteq Tasks /\ sq'.holdoff_need_update \in BOOLEAN
            /\ sq'.buildable \subseteq Setscene
        BY <2>7, <3>1 DEF SceneTypes
      <4>2. sq'.deferred = [s \in Setscene |-> sq'.deferred[s]]
        BY <2>7, <3>1 DEF SceneTypes
      <4> QED
        BY <2>7, <4>1, <4>2 DEF SceneTypes
    <3>3. SettledOnce(sq')
      BY <2>7, <2>8, <3>1 DEF SettledOnce, Settled
    <3>4. ReadyBuildable(sq')
      BY <2>7, <3>1 DEF ReadyBuildable, Settled
    <3> QED
      BY <2>7, <3>1, <3>2, <3>3, <3>4 DEF SceneOK
  <2>10. /\ r.running = sq.running \cup {t} /\ Settled(r) = Settled(sq) \cup {t}
         /\ sq.covered \subseteq r.covered /\ sq.notcovered \subseteq r.notcovered
         /\ r.deferred = q.deferred /\ r.holdoff_need_update = TRUE
    BY <1>4, <2>2 DEF SettlesCovered, Settles, Settled
  <2>11. /\ sq'.running = sq.running \cup {t} /\ Settled(sq') = Settled(sq) \cup {t}
         /\ sq.covered \subseteq sq'.covered /\ sq.notcovered \subseteq sq'.notcovered
         /\ HoldoffFresh'
    BY <2>7, <2>10 DEF Settled, HoldoffFresh
  <2>12. \A s \in sq_live' : sq'.deferred[s] = None
    BY <1>4, <1>6, <2>7, <2>10 DEF QueueOrder, SceneInv, LiveUnsettled
  <2>13. /\ \A p \in runq_complete' \ runq_tasksrun' : p \in runq_complete \ runq_tasksrun
         /\ runq_running' \ runq_complete' \subseteq runq_running \ runq_complete
         /\ {t} \cap sq_live' = {} /\ sq_live \ sq_live' \subseteq {t}
         /\ sq_live' \subseteq sq_live
         /\ UNCHANGED <<pending_migrations, failed_tids>>
         /\ pc' \notin {"next", "tail"}
    BY <1>2, <1>6
  <2> QED
    BY <2>9, <2>11, <2>12, <2>13, SceneSettles
<1> QED
  BY <1>7, <1>8, <1>9

LEMMA SceneJobEnds ==
    ASSUME HardDepsInOrder, QueueOrder, SceneInv, NEW t \in Tasks,
           ReadSetsceneComplete(t) \/ ReadSetsceneFailed(t)
    PROVE  SceneInv'
<1>1. t \in sq_live /\ sq_live' = sq_live \ {t} /\ t \in Setscene
  BY DEF ReadSetsceneComplete, ReadSetsceneFailed, QueueOrder
<1>2. SceneOK(sq) /\ SceneTypes(sq) /\ t \notin Settled(sq) /\ sq.deferred[t] = None
  BY <1>1 DEF SceneInv, SceneOK, LiveUnsettled
<1>3. /\ UNCHANGED <<pending_migrations, failed_tids, runq_running, runq_complete,
                     runq_tasksrun>>
      /\ pc' \notin {"next", "tail"}
  BY DEF ReadSetsceneComplete, ReadSetsceneFailed, Reading, control, runq, hashes
<1>4. PICK F \in SUBSET Setscene :
           /\ t \in F /\ F \cap Settled(sq) = {} /\ F \cap sq.running \subseteq {t}
           /\ \A s \in F : sq.deferred[s] = None
           /\ SettlesCovered(sq, F, sq') \/ SettlesFailed(sq, F, sq')
  <2>1. CASE ReadSetsceneComplete(t)
    <3>1. SettlesCovered(sq, {t}, sq')
      BY <1>1, <1>2, <2>1, CoverFacts DEF ReadSetsceneComplete
    <3> QED
      BY <1>1, <1>2, <3>1
  <2>2. CASE ReadSetsceneFailed(t)
    BY <1>1, <1>2, <2>2, FailFacts DEF ReadSetsceneFailed
  <2> QED
    BY <2>1, <2>2
<1>5. F \cap sq_live' = {} /\ sq_live \ sq_live' \subseteq F
  BY <1>1, <1>4 DEF SceneInv, LiveUnsettled
<1> QED
  BY <1>1, <1>2, <1>3, <1>4, <1>5, SceneSomeSettle

LEMMA SceneJobStarts ==
    ASSUME QueueOrder, SceneInv, NEW t \in Setscene, SetsceneStart(t)
    PROVE  SceneInv'
<1>1. /\ UNCHANGED <<cover, pending_migrations, failed_tids, runq_running,
                     runq_complete, runq_tasksrun>>
      /\ sq_live' = sq_live \cup {t}
      /\ pc' \notin {"next", "tail"} /\ ChooseSetscene(t)
  BY DEF SetsceneStart, Goto, runq, hashes
<1>2. t \notin Settled(sq) /\ t \in sq.buildable
  BY <1>1, ChosenUnsettled
<1>3. PICK q : q = Undefer(t)
  OBVIOUS
<1>4. /\ SceneOK(q)
      /\ q.covered = sq.covered /\ q.notcovered = sq.notcovered
      /\ q.running = sq.running /\ q.done = sq.done /\ q.buildable = sq.buildable
      /\ q.holdoff_need_update = sq.holdoff_need_update
      /\ q.deferred[t] = None
      /\ \A s \in Setscene : sq.deferred[s] = None => q.deferred[s] = None
  BY <1>3, UndeferFacts DEF SceneInv
<1>5. q = [f \in SceneFields |-> q[f]]
  BY <1>4 DEF SceneOK, SceneTypes
<1>6. sq' = [q EXCEPT !.running = @ \cup {t}]
  BY <1>3 DEF SetsceneStart
<1>7. /\ sq' = [f \in SceneFields |-> sq'[f]]
      /\ sq'.running = q.running \cup {t} /\ sq'.buildable = q.buildable
      /\ sq'.notcovered = q.notcovered /\ sq'.covered = q.covered
      /\ sq'.done = q.done /\ sq'.notneeded = q.notneeded
      /\ sq'.deferred = q.deferred
      /\ sq'.holdoff_need_update = q.holdoff_need_update
  BY <1>5, <1>6 DEF SceneFields
<1>8. SceneOK(sq')
  <2>1. SceneTypes(q) /\ SettledOnce(q) /\ ReadyBuildable(q) /\ DoneClosed(q.done)
    BY <1>4 DEF SceneOK
  <2>2. SceneTypes(sq')
    <3>1. /\ sq'.covered \subseteq Setscene /\ sq'.notcovered \subseteq Setscene
          /\ sq'.done \subseteq Tasks /\ sq'.holdoff_need_update \in BOOLEAN
          /\ sq'.buildable \subseteq Setscene
      BY <1>7, <2>1 DEF SceneTypes
    <3>2. sq'.deferred = [s \in Setscene |-> sq'.deferred[s]]
      BY <1>7, <2>1 DEF SceneTypes
    <3> QED
      BY <1>7, <3>1, <3>2 DEF SceneTypes
  <2>3. SettledOnce(sq')
    BY <1>7, <2>1 DEF SettledOnce, Settled
  <2>4. ReadyBuildable(sq')
    BY <1>2, <1>4, <1>7, <2>1 DEF ReadyBuildable, Settled
  <2> QED
    BY <1>7, <2>1, <2>2, <2>3, <2>4 DEF SceneOK
<1>9. LiveUnsettled'
  BY <1>1, <1>2, <1>4, <1>7 DEF SceneInv, LiveUnsettled, Settled, QueueOrder
<1>10. HoldoffFresh'
  BY <1>1, <1>4, <1>7, HoldoffKept DEF SceneInv
<1>11. Unsettled(sq') = Unsettled(sq)
  BY <1>4, <1>7 DEF Unsettled, Settled
<1>12. Apart'
  BY <1>1, <1>11 DEF SceneInv, Apart
<1> QED
  BY <1>1, <1>4, <1>7, <1>8, <1>9, <1>10, <1>12 DEF SceneInv, SkippedIsCovered,
     PendingUncovered, StageFresh, NoLateRerun

LEMMA SceneForced ==
    ASSUME QueueOrder, SceneInv, NEW t \in Setscene, TailForceDeferred(t)
    PROVE  SceneInv'
<1>1. /\ UNCHANGED <<cover, pending_migrations, failed_tids, runq_running, sq_live,
                     runq_complete, runq_tasksrun>>
      /\ pc' = "top"
  BY DEF TailForceDeferred, Goto, runq, jobs, hashes
<1>2. /\ SceneOK(sq')
      /\ sq'.covered = sq.covered /\ sq'.notcovered = sq.notcovered
      /\ sq'.running = sq.running /\ sq'.done = sq.done
      /\ sq'.holdoff_need_update = sq.holdoff_need_update
      /\ \A s \in Setscene : sq.deferred[s] = None => sq'.deferred[s] = None
  BY UndeferFacts DEF SceneInv, TailForceDeferred
<1>3. LiveUnsettled'
  BY <1>1, <1>2 DEF SceneInv, LiveUnsettled, Settled, QueueOrder
<1>4. HoldoffFresh'
  BY <1>1, <1>2, HoldoffKept DEF SceneInv
<1>5. Unsettled(sq') = Unsettled(sq)
  BY <1>2 DEF Unsettled, Settled
<1>6. Apart'
  BY <1>1, <1>5 DEF SceneInv, Apart
<1> QED
  BY <1>1, <1>2, <1>3, <1>4, <1>6 DEF SceneInv, SkippedIsCovered,
     PendingUncovered, StageFresh, NoLateRerun

LEMMA SceneHoldoff ==
    ASSUME SceneInv, HoldoffStage
    PROVE  SceneInv'
<1>1. /\ UNCHANGED <<pending_migrations, failed_tids, runq_running, sq_live,
                     runq_complete, runq_tasksrun>>
      /\ UpdateHoldoff
  BY DEF HoldoffStage, runq, jobs, hashes
<1>2. CASE ~sq.holdoff_need_update
  <2>1. UNCHANGED <<cover, sq>>
    BY <1>1, <1>2 DEF UpdateHoldoff
  <2>2. HoldoffFresh'
    BY <1>1, <2>1, HoldoffKept DEF SceneInv
  <2> QED
    BY <1>1, <1>2, <2>1, <2>2 DEF SceneInv, LiveUnsettled, Apart, SkippedIsCovered,
       PendingUncovered, StageFresh, NoLateRerun
<1>3. CASE sq.holdoff_need_update
  <2>1. /\ tasks_covered' = CoveredNow
        /\ tasks_notcovered' = NotCoveredNow
        /\ holdoff_tasks' = HoldoffNow
        /\ sq' = [sq EXCEPT !.holdoff_need_update = FALSE]
    BY <1>1, <1>3 DEF UpdateHoldoff
  <2>2. SceneTypes(sq) /\ SettledOnce(sq) /\ ReadyBuildable(sq) /\ DoneClosed(sq.done)
    BY DEF SceneInv, SceneOK
  <2>3. sq = [f \in SceneFields |-> sq[f]]
    BY <2>2 DEF SceneTypes
  <2>4. /\ sq' = [f \in SceneFields |-> sq'[f]]
        /\ sq'.running = sq.running /\ sq'.buildable = sq.buildable
        /\ sq'.notcovered = sq.notcovered /\ sq'.covered = sq.covered
        /\ sq'.done = sq.done /\ sq'.notneeded = sq.notneeded
        /\ sq'.deferred = sq.deferred
        /\ sq'.holdoff_need_update = FALSE
    BY <2>1, <2>3 DEF SceneFields
  <2>5. SceneOK(sq')
    <3>1. SceneTypes(sq')
      <4>1. /\ sq'.covered \subseteq Setscene /\ sq'.notcovered \subseteq Setscene
            /\ sq'.done \subseteq Tasks /\ sq'.holdoff_need_update \in BOOLEAN
            /\ sq'.buildable \subseteq Setscene
        BY <2>2, <2>4 DEF SceneTypes
      <4>2. sq'.deferred = [s \in Setscene |-> sq'.deferred[s]]
        BY <2>2, <2>4 DEF SceneTypes
      <4> QED
        BY <2>4, <4>1, <4>2 DEF SceneTypes
    <3> QED
      BY <2>2, <2>4, <3>1 DEF SceneOK, SettledOnce, ReadyBuildable, Settled
  <2>6. UNCHANGED <<CoveredNow, NotCoveredNow>>
    BY <2>4 DEF CoveredNow, NotCoveredNow
  <2>7. Unsettled(sq') = Unsettled(sq) /\ Unsettled(sq) = Setscene \ (sq.covered \cup sq.notcovered)
    BY <2>4 DEF Unsettled, Settled
  <2>8. HoldoffNow = Unsettled(sq) \cup (Below(Unsettled(sq)) \ runq_complete)
    BY <2>7 DEF HoldoffNow
  <2>9. HoldoffFresh'
    <3> DEFINE open == Unsettled(sq)
    <3>1. /\ \A s \in open : {s} \cup (SqCovers[s] \ runq_complete) \subseteq HoldoffNow
          /\ HoldoffNow \subseteq open \cup Below(open)
      BY <2>8 DEF Below
    <3> HIDE DEF open
    <3>2. Unsettled(sq') = open
      BY <2>7 DEF open
    <3> QED
      BY <1>1, <2>1, <2>6, <3>1, <3>2 DEF HoldoffFresh
  <2> QED
    BY <1>1, <2>4, <2>5, <2>7, <2>9 DEF SceneInv, LiveUnsettled, Apart, SkippedIsCovered,
       PendingUncovered, StageFresh, NoLateRerun, Settled
<1>4. sq.holdoff_need_update \in BOOLEAN
  BY DEF SceneInv, SceneOK, SceneTypes
<1> QED
  BY <1>2, <1>3, <1>4

\* A pass of migrations under the hashes in uni: of the pending ones, those in
\* go are done, the others wait or come too late.
Migrates(uni, changed, pending, go) ==
    /\ pending \subseteq Setscene /\ pending \cap sq.covered = {}
    /\ go \subseteq pending /\ go \cap (runq_running \cup sq_live) = {}
    /\ \A t \in go : SqCovers[t] \cap (runq_running \ runq_complete) = {}
    /\ \A t \in pending \ go : \/ t \in runq_running \cup sq_live
                               \/ SqCovers[t] \cap (runq_running \ runq_complete) # {}
    /\ pending_migrations' = pending \ (TooLate(pending) \cup go)
    /\ sq' = [IF go = {} THEN sq ELSE Requeue(Reopen(go, uni), go, uni)
              EXCEPT !.holdoff_need_update = @ \/ changed \cup go # {}]
    /\ sqdone' = (sqdone /\ go = {})
    /\ UNCHANGED <<failed_tids, state>>
    /\ unihash' = uni
    /\ \A s \in Setscene \ pending :
          \/ uni[s] = unihash[s]
          \/ \E m \in ReadyReports : m[1] = s \/ sq.deferred[s] = m[1]

\* A migration never reaches a setscene task that is covered or has a job: its
\* hash does not change any more. So no task that was skipped as covered loses
\* what covers it, none below a task being migrated is being run, and the build
\* is never halted by a migration.
LEMMA MigrateFacts ==
    ASSUME HardDeps = {}, QueueOrder, SceneInv, Migrate
    PROVE  \E uni, changed, pending, go : Migrates(uni, changed, pending, go)
<1>1. PICK same, reported, uni, changed :
        /\ reported = Reported(ReadyReports) /\ uni = Rehash(reported, same) /\ unihash' = uni
        /\ changed = IF uni = reported THEN {} ELSE {t \in Tasks : uni[t] # reported[t]}
        /\ MigrateTo(uni, changed, pending_migrations \cup (changed \cap Setscene))
  BY DEF Migrate
<1> DEFINE pending == pending_migrations \cup (changed \cap Setscene)
           go == Movable(pending)
<1>2. /\ LiveUnsettled /\ SkippedIsCovered /\ PendingUncovered /\ SettledOnce(sq)
  BY DEF SceneInv, SceneOK
<1>3. pending \subseteq Setscene /\ pending \cap sq.covered = {}
  <2>1. \A t \in changed \cap Setscene : t \notin sq.covered
    BY <1>1, RehashKeepsUsed
  <2>2. pending_migrations \subseteq Setscene
    BY DEF QueueOrder
  <2>3. pending_migrations \cap sq.covered = {}
    BY <1>2 DEF PendingUncovered, SettledOnce
  <2> QED
    BY <2>1, <2>2, <2>3
<1>4. MigrateTo(uni, changed, pending)
  BY <1>1
<1>5. ASSUME NEW s \in Setscene \ pending
      PROVE  \/ uni[s] = unihash[s]
             \/ \E m \in ReadyReports : m[1] = s \/ sq.deferred[s] = m[1]
  <2>1. s \in Tasks /\ s \notin changed
    BY SubsetsAssumption
  <2>2. uni[s] = reported[s]
    BY <1>1, <2>1
  <2> DEFINE told == {m \in ReadyReports : \/ m[1] = s
                                           \/ s \in Setscene /\ sq.deferred[s] = m[1]
                                              /\ m[2] # unihash[m[1]]}
  <2>3. told = {} => reported[s] = unihash[s]
    BY <1>1, <2>1 DEF Reported
  <2> QED
    BY <2>2, <2>3
<1> HIDE DEF pending
<1>6. /\ go \subseteq pending
      /\ go \cap (runq_running \cup sq_live) = {}
      /\ \A t \in go : SqCovers[t] \cap (runq_running \ runq_complete) = {}
      /\ \A t \in pending \ go : \/ t \in runq_running \cup sq_live
                                 \/ SqCovers[t] \cap (runq_running \ runq_complete) # {}
  BY DEF Movable, TooLate, CoveredRunning
<1>7. \A t \in go : ~SkippedBelow(t)
  <2> SUFFICES ASSUME NEW t \in go, SkippedBelow(t) PROVE FALSE
    OBVIOUS
  <2>1. PICK p : p \in SqCovers[t] /\ p \in runq_complete \ runq_tasksrun
    BY DEF SkippedBelow
  <2>2. t \in sq.covered
    BY <1>2, <1>3, <1>6, <2>1 DEF SkippedIsCovered
  <2> QED
    BY <1>3, <1>6, <2>2
<1> HIDE DEF go
<1>8. /\ pending_migrations' = pending \ (TooLate(pending) \cup go)
      /\ sq' = [IF go = {} THEN sq ELSE Requeue(Reopen(go, uni), go, uni)
                EXCEPT !.holdoff_need_update = @ \/ changed \cup go # {}]
      /\ sqdone' = (sqdone /\ go = {})
      /\ UNCHANGED <<failed_tids, state>>
  <2>1. {t \in go : SkippedBelow(t)} = {}
    BY <1>7
  <2>2. Passes(go) = {[done |-> go, broken |-> {}]}
    BY <2>1 DEF Passes
  <2> DEFINE pass == [done |-> go, broken |-> {}]
  <2>3. pass.done = go /\ pass.broken = {}
    OBVIOUS
  <2> HIDE DEF pass
  <2>4. /\ pending_migrations' =
             pending \ (TooLate(pending) \cup pass.done \cup pass.broken)
        /\ pass.broken = {} =>
           /\ sq' = [IF go = {} THEN sq ELSE Requeue(Reopen(go, uni), go, uni)
                     EXCEPT !.holdoff_need_update = @ \/ changed \cup go # {}]
           /\ sqdone' = (sqdone /\ go = {})
           /\ UNCHANGED <<failed_tids, state>>
    BY <1>4, <2>2 DEF MigrateTo, go, pass
  <2> QED
    BY <2>3, <2>4
<1>9. Migrates(uni, changed, pending, go)
  BY <1>1, <1>3, <1>6, <1>8, <1>5 DEF Migrates
<1> QED
  BY <1>9

\* What a pass of migrations makes of the setscene queue.
LEMMA MigratedFacts ==
    ASSUME HardDeps = {}, QueueOrder, SceneInv,
           NEW uni, NEW changed, NEW pending, NEW go, Migrates(uni, changed, pending, go)
    PROVE  /\ SceneOK(sq')
           /\ \E K \in SUBSET go : /\ sq'.covered = sq.covered \cup K
                                   /\ sq'.running = (sq.running \ go) \cup K
                                   /\ Settled(sq') = (Settled(sq) \ go) \cup K
           /\ sq'.notcovered = sq.notcovered \ go
           /\ \A s \in Setscene \ go : sq'.deferred[s] = sq.deferred[s]
           /\ \A s \in go : IF uni[s] = InitialUnihash /\ s # FirstOfName(s)
                            THEN sq'.deferred[s] = FirstOfName(s)
                            ELSE sq'.deferred[s] = sq.deferred[s]
           /\ \/ sq'.holdoff_need_update
              \/ /\ sq'.covered = sq.covered /\ sq'.done = sq.done
                 /\ sq'.notcovered = sq.notcovered
                 /\ sq'.holdoff_need_update = sq.holdoff_need_update
<1>1. /\ go \subseteq Setscene /\ go \cap sq.covered = {}
      /\ sq' = [IF go = {} THEN sq ELSE Requeue(Reopen(go, uni), go, uni)
                EXCEPT !.holdoff_need_update = @ \/ changed \cup go # {}]
      /\ SceneOK(sq)
  BY DEF Migrates, SceneInv
<1>2. PICK r : r = IF go = {} THEN sq ELSE Requeue(Reopen(go, uni), go, uni)
  OBVIOUS
<1>3. /\ SceneOK(r)
      /\ \E K \in SUBSET go : /\ r.covered = sq.covered \cup K
                              /\ r.running = (sq.running \ go) \cup K
      /\ r.notcovered = sq.notcovered \ go
      /\ \A s \in Setscene \ go : r.deferred[s] = sq.deferred[s]
      /\ \A s \in go : IF uni[s] = InitialUnihash /\ s # FirstOfName(s)
                       THEN r.deferred[s] = FirstOfName(s)
                       ELSE r.deferred[s] = sq.deferred[s]
  <2>1. CASE go = {}
    <3>1. r = sq
      BY <1>2, <2>1
    <3>2. /\ {} \in SUBSET go
          /\ r.covered = sq.covered \cup {} /\ r.running = (sq.running \ go) \cup {}
      BY <2>1, <3>1
    <3> QED
      BY <1>1, <2>1, <3>1, <3>2
  <2>2. CASE go # {}
    <3>1. r = Requeue(Reopen(go, uni), go, uni)
      BY <1>2, <2>2
    <3>2. Reopens(sq, go, uni, r)
      BY <1>1, <3>1, ReopenFacts
    <3> QED
      BY <3>2 DEF Reopens
  <2> QED
    BY <2>1, <2>2
<1>4. sq' = [r EXCEPT !.holdoff_need_update = @ \/ changed \cup go # {}]
  BY <1>1, <1>2
<1>5. r = [f \in SceneFields |-> r[f]] /\ r.holdoff_need_update \in BOOLEAN
  BY <1>3 DEF SceneOK, SceneTypes
<1>6. /\ sq' = [f \in SceneFields |-> sq'[f]]
      /\ sq'.running = r.running /\ sq'.buildable = r.buildable
      /\ sq'.notcovered = r.notcovered /\ sq'.covered = r.covered
      /\ sq'.done = r.done /\ sq'.notneeded = r.notneeded
      /\ sq'.deferred = r.deferred
      /\ sq'.holdoff_need_update = (r.holdoff_need_update \/ changed \cup go # {})
  BY <1>4, <1>5 DEF SceneFields
<1>7. SceneOK(sq')
  <2>1. SceneTypes(r) /\ SettledOnce(r) /\ ReadyBuildable(r) /\ DoneClosed(r.done)
    BY <1>3 DEF SceneOK
  <2>2. SceneTypes(sq')
    <3>1. /\ sq'.covered \subseteq Setscene /\ sq'.notcovered \subseteq Setscene
          /\ sq'.done \subseteq Tasks /\ sq'.holdoff_need_update \in BOOLEAN
          /\ sq'.buildable \subseteq Setscene
      BY <1>6, <2>1 DEF SceneTypes
    <3>2. sq'.deferred = [s \in Setscene |-> sq'.deferred[s]]
      BY <1>6, <2>1 DEF SceneTypes
    <3> QED
      BY <1>6, <3>1, <3>2 DEF SceneTypes
  <2> QED
    BY <1>6, <2>1, <2>2 DEF SceneOK, SettledOnce, ReadyBuildable, Settled
<1>8. PICK K \in SUBSET go : /\ sq'.covered = sq.covered \cup K
                             /\ sq'.running = (sq.running \ go) \cup K
  BY <1>3, <1>6
<1>9. sq'.notcovered = sq.notcovered \ go
  BY <1>3, <1>6
<1>10. Settled(sq') = (Settled(sq) \ go) \cup K
  BY <1>1, <1>8, <1>9 DEF Settled
<1>11. \/ sq'.holdoff_need_update
       \/ /\ sq'.covered = sq.covered /\ sq'.done = sq.done
          /\ sq'.notcovered = sq.notcovered
          /\ sq'.holdoff_need_update = sq.holdoff_need_update
  <2> SUFFICES ASSUME ~sq'.holdoff_need_update
               PROVE  /\ sq'.covered = sq.covered /\ sq'.done = sq.done
                      /\ sq'.notcovered = sq.notcovered
                      /\ sq'.holdoff_need_update = sq.holdoff_need_update
    OBVIOUS
  <2>1. go = {} /\ ~r.holdoff_need_update
    BY <1>5, <1>6
  <2>2. r = sq
    BY <1>2, <2>1
  <2>3. sq'.covered = sq.covered /\ sq'.notcovered = sq.notcovered /\ sq'.done = sq.done
    BY <1>6, <2>2
  <2>4. sq'.holdoff_need_update = sq.holdoff_need_update
    BY <1>5, <1>6, <1>7, <2>1, <2>2 DEF SceneOK, SceneTypes
  <2> QED
    BY <2>3, <2>4
<1> QED
  BY <1>3, <1>6, <1>7, <1>8, <1>9, <1>10, <1>11

LEMMA SceneMigrates ==
    ASSUME HardDeps = {}, QueueOrder, SceneInv, Migrate
    PROVE  SceneInv'
<1> USE StaticFacts
<1>1. /\ UNCHANGED <<cover, runq_running, runq_complete, runq_tasksrun, sq_live>>
      /\ pc' = "setscene"
  BY DEF Migrate, jobs
<1>2. PICK uni, changed, pending, go : Migrates(uni, changed, pending, go)
  BY MigrateFacts
<1>3. /\ SceneOK(sq) /\ LiveUnsettled /\ Apart /\ SkippedIsCovered /\ PendingUncovered
      /\ HoldoffFresh /\ StageFresh /\ NoLateRerun
      /\ SettledOnce(sq) /\ SceneTypes(sq)
  BY DEF SceneInv, SceneOK
<1>4. pending \subseteq Setscene /\ pending \cap sq.covered = {}
  BY <1>2 DEF Migrates
<1>5. /\ go \subseteq pending
      /\ go \cap (runq_running \cup sq_live) = {}
      /\ \A t \in go : SqCovers[t] \cap (runq_running \ runq_complete) = {}
      /\ \A t \in pending \ go : \/ t \in runq_running \cup sq_live
                                 \/ SqCovers[t] \cap (runq_running \ runq_complete) # {}
  BY <1>2 DEF Migrates
<1>6. /\ pending_migrations' = pending \ (TooLate(pending) \cup go)
      /\ UNCHANGED failed_tids
  BY <1>2 DEF Migrates
<1>7. /\ SceneOK(sq')
      /\ sq'.notcovered = sq.notcovered \ go
      /\ \A s \in Setscene \ go : sq'.deferred[s] = sq.deferred[s]
      /\ \/ sq'.holdoff_need_update
         \/ /\ sq'.covered = sq.covered /\ sq'.done = sq.done
            /\ sq'.notcovered = sq.notcovered
            /\ sq'.holdoff_need_update = sq.holdoff_need_update
  BY <1>2, MigratedFacts
<1>8. PICK K \in SUBSET go : /\ sq'.covered = sq.covered \cup K
                             /\ sq'.running = (sq.running \ go) \cup K
                             /\ Settled(sq') = (Settled(sq) \ go) \cup K
  BY <1>2, MigratedFacts
<1>9. LiveUnsettled'
  <2>1. sq_live \subseteq Setscene \ go
    BY <1>5 DEF QueueOrder
  <2> QED
    BY <1>1, <1>3, <1>7, <1>8, <2>1 DEF LiveUnsettled
<1>10. Apart'
  <2> SUFFICES ASSUME NEW s \in Unsettled(sq')
               PROVE  ({s} \cup SqCovers[s]) \cap (runq_running \ runq_complete) = {}
    BY <1>1 DEF Apart
  <2>1. CASE s \in go
    BY <1>5, <2>1
  <2>2. CASE s \notin go
    <3>1. s \in Unsettled(sq)
      BY <1>8, <2>2 DEF Unsettled
    <3> QED
      BY <1>3, <3>1 DEF Apart
  <2> QED
    BY <2>1, <2>2
<1>11. SkippedIsCovered'
  BY <1>1, <1>3, <1>8 DEF SkippedIsCovered
<1>12. PendingUncovered'
  <2> SUFFICES ASSUME NEW t \in pending_migrations' PROVE t \in sq.notcovered \ go
    BY <1>7 DEF PendingUncovered
  <2>1. t \in pending \ go /\ t \notin runq_running \cup sq_live /\ t \in Setscene
    BY <1>4, <1>6 DEF TooLate
  <2>2. SqCovers[t] \cap (runq_running \ runq_complete) # {}
    BY <1>5, <2>1
  <2>3. t \notin Unsettled(sq)
    BY <1>3, <2>2 DEF Apart
  <2> QED
    BY <1>4, <2>1, <2>3 DEF Unsettled, Settled
<1>13. HoldoffFresh'
  <2>1. CASE sq'.holdoff_need_update
    BY <2>1 DEF HoldoffFresh
  <2>2. CASE /\ sq'.covered = sq.covered /\ sq'.done = sq.done
             /\ sq'.notcovered = sq.notcovered
             /\ sq'.holdoff_need_update = sq.holdoff_need_update
    BY <1>1, <1>3, <2>2, HoldoffKept
  <2> QED
    BY <1>7, <2>1, <2>2
<1>14. StageFresh' /\ NoLateRerun'
  BY <1>1, <1>3, <1>6 DEF StageFresh, NoLateRerun
<1> QED
  BY <1>7, <1>9, <1>10, <1>11, <1>12, <1>13, <1>14 DEF SceneInv

\* Nothing is migrated when no new hash is ever reported.
NoReports ==
    NewUnihashes = {} =>
        updated_taskhash_queue = {} /\ pending_migrations = {} /\ pc # "migrate"

LEMMA NextNoReports == NoReports /\ [Next]_vars => NoReports'
<1> SUFFICES ASSUME NewUnihashes = {}, [Next]_vars, updated_taskhash_queue = {},
                    pending_migrations = {}, pc # "migrate"
             PROVE  /\ updated_taskhash_queue' = {} /\ pending_migrations' = {}
                    /\ pc' # "migrate"
  BY DEF NoReports
<1>1. ~Migrate /\ ~\E t \in Tasks, u \in NewUnihashes : ReadUniHash(t, u)
  BY DEF Migrate
<1>2. CASE EndRead
  BY <1>2 DEF EndRead, Goto, hashes
<1>3. CASE Terminated \/ UNCHANGED vars
  BY <1>3 DEF Terminated, vars, control, hashes
<1>4. CASE \/ EnterExecute \/ Finish \/ FinishNow \/ NoSetscene \/ NoTask
           \/ HoldoffStage \/ TailWait \/ TailFinish
  BY <1>4 DEF EnterExecute, Finish, FinishNow, NoSetscene, NoTask, HoldoffStage, TailWait,
     TailFinish, Goto, hashes
<1>5. CASE \E t \in Setscene :
              \/ SetsceneNotNeeded(t) \/ SetsceneFail(t) \/ SetsceneSkip(t)
              \/ SetsceneStart(t) \/ TailForceDeferred(t)
  BY <1>5 DEF SetsceneNotNeeded, SetsceneFail, SetsceneSkip, SetsceneStart,
     TailForceDeferred, Goto, hashes
<1>6. CASE \E t \in Tasks :
              RefuseTask(t) \/ SkipTask(t) \/ NoExecTask(t) \/ StartTask(t)
  BY <1>6 DEF RefuseTask, SkipTask, NoExecTask, StartTask, Goto, hashes, control
<1>7. CASE \E t \in Tasks :
              \/ ReadTaskComplete(t) \/ ReadTaskFailed(t)
              \/ ReadSetsceneComplete(t) \/ ReadSetsceneFailed(t)
  BY <1>7 DEF ReadTaskComplete, ReadTaskFailed, ReadSetsceneComplete, ReadSetsceneFailed,
     hashes, control
<1> QED
  BY <1>1, <1>2, <1>3, <1>4, <1>5, <1>6, <1>7 DEF Next, Step, ReadExit

LEMMA NextSceneInv ==
    ASSUME HardDepsInOrder, HardDeps = {} \/ NoReports, QueueOrder, SceneInv, [Next]_vars
    PROVE  SceneInv'
<1>1. CASE \E t \in Setscene : SetsceneNotNeeded(t) \/ SetsceneFail(t) \/ SetsceneSkip(t)
  BY <1>1, SceneChoiceSteps
<1>2. CASE \E t \in Setscene : SetsceneStart(t)
  BY <1>2, SceneJobStarts
<1>3. CASE \E t \in Setscene : TailForceDeferred(t)
  BY <1>3, SceneForced
<1>4. CASE \E t \in Tasks : ReadTaskComplete(t) \/ SkipTask(t) \/ NoExecTask(t)
  BY <1>4, SceneTaskSteps
<1>5. CASE \E t \in Tasks : StartTask(t)
  BY <1>5, SceneStartTask
<1>6. CASE \E t \in Tasks : ReadSetsceneComplete(t) \/ ReadSetsceneFailed(t)
  BY <1>6, SceneJobEnds
<1>7. CASE Migrate
  <2>1. pc = "migrate"
    BY <1>7 DEF Migrate
  <2>2. HardDeps = {}
    BY <2>1 DEF NoReports, HardDepsInOrder
  <2> QED
    BY <1>7, <2>2, SceneMigrates
<1>8. CASE HoldoffStage
  BY <1>8, SceneHoldoff
<1> QED
  BY <1>1, <1>2, <1>3, <1>4, <1>5, <1>6, <1>7, <1>8, SceneQuietSteps
  DEF Next, Step, ReadExit

LEMMA SceneInvHolds ==
    ASSUME HardDepsInOrder PROVE Spec => [](QueueOrder /\ SceneInv)
<1>1. Init => QueueOrder /\ NoReports /\ SceneInv
  <2>1. Init => NoReports
    BY DEF Init, NoReports
  <2> QED
    BY <2>1, InitQueueOrder, InitSceneInv
<1>2. QueueOrder /\ NoReports /\ SceneInv /\ [Next]_vars
        => (QueueOrder /\ NoReports /\ SceneInv)'
  BY NextQueueOrder, NextNoReports, NextSceneInv
<1> QED
  BY <1>1, <1>2, PTL DEF Spec

\* A setscene task is never put in place while the task itself or a plain task it
\* covers is being run, on every task graph and whatever hashes are reported while
\* jobs run: "If covered tasks are running, need to wait for them to complete"
\* holds of the first start of a task, which the hold-offs prevent, as it does of a
\* migration, which process_possible_migrations() puts off.
THEOREM ExclusionHolds ==
    ASSUME HardDepsInOrder PROVE Spec => []SetsceneExclusive
<1>1. QueueOrder /\ SceneInv => SetsceneExclusive
  BY DEF QueueOrder, SceneInv, SetsceneExclusive, LiveUnsettled, Apart, Unsettled
<1> QED
  BY <1>1, SceneInvHolds, PTL

\* Plain twins: the scheduler passes over a task while its first stamp is being
\* made, and no setscene job begins beside a job of its own task.
StampsApart == DOMAIN build_stamps = Tasks /\ NoDuplicateTasks

LEMMA NextStampsApart ==
    QueueOrder /\ SetsceneExclusive /\ SetsceneExclusive' /\ StampsApart /\ [Next]_vars
        => StampsApart'
<1> SUFFICES ASSUME QueueOrder, SetsceneExclusive, SetsceneExclusive', StampsApart,
                    [Next]_vars
             PROVE  StampsApart'
  OBVIOUS
<1>1. runq_live \subseteq Tasks /\ sq_live \subseteq Tasks
  BY SubsetsAssumption DEF QueueOrder
<1>2. ASSUME UNCHANGED <<runq_live, build_stamps>> PROVE StampsApart'
  BY <1>2 DEF StampsApart, NoDuplicateTasks, SameFirstStamp
<1>3. ASSUME \/ Migrate \/ EnterExecute \/ Finish \/ FinishNow \/ EndRead
             \/ NoSetscene \/ NoTask \/ TailWait \/ TailFinish \/ Terminated
             \/ HoldoffStage \/ UNCHANGED vars
             \/ \E t \in Setscene :
                   \/ SetsceneNotNeeded(t) \/ SetsceneFail(t) \/ SetsceneSkip(t)
                   \/ TailForceDeferred(t)
             \/ \E t \in Tasks : RefuseTask(t) \/ SkipTask(t) \/ NoExecTask(t)
             \/ \E t \in Tasks, u \in NewUnihashes : ReadUniHash(t, u)
      PROVE  StampsApart'
  <2>1. UNCHANGED <<runq_live, build_stamps>>
    BY <1>3 DEF vars, jobs, Migrate, EnterExecute, Finish, FinishNow, EndRead,
       NoSetscene, NoTask, TailWait, TailFinish, Terminated, HoldoffStage,
       SetsceneNotNeeded, SetsceneFail, SetsceneSkip, TailForceDeferred,
       RefuseTask, SkipTask, NoExecTask, ReadUniHash
  <2> QED
    BY <1>2, <2>1
<1>4. ASSUME NEW t \in Tasks, t \notin runq_live', runq_live' \subseteq runq_live,
             NEW v, build_stamps' = [build_stamps EXCEPT ![t] = v]
      PROVE  StampsApart'
  BY <1>1, <1>4 DEF StampsApart, NoDuplicateTasks, SameFirstStamp
<1>5. ASSUME NEW t \in Tasks, \/ ReadTaskComplete(t) \/ ReadTaskFailed(t)
                              \/ ReadSetsceneComplete(t) \/ ReadSetsceneFailed(t)
      PROVE  StampsApart'
  <2>1. runq_live' \subseteq runq_live /\ build_stamps' = [build_stamps EXCEPT ![t] = None]
    BY <1>5 DEF ReadTaskComplete, ReadTaskFailed, ReadSetsceneComplete,
       ReadSetsceneFailed, JobEnds
  <2>2. t \notin runq_live'
    BY <1>5 DEF SetsceneExclusive, ReadTaskComplete, ReadTaskFailed,
       ReadSetsceneComplete, ReadSetsceneFailed
  <2> QED
    BY <1>4, <2>1, <2>2
<1>6. ASSUME NEW t \in Setscene, SetsceneStart(t) PROVE StampsApart'
  <2>1. /\ runq_live' = runq_live /\ t \in sq_live'
        /\ build_stamps' = [build_stamps EXCEPT ![t] = unihash[t]]
    BY <1>6 DEF SetsceneStart
  <2>2. t \notin runq_live' /\ t \in Tasks
    BY <2>1, SubsetsAssumption DEF SetsceneExclusive
  <2> QED
    BY <1>4, <2>1, <2>2
<1>7. ASSUME NEW t \in Tasks, StartTask(t) PROVE StampsApart'
  <2>1. /\ runq_live' = runq_live \cup {t}
        /\ build_stamps' = [build_stamps EXCEPT ![t] = unihash[t]]
        /\ ~StampInUse(t, InitialUnihash)
    BY <1>7 DEF StartTask, ToRun, ChooseTask, Schedulable
  <2>2. \A r \in runq_live : Name[r] = Name[t] => build_stamps[r] # InitialUnihash
    BY <2>1 DEF StampInUse
  <2>3. \A r \in runq_live : r # t => build_stamps'[r] = build_stamps[r]
    BY <1>1, <2>1 DEF StampsApart
  <2> QED
    BY <2>1, <2>2, <2>3 DEF StampsApart, NoDuplicateTasks, Twins, SameFirstStamp
<1> QED
  BY <1>3, <1>5, <1>6, <1>7 DEF Next, Step, ReadExit

\* The scheduler's half of NoDuplicateJobs: two plain tasks that make the same
\* stamp in two multiconfigs never run at the same time as long as they have the
\* hash of the start, whatever was reported of other tasks meanwhile.
THEOREM TasksApart ==
    ASSUME HardDepsInOrder PROVE Spec => []NoDuplicateTasks
<1>1. Init => StampsApart
  BY DEF Init, StampsApart, NoDuplicateTasks
<1>2. QueueOrder /\ SetsceneExclusive /\ SetsceneExclusive' /\ StampsApart /\ [Next]_vars
        => StampsApart'
  BY NextStampsApart
<1>3. StampsApart => NoDuplicateTasks
  BY DEF StampsApart
<1> QED
  BY <1>1, <1>2, <1>3, SceneInvHolds, ExclusionHolds, PTL DEF Spec

LEMMA FirstIsSetscene == ASSUME NEW s \in Setscene PROVE FirstOfName(s) \in Setscene
<1> DEFINE S == {r \in Setscene : Name[r] = Name[s]}
<1>1. S \in SUBSET Tasks /\ S # {}
  BY SubsetsAssumption
<1>2. Min(S) \in S
  BY <1>1, MinIsMember
<1> QED
  BY <1>2 DEF FirstOfName

\* Setscene twins. Each of them but the first is deferred after the first. What
\* has been started of the tasks that have a setscene variant is settled, and
\* only what has been started reports a hash.
InTurn ==
    /\ runq_running \cap Setscene \subseteq Settled(sq)
    /\ \A m \in updated_taskhash_queue : m[1] \in runq_running
    /\ \A s \in Setscene : sq.deferred[s] # None =>
          sq.deferred[s] = FirstOfName(s) \/ FirstOfName(s) \in runq_complete

LEMMA InitInTurn == Init => InTurn
<1> SUFFICES ASSUME Init PROVE InTurn
  OBVIOUS
<1>1. /\ runq_running = {} /\ updated_taskhash_queue = {}
      /\ \A s \in Setscene : sq.deferred[s] \in {None, FirstOfName(s)}
  BY InitialFacts DEF Init
<1> QED
  BY <1>1 DEF InTurn

\* What a step other than a migration makes of the setscene queue: what is
\* settled stays so, what has no job any more is settled, a task waits for another
\* one only when the one it waited for is complete, and for none when it is
\* settled, started or forced.
LEMMA SceneGoesOn ==
    ASSUME HardDepsInOrder, QueueOrder, SceneInv, [Next]_vars, ~Migrate
    PROVE  /\ UNCHANGED unihash
           /\ Settled(sq) \subseteq Settled(sq')
           /\ sq_live \ sq_live' \subseteq Settled(sq')
           /\ \A s \in Setscene :
                \/ sq'.deferred[s] = sq.deferred[s]
                \/ sq.deferred[s] \in runq_complete'
                \/ /\ sq'.deferred[s] = None
                   /\ s \in Settled(sq') \/ SetsceneStart(s) \/ TailForceDeferred(s)
<1>1. ASSUME \/ EnterExecute \/ Finish \/ FinishNow \/ EndRead \/ NoSetscene
             \/ NoTask \/ TailWait \/ TailFinish \/ Terminated \/ UNCHANGED vars
             \/ \E t \in Tasks : RefuseTask(t) \/ ReadTaskFailed(t) \/ StartTask(t)
             \/ \E t \in Tasks, u \in NewUnihashes : ReadUniHash(t, u)
      PROVE  UNCHANGED <<sq, unihash, sq_live>>
  BY <1>1 DEF vars, jobs, scene, hashes, EnterExecute, Finish, FinishNow, EndRead, NoSetscene,
     NoTask, TailWait, TailFinish, Terminated, RefuseTask, ReadTaskFailed, StartTask,
     ReadUniHash
<1>2. CASE \E t \in Tasks : ReadTaskComplete(t) \/ SkipTask(t) \/ NoExecTask(t)
  <2>1. PICK t \in Tasks : ReadTaskComplete(t) \/ SkipTask(t) \/ NoExecTask(t)
    BY <1>2
  <2>2. PICK dsk : /\ sq' = ReleaseDeferred(sq, t, dsk, unihash)
                   /\ t \in runq_complete' /\ UNCHANGED <<unihash, sq_live>>
    BY <2>1 DEF ReadTaskComplete, SkipTask, NoExecTask, CompleteOutright, hashes, jobs
  <2>3. /\ Releases(sq, sq')
        /\ \A s \in Setscene : sq'.deferred[s] = sq.deferred[s] \/ sq.deferred[s] = t
    BY <2>2, ReleaseFacts DEF SceneInv
  <2> QED
    BY <2>2, <2>3 DEF Releases, Settled
<1>3. CASE \E t \in Setscene : SetsceneNotNeeded(t) \/ SetsceneFail(t) \/ SetsceneSkip(t)
  <2>1. PICK t \in Setscene : SetsceneNotNeeded(t) \/ SetsceneFail(t) \/ SetsceneSkip(t)
    BY <1>3
  <2>2. PICK q : q = Undefer(t)
    OBVIOUS
  <2>3. /\ SceneOK(q) /\ SceneTypes(q) /\ Settled(q) = Settled(sq)
        /\ q.deferred[t] = None
        /\ \A s \in Setscene \ {t} : q.deferred[s] = sq.deferred[s]
    BY <2>2, UndeferFacts DEF SceneInv, SceneOK, Settled
  <2>4. t \notin Settled(q)
    BY <2>1, <2>3, ChosenUnsettled DEF SetsceneNotNeeded, SetsceneFail, SetsceneSkip
  <2>5. /\ UNCHANGED <<unihash, sq_live>>
        /\ Settled(q) \cup {t} \subseteq Settled(sq') /\ sq'.deferred = q.deferred
    <3>1. CASE SetsceneSkip(t)
      <4>1. SettlesCovered(q, {t}, sq')
        BY <2>2, <2>3, <3>1, CoverFacts DEF SetsceneSkip
      <4> QED
        BY <3>1, <4>1 DEF SettlesCovered, Settles, Settled, SetsceneSkip, hashes, jobs
    <3>2. CASE SetsceneFail(t)
      <4>1. sq' = FailOutright(q, {t}, disk, unihash)
        BY <2>2, <3>2 DEF SetsceneFail
      <4>2. PICK F \in SUBSET Setscene : t \in F /\ SettlesFailed(q, F, sq')
        BY <2>3, <2>4, <4>1, FailFacts
      <4> QED
        BY <3>2, <4>2 DEF SettlesFailed, Settles, Settled, SetsceneFail, hashes, jobs
    <3>3. CASE SetsceneNotNeeded(t)
      <4>1. PICK r : r = Cover(q, {t})
        OBVIOUS
      <4>2. SettlesCovered(q, {t}, r)
        BY <2>3, <4>1, CoverFacts
      <4>3. r = [f \in SceneFields |-> r[f]]
        BY <4>2 DEF SettlesCovered, Settles, SceneTypes
      <4>4. sq' = [r EXCEPT !.notneeded = @ \cup {t}]
        BY <2>2, <3>3, <4>1 DEF SetsceneNotNeeded
      <4>5. /\ sq'.covered = r.covered /\ sq'.notcovered = r.notcovered
            /\ sq'.deferred = r.deferred
        BY <4>3, <4>4 DEF SceneFields
      <4> QED
        BY <3>3, <4>2, <4>5 DEF SettlesCovered, Settles, Settled, SetsceneNotNeeded,
           hashes, jobs
    <3> QED
      BY <2>1, <3>1, <3>2, <3>3
  <2> QED
    BY <2>3, <2>5
<1>4. CASE \E t \in Setscene : SetsceneStart(t) \/ TailForceDeferred(t)
  <2>1. PICK t \in Setscene : SetsceneStart(t) \/ TailForceDeferred(t)
    BY <1>4
  <2>2. PICK q : q = Undefer(t)
    OBVIOUS
  <2>3. /\ SceneOK(q) /\ Settled(q) = Settled(sq)
        /\ q.deferred[t] = None
        /\ \A s \in Setscene \ {t} : q.deferred[s] = sq.deferred[s]
    BY <2>2, UndeferFacts DEF SceneInv, Settled
  <2>4. q = [f \in SceneFields |-> q[f]]
    BY <2>3 DEF SceneOK, SceneTypes
  <2>5. sq' = q \/ sq' = [q EXCEPT !.running = @ \cup {t}]
    BY <2>1, <2>2 DEF SetsceneStart, TailForceDeferred
  <2>6. /\ sq'.covered = q.covered /\ sq'.notcovered = q.notcovered
        /\ sq'.deferred = q.deferred
    BY <2>4, <2>5 DEF SceneFields
  <2>7. UNCHANGED unihash /\ sq_live \subseteq sq_live'
    BY <2>1 DEF SetsceneStart, TailForceDeferred, hashes, jobs
  <2> QED
    BY <2>1, <2>3, <2>6, <2>7 DEF Settled
<1>5. CASE \E t \in Tasks : ReadSetsceneComplete(t) \/ ReadSetsceneFailed(t)
  <2>1. PICK t \in Tasks : ReadSetsceneComplete(t) \/ ReadSetsceneFailed(t)
    BY <1>5
  <2>2. t \in sq_live /\ sq_live' = sq_live \ {t} /\ t \in Setscene /\ UNCHANGED unihash
    BY <2>1 DEF ReadSetsceneComplete, ReadSetsceneFailed, QueueOrder, hashes
  <2>3. SceneOK(sq) /\ SceneTypes(sq) /\ t \notin Settled(sq) /\ sq.deferred[t] = None
    BY <2>2 DEF SceneInv, SceneOK, LiveUnsettled
  <2>4. PICK F \in SUBSET Setscene :
           t \in F /\ (SettlesCovered(sq, F, sq') \/ SettlesFailed(sq, F, sq'))
    BY <2>1, <2>2, <2>3, CoverFacts, FailFacts DEF ReadSetsceneComplete, ReadSetsceneFailed
  <2> QED
    BY <2>2, <2>4 DEF SettlesCovered, SettlesFailed, Settles, Settled
<1>6. CASE HoldoffStage
  <2>1. sq = [f \in SceneFields |-> sq[f]]
    BY DEF SceneInv, SceneOK, SceneTypes
  <2>2. sq' = sq \/ sq' = [sq EXCEPT !.holdoff_need_update = FALSE]
    BY <1>6 DEF HoldoffStage, UpdateHoldoff
  <2>3. /\ sq'.covered = sq.covered /\ sq'.notcovered = sq.notcovered
        /\ sq'.deferred = sq.deferred
    BY <2>1, <2>2 DEF SceneFields
  <2> QED
    BY <1>6, <2>3 DEF HoldoffStage, Settled, hashes, jobs
<1> QED
  BY <1>1, <1>2, <1>3, <1>4, <1>5, <1>6 DEF Next, Step, ReadExit

\* A migration queues a task again behind its first twin, unless its hash is new
\* or it is the first. Of the tasks it leaves alone, none gets another hash but
\* those that wait for the task that reported one, and the live ones.
LEMMA MigratedTurns ==
    ASSUME HardDeps = {}, QueueOrder, SceneInv, InTurn, Migrate
    PROVE  \E go \in SUBSET Setscene :
              /\ go \cap (runq_running \cup sq_live) = {}
              /\ Settled(sq) \subseteq Settled(sq') \cup go
              /\ \A s \in go : IF unihash'[s] = InitialUnihash /\ s # FirstOfName(s)
                               THEN sq'.deferred[s] = FirstOfName(s)
                               ELSE sq'.deferred[s] = sq.deferred[s]
              /\ \A s \in Setscene \ go :
                    /\ sq'.deferred[s] = sq.deferred[s]
                    /\ s \notin Settled(sq) \cup sq_live /\ sq.deferred[s] = None
                          => unihash'[s] = unihash[s]
<1>1. PICK uni, changed, pending, go : Migrates(uni, changed, pending, go)
  BY MigrateFacts
<1>2. /\ go \in SUBSET Setscene
      /\ go \cap (runq_running \cup sq_live) = {}
      /\ \A t \in pending \ go : \/ t \in runq_running \cup sq_live
                                 \/ SqCovers[t] \cap (runq_running \ runq_complete) # {}
      /\ unihash' = uni
      /\ \A s \in Setscene \ pending :
            \/ uni[s] = unihash[s]
            \/ \E m \in ReadyReports : m[1] = s \/ sq.deferred[s] = m[1]
  BY <1>1 DEF Migrates
<1>3. /\ \A s \in Setscene \ go : sq'.deferred[s] = sq.deferred[s]
      /\ \A s \in go : IF uni[s] = InitialUnihash /\ s # FirstOfName(s)
                       THEN sq'.deferred[s] = FirstOfName(s)
                       ELSE sq'.deferred[s] = sq.deferred[s]
      /\ Settled(sq) \subseteq Settled(sq') \cup go
  BY <1>1, MigratedFacts
<1>4. ASSUME NEW s \in Setscene \ go, s \notin Settled(sq) \cup sq_live, sq.deferred[s] = None
      PROVE  uni[s] = unihash[s]
  <2>1. s \notin runq_running
    BY <1>4 DEF InTurn
  <2>2. SqCovers[s] \cap (runq_running \ runq_complete) = {}
    BY <1>4 DEF SceneInv, Apart, Unsettled
  <2>3. s \notin pending
    BY <1>2, <1>4, <2>1, <2>2
  <2>4. \A m \in ReadyReports : m[1] \in runq_running /\ m[1] # None
    BY TasksAssumption DEF ReadyReports, InTurn, QueueOrder, None
  <2> QED
    BY <1>2, <1>4, <2>1, <2>3, <2>4
<1> QED
  BY <1>2, <1>3, <1>4

LEMMA NextInTurn ==
    ASSUME HardDepsInOrder, HardDeps = {} \/ NoReports, QueueOrder, SceneInv, InTurn, [Next]_vars
    PROVE  InTurn'
<1>1. CASE Migrate
  <2>1. HardDeps = {}
    BY <1>1 DEF Migrate, NoReports, HardDepsInOrder
  <2>2. /\ UNCHANGED <<runq_running, runq_complete>>
        /\ updated_taskhash_queue' \subseteq updated_taskhash_queue
    BY <1>1 DEF Migrate
  <2>3. PICK go \in SUBSET Setscene :
           /\ go \cap (runq_running \cup sq_live) = {}
           /\ Settled(sq) \subseteq Settled(sq') \cup go
           /\ \A s \in Setscene : sq'.deferred[s] \in {sq.deferred[s], FirstOfName(s)}
    BY <1>1, <2>1, MigratedTurns
  <2> QED
    BY <2>2, <2>3 DEF InTurn
<1>2. CASE ~Migrate
  <2>1. /\ runq_running \subseteq runq_running' /\ runq_complete \subseteq runq_complete'
        /\ \A t \in runq_running' \ runq_running : ChooseTask(t)
        /\ \A m \in updated_taskhash_queue' \ updated_taskhash_queue : m[1] \in runq_live
    <3>1. ASSUME NEW t \in Tasks, \/ SkipTask(t) \/ NoExecTask(t) \/ StartTask(t)
          PROVE  /\ ChooseTask(t) /\ runq_running' = runq_running \cup {t}
                 /\ runq_complete \subseteq runq_complete'
                 /\ UNCHANGED updated_taskhash_queue
      BY <3>1 DEF SkipTask, NoExecTask, StartTask, ToRun, CompleteOutright, hashes
    <3>2. ASSUME NEW t \in Tasks, NEW u, ReadUniHash(t, u)
          PROVE  /\ UNCHANGED <<runq_running, runq_complete>>
                 /\ updated_taskhash_queue' = updated_taskhash_queue \cup {<<t, u>>}
                 /\ t \in runq_live
      BY <3>2 DEF ReadUniHash, runq
    <3>3. ASSUME \/ EnterExecute \/ Finish \/ FinishNow \/ EndRead \/ NoSetscene
                 \/ NoTask \/ TailWait \/ TailFinish \/ Terminated \/ UNCHANGED vars
                 \/ HoldoffStage
                 \/ \E t \in Setscene :
                       \/ SetsceneNotNeeded(t) \/ SetsceneFail(t) \/ SetsceneSkip(t)
                       \/ SetsceneStart(t) \/ TailForceDeferred(t)
                 \/ \E t \in Tasks : RefuseTask(t) \/ ReadExit(t)
          PROVE  /\ UNCHANGED <<runq_running, updated_taskhash_queue>>
                 /\ runq_complete \subseteq runq_complete'
      BY <3>3 DEF vars, runq, hashes, EnterExecute, Finish, FinishNow, EndRead,
         NoSetscene, NoTask, TailWait, TailFinish, Terminated, HoldoffStage,
         SetsceneNotNeeded, SetsceneFail, SetsceneSkip, SetsceneStart, TailForceDeferred,
         RefuseTask, ReadExit, ReadTaskComplete, ReadTaskFailed, ReadSetsceneComplete,
         ReadSetsceneFailed, CompleteOutright
    <3> QED
      BY <1>2, <3>1, <3>2, <3>3 DEF Next, Step
  <2>2. \A t \in Setscene : ChooseTask(t) => t \in Settled(sq)
    BY DEF ChooseTask, Schedulable, SceneInv, StageFresh, HoldoffFresh, Unsettled
  <2>3. /\ Settled(sq) \subseteq Settled(sq')
        /\ \A s \in Setscene : \/ sq'.deferred[s] = sq.deferred[s]
                               \/ sq.deferred[s] \in runq_complete'
                               \/ sq'.deferred[s] = None
    BY <1>2, SceneGoesOn
  <2>4. None \notin runq_complete'
    BY NextQueueOrder, TasksAssumption DEF QueueOrder, None
  <2>5. \A s \in Setscene : sq'.deferred[s] # None =>
           sq'.deferred[s] = FirstOfName(s) \/ FirstOfName(s) \in runq_complete'
    BY <2>1, <2>3, <2>4 DEF InTurn
  <2>6. runq_running' \cap Setscene \subseteq Settled(sq')
    BY <2>1, <2>2, <2>3 DEF InTurn
  <2>7. \A m \in updated_taskhash_queue' : m[1] \in runq_running'
    BY <2>1 DEF InTurn, QueueOrder
  <2> QED
    BY <2>5, <2>6, <2>7 DEF InTurn
<1> QED
  BY <1>1, <1>2

\* The stamp a job of s makes, or would make if it began.
StampOf(s) == IF s \in sq_live THEN build_stamps[s] ELSE unihash[s]

LEMMA StampKept ==
    ASSUME QueueOrder, SceneInv, SetsceneExclusive, SetsceneExclusive',
           DOMAIN build_stamps = Tasks, [Next]_vars, ~Migrate, UNCHANGED unihash,
           NEW s \in Setscene, s \in sq_live => s \in sq_live'
    PROVE  StampOf(s)' = StampOf(s)
<1>1. ASSUME \/ EnterExecute \/ Finish \/ FinishNow \/ EndRead \/ NoSetscene
             \/ NoTask \/ TailWait \/ TailFinish \/ Terminated \/ UNCHANGED vars
             \/ HoldoffStage
             \/ \E t \in Setscene :
                   \/ SetsceneNotNeeded(t) \/ SetsceneFail(t) \/ SetsceneSkip(t)
                   \/ TailForceDeferred(t)
             \/ \E t \in Tasks : RefuseTask(t) \/ SkipTask(t) \/ NoExecTask(t)
             \/ \E t \in Tasks, u \in NewUnihashes : ReadUniHash(t, u)
      PROVE  UNCHANGED <<sq_live, build_stamps>>
  BY <1>1 DEF vars, jobs, EnterExecute, Finish, FinishNow, EndRead, NoSetscene, NoTask,
     TailWait, TailFinish, Terminated, HoldoffStage, SetsceneNotNeeded, SetsceneFail,
     SetsceneSkip, TailForceDeferred, RefuseTask, SkipTask, NoExecTask, ReadUniHash
<1>2. ASSUME NEW t \in Tasks, ReadTaskComplete(t) \/ ReadTaskFailed(t) PROVE StampOf(s)' = StampOf(s)
  <2>1. /\ t \in runq_live /\ sq_live' = sq_live
        /\ build_stamps' = [build_stamps EXCEPT ![t] = None]
    BY <1>2 DEF ReadTaskComplete, ReadTaskFailed, JobEnds
  <2>2. s \in sq_live => s # t
    BY <2>1 DEF SetsceneExclusive
  <2> QED
    BY <2>1, <2>2 DEF StampOf
<1>3. ASSUME NEW t \in Tasks, ReadSetsceneComplete(t) \/ ReadSetsceneFailed(t)
      PROVE  StampOf(s)' = StampOf(s)
  <2>1. sq_live' = sq_live \ {t} /\ build_stamps' = [build_stamps EXCEPT ![t] = None]
    BY <1>3 DEF ReadSetsceneComplete, ReadSetsceneFailed, JobEnds
  <2> QED
    BY <2>1 DEF StampOf
<1>4. ASSUME NEW t \in Tasks, StartTask(t) PROVE StampOf(s)' = StampOf(s)
  <2>1. /\ t \in runq_live' /\ sq_live' = sq_live
        /\ build_stamps' = [build_stamps EXCEPT ![t] = unihash[t]]
    BY <1>4 DEF StartTask
  <2>2. s \in sq_live => s # t
    BY <2>1 DEF SetsceneExclusive
  <2> QED
    BY <2>1, <2>2 DEF StampOf
<1>5. ASSUME NEW t \in Setscene, SetsceneStart(t) PROVE StampOf(s)' = StampOf(s)
  <2>1. /\ sq_live' = sq_live \cup {t} /\ t \in Tasks
        /\ build_stamps' = [build_stamps EXCEPT ![t] = unihash[t]]
    BY <1>5, SubsetsAssumption DEF SetsceneStart
  <2>2. t \notin sq_live
    BY <1>5, ChosenUnsettled DEF SetsceneStart
  <2> QED
    BY <2>1, <2>2 DEF StampOf
<1> QED
  BY <1>1, <1>2, <1>3, <1>4, <1>5 DEF Next, Step, ReadExit, StampOf

\* What is out of turn was so before the step, or is forced by it.
LEMMA NextOutOfTurn ==
    ASSUME HardDepsInOrder, HardDeps = {} \/ NoReports, QueueOrder, SceneInv,
           InTurn, SetsceneExclusive, SetsceneExclusive', DOMAIN build_stamps = Tasks,
           [Next]_vars,
           NEW s \in Setscene, OutOfTurn(s)', ~OutOfTurn(s)
    PROVE  TailForceDeferred(s)
<1>1. /\ s # FirstOfName(s) /\ FirstOfName(s) \notin runq_complete'
      /\ sq'.deferred[s] = None /\ s \notin Settled(sq')
      /\ StampOf(s)' = InitialUnihash
  BY DEF OutOfTurn, Settled, StampOf
<1>2. runq_complete \subseteq runq_complete'
  BY DEF vars, runq, EnterExecute, Finish, FinishNow, EndRead, NoSetscene,
     NoTask, TailWait, TailFinish, Terminated, HoldoffStage, SetsceneNotNeeded,
     SetsceneFail, SetsceneSkip, SetsceneStart, TailForceDeferred, RefuseTask,
     SkipTask, NoExecTask, StartTask, Migrate, ReadUniHash, ReadExit, ReadTaskComplete,
     ReadTaskFailed, ReadSetsceneComplete, ReadSetsceneFailed, CompleteOutright, Next, Step
<1>3. None \notin runq_complete' /\ FirstOfName(s) # None
  BY NextQueueOrder, FirstIsSetscene, TasksAssumption, SubsetsAssumption DEF QueueOrder, None
<1>4. \/ s \in Settled(sq)
      \/ sq.deferred[s] # None
      \/ StampOf(s) # InitialUnihash
  BY <1>1, <1>2 DEF OutOfTurn, Settled, StampOf
<1>5. CASE Migrate
  <2>1. HardDeps = {}
    BY <1>5 DEF Migrate, NoReports, HardDepsInOrder
  <2>2. UNCHANGED <<sq_live, build_stamps>>
    BY <1>5 DEF Migrate, jobs
  <2>3. PICK go \in SUBSET Setscene :
           /\ go \cap (runq_running \cup sq_live) = {}
           /\ Settled(sq) \subseteq Settled(sq') \cup go
           /\ \A x \in go : IF unihash'[x] = InitialUnihash /\ x # FirstOfName(x)
                            THEN sq'.deferred[x] = FirstOfName(x)
                            ELSE sq'.deferred[x] = sq.deferred[x]
           /\ \A x \in Setscene \ go :
                 /\ sq'.deferred[x] = sq.deferred[x]
                 /\ x \notin Settled(sq) \cup sq_live /\ sq.deferred[x] = None
                       => unihash'[x] = unihash[x]
    BY <1>5, <2>1, MigratedTurns
  <2>4. s \notin go
    BY <1>1, <1>3, <2>2, <2>3 DEF StampOf
  <2>5. s \notin Settled(sq) /\ sq.deferred[s] = None
    BY <1>1, <2>3, <2>4
  <2>6. StampOf(s) = InitialUnihash
    BY <1>1, <2>2, <2>3, <2>4, <2>5 DEF StampOf
  <2> QED
    BY <1>4, <2>5, <2>6
<1>6. CASE ~Migrate
  <2>1. /\ UNCHANGED unihash /\ Settled(sq) \subseteq Settled(sq')
        /\ sq_live \ sq_live' \subseteq Settled(sq')
        /\ \/ sq'.deferred[s] = sq.deferred[s]
           \/ sq.deferred[s] \in runq_complete'
           \/ SetsceneStart(s) \/ TailForceDeferred(s)
    BY <1>1, <1>6, SceneGoesOn
  <2>2. s \notin Settled(sq) /\ StampOf(s) = InitialUnihash
    BY <1>1, <1>6, <2>1, StampKept
  <2>3. sq.deferred[s] # None
    BY <1>4, <2>2
  <2>4. sq.deferred[s] = FirstOfName(s)
    BY <1>1, <1>2, <2>3 DEF InTurn
  <2>5. ~SetsceneStart(s)
    <3>1. SetsceneStart(s) => sq.deferred[s] \in runq_complete \cup {None}
      BY ChosenUnsettled DEF SetsceneStart, Selectable
    <3> QED
      BY <1>1, <1>2, <2>3, <2>4, <3>1
  <2> QED
    BY <1>1, <2>1, <2>3, <2>4, <2>5
<1> QED
  BY <1>5, <1>6

\* "Cache of stamp files so duplicates can't run in parallel", and "We shouldn't
\* allow all to run at once as it is prone to races": twins that make one stamp run
\* one at a time, except for setscene tasks whose deferral execute() has given up
\* ("Runqueue deadlocked on deferred tasks"). No end of a job, no migration and no
\* hash that comes back to the first one lets a twin go while the first of its
\* name is not complete, and the first runs beside no twin that is in turn.
THEOREM TurnsHold ==
    ASSUME HardDepsInOrder PROVE Spec => NoDuplicateJobs
<1> DEFINE Inv == QueueOrder /\ NoReports /\ SceneInv /\ InTurn /\ StampsApart
           together == \A s, t \in sq_live :
                          Twins(s, t) /\ SameFirstStamp(s, t) /\ s = FirstOfName(s)
                              => OutOfTurn(t)
           turns == \A s \in Setscene : OutOfTurn(s)' /\ ~OutOfTurn(s) => TailForceDeferred(s)
<1>1. Init => Inv
  BY InitQueueOrder, InitSceneInv, InitInTurn
  DEF Init, NoReports, StampsApart, NoDuplicateTasks
<1>2. Inv /\ SetsceneExclusive /\ SetsceneExclusive' /\ [Next]_vars => Inv'
  BY NextQueueOrder, NextNoReports, NextSceneInv, NextInTurn, NextStampsApart
<1>3. Inv => NoDuplicateTasks /\ together
  <2> SUFFICES ASSUME Inv, NEW s \in sq_live, NEW t \in sq_live, Twins(s, t),
                      SameFirstStamp(s, t), s = FirstOfName(s)
               PROVE  OutOfTurn(t)
    BY DEF StampsApart
  <2>1. FirstOfName(t) = s /\ t # s
    BY DEF Twins, FirstOfName
  <2>2. s \notin runq_complete
    BY DEF QueueOrder, SceneInv, LiveUnsettled, InTurn
  <2>3. t \notin Settled(sq) /\ sq.deferred[t] = None
    BY DEF SceneInv, LiveUnsettled
  <2>4. build_stamps[t] = InitialUnihash
    BY DEF SameFirstStamp
  <2> QED
    BY <2>1, <2>2, <2>3, <2>4 DEF OutOfTurn, Settled
<1>4. Inv /\ SetsceneExclusive /\ SetsceneExclusive' /\ [Next]_vars => turns
  BY NextOutOfTurn DEF StampsApart
<1> HIDE DEF Inv, together, turns
<1>5. Spec => [](NoDuplicateTasks /\ together) /\ [][turns]_vars
  BY <1>1, <1>2, <1>3, <1>4, ExclusionHolds, PTL DEF Spec
<1> QED
  BY <1>5, PTL DEF NoDuplicateJobs, together, turns

\* No build halts because a task it has skipped is needed after all: a task is
\* skipped as covered only when all the setscene tasks above it are covered, and
\* those keep their hashes. Tasks fail because their worker says so, or because
\* BB_SETSCENE_ENFORCE refuses them.
THEOREM NoRerunHolds ==
    ASSUME HardDepsInOrder PROVE Spec => []NoLateRerun
<1>1. SceneInv => NoLateRerun
  BY DEF SceneInv
<1> QED
  BY <1>1, SceneInvHolds, PTL

\* A task is started because it is needed as such, or has failed as a setscene
\* task, or stands behind one that has; and what it depends on stands behind the
\* same task, or must have been settled before it.
LEMMA StartHasInputs ==
    ASSUME HardDepsFlat, QueueOrder, SceneInv,
           NEW t \in Tasks, StartTask(t), NEW d \in Depends[t]
    PROVE  HasOutput(d)
<1> USE StaticFacts
<1>1. /\ pc = "next" /\ t \notin tasks_covered /\ t \in tasks_covered \cup tasks_notcovered
      /\ ChooseTask(t)
  BY DEF StartTask, ToRun, ChooseTask, Schedulable
<1>2. d \in runq_complete /\ d \in Tasks
  BY <1>1, ChosenIsReady
<1>3. tasks_notcovered = NotCoveredNow
  BY <1>1 DEF SceneInv, StageFresh, HoldoffFresh
<1>4. \/ t \in sq.notcovered \/ t \in Unskip \ Setscene
      \/ \E s \in sq.notcovered : t \in SqCovers[s]
  BY <1>1, <1>3 DEF NotCoveredNow, Below, CantSkip
<1>5. PICK s : \/ s = t /\ t \in Unskip \ Setscene
               \/ s \in sq.notcovered /\ t \in {s} \cup SqCovers[s]
  BY <1>4
<1>6. CASE d \in runq_tasksrun
  BY <1>6 DEF HasOutput
<1>7. CASE d \notin runq_tasksrun
  <2>1. /\ d \in Setscene => d \in sq.covered
        /\ d \notin Setscene => d \notin Unskip
        /\ \A r \in Setscene : d \in SqCovers[r] => r \in sq.covered
    BY <1>2, <1>7 DEF SceneInv, SkippedIsCovered
  <2>2. sq.covered \cap sq.notcovered = {} /\ sq.notcovered \subseteq Setscene
    BY DEF SceneInv, SceneOK, SceneTypes, SettledOnce
  <2>3. CASE t \in Unskip \ Setscene
    <3>1. d \in Unskip
      BY <2>3
    <3>2. d \in sq.covered /\ d \in Setscene
      BY <2>1, <3>1
    <3>3. d \notin sq.notneeded
      BY <3>1 DEF SceneInv, SceneOK, SettledOnce
    <3> QED
      BY <3>2, <3>3 DEF HasOutput
  <2>4. CASE s \in sq.notcovered /\ t \in {s} \cup SqCovers[s]
    <3>0. s \in Setscene
      BY <2>2, <2>4
    <3>1. /\ d \notin Setscene => d \in SqCovers[s]
          /\ d \in Setscene => s \in SqRev[d] \/ SqRev[d] = {}
      <4>1. d \notin Setscene => d \in SqCovers[s]
        BY <3>0, <2>4, BelowFacts
      <4>2. d \in Setscene => s \in SqRev[d] \/ \E b \in Setscene : <<d, b>> \in HardDeps
        BY <3>0, <2>4, BelowFacts
      <4>3. ASSUME d \in Setscene, NEW b \in Setscene, <<d, b>> \in HardDeps
            PROVE  SqRev[d] = {}
        BY <4>3, HardDependencyFirst
      <4> QED
        BY <4>1, <4>2, <4>3
    <3>2. s \notin sq.covered
      BY <2>2, <2>4
    <3>3. d \in Setscene /\ d \in sq.covered
      BY <2>1, <2>2, <2>4, <3>1, <3>2
    <3>4. d \notin sq.notneeded
      BY <3>1, <3>2, <3>3 DEF SceneInv, SceneOK, SettledOnce
    <3> QED
      BY <3>3, <3>4 DEF HasOutput
  <2> QED
    BY <1>5, <2>3, <2>4
<1> QED
  BY <1>6, <1>7

\* A task that really runs finds the output of everything it depends on: each
\* dependency has been run, or had a current stamp, or was put in place by its
\* setscene variant and not found unneeded. (A task with a hard dependency that is
\* one itself is found unneeded when only its hard dependency is covered.)
THEOREM InputsHold ==
    ASSUME HardDepsInOrder, HardDepsFlat PROVE Spec => InputsPresent
<1>1. QueueOrder /\ SceneInv =>
        \A t \in Tasks : StartTask(t) => \A d \in Depends[t] : HasOutput(d)
  BY StartHasInputs
<1> QED
  BY <1>1, SceneInvHolds, PTL DEF InputsPresent

-----------------------------------------------------------------------------
(* How a build ends. Nothing is left over when the idle loop finds nothing *)
(* to start and nothing to wait for.                                       *)

\* What has been started was buildable, and is complete, being run or failed; a
\* task is buildable as soon as what it depends on is complete, and one that
\* depends on nothing as soon as it is known whether it is covered.
Started ==
    /\ runq_running \subseteq runq_buildable
    /\ runq_running \subseteq runq_complete \cup runq_live \cup failed_tids
    /\ \A t \in Tasks :
          Depends[t] # {} /\ Depends[t] \subseteq runq_complete => t \in runq_buildable
    /\ \A t \in Tasks :
          Depends[t] = {} /\ t \in tasks_covered \cup tasks_notcovered => t \in runq_buildable
    /\ SetsceneOnly => runq_running = {} /\ ~sqdone

\* A build that stops after the setscene tasks has some.
OnlyOfSome == SetsceneOnly => Setscene # {}

LEMMA InitStarted == OnlyOfSome /\ Init => Started
<1> SUFFICES ASSUME OnlyOfSome, Init PROVE Started
  OBVIOUS
<1>1. /\ runq_running = {} /\ runq_complete = {}
      /\ runq_buildable = {t \in Unskip \ Setscene : Depends[t] = {}}
      /\ sqdone = (Setscene = {}) /\ tasks_covered = {}
      /\ tasks_notcovered = IF Setscene = {} THEN Tasks ELSE {}
  BY DEF Init
<1>2. Setscene = {} => \A t \in Tasks : t \in Unskip
  BY PlainFacts
<1> QED
  BY <1>1, <1>2 DEF Started, OnlyOfSome

LEMMA NextStarted ==
    HardDeps = {} /\ QueueOrder /\ SceneInv /\ Started /\ [Next]_vars => Started'
<1> SUFFICES ASSUME HardDeps = {}, QueueOrder, SceneInv, Started, [Next]_vars PROVE Started'
  OBVIOUS
<1>1. ASSUME UNCHANGED <<runq_buildable, runq_running, runq_complete, runq_live, cover>>,
             failed_tids \subseteq failed_tids', sqdone' => sqdone
      PROVE  Started'
  BY <1>1 DEF Started, cover
<1>2. ASSUME \/ EnterExecute \/ Finish \/ FinishNow \/ EndRead \/ NoSetscene
             \/ NoTask \/ TailWait \/ TailFinish \/ Terminated \/ UNCHANGED vars
             \/ \E t \in Setscene :
                   \/ SetsceneNotNeeded(t) \/ SetsceneFail(t) \/ SetsceneSkip(t)
                   \/ SetsceneStart(t) \/ TailForceDeferred(t)
             \/ \E t \in Tasks :
                   \/ RefuseTask(t) \/ ReadSetsceneComplete(t) \/ ReadSetsceneFailed(t)
             \/ \E t \in Tasks, u \in NewUnihashes : ReadUniHash(t, u)
      PROVE  Started'
  <2>1. UNCHANGED <<runq_buildable, runq_running, runq_complete, runq_live, cover, sqdone>>
    BY <1>2 DEF vars, runq, jobs, scene, EnterExecute, Finish, FinishNow,
       EndRead, NoSetscene, NoTask, TailWait, TailFinish, Terminated,
       SetsceneNotNeeded, SetsceneFail, SetsceneSkip, SetsceneStart,
       TailForceDeferred, RefuseTask, ReadSetsceneComplete, ReadSetsceneFailed,
       ReadUniHash
  <2>2. failed_tids \subseteq failed_tids'
    BY <1>2 DEF vars, runq, EnterExecute, Finish, FinishNow,
       EndRead, NoSetscene, NoTask, TailWait, TailFinish, Terminated,
       SetsceneNotNeeded, SetsceneFail, SetsceneSkip, SetsceneStart,
       TailForceDeferred, RefuseTask, TaskFail, ReadSetsceneComplete,
       ReadSetsceneFailed, ReadUniHash
  <2> QED
    BY <1>1, <2>1, <2>2
<1>3. ASSUME Migrate PROVE Started'
  <2>1. UNCHANGED <<runq_buildable, runq_running, runq_complete, runq_live, cover>>
    BY <1>3 DEF Migrate, jobs
  <2>2. failed_tids \subseteq failed_tids' /\ (sqdone' => sqdone)
    BY <1>3, MigrateFacts DEF Migrates
  <2> QED
    BY <1>1, <2>1, <2>2
<1>4. ASSUME NEW t \in Tasks, ReadTaskFailed(t) PROVE Started'
  BY <1>4 DEF ReadTaskFailed, TaskFail, Started, cover, scene
<1>5. ASSUME NEW t \in Tasks, StartTask(t) PROVE Started'
  BY <1>5 DEF StartTask, ToRun, ChooseTask, Schedulable, Started, cover, scene
<1>6. ASSUME NEW t \in Tasks,
             /\ runq_running \subseteq runq_running'
             /\ runq_running' \subseteq runq_running \cup {t} /\ t \in runq_buildable
             /\ runq_complete' = runq_complete \cup {t}
             /\ runq_live \ {t} \subseteq runq_live'
             /\ runq_buildable' = runq_buildable \cup
                  {r \in Rev[t] \ (runq_running' \cup runq_buildable) :
                      Depends[r] \subseteq runq_complete \cup {t}}
             /\ UNCHANGED <<failed_tids, cover, sqdone>>
             /\ SetsceneOnly => FALSE
      PROVE  Started'
  <2>1. Rev[t] = {u \in Tasks : t \in Depends[u]}
    BY DEF Rev, Revdeps, G
  <2>2. /\ runq_running' \subseteq runq_buildable'
        /\ runq_running' \subseteq runq_complete' \cup runq_live' \cup failed_tids'
    BY <1>6 DEF Started
  <2>3. ASSUME NEW r \in Tasks, Depends[r] # {}, Depends[r] \subseteq runq_complete'
        PROVE  r \in runq_buildable'
    <3>1. CASE Depends[r] \subseteq runq_complete
      BY <1>6, <2>3, <3>1 DEF Started
    <3>2. CASE t \in Depends[r]
      <4>1. r \in Rev[t]
        BY <2>1, <3>2
      <4>2. runq_running' \subseteq runq_buildable
        BY <1>6 DEF Started
      <4>3. Depends[r] \subseteq runq_complete \cup {t}
        BY <1>6, <2>3
      <4> QED
        BY <1>6, <4>1, <4>2, <4>3
    <3> QED
      BY <1>6, <2>3, <3>1, <3>2
  <2> QED
    BY <1>6, <2>2, <2>3 DEF Started, cover
<1>7. ASSUME NEW t \in Tasks, ReadTaskComplete(t) PROVE Started'
  <2>1. t \in runq_running
    BY <1>7 DEF ReadTaskComplete, QueueOrder
  <2> QED
    BY <1>6, <1>7, <2>1 DEF ReadTaskComplete, CompleteOutright, Started
<1>8. ASSUME NEW t \in Tasks, SkipTask(t) \/ NoExecTask(t) PROVE Started'
  <2>1. t \in runq_buildable /\ ~SetsceneOnly
    BY <1>8 DEF SkipTask, NoExecTask, ToRun, ChooseTask, Schedulable
  <2>2. UNCHANGED <<failed_tids, cover, sqdone, runq_live>>
    BY <1>8 DEF SkipTask, NoExecTask, jobs
  <2> QED
    BY <1>6, <1>8, <2>1, <2>2 DEF SkipTask, NoExecTask, CompleteOutright
<1>9. ASSUME HoldoffStage PROVE Started'
  <2>1. /\ UNCHANGED <<runq_running, runq_complete, runq_live, failed_tids>>
        /\ SetsceneOnly => (sqdone' => sqdone)
        /\ runq_buildable \subseteq runq_buildable'
        /\ \A t \in tasks_covered' \cup tasks_notcovered' :
              Depends[t] = {} => \/ t \in tasks_covered \cup tasks_notcovered
                                 \/ t \in runq_buildable'
    BY <1>9 DEF HoldoffStage, UpdateHoldoff, jobs, cover
  <2> QED
    BY <2>1 DEF Started
<1> QED
  BY <1>2, <1>3, <1>4, <1>5, <1>7, <1>8, <1>9 DEF Next, Step, ReadExit

-----------------------------------------------------------------------------
\* The setscene queue is done when every setscene task is settled, none is
\* deferred and none has a job, and stays so.
SqDone == sqdone => Unsettled(sq) = {} /\ NoDeferred /\ sq_live = {}

LEMMA InitSqDone == Init => SqDone
BY DEF Init, SqDone, Unsettled, NoDeferred

LEMMA NextSqDone ==
    HardDeps = {} /\ QueueOrder /\ SceneInv /\ SqDone /\ [Next]_vars => SqDone'
<1> SUFFICES ASSUME HardDeps = {}, QueueOrder, SceneInv, SqDone, [Next]_vars, sqdone'
             PROVE  Unsettled(sq') = {} /\ NoDeferred' /\ sq_live' = {}
  BY DEF SqDone
<1>1. CASE UNCHANGED <<sq, sq_live, sqdone>>
  BY <1>1 DEF SqDone, NoDeferred
<1>2. ASSUME \/ EnterExecute \/ Finish \/ FinishNow \/ EndRead \/ NoSetscene
             \/ NoTask \/ TailWait \/ TailFinish \/ Terminated \/ UNCHANGED vars
             \/ \E t \in Tasks : RefuseTask(t) \/ ReadTaskFailed(t) \/ StartTask(t)
             \/ \E t \in Tasks, u \in NewUnihashes : ReadUniHash(t, u)
      PROVE  UNCHANGED <<sq, sq_live, sqdone>>
  BY <1>2 DEF vars, jobs, scene, EnterExecute, Finish, FinishNow,
       EndRead, NoSetscene, NoTask, TailWait, TailFinish, Terminated,
       RefuseTask, ReadTaskFailed, StartTask, ReadUniHash
<1>3. ASSUME NEW t \in Setscene,
             \/ SetsceneNotNeeded(t) \/ SetsceneFail(t) \/ SetsceneSkip(t)
             \/ SetsceneStart(t) \/ TailForceDeferred(t)
      PROVE  FALSE
  BY <1>3 DEF SetsceneNotNeeded, SetsceneFail, SetsceneSkip, SetsceneStart,
     ChooseSetscene, TailForceDeferred, SqDone, NoDeferred
<1>4. ASSUME NEW t \in Tasks, ReadSetsceneComplete(t) \/ ReadSetsceneFailed(t)
      PROVE  FALSE
  BY <1>4 DEF ReadSetsceneComplete, ReadSetsceneFailed, SqDone, scene
<1>5. ASSUME NEW t \in Tasks, ReadTaskComplete(t) \/ SkipTask(t) \/ NoExecTask(t)
      PROVE  UNCHANGED <<sq, sq_live, sqdone>>
  <2>1. sqdone /\ UNCHANGED <<sq_live, sqdone>>
    BY <1>5 DEF ReadTaskComplete, SkipTask, NoExecTask, jobs
  <2>2. PICK dsk : sq' = ReleaseDeferred(sq, t, dsk, unihash)
    BY <1>5 DEF ReadTaskComplete, SkipTask, NoExecTask, CompleteOutright
  <2>3. t # None
    BY TasksAssumption DEF None
  <2>4. {s \in Setscene : sq.deferred[s] = t} = {}
    BY <2>1, <2>3 DEF SqDone, NoDeferred
  <2> QED
    BY <2>1, <2>2, <2>4 DEF ReleaseDeferred
<1>6. CASE HoldoffStage
  <2>1. /\ sq_live' = sq_live
        /\ sq' = sq \/ sq' = [sq EXCEPT !.holdoff_need_update = FALSE]
    BY <1>6 DEF HoldoffStage, UpdateHoldoff, jobs
  <2>2. sqdone \/ (SceneQueueDone /\ ~SceneQueueError)
    BY <1>6 DEF HoldoffStage
  <2>3. sq = [f \in SceneFields |-> sq[f]]
    BY DEF SceneInv, SceneOK, SceneTypes
  <2>4. sq'.covered = sq.covered /\ sq'.notcovered = sq.notcovered /\ sq'.deferred = sq.deferred
    BY <2>1, <2>3 DEF SceneFields
  <2>5. Unsettled(sq) = {} /\ NoDeferred /\ sq_live = {}
    <3>1. CASE sqdone
      BY <3>1 DEF SqDone
    <3>2. CASE SceneQueueDone /\ ~SceneQueueError
      BY <3>2 DEF SceneQueueDone, SceneQueueError, Unsettled, Settled
    <3> QED
      BY <2>2, <3>1, <3>2
  <2> QED
    BY <2>1, <2>4, <2>5 DEF Unsettled, Settled, NoDeferred
<1>7. CASE Migrate
  <2>1. PICK uni, changed, pending, go : Migrates(uni, changed, pending, go)
    BY <1>7, MigrateFacts
  <2>2. /\ sqdone /\ go = {}
        /\ sq' = [sq EXCEPT !.holdoff_need_update = @ \/ changed # {}]
    BY <2>1 DEF Migrates
  <2>3. sq = [f \in SceneFields |-> sq[f]]
    BY DEF SceneInv, SceneOK, SceneTypes
  <2>4. sq'.covered = sq.covered /\ sq'.notcovered = sq.notcovered /\ sq'.deferred = sq.deferred
    BY <2>2, <2>3 DEF SceneFields
  <2>5. sq_live' = sq_live
    BY <1>7 DEF Migrate, jobs
  <2> QED
    BY <2>2, <2>4, <2>5 DEF SqDone, Unsettled, Settled, NoDeferred
<1> QED
  BY <1>1, <1>2, <1>3, <1>4, <1>5, <1>6, <1>7 DEF Next, Step, ReadExit

\* A report that has not been dealt with waits for the end of its task.
ReportsWait ==
    pc \in {"setscene", "holdoff", "next", "tail"} =>
        \A m \in updated_taskhash_queue : m[1] \in runq_running \ runq_complete

\* An idle loop that goes on without having started a job found no setscene task
\* to start, and at the tail no task either.
NothingSelectable ==
    pc \in {"holdoff", "next", "tail"} /\ Live = {} /\ ~sqdone => Selectable = {}

NothingSchedulable ==
    pc = "tail" /\ Live = {} => SetsceneOnly \/ Schedulable = {}

\* It would have ended the setscene queue, had nothing been held off.
SceneQueueNotDone ==
    /\ pc \in {"next", "tail"} /\ ~sqdone
    /\ sq_live = {} /\ NoDeferred /\ updated_taskhash_queue = {}
    => holdoff_tasks # {}

Stages ==
    ReportsWait /\ NothingSelectable /\ NothingSchedulable /\ SceneQueueNotDone

LEMMA IdleCanStart ==
    ASSUME JobCount, Live = {}
    PROVE  active = 0 /\ can_start_task(active, sq_live)
<1>1. runq_live = {} /\ sq_live = {}
  BY DEF Live
<1>2. Cardinality({}) = 0
  BY FS_EmptySet
<1> QED
  BY <1>1, <1>2, NumberTasksAssumption DEF JobCount, ActiveCountsJobs, can_start_task

LEMMA StagesKept ==
    ASSUME Stages, UNCHANGED <<sq, sqdone, jobs, runq_buildable, runq_running, runq_complete,
                               cover, updated_taskhash_queue>>,
           pc' \in {"setscene", "holdoff", "next", "tail"} =>
              /\ pc \in {"setscene", "holdoff", "next", "tail"}
              /\ pc' \in {"holdoff", "next", "tail"} => pc \in {"holdoff", "next", "tail"}
              /\ pc' \in {"next", "tail"} => pc \in {"next", "tail"}
              /\ pc' = "tail" => pc = "tail"
    PROVE  Stages'
<1>1. UNCHANGED <<Live, runq_live, sq_live, build_stamps>>
  BY DEF jobs, Live
<1>2. \A t, h : StampInUse(t, h)' = StampInUse(t, h)
  BY <1>1 DEF StampInUse
<1>3. UNCHANGED <<Selectable, Schedulable, NoDeferred>>
  BY <1>2 DEF Selectable, Unneeded, Schedulable, NoDeferred, cover
<1>4. UNCHANGED holdoff_tasks
  BY DEF cover
<1> QED
  BY <1>1, <1>3, <1>4 DEF Stages, ReportsWait, NothingSelectable, NothingSchedulable,
     SceneQueueNotDone

LEMMA NextStages ==
    JobCount /\ SceneInv /\ Stages /\ [Next]_vars => Stages'
<1> SUFFICES ASSUME JobCount, SceneInv, Stages, [Next]_vars PROVE Stages'
  OBVIOUS
<1>1. ASSUME pc' \in {"top", "read", "wait", "migrate"} PROVE Stages'
  BY <1>1 DEF Stages, ReportsWait, NothingSelectable, NothingSchedulable, SceneQueueNotDone
<1>2. ASSUME \/ EnterExecute \/ Finish \/ FinishNow \/ TailWait \/ TailFinish
             \/ \E t \in Setscene :
                   \/ SetsceneNotNeeded(t) \/ SetsceneFail(t) \/ SetsceneSkip(t)
                   \/ TailForceDeferred(t)
             \/ \E t \in Tasks :
                   RefuseTask(t) \/ SkipTask(t) \/ NoExecTask(t) \/ ReadExit(t)
             \/ \E t \in Tasks, u \in NewUnihashes : ReadUniHash(t, u)
      PROVE  pc' \in {"top", "read", "wait", "migrate"}
  BY <1>2 DEF Goto, Reading, EnterExecute, Finish, FinishNow, TailWait,
     TailFinish, SetsceneNotNeeded, SetsceneFail, SetsceneSkip, TailForceDeferred,
     RefuseTask, SkipTask, NoExecTask, ReadExit, ReadTaskComplete, ReadTaskFailed,
     ReadSetsceneComplete, ReadSetsceneFailed, ReadUniHash, control
<1>3. CASE EndRead
  <2>1. CASE pc' \in {"top", "read", "wait", "migrate"}
    BY <1>1, <2>1
  <2>2. CASE pc' = "setscene"
    <3>1. updated_taskhash_queue' = {}
      BY <1>3, <2>2 DEF EndRead, Goto, hashes
    <3> QED
      BY <2>2, <3>1 DEF Stages, ReportsWait, NothingSelectable, NothingSchedulable,
         SceneQueueNotDone
  <2> QED
    BY <1>3, <2>1, <2>2 DEF EndRead, Goto
<1>4. CASE Migrate
  <2>1. /\ pc' = "setscene" /\ UNCHANGED <<runq_running, runq_complete>>
        /\ \A m \in updated_taskhash_queue' : m[1] \in runq_running \ runq_complete
    BY <1>4 DEF Migrate, ReadyReports
  <2> QED
    BY <2>1 DEF Stages, ReportsWait, NothingSelectable, NothingSchedulable,
       SceneQueueNotDone
<1>5. CASE NoSetscene
  <2>1. /\ pc = "setscene" /\ pc' = "holdoff"
        /\ UNCHANGED <<sq, sqdone, jobs, active, runq_running, runq_complete,
                       updated_taskhash_queue>>
        /\ sqdone \/ ~can_start_task(active, sq_live) \/ Selectable = {}
    BY <1>5 DEF NoSetscene, Goto, runq, scene, hashes
  <2>2. UNCHANGED <<Live, runq_live, build_stamps>>
    BY <2>1 DEF jobs, Live
  <2>3. \A t, h : StampInUse(t, h)' = StampInUse(t, h)
    BY <2>2 DEF StampInUse
  <2>4. UNCHANGED Selectable
    BY <2>1, <2>3 DEF Selectable, Unneeded
  <2>5. NothingSelectable'
    BY <2>1, <2>2, <2>4, IdleCanStart DEF NothingSelectable
  <2> QED
    BY <2>1, <2>5 DEF Stages, ReportsWait, NothingSchedulable, SceneQueueNotDone
<1>6. ASSUME NEW t \in Setscene, SetsceneStart(t) PROVE Stages'
  <2>1. /\ pc = "setscene" /\ pc' \in {"top", "holdoff"} /\ t \in Live'
        /\ UNCHANGED <<runq_running, runq_complete, updated_taskhash_queue>>
    BY <1>6 DEF SetsceneStart, ChooseSetscene, Goto, runq, hashes, Live
  <2> QED
    BY <2>1 DEF Stages, ReportsWait, NothingSelectable, NothingSchedulable,
       SceneQueueNotDone
<1>7. CASE HoldoffStage
  <2>1. /\ pc = "holdoff" /\ pc' \in {"top", "next"}
        /\ UNCHANGED <<runq_running, runq_complete, jobs, updated_taskhash_queue>>
        /\ sq' = sq \/ sq' = [sq EXCEPT !.holdoff_need_update = FALSE]
    BY <1>7 DEF HoldoffStage, UpdateHoldoff, hashes
  <2>2. pc' = "next" => (sqdone' = sqdone /\ ~SceneQueueDone) \/ sqdone' = TRUE
    BY <1>7 DEF HoldoffStage
  <2>3. sq = [f \in SceneFields |-> sq[f]]
    BY DEF SceneInv, SceneOK, SceneTypes
  <2>4. /\ sq'.buildable = sq.buildable /\ sq'.running = sq.running
        /\ sq'.stamps = sq.stamps /\ sq'.deferred = sq.deferred
        /\ sq'.covered = sq.covered
    BY <2>1, <2>3 DEF SceneFields
  <2>5. UNCHANGED <<Live, runq_live, sq_live, build_stamps>>
    BY <2>1 DEF jobs, Live
  <2>6. \A t, h : StampInUse(t, h)' = StampInUse(t, h)
    BY <2>5 DEF StampInUse
  <2>7. UNCHANGED <<Selectable, NoDeferred>>
    BY <2>1, <2>4, <2>6 DEF Selectable, Unneeded, NoDeferred
  <2>8. ReportsWait' /\ NothingSchedulable'
    BY <2>1 DEF Stages, ReportsWait, NothingSchedulable
  <2>9. NothingSelectable'
    BY <2>1, <2>2, <2>5, <2>7 DEF Stages, NothingSelectable
  <2>10. SceneQueueNotDone'
    BY <2>1, <2>2, <2>5, <2>7 DEF SceneQueueNotDone, SceneQueueDone
  <2> QED
    BY <2>8, <2>9, <2>10 DEF Stages
<1>8. ASSUME NEW t \in Tasks, StartTask(t) PROVE Stages'
  <2>1. /\ pc = "next" /\ pc' \in {"top", "tail"} /\ t \in Live'
        /\ runq_running' = runq_running \cup {t}
        /\ UNCHANGED <<sq, sqdone, sq_live, holdoff_tasks, runq_complete, updated_taskhash_queue>>
    BY <1>8 DEF StartTask, ToRun, ChooseTask, Goto, scene, cover, hashes, Live
  <2>2. UNCHANGED NoDeferred
    BY <2>1 DEF NoDeferred
  <2> QED
    BY <2>1, <2>2 DEF Stages, ReportsWait, NothingSelectable, NothingSchedulable,
       SceneQueueNotDone
<1>9. CASE NoTask
  <2>1. /\ pc = "next" /\ pc' = "tail"
        /\ UNCHANGED <<sq, sqdone, jobs, runq_buildable, runq_running, runq_complete,
                       cover, active, updated_taskhash_queue>>
        /\ \/ SetsceneOnly \/ ~can_start_task(active, sq_live)
           \/ Schedulable = {} \/ active # 0
    BY <1>9 DEF NoTask, Goto, runq, scene, hashes
  <2>2. UNCHANGED <<Live, runq_live, sq_live, build_stamps>>
    BY <2>1 DEF jobs, Live
  <2>3. \A t, h : StampInUse(t, h)' = StampInUse(t, h)
    BY <2>2 DEF StampInUse
  <2>4. UNCHANGED <<Selectable, Schedulable, NoDeferred, holdoff_tasks>>
    BY <2>1, <2>3 DEF Selectable, Unneeded, Schedulable, NoDeferred, cover
  <2>5. NothingSchedulable'
    BY <2>1, <2>2, <2>4, IdleCanStart DEF NothingSchedulable
  <2> QED
    BY <2>1, <2>2, <2>4, <2>5 DEF Stages, ReportsWait, NothingSelectable,
       SceneQueueNotDone
<1>10. CASE Terminated \/ UNCHANGED vars
  BY <1>10, StagesKept DEF Terminated, vars, control, runq, scene, hashes
<1> QED
  BY <1>1, <1>2, <1>3, <1>4, <1>5, <1>6, <1>7, <1>8, <1>9, <1>10 DEF Next, Step

\* Where nothing can be started and nothing is deferred or being done, every
\* setscene task is settled: one of those left would be first in their order.
LEMMA AllSettled ==
    ASSUME HardDeps = {}, SceneInv, SqDone, NothingSelectable,
           pc \in {"holdoff", "next", "tail"}, Live = {}, NoDeferred
    PROVE  Unsettled(sq) = {}
<1>1. CASE sqdone
  BY <1>1 DEF SqDone
<1>2. CASE ~sqdone /\ Unsettled(sq) # {}
  <2>1. Selectable = {}
    BY <1>2 DEF NothingSelectable
  <2>2. G.setscene = Setscene /\ G.harddeps = {}
    BY DEF G
  <2>3. Unsettled(sq) \in (SUBSET G.setscene) \ {{}}
    BY <1>2, <2>2 DEF Unsettled
  <2>4. PICK s \in Unsettled(sq) : SqRevdeps(G, Squashed(G))[s] \cap Unsettled(sq) = {}
    BY <2>2, <2>3, GraphShape, SomeTaskFirst
  <2>5. s \in Setscene /\ SqRev[s] \subseteq Settled(sq)
    BY <2>4, StaticFacts DEF SqRev, Unsettled
  <2>6. s \in sq.buildable /\ s \notin sq.running
    BY <2>4, <2>5 DEF SceneInv, SceneOK, ReadyBuildable, LiveUnsettled, Live, Unsettled
  <2>7. ~StampInUse(s, sq.stamps[s])
    BY DEF StampInUse, Live
  <2>8. sq.deferred[s] = None
    BY <2>5 DEF NoDeferred
  <2>9. s \in Selectable
    BY <2>6, <2>7, <2>8 DEF Selectable
  <2> QED
    BY <2>1, <2>9
<1> QED
  BY <1>1, <1>2

\* Then every task is done with, and said to be covered or not.
LEMMA AllDone ==
    ASSUME HardDeps = {}, SceneInv, Unsettled(sq) = {}
    PROVE  /\ sq.done = Tasks
           /\ CoveredNow \cup NotCoveredNow = Tasks
           /\ Setscene \subseteq sq.buildable \cap sq.running
<1>1. /\ Setscene = Settled(sq) /\ Settled(sq) \subseteq sq.buildable \cap sq.running \cap sq.done
      /\ sq.done \subseteq Tasks /\ DoneClosed(sq.done)
  BY DEF SceneInv, SceneOK, SceneTypes, SettledOnce, Unsettled, Settled
<1>2. ASSUME Tasks \ sq.done # {} PROVE FALSE
  <2>1. G.tasks = Tasks /\ G.depends = Depends
    BY DEF G
  <2>2. Tasks \ sq.done \in (SUBSET Tasks) \ {{}}
    BY <1>2
  <2>3. PICK t \in Tasks \ sq.done : \A u \in Tasks \ sq.done : t \notin Depends[u]
    BY <2>1, <2>2, GraphShape DEF Shape
  <2>4. t \in Tasks \ Setscene /\ Rev[t] \subseteq sq.done
    BY <1>1, <2>3, StaticFacts
  <2> QED
    BY <1>1, <2>3, <2>4 DEF DoneClosed
<1>3. sq.done = Tasks
  BY <1>1, <1>2
<1>4. ASSUME NEW t \in Tasks PROVE t \in CoveredNow \cup NotCoveredNow
  <2>1. CASE t \in Setscene
    BY <1>1, <1>3, <2>1 DEF Settled, CoveredNow, NotCoveredNow
  <2>2. CASE t \notin Setscene /\ t \in Unskip
    BY <1>3, <2>2 DEF NotCoveredNow
  <2>3. CASE t \notin Setscene /\ t \notin Unskip
    <3>1. PICK s \in Setscene : t \in SqCovers[s]
      BY <2>3, PlainFacts
    <3>2. t \in Below(sq.covered) \/ t \in Below(sq.notcovered)
      BY <1>1, <3>1 DEF Settled, Below
    <3> QED
      BY <1>3, <3>2 DEF CoveredNow, NotCoveredNow
  <2> QED
    BY <2>1, <2>2, <2>3
<1>5. CoveredNow \cup NotCoveredNow \subseteq Tasks
  BY <1>1 DEF CoveredNow, NotCoveredNow
<1> QED
  BY <1>1, <1>3, <1>4, <1>5

\* update_holdofftasks() leaves the tables up to date.
LEMMA TablesFresh ==
    ASSUME HardDeps = {}, SceneInv, HoldoffStage
    PROVE  /\ tasks_covered' = CoveredNow /\ tasks_notcovered' = NotCoveredNow
           /\ Unsettled(sq) \subseteq holdoff_tasks'
           /\ \A t \in CoveredNow \cup NotCoveredNow :
                 \/ Depends[t] \subseteq runq_complete => t \in runq_buildable'
                 \/ t \in tasks_covered \cup tasks_notcovered /\ runq_buildable' = runq_buildable
<1>1. sq.holdoff_need_update \in BOOLEAN /\ HoldoffFresh
  BY DEF SceneInv, SceneOK, SceneTypes
<1>2. CASE sq.holdoff_need_update
  BY <1>2 DEF HoldoffStage, UpdateHoldoff, HoldoffNow, Unsettled, Settled
<1>3. CASE ~sq.holdoff_need_update
  BY <1>1, <1>3 DEF HoldoffStage, UpdateHoldoff, HoldoffFresh, cover
<1> QED
  BY <1>1, <1>2, <1>3

\* The end of the setscene queue is never an error.
LEMMA HoldoffClean ==
    ASSUME HardDeps = {}, SceneInv, Started, HoldoffStage, SceneQueueDone
    PROVE  ~SceneQueueError
<1>1. /\ tasks_covered' = CoveredNow /\ tasks_notcovered' = NotCoveredNow
      /\ Unsettled(sq) \subseteq holdoff_tasks'
  BY TablesFresh
<1>2. NoDeferred /\ updated_taskhash_queue = {} /\ holdoff_tasks' = {}
  BY DEF SceneQueueDone
<1>3. Unsettled(sq) = {}
  BY <1>1, <1>2
<1>4. /\ sq.done = Tasks /\ CoveredNow \cup NotCoveredNow = Tasks
      /\ Setscene \subseteq sq.buildable \cap sq.running
  BY <1>3, AllDone
<1>5. ASSUME NEW t \in Tasks, Depends[t] = {} PROVE t \in runq_buildable'
  <2>1. \/ Depends[t] \subseteq runq_complete => t \in runq_buildable'
        \/ t \in tasks_covered \cup tasks_notcovered /\ runq_buildable' = runq_buildable
    BY <1>4, TablesFresh
  <2> QED
    BY <1>5, <2>1 DEF Started
<1> QED
  BY <1>1, <1>2, <1>3, <1>4, <1>5 DEF SceneQueueError, Unsettled, Settled

-----------------------------------------------------------------------------
\* The tasks that cannot be built: the failed ones and what depends on them.
Spoilt == Closure(Tasks, failed_tids, LAMBDA t : Rev[t])

LEMMA SpoiltHolds ==
    /\ failed_tids \cap Tasks \subseteq Spoilt
    /\ \A t \in Spoilt : Rev[t] \cap Tasks \subseteq Spoilt
    /\ failed_tids = {} => Spoilt = {}
BY DEF Spoilt, Closure

\* At the end every task that can be built is complete: of those left the first
\* would be buildable, and so would have been started.
LEMMA AllBuilt ==
    ASSUME HardDeps = {}, QueueOrder, SceneInv, Started, Unsettled(sq) = {},
           StageFresh, pc = "tail", Live = {}, Schedulable = {}
    PROVE  Tasks \ Spoilt \subseteq runq_complete
<1>1. ~sq.holdoff_need_update
  BY DEF StageFresh
<1>2. /\ tasks_covered \cup tasks_notcovered = Tasks
      /\ holdoff_tasks \subseteq Unsettled(sq) \cup Below(Unsettled(sq))
  BY <1>1, AllDone DEF SceneInv, HoldoffFresh
<1>3. holdoff_tasks = {}
  BY <1>2 DEF Below
<1>4. \A t, h : ~StampInUse(t, h)
  BY DEF StampInUse, Live
<1>5. runq_buildable \cap Tasks \subseteq runq_running
  BY <1>2, <1>3, <1>4 DEF Schedulable
<1>6. runq_running \subseteq runq_complete \cup failed_tids
  BY DEF Started, Live
<1> DEFINE left == Tasks \ (Spoilt \cup runq_complete)
<1>7. ASSUME left # {} PROVE FALSE
  <2>1. left \in (SUBSET Tasks) \ {{}}
    BY <1>7
  <2>2. PICK t \in left : Depends[t] \cap left = {}
    BY <2>1, AcyclicAssumption
  <2>3. ASSUME NEW d \in Depends[t], d \in Spoilt PROVE FALSE
    <3>1. t \in Rev[d] \cap Tasks
      BY <2>3, StaticFacts
    <3> QED
      BY <2>3, <3>1, SpoiltHolds
  <2>4. Depends[t] \subseteq runq_complete
    BY <2>2, <2>3, StaticFacts
  <2>5. t \in runq_buildable
    BY <1>2, <2>4 DEF Started
  <2>6. t \in failed_tids
    BY <1>5, <1>6, <2>5
  <2> QED
    BY <2>6, SpoiltHolds
<1> QED
  BY <1>7

\* So the sanity checks at the end of execute() fire only after a failure.
LEMMA TailClean ==
    ASSUME HardDeps = {}, QueueOrder, SceneInv, Started, SqDone, Stages,
           NothingLeft, Live = {}, UNCHANGED <<cover, runq>>
    PROVE  /\ ~SetsceneOnly
           /\ Tasks \ Spoilt \subseteq runq_complete
           /\ failed_tids = {} => ~SceneQueueError /\ ~NeverDone
<1>1. pc = "tail" /\ NoDeferred /\ StageFresh
  BY DEF NothingLeft, SceneInv
<1>2. Unsettled(sq) = {}
  BY <1>1, AllSettled DEF Stages
<1>3. /\ sq.done = Tasks /\ CoveredNow \cup NotCoveredNow = Tasks
      /\ Setscene \subseteq sq.buildable \cap sq.running
  BY <1>2, AllDone
<1>4. /\ tasks_covered \cup tasks_notcovered = Tasks
      /\ holdoff_tasks \subseteq Unsettled(sq) \cup Below(Unsettled(sq))
  BY <1>1, <1>3 DEF SceneInv, StageFresh, HoldoffFresh
<1>5. holdoff_tasks = {}
  BY <1>2, <1>4 DEF Below
<1>6. ~SetsceneOnly
  <2> SUFFICES ASSUME SetsceneOnly PROVE FALSE
    OBVIOUS
  <2>1. runq_running = {} /\ ~sqdone
    BY DEF Started
  <2>2. updated_taskhash_queue = {}
    BY <1>1, <2>1 DEF Stages, ReportsWait
  <2>3. sq_live = {}
    BY DEF Live
  <2> QED
    BY <1>1, <1>5, <2>1, <2>2, <2>3 DEF Stages, SceneQueueNotDone
<1>7. Schedulable = {}
  BY <1>1, <1>6 DEF Stages, NothingSchedulable
<1>8. Tasks \ Spoilt \subseteq runq_complete
  BY <1>1, <1>2, <1>7, AllBuilt
<1>9. ASSUME failed_tids = {} PROVE ~SceneQueueError /\ ~NeverDone
  <2>1. Tasks \subseteq runq_complete
    BY <1>8, <1>9, SpoiltHolds
  <2>2. runq_complete \subseteq runq_running /\ runq_running \subseteq runq_buildable
    BY DEF QueueOrder, Started
  <2>3. runq_running \subseteq Tasks
    BY DEF QueueOrder
  <2>4. updated_taskhash_queue = {}
    BY <1>1, <2>1, <2>3 DEF Stages, ReportsWait
  <2>5. UNCHANGED <<holdoff_tasks, tasks_covered, tasks_notcovered, runq_buildable>>
    BY DEF cover, runq
  <2> QED
    BY <1>1, <1>2, <1>3, <1>4, <1>5, <2>1, <2>2, <2>4, <2>5
    DEF SceneQueueError, NeverDone, Unsettled, Settled
<1> QED
  BY <1>6, <1>8, <1>9

\* Without a failure or a stop the build goes on until it ends by itself.
RunsOn == ~Halt /\ ~stopped => state # "CleanUp"

\* How a build ends.
Ends ==
    state \in {"Failed", "Complete"} =>
        /\ pc = "top"
        /\ stopped \/ Live = {}
        /\ state = "Failed" => failed_tids # {}
        /\ ~SetsceneOnly /\ ~Halt /\ ~stopped => Tasks \ Spoilt \subseteq runq_complete

EndInv == JobCount /\ SceneInv /\ Started /\ SqDone /\ Stages /\ RunsOn /\ Ends

LEMMA InitEndInv == OnlyOfSome /\ Init => EndInv
<1> SUFFICES ASSUME OnlyOfSome, Init PROVE EndInv
  OBVIOUS
<1>1. pc = "top" /\ state = "Running"
  BY DEF Init
<1>2. Stages /\ RunsOn /\ Ends
  BY <1>1 DEF Stages, ReportsWait, NothingSelectable, NothingSchedulable,
     SceneQueueNotDone, RunsOn, Ends
<1> QED
  BY <1>2, InitJobCount, InitSceneInv, InitStarted, InitSqDone DEF EndInv

LEMMA JobsCounted ==
    ASSUME JobCount
    PROVE  /\ IsFiniteSet(runq_live) /\ IsFiniteSet(sq_live)
           /\ active = Cardinality(runq_live)
           /\ active \in Nat /\ Cardinality(sq_live) \in Nat
<1>1. IsFiniteSet(runq_live) /\ IsFiniteSet(sq_live)
  BY LiveFinite, TasksAssumption, SubsetsAssumption, FS_Subset DEF JobCount, QueueOrder
<1>2. Cardinality(runq_live) \in Nat /\ Cardinality(sq_live) \in Nat
  BY <1>1, FS_CardinalityType
<1> QED
  BY <1>1, <1>2 DEF JobCount, ActiveCountsJobs

LEMMA NoJobs ==
    ASSUME JobCount, active + Cardinality(sq_live) <= 0
    PROVE  Live = {}
<1>1. IsFiniteSet(runq_live) /\ IsFiniteSet(sq_live)
  BY JobsCounted
<1>2. Cardinality(runq_live) = 0 /\ Cardinality(sq_live) = 0
  BY JobsCounted
<1>3. runq_live = {} /\ sq_live = {}
  BY <1>1, <1>2, FS_EmptySet
<1> QED
  BY <1>3 DEF Live

LEMMA IdleNoJobs == ASSUME JobCount, Idle PROVE Live = {}
<1>1. sq_live = {} /\ Cardinality({}) = 0
  BY FS_EmptySet DEF Idle
<1>2. active + Cardinality(sq_live) <= 0
  BY <1>1, JobsCounted DEF Idle
<1> QED
  BY <1>2, NoJobs

\* The steps that do not end the build.
LEMMA GoesOn ==
    ASSUME RunsOn, state \notin {"Failed", "Complete"}, UNCHANGED stopped,
           state' = state \/ (state' = "CleanUp" /\ Halt)
    PROVE  RunsOn' /\ Ends'
BY DEF RunsOn, Ends

LEMMA SpoiltKept == ASSUME UNCHANGED failed_tids PROVE UNCHANGED Spoilt
BY DEF Spoilt, Closure

LEMMA NextEnds ==
    ASSUME HardDeps = {}, ~SetsceneEnforce, [Next]_vars,
           JobCount, SceneInv, Started, SqDone, Stages, RunsOn, Ends
    PROVE  RunsOn' /\ Ends'
<1>1. CASE UNCHANGED vars
  <2>1. UNCHANGED <<state, stopped, pc, Live, failed_tids, Spoilt, runq_complete>>
    BY <1>1, SpoiltKept DEF vars, control, runq, jobs, Live
  <2> QED
    BY <2>1 DEF RunsOn, Ends
<1>2. CASE Terminated
  BY <1>1, <1>2 DEF Terminated
<1>3. ASSUME UNCHANGED stopped, state' = state \/ (state' = "CleanUp" /\ Halt),
             pc # "top" \/ state = "Running"
      PROVE  RunsOn' /\ Ends'
  BY <1>3, GoesOn DEF Ends
<1>4. CASE EnterExecute \/ EndRead \/ NoSetscene \/ NoTask \/ TailWait
  BY <1>3, <1>4 DEF EnterExecute, EndRead, NoSetscene, NoTask, TailWait, Goto
<1>5. ASSUME NEW t \in Setscene,
              \/ SetsceneNotNeeded(t) \/ SetsceneFail(t) \/ SetsceneSkip(t)
              \/ SetsceneStart(t) \/ TailForceDeferred(t)
       PROVE  RunsOn' /\ Ends'
  BY <1>3, <1>5 DEF SetsceneNotNeeded, SetsceneFail, SetsceneSkip, SetsceneStart,
     TailForceDeferred, ChooseSetscene, Goto
<1>6. ASSUME NEW t \in Tasks, SkipTask(t) \/ NoExecTask(t) \/ StartTask(t)
       PROVE  RunsOn' /\ Ends'
  BY <1>3, <1>6 DEF SkipTask, NoExecTask, StartTask, ToRun, ChooseTask, Goto
<1>7. ASSUME NEW t \in Tasks, ReadExit(t)
       PROVE  RunsOn' /\ Ends'
  BY <1>3, <1>7 DEF ReadExit, ReadTaskComplete, ReadSetsceneComplete, ReadTaskFailed,
     TaskFail, ReadSetsceneFailed, Reading, control
<1>8. ASSUME NEW t \in Tasks, NEW u \in NewUnihashes, ReadUniHash(t, u)
       PROVE  RunsOn' /\ Ends'
  BY <1>3, <1>8 DEF ReadUniHash, Reading, control
<1>9. ASSUME NEW t \in Tasks, RefuseTask(t) PROVE FALSE
  BY <1>9 DEF RefuseTask, Refused
<1>10. CASE Migrate
  <2>1. UNCHANGED <<state, stopped>> /\ pc # "top"
    BY <1>10, MigrateFacts DEF Migrate, Migrates, JobCount
  <2> QED
    BY <2>1, GoesOn DEF Ends
<1>11. CASE FinishNow
  <2>1. stopped' = TRUE /\ pc = "top" /\ pc' = "top" /\ state' = FinalState
        /\ failed_tids' = failed_tids
    BY <1>11 DEF FinishNow, Ends, runq
  <2> QED
    BY <2>1 DEF RunsOn, Ends, FinalState
<1>12. CASE Finish
  <2>1. /\ pc = "top" /\ state \in {"Running", "CleanUp"}
        /\ (state = "CleanUp" /\ stopped' = stopped) \/ stopped' = TRUE
        /\ UNCHANGED <<failed_tids, runq_live, sq_live, runq_complete>>
    BY <1>12 DEF Finish, runq, jobs
  <2>2. ~Halt => stopped'
    BY <2>1 DEF RunsOn
  <2>3. CASE active + Cardinality(sq_live) > 0
    <3>1. state' = "CleanUp"
      BY <1>12, <2>3 DEF Finish
    <3> QED
      BY <2>2, <3>1 DEF RunsOn, Ends
  <2>4. CASE ~(active + Cardinality(sq_live) > 0)
    <3>1. state' = FinalState /\ pc' = "top"
      BY <1>12, <2>1, <2>4 DEF Finish
    <3>2. Live = {}
      <4>1. active \in Int /\ Cardinality(sq_live) \in Int
        BY JobsCounted
      <4> QED
        BY <2>4, <4>1, NoJobs
    <3>3. Live' = {}
      BY <2>1, <3>2 DEF Live
    <3> QED
      BY <2>1, <2>2, <3>1, <3>3 DEF RunsOn, Ends, FinalState
  <2> QED
    BY <2>3, <2>4
<1>13. CASE HoldoffStage
  <2>1. /\ pc = "holdoff"
        /\ UNCHANGED <<stopped, runq_live, sq_live>>
    BY <1>13 DEF HoldoffStage, jobs
  <2>2. state \notin {"Failed", "Complete"}
    BY <2>1 DEF Ends
  <2>3. CASE state' = state
    BY <2>1, <2>2, <2>3, GoesOn
  <2>4. CASE state' # state
    <3>1. SceneQueueDone /\ ~SceneQueueError
      BY <1>13, <2>4, HoldoffClean DEF HoldoffStage
    <3>2. SetsceneOnly /\ state' = "Complete" /\ pc' = "top"
      BY <1>13, <2>4, <3>1 DEF HoldoffStage
    <3>3. runq_live = {} /\ sq_live = {}
      BY <3>1, <3>2 DEF Started, JobCount, QueueOrder, SceneQueueDone
    <3>4. Live' = {}
      BY <2>1, <3>3 DEF Live
    <3> QED
      BY <3>2, <3>4 DEF RunsOn, Ends
  <2> QED
    BY <2>3, <2>4
<1>14. CASE TailFinish
  <2>1. /\ NothingLeft /\ Idle /\ UNCHANGED <<cover, runq>> /\ pc' = "top"
        /\ state' = IF failed_tids # {} \/ SceneQueueError \/ NeverDone
                    THEN "Failed" ELSE "Complete"
        /\ UNCHANGED <<stopped, runq_live, sq_live>>
    BY <1>14 DEF TailFinish, NothingLeft, jobs
  <2>2. Live = {}
    BY <2>1, IdleNoJobs
  <2>3. /\ Tasks \ Spoilt \subseteq runq_complete
        /\ failed_tids = {} => ~SceneQueueError /\ ~NeverDone
    BY <2>1, <2>2, TailClean DEF JobCount
  <2>4. UNCHANGED <<failed_tids, runq_complete, Spoilt>> /\ Live' = {}
    BY <2>1, <2>2, SpoiltKept DEF runq, Live
  <2> QED
    BY <2>1, <2>3, <2>4 DEF RunsOn, Ends
<1> QED
  BY <1>1, <1>2, <1>9, <1>10, <1>11, <1>12, <1>13, <1>14, <1>4, <1>5, <1>6, <1>7, <1>8
  DEF Next, Step

LEMMA EndInvHolds ==
    ASSUME HardDeps = {}, ~SetsceneEnforce, OnlyOfSome
    PROVE  Spec => []EndInv
<1>1. Init => EndInv
  BY InitEndInv
<1>2. EndInv /\ [Next]_vars => EndInv'
  <2> SUFFICES ASSUME EndInv, [Next]_vars PROVE EndInv'
    OBVIOUS
  <2>1. QueueOrder /\ HardDepsInOrder
    BY DEF EndInv, JobCount, HardDepsInOrder
  <2>2. JobCount'
    BY NextJobCount DEF EndInv
  <2>3. SceneInv' /\ Started' /\ SqDone'
    BY <2>1, NextSceneInv, NextStarted, NextSqDone DEF EndInv
  <2>4. Stages'
    BY NextStages DEF EndInv
  <2>5. RunsOn' /\ Ends'
    BY NextEnds DEF EndInv
  <2> QED
    BY <2>2, <2>3, <2>4, <2>5 DEF EndInv
<1> QED
  BY <1>1, <1>2, PTL DEF Spec

\* A build ends by itself only when the workers have reported the end of every job
\* and fails only because a task did: the sanity checks ("was never marked as ...",
\* "never ran!") never fire, neither at the end of the setscene queue nor at the
\* end of execute(). A build that only does the setscene tasks has some
\* (OnlyOfSome), for otherwise the queue is done before it starts and execute()
\* goes on to find that nothing ran.
THEOREM EndHolds ==
    ASSUME HardDeps = {}, ~SetsceneEnforce, OnlyOfSome
    PROVE  Spec => []EndsCleanly
<1>1. EndInv => EndsCleanly
  BY DEF EndInv, Ends, EndsCleanly, Ended
<1> QED
  BY <1>1, EndInvHolds, PTL

\* With -k a build that is not stopped completes every task that does not depend
\* on a failed one, whatever the order in which the workers report.
THEOREM GoingHolds ==
    ASSUME HardDeps = {}, ~SetsceneEnforce, ~SetsceneOnly
    PROVE  Spec => []KeepsGoing
<1>1. EndInv => KeepsGoing
  BY DEF EndInv, Ends, KeepsGoing, Ended, Spoilt
<1>2. OnlyOfSome
  BY DEF OnlyOfSome
<1> QED
  BY <1>1, <1>2, EndInvHolds, PTL

-----------------------------------------------------------------------------
(* The types. What takes work is the unihash: the recursion of the         *)
(* rehashing and the sum that stands for the digest have a value, and one  *)
(* in Nat. Both are shown by what is smallest: a graph without cycles has  *)
(* a task that depends on nothing left to do, a family of finite sets has  *)
(* a smallest member.                                                      *)

\* A sum over a finite set of naturals is a natural.
LEMMA DigestIsNat ==
    ASSUME NEW D, IsFiniteSet(D), NEW h \in [D -> Nat]
    PROVE  Digest(h) \in Nat
<1> DEFINE pick(s) == CHOOSE x \in s : TRUE
           sum(s, f) == IF s = {} THEN 0 ELSE h[pick(s)] + f[s \ {pick(s)}]
           iter == CHOOSE f : f = [s \in SUBSET D |-> sum(s, f)]
<1>1. Digest(h) = iter[D]
  BY DEF Digest, SumFunction, SumFunctionOnSet, FoldFunctionOnSet, MapThenFoldSet
<1>2. /\ \A f : sum({}, f) = 0
      /\ \A s \in SUBSET D : s # {} =>
            /\ s \ {pick(s)} \in SUBSET D /\ s \ {pick(s)} # s
            /\ h[pick(s)] \in Nat
            /\ \A f : sum(s, f) = h[pick(s)] + f[s \ {pick(s)}]
  OBVIOUS
<1> HIDE DEF pick, sum
<1>3. \E f : f = [s \in SUBSET D |-> sum(s, f)]
  <2> DEFINE upto(U) == \A s \in (SUBSET D) \ U : s # {} => s \ {pick(s)} \notin U
             good(f, U) == \A s \in (SUBSET D) \ U : f[s] = sum(s, f)
             F == {U \in SUBSET SUBSET D :
                     upto(U) /\ \E f : f = [s \in SUBSET D |-> f[s]] /\ good(f, U)}
  <2>1. SUBSET D \in F
    <3> DEFINE f == [s \in SUBSET D |-> 0]
    <3>1. f = [s \in SUBSET D |-> f[s]] /\ good(f, SUBSET D)
      OBVIOUS
    <3> QED
      BY <3>1
  <2>2. F \subseteq SUBSET SUBSET D
    OBVIOUS
  <2>3. PICK U \in F : \A E \in F : E \subseteq U => E = U
    <3> HIDE DEF F
    <3>1. F # {}
      BY <2>1
    <3>2. IsFiniteSet(SUBSET D)
      BY FS_SUBSET
    <3> QED
      BY ONLY <2>2, <3>1, <3>2, SmallestSubset
  <2>4. upto(U) /\ U \in SUBSET SUBSET D
    BY <2>3
  <2>5. PICK f : f = [s \in SUBSET D |-> f[s]] /\ good(f, U)
    BY <2>3
  <2>6. ASSUME U # {} PROVE FALSE
    <3>1. PICK s \in U : \A e \in U : e \subseteq s => e = s
      BY <2>4, <2>6, SmallestSubset
    <3> DEFINE g == [e \in SUBSET D |-> IF e = s THEN sum(s, f) ELSE f[e]]
    <3>2. g = [e \in SUBSET D |-> g[e]]
      OBVIOUS
    <3>3. g[s] = sum(s, f) /\ \A e \in (SUBSET D) \ {s} : g[e] = f[e]
      BY <2>4
    <3> HIDE DEF g
    <3>4. s # {} => s \ {pick(s)} \in (SUBSET D) \ U
      BY <1>2, <2>4, <3>1
    <3>5. upto(U \ {s})
      BY <1>2, <2>4, <3>4
    <3>6. ASSUME NEW e \in (SUBSET D) \ (U \ {s}) PROVE g[e] = sum(e, g)
      <4>1. e # {} => e \ {pick(e)} \in (SUBSET D) \ {s}
        <5>1. CASE e = s
          BY <1>2, <3>4, <5>1
        <5>2. CASE e \in (SUBSET D) \ U
          <6>1. e # {} => e \ {pick(e)} \notin U
            BY <2>4, <5>2
          <6> QED
            BY <1>2, <3>1, <5>2, <6>1
        <5> QED
          BY <5>1, <5>2
      <4>2. sum(e, f) = sum(e, g)
        <5>1. CASE e = {}
          BY <1>2, <5>1
        <5>2. CASE e # {}
          <6>1. f[e \ {pick(e)}] = g[e \ {pick(e)}]
            BY <3>3, <4>1, <5>2
          <6>2. e \in SUBSET D
            OBVIOUS
          <6> QED
            BY <1>2, <5>2, <6>1, <6>2
        <5> QED
          BY <5>1, <5>2
      <4>3. g[e] = sum(e, f)
        BY <2>5, <3>3
      <4> QED
        BY <4>2, <4>3
    <3>7. U \ {s} \in F
      BY <2>4, <3>2, <3>5, <3>6
    <3> HIDE DEF F
    <3> QED
      BY <2>3, <3>1, <3>7
  <2>7. \A s \in SUBSET D : f[s] = sum(s, f)
    BY <2>5, <2>6
  <2> QED
    BY <2>5, <2>7
<1>4. iter = [s \in SUBSET D |-> sum(s, iter)]
  BY <1>3
<1> HIDE DEF iter
<1> DEFINE C == {s \in SUBSET D : iter[s] \notin Nat}
<1>5. ASSUME C # {} PROVE FALSE
  <2>1. C \subseteq SUBSET D
    OBVIOUS
  <2>2. PICK s \in C : \A e \in C : e \subseteq s => e = s
    <3> HIDE DEF C
    <3> QED
      BY <1>5, <2>1, SmallestSubset
  <2>3. iter[s] = sum(s, iter) /\ iter[s] \notin Nat /\ s \in SUBSET D
    BY <1>4, <2>2
  <2>4. CASE s = {}
    BY <1>2, <2>3, <2>4
  <2>5. CASE s # {}
    <3>1. s \ {pick(s)} \notin C
      BY <1>2, <2>2, <2>3, <2>5
    <3>2. iter[s \ {pick(s)}] \in Nat
      BY <1>2, <2>3, <2>5, <3>1
    <3>3. sum(s, iter) = h[pick(s)] + iter[s \ {pick(s)}] /\ h[pick(s)] \in Nat
      BY <1>2, <2>3, <2>5
    <3> QED
      BY <2>3, <3>2, <3>3
  <2> QED
    BY <2>4, <2>5
<1> QED
  BY <1>1, <1>5

\* So all hashes are naturals, as the reported ones are.
LEMMA RehashIsNat ==
    ASSUME NEW reported \in [Tasks -> Nat], NEW same
    PROVE  Rehash(reported, same) \in [Tasks -> Nat]
<1> DEFINE new == Rehash(reported, same)
           C == {t \in Tasks : new[t] \notin Nat}
<1>1. new = [x \in Tasks |-> NewHash(reported, same, x, new)]
  BY RehashSolves
<1> HIDE DEF new
<1>2. ASSUME C # {} PROVE FALSE
  <2>1. PICK t \in C : Depends[t] \cap C = {}
    BY <1>2, AcyclicAssumption
  <2>2. \A d \in Depends[t] : new[d] \in Nat
    BY <2>1, DependsAssumption
  <2>3. [d \in Depends[t] |-> new[d]] \in [Depends[t] -> Nat]
    BY <2>2
  <2>4. IsFiniteSet(Depends[t])
    BY TasksAssumption, DependsAssumption, FS_Subset
  <2>5. Digest([d \in Depends[t] |-> new[d]]) \in Nat
    BY <2>3, <2>4, DigestIsNat
  <2>6. NewHash(reported, same, t, new) \in Nat
    BY <2>5 DEF NewHash
  <2> QED
    BY <1>1, <2>1, <2>6
<1> QED
  BY <1>1, <1>2 DEF new

-----------------------------------------------------------------------------
(* What the handlers of the setscene queue make of its fields, with hard   *)
(* dependencies too.                                                       *)

LEMMA SettledSceneTypes ==
    ASSUME NEW q \in SceneQueueStates, NEW K \in SUBSET Setscene, NEW fail
    PROVE  UpdateCounters(q, K, fail) \in SceneQueueStates
<1> DEFINE hard(t) == IF fail THEN HardDependants(G, t) ELSE {}
           next == UNION {SqDeps[t] \ hard(t) : t \in K}
           ready == {d \in next : SqRev[d] \subseteq q.covered \cup q.notcovered}
           done == DoneWith(q.done, K)
<1>1. UpdateCounters(q, K, fail) =
        [q EXCEPT !.buildable = @ \cup ready, !.done = done, !.holdoff_need_update = TRUE]
  BY DEF UpdateCounters
<1>2. ready \subseteq Setscene
  BY DEF SqDeps
<1>3. done \subseteq Tasks
  BY DEF DoneWith
<1> HIDE DEF ready, done
<1> QED
  BY <1>1, <1>2, <1>3 DEF SceneQueueStates

LEMMA CoverTypes ==
    ASSUME NEW q \in SceneQueueStates, NEW K \in SUBSET Setscene
    PROVE  Cover(q, K) \in SceneQueueStates
<1> DEFINE p == [q EXCEPT !.running   = @ \cup K,
                          !.buildable = @ \cup K,
                          !.covered   = @ \cup K]
<1>1. p \in SceneQueueStates
  BY DEF SceneQueueStates
<1> QED
  BY <1>1, SettledSceneTypes DEF Cover

LEMMA FailTypes ==
    ASSUME NEW q \in SceneQueueStates, NEW K \in SUBSET Setscene, NEW dsk, NEW uni
    PROVE  FailOutright(q, K, dsk, uni) \in SceneQueueStates
<1> DEFINE open(a) == {b \in HardDependants(G, a) :
                         /\ b \notin q.covered \cup q.notcovered \cup NoExec
                         /\ ~StampPresent(dsk, uni, b)}
           failed == Closure(Setscene, K, open)
           p == [q EXCEPT !.running    = @ \cup failed,
                          !.buildable  = @ \cup failed,
                          !.notcovered = @ \cup failed]
<1>1. FailOutright(q, K, dsk, uni) = UpdateCounters(p, failed, TRUE)
  BY DEF FailOutright
<1>2. failed \in SUBSET Setscene
  BY DEF Closure
<1> HIDE DEF failed
<1>3. p \in SceneQueueStates
  BY <1>2 DEF SceneQueueStates
<1> QED
  BY <1>1, <1>2, <1>3, SettledSceneTypes

LEMMA LookTypes ==
    ASSUME NEW q \in SceneQueueStates, NEW S \in SUBSET Setscene, NEW dsk, NEW uni
    PROVE  UpdateSceneQueueData(q, S, dsk, uni) \in SceneQueueStates
<1> DEFINE K == {t \in S : t \in NoExec \/ StampPresent(dsk, uni, t)}
           missing == (S \ K) \ ValidHashes(dsk, uni, S)
           p == [q EXCEPT !.outrightfail = @ \ S]
           now == Cover(p, K)
           new == {t \in missing : /\ t \notin now.covered \cup now.notcovered
                                   /\ now.deferred[t] = None}
<1>1. UpdateSceneQueueData(q, S, dsk, uni) = [now EXCEPT !.outrightfail = @ \cup new]
  BY DEF UpdateSceneQueueData
<1>2. p \in SceneQueueStates
  BY DEF SceneQueueStates
<1>3. now \in SceneQueueStates
  BY <1>2, CoverTypes
<1>4. new \subseteq Setscene
  OBVIOUS
<1> HIDE DEF new, now
<1> QED
  BY <1>1, <1>3, <1>4 DEF SceneQueueStates

LEMMA ReleaseTypes ==
    ASSUME NEW q \in SceneQueueStates, NEW t, NEW dsk, NEW uni
    PROVE  ReleaseDeferred(q, t, dsk, uni) \in SceneQueueStates
<1> DEFINE waiting == {s \in Setscene : q.deferred[s] = t}
           found == Min(waiting)
           def == [s \in Setscene |->
                     CASE s = found -> None
                       [] s \in waiting \ {found} -> found
                       [] OTHER -> q.deferred[s]]
           p == [q EXCEPT !.deferred = def]
<1>1. CASE waiting = {}
  BY <1>1 DEF ReleaseDeferred
<1>2. CASE waiting # {}
  <2>1. found \in waiting
    BY <1>2, SubsetsAssumption, MinIsMember
  <2>2. ReleaseDeferred(q, t, dsk, uni) = UpdateSceneQueueData(p, {found}, dsk, uni)
    BY <1>2 DEF ReleaseDeferred
  <2>3. {found} \in SUBSET Setscene
    BY <2>1
  <2>4. q.deferred \in [Setscene -> Setscene \cup {None}]
    BY DEF SceneQueueStates
  <2> HIDE DEF found
  <2>5. \A s \in Setscene : def[s] \in Setscene \cup {None}
    BY <2>3, <2>4
  <2>6. def \in [Setscene -> Setscene \cup {None}]
    BY <2>5
  <2> HIDE DEF def
  <2>7. p \in SceneQueueStates
    BY <2>6 DEF SceneQueueStates
  <2> QED
    BY <2>2, <2>3, <2>7, LookTypes
<1> QED
  BY <1>1, <1>2

LEMMA ReopenTypes ==
    ASSUME sq \in SceneQueueStates, NEW S \in SUBSET Setscene, NEW uni \in [Tasks -> Nat]
    PROVE  Reopen(S, uni) \in SceneQueueStates
<1> DEFINE below == Below(S) \ (runq_complete \cup Unskip)
           stamps == [t \in Setscene |-> IF t \in S THEN uni[t] ELSE sq.stamps[t]]
<1>1. Reopen(S, uni) =
        [sq EXCEPT !.done = @ \ (S \cup below),
                   !.buildable = @ \ S, !.running = @ \ S, !.outrightfail = @ \ S,
                   !.notcovered = @ \ S, !.covered = @ \ S, !.notneeded = @ \ S,
                   !.stamps = stamps]
  BY DEF Reopen, SceneQueueStates
<1>2. stamps \in [Setscene -> Nat]
  <2>1. sq.stamps \in [Setscene -> Nat]
    BY DEF SceneQueueStates
  <2> QED
    BY <2>1, SubsetsAssumption
<1> HIDE DEF below, stamps
<1> DEFINE p == [sq EXCEPT !.done = @ \ (S \cup below), !.stamps = stamps,
                           !.buildable = @ \ S, !.running = @ \ S]
<1>3. p \in SceneQueueStates
  BY <1>2 DEF SceneQueueStates
<1> DEFINE r == [p EXCEPT !.outrightfail = @ \ S, !.notcovered = @ \ S,
                          !.covered = @ \ S, !.notneeded = @ \ S]
<1>4. Reopen(S, uni) = r
  BY <1>1 DEF SceneQueueStates
<1> HIDE DEF p
<1>5. r \in SceneQueueStates
  BY <1>3 DEF SceneQueueStates
<1> QED
  BY <1>4, <1>5

LEMMA RequeueTypes ==
    ASSUME NEW opened \in SceneQueueStates, NEW S \in SUBSET Setscene, NEW uni
    PROVE  Requeue(opened, S, uni) \in SceneQueueStates
<1> DEFINE harddepfail == {t \in S : \E a \in opened.notcovered : <<a, t>> \in HardDeps}
           ready == {t \in S : \/ SqRev[t] = {}
                               \/ /\ t \notin harddepfail
                                  /\ SqRev[t] \subseteq opened.covered \cup opened.notcovered}
           def == [t \in Setscene |->
                     IF t \in S /\ uni[t] = InitialUnihash /\ t # FirstOfName(t)
                     THEN FirstOfName(t) ELSE opened.deferred[t]]
           queued == [opened EXCEPT !.buildable = @ \cup ready, !.deferred = def]
           looked == UpdateSceneQueueData(queued, S, disk, uni)
<1>1. Requeue(opened, S, uni) =
        IF harddepfail = {} THEN looked ELSE FailOutright(looked, harddepfail, disk, uni)
  BY DEF Requeue, SceneQueueStates
<1>2. harddepfail \in SUBSET Setscene /\ ready \subseteq Setscene
  OBVIOUS
<1>3. def \in [Setscene -> Setscene \cup {None}]
  <2>1. opened.deferred \in [Setscene -> Setscene \cup {None}]
    BY DEF SceneQueueStates
  <2> QED
    BY <2>1, FirstIsSetscene
<1> HIDE DEF harddepfail, ready, def
<1>4. queued \in SceneQueueStates
  BY <1>2, <1>3 DEF SceneQueueStates
<1>5. looked \in SceneQueueStates
  BY <1>4, LookTypes
<1> HIDE DEF looked
<1> QED
  BY <1>1, <1>2, <1>5, FailTypes

LEMMA InitialTypes ==
    ASSUME NEW dsk, NEW uni \in [Tasks -> Nat]
    PROVE  InitialSceneQueue(dsk, uni) \in SceneQueueStates
<1> DEFINE def == [s \in Setscene |->
                     IF s = FirstOfName(s) THEN None ELSE FirstOfName(s)]
           q == [buildable    |-> {s \in Setscene : SqRev[s] = {}},
                 running      |-> {},
                 covered      |-> {},
                 notcovered   |-> {},
                 notneeded    |-> {},
                 done         |-> Unskip \ Setscene,
                 deferred     |-> def,
                 outrightfail |-> {},
                 stamps       |-> [s \in Setscene |-> uni[s]],
                 holdoff_need_update |-> TRUE]
<1>1. InitialSceneQueue(dsk, uni) = UpdateSceneQueueData(q, Setscene, dsk, uni)
  BY DEF InitialSceneQueue
<1>2. def \in [Setscene -> Setscene \cup {None}]
  BY FirstIsSetscene
<1>3. [s \in Setscene |-> uni[s]] \in [Setscene -> Nat]
  BY SubsetsAssumption
<1>4. Unskip \subseteq Tasks
  BY StaticFacts
<1> HIDE DEF def
<1>5. q \in SceneQueueStates
  BY <1>2, <1>3, <1>4 DEF SceneQueueStates
<1> QED
  BY <1>1, <1>5, LookTypes

-----------------------------------------------------------------------------
\* With TypeOK: the record of the disk has its four fields, and at most MaxRefusals
\* tasks have been counted down that were never counted up.
Types ==
    /\ TypeOK
    /\ disk = [f \in {"task", "setscene", "fresh", "sstate"} |-> disk[f]]
    /\ Cardinality(runq_live) <= active + MaxRefusals

LEMMA InitTypes == Init => Types
<1> SUFFICES ASSUME Init PROVE Types
  OBVIOUS
<1>1. unihash \in [Tasks -> Nat]
  BY DEF Init, InitialUnihash
<1>2. sq \in SceneQueueStates
  BY <1>1, InitialTypes DEF Init
<1>3. /\ disk = [f \in {"task", "setscene", "fresh", "sstate"} |-> disk[f]]
      /\ disk.task \in [Names -> Nat \cup {None}]
      /\ disk.setscene \in [Names -> Nat \cup {None}]
      /\ disk.fresh \subseteq Names
  <2>1. PICK tasks \in InitialTaskStamps, setscene \in InitialSetsceneStamps,
             sstate \in InitialSstate :
               disk = [task |-> tasks, setscene |-> setscene, fresh |-> {}, sstate |-> sstate]
    BY DEF Init
  <2>2. /\ tasks \in [Names -> Nat \cup {None}]
        /\ setscene \in [Names -> Nat \cup {None}]
    BY OptionsAssumption
  <2> QED
    BY <2>1, <2>2
<1>4. /\ active \in -MaxRefusals..NumberTasks
      /\ Cardinality(runq_live) <= active + MaxRefusals
  <2>1. Cardinality(runq_live) = 0 /\ active = 0
    BY FS_EmptySet DEF Init
  <2> QED
    BY <2>1, NumberTasksAssumption, OptionsAssumption
<1>5. build_stamps \in [Tasks -> Nat \cup {None}]
  BY DEF Init
<1>6. /\ runq_buildable \subseteq Tasks /\ tasks_notcovered \subseteq Tasks
      /\ sqdone \in BOOLEAN
  BY StaticFacts DEF Init
<1> QED
  BY <1>1, <1>2, <1>3, <1>4, <1>5, <1>6 DEF Init, Types, TypeOK

\* What is left alone keeps its type.
typed == <<runq, jobs, scene, cover, hashes, disk>>

LEMMA TypesStutter ==
    ASSUME Types, UNCHANGED typed,
           pc' \in {"top", "read", "migrate", "setscene", "holdoff", "next", "tail", "wait"},
           state' \in {"Running", "CleanUp", "Failed", "Complete"}, stopped' \in BOOLEAN
    PROVE  Types'
BY DEF Types, TypeOK, typed, runq, jobs, scene, cover, hashes

LEMMA TypesQuiet ==
    ASSUME Types,
           EnterExecute \/ Finish \/ FinishNow \/ EndRead \/ NoSetscene \/ NoTask
              \/ TailWait \/ TailFinish \/ Terminated \/ UNCHANGED vars
    PROVE  Types'
<1>1. /\ pc \in {"top", "read", "migrate", "setscene", "holdoff", "next", "tail", "wait"}
      /\ state \in {"Running", "CleanUp", "Failed", "Complete"} /\ stopped \in BOOLEAN
  BY DEF Types, TypeOK
<1>2. UNCHANGED typed
  BY DEF EnterExecute, Finish, FinishNow, EndRead, NoSetscene, NoTask, TailWait,
         TailFinish, Terminated, vars, typed, scene, hashes
<1>3. /\ pc' \in {"top", "read", "migrate", "setscene", "holdoff", "next", "tail", "wait"}
      /\ state' \in {"Running", "CleanUp", "Failed", "Complete"} /\ stopped' \in BOOLEAN
  BY <1>1 DEF EnterExecute, Finish, FinishNow, EndRead, NoSetscene, NoTask, TailWait,
              TailFinish, Terminated, vars, control, Goto, FinalState
<1> QED
  BY <1>2, <1>3, TypesStutter

\* A step of the setscene queue changes nothing else that has a type.
LEMMA TypesScene ==
    ASSUME Types, NEW t \in Setscene,
           SetsceneNotNeeded(t) \/ SetsceneFail(t) \/ SetsceneSkip(t)
              \/ TailForceDeferred(t)
    PROVE  Types'
<1>1. sq \in SceneQueueStates
  BY DEF Types, TypeOK
<1>2. Undefer(t) \in SceneQueueStates
  BY <1>1 DEF Undefer, SceneQueueStates
<1>3. /\ Cover(Undefer(t), {t}) \in SceneQueueStates
      /\ FailOutright(Undefer(t), {t}, disk, unihash) \in SceneQueueStates
  BY <1>2, CoverTypes, FailTypes
<1>4. [Cover(Undefer(t), {t}) EXCEPT !.notneeded = @ \cup {t}] \in SceneQueueStates
  BY <1>3 DEF SceneQueueStates
<1>5. sq' \in SceneQueueStates
  BY <1>2, <1>3, <1>4 DEF SetsceneNotNeeded, SetsceneFail, SetsceneSkip, TailForceDeferred
<1>6. UNCHANGED <<runq, jobs, sqdone, cover, hashes, disk>> /\ Goto("top")
  BY DEF SetsceneNotNeeded, SetsceneFail, SetsceneSkip, TailForceDeferred
<1> QED
  BY <1>5, <1>6 DEF Types, TypeOK, runq, jobs, cover, hashes, Goto

LEMMA TypesSetsceneStart ==
    ASSUME Types, NEW t \in Setscene, SetsceneStart(t) PROVE Types'
<1>1. sq \in SceneQueueStates /\ unihash \in [Tasks -> Nat] /\ t \in Tasks
  BY SubsetsAssumption DEF Types, TypeOK
<1>2. Undefer(t) \in SceneQueueStates
  BY <1>1 DEF Undefer, SceneQueueStates
<1>3. [Undefer(t) EXCEPT !.running = @ \cup {t}] \in SceneQueueStates
  BY <1>2 DEF SceneQueueStates
<1>4. sq' \in SceneQueueStates
  BY <1>3 DEF SetsceneStart
<1>5. build_stamps' \in [Tasks -> Nat \cup {None}]
  BY <1>1 DEF SetsceneStart, Types, TypeOK
<1> QED
  BY <1>4, <1>5 DEF SetsceneStart, Types, TypeOK, runq, cover, hashes, Goto

LEMMA TypesReadScene ==
    ASSUME Types, NEW t \in Tasks, ReadSetsceneComplete(t) \/ ReadSetsceneFailed(t)
    PROVE  Types'
<1>1. sq \in SceneQueueStates /\ build_stamps \in [Tasks -> Nat \cup {None}]
  BY DEF Types, TypeOK
<1>2. t \in Setscene
  BY DEF ReadSetsceneComplete, ReadSetsceneFailed, Types, TypeOK
<1>3. /\ Cover(sq, {t}) \in SceneQueueStates
      /\ FailOutright(sq, {t}, disk, unihash) \in SceneQueueStates
  BY <1>1, <1>2, CoverTypes, FailTypes
<1>4. sq' \in SceneQueueStates
  BY <1>3 DEF ReadSetsceneComplete, ReadSetsceneFailed
<1>5. build_stamps' \in [Tasks -> Nat \cup {None}]
  BY <1>1 DEF ReadSetsceneComplete, ReadSetsceneFailed, JobEnds
<1>6. CASE ReadSetsceneComplete(t)
  <2>1. /\ disk' = [f \in {"task", "setscene", "fresh", "sstate"} |-> disk'[f]]
        /\ disk'.setscene \in [Names -> Nat \cup {None}]
        /\ disk'.task = disk.task /\ disk'.fresh = disk.fresh
    BY <1>1, <1>6 DEF ReadSetsceneComplete, SetsceneDone, Types, TypeOK
  <2> QED
    BY <1>4, <1>5, <1>6, <2>1 DEF ReadSetsceneComplete, Types, TypeOK, control, runq, cover, hashes
<1>7. CASE ReadSetsceneFailed(t)
  BY <1>4, <1>5, <1>7 DEF ReadSetsceneFailed, Types, TypeOK, runq, cover, hashes
<1> QED
  BY <1>6, <1>7

\* task_completeoutright()
LEMMA CompletionTypes ==
    ASSUME sq \in SceneQueueStates, runq_complete \subseteq Tasks,
           NEW t \in Tasks, NEW running, NEW buildable \in SUBSET Tasks, NEW dsk,
           CompleteOutright(t, running, buildable, dsk)
    PROVE  /\ runq_complete' \subseteq Tasks /\ runq_buildable' \subseteq Tasks
           /\ sq' \in SceneQueueStates
<1>1. Rev[t] \subseteq Tasks
  BY StaticFacts
<1> QED
  BY <1>1, ReleaseTypes DEF CompleteOutright

LEMMA TypesReadDone ==
    ASSUME Types, NEW t \in Tasks, ReadTaskComplete(t) PROVE Types'
<1>1. /\ sq \in SceneQueueStates /\ runq_complete \subseteq Tasks
      /\ runq_buildable \subseteq Tasks /\ runq_live \subseteq Tasks
      /\ build_stamps \in [Tasks -> Nat \cup {None}]
      /\ updated_taskhash_queue \subseteq Tasks \X Nat
  BY DEF Types, TypeOK
<1>2. /\ runq_complete' \subseteq Tasks /\ runq_buildable' \subseteq Tasks
      /\ sq' \in SceneQueueStates
  BY <1>1, CompletionTypes DEF ReadTaskComplete
<1>3. build_stamps' \in [Tasks -> Nat \cup {None}]
  BY <1>1 DEF ReadTaskComplete, JobEnds
<1>4. FinalHash(t) \in Nat \cup {None}
  BY <1>1 DEF FinalHash
<1>5. Name[t] \in Names
  BY DEF Names
<1>6. /\ disk' = [f \in {"task", "setscene", "fresh", "sstate"} |-> disk'[f]]
      /\ disk'.task \in [Names -> Nat \cup {None}]
      /\ disk'.setscene \in [Names -> Nat \cup {None}]
      /\ disk'.fresh \subseteq Names
  <2>1. disk' = TaskDone(t)
    BY DEF ReadTaskComplete
  <2> QED
    BY <1>4, <1>5, <2>1 DEF TaskDone, Types, TypeOK
<1>7. IsFiniteSet(runq_live) /\ t \in runq_live
  BY <1>1, TasksAssumption, FS_Subset DEF ReadTaskComplete
<1>8. /\ Cardinality(runq_live) \in Nat
      /\ Cardinality(runq_live \ {t}) = Cardinality(runq_live) - 1
      /\ Cardinality(runq_live \ {t}) \in Nat
  BY <1>7, FS_RemoveElement, FS_CardinalityType
<1>9. active' \in -MaxRefusals..NumberTasks /\ Cardinality(runq_live') <= active' + MaxRefusals
  BY <1>8, OptionsAssumption, NumberTasksAssumption DEF ReadTaskComplete, Types, TypeOK
<1> QED
  BY <1>2, <1>3, <1>6, <1>9 DEF ReadTaskComplete, Types, TypeOK, control, cover, hashes

\* Counting down a task that may never have been counted up.
LEMMA FailureCounts ==
    ASSUME Types, NEW t \in Tasks, TaskFail(t),
           runq_live' = runq_live \ {t}
    PROVE  /\ active' \in -MaxRefusals..NumberTasks
           /\ Cardinality(runq_live') <= active' + MaxRefusals
           /\ failed_tids' \subseteq Tasks
           /\ state' \in {"Running", "CleanUp", "Failed", "Complete"}
<1>1. IsFiniteSet(runq_live)
  BY TasksAssumption, FS_Subset DEF Types, TypeOK
<1>2. /\ Cardinality(runq_live) \in Nat
      /\ Cardinality(runq_live \ {t}) \in Nat
      /\ Cardinality(runq_live \ {t}) <= Cardinality(runq_live)
  <2>1. IsFiniteSet(runq_live \ {t})
    BY <1>1, FS_RemoveElement
  <2>2. Cardinality(runq_live) \in Nat /\ Cardinality(runq_live \ {t}) \in Nat
    BY <1>1, <2>1, FS_CardinalityType
  <2> QED
    BY <1>1, <2>2, FS_RemoveElement
<1>3. /\ active \in -MaxRefusals..NumberTasks
      /\ Cardinality(runq_live) <= active + MaxRefusals
      /\ MaxRefusals \in Nat /\ NumberTasks \in Nat
  BY OptionsAssumption, NumberTasksAssumption DEF Types, TypeOK
<1>4. active' = OneLess(t)
  BY DEF TaskFail
<1>5. /\ active' \in -MaxRefusals..NumberTasks
      /\ Cardinality(runq_live \ {t}) <= active' + MaxRefusals
  BY <1>2, <1>3, <1>4 DEF OneLess
<1> QED
  BY <1>5 DEF TaskFail, Types, TypeOK

LEMMA TypesFails ==
    ASSUME QueueOrder, Types, NEW t \in Tasks, ReadTaskFailed(t) \/ RefuseTask(t)
    PROVE  Types'
<1>1. CASE ReadTaskFailed(t)
  <2>1. /\ active' \in -MaxRefusals..NumberTasks
        /\ Cardinality(runq_live') <= active' + MaxRefusals
        /\ failed_tids' \subseteq Tasks
        /\ state' \in {"Running", "CleanUp", "Failed", "Complete"}
    BY <1>1, FailureCounts DEF ReadTaskFailed
  <2>2. build_stamps' \in [Tasks -> Nat \cup {None}] /\ runq_live' \subseteq Tasks
    BY <1>1 DEF ReadTaskFailed, JobEnds, Types, TypeOK
  <2> QED
    BY <1>1, <2>1, <2>2 DEF ReadTaskFailed, Types, TypeOK, scene, cover, hashes
<1>2. CASE RefuseTask(t)
  <2>1. UNCHANGED runq_live /\ t \notin runq_live
    BY <1>2 DEF RefuseTask, jobs, ChooseTask, Schedulable, QueueOrder
  <2>2. /\ active' \in -MaxRefusals..NumberTasks
        /\ Cardinality(runq_live') <= active' + MaxRefusals
        /\ failed_tids' \subseteq Tasks
        /\ state' \in {"Running", "CleanUp", "Failed", "Complete"}
    <3>1. TaskFail(t)
      BY <1>2 DEF RefuseTask
    <3>2. runq_live' = runq_live \ {t}
      BY <2>1
    <3> QED
      BY <3>1, <3>2, FailureCounts
  <2> QED
    BY <1>2, <2>1, <2>2 DEF RefuseTask, Types, TypeOK, jobs, scene, cover, hashes
<1> QED
  BY <1>1, <1>2

LEMMA TypesSkip ==
    ASSUME Types, NEW t \in Tasks, SkipTask(t) PROVE Types'
<1>1. /\ sq \in SceneQueueStates /\ runq_complete \subseteq Tasks
      /\ runq_buildable \subseteq Tasks
  BY DEF Types, TypeOK
<1>2. /\ runq_complete' \subseteq Tasks /\ runq_buildable' \subseteq Tasks
      /\ sq' \in SceneQueueStates
  BY <1>1, CompletionTypes DEF SkipTask
<1>3. runq_running' \subseteq Tasks /\ runq_tasksrun' \subseteq Tasks
  BY DEF SkipTask, Types, TypeOK
<1> QED
  BY <1>2, <1>3 DEF SkipTask, Types, TypeOK, Goto, jobs, cover, hashes

LEMMA TypesNoExec ==
    ASSUME Types, NEW t \in Tasks, NoExecTask(t) PROVE Types'
<1>1. /\ sq \in SceneQueueStates /\ runq_complete \subseteq Tasks
      /\ runq_buildable \subseteq Tasks /\ unihash \in [Tasks -> Nat]
  BY DEF Types, TypeOK
<1>2. /\ runq_complete' \subseteq Tasks /\ runq_buildable' \subseteq Tasks
      /\ sq' \in SceneQueueStates
  BY <1>1, CompletionTypes DEF NoExecTask
<1>3. runq_running' \subseteq Tasks /\ runq_tasksrun' \subseteq Tasks
  BY DEF NoExecTask, Types, TypeOK
<1>4. unihash[t] \in Nat /\ Name[t] \in Names
  BY <1>1 DEF Names
<1>5. /\ disk' = [f \in {"task", "setscene", "fresh", "sstate"} |-> disk'[f]]
      /\ disk'.task \in [Names -> Nat \cup {None}]
      /\ disk'.setscene \in [Names -> Nat \cup {None}]
      /\ disk'.fresh \subseteq Names
  <2>1. disk' = IF SetsceneEnforce THEN disk
                ELSE [disk EXCEPT !.task[Name[t]] = unihash[t],
                                  !.setscene[Name[t]] = None,
                                  !.fresh = @ \cup {Name[t]}]
    BY DEF NoExecTask
  <2> QED
    BY <1>4, <2>1 DEF Types, TypeOK
<1> QED
  BY <1>2, <1>3, <1>5 DEF NoExecTask, Types, TypeOK, Goto, jobs, cover, hashes

LEMMA TypesStart ==
    ASSUME Types, NEW t \in Tasks, StartTask(t) PROVE Types'
<1>1. /\ build_stamps \in [Tasks -> Nat \cup {None}] /\ unihash \in [Tasks -> Nat]
      /\ runq_live \subseteq Tasks /\ sq_live \subseteq Setscene
      /\ active \in -MaxRefusals..NumberTasks
      /\ Cardinality(runq_live) <= active + MaxRefusals
  BY DEF Types, TypeOK
<1>2. build_stamps' \in [Tasks -> Nat \cup {None}]
  BY <1>1 DEF StartTask
<1>3. IsFiniteSet(runq_live) /\ IsFiniteSet(sq_live)
  BY <1>1, TasksAssumption, SubsetsAssumption, FS_Subset
<1>4. /\ Cardinality(runq_live) \in Nat /\ Cardinality(sq_live) \in Nat
      /\ Cardinality(runq_live \cup {t}) <= Cardinality(runq_live) + 1
      /\ Cardinality(runq_live \cup {t}) \in Nat
  <2>1. IsFiniteSet(runq_live \cup {t})
    BY <1>3, FS_AddElement
  <2>2. /\ Cardinality(runq_live) \in Nat /\ Cardinality(sq_live) \in Nat
        /\ Cardinality(runq_live \cup {t}) \in Nat
    BY <1>3, <2>1, FS_CardinalityType
  <2>3. Cardinality(runq_live \cup {t}) =
          IF t \in runq_live THEN Cardinality(runq_live) ELSE Cardinality(runq_live) + 1
    BY <1>3, FS_AddElement
  <2> QED
    BY <2>2, <2>3
<1>5. active + Cardinality(sq_live) < NumberTasks /\ active' = active + 1
      /\ runq_live' = runq_live \cup {t}
  BY DEF StartTask, ToRun, ChooseTask, can_start_task
<1>6. /\ active' \in -MaxRefusals..NumberTasks
      /\ Cardinality(runq_live') <= active' + MaxRefusals
  BY <1>1, <1>4, <1>5, OptionsAssumption, NumberTasksAssumption
<1> QED
  BY <1>2, <1>6 DEF StartTask, Types, TypeOK, Goto, scene, cover, hashes

LEMMA TypesHoldoff == ASSUME Types, HoldoffStage PROVE Types'
<1>1. sq \in SceneQueueStates
  BY DEF Types, TypeOK
<1>2. /\ CoveredNow \subseteq Tasks /\ NotCoveredNow \subseteq Tasks
  BY <1>1 DEF CoveredNow, NotCoveredNow, SceneQueueStates
<1>3. HoldoffNow \subseteq Tasks
  BY StaticFacts DEF HoldoffNow, Below
<1>4. [sq EXCEPT !.holdoff_need_update = FALSE] \in SceneQueueStates
  BY <1>1 DEF SceneQueueStates
<1>5. /\ tasks_covered' \subseteq Tasks /\ tasks_notcovered' \subseteq Tasks
      /\ holdoff_tasks' \subseteq Tasks /\ runq_buildable' \subseteq Tasks
      /\ sq' \in SceneQueueStates
  BY <1>1, <1>2, <1>3, <1>4 DEF HoldoffStage, UpdateHoldoff, cover, Types, TypeOK
<1>6. /\ pc' \in {"next", "top"} /\ state' \in {state, "Failed", "Complete"}
      /\ sqdone' \in {sqdone, TRUE}
  BY DEF HoldoffStage
<1> QED
  BY <1>5, <1>6 DEF HoldoffStage, Types, TypeOK, jobs, hashes

LEMMA TypesUniHash ==
    ASSUME Types, NEW t \in Tasks, NEW u \in NewUnihashes, ReadUniHash(t, u)
    PROVE  Types'
BY OptionsAssumption DEF ReadUniHash, Types, TypeOK, control, runq, jobs, scene, cover

LEMMA ReportedTypes ==
    ASSUME Types, NEW ready \in SUBSET updated_taskhash_queue
    PROVE  Reported(ready) \in [Tasks -> Nat]
<1> DEFINE told(t) == {m \in ready : \/ m[1] = t
                                     \/ t \in Setscene /\ sq.deferred[t] = m[1]
                                           /\ m[2] # unihash[m[1]]}
           best(t) == CHOOSE m \in told(t) : (\E n \in told(t) : n[1] = t) => m[1] = t
<1>1. ready \subseteq Tasks \X Nat /\ unihash \in [Tasks -> Nat]
  BY DEF Types, TypeOK
<1>2. Reported(ready) = [t \in Tasks |-> IF told(t) = {} THEN unihash[t] ELSE best(t)[2]]
  BY DEF Reported
<1>3. ASSUME NEW t \in Tasks, told(t) # {} PROVE best(t) \in Tasks \X Nat
  <2>1. told(t) \subseteq Tasks \X Nat
    BY <1>1
  <2> HIDE DEF told
  <2>2. \E m \in told(t) : (\E n \in told(t) : n[1] = t) => m[1] = t
    BY <1>3
  <2>3. best(t) \in told(t)
    BY <2>2
  <2> QED
    BY <2>1, <2>3
<1> HIDE DEF told, best
<1> QED
  BY <1>1, <1>2, <1>3

LEMMA TypesMigrate == ASSUME Types, Migrate PROVE Types'
<1>1. PICK same \in SUBSET {Name[s] : s \in Setscene} :
        \E reported \in {Reported(ReadyReports)} : \E uni \in {Rehash(reported, same)} :
          \E changed \in {IF uni = reported THEN {}
                          ELSE {t \in Tasks : uni[t] # reported[t]}} :
            /\ unihash' = uni
            /\ MigrateTo(uni, changed, pending_migrations \cup (changed \cap Setscene))
  BY DEF Migrate
<1> DEFINE reported == Reported(ReadyReports)
           uni == Rehash(reported, same)
           changed == IF uni = reported THEN {} ELSE {t \in Tasks : uni[t] # reported[t]}
           pending == pending_migrations \cup (changed \cap Setscene)
<1>2. unihash' = uni /\ MigrateTo(uni, changed, pending)
  BY <1>1
<1>3. reported \in [Tasks -> Nat]
  BY ReportedTypes DEF ReadyReports
<1>4. uni \in [Tasks -> Nat]
  BY <1>3, RehashIsNat
<1>5. pending \subseteq Setscene
  BY DEF Types, TypeOK
<1> HIDE DEF uni, changed, pending, reported
<1>6. PICK pass \in Passes(Movable(pending)) :
        /\ pending_migrations' = pending \ (TooLate(pending) \cup pass.done \cup pass.broken)
        /\ IF pass.broken = {}
           THEN /\ sq' = [IF Movable(pending) = {} THEN sq
                          ELSE Requeue(Reopen(Movable(pending), uni), Movable(pending), uni)
                          EXCEPT !.holdoff_need_update = @ \/ changed \cup Movable(pending) # {}]
                /\ sqdone' = (sqdone /\ Movable(pending) = {})
                /\ UNCHANGED <<state, failed_tids>>
           ELSE /\ sq' = [Reopen(pass.done, uni) EXCEPT !.done = @ \ pass.broken]
                /\ failed_tids' = failed_tids \cup pass.broken
                /\ state' = "CleanUp"
                /\ UNCHANGED sqdone
  BY <1>2 DEF MigrateTo
<1> DEFINE go == Movable(pending)
<1>7. go \in SUBSET Setscene
  BY <1>5 DEF Movable
<1>8. pass.done \in SUBSET go /\ pass.broken \in SUBSET go
  BY DEF Passes
<1> HIDE DEF go
<1>9. sq \in SceneQueueStates /\ pending_migrations' \subseteq Setscene
  BY <1>5, <1>6 DEF Types, TypeOK
<1>10. sq' \in SceneQueueStates
  <2>1. CASE pass.broken = {}
    <3> DEFINE q == IF go = {} THEN sq ELSE Requeue(Reopen(go, uni), go, uni)
               stale == q.holdoff_need_update \/ changed \cup go # {}
    <3>1. q \in SceneQueueStates
      BY <1>4, <1>7, <1>9, ReopenTypes, RequeueTypes
    <3>2. sq' = [q EXCEPT !.holdoff_need_update = stale]
      BY <1>6, <2>1 DEF go
    <3>3. stale \in BOOLEAN
      OBVIOUS
    <3> HIDE DEF q, stale
    <3> QED
      BY <3>1, <3>2, <3>3 DEF SceneQueueStates
  <2>2. CASE pass.broken # {}
    <3> DEFINE q == Reopen(pass.done, uni)
    <3>1. q \in SceneQueueStates
      BY <1>4, <1>7, <1>8, <1>9, ReopenTypes
    <3>2. sq' = [q EXCEPT !.done = @ \ pass.broken]
      BY <1>6, <2>2
    <3> HIDE DEF q
    <3> QED
      BY <3>1, <3>2 DEF SceneQueueStates
  <2> QED
    BY <2>1, <2>2
<1>11. /\ failed_tids' \subseteq Tasks /\ sqdone' \in BOOLEAN
       /\ state' \in {"Running", "CleanUp", "Failed", "Complete"}
  BY <1>6, <1>7, <1>8, SubsetsAssumption DEF Types, TypeOK
<1>12. unihash' \in [Tasks -> Nat]
  BY <1>2, <1>4
<1>13. updated_taskhash_queue' \subseteq Tasks \X Nat
  BY DEF Migrate, Types, TypeOK
<1> QED
  BY <1>9, <1>10, <1>11, <1>12, <1>13 DEF Migrate, Types, TypeOK, jobs, cover

\* Only that a refused task has no job needs the order of the tasks.
LEMMA NextTypes == QueueOrder /\ Types /\ [Next]_vars => Types'
<1> SUFFICES ASSUME QueueOrder, Types, [Next]_vars PROVE Types'
  OBVIOUS
<1>1. ASSUME EnterExecute \/ Finish \/ FinishNow \/ EndRead \/ NoSetscene \/ NoTask
                \/ TailWait \/ TailFinish \/ Terminated \/ UNCHANGED vars
      PROVE  Types'
  BY <1>1, TypesQuiet
<1>2. ASSUME NEW t \in Setscene,
             SetsceneNotNeeded(t) \/ SetsceneFail(t) \/ SetsceneSkip(t)
                \/ SetsceneStart(t) \/ TailForceDeferred(t)
      PROVE  Types'
  BY <1>2, TypesScene, TypesSetsceneStart
<1>3. ASSUME NEW t \in Tasks,
             RefuseTask(t) \/ SkipTask(t) \/ NoExecTask(t) \/ StartTask(t)
      PROVE  Types'
  BY <1>3, TypesFails, TypesSkip, TypesNoExec, TypesStart
<1>4. ASSUME NEW t \in Tasks, ReadExit(t) PROVE Types'
  BY <1>4, TypesReadDone, TypesFails, TypesReadScene DEF ReadExit
<1>5. ASSUME NEW t \in Tasks, NEW u \in NewUnihashes, ReadUniHash(t, u) PROVE Types'
  BY <1>5, TypesUniHash
<1>6. ASSUME Migrate \/ HoldoffStage PROVE Types'
  BY <1>6, TypesMigrate, TypesHoldoff
<1> QED
  BY <1>1, <1>2, <1>3, <1>4, <1>5, <1>6 DEF Next, Step

\* Every variable keeps its type, whatever fails, is reported or is stopped: no
\* count leaves its bounds, and no hash or stamp is undefined.
THEOREM TypeHolds == Spec => []TypeOK
<1>1. Init => QueueOrder /\ Types
  BY InitQueueOrder, InitTypes
<1>2. QueueOrder /\ Types /\ [Next]_vars => (QueueOrder /\ Types)'
  BY NextQueueOrder, NextTypes
<1>3. Types => TypeOK
  BY DEF Types
<1> QED
  BY <1>1, <1>2, <1>3, PTL DEF Spec

=============================================================================
