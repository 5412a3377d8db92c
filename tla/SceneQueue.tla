----------------------------- MODULE SceneQueue -----------------------------
(***************************************************************************)
(* The setscene queue of one BitBake build (lib/bb/runqueue.py): its       *)
(* constants, and what its handlers make of its state.                     *)
(*                                                                         *)
(* A state sq of the queue is a record of RunQueueExecute's fields         *)
(*   buildable, running       sq_buildable, sq_running                     *)
(*   covered, notcovered, notneeded       scenequeue_covered, ...          *)
(*   done                     tasks_scenequeue_done                        *)
(*   deferred                 sq_deferred: the task each one waits for     *)
(*   outrightfail, stamps     sqdata.outrightfail, sqdata.stamps           *)
(*   holdoff_need_update                                                   *)
(* disk is what the workers leave behind                                   *)
(*   task, setscene           the hash in the stamp of each task name, and *)
(*                            in the stamp of its setscene variant         *)
(*   fresh                    the task stamps made during this build       *)
(*   sstate                   the cached outputs, as <<name, unihash>>     *)
(* and uni the unihash of each task. A stamp holds the unihash of its task *)
(* and a task name has one stamp of each kind (make_stamp_mcfn).           *)
(***************************************************************************)
EXTENDS SceneQueueData, Integers, FiniteSetsExt

CONSTANTS
    Tasks,      \* task ids, as ranks: < is the order of sorted()
    Depends,    \* the tasks each task depends on
    Setscene,   \* the tasks with a setscene variant
    Targets,    \* the tasks the user asked for
    HardDeps,   \* pairs <<a, b>>: b's setscene variant depends on a's
    Name,       \* PN and task name: equal for the same task of two multiconfigs
    Recipe,     \* the recipe file of a task
    NoExec      \* the tasks flagged noexec

None == -1

Names == {Name[t] : t \in Tasks}

ASSUME TasksAssumption ==
    /\ Tasks \subseteq Nat \ {0}
    /\ IsFiniteSet(Tasks)

ASSUME DependsAssumption == Depends \in [Tasks -> SUBSET Tasks]

ASSUME SubsetsAssumption ==
    /\ Setscene \subseteq Tasks
    /\ Targets \subseteq Tasks
    /\ NoExec \subseteq Tasks
    /\ HardDeps \subseteq Setscene \X Setscene

\* calculate_task_weights() refuses a circular dependency.
ASSUME AcyclicAssumption ==
    \A C \in (SUBSET Tasks) \ {{}} : \E t \in C : Depends[t] \cap C = {}

-----------------------------------------------------------------------------
(* Static data, computed once by build_scenequeue_data().                  *)

CantSkip == Targets \ Setscene

G == [tasks |-> Tasks, depends |-> Depends, setscene |-> Setscene,
      cantskip |-> CantSkip, harddeps |-> HardDeps]

Rev == [t \in Tasks |-> Revdeps(G, t)]

SqCovers == CoveredTasks(G)
SqRev == SqRevdeps(G, Squashed(G))
SqDeps == [s \in Setscene |-> {d \in Setscene : s \in SqRev[d]}]
Unskip == Unskippable(G)

\* Tasks with the same name and hash wait for the first of them: sqdata.hashes
\* is filled once, when every task has its first hash.
FirstOfName(s) == Min({r \in Setscene : Name[r] = Name[s]})

-----------------------------------------------------------------------------
(* Stamps and cached outputs.                                              *)

SetsceneStamp(disk, uni, t) == disk.setscene[Name[t]] = uni[t]

\* Mutant: only stamps of this build are trusted.
StampIsFresh(disk, uni, t, recurse) ==
    disk.task[Name[t]] = uni[t] /\ Name[t] \in disk.fresh

\* check_stamp_task(): the stamp is there and so are those of the
\* dependencies in the recipe, none of them younger. A stamp of the setscene
\* variant stands for the dependency (it is always the younger one: running
\* the task itself removes it). recurse asks the same of the dependencies.
StampIsCurrent(disk, uni, t, recurse) ==
    LET ok(u, current) ==
            /\ disk.task[Name[u]] = uni[u]
            /\ \A d \in Depends[u] :
                 \/ SetsceneStamp(disk, uni, d) \/ d \in Setscene \cap NoExec
                 \/ Recipe[d] # Recipe[u]
                 \/ /\ disk.task[Name[d]] = uni[d]
                    /\ Name[d] \in disk.fresh => Name[u] \in disk.fresh
                    /\ recurse => current[d]
        current[u \in Tasks] == ok(u, current)
    IN  current[t]

\* check_setscene_stamps(), the stamppresent half.
StampPresent(disk, uni, t) ==
    SetsceneStamp(disk, uni, t) \/ StampIsCurrent(disk, uni, t, TRUE)

\* validate_hashes(): the metadata's BB_HASHCHECK_FUNCTION looks for the
\* cached output of each task.
ValidHashes(disk, uni, S) == {t \in S : <<Name[t], uni[t]>> \in disk.sstate}

-----------------------------------------------------------------------------
(* The handlers.                                                           *)

\* scenequeue_updatecounters(), second half: a settled task, and every plain
\* task below it whose reverse dependencies are all done, is done.
DoneWith(done, settled) ==
    {x \in Tasks :
        \A C \in SUBSET Tasks :
            (/\ done \cup settled \subseteq C
             /\ \A v \in C \ (done \ settled) :
                  \A d \in Depends[v] \ Setscene : Rev[d] \subseteq C => d \in C)
            => x \in C}

\* scenequeue_updatecounters() for the tasks in settled; after a failure the
\* hard dependants have been dealt with.
UpdateCounters(sq, settled, fail) ==
    LET hard(t) == IF fail THEN HardDependants(G, t) ELSE {}
        next    == UNION {SqDeps[t] \ hard(t) : t \in settled}
    IN  [sq EXCEPT
            !.buildable = @ \cup {d \in next :
                                    SqRev[d] \subseteq sq.covered \cup sq.notcovered},
            !.done = DoneWith(@, settled),
            !.holdoff_need_update = TRUE]

\* sq_task_skip(), sq_task_completeoutright().
Cover(sq, S) ==
    UpdateCounters([sq EXCEPT !.running   = @ \cup S,
                              !.buildable = @ \cup S,
                              !.covered   = @ \cup S], S, FALSE)

\* sq_task_failoutright() with its recursion over the hard dependants that
\* are neither settled nor noexec nor stamped already.
FailOutright(sq, S, disk, uni) ==
    LET open(a) == {b \in HardDependants(G, a) :
                       /\ b \notin sq.covered \cup sq.notcovered \cup NoExec
                       /\ ~StampPresent(disk, uni, b)}
        failed  == Closure(Setscene, S, open)
    IN  UpdateCounters([sq EXCEPT !.running    = @ \cup failed,
                                  !.buildable  = @ \cup failed,
                                  !.notcovered = @ \cup failed], failed, TRUE)

\* update_scenequeue_data(): look again at the stamps and the cached outputs
\* of the tasks in S.
UpdateSceneQueueData(sq, S, disk, uni) ==
    LET skipped == {t \in S : t \in NoExec \/ StampPresent(disk, uni, t)}
        missing == (S \ skipped) \ ValidHashes(disk, uni, S)
        now     == Cover([sq EXCEPT !.outrightfail = @ \ S], skipped)
    IN  [now EXCEPT !.outrightfail = @ \cup
            {t \in missing : /\ t \notin now.covered \cup now.notcovered
                             /\ now.deferred[t] = None}]

\* task_completeoutright(), last part: the first task deferred after t goes
\* on, the others now wait for that one.
ReleaseDeferred(sq, t, disk, uni) ==
    LET waiting == {s \in Setscene : sq.deferred[s] = t}
        found   == Min(waiting)
    IN  IF waiting = {} THEN sq
        ELSE UpdateSceneQueueData(
                [sq EXCEPT !.deferred = [s \in Setscene |->
                    CASE s = found -> None
                      [] s \in waiting \ {found} -> found
                      [] OTHER -> @[s]]],
                {found}, disk, uni)

\* The state build_scenequeue_data() starts the queue in.
InitialSceneQueue(disk, uni) ==
    UpdateSceneQueueData(
        [buildable    |-> {s \in Setscene : SqRev[s] = {}},
         running      |-> {},
         covered      |-> {},
         notcovered   |-> {},
         notneeded    |-> {},
         done         |-> Unskip \ Setscene,
         deferred     |-> [s \in Setscene |->
                             IF s = FirstOfName(s) THEN None ELSE FirstOfName(s)],
         outrightfail |-> {},
         stamps       |-> [s \in Setscene |-> uni[s]],
         holdoff_need_update |-> TRUE],
        Setscene, disk, uni)

=============================================================================
