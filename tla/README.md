# Verification of the rootfs build: BitBake

This directory holds TLA+ specifications of the program that builds the root
filesystems of this repository, TLC configurations that check them on small
instances, and proofs checked by TLAPS. `B:` below is
`src/initramfs/yocto/bitbake/lib/bb/runqueue.py`; other paths are relative to
`src/initramfs/yocto/bitbake`.

## Inventory

The repository is a build tree for Sunplus SP7350 images. Most of its 26,000
files are data: vendored Buildroot and Yocto layers, recipes, patches, boot
scripts, prebuilt tools. The executable logic of its own weight is BitBake.

| Part | State it keeps | Operations | Interacts with | Hard because |
|---|---|---|---|---|
| Run queue (`runqueue.py`, RunQueueExecute) | the sets of buildable, running, complete tasks; the setscene queue; deferrals; pending migrations; `stats` | `execute`, `finish`, `finish_now`, `task_*`, `sq_task_*`, `process_possible_migrations`, `update_holdofftasks` | workers (pipes), cooker (idle loop), signature generator, stamps on disk | results arrive in any order, hashes change while tasks run, builds are interrupted |
| Setscene collapse (`build_scenequeue_data`) | SQData | one walk | run queue | a worklist revisits points |
| Run queue preparation, schedulers | RunQueueData, priorities | `prepare`, `next` | run queue | sequential |
| Stamps and signatures (`build.py`, `siggen.py`) | stamp files, unihashes | `make_stamp`, `get_unihash`, `report_unihash` | run queue, workers, hash server | left over from earlier builds |
| Worker (`bin/bitbake-worker`) | child processes, pipes | `serve`, `handle_*`, `process_waitpid` | run queue | child exits race with messages and with `<finishnow>` |
| Hash equivalence server (`hashserv`) | the tables of outhashes and unihashes, what is committed of them, the backfill queue | `get`, `get-outhash`, `get-stream`, `report`, `report-equiv`, `backfill-wait`, the backfill worker | run queue and workers (its clients), upstream server | requests interleave at every `await`, one transaction is shared by all of them, the upstream server fails |
| Server process (`server/process.py`) | connections, idle functions, the asynchronous command, lock file | accept, run command, idle loop, shutdown | UIs, cooker | timeouts, two threads, restart |
| Cooker (`cooker.py`) | its state, configuration | commands, `buildTargets` | everything | stop requests at any time |
| PR server (`prserv`) | value tables | get, import, export | tasks | values must not go back |
| Persistent data (`persist_data.py`) | sqlite tables | transactions | tasks | retries |
| Data store, parser, fetchers, events | strings, files | | | sequential, or plain I/O |
| Root filesystem scripts, board tools | files, devices | | | straight-line shell; two programs of 60 lines |

`PROJECT.json` lists each part with its status, and every hazard with the line
where it bites and the properties that would catch it.

What makes each modelled part correct:

* *Run queue*: no task before its dependencies and no more jobs than
  `BB_NUMBER_THREADS`; a task that runs finds the outputs it needs, whether they
  were built, found stamped or unpacked from the cache; jobs that write the same
  files never run together; every build ends, and ends as failed exactly when
  something failed; with `-k` everything that can be built is.
* *Collapse*: a setscene task stands for exactly the tasks it makes unnecessary,
  and the collapsed graph leaves no task that nobody would ever settle.
* *Worker*: every event and exit of a task reaches the run queue, in order and
  once; each task runs with the hashes it was started with; no child is lost;
  whoever dies, the others end.
* *Hash equivalence server*: a task hash has one unihash for ever, since builds
  name their outputs in the cache by it; tasks with the same output have the same
  unihash, and the upstream server's where it has one; what a client is told is
  what the table holds, or will once the backfill is done; every request is
  answered.
* *PR server*: a value once told is never undercut; outputs do not share a value
  by accident; an export carries all that matters.
* *Process server*: one server works on a build directory, and it can be reached;
  nobody gets another client's answer or waits for ever; a server told to quit
  does.
* *Parser pool*: a build starts only from recipes that were all parsed; stopping
  the parsers leaves no lock taken that others need; parsing ends.

## Modules

| Module | Models |
|---|---|
| `SceneQueueData` | operators: what `build_scenequeue_data()` leaves in SQData |
| `SceneQueueBuild` | the walk of `process_endpoints()` that gets there, one point per step, over every small task graph |
| `SceneQueue` | the constants of a build, stamps and cached outputs, the handlers of the setscene queue as operators on its state |
| `RunQueue` | RunQueueExecute: the passes of `execute()`, the workers' messages, migrations, `finish()`, stopping |
| `Build` | abstract: what a build promises, without queues |
| `Worker` | `bin/bitbake-worker`, its children, both pipes, and the run queue as their other end |
| `Jobs` | abstract: what a worker promises the run queue about its tasks |
| `HashServ` | the hash equivalence server, its clients, its backfill worker and the server upstream of it |
| `UnihashMap` | abstract: a unihash is given once and told as it is |
| `PRTable` | operators: the table of the PR server and the statements on it |
| `PRServ` | PR servers on one database file, and their clients |
| `ProcessServer` | the server of a build directory, its two threads, the clients that start it and connect to it |
| `ParserPool` | the parsers, the queue of their results, `updateCache()` and a stop, in both threads of the server |

With each state machine `M` come `MProperties` (its properties, and the
refinement of the abstract module), `MCM` (instances for TLC) and `MProofs`;
`SceneQueueBuild` holds its own properties, and `SceneQueueDataProofs` the lemmas
about the collapse that both `SceneQueueBuildProofs` and `RunQueueProofs` use.

How they meet. `RunQueue` takes the collapse from `SceneQueueData`, and
`SceneQueueBuild` shows that the walk computes it. What `HashServ` answers to
`report` and `get-stream` is what `RunQueue` takes from `NewUnihashes` and `same`,
as an arbitrary answer. `RunQueue` assumes of its workers what `Jobs` says:
events in order, one exit, after them. `ParserPool` runs inside the idle function
of a command of `ProcessServer`, before `RunQueue` does. The state machines
are not composed into one: each is checked against any partner that keeps to
the interface, which is more than the one there is.

### RunQueue and the code

`execute()` is one long function with `return True` in the middle: a pass. `pc`
is the place in the pass (`top`, `read`, `migrate`, `setscene`, `holdoff`,
`next`, `tail`, `wait`), and an action is the code from one such place to the
next, including every handler it calls. `Goto("top")` is `return True`.
Python's sets are the variables of the same names (`sq` is a record of the
fields of the setscene queue). A worker's message is an action enabled while
the run queue reads pipes (`read`, `wait`): when the message was sent does not
matter to the run queue, only when it is read.

* A tid is a natural number: its rank among the sorted tids, with the default
  multiconfig first, so `Min` is the code's `sorted()` order.
* `Name` is recipe and task name. The code's `pending_hash_index()` joins the
  recipe, the constant text `taskname` and the hash, and leaves it to the hash
  to tell the tasks of a recipe apart; `Name` does that here, since the
  model's hashes are small numbers that tasks share.
* A unihash is a number. Every task has hash 0 at first, a report gives a task
  one of `NewUnihashes`, and the hash of a rehashed task is the sum of those it
  depends on: it changes when they do, and two histories can meet again. The
  server's answer to `get_unihash()` is the nondeterministic set `same`.
* `disk` is what stamps and cache say. A task has one stamp of each kind, since
  `make_stamp_mcfn` removes those under other hashes, and a stamp of the
  setscene variant is always younger than the task's own, because running the
  task removes it. `fresh` is all that is left of time stamps: made in this
  build or before it.
* `runq_live` has no counterpart: the tasks given to the workers whose exit was
  not read. The code knows only their number, `stats.active`, and
  `ActiveCountsJobs` says that the number is right.
* `pending_migrations`: the loop stops at the first task that was skipped and
  is needed again ("Halting build."); which tasks came before is a choice
  (`Passes`), because the code iterates over a set.

At B:2121 a `continue` meant to wait for covered tasks continues the inner loop;
that setscene tasks do not start beside the work they replace is due to
`holdoff_tasks` and to the check at B:2512, and `SetsceneExclusive` shows it is
enough.

### HashServ and the code (`lib/hashserv/server.py`)

The server is one asyncio loop, so a handler is atomic up to an `await` of the
upstream server; `Report(c, t, o, u)` is `handle_report()` up to that await,
`ResumeReport(c)` what follows it. `conn[c]` holds the local variables that
survive the await. A request whose answer is in the tables is one action.

* A database is a record of two tables. `uni` is a function, as the task hash is
  a unique key; `out` is a sequence in the order of `created`. A row inserted
  here is the youngest; one copied from upstream carries the time it was created
  there, and may go to any place.
* `db` is what the shared connection sees and `durable` what was committed last;
  any commit commits everything (`Commit`), and `Crash` goes back to `durable`.
* The upstream server's tables are read when the answer arrives. It is a server
  of the same kind, without an upstream server of its own: `UpstreamReport` is
  its `handle_report()`.
* `answers` are the pairs told from the table, `relayed` those told from
  upstream's answer. A client reports the unihash it holds for the task: one it
  was told, or the task hash itself (`siggen.get_unihash()`, `Held`).
* `Inserted`: `insert_table()` calls a row new if the cursor's `lastrowid`
  changed. A new cursor's is None, and CPython sets it after every INSERT, an
  ignored one too, so that the answer is always yes (`LastRowidKept = FALSE`).
  Python's documentation says it is left alone then (`TRUE`), and a repeated
  report would skip the search for an equivalent task. `hash_races` runs with
  `TRUE`: what must never happen does not depend on it.
* `get` and the end of `report` fail with an exception when the upstream server
  has nothing either (server.py:262): the connection is closed, nothing is committed.
* Commands to the upstream server fail (`UpstreamFails`) after the client's
  retries; that ends the connection. In the worker it ends the worker
  (`WorkerDies`).

### Worker and the code (`bin/bitbake-worker`)

`serve()` is a loop of one thread: `stage` is its place in one round. `select`
waits, `item` is in `handle_item()` for the tags of `kind`, `kill` and `wait` are
the two halves of the loop of `handle_finishnow()`, then come the pipes of the
children and `process_waitpid()`. `flush` is the `join()` of the thread that writes
stdout (`worker_flush`, the action `Flush`).

* Both streams are sequences with marks. `cmds`: the first `taken` commands are in
  the worker's queue, those up to `flushed` in the pipe, the rest in the run
  queue's buffer; `<newtaskhashes>` is written without a flush, so it travels with
  what comes next. `out`: the first `piped` messages are in the pipe, the rest in
  `worker_queue`.
* The run queue is here only as the other end (`state`, `writing`): it writes,
  blocks, reads, notices a dead worker (also in the middle of a pass, which may
  still start one task, `OverInPass`), and tears it down.
* `child` is a process from `fork()` to its collection. Until `Ready` it has no
  process group of its own, so `kill(-pid)` fails for it. `kill` collects with
  `waitpid(-1)`, whichever child it is, and takes nothing out of `build_pids`: the
  exit of a child it collects is never told.
* `hashes` counts the changes of unihashes; `runswith` and `sentwith` remember
  what a task was started and forked with.
* Commands and messages are whole; parsing of the tags is kept where it matters:
  `Misread`.

### PRServ and the code (`lib/prserv/db.py`, `serv.py`, `lib/bb/asyncrpc`)

`rows` is the committed table, `work` the one in the open exclusive transaction of
server `lock`. A server takes one message at a time; `stage` says whether it is in
its loop, between the SELECT and the INSERT of `_getValueNohist()`, or in `sync()`,
before the commit or between it and the next `BEGIN EXCLUSIVE`, which the server
then keeps. The answer is written before the commit. `given`, `unsaved` and
`latest` are history: what clients were told, what of it each server has yet to
commit, and the last value told of each package. A read-only server makes up
`max + 1` and stores nothing; what it tells is not in `given`.

### ProcessServer and the code (`lib/bb/server/process.py`, `main.py`, `command.py`)

`stage` is the place of `main()` of a server, `ipc` that of the idle thread. A
connection is a pair of a client and the number of its try, as a client makes a
new socket and new pipes each time. `lock` is who has the lock file open
and locked (a server inherits it from the client that starts it, and so may what it
forks), `sockfile` whose socket the path leads to. A client's steps are those of
`setup_bitbake()`: lock or connect, send the pipes, `updateFeatureSet`, then
commands. `async` is `currentAsyncCommand`, `funs` are the idle functions: `run`
for `runAsyncCommand()`, `build` for one that a command registers. Timeouts are
steps that may come at any time the code waits with one. `Claim` merges
`set_async_cmd()` with the registration of its function; `WaitInVain` stands also
for a client that takes the lock after five seconds and lets go of it.

### ParserPool and the code (`lib/bb/cooker.py`, `CookerParser`, `Parser`)

`at` is the place of the two threads of the server: `idle` runs `updateCache()` and
`parse_generator()`, `main` stops the cooker; both may run `shutdown()`. `proc` is
what each parser is doing. Its results go into `buf`, a thread of the process
writes them to `pipe` under a lock (`writer`), and a process that dies in the
middle leaves half a result (`torn`) and the lock taken. `sender` has the lock of
the event pipe, which parsers take to send a warning; signals that come then are
queued (`signals`), and replayed wrongly (`Sent`). The loops of `shutdown()` go
by index through a list the other thread shortens (`pos`, `processes`); `copy` is
the copy `parse_generator()` goes through. A `join(0.5)` that only waits is merged
into the loop after it.

## Runs

Three builds are used for the run queue. The *image* build has seven tasks in three
recipes: compile, package and sysroot of `a`; fetch, compile, package of `b`, where
the compile needs `a`'s sysroot; the image of both packages. Three tasks have
setscene variants. It has what the code distinguishes: a chain below a setscene
task, a plain leaf, a setscene task between recipes, unskippable setscene tasks, a
diamond. The *mix* adds `a`'s compile and package in a second multiconfig, a hard
dependency of the sysroot on the package, and a hash that is reported while others
run. The *twins* are one recipe in two multiconfigs, with a third task. Two threads
are enough to have a job end, fail or report while another one of either queue
runs, and one thread less than the jobs that are ready.

| Run | Distinct states | Question |
|---|---|---|
| `scene_queue_build` | 596,417 | Does the walk over every acyclic graph of four tasks, with every choice of setscene tasks, up to two hard dependencies and every order of the points, end with exactly the chains, and with no task that nobody settles? |
| `build` | 65,626 | Over the stamps of no build, an interrupted or a complete one, with any outputs cached, any task or unpacking failing, and stopped at any moment in either way: order, counting, a clean end, nothing started for nothing, and `Build` |
| `keep_going` | 36,317 | With `-k`, twins, tasks that report equivalent hashes while others run or fail, and one cached output that needs another: is anything started beside what it replaces, before its twin's turn is over, without its inputs, rerun too late, or not built although it could be? |
| `setscene_enforce` | 4,220 | Does a build end when a task is refused, fails, or the build is stopped? |
| `hash_upstream` | 80,233 | With and without an upstream server: have equal outputs equal unihashes, upstream's where it has one? Is what was told backfilled, is every report stored, does every request end? |
| `hash_races` | 699,041 | With tasks whose output changes, explicit equivalences, an upstream server that learns and fails, and restarts: does a stored unihash ever change? |
| `worker` | 1,496,964 | Over bounded pipes, with a worker that may be killed at any moment: do events and exits arrive as `Jobs` says, is every child known, does every task run with its hashes? |
| `worker_ends` | 155,471 | With pipes for one item, tasks that need not end and a server that may die: is every exit told, is a build that is over torn down, does a worker without a server end? |
| `worker_misread` | | Expected violation: a worker that nobody kills exits without being told to |
| `prserv` | 576,053 | Two servers on one database, timeouts, repeated requests, an import, crashes: are values kept, do they never go back, are they shared only by import, is an export enough? |
| `server` | 145,762 | Clients that start, find, lose and retry servers which crash, time out and shut down: one server at a time, reachable, no answer or event for the wrong client, no mixed up commands, nobody waits for ever |
| `parser_pool` | 1,068,745 | Parsers that warn, fail and are killed, a pipe for one result, a stop at any moment: is the event lock freed, is the verdict right, does parsing end? |

`worker_misread` is the one run that shows the code depart from what it says of
itself. After one command of a kind `handle_item()` looks for the next closing tag
of that kind anywhere in its queue; `<runtask>`, `<newtaskhashes>`, `<runtask>` that
arrive together are unpickled as one, and the worker exits, "unexpectedly"
(B:3163).

### Bounds

*Collapse*: every shape of a revisited point (two chains of different length
meeting) fits in four tasks; two hard dependencies give a chain of them. The
theorems hold without the bounds.

*Run queue*: `NewUnihashes = {1}`: one new hash per task is enough for a task to
change, and, with the sums above, for several different later hashes.
`MaxRefusals` stops `stats.active` from falling for ever when a refused task
is counted down again and again; it never bites when nothing is refused. `MayFail`
is all tasks where failure is the question and a small set elsewhere. `Halt`,
stamps, cache and `MayStop` are set by each run to what its question needs.

*Hash equivalence server*: two clients are enough for any two handlers to
interleave at an await, and the worker and the restarts are there beside them; a
handler suspends at most twice. Two task hashes with the same output give a report
an equivalent task to find, to race with or to be raced by. `MaxBackfill = 1` lets
one task be copied while the next waits in the queue; the queue itself has no
bound in the code. `InitialUpstream` is no server, an empty one, or one that knows
one or both of the tasks, one of them by the other's unihash. `UpstreamPreferred` is
asked only of an upstream server that learns nothing new meanwhile: what it
learns later is not looked up again. `AgreeWithoutUpstream` is asked of tasks with
one output each: the code answers a task that makes another output with the
unihash it has (`ImplementsUnihashMap`, in `hash_races`). `hash_upstream` has no
restarts, which lose the backfill queue, and with it what `BackfilledAsTold`
promises.

*Worker*: two tasks, so that one's exit, signal or message meets the other's; one
event each; one change of hashes (`worker`) makes a `<newtaskhashes>` lie between
two `<runtask>`s, and a pipe of three commands can hold all of them; pipes of
one item (`worker_ends`) are those on which both sides block first.

*PR server*: one package (packages are independent rows), two checksums, values up
to 2, one imported row. Two servers and two clients are each alike (symmetry).

*Process server*: two clients, of which one was run with `--kill-server`, two tries
(eight in the code) for the other, two processes so that a new server meets the
end of an old one. Servers have a timeout of some seconds, may crash or fail to
start. The run does not check for deadlock: it ends when everybody has left.

*Parser pool*: two parsers with one recipe each and a pipe for one result make
writers wait for each other and for the reader; one of them warns and may be
killed, the recipe of the other may be bad. Deadlock is not checked: parsing ends, or is stopped for good.

### Fairness

*Run queue*: `WF_vars(Step)`, as the cooker's idle loop calls
`execute_runqueue()` as long as it returns True or file descriptors, and
`execute()` does not block. `SF_vars(ReadExit(t))` for each task: jobs end, the
worker writes the exit to a pipe that keeps it, and `read_workers()` reads whatever
is there each time; reading is possible again and again, not all the time, hence
strong fairness. Nothing is assumed about reports of hashes or about being stopped.

*Hash equivalence server*: `WF_vars(Resume(c))` for each client, and
`WF_vars(Backfill)`: the asyncio loop runs whatever is ready, and the upstream
server answers, or fails with an error, which `RequestsEnd` leaves out, as the
worker does not survive it. Clients need not ask anything.

*Worker*: the run queue writes, reads and tears down what is over, the worker's
loop and its thread run, a child gets ready and obeys a signal. A task need not
end by itself, and the run queue need not start, stop or notice anything but the
end of its worker.

*Process server*: both threads of a server run, a client takes what it was sent and
gives up when its time is over, an idle function is done some time. *Parser
pool*: the idle thread and all processes run, and the user interface reads its
events, so that whoever waits for the lock of the event pipe gets it if it is let
go of; the main thread only brings a stop, after which nothing is promised. *PR server*: safety only.

## Proofs

The theorems hold for every value of the constants that the assumptions declared
in the modules allow: every task graph, every number of threads, clients, servers,
parsers and hashes, every capacity of a pipe, every content of stamps, caches and
tables. What a theorem assumes beyond that stands in its statement.

### The collapse: `SceneQueueDataProofs`, `SceneQueueBuildProofs`

`CollapseHolds` (`CollapseExact`) and `SettledHolds` (`EveryTaskSettled`), for every
acyclic graph and every order of the points. The invariant is `WalkInv`: nothing
comes to a point that is not on the chain (`Sound`); behind the points that are
counted the chain goes on with points that are counted or will be visited
(`NoneLost`); and a point that has something to pass on is in one of the two
levels, or waits for a reverse dependency that is still to be visited
(`NoneForgotten`). At the end nothing waits, so what is counted is closed under the
chain, and not larger than it. `SceneQueueDataProofs` has what both this and the run
queue need of `Closure`: that it is the smallest closed set, and that a graph
without cycles has, in every set of tasks, one that comes before the others.

### The run queue: `RunQueueProofs`

* `OrderHolds`: `DependenciesFirst`. The invariant is `QueueOrder`: complete tasks
  are running ones, live tasks are running and not complete, live setscene jobs and
  pending migrations are setscene tasks. `DependenciesFirst` alone is not inductive:
  that a task read as complete has its own dependencies complete needs that it was
  counted as running.
* `CountHolds`: `stats.active` is the number of live tasks (`JobCount`). `Implements`:
  `RunQueue` implements `Build`, action by action: a start is `Begin`, both kinds
  of skip are `Skip`, a migration that halts the build is `Refuse`, setscene jobs are
  `Stage` and `Unstage`, all else stutters.
* `StopHolds`: a stopped build starts nothing, in either queue. `StopIsFinal`: the
  state never returns to Running, and no pass is under way.
* `NothingRuns`: a build over current stamps starts no job. `NothingToDo` adds that
  no report waits for a task that is done unless something was built.
* `ExclusionHolds`, `NoRerunHolds`, `InputsHold` (`SetsceneExclusive`, `NoLateRerun`,
  `InputsPresent`) share the invariant of the setscene queue, `SceneInv`. `SceneOK`:
  a setscene task is covered or not, never both, and is handed over (`done`) as soon
  as it is settled. `LiveUnsettled`: what runs is not settled. `Apart`: neither a
  setscene task that is not settled nor a plain task below it is being run.
  `SkippedIsCovered`: a task skipped as covered has every setscene task above it
  covered. `HoldoffFresh` and `StageFresh`: the tables of `update_holdofftasks()`
  agree with the queue, or are known to be stale, and are never stale where a task
  is chosen. A migration reopens settled tasks, so that `Apart` has to be shown
  again for all of them: `Migrates` says what one pass of it may do.
* `TypeHolds` (`TypeOK`), with hard dependencies and `BB_SETSCENE_ENFORCE` too. `Types`
  adds that `active` is at most `MaxRefusals` below the number of live tasks: a refused
  task is counted down without having been counted up. `RehashSolves`: the recursion
  of the rehashing has a solution, whatever was reported; `RehashIsNat` and
  `DigestIsNat`: its values, and the sums that stand for digests, are naturals. None
  of these is an induction: of the partial solutions one leaves the fewest tasks
  unsolved, and as the graph has no cycle, it leaves none.
* `TasksApart`: plain twins with their first hash never run together
  (`NoDuplicateTasks`, one half of `NoDuplicateJobs`). `TurnsHold`: all of it. The first
  of setscene twins runs beside no other that is in turn, and nothing puts one out of
  turn but the idle loop that gives its deferral up. `InTurn` says that a deferral is after the first
  of the name, or the first is complete (then `task_completeoutright()` may have
  deferred a twin after another one), and that only tasks that were started report
  a hash, so that one in turn, which is not settled, gets another hash only by a
  migration. The hard step is a migration that brings the first hash back: it defers
  the twin again in the same pass (`MigratedTurns`).
* `EndHolds` and `GoingHolds` (`EndsCleanly`, `KeepsGoing`). `EndInv` joins the above
  with what the idle loop has found on its way to the end of a build: `Started`
  (what can start is buildable, what was started is live, complete or failed),
  `SqDone`, and `Stages`: a loop that comes to its tail without a job has found no
  setscene task to select and no task to schedule, and something held off if the
  setscene queue is not done. At the end, then, an unfinished task has an
  unfinished dependency, all the way to a failed one.

The assumptions. `~SetsceneEnforce` in `CountHolds`, `Implements`, `NothingRuns`,
`EndHolds` and `GoingHolds`: a refused task is counted down without having been
counted up. `HardDepsInOrder` in `ExclusionHolds`, `TasksApart`, `TurnsHold`,
`NoRerunHolds` and `InputsHold`: one setscene task may name another in its `[depends]`
flag if no hash changes during the build (no hash server) and no dependant is deferred
after a twin (one multiconfig). Otherwise the code can fail a dependant outright while
its job runs, and a migrated or deferred task can be in both `covered` and
`notcovered` (B:2592), so that `SceneOK` is false; `keep_going` checks these
properties with a hard dependency and changing hashes. `HardDepsFlat` in `InputsHold`:
no chain of hard dependencies, see below. `HardDeps = {}` in `EndHolds` and
`GoingHolds`: with hard dependencies a build can fail without a failed task, see
below. `OnlyOfSome` in `EndHolds`: a build with `--setscene-only` has a setscene task;
without one it ends as failed. `GoingHolds` excludes `--setscene-only`, which builds no
plain task at all.

### The hash equivalence server: `HashServProofs`

* `TypeHolds`, and `MapImplemented` (`ImplementsUnihashMap`). `Inv` adds to the types
  what a suspended request and the worker hold, and `Committed`: between two
  steps `db` and `durable` have the same unihashes. That makes answers from the
  table safe: a handler that inserts a unihash commits before it suspends, though a
  row of `outhashes_v2` may stay uncommitted over the await.
* `ReportsHold` (`ReportsAreStored`), where `Inserted` is CPython's and the upstream
  server does not fail: `NeverAsksTwice` says that the `get_unihash()` of a report
  always finds the row.
* `AgreementHolds` (`AgreeWithoutUpstream`): without an upstream server, where each
  task makes one output (`Reproducible`) and no equivalence is reported
  (`OnlyOutputs`). `Alone`: a task has a unihash if, and only if, its output was
  reported.
* `PreferenceHolds` (`UpstreamPreferred`): with an upstream server that learns nothing
  new and agrees with what the tasks make (`UpstreamTrusted`). `Tells` says of every
  output that tasks make or upstream knows that the table has upstream's unihash for
  it, or none.
* `BackfillHolds` (`BackfilledAsTold`), also without crashes: `ToCome`, what was told
  is in the table, in the queue or with the worker.

### The worker: `WorkerProofs`

`TypeHolds`, `KnownHolds` (`ChildrenKnown`) and `HashesHold` (`RunsWithItsHashes`). For
the last, `InStep` follows the hashes through the stream: every command carries
the hashes of the run queue at its time, only a `<newtaskhashes>` changes them, and the
one call that drops commands, for `<finishnow>`, drops none of those
(`AfterFinish`, `AtFinish`). `JobsImplemented` (`ImplementsJobs`): `Journal` relates
process, stream and run queue: of every live task the stream has the events from
the first one not told, none missing before another, and the exit behind all of
them (`Ordered`, `Gapless`, `AllPassed`), whichever prefix of it a killed worker has
written.

### The PR server: `PRServProofs`

`StoredHolds` (types and `GivenAreStored`), `NeverLower` (`NeverDecremented`),
`OutputsApart` (`OneOutputPerValue`) and `ExportHolds` (`ExportSuffices`).
`Transactions`: the open transaction only adds to what is committed, belongs to
one server, and is equal to it where no message is being handled. `Sharing`: two
rows, or a row and a told value, are the same only through an import.

### The process server: `ProcessServerProofs`

`OneServerHolds`, `OwnerHolds` (`TellsOwner`), `OneCommandHolds` (`OneCommand`).
`Channel`: as long as a command is set, the pipes in use are those of the client
that has given it, or there are none, the server quits and is past serving.
`InHand`: the command and the idle functions at each place of the idle thread.
`TypeHolds` (`TypeOK`): `Apart` says that a connection is in one place of one server
(`OnePlace`, `Own`), which needs that a client makes each of its connections once
(`Unused`); `Found`, that what `select()` has found is still there when the main loop
takes it, which needs `Apart`, because a server that ends closes its own connections
only.

### The parser pool: `ParserPoolProofs`

`TypeHolds`, `LockFreed` (`EventLockFreed`) and `VerdictHolds` (`VerdictIsRight`).
`Counted`: results are lost, never made, and with each bad one there is a recipe
less that can be counted, so the count is complete only if all is. `Smooth`,
for a parsing that nothing disturbs: no result is lost and none comes after the
decision.

### What is only model-checked

Liveness (`Terminates`, `RequestsEnd`, `EndedIsReported`, `FinishNowEnds`,
`WorkerEnds`, `WaitsEnd`, `QuitEnds`, `ParsingEnds`) is out of the prover's reach.
Every invariant and action property of a passing run is stated by a theorem. What the
theorems of the run queue assume of `BB_SETSCENE_ENFORCE` and hard dependencies, the
runs do not always: beyond it the property is only checked.

## What the modelling showed

Where the code does something else than its comments, or something a reader would
not expect, the models do what the code does. Beside `worker_misread`:

* *Run queue*. The scheduler compares the stamps it has computed at its creation
  (B:158, B:255), so twins whose hash has changed since may run together, against "so
  duplicates can't run in parallel" (B:2746); hence `SameFirstStamp` and `OutOfTurn`.
  The loop over the deferred tasks at B:2424 finds none, since a report is processed
  after the deferral was released. Setscene twins do run together: recipe `e` is
  built for multiconfigs A and C, and each `e` needs its own `s` and, by a multiconfig
  dependency, B's. With `-k`, nothing cached and A's `s` failing, A's `e` stays
  incomplete, C's `e` deferred after it, and both other `s` after A's. An idle loop
  gives up one deferral at a time (B:2307), in the order they were made, by
  multiconfig and name (say that `s` sorts before `e`): that of B's and C's `s`,
  although neither can run before C's `e` is settled, and then that of C's `e`. When
  that job ends, both `s` are started with the same hash, as the jobs of setscene
  tasks are not compared with each other: the stamp that B:2194 notes down has
  `_setscene` in its name, and the one that B:2111 looks for has not. TLC finds this
  in 41 steps. On the graph of `keep_going`, where the deferred task is the last
  thing in the way, it does not happen. No failure is needed when twins' recipes
  depend on each other across multiconfigs. Nothing else lets the first of twins run
  beside another with their first hash (`TurnsHold`), but of three multiconfigs the
  other two are not kept apart: if their hash changes and comes back after the first
  one is complete, both are deferred after it (B:2583), and may start together. With
  `BB_SETSCENE_ENFORCE` and `-k` a refused task is refused again on every pass
  (B:2231), and a failed setscene task ends the build as Complete (B:2650). In a chain
  of hard dependencies the middle task loses the reverse dependencies that the
  collapse has found for it (B:2886), so that B:2112 skips it as unneeded when its own
  hard dependency is covered, and a plain task that needs its output runs without
  (`InputsPresent` fails on such a graph). B:2067 calls a task in both `covered` and
  `notcovered` a bug; with hard dependencies a migrated task gets there (B:2592). A
  hard dependant whose stamp became current meanwhile (B:2605) is never made
  buildable, and the build ends as failed without a failed task.
* *Schedulers*. The basic scheduler's `prio_map` is a list of one list of keys, and
  its `index()` raises as soon as two tasks are buildable.
* *Worker*. The `waitpid(-1)` of `handle_finishnow()` takes exits that nobody tells
  then. A process that has not called `setsid()` yet is not signalled. The thread
  that writes ignores a broken pipe and tries for ever if the server dies while the
  worker waits for it (`Spinning`).
* *Hash equivalence server*. Two reports of one output that both wait for an
  upstream server each insert their own unihash (`server.py:425`); the test of
  equivalent reports (`lib/hashserv/tests.py:89`) sends them one after the other.
* *PR server*. A value is told before it is committed (against `db.py:24`, a crash
  loses it). After its first `sync()` a server keeps an exclusive lock for as long as
  it runs, so a second one can neither start nor answer. Imports can give two
  checksums one value.
* *Process server*. `ProcessTimeout` is a SystemExit that no user interface catches.
  Connections that wait are served last in, first out. The comparison of the lock
  file's contents (`process.py:378`) raises a TypeError, so the process ends there
  (`RelockFails`). An idle function that raises leaves `currentAsyncCommand` set, and
  the server quits.
* *Parser pool*. A queued signal is popped and iterated over (`process.py:864`), which
  raises a TypeError that its caller ignores: the signal is lost, against the comment
  at `process.py:854`, and the parser its UI handler. `parse_generator()` shortens the
  list `shutdown()` goes through, so that a process may get no SIGTERM, and the
  `join()` of it waits for ever. A stop that comes between `cooker.py:1638` and 1683
  or 1693 is overwritten. A parser killed while it writes a result, or with a lock,
  blocks the others.

## Not modelled

*Run queue*: pressure limits and `number_threads` are a choice not to start a task
while another is active (`NoTask`). The fakeroot worker differs only in which pipe a
job is written to. `nostamp` tasks, the contents of `stampcache` between calls,
the disk monitor, and dry runs other than those of `BB_SETSCENE_ENFORCE` are left out;
the death of a worker is in `Worker`. Stamps and cached outputs appear when the exit
of their job is read. A setscene job may succeed or fail whatever the cache is
said to hold. A report that a rehash is equivalent (`report_unihash_equiv`) is taken
to be honoured. `SetsceneOnly`, `SkipSetscene` and `ForceTargets` are modelled, and
covered by the theorems, but no run sets them. The preparation of the queue and
the priorities of the schedulers are sequential; the choice among buildable tasks
is free in the model, which covers all schedulers.

*Worker*: messages cut in two by a read, events the worker fires itself, stopped
children, SIGHUP, `<ping>`, the environment of a task.

*Hash equivalence server*: statistics, a read-only server, several server processes
on one database file, chunked messages, the order of a shutdown. There is one
method. The write of a lookup's answer, the drain and the put on the backfill queue
are one step; a client that is slow to read delays the put. A client that gives up
and asks again is a client that asks twice.

*PR server*: the mode with history, which no caller turns on, the server that a build
starts for itself, pid files. *Process server*: the XML-RPC server, observers, a
renamed build directory, what commands do to the cooker. *Parser pool*: what a
recipe is parsed to, the caches and the thread that syncs them.

`persist_data`, the data store, the fetchers, the layers and the scripts are data,
sequential text processing or plain I/O (`PROJECT.json` says which).

Four hazards have no property: a stale `stampcache` (B:1461), an upstream error that
ends the backfill worker with the queue unfinished (`server.py:540`, modelled as
`WorkerDies`, after which `RequestsEnd` says nothing), and the two of the parser pool
named above that need a stop (`cooker.py:2272`, `cooker.py:1683`), after which
`ParsingEnds` promises nothing.

## Plan

1. Done: the collapse, the run queue, the hash equivalence server, the worker, the PR
   server, the process server and the parser pool, each with its abstract
   specification or properties, and the theorems above.
2. Proofs: `KeepsGoing` and `EndsCleanly` with hard dependencies, as far as they hold;
   a condition on the graph under which no deferral has to be given up. `Worker`
   with `OthersMayDie` in the liveness run.
3. Models: runs with `-f`, `--setscene-only`, `--skip-setscene`; `stampcache` in the
   state; two hash equivalence servers on one database; `TaskWeights`,
   the unihash bookkeeping of `siggen`, `persist_data`, the board tools.

## Running

    tlc -config SceneQueueBuild.cfg SceneQueueBuild
    tlc -config Build.cfg MCRunQueue           # Mix.cfg, Enforce.cfg
    tlc -config HashUpstream.cfg MCHashServ    # HashRaces.cfg
    tlc -config Worker.cfg MCWorker            # WorkerEnds.cfg, WorkerMisread.cfg
    tlc -config PRServ.cfg MCPRServ
    tlc -config ProcessServer.cfg MCProcessServer
    tlc -config ParserPool.cfg MCParserPool
    tlapm RunQueueProofs.tla                   # and the other *Proofs modules
