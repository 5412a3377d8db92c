------------------------------ MODULE HashServ ------------------------------
(***************************************************************************)
(* The hash equivalence server (lib/hashserv/server.py): one server, the   *)
(* clients connected to it, and the server it may have upstream.           *)
(*                                                                         *)
(* The server is one asyncio loop: a handler runs undisturbed until it     *)
(* awaits the upstream server, and the handlers of the other connections   *)
(* run meanwhile. A request that needs no upstream is one action; one that *)
(* does is the action up to the await, and a Resume action from the        *)
(* upstream's answer on. The upstream server answers from its own tables   *)
(* in the moment of the resumption: it is not told what happens here.      *)
(*                                                                         *)
(* All connections share one database connection. What one handler has     *)
(* inserted is seen by all at once, and a commit commits everything; only  *)
(* what was committed survives the process.                                *)
(*                                                                         *)
(* A database d is a record                                                *)
(*   uni    unihashes_v2: the unihash of a task hash, or None              *)
(*   out    outhashes_v2: rows <<taskhash, outhash>>, oldest first         *)
(* There is one method, and a unihash is the task hash it first was.       *)
(***************************************************************************)
EXTENDS Naturals, Sequences, SequencesExt

CONSTANTS
    Taskhash, Outhash, Client, None,
    Requests,           \* the kinds of request that clients make
    Output,             \* <<t, o>>: task hash t may have been seen to make o
    Equivalences,       \* <<t, u>>: what a run queue may report as equivalent
    InitialUpstream,    \* the databases the upstream server may start with;
                        \* None: there is no upstream server
    UpstreamOutput,     \* Output of the upstream server's own clients
    UpstreamMayFail,    \* requests to the upstream server may end in an error
    MayCrash,           \* the server may be killed, and started again
    LastRowidKept,      \* sqlite3: see Inserted
    MaxBackfill         \* bound: get-stream asks upstream only while the
                        \* backfill queue is shorter

ASSUME RequestsAssumption ==
    /\ MaxBackfill \in Nat
    /\ Requests \subseteq {"get-stream", "get", "get-all", "get-outhash",
                           "report", "report-equiv", "backfill-wait"}
    /\ Output \subseteq Taskhash \X Outhash
    /\ UpstreamOutput \subseteq Taskhash \X Outhash
    /\ Equivalences \subseteq Taskhash \X Taskhash
    /\ {UpstreamMayFail, MayCrash, LastRowidKept} \subseteq BOOLEAN

Rows == Taskhash \X Outhash

Databases == [uni : [Taskhash -> Taskhash \cup {None}], out : Seq(Rows)]

ASSUME NoneAssumption ==
    None \notin Taskhash /\ None \notin Rows /\ None \notin Databases

ASSUME UpstreamAssumption == InitialUpstream \subseteq Databases \cup {None}

VARIABLES
    db,         \* the tables as this process sees them
    durable,    \* the tables as last committed
    up,         \* the tables of the upstream server, or None
    conn,       \* per client: the request that waits, or Idle
    queue,      \* backfill_queue
    worker,     \* the task hash the backfill worker copies
    answers,    \* what clients were told from the table, as <<t, u>>
    relayed     \* what clients were told otherwise

tables == <<db, durable>>
told   == <<answers, relayed>>
vars   == <<tables, up, conn, queue, worker, told>>

\* self.upstream is not None
Upstream == up # None

Idle == [op |-> "idle", taskhash |-> None, outhash |-> None, unihash |-> None]

WorkerIdle == [state |-> "idle", taskhash |-> None]

Empty == [uni |-> [t \in Taskhash |-> None], out |-> <<>>]

Init ==
    /\ db = Empty /\ durable = Empty
    /\ up \in InitialUpstream
    /\ conn = [c \in Client |-> Idle]
    /\ queue = <<>> /\ worker = WorkerIdle
    /\ answers = {} /\ relayed = {}

-----------------------------------------------------------------------------
(* The tables.                                                             *)

\* insert_unihash() with Resolve.IGNORE: the task hash is a unique key.
InsertUnihash(d, t, u) ==
    IF d.uni[t] = None THEN [d EXCEPT !.uni[t] = u] ELSE d

\* insert_outhash() with Resolve.IGNORE, as the place-th oldest row.
InsertOuthash(d, row, place) ==
    IF row \in {d.out[i] : i \in DOMAIN d.out} THEN d
    ELSE [d EXCEPT !.out = InsertAt(@, place, row)]

Newest(d) == Len(d.out) + 1

\* The oldest row among rows whose task hash has a unihash: the INNER JOIN,
\* ORDER BY created ASC LIMIT 1.
Oldest(d, rows) ==
    LET joined == {i \in DOMAIN d.out : d.out[i] \in rows /\ d.uni[d.out[i][1]] # None}
        first  == {i \in joined : \A j \in joined : i <= j}
    IN  IF first = {} THEN None ELSE d.out[CHOOSE i \in first : TRUE]

\* Mutant: no other task is looked for.
NoMatch(d, t, o) == None

\* What another task hash with the same output is known as.
Match(d, t, o) ==
    LET row == Oldest(d, (Taskhash \ {t}) \X {o})
    IN  IF row = None THEN None ELSE d.uni[row[1]]

\* handle_report() where there is no upstream server, from end to end.
Reported(d, t, o, u) ==
    LET e == InsertOuthash(d, <<t, o>>, Newest(d))
    IN  InsertUnihash(e, t, IF Match(e, t, o) = None THEN u ELSE Match(e, t, o))

\* Mutant: what the documentation of sqlite3 leads to.
NewOnly(new) == new

\* insert_table() compares the cursor's lastrowid, None in a new cursor, with
\* what it is after the INSERT. CPython sets it to the connection's last rowid
\* whether or not the row was ignored; its documentation says it is kept then.
Inserted(new) == ~LastRowidKept \/ new

-----------------------------------------------------------------------------
(* What the handlers have in common.                                       *)

Commit(d) == db' = d /\ durable' = d

Suspend(c, op, t, o, u) ==
    conn' = [conn EXCEPT ![c] =
                [op |-> op, taskhash |-> t, outhash |-> o, unihash |-> u]]

Finish(c) == conn' = [conn EXCEPT ![c] = Idle]

\* The answer to a client is row <<t, u>> of the table, or comes from upstream.
Answer(t, u) == answers' = answers \cup {<<t, u>>} /\ UNCHANGED relayed
Relay(t, u)  == relayed' = relayed \cup {<<t, u>>} /\ UNCHANGED answers

Resumes(c, op) == conn[c].op = op

\* The unihash a client has for a task: what it was told, else the task hash.
Held(t) == {t} \cup {a[2] : a \in {b \in answers \cup relayed : b[1] = t}}

-----------------------------------------------------------------------------
(* get-stream, get, get-outhash.                                           *)

GetStream(c, t) ==
    /\ conn[c] = Idle
    /\ \/ db.uni[t] # None /\ Answer(t, db.uni[t]) /\ UNCHANGED conn
       \/ /\ db.uni[t] = None /\ Upstream /\ Len(queue) < MaxBackfill
          /\ Suspend(c, "get-stream", t, None, None) /\ UNCHANGED told
    /\ UNCHANGED <<tables, up, queue, worker>>

\* Mutant: what was found upstream is not put on the backfill queue.
ResumeStreamOnly(c) ==
    /\ Resumes(c, "get-stream") /\ Finish(c)
    /\ LET t == conn[c].taskhash IN
       IF up.uni[t] = None THEN UNCHANGED told ELSE Relay(t, up.uni[t])
    /\ UNCHANGED <<tables, up, queue, worker>>

ResumeStream(c) ==
    /\ Resumes(c, "get-stream") /\ Finish(c)
    /\ LET t == conn[c].taskhash IN
       IF up.uni[t] = None THEN UNCHANGED <<told, queue>>
       ELSE Relay(t, up.uni[t]) /\ queue' = Append(queue, t)
    /\ UNCHANGED <<tables, up, worker>>

\* get: the unihash of a task hash, with "all" only of one that has a row of
\* outhashes_v2.
Get(c, t, all) ==
    /\ conn[c] = Idle
    /\ LET found == IF all THEN Oldest(db, {t} \X Outhash) # None ELSE db.uni[t] # None
       IN  \/ found /\ Answer(t, db.uni[t]) /\ UNCHANGED conn
           \/ /\ ~found /\ Upstream
              /\ Suspend(c, IF all THEN "get-all" ELSE "get", t, None, None)
              /\ UNCHANGED told
    /\ UNCHANGED <<tables, up, queue, worker>>

\* Without a unihash upstream, d.items() of None raises an AttributeError,
\* which closes the connection.
ResumeGet(c) ==
    /\ Resumes(c, "get") /\ Finish(c)
    /\ LET t == conn[c].taskhash IN
       IF up.uni[t] = None THEN UNCHANGED <<tables, told>>
       ELSE Commit(InsertUnihash(db, t, up.uni[t])) /\ Relay(t, up.uni[t])
    /\ UNCHANGED <<up, queue, worker>>

\* update_unified(): row comes with the time it was created upstream.
Unified(row, place) ==
    InsertOuthash(InsertUnihash(db, row[1], up.uni[row[1]]), row, place)

\* The upstream server's answer to "get" with "all", or to "get-outhash", is
\* copied, and is the answer.
CopyRow(c, row) ==
    /\ Finish(c)
    /\ IF row = None THEN Commit(db) /\ UNCHANGED told
       ELSE /\ \E place \in 1..Newest(db) : Commit(Unified(row, place))
            /\ Relay(row[1], up.uni[row[1]])
    /\ UNCHANGED <<up, queue, worker>>

ResumeGetAll(c) ==
    /\ Resumes(c, "get-all")
    /\ CopyRow(c, Oldest(up, {conn[c].taskhash} \X Outhash))

GetOuthash(c, o) ==
    /\ conn[c] = Idle
    /\ LET row == Oldest(db, Taskhash \X {o})
       IN  \/ row # None /\ Answer(row[1], db.uni[row[1]]) /\ UNCHANGED conn
           \/ /\ row = None /\ Upstream
              /\ Suspend(c, "get-outhash", None, o, None) /\ UNCHANGED told
    /\ UNCHANGED <<tables, up, queue, worker>>

ResumeGetOuthash(c) ==
    /\ Resumes(c, "get-outhash")
    /\ CopyRow(c, Oldest(up, Taskhash \X {conn[c].outhash}))

-----------------------------------------------------------------------------
(* report, report-equiv.                                                   *)

\* Mutant: the answer is sent before the commit.
ConcludeUncommitted(c, d, t, u) ==
    IF d.uni[t] = None /\ Upstream
    THEN /\ db' = d /\ Suspend(c, "report-get", t, None, u)
         /\ UNCHANGED <<durable, told>>
    ELSE /\ db' = d /\ UNCHANGED durable /\ Finish(c)
         /\ IF d.uni[t] = None THEN Relay(t, u) ELSE Answer(t, d.uni[t])

\* The end of handle_report(), on tables d: the answer is what get_unihash()
\* finds, upstream if need be.
Conclude(c, d, t, u) ==
    IF d.uni[t] = None /\ Upstream
    THEN /\ db' = d /\ Suspend(c, "report-get", t, None, u)
         /\ UNCHANGED <<durable, told>>
    ELSE /\ Commit(d) /\ Finish(c)
         /\ IF d.uni[t] = None THEN Relay(t, u) ELSE Answer(t, d.uni[t])

Report(c, t, o, u) ==
    /\ conn[c] = Idle
    /\ LET d   == InsertOuthash(db, <<t, o>>, Newest(db))
           uni == Match(d, t, o)
       IN  \/ /\ Inserted(d # db) /\ uni # None
              /\ Conclude(c, InsertUnihash(d, t, uni), t, u)
           \/ /\ Inserted(d # db) /\ uni = None /\ ~Upstream
              /\ Conclude(c, InsertUnihash(d, t, u), t, u)
           \/ /\ Inserted(d # db) /\ uni = None /\ Upstream
              /\ db' = d /\ Suspend(c, "report", t, o, u)
              /\ UNCHANGED <<durable, told>>
           \/ /\ ~Inserted(d # db)
              /\ Conclude(c, d, t, u)
    /\ UNCHANGED <<up, queue, worker>>

\* Mutant: what the upstream server knows is not used.
ResumeReportAlone(c) ==
    /\ Resumes(c, "report")
    /\ LET r == conn[c]
       IN  Conclude(c, InsertUnihash(db, r.taskhash, r.unihash), r.taskhash, r.unihash)
    /\ UNCHANGED <<up, queue, worker>>

ResumeReport(c) ==
    /\ Resumes(c, "report")
    /\ LET r   == conn[c]
           row == Oldest(up, Taskhash \X {r.outhash})
           uni == IF row = None THEN r.unihash ELSE up.uni[row[1]]
       IN  Conclude(c, InsertUnihash(db, r.taskhash, uni), r.taskhash, r.unihash)
    /\ UNCHANGED <<up, queue, worker>>

\* As in ResumeGet, nothing upstream is an error.
ResumeReportGet(c) ==
    /\ Resumes(c, "report-get") /\ Finish(c)
    /\ LET t == conn[c].taskhash IN
       IF up.uni[t] = None THEN UNCHANGED <<tables, told>>
       ELSE Commit(InsertUnihash(db, t, up.uni[t])) /\ Relay(t, up.uni[t])
    /\ UNCHANGED <<up, queue, worker>>

EquivReport(c, t, u) ==
    /\ conn[c] = Idle
    /\ LET d == InsertUnihash(db, t, u) IN Commit(d) /\ Answer(t, d.uni[t])
    /\ UNCHANGED <<up, conn, queue, worker>>

-----------------------------------------------------------------------------
(* The backfill worker, and the requests that wait for it.                 *)

Unfinished == queue # <<>> \/ worker # WorkerIdle

BackfillWait(c) ==
    /\ conn[c] = Idle /\ Unfinished
    /\ Suspend(c, "backfill-wait", None, None, None)
    /\ UNCHANGED <<tables, up, queue, worker, told>>

BackfillTake ==
    /\ worker = WorkerIdle /\ queue # <<>>
    /\ worker' = [state |-> "busy", taskhash |-> Head(queue)]
    /\ queue' = Tail(queue)
    /\ UNCHANGED <<tables, up, conn, told>>

\* Mutant: the last task_done() lets one join() return.
WakeOne ==
    LET waiting == {c \in Client : Resumes(c, "backfill-wait")}
    IN  conn' = IF queue # <<>> \/ waiting = {} THEN conn
                ELSE [conn EXCEPT ![CHOOSE c \in waiting : TRUE] = Idle]

\* The last task_done() lets every join() return.
Wake ==
    conn' = IF queue # <<>> THEN conn
            ELSE [c \in Client |-> IF Resumes(c, "backfill-wait") THEN Idle ELSE conn[c]]

\* copy_unihash_from_upstream()
BackfillCopy ==
    /\ worker.state = "busy"
    /\ LET t == worker.taskhash IN
       IF up.uni[t] = None THEN UNCHANGED tables
       ELSE Commit(InsertUnihash(db, t, up.uni[t]))
    /\ worker' = WorkerIdle
    /\ Wake
    /\ UNCHANGED <<up, queue, told>>

-----------------------------------------------------------------------------
(* The rest of the world.                                                  *)

\* A client of the upstream server reports to it.
UpstreamReport(t, o) ==
    /\ Upstream
    /\ up' = Reported(up, t, o, t)
    /\ UNCHANGED <<tables, conn, queue, worker, told>>

AwaitsUpstream(c) == conn[c].op \notin {"idle", "backfill-wait"}

\* The exception ends the handler and the connection, but rolls back nothing.
UpstreamFails(c) ==
    /\ UpstreamMayFail /\ AwaitsUpstream(c)
    /\ Finish(c)
    /\ UNCHANGED <<tables, up, queue, worker, told>>

\* The exception ends the worker; its task is never done.
WorkerDies ==
    /\ UpstreamMayFail /\ worker.state = "busy"
    /\ worker' = [worker EXCEPT !.state = "dead"]
    /\ UNCHANGED <<tables, up, conn, queue, told>>

Crash ==
    /\ MayCrash
    /\ db' = durable
    /\ conn' = [c \in Client |-> Idle]
    /\ queue' = <<>> /\ worker' = WorkerIdle
    /\ UNCHANGED <<durable, up, told>>

Request(c) ==
    \/ "get-stream" \in Requests /\ \E t \in Taskhash : GetStream(c, t)
    \/ \E t \in Taskhash, all \in BOOLEAN :
          (IF all THEN "get-all" ELSE "get") \in Requests /\ Get(c, t, all)
    \/ "get-outhash" \in Requests /\ \E o \in Outhash : GetOuthash(c, o)
    \/ /\ "report" \in Requests
       /\ \E p \in Output : \E u \in Held(p[1]) : Report(c, p[1], p[2], u)
    \/ /\ "report-equiv" \in Requests
       /\ \E p \in Equivalences : EquivReport(c, p[1], p[2])
    \/ "backfill-wait" \in Requests /\ BackfillWait(c)

Resume(c) ==
    \/ ResumeStream(c) \/ ResumeGet(c) \/ ResumeGetAll(c) \/ ResumeGetOuthash(c)
    \/ ResumeReport(c) \/ ResumeReportGet(c)

Backfill == BackfillTake \/ BackfillCopy

Next ==
    \/ \E c \in Client : Request(c) \/ Resume(c) \/ UpstreamFails(c)
    \/ Backfill \/ WorkerDies
    \/ \E p \in UpstreamOutput : UpstreamReport(p[1], p[2])
    \/ Crash

\* The loop runs what is ready, and the upstream server answers or fails.
Spec ==
    /\ Init /\ [][Next]_vars
    /\ \A c \in Client : WF_vars(Resume(c))
    /\ WF_vars(Backfill)

=============================================================================
