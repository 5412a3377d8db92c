------------------------------- MODULE PRServ -------------------------------
(***************************************************************************)
(* PR servers on one database file, and their clients.                     *)
(*                                                                         *)
(* A server handles one message at a time. It writes the answer before it  *)
(* commits (sync_if_dirty() comes after the handler), and after a commit   *)
(* it begins an exclusive transaction, which it keeps: no other process    *)
(* reads or writes the database until it ends. A process that waits for    *)
(* the lock gives up after 20 seconds, a client that waits for an answer   *)
(* after 30; it connects again and sends its request again.                *)
(*                                                                         *)
(* stage is where a server is: down, in its event loop, between the SELECT *)
(* and the INSERT of a get-pr, or in sync(), before the commit or between  *)
(* it and the next transaction.                                            *)
(***************************************************************************)
EXTENDS PRTable

CONSTANTS
    Server,         \* the processes that serve the database
    Client,
    NoServer, NoClient, NoRequest,
    Imported,       \* the rows clients ask to import
    MayCrash        \* the servers may crash

\* A row, or without a value the request for one.
Rows == [package : Package, checksum : Checksum, value : Value]
Gets == [package : Package, checksum : Checksum, value : {None}]

ASSUME ServerAssumption ==
    NoServer \notin Server /\ NoClient \notin Client

ASSUME RequestAssumption == Imported \subseteq Rows /\ NoRequest \notin Gets \cup Rows

ASSUME FaultAssumption == MayCrash \in BOOLEAN

Requests == Gets \cup Imported

VARIABLES
    rows,       \* the committed table
    work,       \* the table in the open transaction
    lock,       \* the server that has the exclusive transaction
    stage, dirty,
    readonly,   \* the servers that were started so as not to write
    current,    \* what each server is about to insert, and for whom
    conn,       \* what each client waits for
    given,      \* the rows that were told to clients,
    unsaved,    \* of these, for each server, the one it has not committed
    latest      \* the value of a package that was told last

server == <<stage, dirty, readonly, current>>
table  == <<rows, work, lock>>
books  == <<given, unsaved, latest>>
vars   == <<server, table, conn, books>>

Idle == [server |-> NoServer, request |-> NoRequest]

Nothing == [client |-> NoClient, request |-> NoRequest]

Init ==
    /\ rows = EmptyTable /\ work = EmptyTable /\ lock = NoServer
    /\ stage = [s \in Server |-> "down"] /\ dirty = [s \in Server |-> FALSE]
    /\ readonly = {}
    /\ current = [s \in Server |-> Nothing]
    /\ conn = [k \in Client |-> Idle]
    /\ given = {} /\ unsaved = [s \in Server |-> {}]
    /\ latest = [p \in Package |-> None]

-----------------------------------------------------------------------------
(* Clients.                                                                *)

Ask(k, s, r) ==
    /\ conn[k] = Idle
    /\ conn' = [conn EXCEPT ![k] = [server |-> s, request |-> r]]
    /\ UNCHANGED <<server, table, books>>

Waiting(k, s) == conn[k].server = s

\* _send_wrapper(): connect again and send the request again, or give up. How
\* often it tries is left out: the builds on a server are many.
Again(k) ==
    \/ UNCHANGED conn
    \/ k \in Client /\ conn' = [conn EXCEPT ![k] = Idle]

\* Nobody listens.
Refused(k, s) ==
    /\ Waiting(k, s) /\ stage[s] = "down"
    /\ Again(k)
    /\ UNCHANGED <<server, table, books>>

\* The request it has sent stays with the server, which will handle it.
TimesOut(k, s) ==
    /\ Waiting(k, s) /\ stage[s] # "down"
    /\ Again(k)
    /\ IF current[s].client = k
       THEN current' = [current EXCEPT ![s].client = NoClient]
       ELSE UNCHANGED current
    /\ UNCHANGED <<stage, dirty, readonly, table, books>>

-----------------------------------------------------------------------------
(* A server.                                                               *)

\* The rows as server s sees them, and whether it can see them.
View(s) == IF lock = s THEN work ELSE rows
Unlocked(s) == lock \in {s, NoServer}

\* The server has read request r, of a client that waits, or of a connection
\* that was closed since: what clients have sent in vain may be anything.
From(s, k, r) == k \in Client => Waiting(k, s) /\ conn[k].request = r

Row(r, v) == [package |-> r.package, checksum |-> r.checksum, value |-> v]

\* write_message(), to a client that may still be there.
Answer(k) == conn' = IF k = NoClient THEN conn ELSE [conn EXCEPT ![k] = Idle]

\* The answer is a value. What a server makes up that may not write is not kept.
Tell(s, k, r, v) ==
    /\ Answer(k)
    /\ IF k = NoClient \/ s \in readonly THEN UNCHANGED <<given, latest>>
       ELSE /\ given' = given \cup {Row(r, v)}
            /\ latest' = [latest EXCEPT ![r.package] = v]

\* The handler of a message is done: dispatch_message() syncs what is dirty.
Handled(s) == stage' = [stage EXCEPT ![s] = IF dirty'[s] THEN "commit" ELSE "loop"]

\* The row is there; a server that may not write makes up what it would be.
GetPR(s, k, r) ==
    /\ stage[s] = "loop" /\ From(s, k, r) /\ r \in Gets /\ Unlocked(s)
    /\ s \in readonly \/ Holds(View(s), r.package, r.checksum)
    /\ Tell(s, k, r, ValueOf(View(s), r.package, r.checksum))
    /\ UNCHANGED <<dirty, readonly>> /\ Handled(s)
    /\ UNCHANGED <<current, table, unsaved>>

\* No row: it has to be inserted.
GetNewPR(s, k, r) ==
    /\ stage[s] = "loop" /\ From(s, k, r) /\ r \in Gets /\ Unlocked(s)
    /\ s \notin readonly /\ ~Holds(View(s), r.package, r.checksum)
    /\ stage' = [stage EXCEPT ![s] = "insert"]
    /\ current' = [current EXCEPT ![s] = [client |-> k, request |-> r]]
    /\ UNCHANGED <<dirty, readonly, table, conn, books>>

\* The first statement that writes begins an exclusive transaction.
Write(s, t) == work' = t /\ lock' = s /\ UNCHANGED rows

\* Mutant: the table is not marked as dirty.
InsertNewClean(s) ==
    LET k == current[s].client
        r == current[s].request
        t == Insert(View(s), r.package, r.checksum)
        v == t[r.package][r.checksum]
    IN  /\ stage[s] = "insert" /\ Unlocked(s) /\ v \in Value
        /\ Write(s, t)
        /\ stage' = [stage EXCEPT ![s] = "loop"]
        /\ Tell(s, k, r, v)
        /\ unsaved' = [unsaved EXCEPT ![s] = IF k = NoClient THEN {} ELSE {Row(r, v)}]
        /\ current' = [current EXCEPT ![s] = Nothing]
        /\ UNCHANGED <<dirty, readonly>>

\* Bounded: there are no values above MaxValue.
InsertNew(s) ==
    LET k == current[s].client
        r == current[s].request
        t == Insert(View(s), r.package, r.checksum)
        v == t[r.package][r.checksum]
    IN  /\ stage[s] = "insert" /\ Unlocked(s) /\ v \in Value
        /\ Write(s, t)
        /\ dirty' = [dirty EXCEPT ![s] = TRUE] /\ Handled(s)
        /\ Tell(s, k, r, v)
        /\ unsaved' = [unsaved EXCEPT ![s] = IF k = NoClient THEN {} ELSE {Row(r, v)}]
        /\ current' = [current EXCEPT ![s] = Nothing]
        /\ UNCHANGED readonly

\* importone(). The answer, the value or nothing, is only reported.
ImportOne(s, k, r) ==
    /\ stage[s] = "loop" /\ From(s, k, r) /\ r \in Imported /\ Unlocked(s)
    /\ s \notin readonly
    /\ Write(s, Import(View(s), r.package, r.checksum, r.value))
    /\ dirty' = [dirty EXCEPT ![s] = TRUE] /\ Handled(s)
    /\ Answer(k)
    /\ UNCHANGED <<readonly, current, books>>

\* Another server has the database: "database is locked" is an empty answer to
\* a get-pr. A server that may not write answers an import-one like this, too.
LockedGet(s, k, r) ==
    /\ \/ stage[s] = "loop" /\ From(s, k, r) /\ r \in Gets
       \/ stage[s] = "insert" /\ current[s] = [client |-> k, request |-> r]
    /\ ~Unlocked(s)
    /\ Answer(k)
    /\ current' = [current EXCEPT ![s] = Nothing]
    /\ UNCHANGED <<dirty, readonly>> /\ Handled(s)
    /\ UNCHANGED <<table, books>>

NotImported(s, k, r) ==
    /\ stage[s] = "loop" /\ From(s, k, r) /\ r \in Imported /\ s \in readonly
    /\ Answer(k)
    /\ UNCHANGED <<server, table, books>>

\* In import-one nobody catches it: sync(), and the connection is closed.
LockedImport(s, k, r) ==
    /\ stage[s] = "loop" /\ From(s, k, r) /\ r \in Imported /\ ~Unlocked(s)
    /\ s \notin readonly
    /\ Again(k)
    /\ stage' = [stage EXCEPT ![s] = "commit"]
    /\ UNCHANGED <<dirty, readonly, current, table, books>>

\* sync(): the commit, which lets go of the database,
Commit(s) ==
    /\ stage[s] = "commit"
    /\ IF lock = s THEN rows' = work /\ lock' = NoServer ELSE UNCHANGED <<rows, lock>>
    /\ unsaved' = [unsaved EXCEPT ![s] = {}]
    /\ stage' = [stage EXCEPT ![s] = "begin"]
    /\ UNCHANGED <<work, dirty, readonly, current, conn, given, latest>>

\* and the next transaction,
Begin(s) ==
    /\ stage[s] = "begin" /\ lock = NoServer
    /\ lock' = s /\ work' = rows
    /\ dirty' = [dirty EXCEPT ![s] = FALSE]
    /\ stage' = [stage EXCEPT ![s] = "loop"]
    /\ UNCHANGED <<rows, readonly, current, conn, books>>

\* unless another server was faster. The table stays dirty.
BeginFails(s) ==
    /\ stage[s] = "begin" /\ lock # NoServer
    /\ stage' = [stage EXCEPT ![s] = "loop"]
    /\ UNCHANGED <<dirty, readonly, current, table, conn, books>>

-----------------------------------------------------------------------------
(* The process of a server.                                                *)

\* Opening the database reads it.
Start(s) ==
    /\ stage[s] = "down" /\ lock = NoServer
    /\ stage' = [stage EXCEPT ![s] = "loop"]
    /\ dirty' = [dirty EXCEPT ![s] = FALSE]
    /\ readonly' \in {readonly, readonly \cup {s}}
    /\ UNCHANGED <<current, table, conn, books>>

\* The process ends: its lock goes, and its connections are closed.
Down(s) ==
    /\ stage' = [stage EXCEPT ![s] = "down"]
    /\ current' = [current EXCEPT ![s] = Nothing]
    /\ readonly' = readonly \ {s}
    /\ lock' = IF lock = s THEN NoServer ELSE lock
    /\ UNCHANGED <<dirty, conn>>

\* SIGTERM, between two messages: sync(), then the loop stops.
Stop(s) ==
    /\ stage[s] = "loop" /\ Down(s)
    /\ rows' = IF lock = s THEN work ELSE rows
    /\ UNCHANGED <<work, books>>

\* The open transaction is lost, and the value it has made. If it was told to
\* a client, nobody knows any more.
Crash(s) ==
    /\ MayCrash /\ stage[s] # "down" /\ Down(s)
    /\ given' = given \ unsaved[s]
    /\ unsaved' = [unsaved EXCEPT ![s] = {}]
    /\ work' = IF lock = s THEN rows ELSE work
    /\ UNCHANGED <<rows, latest>>

-----------------------------------------------------------------------------
Message(s, k, r) ==
    \/ GetPR(s, k, r) \/ GetNewPR(s, k, r) \/ ImportOne(s, k, r)
    \/ LockedGet(s, k, r) \/ NotImported(s, k, r) \/ LockedImport(s, k, r)

Serve(s) ==
    \/ \E k \in Client \cup {NoClient}, r \in Requests : Message(s, k, r)
    \/ InsertNew(s) \/ Commit(s) \/ Begin(s) \/ BeginFails(s)

Next ==
    \/ \E k \in Client, s \in Server :
        (\E r \in Requests : Ask(k, s, r)) \/ Refused(k, s) \/ TimesOut(k, s)
    \/ \E s \in Server : Serve(s) \/ Start(s) \/ Stop(s) \/ Crash(s)

Spec == Init /\ [][Next]_vars
=============================================================================
