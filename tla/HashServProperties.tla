------------------------- MODULE HashServProperties -------------------------
(***************************************************************************)
(* What builds may rely on when they share a hash equivalence server:      *)
(* properties of HashServ.                                                 *)
(***************************************************************************)
EXTENDS HashServ

Ops == {"idle", "get-stream", "get", "get-all", "get-outhash", "report",
        "report-get", "backfill-wait"}

TypeOK ==
    /\ db \in Databases /\ durable \in Databases /\ up \in Databases \cup {None}
    /\ conn \in [Client -> [op : Ops, taskhash : Taskhash \cup {None},
                            outhash : Outhash \cup {None},
                            unihash : Taskhash \cup {None}]]
    /\ queue \in Seq(Taskhash)
    /\ worker \in [state : {"idle", "busy", "dead"}, taskhash : Taskhash \cup {None}]
    /\ answers \subseteq Taskhash \X Taskhash
    /\ relayed \subseteq Taskhash \X Taskhash

-----------------------------------------------------------------------------
\* HashServ implements UnihashMap: whatever runs between two steps of a
\* handler, and wherever the server is killed, a unihash that was stored or
\* told from the table is never changed or lost.
Map == INSTANCE UnihashMap WITH unihash <- durable.uni

ImplementsUnihashMap == Map!Spec

RowsOf(d) == {d.out[i] : i \in DOMAIN d.out}

\* "a second reported task with the same outhash will be assigned the same
\* unihash": of tasks that always make the same output, reported in any order,
\* those with equal outputs have equal unihashes.
EquivalentTasksAgree ==
    \A r, s \in RowsOf(db) :
        r[2] = s[2] /\ db.uni[r[1]] # None /\ db.uni[s[1]] # None
            => db.uni[r[1]] = db.uni[s[1]]

\* The same where there is no upstream server to wait for.
AgreeWithoutUpstream == ~Upstream => EquivalentTasksAgree

\* "Query upstream to see if it has a unihash we can use": a task whose output
\* the upstream server has known since before this server started is known
\* here as it is there, whether it was reported, looked up or backfilled.
UpstreamPreferred ==
    Upstream => \A r \in RowsOf(db) :
        LET row == Oldest(up, Taskhash \X {r[2]})
        IN  row # None /\ db.uni[r[1]] # None => db.uni[r[1]] = up.uni[row[1]]

\* "After waiting for the downstream client to finish backfilling", what a
\* client was told from upstream is what the table holds.
BackfilledAsTold ==
    ~Unfinished => \A p \in relayed : db.uni[p[1]] = p[2]

\* A report is not lost: while its handler was suspended, others may report the
\* same and the table change, but the handler ends with a unihash stored.
ReportsAreStored ==
    [][\A c \in Client :
         conn[c].op \in {"report", "report-get"} /\ conn'[c] = Idle /\ ~Crash
            => durable'.uni[conn[c].taskhash] # None]_vars

\* Every request is answered, a backfill-wait too: the queue cannot be fed for
\* ever, since what was copied is found in the table.
RequestsEnd == \A c \in Client : conn[c] # Idle ~> conn[c] = Idle

=============================================================================
