--------------------------- MODULE HashServProofs ---------------------------
(***************************************************************************)
(* Proofs about HashServ, for any number of clients and hashes, any        *)
(* contents of the upstream server, and any failures.                      *)
(***************************************************************************)
EXTENDS HashServProperties, TLAPS, WellFoundedInduction

-----------------------------------------------------------------------------
(* The tables.                                                             *)

\* The row Oldest() picks is one it was asked for, and has a unihash.
LEMMA OldestRow ==
    ASSUME NEW d \in Databases, NEW rows, Oldest(d, rows) # None
    PROVE  Oldest(d, rows) \in rows /\ d.uni[Oldest(d, rows)[1]] # None
<1> DEFINE joined == {i \in DOMAIN d.out :
                        d.out[i] \in rows /\ d.uni[d.out[i][1]] # None}
           first  == {i \in joined : \A j \in joined : i <= j}
           i      == CHOOSE i \in first : TRUE
<1>1. Oldest(d, rows) = IF first = {} THEN None ELSE d.out[i]
  BY DEF Oldest
<1>2. first # {}
  BY <1>1
<1>3. i \in joined
  BY <1>2
<1> QED
  BY <1>1, <1>2, <1>3

\* Inserting a unihash keeps the type, and never replaces one.
LEMMA InsertUnihashKeeps ==
    ASSUME NEW d \in Databases, NEW t \in Taskhash, NEW u \in Taskhash
    PROVE  /\ InsertUnihash(d, t, u) \in Databases
           /\ InsertUnihash(d, t, u).out = d.out
           /\ IF d.uni[t] = None
              THEN InsertUnihash(d, t, u).uni = [d.uni EXCEPT ![t] = u]
              ELSE InsertUnihash(d, t, u).uni = d.uni
           /\ InsertUnihash(d, t, u).uni[t] # None
  BY NoneAssumption DEF InsertUnihash, Databases

LEMMA InsertOuthashKeeps ==
    ASSUME NEW d \in Databases, NEW row \in Rows,
           NEW place \in 1..Len(d.out) + 1
    PROVE  /\ InsertOuthash(d, row, place) \in Databases
           /\ InsertOuthash(d, row, place).uni = d.uni
<1>1. d.out \in Seq(Rows)
  BY DEF Databases
<1>2. InsertAt(d.out, place, row) \in Seq(Rows)
  <2>1. SubSeq(d.out, 1, place - 1) \in Seq(Rows)
    BY <1>1
  <2>2. SubSeq(d.out, place, Len(d.out)) \in Seq(Rows)
    BY <1>1
  <2>3. <<row>> \in Seq(Rows)
    OBVIOUS
  <2> QED
    BY <2>1, <2>2, <2>3 DEF InsertAt
<1> QED
  BY <1>1, <1>2 DEF InsertOuthash, Databases

LEMMA MatchType ==
    ASSUME NEW d \in Databases, NEW t \in Taskhash, NEW o \in Outhash,
           Match(d, t, o) # None
    PROVE  Match(d, t, o) \in Taskhash
<1> DEFINE row == Oldest(d, (Taskhash \ {t}) \X {o})
<1>1. row # None
  BY DEF Match
<1>2. row[1] \in Taskhash /\ d.uni[row[1]] # None
  BY <1>1, OldestRow
<1> QED
  BY <1>1, <1>2 DEF Match, Databases

LEMMA ReportedKeeps ==
    ASSUME NEW d \in Databases, NEW t \in Taskhash, NEW o \in Outhash,
           NEW u \in Taskhash
    PROVE  Reported(d, t, o, u) \in Databases
<1> DEFINE e == InsertOuthash(d, <<t, o>>, Newest(d))
<1>1. Newest(d) \in 1..Len(d.out) + 1
  BY DEF Newest, Databases
<1>2. e \in Databases
  BY <1>1, InsertOuthashKeeps DEF Rows
<1>3. (IF Match(e, t, o) = None THEN u ELSE Match(e, t, o)) \in Taskhash
  BY <1>2, MatchType
<1> HIDE DEF e
<1> QED
  BY <1>2, <1>3, InsertUnihashKeeps DEF Reported, e

-----------------------------------------------------------------------------
(***************************************************************************)
(* The invariant: the types, what a suspended request and the worker hold, *)
(* and that no unihash is ever left uncommitted between two steps. Only     *)
(* where there is an upstream server does anything wait for one.           *)
(***************************************************************************)
RequestsHold ==
    \A c \in Client :
        /\ conn[c].op \in {"get-stream", "get", "get-all", "report", "report-get"}
              => conn[c].taskhash \in Taskhash
        /\ conn[c].op \in {"report", "report-get"} => conn[c].unihash \in Taskhash
        /\ conn[c].op \in {"report", "get-outhash"} => conn[c].outhash \in Outhash
        /\ AwaitsUpstream(c) => Upstream

WorkerHolds ==
    /\ worker.state = "busy" => worker.taskhash \in Taskhash /\ Upstream
    /\ queue # <<>> => Upstream

Committed == db.uni = durable.uni

Inv == TypeOK /\ RequestsHold /\ WorkerHolds /\ Committed

LEMMA InitInv == Init => Inv
<1> SUFFICES ASSUME Init PROVE Inv
  OBVIOUS
<1>1. Empty \in Databases
  BY DEF Empty, Databases
<1>2. Idle \in [op : Ops, taskhash : Taskhash \cup {None},
               outhash : Outhash \cup {None}, unihash : Taskhash \cup {None}]
  BY DEF Idle, Ops
<1> QED
  BY <1>1, <1>2, UpstreamAssumption
     DEF Init, Inv, TypeOK, RequestsHold, WorkerHolds, Committed, Idle, WorkerIdle,
         AwaitsUpstream

\* What a step of one connection c may do to the tables and to what was told.
GoodTables ==
    /\ db' \in Databases /\ durable' \in Databases /\ db'.uni = durable'.uni

GoodTold ==
    /\ answers' \subseteq Taskhash \X Taskhash
    /\ relayed' \subseteq Taskhash \X Taskhash

GoodConn == conn' \in [Client -> [op : Ops, taskhash : Taskhash \cup {None},
                                 outhash : Outhash \cup {None},
                                 unihash : Taskhash \cup {None}]] /\ RequestsHold'

LEMMA FinishGood ==
    ASSUME Inv, NEW c \in Client, Finish(c), UNCHANGED up
    PROVE  GoodConn
  BY DEF Inv, TypeOK, RequestsHold, Finish, Idle, Ops, GoodConn, AwaitsUpstream,
         Upstream

LEMMA SuspendGood ==
    ASSUME Inv, NEW c \in Client, NEW op \in Ops,
           NEW t \in Taskhash \cup {None}, NEW o \in Outhash \cup {None},
           NEW u \in Taskhash \cup {None}, Suspend(c, op, t, o, u),
           op \in {"get-stream", "get", "get-all", "report", "report-get"}
              => t \in Taskhash,
           op \in {"report", "report-get"} => u \in Taskhash,
           op \in {"report", "get-outhash"} => o \in Outhash,
           op = "backfill-wait" \/ Upstream, UNCHANGED up
    PROVE  GoodConn
  BY DEF Inv, TypeOK, RequestsHold, Suspend, GoodConn, AwaitsUpstream, Upstream

LEMMA UnchangedGood ==
    /\ Inv /\ UNCHANGED tables => GoodTables
    /\ Inv /\ UNCHANGED told => GoodTold
    /\ Inv /\ UNCHANGED <<conn, up>> => GoodConn
  BY DEF Inv, TypeOK, RequestsHold, Committed, tables, told,
         GoodTables, GoodTold, GoodConn, AwaitsUpstream, Upstream

LEMMA CommitGood ==
    ASSUME NEW d \in Databases, Commit(d)
    PROVE  GoodTables
  BY DEF Commit, GoodTables

LEMMA ToldGood ==
    ASSUME Inv, NEW t \in Taskhash, NEW u \in Taskhash, Answer(t, u) \/ Relay(t, u)
    PROVE  GoodTold
  BY DEF Inv, TypeOK, Answer, Relay, GoodTold

\* Values read from a table.
LEMMA Given ==
    ASSUME NEW d \in Databases, NEW t \in Taskhash, d.uni[t] # None
    PROVE  d.uni[t] \in Taskhash
  BY DEF Databases

LEMMA ConcludeGood ==
    ASSUME Inv, NEW c \in Client, NEW d \in Databases, NEW t \in Taskhash,
           NEW u \in Taskhash, d.uni[t] = None => d.uni = durable.uni,
           Conclude(c, d, t, u), UNCHANGED up
    PROVE  GoodTables /\ GoodTold /\ GoodConn
<1>1. CASE d.uni[t] = None /\ Upstream
  <2>1. GoodTables
    BY <1>1 DEF Conclude, GoodTables, Inv, TypeOK
  <2>2. GoodTold
    BY <1>1, UnchangedGood DEF Conclude, told
  <2>3. GoodConn
    BY <1>1, SuspendGood DEF Conclude, Ops
  <2> QED
    BY <2>1, <2>2, <2>3
<1>2. CASE ~(d.uni[t] = None /\ Upstream)
  <2>1. Commit(d) /\ Finish(c)
    BY <1>2 DEF Conclude
  <2>2. GoodTold
    BY <1>2, Given, ToldGood DEF Conclude
  <2> QED
    BY <2>1, <2>2, CommitGood, FinishGood
<1> QED
  BY <1>1, <1>2

-----------------------------------------------------------------------------
(* Every step keeps the invariant and is one of UnihashMap, or stutters.   *)

MapStep == [Map!Next]_(Map!vars)

LEMMA MapStutters == UNCHANGED <<durable, answers>> => MapStep
  BY DEF MapStep, Map!vars

\* A unihash read from the table is told.
LEMMA MapTells ==
    ASSUME Inv, NEW t \in Taskhash, db.uni[t] # None, UNCHANGED durable,
           answers' = answers \cup {<<t, db.uni[t]>>}
    PROVE  MapStep
<1>1. Map!Tell(t)
  BY DEF Inv, Committed, Map!Tell, Map!Given
<1> QED
  BY <1>1 DEF MapStep, Map!Next

\* A unihash is inserted if there is none, committed, and told or not.
LEMMA MapCommits ==
    ASSUME Inv, NEW d \in Databases, NEW t \in Taskhash, NEW u \in Taskhash,
           d.uni = durable.uni, durable'.uni = InsertUnihash(d, t, u).uni,
           answers' \in {answers,
                         answers \cup {<<t, InsertUnihash(d, t, u).uni[t]>>}}
    PROVE  MapStep
<1>1. CASE d.uni[t] = None
  <2>1. durable'.uni = [durable.uni EXCEPT ![t] = u] /\ durable'.uni[t] = u
    BY <1>1, InsertUnihashKeeps DEF Databases
  <2>2. Map!Give(t, u)
    BY <1>1, <2>1 DEF Map!Give, Map!Given
  <2> QED
    BY <2>2 DEF MapStep, Map!Next
<1>2. CASE d.uni[t] # None
  <2>1. durable'.uni = durable.uni
    BY <1>2, InsertUnihashKeeps
  <2>2. CASE answers' = answers
    BY <2>1, <2>2 DEF MapStep, Map!vars
  <2>3. CASE answers' # answers
    <3>1. Map!Tell(t)
      BY <1>2, <2>1, <2>3 DEF Map!Tell, Map!Given
    <3> QED
      BY <3>1 DEF MapStep, Map!Next
  <2> QED
    BY <2>2, <2>3
<1> QED
  BY <1>1, <1>2

GoodOthers ==
    /\ up' \in Databases \cup {None} /\ queue' \in Seq(Taskhash)
    /\ worker' \in [state : {"idle", "busy", "dead"}, taskhash : Taskhash \cup {None}]
    /\ WorkerHolds'

Good == GoodTables /\ GoodTold /\ GoodConn /\ GoodOthers /\ MapStep

LEMMA OthersGood == Inv /\ UNCHANGED <<up, queue, worker>> => GoodOthers
  BY DEF Inv, TypeOK, WorkerHolds, GoodOthers, Upstream

LEMMA GoodIsInv == Good => Inv'
  BY DEF Good, GoodTables, GoodTold, GoodConn, GoodOthers, Inv, TypeOK, Committed

\* An answer from the table; nothing else changes.
LEMMA AnswerGood ==
    ASSUME Inv, NEW t \in Taskhash, db.uni[t] # None, Answer(t, db.uni[t]),
           UNCHANGED <<tables, up, conn, queue, worker>>
    PROVE  Good
<1>1. db.uni[t] \in Taskhash
  BY Given DEF Inv, TypeOK
<1>2. GoodTables /\ GoodConn /\ GoodOthers
  BY UnchangedGood, OthersGood
<1>3. GoodTold
  BY <1>1, ToldGood
<1>4. MapStep
  BY MapTells DEF Answer, tables
<1> QED
  BY <1>2, <1>3, <1>4 DEF Good

\* A read request that is suspended; nothing else changes.
LEMMA WaitGood ==
    ASSUME Inv, GoodConn, UNCHANGED <<tables, up, queue, worker, told>>
    PROVE  Good
  BY UnchangedGood, OthersGood, MapStutters DEF Good, tables, told

LEMMA GetStreamGood ==
    ASSUME Inv, NEW c \in Client, NEW t \in Taskhash, GetStream(c, t)
    PROVE  Good
<1>1. CASE db.uni[t] # None
  BY <1>1, AnswerGood DEF GetStream
<1>2. CASE db.uni[t] = None
  <2>1. GoodConn
    BY <1>2, SuspendGood DEF GetStream, Ops
  <2> QED
    BY <1>2, <2>1, WaitGood DEF GetStream
<1> QED
  BY <1>1, <1>2

LEMMA GetGood ==
    ASSUME Inv, NEW c \in Client, NEW t \in Taskhash, NEW all \in BOOLEAN,
           Get(c, t, all)
    PROVE  Good
<1> DEFINE found == IF all THEN Oldest(db, {t} \X Outhash) # None
                           ELSE db.uni[t] # None
<1>1. CASE found
  <2>1. db.uni[t] # None
    <3>1. CASE all
      <4>1. Oldest(db, {t} \X Outhash) # None
        BY <1>1, <3>1
      <4> QED
        BY <4>1, OldestRow DEF Inv, TypeOK
    <3>2. CASE ~all
      BY <1>1, <3>2
    <3> QED
      BY <3>1, <3>2
  <2> QED
    BY <1>1, <2>1, AnswerGood DEF Get
<1>2. CASE ~found
  <2>1. GoodConn
    BY <1>2, SuspendGood DEF Get, Ops
  <2> QED
    BY <1>2, <2>1, WaitGood DEF Get
<1> QED
  BY <1>1, <1>2

LEMMA GetOuthashGood ==
    ASSUME Inv, NEW c \in Client, NEW o \in Outhash, GetOuthash(c, o)
    PROVE  Good
<1> DEFINE row == Oldest(db, Taskhash \X {o})
<1>1. CASE row # None
  <2>1. row[1] \in Taskhash /\ db.uni[row[1]] # None
    BY <1>1, OldestRow DEF Inv, TypeOK
  <2> QED
    BY <1>1, <2>1, AnswerGood DEF GetOuthash
<1>2. CASE row = None
  <2>1. GoodConn
    BY <1>2, SuspendGood DEF GetOuthash, Ops
  <2> QED
    BY <1>2, <2>1, WaitGood DEF GetOuthash
<1> QED
  BY <1>1, <1>2

-----------------------------------------------------------------------------
(* The answers of the upstream server.                                     *)

LEMMA UpstreamAsked ==
    ASSUME Inv, NEW c \in Client, AwaitsUpstream(c)
    PROVE  up \in Databases
  BY DEF Inv, TypeOK, RequestsHold, Upstream

LEMMA ResumeStreamGood ==
    ASSUME Inv, NEW c \in Client, ResumeStream(c)
    PROVE  Good
<1> DEFINE t == conn[c].taskhash
<1>0. up \in Databases /\ Upstream
  BY UpstreamAsked DEF Inv, RequestsHold, ResumeStream, Resumes, AwaitsUpstream
<1>1. t \in Taskhash
  BY DEF Inv, RequestsHold, ResumeStream, Resumes
<1>2. GoodTables /\ GoodConn /\ MapStep
  BY UnchangedGood, FinishGood, MapStutters DEF ResumeStream, tables, told, Relay
<1>3. GoodTold
  BY <1>0, <1>1, Given, ToldGood, UnchangedGood DEF ResumeStream
<1>4. queue' \in Seq(Taskhash)
  BY <1>1 DEF ResumeStream, Inv, TypeOK
<1>5. GoodOthers
  BY <1>0, <1>4 DEF ResumeStream, Inv, TypeOK, WorkerHolds, GoodOthers, Upstream
<1> QED
  BY <1>2, <1>3, <1>5 DEF Good

\* A unihash found upstream is inserted, committed and told, or nothing is.
LEMMA CopyUnihashGood ==
    ASSUME Inv, NEW c \in Client, NEW t \in Taskhash, Finish(c),
           up \in Databases, UNCHANGED <<up, queue, worker>>,
           \/ UNCHANGED <<tables, told>>
           \/ /\ up.uni[t] # None
              /\ Commit(InsertUnihash(db, t, up.uni[t])) /\ Relay(t, up.uni[t])
    PROVE  Good
<1>1. GoodConn /\ GoodOthers
  BY FinishGood, OthersGood
<1>2. CASE UNCHANGED <<tables, told>>
  BY <1>1, <1>2, UnchangedGood, MapStutters DEF Good, tables, told
<1>3. CASE /\ up.uni[t] # None
           /\ Commit(InsertUnihash(db, t, up.uni[t])) /\ Relay(t, up.uni[t])
  <2>1. up.uni[t] \in Taskhash
    BY <1>3, Given DEF Inv, TypeOK
  <2>2. GoodTables
    BY <1>3, <2>1, InsertUnihashKeeps, CommitGood DEF Inv, TypeOK
  <2>3. GoodTold
    BY <1>3, <2>1, ToldGood
  <2>4. MapStep
    BY <1>3, <2>1, MapCommits DEF Commit, Relay, Inv, TypeOK, Committed
  <2> QED
    BY <1>1, <2>2, <2>3, <2>4 DEF Good
<1> QED
  BY <1>2, <1>3

LEMMA ResumeGetGood ==
    ASSUME Inv, NEW c \in Client, ResumeGet(c) \/ ResumeReportGet(c)
    PROVE  Good
<1> DEFINE t == conn[c].taskhash
<1>1. t \in Taskhash
  BY DEF Inv, RequestsHold, ResumeGet, ResumeReportGet, Resumes
<1>2. up \in Databases
  BY UpstreamAsked DEF ResumeGet, ResumeReportGet, Resumes, AwaitsUpstream
<1> QED
  BY <1>1, <1>2, CopyUnihashGood DEF ResumeGet, ResumeReportGet

LEMMA CopyRowGood ==
    ASSUME Inv, NEW c \in Client, NEW rows \in SUBSET Rows, up \in Databases,
           CopyRow(c, Oldest(up, rows))
    PROVE  Good
<1> DEFINE row == Oldest(up, rows)
<1>1. GoodConn /\ GoodOthers
  BY FinishGood, OthersGood DEF CopyRow
<1>2. CASE row = None
  <2>1. Commit(db) /\ UNCHANGED told
    BY <1>2 DEF CopyRow
  <2>2. GoodTables /\ GoodTold
    BY <2>1, CommitGood, UnchangedGood DEF Inv, TypeOK
  <2>3. MapStep
    BY <2>1 DEF Commit, Inv, Committed, MapStep, Map!vars, told
  <2> QED
    BY <1>1, <2>2, <2>3 DEF Good
<1>3. CASE row # None
  <2> DEFINE t == row[1]
             u == up.uni[t]
             d == InsertUnihash(db, t, u)
  <2>1. row \in rows /\ u # None
    BY <1>3, OldestRow DEF Inv, TypeOK
  <2>2. row \in Rows /\ t \in Taskhash
    BY <2>1 DEF Rows
  <2>3. u \in Taskhash
    BY <2>1, <2>2, Given DEF Inv, TypeOK
  <2>4. PICK place \in 1..Newest(db) : Commit(Unified(row, place))
    BY <1>3 DEF CopyRow
  <2>5. Relay(t, u)
    BY <1>3 DEF CopyRow
  <2>6. d \in Databases /\ d.out = db.out
    BY <2>2, <2>3, InsertUnihashKeeps DEF Inv, TypeOK
  <2>7. Unified(row, place) = InsertOuthash(d, row, place)
    BY DEF Unified
  <2>8. place \in 1..Len(d.out) + 1
    BY <2>4, <2>6 DEF Newest
  <2> HIDE DEF d
  <2>9. /\ Unified(row, place) \in Databases
        /\ Unified(row, place).uni = d.uni
    BY <2>2, <2>6, <2>7, <2>8, InsertOuthashKeeps
  <2>10. GoodTables
    BY <2>4, <2>9, CommitGood
  <2>11. GoodTold
    BY <2>2, <2>3, <2>5, ToldGood
  <2>12. MapStep
    BY <2>2, <2>3, <2>4, <2>5, <2>9, MapCommits
       DEF Commit, Relay, Inv, TypeOK, Committed, d
  <2> QED
    BY <1>1, <2>10, <2>11, <2>12 DEF Good
<1> QED
  BY <1>2, <1>3

LEMMA ResumeRowsGood ==
    ASSUME Inv, NEW c \in Client, ResumeGetAll(c) \/ ResumeGetOuthash(c)
    PROVE  Good
<1>0. up \in Databases
  BY UpstreamAsked DEF ResumeGetAll, ResumeGetOuthash, Resumes, AwaitsUpstream
<1>1. CASE ResumeGetAll(c)
  <2>1. {conn[c].taskhash} \X Outhash \in SUBSET Rows
    BY <1>1 DEF Inv, RequestsHold, ResumeGetAll, Resumes, Rows
  <2> QED
    BY <1>0, <1>1, <2>1, CopyRowGood DEF ResumeGetAll
<1>2. CASE ResumeGetOuthash(c)
  <2>1. Taskhash \X {conn[c].outhash} \in SUBSET Rows
    BY <1>2 DEF Inv, RequestsHold, ResumeGetOuthash, Resumes, Rows
  <2> QED
    BY <1>0, <1>2, <2>1, CopyRowGood DEF ResumeGetOuthash
<1> QED
  BY <1>1, <1>2

-----------------------------------------------------------------------------
(* Reports.                                                                *)

\* handle_report() ends on tables with the same unihashes but for that of the
\* task it is about.
LEMMA ReportEndGood ==
    ASSUME Inv, NEW c \in Client, NEW e \in Databases, e.uni = db.uni,
           NEW t \in Taskhash, NEW u \in Taskhash, NEW v \in Taskhash,
           NEW d, d \in {e, InsertUnihash(e, t, v)}, Conclude(c, d, t, u),
           UNCHANGED <<up, queue, worker>>
    PROVE  Good
<1>1. d \in Databases
  BY InsertUnihashKeeps
<1>2. d.uni[t] = None => d.uni = durable.uni
  <2>1. InsertUnihash(e, t, v).uni[t] # None
    BY InsertUnihashKeeps
  <2> QED
    BY <2>1 DEF Inv, Committed
<1>3. GoodTables /\ GoodTold /\ GoodConn
  BY <1>1, <1>2, ConcludeGood
<1>4. CASE d.uni[t] = None
  <2>1. durable'.uni = durable.uni /\ answers' = answers
    BY <1>2, <1>4 DEF Conclude, Commit, Relay, told
  <2> QED
    BY <1>3, <2>1, OthersGood DEF Good, MapStep, Map!vars
<1>5. CASE d.uni[t] # None
  <2>1. durable'.uni = d.uni /\ answers' = answers \cup {<<t, d.uni[t]>>}
    BY <1>5 DEF Conclude, Commit, Answer
  <2>2. e.uni = durable.uni
    BY DEF Inv, Committed
  <2>3. d.uni = InsertUnihash(e, t, v).uni
    <3>1. CASE d = e
      <4>1. e.uni[t] # None
        BY <1>5, <3>1
      <4>2. InsertUnihash(e, t, v).uni = e.uni
        BY <4>1, InsertUnihashKeeps
      <4> QED
        BY <3>1, <4>2
    <3>2. CASE d = InsertUnihash(e, t, v)
      BY <3>2
    <3> QED
      BY <3>1, <3>2
  <2>4. MapStep
    BY <2>1, <2>2, <2>3, MapCommits
  <2> QED
    BY <1>3, <2>4, OthersGood DEF Good
<1> QED
  BY <1>4, <1>5

LEMMA ReportGood ==
    ASSUME Inv, NEW c \in Client, NEW t \in Taskhash, NEW o \in Outhash,
           NEW u \in Taskhash, Report(c, t, o, u)
    PROVE  Good
<1> DEFINE d   == InsertOuthash(db, <<t, o>>, Newest(db))
           uni == Match(d, t, o)
<1>1. d \in Databases /\ d.uni = db.uni
  <2>1. Newest(db) \in 1..Len(db.out) + 1
    BY DEF Newest, Inv, TypeOK, Databases
  <2> QED
    BY <2>1, InsertOuthashKeeps DEF Inv, TypeOK, Rows
<1>2. uni # None => uni \in Taskhash
  BY <1>1, MatchType
<1>3. UNCHANGED <<up, queue, worker>>
  BY DEF Report
<1>4. \/ uni # None /\ Conclude(c, InsertUnihash(d, t, uni), t, u)
      \/ Conclude(c, InsertUnihash(d, t, u), t, u)
      \/ /\ Upstream /\ db' = d /\ Suspend(c, "report", t, o, u)
         /\ UNCHANGED <<durable, told>>
      \/ Conclude(c, d, t, u)
  BY DEF Report
<1> HIDE DEF d, uni
<1>5. CASE uni # None /\ Conclude(c, InsertUnihash(d, t, uni), t, u)
  BY <1>1, <1>2, <1>3, <1>5, ReportEndGood
<1>6. CASE Conclude(c, InsertUnihash(d, t, u), t, u)
  BY <1>1, <1>3, <1>6, ReportEndGood
<1>7. CASE /\ Upstream /\ db' = d /\ Suspend(c, "report", t, o, u)
           /\ UNCHANGED <<durable, told>>
  <2>1. GoodConn
    BY <1>3, <1>7, SuspendGood DEF Ops
  <2>2. GoodTables
    BY <1>1, <1>7 DEF GoodTables, Inv, TypeOK, Committed
  <2> QED
    BY <1>3, <1>7, <2>1, <2>2, UnchangedGood, OthersGood, MapStutters DEF Good, told
<1>8. CASE Conclude(c, d, t, u)
  BY <1>1, <1>3, <1>8, ReportEndGood
<1> QED
  BY <1>4, <1>5, <1>6, <1>7, <1>8

LEMMA ResumeReportGood ==
    ASSUME Inv, NEW c \in Client, ResumeReport(c)
    PROVE  Good
<1> DEFINE r   == conn[c]
           row == Oldest(up, Taskhash \X {r.outhash})
           uni == IF row = None THEN r.unihash ELSE up.uni[row[1]]
<1>0. up \in Databases
  BY UpstreamAsked DEF ResumeReport, Resumes, AwaitsUpstream
<1>1. r.taskhash \in Taskhash /\ r.unihash \in Taskhash
  BY DEF Inv, RequestsHold, ResumeReport, Resumes
<1>2. uni \in Taskhash
  <2>1. CASE row = None
    BY <1>1, <2>1
  <2>2. CASE row # None
    <3>1. row[1] \in Taskhash /\ up.uni[row[1]] # None
      BY <1>0, <2>2, OldestRow
    <3> QED
      BY <1>0, <2>2, <3>1, Given
  <2> QED
    BY <2>1, <2>2
<1>3. /\ Conclude(c, InsertUnihash(db, r.taskhash, uni), r.taskhash, r.unihash)
      /\ UNCHANGED <<up, queue, worker>>
  BY DEF ResumeReport
<1>4. db \in Databases
  BY DEF Inv, TypeOK
<1> HIDE DEF r, uni
<1> QED
  BY <1>1, <1>2, <1>3, <1>4, ReportEndGood

LEMMA EquivReportGood ==
    ASSUME Inv, NEW c \in Client, NEW t \in Taskhash, NEW u \in Taskhash,
           EquivReport(c, t, u)
    PROVE  Good
<1> DEFINE d == InsertUnihash(db, t, u)
<1>1. d \in Databases /\ d.uni[t] \in Taskhash
  <2>1. d \in Databases /\ d.uni[t] # None
    BY InsertUnihashKeeps DEF Inv, TypeOK
  <2> HIDE DEF d
  <2> QED
    BY <2>1, Given
<1>2. Commit(d) /\ Answer(t, d.uni[t]) /\ UNCHANGED <<up, conn, queue, worker>>
  BY DEF EquivReport
<1>3. MapStep
  BY <1>2, MapCommits DEF Commit, Answer, Inv, TypeOK, Committed
<1> QED
  BY <1>1, <1>2, <1>3, CommitGood, ToldGood, UnchangedGood, OthersGood DEF Good

-----------------------------------------------------------------------------
(* The worker, the upstream server and failures.                           *)

LEMMA WakeGood == Inv /\ Wake /\ UNCHANGED up => GoodConn
  BY DEF Inv, TypeOK, RequestsHold, Wake, Resumes, Idle, Ops, GoodConn,
         AwaitsUpstream, Upstream

LEMMA BackfillWaitGood ==
    ASSUME Inv, NEW c \in Client, BackfillWait(c)
    PROVE  Good
<1>1. GoodConn
  BY SuspendGood DEF BackfillWait, Ops
<1> QED
  BY <1>1, WaitGood DEF BackfillWait

LEMMA BackfillTakeGood == Inv /\ BackfillTake => Good
<1> SUFFICES ASSUME Inv, BackfillTake PROVE Good
  OBVIOUS
<1>1. queue \in Seq(Taskhash) /\ queue # <<>>
  BY DEF Inv, TypeOK, BackfillTake
<1>2. Head(queue) \in Taskhash /\ Tail(queue) \in Seq(Taskhash)
  BY <1>1
<1>3. GoodOthers
  BY <1>1, <1>2 DEF Inv, TypeOK, BackfillTake, WorkerHolds, GoodOthers, Upstream
<1> QED
  BY <1>3, UnchangedGood, MapStutters DEF BackfillTake, Good, tables, told

LEMMA BackfillCopyGood == Inv /\ BackfillCopy => Good
<1> SUFFICES ASSUME Inv, BackfillCopy PROVE Good
  OBVIOUS
<1> DEFINE t == worker.taskhash
<1>0. up \in Databases
  BY DEF Inv, TypeOK, WorkerHolds, BackfillCopy, Upstream
<1>1. t \in Taskhash
  BY DEF Inv, WorkerHolds, BackfillCopy
<1>2. GoodConn
  BY WakeGood DEF BackfillCopy
<1>3. GoodOthers
  BY DEF Inv, TypeOK, BackfillCopy, WorkerIdle, WorkerHolds, GoodOthers, Upstream
<1>4. GoodTold
  BY UnchangedGood DEF BackfillCopy
<1>5. CASE up.uni[t] = None
  BY <1>2, <1>3, <1>4, <1>5, UnchangedGood, MapStutters
     DEF BackfillCopy, Good, tables, told
<1>6. CASE up.uni[t] # None
  <2>1. Commit(InsertUnihash(db, t, up.uni[t]))
    BY <1>6 DEF BackfillCopy
  <2>2. up.uni[t] \in Taskhash
    BY <1>0, <1>1, <1>6, Given
  <2>3. GoodTables
    BY <1>1, <2>1, <2>2, InsertUnihashKeeps, CommitGood DEF Inv, TypeOK
  <2>4. answers' = answers
    BY DEF BackfillCopy, told
  <2>5. MapStep
    BY <1>1, <2>1, <2>2, <2>4, MapCommits DEF Commit, Inv, TypeOK, Committed
  <2> QED
    BY <1>2, <1>3, <1>4, <2>3, <2>5 DEF Good
<1> QED
  BY <1>5, <1>6

LEMMA UpstreamReportGood ==
    ASSUME Inv, NEW t \in Taskhash, NEW o \in Outhash, UpstreamReport(t, o)
    PROVE  Good
<1>1. up' \in Databases /\ Upstream'
  <2>1. up \in Databases
    BY DEF UpstreamReport, Inv, TypeOK, Upstream
  <2> QED
    BY <2>1, ReportedKeeps, NoneAssumption DEF UpstreamReport, Upstream
<1>2. GoodOthers
  BY <1>1 DEF UpstreamReport, Inv, TypeOK, WorkerHolds, GoodOthers
<1>3. GoodConn
  BY <1>1 DEF UpstreamReport, Inv, TypeOK, RequestsHold, GoodConn, AwaitsUpstream
<1> QED
  BY <1>2, <1>3, UnchangedGood, MapStutters DEF UpstreamReport, Good, tables, told

LEMMA FailuresGood ==
    ASSUME Inv, WorkerDies \/ Crash \/ \E c \in Client : UpstreamFails(c)
    PROVE  Good
<1>1. CASE WorkerDies
  <2>1. GoodOthers
    BY <1>1 DEF WorkerDies, Inv, TypeOK, WorkerHolds, GoodOthers, Upstream
  <2> QED
    BY <1>1, <2>1, UnchangedGood, MapStutters DEF WorkerDies, Good, tables, told
<1>2. CASE Crash
  <2>1. GoodOthers
    BY <1>2 DEF Crash, Inv, TypeOK, WorkerIdle, WorkerHolds, GoodOthers, Upstream
  <2>2. GoodConn
    BY <1>2 DEF Crash, Idle, Ops, RequestsHold, GoodConn, AwaitsUpstream
  <2>3. GoodTables
    BY <1>2 DEF Crash, Inv, TypeOK, GoodTables
  <2> QED
    BY <1>2, <2>1, <2>2, <2>3, UnchangedGood, MapStutters DEF Crash, Good, told
<1>3. CASE \E c \in Client : UpstreamFails(c)
  BY <1>3, FinishGood, WaitGood DEF UpstreamFails
<1> QED
  BY <1>1, <1>2, <1>3

-----------------------------------------------------------------------------
(* The theorems.                                                           *)

LEMMA RequestGood ==
    ASSUME Inv, NEW c \in Client, Request(c)
    PROVE  Good
<1>1. ASSUME NEW p \in Output, NEW u \in Held(p[1]), Report(c, p[1], p[2], u)
      PROVE  Good
  <2>1. p[1] \in Taskhash /\ p[2] \in Outhash
    BY RequestsAssumption
  <2>2. u \in Taskhash
    BY <2>1 DEF Held, Inv, TypeOK
  <2> QED
    BY <1>1, <2>1, <2>2, ReportGood
<1>2. ASSUME NEW p \in Equivalences, EquivReport(c, p[1], p[2])
      PROVE  Good
  BY <1>2, RequestsAssumption, EquivReportGood
<1>3. ASSUME NEW t \in Taskhash, GetStream(c, t) PROVE Good
  BY <1>3, GetStreamGood
<1>4. ASSUME NEW t \in Taskhash, NEW all \in BOOLEAN, Get(c, t, all) PROVE Good
  BY <1>4, GetGood
<1>5. ASSUME NEW o \in Outhash, GetOuthash(c, o) PROVE Good
  BY <1>5, GetOuthashGood
<1>6. ASSUME BackfillWait(c) PROVE Good
  BY <1>6, BackfillWaitGood
<1> QED
  BY <1>1, <1>2, <1>3, <1>4, <1>5, <1>6 DEF Request

LEMMA ResumeGood ==
    ASSUME Inv, NEW c \in Client, Resume(c)
    PROVE  Good
  BY ResumeStreamGood, ResumeGetGood, ResumeRowsGood, ResumeReportGood DEF Resume

LEMMA NextGood == Inv /\ [Next]_vars => Inv' /\ MapStep
<1> SUFFICES ASSUME Inv, [Next]_vars PROVE Inv' /\ MapStep
  OBVIOUS
<1>1. CASE Next
  <2>1. ASSUME NEW c \in Client, Request(c) \/ Resume(c) \/ UpstreamFails(c)
        PROVE  Good
    BY <2>1, RequestGood, ResumeGood, FailuresGood
  <2>2. ASSUME Backfill PROVE Good
    BY <2>2, BackfillTakeGood, BackfillCopyGood DEF Backfill
  <2>3. ASSUME NEW p \in UpstreamOutput, UpstreamReport(p[1], p[2])
        PROVE  Good
    BY <2>3, RequestsAssumption, UpstreamReportGood
  <2>4. ASSUME WorkerDies \/ Crash PROVE Good
    BY <2>4, FailuresGood
  <2>5. Good
    BY <1>1, <2>1, <2>2, <2>3, <2>4 DEF Next
  <2> QED
    BY <2>5, GoodIsInv DEF Good
<1>2. CASE UNCHANGED vars
  <2>1. UNCHANGED <<tables, up, conn, queue, worker, told>>
    BY <1>2 DEF vars
  <2>2. Good
    BY <2>1, UnchangedGood, WaitGood
  <2> QED
    BY <2>2, GoodIsInv DEF Good
<1> QED
  BY <1>1, <1>2

THEOREM InvariantHolds == Spec => []Inv
<1>1. Inv /\ [Next]_vars => Inv'
  BY NextGood
<1> QED
  BY <1>1, InitInv, PTL DEF Spec

\* Whatever clients ask, in whatever order the upstream server answers, fails
\* or the server is killed, the tables and requests are what they are meant to be.
THEOREM TypeHolds == Spec => []TypeOK
<1>1. Inv => TypeOK
  BY DEF Inv
<1> QED
  BY <1>1, InvariantHolds, PTL

\* The server is a UnihashMap: a task hash is given a unihash once, and neither
\* the interleaving of requests nor a restart changes it or makes an answer
\* from the table wrong.
THEOREM MapImplemented == Spec => ImplementsUnihashMap
<1>1. Init => Map!Init
  BY DEF Init, Empty, Map!Init
<1>2. Inv /\ [Next]_vars => [Map!Next]_(Map!vars)
  BY NextGood DEF MapStep
<1> QED
  BY <1>1, <1>2, InvariantHolds, PTL DEF Spec, ImplementsUnihashMap, Map!Spec

-----------------------------------------------------------------------------
(***************************************************************************)
(* ReportsAreStored, where sqlite3 is CPython's and the upstream server    *)
(* does not fail: handle_report() then always inserts, so its get_unihash()*)
(* never has to ask upstream.                                              *)
(***************************************************************************)
NeverAsksTwice == \A c \in Client : conn[c].op # "report-get"

\* A handler that always inserts ends at once, with a unihash committed.
LEMMA ConcludeStores ==
    ASSUME NEW c \in Client, NEW d, NEW t, NEW u, d.uni[t] # None,
           Conclude(c, d, t, u)
    PROVE  Finish(c) /\ durable'.uni[t] # None
  BY DEF Conclude, Commit

\* What a step does to connection k, if it is not Idle and waits for a report.
KeepsOrStores(k) ==
    /\ conn'[k].op # "report-get"
    /\ conn[k].op = "report" =>
          \/ conn'[k] = conn[k]
          \/ Crash
          \/ durable'.uni[conn[k].taskhash] # None

\* A step that only ends connection c, which does not wait for a report.
LEMMA FinishKeeps ==
    ASSUME Inv, NeverAsksTwice, NEW c \in Client, NEW k \in Client, Finish(c),
           conn[c].op # "report"
    PROVE  KeepsOrStores(k)
  BY DEF Inv, TypeOK, NeverAsksTwice, Finish, Idle, KeepsOrStores

LEMMA SuspendKeeps ==
    ASSUME Inv, NeverAsksTwice, NEW c \in Client, NEW k \in Client,
           conn[c] = Idle, NEW op, NEW t, NEW o, NEW u, op # "report-get",
           Suspend(c, op, t, o, u)
    PROVE  KeepsOrStores(k)
  BY DEF Inv, TypeOK, NeverAsksTwice, Suspend, Idle, KeepsOrStores

LEMMA UnchangedKeeps ==
    ASSUME NeverAsksTwice, NEW k \in Client, UNCHANGED conn
    PROVE  KeepsOrStores(k)
  BY DEF NeverAsksTwice, KeepsOrStores

LEMMA RequestKeeps ==
    ASSUME ~LastRowidKept, Inv, NeverAsksTwice, NEW c \in Client,
           NEW k \in Client, Request(c)
    PROVE  KeepsOrStores(k)
<1>1. ASSUME NEW p \in Output, NEW u \in Held(p[1]), Report(c, p[1], p[2], u)
      PROVE  KeepsOrStores(k)
  <2> DEFINE t   == p[1]
             d   == InsertOuthash(db, <<t, p[2]>>, Newest(db))
             uni == Match(d, t, p[2])
  <2>1. t \in Taskhash /\ p[2] \in Outhash
    BY RequestsAssumption
  <2>2. u \in Taskhash
    BY <2>1 DEF Held, Inv, TypeOK
  <2>3. d \in Databases
    <3>1. Newest(db) \in 1..Len(db.out) + 1
      BY DEF Newest, Inv, TypeOK, Databases
    <3> QED
      BY <2>1, <3>1, InsertOuthashKeeps DEF Inv, TypeOK, Rows
  <2>4. uni # None => uni \in Taskhash
    BY <2>1, <2>3, MatchType
  <2>5. \A v \in Taskhash : InsertUnihash(d, t, v).uni[t] # None
    BY <2>1, <2>3, InsertUnihashKeeps
  <2>6. conn[c] = Idle /\ conn[c].op # "report"
    BY <1>1 DEF Report, Idle
  <2>7. \/ uni # None /\ Conclude(c, InsertUnihash(d, t, uni), t, u)
        \/ Conclude(c, InsertUnihash(d, t, u), t, u)
        \/ Suspend(c, "report", t, p[2], u)
    BY <1>1 DEF Report, Inserted
  <2> HIDE DEF d, uni, t
  <2>8. Finish(c) \/ Suspend(c, "report", t, p[2], u)
    BY <2>2, <2>4, <2>5, <2>7, ConcludeStores
  <2> QED
    BY <2>6, <2>8, FinishKeeps, SuspendKeeps
<1>2. ASSUME NEW t \in Taskhash, GetStream(c, t) PROVE KeepsOrStores(k)
  BY <1>2, UnchangedKeeps, SuspendKeeps DEF GetStream
<1>3. ASSUME NEW t \in Taskhash, NEW all \in BOOLEAN, Get(c, t, all)
      PROVE  KeepsOrStores(k)
  <2>1. (IF all THEN "get-all" ELSE "get") # "report-get"
    OBVIOUS
  <2> QED
    BY <1>3, <2>1, UnchangedKeeps, SuspendKeeps DEF Get
<1>4. ASSUME NEW o \in Outhash, GetOuthash(c, o) PROVE KeepsOrStores(k)
  BY <1>4, UnchangedKeeps, SuspendKeeps DEF GetOuthash
<1>5. ASSUME NEW p \in Equivalences, EquivReport(c, p[1], p[2])
      PROVE  KeepsOrStores(k)
  BY <1>5, UnchangedKeeps DEF EquivReport
<1>6. ASSUME BackfillWait(c) PROVE KeepsOrStores(k)
  BY <1>6, SuspendKeeps DEF BackfillWait
<1> QED
  BY <1>1, <1>2, <1>3, <1>4, <1>5, <1>6 DEF Request

LEMMA ResumeKeeps ==
    ASSUME Inv, NeverAsksTwice, NEW c \in Client, NEW k \in Client, Resume(c)
    PROVE  KeepsOrStores(k)
<1>1. CASE ResumeReport(c)
  <2> DEFINE r   == conn[c]
             row == Oldest(up, Taskhash \X {r.outhash})
             uni == IF row = None THEN r.unihash ELSE up.uni[row[1]]
  <2>0. up \in Databases
    BY <1>1, UpstreamAsked DEF ResumeReport, Resumes, AwaitsUpstream
  <2>1. r.taskhash \in Taskhash /\ r.unihash \in Taskhash
    BY <1>1 DEF Inv, RequestsHold, ResumeReport, Resumes
  <2>2. uni \in Taskhash
    <3>1. row # None => row[1] \in Taskhash /\ up.uni[row[1]] # None
      BY <2>0, OldestRow
    <3> QED
      BY <2>0, <2>1, <3>1, Given
  <2>3. Conclude(c, InsertUnihash(db, r.taskhash, uni), r.taskhash, r.unihash)
    BY <1>1 DEF ResumeReport
  <2>4. InsertUnihash(db, r.taskhash, uni).uni[r.taskhash] # None
    <3>1. db \in Databases
      BY DEF Inv, TypeOK
    <3> HIDE DEF r, uni
    <3> QED
      BY <2>1, <2>2, <3>1, InsertUnihashKeeps
  <2> HIDE DEF uni
  <2>5. Finish(c) /\ durable'.uni[r.taskhash] # None
    BY <2>3, <2>4, ConcludeStores
  <2> QED
    BY <2>5 DEF Inv, TypeOK, NeverAsksTwice, Finish, Idle, KeepsOrStores
<1>2. CASE ~ResumeReport(c)
  <2>1. conn[c].op # "report" /\ Finish(c)
    BY <1>2 DEF Resume, Resumes, NeverAsksTwice, ResumeStream, ResumeGet,
       ResumeGetAll, ResumeGetOuthash, CopyRow, ResumeReportGet
  <2> QED
    BY <2>1, FinishKeeps
<1> QED
  BY <1>1, <1>2

LEMMA NextKeeps ==
    ASSUME ~LastRowidKept, ~UpstreamMayFail, Inv, NeverAsksTwice, [Next]_vars,
           NEW k \in Client
    PROVE  KeepsOrStores(k)
<1>1. ASSUME NEW c \in Client, Request(c) \/ Resume(c) \/ UpstreamFails(c)
      PROVE  KeepsOrStores(k)
  BY <1>1, RequestKeeps, ResumeKeeps DEF UpstreamFails
<1>2. CASE BackfillCopy
  BY <1>2 DEF BackfillCopy, Wake, Resumes, Inv, TypeOK, NeverAsksTwice, Idle,
     KeepsOrStores
<1>3. CASE Crash
  BY <1>3 DEF Crash, Idle, KeepsOrStores
<1>4. CASE BackfillTake \/ WorkerDies \/ (\E p \in UpstreamOutput :
           UpstreamReport(p[1], p[2])) \/ UNCHANGED vars
  BY <1>4, UnchangedKeeps DEF BackfillTake, WorkerDies, UpstreamReport, vars
<1> QED
  BY <1>1, <1>2, <1>3, <1>4 DEF Next, Backfill

\* While a report waits for the upstream server its task may be given a unihash
\* by another report, a lookup or the backfill worker: whichever comes first,
\* the report ends with a unihash committed.
THEOREM ReportsHold ==
    ASSUME ~LastRowidKept, ~UpstreamMayFail
    PROVE  Spec => ReportsAreStored
<1>1. Init => NeverAsksTwice
  BY DEF Init, Idle, NeverAsksTwice
<1>2. Inv /\ NeverAsksTwice /\ [Next]_vars => NeverAsksTwice'
  BY NextKeeps DEF NeverAsksTwice, KeepsOrStores
<1>3. Inv /\ NeverAsksTwice /\ [Next]_vars =>
         [\A c \in Client :
            conn[c].op \in {"report", "report-get"} /\ conn'[c] = Idle /\ ~Crash
               => durable'.uni[conn[c].taskhash] # None]_vars
  <2> SUFFICES ASSUME Inv, NeverAsksTwice, [Next]_vars, NEW c \in Client,
                      conn[c].op \in {"report", "report-get"}, conn'[c] = Idle,
                      ~Crash
               PROVE  durable'.uni[conn[c].taskhash] # None
    OBVIOUS
  <2>1. conn[c].op = "report" /\ conn'[c] # conn[c]
    BY DEF NeverAsksTwice, Idle
  <2> QED
    BY <2>1, NextKeeps DEF KeepsOrStores
<1> QED
  BY <1>1, <1>2, <1>3, InvariantHolds, PTL DEF Spec, ReportsAreStored

-----------------------------------------------------------------------------
(* Rows, and the oldest of them.                                           *)

LEMMA LeastOf ==
    ASSUME NEW S \in SUBSET Nat, S # {}
    PROVE  \E i \in S : \A j \in S : i <= j
<1>1. PICK i \in S : \A j \in S : ~ (<<j, i>> \in OpToRel(<, Nat))
  BY NatLessThanWellFounded, WFMin
<1>2. ASSUME NEW j \in S PROVE i <= j
  <2>1. i \in Nat /\ j \in Nat
    OBVIOUS
  <2>2. SUFFICES ASSUME j < i PROVE FALSE
    BY <2>1
  <2>3. <<j, i>> \in Nat \X Nat /\ (<<j, i>>)[1] < (<<j, i>>)[2]
    BY <2>1, <2>2
  <2>4. <<j, i>> \in OpToRel(<, Nat)
    BY <2>3, Zenon DEF OpToRel
  <2> QED
    BY <1>1, <2>4
<1> QED
  BY <1>2

\* Oldest() finds nothing only where there is nothing to be found, and what it
\* finds is a row of the table.
LEMMA OldestFinds ==
    ASSUME NEW d \in Databases, NEW rows
    PROVE  /\ RowsOf(d) \subseteq Rows
           /\ Oldest(d, rows) # None => Oldest(d, rows) \in RowsOf(d)
           /\ Oldest(d, rows) = None =>
                \A r \in RowsOf(d) : r \in rows => d.uni[r[1]] = None
<1> DEFINE joined == {i \in DOMAIN d.out :
                        d.out[i] \in rows /\ d.uni[d.out[i][1]] # None}
           first  == {i \in joined : \A j \in joined : i <= j}
           i      == CHOOSE i \in first : TRUE
<1>1. d.out \in Seq(Rows) /\ DOMAIN d.out \subseteq Nat
  <2>1. d.out \in Seq(Rows)
    BY DEF Databases
  <2> QED
    BY <2>1
<1>2. Oldest(d, rows) = IF first = {} THEN None ELSE d.out[i]
  BY DEF Oldest
<1>3. \A j \in DOMAIN d.out : d.out[j] \in Rows /\ d.out[j] # None
  BY <1>1, NoneAssumption
<1>4. RowsOf(d) \subseteq Rows
  BY <1>3 DEF RowsOf
<1>5. first # {} => i \in joined
  OBVIOUS
<1>6. Oldest(d, rows) # None => Oldest(d, rows) \in RowsOf(d)
  BY <1>2, <1>5 DEF RowsOf
<1>7. first = {} => joined = {}
  <2>1. joined \in SUBSET Nat
    BY <1>1
  <2> HIDE DEF joined
  <2> QED
    BY <2>1, LeastOf
<1>8. ASSUME Oldest(d, rows) = None PROVE joined = {}
  <2> HIDE DEF joined
  <2> QED
    BY <1>2, <1>3, <1>5, <1>7, <1>8 DEF joined
<1>9. ASSUME Oldest(d, rows) = None, NEW r \in RowsOf(d), r \in rows
      PROVE  d.uni[r[1]] = None
  <2>1. PICK j \in DOMAIN d.out : r = d.out[j]
    BY DEF RowsOf
  <2>2. j \notin joined
    BY <1>8, <1>9
  <2> QED
    BY <1>9, <2>1, <2>2
<1> QED
  BY <1>4, <1>6, <1>9

\* insert_outhash() adds the row and nothing else, wherever it is put.
LEMMA InsertOuthashRows ==
    ASSUME NEW d \in Databases, NEW row \in Rows,
           NEW place \in 1..Len(d.out) + 1
    PROVE  RowsOf(InsertOuthash(d, row, place)) = RowsOf(d) \cup {row}
<1>1. d.out \in Seq(Rows)
  BY DEF Databases
<1>2. CASE row \in RowsOf(d)
  BY <1>2 DEF InsertOuthash, RowsOf
<1>3. CASE row \notin RowsOf(d)
  <2> DEFINE q == InsertAt(d.out, place, row)
             e == InsertOuthash(d, row, place)
  <2>1. e = [d EXCEPT !.out = q]
    BY <1>3 DEF InsertOuthash, RowsOf
  <2>2. e.out = q
    BY <2>1 DEF Databases
  <2>3. /\ Len(q) = Len(d.out) + 1 /\ DOMAIN q = 1..Len(d.out) + 1
        /\ \A j \in 1..Len(d.out) + 1 :
              q[j] = IF j < place THEN d.out[j]
                     ELSE IF j = place THEN row ELSE d.out[j - 1]
    <3> DEFINE n == Len(d.out)
               a == SubSeq(d.out, 1, place - 1)
               b == SubSeq(d.out, place, n)
    <3>1. n \in Nat /\ place \in 1..n + 1
      BY <1>1
    <3>2. /\ a \in Seq(Rows) /\ Len(a) = place - 1
          /\ \A j \in 1..place - 1 : a[j] = d.out[j]
      BY <1>1, <3>1
    <3>3. /\ b \in Seq(Rows) /\ Len(b) = n - place + 1
          /\ \A j \in 1..n - place + 1 : b[j] = d.out[place + j - 1]
      BY <1>1, <3>1
    <3>4. q = (a \o <<row>>) \o b
      BY DEF InsertAt
    <3> HIDE DEF a, b, n
    <3> DEFINE ar == a \o <<row>>
    <3>5. /\ ar \in Seq(Rows) /\ Len(ar) = place
          /\ \A j \in 1..place : ar[j] = IF j < place THEN a[j] ELSE row
      BY <3>1, <3>2
    <3> HIDE DEF ar
    <3>6. /\ Len(ar \o b) = n + 1 /\ DOMAIN (ar \o b) = 1..n + 1
          /\ \A j \in 1..n + 1 :
                (ar \o b)[j] = IF j <= place THEN ar[j] ELSE b[j - place]
      BY <3>1, <3>3, <3>5
    <3>7. q = ar \o b
      BY <3>4 DEF ar
    <3> HIDE DEF q
    <3>8. ASSUME NEW j \in 1..n + 1
          PROVE  q[j] = IF j < place THEN d.out[j]
                        ELSE IF j = place THEN row ELSE d.out[j - 1]
      <4>1. CASE j <= place
        <5>1. j \in 1..place
          BY <3>1, <4>1
        <5>2. q[j] = IF j < place THEN a[j] ELSE row
          BY <3>5, <3>6, <3>7, <4>1, <5>1
        <5>3. CASE j < place
          BY <3>1, <3>2, <5>2, <5>3
        <5>4. CASE ~(j < place)
          BY <3>1, <4>1, <5>2, <5>4
        <5> QED
          BY <5>3, <5>4
      <4>2. CASE j > place
        <5>1. q[j] = b[j - place] /\ j - place \in 1..n - place + 1
          BY <3>1, <3>6, <3>7, <4>2
        <5>2. b[j - place] = d.out[place + (j - place) - 1]
          BY <3>3, <5>1
        <5>3. place + (j - place) - 1 = j - 1
          BY <3>1
        <5> QED
          BY <3>1, <4>2, <5>1, <5>2, <5>3
      <4> QED
        BY <3>1, <4>1, <4>2
    <3> QED
      BY <3>6, <3>7, <3>8 DEF n
  <2>4. DOMAIN d.out = 1..Len(d.out) /\ Len(d.out) \in Nat
    BY <1>1
  <2> HIDE DEF q, e
  <2>5. ASSUME NEW r \in RowsOf(e) PROVE r \in RowsOf(d) \cup {row}
    <3>1. PICK j \in DOMAIN q : r = q[j]
      BY <2>2 DEF RowsOf
    <3>2. CASE j < place
      <4>1. j \in DOMAIN d.out /\ r = d.out[j]
        BY <2>3, <2>4, <3>1, <3>2
      <4> QED
        BY <4>1 DEF RowsOf
    <3>3. CASE j = place
      BY <2>3, <3>1, <3>3
    <3>4. CASE j > place
      <4>1. j - 1 \in DOMAIN d.out /\ r = d.out[j - 1]
        BY <2>3, <2>4, <3>1, <3>4
      <4> QED
        BY <4>1 DEF RowsOf
    <3> QED
      BY <2>3, <3>1, <3>2, <3>3, <3>4
  <2>6. ASSUME NEW r \in RowsOf(d) PROVE r \in RowsOf(e)
    <3>1. PICK j \in DOMAIN d.out : r = d.out[j]
      BY DEF RowsOf
    <3>2. CASE j < place
      <4>1. j \in DOMAIN q /\ r = q[j]
        BY <2>3, <2>4, <3>1, <3>2
      <4> QED
        BY <2>2, <4>1 DEF RowsOf
    <3>3. CASE j >= place
      <4>1. j + 1 \in DOMAIN q /\ r = q[j + 1]
        BY <2>3, <2>4, <3>1, <3>3
      <4> QED
        BY <2>2, <4>1 DEF RowsOf
    <3> QED
      BY <2>4, <3>1, <3>2, <3>3
  <2>7. row \in RowsOf(e)
    <3>1. place \in DOMAIN q /\ row = q[place]
      BY <2>3
    <3> QED
      BY <2>2, <3>1 DEF RowsOf
  <2> QED
    BY <2>5, <2>6, <2>7 DEF e
<1> QED
  BY <1>2, <1>3

LEMMA InsertUnihashRows ==
    ASSUME NEW d \in Databases, NEW t \in Taskhash, NEW u \in Taskhash
    PROVE  RowsOf(InsertUnihash(d, t, u)) = RowsOf(d)
<1>1. InsertUnihash(d, t, u).out = d.out
  BY InsertUnihashKeeps
<1> QED
  BY <1>1 DEF RowsOf

\* What Match() says of a table.
LEMMA MatchFinds ==
    ASSUME NEW d \in Databases, NEW t \in Taskhash, NEW o \in Outhash
    PROVE  /\ Match(d, t, o) # None =>
                \E r \in RowsOf(d) : /\ r[2] = o /\ d.uni[r[1]] # None
                                     /\ Match(d, t, o) = d.uni[r[1]]
           /\ Match(d, t, o) = None =>
                \A r \in RowsOf(d) : r[2] = o /\ r[1] # t => d.uni[r[1]] = None
<1> DEFINE rows == (Taskhash \ {t}) \X {o}
           row  == Oldest(d, rows)
<1>1. Match(d, t, o) = IF row = None THEN None ELSE d.uni[row[1]]
  BY DEF Match
<1>2. row # None => row \in rows /\ d.uni[row[1]] # None /\ row \in RowsOf(d)
  BY OldestRow, OldestFinds
<1>3. row = None => \A r \in RowsOf(d) : r \in rows => d.uni[r[1]] = None
  BY OldestFinds
<1>4. \A r \in RowsOf(d) : r[2] = o /\ r[1] # t => r \in rows
  BY OldestFinds DEF Rows
<1>5. row \in rows => row[2] = o
  OBVIOUS
<1> HIDE DEF row, rows
<1> QED
  BY <1>1, <1>2, <1>3, <1>4, <1>5

-----------------------------------------------------------------------------
(***************************************************************************)
(* What a step does to the tables, where no equivalence is reported: it    *)
(* commits or rolls back, copies a unihash or a row of the upstream        *)
(* server's, inserts the row of a report and suspends it, gives the task   *)
(* of a report the unihash of a task with that output, or its own, or,     *)
(* once upstream has answered, the one that is known there.                *)
(***************************************************************************)
Keeps == db' \in {db, durable} /\ durable' \in {db, durable}

Copies ==
    /\ Upstream
    /\ \E t \in Taskhash :
          up.uni[t] # None /\ Commit(InsertUnihash(db, t, up.uni[t]))

CopiesRow ==
    /\ Upstream
    /\ \E row \in RowsOf(up), place \in 1..Newest(db) :
          up.uni[row[1]] # None /\ Commit(Unified(row, place))

WithRow(p) == InsertOuthash(db, p, Newest(db))

Records(p) == Upstream /\ db' = WithRow(p) /\ UNCHANGED durable

Matches(p) ==
    LET v == Match(WithRow(p), p[1], p[2])
    IN  v # None /\ Commit(InsertUnihash(WithRow(p), p[1], v))

Founds(p) ==
    /\ ~Upstream /\ Match(WithRow(p), p[1], p[2]) = None
    /\ \E u \in Taskhash : Commit(InsertUnihash(WithRow(p), p[1], u))

Learns(p) ==
    LET row == Oldest(up, Taskhash \X {p[2]})
    IN  /\ Upstream
        /\ \E u \in Taskhash :
              Commit(InsertUnihash(db, p[1], IF row = None THEN u ELSE up.uni[row[1]]))

TableStep ==
    \/ Keeps \/ Copies \/ CopiesRow
    \/ \E p \in Output : Records(p) \/ Matches(p) \/ Founds(p) \/ Learns(p)

\* A report that waits is one of what its task may have made.
ReportsOutput ==
    \A c \in Client :
        conn[c].op = "report" => <<conn[c].taskhash, conn[c].outhash>> \in Output

\* handle_report() ends on tables where the task has a unihash: it commits.
LEMMA ConcludeCommits ==
    ASSUME NEW c, NEW d, NEW t, NEW u, Conclude(c, d, t, u), d.uni[t] # None
    PROVE  Commit(d) /\ UNCHANGED relayed /\ Finish(c)
  BY DEF Conclude, Answer

LEMMA ReportTables ==
    ASSUME Inv, NEW c \in Client, NEW p \in Output, NEW u \in Held(p[1]),
           Report(c, p[1], p[2], u)
    PROVE  /\ TableStep
           /\ \/ Finish(c)
              \/ Suspend(c, "report", p[1], p[2], u)
              \/ Suspend(c, "report-get", p[1], None, u)
           /\ \/ UNCHANGED relayed
              \/ ~Upstream /\ WithRow(p) = db /\ db.uni[p[1]] = None
<1> DEFINE d == WithRow(p)
           v == Match(d, p[1], p[2])
<1>1. p[1] \in Taskhash /\ p[2] \in Outhash /\ p = <<p[1], p[2]>> /\ p \in Rows
  BY RequestsAssumption DEF Rows
<1>2. u \in Taskhash
  BY <1>1 DEF Held, Inv, TypeOK
<1>3. d \in Databases
  <2>1. Newest(db) \in 1..Len(db.out) + 1
    BY DEF Newest, Inv, TypeOK, Databases
  <2> QED
    BY <1>1, <2>1, InsertOuthashKeeps DEF Inv, TypeOK, WithRow
<1>4. \/ v # None /\ Conclude(c, InsertUnihash(d, p[1], v), p[1], u)
      \/ v = None /\ ~Upstream /\ Conclude(c, InsertUnihash(d, p[1], u), p[1], u)
      \/ /\ v = None /\ Upstream /\ db' = d /\ Suspend(c, "report", p[1], p[2], u)
         /\ UNCHANGED <<durable, told>>
      \/ d = db /\ Conclude(c, d, p[1], u)
  BY <1>1 DEF Report, WithRow, Inserted
<1>5. v # None => v \in Taskhash
  BY <1>1, <1>3, MatchType
<1>6. \A w \in Taskhash : InsertUnihash(d, p[1], w).uni[p[1]] # None
  BY <1>1, <1>3, InsertUnihashKeeps
<1> HIDE DEF d, v
<1>7. CASE v # None /\ Conclude(c, InsertUnihash(d, p[1], v), p[1], u)
  <2>1. Commit(InsertUnihash(d, p[1], v)) /\ UNCHANGED relayed /\ Finish(c)
    BY <1>5, <1>6, <1>7, ConcludeCommits
  <2>2. Matches(p)
    BY <1>7, <2>1 DEF Matches, d, v
  <2> QED
    BY <2>1, <2>2 DEF TableStep
<1>8. CASE v = None /\ ~Upstream /\ Conclude(c, InsertUnihash(d, p[1], u), p[1], u)
  <2>1. Commit(InsertUnihash(d, p[1], u)) /\ UNCHANGED relayed /\ Finish(c)
    BY <1>2, <1>6, <1>8, ConcludeCommits
  <2>2. Founds(p)
    BY <1>2, <1>8, <2>1 DEF Founds, d, v
  <2> QED
    BY <2>1, <2>2 DEF TableStep
<1>9. CASE /\ v = None /\ Upstream /\ db' = d /\ Suspend(c, "report", p[1], p[2], u)
           /\ UNCHANGED <<durable, told>>
  <2>1. Records(p)
    BY <1>9 DEF Records, d
  <2> QED
    BY <1>9, <2>1 DEF TableStep, told
<1>10. CASE d = db /\ Conclude(c, d, p[1], u)
  <2>1. Keeps
    BY <1>10 DEF Keeps, Conclude, Commit
  <2>2. Finish(c) \/ Suspend(c, "report-get", p[1], None, u)
    BY <1>10 DEF Conclude
  <2>3. UNCHANGED relayed \/ (~Upstream /\ d = db /\ db.uni[p[1]] = None)
    <3>1. CASE d.uni[p[1]] = None /\ ~Upstream
      BY <1>10, <3>1
    <3>2. CASE d.uni[p[1]] = None /\ Upstream
      <4>1. UNCHANGED told
        BY <1>10, <3>2, Zenon DEF Conclude
      <4> QED
        BY <4>1 DEF told
    <3>3. CASE d.uni[p[1]] # None
      BY <1>10, <3>3, ConcludeCommits
    <3> QED
      BY <3>1, <3>2, <3>3
  <2> QED
    BY <2>1, <2>2, <2>3 DEF TableStep, d
<1> QED
  BY <1>4, <1>7, <1>8, <1>9, <1>10

LEMMA LearnTables ==
    ASSUME Inv, ReportsOutput, NEW c \in Client, ResumeReport(c)
    PROVE  TableStep /\ UNCHANGED relayed /\ Finish(c)
<1> DEFINE r   == conn[c]
           row == Oldest(up, Taskhash \X {r.outhash})
           uni == IF row = None THEN r.unihash ELSE up.uni[row[1]]
           p   == <<r.taskhash, r.outhash>>
<1>1. up \in Databases /\ Upstream
  BY UpstreamAsked DEF Inv, RequestsHold, ResumeReport, Resumes, AwaitsUpstream
<1>2. r.taskhash \in Taskhash /\ r.unihash \in Taskhash /\ p \in Output
  BY DEF Inv, RequestsHold, ReportsOutput, ResumeReport, Resumes
<1>3. uni \in Taskhash
  <2>1. row # None => row[1] \in Taskhash /\ up.uni[row[1]] # None
    BY <1>1, OldestRow
  <2> QED
    BY <1>1, <1>2, <2>1, Given
<1>4. Conclude(c, InsertUnihash(db, r.taskhash, uni), r.taskhash, r.unihash)
  BY DEF ResumeReport
<1>5. InsertUnihash(db, r.taskhash, uni).uni[r.taskhash] # None
  <2>1. db \in Databases
    BY DEF Inv, TypeOK
  <2> HIDE DEF r, uni
  <2> QED
    BY <1>2, <1>3, <2>1, InsertUnihashKeeps
<1>6. Commit(InsertUnihash(db, r.taskhash, uni)) /\ UNCHANGED relayed /\ Finish(c)
  <2> HIDE DEF r, uni
  <2> QED
    BY <1>4, <1>5, ConcludeCommits
<1>7. Learns(p)
  BY <1>1, <1>2, <1>6 DEF Learns
<1> HIDE DEF p
<1> QED
  BY <1>2, <1>6, <1>7 DEF TableStep

\* A request that ends, or that begins to wait for something else, leaves the
\* reports that wait as they are.
LEMMA FinishReports ==
    ASSUME Inv, ReportsOutput, NEW c \in Client, Finish(c)
    PROVE  ReportsOutput'
  BY DEF Inv, TypeOK, ReportsOutput, Finish, Idle

LEMMA SuspendReports ==
    ASSUME Inv, ReportsOutput, NEW c \in Client, NEW op, NEW t, NEW o, NEW u,
           Suspend(c, op, t, o, u), op = "report" => <<t, o>> \in Output
    PROVE  ReportsOutput'
  BY DEF Inv, TypeOK, ReportsOutput, Suspend

LEMMA UnchangedReports == ReportsOutput /\ UNCHANGED conn => ReportsOutput'
  BY DEF ReportsOutput

LEMMA CopyRowTables ==
    ASSUME Inv, NEW c \in Client, NEW rows, Upstream, up \in Databases,
           CopyRow(c, Oldest(up, rows))
    PROVE  TableStep /\ Finish(c)
<1> DEFINE row == Oldest(up, rows)
<1>1. CASE row = None
  BY <1>1 DEF CopyRow, Commit, TableStep, Keeps
<1>2. CASE row # None
  <2>1. row \in RowsOf(up) /\ up.uni[row[1]] # None
    BY <1>2, OldestRow, OldestFinds
  <2>2. CopiesRow
    BY <1>2, <2>1 DEF CopyRow, CopiesRow
  <2> QED
    BY <2>2 DEF CopyRow, TableStep
<1> QED
  BY <1>1, <1>2

\* Where no equivalence is reported.
OnlyOutputs == "report-equiv" \notin Requests

LEMMA RequestTables ==
    ASSUME OnlyOutputs, Inv, ReportsOutput, NEW c \in Client, Request(c)
    PROVE  TableStep /\ ReportsOutput'
<1>1. ASSUME NEW p \in Output, NEW u \in Held(p[1]), Report(c, p[1], p[2], u)
      PROVE  TableStep /\ ReportsOutput'
  <2>1. <<p[1], p[2]>> \in Output
    BY RequestsAssumption
  <2> QED
    <3>1. /\ TableStep
          /\ \/ Finish(c)
             \/ Suspend(c, "report", p[1], p[2], u)
             \/ Suspend(c, "report-get", p[1], None, u)
      BY <1>1, ReportTables
    <3> QED
      BY <2>1, <3>1, FinishReports, SuspendReports
<1>2. UNCHANGED tables => TableStep
  BY DEF tables, TableStep, Keeps
<1>3. ASSUME NEW t \in Taskhash, GetStream(c, t) PROVE TableStep /\ ReportsOutput'
  BY <1>2, <1>3, UnchangedReports, SuspendReports DEF GetStream
<1>4. ASSUME NEW t \in Taskhash, NEW all \in BOOLEAN, Get(c, t, all)
      PROVE  TableStep /\ ReportsOutput'
  <2>1. (IF all THEN "get-all" ELSE "get") # "report"
    OBVIOUS
  <2> QED
    BY <1>2, <1>4, <2>1, UnchangedReports, SuspendReports DEF Get
<1>5. ASSUME NEW o \in Outhash, GetOuthash(c, o) PROVE TableStep /\ ReportsOutput'
  BY <1>2, <1>5, UnchangedReports, SuspendReports DEF GetOuthash
<1>6. ASSUME BackfillWait(c) PROVE TableStep /\ ReportsOutput'
  BY <1>2, <1>6, SuspendReports DEF BackfillWait
<1> QED
  BY <1>1, <1>3, <1>4, <1>5, <1>6 DEF Request, OnlyOutputs

LEMMA ResumeTables ==
    ASSUME Inv, ReportsOutput, NEW c \in Client, Resume(c)
    PROVE  TableStep /\ Finish(c)
<1>1. Upstream /\ up \in Databases
  BY UpstreamAsked DEF Inv, RequestsHold, Resume, ResumeStream, ResumeGet,
     ResumeGetAll, ResumeGetOuthash, ResumeReport, ResumeReportGet, Resumes,
     AwaitsUpstream
<1>2. CASE ResumeStream(c)
  BY <1>2 DEF ResumeStream, tables, TableStep, Keeps
<1>3. CASE ResumeGet(c) \/ ResumeReportGet(c)
  <2>1. conn[c].taskhash \in Taskhash
    BY <1>3 DEF Inv, RequestsHold, ResumeGet, ResumeReportGet, Resumes
  <2> QED
    BY <1>1, <1>3, <2>1
       DEF ResumeGet, ResumeReportGet, tables, TableStep, Keeps, Copies
<1>4. CASE ResumeGetAll(c)
  BY <1>1, <1>4, CopyRowTables DEF ResumeGetAll
<1>5. CASE ResumeGetOuthash(c)
  BY <1>1, <1>5, CopyRowTables DEF ResumeGetOuthash
<1>6. CASE ResumeReport(c)
  BY <1>6, LearnTables
<1> QED
  BY <1>2, <1>3, <1>4, <1>5, <1>6 DEF Resume

LEMMA NextTables ==
    ASSUME OnlyOutputs, Inv, ReportsOutput, [Next]_vars
    PROVE  TableStep /\ ReportsOutput'
<1>0. UNCHANGED tables => TableStep
  BY DEF tables, TableStep, Keeps
<1>1. ASSUME NEW c \in Client, Request(c) \/ Resume(c) \/ UpstreamFails(c)
      PROVE  TableStep /\ ReportsOutput'
  BY <1>0, <1>1, RequestTables, ResumeTables, FinishReports DEF UpstreamFails
<1>2. CASE BackfillCopy
  <2>1. worker.taskhash \in Taskhash /\ Upstream
    BY <1>2 DEF BackfillCopy, Inv, WorkerHolds
  <2>2. TableStep
    BY <1>2, <2>1 DEF BackfillCopy, tables, TableStep, Keeps, Copies
  <2>3. ReportsOutput'
    BY <1>2 DEF BackfillCopy, Wake, Resumes, Inv, TypeOK, ReportsOutput, Idle
  <2> QED
    BY <2>2, <2>3
<1>3. CASE Crash
  BY <1>3 DEF Crash, Idle, ReportsOutput, TableStep, Keeps
<1>4. CASE BackfillTake \/ WorkerDies \/ (\E p \in UpstreamOutput :
           UpstreamReport(p[1], p[2])) \/ UNCHANGED vars
  BY <1>0, <1>4, UnchangedReports DEF BackfillTake, WorkerDies, UpstreamReport, vars
<1> QED
  BY <1>1, <1>2, <1>3, <1>4 DEF Next, Backfill

-----------------------------------------------------------------------------
(***************************************************************************)
(* Tables that tell the truth where every task makes one output.           *)
(***************************************************************************)
Reproducible(outputs) == \A r, s \in outputs : r[1] = s[1] => r[2] = s[2]

Agree(d) ==
    \A r, s \in RowsOf(d) :
        r[2] = s[2] /\ d.uni[r[1]] # None /\ d.uni[s[1]] # None
            => d.uni[r[1]] = d.uni[s[1]]

\* A task has a unihash if, and only if, its output was reported.
Alone(d) ==
    /\ Agree(d) /\ RowsOf(d) \subseteq Output
    /\ \A r \in RowsOf(d) : d.uni[r[1]] # None
    /\ \A t \in Taskhash : d.uni[t] # None => \E r \in RowsOf(d) : r[1] = t

\* A report keeps them so, whether another task made the same output or not.
LEMMA ReportAlone ==
    ASSUME Reproducible(Output), NEW d \in Databases, Alone(d), NEW p \in Output,
           NEW e, e = InsertOuthash(d, p, Newest(d)), NEW u \in Taskhash,
           NEW v, v = Match(e, p[1], p[2])
    PROVE  Alone(InsertUnihash(e, p[1], IF v = None THEN u ELSE v))
<1> DEFINE t == p[1]
           w == IF v = None THEN u ELSE v
           f == InsertUnihash(e, t, w)
<1>1. p \in Rows /\ t \in Taskhash /\ p[2] \in Outhash
  BY RequestsAssumption DEF Rows
<1>2. Newest(d) \in 1..Len(d.out) + 1
  BY DEF Newest, Databases
<1>3. e \in Databases /\ e.uni = d.uni /\ RowsOf(e) = RowsOf(d) \cup {p}
  BY <1>1, <1>2, InsertOuthashKeeps, InsertOuthashRows
<1>4. w \in Taskhash
  BY <1>1, <1>3, MatchType
<1> HIDE DEF w
<1>5. /\ f \in Databases /\ RowsOf(f) = RowsOf(d) \cup {p}
      /\ f.uni = IF d.uni[t] = None THEN [d.uni EXCEPT ![t] = w] ELSE d.uni
      /\ f.uni[t] # None
  <2>1. /\ f \in Databases /\ f.out = e.out
        /\ f.uni = IF e.uni[t] = None THEN [e.uni EXCEPT ![t] = w] ELSE e.uni
        /\ f.uni[t] # None
    <3> HIDE DEF t
    <3> QED
      BY <1>1, <1>3, <1>4, InsertUnihashKeeps
  <2>2. RowsOf(f) = RowsOf(e)
    BY <2>1 DEF RowsOf
  <2> QED
    BY <1>3, <2>1, <2>2
<1> HIDE DEF f
<1>6. d.uni \in [Taskhash -> Taskhash \cup {None}] /\ RowsOf(d) \subseteq Rows
  BY OldestFinds DEF Databases
<1>7. RowsOf(f) \subseteq Output
  BY <1>5 DEF Alone
<1>8. \A r \in RowsOf(f) : f.uni[r[1]] # None
  BY <1>1, <1>5, <1>6 DEF Alone, Rows
<1>9. ASSUME NEW x \in Taskhash, f.uni[x] # None
      PROVE  \E r \in RowsOf(f) : r[1] = x
  BY <1>1, <1>5, <1>6, <1>9 DEF Alone
<1>10. Agree(f)
  <2>1. CASE d.uni[t] # None
    <3>1. PICK r \in RowsOf(d) : r[1] = t
      BY <1>1, <2>1 DEF Alone
    <3>2. r[2] = p[2] /\ r \in Rows
      BY <1>6, <3>1 DEF Alone, Reproducible
    <3>3. r = p
      BY <1>1, <3>1, <3>2 DEF Rows
    <3> QED
      BY <1>5, <2>1, <3>3 DEF Alone, Agree
  <2>2. CASE d.uni[t] = None
    <3>1. \A r \in RowsOf(d) : r[1] # t
      BY <2>2 DEF Alone
    <3>2. \A r \in RowsOf(d) : f.uni[r[1]] = d.uni[r[1]] /\ d.uni[r[1]] # None
      BY <1>1, <1>5, <1>6, <2>2, <3>1 DEF Alone, Rows
    <3>3. f.uni[t] = w
      BY <1>1, <1>5, <1>6, <2>2
    <3>4. ASSUME NEW r \in RowsOf(d), r[2] = p[2] PROVE d.uni[r[1]] = w
      <4>1. e.uni[r[1]] # None /\ r \in RowsOf(e) /\ r[1] # t
        BY <1>3, <3>1, <3>2
      <4>2. v # None
        BY <1>1, <1>3, <3>4, <4>1, MatchFinds
      <4>3. PICK s \in RowsOf(e) : s[2] = p[2] /\ e.uni[s[1]] # None /\ v = e.uni[s[1]]
        BY <1>1, <1>3, <4>2, MatchFinds
      <4>4. s \in RowsOf(d)
        BY <1>3, <2>2, <4>3
      <4>5. d.uni[r[1]] = d.uni[s[1]]
        BY <1>3, <3>4, <4>1, <4>3, <4>4 DEF Alone, Agree
      <4> QED
        BY <1>3, <4>2, <4>3, <4>5 DEF w
    <3>5. ASSUME NEW r \in RowsOf(f), NEW s \in RowsOf(f), r[2] = s[2]
          PROVE  f.uni[r[1]] = f.uni[s[1]]
      <4>1. CASE r \in RowsOf(d) /\ s \in RowsOf(d)
        BY <3>2, <3>5, <4>1 DEF Alone, Agree
      <4>2. CASE r = p /\ s = p
        BY <4>2
      <4>3. CASE r = p /\ s \in RowsOf(d)
        BY <3>2, <3>3, <3>4, <3>5, <4>3
      <4>4. CASE r \in RowsOf(d) /\ s = p
        BY <3>2, <3>3, <3>4, <3>5, <4>4
      <4> QED
        BY <1>5, <4>1, <4>2, <4>3, <4>4
    <3> QED
      BY <3>5 DEF Agree
  <2> QED
    BY <2>1, <2>2
<1>11. Alone(f)
  BY <1>7, <1>8, <1>9, <1>10 DEF Alone
<1> QED
  BY <1>11 DEF f, w

-----------------------------------------------------------------------------
(* Without an upstream server.                                             *)

AloneInv == ~Upstream => db = durable /\ Alone(db) /\ relayed = {}

LEMMA InitAlone == Init => AloneInv
<1> SUFFICES ASSUME Init PROVE AloneInv
  OBVIOUS
<1>1. RowsOf(Empty) = {} /\ \A t \in Taskhash : Empty.uni[t] = None
  BY DEF Empty, RowsOf
<1> QED
  BY <1>1 DEF Init, AloneInv, Alone, Agree

\* What a client is told that is not in the table then is in the tables of the
\* upstream server, and in the table now or at the end of the queue.
Relays ==
    \A p \in relayed' :
        \/ p \in relayed
        \/ /\ Upstream /\ p[1] \in Taskhash /\ up.uni[p[1]] = p[2] /\ p[2] # None
           /\ db'.uni[p[1]] # None \/ queue' = Append(queue, p[1])

LEMMA NotRelayed == UNCHANGED relayed => Relays
  BY DEF Relays

LEMMA RequestRelays ==
    ASSUME OnlyOutputs, Inv, AloneInv, NEW c \in Client, Request(c)
    PROVE  UNCHANGED relayed
<1>1. ASSUME NEW p \in Output, NEW u \in Held(p[1]), Report(c, p[1], p[2], u)
      PROVE  UNCHANGED relayed
  <2>1. SUFFICES ASSUME ~Upstream, WithRow(p) = db, db.uni[p[1]] = None PROVE FALSE
    BY <1>1, ReportTables
  <2>2. p \in Rows /\ Newest(db) \in 1..Len(db.out) + 1
    BY RequestsAssumption DEF Newest, Inv, TypeOK, Databases, Rows
  <2>3. p \in RowsOf(db)
    BY <2>1, <2>2, InsertOuthashRows DEF Inv, TypeOK, WithRow
  <2> QED
    BY <2>1, <2>3 DEF AloneInv, Alone
<1>2. ASSUME NEW t \in Taskhash, GetStream(c, t) PROVE UNCHANGED relayed
  BY <1>2 DEF GetStream, Answer, told
<1>3. ASSUME NEW t \in Taskhash, NEW all \in BOOLEAN, Get(c, t, all)
      PROVE  UNCHANGED relayed
  BY <1>3 DEF Get, Answer, told
<1>4. ASSUME NEW o \in Outhash, GetOuthash(c, o) PROVE UNCHANGED relayed
  BY <1>4 DEF GetOuthash, Answer, told
<1>5. ASSUME BackfillWait(c) PROVE UNCHANGED relayed
  BY <1>5 DEF BackfillWait, told
<1> QED
  BY <1>1, <1>2, <1>3, <1>4, <1>5 DEF Request, OnlyOutputs

LEMMA CopyRowRelays ==
    ASSUME Inv, NEW c \in Client, NEW rows \in SUBSET Rows, Upstream,
           up \in Databases, CopyRow(c, Oldest(up, rows))
    PROVE  Relays
<1> DEFINE row == Oldest(up, rows)
<1>1. CASE row = None
  BY <1>1 DEF CopyRow, Relays, told
<1>2. CASE row # None
  <2> DEFINE t == row[1]
             u == up.uni[t]
             d == InsertUnihash(db, t, u)
  <2>1. row \in rows /\ u # None
    BY <1>2, OldestRow
  <2>2. row \in Rows /\ t \in Taskhash
    BY <2>1 DEF Rows
  <2>3. u \in Taskhash
    BY <2>1, <2>2, Given
  <2>4. PICK place \in 1..Newest(db) : Commit(Unified(row, place))
    BY <1>2 DEF CopyRow
  <2>5. Relay(t, u)
    BY <1>2 DEF CopyRow
  <2>6. d \in Databases /\ d.out = db.out /\ d.uni[t] # None
    BY <2>2, <2>3, InsertUnihashKeeps DEF Inv, TypeOK
  <2>7. Unified(row, place) = InsertOuthash(d, row, place)
    BY DEF Unified
  <2>8. place \in 1..Len(d.out) + 1
    BY <2>4, <2>6 DEF Newest
  <2> HIDE DEF d
  <2>9. Unified(row, place).uni = d.uni
    BY <2>2, <2>6, <2>7, <2>8, InsertOuthashKeeps
  <2>10. db'.uni[t] # None
    BY <2>4, <2>6, <2>9 DEF Commit
  <2> QED
    BY <2>1, <2>2, <2>5, <2>10 DEF Relays, Relay
<1> QED
  BY <1>1, <1>2

LEMMA ResumeRelays ==
    ASSUME Inv, ReportsOutput, NEW c \in Client, Resume(c)
    PROVE  Relays
<1>1. Upstream /\ up \in Databases
  BY UpstreamAsked DEF Inv, RequestsHold, Resume, ResumeStream, ResumeGet,
     ResumeGetAll, ResumeGetOuthash, ResumeReport, ResumeReportGet, Resumes,
     AwaitsUpstream
<1>2. CASE ResumeStream(c)
  <2>1. conn[c].taskhash \in Taskhash
    BY <1>2 DEF Inv, RequestsHold, ResumeStream, Resumes
  <2> QED
    BY <1>1, <1>2, <2>1 DEF ResumeStream, Relay, Relays, told
<1>3. CASE ResumeGet(c) \/ ResumeReportGet(c)
  <2> DEFINE t == conn[c].taskhash
             u == up.uni[t]
  <2>1. t \in Taskhash
    BY <1>3 DEF Inv, RequestsHold, ResumeGet, ResumeReportGet, Resumes
  <2>2. CASE u = None
    BY <1>3, <2>2, NotRelayed DEF ResumeGet, ResumeReportGet, told
  <2>3. CASE u # None
    <3>1. Commit(InsertUnihash(db, t, u)) /\ Relay(t, u)
      BY <1>3, <2>3 DEF ResumeGet, ResumeReportGet
    <3>2. u \in Taskhash
      BY <1>1, <2>1, <2>3, Given
    <3>3. db'.uni[t] # None
      BY <2>1, <3>1, <3>2, InsertUnihashKeeps DEF Commit, Inv, TypeOK
    <3> QED
      BY <1>1, <2>1, <2>3, <3>1, <3>3 DEF Relays, Relay
  <2> QED
    BY <2>2, <2>3
<1>4. CASE ResumeGetAll(c)
  <2>1. {conn[c].taskhash} \X Outhash \in SUBSET Rows
    BY <1>4 DEF Inv, RequestsHold, ResumeGetAll, Resumes, Rows
  <2> QED
    BY <1>1, <1>4, <2>1, CopyRowRelays DEF ResumeGetAll
<1>5. CASE ResumeGetOuthash(c)
  <2>1. Taskhash \X {conn[c].outhash} \in SUBSET Rows
    BY <1>5 DEF Inv, RequestsHold, ResumeGetOuthash, Resumes, Rows
  <2> QED
    BY <1>1, <1>5, <2>1, CopyRowRelays DEF ResumeGetOuthash
<1>6. CASE ResumeReport(c)
  BY <1>6, LearnTables, NotRelayed
<1> QED
  BY <1>2, <1>3, <1>4, <1>5, <1>6 DEF Resume

LEMMA NextRelays ==
    ASSUME OnlyOutputs, Inv, ReportsOutput, AloneInv, [Next]_vars
    PROVE  Relays /\ (~Upstream' => ~Upstream)
<1>1. Upstream => Upstream'
  <2>1. CASE \E p \in UpstreamOutput : UpstreamReport(p[1], p[2])
    BY <2>1, RequestsAssumption, ReportedKeeps, NoneAssumption
       DEF UpstreamReport, Upstream, Inv, TypeOK
  <2>2. CASE ~\E p \in UpstreamOutput : UpstreamReport(p[1], p[2])
    <3>1. UNCHANGED up
      <4>1. ASSUME NEW c \in Client, Request(c) PROVE UNCHANGED up
        BY <4>1 DEF Request, GetStream, Get, GetOuthash, Report, EquivReport, BackfillWait
      <4>2. ASSUME NEW c \in Client, Resume(c) PROVE UNCHANGED up
        BY <4>2 DEF Resume, ResumeStream, ResumeGet, ResumeGetAll, ResumeGetOuthash,
           CopyRow, ResumeReport, ResumeReportGet
      <4> QED
        BY <2>2, <4>1, <4>2 DEF Next, UpstreamFails, Backfill, BackfillTake,
           BackfillCopy, WorkerDies, Crash, vars
    <3> QED
      BY <3>1 DEF Upstream
  <2> QED
    BY <2>1, <2>2
<1>2. Relays
  <2>1. ASSUME NEW c \in Client, Request(c) \/ Resume(c) \/ UpstreamFails(c)
        PROVE  Relays
    BY <2>1, RequestRelays, ResumeRelays, NotRelayed DEF UpstreamFails, told
  <2>2. CASE \/ Backfill \/ WorkerDies \/ Crash \/ UNCHANGED vars
             \/ \E p \in UpstreamOutput : UpstreamReport(p[1], p[2])
    BY <2>2, NotRelayed DEF Backfill, BackfillTake, BackfillCopy, WorkerDies, Crash,
       UpstreamReport, vars, told
  <2> QED
    BY <2>1, <2>2 DEF Next
<1> QED
  BY <1>1, <1>2

LEMMA NextAlone ==
    ASSUME Reproducible(Output), OnlyOutputs, Inv, ReportsOutput, AloneInv,
           [Next]_vars
    PROVE  AloneInv'
<1> SUFFICES ASSUME ~Upstream' PROVE db' = durable' /\ Alone(db)' /\ relayed' = {}
  BY DEF AloneInv
<1>1. ~Upstream /\ db = durable /\ Alone(db) /\ relayed = {}
  BY NextRelays DEF AloneInv
<1>2. relayed' = {}
  BY <1>1, NextRelays DEF Relays
<1>3. \A d : db' = d /\ Alone(d) => Alone(db)'
  BY DEF Alone, Agree, RowsOf
<1>4. CASE Keeps
  BY <1>1, <1>2, <1>3, <1>4 DEF Keeps
<1>5. ASSUME NEW p \in Output, Matches(p) \/ Founds(p)
      PROVE  db' = durable' /\ Alone(db)'
  <2> DEFINE e == WithRow(p)
             v == Match(e, p[1], p[2])
  <2>1. \/ v # None /\ Commit(InsertUnihash(e, p[1], v))
        \/ v = None /\ \E u \in Taskhash : Commit(InsertUnihash(e, p[1], u))
    BY <1>5 DEF Matches, Founds
  <2>2. p[1] \in Taskhash
    BY RequestsAssumption
  <2>3. PICK u \in Taskhash : Commit(InsertUnihash(e, p[1], IF v = None THEN u ELSE v))
    BY <2>1, <2>2
  <2>4. Alone(InsertUnihash(e, p[1], IF v = None THEN u ELSE v))
    BY <1>1, ReportAlone DEF Inv, TypeOK, WithRow
  <2> QED
    BY <1>3, <2>3, <2>4 DEF Commit
<1>6. TableStep
  BY NextTables
<1> QED
  BY <1>1, <1>2, <1>4, <1>5, <1>6 DEF TableStep, Copies, CopiesRow, Records, Learns

TablesInv == Inv /\ ReportsOutput /\ AloneInv

LEMMA TablesHold ==
    ASSUME Reproducible(Output), OnlyOutputs
    PROVE  Spec => []TablesInv
<1>1. Init => TablesInv
  BY InitInv, InitAlone DEF Init, Idle, ReportsOutput, TablesInv
<1>2. TablesInv /\ [Next]_vars => TablesInv'
  BY NextGood, NextTables, NextAlone DEF TablesInv
<1> QED
  BY <1>1, <1>2, PTL DEF Spec

\* Where there is no upstream server, tasks always make the same output and no
\* equivalence is reported, equal outputs are known by equal unihashes: whatever
\* order the reports come in, and whenever the server is killed.
THEOREM AgreementHolds ==
    ASSUME Reproducible(Output), OnlyOutputs
    PROVE  Spec => []AgreeWithoutUpstream
<1>1. TablesInv => AgreeWithoutUpstream
  BY DEF TablesInv, AloneInv, Alone, Agree, AgreeWithoutUpstream, EquivalentTasksAgree
<1> QED
  BY <1>1, TablesHold, PTL

-----------------------------------------------------------------------------
(***************************************************************************)
(* With an upstream server whose tables do not change. What it has agrees  *)
(* with what the tasks make, and a unihash in it is one of an output.      *)
(***************************************************************************)
Trusted(d) ==
    /\ Reproducible(Output \cup RowsOf(d)) /\ Agree(d)
    /\ \A t \in Taskhash : d.uni[t] # None => \E r \in RowsOf(d) : r[1] = t

UpstreamTrusted ==
    UpstreamOutput = {} /\ \A d \in InitialUpstream \ {None} : Trusted(d)

\* What tasks make, as far as anything is known of it.
Seen == Output \cup RowsOf(up)

Upstreams(p) == Oldest(up, Taskhash \X {p[2]})

\* Tables d have the unihash that the upstream server has for an output.
Tells(d) ==
    \A p \in Seen :
        Upstreams(p) # None /\ d.uni[p[1]] # None
            => d.uni[p[1]] = up.uni[Upstreams(p)[1]]

\* The unihash of a task that the upstream server has is that of its output.
LEMMA UpstreamsOwn ==
    ASSUME up \in Databases, Trusted(up), NEW t \in Taskhash, up.uni[t] # None
    PROVE  \E p \in RowsOf(up) : /\ p[1] = t /\ Upstreams(p) # None
                                 /\ up.uni[Upstreams(p)[1]] = up.uni[t]
<1>1. PICK p \in RowsOf(up) : p[1] = t
  BY DEF Trusted
<1> DEFINE rows == Taskhash \X {p[2]}
           row  == Oldest(up, rows)
<1>2. p \in rows
  BY <1>1, OldestFinds DEF Rows
<1>3. row # None
  BY <1>1, <1>2, OldestFinds
<1>4. row \in RowsOf(up) /\ row \in rows /\ up.uni[row[1]] # None
  BY <1>3, OldestRow, OldestFinds
<1>5. row[2] = p[2]
  BY <1>4
<1> HIDE DEF row, rows
<1>6. up.uni[row[1]] = up.uni[t]
  BY <1>1, <1>4, <1>5 DEF Trusted, Agree
<1>7. Upstreams(p) = row
  BY DEF Upstreams, row, rows
<1> QED
  BY <1>1, <1>3, <1>6, <1>7

\* To insert the unihash that is known upstream, if one is, keeps Tells.
LEMMA InsertTells ==
    ASSUME Reproducible(Seen), up \in Databases, NEW d \in Databases, Tells(d),
           NEW p \in Seen, p[1] \in Taskhash, NEW w \in Taskhash,
           Upstreams(p) # None => w = up.uni[Upstreams(p)[1]]
    PROVE  Tells(InsertUnihash(d, p[1], w))
<1> DEFINE f == InsertUnihash(d, p[1], w)
<1>1. f.uni = IF d.uni[p[1]] = None THEN [d.uni EXCEPT ![p[1]] = w] ELSE d.uni
  BY InsertUnihashKeeps
<1> HIDE DEF f
<1>2. ASSUME NEW q \in Seen, Upstreams(q) # None, f.uni[q[1]] # None
      PROVE  f.uni[q[1]] = up.uni[Upstreams(q)[1]]
  <2>1. CASE q[1] = p[1] /\ d.uni[p[1]] = None
    <3>1. Upstreams(q) = Upstreams(p)
      BY <2>1 DEF Reproducible, Upstreams
    <3>2. f.uni[q[1]] = w
      BY <1>1, <2>1 DEF Databases
    <3> QED
      BY <1>2, <3>1, <3>2
  <2>2. CASE ~(q[1] = p[1] /\ d.uni[p[1]] = None)
    <3>1. f.uni[q[1]] = d.uni[q[1]]
      <4>1. q[1] \in Taskhash
        BY RequestsAssumption, OldestFinds DEF Seen, Rows
      <4> QED
        BY <1>1, <2>2, <4>1 DEF Databases
    <3> QED
      BY <1>2, <3>1 DEF Tells
  <2> QED
    BY <2>1, <2>2
<1>3. Tells(f)
  BY <1>2 DEF Tells
<1> QED
  BY <1>3 DEF f

LEMMA CopyTells ==
    ASSUME up \in Databases, Trusted(up), NEW d \in Databases, Tells(d),
           NEW t \in Taskhash, up.uni[t] # None
    PROVE  Tells(InsertUnihash(d, t, up.uni[t]))
<1>1. PICK p \in RowsOf(up) : /\ p[1] = t /\ Upstreams(p) # None
                              /\ up.uni[Upstreams(p)[1]] = up.uni[t]
  BY UpstreamsOwn
<1>2. p \in Seen /\ Reproducible(Seen)
  BY <1>1 DEF Seen, Trusted
<1>3. up.uni[t] \in Taskhash
  BY Given
<1> QED
  BY <1>1, <1>2, <1>3, InsertTells

TrustInv ==
    /\ up \in InitialUpstream
    /\ Upstream => /\ RowsOf(db) \subseteq Seen /\ RowsOf(durable) \subseteq Seen
                   /\ Tells(db)

LEMMA ReportTells ==
    ASSUME Inv, TrustInv, Upstream, Trusted(up), NEW p \in Output, Matches(p)
    PROVE  Tells(db') /\ RowsOf(db') \subseteq Seen
<1> DEFINE e == WithRow(p)
           v == Match(e, p[1], p[2])
<1>0. up \in Databases
  BY DEF Inv, TypeOK, Upstream
<1>1. v # None /\ Commit(InsertUnihash(e, p[1], v))
  BY DEF Matches
<1>2. p \in Rows /\ p[1] \in Taskhash /\ p[2] \in Outhash /\ p \in Seen
  BY RequestsAssumption DEF Rows, Seen
<1>3. e \in Databases /\ e.uni = db.uni /\ RowsOf(e) = RowsOf(db) \cup {p}
  <2>1. Newest(db) \in 1..Len(db.out) + 1 /\ db \in Databases
    BY DEF Newest, Inv, TypeOK, Databases
  <2> QED
    BY <1>2, <2>1, InsertOuthashKeeps, InsertOuthashRows DEF WithRow
<1> HIDE DEF e
<1>4. v \in Taskhash
  BY <1>1, <1>2, <1>3, MatchType
<1>5. PICK r \in RowsOf(e) : r[2] = p[2] /\ e.uni[r[1]] # None /\ v = e.uni[r[1]]
  BY <1>1, <1>2, <1>3, MatchFinds
<1> HIDE DEF v
<1>6. r \in Seen
  BY <1>2, <1>3, <1>5 DEF TrustInv
<1>7. Upstreams(p) # None => v = up.uni[Upstreams(p)[1]]
  BY <1>3, <1>5, <1>6 DEF TrustInv, Tells, Upstreams
<1>8. Tells(e)
  BY <1>3 DEF TrustInv, Tells
<1>9. Reproducible(Seen)
  BY DEF Trusted, Seen
<1>10. Tells(InsertUnihash(e, p[1], v))
  BY <1>0, <1>2, <1>3, <1>4, <1>7, <1>8, <1>9, InsertTells
<1>11. RowsOf(InsertUnihash(e, p[1], v)) = RowsOf(e)
  BY <1>2, <1>3, <1>4, InsertUnihashRows
<1>12. db' = InsertUnihash(e, p[1], v)
  BY <1>1 DEF Commit, v
<1> QED
  BY <1>2, <1>3, <1>10, <1>11, <1>12 DEF TrustInv

LEMMA CopyRowTells ==
    ASSUME Inv, TrustInv, Upstream, Trusted(up), CopiesRow
    PROVE  Tells(db') /\ RowsOf(db') \subseteq Seen
<1>1. PICK row \in RowsOf(up), place \in 1..Newest(db) :
         up.uni[row[1]] # None /\ Commit(Unified(row, place))
  BY DEF CopiesRow
<1> DEFINE u == up.uni[row[1]]
           d == InsertUnihash(db, row[1], u)
<1>2. up \in Databases /\ db \in Databases
  BY DEF Inv, TypeOK, Upstream
<1>3. row \in Rows /\ row[1] \in Taskhash
  BY <1>2, OldestFinds DEF Rows
<1>4. u \in Taskhash
  BY <1>1, <1>2, <1>3, Given
<1>5. Tells(d)
  BY <1>1, <1>2, <1>3, CopyTells DEF TrustInv
<1>6. d \in Databases /\ d.out = db.out /\ RowsOf(d) = RowsOf(db)
  BY <1>2, <1>3, <1>4, InsertUnihashKeeps, InsertUnihashRows
<1>7. db' = InsertOuthash(d, row, place)
  BY <1>1 DEF Commit, Unified
<1>8. place \in 1..Len(d.out) + 1
  BY <1>6 DEF Newest
<1> HIDE DEF d
<1>9. db'.uni = d.uni /\ RowsOf(db') = RowsOf(db) \cup {row}
  BY <1>3, <1>6, <1>7, <1>8, InsertOuthashKeeps, InsertOuthashRows
<1> QED
  BY <1>1, <1>5, <1>9 DEF TrustInv, Tells, Seen

LEMMA NextTells ==
    ASSUME UpstreamTrusted, Inv, TrustInv, TableStep, Upstream
    PROVE  /\ Tells(db') /\ RowsOf(db') \subseteq Seen
           /\ RowsOf(durable') \subseteq Seen
<1>1. /\ up \in Databases /\ Trusted(up) /\ db \in Databases
      /\ db.uni = durable.uni
  BY DEF Inv, TypeOK, Committed, Upstream, UpstreamTrusted, TrustInv
<1>2. Reproducible(Seen)
  BY <1>1 DEF Trusted, Seen
<1>3. CASE Keeps
  BY <1>1, <1>3 DEF Keeps, TrustInv, Tells
<1>4. CASE Copies
  <2>1. PICK t \in Taskhash :
           up.uni[t] # None /\ Commit(InsertUnihash(db, t, up.uni[t]))
    BY <1>4 DEF Copies
  <2>2. up.uni[t] \in Taskhash
    BY <1>1, <2>1, Given
  <2>3. Tells(InsertUnihash(db, t, up.uni[t]))
    BY <1>1, <2>1, CopyTells DEF TrustInv
  <2>4. RowsOf(InsertUnihash(db, t, up.uni[t])) = RowsOf(db)
    BY <1>1, <2>2, InsertUnihashRows
  <2> QED
    BY <2>1, <2>3, <2>4 DEF Commit, TrustInv
<1>5. CASE CopiesRow
  <2>1. durable' = db'
    BY <1>5 DEF CopiesRow, Commit
  <2> QED
    BY <1>1, <1>5, <2>1, CopyRowTells
<1>6. ASSUME NEW p \in Output, Records(p)
      PROVE  /\ Tells(db') /\ RowsOf(db') \subseteq Seen
             /\ RowsOf(durable') \subseteq Seen
  <2>1. p \in Rows /\ Newest(db) \in 1..Len(db.out) + 1
    BY <1>1, RequestsAssumption DEF Rows, Newest, Databases
  <2>2. db'.uni = db.uni /\ RowsOf(db') = RowsOf(db) \cup {p}
    BY <1>1, <1>6, <2>1, InsertOuthashKeeps, InsertOuthashRows DEF Records, WithRow
  <2> QED
    BY <1>6, <2>2 DEF Records, TrustInv, Tells, Seen
<1>7. ASSUME NEW p \in Output, Matches(p)
      PROVE  /\ Tells(db') /\ RowsOf(db') \subseteq Seen
             /\ RowsOf(durable') \subseteq Seen
  <2>1. durable' = db'
    BY <1>7 DEF Matches, Commit
  <2> QED
    BY <1>1, <1>7, <2>1, ReportTells
<1>8. ASSUME NEW p \in Output, Learns(p)
      PROVE  /\ Tells(db') /\ RowsOf(db') \subseteq Seen
             /\ RowsOf(durable') \subseteq Seen
  <2> DEFINE row == Upstreams(p)
  <2>1. PICK u \in Taskhash :
           Commit(InsertUnihash(db, p[1], IF row = None THEN u ELSE up.uni[row[1]]))
    BY <1>8 DEF Learns, Upstreams
  <2> DEFINE w == IF row = None THEN u ELSE up.uni[row[1]]
  <2>2. p \in Seen /\ p[1] \in Taskhash
    BY RequestsAssumption DEF Seen
  <2>3. row # None => row[1] \in Taskhash /\ up.uni[row[1]] # None
    BY <1>1, OldestRow DEF Upstreams
  <2>4. w \in Taskhash
    BY <1>1, <2>3, Given
  <2>5. Tells(InsertUnihash(db, p[1], w))
    BY <1>1, <1>2, <2>2, <2>4, InsertTells DEF TrustInv
  <2>6. RowsOf(InsertUnihash(db, p[1], w)) = RowsOf(db)
    BY <1>1, <2>2, <2>4, InsertUnihashRows
  <2> QED
    BY <2>1, <2>5, <2>6 DEF Commit, TrustInv
<1> QED
  BY <1>3, <1>4, <1>5, <1>6, <1>7, <1>8 DEF TableStep, Founds

LEMMA UpstreamStays ==
    ASSUME UpstreamOutput = {}, [Next]_vars
    PROVE  UNCHANGED up
<1>1. ASSUME NEW c \in Client, Request(c) PROVE UNCHANGED up
  BY <1>1 DEF Request, GetStream, Get, GetOuthash, Report, EquivReport, BackfillWait
<1>2. ASSUME NEW c \in Client, Resume(c) PROVE UNCHANGED up
  BY <1>2 DEF Resume, ResumeStream, ResumeGet, ResumeGetAll, ResumeGetOuthash,
     CopyRow, ResumeReport, ResumeReportGet
<1> QED
  BY <1>1, <1>2 DEF Next, UpstreamFails, Backfill, BackfillTake, BackfillCopy,
     WorkerDies, Crash, vars

LEMMA TrustHolds ==
    ASSUME UpstreamTrusted, Reproducible(Output), OnlyOutputs
    PROVE  Spec => [](TablesInv /\ TrustInv)
<1>1. Init => TrustInv
  <2>1. RowsOf(Empty) = {} /\ \A t \in Taskhash : Empty.uni[t] = None
    BY DEF Empty, RowsOf
  <2>2. ASSUME Init, Upstream PROVE Tells(Empty)
    <3>1. up \in Databases /\ Output \subseteq Rows
      BY <2>2, UpstreamAssumption, RequestsAssumption DEF Init, Upstream, Rows
    <3>2. Seen \subseteq Rows
      BY <3>1, OldestFinds DEF Seen
    <3> QED
      BY <2>1, <3>2 DEF Tells, Rows
  <2> QED
    BY <2>1, <2>2 DEF Init, TrustInv
<1>2. TablesInv /\ TrustInv /\ [Next]_vars => TrustInv'
  <2> SUFFICES ASSUME TablesInv, TrustInv, [Next]_vars PROVE TrustInv'
    OBVIOUS
  <2>1. UNCHANGED up
    BY UpstreamStays DEF UpstreamTrusted
  <2>2. TableStep
    BY NextTables DEF TablesInv
  <2>3. Upstream => /\ Tells(db') /\ RowsOf(db') \subseteq Seen
                    /\ RowsOf(durable') \subseteq Seen
    BY <2>2, NextTells DEF TablesInv
  <2> QED
    BY <2>1, <2>3 DEF TrustInv, Upstream, Seen, Tells, Upstreams
<1> QED
  BY <1>1, <1>2, TablesHold, PTL DEF Spec

\* A task whose output the upstream server knows is known here as it is there,
\* whatever requests run while others wait for it, fail, or are lost in a crash,
\* if the upstream server's tables agree with what the tasks make.
THEOREM PreferenceHolds ==
    ASSUME UpstreamTrusted, Reproducible(Output), OnlyOutputs
    PROVE  Spec => []UpstreamPreferred
<1>1. TrustInv => UpstreamPreferred
  BY DEF TrustInv, Tells, Upstreams, UpstreamPreferred
<1> QED
  BY <1>1, TrustHolds, PTL

-----------------------------------------------------------------------------
(***************************************************************************)
(* What was told from upstream is in the table, or waits to be copied.     *)
(***************************************************************************)
InQueue(t) == \E i \in DOMAIN queue : queue[i] = t

InWorker(t) == worker.state # "idle" /\ worker.taskhash = t

ToCome ==
    \A p \in relayed :
        /\ Upstream /\ p[1] \in Taskhash /\ up.uni[p[1]] = p[2] /\ p[2] # None
        /\ db.uni[p[1]] # None \/ InQueue(p[1]) \/ InWorker(p[1])

\* A unihash in the table stays there.
LEMMA UnihashesStay ==
    ASSUME Inv, [Next]_vars, NEW t \in Taskhash, db.uni[t] # None
    PROVE  db'.uni[t] # None
<1>1. Inv' /\ MapStep
  BY NextGood
<1>2. durable.uni[t] # None /\ db'.uni = durable'.uni
  BY <1>1 DEF Inv, Committed
<1>3. durable'.uni[t] # None
  <2>1. durable.uni \in [Taskhash -> Taskhash \cup {None}]
    BY DEF Inv, TypeOK, Databases
  <2>2. CASE Map!Next
    BY <1>2, <2>1, <2>2, NoneAssumption DEF Map!Next, Map!Give, Map!Tell, Map!Given
  <2>3. CASE UNCHANGED Map!vars
    BY <1>2, <2>3 DEF Map!vars
  <2> QED
    BY <1>1, <2>2, <2>3 DEF MapStep
<1> QED
  BY <1>2, <1>3

\* What happens to a task hash that waits to be copied.
LEMMA QueueStep ==
    ASSUME ~MayCrash, Inv, [Next]_vars, NEW t \in Taskhash,
           InQueue(t) \/ InWorker(t), up.uni[t] # None
    PROVE  db'.uni[t] # None \/ InQueue(t)' \/ InWorker(t)'
<1>0. queue \in Seq(Taskhash)
  BY DEF Inv, TypeOK
<1>1. CASE UNCHANGED <<queue, worker>>
  BY <1>1 DEF InQueue, InWorker
<1>2. ASSUME NEW u \in Taskhash, queue' = Append(queue, u), UNCHANGED worker
      PROVE  InQueue(t)' \/ InWorker(t)'
  BY <1>0, <1>2 DEF InQueue, InWorker
<1>3. CASE BackfillTake
  <2>1. ~InWorker(t) /\ queue # <<>>
    BY <1>3 DEF BackfillTake, InWorker, WorkerIdle
  <2>2. PICK i \in DOMAIN queue : queue[i] = t
    BY <2>1 DEF InQueue
  <2>3. CASE i = 1
    BY <1>0, <1>3, <2>1, <2>2, <2>3 DEF BackfillTake, InWorker
  <2>4. CASE i # 1
    <3>1. i - 1 \in DOMAIN Tail(queue) /\ Tail(queue)[i - 1] = t
      BY <1>0, <2>1, <2>2, <2>4
    <3> QED
      BY <1>3, <3>1 DEF BackfillTake, InQueue
  <2> QED
    BY <2>3, <2>4
<1>4. CASE BackfillCopy
  <2>1. CASE InQueue(t)
    BY <1>4, <2>1 DEF BackfillCopy, InQueue
  <2>2. CASE InWorker(t)
    <3>1. Upstream /\ up \in Databases
      BY <1>4 DEF BackfillCopy, Inv, TypeOK, WorkerHolds, Upstream
    <3>2. Commit(InsertUnihash(db, t, up.uni[t])) /\ up.uni[t] \in Taskhash
      BY <1>4, <2>2, <3>1, Given DEF BackfillCopy, InWorker
    <3> QED
      BY <3>2, InsertUnihashKeeps DEF Commit, Inv, TypeOK
  <2> QED
    BY <2>1, <2>2
<1>5. CASE WorkerDies
  BY <1>5 DEF WorkerDies, InQueue, InWorker, Inv, TypeOK
<1>6. ASSUME NEW c \in Client, Request(c) \/ UpstreamFails(c)
      PROVE  UNCHANGED <<queue, worker>>
  BY <1>6 DEF Request, GetStream, Get, GetOuthash, Report, EquivReport, BackfillWait,
     UpstreamFails
<1>7. ASSUME NEW c \in Client, Resume(c)
      PROVE  /\ UNCHANGED worker
             /\ \/ UNCHANGED queue
                \/ \E u \in Taskhash : queue' = Append(queue, u)
  <2>1. CASE ResumeStream(c)
    BY <2>1 DEF ResumeStream, Resumes, Inv, RequestsHold
  <2>2. CASE ~ResumeStream(c)
    BY <1>7, <2>2 DEF Resume, ResumeGet, ResumeGetAll, ResumeGetOuthash, CopyRow,
       ResumeReport, ResumeReportGet
  <2> QED
    BY <2>1, <2>2
<1>8. ASSUME NEW c \in Client, Request(c) \/ Resume(c) \/ UpstreamFails(c)
      PROVE  InQueue(t)' \/ InWorker(t)'
  <2>1. CASE UNCHANGED <<queue, worker>>
    BY <2>1 DEF InQueue, InWorker
  <2>2. CASE ~UNCHANGED <<queue, worker>>
    BY <1>2, <1>6, <1>7, <1>8, <2>2
  <2> QED
    BY <2>1, <2>2
<1> QED
  BY <1>1, <1>3, <1>4, <1>5, <1>8 DEF Next, Backfill, Crash, UpstreamReport, vars

LEMMA NextToCome ==
    ASSUME ~MayCrash, UpstreamTrusted, OnlyOutputs, TablesInv, ToCome, [Next]_vars
    PROVE  ToCome'
<1>1. UNCHANGED up
  BY UpstreamStays DEF UpstreamTrusted
<1>2. Relays
  BY NextRelays DEF TablesInv
<1>3. ASSUME NEW p \in relayed', p \notin relayed
      PROVE  /\ Upstream' /\ p[1] \in Taskhash /\ up'.uni[p[1]] = p[2] /\ p[2] # None
             /\ db'.uni[p[1]] # None \/ InQueue(p[1])' \/ InWorker(p[1])'
  <2>1. /\ Upstream /\ p[1] \in Taskhash /\ up.uni[p[1]] = p[2] /\ p[2] # None
        /\ db'.uni[p[1]] # None \/ queue' = Append(queue, p[1])
    BY <1>2, <1>3 DEF Relays
  <2>2. queue' = Append(queue, p[1]) => InQueue(p[1])'
    <3> SUFFICES ASSUME queue' = Append(queue, p[1])
                 PROVE  \E i \in DOMAIN queue' : queue'[i] = p[1]
      BY DEF InQueue
    <3>1. queue \in Seq(Taskhash)
      BY DEF TablesInv, Inv, TypeOK
    <3>2. Len(queue) + 1 \in DOMAIN queue' /\ queue'[Len(queue) + 1] = p[1]
      BY <2>1, <3>1
    <3> QED
      BY <3>2
  <2> QED
    BY <1>1, <2>1, <2>2 DEF Upstream
<1>4. ASSUME NEW p \in relayed
      PROVE  /\ Upstream' /\ p[1] \in Taskhash /\ up'.uni[p[1]] = p[2] /\ p[2] # None
             /\ db'.uni[p[1]] # None \/ InQueue(p[1])' \/ InWorker(p[1])'
  <2>1. /\ Upstream /\ p[1] \in Taskhash /\ up.uni[p[1]] = p[2] /\ p[2] # None
        /\ db.uni[p[1]] # None \/ InQueue(p[1]) \/ InWorker(p[1])
    BY <1>4 DEF ToCome
  <2>2. db'.uni[p[1]] # None \/ InQueue(p[1])' \/ InWorker(p[1])'
    BY <2>1, UnihashesStay, QueueStep DEF TablesInv
  <2> QED
    BY <1>1, <2>1, <2>2 DEF Upstream
<1> QED
  BY <1>3, <1>4 DEF ToCome

\* When the backfill is done, what was told from upstream is what the table
\* holds, though others may have reported the task meanwhile and the worker may
\* have died. (A crash loses the queue.)
THEOREM BackfillHolds ==
    ASSUME UpstreamTrusted, Reproducible(Output), OnlyOutputs, ~MayCrash
    PROVE  Spec => []BackfilledAsTold
<1>1. Init => ToCome
  BY DEF Init, ToCome
<1>2. TablesInv /\ ToCome /\ [Next]_vars => ToCome'
  BY NextToCome
<1>3. TablesInv /\ TrustInv /\ ToCome => BackfilledAsTold
  <2> SUFFICES ASSUME TablesInv, TrustInv, ToCome, ~Unfinished, NEW p \in relayed
               PROVE  db.uni[p[1]] = p[2]
    BY DEF BackfilledAsTold
  <2>1. /\ Upstream /\ p[1] \in Taskhash /\ up.uni[p[1]] = p[2] /\ p[2] # None
        /\ db.uni[p[1]] # None
    BY DEF ToCome, InQueue, InWorker, Unfinished, WorkerIdle
  <2>2. up \in Databases /\ Trusted(up)
    BY <2>1 DEF TablesInv, Inv, TypeOK, Upstream, UpstreamTrusted, TrustInv
  <2>3. PICK r \in RowsOf(up) : /\ r[1] = p[1] /\ Upstreams(r) # None
                                /\ up.uni[Upstreams(r)[1]] = up.uni[p[1]]
    BY <2>1, <2>2, UpstreamsOwn
  <2> QED
    BY <2>1, <2>3 DEF TrustInv, Tells, Seen
<1> QED
  BY <1>1, <1>2, <1>3, TrustHolds, PTL DEF Spec

=============================================================================
