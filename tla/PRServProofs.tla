---------------------------- MODULE PRServProofs ----------------------------
(***************************************************************************)
(* Proofs about PRTable and PRServ, for any number of servers and clients, *)
(* whatever is imported, with crashes or without.                          *)
(***************************************************************************)
EXTENDS PRServProperties, TLAPS

-----------------------------------------------------------------------------
(* Tables. That a package has a highest value needs no finite set of       *)
(* checksums: it is so at first, and remains so.                           *)

Topped(t) ==
    \A p \in Package : \E c \in Checksum : \A d \in Checksum : t[p][d] <= t[p][c]

Good(t) == t \in Tables /\ Topped(t)

Below(t, u) == \A p \in Package, c \in Checksum : t[p][c] <= u[p][c]

\* The highest value is one of the table's, and none is higher.
LEMMA HighestOf ==
    ASSUME NEW t, Good(t), NEW p \in Package
    PROVE  /\ Highest(t, p) \in Value \cup {None}
           /\ \A c \in Checksum : t[p][c] <= Highest(t, p)
           /\ \E c \in Checksum : t[p][c] = Highest(t, p)
<1>1. PICK c \in Checksum : \A d \in Checksum : t[p][d] <= t[p][c]
  BY DEF Good, Topped
<1>2. Highest(t, p) \in {t[p][d] : d \in Checksum}
      /\ \A d \in Checksum : t[p][d] <= Highest(t, p)
  BY <1>1 DEF Highest
<1>3. t[p] \in [Checksum -> Value \cup {None}]
  BY DEF Good, Tables
<1> QED
  BY <1>2, <1>3

LEMMA EmptyGood == Good(EmptyTable)
<1>1. EmptyTable \in Tables
  BY DEF EmptyTable, Tables
<1>2. Topped(EmptyTable)
  BY ChecksumAssumption DEF EmptyTable, Topped, None
<1> QED
  BY <1>1, <1>2 DEF Good

\* A value that was inserted is the new highest one, and higher than before.
LEMMA InsertGood ==
    ASSUME NEW t, Good(t), NEW p \in Package, NEW c \in Checksum,
           Insert(t, p, c)[p][c] \in Value
    PROVE  /\ Good(Insert(t, p, c)) /\ Below(t, Insert(t, p, c))
           /\ Insert(t, p, c)[p][c] = Highest(t, p) + 1
           /\ Highest(Insert(t, p, c), p) = Insert(t, p, c)[p][c]
<1> DEFINE u == Insert(t, p, c)
<1>1. t \in [Package -> [Checksum -> Value \cup {None}]]
  BY DEF Good, Tables
<1>2. u[p][c] = Highest(t, p) + 1
  BY <1>1 DEF Insert
<1>3. \A q \in Package, d \in Checksum : <<q, d>> # <<p, c>> => u[q][d] = t[q][d]
  BY <1>1 DEF Insert
<1>4. u \in Tables
  <2>1. Highest(t, p) + 1 \in Value
    BY <1>2
  <2> QED
    BY <1>1, <2>1 DEF Insert, Tables
<1>5. \A d \in Checksum : u[p][d] <= u[p][c]
  BY <1>1, <1>2, <1>3, HighestOf, ValueAssumption DEF Value, None
<1>6. Topped(u)
  BY <1>3, <1>5 DEF Good, Topped
<1>7. Below(t, u)
  BY <1>1, <1>2, <1>3, HighestOf, ValueAssumption DEF Below, Value, None
<1>8. Good(u)
  BY <1>4, <1>6 DEF Good
<1>9. Highest(u, p) = u[p][c]
  <2>1. u[p][c] <= Highest(u, p) /\ \E d \in Checksum : u[p][d] = Highest(u, p)
    BY <1>8, HighestOf
  <2>2. \A d \in Checksum : u[p][d] \in Int
    BY <1>4, ValueAssumption DEF Tables, Value, None
  <2> QED
    BY <1>5, <2>1, <2>2
<1> QED
  BY <1>2, <1>7, <1>8, <1>9

\* An import leaves every value as it is or makes it the imported, higher one.
LEMMA ImportGood ==
    ASSUME NEW t, Good(t), NEW p \in Package, NEW c \in Checksum, NEW v \in Value
    PROVE  /\ Good(Import(t, p, c, v)) /\ Below(t, Import(t, p, c, v))
           /\ \A q \in Package, d \in Checksum :
                \/ Import(t, p, c, v)[q][d] = t[q][d]
                \/ q = p /\ d = c /\ Import(t, p, c, v)[q][d] = v
<1> DEFINE u == Import(t, p, c, v)
<1>1. t \in [Package -> [Checksum -> Value \cup {None}]]
  BY DEF Good, Tables
<1>2. u[p][c] = IF t[p][c] < v THEN v ELSE t[p][c]
  BY <1>1 DEF Import
<1>3. \A q \in Package, d \in Checksum : <<q, d>> # <<p, c>> => u[q][d] = t[q][d]
  BY <1>1 DEF Import
<1>4. u \in Tables
  <2>1. (IF t[p][c] < v THEN v ELSE t[p][c]) \in Value \cup {None}
    BY <1>1
  <2>2. u = [t EXCEPT ![p] = [t[p] EXCEPT ![c] = IF t[p][c] < v THEN v ELSE t[p][c]]]
    BY <1>1 DEF Import
  <2> QED
    BY <1>1, <2>1, <2>2 DEF Tables
<1>5. \A q \in Package, d \in Checksum : t[q][d] \in Int /\ u[q][d] \in Int
  BY <1>1, <1>4, ValueAssumption DEF Tables, Value, None
<1>6. Below(t, u)
  BY <1>2, <1>3, <1>5 DEF Below, Value
<1>7. Topped(u)
  <2> SUFFICES ASSUME NEW q \in Package
               PROVE  \E e \in Checksum : \A d \in Checksum : u[q][d] <= u[q][e]
    BY DEF Topped
  <2>1. PICK e \in Checksum : \A d \in Checksum : t[q][d] <= t[q][e]
    BY DEF Good, Topped
  <2>2. CASE q # p
    BY <1>3, <2>1, <2>2
  <2>3. CASE q = p /\ u[p][c] <= u[p][e]
    <3>1. t[p][e] <= u[p][e]
      BY <1>6, <2>3 DEF Below
    <3>2. \A d \in Checksum : d # c => u[p][d] <= u[p][e]
      BY <1>3, <1>5, <2>1, <2>3, <3>1
    <3> QED
      BY <2>3, <3>2
  <2>4. CASE q = p /\ u[p][e] < u[p][c]
    BY <1>2, <1>3, <1>5, <2>1, <2>4 DEF Value
  <2> QED
    BY <1>5, <2>2, <2>3, <2>4
<1> QED
  BY <1>2, <1>3, <1>4, <1>6, <1>7 DEF Good

LEMMA BelowHighest ==
    ASSUME NEW t, NEW u, Good(t), Good(u), Below(t, u), NEW p \in Package
    PROVE  Highest(t, p) <= Highest(u, p)
<1>1. PICK c \in Checksum : t[p][c] = Highest(t, p)
  BY HighestOf
<1>2. t[p][c] <= u[p][c] /\ u[p][c] <= Highest(u, p)
  BY HighestOf DEF Below
<1>3. u[p][c] \in Int /\ t[p][c] \in Int /\ Highest(u, p) \in Int
  BY HighestOf, ValueAssumption DEF Good, Tables, Value, None
<1> QED
  BY <1>1, <1>2, <1>3

LEMMA HeldIsHighest ==
    ASSUME NEW t, Good(t), NEW p \in Package, NEW c \in Checksum, Holds(t, p, c)
    PROVE  t[p][c] = Highest(t, p) /\ t[p][c] \in Value
<1>1. t[p][c] \in Value
  BY DEF Good, Tables, Holds
<1>2. t[p][c] <= Highest(t, p) /\ Highest(t, p) <= t[p][c]
  BY HighestOf DEF Holds
<1> QED
  BY <1>1, <1>2, HighestOf, ValueAssumption DEF Value, None

-----------------------------------------------------------------------------
(* The invariant. A server that may write, and only it, has an open        *)
(* transaction. What is in it is what is committed, except between the     *)
(* handling of a message and the commit.                                   *)

Transactions ==
    /\ Good(rows) /\ Good(work)
    /\ \A s \in readonly : stage[s] = "loop" /\ ~dirty[s]
    /\ \A s \in Server : lock = s =>
        /\ Below(rows, work)
        /\ stage[s] # "commit" => stage[s] \in {"loop", "insert"} /\ work = rows

Inv == TypeOK /\ Transactions /\ GivenAreStored

\* What a step may do to the last value that was told.
Rises ==
    \A p \in Package : latest'[p] # latest[p] =>
        \A g \in given : g.package = p => g.value <= latest'[p]

LEMMA InitInv == Init => Inv
<1> SUFFICES ASSUME Init PROVE Inv
  OBVIOUS
<1>1. TypeOK
  BY EmptyGood, ServerAssumption DEF Init, TypeOK, Good, Nothing, Idle, Stages
<1>2. Transactions
  BY EmptyGood, ServerAssumption DEF Init, Transactions
<1>3. GivenAreStored
  BY DEF Init, GivenAreStored
<1> QED
  BY <1>1, <1>2, <1>3 DEF Inv

\* Clients touch neither the database nor the books.
LEMMA ClientInv ==
    ASSUME Inv, NEW k \in Client, NEW s \in Server,
           (\E r \in Requests : Ask(k, s, r)) \/ Refused(k, s) \/ TimesOut(k, s)
    PROVE  Inv' /\ Rises
<1>1. UNCHANGED <<stage, dirty, readonly, table, books>>
  BY DEF Ask, Refused, TimesOut, server
<1>2. conn' \in [Client -> [server : Server \cup {NoServer}, request : Requests \cup {NoRequest}]]
  BY DEF Ask, Refused, TimesOut, Again, Idle, Inv, TypeOK
<1>3. /\ current' \in [Server -> [client : Client \cup {NoClient}, request : Gets \cup {NoRequest}]]
      /\ \A z \in Server : current'[z].request = current[z].request
  <2>1. CASE UNCHANGED current
    BY <2>1 DEF Inv, TypeOK
  <2>2. CASE current' = [current EXCEPT ![s].client = NoClient]
    BY <2>2 DEF Inv, TypeOK
  <2> QED
    BY <2>1, <2>2 DEF Ask, Refused, TimesOut, server
<1>4. TypeOK'
  BY <1>1, <1>2, <1>3 DEF Inv, TypeOK, table, books
<1>5. Transactions' /\ GivenAreStored' /\ Rises
  BY <1>1 DEF Inv, Transactions, GivenAreStored, Rises, Below, table, books
<1> QED
  BY <1>4, <1>5 DEF Inv

ConnType ==
    [Client -> [server : Server \cup {NoServer}, request : Requests \cup {NoRequest}]]

LEMMA AnswerType ==
    ASSUME TypeOK, NEW k \in Client \cup {NoClient}, Answer(k) \/ Again(k)
    PROVE  conn' \in ConnType
BY DEF TypeOK, Answer, Again, Idle, ConnType

LEMMA HandledType ==
    ASSUME TypeOK, NEW s \in Server, Handled(s)
    PROVE  /\ stage' \in [Server -> Stages]
           /\ \A z \in Server : z # s => stage'[z] = stage[z]
           /\ stage'[s] = IF dirty'[s] THEN "commit" ELSE "loop"
BY DEF TypeOK, Handled, Stages

\* The end of a handler that has not touched the table.
LEMMA HandledLeaves ==
    ASSUME Inv, NEW s \in Server, stage[s] \in {"loop", "insert"}, Handled(s),
           UNCHANGED <<rows, work, lock, dirty, readonly>>
    PROVE  Transactions'
<1>1. /\ \A z \in Server : z # s => stage'[z] = stage[z]
      /\ stage'[s] = IF dirty[s] THEN "commit" ELSE "loop"
  BY HandledType DEF Inv
<1>2. Good(rows)' /\ Good(work)'
  BY DEF Inv, Transactions
<1>3. \A z \in readonly' : stage'[z] = "loop" /\ ~dirty'[z]
  BY <1>1 DEF Inv, TypeOK, Transactions
<1>4. ASSUME NEW z \in Server, lock' = z
      PROVE  /\ Below(rows, work)'
             /\ stage'[z] # "commit" => stage'[z] \in {"loop", "insert"} /\ work' = rows'
  <2>1. Below(rows, work)' /\ (stage[z] # "commit" => work = rows)
        /\ (stage[z] # "commit" => stage[z] \in {"loop", "insert"})
    BY <1>4 DEF Inv, Transactions, Below
  <2> QED
    BY <1>1, <2>1
<1> QED
  BY <1>2, <1>3, <1>4 DEF Transactions

\* A server that can see the database and has nothing to commit sees a table that
\* has all that was given out.
LEMMA ViewGood ==
    ASSUME Inv, NEW s \in Server, Unlocked(s), stage[s] # "commit"
    PROVE  /\ Good(View(s)) /\ Below(rows, View(s)) /\ View(s) = rows
           /\ \A z \in Server : unsaved[z] = {}
           /\ \A z \in Server : z # s => lock # z
           /\ \A g \in given : g \in Rows /\ g.value <= Highest(View(s), g.package)
<1>1. \A z \in Server : unsaved[z] = {}
  BY ServerAssumption DEF Inv, TypeOK, Unlocked
<1>2. View(s) = rows
  BY DEF Inv, Transactions, View
<1>3. \A p \in Package, c \in Checksum : rows[p][c] \in Int
  BY ValueAssumption DEF Inv, TypeOK, Tables, Value, None
<1>4. \A g \in given : g.value <= Highest(rows, g.package)
  BY <1>1 DEF Inv, GivenAreStored
<1> QED
  BY <1>1, <1>2, <1>3, <1>4, ServerAssumption
  DEF Inv, TypeOK, Transactions, Unlocked, Below

\* A value that is told and is as high as any that was given.
LEMMA TellRises ==
    ASSUME Inv, NEW s \in Server, NEW k \in Client \cup {NoClient}, NEW r \in Gets,
           NEW v \in Value, Tell(s, k, r, v),
           \A g \in given : g.package = r.package => g.value <= v
    PROVE  /\ given' \subseteq Rows /\ latest' \in [Package -> Value \cup {None}]
           /\ given' \subseteq given \cup {Row(r, v)}
           /\ s \in readonly => given' = given
           /\ Rises
<1>1. Row(r, v) \in Rows
  BY DEF Row, Rows, Gets
<1>2. r.package \in Package
  BY DEF Gets
<1> QED
  BY <1>1, <1>2 DEF Tell, Inv, TypeOK, Rises

\* get-pr of a row that is there.
LEMMA GetPRInv ==
    ASSUME Inv, NEW s \in Server, NEW k \in Client \cup {NoClient}, NEW r \in Requests,
           GetPR(s, k, r)
    PROVE  Inv' /\ Rises
<1> DEFINE v == ValueOf(View(s), r.package, r.checksum)
<1>1. stage[s] = "loop" /\ r \in Gets /\ Tell(s, k, r, v) /\ Handled(s)
      /\ UNCHANGED <<dirty, readonly, current, table, unsaved>>
      /\ (s \notin readonly => Holds(View(s), r.package, r.checksum))
  BY DEF GetPR
<1>2. /\ Good(View(s)) /\ View(s) = rows
      /\ \A z \in Server : unsaved[z] = {}
      /\ \A g \in given : g \in Rows /\ g.value <= Highest(rows, g.package)
  BY ViewGood DEF GetPR
<1>3. r.package \in Package /\ r.checksum \in Checksum
  BY <1>1 DEF Gets
<1>4. Answer(k)
  BY <1>1 DEF Tell
<1>5. s \notin readonly => v = Highest(rows, r.package) /\ v \in Value
  BY <1>1, <1>2, <1>3, HeldIsHighest DEF ValueOf
<1>6. /\ given' \subseteq Rows /\ latest' \in [Package -> Value \cup {None}] /\ Rises
      /\ \A g \in given' : g.value <= Highest(rows, g.package)
  <2>1. CASE s \in readonly
    BY <1>1, <1>2, <2>1 DEF Tell, Inv, TypeOK, Rises
  <2>2. CASE s \notin readonly
    <3>1. /\ given' \subseteq given \cup {Row(r, v)} /\ Rises
          /\ given' \subseteq Rows /\ latest' \in [Package -> Value \cup {None}]
      BY <1>1, <1>2, <1>5, <2>2, TellRises
    <3>2. v <= Highest(rows, r.package)
      BY <1>5, <2>2, ValueAssumption DEF Value
    <3> QED
      BY <1>2, <3>1, <3>2 DEF Row
  <2> QED
    BY <2>1, <2>2
<1>7. TypeOK'
  BY <1>1, <1>2, <1>4, <1>6, AnswerType, HandledType DEF Inv, TypeOK, table, ConnType, Transactions
<1>8. Transactions'
  BY <1>1, HandledLeaves DEF table
<1>9. GivenAreStored'
  BY <1>1, <1>6 DEF GivenAreStored, table
<1> QED
  BY <1>6, <1>7, <1>8, <1>9 DEF Inv

\* get-pr of a row that is not: it is to be inserted.
LEMMA GetNewPRInv ==
    ASSUME Inv, NEW s \in Server, NEW k \in Client \cup {NoClient}, NEW r \in Requests,
           GetNewPR(s, k, r)
    PROVE  Inv' /\ Rises
<1>1. /\ stage[s] = "loop" /\ r \in Gets /\ s \notin readonly
      /\ stage' = [stage EXCEPT ![s] = "insert"]
      /\ current' = [current EXCEPT ![s] = [client |-> k, request |-> r]]
      /\ UNCHANGED <<dirty, readonly, table, conn, books>>
  BY DEF GetNewPR
<1>2. TypeOK'
  BY <1>1 DEF Inv, TypeOK, table, books, Stages
<1>3. Transactions'
  BY <1>1 DEF Inv, TypeOK, Transactions, table, Below
<1>4. GivenAreStored' /\ Rises
  BY <1>1 DEF Inv, GivenAreStored, Rises, table, books
<1> QED
  BY <1>2, <1>3, <1>4 DEF Inv

\* What a write does: the table in the transaction only grows.
LEMMA WriteGood ==
    ASSUME Inv, NEW s \in Server, s \notin readonly, Unlocked(s),
           stage[s] \in {"loop", "insert"},
           NEW t, Good(t), Below(View(s), t), Write(s, t), UNCHANGED readonly,
           dirty' = [dirty EXCEPT ![s] = TRUE], Handled(s)
    PROVE  /\ Transactions'
           /\ stage' \in [Server -> Stages] /\ stage'[s] = "commit"
           /\ \A z \in Server : z # s => stage'[z] = stage[z]
<1>1. /\ \A z \in Server : z # s => stage'[z] = stage[z]
      /\ stage' \in [Server -> Stages] /\ stage'[s] = "commit"
  BY HandledType DEF Inv, TypeOK
<1>2. rows' = rows /\ work' = t /\ lock' = s
  BY DEF Write
<1>3. Below(rows, t)
  BY ViewGood, <1>2
<1>4. Good(rows)' /\ Good(work)' /\ Below(rows, work)'
  <2>1. Good(rows) /\ Good(t)
    BY DEF Inv, Transactions
  <2> QED
    BY <1>2, <1>3, <2>1
<1>5. \A z \in readonly' : stage'[z] = "loop" /\ ~dirty'[z]
  BY <1>1 DEF Inv, TypeOK, Transactions
<1> QED
  BY <1>1, <1>2, <1>4, <1>5 DEF Transactions

\* The INSERT of a get-pr: the value is above all that were given, and is what the
\* server has to commit.
LEMMA InsertNewInv ==
    ASSUME Inv, NEW s \in Server, InsertNew(s)
    PROVE  Inv' /\ Rises
<1> DEFINE k == current[s].client
           r == current[s].request
           t == Insert(View(s), r.package, r.checksum)
           v == t[r.package][r.checksum]
<1>1. /\ stage[s] = "insert" /\ Unlocked(s) /\ v \in Value
      /\ Write(s, t)
      /\ dirty' = [dirty EXCEPT ![s] = TRUE] /\ Handled(s)
      /\ Tell(s, k, r, v)
      /\ unsaved' = [unsaved EXCEPT ![s] = IF k = NoClient THEN {} ELSE {Row(r, v)}]
      /\ current' = [current EXCEPT ![s] = Nothing]
      /\ UNCHANGED readonly
  BY DEF InsertNew
<1>2. r \in Gets /\ k \in Client \cup {NoClient} /\ s \notin readonly
  BY <1>1 DEF Inv, TypeOK, Transactions
<1>3. r.package \in Package /\ r.checksum \in Checksum
  BY <1>2 DEF Gets
<1>4. /\ Good(View(s)) /\ View(s) = rows
      /\ \A z \in Server : unsaved[z] = {}
      /\ \A z \in Server : z # s => lock # z
      /\ \A g \in given : g \in Rows /\ g.value <= Highest(rows, g.package)
  BY <1>1, ViewGood
<1>5. /\ Good(t) /\ Below(View(s), t)
      /\ v = Highest(rows, r.package) + 1 /\ Highest(t, r.package) = v
  <2> HIDE DEF k, r
  <2>1. t[r.package][r.checksum] \in Value
    BY <1>1
  <2>2. /\ Good(t) /\ Below(View(s), t)
        /\ v = Highest(View(s), r.package) + 1 /\ Highest(t, r.package) = v
    BY <1>3, <1>4, <2>1, InsertGood
  <2> QED
    BY <1>4, <2>2
<1>6. /\ Transactions'
      /\ stage' \in [Server -> Stages] /\ stage'[s] = "commit"
      /\ \A z \in Server : z # s => stage'[z] = stage[z]
  BY <1>1, <1>2, <1>5, WriteGood
<1>7. \A g \in given : g.package = r.package => g.value <= v
  BY <1>3, <1>4, <1>5, HighestOf, ValueAssumption DEF Rows, Value, None
<1>8. /\ given' \subseteq Rows /\ latest' \in [Package -> Value \cup {None}]
      /\ Rises /\ given' \subseteq given \cup {Row(r, v)}
  BY <1>1, <1>2, <1>7, TellRises
<1>9. Row(r, v) \in Rows
  BY <1>1, <1>3 DEF Row, Rows
<1>10. TypeOK'
  <2>1. rows' \in Tables /\ work' \in Tables /\ lock' = s
    BY <1>1, <1>5 DEF Write, Good, Inv, TypeOK
  <2>2. conn' \in ConnType
    BY <1>1, <1>2, AnswerType DEF Tell, Inv
  <2>3. current' \in [Server -> [client : Client \cup {NoClient}, request : Gets \cup {NoRequest}]]
        /\ \A z \in Server : z # s => current'[z] = current[z]
    BY <1>1 DEF Inv, TypeOK, Nothing
  <2>4. unsaved' \in [Server -> SUBSET Rows] /\ \A z \in Server : z # s => unsaved'[z] = {}
    BY <1>1, <1>4, <1>9 DEF Inv, TypeOK
  <2> QED
    BY <1>1, <1>2, <1>6, <1>8, <2>1, <2>2, <2>3, <2>4 DEF Inv, TypeOK, ConnType
<1>11. GivenAreStored'
  <2> SUFFICES ASSUME NEW g \in given'
               PROVE  \/ g.value <= Highest(rows', g.package)
                      \/ \E z \in Server : g \in unsaved'[z] /\ g.value <= Highest(work', g.package)
    BY DEF GivenAreStored
  <2>1. rows' = rows /\ work' = t
    BY <1>1 DEF Write
  <2>2. CASE g \in given
    BY <1>4, <2>1, <2>2
  <2>3. CASE g \notin given
    <3>1. k # NoClient /\ g = Row(r, v)
      BY <1>1, <1>8, <2>3 DEF Tell
    <3>2. g \in unsaved'[s] /\ g.value = v /\ g.package = r.package
      BY <1>1, <3>1 DEF Row, Inv, TypeOK
    <3>3. g.value <= Highest(work', g.package)
      BY <1>1, <1>5, <2>1, <3>2, ValueAssumption DEF Value
    <3> QED
      BY <3>2, <3>3
  <2> QED
    BY <2>2, <2>3
<1> QED
  BY <1>6, <1>8, <1>10, <1>11 DEF Inv

LEMMA ImportOneInv ==
    ASSUME Inv, NEW s \in Server, NEW k \in Client \cup {NoClient}, NEW r \in Requests,
           ImportOne(s, k, r)
    PROVE  Inv' /\ Rises
<1> DEFINE t == Import(View(s), r.package, r.checksum, r.value)
<1>1. /\ stage[s] = "loop" /\ r \in Imported /\ Unlocked(s) /\ s \notin readonly
      /\ Write(s, t) /\ dirty' = [dirty EXCEPT ![s] = TRUE] /\ Handled(s)
      /\ Answer(k) /\ UNCHANGED <<readonly, current, books>>
  BY DEF ImportOne
<1>2. r.package \in Package /\ r.checksum \in Checksum /\ r.value \in Value
  BY <1>1, RequestAssumption DEF Rows
<1>3. /\ Good(View(s)) /\ \A z \in Server : unsaved[z] = {}
      /\ \A z \in Server : z # s => lock # z
      /\ \A g \in given : g.value <= Highest(rows, g.package)
  BY <1>1, ViewGood DEF View
<1>4. Good(t) /\ Below(View(s), t)
  BY <1>2, <1>3, ImportGood
<1>5. /\ Transactions'
      /\ stage' \in [Server -> Stages] /\ stage'[s] = "commit"
      /\ \A z \in Server : z # s => stage'[z] = stage[z]
  BY <1>1, <1>4, WriteGood
<1>6. rows' \in Tables /\ work' \in Tables /\ lock' = s /\ rows' = rows
  BY <1>1, <1>4 DEF Write, Good, Inv, TypeOK
<1>7. TypeOK'
  BY <1>1, <1>3, <1>5, <1>6, AnswerType DEF Inv, TypeOK, ConnType, books
<1>8. GivenAreStored' /\ Rises
  BY <1>1, <1>3, <1>6 DEF GivenAreStored, Rises, books
<1> QED
  BY <1>5, <1>7, <1>8 DEF Inv

LEMMA LockedGetInv ==
    ASSUME Inv, NEW s \in Server, NEW k \in Client \cup {NoClient}, NEW r \in Requests,
           LockedGet(s, k, r)
    PROVE  Inv' /\ Rises
<1>1. /\ stage[s] \in {"loop", "insert"} /\ Answer(k) /\ Handled(s) /\ ~Unlocked(s)
      /\ current' = [current EXCEPT ![s] = Nothing]
      /\ UNCHANGED <<dirty, readonly, table, books>>
  BY DEF LockedGet
<1>2. Transactions'
  BY <1>1, HandledLeaves DEF table
<1>3. TypeOK'
  BY <1>1, AnswerType, HandledType DEF Inv, TypeOK, ConnType, Nothing, table, books, Unlocked
<1>4. GivenAreStored' /\ Rises
  BY <1>1 DEF Inv, GivenAreStored, Rises, table, books
<1> QED
  BY <1>2, <1>3, <1>4 DEF Inv

LEMMA NotImportedInv ==
    ASSUME Inv, NEW s \in Server, NEW k \in Client \cup {NoClient}, NEW r \in Requests,
           NotImported(s, k, r)
    PROVE  Inv' /\ Rises
<1>1. Answer(k) /\ UNCHANGED <<stage, dirty, readonly, current, table, books>>
  BY DEF NotImported, server
<1>2. TypeOK'
  BY <1>1, AnswerType DEF Inv, TypeOK, ConnType, table, books
<1>3. Transactions' /\ GivenAreStored' /\ Rises
  BY <1>1 DEF Inv, Transactions, GivenAreStored, Rises, Below, table, books
<1> QED
  BY <1>2, <1>3 DEF Inv

LEMMA LockedImportInv ==
    ASSUME Inv, NEW s \in Server, NEW k \in Client \cup {NoClient}, NEW r \in Requests,
           LockedImport(s, k, r)
    PROVE  Inv' /\ Rises
<1>1. /\ stage[s] = "loop" /\ s \notin readonly /\ ~Unlocked(s)
      /\ Again(k) /\ stage' = [stage EXCEPT ![s] = "commit"]
      /\ UNCHANGED <<dirty, readonly, current, table, books>>
  BY DEF LockedImport
<1>2. TypeOK'
  BY <1>1, AnswerType DEF Inv, TypeOK, ConnType, Stages, table, books
<1>3. Transactions'
  BY <1>1 DEF Inv, TypeOK, Transactions, Below, table, Unlocked
<1>4. GivenAreStored' /\ Rises
  BY <1>1 DEF Inv, GivenAreStored, Rises, table, books
<1> QED
  BY <1>2, <1>3, <1>4 DEF Inv

\* The commit makes what was handled last, and told already, the table.
LEMMA CommitInv == ASSUME Inv, NEW s \in Server, Commit(s) PROVE Inv' /\ Rises
<1>1. /\ stage[s] = "commit"
      /\ unsaved' = [unsaved EXCEPT ![s] = {}]
      /\ stage' = [stage EXCEPT ![s] = "begin"]
      /\ UNCHANGED <<work, dirty, readonly, current, conn, given, latest>>
      /\ IF lock = s THEN rows' = work /\ lock' = NoServer ELSE UNCHANGED <<rows, lock>>
  BY DEF Commit
<1>2. TypeOK'
  BY <1>1, ServerAssumption DEF Inv, TypeOK, Stages
<1>3. Transactions'
  BY <1>1, ServerAssumption DEF Inv, TypeOK, Transactions, Below
<1>4. GivenAreStored'
  <2> SUFFICES ASSUME NEW g \in given
               PROVE  \/ g.value <= Highest(rows', g.package)
                      \/ \E z \in Server : g \in unsaved'[z] /\ g.value <= Highest(work', g.package)
    BY <1>1 DEF GivenAreStored
  <2>1. CASE lock # s
    BY <1>1, <2>1 DEF Inv, TypeOK, GivenAreStored
  <2>2. CASE lock = s
    <3>1. g.package \in Package /\ g.value \in Int
      BY ValueAssumption DEF Inv, TypeOK, Rows, Value
    <3>2. Highest(rows, g.package) <= Highest(work, g.package)
      BY <2>2, <3>1, BelowHighest DEF Inv, Transactions
    <3>3. Highest(rows, g.package) \in Int /\ Highest(work, g.package) \in Int
      BY <3>1, HighestOf, ValueAssumption DEF Inv, Transactions, Value, None
    <3>4. g.value <= Highest(rows, g.package) \/ g.value <= Highest(work, g.package)
      BY DEF Inv, GivenAreStored
    <3>5. g.value <= Highest(work, g.package)
      BY <3>1, <3>2, <3>3, <3>4
    <3> QED
      BY <1>1, <2>2, <3>5
  <2> QED
    BY <2>1, <2>2
<1> QED
  BY <1>1, <1>2, <1>3, <1>4 DEF Inv, Rises

LEMMA BeginInv ==
    ASSUME Inv, NEW s \in Server, Begin(s) \/ BeginFails(s) PROVE Inv' /\ Rises
<1>1. CASE Begin(s)
  <2>1. /\ stage[s] = "begin" /\ lock = NoServer /\ lock' = s /\ work' = rows
        /\ dirty' = [dirty EXCEPT ![s] = FALSE]
        /\ stage' = [stage EXCEPT ![s] = "loop"]
        /\ UNCHANGED <<rows, readonly, current, conn, books>>
    BY <1>1 DEF Begin
  <2>2. s \notin readonly /\ \A z \in Server : unsaved[z] = {}
    BY <2>1, ServerAssumption DEF Inv, TypeOK, Transactions
  <2>3. TypeOK'
    BY <2>1, <2>2 DEF Inv, TypeOK, Stages, books
  <2>4. \A p \in Package, c \in Checksum : rows[p][c] \in Int
    BY ValueAssumption DEF Inv, TypeOK, Tables, Value, None
  <2>5. Transactions'
    BY <2>1, <2>2, <2>4 DEF Inv, TypeOK, Transactions, Below
  <2>6. GivenAreStored' /\ Rises
    BY <2>1, <2>2 DEF Inv, GivenAreStored, Rises, books
  <2> QED
    BY <2>3, <2>5, <2>6 DEF Inv
<1>2. CASE BeginFails(s)
  <2>1. /\ stage[s] = "begin" /\ stage' = [stage EXCEPT ![s] = "loop"]
        /\ UNCHANGED <<dirty, readonly, current, table, conn, books>>
    BY <1>2 DEF BeginFails
  <2>2. lock # s /\ unsaved[s] = {}
    BY <2>1 DEF Inv, TypeOK, Transactions
  <2>3. TypeOK'
    BY <2>1, <2>2 DEF Inv, TypeOK, Stages, table, books
  <2>4. Transactions'
    BY <2>1, <2>2 DEF Inv, TypeOK, Transactions, Below, table
  <2>5. GivenAreStored' /\ Rises
    BY <2>1 DEF Inv, GivenAreStored, Rises, table, books
  <2> QED
    BY <2>3, <2>4, <2>5 DEF Inv
<1> QED
  BY <1>1, <1>2

LEMMA StartInv == ASSUME Inv, NEW s \in Server, Start(s) PROVE Inv' /\ Rises
<1>1. /\ stage[s] = "down" /\ lock = NoServer
      /\ stage' = [stage EXCEPT ![s] = "loop"]
      /\ dirty' = [dirty EXCEPT ![s] = FALSE]
      /\ readonly' \in {readonly, readonly \cup {s}}
      /\ UNCHANGED <<current, table, conn, books>>
  BY DEF Start
<1>2. TypeOK'
  BY <1>1, ServerAssumption DEF Inv, TypeOK, Stages, table, books
<1>3. Transactions'
  BY <1>1, ServerAssumption DEF Inv, TypeOK, Transactions, Below, table
<1>4. GivenAreStored' /\ Rises
  BY <1>1 DEF Inv, GivenAreStored, Rises, table, books
<1> QED
  BY <1>2, <1>3, <1>4 DEF Inv

\* A server that stops has nothing to commit, one that crashes takes with it what
\* it has not committed, and what nobody can know it has told.
LEMMA DownInv ==
    ASSUME Inv, NEW s \in Server, Stop(s) \/ Crash(s) PROVE Inv' /\ Rises
<1>1. /\ stage' = [stage EXCEPT ![s] = "down"]
      /\ current' = [current EXCEPT ![s] = Nothing]
      /\ readonly' = readonly \ {s}
      /\ lock' = IF lock = s THEN NoServer ELSE lock
      /\ UNCHANGED <<dirty, conn, latest, rows>>
      /\ given' = given \ unsaved[s] /\ unsaved' = [unsaved EXCEPT ![s] = {}]
      /\ work' = IF lock = s THEN rows ELSE work
  <2>1. CASE Stop(s)
    <3>1. unsaved[s] = {} /\ (lock = s => work = rows)
      BY <2>1 DEF Stop, Inv, TypeOK, Transactions
    <3>2. unsaved = [unsaved EXCEPT ![s] = {}] /\ given = given \ unsaved[s]
      BY <3>1 DEF Inv, TypeOK
    <3> QED
      BY <2>1, <3>1, <3>2 DEF Stop, Down, books
  <2>2. CASE Crash(s)
    BY <2>2 DEF Crash, Down
  <2> QED
    BY <2>1, <2>2
<1>2. TypeOK'
  BY <1>1, ServerAssumption DEF Inv, TypeOK, Stages, Nothing
<1>3. Transactions'
  <2>1. Good(rows)' /\ Good(work)'
    BY <1>1 DEF Inv, Transactions
  <2>2. \A z \in readonly' : stage'[z] = "loop" /\ ~dirty'[z]
    BY <1>1 DEF Inv, TypeOK, Transactions
  <2>3. ASSUME NEW z \in Server, lock' = z
        PROVE  /\ Below(rows, work)'
               /\ stage'[z] # "commit" => stage'[z] \in {"loop", "insert"} /\ work' = rows'
    <3>1. z # s /\ lock = z
      BY <1>1, <2>3, ServerAssumption
    <3> QED
      BY <1>1, <3>1 DEF Inv, TypeOK, Transactions, Below
  <2> QED
    BY <2>1, <2>2, <2>3 DEF Transactions
<1>4. GivenAreStored'
  BY <1>1 DEF Inv, TypeOK, GivenAreStored
<1> QED
  BY <1>1, <1>2, <1>3, <1>4 DEF Inv, Rises

LEMMA NextInv == Inv /\ [Next]_vars => Inv' /\ Rises
<1> SUFFICES ASSUME Inv, [Next]_vars PROVE Inv' /\ Rises
  OBVIOUS
<1>1. CASE UNCHANGED vars
  BY <1>1 DEF vars, server, table, books, Inv, TypeOK, Transactions, GivenAreStored, Below, Rises
<1>2. ASSUME NEW k \in Client, NEW s \in Server,
             (\E r \in Requests : Ask(k, s, r)) \/ Refused(k, s) \/ TimesOut(k, s)
      PROVE  Inv' /\ Rises
  BY <1>2, ClientInv
<1>3. ASSUME NEW s \in Server, Serve(s) \/ Start(s) \/ Stop(s) \/ Crash(s)
      PROVE  Inv' /\ Rises
  <2>1. ASSUME NEW k \in Client \cup {NoClient}, NEW r \in Requests, Message(s, k, r)
        PROVE  Inv' /\ Rises
    BY <2>1, GetPRInv, GetNewPRInv, ImportOneInv, LockedGetInv, NotImportedInv, LockedImportInv
    DEF Message
  <2> QED
    BY <1>3, <2>1, InsertNewInv, CommitInv, BeginInv, StartInv, DownInv DEF Serve
<1> QED
  BY <1>1, <1>2, <1>3 DEF Next

THEOREM InvariantHolds == Spec => []Inv
<1>1. Init => Inv
  BY InitInv
<1>2. Inv /\ [Next]_vars => Inv'
  BY NextInv
<1> QED
  BY <1>1, <1>2, PTL DEF Spec

\* Types, the one transaction, and that no value is lost which was given out:
\* PRTable._getValueNohist() and sync() of lib/prserv/db.py.
THEOREM StoredHolds == Spec => [](TypeOK /\ GivenAreStored)
<1>1. Inv => TypeOK /\ GivenAreStored
  BY DEF Inv
<1> QED
  BY <1>1, InvariantHolds, PTL

\* The value of a package that clients are told is never decremented, across
\* servers, restarts and crashes (lib/prserv/db.py:24).
THEOREM NeverLower == Spec => NeverDecremented
<1>1. Inv /\ [Next]_vars => [Rises]_vars
  BY NextInv
<1>2. Spec => [][Rises]_vars
  BY <1>1, InvariantHolds, PTL DEF Spec
<1> QED
  BY <1>2 DEF NeverDecremented, Rises

-----------------------------------------------------------------------------
(* Two outputs that share a value. Two rows of a package, or a row and a    *)
(* value that was given to another checksum, are the same only if the      *)
(* value was imported.                                                     *)

Shared(p, v) == \E r \in Imported : r.package = p /\ r.value = v

Apart(t) ==
    \A p \in Package, c, d \in Checksum :
        c # d /\ t[p][c] = t[p][d] /\ t[p][c] # None => Shared(p, t[p][c])

ApartFrom(t, g) ==
    \A c \in Checksum : c # g.checksum /\ t[g.package][c] = g.value => Shared(g.package, g.value)

Sharing ==
    /\ lock = NoServer => work = rows
    /\ Apart(rows) /\ Apart(work)
    /\ \A g \in given : ApartFrom(rows, g) /\ ApartFrom(work, g)
    /\ \A g, h \in given :
        g.package = h.package /\ g.value = h.value /\ g.checksum # h.checksum
            => Shared(g.package, g.value)

LEMMA InitSharing == Init => Sharing
BY DEF Init, Sharing, Apart, EmptyTable

\* Steps that add no value: no new one is given, and no table is new.
LEMMA QuietSharing ==
    ASSUME Sharing, given' \subseteq given,
           rows' \in {rows, work}, work' \in {rows, work},
           lock' = NoServer => work' = rows'
    PROVE  Sharing'
<1>1. Apart(rows)' /\ Apart(work)'
  BY DEF Sharing, Apart
<1>2. \A g \in given' : ApartFrom(rows', g) /\ ApartFrom(work', g)
  BY DEF Sharing
<1> QED
  BY <1>1, <1>2 DEF Sharing, ApartFrom

\* A value that is given again is a row of its own.
LEMMA GetPRSharing ==
    ASSUME Inv, Sharing, NEW s \in Server, NEW k \in Client \cup {NoClient},
           NEW r \in Requests, GetPR(s, k, r)
    PROVE  Sharing'
<1> DEFINE v == ValueOf(View(s), r.package, r.checksum)
           new == Row(r, v)
<1>1. /\ r \in Gets /\ Unlocked(s) /\ stage[s] = "loop" /\ UNCHANGED table
      /\ Tell(s, k, r, v)
      /\ s \notin readonly => Holds(View(s), r.package, r.checksum)
  BY DEF GetPR
<1>2. CASE given' = given
  BY <1>1, <1>2, QuietSharing DEF table, Sharing
<1>3. CASE given' # given
  <2>1. given' = given \cup {new} /\ s \notin readonly
    BY <1>1, <1>3 DEF Tell
  <2>2. View(s) = rows /\ work = rows /\ Good(rows)
    BY <1>1, ViewGood DEF Unlocked, View, Sharing
  <2>3. r.package \in Package /\ r.checksum \in Checksum
    BY <1>1 DEF Gets
  <2>4. v = rows[r.package][r.checksum] /\ v # None
    BY <1>1, <2>1, <2>2 DEF ValueOf, Holds
  <2>5. new.package = r.package /\ new.checksum = r.checksum /\ new.value = v
    BY DEF Row
  <2>6. ApartFrom(rows, new)
    BY <2>3, <2>4, <2>5 DEF ApartFrom, Sharing, Apart
  <2>7. \A g \in given : g.package = new.package /\ g.value = new.value
            /\ g.checksum # new.checksum => Shared(g.package, g.value)
    BY <2>3, <2>4, <2>5 DEF ApartFrom, Sharing
  <2> HIDE DEF new
  <2>8. \A g \in given' : ApartFrom(rows, g)
    BY <2>1, <2>6 DEF Sharing
  <2>9. \A g, h \in given' : g.package = h.package /\ g.value = h.value
            /\ g.checksum # h.checksum => Shared(g.package, g.value)
    BY <2>1, <2>7 DEF Sharing
  <2> QED
    BY <1>1, <2>2, <2>8, <2>9 DEF Sharing, table, Apart, ApartFrom
<1> QED
  BY <1>2, <1>3

\* A new value is above every row and every value that was given.
LEMMA InsertNewSharing ==
    ASSUME Inv, Sharing, NEW s \in Server, InsertNew(s) PROVE Sharing'
<1> DEFINE k == current[s].client
           r == current[s].request
           t == Insert(View(s), r.package, r.checksum)
           v == t[r.package][r.checksum]
           new == Row(r, v)
<1>1. /\ stage[s] = "insert" /\ Unlocked(s) /\ v \in Value
      /\ Write(s, t) /\ Tell(s, k, r, v)
  BY DEF InsertNew
<1>2. r.package \in Package /\ r.checksum \in Checksum
  BY <1>1 DEF Inv, TypeOK, Gets
<1>3. rows' = rows /\ work' = t /\ lock' # NoServer /\ given' \subseteq given \cup {new}
  BY <1>1, ServerAssumption DEF Write, Tell
<1>4. /\ View(s) = rows /\ Good(rows)
      /\ \A g \in given : g \in Rows /\ g.value <= Highest(rows, g.package)
  BY <1>1, ViewGood
<1>5. v = Highest(rows, r.package) + 1
  <2> HIDE DEF r
  <2>1. v = Highest(View(s), r.package) + 1
    BY <1>1, <1>2, <1>4, InsertGood
  <2> QED
    BY <1>4, <2>1
<1>6. \A p \in Package, c \in Checksum :
        t[p][c] = IF p = r.package /\ c = r.checksum THEN v ELSE rows[p][c]
  BY <1>2, <1>4 DEF Insert, Good, Tables
<1>7. \A c \in Checksum : rows[r.package][c] # v
  BY <1>2, <1>4, <1>5, HighestOf, ValueAssumption DEF Good, Tables, Value, None
<1>8. \A g \in given : g.package = r.package => g.value # v
  BY <1>2, <1>4, <1>5, HighestOf, ValueAssumption DEF Rows, Value, None
<1>9. new.package = r.package /\ new.checksum = r.checksum /\ new.value = v
  BY DEF Row
<1> HIDE DEF v, r, t, new
<1>10. Apart(t)
  BY <1>2, <1>6, <1>7 DEF Sharing, Apart
<1>11. \A g \in given' : ApartFrom(rows, g)
  BY <1>3, <1>7, <1>9 DEF Sharing, ApartFrom
<1>12. \A g \in given' : ApartFrom(t, g)
  <2>1. ApartFrom(t, new)
    BY <1>2, <1>6, <1>7, <1>9 DEF ApartFrom
  <2>2. ASSUME NEW g \in given PROVE ApartFrom(t, g)
    <3>1. g.package \in Package
      BY <1>4 DEF Rows
    <3> QED
      BY <1>2, <1>6, <1>8, <3>1 DEF ApartFrom, Sharing
  <2> QED
    BY <1>3, <2>1, <2>2
<1>13. \A g, h \in given' : g.package = h.package /\ g.value = h.value
            /\ g.checksum # h.checksum => Shared(g.package, g.value)
  BY <1>3, <1>8, <1>9 DEF Sharing
<1> QED
  BY <1>3, <1>10, <1>11, <1>12, <1>13 DEF Sharing, Apart, ApartFrom

\* An import changes nothing else than the row of a value that is imported.
LEMMA ImportOneSharing ==
    ASSUME Inv, Sharing, NEW s \in Server, NEW k \in Client \cup {NoClient},
           NEW r \in Requests, ImportOne(s, k, r)
    PROVE  Sharing'
<1> DEFINE t == Import(View(s), r.package, r.checksum, r.value)
<1>1. /\ stage[s] = "loop" /\ r \in Imported /\ Unlocked(s)
      /\ Write(s, t) /\ UNCHANGED books
  BY DEF ImportOne
<1>2. r.package \in Package /\ r.checksum \in Checksum /\ r.value \in Value
  BY <1>1, RequestAssumption DEF Rows
<1>3. rows' = rows /\ work' = t /\ lock' # NoServer /\ given' = given
  BY <1>1, ServerAssumption DEF Write, books
<1>4. View(s) = rows /\ Good(rows)
  BY <1>1, ViewGood
<1>5. \A p \in Package, c \in Checksum :
        t[p][c] = rows[p][c] \/ (p = r.package /\ c = r.checksum /\ t[p][c] = r.value)
  BY <1>2, <1>4, ImportGood
<1>6. Shared(r.package, r.value)
  BY <1>1 DEF Shared
<1>7. \A g \in given : g.package \in Package
  BY DEF Inv, TypeOK, Rows
<1> HIDE DEF t
<1>8. Apart(t)
  BY <1>2, <1>5, <1>6 DEF Sharing, Apart
<1>9. \A g \in given : ApartFrom(t, g)
  BY <1>5, <1>6, <1>7 DEF Sharing, ApartFrom
<1> QED
  BY <1>3, <1>8, <1>9 DEF Sharing, Apart, ApartFrom

LEMMA NextSharing == Inv /\ Sharing /\ [Next]_vars => Sharing'
<1> SUFFICES ASSUME Inv, Sharing, [Next]_vars PROVE Sharing'
  OBVIOUS
<1>1. CASE UNCHANGED <<table, books>>
  BY <1>1, QuietSharing DEF table, books, Sharing
<1>2. CASE UNCHANGED vars
  BY <1>1, <1>2 DEF vars
<1>3. ASSUME NEW k \in Client, NEW s \in Server,
             (\E r \in Requests : Ask(k, s, r)) \/ Refused(k, s) \/ TimesOut(k, s)
      PROVE  Sharing'
  BY <1>1, <1>3 DEF Ask, Refused, TimesOut
<1>4. ASSUME NEW s \in Server, NEW k \in Client \cup {NoClient}, NEW r \in Requests,
             Message(s, k, r)
      PROVE  Sharing'
  BY <1>1, <1>4, GetPRSharing, ImportOneSharing
  DEF Message, GetNewPR, LockedGet, NotImported, LockedImport
<1>5. ASSUME NEW s \in Server,
             Commit(s) \/ Begin(s) \/ BeginFails(s) \/ Start(s) \/ Stop(s) \/ Crash(s)
      PROVE  Sharing'
  <2>1. CASE Commit(s)
    BY <2>1, QuietSharing DEF Commit, Sharing
  <2>2. CASE Begin(s)
    BY <2>2, QuietSharing, ServerAssumption DEF Begin, books
  <2>3. CASE BeginFails(s) \/ Start(s)
    BY <1>1, <2>3 DEF BeginFails, Start
  <2>4. CASE Stop(s)
    BY <2>4, QuietSharing DEF Stop, Down, books, Sharing
  <2>5. CASE Crash(s)
    BY <2>5, QuietSharing DEF Crash, Down, Sharing
  <2> QED
    BY <1>5, <2>1, <2>2, <2>3, <2>4, <2>5
<1> QED
  BY <1>2, <1>3, <1>4, <1>5, InsertNewSharing DEF Next, Serve

\* Two outputs of a package get one value only by way of an import:
\* PRTable._importNohist() of lib/prserv/db.py.
THEOREM OutputsApart == Spec => []OneOutputPerValue
<1>1. Init => Sharing
  BY InitSharing
<1>2. Inv /\ Sharing /\ [Next]_vars => Sharing'
  BY NextSharing
<1>3. Sharing => OneOutputPerValue
  BY DEF Sharing, OneOutputPerValue, Shared
<1> QED
  BY <1>1, <1>2, <1>3, InvariantHolds, PTL DEF Spec

-----------------------------------------------------------------------------
(* Export and import.                                                      *)

\* What is imported into an empty database has the highest rows, and no others.
LEMMA ExportedTable ==
    ASSUME NEW t, Good(t), NEW p \in Package, NEW c \in Checksum
    PROVE  ValueOf(ImportAll(EmptyTable, t), p, c) = ValueOf(t, p, c)
<1> DEFINE u == ImportAll(EmptyTable, t)
<1>1. \A q \in Package, d \in Checksum :
        u[q][d] = IF Holds(t, q, d) THEN t[q][d] ELSE None
  <2> SUFFICES ASSUME NEW q \in Package, NEW d \in Checksum
               PROVE  u[q][d] = IF Holds(t, q, d) THEN t[q][d] ELSE None
    OBVIOUS
  <2>1. u[q][d] = IF Holds(t, q, d) THEN Import(EmptyTable, q, d, t[q][d])[q][d] ELSE None
    BY DEF ImportAll, Export, EmptyTable
  <2>2. Holds(t, q, d) => t[q][d] \in Value
    BY HeldIsHighest
  <2>3. Holds(t, q, d) => Import(EmptyTable, q, d, t[q][d])[q][d] = t[q][d]
    BY <2>2, ValueAssumption DEF Import, EmptyTable, Value, None
  <2> QED
    BY <2>1, <2>3
<1>2. \A d \in Checksum : t[p][d] \in Value \cup {None}
  BY DEF Good, Tables
<1>3. /\ Highest(t, p) \in Value \cup {None}
      /\ \A d \in Checksum : t[p][d] <= Highest(t, p)
      /\ \E d \in Checksum : t[p][d] = Highest(t, p)
  BY HighestOf
<1> HIDE DEF u
<1>4. Highest(u, p) = Highest(t, p)
  <2>1. \A d \in Checksum : u[p][d] \in {Highest(t, p), None}
    BY <1>1, HeldIsHighest
  <2>2. PICK e \in Checksum : t[p][e] = Highest(t, p)
    BY <1>3
  <2>3. u[p][e] = Highest(t, p)
    BY <1>1, <1>3, <2>2, ValueAssumption DEF Holds, Value, None
  <2>4. \A d \in Checksum : u[p][d] <= Highest(t, p)
    BY <1>3, <2>1, ValueAssumption DEF Value, None
  <2>5. Highest(u, p) \in {u[p][d] : d \in Checksum}
        /\ \A d \in Checksum : u[p][d] <= Highest(u, p)
    BY <2>3, <2>4 DEF Highest
  <2> QED
    BY <1>3, <2>1, <2>3, <2>4, <2>5, ValueAssumption DEF Value, None
<1>5. Holds(u, p, c) <=> Holds(t, p, c)
  BY <1>1, <1>3, <1>4, ValueAssumption DEF Holds, Value, None
<1> QED
  BY <1>1, <1>4, <1>5 DEF ValueOf, u

\* Importing what was exported is enough: PRTable.export() of lib/prserv/db.py.
THEOREM ExportHolds == Spec => []ExportSuffices
<1>1. Inv => ExportSuffices
  BY ExportedTable DEF Inv, Transactions, ExportSuffices
<1> QED
  BY <1>1, InvariantHolds, PTL

=============================================================================
