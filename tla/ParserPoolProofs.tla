-------------------------- MODULE ParserPoolProofs --------------------------
(***************************************************************************)
(* Proofs about ParserPool, for any number of parsers and recipes.         *)
(***************************************************************************)
EXTENDS ParserPoolProperties, FiniteSetTheorems, WellFoundedInduction, TLAPS

Busy == {"loop", "parse", "send", "sent", "close"}

\* The variables of the server and of the pool, each with what relates them.
ServerTypes ==
    /\ state \in {"initial", "parsing", "running", "stopped"}
    /\ made \in BOOLEAN /\ haveshutdown \in BOOLEAN /\ quit \in BOOLEAN
    /\ at \in [Thread -> Places] /\ pos \in [Thread -> Nat \ {0}]
    /\ victim \in [Thread -> Parser \cup {None}]
    /\ \A t \in Thread : at[t] = "kill" <=> victim[t] # None
    /\ processes \in Seq(Parser) /\ copy \in Seq(Parser)
    /\ parsed \in Nat /\ empty \in BOOLEAN
    /\ reason \in {"none", "stop", "complete", "error"}

PoolTypes ==
    /\ proc \in [Parser -> Busy \cup {"none", "dead", "reaped", "closed"}]
    /\ jobs \in [Parser -> Nat] /\ buf \in [Parser -> Seq({"ok", "bad"})]
    /\ signals \subseteq Parser /\ mute \subseteq Parser
    /\ pipe \in Seq({"ok", "bad"}) /\ Len(pipe) <= PipeResults
    /\ writer \in Parser \cup {None} /\ torn \in BOOLEAN /\ sender \in Parser \cup {None}
    /\ writer # None /\ proc[writer] \in Busy => buf[writer] # <<>>
    /\ failed \in BOOLEAN /\ killed \subseteq Parser /\ termed \subseteq Parser
    /\ EventLockFreed

\* Before the pool is made nobody runs in it.
Unmade ==
    /\ at["idle"] = "construct" => ~made
    /\ ~made => /\ at["idle"] \in {"update", "construct", "ended"}
                /\ at["main"] \in {"free", "look", "ended"}
                /\ proc = [p \in Parser |-> "none"]
                /\ writer = None /\ sender = None

IInv == ServerTypes /\ PoolTypes /\ Unmade

LEMMA Names == /\ None \notin Parser /\ Parser \subseteq Nat
               /\ Thread = {"idle", "main"}
BY PoolAssumption DEF None, Parser, Thread

LEMMA TypesAreTypeOK == ServerTypes /\ PoolTypes => TypeOK
BY DEF ServerTypes, PoolTypes, TypeOK, Alive, Busy

LEMMA InitTypes == Init => IInv
<1> SUFFICES ASSUME Init PROVE IInv
  OBVIOUS
<1>1. ServerTypes
  <2>1. /\ at \in [Thread -> Places] /\ pos \in [Thread -> Nat \ {0}]
        /\ victim \in [Thread -> Parser \cup {None}]
        /\ \A t \in Thread : at[t] = "kill" <=> victim[t] # None
    BY Names DEF Init, Places
  <2>2. processes \in Seq(Parser) /\ copy \in Seq(Parser) /\ parsed \in Nat
    BY DEF Init
  <2> QED
    BY <2>1, <2>2 DEF Init, ServerTypes
<1>2. PoolTypes
  <2>1. /\ proc \in [Parser -> Busy \cup {"none", "dead", "reaped", "closed"}]
        /\ jobs \in [Parser -> Nat] /\ buf \in [Parser -> Seq({"ok", "bad"})]
        /\ pipe \in Seq({"ok", "bad"}) /\ Len(pipe) <= PipeResults
    BY PoolAssumption DEF Init
  <2> QED
    BY <2>1 DEF Init, PoolTypes, EventLockFreed
<1>3. Unmade
  BY Names DEF Init, Unmade
<1> QED
  BY <1>1, <1>2, <1>3 DEF IInv

-----------------------------------------------------------------------------
(* The parsers.                                                            *)

LEMMA DieTypes ==
    ASSUME PoolTypes, NEW p \in Parser, Die(p), proc[p] # "send" \/ p \in killed',
           sender' = sender, failed' = failed, killed \subseteq killed',
           killed' \subseteq Parser, termed' \subseteq Parser
    PROVE  PoolTypes'
<1>1. torn' \in BOOLEAN
  BY DEF Die, PoolTypes
<1>2. /\ proc' \in [Parser -> Busy \cup {"none", "dead", "reaped", "closed"}]
      /\ buf' \in [Parser -> Seq({"ok", "bad"})]
  BY DEF Die, Go, PoolTypes
<1>3. writer' # None /\ proc'[writer'] \in Busy => buf'[writer'] # <<>>
  BY Names DEF Die, Go, PoolTypes, Busy
<1>4. EventLockFreed'
  BY Names DEF Die, Go, PoolTypes, EventLockFreed
<1> QED
  BY <1>1, <1>2, <1>3, <1>4 DEF Die, PoolTypes

LEMMA PutTypes ==
    ASSUME PoolTypes, NEW p \in Parser, Parsing(p), NEW r \in {"ok", "bad"}, Put(p, r),
           UNCHANGED <<jobs, signals, mute, result_queue, sender, killed, termed>>,
           failed' = failed \/ failed' = TRUE
    PROVE  PoolTypes'
<1>1. /\ proc' \in [Parser -> Busy \cup {"none", "dead", "reaped", "closed"}]
      /\ buf' \in [Parser -> Seq({"ok", "bad"})]
  BY DEF Put, Go, PoolTypes, Busy
<1>2. writer' # None /\ proc'[writer'] \in Busy => buf'[writer'] # <<>>
  BY Names DEF Put, Go, Parsing, PoolTypes, Busy, result_queue
<1>3. EventLockFreed'
  BY Names DEF Put, Go, Parsing, PoolTypes, EventLockFreed
<1>4. failed' \in BOOLEAN
  BY DEF PoolTypes
<1> QED
  BY <1>1, <1>2, <1>3, <1>4 DEF PoolTypes, result_queue

\* A step of one parser that is in the pool.
LEMMA ParserTypes ==
    ASSUME PoolTypes, NEW p \in Parser,
           ParserStep(p) \/ BeginWrite(p) \/ EndWrite(p) \/ Killed(p)
    PROVE  PoolTypes' /\ UNCHANGED server /\ proc[p] # "none"
<1>1. CASE Pop(p)
  <2>1. jobs' \in [Parser -> Nat]
    BY <1>1 DEF Pop, PoolTypes
  <2> QED
    BY <1>1, <2>1, Names DEF Pop, Go, PoolTypes, EventLockFreed, Busy, result_queue, history
<1>2. CASE LeaveLoop(p)
  BY <1>2, Names DEF LeaveLoop, Go, PoolTypes, EventLockFreed, Busy, parsers, result_queue, history
<1>3. CASE Send(p)
  BY <1>3, Names DEF Send, Go, PoolTypes, EventLockFreed, Busy, parsers, result_queue, history
<1>4. CASE Sent(p)
  BY <1>4, Names DEF Sent, Go, PoolTypes, EventLockFreed, Busy, result_queue, history
<1>5. CASE Parsed(p)
  BY <1>5, PutTypes DEF Parsed, Parsing, history, PoolTypes
<1>6. CASE ParseFails(p)
  BY <1>6, PutTypes DEF ParseFails, Parsing
<1>7. CASE Exit(p)
  BY <1>7, Names DEF Exit, Go, PoolTypes, EventLockFreed, Busy, parsers, result_queue, history
<1>8. CASE BeginWrite(p)
  BY <1>8, Names DEF BeginWrite, Alive, Go, PoolTypes, EventLockFreed, Busy, parsers, history
<1>9. CASE EndWrite(p)
  BY <1>9, Names, PoolAssumption DEF EndWrite, Alive, Go, PoolTypes, EventLockFreed, Busy, history
<1>10. CASE Killed(p)
  <2>1. /\ Die(p) /\ killed' = killed \cup {p} /\ proc[p] # "none"
        /\ UNCHANGED <<server, sender, failed, termed>>
    BY <1>10 DEF Killed, Alive
  <2> QED
    BY <2>1, DieTypes DEF PoolTypes
<1> QED
  BY <1>1, <1>2, <1>3, <1>4, <1>5, <1>6, <1>7, <1>8, <1>9, <1>10 DEF ParserStep

\* Signals, for a parser or for none of them.
LEMMA InterruptTypes ==
    ASSUME PoolTypes, NEW p \in Parser, Interrupt(p), UNCHANGED <<sender, history>>
    PROVE  PoolTypes'
<1>1. CASE QueueSignal(p)
  BY <1>1 DEF QueueSignal, PoolTypes, EventLockFreed, result_queue, history
<1>2. CASE ~Alive(p) /\ UNCHANGED <<proc, parsers, result_queue>>
  BY <1>2 DEF PoolTypes, EventLockFreed, parsers, result_queue, history
<1>3. CASE Parsing(p) /\ Put(p, "bad") /\ UNCHANGED <<jobs, signals, mute, result_queue>>
  BY <1>3, PutTypes DEF Parsing, history, PoolTypes
<1>4. CASE /\ mute' = mute \cup {p}
           /\ UNCHANGED <<proc, jobs, buf, signals, result_queue>>
  BY <1>4 DEF PoolTypes, EventLockFreed, result_queue, history
<1>5. CASE proc[p] = "loop" /\ Go(p, "close") /\ UNCHANGED <<parsers, result_queue>>
  BY <1>5, Names DEF Go, PoolTypes, EventLockFreed, Busy, parsers, result_queue, history
<1>6. CASE proc[p] = "close" /\ Die(p)
  BY <1>6, DieTypes DEF history, PoolTypes
<1> QED
  BY <1>1, <1>2, <1>3, <1>4, <1>5, <1>6 DEF Interrupt

LEMMA TerminateTypes ==
    ASSUME PoolTypes, NEW p \in Parser, Terminate(p), termed' \subseteq termed \cup {p},
           UNCHANGED <<sender, failed, killed>>
    PROVE  PoolTypes'
<1>1. CASE QueueSignal(p)
  BY <1>1 DEF QueueSignal, PoolTypes, EventLockFreed, result_queue
<1>2. CASE ~Alive(p) /\ UNCHANGED <<proc, parsers, result_queue>>
  BY <1>2 DEF PoolTypes, EventLockFreed, parsers, result_queue
<1>3. CASE ~Queued(p) /\ Die(p)
  BY <1>3, DieTypes DEF Queued, PoolTypes
<1> QED
  BY <1>1, <1>2, <1>3 DEF Terminate

\* A process that has ended is collected, or its object is closed.
LEMMA CollectTypes ==
    ASSUME PoolTypes, NEW p \in Parser, NEW where \in {"reaped", "closed"},
           proc[p] \in {"dead", "reaped"}, Go(p, where),
           UNCHANGED <<parsers, result_queue, sender, history>>
    PROVE  PoolTypes'
BY Names DEF Go, PoolTypes, EventLockFreed, Busy, parsers, result_queue, history

LEMMA PollTypes ==
    ASSUME PoolTypes, NEW p \in Parser, Poll(p),
           UNCHANGED <<parsers, result_queue, sender, history>>
    PROVE  PoolTypes'
<1>1. CASE proc[p] = "dead"
  BY <1>1, CollectTypes DEF Poll, Go
<1>2. CASE proc[p] # "dead"
  BY <1>2 DEF Poll, PoolTypes, EventLockFreed, parsers, result_queue, history
<1> QED
  BY <1>1, <1>2

LEMMA PoolStays ==
    ASSUME PoolTypes, UNCHANGED pool PROVE PoolTypes'
BY DEF PoolTypes, EventLockFreed, pool, parsers, result_queue, history

\* A result is taken from the pipe.
LEMMA TakeTypes ==
    ASSUME PoolTypes, pipe # <<>>, pipe' = Tail(pipe),
           UNCHANGED <<proc, parsers, writer, torn, sender, history>>
    PROVE  PoolTypes'
BY PoolAssumption DEF PoolTypes, EventLockFreed, parsers, history
-----------------------------------------------------------------------------
(* The threads of the server.                                              *)

\* The place of one thread and its position in a list change, and the state of the
\* cooker; no signal is about to be sent by it, before or after.
LEMMA MoveTypes ==
    ASSUME ServerTypes, NEW t \in Thread, NEW where \in Places \ {"kill"},
           at[t] # "kill", Goto(t, where), victim' = victim,
           pos' = pos \/ pos' = [pos EXCEPT ![t] = 1],
           state' \in {state, "running", "parsing", "stopped"},
           haveshutdown' \in {haveshutdown, TRUE}, quit' \in {quit, TRUE},
           made' \in {made, TRUE}, UNCHANGED round \/ UNCHANGED <<parsed, empty>>,
           processes' \in Seq(Parser), copy' \in Seq(Parser),
           reason' \in {reason, "stop", "complete", "error"}
    PROVE  ServerTypes'
<1>1. /\ at' \in [Thread -> Places]
      /\ \A x \in Thread : at'[x] = "kill" <=> victim'[x] # None
  BY DEF Goto, ServerTypes
<1>2. pos' \in [Thread -> Nat \ {0}] /\ victim' \in [Thread -> Parser \cup {None}]
  BY DEF ServerTypes
<1>3. haveshutdown' \in BOOLEAN /\ quit' \in BOOLEAN /\ made' \in BOOLEAN
  BY DEF ServerTypes
<1>4. parsed' \in Nat /\ empty' \in BOOLEAN
  BY DEF ServerTypes, round
<1> QED
  BY <1>1, <1>2, <1>3, <1>4 DEF ServerTypes

\* The steps of shutdown() that only move.
LEMMA ShutdownMoves ==
    ASSUME ServerTypes, NEW t \in Thread,
           Check(t) \/ Enter(t) \/ Event(t) \/ Drained(t) \/ Quit(t) \/ Through(t) \/ Raise(t)
    PROVE  ServerTypes' /\ UNCHANGED <<made, pool>>
<1> USE DEF Places, round, cooker
<1>0. processes \in Seq(Parser) /\ copy \in Seq(Parser)
  BY DEF ServerTypes
<1>1. CASE Check(t)
  BY <1>0, <1>1, MoveTypes DEF Check, Return
<1>2. CASE Enter(t)
  BY <1>0, <1>2, MoveTypes DEF Enter
<1>3. CASE Event(t)
  BY <1>0, <1>3, MoveTypes DEF Event
<1>4. CASE Drained(t)
  BY <1>0, <1>4, MoveTypes DEF Drained
<1>5. CASE Quit(t)
  BY <1>0, <1>5, MoveTypes DEF Quit
<1>6. CASE Through(t)
  BY <1>0, <1>6, MoveTypes DEF Through, Return
<1>7. CASE Raise(t)
  BY <1>0, <1>7, MoveTypes DEF Raise, In
<1> QED
  BY <1>1, <1>2, <1>3, <1>4, <1>5, <1>6, <1>7

\* Its steps about one process: to that process they do what a signal or a wait does.
LEMMA ThisIsParser ==
    ASSUME ServerTypes, NEW t \in Thread, pos[t] <= Len(processes)
    PROVE  This(t) \in Parser
BY DEF This, ServerTypes

LEMMA KillTypes ==
    ASSUME ServerTypes, PoolTypes, NEW t \in Thread, ToKill(t) \/ Kill(t) \/ KillFails(t)
    PROVE  ServerTypes' /\ PoolTypes' /\ made' = made
<1>1. CASE ToKill(t)
  <2>1. This(t) \in Parser /\ This(t) # None
    BY <1>1, Names, ThisIsParser DEF ToKill, In
  <2>2. ServerTypes'
    BY <1>1, <2>1 DEF ToKill, In, Goto, ServerTypes, Places, cooker, round
  <2> QED
    BY <1>1, <2>2, PoolStays DEF ToKill, cooker
<1>2. CASE Kill(t)
  <2>1. victim[t] \in Parser
    BY <1>2 DEF Kill, ServerTypes
  <2>2. ServerTypes'
    BY <1>2 DEF Kill, NextOne, Goto, ServerTypes, Places, cooker, round
  <2> QED
    BY <1>2, <2>1, <2>2, InterruptTypes DEF Kill, cooker
<1>3. CASE KillFails(t)
  <2>1. ServerTypes'
    BY <1>3 DEF KillFails, Goto, ServerTypes, Places, cooker, round
  <2> QED
    BY <1>3, <2>1, PoolStays DEF KillFails, cooker
<1> QED
  BY <1>1, <1>2, <1>3

LEMMA NextOneTypes ==
    ASSUME ServerTypes, NEW t \in Thread, NextOne(t),
           UNCHANGED <<cooker, at, victim, round, processes>>
    PROVE  ServerTypes' /\ made' = made
BY DEF NextOne, ServerTypes, cooker, round

LEMMA ListTypes ==
    ASSUME ServerTypes, PoolTypes, NEW t \in Thread, TermOne(t) \/ PassOver(t) \/ JoinOne(t)
    PROVE  ServerTypes' /\ PoolTypes' /\ made' = made
<1>1. This(t) \in Parser
  BY ThisIsParser DEF TermOne, PassOver, JoinOne, In
<1>2. CASE TermOne(t)
  BY <1>1, <1>2, NextOneTypes, TerminateTypes DEF TermOne
<1>3. CASE PassOver(t)
  BY <1>1, <1>3, NextOneTypes, PollTypes DEF PassOver
<1>4. CASE JoinOne(t)
  BY <1>1, <1>4, NextOneTypes, CollectTypes DEF JoinOne
<1> QED
  BY <1>2, <1>3, <1>4

LEMMA ShutdownTypes ==
    ASSUME IInv, NEW t \in Thread, Shutdown(t)
    PROVE  IInv'
<1>1. at[t] \notin {"update", "construct", "ended", "free", "look"}
  BY DEF Shutdown, Check, Enter, Event, Drain, Drained, Quit, Through, Raise, ToKill, Kill,
         KillFails, TermOne, PassOver, JoinOne, In
<1>2. made
  BY <1>1, Names DEF IInv, Unmade
<1>3. at'["idle"] # "construct"
  <2>1. at["idle"] # "construct" /\ at \in [Thread -> Places]
    BY <1>2 DEF IInv, Unmade, ServerTypes
  <2>2. at' = at \/ \E where \in Places : where # "construct" /\ at' = [at EXCEPT ![t] = where]
    BY DEF Shutdown, Check, Return, Enter, Event, Drain, Drained, Quit, Through, Raise, ToKill,
           Kill, KillFails, TermOne, PassOver, JoinOne, Goto, Places, server, threads
  <2> QED
    BY <2>1, <2>2, Names
<1>4. CASE Drain(t)
  <2>1. ServerTypes' /\ made' = made
    BY <1>4 DEF Drain, IInv, ServerTypes, server, cooker, threads, round
  <2> QED
    BY <1>2, <1>3, <1>4, <2>1, TakeTypes DEF Drain, IInv, Unmade
<1>5. CASE Check(t) \/ Enter(t) \/ Event(t) \/ Drained(t) \/ Quit(t) \/ Through(t) \/ Raise(t)
  BY <1>2, <1>3, <1>5, ShutdownMoves, PoolStays DEF IInv, Unmade
<1>6. CASE ToKill(t) \/ Kill(t) \/ KillFails(t)
  BY <1>2, <1>3, <1>6, KillTypes DEF IInv, Unmade
<1>7. CASE TermOne(t) \/ PassOver(t) \/ JoinOne(t)
  BY <1>2, <1>3, <1>7, ListTypes DEF IInv, Unmade
<1> QED
  BY <1>4, <1>5, <1>6, <1>7 DEF Shutdown
-----------------------------------------------------------------------------
(* The idle thread, and the stop.                                          *)

\* list.remove() of an ended process takes that one, if it is there.
LEMMA RemoveIs ==
    ASSUME NEW s \in Seq(Parser), NEW p \in Parser
    PROVE  \/ RemoveFirst(s, p) = s
           \/ \E k \in 1..Len(s) : /\ s[k] = p
                                   /\ RemoveFirst(s, p) = SubSeq(s, 1, k - 1) \o SubSeq(s, k + 1, Len(s))
<1>1. CASE ~ \E i \in 1..Len(s) : s[i] = p
  BY <1>1 DEF RemoveFirst
<1>2. CASE \E i \in 1..Len(s) : s[i] = p
  <2> DEFINE I == {i \in 1..Len(s) : s[i] = p}
             k == CHOOSE x \in I : \A y \in I : x <= y
  <2>1. RemoveFirst(s, p) = SubSeq(s, 1, k - 1) \o SubSeq(s, k + 1, Len(s))
    BY <1>2 DEF RemoveFirst, RemoveAt, SelectInSeq, Min
  <2>2. I \in SUBSET Nat /\ I # {}
    BY <1>2
  <2>3. PICK m \in I : \A y \in I : m <= y
    <3> DEFINE R == {ss \in Nat \X Nat : ss[1] < ss[2]}
    <3>1. IsWellFoundedOn(R, Nat)
      BY NatLessThanWellFounded DEF OpToRel
    <3> HIDE DEF R
    <3>2. PICK m \in I : \A y \in I : ~(<<y, m>> \in R)
      BY <2>2, <3>1, WFMin
    <3>3. \A y \in I : ~(y < m)
      BY <2>2, <3>2 DEF R
    <3> QED
      BY <2>2, <3>3
  <2>4. k \in I
    BY <2>3
  <2> HIDE DEF k
  <2> QED
    BY <2>1, <2>4
<1> QED
  BY <1>1, <1>2

LEMMA RemoveTypes ==
    ASSUME NEW s \in Seq(Parser), NEW p \in Parser PROVE RemoveFirst(s, p) \in Seq(Parser)
<1>1. ASSUME NEW k \in 1..Len(s),
             RemoveFirst(s, p) = SubSeq(s, 1, k - 1) \o SubSeq(s, k + 1, Len(s))
      PROVE  RemoveFirst(s, p) \in Seq(Parser)
  <2>1. SubSeq(s, 1, k - 1) \in Seq(Parser) /\ SubSeq(s, k + 1, Len(s)) \in Seq(Parser)
    OBVIOUS
  <2> QED
    BY <1>1, <2>1
<1> QED
  BY <1>1, RemoveIs

LEMMA RoundMoves ==
    ASSUME ServerTypes, Unmade, UpdateStopped \/ Update \/ Assign \/ While \/ GiveUp \/ ReapFails \/ Reaped
    PROVE  ServerTypes' /\ UNCHANGED pool /\ Unmade'
<1> USE DEF Places, round, cooker
<1>0. processes \in Seq(Parser) /\ copy \in Seq(Parser) /\ <<>> \in Seq(Parser)
      /\ "idle" \in Thread
  BY Names DEF ServerTypes
<1>1. CASE UpdateStopped
  <2>1. ServerTypes' /\ UNCHANGED pool
    BY <1>0, <1>1, MoveTypes DEF UpdateStopped
  <2> QED
    BY <1>1, <2>1 DEF UpdateStopped, Unmade, Goto, pool, ServerTypes, result_queue
<1>2. CASE Update
  <2>1. ServerTypes' /\ UNCHANGED pool
    BY <1>0, <1>2, MoveTypes DEF Update
  <2> QED
    BY <1>2, <2>1 DEF Update, Unmade, Goto, pool, ServerTypes, result_queue
<1>3. CASE Assign
  <2>1. ServerTypes' /\ UNCHANGED pool
    BY <1>0, <1>3, MoveTypes DEF Assign
  <2> QED
    BY <1>3, <2>1 DEF Assign, Unmade, Goto, pool, ServerTypes, result_queue
<1>4. CASE While
  <2>1. ServerTypes' /\ UNCHANGED pool
    BY <1>0, <1>4, MoveTypes DEF While
  <2> QED
    BY <1>4, <2>1 DEF While, Unmade, Goto, pool, ServerTypes, result_queue
<1>5. CASE GiveUp
  <2>1. ServerTypes' /\ UNCHANGED pool
    BY <1>0, <1>5, MoveTypes DEF GiveUp, Over
  <2> QED
    BY <1>5, <2>1 DEF GiveUp, Over, Unmade, Goto, pool, ServerTypes, result_queue
<1>6. CASE ReapFails
  <2>1. ServerTypes' /\ UNCHANGED pool
    BY <1>0, <1>6, MoveTypes DEF ReapFails, Over
  <2> QED
    BY <1>6, <2>1 DEF ReapFails, Over, Unmade, Goto, pool, ServerTypes, result_queue
<1>7. CASE Reaped
  <2>1. ServerTypes' /\ UNCHANGED pool
    BY <1>0, <1>7, MoveTypes DEF Reaped, Over
  <2> QED
    BY <1>7, <2>1 DEF Reaped, Over, Unmade, Goto, pool, ServerTypes, result_queue
<1> QED
  BY <1>1, <1>2, <1>3, <1>4, <1>5, <1>6, <1>7
LEMMA ConstructTypes ==
    ASSUME IInv, Construct PROVE IInv'
<1>1. ~made /\ proc = [p \in Parser |-> "none"] /\ writer = None /\ sender = None
  BY DEF IInv, Unmade, Construct
<1>2. processes' \in Seq(Parser)
  BY PoolAssumption DEF Construct, Parser
<1>3. ServerTypes'
  BY <1>2, Names, MoveTypes DEF Construct, IInv, ServerTypes, Places, round
<1>4. PoolTypes'
  <2>1. proc' \in [Parser -> Busy \cup {"none", "dead", "reaped", "closed"}]
    BY DEF Construct, Busy
  <2> QED
    BY <1>1, <2>1 DEF Construct, IInv, PoolTypes, EventLockFreed, parsers, result_queue, history
<1>5. Unmade'
  BY Names DEF Construct, Goto, Unmade, IInv, ServerTypes
<1> QED
  BY <1>3, <1>4, <1>5 DEF IInv

\* The idle thread takes an ended process from the list, or a result from the pipe.
LEMMA TakingTypes ==
    ASSUME IInv, Reap \/ GetResult \/ GetEmpty PROVE IInv'
<1>1. made /\ "idle" \in Thread
  BY Names DEF IInv, Unmade, Reap, GetResult, GetEmpty
<1>2. CASE Reap
  <2>1. Head(copy) \in Parser /\ Tail(copy) \in Seq(Parser)
    BY <1>2 DEF Reap, IInv, ServerTypes
  <2>2. processes' \in Seq(Parser)
    BY <1>2, <2>1, RemoveTypes DEF Reap, IInv, ServerTypes
  <2>3. ServerTypes'
    BY <1>2, <2>1, <2>2 DEF Reap, IInv, ServerTypes, cooker, threads
  <2>4. PoolTypes'
    BY <1>2, <2>1, PollTypes DEF Reap, IInv
  <2> QED
    BY <1>1, <1>2, <2>3, <2>4 DEF Reap, IInv, Unmade, cooker, threads
<1>3. CASE GetResult
  <2>1. PoolTypes'
    BY <1>3, TakeTypes DEF GetResult, IInv
  <2>2. /\ at' \in [Thread -> Places]
        /\ \A x \in Thread : at'[x] = "kill" <=> victim'[x] # None
    BY <1>1, <1>3 DEF GetResult, Over, Goto, IInv, ServerTypes, Places
  <2>3. parsed' \in Nat /\ reason' \in {"none", "stop", "complete", "error"}
    BY <1>3 DEF GetResult, Over, IInv, ServerTypes
  <2>4. ServerTypes'
    BY <1>3, <2>2, <2>3 DEF GetResult, IInv, ServerTypes, cooker
  <2> QED
    BY <1>1, <1>3, <2>1, <2>4 DEF GetResult, Over, Goto, IInv, Unmade, cooker, ServerTypes
<1>4. CASE GetEmpty
  <2>1. /\ at' \in [Thread -> Places]
        /\ \A x \in Thread : at'[x] = "kill" <=> victim'[x] # None
    BY <1>1, <1>4 DEF GetEmpty, Goto, IInv, ServerTypes, Places
  <2>2. ServerTypes'
    BY <1>4, <2>1 DEF GetEmpty, IInv, ServerTypes, cooker
  <2> QED
    BY <1>1, <1>4, <2>2, PoolStays DEF GetEmpty, Goto, IInv, Unmade, cooker, ServerTypes
<1> QED
  BY <1>2, <1>3, <1>4

LEMMA StopTypes ==
    ASSUME IInv, Stop \/ Look PROVE IInv'
<1>1. "main" \in Thread /\ processes \in Seq(Parser) /\ copy \in Seq(Parser)
  BY Names DEF IInv, ServerTypes
<1>2. CASE Stop
  <2>1. ServerTypes'
    BY <1>1, <1>2, MoveTypes DEF Stop, IInv, Places, round
  <2> QED
    BY <1>1, <1>2, <2>1, PoolStays DEF Stop, Goto, IInv, Unmade, ServerTypes, pool, result_queue
<1>3. CASE Look
  <2>1. ServerTypes'
    BY <1>1, <1>3, MoveTypes DEF Look, IInv, Places, round, cooker
  <2> QED
    BY <1>1, <1>3, <2>1, PoolStays
    DEF Look, Goto, IInv, Unmade, ServerTypes, pool, result_queue, cooker
<1> QED
  BY <1>2, <1>3

-----------------------------------------------------------------------------
LEMMA NextTypes == IInv /\ [Next]_vars => IInv'
<1> SUFFICES ASSUME IInv, [Next]_vars PROVE IInv'
  OBVIOUS
<1>1. CASE Round
  <2>1. CASE UpdateStopped \/ Update \/ Assign \/ While \/ GiveUp \/ ReapFails \/ Reaped
    BY <2>1, RoundMoves, PoolStays DEF IInv
  <2> QED
    BY <1>1, <2>1, ConstructTypes, TakingTypes DEF Round
<1>2. ASSUME NEW p \in Parser, ParserStep(p) \/ BeginWrite(p) \/ EndWrite(p) \/ Killed(p)
      PROVE  IInv'
  <2>1. PoolTypes' /\ UNCHANGED server /\ proc[p] # "none"
    BY <1>2, ParserTypes DEF IInv
  <2>2. made
    BY <2>1 DEF IInv, Unmade
  <2> QED
    BY <2>1, <2>2 DEF IInv, ServerTypes, Unmade, server, cooker, threads, round
<1>3. CASE UNCHANGED vars
  BY <1>3, PoolStays
  DEF vars, IInv, ServerTypes, Unmade, server, cooker, threads, round, pool, result_queue
<1> QED
  BY <1>1, <1>2, <1>3, ShutdownTypes, StopTypes DEF Next

\* Whatever is killed and whenever the cooker is stopped, the variables of both
\* threads, of the parsers and of the queue between them keep their types.
THEOREM TypeHolds == Spec => []TypeOK
<1>1. IInv => TypeOK
  BY TypesAreTypeOK DEF IInv
<1> QED
  BY <1>1, InitTypes, NextTypes, PTL DEF Spec

\* The comment of lib/bb/cooker.py:2091 for any number of parsers: whichever
\* thread shuts the pool down, and however its signals and the events of the
\* parsers come together, the lock of the event pipe is held by a parser that is
\* sending, or by one that somebody else has killed.
THEOREM LockFreed == Spec => []EventLockFreed
<1>1. IInv => EventLockFreed
  BY DEF IInv, PoolTypes
<1> QED
  BY <1>1, InitTypes, NextTypes, PTL DEF Spec

-----------------------------------------------------------------------------
(* How many results there are.                                             *)

\* Of its share a parser takes the last recipe first: it has not written the
\* results of those it has yet to parse, is parsing, or has in its buffer.
Being(p) == IF proc[p] \in {"parse", "send", "sent"} THEN 1 ELSE 0

Unwritten(p) == jobs[p] + Being(p) + Len(buf[p])

Written == {r \in willparse : r[2] > Unwritten(r[1])}

BadIn(results) == \E i \in 1..Len(results) : results[i] = "bad"

\* Results are lost, never made: with each bad one there is a recipe less that
\* can be counted.
Counted ==
    /\ \A p \in Parser : Unwritten(p) <= Recipes[p]
    /\ parsed + Len(pipe) <= Cardinality(Written)
    /\ failed => \/ BadIn(pipe) \/ \E p \in Parser : BadIn(buf[p])
                 \/ parsed + Len(pipe) < Cardinality(Written)
    /\ reason = "complete" => ~failed /\ Written = willparse

\* While no recipe fails, no parser is killed and nobody stops the cooker,
Undisturbed == ~failed /\ killed = {} /\ at["main"] = "free"

\* no result is lost, and none comes late:
Parting == at["idle"] \in {"update", "construct", "assign", "while", "reap", "get"}

Thrifty(p) ==
    /\ ~BadIn(buf[p]) /\ proc[p] # "closed"
    /\ proc[p] \in {"close", "dead", "reaped"} => jobs[p] = 0
    /\ proc[p] \in {"dead", "reaped"} => buf[p] = <<>>
    /\ made => proc[p] # "none"

Listed(p) == \E i \in 1..Len(processes) : processes[i] = p

NothingLost ==
    /\ reason = "none" /\ ~quit /\ ~haveshutdown
    /\ parsed + Len(pipe) = Cardinality(Written)
    /\ ~BadIn(pipe) /\ \A p \in Parser : Thrifty(p)
    /\ made => \A p \in Parser : proc[p] = "reaped" \/ Listed(p)
    /\ processes = <<>> /\ empty /\ at["idle"] \notin {"reap", "get"} => pipe = <<>>

\* and the pool is shut down when the parsing is complete, by one thread.
ShutDown ==
    /\ reason = "complete" /\ at["idle"] # "raised"
    /\ at["idle"] \notin {"join", "ended"} => \A p \in Parser : proc[p] # "closed"
    /\ at["idle"] = "join" =>
         \A i \in 1..Len(processes) : i >= pos["idle"] => proc[processes[i]] # "closed"
    /\ at["idle"] = "kill" => proc[victim["idle"]] # "reaped"

Apart == \A i, j \in 1..Len(processes) : processes[i] = processes[j] => i = j

Smooth ==
    /\ state # "stopped" /\ Apart
    /\ IF Parting THEN NothingLost ELSE ShutDown

SInv == Undisturbed => Smooth

-----------------------------------------------------------------------------
LEMMA Willparse ==
    /\ IsFiniteSet(willparse)
    /\ \A p \in Parser : \A i \in 1..Recipes[p] : <<p, i>> \in willparse
    /\ \A r \in willparse : r = <<r[1], r[2]>> /\ r[1] \in Parser /\ r[2] \in 1..Recipes[r[1]]
<1> DEFINE share == [p \in Parser |-> {p} \X (1..Recipes[p])]
           S == {{p} \X (1..Recipes[p]) : p \in Parser}
<1>1. IsFiniteSet(S)
  <2>1. share \in Surjection(Parser, S)
    BY DEF Surjection
  <2>2. IsFiniteSet(Parser)
    BY PoolAssumption, FS_Interval DEF Parser
  <2> HIDE DEF share, S
  <2> QED
    BY <2>1, <2>2, FS_Surjection
<1>2. \A T \in S : IsFiniteSet(T)
  <2> SUFFICES ASSUME NEW p \in Parser PROVE IsFiniteSet({p} \X (1..Recipes[p]))
    OBVIOUS
  <2>1. IsFiniteSet({p}) /\ IsFiniteSet(1..Recipes[p])
    <3>1. Recipes[p] \in Int
      BY PoolAssumption
    <3> HIDE DEF S, share
    <3>2. IsFiniteSet({p})
      BY FS_Singleton
    <3>3. IsFiniteSet(1..Recipes[p])
      BY <3>1, FS_Interval
    <3> QED
      BY <3>2, <3>3
  <2> QED
    BY <2>1, FS_Product
<1>3. IsFiniteSet(willparse)
  BY <1>1, <1>2, FS_UNION DEF willparse
<1> QED
  BY <1>3 DEF willparse

\* The numbers in a parser.
LEMMA Shares ==
    ASSUME PoolTypes, NEW p \in Parser
    PROVE  /\ Unwritten(p) \in Nat /\ Being(p) \in Nat /\ jobs[p] \in Nat
           /\ Len(buf[p]) \in Nat /\ Recipes[p] \in Nat \ {0}
BY PoolAssumption DEF Unwritten, Being, PoolTypes

LEMMA SharesLater ==
    ASSUME PoolTypes', NEW p \in Parser
    PROVE  /\ Unwritten(p)' \in Nat /\ Being(p)' \in Nat /\ jobs'[p] \in Nat
           /\ Len(buf'[p]) \in Nat
BY PoolAssumption DEF Unwritten, Being, PoolTypes

LEMMA SetsOfRecipes ==
    ASSUME NEW T \in SUBSET willparse, NEW S \in SUBSET T
    PROVE  /\ IsFiniteSet(S) /\ Cardinality(S) \in Nat /\ Cardinality(T) \in Nat
           /\ Cardinality(S) <= Cardinality(T)
           /\ Cardinality(S) = Cardinality(T) => S = T
<1>1. IsFiniteSet(T)
  BY Willparse, FS_Subset
<1> QED
  BY <1>1, FS_Subset, FS_CardinalityType

LEMMA AllWritten ==
    ASSUME PoolTypes
    PROVE  Written = willparse <=> \A p \in Parser : Unwritten(p) = 0
<1>1. ASSUME Written = willparse, NEW p \in Parser PROVE Unwritten(p) = 0
  <2>1. <<p, 1>> \in willparse
    BY Shares, Willparse
  <2>2. 1 > Unwritten(p)
    BY <1>1, <2>1 DEF Written
  <2> QED
    BY <2>2, Shares
<1>2. ASSUME \A p \in Parser : Unwritten(p) = 0 PROVE Written = willparse
  BY <1>2, Willparse, PoolAssumption DEF Written
<1> QED
  BY <1>1, <1>2

\* What is written is never unwritten.
Shrinks(p) == Unwritten(p)' <= Unwritten(p)

LEMMA Grows ==
    ASSUME PoolTypes, PoolTypes', \A p \in Parser : Shrinks(p)
    PROVE  /\ Written \subseteq Written' /\ Written' \subseteq willparse
           /\ Cardinality(Written) \in Nat /\ Cardinality(Written') \in Nat
           /\ Cardinality(Written) <= Cardinality(Written')
           /\ \A p \in Parser : Unwritten(p)' < Unwritten(p) /\ Unwritten(p) <= Recipes[p] =>
                Cardinality(Written) < Cardinality(Written')
           /\ (\A p \in Parser : Unwritten(p)' = Unwritten(p)) => Written' = Written
<1>1. ASSUME NEW r \in Written PROVE r \in Written'
  <2>1. r \in willparse /\ r[1] \in Parser /\ r[2] \in Nat /\ r[2] > Unwritten(r[1])
    BY <1>1, Willparse, PoolAssumption DEF Written
  <2>2. /\ Unwritten(r[1]) \in Nat /\ Unwritten(r[1])' \in Nat
        /\ Unwritten(r[1])' <= Unwritten(r[1])
    BY <2>1, Shares, SharesLater DEF Shrinks
  <2> HIDE DEF Unwritten
  <2>3. r[2] > Unwritten(r[1])'
    BY <2>1, <2>2
  <2> QED
    BY <2>1, <2>3 DEF Written
<1>2. Written' \subseteq willparse
  BY DEF Written
<1>3. /\ Cardinality(Written) \in Nat /\ Cardinality(Written') \in Nat
      /\ Cardinality(Written) <= Cardinality(Written')
      /\ Cardinality(Written) = Cardinality(Written') => Written = Written'
  BY <1>1, <1>2, SetsOfRecipes
<1>4. ASSUME NEW p \in Parser, Unwritten(p)' < Unwritten(p), Unwritten(p) <= Recipes[p]
      PROVE  Cardinality(Written) < Cardinality(Written')
  <2>1. /\ Unwritten(p) \in Nat /\ Unwritten(p)' \in Nat /\ Recipes[p] \in Nat
    BY Shares, SharesLater
  <2>2. <<p, Unwritten(p)>> \in willparse
    BY <1>4, <2>1, Willparse
  <2>3. <<p, Unwritten(p)>> \in Written' /\ <<p, Unwritten(p)>> \notin Written
    BY <1>4, <2>1, <2>2 DEF Written
  <2>4. Cardinality(Written) # Cardinality(Written')
    BY <1>3, <2>3
  <2> QED
    BY <1>3, <2>4
<1>5. ASSUME \A p \in Parser : Unwritten(p)' = Unwritten(p) PROVE Written' = Written
  BY <1>5, Willparse DEF Written
<1> QED
  BY <1>1, <1>2, <1>3, <1>4, <1>5

-----------------------------------------------------------------------------
(* Results are written, lost, and taken.                                   *)

\* What is in a parser is moved on in it, or lost.
Loses(p) ==
    Shrinks(p) /\ (BadIn(buf[p]) => BadIn(buf'[p]) \/ Unwritten(p)' < Unwritten(p))

LEMMA CountMoves ==
    ASSUME IInv, PoolTypes', Counted, UNCHANGED <<pipe, parsed, reason>>,
           \A p \in Parser : Loses(p),
           failed' => failed \/ \E p \in Parser : BadIn(buf'[p]) /\ Unwritten(p) > 0
    PROVE  Counted'
<1>0. PoolTypes /\ parsed \in Nat /\ Len(pipe) \in Nat
  <2>1. pipe \in Seq({"ok", "bad"}) /\ parsed \in Nat
    BY DEF IInv, ServerTypes, PoolTypes
  <2> QED
    BY <2>1 DEF IInv
<1>1. /\ Written \subseteq Written' /\ Written' \subseteq willparse
      /\ Cardinality(Written) \in Nat /\ Cardinality(Written') \in Nat
      /\ Cardinality(Written) <= Cardinality(Written')
      /\ \A p \in Parser : Unwritten(p)' < Unwritten(p) /\ Unwritten(p) <= Recipes[p] =>
           Cardinality(Written) < Cardinality(Written')
  BY <1>0, Grows DEF Loses
<1>2. \A p \in Parser : Unwritten(p)' <= Recipes[p]
  <2> SUFFICES ASSUME NEW p \in Parser PROVE Unwritten(p)' <= Recipes[p]
    OBVIOUS
  <2>1. Unwritten(p) \in Nat /\ Unwritten(p)' \in Nat /\ Recipes[p] \in Nat
    BY <1>0, Shares, SharesLater
  <2>2. Unwritten(p)' <= Unwritten(p) /\ Unwritten(p) <= Recipes[p]
    BY DEF Loses, Shrinks, Counted
  <2> QED
    BY <2>1, <2>2
<1>3. parsed' + Len(pipe') <= Cardinality(Written')
  BY <1>0, <1>1 DEF Counted
<1>4. failed' => \/ BadIn(pipe') \/ \E p \in Parser : BadIn(buf'[p])
                 \/ parsed' + Len(pipe') < Cardinality(Written')
  <2>1. CASE failed /\ parsed + Len(pipe) < Cardinality(Written)
    BY <1>0, <1>1, <2>1
  <2>2. ASSUME NEW p \in Parser, BadIn(buf[p])
        PROVE  BadIn(buf'[p]) \/ parsed' + Len(pipe') < Cardinality(Written')
    <3>1. BadIn(buf'[p]) \/ Unwritten(p)' < Unwritten(p)
      BY <2>2 DEF Loses
    <3>2. Unwritten(p) <= Recipes[p] /\ parsed + Len(pipe) <= Cardinality(Written)
      BY DEF Counted
    <3> QED
      BY <1>0, <1>1, <3>1, <3>2
  <2>3. failed => \/ BadIn(pipe) \/ \E p \in Parser : BadIn(buf[p])
                  \/ parsed + Len(pipe) < Cardinality(Written)
    BY DEF Counted
  <2> QED
    BY <2>1, <2>2, <2>3
<1>5. reason' = "complete" => ~failed' /\ Written' = willparse
  <2> SUFFICES ASSUME reason = "complete" PROVE ~failed' /\ Written' = willparse
    OBVIOUS
  <2>1. ~failed /\ Written = willparse
    BY DEF Counted
  <2>2. \A p \in Parser : Unwritten(p) = 0
    BY <1>0, <2>1, AllWritten
  <2> QED
    BY <1>1, <2>1, <2>2
<1> QED
  BY <1>2, <1>3, <1>4, <1>5 DEF Counted

\* A step of the threads that leaves the parsers and the queue alone.
LEMMA CountStays ==
    ASSUME IInv, Counted, UNCHANGED <<proc, jobs, buf, pipe, failed, parsed>>,
           reason' \in {reason, "none", "stop", "error"}
    PROVE  Counted' /\ Written' = Written
<1>1. Written' = Written
  BY DEF Written, Unwritten, Being
<1>2. \A p \in Parser : Unwritten(p)' = Unwritten(p)
  BY DEF Unwritten, Being
<1> QED
  BY <1>1, <1>2 DEF Counted

\* One result goes from the buffer to the pipe.
LEMMA CountWrites ==
    ASSUME IInv, PoolTypes', Counted, NEW p \in Parser, EndWrite(p)
    PROVE  /\ Counted' /\ Len(pipe') = Len(pipe) + 1
           /\ Cardinality(Written') = Cardinality(Written) + 1
           /\ ~BadIn(buf[p]) => (~BadIn(pipe) => ~BadIn(pipe')) /\ ~BadIn(buf'[p])
<1>0. /\ PoolTypes /\ parsed \in Nat /\ Len(pipe) \in Nat /\ buf[p] \in Seq({"ok", "bad"})
      /\ buf[p] # <<>> /\ pipe \in Seq({"ok", "bad"})
  <2>1. /\ pipe \in Seq({"ok", "bad"}) /\ parsed \in Nat
        /\ buf[p] \in Seq({"ok", "bad"}) /\ buf[p] # <<>>
    BY Names DEF IInv, ServerTypes, PoolTypes, EndWrite, Alive, Busy
  <2> QED
    BY <2>1 DEF IInv
<1>1. /\ pipe' = Append(pipe, Head(buf[p])) /\ buf' = [buf EXCEPT ![p] = Tail(@)]
      /\ UNCHANGED <<proc, jobs, failed, parsed, reason>>
  BY DEF EndWrite, history, server, round
<1>2. Len(pipe') = Len(pipe) + 1 /\ Len(buf'[p]) = Len(buf[p]) - 1
  BY <1>0, <1>1 DEF PoolTypes
<1>3. Unwritten(p)' = Unwritten(p) - 1 /\ \A q \in Parser \ {p} : Unwritten(q)' = Unwritten(q)
  <2>1. jobs[p] \in Nat /\ Len(buf[p]) \in Nat /\ Being(p) \in Nat /\ Being(p)' = Being(p)
    BY <1>0, <1>1, Shares DEF Being
  <2>2. Unwritten(p)' = Unwritten(p) - 1
    <3>1. Unwritten(p)' = jobs'[p] + Being(p)' + Len(buf'[p])
      BY DEF Unwritten
    <3>2. Unwritten(p) = jobs[p] + Being(p) + Len(buf[p])
      BY DEF Unwritten
    <3>3. jobs'[p] = jobs[p]
      BY <1>1
    <3> HIDE DEF Unwritten, Being
    <3> QED
      BY <1>2, <2>1, <3>1, <3>2, <3>3
  <2>3. \A q \in Parser \ {p} : Unwritten(q)' = Unwritten(q)
    BY <1>0, <1>1 DEF Unwritten, Being, PoolTypes
  <2> QED
    BY <2>2, <2>3
<1>4. \A q \in Parser : Unwritten(q) \in Nat /\ Unwritten(q)' \in Nat /\ Recipes[q] \in Nat
  BY <1>0, Shares, SharesLater
<1>5. \A q \in Parser : Unwritten(q) <= Recipes[q]
  BY DEF Counted
<1> DEFINE r == <<p, Unwritten(p)>>
<1>6. r \in willparse /\ r \notin Written
  BY <1>3, <1>4, <1>5, Willparse DEF Written
<1>7. Written' = Written \cup {r}
  <2>1. Written \subseteq willparse /\ Written' \subseteq willparse
    BY DEF Written
  <2>2. ASSUME NEW x \in willparse PROVE x \in Written' <=> x \in Written \/ x = r
    <3>1. x = <<x[1], x[2]>> /\ x[1] \in Parser /\ x[2] \in Nat
      BY Willparse, PoolAssumption
    <3>2. x \in Written' <=> x[2] > Unwritten(x[1])'
      BY <2>2 DEF Written
    <3>3. x \in Written <=> x[2] > Unwritten(x[1])
      BY <2>2 DEF Written
    <3> HIDE DEF Unwritten
    <3>4. CASE x[1] # p
      BY <1>3, <3>1, <3>2, <3>3, <3>4
    <3>5. CASE x[1] = p
      <4>1. Unwritten(x[1])' = Unwritten(p) - 1 /\ Unwritten(x[1]) = Unwritten(p)
        BY <1>3, <3>5
      <4>2. x = r <=> x[2] = Unwritten(p)
        BY <3>1, <3>5
      <4> QED
        BY <1>4, <3>1, <3>2, <3>3, <4>1, <4>2
    <3> QED
      BY <3>4, <3>5
  <2> QED
    BY <1>6, <2>1, <2>2
<1>8. IsFiniteSet(Written) /\ Cardinality(Written) \in Nat
  BY SetsOfRecipes DEF Written
<1>9. Cardinality(Written') = Cardinality(Written) + 1
  BY <1>6, <1>7, <1>8, FS_AddElement
<1>10. \A q \in Parser : Unwritten(q)' <= Recipes[q]
  BY <1>3, <1>4, <1>5
<1>11. BadIn(pipe) \/ BadIn(buf[p]) => BadIn(pipe') \/ BadIn(buf'[p])
  <2>1. BadIn(pipe) => BadIn(pipe')
    BY <1>0, <1>1 DEF BadIn
  <2>2. ASSUME NEW i \in 1..Len(buf[p]), buf[p][i] = "bad" PROVE BadIn(pipe') \/ BadIn(buf'[p])
    <3>1. CASE i = 1
      BY <1>0, <1>1, <2>2, <3>1 DEF BadIn
    <3>2. CASE i # 1
      <4>1. buf'[p] = Tail(buf[p]) /\ i - 1 \in 1..Len(Tail(buf[p])) /\ Tail(buf[p])[i - 1] = "bad"
        BY <1>0, <1>1, <2>2, <3>2 DEF PoolTypes
      <4> QED
        BY <4>1 DEF BadIn
    <3> QED
      BY <3>1, <3>2
  <2> QED
    BY <2>1, <2>2 DEF BadIn
<1>12. failed' => \/ BadIn(pipe') \/ \E q \in Parser : BadIn(buf'[q])
                  \/ parsed' + Len(pipe') < Cardinality(Written')
  <2>1. ASSUME NEW q \in Parser, BadIn(buf[q]) PROVE BadIn(pipe') \/ \E x \in Parser : BadIn(buf'[x])
    BY <1>0, <1>1, <1>11, <2>1 DEF PoolTypes
  <2>2. failed => \/ BadIn(pipe) \/ \E q \in Parser : BadIn(buf[q])
                  \/ parsed + Len(pipe) < Cardinality(Written)
    BY DEF Counted
  <2> QED
    BY <1>0, <1>1, <1>2, <1>8, <1>9, <1>11, <2>1, <2>2
<1>13. reason' # "complete"
  <2>1. Unwritten(p) # 0
    BY <1>3, <1>4
  <2> QED
    BY <1>0, <1>1, <2>1, AllWritten DEF Counted
<1>14. ~BadIn(buf[p]) => (~BadIn(pipe) => ~BadIn(pipe')) /\ ~BadIn(buf'[p])
  <2> SUFFICES ASSUME ~BadIn(buf[p]) PROVE (~BadIn(pipe) => ~BadIn(pipe')) /\ ~BadIn(buf'[p])
    OBVIOUS
  <2>1. Head(buf[p]) # "bad"
    BY <1>0 DEF BadIn
  <2>2. buf'[p] = Tail(buf[p])
    BY <1>0, <1>1 DEF PoolTypes
  <2> QED
    BY <1>0, <1>1, <2>1, <2>2 DEF BadIn
<1>15. parsed' + Len(pipe') <= Cardinality(Written')
  BY <1>0, <1>1, <1>2, <1>8, <1>9 DEF Counted
<1> QED
  BY <1>2, <1>9, <1>10, <1>12, <1>13, <1>14, <1>15 DEF Counted

\* A result is taken from the pipe: a good one is counted, or it is drained.
LEMMA CountTakes ==
    ASSUME IInv, Counted, pipe # <<>>, pipe' = Tail(pipe),
           UNCHANGED <<proc, jobs, buf, failed>>, reason' \in {reason, "error"},
           parsed' = parsed \/ (parsed' = parsed + 1 /\ Head(pipe) = "ok")
    PROVE  Counted' /\ Written' = Written /\ Len(pipe') = Len(pipe) - 1
<1>0. PoolTypes /\ parsed \in Nat /\ Len(pipe) \in Nat /\ pipe \in Seq({"ok", "bad"})
  BY DEF IInv, ServerTypes, PoolTypes
<1>1. Written' = Written /\ \A p \in Parser : Unwritten(p)' = Unwritten(p)
  BY DEF Written, Unwritten, Being
<1>2. Len(pipe') = Len(pipe) - 1
  BY <1>0
<1>3. Cardinality(Written) \in Nat
  BY SetsOfRecipes DEF Written
<1>4. BadIn(pipe) => BadIn(pipe') \/ Head(pipe) = "bad"
  <2> SUFFICES ASSUME NEW i \in 1..Len(pipe), pipe[i] = "bad", i # 1 PROVE BadIn(pipe')
    BY <1>0 DEF BadIn
  <2>1. i - 1 \in 1..Len(Tail(pipe)) /\ Tail(pipe)[i - 1] = "bad"
    BY <1>0
  <2> QED
    BY <2>1 DEF BadIn
<1>5. failed' => \/ BadIn(pipe') \/ \E p \in Parser : BadIn(buf'[p])
                 \/ parsed' + Len(pipe') < Cardinality(Written')
  BY <1>0, <1>1, <1>2, <1>3, <1>4 DEF Counted
<1>6. parsed' + Len(pipe') <= Cardinality(Written')
  BY <1>0, <1>1, <1>2, <1>3 DEF Counted
<1>7. reason' = "complete" => ~failed' /\ Written' = willparse
  BY <1>1 DEF Counted
<1> QED
  BY <1>1, <1>2, <1>5, <1>6, <1>7 DEF Counted

\* When as many results were counted as there are recipes, each was good.
LEMMA AllCounted ==
    ASSUME IInv, Counted, parsed >= toparse
    PROVE  Written = willparse /\ ~failed
<1>0. PoolTypes /\ parsed \in Nat /\ Len(pipe) \in Nat
  <2>1. pipe \in Seq({"ok", "bad"}) /\ parsed \in Nat
    BY DEF IInv, ServerTypes, PoolTypes
  <2> QED
    BY <2>1 DEF IInv
<1>1. /\ Cardinality(Written) \in Nat /\ Cardinality(willparse) \in Nat
      /\ Cardinality(Written) <= Cardinality(willparse)
      /\ Cardinality(Written) = Cardinality(willparse) => Written = willparse
  BY SetsOfRecipes DEF Written
<1>2. Len(pipe) = 0 /\ Cardinality(Written) = Cardinality(willparse)
      /\ ~(parsed + Len(pipe) < Cardinality(Written))
  BY <1>0, <1>1 DEF Counted, toparse
<1>3. ~BadIn(pipe)
  BY <1>2 DEF BadIn
<1>4. ASSUME NEW p \in Parser PROVE ~BadIn(buf[p])
  <2>1. Unwritten(p) = 0
    BY <1>0, <1>1, <1>2, AllWritten
  <2>2. Len(buf[p]) = 0
    BY <1>0, <2>1, Shares DEF Unwritten
  <2> QED
    BY <2>2 DEF BadIn
<1> QED
  BY <1>1, <1>2, <1>3, <1>4 DEF Counted

\* Steps of one parser, or about one.
Others(p) == \A q \in Parser \ {p} : UNCHANGED <<proc[q], jobs[q], buf[q]>>

LEMMA OneMoves ==
    ASSUME IInv, PoolTypes', Counted, NEW p \in Parser, Others(p), Loses(p),
           UNCHANGED <<pipe, parsed, reason>>,
           failed' => failed \/ (BadIn(buf'[p]) /\ Unwritten(p) > 0)
    PROVE  Counted'
<1>1. ASSUME NEW q \in Parser \ {p} PROVE Loses(q)
  <2>1. Unwritten(q)' = Unwritten(q) /\ buf'[q] = buf[q]
    BY DEF Others, Unwritten, Being
  <2>2. Unwritten(q) \in Nat
    BY Shares DEF IInv
  <2> QED
    BY <2>1, <2>2 DEF Loses, Shrinks
<1>2. \A q \in Parser : Loses(q)
  BY <1>1
<1> QED
  BY <1>2, CountMoves

\* Where the numbers in a parser come from.
LEMMA OneLoses ==
    ASSUME IInv, PoolTypes', NEW p \in Parser,
           jobs'[p] + Being(p)' + Len(buf'[p]) <= jobs[p] + Being(p) + Len(buf[p]),
           BadIn(buf[p]) =>
               \/ BadIn(buf'[p])
               \/ jobs'[p] + Being(p)' + Len(buf'[p]) < jobs[p] + Being(p) + Len(buf[p])
    PROVE  Loses(p)
BY DEF Loses, Shrinks, Unwritten

LEMMA GoLoses ==
    ASSUME IInv, PoolTypes', NEW p \in Parser, NEW where, Go(p, where),
           where \notin {"parse", "send", "sent"} \/ proc[p] \in {"parse", "send", "sent"},
           UNCHANGED <<jobs, buf>>
    PROVE  Others(p) /\ Loses(p)
<1>0. PoolTypes
  BY DEF IInv
<1>1. proc' = [proc EXCEPT ![p] = where] /\ p \in DOMAIN proc /\ DOMAIN proc = Parser
  BY <1>0 DEF Go, PoolTypes
<1>2. Being(p)' <= Being(p) /\ Being(p) \in Nat /\ Being(p)' \in Nat
  BY <1>1 DEF Being
<1>3. jobs[p] \in Nat /\ Len(buf[p]) \in Nat
  BY <1>0, Shares
<1> QED
  BY <1>1, <1>2, <1>3, OneLoses DEF Others

LEMMA PutLoses ==
    ASSUME IInv, PoolTypes', NEW p \in Parser, Parsing(p), NEW r, Put(p, r), UNCHANGED jobs
    PROVE  Others(p) /\ Loses(p) /\ Unwritten(p) > 0 /\ (r = "bad" => BadIn(buf'[p]))
           /\ (r # "bad" => (BadIn(buf'[p]) => BadIn(buf[p]))) /\ Unwritten(p)' = Unwritten(p)
<1>0. PoolTypes
  BY DEF IInv
<1>1. /\ proc' = [proc EXCEPT ![p] = "loop"] /\ buf' = [buf EXCEPT ![p] = Append(@, r)]
      /\ DOMAIN proc = Parser /\ DOMAIN buf = Parser /\ buf[p] \in Seq({"ok", "bad"})
  BY <1>0 DEF Put, Go, PoolTypes
<1>2. Being(p) = 1 /\ Being(p)' = 0
  BY <1>1 DEF Being, Parsing
<1>3. buf'[p] = Append(buf[p], r) /\ Len(buf'[p]) = Len(buf[p]) + 1
  BY <1>1
<1>4. (BadIn(buf[p]) => BadIn(buf'[p])) /\ (r = "bad" => BadIn(buf'[p]))
      /\ (r # "bad" => (BadIn(buf'[p]) => BadIn(buf[p])))
  BY <1>1, <1>3 DEF BadIn
<1>5. jobs[p] \in Nat /\ Len(buf[p]) \in Nat
  BY <1>0, Shares
<1>6. Loses(p)
  <2>1. jobs'[p] + Being(p)' + Len(buf'[p]) <= jobs[p] + Being(p) + Len(buf[p])
    BY <1>2, <1>3, <1>5
  <2> QED
    BY <1>4, <2>1, OneLoses
<1>7. Unwritten(p) > 0
  BY <1>2, <1>5 DEF Unwritten
<1>8. Unwritten(p)' = Unwritten(p)
  <2>1. Unwritten(p)' = jobs'[p] + Being(p)' + Len(buf'[p])
    BY DEF Unwritten
  <2>2. Unwritten(p) = jobs[p] + Being(p) + Len(buf[p])
    BY DEF Unwritten
  <2>3. jobs'[p] = jobs[p] /\ Len(buf'[p]) = Len(buf[p]) + 1
    BY <1>3
  <2> HIDE DEF Unwritten, Being
  <2> QED
    BY <1>2, <1>5, <2>1, <2>2, <2>3
<1> QED
  BY <1>1, <1>4, <1>6, <1>7, <1>8 DEF Others

LEMMA DieLoses ==
    ASSUME IInv, PoolTypes', NEW p \in Parser, Die(p)
    PROVE  Others(p) /\ Loses(p)
<1>0. PoolTypes
  BY DEF IInv
<1>1. /\ proc' = [proc EXCEPT ![p] = "dead"] /\ buf' = [buf EXCEPT ![p] = <<>>]
      /\ DOMAIN proc = Parser /\ DOMAIN buf = Parser /\ jobs' = jobs
  BY <1>0 DEF Die, Go, PoolTypes
<1>2. Being(p)' = 0 /\ Len(buf'[p]) = 0
  BY <1>1 DEF Being
<1>3. jobs[p] \in Nat /\ Being(p) \in Nat /\ Len(buf[p]) \in Nat
  BY <1>0, Shares
<1>4. BadIn(buf[p]) => Len(buf[p]) > 0
  BY <1>3 DEF BadIn
<1>5. Loses(p)
  <2>1. jobs'[p] + Being(p)' + Len(buf'[p]) <= jobs[p] + Being(p) + Len(buf[p])
    BY <1>1, <1>2, <1>3
  <2>2. Len(buf[p]) > 0 =>
          jobs'[p] + Being(p)' + Len(buf'[p]) < jobs[p] + Being(p) + Len(buf[p])
    BY <1>1, <1>2, <1>3
  <2> QED
    BY <1>4, <2>1, <2>2, OneLoses
<1> QED
  BY <1>1, <1>5 DEF Others

LEMMA PopLoses ==
    ASSUME IInv, PoolTypes', NEW p \in Parser, Pop(p)
    PROVE  Others(p) /\ Loses(p) /\ Unwritten(p)' = Unwritten(p)
<1>0. PoolTypes
  BY DEF IInv
<1>1. /\ proc' = [proc EXCEPT ![p] = "parse"] /\ jobs' = [jobs EXCEPT ![p] = @ - 1]
      /\ DOMAIN proc = Parser /\ DOMAIN jobs = Parser /\ buf' = buf /\ proc[p] = "loop"
  BY <1>0 DEF Pop, Go, PoolTypes
<1>2. Being(p) = 0 /\ Being(p)' = 1
  BY <1>1 DEF Being
<1>3. jobs[p] \in Nat /\ Len(buf[p]) \in Nat /\ jobs'[p] = jobs[p] - 1
  BY <1>0, <1>1, Shares
<1>4. Loses(p)
  BY <1>1, <1>2, <1>3, OneLoses
<1>5. Unwritten(p)' = Unwritten(p)
  <2>1. Unwritten(p)' = jobs'[p] + Being(p)' + Len(buf'[p])
    BY DEF Unwritten
  <2>2. Unwritten(p) = jobs[p] + Being(p) + Len(buf[p])
    BY DEF Unwritten
  <2> HIDE DEF Unwritten, Being
  <2> QED
    BY <1>1, <1>2, <1>3, <2>1, <2>2
<1> QED
  BY <1>1, <1>4, <1>5 DEF Others

LEMMA ParserCounts ==
    ASSUME IInv, IInv', Counted, NEW p \in Parser,
           ParserStep(p) \/ BeginWrite(p) \/ EndWrite(p) \/ Killed(p)
    PROVE  Counted'
<1>0. PoolTypes' /\ PoolTypes
  BY DEF IInv
<1>1. CASE Pop(p)
  BY <1>0, <1>1, PopLoses, OneMoves DEF Pop, server, round, result_queue, history
<1>2. CASE LeaveLoop(p)
  BY <1>0, <1>2, GoLoses, OneMoves DEF LeaveLoop, server, round, parsers, result_queue, history
<1>3. CASE Send(p)
  BY <1>0, <1>3, GoLoses, OneMoves DEF Send, server, round, parsers, result_queue, history
<1>4. CASE Sent(p)
  BY <1>0, <1>4, GoLoses, OneMoves DEF Sent, server, round, result_queue, history
<1>5. CASE Parsed(p)
  BY <1>0, <1>5, PutLoses, OneMoves DEF Parsed, server, round, result_queue, history
<1>6. CASE ParseFails(p)
  BY <1>0, <1>6, PutLoses, OneMoves DEF ParseFails, server, round, result_queue
<1>7. CASE Exit(p)
  BY <1>0, <1>7, GoLoses, OneMoves DEF Exit, server, round, parsers, result_queue, history
<1>8. CASE BeginWrite(p)
  BY <1>8, CountStays DEF BeginWrite, server, round, parsers, history
<1>9. CASE EndWrite(p)
  BY <1>0, <1>9, CountWrites
<1>10. CASE Killed(p)
  BY <1>0, <1>10, DieLoses, OneMoves DEF Killed, Die, server, round
<1> QED
  BY <1>1, <1>2, <1>3, <1>4, <1>5, <1>6, <1>7, <1>8, <1>9, <1>10 DEF ParserStep

\* Signals: none of them makes a result that was not due.
LEMMA SignalCounts ==
    ASSUME IInv, PoolTypes', Counted, NEW p \in Parser, Interrupt(p) \/ Terminate(p),
           UNCHANGED <<parsed, reason, failed>>
    PROVE  Counted'
<1>1. CASE Die(p)
  BY <1>1, DieLoses, OneMoves DEF Die
<1>2. CASE Parsing(p) /\ Put(p, "bad") /\ UNCHANGED <<jobs, signals, mute, result_queue>>
  BY <1>2, PutLoses, OneMoves DEF result_queue
<1>3. CASE Go(p, "close") /\ UNCHANGED <<parsers, result_queue>>
  BY <1>3, GoLoses, OneMoves DEF parsers, result_queue
<1>4. CASE UNCHANGED <<proc, jobs, buf, result_queue>>
  BY <1>4, CountStays DEF result_queue
<1> QED
  BY <1>1, <1>2, <1>3, <1>4 DEF Interrupt, Terminate, QueueSignal, parsers

LEMMA CollectCounts ==
    ASSUME IInv, PoolTypes', Counted, NEW p \in Parser, NEW where \in {"reaped", "closed"},
           Go(p, where) \/ Poll(p), UNCHANGED <<parsers, result_queue, history, parsed, reason>>
    PROVE  Counted'
<1>1. CASE Go(p, where)
  BY <1>1, GoLoses, OneMoves DEF parsers, result_queue, history
<1>2. CASE Go(p, "reaped")
  BY <1>2, GoLoses, OneMoves DEF parsers, result_queue, history
<1>3. CASE proc' = proc
  BY <1>3, CountStays DEF parsers, result_queue, history
<1> QED
  BY <1>1, <1>2, <1>3 DEF Poll, Go

LEMMA ShutdownCounts ==
    ASSUME IInv, IInv', Counted, NEW t \in Thread, Shutdown(t)
    PROVE  Counted'
<1>0. PoolTypes' /\ PoolTypes /\ ServerTypes
  BY DEF IInv
<1>1. CASE \/ Check(t) \/ Enter(t) \/ Event(t) \/ Drained(t) \/ Quit(t) \/ Through(t)
           \/ Raise(t) \/ ToKill(t) \/ KillFails(t)
  <2>1. UNCHANGED <<proc, jobs, buf, pipe, failed, parsed, reason>>
    BY <1>1 DEF Check, Enter, Event, Drained, Quit, Through, Raise, ToKill, KillFails,
                round, pool, parsers, result_queue, history
  <2> QED
    BY <2>1, CountStays
<1>2. CASE Drain(t)
  BY <1>2, CountTakes DEF Drain, parsers, history, server, round
<1>3. CASE Kill(t)
  <2>1. victim[t] \in Parser
    BY <1>0, <1>3 DEF Kill, ServerTypes
  <2> QED
    BY <1>0, <1>3, <2>1, SignalCounts DEF Kill, round, history
<1>4. CASE TermOne(t) \/ PassOver(t) \/ JoinOne(t)
  <2>1. This(t) \in Parser
    BY <1>0, <1>4, ThisIsParser DEF TermOne, PassOver, JoinOne, In
  <2>2. CASE TermOne(t)
    BY <1>0, <2>1, <2>2, SignalCounts DEF TermOne, round
  <2>3. CASE PassOver(t) \/ JoinOne(t)
    BY <1>0, <2>1, <2>3, CollectCounts DEF PassOver, JoinOne, round
  <2> QED
    BY <1>4, <2>2, <2>3
<1> QED
  BY <1>1, <1>2, <1>3, <1>4 DEF Shutdown

LEMMA RoundCounts ==
    ASSUME IInv, IInv', Counted, Round
    PROVE  Counted'
<1>0. PoolTypes' /\ PoolTypes /\ ServerTypes /\ Unmade
  BY DEF IInv
<1>1. CASE UpdateStopped \/ Update \/ Assign \/ While \/ ReapFails \/ GetEmpty
  <2>1. /\ UNCHANGED <<proc, jobs, buf, pipe, failed, parsed>>
        /\ reason' \in {reason, "none", "stop", "error"}
    BY <1>1 DEF UpdateStopped, Update, Assign, While, ReapFails, GetEmpty, Over, round,
                pool, parsers, result_queue, history
  <2> QED
    BY <2>1, CountStays
<1>2. CASE GiveUp \/ Reaped
  <2>1. /\ UNCHANGED <<proc, jobs, buf, pipe, failed, parsed>>
        /\ reason' \in {reason, "error"} \/ (reason' = "complete" /\ parsed >= toparse)
    BY <1>2 DEF GiveUp, Reaped, Over, pool, parsers, result_queue, history
  <2>2. CASE reason' \in {reason, "error"}
    BY <2>1, <2>2, CountStays
  <2>3. CASE reason' = "complete" /\ parsed >= toparse
    <3>1. Written = willparse /\ ~failed
      BY <2>3, AllCounted
    <3>2. Written' = Written /\ \A p \in Parser : Unwritten(p)' = Unwritten(p)
      BY <2>1 DEF Written, Unwritten, Being
    <3> QED
      BY <2>1, <3>1, <3>2 DEF Counted
  <2> QED
    BY <2>1, <2>2, <2>3
<1>3. CASE Construct
  <2>1. \A p \in Parser : proc[p] = "none" /\ proc'[p] = "loop"
    BY <1>0, <1>3 DEF Construct, Unmade
  <2>2. \A p \in Parser : Unwritten(p)' = Unwritten(p) /\ buf'[p] = buf[p]
    BY <1>3, <2>1 DEF Unwritten, Being, Construct, parsers
  <2>3. \A p \in Parser : Unwritten(p) \in Nat
    BY <1>0, Shares
  <2>4. \A p \in Parser : Loses(p)
    BY <2>2, <2>3 DEF Loses, Shrinks
  <2> QED
    BY <1>0, <1>3, <2>4, CountMoves DEF Construct, round, result_queue, history
<1>4. CASE Reap
  <2>1. Head(copy) \in Parser
    BY <1>0, <1>4 DEF Reap, ServerTypes
  <2> QED
    BY <1>0, <1>4, <2>1, CollectCounts DEF Reap
<1>5. CASE GetResult
  <2>1. reason' \in {reason, "error"} /\ (parsed' = parsed \/ (parsed' = parsed + 1 /\ Head(pipe) = "ok"))
    BY <1>5 DEF GetResult, Over
  <2> QED
    BY <1>5, <2>1, CountTakes DEF GetResult, parsers, history
<1> QED
  BY <1>1, <1>2, <1>3, <1>4, <1>5 DEF Round

LEMMA InitCounts == Init => Counted
<1> SUFFICES ASSUME Init PROVE Counted
  OBVIOUS
<1>0. PoolTypes
  BY InitTypes DEF IInv
<1>1. \A p \in Parser : Unwritten(p) = Recipes[p]
  BY PoolAssumption DEF Init, Unwritten, Being
<1>2. Cardinality(Written) \in Nat
  BY SetsOfRecipes DEF Written
<1> QED
  BY <1>1, <1>2, PoolAssumption DEF Init, Counted

LEMMA NextCounts == IInv /\ Counted /\ [Next]_vars => Counted'
<1> SUFFICES ASSUME IInv, Counted, [Next]_vars PROVE Counted'
  OBVIOUS
<1>1. IInv'
  BY NextTypes
<1>2. CASE UNCHANGED vars
  BY <1>2, CountStays DEF vars, server, round, pool, parsers, result_queue, history
<1>3. CASE Stop \/ Look
  BY <1>3, CountStays DEF Stop, Look, round, pool, parsers, result_queue, history
<1> QED
  BY <1>1, <1>2, <1>3, ParserCounts, ShutdownCounts, RoundCounts DEF Next

-----------------------------------------------------------------------------
(* A parsing that nobody disturbs.                                         *)

LEMMA InitSmooth == Init => SInv
<1> SUFFICES ASSUME Init PROVE Smooth
  BY DEF SInv
<1>0. PoolTypes
  BY InitTypes DEF IInv
<1>1. at["idle"] = "update" /\ processes = <<>> /\ pipe = <<>> /\ parsed = 0 /\ ~made
  BY DEF Init, Thread
<1>2. Written = {}
  BY Willparse, PoolAssumption DEF Init, Written, Unwritten, Being
<1>3. parsed + Len(pipe) = Cardinality(Written)
  BY <1>1, <1>2, FS_EmptySet
<1> QED
  BY <1>1, <1>3 DEF Init, Smooth, Apart, Parting, NothingLost, Thrifty, BadIn

LEMMA UndisturbedSoFar ==
    ASSUME IInv, [Next]_vars, Undisturbed'
    PROVE  /\ Undisturbed
           /\ \/ UNCHANGED vars \/ Round \/ Shutdown("idle")
              \/ \E p \in Parser : /\ ParserStep(p) \/ BeginWrite(p) \/ EndWrite(p)
                                   /\ ~ParseFails(p)
<1>0. at \in [Thread -> Places] /\ Thread = {"idle", "main"}
  BY Names DEF IInv, ServerTypes
<1>1. CASE Round
  BY <1>0, <1>1 DEF Round, UpdateStopped, Update, Construct, Assign, While, GiveUp, Reap,
     ReapFails, Reaped, GetResult, GetEmpty, Over, Goto, Undisturbed, history, pool, threads
<1>2. ASSUME NEW t \in Thread, Shutdown(t) PROVE Undisturbed /\ Shutdown("idle")
  <2>1. failed' = failed /\ killed' = killed
    BY <1>2 DEF Shutdown, Check, Enter, Event, Drain, Drained, Quit, Through, Raise, ToKill, Kill,
       KillFails, TermOne, PassOver, JoinOne, pool, history
  <2>2. at[t] # "free"
    BY <1>2 DEF Shutdown, Check, Enter, Event, Drain, Drained, Quit, Through, Raise, ToKill,
           Kill, KillFails, TermOne, PassOver, JoinOne, In
  <2>3. at' = at \/ \E where \in Places \ {"free"} : at' = [at EXCEPT ![t] = where]
    BY <1>2 DEF Shutdown, Check, Return, Enter, Event, Drain, Drained, Quit, Through, Raise, ToKill,
           Kill, KillFails, TermOne, PassOver, JoinOne, Goto, Places, server, threads
  <2>4. t # "main"
    BY <1>0, <2>2, <2>3 DEF Undisturbed
  <2> QED
    BY <1>0, <1>2, <2>1, <2>3, <2>4 DEF Undisturbed
<1>3. ASSUME NEW p \in Parser, ParserStep(p) \/ BeginWrite(p) \/ EndWrite(p) \/ Killed(p)
      PROVE  Undisturbed /\ ~Killed(p) /\ ~ParseFails(p)
  <2>1. at' = at
    BY <1>3 DEF ParserStep, Pop, LeaveLoop, Send, Sent, Parsed, ParseFails, Exit, BeginWrite,
       EndWrite, Killed, server, threads
  <2>2. (failed => failed') /\ killed' \in {killed, killed \cup {p}}
    BY <1>3 DEF ParserStep, Pop, LeaveLoop, Send, Sent, Parsed, ParseFails, Exit, BeginWrite,
       EndWrite, Killed, history
  <2>3. (Killed(p) => killed' # {}) /\ (ParseFails(p) => failed')
    BY DEF Killed, ParseFails
  <2> QED
    BY <2>1, <2>2, <2>3 DEF Undisturbed
<1>4. CASE Stop \/ Look
  BY <1>0, <1>4 DEF Stop, Look, Goto, Undisturbed
<1>5. CASE UNCHANGED vars
  BY <1>5 DEF vars, server, threads, pool, history, Undisturbed
<1> QED
  BY <1>1, <1>2, <1>3, <1>4, <1>5 DEF Next

\* A parser that is not told to quit has no job left when it ends.
LEMMA ParserThrifty ==
    ASSUME IInv, IInv', Counted, Undisturbed, Undisturbed', NEW p \in Parser, ~ParseFails(p),
           ParserStep(p) \/ BeginWrite(p) \/ EndWrite(p)
    PROVE  /\ Others(p) /\ proc[p] \in Busy /\ proc'[p] \notin {"reaped", "closed"}
           /\ EndWrite(p) \/ (pipe' = pipe /\ Unwritten(p)' = Unwritten(p))
           /\ ~quit /\ Thrifty(p) => Thrifty(p)'
<1>0. PoolTypes /\ PoolTypes'
  BY DEF IInv
<1> USE DEF Thrifty, Busy
<1>1. CASE Pop(p)
  <2>1. /\ proc' = [proc EXCEPT ![p] = "parse"] /\ buf' = buf /\ pipe' = pipe
        /\ DOMAIN proc = Parser /\ proc[p] = "loop"
    BY <1>0, <1>1 DEF Pop, Go, PoolTypes, result_queue
  <2> QED
    BY <1>0, <1>1, <2>1, PopLoses
<1>2. CASE LeaveLoop(p)
  <2>1. /\ proc' = [proc EXCEPT ![p] = "close"] /\ buf' = buf /\ jobs' = jobs /\ pipe' = pipe
        /\ DOMAIN proc = Parser /\ proc[p] = "loop" /\ (quit \/ jobs[p] = 0)
    BY <1>0, <1>2 DEF LeaveLoop, Go, PoolTypes, result_queue, parsers
  <2> QED
    BY <2>1 DEF Unwritten, Being, Others
<1>3. CASE Send(p)
  <2>1. /\ proc' = [proc EXCEPT ![p] = "send"] /\ buf' = buf /\ jobs' = jobs /\ pipe' = pipe
        /\ DOMAIN proc = Parser /\ proc[p] = "parse"
    BY <1>0, <1>3 DEF Send, Go, PoolTypes, result_queue, parsers
  <2> QED
    BY <2>1 DEF Unwritten, Being, Others
<1>4. CASE Sent(p)
  <2>1. /\ proc' = [proc EXCEPT ![p] = "sent"] /\ buf' = buf /\ jobs' = jobs /\ pipe' = pipe
        /\ DOMAIN proc = Parser /\ proc[p] = "send"
    BY <1>0, <1>4 DEF Sent, Go, PoolTypes, result_queue
  <2> QED
    BY <2>1 DEF Unwritten, Being, Others
<1>5. CASE Parsed(p)
  <2>1. /\ proc' = [proc EXCEPT ![p] = "loop"] /\ pipe' = pipe
        /\ DOMAIN proc = Parser /\ Parsing(p) /\ Put(p, "ok") /\ jobs' = jobs
    BY <1>0, <1>5 DEF Parsed, Put, Go, PoolTypes, result_queue
  <2> QED
    BY <1>0, <2>1, PutLoses DEF Parsing
<1>6. CASE Exit(p)
  <2>1. /\ proc' = [proc EXCEPT ![p] = "dead"] /\ buf' = buf /\ jobs' = jobs /\ pipe' = pipe
        /\ DOMAIN proc = Parser /\ proc[p] = "close" /\ buf[p] = <<>>
    BY <1>0, <1>6 DEF Exit, Go, PoolTypes, result_queue, parsers
  <2> QED
    BY <2>1 DEF Unwritten, Being, Others
<1>7. CASE BeginWrite(p)
  <2>1. UNCHANGED <<proc, buf, jobs, pipe>> /\ proc[p] \in Busy
    BY <1>0, <1>7 DEF BeginWrite, Alive, parsers
  <2> QED
    BY <2>1 DEF Unwritten, Being, Others
<1>8. CASE EndWrite(p)
  <2>1. /\ UNCHANGED <<proc, jobs>> /\ proc[p] \in Busy /\ proc[p] \notin {"dead", "reaped"}
        /\ buf' = [buf EXCEPT ![p] = Tail(@)] /\ DOMAIN buf = Parser
    BY <1>0, <1>8 DEF EndWrite, Alive, PoolTypes
  <2>2. ~BadIn(buf[p]) => ~BadIn(buf'[p])
    BY <1>0, <1>8, CountWrites
  <2> QED
    BY <1>8, <2>1, <2>2 DEF Others
<1> QED
  BY <1>1, <1>2, <1>3, <1>4, <1>5, <1>6, <1>7, <1>8 DEF ParserStep

LEMMA ParserSmooth ==
    ASSUME IInv, IInv', Counted, Undisturbed, Undisturbed', Smooth, NEW p \in Parser,
           ParserStep(p) \/ BeginWrite(p) \/ EndWrite(p), ~ParseFails(p)
    PROVE  Smooth'
<1>0. PoolTypes /\ PoolTypes' /\ ServerTypes /\ Unmade /\ server' = server
  BY ParserTypes DEF IInv
<1>1. /\ Others(p) /\ proc[p] \in Busy /\ proc'[p] \notin {"reaped", "closed"}
      /\ EndWrite(p) \/ (pipe' = pipe /\ Unwritten(p)' = Unwritten(p))
      /\ ~quit /\ Thrifty(p) => Thrifty(p)'
  BY ParserThrifty
<1>2. \A q \in Parser : /\ (proc'[q] = "closed" => proc[q] = "closed")
                        /\ (proc'[q] = "reaped" <=> proc[q] = "reaped")
  BY <1>1 DEF Others, Busy
<1>3. UNCHANGED <<state, made, haveshutdown, quit, at, pos, victim, processes, parsed, empty, reason>>
  BY <1>0 DEF server, cooker, threads, round
<1>4. CASE Parting
  <2>1. NothingLost /\ Parting'
    BY <1>3, <1>4 DEF Smooth, Parting
  <2>2. \A q \in Parser : Thrifty(q)'
    <3>1. Thrifty(p)'
      BY <1>1, <2>1 DEF NothingLost
    <3>2. \A q \in Parser \ {p} : Thrifty(q)'
      BY <1>1, <1>3, <2>1 DEF NothingLost, Others, Thrifty
    <3> QED
      BY <3>1, <3>2
  <2>3. parsed' + Len(pipe') = Cardinality(Written') /\ ~BadIn(pipe')
    <3>0. parsed \in Nat /\ pipe \in Seq({"ok", "bad"}) /\ ~BadIn(buf[p])
      BY <1>0, <2>1 DEF PoolTypes, ServerTypes, NothingLost, Thrifty
    <3>1. CASE EndWrite(p)
      <4>1. /\ Len(pipe') = Len(pipe) + 1 /\ Cardinality(Written') = Cardinality(Written) + 1
            /\ ~BadIn(pipe) => ~BadIn(pipe')
        BY <1>0, <3>0, <3>1, CountWrites
      <4> QED
        BY <1>3, <2>1, <3>0, <4>1 DEF NothingLost
    <3>2. CASE pipe' = pipe /\ Unwritten(p)' = Unwritten(p)
      <4>1. \A q \in Parser : Unwritten(q)' = Unwritten(q)
        BY <1>1, <3>2 DEF Others, Unwritten, Being
      <4>2. Written' = Written
        BY <4>1, Willparse DEF Written
      <4> QED
        BY <1>3, <2>1, <3>2, <4>2 DEF NothingLost
    <3> QED
      BY <1>1, <3>1, <3>2
  <2>4. made /\ processes # <<>>
    <3>1. made
      BY <1>0, <1>1 DEF Unmade, Busy
    <3>2. Listed(p)
      BY <1>1, <2>1, <3>1 DEF NothingLost, Busy
    <3> QED
      BY <3>1, <3>2 DEF Listed
  <2>5. made' => \A q \in Parser : proc'[q] = "reaped" \/ Listed(q)'
    BY <1>2, <1>3, <2>1 DEF NothingLost, Listed
  <2>6. NothingLost'
    BY <1>3, <2>1, <2>2, <2>3, <2>4, <2>5 DEF NothingLost
  <2> QED
    BY <1>3, <2>1, <2>6 DEF Smooth, Apart
<1>5. CASE ~Parting
  <2>1. ShutDown /\ ~Parting'
    BY <1>3, <1>5 DEF Smooth, Parting
  <2>2. \A i \in 1..Len(processes) : processes[i] \in Parser
    BY <1>0 DEF ServerTypes
  <2>3. at["idle"] = "kill" => victim["idle"] \in Parser
    BY <1>0, Names DEF ServerTypes
  <2>4. ShutDown'
    BY <1>2, <1>3, <2>1, <2>2, <2>3 DEF ShutDown
  <2> QED
    BY <1>3, <2>1, <2>4 DEF Smooth, Apart
<1> QED
  BY <1>4, <1>5

\* The rest of the list is as it was.
LEMMA RemoveApart ==
    ASSUME NEW s \in Seq(Parser), NEW p \in Parser,
           \A i, j \in 1..Len(s) : s[i] = s[j] => i = j
    PROVE  /\ \A i, j \in 1..Len(RemoveFirst(s, p)) :
                RemoveFirst(s, p)[i] = RemoveFirst(s, p)[j] => i = j
           /\ \A i \in 1..Len(s) : s[i] # p =>
                \E j \in 1..Len(RemoveFirst(s, p)) : RemoveFirst(s, p)[j] = s[i]
<1> DEFINE r == RemoveFirst(s, p)
<1> HIDE DEF r
<1>1. ASSUME r = s
      PROVE  /\ \A i, j \in 1..Len(r) : r[i] = r[j] => i = j
             /\ \A i \in 1..Len(s) : s[i] # p => \E j \in 1..Len(r) : r[j] = s[i]
  BY <1>1
<1>2. ASSUME NEW k \in 1..Len(s), s[k] = p, r = SubSeq(s, 1, k - 1) \o SubSeq(s, k + 1, Len(s))
      PROVE  /\ \A i, j \in 1..Len(r) : r[i] = r[j] => i = j
             /\ \A i \in 1..Len(s) : s[i] # p => \E j \in 1..Len(r) : r[j] = s[i]
  <2> DEFINE a == SubSeq(s, 1, k - 1)
             b == SubSeq(s, k + 1, Len(s))
  <2>a. a \in Seq(Parser) /\ Len(a) = k - 1 /\ \A i \in 1..k - 1 : a[i] = s[i]
    OBVIOUS
  <2>b. b \in Seq(Parser) /\ Len(b) = Len(s) - k /\ \A i \in 1..Len(s) - k : b[i] = s[k + i]
    OBVIOUS
  <2>c. r = a \o b
    BY <1>2
  <2> HIDE DEF a, b
  <2>1. Len(r) = Len(s) - 1
    BY <2>a, <2>b, <2>c
  <2>2. \A i \in 1..Len(r) : r[i] = IF i < k THEN s[i] ELSE s[i + 1]
    <3> SUFFICES ASSUME NEW i \in 1..Len(r) PROVE r[i] = IF i < k THEN s[i] ELSE s[i + 1]
      OBVIOUS
    <3>1. CASE i < k
      BY <2>1, <2>a, <2>b, <2>c, <3>1
    <3>2. CASE i >= k
      <4>1. r[i] = b[i - (k - 1)] /\ i - (k - 1) \in 1..Len(s) - k
        BY <2>1, <2>a, <2>b, <2>c, <3>2
      <4> QED
        <5>1. b[i - (k - 1)] = s[k + (i - (k - 1))]
          BY <2>b, <4>1
        <5>2. k + (i - (k - 1)) = i + 1 /\ ~(i < k)
          BY <2>1, <3>2
        <5> QED
          BY <4>1, <5>1, <5>2
    <3> QED
      BY <3>1, <3>2
  <2>3. \A i, j \in 1..Len(r) : r[i] = r[j] => i = j
    BY <2>1, <2>2
  <2>4. ASSUME NEW i \in 1..Len(s), s[i] # p PROVE \E j \in 1..Len(r) : r[j] = s[i]
    <3>1. CASE i < k
      BY <2>1, <2>2, <3>1
    <3>2. CASE i > k
      <4>1. i - 1 \in 1..Len(r) /\ r[i - 1] = s[i]
        BY <2>1, <2>2, <3>2
      <4> QED
        BY <4>1
    <3>3. i # k
      BY <1>2, <2>4
    <3> QED
      BY <3>1, <3>2, <3>3
  <2> QED
    BY <2>3, <2>4
<1>3. r = s \/ \E k \in 1..Len(s) : /\ s[k] = p
                                    /\ r = SubSeq(s, 1, k - 1) \o SubSeq(s, k + 1, Len(s))
  BY RemoveIs DEF r
<1>4. /\ \A i, j \in 1..Len(r) : r[i] = r[j] => i = j
      /\ \A i \in 1..Len(s) : s[i] # p => \E j \in 1..Len(r) : r[j] = s[i]
  BY <1>1, <1>2, <1>3
<1> QED
  BY <1>4 DEF r

LEMMA RoundSmooth ==
    ASSUME IInv, IInv', Counted, Undisturbed, Smooth, Round
    PROVE  Smooth'
<1>0. /\ PoolTypes /\ ServerTypes /\ Unmade /\ "idle" \in Thread /\ DOMAIN at = Thread
      /\ at["main"] = "free" /\ state # "stopped" /\ Apart
  BY Names DEF IInv, Undisturbed, Smooth, ServerTypes
<1>1. Parting /\ NothingLost
  <2>1. Parting
    BY DEF Parting, Round, UpdateStopped, Update, Construct, Assign, While, GiveUp, Reap,
           ReapFails, Reaped, GetResult, GetEmpty
  <2> QED
    BY <2>1 DEF Smooth
\* What the steps that only move keep.
<1>2. ASSUME UNCHANGED <<proc, parsers, pipe, processes, parsed>>,
             UNCHANGED <<made, quit, haveshutdown, reason>>,
             state' \in {state, "parsing"}, at'["idle"] \in {"update", "construct", "assign", "while", "reap", "get"},
             processes = <<>> /\ empty' /\ at'["idle"] \notin {"reap", "get"} => pipe = <<>>
      PROVE  Smooth'
  <2>1. Written' = Written /\ Parting'
    BY <1>2 DEF Written, Unwritten, Being, parsers, Parting
  <2>2. \A p \in Parser : Thrifty(p)'
    BY <1>1, <1>2 DEF NothingLost, Thrifty, parsers
  <2>3. NothingLost'
    BY <1>1, <1>2, <2>1, <2>2 DEF NothingLost, Listed
  <2> QED
    BY <1>0, <1>2, <2>1, <2>3 DEF Smooth, Apart
\* The parsing is over, and complete.
<1>3. ASSUME UNCHANGED <<proc, processes, state>>, at'["idle"] = "check", reason' = "complete"
      PROVE  Smooth'
  <2>1. ShutDown'
    BY <1>1, <1>3 DEF ShutDown, NothingLost, Thrifty
  <2> QED
    BY <1>0, <1>3, <2>1 DEF Smooth, Apart, Parting
<1> USE DEF cooker, round, pool, parsers, result_queue, threads
<1>4. CASE Update
  BY <1>0, <1>1, <1>2, <1>4 DEF Update, Goto, NothingLost
<1>5. CASE Assign
  BY <1>0, <1>1, <1>2, <1>5 DEF Assign, Goto, NothingLost
<1>6. CASE While
  BY <1>0, <1>1, <1>2, <1>6 DEF While, Goto, NothingLost
<1>7. CASE Reaped
  <2>1. CASE parsed >= toparse
    BY <1>0, <1>3, <1>7, <2>1 DEF Reaped, Over, Goto
  <2>2. CASE ~(parsed >= toparse)
    BY <1>0, <1>2, <1>7, <2>2 DEF Reaped, Goto
  <2> QED
    BY <2>1, <2>2
<1>8. CASE GetEmpty
  <2>1. pipe = <<>>
    BY <1>0, <1>8 DEF GetEmpty, NoResult, Other
  <2> QED
    BY <1>0, <1>2, <1>8, <2>1 DEF GetEmpty, Goto
<1>9. CASE GiveUp
  <2>1. pipe = <<>> /\ made
    BY <1>0, <1>1, <1>9 DEF GiveUp, NothingLost, Unmade
  <2>2. \A p \in Parser : proc[p] = "reaped"
    BY <1>1, <1>9, <2>1 DEF GiveUp, NothingLost, Listed
  <2>3. \A p \in Parser : Unwritten(p) = 0
    BY <1>1, <2>2 DEF NothingLost, Thrifty, Unwritten, Being
  <2>4. Written = willparse /\ Cardinality(willparse) \in Nat
    BY <1>0, <2>3, AllWritten, SetsOfRecipes
  <2>5. parsed >= toparse
    BY <1>0, <1>1, <2>1, <2>4 DEF NothingLost, toparse, ServerTypes
  <2> QED
    BY <1>0, <1>3, <1>9, <2>5 DEF GiveUp, Over, Goto
<1>10. CASE Construct
  <2>1. \A p \in Parser : proc[p] = "none" /\ proc'[p] = "loop" /\ processes'[p] = p
    BY <1>0, <1>10 DEF Construct, Unmade
  <2>2. Written' = Written
    <3>1. \A p \in Parser : Unwritten(p)' = Unwritten(p)
      BY <1>10, <2>1 DEF Unwritten, Being, Construct
    <3> QED
      BY <3>1, Willparse DEF Written
  <2>3. \A p \in Parser : Thrifty(p)'
    BY <1>1, <1>10, <2>1 DEF Construct, NothingLost, Thrifty
  <2>4. Len(processes') = num_processes /\ num_processes \in Nat \ {0}
        /\ processes' = [p \in 1..num_processes |-> p]
    BY <1>10, PoolAssumption DEF Construct, Parser
  <2>5. Apart' /\ processes' # <<>> /\ \A p \in Parser : Listed(p)'
    BY <2>4 DEF Apart, Listed, Parser
  <2>6. NothingLost' /\ Parting'
    BY <1>0, <1>1, <1>10, <2>2, <2>3, <2>5 DEF NothingLost, Parting, Construct, Goto
  <2> QED
    BY <1>0, <1>10, <2>5, <2>6 DEF Smooth, Construct
<1>11. CASE Reap
  <2> DEFINE p == Head(copy)
  <2>1. p \in Parser /\ copy # <<>>
    BY <1>0, <1>11 DEF Reap, ServerTypes
  <2> HIDE DEF p
  <2>2. /\ Poll(p) /\ processes' = IF Alive(p) THEN processes ELSE RemoveFirst(processes, p)
        /\ UNCHANGED <<state, made, haveshutdown, quit, at, parsed, empty, reason>>
        /\ UNCHANGED <<jobs, buf, pipe>> /\ at["idle"] = "reap"
    BY <1>11 DEF Reap, p
  <2>3. made /\ proc[p] # "closed" /\ proc[p] # "none"
    <3>1. made
      BY <1>0, <2>2 DEF Unmade
    <3>2. proc[p] = "reaped" \/ Listed(p)
      BY <1>1, <2>1, <3>1 DEF NothingLost
    <3> QED
      BY <1>1, <2>1, <3>1 DEF NothingLost, Thrifty
  <2>4. Others(p) /\ DOMAIN proc = Parser /\ proc'[p] = IF proc[p] = "dead" THEN "reaped" ELSE proc[p]
    BY <1>0, <2>1, <2>2 DEF Poll, Others, PoolTypes
  <2>5. Written' = Written
    <3>1. \A q \in Parser : Unwritten(q)' = Unwritten(q)
      BY <2>1, <2>2, <2>4 DEF Unwritten, Being, Others
    <3> QED
      BY <3>1, Willparse DEF Written
  <2>6. \A q \in Parser : Thrifty(q)'
    BY <1>1, <2>1, <2>2, <2>4 DEF NothingLost, Thrifty, Others
  <2>7. processes \in Seq(Parser) /\ \A q \in Parser : proc[q] = "reaped" \/ Listed(q)
    BY <1>0, <1>1, <2>3 DEF ServerTypes, NothingLost
  <2>8. Apart' /\ \A q \in Parser : proc'[q] = "reaped" \/ Listed(q)'
    <3>1. CASE Alive(p)
      <4>1. processes' = processes /\ \A q \in Parser : proc'[q] = proc[q]
        BY <2>1, <2>2, <2>4, <3>1 DEF Alive, Others
      <4> QED
        BY <1>0, <2>7, <4>1 DEF Apart, Listed
    <3>2. CASE ~Alive(p)
      <4>1. processes' = RemoveFirst(processes, p) /\ proc'[p] = "reaped"
        BY <1>0, <2>1, <2>2, <2>3, <2>4, <3>2 DEF Alive, PoolTypes, Busy
      <4>2. /\ Apart'
            /\ \A i \in 1..Len(processes) : processes[i] # p =>
                 \E j \in 1..Len(processes') : processes'[j] = processes[i]
        BY <1>0, <2>1, <2>7, <4>1, RemoveApart DEF Apart
      <4>3. ASSUME NEW q \in Parser \ {p} PROVE proc'[q] = "reaped" \/ Listed(q)'
        BY <2>4, <2>7, <4>2 DEF Others, Listed
      <4> QED
        BY <4>1, <4>2, <4>3
    <3> QED
      BY <3>1, <3>2
  <2>9. Parting' /\ NothingLost'
    BY <1>1, <2>2, <2>5, <2>6, <2>8 DEF Parting, NothingLost
  <2> QED
    BY <1>0, <2>2, <2>8, <2>9 DEF Smooth
<1>12. CASE GetResult
  <2>1. pipe \in Seq({"ok", "bad"}) /\ pipe # <<>> /\ Head(pipe) = pipe[1] /\ parsed \in Nat
        /\ Len(pipe) \in Nat \ {0}
    BY <1>0, <1>12 DEF GetResult, PoolTypes, ServerTypes
  <2>2. Head(pipe) = "ok"
    BY <1>1, <2>1 DEF NothingLost, BadIn
  <2>3. /\ parsed' = parsed + 1 /\ pipe' = Tail(pipe) /\ ~empty'
        /\ at' = [at EXCEPT !["idle"] = "update"]
        /\ UNCHANGED <<state, made, haveshutdown, quit, processes, reason, proc, jobs, buf, failed>>
    BY <1>12, <2>2 DEF GetResult, Goto, history
  <2>4. Written' = Written /\ Len(pipe') = Len(pipe) - 1
    BY <1>12, <2>2, <2>3, CountTakes DEF GetResult
  <2>5. ~BadIn(pipe')
    BY <1>1, <2>1, <2>3 DEF NothingLost, BadIn
  <2>6. \A p \in Parser : Thrifty(p)'
    BY <1>1, <2>3 DEF NothingLost, Thrifty
  <2>7. parsed' + Len(pipe') = Cardinality(Written')
    BY <1>1, <2>1, <2>3, <2>4 DEF NothingLost
  <2>8. NothingLost' /\ Parting'
    BY <1>0, <1>1, <2>3, <2>5, <2>6, <2>7 DEF NothingLost, Listed, Parting
  <2> QED
    BY <1>0, <2>3, <2>8 DEF Smooth, Apart
<1>13. ~UpdateStopped /\ ~ReapFails
  <2>1. ~UpdateStopped
    BY <1>0 DEF UpdateStopped
  <2>2. ASSUME ReapFails PROVE FALSE
    <3>1. Head(copy) \in Parser
      BY <1>0, <2>2 DEF ReapFails, ServerTypes
    <3> QED
      BY <1>1, <2>2, <3>1 DEF ReapFails, NothingLost, Thrifty
  <2> QED
    BY <2>1, <2>2
<1> QED
  BY <1>4, <1>5, <1>6, <1>7, <1>8, <1>9, <1>10, <1>11, <1>12, <1>13 DEF Round

LEMMA ShutdownSmooth ==
    ASSUME IInv, IInv', Undisturbed, Smooth, Shutdown("idle")
    PROVE  Smooth'
<1>0. /\ PoolTypes /\ ServerTypes /\ "idle" \in Thread /\ DOMAIN at = Thread
      /\ DOMAIN pos = Thread /\ pos["idle"] \in Nat \ {0} /\ state # "stopped" /\ Apart
      /\ DOMAIN proc = Parser /\ processes \in Seq(Parser)
  BY Names DEF IInv, Smooth, ServerTypes, PoolTypes
<1>1. ~Parting /\ ShutDown
  <2>1. ~Parting
    BY DEF Parting, Shutdown, Check, Enter, Event, Drain, Drained, Quit, Through, Raise, ToKill,
           Kill, KillFails, TermOne, PassOver, JoinOne, In
  <2> QED
    BY <2>1 DEF Smooth
<1>2. \A i \in 1..Len(processes) : processes[i] \in Parser
  BY <1>0
<1> DEFINE Elsewhere == {"enter", "event", "drain", "quit", "int", "term", "check"}
\* The pool is left as it is, or a parser gets a signal or is looked at.
<1>3. ASSUME processes' = processes, state' # "stopped", reason' = reason,
             at'["idle"] \in Elsewhere, at["idle"] \notin {"join", "ended"},
             \A p \in Parser : proc'[p] = "closed" => proc[p] = "closed"
      PROVE  Smooth'
  BY <1>0, <1>1, <1>3 DEF Smooth, Apart, Parting, ShutDown
<1> USE DEF cooker, round, pool, result_queue, threads
<1>4. CASE Check("idle")
  <2>1. CASE at'["idle"] = "ended"
    BY <1>0, <1>1, <1>4, <2>1 DEF Check, Return, Goto, Smooth, Apart, Parting, ShutDown
  <2>2. CASE at'["idle"] # "ended"
    BY <1>0, <1>3, <1>4, <2>2 DEF Check, Return, Goto
  <2> QED
    BY <2>1, <2>2
<1>5. CASE Enter("idle") \/ Event("idle") \/ Drained("idle") \/ Quit("idle")
  BY <1>0, <1>3, <1>5 DEF Enter, Event, Drained, Quit, Goto
<1>6. CASE Drain("idle")
  BY <1>0, <1>3, <1>6 DEF Drain, server
<1>7. CASE Through("idle")
  <2>1. /\ at["idle"] \in {"int", "term", "join"} /\ UNCHANGED <<processes, reason, proc>>
        /\ pos' = [pos EXCEPT !["idle"] = 1]
    BY <1>7 DEF Through
  <2>2. CASE at["idle"] = "int"
    BY <1>0, <1>3, <1>7, <2>1, <2>2 DEF Through, Goto
  <2>3. CASE at["idle"] = "term"
    <3>1. at'["idle"] = "join" /\ state' = state
      BY <1>0, <1>7, <2>3 DEF Through, Goto
    <3> QED
      BY <1>0, <1>1, <1>2, <2>1, <2>3, <3>1 DEF Smooth, Apart, Parting, ShutDown
  <2>4. CASE at["idle"] = "join"
    <3>1. at'["idle"] = "ended" /\ state' # "stopped"
      BY <1>0, <1>7, <2>4 DEF Through, Return, Goto
    <3> QED
      BY <1>0, <1>1, <2>1, <3>1 DEF Smooth, Apart, Parting, ShutDown
  <2> QED
    BY <2>1, <2>2, <2>3, <2>4
<1>8. ~Raise("idle")
  <2> SUFFICES ASSUME Raise("idle") PROVE FALSE
    OBVIOUS
  <2>1. /\ at["idle"] \in {"int", "term", "join"} /\ pos["idle"] \in 1..Len(processes)
        /\ proc[processes[pos["idle"]]] = "closed"
    BY <1>0 DEF Raise, In, This
  <2> QED
    BY <1>0, <1>1, <1>2, <2>1 DEF ShutDown
<1>9. CASE ToKill("idle")
  <2>1. /\ at'["idle"] = "kill" /\ at["idle"] = "int" /\ victim'["idle"] = This("idle")
        /\ UNCHANGED <<processes, reason, proc, state>> /\ Alive(This("idle"))
    BY <1>0, <1>9 DEF ToKill, In, Goto, ServerTypes
  <2> QED
    BY <1>0, <1>1, <2>1 DEF Alive, Smooth, Apart, Parting, ShutDown
<1>10. CASE Kill("idle")
  <2>1. \A p \in Parser : proc'[p] = "closed" => proc[p] = "closed"
    BY <1>0, <1>10 DEF Kill, Interrupt, QueueSignal, Put, Go, Die
  <2> QED
    BY <1>0, <1>3, <1>10, <2>1 DEF Kill, Goto
<1>11. ~KillFails("idle")
  <2>1. at["idle"] = "kill" => victim["idle"] \in Parser
    BY <1>0, Names DEF ServerTypes
  <2> QED
    BY <1>1, <2>1 DEF KillFails, ShutDown
<1>12. CASE TermOne("idle")
  <2>1. \A p \in Parser : proc'[p] = "closed" => proc[p] = "closed"
    BY <1>0, <1>12 DEF TermOne, Terminate, QueueSignal, Go, Die
  <2> QED
    BY <1>0, <1>3, <1>12, <2>1 DEF TermOne, In
<1>13. CASE PassOver("idle")
  <2>1. \A p \in Parser : proc'[p] = "closed" => proc[p] = "closed"
    BY <1>0, <1>13 DEF PassOver, Poll
  <2> QED
    BY <1>0, <1>3, <1>13, <2>1 DEF PassOver, In
<1>14. CASE JoinOne("idle")
  <2>1. /\ at["idle"] = "join" /\ pos["idle"] \in 1..Len(processes)
        /\ proc' = [proc EXCEPT ![processes[pos["idle"]]] = "closed"]
        /\ pos' = [pos EXCEPT !["idle"] = @ + 1] /\ UNCHANGED <<at, processes, reason, state>>
    BY <1>0, <1>14 DEF JoinOne, In, This, Go, NextOne
  <2>2. \A i \in 1..Len(processes) : i >= pos'["idle"] => proc'[processes'[i]] # "closed"
    <3> SUFFICES ASSUME NEW i \in 1..Len(processes), i >= pos["idle"] + 1
                 PROVE  proc'[processes[i]] # "closed"
      BY <1>0, <2>1
    <3>1. processes[i] # processes[pos["idle"]] /\ processes[i] \in Parser
      BY <1>0, <2>1 DEF Apart
    <3>2. proc[processes[i]] # "closed"
      BY <1>0, <1>1, <2>1 DEF ShutDown
    <3> QED
      BY <1>0, <2>1, <3>1, <3>2
  <2> QED
    BY <1>0, <1>1, <2>1, <2>2 DEF Smooth, Apart, Parting, ShutDown
<1> QED
  BY <1>4, <1>5, <1>6, <1>7, <1>8, <1>9, <1>10, <1>11, <1>12, <1>13, <1>14 DEF Shutdown

LEMMA NextSmooth == IInv /\ Counted /\ SInv /\ [Next]_vars => SInv'
<1> SUFFICES ASSUME IInv, Counted, SInv, [Next]_vars, Undisturbed' PROVE Smooth'
  BY DEF SInv
<1>1. IInv' /\ Undisturbed /\ Smooth
  BY NextTypes, UndisturbedSoFar DEF SInv
<1>2. ASSUME UNCHANGED vars PROVE Smooth'
  BY <1>1, <1>2 DEF Smooth, Apart, Parting, NothingLost, Thrifty, Listed, ShutDown, Written,
     Unwritten, Being, vars, server, cooker, threads, round, pool, parsers, result_queue
<1> QED
  BY <1>1, <1>2, UndisturbedSoFar, ParserSmooth, RoundSmooth, ShutdownSmooth

\* However the results, the ends of the processes and the timeouts come together:
\* the cooker goes on only when every recipe was parsed, and a parsing that
\* nobody stops and in which no recipe fails and no parser is killed is complete.
THEOREM VerdictHolds == Spec => []VerdictIsRight
<1> DEFINE VInv == IInv /\ Counted /\ SInv
<1>1. Init => VInv
  BY InitTypes, InitCounts, InitSmooth
<1>2. VInv /\ [Next]_vars => VInv'
  BY NextTypes, NextCounts, NextSmooth
<1>3. VInv => VerdictIsRight
  <2> SUFFICES ASSUME VInv, Ended("idle") PROVE VerdictIsRight
    BY DEF VerdictIsRight
  <2>1. ASSUME reason = "complete" PROVE ~failed /\ \A p \in Parser : jobs[p] = 0
    <3>1. ~failed /\ \A p \in Parser : Unwritten(p) = 0
      BY <2>1, AllWritten DEF Counted, IInv
    <3>2. ASSUME NEW p \in Parser PROVE jobs[p] = 0
      <4>1. jobs[p] \in Nat /\ Being(p) \in Nat /\ Len(buf[p]) \in Nat
        BY Shares DEF IInv
      <4> QED
        BY <3>1, <4>1 DEF Unwritten
    <3> QED
      BY <3>1, <3>2
  <2>2. ASSUME Undisturbed PROVE at["idle"] # "raised" /\ reason = "complete"
    BY <2>2 DEF SInv, Smooth, Parting, ShutDown, Ended
  <2> QED
    BY <2>1, <2>2 DEF VerdictIsRight, Undisturbed
<1> QED
  BY <1>1, <1>2, <1>3, PTL DEF Spec
=============================================================================
