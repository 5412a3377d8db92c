---------------------------- MODULE WorkerProofs ----------------------------
(***************************************************************************)
(* Proofs about Worker, for any tasks, capacities of the pipes and bounds, *)
(* whoever may die.                                                        *)
(***************************************************************************)
EXTENDS WorkerProperties, SequenceTheorems, TLAPS

-----------------------------------------------------------------------------
(* Types.                                                                  *)

\* A command with a task has one of the worker's tasks.
TasksNamed ==
    \A n \in 1..Len(cmds) : cmds[n].kind = "runtask" => cmds[n].task \in Tasks

\* Who is blocked in a write has yet to write the last command.
Blocked ==
    writing # "none" =>
        flushed < Len(cmds) /\ cmds[Len(cmds)].kind = writing /\ state # "Dead"

\* The worker passes on no event before it is fired.
Behind == \A t \in Tasks : passed[t] <= fired[t]

Types == TypeOK /\ TasksNamed /\ Blocked /\ Behind

LEMMA InitTypes == Init => Types
<1> SUFFICES ASSUME Init PROVE Types
  OBVIOUS
<1>1. cmds \in Seq(CommandType) /\ Len(cmds) = 1 /\ cmds[1].kind = "config"
  BY BoundAssumption DEF Init, CommandType, Kinds
<1>2. out \in Seq(Message) /\ Len(out) = 0
  BY DEF Init
<1>3. TasksNamed
  BY <1>1 DEF TasksNamed
<1>4. TypeOK
  <2>1. /\ state \in States /\ writing \in Kinds \cup {"none"}
        /\ stage \in Stages /\ kind \in Kinds /\ dying \in BOOLEAN /\ closed \in BOOLEAN
    BY DEF Init, States, Stages, Kinds
  <2>2. /\ sent \subseteq Tasks /\ live \subseteq sent /\ signalled \subseteq Tasks
        /\ todo \subseteq Tasks /\ build_pids \subseteq Tasks
    BY DEF Init
  <2>4. hashes \in 0..MaxHashes /\ newhashes \in 0..MaxHashes
    BY BoundAssumption DEF Init
  <2>5. /\ flushed \in 0..Len(cmds) /\ taken \in 0..flushed /\ flushed - taken <= PipeCommands
    BY <1>1, CapacityAssumption DEF Init
  <2>6. piped \in 0..Len(out) /\ piped <= PipeMessages
    BY <1>2, CapacityAssumption DEF Init
  <2>3. /\ sentwith \in [Tasks -> (0..MaxHashes) \cup {None}]
        /\ told \in [Tasks -> 0..MaxEvents] /\ over \in [Tasks -> Codes \cup {None}]
        /\ child \in [Tasks -> {"none", "early", "running", "zombie", "reaped"}]
        /\ runswith \in [Tasks -> (0..MaxHashes) \cup {None}]
        /\ fired \in [Tasks -> 0..MaxEvents] /\ exit \in [Tasks -> Codes \cup {None}]
        /\ passed \in [Tasks -> 0..MaxEvents]
    BY BoundAssumption DEF Init, None
  <2> QED
    BY <1>1, <1>2, <2>1, <2>2, <2>3, <2>4, <2>5, <2>6 DEF TypeOK
<1>5. Blocked
  BY <1>1 DEF Init, Blocked
<1> QED
  BY <1>3, <1>4, <1>5 DEF Types, Init, Behind

LEMMA Marks ==
    ASSUME Types
    PROVE  /\ taken \in Nat /\ flushed \in Nat /\ Len(cmds) \in Nat
           /\ taken <= flushed /\ flushed <= Len(cmds) /\ flushed - taken <= PipeCommands
           /\ piped \in Nat /\ Len(out) \in Nat /\ piped <= Len(out)
           /\ PipeCommands \in Nat /\ PipeMessages \in Nat
BY CapacityAssumption DEF Types, TypeOK

LEMMA CommandsTyped ==
    ASSUME Types, NEW n \in 1..Len(cmds)
    PROVE  /\ cmds[n] \in CommandType /\ cmds[n].kind \in Kinds
           /\ cmds[n].hashes \in 0..MaxHashes
<1>1. cmds[n] \in CommandType
  BY DEF Types, TypeOK
<1> QED
  BY <1>1 DEF CommandType

\* A command more in the stream.
LEMMA WriteTypes ==
    ASSUME Types, NEW k \in Kinds, NEW t \in Tasks \cup {NoTask}, Write(k, t),
           k = "runtask" => t \in Tasks
    PROVE  /\ cmds' \in Seq(CommandType) /\ Len(cmds') = Len(cmds) + 1
           /\ cmds'[Len(cmds')] = Command(k, t)
           /\ \A n \in 1..Len(cmds) : cmds'[n] = cmds[n]
           /\ taken' = taken /\ flushed' = flushed /\ closed' = closed
           /\ writing' \in Kinds \cup {"none"}
           /\ TasksNamed' /\ (state' # "Dead" => Blocked')
<1>1. Command(k, t) \in CommandType
  BY DEF Types, TypeOK, Command, CommandType
<1>2. cmds \in Seq(CommandType)
  BY DEF Types, TypeOK, CommandType
<1>3. cmds' = Append(cmds, Command(k, t))
  BY DEF Write
<1>4. /\ cmds' \in Seq(CommandType) /\ Len(cmds') = Len(cmds) + 1
      /\ cmds'[Len(cmds')] = Command(k, t)
      /\ \A n \in 1..Len(cmds) : cmds'[n] = cmds[n]
  BY <1>1, <1>2, <1>3, AppendProperties
<1>5. TasksNamed'
  BY <1>4, <1>2 DEF Types, TasksNamed, Command
<1>6. state' # "Dead" => Blocked'
  BY <1>4, Marks DEF Write, Command, Blocked
<1> QED
  BY <1>4, <1>5, <1>6 DEF Write

\* Commands taken off the stream.
LEMMA DropTypes ==
    ASSUME Types, NEW n \in 1..taken, Drop(n)
    PROVE  /\ cmds' \in Seq(CommandType) /\ Len(cmds') = Len(cmds) - n
           /\ \A m \in 1..Len(cmds') : m + n \in 1..Len(cmds) /\ cmds'[m] = cmds[m + n]
           /\ taken' = taken - n /\ flushed' = flushed - n /\ closed' = closed
           /\ flushed' \in 0..Len(cmds') /\ taken' \in 0..flushed'
           /\ flushed' - taken' <= PipeCommands
           /\ TasksNamed' /\ (UNCHANGED <<writing, state>> => Blocked')
<1>1. /\ cmds \in Seq(CommandType) /\ Len(cmds) \in Nat
      /\ taken \in Nat /\ flushed \in Nat /\ taken <= flushed /\ flushed <= Len(cmds)
      /\ flushed - taken <= PipeCommands /\ n \in Nat /\ 1 <= n /\ n <= taken
  BY CapacityAssumption DEF Types, TypeOK
<1>2. /\ cmds' = SubSeq(cmds, n + 1, Len(cmds))
      /\ taken' = taken - n /\ flushed' = flushed - n /\ closed' = closed
  BY DEF Drop
<1>3. /\ cmds' \in Seq(CommandType) /\ Len(cmds') = Len(cmds) - n
      /\ \A m \in 1..Len(cmds') : m + n \in 1..Len(cmds) /\ cmds'[m] = cmds[m + n]
  BY <1>1, <1>2
<1>4. TasksNamed'
  BY <1>3 DEF Types, TasksNamed
<1>5. /\ flushed' \in 0..Len(cmds') /\ taken' \in 0..flushed'
      /\ flushed' - taken' <= PipeCommands
  <2>1. Len(cmds') = Len(cmds) - n
    BY <1>3
  <2> QED
    BY <1>1, <1>2, <2>1, CapacityAssumption
<1>6. UNCHANGED <<writing, state>> => Blocked'
  <2>1. flushed < Len(cmds) => flushed' < Len(cmds') /\ Len(cmds') \in 1..Len(cmds')
    BY <1>1, <1>2, <1>3
  <2>2. Len(cmds') + n = Len(cmds)
    BY <1>1, <1>3
  <2> QED
    BY <1>3, <2>1, <2>2 DEF Types, Blocked
<1> QED
  BY <1>2, <1>3, <1>4, <1>5, <1>6

-----------------------------------------------------------------------------
(* Every step keeps the types.                                             *)

\* What the steps that only move the run queue or the main loop on may change.
LEMMA MoveTypes ==
    ASSUME Types,
           state' \in States, state' = state \/ state' # "Dead",
           live' \subseteq live, writing' \in {writing, "none"},
           stage' \in Stages, kind' \in Kinds, todo' \subseteq Tasks, dying' \in BOOLEAN,
           signalled' \subseteq Tasks, closed' \in BOOLEAN,
           UNCHANGED <<hashes, sent, sentwith, told, over, cmds, taken, flushed>>,
           UNCHANGED <<newhashes, build_pids, passed, child, runswith, fired, exit>>,
           UNCHANGED messages
    PROVE  Types'
BY DEF Types, TypeOK, TasksNamed, Blocked, Behind, messages

LEMMA MoveSteps ==
    ASSUME Types,
           \/ Finish \/ Complete \/ TornDown \/ WriteFails
           \/ EndOfFile \/ Misread \/ PipesDone \/ CollectDone \/ KillDone
    PROVE  Types'
<1>1. CASE Finish \/ Complete \/ TornDown
  BY <1>1, MoveTypes DEF Finish, Complete, TornDown, Types, TypeOK, Behind, States, commands, loop, children
<1>2. CASE WriteFails
  BY <1>2, MoveTypes DEF WriteFails, Types, TypeOK, Behind, States, commands, loop, children
<1>3. CASE EndOfFile \/ Misread
  BY <1>3, MoveTypes DEF EndOfFile, Misread, Types, TypeOK, Behind, Stages, queue, commands, children
<1>4. CASE PipesDone \/ CollectDone \/ KillDone
  BY <1>4, MoveTypes DEF PipesDone, CollectDone, KillDone, Types, TypeOK, Behind, Stages, queue, commands, children
<1> QED
  BY <1>1, <1>2, <1>3, <1>4

\* The kinds of commands that are taken are kinds of commands.
LEMMA GoOnTypes ==
    ASSUME Types, WakeUp \/ ItemDone
    PROVE  Types'
<1>1. stage' \in Stages /\ kind' \in Kinds
  <2>1. \A n \in 1..taken : cmds[n].kind \in Kinds
    BY Marks, CommandsTyped
  <2>2. CASE 1 > taken \/ UNCHANGED kind
    BY <2>2 DEF WakeUp, ItemDone, GoOn, Types, TypeOK, Stages
  <2>3. CASE ~(1 > taken) /\ ~UNCHANGED kind
    <3>1. 1 \in 1..taken
      BY <2>3 DEF Types, TypeOK
    <3> QED
      BY <2>1, <2>3, <3>1 DEF WakeUp, ItemDone, GoOn, Stages
  <2> QED
    BY <2>2, <2>3
<1> QED
  BY <1>1, MoveTypes DEF WakeUp, ItemDone, Types, TypeOK, Behind, queue, commands, children

LEMMA TakeTypes ==
    ASSUME Types, TakeCommands
    PROVE  Types'
<1>1. flushed \in Nat /\ taken \in Nat /\ flushed > taken /\ 1 <= flushed /\ flushed <= Len(cmds)
  BY DEF Types, TypeOK, TakeCommands
<1>2. cmds[1] \in CommandType
  BY <1>1 DEF Types, TypeOK
<1>3. kind' \in Kinds
  BY <1>2 DEF CommandType, TakeCommands
<1>4. taken' \in 0..flushed' /\ flushed' - taken' <= PipeCommands /\ flushed' \in 0..Len(cmds')
  BY <1>1, CapacityAssumption DEF TakeCommands
<1> QED
  BY <1>3, <1>4 DEF Types, TypeOK, TasksNamed, Blocked, Behind, TakeCommands, Stages, queue, children, messages

LEMMA WriteOneTypes ==
    ASSUME Types, WriteOne
    PROVE  Types'
<1>1. flushed < Len(cmds) /\ cmds[Len(cmds)].kind = writing
  BY DEF WriteOne, Types, Blocked
<1>2. /\ flushed' = flushed + 1 /\ taken' = taken /\ cmds' = cmds
      /\ flushed - taken < PipeCommands
  BY DEF WriteOne
<1>3. taken' \in 0..flushed' /\ flushed' - taken' <= PipeCommands /\ flushed' \in 0..Len(cmds')
  BY <1>1, <1>2, Marks
<1>4. Blocked'
  BY <1>1, <1>2, <1>3, Marks DEF WriteOne, Types, Blocked
<1> QED
  BY <1>3, <1>4 DEF Types, TypeOK, TasksNamed, Behind, WriteOne, loop, children, messages

\* The steps of the children, and the signals.
LEMMA ChildTypes ==
    ASSUME Types, NEW t \in Tasks,
           Ready(t) \/ Fire(t) \/ EndsByItself(t) \/ EndsBySignal(t) \/ Kill(t) \/ WaitAny(t)
    PROVE  Types'
<1>1. CASE Ready(t)
  BY <1>1 DEF Ready, Types, TypeOK, TasksNamed, Blocked, Behind, queue, commands, loop, messages
<1>2. CASE Fire(t)
  <2>1. fired \in [Tasks -> 0..MaxEvents] /\ fired[t] < MaxEvents
        /\ fired' = [fired EXCEPT ![t] = @ + 1]
    BY <1>2 DEF Fire, Types, TypeOK
  <2>2. fired[t] + 1 \in 0..MaxEvents
    BY <2>1, BoundAssumption
  <2>3. fired' \in [Tasks -> 0..MaxEvents] /\ Behind'
    <3>1. \A u \in Tasks : fired'[u] >= fired[u] /\ passed[u] \in 0..MaxEvents
      BY <1>2, <2>1, BoundAssumption DEF Fire, loop, Types, TypeOK
    <3>2. fired' \in [Tasks -> 0..MaxEvents] /\ passed' = passed
      BY <1>2, <2>1, <2>2 DEF Fire, loop
    <3> QED
      BY <2>1, <3>1, <3>2, BoundAssumption DEF Types, Behind
  <2> QED
    BY <1>2, <2>3 DEF Fire, Types, TypeOK, TasksNamed, Blocked, Behind, queue, commands, loop, messages
<1>3. CASE EndsByItself(t) \/ EndsBySignal(t)
  <2>1. PICK code \in Codes : Ends(t, code)
    BY <1>3 DEF EndsByItself, EndsBySignal, Codes
  <2> QED
    BY <2>1 DEF Ends, Types, TypeOK, TasksNamed, Blocked, Behind, queue, commands, loop, messages
<1>4. CASE Kill(t)
  BY <1>4, MoveTypes DEF Kill, Types, TypeOK, Behind, Stages, queue, commands
<1>5. CASE WaitAny(t)
  BY <1>5 DEF WaitAny, Types, TypeOK, TasksNamed, Blocked, Behind, Stages, queue, commands, messages
<1> QED
  BY <1>1, <1>2, <1>3, <1>4, <1>5

\* The steps that write a command.
LEMMA WriteSteps ==
    ASSUME Types,
           \/ \E t \in Tasks : StartTask(t)
           \/ NewHashes \/ FinishNow \/ NoticeDeath \/ NoticeAgain \/ Teardown
    PROVE  Types'
<1>1. CASE \E t \in Tasks : StartTask(t)
  <2>1. PICK t \in Tasks : StartTask(t)
    BY <1>1
  <2>2. /\ cmds' \in Seq(CommandType) /\ Len(cmds') = Len(cmds) + 1 /\ TasksNamed' /\ Blocked'
        /\ taken' = taken /\ flushed' = flushed /\ closed' = closed
        /\ writing' \in Kinds \cup {"none"}
    BY <2>1, WriteTypes DEF StartTask, Kinds, Free
  <2>3. flushed' \in 0..Len(cmds') /\ taken' \in 0..flushed'
    BY <2>2, Marks
  <2> QED
    BY <2>1, <2>2, <2>3 DEF StartTask, Types, TypeOK, Behind, States, loop, children, messages
<1>2. CASE NewHashes
  <2> DEFINE c == [kind |-> "newtaskhashes", task |-> NoTask, hashes |-> hashes + 1]
  <2>1. hashes + 1 \in 0..MaxHashes /\ hashes' = hashes + 1
    BY <1>2, BoundAssumption DEF NewHashes, Types, TypeOK
  <2>2. c \in CommandType
    BY <2>1 DEF CommandType, Kinds
  <2>3. cmds \in Seq(CommandType) /\ cmds' = Append(cmds, c)
    BY <1>2, <2>1 DEF NewHashes, Types, TypeOK
  <2> HIDE DEF c
  <2>4. /\ cmds' \in Seq(CommandType) /\ Len(cmds') = Len(cmds) + 1 /\ cmds'[Len(cmds')] = c
        /\ \A n \in 1..Len(cmds) : cmds'[n] = cmds[n]
    BY <2>2, <2>3, AppendProperties
  <2>5. TasksNamed'
    BY <2>3, <2>4 DEF c, TasksNamed, Types
  <2>6. flushed \in 0..Len(cmds') /\ taken \in 0..flushed
    BY <2>4, Marks
  <2>7. Blocked'
    BY <1>2, <2>4, Marks DEF c, NewHashes, Free, Blocked
  <2> QED
    BY <1>2, <2>1, <2>4, <2>5, <2>6, <2>7
    DEF NewHashes, Types, TypeOK, Behind, Kinds, loop, children, messages
<1>3. CASE FinishNow \/ NoticeDeath \/ NoticeAgain \/ Teardown
  <2>1. PICK k \in {"finishnow", "quit"} : Write(k, NoTask)
    BY <1>3 DEF FinishNow, NoticeDeath, NoticeAgain, Teardown
  <2>2. /\ cmds' \in Seq(CommandType) /\ Len(cmds') = Len(cmds) + 1 /\ TasksNamed' /\ Blocked'
        /\ taken' = taken /\ flushed' = flushed /\ closed' = closed
        /\ writing' \in Kinds \cup {"none"}
    BY <1>3, <2>1, WriteTypes DEF Kinds, FinishNow, NoticeDeath, NoticeAgain, Teardown
  <2>3. flushed' \in 0..Len(cmds') /\ taken' \in 0..flushed'
    BY <2>2, Marks
  <2>4. state' \in States
    BY <1>3 DEF FinishNow, NoticeDeath, NoticeAgain, Teardown, States
  <2> QED
    BY <1>3, <2>2, <2>3, <2>4
    DEF FinishNow, NoticeDeath, NoticeAgain, Teardown, Types, TypeOK, Behind, loop, children, messages
<1> QED
  BY <1>1, <1>2, <1>3

\* What is not flushed is lost with the run queue.
LEMMA CookerDiesTypes ==
    ASSUME Types, CookerDies
    PROVE  /\ Types' /\ Len(cmds') = flushed
           /\ \A n \in 1..Len(cmds') : cmds'[n] = cmds[n]
<1>1. /\ cmds' \in Seq(CommandType) /\ Len(cmds') = flushed
      /\ \A n \in 1..flushed : cmds'[n] = cmds[n]
  <2>1. cmds \in Seq(CommandType) /\ cmds' = SubSeq(cmds, 1, flushed)
    BY DEF CookerDies, Types, TypeOK
  <2> QED
    BY <2>1, Marks
<1>2. TasksNamed'
  BY <1>1, Marks DEF TasksNamed, Types
<1>3. flushed' \in 0..Len(cmds') /\ taken' \in 0..flushed'
  BY <1>1, Marks DEF CookerDies
<1>4. Types'
  BY <1>1, <1>2, <1>3
  DEF CookerDies, Types, TypeOK, Blocked, Behind, States, loop, children, messages
<1> QED
  BY <1>1, <1>4

\* The steps that handle a command.
LEMMA HandleSteps ==
    ASSUME Types,
           \/ HandleConfig \/ HandleNewTaskHashes \/ HandleRunTask
           \/ HandleFinishNow \/ HandleQuit
    PROVE  Types'
<1>1. PICK n \in 1..taken : Drop(n)
  <2>1. CASE HandleFinishNow
    BY <2>1 DEF HandleFinishNow, Closing
  <2>2. CASE ~HandleFinishNow
    BY <2>2, Marks DEF HandleConfig, HandleNewTaskHashes, HandleRunTask, HandleQuit, First
  <2> QED
    BY <2>1, <2>2
<1>2. /\ cmds' \in Seq(CommandType) /\ closed' = closed /\ TasksNamed' /\ Blocked'
      /\ flushed' \in 0..Len(cmds') /\ taken' \in 0..flushed'
      /\ flushed' - taken' <= PipeCommands
  <2>1. UNCHANGED <<writing, state>>
    BY DEF HandleConfig, HandleNewTaskHashes, HandleRunTask, HandleFinishNow, HandleQuit, queue
  <2> QED
    BY <1>1, <2>1, DropTypes
<1>3. CASE HandleConfig
  BY <1>2, <1>3 DEF HandleConfig, Types, TypeOK, Behind, queue, loop, children, messages
<1>4. CASE HandleNewTaskHashes
  <2>1. newhashes' \in 0..MaxHashes
    BY <1>4, Marks, CommandsTyped DEF HandleNewTaskHashes, First
  <2> QED
    BY <1>2, <1>4, <2>1 DEF HandleNewTaskHashes, Types, TypeOK, Behind, queue, children, messages
<1>5. CASE HandleRunTask
  <2>1. cmds[1].task \in Tasks
    BY <1>5, Marks DEF HandleRunTask, First, Types, TasksNamed
  <2> QED
    BY <1>2, <1>5, <2>1 DEF HandleRunTask, Types, TypeOK, Behind, queue, messages
<1>6. CASE HandleFinishNow
  BY <1>2, <1>6 DEF HandleFinishNow, Types, TypeOK, Behind, Stages, queue, children, messages
<1>7. CASE HandleQuit
  BY <1>2, <1>7 DEF HandleQuit, Types, TypeOK, Behind, Stages, queue, children, messages
<1> QED
  BY <1>3, <1>4, <1>5, <1>6, <1>7

\* The steps that move messages.
LEMMA ReadTypes ==
    ASSUME Types, Read
    PROVE  /\ Types' /\ Len(out') = Len(out) - 1
           /\ out[1] \in Message /\ out # <<>>
           /\ \A n \in 1..Len(out') : n + 1 \in 1..Len(out) /\ out'[n] = out[n + 1]
<1>1. out \in Seq(Message) /\ Len(out) >= 1 /\ out' = Tail(out) /\ piped' = piped - 1 /\ piped >= 1
  BY Marks DEF Read, Types, TypeOK
<1>2. /\ out' \in Seq(Message) /\ Len(out') = Len(out) - 1 /\ out # <<>>
      /\ \A n \in 1..Len(out') : n + 1 \in 1..Len(out) /\ out'[n] = out[n + 1]
      /\ Head(out) = out[1] /\ out[1] \in Message
  BY <1>1, HeadTailProperties
<1>3. piped' \in 0..Len(out') /\ piped' <= PipeMessages
  BY <1>1, <1>2, Marks DEF Types, TypeOK
<1>4. told' \in [Tasks -> 0..MaxEvents] /\ over' \in [Tasks -> Codes \cup {None}] /\ live' \subseteq sent
  <2>1. out[1].event \in 0..MaxEvents /\ out[1].code \in Codes \cup {None}
    BY <1>2 DEF Message
  <2> DEFINE m == out[1]
  <2>4. /\ m.code = None =>
             told' = [told EXCEPT ![m.task] = m.event] /\ UNCHANGED <<live, over>>
        /\ m.code # None =>
             over' = [over EXCEPT ![m.task] = m.code] /\ live' = live \ {m.task} /\ UNCHANGED told
    BY <1>2 DEF Read
  <2> HIDE DEF m
  <2>5. /\ told \in [Tasks -> 0..MaxEvents] /\ over \in [Tasks -> Codes \cup {None}]
        /\ live \subseteq sent
    BY DEF Types, TypeOK
  <2>6. m.event \in 0..MaxEvents /\ m.code \in Codes \cup {None}
    BY <2>1 DEF m
  <2>2. CASE m.code = None
    BY <2>2, <2>4, <2>5, <2>6
  <2>3. CASE m.code # None
    BY <2>3, <2>4, <2>5, <2>6
  <2> QED
    BY <2>2, <2>3
<1> QED
  BY <1>2, <1>3, <1>4
  DEF Read, Types, TypeOK, TasksNamed, Blocked, Behind, commands, loop, children

LEMMA WaitingTypes ==
    ASSUME Types, NEW t \in Tasks
    PROVE  /\ Waiting(t) \in Seq(Message) /\ Len(Waiting(t)) = fired[t] - passed[t]
           /\ \A n \in 1..Len(Waiting(t)) : Waiting(t)[n] = Event(t, passed[t] + n)
<1>1. fired[t] \in 0..MaxEvents /\ passed[t] \in 0..MaxEvents
  BY DEF Types, TypeOK
<1>2. \A n \in 1..(fired[t] - passed[t]) : Event(t, passed[t] + n) \in Message
  BY <1>1, BoundAssumption DEF Event, Message
<1>3. fired[t] - passed[t] \in Nat
  BY <1>1, BoundAssumption DEF Types, Behind
<1>4. Waiting(t) \in [1..(fired[t] - passed[t]) -> Message]
  BY <1>2 DEF Waiting
<1> QED
  BY <1>3, <1>4 DEF Waiting

\* out with what waits in a pipe behind it.
LEMMA PassOn ==
    ASSUME Types, NEW t \in Tasks
    PROVE  LET w == out \o Waiting(t) IN
           /\ w \in Seq(Message) /\ Len(w) = Len(out) + (fired[t] - passed[t])
           /\ \A n \in 1..Len(out) : w[n] = out[n]
           /\ \A n \in 1..Len(w) : n > Len(out) =>
                  w[n] = Event(t, passed[t] + (n - Len(out)))
<1>1. /\ out \in Seq(Message) /\ Waiting(t) \in Seq(Message)
      /\ Len(Waiting(t)) = fired[t] - passed[t]
      /\ \A n \in 1..Len(Waiting(t)) : Waiting(t)[n] = Event(t, passed[t] + n)
  BY WaitingTypes DEF Types, TypeOK
<1>2. /\ out \o Waiting(t) \in Seq(Message)
      /\ Len(out \o Waiting(t)) = Len(out) + Len(Waiting(t))
      /\ \A n \in 1..Len(out) + Len(Waiting(t)) :
             (out \o Waiting(t))[n] = IF n <= Len(out) THEN out[n] ELSE Waiting(t)[n - Len(out)]
  BY <1>1, ConcatProperties
<1>3. Len(out) \in Nat /\ Len(Waiting(t)) \in Nat
  BY <1>1
<1> QED
  BY <1>1, <1>2, <1>3

LEMMA ReadPipeTypes ==
    ASSUME Types, NEW t \in Tasks, ReadPipe(t)
    PROVE  Types'
<1>1. out' \in Seq(Message) /\ Len(out') = Len(out) + (fired[t] - passed[t])
  BY PassOn DEF ReadPipe
<1>2. fired[t] - passed[t] \in Nat
  BY BoundAssumption DEF Types, TypeOK, Behind
<1>3. piped' \in 0..Len(out') /\ piped' <= PipeMessages
  BY <1>1, <1>2, Marks DEF ReadPipe, Types, TypeOK
<1>4. passed' \in [Tasks -> 0..MaxEvents] /\ Behind'
  BY BoundAssumption DEF ReadPipe, Types, TypeOK, Behind, children
<1> QED
  BY <1>1, <1>3, <1>4
  DEF ReadPipe, Types, TypeOK, TasksNamed, Blocked, queue, commands, children

LEMMA CollectTypes ==
    ASSUME Types, NEW t \in Tasks, Collect(t)
    PROVE  /\ Types' /\ Len(out') = Len(out) + (fired[t] - passed[t]) + 1
           /\ \A n \in 1..Len(out) : out'[n] = out[n]
           /\ \A n \in 1..Len(out') :
                  n > Len(out) /\ n # Len(out') => out'[n] = Event(t, passed[t] + (n - Len(out)))
           /\ out'[Len(out')] = Exitcode(t)
<1> DEFINE w == out \o Waiting(t)
<1>1. /\ w \in Seq(Message) /\ Len(w) = Len(out) + (fired[t] - passed[t])
      /\ \A n \in 1..Len(out) : w[n] = out[n]
      /\ \A n \in 1..Len(w) : n > Len(out) => w[n] = Event(t, passed[t] + (n - Len(out)))
  BY PassOn
<1>2. Exitcode(t) \in Message
  BY BoundAssumption DEF Exitcode, Message, Types, TypeOK
<1>3. out' = Append(w, Exitcode(t)) /\ piped' = piped
  BY DEF Collect
<1> HIDE DEF w
<1>4. /\ out' \in Seq(Message) /\ Len(out') = Len(w) + 1 /\ out'[Len(w) + 1] = Exitcode(t)
      /\ \A n \in 1..Len(w) : out'[n] = w[n]
  BY <1>1, <1>2, <1>3, AppendProperties
<1>5. fired[t] - passed[t] \in Nat
  BY BoundAssumption DEF Types, TypeOK, Behind
<1>6. piped' \in 0..Len(out') /\ piped' <= PipeMessages
  BY <1>1, <1>3, <1>4, <1>5, Marks DEF Types, TypeOK
<1>7. passed' \in [Tasks -> 0..MaxEvents] /\ Behind'
  BY BoundAssumption DEF Collect, Types, TypeOK, Behind
<1>8. Types'
  BY <1>4, <1>6, <1>7
  DEF Collect, Types, TypeOK, TasksNamed, Blocked, queue, commands
<1>9. Len(w) \in Nat /\ Len(out) \in Nat /\ Len(w) >= Len(out)
  BY <1>1, <1>5, Marks
<1>10. \A n \in 1..Len(out) : n \in 1..Len(w) /\ out'[n] = out[n]
  BY <1>1, <1>4, <1>9
<1>11. \A n \in 1..Len(out') : n # Len(out') => n \in 1..Len(w) /\ out'[n] = w[n]
  BY <1>4, <1>9
<1> QED
  BY <1>1, <1>4, <1>8, <1>10, <1>11

\* The end of the worker.
LEMMA ExitTypes ==
    ASSUME Types, Exit
    PROVE  /\ Types' /\ Len(out') = piped
           /\ \A n \in 1..piped : n \in 1..Len(out) /\ out'[n] = out[n]
<1>1. /\ out' \in Seq(Message) /\ Len(out') = piped
      /\ \A n \in 1..piped : n \in 1..Len(out) /\ out'[n] = out[n]
  <2>1. out \in Seq(Message) /\ out' = SubSeq(out, 1, piped)
    BY DEF Exit, Types, TypeOK
  <2> QED
    BY <2>1, Marks
<1>2. piped' \in 0..Len(out') /\ piped' <= PipeMessages
  BY <1>1, Marks DEF Exit, Types, TypeOK
<1> QED
  BY <1>1, <1>2
  DEF Exit, Types, TypeOK, TasksNamed, Blocked, Behind, Stages, queue, commands

LEMMA FlushTypes ==
    ASSUME Types, Flush
    PROVE  Types'
<1>1. piped' \in 0..Len(out') /\ piped' <= PipeMessages
  BY Marks DEF Flush
<1> QED
  BY <1>1 DEF Flush, Types, TypeOK, TasksNamed, Blocked, Behind, queue, commands, loop, children

LEMMA StutterTypes ==
    ASSUME Types, UNCHANGED vars
    PROVE  Types'
BY DEF Types, TypeOK, TasksNamed, Blocked, Behind, vars, queue, commands, loop, children, messages

LEMMA TypesStep ==
    ASSUME Types, [Next]_vars
    PROVE  Types'
<1>1. CASE QueueStep
  BY <1>1, WriteOneTypes, MoveSteps, WriteSteps, ReadTypes DEF QueueStep
<1>2. CASE CookerDies
  BY <1>2, CookerDiesTypes
<1>3. CASE WorkerStep
  <2>1. CASE TakeCommands \/ WakeUp \/ EndOfFile \/ PipesDone \/ CollectDone \/ KillDone
    BY <2>1, TakeTypes, GoOnTypes, MoveSteps
  <2>2. CASE ItemStep
    BY <2>2, GoOnTypes, HandleSteps, MoveSteps DEF ItemStep
  <2>3. CASE \E t \in Tasks : Kill(t) \/ WaitAny(t) \/ ReadPipe(t) \/ Collect(t)
    BY <2>3, ChildTypes, ReadPipeTypes, CollectTypes
  <2>4. CASE KillSelf \/ Leave
    BY <2>4, ExitTypes DEF KillSelf, Leave
  <2> QED
    BY <1>3, <2>1, <2>2, <2>3, <2>4 DEF WorkerStep
<1>4. CASE WorkerKilled
  BY <1>4, ExitTypes DEF WorkerKilled
<1>5. CASE Flush
  BY <1>5, FlushTypes
<1>6. CASE ChildStep
  BY <1>6, ChildTypes DEF ChildStep
<1>7. CASE Terminated \/ UNCHANGED vars
  BY <1>7, StutterTypes DEF Terminated
<1> QED
  BY <1>1, <1>2, <1>3, <1>4, <1>5, <1>6, <1>7 DEF Next

\* TypeOK, for any instance.
THEOREM TypeHolds == Spec => []TypeOK
<1>1. Types => TypeOK
  BY DEF Types
<1> QED
  BY <1>1, InitTypes, TypesStep, PTL DEF Spec

-----------------------------------------------------------------------------
(* The children the worker has not collected are in build_pids: only         *)
(* process_waitpid() takes one out, and it collects it.                      *)

LEMMA KnownStep ==
    ASSUME Types, ChildrenKnown, [Next]_vars
    PROVE  ChildrenKnown'
<1> USE DEF ChildrenKnown, Unreaped, Exited
<1>1. CASE UNCHANGED <<build_pids, child>> /\ (Exited => Exited')
  BY <1>1
<1>2. CASE QueueStep
  <2>1. UNCHANGED <<build_pids, child, stage>>
    BY <1>2
    DEF QueueStep, WriteOne, WriteFails, StartTask, NewHashes, Read, Finish, Complete, FinishNow,
        NoticeDeath, NoticeAgain, Teardown, TornDown, loop, children
  <2> QED
    BY <1>1, <2>1
<1>3. CASE CookerDies \/ Flush \/ Terminated \/ UNCHANGED vars
  BY <1>1, <1>3 DEF CookerDies, Flush, Terminated, vars, loop, children
<1>4. CASE WorkerKilled \/ KillSelf \/ Leave
  BY <1>4 DEF WorkerKilled, KillSelf, Leave, Exit
<1>5. CASE TakeCommands \/ WakeUp \/ EndOfFile \/ ItemDone \/ PipesDone \/ CollectDone \/ KillDone
  BY <1>1, <1>5
  DEF TakeCommands, WakeUp, EndOfFile, ItemDone, PipesDone, CollectDone, KillDone, children
<1>6. CASE HandleConfig \/ HandleNewTaskHashes \/ Misread \/ HandleFinishNow \/ HandleQuit
  BY <1>1, <1>6
  DEF HandleConfig, HandleNewTaskHashes, Misread, HandleFinishNow, HandleQuit, First, children, loop
<1>7. CASE HandleRunTask
  BY <1>7 DEF HandleRunTask, First, Types, TypeOK
<1>8. CASE \E t \in Tasks : Kill(t) \/ ReadPipe(t)
  BY <1>1, <1>8 DEF Kill, ReadPipe, children
<1>9. CASE \E t \in Tasks : WaitAny(t) \/ Collect(t)
  BY <1>9 DEF WaitAny, Collect, Types, TypeOK
<1>10. CASE ChildStep
  BY <1>10 DEF ChildStep, Ready, Fire, EndsByItself, EndsBySignal, Ends, Types, TypeOK, loop
<1> QED
  BY <1>2, <1>3, <1>4, <1>5, <1>6, <1>7, <1>8, <1>9, <1>10
  DEF Next, WorkerStep, ItemStep

\* ChildrenKnown, for any instance.
THEOREM KnownHolds == Spec => []ChildrenKnown
<1>1. Init => ChildrenKnown
  BY DEF Init, ChildrenKnown, Unreaped
<1> QED
  BY <1>1, InitTypes, TypesStep, KnownStep, PTL DEF Spec

-----------------------------------------------------------------------------
(* The hashes a process is forked with. Every command carries the hashes of  *)
(* the run queue at its time: only a <newtaskhashes> carries more of them    *)
(* than what is before it, and what is before the first is newhashes. The    *)
(* one call that skips commands, for <finishnow>, skips none of them.        *)

Before(n) == IF n = 1 THEN newhashes ELSE cmds[n - 1].hashes

Chain ==
    \A n \in 1..Len(cmds) :
        cmds[n].hashes = IF cmds[n].kind = "newtaskhashes" THEN Before(n) + 1 ELSE Before(n)

UpToDate == state # "Dead" => hashes = Before(Len(cmds) + 1)

\* There are no new hashes once a <finishnow> is written,
AfterFinish ==
    \A m \in 1..Len(cmds) : cmds[m].kind = "finishnow" =>
        /\ state # "Running"
        /\ \A n \in m..Len(cmds) : cmds[n].hashes = hashes /\ cmds[n].kind # "newtaskhashes"

\* and the worker gets to one only when it has handled those before it.
AtFinish ==
    kind = "finishnow" =>
        /\ state # "Running" /\ newhashes = hashes
        /\ \A n \in 1..Len(cmds) : cmds[n].hashes = hashes /\ cmds[n].kind # "newtaskhashes"

GivenWith ==
    \A n \in 1..Len(cmds) : cmds[n].kind = "runtask" =>
        cmds[n].task \in sent /\ cmds[n].hashes = sentwith[cmds[n].task]

ForkedWith ==
    \A t \in Tasks : runswith[t] # None => t \in sent /\ runswith[t] = sentwith[t]

InStep == Chain /\ UpToDate /\ AfterFinish /\ AtFinish /\ GivenWith /\ ForkedWith

LEMMA InitInStep == Init => InStep
<1> SUFFICES ASSUME Init PROVE InStep
  OBVIOUS
<1>1. /\ Len(cmds) = 1 /\ cmds[1].kind = "config" /\ cmds[1].hashes = 0
      /\ kind = "config" /\ hashes = 0 /\ newhashes = 0
      /\ runswith = [t \in Tasks |-> None]
  BY DEF Init
<1>2. Chain /\ UpToDate
  BY <1>1 DEF Chain, UpToDate, Before
<1>3. AfterFinish /\ AtFinish /\ GivenWith /\ ForkedWith
  BY <1>1 DEF AfterFinish, AtFinish, GivenWith, ForkedWith
<1> QED
  BY <1>2, <1>3 DEF InStep

\* A step that leaves the stream alone.
LEMMA KeepInStep ==
    ASSUME Types, InStep,
           UNCHANGED <<cmds, hashes, newhashes, sent, sentwith, runswith>>,
           state' = state \/ (state # "Dead" /\ state' # "Running"),
           kind' = kind \/ (Len(cmds) >= 1 /\ kind' = cmds[1].kind)
    PROVE  InStep'
<1>1. Chain' /\ UpToDate' /\ AfterFinish'
  BY DEF InStep, Chain, UpToDate, AfterFinish, Before
<1>2. AtFinish'
  <2>1. CASE kind' = kind
    BY <2>1 DEF InStep, AtFinish
  <2>2. CASE Len(cmds) >= 1 /\ kind' = cmds[1].kind /\ kind' = "finishnow"
    <3>1. 1 \in 1..Len(cmds)
      BY <2>2, Marks
    <3>2. state # "Running" /\ \A n \in 1..Len(cmds) : cmds[n].hashes = hashes /\ cmds[n].kind # "newtaskhashes"
      BY <2>2, <3>1 DEF InStep, AfterFinish
    <3>3. newhashes = hashes
      BY <2>2, <3>1, <3>2 DEF InStep, Chain, Before
    <3> QED
      BY <3>2, <3>3 DEF AtFinish
  <2> QED
    BY <2>1, <2>2 DEF AtFinish
<1>3. GivenWith' /\ ForkedWith'
  BY DEF InStep, GivenWith, ForkedWith
<1> QED
  BY <1>1, <1>2, <1>3 DEF InStep

\* A step that writes a command.
LEMMA AppendInStep ==
    ASSUME Types, InStep, Types',
           Len(cmds') = Len(cmds) + 1, \A n \in 1..Len(cmds) : cmds'[n] = cmds[n],
           cmds'[Len(cmds')].hashes = hashes',
           UNCHANGED <<newhashes, kind, runswith>>,
           state # "Dead",
           state' = state \/ state' # "Running",
           \/ hashes' = hashes /\ cmds'[Len(cmds')].kind # "newtaskhashes"
           \/ hashes' = hashes + 1 /\ cmds'[Len(cmds')].kind = "newtaskhashes" /\ state = "Running",
           cmds'[Len(cmds')].kind = "finishnow" => state' # "Running",
           \/ cmds'[Len(cmds')].kind # "runtask" /\ UNCHANGED <<sent, sentwith>>
           \/ \E t \in Tasks :
                 /\ cmds'[Len(cmds')].task = t /\ t \notin sent /\ sent' = sent \cup {t}
                 /\ sentwith' = [sentwith EXCEPT ![t] = hashes]
                 /\ hashes' = hashes
    PROVE  InStep'
<1>1. PICK l \in Nat : l = Len(cmds) /\ Len(cmds') = l + 1
  BY Marks
<1>2. Chain'
  <2>1. \A n \in 1..l : Before(n)' = Before(n)
    BY <1>1 DEF Before
  <2>2. Before(l + 1)' = Before(l + 1)
    BY <1>1 DEF Before
  <2>3. Before(l + 1) = hashes
    BY <1>1 DEF InStep, UpToDate
  <2>4. hashes \in Nat
    BY BoundAssumption DEF Types, TypeOK
  <2>5. cmds'[l + 1].hashes = IF cmds'[l + 1].kind = "newtaskhashes" THEN Before(l + 1)' + 1 ELSE Before(l + 1)'
    BY <1>1, <2>2, <2>3, <2>4
  <2>6. ASSUME NEW n \in 1..(l + 1)
        PROVE  cmds'[n].hashes = IF cmds'[n].kind = "newtaskhashes" THEN Before(n)' + 1 ELSE Before(n)'
    <3>1. CASE n = l + 1
      BY <2>5, <3>1
    <3>2. CASE n # l + 1
      BY <1>1, <2>1, <3>2 DEF InStep, Chain
    <3> QED
      BY <3>1, <3>2
  <2> QED
    BY <1>1, <2>6 DEF Chain
<1>3. UpToDate'
  BY <1>1 DEF UpToDate, Before
<1>4. AfterFinish'
  <2> SUFFICES ASSUME NEW m \in 1..(l + 1), cmds'[m].kind = "finishnow",
                      NEW n \in m..(l + 1)
               PROVE  state' # "Running" /\ cmds'[n].hashes = hashes' /\ cmds'[n].kind # "newtaskhashes"
    BY <1>1 DEF AfterFinish
  <2>1. CASE m = l + 1
    BY <1>1, <2>1
  <2>2. CASE m \in 1..l
    <3>1. state # "Running" /\ \A i \in m..l : cmds[i].hashes = hashes /\ cmds[i].kind # "newtaskhashes"
      BY <1>1, <2>2 DEF InStep, AfterFinish
    <3>2. hashes' = hashes /\ cmds'[l + 1].kind # "newtaskhashes" /\ state' # "Running"
      BY <1>1, <3>1
    <3> QED
      BY <1>1, <3>1, <3>2
  <2> QED
    BY <1>1, <2>1, <2>2
<1>5. AtFinish'
  BY <1>1 DEF InStep, AtFinish
<1>6. GivenWith' /\ ForkedWith'
  <2>1. \A n \in 1..l : cmds'[n] = cmds[n] /\ (cmds[n].kind = "runtask" => cmds[n].task \in Tasks)
    BY <1>1 DEF Types, TasksNamed
  <2>2. \A t \in sent : t \in sent' /\ sentwith'[t] = sentwith[t]
    BY DEF Types, TypeOK
  <2>3. cmds'[l + 1].kind = "runtask" =>
            cmds'[l + 1].task \in sent' /\ cmds'[l + 1].hashes = sentwith'[cmds'[l + 1].task]
    <3>1. sentwith \in [Tasks -> (0..MaxHashes) \cup {None}]
      BY DEF Types, TypeOK
    <3> QED
      BY <1>1, <3>1
  <2> QED
    BY <1>1, <2>1, <2>2, <2>3 DEF InStep, GivenWith, ForkedWith
<1> QED
  BY <1>2, <1>3, <1>4, <1>5, <1>6 DEF InStep

\* A step that takes commands off: the first one, or, for <finishnow>, more.
LEMMA DropInStep ==
    ASSUME Types, InStep, NEW n \in 1..taken, Drop(n),
           UNCHANGED <<hashes, sent, sentwith, kind, state>>,
           n = 1 \/ kind = "finishnow",
           newhashes' = IF n = 1 /\ cmds[1].kind = "newtaskhashes" THEN cmds[1].hashes ELSE newhashes,
           ForkedWith'
    PROVE  InStep'
<1>1. PICK l \in Nat : l = Len(cmds) /\ n <= l /\ n \in Nat /\ 1 <= n
  BY Marks
<1>2. /\ Len(cmds') = l - n
      /\ \A m \in 1..(l - n) : m + n \in 1..l /\ cmds'[m] = cmds[m + n]
  BY <1>1, DropTypes
<1>3. newhashes' = cmds[n].hashes
  <2>1. CASE n = 1
    BY <1>1, <2>1 DEF InStep, Chain, Before
  <2>2. CASE n # 1 /\ kind = "finishnow"
    BY <1>1, <2>2 DEF InStep, AtFinish
  <2> QED
    BY <2>1, <2>2
<1>4. ASSUME NEW m \in 1..(l - n + 1) PROVE Before(m)' = Before(m + n)
  <2>1. CASE m = 1
    BY <1>1, <1>3, <2>1 DEF Before
  <2>2. CASE m # 1
    <3>1. m - 1 \in 1..(l - n) /\ (m - 1) + n = (m + n) - 1 /\ m + n # 1
      BY <1>1, <2>2
    <3> QED
      BY <1>2, <2>2, <3>1 DEF Before
  <2> QED
    BY <2>1, <2>2
<1>5. Chain'
  BY <1>1, <1>2, <1>4 DEF InStep, Chain
<1>6. UpToDate'
  <2>1. (l - n + 1) \in 1..(l - n + 1) /\ (l - n + 1) + n = l + 1
    BY <1>1
  <2>2. Before(l - n + 1)' = Before(l + 1)
    BY <1>4, <2>1
  <2> QED
    BY <1>1, <1>2, <2>2 DEF InStep, UpToDate
<1>7. AfterFinish' /\ GivenWith'
  BY <1>1, <1>2 DEF InStep, AfterFinish, GivenWith
<1>8. AtFinish'
  <2>1. kind = "finishnow" => newhashes' = hashes
    BY <1>1, <1>3 DEF InStep, AtFinish
  <2> QED
    BY <1>1, <1>2, <2>1 DEF InStep, AtFinish
<1> QED
  BY <1>5, <1>6, <1>7, <1>8 DEF InStep

\* The steps that handle a command.
LEMMA HandleInStep ==
    ASSUME Types, InStep,
           \/ HandleConfig \/ HandleNewTaskHashes \/ HandleRunTask
           \/ HandleFinishNow \/ HandleQuit
    PROVE  InStep'
<1>1. CASE HandleConfig \/ HandleNewTaskHashes \/ HandleQuit
  <2>1. /\ 1 \in 1..taken /\ Drop(1)
        /\ UNCHANGED <<hashes, sent, sentwith, kind, state, runswith>>
        /\ newhashes' = IF 1 = 1 /\ cmds[1].kind = "newtaskhashes" THEN cmds[1].hashes ELSE newhashes
    BY <1>1, Marks DEF HandleConfig, HandleNewTaskHashes, HandleQuit, First, queue, loop, children
  <2>2. ForkedWith'
    BY <2>1 DEF InStep, ForkedWith
  <2> QED
    BY <2>1, <2>2, DropInStep
<1>2. CASE HandleFinishNow
  <2>1. PICK n \in Closing : Drop(n)
    BY <1>2 DEF HandleFinishNow
  <2>2. /\ n \in 1..taken /\ kind = "finishnow" /\ cmds[n].kind = "finishnow"
        /\ UNCHANGED <<hashes, sent, sentwith, kind, state, runswith, newhashes>>
    BY <1>2, <2>1 DEF HandleFinishNow, Closing, queue, children
  <2>3. newhashes' = IF n = 1 /\ cmds[1].kind = "newtaskhashes" THEN cmds[1].hashes ELSE newhashes
    BY <2>2
  <2>4. ForkedWith'
    BY <2>2 DEF InStep, ForkedWith
  <2> QED
    BY <2>1, <2>2, <2>3, <2>4, DropInStep
<1>3. CASE HandleRunTask
  <2> DEFINE t == cmds[1].task
  <2>1. /\ 1 \in 1..taken /\ 1 \in 1..Len(cmds) /\ Drop(1) /\ cmds[1].kind = "runtask"
        /\ UNCHANGED <<hashes, sent, sentwith, kind, state, newhashes>>
        /\ runswith' = [runswith EXCEPT ![t] = newhashes]
    BY <1>3, Marks DEF HandleRunTask, First, queue
  <2>2. t \in sent /\ cmds[1].hashes = sentwith[t] /\ cmds[1].hashes = newhashes
    BY <2>1 DEF InStep, GivenWith, Chain, Before
  <2>3. ForkedWith'
    BY <2>1, <2>2 DEF InStep, ForkedWith, Types, TypeOK
  <2> QED
    BY <2>1, <2>3, DropInStep
<1> QED
  BY <1>1, <1>2, <1>3

\* The steps that write one.
LEMMA WriteInStep ==
    ASSUME Types, InStep,
           \/ \E t \in Tasks : StartTask(t)
           \/ NewHashes \/ FinishNow \/ NoticeDeath \/ NoticeAgain \/ Teardown
    PROVE  InStep'
<1>1. Types'
  BY WriteSteps
<1>2. CASE \E t \in Tasks : StartTask(t)
  <2>1. PICK t \in Tasks : StartTask(t)
    BY <1>2
  <2>2. /\ Len(cmds') = Len(cmds) + 1 /\ cmds'[Len(cmds')] = Command("runtask", t)
        /\ \A n \in 1..Len(cmds) : cmds'[n] = cmds[n]
    BY <2>1, WriteTypes DEF StartTask, Kinds
  <2>3. /\ cmds'[Len(cmds')].hashes = hashes' /\ cmds'[Len(cmds')].kind = "runtask"
        /\ cmds'[Len(cmds')].task = t
    BY <2>1, <2>2 DEF Command, StartTask
  <2>4. /\ UNCHANGED <<newhashes, kind, runswith, hashes>> /\ state # "Dead"
        /\ state' = state \/ state' # "Running"
        /\ t \notin sent /\ sent' = sent \cup {t} /\ sentwith' = [sentwith EXCEPT ![t] = hashes]
    BY <2>1 DEF StartTask, loop, children
  <2> QED
    BY <1>1, <2>2, <2>3, <2>4, AppendInStep
<1>3. CASE NewHashes
  <2> DEFINE c == [kind |-> "newtaskhashes", task |-> NoTask, hashes |-> hashes']
  <2>1. c \in CommandType
    <3>1. hashes' \in 0..MaxHashes
      BY <1>1 DEF Types, TypeOK
    <3> QED
      BY <3>1 DEF CommandType, Kinds
  <2>2. cmds \in Seq(CommandType) /\ cmds' = Append(cmds, c)
    BY <1>3 DEF NewHashes, Types, TypeOK
  <2>3. c.hashes = hashes' /\ c.kind = "newtaskhashes"
    OBVIOUS
  <2> HIDE DEF c
  <2>4. /\ Len(cmds') = Len(cmds) + 1 /\ cmds'[Len(cmds')] = c
        /\ \A n \in 1..Len(cmds) : cmds'[n] = cmds[n]
    BY <2>1, <2>2, AppendProperties
  <2>5. /\ UNCHANGED <<newhashes, kind, runswith, sent, sentwith, state>>
        /\ state = "Running" /\ hashes' = hashes + 1
    BY <1>3 DEF NewHashes, loop, children
  <2> QED
    BY <1>1, <2>3, <2>4, <2>5, AppendInStep
<1>4. CASE FinishNow \/ NoticeDeath \/ NoticeAgain \/ Teardown
  <2>1. PICK k \in {"finishnow", "quit"} : Write(k, NoTask)
    BY <1>4 DEF FinishNow, NoticeDeath, NoticeAgain, Teardown
  <2>2. /\ Len(cmds') = Len(cmds) + 1 /\ cmds'[Len(cmds')] = Command(k, NoTask)
        /\ \A n \in 1..Len(cmds) : cmds'[n] = cmds[n]
    BY <2>1, WriteTypes DEF Kinds
  <2>3. /\ UNCHANGED <<newhashes, kind, runswith, hashes, sent, sentwith>>
        /\ state # "Dead" /\ state' # "Running"
    BY <1>4 DEF FinishNow, NoticeDeath, NoticeAgain, Teardown, Free, loop, children
  <2>4. cmds'[Len(cmds')].hashes = hashes' /\ cmds'[Len(cmds')].kind \in {"finishnow", "quit"}
    BY <2>2, <2>3 DEF Command
  <2> QED
    BY <1>1, <2>2, <2>3, <2>4, AppendInStep
<1> QED
  BY <1>2, <1>3, <1>4

LEMMA DieInStep ==
    ASSUME Types, InStep, CookerDies
    PROVE  InStep'
<1>1. PICK f \in Nat : f = flushed /\ f <= Len(cmds) /\ Len(cmds) \in Nat
  BY Marks
<1>2. Len(cmds') = f /\ \A n \in 1..f : n \in 1..Len(cmds) /\ cmds'[n] = cmds[n]
  BY <1>1, CookerDiesTypes
<1>3. /\ state' = "Dead"
      /\ UNCHANGED <<hashes, sent, sentwith, newhashes, kind, runswith>>
  BY DEF CookerDies, loop, children
<1>4. \A n \in 1..f : Before(n)' = Before(n)
  BY <1>2, <1>3 DEF Before
<1>5. Chain' /\ UpToDate' /\ GivenWith' /\ ForkedWith'
  BY <1>2, <1>3, <1>4 DEF InStep, Chain, UpToDate, GivenWith, ForkedWith
<1>6. AfterFinish' /\ AtFinish'
  BY <1>1, <1>2, <1>3 DEF InStep, AfterFinish, AtFinish
<1> QED
  BY <1>5, <1>6 DEF InStep

LEMMA InStepStep ==
    ASSUME Types, InStep, [Next]_vars
    PROVE  InStep'
<1> DEFINE Same == UNCHANGED <<cmds, hashes, newhashes, sent, sentwith, runswith>>
<1>1. CASE Same /\ UNCHANGED <<state, kind>>
  BY <1>1, KeepInStep
<1>2. CASE WriteOne \/ WriteFails \/ Read \/ Finish \/ Complete \/ TornDown
  <2>1. Same /\ kind' = kind /\ (state' = state \/ (state # "Dead" /\ state' # "Running"))
    BY <1>2
    DEF Types, Blocked, WriteOne, WriteFails, Read, Finish, Complete, TornDown, Free, commands, loop, children
  <2> QED
    BY <2>1, KeepInStep
<1>3. CASE TakeCommands \/ WakeUp \/ ItemDone
  <2>1. Same /\ state' = state
    BY <1>3 DEF TakeCommands, WakeUp, ItemDone, queue, commands, children
  <2>2. kind' = kind \/ (Len(cmds) >= 1 /\ kind' = cmds[1].kind)
    BY <1>3, Marks DEF TakeCommands, WakeUp, ItemDone, GoOn
  <2> QED
    BY <2>1, <2>2, KeepInStep
<1>4. CASE \/ EndOfFile \/ Misread \/ PipesDone \/ CollectDone \/ KillDone \/ KillSelf \/ Leave
           \/ WorkerKilled \/ Flush \/ Terminated \/ UNCHANGED vars
  BY <1>1, <1>4
  DEF EndOfFile, Misread, PipesDone, CollectDone, KillDone, KillSelf, Leave, WorkerKilled, Exit,
      Flush, Terminated, vars, queue, commands, loop, children
<1>5. CASE \E t \in Tasks : Kill(t) \/ WaitAny(t) \/ ReadPipe(t) \/ Collect(t)
  BY <1>1, <1>5 DEF Kill, WaitAny, ReadPipe, Collect, queue, commands, children
<1>6. CASE ChildStep
  BY <1>1, <1>6 DEF ChildStep, Ready, Fire, EndsByItself, EndsBySignal, Ends, queue, commands, loop
<1>7. QED
  BY <1>2, <1>3, <1>4, <1>5, <1>6, HandleInStep, WriteInStep, DieInStep
  DEF Next, QueueStep, WorkerStep, ItemStep

\* RunsWithItsHashes, for any instance.
THEOREM HashesHold == Spec => []RunsWithItsHashes
<1>1. InStep => RunsWithItsHashes
  BY DEF InStep, ForkedWith, RunsWithItsHashes
<1> QED
  BY <1>1, InitTypes, TypesStep, InitInStep, InStepStep, PTL DEF Spec

-----------------------------------------------------------------------------
(* Jobs. What is in the stream of a task: its events from the first one the  *)
(* run queue has not read, none missing before another, and its exit, if it  *)
(* is there, behind all of them.                                             *)

\* The life of a task, from its process to the run queue.
Life(t) ==
    /\ exit[t] = None <=> child[t] \in {"none", "early", "running"}
    /\ child[t] = "none" => fired[t] = 0 /\ t \notin build_pids
    /\ child[t] \in {"early", "running", "zombie"} \/ t \in build_pids => t \in live
    /\ t \notin sent => child[t] = "none" /\ over[t] = None
    /\ told[t] <= passed[t]

\* A task is given once, and its process is not there before its command is handled.
Pending ==
    /\ \A n \in 1..Len(cmds) : cmds[n].kind = "runtask" =>
           /\ cmds[n].task \in sent /\ child[cmds[n].task] = "none"
           /\ Exited \/ cmds[n].task \in live
           /\ \A m \in 1..Len(cmds) :
                  cmds[m].kind = "runtask" /\ cmds[m].task = cmds[n].task => m = n
    /\ writing = "runtask" => cmds[Len(cmds)].task \in live

\* The e-th event of t.
IsEvent(m, t, e) == m.task = t /\ m.code = None /\ m.event = e

\* What a message is about.
Sound(m) ==
    /\ m.task \in live
    /\ m.code = None => told[m.task] < m.event /\ m.event <= passed[m.task]
    /\ m.code # None =>
        /\ m.code = exit[m.task] /\ child[m.task] = "reaped"
        /\ passed[m.task] = fired[m.task] /\ m.task \notin build_pids

Ordered ==
    \A i, j \in 1..Len(out) : i < j /\ out[i].task = out[j].task =>
        out[i].code = None /\ (out[j].code = None => out[i].event < out[j].event)

Gapless ==
    \A i \in 1..Len(out), e \in 1..MaxEvents :
        /\ told[out[i].task] < e
        /\ IF out[i].code = None THEN e < out[i].event ELSE e <= fired[out[i].task]
        => \E j \in 1..(i - 1) : IsEvent(out[j], out[i].task, e)

AllPassed ==
    ~Exited => \A t \in Tasks, e \in 1..MaxEvents :
        told[t] < e /\ e <= passed[t] => \E j \in 1..Len(out) : IsEvent(out[j], t, e)

Stream == (\A i \in 1..Len(out) : Sound(out[i])) /\ Ordered /\ Gapless /\ AllPassed

Journal == (\A t \in Tasks : Life(t)) /\ Pending /\ Stream

LEMMA InitJournal == Init => Journal
<1> SUFFICES ASSUME Init PROVE Journal
  OBVIOUS
<1>1. ASSUME NEW t \in Tasks PROVE Life(t)
  <2>1. /\ exit[t] = None /\ child[t] = "none" /\ fired[t] = 0 /\ over[t] = None
        /\ told[t] = 0 /\ passed[t] = 0 /\ build_pids = {}
    BY DEF Init
  <2> QED
    BY <2>1 DEF Life
<1>2. /\ Len(cmds) = 1 /\ cmds[1].kind = "config" /\ writing = "config" /\ Len(out) = 0
      /\ \A t \in Tasks : passed[t] = 0 /\ told[t] = 0
  BY DEF Init
<1>3. Pending
  BY <1>2 DEF Pending
<1>4. Stream
  BY <1>2 DEF Stream, Ordered, Gapless, AllPassed
<1> QED
  BY <1>1, <1>3, <1>4 DEF Journal

LEMMA TaskFacts ==
    ASSUME Types, NEW t \in Tasks
    PROVE  /\ fired[t] \in 0..MaxEvents /\ passed[t] \in 0..MaxEvents /\ told[t] \in 0..MaxEvents
           /\ fired[t] \in Nat /\ passed[t] \in Nat /\ told[t] \in Nat /\ passed[t] <= fired[t]
           /\ exit[t] \in Codes \cup {None} /\ over[t] \in Codes \cup {None}
           /\ child[t] \in {"none", "early", "running", "zombie", "reaped"}
BY BoundAssumption DEF Types, TypeOK, Behind

LEMMA OutFacts ==
    ASSUME Types, NEW i \in 1..Len(out)
    PROVE  /\ out[i] \in Message /\ out[i].task \in Tasks /\ out[i].event \in 0..MaxEvents
           /\ out[i].code \in Codes \cup {None} /\ out[i].event \in Nat
<1>1. out[i] \in Message
  BY DEF Types, TypeOK
<1> QED
  BY <1>1, BoundAssumption DEF Message

\* A step that leaves the messages alone, and what is known of those in the stream.
LEMMA KeepStream ==
    ASSUME Types, Stream, UNCHANGED <<out, told, passed>>, Exited => Exited',
           \A i \in 1..Len(out) : out[i].task \in live',
           \A i \in 1..Len(out) : out[i].code # None =>
               LET t == out[i].task IN
               /\ fired'[t] = fired[t] /\ exit'[t] = exit[t] /\ child'[t] = child[t]
               /\ t \in build_pids' => t \in build_pids
    PROVE  Stream'
<1>1. \A i \in 1..Len(out') : Sound(out[i])'
  BY DEF Stream, Sound
<1>2. Ordered' /\ AllPassed'
  BY DEF Stream, Ordered, AllPassed
<1>3. Gapless'
  BY DEF Stream, Gapless
<1> QED
  BY <1>1, <1>2, <1>3 DEF Stream

\* Tasks whose process is not there have no messages.
LEMMA NoMessages ==
    ASSUME Types, Stream, NEW t \in Tasks, child[t] = "none", fired[t] = 0
    PROVE  \A i \in 1..Len(out) : out[i].task # t
<1> SUFFICES ASSUME NEW i \in 1..Len(out), out[i].task = t PROVE FALSE
  OBVIOUS
<1>1. Sound(out[i]) /\ out[i].event \in Nat
  BY OutFacts DEF Stream
<1>2. CASE out[i].code = None
  BY <1>1, <1>2, TaskFacts DEF Sound
<1>3. CASE out[i].code # None
  BY <1>1, <1>3 DEF Sound
<1> QED
  BY <1>2, <1>3

\* The first message is the next event, or the exit when all events are read.
LEMMA FirstMessage ==
    ASSUME Types, Stream, Len(out) >= 1
    PROVE  LET m == out[1] IN
           /\ m.task \in Tasks /\ m.task \in live
           /\ m.code = None => m.event = told[m.task] + 1 /\ told[m.task] < fired[m.task]
           /\ m.code # None =>
                /\ m.code = exit[m.task] /\ told[m.task] >= fired[m.task]
                /\ child[m.task] = "reaped"
           /\ \A j \in 1..Len(out) : j # 1 /\ out[j].task = m.task =>
                m.code = None /\ (out[j].code = None => m.event < out[j].event)
<1> DEFINE m == out[1]
<1> DEFINE t == m.task
<1>1. 1 \in 1..Len(out)
  BY Marks
<1>2. Sound(m) /\ t \in Tasks /\ m.event \in Nat /\ m.event \in 0..MaxEvents
  BY <1>1, OutFacts DEF Stream
<1>3. told[t] \in Nat /\ fired[t] \in Nat /\ passed[t] \in Nat /\ passed[t] <= fired[t]
      /\ fired[t] \in 0..MaxEvents
  BY <1>2, TaskFacts
<1>4. \A e \in 1..MaxEvents :
          told[t] < e => ~(IF m.code = None THEN e < m.event ELSE e <= fired[t])
  BY <1>1 DEF Stream, Gapless
<1>5. m.code = None => m.event = told[t] + 1 /\ told[t] < fired[t]
  <2> SUFFICES ASSUME m.code = None PROVE m.event = told[t] + 1 /\ told[t] < fired[t]
    OBVIOUS
  <2>1. told[t] < m.event /\ m.event <= passed[t]
    BY <1>2 DEF Sound
  <2>2. ~(told[t] + 1 < m.event)
    <3>1. told[t] + 1 < m.event => told[t] + 1 \in 1..MaxEvents
      BY <1>2, <1>3, BoundAssumption
    <3> QED
      BY <1>3, <1>4, <3>1
  <2> QED
    BY <1>2, <1>3, <2>1, <2>2
<1>6. m.code # None => told[t] >= fired[t]
  <2> SUFFICES ASSUME m.code # None, told[t] < fired[t] PROVE FALSE
    BY <1>3
  <2>1. told[t] + 1 \in 1..MaxEvents /\ told[t] + 1 <= fired[t]
    BY <1>3, BoundAssumption
  <2> QED
    BY <1>3, <1>4, <2>1
<1>7. \A j \in 1..Len(out) : j # 1 /\ out[j].task = t =>
          m.code = None /\ (out[j].code = None => m.event < out[j].event)
  BY <1>1 DEF Stream, Ordered
<1> QED
  BY <1>2, <1>5, <1>6, <1>7 DEF Sound

\* The run queue reads it.
LEMMA ReadStream ==
    ASSUME Types, Journal, Read
    PROVE  Stream'
<1> DEFINE m == out[1]
<1> DEFINE t == m.task
<1>1. /\ Len(out) >= 1 /\ Types' /\ Len(out') = Len(out) - 1 /\ out # <<>>
      /\ \A n \in 1..Len(out') : n + 1 \in 1..Len(out) /\ out'[n] = out[n + 1]
  BY ReadTypes, Marks DEF Read
<1>2. /\ t \in Tasks
      /\ m.code = None => m.event = told[t] + 1
      /\ \A j \in 1..Len(out) : j # 1 /\ out[j].task = t =>
             m.code = None /\ (out[j].code = None => m.event < out[j].event)
  BY <1>1, FirstMessage DEF Journal
<1>3. Head(out) = m
  BY <1>1, HeadTailProperties DEF Types, TypeOK
<1>4. /\ UNCHANGED <<exit, child, fired, passed, stage, build_pids>>
      /\ m.code = None => told' = [told EXCEPT ![t] = m.event] /\ live' = live
      /\ m.code # None => live' = live \ {t} /\ told' = told
  BY <1>3 DEF Read, loop, children
<1> HIDE DEF m
<1>5. told \in [Tasks -> 0..MaxEvents]
  BY DEF Types, TypeOK
<1>6. \A u \in Tasks : told'[u] = IF u = t /\ m.code = None THEN m.event ELSE told[u]
  BY <1>4, <1>5
<1>7. \A i \in 1..Len(out') : Sound(out[i])'
  <2> SUFFICES ASSUME NEW i \in 1..Len(out') PROVE Sound(out[i])'
    OBVIOUS
  <2> DEFINE k == out[i + 1]
  <2>1. i + 1 \in 1..Len(out) /\ i + 1 # 1 /\ out'[i] = k
    BY <1>1
  <2>2. Sound(k) /\ k.task \in Tasks /\ k.event \in Nat
    BY <2>1, OutFacts DEF Journal, Stream
  <2>3. k.task = t => m.code = None /\ (k.code = None => m.event < k.event)
    BY <1>2, <2>1
  <2> HIDE DEF k
  <2> QED
    BY <1>4, <1>6, <2>1, <2>2, <2>3 DEF Sound
<1>8. Ordered'
  <2> SUFFICES ASSUME NEW i \in 1..Len(out'), NEW j \in 1..Len(out'), i < j,
                      out'[i].task = out'[j].task
               PROVE  out'[i].code = None /\ (out'[j].code = None => out'[i].event < out'[j].event)
    BY DEF Ordered
  <2>1. /\ i + 1 \in 1..Len(out) /\ j + 1 \in 1..Len(out) /\ i + 1 < j + 1
        /\ out'[i] = out[i + 1] /\ out'[j] = out[j + 1]
    BY <1>1
  <2> QED
    BY <2>1 DEF Journal, Stream, Ordered
<1>9. Gapless'
  <2> SUFFICES ASSUME NEW i \in 1..Len(out'), NEW e \in 1..MaxEvents,
                      told'[out'[i].task] < e,
                      IF out'[i].code = None THEN e < out'[i].event ELSE e <= fired[out'[i].task]
               PROVE  \E j \in 1..(i - 1) : IsEvent(out'[j], out'[i].task, e)
    BY <1>4 DEF Gapless, IsEvent
  <2> DEFINE k == out[i + 1]
  <2>1. i + 1 \in 1..Len(out) /\ i + 1 # 1 /\ out'[i] = k /\ k.task \in Tasks
    BY <1>1, OutFacts
  <2>2. k.task = t => m.code = None
    BY <1>2, <2>1
  <2>3. told[k.task] < e
    <3>1. told[k.task] \in Nat /\ told[t] \in Nat /\ e \in Nat /\ told'[k.task] < e
      BY <1>2, <2>1, TaskFacts
    <3> QED
      BY <1>2, <1>6, <2>1, <2>2, <3>1
  <2>4. PICK j \in 1..((i + 1) - 1) : IsEvent(out[j], k.task, e)
    BY <2>1, <2>3 DEF Journal, Stream, Gapless
  <2>5. j # 1
    <3> SUFFICES ASSUME j = 1 PROVE FALSE
      OBVIOUS
    <3>1. k.task = t /\ m.code = None /\ m.event = e
      BY <2>4 DEF IsEvent, m
    <3>2. told'[k.task] = e
      BY <1>6, <2>1, <3>1
    <3> QED
      BY <2>1, <3>2
  <2>6. j - 1 \in 1..(i - 1) /\ j - 1 \in 1..Len(out') /\ (j - 1) + 1 = j
    BY <2>4, <2>5
  <2>7. out'[j - 1] = out[j]
    BY <1>1, <2>6
  <2> QED
    BY <2>1, <2>4, <2>6, <2>7
<1>10. AllPassed'
  <2> SUFFICES ASSUME ~Exited, NEW u \in Tasks, NEW e \in 1..MaxEvents,
                      told'[u] < e, e <= passed[u]
               PROVE  \E j \in 1..Len(out') : IsEvent(out'[j], u, e)
    BY <1>4 DEF AllPassed, IsEvent, Exited
  <2>1. told[u] < e /\ ~(u = t /\ m.code = None /\ m.event = e)
    BY <1>2, <1>6, TaskFacts
  <2>2. PICK j \in 1..Len(out) : IsEvent(out[j], u, e)
    BY <2>1 DEF Journal, Stream, AllPassed
  <2>3. j # 1
    BY <2>1, <2>2 DEF IsEvent, m
  <2>4. j - 1 \in 1..Len(out') /\ out'[j - 1] = out[j]
    <3>1. j - 1 \in 1..Len(out') /\ (j - 1) + 1 = j
      BY <1>1, <2>2, <2>3, Marks
    <3> QED
      BY <1>1, <3>1
  <2> QED
    BY <2>2, <2>4
<1> QED
  BY <1>7, <1>8, <1>9, <1>10 DEF Stream

\* The worker passes on the rest of a pipe, with the exit of the task or without.
LEMMA PassStream ==
    ASSUME Types, Types', Stream, NEW t \in Tasks, t \in live, stage' = stage, ~Exited,
           told[t] <= passed[t],
           \A i \in 1..Len(out) : out[i].task = t => out[i].code = None,
           UNCHANGED <<told, live, fired, exit>>,
           passed' = [passed EXCEPT ![t] = fired[t]],
           \A u \in Tasks : child'[u] = child[u] \/ (u = t /\ child[t] # "reaped"),
           build_pids' \subseteq build_pids,
           \A n \in 1..Len(out) : out'[n] = out[n],
           \A n \in 1..Len(out') : n > Len(out) /\ n <= Len(out) + (fired[t] - passed[t]) =>
               out'[n] = Event(t, passed[t] + (n - Len(out))),
           \/ Len(out') = Len(out) + (fired[t] - passed[t])
           \/ /\ Len(out') = Len(out) + (fired[t] - passed[t]) + 1
              /\ out'[Len(out')] = Exitcode(t)
              /\ exit[t] # None /\ child'[t] = "reaped" /\ t \notin build_pids'
    PROVE  Stream'
<1>1. PICK l \in Nat, p \in Nat, f \in Nat, h \in Nat :
          /\ l = Len(out) /\ p = passed[t] /\ f = fired[t] /\ h = told[t]
          /\ p <= f /\ h <= p /\ f <= MaxEvents
  <2>1. Len(out) \in Nat
    BY Marks
  <2>2. /\ passed[t] \in Nat /\ fired[t] \in Nat /\ told[t] \in Nat
        /\ passed[t] <= fired[t] /\ fired[t] \in 0..MaxEvents
    BY TaskFacts
  <2>3. fired[t] <= MaxEvents
    BY <2>2, BoundAssumption
  <2> QED
    BY <2>1, <2>2, <2>3, Zenon
<1>2. PICK k \in Nat : k = Len(out')
  BY DEF Types, TypeOK
<1>3. k = l + (f - p) \/ k = l + (f - p) + 1
  BY <1>1, <1>2
<1>a. \A n \in 1..k : n > l /\ n <= l + (f - p) => out'[n] = Event(t, p + (n - l))
  BY <1>1, <1>2
<1>4. ASSUME NEW n \in 1..k, n > l, n <= l + (f - p)
      PROVE  out'[n].task = t /\ out'[n].code = None /\ out'[n].event = p + (n - l) /\ n - l \in Nat /\ n - l >= 1
  <2>1. out'[n] = Event(t, p + (n - l))
    BY <1>a, <1>4
  <2>2. n - l \in Nat /\ n - l >= 1
    BY <1>1, <1>4
  <2> QED
    BY <2>1, <2>2 DEF Event
<1>b. \A n \in 1..k : n > l + (f - p) => n = k /\ k = l + (f - p) + 1
  BY <1>1, <1>3
<1>c. k = l + (f - p) + 1 =>
          out'[k] = Exitcode(t) /\ exit[t] # None /\ child'[t] = "reaped" /\ t \notin build_pids'
  BY <1>1, <1>2
<1>5. ASSUME NEW n \in 1..k, n > l + (f - p)
      PROVE  /\ n = k /\ out'[n].task = t /\ out'[n].code = exit[t] /\ exit[t] # None
             /\ out'[n].code # None /\ child'[t] = "reaped" /\ t \notin build_pids'
  <2>1. n = k /\ k = l + (f - p) + 1
    BY <1>b, <1>5
  <2>2. out'[k] = Exitcode(t) /\ exit[t] # None /\ child'[t] = "reaped" /\ t \notin build_pids'
    BY <1>c, <2>1
  <2> QED
    BY <2>1, <2>2 DEF Exitcode
<1>6. \A u \in Tasks : passed'[u] = IF u = t THEN f ELSE passed[u]
  BY <1>1 DEF Types, TypeOK
<1>7. \A n \in 1..l : out'[n] = out[n] /\ n \in 1..Len(out) /\ out[n].task \in Tasks
                      /\ out[n].event \in Nat /\ out[n].code \in Codes \cup {None} /\ Sound(out[n])
  BY <1>1, OutFacts DEF Stream
<1>8. \A i \in 1..Len(out') : Sound(out[i])'
  <2> SUFFICES ASSUME NEW i \in 1..k PROVE Sound(out[i])'
    BY <1>2
  <2>1. CASE i <= l
    <3>1. Sound(out[i]) /\ out'[i] = out[i] /\ out[i].task \in Tasks /\ out[i].event \in Nat
          /\ (out[i].task = t => out[i].code = None)
      <4>1. i \in 1..l /\ i \in 1..Len(out)
        BY <1>1, <2>1
      <4> QED
        BY <1>7, <4>1
    <3>2. child[out[i].task] = "reaped" => child'[out[i].task] = "reaped"
      BY <3>1
    <3> QED
      BY <1>1, <1>6, <3>1, <3>2 DEF Sound
  <2>2. CASE i > l /\ i <= l + (f - p)
    <3>1. out'[i].task = t /\ out'[i].code = None /\ out'[i].event = p + (i - l) /\ i - l >= 1 /\ i - l \in Nat
      BY <1>4, <2>2
    <3>2. told'[t] < p + (i - l) /\ p + (i - l) <= passed'[t] /\ t \in live'
      <4>1. told'[t] = h /\ passed'[t] = f /\ t \in live'
        BY <1>1, <1>6
      <4>2. i - l <= f - p
        BY <1>1, <2>2
      <4> QED
        BY <1>1, <3>1, <4>1, <4>2
    <3> QED
      BY <3>1, <3>2 DEF Sound
  <2>3. CASE i > l + (f - p)
    BY <1>1, <1>5, <1>6, <2>3 DEF Sound
  <2> QED
    BY <1>1, <2>1, <2>2, <2>3
<1>9. Ordered'
  <2> SUFFICES ASSUME NEW i \in 1..k, NEW j \in 1..k, i < j, out'[i].task = out'[j].task
               PROVE  out'[i].code = None /\ (out'[j].code = None => out'[i].event < out'[j].event)
    BY <1>2 DEF Ordered
  <2>1. CASE j <= l
    <3>0. i \in 1..l /\ j \in 1..l
      BY <1>1, <2>1
    <3>1. i \in 1..l /\ j \in 1..l /\ out'[i] = out[i] /\ out'[j] = out[j]
      BY <1>7, <3>0
    <3> QED
      BY <1>1, <3>1 DEF Stream, Ordered
  <2>2. CASE j > l
    <3>1. i <= l + (f - p)
      BY <1>1, <1>3, <2>2
    <3>2. /\ out'[j].task = t /\ out'[i].task = t
          /\ out'[j].code = None => out'[j].event = p + (j - l) /\ j - l \in Nat /\ j - l >= 1
      <4>1. CASE j <= l + (f - p)
        BY <1>4, <2>2, <4>1
      <4>2. CASE j > l + (f - p)
        BY <1>5, <4>2
      <4> QED
        BY <1>1, <4>1, <4>2
    <3>3. CASE i <= l
      <4>1. i \in 1..l /\ out'[i] = out[i] /\ out[i].event \in Nat /\ out[i].task = t
        BY <1>1, <1>7, <3>2, <3>3
      <4>2. out[i].code = None /\ out[i].event <= p
        BY <1>1, <1>7, <4>1 DEF Sound
      <4> QED
        BY <1>1, <3>2, <4>1, <4>2
    <3>4. CASE i > l
      <4>1. out'[i].code = None /\ out'[i].event = p + (i - l)
        BY <1>1, <1>4, <3>1, <3>4
      <4> QED
        BY <1>1, <3>2, <4>1
    <3> QED
      BY <1>1, <3>3, <3>4
  <2> QED
    BY <1>1, <2>1, <2>2
<1>10. ASSUME NEW e \in 1..MaxEvents, h < e, e <= f
       PROVE  \E j \in 1..k : j <= l + (f - p) /\ IsEvent(out'[j], t, e) /\ (e > p => j = l + (e - p))
  <2>1. CASE e <= p
    <3>1. PICK j \in 1..l : IsEvent(out[j], t, e)
      BY <1>1, <1>10, <2>1 DEF Stream, AllPassed
    <3> QED
      BY <1>1, <1>3, <1>7, <2>1, <3>1
  <2>2. CASE e > p
    <3>0. e \in Nat /\ p < e /\ e <= f
      BY <1>10, <2>2
    <3>1. l + (e - p) \in 1..k /\ l + (e - p) > l /\ l + (e - p) <= l + (f - p)
          /\ p + ((l + (e - p)) - l) = e
      <4>1. PICK d \in Nat : d = e - p /\ d >= 1 /\ d <= f - p
        BY <1>1, <3>0
      <4>2. l + d \in Nat /\ l + d >= 1 /\ l + d <= l + (f - p) /\ l + d > l /\ (l + d) - l = d
        <5>1. PICK r \in Nat : r = f - p
          BY <1>1
        <5>2. d <= r /\ d >= 1 /\ d \in Nat /\ l \in Nat /\ r \in Nat
          BY <4>1, <5>1
        <5>3. l + d \in Nat /\ l + d >= 1 /\ l + d <= l + r /\ l + d > l /\ (l + d) - l = d
          BY <5>2
        <5> QED
          BY <5>1, <5>3
      <4>3. l + d <= k
        BY <1>1, <1>2, <1>3, <4>2
      <4>4. p + d = e
        BY <1>1, <3>0, <4>1
      <4> QED
        BY <1>2, <4>1, <4>2, <4>3, <4>4
    <3>2. IsEvent(out'[l + (e - p)], t, e)
      BY <1>4, <3>1 DEF IsEvent
    <3> QED
      BY <3>1, <3>2
  <2>3. e \in Nat
    OBVIOUS
  <2> QED
    BY <1>1, <2>1, <2>2, <2>3
<1>11. Gapless'
  <2> SUFFICES ASSUME NEW i \in 1..k, NEW e \in 1..MaxEvents, told[out'[i].task] < e,
                      IF out'[i].code = None THEN e < out'[i].event ELSE e <= fired[out'[i].task]
               PROVE  \E j \in 1..(i - 1) : IsEvent(out'[j], out'[i].task, e)
    BY <1>2 DEF Gapless, IsEvent
  <2>1. CASE i <= l
    <3>0. i \in 1..l /\ i \in 1..Len(out) /\ out'[i] = out[i]
      BY <1>1, <1>7, <2>1
    <3>1. PICK j \in 1..(i - 1) : IsEvent(out[j], out[i].task, e)
      BY <3>0 DEF Stream, Gapless
    <3>2. j \in 1..l /\ out'[j] = out[j]
      BY <1>1, <1>7, <3>0
    <3> QED
      BY <3>0, <3>1, <3>2
  <2>2. CASE i > l /\ i <= l + (f - p)
    <3>1. out'[i].task = t /\ out'[i].code = None /\ out'[i].event = p + (i - l)
      BY <1>4, <2>2
    <3>2. h < e /\ e < p + (i - l) /\ e <= f
      BY <1>1, <2>2, <3>1
    <3>3. PICK j \in 1..k : j <= l + (f - p) /\ IsEvent(out'[j], t, e) /\ (e > p => j = l + (e - p))
      BY <1>10, <3>2
    <3>4. j < i
      <4>1. CASE e > p
        BY <1>1, <2>2, <3>2, <3>3, <4>1
      <4>2. CASE ~(e > p) /\ j > l
        BY <1>1, <1>4, <3>3, <4>2 DEF IsEvent
      <4>3. CASE j <= l
        BY <1>1, <2>2, <4>3
      <4> QED
        BY <1>1, <4>1, <4>2, <4>3
    <3> QED
      BY <3>1, <3>3, <3>4
  <2>3. CASE i > l + (f - p)
    <3>1. i = k /\ out'[i].task = t /\ out'[i].code # None
      BY <1>5, <2>3
    <3>2. h < e /\ e <= f
      BY <1>1, <3>1
    <3>3. PICK j \in 1..k : j <= l + (f - p) /\ IsEvent(out'[j], t, e)
      BY <1>10, <3>2
    <3> QED
      BY <1>1, <2>3, <3>1, <3>3
  <2> QED
    BY <1>1, <2>1, <2>2, <2>3
<1>12. AllPassed'
  <2> SUFFICES ASSUME NEW u \in Tasks, NEW e \in 1..MaxEvents, told[u] < e, e <= passed'[u]
               PROVE  \E j \in 1..k : IsEvent(out'[j], u, e)
    BY <1>2 DEF AllPassed, IsEvent
  <2>1. CASE u = t
    BY <1>1, <1>6, <1>10, <2>1
  <2>2. CASE u # t
    <3>1. PICK j \in 1..l : IsEvent(out[j], u, e)
      BY <1>1, <1>6, <2>2 DEF Stream, AllPassed
    <3> QED
      BY <1>1, <1>3, <1>7, <3>1
  <2> QED
    BY <2>1, <2>2
<1> QED
  BY <1>8, <1>9, <1>11, <1>12 DEF Stream

\* The worker is gone, and with it what is not in the pipe.
LEMMA ExitStream ==
    ASSUME Types, Stream, Exit
    PROVE  Stream'
<1>1. PICK q \in Nat : q = piped /\ q <= Len(out) /\ Len(out) \in Nat
  BY Marks
<1>2. Len(out') = q /\ \A n \in 1..q : n \in 1..Len(out) /\ out'[n] = out[n]
  BY <1>1, ExitTypes
<1>3. /\ UNCHANGED <<live, told, passed, child, fired, exit, build_pids>> /\ Exited'
  BY DEF Exit, Exited, queue
<1>4. \A i \in 1..Len(out') : Sound(out[i])'
  BY <1>2, <1>3 DEF Stream, Sound
<1>5. Ordered'
  BY <1>2 DEF Stream, Ordered
<1>6. Gapless'
  <2> SUFFICES ASSUME NEW i \in 1..q, NEW e \in 1..MaxEvents, told[out'[i].task] < e,
                      IF out'[i].code = None THEN e < out'[i].event ELSE e <= fired[out'[i].task]
               PROVE  \E j \in 1..(i - 1) : IsEvent(out'[j], out'[i].task, e)
    BY <1>2, <1>3 DEF Gapless, IsEvent
  <2>1. i \in 1..Len(out) /\ out'[i] = out[i]
    BY <1>2
  <2>2. PICK j \in 1..(i - 1) : IsEvent(out[j], out[i].task, e)
    BY <2>1 DEF Stream, Gapless
  <2>3. j \in 1..q
    BY <1>1, <2>2
  <2> QED
    BY <1>2, <2>1, <2>2, <2>3
<1>7. AllPassed'
  BY <1>3 DEF AllPassed
<1> QED
  BY <1>4, <1>5, <1>6, <1>7 DEF Stream

-----------------------------------------------------------------------------
(* Every step keeps the journal, and is a step of Jobs.                      *)

\* A step that has nothing to do with a task.
LEMMA KeepJournal ==
    ASSUME Types, Journal,
           UNCHANGED <<live, sent, told, over, child, fired, exit, passed, out, cmds, build_pids>>,
           Exited => Exited',
           writing' = "runtask" => writing = "runtask"
    PROVE  Journal' /\ UNCHANGED J!vars
<1>1. Stream'
  <2>1. \A i \in 1..Len(out) : out[i].task \in live
    BY DEF Journal, Stream, Sound
  <2> QED
    BY <2>1, KeepStream DEF Journal
<1>2. (\A t \in Tasks : Life(t)') /\ Pending'
  BY DEF Journal, Life, Pending
<1> QED
  BY <1>1, <1>2 DEF Journal, J!vars

\* Commands of other kinds come and go.
LEMMA OtherCommands ==
    ASSUME Types, Journal,
           UNCHANGED <<live, sent, told, over, child, fired, exit, passed, out, build_pids>>,
           Exited => Exited',
           \/ /\ Len(cmds') = Len(cmds) + 1 /\ \A n \in 1..Len(cmds) : cmds'[n] = cmds[n]
              /\ cmds'[Len(cmds')].kind # "runtask"
              /\ writing' # "runtask"
           \/ \E n \in 0..taken :
                 /\ Len(cmds') = Len(cmds) - n
                 /\ \A m \in 1..Len(cmds') : m + n \in 1..Len(cmds) /\ cmds'[m] = cmds[m + n]
                 /\ writing' = writing
           \/ /\ Len(cmds') = flushed /\ \A n \in 1..flushed : cmds'[n] = cmds[n]
              /\ writing' = "none"
    PROVE  Journal' /\ UNCHANGED J!vars
<1>1. Stream'
  <2>1. \A i \in 1..Len(out) : out[i].task \in live
    BY DEF Journal, Stream, Sound
  <2> QED
    BY <2>1, KeepStream DEF Journal
<1>2. \A t \in Tasks : Life(t)'
  BY DEF Journal, Life
<1>3. Pending'
  <2>1. CASE /\ Len(cmds') = Len(cmds) + 1 /\ \A n \in 1..Len(cmds) : cmds'[n] = cmds[n]
             /\ cmds'[Len(cmds')].kind # "runtask"
             /\ writing' # "runtask"
    <3>1. PICK l \in Nat : l = Len(cmds)
      BY Marks
    <3>2. \A n \in 1..Len(cmds') : cmds'[n].kind = "runtask" => n \in 1..Len(cmds) /\ cmds'[n] = cmds[n]
      BY <2>1, <3>1
    <3> QED
      BY <2>1, <3>2 DEF Journal, Pending, Exited
  <2>2. ASSUME NEW n \in 0..taken,
               Len(cmds') = Len(cmds) - n,
               \A m \in 1..Len(cmds') : m + n \in 1..Len(cmds) /\ cmds'[m] = cmds[m + n],
               writing' = writing
        PROVE  Pending'
    <3>1. \A i, j \in 1..Len(cmds') : i + n = j + n => i = j
      BY <2>2, Marks
    <3>2. writing = "runtask" => Len(cmds') \in 1..Len(cmds') /\ Len(cmds') + n = Len(cmds)
      BY <2>2, Marks DEF Types, Blocked
    <3>3. writing' = "runtask" => cmds'[Len(cmds')] = cmds[Len(cmds)]
      BY <2>2, <3>2
    <3>4. writing' = "runtask" => cmds'[Len(cmds')].task \in live'
      BY <2>2, <3>3 DEF Journal, Pending
    <3>5. ASSUME NEW i \in 1..Len(cmds'), cmds'[i].kind = "runtask"
          PROVE  /\ cmds'[i].task \in sent' /\ child'[cmds'[i].task] = "none"
                 /\ Exited' \/ cmds'[i].task \in live'
                 /\ \A m \in 1..Len(cmds') :
                        cmds'[m].kind = "runtask" /\ cmds'[m].task = cmds'[i].task => m = i
      <4>1. i + n \in 1..Len(cmds) /\ cmds[i + n].kind = "runtask" /\ cmds'[i] = cmds[i + n]
        BY <2>2, <3>5
      <4>2. /\ cmds[i + n].task \in sent /\ child[cmds[i + n].task] = "none"
            /\ Exited \/ cmds[i + n].task \in live
            /\ \A m \in 1..Len(cmds) :
                   cmds[m].kind = "runtask" /\ cmds[m].task = cmds[i + n].task => m = i + n
        BY <4>1 DEF Journal, Pending
      <4>3. ASSUME NEW m \in 1..Len(cmds'), cmds'[m].kind = "runtask",
                   cmds'[m].task = cmds'[i].task
            PROVE  m = i
        <5>1. m + n \in 1..Len(cmds) /\ cmds'[m] = cmds[m + n]
          BY <2>2
        <5>2. m + n = i + n
          BY <4>1, <4>2, <4>3, <5>1
        <5> QED
          BY <3>1, <5>2
      <4> QED
        BY <4>1, <4>2, <4>3
    <3> QED
      BY <3>4, <3>5 DEF Pending
  <2>3. CASE /\ Len(cmds') = flushed /\ \A n \in 1..flushed : cmds'[n] = cmds[n]
             /\ writing' = "none"
    <3>1. \A n \in 1..flushed : n \in 1..Len(cmds)
      BY Marks
    <3> QED
      BY <2>3, <3>1 DEF Journal, Pending, Exited
  <2> QED
    BY <2>1, <2>2, <2>3
<1> QED
  BY <1>1, <1>2, <1>3 DEF Journal, J!vars

LEMMA QuietJournal ==
    ASSUME Types, Journal,
           \/ WriteOne \/ (WriteFails /\ writing # "runtask") \/ Finish \/ Complete \/ TornDown
           \/ TakeCommands \/ WakeUp \/ EndOfFile \/ ItemDone \/ Misread \/ PipesDone
           \/ CollectDone \/ KillDone \/ Flush \/ Terminated \/ UNCHANGED vars
           \/ \E t \in Tasks : Kill(t)
    PROVE  Journal' /\ UNCHANGED J!vars
<1>1. CASE WriteOne \/ (WriteFails /\ writing # "runtask") \/ Finish \/ Complete \/ TornDown
  <2>1. /\ UNCHANGED <<live, sent, told, over, child, fired, exit, passed, out, cmds, stage, build_pids>>
        /\ writing' = "runtask" => writing = "runtask"
    BY <1>1 DEF WriteOne, WriteFails, Finish, Complete, TornDown, commands, loop, children, messages
  <2> QED
    BY <2>1, KeepJournal DEF Exited
<1>2. CASE TakeCommands \/ WakeUp \/ EndOfFile \/ ItemDone \/ Misread
  BY <1>2, KeepJournal
  DEF TakeCommands, WakeUp, EndOfFile, ItemDone, Misread, Exited, queue, commands, children, messages
<1>3. CASE PipesDone \/ CollectDone \/ KillDone \/ \E t \in Tasks : Kill(t)
  BY <1>3, KeepJournal
  DEF PipesDone, CollectDone, KillDone, Kill, Exited, queue, commands, children, messages
<1>4. CASE Flush \/ Terminated \/ UNCHANGED vars
  BY <1>4, KeepJournal
  DEF Flush, Terminated, vars, Exited, queue, commands, loop, children, messages
<1> QED
  BY <1>1, <1>2, <1>3, <1>4

LEMMA CommandJournal ==
    ASSUME Types, Journal,
           \/ NewHashes \/ FinishNow \/ NoticeDeath \/ NoticeAgain \/ Teardown
           \/ HandleConfig \/ HandleNewTaskHashes \/ HandleFinishNow \/ HandleQuit
           \/ CookerDies
    PROVE  Journal' /\ UNCHANGED J!vars
<1> DEFINE Same == UNCHANGED <<live, sent, told, over, child, fired, exit, passed, out, build_pids>>
<1>1. CASE NewHashes
  <2> DEFINE c == [kind |-> "newtaskhashes", task |-> NoTask, hashes |-> hashes']
  <2>1. /\ Same /\ stage' = stage /\ writing' # "runtask"
        /\ cmds \in Seq(CommandType) /\ cmds' = Append(cmds, c)
    BY <1>1 DEF NewHashes, Types, TypeOK, loop, children, messages
  <2>2. c \in CommandType /\ c.kind = "newtaskhashes"
    <3>1. hashes' \in 0..MaxHashes
      BY <1>1, WriteSteps DEF Types, TypeOK
    <3> QED
      BY <3>1 DEF CommandType, Kinds
  <2> HIDE DEF c
  <2>3. /\ Len(cmds') = Len(cmds) + 1 /\ cmds'[Len(cmds')] = c
        /\ \A n \in 1..Len(cmds) : cmds'[n] = cmds[n]
    BY <2>1, <2>2, AppendProperties
  <2> QED
    BY <2>1, <2>2, <2>3, OtherCommands DEF Exited
<1>2. CASE FinishNow \/ NoticeDeath \/ NoticeAgain \/ Teardown
  <2>1. PICK k \in {"finishnow", "quit"} : Write(k, NoTask)
    BY <1>2 DEF FinishNow, NoticeDeath, NoticeAgain, Teardown
  <2>2. /\ Len(cmds') = Len(cmds) + 1 /\ cmds'[Len(cmds')].kind # "runtask"
        /\ \A n \in 1..Len(cmds) : cmds'[n] = cmds[n]
    <3>1. /\ Len(cmds') = Len(cmds) + 1 /\ cmds'[Len(cmds')] = Command(k, NoTask)
          /\ \A n \in 1..Len(cmds) : cmds'[n] = cmds[n]
      BY <2>1, WriteTypes DEF Kinds
    <3>2. Command(k, NoTask).kind # "runtask"
      BY DEF Command
    <3> QED
      BY <3>1, <3>2
  <2>3. Same /\ stage' = stage /\ writing' # "runtask"
    BY <1>2, <2>1
    DEF FinishNow, NoticeDeath, NoticeAgain, Teardown, Write, loop, children, messages
  <2> QED
    BY <2>2, <2>3, OtherCommands DEF Exited
<1>3. CASE HandleConfig \/ HandleNewTaskHashes \/ HandleFinishNow \/ HandleQuit
  <2>1. PICK n \in 1..taken : Drop(n)
    <3>1. CASE HandleFinishNow
      BY <3>1 DEF HandleFinishNow, Closing
    <3>2. CASE ~HandleFinishNow
      BY <1>3, <3>2, Marks DEF HandleConfig, HandleNewTaskHashes, HandleQuit, First
    <3> QED
      BY <3>1, <3>2
  <2>2. n \in 0..taken
    OBVIOUS
  <2>3. Same /\ writing' = writing /\ (Exited => Exited')
    BY <1>3
    DEF HandleConfig, HandleNewTaskHashes, HandleFinishNow, HandleQuit, First, Exited,
        queue, loop, children, messages
  <2> QED
    BY <2>1, <2>2, <2>3, DropTypes, OtherCommands
<1>4. CASE CookerDies
  <2>1. /\ Same /\ stage' = stage /\ writing' = "none"
    BY <1>4 DEF CookerDies, loop, children, messages
  <2> QED
    BY <1>4, <2>1, CookerDiesTypes, OtherCommands DEF Exited
<1> QED
  BY <1>1, <1>2, <1>3, <1>4

\* A task is given to the worker.
LEMMA StartJournal ==
    ASSUME Types, Journal, NEW t \in Tasks, StartTask(t)
    PROVE  Journal' /\ J!Give(t)
<1>1. PICK l \in Nat : l = Len(cmds)
  BY Marks
<1>2. /\ Len(cmds') = l + 1 /\ cmds'[l + 1].kind = "runtask" /\ cmds'[l + 1].task = t
      /\ \A n \in 1..l : cmds'[n] = cmds[n]
  <2>1. /\ Len(cmds') = Len(cmds) + 1 /\ cmds'[Len(cmds')] = Command("runtask", t)
        /\ \A n \in 1..Len(cmds) : cmds'[n] = cmds[n]
    BY WriteTypes DEF StartTask, Kinds
  <2>2. Command("runtask", t).kind = "runtask" /\ Command("runtask", t).task = t
    BY DEF Command
  <2> QED
    BY <1>1, <2>1, <2>2
<1>3. /\ UNCHANGED <<told, over, child, fired, exit, passed, out, stage, build_pids>>
      /\ t \notin sent /\ sent' = sent \cup {t} /\ live' = live \cup {t}
  BY DEF StartTask, loop, children, messages
<1>4. t \notin live /\ over[t] = None /\ child[t] = "none"
  BY <1>3 DEF Types, TypeOK, Journal, Life
<1>5. Stream'
  <2>1. \A i \in 1..Len(out) : out[i].task \in live'
    BY <1>3 DEF Journal, Stream, Sound
  <2> QED
    BY <1>3, <2>1, KeepStream DEF Journal, Exited
<1>6. \A u \in Tasks : Life(u)'
  BY <1>3, <1>4 DEF Journal, Life
<1>7. Pending'
  <2>1. \A n \in 1..l : cmds[n].kind = "runtask" =>
            /\ cmds[n].task \in sent /\ cmds[n].task # t /\ child[cmds[n].task] = "none"
            /\ Exited \/ cmds[n].task \in live
            /\ \A m \in 1..l : cmds[m].kind = "runtask" /\ cmds[m].task = cmds[n].task => m = n
    BY <1>1, <1>3 DEF Journal, Pending
  <2>2. \A n \in 1..(l + 1) : n \in 1..l \/ n = l + 1
    BY <1>1
  <2>3. cmds'[Len(cmds')].task \in live'
    BY <1>2, <1>3
  <2> QED
    BY <1>2, <1>3, <1>4, <2>1, <2>2, <2>3 DEF Pending, Exited
<1>8. J!Give(t)
  BY <1>3, <1>4 DEF J!Give, J!None, None
<1> QED
  BY <1>5, <1>6, <1>7, <1>8 DEF Journal

\* The command of a task could not be written.
LEMMA FailJournal ==
    ASSUME Types, Journal, WriteFails, writing = "runtask"
    PROVE  Journal' /\ \E t \in Tasks : J!Withdraw(t)
<1>1. PICK l \in Nat : l = Len(cmds) /\ l \in 1..Len(cmds)
  BY Marks DEF Types, Blocked
<1> DEFINE t == cmds[l].task
<1>2. t \in Tasks /\ t \in live /\ child[t] = "none"
  BY <1>1 DEF Types, Blocked, TasksNamed, Journal, Pending
<1>3. /\ UNCHANGED <<sent, told, over, child, fired, exit, passed, out, cmds, stage, build_pids>>
      /\ live' = live \ {t} /\ Exited /\ writing' = "none"
  BY <1>1 DEF WriteFails, commands, loop, children, messages
<1>4. fired[t] = 0 /\ exit[t] = None
  BY <1>2 DEF Journal, Life
<1> HIDE DEF t
<1>5. Stream'
  <2>1. \A i \in 1..Len(out) : out[i].task \in live /\ out[i].task # t
    BY <1>2, <1>4, NoMessages DEF Journal, Stream, Sound
  <2> QED
    BY <1>3, <2>1, KeepStream DEF Journal, Exited
<1>6. \A u \in Tasks : Life(u)'
  BY <1>2, <1>3 DEF Journal, Life
<1>7. Pending'
  BY <1>3 DEF Journal, Pending, Exited
<1>8. J!Withdraw(t)
  BY <1>2, <1>3, <1>4 DEF J!Withdraw, J!None, None
<1> QED
  BY <1>2, <1>5, <1>6, <1>7, <1>8 DEF Journal

\* The run queue reads a message.
LEMMA ReadJournal ==
    ASSUME Types, Journal, Read
    PROVE  Journal' /\ \E t \in Tasks : J!Tell(t) \/ J!Report(t)
<1> DEFINE m == out[1]
<1> DEFINE t == m.task
<1>1. Len(out) >= 1 /\ out # <<>> /\ out \in Seq(Message)
  BY Marks, ReadTypes DEF Read, Types, TypeOK
<1>2. Head(out) = m
  BY <1>1, HeadTailProperties
<1>3. /\ t \in Tasks /\ t \in live
      /\ m.code = None => m.event = told[t] + 1 /\ told[t] < fired[t]
      /\ m.code # None => m.code = exit[t] /\ told[t] >= fired[t] /\ child[t] = "reaped"
  BY <1>1, FirstMessage DEF Journal
<1>4. /\ UNCHANGED <<sent, child, fired, exit, passed, cmds, stage, writing, build_pids>>
      /\ m.code = None =>
            told' = [told EXCEPT ![t] = m.event] /\ live' = live /\ over' = over
      /\ m.code # None =>
            over' = [over EXCEPT ![t] = m.code] /\ live' = live \ {t} /\ told' = told
  BY <1>2 DEF Read, commands, loop, children
<1>5. Sound(m)
  BY <1>1, Marks DEF Journal, Stream
<1>6. t \in sent
  BY <1>3 DEF Types, TypeOK
<1> HIDE DEF m
<1>7. \A u \in Tasks : Life(u)'
  BY <1>3, <1>4, <1>5, <1>6 DEF Journal, Life, Sound, Types, TypeOK
<1>8. Pending'
  <2>1. m.code # None => \A n \in 1..Len(cmds) : cmds[n].kind = "runtask" => cmds[n].task # t
    BY <1>3 DEF Journal, Pending
  <2>2. writing = "runtask" => Len(cmds) \in 1..Len(cmds) /\ cmds[Len(cmds)].kind = "runtask"
    BY Marks DEF Types, Blocked
  <2>3. \A n \in 1..Len(cmds) : cmds[n].kind = "runtask" /\ cmds[n].task \in live => cmds[n].task \in live'
    BY <1>4, <2>1
  <2> QED
    BY <1>4, <2>2, <2>3 DEF Journal, Pending, Exited
<1>9. Stream'
  BY ReadStream
<1>10. J!Tell(t) \/ J!Report(t)
  <2>1. CASE m.code = None
    <3>1. told' = [told EXCEPT ![t] = @ + 1]
      BY <1>3, <1>4, <2>1
    <3> QED
      BY <1>3, <1>4, <2>1, <3>1 DEF J!Tell
  <2>2. CASE m.code # None
    <3>1. told[t] = fired[t]
      BY <1>3, <2>2, TaskFacts DEF Journal, Life
    <3> QED
      BY <1>3, <1>4, <2>2, <3>1 DEF J!Report, J!None, None
  <2> QED
    BY <2>1, <2>2
<1> QED
  BY <1>3, <1>7, <1>8, <1>9, <1>10 DEF Journal

\* The worker forks the process of a task.
LEMMA ForkJournal ==
    ASSUME Types, Journal, HandleRunTask
    PROVE  Journal' /\ UNCHANGED J!vars
<1> DEFINE t == cmds[1].task
<1>1. /\ 1 \in 1..taken /\ 1 \in 1..Len(cmds) /\ Drop(1) /\ cmds[1].kind = "runtask"
      /\ UNCHANGED <<live, sent, told, over, fired, exit, passed, out, stage, writing>>
      /\ child' = [child EXCEPT ![t] = "early"] /\ build_pids' = build_pids \cup {t} /\ ~Exited
  BY Marks DEF HandleRunTask, First, queue, messages, Exited
<1>2. /\ Len(cmds') = Len(cmds) - 1
      /\ \A m \in 1..Len(cmds') : m + 1 \in 1..Len(cmds) /\ cmds'[m] = cmds[m + 1]
  BY <1>1, DropTypes
<1>3. /\ t \in Tasks /\ t \in live /\ t \in sent /\ child[t] = "none" /\ fired[t] = 0
      /\ \A n \in 1..Len(cmds) : cmds[n].kind = "runtask" /\ cmds[n].task = t => n = 1
  BY <1>1 DEF Types, TasksNamed, Journal, Pending, Life
<1> HIDE DEF t
<1>4. child \in [Tasks -> {"none", "early", "running", "zombie", "reaped"}]
  BY DEF Types, TypeOK
<1>5. Stream'
  <2>1. \A i \in 1..Len(out) : out[i].task \in live /\ out[i].task # t
    BY <1>3, NoMessages DEF Journal, Stream, Sound
  <2> QED
    BY <1>1, <1>4, <2>1, KeepStream DEF Journal, Exited
<1>6. \A u \in Tasks : Life(u)'
  BY <1>1, <1>3, <1>4 DEF Journal, Life
<1>7. Pending'
  <2>1. ASSUME NEW i \in 1..Len(cmds'), cmds'[i].kind = "runtask"
        PROVE  /\ cmds'[i].task \in sent' /\ child'[cmds'[i].task] = "none"
               /\ Exited' \/ cmds'[i].task \in live'
               /\ \A m \in 1..Len(cmds') :
                      cmds'[m].kind = "runtask" /\ cmds'[m].task = cmds'[i].task => m = i
    <3>1. i + 1 \in 1..Len(cmds) /\ i + 1 # 1 /\ cmds[i + 1].kind = "runtask" /\ cmds'[i] = cmds[i + 1]
      BY <1>2, <2>1
    <3>2. /\ cmds[i + 1].task \in sent /\ child[cmds[i + 1].task] = "none"
          /\ cmds[i + 1].task # t /\ cmds[i + 1].task \in Tasks
          /\ cmds[i + 1].task \in live
          /\ \A m \in 1..Len(cmds) :
                 cmds[m].kind = "runtask" /\ cmds[m].task = cmds[i + 1].task => m = i + 1
      BY <1>1, <1>3, <3>1 DEF Journal, Pending, Types, TasksNamed
    <3>3. ASSUME NEW m \in 1..Len(cmds'), cmds'[m].kind = "runtask",
                 cmds'[m].task = cmds'[i].task
          PROVE  m = i
      <4>1. m + 1 \in 1..Len(cmds) /\ cmds'[m] = cmds[m + 1]
        BY <1>2
      <4>2. m + 1 = i + 1
        BY <3>1, <3>2, <3>3, <4>1
      <4> QED
        BY <4>2
    <3> QED
      BY <1>1, <1>4, <3>1, <3>2, <3>3
  <2>2. writing' = "runtask" => cmds'[Len(cmds')].task \in live'
    <3>1. writing = "runtask" => Len(cmds) # 1
      BY <1>1, Marks DEF Types, Blocked
    <3>2. writing = "runtask" => Len(cmds') \in 1..Len(cmds') /\ Len(cmds') + 1 = Len(cmds)
      BY <1>2, <3>1, Marks DEF Types, Blocked
    <3>3. writing = "runtask" => cmds'[Len(cmds')] = cmds[Len(cmds)]
      BY <1>2, <3>2
    <3> QED
      BY <1>1, <3>3 DEF Journal, Pending
  <2> QED
    BY <2>1, <2>2 DEF Pending
<1> QED
  BY <1>1, <1>5, <1>6, <1>7 DEF Journal, J!vars

\* The processes of the tasks.
LEMMA ChildJournal ==
    ASSUME Types, Journal, NEW t \in Tasks,
           Ready(t) \/ Fire(t) \/ EndsByItself(t) \/ EndsBySignal(t) \/ WaitAny(t)
    PROVE  Journal' /\ [J!Next]_(J!vars)
<1>1. /\ UNCHANGED <<live, sent, told, over, passed, out, cmds, writing, build_pids>>
      /\ Exited => Exited'
      /\ \A u \in Tasks \ {t} : child'[u] = child[u] /\ fired'[u] = fired[u] /\ exit'[u] = exit[u]
      /\ child[t] # "reaped" /\ child[t] # "none" /\ child'[t] # "none"
  BY DEF Ready, Fire, EndsByItself, EndsBySignal, Ends, WaitAny, Zombies, Exited,
         queue, commands, loop, messages, Types, TypeOK
<1>2. Stream'
  <2>1. \A i \in 1..Len(out) : out[i].task \in live /\ out[i].task \in Tasks
                               /\ (out[i].code # None => child[out[i].task] = "reaped")
    BY OutFacts DEF Journal, Stream, Sound
  <2> QED
    BY <1>1, <2>1, KeepStream DEF Journal
<1>3. Pending'
  BY <1>1 DEF Journal, Pending, Types, TasksNamed
<1>4. ASSUME NEW u \in Tasks \ {t} PROVE Life(u)'
  BY <1>1 DEF Journal, Life
<1>5. Life(t)
  BY DEF Journal
<1>6. CASE Ready(t)
  <2>1. Life(t)' /\ UNCHANGED J!vars
    BY <1>1, <1>5, <1>6 DEF Ready, Life, J!vars, Types, TypeOK
  <2> QED
    BY <1>2, <1>3, <1>4, <2>1 DEF Journal
<1>7. CASE Fire(t)
  <2>1. /\ child[t] = "running" /\ fired' = [fired EXCEPT ![t] = @ + 1]
        /\ UNCHANGED <<exit, child>>
    BY <1>7 DEF Fire
  <2>2. Life(t)' /\ J!Fire(t)
    BY <1>1, <1>5, <2>1 DEF Life, J!Fire, J!None, None
  <2> QED
    BY <1>2, <1>3, <1>4, <2>2 DEF Journal, J!Next
<1>8. CASE EndsByItself(t) \/ EndsBySignal(t)
  <2>1. PICK code \in Codes : Ends(t, code)
    BY <1>8 DEF EndsByItself, EndsBySignal, Codes
  <2>2. /\ child[t] = "running" /\ exit' = [exit EXCEPT ![t] = code]
        /\ child' = [child EXCEPT ![t] = "zombie"] /\ UNCHANGED fired
    BY <2>1 DEF Ends
  <2>3. code # None
    BY DEF Codes, Killed, None
  <2>4. Life(t)' /\ J!End(t, code)
    BY <1>1, <1>5, <2>2, <2>3 DEF Life, J!End, J!None, None, Types, TypeOK
  <2> QED
    BY <1>2, <1>3, <1>4, <2>4 DEF Journal, J!Next
<1>9. CASE WaitAny(t)
  <2>1. Life(t)' /\ UNCHANGED J!vars
    BY <1>1, <1>5, <1>9 DEF WaitAny, Zombies, Life, J!vars, Types, TypeOK
  <2> QED
    BY <1>2, <1>3, <1>4, <2>1 DEF Journal
<1> QED
  BY <1>6, <1>7, <1>8, <1>9

\* The worker passes on what a task has written.
LEMMA PassJournal ==
    ASSUME Types, Journal, NEW t \in Tasks, ReadPipe(t) \/ Collect(t)
    PROVE  Journal' /\ UNCHANGED J!vars
<1>1. /\ UNCHANGED <<live, sent, told, over, fired, exit, cmds, writing>>
      /\ stage' = stage /\ ~Exited
      /\ passed' = [passed EXCEPT ![t] = fired[t]]
      /\ \A u \in Tasks \ {t} : child'[u] = child[u] /\ (u \in build_pids' <=> u \in build_pids)
      /\ build_pids' \subseteq build_pids
      /\ child'[t] = child[t] \/ (child[t] = "zombie" /\ child'[t] = "reaped")
  BY DEF ReadPipe, Collect, Zombies, Exited, queue, commands, children, Types, TypeOK
<1>2. Types'
  BY ReadPipeTypes, CollectTypes
<1>3. Life(t) /\ told[t] <= passed[t] /\ passed[t] <= fired[t]
  BY TaskFacts DEF Journal, Life
<1>4. \A i \in 1..Len(out) : out[i].task = t => out[i].code = None
  <2> SUFFICES ASSUME NEW i \in 1..Len(out), out[i].task = t, out[i].code # None PROVE FALSE
    OBVIOUS
  <2>1. child[t] = "reaped" /\ t \notin build_pids
    BY DEF Journal, Stream, Sound
  <2> QED
    BY <2>1 DEF ReadPipe, Collect, Zombies
<1>5. t \in live
  BY <1>3 DEF ReadPipe, Collect, Zombies, Life
<1>6. Stream'
  <2>1. CASE ReadPipe(t)
    <3>1. out' = out \o Waiting(t) /\ child' = child
      BY <2>1 DEF ReadPipe, children
    <3> QED
      BY <1>1, <1>2, <1>3, <1>4, <1>5, <3>1, PassOn, PassStream DEF Journal
  <2>2. CASE Collect(t)
    <3>1. /\ exit[t] # None /\ child'[t] = "reaped" /\ child[t] # "reaped" /\ t \notin build_pids'
      BY <1>3, <2>2, TaskFacts DEF Collect, Zombies, Life, Types, TypeOK
    <3>2. /\ Len(out') = Len(out) + (fired[t] - passed[t]) + 1
          /\ out'[Len(out')] = Exitcode(t)
          /\ \A n \in 1..Len(out) : out'[n] = out[n]
          /\ \A n \in 1..Len(out') : n > Len(out) /\ n <= Len(out) + (fired[t] - passed[t]) =>
                 out'[n] = Event(t, passed[t] + (n - Len(out)))
      <4>1. fired[t] - passed[t] \in Nat
        BY TaskFacts
      <4>2. \A n \in 1..Len(out') : n <= Len(out) + (fired[t] - passed[t]) => n # Len(out')
        BY <2>2, <4>1, CollectTypes, Marks
      <4> QED
        BY <2>2, <4>2, CollectTypes
    <3> QED
      BY <1>1, <1>2, <1>3, <1>4, <1>5, <3>1, <3>2, PassStream DEF Journal
  <2> QED
    BY <2>1, <2>2
<1>7. \A u \in Tasks : Life(u)'
  <2>1. \A u \in Tasks \ {t} : Life(u)'
    BY <1>1 DEF Journal, Life, Types, TypeOK
  <2>2. told'[t] <= passed'[t]
    BY <1>1, <1>3, TaskFacts DEF Types, TypeOK
  <2>3. Life(t)'
    BY <1>1, <1>3, <1>5, <2>2 DEF Life
  <2> QED
    BY <2>1, <2>3
<1>8. Pending'
  BY <1>1 DEF Journal, Pending, Exited, Types, TasksNamed
<1> QED
  BY <1>1, <1>6, <1>7, <1>8 DEF Journal, J!vars

LEMMA ExitJournal ==
    ASSUME Types, Journal, Exit
    PROVE  Journal' /\ UNCHANGED J!vars
<1>1. /\ UNCHANGED <<live, sent, told, over, child, fired, exit, passed, cmds, writing, build_pids>>
      /\ Exited'
  BY DEF Exit, Exited, queue, commands
<1>2. Stream'
  BY ExitStream DEF Journal
<1>3. (\A t \in Tasks : Life(t)') /\ Pending'
  BY <1>1 DEF Journal, Life, Pending
<1> QED
  BY <1>1, <1>2, <1>3 DEF Journal, J!vars

LEMMA JournalStep ==
    ASSUME Types, Journal, [Next]_vars
    PROVE  Journal' /\ [J!Next]_(J!vars)
<1>1. CASE QueueStep
  <2>1. CASE \E t \in Tasks : StartTask(t)
    BY <2>1, StartJournal DEF J!Next
  <2>2. CASE WriteFails /\ writing = "runtask"
    BY <2>2, FailJournal DEF J!Next
  <2>3. CASE Read
    BY <2>3, ReadJournal DEF J!Next
  <2>4. CASE WriteOne \/ (WriteFails /\ writing # "runtask") \/ Finish \/ Complete \/ TornDown
    BY <2>4, QuietJournal
  <2>5. CASE NewHashes \/ FinishNow \/ NoticeDeath \/ NoticeAgain \/ Teardown
    BY <2>5, CommandJournal
  <2> QED
    BY <1>1, <2>1, <2>2, <2>3, <2>4, <2>5 DEF QueueStep
<1>2. CASE CookerDies
  BY <1>2, CommandJournal
<1>3. CASE WorkerStep
  <2>1. CASE \/ TakeCommands \/ WakeUp \/ EndOfFile \/ ItemDone \/ Misread \/ PipesDone
             \/ CollectDone \/ KillDone \/ \E t \in Tasks : Kill(t)
    BY <2>1, QuietJournal
  <2>2. CASE HandleConfig \/ HandleNewTaskHashes \/ HandleFinishNow \/ HandleQuit
    BY <2>2, CommandJournal
  <2>3. CASE HandleRunTask
    BY <2>3, ForkJournal
  <2>4. CASE \E t \in Tasks : WaitAny(t) \/ ReadPipe(t) \/ Collect(t)
    BY <2>4, ChildJournal, PassJournal
  <2>5. CASE KillSelf \/ Leave
    BY <2>5, ExitJournal DEF KillSelf, Leave
  <2> QED
    BY <1>3, <2>1, <2>2, <2>3, <2>4, <2>5 DEF WorkerStep, ItemStep
<1>4. CASE WorkerKilled
  BY <1>4, ExitJournal DEF WorkerKilled
<1>5. CASE ChildStep
  BY <1>5, ChildJournal DEF ChildStep
<1>6. CASE Flush \/ Terminated \/ UNCHANGED vars
  BY <1>6, QuietJournal
<1> QED
  BY <1>1, <1>2, <1>3, <1>4, <1>5, <1>6 DEF Next

\* ImplementsJobs, for any instance.
THEOREM JobsImplemented == Spec => ImplementsJobs
<1>1. Init => J!Init
  BY DEF Init, J!Init, J!None, None
<1> QED
  BY <1>1, InitTypes, TypesStep, InitJournal, JournalStep, PTL
  DEF Spec, ImplementsJobs, J!Spec
=============================================================================
