--------------------------- MODULE SceneQueueBuild ---------------------------
(***************************************************************************)
(* build_scenequeue_data() of lib/bb/runqueue.py as a run: the walk of     *)
(* process_endpoints() over one task graph, a point per step, and what the *)
(* setscene queue may rely on once the walk is over. The points of a level *)
(* are the keys of a dictionary that is filled from sets: they may come in *)
(* any order.                                                              *)
(***************************************************************************)
EXTENDS SceneQueueData

CONSTANTS
    Tasks,          \* the tasks of the graphs to walk
    MaxHardDeps     \* bound on the hard dependencies of one graph

\* Every set of members of S has one that none of them comes before.
Acyclic(S, before) ==
    \A C \in (SUBSET S) \ {{}} : \E t \in C : before[t] \cap C = {}

\* calculate_task_weights() starts from the tasks nothing depends on and refuses
\* a graph of which it does not reach every task.
Graphs ==
    {d \in [Tasks -> SUBSET Tasks] :
        Acyclic(Tasks, [t \in Tasks |-> {u \in Tasks : t \in d[u]}])}

\* Hard dependencies come from flags the recipes set; like the tasks they
\* have no cycle of their own.
HardDepSets(setscene) ==
    {H \in SUBSET (setscene \X setscene) :
        /\ Cardinality(H) <= MaxHardDeps
        /\ Acyclic(setscene, [b \in setscene |-> {a \in setscene : <<a, b>> \in H}])}

TaskGraph(depends, setscene, cantskip, harddeps) ==
    [tasks |-> Tasks, depends |-> depends, setscene |-> setscene,
     cantskip |-> cantskip, harddeps |-> harddeps]

(***************************************************************************)
(* process_endpoints(): walk from the endpoints towards the leaves, one    *)
(* level at a time. The walk's state:                                      *)
(*   revdeps    the reverse dependencies not visited yet                   *)
(*   squash     the setscene tasks whose chain ends at this point          *)
(*   collated   per setscene task, the plain tasks of its chain            *)
(*   endpoints  the points of this level, with what they inherit           *)
(*   next       the points of the next level                               *)
(***************************************************************************)
FirstEndpoints(g) ==
    LET afterSetscene == UNION {g.depends[s] : s \in g.setscene}
    IN  [t \in (Endpoints(g) \ g.setscene) \cup afterSetscene |->
            {s \in g.setscene : t \in g.depends[s]}]

StartWalk(g) ==
    [revdeps   |-> [t \in g.tasks |-> Revdeps(g, t) \ g.setscene],
     squash    |-> [t \in g.tasks |-> {}],
     collated  |-> [s \in g.setscene |-> {}],
     endpoints |-> FirstEndpoints(g),
     next      |-> <<>>]

\* Mutant: a point passes on only what came with its last visit.
VisitPointForgetful(g, walk, p) ==
    LET tasks   == walk.endpoints[p] \cup walk.squash[p]
        deps    == g.depends[p]
        revdeps == [t \in g.tasks |-> IF t \in deps THEN walk.revdeps[t] \ {p}
                                                    ELSE walk.revdeps[t]]
        freed   == {d \in deps \ g.setscene : revdeps[d] = {}}
    IN  IF p \in g.setscene
        THEN [walk EXCEPT !.squash[p] = tasks]
        ELSE [walk EXCEPT
                !.revdeps  = revdeps,
                !.squash   = [t \in g.tasks |-> IF t = p THEN {}
                                ELSE IF t \in deps THEN tasks ELSE walk.squash[t]],
                !.collated = [s \in g.setscene |->
                                IF s \in tasks THEN walk.collated[s] \cup {p}
                                               ELSE walk.collated[s]],
                !.next     = [d \in DOMAIN walk.next \cup freed |->
                                IF d \in freed THEN walk.endpoints[p]
                                               ELSE walk.next[d]]]

\* One iteration of the loop over endpoints.items().
VisitPoint(g, walk, p) ==
    LET tasks   == walk.endpoints[p] \cup walk.squash[p]
        deps    == g.depends[p]
        revdeps == [t \in g.tasks |-> IF t \in deps THEN walk.revdeps[t] \ {p}
                                                    ELSE walk.revdeps[t]]
        freed   == {d \in deps \ g.setscene : revdeps[d] = {}}
    IN  IF p \in g.setscene
        THEN [walk EXCEPT !.squash[p] = tasks]
        ELSE [walk EXCEPT
                !.revdeps  = revdeps,
                !.squash   = [t \in g.tasks |->
                                IF t = p THEN {}
                                ELSE IF t \in deps THEN walk.squash[t] \cup tasks
                                ELSE walk.squash[t]],
                !.collated = [s \in g.setscene |->
                                IF s \in tasks THEN walk.collated[s] \cup {p}
                                               ELSE walk.collated[s]],
                !.next     = [d \in DOMAIN walk.next \cup freed |->
                                IF d \in freed THEN walk.endpoints[p]
                                               ELSE walk.next[d]]]

VARIABLES graph, walk

vars == <<graph, walk>>

Init ==
    \E depends \in Graphs, setscene \in SUBSET Tasks :
        /\ \E harddeps \in HardDepSets(setscene) :
              graph = TaskGraph(depends, setscene, {}, harddeps)
        /\ walk = StartWalk(graph)

\* One iteration of the loop over endpoints.items().
ProcessPoint(p) ==
    /\ p \in DOMAIN walk.endpoints
    /\ walk' = [VisitPoint(graph, walk, p) EXCEPT
                    !.endpoints = [q \in DOMAIN walk.endpoints \ {p} |-> walk.endpoints[q]]]
    /\ UNCHANGED graph

\* process_endpoints() calls itself while it has found new endpoints.
NextLevel ==
    /\ DOMAIN walk.endpoints = {} /\ DOMAIN walk.next # {}
    /\ walk' = [walk EXCEPT !.endpoints = walk.next, !.next = <<>>]
    /\ UNCHANGED graph

Done == DOMAIN walk.endpoints = {} /\ DOMAIN walk.next = {}

Finished == Done /\ UNCHANGED vars

Next ==
    \/ \E p \in Tasks : ProcessPoint(p)
    \/ NextLevel
    \/ Finished

Spec == Init /\ [][Next]_vars

-----------------------------------------------------------------------------
\* The sanity check "Something went badly wrong during scenequeue generation".
BadlyWrong == \E t \in graph.tasks \ graph.setscene : walk.squash[t] # {}

\* The collapse is exact: a setscene task covers exactly the plain tasks of
\* its chain, and a setscene task is squashed behind exactly those setscene
\* tasks whose chain it ends (process_endpoints, endpoints revisited while
\* other reverse dependencies are still to come), in whatever order the points
\* of a level come.
CollapseExact ==
    Done => /\ walk.collated = CoveredTasks(graph)
            /\ \A s \in graph.setscene : walk.squash[s] = Squashed(graph)[s]

\* Otherwise the setscene queue could never hand a plain task to the scheduler
\* ("was never moved from the setscene queue").
SomebodySettles(t) ==
    \/ t \in Unskippable(graph)
    \/ \E s \in graph.setscene : t \in walk.collated[s]

\* "Have to zero this to avoid circular dependencies": if the hard
\* dependencies have no cycle of their own, the setscene queue has a first
\* task, whatever subset of it is left.
NoCircle ==
    \A S \in (SUBSET graph.setscene) \ {{}} :
        \E s \in S : SqRevdeps(graph, walk.squash)[s] \cap S = {}

\* The setscene queue can settle every task: the check "Something went badly
\* wrong during scenequeue generation" never fires, as every chain ends at a
\* setscene task or a leaf, every plain task is settled by somebody, and the
\* setscene tasks do not wait for each other in a circle.
EveryTaskSettled ==
    Done =>
        /\ ~BadlyWrong
        /\ \A t \in graph.tasks \ graph.setscene : SomebodySettles(t)
        /\ NoCircle

=============================================================================
