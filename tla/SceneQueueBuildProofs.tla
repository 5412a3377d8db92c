------------------------ MODULE SceneQueueBuildProofs ------------------------
(***************************************************************************)
(* Proofs about SceneQueueBuild: the walk of process_endpoints() collapses *)
(* every task graph exactly, in whatever order it takes the points of a    *)
(* level, and the setscene queue it leaves can settle every task.          *)
(***************************************************************************)
EXTENDS SceneQueueBuild, SceneQueueDataProofs

-----------------------------------------------------------------------------
(* The graph, which no step changes.                                       *)

GraphOK ==
    /\ graph.tasks = Tasks
    /\ Shape(graph)
    /\ graph.harddeps \subseteq graph.setscene \X graph.setscene
    /\ Acyclic(graph.setscene,
               [b \in graph.setscene |-> {a \in graph.setscene : <<a, b>> \in graph.harddeps}])

LEMMA InitGraph == Init => GraphOK
<1> SUFFICES ASSUME Init PROVE GraphOK
  OBVIOUS
<1>1. PICK depends \in Graphs, setscene \in SUBSET Tasks :
         \E harddeps \in HardDepSets(setscene) :
            graph = TaskGraph(depends, setscene, {}, harddeps)
  BY DEF Init
<1>2. PICK harddeps \in HardDepSets(setscene) :
         graph = TaskGraph(depends, setscene, {}, harddeps)
  BY <1>1
<1>3. /\ graph.tasks = Tasks /\ graph.depends = depends
      /\ graph.setscene = setscene /\ graph.harddeps = harddeps
  BY <1>2 DEF TaskGraph
<1>4. depends \in [Tasks -> SUBSET Tasks]
  BY DEF Graphs
<1>5. ASSUME NEW C \in (SUBSET Tasks) \ {{}}
      PROVE  \E t \in C : \A u \in C : t \notin depends[u]
  <2>1. PICK t \in C : [x \in Tasks |-> {u \in Tasks : x \in depends[u]}][t] \cap C = {}
    BY DEF Graphs, Acyclic
  <2>2. {u \in Tasks : t \in depends[u]} \cap C = {}
    BY <2>1
  <2> QED
    BY <2>2
<1>6. /\ harddeps \subseteq setscene \X setscene
      /\ Acyclic(setscene, [b \in setscene |-> {a \in setscene : <<a, b>> \in harddeps}])
  BY DEF HardDepSets
<1> QED
  BY <1>3, <1>4, <1>5, <1>6 DEF GraphOK, Shape

-----------------------------------------------------------------------------
(* The invariant of the walk. A setscene task is on its way at a point when *)
(* the point will pass it on at its next visit.                            *)

At(p) == walk.squash[p] \cup IF p \in DOMAIN walk.endpoints THEN walk.endpoints[p] ELSE {}

ToCome == DOMAIN walk.endpoints \cup DOMAIN walk.next

WalkType ==
    /\ walk = [revdeps |-> walk.revdeps, squash |-> walk.squash,
               collated |-> walk.collated, endpoints |-> walk.endpoints,
               next |-> walk.next]
    /\ walk.revdeps \in [Tasks -> SUBSET Tasks]
    /\ walk.squash \in [Tasks -> SUBSET graph.setscene]
    /\ walk.collated \in [graph.setscene -> SUBSET Tasks]
    /\ walk.endpoints \in [DOMAIN walk.endpoints -> SUBSET graph.setscene]
    /\ walk.next \in [DOMAIN walk.next -> SUBSET graph.setscene]
    /\ ToCome \subseteq Tasks

\* Nothing comes to a point that is not on the chain, or is counted there.
Sound ==
    /\ \A p \in Tasks : \A s \in At(p) : p \in Chain(graph, s)
    /\ \A p \in DOMAIN walk.next : \A s \in walk.next[p] : p \in Chain(graph, s)
    /\ \A s \in graph.setscene : walk.collated[s] \subseteq Chain(graph, s) \ graph.setscene

\* Nothing is lost: behind the points that are counted, the chain goes on with
\* points that are counted too or will be visited.
Reaches(s, p) == p \in walk.collated[s] \/ s \in At(p)

NoneLost ==
    \A s \in graph.setscene :
        /\ \A p \in graph.depends[s] : Reaches(s, p)
        /\ \A q \in walk.collated[s] : \A p \in graph.depends[q] : Reaches(s, p)

\* A point with something to pass on is visited again: at once, or when the last
\* of its reverse dependencies has been, which are all still to be visited.
Waits(p) == p \in ToCome \/ walk.revdeps[p] # {}

NoneForgotten ==
    /\ \A p \in Tasks \ graph.setscene : walk.squash[p] # {} => Waits(p)
    /\ \A p \in Tasks : \A u \in walk.revdeps[p] :
          u \notin graph.setscene /\ p \in graph.depends[u] /\ Waits(u)

WalkInv == GraphOK /\ WalkType /\ Sound /\ NoneLost /\ NoneForgotten

LEMMA InitWalk == Init => WalkInv
<1> SUFFICES ASSUME Init PROVE WalkInv
  OBVIOUS
<1>1. GraphOK
  BY InitGraph
<1>2. walk = StartWalk(graph)
  BY DEF Init
<1> DEFINE after == UNION {graph.depends[s] : s \in graph.setscene}
<1>3. /\ walk.revdeps = [t \in Tasks |-> Revdeps(graph, t) \ graph.setscene]
      /\ walk.squash = [t \in Tasks |-> {}]
      /\ walk.collated = [s \in graph.setscene |-> {}]
      /\ walk.next = <<>>
      /\ walk.endpoints = [t \in (Endpoints(graph) \ graph.setscene) \cup after |->
                              {s \in graph.setscene : t \in graph.depends[s]}]
  BY <1>1, <1>2 DEF StartWalk, FirstEndpoints, GraphOK, Shape
<1>4. \A t \in Tasks : Revdeps(graph, t) = {u \in Tasks : t \in graph.depends[u]}
  BY <1>1 DEF Revdeps, GraphOK, Shape
<1>5. Endpoints(graph) \subseteq Tasks /\ after \subseteq Tasks
  BY <1>1 DEF Endpoints, GraphOK, Shape
<1>6. DOMAIN walk.next = {}
  BY <1>3
<1>7. ToCome = (Endpoints(graph) \ graph.setscene) \cup after
  BY <1>3, <1>6 DEF ToCome
<1>8. WalkType
  BY <1>1, <1>2, <1>3, <1>4, <1>5, <1>6, <1>7 DEF WalkType, StartWalk, GraphOK, Shape
<1>9. \A p \in Tasks : At(p) = {s \in graph.setscene : p \in graph.depends[s]}
  BY <1>3 DEF At
<1>10. Sound
  BY <1>1, <1>3, <1>6, <1>9, ChainHolds DEF Sound, GraphOK
<1>11. NoneLost
  BY <1>1, <1>3, <1>9 DEF NoneLost, Reaches, GraphOK, Shape
<1>12. ASSUME NEW u \in Tasks \ graph.setscene PROVE Waits(u)
  <2>1. CASE Revdeps(graph, u) = {}
    BY <1>1, <1>7, <2>1 DEF Waits, Endpoints, GraphOK, Shape
  <2>2. CASE Revdeps(graph, u) \cap graph.setscene # {}
    BY <1>1, <1>4, <1>7, <2>2 DEF Waits, GraphOK, Shape
  <2>3. CASE Revdeps(graph, u) \ graph.setscene # {}
    BY <1>3, <2>3 DEF Waits
  <2> QED
    BY <2>1, <2>2, <2>3
<1>13. NoneForgotten
  BY <1>1, <1>3, <1>4, <1>12 DEF NoneForgotten, GraphOK, Shape
<1> QED
  BY <1>1, <1>8, <1>10, <1>11, <1>13 DEF WalkInv

\* What the visit of a point changes.
LEMMA Visit ==
    ASSUME WalkInv, NEW p \in Tasks, ProcessPoint(p)
    PROVE  LET tasks == At(p)
               deps  == graph.depends[p]
           IN  /\ UNCHANGED graph /\ p \in DOMAIN walk.endpoints
               /\ walk.endpoints' = [q \in DOMAIN walk.endpoints \ {p} |-> walk.endpoints[q]]
               /\ p \in graph.setscene =>
                    /\ walk.squash' = [walk.squash EXCEPT ![p] = tasks]
                    /\ UNCHANGED <<walk.revdeps, walk.collated, walk.next>>
               /\ p \notin graph.setscene =>
                    /\ walk.revdeps' = [t \in Tasks |-> IF t \in deps THEN walk.revdeps[t] \ {p}
                                                                     ELSE walk.revdeps[t]]
                    /\ walk.squash' = [t \in Tasks |-> IF t = p THEN {}
                                        ELSE IF t \in deps THEN walk.squash[t] \cup tasks
                                        ELSE walk.squash[t]]
                    /\ walk.collated' = [s \in graph.setscene |->
                                        IF s \in tasks THEN walk.collated[s] \cup {p}
                                                       ELSE walk.collated[s]]
                    /\ LET freed == {d \in deps \ graph.setscene : walk.revdeps'[d] = {}}
                       IN  walk.next' = [d \in DOMAIN walk.next \cup freed |->
                                            IF d \in freed THEN walk.endpoints[p]
                                                           ELSE walk.next[d]]
               /\ walk' = [revdeps |-> walk'.revdeps, squash |-> walk'.squash,
                            collated |-> walk'.collated, endpoints |-> walk'.endpoints,
                            next |-> walk'.next]
<1> DEFINE visited == VisitPoint(graph, walk, p)
<1>1. p \in DOMAIN walk.endpoints /\ UNCHANGED graph
  BY DEF ProcessPoint
<1>2. At(p) = walk.endpoints[p] \cup walk.squash[p]
  BY <1>1 DEF At
<1>3. graph.tasks = Tasks /\ graph.depends[p] \subseteq Tasks
  BY DEF WalkInv, GraphOK, Shape
<1>4. walk' = [visited EXCEPT
                 !.endpoints = [q \in DOMAIN walk.endpoints \ {p} |-> walk.endpoints[q]]]
  BY DEF ProcessPoint
<1>5. CASE p \in graph.setscene
  <2>1. visited = [walk EXCEPT !.squash[p] = At(p)]
    BY <1>2, <1>5 DEF VisitPoint
  <2> QED
    BY <1>1, <1>4, <1>5, <2>1 DEF WalkInv, WalkType
<1>6. CASE p \notin graph.setscene
  <2> DEFINE deps    == graph.depends[p]
             revdeps == [t \in Tasks |-> IF t \in deps THEN walk.revdeps[t] \ {p}
                                                     ELSE walk.revdeps[t]]
             freed   == {d \in deps \ graph.setscene : revdeps[d] = {}}
             squash  == [t \in Tasks |-> IF t = p THEN {}
                            ELSE IF t \in deps THEN walk.squash[t] \cup At(p)
                            ELSE walk.squash[t]]
             collated == [s \in graph.setscene |->
                            IF s \in At(p) THEN walk.collated[s] \cup {p}
                                           ELSE walk.collated[s]]
             next    == [d \in DOMAIN walk.next \cup freed |->
                            IF d \in freed THEN walk.endpoints[p] ELSE walk.next[d]]
  <2>1. visited = [walk EXCEPT !.revdeps = revdeps, !.squash = squash,
                               !.collated = collated, !.next = next]
    BY <1>2, <1>3, <1>6 DEF VisitPoint
  <2> HIDE DEF revdeps, squash, collated, next
  <2>2. walk' = [revdeps |-> revdeps, squash |-> squash, collated |-> collated,
                 endpoints |-> [q \in DOMAIN walk.endpoints \ {p} |-> walk.endpoints[q]],
                 next |-> next]
    BY <1>4, <2>1 DEF WalkInv, WalkType
  <2> QED
    BY <1>1, <1>6, <2>2 DEF revdeps, squash, collated, next
<1> QED
  BY <1>5, <1>6

LEMMA PointType ==
    ASSUME WalkInv, NEW p \in Tasks, ProcessPoint(p)
    PROVE  GraphOK' /\ WalkType'
<1>1. UNCHANGED graph /\ p \in DOMAIN walk.endpoints
  BY Visit
<1>2. GraphOK'
  BY <1>1 DEF WalkInv, GraphOK, Shape
<1>3. At(p) \in SUBSET graph.setscene
  BY DEF At, WalkInv, WalkType
<1>4. /\ DOMAIN walk.endpoints' = DOMAIN walk.endpoints \ {p}
      /\ \A q \in DOMAIN walk.endpoints' : walk'.endpoints[q] = walk.endpoints[q]
      /\ walk.endpoints' = [q \in DOMAIN walk.endpoints' |-> walk.endpoints[q]]
  BY Visit
<1>5. walk.endpoints' \in [DOMAIN walk.endpoints' -> SUBSET graph.setscene]
  BY <1>4 DEF WalkInv, WalkType
<1>6. walk' = [revdeps |-> walk'.revdeps, squash |-> walk'.squash,
               collated |-> walk'.collated, endpoints |-> walk'.endpoints,
               next |-> walk'.next]
  BY Visit
<1>7. CASE p \in graph.setscene
  <2>1. /\ walk.squash' = [walk.squash EXCEPT ![p] = At(p)]
        /\ UNCHANGED <<walk.revdeps, walk.collated, walk.next>>
    BY <1>7, Visit
  <2>2. walk.squash' \in [Tasks -> SUBSET graph.setscene]
    BY <1>3, <2>1 DEF WalkInv, WalkType
  <2> QED
    BY <1>1, <1>2, <1>4, <1>5, <1>6, <2>1, <2>2 DEF WalkInv, WalkType, ToCome
<1>8. CASE p \notin graph.setscene
  <2> DEFINE deps  == graph.depends[p]
             freed == {d \in deps \ graph.setscene : walk.revdeps'[d] = {}}
  <2>1. /\ walk.revdeps' = [t \in Tasks |-> IF t \in deps THEN walk.revdeps[t] \ {p}
                                                          ELSE walk.revdeps[t]]
        /\ walk.squash' = [t \in Tasks |-> IF t = p THEN {}
                            ELSE IF t \in deps THEN walk.squash[t] \cup At(p)
                            ELSE walk.squash[t]]
        /\ walk.collated' = [s \in graph.setscene |->
                            IF s \in At(p) THEN walk.collated[s] \cup {p}
                                           ELSE walk.collated[s]]
        /\ walk.next' = [d \in DOMAIN walk.next \cup freed |->
                            IF d \in freed THEN walk.endpoints[p] ELSE walk.next[d]]
    BY <1>8, Visit
  <2>2. freed \subseteq Tasks
    BY DEF WalkInv, GraphOK, Shape
  <2>3. walk.next' \in [DOMAIN walk.next' -> SUBSET graph.setscene]
    BY <1>1, <2>1 DEF WalkInv, WalkType
  <2>4. DOMAIN walk.next' \subseteq Tasks
    BY <2>1, <2>2 DEF WalkInv, WalkType, ToCome
  <2>5. walk.revdeps' \in [Tasks -> SUBSET Tasks]
    BY <2>1 DEF WalkInv, WalkType
  <2>6. walk.squash' \in [Tasks -> SUBSET graph.setscene]
    BY <1>3, <2>1 DEF WalkInv, WalkType
  <2>7. walk.collated' \in [graph.setscene -> SUBSET Tasks]
    BY <2>1 DEF WalkInv, WalkType
  <2>8. ToCome' \subseteq Tasks
    BY <1>4, <2>4 DEF WalkInv, WalkType, ToCome
  <2> QED
    BY <1>1, <1>2, <1>5, <1>6, <2>3, <2>5, <2>6, <2>7, <2>8 DEF WalkType
<1> QED
  BY <1>7, <1>8

\* What is on its way at a point after a visit: at the point itself nothing new,
\* and behind a plain point all that the visit passes on.
LEMMA PassedOn ==
    ASSUME WalkInv, NEW p \in Tasks, ProcessPoint(p)
    PROVE  /\ p \in graph.setscene => \A t \in Tasks : At(t)' = At(t)
           /\ p \notin graph.setscene =>
                \A t \in Tasks : At(t)' = IF t = p THEN {}
                                          ELSE IF t \in graph.depends[p] THEN At(t) \cup At(p)
                                          ELSE At(t)
<1>1. /\ p \in DOMAIN walk.endpoints
      /\ walk.endpoints' = [q \in DOMAIN walk.endpoints \ {p} |-> walk.endpoints[q]]
      /\ p \in graph.setscene => walk.squash' = [walk.squash EXCEPT ![p] = At(p)]
      /\ p \notin graph.setscene =>
           walk.squash' = [t \in Tasks |-> IF t = p THEN {}
                               ELSE IF t \in graph.depends[p] THEN walk.squash[t] \cup At(p)
                               ELSE walk.squash[t]]
  BY Visit
<1>2. walk.squash \in [Tasks -> SUBSET graph.setscene]
  BY DEF WalkInv, WalkType
<1>3. \A t \in Tasks : At(t)' =
        walk'.squash[t] \cup IF t \in DOMAIN walk.endpoints /\ t # p THEN walk.endpoints[t] ELSE {}
  BY <1>1 DEF At
<1>4. \A t \in Tasks :
        At(t) = walk.squash[t] \cup IF t \in DOMAIN walk.endpoints THEN walk.endpoints[t] ELSE {}
  BY DEF At
<1> HIDE DEF At
<1>5. ASSUME p \in graph.setscene, NEW t \in Tasks PROVE At(t)' = At(t)
  <2>1. walk'.squash[t] = IF t = p THEN At(p) ELSE walk.squash[t]
    BY <1>1, <1>2, <1>5
  <2> QED
    BY <1>3, <1>4, <2>1
<1>6. ASSUME p \notin graph.setscene, NEW t \in Tasks
      PROVE  At(t)' = IF t = p THEN {}
                      ELSE IF t \in graph.depends[p] THEN At(t) \cup At(p) ELSE At(t)
  <2>1. walk'.squash[t] = IF t = p THEN {}
                          ELSE IF t \in graph.depends[p] THEN walk.squash[t] \cup At(p)
                          ELSE walk.squash[t]
    BY <1>1, <1>6
  <2> QED
    BY <1>3, <1>4, <2>1
<1> QED
  BY <1>5, <1>6

LEMMA PointSound ==
    ASSUME WalkInv, NEW p \in Tasks, ProcessPoint(p)
    PROVE  Sound'
<1>1. UNCHANGED graph /\ p \in DOMAIN walk.endpoints
  BY Visit
<1>2. \A s : Chain(graph, s)' = Chain(graph, s)
  BY <1>1 DEF Chain, Closure
<1>3. At(p) \subseteq graph.setscene /\ walk.endpoints[p] \subseteq At(p)
  BY <1>1 DEF At, WalkInv, WalkType
<1>4. \A s \in At(p) : p \in Chain(graph, s)
  BY DEF WalkInv, Sound
<1>5. CASE p \in graph.setscene
  <2>1. UNCHANGED <<walk.collated, walk.next>>
    BY <1>5, Visit
  <2>2. \A t \in Tasks : At(t)' = At(t)
    BY <1>5, PassedOn
  <2> QED
    BY <1>1, <1>2, <2>1, <2>2 DEF WalkInv, Sound
<1>6. CASE p \notin graph.setscene
  <2> DEFINE freed == {d \in graph.depends[p] \ graph.setscene : walk.revdeps'[d] = {}}
  <2>1. /\ walk.collated' = [s \in graph.setscene |->
                            IF s \in At(p) THEN walk.collated[s] \cup {p}
                                           ELSE walk.collated[s]]
        /\ walk.next' = [d \in DOMAIN walk.next \cup freed |->
                            IF d \in freed THEN walk.endpoints[p] ELSE walk.next[d]]
    BY <1>6, Visit
  <2>2. \A t \in Tasks : At(t)' = IF t = p THEN {}
                                  ELSE IF t \in graph.depends[p] THEN At(t) \cup At(p)
                                  ELSE At(t)
    BY <1>6, PassedOn
  <2>3. \A s \in At(p) : graph.depends[p] \subseteq Chain(graph, s)
    BY <1>3, <1>4, <1>6, ChainHolds DEF WalkInv, GraphOK
  <2> HIDE DEF At
  <2>4. \A t \in Tasks : \A s \in At(t)' : t \in Chain(graph, s)
    BY <2>2, <2>3 DEF WalkInv, Sound
  <2>5. \A d \in DOMAIN walk.next' : \A s \in walk'.next[d] : d \in Chain(graph, s)
    BY <1>3, <2>1, <2>3 DEF WalkInv, Sound
  <2>6. \A s \in graph.setscene : walk'.collated[s] \subseteq Chain(graph, s) \ graph.setscene
    BY <1>4, <1>6, <2>1 DEF WalkInv, Sound
  <2> QED
    BY <1>1, <1>2, <2>4, <2>5, <2>6 DEF Sound
<1> QED
  BY <1>5, <1>6

LEMMA PointNoneLost ==
    ASSUME WalkInv, NEW p \in Tasks, ProcessPoint(p)
    PROVE  NoneLost'
<1>1. UNCHANGED graph
  BY Visit
<1>2. CASE p \in graph.setscene
  <2>1. UNCHANGED walk.collated
    BY <1>2, Visit
  <2>2. \A t \in Tasks : At(t)' = At(t)
    BY <1>2, PassedOn
  <2>3. \A s \in graph.setscene, t \in Tasks : Reaches(s, t)' = Reaches(s, t)
    BY <2>1, <2>2 DEF Reaches
  <2> QED
    BY <1>1, <2>1, <2>3 DEF WalkInv, NoneLost, GraphOK, Shape, WalkType
<1>3. CASE p \notin graph.setscene
  <2>1. walk.collated' = [s \in graph.setscene |->
                            IF s \in At(p) THEN walk.collated[s] \cup {p}
                                           ELSE walk.collated[s]]
    BY <1>3, Visit
  <2>2. \A t \in Tasks : At(t)' = IF t = p THEN {}
                                  ELSE IF t \in graph.depends[p] THEN At(t) \cup At(p)
                                  ELSE At(t)
    BY <1>3, PassedOn
  <2>3. ASSUME NEW s \in graph.setscene, NEW t \in Tasks, Reaches(s, t)
        PROVE  Reaches(s, t)'
    BY <2>1, <2>2, <2>3 DEF Reaches
  <2>4. ASSUME NEW s \in graph.setscene, NEW t \in graph.depends[p], s \in At(p)
        PROVE  Reaches(s, t)'
    <3>1. t \in Tasks /\ t # p
      BY NoSelfDependency DEF WalkInv, GraphOK, Shape
    <3> QED
      BY <2>2, <2>4, <3>1 DEF Reaches
  <2>5. \A s \in graph.setscene : \A t \in graph.depends[s] : Reaches(s, t)'
    BY <2>3 DEF WalkInv, NoneLost, GraphOK, Shape
  <2>6. ASSUME NEW s \in graph.setscene, NEW q \in walk'.collated[s], NEW t \in graph.depends[q]
        PROVE  Reaches(s, t)'
    <3>1. CASE q \in walk.collated[s]
      <4>1. q \in Tasks /\ t \in Tasks
        BY <3>1 DEF WalkInv, GraphOK, Shape, WalkType
      <4> QED
        BY <2>3, <3>1, <4>1 DEF WalkInv, NoneLost
    <3>2. CASE q \notin walk.collated[s]
      <4>1. q = p /\ s \in At(p)
        BY <2>1, <3>2
      <4> QED
        BY <2>4, <4>1
    <3> QED
      BY <3>1, <3>2
  <2> QED
    BY <1>1, <2>5, <2>6 DEF NoneLost
<1> QED
  BY <1>2, <1>3

LEMMA PointNoneForgotten ==
    ASSUME WalkInv, NEW p \in Tasks, ProcessPoint(p)
    PROVE  NoneForgotten'
<1>1. /\ UNCHANGED graph
      /\ DOMAIN walk.endpoints' = DOMAIN walk.endpoints \ {p}
  BY Visit
<1>2. CASE p \in graph.setscene
  <2>1. /\ walk.squash' = [walk.squash EXCEPT ![p] = At(p)]
        /\ UNCHANGED <<walk.revdeps, walk.next>>
    BY <1>2, Visit
  <2>2. \A t \in Tasks \ graph.setscene : Waits(t) => Waits(t)'
    BY <1>1, <1>2, <2>1 DEF Waits, ToCome
  <2>3. \A t \in Tasks \ graph.setscene : walk'.squash[t] = walk.squash[t]
    BY <1>2, <2>1 DEF WalkInv, WalkType
  <2>4. \A t \in Tasks : walk.revdeps[t] \subseteq Tasks
    BY DEF WalkInv, WalkType
  <2> QED
    BY <1>1, <2>1, <2>2, <2>3, <2>4 DEF WalkInv, NoneForgotten
<1>3. CASE p \notin graph.setscene
  <2> DEFINE deps  == graph.depends[p]
             freed == {d \in deps \ graph.setscene : walk.revdeps'[d] = {}}
  <2>1. /\ walk.revdeps' = [t \in Tasks |-> IF t \in deps THEN walk.revdeps[t] \ {p}
                                                          ELSE walk.revdeps[t]]
        /\ walk.squash' = [t \in Tasks |-> IF t = p THEN {}
                            ELSE IF t \in deps THEN walk.squash[t] \cup At(p)
                            ELSE walk.squash[t]]
        /\ walk.next' = [d \in DOMAIN walk.next \cup freed |->
                            IF d \in freed THEN walk.endpoints[p] ELSE walk.next[d]]
    BY <1>3, Visit
  <2>2. DOMAIN walk.next' = DOMAIN walk.next \cup freed
    BY <2>1
  <2>3. ASSUME NEW t \in Tasks \ graph.setscene, t # p, Waits(t) \/ t \in deps
        PROVE  Waits(t)'
    <3>1. CASE t \in ToCome
      BY <1>1, <2>2, <2>3, <3>1 DEF Waits, ToCome
    <3>2. CASE t \in deps /\ walk'.revdeps[t] = {}
      BY <2>2, <3>2 DEF Waits, ToCome
    <3>3. CASE t \in deps /\ walk'.revdeps[t] # {}
      BY <3>3 DEF Waits
    <3>4. CASE t \notin ToCome /\ t \notin deps
      BY <2>1, <2>3, <3>4 DEF Waits
    <3> QED
      BY <3>1, <3>2, <3>3, <3>4
  <2>4. ASSUME NEW t \in Tasks \ graph.setscene, walk'.squash[t] # {}
        PROVE  Waits(t)'
    <3>1. t # p /\ (t \in deps \/ walk.squash[t] # {})
      BY <2>1, <2>4
    <3> QED
      BY <2>3, <3>1 DEF WalkInv, NoneForgotten
  <2>5. ASSUME NEW t \in Tasks, NEW u \in walk'.revdeps[t]
        PROVE  u \notin graph.setscene /\ t \in graph.depends[u] /\ Waits(u)'
    <3>1. u \in walk.revdeps[t] /\ (t \in deps => u # p)
      BY <2>1, <2>5
    <3>2. u \notin graph.setscene /\ t \in graph.depends[u] /\ Waits(u)
      BY <3>1 DEF WalkInv, NoneForgotten
    <3>3. u \in Tasks
      BY <3>1 DEF WalkInv, WalkType
    <3>4. u # p
      BY <3>1, <3>2
    <3> QED
      BY <2>3, <3>2, <3>3, <3>4
  <2> QED
    BY <1>1, <2>4, <2>5 DEF NoneForgotten
<1> QED
  BY <1>2, <1>3

LEMMA PointInv ==
    ASSUME WalkInv, NEW p \in Tasks, ProcessPoint(p)
    PROVE  WalkInv'
BY PointType, PointSound, PointNoneLost, PointNoneForgotten DEF WalkInv

\* The next level takes over the points found so far, with all they pass on.
LEMMA NextLevelInv == WalkInv /\ NextLevel => WalkInv'
<1> SUFFICES ASSUME WalkInv, NextLevel PROVE WalkInv'
  OBVIOUS
<1>1. /\ UNCHANGED <<graph, walk.revdeps, walk.squash, walk.collated>>
      /\ walk'.endpoints = walk.next /\ walk'.next = <<>>
      /\ walk' = [revdeps |-> walk'.revdeps, squash |-> walk'.squash,
                  collated |-> walk'.collated, endpoints |-> walk'.endpoints,
                  next |-> walk'.next]
      /\ DOMAIN walk.endpoints = {}
  BY DEF NextLevel, WalkInv, WalkType
<1>2. DOMAIN walk.next' = {}
  BY <1>1
<1>3. ToCome' = ToCome
  BY <1>1, <1>2 DEF ToCome
<1>4. \A p : /\ At(p) = walk.squash[p]
             /\ At(p)' = walk.squash[p] \cup IF p \in DOMAIN walk.next THEN walk.next[p] ELSE {}
  BY <1>1 DEF At
<1>5. GraphOK'
  BY <1>1 DEF WalkInv, GraphOK, Shape
<1>6. WalkType'
  BY <1>1, <1>2, <1>3 DEF WalkInv, WalkType
<1>7. Sound'
  <2>1. \A s : Chain(graph, s)' = Chain(graph, s)
    BY <1>1 DEF Chain, Closure
  <2> QED
    BY <1>1, <1>2, <1>4, <2>1 DEF WalkInv, Sound
<1>8. NoneLost'
  BY <1>1, <1>4 DEF WalkInv, NoneLost, Reaches
<1>9. NoneForgotten'
  <2>1. \A p : Waits(p)' = Waits(p)
    BY <1>1, <1>3 DEF Waits
  <2> QED
    BY <1>1, <2>1 DEF WalkInv, NoneForgotten
<1> QED
  BY <1>5, <1>6, <1>7, <1>8, <1>9 DEF WalkInv

LEMMA SameWalk == WalkInv /\ UNCHANGED vars => WalkInv'
<1> SUFFICES ASSUME WalkInv, UNCHANGED vars PROVE WalkInv'
  OBVIOUS
<1>1. UNCHANGED <<graph, walk>>
  BY DEF vars
<1>2. GraphOK'
  BY <1>1 DEF WalkInv, GraphOK, Shape
<1>3. WalkType'
  BY <1>1 DEF WalkInv, WalkType, ToCome
<1>4. Sound'
  BY <1>1 DEF WalkInv, Sound, At, Chain, Closure
<1>5. NoneLost'
  BY <1>1 DEF WalkInv, NoneLost, Reaches, At
<1>6. NoneForgotten'
  BY <1>1 DEF WalkInv, NoneForgotten, Waits, ToCome
<1> QED
  BY <1>2, <1>3, <1>4, <1>5, <1>6 DEF WalkInv

LEMMA StepWalk == WalkInv /\ [Next]_vars => WalkInv'
BY PointInv, NextLevelInv, SameWalk DEF Next, Finished

LEMMA WalkHolds == Spec => []WalkInv
BY InitWalk, StepWalk, PTL DEF Spec

-----------------------------------------------------------------------------
(* The end of the walk.                                                    *)

\* Nothing is on its way at a plain point any more: of the tasks that still
\* wait for a reverse dependency, the topmost would wait for nothing.
LEMMA NothingOnItsWay ==
    ASSUME WalkInv, Done
    PROVE  /\ \A p : At(p) = walk.squash[p]
           /\ \A p \in Tasks \ graph.setscene : walk.squash[p] = {}
<1>1. ToCome = {} /\ \A p : At(p) = walk.squash[p]
  BY DEF Done, ToCome, At
<1> DEFINE waiting == {t \in Tasks : walk.revdeps[t] # {}}
<1>2. ASSUME waiting # {} PROVE FALSE
  <2>1. waiting \in (SUBSET Tasks) \ {{}}
    BY <1>2
  <2>2. PICK t \in waiting : \A u \in waiting : t \notin graph.depends[u]
    BY <2>1 DEF WalkInv, GraphOK, Shape
  <2>3. PICK u \in walk.revdeps[t] : TRUE
    BY <2>2
  <2>4. u \in Tasks /\ t \in graph.depends[u] /\ Waits(u)
    BY <2>2, <2>3 DEF WalkInv, WalkType, NoneForgotten
  <2>5. u \in waiting
    BY <1>1, <2>4 DEF Waits
  <2> QED
    BY <2>2, <2>4, <2>5
<1>3. \A p \in Tasks : ~Waits(p)
  BY <1>1, <1>2 DEF Waits
<1> QED
  BY <1>1, <1>3 DEF WalkInv, NoneForgotten

LEMMA Exact == WalkInv => CollapseExact
<1> SUFFICES ASSUME WalkInv, Done, NEW s \in graph.setscene
             PROVE  /\ walk.collated[s] = Chain(graph, s) \ graph.setscene
                    /\ walk.squash[s] = {r \in graph.setscene : s \in Chain(graph, r)}
  BY DEF CollapseExact, CoveredTasks, Squashed, WalkInv, WalkType
<1>1. /\ \A p : At(p) = walk.squash[p]
      /\ \A p \in Tasks \ graph.setscene : walk.squash[p] = {}
  BY NothingOnItsWay
<1> DEFINE behind(r) == {x \in graph.setscene : r \in walk.squash[x]}
<1>2. ASSUME NEW r \in graph.setscene
      PROVE  Chain(graph, r) \subseteq walk.collated[r] \cup behind(r)
  <2> DEFINE C == walk.collated[r] \cup behind(r)
  <2>1. C \in SUBSET Tasks
    BY DEF WalkInv, WalkType, GraphOK, Shape
  <2>2. \A p \in Tasks : Reaches(r, p) => p \in C
    BY <1>1 DEF Reaches
  <2>3. graph.depends[r] \subseteq C
    BY <2>2 DEF WalkInv, NoneLost, GraphOK, Shape
  <2>4. ASSUME NEW q \in C \ graph.setscene PROVE graph.depends[q] \subseteq C
    <3>1. q \in walk.collated[r] /\ graph.depends[q] \subseteq Tasks
      BY <2>1 DEF WalkInv, GraphOK, Shape
    <3>2. \A p \in graph.depends[q] : Reaches(r, p)
      BY <3>1 DEF WalkInv, NoneLost
    <3> HIDE DEF C
    <3> QED
      BY <2>2, <3>1, <3>2
  <2> HIDE DEF C
  <2>5. Chain(graph, r) \subseteq C
    BY <2>1, <2>3, <2>4, ChainLeast DEF WalkInv, GraphOK
  <2> QED
    BY <2>5 DEF C
<1>3. \A r \in graph.setscene : walk.collated[r] \subseteq Chain(graph, r) \ graph.setscene
  BY DEF WalkInv, Sound
<1>4. /\ s \in Tasks /\ walk.squash[s] \subseteq graph.setscene
      /\ \A r \in walk.squash[s] : s \in Chain(graph, r)
  BY <1>1 DEF WalkInv, WalkType, Sound, GraphOK, Shape
<1>5. walk.collated[s] = Chain(graph, s) \ graph.setscene
  BY <1>2, <1>3
<1>6. ASSUME NEW r \in graph.setscene, s \in Chain(graph, r) PROVE r \in walk.squash[s]
  BY <1>2, <1>3, <1>6
<1> QED
  BY <1>4, <1>5, <1>6

LEMMA NoneInACircle == WalkInv /\ Done => NoCircle
<1> SUFFICES ASSUME WalkInv, Done, NEW S \in (SUBSET graph.setscene) \ {{}}
             PROVE  \E s \in S : SqRevdeps(graph, walk.squash)[s] \cap S = {}
  BY DEF NoCircle
<1>1. \A s \in graph.setscene : walk.squash[s] = Squashed(graph)[s]
  BY Exact DEF CollapseExact
<1>2. SqRevdeps(graph, walk.squash) = SqRevdeps(graph, Squashed(graph))
  BY <1>1 DEF SqRevdeps
<1>3. ASSUME NEW C \in (SUBSET graph.setscene) \ {{}}
      PROVE  \E b \in C : \A a \in C : <<a, b>> \notin graph.harddeps
  <2>1. PICK b \in C :
          [x \in graph.setscene |-> {a \in graph.setscene : <<a, x>> \in graph.harddeps}][b]
            \cap C = {}
    BY DEF WalkInv, GraphOK, Shape, Acyclic
  <2> QED
    BY <2>1
<1> QED
  BY <1>2, <1>3, SomeTaskFirst DEF WalkInv, GraphOK

LEMMA Settled == WalkInv => EveryTaskSettled
<1> SUFFICES ASSUME WalkInv, Done
             PROVE  /\ ~BadlyWrong
                    /\ \A t \in graph.tasks \ graph.setscene : SomebodySettles(t)
                    /\ NoCircle
  BY DEF EveryTaskSettled
<1>1. ~BadlyWrong
  BY NothingOnItsWay DEF BadlyWrong, WalkInv, GraphOK, Shape
<1>2. \A t \in graph.tasks \ graph.setscene : SomebodySettles(t)
  BY Exact, PlainTaskSettled DEF CollapseExact, SomebodySettles, WalkInv, GraphOK
<1> QED
  BY <1>1, <1>2, NoneInACircle

\* When process_endpoints() is over, every setscene task covers exactly the plain
\* tasks of its chain and is squashed behind exactly the setscene tasks whose
\* chain it ends, for every graph and in whatever order the points came.
THEOREM CollapseHolds == Spec => []CollapseExact
BY WalkHolds, Exact, PTL

\* The check "Something went badly wrong during scenequeue generation" never
\* fires, every plain task is the endpoint's or a setscene task's to settle, and
\* the setscene tasks never wait for each other in a circle.
THEOREM SettledHolds == Spec => []EveryTaskSettled
BY WalkHolds, Settled, PTL

=============================================================================
