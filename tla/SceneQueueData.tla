--------------------------- MODULE SceneQueueData ---------------------------
(***************************************************************************)
(* The static data of BitBake's setscene queue: build_scenequeue_data()    *)
(* of lib/bb/runqueue.py collapses the task graph of a build into a graph  *)
(* of its setscene tasks only.                                             *)
(*                                                                         *)
(* A task graph g is a record                                              *)
(*   tasks     the task ids (tid), each represented by its rank in the     *)
(*             sorted list of tids, so that < is the order of sorted()     *)
(*   depends   for each task the tasks it depends on; acyclic              *)
(*   setscene  the tasks that have a _setscene variant                     *)
(*   cantskip  the targets of the build that are not setscene tasks        *)
(*   harddeps  pairs <<a, b>>: the [depends] flag of b's setscene variant  *)
(*             names a's setscene variant                                  *)
(***************************************************************************)
EXTENDS Naturals, FiniteSets

\* The tasks that depend directly on t.
Revdeps(g, t) == {u \in g.tasks : t \in g.depends[u]}

\* The tasks nothing depends on: what the build is for.
Endpoints(g) == {t \in g.tasks : Revdeps(g, t) = {}}

\* The smallest set that contains S and, with each of its members, what
\* Step gives for it. Universe bounds the members.
Closure(Universe, S, Step(_)) ==
    {x \in Universe :
        \A C \in SUBSET Universe :
            S \subseteq C /\ (\A c \in C : Step(c) \subseteq C) => x \in C}

-----------------------------------------------------------------------------
(***************************************************************************)
(* What build_scenequeue_data() leaves in SQData. process_endpoints() gets *)
(* there by a walk that may come in any order; what it computes does not   *)
(* depend on that and is said here without it. SceneQueueBuild is the walk *)
(* and its proofs show, for every graph, that this is where it ends.       *)
(***************************************************************************)

\* The points that setscene task s reaches without going through another
\* setscene task, that one included.
Chain(g, s) ==
    Closure(g.tasks, g.depends[s],
            LAMBDA t : IF t \in g.setscene THEN {} ELSE g.depends[t])

\* sq_covered_tasks: the plain tasks setscene task s stands for.
CoveredTasks(g) == [s \in g.setscene |-> Chain(g, s) \ g.setscene]

\* sq_revdeps as the walk leaves it: the setscene tasks whose chain ends at s.
Squashed(g) == [s \in g.setscene |-> {r \in g.setscene : s \in Chain(g, r)}]

\* Mutant: dependencies of the endpoints are not needed as such.
UnskippableEndpoints(g) == Endpoints(g) \cup g.cantskip

\* Tasks the build needs as such: the endpoints, the plain targets, and
\* their dependencies down to and including the first setscene task.
Unskippable(g) ==
    Closure(g.tasks, Endpoints(g) \cup g.cantskip,
            LAMBDA t : IF t \in g.setscene THEN {} ELSE g.depends[t])

HardDependants(g, a) == {b \in g.setscene : <<a, b>> \in g.harddeps}

\* sq_revdeps: what must be settled before s is looked at. A task that others
\* name as a hard dependency loses the reverse dependencies of the walk, and
\* every hard dependency comes before its dependants.
SqRevdeps(g, squash) ==
    [s \in g.setscene |->
        (IF HardDependants(g, s) = {} THEN squash[s] ELSE {})
            \cup {a \in g.setscene : <<a, s>> \in g.harddeps}]

=============================================================================
