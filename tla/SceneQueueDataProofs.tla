------------------------- MODULE SceneQueueDataProofs -------------------------
(***************************************************************************)
(* Facts about the chains of setscene tasks on which both the walk that    *)
(* computes them (SceneQueueBuildProofs) and the build that relies on them *)
(* (RunQueueProofs) rest. They hold of every graph in which every set of   *)
(* tasks has one that nothing in the set depends on.                       *)
(***************************************************************************)
EXTENDS SceneQueueData, TLAPS

Shape(g) ==
    /\ g.depends \in [g.tasks -> SUBSET g.tasks]
    /\ g.setscene \subseteq g.tasks
    /\ \A C \in (SUBSET g.tasks) \ {{}} :
          \E t \in C : \A u \in C : t \notin g.depends[u]

\* A task does not depend on itself.
LEMMA NoSelfDependency ==
    ASSUME NEW g, Shape(g), NEW p \in g.tasks
    PROVE  p \notin g.depends[p]
<1>1. {p} \in (SUBSET g.tasks) \ {{}}
  OBVIOUS
<1> QED
  BY <1>1 DEF Shape

\* The chain of a setscene task holds what it depends on, and what the plain
\* tasks in it depend on; it is the smallest such set.
LEMMA ChainHolds ==
    ASSUME NEW g, Shape(g), NEW s \in g.setscene
    PROVE  /\ g.depends[s] \subseteq Chain(g, s)
           /\ Chain(g, s) \subseteq g.tasks
           /\ \A p \in Chain(g, s) \ g.setscene : g.depends[p] \subseteq Chain(g, s)
BY DEF Shape, Chain, Closure

LEMMA ChainLeast ==
    ASSUME NEW g, Shape(g), NEW s \in g.setscene, NEW C \in SUBSET g.tasks,
           g.depends[s] \subseteq C,
           \A p \in C \ g.setscene : g.depends[p] \subseteq C
    PROVE  Chain(g, s) \subseteq C
BY DEF Shape, Chain, Closure

\* Whatever is in a chain, the setscene task or a plain task of the chain
\* depends on it.
LEMMA ChainLinked ==
    ASSUME NEW g, Shape(g), NEW s \in g.setscene, NEW t \in Chain(g, s)
    PROVE  \E u \in {s} \cup (Chain(g, s) \ g.setscene) : t \in g.depends[u]
<1> SUFFICES ASSUME \A u \in {s} \cup (Chain(g, s) \ g.setscene) : t \notin g.depends[u]
             PROVE  FALSE
  OBVIOUS
<1> DEFINE C == Chain(g, s) \ {t}
<1>1. /\ g.depends[s] \subseteq Chain(g, s) /\ Chain(g, s) \subseteq g.tasks
      /\ \A p \in Chain(g, s) \ g.setscene : g.depends[p] \subseteq Chain(g, s)
  BY ChainHolds
<1>2. /\ C \in SUBSET g.tasks /\ g.depends[s] \subseteq C
      /\ \A p \in C \ g.setscene : g.depends[p] \subseteq C
  BY <1>1
<1> HIDE DEF C
<1>3. Chain(g, s) \subseteq C
  BY <1>2, ChainLeast
<1> QED
  BY <1>3 DEF C

\* The tasks needed as such are closed under the dependencies of plain tasks.
LEMMA UnskippableHolds ==
    ASSUME NEW g, Shape(g)
    PROVE  /\ Unskippable(g) \subseteq g.tasks
           /\ (Endpoints(g) \cup g.cantskip) \cap g.tasks \subseteq Unskippable(g)
           /\ \A p \in Unskippable(g) \ g.setscene : g.depends[p] \subseteq Unskippable(g)
BY DEF Shape, Unskippable, Closure

\* Every plain task is needed as such or stands behind a setscene task: of the
\* tasks that are neither, the topmost would be an endpoint.
LEMMA PlainTaskSettled ==
    ASSUME NEW g, Shape(g), NEW t \in g.tasks \ g.setscene
    PROVE  t \in Unskippable(g) \/ \E s \in g.setscene : t \in CoveredTasks(g)[s]
<1> DEFINE settled(x) == x \in Unskippable(g) \/ \E s \in g.setscene : x \in Chain(g, s)
           left == {x \in g.tasks \ g.setscene : ~settled(x)}
<1>1. ASSUME left # {} PROVE FALSE
  <2>1. PICK x \in left : \A u \in left : x \notin g.depends[u]
    <3>1. left \in (SUBSET g.tasks) \ {{}}
      BY <1>1
    <3> HIDE DEF left
    <3> QED
      BY <3>1 DEF Shape
  <2>2. x \in g.tasks /\ x \notin Endpoints(g)
    BY <2>1, UnskippableHolds
  <2>3. PICK u \in g.tasks : x \in g.depends[u]
    BY <2>2 DEF Endpoints, Revdeps
  <2>4. CASE u \in g.setscene
    BY <2>1, <2>3, <2>4, ChainHolds
  <2>5. CASE u \notin g.setscene
    <3>1. settled(u)
      BY <2>1, <2>3, <2>5
    <3>2. settled(x)
      BY <2>3, <2>5, <3>1, ChainHolds, UnskippableHolds
    <3> QED
      BY <2>1, <3>2
  <2> QED
    BY <2>4, <2>5
<1>2. settled(t)
  BY <1>1
<1> QED
  BY <1>2 DEF CoveredTasks

\* Among setscene tasks that are left, the first of the hard dependencies waits
\* for none of the others; if none of them is a hard dependency, the topmost.
LEMMA SomeTaskFirst ==
    ASSUME NEW g, Shape(g), NEW S \in (SUBSET g.setscene) \ {{}},
           \A C \in (SUBSET g.setscene) \ {{}} :
              \E b \in C : \A a \in C : <<a, b>> \notin g.harddeps
    PROVE  \E s \in S : SqRevdeps(g, Squashed(g))[s] \cap S = {}
<1> DEFINE hard  == {a \in S : HardDependants(g, a) # {}}
           first(s) == {a \in g.setscene : <<a, s>> \in g.harddeps}
<1>1. \A s \in g.setscene :
        SqRevdeps(g, Squashed(g))[s] =
          (IF HardDependants(g, s) = {} THEN Squashed(g)[s] ELSE {}) \cup first(s)
  BY DEF SqRevdeps
<1>2. \A s \in S : first(s) \cap S \subseteq hard
  BY DEF HardDependants
<1>3. CASE hard # {}
  <2>1. hard \in (SUBSET g.setscene) \ {{}}
    BY <1>3
  <2> HIDE DEF hard
  <2>2. PICK s \in hard : \A a \in hard : <<a, s>> \notin g.harddeps
    BY <2>1
  <2>3. first(s) \cap hard = {}
    BY <2>2
  <2>4. s \in S /\ HardDependants(g, s) # {}
    BY DEF hard
  <2>5. SqRevdeps(g, Squashed(g))[s] = first(s)
    BY <1>1, <2>4
  <2> QED
    BY <1>2, <2>3, <2>4, <2>5
<1>4. CASE hard = {}
  <2> DEFINE D == S \cup UNION {Chain(g, r) \ g.setscene : r \in S}
  <2>1. \A s \in S : SqRevdeps(g, Squashed(g))[s] \cap S = Squashed(g)[s] \cap S
    BY <1>1, <1>2, <1>4
  <2>2. \A s \in g.setscene : Squashed(g)[s] = {r \in g.setscene : s \in Chain(g, r)}
    BY DEF Squashed
  <2>3. D \in (SUBSET g.tasks) \ {{}}
    BY ChainHolds DEF Shape
  <2>4. PICK t \in D : \A u \in D : t \notin g.depends[u]
    <3> HIDE DEF D
    <3> QED
      BY <2>3 DEF Shape
  <2>5. ASSUME NEW r \in S PROVE t \notin Chain(g, r)
    BY <2>4, ChainLinked
  <2>6. t \in S
    BY <2>4, <2>5
  <2>7. Squashed(g)[t] \cap S = {}
    BY <2>2, <2>5, <2>6
  <2> QED
    BY <2>1, <2>6, <2>7
<1> QED
  BY <1>3, <1>4

=============================================================================
