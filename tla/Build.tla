-------------------------------- MODULE Build --------------------------------
(***************************************************************************)
(* What a BitBake build promises, whatever its scheduler, its setscene     *)
(* queue and the hash equivalence server do: a task is begun at most once, *)
(* after everything it depends on is done, and no more jobs run at a time  *)
(* than BB_NUMBER_THREADS, those of the setscene queue included.           *)
(***************************************************************************)
EXTENDS Integers, FiniteSets

CONSTANTS Tasks, Depends, Setscene, NumberTasks

VARIABLES
    started,    \* tasks that were begun or skipped
    running,    \* tasks whose job is running
    done,       \* tasks that are complete
    failed,
    staging     \* tasks whose setscene job is running

vars == <<started, running, done, failed, staging>>

Init ==
    /\ started = {} /\ running = {} /\ done = {} /\ failed = {} /\ staging = {}

FreeThread == Cardinality(running) + Cardinality(staging) < NumberTasks

Ready(t) == t \notin started /\ Depends[t] \subseteq done

Begin(t) ==
    /\ Ready(t) /\ FreeThread
    /\ started' = started \cup {t} /\ running' = running \cup {t}
    /\ UNCHANGED <<done, failed, staging>>

\* Nothing to run for t: its output is there already.
Skip(t) ==
    /\ Ready(t)
    /\ started' = started \cup {t} /\ done' = done \cup {t}
    /\ UNCHANGED <<running, failed, staging>>

Succeed(t) ==
    /\ t \in running
    /\ running' = running \ {t} /\ done' = done \cup {t}
    /\ UNCHANGED <<started, failed, staging>>

Fail(t) ==
    /\ t \in running
    /\ running' = running \ {t} /\ failed' = failed \cup {t}
    /\ UNCHANGED <<started, done, staging>>

\* t will not be built: it may not run, or can no longer be built rightly.
Refuse(t) ==
    /\ t \notin started
    /\ failed' = failed \cup {t}
    /\ UNCHANGED <<started, running, done, staging>>

Stage(t) ==
    /\ FreeThread
    /\ staging' = staging \cup {t}
    /\ UNCHANGED <<started, running, done, failed>>

Unstage(t) ==
    /\ staging' = staging \ {t}
    /\ UNCHANGED <<started, running, done, failed>>

Next ==
    \/ \E t \in Tasks :
          \/ Begin(t) \/ Skip(t) \/ Succeed(t) \/ Fail(t) \/ Refuse(t)
    \/ \E t \in Setscene : Stage(t) \/ Unstage(t)

Spec == Init /\ [][Next]_vars

=============================================================================
