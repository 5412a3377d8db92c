-------------------------------- MODULE Jobs --------------------------------
(***************************************************************************)
(* What the run queue is promised about the tasks it gives to its workers: *)
(* only a task that was given out runs; its events are told while it is    *)
(* live and in the order they were fired; it is reported over at most      *)
(* once, with the exit code of its process, and after its last event.      *)
(***************************************************************************)
EXTENDS Integers

CONSTANTS
    Tasks,
    Codes   \* exit codes, natural numbers

None == -1

VARIABLES
    live,   \* tasks given out and not reported over
    fired,  \* how many events the process of each task has fired
    told,   \* how many of them the run queue has been told of
    exit,   \* the exit code of each process
    over    \* the exit code reported

vars == <<live, fired, told, exit, over>>

Init ==
    /\ live = {}
    /\ fired = [t \in Tasks |-> 0]
    /\ told = [t \in Tasks |-> 0]
    /\ exit = [t \in Tasks |-> None]
    /\ over = [t \in Tasks |-> None]

Give(t) ==
    /\ t \notin live /\ over[t] = None
    /\ live' = live \cup {t}
    /\ UNCHANGED <<fired, told, exit, over>>

\* A task whose command could not be written is not given out after all.
Withdraw(t) ==
    /\ t \in live /\ fired[t] = 0 /\ exit[t] = None
    /\ live' = live \ {t}
    /\ UNCHANGED <<fired, told, exit, over>>

Fire(t) ==
    /\ t \in live /\ exit[t] = None
    /\ fired' = [fired EXCEPT ![t] = @ + 1]
    /\ UNCHANGED <<live, told, exit, over>>

End(t, code) ==
    /\ t \in live /\ exit[t] = None
    /\ exit' = [exit EXCEPT ![t] = code]
    /\ UNCHANGED <<live, fired, told, over>>

Tell(t) ==
    /\ t \in live /\ told[t] < fired[t]
    /\ told' = [told EXCEPT ![t] = @ + 1]
    /\ UNCHANGED <<live, fired, exit, over>>

Report(t) ==
    /\ t \in live /\ exit[t] # None /\ told[t] = fired[t]
    /\ over' = [over EXCEPT ![t] = exit[t]]
    /\ live' = live \ {t}
    /\ UNCHANGED <<fired, told, exit>>

Next == \E t \in Tasks :
            \/ Give(t)
            \/ Withdraw(t)
            \/ Fire(t)
            \/ \E code \in Codes : End(t, code)
            \/ Tell(t)
            \/ Report(t)

Spec == Init /\ [][Next]_vars
=============================================================================
