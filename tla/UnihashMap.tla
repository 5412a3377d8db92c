----------------------------- MODULE UnihashMap -----------------------------
(***************************************************************************)
(* What a hash equivalence server promises the builds that use it: a task  *)
(* hash is given a unihash once, keeps it for ever, restarts included, and *)
(* what the server answers from its table is that unihash.                 *)
(***************************************************************************)

CONSTANTS Taskhash, None

VARIABLES
    unihash,    \* the unihash each task hash was given, or None
    answers     \* what clients were told, as <<taskhash, unihash>>

vars == <<unihash, answers>>

Init ==
    /\ unihash = [t \in Taskhash |-> None]
    /\ answers = {}

Given(t) == unihash[t] # None

\* The client that makes the server choose a unihash is told in the same step.
Give(t, u) ==
    /\ ~Given(t)
    /\ unihash' = [unihash EXCEPT ![t] = u]
    /\ answers' \in {answers, answers \cup {<<t, u>>}}

Tell(t) ==
    /\ Given(t)
    /\ answers' = answers \cup {<<t, unihash[t]>>}
    /\ UNCHANGED unihash

Next == \E t \in Taskhash : Tell(t) \/ \E u \in Taskhash : Give(t, u)

Spec == Init /\ [][Next]_vars

=============================================================================
