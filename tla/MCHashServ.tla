----------------------------- MODULE MCHashServ -----------------------------
(***************************************************************************)
(* Small instances of HashServ: what the tasks make, what may be reported  *)
(* as equivalent, and what the upstream server has.                        *)
(***************************************************************************)
EXTENDS HashServProperties

Equal == {<<1, "a">>, <<2, "a">>}

\* Task 2 does not always make the same output.
Unstable == Equal \cup {<<2, "b">>}

LateOutput == {<<2, "a">>}

NoPairs == {}

OneEquivalence == {<<1, 2>>}

FirstKnown == {Reported(Empty, 1, "a", 1)}

\* No upstream server, and what clients of one may have reported before.
Known ==
    {None, Empty, Reported(Empty, 1, "a", 1),
     Reported(Reported(Empty, 2, "a", 2), 1, "a", 1)}

=============================================================================
