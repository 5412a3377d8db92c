--------------------------- MODULE MCProcessServer ---------------------------
\* Instances of the server for TLC.
EXTENDS ProcessServerProperties

\* Whoever only comes to stop the server tries once, the others twice.
MCTries == [k \in Client |-> IF k \in Killers THEN 1 ELSE 2]
=============================================================================
