------------------------------ MODULE MCPRServ ------------------------------
\* A small instance of the PR servers for TLC.
EXTENDS PRServProperties, TLC

CONSTANTS p, a, b, s1, s2, k1, k2

OneImport == {[package |-> p, checksum |-> b, value |-> 1]}

\* Clients, and servers that may write, are alike.
Alike == Permutations({s1, s2}) \cup Permutations({k1, k2})
=============================================================================
