------------------------------- MODULE PRTable -------------------------------
(***************************************************************************)
(* The table of the PR server, in the mode without history, which is the   *)
(* one the server opens it in: a value for each checksum of a package. A   *)
(* package is a pair of version and architecture.                          *)
(***************************************************************************)
EXTENDS Integers

CONSTANTS
    Package, Checksum,
    MaxValue        \* bound: the highest value there is

ASSUME ValueAssumption == MaxValue \in Nat

ASSUME ChecksumAssumption == Checksum # {}

\* No row. SQL's NULL, which max() + 1 with ifnull(..., 0) makes a 0.
None == -1

Value == 0..MaxValue

Tables == [Package -> [Checksum -> Value \cup {None}]]

EmptyTable == [p \in Package |-> [c \in Checksum |-> None]]

\* max(value) of the rows of a package.
Highest(t, p) ==
    CHOOSE v \in {t[p][c] : c \in Checksum} : \A c \in Checksum : t[p][c] <= v

\* Mutant: any value the checksum had is good, as in the mode with history.
HoldsAny(t, p, c) == t[p][c] # None

\* The row is there, and none of its package is higher.
Holds(t, p, c) == t[p][c] # None /\ t[p][c] >= Highest(t, p)

\* Mutant: the highest value is taken over.
InsertHighest(t, p, c) ==
    [t EXCEPT ![p][c] = IF Highest(t, p) = None THEN 0 ELSE Highest(t, p)]

\* INSERT OR REPLACE of the next value.
Insert(t, p, c) == [t EXCEPT ![p][c] = Highest(t, p) + 1]

\* An imported value never lowers the one that is there.
Import(t, p, c, v) == [t EXCEPT ![p][c] = IF @ < v THEN v ELSE @]

\* What getValue() returns.
ValueOf(t, p, c) == IF Holds(t, p, c) THEN t[p][c] ELSE Highest(t, p) + 1

\* Mutant: one row for every package.
ExportOne(t) ==
    {<<p, CHOOSE c \in Checksum : Holds(t, p, c)>> :
        p \in {q \in Package : \E c \in Checksum : Holds(t, q, c)}}

\* export(): of every package the rows with its highest value.
Export(t) == {row \in Package \X Checksum : Holds(t, row[1], row[2])}

\* The same rows of t after an importone() of each of the exported rows of s.
ImportAll(t, s) ==
    [p \in Package |-> [c \in Checksum |->
        IF <<p, c>> \in Export(s) THEN Import(t, p, c, s[p][c])[p][c] ELSE t[p][c]]]
=============================================================================
