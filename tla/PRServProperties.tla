-------------------------- MODULE PRServProperties --------------------------
(***************************************************************************)
(* What builds rely on when they take package revisions from a PR server.  *)
(***************************************************************************)
EXTENDS PRServ

Stages == {"down", "loop", "insert", "commit", "begin"}

\* Every variable has its type; a server writes only in the transaction it has,
\* and no other sees what is in it.
TypeOK ==
    /\ rows \in Tables /\ work \in Tables /\ lock \in Server \cup {NoServer}
    /\ stage \in [Server -> Stages] /\ dirty \in [Server -> BOOLEAN] /\ readonly \subseteq Server
    /\ current \in [Server -> [client : Client \cup {NoClient}, request : Gets \cup {NoRequest}]]
    /\ conn \in [Client -> [server : Server \cup {NoServer}, request : Requests \cup {NoRequest}]]
    /\ given \subseteq Rows /\ unsaved \in [Server -> SUBSET Rows]
    /\ latest \in [Package -> Value \cup {None}]
    /\ \A s \in Server :
        /\ unsaved[s] # {} => lock = s /\ stage[s] = "commit"
        /\ lock = s => stage[s] # "down" /\ s \notin readonly
        /\ stage[s] = "insert" => current[s].request \in Gets

\* A value that was given out is in the database as long as no crash takes the
\* answer that is just being committed: no value is the highest of its package
\* without the database knowing one as high.
GivenAreStored ==
    \A g \in given :
        \/ g.value <= Highest(rows, g.package)
        \/ \E s \in Server : g \in unsaved[s] /\ g.value <= Highest(work, g.package)

\* "This means the PR value returned can NOT be decremented": what a server that
\* may write tells a client is as high as all that was told of the package, by
\* whichever server, before a crash or since; only the answer that a crash has
\* kept from being committed does not count.
NeverDecremented ==
    [][\A p \in Package : latest'[p] # latest[p] =>
        \A g \in given : g.package = p => g.value <= latest'[p]]_vars

\* Two outputs of a package get one value only if somebody imports it.
OneOutputPerValue ==
    \A g, h \in given :
        g.package = h.package /\ g.value = h.value /\ g.checksum # h.checksum
            => \E r \in Imported : r.package = g.package /\ r.value = g.value

\* What is exported is enough: a server that has imported it into an empty
\* database gives every checksum the value this one would give.
ExportSuffices ==
    \A p \in Package, c \in Checksum :
        ValueOf(ImportAll(EmptyTable, rows), p, c) = ValueOf(rows, p, c)

=============================================================================
