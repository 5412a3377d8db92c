------------------------ MODULE ParserPoolProperties ------------------------
(***************************************************************************)
(* What the parsing of the recipes promises.                               *)
(***************************************************************************)
EXTENDS ParserPool

Places ==
    {"update", "construct", "assign", "while", "reap", "get", "free", "look", "check",
     "enter", "event", "drain", "quit", "int", "kill", "term", "join", "ended", "raised"}

\* Every variable has its type: the pipe holds what fits, a signal is sent to a
\* process, and the parser that is writing has something to write.
TypeOK ==
    /\ state \in {"initial", "parsing", "running", "stopped"}
    /\ made \in BOOLEAN /\ haveshutdown \in BOOLEAN /\ quit \in BOOLEAN
    /\ at \in [Thread -> Places] /\ pos \in [Thread -> Nat \ {0}]
    /\ victim \in [Thread -> Parser \cup {None}]
    /\ \A t \in Thread : at[t] = "kill" <=> victim[t] # None
    /\ processes \in Seq(Parser) /\ copy \in Seq(Parser)
    /\ parsed \in Nat /\ empty \in BOOLEAN
    /\ reason \in {"none", "stop", "complete", "error"}
    /\ proc \in [Parser -> {"none", "loop", "parse", "send", "sent", "close",
                            "dead", "reaped", "closed"}]
    /\ jobs \in [Parser -> Nat] /\ buf \in [Parser -> Seq({"ok", "bad"})]
    /\ signals \subseteq Parser /\ mute \subseteq Parser
    /\ pipe \in Seq({"ok", "bad"}) /\ Len(pipe) <= PipeResults
    /\ writer \in Parser \cup {None} /\ torn \in BOOLEAN /\ sender \in Parser \cup {None}
    /\ writer # None /\ Alive(writer) => buf[writer] # <<>>
    /\ failed \in BOOLEAN /\ killed \subseteq Parser /\ termed \subseteq Parser

\* "We must not terminate any process or thread holding the write lock for the
\* event stream as it will not be released, ever, and things will hang"
\* (lib/bb/cooker.py:2091): no signal of shutdown() leaves the lock taken, in
\* whichever order the events, the signals and both threads come.
EventLockFreed == sender # None => proc[sender] = "send" \/ sender \in killed

\* The cooker goes on only when every recipe was parsed, whoever was killed with
\* results not yet written; and a parsing that nobody stops fails only if a recipe
\* did or a parser was killed, never because its processes ended and left before
\* their results were taken.
VerdictIsRight ==
    Ended("idle") =>
        /\ at["idle"] = "ended" /\ reason = "complete" =>
               ~failed /\ \A p \in Parser : jobs[p] = 0
        /\ at["idle"] = "raised" \/ reason # "complete" =>
               failed \/ killed # {} \/ at["main"] # "free"

\* A parser that has lost the SIGTERM it was sent while it wrote an event.
Deaf == {p \in termed : Alive(p) /\ proc[p] # "send"}

\* A parsing that nobody stops ends, whatever recipe fails and whenever a parser is
\* killed: full pipes, queues that are waited for and processes that end early do
\* not keep the cooker for ever. It may be kept by a parser that was killed with a
\* lock, and by one that lost its SIGTERM.
ParsingEnds ==
    <>(Ended("idle") \/ at["main"] # "free" \/ Deaf # {} \/ killed \cap {writer, sender} # {})
=============================================================================
