CONSTANTS
    Taskhash = {1, 2}
    Outhash = {"a", "b"}
    Client = {c1, c2}
    c1 = c1
    c2 = c2
    None = None
    Requests = {"get-stream", "report", "report-equiv"}
    Output <- Unstable
    Equivalences <- OneEquivalence
    InitialUpstream <- FirstKnown
    UpstreamOutput <- LateOutput
    UpstreamMayFail = TRUE
    MayCrash = TRUE
    LastRowidKept = TRUE
    MaxBackfill = 1
SPECIFICATION Spec
PROPERTIES
    ImplementsUnihashMap
