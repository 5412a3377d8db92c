CONSTANTS
    Taskhash = {1, 2}
    Outhash = {"a", "b"}
    Client = {c1, c2}
    c1 = c1
    c2 = c2
    None = None
    Requests = {"get-stream", "get", "get-all", "get-outhash", "report", "backfill-wait"}
    Output <- Equal
    Equivalences <- NoPairs
    InitialUpstream <- Known
    UpstreamOutput <- NoPairs
    UpstreamMayFail = FALSE
    MayCrash = FALSE
    LastRowidKept = FALSE
    MaxBackfill = 1
SPECIFICATION Spec
INVARIANTS
    AgreeWithoutUpstream
    UpstreamPreferred
    BackfilledAsTold
PROPERTIES
    ReportsAreStored
    RequestsEnd
