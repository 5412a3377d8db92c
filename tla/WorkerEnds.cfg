CONSTANTS
    Tasks = {t1, t2}
    NoTask = NoTask
    MaxEvents = 1
    MaxHashes = 0
    PipeCommands = 1
    PipeMessages = 1
    PipeEvents = 1
    MayDie = FALSE
    OthersMayDie = FALSE
    CookerMayDie = TRUE
SPECIFICATION FairSpec
PROPERTIES
    EndedIsReported
    FinishNowEnds
    WorkerEnds
