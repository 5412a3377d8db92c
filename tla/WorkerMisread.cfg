CONSTANTS
    Tasks = {t1, t2}
    NoTask = NoTask
    MaxEvents = 1
    MaxHashes = 1
    PipeCommands = 3
    PipeMessages = 1
    PipeEvents = 1
    MayDie = FALSE
    OthersMayDie = FALSE
    CookerMayDie = FALSE
SPECIFICATION Spec
INVARIANTS
    ExitsOnlyWhenTold
