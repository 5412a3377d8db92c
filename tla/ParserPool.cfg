CONSTANTS
    num_processes = 2
    Recipes <- OneEach
    PipeResults = 1
    MayFail = {2}
    MayStop = TRUE
    Warns = {1}
    Killable = {1}
CHECK_DEADLOCK FALSE
SPECIFICATION Spec
INVARIANTS
    TypeOK
    EventLockFreed
    
PROPERTIES
    ParsingEnds
