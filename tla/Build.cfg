CONSTANTS
    Tasks = {1, 2, 3, 4, 5, 6, 7}
    Depends <- ImageDepends
    Setscene = {2, 3, 6}
    Targets = {7}
    HardDeps <- NoPairs
    Name <- ImageName
    Recipe <- ImageRecipe
    NoExec = {1}
    NumberTasks = 2
    Halt = TRUE
    ForceTargets = FALSE
    SetsceneOnly = FALSE
    SkipSetscene = FALSE
    SetsceneEnforce = FALSE
    SetsceneIgnore = {}
    NotRequired = {2, 3, 6}
    InitialTaskStamps <- ImageStamps
    InitialSetsceneStamps <- ImageSetsceneStamps
    InitialSstate <- ImageSstate
    NewUnihashes = {}
    MayFail = {1, 2, 3, 4, 5, 6, 7}
    MayStop = {"shutdown", "forceshutdown"}
    MaxRefusals = 0
SPECIFICATION Spec
INVARIANTS
    TypeOK
    DependenciesFirst
    ActiveCountsJobs
    EndsCleanly
    UpToDateRunsNothing
PROPERTIES
    ImplementsBuild
