CONSTANTS
    Tasks = {1, 2, 3, 4, 5, 6, 7, 8, 9}
    Depends <- MixDepends
    Setscene = {2, 3, 6, 8}
    Targets = {9}
    HardDeps <- PackageFirst
    Name <- MixName
    Recipe <- MixRecipe
    NoExec = {}
    NumberTasks = 2
    Halt = FALSE
    ForceTargets = FALSE
    SetsceneOnly = FALSE
    SkipSetscene = FALSE
    SetsceneEnforce = FALSE
    SetsceneIgnore = {}
    NotRequired = {2, 8}
    InitialTaskStamps <- NoStamps
    InitialSetsceneStamps <- NoStamps
    InitialSstate <- MixSstate
    NewUnihashes = {1}
    MayFail = {1, 2, 4}
    MayStop = {}
    MaxRefusals = 0
SPECIFICATION Spec
INVARIANTS
    
    SetsceneExclusive
    NoLateRerun
PROPERTIES
    NoDuplicateJobs
    InputsPresent
