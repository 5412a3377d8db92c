CONSTANTS
    Tasks = {1, 2, 3, 4, 5, 6, 7}
    Depends <- TwinDepends
    Setscene = {2, 3, 5, 6}
    Targets = {7}
    HardDeps <- NoPairs
    Name <- TwinName
    Recipe <- TwinRecipe
    NoExec = {7}
    NumberTasks = 2
    Halt = TRUE
    ForceTargets = FALSE
    SetsceneOnly = FALSE
    SkipSetscene = FALSE
    SetsceneEnforce = TRUE
    SetsceneIgnore = {1, 2, 3, 4, 5, 7}
    NotRequired = {2, 5}
    InitialTaskStamps <- NoStamps
    InitialSetsceneStamps <- NoStamps
    InitialSstate <- TwinSstate
    NewUnihashes = {1}
    MayFail = {1, 2, 3, 4, 5, 6, 7}
    MayStop = {"shutdown", "forceshutdown"}
    MaxRefusals = 2
SPECIFICATION Spec
PROPERTIES
    Terminates
