CONSTANTS
    Tasks = {1, 2, 3, 4}
    MaxHardDeps = 2
SPECIFICATION Spec
INVARIANTS
    CollapseExact
    EveryTaskSettled
