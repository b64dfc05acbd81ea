\* Crashes and restarts, with and without drop_database; the bounds end the runs.
CONSTANTS
    Roles = {"leader", "peer"}
    MaxBlock = 3
    MaxCrashes = 3
    DropChoices = {TRUE, FALSE}
SPECIFICATION Spec
CHECK_DEADLOCK FALSE
INVARIANTS
    NothingMissingUnexplained
PROPERTIES
    RestartedChainFrozen
