\* The comment of UpdateNewestBlock: block production goes on after a restart.
CONSTANTS
    Roles = {"leader", "peer"}
    MaxBlock = 2
    MaxCrashes = 1
    DropChoices = {FALSE}
SPECIFICATION Spec
INVARIANT RestartGoesOn
