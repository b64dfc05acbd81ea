\* The test and a node, five rows, a channel of two, three kinds of file.
CONSTANTS
    Rows = 5
    ChanCap = 2
    Clients = {"test", "node"}
    Files = {"good", "full", "none"}
SPECIFICATION FairSpec
CHECK_DEADLOCK FALSE
INVARIANTS
    TokenMeansWritten
PROPERTIES
    ReachesDisk
    OneTakesToken
