\* USDT data sets of even and odd length; a simulator with two accounts and up to
\* three transfers, interrupted or not; random banknotes.
CONSTANTS
    Accounts = {a, b}
    Nil = Nil
    Values = {0, 2, 3, 5}
    MaxTransfers = 3
    ShardNumber = 3
    BlockSize = 1
    DefaultBalance = 2
    RecycleInterval = 2
    RecycleLength = 0
    FlushBlockInterval = 2
    Modes = {"origin", "banknote", "scalability"}
    RowCounts = {0, 2, 3, 9}
    CsvCap = 1
    TxCap = 2
    BatchCap = 2
    TxCountPerBlock = 2
    MaxBatches = 2
SPECIFICATION FairSpec
CHECK_DEADLOCK FALSE
INVARIANTS
    EverySecondRow
    RowsArrive
    WalletsAreReplay
    GroupPaysExactly
    NewNoteDespiteNotes
    RecycleMissesNeighbours
PROPERTIES
    AllReceived
