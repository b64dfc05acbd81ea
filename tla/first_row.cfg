\* The same simulator; only the banknote mode.
CONSTANTS
    Accounts = {a, b}
    Nil = Nil
    Values = {2, 3, 5}
    MaxTransfers = 3
    ShardNumber = 3
    BlockSize = 1
    DefaultBalance = 2
    RecycleInterval = 2
    RecycleLength = 0
    FlushBlockInterval = 2
    Modes = {"banknote"}
    RowCounts = {0, 2, 3, 9}
    CsvCap = 1
    TxCap = 2
    BatchCap = 2
    TxCountPerBlock = 2
    MaxBatches = 2
SPECIFICATION Spec
CHECK_DEADLOCK FALSE
INVARIANTS
    FirstRowIsOrigin
