\* One peripheral ledger, two workers per phase, blocks that fit the channels and two that do not: those stop.
CONSTANTS
    b1 = b1
    b2 = b2
    b3 = b3
    b4 = b4
    b5 = b5
    alice = alice
    bob = bob
    carol = carol
    l1 = l1
    l2 = l2
    Accounts = {alice, bob, carol}
    ZeroAddress = ZeroAddress
    NoBanknote = NoBanknote
    NoTask = NoTask
    InitBalance = 3
    Ledgers = {l1}
    Banknotes <- MCBanknotes
    Workloads <- OneLedgerBlocks
    MaxLedgerTxs = 5
    InitAmount <- MCInitAmount
    BaseWorkers = 1
    PLedgerInnerChanSize = 2
    PAccountModifyChanSize = 1
SPECIFICATION FairSpec
CHECK_DEADLOCK FALSE
INVARIANTS
    TypeOK
    PhaseOrder
    PoolOutcome
    SpentInitialBanknote
    OwnerOutcome
    AccountsOutcome
    OnlyFittingLeavesBG
PROPERTIES
    Terminates
    PromiseKept
