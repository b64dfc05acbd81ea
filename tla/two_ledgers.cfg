\* Two ledgers that share the worker count; a wait may never return.
CONSTANTS
    b1 = b1
    b2 = b2
    b3 = b3
    b4 = b4
    b5 = b5
    alice = alice
    bob = bob
    carol = carol
    l1 = l1
    l2 = l2
    Accounts = {alice, bob, carol}
    ZeroAddress = ZeroAddress
    NoBanknote = NoBanknote
    NoTask = NoTask
    InitBalance = 3
    Ledgers = {l1, l2}
    Banknotes <- MCBanknotes
    Workloads <- TwoLedgerBlocks
    MaxLedgerTxs = 5
    InitAmount <- MCInitAmount
    BaseWorkers = 0
    PLedgerInnerChanSize = 2
    PAccountModifyChanSize = 1
SPECIFICATION Spec
CONSTRAINT OneLedgerAhead
CHECK_DEADLOCK FALSE
INVARIANTS
    PhaseComplete
    PanicOnlyWhenMiscounted
