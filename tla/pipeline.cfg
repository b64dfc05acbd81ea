\* A leader and a peer, from their start on, in twelve settings.
CONSTANTS
    l1 = l1
    p1 = p1
    leader = leader
    Copied = Copied
    None = None
    Ledgers = {l1}
    Leader = leader
    Peers = {p1}
    MaxBlock = 4
    ReaderCap = 1
    QueueCap = 1
    Settings <- EverySetting
SPECIFICATION FairSpec
CHECK_DEADLOCK FALSE
INVARIANTS
    LeaderChainInOrder
    ParentLag
    PublishedRoots
    PeersFollow
    LeaderDiesOnlyOf
PROPERTIES
    ChainReachesPeers
    StartUpEnds
