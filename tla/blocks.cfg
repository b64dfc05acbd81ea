\* Two batches on two ledgers, in two orders, with a peer that follows.
CONSTANTS
    alice = alice
    bob = bob
    Accounts = {alice, bob}
    ZeroAddress = ZeroAddress
    InitBalance = 3
    P = 2
    Runs <- MCRuns
SPECIFICATION Spec
INVARIANTS
    BlockComplete
    HashOfBlock
    PeerAgrees
PROPERTIES
    CoreOnlyGrows
