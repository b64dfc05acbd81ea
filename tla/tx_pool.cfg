\* Two producers with five transactions, a pool of two.
CONSTANTS
    p1 = p1
    p2 = p2
    h1 = h1
    t1 = t1
    t2 = t2
    t3 = t3
    t4 = t4
    t5 = t5
    Producers = {p1, p2}
    Holders = {h1}
    Nobody = Nobody
    Txs = {t1, t2, t3, t4, t5}
    Scripts <- MixedScripts
    Capacity = 2
    MaxPack = 2
SPECIFICATION FairSpec
INVARIANTS
    SleepersMeanFull
    NothingLostOrDoubled
    BatchOrder
PROPERTY EventuallyPacked
