SPECIFICATION FairSpec
CONSTANTS
    Lease = {l1, l2, l3}
    Incarnation = {i1, i2}
    Waiter = {w1, w2}
    NoIncarnation = NoIncarnation
INVARIANTS
    NoCommitDuringInstall
    DrainChannelExact
    DrainMeansEnded
PROPERTY
    DrainCompletes
