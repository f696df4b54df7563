\* One relayer, one token with two batches: which batch is relayed first.
CONSTANTS
    Relayers = {r1}
    Tokens = {t1}
    MaxNonce = 2
    MaxValset = 1
    MaxDrops = 0
SPECIFICATION Spec
INVARIANT SelectsOldest
