\* Two relayers, two tokens, one batch per token; one sent tx may be dropped.
CONSTANTS
    Relayers = {r1, r2}
    Tokens = {t1, t2}
    MaxNonce = 1
    MaxValset = 1
    MaxDrops = 1
SPECIFICATION Spec
INVARIANT TypeOK
PROPERTY EventuallyRelayed
\* Once every batch is relayed and pruned, relay_batches returns at once each cycle.
CHECK_DEADLOCK FALSE
