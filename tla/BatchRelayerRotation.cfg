\* One relayer, two tokens, one batch per token, and one valset rotation
\* racing the relayers' cycles.
CONSTANTS
    Relayers = {r1}
    Tokens = {t1, t2}
    MaxNonce = 1
    MaxValset = 2
    MaxDrops = 0
SPECIFICATION Spec
PROPERTY EventuallyRelayed
\* Once every batch is relayed and pruned, relay_batches returns at once each cycle.
CHECK_DEADLOCK FALSE
