\* One relayer, three valsets, two sent updateValset txs that are never mined.
CONSTANTS
    Relayers = {r1}
    MaxValset = 3
    MaxDrops = 2
SPECIFICATION Spec
PROPERTY EventuallyInstalled
\* Once the newest valset is installed, every relay cycle finds nothing to do.
CHECK_DEADLOCK FALSE
