\* Main net (net id 1): 6 blocks behind the head; the chain starts at height 4.
CONSTANTS
    NetVersion = 1
    GenesisHead = 4
    MaxBlock = 15
    MaxEvents = 2
    MaxPerBlock = 2
    NoncedKinds = {"deposit", "batch"}
    LateCommit = FALSE
    MaxCrashes = 0
SPECIFICATION Spec
INVARIANT CheckpointSound
PROPERTIES EventuallyAllClaimed
