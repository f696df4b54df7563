\* A claims tx may be executed after the cycle that sent it returned.
CONSTANTS
    NetVersion = 2018
    GenesisHead = 0
    MaxBlock = 4
    MaxEvents = 3
    MaxPerBlock = 2
    NoncedKinds = {"deposit", "batch"}
    LateCommit = TRUE
    MaxCrashes = 1
SPECIFICATION Spec
INVARIANT CheckpointSound
