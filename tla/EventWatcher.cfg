\* Claims decided before send_ethereum_claims returns; net id 2018 (no delay).
CONSTANTS
    NetVersion = 2018
    GenesisHead = 0
    MaxBlock = 4
    MaxEvents = 3
    MaxPerBlock = 2
    NoncedKinds = {"deposit", "batch"}
    LateCommit = FALSE
    MaxCrashes = 1
SPECIFICATION Spec
INVARIANTS TypeOK CheckpointSound
PROPERTIES EventuallyAllClaimed
