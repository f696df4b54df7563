\* ValsetUpdatedEvent numbered with an event nonce, as the spec data model says.
CONSTANTS
    NetVersion = 2018
    GenesisHead = 0
    MaxBlock = 4
    MaxEvents = 3
    MaxPerBlock = 2
    NoncedKinds = {"deposit", "valset"}
    LateCommit = FALSE
    MaxCrashes = 1
SPECIFICATION Spec
INVARIANT CheckpointSound
