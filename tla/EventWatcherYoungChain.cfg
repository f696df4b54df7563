\* A fresh development chain with a net id get_block_delay does not know.
CONSTANTS
    NetVersion = 1337
    GenesisHead = 0
    MaxBlock = 4
    MaxEvents = 3
    MaxPerBlock = 2
    NoncedKinds = {"deposit", "batch"}
    LateCommit = FALSE
    MaxCrashes = 1
SPECIFICATION Spec
PROPERTY NoUnderflow
