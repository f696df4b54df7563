\* Two relayers racing on two valsets: the contract follows ValsetRotation, safety and progress.
CONSTANTS
    Relayers = {r1, r2}
    MaxValset = 2
    MaxDrops = 0
SPECIFICATION Spec
INVARIANT TypeOK
PROPERTY ImplementsRotation
\* Once the newest valset is installed, every relay cycle finds nothing to do.
CHECK_DEADLOCK FALSE
