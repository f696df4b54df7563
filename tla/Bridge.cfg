\* One orchestrator relaying one batch of each of two tokens and claiming
\* their executions, on an EVM chain that may also mine one block without
\* bridge events.
CONSTANTS
    Relayers = {r1}
    Tokens = {t1, t2}
    MaxNonce = 1
    EmptyBlocks = 1
SPECIFICATION Spec
INVARIANT TypeOK
PROPERTY BatchesRelayed
