------------------------------- MODULE Bridge -------------------------------
(***************************************************************************)
(* The event watcher and the batch relayer of one orchestrator, composed   *)
(* through the two chains they share:                                      *)
(*   - a submitBatch tx that executes on the Peggy contract emits a        *)
(*     TransactionBatchExecutedEvent, the next bridge event of the EVM     *)
(*     chain;                                                              *)
(*   - the event watcher claims that event on the native chain, and the    *)
(*     bridge module, applying the claim, deletes the executed batch and   *)
(*     every older batch of its token from the latest-batches list that    *)
(*     relay_batches queries.                                              *)
(* BatchRelayer alone assumes that executed batches are eventually pruned; *)
(* here pruning happens only through the watcher's claims. The EVM chain   *)
(* is a finality chain (net id 2018, no block delay); besides the block   *)
(* of each executed batch it mines up to EmptyBlocks blocks without bridge *)
(* events, which move the head and so the watcher's checkpoint. The RPC    *)
(* failures of the two loops and the watcher's crashes are checked in the  *)
(* component modules; here every RPC answers, and the faults are the       *)
(* native chain dropping claims txs and the order of the batch query.      *)
(* The contract's valset does not rotate here (BatchRelayerRotation checks *)
(* rotations against relay_batches alone).                                 *)
(***************************************************************************)
EXTENDS Naturals, FiniteSets, Sequences, TLC

CONSTANTS
    Relayers,        \* relay_batches loops (one per orchestrator)
    Tokens,          \* ERC20 contracts with batches
    MaxNonce,        \* bound on the batch nonce of each token
    EmptyBlocks      \* bound on EVM blocks without bridge events

(* Each batch executes at most once, so this bounds the bridge events. *)
MaxExecutions == Cardinality(Tokens) * MaxNonce

VARIABLES
    head, events, lastEventNonce, mempool, wpc, startingBlock, latest,
    lastNonce, claims, crashes,
    nextNonce, batches, signed, lastBatchNonce, evmPending, bpc, chosen,
    submittable,
    batchOf          \* event nonce of each TransactionBatchExecutedEvent -> batch

wvars == <<head, events, lastEventNonce, mempool, wpc, startingBlock, latest,
           lastNonce, claims, crashes>>
bvars == <<nextNonce, batches, signed, lastBatchNonce, evmPending, bpc, chosen,
           submittable>>
vars == <<wvars, bvars, batchOf>>

W == INSTANCE EventWatcher
       WITH pc <- wpc, NetVersion <- 2018, GenesisHead <- 0,
            MaxBlock <- MaxExecutions + EmptyBlocks, MaxEvents <- MaxExecutions,
            MaxPerBlock <- 1, NoncedKinds <- {"batch"}, LateCommit <- FALSE,
            MaxCrashes <- 0

B == INSTANCE BatchRelayer
       WITH pc <- bpc, MaxValset <- 1, valset <- 1,
            cvalset <- [r \in Relayers |-> 1], MaxDrops <- 0, drops <- 0

(* A step of the watcher or of the native chain's claim handling alone. *)
WatcherStep(A) == A /\ UNCHANGED <<bvars, batchOf>>

(* A step of relay_batches or of the native chain's batch handling alone. *)
RelayerStep(A) == A /\ UNCHANGED <<wvars, batchOf>>

-----------------------------------------------------------------------------
(* A submitBatch tx is mined; when it executes, its block carries the      *)
(* TransactionBatchExecutedEvent with the contract's next event nonce.     *)
ExecuteBatch(tx) ==
    /\ B!MineSubmitBatch(tx)
    /\ IF B!SubmitBatchSucceeds(tx)
       THEN /\ W!MineBlock
            /\ events' = events \cup
                 {[nonce |-> W!evmNonce + 1, kind |-> "batch", block |-> head + 1]}
            /\ batchOf' = Append(batchOf, tx.batch)
       ELSE UNCHANGED <<wvars, batchOf>>

(* A block without bridge events; a block stays free for every execution *)
(* still to come.                                                          *)
MineEmptyBlock ==
    /\ head + (MaxExecutions - W!evmNonce) < MaxExecutions + EmptyBlocks
    /\ W!MineBlock
    /\ events' = events
    /\ UNCHANGED <<bvars, batchOf>>

(* Batches a claims tx reports executed: for each, the batch itself and   *)
(* every older batch of its token.                                         *)
Superseded(tx) ==
    {b \in B!Batches : \E i \in 1..Len(tx) :
        /\ batchOf[tx[i].nonce].token = b.token
        /\ batchOf[tx[i].nonce].nonce >= b.nonce}

(* The bridge module applies a claims tx; the attested executions delete  *)
(* their batches from the latest-batches list.                             *)
ApplyClaims(tx) ==
    /\ W!CommitClaims(tx)
    /\ batches' = batches \ Superseded(tx)
    /\ UNCHANGED <<nextNonce, signed, lastBatchNonce, evmPending, bpc, chosen,
                   submittable, batchOf>>

-----------------------------------------------------------------------------
Init == W!Init /\ B!Init /\ batchOf = <<>>

(* A cycle of check_for_events in which every RPC answers. *)
WatcherCycle ==
    \/ W!StartCycle \/ W!ScanLogs \/ W!ReadLastEventNonce
    \/ W!SendClaims \/ W!SendReturns(TRUE) \/ W!CheckNonceAdvanced

(* A cycle of relay_batches in which every RPC answers. *)
RelayerCycle(r) ==
    \/ B!SelectBatch(r) \/ B!ReadEthBatchNonce(r) \/ B!EstimateCost(r)
    \/ B!SendBatch(r) \/ B!WaitReturns(r)

(* The native chain builds and confirms batches. *)
NativeBatches ==
    \/ \E t \in Tokens : B!BuildBatch(t)
    \/ \E b \in B!Batches : B!ConfirmBatch(b, 1)

Next ==
    \/ WatcherStep(WatcherCycle)
    \/ WatcherStep(\E tx \in mempool : W!DropClaims(tx))
    \/ \E r \in Relayers : RelayerStep(RelayerCycle(r))
    \/ RelayerStep(NativeBatches)
    \/ \E tx \in B!Txs : ExecuteBatch(tx)
    \/ MineEmptyBlock
    \/ \E tx \in mempool : ApplyClaims(tx)

(* Both loops run forever, the native chain keeps executing txs (an      *)
(* applicable claims tx is not dropped forever) and the EVM chain mines    *)
(* sent txs. The native chain's pruning is not assumed: it is ApplyClaims. *)
Fairness ==
    /\ WF_vars(WatcherStep(WatcherCycle))
    /\ \A r \in Relayers : WF_vars(RelayerStep(RelayerCycle(r)))
    /\ SF_vars(\E tx \in mempool : ApplyClaims(tx))
    /\ WF_vars(WatcherStep(\E tx \in mempool : W!DropClaims(tx)))
    /\ \A tx \in B!Txs : WF_vars(ExecuteBatch(tx))

Spec == Init /\ [][Next]_vars /\ Fairness

-----------------------------------------------------------------------------
TypeOK ==
    /\ W!TypeOK /\ B!TypeOK
    /\ batchOf \in Seq(B!Batches) /\ Len(batchOf) = W!evmNonce

(* Every signed batch is eventually executed or superseded on Ethereum,   *)
(* with no assumption on the native chain pruning executed batches: that  *)
(* pruning waits for the event watcher to claim the executed event, and   *)
(* until then relay_batches may keep choosing the executed batch and send *)
(* nothing for the other tokens.                                          *)
BatchesRelayed ==
    \A b \in B!Batches :
        [](b \in signed[1] => <>(lastBatchNonce[b.token] >= b.nonce))
=============================================================================
