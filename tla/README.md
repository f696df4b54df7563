# TLA+ models of the gravity-bridge orchestrator

These modules model the orchestrator/relayer of the bridge between a
proof-of-stake chain (the "native chain") and an EVM chain. The sources are in
`src/orchestrator/`, and `spec.md` describes the system. Each module models one
component of the orchestrator. It also models the parts of the two chains that
the component reads and writes. The chains are external collaborators: they are
modelled from the spec, and PROJECT.json marks those definitions
`spec_modelled`.

## Inventory

| Component | Source | State | Operations |
|---|---|---|---|
| Event watcher | `orchestrator/src/ethereum_event_watcher.rs` `check_for_events` | the loop's checkpoint `starting_block`; cycle locals `latest_block`, `last_event_nonce` | read head and net id, five log queries, decode, read the last event nonce, filter, send claims, re-read the nonce |
| Block delay | same file, `get_block_delay` | none | net id to confirmations (6 or 0) |
| Batch relayer | `relayer/src/batch_relaying.rs` `relay_batches` | cycle locals `oldest_signed_batch`, signatures | query batches, fetch confirmations, `order_sigs`, read the contract batch nonce, estimate gas, send, wait |
| Valset sender | `ethereum_peggy/src/valset_update.rs` `send_eth_valset_update`, `encode_valset_payload` | none beyond the call | read the contract valset nonce, encode and send `updateValset`, wait, re-read |
| Valset cost estimate | same file, `estimate_valset_cost` | none | read balance, tx count and gas price; `eth_estimate_gas` on the encoded `updateValset` |
| JSON logger | `json_logger/src/lib.rs` | a log file handle | formatting and writing records |
| Not in the sources | signature aggregator (`order_sigs`), event decoder, chain adapters, the valset relayer loop, the native bridge module, the Peggy contract | | |

**How the parts interact.** The three loops (event watcher, valset relayer and
batch relayer) run concurrently and share no memory. They meet only through
chain state:

- The watcher reads EVM logs and writes claims to the native chain. The native
  chain applies claims only in strict event-nonce order.
- The relayers read native-chain batches, valsets and confirmations, and write
  `submitBatch` and `updateValset` to the contract. The contract enforces the
  per-token batch nonce and the valset checkpoint.
- An executed batch leaves the native chain's batch list only after the
  watcher's claim of `TransactionBatchExecuted` is applied. The batch relayer
  therefore depends on the watcher.

**What is hard.**

- Every RPC is a suspension point. The other chain, or another relayer, can
  change state between any two of them.
- Transactions are decided asynchronously:
  - A claims tx can be committed after the send that broadcast it has
    returned, or has failed.
  - An EVM tx can be mined after its `wait_for_transaction` timed out.
- The process can die at any point and is restarted by a supervisor. No local
  state is persisted.
- Several orchestrators race to relay the same artifacts.

**What makes each component correct.**

- *Watcher:* the checkpoint never passes an event that was not applied, and
  every event is eventually applied.
- *Batch relayer:* it relays the oldest signed batch of a token, and every
  signed batch is eventually executed or superseded.
- *Valset relayer:* the contract's valset moves only forward, each time to a
  confirmed set, and every confirmed valset is eventually installed or
  superseded.

## Modules

### `EventWatcher.tla`

This module models `check_for_events` and the loop that calls it, together with
the EVM chain and the native chain's claim handling.

**State.**

| Variable | What it holds |
|---|---|
| `head`, `events` | the EVM chain: its height, and the mined bridge events with nonce, kind and block |
| `lastEventNonce`, `mempool` | the native chain: this validator's last applied event nonce, and the claims txs not yet decided |
| `pc` | where the cycle is; `down` while the process is dead |
| `startingBlock` | the loop's checkpoint |
| `latest`, `lastNonce`, `claims` | the cycle's local values |
| `crashes` | crashes so far, bounded by `MaxCrashes` |

**Actions.** Each action covers one stretch of code between awaits.

| Action | Lines | What it does |
|---|---|---|
| `StartCycle` | 34-36 | reads the head and applies the block delay |
| `BlockDelayUnderflow` | 36 | the panic when the head is below the delay |
| `ScanLogs` / `LogQueryFailed` | 38-104, 205-210 | the five log queries and decoding succeed, or one fails |
| `ReadLastEventNonce` | 111-177 | reads the nonce and filters; with nothing to claim the cycle returns Ok |
| `NonceQueryFailed` | 111, 189 | a nonce query fails |
| `SendClaims` / `SendReturns` | 178-188 | broadcasts the claims tx, then the send returns Ok or Err |
| `CheckNonceAdvanced` | 189-204 | re-reads the nonce and returns `InvalidBridgeState` or Ok |
| `Crash` / `Restart` | supervisor | the process dies, and restarts with the checkpoint re-derived from the block of the last applied event (spec §6) |

On the chain side:

- `MineBlock` adds a block with 0 to `MaxPerBlock` events carrying the next
  event nonces.
- `CommitClaims` applies a tx whose nonces continue `lastEventNonce`. The tx is
  applied whole, as a Cosmos tx is.
- `DropClaims` drops any tx, for a nonce gap, fee or gas.

**Constants.**

- `LateCommit` says whether a claims tx may be decided after its send returned,
  or after the process died. The spec describes the native chain's mempool as
  asynchronous, so TRUE is the realistic setting. FALSE models broadcasting in
  block mode.
- `NoncedKinds` lists the event kinds that the contract numbers.

### `BatchRelayer.tla`

This module models `relay_batches` run by `Relayers`, against the native
chain and the Peggy contract.

**State.**

| Variable | Side | What it holds |
|---|---|---|
| `nextNonce` | native chain | the last batch nonce built, per token |
| `batches` | native chain | the batches the latest-batches query returns |
| `signed` | native chain | per valset `v`, the batches whose confirmations pass `v.order_sigs` |
| `valset` | contract | the nonce of the valset whose checkpoint the contract stores |
| `lastBatchNonce` | contract | the last executed batch nonce, per token |
| `evmPending` | EVM chain | sent `submitBatch` txs (batch and presented valset) not yet mined |
| `pc`, `chosen`, `submittable` | each relayer | where the cycle is, the batch it chose, and the batches that passed `order_sigs` this cycle |
| `cvalset` | each relayer | `current_valset`, the contract valset the caller read before the cycle |

**Actions.**

- `SelectBatch` covers lines 19-72. It records the contract's valset as the
  cycle's `current_valset` and runs `order_sigs` against it.
  - It picks any order the query may return the batches in.
  - It picks which confirmation fetches fail.
  - It chooses the *last* accepted batch in that order, as the overwrite at
    line 47 does.
- `ReadEthBatchNonce` (73-91), `EstimateCost` (92-106), `SendBatch` (107-134),
  `WaitReturns` (135-142) and `RpcFailed` model the rest of the cycle.
- `CycleTx` is the tx of the cycle: the chosen batch with `current_valset`,
  which both the estimate (line 93) and the send (line 125) present.
- Failures at which the function simply returns change no state. They are
  stuttering steps.

**Environment.** `BuildBatch`, `ConfirmBatch` and `PruneExecuted` model the
native chain. `PruneExecuted` is the attested `TransactionBatchExecuted` claim.
`MineSubmitBatch` models the contract. It executes a tx only if three
things hold (`SubmitBatchSucceeds`): the tx's valset is the stored one, the
batch is signed under it, and its nonce is new. `DropSubmitBatch` is a sent
tx that the EVM chain never mines, because it was evicted from the mempool.
It is bounded by `MaxDrops`. The wait then times out, and the cycle only
logs it. `RotateValset` is the contract's `updateValset`, sent by the valset
relayer loop, which runs independently of this one (spec §5). It is bounded
by `MaxValset` and not assumed fair. The caller of `relay_batches` is not in
the sources. Following spec §4.6, it is taken to
read the contract's valset at the start of each cycle.

### `ValsetRotation.tla` (abstract)

The abstract specification has three variables: the newest valset, the
confirmed valsets and the contract's valset. Its only contract step is
`Rotate(n)`, which moves forward to a confirmed `n`. `ASpec` makes `Rotate`
weakly fair: while a confirmed valset newer than the contract's exists, the
contract eventually moves forward. That half is what the relayers are for.

### `ValsetRelayer.tla`

This module models the relayer loop's candidate choice and
`send_eth_valset_update`, with several relayers.

- `SelectValset` is modelled from spec §4.5, because that loop is not in the
  sources. It takes the newest confirmed valset above the contract's nonce.
- `EstimateValsetCost` (96-131) follows the choice. The loop that calls it is
  not in the sources; it is taken to call it before `send_eth_valset_update`,
  which is what it and `encode_valset_payload` are documented for.
  `eth_estimate_gas` simulates `updateValset` on the current contract state,
  so the estimate fails when the update would revert; a failed RPC is
  `RpcFailed`. Either Err ends the cycle.
- The rest follows the code:
  - `CheckBeforeNonce` (15-50): the assert and the early Ok.
  - `SendValsetUpdate` (52-69, with `encode_valset_payload`).
  - `WaitForTx` (70): the receipt of a mined tx.
  - `WaitTimedOut` (70): the wait's `timeout` passes and `?` returns Err.
    This happens whether the tx is mined late, pending or dropped.
  - `ReadLastNonce` (72-94): a mismatch is only logged.
  - `RpcFailed`: a `?` error of an RPC.
- `DropValsetUpdate` is a sent tx that is never mined, bounded by
  `MaxDrops`. It may have been evicted from the mempool, or replaced by a tx
  with the same account nonce: the batch loop sends with the same key, and
  web30 reads the account nonce just before sending. `lost` keeps such txs,
  so no receipt arrives for them.
- `MineValsetUpdate` models the contract's `updateValset`, which checks
  (`UpdateValsetSucceeds`, also what the estimate simulates):
  - the new nonce is greater than the supplied current nonce;
  - the supplied current set matches the stored checkpoint;
  - the signatures reach the threshold.
- `ImplementsRotation` instantiates `ValsetRotation` with
  `onchain <- valsetNonce` and checks its `ASpec` as a property of `Spec`,
  fairness included. The safety half holds by the contract's checks alone;
  the fairness half holds only if the relayers' code gets some update mined.
  Each relayer abandons a cycle when it sees the nonce move before it sends
  (lines 39-40), so with two relayers racing, progress rests on the one
  whose update landed. The mutant that inverts that check stops every
  relayer from sending, and TLC reports the refinement violated.

### `Bridge.tla` (composition)

This module composes `EventWatcher` (as `W`, with `pc <- wpc`) and
`BatchRelayer` (as `B`, with `pc <- bpc`, and the contract's valset fixed
at 1: rotations are checked by batch_rotation) through the two chains:

- `ExecuteBatch(tx)` is `B!MineSubmitBatch(tx)`. When the batch executes
  (`B!SubmitBatchSucceeds`), the same step is `W!MineBlock` with one
  `TransactionBatchExecutedEvent`, and `batchOf` records which batch that
  event nonce reports.
- `ApplyClaims(tx)` is `W!CommitClaims(tx)`. It also deletes from the
  latest-batches list each reported batch and the older batches of its token
  (`Superseded`). This replaces `B!PruneExecuted`, so pruning is no longer
  assumed: it happens only through the watcher.
- `MineEmptyBlock` mines up to `EmptyBlocks` blocks without bridge events. It
  always leaves a block free for each execution still to come.
- `WatcherCycle` and `RelayerCycle(r)` are the two loops' success paths. The
  native chain may still drop claims txs (`W!DropClaims`), and the batch query
  may return batches in any order.

The EVM chain is a finality chain here (net id 2018). RPC failures, crashes
are checked in the component runs. Here every RPC answers, which
keeps the composed liveness check within reach.

## Runs

| Run | cfg | Expect | Shows |
|---|---|---|---|
| ew_sync | EventWatcher.cfg | pass | With claims decided before the send returns, two kinds of failure are safe and eventually recover. See below. |
| ew_pow | EventWatcherPow.cfg | pass | The same with the 6-block delay of net id 1. The chain starts at height 4, so the first cycles panic and the process restarts. |
| ew_late_commit | EventWatcherLateCommit.cfg | violation | **Bug.** An earlier cycle's claims tx commits late, the nonce re-read looks advanced, and the checkpoint passes event 2, which is never applied. |
| ew_valset_nonce | EventWatcherValsetNonce.cfg | violation | If `ValsetUpdated` events consume event nonces (the spec's data model), the watcher never claims them and the checkpoint passes them. |
| ew_young_chain | EventWatcherYoungChain.cfg | violation | **Bug.** With net id 1337 and height 0, `latest_block - 6` underflows and panics. |
| batch_relay | BatchRelayer.cfg | pass | Every signed batch is eventually executed or superseded, even though each cycle relays one batch of one token and one sent tx may be lost. |
| batch_rotation | BatchRelayerRotation.cfg | pass | The valset rotates while cycles run with the valset read before them. A stale cycle's estimate fails, or its tx reverts against the new checkpoint, and the next cycle recovers. Every batch signed under the final valset is relayed. The mutant that keeps the first `current_valset` for good never relays. |
| batch_oldest | BatchRelayerOldest.cfg | violation | With two signed batches of one token, the relayer picks the newer one, against spec §4.6. |
| valset_rotation | ValsetRelayer.cfg | pass | Two racing relayers implement `ValsetRotation`: the contract moves only forward to confirmed valsets, and a newer confirmed valset is eventually installed. See below. |
| valset_live | ValsetRelayerLive.cfg | pass | Every confirmed valset is eventually installed or superseded, with the cost estimate before each send. Sent txs may be dropped. The wait's timeout ends the cycle and the next cycle resends. The mutant whose wait has no timeout hangs on a dropped tx for good. |
| bridge | Bridge.cfg | pass | Watcher and batch relayer composed: every signed batch is eventually executed, with pruning driven by the watcher's claims. The mutant that drops the watcher's `InvalidBridgeState` check makes the checkpoint skip t2's execution event. The executed t2 batch then stays listed, `relay_batches` keeps choosing it, and t1's batch is never relayed. |

In ew_sync:

- The two kinds of failure are failed RPCs and dropped txs. One crash also
  happens.
- The checkpoint never passes an unapplied event (`CheckpointSound`).
- Every event is eventually claimed (`EventuallyAllClaimed`).

In valset_rotation:

- Two relayers race on two valsets: both can pass the before-nonce check,
  and each abandons its cycle when it sees the other's update first.
- Waits time out and txs are mined late. Dropped txs are checked in
  valset_live (one relayer); with two relayers and a drop the run takes two
  minutes.
- Under all of this, the model refines `ValsetRotation` with its fairness:
  the contract only moves forward to confirmed valsets, and whenever a newer
  confirmed valset exists it eventually moves.

**Properties.**

- `CheckpointSound`: every event in a block below the checkpoint has been
  applied. It relates the watcher's checkpoint to the native chain's state.
  Breaking it takes several cycles and a late commit.
- `EventuallyAllClaimed`, `EventuallyRelayed` and `EventuallyInstalled`: the
  liveness property of each loop. `EventuallyRelayed` has the premise that
  the batch is signed under the contract's valset from some point on
  (`<>[]`): a rotation may leave a batch unsigned under the new valset, and
  a cycle that started before the rotation keeps using the old one.
- `BatchesRelayed`: the batch relayer's liveness in the composition. Its
  premise is the watcher's liveness rather than an assumed pruning step, so a
  watcher bug breaks it.
- `SelectsOldest`: of the batches that passed `order_sigs` in a cycle, the
  chosen one has the lowest nonce of its token.
- `NoUnderflow`: an action property. No step is the underflow panic.

Every property of a passing run has a mutant: a plausible bug in the mapped
code that makes TLC report the property violated. They are listed in
PROJECT.json, and the mutant operators sit just before the definitions they
replace.

## Bounds

**Event watcher.**

- 3 events, with up to 2 in one block. A block with 2 events exercises the
  overlapping re-scan, and 3 events allow a stale tx plus a newer event.
- 4 blocks, or 15 with the 6-block delay.
- One crash (`MaxCrashes`).
- Events are emitted only into blocks that still get their confirmations
  before `MaxBlock`. Without this, the bound alone would hide events from the
  watcher.

**Bridge.** One relayer, two tokens with one batch each, and one empty block.
This is the smallest instance in which an executed batch's event can fall
below the checkpoint while another token still waits. With three batches the
composed liveness check takes more than 15 minutes. That is why the late-commit bug of
ew_late_commit is not replayed here: its stall would need a third batch.

**Batch relayer.**

- Two relayers and two tokens with one batch each, and one dropped tx. The
  liveness question is whether one token can starve another, and whether a
  lost tx is resent.
- The ordering violation needs one token with two batches.
- batch_rotation has one relayer, two tokens and one rotation. One relayer
  is enough for a cycle to straddle a rotation. Two relayers take about
  10 minutes. A second rotation takes 31 s. It only adds snapshots two valsets
  behind, which fail the same checkpoint comparison.

**Valset relayer.** valset_rotation has two relayers and two valsets. That
is enough for a relayer to skip valset 1, for a late (0, 1) tx to arrive
after (0, 2) and revert, and for both relayers to race on one update. With
three valsets it takes 9.5 minutes, and with a dropped tx 2 minutes. The
liveness run valset_live uses three valsets, one relayer and two dropped txs:
the question there is whether a lost tx is resent.

## Fairness

**Loops and RPCs.**

- Every loop runs forever with a fixed sleep (spec §5).
- Every successful RPC step is strongly fair: RPCs eventually answer, but a
  failure can disable the step for a while.
- `Restart` is weakly fair, because the supervisor restarts the process.
- `WaitTimedOut` is weakly fair: `wait_for_transaction` is given a
  timeout, so a wait always ends. Dropped txs are bounded and not assumed.
- Crashes are bounded.

**Chains.**

- The EVM chain keeps mining (`MineBlock`, and pending txs are mined).
- The native chain eventually executes an applicable claims tx (strong
  fairness on `CommitClaims`).
- The native chain prunes executed batches (`PruneExecuted`, weak fairness).
- Confirmations (`ConfirmBatch`, `ConfirmValset`) are not fair: validators may
  never sign.

**Bridge.** Each loop's cycle is weakly fair: with every RPC answering, a
cycle step stays enabled until it is taken. `ApplyClaims` is strongly fair,
because `DropClaims` may disable it. Mined `submitBatch` txs are weakly fair.
Pruning has no fairness of its own.

**Deadlock.** The batch and valset runs disable deadlock checking. Once
everything is relayed, each cycle finds nothing to do, and that is a
stuttering step.

## Not modelled, and why

- **Not in the sources.** `order_sigs` and the confirm hashes, the log
  decoders, and the chain adapters are not in this repository. Their success is
  abstracted to `signed` / `confirmed`, and each call to them is an action that
  may fail.
- **Pure I/O.** The JSON logger opens a file and formats records. No decision
  depends on it.
- **EVM reorgs** are not modelled. Whether the block delay suffices depends
  only on how deep the net actually reorganises, which is an assumption about
  the chain. A model that bounds the depth by the delay only restates that
  comparison, so it would check nothing about this code.

## Plan

1. **Done.** The event watcher, the core direction, with crash/restart and
   the late-commit question.
2. **Done.** The batch relayer and the valset relayer, with the abstract
   rotation spec and a refinement.
3. **Not planned.** EVM reorgs (see above).
4. **Done.** `estimate_valset_cost` in the valset relayer.
5. **Done.** The composition `Bridge.tla`: the watcher's claims drive batch
   pruning, and batch liveness is checked against the real watcher.
6. **Done.** Valset rotations racing `relay_batches`: the stale
   `current_valset` (batch_rotation), and lost submitBatch txs.
7. **Not planned.** Valset events in the composition. If the contract
   numbers them, the composition only replays the ew_valset_nonce gap. If it
   does not (the event signature at line 63 has no nonce), they never reach
   the watcher, and batch_rotation already covers the rotation itself.
8. **Done.** Lost updateValset txs, including the same-account-nonce
   collision with the batch loop, and the wait's timeout as the recovery.
9. **Not reachable.** Larger composed instances: three batches, or two
   relayers. Both take more than 10 minutes. They would become reachable if
   the watcher's cycle-local state could be reduced.

`order_sigs` is not planned. It lives outside this repository, so a model of
it would restate spec §4.3 on both sides of the comparison. Batch timeouts are
not planned either, because neither the sources nor the spec describe them.
