---------------------------- MODULE BatchRelayer ----------------------------
(***************************************************************************)
(* The batch relayer (relay_batches in relayer/src/batch_relaying.rs),     *)
(* run by several orchestrators at once, against                          *)
(*   - the native chain's bridge module: it builds withdrawal batches per  *)
(*     token with increasing nonces, collects validator confirmations, and *)
(*     deletes a token's batches up to the executed nonce once the         *)
(*     TransactionBatchExecuted event has been claimed;                    *)
(*   - the Peggy contract: submitBatch executes a batch only if its nonce  *)
(*     is above the token's last executed batch nonce and its signatures   *)
(*     reach the threshold of the current validator set; otherwise the tx  *)
(*     reverts.                                                            *)
(* "Signed under v" stands for v.order_sigs succeeding on the             *)
(* confirmations of the batch. The contract's validator set is rotated by *)
(* the valset relayer loop, which runs concurrently with this one; the     *)
(* caller reads the contract's valset (current_valset, line 21) before     *)
(* each cycle, and the cycle uses it for order_sigs, the estimate and the  *)
(* tx. A failed RPC at a point where relay_batches simply returns changes  *)
(* nothing and is a stuttering step.                                       *)
(***************************************************************************)
EXTENDS Naturals, FiniteSets, Sequences, SequencesExt

CONSTANTS
    Relayers,        \* orchestrators running relay_batches
    Tokens,          \* ERC20 contracts with batches
    MaxNonce,        \* bound on the batch nonce of each token
    MaxValset,       \* bound on the contract's valset nonce (rotations)
    MaxDrops         \* bound on sent txs the EVM chain never mines

NoBatch == [token |-> "none", nonce |-> 0]
Batches == [token : Tokens, nonce : 1..MaxNonce]
Valsets == 1..MaxValset
(* A submitBatch tx: the batch and the valset it presents to the contract. *)
Txs == [batch : Batches, valset : Valsets]

VARIABLES
    nextNonce,       \* native: last batch nonce built, per token
    batches,         \* native: batches returned by the latest-batches query
    signed,          \* native: per valset, batches whose confirmations
                     \* reach that valset's threshold
    valset,          \* contract: nonce of the current validator set
    lastBatchNonce,  \* contract: state_lastBatchNonces per token
    evmPending,      \* EVM: submitBatch txs sent and not yet mined
    pc,              \* per relayer: where relay_batches is
    chosen,          \* per relayer: oldest_signed_batch
    cvalset,         \* per relayer: current_valset of the running cycle
    submittable,     \* per relayer: batches that passed order_sigs this cycle
    drops            \* EVM: txs dropped from the mempool so far

vars == <<nextNonce, batches, signed, valset, lastBatchNonce, evmPending, pc,
          chosen, cvalset, submittable, drops>>

-----------------------------------------------------------------------------
(***************************************************************************)
(* Native chain                                                            *)
(***************************************************************************)
BuildBatch(t) ==
    /\ nextNonce[t] < MaxNonce
    /\ nextNonce' = [nextNonce EXCEPT ![t] = @ + 1]
    /\ batches' = batches \cup {[token |-> t, nonce |-> nextNonce[t] + 1]}
    /\ UNCHANGED <<signed, valset, lastBatchNonce, evmPending, pc, chosen,
                   cvalset, submittable, drops>>

(* The batch's confirmations reach the threshold of valset v. *)
ConfirmBatch(b, v) ==
    /\ b \in batches \ signed[v]
    /\ signed' = [signed EXCEPT ![v] = @ \cup {b}]
    /\ UNCHANGED <<nextNonce, batches, valset, lastBatchNonce, evmPending, pc,
                   chosen, cvalset, submittable, drops>>

(* The executed event for token t has been attested: the executed batch  *)
(* and every older one of the token leave the latest-batches list.       *)
PruneExecuted(t) ==
    /\ \E b \in batches : b.token = t /\ b.nonce <= lastBatchNonce[t]
    /\ batches' = {b \in batches : b.token /= t \/ b.nonce > lastBatchNonce[t]}
    /\ UNCHANGED <<nextNonce, signed, valset, lastBatchNonce, evmPending, pc,
                   chosen, cvalset, submittable, drops>>

(***************************************************************************)
(* Peggy contract                                                          *)
(***************************************************************************)
(* updateValset, sent by the valset relayer loop (ValsetRelayer models it *)
(* and ValsetRotation abstracts it): the contract moves to a newer valset. *)
RotateValset ==
    /\ valset < MaxValset
    /\ valset' = valset + 1
    /\ UNCHANGED <<nextNonce, batches, signed, lastBatchNonce, evmPending, pc,
                   chosen, cvalset, submittable, drops>>

(* submitBatch executes when the valset the tx presents is the one whose  *)
(* checkpoint the contract stores, the batch's signatures reach that       *)
(* valset's threshold, and its nonce is above the token's last batch nonce. *)
SubmitBatchSucceeds(tx) ==
    /\ tx.valset = valset
    /\ tx.batch \in signed[valset]
    /\ tx.batch.nonce > lastBatchNonce[tx.batch.token]

(* Mutant: the contract records one past the executed nonce. *)
MineSubmitBatchOffByOne(tx) ==
    /\ tx \in evmPending
    /\ evmPending' = evmPending \ {tx}
    /\ IF SubmitBatchSucceeds(tx)
       THEN lastBatchNonce' =
              [lastBatchNonce EXCEPT ![tx.batch.token] = tx.batch.nonce + 1]
       ELSE UNCHANGED lastBatchNonce
    /\ UNCHANGED <<nextNonce, batches, signed, valset, pc, chosen, cvalset,
                   submittable, drops>>

(* The EVM chain drops a sent tx (evicted from the mempool): it is never *)
(* mined, and send_eth_transaction_batch's wait times out.               *)
DropSubmitBatch(tx) ==
    /\ tx \in evmPending
    /\ drops < MaxDrops
    /\ evmPending' = evmPending \ {tx}
    /\ drops' = drops + 1
    /\ UNCHANGED <<nextNonce, batches, signed, valset, lastBatchNonce, pc,
                   chosen, cvalset, submittable>>

(* A mined submitBatch tx executes or reverts. *)
MineSubmitBatch(tx) ==
    /\ tx \in evmPending
    /\ evmPending' = evmPending \ {tx}
    /\ IF SubmitBatchSucceeds(tx)
       THEN lastBatchNonce' =
              [lastBatchNonce EXCEPT ![tx.batch.token] = tx.batch.nonce]
       ELSE UNCHANGED lastBatchNonce
    /\ UNCHANGED <<nextNonce, batches, signed, valset, pc, chosen, cvalset,
                   submittable, drops>>

-----------------------------------------------------------------------------
(***************************************************************************)
(* relay_batches                                                           *)
(***************************************************************************)

(* Mutant: current_valset is read once, before the first cycle, and kept. *)
SelectBatchStaleValset(r) ==
    /\ pc[r] = "idle"
    /\ \E list \in SetToSeqs(batches), fetched \in SUBSET batches :
         LET ok == {i \in 1..Len(list) :
                      list[i] \in signed[cvalset[r]] \cap fetched}
         IN /\ ok /= {}
            /\ chosen' = [chosen EXCEPT ![r] = list[Max(ok)]]
            /\ submittable' = [submittable EXCEPT ![r] = {list[i] : i \in ok}]
    /\ pc' = [pc EXCEPT ![r] = "selected"]
    /\ UNCHANGED <<nextNonce, batches, signed, valset, lastBatchNonce,
                   evmPending, cvalset, drops>>

(* Mutant: the order_sigs check of line 46 is dropped; any batch whose *)
(* confirmations were fetched is a candidate.                            *)
SelectBatchUnchecked(r) ==
    /\ pc[r] = "idle"
    /\ cvalset' = [cvalset EXCEPT ![r] = valset]
    /\ \E list \in SetToSeqs(batches), fetched \in SUBSET batches :
         LET ok == {i \in 1..Len(list) : list[i] \in fetched}
         IN /\ ok /= {}
            /\ chosen' = [chosen EXCEPT ![r] = list[Max(ok)]]
            /\ submittable' = [submittable EXCEPT ![r] = {list[i] : i \in ok}]
    /\ pc' = [pc EXCEPT ![r] = "selected"]
    /\ UNCHANGED <<nextNonce, batches, signed, valset, lastBatchNonce,
                   evmPending, drops>>

(* Lines 19-72: the cycle runs with the contract's valset as the caller   *)
(* read it (current_valset). Query the latest batches (in the order the  *)
(* query gives them), fetch each batch's confirmations (a fetch may fail: *)
(* the batch is skipped, line 60) and keep the batches order_sigs against *)
(* current_valset accepts. Every accepted batch overwrites                *)
(* oldest_signed_batch (line 47), so the last accepted one in query order *)
(* is chosen. With none, the cycle returns.                               *)
SelectBatch(r) ==
    /\ pc[r] = "idle"
    /\ cvalset' = [cvalset EXCEPT ![r] = valset]
    /\ \E list \in SetToSeqs(batches), fetched \in SUBSET batches :
         LET ok == {i \in 1..Len(list) : list[i] \in signed[valset] \cap fetched}
         IN /\ ok /= {}
            /\ chosen' = [chosen EXCEPT ![r] = list[Max(ok)]]
            /\ submittable' = [submittable EXCEPT ![r] = {list[i] : i \in ok}]
    /\ pc' = [pc EXCEPT ![r] = "selected"]
    /\ UNCHANGED <<nextNonce, batches, signed, valset, lastBatchNonce,
                   evmPending, drops>>

(* The submitBatch tx of the running cycle: the chosen batch with        *)
(* current_valset (lines 93 and 125).                                     *)
CycleTx(r) == [batch |-> chosen[r], valset |-> cvalset[r]]

(* Lines 75-91: read the token's last batch nonce from the contract;   *)
(* relay only a batch above it.                                          *)
ReadEthBatchNonce(r) ==
    /\ pc[r] = "selected"
    /\ pc' = [pc EXCEPT ![r] =
                IF chosen[r].nonce > lastBatchNonce[chosen[r].token]
                THEN "checked" ELSE "idle"]
    /\ UNCHANGED <<nextNonce, batches, signed, valset, lastBatchNonce,
                   evmPending, chosen, cvalset, submittable, drops>>

(* Lines 92-106: eth_estimate_gas simulates submitBatch on the current  *)
(* contract state and fails if it would revert.                          *)
EstimateCost(r) ==
    /\ pc[r] = "checked"
    /\ pc' = [pc EXCEPT ![r] =
                IF SubmitBatchSucceeds(CycleTx(r)) THEN "estimated" ELSE "idle"]
    /\ UNCHANGED <<nextNonce, batches, signed, valset, lastBatchNonce,
                   evmPending, chosen, cvalset, submittable, drops>>

(* Lines 107-134: log the estimate, send submitBatch and wait for its    *)
(* receipt.                                                               *)
SendBatch(r) ==
    /\ pc[r] = "estimated"
    /\ evmPending' = evmPending \cup {CycleTx(r)}
    /\ pc' = [pc EXCEPT ![r] = "waiting"]
    /\ UNCHANGED <<nextNonce, batches, signed, valset, lastBatchNonce, chosen,
                   cvalset, submittable, drops>>

(* Lines 135-141: the receipt arrives or the wait times out; either way  *)
(* the result is only logged.                                            *)
WaitReturns(r) ==
    /\ pc[r] = "waiting"
    /\ pc' = [pc EXCEPT ![r] = "idle"]
    /\ UNCHANGED <<nextNonce, batches, signed, valset, lastBatchNonce,
                   evmPending, chosen, cvalset, submittable, drops>>

(* Lines 82-88, 102-105, 124-134: the contract read, the estimate or   *)
(* the send fails; relay_batches returns.                                 *)
RpcFailed(r) ==
    /\ pc[r] \in {"selected", "checked", "estimated"}
    /\ pc' = [pc EXCEPT ![r] = "idle"]
    /\ UNCHANGED <<nextNonce, batches, signed, valset, lastBatchNonce,
                   evmPending, chosen, cvalset, submittable, drops>>

-----------------------------------------------------------------------------
Init ==
    /\ nextNonce = [t \in Tokens |-> 0]
    /\ batches = {}
    /\ signed = [v \in Valsets |-> {}]
    /\ valset = 1
    /\ lastBatchNonce = [t \in Tokens |-> 0]
    /\ evmPending = {}
    /\ pc = [r \in Relayers |-> "idle"]
    /\ chosen = [r \in Relayers |-> NoBatch]
    /\ cvalset = [r \in Relayers |-> 1]
    /\ submittable = [r \in Relayers |-> {}]
    /\ drops = 0

Next ==
    \/ \E t \in Tokens : BuildBatch(t) \/ PruneExecuted(t)
    \/ \E b \in Batches, v \in Valsets : ConfirmBatch(b, v)
    \/ \E tx \in Txs : MineSubmitBatch(tx) \/ DropSubmitBatch(tx)
    \/ RotateValset
    \/ \E r \in Relayers :
         \/ SelectBatch(r) \/ ReadEthBatchNonce(r) \/ EstimateCost(r)
         \/ SendBatch(r) \/ WaitReturns(r) \/ RpcFailed(r)

(* Every relayer loops forever and its RPCs eventually answer; the EVM   *)
(* chain mines sent txs; the native chain's claim loop eventually prunes *)
(* executed batches. Rotations, confirmations and drops are not assumed.  *)
Fairness ==
    /\ \A r \in Relayers :
         /\ SF_vars(SelectBatch(r)) /\ SF_vars(ReadEthBatchNonce(r))
         /\ SF_vars(EstimateCost(r)) /\ SF_vars(SendBatch(r))
         /\ WF_vars(WaitReturns(r))
    /\ \A tx \in Txs : WF_vars(MineSubmitBatch(tx))
    /\ \A t \in Tokens : WF_vars(PruneExecuted(t))

Spec == Init /\ [][Next]_vars /\ Fairness

-----------------------------------------------------------------------------
TypeOK ==
    /\ nextNonce \in [Tokens -> 0..MaxNonce]
    /\ batches \subseteq Batches /\ signed \in [Valsets -> SUBSET Batches]
    /\ valset \in Valsets
    /\ lastBatchNonce \in [Tokens -> 0..MaxNonce]
    /\ evmPending \subseteq Txs
    /\ pc \in [Relayers -> {"idle", "selected", "checked", "estimated",
                            "waiting"}]
    /\ chosen \in [Relayers -> Batches \cup {NoBatch}]
    /\ cvalset \in [Relayers -> Valsets]
    /\ submittable \in [Relayers -> SUBSET Batches]
    /\ drops \in 0..MaxDrops

(* Every batch that ends up signed under the contract's valset for good  *)
(* is eventually executed or superseded on Ethereum: the token's last     *)
(* batch nonce reaches its nonce. One relay_batches cycle relays a single *)
(* batch of a single token, so every token must get its turn despite the  *)
(* others; and a cycle that started before a rotation selects, estimates  *)
(* and sends with the replaced valset, so the next cycle must see the new *)
(* one.                                                                    *)
EventuallyRelayed ==
    \A b \in Batches :
        <>[](b \in signed[valset]) => <>(lastBatchNonce[b.token] >= b.nonce)

(* Spec 4.6 and property 6: of the submittable batches of a token, the   *)
(* relayer picks the oldest, since batches of a token execute in nonce    *)
(* order and a newer one makes the older ones obsolete.                   *)
SelectsOldest ==
    \A r \in Relayers : pc[r] /= "idle" =>
        \A b \in submittable[r] :
            b.token = chosen[r].token => chosen[r].nonce <= b.nonce
=============================================================================
