---------------------------- MODULE ValsetRelayer ---------------------------
(***************************************************************************)
(* The validator-set relayer: the relayer loop that picks a candidate      *)
(* valset (spec section 4.5, steps 1-2; that loop is not in this           *)
(* repository's sources) and send_eth_valset_update in                     *)
(* ethereum_peggy/src/valset_update.rs, run by several orchestrators at    *)
(* once, against the native chain (valsets and their confirmations) and    *)
(* the Peggy contract's updateValset. A valset is named by its nonce;      *)
(* "confirmed" stands for order_sigs of the contract's current valset      *)
(* succeeding on the new valset's confirmations. Shown to implement the    *)
(* abstract ValsetRotation.                                                *)
(***************************************************************************)
EXTENDS Naturals, FiniteSets, FiniteSetsExt

CONSTANTS
    Relayers,        \* orchestrators relaying valsets
    MaxValset,       \* bound on the valset nonce
    MaxDrops         \* bound on sent txs the EVM chain never mines

NoValset == 0
Nonces == 1..MaxValset
Updates == [old : 0..MaxValset, new : Nonces]

VARIABLES
    latestValset,    \* native: nonce of the newest valset
    confirmed,       \* native: valsets whose confirmations reach threshold
    valsetNonce,     \* contract: nonce of state_lastValsetCheckpoint
    evmPending,      \* EVM: updateValset txs sent and not yet mined
    pc,              \* per relayer: where the relay cycle is
    oldNonce,        \* per relayer: old_valset.nonce
    newNonce,        \* per relayer: new_valset.nonce
    lost,            \* EVM: sent txs dropped from the mempool
    drops            \* EVM: txs dropped so far

vars == <<latestValset, confirmed, valsetNonce, evmPending, pc, oldNonce,
          newNonce, lost, drops>>

-----------------------------------------------------------------------------
(* Native chain *)
CreateValset ==
    /\ latestValset < MaxValset
    /\ latestValset' = latestValset + 1
    /\ UNCHANGED <<confirmed, valsetNonce, evmPending, pc, oldNonce, newNonce,
                   lost, drops>>

ConfirmValset(n) ==
    /\ n \in 1..latestValset \ confirmed
    /\ confirmed' = confirmed \cup {n}
    /\ UNCHANGED <<latestValset, valsetNonce, evmPending, pc, oldNonce,
                   newNonce, lost, drops>>

(* Peggy contract updateValset: the new nonce is above the supplied       *)
(* current one, the supplied current set matches the stored checkpoint,   *)
(* and the signatures reach the threshold; otherwise it reverts.          *)
UpdateValsetSucceeds(u) ==
    u.new > u.old /\ u.old = valsetNonce /\ u.new \in confirmed

(* The EVM chain drops a sent tx: evicted from the mempool, or replaced   *)
(* by another tx of the same account nonce (the batch loop sends with the *)
(* same key). It is never mined.                                          *)
DropValsetUpdate(u) ==
    /\ u \in evmPending
    /\ drops < MaxDrops
    /\ evmPending' = evmPending \ {u}
    /\ lost' = lost \cup {u}
    /\ drops' = drops + 1
    /\ UNCHANGED <<latestValset, confirmed, valsetNonce, pc, oldNonce,
                   newNonce>>

MineValsetUpdate(u) ==
    /\ u \in evmPending
    /\ evmPending' = evmPending \ {u}
    /\ IF UpdateValsetSucceeds(u)
       THEN valsetNonce' = u.new
       ELSE UNCHANGED valsetNonce
    /\ UNCHANGED <<latestValset, confirmed, pc, oldNonce, newNonce,
                   lost, drops>>

-----------------------------------------------------------------------------
(* Relayer loop (spec 4.5 steps 1-2): read the contract's valset nonce and *)
(* take the newest confirmed valset above it; none, nothing to do.         *)
SelectValset(r) ==
    /\ pc[r] = "idle"
    /\ \E n \in confirmed : n > valsetNonce
    /\ oldNonce' = [oldNonce EXCEPT ![r] = valsetNonce]
    /\ newNonce' = [newNonce EXCEPT ![r] = Max(confirmed)]
    /\ pc' = [pc EXCEPT ![r] = "selected"]
    /\ UNCHANGED <<latestValset, confirmed, valsetNonce, evmPending,
                   lost, drops>>

(* estimate_valset_cost (lines 97-131), which the relayer loop calls      *)
(* before sending: read balance, tx count and gas price, then             *)
(* eth_estimate_gas on the encoded updateValset, which simulates it on    *)
(* the contract's current state and fails if it would revert. An Err      *)
(* ends the cycle.                                                        *)
EstimateValsetCost(r) ==
    /\ pc[r] = "selected"
    /\ pc' = [pc EXCEPT ![r] =
                IF UpdateValsetSucceeds([old |-> oldNonce[r], new |-> newNonce[r]])
                THEN "estimated" ELSE "idle"]
    /\ UNCHANGED <<latestValset, confirmed, valsetNonce, evmPending, oldNonce,
                   newNonce, lost, drops>>

(* Mutant: the early exit of line 40 tests the opposite condition. *)
CheckBeforeNonceInverted(r) ==
    /\ pc[r] = "estimated"
    /\ pc' = [pc EXCEPT ![r] =
                IF valsetNonce = oldNonce[r] THEN "idle" ELSE "checked"]
    /\ UNCHANGED <<latestValset, confirmed, valsetNonce, evmPending, oldNonce,
                   newNonce, lost, drops>>

(* Lines 25-50: assert new > old, read the contract's valset nonce; if    *)
(* someone else already moved it, return Ok without sending.              *)
CheckBeforeNonce(r) ==
    /\ pc[r] = "estimated"
    /\ newNonce[r] > oldNonce[r]
    /\ pc' = [pc EXCEPT ![r] =
                IF valsetNonce /= oldNonce[r] THEN "idle" ELSE "checked"]
    /\ UNCHANGED <<latestValset, confirmed, valsetNonce, evmPending, oldNonce,
                   newNonce, lost, drops>>

(* Mutant: the payload's tokens put the old set where the new one goes. *)
SendValsetUpdateSwapped(r) ==
    /\ pc[r] = "checked"
    /\ evmPending' = evmPending \cup {[old |-> newNonce[r], new |-> oldNonce[r]]}
    /\ lost' = lost \ {[old |-> newNonce[r], new |-> oldNonce[r]]}
    /\ pc' = [pc EXCEPT ![r] = "waiting"]
    /\ UNCHANGED <<latestValset, confirmed, valsetNonce, oldNonce, newNonce,
                   drops>>

(* Lines 52-64 and encode_valset_payload (135-183): order the old set's   *)
(* signatures over the new set's hash and send updateValset.              *)
SendValsetUpdate(r) ==
    /\ pc[r] = "checked"
    /\ evmPending' = evmPending \cup {[old |-> oldNonce[r], new |-> newNonce[r]]}
    /\ lost' = lost \ {[old |-> oldNonce[r], new |-> newNonce[r]]}
    /\ pc' = [pc EXCEPT ![r] = "waiting"]
    /\ UNCHANGED <<latestValset, confirmed, valsetNonce, oldNonce, newNonce,
                   drops>>

(* Line 70: the receipt arrives once the tx is mined; for a dropped tx  *)
(* the wait can only time out (RpcFailed).                                *)
WaitForTx(r) ==
    /\ pc[r] = "waiting"
    /\ [old |-> oldNonce[r], new |-> newNonce[r]] \notin evmPending \cup lost
    /\ pc' = [pc EXCEPT ![r] = "mined"]
    /\ UNCHANGED <<latestValset, confirmed, valsetNonce, evmPending, oldNonce,
                   newNonce, lost, drops>>

(* Lines 72-93: re-read the nonce; a mismatch is only logged, Ok. *)
ReadLastNonce(r) ==
    /\ pc[r] = "mined"
    /\ pc' = [pc EXCEPT ![r] = "idle"]
    /\ UNCHANGED <<latestValset, confirmed, valsetNonce, evmPending, oldNonce,
                   newNonce, lost, drops>>

(* Mutant: the wait has no timeout; a dropped tx holds the loop for good. *)
WaitTimedOutNever(r) ==
    /\ pc[r] = "waiting"
    /\ [old |-> oldNonce[r], new |-> newNonce[r]] \in evmPending
    /\ FALSE
    /\ pc' = [pc EXCEPT ![r] = "idle"]
    /\ UNCHANGED <<latestValset, confirmed, valsetNonce, evmPending, oldNonce,
                   newNonce, lost, drops>>

(* Line 70: wait_for_transaction returns Err once `timeout` passes, the  *)
(* tx mined late, dropped or still pending; `?` ends the cycle.           *)
WaitTimedOut(r) ==
    /\ pc[r] = "waiting"
    /\ pc' = [pc EXCEPT ![r] = "idle"]
    /\ UNCHANGED <<latestValset, confirmed, valsetNonce, evmPending, oldNonce,
                   newNonce, lost, drops>>

(* Lines 107-110, 39, 52, 63, 72: a `?` returns Err: an RPC of the       *)
(* estimate, a nonce read or the send fails.                              *)
RpcFailed(r) ==
    /\ pc[r] \in {"selected", "estimated", "checked", "mined"}
    /\ pc' = [pc EXCEPT ![r] = "idle"]
    /\ UNCHANGED <<latestValset, confirmed, valsetNonce, evmPending, oldNonce,
                   newNonce, lost, drops>>

-----------------------------------------------------------------------------
Init ==
    /\ latestValset = 0
    /\ confirmed = {}
    /\ valsetNonce = 0
    /\ evmPending = {}
    /\ pc = [r \in Relayers |-> "idle"]
    /\ oldNonce = [r \in Relayers |-> NoValset]
    /\ newNonce = [r \in Relayers |-> NoValset]
    /\ lost = {}
    /\ drops = 0

Next ==
    \/ CreateValset
    \/ \E n \in Nonces : ConfirmValset(n)
    \/ \E u \in Updates : MineValsetUpdate(u) \/ DropValsetUpdate(u)
    \/ \E r \in Relayers :
         \/ SelectValset(r) \/ EstimateValsetCost(r) \/ CheckBeforeNonce(r)
         \/ SendValsetUpdate(r)
         \/ WaitForTx(r) \/ WaitTimedOut(r) \/ ReadLastNonce(r)
         \/ RpcFailed(r)

(* Relayers loop forever and their RPCs eventually answer; the EVM chain *)
(* keeps mining pending txs; a wait ends by its timeout at the latest.  *)
(* Drops are bounded and not assumed.                                    *)
Fairness ==
    /\ \A r \in Relayers :
         /\ SF_vars(SelectValset(r)) /\ SF_vars(EstimateValsetCost(r))
         /\ SF_vars(CheckBeforeNonce(r))
         /\ SF_vars(SendValsetUpdate(r)) /\ SF_vars(WaitForTx(r))
         /\ SF_vars(ReadLastNonce(r)) /\ WF_vars(WaitTimedOut(r))
    /\ WF_vars(\E u \in evmPending : MineValsetUpdate(u))

SafeSpec == Init /\ [][Next]_vars

Spec == SafeSpec /\ Fairness

-----------------------------------------------------------------------------
TypeOK ==
    /\ latestValset \in 0..MaxValset
    /\ confirmed \subseteq Nonces
    /\ valsetNonce \in 0..MaxValset
    /\ evmPending \subseteq Updates
    /\ pc \in [Relayers -> {"idle", "selected", "estimated", "checked", "waiting",
                            "mined"}]
    /\ oldNonce \in [Relayers -> 0..MaxValset]
    /\ newNonce \in [Relayers -> 0..MaxValset]
    /\ lost \subseteq Updates
    /\ drops \in 0..MaxDrops

(* The relayers and the contract implement ValsetRotation, with the      *)
(* contract's valset nonce as its onchain set: the valset only moves      *)
(* forward, each time to a confirmed valset, even with several relayers   *)
(* racing and txs of timed-out waits mined late; and while a confirmed    *)
(* valset newer than the contract's exists, some relayer's update is      *)
(* eventually mined, although each relayer abandons a cycle in which it   *)
(* sees the nonce move before it sends (send_eth_valset_update, 39-40).   *)
Rotation == INSTANCE ValsetRotation WITH onchain <- valsetNonce
ImplementsRotation == Rotation!ASpec

(* Every confirmed valset is eventually installed or superseded on the   *)
(* contract.                                                              *)
EventuallyInstalled ==
    \A n \in Nonces : [](n \in confirmed => <>(valsetNonce >= n))
=============================================================================
