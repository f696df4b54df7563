---------------------------- MODULE EventWatcher ----------------------------
(***************************************************************************)
(* The Ethereum event watcher of the orchestrator (check_for_events in     *)
(* orchestrator/src/ethereum_event_watcher.rs) together with the two       *)
(* chains it connects:                                                     *)
(*   - the EVM chain: blocks mined one at a time, each carrying bridge     *)
(*     events that the Peggy contract numbers with a global event nonce;   *)
(*   - the native chain's bridge module, which keeps this validator's last *)
(*     applied event nonce and applies a claims transaction atomically,    *)
(*     only if its claims continue that nonce without a gap.               *)
(* One cycle of check_for_events is split at its suspension points (the   *)
(* awaits on the EVM RPC and on the native chain), so that the native      *)
(* chain may commit or drop claims transactions between any two of them.   *)
(* The loop that calls check_for_events keeps its checkpoint                *)
(* (startingBlock): Ok(latest) replaces it, an Err leaves it unchanged.    *)
(***************************************************************************)
EXTENDS Naturals, FiniteSets, Sequences, SequencesExt

CONSTANTS
    NetVersion,      \* net id answered by the EVM RPC (net_version)
    GenesisHead,     \* EVM head height when the orchestrator starts
    MaxBlock,        \* bound on the EVM head height
    MaxEvents,       \* bound on the number of bridge events emitted
    MaxPerBlock,     \* bound on the bridge events in one block
    NoncedKinds,     \* event kinds the contract numbers with an event nonce
    LateCommit,      \* may a claims tx be decided after its send returned?
    MaxCrashes       \* bound on process crashes

(* The event kinds the watcher decodes (lines 38-103). *)
Kinds == {"deposit", "batch", "valset", "erc20", "logic"}

(* The kinds check_for_events filters and passes to send_ethereum_claims   *)
(* (lines 112-118 and 178-186): ValsetUpdatedEvent is decoded but never    *)
(* claimed.                                                                *)
ClaimedKinds == Kinds \ {"valset"}

ASSUME /\ NoncedKinds \subseteq Kinds
       /\ GenesisHead <= MaxBlock
       /\ LateCommit \in BOOLEAN

VARIABLES
    head,            \* EVM chain height
    events,          \* bridge events mined so far: [nonce, kind, block]
    lastEventNonce,  \* native chain: last event nonce applied for us
    mempool,         \* native chain: claims txs not yet decided
    pc,              \* where the current cycle of check_for_events is
    startingBlock,   \* the loop's checkpoint, passed as starting_block
    latest,          \* cycle local: latest_block after the block delay
    lastNonce,       \* cycle local: last_event_nonce read before sending
    claims,          \* cycle local: the claims tx sent in this cycle
    crashes          \* number of process crashes so far

vars == <<head, events, lastEventNonce, mempool, pc, startingBlock,
          latest, lastNonce, claims, crashes>>

Nonces == 1..MaxEvents
Blocks == 0..MaxBlock
Events == [nonce : Nonces, kind : NoncedKinds, block : Blocks]
ClaimTxs == {s \in Seq(Events) : Len(s) <= MaxEvents}

(***************************************************************************)
(* get_block_delay: confirmations to stay behind the head, by net id.      *)
(***************************************************************************)
BlockDelay(net) ==
    IF net \in {4, 5, 2018, 15, 6} THEN 0 ELSE 6

evmNonce == Cardinality(events)

(* Mutant: the spec's section 4.2 wording, nonce >= threshold. *)
FilterByEventNonceInclusive(last) ==
    {e \in events : /\ startingBlock <= e.block
                    /\ e.block <= latest
                    /\ e.kind \in ClaimedKinds
                    /\ e.nonce >= last}

(***************************************************************************)
(* filter_by_event_nonce over the decoded logs of [startingBlock, latest]: *)
(* the claimed kinds with a nonce above the native chain's last one.       *)
(***************************************************************************)
FilterByEventNonce(last) ==
    {e \in events : /\ startingBlock <= e.block
                    /\ e.block <= latest
                    /\ e.kind \in ClaimedKinds
                    /\ e.nonce > last}

(* send_ethereum_claims orders the messages of the tx by event nonce. *)
ClaimsTx(evs) == SetToSortSeq(evs, LAMBDA a, b : a.nonce < b.nonce)

(* The bridge module applies a claim only when its nonce is the next one, *)
(* and a tx fails as a whole when one of its messages fails.              *)
Applicable(tx, last) == \A i \in 1..Len(tx) : tx[i].nonce = last + i

-----------------------------------------------------------------------------
(***************************************************************************)
(* EVM chain                                                               *)
(***************************************************************************)
(* Events are only emitted into blocks that still get BlockDelay          *)
(* confirmations before the MaxBlock bound, so that the bound does not   *)
(* hide them from the watcher.                                            *)
MineBlock ==
    /\ head < MaxBlock
    /\ \E k \in 0..MaxPerBlock :
         /\ evmNonce + k <= MaxEvents
         /\ k > 0 => head + 1 + BlockDelay(NetVersion) <= MaxBlock
         /\ \E kind \in [1..k -> NoncedKinds] :
              events' = events \cup
                  {[nonce |-> evmNonce + i, kind |-> kind[i], block |-> head + 1]
                     : i \in 1..k}
    /\ head' = head + 1
    /\ UNCHANGED <<crashes, lastEventNonce, mempool, pc, startingBlock, latest,
                   lastNonce, claims>>

(***************************************************************************)
(* Native chain: a pending claims tx is executed or dropped.               *)
(***************************************************************************)
CommitClaims(tx) ==
    /\ tx \in mempool
    /\ Applicable(tx, lastEventNonce)
    /\ lastEventNonce' = lastEventNonce + Len(tx)
    /\ mempool' = mempool \ {tx}
    /\ UNCHANGED <<crashes, head, events, pc, startingBlock, latest, lastNonce, claims>>

(* A tx that does not continue the nonce, or fails for fee or gas. *)
DropClaims(tx) ==
    /\ tx \in mempool
    /\ mempool' = mempool \ {tx}
    /\ UNCHANGED <<crashes, head, events, lastEventNonce, pc, startingBlock, latest,
                   lastNonce, claims>>

-----------------------------------------------------------------------------
(***************************************************************************)
(* check_for_events, one action per stretch between suspension points.     *)
(***************************************************************************)

(* Lines 34-36: read the head (retried until it answers) and the net id, *)
(* and stay BlockDelay blocks behind it.                                  *)
StartCycle ==
    /\ pc = "idle"
    /\ head >= BlockDelay(NetVersion)
    /\ latest' = head - BlockDelay(NetVersion)
    /\ pc' = "started"
    /\ UNCHANGED <<crashes, head, events, lastEventNonce, mempool, startingBlock,
                   lastNonce, claims>>

(* Line 36: the Uint256 subtraction panics when the head is still below  *)
(* the delay, and the orchestrator process goes down with it.             *)
BlockDelayUnderflow ==
    /\ pc = "idle"
    /\ head < BlockDelay(NetVersion)
    /\ pc' = "down"
    /\ UNCHANGED <<crashes, head, events, lastEventNonce, mempool, startingBlock,
                   latest, lastNonce, claims>>

(* Lines 38-104: the five log queries over [startingBlock, latest] and   *)
(* their decoding succeed. Blocks up to latest are already mined, so the *)
(* logs are what FilterByEventNonce reads from events later.              *)
ScanLogs ==
    /\ pc = "started"
    /\ pc' = "scanned"
    /\ UNCHANGED <<crashes, head, events, lastEventNonce, mempool, startingBlock,
                   latest, lastNonce, claims>>

(* Lines 88, 95-103, 205-210: a log query or a decode fails; Err. *)
LogQueryFailed ==
    /\ pc = "started"
    /\ pc' = "idle"
    /\ UNCHANGED <<crashes, head, events, lastEventNonce, mempool, startingBlock,
                   latest, lastNonce, claims>>

(* Mutant: the claims vector is not rebuilt per cycle but extended. *)
ReadLastEventNonceKeepClaims ==
    /\ pc = "scanned"
    /\ LET todo == FilterByEventNonce(lastEventNonce) IN
         IF todo = {}
         THEN /\ startingBlock' = latest
              /\ pc' = "idle"
              /\ UNCHANGED <<lastNonce, claims>>
         ELSE /\ lastNonce' = lastEventNonce
              /\ claims' = claims \o ClaimsTx(todo)
              /\ pc' = "filtered"
              /\ UNCHANGED startingBlock
    /\ UNCHANGED <<crashes, head, events, lastEventNonce, mempool, latest>>

(* Lines 111-118, 173-177, 204: read last_event_nonce, filter; with     *)
(* nothing to claim the cycle returns Ok(latest).                        *)
ReadLastEventNonce ==
    /\ pc = "scanned"
    /\ LET todo == FilterByEventNonce(lastEventNonce) IN
         IF todo = {}
         THEN /\ startingBlock' = latest
              /\ pc' = "idle"
              /\ UNCHANGED <<lastNonce, claims>>
         ELSE /\ lastNonce' = lastEventNonce
              /\ claims' = ClaimsTx(todo)
              /\ pc' = "filtered"
              /\ UNCHANGED startingBlock
    /\ UNCHANGED <<crashes, head, events, lastEventNonce, mempool, latest>>

(* Lines 111 and 189: a get_last_event_nonce query fails; Err. *)
NonceQueryFailed ==
    /\ pc \in {"scanned", "sent"}
    /\ pc' = "idle"
    /\ UNCHANGED <<crashes, head, events, lastEventNonce, mempool, startingBlock,
                   latest, lastNonce, claims>>

(* Lines 178-186: broadcast the claims tx. *)
SendClaims ==
    /\ pc = "filtered"
    /\ mempool' = mempool \cup {claims}
    /\ pc' = "sending"
    /\ UNCHANGED <<crashes, head, events, lastEventNonce, startingBlock, latest,
                   lastNonce, claims>>

(* The broadcast answers. Unless LateCommit, the answer comes only after  *)
(* the tx was decided. ok: line 187 passes; otherwise `?` returns Err.   *)
SendReturns(ok) ==
    /\ pc = "sending"
    /\ LateCommit \/ claims \notin mempool
    /\ pc' = IF ok THEN "sent" ELSE "idle"
    /\ UNCHANGED <<crashes, head, events, lastEventNonce, mempool, startingBlock,
                   latest, lastNonce, claims>>

(* Mutant: the InvalidBridgeState check is dropped, always Ok(latest). *)
CheckNonceAdvancedUnchecked ==
    /\ pc = "sent"
    /\ pc' = "idle"
    /\ startingBlock' = latest
    /\ UNCHANGED <<crashes, head, events, lastEventNonce, mempool, latest,
                   lastNonce, claims>>

(* Lines 189-204: re-read the nonce; unchanged is InvalidBridgeState,    *)
(* changed returns Ok(latest).                                           *)
CheckNonceAdvanced ==
    /\ pc = "sent"
    /\ pc' = "idle"
    /\ startingBlock' = IF lastEventNonce = lastNonce
                        THEN startingBlock ELSE latest
    /\ UNCHANGED <<crashes, head, events, lastEventNonce, mempool, latest,
                   lastNonce, claims>>

(***************************************************************************)
(* Crash and restart (the process supervisor; spec section 6). The process *)
(* may die between any two steps of a cycle. Unless LateCommit, no claims  *)
(* tx of ours outlives the process. On restart the checkpoint is derived   *)
(* afresh from the native chain: the block of the last applied event.      *)
(***************************************************************************)
Crash ==
    /\ pc /= "down"
    /\ crashes < MaxCrashes
    /\ crashes' = crashes + 1
    /\ LateCommit \/ mempool = {}
    /\ pc' = "down"
    /\ UNCHANGED <<head, events, lastEventNonce, mempool, startingBlock,
                   latest, lastNonce, claims>>

LastCheckedBlock ==
    IF lastEventNonce = 0 THEN 0
    ELSE (CHOOSE e \in events : e.nonce = lastEventNonce).block

Restart ==
    /\ pc = "down"
    /\ startingBlock' = LastCheckedBlock
    /\ pc' = "idle"
    /\ UNCHANGED <<crashes, head, events, lastEventNonce, mempool, latest, lastNonce,
                   claims>>

-----------------------------------------------------------------------------
Init ==
    /\ head = GenesisHead
    /\ events = {}
    /\ lastEventNonce = 0
    /\ mempool = {}
    /\ pc = "idle"
    /\ startingBlock = 0
    /\ latest = 0
    /\ lastNonce = 0
    /\ claims = <<>>
    /\ crashes = 0

Next ==
    \/ MineBlock
    \/ \E tx \in mempool : CommitClaims(tx) \/ DropClaims(tx)
    \/ StartCycle \/ BlockDelayUnderflow \/ ScanLogs \/ LogQueryFailed
    \/ ReadLastEventNonce \/ NonceQueryFailed
    \/ SendClaims \/ \E ok \in BOOLEAN : SendReturns(ok)
    \/ CheckNonceAdvanced
    \/ Crash \/ Restart

(* The loop calls check_for_events forever, and RPC calls eventually      *)
(* answer: every successful step of the cycle is strongly fair, since a   *)
(* failure may disable it for a while. The native chain keeps executing   *)
(* transactions, so an applicable claims tx is not dropped forever, and   *)
(* the EVM chain keeps producing blocks.                                  *)
Fairness ==
    /\ WF_vars(MineBlock)
    /\ WF_vars(StartCycle)
    /\ SF_vars(ScanLogs) /\ SF_vars(ReadLastEventNonce)
    /\ WF_vars(SendClaims) /\ SF_vars(SendReturns(TRUE))
    /\ SF_vars(CheckNonceAdvanced) /\ WF_vars(Restart)
    /\ SF_vars(\E tx \in mempool : CommitClaims(tx))
    /\ WF_vars(\E tx \in mempool : DropClaims(tx))

Spec == Init /\ [][Next]_vars /\ Fairness

-----------------------------------------------------------------------------
TypeOK ==
    /\ head \in Blocks
    /\ events \subseteq Events
    /\ lastEventNonce \in 0..MaxEvents
    /\ mempool \subseteq ClaimTxs
    /\ pc \in {"idle", "started", "scanned", "filtered", "sending", "sent", "down"}
    /\ startingBlock \in Blocks /\ latest \in Blocks
    /\ lastNonce \in 0..MaxEvents /\ claims \in ClaimTxs
    /\ crashes \in 0..MaxCrashes

(* The checkpoint never passes an unapplied event: when a cycle returns   *)
(* Ok(latest), every bridge event mined in a block below the new starting *)
(* block is applied on the native chain. Blocks below the checkpoint are  *)
(* never scanned again, so an event left behind there is lost for good    *)
(* and stalls the native chain's event nonce.                             *)
CheckpointSound ==
    \A e \in events : e.block < startingBlock => e.nonce <= lastEventNonce

(* Every event the contract emits is eventually applied on the native    *)
(* chain for this validator.                                              *)
EventuallyAllClaimed ==
    \A n \in Nonces : [](evmNonce >= n => <>(lastEventNonce >= n))

(* The block-delay subtraction of line 36 never underflows: no step of   *)
(* the watcher is the panic that takes the process down.                  *)
NoUnderflow == [][~BlockDelayUnderflow]_vars
=============================================================================
