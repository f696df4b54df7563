--------------------------- MODULE ValsetRotation ---------------------------
(***************************************************************************)
(* What the bridge promises about validator sets, without relayers or      *)
(* transactions: the native chain creates validator sets with increasing   *)
(* nonces, validators confirm them, and the Peggy contract's current set   *)
(* only ever moves forward, in one step, to a set that was confirmed; and *)
(* while a confirmed set newer than the contract's exists, the contract    *)
(* eventually moves forward. The second half is the relayers' job.         *)
(***************************************************************************)
EXTENDS Naturals

CONSTANT MaxValset      \* bound on the valset nonce

VARIABLES
    latestValset,       \* nonce of the newest valset the native chain made
    confirmed,          \* valsets whose confirmations reach the threshold
    onchain             \* nonce of the valset stored in the contract

avars == <<latestValset, confirmed, onchain>>

CreateValset ==
    /\ latestValset < MaxValset
    /\ latestValset' = latestValset + 1
    /\ UNCHANGED <<confirmed, onchain>>

Confirm(n) ==
    /\ n \in 1..latestValset \ confirmed
    /\ confirmed' = confirmed \cup {n}
    /\ UNCHANGED <<latestValset, onchain>>

(* The contract moves to a newer confirmed valset; skipping is allowed. *)
Rotate(n) ==
    /\ n \in confirmed
    /\ n > onchain
    /\ onchain' = n
    /\ UNCHANGED <<latestValset, confirmed>>

AInit ==
    /\ latestValset = 0
    /\ confirmed = {}
    /\ onchain = 0

ANext ==
    \/ CreateValset
    \/ \E n \in 1..MaxValset : Confirm(n) \/ Rotate(n)

(* Weak fairness: a rotation that stays possible eventually happens. *)
ASpec ==
    /\ AInit /\ [][ANext]_avars
    /\ WF_avars(\E n \in 1..MaxValset : Rotate(n))
=============================================================================
