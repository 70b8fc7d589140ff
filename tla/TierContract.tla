--------------------------- MODULE TierContract ---------------------------
(***************************************************************************)
(* What the payment system promises about a user's tier, whatever the      *)
(* polling behind it does: the operator sets any tier at any time; the     *)
(* automatic path only ever moves a user between 'free' and 'pro', up only *)
(* if one of the user's subscriptions has been a paying one, down only if  *)
(* one has ended.  The comments of grantProFromEntitlement and             *)
(* revokeProFromEntitlement state it.  TierSync implements it.             *)
(***************************************************************************)
CONSTANTS Users, Tiers

VARIABLES
    tier,     \* the tier of each user
    setBy,    \* who wrote it last: the operator or the tier sync
    payers,   \* users one of whose subscriptions has been a paying one
    lapsers   \* users one of whose subscriptions has ended

contractVars == <<tier, setBy, payers, lapsers>>

ContractInit ==
    /\ tier = [u \in Users |-> "free"]
    /\ setBy = [u \in Users |-> "operator"]
    /\ payers = {}
    /\ lapsers = {}

(* The provider learns of a payment or of an end. *)
Report ==
    /\ payers \subseteq payers'
    /\ lapsers \subseteq lapsers'
    /\ UNCHANGED <<tier, setBy>>

Assign(u, t) ==
    /\ tier' = [tier EXCEPT ![u] = t]
    /\ setBy' = [setBy EXCEPT ![u] = "operator"]
    /\ UNCHANGED <<payers, lapsers>>

Promote(u) ==
    /\ u \in payers
    /\ tier[u] = "free"
    /\ tier' = [tier EXCEPT ![u] = "pro"]
    /\ setBy' = [setBy EXCEPT ![u] = "sync"]
    /\ UNCHANGED <<payers, lapsers>>

Demote(u) ==
    /\ u \in lapsers
    /\ tier[u] = "pro"
    /\ tier' = [tier EXCEPT ![u] = "free"]
    /\ setBy' = [setBy EXCEPT ![u] = "sync"]
    /\ UNCHANGED <<payers, lapsers>>

ContractNext ==
    \/ Report
    \/ \E u \in Users, t \in Tiers : Assign(u, t)
    \/ \E u \in Users : Promote(u)
    \/ \E u \in Users : Demote(u)

ContractSpec == ContractInit /\ [][ContractNext]_contractVars
=============================================================================
