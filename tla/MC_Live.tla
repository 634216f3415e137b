------------------------------- MODULE MC_Live -------------------------------
(***************************************************************************)
(* Every kind of promise chain, started again and again, with two of them  *)
(* in flight at once, under the fairness of NEAR's receipt delivery.       *)
(***************************************************************************)
EXTENDS MC

LiveFees == Config(0, 1, 0, 0)
LiveFeeConfigs == {LiveFees}

LiveInit == Start(ActiveBusinessTla(2), RentedByAlice({k1}, 2))

Lapsed(k) == sub_accounts[k] # None /\ Reclaimable(k)

\* The kinds of the chains in flight.
Racing == {calls[s].kind : s \in Slots} \ {NoCall.kind}

\* A sweep races the sweeps and the deletions of its account; a claim, which meets
\* the others only in the ledger, is in flight by itself.  Tokens are sent to an
\* account until it lapses.
LiveNext ==
    \/ /\ Racing \cap {"sweep", "claim"} = {}
       /\ \E s \in Slots, k \in Keys :
             \/ RentSubAccount(s, alice, k, alice, 1)
             \/ BuySubAccount(s, bob, k, 1)
             \/ ExportSubAccount(s, alice, k)
    \/ "claim" \notin Racing /\ \E s \in Slots, k \in Keys : ReclaimFinalize(s, k)
    \/ /\ Racing \subseteq {"sweep", "reclaim"}
       /\ \E s \in Slots, k \in Keys, t \in Tokens : ReclaimSweepFt(s, k, t)
    \/ Racing = {} /\ \E s \in Slots : ClaimRefund(s, alice)
    \/ \E k \in Keys : ListSubAccount(alice, k, 1) \/ ScheduleRetraction(alice, k)
    \/ \E k \in Keys, t \in Tokens : ~Lapsed(k) /\ DepositToken(k, t)
    \/ \E t \in Tokens : AddFtAllowlist(alice, t)
    \/ \E s \in Slots : Deliver(s)

LiveSpec == LiveInit /\ [][LiveNext]_vars /\ Delivery /\ Keeper /\ TokensWork
==============================================================================
