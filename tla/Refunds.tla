------------------------------- MODULE Refunds -------------------------------
(***************************************************************************)
(* The ledger of credits and its two ends: an admin withdraws revenue into *)
(* it, an account claims what it has in it (tla-registry/src/lib.rs,       *)
(* withdraw in admin.rs).                                                  *)
(***************************************************************************)
EXTENDS Registry

ClaimRefund(s, caller) ==
    LET amount == pending_refunds[caller] IN
    /\ amount # 0
    /\ amount <= AvailableBalance
    /\ pending_refunds' = [pending_refunds EXCEPT ![caller] = 0]
    /\ total_pending_refunds' = Monus(total_pending_refunds, amount)
    /\ balance' = balance - amount
    /\ StartCall(s, [kind |-> "claim", stage |-> "effect", key |-> None,
                     who |-> caller, paid |-> amount, cost |-> 0, sent |-> amount,
                     left |-> {}, ok |-> TRUE])
    /\ UNCHANGED <<tlaVars, subVars, saleVars, motherVars, businessVars,
                   adminVars, total_revenue, chainVars, now>>

\* The Transfer receipt.  The network returns the amount if the account is gone.
TransferRefund(s) ==
    /\ At(s, "claim", "effect")
    /\ \E delivered \in BOOLEAN :
         /\ calls' = [calls EXCEPT ![s].stage = "callback", ![s].ok = delivered,
                                   ![s].sent = IF delivered THEN @ ELSE 0]
         /\ balance' = IF delivered THEN balance ELSE balance + calls[s].sent
    /\ UNCHANGED <<tlaVars, subVars, saleVars, motherVars, businessVars,
                   adminVars, total_revenue, refundVars, chainVars, now>>

\* Mutant: the credit is restored whether or not the transfer succeeded.
OnClaimRefundSettledUnchecked(s) ==
    /\ At(s, "claim", "callback")
    /\ AddPendingRefund(calls[s].who, calls[s].paid)
    /\ EndCall(s)
    /\ UNCHANGED <<tlaVars, subVars, saleVars, motherVars, businessVars,
                   adminVars, balance, total_revenue, chainVars, now>>

OnClaimRefundSettled(s) ==
    /\ At(s, "claim", "callback")
    /\ IF calls[s].ok THEN UNCHANGED refundVars
       ELSE AddPendingRefund(calls[s].who, calls[s].paid)
    /\ EndCall(s)
    /\ UNCHANGED <<tlaVars, subVars, saleVars, motherVars, businessVars,
                   adminVars, balance, total_revenue, chainVars, now>>

Withdraw(caller, amount, recipient) ==
    /\ caller \in admins
    /\ amount # 0
    /\ amount <= total_revenue
    /\ total_pending_refunds + amount <= AvailableBalance
    /\ total_revenue' = total_revenue - amount
    /\ AddPendingRefund(recipient, amount)
    /\ UNCHANGED <<tlaVars, subVars, saleVars, motherVars, businessVars,
                   adminVars, balance, chainVars, calls, now>>

RefundsNext ==
    \/ \E s \in Slots, caller \in Callers : ClaimRefund(s, caller)
    \/ \E s \in Slots : TransferRefund(s) \/ OnClaimRefundSettled(s)
    \/ \E caller \in Callers, amount \in Deposits, recipient \in Accounts :
          Withdraw(caller, amount, recipient)
==============================================================================
