-------------------------------- MODULE Sweep --------------------------------
(***************************************************************************)
(* The sweep of one token off a lapsed sub-account: the registry's request *)
(* (tla-registry/src/reclaim.rs), the locker's chain of receipts           *)
(* (sub-account-locker/src/lib.rs), and the token contract, which is       *)
(* external.  The locker looks at its own state only in the first of them, *)
(* and the registry has no callback.                                       *)
(***************************************************************************)
EXTENDS Registry

ReclaimSweepFt(s, k, t) ==
    /\ ~paused
    /\ t \in ft_allowlist
    /\ ~IsMother(k)
    /\ sub_accounts[k] # None
    /\ tlas[TlaOf[k]] # None
    /\ Reclaimable(k)
    /\ StartCall(s, [kind |-> "sweep", stage |-> "dispatch", key |-> k,
                     who |-> sub_accounts[k].main_wallet, paid |-> 0, cost |-> 0,
                     sent |-> 0, left |-> {t}, ok |-> TRUE])
    /\ UNCHANGED <<tlaVars, subVars, saleVars, motherVars, businessVars,
                   adminVars, moneyVars, chainVars, now>>

\* A sweep goes on with the given receipt, or is over.
ProceedIf(s, condition, stage) ==
    IF condition THEN Advance(s, stage, TRUE) ELSE EndCall(s)

\* A callback runs if there is an account to run it, in whatever state.
Exists(k) == locker[k].state # "Absent"

SweepFt(s) ==
    /\ At(s, "sweep", "dispatch")
    /\ ProceedIf(s, locker[calls[s].key].state = "Held", "measure")
    /\ UNCHANGED <<tlaVars, subVars, saleVars, motherVars, businessVars,
                   adminVars, moneyVars, chainVars, now>>

\* ft_balance_of: an answer, or a failure.
MeasureBalance(s, ok) ==
    /\ At(s, "sweep", "measure")
    /\ \E t \in calls[s].left :
          calls' = [calls EXCEPT ![s].stage = "measured", ![s].ok = ok,
                                 ![s].cost = IF ok THEN ft[calls[s].key][t] ELSE 0]
    /\ UNCHANGED <<tlaVars, subVars, saleVars, motherVars, businessVars,
                   adminVars, moneyVars, chainVars, now>>

\* Mutant: a balance of one unit counts as none.
AfterBalanceQueryLeavesDust(s) ==
    /\ At(s, "sweep", "measured")
    /\ ProceedIf(s, Exists(calls[s].key) /\ calls[s].ok /\ calls[s].cost > 1, "register")
    /\ UNCHANGED <<tlaVars, subVars, saleVars, motherVars, businessVars,
                   adminVars, moneyVars, chainVars, now>>

AfterBalanceQuery(s) ==
    /\ At(s, "sweep", "measured")
    /\ ProceedIf(s, Exists(calls[s].key) /\ calls[s].ok /\ calls[s].cost # 0, "register")
    /\ UNCHANGED <<tlaVars, subVars, saleVars, motherVars, businessVars,
                   adminVars, moneyVars, chainVars, now>>

\* storage_deposit for the destination, out of the account's own NEAR; it may
\* fail at the token or for want of NEAR.
DepositStorage(s, ok) ==
    /\ At(s, "sweep", "register")
    /\ Advance(s, "registered", ok)
    /\ UNCHANGED <<tlaVars, subVars, saleVars, motherVars, businessVars,
                   adminVars, moneyVars, chainVars, now>>

AfterStorageDeposit(s) ==
    /\ At(s, "sweep", "registered")
    /\ ProceedIf(s, Exists(calls[s].key) /\ calls[s].ok, "pay")
    /\ UNCHANGED <<tlaVars, subVars, saleVars, motherVars, businessVars,
                   adminVars, moneyVars, chainVars, now>>

\* ft_transfer of the balance that was read.  It fails if another sweep has
\* taken it meanwhile, or for a reason of the token's own.
TransferTokens(s, ok) ==
    LET k == calls[s].key IN
    /\ At(s, "sweep", "pay")
    /\ ft' = [ft EXCEPT ![k] = [t \in Tokens |->
                IF ok /\ t \in calls[s].left /\ calls[s].cost <= ft[k][t]
                THEN ft[k][t] - calls[s].cost ELSE ft[k][t]]]
    /\ EndCall(s)
    /\ UNCHANGED <<tlaVars, subVars, saleVars, motherVars, businessVars,
                   adminVars, moneyVars, locker, now>>

SweepNext ==
    \/ \E s \in Slots, k \in Keys, t \in Tokens : ReclaimSweepFt(s, k, t)
    \/ \E s \in Slots :
          \/ SweepFt(s)
          \/ AfterBalanceQuery(s)
          \/ AfterStorageDeposit(s)
          \/ \E ok \in BOOLEAN :
                MeasureBalance(s, ok) \/ DepositStorage(s, ok) \/ TransferTokens(s, ok)
==============================================================================
