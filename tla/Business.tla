------------------------------ MODULE Business ------------------------------
(***************************************************************************)
(* Business TLAs: the notice after which an owner gives a sub-account up,  *)
(* and the cap on their number (tla-registry/src/business.rs).             *)
(***************************************************************************)
EXTENDS Registry

ScheduleRetraction(caller, k) ==
    /\ ~paused
    /\ IsBusiness(TlaOf[k])
    /\ sub_accounts[k] # None
    /\ caller = sub_accounts[k].owner
    /\ sub_accounts[k].retraction_at = None
    /\ sub_accounts' = [sub_accounts EXCEPT ![k].retraction_at = now]
    /\ UNCHANGED <<tlaVars, sub_account_count, saleVars, motherVars, businessVars,
                   adminVars, moneyVars, chainVars, calls, now>>

\* Mutant: a retraction is cancelled after it took effect.
CancelRetractionLate(caller, k) ==
    /\ ~paused
    /\ sub_accounts[k] # None
    /\ caller = sub_accounts[k].owner
    /\ sub_accounts[k].retraction_at # None
    /\ sub_accounts' = [sub_accounts EXCEPT ![k].retraction_at = None]
    /\ UNCHANGED <<tlaVars, sub_account_count, saleVars, motherVars, businessVars,
                   adminVars, moneyVars, chainVars, calls, now>>

CancelRetraction(caller, k) ==
    /\ ~paused
    /\ sub_accounts[k] # None
    /\ caller = sub_accounts[k].owner
    /\ sub_accounts[k].retraction_at # None
    /\ ~RetractionElapsed(sub_accounts[k], now, fee_config.retraction_notice)
    /\ sub_accounts' = [sub_accounts EXCEPT ![k].retraction_at = None]
    /\ UNCHANGED <<tlaVars, sub_account_count, saleVars, motherVars, businessVars,
                   adminVars, moneyVars, chainVars, calls, now>>

\* cap = None removes the override.
SetBusinessSubCap(caller, t, cap) ==
    /\ caller \in admins
    /\ IsBusiness(t)
    /\ business_sub_cap_override' = [business_sub_cap_override EXCEPT ![t] = cap]
    /\ UNCHANGED <<tlaVars, subVars, saleVars, motherVars, business_sub_count,
                   adminVars, moneyVars, chainVars, calls, now>>

\* Caps around the number of keys tell all the cases apart.
Caps == 0..Cardinality(Keys)

BusinessNext ==
    \/ \E caller \in Callers, k \in Keys :
          ScheduleRetraction(caller, k) \/ CancelRetraction(caller, k)
    \/ \E caller \in Callers, t \in Tlas, cap \in Caps \cup {None} :
          SetBusinessSubCap(caller, t, cap)
=============================================================================
