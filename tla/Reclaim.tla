------------------------------- MODULE Reclaim -------------------------------
(***************************************************************************)
(* The two ways a sub-account leaves the registry: reclaimed once it has   *)
(* lapsed, or exported by an admin (tla-registry/src/reclaim.rs).          *)
(***************************************************************************)
EXTENDS Registry

\* Anybody may call reclaim_finalize; the destination is fixed here.
ReclaimFinalize(s, k) ==
    /\ ~paused
    /\ ~IsMother(k)
    /\ sub_accounts[k] # None
    /\ tlas[TlaOf[k]] # None
    /\ Reclaimable(k)
    /\ StartCall(s, [kind |-> "reclaim", stage |-> AfterSnapshot, key |-> k,
                     who |-> sub_accounts[k].main_wallet, paid |-> 0, cost |-> 0,
                     sent |-> 0, left |-> ft_allowlist, ok |-> TRUE])
    /\ UNCHANGED <<tlaVars, subVars, saleVars, motherVars, businessVars,
                   adminVars, moneyVars, chainVars, now>>

\* Mutants: the balances are ignored; they are asked for again until they are
\* all zero.
OnBalancesIgnored(s) ==
    /\ At(s, "reclaim", "checked")
    /\ Advance(s, "dispatch", TRUE)
    /\ UNCHANGED <<tlaVars, subVars, saleVars, motherVars, businessVars,
                   adminVars, moneyVars, chainVars, now>>

OnBalancesAskAgain(s) ==
    /\ At(s, "reclaim", "checked")
    /\ IF calls[s].ok THEN Advance(s, "dispatch", TRUE)
       ELSE calls' = [calls EXCEPT ![s].stage = AfterSnapshot, ![s].ok = TRUE,
                                   ![s].left = ft_allowlist]
    /\ UNCHANGED <<tlaVars, subVars, saleVars, motherVars, businessVars,
                   adminVars, moneyVars, chainVars, now>>

\* A balance, or an answer that shows none, ends the chain; nothing but the
\* answers is looked at again.
OnBalancesChecked(s) ==
    /\ At(s, "reclaim", "checked")
    /\ IF calls[s].ok THEN Advance(s, "dispatch", TRUE) ELSE EndCall(s)
    /\ UNCHANGED <<tlaVars, subVars, saleVars, motherVars, businessVars,
                   adminVars, moneyVars, chainVars, now>>

\* Mutant: the result of the deletion is not looked at.
OnReclaimFinalizedUnchecked(s) ==
    /\ At(s, "reclaim", "callback")
    /\ RemoveSubAccount(calls[s].key)
    /\ EndCall(s)
    /\ UNCHANGED <<tlaVars, motherVars, business_sub_cap_override, adminVars,
                   moneyVars, chainVars, now>>

OnReclaimFinalized(s) ==
    /\ At(s, "reclaim", "callback")
    /\ IF calls[s].ok THEN RemoveSubAccount(calls[s].key)
       ELSE UNCHANGED <<subVars, saleVars, business_sub_count>>
    /\ EndCall(s)
    /\ UNCHANGED <<tlaVars, motherVars, business_sub_cap_override, adminVars,
                   moneyVars, chainVars, now>>

ExportSubAccount(s, caller, k) ==
    /\ caller \in admins
    /\ sub_accounts[k] # None
    /\ ~IsMother(k)
    /\ StartCall(s, [kind |-> "export", stage |-> "dispatch", key |-> k,
                     who |-> None, paid |-> 0, cost |-> 0, sent |-> 0,
                     left |-> {}, ok |-> TRUE])
    /\ UNCHANGED <<tlaVars, subVars, saleVars, motherVars, businessVars,
                   adminVars, moneyVars, chainVars, now>>

\* Mutant: an export that the locker refused counts as done.
OnExportSettledUnchecked(s) ==
    LET k == calls[s].key IN
    /\ At(s, "export", "callback")
    /\ IF sub_accounts[k] # None THEN RemoveSubAccount(k)
       ELSE UNCHANGED <<subVars, saleVars, business_sub_count>>
    /\ EndCall(s)
    /\ UNCHANGED <<tlaVars, motherVars, business_sub_cap_override, adminVars,
                   moneyVars, chainVars, now>>

\* Unlike a reclaim, an export that finds no entry changes nothing.
OnExportSettled(s) ==
    LET k == calls[s].key IN
    /\ At(s, "export", "callback")
    /\ IF calls[s].ok /\ sub_accounts[k] # None THEN RemoveSubAccount(k)
       ELSE UNCHANGED <<subVars, saleVars, business_sub_count>>
    /\ EndCall(s)
    /\ UNCHANGED <<tlaVars, motherVars, business_sub_cap_override, adminVars,
                   moneyVars, chainVars, now>>

ReclaimNext ==
    \/ \E s \in Slots, k \in Keys : ReclaimFinalize(s, k)
    \/ \E s \in Slots, caller \in Callers, k \in Keys : ExportSubAccount(s, caller, k)
    \/ \E s \in Slots :
          \/ OnBalancesChecked(s)
          \/ OnReclaimFinalized(s)
          \/ OnExportSettled(s)
=============================================================================
