-------------------------- MODULE SubAccountLocker --------------------------
(***************************************************************************)
(* The locker contract on the account of a key (sub-account-locker).  Only *)
(* the registry's receipts get past its assert_registry.  A receipt at an  *)
(* account that does not exist fails like one the locker rejects.          *)
(***************************************************************************)
EXTENDS Registry

\* Mutant: only a deleted account refuses.
NotDeleted(k) == locker[k].state # "Absent"

Held(k) == locker[k].state = "Held"

\* Mutant: the new key is not stored.
TransferOwnershipForgetsKey(s) ==
    /\ At(s, "buy", "dispatch")
    /\ Advance(s, "callback", Held(calls[s].key))
    /\ UNCHANGED <<tlaVars, subVars, saleVars, motherVars, businessVars,
                   adminVars, moneyVars, chainVars, now>>

TransferOwnership(s) ==
    LET k == calls[s].key IN
    /\ At(s, "buy", "dispatch")
    /\ locker' = IF Held(k) THEN [locker EXCEPT ![k].owner_key = calls[s].who]
                 ELSE locker
    /\ Advance(s, "callback", Held(k))
    /\ UNCHANGED <<tlaVars, subVars, saleVars, motherVars, businessVars,
                   adminVars, moneyVars, ft, now>>

\* Mutant: the state of the locker is not looked at.
FinalizeDeleteUnguarded(s) ==
    /\ At(s, "reclaim", "dispatch")
    /\ Advance(s, "effect", TRUE)
    /\ UNCHANGED <<tlaVars, subVars, saleVars, motherVars, businessVars,
                   adminVars, moneyVars, chainVars, now>>

\* finalize_delete leaves the state Held and has the account delete itself in
\* a receipt of its own.
FinalizeDelete(s) ==
    /\ At(s, "reclaim", "dispatch")
    /\ IF Held(calls[s].key) THEN Advance(s, "effect", TRUE)
       ELSE Advance(s, "callback", FALSE)
    /\ UNCHANGED <<tlaVars, subVars, saleVars, motherVars, businessVars,
                   adminVars, moneyVars, chainVars, now>>

\* DeleteAccount.  Its NEAR goes to the destination, its tokens do not.
DeleteAccount(s) ==
    LET k == calls[s].key IN
    /\ At(s, "reclaim", "effect")
    /\ Advance(s, "callback", locker[k] # NoLocker)
    /\ locker' = [locker EXCEPT ![k] = NoLocker]
    /\ UNCHANGED <<tlaVars, subVars, saleVars, motherVars, businessVars,
                   adminVars, moneyVars, ft, now>>

Export(s) ==
    LET k == calls[s].key IN
    /\ At(s, "export", "dispatch")
    /\ locker' = IF Held(k) THEN [locker EXCEPT ![k].state = "Exporting"] ELSE locker
    /\ IF Held(k) THEN Advance(s, "effect", TRUE) ELSE Advance(s, "callback", FALSE)
    /\ UNCHANGED <<tlaVars, subVars, saleVars, motherVars, businessVars,
                   adminVars, moneyVars, ft, now>>

\* AddKey.  The account executes its own receipts in the order it issued them,
\* so a DeleteAccount issued while it was still Held comes first.
AddFullAccessKey(s) ==
    LET k == calls[s].key IN
    /\ At(s, "export", "effect")
    /\ ~\E d \in InFlight(k) : At(d, "reclaim", "effect")
    /\ \/ Advance(s, "resolve", locker[k] # NoLocker)
       \/ AddKeyMayFail /\ Advance(s, "resolve", FALSE)
    /\ UNCHANGED <<tlaVars, subVars, saleVars, motherVars, businessVars,
                   adminVars, moneyVars, chainVars, now>>

\* The callback on AddKey returns normally in both cases, and it is its result
\* that the registry sees; only if the account is gone does it fail.
OnExportResolved(s) ==
    LET k == calls[s].key
        exists == locker[k] # NoLocker
    IN  /\ At(s, "export", "resolve")
        /\ locker' = IF ~exists THEN locker
                     ELSE [locker EXCEPT ![k].state =
                             IF calls[s].ok THEN "Exported" ELSE "Held"]
        /\ Advance(s, "callback", exists)
        /\ UNCHANGED <<tlaVars, subVars, saleVars, motherVars, businessVars,
                       adminVars, moneyVars, ft, now>>

LockerNext ==
    \E s \in Slots :
        \/ TransferOwnership(s)
        \/ FinalizeDelete(s)
        \/ DeleteAccount(s)
        \/ Export(s)
        \/ AddFullAccessKey(s)
        \/ OnExportResolved(s)
=============================================================================
