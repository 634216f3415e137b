------------------------------ MODULE MC_Resale ------------------------------
(***************************************************************************)
(* Unlocks for two buyers and aborts, several at once, on locked accounts. *)
(***************************************************************************)
EXTENDS ResaleLocker

CONSTANTS recovery, locked2

MCRecoveryKey == [a \in LockedAccounts |-> recovery]

\* Locks meet only where requests take each other's slots: the second one is never
\* sold, only aborted.
LiveResaleNext ==
    \/ \E s \in RequestSlots, a \in LockedAccounts : ResaleAbort(s, a)
    \/ \E s \in RequestSlots, a \in LockedAccounts \ {locked2}, k \in PublicKeys :
          ResaleUnlock(s, a, k)
    \/ \E s \in RequestSlots : DeliverRequest(s)
    \/ \E a \in LockedAccounts : TakeOver(a)

LiveResaleSpec ==
    ResaleInit /\ [][LiveResaleNext]_resaleVars /\ RequestDelivery /\ Persistence
==============================================================================
