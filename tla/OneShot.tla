------------------------------- MODULE OneShot -------------------------------
(***************************************************************************)
(* What a resale lock promises: an account is handed over once at most,    *)
(* and then to a key that the registry has asked for, be it a buyer's or   *)
(* the recovery key of the seller.                                         *)
(***************************************************************************)
CONSTANTS LockedAccounts, PublicKeys, Nobody

VARIABLES
    pending,  \* the hand-overs <<account, key>> that were asked for
    holder    \* the key each account was handed to, or Nobody

handover == <<pending, holder>>

Init ==
    /\ pending = {}
    /\ holder = [a \in LockedAccounts |-> Nobody]

Ask(a, k) ==
    /\ pending' = pending \cup {<<a, k>>}
    /\ UNCHANGED holder

\* Refused, or found to be impossible.
Drop(a, k) ==
    /\ pending' = pending \ {<<a, k>>}
    /\ UNCHANGED holder

HandOver(a, k) ==
    /\ holder[a] = Nobody
    /\ <<a, k>> \in pending
    /\ holder' = [holder EXCEPT ![a] = k]
    /\ UNCHANGED pending

Next == \E a \in LockedAccounts, k \in PublicKeys : Ask(a, k) \/ Drop(a, k) \/ HandOver(a, k)

Spec == Init /\ [][Next]_handover
==============================================================================
