------------------------------- MODULE Custody -------------------------------
(***************************************************************************)
(* What becomes of a name, as the registry, the managers and the lockers   *)
(* promise it between them: somebody takes it, an account is founded for   *)
(* it, it may change hands, and in the end the account is deleted or set   *)
(* free and the registry releases the name.  The registry's view (holder)  *)
(* and the account are changed in different steps, and chain says which of *)
(* the steps a promise chain has taken on one side and not yet on the      *)
(* other; fees, terms, clocks, tokens and permissions are left out.        *)
(***************************************************************************)
EXTENDS Naturals

CONSTANTS Names, People, Chains, None, KeyMayFail

VARIABLES
    holder,   \* whom the registry has the name entered for, or None
    account,  \* the account of the name and the locker on it
    chain     \* what each promise chain has still to do

custody == <<holder, account, chain>>

States == {"Absent", "Held", "Exporting", "Exported"}
NoAccount == [state |-> "Absent", owner_key |-> None]

(***************************************************************************)
(*   renting    a name is entered, its account is not founded              *)
(*   selling    a sale has begun, the locker is not asked yet              *)
(*   handed     the locker has the buyer's key, the registry not           *)
(*   deleting   the locker has agreed to the account's deletion            *)
(*   deleted    the account is deleted, the name not released              *)
(*   exporting  the locker has issued the key for the owner                *)
(*   keyed, unkeyed                                                        *)
(*              that key is, or is not, on the account                     *)
(*   exported   the locker has settled the export, the registry not        *)
(***************************************************************************)
Selling == {"selling", "handed"}
Exporting == {"exporting", "keyed", "unkeyed"}
Duties == {"renting", "deleting", "deleted", "exported"} \cup Selling \cup Exporting

Chain == [does : Duties, name : Names, who : People \cup {None}]
Idle == [does |-> "nothing", name |-> None, who |-> None]

Does(c, duties, n) == chain[c].does \in duties /\ chain[c].name = n

Busy(n, duties) == \E c \in Chains : Does(c, duties, n)

Begin(c, duty, n, p) ==
    /\ chain[c] = Idle
    /\ chain' = [chain EXCEPT ![c] = [does |-> duty, name |-> n, who |-> p]]

GoOn(c, duty) == chain' = [chain EXCEPT ![c].does = duty]

End(c) == chain' = [chain EXCEPT ![c] = Idle]

-----------------------------------------------------------------------------

Init ==
    /\ holder \in [Names -> People \cup {None}]
    /\ account = [n \in Names |->
                    IF holder[n] = None THEN NoAccount
                    ELSE [state |-> "Held", owner_key |-> holder[n]]]
    /\ chain = [c \in Chains |-> Idle]

Take(c, n, p) ==
    /\ holder[n] = None
    /\ holder' = [holder EXCEPT ![n] = p]
    /\ Begin(c, "renting", n, p)
    /\ UNCHANGED account

\* Not while anything is under way at an account the name had before.
Found(c) ==
    LET n == chain[c].name IN
    /\ chain[c].does = "renting"
    /\ account[n] = NoAccount
    /\ ~Busy(n, {"deleting"} \cup Exporting)
    /\ account' = [account EXCEPT ![n] = [state |-> "Held", owner_key |-> chain[c].who]]
    /\ End(c)
    /\ UNCHANGED holder

BeginSale(c, n, p) == Begin(c, "selling", n, p) /\ UNCHANGED <<holder, account>>

HandOver(c) ==
    LET n == chain[c].name IN
    /\ chain[c].does = "selling"
    /\ account[n].state = "Held"
    /\ account' = [account EXCEPT ![n].owner_key = chain[c].who]
    /\ GoOn(c, "handed")
    /\ UNCHANGED holder

Sell(c) ==
    LET n == chain[c].name IN
    /\ chain[c].does = "handed"
    /\ holder[n] # None
    /\ holder' = [holder EXCEPT ![n] = chain[c].who]
    /\ End(c)
    /\ UNCHANGED account

\* A buyer who has the key is refused the name only if it has been released.
CallOff(c) ==
    /\ \/ chain[c].does = "selling"
       \/ chain[c].does = "handed" /\ holder[chain[c].name] = None
    /\ End(c)
    /\ UNCHANGED <<holder, account>>

BeginDelete(c, n) ==
    /\ account[n].state = "Held"
    /\ Begin(c, "deleting", n, None)
    /\ UNCHANGED <<holder, account>>

\* Of two deletions the second finds nothing to delete.
Delete(c) ==
    LET n == chain[c].name IN
    /\ chain[c].does = "deleting"
    /\ account' = [account EXCEPT ![n] = NoAccount]
    /\ IF account[n] = NoAccount THEN End(c) ELSE GoOn(c, "deleted")
    /\ UNCHANGED holder

BeginExport(c, n) ==
    /\ account[n].state = "Held"
    /\ account' = [account EXCEPT ![n].state = "Exporting"]
    /\ Begin(c, "exporting", n, None)
    /\ UNCHANGED holder

\* The account adds the key after it has executed what it issued before.
AddKey(c) ==
    LET n == chain[c].name IN
    /\ chain[c].does = "exporting"
    /\ ~Busy(n, {"deleting"})
    /\ \/ account[n] # NoAccount /\ GoOn(c, "keyed")
       \/ (account[n] = NoAccount \/ KeyMayFail) /\ GoOn(c, "unkeyed")
    /\ UNCHANGED <<holder, account>>

Resolve(c) ==
    LET n == chain[c].name IN
    /\ chain[c].does \in {"keyed", "unkeyed"}
    /\ IF account[n] = NoAccount THEN End(c) /\ UNCHANGED account
       ELSE /\ account' = [account EXCEPT ![n].state =
                             IF chain[c].does = "keyed" THEN "Exported" ELSE "Held"]
            /\ GoOn(c, "exported")
    /\ UNCHANGED holder

\* The account could not be founded, or it is gone or free.
Release(c) ==
    /\ chain[c].does \in {"renting", "deleted", "exported"}
    /\ holder' = [holder EXCEPT ![chain[c].name] = None]
    /\ End(c)
    /\ UNCHANGED account

Next ==
    \E c \in Chains :
        \/ \E n \in Names, p \in People : Take(c, n, p) \/ BeginSale(c, n, p)
        \/ \E n \in Names : BeginDelete(c, n) \/ BeginExport(c, n)
        \/ Found(c) \/ HandOver(c) \/ Sell(c) \/ CallOff(c)
        \/ Delete(c) \/ AddKey(c) \/ Resolve(c) \/ Release(c)

Spec == Init /\ [][Next]_custody

-----------------------------------------------------------------------------
(* What follows.                                                           *)

\* A free account is nobody's to change or delete.
FreeForGood ==
    [][\A n \in Names : account[n].state = "Exported" => account'[n] = account[n]]_custody

\* A key that has been issued fails to be added only if there is no account.
KeyLands(n) ==
    \A c \in Chains :
        Does(c, {"exporting"}, n) /\ chain'[c].does = "unkeyed" => account[n] = NoAccount

\* No key has failed for any name of N.  What follows is said of such names.
KeysLand(N) == [][\A n \in N : KeyLands(n)]_custody

\* The registry releases a name only while it has it entered.
ReleasesEntered(N) ==
    \A n \in N, c \in Chains : Does(c, {"renting", "deleted", "exported"}, n) => holder[n] # None

\* It releases no account as exported whose owner has not got the key.
ExportedIsFree(N) ==
    \A n \in N : Busy(n, {"exported"}) => account[n].state = "Exported"

\* With nothing under way for a name, its holder has its account.
Agreed(N) ==
    \A n \in N : ~Busy(n, Duties) =>
        IF holder[n] = None THEN account[n].state \in {"Absent", "Exported"}
        ELSE account[n] = [state |-> "Held", owner_key |-> holder[n]]

\* Whom the registry is to enter for a name that is sold has the account already.
HandedOver(N) ==
    \A n \in N, c \in Chains : Does(c, {"handed"}, n) =>
        account[n] # NoAccount /\ account[n].owner_key = chain[c].who

\* A name is sold to one buyer at a time; nobody takes it during its sale, and its
\* account is not deleted then.
OneSale ==
    \A n \in Names, c, d \in Chains : Does(c, Selling, n) /\ Does(d, Selling, n) => c = d

NoTakeDuringSale ==
    \A n \in Names : holder[n] = None /\ holder'[n] # None => ~Busy(n, Selling)

TakenAfterSale == [][NoTakeDuringSale]_custody

NoDeleteDuringSale ==
    \A n \in Names :
        account[n] # NoAccount /\ account'[n] = NoAccount => ~Busy(n, Selling)

DeletedAfterSale == [][NoDeleteDuringSale]_custody
==============================================================================
