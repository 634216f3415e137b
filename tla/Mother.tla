------------------------------- MODULE Mother -------------------------------
(***************************************************************************)
(* Mothers (tla-registry/src/mother.rs).  Every account may name one       *)
(* account as its mother; a managed account that is somebody's mother can  *)
(* be neither sold, reclaimed nor exported.                                *)
(***************************************************************************)
EXTENDS Registry

IncrementMotherUse(count, account) == [count EXCEPT ![account] = @ + 1]
\* Mutant: the mother that is left stays counted.
KeepMotherUse(count, account) == count

DecrementMotherUse(count, account) == [count EXCEPT ![account] = Monus(@, 1)]

\* ensure_mother_default: a first-time renter becomes their own mother, and
\* counts as one if they are themselves a managed account.
EnsureMotherDefault(user) ==
    IF mothers[user] # None THEN UNCHANGED motherVars
    ELSE /\ mothers' = [mothers EXCEPT ![user] = user]
         /\ mother_use_count' =
              IF IsManaged(user) THEN IncrementMotherUse(mother_use_count, user)
              ELSE mother_use_count

\* The count of the mother that is left goes down whether or not it was ever
\* counted; the count of the new one goes up only if it is managed.
SetMother(caller, new_mother) ==
    /\ ~paused
    /\ IsManaged(new_mother) =>
         /\ sub_accounts[new_mother].owner = caller
         /\ tlas[TlaOf[new_mother]] # None
         /\ ~Reclaimable(new_mother)
    /\ mothers[caller] # new_mother
    /\ mothers' = [mothers EXCEPT ![caller] = new_mother]
    /\ LET released == IF mothers[caller] = None THEN mother_use_count
                       ELSE DecrementMotherUse(mother_use_count, mothers[caller])
       IN  mother_use_count' = IF IsManaged(new_mother)
                               THEN IncrementMotherUse(released, new_mother)
                               ELSE released
    /\ UNCHANGED <<tlaVars, subVars, saleVars, businessVars, adminVars, moneyVars,
                   chainVars, calls, now>>

AdminClearMother(caller, user) ==
    /\ caller \in admins
    /\ mothers[user] # None
    /\ mothers' = [mothers EXCEPT ![user] = None]
    /\ mother_use_count' = DecrementMotherUse(mother_use_count, mothers[user])
    /\ UNCHANGED <<tlaVars, subVars, saleVars, businessVars, adminVars, moneyVars,
                   chainVars, calls, now>>

MotherNext ==
    \/ \E caller \in Callers, m \in Accounts : SetMother(caller, m)
    \/ \E caller \in Callers, u \in Accounts : AdminClearMother(caller, u)
=============================================================================
