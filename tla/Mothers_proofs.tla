--------------------------- MODULE Mothers_proofs ---------------------------
(***************************************************************************)
(* The use count of a mother is never above the number of its children.    *)
(* A step that gives an account a new mother moves it from the children of *)
(* the old one to those of the new one, and moves at most one unit of the  *)
(* count along with it.  For a mother that was managed before anybody      *)
(* named her, exactly one: her count is the number of her children.        *)
(***************************************************************************)
EXTENDS Properties, Types_proofs

LEMMA ChildrenFinite ==
    ASSUME NEW a
    PROVE  IsFiniteSet(Children(a)) /\ Cardinality(Children(a)) \in Nat
<1>1. IsFiniteSet(Accounts)
  BY FS_Union, RegistryAssumption DEF Accounts
<1>2. Children(a) \in SUBSET Accounts
  BY DEF Children
<1> QED  BY <1>1, <1>2, FS_Subset, FS_CardinalityType

\* user, whose mother was another, gets the mother new, or none.
LEMMA ChildrenMoved ==
    ASSUME TypeOK, NEW user \in Accounts, NEW new \in Accounts \cup {None},
           new # mothers[user], mothers' = [mothers EXCEPT ![user] = new],
           NEW a \in Accounts
    PROVE  /\ a = mothers[user] =>
                /\ Cardinality(Children(a)') = Cardinality(Children(a)) - 1
                /\ Cardinality(Children(a)) > 0
           /\ a = new =>
                Cardinality(Children(a)') = Cardinality(Children(a)) + 1
           /\ a \notin {new, mothers[user]} => Children(a)' = Children(a)
<1>1. ASSUME a = mothers[user]
      PROVE  /\ Cardinality(Children(a)') = Cardinality(Children(a)) - 1
             /\ Cardinality(Children(a)) > 0
  <2>1. user \in Children(a) /\ Children(a)' = Children(a) \ {user}
    BY <1>1 DEF TypeOK, Children
  <2>2. Cardinality(Children(a)) # 0
    BY <2>1, ChildrenFinite, FS_EmptySet
  <2> QED  BY <2>1, <2>2, ChildrenFinite, FS_RemoveElement
<1>2. ASSUME a = new
      PROVE  Cardinality(Children(a)') = Cardinality(Children(a)) + 1
  <2>1. user \notin Children(a) /\ Children(a)' = Children(a) \cup {user}
    BY <1>2 DEF TypeOK, Children
  <2> QED  BY <2>1, ChildrenFinite, FS_AddElement
<1>3. ASSUME a \notin {new, mothers[user]}
      PROVE  Children(a)' = Children(a)
  BY <1>3 DEF TypeOK, Children
<1> QED  BY <1>1, <1>2, <1>3

\* The count may follow the child: down at the old mother, up at the new one.
LEMMA CountMoved ==
    ASSUME TypeOK, MotherCountBounded, NEW user \in Accounts,
           NEW new \in Accounts \cup {None}, new # mothers[user],
           mothers' = [mothers EXCEPT ![user] = new],
           mother_use_count' \in [Accounts -> Nat],
           \A a \in Accounts :
             /\ a = mothers[user] => mother_use_count'[a] = Monus(mother_use_count[a], 1)
             /\ a = new => mother_use_count'[a] <= mother_use_count[a] + 1
             /\ a \notin {new, mothers[user]} => mother_use_count'[a] = mother_use_count[a]
    PROVE  MotherCountBounded'
<1> SUFFICES ASSUME NEW a \in Accounts
             PROVE  mother_use_count'[a] <= Cardinality(Children(a)')
  BY DEF MotherCountBounded
<1>1. mother_use_count[a] \in Nat /\ mother_use_count[a] <= Cardinality(Children(a))
  BY DEF TypeOK, MotherCountBounded
<1>2. Cardinality(Children(a)) \in Nat
  BY ChildrenFinite
<1>3. CASE a = mothers[user]
  <2>1. /\ Cardinality(Children(a)') = Cardinality(Children(a)) - 1
        /\ Cardinality(Children(a)) > 0
    BY <1>3, ChildrenMoved
  <2> QED  BY <1>1, <1>2, <1>3, <2>1 DEF Monus
<1>4. CASE a = new
  <2>1. Cardinality(Children(a)') = Cardinality(Children(a)) + 1
    BY <1>4, ChildrenMoved
  <2>2. mother_use_count'[a] \in Nat /\ mother_use_count'[a] <= mother_use_count[a] + 1
    BY <1>4
  <2> QED  BY <1>1, <1>2, <2>1, <2>2
<1>5. CASE a \notin {new, mothers[user]}
  BY <1>1, <1>5, ChildrenMoved
<1> QED  BY <1>3, <1>4, <1>5

LEMMA MothersUntouched ==
    ASSUME MotherCountBounded, UNCHANGED motherVars
    PROVE  MotherCountBounded'
BY DEF MotherCountBounded, Children, motherVars

-----------------------------------------------------------------------------
(* The three steps that change a mother.                                   *)

LEMMA EnsureBounded ==
    ASSUME TypeOK, MotherCountBounded, TypeOK', NEW user \in Accounts,
           EnsureMotherDefault(user)
    PROVE  MotherCountBounded'
<1>1. CASE mothers[user] # None
  BY <1>1, MothersUntouched DEF EnsureMotherDefault
<1>2. CASE mothers[user] = None
  <2>1. mothers' = [mothers EXCEPT ![user] = user] /\ user # mothers[user]
    BY <1>2, RegistryAssumption DEF EnsureMotherDefault
  <2>2. \A a \in Accounts :
          /\ a # mothers[user]
          /\ a = user => mother_use_count'[a] <= mother_use_count[a] + 1
          /\ a # user => mother_use_count'[a] = mother_use_count[a]
    BY <1>2, RegistryAssumption DEF TypeOK, EnsureMotherDefault, IncrementMotherUse
  <2>3. mother_use_count' \in [Accounts -> Nat]
    BY DEF TypeOK
  <2>4. \A a \in Accounts :
          /\ a = mothers[user] => mother_use_count'[a] = Monus(mother_use_count[a], 1)
          /\ a = user => mother_use_count'[a] <= mother_use_count[a] + 1
          /\ a \notin {user, mothers[user]} => mother_use_count'[a] = mother_use_count[a]
    BY <2>2
  <2> QED  BY <2>1, <2>3, <2>4, CountMoved
<1> QED  BY <1>1, <1>2

LEMMA SetMotherBounded ==
    ASSUME TypeOK, MotherCountBounded, TypeOK', NEW caller \in Callers, NEW m \in Accounts,
           SetMother(caller, m)
    PROVE  MotherCountBounded'
<1>1. caller \in Accounts
  BY CallerType
<1>2. mothers' = [mothers EXCEPT ![caller] = m] /\ m # mothers[caller]
  BY DEF SetMother
<1> DEFINE released == IF mothers[caller] = None THEN mother_use_count
                       ELSE DecrementMotherUse(mother_use_count, mothers[caller])
<1>3. /\ DOMAIN released = Accounts
      /\ \A a \in Accounts :
           released[a] = IF a = mothers[caller] THEN Monus(mother_use_count[a], 1)
                         ELSE mother_use_count[a]
  BY <1>1, RegistryAssumption DEF TypeOK, DecrementMotherUse
<1>4. mother_use_count' \in {released, IncrementMotherUse(released, m)}
  BY DEF SetMother
<1> HIDE DEF released
<1>5. \A a \in Accounts :
        /\ a # m => mother_use_count'[a] = released[a]
        /\ a = m => mother_use_count'[a] \in {released[a], released[a] + 1}
  BY <1>3, <1>4 DEF IncrementMotherUse
<1>6. \A a \in Accounts :
        /\ a = mothers[caller] => mother_use_count'[a] = Monus(mother_use_count[a], 1)
        /\ a = m => mother_use_count'[a] <= mother_use_count[a] + 1
        /\ a \notin {m, mothers[caller]} => mother_use_count'[a] = mother_use_count[a]
  BY <1>2, <1>3, <1>5 DEF TypeOK
<1>7. mother_use_count' \in [Accounts -> Nat]
  BY DEF TypeOK
<1> QED  BY <1>1, <1>2, <1>6, <1>7, CountMoved

LEMMA ClearMotherBounded ==
    ASSUME TypeOK, MotherCountBounded, TypeOK', NEW caller \in Callers, NEW u \in Accounts,
           AdminClearMother(caller, u)
    PROVE  MotherCountBounded'
<1>1. mothers' = [mothers EXCEPT ![u] = None] /\ mothers[u] # None
  BY DEF AdminClearMother
<1>2. \A a \in Accounts :
        /\ a # None
        /\ a = mothers[u] => mother_use_count'[a] = Monus(mother_use_count[a], 1)
        /\ a # mothers[u] => mother_use_count'[a] = mother_use_count[a]
  BY RegistryAssumption DEF TypeOK, AdminClearMother, DecrementMotherUse
<1>3. mother_use_count' \in [Accounts -> Nat]
  BY DEF TypeOK
<1>4. \A a \in Accounts :
        /\ a = mothers[u] => mother_use_count'[a] = Monus(mother_use_count[a], 1)
        /\ a = None => mother_use_count'[a] <= mother_use_count[a] + 1
        /\ a \notin {None, mothers[u]} => mother_use_count'[a] = mother_use_count[a]
  BY <1>2
<1> QED  BY <1>1, <1>3, <1>4, CountMoved

-----------------------------------------------------------------------------
\* Few steps look at mothers.
LEMMA MotherSteps ==
    ASSUME TypeOK, [Next]_vars
    PROVE  \/ UNCHANGED motherVars
           \/ \E user \in Accounts : EnsureMotherDefault(user)
           \/ \E caller \in Callers, m \in Accounts : SetMother(caller, m)
           \/ \E caller \in Callers, u \in Accounts : AdminClearMother(caller, u)
<1>1. CASE UNCHANGED vars
  BY <1>1 DEF vars
<1>2. CASE MotherNext
  BY <1>2 DEF MotherNext
<1>3. ASSUME NEW s \in Slots, NEW caller \in Callers, NEW k \in Keys, NEW w \in Accounts,
             NEW d \in Deposits, RentSubAccount(s, caller, k, w, d)
      PROVE  \E user \in Accounts : EnsureMotherDefault(user)
  BY <1>3, CallerType DEF RentSubAccount
<1>4. CASE RentalNext
  <2>1. ASSUME ~\E s \in Slots, caller \in Callers, k \in Keys, w \in Accounts,
                   d \in Deposits : RentSubAccount(s, caller, k, w, d)
        PROVE  UNCHANGED motherVars
    BY <1>4, <2>1 DEF RentalNext, ActivateTla, RenewTla, RenewSubAccount, SetMainWallet,
       CreateSubAccount, CreateAccountBatch, OnSubAccountCreated,
       OnSubAccountCreatedPanics, OnSubAccountCreationFailed
  <2> QED  BY <1>3, <2>1
<1>5. CASE BusinessNext \/ LockerNext \/ SweepNext \/ ReclaimNext \/ MarketplaceNext
  BY <1>5 DEF BusinessNext, ScheduleRetraction, CancelRetraction, SetBusinessSubCap,
     LockerNext, TransferOwnership, FinalizeDelete, DeleteAccount, Export,
     AddFullAccessKey, OnExportResolved,
     SweepNext, ReclaimSweepFt, SweepFt, MeasureBalance, AfterBalanceQuery,
     DepositStorage, AfterStorageDeposit, TransferTokens,
     ReclaimNext, ReclaimFinalize, ExportSubAccount, OnBalancesChecked,
     OnReclaimFinalized, OnExportSettled,
     MarketplaceNext, ListSubAccount, AcceptOffer, UnlistSubAccount, RevokeOffer,
     BuySubAccount, OnBuyBalancesChecked, OnSaleFailed, OnSubAccountSold
<1>6. CASE RefundsNext \/ AdminNext \/ EnvironmentNext
  BY <1>6 DEF RefundsNext, ClaimRefund, TransferRefund, OnClaimRefundSettled, Withdraw,
     AdminNext, RegisterTla, ActivateOpenTla, SuspendTla, UnsuspendTla,
     AddAdmin, RemoveAdmin, SetAdmins, UpdateFeeConfig, SetPaused,
     AddFtAllowlist, RemoveFtAllowlist, AddNftAllowlist, RemoveNftAllowlist,
     EnvironmentNext, QueryNext, QueryBalance, DepositToken, Tick
<1> QED  BY <1>1, <1>2, <1>4, <1>5, <1>6 DEF Next

LEMMA BoundedNext ==
    ASSUME TypeOK, MotherCountBounded, [Next]_vars
    PROVE  MotherCountBounded'
BY TypeNext, MotherSteps, MothersUntouched, EnsureBounded, SetMotherBounded, ClearMotherBounded

\* However mothers are declared, changed, cleared and defaulted to, and whichever
\* of them are or become managed accounts on the way, no account is counted as the
\* mother of more accounts than name it: nothing stays unsellable and unreclaimable
\* once all its children have left it.
THEOREM MotherCountsAreBounded == Spec => []MotherCountBounded
<1>1. Init => MotherCountBounded
  <2> SUFFICES ASSUME Init, NEW a \in Accounts
               PROVE  mother_use_count[a] <= Cardinality(Children(a))
    BY DEF MotherCountBounded
  <2>1. mother_use_count[a] = 0
    BY DEF Init, Start
  <2> QED  BY <2>1, ChildrenFinite
<1>2. TypeOK /\ MotherCountBounded /\ [Next]_vars => MotherCountBounded'
  BY BoundedNext
<1> QED  BY <1>1, <1>2, TypeCorrect, PTL DEF Spec

-----------------------------------------------------------------------------
(* Of the accounts that the registry manages, every child is counted.      *)

CountedExactly ==
    \A k \in Keys : sub_accounts[k] # None => mother_use_count[k] = Cardinality(Children(k))

\* The count follows the child.
LEMMA CountFollows ==
    ASSUME TypeOK, CountedExactly, NEW k \in Keys, sub_accounts[k] # None,
           NEW user \in Accounts, NEW new \in Accounts \cup {None}, new # mothers[user],
           mothers' = [mothers EXCEPT ![user] = new],
           k = mothers[user] => mother_use_count'[k] = Monus(mother_use_count[k], 1),
           k = new => mother_use_count'[k] = mother_use_count[k] + 1,
           k \notin {new, mothers[user]} => mother_use_count'[k] = mother_use_count[k]
    PROVE  mother_use_count'[k] = Cardinality(Children(k)')
<1>1. k \in Accounts /\ mother_use_count[k] = Cardinality(Children(k))
  BY DEF CountedExactly, Accounts
<1>2. Cardinality(Children(k)) \in Nat
  BY ChildrenFinite
<1>3. CASE k = mothers[user]
  <2>1. /\ Cardinality(Children(k)') = Cardinality(Children(k)) - 1
        /\ Cardinality(Children(k)) > 0
    BY <1>1, <1>3, ChildrenMoved
  <2> QED  BY <1>1, <1>2, <1>3, <2>1 DEF Monus
<1>4. CASE k = new
  BY <1>1, <1>4, ChildrenMoved
<1>5. CASE k \notin {new, mothers[user]}
  BY <1>1, <1>5, ChildrenMoved
<1> QED  BY <1>3, <1>4, <1>5

LEMMA ManagedCount ==
    ASSUME TypeOK, CountedExactly, [Next]_vars, NEW k \in Keys, sub_accounts[k] # None
    PROVE  mother_use_count'[k] = Cardinality(Children(k)')
<1>1. k \in Accounts /\ IsManaged(k)
  BY DEF Accounts, IsManaged
<1>2. CASE UNCHANGED motherVars
  BY <1>2 DEF CountedExactly, Children, motherVars
<1>3. ASSUME NEW user \in Accounts, EnsureMotherDefault(user), mothers[user] = None
      PROVE  mother_use_count'[k] = Cardinality(Children(k)')
  <2>1. mothers' = [mothers EXCEPT ![user] = user] /\ user # mothers[user]
    BY <1>3, RegistryAssumption DEF EnsureMotherDefault
  <2>2. /\ k # mothers[user]
        /\ k = user => mother_use_count'[k] = mother_use_count[k] + 1
        /\ k # user => mother_use_count'[k] = mother_use_count[k]
    BY <1>1, <1>3, RegistryAssumption DEF TypeOK, EnsureMotherDefault, IncrementMotherUse
  <2> QED  BY <2>1, <2>2, CountFollows
<1>4. ASSUME NEW caller \in Callers, NEW m \in Accounts, SetMother(caller, m)
      PROVE  mother_use_count'[k] = Cardinality(Children(k)')
  <2>1. caller \in Accounts
    BY CallerType
  <2>2. mothers' = [mothers EXCEPT ![caller] = m] /\ m # mothers[caller]
    BY <1>4 DEF SetMother
  <2> DEFINE released == IF mothers[caller] = None THEN mother_use_count
                         ELSE DecrementMotherUse(mother_use_count, mothers[caller])
  <2>3. /\ DOMAIN released = Accounts
        /\ released[k] = IF k = mothers[caller] THEN Monus(mother_use_count[k], 1)
                         ELSE mother_use_count[k]
    BY <1>1, <2>1, RegistryAssumption DEF TypeOK, DecrementMotherUse
  <2>4. mother_use_count' = IF IsManaged(m) THEN IncrementMotherUse(released, m) ELSE released
    BY <1>4 DEF SetMother
  <2> HIDE DEF released
  <2>5. /\ k # m => mother_use_count'[k] = released[k]
        /\ k = m => mother_use_count'[k] = released[k] + 1
    BY <1>1, <2>3, <2>4 DEF IncrementMotherUse
  <2> QED  BY <2>1, <2>2, <2>3, <2>5, CountFollows
<1>5. ASSUME NEW caller \in Callers, NEW u \in Accounts, AdminClearMother(caller, u)
      PROVE  mother_use_count'[k] = Cardinality(Children(k)')
  <2>1. mothers' = [mothers EXCEPT ![u] = None] /\ mothers[u] # None /\ k # None
    BY <1>1, <1>5, RegistryAssumption DEF AdminClearMother
  <2>2. /\ k = mothers[u] => mother_use_count'[k] = Monus(mother_use_count[k], 1)
        /\ k # mothers[u] => mother_use_count'[k] = mother_use_count[k]
    BY <1>1, <1>5 DEF TypeOK, AdminClearMother, DecrementMotherUse
  <2> QED  BY <2>1, <2>2, CountFollows
<1> QED  BY <1>2, <1>3, <1>4, <1>5, MotherSteps DEF EnsureMotherDefault

\* If nobody names an account their mother before the registry manages it, then for
\* as long as it is managed each account that names it counts, whatever else becomes
\* of the mothers: a name whose own owner names it stays out of sale and of reclaim.
THEOREM MothersStayCounted == Spec /\ NamedOnceManaged => MotherStaysCounted
<1> DEFINE Named ==
             \A k \in Keys : sub_accounts[k] = None /\ sub_accounts'[k] # None
                             => Children(k)' = {}
<1>1. Init => CountedExactly
  BY DEF Init, Start, CountedExactly
<1>2. /\ TypeOK /\ TypeOK' /\ MotherCountBounded' /\ CountedExactly
      /\ [Next]_vars /\ [Named]_vars
      => CountedExactly'
  <2> SUFFICES ASSUME TypeOK, TypeOK', MotherCountBounded', CountedExactly,
                      [Next]_vars, [Named]_vars, NEW k \in Keys, sub_accounts'[k] # None
               PROVE  mother_use_count'[k] = Cardinality(Children(k)')
    BY DEF CountedExactly
  <2>1. CASE sub_accounts[k] # None
    BY <2>1, ManagedCount
  <2>2. CASE sub_accounts[k] = None
    <3>1. Children(k)' = {}
      BY <2>2 DEF vars, subVars
    <3>2. mother_use_count'[k] \in Nat /\ mother_use_count'[k] <= Cardinality(Children(k)')
      BY DEF TypeOK, MotherCountBounded, Accounts
    <3> QED  BY <3>1, <3>2, FS_EmptySet
  <2> QED  BY <2>1, <2>2
<1>3. TypeOK /\ TypeOK' /\ CountedExactly /\ [Next]_vars
      => [\A k \in Keys :
            LET owner == sub_accounts[k].owner IN
            /\ SameTenancy(k)
            /\ sub_accounts'[k].owner = owner
            /\ IsMother(k)
            /\ mothers[owner] = k
            /\ mothers'[owner] = k
            => IsMother(k)']_vars
  <2> SUFFICES ASSUME TypeOK, TypeOK', CountedExactly, [Next]_vars, NEW k \in Keys,
                      SameTenancy(k), mothers'[sub_accounts[k].owner] = k
               PROVE  IsMother(k)'
    OBVIOUS
  <2>1. sub_accounts[k] # None /\ sub_accounts[k].owner \in Accounts
    BY DEF SameTenancy, TypeOK, SubAccountEntry
  <2>2. mother_use_count'[k] = Cardinality(Children(k)')
    BY <2>1, ManagedCount
  <2>3. Children(k)' # {}
    BY <2>1 DEF Children
  <2>4. IsFiniteSet(Children(k)') /\ Cardinality(Children(k)') \in Nat
    <3>1. IsFiniteSet(Accounts)
      BY FS_Union, RegistryAssumption DEF Accounts
    <3>2. Children(k)' \in SUBSET Accounts
      BY DEF Children
    <3> QED  BY <3>1, <3>2, FS_Subset, FS_CardinalityType
  <2>5. Cardinality(Children(k)') # 0
    BY <2>3, <2>4, FS_EmptySet
  <2> QED  BY <2>2, <2>4, <2>5 DEF IsMother
<1> QED
  BY <1>1, <1>2, <1>3, TypeCorrect, MotherCountsAreBounded, PTL
  DEF Spec, NamedOnceManaged, MotherStaysCounted
=============================================================================
