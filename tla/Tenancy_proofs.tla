--------------------------- MODULE Tenancy_proofs ---------------------------
(***************************************************************************)
(* Terms and tenancies.  A tenancy that may be reclaimed stays so, and no  *)
(* TLA comes into use but by an activation.  Both rest on TypeOK, on the   *)
(* clock being past the first grace period, and on every tenancy having a  *)
(* TLA; and few steps change a TLA (TlaStep) or an entry (EntryStep).      *)
(* The last part is about the end of a tenancy, the deletion of an account *)
(* and what the reclaim before it has found, of its tokens and of its term.*)
(***************************************************************************)
EXTENDS Properties, Types_proofs

TlaStep ==
    \/ \E caller \in Callers, t \in Tlas, d \in Deposits :
          ActivateTla(caller, t, d) \/ RenewTla(caller, t, d)
    \/ \E caller \in Callers, t \in Tlas :
          \/ \E type \in TlaTypes, premium \in PremiumCategories, l \in Accounts \cup {None} :
                RegisterTla(caller, t, type, premium, l)
          \/ ActivateOpenTla(caller, t)
          \/ SuspendTla(caller, t)
          \/ UnsuspendTla(caller, t)

EntryStep ==
    \/ \E s \in Slots, caller \in Callers, k \in Keys, w \in Accounts, d \in Deposits :
          RentSubAccount(s, caller, k, w, d)
    \/ \E caller \in Callers, k \in Keys, d \in Deposits : RenewSubAccount(caller, k, d)
    \/ \E caller \in Callers, k \in Keys, w \in Accounts : SetMainWallet(caller, k, w)
    \/ \E caller \in Callers, k \in Keys :
          ScheduleRetraction(caller, k) \/ CancelRetraction(caller, k)
    \/ \E s \in Slots :
          \/ OnSubAccountCreationFailed(s)
          \/ OnReclaimFinalized(s)
          \/ OnExportSettled(s)
          \/ OnSubAccountSold(s)

OtherStep == UNCHANGED <<tlas, sub_accounts>> /\ now' \in {now, now + 1}

LEMMA StepKinds ==
    ASSUME [Next]_vars
    PROVE  TlaStep \/ EntryStep \/ OtherStep
<1>1. CASE UNCHANGED vars
  BY <1>1 DEF vars, tlaVars, subVars, OtherStep
<1>2. CASE RentalNext
  BY <1>2 DEF RentalNext, TlaStep, EntryStep, OtherStep, CreateSubAccount, CreateAccountBatch,
     OnSubAccountCreated, OnSubAccountCreatedPanics, tlaVars, subVars
<1>3. CASE BusinessNext
  BY <1>3 DEF BusinessNext, EntryStep, OtherStep, SetBusinessSubCap, tlaVars, subVars
<1>4. CASE MotherNext \/ LockerNext
  BY <1>4 DEF MotherNext, SetMother, AdminClearMother, LockerNext, TransferOwnership,
     FinalizeDelete, DeleteAccount, Export, AddFullAccessKey, OnExportResolved,
     OtherStep, tlaVars, subVars
<1>5. CASE SweepNext
  BY <1>5 DEF SweepNext, ReclaimSweepFt, SweepFt, MeasureBalance, AfterBalanceQuery,
     DepositStorage, AfterStorageDeposit, TransferTokens, OtherStep, tlaVars, subVars
<1>6. CASE ReclaimNext
  BY <1>6 DEF ReclaimNext, ReclaimFinalize, ExportSubAccount, OnBalancesChecked,
     EntryStep, OtherStep, tlaVars, subVars
<1>7. CASE MarketplaceNext
  BY <1>7 DEF MarketplaceNext, ListSubAccount, AcceptOffer, UnlistSubAccount, RevokeOffer,
     BuySubAccount, OnBuyBalancesChecked, OnSaleFailed, EntryStep, OtherStep, tlaVars, subVars
<1>8. CASE RefundsNext
  BY <1>8 DEF RefundsNext, ClaimRefund, TransferRefund, OnClaimRefundSettled, Withdraw,
     OtherStep, tlaVars, subVars
<1>9. CASE AdminNext
  BY <1>9 DEF AdminNext, TlaStep, AddAdmin, RemoveAdmin, SetAdmins, UpdateFeeConfig,
     SetPaused, AddFtAllowlist, RemoveFtAllowlist, AddNftAllowlist, RemoveNftAllowlist,
     OtherStep, tlaVars, subVars
<1>10. CASE EnvironmentNext
  BY <1>10 DEF EnvironmentNext, QueryNext, QueryBalance, DepositToken, Tick,
     OtherStep, tlaVars, subVars
<1> QED
  BY <1>1, <1>2, <1>3, <1>4, <1>5, <1>6, <1>7, <1>8, <1>9, <1>10 DEF Next

LEMMA TlaStepFrame ==
    ASSUME TlaStep
    PROVE  sub_accounts' = sub_accounts /\ now' = now
BY DEF TlaStep, ActivateTla, RenewTla, RegisterTla, ActivateOpenTla, SuspendTla,
       UnsuspendTla, subVars

LEMMA EntryStepFrame ==
    ASSUME EntryStep
    PROVE  tlas' = tlas /\ now' = now
<1>1. ASSUME NEW s \in Slots,
             \/ OnSubAccountCreationFailed(s)
             \/ OnReclaimFinalized(s)
             \/ OnExportSettled(s)
             \/ OnSubAccountSold(s)
      PROVE  tlas' = tlas /\ now' = now
  BY <1>1 DEF OnSubAccountCreationFailed, OnReclaimFinalized, OnExportSettled,
              OnSubAccountSold, tlaVars
<1>2. ASSUME NEW s \in Slots, NEW caller \in Callers, NEW k \in Keys, NEW w \in Accounts,
             NEW d \in Deposits, RentSubAccount(s, caller, k, w, d)
      PROVE  tlas' = tlas /\ now' = now
  BY <1>2 DEF RentSubAccount, tlaVars
<1>3. ASSUME NEW caller \in Callers, NEW k \in Keys, NEW d \in Deposits,
             RenewSubAccount(caller, k, d)
      PROVE  tlas' = tlas /\ now' = now
  BY <1>3 DEF RenewSubAccount, tlaVars
<1>4. ASSUME NEW caller \in Callers, NEW k \in Keys, NEW w \in Accounts,
             SetMainWallet(caller, k, w)
      PROVE  tlas' = tlas /\ now' = now
  BY <1>4 DEF SetMainWallet, tlaVars
<1>5. ASSUME NEW caller \in Callers, NEW k \in Keys,
             ScheduleRetraction(caller, k) \/ CancelRetraction(caller, k)
      PROVE  tlas' = tlas /\ now' = now
  BY <1>5 DEF ScheduleRetraction, CancelRetraction, tlaVars
<1> QED  BY <1>1, <1>2, <1>3, <1>4, <1>5 DEF EntryStep

-----------------------------------------------------------------------------
(* The invariant.                                                          *)

TenanciesOnTlas == \A k \in Keys : sub_accounts[k] # None => tlas[TlaOf[k]] # None

TenancyInv ==
    /\ TypeOK
    /\ now >= GRACE_PERIOD
    /\ TenanciesOnTlas

\* What a step on TLAs may do to one: begin, suspend or renew it.
LEMMA TlaChange ==
    ASSUME TenancyInv, TlaStep, NEW x \in Tlas, tlas[x] # None
    PROVE  \/ tlas'[x] = tlas[x]
           \/ tlas[x].status = "Registered"
           \/ tlas'[x].status = "Suspended" /\ tlas'[x].expires_at = tlas[x].expires_at
           \/ tlas[x].status = "Suspended" /\ tlas'[x].expires_at = tlas[x].expires_at
           \/ ~PastGrace(tlas[x].expires_at, now)
<1>1. tlas[x] \in TlaEntry
  BY DEF TenancyInv, TypeOK
<1>2. ASSUME NEW caller \in Callers, NEW t \in Tlas, NEW d \in Deposits,
             ActivateTla(caller, t, d)
      PROVE  tlas'[x] = tlas[x] \/ tlas[x].status = "Registered"
  BY <1>2 DEF ActivateTla, TenancyInv, TypeOK
<1>3. ASSUME NEW caller \in Callers, NEW t \in Tlas, NEW d \in Deposits,
             RenewTla(caller, t, d)
      PROVE  tlas'[x] = tlas[x] \/ ~PastGrace(tlas[x].expires_at, now)
  BY <1>3 DEF RenewTla, TenancyInv, TypeOK
<1>4. ASSUME NEW caller \in Callers, NEW t \in Tlas, NEW type \in TlaTypes,
             NEW premium \in PremiumCategories, NEW l \in Accounts \cup {None},
             RegisterTla(caller, t, type, premium, l)
      PROVE  tlas'[x] = tlas[x]
  BY <1>4 DEF RegisterTla, TenancyInv, TypeOK
<1>5. ASSUME NEW caller \in Callers, NEW t \in Tlas, ActivateOpenTla(caller, t)
      PROVE  tlas'[x] = tlas[x] \/ tlas[x].status = "Registered"
  BY <1>5 DEF ActivateOpenTla, TenancyInv, TypeOK
<1>6. ASSUME NEW caller \in Callers, NEW t \in Tlas, SuspendTla(caller, t)
      PROVE  \/ tlas'[x] = tlas[x]
             \/ tlas'[x].status = "Suspended" /\ tlas'[x].expires_at = tlas[x].expires_at
  BY <1>1, <1>6 DEF SuspendTla, TenancyInv, TypeOK, TlaEntry
<1>7. ASSUME NEW caller \in Callers, NEW t \in Tlas, UnsuspendTla(caller, t)
      PROVE  \/ tlas'[x] = tlas[x]
             \/ tlas[x].status = "Suspended" /\ tlas'[x].expires_at = tlas[x].expires_at
  BY <1>1, <1>7 DEF UnsuspendTla, TenancyInv, TypeOK, TlaEntry
<1> QED  BY <1>2, <1>3, <1>4, <1>5, <1>6, <1>7 DEF TlaStep

LEMMA TlasStay ==
    ASSUME TenancyInv, TypeOK', [Next]_vars, NEW t \in Tlas, tlas[t] # None
    PROVE  tlas'[t] # None
<1>1. CASE ~TlaStep
  BY <1>1, StepKinds, EntryStepFrame DEF OtherStep
<1>2. CASE TlaStep
  <2>1. ASSUME NEW x \in Tlas, NEW tla, tlas' = [tlas EXCEPT ![x] = tla], tla # None
        PROVE  tlas'[t] # None
    BY <2>1 DEF TenancyInv, TypeOK
  <2>2. ASSUME NEW x \in Tlas, tlas[x] # None
        PROVE  /\ [tlas[x] EXCEPT !.status = "Active", !.expires_at = now + ONE_YEAR] # None
               /\ [tlas[x] EXCEPT !.expires_at = Renewed(tlas[x].expires_at)] # None
               /\ [tlas[x] EXCEPT !.status = "Suspended"] # None
               /\ [tlas[x] EXCEPT !.status = "Active"] # None
    <3>1. tlas[x] \in TlaEntry /\ now \in Nat
      BY <2>2 DEF TenancyInv, TypeOK
    <3>2. tlas[x].expires_at \in Nat
      BY <3>1 DEF TlaEntry
    <3>3. Renewed(tlas[x].expires_at) \in Nat /\ now + ONE_YEAR \in Nat
      BY <3>1, <3>2, RenewedType, LifecycleAssumption
    <3>4. {[tlas[x] EXCEPT !.status = "Active", !.expires_at = now + ONE_YEAR],
           [tlas[x] EXCEPT !.expires_at = Renewed(tlas[x].expires_at)],
           [tlas[x] EXCEPT !.status = "Suspended"],
           [tlas[x] EXCEPT !.status = "Active"]} \subseteq TlaEntry
      BY <3>1, <3>3, TlaEntryUpdate DEF TlaStatuses
    <3> QED  BY <3>4, EntryAssumption
  <2>3. ASSUME NEW caller \in Callers, NEW x \in Tlas, NEW d \in Deposits,
               ActivateTla(caller, x, d)
        PROVE  tlas'[t] # None
    <3>1. tlas' = [tlas EXCEPT ![x] =
                     [tlas[x] EXCEPT !.status = "Active", !.expires_at = now + ONE_YEAR]]
      BY <2>3 DEF ActivateTla
    <3> QED  BY <2>1, <2>2, <2>3, <3>1 DEF ActivateTla
  <2>4. ASSUME NEW caller \in Callers, NEW x \in Tlas, ActivateOpenTla(caller, x)
        PROVE  tlas'[t] # None
    <3>1. tlas' = [tlas EXCEPT ![x] =
                     [tlas[x] EXCEPT !.status = "Active", !.expires_at = now + ONE_YEAR]]
      BY <2>4 DEF ActivateOpenTla
    <3> QED  BY <2>1, <2>2, <2>4, <3>1 DEF ActivateOpenTla
  <2>5. ASSUME NEW caller \in Callers, NEW x \in Tlas, NEW d \in Deposits,
               RenewTla(caller, x, d)
        PROVE  tlas'[t] # None
    <3>1. tlas' = [tlas EXCEPT ![x] =
                     [tlas[x] EXCEPT !.expires_at = Renewed(tlas[x].expires_at)]]
      BY <2>5 DEF RenewTla
    <3> QED  BY <2>1, <2>2, <2>5, <3>1 DEF RenewTla
  <2>6. ASSUME NEW caller \in Callers, NEW x \in Tlas, NEW type \in TlaTypes,
               NEW premium \in PremiumCategories, NEW l \in Accounts \cup {None},
               RegisterTla(caller, x, type, premium, l)
        PROVE  tlas'[t] # None
    BY <2>6 DEF RegisterTla, TenancyInv, TypeOK
  <2>7. ASSUME NEW caller \in Callers, NEW x \in Tlas, SuspendTla(caller, x)
        PROVE  tlas'[t] # None
    <3>1. tlas' = [tlas EXCEPT ![x] = [tlas[x] EXCEPT !.status = "Suspended"]]
      BY <2>7 DEF SuspendTla
    <3> QED  BY <2>1, <2>2, <2>7, <3>1 DEF SuspendTla
  <2>8. ASSUME NEW caller \in Callers, NEW x \in Tlas, UnsuspendTla(caller, x)
        PROVE  tlas'[t] # None
    <3>1. tlas' = [tlas EXCEPT ![x] = [tlas[x] EXCEPT !.status = "Active"]]
      BY <2>8 DEF UnsuspendTla
    <3> QED  BY <2>1, <2>2, <2>8, <3>1 DEF UnsuspendTla
  <2> QED  BY <1>2, <2>3, <2>4, <2>5, <2>6, <2>7, <2>8 DEF TlaStep
<1> QED  BY <1>1, <1>2

LEMMA TenancyNext ==
    ASSUME TenancyInv, [Next]_vars
    PROVE  TenancyInv'
<1>1. TypeOK'
  BY TypeNext DEF TenancyInv
<1>2. now' >= GRACE_PERIOD
  BY StepKinds, TlaStepFrame, EntryStepFrame, LifecycleAssumption
  DEF TenancyInv, TypeOK, OtherStep
<1>3. ASSUME NEW k \in Keys, sub_accounts'[k] # None
      PROVE  tlas'[TlaOf[k]] # None
  <2>1. TlaOf[k] \in Tlas
    BY RegistryAssumption
  <2>2. CASE sub_accounts[k] # None
    BY <1>1, <2>1, <2>2, TlasStay DEF TenancyInv, TenanciesOnTlas
  <2>3. CASE sub_accounts[k] = None
    <3>1. EntryStep
      BY <1>3, <2>3, StepKinds, TlaStepFrame DEF OtherStep
    <3>2. ASSUME NEW x \in Keys, NEW e, sub_accounts' = [sub_accounts EXCEPT ![x] = e],
                 sub_accounts[x] # None \/ e = None
          PROVE  FALSE
      BY <1>3, <2>3, <3>2 DEF TenancyInv, TypeOK
    <3>3. ASSUME NEW s \in Slots, NEW caller \in Callers, NEW x \in Keys,
                 NEW w \in Accounts, NEW d \in Deposits, RentSubAccount(s, caller, x, w, d)
          PROVE  tlas[TlaOf[k]] # None
      BY <1>3, <2>3, <3>3 DEF RentSubAccount, TenancyInv, TypeOK
    <3>4. ASSUME NEW caller \in Callers, NEW x \in Keys, NEW d \in Deposits,
                 RenewSubAccount(caller, x, d)
          PROVE  FALSE
      BY <3>2, <3>4 DEF RenewSubAccount
    <3>5. ASSUME NEW caller \in Callers, NEW x \in Keys,
                 \/ \E w \in Accounts : SetMainWallet(caller, x, w)
                 \/ ScheduleRetraction(caller, x)
                 \/ CancelRetraction(caller, x)
          PROVE  FALSE
      BY <3>2, <3>5 DEF SetMainWallet, ScheduleRetraction, CancelRetraction
    <3>6. ASSUME NEW s \in Slots, OnSubAccountSold(s)
          PROVE  FALSE
      BY <1>1, <1>3, <2>3, <3>6, CallType DEF OnSubAccountSold, At, Kinds, Call, TenancyInv, TypeOK
    <3>7. ASSUME NEW s \in Slots, OnSubAccountCreationFailed(s)
          PROVE  FALSE
      BY <1>3, <2>3, <3>7 DEF OnSubAccountCreationFailed, TenancyInv, TypeOK
    <3>8. ASSUME NEW s \in Slots, OnReclaimFinalized(s) \/ OnExportSettled(s)
          PROVE  FALSE
      BY <1>3, <2>3, <3>8
      DEF OnReclaimFinalized, OnExportSettled, RemoveSubAccount, subVars, TenancyInv, TypeOK
    <3>9. tlas[TlaOf[k]] # None
      BY <3>1, <3>3, <3>4, <3>5, <3>6, <3>7, <3>8 DEF EntryStep
    <3> QED  BY <3>1, <3>9, EntryStepFrame
  <2> QED  BY <2>2, <2>3
<1> QED  BY <1>1, <1>2, <1>3 DEF TenancyInv, TenanciesOnTlas

LEMMA TenancyInvHolds == Spec => []TenancyInv
<1>1. Init => TenancyInv
  <2> SUFFICES ASSUME Init
               PROVE  now >= GRACE_PERIOD /\ TenanciesOnTlas /\ TypeOK
    BY DEF TenancyInv
  <2>1. now = GRACE_PERIOD /\ sub_accounts = [k \in Keys |-> None]
    BY DEF Init, Start
  <2>2. now >= GRACE_PERIOD
    BY <2>1, LifecycleAssumption
  <2>3. TenanciesOnTlas
    BY <2>1 DEF TenanciesOnTlas
  <2>4. TypeOK
    BY TypeStart DEF Init
  <2> QED  BY <2>2, <2>3, <2>4
<1>2. TenancyInv /\ [Next]_vars => TenancyInv'
  BY TenancyNext
<1> QED  BY <1>1, <1>2, PTL DEF Spec

-----------------------------------------------------------------------------
(* A TLA comes into use by its activation.                                 *)

LEMMA FreeActivationStep ==
    ASSUME TenancyInv, [Next]_vars, NEW t \in Tlas, tlas[t] # None,
           tlas[t].expires_at = 0, tlas'[t].expires_at # 0
    PROVE  tlas[t].status = "Registered"
<1>1. TlaStep
  BY StepKinds, EntryStepFrame DEF OtherStep
<1>2. PastGrace(tlas[t].expires_at, now)
  BY LifecycleAssumption DEF PastGrace, TenancyInv, TypeOK
<1> QED  BY <1>1, <1>2, TlaChange

\* For any number of TLAs, accounts and chains: a TLA that was never paid for is out
\* of use for good unless it is activated, as the clock is past the grace period
\* within which the renewal of a TLA without a term would be taken.
THEOREM NothingActivatedFree == Spec => NoFreeActivation
<1>1. ASSUME TenancyInv, [Next]_vars
      PROVE  [\A t \in Tlas :
                /\ tlas[t] # None
                /\ tlas[t].expires_at = 0
                /\ tlas'[t].expires_at # 0
                => tlas[t].status = "Registered"]_vars
  BY <1>1, FreeActivationStep
<1> QED  BY <1>1, TenancyInvHolds, PTL DEF Spec, NoFreeActivation

-----------------------------------------------------------------------------
(* What is reclaimable stays reclaimable.                                  *)

ByTla(k) == tlas[TlaOf[k]].status = "Active" /\ PastGrace(tlas[TlaOf[k]].expires_at, now)
ByRetraction(k) == RetractionElapsed(sub_accounts[k], now, fee_config.retraction_notice)
ByExpiry(k) == PastGrace(sub_accounts[k].expires_at, now)

LEMMA EntryFields ==
    ASSUME TypeOK, NEW k \in Keys, sub_accounts[k] # None
    PROVE  /\ sub_accounts[k] \in SubAccountEntry
           /\ sub_accounts[k].expires_at \in Nat
           /\ sub_accounts[k].retraction_at \in Nat \cup {None}
           /\ fee_config.retraction_notice \in Nat
           /\ now \in Nat
BY DEF TypeOK, SubAccountEntry, FeeConfigType

LEMMA TlaFields ==
    ASSUME TypeOK, NEW t \in Tlas, tlas[t] # None
    PROVE  /\ tlas[t] \in TlaEntry
           /\ tlas[t].expires_at \in Nat
           /\ tlas[t].status \in TlaStatuses
           /\ now \in Nat
BY DEF TypeOK, TlaEntry

LEMMA ExpiryReclaimable ==
    ASSUME NEW expires_at \in Nat, NEW time \in Nat
    PROVE  ExpiryLifecycle(expires_at, time) = "Reclaimable" <=> PastGrace(expires_at, time)
BY LifecycleAssumption DEF ExpiryLifecycle, PastGrace

LEMMA Ways ==
    ASSUME NEW sub \in SubAccountEntry, NEW tla \in TlaEntry, NEW notice \in Nat,
           NEW time \in Nat
    PROVE  EffectiveSubLifecycle(sub, tla, notice, time) = "Reclaimable"
             <=> \/ tla.status = "Active" /\ PastGrace(tla.expires_at, time)
                 \/ RetractionElapsed(sub, time, notice)
                 \/ PastGrace(sub.expires_at, time)
<1>1. sub.expires_at \in Nat /\ tla.expires_at \in Nat /\ tla.status \in TlaStatuses
  BY DEF SubAccountEntry, TlaEntry
<1>2. TlaLifecycle(tla, time) = "Reclaimable"
        <=> tla.status = "Active" /\ PastGrace(tla.expires_at, time)
  BY <1>1, ExpiryReclaimable DEF TlaLifecycle, TlaStatuses
<1>3. SubLifecycle(sub, time) = "Reclaimable" <=> PastGrace(sub.expires_at, time)
  BY <1>1, ExpiryReclaimable DEF SubLifecycle
<1> QED  BY <1>2, <1>3 DEF EffectiveSubLifecycle

LEMMA ReclaimableWays ==
    ASSUME TypeOK, NEW k \in Keys, sub_accounts[k] # None, tlas[TlaOf[k]] # None
    PROVE  Reclaimable(k) <=> ByTla(k) \/ ByRetraction(k) \/ ByExpiry(k)
<1>1. /\ sub_accounts[k] \in SubAccountEntry
      /\ tlas[TlaOf[k]] \in TlaEntry
      /\ fee_config.retraction_notice \in Nat /\ now \in Nat
  BY EntryFields, TlaFields, RegistryAssumption
<1> QED
  BY <1>1, Ways DEF Reclaimable, LifecycleOf, ByTla, ByRetraction, ByExpiry

LEMMA ReclaimableWaysNext ==
    ASSUME TypeOK', NEW k \in Keys, sub_accounts'[k] # None, tlas'[TlaOf[k]] # None
    PROVE  Reclaimable(k)' <=> ByTla(k)' \/ ByRetraction(k)' \/ ByExpiry(k)'
<1>1. /\ sub_accounts'[k] \in SubAccountEntry
      /\ tlas'[TlaOf[k]] \in TlaEntry
      /\ fee_config'.retraction_notice \in Nat /\ now' \in Nat
  BY RegistryAssumption DEF TypeOK, FeeConfigType
<1> QED
  BY <1>1, Ways DEF Reclaimable, LifecycleOf, ByTla, ByRetraction, ByExpiry

\* What has passed stays passed.
LEMMA PassedStaysPassed ==
    ASSUME NEW then \in Nat, NEW later \in Nat, later >= then, NEW moment \in Nat
    PROVE  PastGrace(moment, then) => PastGrace(moment, later)
BY LifecycleAssumption DEF PastGrace

LEMMA TlaWayStays ==
    ASSUME TenancyInv, TypeOK', [Next]_vars, NEW k \in Keys, tlas[TlaOf[k]] # None, ByTla(k),
           tlas'[TlaOf[k]].status # "Suspended"
    PROVE  ByTla(k)'
<1> DEFINE t == TlaOf[k]
<1>1. t \in Tlas
  BY RegistryAssumption
<1>2. /\ tlas[t].expires_at \in Nat
      /\ tlas[t].status = "Active"
      /\ PastGrace(tlas[t].expires_at, now)
  BY <1>1, TlaFields DEF ByTla, TenancyInv
<1>3. now \in Nat /\ now' \in Nat /\ now' >= now
  BY StepKinds, TlaStepFrame, EntryStepFrame DEF TenancyInv, TypeOK, OtherStep
<1>4. tlas'[t] = tlas[t]
  <2>1. CASE TlaStep
    BY <1>1, <1>2, <2>1, TlaChange
  <2>2. CASE ~TlaStep
    BY <2>2, StepKinds, EntryStepFrame DEF OtherStep
  <2> QED  BY <2>1, <2>2
<1> QED  BY <1>2, <1>3, <1>4, PassedStaysPassed DEF ByTla

\* The terms of an entry that is reclaimable are not changed: it is not renewed, and
\* its retraction, once elapsed, is not cancelled.
LEMMA TermsStay ==
    ASSUME TenancyInv, [Next]_vars, NEW k \in Keys, SameTenancy(k), Reclaimable(k)
    PROVE  /\ sub_accounts'[k].expires_at = sub_accounts[k].expires_at
           /\ ByRetraction(k) => sub_accounts'[k].retraction_at = sub_accounts[k].retraction_at
<1> DEFINE sub == sub_accounts[k]
<1>1. /\ sub \in SubAccountEntry /\ sub # None /\ sub_accounts'[k] # None
      /\ tlas[TlaOf[k]] # None
      /\ ByTla(k) \/ ByRetraction(k) \/ ByExpiry(k)
  BY EntryFields, ReclaimableWays DEF SameTenancy, TenancyInv, TenanciesOnTlas
<1>2. CASE ~EntryStep
  BY <1>2, StepKinds, TlaStepFrame DEF OtherStep
<1>3. CASE EntryStep
  <2>1. ASSUME NEW s \in Slots, NEW caller \in Callers, NEW x \in Keys, NEW w \in Accounts,
               NEW d \in Deposits, RentSubAccount(s, caller, x, w, d)
        PROVE  sub_accounts'[k] = sub
    BY <1>1, <2>1 DEF RentSubAccount, TenancyInv, TypeOK
  <2>2. ASSUME NEW caller \in Callers, NEW x \in Keys, NEW d \in Deposits,
               RenewSubAccount(caller, x, d)
        PROVE  sub_accounts'[k] = sub
    <3>1. x # k
      <4> SUFFICES ASSUME x = k
                   PROVE  FALSE
        OBVIOUS
      <4>1. sub.retraction_at = None /\ ~ByExpiry(k)
        BY <2>2 DEF RenewSubAccount, ByExpiry
      <4>2. TlaLifecycle(tlas[TlaOf[k]], now) # "Reclaimable"
        BY <2>2 DEF RenewSubAccount
      <4>3. ~ByTla(k)
        BY <1>1, <4>2, TlaFields, ExpiryReclaimable, RegistryAssumption
        DEF ByTla, TlaLifecycle, TenancyInv
      <4> QED  BY <1>1, <4>1, <4>3 DEF ByRetraction, RetractionElapsed
    <3> QED  BY <2>2, <3>1 DEF RenewSubAccount, TenancyInv, TypeOK
  <2>3. ASSUME NEW caller \in Callers, NEW x \in Keys, NEW w \in Accounts,
               SetMainWallet(caller, x, w)
        PROVE  /\ sub_accounts'[k].expires_at = sub.expires_at
               /\ sub_accounts'[k].retraction_at = sub.retraction_at
    BY <1>1, <2>3 DEF SetMainWallet, TenancyInv, TypeOK, SubAccountEntry
  <2>4. ASSUME NEW caller \in Callers, NEW x \in Keys, ScheduleRetraction(caller, x)
        PROVE  /\ sub_accounts'[k].expires_at = sub.expires_at
               /\ ByRetraction(k) => sub_accounts'[k].retraction_at = sub.retraction_at
    BY <1>1, <2>4 DEF ScheduleRetraction, TenancyInv, TypeOK, SubAccountEntry,
                      ByRetraction, RetractionElapsed
  <2>5. ASSUME NEW caller \in Callers, NEW x \in Keys, CancelRetraction(caller, x)
        PROVE  /\ sub_accounts'[k].expires_at = sub.expires_at
               /\ ByRetraction(k) => sub_accounts'[k].retraction_at = sub.retraction_at
    BY <1>1, <2>5 DEF CancelRetraction, TenancyInv, TypeOK, SubAccountEntry, ByRetraction
  <2>6. ASSUME NEW s \in Slots, \/ OnSubAccountCreationFailed(s)
                                \/ OnReclaimFinalized(s)
                                \/ OnExportSettled(s)
        PROVE  sub_accounts'[k] = sub
    BY <1>1, <2>6 DEF OnSubAccountCreationFailed, OnReclaimFinalized, OnExportSettled,
                      RemoveSubAccount, subVars, TenancyInv, TypeOK
  <2>7. ASSUME NEW s \in Slots, OnSubAccountSold(s)
        PROVE  /\ sub_accounts'[k].expires_at = sub.expires_at
               /\ sub_accounts'[k].retraction_at = sub.retraction_at
    BY <1>1, <2>7 DEF OnSubAccountSold, TenancyInv, TypeOK, SubAccountEntry
  <2> QED
    BY <1>3, <2>1, <2>2, <2>3, <2>4, <2>5, <2>6, <2>7 DEF EntryStep
<1> QED  BY <1>2, <1>3

LEMMA ReclaimableStays ==
    ASSUME TenancyInv, [Next]_vars, NEW k \in Keys, SameTenancy(k), Reclaimable(k),
           fee_config' = fee_config, tlas'[TlaOf[k]].status # "Suspended"
    PROVE  Reclaimable(k)'
<1>1. TenancyInv'
  BY TenancyNext
<1>2. /\ sub_accounts[k] # None /\ sub_accounts'[k] # None
      /\ tlas[TlaOf[k]] # None /\ tlas'[TlaOf[k]] # None
  BY <1>1 DEF SameTenancy, TenancyInv, TenanciesOnTlas
<1>3. now \in Nat /\ now' \in Nat /\ now' >= now
  BY <1>1, StepKinds, TlaStepFrame, EntryStepFrame DEF TenancyInv, TypeOK, OtherStep
<1>4. /\ sub_accounts[k].expires_at \in Nat
      /\ sub_accounts[k].retraction_at \in Nat \cup {None}
      /\ fee_config.retraction_notice \in Nat
  BY <1>2, EntryFields DEF TenancyInv
<1>5. ByTla(k) => ByTla(k)'
  BY <1>1, <1>2, TlaWayStays DEF TenancyInv
<1>6. ByRetraction(k) => ByRetraction(k)'
  BY <1>3, <1>4, TermsStay DEF ByRetraction, RetractionElapsed
<1>7. ByExpiry(k) => ByExpiry(k)'
  BY <1>3, <1>4, TermsStay, PassedStaysPassed DEF ByExpiry
<1>8. ByTla(k) \/ ByRetraction(k) \/ ByExpiry(k)
  BY <1>2, ReclaimableWays DEF TenancyInv
<1>9. ByTla(k)' \/ ByRetraction(k)' \/ ByExpiry(k)'
  BY <1>5, <1>6, <1>7, <1>8
<1> QED  BY <1>1, <1>2, <1>9, ReclaimableWaysNext DEF TenancyInv

\* For any number of TLAs, accounts and chains: renewals, cancelled retractions, sales
\* and activations never take a tenancy back from where anybody may reclaim it.
THEOREM ReclaimableForGood == Spec => ReclaimableIsFinal
<1>1. ASSUME TenancyInv, [Next]_vars
      PROVE  [\A k \in Keys :
                /\ SameTenancy(k)
                /\ Reclaimable(k)
                /\ fee_config' = fee_config
                /\ tlas'[TlaOf[k]].status # "Suspended"
                => Reclaimable(k)']_vars
  BY <1>1, ReclaimableStays
<1> QED  BY <1>1, TenancyInvHolds, PTL DEF Spec, ReclaimableIsFinal

-----------------------------------------------------------------------------
(* What a deletion finds.  Until its account is deleted, a reclaim has     *)
(* shown the tokens that it need not ask any more to be gone.              *)

Deciding == {"query", "checked", "dispatch", "effect"}

Unasked(c) == IF c.stage = "query" THEN c.left ELSE {}

Emptied(c) ==
    c.kind = "reclaim" /\ c.stage \in Deciding =>
        /\ c.stage \in {"dispatch", "effect"} => c.ok
        /\ c.ok => \A t \in ft_allowlist \ Unasked(c) : ft[c.key][t] = 0

DeletionsEmptied == \A s \in Slots : Emptied(calls[s])

\* A reclaim of k is begun, for which it takes more than tokens that are gone.
BegunInTime(k) ==
    /\ k \in Keys
    /\ sub_accounts[k] # None
    /\ Reclaimable(k)
    /\ UNCHANGED <<tlas, sub_accounts, fee_config, now>>

\* What a step may do with the chain of a reclaim, and with what it has shown.
DeletionStep(s) ==
    LET c == calls[s] IN
    \/ calls'[s] = c
    \/ calls'[s].kind # "reclaim"
    \/ calls'[s].stage \notin Deciding
    \/ /\ UNCHANGED <<ft, ft_allowlist>>
       /\ calls'[s].stage = AfterSnapshot /\ calls'[s].left = ft_allowlist /\ calls'[s].ok
       /\ BegunInTime(calls'[s].key)
    \/ /\ c.kind = "reclaim" /\ calls'[s].key = c.key
       /\ UNCHANGED <<ft, ft_allowlist>>
       /\ \/ \E t \in Tokens : /\ c.stage = "query"
                               /\ calls'[s].stage \in {"query", "checked"}
                               /\ calls'[s].stage = "checked" => c.left = {t}
                               /\ calls'[s].left = c.left \ {t}
                               /\ calls'[s].ok => c.ok /\ ft[c.key][t] = 0
          \/ /\ c.stage \in {"checked", "dispatch"}
             /\ c.stage = "checked" => c.ok
             /\ calls'[s].stage \in {"dispatch", "effect"}
             /\ calls'[s].ok

LEMMA EmptiedStep ==
    ASSUME TypeOK, TypeOK', NEW s \in Slots, Emptied(calls[s]), DeletionStep(s),
           calls[s].kind = "reclaim" =>
               /\ ft_allowlist' \subseteq ft_allowlist
               /\ \A t \in Tokens : ft'[calls[s].key][t] <= ft[calls[s].key][t]
    PROVE  Emptied(calls[s])'
<1> DEFINE c == calls[s]
           d == calls'[s]
<1>1. CASE d.kind # "reclaim" \/ d.stage \notin Deciding
  BY <1>1 DEF Emptied
<1>2. CASE d = c /\ c.kind = "reclaim"
  <2>1. c.key \in Keys /\ ft_allowlist \subseteq Tokens
    BY <1>2, CallType DEF TypeOK, Kinds, Call
  <2>2. ASSUME NEW t \in ft_allowlist, ft[c.key][t] = 0
        PROVE  ft'[c.key][t] = 0
    <3>1. ft'[c.key][t] <= ft[c.key][t]
      BY <1>2, <2>1
    <3>2. ft'[c.key][t] \in Nat
      BY <2>1 DEF TypeOK
    <3> QED  BY <2>2, <3>1, <3>2
  <2> QED  BY <1>2, <2>2 DEF Emptied, Unasked
<1>3. CASE /\ UNCHANGED <<ft, ft_allowlist>>
           /\ d.stage = AfterSnapshot /\ d.left = ft_allowlist /\ d.ok
  BY <1>3 DEF Emptied, Unasked, AfterSnapshot
<1>4. CASE /\ c.kind = "reclaim" /\ d.key = c.key /\ UNCHANGED <<ft, ft_allowlist>>
           /\ \E t \in Tokens : /\ c.stage = "query"
                                /\ d.stage \in {"query", "checked"}
                                /\ d.stage = "checked" => c.left = {t}
                                /\ d.left = c.left \ {t}
                                /\ d.ok => c.ok /\ ft[c.key][t] = 0
  BY <1>4 DEF Emptied, Unasked, Deciding
<1>5. CASE /\ c.kind = "reclaim" /\ d.key = c.key /\ UNCHANGED <<ft, ft_allowlist>>
           /\ c.stage \in {"checked", "dispatch"}
           /\ c.stage = "checked" => c.ok
           /\ d.stage \in {"dispatch", "effect"} /\ d.ok
  BY <1>5 DEF Emptied, Unasked, Deciding
<1>6. CASE d = c /\ c.kind # "reclaim"
  BY <1>6 DEF Emptied
<1> QED  BY <1>1, <1>2, <1>3, <1>4, <1>5, <1>6 DEF DeletionStep

DeletionSteps == \A s \in Slots : DeletionStep(s)

LEMMA OtherChain ==
    ASSUME TypeOK, NEW d \in Slots,
           \/ \E call : StartCall(d, call) /\ call.kind # "reclaim"
           \/ \E stage, ok : Advance(d, stage, ok) /\ calls[d].kind \in Kinds \ {"reclaim"}
           \/ \E stage, ok : Advance(d, stage, ok) /\ calls[d].kind \in Kinds /\ stage \notin Deciding
           \/ EndCall(d)
    PROVE  DeletionSteps
<1>1. CASE \E call : StartCall(d, call) /\ call.kind # "reclaim"
  BY <1>1, CallStarted DEF DeletionSteps, DeletionStep
<1>2. CASE \E stage, ok : Advance(d, stage, ok) /\ calls[d].kind \in Kinds \ {"reclaim"}
  <2>1. PICK stage, ok : Advance(d, stage, ok) /\ calls[d].kind \in Kinds \ {"reclaim"}
    BY <1>2
  <2>2. calls'[d].kind = calls[d].kind /\ \A s \in Slots \ {d} : calls'[s] = calls[s]
    BY <2>1, CallAdvanced
  <2> QED  BY <2>1, <2>2 DEF DeletionSteps, DeletionStep
<1>3. CASE \E stage, ok : Advance(d, stage, ok) /\ calls[d].kind \in Kinds /\ stage \notin Deciding
  <2>1. PICK stage, ok : Advance(d, stage, ok) /\ calls[d].kind \in Kinds /\ stage \notin Deciding
    BY <1>3
  <2>2. calls'[d].stage = stage /\ \A s \in Slots \ {d} : calls'[s] = calls[s]
    BY <2>1, CallAdvanced
  <2> QED  BY <2>1, <2>2 DEF DeletionSteps, DeletionStep
<1>4. CASE EndCall(d)
  <2>1. calls'[d] = NoCall /\ \A s \in Slots \ {d} : calls'[s] = calls[s]
    BY <1>4, CallEnded
  <2> QED  BY <2>1 DEF DeletionSteps, DeletionStep, NoCall
<1> QED  BY <1>1, <1>2, <1>3, <1>4

LEMMA NoChain == ASSUME UNCHANGED calls PROVE DeletionSteps
BY DEF DeletionSteps, DeletionStep

LEMMA DeletionRental ==
    ASSUME TypeOK, RentalNext
    PROVE  DeletionSteps
<1>1. ASSUME NEW s \in Slots, NEW caller \in Callers, NEW k \in Keys, NEW w \in Accounts,
             NEW d \in Deposits, RentSubAccount(s, caller, k, w, d)
      PROVE  DeletionSteps
  BY <1>1, OtherChain DEF RentSubAccount
<1>2. ASSUME NEW s \in Slots, CreateSubAccount(s) \/ CreateAccountBatch(s)
      PROVE  DeletionSteps
  <2>1. calls[s].kind = "rent" /\ calls[s].kind \in Kinds \ {"reclaim"}
    BY <1>2 DEF CreateSubAccount, CreateAccountBatch, At, Kinds
  <2>2. CASE \E stage, ok : Advance(s, stage, ok)
    BY <2>1, <2>2, OtherChain
  <2>3. CASE calls' = [calls EXCEPT ![s].stage = "callback", ![s].ok = FALSE, ![s].sent = 0]
    <3>1. calls'[s].stage = "callback" /\ \A d \in Slots \ {s} : calls'[d] = calls[d]
      BY <2>1, <2>3, CallType DEF TypeOK, Call
    <3> QED  BY <3>1 DEF DeletionSteps, DeletionStep, Deciding
  <2> QED  BY <1>2, <2>2, <2>3 DEF CreateSubAccount, CreateAccountBatch
<1>3. ASSUME NEW s \in Slots, \/ OnSubAccountCreated(s)
                              \/ OnSubAccountCreatedPanics(s)
                              \/ OnSubAccountCreationFailed(s)
      PROVE  DeletionSteps
  BY <1>3, OtherChain
  DEF OnSubAccountCreated, OnSubAccountCreatedPanics, OnSubAccountCreationFailed
<1> QED
  BY <1>1, <1>2, <1>3, NoChain
  DEF RentalNext, ActivateTla, RenewTla, RenewSubAccount, SetMainWallet

LEMMA DeletionMarketplace ==
    ASSUME TypeOK, MarketplaceNext
    PROVE  DeletionSteps
<1>1. ASSUME NEW s \in Slots, NEW buyer \in Callers, NEW k \in Keys, NEW d \in Deposits,
             BuySubAccount(s, buyer, k, d)
      PROVE  DeletionSteps
  BY <1>1, OtherChain DEF BuySubAccount
<1>2. ASSUME NEW s \in Slots, OnBuyBalancesChecked(s) \/ OnSaleFailed(s) \/ OnSubAccountSold(s)
      PROVE  DeletionSteps
  <2>1. calls[s].kind \in Kinds \ {"reclaim"}
    BY <1>2 DEF OnBuyBalancesChecked, OnSaleFailed, OnSubAccountSold, At, Kinds
  <2>2. EndCall(s) \/ \E stage, ok : Advance(s, stage, ok)
    BY <1>2 DEF OnBuyBalancesChecked, OnSaleFailed, OnSubAccountSold, AbortSale
  <2> QED  BY <2>1, <2>2, OtherChain
<1> QED
  BY <1>1, <1>2, NoChain
  DEF MarketplaceNext, ListSubAccount, AcceptOffer, UnlistSubAccount, RevokeOffer

LEMMA DeletionRefunds ==
    ASSUME TypeOK, RefundsNext
    PROVE  DeletionSteps
<1>1. ASSUME NEW s \in Slots, NEW caller \in Callers, ClaimRefund(s, caller)
      PROVE  DeletionSteps
  BY <1>1, OtherChain DEF ClaimRefund
<1>2. ASSUME NEW s \in Slots, TransferRefund(s)
      PROVE  DeletionSteps
  <2>1. calls[s] \in Call
    BY <1>2, CallType DEF TransferRefund, At, Kinds
  <2>2. calls'[s].stage = "callback" /\ \A d \in Slots \ {s} : calls'[d] = calls[d]
    BY <1>2, <2>1 DEF TransferRefund, TypeOK, Call
  <2> QED  BY <2>2 DEF DeletionSteps, DeletionStep, Deciding
<1>3. ASSUME NEW s \in Slots, OnClaimRefundSettled(s)
      PROVE  DeletionSteps
  BY <1>3, OtherChain DEF OnClaimRefundSettled
<1> QED  BY <1>1, <1>2, <1>3, NoChain DEF RefundsNext, Withdraw

LEMMA DeletionSweep ==
    ASSUME TypeOK, SweepNext
    PROVE  DeletionSteps
<1>1. ASSUME NEW s \in Slots, NEW k \in Keys, NEW t \in Tokens, ReclaimSweepFt(s, k, t)
      PROVE  DeletionSteps
  BY <1>1, OtherChain DEF ReclaimSweepFt
<1>2. ASSUME NEW s \in Slots, NEW ok \in BOOLEAN,
             \/ SweepFt(s) \/ AfterBalanceQuery(s) \/ AfterStorageDeposit(s)
             \/ DepositStorage(s, ok) \/ TransferTokens(s, ok)
      PROVE  DeletionSteps
  <2>1. calls[s].kind \in Kinds \ {"reclaim"}
    BY <1>2 DEF SweepFt, AfterBalanceQuery, AfterStorageDeposit, DepositStorage,
       TransferTokens, At, Kinds
  <2>2. EndCall(s) \/ \E stage, passed : Advance(s, stage, passed)
    BY <1>2 DEF SweepFt, AfterBalanceQuery, AfterStorageDeposit, DepositStorage,
       TransferTokens, ProceedIf
  <2> QED  BY <2>1, <2>2, OtherChain
<1>3. ASSUME NEW s \in Slots, NEW ok \in BOOLEAN, MeasureBalance(s, ok)
      PROVE  DeletionSteps
  <2>1. calls[s] \in Call
    BY <1>3, CallType DEF MeasureBalance, At, Kinds
  <2>2. calls'[s].stage = "measured" /\ \A d \in Slots \ {s} : calls'[d] = calls[d]
    BY <1>3, <2>1 DEF MeasureBalance, TypeOK, Call
  <2> QED  BY <2>2 DEF DeletionSteps, DeletionStep, Deciding
<1> QED  BY <1>1, <1>2, <1>3 DEF SweepNext

LEMMA DeletionLocker ==
    ASSUME TypeOK, LockerNext
    PROVE  DeletionSteps
<1>1. ASSUME NEW s \in Slots, FinalizeDelete(s)
      PROVE  DeletionSteps
  <2>1. calls[s].kind = "reclaim" /\ calls[s].stage = "dispatch" /\ calls[s].kind \in Kinds
    BY <1>1 DEF FinalizeDelete, At, Kinds
  <2>2. CASE Advance(s, "callback", FALSE)
    <3>1. "callback" \notin Deciding
      BY DEF Deciding
    <3> QED  BY <2>1, <2>2, <3>1, OtherChain
  <2>3. CASE Advance(s, "effect", TRUE)
    <3>1. /\ calls'[s].key = calls[s].key /\ calls'[s].stage = "effect" /\ calls'[s].ok
          /\ \A d \in Slots \ {s} : calls'[d] = calls[d]
      BY <2>1, <2>3, CallAdvanced
    <3>2. UNCHANGED <<ft, ft_allowlist>>
      BY <1>1 DEF FinalizeDelete, adminVars, chainVars
    <3> QED  BY <2>1, <3>1, <3>2 DEF DeletionSteps, DeletionStep
  <2> QED  BY <1>1, <2>2, <2>3 DEF FinalizeDelete
<1>2. ASSUME NEW s \in Slots, DeleteAccount(s)
      PROVE  DeletionSteps
  <2>1. calls[s].kind \in Kinds /\ "callback" \notin Deciding
    BY <1>2 DEF DeleteAccount, At, Kinds, Deciding
  <2>2. \E ok : Advance(s, "callback", ok)
    BY <1>2 DEF DeleteAccount
  <2> QED  BY <2>1, <2>2, OtherChain
<1>3. ASSUME NEW s \in Slots,
             TransferOwnership(s) \/ Export(s) \/ AddFullAccessKey(s) \/ OnExportResolved(s)
      PROVE  DeletionSteps
  <2>1. calls[s].kind \in Kinds \ {"reclaim"}
    BY <1>3 DEF TransferOwnership, Export, AddFullAccessKey, OnExportResolved, At, Kinds
  <2>2. \E stage, ok : Advance(s, stage, ok)
    BY <1>3 DEF TransferOwnership, Export, AddFullAccessKey, OnExportResolved
  <2> QED  BY <2>1, <2>2, OtherChain
<1> QED  BY <1>1, <1>2, <1>3 DEF LockerNext

LEMMA DeletionReclaim ==
    ASSUME TypeOK, ReclaimNext
    PROVE  DeletionSteps
<1>1. ASSUME NEW s \in Slots, NEW k \in Keys, ReclaimFinalize(s, k)
      PROVE  DeletionSteps
  <2>1. PICK call : /\ StartCall(s, call) /\ call.stage = AfterSnapshot
                    /\ call.left = ft_allowlist /\ call.ok /\ call.key = k
    BY <1>1 DEF ReclaimFinalize
  <2>2. UNCHANGED <<ft, ft_allowlist>> /\ BegunInTime(k)
    BY <1>1 DEF ReclaimFinalize, BegunInTime, tlaVars, subVars, adminVars, chainVars
  <2> QED  BY <2>1, <2>2, CallStarted DEF DeletionSteps, DeletionStep
<1>2. ASSUME NEW s \in Slots, NEW caller \in Callers, NEW k \in Keys,
             ExportSubAccount(s, caller, k)
      PROVE  DeletionSteps
  BY <1>2, OtherChain DEF ExportSubAccount
<1>3. ASSUME NEW s \in Slots, OnBalancesChecked(s)
      PROVE  DeletionSteps
  <2>1. calls[s].kind = "reclaim" /\ calls[s].stage = "checked" /\ calls[s].kind \in Kinds
    BY <1>3 DEF OnBalancesChecked, At, Kinds
  <2>2. CASE EndCall(s)
    BY <2>2, OtherChain
  <2>3. CASE calls[s].ok /\ Advance(s, "dispatch", TRUE)
    <3>1. /\ calls'[s].key = calls[s].key /\ calls'[s].stage = "dispatch" /\ calls'[s].ok
          /\ \A d \in Slots \ {s} : calls'[d] = calls[d]
      BY <2>1, <2>3, CallAdvanced
    <3>2. UNCHANGED <<ft, ft_allowlist>>
      BY <1>3 DEF OnBalancesChecked, adminVars, chainVars
    <3> QED  BY <2>1, <2>3, <3>1, <3>2 DEF DeletionSteps, DeletionStep
  <2> QED  BY <1>3, <2>2, <2>3 DEF OnBalancesChecked
<1>4. ASSUME NEW s \in Slots, OnReclaimFinalized(s) \/ OnExportSettled(s)
      PROVE  DeletionSteps
  BY <1>4, OtherChain DEF OnReclaimFinalized, OnExportSettled
<1> QED  BY <1>1, <1>2, <1>3, <1>4 DEF ReclaimNext

LEMMA DeletionOthers ==
    ASSUME TypeOK, MotherNext \/ BusinessNext \/ AdminNext \/ EnvironmentNext
    PROVE  DeletionSteps
<1>1. ASSUME NEW s \in Slots, NEW t \in Tokens, NEW answered \in BOOLEAN,
             QueryBalance(s, t, answered)
      PROVE  DeletionSteps
  <2>1. calls[s].stage = "query" /\ t \in calls[s].left /\ UNCHANGED <<ft, ft_allowlist>>
    BY <1>1 DEF QueryBalance, adminVars, chainVars
  <2>2. calls[s] \in Call
    BY <2>1 DEF TypeOK, NoCall
  <2>3. /\ \A d \in Slots \ {s} : calls'[d] = calls[d]
        /\ calls'[s] = [calls[s] EXCEPT
              !.left = @ \ {t},
              !.ok = @ /\ answered /\ ft[calls[s].key][t] = 0,
              !.stage = IF calls[s].left = {t} THEN "checked" ELSE "query"]
    BY <1>1 DEF QueryBalance, TypeOK
  <2>4. /\ calls'[s].kind = calls[s].kind /\ calls'[s].key = calls[s].key
        /\ calls'[s].left = calls[s].left \ {t}
        /\ calls'[s].ok => calls[s].ok /\ ft[calls[s].key][t] = 0
        /\ calls'[s].stage \in {"query", "checked"}
        /\ calls'[s].stage = "checked" => calls[s].left = {t}
    BY <2>2, <2>3 DEF Call
  <2>5. DeletionStep(s)
    <3>1. calls[s].kind = "reclaim" \/ calls'[s].kind # "reclaim"
      BY <2>4
    <3>2. \E x \in Tokens : /\ calls[s].stage = "query"
                            /\ calls'[s].stage \in {"query", "checked"}
                            /\ calls'[s].stage = "checked" => calls[s].left = {x}
                            /\ calls'[s].left = calls[s].left \ {x}
                            /\ calls'[s].ok => calls[s].ok /\ ft[calls[s].key][x] = 0
      BY <2>1, <2>4
    <3>3. calls'[s].key = calls[s].key /\ UNCHANGED <<ft, ft_allowlist>>
      BY <2>1, <2>4
    <3> QED  BY <3>1, <3>2, <3>3 DEF DeletionStep
  <2>6. \A d \in Slots \ {s} : DeletionStep(d)
    BY <2>3 DEF DeletionStep
  <2> QED  BY <2>5, <2>6 DEF DeletionSteps
<1>2. CASE MotherNext \/ BusinessNext
  BY <1>2, NoChain DEF MotherNext, SetMother, AdminClearMother,
     BusinessNext, ScheduleRetraction, CancelRetraction, SetBusinessSubCap
<1>3. CASE AdminNext
  BY <1>3, NoChain DEF AdminNext, RegisterTla, ActivateOpenTla, SuspendTla, UnsuspendTla,
     AddAdmin, RemoveAdmin, SetAdmins, UpdateFeeConfig, SetPaused,
     AddFtAllowlist, RemoveFtAllowlist, AddNftAllowlist, RemoveNftAllowlist
<1>4. CASE EnvironmentNext
  BY <1>1, <1>4, NoChain DEF EnvironmentNext, QueryNext, DepositToken, Tick
<1> QED  BY <1>2, <1>3, <1>4

LEMMA DeletionsStep ==
    ASSUME TypeOK, [Next]_vars
    PROVE  DeletionSteps
<1>1. CASE UNCHANGED vars
  BY <1>1, NoChain DEF vars
<1> QED
  BY <1>1, DeletionRental, DeletionMarketplace, DeletionRefunds, DeletionSweep,
     DeletionLocker, DeletionReclaim, DeletionOthers DEF Next

\* Only a deletion takes an account away.
LEMMA DeletedBy ==
    ASSUME TypeOK, [Next]_vars, NEW k \in Keys, Deleted(k)
    PROVE  \E s \in Slots : At(s, "reclaim", "effect") /\ calls[s].key = k
<1>1. locker[k] # NoLocker /\ locker'[k] = NoLocker
  BY DEF Deleted
<1>2. locker'[k] # locker[k]
  BY <1>1
<1>3. CASE LockerNext
  <2>1. PICK s \in Slots : \/ TransferOwnership(s) \/ DeleteAccount(s)
                           \/ Export(s) \/ OnExportResolved(s)
    BY <1>2, <1>3 DEF LockerNext, FinalizeDelete, AddFullAccessKey, chainVars
  <2>2. CASE DeleteAccount(s)
    BY <1>2, <2>2 DEF DeleteAccount, TypeOK
  <2>3. CASE TransferOwnership(s) \/ Export(s) \/ OnExportResolved(s)
    <3>1. calls[s].key \in Keys
      <4>1. calls[s].kind \in {"buy", "export"}
        BY <2>3 DEF TransferOwnership, Export, OnExportResolved, At
      <4> QED  BY <4>1, CallType DEF Kinds, Call
    <3>2. PICK x \in Keys : x = calls[s].key
      BY <3>1
    <3>3. x = k
      BY <1>2, <2>3, <3>2 DEF TransferOwnership, Export, OnExportResolved, TypeOK
    <3>4. CASE TransferOwnership(s)
      <4>1. locker'[k].state = locker[k].state /\ locker[k].state = "Held"
        BY <1>2, <3>2, <3>3, <3>4 DEF TransferOwnership, TypeOK, Locker, Held
      <4> QED  BY <1>1, <4>1 DEF NoLocker
    <3>5. CASE Export(s) \/ OnExportResolved(s)
      <4>1. PICK state \in {"Exporting", "Exported", "Held"} :
              locker' = [locker EXCEPT ![x].state = state]
        BY <1>2, <3>2, <3>5 DEF Export, OnExportResolved
      <4>2. locker[x] \in Locker
        BY DEF TypeOK
      <4>3. locker'[x].state = state
        BY <4>1, <4>2 DEF TypeOK, Locker
      <4> QED  BY <1>1, <3>3, <4>3 DEF NoLocker
    <3> QED  BY <2>3, <3>4, <3>5
  <2> QED  BY <2>1, <2>2, <2>3
<1>4. CASE RentalNext
  <2>1. PICK s \in Slots : CreateAccountBatch(s)
    <3>1. ASSUME NEW s \in Slots,
                 \/ CreateSubAccount(s)
                 \/ OnSubAccountCreated(s)
                 \/ OnSubAccountCreatedPanics(s)
                 \/ OnSubAccountCreationFailed(s)
          PROVE  UNCHANGED locker
      BY <3>1 DEF CreateSubAccount, OnSubAccountCreated, OnSubAccountCreatedPanics,
         OnSubAccountCreationFailed, chainVars
    <3>2. ASSUME NEW caller, NEW t, NEW d, ActivateTla(caller, t, d) \/ RenewTla(caller, t, d)
          PROVE  UNCHANGED locker
      BY <3>2 DEF ActivateTla, RenewTla, chainVars
    <3>3. ASSUME NEW caller, NEW key, NEW d, RenewSubAccount(caller, key, d)
          PROVE  UNCHANGED locker
      BY <3>3 DEF RenewSubAccount, chainVars
    <3>4. ASSUME NEW caller, NEW key, NEW w, SetMainWallet(caller, key, w)
          PROVE  UNCHANGED locker
      BY <3>4 DEF SetMainWallet, chainVars
    <3>5. ASSUME NEW s, NEW caller, NEW key, NEW w, NEW d, RentSubAccount(s, caller, key, w, d)
          PROVE  UNCHANGED locker
      BY <3>5 DEF RentSubAccount, chainVars
    <3> QED  BY <1>2, <1>4, <3>1, <3>2, <3>3, <3>4, <3>5 DEF RentalNext
  <2> QED  BY <1>1, <2>1 DEF CreateAccountBatch, TypeOK, NoLocker
<1>5. CASE MotherNext \/ BusinessNext \/ ReclaimNext \/ SweepNext
  <2>1. locker' = locker
    BY <1>5 DEF MotherNext, SetMother, AdminClearMother,
       BusinessNext, ScheduleRetraction, CancelRetraction, SetBusinessSubCap,
       SweepNext, ReclaimSweepFt, SweepFt, MeasureBalance, AfterBalanceQuery,
       DepositStorage, AfterStorageDeposit, TransferTokens,
       ReclaimNext, ReclaimFinalize, ExportSubAccount, OnBalancesChecked,
       OnReclaimFinalized, OnExportSettled, chainVars
  <2> QED  BY <1>2, <2>1
<1>6. CASE MarketplaceNext \/ RefundsNext
  <2>1. locker' = locker
    BY <1>6 DEF MarketplaceNext, ListSubAccount, AcceptOffer, UnlistSubAccount, RevokeOffer,
       BuySubAccount, OnBuyBalancesChecked, OnSaleFailed, OnSubAccountSold,
       RefundsNext, ClaimRefund, TransferRefund, OnClaimRefundSettled, Withdraw, chainVars
  <2> QED  BY <1>2, <2>1
<1>7. CASE AdminNext \/ EnvironmentNext
  <2>1. locker' = locker
    BY <1>7 DEF AdminNext, RegisterTla, ActivateOpenTla, SuspendTla, UnsuspendTla,
       AddAdmin, RemoveAdmin, SetAdmins, UpdateFeeConfig, SetPaused,
       AddFtAllowlist, RemoveFtAllowlist, AddNftAllowlist, RemoveNftAllowlist,
       EnvironmentNext, QueryNext, QueryBalance, DepositToken, Tick, chainVars
  <2> QED  BY <1>2, <2>1
<1>8. CASE UNCHANGED vars
  BY <1>2, <1>8 DEF vars, chainVars
<1> QED  BY <1>3, <1>4, <1>5, <1>6, <1>7, <1>8 DEF Next

\* If no token reaches an account, or the allowlist, while the account's deletion is
\* under way, none that is allowlisted is on it when it is deleted, however many
\* deletions and sweeps of it race.
THEOREM NothingIsStranded == Spec /\ NoLateTokens => NoStrandedTokens
<1> DEFINE Timely ==
      \A s \in Slots : calls[s].kind = "reclaim" =>
         /\ ft_allowlist' \subseteq ft_allowlist
         /\ \A t \in Tokens : ft'[calls[s].key][t] <= ft[calls[s].key][t]
<1>1. Init => DeletionsEmptied
  BY DEF Init, Start, DeletionsEmptied, Emptied, NoCall
<1>2. TypeOK /\ TypeOK' /\ DeletionsEmptied /\ [Next]_vars /\ [Timely]_vars => DeletionsEmptied'
  <2> SUFFICES ASSUME TypeOK, TypeOK', DeletionsEmptied, [Next]_vars, [Timely]_vars, NEW s \in Slots
               PROVE  Emptied(calls[s])'
    BY DEF DeletionsEmptied
  <2>1. DeletionStep(s)
    BY DeletionsStep DEF DeletionSteps
  <2>2. CASE UNCHANGED vars
    BY <2>2 DEF vars, adminVars, chainVars, DeletionsEmptied, Emptied, Unasked
  <2>3. CASE Timely
    BY <2>1, <2>3, EmptiedStep DEF DeletionsEmptied
  <2> QED  BY <2>2, <2>3
<1>3. TypeOK /\ DeletionsEmptied /\ [Next]_vars
        => [\A k \in Keys : Deleted(k) => \A t \in ft_allowlist : ft[k][t] = 0]_vars
  <2> SUFFICES ASSUME TypeOK, DeletionsEmptied, [Next]_vars, NEW k \in Keys, Deleted(k),
                      NEW t \in ft_allowlist
               PROVE  ft[k][t] = 0
    OBVIOUS
  <2>1. PICK s \in Slots : At(s, "reclaim", "effect") /\ calls[s].key = k
    BY DeletedBy
  <2> QED  BY <2>1 DEF DeletionsEmptied, Emptied, Unasked, Deciding, At
<1> QED
  BY <1>1, <1>2, <1>3, TypeCorrect, PTL DEF Spec, NoLateTokens, NoStrandedTokens

-----------------------------------------------------------------------------
(* The tenancy that a deletion ends is the one that has run out.           *)

\* The moment of the rent stays with an entry.
LEMMA TenancyGoesOn ==
    ASSUME TenancyInv, [Next]_vars, NEW k \in Keys,
           sub_accounts[k] # None, sub_accounts'[k] # None
    PROVE  SameTenancy(k)
<1> SUFFICES sub_accounts'[k].rented_at = sub_accounts[k].rented_at
  BY DEF SameTenancy
<1>1. sub_accounts[k] \in SubAccountEntry
  BY EntryFields DEF TenancyInv
<1>2. CASE ~EntryStep
  BY <1>2, StepKinds, TlaStepFrame DEF OtherStep
<1>3. CASE EntryStep
  <2>1. ASSUME NEW s \in Slots, NEW caller \in Callers, NEW x \in Keys, NEW w \in Accounts,
               NEW d \in Deposits, RentSubAccount(s, caller, x, w, d)
        PROVE  sub_accounts'[k] = sub_accounts[k]
    BY <2>1 DEF RentSubAccount, TenancyInv, TypeOK
  <2>2. ASSUME NEW caller \in Callers, NEW x \in Keys,
               \/ \E d \in Deposits : RenewSubAccount(caller, x, d)
               \/ \E w \in Accounts : SetMainWallet(caller, x, w)
               \/ ScheduleRetraction(caller, x)
               \/ CancelRetraction(caller, x)
        PROVE  sub_accounts'[k].rented_at = sub_accounts[k].rented_at
    BY <1>1, <2>2 DEF RenewSubAccount, SetMainWallet, ScheduleRetraction, CancelRetraction,
       TenancyInv, TypeOK, SubAccountEntry
  <2>3. ASSUME NEW s \in Slots, \/ OnSubAccountCreationFailed(s)
                                \/ OnReclaimFinalized(s)
                                \/ OnExportSettled(s)
        PROVE  sub_accounts'[k] = sub_accounts[k]
    BY <2>3 DEF OnSubAccountCreationFailed, OnReclaimFinalized, OnExportSettled,
                RemoveSubAccount, subVars, TenancyInv, TypeOK
  <2>4. ASSUME NEW s \in Slots, OnSubAccountSold(s)
        PROVE  sub_accounts'[k].rented_at = sub_accounts[k].rented_at
    BY <1>1, <2>4 DEF OnSubAccountSold, TenancyInv, TypeOK, SubAccountEntry
  <2> QED  BY <1>3, <2>1, <2>2, <2>3, <2>4 DEF EntryStep
<1> QED  BY <1>2, <1>3

\* The tenancy at which a reclaim is aimed may still be reclaimed.
Due(c) ==
    c.kind = "reclaim" /\ c.stage \in Deciding =>
        \A k \in Keys : c.key = k /\ sub_accounts[k] # None => Reclaimable(k)

ReclaimsDue == \A s \in Slots : Due(calls[s])

Undisturbed ==
    \A s \in Slots : calls[s].kind = "reclaim" =>
         LET k == calls[s].key IN
         /\ sub_accounts[k] = None => sub_accounts'[k] = None
         /\ sub_accounts[k] # None => tlas'[TlaOf[k]].status # "Suspended"
         /\ fee_config' = fee_config

LEMMA DueStep ==
    ASSUME TenancyInv, TenancyInv', ReclaimsDue, [Next]_vars, Undisturbed, NEW s \in Slots
    PROVE  Due(calls[s])'
<1> SUFFICES ASSUME calls'[s].kind = "reclaim", calls'[s].stage \in Deciding,
                    NEW k \in Keys, calls'[s].key = k, sub_accounts'[k] # None
             PROVE  Reclaimable(k)'
  BY DEF Due
<1>3. DeletionStep(s)
  BY DeletionsStep DEF DeletionSteps, TenancyInv
<1>4. CASE BegunInTime(k)
  <2>1. Reclaimable(k) /\ UNCHANGED <<tlas, sub_accounts, fee_config, now>>
    BY <1>4 DEF BegunInTime
  <2> QED  BY <2>1 DEF Reclaimable, LifecycleOf
<1>5. CASE ~BegunInTime(k)
  <2>1. calls[s].kind = "reclaim" /\ calls[s].stage \in Deciding /\ calls[s].key = k
    BY <1>3, <1>5 DEF DeletionStep, Deciding
  <2>2. /\ sub_accounts[k] # None /\ Reclaimable(k)
        /\ tlas'[TlaOf[k]].status # "Suspended" /\ fee_config' = fee_config
    BY <2>1 DEF ReclaimsDue, Due, Undisturbed
  <2> QED  BY <2>2, TenancyGoesOn, ReclaimableStays
<1> QED  BY <1>4, <1>5

\* If no name is rented anew and no lapsed tenancy is revived by an admin while a
\* reclaim of it is in flight, then whatever else overtakes whatever number of
\* reclaims, renewals, sales and exports, an account is deleted only if its tenancy
\* may be reclaimed at that moment, or has left the registry already.
THEOREM DeletionsAreDue == Spec /\ ReclaimsUndisturbed => DeletesOnlyReclaimable
<1>1. Init => ReclaimsDue
  BY DEF Init, Start, ReclaimsDue, Due, NoCall
<1>2. TenancyInv /\ TenancyInv' /\ ReclaimsDue /\ [Next]_vars /\ [Undisturbed]_vars
        => ReclaimsDue'
  <2>1. ASSUME ReclaimsDue, UNCHANGED vars
        PROVE  ReclaimsDue'
    BY <2>1 DEF ReclaimsDue, Due, Reclaimable, LifecycleOf, vars, tlaVars, subVars, adminVars
  <2> QED  BY <2>1, DueStep DEF ReclaimsDue
<1>3. TenancyInv /\ ReclaimsDue /\ [Next]_vars
        => [\A k \in Keys : Deleted(k) /\ sub_accounts[k] # None => Reclaimable(k)]_vars
  <2> SUFFICES ASSUME TenancyInv, ReclaimsDue, [Next]_vars, NEW k \in Keys, Deleted(k),
                      sub_accounts[k] # None
               PROVE  Reclaimable(k)
    OBVIOUS
  <2>1. PICK s \in Slots : At(s, "reclaim", "effect") /\ calls[s].key = k
    BY DeletedBy DEF TenancyInv
  <2> QED  BY <2>1 DEF ReclaimsDue, Due, Deciding, At
<1> QED
  BY <1>1, <1>2, <1>3, TenancyInvHolds, PTL
  DEF Spec, ReclaimsUndisturbed, DeletesOnlyReclaimable, Undisturbed
=============================================================================
