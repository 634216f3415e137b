---------------------------- MODULE Types_proofs ----------------------------
(***************************************************************************)
(* Type correctness of the whole system.  TypeOK is inductive by itself:   *)
(* there is one lemma for the actions of each component, with one step per *)
(* action.                                                                 *)
(***************************************************************************)
EXTENDS HosTla, FiniteSetTheorems, TLAPS

-----------------------------------------------------------------------------
(* Amounts.                                                                *)

LEMMA MonusType ==
    ASSUME NEW a \in Nat, NEW b \in Nat
    PROVE  Monus(a, b) \in Nat
BY DEF Monus

LEMMA BaseRentType ==
    ASSUME NEW len \in Nat, NEW config \in FeeConfigType
    PROVE  BaseRent(len, config) \in Nat
BY DEF BaseRent, FeeConfigType

LEMMA RentType ==
    ASSUME NEW tla \in TlaEntry, NEW len \in Nat, NEW config \in FeeConfigType
    PROVE  CalculateRent(tla, len, config) \in Nat
<1>1. BaseRent(len, config) \in Nat
  BY BaseRentType
<1>2. ASSUME NEW premium \in PremiumCategories
      PROVE  SubAccountRent(len, premium, config) \in Nat
  BY <1>1 DEF SubAccountRent, Multiplier, PremiumCategories
<1> QED  BY <1>2 DEF CalculateRent, TlaEntry, FeeConfigType

LEMMA CommissionType ==
    ASSUME NEW price \in Nat, NEW config \in FeeConfigType
    PROVE  Commission(price, config) \in 0..price
<1>1. price * config.resale_commission_bps \in Nat
  BY DEF FeeConfigType
<1>2. (price * config.resale_commission_bps) \div BPS_DENOMINATOR \in Nat
  BY <1>1 DEF BPS_DENOMINATOR
<1> QED  BY <1>2 DEF Commission

LEMMA CallerType ==
    ASSUME NEW caller \in Callers
    PROVE  caller \in Accounts
BY DEF Callers, Accounts

-----------------------------------------------------------------------------
(* The helpers of the handlers.                                            *)

LEMMA TlaEntryUpdate ==
    ASSUME NEW tla \in TlaEntry, NEW status \in TlaStatuses, NEW expires_at \in Nat
    PROVE  /\ [tla EXCEPT !.status = status] \in TlaEntry
           /\ [tla EXCEPT !.expires_at = expires_at] \in TlaEntry
           /\ [tla EXCEPT !.status = status, !.expires_at = expires_at] \in TlaEntry
BY DEF TlaEntry

LEMMA SubAccountEntryUpdate ==
    ASSUME NEW sub \in SubAccountEntry
    PROVE  /\ \A w \in Accounts : [sub EXCEPT !.main_wallet = w] \in SubAccountEntry
           /\ \A t \in Nat : [sub EXCEPT !.expires_at = t] \in SubAccountEntry
           /\ \A r \in Nat \cup {None} : [sub EXCEPT !.retraction_at = r] \in SubAccountEntry
           /\ \A o \in Accounts :
                [sub EXCEPT !.owner = o, !.main_wallet = o] \in SubAccountEntry
BY DEF SubAccountEntry

LEMMA CallType ==
    ASSUME TypeOK, NEW s \in Slots, calls[s].kind \in Kinds
    PROVE  calls[s] \in Call
BY DEF TypeOK, NoCall, Kinds

LEMMA FailedCallType ==
    ASSUME NEW c \in Call, NEW ok \in BOOLEAN, NEW sent \in Nat
    PROVE  [c EXCEPT !.stage = "callback", !.ok = ok, !.sent = sent] \in Call
BY DEF Call, Stages

LEMMA QueriedCallType ==
    ASSUME NEW c \in Call, NEW left \in SUBSET Tokens, NEW ok \in BOOLEAN,
           NEW stage \in Stages
    PROVE  [c EXCEPT !.left = left, !.ok = ok, !.stage = stage] \in Call
BY DEF Call

LEMMA AdvanceType ==
    ASSUME TypeOK, NEW s \in Slots, calls[s] \in Call,
           NEW stage \in Stages, NEW ok \in BOOLEAN, Advance(s, stage, ok)
    PROVE  calls' \in [Slots -> Call \cup {NoCall}]
BY DEF TypeOK, Advance, Call

LEMMA StartCallType ==
    ASSUME TypeOK, NEW s \in Slots, NEW call \in Call, StartCall(s, call)
    PROVE  calls' \in [Slots -> Call \cup {NoCall}]
BY DEF TypeOK, StartCall

LEMMA ChargedCallType ==
    ASSUME NEW kind \in Kinds, NEW stage \in Stages, NEW key \in Keys,
           NEW who \in Accounts, NEW paid \in Nat, NEW cost \in Nat, NEW sent \in Nat,
           NEW left \in SUBSET Tokens
    PROVE  [kind |-> kind, stage |-> stage, key |-> key, who |-> who, paid |-> paid,
            cost |-> cost, sent |-> sent, left |-> left, ok |-> TRUE] \in Call
BY DEF Call

LEMMA EndCallType ==
    ASSUME TypeOK, NEW s \in Slots, EndCall(s)
    PROVE  calls' \in [Slots -> Call \cup {NoCall}]
BY DEF TypeOK, EndCall

\* What the steps of a promise chain do to it and to the others.
LEMMA CallStarted ==
    ASSUME TypeOK, NEW s \in Slots, NEW call, StartCall(s, call)
    PROVE  /\ calls[s] = NoCall
           /\ calls'[s] = call
           /\ \A d \in Slots \ {s} : calls'[d] = calls[d]
BY DEF TypeOK, StartCall

LEMMA CallAdvanced ==
    ASSUME TypeOK, NEW s \in Slots, calls[s].kind \in Kinds, NEW stage, NEW ok,
           Advance(s, stage, ok)
    PROVE  /\ \A d \in Slots \ {s} : calls'[d] = calls[d]
           /\ calls'[s].kind = calls[s].kind
           /\ calls'[s].key = calls[s].key
           /\ calls'[s].who = calls[s].who
           /\ calls'[s].paid = calls[s].paid
           /\ calls'[s].cost = calls[s].cost
           /\ calls'[s].sent = calls[s].sent
           /\ calls'[s].stage = stage
           /\ calls'[s].ok = ok
<1>1. calls[s] \in Call
  BY CallType
<1> QED  BY <1>1 DEF TypeOK, Advance, Call

LEMMA CallEnded ==
    ASSUME TypeOK, NEW s \in Slots, EndCall(s)
    PROVE  /\ \A d \in Slots \ {s} : calls'[d] = calls[d]
           /\ calls'[s] = NoCall
BY DEF TypeOK, EndCall

LEMMA AddPendingRefundType ==
    ASSUME TypeOK, NEW account \in Accounts, NEW amount \in Nat,
           AddPendingRefund(account, amount)
    PROVE  /\ pending_refunds' \in [Accounts -> Nat]
           /\ total_pending_refunds' \in Nat
BY DEF TypeOK, AddPendingRefund, Credited

LEMMA ChargeCallerType ==
    ASSUME TypeOK, NEW caller \in Accounts, NEW attached \in Nat, NEW price \in Nat,
           ChargeCaller(caller, attached, price)
    PROVE  /\ balance' \in Nat
           /\ total_revenue' \in Nat
           /\ pending_refunds' \in [Accounts -> Nat]
           /\ total_pending_refunds' \in Nat
<1>1. Monus(attached, price) \in Nat
  BY MonusType
<1>2. AddPendingRefund(caller, Monus(attached, price))
  BY DEF ChargeCaller
<1> QED  BY <1>1, <1>2, AddPendingRefundType DEF TypeOK, ChargeCaller, Receive

LEMMA DecrementType ==
    ASSUME TypeOK, NEW t \in Tlas, BusinessCountDecrement(t)
    PROVE  business_sub_count' \in [Tlas -> Nat]
<1>1. Monus(business_sub_count[t], 1) \in Nat
  BY MonusType DEF TypeOK
<1> QED  BY <1>1 DEF TypeOK, BusinessCountDecrement

LEMMA RemoveSubAccountType ==
    ASSUME TypeOK, NEW k \in Keys, RemoveSubAccount(k)
    PROVE  /\ sub_accounts' \in [Keys -> SubAccountEntry \cup {None}]
           /\ sub_account_count' \in Nat
           /\ listings' \in [Keys -> Listing \cup {None}]
           /\ accepted_offers' \in [Keys -> AcceptedOffer \cup {None}]
           /\ business_sub_count' \in [Tlas -> Nat]
<1>1. TlaOf[k] \in Tlas
  BY RegistryAssumption
<1>2. business_sub_count' \in [Tlas -> Nat]
  BY <1>1, DecrementType DEF RemoveSubAccount
<1>3. Monus(sub_account_count, 1) \in Nat
  BY MonusType DEF TypeOK
<1> QED  BY <1>2, <1>3 DEF TypeOK, RemoveSubAccount, RemoveSaleTerms

\* The variables that an action leaves alone.
USE DEF tlaVars, subVars, saleVars, motherVars, businessVars, adminVars, refundVars,
        moneyVars, chainVars

-----------------------------------------------------------------------------
(* Admin.                                                                  *)

LEMMA TypeAdmin ==
    ASSUME TypeOK, AdminNext
    PROVE  TypeOK'
<1> USE DEF TypeOK
<1>1. ASSUME NEW caller \in Callers, NEW t \in Tlas, NEW type \in TlaTypes,
             NEW premium \in PremiumCategories, NEW l \in Accounts \cup {None},
             RegisterTla(caller, t, type, premium, l)
      PROVE  TypeOK'
  BY <1>1 DEF RegisterTla, TlaEntry, TlaStatuses, Accounts
<1>2. ASSUME NEW caller \in Callers, NEW t \in Tlas, ActivateOpenTla(caller, t)
      PROVE  TypeOK'
  <2>1. now + ONE_YEAR \in Nat
    BY LifecycleAssumption
  <2> QED  BY <1>2, <2>1, TlaEntryUpdate DEF ActivateOpenTla, TlaStatuses
<1>3. ASSUME NEW caller \in Callers, NEW t \in Tlas, SuspendTla(caller, t)
      PROVE  TypeOK'
  <2>1. tlas[t] \in TlaEntry
    BY <1>3 DEF SuspendTla
  <2>2. tlas' \in [Tlas -> TlaEntry \cup {None}]
    BY <1>3, <2>1, TlaEntryUpdate DEF SuspendTla, TlaStatuses
  <2> QED  BY <1>3, <2>2 DEF SuspendTla
<1>4. ASSUME NEW caller \in Callers, NEW t \in Tlas, UnsuspendTla(caller, t)
      PROVE  TypeOK'
  BY <1>4 DEF UnsuspendTla, TlaEntry, TlaStatuses
<1>5. ASSUME NEW caller \in Callers, NEW a \in Accounts, AddAdmin(caller, a)
      PROVE  TypeOK'
  BY <1>5 DEF AddAdmin, SetAdmins, Accounts
<1>6. ASSUME NEW caller \in Callers, NEW a \in Accounts, RemoveAdmin(caller, a)
      PROVE  TypeOK'
  BY <1>6 DEF RemoveAdmin, SetAdmins
<1>7. ASSUME NEW caller \in Callers, NEW config \in FeeConfigs,
             UpdateFeeConfig(caller, config)
      PROVE  TypeOK'
  BY <1>7, RegistryAssumption DEF UpdateFeeConfig
<1>8. ASSUME NEW caller \in Callers, NEW value \in BOOLEAN, SetPaused(caller, value)
      PROVE  TypeOK'
  BY <1>8 DEF SetPaused
<1>9. ASSUME NEW caller \in Callers, NEW t \in Tokens, AddFtAllowlist(caller, t)
      PROVE  TypeOK'
  BY <1>9 DEF AddFtAllowlist
<1>10. ASSUME NEW caller \in Callers, NEW t \in Tokens, RemoveFtAllowlist(caller, t)
       PROVE  TypeOK'
  BY <1>10 DEF RemoveFtAllowlist
<1>11. ASSUME NEW caller \in Callers, NEW t \in Nfts, AddNftAllowlist(caller, t)
       PROVE  TypeOK'
  BY <1>11 DEF AddNftAllowlist
<1>12. ASSUME NEW caller \in Callers, NEW t \in Nfts, RemoveNftAllowlist(caller, t)
       PROVE  TypeOK'
  BY <1>12 DEF RemoveNftAllowlist
<1> HIDE DEF TypeOK
<1> QED
  BY <1>1, <1>2, <1>3, <1>4, <1>5, <1>6, <1>7, <1>8, <1>9, <1>10, <1>11, <1>12 DEF AdminNext

-----------------------------------------------------------------------------
(* Rental.                                                                 *)

LEMMA EnsureMotherType ==
    ASSUME mothers \in [Accounts -> Accounts \cup {None}],
           mother_use_count \in [Accounts -> Nat],
           NEW user \in Accounts, EnsureMotherDefault(user)
    PROVE  /\ mothers' \in [Accounts -> Accounts \cup {None}]
           /\ mother_use_count' \in [Accounts -> Nat]
BY DEF EnsureMotherDefault, IncrementMotherUse

LEMMA TypeRentSubAccount ==
    ASSUME TypeOK, NEW s \in Slots, NEW caller \in Callers, NEW k \in Keys,
           NEW w \in Accounts, NEW d \in Deposits, RentSubAccount(s, caller, k, w, d)
    PROVE  TypeOK'
<1>1. d \in Nat /\ caller \in Accounts
  BY CallerType, RegistryAssumption
<1>2. RentOf(k) \in Nat
  BY RentType, RegistryAssumption DEF TypeOK, RentOf, RentSubAccount
<1>3. sub_accounts' \in [Keys -> SubAccountEntry \cup {None}]
  BY <1>1, LifecycleAssumption DEF TypeOK, RentSubAccount, NewTenancy, SubAccountEntry
<1>4. balance' \in Nat
  BY <1>1, <1>2 DEF TypeOK, RentSubAccount, FeeConfigType
<1>5. business_sub_count' \in [Tlas -> Nat]
  BY DEF TypeOK, RentSubAccount, BusinessCountBump
<1>6. mothers' \in [Accounts -> Accounts \cup {None}]
      /\ mother_use_count' \in [Accounts -> Nat]
  BY <1>1, EnsureMotherType DEF TypeOK, RentSubAccount
<1>7. calls' \in [Slots -> Call \cup {NoCall}]
  <2> DEFINE call == [kind |-> "rent", stage |-> "dispatch", key |-> k, who |-> caller,
                      paid |-> d, cost |-> RentOf(k),
                      sent |-> fee_config.account_creation_deposit, left |-> {}, ok |-> TRUE]
  <2>1. fee_config.account_creation_deposit \in Nat
    BY DEF TypeOK, FeeConfigType
  <2>2. call \in Call
    BY <1>1, <1>2, <2>1, ChargedCallType DEF Kinds, Stages
  <2>3. StartCall(s, call)
    BY DEF RentSubAccount
  <2> QED  BY <2>2, <2>3, StartCallType
<1> QED
  BY <1>3, <1>4, <1>5, <1>6, <1>7 DEF TypeOK, RentSubAccount

LEMMA RenewedType ==
    ASSUME NEW expires_at \in Nat, now \in Nat
    PROVE  Renewed(expires_at) \in Nat
BY LifecycleAssumption DEF Renewed

LEMMA TypeRental ==
    ASSUME TypeOK, RentalNext
    PROVE  TypeOK'
<1>1. ASSUME NEW caller \in Callers, NEW t \in Tlas, NEW d \in Deposits,
             ActivateTla(caller, t, d)
      PROVE  TypeOK'
  <2>1. BaseRent(TlaLength[t], fee_config) \in Nat
    BY BaseRentType, RegistryAssumption DEF TypeOK
  <2>2. fee_config.tla_allocation_fee + BaseRent(TlaLength[t], fee_config) \in Nat
    BY <2>1 DEF TypeOK, FeeConfigType
  <2>3. caller \in Accounts /\ d \in Nat
    BY CallerType, RegistryAssumption
  <2>4. now + ONE_YEAR \in Nat
    BY LifecycleAssumption DEF TypeOK
  <2>5. tlas' \in [Tlas -> TlaEntry \cup {None}]
    BY <1>1, <2>4, TlaEntryUpdate DEF TypeOK, ActivateTla, TlaStatuses
  <2>6. /\ balance' \in Nat
        /\ total_revenue' \in Nat
        /\ pending_refunds' \in [Accounts -> Nat]
        /\ total_pending_refunds' \in Nat
    BY <1>1, <2>2, <2>3, ChargeCallerType DEF ActivateTla
  <2> QED  BY <1>1, <2>5, <2>6 DEF TypeOK, ActivateTla
<1>2. ASSUME NEW caller \in Callers, NEW t \in Tlas, NEW d \in Deposits,
             RenewTla(caller, t, d)
      PROVE  TypeOK'
  <2>1. BaseRent(TlaLength[t], fee_config) \in Nat
    BY BaseRentType, RegistryAssumption DEF TypeOK
  <2>2. caller \in Accounts /\ d \in Nat
    BY CallerType, RegistryAssumption
  <2>3. tlas[t] \in TlaEntry
    BY <1>2 DEF TypeOK, RenewTla
  <2>4. Renewed(tlas[t].expires_at) \in Nat
    BY <2>3, RenewedType DEF TypeOK, TlaEntry
  <2>5. tlas' \in [Tlas -> TlaEntry \cup {None}]
    BY <1>2, <2>3, <2>4, TlaEntryUpdate DEF TypeOK, RenewTla, TlaStatuses
  <2>6. /\ balance' \in Nat
        /\ total_revenue' \in Nat
        /\ pending_refunds' \in [Accounts -> Nat]
        /\ total_pending_refunds' \in Nat
    BY <1>2, <2>1, <2>2, ChargeCallerType DEF RenewTla
  <2> QED  BY <1>2, <2>5, <2>6 DEF TypeOK, RenewTla
<1>3. ASSUME NEW caller \in Callers, NEW k \in Keys, NEW d \in Deposits,
             RenewSubAccount(caller, k, d)
      PROVE  TypeOK'
  <2>1. RentOf(k) \in Nat
    BY <1>3, RentType, RegistryAssumption DEF TypeOK, RentOf, RenewSubAccount
  <2>2. caller \in Accounts /\ d \in Nat
    BY CallerType, RegistryAssumption
  <2>3. sub_accounts[k] \in SubAccountEntry
    BY <1>3 DEF TypeOK, RenewSubAccount
  <2>4. Renewed(sub_accounts[k].expires_at) \in Nat
    BY <2>3, RenewedType DEF TypeOK, SubAccountEntry
  <2>5. sub_accounts' \in [Keys -> SubAccountEntry \cup {None}]
    BY <1>3, <2>3, <2>4, SubAccountEntryUpdate DEF TypeOK, RenewSubAccount
  <2>6. /\ balance' \in Nat
        /\ total_revenue' \in Nat
        /\ pending_refunds' \in [Accounts -> Nat]
        /\ total_pending_refunds' \in Nat
    BY <1>3, <2>1, <2>2, ChargeCallerType DEF RenewSubAccount
  <2> QED  BY <1>3, <2>5, <2>6 DEF TypeOK, RenewSubAccount
<1>4. ASSUME NEW caller \in Callers, NEW k \in Keys, NEW w \in Accounts,
             SetMainWallet(caller, k, w)
      PROVE  TypeOK'
  <2>1. sub_accounts[k] \in SubAccountEntry
    BY <1>4 DEF TypeOK, SetMainWallet
  <2>2. sub_accounts' \in [Keys -> SubAccountEntry \cup {None}]
    BY <1>4, <2>1, SubAccountEntryUpdate DEF TypeOK, SetMainWallet
  <2> QED  BY <1>4, <2>2 DEF TypeOK, SetMainWallet
<1>5. ASSUME NEW s \in Slots, CreateSubAccount(s)
      PROVE  TypeOK'
  <2>1. calls[s] \in Call
    BY <1>5, CallType DEF CreateSubAccount, At, Kinds
  <2>2. CASE Advance(s, "effect", TRUE) /\ UNCHANGED balance
    BY <1>5, <2>1, <2>2, AdvanceType DEF TypeOK, CreateSubAccount, Stages
  <2>3. CASE /\ calls' = [calls EXCEPT ![s].stage = "callback", ![s].ok = FALSE,
                                       ![s].sent = 0]
             /\ balance' = balance + calls[s].sent
    <3>1. calls[s].sent \in Nat
      BY <2>1 DEF Call
    <3>2. calls' \in [Slots -> Call \cup {NoCall}]
      BY <2>1, <2>3, FailedCallType DEF TypeOK
    <3> QED  BY <1>5, <2>3, <3>1, <3>2 DEF TypeOK, CreateSubAccount
  <2> QED  BY <1>5, <2>2, <2>3 DEF CreateSubAccount
<1>6. ASSUME NEW s \in Slots, CreateAccountBatch(s)
      PROVE  TypeOK'
  <2>1. calls[s] \in Call /\ calls[s].kind = "rent"
    BY <1>6, CallType DEF CreateAccountBatch, At, Kinds
  <2>2. [state |-> "Held", owner_key |-> calls[s].who] \in Locker
    BY <2>1 DEF Call, Locker, SubStates
  <2>4. locker' \in [Keys -> Locker]
    BY <1>6, <2>2 DEF TypeOK, CreateAccountBatch
  <2>3. calls' \in [Slots -> Call \cup {NoCall}]
    BY <1>6, <2>1, AdvanceType DEF CreateAccountBatch, Stages
  <2> QED  BY <1>6, <2>4, <2>3 DEF TypeOK, CreateAccountBatch
<1>7. ASSUME NEW s \in Slots, OnSubAccountCreated(s)
      PROVE  TypeOK'
  <2>1. calls[s] \in Call /\ calls[s].kind = "rent"
    BY <1>7, CallType DEF OnSubAccountCreated, At, Kinds
  <2>2. calls[s].who \in Accounts /\ calls[s].paid \in Nat /\ calls[s].cost \in Nat
    BY <2>1 DEF Call
  <2>3. calls[s].cost + fee_config.account_creation_deposit \in Nat
    BY <2>2 DEF TypeOK, FeeConfigType
  <2>4. Monus(calls[s].paid, calls[s].cost + fee_config.account_creation_deposit) \in Nat
    BY <2>2, <2>3, MonusType
  <2> QED  BY <1>7, <2>2, <2>4, AddPendingRefundType, EndCallType
           DEF TypeOK, OnSubAccountCreated
<1>8. ASSUME NEW s \in Slots, OnSubAccountCreatedPanics(s)
      PROVE  TypeOK'
  BY <1>8, EndCallType DEF TypeOK, OnSubAccountCreatedPanics
<1>9. ASSUME NEW s \in Slots, OnSubAccountCreationFailed(s)
      PROVE  TypeOK'
  <2>1. calls[s] \in Call /\ calls[s].kind = "rent"
    BY <1>9, CallType DEF OnSubAccountCreationFailed, At, Kinds
  <2>2. /\ calls[s].who \in Accounts
        /\ calls[s].paid \in Nat
        /\ TlaOf[calls[s].key] \in Tlas
    BY <2>1, RegistryAssumption DEF Call
  <2>3. business_sub_count' \in [Tlas -> Nat]
    BY <1>9, <2>2, DecrementType DEF OnSubAccountCreationFailed
  <2>4. /\ pending_refunds' \in [Accounts -> Nat]
        /\ total_pending_refunds' \in Nat
    BY <1>9, <2>2, AddPendingRefundType DEF OnSubAccountCreationFailed
  <2> QED  BY <1>9, <2>3, <2>4, EndCallType DEF TypeOK, OnSubAccountCreationFailed
<1> QED
  BY <1>1, <1>2, <1>3, <1>4, <1>5, <1>6, <1>7, <1>8, <1>9, TypeRentSubAccount DEF RentalNext

-----------------------------------------------------------------------------
(* Mother and Business.                                                    *)

LEMMA TypeMother ==
    ASSUME TypeOK, MotherNext
    PROVE  TypeOK'
<1>1. ASSUME NEW a \in Accounts
      PROVE  /\ DecrementMotherUse(mother_use_count, a) \in [Accounts -> Nat]
             /\ \A count \in [Accounts -> Nat] :
                  IncrementMotherUse(count, a) \in [Accounts -> Nat]
  <2>1. Monus(mother_use_count[a], 1) \in Nat
    BY MonusType DEF TypeOK
  <2> QED  BY <2>1 DEF TypeOK, DecrementMotherUse, IncrementMotherUse
<1>2. ASSUME NEW caller \in Callers, NEW m \in Accounts, SetMother(caller, m)
      PROVE  TypeOK'
  <2>1. caller \in Accounts
    BY CallerType
  <2>2. mothers[caller] \in Accounts \cup {None}
    BY <2>1 DEF TypeOK
  <2> DEFINE released == IF mothers[caller] = None THEN mother_use_count
                         ELSE DecrementMotherUse(mother_use_count, mothers[caller])
  <2>3. released \in [Accounts -> Nat]
    BY <1>1, <2>2 DEF TypeOK
  <2>4. mother_use_count' \in {released, IncrementMotherUse(released, m)}
    BY <1>2 DEF SetMother
  <2> HIDE DEF released
  <2>5. mother_use_count' \in [Accounts -> Nat]
    BY <1>1, <2>3, <2>4
  <2> QED  BY <1>2, <2>1, <2>5 DEF TypeOK, SetMother
<1>3. ASSUME NEW caller \in Callers, NEW u \in Accounts, AdminClearMother(caller, u)
      PROVE  TypeOK'
  <2>1. mothers[u] \in Accounts
    BY <1>3 DEF TypeOK, AdminClearMother
  <2>2. mother_use_count' \in [Accounts -> Nat]
    BY <1>1, <1>3, <2>1 DEF AdminClearMother
  <2> QED  BY <1>3, <2>2 DEF TypeOK, AdminClearMother
<1> QED  BY <1>2, <1>3 DEF MotherNext

LEMMA TypeBusiness ==
    ASSUME TypeOK, BusinessNext
    PROVE  TypeOK'
<1>1. ASSUME NEW caller \in Callers, NEW k \in Keys, ScheduleRetraction(caller, k)
      PROVE  TypeOK'
  <2>1. sub_accounts[k] \in SubAccountEntry
    BY <1>1 DEF TypeOK, ScheduleRetraction
  <2>2. [sub_accounts[k] EXCEPT !.retraction_at = now] \in SubAccountEntry
    BY <2>1, SubAccountEntryUpdate DEF TypeOK
  <2> QED  BY <1>1, <2>2 DEF TypeOK, ScheduleRetraction
<1>2. ASSUME NEW caller \in Callers, NEW k \in Keys, CancelRetraction(caller, k)
      PROVE  TypeOK'
  <2>1. sub_accounts[k] \in SubAccountEntry
    BY <1>2 DEF TypeOK, CancelRetraction
  <2>2. [sub_accounts[k] EXCEPT !.retraction_at = None] \in SubAccountEntry
    BY <2>1, SubAccountEntryUpdate
  <2> QED  BY <1>2, <2>2 DEF TypeOK, CancelRetraction
<1>3. ASSUME NEW caller \in Callers, NEW t \in Tlas, NEW cap \in Caps \cup {None},
             SetBusinessSubCap(caller, t, cap)
      PROVE  TypeOK'
  <2>1. Cardinality(Keys) \in Nat
    BY FS_CardinalityType, RegistryAssumption
  <2>2. cap \in Nat \cup {None}
    BY <2>1 DEF Caps
  <2> QED  BY <1>3, <2>2 DEF TypeOK, SetBusinessSubCap
<1> QED  BY <1>1, <1>2, <1>3 DEF BusinessNext

-----------------------------------------------------------------------------
(* The locker and Reclaim.                                                 *)

LEMMA LockerUpdate ==
    ASSUME NEW l \in Locker
    PROVE  /\ \A a \in Accounts : [l EXCEPT !.owner_key = a] \in Locker
           /\ \A state \in SubStates : [l EXCEPT !.state = state] \in Locker
BY DEF Locker

LEMMA TypeLocker ==
    ASSUME TypeOK, LockerNext
    PROVE  TypeOK'
<1>1. ASSUME NEW s \in Slots, TransferOwnership(s)
      PROVE  TypeOK'
  <2>1. calls[s] \in Call /\ calls[s].kind = "buy"
    BY <1>1, CallType DEF TransferOwnership, At, Kinds
  <2>2. calls[s].who \in Accounts /\ calls[s].key \in Keys
    BY <2>1 DEF Call
  <2>3. [locker[calls[s].key] EXCEPT !.owner_key = calls[s].who] \in Locker
    BY <2>2, LockerUpdate DEF TypeOK
  <2>4. locker' \in [Keys -> Locker]
    BY <1>1, <2>3 DEF TypeOK, TransferOwnership
  <2>5. calls' \in [Slots -> Call \cup {NoCall}]
    BY <1>1, <2>1, AdvanceType DEF TransferOwnership, Held, Stages
  <2> QED  BY <1>1, <2>4, <2>5 DEF TypeOK, TransferOwnership
<1>2. ASSUME NEW s \in Slots, FinalizeDelete(s)
      PROVE  TypeOK'
  <2>1. calls[s] \in Call
    BY <1>2, CallType DEF FinalizeDelete, At, Kinds
  <2>2. calls' \in [Slots -> Call \cup {NoCall}]
    BY <1>2, <2>1, AdvanceType DEF FinalizeDelete, Stages
  <2> QED  BY <1>2, <2>2 DEF TypeOK, FinalizeDelete
<1>3. ASSUME NEW s \in Slots, DeleteAccount(s)
      PROVE  TypeOK'
  <2>1. calls[s] \in Call
    BY <1>3, CallType DEF DeleteAccount, At, Kinds
  <2>2. calls' \in [Slots -> Call \cup {NoCall}]
    BY <1>3, <2>1, AdvanceType DEF DeleteAccount, Stages
  <2>3. locker' \in [Keys -> Locker]
    BY <1>3 DEF TypeOK, DeleteAccount, NoLocker, Locker
  <2> QED  BY <1>3, <2>2, <2>3 DEF TypeOK, DeleteAccount
<1>4. ASSUME NEW s \in Slots, Export(s)
      PROVE  TypeOK'
  <2>1. calls[s] \in Call /\ calls[s].kind = "export"
    BY <1>4, CallType DEF Export, At, Kinds
  <2>2. calls[s].key \in Keys
    BY <2>1 DEF Call
  <2>3. [locker[calls[s].key] EXCEPT !.state = "Exporting"] \in Locker
    BY <2>2, LockerUpdate DEF TypeOK, SubStates
  <2>4. locker' \in [Keys -> Locker]
    BY <1>4, <2>3 DEF TypeOK, Export
  <2>5. calls' \in [Slots -> Call \cup {NoCall}]
    BY <1>4, <2>1, AdvanceType DEF Export, Stages
  <2> QED  BY <1>4, <2>4, <2>5 DEF TypeOK, Export
<1>5. ASSUME NEW s \in Slots, AddFullAccessKey(s)
      PROVE  TypeOK'
  <2>1. calls[s] \in Call
    BY <1>5, CallType DEF AddFullAccessKey, At, Kinds
  <2>2. calls' \in [Slots -> Call \cup {NoCall}]
    BY <1>5, <2>1, AdvanceType DEF AddFullAccessKey, Stages
  <2> QED  BY <1>5, <2>2 DEF TypeOK, AddFullAccessKey
<1>6. ASSUME NEW s \in Slots, OnExportResolved(s)
      PROVE  TypeOK'
  <2>1. calls[s] \in Call /\ calls[s].kind = "export"
    BY <1>6, CallType DEF OnExportResolved, At, Kinds
  <2>2. calls[s].key \in Keys
    BY <2>1 DEF Call
  <2> DEFINE state == IF calls[s].ok THEN "Exported" ELSE "Held"
  <2>3. [locker[calls[s].key] EXCEPT !.state = state] \in Locker
    BY <2>2, LockerUpdate DEF TypeOK, SubStates
  <2>4. locker' \in [Keys -> Locker]
    BY <1>6, <2>3 DEF TypeOK, OnExportResolved
  <2>5. calls' \in [Slots -> Call \cup {NoCall}]
    BY <1>6, <2>1, AdvanceType DEF OnExportResolved, Stages
  <2> QED  BY <1>6, <2>4, <2>5 DEF TypeOK, OnExportResolved
<1> QED  BY <1>1, <1>2, <1>3, <1>4, <1>5, <1>6 DEF LockerNext

LEMMA TypeReclaim ==
    ASSUME TypeOK, ReclaimNext
    PROVE  TypeOK'
<1>1. ASSUME NEW s \in Slots, NEW k \in Keys, ReclaimFinalize(s, k)
      PROVE  TypeOK'
  <2>1. sub_accounts[k].main_wallet \in Accounts
    BY <1>1 DEF TypeOK, ReclaimFinalize, SubAccountEntry
  <2>2. calls' \in [Slots -> Call \cup {NoCall}]
    BY <1>1, <2>1 DEF TypeOK, ReclaimFinalize, StartCall, AfterSnapshot, Call, Kinds, Stages
  <2> QED  BY <1>1, <2>2 DEF TypeOK, ReclaimFinalize
<1>2. ASSUME NEW s \in Slots, NEW caller \in Callers, NEW k \in Keys,
             ExportSubAccount(s, caller, k)
      PROVE  TypeOK'
  <2>1. calls' \in [Slots -> Call \cup {NoCall}]
    BY <1>2 DEF TypeOK, ExportSubAccount, StartCall, Call, Kinds, Stages
  <2> QED  BY <1>2, <2>1 DEF TypeOK, ExportSubAccount
<1>3. ASSUME NEW s \in Slots, OnBalancesChecked(s)
      PROVE  TypeOK'
  <2>1. calls[s] \in Call
    BY <1>3, CallType DEF OnBalancesChecked, At, Kinds
  <2>2. calls' \in [Slots -> Call \cup {NoCall}]
    BY <1>3, <2>1, AdvanceType, EndCallType DEF OnBalancesChecked, Stages
  <2> QED  BY <1>3, <2>2 DEF TypeOK, OnBalancesChecked
<1>4. ASSUME NEW s \in Slots, OnReclaimFinalized(s)
      PROVE  TypeOK'
  <2>1. calls[s].key \in Keys
    BY <1>4, CallType DEF OnReclaimFinalized, At, Kinds, Call
  <2>2. CASE calls[s].ok
    BY <1>4, <2>1, <2>2, RemoveSubAccountType, EndCallType DEF TypeOK, OnReclaimFinalized
  <2>3. CASE ~calls[s].ok
    BY <1>4, <2>3, EndCallType DEF TypeOK, OnReclaimFinalized
  <2> QED  BY <2>2, <2>3
<1>5. ASSUME NEW s \in Slots, OnExportSettled(s)
      PROVE  TypeOK'
  <2>1. calls[s].key \in Keys
    BY <1>5, CallType DEF OnExportSettled, At, Kinds, Call
  <2>2. CASE calls[s].ok /\ sub_accounts[calls[s].key] # None
    BY <1>5, <2>1, <2>2, RemoveSubAccountType, EndCallType DEF TypeOK, OnExportSettled
  <2>3. CASE ~(calls[s].ok /\ sub_accounts[calls[s].key] # None)
    BY <1>5, <2>3, EndCallType DEF TypeOK, OnExportSettled
  <2> QED  BY <2>2, <2>3
<1> QED  BY <1>1, <1>2, <1>3, <1>4, <1>5 DEF ReclaimNext

-----------------------------------------------------------------------------
(* Sweep.                                                                  *)

LEMMA MeasuredCallType ==
    ASSUME NEW c \in Call, NEW ok \in BOOLEAN, NEW cost \in Nat
    PROVE  [c EXCEPT !.stage = "measured", !.ok = ok, !.cost = cost] \in Call
BY DEF Call, Stages

LEMMA ProceedType ==
    ASSUME TypeOK, NEW s \in Slots, calls[s].kind = "sweep", NEW stage \in Stages,
           NEW condition, ProceedIf(s, condition, stage)
    PROVE  calls' \in [Slots -> Call \cup {NoCall}]
<1>1. calls[s] \in Call
  BY CallType DEF Kinds
<1>2. CASE condition
  BY <1>1, <1>2, AdvanceType DEF ProceedIf
<1>3. CASE ~condition
  BY <1>3, EndCallType DEF ProceedIf
<1> QED  BY <1>2, <1>3

LEMMA TypeSweep ==
    ASSUME TypeOK, SweepNext
    PROVE  TypeOK'
<1>1. ASSUME NEW s \in Slots, NEW k \in Keys, NEW t \in Tokens, ReclaimSweepFt(s, k, t)
      PROVE  TypeOK'
  <2>1. sub_accounts[k].main_wallet \in Accounts
    BY <1>1 DEF TypeOK, ReclaimSweepFt, SubAccountEntry
  <2>2. calls' \in [Slots -> Call \cup {NoCall}]
    BY <1>1, <2>1 DEF TypeOK, ReclaimSweepFt, StartCall, Call, Kinds, Stages
  <2> QED  BY <1>1, <2>2 DEF TypeOK, ReclaimSweepFt
<1>2. ASSUME NEW s \in Slots, SweepFt(s)
      PROVE  TypeOK'
  BY <1>2, ProceedType DEF TypeOK, SweepFt, At, Stages
<1>3. ASSUME NEW s \in Slots, AfterBalanceQuery(s)
      PROVE  TypeOK'
  BY <1>3, ProceedType DEF TypeOK, AfterBalanceQuery, At, Stages
<1>4. ASSUME NEW s \in Slots, AfterStorageDeposit(s)
      PROVE  TypeOK'
  BY <1>4, ProceedType DEF TypeOK, AfterStorageDeposit, At, Stages
<1>5. ASSUME NEW s \in Slots, NEW ok \in BOOLEAN, MeasureBalance(s, ok)
      PROVE  TypeOK'
  <2>1. calls[s] \in Call /\ calls[s].kind = "sweep"
    BY <1>5, CallType DEF MeasureBalance, At, Kinds
  <2>2. PICK t \in calls[s].left :
          calls' = [calls EXCEPT ![s].stage = "measured", ![s].ok = ok,
                                 ![s].cost = IF ok THEN ft[calls[s].key][t] ELSE 0]
    BY <1>5 DEF MeasureBalance
  <2>3. calls[s].key \in Keys /\ t \in Tokens
    BY <2>1 DEF Call
  <2> DEFINE cost == IF ok THEN ft[calls[s].key][t] ELSE 0
  <2>4. cost \in Nat
    BY <2>3 DEF TypeOK
  <2>5. [calls[s] EXCEPT !.stage = "measured", !.ok = ok, !.cost = cost] \in Call
    BY <2>1, <2>4, MeasuredCallType
  <2>6. calls' \in [Slots -> Call \cup {NoCall}]
    BY <2>2, <2>5 DEF TypeOK
  <2> QED  BY <1>5, <2>6 DEF TypeOK, MeasureBalance
<1>6. ASSUME NEW s \in Slots, NEW ok \in BOOLEAN, DepositStorage(s, ok)
      PROVE  TypeOK'
  <2>1. calls[s] \in Call
    BY <1>6, CallType DEF DepositStorage, At, Kinds
  <2> QED  BY <1>6, <2>1, AdvanceType DEF TypeOK, DepositStorage, Stages
<1>7. ASSUME NEW s \in Slots, NEW ok \in BOOLEAN, TransferTokens(s, ok)
      PROVE  TypeOK'
  <2>1. calls[s].key \in Keys /\ calls[s].cost \in Nat
    BY <1>7, CallType DEF TransferTokens, At, Kinds, Call
  <2>2. ft' \in [Keys -> [Tokens -> Nat]]
    BY <1>7, <2>1 DEF TypeOK, TransferTokens
  <2> QED  BY <1>7, <2>2, EndCallType DEF TypeOK, TransferTokens
<1> QED  BY <1>1, <1>2, <1>3, <1>4, <1>5, <1>6, <1>7 DEF SweepNext

-----------------------------------------------------------------------------
(* Marketplace.                                                            *)

LEMMA ListingUpdate ==
    ASSUME NEW l \in Listing, NEW settling \in BOOLEAN
    PROVE  [l EXCEPT !.settling = settling] \in Listing
BY DEF Listing

LEMMA OfferUpdate ==
    ASSUME NEW o \in AcceptedOffer, NEW settling \in BOOLEAN
    PROVE  [o EXCEPT !.settling = settling] \in AcceptedOffer
BY DEF AcceptedOffer

LEMMA AbortSaleType ==
    ASSUME TypeOK, NEW s \in Slots, calls[s].kind = "buy", AbortSale(s)
    PROVE  /\ listings' \in [Keys -> Listing \cup {None}]
           /\ accepted_offers' \in [Keys -> AcceptedOffer \cup {None}]
           /\ pending_refunds' \in [Accounts -> Nat]
           /\ total_pending_refunds' \in Nat
           /\ total_revenue' \in Nat
           /\ calls' \in [Slots -> Call \cup {NoCall}]
<1>1. calls[s] \in Call
  BY CallType DEF Kinds
<1>2. calls[s].who \in Accounts /\ calls[s].paid \in Nat /\ calls[s].key \in Keys
  BY <1>1 DEF Call
<1>3. /\ pending_refunds' \in [Accounts -> Nat]
      /\ total_pending_refunds' \in Nat
  BY <1>2, AddPendingRefundType DEF AbortSale
<1>4. listings' \in [Keys -> Listing \cup {None}]
  BY <1>2, ListingUpdate DEF TypeOK, AbortSale, ClearSettling
<1>5. accepted_offers' \in [Keys -> AcceptedOffer \cup {None}]
  BY <1>2, OfferUpdate DEF TypeOK, AbortSale, ClearSettling
<1> QED  BY <1>3, <1>4, <1>5, EndCallType DEF TypeOK, AbortSale

LEMMA TypeBuy ==
    ASSUME TypeOK, NEW s \in Slots, NEW buyer \in Callers, NEW k \in Keys,
           NEW d \in Deposits, BuySubAccount(s, buyer, k, d)
    PROVE  TypeOK'
<1>1. d \in Nat /\ buyer \in Accounts
  BY CallerType, RegistryAssumption
<1>2. SalePrice(k, buyer) \in Nat
  BY DEF TypeOK, BuySubAccount, SaleTermsExist, OfferedTo, SalePrice, Listing, AcceptedOffer
<1> DEFINE SaleTypeOK == /\ listings' \in [Keys -> Listing \cup {None}]
                         /\ accepted_offers' \in [Keys -> AcceptedOffer \cup {None}]
<1>3. ASSUME OfferedTo(k, buyer) PROVE SaleTypeOK
  <2>1. [accepted_offers[k] EXCEPT !.settling = TRUE] \in AcceptedOffer
    BY <1>3, OfferUpdate DEF TypeOK, OfferedTo
  <2> QED  BY <1>3, <2>1 DEF TypeOK, BuySubAccount, LockSale
<1>4. ASSUME ~OfferedTo(k, buyer) PROVE SaleTypeOK
  <2>1. [listings[k] EXCEPT !.settling = TRUE] \in Listing
    BY <1>4, ListingUpdate DEF TypeOK, BuySubAccount, SaleTermsExist
  <2> QED  BY <1>4, <2>1 DEF TypeOK, BuySubAccount, LockSale
<1>5. calls' \in [Slots -> Call \cup {NoCall}]
  <2> DEFINE call == [kind |-> "buy", stage |-> AfterSnapshot, key |-> k, who |-> buyer,
                      paid |-> d, cost |-> SalePrice(k, buyer), sent |-> 0,
                      left |-> ft_allowlist, ok |-> TRUE]
  <2>1. AfterSnapshot \in Stages /\ ft_allowlist \in SUBSET Tokens
    BY DEF TypeOK, AfterSnapshot, Stages
  <2>2. call \in Call
    BY <1>1, <1>2, <2>1, ChargedCallType DEF Kinds
  <2>3. StartCall(s, call)
    BY DEF BuySubAccount
  <2> QED  BY <2>2, <2>3, StartCallType
<1> QED  BY <1>1, <1>3, <1>4, <1>5 DEF TypeOK, BuySubAccount, Receive

LEMMA TypeSold ==
    ASSUME TypeOK, NEW s \in Slots, OnSubAccountSold(s)
    PROVE  TypeOK'
<1> DEFINE c == calls[s]
           commission == Commission(c.cost, fee_config)
           seller == sub_accounts[c.key].owner
<1>1. calls[s] \in Call /\ calls[s].kind = "buy"
  BY CallType DEF OnSubAccountSold, At, Kinds
<1>2. c.who \in Accounts /\ c.paid \in Nat /\ c.cost \in Nat /\ c.key \in Keys
  BY <1>1 DEF Call
<1>3. commission \in 0..c.cost
  BY <1>2, CommissionType DEF TypeOK
<1>4. c.cost - commission \in Nat /\ total_revenue + commission \in Nat
  BY <1>2, <1>3 DEF TypeOK
<1>5. sub_accounts[c.key] \in SubAccountEntry
  BY <1>2 DEF TypeOK, OnSubAccountSold
<1>6. seller \in Accounts
  BY <1>5 DEF SubAccountEntry
<1>7. Monus(c.paid, c.cost) \in Nat
  BY <1>2, MonusType
<1> DEFINE excess == Monus(c.paid, c.cost)
           proceeds == c.cost - commission
<1>8. /\ pending_refunds' =
           Credited(Credited(pending_refunds, seller, proceeds), c.who, excess)
      /\ total_pending_refunds' = total_pending_refunds + proceeds + excess
      /\ total_revenue' = total_revenue + commission
  BY DEF OnSubAccountSold
<1>9. [sub_accounts[c.key] EXCEPT !.owner = c.who, !.main_wallet = c.who] \in SubAccountEntry
  BY <1>2, <1>5, SubAccountEntryUpdate
<1>10. sub_accounts' \in [Keys -> SubAccountEntry \cup {None}]
  BY <1>9 DEF TypeOK, OnSubAccountSold
<1> HIDE DEF excess, proceeds, commission, seller
<1>11. total_pending_refunds' \in Nat /\ total_revenue' \in Nat
  BY <1>4, <1>7, <1>8 DEF TypeOK, proceeds, excess
<1>12. pending_refunds' \in [Accounts -> Nat]
  <2>1. pending_refunds \in [Accounts -> Nat]
    BY DEF TypeOK
  <2>2. Credited(pending_refunds, seller, proceeds) \in [Accounts -> Nat]
    BY <1>4, <1>6, <2>1 DEF Credited, proceeds
  <2> QED  BY <1>2, <1>7, <1>8, <2>2 DEF Credited, excess
<1> QED  BY <1>10, <1>11, <1>12, EndCallType DEF TypeOK, OnSubAccountSold, RemoveSaleTerms

LEMMA TypeMarketplace ==
    ASSUME TypeOK, MarketplaceNext
    PROVE  TypeOK'
<1>1. ASSUME NEW caller \in Callers, NEW k \in Keys, NEW price \in Prices,
             ListSubAccount(caller, k, price)
      PROVE  TypeOK'
  BY <1>1, RegistryAssumption DEF TypeOK, ListSubAccount, Listing
<1>2. ASSUME NEW caller \in Callers, NEW k \in Keys, NEW price \in Prices,
             NEW buyer \in Accounts, AcceptOffer(caller, k, buyer, price)
      PROVE  TypeOK'
  BY <1>2, RegistryAssumption DEF TypeOK, AcceptOffer, AcceptedOffer
<1>3. ASSUME NEW caller \in Callers, NEW k \in Keys, UnlistSubAccount(caller, k)
      PROVE  TypeOK'
  BY <1>3 DEF TypeOK, UnlistSubAccount
<1>4. ASSUME NEW caller \in Callers, NEW k \in Keys, RevokeOffer(caller, k)
      PROVE  TypeOK'
  BY <1>4 DEF TypeOK, RevokeOffer
<1>5. ASSUME NEW s \in Slots, OnBuyBalancesChecked(s)
      PROVE  TypeOK'
  <2>1. calls[s] \in Call /\ calls[s].kind = "buy"
    BY <1>5, CallType DEF OnBuyBalancesChecked, At, Kinds
  <2>2. CASE calls[s].ok
    <3>1. calls' \in [Slots -> Call \cup {NoCall}]
      BY <1>5, <2>1, <2>2, AdvanceType DEF OnBuyBalancesChecked, Stages
    <3> QED  BY <1>5, <2>2, <3>1 DEF TypeOK, OnBuyBalancesChecked
  <2>3. CASE ~calls[s].ok
    BY <1>5, <2>1, <2>3, AbortSaleType DEF TypeOK, OnBuyBalancesChecked
  <2> QED  BY <2>2, <2>3
<1>6. ASSUME NEW s \in Slots, OnSaleFailed(s)
      PROVE  TypeOK'
  BY <1>6, AbortSaleType DEF TypeOK, OnSaleFailed, At
<1> QED  BY <1>1, <1>2, <1>3, <1>4, <1>5, <1>6, TypeBuy, TypeSold DEF MarketplaceNext

-----------------------------------------------------------------------------
(* Refunds and the environment.                                            *)

\* What is held back for the storage of the entries leaves no more than there is.
LEMMA AvailableType ==
    ASSUME TypeOK
    PROVE  AvailableBalance \in Nat /\ AvailableBalance <= balance
<1>1. IsFiniteSet(Accounts)
  BY FS_Union, RegistryAssumption DEF Accounts
<1>2. ASSUME NEW map, NEW absent, IsFiniteSet(DOMAIN map)
      PROVE  Entries(map, absent) \in Nat
  <2>1. {x \in DOMAIN map : map[x] # absent} \subseteq DOMAIN map
    OBVIOUS
  <2> QED  BY <1>2, <2>1, FS_Subset, FS_CardinalityType DEF Entries
<1>3. /\ DOMAIN tlas = Tlas
      /\ DOMAIN business_sub_count = Tlas
      /\ DOMAIN business_sub_cap_override = Tlas
      /\ DOMAIN sub_accounts = Keys
      /\ DOMAIN listings = Keys
      /\ DOMAIN accepted_offers = Keys
      /\ DOMAIN mothers = Accounts
      /\ DOMAIN mother_use_count = Accounts
      /\ DOMAIN pending_refunds = Accounts
  BY DEF TypeOK
<1>4. /\ Entries(tlas, None) \in Nat
      /\ Entries(business_sub_count, 0) \in Nat
      /\ Entries(business_sub_cap_override, None) \in Nat
      /\ Entries(sub_accounts, None) \in Nat
      /\ Entries(listings, None) \in Nat
      /\ Entries(accepted_offers, None) \in Nat
      /\ Entries(mothers, None) \in Nat
      /\ Entries(mother_use_count, 0) \in Nat
      /\ Entries(pending_refunds, 0) \in Nat
  BY <1>1, <1>2, <1>3, RegistryAssumption
<1>5. /\ Cardinality(admins) \in Nat
      /\ Cardinality(ft_allowlist) \in Nat
      /\ Cardinality(nft_allowlist) \in Nat
  <2>1. admins \subseteq Accounts /\ ft_allowlist \subseteq Tokens /\ nft_allowlist \subseteq Nfts
    BY DEF TypeOK
  <2> QED  BY <1>1, <2>1, FS_Subset, FS_CardinalityType, RegistryAssumption
<1>6. \A m, n \in Nat : m * n \in Nat
  OBVIOUS
<1>7. StorageReserve \in Nat
  <2> DEFINE entries == Entries(tlas, None) + Entries(sub_accounts, None)
                        + Entries(listings, None) + Entries(accepted_offers, None)
                        + Entries(mothers, None) + Entries(mother_use_count, 0)
                        + Entries(business_sub_count, 0)
                        + Entries(business_sub_cap_override, None)
                        + Entries(pending_refunds, 0) + Cardinality(admins)
                        + Cardinality(ft_allowlist) + Cardinality(nft_allowlist)
  <2>1. entries \in Nat
    BY <1>4, <1>5
  <2>2. StorageReserve = ENTRY_RESERVE * entries
    BY DEF StorageReserve
  <2> HIDE DEF entries
  <2> QED  BY <1>6, <2>1, <2>2, RegistryAssumption
<1>8. balance \in Nat
  BY DEF TypeOK
<1> QED  BY <1>7, <1>8 DEF AvailableBalance, Monus

LEMMA TypeRefunds ==
    ASSUME TypeOK, RefundsNext
    PROVE  TypeOK'
<1>1. ASSUME NEW s \in Slots, NEW caller \in Callers, ClaimRefund(s, caller)
      PROVE  TypeOK'
  <2>1. caller \in Accounts
    BY CallerType
  <2>2. pending_refunds[caller] \in Nat
    BY <2>1 DEF TypeOK
  <2>3. balance' \in Nat /\ total_pending_refunds' \in Nat
    BY <1>1, <2>2, AvailableType DEF TypeOK, ClaimRefund, Monus
  <2>4. calls' \in [Slots -> Call \cup {NoCall}]
    BY <1>1, <2>1, <2>2 DEF TypeOK, ClaimRefund, StartCall, Call, Kinds, Stages
  <2> QED  BY <1>1, <2>3, <2>4 DEF TypeOK, ClaimRefund
<1>2. ASSUME NEW s \in Slots, TransferRefund(s)
      PROVE  TypeOK'
  <2>1. calls[s] \in Call
    BY <1>2, CallType DEF TransferRefund, At, Kinds
  <2>2. PICK delivered \in BOOLEAN :
          /\ calls' = [calls EXCEPT ![s].stage = "callback", ![s].ok = delivered,
                                    ![s].sent = IF delivered THEN @ ELSE 0]
          /\ balance' = IF delivered THEN balance ELSE balance + calls[s].sent
    BY <1>2 DEF TransferRefund
  <2>3. calls[s].sent \in Nat
    BY <2>1 DEF Call
  <2> DEFINE sent == IF delivered THEN calls[s].sent ELSE 0
  <2>4. sent \in Nat
    BY <2>3
  <2>5. [calls[s] EXCEPT !.stage = "callback", !.ok = delivered, !.sent = sent] \in Call
    BY <2>1, <2>4, FailedCallType
  <2>6. calls' \in [Slots -> Call \cup {NoCall}]
    BY <2>2, <2>5 DEF TypeOK
  <2>7. balance' \in Nat
    BY <2>2, <2>3 DEF TypeOK
  <2> QED  BY <1>2, <2>6, <2>7 DEF TypeOK, TransferRefund
<1>3. ASSUME NEW s \in Slots, OnClaimRefundSettled(s)
      PROVE  TypeOK'
  <2>1. calls[s].who \in Accounts /\ calls[s].paid \in Nat
    BY <1>3, CallType DEF OnClaimRefundSettled, At, Kinds, Call
  <2>2. CASE calls[s].ok
    BY <1>3, <2>2, EndCallType DEF TypeOK, OnClaimRefundSettled
  <2>3. CASE ~calls[s].ok
    BY <1>3, <2>1, <2>3, AddPendingRefundType, EndCallType DEF TypeOK, OnClaimRefundSettled
  <2> QED  BY <2>2, <2>3
<1>4. ASSUME NEW caller \in Callers, NEW amount \in Deposits, NEW recipient \in Accounts,
             Withdraw(caller, amount, recipient)
      PROVE  TypeOK'
  <2>1. amount \in Nat /\ recipient \in Accounts
    BY RegistryAssumption DEF Accounts
  <2>2. total_revenue' \in Nat
    BY <1>4, <2>1 DEF TypeOK, Withdraw
  <2> QED  BY <1>4, <2>1, <2>2, AddPendingRefundType DEF TypeOK, Withdraw
<1> QED  BY <1>1, <1>2, <1>3, <1>4 DEF RefundsNext

LEMMA TypeQueryBalance ==
    ASSUME TypeOK, NEW s \in Slots, NEW t \in Tokens, NEW answered \in BOOLEAN,
           QueryBalance(s, t, answered)
    PROVE  TypeOK'
<1>1. calls[s] \in Call
  BY DEF TypeOK, QueryBalance, NoCall
<1>2. calls' = [calls EXCEPT
          ![s].left = @ \ {t},
          ![s].ok = @ /\ answered /\ ft[calls[s].key][t] = 0,
          ![s].stage = IF calls[s].left = {t} THEN "checked" ELSE "query"]
  BY DEF QueryBalance
<1> DEFINE left == calls[s].left \ {t}
           ok == calls[s].ok /\ answered /\ ft[calls[s].key][t] = 0
           stage == IF calls[s].left = {t} THEN "checked" ELSE "query"
<1>3. left \in SUBSET Tokens /\ ok \in BOOLEAN /\ stage \in Stages
  BY <1>1 DEF Call, Stages
<1>4. [calls[s] EXCEPT !.left = left, !.ok = ok, !.stage = stage] \in Call
  BY <1>1, <1>3, QueriedCallType
<1>5. calls' \in [Slots -> Call \cup {NoCall}]
  BY <1>2, <1>4 DEF TypeOK
<1> QED  BY <1>5 DEF TypeOK, QueryBalance

LEMMA TypeEnvironment ==
    ASSUME TypeOK, EnvironmentNext
    PROVE  TypeOK'
<1>1. ASSUME NEW k \in Keys, NEW t \in Tokens, DepositToken(k, t)
      PROVE  TypeOK'
  BY <1>1 DEF TypeOK, DepositToken
<1>2. CASE Tick
  BY <1>2 DEF TypeOK, Tick
<1> QED  BY <1>1, <1>2, TypeQueryBalance DEF EnvironmentNext, QueryNext

-----------------------------------------------------------------------------
LEMMA TypeStart ==
    ASSUME Init
    PROVE  TypeOK
<1>1. {k \in Keys : [x \in Keys |-> None][k] # None} = {}
  OBVIOUS
<1>2. sub_account_count = 0
  BY <1>1, FS_EmptySet DEF Init, Start
<1>3. sub_accounts = [k \in Keys |-> None] /\ tlas = [t \in Tlas |-> None]
  BY DEF Init, Start
<1>4. mothers \in [Accounts -> Accounts \cup {None}]
  BY <1>1 DEF Init, Start
<1>5. business_sub_count = [t \in Tlas |-> 0]
  BY <1>3 DEF Init, Start, IsBusiness
<1>6. locker \in [Keys -> Locker]
  BY <1>1 DEF Init, Start, NoLocker, Locker
<1>7. calls = [s \in Slots |-> NoCall]
  BY DEF Init, Start
<1>8. admins \in SUBSET Accounts /\ fee_config \in FeeConfigType
  BY RegistryAssumption DEF Init, Start, Accounts
<1>9. /\ listings \in [Keys -> Listing \cup {None}]
      /\ accepted_offers \in [Keys -> AcceptedOffer \cup {None}]
      /\ mother_use_count \in [Accounts -> Nat]
      /\ business_sub_cap_override \in [Tlas -> Nat \cup {None}]
      /\ pending_refunds \in [Accounts -> Nat]
      /\ ft \in [Keys -> [Tokens -> Nat]]
  BY DEF Init, Start
<1>10. /\ paused \in BOOLEAN
       /\ ft_allowlist \in SUBSET Tokens
       /\ nft_allowlist \in SUBSET Nfts
       /\ balance \in Nat
       /\ total_revenue \in Nat
       /\ total_pending_refunds \in Nat
       /\ now \in Nat
  BY RegistryAssumption, LifecycleAssumption DEF Init, Start
<1> QED
  BY <1>2, <1>3, <1>4, <1>5, <1>6, <1>7, <1>8, <1>9, <1>10 DEF TypeOK

LEMMA TypeNext ==
    ASSUME TypeOK, [Next]_vars
    PROVE  TypeOK'
<1>1. CASE UNCHANGED vars
  BY <1>1 DEF TypeOK, vars
<1> QED
  BY <1>1, TypeRental, TypeMother, TypeBusiness, TypeLocker, TypeReclaim,
     TypeSweep, TypeMarketplace, TypeRefunds, TypeAdmin, TypeEnvironment DEF Next

\* No handler, callback or receipt, in whatever order they come, leaves a part
\* of the state that its Rust type does not admit: no amount or count runs
\* below zero, and every chain knows whom it will credit and which key it is for.
THEOREM TypeCorrect == Spec => []TypeOK
<1>1. Init => TypeOK
  BY TypeStart
<1>2. TypeOK /\ [Next]_vars => TypeOK'
  BY TypeNext
<1> QED  BY <1>1, <1>2, PTL DEF Spec
=============================================================================
