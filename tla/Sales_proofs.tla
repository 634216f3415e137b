---------------------------- MODULE Sales_proofs ----------------------------
(***************************************************************************)
(* A settlement lock never outlives its settlement.  NoWedgedLock is       *)
(* inductive relative to TypeOK.  Nearly every step keeps it by adding no  *)
(* lock (NoNewLock) and ending no sale (SalesGoOn); the three that do not  *)
(* are the purchase, which adds both a lock and a chain, the sale that     *)
(* settles and the one that is aborted, which end a chain and lift the     *)
(* locks of its key.  In the second part, a name is in one sale at a time, *)
(* whose terms stay locked (SalesInv), and so it is sold as it was locked. *)
(* In the third, the marketplace implements AtomicSale.                    *)
(***************************************************************************)
EXTENDS Properties, Types_proofs, Tenancy_proofs

NoNewLock == \A k \in Keys : Settling(k)' => Settling(k)

\* No sale ends, and none begins.
SalesGoOn ==
    \A s \in Slots : calls[s].kind = "buy" =>
        calls'[s].kind = "buy" /\ calls'[s].key = calls[s].key

NoNewSale ==
    \A s \in Slots : calls'[s].kind = "buy" =>
        /\ calls[s].kind = "buy"
        /\ calls'[s].key = calls[s].key
        /\ calls'[s].who = calls[s].who
        /\ calls'[s].cost = calls[s].cost
        /\ calls'[s].paid = calls[s].paid

SalesKept == SalesGoOn /\ NoNewSale

\* The terms of k are not touched, but by an owner whose name nobody is buying, or
\* together with the end of the tenancy or of the sale.
TermsKept(k) ==
    \/ listings'[k] = listings[k] /\ accepted_offers'[k] = accepted_offers[k]
    \/ sub_accounts[k] # None /\ ~Settling(k)
    \/ sub_accounts'[k] = None
    \/ \E s \in SellingSlots(k) : calls'[s].kind # "buy"

-----------------------------------------------------------------------------
(* The sale records of a step.                                             *)

LEMMA UnchangedSales ==
    ASSUME UNCHANGED saleVars
    PROVE  NoNewLock /\ \A k \in Keys : TermsKept(k)
BY DEF NoNewLock, Settling, TermsKept, saleVars

\* The terms of a key are removed.
LEMMA TermsRemoved ==
    ASSUME TypeOK, NEW k \in Keys, RemoveSaleTerms(k)
    PROVE  NoNewLock /\ ~Settling(k)'
BY DEF TypeOK, RemoveSaleTerms, NoNewLock, Settling

\* The locks of a key are lifted.
LEMMA LocksLifted ==
    ASSUME TypeOK, NEW k \in Keys, ClearSettling(k)
    PROVE  NoNewLock /\ ~Settling(k)'
<1>1. ASSUME NEW x \in Keys
      PROVE  /\ listings[x] = None \/ listings[x] \in Listing
             /\ accepted_offers[x] = None \/ accepted_offers[x] \in AcceptedOffer
  BY DEF TypeOK
<1>2. ASSUME NEW x \in Keys, x # k
      PROVE  listings'[x] = listings[x] /\ accepted_offers'[x] = accepted_offers[x]
  BY <1>2 DEF TypeOK, ClearSettling
<1>3. listings'[k] # None => ~listings'[k].settling
  BY <1>1 DEF TypeOK, ClearSettling, Listing
<1>4. accepted_offers'[k] # None => ~accepted_offers'[k].settling
  BY <1>1 DEF TypeOK, ClearSettling, AcceptedOffer
<1>5. ~Settling(k)'
  BY <1>3, <1>4 DEF Settling
<1> QED  BY <1>2, <1>5 DEF NoNewLock, Settling

-----------------------------------------------------------------------------
(* Steps of a chain, and what the components other than the marketplace do. *)

LEMMA UnchangedCalls ==
    ASSUME UNCHANGED calls
    PROVE  SalesKept
BY DEF SalesKept, SalesGoOn, NoNewSale

LEMMA StartedCall ==
    ASSUME TypeOK, NEW s \in Slots, NEW call, StartCall(s, call)
    PROVE  SalesGoOn /\ (call.kind # "buy" => SalesKept)
BY DEF TypeOK, SalesKept, SalesGoOn, NoNewSale, StartCall, NoCall

LEMMA AdvancedCall ==
    ASSUME TypeOK, NEW s \in Slots, calls[s] \in Call, NEW stage, NEW ok,
           Advance(s, stage, ok)
    PROVE  SalesKept
BY DEF TypeOK, SalesKept, SalesGoOn, NoNewSale, Advance, Call

LEMMA EndedCall ==
    ASSUME TypeOK, NEW s \in Slots, EndCall(s)
    PROVE  /\ calls'[s].kind # "buy"
           /\ NoNewSale
           /\ calls[s].kind # "buy" => SalesKept
BY DEF TypeOK, SalesKept, SalesGoOn, NoNewSale, EndCall, NoCall

LEMMA SalesRental ==
    ASSUME TypeOK, RentalNext
    PROVE  SalesKept /\ UNCHANGED saleVars
<1>1. UNCHANGED saleVars
  <2>1. ASSUME NEW s \in Slots,
               \/ CreateSubAccount(s)
               \/ CreateAccountBatch(s)
               \/ OnSubAccountCreated(s)
               \/ OnSubAccountCreatedPanics(s)
               \/ OnSubAccountCreationFailed(s)
        PROVE  UNCHANGED saleVars
    BY <2>1 DEF CreateSubAccount, CreateAccountBatch, OnSubAccountCreated,
       OnSubAccountCreatedPanics, OnSubAccountCreationFailed
  <2>2. ASSUME NEW caller, NEW t, NEW d, ActivateTla(caller, t, d) \/ RenewTla(caller, t, d)
        PROVE  UNCHANGED saleVars
    BY <2>2 DEF ActivateTla, RenewTla
  <2>3. ASSUME NEW caller, NEW k, NEW d, RenewSubAccount(caller, k, d)
        PROVE  UNCHANGED saleVars
    BY <2>3 DEF RenewSubAccount
  <2>4. ASSUME NEW caller, NEW k, NEW w, SetMainWallet(caller, k, w)
        PROVE  UNCHANGED saleVars
    BY <2>4 DEF SetMainWallet
  <2>5. ASSUME NEW s, NEW caller, NEW k, NEW w, NEW d, RentSubAccount(s, caller, k, w, d)
        PROVE  UNCHANGED saleVars
    BY <2>5 DEF RentSubAccount
  <2> QED  BY <2>1, <2>2, <2>3, <2>4, <2>5 DEF RentalNext
<1>2. ASSUME NEW s \in Slots,
             \/ CreateSubAccount(s)
             \/ CreateAccountBatch(s)
             \/ OnSubAccountCreated(s)
             \/ OnSubAccountCreatedPanics(s)
             \/ OnSubAccountCreationFailed(s)
      PROVE  SalesKept
  <2>1. calls[s] \in Call /\ calls[s].kind = "rent"
    BY <1>2, CallType DEF CreateSubAccount, CreateAccountBatch, OnSubAccountCreated,
       OnSubAccountCreatedPanics, OnSubAccountCreationFailed, At, Kinds
  <2>2. CASE CreateSubAccount(s)
    <3>1. calls'[s].kind = "rent" /\ \A d \in Slots \ {s} : calls'[d] = calls[d]
      BY <2>1, <2>2 DEF TypeOK, CreateSubAccount, Advance, Call
    <3> QED  BY <2>1, <3>1 DEF SalesKept, SalesGoOn, NoNewSale
  <2>3. CASE EndCall(s) \/ \E stage, ok : Advance(s, stage, ok)
    BY <2>1, <2>3, EndedCall, AdvancedCall
  <2> QED  BY <1>2, <2>2, <2>3 DEF CreateAccountBatch, OnSubAccountCreated,
              OnSubAccountCreatedPanics, OnSubAccountCreationFailed
<1>3. ASSUME NEW s \in Slots, NEW caller \in Callers, NEW k \in Keys, NEW w \in Accounts,
             NEW d \in Deposits, RentSubAccount(s, caller, k, w, d)
      PROVE  SalesKept
  <2>1. PICK call : StartCall(s, call) /\ call.kind = "rent"
    BY <1>3 DEF RentSubAccount
  <2> QED  BY <2>1, StartedCall
<1> QED
  BY <1>1, <1>2, <1>3, UnchangedCalls DEF RentalNext, ActivateTla, RenewTla, RenewSubAccount,
     SetMainWallet

LEMMA SalesLocker ==
    ASSUME TypeOK, LockerNext
    PROVE  SalesKept /\ UNCHANGED saleVars
<1>1. PICK s \in Slots :
        /\ calls[s].kind \in Kinds
        /\ \E stage, ok : Advance(s, stage, ok)
  BY DEF LockerNext, TransferOwnership, FinalizeDelete, DeleteAccount, Export,
         AddFullAccessKey, OnExportResolved, At, Kinds
<1>2. UNCHANGED saleVars
  BY DEF LockerNext, TransferOwnership, FinalizeDelete, DeleteAccount, Export,
         AddFullAccessKey, OnExportResolved
<1> QED  BY <1>1, <1>2, CallType, AdvancedCall

LEMMA SalesSweep ==
    ASSUME TypeOK, SweepNext
    PROVE  SalesKept /\ UNCHANGED saleVars
<1>1. UNCHANGED saleVars
  BY DEF SweepNext, ReclaimSweepFt, SweepFt, MeasureBalance, AfterBalanceQuery,
     DepositStorage, AfterStorageDeposit, TransferTokens
<1>2. ASSUME NEW s \in Slots, NEW k \in Keys, NEW t \in Tokens, ReclaimSweepFt(s, k, t)
      PROVE  SalesKept
  <2>1. PICK call : StartCall(s, call) /\ call.kind = "sweep"
    BY <1>2 DEF ReclaimSweepFt
  <2> QED  BY <2>1, StartedCall
<1>3. ASSUME NEW s \in Slots,
             \/ SweepFt(s) \/ AfterBalanceQuery(s) \/ AfterStorageDeposit(s)
             \/ \E ok \in BOOLEAN : DepositStorage(s, ok) \/ TransferTokens(s, ok)
      PROVE  SalesKept
  <2>1. calls[s] \in Call /\ calls[s].kind = "sweep"
    BY <1>3, CallType DEF SweepFt, AfterBalanceQuery, AfterStorageDeposit, DepositStorage,
       TransferTokens, At, Kinds
  <2>2. EndCall(s) \/ \E stage, ok : Advance(s, stage, ok)
    BY <1>3 DEF SweepFt, AfterBalanceQuery, AfterStorageDeposit, DepositStorage,
       TransferTokens, ProceedIf
  <2> QED  BY <2>1, <2>2, EndedCall, AdvancedCall
<1>4. ASSUME NEW s \in Slots, NEW ok \in BOOLEAN, MeasureBalance(s, ok)
      PROVE  SalesKept
  <2>1. calls[s] \in Call /\ calls[s].kind = "sweep"
    BY <1>4, CallType DEF MeasureBalance, At, Kinds
  <2> QED  BY <1>4, <2>1 DEF TypeOK, MeasureBalance, SalesKept, SalesGoOn, NoNewSale, Call
<1> QED  BY <1>1, <1>2, <1>3, <1>4 DEF SweepNext

LEMMA SalesReclaim ==
    ASSUME TypeOK, ReclaimNext
    PROVE  SalesKept /\ NoNewLock /\ \A k \in Keys : TermsKept(k)
<1>1. ASSUME NEW s \in Slots, NEW k \in Keys,
             ReclaimFinalize(s, k) \/ \E caller \in Callers : ExportSubAccount(s, caller, k)
      PROVE  SalesKept /\ UNCHANGED saleVars
  <2>1. PICK call : StartCall(s, call) /\ call.kind \in {"reclaim", "export"}
    BY <1>1 DEF ReclaimFinalize, ExportSubAccount
  <2>2. SalesKept
    BY <2>1, StartedCall
  <2> QED  BY <1>1, <2>2 DEF ReclaimFinalize, ExportSubAccount
<1>2. ASSUME NEW s \in Slots, OnBalancesChecked(s)
      PROVE  SalesKept /\ UNCHANGED saleVars
  <2>1. /\ calls[s] \in Call /\ calls[s].kind = "reclaim"
        /\ EndCall(s) \/ \E stage, ok : Advance(s, stage, ok)
    BY <1>2, CallType DEF OnBalancesChecked, At, Kinds
  <2>2. UNCHANGED saleVars
    BY <1>2 DEF OnBalancesChecked
  <2> QED  BY <2>1, <2>2, EndedCall, AdvancedCall
<1>3. ASSUME NEW s \in Slots, OnReclaimFinalized(s) \/ OnExportSettled(s)
      PROVE  SalesKept /\ NoNewLock /\ \A k \in Keys : TermsKept(k)
  <2>1. EndCall(s) /\ calls[s].kind # "buy"
    BY <1>3 DEF OnReclaimFinalized, OnExportSettled, At
  <2>2. calls[s].key \in Keys
    BY <1>3, CallType DEF OnReclaimFinalized, OnExportSettled, At, Kinds, Call
  <2>3. PICK key \in Keys : key = calls[s].key
    BY <2>2
  <2>4. RemoveSubAccount(key) \/ UNCHANGED saleVars
    BY <1>3, <2>3 DEF OnReclaimFinalized, OnExportSettled
  <2>5. \A k \in Keys : TermsKept(k)
    BY <2>4 DEF RemoveSubAccount, RemoveSaleTerms, TermsKept, TypeOK, saleVars
  <2>6. NoNewLock
    BY <2>4, TermsRemoved, UnchangedSales DEF RemoveSubAccount
  <2> QED  BY <2>1, <2>5, <2>6, EndedCall
<1> QED  BY <1>1, <1>2, <1>3, UnchangedSales DEF ReclaimNext

LEMMA SalesRefunds ==
    ASSUME TypeOK, RefundsNext
    PROVE  SalesKept /\ UNCHANGED saleVars
<1>1. UNCHANGED saleVars
  BY DEF RefundsNext, ClaimRefund, TransferRefund, OnClaimRefundSettled, Withdraw
<1>2. ASSUME NEW s \in Slots, NEW caller \in Callers, ClaimRefund(s, caller)
      PROVE  SalesKept
  <2>1. PICK call : StartCall(s, call) /\ call.kind = "claim"
    BY <1>2 DEF ClaimRefund
  <2> QED  BY <2>1, StartedCall
<1>3. ASSUME NEW s \in Slots, TransferRefund(s)
      PROVE  SalesKept
  <2>1. calls[s] \in Call /\ calls[s].kind = "claim"
    BY <1>3, CallType DEF TransferRefund, At, Kinds
  <2> QED  BY <1>3, <2>1 DEF TypeOK, TransferRefund, SalesKept, SalesGoOn, NoNewSale, Call
<1>4. ASSUME NEW s \in Slots, OnClaimRefundSettled(s)
      PROVE  SalesKept
  BY <1>4, EndedCall DEF OnClaimRefundSettled, At
<1> QED  BY <1>1, <1>2, <1>3, <1>4, UnchangedCalls DEF RefundsNext, Withdraw

LEMMA SalesOthers ==
    ASSUME TypeOK, MotherNext \/ BusinessNext \/ AdminNext \/ EnvironmentNext \/ UNCHANGED vars
    PROVE  SalesKept /\ UNCHANGED saleVars
<1>1. CASE QueryNext
  <2>1. PICK s \in Slots, t \in Tokens, answered \in BOOLEAN : QueryBalance(s, t, answered)
    BY <1>1 DEF QueryNext
  <2>2. calls[s] \in Call
    BY <2>1 DEF TypeOK, QueryBalance, NoCall
  <2> QED  BY <2>1, <2>2 DEF TypeOK, QueryBalance, SalesKept, SalesGoOn, NoNewSale, Call
<1>2. CASE \/ MotherNext \/ BusinessNext \/ AdminNext \/ Tick \/ UNCHANGED vars
           \/ \E k \in Keys, t \in Tokens : DepositToken(k, t)
  <2>1. UNCHANGED saleVars /\ UNCHANGED calls
    BY <1>2 DEF MotherNext, SetMother, AdminClearMother,
       BusinessNext, ScheduleRetraction, CancelRetraction, SetBusinessSubCap,
       AdminNext, RegisterTla, ActivateOpenTla, SuspendTla, UnsuspendTla,
       AddAdmin, RemoveAdmin, SetAdmins, UpdateFeeConfig, SetPaused,
       AddFtAllowlist, RemoveFtAllowlist, AddNftAllowlist, RemoveNftAllowlist,
       Tick, DepositToken, vars
  <2> QED  BY <2>1, UnchangedCalls
<1> QED  BY <1>1, <1>2 DEF EnvironmentNext

-----------------------------------------------------------------------------
(* No lock outlives its sale.                                              *)

LEMMA LocksStayBacked ==
    ASSUME NoWedgedLock, NoNewLock, SalesGoOn
    PROVE  NoWedgedLock'
<1> SUFFICES ASSUME NEW k \in Keys, Settling(k)'
             PROVE  SellingSlots(k)' # {}
  BY DEF NoWedgedLock
<1>1. PICK s \in SellingSlots(k) : TRUE
  BY DEF NoWedgedLock, NoNewLock
<1>2. s \in SellingSlots(k)'
  BY <1>1 DEF SalesGoOn, SellingSlots, InFlight
<1> QED  BY <1>2

\* A chain of a key may end when the key is not locked any more.
LEMMA SaleEnded ==
    ASSUME TypeOK, NoWedgedLock, NEW s \in Slots, EndCall(s), NoNewLock,
           NEW key \in Keys, key = calls[s].key, ~Settling(key)'
    PROVE  NoWedgedLock'
<1> SUFFICES ASSUME NEW k \in Keys, Settling(k)'
             PROVE  SellingSlots(k)' # {}
  BY DEF NoWedgedLock
<1>1. PICK d \in SellingSlots(k) : TRUE
  BY DEF NoWedgedLock, NoNewLock
<1>2. key # k
  OBVIOUS
<1>3. d # s
  BY <1>1, <1>2 DEF SellingSlots, InFlight
<1>4. d \in SellingSlots(k)'
  BY <1>1, <1>3 DEF TypeOK, EndCall, SellingSlots, InFlight
<1> QED  BY <1>4

\* A purchase locks the terms that it uses, and starts the chain that backs them.
LEMMA LocksBuy ==
    ASSUME TypeOK, NoWedgedLock, NEW s \in Slots, NEW buyer \in Callers, NEW k \in Keys,
           NEW d \in Deposits, BuySubAccount(s, buyer, k, d)
    PROVE  NoWedgedLock'
<1>1. SalesGoOn
  <2>1. PICK call : StartCall(s, call)
    BY DEF BuySubAccount
  <2> QED  BY <2>1, StartedCall
<1>2. s \in SellingSlots(k)'
  BY DEF TypeOK, BuySubAccount, StartCall, SellingSlots, InFlight
<1>3. ASSUME NEW x \in Keys, x # k, Settling(x)'
      PROVE  SellingSlots(x)' # {}
  <2>1. Settling(x)
    BY <1>3 DEF TypeOK, BuySubAccount, LockSale, Settling
  <2>2. PICK z \in SellingSlots(x) : TRUE
    BY <2>1 DEF NoWedgedLock
  <2>3. z \in SellingSlots(x)'
    BY <1>1, <2>2 DEF SalesGoOn, SellingSlots, InFlight
  <2> QED  BY <2>3
<1> QED  BY <1>2, <1>3 DEF NoWedgedLock

LEMMA LocksMarketplace ==
    ASSUME TypeOK, NoWedgedLock, MarketplaceNext
    PROVE  NoWedgedLock'
<1>1. ASSUME NEW caller \in Callers, NEW k \in Keys, NEW price \in Prices,
             ListSubAccount(caller, k, price)
      PROVE  NoWedgedLock'
  <2>1. NoNewLock
    BY <1>1 DEF TypeOK, ListSubAccount, NoNewLock, Settling
  <2> QED  BY <1>1, <2>1, LocksStayBacked, UnchangedCalls DEF SalesKept, ListSubAccount
<1>2. ASSUME NEW caller \in Callers, NEW k \in Keys, NEW price \in Prices,
             NEW buyer \in Accounts, AcceptOffer(caller, k, buyer, price)
      PROVE  NoWedgedLock'
  <2>1. NoNewLock
    BY <1>2 DEF TypeOK, AcceptOffer, NoNewLock, Settling
  <2> QED  BY <1>2, <2>1, LocksStayBacked, UnchangedCalls DEF SalesKept, AcceptOffer
<1>3. ASSUME NEW caller \in Callers, NEW k \in Keys, UnlistSubAccount(caller, k)
      PROVE  NoWedgedLock'
  <2>1. NoNewLock
    BY <1>3 DEF TypeOK, UnlistSubAccount, NoNewLock, Settling
  <2> QED  BY <1>3, <2>1, LocksStayBacked, UnchangedCalls DEF SalesKept, UnlistSubAccount
<1>4. ASSUME NEW caller \in Callers, NEW k \in Keys, RevokeOffer(caller, k)
      PROVE  NoWedgedLock'
  <2>1. NoNewLock
    BY <1>4 DEF TypeOK, RevokeOffer, NoNewLock, Settling
  <2> QED  BY <1>4, <2>1, LocksStayBacked, UnchangedCalls DEF SalesKept, RevokeOffer
<1>5. ASSUME NEW s \in Slots, OnBuyBalancesChecked(s)
      PROVE  NoWedgedLock'
  <2>1. calls[s] \in Call /\ calls[s].kind = "buy"
    BY <1>5, CallType DEF OnBuyBalancesChecked, At, Kinds
  <2>2. calls[s].key \in Keys
    BY <2>1 DEF Call
  <2>3. CASE calls[s].ok
    <3>1. SalesGoOn /\ UNCHANGED saleVars
      BY <1>5, <2>1, <2>3, AdvancedCall DEF SalesKept, OnBuyBalancesChecked
    <3> QED  BY <3>1, LocksStayBacked, UnchangedSales
  <2>4. CASE ~calls[s].ok
    <3>1. PICK k \in Keys : k = calls[s].key
      BY <2>2
    <3>2. ClearSettling(k) /\ EndCall(s)
      BY <1>5, <2>4, <3>1 DEF OnBuyBalancesChecked, AbortSale
    <3> QED  BY <3>1, <3>2, LocksLifted, SaleEnded
  <2> QED  BY <2>3, <2>4
<1>6. ASSUME NEW s \in Slots, OnSaleFailed(s)
      PROVE  NoWedgedLock'
  <2>1. calls[s].key \in Keys
    BY <1>6, CallType DEF OnSaleFailed, At, Kinds, Call
  <2>2. PICK k \in Keys : k = calls[s].key
    BY <2>1
  <2>3. ClearSettling(k) /\ EndCall(s)
    BY <1>6, <2>2 DEF OnSaleFailed, AbortSale
  <2> QED  BY <2>2, <2>3, LocksLifted, SaleEnded
<1>7. ASSUME NEW s \in Slots, OnSubAccountSold(s)
      PROVE  NoWedgedLock'
  <2>1. calls[s].key \in Keys
    BY <1>7, CallType DEF OnSubAccountSold, At, Kinds, Call
  <2>2. PICK k \in Keys : k = calls[s].key
    BY <2>1
  <2>3. RemoveSaleTerms(k) /\ EndCall(s)
    BY <1>7, <2>2 DEF OnSubAccountSold
  <2> QED  BY <2>2, <2>3, TermsRemoved, SaleEnded
<1> QED
  BY <1>1, <1>2, <1>3, <1>4, <1>5, <1>6, <1>7, LocksBuy DEF MarketplaceNext

LEMMA LocksNext ==
    ASSUME TypeOK, NoWedgedLock, [Next]_vars
    PROVE  NoWedgedLock'
<1>1. CASE MarketplaceNext
  BY <1>1, LocksMarketplace
<1>2. CASE ~MarketplaceNext
  <2>1. SalesKept /\ NoNewLock
    BY <1>2, SalesRental, SalesLocker, SalesSweep, SalesReclaim, SalesRefunds, SalesOthers,
       UnchangedSales DEF Next
  <2> QED  BY <2>1, LocksStayBacked DEF SalesKept
<1> QED  BY <1>1, <1>2

\* Whatever sales, reclaims, exports and failures overlap, and for any number of
\* accounts and of chains in flight, a listing or offer that is marked settling has
\* a purchase under way whose last callback will lift the mark.
THEOREM LocksAreBacked == Spec => []NoWedgedLock
<1>1. Init => NoWedgedLock
  BY DEF Init, Start, NoWedgedLock, Settling
<1>2. TypeOK /\ NoWedgedLock /\ [Next]_vars => NoWedgedLock'
  BY LocksNext
<1> QED  BY <1>1, <1>2, TypeCorrect, PTL DEF Spec

-----------------------------------------------------------------------------
(* One sale at a time, under the terms that were locked.                   *)

SaleInv(k) ==
    /\ \A s, d \in SellingSlots(k) : s = d
    /\ sub_accounts[k] # None => \A s \in SellingSlots(k) : LockedTerms(calls[s])

SalesInv == \A k \in Keys : SaleInv(k)

LEMMA LockedIsSettling ==
    ASSUME NEW k \in Keys, SaleInv(k), sub_accounts[k] # None, ~Settling(k)
    PROVE  SellingSlots(k) = {}
<1> SUFFICES ASSUME NEW s \in SellingSlots(k)
             PROVE  FALSE
  OBVIOUS
<1>1. LockedTerms(calls[s]) /\ calls[s].key = k
  BY DEF SaleInv, SellingSlots, InFlight
<1> QED  BY <1>1 DEF LockedTerms, Settling

LEMMA SaleGoesOn ==
    ASSUME NEW k \in Keys, SaleInv(k), NoNewSale, TermsKept(k),
           sub_accounts[k] = None /\ sub_accounts'[k] # None => SellingSlots(k) = {}
    PROVE  SaleInv(k)'
<1>1. SellingSlots(k)' \subseteq SellingSlots(k)
  BY DEF NoNewSale, SellingSlots, InFlight
<1>2. \A s, d \in SellingSlots(k)' : s = d
  BY <1>1 DEF SaleInv
<1>3. ASSUME sub_accounts'[k] # None, NEW s \in SellingSlots(k)'
      PROVE  LockedTerms(calls[s])'
  <2>1. s \in SellingSlots(k) /\ sub_accounts[k] # None
    BY <1>1, <1>3
  <2>2. ~\E d \in SellingSlots(k) : calls'[d].kind # "buy"
    <3> SUFFICES ASSUME NEW d \in SellingSlots(k), calls'[d].kind # "buy"
                 PROVE  FALSE
      OBVIOUS
    <3>1. d = s
      BY <2>1 DEF SaleInv
    <3> QED  BY <1>3, <3>1 DEF SellingSlots
  <2>3. Settling(k)
    BY <2>1, LockedIsSettling
  <2>4. listings'[k] = listings[k] /\ accepted_offers'[k] = accepted_offers[k]
    BY <1>3, <2>2, <2>3 DEF TermsKept
  <2>5. LockedTerms(calls[s]) /\ calls[s].key = k
    BY <2>1 DEF SaleInv, SellingSlots, InFlight
  <2>6. s \in Slots /\ calls'[s].kind = "buy"
    BY <1>3 DEF SellingSlots, InFlight
  <2>7. calls'[s].key = k /\ calls'[s].who = calls[s].who /\ calls'[s].cost = calls[s].cost
    BY <2>5, <2>6 DEF NoNewSale
  <2> QED  BY <2>4, <2>5, <2>7 DEF LockedTerms
<1> QED  BY <1>2, <1>3 DEF SaleInv

\* What a purchase locks are the terms it is charged under.
LEMMA BuyLocks ==
    ASSUME TypeOK, NEW s \in Slots, NEW buyer \in Callers, NEW k \in Keys,
           NEW d \in Deposits, BuySubAccount(s, buyer, k, d)
    PROVE  LockedTerms(calls[s])'
<1>1. /\ calls'[s].key = k /\ calls'[s].who = buyer /\ calls'[s].cost = SalePrice(k, buyer)
  BY DEF BuySubAccount, StartCall, TypeOK
<1>2. LockSale(k, buyer) /\ SaleTermsExist(k, buyer)
  BY DEF BuySubAccount
<1>3. CASE OfferedTo(k, buyer)
  <2>1. accepted_offers[k] \in AcceptedOffer /\ accepted_offers[k].buyer = buyer
    BY <1>3 DEF TypeOK, OfferedTo
  <2>2. accepted_offers' = [accepted_offers EXCEPT ![k].settling = TRUE]
    BY <1>2, <1>3 DEF LockSale
  <2>3. /\ accepted_offers'[k] \in AcceptedOffer
        /\ accepted_offers'[k].settling
        /\ accepted_offers'[k].price = accepted_offers[k].price
        /\ accepted_offers'[k].buyer = buyer
    BY <2>1, <2>2 DEF TypeOK, AcceptedOffer
  <2>4. accepted_offers'[k] # None
    BY <2>3, EntryAssumption
  <2> QED  BY <1>1, <1>3, <2>3, <2>4 DEF LockedTerms, SalePrice
<1>4. CASE ~OfferedTo(k, buyer)
  <2>1. listings[k] \in Listing
    BY <1>2, <1>4 DEF TypeOK, SaleTermsExist
  <2>2. listings' = [listings EXCEPT ![k].settling = TRUE]
    BY <1>2, <1>4 DEF LockSale
  <2>3. /\ listings'[k] \in Listing
        /\ listings'[k].settling
        /\ listings'[k].price = listings[k].price
    BY <2>1, <2>2 DEF TypeOK, Listing
  <2>4. listings'[k] # None
    BY <2>3, EntryAssumption
  <2> QED  BY <1>1, <1>4, <2>3, <2>4 DEF LockedTerms, SalePrice
<1> QED  BY <1>3, <1>4

LEMMA BuyOneSale ==
    ASSUME TypeOK, SalesInv, NEW s \in Slots, NEW buyer \in Callers, NEW key \in Keys,
           NEW d \in Deposits, BuySubAccount(s, buyer, key, d)
    PROVE  SalesInv'
<1>1. sub_accounts[key] # None /\ ~Settling(key) /\ sub_accounts' = sub_accounts
  BY DEF BuySubAccount, Sellable, SaleIdle, Settling, subVars
<1>2. SellingSlots(key) = {}
  BY <1>1, LockedIsSettling DEF SalesInv
<1>3. /\ calls[s].kind = "none"
      /\ calls'[s].kind = "buy" /\ calls'[s].key = key
      /\ \A x \in Slots \ {s} : calls'[x] = calls[x]
  BY DEF BuySubAccount, StartCall, TypeOK, NoCall
<1>4. SellingSlots(key)' = {s}
  BY <1>2, <1>3 DEF SellingSlots, InFlight
<1>5. SaleInv(key)'
  BY <1>4, BuyLocks DEF SaleInv
<1>6. ASSUME NEW k \in Keys, k # key
      PROVE  SaleInv(k)'
  <2>1. SellingSlots(k)' = SellingSlots(k)
    BY <1>3, <1>6 DEF SellingSlots, InFlight
  <2>2. listings'[k] = listings[k] /\ accepted_offers'[k] = accepted_offers[k]
    BY <1>6 DEF BuySubAccount, LockSale, TypeOK
  <2>3. \A x \in SellingSlots(k) : calls'[x] = calls[x] /\ calls[x].key = k
    BY <1>3 DEF SellingSlots, InFlight
  <2> QED  BY <1>1, <2>1, <2>2, <2>3 DEF SalesInv, SaleInv, LockedTerms
<1> QED  BY <1>5, <1>6 DEF SalesInv

LEMMA SalesMarketplace ==
    ASSUME TypeOK, MarketplaceNext,
           ~\E s \in Slots, buyer \in Callers, k \in Keys, d \in Deposits :
               BuySubAccount(s, buyer, k, d)
    PROVE  NoNewSale /\ \A k \in Keys : TermsKept(k)
<1>1. ASSUME NEW caller \in Callers, NEW k \in Keys,
             \/ \E price \in Prices :
                   \/ ListSubAccount(caller, k, price)
                   \/ \E buyer \in Accounts : AcceptOffer(caller, k, buyer, price)
             \/ UnlistSubAccount(caller, k)
             \/ RevokeOffer(caller, k)
      PROVE  NoNewSale /\ \A x \in Keys : TermsKept(x)
  <2>1. sub_accounts[k] # None /\ ~Settling(k)
    BY <1>1 DEF ListSubAccount, AcceptOffer, UnlistSubAccount, RevokeOffer, Sellable,
       SaleIdle, Settling
  <2>2. \A x \in Keys \ {k} :
          listings'[x] = listings[x] /\ accepted_offers'[x] = accepted_offers[x]
    BY <1>1 DEF ListSubAccount, AcceptOffer, UnlistSubAccount, RevokeOffer, TypeOK
  <2>3. UNCHANGED calls
    BY <1>1 DEF ListSubAccount, AcceptOffer, UnlistSubAccount, RevokeOffer
  <2> QED  BY <2>1, <2>2, <2>3, UnchangedCalls DEF SalesKept, TermsKept
<1>2. ASSUME NEW s \in Slots, calls[s].kind = "buy", EndCall(s),
             NEW key \in Keys, key = calls[s].key, ClearSettling(key) \/ RemoveSaleTerms(key)
      PROVE  NoNewSale /\ \A k \in Keys : TermsKept(k)
  <2>1. NoNewSale /\ calls'[s].kind # "buy" /\ s \in SellingSlots(key)
    BY <1>2, EndedCall DEF SellingSlots, InFlight
  <2>2. \A k \in Keys \ {key} :
          listings'[k] = listings[k] /\ accepted_offers'[k] = accepted_offers[k]
    BY <1>2 DEF ClearSettling, RemoveSaleTerms, TypeOK
  <2> QED  BY <2>1, <2>2 DEF TermsKept
<1>3. ASSUME NEW s \in Slots, OnBuyBalancesChecked(s) \/ OnSaleFailed(s) \/ OnSubAccountSold(s)
      PROVE  NoNewSale /\ \A k \in Keys : TermsKept(k)
  <2>1. calls[s].kind = "buy" /\ calls[s] \in Call /\ calls[s].key \in Keys
    BY <1>3, CallType DEF OnBuyBalancesChecked, OnSaleFailed, OnSubAccountSold, At, Kinds, Call
  <2>2. PICK key \in Keys : key = calls[s].key
    BY <2>1
  <2>3. CASE Advance(s, "dispatch", TRUE) /\ UNCHANGED saleVars
    BY <2>1, <2>3, AdvancedCall DEF SalesKept, TermsKept, saleVars
  <2>4. CASE EndCall(s) /\ (ClearSettling(key) \/ RemoveSaleTerms(key))
    BY <1>2, <2>1, <2>2, <2>4
  <2> QED  BY <1>3, <2>2, <2>3, <2>4 DEF OnBuyBalancesChecked, OnSaleFailed, OnSubAccountSold,
              AbortSale
<1> QED  BY <1>1, <1>3 DEF MarketplaceNext

LEMMA SalesNext ==
    ASSUME TypeOK, SalesInv, [Next]_vars,
           \A k \in Keys : sub_accounts[k] = None /\ sub_accounts'[k] # None => SellingSlots(k) = {}
    PROVE  SalesInv'
<1>1. CASE \E s \in Slots, buyer \in Callers, k \in Keys, d \in Deposits :
              BuySubAccount(s, buyer, k, d)
  BY <1>1, BuyOneSale
<1>2. CASE ~\E s \in Slots, buyer \in Callers, k \in Keys, d \in Deposits :
               BuySubAccount(s, buyer, k, d)
  <2>1. NoNewSale /\ \A k \in Keys : TermsKept(k)
    BY <1>2, SalesRental, SalesLocker, SalesSweep, SalesReclaim, SalesRefunds, SalesOthers,
       SalesMarketplace, UnchangedSales DEF Next, SalesKept
  <2> QED  BY <2>1, SaleGoesOn DEF SalesInv
<1> QED  BY <1>1, <1>2

LEMMA SalesInvHolds == Spec /\ FreshTenancies => []SalesInv
<1>1. Init => SalesInv
  BY DEF Init, Start, SalesInv, SaleInv, SellingSlots, InFlight, NoCall
<1>2. /\ TypeOK /\ SalesInv /\ [Next]_vars
      /\ [\A k \in Keys :
            sub_accounts[k] = None /\ sub_accounts'[k] # None => SellingSlots(k) = {}]_vars
      => SalesInv'
  <2> SUFFICES ASSUME TypeOK, SalesInv, [Next]_vars,
                      [\A k \in Keys : sub_accounts[k] = None /\ sub_accounts'[k] # None
                          => SellingSlots(k) = {}]_vars
               PROVE  SalesInv'
    OBVIOUS
  <2>1. \A k \in Keys : sub_accounts[k] = None /\ sub_accounts'[k] # None => SellingSlots(k) = {}
    BY DEF vars, subVars
  <2> QED  BY <2>1, SalesNext
<1> QED  BY <1>1, <1>2, TypeCorrect, PTL DEF Spec, FreshTenancies

-----------------------------------------------------------------------------
(* Sold as locked.                                                         *)

\* The owner of an entry is changed by a sale alone.
LEMMA OwnerChanges ==
    ASSUME TypeOK, [Next]_vars, NEW k \in Keys, sub_accounts[k] # None,
           sub_accounts'[k] # None, sub_accounts'[k].owner # sub_accounts[k].owner
    PROVE  \E s \in Slots : OnSubAccountSold(s) /\ calls[s].key = k
<1>1. EntryStep
  BY StepKinds, TlaStepFrame DEF OtherStep
<1>2. \A x \in Keys : sub_accounts[x] # None => sub_accounts[x] \in SubAccountEntry
  BY DEF TypeOK
<1>3. ASSUME NEW s \in Slots, NEW caller \in Callers, NEW x \in Keys, NEW w \in Accounts,
             NEW d \in Deposits, RentSubAccount(s, caller, x, w, d)
      PROVE  FALSE
  BY <1>3 DEF RentSubAccount, TypeOK
<1>4. ASSUME NEW caller \in Callers, NEW x \in Keys,
             \/ \E d \in Deposits : RenewSubAccount(caller, x, d)
             \/ \E w \in Accounts : SetMainWallet(caller, x, w)
             \/ ScheduleRetraction(caller, x)
             \/ CancelRetraction(caller, x)
      PROVE  FALSE
  <2>1. sub_accounts[x] \in SubAccountEntry
    BY <1>2, <1>4 DEF RenewSubAccount, SetMainWallet, ScheduleRetraction, CancelRetraction
  <2>2. \/ \E e : sub_accounts' = [sub_accounts EXCEPT ![x].expires_at = e]
        \/ \E w : sub_accounts' = [sub_accounts EXCEPT ![x].main_wallet = w]
        \/ \E r : sub_accounts' = [sub_accounts EXCEPT ![x].retraction_at = r]
    BY <1>4 DEF RenewSubAccount, SetMainWallet, ScheduleRetraction, CancelRetraction
  <2>3. sub_accounts'[x].owner = sub_accounts[x].owner
    BY <2>1, <2>2 DEF TypeOK, SubAccountEntry
  <2>4. \A y \in Keys \ {x} : sub_accounts'[y] = sub_accounts[y]
    BY <2>2 DEF TypeOK
  <2> QED  BY <2>3, <2>4
<1>5. ASSUME NEW s \in Slots,
             \/ OnSubAccountCreationFailed(s)
             \/ OnReclaimFinalized(s)
             \/ OnExportSettled(s)
      PROVE  FALSE
  BY <1>5 DEF OnSubAccountCreationFailed, OnReclaimFinalized, OnExportSettled,
     RemoveSubAccount, subVars, TypeOK
<1>6. ASSUME NEW s \in Slots, OnSubAccountSold(s), calls[s].key # k
      PROVE  FALSE
  BY <1>6 DEF OnSubAccountSold, TypeOK
<1> QED  BY <1>1, <1>3, <1>4, <1>5, <1>6 DEF EntryStep

\* As long as no name is rented anew while its last sale is under way, an account
\* is sold to the buyer, and at the price, whose terms were locked when the deposit
\* was taken, whatever its owner does meanwhile.
THEOREM SoldToLockedBuyer == Spec /\ FreshTenancies => SoldAsLocked
<1> DEFINE Sold ==
      \A k \in Keys :
         /\ sub_accounts[k] # None
         /\ sub_accounts'[k] # None
         /\ sub_accounts'[k].owner # sub_accounts[k].owner
         => \E s \in SellingSlots(k) :
              /\ calls[s].who = sub_accounts'[k].owner
              /\ calls'[s] = NoCall
              /\ LockedTerms(calls[s])
<1>1. TypeOK /\ SalesInv /\ [Next]_vars => [Sold]_vars
  <2> SUFFICES ASSUME TypeOK, SalesInv, [Next]_vars, NEW k \in Keys, sub_accounts[k] # None,
                      sub_accounts'[k] # None, sub_accounts'[k].owner # sub_accounts[k].owner
               PROVE  \E s \in SellingSlots(k) :
                        /\ calls[s].who = sub_accounts'[k].owner
                        /\ calls'[s] = NoCall
                        /\ LockedTerms(calls[s])
    OBVIOUS
  <2>1. PICK s \in Slots : OnSubAccountSold(s) /\ calls[s].key = k
    BY OwnerChanges
  <2>2. s \in SellingSlots(k) /\ calls'[s] = NoCall
    BY <2>1 DEF OnSubAccountSold, At, SellingSlots, InFlight, EndCall, TypeOK
  <2>3. sub_accounts[k] \in SubAccountEntry
    BY DEF TypeOK
  <2>4. sub_accounts'[k].owner = calls[s].who
    BY <2>1, <2>3 DEF OnSubAccountSold, TypeOK, SubAccountEntry
  <2>5. LockedTerms(calls[s])
    BY <2>2 DEF SalesInv, SaleInv
  <2> QED  BY <2>2, <2>4, <2>5
<1> QED  BY <1>1, TypeCorrect, SalesInvHolds, PTL DEF Spec, SoldAsLocked

-----------------------------------------------------------------------------
(* The owners of the names, as AtomicSale and Custody see them.            *)

Holders == [k \in Keys |-> HolderOf(k)]

LEMMA HolderKnown ==
    ASSUME TypeOK, NEW k \in Keys
    PROVE  /\ HolderOf(k) \in Accounts \cup {None}
           /\ HolderOf(k) = None <=> sub_accounts[k] = None
BY RegistryAssumption DEF TypeOK, HolderOf, SubAccountEntry

\* An entry that is written or removed.
LEMMA HolderChanges ==
    ASSUME TypeOK, NEW k \in Keys, NEW entry, sub_accounts' = [sub_accounts EXCEPT ![k] = entry],
           NEW p, p = IF entry = None THEN None ELSE entry.owner
    PROVE  Holders' = [Holders EXCEPT ![k] = p]
<1>1. \A x \in Keys \ {k} : sub_accounts'[x] = sub_accounts[x]
  BY DEF TypeOK
<1>2. sub_accounts'[k] = entry
  BY DEF TypeOK
<1>3. HolderOf(k)' = p /\ \A x \in Keys \ {k} : HolderOf(x)' = HolderOf(x)
  BY <1>1, <1>2 DEF HolderOf
<1>4. [x \in Keys |-> HolderOf(x)'] = [Holders EXCEPT ![k] = p]
  BY <1>3 DEF Holders
<1> QED  BY <1>4 DEF Holders

\* An entry that is changed in what is not its owner.
LEMMA HolderStays ==
    ASSUME TypeOK, NEW k \in Keys, NEW entry \in SubAccountEntry,
           sub_accounts' = [sub_accounts EXCEPT ![k] = entry],
           sub_accounts[k] # None, entry.owner = sub_accounts[k].owner
    PROVE  UNCHANGED Holders
<1>1. entry # None
  BY EntryAssumption
<1>2. Holders' = [Holders EXCEPT ![k] = entry.owner]
  BY <1>1, HolderChanges
<1>3. Holders[k] = entry.owner /\ Holders = [x \in Keys |-> Holders[x]]
  BY DEF Holders, HolderOf
<1> HIDE DEF Holders
<1> QED  BY <1>2, <1>3

LEMMA HoldersUntouched ==
    ASSUME UNCHANGED sub_accounts
    PROVE  UNCHANGED Holders
BY DEF Holders, HolderOf

\* A name that is rented is its renter's.
LEMMA HolderTakes ==
    ASSUME TypeOK, TypeOK', NEW s \in Slots, NEW caller \in Callers, NEW k \in Keys,
           NEW w \in Accounts, NEW d \in Deposits, RentSubAccount(s, caller, k, w, d)
    PROVE  Holders' = [Holders EXCEPT ![k] = caller]
<1>1. sub_accounts' = [sub_accounts EXCEPT ![k] = NewTenancy(caller, w)]
  BY DEF RentSubAccount
<1>2. NewTenancy(caller, w) \in SubAccountEntry \cup {None}
  BY <1>1 DEF TypeOK
<1>3. NewTenancy(caller, w) \in SubAccountEntry
  BY CallerType, LifecycleAssumption DEF TypeOK, NewTenancy, SubAccountEntry
<1>4. NewTenancy(caller, w) # None /\ NewTenancy(caller, w).owner = caller
  BY <1>3, EntryAssumption DEF NewTenancy
<1> QED  BY <1>1, <1>4, HolderChanges

\* A sold one is its buyer's.
LEMMA HolderSold ==
    ASSUME TypeOK, NEW s \in Slots, OnSubAccountSold(s)
    PROVE  Holders' = [Holders EXCEPT ![calls[s].key] = calls[s].who]
<1> DEFINE k == calls[s].key
           entry == [sub_accounts[k] EXCEPT !.owner = calls[s].who, !.main_wallet = calls[s].who]
<1>1. calls[s].kind = "buy" /\ sub_accounts[k] # None
  BY DEF OnSubAccountSold, At
<1>2. k \in Keys /\ calls[s].who \in Accounts
  BY <1>1, CallType DEF Kinds, Call
<1>3. sub_accounts[k] \in SubAccountEntry
  BY <1>1, <1>2 DEF TypeOK
<1>4. entry \in SubAccountEntry /\ entry.owner = calls[s].who
  BY <1>2, <1>3, SubAccountEntryUpdate DEF SubAccountEntry
<1>5. entry # None
  BY <1>4, EntryAssumption
<1>6. sub_accounts' = [sub_accounts EXCEPT ![k] = entry]
  BY DEF OnSubAccountSold
<1> HIDE DEF entry
<1> QED  BY <1>2, <1>4, <1>5, <1>6, HolderChanges

\* What an owner or a licensee does to a tenancy moves nobody.
LEMMA HolderUnmoved ==
    ASSUME TypeOK, NEW caller \in Callers, NEW k \in Keys,
           \/ \E d \in Deposits : RenewSubAccount(caller, k, d)
           \/ \E w \in Accounts : SetMainWallet(caller, k, w)
           \/ ScheduleRetraction(caller, k)
           \/ CancelRetraction(caller, k)
    PROVE  UNCHANGED Holders
<1> DEFINE sub == sub_accounts[k]
<1>1. sub # None
  BY DEF RenewSubAccount, SetMainWallet, ScheduleRetraction, CancelRetraction
<1>2. sub \in SubAccountEntry /\ now \in Nat
  BY <1>1 DEF TypeOK
<1>3. Renewed(sub.expires_at) \in Nat
  BY <1>2, RenewedType DEF SubAccountEntry
<1>4. PICK entry \in SubAccountEntry :
        /\ sub_accounts' = [sub_accounts EXCEPT ![k] = entry]
        /\ entry.owner = sub.owner
  <2>1. CASE \E d \in Deposits : RenewSubAccount(caller, k, d)
    <3>1. sub_accounts' = [sub_accounts EXCEPT
                             ![k] = [sub EXCEPT !.expires_at = Renewed(sub.expires_at)]]
      BY <2>1 DEF RenewSubAccount
    <3>2. [sub EXCEPT !.expires_at = Renewed(sub.expires_at)] \in SubAccountEntry
      BY <1>2, <1>3, SubAccountEntryUpdate
    <3>3. [sub EXCEPT !.expires_at = Renewed(sub.expires_at)].owner = sub.owner
      BY <1>2 DEF SubAccountEntry
    <3> QED  BY <3>1, <3>2, <3>3
  <2>2. CASE \E w \in Accounts : SetMainWallet(caller, k, w)
    <3>1. PICK w \in Accounts :
            sub_accounts' = [sub_accounts EXCEPT ![k] = [sub EXCEPT !.main_wallet = w]]
      BY <2>2 DEF SetMainWallet
    <3>2. [sub EXCEPT !.main_wallet = w] \in SubAccountEntry
      BY <1>2, SubAccountEntryUpdate
    <3>3. [sub EXCEPT !.main_wallet = w].owner = sub.owner
      BY <1>2 DEF SubAccountEntry
    <3> QED  BY <3>1, <3>2, <3>3
  <2>3. CASE ScheduleRetraction(caller, k) \/ CancelRetraction(caller, k)
    <3>1. PICK r \in Nat \cup {None} :
            sub_accounts' = [sub_accounts EXCEPT ![k] = [sub EXCEPT !.retraction_at = r]]
      BY <1>2, <2>3 DEF ScheduleRetraction, CancelRetraction
    <3>2. [sub EXCEPT !.retraction_at = r] \in SubAccountEntry
      BY <1>2, SubAccountEntryUpdate
    <3>3. [sub EXCEPT !.retraction_at = r].owner = sub.owner
      BY <1>2 DEF SubAccountEntry
    <3> QED  BY <3>1, <3>2, <3>3
  <2> QED  BY <2>1, <2>2, <2>3
<1> QED  BY <1>1, <1>4, HolderStays

-----------------------------------------------------------------------------
(* The sale in one step: of a step, AtomicSale sees the owners, the deals, *)
(* the terms without their locks, the credits and the revenue.             *)

Deals == [s \in Slots |-> DealOf(calls[s])]
OpenTerms == [k \in Keys |-> TermsOf(k)]

\* No name is rented anew while its last sale is under way.
FreshStep ==
    \A k \in Keys : sub_accounts[k] = None /\ sub_accounts'[k] # None => SellingSlots(k) = {}

OneLedger == \E a \in Accounts : Sale!Books(a)

LEMMA DealsKept ==
    ASSUME SalesKept
    PROVE  UNCHANGED Deals
<1>1. \A s \in Slots : DealOf(calls'[s]) = DealOf(calls[s])
  BY DEF SalesKept, SalesGoOn, NoNewSale, DealOf
<1> QED  BY <1>1 DEF Deals

LEMMA TermsUntouched ==
    ASSUME UNCHANGED saleVars
    PROVE  UNCHANGED OpenTerms
BY DEF OpenTerms, TermsOf, saleVars

LEMMA NoDealNoSale ==
    ASSUME NEW k \in Keys, SellingSlots(k) = {}
    PROVE  Sale!Idle(k)
<1>1. None # k
  BY RegistryAssumption DEF Accounts
<1>2. ASSUME NEW s \in Slots
      PROVE  DealOf(calls[s]).name # k
  BY <1>1 DEF DealOf, SellingSlots, InFlight
<1> QED  BY <1>2 DEF Sale!Idle

LEMMA LedgerKept ==
    ASSUME TypeOK, NEW a \in Accounts, NEW amount,
           pending_refunds' = [pending_refunds EXCEPT ![a] = amount]
    PROVE  Sale!Books(a)
<1>1. pending_refunds'[a] = amount
  BY DEF TypeOK
<1> QED  BY <1>1 DEF Sale!Books

LEMMA LedgerUntouched ==
    ASSUME TypeOK, UNCHANGED pending_refunds
    PROVE  OneLedger
<1>1. PICK a \in Accounts : TRUE
  BY RegistryAssumption DEF Accounts
<1>2. pending_refunds' = [pending_refunds EXCEPT ![a] = pending_refunds[a]]
  BY DEF TypeOK
<1> QED  BY <1>2, LedgerKept DEF OneLedger

\* A step that leaves the deals, the terms and the owners alone.
LEMMA NoDealTouched ==
    ASSUME UNCHANGED Holders, OneLedger, SalesKept, UNCHANGED saleVars
    PROVE  Sale!Next
<1>1. UNCHANGED Deals /\ UNCHANGED OpenTerms
  BY DealsKept, TermsUntouched
<1>2. PICK a \in Accounts : Sale!Books(a)
  BY DEF OneLedger
<1>3. Sale!Elsewhere(a)
  BY <1>1, <1>2 DEF Sale!Elsewhere, Deals, OpenTerms, Holders
<1> QED  BY <1>3 DEF Sale!Next

LEMMA CreditLedger ==
    ASSUME TypeOK, NEW a \in Accounts, NEW amount, AddPendingRefund(a, amount)
    PROVE  Sale!Books(a)
<1>1. pending_refunds' = [pending_refunds EXCEPT ![a] = pending_refunds[a] + amount]
  BY DEF AddPendingRefund, Credited
<1> QED  BY <1>1, LedgerKept

-----------------------------------------------------------------------------
(* The steps that are no part of a sale.                                   *)

LEMMA RentTakesName ==
    ASSUME TypeOK, TypeOK', FreshStep, NEW s \in Slots, NEW caller \in Callers, NEW k \in Keys,
           NEW w \in Accounts, NEW d \in Deposits, RentSubAccount(s, caller, k, w, d)
    PROVE  Sale!Enter(k, caller)
<1>1. Holders[k] = None
  BY DEF RentSubAccount, Holders, HolderOf
<1>2. Holders' = [Holders EXCEPT ![k] = caller]
  BY HolderTakes
<1>3. SellingSlots(k) = {}
  <2>1. HolderOf(k)' = caller /\ caller \in Accounts
    BY <1>2, CallerType DEF Holders
  <2>2. sub_accounts'[k] # None
    BY <2>1, RegistryAssumption DEF HolderOf
  <2> QED  BY <2>2 DEF FreshStep, RentSubAccount
<1>4. UNCHANGED Deals /\ UNCHANGED OpenTerms
  <2>1. RentalNext
    BY DEF RentalNext
  <2> QED  BY <2>1, SalesRental, DealsKept, TermsUntouched
<1>5. UNCHANGED <<pending_refunds, total_revenue>>
  BY DEF RentSubAccount, refundVars
<1> QED
  BY <1>1, <1>2, <1>3, <1>4, <1>5, NoDealNoSale DEF Sale!Enter, Holders, Deals, OpenTerms

LEMMA CreationFailedLeaves ==
    ASSUME TypeOK, NEW s \in Slots, OnSubAccountCreationFailed(s)
    PROVE  Sale!Next
<1>1. /\ calls[s].kind = "rent" /\ calls[s] \in Call
      /\ calls[s].key \in Keys /\ calls[s].who \in Accounts /\ calls[s].paid \in Nat
  BY CallType DEF OnSubAccountCreationFailed, At, Kinds, Call
<1>2. PICK k \in Keys, a \in Accounts, paid \in Nat :
        k = calls[s].key /\ a = calls[s].who /\ paid = calls[s].paid
  BY <1>1
<1>3. Holders' = [Holders EXCEPT ![k] = None]
  BY <1>2, HolderChanges DEF OnSubAccountCreationFailed
<1>4. AddPendingRefund(a, paid)
  BY <1>2 DEF OnSubAccountCreationFailed
<1>5. Sale!Books(a)
  BY <1>4, CreditLedger
<1>6. pending_refunds'[a] >= pending_refunds[a]
  BY <1>4 DEF AddPendingRefund, Credited, TypeOK
<1>7. UNCHANGED Deals /\ UNCHANGED OpenTerms
  <2>1. RentalNext
    BY DEF RentalNext
  <2> QED  BY <2>1, SalesRental, DealsKept, TermsUntouched
<1>8. UNCHANGED total_revenue
  BY DEF OnSubAccountCreationFailed
<1>9. Sale!Leave(k, a)
  BY <1>3, <1>5, <1>6, <1>7, <1>8 DEF Sale!Leave, Holders, Deals, OpenTerms
<1> QED  BY <1>9 DEF Sale!Next

\* The registry forgets a name.
LEMMA RemovedLeaves ==
    ASSUME TypeOK, NEW k \in Keys, RemoveSubAccount(k), SalesKept, UNCHANGED moneyVars
    PROVE  Sale!Next
<1>1. Holders' = [Holders EXCEPT ![k] = None]
  BY HolderChanges DEF RemoveSubAccount
<1>2. OpenTerms' = [OpenTerms EXCEPT ![k] = {}]
  <2>1. TermsOf(k)' = {} /\ \A x \in Keys \ {k} : TermsOf(x)' = TermsOf(x)
    BY DEF RemoveSubAccount, RemoveSaleTerms, TermsOf, TypeOK
  <2> QED  BY <2>1 DEF OpenTerms
<1>3. UNCHANGED Deals
  BY DealsKept
<1>4. UNCHANGED <<pending_refunds, total_revenue>>
  BY DEF moneyVars, refundVars
<1>5. PICK a \in Accounts : TRUE
  BY RegistryAssumption DEF Accounts
<1>6. Sale!Leave(k, a)
  BY <1>1, <1>2, <1>3, <1>4 DEF Sale!Leave, Holders, Deals, OpenTerms
<1> QED  BY <1>6 DEF Sale!Next

LEMMA RentalNoDeal ==
    ASSUME TypeOK, TypeOK', FreshStep, RentalNext
    PROVE  Sale!Next
<1>1. SalesKept /\ UNCHANGED saleVars
  BY SalesRental
<1>2. ASSUME NEW s \in Slots, NEW caller \in Callers, NEW k \in Keys, NEW w \in Accounts,
             NEW d \in Deposits, RentSubAccount(s, caller, k, w, d)
      PROVE  Sale!Next
  BY <1>2, RentTakesName, CallerType DEF Sale!Next
<1>3. ASSUME NEW caller \in Callers, NEW t \in Tlas, NEW d \in Deposits,
             ActivateTla(caller, t, d) \/ RenewTla(caller, t, d)
      PROVE  Sale!Next
  <2>1. PICK amount : AddPendingRefund(caller, amount)
    BY <1>3 DEF ActivateTla, RenewTla, ChargeCaller
  <2>2. UNCHANGED Holders
    BY <1>3, HoldersUntouched DEF ActivateTla, RenewTla, subVars
  <2> QED  BY <1>1, <2>1, <2>2, CallerType, CreditLedger, NoDealTouched DEF OneLedger
<1>4. ASSUME NEW caller \in Callers, NEW k \in Keys, NEW d \in Deposits,
             RenewSubAccount(caller, k, d)
      PROVE  Sale!Next
  <2>1. PICK amount : AddPendingRefund(caller, amount)
    BY <1>4 DEF RenewSubAccount, ChargeCaller
  <2> QED
    BY <1>1, <1>4, <2>1, HolderUnmoved, CallerType, CreditLedger, NoDealTouched DEF OneLedger
<1>5. ASSUME NEW caller \in Callers, NEW k \in Keys, NEW w \in Accounts,
             SetMainWallet(caller, k, w)
      PROVE  Sale!Next
  <2>1. UNCHANGED pending_refunds
    BY <1>5 DEF SetMainWallet, moneyVars, refundVars
  <2> QED  BY <1>1, <1>5, <2>1, HolderUnmoved, LedgerUntouched, NoDealTouched
<1>6. ASSUME NEW s \in Slots,
             CreateSubAccount(s) \/ CreateAccountBatch(s) \/ OnSubAccountCreatedPanics(s)
      PROVE  Sale!Next
  <2>1. UNCHANGED pending_refunds /\ UNCHANGED sub_accounts
    BY <1>6 DEF CreateSubAccount, CreateAccountBatch, OnSubAccountCreatedPanics, moneyVars,
       refundVars, subVars
  <2> QED  BY <1>1, <2>1, HoldersUntouched, LedgerUntouched, NoDealTouched
<1>7. ASSUME NEW s \in Slots, OnSubAccountCreated(s)
      PROVE  Sale!Next
  <2>1. calls[s].who \in Accounts
    BY <1>7, CallType DEF OnSubAccountCreated, At, Kinds, Call
  <2>2. PICK amount : AddPendingRefund(calls[s].who, amount)
    BY <1>7 DEF OnSubAccountCreated
  <2>3. UNCHANGED sub_accounts
    BY <1>7 DEF OnSubAccountCreated
  <2> QED
    BY <1>1, <2>1, <2>2, <2>3, CreditLedger, HoldersUntouched, NoDealTouched DEF OneLedger
<1> QED
  BY <1>2, <1>3, <1>4, <1>5, <1>6, <1>7, CreationFailedLeaves DEF RentalNext

LEMMA ReclaimNoDeal ==
    ASSUME TypeOK, ReclaimNext
    PROVE  Sale!Next
<1>1. SalesKept /\ UNCHANGED moneyVars
  BY SalesReclaim DEF ReclaimNext, ReclaimFinalize, ExportSubAccount, OnBalancesChecked,
     OnReclaimFinalized, OnExportSettled
<1>2. CASE UNCHANGED sub_accounts /\ UNCHANGED saleVars
  BY <1>1, <1>2, HoldersUntouched, LedgerUntouched, NoDealTouched DEF moneyVars, refundVars
<1>3. CASE \E k \in Keys : RemoveSubAccount(k)
  BY <1>1, <1>3, RemovedLeaves
<1>4. ASSUME NEW s \in Slots, OnReclaimFinalized(s) \/ OnExportSettled(s)
      PROVE  \/ UNCHANGED sub_accounts /\ UNCHANGED saleVars
             \/ \E k \in Keys : RemoveSubAccount(k)
  <2>1. calls[s].key \in Keys
    BY <1>4, CallType DEF OnReclaimFinalized, OnExportSettled, At, Kinds, Call
  <2>2. PICK k \in Keys : k = calls[s].key
    BY <2>1
  <2> QED  BY <1>4, <2>2 DEF OnReclaimFinalized, OnExportSettled, subVars
<1>5. ASSUME NEW s \in Slots,
             \/ OnBalancesChecked(s)
             \/ \E k \in Keys :
                   \/ ReclaimFinalize(s, k)
                   \/ \E caller \in Callers : ExportSubAccount(s, caller, k)
      PROVE  UNCHANGED sub_accounts /\ UNCHANGED saleVars
  BY <1>5 DEF OnBalancesChecked, ReclaimFinalize, ExportSubAccount, subVars
<1> QED  BY <1>2, <1>3, <1>4, <1>5 DEF ReclaimNext

LEMMA RefundsNoDeal ==
    ASSUME TypeOK, RefundsNext
    PROVE  Sale!Next
<1>1. SalesKept /\ UNCHANGED saleVars
  BY SalesRefunds
<1>2. UNCHANGED Holders
  BY HoldersUntouched DEF RefundsNext, ClaimRefund, TransferRefund, OnClaimRefundSettled,
     Withdraw, subVars
<1>3. ASSUME NEW s \in Slots, NEW caller \in Callers, ClaimRefund(s, caller)
      PROVE  OneLedger
  BY <1>3, CallerType, LedgerKept DEF ClaimRefund, OneLedger
<1>4. ASSUME NEW s \in Slots, TransferRefund(s) \/ OnClaimRefundSettled(s)
      PROVE  OneLedger
  <2>1. CASE UNCHANGED refundVars
    BY <2>1, LedgerUntouched DEF refundVars
  <2>2. CASE OnClaimRefundSettled(s) /\ AddPendingRefund(calls[s].who, calls[s].paid)
    <3>1. calls[s].who \in Accounts
      BY <2>2, CallType DEF OnClaimRefundSettled, At, Kinds, Call
    <3> QED  BY <2>2, <3>1, CreditLedger DEF OneLedger
  <2> QED  BY <1>4, <2>1, <2>2 DEF TransferRefund, OnClaimRefundSettled
<1>5. ASSUME NEW caller \in Callers, NEW amount \in Deposits, NEW recipient \in Accounts,
             Withdraw(caller, amount, recipient)
      PROVE  OneLedger
  BY <1>5, CreditLedger DEF Withdraw, OneLedger, Accounts
<1> QED  BY <1>1, <1>2, <1>3, <1>4, <1>5, NoDealTouched DEF RefundsNext

LEMMA OthersNoDeal ==
    ASSUME TypeOK, \/ LockerNext \/ SweepNext \/ MotherNext \/ BusinessNext \/ AdminNext
                   \/ EnvironmentNext \/ UNCHANGED vars
    PROVE  Sale!Next
<1>1. SalesKept /\ UNCHANGED saleVars
  BY SalesLocker, SalesSweep, SalesOthers
<1>2. UNCHANGED pending_refunds
  <2>1. CASE LockerNext \/ SweepNext
    BY <2>1 DEF LockerNext, TransferOwnership, FinalizeDelete, DeleteAccount, Export,
       AddFullAccessKey, OnExportResolved, SweepNext, ReclaimSweepFt, SweepFt, MeasureBalance,
       AfterBalanceQuery, DepositStorage, AfterStorageDeposit, TransferTokens, moneyVars,
       refundVars
  <2>2. CASE MotherNext \/ BusinessNext \/ EnvironmentNext \/ UNCHANGED vars
    BY <2>2 DEF MotherNext, SetMother, AdminClearMother, BusinessNext, ScheduleRetraction,
       CancelRetraction, SetBusinessSubCap, EnvironmentNext, QueryNext, QueryBalance,
       DepositToken, Tick, moneyVars, refundVars, vars
  <2>3. CASE AdminNext
    BY <2>3 DEF AdminNext, RegisterTla, ActivateOpenTla, SuspendTla, UnsuspendTla, AddAdmin,
       RemoveAdmin, SetAdmins, UpdateFeeConfig, SetPaused, AddFtAllowlist, RemoveFtAllowlist,
       AddNftAllowlist, RemoveNftAllowlist, moneyVars, refundVars
  <2> QED  BY <2>1, <2>2, <2>3
<1>3. UNCHANGED Holders
  <2>1. CASE \E caller \in Callers, k \in Keys :
               ScheduleRetraction(caller, k) \/ CancelRetraction(caller, k)
    BY <2>1, HolderUnmoved
  <2>2. CASE UNCHANGED sub_accounts
    BY <2>2, HoldersUntouched
  <2>3. CASE LockerNext \/ SweepNext \/ MotherNext \/ BusinessNext
    BY <2>1, <2>2, <2>3 DEF LockerNext, TransferOwnership, FinalizeDelete, DeleteAccount,
       Export, AddFullAccessKey, OnExportResolved, SweepNext, ReclaimSweepFt, SweepFt,
       MeasureBalance, AfterBalanceQuery, DepositStorage, AfterStorageDeposit, TransferTokens,
       MotherNext, SetMother, AdminClearMother, BusinessNext, SetBusinessSubCap, subVars
  <2>4. CASE AdminNext \/ EnvironmentNext \/ UNCHANGED vars
    BY <2>2, <2>4 DEF AdminNext, RegisterTla, ActivateOpenTla, SuspendTla, UnsuspendTla,
       AddAdmin, RemoveAdmin, SetAdmins, UpdateFeeConfig, SetPaused, AddFtAllowlist,
       RemoveFtAllowlist, AddNftAllowlist, RemoveNftAllowlist, EnvironmentNext, QueryNext,
       QueryBalance, DepositToken, Tick, subVars, vars
  <2> QED  BY <2>3, <2>4
<1> QED  BY <1>1, <1>2, <1>3, LedgerUntouched, NoDealTouched

-----------------------------------------------------------------------------
(* The steps of a sale.                                                    *)

\* A purchase is charged no more than was deposited for it.
DepositsCover == \A s \in Slots : calls[s].kind = "buy" => calls[s].paid >= calls[s].cost

LEMMA DepositsStayCovered ==
    ASSUME TypeOK, DepositsCover, [Next]_vars
    PROVE  DepositsCover'
<1>1. CASE \E s \in Slots, buyer \in Callers, k \in Keys, d \in Deposits :
              BuySubAccount(s, buyer, k, d)
  <2>1. PICK s \in Slots, buyer \in Callers, k \in Keys, d \in Deposits :
          BuySubAccount(s, buyer, k, d)
    BY <1>1
  <2>2. PICK call : StartCall(s, call) /\ call.paid >= call.cost
    BY <2>1 DEF BuySubAccount
  <2> QED  BY <2>2, CallStarted DEF DepositsCover
<1>2. CASE ~\E s \in Slots, buyer \in Callers, k \in Keys, d \in Deposits :
               BuySubAccount(s, buyer, k, d)
  <2>1. NoNewSale
    BY <1>2, SalesRental, SalesLocker, SalesSweep, SalesReclaim, SalesRefunds, SalesOthers,
       SalesMarketplace DEF Next, SalesKept
  <2> QED  BY <2>1 DEF DepositsCover, NoNewSale
<1> QED  BY <1>1, <1>2

LEMMA TermsSet ==
    ASSUME TypeOK, SalesInv, NEW caller \in Callers, NEW k \in Keys,
           \/ \E price \in Prices :
                 \/ ListSubAccount(caller, k, price)
                 \/ \E buyer \in Accounts : AcceptOffer(caller, k, buyer, price)
           \/ UnlistSubAccount(caller, k)
           \/ RevokeOffer(caller, k)
    PROVE  Sale!SetTerms(k)
<1>1. sub_accounts[k] # None /\ ~Settling(k)
  BY DEF ListSubAccount, AcceptOffer, UnlistSubAccount, RevokeOffer, Sellable, SaleIdle, Settling
<1>2. Sale!Idle(k)
  BY <1>1, LockedIsSettling, NoDealNoSale DEF SalesInv
<1>3. OpenTerms' = [OpenTerms EXCEPT ![k] = OpenTerms'[k]]
  <2>1. \A x \in Keys \ {k} : TermsOf(x)' = TermsOf(x)
    BY DEF ListSubAccount, AcceptOffer, UnlistSubAccount, RevokeOffer, TermsOf, TypeOK
  <2> QED  BY <2>1 DEF OpenTerms
<1>4. UNCHANGED <<sub_accounts, calls, pending_refunds, total_revenue>>
  BY DEF ListSubAccount, AcceptOffer, UnlistSubAccount, RevokeOffer, subVars, moneyVars, refundVars
<1>5. UNCHANGED Holders /\ UNCHANGED Deals
  BY <1>4, HoldersUntouched DEF Deals
<1>6. Holders[k] # None
  BY <1>1, HolderKnown DEF Holders
<1> QED  BY <1>2, <1>3, <1>4, <1>5, <1>6 DEF Sale!SetTerms, Holders, Deals, OpenTerms

\* A deal as AtomicSale sees it.
LEMMA DealSeen ==
    ASSUME TypeOK, NEW s \in Slots, calls[s].kind = "buy"
    PROVE  /\ Deals[s].name = calls[s].key
           /\ Deals[s].buyer = calls[s].who
           /\ Deals[s].price = calls[s].cost
           /\ Deals[s].paid = calls[s].paid
           /\ Deals[s] # Sale!NoDeal
<1>1. calls[s].key \in Keys
  BY CallType DEF Kinds, Call
<1>2. calls[s].key # None
  BY <1>1, RegistryAssumption DEF Accounts
<1> QED  BY <1>2 DEF Deals, DealOf, Sale!NoDeal

LEMMA DealEnds ==
    ASSUME TypeOK, NEW s \in Slots, EndCall(s)
    PROVE  Deals' = [Deals EXCEPT ![s] = Sale!NoDeal]
<1>1. DealOf(calls'[s]) = Sale!NoDeal /\ \A d \in Slots \ {s} : DealOf(calls'[d]) = DealOf(calls[d])
  BY CallEnded DEF DealOf, NoCall, Sale!NoDeal
<1> QED  BY <1>1 DEF Deals

\* Locks are not seen.
LEMMA LocksUnseen ==
    ASSUME TypeOK, NEW lock \in BOOLEAN,
           \A k \in Keys :
              /\ \/ listings'[k] = listings[k]
                 \/ listings[k] # None /\ listings'[k] = [listings[k] EXCEPT !.settling = lock]
              /\ \/ accepted_offers'[k] = accepted_offers[k]
                 \/ /\ accepted_offers[k] # None
                    /\ accepted_offers'[k] = [accepted_offers[k] EXCEPT !.settling = lock]
    PROVE  UNCHANGED OpenTerms
<1>1. ASSUME NEW k \in Keys
      PROVE  TermsOf(k)' = TermsOf(k)
  <2> DEFINE listing == [listings[k] EXCEPT !.settling = lock]
             offer   == [accepted_offers[k] EXCEPT !.settling = lock]
  <2>1. /\ listings[k] = None \/ listings[k] \in Listing
        /\ accepted_offers[k] = None \/ accepted_offers[k] \in AcceptedOffer
    BY DEF TypeOK
  <2>2. listings[k] # None => listings'[k] # None /\ listings'[k].price = listings[k].price
    <3>1. listings[k] \in Listing => listing \in Listing /\ listing.price = listings[k].price
      BY DEF Listing
    <3>2. listings'[k] \in {listings[k], listing}
      OBVIOUS
    <3> QED  BY <2>1, <3>1, <3>2, EntryAssumption
  <2>3. accepted_offers[k] # None =>
          /\ accepted_offers'[k] # None
          /\ accepted_offers'[k].price = accepted_offers[k].price
          /\ accepted_offers'[k].buyer = accepted_offers[k].buyer
    <3>1. accepted_offers[k] \in AcceptedOffer =>
             /\ offer \in AcceptedOffer
             /\ offer.price = accepted_offers[k].price
             /\ offer.buyer = accepted_offers[k].buyer
      BY DEF AcceptedOffer
    <3>2. accepted_offers'[k] \in {accepted_offers[k], offer}
      OBVIOUS
    <3> QED  BY <2>1, <3>1, <3>2, EntryAssumption
  <2>4. /\ listings[k] = None <=> listings'[k] = None
        /\ accepted_offers[k] = None <=> accepted_offers'[k] = None
    BY <2>2, <2>3
  <2> QED  BY <2>2, <2>3, <2>4 DEF TermsOf
<1> QED  BY <1>1 DEF OpenTerms

OpenTo(k, buyer, price) ==
    \E term \in TermsOf(k) : term.buyer \in {buyer, None} /\ term.price = price

LEMMA TermOpen ==
    ASSUME NEW k \in Keys, NEW buyer, NEW price,
           \/ listings[k] # None /\ listings[k].price = price
           \/ /\ accepted_offers[k] # None
              /\ accepted_offers[k].buyer = buyer
              /\ accepted_offers[k].price = price
    PROVE  OpenTo(k, buyer, price)
<1>1. CASE listings[k] # None /\ listings[k].price = price
  <2>1. [buyer |-> None, price |-> price] \in TermsOf(k)
    BY <1>1 DEF TermsOf
  <2> QED  BY <2>1 DEF OpenTo
<1>2. CASE /\ accepted_offers[k] # None
           /\ accepted_offers[k].buyer = buyer
           /\ accepted_offers[k].price = price
  <2>1. [buyer |-> buyer, price |-> price] \in TermsOf(k)
    BY <1>2 DEF TermsOf
  <2> QED  BY <2>1 DEF OpenTo
<1> QED  BY <1>1, <1>2

LEMMA BuyDeposits ==
    ASSUME TypeOK, SalesInv, NEW s \in Slots, NEW buyer \in Callers, NEW k \in Keys,
           NEW d \in Deposits, BuySubAccount(s, buyer, k, d)
    PROVE  Sale!Next
<1>1. sub_accounts[k] # None /\ ~Settling(k) /\ SaleTermsExist(k, buyer)
  BY DEF BuySubAccount, Sellable, SaleIdle, Settling
<1>2. Sale!Idle(k) /\ Holders[k] # None
  BY <1>1, LockedIsSettling, NoDealNoSale, HolderKnown DEF SalesInv, Holders
<1>3. PICK term \in TermsOf(k) :
        term.buyer \in {buyer, None} /\ term.price = SalePrice(k, buyer)
  <2>1. PICK price : price = SalePrice(k, buyer)
    OBVIOUS
  <2>2. \/ listings[k] # None /\ listings[k].price = price
        \/ /\ accepted_offers[k] # None
           /\ accepted_offers[k].buyer = buyer
           /\ accepted_offers[k].price = price
    BY <1>1, <2>1 DEF SaleTermsExist, OfferedTo, SalePrice
  <2>3. OpenTo(k, buyer, price)
    BY <2>2, TermOpen
  <2> QED  BY <2>1, <2>3 DEF OpenTo
<1>4. d >= term.price
  BY <1>3 DEF BuySubAccount
<1>5. Deals[s] = Sale!NoDeal
  BY DEF BuySubAccount, StartCall, Deals, DealOf, NoCall, Sale!NoDeal
<1>6. Deals' = [Deals EXCEPT ![s] =
                  [name |-> k, buyer |-> buyer, price |-> term.price, paid |-> d]]
  <2>1. PICK call :
          /\ StartCall(s, call)
          /\ call.kind = "buy" /\ call.key = k /\ call.who = buyer
          /\ call.cost = SalePrice(k, buyer) /\ call.paid = d
    BY DEF BuySubAccount
  <2>2. calls'[s] = call /\ \A x \in Slots \ {s} : calls'[x] = calls[x]
    BY <2>1, CallStarted
  <2>3. DealOf(calls'[s]) = [name |-> k, buyer |-> buyer, price |-> term.price, paid |-> d]
    BY <1>3, <2>1, <2>2 DEF DealOf
  <2>4. \A x \in Slots \ {s} : DealOf(calls'[x]) = DealOf(calls[x])
    BY <2>2
  <2> QED  BY <2>3, <2>4 DEF Deals
<1>7. UNCHANGED OpenTerms
  <2>1. CASE OfferedTo(k, buyer)
    <3>1. /\ accepted_offers' = [accepted_offers EXCEPT ![k].settling = TRUE]
          /\ accepted_offers[k] # None /\ UNCHANGED listings
      BY <2>1 DEF BuySubAccount, LockSale, OfferedTo
    <3> QED  BY <3>1, LocksUnseen DEF TypeOK
  <2>2. CASE ~OfferedTo(k, buyer)
    <3>1. /\ listings' = [listings EXCEPT ![k].settling = TRUE]
          /\ listings[k] # None /\ UNCHANGED accepted_offers
      BY <1>1, <2>2 DEF BuySubAccount, LockSale, SaleTermsExist
    <3> QED  BY <3>1, LocksUnseen DEF TypeOK
  <2> QED  BY <2>1, <2>2
<1>8. UNCHANGED Holders /\ UNCHANGED <<pending_refunds, total_revenue>>
  BY HoldersUntouched DEF BuySubAccount, subVars, refundVars
<1>9. Sale!Deposit(s, k, buyer, term, d)
  BY <1>2, <1>3, <1>4, <1>5, <1>6, <1>7, <1>8 DEF Sale!Deposit, Holders, Deals, OpenTerms
<1> QED  BY <1>3, <1>9, CallerType DEF Sale!Next

LEMMA AbortRefunds ==
    ASSUME TypeOK, NEW s \in Slots, calls[s].kind = "buy", AbortSale(s), UNCHANGED sub_accounts
    PROVE  Sale!Refund(s)
<1>1. PICK k \in Keys : k = calls[s].key
  BY CallType DEF Kinds, Call
<1>2. UNCHANGED OpenTerms
  BY <1>1, LocksUnseen DEF AbortSale, ClearSettling, TypeOK
<1>3. Deals' = [Deals EXCEPT ![s] = Sale!NoDeal] /\ Deals[s] # Sale!NoDeal
  BY DealEnds, DealSeen DEF AbortSale
<1>4. pending_refunds' = Sale!Pays(pending_refunds, Deals[s].buyer, Deals[s].paid)
  BY DealSeen DEF AbortSale, AddPendingRefund, Credited, Sale!Pays
<1>5. UNCHANGED Holders /\ UNCHANGED total_revenue
  BY HoldersUntouched DEF AbortSale
<1> QED
  BY <1>2, <1>3, <1>4, <1>5 DEF Sale!Refund, Holders, Deals, OpenTerms

LEMMA SoldSettles ==
    ASSUME TypeOK, TypeOK', SalesInv, DepositsCover, NEW s \in Slots, OnSubAccountSold(s)
    PROVE  Sale!Settle(s)
<1> DEFINE share == total_revenue' - total_revenue
<1>1. /\ calls[s].kind = "buy" /\ calls[s].key \in Keys
      /\ calls[s].cost \in Nat /\ calls[s].paid \in Nat
  BY CallType DEF OnSubAccountSold, At, Kinds, Call
<1>2. PICK k \in Keys : k = calls[s].key
  BY <1>1
<1>3. sub_accounts[k] # None /\ k # None
  BY <1>2, RegistryAssumption DEF OnSubAccountSold, Accounts
<1>4. \E term \in TermsOf(k) :
         term.buyer \in {calls[s].who, None} /\ term.price = calls[s].cost
  <2>1. LockedTerms(calls[s])
    BY <1>1, <1>2, <1>3 DEF SalesInv, SaleInv, SellingSlots, InFlight
  <2>2. PICK who, cost : who = calls[s].who /\ cost = calls[s].cost
    OBVIOUS
  <2>3. \/ listings[k] # None /\ listings[k].price = cost
        \/ /\ accepted_offers[k] # None
           /\ accepted_offers[k].buyer = who
           /\ accepted_offers[k].price = cost
    BY <1>2, <2>1, <2>2 DEF LockedTerms
  <2>4. OpenTo(k, who, cost)
    BY <2>3, TermOpen
  <2> QED  BY <2>2, <2>4 DEF OpenTo
<1>5. PICK commission \in 0 .. calls[s].cost : commission = Commission(calls[s].cost, fee_config)
  BY <1>1, CommissionType DEF TypeOK
<1>6. share = commission
  <2>1. total_revenue' = total_revenue + commission
    BY <1>5 DEF OnSubAccountSold
  <2>2. \A a, b, c \in Nat : a = b + c => a - b = c
    OBVIOUS
  <2> QED  BY <1>1, <1>5, <2>1, <2>2 DEF TypeOK
<1>7. Monus(calls[s].paid, calls[s].cost) = calls[s].paid - calls[s].cost
  BY <1>1 DEF DepositsCover, Monus
<1>8. pending_refunds' =
        Sale!Pays(Sale!Pays(pending_refunds, Holders[k], calls[s].cost - share),
                  calls[s].who, calls[s].paid - calls[s].cost)
  <2>1. Holders[k] = sub_accounts[k].owner
    BY <1>3 DEF Holders, HolderOf
  <2>2. pending_refunds' =
          Credited(Credited(pending_refunds, sub_accounts[k].owner, calls[s].cost - commission),
                   calls[s].who, Monus(calls[s].paid, calls[s].cost))
    BY <1>2, <1>5 DEF OnSubAccountSold
  <2> HIDE DEF share
  <2> QED  BY <1>6, <1>7, <2>1, <2>2 DEF Credited, Sale!Pays
<1>9. Holders' = [Holders EXCEPT ![k] = calls[s].who] /\ Holders[k] # None
  BY <1>2, <1>3, HolderSold, HolderKnown DEF Holders
<1>10. OpenTerms' = [OpenTerms EXCEPT ![k] = {}]
  <2>1. RemoveSaleTerms(k)
    BY <1>2 DEF OnSubAccountSold
  <2>2. TermsOf(k)' = {} /\ \A x \in Keys \ {k} : TermsOf(x)' = TermsOf(x)
    BY <2>1 DEF RemoveSaleTerms, TermsOf, TypeOK
  <2> QED  BY <2>2 DEF OpenTerms
<1>11. Deals' = [Deals EXCEPT ![s] = Sale!NoDeal]
  BY DealEnds DEF OnSubAccountSold
<1>12. /\ Deals[s].name = k
       /\ Deals[s].buyer = calls[s].who
       /\ Deals[s].price = calls[s].cost
       /\ Deals[s].paid = calls[s].paid
  BY <1>1, <1>2, DealSeen
<1>13. share \in 0 .. calls[s].cost
  BY <1>5, <1>6
<1> HIDE DEF share
<1>14. OpenTerms[k] = TermsOf(k)
  BY DEF OpenTerms
<1> QED
  BY <1>3, <1>4, <1>8, <1>9, <1>10, <1>11, <1>12, <1>13, <1>14
  DEF Sale!Settle, Holders, Deals, OpenTerms, share

LEMMA SaleInSteps ==
    ASSUME TypeOK, TypeOK', SalesInv, DepositsCover, MarketplaceNext
    PROVE  Sale!Next
<1>1. ASSUME NEW caller \in Callers, NEW k \in Keys,
             \/ \E price \in Prices :
                   \/ ListSubAccount(caller, k, price)
                   \/ \E buyer \in Accounts : AcceptOffer(caller, k, buyer, price)
             \/ UnlistSubAccount(caller, k)
             \/ RevokeOffer(caller, k)
      PROVE  Sale!Next
  BY <1>1, TermsSet DEF Sale!Next
<1>2. ASSUME NEW s \in Slots, OnBuyBalancesChecked(s) \/ OnSaleFailed(s)
      PROVE  Sale!Next
  <2>1. /\ calls[s].kind = "buy" /\ calls[s].kind \in Kinds
        /\ UNCHANGED sub_accounts
    BY <1>2 DEF OnBuyBalancesChecked, OnSaleFailed, At, Kinds, subVars
  <2>2. CASE AbortSale(s)
    BY <2>1, <2>2, AbortRefunds DEF Sale!Next
  <2>3. CASE Advance(s, "dispatch", TRUE) /\ UNCHANGED <<saleVars, refundVars, total_revenue>>
    <3>1. SalesKept
      BY <2>1, <2>3, CallType, AdvancedCall
    <3> QED
      BY <2>1, <2>3, <3>1, HoldersUntouched, LedgerUntouched, NoDealTouched DEF refundVars
  <2> QED  BY <1>2, <2>2, <2>3 DEF OnBuyBalancesChecked, OnSaleFailed
<1>3. ASSUME NEW s \in Slots, OnSubAccountSold(s)
      PROVE  Sale!Next
  BY <1>3, SoldSettles DEF Sale!Next
<1> QED  BY <1>1, <1>2, <1>3, BuyDeposits DEF MarketplaceNext

\* Whatever overtakes the chain of a purchase, an export, a reclaim, the loss of its
\* name or another step of the marketplace, the parties are paid as the terms say in
\* the step that changes hands, or the buyer has the deposit back, and until then the
\* terms stand; as long as no name is rented anew while its last sale is under way.
THEOREM SalesAreAtomic == Spec /\ FreshTenancies => SaleIsAtomic
<1>1. Init => Sale!Init /\ DepositsCover
  BY DEF Init, Start, Sale!Init, Sale!NoDeal, HolderOf, TermsOf, DealOf, NoCall, DepositsCover
<1>2. TypeOK /\ DepositsCover /\ [Next]_vars => DepositsCover'
  BY DepositsStayCovered
<1>3. TypeOK /\ TypeOK' /\ SalesInv /\ DepositsCover /\ [Next]_vars /\ [FreshStep]_vars
      => [Sale!Next]_(Sale!sale)
  <2> SUFFICES ASSUME TypeOK, TypeOK', SalesInv, DepositsCover, [Next]_vars, [FreshStep]_vars
               PROVE  Sale!Next
    OBVIOUS
  <2>1. FreshStep
    BY DEF FreshStep, vars, subVars
  <2> QED
    BY <2>1, RentalNoDeal, ReclaimNoDeal, RefundsNoDeal, OthersNoDeal, SaleInSteps DEF Next
<1>4. FreshTenancies => [][FreshStep]_vars
  BY PTL DEF FreshTenancies, FreshStep
<1> QED
  BY <1>1, <1>2, <1>3, <1>4, TypeCorrect, SalesInvHolds, PTL DEF Spec, SaleIsAtomic, Sale!Spec
=============================================================================
