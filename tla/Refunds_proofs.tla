--------------------------- MODULE Refunds_proofs ---------------------------
(***************************************************************************)
(* Money.  The ledger of credits adds up: the handlers leave it alone,     *)
(* credit one account (AddPendingRefund), credit the seller and the buyer  *)
(* of a sale, or take all of what one account has.  And the books balance: *)
(* what a chain was paid covers what it costs and what has left with it,   *)
(* so what the registry gets and what it then owes go up and down as one,  *)
(* and it stays solvent for as long as creations pay for themselves.       *)
(***************************************************************************)
EXTENDS Properties, Types_proofs

-----------------------------------------------------------------------------
(* What a change of one value does to the sum of a function.               *)

LEMMA UnitsCounted ==
    ASSUME NEW f, NEW a, f[a] \in Nat
    PROVE  IsFiniteSet(Units(f, a)) /\ Cardinality(Units(f, a)) = f[a]
<1>1. IsFiniteSet(1 .. f[a]) /\ Cardinality(1 .. f[a]) = f[a]
  BY FS_Interval
<1>2. IsFiniteSet({a}) /\ Cardinality({a}) = 1
  BY FS_Singleton
<1>3. /\ IsFiniteSet(Units(f, a))
      /\ Cardinality(Units(f, a)) = 1 * f[a]
  BY <1>1, <1>2, FS_Product DEF Units
<1> QED  BY <1>3

\* The units of all the elements of E but a.
Rest(f, E) == UNION {Units(f, x) : x \in E}

LEMMA RestFinite ==
    ASSUME NEW E, IsFiniteSet(E), NEW f, \A x \in E : f[x] \in Nat
    PROVE  IsFiniteSet(Rest(f, E))
<1> DEFINE T == {Units(f, x) : x \in E}
           g == [x \in E |-> Units(f, x)]
<1>1. g \in Surjection(E, T)
  BY DEF Surjection
<1>2. IsFiniteSet(T)
  BY <1>1, FS_Surjection
<1>3. \A U \in T : IsFiniteSet(U)
  BY UnitsCounted
<1> QED  BY <1>2, <1>3, FS_UNION DEF Rest

LEMMA SumSplit ==
    ASSUME NEW D, IsFiniteSet(D), NEW f \in [D -> Nat], NEW a \in D
    PROVE  /\ Cardinality(Rest(f, D \ {a})) \in Nat
           /\ SumOf(f) = Cardinality(Rest(f, D \ {a})) + f[a]
<1> DEFINE R == Rest(f, D \ {a})
           U == Units(f, a)
<1>1. IsFiniteSet(D \ {a})
  BY FS_RemoveElement
<1>2. IsFiniteSet(R) /\ Cardinality(R) \in Nat
  BY <1>1, RestFinite, FS_CardinalityType
<1>3. SumOf(f) = Cardinality(R \cup U)
  <2>1. DOMAIN f = (D \ {a}) \cup {a}
    OBVIOUS
  <2>2. UNION {Units(f, x) : x \in DOMAIN f} = R \cup U
    BY <2>1 DEF Rest
  <2> QED  BY <2>2 DEF SumOf
<1>4. R \cap U = {}
  <2> SUFFICES ASSUME NEW u \in R, u \in U
               PROVE  FALSE
    OBVIOUS
  <2>1. PICK x \in D \ {a} : u \in Units(f, x)
    BY DEF Rest
  <2>2. u[1] = x /\ u[1] = a
    BY <2>1 DEF Units
  <2> QED  BY <2>1, <2>2
<1>5. IsFiniteSet(U) /\ Cardinality(U) = f[a]
  BY UnitsCounted
<1> HIDE DEF R, U
<1>6. Cardinality(R \cup U) = Cardinality(R) + Cardinality(U) - Cardinality(R \cap U)
  BY <1>2, <1>5, FS_Union
<1>7. Cardinality(R \cap U) = 0
  BY <1>4, FS_EmptySet
<1>8. SumOf(f) = Cardinality(R) + f[a]
  BY <1>2, <1>3, <1>5, <1>6, <1>7
<1> QED  BY <1>2, <1>8 DEF R

\* A value is a part of the sum, and the sum changes by as much as the value.
LEMMA SumUpdate ==
    ASSUME NEW D, IsFiniteSet(D), NEW f \in [D -> Nat], NEW a \in D, NEW n \in Nat
    PROVE  /\ SumOf(f) \in Nat
           /\ f[a] <= SumOf(f)
           /\ SumOf([f EXCEPT ![a] = n]) = SumOf(f) - f[a] + n
<1> DEFINE g == [f EXCEPT ![a] = n]
<1>1. g \in [D -> Nat] /\ g[a] = n
  OBVIOUS
<1>2. Rest(g, D \ {a}) = Rest(f, D \ {a})
  <2>1. ASSUME NEW x \in D \ {a}
        PROVE  Units(g, x) = Units(f, x)
    BY DEF Units
  <2> HIDE DEF g
  <2> QED  BY <2>1 DEF Rest
<1> HIDE DEF g
<1>3. /\ Cardinality(Rest(f, D \ {a})) \in Nat
      /\ SumOf(f) = Cardinality(Rest(f, D \ {a})) + f[a]
  BY SumSplit
<1>4. SumOf(g) = Cardinality(Rest(g, D \ {a})) + g[a]
  BY <1>1, SumSplit
<1>5. SumOf(g) = SumOf(f) - f[a] + n
  BY <1>1, <1>2, <1>3, <1>4
<1> QED  BY <1>3, <1>5 DEF g

\* A function that is zero everywhere sums up to zero.
LEMMA SumOfZeros ==
    ASSUME NEW D
    PROVE  SumOf([x \in D |-> 0]) = 0
<1> DEFINE f == [x \in D |-> 0]
<1>1. ASSUME NEW x \in D
      PROVE  Units(f, x) = {}
  BY DEF Units
<1>2. UNION {Units(f, x) : x \in DOMAIN f} = {}
  BY <1>1
<1> QED  BY <1>2, FS_EmptySet DEF SumOf

-----------------------------------------------------------------------------
(* The ledger.                                                             *)

LEMMA AccountsFinite == IsFiniteSet(Accounts)
BY FS_Union, RegistryAssumption DEF Accounts

LEMMA LedgerUntouched ==
    ASSUME RefundsAddUp, UNCHANGED refundVars
    PROVE  RefundsAddUp'
BY DEF RefundsAddUp, refundVars

LEMMA CreditedSum ==
    ASSUME NEW refunds \in [Accounts -> Nat], NEW account \in Accounts, NEW amount \in Nat
    PROVE  /\ Credited(refunds, account, amount) \in [Accounts -> Nat]
           /\ SumOf(Credited(refunds, account, amount)) = SumOf(refunds) + amount
<1>1. refunds[account] + amount \in Nat
  OBVIOUS
<1>2. SumOf([refunds EXCEPT ![account] = refunds[account] + amount])
        = SumOf(refunds) - refunds[account] + (refunds[account] + amount)
  BY <1>1, AccountsFinite, SumUpdate
<1>3. SumOf(refunds) \in Nat
  BY AccountsFinite, SumUpdate
<1>4. Credited(refunds, account, amount)
        = [refunds EXCEPT ![account] = refunds[account] + amount]
  BY DEF Credited
<1> QED  BY <1>1, <1>2, <1>3, <1>4

LEMMA CreditAddsUp ==
    ASSUME TypeOK, RefundsAddUp, NEW account \in Accounts, NEW amount \in Nat,
           AddPendingRefund(account, amount)
    PROVE  RefundsAddUp'
<1>1. SumOf(pending_refunds') = SumOf(pending_refunds) + amount
  BY CreditedSum DEF TypeOK, AddPendingRefund
<1>2. total_pending_refunds' = SumOf(pending_refunds')
  BY <1>1 DEF RefundsAddUp, AddPendingRefund
<1> QED  BY <1>2 DEF RefundsAddUp

LEMMA SoldAddsUp ==
    ASSUME TypeOK, RefundsAddUp, NEW s \in Slots, OnSubAccountSold(s)
    PROVE  RefundsAddUp'
<1> DEFINE c == calls[s]
           commission == Commission(c.cost, fee_config)
           seller == sub_accounts[c.key].owner
           proceeds == c.cost - commission
           excess == Monus(c.paid, c.cost)
<1>1. calls[s] \in Call /\ calls[s].kind = "buy"
  BY CallType DEF OnSubAccountSold, At, Kinds
<1>2. c.who \in Accounts /\ c.paid \in Nat /\ c.cost \in Nat /\ c.key \in Keys
  BY <1>1 DEF Call
<1>3. commission \in 0..c.cost
  BY <1>2, CommissionType DEF TypeOK
<1>4. proceeds \in Nat
  BY <1>2, <1>3
<1>5. excess \in Nat
  BY <1>2, MonusType
<1>6. seller \in Accounts
  BY <1>2 DEF TypeOK, OnSubAccountSold, SubAccountEntry
<1>7. /\ pending_refunds' =
           Credited(Credited(pending_refunds, seller, proceeds), c.who, excess)
      /\ total_pending_refunds' = total_pending_refunds + proceeds + excess
  BY DEF OnSubAccountSold
<1> HIDE DEF commission, seller, proceeds, excess
<1> DEFINE paidOut == Credited(pending_refunds, seller, proceeds)
<1>8. /\ paidOut \in [Accounts -> Nat]
      /\ SumOf(paidOut) = SumOf(pending_refunds) + proceeds
  BY <1>4, <1>6, CreditedSum DEF TypeOK
<1>9. pending_refunds' = Credited(paidOut, c.who, excess)
  BY <1>7
<1> HIDE DEF paidOut, c
<1>10. SumOf(Credited(paidOut, c.who, excess)) = SumOf(paidOut) + excess
  BY <1>2, <1>5, <1>8, CreditedSum
<1>11. SumOf(pending_refunds') = SumOf(pending_refunds) + proceeds + excess
  BY <1>4, <1>5, <1>8, <1>9, <1>10
<1> QED  BY <1>7, <1>11 DEF RefundsAddUp

LEMMA ClaimAddsUp ==
    ASSUME TypeOK, RefundsAddUp, NEW s \in Slots, NEW caller \in Callers,
           ClaimRefund(s, caller)
    PROVE  RefundsAddUp'
<1>1. caller \in Accounts
  BY CallerType
<1>2. pending_refunds[caller] \in Nat
  BY <1>1 DEF TypeOK
<1>3. /\ SumOf(pending_refunds) \in Nat
      /\ pending_refunds[caller] <= SumOf(pending_refunds)
      /\ SumOf([pending_refunds EXCEPT ![caller] = 0])
           = SumOf(pending_refunds) - pending_refunds[caller] + 0
  <2>1. pending_refunds \in [Accounts -> Nat]
    BY DEF TypeOK
  <2>2. 0 \in Nat
    OBVIOUS
  <2> QED  BY <1>1, <2>1, <2>2, AccountsFinite, SumUpdate
<1>4. Monus(total_pending_refunds, pending_refunds[caller])
        = SumOf(pending_refunds) - pending_refunds[caller]
  BY <1>2, <1>3 DEF RefundsAddUp, Monus
<1> QED  BY <1>2, <1>3, <1>4 DEF RefundsAddUp, ClaimRefund

LEMMA ChargeAddsUp ==
    ASSUME TypeOK, RefundsAddUp, NEW caller \in Callers, NEW attached \in Deposits,
           NEW price, ChargeCaller(caller, attached, price), price \in Nat
    PROVE  RefundsAddUp'
<1>1. Monus(attached, price) \in Nat /\ caller \in Accounts
  BY MonusType, CallerType, RegistryAssumption
<1>2. AddPendingRefund(caller, Monus(attached, price))
  BY DEF ChargeCaller
<1> QED  BY <1>1, <1>2, CreditAddsUp

-----------------------------------------------------------------------------
(* The ledger: the actions of each component.                              *)

LEMMA AddsUpRental ==
    ASSUME TypeOK, RefundsAddUp, RentalNext
    PROVE  RefundsAddUp'
<1>1. ASSUME NEW t \in Tlas
      PROVE  /\ BaseRent(TlaLength[t], fee_config) \in Nat
             /\ fee_config.tla_allocation_fee + BaseRent(TlaLength[t], fee_config) \in Nat
  BY BaseRentType, RegistryAssumption DEF TypeOK, FeeConfigType
<1>2. ASSUME NEW caller \in Callers, NEW t \in Tlas, NEW d \in Deposits,
             ActivateTla(caller, t, d)
      PROVE  RefundsAddUp'
  BY <1>1, <1>2, ChargeAddsUp DEF ActivateTla
<1>3. ASSUME NEW caller \in Callers, NEW t \in Tlas, NEW d \in Deposits,
             RenewTla(caller, t, d)
      PROVE  RefundsAddUp'
  BY <1>1, <1>3, ChargeAddsUp DEF RenewTla
<1>4. ASSUME NEW caller \in Callers, NEW k \in Keys, NEW d \in Deposits,
             RenewSubAccount(caller, k, d)
      PROVE  RefundsAddUp'
  <2>1. RentOf(k) \in Nat
    BY <1>4, RentType, RegistryAssumption DEF TypeOK, RentOf, RenewSubAccount
  <2> QED  BY <1>4, <2>1, ChargeAddsUp DEF RenewSubAccount
<1>5. ASSUME NEW s \in Slots, OnSubAccountCreated(s)
      PROVE  RefundsAddUp'
  <2>1. calls[s] \in Call /\ calls[s].kind = "rent"
    BY <1>5, CallType DEF OnSubAccountCreated, At, Kinds
  <2>2. calls[s].who \in Accounts /\ calls[s].paid \in Nat /\ calls[s].cost \in Nat
    BY <2>1 DEF Call
  <2>3. calls[s].cost + fee_config.account_creation_deposit \in Nat
    BY <2>2 DEF TypeOK, FeeConfigType
  <2>4. Monus(calls[s].paid, calls[s].cost + fee_config.account_creation_deposit) \in Nat
    BY <2>2, <2>3, MonusType
  <2> QED  BY <1>5, <2>2, <2>4, CreditAddsUp DEF OnSubAccountCreated
<1>6. ASSUME NEW s \in Slots, OnSubAccountCreationFailed(s)
      PROVE  RefundsAddUp'
  <2>1. calls[s].who \in Accounts /\ calls[s].paid \in Nat
    BY <1>6, CallType DEF OnSubAccountCreationFailed, At, Kinds, Call
  <2> QED  BY <1>6, <2>1, CreditAddsUp DEF OnSubAccountCreationFailed
<1>7. ASSUME NEW s \in Slots, NEW caller \in Callers, NEW k \in Keys, NEW w \in Accounts,
             NEW d \in Deposits, RentSubAccount(s, caller, k, w, d)
      PROVE  RefundsAddUp'
  BY <1>7, LedgerUntouched DEF RentSubAccount
<1>8. ASSUME NEW caller \in Callers, NEW k \in Keys, NEW w \in Accounts,
             SetMainWallet(caller, k, w)
      PROVE  RefundsAddUp'
  BY <1>8, LedgerUntouched DEF SetMainWallet, moneyVars
<1>9. ASSUME NEW s \in Slots, \/ CreateSubAccount(s)
                              \/ CreateAccountBatch(s)
                              \/ OnSubAccountCreatedPanics(s)
      PROVE  RefundsAddUp'
  BY <1>9, LedgerUntouched
  DEF CreateSubAccount, CreateAccountBatch, OnSubAccountCreatedPanics, moneyVars
<1> QED
  BY <1>2, <1>3, <1>4, <1>5, <1>6, <1>7, <1>8, <1>9 DEF RentalNext

LEMMA AddsUpMarketplace ==
    ASSUME TypeOK, RefundsAddUp, MarketplaceNext
    PROVE  RefundsAddUp'
<1>1. ASSUME NEW s \in Slots, calls[s].kind = "buy", AbortSale(s)
      PROVE  RefundsAddUp'
  <2>1. calls[s].who \in Accounts /\ calls[s].paid \in Nat
    BY <1>1, CallType DEF Kinds, Call
  <2> QED  BY <1>1, <2>1, CreditAddsUp DEF AbortSale
<1>2. ASSUME NEW s \in Slots, OnBuyBalancesChecked(s)
      PROVE  RefundsAddUp'
  BY <1>1, <1>2, LedgerUntouched DEF OnBuyBalancesChecked, At
<1>3. ASSUME NEW s \in Slots, OnSaleFailed(s)
      PROVE  RefundsAddUp'
  BY <1>1, <1>3 DEF OnSaleFailed, At
<1>4. ASSUME NEW s \in Slots, NEW buyer \in Callers, NEW k \in Keys, NEW d \in Deposits,
             BuySubAccount(s, buyer, k, d)
      PROVE  RefundsAddUp'
  BY <1>4, LedgerUntouched DEF BuySubAccount
<1>5. ASSUME NEW caller \in Callers, NEW k \in Keys,
             \/ UnlistSubAccount(caller, k)
             \/ RevokeOffer(caller, k)
             \/ \E price \in Prices : ListSubAccount(caller, k, price)
             \/ \E price \in Prices, buyer \in Accounts : AcceptOffer(caller, k, buyer, price)
      PROVE  RefundsAddUp'
  BY <1>5, LedgerUntouched
  DEF UnlistSubAccount, RevokeOffer, ListSubAccount, AcceptOffer, moneyVars
<1> QED  BY <1>2, <1>3, <1>4, <1>5, SoldAddsUp DEF MarketplaceNext

LEMMA AddsUpRefunds ==
    ASSUME TypeOK, RefundsAddUp, RefundsNext
    PROVE  RefundsAddUp'
<1>1. ASSUME NEW s \in Slots, TransferRefund(s)
      PROVE  RefundsAddUp'
  BY <1>1, LedgerUntouched DEF TransferRefund
<1>2. ASSUME NEW s \in Slots, OnClaimRefundSettled(s)
      PROVE  RefundsAddUp'
  <2>1. calls[s].who \in Accounts /\ calls[s].paid \in Nat
    BY <1>2, CallType DEF OnClaimRefundSettled, At, Kinds, Call
  <2> QED  BY <1>2, <2>1, CreditAddsUp, LedgerUntouched DEF OnClaimRefundSettled
<1>3. ASSUME NEW caller \in Callers, NEW amount \in Deposits, NEW recipient \in Accounts,
             Withdraw(caller, amount, recipient)
      PROVE  RefundsAddUp'
  <2>1. amount \in Nat /\ recipient \in Accounts
    BY RegistryAssumption DEF Accounts
  <2> QED  BY <1>3, <2>1, CreditAddsUp DEF Withdraw
<1> QED  BY <1>1, <1>2, <1>3, ClaimAddsUp DEF RefundsNext

\* The other components neither credit nor claim.
LEMMA AddsUpOthers ==
    ASSUME RefundsAddUp,
           \/ MotherNext \/ BusinessNext \/ LockerNext \/ SweepNext \/ ReclaimNext
           \/ AdminNext \/ EnvironmentNext
    PROVE  RefundsAddUp'
<1>1. CASE MotherNext \/ BusinessNext \/ LockerNext \/ SweepNext \/ ReclaimNext
  <2>1. UNCHANGED moneyVars
    BY <1>1 DEF MotherNext, SetMother, AdminClearMother,
       BusinessNext, ScheduleRetraction, CancelRetraction, SetBusinessSubCap,
       LockerNext, TransferOwnership, FinalizeDelete, DeleteAccount, Export,
       AddFullAccessKey, OnExportResolved,
       SweepNext, ReclaimSweepFt, SweepFt, MeasureBalance, AfterBalanceQuery,
       DepositStorage, AfterStorageDeposit, TransferTokens,
       ReclaimNext, ReclaimFinalize, ExportSubAccount, OnBalancesChecked,
       OnReclaimFinalized, OnExportSettled
  <2> QED  BY <2>1, LedgerUntouched DEF moneyVars
<1>2. CASE AdminNext \/ EnvironmentNext
  <2>1. UNCHANGED moneyVars
    BY <1>2 DEF AdminNext, RegisterTla, ActivateOpenTla, SuspendTla, UnsuspendTla,
       AddAdmin, RemoveAdmin, SetAdmins, UpdateFeeConfig, SetPaused,
       AddFtAllowlist, RemoveFtAllowlist, AddNftAllowlist, RemoveNftAllowlist,
       EnvironmentNext, QueryNext, QueryBalance, DepositToken, Tick
  <2> QED  BY <2>1, LedgerUntouched DEF moneyVars
<1> QED  BY <1>1, <1>2

LEMMA AddsUpNext ==
    ASSUME TypeOK, RefundsAddUp, [Next]_vars
    PROVE  RefundsAddUp'
<1>1. CASE UNCHANGED vars
  BY <1>1, LedgerUntouched DEF vars, moneyVars
<1> QED
  BY <1>1, AddsUpRental, AddsUpMarketplace, AddsUpRefunds, AddsUpOthers DEF Next

\* Whatever is rented, sold, refused, withdrawn or claimed, for any number of
\* accounts and of chains in flight, the total that withdraw sets aside is the sum
\* of what the accounts can claim.
THEOREM LedgerAddsUp == Spec => []RefundsAddUp
<1>1. Init => RefundsAddUp
  BY SumOfZeros DEF Init, Start, RefundsAddUp
<1>2. TypeOK /\ RefundsAddUp /\ [Next]_vars => RefundsAddUp'
  BY AddsUpNext
<1> QED  BY <1>1, <1>2, TypeCorrect, PTL DEF Spec

-----------------------------------------------------------------------------
(* The books balance.  Of a chain, only what it was paid, what it costs    *)
(* and what has left with it matter.                                       *)

\* What was paid in covers what the chain costs and what leaves with it.
Covered(c) ==
    /\ c.kind = "rent" => c.paid >= c.cost + c.sent
    /\ c.kind = "buy" => c.paid >= c.cost /\ c.sent = 0
    /\ c.kind = "claim" =>
         c.sent = IF c.stage = "callback" /\ ~c.ok THEN 0 ELSE c.paid
    /\ c.kind \in {"reclaim", "export", "sweep"} => c.paid = 0 /\ c.sent = 0

ChainsCovered == \A s \in Slots : Covered(calls[s])

\* A step of a creation that the books do not survive; one that its deposit pays
\* for at least leaves the registry no worse off.
Leak ==
    \E s \in Slots : /\ BooksLeak(s)
                     /\ calls'[s] # calls[s]
                     /\ PaysForItself(s) => Surplus' >= Surplus

\* What a step leaves true.
Balanced == ChainsCovered' /\ (Leak \/ Surplus' = Surplus)

LEMMA OwedNow ==
    ASSUME NEW c \in Call \cup {NoCall}, Covered(c)
    PROVE  /\ Owed(c) \in Nat
           /\ c = NoCall => Owed(c) = 0
           /\ c.kind \in {"reclaim", "export", "sweep"} => Owed(c) = 0
           /\ c.kind = "buy" => Owed(c) = c.paid
           /\ c.kind = "rent" /\ ~(c.stage = "callback" /\ ~c.ok) => Owed(c) = c.paid - c.sent
           /\ c.kind = "claim" /\ ~(c.stage = "callback" /\ ~c.ok) => Owed(c) = 0
           /\ c.stage = "callback" /\ ~c.ok => Owed(c) = c.paid
<1>1. c.paid \in Nat /\ c.sent \in Nat /\ c.cost \in Nat
  BY DEF Call, NoCall
<1>2. c = NoCall \/ c.kind \in Kinds
  BY DEF Call
<1>3. CASE c = NoCall
  BY <1>3 DEF NoCall, Owed
<1>4. CASE c.kind \in Kinds
  BY <1>1, <1>4 DEF Kinds, Covered, Owed, NoCall
<1> QED  BY <1>2, <1>3, <1>4

\* One chain moves on: what is owed in all changes by what it owes.
LEMMA InFlightChange ==
    ASSUME TypeOK, TypeOK', ChainsCovered, NEW s \in Slots,
           \A d \in Slots \ {s} : calls'[d] = calls[d], Covered(calls'[s])
    PROVE  /\ ChainsCovered'
           /\ InFlightTotal \in Nat /\ InFlightTotal' \in Nat
           /\ InFlightTotal' = InFlightTotal - Owed(calls[s]) + Owed(calls'[s])
<1> DEFINE f == [x \in Slots |-> Owed(calls[x])]
           g == [x \in Slots |-> Owed(calls'[x])]
<1>1. ChainsCovered'
  BY DEF ChainsCovered
<1>2. f \in [Slots -> Nat] /\ g \in [Slots -> Nat]
  BY <1>1, OwedNow DEF ChainsCovered, TypeOK
<1>3. g = [f EXCEPT ![s] = Owed(calls'[s])]
  OBVIOUS
<1>4. InFlightTotal = SumOf(f) /\ InFlightTotal' = SumOf(g)
  BY DEF InFlightTotal
<1>5. f[s] = Owed(calls[s]) /\ Owed(calls'[s]) \in Nat
  BY <1>1, OwedNow DEF ChainsCovered, TypeOK
<1> HIDE DEF f, g
<1>6. IsFiniteSet(Slots)
  BY RegistryAssumption
<1>7. SumOf(f) \in Nat /\ SumOf(g) \in Nat
  BY <1>2, <1>6, SumUpdate
<1>8. SumOf([f EXCEPT ![s] = Owed(calls'[s])]) = SumOf(f) - f[s] + Owed(calls'[s])
  BY <1>2, <1>5, <1>6, SumUpdate
<1> QED  BY <1>1, <1>3, <1>4, <1>5, <1>7, <1>8

\* A step of one chain balances if the registry gets what the books gain.
LEMMA ChainBalances ==
    ASSUME TypeOK, TypeOK', ChainsCovered, NEW s \in Slots,
           \A d \in Slots \ {s} : calls'[d] = calls[d], Covered(calls'[s]),
           balance' - balance =
               (total_revenue' - total_revenue)
               + (total_pending_refunds' - total_pending_refunds)
               + (Owed(calls'[s]) - Owed(calls[s]))
    PROVE  Balanced
<1>1. /\ ChainsCovered'
      /\ InFlightTotal \in Nat /\ InFlightTotal' \in Nat
      /\ InFlightTotal' = InFlightTotal - Owed(calls[s]) + Owed(calls'[s])
  BY InFlightChange
<1>2. Owed(calls[s]) \in Nat /\ Owed(calls'[s]) \in Nat
  BY <1>1, OwedNow DEF ChainsCovered, TypeOK
<1>3. /\ balance \in Nat /\ total_revenue \in Nat /\ total_pending_refunds \in Nat
      /\ balance' \in Nat /\ total_revenue' \in Nat /\ total_pending_refunds' \in Nat
  BY DEF TypeOK
<1>4. /\ Surplus = balance - (total_revenue + total_pending_refunds + InFlightTotal)
      /\ Surplus' = balance' - (total_revenue' + total_pending_refunds' + InFlightTotal')
  BY DEF Surplus
<1>5. Surplus' = Surplus
  BY <1>1, <1>2, <1>3, <1>4
<1> QED  BY <1>1, <1>5 DEF Balanced

\* A step of a leaking chain.
LEMMA ChainLeaks ==
    ASSUME ChainsCovered, NEW s \in Slots, \A d \in Slots \ {s} : calls'[d] = calls[d],
           Covered(calls'[s]), calls'[s] # calls[s], BooksLeak(s),
           PaysForItself(s) => Surplus' >= Surplus
    PROVE  Balanced
BY DEF ChainsCovered, Balanced, Leak

LEMMA DifferencesAgree ==
    ASSUME NEW a \in Nat, NEW b \in Nat, NEW c \in Nat, NEW x \in Nat, NEW y \in Nat,
           NEW z \in Nat, NEW owed \in Nat, x - a = (y - b) + (z - c)
    PROVE  x - (y + z + owed) = a - (b + c + owed)
OBVIOUS

\* No chain moves.
LEMMA LedgerBalances ==
    ASSUME TypeOK, TypeOK', ChainsCovered, UNCHANGED calls,
           balance' - balance =
               (total_revenue' - total_revenue)
               + (total_pending_refunds' - total_pending_refunds)
    PROVE  Balanced
<1>1. ChainsCovered' /\ InFlightTotal' = InFlightTotal
  BY DEF ChainsCovered, InFlightTotal
<1>2. InFlightTotal \in Nat
  <2> DEFINE f == [x \in Slots |-> Owed(calls[x])]
  <2>1. f \in [Slots -> Nat]
    BY OwedNow DEF ChainsCovered, TypeOK
  <2> HIDE DEF f
  <2>2. CASE Slots = {}
    <3>1. f = [x \in Slots |-> 0]
      BY <2>1, <2>2
    <3>2. SumOf(f) = 0
      BY <3>1, SumOfZeros
    <3> QED  BY <3>2 DEF InFlightTotal, f
  <2>3. CASE Slots # {}
    BY <2>1, <2>3, SumUpdate, RegistryAssumption DEF InFlightTotal, f
  <2> QED  BY <2>2, <2>3
<1>3. /\ balance \in Nat /\ total_revenue \in Nat /\ total_pending_refunds \in Nat
      /\ balance' \in Nat /\ total_revenue' \in Nat /\ total_pending_refunds' \in Nat
  BY DEF TypeOK
<1>4. /\ Surplus = balance - (total_revenue + total_pending_refunds + InFlightTotal)
      /\ Surplus' = balance' - (total_revenue' + total_pending_refunds' + InFlightTotal')
  BY DEF Surplus
<1>5. PICK owed \in Nat : owed = InFlightTotal /\ owed = InFlightTotal'
  BY <1>1, <1>2
<1>6. PICK x \in Nat, y \in Nat, z \in Nat :
        x = balance' /\ y = total_revenue' /\ z = total_pending_refunds'
  BY <1>3
<1>7. PICK a \in Nat, b \in Nat, c \in Nat :
        a = balance /\ b = total_revenue /\ c = total_pending_refunds
  BY <1>3
<1>8. x - a = (y - b) + (z - c)
  BY <1>6, <1>7
<1>9. x - (y + z + owed) = a - (b + c + owed)
  BY <1>8, DifferencesAgree
<1>10. Surplus' = Surplus
  BY <1>4, <1>5, <1>6, <1>7, <1>9
<1> QED  BY <1>1, <1>10 DEF Balanced

\* A step that moves no money, and of chains only one whose duty is to pay nobody.
LEMMA IdleBalances ==
    ASSUME TypeOK, TypeOK', ChainsCovered, UNCHANGED moneyVars, NEW s \in Slots,
           \A d \in Slots \ {s} : calls'[d] = calls[d],
           Covered(calls'[s]), Owed(calls'[s]) = Owed(calls[s])
    PROVE  Balanced
<1>1. /\ balance' = balance /\ total_revenue' = total_revenue
      /\ total_pending_refunds' = total_pending_refunds
  BY DEF moneyVars, refundVars
<1>2. balance \in Nat /\ total_revenue \in Nat /\ total_pending_refunds \in Nat
  BY DEF TypeOK
<1>3. Owed(calls[s]) \in Nat
  BY OwedNow DEF ChainsCovered, TypeOK
<1> QED  BY <1>1, <1>2, <1>3, ChainBalances

LEMMA StillBalances ==
    ASSUME TypeOK, TypeOK', ChainsCovered, UNCHANGED moneyVars, UNCHANGED calls
    PROVE  Balanced
<1>1. /\ balance' = balance /\ total_revenue' = total_revenue
      /\ total_pending_refunds' = total_pending_refunds
  BY DEF moneyVars, refundVars
<1>2. balance \in Nat /\ total_revenue \in Nat /\ total_pending_refunds \in Nat
  BY DEF TypeOK
<1> QED  BY <1>1, <1>2, LedgerBalances

\* The chains that carry no money: a step of one of these.
LEMMA MoneylessBalances ==
    ASSUME TypeOK, TypeOK', ChainsCovered, UNCHANGED moneyVars, NEW s \in Slots,
           \A d \in Slots \ {s} : calls'[d] = calls[d],
           calls[s] = NoCall \/ calls[s].kind \in {"reclaim", "export", "sweep"},
           \/ calls'[s] = NoCall
           \/ /\ calls'[s].kind \in {"reclaim", "export", "sweep"}
              /\ calls'[s].paid = 0 /\ calls'[s].sent = 0
    PROVE  Balanced
<1>1. Covered(calls'[s])
  BY DEF Covered, NoCall
<1>2. Owed(calls'[s]) = 0 /\ Owed(calls[s]) = 0
  BY <1>1, OwedNow DEF ChainsCovered, TypeOK
<1> QED  BY <1>1, <1>2, IdleBalances

LEMMA MoneylessStarts ==
    ASSUME TypeOK, TypeOK', ChainsCovered, UNCHANGED moneyVars, NEW s \in Slots, NEW call,
           StartCall(s, call), call.kind \in {"reclaim", "export", "sweep"},
           call.paid = 0, call.sent = 0
    PROVE  Balanced
BY CallStarted, MoneylessBalances

LEMMA MoneylessAdvancesOrEnds ==
    ASSUME TypeOK, TypeOK', ChainsCovered, UNCHANGED moneyVars, NEW s \in Slots,
           calls[s].kind \in {"reclaim", "export", "sweep"},
           EndCall(s) \/ \E stage, ok : Advance(s, stage, ok)
    PROVE  Balanced
<1>1. CASE EndCall(s)
  BY <1>1, CallEnded, MoneylessBalances
<1>2. CASE \E stage, ok : Advance(s, stage, ok)
  <2>1. calls[s].kind \in Kinds /\ calls[s].paid = 0 /\ calls[s].sent = 0
    BY DEF Kinds, ChainsCovered, Covered
  <2>2. /\ \A d \in Slots \ {s} : calls'[d] = calls[d]
        /\ calls'[s].kind = calls[s].kind
        /\ calls'[s].paid = calls[s].paid /\ calls'[s].sent = calls[s].sent
    BY <1>2, <2>1, CallAdvanced
  <2> QED  BY <2>1, <2>2, MoneylessBalances
<1> QED  BY <1>1, <1>2

LEMMA ChargeBalances ==
    ASSUME TypeOK, TypeOK', ChainsCovered, UNCHANGED calls, NEW caller \in Callers,
           NEW attached \in Deposits, NEW price \in Nat, ChargeCaller(caller, attached, price)
    PROVE  Balanced
<1>1. attached \in Nat /\ attached >= price
  BY RegistryAssumption DEF ChargeCaller
<1>2. /\ balance' = balance + attached
      /\ total_revenue' = total_revenue + price
      /\ total_pending_refunds' = total_pending_refunds + (attached - price)
  BY <1>1 DEF ChargeCaller, Receive, AddPendingRefund, Monus
<1>3. balance \in Nat /\ total_revenue \in Nat /\ total_pending_refunds \in Nat
  BY DEF TypeOK
<1> QED  BY <1>1, <1>2, <1>3, LedgerBalances

\* A chain goes on with what it carries, having neither failed before nor now.
Failed(c) == c.stage = "callback" /\ ~c.ok

LEMMA CarryingBalances ==
    ASSUME TypeOK, TypeOK', ChainsCovered, UNCHANGED moneyVars, NEW s \in Slots,
           \A d \in Slots \ {s} : calls'[d] = calls[d],
           calls[s].kind \in Kinds, calls'[s].kind = calls[s].kind,
           calls'[s].paid = calls[s].paid, calls'[s].sent = calls[s].sent,
           calls[s].kind \in {"rent", "buy"} => calls'[s].cost = calls[s].cost,
           calls[s].kind \in {"rent", "claim"} => ~Failed(calls[s]) /\ ~Failed(calls'[s])
    PROVE  Balanced
<1>1. Covered(calls[s])
  BY DEF ChainsCovered
<1>2. Covered(calls'[s])
  BY <1>1 DEF Covered, Failed
<1>3. calls[s] \in Call \cup {NoCall} /\ calls'[s] \in Call \cup {NoCall}
  BY DEF TypeOK
<1>4. Owed(calls'[s]) = Owed(calls[s])
  BY <1>1, <1>2, <1>3, OwedNow DEF Kinds, Failed
<1> QED  BY <1>2, <1>4, IdleBalances

\* A chain ends, and what it owed is booked.
LEMMA EndBalances ==
    ASSUME TypeOK, TypeOK', ChainsCovered, NEW s \in Slots, EndCall(s), UNCHANGED balance,
           NEW kept \in Nat, total_revenue' = total_revenue + kept,
           NEW credit \in Nat, total_pending_refunds' = total_pending_refunds + credit,
           Owed(calls[s]) = kept + credit
    PROVE  Balanced
<1>1. (\A d \in Slots \ {s} : calls'[d] = calls[d]) /\ calls'[s] = NoCall
  BY CallEnded
<1>2. Covered(NoCall) /\ Owed(NoCall) = 0
  BY DEF Covered, NoCall, Owed
<1>3. balance \in Nat /\ total_revenue \in Nat /\ total_pending_refunds \in Nat
  BY DEF TypeOK
<1>4. balance' - balance = 0
  BY <1>3
<1>5. total_revenue' - total_revenue = kept
  BY <1>3
<1>6. total_pending_refunds' - total_pending_refunds = credit
  BY <1>3
<1>7. Owed(calls'[s]) - Owed(calls[s]) = 0 - (kept + credit)
  BY <1>1, <1>2
<1>8. 0 = kept + credit + (0 - (kept + credit))
  OBVIOUS
<1>9. balance' - balance =
        (total_revenue' - total_revenue)
        + (total_pending_refunds' - total_pending_refunds)
        + (Owed(calls'[s]) - Owed(calls[s]))
  BY <1>4, <1>5, <1>6, <1>7, <1>8
<1> QED  BY <1>1, <1>2, <1>9, ChainBalances

-----------------------------------------------------------------------------
(* The steps that move money.                                              *)

LEMMA RentBalances ==
    ASSUME TypeOK, TypeOK', ChainsCovered, NEW s \in Slots, NEW caller \in Callers,
           NEW k \in Keys, NEW w \in Accounts, NEW attached \in Deposits,
           RentSubAccount(s, caller, k, w, attached)
    PROVE  Balanced
<1> DEFINE deposit == fee_config.account_creation_deposit
           call == [kind |-> "rent", stage |-> "dispatch", key |-> k, who |-> caller,
                    paid |-> attached, cost |-> RentOf(k), sent |-> deposit,
                    left |-> {}, ok |-> TRUE]
<1>1. attached \in Nat /\ deposit \in Nat
  BY RegistryAssumption DEF TypeOK, FeeConfigType
<1>2. RentOf(k) \in Nat
  BY RentType, RegistryAssumption DEF TypeOK, RentOf, RentSubAccount
<1>3. /\ attached >= RentOf(k) + deposit
      /\ balance' = balance + attached - deposit
      /\ StartCall(s, call)
      /\ total_revenue' = total_revenue
      /\ total_pending_refunds' = total_pending_refunds
  BY DEF RentSubAccount, refundVars
<1>4. calls[s] = NoCall /\ calls'[s] = call /\ \A d \in Slots \ {s} : calls'[d] = calls[d]
  BY <1>3, CallStarted
<1>5. Covered(call)
  BY <1>1, <1>2, <1>3 DEF Covered
<1>6. Owed(call) = attached - deposit /\ Owed(NoCall) = 0
  BY DEF Owed, NoCall
<1> HIDE DEF deposit, call
<1>7. balance \in Nat /\ total_revenue \in Nat /\ total_pending_refunds \in Nat
  BY DEF TypeOK
<1>8. /\ balance' - balance = attached - deposit
      /\ total_revenue' - total_revenue = 0
      /\ total_pending_refunds' - total_pending_refunds = 0
  BY <1>1, <1>3, <1>7
<1>9. Owed(calls'[s]) - Owed(calls[s]) = attached - deposit
  BY <1>1, <1>4, <1>6
<1>10. attached - deposit = 0 + 0 + (attached - deposit)
  BY <1>1
<1>11. balance' - balance =
         (total_revenue' - total_revenue)
         + (total_pending_refunds' - total_pending_refunds)
         + (Owed(calls'[s]) - Owed(calls[s]))
  BY <1>8, <1>9, <1>10
<1> QED  BY <1>4, <1>5, <1>11, ChainBalances

\* What left with a chain comes back to it.
LEMMA ReturnBalances ==
    ASSUME TypeOK, TypeOK', ChainsCovered, NEW s \in Slots,
           UNCHANGED <<total_revenue, refundVars>>, balance' = balance + calls[s].sent,
           calls[s].kind \in {"rent", "claim"}, calls[s].stage # "callback",
           \A d \in Slots \ {s} : calls'[d] = calls[d],
           calls'[s].kind = calls[s].kind, calls'[s].paid = calls[s].paid,
           calls'[s].cost = calls[s].cost, calls'[s].sent = 0, Failed(calls'[s])
    PROVE  Balanced
<1>1. calls[s] \in Call
  BY CallType DEF Kinds
<1>2. Covered(calls[s])
  BY DEF ChainsCovered
<1>3. Covered(calls'[s])
  BY <1>1, <1>2 DEF Covered, Failed, Call
<1>4. Owed(calls[s]) = calls[s].paid - calls[s].sent /\ Owed(calls'[s]) = calls[s].paid
  <2>1. calls'[s].stage = "callback" /\ ~calls'[s].ok
    BY DEF Failed
  <2> QED  BY <2>1 DEF Owed
<1>5. PICK p \in Nat, q \in Nat : p = calls[s].paid /\ q = calls[s].sent
  BY <1>1 DEF Call
<1>6. balance \in Nat /\ total_revenue \in Nat /\ total_pending_refunds \in Nat
  BY DEF TypeOK
<1>7. /\ balance' - balance = q
      /\ total_revenue' - total_revenue = 0
      /\ total_pending_refunds' - total_pending_refunds = 0
  BY <1>5, <1>6 DEF refundVars
<1>8. Owed(calls'[s]) - Owed(calls[s]) = p - (p - q)
  BY <1>4, <1>5
<1>9. q = 0 + 0 + (p - (p - q))
  OBVIOUS
<1>10. balance' - balance =
         (total_revenue' - total_revenue)
         + (total_pending_refunds' - total_pending_refunds)
         + (Owed(calls'[s]) - Owed(calls[s]))
  BY <1>7, <1>8, <1>9
<1> QED  BY <1>3, <1>10, ChainBalances

LEMMA CreationBalances ==
    ASSUME TypeOK, TypeOK', ChainsCovered, NEW s \in Slots,
           CreateSubAccount(s) \/ CreateAccountBatch(s)
    PROVE  Balanced
<1>1. calls[s].kind = "rent" /\ calls[s].stage \in {"dispatch", "effect"}
  BY DEF CreateSubAccount, CreateAccountBatch, At
<1>2. calls[s] \in Call /\ calls[s].kind \in Kinds
  BY <1>1, CallType DEF Kinds
<1>3. Covered(calls[s])
  BY DEF ChainsCovered
<1>4. ASSUME UNCHANGED moneyVars, NEW stage \in {"effect", "callback"}, Advance(s, stage, TRUE)
      PROVE  Balanced
  <2>1. /\ \A d \in Slots \ {s} : calls'[d] = calls[d]
        /\ calls'[s].kind = calls[s].kind /\ calls'[s].paid = calls[s].paid
        /\ calls'[s].cost = calls[s].cost /\ calls'[s].sent = calls[s].sent
        /\ calls'[s].ok = TRUE
    BY <1>2, <1>4, CallAdvanced
  <2>2. ~Failed(calls[s]) /\ ~Failed(calls'[s])
    BY <1>1, <2>1 DEF Failed
  <2> QED  BY <1>2, <1>4, <2>1, <2>2, CarryingBalances
<1>5. CASE /\ CreateSubAccount(s)
           /\ calls' = [calls EXCEPT ![s].stage = "callback", ![s].ok = FALSE, ![s].sent = 0]
           /\ balance' = balance + calls[s].sent
  <2>1. /\ \A d \in Slots \ {s} : calls'[d] = calls[d]
        /\ calls'[s] = [calls[s] EXCEPT !.stage = "callback", !.ok = FALSE, !.sent = 0]
    BY <1>5 DEF TypeOK
  <2>2. /\ calls'[s].kind = calls[s].kind /\ calls'[s].paid = calls[s].paid
        /\ calls'[s].cost = calls[s].cost /\ calls'[s].sent = 0 /\ Failed(calls'[s])
    BY <1>2, <2>1 DEF Call, Failed
  <2>3. UNCHANGED <<total_revenue, refundVars>>
    BY <1>5 DEF CreateSubAccount
  <2> QED  BY <1>1, <1>5, <2>1, <2>2, <2>3, ReturnBalances
<1>6. CASE CreateAccountBatch(s) /\ Advance(s, "callback", FALSE)
  <2>1. /\ \A d \in Slots \ {s} : calls'[d] = calls[d]
        /\ calls'[s].kind = calls[s].kind /\ calls'[s].paid = calls[s].paid
        /\ calls'[s].cost = calls[s].cost /\ calls'[s].sent = calls[s].sent
        /\ calls'[s].stage = "callback" /\ calls'[s].ok = FALSE
    <3>1. Advance(s, "callback", FALSE)
      BY <1>6
    <3> QED  BY <1>2, <3>1 DEF TypeOK, Advance, Call
  <2>2. Covered(calls'[s])
    BY <1>1, <1>3, <2>1 DEF Covered
  <2>3. BatchFails(s) /\ calls'[s] # calls[s]
    BY <1>6, <2>1 DEF BatchFails, CreateAccountBatch, At
  <2> QED  BY <2>1, <2>2, <2>3, ChainLeaks DEF BooksLeak, PaysForItself
<1> QED  BY <1>4, <1>5, <1>6 DEF CreateSubAccount, CreateAccountBatch, moneyVars

\* A chain ends, and no more is booked than it owed.
LEMMA EndPays ==
    ASSUME TypeOK, TypeOK', ChainsCovered, NEW s \in Slots, EndCall(s), UNCHANGED balance,
           NEW kept \in Nat, total_revenue' = total_revenue + kept,
           NEW credit \in Nat, total_pending_refunds' = total_pending_refunds + credit,
           kept + credit <= Owed(calls[s])
    PROVE  Surplus' >= Surplus
<1>1. (\A d \in Slots \ {s} : calls'[d] = calls[d]) /\ calls'[s] = NoCall
  BY CallEnded
<1>2. Covered(NoCall) /\ Owed(NoCall) = 0
  BY DEF Covered, NoCall, Owed
<1>3. Covered(calls'[s]) /\ Owed(calls'[s]) = 0
  BY <1>1, <1>2
<1>4. /\ InFlightTotal \in Nat /\ InFlightTotal' \in Nat
      /\ InFlightTotal' = InFlightTotal - Owed(calls[s]) + Owed(calls'[s])
  BY <1>1, <1>3, InFlightChange
<1>5. Owed(calls[s]) \in Nat
  BY OwedNow DEF ChainsCovered, TypeOK
<1>6. balance \in Nat /\ total_revenue \in Nat /\ total_pending_refunds \in Nat
  BY DEF TypeOK
<1> QED  BY <1>3, <1>4, <1>5, <1>6 DEF Surplus

\* A creation ends in a way that the books do not survive.
LEMMA EndLeaks ==
    ASSUME TypeOK, TypeOK', ChainsCovered, NEW s \in Slots, At(s, "rent", "callback"),
           EndCall(s), BooksLeak(s), UNCHANGED balance,
           NEW kept \in Nat, total_revenue' = total_revenue + kept,
           NEW credit \in Nat, total_pending_refunds' = total_pending_refunds + credit,
           PaysForItself(s) => kept + credit <= Owed(calls[s])
    PROVE  Balanced
<1>1. (\A d \in Slots \ {s} : calls'[d] = calls[d]) /\ calls'[s] = NoCall
  BY CallEnded
<1>2. Covered(NoCall) /\ calls[s] # NoCall
  BY DEF Covered, NoCall, At
<1>3. PaysForItself(s) => Surplus' >= Surplus
  BY EndPays
<1> QED  BY <1>1, <1>2, <1>3, ChainLeaks

LEMMA CreatedBalances ==
    ASSUME TypeOK, TypeOK', ChainsCovered, NEW s \in Slots, OnSubAccountCreated(s)
    PROVE  Balanced
<1> DEFINE deposit == fee_config.account_creation_deposit
<1>1. /\ At(s, "rent", "callback") /\ calls[s].ok
      /\ EndCall(s)
  BY DEF OnSubAccountCreated
<1>2. calls[s] \in Call /\ calls[s].kind \in Kinds
  BY <1>1, CallType DEF Kinds, At
<1>3. PICK paid \in Nat, cost \in Nat, sent \in Nat :
        paid = calls[s].paid /\ cost = calls[s].cost /\ sent = calls[s].sent
  BY <1>2 DEF Call
<1>4. paid >= cost + sent /\ Owed(calls[s]) = paid - sent
  BY <1>1, <1>3 DEF ChainsCovered, Covered, Owed, At
<1>5. /\ total_revenue' = total_revenue + cost
      /\ total_pending_refunds' = total_pending_refunds + Monus(paid, cost + deposit)
      /\ UNCHANGED balance
  BY <1>3 DEF OnSubAccountCreated, AddPendingRefund
<1>6. deposit \in Nat
  BY DEF TypeOK, FeeConfigType
<1> HIDE DEF deposit
<1>7. Monus(paid, cost + deposit) \in Nat
  BY <1>6 DEF Monus
<1>8. CASE deposit # sent
  <2>1. BooksLeak(s)
    BY <1>1, <1>3, <1>8 DEF BooksLeak, CreationRepriced, deposit
  <2>2. ASSUME PaysForItself(s)
        PROVE  cost + Monus(paid, cost + deposit) <= Owed(calls[s])
    <3>1. calls'[s] = NoCall
      BY <1>1, CallEnded
    <3>2. deposit >= sent
      BY <1>1, <1>3, <2>2, <3>1 DEF PaysForItself, deposit
    <3> QED  BY <1>4, <1>6, <3>2 DEF Monus
  <2> QED  BY <1>1, <1>5, <1>7, <2>1, <2>2, EndLeaks
<1>9. CASE deposit = sent
  <2>1. Owed(calls[s]) = cost + Monus(paid, cost + deposit)
    BY <1>4, <1>6, <1>9 DEF Monus
  <2> QED  BY <1>1, <1>5, <1>7, <2>1, EndBalances
<1> QED  BY <1>8, <1>9

LEMMA PanicBalances ==
    ASSUME TypeOK, TypeOK', ChainsCovered, NEW s \in Slots, OnSubAccountCreatedPanics(s)
    PROVE  Balanced
<1>1. /\ At(s, "rent", "callback") /\ EndCall(s) /\ BooksLeak(s)
      /\ UNCHANGED moneyVars
  BY DEF OnSubAccountCreatedPanics, BooksLeak, CreationForgotten
<1>2. /\ UNCHANGED balance
      /\ total_revenue' = total_revenue + 0
      /\ total_pending_refunds' = total_pending_refunds + 0
  BY <1>1 DEF moneyVars, refundVars, TypeOK
<1>3. 0 + 0 <= Owed(calls[s])
  BY OwedNow DEF ChainsCovered, TypeOK
<1> QED  BY <1>1, <1>2, <1>3, EndLeaks

\* A chain ends and its payer gets everything back.
LEMMA RefundBalances ==
    ASSUME TypeOK, TypeOK', ChainsCovered, NEW s \in Slots, EndCall(s),
           UNCHANGED <<balance, total_revenue>>, AddPendingRefund(calls[s].who, calls[s].paid),
           calls[s].kind \in Kinds, Owed(calls[s]) = calls[s].paid
    PROVE  Balanced
<1>1. calls[s].paid \in Nat
  BY CallType DEF Call
<1>2. /\ total_revenue' = total_revenue + 0
      /\ total_pending_refunds' = total_pending_refunds + calls[s].paid
  BY DEF TypeOK, AddPendingRefund
<1>3. Owed(calls[s]) = 0 + calls[s].paid
  BY <1>1
<1> QED  BY <1>1, <1>2, <1>3, EndBalances

LEMMA BalancedRental ==
    ASSUME TypeOK, TypeOK', ChainsCovered, RentalNext
    PROVE  Balanced
<1>1. ASSUME NEW t \in Tlas
      PROVE  /\ BaseRent(TlaLength[t], fee_config) \in Nat
             /\ fee_config.tla_allocation_fee + BaseRent(TlaLength[t], fee_config) \in Nat
  BY BaseRentType, RegistryAssumption DEF TypeOK, FeeConfigType
<1>2. ASSUME NEW caller \in Callers, NEW t \in Tlas, NEW d \in Deposits,
             ActivateTla(caller, t, d) \/ RenewTla(caller, t, d)
      PROVE  Balanced
  BY <1>1, <1>2, ChargeBalances DEF ActivateTla, RenewTla
<1>3. ASSUME NEW caller \in Callers, NEW k \in Keys, NEW d \in Deposits,
             RenewSubAccount(caller, k, d)
      PROVE  Balanced
  <2>1. RentOf(k) \in Nat
    BY <1>3, RentType, RegistryAssumption DEF TypeOK, RentOf, RenewSubAccount
  <2> QED  BY <1>3, <2>1, ChargeBalances DEF RenewSubAccount
<1>4. ASSUME NEW caller \in Callers, NEW k \in Keys, NEW w \in Accounts,
             SetMainWallet(caller, k, w)
      PROVE  Balanced
  BY <1>4, StillBalances DEF SetMainWallet
<1>5. ASSUME NEW s \in Slots, OnSubAccountCreationFailed(s)
      PROVE  Balanced
  <2>1. Owed(calls[s]) = calls[s].paid
    BY <1>5 DEF OnSubAccountCreationFailed, At, Owed
  <2> QED  BY <1>5, <2>1, RefundBalances DEF OnSubAccountCreationFailed, At, Kinds
<1> QED
  BY <1>2, <1>3, <1>4, <1>5, RentBalances, CreationBalances, CreatedBalances, PanicBalances
  DEF RentalNext

LEMMA BoughtBalances ==
    ASSUME TypeOK, TypeOK', ChainsCovered, NEW s \in Slots, NEW buyer \in Callers,
           NEW k \in Keys, NEW deposit \in Deposits, BuySubAccount(s, buyer, k, deposit)
    PROVE  Balanced
<1> DEFINE call == [kind |-> "buy", stage |-> AfterSnapshot, key |-> k,
                    who |-> buyer, paid |-> deposit, cost |-> SalePrice(k, buyer),
                    sent |-> 0, left |-> ft_allowlist, ok |-> TRUE]
<1>1. deposit \in Nat
  BY RegistryAssumption
<1>2. /\ deposit >= SalePrice(k, buyer)
      /\ balance' = balance + deposit
      /\ StartCall(s, call)
      /\ total_revenue' = total_revenue
      /\ total_pending_refunds' = total_pending_refunds
  BY DEF BuySubAccount, Receive, refundVars
<1>3. calls[s] = NoCall /\ calls'[s] = call /\ \A d \in Slots \ {s} : calls'[d] = calls[d]
  BY <1>2, CallStarted
<1>4. Covered(call)
  BY <1>2 DEF Covered
<1>5. Owed(call) = deposit /\ Owed(NoCall) = 0
  BY <1>1 DEF Owed, NoCall
<1> HIDE DEF call
<1>6. balance \in Nat /\ total_revenue \in Nat /\ total_pending_refunds \in Nat
  BY DEF TypeOK
<1>7. /\ balance' - balance = deposit
      /\ total_revenue' - total_revenue = 0
      /\ total_pending_refunds' - total_pending_refunds = 0
  BY <1>1, <1>2, <1>6
<1>8. Owed(calls'[s]) - Owed(calls[s]) = deposit
  BY <1>1, <1>3, <1>5
<1>9. balance' - balance =
        (total_revenue' - total_revenue)
        + (total_pending_refunds' - total_pending_refunds)
        + (Owed(calls'[s]) - Owed(calls[s]))
  BY <1>1, <1>7, <1>8
<1> QED  BY <1>3, <1>4, <1>9, ChainBalances

LEMMA SoldBalances ==
    ASSUME TypeOK, TypeOK', ChainsCovered, NEW s \in Slots, OnSubAccountSold(s)
    PROVE  Balanced
<1>1. calls[s].kind = "buy" /\ EndCall(s) /\ UNCHANGED balance
  BY DEF OnSubAccountSold, At
<1>2. calls[s] \in Call
  BY <1>1, CallType DEF Kinds
<1>3. PICK paid \in Nat, cost \in Nat : paid = calls[s].paid /\ cost = calls[s].cost
  BY <1>2 DEF Call
<1>4. paid >= cost /\ calls[s].sent = 0
  BY <1>1, <1>3 DEF ChainsCovered, Covered
<1>5. PICK commission \in 0..cost : commission = Commission(cost, fee_config)
  BY CommissionType DEF TypeOK
<1>6. Monus(paid, cost) = paid - cost
  BY <1>4 DEF Monus
<1>7. /\ total_revenue' = total_revenue + commission
      /\ total_pending_refunds' = total_pending_refunds + (cost - commission) + (paid - cost)
  BY <1>3, <1>5, <1>6 DEF OnSubAccountSold
<1>8. PICK credit \in Nat : credit = (cost - commission) + (paid - cost)
  BY <1>4
<1>9. total_pending_refunds' = total_pending_refunds + credit
  BY <1>7, <1>8 DEF TypeOK
<1>10. Owed(calls[s]) = commission + credit
  <2>1. Owed(calls[s]) = paid
    BY <1>3, <1>4 DEF Owed
  <2>2. paid = commission + credit
    BY <1>8
  <2> QED  BY <2>1, <2>2
<1>11. commission \in Nat
  OBVIOUS
<1> QED  BY <1>1, <1>7, <1>9, <1>10, <1>11, EndBalances

LEMMA BalancedMarketplace ==
    ASSUME TypeOK, TypeOK', ChainsCovered, MarketplaceNext
    PROVE  Balanced
<1>1. ASSUME NEW s \in Slots, calls[s].kind = "buy"
      PROVE  Owed(calls[s]) = calls[s].paid
  BY <1>1, OwedNow DEF ChainsCovered, TypeOK
<1>2. ASSUME NEW s \in Slots, calls[s].kind = "buy", AbortSale(s), UNCHANGED balance
      PROVE  Balanced
  BY <1>1, <1>2, RefundBalances DEF AbortSale, Kinds
<1>3. ASSUME NEW s \in Slots, OnBuyBalancesChecked(s)
      PROVE  Balanced
  <2>1. calls[s].kind = "buy" /\ calls[s].kind \in Kinds
    BY <1>3 DEF OnBuyBalancesChecked, At, Kinds
  <2>2. CASE ~calls[s].ok
    BY <1>2, <1>3, <2>1, <2>2 DEF OnBuyBalancesChecked
  <2>3. CASE calls[s].ok
    <3>1. Advance(s, "dispatch", TRUE) /\ UNCHANGED moneyVars
      BY <1>3, <2>3 DEF OnBuyBalancesChecked, moneyVars
    <3> QED  BY <2>1, <3>1, CallAdvanced, CarryingBalances
  <2> QED  BY <2>2, <2>3
<1>4. ASSUME NEW s \in Slots, OnSaleFailed(s)
      PROVE  Balanced
  BY <1>2, <1>4 DEF OnSaleFailed, At
<1>5. ASSUME NEW caller \in Callers, NEW k \in Keys,
             \/ UnlistSubAccount(caller, k)
             \/ RevokeOffer(caller, k)
             \/ \E price \in Prices : ListSubAccount(caller, k, price)
             \/ \E price \in Prices, buyer \in Accounts : AcceptOffer(caller, k, buyer, price)
      PROVE  Balanced
  BY <1>5, StillBalances DEF UnlistSubAccount, RevokeOffer, ListSubAccount, AcceptOffer
<1> QED  BY <1>3, <1>4, <1>5, BoughtBalances, SoldBalances DEF MarketplaceNext

LEMMA ClaimBalances ==
    ASSUME TypeOK, TypeOK', RefundsAddUp, ChainsCovered, NEW s \in Slots,
           NEW caller \in Callers, ClaimRefund(s, caller)
    PROVE  Balanced
<1> DEFINE call == [kind |-> "claim", stage |-> "effect", key |-> None, who |-> caller,
                    paid |-> pending_refunds[caller], cost |-> 0,
                    sent |-> pending_refunds[caller], left |-> {}, ok |-> TRUE]
<1>1. caller \in Accounts /\ pending_refunds[caller] \in Nat
  BY CallerType DEF TypeOK
<1>2. PICK amount \in Nat : amount = pending_refunds[caller]
  BY <1>1
<1>3. amount <= total_pending_refunds
  <2>1. pending_refunds \in [Accounts -> Nat] /\ 0 \in Nat
    BY DEF TypeOK
  <2>2. pending_refunds[caller] <= SumOf(pending_refunds)
    BY <1>1, <2>1, AccountsFinite, SumUpdate
  <2> QED  BY <1>2, <2>2 DEF RefundsAddUp
<1>4. /\ balance' = balance - amount
      /\ StartCall(s, call)
      /\ total_revenue' = total_revenue
      /\ total_pending_refunds' = Monus(total_pending_refunds, amount)
  BY <1>2 DEF ClaimRefund
<1>5. calls[s] = NoCall /\ calls'[s] = call /\ \A d \in Slots \ {s} : calls'[d] = calls[d]
  BY <1>4, CallStarted
<1>6. Covered(call)
  BY DEF Covered
<1>7. Owed(call) = 0 /\ Owed(NoCall) = 0
  BY <1>1 DEF Owed, NoCall
<1> HIDE DEF call
<1>8. balance \in Nat /\ total_revenue \in Nat /\ total_pending_refunds \in Nat
  BY DEF TypeOK
<1>9. /\ balance' - balance = 0 - amount
      /\ total_revenue' - total_revenue = 0
      /\ total_pending_refunds' - total_pending_refunds = 0 - amount
  <2>1. total_pending_refunds' = total_pending_refunds - amount
    BY <1>3, <1>4, <1>8 DEF Monus
  <2> QED  BY <1>2, <1>4, <1>8, <2>1
<1>10. Owed(calls'[s]) - Owed(calls[s]) = 0
  BY <1>5, <1>7
<1>11. 0 - amount = 0 + (0 - amount) + 0
  OBVIOUS
<1>12. balance' - balance =
         (total_revenue' - total_revenue)
         + (total_pending_refunds' - total_pending_refunds)
         + (Owed(calls'[s]) - Owed(calls[s]))
  BY <1>9, <1>10, <1>11
<1> QED  BY <1>5, <1>6, <1>12, ChainBalances

LEMMA TransferBalances ==
    ASSUME TypeOK, TypeOK', ChainsCovered, NEW s \in Slots, TransferRefund(s)
    PROVE  Balanced
<1>1. calls[s].kind = "claim" /\ calls[s].stage = "effect" /\ calls[s].kind \in Kinds
  BY DEF TransferRefund, At, Kinds
<1>2. calls[s] \in Call
  BY <1>1, CallType
<1>3. PICK delivered \in BOOLEAN :
        /\ calls' = [calls EXCEPT ![s].stage = "callback", ![s].ok = delivered,
                                  ![s].sent = IF delivered THEN @ ELSE 0]
        /\ balance' = IF delivered THEN balance ELSE balance + calls[s].sent
  BY DEF TransferRefund
<1>4. UNCHANGED <<total_revenue, refundVars>>
  BY DEF TransferRefund
<1>5. /\ \A d \in Slots \ {s} : calls'[d] = calls[d]
      /\ calls'[s].kind = calls[s].kind /\ calls'[s].paid = calls[s].paid
      /\ calls'[s].cost = calls[s].cost
      /\ calls'[s].stage = "callback" /\ calls'[s].ok = delivered
      /\ calls'[s].sent = IF delivered THEN calls[s].sent ELSE 0
  BY <1>2, <1>3 DEF TypeOK, Call
<1>6. CASE delivered
  <2>1. UNCHANGED moneyVars
    BY <1>3, <1>4, <1>6 DEF moneyVars
  <2>2. ~Failed(calls[s]) /\ ~Failed(calls'[s])
    BY <1>1, <1>5, <1>6 DEF Failed
  <2> QED  BY <1>1, <1>5, <1>6, <2>1, <2>2, CarryingBalances
<1>7. CASE ~delivered
  <2>1. Failed(calls'[s])
    BY <1>5, <1>7 DEF Failed
  <2> QED  BY <1>1, <1>3, <1>4, <1>5, <1>7, <2>1, ReturnBalances
<1> QED  BY <1>6, <1>7

LEMMA SettledBalances ==
    ASSUME TypeOK, TypeOK', ChainsCovered, NEW s \in Slots, OnClaimRefundSettled(s)
    PROVE  Balanced
<1>1. /\ calls[s].kind = "claim" /\ calls[s].stage = "callback" /\ calls[s].kind \in Kinds
      /\ EndCall(s) /\ UNCHANGED <<balance, total_revenue>>
  BY DEF OnClaimRefundSettled, At, Kinds
<1>2. CASE ~calls[s].ok
  <2>1. Owed(calls[s]) = calls[s].paid
    BY <1>1, <1>2 DEF Owed
  <2> QED  BY <1>1, <1>2, <2>1, RefundBalances DEF OnClaimRefundSettled
<1>3. CASE calls[s].ok
  <2>1. Owed(calls[s]) = 0
    BY <1>1, <1>3, OwedNow DEF ChainsCovered, TypeOK
  <2>2. UNCHANGED moneyVars
    BY <1>1, <1>3 DEF OnClaimRefundSettled, moneyVars
  <2>3. (\A d \in Slots \ {s} : calls'[d] = calls[d]) /\ calls'[s] = NoCall
    BY <1>1, CallEnded
  <2>4. Covered(NoCall) /\ Owed(NoCall) = 0
    BY DEF Covered, NoCall, Owed
  <2> QED  BY <2>1, <2>2, <2>3, <2>4, IdleBalances
<1> QED  BY <1>2, <1>3

LEMMA WithdrawBalances ==
    ASSUME TypeOK, TypeOK', ChainsCovered, NEW caller \in Callers, NEW amount \in Deposits,
           NEW recipient \in Accounts, Withdraw(caller, amount, recipient)
    PROVE  Balanced
<1>1. amount \in Nat
  BY RegistryAssumption
<1>2. balance \in Nat /\ total_revenue \in Nat /\ total_pending_refunds \in Nat
  BY DEF TypeOK
<1>3. /\ balance' - balance = 0
      /\ total_revenue' - total_revenue = 0 - amount
      /\ total_pending_refunds' - total_pending_refunds = amount
  BY <1>1, <1>2 DEF Withdraw, AddPendingRefund
<1>4. balance' - balance =
        (total_revenue' - total_revenue)
        + (total_pending_refunds' - total_pending_refunds)
  BY <1>1, <1>3
<1> QED  BY <1>4, LedgerBalances DEF Withdraw

LEMMA BalancedRefunds ==
    ASSUME TypeOK, TypeOK', RefundsAddUp, ChainsCovered, RefundsNext
    PROVE  Balanced
BY ClaimBalances, TransferBalances, SettledBalances, WithdrawBalances DEF RefundsNext

-----------------------------------------------------------------------------
(* The steps that move none.                                               *)

LEMMA BalancedLocker ==
    ASSUME TypeOK, TypeOK', ChainsCovered, LockerNext
    PROVE  Balanced
<1>1. PICK s \in Slots : \/ TransferOwnership(s) \/ FinalizeDelete(s) \/ DeleteAccount(s)
                         \/ Export(s) \/ AddFullAccessKey(s) \/ OnExportResolved(s)
  BY DEF LockerNext
<1>2. UNCHANGED moneyVars
  BY <1>1 DEF TransferOwnership, FinalizeDelete, DeleteAccount, Export,
     AddFullAccessKey, OnExportResolved
<1>3. CASE TransferOwnership(s)
  <2>1. calls[s].kind = "buy" /\ calls[s].kind \in Kinds
    BY <1>3 DEF TransferOwnership, At, Kinds
  <2>2. Advance(s, "callback", Held(calls[s].key))
    BY <1>3 DEF TransferOwnership
  <2> QED  BY <1>2, <2>1, <2>2, CallAdvanced, CarryingBalances
<1>4. CASE \/ FinalizeDelete(s) \/ DeleteAccount(s)
           \/ Export(s) \/ AddFullAccessKey(s) \/ OnExportResolved(s)
  <2>1. calls[s].kind \in {"reclaim", "export"}
    BY <1>4 DEF FinalizeDelete, DeleteAccount, Export, AddFullAccessKey, OnExportResolved, At
  <2>2. \E stage, ok : Advance(s, stage, ok)
    BY <1>4 DEF FinalizeDelete, DeleteAccount, Export, AddFullAccessKey, OnExportResolved
  <2> QED  BY <1>2, <2>1, <2>2, MoneylessAdvancesOrEnds
<1> QED  BY <1>1, <1>3, <1>4

LEMMA BalancedReclaim ==
    ASSUME TypeOK, TypeOK', ChainsCovered, ReclaimNext
    PROVE  Balanced
<1>1. ASSUME NEW s \in Slots, NEW k \in Keys, ReclaimFinalize(s, k)
      PROVE  Balanced
  BY <1>1, MoneylessStarts DEF ReclaimFinalize
<1>2. ASSUME NEW s \in Slots, NEW caller \in Callers, NEW k \in Keys,
             ExportSubAccount(s, caller, k)
      PROVE  Balanced
  BY <1>2, MoneylessStarts DEF ExportSubAccount
<1>3. ASSUME NEW s \in Slots,
             OnBalancesChecked(s) \/ OnReclaimFinalized(s) \/ OnExportSettled(s)
      PROVE  Balanced
  <2>1. calls[s].kind \in {"reclaim", "export", "sweep"} /\ UNCHANGED moneyVars
    BY <1>3 DEF OnBalancesChecked, OnReclaimFinalized, OnExportSettled, At
  <2>2. EndCall(s) \/ \E stage, ok : Advance(s, stage, ok)
    BY <1>3 DEF OnBalancesChecked, OnReclaimFinalized, OnExportSettled
  <2> QED  BY <2>1, <2>2, MoneylessAdvancesOrEnds
<1> QED  BY <1>1, <1>2, <1>3 DEF ReclaimNext

LEMMA BalancedSweep ==
    ASSUME TypeOK, TypeOK', ChainsCovered, SweepNext
    PROVE  Balanced
<1>1. ASSUME NEW s \in Slots, NEW k \in Keys, NEW t \in Tokens, ReclaimSweepFt(s, k, t)
      PROVE  Balanced
  BY <1>1, MoneylessStarts DEF ReclaimSweepFt
<1>2. ASSUME NEW s \in Slots, NEW ok \in BOOLEAN,
             \/ SweepFt(s) \/ AfterBalanceQuery(s) \/ AfterStorageDeposit(s)
             \/ DepositStorage(s, ok) \/ TransferTokens(s, ok)
      PROVE  Balanced
  <2>1. calls[s].kind = "sweep" /\ UNCHANGED moneyVars
    BY <1>2 DEF SweepFt, AfterBalanceQuery, AfterStorageDeposit, DepositStorage,
       TransferTokens, At
  <2>2. EndCall(s) \/ \E stage, passed : Advance(s, stage, passed)
    BY <1>2 DEF SweepFt, AfterBalanceQuery, AfterStorageDeposit, DepositStorage,
       TransferTokens, ProceedIf
  <2> QED  BY <2>1, <2>2, MoneylessAdvancesOrEnds
<1>3. ASSUME NEW s \in Slots, NEW ok \in BOOLEAN, MeasureBalance(s, ok)
      PROVE  Balanced
  <2>1. calls[s].kind = "sweep" /\ UNCHANGED moneyVars
    BY <1>3 DEF MeasureBalance, At
  <2>2. calls[s] \in Call /\ calls[s].kind \in Kinds
    BY <2>1, CallType DEF Kinds
  <2>3. /\ \A d \in Slots \ {s} : calls'[d] = calls[d]
        /\ calls'[s].kind = calls[s].kind /\ calls'[s].paid = calls[s].paid
        /\ calls'[s].sent = calls[s].sent
    BY <1>3, <2>2 DEF MeasureBalance, TypeOK, Call
  <2> QED  BY <2>1, <2>2, <2>3, CarryingBalances
<1> QED  BY <1>1, <1>2, <1>3 DEF SweepNext

LEMMA BalancedOthers ==
    ASSUME TypeOK, TypeOK', ChainsCovered,
           MotherNext \/ BusinessNext \/ AdminNext \/ EnvironmentNext
    PROVE  Balanced
<1>1. ASSUME NEW s \in Slots, NEW t \in Tokens, NEW answered \in BOOLEAN,
             QueryBalance(s, t, answered)
      PROVE  Balanced
  <2>1. calls[s].stage = "query" /\ UNCHANGED moneyVars
    BY <1>1 DEF QueryBalance
  <2>2. calls[s] \in Call /\ calls[s].kind \in Kinds
    BY <2>1 DEF TypeOK, NoCall, Call
  <2>3. /\ \A d \in Slots \ {s} : calls'[d] = calls[d]
        /\ calls'[s].kind = calls[s].kind /\ calls'[s].paid = calls[s].paid
        /\ calls'[s].sent = calls[s].sent /\ calls'[s].cost = calls[s].cost
        /\ calls'[s].stage \in {"query", "checked"}
    BY <1>1, <2>2 DEF QueryBalance, TypeOK, Call
  <2>4. ~Failed(calls[s]) /\ ~Failed(calls'[s])
    BY <2>1, <2>3 DEF Failed
  <2> QED  BY <2>1, <2>2, <2>3, <2>4, CarryingBalances
<1>2. CASE MotherNext \/ BusinessNext
  <2>1. UNCHANGED moneyVars /\ UNCHANGED calls
    BY <1>2 DEF MotherNext, SetMother, AdminClearMother,
       BusinessNext, ScheduleRetraction, CancelRetraction, SetBusinessSubCap
  <2> QED  BY <2>1, StillBalances
<1>3. CASE AdminNext
  <2>1. UNCHANGED moneyVars /\ UNCHANGED calls
    BY <1>3 DEF AdminNext, RegisterTla, ActivateOpenTla, SuspendTla, UnsuspendTla,
       AddAdmin, RemoveAdmin, SetAdmins, UpdateFeeConfig, SetPaused,
       AddFtAllowlist, RemoveFtAllowlist, AddNftAllowlist, RemoveNftAllowlist
  <2> QED  BY <2>1, StillBalances
<1>4. CASE EnvironmentNext
  <2>1. ASSUME Tick \/ \E k \in Keys, t \in Tokens : DepositToken(k, t)
        PROVE  Balanced
    BY <2>1, StillBalances DEF Tick, DepositToken
  <2> QED  BY <1>1, <1>4, <2>1 DEF EnvironmentNext, QueryNext
<1> QED  BY <1>2, <1>3, <1>4

LEMMA BalancedNext ==
    ASSUME TypeOK, TypeOK', RefundsAddUp, ChainsCovered, [Next]_vars
    PROVE  Balanced
<1>1. CASE UNCHANGED vars
  BY <1>1, StillBalances DEF vars
<1> QED
  BY <1>1, BalancedRental, BalancedMarketplace, BalancedRefunds, BalancedLocker,
     BalancedReclaim, BalancedSweep, BalancedOthers DEF Next

LEMMA ChainsAreCovered == Spec => []ChainsCovered
<1>1. Init => ChainsCovered
  BY DEF Init, Start, ChainsCovered, Covered, NoCall
<1>2. TypeOK /\ TypeOK' /\ RefundsAddUp /\ ChainsCovered /\ [Next]_vars => ChainsCovered'
  BY BalancedNext DEF Balanced
<1> QED  BY <1>1, <1>2, TypeCorrect, LedgerAddsUp, PTL DEF Spec

\* Whatever is paid in, sent on, returned, sold or credited, what the registry holds
\* beyond what it owes changes at no step of no handler, but at the three ways in
\* which a creation's deposit is lost or charged anew.
THEOREM BooksAreBalanced == Spec => BooksBalance
<1>1. TypeOK /\ TypeOK' /\ RefundsAddUp /\ ChainsCovered /\ [Next]_vars
        => [(\E s \in Slots : BooksLeak(s) /\ calls'[s] # calls[s]) \/ Surplus' = Surplus]_vars
  BY BalancedNext DEF Balanced, Leak
<1> QED
  BY <1>1, TypeCorrect, LedgerAddsUp, ChainsAreCovered, PTL DEF Spec, BooksBalance

\* If every creation is paid for by the deposit that was sent with it, the registry
\* always holds what it owes: its revenue, the credits and what is in flight.
THEOREM SolventIfPaidFor == Spec /\ CreationsPaidFor => []Solvent
<1> DEFINE PaidFor == \A s \in Slots : PaysForItself(s)
           Books == Surplus \in Int /\ Solvent
<1>1. Init => Books
  <2> SUFFICES ASSUME Init
               PROVE  Books
    OBVIOUS
  <2>1. /\ balance = InitialBalance /\ InitialBalance \in Nat
        /\ total_revenue = 0 /\ total_pending_refunds = 0
    BY RegistryAssumption DEF Init, Start
  <2>2. InFlightTotal = 0
    <3>1. [s \in Slots |-> Owed(calls[s])] = [s \in Slots |-> 0]
      BY DEF Init, Start, Owed, NoCall
    <3> QED  BY <3>1, SumOfZeros DEF InFlightTotal
  <2> QED  BY <2>1, <2>2 DEF Surplus, Solvent
<1>2. TypeOK' /\ ChainsCovered' => Surplus' \in Int
  <2> SUFFICES ASSUME TypeOK', ChainsCovered'
               PROVE  Surplus' \in Int
    OBVIOUS
  <2>1. InFlightTotal' \in Nat
    <3> DEFINE g == [s \in Slots |-> Owed(calls'[s])]
    <3>1. g \in [Slots -> Nat]
      BY OwedNow DEF ChainsCovered, TypeOK
    <3>2. InFlightTotal' = SumOf(g)
      BY DEF InFlightTotal
    <3> HIDE DEF g
    <3>3. ASSUME NEW s \in Slots
          PROVE  SumOf(g) \in Nat
      BY <3>1, SumUpdate, RegistryAssumption
    <3>4. CASE Slots = {}
      <4>1. g = [s \in {} |-> 0]
        BY <3>1, <3>4
      <4>2. SumOf([s \in {} |-> 0]) = 0
        BY SumOfZeros
      <4> QED  BY <3>2, <4>1, <4>2
    <3> QED  BY <3>2, <3>3, <3>4
  <2> QED  BY <2>1 DEF Surplus, TypeOK
<1>3. TypeOK /\ TypeOK' /\ RefundsAddUp /\ ChainsCovered /\ Books /\ [Next]_vars /\ [PaidFor]_vars
        => Books'
  <2> SUFFICES ASSUME TypeOK, TypeOK', RefundsAddUp, ChainsCovered, Books, [Next]_vars,
                      [PaidFor]_vars
               PROVE  Books'
    OBVIOUS
  <2>1. Surplus' \in Int
    BY <1>2, BalancedNext DEF Balanced
  <2>2. CASE Surplus' = Surplus
    BY <2>1, <2>2 DEF Solvent
  <2>3. CASE Leak
    <3>1. PICK s \in Slots : calls'[s] # calls[s] /\ (PaysForItself(s) => Surplus' >= Surplus)
      BY <2>3 DEF Leak
    <3>2. PaysForItself(s)
      BY <3>1 DEF vars, chainVars
    <3> QED  BY <2>1, <3>1, <3>2 DEF Solvent
  <2> QED  BY <2>2, <2>3, BalancedNext DEF Balanced
<1> QED
  BY <1>1, <1>3, TypeCorrect, LedgerAddsUp, ChainsAreCovered, PTL
  DEF Spec, CreationsPaidFor
=============================================================================
