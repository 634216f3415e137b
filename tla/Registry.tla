------------------------------ MODULE Registry ------------------------------
(***************************************************************************)
(* The state of the registry contract, of the accounts it manages and of   *)
(* the promise chains it has in flight, with the helpers its handlers      *)
(* share (tla-registry/src/lib.rs, types.rs, mother.rs, business.rs).      *)
(*                                                                         *)
(* NEAR executes each receipt atomically, and a handler that returns Err   *)
(* or panics leaves no trace (its deposit goes back to the caller), so an  *)
(* action is one successful handler and an early return is a guard.  What  *)
(* is not atomic is a promise chain: a handler that returns a Promise      *)
(* goes on in later receipts, among which anything else may execute.  Such *)
(* a chain occupies one slot of "calls" until its last callback has run.   *)
(*                                                                         *)
(* Public keys are identified with the account that holds them.            *)
(***************************************************************************)
EXTENDS Lifecycle, Fees, FiniteSets, Sums

CONSTANTS
    Users,          \* accounts outside the registry's namespaces
    Tlas,           \* TLA account ids
    Keys,           \* full names "name.tla"; also the ids of those accounts
    TlaOf,          \* the TLA a key belongs to (see below)
    TlaLength,      \* number of characters of a TLA id
    NameLength,     \* number of characters of a key
    Tokens,         \* fungible-token contracts
    Nfts,           \* non-fungible-token contracts
    MAX_ALLOWLIST_SIZE, \* contracts on an allowlist
    MaxTokens,      \* bound on an account's balance of a token
    Slots,          \* bound: promise chains in flight at once
    FeeConfigs,     \* fee configurations the admins choose from
    InitialFees,    \* the one the registry starts with
    InitialAdmin,   \* the admin it is deployed with
    Deposits,       \* amounts a caller attaches
    Prices,         \* prices an owner asks
    MaxTime,        \* bound on the clock
    MaxBalance,     \* bound on the NEAR paid in to the registry
    InitialBalance, \* NEAR held at deployment above what code and fields take
    ENTRY_RESERVE,  \* NEAR held back for the storage of one entry
    AddKeyMayFail   \* whether AddKey may fail on an existing account

\* The handlers take the name and the TLA as two arguments and look both up.
\* The model assumes that no TLA is registered below another one, so that a
\* full name determines the TLA it is looked up with.
Accounts == Users \cup Keys
FeeConfigType ==
    [tla_allocation_fee : Nat, rent_tier_5 : Nat, rent_tier_8 : Nat,
     rent_tier_10 : Nat, rent_tier_12plus : Nat, sub_fee_per_account : Nat,
     account_creation_deposit : Nat, business_max_subs : Nat,
     retraction_notice : Nat, resale_commission_bps : Nat]

ASSUME RegistryAssumption ==
    /\ TlaOf \in [Keys -> Tlas]
    /\ TlaLength \in [Tlas -> Nat]
    /\ NameLength \in [Keys -> Nat]
    /\ IsFiniteSet(Slots)
    /\ IsFiniteSet(Users)
    /\ IsFiniteSet(Keys)
    /\ IsFiniteSet(Tlas)
    /\ IsFiniteSet(Tokens)
    /\ IsFiniteSet(Nfts)
    /\ Users \cap Keys = {}
    /\ FeeConfigs \subseteq FeeConfigType
    /\ InitialFees \in FeeConfigs
    /\ InitialAdmin \in Users
    /\ Deposits \subseteq Nat
    /\ Prices \subseteq Nat
    /\ MaxTime \in Nat
    /\ MaxBalance \in Nat
    /\ MaxTokens \in Nat
    /\ InitialBalance \in Nat
    /\ ENTRY_RESERVE \in Nat
    /\ MAX_ALLOWLIST_SIZE \in Nat
    /\ None \notin Accounts
    /\ None \notin Nat
    /\ AddKeyMayFail \in BOOLEAN

VARIABLES
    tlas,                      \* TlaEntry of each TLA, or None
    sub_accounts,              \* SubAccountEntry of each key, or None
    sub_account_count,
    listings,                  \* Listing of each key, or None
    accepted_offers,           \* AcceptedOffer of each key, or None
    mothers,                   \* the mother an account declared, or None
    mother_use_count,          \* 0 where the code has no map entry
    business_sub_count,        \* 0 where the code has no map entry
    business_sub_cap_override, \* a cap, or None
    admins,
    fee_config,
    paused,
    ft_allowlist,
    nft_allowlist,
    balance,                   \* NEAR of the registry above what code and fields take
    total_revenue,
    pending_refunds,           \* 0 where the code has no map entry
    total_pending_refunds,
    locker,                    \* the account of each key and its locker contract
    ft,                        \* what that account holds of each token
    calls,                     \* the promise chain in each slot
    now                        \* the block timestamp

tlaVars      == <<tlas>>
subVars      == <<sub_accounts, sub_account_count>>
saleVars     == <<listings, accepted_offers>>
motherVars   == <<mothers, mother_use_count>>
businessVars == <<business_sub_count, business_sub_cap_override>>
adminVars    == <<admins, fee_config, paused, ft_allowlist, nft_allowlist>>
refundVars   == <<pending_refunds, total_pending_refunds>>
moneyVars    == <<balance, total_revenue, refundVars>>
chainVars    == <<locker, ft>>

vars == <<tlaVars, subVars, saleVars, motherVars, businessVars, adminVars,
          moneyVars, chainVars, calls, now>>

-----------------------------------------------------------------------------
(* The records of the state.                                               *)

TlaEntry ==
    [tla_type : TlaTypes, status : TlaStatuses, licensee : Accounts \cup {None},
     premium_category : PremiumCategories, expires_at : Nat]

SubAccountEntry ==
    [owner : Accounts, main_wallet : Accounts, rented_at : Nat,
     expires_at : Nat, retraction_at : Nat \cup {None}]

Listing == [price : Nat, settling : BOOLEAN]
AcceptedOffer == [buyer : Accounts, price : Nat, settling : BOOLEAN]

\* The absent value is no entry.
ASSUME EntryAssumption ==
    None \notin TlaEntry \cup SubAccountEntry \cup Listing \cup AcceptedOffer

\* "Absent" stands for an account that does not exist.
SubStates == {"Held", "Exporting", "Exported"}
Locker == [state : SubStates \cup {"Absent"}, owner_key : Accounts \cup {None}]
NoLocker == [state |-> "Absent", owner_key |-> None]

(***************************************************************************)
(* A promise chain: which handler started it (kind), the receipt that is   *)
(* to execute next (stage) and the arguments its callbacks carry.  who is  *)
(* the payer of a rent, the buyer of a sale, the destination of a reclaim  *)
(* or a sweep, the caller of a claim; paid is the attached deposit or the  *)
(* amount claimed; cost the rent, the price or the tokens to be swept;     *)
(* sent the NEAR that left with the chain; left the tokens still to be     *)
(* asked for a balance, or the one that is swept; ok the results so far.   *)
(* Stages, those of a sweep last:                                          *)
(*   query     ft_balance_of at each token in left                         *)
(*   checked   the registry's callback on the balances                     *)
(*   dispatch  the receipt at the manager or the locker                    *)
(*   effect    the action receipt that one issues (CreateAccount, AddKey,  *)
(*             DeleteAccount), or the transfer of a claim                  *)
(*   resolve   the locker's callback on AddKey                             *)
(*   callback  the registry's callback                                     *)
(*   measure, register, pay                                                *)
(*             ft_balance_of, storage_deposit, ft_transfer at the token    *)
(*   measured, registered                                                  *)
(*             the locker's callbacks on the first two                     *)
(***************************************************************************)
Kinds == {"rent", "buy", "reclaim", "sweep", "export", "claim"}
Stages == {"query", "checked", "dispatch", "effect", "resolve", "callback",
           "measure", "measured", "register", "registered", "pay"}

Call == {c \in [kind : Kinds, stage : Stages, key : Keys \cup {None},
                who : Accounts \cup {None}, paid : Nat, cost : Nat, sent : Nat,
                left : SUBSET Tokens, ok : BOOLEAN] :
           /\ c.kind # "claim" => c.key \in Keys
           /\ c.kind # "export" => c.who \in Accounts}
NoCall == [kind |-> "none", stage |-> "none", key |-> None, who |-> None,
           paid |-> 0, cost |-> 0, sent |-> 0, left |-> {}, ok |-> FALSE]

\* Type invariant: every component of the state has the shape of its Rust type.
TypeOK ==
    /\ tlas \in [Tlas -> TlaEntry \cup {None}]
    /\ sub_accounts \in [Keys -> SubAccountEntry \cup {None}]
    /\ sub_account_count \in Nat
    /\ listings \in [Keys -> Listing \cup {None}]
    /\ accepted_offers \in [Keys -> AcceptedOffer \cup {None}]
    /\ mothers \in [Accounts -> Accounts \cup {None}]
    /\ mother_use_count \in [Accounts -> Nat]
    /\ business_sub_count \in [Tlas -> Nat]
    /\ business_sub_cap_override \in [Tlas -> Nat \cup {None}]
    /\ admins \in SUBSET Accounts
    /\ fee_config \in FeeConfigType
    /\ paused \in BOOLEAN
    /\ ft_allowlist \in SUBSET Tokens
    /\ nft_allowlist \in SUBSET Nfts
    /\ balance \in Nat
    /\ total_revenue \in Nat
    /\ pending_refunds \in [Accounts -> Nat]
    /\ total_pending_refunds \in Nat
    /\ locker \in [Keys -> Locker]
    /\ ft \in [Keys -> [Tokens -> Nat]]
    /\ calls \in [Slots -> Call \cup {NoCall}]
    /\ now \in Nat

-----------------------------------------------------------------------------
(* Helpers of the handlers.                                                *)

\* Mutant: a plain subtraction.
PlainMinus(a, b) == a - b

\* u128::saturating_sub.
Monus(a, b) == IF a >= b THEN a - b ELSE 0

\* What a map holds besides its absent value.
Entries(map, absent) == Cardinality({x \in DOMAIN map : map[x] # absent})

\* Every entry the registry stores takes part of its balance with it.
StorageReserve ==
    ENTRY_RESERVE * (Entries(tlas, None) + Entries(sub_accounts, None)
                     + Entries(listings, None) + Entries(accepted_offers, None)
                     + Entries(mothers, None) + Entries(mother_use_count, 0)
                     + Entries(business_sub_count, 0)
                     + Entries(business_sub_cap_override, None)
                     + Entries(pending_refunds, 0) + Cardinality(admins)
                     + Cardinality(ft_allowlist) + Cardinality(nft_allowlist))

AvailableBalance == Monus(balance, StorageReserve)

\* Accounts that can sign: an exported key is an account like any other.
Callers == Users \cup {k \in Keys : locker[k].state = "Exported"}

LifecycleOf(k) ==
    EffectiveSubLifecycle(sub_accounts[k], tlas[TlaOf[k]],
                          fee_config.retraction_notice, now)

Reclaimable(k) == LifecycleOf(k) = "Reclaimable"

RentOf(k) == CalculateRent(tlas[TlaOf[k]], NameLength[k], fee_config)

IsManaged(a) == a \in Keys /\ sub_accounts[a] # None

IsMother(k) == mother_use_count[k] > 0

IsBusiness(t) == tlas[t] # None /\ tlas[t].tla_type = "Business"

\* A licensee speaks for a business TLA.
MaySpeakFor(caller, tla) == tla.tla_type = "Business" => caller = tla.licensee

\* What the registry has booked, or will book when the chains in flight end.
Booked == total_revenue + total_pending_refunds
          + SumOf([s \in Slots |-> calls[s].paid])

\* The bound MaxBalance: what is paid in, and what is booked, stay below it.
HasRoomFor(amount) ==
    /\ balance + amount <= InitialBalance + MaxBalance
    /\ Booked + amount <= MaxBalance

Receive(amount) == HasRoomFor(amount) /\ balance' = balance + amount

Credited(refunds, account, amount) == [refunds EXCEPT ![account] = @ + amount]

\* Mutant: the total is forgotten.
AddPendingRefundOnly(account, amount) ==
    /\ pending_refunds' = Credited(pending_refunds, account, amount)
    /\ UNCHANGED total_pending_refunds

AddPendingRefund(account, amount) ==
    /\ pending_refunds' = Credited(pending_refunds, account, amount)
    /\ total_pending_refunds' = total_pending_refunds + amount

EffectiveBusinessCap(t) ==
    IF business_sub_cap_override[t] # None THEN business_sub_cap_override[t]
    ELSE fee_config.business_max_subs

BusinessCountBump(t) ==
    /\ business_sub_count[t] < EffectiveBusinessCap(t)
    /\ business_sub_count' = [business_sub_count EXCEPT ![t] = @ + 1]

\* Mutant: the place under the cap is not given back.
KeepBusinessCount(t) == UNCHANGED business_sub_count

BusinessCountDecrement(t) ==
    business_sub_count' =
        IF IsBusiness(t) THEN [business_sub_count EXCEPT ![t] = Monus(@, 1)]
        ELSE business_sub_count

\* Mutant: an offer survives.
RemoveListing(k) ==
    /\ listings' = [listings EXCEPT ![k] = None]
    /\ UNCHANGED accepted_offers

\* Both records of a sale go.
RemoveSaleTerms(k) ==
    /\ listings' = [listings EXCEPT ![k] = None]
    /\ accepted_offers' = [accepted_offers EXCEPT ![k] = None]

\* Mutant: the count of sub-accounts is forgotten.
RemoveSubAccountKeepsCount(k) ==
    /\ sub_accounts' = [sub_accounts EXCEPT ![k] = None]
    /\ RemoveSaleTerms(k)
    /\ UNCHANGED sub_account_count
    /\ BusinessCountDecrement(TlaOf[k])

\* The registry forgets k: reclaimed or exported.
RemoveSubAccount(k) ==
    /\ sub_accounts' = [sub_accounts EXCEPT ![k] = None]
    /\ RemoveSaleTerms(k)
    /\ sub_account_count' = Monus(sub_account_count, 1)
    /\ BusinessCountDecrement(TlaOf[k])

-----------------------------------------------------------------------------
(* Promise chains.                                                         *)

StartCall(s, call) ==
    /\ calls[s] = NoCall
    /\ calls' = [calls EXCEPT ![s] = call]

\* The next receipt of s is the one that stands for stage.
Advance(s, stage, ok) ==
    calls' = [calls EXCEPT ![s].stage = stage, ![s].ok = ok]

EndCall(s) == calls' = [calls EXCEPT ![s] = NoCall]

At(s, kind, stage) == calls[s].kind = kind /\ calls[s].stage = stage

\* ft_balance_of is asked of every allowlisted token, if there is one.
AfterSnapshot == IF ft_allowlist = {} THEN "dispatch" ELSE "query"

InFlight(k) == {s \in Slots : calls[s].key = k}

\* The FT contracts are external.  Each answers at a moment of its own; the
\* callback goes ahead only if all answered with a balance of zero.  A failed
\* or unreadable answer counts as a block, and so does an unparsable one: it
\* panics in on_balances_checked, which changes nothing either.
QueryBalance(s, t, answered) ==
    /\ calls[s].stage = "query"
    /\ t \in calls[s].left
    /\ calls' = [calls EXCEPT
          ![s].left = @ \ {t},
          ![s].ok = @ /\ answered /\ ft[calls[s].key][t] = 0,
          ![s].stage = IF calls[s].left = {t} THEN "checked" ELSE "query"]
    /\ UNCHANGED <<tlaVars, subVars, saleVars, motherVars, businessVars,
                   adminVars, moneyVars, chainVars, now>>

\* Somebody sends tokens to the account of k; its ledger is the token's own,
\* so this needs no account to exist.
DepositToken(k, t) ==
    /\ ft[k][t] < MaxTokens
    /\ ft' = [ft EXCEPT ![k][t] = @ + 1]
    /\ UNCHANGED <<tlaVars, subVars, saleVars, motherVars, businessVars,
                   adminVars, moneyVars, locker, calls, now>>

Tick ==
    /\ now < MaxTime
    /\ now' = now + 1
    /\ UNCHANGED <<tlaVars, subVars, saleVars, motherVars, businessVars,
                   adminVars, moneyVars, chainVars, calls>>
=============================================================================
