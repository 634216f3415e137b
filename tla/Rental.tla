------------------------------- MODULE Rental -------------------------------
(***************************************************************************)
(* Activation, rent and renewal (tla-registry/src/rental.rs, callbacks.rs) *)
(* with the creation of the account by the TLA's manager contract          *)
(* (tla-manager/src/lib.rs).                                               *)
(***************************************************************************)
EXTENDS Registry, Mother

\* What activating or renewing costs is kept, the rest is credited back.
ChargeCaller(caller, attached, price) ==
    /\ attached >= price
    /\ Receive(attached)
    /\ total_revenue' = total_revenue + price
    /\ AddPendingRefund(caller, Monus(attached, price))

ActivateTla(caller, t, attached) ==
    /\ ~paused
    /\ tlas[t] # None
    /\ tlas[t].status = "Registered"
    /\ tlas[t].tla_type = "Business"
    /\ caller = tlas[t].licensee
    /\ ChargeCaller(caller, attached,
                    fee_config.tla_allocation_fee + BaseRent(TlaLength[t], fee_config))
    /\ tlas' = [tlas EXCEPT ![t].status = "Active", ![t].expires_at = now + ONE_YEAR]
    /\ UNCHANGED <<subVars, saleVars, motherVars, businessVars, adminVars,
                   chainVars, calls, now>>

NewTenancy(caller, main_wallet) ==
    [owner |-> caller, main_wallet |-> main_wallet, rented_at |-> now,
     expires_at |-> now + ONE_YEAR, retraction_at |-> None]

\* rent_sub_account up to its cross-contract call: the entry is in the map
\* before the account exists, and the creation deposit leaves with the call.
RentSubAccount(s, caller, k, main_wallet, attached) ==
    LET t == TlaOf[k]
        deposit == fee_config.account_creation_deposit
    IN  /\ ~paused
        /\ sub_accounts[k] = None
        /\ main_wallet # k
        /\ tlas[t] # None
        /\ IsAcceptingRentals(tlas[t], now)
        /\ MaySpeakFor(caller, tlas[t])
        /\ attached >= RentOf(k) + deposit
        /\ HasRoomFor(attached)
        /\ balance' = balance + attached - deposit
        /\ EnsureMotherDefault(caller)
        /\ IF IsBusiness(t) THEN BusinessCountBump(t) ELSE UNCHANGED business_sub_count
        /\ sub_accounts' = [sub_accounts EXCEPT ![k] = NewTenancy(caller, main_wallet)]
        /\ StartCall(s, [kind |-> "rent", stage |-> "dispatch", key |-> k,
                         who |-> caller, paid |-> attached, cost |-> RentOf(k),
                         sent |-> deposit, left |-> {}, ok |-> TRUE])
        /\ UNCHANGED <<tlaVars, sub_account_count, saleVars,
                       business_sub_cap_override, adminVars, total_revenue,
                       refundVars, chainVars, now>>

\* TlaManager::create_sub_account.  It fails if the TLA account has no manager
\* or one of another registry; the deposit then comes back to the registry.
CreateSubAccount(s) ==
    /\ At(s, "rent", "dispatch")
    /\ \/ Advance(s, "effect", TRUE) /\ UNCHANGED balance
       \/ /\ calls' = [calls EXCEPT ![s].stage = "callback", ![s].ok = FALSE,
                                    ![s].sent = 0]
          /\ balance' = balance + calls[s].sent
    /\ UNCHANGED <<tlaVars, subVars, saleVars, motherVars, businessVars,
                   adminVars, total_revenue, refundVars, chainVars, now>>

\* Receipts an account issues to itself execute in the next blocks, in order.
\* A name can be rented anew only after the callback of a deletion reached the
\* registry, and created only after two more receipts: by then those that the
\* deleted account had still under way are done.
OwnReceiptsDone(k) ==
    \A s \in InFlight(k) :
        calls[s].kind # "rent" => calls[s].stage \notin {"effect", "resolve"}

\* The batch CreateAccount, Transfer, DeployContract, FunctionCall("new") at
\* the new account.  It is all or nothing.  It fails if the account exists, or
\* if the deposit does not pay for the locker's storage; the deposit then goes
\* back to its predecessor, the manager, and never reaches the registry.
CreateAccountBatch(s) ==
    LET k == calls[s].key IN
    /\ At(s, "rent", "effect")
    /\ OwnReceiptsDone(k)
    /\ \/ /\ locker[k] = NoLocker
          /\ locker' = [locker EXCEPT ![k] = [state |-> "Held", owner_key |-> calls[s].who]]
          /\ Advance(s, "callback", TRUE)
       \/ Advance(s, "callback", FALSE) /\ UNCHANGED locker
    /\ UNCHANGED <<tlaVars, subVars, saleVars, motherVars, businessVars,
                   adminVars, moneyVars, ft, now>>

\* A created sub-account is charged with the rent it was quoted and with the
\* creation deposit of the configuration in force now.
OnSubAccountCreated(s) ==
    LET c == calls[s]
        charged == c.cost + fee_config.account_creation_deposit
    IN  /\ At(s, "rent", "callback")
        /\ c.ok
        /\ sub_accounts[c.key] # None
        /\ sub_account_count' = sub_account_count + 1
        /\ total_revenue' = total_revenue + c.cost
        /\ AddPendingRefund(c.who, Monus(c.paid, charged))
        /\ EndCall(s)
        /\ UNCHANGED <<tlaVars, sub_accounts, saleVars, motherVars, businessVars,
                       adminVars, balance, chainVars, now>>

\* The callback panics when the entry is gone: all it did is rolled back.
OnSubAccountCreatedPanics(s) ==
    /\ At(s, "rent", "callback")
    /\ calls[s].ok
    /\ sub_accounts[calls[s].key] = None
    /\ EndCall(s)
    /\ UNCHANGED <<tlaVars, subVars, saleVars, motherVars, businessVars,
                   adminVars, moneyVars, chainVars, now>>

\* Mutant: a deposit is taken for spent though the creation failed.
OnSubAccountCreationFailedKeepsDeposit(s) ==
    LET c == calls[s] IN
    /\ At(s, "rent", "callback")
    /\ ~c.ok
    /\ sub_accounts' = [sub_accounts EXCEPT ![c.key] = None]
    /\ BusinessCountDecrement(TlaOf[c.key])
    /\ AddPendingRefund(c.who, Monus(c.paid, c.sent))
    /\ EndCall(s)
    /\ UNCHANGED <<tlaVars, sub_account_count, saleVars, motherVars,
                   business_sub_cap_override, adminVars, balance, total_revenue,
                   chainVars, now>>

\* The creation failed: whatever entry the key has is dropped and the payer
\* is credited with the whole deposit.
OnSubAccountCreationFailed(s) ==
    LET c == calls[s] IN
    /\ At(s, "rent", "callback")
    /\ ~c.ok
    /\ sub_accounts' = [sub_accounts EXCEPT ![c.key] = None]
    /\ BusinessCountDecrement(TlaOf[c.key])
    /\ AddPendingRefund(c.who, c.paid)
    /\ EndCall(s)
    /\ UNCHANGED <<tlaVars, sub_account_count, saleVars, motherVars,
                   business_sub_cap_override, adminVars, balance, total_revenue,
                   chainVars, now>>

\* A renewal starts from the expiry, or from now if that has passed.
Renewed(expires_at) == (IF now > expires_at THEN now ELSE expires_at) + ONE_YEAR

\* Renewing past the end of the model's clock makes no difference: the bound
\* expires_at <= MaxTime keeps the expiries finite.
RenewTla(caller, t, attached) ==
    /\ ~paused
    /\ tlas[t] # None
    /\ tlas[t].status = "Active"
    /\ ~PastGrace(tlas[t].expires_at, now)
    /\ tlas[t].expires_at <= MaxTime
    /\ MaySpeakFor(caller, tlas[t])
    /\ ~IsBusiness(t) => caller \in admins
    /\ ChargeCaller(caller, attached, BaseRent(TlaLength[t], fee_config))
    /\ tlas' = [tlas EXCEPT ![t].expires_at = Renewed(@)]
    /\ UNCHANGED <<subVars, saleVars, motherVars, businessVars, adminVars,
                   chainVars, calls, now>>

RenewSubAccount(caller, k, attached) ==
    LET sub == sub_accounts[k]
        tla == tlas[TlaOf[k]]
    IN  /\ ~paused
        /\ sub # None
        /\ ~PastGrace(sub.expires_at, now)
        /\ sub.expires_at <= MaxTime
        /\ caller = sub.owner
        /\ sub.retraction_at = None
        /\ tla # None
        /\ TlaLifecycle(tla, now) # "Reclaimable"
        /\ ChargeCaller(caller, attached, RentOf(k))
        /\ sub_accounts' = [sub_accounts EXCEPT ![k].expires_at = Renewed(@)]
        /\ UNCHANGED <<tlaVars, sub_account_count, saleVars, motherVars,
                       businessVars, adminVars, chainVars, calls, now>>

SetMainWallet(caller, k, new_wallet) ==
    /\ ~paused
    /\ new_wallet # k
    /\ sub_accounts[k] # None
    /\ caller = sub_accounts[k].owner
    /\ sub_accounts' = [sub_accounts EXCEPT ![k].main_wallet = new_wallet]
    /\ UNCHANGED <<tlaVars, sub_account_count, saleVars, motherVars, businessVars,
                   adminVars, moneyVars, chainVars, calls, now>>

RentalNext ==
    \/ \E caller \in Callers, t \in Tlas, d \in Deposits :
          ActivateTla(caller, t, d) \/ RenewTla(caller, t, d)
    \/ \E s \in Slots, caller \in Callers, k \in Keys, w \in Accounts, d \in Deposits :
          RentSubAccount(s, caller, k, w, d)
    \/ \E caller \in Callers, k \in Keys, d \in Deposits : RenewSubAccount(caller, k, d)
    \/ \E caller \in Callers, k \in Keys, w \in Accounts : SetMainWallet(caller, k, w)
    \/ \E s \in Slots :
          \/ CreateSubAccount(s)
          \/ CreateAccountBatch(s)
          \/ OnSubAccountCreated(s)
          \/ OnSubAccountCreatedPanics(s)
          \/ OnSubAccountCreationFailed(s)
=============================================================================
