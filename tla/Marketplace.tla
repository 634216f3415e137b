----------------------------- MODULE Marketplace -----------------------------
(***************************************************************************)
(* The sale of a sub-account, by listing or by an offer to one buyer       *)
(* (tla-registry/src/marketplace.rs).  The buyer's deposit is escrowed and *)
(* the terms are locked ("settling") while the chain asks the tokens and   *)
(* hands the locker over.                                                  *)
(***************************************************************************)
EXTENDS Registry

\* Mutant: an offer that settles is overlooked.
ListingIdle(k) == listings[k] # None => ~listings[k].settling

SaleIdle(k) ==
    /\ listings[k] # None => ~listings[k].settling
    /\ accepted_offers[k] # None => ~accepted_offers[k].settling

Sellable(k) ==
    LET t == TlaOf[k] IN
    /\ ~IsMother(k)
    /\ sub_accounts[k] # None
    /\ sub_accounts[k].retraction_at = None
    /\ tlas[t] # None
    /\ tlas[t].status = "Active"
    /\ LifecycleOf(k) = "Active"

ListSubAccount(caller, k, price) ==
    /\ ~paused
    /\ price # 0
    /\ SaleIdle(k)
    /\ Sellable(k)
    /\ caller = sub_accounts[k].owner
    /\ listings' = [listings EXCEPT ![k] = [price |-> price, settling |-> FALSE]]
    /\ UNCHANGED <<tlaVars, subVars, accepted_offers, motherVars, businessVars,
                   adminVars, moneyVars, chainVars, calls, now>>

UnlistSubAccount(caller, k) ==
    /\ ~paused
    /\ SaleIdle(k)
    /\ listings[k] # None
    /\ sub_accounts[k] # None
    /\ caller = sub_accounts[k].owner
    /\ listings' = [listings EXCEPT ![k] = None]
    /\ UNCHANGED <<tlaVars, subVars, accepted_offers, motherVars, businessVars,
                   adminVars, moneyVars, chainVars, calls, now>>

AcceptOffer(caller, k, buyer, price) ==
    /\ ~paused
    /\ price # 0
    /\ SaleIdle(k)
    /\ Sellable(k)
    /\ caller = sub_accounts[k].owner
    /\ accepted_offers' = [accepted_offers EXCEPT ![k] =
                             [buyer |-> buyer, price |-> price, settling |-> FALSE]]
    /\ UNCHANGED <<tlaVars, subVars, listings, motherVars, businessVars,
                   adminVars, moneyVars, chainVars, calls, now>>

RevokeOffer(caller, k) ==
    /\ ~paused
    /\ SaleIdle(k)
    /\ accepted_offers[k] # None
    /\ sub_accounts[k] # None
    /\ caller = sub_accounts[k].owner
    /\ accepted_offers' = [accepted_offers EXCEPT ![k] = None]
    /\ UNCHANGED <<tlaVars, subVars, listings, motherVars, businessVars,
                   adminVars, moneyVars, chainVars, calls, now>>

OfferedTo(k, buyer) == accepted_offers[k] # None /\ accepted_offers[k].buyer = buyer

\* An offer made to this buyer takes precedence over the listing.
SaleTermsExist(k, buyer) == OfferedTo(k, buyer) \/ listings[k] # None
SalePrice(k, buyer) ==
    IF OfferedTo(k, buyer) THEN accepted_offers[k].price ELSE listings[k].price

\* resolve_and_lock_sale.
LockSale(k, buyer) ==
    IF OfferedTo(k, buyer)
    THEN /\ accepted_offers' = [accepted_offers EXCEPT ![k].settling = TRUE]
         /\ UNCHANGED listings
    ELSE /\ listings' = [listings EXCEPT ![k].settling = TRUE]
         /\ UNCHANGED accepted_offers

BuySubAccount(s, buyer, k, deposit) ==
    /\ ~paused
    /\ SaleIdle(k)
    /\ Sellable(k)
    /\ SaleTermsExist(k, buyer)
    /\ deposit >= SalePrice(k, buyer)
    /\ Receive(deposit)
    /\ LockSale(k, buyer)
    /\ StartCall(s, [kind |-> "buy", stage |-> AfterSnapshot, key |-> k,
                     who |-> buyer, paid |-> deposit, cost |-> SalePrice(k, buyer),
                     sent |-> 0, left |-> ft_allowlist, ok |-> TRUE])
    /\ UNCHANGED <<tlaVars, subVars, motherVars, businessVars, adminVars,
                   total_revenue, refundVars, chainVars, now>>

\* Mutants: one of the two locks stays.
ClearListing(k) ==
    /\ listings' = IF listings[k] = None THEN listings
                   ELSE [listings EXCEPT ![k].settling = FALSE]
    /\ UNCHANGED accepted_offers

ClearOffer(k) ==
    /\ accepted_offers' = IF accepted_offers[k] = None THEN accepted_offers
                          ELSE [accepted_offers EXCEPT ![k].settling = FALSE]
    /\ UNCHANGED listings

ClearSettling(k) ==
    /\ listings' = IF listings[k] = None THEN listings
                   ELSE [listings EXCEPT ![k].settling = FALSE]
    /\ accepted_offers' = IF accepted_offers[k] = None THEN accepted_offers
                          ELSE [accepted_offers EXCEPT ![k].settling = FALSE]

\* Mutant: only the price is credited back.
AbortSaleRefundsPrice(s) ==
    /\ AddPendingRefund(calls[s].who, calls[s].cost)
    /\ ClearSettling(calls[s].key)
    /\ EndCall(s)
    /\ UNCHANGED total_revenue

\* What becomes of a sale that fails: the deposit is credited back to the
\* buyer and the terms are open again.
AbortSale(s) ==
    /\ AddPendingRefund(calls[s].who, calls[s].paid)
    /\ ClearSettling(calls[s].key)
    /\ EndCall(s)
    /\ UNCHANGED total_revenue

OnBuyBalancesChecked(s) ==
    /\ At(s, "buy", "checked")
    /\ IF calls[s].ok
       THEN Advance(s, "dispatch", TRUE) /\ UNCHANGED <<saleVars, refundVars, total_revenue>>
       ELSE AbortSale(s)
    /\ UNCHANGED <<tlaVars, subVars, motherVars, businessVars, adminVars, balance,
                   chainVars, now>>

\* The locker refused, or the registry forgot the entry while it was asked.
OnSaleFailed(s) ==
    /\ At(s, "buy", "callback")
    /\ ~calls[s].ok \/ sub_accounts[calls[s].key] = None
    /\ AbortSale(s)
    /\ UNCHANGED <<tlaVars, subVars, motherVars, businessVars, adminVars, balance,
                   chainVars, now>>

\* Mutant: the entry changes hands before the seller is looked up.
OnSubAccountSoldPaysBuyer(s) ==
    LET c == calls[s]
        commission == Commission(c.cost, fee_config)
        proceeds == c.cost - commission
        excess == Monus(c.paid, c.cost)
    IN  /\ At(s, "buy", "callback")
        /\ c.ok
        /\ sub_accounts[c.key] # None
        /\ total_revenue' = total_revenue + commission
        /\ pending_refunds' =
             Credited(Credited(pending_refunds, c.who, proceeds), c.who, excess)
        /\ total_pending_refunds' = total_pending_refunds + proceeds + excess
        /\ sub_accounts' = [sub_accounts EXCEPT ![c.key].owner = c.who,
                                                ![c.key].main_wallet = c.who]
        /\ RemoveSaleTerms(c.key)
        /\ EndCall(s)
        /\ UNCHANGED <<tlaVars, sub_account_count, motherVars, businessVars,
                       adminVars, balance, chainVars, now>>

\* Whoever owns the entry now is the seller.
OnSubAccountSold(s) ==
    LET c == calls[s]
        k == c.key
        commission == Commission(c.cost, fee_config)
        seller == sub_accounts[k].owner
        proceeds == c.cost - commission
        excess == Monus(c.paid, c.cost)
    IN  /\ At(s, "buy", "callback")
        /\ c.ok
        /\ sub_accounts[k] # None
        /\ total_revenue' = total_revenue + commission
        /\ pending_refunds' =
             Credited(Credited(pending_refunds, seller, proceeds), c.who, excess)
        /\ total_pending_refunds' = total_pending_refunds + proceeds + excess
        /\ sub_accounts' = [sub_accounts EXCEPT ![k].owner = c.who,
                                                ![k].main_wallet = c.who]
        /\ RemoveSaleTerms(k)
        /\ EndCall(s)
        /\ UNCHANGED <<tlaVars, sub_account_count, motherVars, businessVars,
                       adminVars, balance, chainVars, now>>

MarketplaceNext ==
    \/ \E caller \in Callers, k \in Keys, price \in Prices :
          \/ ListSubAccount(caller, k, price)
          \/ \E buyer \in Accounts : AcceptOffer(caller, k, buyer, price)
    \/ \E caller \in Callers, k \in Keys : UnlistSubAccount(caller, k) \/ RevokeOffer(caller, k)
    \/ \E s \in Slots, buyer \in Callers, k \in Keys, d \in Deposits :
          BuySubAccount(s, buyer, k, d)
    \/ \E s \in Slots :
          \/ OnBuyBalancesChecked(s)
          \/ OnSaleFailed(s)
          \/ OnSubAccountSold(s)
==============================================================================
