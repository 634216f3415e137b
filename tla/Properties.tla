----------------------------- MODULE Properties -----------------------------
(***************************************************************************)
(* What makes the system correct.  Each property is about the interplay of *)
(* several handlers, or of a handler with chains that are in flight.       *)
(***************************************************************************)
EXTENDS HosTla

-----------------------------------------------------------------------------
(* Money.                                                                  *)

\* What the registry must still credit to somebody once the chain ends: the
\* amount paid in, less what has left with the chain and not come back.  A
\* chain that has failed owes everything.
Owed(c) == IF c.stage = "callback" /\ ~c.ok THEN c.paid ELSE c.paid - c.sent

InFlightTotal == SumOf([s \in Slots |-> Owed(calls[s])])

Surplus == balance - (total_revenue + total_pending_refunds + InFlightTotal)

\* The ledger of credits adds up: total_pending_refunds, which withdraw relies
\* on, is the sum of pending_refunds, which claim_refund pays from, although
\* credits are added by nine handlers and taken and put back by a claim.
RefundsAddUp == total_pending_refunds = SumOf(pending_refunds)

\* The steps at which the registry's books lose or gain: a creation that fails
\* at the new account, whose deposit goes to the manager; a creation that is
\* charged a deposit other than the one that was sent; one whose entry is gone.
BatchFails(s) == At(s, "rent", "effect") /\ calls'[s].stage = "callback" /\ ~calls'[s].ok
CreationRepriced(s) ==
    At(s, "rent", "callback") /\ calls[s].ok
    /\ fee_config.account_creation_deposit # calls[s].sent
CreationForgotten(s) ==
    At(s, "rent", "callback") /\ calls[s].ok /\ sub_accounts[calls[s].key] = None
BooksLeak(s) == BatchFails(s) \/ CreationRepriced(s) \/ CreationForgotten(s)

\* Every other step of every handler keeps the books balanced: what comes in
\* is owed to somebody, and what goes out was owed.
BooksBalance ==
    [][(\E s \in Slots : BooksLeak(s) /\ calls'[s] # calls[s]) \/ Surplus' = Surplus]_vars

\* THREAT_MODEL.md 2.1: when a rent ends, what the renter attached is credited back
\* to them, all of it if the creation failed, else what exceeds the rent and the
\* creation deposit.  An entry that goes while its creation is in flight breaks it.
RentSettled(s) ==
    LET c == calls[s]
        charged == c.cost + fee_config.account_creation_deposit
        credited == pending_refunds'[c.who] - pending_refunds[c.who]
    IN  c.kind = "rent" /\ calls'[s] = NoCall =>
          credited = IF c.ok THEN Monus(c.paid, charged) ELSE c.paid

RenterMadeWhole == [][\A s \in Slots : RentSettled(s)]_vars

\* An entry does not leave the registry while the creation of its name goes on.
Founding(k) == \E s \in InFlight(k) : calls[s].kind = "rent"

EntriesOutlastCreation ==
    [][\A k \in Keys :
         Founding(k) /\ Founding(k)' /\ sub_accounts[k] # None => sub_accounts'[k] # None]_vars

-----------------------------------------------------------------------------
(* Sales.                                                                  *)

SellingSlots(k) == {s \in InFlight(k) : calls[s].kind = "buy"}

Settling(k) ==
    \/ listings[k] # None /\ listings[k].settling
    \/ accepted_offers[k] # None /\ accepted_offers[k].settling

\* A settlement lock never outlives its settlement: terms marked settling have
\* a buy chain in flight that will clear or remove them, so no key is wedged in
\* SaleInProgress for ever.
NoWedgedLock == \A k \in Keys : Settling(k) => SellingSlots(k) # {}

\* The terms a buyer was charged under are still on the books, and locked,
\* for as long as the sale can settle.
LockedTerms(c) ==
    \/ /\ listings[c.key] # None
       /\ listings[c.key].settling
       /\ listings[c.key].price = c.cost
    \/ /\ accepted_offers[c.key] # None
       /\ accepted_offers[c.key].settling
       /\ accepted_offers[c.key].price = c.cost
       /\ accepted_offers[c.key].buyer = c.who

\* A sale changes hands only between the parties and at the price that were
\* locked when the deposit was taken: no unlisting, re-listing, revocation or
\* change of ownership gets in between.
SoldAsLocked ==
    [][\A k \in Keys :
         /\ sub_accounts[k] # None
         /\ sub_accounts'[k] # None
         /\ sub_accounts'[k].owner # sub_accounts[k].owner
         => \E s \in SellingSlots(k) :
              /\ calls[s].who = sub_accounts'[k].owner
              /\ calls'[s] = NoCall
              /\ LockedTerms(calls[s])]_vars

\* The network does not delay a sale until its name has been reclaimed and rented
\* anew: nothing in the code tells the new tenancy from the one that was sold.
FreshTenancies ==
    [][\A k \in Keys :
         sub_accounts[k] = None /\ sub_accounts'[k] # None => SellingSlots(k) = {}]_vars

\* A buyer's deposit is never stranded: when the chain of a buy ends, the buyer
\* either has the name, an account whose locker has their key and the change, or is
\* credited with the whole deposit.
\* A deletion while the name is being sold breaks it.
MadeWhole(s) ==
    LET c == calls[s]
        credited == pending_refunds'[c.who] - pending_refunds[c.who]
    IN  c.kind = "buy" /\ calls'[s] = NoCall =>
          \/ credited = c.paid
          \/ /\ sub_accounts'[c.key] # None
             /\ sub_accounts'[c.key].owner = c.who
             /\ locker[c.key].owner_key = c.who
             /\ credited >= c.paid - c.cost

BuyerMadeWhole == [][\A s \in Slots : MadeWhole(s)]_vars

\* No account is deleted while its name is being sold.  A sale may begin only while
\* the tenancy is active, but nothing keeps it so until the sale is settled.
Deleted(k) == locker[k] # NoLocker /\ locker'[k] = NoLocker

NoDeletionInSale == [][\A k \in Keys : Deleted(k) => SellingSlots(k) = {}]_vars

\* The deals, the terms and the owners as AtomicSale sees them: a deal is a
\* purchase in flight, and the settlement locks are not seen at all.
DealOf(c) ==
    IF c.kind # "buy" THEN [name |-> None, buyer |-> None, price |-> 0, paid |-> 0]
    ELSE [name |-> c.key, buyer |-> c.who, price |-> c.cost, paid |-> c.paid]

TermsOf(k) ==
    (IF listings[k] = None THEN {} ELSE {[buyer |-> None, price |-> listings[k].price]})
    \cup
    (IF accepted_offers[k] = None THEN {}
     ELSE {[buyer |-> accepted_offers[k].buyer, price |-> accepted_offers[k].price]})

HolderOf(k) == IF sub_accounts[k] = None THEN None ELSE sub_accounts[k].owner

Sale == INSTANCE AtomicSale WITH
    Names   <- Keys,
    People  <- Accounts,
    Amounts <- Deposits,
    owner   <- [k \in Keys |-> HolderOf(k)],
    terms   <- [k \in Keys |-> TermsOf(k)],
    escrow  <- [s \in Slots |-> DealOf(calls[s])],
    credit  <- pending_refunds,
    revenue <- total_revenue

\* The marketplace, whose sale is a chain of receipts with the terms locked by a
\* flag, implements the sale in one step: whatever overtakes the chain, seller,
\* buyer and registry are paid exactly what the terms say, or nobody but the
\* buyer anything.
SaleIsAtomic == Sale!Spec

-----------------------------------------------------------------------------
(* Custody.                                                                *)

Quiet(k) == InFlight(k) = {}

\* With nothing in flight for a key, the registry and the chain agree: an
\* entry has an account with a locker in force, for the key of the owner; a
\* name without an entry is free or belongs to whoever exported it.
AgreesOn(k) ==
    Quiet(k) =>
        IF sub_accounts[k] = None THEN locker[k].state \in {"Absent", "Exported"}
        ELSE /\ locker[k].state = "Held"
             /\ locker[k].owner_key = sub_accounts[k].owner

ChainAgrees == \A k \in Keys : AgreesOn(k)

\* The holders, the accounts and what the chains have still to do as Custody sees
\* them.  A chain has a duty from the step at which it changed one side of a name,
\* the registry's or the account's, up to the step at which the other side follows.
DutyOf(c) ==
    CASE c.kind = "rent" /\ ~(c.stage = "callback" /\ c.ok)        -> "renting"
      [] c.kind = "buy" /\ ~(c.stage = "callback" /\ c.ok)         -> "selling"
      [] c.kind = "buy" /\ c.stage = "callback" /\ c.ok            -> "handed"
      [] c.kind = "reclaim" /\ c.stage = "effect"                  -> "deleting"
      [] c.kind = "reclaim" /\ c.stage = "callback" /\ c.ok        -> "deleted"
      [] c.kind = "export" /\ c.stage = "effect"                   -> "exporting"
      [] c.kind = "export" /\ c.stage = "resolve" /\ c.ok          -> "keyed"
      [] c.kind = "export" /\ c.stage = "resolve" /\ ~c.ok         -> "unkeyed"
      [] c.kind = "export" /\ c.stage = "callback" /\ c.ok         -> "exported"
      [] OTHER                                                    -> "nothing"

ChainOf(c) ==
    IF DutyOf(c) = "nothing" THEN [does |-> "nothing", name |-> None, who |-> None]
    ELSE [does |-> DutyOf(c), name |-> c.key,
          who |-> IF c.kind \in {"rent", "buy"} THEN c.who ELSE None]

Custody == INSTANCE Custody WITH
    Names      <- Keys,
    People     <- Accounts,
    Chains     <- Slots,
    KeyMayFail <- AddKeyMayFail,
    holder     <- [k \in Keys |-> HolderOf(k)],
    account    <- locker,
    chain      <- [s \in Slots |-> ChainOf(calls[s])]

\* Rent, sale, reclaim and export, each a chain of receipts at four contracts,
\* together implement the life of a name: whatever overtakes what, a name is taken,
\* founded, handed over, deleted, freed and released in no other way.
NamesInCustody == Custody!Spec

\* An exported account is out of the system's reach: no chain begun before the
\* export, however late its receipts, changes or deletes it.
ExportIsFinal ==
    [][\A k \in Keys : locker[k].state = "Exported" => locker'[k] = locker[k]]_vars

\* The count that the cap of a business TLA is checked against is the number
\* of its entries, those whose creation is still in flight included.
CountExact(t) ==
    business_sub_count[t] =
        IF IsBusiness(t)
        THEN Cardinality({k \in Keys : TlaOf[k] = t /\ sub_accounts[k] # None})
        ELSE 0

BusinessCountExact == \A t \in Tlas : CountExact(t)

\* sub_account_count follows the sub-accounts whose creation is settled, whatever
\* reclaims, exports and sales of a name race, unless one of them ends before the
\* creation of the name is settled: the creation's callback then panics, and the
\* count stays one too low (where it is too low already it stops at zero, as the
\* code's subtraction does).
Created == {k \in Keys : sub_accounts[k] # None /\ ~\E s \in InFlight(k) : calls[s].kind = "rent"}

Overtaken(s) == \E r \in InFlight(calls[s].key) \ {s} : calls[r].kind = "rent"

StatsTrack ==
    [][\/ \E s \in Slots : Overtaken(s) /\ calls'[s] = NoCall
       \/ sub_account_count'
            = Monus(sub_account_count + Cardinality(Created'), Cardinality(Created))]_vars

\* A TLA comes into use through its activation alone, which for a business TLA is
\* what the allocation fee is charged for: suspended and unsuspended before it was
\* activated, it is Active, but no renewal gives it a term.
NoFreeActivation ==
    [][\A t \in Tlas :
         /\ tlas[t] # None
         /\ tlas[t].expires_at = 0
         /\ tlas'[t].expires_at # 0
         => tlas[t].status = "Registered"]_vars

\* A tenancy that has become reclaimable stays so, whoever renews or cancels
\* what: only an admin, by suspending its TLA or by new fees, can revive it.
SameTenancy(k) ==
    /\ sub_accounts[k] # None
    /\ sub_accounts'[k] # None
    /\ sub_accounts'[k].rented_at = sub_accounts[k].rented_at

ReclaimableIsFinal ==
    [][\A k \in Keys :
         /\ SameTenancy(k)
         /\ Reclaimable(k)
         /\ fee_config' = fee_config
         /\ tlas'[TlaOf[k]].status # "Suspended"
         => Reclaimable(k)']_vars

-----------------------------------------------------------------------------
(* Mothers.                                                                *)

Children(a) == {u \in Accounts : mothers[u] = a}

\* The use count of an account never exceeds the number of those that name it
\* their mother, so that no account stays unsellable and unreclaimable with
\* nobody left whose mother it is.
MotherCountBounded == \A a \in Accounts : mother_use_count[a] <= Cardinality(Children(a))

-----------------------------------------------------------------------------
(* Liveness, under Delivery.                                               *)

\* Every promise chain ends.
ChainsEnd == \A s \in Slots : calls[s] # NoCall ~> calls[s] = NoCall

\* A sub-account that has lapsed leaves the registry, if nobody sends tokens to
\* it any more: what it holds is swept, and no failed or overtaken sweep or
\* deletion stands in the way of the next.  Under Keeper and TokensWork too.
LapsedIsReclaimed ==
    \A k \in Keys :
        sub_accounts[k] # None /\ Reclaimable(k) ~> sub_accounts[k] = None

\* Every lock is lifted.
LocksLift == \A k \in Keys : Settling(k) ~> ~Settling(k)

-----------------------------------------------------------------------------
(* What the documents and tests say and the code does not keep, each with  *)
(* what has to be ruled out for it to hold.                                *)

\* THREAT_MODEL.md 2.2: the registry holds what it owes.
Solvent == Surplus >= 0

\* Every creation is paid for by the deposit that was sent with it: none fails once
\* the manager has passed it on, and none is charged less in the end.
PaysForItself(s) ==
    /\ ~BatchFails(s)
    /\ At(s, "rent", "callback") /\ calls[s].ok /\ calls'[s] = NoCall
         => fee_config.account_creation_deposit >= calls[s].sent

CreationsPaidFor == [][\A s \in Slots : PaysForItself(s)]_vars

\* THREAT_MODEL.md 3.1 (sale-entry purge): an account that leaves the registry's
\* management leaves no sale record behind.
NoOrphanSale ==
    \A k \in Keys : sub_accounts[k] = None => listings[k] = None /\ accepted_offers[k] = None

\* Nobody puts a name on sale before its creation is settled.
NoEarlySales ==
    [][\A k \in Keys : Founding(k) =>
         /\ listings[k] = None => listings'[k] = None
         /\ accepted_offers[k] = None => accepted_offers'[k] = None]_vars

\* integration.rs, test_resale_mother_not_sellable: a managed account does not
\* stop counting as a mother while its owner goes on naming it.
MotherStaysCounted ==
    [][\A k \in Keys :
         LET owner == sub_accounts[k].owner IN
         /\ SameTenancy(k)
         /\ sub_accounts'[k].owner = owner
         /\ IsMother(k)
         /\ mothers[owner] = k
         /\ mothers'[owner] = k
         => IsMother(k)']_vars

\* Nobody names an account their mother before the registry manages it.
NamedOnceManaged ==
    [][\A k \in Keys : sub_accounts[k] = None /\ sub_accounts'[k] # None
                      => Children(k)' = {}]_vars

\* THREAT_MODEL.md 3.3: an account is exported, and out of the registry, once the
\* owner's key is on it.
ReleasedAsFree(s) ==
    LET c == calls[s] IN
    /\ c.kind = "export"
    /\ calls'[s] = NoCall
    /\ sub_accounts[c.key] # None
    /\ sub_accounts'[c.key] = None
    => locker[c.key].state = "Exported"

ExportReleases == [][\A s \in Slots : ReleasedAsFree(s)]_vars

\* No AddKey fails at an account of K, unless the account is gone.
KeyFails(s) ==
    /\ At(s, "export", "effect")
    /\ At(s, "export", "resolve")'
    /\ ~calls'[s].ok
    /\ locker[calls[s].key] # NoLocker

NoKeyFails(K) == \A s \in Slots : KeyFails(s) => calls[s].key \notin K

KeysLand(K) == [][NoKeyFails(K)]_vars

\* README.md (FT sweep): an account is never deleted with stranded funds.
NoStrandedTokens == [][\A k \in Keys : Deleted(k) => \A t \in ft_allowlist : ft[k][t] = 0]_vars

\* No token reaches an account whose deletion is under way, or the allowlist.
NoLateTokens ==
    [][\A s \in Slots : calls[s].kind = "reclaim" =>
         /\ ft_allowlist' \subseteq ft_allowlist
         /\ \A t \in Tokens : ft'[calls[s].key][t] <= ft[calls[s].key][t]]_vars

\* THREAT_MODEL.md 3.1 (reclaim chokepoint): a tenancy is reclaimed because it, its
\* TLA or its retraction has run out.
DeletesOnlyReclaimable ==
    [][\A k \in Keys : Deleted(k) /\ sub_accounts[k] # None => Reclaimable(k)]_vars

\* While a reclaim of a name is in flight, the name is not rented anew, and no admin
\* revives it, by suspending its TLA or by new fees.
ReclaimsUndisturbed ==
    [][\A s \in Slots : calls[s].kind = "reclaim" =>
         LET k == calls[s].key IN
         /\ sub_accounts[k] = None => sub_accounts'[k] = None
         /\ sub_accounts[k] # None => tlas'[TlaOf[k]].status # "Suspended"
         /\ fee_config' = fee_config]_vars
=============================================================================
