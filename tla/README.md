# TLA+ specification of hos-tla

hos-tla rents names on NEAR. A *TLA* is a top-level account such as `hos`; a
*sub-account* is a name `alice.hos` below it, rented from a registry contract
by the year. This directory holds a TLA+ model of the contracts, the TLC runs
that check it on small instances, and proofs that TLAPS checks for every
instance. Paths below are relative to `contracts/`.

## The system

| Part | State | Operations |
| --- | --- | --- |
| **tla-registry** (`tla-registry/src`) | TLAs, sub-accounts, listings, accepted offers, mothers and their use counts, business counts and caps, admins, fees, pause flag, allowlists, revenue, pending refunds | |
| - rental (`rental.rs`, `callbacks.rs`) | entries, revenue | activate, rent and its callback, renew, set main wallet |
| - mothers (`mother.rs`) | `mothers`, `mother_use_count` | set_mother, the default mother of a renter, admin_clear_mother |
| - business (`business.rs`) | `retraction_at`, counts, caps | schedule and cancel a retraction, set a cap |
| - reclaim (`reclaim.rs`) | entries | reclaim_finalize, reclaim_sweep_ft, export_sub_account and their callbacks |
| - marketplace (`marketplace.rs`) | `listings`, `accepted_offers` | list, unlist, accept and revoke an offer, buy and its callbacks |
| - refunds (`lib.rs`, `admin.rs`) | `pending_refunds` and total | claim_refund and its callback, withdraw |
| - administration (`admin.rs`) | TLAs, admins, fees, pause, allowlists | register, activate, suspend, unsuspend, add and remove admins and tokens |
| - resale dispatch (`resale.rs`) | none | resale_unlock, resale_abort |
| **tla-manager** (`tla-manager/src`), one on each TLA | the registry's id | create_sub_account |
| **sub-account-locker** (`sub-account-locker/src`), one on each sub-account | Held, Exporting or Exported; the owner's key | transfer, export and its callback, finalize_delete, the sweep chain |
| **resale-locker** (`resale-locker/src`), on accounts outside the namespaces | Active, Settling or Settled | unlock, abort and their callback |
| views, events, errors | none | read or log only |

**How the parts interact.** Only messages connect the contracts. NEAR executes
one receipt at a time at each account, and a receipt is atomic: a handler that
returns an error leaves no trace. A handler that calls another contract ends
with a promise; the rest of its work is done by callbacks in later receipts, and
any other receipt may execute in between. Five such chains carry most of the risk:

- *rent*: registry, manager, creation batch at the new account, registry;
- *buy*: registry, one `ft_balance_of` per allowlisted token, registry, locker,
  registry;
- *reclaim*: the same queries, registry, locker, DeleteAccount, registry;
- *export*: registry, locker, AddKey, locker, registry;
- *sweep*: registry, locker, `ft_balance_of`, locker, `storage_deposit`, locker,
  `ft_transfer`; the registry asks for it and has no callback.

A claim of a refund is a shorter one: registry, transfer, registry. Apart from
these stands the resale of accounts outside the registry's namespaces: the registry
forwards an admin's `unlock` or `abort` and forgets it; at the resale-locker each is
a chain of the locker, AddKey and the locker's callback.

**What is hard.** The registry updates its books before a chain starts (an entry
is there before its account exists, a deposit is escrowed, a lock is set) and
must settle them in whichever callback runs at the end, with whatever state other
receipts have left by then. Checks are made at the start of a chain and used at
its end. Each of several contracts may refuse, fail or be gone. Counts are kept
beside the maps they count. `PROJECT.json` lists the hazards with their lines.

**What makes each part correct.**

- *Rental, reclaim, export*: with nothing in flight for a name, the registry and
  the chain agree about it; nothing is deleted that is not reclaimable, nothing
  exported is touched, nothing is deleted with tokens on it; what has become
  reclaimable stays so, and what lapses is reclaimed in the end; nothing comes into
  use that was not activated; caps are checked against the true number of entries.
- *Marketplace*: a sale looks like one step to its parties: it settles on the terms
  that were locked or leaves the buyer whole, and a lock does not outlive its
  settlement.
- *Resale*: an account is handed over once at most, to a key that was asked for, and
  its lock does not stay closed without that.
- *Money*: what comes in is owed to somebody, what goes out was owed, the total
  of the refunds is their sum, and the balance covers all of it.
- *Mothers*: an account is protected as a mother for as long as its owner names
  it, and no longer than somebody does.
- *All chains*: each of them ends, and each lock is lifted.

## The modules

| Module | Models |
| --- | --- |
| `Lifecycle` | clock-dependent status of TLAs and sub-accounts (`types.rs`, `mother.rs`) |
| `Fees` | rent tiers, premium multipliers, commission (`fees.rs`, `marketplace.rs`) |
| `Sums` | the sum of a function, by cardinality and so without recursion |
| `Registry` | constants, variables, types, helpers, promise chains; token contracts and clock |
| `Rental`, `Mother`, `Business`, `Reclaim`, `Marketplace`, `Refunds`, `Admin` | the handlers and callbacks of the registry's modules; `Rental` also the manager |
| `SubAccountLocker` | the locker on each name and the action receipts it issues |
| `Sweep` | `reclaim_sweep_ft`, the locker's part in a sweep, the token contract |
| `ResaleLocker` | resale dispatch and the resale-locker, with its properties |
| `AtomicSale`, `Custody`, `OneShot` | what a sale, the life of a name and a resale lock promise: the abstract specifications |
| `HosTla` | initial state, the composition `Next`, `Spec`, delivery of receipts |
| `Properties` | all properties |
| `MC`, `MC_*` | values of the constants, initial states and next-state relations of the runs |
| `Types_proofs`, `Sales_proofs`, `Mothers_proofs`, `Refunds_proofs`, `Tenancy_proofs`, `Custody_proofs`, `NamesInCustody_proofs`, `ResaleLocker_proofs` | theorems |

The component modules share the variables of `Registry`, as the registry's source
files share one contract struct, and each adds its actions. Variables and actions
have the names of the fields and functions they model. An action is one handler
that succeeds, with all it changes; every `Err` or panic is a guard. A TLA+ map
from ids to a record or `None` stands for a `LookupMap` or `IterableMap`, and 0
stands for an absent count. Each definition's source lines are in `PROJECT.json`.

`ResaleLocker` has variables of its own and composes with nothing: the registry's
state has no part in a resale but the set of admins, and there always is one.

**Promise chains.** A chain occupies one slot of `calls` from the handler that
starts it to its last callback. The slot holds the receipt to execute next
(`stage`) and the arguments of its callbacks. Each receipt is an action of its own,
so every other action can come in between. Receipts of different chains are not
ordered: two contracts' receipts to the same account may execute in any order.
An exception are the receipts that an account issues to itself, which NEAR
executes in order: a DeleteAccount issued before an export comes before its AddKey
(`AddFullAccessKey`), and the receipts of a deleted account are done before its
name is created again (`OwnReceiptsDone`).

**Failures.** The manager may refuse (no contract on the TLA, or another
registry's), and the deposit returns to the registry; the creation batch may fail,
and the deposit returns to the manager; a token contract may fail to answer; the
locker refuses unless it is Held; a transfer fails if the receiver is gone; AddKey
fails if `AddKeyMayFail`; each receipt of a sweep at the token contract may fail,
and its transfer does if another sweep took the tokens first. At the resale-locker
AddKey fails if the key is there, the account is gone, or the storage is not paid
for. The refund that NEAR makes for a failed receipt is part
of the failing step.

**Abstractions.** Names are model values with a length and TLA (`TlaOf`). The handlers
are given the two apart and look both up; that a name goes with one TLA is an
assumption, which holds as long as no TLA is registered below another one, where
`a.b.hos` would be a name of `hos` and of `b.hos`. Public keys are identified with the
account that holds them. Time is a natural number; block timestamps are far from the end
of a `u64`, so saturating additions on them are plain ones. Amounts are natural numbers:
no deposit nears `u128`, and saturating subtraction is `Monus`. `balance` is the
registry's balance above what its code and its single fields take. The rest of the
storage reserve grows with the maps and sets (`StorageReserve`): an entry of any of them
takes the same, `ENTRY_RESERVE`, and one whose value is zero, which the code sometimes
keeps, takes nothing. `claim_refund` and `withdraw` pay only from what is above the
reserve (`AvailableBalance`). Gas, gas rewards and the deposits of one yocto that only
prove a full-access key are left out. Left out are also two fields no handler's result
depends on (`activated_at` and the contract's `version`). An exported account is an
account like any other: it can call the registry, but what its owner does with its
contract is not modelled; that of a resale account may take the locker off (`TakeOver`).
The clock starts at `GRACE_PERIOD`: it counts from 1970, so that what has
`expires_at = 0`, never paid for, is past any grace period, as on the chain.

**Bounds.** `Slots` bounds the chains in flight, `MaxTime` the clock and, with it,
renewals (`expires_at <= MaxTime` in `RenewTla` and `RenewSubAccount`), `MaxBalance`
what is paid in on top of `InitialBalance` (`HasRoomFor`, which also bounds `Booked`,
the sum of what the books may show), `MaxTokens` what an account has of a token, `Caps`
the overrides of the business cap, `RequestSlots` the resale requests in flight.
`Deposits`, `Prices` and `FeeConfigs` are the inputs. The theorems hold for all their
values.

## The runs

| Run | Specification and bounds | What it shows |
| --- | --- | --- |
| `system` | every handler, from deployment; one user, name and slot, no time, one premium category, an NFT but no FT | every handler of the registry with every other: types, locks, mother counts; `NoFreeActivation`, `ReclaimableIsFinal` across suspensions and retractions, and `SaleIsAtomic` with all that is not a sale |
| `sale` | one rented name, two users (one the admin), two slots, one token, listings, offers, purchases, exports | `SaleIsAtomic`: the chain implements `AtomicSale`; `SoldAsLocked`, `BuyerMadeWhole`, `NoWedgedLock`, `ChainAgrees`, `ExportIsFinal` |
| `custody` | one name, three slots (one of them for a new tenancy), one token, rents, renewals, retractions, sweeps, reclaims, exports, time | `ChainAgrees`, `BusinessCountExact`, `StatsTrack`, `ExportIsFinal`, `NoStrandedTokens`, `ReclaimableIsFinal` |
| `books` | two users, two fee configurations, all that moves NEAR, a storage reserve of 1 for each entry | `RefundsAddUp`, `BooksBalance`, `RenterMadeWhole` |
| `live` | two slots, all kinds of chain again and again, sweeps with sweeps and reclaims, claims alone, fairness | `NamesInCustody`: the chains implement `Custody`; `ChainsEnd`, `LocksLift`, `LapsedIsReclaimed` |
| `resale` | two locked accounts, one of them for sale, two buyers' keys and the recovery key, three requests, fairness | `LockIsOneShot`: the lock implements `OneShot`; `AtMostOneKey`, `StateMatchesKeys`, `SettlementEnds`, `LockOpens` |

Why the bounds are enough. `system` has one slot because `sale`, `custody` and `live`
have more; what it adds is every handler at once. Two chains on a name are what it takes
for one to pull the entry from under the other; `custody` has a third, for the rent of a
new tenancy that comes between two old chains: no third chain of the other kinds
(`RoomForOldChain`). One name is enough where the handlers of different names meet only
in sums and counts; and all the safety properties are proved for any number of names,
slots and users. `system` does without what no property there can tell apart: rents are
nothing whatever the premium category, so there is one category, and the list of NFTs,
which nothing reads, is changed before there is a TLA (`OneCategory`, `NftsApart`). Nor
does an account of a name become an admin or a licensee there, or get what is withdrawn
(`NamesApart`): its user does all that such an account could. In `system` the clock
stands still; a retraction elapses at once there, and a TLA never activated is past its
grace. In `custody` a year and grace are one tick each, so that each status is met, and
both boundaries, in two ticks; `ReclaimableIsFinal` is proved for all lengths. In
`resale` three requests are two that race and a third that comes late; the second
account, which is only ever aborted, is there to take slots from the first. In `live` a
sweep is never in flight with a rent, purchase or export, nor a claim with anything
(`Racing`): what a sweep and a purchase or a claim do to each other is seen only in
tokens and in the ledger, which are the business of the safety properties, and `custody`
has sweeps in flight with rents and exports. In `books` the two configurations differ in
creation deposit and commission, the terms read again in a callback, and the registry
starts with 4 above its code, which is less than the reserve of a few entries: claims
and withdrawals are made, and are refused for the reserve. The other runs have no
reserve (`ENTRY_RESERVE = 0`), since none of their properties speaks of what the
registry holds. `MaxTime` in `books` bounds only the renewals. Deadlock is not checked:
the system may rest, and bounded ones do.

Restrictions that the properties need. `NoStrandedTokens` is checked in `custody` with
tokens that arrive, and are allowlisted, only while no chain is in flight: it shows that
the queries do guard the deletion, and `stranded_tokens` shows what they cannot guard
(in the theorem this is the hypothesis `NoLateTokens`). `custody` has
`AddKeyMayFail = FALSE`, since `failed_export` shows that custody is lost otherwise. `sale` rents no name
anew and reclaims none, so its properties speak of one tenancy, whose account is there,
and `system` has no second chain to do either during a sale (in the theorems:
`FreshTenancies` and, for `BuyerMadeWhole`, `NoDeletionInSale`). `BooksBalance` excepts
the three steps named in `BooksLeak`, of which two make the registry insolvent
(`solvency`) and one, a callback that finds its entry gone, strands a deposit: `books`
has no export or reclaim, so that `RenterMadeWhole` speaks of failures and fees (in the
theorem: `EntriesOutlastCreation`). `StatsTrack` excepts the chains that end on a name
while its creation is in flight: an export or reclaim that overtakes the creation's
callback takes from `sub_account_count` what was never added, and leaves the count,
which views report and nothing else reads, wrong for good. In `LapsedIsReclaimed` nobody
sends tokens to a lapsed account: whoever does can put its deletion off as long as they
pay; a name lapses there by a retraction that takes effect at once, since time adds
nothing to what must follow.

**Fairness.** NEAR executes every receipt it has accepted: the next receipt of each
chain is weakly fair (`Delivery`, and `RequestDelivery` for resales). `ChainsEnd`,
`LocksLift` and `SettlementEnds` need no more, and nothing is assumed of users, admins
or time. `LapsedIsReclaimed` is about a service that people outside the contracts
render, so it assumes what they do. Anybody may call `reclaim_sweep_ft` and
`reclaim_finalize`, and somebody goes on doing so (`Keeper`); a token contract that is
asked again and again answers, registers and transfers at last (`TokensWork`).
Fairness is strong in both, because a slot or a token is free only now and then: a
chain in flight takes it away. `LockOpens` assumes in the same way that the admins go
on asking for an abort and that AddKey is at last paid for (`Persistence`). What the
two show is that nothing the contracts do on the way, failed, late or overtaken,
makes the next attempt impossible.

### Refinement

`AtomicSale` is a market whose sale is two steps: a deposit goes into escrow, then
everybody is paid and the name changes hands, or the buyer has the deposit back. The
mapping (`Properties!Sale`) takes a purchase in flight for a deal in escrow, and forgets
the locks, the queries, the locker and who may call what. Besides, names come and go
and money moves elsewhere, which touches no deal. `SaleIsAtomic` says that
the chains of the marketplace, whatever comes in between, do only what it allows. It is
checked in `sale` and, with rents, reclaims and all other handlers, in `system`.

`Custody` is the life of a name: taken, founded (it has an account), handed over, and
then deleted or exported, then released. It has two sides, the registry's holder of the
name and the account with the key on it, and at each step only one of them changes; the
other follows when the chain that has begun gets there. The mapping
(`Properties!Custody`) takes the owner of an entry for the holder (`HolderOf`), and of a
chain in flight sees only what it has done on one side and not yet on the other
(`DutyOf`, `ChainOf`), so that a reclaim counts once the locker has agreed, not before.
`NamesInCustody` is checked in `live`.

`OneShot` is a hand-over: asked for, then done once or dropped. The mapping
(`ResaleLocker!HandOvers`) takes each request for the pair of its account and the key
it will add, an abort's being the recovery key, and the key on an account for its
holder. `LockIsOneShot` is checked in `resale`.

All three are proved as well.

### Where the code departs from its documents

Each of these runs checks a sentence of `THREAT_MODEL.md`, `README.md` or a test, and
TLC finds a behaviour of the code that breaks it; `PROJECT.json` quotes the sentences.

- `solvency`: a creation that fails in its batch, or a creation deposit lowered while
  a creation is in flight, leaves the registry owing more than it holds.
- `orphan_sale`: a name listed while its creation is in flight stays listed when the
  creation fails.
- `stale_reclaim`: the second of two reclaims started on a lapsed name deletes the
  account of the tenancy that follows, since nothing but the token balances is
  checked again.
- `stranded_tokens`: tokens that arrive between query and deletion are lost.
- `lost_mother`: a user who named a mother before she was managed takes her owner's
  use out of the count when leaving her.
- `failed_export`: the registry forgets an account whose AddKey failed.

The property of each is also proved under a condition that rules out what the run
shows: see the hypotheses below.

One more, without a run: `THREAT_MODEL.md` 3.4 calls the state of the resale-locker
monotone. It goes back from Settling to Active when AddKey fails, as it must:
`LockOpens` fails without.

## The proofs

| Theorem | Statement |
| --- | --- |
| `Types_proofs!TypeCorrect` | `Spec => []TypeOK` |
| `Sales_proofs!LocksAreBacked` | `Spec => []NoWedgedLock` |
| `Sales_proofs!SoldToLockedBuyer` | `Spec /\ FreshTenancies => SoldAsLocked` |
| `Sales_proofs!SalesAreAtomic` | `Spec /\ FreshTenancies => SaleIsAtomic` |
| `Mothers_proofs!MotherCountsAreBounded` | `Spec => []MotherCountBounded` |
| `Mothers_proofs!MothersStayCounted` | `Spec /\ NamedOnceManaged => MotherStaysCounted` |
| `Refunds_proofs!LedgerAddsUp` | `Spec => []RefundsAddUp` |
| `Refunds_proofs!BooksAreBalanced` | `Spec => BooksBalance` |
| `Refunds_proofs!SolventIfPaidFor` | `Spec /\ CreationsPaidFor => []Solvent` |
| `Tenancy_proofs!NothingActivatedFree` | `Spec => NoFreeActivation` |
| `Tenancy_proofs!ReclaimableForGood` | `Spec => ReclaimableIsFinal` |
| `Tenancy_proofs!NothingIsStranded` | `Spec /\ NoLateTokens => NoStrandedTokens` |
| `Tenancy_proofs!DeletionsAreDue` | `Spec /\ ReclaimsUndisturbed => DeletesOnlyReclaimable` |
| `Custody_proofs!FreeAccountsStayFree` | in `Custody`: what is free stays as it is |
| `Custody_proofs!EnteredUntilReleased`, `FreeWhenReleased` | what is released was entered; what is released as exported is free: for each set of names whose keys land |
| `Custody_proofs!BuyerHasKey`, `AgreedAtRest` | keys and holders agree, if also sales do not overlap and, for the first, no account is deleted during its sale |
| `NamesInCustody_proofs!RegistryIsCustodian` | `Spec => NamesInCustody` |
| `NamesInCustody_proofs!ExportsAreFinal` | `Spec => ExportIsFinal` |
| `NamesInCustody_proofs!RegistryAgreesWithChain` | `Spec /\ FreshTenancies /\ KeysLand(Keys) => []ChainAgrees` |
| `NamesInCustody_proofs!BuyersAreMadeWhole` | `Spec /\ FreshTenancies /\ NoDeletionInSale /\ KeysLand(Keys) => BuyerMadeWhole` |
| `NamesInCustody_proofs!ExportsReleaseTheFree` | `Spec /\ KeysLand(Keys) => ExportReleases` |
| `NamesInCustody_proofs!PlacesAreCounted` | `Spec /\ KeysLand(Keys) => []BusinessCountExact` |
| `NamesInCustody_proofs!SubAccountsAreTracked` | `Spec /\ KeysLand(Keys) => StatsTrack` |
| `NamesInCustody_proofs!NamesAgreeWithChain`, `BuyersOfNames`, `ExportsOfNames`, `PlacesOfTlas` | four of these five for any set of names (of TLAs), whatever happens to the others |
| `NamesInCustody_proofs!RentersAreMadeWhole` | `Spec /\ EntriesOutlastCreation => RenterMadeWhole` |
| `NamesInCustody_proofs!SalesLeaveWithEntry` | `Spec /\ NoEarlySales => []NoOrphanSale` |
| `ResaleLocker_proofs!ResaleTypeCorrect` | `ResaleSpec => []ResaleTypeOK` |
| `ResaleLocker_proofs!NeverTwoKeys` | `ResaleSpec => []AtMostOneKey` |
| `ResaleLocker_proofs!LockMatchesKeys` | `ResaleSpec => []StateMatchesKeys` |
| `ResaleLocker_proofs!OneShotImplemented` | `ResaleSpec => LockIsOneShot` |

They hold for all values of the constants that satisfy `RegistryAssumption`,
`EntryAssumption` and `LifecycleAssumption`, or `ResaleAssumption`: finitely many
users, names and slots, natural amounts, a `None` that is no account, number or
record, and a `Nobody` that is no key. TLC evaluates them in the runs.

**Hypotheses.** Nine conditions on what happens are stated where they are needed, as
properties of a behaviour, and each is needed: a run, or for three of them an argument,
shows what happens without.

- `KeysLand(K)`: no AddKey has failed at the account of a name of `K`, unless the
  account is gone. `failed_export` shows what such a failure does to its name. It does
  nothing to the others, which is why the theorems speak of any set `K` of names. It is
  no condition where `AddKeyMayFail = FALSE`, as in `custody` (a lemma,
  `KeysLandUnlessTheyMayFail`).
- `FreshTenancies`: no name is rented anew while a purchase of it is in flight. The
  callback of a sale knows its name and nothing of its tenancy (`marketplace.rs:251`):
  if a sale's receipt at the locker were delayed until the name had been reclaimed or
  exported, rented again and created, the sale would settle on the new tenancy. That
  many receipts overtaking one is not what NEAR does, but nothing in the contract
  excludes it.
- `NoDeletionInSale`: no account is deleted while its name is being sold. A sale is
  checked when the buy is accepted and not again (`marketplace.rs:269`), and
  `schedule_retraction` and `reclaim_finalize` do not look at the settling lock. With a
  notice of zero, which `update_fee_config` accepts, a retraction and a reclaim may
  follow the buy at once. The locker then hands over, agrees to the deletion and is
  deleted, and the callback of the sale finds the entry still there and charges the buyer
  for an account that is gone. No receipt need be late for that.
- `EntriesOutlastCreation`: no entry leaves the registry while the creation of its name
  goes on. An admin may export a name whose account has just been created; if the
  callback of the creation is delayed until all receipts of the export are done, it finds
  no entry and panics (`callbacks.rs:34`), and the renter is credited with nothing.
- `NoLateTokens`: no token reaches an account whose deletion is under way, or the
  allowlist in the meantime (`stranded_tokens`).
- `ReclaimsUndisturbed`: while a reclaim of a name is in flight, the name is not rented
  anew (`stale_reclaim`), and no admin gives its tenancy new time, by suspending its
  TLA or by new fees.
- `CreationsPaidFor`: no creation fails once the manager has passed it on, and none is
  charged less than was sent with it (`solvency`).
- `NoEarlySales`: nobody puts a name on sale before its creation is settled
  (`orphan_sale`).
- `NamedOnceManaged`: nobody names an account their mother before the registry manages
  it (`lost_mother`).

*Types.* `TypeOK` is inductive, because `Call` says which chains carry a key and
which an account: a sale makes its buyer the owner, so the buyer must be known to
be an account. The amounts need lemmas on fees and commission, for which the
prices and shares must be natural and a commission at most its price.

*Locks.* `NoWedgedLock` is inductive relative to `TypeOK`. Most steps add no lock
and end no purchase (`LocksStayBacked`); a purchase adds one of each (`LocksBuy`);
an abort or a settlement ends a chain and lifts both locks of its key
(`SaleEnded`). That a reclaim or export in the middle removes the terms is the
case a reader would doubt, and falls under the first.

*Sales.* A lock that is backed by some purchase is not enough to say who is sold what.
`SalesInv` adds the converse: a name is in one purchase at a time, and while it has an
entry the terms of that purchase are there, locked, with its price and buyer. It is
inductive under `FreshTenancies`: every step starts no purchase (`NoNewSale`), and keeps
the terms or has a reason not to (`TermsKept`: the owner's, whom an idle lock lets
through, or the end of the tenancy or of the sale itself); a purchase finds no other
one, since that one would hold the lock (`LockedIsSettling`). `SoldAsLocked` reads the
invariant at the callback that changes the owner (`OwnerChanges`). For the refinement of
`AtomicSale`, setting terms and depositing need that a name without a lock has no deal
(`NoDealNoSale`), and settling that the terms still stand and that the deposit covers
the price (`DepositsCover`), without which the change would saturate at zero; the locks
themselves are not seen (`LocksUnseen`).

*Mothers.* `MotherCountBounded` is inductive relative to `TypeOK`, for any history of
managed and unmanaged mothers, by a lemma on how a new mother moves an account from
one set of children to another (`ChildrenMoved`) and the count at most follows
(`CountMoved`). The converse bound fails: see `lost_mother`. Under `NamedOnceManaged` it
holds of the accounts that are managed (`CountedExactly`): a name has no children when
it is entered, so nobody leaves it whom it has not counted, and from then on the count
moves exactly with the children (`CountFollows`). `MotherStaysCounted` reads it at a
mother whose owner is one of them.

*Ledger and books.* `RefundsAddUp` is inductive relative to `TypeOK`. It rests on
`SumUpdate`, a fact about the cardinality of a disjoint union. `BooksBalance` is an
action property and compares the surplus before and after each step, with sums over
creditors and over chains. It needs `ChainsCovered`: what was paid for a chain covers
the rent or price and the deposit sent with it, whatever has been sent back since; without
it a saturating subtraction in a callback would create NEAR. A chain that moves no
money is balanced by its kind (`MoneylessBalances`); each of the others has a lemma,
and the three steps of `BooksLeak` are shown to be the only exceptions. For `Solvent`,
the proof says of each of the three what it does to the surplus: one that pays for
itself never lowers it.

*Tenancies.* Both action properties follow from `TenancyInv`: `TypeOK`, a clock past
the first grace period, and a TLA for every tenancy; it is what makes a TLA that was
never activated fail the grace test of a renewal, and what lets the status of a tenancy
be computed at all. `StepKinds` sorts the steps of `Next` into those that change a TLA,
those that change an entry, and the rest. A tenancy is reclaimable in one of three ways
(`Ways`: its own term, its TLA's, its retraction), and each is kept (`TlaWayStays`,
`TermsStay`); a renewal is refused in exactly the first two, and a cancellation in the
third.

*Deletions.* For `NoStrandedTokens` the invariant is `DeletionsEmptied`: as long as no
query of a reclaim has found tokens, every allowlisted token it need not ask any more
has none of the account's. Sweeps only take tokens away, and `DeletionStep` says the
rest: a chain asks for the allowlist of its start, and no step but a query shortens it. For
`DeletesOnlyReclaimable` it is `ReclaimsDue`: the tenancy at which a reclaim is aimed
may be reclaimed still, until the account is deleted. `ReclaimableIsFinal` is what keeps
it, once the tenancy is known to be the same one (`TenancyGoesOn`).

*Custody.* That the system implements `Custody` is shown step by step, with one lemma
for each action that Custody sees and one for those it does not (`Unseen`), and no
invariant but `TypeOK`. What follows is then proved of `Custody`, whose three variables
are all there is to reason about, and carried over through the instance `CP`
(`CustodyKept`). Its invariants build on each other. `AccountInv` is about the account
alone: at most one export of it is under way, and while the account stands exactly when
the locker is Exporting; no deletion is under way with an export whose key is on the
account (an account executes its own receipts in order). So nothing can be under way at
a free account. The others are about a set of names for which keys have landed.
`RegistryInv` adds that a chain that is to release a name finds it entered, and that no
other chain is to release it; `FreedInv` that it finds the account free, if it is to
release it as exported. `KeysInv` adds the keys: a founded account has its holder's
key, or its buyer's if the locker was told first. `StandsInv` adds, if nothing is deleted
during its sale, that an account that was handed over is there until the registry
enters the buyer, which `BuyerMadeWhole` needs. They say of a name only what its own
chains do, so a key that fails elsewhere does not disturb them.

*Counts.* A place of a business TLA is taken in one step and given back in one of
three, in chains that overtake each other. `BusinessCountExact` follows from
`RegistryInv`: each of the three finds the name entered (`ReleasedIsEntered`), so none
gives back a place twice. It is proved TLA by TLA (`PlacesOfTlas`), from the names of
that TLA. In `StatsTrack` the entries counted are those whose creation is settled, and a
chain alone on its name changes them as it changes the count; it counts all names
together, and so needs the keys of all.

*Rents.* That a renter is credited fails only if the creation's callback finds its entry
gone. `CreationInv` says that the name of each creation in flight is entered and that no
other creation of it is in flight. A rent finds the name free, so it is the only one; an
entry that goes with a failed creation ends that one; and
`EntriesOutlastCreation` rules out the other ways for an entry to go.

*Sale records.* `NoOrphanSale` is not inductive: terms set during a creation outlive its
failure. Under `NoEarlySales` a name that is not entered, or whose creation is not
settled, has none (`Unsold`). Terms are set only for names that are entered
(`TermsNeedEntry`), and an entry that goes has its creation in flight or takes its terms
along (`EntryGone`).

*Resale.* None of the properties is inductive, since the key is on the account one
receipt before the lock says so. `LockInv` adds that at most one request of an account
has passed the lock (`OneSettlement`), that it is in step with the lock and the keys
(`SettlementKnows`), and that every request is for a key and no account is taken over
without one (`KeysKnown`). For the
refinement each step of the lock is a step of `OneShot` or a stutter: a request asks,
a refusal drops, AddKey hands over or, if it fails, changes nothing, and the callback
drops. A request that goes on asks for what it did (`PendingKept`); two requests for
the same pair are one to the mapping, so that the end of the first of them is a
stutter (`DroppedMaps`).

Only model-checked: the liveness properties (`ChainsEnd`, `LocksLift`,
`LapsedIsReclaimed`, `SettlementEnds`, `LockOpens`), since TLAPS does not handle
fairness. Every safety property that a passing run checks is proved.

## Not modelled, and the plan

Not modelled: views, events and error names, which change nothing; name validation,
which is string handling (names are model values); `migrate`, which compares the
contract's version with the version of this code and so always refuses on a contract
deployed from it; the integration tests, read for the intended behaviour.

What is left:

1. Runs and findings for the three hypotheses that only an argument stands for:
   `FreshTenancies` (a sale that settles on a later tenancy, which takes more steps than
   the bounds of `sale` allow), `NoDeletionInSale` and `EntriesOutlastCreation`.
2. What becomes of `StatsTrack` when a key has failed: that count is of all names
   together, and the theorem speaks of behaviours in which no key has.
