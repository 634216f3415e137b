--------------------------------- MODULE MC ---------------------------------
(***************************************************************************)
(* Values for the constants that the model-checking modules share.         *)
(***************************************************************************)
EXTENDS Properties, TLC

CONSTANTS alice, bob, hos, k1

MCTlaOf == [k \in Keys |-> hos]
MCTlaLength == [t \in Tlas |-> 5]
MCNameLength == [k \in Keys |-> 11]
Symmetry == Permutations(Slots)

\* A configuration: rent of a business sub-account and of the top two tiers,
\* creation deposit, commission in basis points, notice of a retraction.
Config(rent, deposit, bps, notice) ==
    [tla_allocation_fee |-> 0, rent_tier_5 |-> rent, rent_tier_8 |-> rent,
     rent_tier_10 |-> rent, rent_tier_12plus |-> rent, sub_fee_per_account |-> rent,
     account_creation_deposit |-> deposit, business_max_subs |-> 1,
     retraction_notice |-> notice, resale_commission_bps |-> bps]

\* An active business TLA licensed to alice, with term time units to go.
ActiveBusinessTla(term) ==
    [t \in Tlas |-> [tla_type |-> "Business", status |-> "Active", licensee |-> alice,
                     premium_category |-> "Community", expires_at |-> GRACE_PERIOD + term]]

\* alice rents every key of the set, with term time units to go.
RentedByAlice(keys, term) ==
    [k \in Keys |->
        IF k \notin keys THEN None
        ELSE [owner |-> alice, main_wallet |-> alice, rented_at |-> GRACE_PERIOD,
              expires_at |-> GRACE_PERIOD + term, retraction_at |-> None]]
=============================================================================
