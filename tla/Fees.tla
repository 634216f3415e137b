-------------------------------- MODULE Fees --------------------------------
(***************************************************************************)
(* The price of a TLA and of a sub-account (tla-registry/src/fees.rs).     *)
(* Amounts are natural numbers: nobody can attach more NEAR than exists,   *)
(* and the supply is far below 2^128, so a saturated product is a price    *)
(* nobody pays.                                                            *)
(***************************************************************************)
EXTENDS Integers

PremiumCategories == {"Legendary", "Premium", "Standard", "Community"}

\* PremiumCategory::multiplier, a numerator and a denominator.
Multiplier(premium) ==
    IF premium = "Legendary" THEN <<5, 1>>
    ELSE IF premium = "Premium" THEN <<3, 1>>
    ELSE IF premium = "Standard" THEN <<3, 2>>
    ELSE <<0, 1>>

\* The rent tier of a name of len characters.
BaseRent(len, config) ==
    IF len <= 5 THEN config.rent_tier_5
    ELSE IF len <= 8 THEN config.rent_tier_8
    ELSE IF len <= 10 THEN config.rent_tier_10
    ELSE config.rent_tier_12plus

SubAccountRent(len, premium, config) ==
    (BaseRent(len, config) * Multiplier(premium)[1]) \div Multiplier(premium)[2]

\* len is the length of the full name, "name.tla".
CalculateRent(tla, len, config) ==
    IF tla.tla_type = "Business" THEN config.sub_fee_per_account
    ELSE SubAccountRent(len, tla.premium_category, config)

BPS_DENOMINATOR == 10000

\* What the registry keeps of a resale.
Commission(price, config) ==
    LET share == (price * config.resale_commission_bps) \div BPS_DENOMINATOR
    IN  IF share > price THEN price ELSE share
=============================================================================
