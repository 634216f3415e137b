-------------------------------- MODULE Admin --------------------------------
(***************************************************************************)
(* What the admins decide (tla-registry/src/admin.rs, pause and unpause in *)
(* lib.rs).                                                                *)
(***************************************************************************)
EXTENDS Registry

\* A business TLA has a licensee.
LicenseeGiven(tla_type, licensee) == tla_type = "Business" => licensee # None

RegisterTla(caller, t, tla_type, premium, licensee) ==
    /\ caller \in admins
    /\ tlas[t] = None
    /\ LicenseeGiven(tla_type, licensee)
    /\ tlas' = [tlas EXCEPT ![t] =
         [tla_type |-> tla_type, status |-> "Registered", licensee |-> licensee,
          premium_category |-> premium, expires_at |-> 0]]
    /\ UNCHANGED <<subVars, saleVars, motherVars, businessVars, adminVars,
                   moneyVars, chainVars, calls, now>>

ActivateOpenTla(caller, t) ==
    /\ caller \in admins
    /\ tlas[t] # None
    /\ tlas[t].status = "Registered"
    /\ tlas[t].tla_type = "Open"
    /\ tlas' = [tlas EXCEPT ![t].status = "Active", ![t].expires_at = now + ONE_YEAR]
    /\ UNCHANGED <<subVars, saleVars, motherVars, businessVars, adminVars,
                   moneyVars, chainVars, calls, now>>

\* Whatever the status was, a TLA that was only registered included.
SuspendTla(caller, t) ==
    /\ caller \in admins
    /\ tlas[t] # None
    /\ tlas' = [tlas EXCEPT ![t].status = "Suspended"]
    /\ UNCHANGED <<subVars, saleVars, motherVars, businessVars, adminVars,
                   moneyVars, chainVars, calls, now>>

UnsuspendTla(caller, t) ==
    /\ caller \in admins
    /\ tlas[t] # None
    /\ tlas[t].status = "Suspended"
    /\ LicenseeGiven(tlas[t].tla_type, tlas[t].licensee)
    /\ tlas' = [tlas EXCEPT ![t].status = "Active"]
    /\ UNCHANGED <<subVars, saleVars, motherVars, businessVars, adminVars,
                   moneyVars, chainVars, calls, now>>

SetAdmins(caller, new_admins) ==
    /\ caller \in admins
    /\ admins' = new_admins
    /\ UNCHANGED <<tlaVars, subVars, saleVars, motherVars, businessVars,
                   fee_config, paused, ft_allowlist, nft_allowlist,
                   moneyVars, chainVars, calls, now>>

AddAdmin(caller, account) == SetAdmins(caller, admins \cup {account})

RemoveAdmin(caller, account) ==
    /\ Cardinality(admins) > 1
    /\ SetAdmins(caller, admins \ {account})

ValidFees(config) ==
    /\ \/ config.rent_tier_5 # 0
       \/ config.rent_tier_8 # 0
       \/ config.rent_tier_10 # 0
       \/ config.rent_tier_12plus # 0
    /\ config.account_creation_deposit # 0
    /\ config.resale_commission_bps <= BPS_DENOMINATOR

UpdateFeeConfig(caller, config) ==
    /\ caller \in admins
    /\ ValidFees(config)
    /\ fee_config' = config
    /\ UNCHANGED <<tlaVars, subVars, saleVars, motherVars, businessVars,
                   admins, paused, ft_allowlist, nft_allowlist,
                   moneyVars, chainVars, calls, now>>

\* pause and unpause.
SetPaused(caller, value) ==
    /\ caller \in admins
    /\ paused' = value
    /\ UNCHANGED <<tlaVars, subVars, saleVars, motherVars, businessVars,
                   admins, fee_config, ft_allowlist, nft_allowlist,
                   moneyVars, chainVars, calls, now>>

AddFtAllowlist(caller, t) ==
    /\ caller \in admins
    /\ t \in ft_allowlist \/ Cardinality(ft_allowlist) < MAX_ALLOWLIST_SIZE
    /\ ft_allowlist' = ft_allowlist \cup {t}
    /\ UNCHANGED <<tlaVars, subVars, saleVars, motherVars, businessVars,
                   admins, fee_config, paused, nft_allowlist, moneyVars, chainVars, calls, now>>

RemoveFtAllowlist(caller, t) ==
    /\ caller \in admins
    /\ ft_allowlist' = ft_allowlist \ {t}
    /\ UNCHANGED <<tlaVars, subVars, saleVars, motherVars, businessVars,
                   admins, fee_config, paused, nft_allowlist, moneyVars, chainVars, calls, now>>

AddNftAllowlist(caller, t) ==
    /\ caller \in admins
    /\ t \in nft_allowlist \/ Cardinality(nft_allowlist) < MAX_ALLOWLIST_SIZE
    /\ nft_allowlist' = nft_allowlist \cup {t}
    /\ UNCHANGED <<tlaVars, subVars, saleVars, motherVars, businessVars,
                   admins, fee_config, paused, ft_allowlist, moneyVars, chainVars, calls, now>>

RemoveNftAllowlist(caller, t) ==
    /\ caller \in admins
    /\ nft_allowlist' = nft_allowlist \ {t}
    /\ UNCHANGED <<tlaVars, subVars, saleVars, motherVars, businessVars,
                   admins, fee_config, paused, ft_allowlist, moneyVars, chainVars, calls, now>>

AdminNext ==
    \E caller \in Callers :
        \/ \E t \in Tlas :
              \/ \E type \in TlaTypes, premium \in PremiumCategories, l \in Accounts \cup {None} :
                    RegisterTla(caller, t, type, premium, l)
              \/ ActivateOpenTla(caller, t)
              \/ SuspendTla(caller, t)
              \/ UnsuspendTla(caller, t)
        \/ \E a \in Accounts : AddAdmin(caller, a) \/ RemoveAdmin(caller, a)
        \/ \E config \in FeeConfigs : UpdateFeeConfig(caller, config)
        \/ \E value \in BOOLEAN : SetPaused(caller, value)
        \/ \E t \in Tokens : AddFtAllowlist(caller, t) \/ RemoveFtAllowlist(caller, t)
        \/ \E t \in Nfts : AddNftAllowlist(caller, t) \/ RemoveNftAllowlist(caller, t)
==============================================================================
