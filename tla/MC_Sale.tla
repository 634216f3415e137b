------------------------------- MODULE MC_Sale -------------------------------
(***************************************************************************)
(* Sales of one rented sub-account among two users, with exports by an     *)
(* admin and a token that comes and goes on the allowlist.                 *)
(***************************************************************************)
EXTENDS MC

SaleFees == Config(1, 1, 5000, 1)
SaleFeeConfigs == {SaleFees}

SaleInit == Start(ActiveBusinessTla(1), RentedByAlice({k1}, 1))

SaleNext ==
    \/ MarketplaceNext
    \/ LockerNext
    \/ \E s \in Slots : ExportSubAccount(s, alice, k1)
    \/ \E s \in Slots : OnExportSettled(s)
    \/ \E t \in Tokens : AddFtAllowlist(alice, t) \/ RemoveFtAllowlist(alice, t)
    \/ \E k \in Keys, t \in Tokens : DepositToken(k, t)
    \/ QueryNext

SaleSpec == SaleInit /\ [][SaleNext]_vars
==============================================================================
