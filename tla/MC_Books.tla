------------------------------- MODULE MC_Books -------------------------------
(***************************************************************************)
(* Everything that moves NEAR: activation, rents, renewals, one sale,      *)
(* withdrawals and claims, under fees that the admin may change at any     *)
(* time.                                                                   *)
(***************************************************************************)
EXTENDS MC

CheapFees == Config(1, 1, 0, 1)
DearFees == Config(1, 2, 10000, 1)
BooksFeeConfigs == {CheapFees, DearFees}

RegisteredBusinessTla ==
    [t \in Tlas |-> [tla_type |-> "Business", status |-> "Registered",
                     licensee |-> alice, premium_category |-> "Community",
                     expires_at |-> 0]]

BooksInit == Start(RegisteredBusinessTla, [k \in Keys |-> None])

BooksNext ==
    \/ \E d \in Deposits :
          \/ ActivateTla(alice, hos, d)
          \/ RenewTla(alice, hos, d)
          \/ \E k \in Keys, u \in Users : RenewSubAccount(u, k, d)
          \/ \E s \in Slots, k \in Keys : RentSubAccount(s, alice, k, alice, d)
    \/ \E k \in Keys, p \in Prices : ListSubAccount(alice, k, p)
    \/ \E s \in Slots, k \in Keys, d \in Deposits : BuySubAccount(s, bob, k, d)
    \/ \E s \in Slots : Deliver(s)
    \/ \E u \in Users :
          \/ \E s \in Slots : ClaimRefund(s, u)
          \/ \E d \in Deposits : Withdraw(alice, d, u)
    \/ \E config \in FeeConfigs : UpdateFeeConfig(alice, config)

BooksSpec == BooksInit /\ [][BooksNext]_vars
==============================================================================
