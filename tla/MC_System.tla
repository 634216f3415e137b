------------------------------ MODULE MC_System ------------------------------
(***************************************************************************)
(* The whole system from its deployment on, every handler of the registry  *)
(* with every other.                                                       *)
(***************************************************************************)
EXTENDS MC

SystemFees == Config(0, 1, 0, 0)
SystemFeeConfigs == {SystemFees}

\* Rents are nothing, whatever the premium category: one of them will do.
OneCategory ==
    \A t \in Tlas : tlas[t] = None \/ tlas[t].premium_category = "Community"

\* Nothing reads the list of NFT contracts: it grows and shrinks before there is any
\* TLA.
NftsApart ==
    nft_allowlist = {} \/ \A t \in Tlas : tlas[t] = None

\* The one user signs for everybody: names are no admins, no licensees and nobody's
\* heirs to the revenue.
NamesApart ==
    /\ admins \subseteq Users
    /\ \A t \in Tlas : tlas[t] = None \/ tlas[t].licensee \in Users \cup {None}

SystemNext ==
    \/ RentalNext
    \/ MotherNext
    \/ BusinessNext
    \/ LockerNext
    \/ ReclaimNext
    \/ SweepNext
    \/ MarketplaceNext
    \/ RefundsNext /\ \A k \in Keys : pending_refunds'[k] <= pending_refunds[k]
    \/ AdminNext /\ (OneCategory /\ NftsApart /\ NamesApart)'
    \/ EnvironmentNext

SystemSpec == Init /\ [][SystemNext]_vars
==============================================================================
