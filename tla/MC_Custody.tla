------------------------------ MODULE MC_Custody ------------------------------
(***************************************************************************)
(* Rents, renewals, retractions, sweeps, reclaims and exports of the names *)
(* of one business TLA, as time passes and tokens arrive on the accounts.  *)
(***************************************************************************)
EXTENDS MC

CustodyFees == Config(0, 1, 0, 1)
CustodyFeeConfigs == {CustodyFees}

CustodyInit == Start(ActiveBusinessTla(2), [k \in Keys |-> None])

\* Of three slots one is for the rent of a new tenancy, between two chains that are
\* left of an old one.
RoomForOldChain ==
    Cardinality({s \in Slots : calls[s].kind \in {"sweep", "reclaim", "export"}}) < 2

HandlersNext ==
    \/ RentalNext
    \/ \E s \in Slots : Deliver(s)
    \/ \E k \in Keys : ScheduleRetraction(alice, k) \/ CancelRetraction(alice, k)
    \/ /\ RoomForOldChain
       /\ \E s \in Slots, k \in Keys :
             \/ ReclaimFinalize(s, k)
             \/ \E caller \in Callers : ExportSubAccount(s, caller, k)
             \/ \E t \in Tokens : ReclaimSweepFt(s, k, t)
    \/ Tick

AllQuiet == \A k \in Keys : Quiet(k)

TokensMove ==
    \/ \E t \in Tokens : AddFtAllowlist(alice, t) \/ RemoveFtAllowlist(alice, t)
    \/ \E k \in Keys, t \in Tokens : DepositToken(k, t)

\* Tokens arrive, and are allowlisted, while no chain is in flight.
CustodySpec == CustodyInit /\ [][HandlersNext \/ (AllQuiet /\ TokensMove)]_vars

\* Tokens arrive at any time; the allowlist is changed while no chain is in
\* flight.
ArrivalNext ==
    \/ HandlersNext
    \/ AllQuiet /\ \E t \in Tokens : AddFtAllowlist(alice, t)
    \/ \E k \in Keys, t \in Tokens : DepositToken(k, t)

ArrivalSpec == CustodyInit /\ [][ArrivalNext]_vars

\* No time to speak of passes while a chain is in flight, and tokens are on the
\* allowlist from the start.
PromptNext ==
    /\ HandlersNext \/ (AllQuiet /\ TokensMove)
    /\ ft_allowlist \subseteq ft_allowlist'
    /\ now' # now => AllQuiet /\ ft_allowlist # {}

PromptSpec == CustodyInit /\ [][PromptNext]_vars
==============================================================================
