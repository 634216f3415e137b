------------------------------- MODULE HosTla -------------------------------
(***************************************************************************)
(* The whole system: the registry contract with all its handlers, the TLA  *)
(* managers, the lockers on the sub-accounts, and the network that         *)
(* delivers their receipts.                                                *)
(***************************************************************************)
EXTENDS Registry, Rental, Mother, Business, SubAccountLocker, Reclaim, Sweep,
        Marketplace, Refunds, Admin

\* A registry at rest that knows the given TLAs and, of the given keys, the
\* given entries, each held by its owner's key.  Every owner is their own
\* mother, as the rent made them.  The clock counts from 1970: what was never
\* paid for (expires_at = 0) is past any grace period.
Start(tla_entries, sub_entries) ==
    LET rented == {k \in Keys : sub_entries[k] # None}
        owners == {sub_entries[k].owner : k \in rented}
        of(t)  == {k \in rented : TlaOf[k] = t}
    IN  /\ tlas = tla_entries
        /\ sub_accounts = sub_entries
        /\ sub_account_count = Cardinality(rented)
        /\ listings = [k \in Keys |-> None]
        /\ accepted_offers = [k \in Keys |-> None]
        /\ mothers = [a \in Accounts |-> IF a \in owners THEN a ELSE None]
        /\ mother_use_count = [a \in Accounts |-> 0]
        /\ business_sub_count =
             [t \in Tlas |-> IF IsBusiness(t) THEN Cardinality(of(t)) ELSE 0]
        /\ business_sub_cap_override = [t \in Tlas |-> None]
        /\ admins = {InitialAdmin}
        /\ fee_config = InitialFees
        /\ paused = FALSE
        /\ ft_allowlist = {}
        /\ nft_allowlist = {}
        /\ balance = InitialBalance
        /\ total_revenue = 0
        /\ pending_refunds = [a \in Accounts |-> 0]
        /\ total_pending_refunds = 0
        /\ locker = [k \in Keys |-> IF k \in rented
                                    THEN [state |-> "Held",
                                          owner_key |-> sub_entries[k].owner]
                                    ELSE NoLocker]
        /\ ft = [k \in Keys |-> [t \in Tokens |-> 0]]
        /\ calls = [s \in Slots |-> NoCall]
        /\ now = GRACE_PERIOD

\* TlaRegistry::new.
Init == Start([t \in Tlas |-> None], [k \in Keys |-> None])

QueryNext ==
    \E s \in Slots, t \in Tokens, answered \in BOOLEAN : QueryBalance(s, t, answered)

\* One receipt of the chain in slot s is executed.
Deliver(s) ==
    \/ CreateSubAccount(s)
    \/ CreateAccountBatch(s)
    \/ OnSubAccountCreated(s)
    \/ OnSubAccountCreatedPanics(s)
    \/ OnSubAccountCreationFailed(s)
    \/ TransferOwnership(s)
    \/ FinalizeDelete(s)
    \/ DeleteAccount(s)
    \/ Export(s)
    \/ AddFullAccessKey(s)
    \/ OnExportResolved(s)
    \/ OnBalancesChecked(s)
    \/ OnReclaimFinalized(s)
    \/ OnExportSettled(s)
    \/ OnBuyBalancesChecked(s)
    \/ OnSaleFailed(s)
    \/ OnSubAccountSold(s)
    \/ SweepFt(s)
    \/ AfterBalanceQuery(s)
    \/ AfterStorageDeposit(s)
    \/ \E ok \in BOOLEAN : MeasureBalance(s, ok) \/ DepositStorage(s, ok) \/ TransferTokens(s, ok)
    \/ TransferRefund(s)
    \/ OnClaimRefundSettled(s)
    \/ \E t \in Tokens, answered \in BOOLEAN : QueryBalance(s, t, answered)

EnvironmentNext ==
    \/ QueryNext
    \/ \E k \in Keys, t \in Tokens : DepositToken(k, t)
    \/ Tick

Next ==
    \/ RentalNext
    \/ MotherNext
    \/ BusinessNext
    \/ LockerNext
    \/ ReclaimNext
    \/ SweepNext
    \/ MarketplaceNext
    \/ RefundsNext
    \/ AdminNext
    \/ EnvironmentNext

Spec == Init /\ [][Next]_vars

\* NEAR executes every receipt it has accepted.
Delivery == \A s \in Slots : WF_vars(Deliver(s))

\* Anybody may ask for the sweeps and the deletion of a lapsed sub-account, and
\* somebody (a keeper of the marketplace's operator) goes on doing so.
Keeper ==
    \A k \in Keys :
        /\ SF_vars(\E s \in Slots : ReclaimFinalize(s, k))
        /\ \A t \in Tokens : SF_vars(\E s \in Slots : ReclaimSweepFt(s, k, t))

\* A token contract that is asked again and again does not always fail.
TokensWork ==
    /\ \A t \in Tokens : SF_vars(\E s \in Slots : QueryBalance(s, t, TRUE))
    /\ SF_vars(\E s \in Slots : MeasureBalance(s, TRUE))
    /\ SF_vars(\E s \in Slots : DepositStorage(s, TRUE))
    /\ SF_vars(\E s \in Slots : TransferTokens(s, TRUE))
=============================================================================
