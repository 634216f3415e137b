------------------------------ MODULE Lifecycle ------------------------------
(***************************************************************************)
(* The clock-dependent status of a top-level account (TLA) and of a        *)
(* sub-account, as tla-registry/src/types.rs and mother.rs compute it.     *)
(* Timestamps are natural numbers; the code's saturating u64 additions     *)
(* never saturate for block timestamps (a u64 of nanoseconds ends in 2554).*)
(***************************************************************************)
EXTENDS Naturals

CONSTANTS
    ONE_YEAR,      \* ONE_YEAR_NS: what one rent or renewal buys
    GRACE_PERIOD,  \* GRACE_PERIOD_NS: how long a lapsed entry may be renewed
    None           \* the absent value of the code's Option and map lookups

ASSUME LifecycleAssumption ==
    /\ ONE_YEAR \in Nat \ {0}
    /\ GRACE_PERIOD \in Nat \ {0}

TlaTypes == {"Business", "Open"}
TlaStatuses == {"Registered", "Active", "Suspended"}
LifecycleStatuses == {"Registered", "Active", "Grace", "Reclaimable", "Suspended"}

\* Where the clock stands with respect to an expiry and its grace period.
ExpiryLifecycle(expires_at, now) ==
    IF now < expires_at THEN "Active"
    ELSE IF now < expires_at + GRACE_PERIOD THEN "Grace"
    ELSE "Reclaimable"

SubLifecycle(sub, now) == ExpiryLifecycle(sub.expires_at, now)

TlaLifecycle(tla, now) ==
    IF tla.status = "Active" THEN ExpiryLifecycle(tla.expires_at, now)
    ELSE tla.status

IsAcceptingRentals(tla, now) ==
    /\ tla.status = "Active"
    /\ now < tla.expires_at

\* Mutant: the last moment of the grace period counted twice.
PastGraceLate(expires_at, now) == now > expires_at + GRACE_PERIOD

PastGrace(expires_at, now) == now >= expires_at + GRACE_PERIOD

RetractionElapsed(sub, now, notice) ==
    /\ sub.retraction_at # None
    /\ now >= sub.retraction_at + notice

\* A sub-account is reclaimable through its TLA, its retraction or its own
\* expiry, in the order in which the code looks.
EffectiveSubLifecycle(sub, tla, notice, now) ==
    IF \/ TlaLifecycle(tla, now) = "Reclaimable"
       \/ RetractionElapsed(sub, now, notice)
    THEN "Reclaimable"
    ELSE SubLifecycle(sub, now)
==============================================================================
