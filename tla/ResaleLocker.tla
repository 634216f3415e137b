---------------------------- MODULE ResaleLocker ----------------------------
(***************************************************************************)
(* The lock on an external account that is for sale                        *)
(* (resale-locker/src/lib.rs) and the two requests by which the registry's *)
(* admins end it (tla-registry/src/resale.rs).  The requests may come from *)
(* several admins at once, and each is a chain of three receipts: at the   *)
(* locker, AddKey on the account, and the locker's callback.               *)
(*                                                                         *)
(* An account is locked by the documented recipe: it carries the locker    *)
(* and no access key.  There is always an admin (the last one cannot be    *)
(* removed), and any of them may ask, so that the guard assert_admin does  *)
(* not show here.                                                          *)
(***************************************************************************)
EXTENDS FiniteSets

CONSTANTS
    LockedAccounts,  \* accounts that carry a resale locker
    PublicKeys,
    RecoveryKey,     \* the key each locker was initialised with
    RequestSlots,    \* bound: requests in flight at once
    Nobody

ASSUME ResaleAssumption ==
    /\ RecoveryKey \in [LockedAccounts -> PublicKeys]
    /\ Nobody \notin PublicKeys

VARIABLES
    state,     \* the LockState of each account; "Gone" once its new owner has
               \* replaced the locker or deleted the account
    keys,      \* the full-access keys the locker has put on each account
    requests   \* the chain in each slot, or NoRequest

resaleVars == <<state, keys, requests>>

LockStates == {"Active", "Settling", "Settled"}
Request ==
    [kind : {"unlock", "abort"}, stage : {"dispatch", "add_key", "resolve"},
     account : LockedAccounts, key : PublicKeys \cup {Nobody}, ok : BOOLEAN]
NoRequest == [kind |-> "none"]

\* Type invariant: the locker's state and the arguments of its receipts.
ResaleTypeOK ==
    /\ state \in [LockedAccounts -> LockStates \cup {"Gone"}]
    /\ keys \in [LockedAccounts -> SUBSET PublicKeys]
    /\ requests \in [RequestSlots -> Request \cup {NoRequest}]

ResaleInit ==
    /\ state = [a \in LockedAccounts |-> "Active"]
    /\ keys = [a \in LockedAccounts |-> {}]
    /\ requests = [s \in RequestSlots |-> NoRequest]

Requested(s, kind, stage) ==
    requests[s] # NoRequest /\ requests[s].kind = kind /\ requests[s].stage = stage

Stage(s, stage) == requests[s] # NoRequest /\ requests[s].stage = stage

DropRequest(s) == requests' = [requests EXCEPT ![s] = NoRequest]

-----------------------------------------------------------------------------
(* The registry.                                                           *)

Send(s, kind, a, key) ==
    /\ requests[s] = NoRequest
    /\ requests' = [requests EXCEPT ![s] =
         [kind |-> kind, stage |-> "dispatch", account |-> a, key |-> key, ok |-> TRUE]]
    /\ UNCHANGED <<state, keys>>

ResaleUnlock(s, a, buyer_key) == Send(s, "unlock", a, buyer_key)

\* The registry does not say to which key.
ResaleAbort(s, a) == Send(s, "abort", a, Nobody)

-----------------------------------------------------------------------------
(* The locker.                                                             *)

\* Mutant: a settlement that is under way does not refuse the next.
NotSettled(a) == state[a] \in {"Active", "Settling"}

AssertActive(a) == state[a] = "Active"

\* Mutant: the lock is not taken while AddKey is under way.
SettleUnlocked(s, key) ==
    LET a == requests[s].account IN
    /\ UNCHANGED <<state, keys>>
    /\ IF AssertActive(a)
       THEN requests' = [requests EXCEPT ![s].stage = "add_key", ![s].key = key]
       ELSE DropRequest(s)

\* unlock and abort differ in the key only.  A refusal ends the request.
Settle(s, key) ==
    LET a == requests[s].account IN
    /\ UNCHANGED keys
    /\ IF AssertActive(a)
       THEN /\ state' = [state EXCEPT ![a] = "Settling"]
            /\ requests' = [requests EXCEPT ![s].stage = "add_key", ![s].key = key]
       ELSE /\ UNCHANGED state
            /\ DropRequest(s)

Unlock(s) == Requested(s, "unlock", "dispatch") /\ Settle(s, requests[s].key)

Abort(s) ==
    /\ Requested(s, "abort", "dispatch")
    /\ Settle(s, RecoveryKey[requests[s].account])

\* AddKey fails if the account has the key, does not exist, or cannot pay for
\* the storage.
AddKey(s, paid) ==
    LET a == requests[s].account
        key == requests[s].key
        ok == paid /\ key \notin keys[a] /\ state[a] # "Gone"
    IN  /\ Stage(s, "add_key")
        /\ keys' = IF ok THEN [keys EXCEPT ![a] = @ \cup {key}] ELSE keys
        /\ requests' = [requests EXCEPT ![s].stage = "resolve", ![s].ok = ok]
        /\ UNCHANGED state

\* The outcome of a settlement; nothing if the locker is gone.
Resolve(s, success, failure) ==
    LET a == requests[s].account IN
    /\ Stage(s, "resolve")
    /\ state' = IF state[a] = "Gone" THEN state
                ELSE [state EXCEPT ![a] = IF requests[s].ok THEN success ELSE failure]
    /\ DropRequest(s)
    /\ UNCHANGED keys

\* Mutants: a failure returns early; the result is not looked at.
OnSettleResolvedStuck(s) == Resolve(s, "Settled", "Settling")
OnSettleResolvedUnchecked(s) == Resolve(s, "Settled", "Settled")

\* A settlement that failed leaves the lock as it was before.
OnSettleResolved(s) == Resolve(s, "Settled", "Active")

\* Whoever holds a key may do with the account as they like, the locker's
\* callback still under way or not.
TakeOver(a) ==
    /\ keys[a] # {}
    /\ state' = [state EXCEPT ![a] = "Gone"]
    /\ UNCHANGED <<keys, requests>>

DeliverRequest(s) ==
    \/ Unlock(s)
    \/ Abort(s)
    \/ \E paid \in BOOLEAN : AddKey(s, paid)
    \/ OnSettleResolved(s)

ResaleNext ==
    \/ \E s \in RequestSlots, a \in LockedAccounts :
          \/ \E k \in PublicKeys : ResaleUnlock(s, a, k)
          \/ ResaleAbort(s, a)
    \/ \E s \in RequestSlots : DeliverRequest(s)
    \/ \E a \in LockedAccounts : TakeOver(a)

ResaleSpec == ResaleInit /\ [][ResaleNext]_resaleVars

\* NEAR executes every receipt it has accepted.
RequestDelivery == \A s \in RequestSlots : WF_resaleVars(DeliverRequest(s))

\* The admins go on asking for an abort as long as an account is locked, and
\* AddKey does not always fail for want of storage.
Persistence ==
    \A a \in LockedAccounts :
        /\ SF_resaleVars(\E s \in RequestSlots : ResaleAbort(s, a))
        /\ SF_resaleVars(\E s \in RequestSlots :
                            requests[s] # NoRequest /\ requests[s].account = a
                            /\ AddKey(s, TRUE))

-----------------------------------------------------------------------------
(* Properties.                                                             *)

\* One-shot exclusivity: an unlock and an abort that race, or come one after the
\* other, never put two keys on an account.
AtMostOneKey == \A a \in LockedAccounts : \A k, l \in keys[a] : k = l

\* A lock is open for another attempt only while no key has been added, and is
\* closed for good only once one has: no account is sold twice or locked for ever.
StateMatchesKeys ==
    \A a \in LockedAccounts :
        /\ state[a] = "Active" => keys[a] = {}
        /\ state[a] = "Settled" => keys[a] # {}

KeyOf(r) == IF r.kind = "abort" THEN RecoveryKey[r.account] ELSE r.key

PendingHandOvers ==
    {<<requests[s].account, KeyOf(requests[s])>> :
        s \in {x \in RequestSlots : requests[x] # NoRequest}}

Holder(held) == IF held = {} THEN Nobody ELSE CHOOSE k \in PublicKeys : k \in held

HandOvers == INSTANCE OneShot WITH
    pending <- PendingHandOvers,
    holder  <- [a \in LockedAccounts |-> Holder(keys[a])]

\* The locker with its two-step settlement implements the one-shot hand-over: an
\* account goes to one key at most, one that the registry asked for, and an abort
\* gives it to nobody but the holder of the recovery key.
LockIsOneShot == HandOvers!Spec

\* Under RequestDelivery: no settlement leaves the lock in Settling, where every
\* further unlock and abort is refused.
SettlementEnds == \A a \in LockedAccounts : state[a] = "Settling" ~> state[a] # "Settling"

\* Under Persistence too: whatever fails on the way, a locked account is opened.
LockOpens == \A a \in LockedAccounts : <>(keys[a] # {})
=============================================================================
