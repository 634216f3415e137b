------------------------ MODULE ResaleLocker_proofs ------------------------
(***************************************************************************)
(* The lock on an account for sale is one-shot.  The invariant says what a *)
(* settlement under way knows: that it is the only one on its account, and *)
(* which keys the account has before and after its AddKey.                 *)
(***************************************************************************)
EXTENDS ResaleLocker, TLAPS

\* The request in slot s has taken the lock of its account.
Settles(s) == Stage(s, "add_key") \/ Stage(s, "resolve")

OneSettlement ==
    \A s, z \in RequestSlots :
        Settles(s) /\ Settles(z) /\ requests[s].account = requests[z].account => s = z

Knows(s) ==
    LET r == requests[s]
        a == r.account
    IN  /\ Settles(s) => state[a] \in {"Settling", "Gone"} /\ r.key = KeyOf(r)
        /\ Stage(s, "add_key") => keys[a] = {}
        /\ Stage(s, "resolve") => keys[a] = IF r.ok THEN {r.key} ELSE {}

SettlementKnows == \A s \in RequestSlots : Knows(s)

\* Every request is for a key, and whoever took an account over had one.
KeysKnown ==
    /\ \A s \in RequestSlots : requests[s] # NoRequest => KeyOf(requests[s]) \in PublicKeys
    /\ \A a \in LockedAccounts : state[a] = "Gone" => keys[a] # {}

LockInv ==
    /\ ResaleTypeOK
    /\ StateMatchesKeys
    /\ AtMostOneKey
    /\ OneSettlement
    /\ SettlementKnows
    /\ KeysKnown

-----------------------------------------------------------------------------
LEMMA RequestFields ==
    ASSUME ResaleTypeOK, NEW s \in RequestSlots, requests[s] # NoRequest
    PROVE  /\ requests[s] \in Request
           /\ requests[s].account \in LockedAccounts
           /\ requests[s].key \in PublicKeys \cup {Nobody}
           /\ requests[s].ok \in BOOLEAN
           /\ requests[s].kind \in {"unlock", "abort"}
           /\ requests[s].kind # "none"
BY DEF ResaleTypeOK, Request

\* Settlements of other accounts are not disturbed.
LEMMA OtherKnows ==
    ASSUME NEW z, Knows(z), requests'[z] = requests[z],
           Settles(z) => /\ state'[requests[z].account] = state[requests[z].account]
                         /\ keys'[requests[z].account] = keys[requests[z].account]
    PROVE  Knows(z)'
BY DEF Knows, Settles, Stage, KeyOf

LEMMA InvInit == ResaleInit => LockInv
BY DEF ResaleInit, LockInv, ResaleTypeOK, StateMatchesKeys, AtMostOneKey, OneSettlement,
       SettlementKnows, Knows, KeysKnown, Settles, Stage, LockStates

\* A request is sent: it has taken no lock yet.
LEMMA InvSend ==
    ASSUME LockInv, NEW s \in RequestSlots, NEW kind \in {"unlock", "abort"},
           NEW a \in LockedAccounts, NEW key \in PublicKeys \cup {Nobody},
           kind = "unlock" => key \in PublicKeys, Send(s, kind, a, key)
    PROVE  LockInv'
<1> DEFINE r == [kind |-> kind, stage |-> "dispatch", account |-> a, key |-> key, ok |-> TRUE]
<1>1. /\ requests' = [requests EXCEPT ![s] = r]
      /\ state' = state /\ keys' = keys
  BY DEF Send
<1>2. ResaleTypeOK'
  BY <1>1 DEF LockInv, ResaleTypeOK, Request
<1>3. StateMatchesKeys' /\ AtMostOneKey'
  BY <1>1 DEF LockInv, StateMatchesKeys, AtMostOneKey
<1>4. \A z \in RequestSlots : z # s => requests'[z] = requests[z]
  BY <1>1 DEF LockInv, ResaleTypeOK
<1>5. requests'[s] = r
  BY <1>1 DEF LockInv, ResaleTypeOK
<1>6. ~Settles(s)' /\ ~Stage(s, "add_key")' /\ ~Stage(s, "resolve")'
  BY <1>5 DEF Settles, Stage
<1>7. OneSettlement' /\ SettlementKnows'
  <2>1. OneSettlement'
    BY <1>4, <1>6 DEF LockInv, OneSettlement, Settles, Stage
  <2>2. Knows(s)'
    BY <1>6 DEF Knows
  <2>3. ASSUME NEW z \in RequestSlots, z # s
        PROVE  Knows(z)'
    BY <1>1, <1>4, <2>3, OtherKnows DEF LockInv, SettlementKnows
  <2> QED  BY <2>1, <2>2, <2>3 DEF SettlementKnows
<1>8. KeyOf(r) \in PublicKeys
  BY ResaleAssumption DEF KeyOf
<1>9. KeysKnown'
  BY <1>1, <1>4, <1>5, <1>8 DEF LockInv, KeysKnown, KeyOf
<1> QED  BY <1>2, <1>3, <1>7, <1>9 DEF LockInv

\* A request is dropped, on an account where nothing changes.
LEMMA InvDrop ==
    ASSUME LockInv, NEW s \in RequestSlots, DropRequest(s), UNCHANGED <<state, keys>>
    PROVE  LockInv'
<1>1. ResaleTypeOK'
  BY DEF LockInv, ResaleTypeOK, DropRequest
<1>2. \A z \in RequestSlots : requests'[z] = IF z = s THEN NoRequest ELSE requests[z]
  BY DEF LockInv, ResaleTypeOK, DropRequest
<1>3. StateMatchesKeys' /\ AtMostOneKey'
  BY DEF LockInv, StateMatchesKeys, AtMostOneKey
<1>4. OneSettlement' /\ KeysKnown'
  BY <1>2 DEF LockInv, OneSettlement, KeysKnown, Settles, Stage, KeyOf
<1>5. Knows(s)'
  BY <1>2 DEF Knows, Settles, Stage
<1>6. SettlementKnows'
  BY <1>2, <1>5, OtherKnows DEF LockInv, SettlementKnows
<1> QED  BY <1>1, <1>3, <1>4, <1>6 DEF LockInv

\* A settlement begins on an account in state Active, that is without a key and
\* without another settlement.
LEMMA InvSettle ==
    ASSUME LockInv, NEW s \in RequestSlots, NEW key, Stage(s, "dispatch"),
           key = KeyOf(requests[s]), Settle(s, key)
    PROVE  LockInv'
<1> DEFINE a == requests[s].account
           r == [requests[s] EXCEPT !.stage = "add_key", !.key = key]
<1>1. /\ requests[s] \in Request
      /\ a \in LockedAccounts
      /\ key \in PublicKeys
  BY RequestFields DEF LockInv, KeysKnown, Stage
<1>2. CASE ~AssertActive(a)
  BY <1>2, InvDrop DEF Settle
<1>3. CASE AssertActive(a)
  <2>1. /\ state' = [state EXCEPT ![a] = "Settling"]
        /\ requests' = [requests EXCEPT ![s].stage = "add_key", ![s].key = key]
        /\ keys' = keys
    BY <1>3 DEF Settle
  <2>2. state[a] = "Active" /\ keys[a] = {}
    BY <1>1, <1>3 DEF AssertActive, LockInv, StateMatchesKeys
  <2>3. /\ requests'[s].kind = requests[s].kind
        /\ requests'[s].account = a
        /\ requests'[s].stage = "add_key"
        /\ requests'[s].key = key
        /\ requests'[s] \in Request
    BY <1>1, <2>1 DEF LockInv, ResaleTypeOK, Request
  <2>4. \A z \in RequestSlots : z # s => requests'[z] = requests[z]
    BY <2>1 DEF LockInv, ResaleTypeOK
  <2>5. ResaleTypeOK'
    BY <1>1, <2>1, <2>3, <2>4 DEF LockInv, ResaleTypeOK, LockStates
  <2>6. \A b \in LockedAccounts : state'[b] = IF b = a THEN "Settling" ELSE state[b]
    BY <2>1 DEF LockInv, ResaleTypeOK
  <2>7. StateMatchesKeys' /\ AtMostOneKey'
    BY <2>1, <2>6 DEF LockInv, StateMatchesKeys, AtMostOneKey
  <2>8. ASSUME NEW z \in RequestSlots, z # s, Settles(z)'
        PROVE  Settles(z) /\ requests[z].account \in LockedAccounts /\ requests[z].account # a
    <3>1. Settles(z)
      BY <2>4, <2>8 DEF Settles, Stage
    <3>2. requests[z].account \in LockedAccounts
      BY <2>8, <3>1, RequestFields DEF LockInv, Settles, Stage
    <3> QED  BY <2>2, <2>8, <3>1, <3>2 DEF LockInv, SettlementKnows, Knows
  <2>9. OneSettlement'
    BY <2>3, <2>4, <2>8 DEF LockInv, OneSettlement, Settles, Stage
  <2>10. KeyOf(requests'[s]) = key
    BY <2>3 DEF KeyOf
  <2>11. SettlementKnows'
    <3>1. Knows(s)'
      BY <1>1, <2>1, <2>2, <2>3, <2>6, <2>10 DEF Knows, Stage
    <3>2. ASSUME NEW z \in RequestSlots, z # s
          PROVE  Knows(z)'
      <4>1. Settles(z)' <=> Settles(z)
        BY <2>4, <3>2 DEF Settles, Stage
      <4> QED  BY <2>1, <2>4, <2>6, <2>8, <3>2, <4>1, OtherKnows DEF LockInv, SettlementKnows
    <3> QED  BY <3>1, <3>2 DEF SettlementKnows
  <2>12. KeysKnown'
    <3>1. ASSUME NEW z \in RequestSlots, requests'[z] # NoRequest
          PROVE  KeyOf(requests'[z]) \in PublicKeys
      BY <1>1, <2>4, <2>10, <3>1 DEF LockInv, KeysKnown
    <3>2. ASSUME NEW b \in LockedAccounts, state'[b] = "Gone"
          PROVE  keys'[b] # {}
      BY <2>1, <2>6, <3>2 DEF LockInv, KeysKnown
    <3> QED  BY <3>1, <3>2 DEF KeysKnown
  <2> QED  BY <2>5, <2>7, <2>9, <2>11, <2>12 DEF LockInv
<1> QED  BY <1>2, <1>3

LEMMA InvAddKey ==
    ASSUME LockInv, NEW s \in RequestSlots, NEW paid \in BOOLEAN, AddKey(s, paid)
    PROVE  LockInv'
<1> DEFINE a == requests[s].account
           key == requests[s].key
           ok == paid /\ key \notin keys[a] /\ state[a] # "Gone"
<1>1. /\ Stage(s, "add_key")
      /\ keys' = IF ok THEN [keys EXCEPT ![a] = @ \cup {key}] ELSE keys
      /\ requests' = [requests EXCEPT ![s].stage = "resolve", ![s].ok = ok]
      /\ state' = state
  BY DEF AddKey
<1>2. /\ requests[s] \in Request
      /\ a \in LockedAccounts
  BY <1>1, RequestFields DEF LockInv, Stage
<1>3. /\ key = KeyOf(requests[s])
      /\ key \in PublicKeys
      /\ keys[a] = {}
      /\ state[a] = "Settling"
  BY <1>1, <1>2 DEF LockInv, SettlementKnows, Knows, KeysKnown, Settles, Stage
<1>4. ok \in BOOLEAN
  OBVIOUS
<1> HIDE DEF ok
<1>5. /\ requests'[s] \in Request
      /\ requests'[s].kind = requests[s].kind
      /\ requests'[s].account = a
      /\ requests'[s].key = key
      /\ requests'[s].stage = "resolve"
      /\ requests'[s].ok = ok
  BY <1>1, <1>2, <1>4 DEF LockInv, ResaleTypeOK, Request
<1>6. \A z \in RequestSlots : z # s => requests'[z] = requests[z]
  BY <1>1 DEF LockInv, ResaleTypeOK
<1>7. /\ keys' \in [LockedAccounts -> SUBSET PublicKeys]
      /\ keys'[a] = IF ok THEN {key} ELSE {}
      /\ \A b \in LockedAccounts : b # a => keys'[b] = keys[b]
  BY <1>1, <1>2, <1>3, <1>4 DEF LockInv, ResaleTypeOK
<1>8. ResaleTypeOK'
  BY <1>1, <1>5, <1>6, <1>7 DEF LockInv, ResaleTypeOK
<1>9. StateMatchesKeys' /\ AtMostOneKey'
  BY <1>1, <1>3, <1>4, <1>7 DEF LockInv, StateMatchesKeys, AtMostOneKey
<1>10. ASSUME NEW z \in RequestSlots, z # s, Settles(z)'
       PROVE  Settles(z) /\ requests[z].account \in LockedAccounts /\ requests[z].account # a
  <2>1. Settles(z)
    BY <1>6, <1>10 DEF Settles, Stage
  <2>2. requests[z].account \in LockedAccounts
    BY <1>10, <2>1, RequestFields DEF LockInv, Settles, Stage
  <2> QED  BY <1>1, <1>10, <2>1, <2>2 DEF LockInv, OneSettlement, Settles
<1>11. OneSettlement'
  BY <1>5, <1>6, <1>10 DEF LockInv, OneSettlement, Settles, Stage
<1>12. SettlementKnows'
  <2>1. KeyOf(requests'[s]) = key
    BY <1>3, <1>5 DEF KeyOf
  <2>2. Knows(s)'
    BY <1>1, <1>3, <1>5, <1>7, <2>1 DEF Knows, Stage
  <2>3. ASSUME NEW z \in RequestSlots, z # s
        PROVE  Knows(z)'
    <3>1. Settles(z)' <=> Settles(z)
      BY <1>6, <2>3 DEF Settles, Stage
    <3> QED  BY <1>1, <1>6, <1>7, <1>10, <2>3, <3>1, OtherKnows DEF LockInv, SettlementKnows
  <2> QED  BY <2>2, <2>3 DEF SettlementKnows
<1>13. KeysKnown'
  <2>1. ASSUME NEW z \in RequestSlots, requests'[z] # NoRequest
        PROVE  KeyOf(requests'[z]) \in PublicKeys
    BY <1>3, <1>5, <1>6, <2>1 DEF LockInv, KeysKnown, KeyOf
  <2>2. ASSUME NEW b \in LockedAccounts, state'[b] = "Gone"
        PROVE  keys'[b] # {}
    BY <1>1, <1>3, <1>7, <2>2 DEF LockInv, KeysKnown
  <2> QED  BY <2>1, <2>2 DEF KeysKnown
<1> QED  BY <1>8, <1>9, <1>11, <1>12, <1>13 DEF LockInv

\* A settlement ends: the state of its account follows the key that was added or not.
LEMMA InvResolve ==
    ASSUME LockInv, NEW s \in RequestSlots, OnSettleResolved(s)
    PROVE  LockInv'
<1> DEFINE a == requests[s].account
<1>1. /\ Stage(s, "resolve")
      /\ state' = IF state[a] = "Gone" THEN state
                  ELSE [state EXCEPT ![a] = IF requests[s].ok THEN "Settled" ELSE "Active"]
      /\ requests' = [requests EXCEPT ![s] = NoRequest]
      /\ keys' = keys
  BY DEF OnSettleResolved, Resolve, DropRequest
<1>2. /\ a \in LockedAccounts
      /\ requests[s].ok \in BOOLEAN
  BY <1>1, RequestFields DEF LockInv, Stage
<1>3. keys[a] = IF requests[s].ok THEN {requests[s].key} ELSE {}
  BY <1>1 DEF LockInv, SettlementKnows, Knows
<1>4. \A z \in RequestSlots : requests'[z] = IF z = s THEN NoRequest ELSE requests[z]
  BY <1>1 DEF LockInv, ResaleTypeOK
<1>5. \A b \in LockedAccounts :
        /\ b # a => state'[b] = state[b]
        /\ state'[b] = "Gone" => state[b] = "Gone"
        /\ state'[b] = "Active" => keys[b] = {}
        /\ state'[b] = "Settled" => keys[b] # {}
  BY <1>1, <1>2, <1>3 DEF LockInv, ResaleTypeOK, StateMatchesKeys
<1>6. ResaleTypeOK'
  BY <1>1, <1>2 DEF LockInv, ResaleTypeOK, LockStates
<1>7. StateMatchesKeys' /\ AtMostOneKey'
  BY <1>1, <1>5 DEF LockInv, StateMatchesKeys, AtMostOneKey
<1>8. ASSUME NEW z \in RequestSlots, Settles(z)'
      PROVE  /\ z # s
             /\ Settles(z)
             /\ requests[z].account \in LockedAccounts
             /\ requests[z].account # a
  <2>1. z # s /\ Settles(z)
    BY <1>4, <1>8 DEF Settles, Stage
  <2>2. requests[z].account \in LockedAccounts
    BY <2>1, RequestFields DEF LockInv, Settles, Stage
  <2> QED  BY <1>1, <2>1, <2>2 DEF LockInv, OneSettlement, Settles
<1>9. OneSettlement'
  BY <1>4, <1>8 DEF LockInv, OneSettlement
<1>10. SettlementKnows'
  <2>1. Knows(s)'
    BY <1>4 DEF Knows, Settles, Stage
  <2>2. ASSUME NEW z \in RequestSlots, z # s
        PROVE  Knows(z)'
    <3>1. Settles(z)' <=> Settles(z)
      BY <1>4, <2>2 DEF Settles, Stage
    <3> QED  BY <1>1, <1>4, <1>5, <1>8, <2>2, <3>1, OtherKnows DEF LockInv, SettlementKnows
  <2> QED  BY <2>1, <2>2 DEF SettlementKnows
<1>11. KeysKnown'
  BY <1>1, <1>4, <1>5 DEF LockInv, KeysKnown, KeyOf
<1> QED  BY <1>6, <1>7, <1>9, <1>10, <1>11 DEF LockInv

LEMMA InvTakeOver ==
    ASSUME LockInv, NEW a \in LockedAccounts, TakeOver(a)
    PROVE  LockInv'
<1>1. /\ keys[a] # {}
      /\ state' = [state EXCEPT ![a] = "Gone"]
      /\ keys' = keys /\ requests' = requests
  BY DEF TakeOver
<1>2. \A b \in LockedAccounts : state'[b] = IF b = a THEN "Gone" ELSE state[b]
  BY <1>1 DEF LockInv, ResaleTypeOK
<1>3. ResaleTypeOK'
  BY <1>1 DEF LockInv, ResaleTypeOK
<1>4. StateMatchesKeys' /\ AtMostOneKey' /\ OneSettlement' /\ KeysKnown'
  BY <1>1, <1>2 DEF LockInv, StateMatchesKeys, AtMostOneKey, OneSettlement, KeysKnown,
                    Settles, Stage
<1>5. ASSUME NEW s \in RequestSlots, Settles(s)
      PROVE  requests[s].account \in LockedAccounts
  BY <1>5, RequestFields DEF LockInv, Settles, Stage
<1>6. SettlementKnows'
  BY <1>1, <1>2, <1>5 DEF LockInv, SettlementKnows, Knows, Settles, Stage, KeyOf
<1> QED  BY <1>3, <1>4, <1>6 DEF LockInv

LEMMA InvNext ==
    ASSUME LockInv, [ResaleNext]_resaleVars
    PROVE  LockInv'
<1>1. CASE UNCHANGED resaleVars
  BY <1>1 DEF resaleVars, LockInv, ResaleTypeOK, StateMatchesKeys, AtMostOneKey,
              OneSettlement, SettlementKnows, Knows, KeysKnown, Settles, Stage, KeyOf
<1>2. ASSUME NEW s \in RequestSlots, NEW a \in LockedAccounts, NEW k \in PublicKeys,
             ResaleUnlock(s, a, k)
      PROVE  LockInv'
  BY <1>2, InvSend DEF ResaleUnlock
<1>3. ASSUME NEW s \in RequestSlots, NEW a \in LockedAccounts, ResaleAbort(s, a)
      PROVE  LockInv'
  BY <1>3, InvSend DEF ResaleAbort
<1>4. ASSUME NEW s \in RequestSlots, Unlock(s)
      PROVE  LockInv'
  <2>1. Stage(s, "dispatch") /\ requests[s].key = KeyOf(requests[s])
    BY <1>4 DEF Unlock, Requested, Stage, KeyOf
  <2> QED  BY <1>4, <2>1, InvSettle DEF Unlock
<1>5. ASSUME NEW s \in RequestSlots, Abort(s)
      PROVE  LockInv'
  <2>1. Stage(s, "dispatch") /\ RecoveryKey[requests[s].account] = KeyOf(requests[s])
    BY <1>5 DEF Abort, Requested, Stage, KeyOf
  <2> QED  BY <1>5, <2>1, InvSettle DEF Abort
<1> QED
  BY <1>1, <1>2, <1>3, <1>4, <1>5, InvAddKey, InvResolve, InvTakeOver
  DEF ResaleNext, DeliverRequest

LEMMA LockInvHolds == ResaleSpec => []LockInv
<1>1. LockInv /\ [ResaleNext]_resaleVars => LockInv'
  BY InvNext
<1> QED  BY InvInit, <1>1, PTL DEF ResaleSpec

\* For any number of accounts, of keys and of requests in flight, and whatever fails:
\* the requests and the locks keep their types.
THEOREM ResaleTypeCorrect == ResaleSpec => []ResaleTypeOK
<1>1. LockInv => ResaleTypeOK
  BY DEF LockInv
<1> QED  BY <1>1, LockInvHolds, PTL

\* No unlock and no abort adds a second key to an account, however they race.
THEOREM NeverTwoKeys == ResaleSpec => []AtMostOneKey
<1>1. LockInv => AtMostOneKey
  BY DEF LockInv
<1> QED  BY <1>1, LockInvHolds, PTL

\* The lock says what the account's keys are: it is open again after a failure, and
\* closed for good only with a key on the account.
THEOREM LockMatchesKeys == ResaleSpec => []StateMatchesKeys
<1>1. LockInv => StateMatchesKeys
  BY DEF LockInv
<1> QED  BY <1>1, LockInvHolds, PTL

-----------------------------------------------------------------------------
(* The refinement of OneShot.                                              *)

LEMMA HolderOfOne ==
    ASSUME NEW k \in PublicKeys
    PROVE  Holder({k}) = k
BY DEF Holder

LEMMA SentMaps ==
    ASSUME LockInv, NEW s \in RequestSlots, NEW kind \in {"unlock", "abort"},
           NEW a \in LockedAccounts, NEW key \in PublicKeys \cup {Nobody},
           kind = "unlock" => key \in PublicKeys, Send(s, kind, a, key)
    PROVE  HandOvers!Next
<1> DEFINE r == [kind |-> kind, stage |-> "dispatch", account |-> a, key |-> key, ok |-> TRUE]
<1>1. /\ requests' = [requests EXCEPT ![s] = r]
      /\ requests[s] = NoRequest /\ keys' = keys
  BY DEF Send
<1>2. \A z \in RequestSlots : requests'[z] = IF z = s THEN r ELSE requests[z]
  BY <1>1 DEF LockInv, ResaleTypeOK
<1>3. PICK k \in PublicKeys : k = KeyOf(r)
  BY ResaleAssumption DEF KeyOf
<1>4. PendingHandOvers' = PendingHandOvers \cup {<<a, k>>}
  <2>1. r.kind # "none" /\ r.account = a
    OBVIOUS
  <2> HIDE DEF r
  <2>2. ASSUME NEW p
        PROVE  p \in PendingHandOvers' <=> p \in PendingHandOvers \/ p = <<a, k>>
    BY <1>1, <1>2, <1>3, <2>1 DEF PendingHandOvers, NoRequest
  <2> QED  BY <2>2
<1>5. [b \in LockedAccounts |-> Holder(keys[b])]' = [b \in LockedAccounts |-> Holder(keys[b])]
  BY <1>1
<1> QED  BY <1>4, <1>5 DEF HandOvers!Next, HandOvers!Ask

\* A request is dropped: another for the same key may be left.
LEMMA DroppedMaps ==
    ASSUME LockInv, NEW s \in RequestSlots, requests[s] # NoRequest, DropRequest(s), keys' = keys
    PROVE  [HandOvers!Next]_(HandOvers!handover)
<1> DEFINE a == requests[s].account
           k == KeyOf(requests[s])
<1>1. a \in LockedAccounts /\ k \in PublicKeys
  BY RequestFields DEF LockInv, KeysKnown
<1>2. \A z \in RequestSlots : requests'[z] = IF z = s THEN NoRequest ELSE requests[z]
  BY DEF LockInv, ResaleTypeOK, DropRequest
<1>3. [b \in LockedAccounts |-> Holder(keys[b])]' = [b \in LockedAccounts |-> Holder(keys[b])]
  OBVIOUS
<1>4. ASSUME NEW p
      PROVE  /\ p \in PendingHandOvers' => p \in PendingHandOvers
             /\ p \in PendingHandOvers /\ p # <<a, k>> => p \in PendingHandOvers'
  BY <1>2 DEF PendingHandOvers, KeyOf
<1>5. \/ PendingHandOvers' = PendingHandOvers
      \/ PendingHandOvers' = PendingHandOvers \ {<<a, k>>}
  BY <1>4
<1> QED  BY <1>1, <1>3, <1>5 DEF HandOvers!Next, HandOvers!Drop, HandOvers!handover

\* A request goes on without a change of what it asks for.
LEMMA PendingKept ==
    ASSUME LockInv, NEW s \in RequestSlots, requests[s] # NoRequest, NEW r, r # NoRequest,
           r.account = requests[s].account, KeyOf(r) = KeyOf(requests[s]),
           requests' = [requests EXCEPT ![s] = r]
    PROVE  PendingHandOvers' = PendingHandOvers
<1>1. \A z \in RequestSlots : requests'[z] = IF z = s THEN r ELSE requests[z]
  BY DEF LockInv, ResaleTypeOK
<1>2. ASSUME NEW p
      PROVE  p \in PendingHandOvers' <=> p \in PendingHandOvers
  BY <1>1 DEF PendingHandOvers, KeyOf
<1> QED  BY <1>2

LEMMA SettleMaps ==
    ASSUME LockInv, NEW s \in RequestSlots, NEW key, Stage(s, "dispatch"),
           key = KeyOf(requests[s]), Settle(s, key)
    PROVE  [HandOvers!Next]_(HandOvers!handover)
<1>1. CASE ~AssertActive(requests[s].account)
  BY <1>1, DroppedMaps DEF Settle, Stage
<1>2. CASE AssertActive(requests[s].account)
  <2> DEFINE r == [requests[s] EXCEPT !.stage = "add_key", !.key = key]
  <2>1. requests[s] # NoRequest /\ requests[s] \in Request
    BY RequestFields DEF LockInv, Stage
  <2>2. requests' = [requests EXCEPT ![s] = r] /\ keys' = keys
    BY <1>2 DEF Settle, LockInv, ResaleTypeOK
  <2>3. /\ r.account = requests[s].account
        /\ r.kind = requests[s].kind
        /\ r.key = key
    BY <2>1 DEF Request
  <2>4. r # NoRequest
    BY <2>1, <2>3 DEF Request, NoRequest
  <2>5. KeyOf(r) = KeyOf(requests[s])
    BY <2>3 DEF KeyOf
  <2> HIDE DEF r
  <2>6. PendingHandOvers' = PendingHandOvers
    BY <2>1, <2>2, <2>3, <2>4, <2>5, PendingKept
  <2>7. [b \in LockedAccounts |-> Holder(keys[b])]' = [b \in LockedAccounts |-> Holder(keys[b])]
    BY <2>2
  <2> QED  BY <2>6, <2>7 DEF HandOvers!handover
<1> QED  BY <1>1, <1>2

\* A key that is added is the hand-over: the account had none.
LEMMA AddKeyMaps ==
    ASSUME LockInv, NEW s \in RequestSlots, NEW paid \in BOOLEAN, AddKey(s, paid)
    PROVE  [HandOvers!Next]_(HandOvers!handover)
<1> DEFINE a == requests[s].account
           key == requests[s].key
           ok == paid /\ key \notin keys[a] /\ state[a] # "Gone"
           r == [requests[s] EXCEPT !.stage = "resolve", !.ok = ok]
<1>1. /\ Stage(s, "add_key")
      /\ keys' = IF ok THEN [keys EXCEPT ![a] = @ \cup {key}] ELSE keys
      /\ requests' = [requests EXCEPT ![s] = r]
  BY DEF AddKey, LockInv, ResaleTypeOK
<1>2. requests[s] # NoRequest /\ requests[s] \in Request /\ a \in LockedAccounts
  BY <1>1, RequestFields DEF LockInv, Stage
<1>3. key = KeyOf(requests[s]) /\ key \in PublicKeys /\ keys[a] = {}
  BY <1>1, <1>2 DEF LockInv, SettlementKnows, Knows, KeysKnown, Settles, Stage
<1>4. /\ r.account = a
      /\ r.kind = requests[s].kind
      /\ r.key = key
  BY <1>2 DEF Request
<1>5. r # NoRequest
  BY <1>2, <1>4 DEF Request, NoRequest
<1>6. KeyOf(r) = KeyOf(requests[s])
  BY <1>4 DEF KeyOf
<1> HIDE DEF r
<1>7. PendingHandOvers' = PendingHandOvers
  BY <1>1, <1>2, <1>4, <1>5, <1>6, PendingKept
<1> DEFINE holder == [b \in LockedAccounts |-> Holder(keys[b])]
<1>8. CASE ~ok
  <2>1. holder' = holder
    BY <1>1, <1>8
  <2> QED  BY <1>7, <2>1 DEF HandOvers!handover
<1>9. CASE ok
  <2>1. /\ keys'[a] = {key}
        /\ \A b \in LockedAccounts : b # a => keys'[b] = keys[b]
    BY <1>1, <1>2, <1>3, <1>9 DEF LockInv, ResaleTypeOK
  <2>2. Holder(keys[a]) = Nobody /\ Holder(keys'[a]) = key
    BY <1>3, <2>1, HolderOfOne DEF Holder
  <2>3. ASSUME NEW b \in LockedAccounts, b # a
        PROVE  Holder(keys'[b]) = Holder(keys[b])
    BY <2>1, <2>3
  <2>4. holder' = [holder EXCEPT ![a] = key]
    BY <1>2, <2>2, <2>3
  <2>5. <<a, key>> \in PendingHandOvers
    BY <1>2, <1>3 DEF PendingHandOvers
  <2>6. holder[a] = Nobody
    BY <1>2, <2>2
  <2> QED  BY <1>2, <1>3, <1>7, <2>4, <2>5, <2>6 DEF HandOvers!Next, HandOvers!HandOver
<1> QED  BY <1>8, <1>9

LEMMA StepMaps ==
    ASSUME LockInv, [ResaleNext]_resaleVars
    PROVE  [HandOvers!Next]_(HandOvers!handover)
<1>1. ASSUME keys' = keys, requests' = requests
      PROVE  UNCHANGED HandOvers!handover
  BY <1>1 DEF HandOvers!handover, PendingHandOvers, KeyOf
<1>2. CASE UNCHANGED resaleVars
  BY <1>1, <1>2 DEF resaleVars
<1>3. ASSUME NEW s \in RequestSlots, NEW a \in LockedAccounts, NEW k \in PublicKeys,
             ResaleUnlock(s, a, k)
      PROVE  HandOvers!Next
  BY <1>3, SentMaps DEF ResaleUnlock
<1>4. ASSUME NEW s \in RequestSlots, NEW a \in LockedAccounts, ResaleAbort(s, a)
      PROVE  HandOvers!Next
  BY <1>4, SentMaps DEF ResaleAbort
<1>5. ASSUME NEW s \in RequestSlots, Unlock(s) \/ Abort(s)
      PROVE  [HandOvers!Next]_(HandOvers!handover)
  <2>1. Stage(s, "dispatch") /\ Settle(s, KeyOf(requests[s]))
    BY <1>5 DEF Unlock, Abort, Requested, Stage, KeyOf
  <2> QED  BY <2>1, SettleMaps
<1>6. ASSUME NEW s \in RequestSlots, OnSettleResolved(s)
      PROVE  [HandOvers!Next]_(HandOvers!handover)
  BY <1>6, DroppedMaps DEF OnSettleResolved, Resolve, Stage
<1>7. ASSUME NEW a \in LockedAccounts, TakeOver(a)
      PROVE  UNCHANGED HandOvers!handover
  BY <1>1, <1>7 DEF TakeOver
<1> QED
  BY <1>2, <1>3, <1>4, <1>5, <1>6, <1>7, AddKeyMaps DEF ResaleNext, DeliverRequest

\* The locker implements the one-shot hand-over: the settlement in two receipts, which
\* other requests come between, is seen as the one step in which the key is added.
THEOREM OneShotImplemented == ResaleSpec => LockIsOneShot
<1>1. ResaleInit => HandOvers!Init
  BY DEF ResaleInit, HandOvers!Init, PendingHandOvers, Holder
<1>2. LockInv /\ [ResaleNext]_resaleVars => [HandOvers!Next]_(HandOvers!handover)
  BY StepMaps
<1> QED  BY <1>1, <1>2, LockInvHolds, PTL DEF ResaleSpec, LockIsOneShot, HandOvers!Spec
=============================================================================
