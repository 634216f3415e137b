------------------------ MODULE NamesInCustody_proofs ------------------------
(***************************************************************************)
(* The system implements Custody (NamesInCustody), and with that what      *)
(* Custody_proofs shows of any custody holds of it.  Of a step, only three *)
(* things are seen: whom the registry has a name entered for, the locker,  *)
(* and the duty of each chain.  What follows is said of the names whose    *)
(* keys have all been added when they were issued: registry and chain      *)
(* agree on them, their buyers and exporters get them, and the counts of   *)
(* them are right, as a chain that releases a name finds it entered.  The  *)
(* last part is about the records of a sale: they leave with the entry.    *)
(***************************************************************************)
EXTENDS Properties, Types_proofs, Tenancy_proofs, Sales_proofs

ChainDuties == [s \in Slots |-> ChainOf(calls[s])]

-----------------------------------------------------------------------------
(* The duties of a chain.                                                  *)

LEMMA DutyByKind ==
    ASSUME NEW c
    PROVE  /\ c.kind = "rent" =>
                DutyOf(c) = IF c.stage = "callback" /\ c.ok THEN "nothing" ELSE "renting"
           /\ c.kind = "buy" =>
                DutyOf(c) = IF c.stage = "callback" /\ c.ok THEN "handed" ELSE "selling"
           /\ c.kind = "reclaim" =>
                DutyOf(c) = IF c.stage = "effect" THEN "deleting"
                            ELSE IF c.stage = "callback" /\ c.ok THEN "deleted" ELSE "nothing"
           /\ c.kind = "export" =>
                DutyOf(c) = IF c.stage = "effect" THEN "exporting"
                            ELSE IF c.stage = "resolve" /\ c.ok THEN "keyed"
                            ELSE IF c.stage = "resolve" THEN "unkeyed"
                            ELSE IF c.stage = "callback" /\ c.ok THEN "exported" ELSE "nothing"
           /\ c.kind \notin {"rent", "buy", "reclaim", "export"} => DutyOf(c) = "nothing"
BY DEF DutyOf

LEMMA ChainBegins ==
    ASSUME NEW s \in Slots, \A d \in Slots \ {s} : calls'[d] = calls[d],
           DutyOf(calls[s]) = "nothing",
           NEW duty, NEW n, NEW p, duty # "nothing",
           DutyOf(calls'[s]) = duty,
           calls'[s].key = n,
           p = IF calls'[s].kind \in {"rent", "buy"} THEN calls'[s].who ELSE None
    PROVE  Custody!Begin(s, duty, n, p)
<1>1. ChainDuties[s] = Custody!Idle
  BY DEF ChainDuties, ChainOf, Custody!Idle
<1>2. ChainOf(calls'[s]) = [does |-> duty, name |-> n, who |-> p]
  BY DEF ChainOf
<1>3. \A d \in Slots \ {s} : ChainOf(calls'[d]) = ChainOf(calls[d])
  OBVIOUS
<1>4. ChainDuties' = [ChainDuties EXCEPT ![s] = [does |-> duty, name |-> n, who |-> p]]
  BY <1>2, <1>3 DEF ChainDuties
<1> QED  BY <1>1, <1>4 DEF Custody!Begin, ChainDuties

LEMMA ChainGoesOn ==
    ASSUME NEW s \in Slots, \A d \in Slots \ {s} : calls'[d] = calls[d],
           DutyOf(calls[s]) # "nothing",
           calls'[s].kind = calls[s].kind, calls'[s].key = calls[s].key,
           calls'[s].who = calls[s].who,
           NEW duty, duty # "nothing", DutyOf(calls'[s]) = duty
    PROVE  Custody!GoOn(s, duty)
<1> DEFINE who == IF calls[s].kind \in {"rent", "buy"} THEN calls[s].who ELSE None
<1>1. ChainDuties[s] = [does |-> DutyOf(calls[s]), name |-> calls[s].key, who |-> who]
  BY DEF ChainDuties, ChainOf
<1>2. ChainOf(calls'[s]) = [does |-> duty, name |-> calls[s].key, who |-> who]
  BY DEF ChainOf
<1>3. \A d \in Slots \ {s} : ChainOf(calls'[d]) = ChainOf(calls[d])
  OBVIOUS
<1>4. ChainOf(calls'[s]) = [ChainDuties[s] EXCEPT !.does = duty]
  BY <1>1, <1>2
<1>5. ChainDuties' = [ChainDuties EXCEPT ![s].does = duty]
  BY <1>3, <1>4 DEF ChainDuties
<1> QED  BY <1>5 DEF Custody!GoOn, ChainDuties

LEMMA ChainEnds ==
    ASSUME NEW s \in Slots, \A d \in Slots \ {s} : calls'[d] = calls[d],
           DutyOf(calls'[s]) = "nothing"
    PROVE  Custody!End(s)
<1>1. ChainOf(calls'[s]) = Custody!Idle
  BY DEF ChainOf, Custody!Idle
<1>2. \A d \in Slots \ {s} : ChainOf(calls'[d]) = ChainOf(calls[d])
  OBVIOUS
<1>3. ChainDuties' = [ChainDuties EXCEPT ![s] = Custody!Idle]
  BY <1>1, <1>2 DEF ChainDuties
<1> QED  BY <1>3 DEF Custody!End, ChainDuties
\* A chain that does what it did, as far as Custody sees it.
LEMMA ChainKeeps ==
    ASSUME NEW s \in Slots, \A d \in Slots \ {s} : calls'[d] = calls[d],
           DutyOf(calls'[s]) = DutyOf(calls[s]),
           \/ DutyOf(calls[s]) = "nothing"
           \/ /\ calls'[s].kind = calls[s].kind
              /\ calls'[s].key = calls[s].key
              /\ calls'[s].who = calls[s].who
    PROVE  UNCHANGED ChainDuties
<1>1. ChainOf(calls'[s]) = ChainOf(calls[s])
  BY DEF ChainOf
<1>2. \A d \in Slots \ {s} : ChainOf(calls'[d]) = ChainOf(calls[d])
  OBVIOUS
<1> QED  BY <1>1, <1>2 DEF ChainDuties

\* A chain with a duty, as Custody sees it.
LEMMA ChainSeen ==
    ASSUME NEW s \in Slots, DutyOf(calls[s]) # "nothing"
    PROVE  /\ [x \in Slots |-> ChainOf(calls[x])][s].does = DutyOf(calls[s])
           /\ [x \in Slots |-> ChainOf(calls[x])][s].name = calls[s].key
           /\ calls[s].kind \in {"rent", "buy"} =>
                [x \in Slots |-> ChainOf(calls[x])][s].who = calls[s].who
<1>1. [x \in Slots |-> ChainOf(calls[x])][s] = ChainOf(calls[s])
  OBVIOUS
<1> QED  BY <1>1 DEF ChainOf

LEMMA NoCallDoesNothing == DutyOf(NoCall) = "nothing"
BY DutyByKind DEF NoCall

-----------------------------------------------------------------------------
\* What Custody does not see.
Unseen == UNCHANGED <<Holders, locker, ChainDuties>>
-----------------------------------------------------------------------------
(* The steps of a rent.                                                    *)

LEMMA RentTakes ==
    ASSUME TypeOK, TypeOK', NEW s \in Slots, NEW caller \in Callers, NEW k \in Keys,
           NEW w \in Accounts, NEW d \in Deposits, RentSubAccount(s, caller, k, w, d)
    PROVE  Custody!Take(s, k, caller)
<1>1. Holders[k] = None
  BY DEF RentSubAccount, Holders, HolderOf
<1>2. Holders' = [Holders EXCEPT ![k] = caller]
  BY HolderTakes
<1>3. Custody!Begin(s, "renting", k, caller)
  <2>1. PICK call :
          /\ StartCall(s, call)
          /\ call.kind = "rent" /\ call.stage = "dispatch"
          /\ call.key = k /\ call.who = caller
    BY DEF RentSubAccount
  <2>2. /\ calls[s] = NoCall /\ calls'[s] = call
        /\ \A x \in Slots \ {s} : calls'[x] = calls[x]
    BY <2>1, CallStarted
  <2>3. DutyOf(calls[s]) = "nothing" /\ DutyOf(calls'[s]) = "renting"
    BY <2>1, <2>2, NoCallDoesNothing, DutyByKind
  <2> QED  BY <2>1, <2>2, <2>3, ChainBegins
<1>4. UNCHANGED locker
  BY DEF RentSubAccount, chainVars
<1> QED  BY <1>1, <1>2, <1>3, <1>4 DEF Custody!Take, Holders

LEMMA BatchFounds ==
    ASSUME TypeOK, NEW s \in Slots, CreateAccountBatch(s)
    PROVE  Custody!Found(s) \/ Unseen
<1> DEFINE k == calls[s].key
<1>1. /\ calls[s].kind = "rent" /\ calls[s].kind \in Kinds
      /\ calls[s].stage = "effect"
  BY DEF CreateAccountBatch, At, Kinds
<1>2. UNCHANGED Holders
  BY HoldersUntouched DEF CreateAccountBatch, subVars
<1>3. CASE Advance(s, "callback", FALSE) /\ UNCHANGED locker
  <2>1. UNCHANGED ChainDuties
    <3>1. /\ \A d \in Slots \ {s} : calls'[d] = calls[d]
          /\ calls'[s].kind = calls[s].kind /\ calls'[s].key = calls[s].key
          /\ calls'[s].who = calls[s].who /\ ~calls'[s].ok
      BY <1>1, <1>3, CallAdvanced
    <3>2. DutyOf(calls'[s]) = "renting" /\ DutyOf(calls[s]) = "renting"
      BY <1>1, <3>1, DutyByKind
    <3> QED  BY <3>1, <3>2, ChainKeeps
  <2> QED  BY <1>2, <1>3, <2>1 DEF Unseen
<1>4. CASE /\ locker[k] = NoLocker
           /\ locker' = [locker EXCEPT ![k] = [state |-> "Held", owner_key |-> calls[s].who]]
           /\ Advance(s, "callback", TRUE)
  <2>1. Custody!End(s)
    <3>1. /\ \A d \in Slots \ {s} : calls'[d] = calls[d]
          /\ calls'[s].kind = calls[s].kind
          /\ calls'[s].stage = "callback" /\ calls'[s].ok
      BY <1>1, <1>4, CallAdvanced
    <3>2. DutyOf(calls'[s]) = "nothing"
      BY <1>1, <3>1, DutyByKind
    <3> QED  BY <3>1, <3>2, ChainEnds
  <2>2. ~Custody!Busy(k, {"deleting"} \cup Custody!Exporting)
    <3> SUFFICES ASSUME NEW c \in Slots,
                        Custody!Does(c, {"deleting"} \cup Custody!Exporting, k)
                 PROVE  FALSE
      BY DEF Custody!Busy
    <3>1. /\ DutyOf(calls[c]) \in {"deleting", "exporting", "keyed", "unkeyed"}
          /\ calls[c].key = k
      BY DEF Custody!Does, Custody!Exporting, ChainOf
    <3>2. calls[c].kind \in {"reclaim", "export"} /\ calls[c].stage \in {"effect", "resolve"}
      BY <3>1, DutyByKind
    <3> QED  BY <3>1, <3>2 DEF CreateAccountBatch, OwnReceiptsDone, InFlight
  <2>3. /\ [x \in Slots |-> ChainOf(calls[x])][s].does = "renting"
        /\ [x \in Slots |-> ChainOf(calls[x])][s].name = k
        /\ [x \in Slots |-> ChainOf(calls[x])][s].who = calls[s].who
    BY <1>1, ChainSeen, DutyByKind
  <2>4. UNCHANGED [x \in Keys |-> HolderOf(x)]
    BY <1>2 DEF Holders
  <2>5. locker[k] = Custody!NoAccount
    BY <1>4 DEF Custody!NoAccount, NoLocker
  <2> HIDE DEF k
  <2> QED
    BY <1>4, <2>1, <2>2, <2>3, <2>4, <2>5 DEF Custody!Found
<1> QED  BY <1>3, <1>4 DEF CreateAccountBatch

LEMMA CreationFailedReleases ==
    ASSUME TypeOK, NEW s \in Slots, OnSubAccountCreationFailed(s)
    PROVE  Custody!Release(s)
<1>1. /\ calls[s].kind = "rent" /\ calls[s].stage = "callback" /\ ~calls[s].ok
      /\ EndCall(s)
      /\ sub_accounts' = [sub_accounts EXCEPT ![calls[s].key] = None]
      /\ UNCHANGED locker
  BY DEF OnSubAccountCreationFailed, At, chainVars
<1>2. calls[s].key \in Keys
  BY <1>1, CallType DEF Kinds, Call
<1>3. Holders' = [Holders EXCEPT ![calls[s].key] = None]
  BY <1>1, <1>2, HolderChanges
<1>4. Custody!End(s)
  BY <1>1, CallEnded, ChainEnds, NoCallDoesNothing
<1>5. DutyOf(calls[s]) = "renting"
  BY <1>1, DutyByKind
<1> QED  BY <1>1, <1>3, <1>4, <1>5, ChainSeen DEF Custody!Release, Holders
-----------------------------------------------------------------------------
(* The steps of a sale.                                                    *)

LEMMA BuyBeginsSale ==
    ASSUME TypeOK, NEW s \in Slots, NEW buyer \in Callers, NEW k \in Keys,
           NEW d \in Deposits, BuySubAccount(s, buyer, k, d)
    PROVE  Custody!BeginSale(s, k, buyer)
<1>1. PICK call :
        /\ StartCall(s, call)
        /\ call.kind = "buy" /\ call.stage = AfterSnapshot
        /\ call.key = k /\ call.who = buyer
  BY DEF BuySubAccount
<1>2. /\ calls[s] = NoCall /\ calls'[s] = call
      /\ \A x \in Slots \ {s} : calls'[x] = calls[x]
  BY <1>1, CallStarted
<1>3. DutyOf(calls[s]) = "nothing" /\ DutyOf(calls'[s]) = "selling"
  BY <1>1, <1>2, NoCallDoesNothing, DutyByKind DEF AfterSnapshot
<1>4. Custody!Begin(s, "selling", k, buyer)
  BY <1>1, <1>2, <1>3, ChainBegins
<1>5. UNCHANGED Holders /\ UNCHANGED locker
  BY HoldersUntouched DEF BuySubAccount, subVars, chainVars
<1> QED  BY <1>4, <1>5 DEF Custody!BeginSale, Holders

\* The sale is given up before the locker was asked, or because it refused.
LEMMA SaleCalledOff ==
    ASSUME TypeOK, NEW s \in Slots, calls[s].kind = "buy", EndCall(s),
           \/ DutyOf(calls[s]) = "selling"
           \/ DutyOf(calls[s]) = "handed" /\ sub_accounts[calls[s].key] = None,
           UNCHANGED Holders, UNCHANGED locker
    PROVE  Custody!CallOff(s)
<1>1. Custody!End(s)
  BY CallEnded, ChainEnds, NoCallDoesNothing
<1>2. calls[s].key \in Keys
  BY CallType DEF Kinds, Call
<1>3. sub_accounts[calls[s].key] = None => [x \in Keys |-> HolderOf(x)][calls[s].key] = None
  BY <1>2 DEF HolderOf
<1> QED  BY <1>1, <1>3, ChainSeen DEF Custody!CallOff, Holders

LEMMA BalancesCheckedOrCalledOff ==
    ASSUME TypeOK, NEW s \in Slots, OnBuyBalancesChecked(s)
    PROVE  Custody!CallOff(s) \/ Unseen
<1>1. calls[s].kind = "buy" /\ calls[s].kind \in Kinds /\ calls[s].stage = "checked"
  BY DEF OnBuyBalancesChecked, At, Kinds
<1>2. DutyOf(calls[s]) = "selling"
  BY <1>1, DutyByKind
<1>3. UNCHANGED Holders /\ UNCHANGED locker
  BY HoldersUntouched DEF OnBuyBalancesChecked, subVars, chainVars
<1>4. CASE calls[s].ok
  <2>1. /\ \A d \in Slots \ {s} : calls'[d] = calls[d]
        /\ calls'[s].kind = calls[s].kind /\ calls'[s].key = calls[s].key
        /\ calls'[s].who = calls[s].who /\ calls'[s].stage = "dispatch"
    BY <1>1, <1>4, CallAdvanced DEF OnBuyBalancesChecked
  <2>2. DutyOf(calls'[s]) = "selling"
    BY <1>1, <2>1, DutyByKind
  <2>3. UNCHANGED ChainDuties
    BY <1>2, <2>1, <2>2, ChainKeeps
  <2> QED  BY <1>3, <2>3 DEF Unseen
<1>5. CASE ~calls[s].ok
  BY <1>1, <1>2, <1>3, <1>5, SaleCalledOff DEF OnBuyBalancesChecked, AbortSale
<1> QED  BY <1>4, <1>5

LEMMA SaleFailedCallsOff ==
    ASSUME TypeOK, NEW s \in Slots, OnSaleFailed(s)
    PROVE  Custody!CallOff(s)
<1>1. /\ calls[s].kind = "buy" /\ calls[s].stage = "callback"
      /\ ~calls[s].ok \/ sub_accounts[calls[s].key] = None
      /\ EndCall(s)
  BY DEF OnSaleFailed, AbortSale, At
<1>2. \/ DutyOf(calls[s]) = "selling"
      \/ DutyOf(calls[s]) = "handed" /\ sub_accounts[calls[s].key] = None
  BY <1>1, DutyByKind
<1>3. UNCHANGED Holders /\ UNCHANGED locker
  BY HoldersUntouched DEF OnSaleFailed, subVars, chainVars
<1> QED  BY <1>1, <1>2, <1>3, SaleCalledOff

LEMMA LockerHandsOver ==
    ASSUME TypeOK, NEW s \in Slots, TransferOwnership(s)
    PROVE  Custody!HandOver(s) \/ Unseen
<1> DEFINE k == calls[s].key
<1>1. calls[s].kind = "buy" /\ calls[s].kind \in Kinds /\ calls[s].stage = "dispatch"
  BY DEF TransferOwnership, At, Kinds
<1>2. DutyOf(calls[s]) = "selling"
  BY <1>1, DutyByKind
<1>3. UNCHANGED Holders
  BY HoldersUntouched DEF TransferOwnership, subVars
<1>4. /\ \A d \in Slots \ {s} : calls'[d] = calls[d]
      /\ calls'[s].kind = calls[s].kind /\ calls'[s].key = calls[s].key
      /\ calls'[s].who = calls[s].who
      /\ calls'[s].stage = "callback" /\ calls'[s].ok = Held(k)
  BY <1>1, CallAdvanced DEF TransferOwnership
<1>5. CASE Held(k)
  <2>1. DutyOf(calls'[s]) = "handed"
    <3>1. calls'[s].kind = "buy" /\ calls'[s].stage = "callback" /\ calls'[s].ok
      BY <1>1, <1>4, <1>5
    <3> QED  BY <3>1, DutyByKind
  <2>2. Custody!GoOn(s, "handed")
    BY <1>2, <1>4, <2>1, ChainGoesOn
  <2>3. locker' = [locker EXCEPT ![k].owner_key = calls[s].who] /\ locker[k].state = "Held"
    BY <1>5 DEF TransferOwnership, Held
  <2> QED  BY <1>1, <1>2, <1>3, <2>2, <2>3, ChainSeen DEF Custody!HandOver, Holders
<1>6. CASE ~Held(k)
  <2>1. DutyOf(calls'[s]) = "selling"
    BY <1>1, <1>4, <1>6, DutyByKind
  <2>2. UNCHANGED ChainDuties
    BY <1>2, <1>4, <2>1, ChainKeeps
  <2>3. UNCHANGED locker
    BY <1>6 DEF TransferOwnership
  <2> QED  BY <1>3, <2>2, <2>3 DEF Unseen
<1> QED  BY <1>5, <1>6

LEMMA SoldSells ==
    ASSUME TypeOK, TypeOK', NEW s \in Slots, OnSubAccountSold(s)
    PROVE  Custody!Sell(s)
<1> DEFINE k == calls[s].key
<1>1. /\ calls[s].kind = "buy" /\ calls[s].stage = "callback" /\ calls[s].ok
      /\ EndCall(s)
      /\ sub_accounts[k] # None
      /\ UNCHANGED locker
  BY DEF OnSubAccountSold, At, chainVars
<1>2. k \in Keys
  BY <1>1, CallType DEF Kinds, Call
<1>3. Holders' = [Holders EXCEPT ![k] = calls[s].who]
  BY HolderSold
<1>4. [x \in Keys |-> HolderOf(x)][k] # None
  BY <1>1, <1>2, HolderKnown
<1>5. Custody!End(s)
  BY <1>1, CallEnded, ChainEnds, NoCallDoesNothing
<1>6. DutyOf(calls[s]) = "handed"
  BY <1>1, DutyByKind
<1> QED
  BY <1>1, <1>3, <1>4, <1>5, <1>6, ChainSeen DEF Custody!Sell, Holders
-----------------------------------------------------------------------------
(* The steps of a deletion.                                                *)

LEMMA LockerBeginsDelete ==
    ASSUME TypeOK, NEW s \in Slots, FinalizeDelete(s)
    PROVE  (\E k \in Keys : Custody!BeginDelete(s, k)) \/ Unseen
<1> DEFINE k == calls[s].key
<1>1. calls[s].kind = "reclaim" /\ calls[s].kind \in Kinds /\ calls[s].stage = "dispatch"
  BY DEF FinalizeDelete, At, Kinds
<1>2. DutyOf(calls[s]) = "nothing" /\ k \in Keys
  BY <1>1, DutyByKind, CallType DEF Call
<1>3. UNCHANGED Holders /\ UNCHANGED locker
  BY HoldersUntouched DEF FinalizeDelete, subVars, chainVars
<1>4. CASE Held(k)
  <2>1. /\ \A d \in Slots \ {s} : calls'[d] = calls[d]
        /\ calls'[s].kind = "reclaim" /\ calls'[s].key = k
        /\ calls'[s].stage = "effect"
    BY <1>1, <1>4, CallAdvanced DEF FinalizeDelete
  <2>2. DutyOf(calls'[s]) = "deleting"
    BY <2>1, DutyByKind
  <2>3. Custody!Begin(s, "deleting", k, None)
    BY <1>2, <2>1, <2>2, ChainBegins
  <2> QED  BY <1>2, <1>3, <1>4, <2>3 DEF Custody!BeginDelete, Holders, Held
<1>5. CASE ~Held(k)
  <2>1. /\ \A d \in Slots \ {s} : calls'[d] = calls[d]
        /\ calls'[s].kind = "reclaim"
        /\ calls'[s].stage = "callback" /\ ~calls'[s].ok
    BY <1>1, <1>5, CallAdvanced DEF FinalizeDelete
  <2>2. DutyOf(calls'[s]) = "nothing"
    BY <2>1, DutyByKind
  <2>3. UNCHANGED ChainDuties
    BY <1>2, <2>1, <2>2, ChainKeeps
  <2> QED  BY <1>3, <2>3 DEF Unseen
<1> QED  BY <1>4, <1>5

LEMMA AccountDeleted ==
    ASSUME TypeOK, NEW s \in Slots, DeleteAccount(s)
    PROVE  Custody!Delete(s)
<1> DEFINE k == calls[s].key
<1>1. calls[s].kind = "reclaim" /\ calls[s].kind \in Kinds /\ calls[s].stage = "effect"
  BY DEF DeleteAccount, At, Kinds
<1>2. DutyOf(calls[s]) = "deleting"
  BY <1>1, DutyByKind
<1>3. UNCHANGED Holders
  BY HoldersUntouched DEF DeleteAccount, subVars
<1>4. /\ \A d \in Slots \ {s} : calls'[d] = calls[d]
      /\ calls'[s].kind = calls[s].kind /\ calls'[s].key = calls[s].key
      /\ calls'[s].who = calls[s].who
      /\ calls'[s].stage = "callback" /\ calls'[s].ok = (locker[k] # NoLocker)
  BY <1>1, CallAdvanced DEF DeleteAccount
<1>5. IF locker[k] = NoLocker THEN Custody!End(s) ELSE Custody!GoOn(s, "deleted")
  <2>1. CASE locker[k] = NoLocker
    <3>1. DutyOf(calls'[s]) = "nothing"
      BY <1>1, <1>4, <2>1, DutyByKind
    <3> QED  BY <1>4, <2>1, <3>1, ChainEnds
  <2>2. CASE locker[k] # NoLocker
    <3>1. DutyOf(calls'[s]) = "deleted"
      <4>1. calls'[s].kind = "reclaim" /\ calls'[s].stage = "callback" /\ calls'[s].ok
        BY <1>1, <1>4, <2>2
      <4> QED  BY <4>1, DutyByKind
    <3> QED  BY <1>2, <1>4, <2>2, <3>1, ChainGoesOn
  <2> QED  BY <2>1, <2>2
<1>6. locker' = [locker EXCEPT ![k] = NoLocker]
  BY DEF DeleteAccount
<1>7. Custody!NoAccount = NoLocker
  BY DEF Custody!NoAccount, NoLocker
<1> QED
  BY <1>2, <1>3, <1>5, <1>6, <1>7, ChainSeen DEF Custody!Delete, Holders

\* The registry takes the entry off its books.
LEMMA EntryReleased ==
    ASSUME TypeOK, NEW s \in Slots, calls[s].kind \in Kinds, EndCall(s),
           DutyOf(calls[s]) \in {"deleted", "exported"},
           NEW k \in Keys, k = calls[s].key,
           \/ sub_accounts' = [sub_accounts EXCEPT ![k] = None]
           \/ sub_accounts[k] = None /\ UNCHANGED sub_accounts,
           UNCHANGED locker
    PROVE  Custody!Release(s)
<1>1. Holders' = [Holders EXCEPT ![k] = None]
  <2>1. CASE sub_accounts' = [sub_accounts EXCEPT ![k] = None]
    <3>1. None = IF None = None THEN None ELSE None.owner
      OBVIOUS
    <3> QED  BY ONLY TypeOK, k \in Keys, <2>1, <3>1, HolderChanges
  <2>2. CASE sub_accounts[k] = None /\ UNCHANGED sub_accounts
    <3>1. UNCHANGED Holders
      BY <2>2, HoldersUntouched
    <3>2. Holders[k] = None /\ Holders = [x \in Keys |-> Holders[x]]
      BY <2>2 DEF Holders, HolderOf
    <3> HIDE DEF Holders
    <3> QED  BY <3>1, <3>2
  <2> QED  BY <2>1, <2>2
<1>2. Custody!End(s)
  BY CallEnded, ChainEnds, NoCallDoesNothing
<1> QED  BY <1>1, <1>2, ChainSeen DEF Custody!Release, Holders

LEMMA ReclaimReleases ==
    ASSUME TypeOK, NEW s \in Slots, OnReclaimFinalized(s)
    PROVE  Custody!Release(s) \/ Unseen
<1>1. /\ calls[s].kind = "reclaim" /\ calls[s].kind \in Kinds
      /\ calls[s].stage = "callback" /\ EndCall(s)
  BY DEF OnReclaimFinalized, At, Kinds
<1>2. UNCHANGED locker /\ calls[s].key \in Keys
  BY <1>1, CallType DEF OnReclaimFinalized, chainVars, Call
<1>3. CASE calls[s].ok
  <2>1. DutyOf(calls[s]) = "deleted"
    BY <1>1, <1>3, DutyByKind
  <2>2. sub_accounts' = [sub_accounts EXCEPT ![calls[s].key] = None]
    BY <1>3 DEF OnReclaimFinalized, RemoveSubAccount
  <2>3. DutyOf(calls[s]) \in {"deleted", "exported"}
    BY <2>1
  <2>4. Custody!Release(s)
    BY <1>1, <1>2, <2>2, <2>3, EntryReleased
  <2> QED  BY <2>4
<1>4. CASE ~calls[s].ok
  <2>1. DutyOf(calls[s]) = "nothing"
    BY <1>1, <1>4, DutyByKind
  <2>2. UNCHANGED ChainDuties
    BY <1>1, <2>1, CallEnded, ChainKeeps, NoCallDoesNothing
  <2>3. UNCHANGED Holders
    BY <1>4, HoldersUntouched DEF OnReclaimFinalized, subVars
  <2> QED  BY <1>2, <2>2, <2>3 DEF Unseen
<1> QED  BY <1>3, <1>4

-----------------------------------------------------------------------------
(* The steps of an export.                                                 *)

LEMMA LockerBeginsExport ==
    ASSUME TypeOK, NEW s \in Slots, Export(s)
    PROVE  (\E k \in Keys : Custody!BeginExport(s, k)) \/ Unseen
<1> DEFINE k == calls[s].key
<1>1. calls[s].kind = "export" /\ calls[s].kind \in Kinds /\ calls[s].stage = "dispatch"
  BY DEF Export, At, Kinds
<1>2. DutyOf(calls[s]) = "nothing" /\ k \in Keys
  BY <1>1, DutyByKind, CallType DEF Call
<1>3. UNCHANGED Holders
  BY HoldersUntouched DEF Export, subVars
<1>4. CASE Held(k)
  <2>1. /\ \A d \in Slots \ {s} : calls'[d] = calls[d]
        /\ calls'[s].kind = "export" /\ calls'[s].key = k
        /\ calls'[s].stage = "effect"
    BY <1>1, <1>4, CallAdvanced DEF Export
  <2>2. DutyOf(calls'[s]) = "exporting"
    BY <2>1, DutyByKind
  <2>3. Custody!Begin(s, "exporting", k, None)
    BY <1>2, <2>1, <2>2, ChainBegins
  <2>4. locker' = [locker EXCEPT ![k].state = "Exporting"] /\ locker[k].state = "Held"
    BY <1>4 DEF Export, Held
  <2>5. Custody!BeginExport(s, k)
    BY <1>3, <2>3, <2>4 DEF Custody!BeginExport, Holders
  <2> QED  BY <1>2, <2>5
<1>5. CASE ~Held(k)
  <2>1. /\ \A d \in Slots \ {s} : calls'[d] = calls[d]
        /\ calls'[s].kind = "export"
        /\ calls'[s].stage = "callback" /\ ~calls'[s].ok
    BY <1>1, <1>5, CallAdvanced DEF Export
  <2>2. DutyOf(calls'[s]) = "nothing"
    BY <2>1, DutyByKind
  <2>3. UNCHANGED ChainDuties /\ UNCHANGED locker
    BY <1>2, <1>5, <2>1, <2>2, ChainKeeps DEF Export
  <2> QED  BY <1>3, <2>3 DEF Unseen
<1> QED  BY <1>4, <1>5

LEMMA AccountAddsKey ==
    ASSUME TypeOK, NEW s \in Slots, AddFullAccessKey(s)
    PROVE  Custody!AddKey(s)
<1> DEFINE k == calls[s].key
<1>1. calls[s].kind = "export" /\ calls[s].kind \in Kinds /\ calls[s].stage = "effect"
  BY DEF AddFullAccessKey, At, Kinds
<1>2. DutyOf(calls[s]) = "exporting"
  BY <1>1, DutyByKind
<1>3. UNCHANGED Holders /\ UNCHANGED locker
  BY HoldersUntouched DEF AddFullAccessKey, subVars, chainVars
<1>4. ~Custody!Busy(k, {"deleting"})
  <2> SUFFICES ASSUME NEW c \in Slots, Custody!Does(c, {"deleting"}, k)
               PROVE  FALSE
    BY DEF Custody!Busy
  <2>1. DutyOf(calls[c]) = "deleting" /\ calls[c].key = k
    BY DEF Custody!Does, ChainOf
  <2>2. calls[c].kind = "reclaim" /\ calls[c].stage = "effect"
    BY <2>1, DutyByKind
  <2> QED  BY <2>1, <2>2 DEF AddFullAccessKey, InFlight, At
<1>5. \/ locker[k] # NoLocker /\ Custody!GoOn(s, "keyed")
      \/ (locker[k] = NoLocker \/ AddKeyMayFail) /\ Custody!GoOn(s, "unkeyed")
  <2>1. PICK ok \in BOOLEAN :
          /\ Advance(s, "resolve", ok)
          /\ ok => locker[k] # NoLocker
          /\ ~ok => locker[k] = NoLocker \/ AddKeyMayFail
    BY DEF AddFullAccessKey
  <2>2. /\ \A d \in Slots \ {s} : calls'[d] = calls[d]
        /\ calls'[s].kind = calls[s].kind /\ calls'[s].key = calls[s].key
        /\ calls'[s].who = calls[s].who
        /\ calls'[s].stage = "resolve" /\ calls'[s].ok = ok
    BY <1>1, <2>1, CallAdvanced
  <2>3. DutyOf(calls'[s]) = IF ok THEN "keyed" ELSE "unkeyed"
    BY <1>1, <2>2, DutyByKind
  <2>4. CASE ok
    <3>1. Custody!GoOn(s, "keyed")
      BY <1>2, <2>2, <2>3, <2>4, ChainGoesOn
    <3> QED  BY <2>1, <2>4, <3>1
  <2>5. CASE ~ok
    <3>1. Custody!GoOn(s, "unkeyed")
      BY <1>2, <2>2, <2>3, <2>5, ChainGoesOn
    <3> QED  BY <2>1, <2>5, <3>1
  <2> QED  BY <2>4, <2>5
<1>6. Custody!NoAccount = NoLocker
  BY DEF Custody!NoAccount, NoLocker
<1> QED
  BY <1>2, <1>3, <1>4, <1>5, <1>6, ChainSeen DEF Custody!AddKey, Holders

LEMMA LockerResolves ==
    ASSUME TypeOK, NEW s \in Slots, OnExportResolved(s)
    PROVE  Custody!Resolve(s)
<1> DEFINE k == calls[s].key
<1>1. calls[s].kind = "export" /\ calls[s].kind \in Kinds /\ calls[s].stage = "resolve"
  BY DEF OnExportResolved, At, Kinds
<1>2. DutyOf(calls[s]) = IF calls[s].ok THEN "keyed" ELSE "unkeyed"
  BY <1>1, DutyByKind
<1>3. UNCHANGED Holders
  BY HoldersUntouched DEF OnExportResolved, subVars
<1>4. /\ \A d \in Slots \ {s} : calls'[d] = calls[d]
      /\ calls'[s].kind = calls[s].kind /\ calls'[s].key = calls[s].key
      /\ calls'[s].who = calls[s].who
      /\ calls'[s].stage = "callback" /\ calls'[s].ok = (locker[k] # NoLocker)
  BY <1>1, CallAdvanced DEF OnExportResolved
<1>5. Custody!NoAccount = NoLocker
  BY DEF Custody!NoAccount, NoLocker
<1>6. CASE locker[k] = NoLocker
  <2>1. DutyOf(calls'[s]) = "nothing"
    BY <1>1, <1>4, <1>6, DutyByKind
  <2>2. Custody!End(s) /\ UNCHANGED locker
    BY <1>4, <1>6, <2>1, ChainEnds DEF OnExportResolved
  <2> QED  BY <1>2, <1>3, <1>5, <1>6, <2>2, ChainSeen DEF Custody!Resolve, Holders
<1>7. CASE locker[k] # NoLocker
  <2>1. DutyOf(calls'[s]) = "exported"
    <3>1. calls'[s].kind = "export" /\ calls'[s].stage = "callback" /\ calls'[s].ok
      BY <1>1, <1>4, <1>7
    <3> QED  BY <3>1, DutyByKind
  <2>2. Custody!GoOn(s, "exported")
    BY <1>2, <1>4, <2>1, ChainGoesOn
  <2>3. locker' = [locker EXCEPT ![k].state = IF calls[s].ok THEN "Exported" ELSE "Held"]
    BY <1>7 DEF OnExportResolved
  <2>4. /\ [x \in Slots |-> ChainOf(calls[x])][s].does = DutyOf(calls[s])
        /\ [x \in Slots |-> ChainOf(calls[x])][s].name = k
    BY <1>2, ChainSeen
  <2>5. DutyOf(calls[s]) \in {"keyed", "unkeyed"} /\ (DutyOf(calls[s]) = "keyed" <=> calls[s].ok)
    BY <1>2
  <2> HIDE DEF k
  <2> QED  BY <1>3, <1>5, <1>7, <2>2, <2>3, <2>4, <2>5 DEF Custody!Resolve, Holders
<1> QED  BY <1>6, <1>7

LEMMA ExportReleasesEntry ==
    ASSUME TypeOK, NEW s \in Slots, OnExportSettled(s)
    PROVE  Custody!Release(s) \/ Unseen
<1>1. /\ calls[s].kind = "export" /\ calls[s].kind \in Kinds
      /\ calls[s].stage = "callback" /\ EndCall(s)
  BY DEF OnExportSettled, At, Kinds
<1>2. UNCHANGED locker /\ calls[s].key \in Keys
  BY <1>1, CallType DEF OnExportSettled, chainVars, Call
<1>3. CASE calls[s].ok
  <2>1. DutyOf(calls[s]) = "exported"
    BY <1>1, <1>3, DutyByKind
  <2>2. \/ sub_accounts' = [sub_accounts EXCEPT ![calls[s].key] = None]
        \/ sub_accounts[calls[s].key] = None /\ UNCHANGED sub_accounts
    BY <1>3 DEF OnExportSettled, RemoveSubAccount, subVars
  <2>3. DutyOf(calls[s]) \in {"deleted", "exported"}
    BY <2>1
  <2>4. Custody!Release(s)
    BY <1>1, <1>2, <2>2, <2>3, EntryReleased
  <2> QED  BY <2>4
<1>4. CASE ~calls[s].ok
  <2>1. DutyOf(calls[s]) = "nothing"
    BY <1>1, <1>4, DutyByKind
  <2>2. UNCHANGED ChainDuties
    BY <1>1, <2>1, CallEnded, ChainKeeps, NoCallDoesNothing
  <2>3. UNCHANGED Holders
    BY <1>4, HoldersUntouched DEF OnExportSettled, subVars
  <2> QED  BY <1>2, <2>2, <2>3 DEF Unseen
<1> QED  BY <1>3, <1>4

-----------------------------------------------------------------------------
(* The steps that Custody does not see.                                    *)

LEMMA NothingDone ==
    ASSUME NEW s \in Slots, \A d \in Slots \ {s} : calls'[d] = calls[d],
           DutyOf(calls[s]) = "nothing", DutyOf(calls'[s]) = "nothing",
           UNCHANGED sub_accounts, UNCHANGED locker
    PROVE  Unseen
BY ChainKeeps, HoldersUntouched DEF Unseen

LEMMA StartsNothing ==
    ASSUME TypeOK, NEW s \in Slots, NEW call, StartCall(s, call), DutyOf(call) = "nothing",
           UNCHANGED sub_accounts, UNCHANGED locker
    PROVE  Unseen
BY CallStarted, NoCallDoesNothing, NothingDone

LEMMA NoChainMoves ==
    ASSUME UNCHANGED <<sub_accounts, locker, calls>>
    PROVE  Unseen
BY DEF Unseen, Holders, HolderOf, ChainDuties

LEMMA OnlyTermsChange ==
    ASSUME UNCHANGED Holders, UNCHANGED <<locker, calls>>
    PROVE  Unseen
BY DEF Unseen, ChainDuties

LEMMA EntryRenewedUnseen ==
    ASSUME TypeOK, NEW caller \in Callers, NEW k \in Keys,
           \/ \E d \in Deposits : RenewSubAccount(caller, k, d)
           \/ \E w \in Accounts : SetMainWallet(caller, k, w)
           \/ ScheduleRetraction(caller, k)
           \/ CancelRetraction(caller, k)
    PROVE  Unseen
<1>1. UNCHANGED <<locker, calls>>
  BY DEF RenewSubAccount, SetMainWallet, ScheduleRetraction, CancelRetraction, chainVars
<1>2. UNCHANGED Holders
  BY HolderUnmoved
<1> QED  BY <1>1, <1>2, OnlyTermsChange

LEMMA CreationUnseen ==
    ASSUME TypeOK, NEW s \in Slots,
           CreateSubAccount(s) \/ OnSubAccountCreated(s) \/ OnSubAccountCreatedPanics(s)
    PROVE  Unseen
<1>1. UNCHANGED sub_accounts /\ UNCHANGED locker
  BY DEF CreateSubAccount, OnSubAccountCreated, OnSubAccountCreatedPanics, subVars, chainVars
<1>2. CASE CreateSubAccount(s)
  <2>1. calls[s].kind = "rent" /\ calls[s].kind \in Kinds /\ calls[s].stage = "dispatch"
    BY <1>2 DEF CreateSubAccount, At, Kinds
  <2>2. calls[s] \in Call
    BY <2>1, CallType
  <2>3. /\ \A d \in Slots \ {s} : calls'[d] = calls[d]
        /\ calls'[s].kind = calls[s].kind /\ calls'[s].key = calls[s].key
        /\ calls'[s].who = calls[s].who
        /\ calls'[s].stage = "effect" \/ ~calls'[s].ok
    BY <1>2, <2>2 DEF CreateSubAccount, Advance, TypeOK, Call
  <2>4. DutyOf(calls[s]) = "renting" /\ DutyOf(calls'[s]) = "renting"
    BY <2>1, <2>3, DutyByKind
  <2> QED  BY <1>1, <2>3, <2>4, ChainKeeps, HoldersUntouched DEF Unseen
<1>3. CASE OnSubAccountCreated(s) \/ OnSubAccountCreatedPanics(s)
  <2>1. /\ calls[s].kind = "rent" /\ calls[s].stage = "callback" /\ calls[s].ok
        /\ EndCall(s)
    BY <1>3 DEF OnSubAccountCreated, OnSubAccountCreatedPanics, At
  <2>2. DutyOf(calls[s]) = "nothing"
    BY <2>1, DutyByKind
  <2> QED  BY <1>1, <2>1, <2>2, CallEnded, NoCallDoesNothing, NothingDone
<1> QED  BY <1>2, <1>3

LEMMA QueryUnseen ==
    ASSUME TypeOK, NEW s \in Slots, NEW t \in Tokens, NEW answered \in BOOLEAN,
           QueryBalance(s, t, answered)
    PROVE  Unseen
<1>1. calls[s].stage = "query"
  BY DEF QueryBalance
<1>2. calls[s] \in Call
  BY <1>1 DEF TypeOK, NoCall
<1>3. /\ \A d \in Slots \ {s} : calls'[d] = calls[d]
      /\ calls'[s].kind = calls[s].kind /\ calls'[s].key = calls[s].key
      /\ calls'[s].who = calls[s].who
      /\ calls'[s].stage \in {"query", "checked"}
  BY <1>2 DEF QueryBalance, TypeOK, Call
<1>4. DutyOf(calls'[s]) = DutyOf(calls[s])
  BY <1>1, <1>3 DEF DutyOf
<1>5. UNCHANGED sub_accounts /\ UNCHANGED locker
  BY DEF QueryBalance, subVars, chainVars
<1> QED  BY <1>3, <1>4, <1>5, ChainKeeps, HoldersUntouched DEF Unseen

LEMMA LeavingBegunUnseen ==
    ASSUME TypeOK, NEW s \in Slots, NEW k \in Keys,
           ReclaimFinalize(s, k) \/ (\E caller \in Callers : ExportSubAccount(s, caller, k))
    PROVE  Unseen
<1>1. PICK call :
        /\ StartCall(s, call)
        /\ \/ call.kind = "reclaim" /\ call.stage = AfterSnapshot
           \/ call.kind = "export" /\ call.stage = "dispatch"
  BY DEF ReclaimFinalize, ExportSubAccount
<1>2. DutyOf(call) = "nothing"
  BY <1>1, DutyByKind DEF AfterSnapshot
<1>3. UNCHANGED sub_accounts /\ UNCHANGED locker
  BY DEF ReclaimFinalize, ExportSubAccount, subVars, chainVars
<1> QED  BY <1>1, <1>2, <1>3, StartsNothing

LEMMA BalancesCheckedUnseen ==
    ASSUME TypeOK, NEW s \in Slots, OnBalancesChecked(s)
    PROVE  Unseen
<1>1. calls[s].kind = "reclaim" /\ calls[s].kind \in Kinds /\ calls[s].stage = "checked"
  BY DEF OnBalancesChecked, At, Kinds
<1>2. DutyOf(calls[s]) = "nothing"
  BY <1>1, DutyByKind
<1>3. UNCHANGED sub_accounts /\ UNCHANGED locker
  BY DEF OnBalancesChecked, subVars, chainVars
<1>4. CASE Advance(s, "dispatch", TRUE)
  <2>1. /\ \A d \in Slots \ {s} : calls'[d] = calls[d]
        /\ calls'[s].kind = "reclaim" /\ calls'[s].stage = "dispatch"
    BY <1>1, <1>4, CallAdvanced
  <2>2. DutyOf(calls'[s]) = "nothing"
    BY <2>1, DutyByKind
  <2> QED  BY <1>2, <1>3, <2>1, <2>2, NothingDone
<1>5. CASE EndCall(s)
  BY <1>2, <1>3, <1>5, CallEnded, NoCallDoesNothing, NothingDone
<1> QED  BY <1>4, <1>5 DEF OnBalancesChecked

LEMMA SweepUnseen ==
    ASSUME TypeOK, SweepNext
    PROVE  Unseen
<1>1. UNCHANGED sub_accounts /\ UNCHANGED locker
  BY DEF SweepNext, ReclaimSweepFt, SweepFt, MeasureBalance, AfterBalanceQuery,
     DepositStorage, AfterStorageDeposit, TransferTokens, subVars, chainVars
<1>2. ASSUME NEW s \in Slots, NEW k \in Keys, NEW t \in Tokens, ReclaimSweepFt(s, k, t)
      PROVE  Unseen
  <2>1. PICK call : StartCall(s, call) /\ call.kind = "sweep"
    BY <1>2 DEF ReclaimSweepFt
  <2> QED  BY <1>1, <2>1, DutyByKind, StartsNothing
<1>3. ASSUME NEW s \in Slots, calls[s].kind = "sweep",
             \/ EndCall(s)
             \/ \E stage, ok : Advance(s, stage, ok)
             \/ MeasureBalance(s, TRUE) \/ MeasureBalance(s, FALSE)
      PROVE  Unseen
  <2>1. calls[s] \in Call /\ calls[s].kind \in Kinds
    BY <1>3, CallType DEF Kinds
  <2>2. DutyOf(calls[s]) = "nothing"
    BY <1>3, DutyByKind
  <2>3. CASE EndCall(s)
    BY <1>1, <2>2, <2>3, CallEnded, NoCallDoesNothing, NothingDone
  <2>4. CASE \E stage, ok : Advance(s, stage, ok)
    <3>1. (\A d \in Slots \ {s} : calls'[d] = calls[d]) /\ calls'[s].kind = "sweep"
      BY <1>3, <2>1, <2>4, CallAdvanced
    <3> QED  BY <1>1, <2>2, <3>1, DutyByKind, NothingDone
  <2>5. CASE MeasureBalance(s, TRUE) \/ MeasureBalance(s, FALSE)
    <3>1. (\A d \in Slots \ {s} : calls'[d] = calls[d]) /\ calls'[s].kind = "sweep"
      BY <1>3, <2>1, <2>5 DEF MeasureBalance, TypeOK, Call
    <3> QED  BY <1>1, <2>2, <3>1, DutyByKind, NothingDone
  <2> QED  BY <1>3, <2>3, <2>4, <2>5
<1>4. ASSUME NEW s \in Slots, SweepFt(s) \/ AfterBalanceQuery(s) \/ AfterStorageDeposit(s)
      PROVE  Unseen
  <2>1. calls[s].kind = "sweep" /\ (EndCall(s) \/ \E stage, ok : Advance(s, stage, ok))
    BY <1>4 DEF SweepFt, AfterBalanceQuery, AfterStorageDeposit, ProceedIf, At
  <2> QED  BY <1>3, <2>1
<1>5. ASSUME NEW s \in Slots, NEW ok \in BOOLEAN,
             MeasureBalance(s, ok) \/ DepositStorage(s, ok) \/ TransferTokens(s, ok)
      PROVE  Unseen
  <2>1. /\ calls[s].kind = "sweep"
        /\ \/ EndCall(s)
           \/ \E stage, answer : Advance(s, stage, answer)
           \/ MeasureBalance(s, TRUE) \/ MeasureBalance(s, FALSE)
    BY <1>5 DEF MeasureBalance, DepositStorage, TransferTokens, At
  <2> QED  BY <1>3, <2>1
<1> QED  BY <1>2, <1>4, <1>5 DEF SweepNext

LEMMA RefundsUnseen ==
    ASSUME TypeOK, RefundsNext
    PROVE  Unseen
<1>1. UNCHANGED sub_accounts /\ UNCHANGED locker
  BY DEF RefundsNext, ClaimRefund, TransferRefund, OnClaimRefundSettled, Withdraw,
     subVars, chainVars
<1>2. ASSUME NEW s \in Slots, NEW caller \in Callers, ClaimRefund(s, caller)
      PROVE  Unseen
  <2>1. PICK call : StartCall(s, call) /\ call.kind = "claim"
    BY <1>2 DEF ClaimRefund
  <2> QED  BY <1>1, <2>1, DutyByKind, StartsNothing
<1>3. ASSUME NEW s \in Slots, TransferRefund(s)
      PROVE  Unseen
  <2>1. calls[s].kind = "claim" /\ calls[s] \in Call
    BY <1>3, CallType DEF TransferRefund, At, Kinds
  <2>2. (\A d \in Slots \ {s} : calls'[d] = calls[d]) /\ calls'[s].kind = "claim"
    BY <1>3, <2>1 DEF TransferRefund, TypeOK, Call
  <2> QED  BY <1>1, <2>1, <2>2, DutyByKind, NothingDone
<1>4. ASSUME NEW s \in Slots, OnClaimRefundSettled(s)
      PROVE  Unseen
  <2>1. calls[s].kind = "claim" /\ EndCall(s)
    BY <1>4 DEF OnClaimRefundSettled, At
  <2> QED  BY <1>1, <2>1, CallEnded, DutyByKind, NoCallDoesNothing, NothingDone
<1>5. ASSUME NEW caller \in Callers, NEW amount \in Deposits, NEW recipient \in Accounts,
             Withdraw(caller, amount, recipient)
      PROVE  Unseen
  BY <1>1, <1>5, NoChainMoves DEF Withdraw
<1> QED  BY <1>2, <1>3, <1>4, <1>5 DEF RefundsNext

LEMMA OthersUnseen ==
    ASSUME TypeOK, MotherNext \/ AdminNext \/ EnvironmentNext \/ UNCHANGED vars
    PROVE  Unseen
<1>1. CASE QueryNext
  BY <1>1, QueryUnseen DEF QueryNext
<1>2. CASE MotherNext \/ UNCHANGED vars
  BY <1>2, NoChainMoves DEF MotherNext, SetMother, AdminClearMother, vars, subVars, chainVars
<1>3. CASE AdminNext
  BY <1>3, NoChainMoves DEF AdminNext, RegisterTla, ActivateOpenTla, SuspendTla, UnsuspendTla,
     AddAdmin, RemoveAdmin, SetAdmins, UpdateFeeConfig, SetPaused, AddFtAllowlist,
     RemoveFtAllowlist, AddNftAllowlist, RemoveNftAllowlist, subVars, chainVars
<1>4. CASE (\E k \in Keys, t \in Tokens : DepositToken(k, t)) \/ Tick
  BY <1>4, NoChainMoves DEF DepositToken, Tick, subVars, chainVars
<1> QED  BY <1>1, <1>2, <1>3, <1>4 DEF EnvironmentNext

-----------------------------------------------------------------------------
(* Every step is one of Custody's, or is not seen.                         *)

LEMMA RentalStep ==
    ASSUME TypeOK, TypeOK', RentalNext
    PROVE  Custody!Next \/ Unseen
<1>1. ASSUME NEW s \in Slots, NEW caller \in Callers, NEW k \in Keys, NEW w \in Accounts,
             NEW d \in Deposits, RentSubAccount(s, caller, k, w, d)
      PROVE  Custody!Next
  <2>1. Custody!Take(s, k, caller) /\ caller \in Accounts
    BY <1>1, RentTakes, CallerType
  <2> QED  BY <2>1 DEF Custody!Next
<1>2. ASSUME NEW s \in Slots, CreateAccountBatch(s) \/ OnSubAccountCreationFailed(s)
      PROVE  Custody!Next \/ Unseen
  BY <1>2, BatchFounds, CreationFailedReleases DEF Custody!Next
<1>3. ASSUME NEW s \in Slots,
             CreateSubAccount(s) \/ OnSubAccountCreated(s) \/ OnSubAccountCreatedPanics(s)
      PROVE  Unseen
  BY <1>3, CreationUnseen
<1>4. ASSUME NEW caller \in Callers, NEW k \in Keys,
             \/ \E d \in Deposits : RenewSubAccount(caller, k, d)
             \/ \E w \in Accounts : SetMainWallet(caller, k, w)
      PROVE  Unseen
  BY <1>4, EntryRenewedUnseen
<1>5. ASSUME NEW caller \in Callers, NEW t \in Tlas, NEW d \in Deposits,
             ActivateTla(caller, t, d) \/ RenewTla(caller, t, d)
      PROVE  Unseen
  BY <1>5, NoChainMoves DEF ActivateTla, RenewTla, subVars, chainVars
<1> QED  BY <1>1, <1>2, <1>3, <1>4, <1>5 DEF RentalNext

LEMMA LockerStep ==
    ASSUME TypeOK, LockerNext
    PROVE  Custody!Next \/ Unseen
BY LockerHandsOver, LockerBeginsDelete, AccountDeleted, LockerBeginsExport, AccountAddsKey,
   LockerResolves DEF LockerNext, Custody!Next

LEMMA ReclaimStep ==
    ASSUME TypeOK, ReclaimNext
    PROVE  Custody!Next \/ Unseen
<1>1. ASSUME NEW s \in Slots, NEW k \in Keys,
             ReclaimFinalize(s, k) \/ (\E caller \in Callers : ExportSubAccount(s, caller, k))
      PROVE  Unseen
  BY <1>1, LeavingBegunUnseen
<1>2. ASSUME NEW s \in Slots, OnBalancesChecked(s) \/ OnReclaimFinalized(s) \/ OnExportSettled(s)
      PROVE  Custody!Next \/ Unseen
  BY <1>2, BalancesCheckedUnseen, ReclaimReleases, ExportReleasesEntry DEF Custody!Next
<1> QED  BY <1>1, <1>2 DEF ReclaimNext

LEMMA MarketplaceStep ==
    ASSUME TypeOK, TypeOK', MarketplaceNext
    PROVE  Custody!Next \/ Unseen
<1>1. ASSUME NEW s \in Slots, NEW buyer \in Callers, NEW k \in Keys, NEW d \in Deposits,
             BuySubAccount(s, buyer, k, d)
      PROVE  Custody!Next
  <2>1. Custody!BeginSale(s, k, buyer) /\ buyer \in Accounts
    BY <1>1, BuyBeginsSale, CallerType
  <2> QED  BY <2>1 DEF Custody!Next
<1>2. ASSUME NEW s \in Slots, OnBuyBalancesChecked(s) \/ OnSaleFailed(s) \/ OnSubAccountSold(s)
      PROVE  Custody!Next \/ Unseen
  BY <1>2, BalancesCheckedOrCalledOff, SaleFailedCallsOff, SoldSells DEF Custody!Next
<1>3. ASSUME NEW caller \in Callers, NEW k \in Keys,
             \/ \E price \in Prices :
                   \/ ListSubAccount(caller, k, price)
                   \/ \E buyer \in Accounts : AcceptOffer(caller, k, buyer, price)
             \/ UnlistSubAccount(caller, k)
             \/ RevokeOffer(caller, k)
      PROVE  Unseen
  BY <1>3, NoChainMoves DEF ListSubAccount, AcceptOffer, UnlistSubAccount, RevokeOffer,
     subVars, chainVars
<1> QED  BY <1>1, <1>2, <1>3 DEF MarketplaceNext

LEMMA BusinessStep ==
    ASSUME TypeOK, BusinessNext
    PROVE  Unseen
BY EntryRenewedUnseen, NoChainMoves DEF BusinessNext, SetBusinessSubCap, subVars, chainVars

LEMMA CustodyStep ==
    ASSUME TypeOK, TypeOK', [Next]_vars
    PROVE  [Custody!Next]_(Custody!custody)
<1>1. Custody!Next \/ Unseen
  BY RentalStep, LockerStep, ReclaimStep, MarketplaceStep, BusinessStep, SweepUnseen,
     RefundsUnseen, OthersUnseen DEF Next
<1>2. Unseen => UNCHANGED Custody!custody
  BY DEF Unseen, Custody!custody, Holders, ChainDuties
<1> QED  BY <1>1, <1>2

LEMMA CustodyStart == Init => Custody!Init
<1> SUFFICES ASSUME Init
             PROVE  Custody!Init
  OBVIOUS
<1>1. /\ sub_accounts = [k \in Keys |-> None]
      /\ locker = [k \in Keys |-> NoLocker]
      /\ calls = [s \in Slots |-> NoCall]
  BY DEF Init, Start
<1>2. \A k \in Keys : HolderOf(k) = None
  BY <1>1 DEF HolderOf
<1>3. \A s \in Slots : ChainOf(calls[s]) = Custody!Idle
  BY <1>1, NoCallDoesNothing DEF ChainOf, Custody!Idle
<1> QED  BY <1>1, <1>2, <1>3 DEF Custody!Init, Custody!NoAccount, NoLocker

(***************************************************************************)
(* Rent, sale, reclaim and export, whatever the order in which their       *)
(* receipts are executed, do to a name and its account only what Custody   *)
(* allows.                                                                 *)
(***************************************************************************)
THEOREM RegistryIsCustodian == Spec => NamesInCustody
<1>1. Init => Custody!Init
  BY CustodyStart
<1>2. TypeOK /\ TypeOK' /\ [Next]_vars => [Custody!Next]_(Custody!custody)
  BY CustodyStep
<1> QED  BY <1>1, <1>2, TypeCorrect, PTL DEF Spec, NamesInCustody, Custody!Spec

-----------------------------------------------------------------------------
(* What Custody_proofs shows of every custody, for this one.               *)

CP == INSTANCE Custody_proofs WITH
    Names      <- Keys,
    People     <- Accounts,
    Chains     <- Slots,
    KeyMayFail <- AddKeyMayFail,
    holder     <- [k \in Keys |-> HolderOf(k)],
    account    <- locker,
    chain      <- [s \in Slots |-> ChainOf(calls[s])]

LEMMA CustodyKept == Spec => CP!Spec
<1>1. Custody!Init => CP!Init
  BY DEF Custody!Init, CP!Init, Custody!NoAccount, CP!NoAccount, Custody!Idle, CP!Idle
<1>2. [Custody!Next]_(Custody!custody) => [CP!Next]_(CP!custody)
  BY DEF Custody!Next, CP!Next, Custody!custody, CP!custody,
     Custody!Take, CP!Take, Custody!Found, CP!Found, Custody!BeginSale, CP!BeginSale,
     Custody!HandOver, CP!HandOver, Custody!Sell, CP!Sell, Custody!CallOff, CP!CallOff,
     Custody!BeginDelete, CP!BeginDelete, Custody!Delete, CP!Delete,
     Custody!BeginExport, CP!BeginExport, Custody!AddKey, CP!AddKey,
     Custody!Resolve, CP!Resolve, Custody!Release, CP!Release,
     Custody!Begin, CP!Begin, Custody!GoOn, CP!GoOn, Custody!End, CP!End,
     Custody!Idle, CP!Idle, Custody!Busy, CP!Busy, Custody!Does, CP!Does,
     Custody!NoAccount, CP!NoAccount, Custody!Exporting, CP!Exporting
<1> QED  BY <1>1, <1>2, RegistryIsCustodian, PTL DEF NamesInCustody, Custody!Spec, CP!Spec

\* An account that has been exported is not changed or deleted by any chain that was
\* begun before, and none can be begun.
THEOREM ExportsAreFinal == Spec => ExportIsFinal
<1>1. [\A n \in Keys : locker[n].state = "Exported" => locker'[n] = locker[n]]_(CP!custody)
      => [\A k \in Keys : locker[k].state = "Exported" => locker'[k] = locker[k]]_vars
  BY DEF CP!custody
<1> QED  BY <1>1, CustodyKept, CP!FreeAccountsStayFree, PTL DEF CP!FreeForGood, ExportIsFinal

\* A chain's duty as Custody sees it, read back.
LEMMA DutySeen ==
    ASSUME NEW s \in Slots, NEW duties, "nothing" \notin duties, NEW k,
           CP!Does(s, duties, k)
    PROVE  DutyOf(calls[s]) \in duties /\ calls[s].key = k
BY DEF CP!Does, ChainOf

LEMMA SellersSeen ==
    ASSUME NEW s \in Slots, NEW k, CP!Does(s, CP!Selling, k)
    PROVE  s \in SellingSlots(k)
<1>1. DutyOf(calls[s]) \in {"selling", "handed"} /\ calls[s].key = k
  BY DutySeen DEF CP!Selling
<1>2. calls[s].kind = "buy"
  BY <1>1, DutyByKind
<1> QED  BY <1>1, <1>2 DEF SellingSlots, InFlight

\* The two conditions under which Custody's keys follow its holders.
LEMMA SalesAreSingle == Spec /\ FreshTenancies => []CP!OneSale /\ CP!TakenAfterSale
<1>1. SalesInv => CP!OneSale
  BY SellersSeen DEF SalesInv, SaleInv, CP!OneSale
<1>2. TypeOK /\ TypeOK'
      /\ [\A k \in Keys :
            sub_accounts[k] = None /\ sub_accounts'[k] # None => SellingSlots(k) = {}]_vars
      => [CP!NoTakeDuringSale]_(CP!custody)
  <2> SUFFICES ASSUME TypeOK, TypeOK',
                      [\A k \in Keys : sub_accounts[k] = None /\ sub_accounts'[k] # None
                          => SellingSlots(k) = {}]_vars,
                      NEW n \in Keys, HolderOf(n) = None, HolderOf(n)' # None
               PROVE  ~CP!Busy(n, CP!Selling)
    BY DEF CP!NoTakeDuringSale
  <2>1. sub_accounts[n] = None /\ sub_accounts'[n] # None
    BY HolderKnown DEF HolderOf
  <2>2. SellingSlots(n) = {}
    BY <2>1 DEF vars, subVars
  <2> QED  BY <2>2, SellersSeen DEF CP!Busy
<1> QED  BY <1>1, <1>2, SalesInvHolds, TypeCorrect, PTL DEF FreshTenancies, CP!TakenAfterSale

\* A deletion that no sale is in flight for, as Custody sees it.
LEMMA DeletionsSeen ==
    ASSUME [\A k \in Keys : Deleted(k) => SellingSlots(k) = {}]_vars
    PROVE  [CP!NoDeleteDuringSale]_(CP!custody)
<1> SUFFICES ASSUME NEW n \in Keys, locker[n] # CP!NoAccount, locker'[n] = CP!NoAccount
             PROVE  ~CP!Busy(n, CP!Selling)
  BY DEF CP!NoDeleteDuringSale
<1>1. Deleted(n)
  BY DEF Deleted, NoLocker, CP!NoAccount
<1>2. SellingSlots(n) = {}
  BY <1>1 DEF vars, chainVars
<1> QED  BY <1>2, SellersSeen DEF CP!Busy

\* What the network does to the keys as Custody sees it.
LEMMA KeysSeen ==
    ASSUME NEW K \in SUBSET Keys, [NoKeyFails(K)]_vars
    PROVE  [\A n \in K : CP!KeyLands(n)]_(CP!custody)
<1> SUFFICES ASSUME NEW n \in K, NEW s \in Slots,
                    CP!Does(s, {"exporting"}, n), ChainOf(calls'[s]).does = "unkeyed"
             PROVE  locker[n] = NoLocker
  BY DEF CP!KeyLands, CP!NoAccount, NoLocker
<1>1. DutyOf(calls[s]) = "exporting" /\ calls[s].key = n
  BY DutySeen
<1>2. DutyOf(calls'[s]) = "unkeyed"
  BY DEF ChainOf
<1>3. At(s, "export", "effect")
  BY <1>1, DutyByKind DEF At
<1>4. At(s, "export", "resolve")' /\ ~calls'[s].ok
  BY <1>2, DutyByKind DEF At
<1>5. NoKeyFails(K)
  BY <1>1, <1>2 DEF vars
<1> QED  BY <1>1, <1>3, <1>4, <1>5 DEF NoKeyFails, KeyFails

\* Where AddKey never fails, KeysLand is no condition.
LEMMA KeysLandUnlessTheyMayFail ==
    ASSUME AddKeyMayFail = FALSE
    PROVE  Spec => KeysLand(Keys)
<1>1. TypeOK /\ [\A n \in Keys : CP!KeyLands(n)]_(CP!custody) => [NoKeyFails(Keys)]_vars
  <2> SUFFICES ASSUME TypeOK, [\A n \in Keys : CP!KeyLands(n)]_(CP!custody),
                      NEW s \in Slots, KeyFails(s), calls[s].key \in Keys
               PROVE  FALSE
    BY DEF NoKeyFails
  <2> DEFINE k == calls[s].key
             seen == [d \in Slots |-> ChainOf(calls[d])]
  <2>1. DutyOf(calls[s]) = "exporting" /\ DutyOf(calls'[s]) = "unkeyed"
    BY DutyByKind DEF KeyFails, At
  <2>2. seen[s].does = "exporting" /\ seen[s].name = k /\ seen'[s].does = "unkeyed"
    BY <2>1, ChainSeen DEF ChainOf
  <2>3. \A n \in Keys : CP!KeyLands(n)
    BY <2>2 DEF CP!custody
  <2> QED  BY <2>2, <2>3 DEF CP!KeyLands, KeyFails, CP!Does, CP!NoAccount, NoLocker
<1> QED
  BY <1>1, AddKeyMayFail = FALSE, CustodyKept, CP!NoneFails, TypeCorrect, PTL
  DEF KeysLand, CP!KeysLand

\* So Custody's invariants, of the names whose keys have not failed, are the registry's.
LEMMA RegistryStarts ==
    ASSUME NEW K \in SUBSET Keys, CP!Init
    PROVE  CP!RegistryInv(K)
BY CP!RegistryStart

LEMMA RegistryGoesOn ==
    ASSUME NEW K \in SUBSET Keys, CP!RegistryInv(K), [CP!Next]_(CP!custody), [NoKeyFails(K)]_vars
    PROVE  CP!RegistryInv(K)'
<1>1. None \notin Accounts
  BY RegistryAssumption
<1> QED  BY <1>1, KeysSeen, CP!RegistryNext

KeyedInv(K) == CP!RegistryInv(K) /\ CP!KeysInv(K)

LEMMA KeyedStarts ==
    ASSUME NEW K \in SUBSET Keys, CP!Init
    PROVE  KeyedInv(K)
BY CP!RegistryStart, CP!KeysStart DEF KeyedInv

LEMMA KeyedGoesOn ==
    ASSUME NEW K \in SUBSET Keys, KeyedInv(K), CP!OneSale, [CP!Next]_(CP!custody),
           [CP!NoTakeDuringSale]_(CP!custody), [NoKeyFails(K)]_vars
    PROVE  KeyedInv(K)'
<1>1. None \notin Accounts
  BY RegistryAssumption
<1>2. CP!RegistryInv(K)'
  BY RegistryGoesOn DEF KeyedInv
<1>3. CP!KeysInv(K)'
  BY <1>1, CP!KeysNext DEF KeyedInv
<1> QED  BY <1>2, <1>3 DEF KeyedInv

LEMMA KeyedAgrees ==
    ASSUME TypeOK, NEW K \in SUBSET Keys, KeyedInv(K), NEW k \in K
    PROVE  AgreesOn(k)
<1> SUFFICES ASSUME Quiet(k)
             PROVE  IF sub_accounts[k] = None THEN locker[k].state \in {"Absent", "Exported"}
                    ELSE locker[k].state = "Held" /\ locker[k].owner_key = sub_accounts[k].owner
  BY DEF AgreesOn
<1>1. ~CP!Busy(k, CP!Duties)
  <2> SUFFICES ASSUME NEW s \in Slots, CP!Does(s, CP!Duties, k)
               PROVE  FALSE
    BY DEF CP!Busy
  <2>1. "nothing" \notin CP!Duties
    BY DEF CP!Duties, CP!Selling, CP!Exporting
  <2>2. calls[s].key = k
    BY <2>1, DutySeen
  <2> QED  BY <2>2 DEF Quiet, InFlight
<1>2. CP!Agreed(K)
  BY CP!AgreedThen DEF KeyedInv
<1>3. IF HolderOf(k) = None THEN locker[k].state \in {"Absent", "Exported"}
      ELSE locker[k] = [state |-> "Held", owner_key |-> HolderOf(k)]
  BY <1>1, <1>2 DEF CP!Agreed
<1> QED  BY <1>3, HolderKnown DEF HolderOf

\* If AddKey has failed at no account of K and no name is rented anew while its last
\* sale is under way, the registry and the chain agree on every name of K for which
\* nothing is in flight: a key that failed for one name does no harm to another.
THEOREM NamesAgreeWithChain ==
    ASSUME NEW K \in SUBSET Keys
    PROVE  Spec /\ FreshTenancies /\ KeysLand(K) => [](\A k \in K : AgreesOn(k))
<1>1. CP!Init => KeyedInv(K)
  BY KeyedStarts
<1>2. /\ KeyedInv(K) /\ CP!OneSale /\ [CP!Next]_(CP!custody)
      /\ [CP!NoTakeDuringSale]_(CP!custody) /\ [NoKeyFails(K)]_vars
      => KeyedInv(K)'
  BY KeyedGoesOn
<1>3. TypeOK /\ KeyedInv(K) => \A k \in K : AgreesOn(k)
  BY KeyedAgrees
<1> QED
  BY <1>1, <1>2, <1>3, CustodyKept, SalesAreSingle, TypeCorrect, PTL
  DEF CP!Spec, CP!TakenAfterSale, KeysLand

\* In particular, if it has failed at none.
THEOREM RegistryAgreesWithChain == Spec /\ FreshTenancies /\ KeysLand(Keys) => []ChainAgrees
<1>1. CP!Init => KeyedInv(Keys)
  BY KeyedStarts
<1>2. /\ KeyedInv(Keys) /\ CP!OneSale /\ [CP!Next]_(CP!custody)
      /\ [CP!NoTakeDuringSale]_(CP!custody) /\ [NoKeyFails(Keys)]_vars
      => KeyedInv(Keys)'
  BY KeyedGoesOn
<1>3. TypeOK /\ KeyedInv(Keys) => ChainAgrees
  BY KeyedAgrees DEF ChainAgrees
<1> QED
  BY <1>1, <1>2, <1>3, CustodyKept, SalesAreSingle, TypeCorrect, PTL
  DEF CP!Spec, CP!TakenAfterSale, KeysLand

\* A sale is over when it is aborted or when it has settled.
LEMMA SaleEnds ==
    ASSUME TypeOK, [Next]_vars, NEW s \in Slots, calls[s].kind = "buy", calls'[s] = NoCall
    PROVE  AbortSale(s) \/ OnSubAccountSold(s)
<1>1. ~SalesGoOn
  BY DEF SalesGoOn, NoCall
<1>2. MarketplaceNext
  BY <1>1, SalesRental, SalesLocker, SalesSweep, SalesReclaim, SalesRefunds, SalesOthers
     DEF Next, SalesKept
<1>3. UNCHANGED calls => SalesGoOn
  BY UnchangedCalls DEF SalesKept
<1>4. ASSUME NEW d \in Slots, NEW buyer \in Callers, NEW k \in Keys, NEW deposit \in Deposits,
             BuySubAccount(d, buyer, k, deposit)
      PROVE  FALSE
  <2>1. PICK call : StartCall(d, call)
    BY <1>4 DEF BuySubAccount
  <2> QED  BY <1>1, <2>1, StartedCall
<1>5. PICK d \in Slots : OnBuyBalancesChecked(d) \/ OnSaleFailed(d) \/ OnSubAccountSold(d)
  BY <1>1, <1>2, <1>3, <1>4 DEF MarketplaceNext, ListSubAccount, AcceptOffer,
     UnlistSubAccount, RevokeOffer
<1>6. calls[d] \in Call
  BY <1>5, CallType DEF OnBuyBalancesChecked, OnSaleFailed, OnSubAccountSold, At, Kinds
<1>7. ~Advance(d, "dispatch", TRUE)
  BY <1>1, <1>6, AdvancedCall DEF SalesKept
<1>8. EndCall(d) /\ (AbortSale(d) \/ OnSubAccountSold(d))
  BY <1>5, <1>7 DEF OnBuyBalancesChecked, OnSaleFailed, OnSubAccountSold, AbortSale
<1>9. d = s
  BY <1>8, CallEnded DEF NoCall
<1> QED  BY <1>8, <1>9

\* A buyer whose chain ends has got the account, with its key and their change, or the
\* whole deposit back.
LEMMA BuyEnds ==
    ASSUME TypeOK, TypeOK', NEW K \in SUBSET Keys, CP!HandedOver(K), [Next]_vars,
           NEW s \in Slots, calls[s].key \in K
    PROVE  MadeWhole(s)
<1> SUFFICES ASSUME calls[s].kind = "buy", calls'[s] = NoCall
             PROVE  MadeWhole(s)
  BY DEF MadeWhole
<1>1. calls[s] \in Call /\ calls[s].key \in Keys /\ calls[s].who \in Accounts
  BY CallType DEF Kinds, Call
<1>2. CASE AbortSale(s)
  <2>1. pending_refunds' = [pending_refunds EXCEPT ![calls[s].who] = @ + calls[s].paid]
    BY <1>2 DEF AbortSale, AddPendingRefund, Credited
  <2>2. calls[s].paid \in Nat /\ pending_refunds[calls[s].who] \in Nat
    BY <1>1 DEF Call, TypeOK
  <2>3. pending_refunds'[calls[s].who] = pending_refunds[calls[s].who] + calls[s].paid
    BY <1>1, <2>1 DEF TypeOK
  <2> QED  BY <2>2, <2>3 DEF MadeWhole
<1>3. CASE OnSubAccountSold(s)
  <2> DEFINE c == calls[s]
             k == c.key
             seller == sub_accounts[k].owner
             proceeds == c.cost - Commission(c.cost, fee_config)
             excess == Monus(c.paid, c.cost)
  <2>1. c.cost \in Nat /\ c.paid \in Nat
    BY <1>1 DEF Call
  <2>2. proceeds \in Nat
    BY <2>1, CommissionType DEF TypeOK
  <2>3. excess \in Nat /\ excess >= c.paid - c.cost
    BY <2>1 DEF Monus
  <2>4. sub_accounts[k] \in SubAccountEntry
    BY <1>1, <1>3 DEF OnSubAccountSold, TypeOK
  <2>5. seller \in Accounts
    BY <2>4 DEF SubAccountEntry
  <2>6. pending_refunds' =
          Credited(Credited(pending_refunds, seller, proceeds), c.who, excess)
    BY <1>3 DEF OnSubAccountSold
  <2> HIDE DEF seller, proceeds, excess
  <2>7. pending_refunds'[c.who] >= pending_refunds[c.who] + excess
    BY <1>1, <2>2, <2>3, <2>5, <2>6 DEF Credited, TypeOK
  <2>8. pending_refunds'[c.who] \in Nat /\ pending_refunds[c.who] \in Nat
    BY <1>1 DEF TypeOK
  <2>9. sub_accounts'[k].owner = c.who
    BY <1>1, <1>3, <2>4 DEF OnSubAccountSold, TypeOK, SubAccountEntry
  <2>10. sub_accounts'[k] # None
    <3>1. sub_accounts' = [sub_accounts EXCEPT
                            ![k] = [sub_accounts[k] EXCEPT !.owner = c.who, !.main_wallet = c.who]]
      BY <1>3 DEF OnSubAccountSold
    <3>2. [sub_accounts[k] EXCEPT !.owner = c.who, !.main_wallet = c.who] \in SubAccountEntry
      BY <1>1, <2>4, SubAccountEntryUpdate
    <3> QED  BY <1>1, <3>1, <3>2, EntryAssumption DEF TypeOK
  <2>11. locker[k].owner_key = c.who
    <3>1. c.stage = "callback" /\ c.ok
      BY <1>3 DEF OnSubAccountSold, At
    <3>2. DutyOf(c) = "handed"
      BY <3>1, DutyByKind
    <3>3. /\ [x \in Slots |-> ChainOf(calls[x])][s].does = "handed"
          /\ [x \in Slots |-> ChainOf(calls[x])][s].name = k
          /\ [x \in Slots |-> ChainOf(calls[x])][s].who = c.who
      BY <3>2, ChainSeen
    <3>4. k \in K
      OBVIOUS
    <3> HIDE DEF k, c
    <3> QED  BY <3>3, <3>4 DEF CP!HandedOver, CP!Does
  <2> QED  BY <2>1, <2>3, <2>7, <2>8, <2>9, <2>10, <2>11 DEF MadeWhole
<1> QED  BY <1>2, <1>3, SaleEnds

\* If AddKey has failed at no account of K, no name is rented anew while its last sale is
\* under way, and no account is deleted while its name is being sold, that is so for every
\* buyer of a name of K.
THEOREM BuyersOfNames ==
    ASSUME NEW K \in SUBSET Keys
    PROVE  Spec /\ FreshTenancies /\ NoDeletionInSale /\ KeysLand(K)
             => [][\A s \in Slots : calls[s].key \in K => MadeWhole(s)]_vars
<1>1. CP!Init => KeyedInv(K) /\ CP!StandsInv
  BY KeyedStarts, CP!StandsStart
<1>2. /\ KeyedInv(K) /\ CP!OneSale /\ [CP!Next]_(CP!custody)
      /\ [CP!NoTakeDuringSale]_(CP!custody) /\ [NoKeyFails(K)]_vars
      => KeyedInv(K)'
  BY KeyedGoesOn
<1>3. TypeOK /\ TypeOK' /\ KeyedInv(K) /\ CP!StandsInv /\ [Next]_vars
      => [\A s \in Slots : calls[s].key \in K => MadeWhole(s)]_vars
  BY BuyEnds, CP!KeyOfBuyer DEF KeyedInv
<1>4. /\ KeyedInv(K) /\ CP!StandsInv /\ [CP!Next]_(CP!custody)
      /\ [CP!NoDeleteDuringSale]_(CP!custody)
      => CP!StandsInv'
  BY CP!StandsNext DEF KeyedInv, CP!RegistryInv, CP!BaseInv, CP!AccountInv
<1>5. [\A k \in Keys : Deleted(k) => SellingSlots(k) = {}]_vars
      => [CP!NoDeleteDuringSale]_(CP!custody)
  BY DeletionsSeen
<1> QED
  BY <1>1, <1>2, <1>3, <1>4, <1>5, CustodyKept, SalesAreSingle, TypeCorrect, PTL
  DEF Spec, NoDeletionInSale, CP!Spec, CP!TakenAfterSale, KeysLand

\* In particular, if it has failed at none.
THEOREM BuyersAreMadeWhole == Spec /\ FreshTenancies /\ NoDeletionInSale /\ KeysLand(Keys) => BuyerMadeWhole
<1>1. CP!Init => KeyedInv(Keys) /\ CP!StandsInv
  BY KeyedStarts, CP!StandsStart
<1>2. /\ KeyedInv(Keys) /\ CP!OneSale /\ [CP!Next]_(CP!custody)
      /\ [CP!NoTakeDuringSale]_(CP!custody) /\ [NoKeyFails(Keys)]_vars
      => KeyedInv(Keys)'
  BY KeyedGoesOn
<1>3. TypeOK /\ TypeOK' /\ KeyedInv(Keys) /\ CP!StandsInv /\ [Next]_vars => [\A s \in Slots : MadeWhole(s)]_vars
  <2> SUFFICES ASSUME TypeOK, TypeOK', KeyedInv(Keys), CP!StandsInv, [Next]_vars, NEW s \in Slots
               PROVE  MadeWhole(s)
    OBVIOUS
  <2>1. CASE calls[s].kind = "buy"
    <3>1. calls[s].key \in Keys
      BY <2>1, CallType DEF Kinds, Call
    <3> QED  BY <3>1, BuyEnds, CP!KeyOfBuyer DEF KeyedInv
  <2> QED  BY <2>1 DEF MadeWhole
<1>4. /\ KeyedInv(Keys) /\ CP!StandsInv /\ [CP!Next]_(CP!custody)
      /\ [CP!NoDeleteDuringSale]_(CP!custody)
      => CP!StandsInv'
  BY CP!StandsNext DEF KeyedInv, CP!RegistryInv, CP!BaseInv, CP!AccountInv
<1>5. [\A k \in Keys : Deleted(k) => SellingSlots(k) = {}]_vars
      => [CP!NoDeleteDuringSale]_(CP!custody)
  BY DeletionsSeen
<1> QED
  BY <1>1, <1>2, <1>3, <1>4, <1>5, CustodyKept, SalesAreSingle, TypeCorrect, PTL
  DEF Spec, NoDeletionInSale, CP!Spec, CP!TakenAfterSale, KeysLand, BuyerMadeWhole

-----------------------------------------------------------------------------
(* What the registry counts: the tenants of a business TLA, and the        *)
(* sub-accounts whose creation is settled.                                 *)

Tenants(t) == {k \in Keys : TlaOf[k] = t /\ sub_accounts[k] # None}

EntriesStay == \A k \in Keys : sub_accounts'[k] = None <=> sub_accounts[k] = None

CountsStay == UNCHANGED <<sub_account_count, business_sub_count>>

\* No rent begins, and none ends.
RentsGoOn ==
    \A s \in Slots : calls[s].kind = "rent" \/ calls'[s].kind = "rent" =>
        calls'[s].kind = calls[s].kind /\ calls'[s].key = calls[s].key

NothingCounted == EntriesStay /\ CountsStay /\ RentsGoOn

\* A reclaim or an export ends by removing its name.
Leaves(s, k) ==
    /\ calls[s].kind \in {"reclaim", "export"}
    /\ calls[s].stage = "callback"
    /\ calls[s].ok
    /\ calls[s].key = k
    /\ EndCall(s)
    /\ RemoveSubAccount(k)

LEMMA HoldersStayEntered ==
    ASSUME TypeOK, TypeOK', UNCHANGED Holders
    PROVE  EntriesStay
<1> SUFFICES ASSUME NEW k \in Keys
             PROVE  sub_accounts'[k] = None <=> sub_accounts[k] = None
  BY DEF EntriesStay
<1>1. HolderOf(k)' = HolderOf(k)
  <2>1. Holders[k] = HolderOf(k) /\ Holders'[k] = HolderOf(k)'
    BY DEF Holders
  <2> QED  BY <2>1
<1>2. HolderOf(k) = None <=> sub_accounts[k] = None
  BY HolderKnown
<1>3. HolderOf(k)' = None <=> sub_accounts'[k] = None
  BY RegistryAssumption DEF TypeOK, HolderOf, SubAccountEntry
<1> QED  BY <1>1, <1>2, <1>3

LEMMA EntriesUntouched ==
    ASSUME UNCHANGED sub_accounts
    PROVE  EntriesStay
BY DEF EntriesStay

LEMMA CallsUntouched ==
    ASSUME UNCHANGED calls
    PROVE  RentsGoOn
BY DEF RentsGoOn

\* A step of one chain that is not a rent before or after, or goes on as one.
LEMMA NoRentStep ==
    ASSUME NEW s \in Slots, \A d \in Slots \ {s} : calls'[d] = calls[d],
           \/ calls[s].kind # "rent" /\ calls'[s].kind # "rent"
           \/ calls'[s].kind = calls[s].kind /\ calls'[s].key = calls[s].key
    PROVE  RentsGoOn
BY DEF RentsGoOn

LEMMA NoRentStarts ==
    ASSUME TypeOK, NEW s \in Slots, NEW call, StartCall(s, call), call.kind # "rent"
    PROVE  RentsGoOn
BY CallStarted, NoRentStep DEF NoCall

LEMMA NoRentAdvancesOrEnds ==
    ASSUME TypeOK, NEW s \in Slots, calls[s].kind \in Kinds,
           \/ \E stage, ok : Advance(s, stage, ok)
           \/ EndCall(s) /\ calls[s].kind # "rent"
    PROVE  RentsGoOn
<1>1. CASE \E stage, ok : Advance(s, stage, ok)
  BY <1>1, CallAdvanced, NoRentStep
<1>2. CASE EndCall(s) /\ calls[s].kind # "rent"
  BY <1>2, CallEnded, NoRentStep DEF NoCall
<1> QED  BY <1>1, <1>2

LEMMA CountedRental ==
    ASSUME TypeOK, TypeOK', RentalNext
    PROVE  \/ NothingCounted
           \/ \E s \in Slots, caller \in Callers, k \in Keys, w \in Accounts, d \in Deposits :
                 RentSubAccount(s, caller, k, w, d)
           \/ \E s \in Slots : \/ OnSubAccountCreated(s)
                               \/ OnSubAccountCreatedPanics(s)
                               \/ OnSubAccountCreationFailed(s)
<1>1. ASSUME NEW caller \in Callers, NEW t \in Tlas, NEW d \in Deposits,
             ActivateTla(caller, t, d) \/ RenewTla(caller, t, d)
      PROVE  NothingCounted
  BY <1>1 DEF ActivateTla, RenewTla, subVars, businessVars, NothingCounted, EntriesStay,
     CountsStay, RentsGoOn
<1>2. ASSUME NEW caller \in Callers, NEW k \in Keys,
             \/ \E d \in Deposits : RenewSubAccount(caller, k, d)
             \/ \E w \in Accounts : SetMainWallet(caller, k, w)
      PROVE  NothingCounted
  <2>1. UNCHANGED Holders
    BY <1>2, EntryRenewedUnseen DEF Unseen
  <2>2. CountsStay /\ UNCHANGED calls
    BY <1>2 DEF RenewSubAccount, SetMainWallet, businessVars, CountsStay
  <2> QED  BY <2>1, <2>2, HoldersStayEntered, CallsUntouched DEF NothingCounted
<1>3. ASSUME NEW s \in Slots, CreateSubAccount(s) \/ CreateAccountBatch(s)
      PROVE  NothingCounted
  <2>1. calls[s] \in Call /\ calls[s].kind \in Kinds
    BY <1>3, CallType DEF CreateSubAccount, CreateAccountBatch, At, Kinds
  <2>2. EntriesStay /\ CountsStay
    BY <1>3 DEF CreateSubAccount, CreateAccountBatch, subVars, businessVars, EntriesStay, CountsStay
  <2>3. CASE CreateSubAccount(s)
    <3>1. /\ \A d \in Slots \ {s} : calls'[d] = calls[d]
          /\ calls'[s].kind = calls[s].kind /\ calls'[s].key = calls[s].key
      BY <2>1, <2>3 DEF CreateSubAccount, Advance, TypeOK, Call
    <3> QED  BY <2>2, <3>1, NoRentStep DEF NothingCounted
  <2>4. CASE CreateAccountBatch(s)
    BY <2>1, <2>2, <2>4, NoRentAdvancesOrEnds DEF CreateAccountBatch, NothingCounted
  <2> QED  BY <1>3, <2>3, <2>4
<1> QED  BY <1>1, <1>2, <1>3 DEF RentalNext

LEMMA CountedReclaim ==
    ASSUME TypeOK, ReclaimNext
    PROVE  NothingCounted \/ \E s \in Slots, k \in Keys : Leaves(s, k)
<1>1. ASSUME NEW s \in Slots, NEW k \in Keys,
             ReclaimFinalize(s, k) \/ \E caller \in Callers : ExportSubAccount(s, caller, k)
      PROVE  NothingCounted
  <2>1. PICK call : StartCall(s, call) /\ call.kind # "rent"
    BY <1>1 DEF ReclaimFinalize, ExportSubAccount
  <2>2. EntriesStay /\ CountsStay
    BY <1>1 DEF ReclaimFinalize, ExportSubAccount, subVars, businessVars, EntriesStay, CountsStay
  <2> QED  BY <2>1, <2>2, NoRentStarts DEF NothingCounted
<1>2. ASSUME NEW s \in Slots, OnBalancesChecked(s)
      PROVE  NothingCounted
  <2>1. EntriesStay /\ CountsStay
    BY <1>2 DEF OnBalancesChecked, subVars, businessVars, EntriesStay, CountsStay
  <2>2. calls[s].kind \in Kinds /\ calls[s].kind # "rent"
    BY <1>2 DEF OnBalancesChecked, At, Kinds
  <2> QED  BY <1>2, <2>1, <2>2, NoRentAdvancesOrEnds DEF OnBalancesChecked, NothingCounted
<1>3. ASSUME NEW s \in Slots, OnReclaimFinalized(s) \/ OnExportSettled(s)
      PROVE  NothingCounted \/ \E k \in Keys : Leaves(s, k)
  <2>1. /\ calls[s].kind \in {"reclaim", "export"} /\ calls[s].kind \in Kinds
        /\ calls[s].stage = "callback" /\ EndCall(s)
    BY <1>3 DEF OnReclaimFinalized, OnExportSettled, At, Kinds
  <2>2. PICK k \in Keys : k = calls[s].key
    BY <2>1, CallType DEF Call
  <2>3. CASE calls[s].ok /\ RemoveSubAccount(k)
    BY <2>1, <2>2, <2>3 DEF Leaves
  <2>4. CASE UNCHANGED <<subVars, saleVars, business_sub_count>>
    <3>1. EntriesStay /\ CountsStay
      BY <2>4 DEF subVars, EntriesStay, CountsStay
    <3> QED  BY <2>1, <3>1, NoRentAdvancesOrEnds DEF NothingCounted
  <2> QED  BY <1>3, <2>2, <2>3, <2>4 DEF OnReclaimFinalized, OnExportSettled
<1> QED  BY <1>1, <1>2, <1>3 DEF ReclaimNext

LEMMA CountedMarketplace ==
    ASSUME TypeOK, TypeOK', MarketplaceNext
    PROVE  NothingCounted
<1>1. CountsStay
  BY DEF MarketplaceNext, ListSubAccount, AcceptOffer, UnlistSubAccount, RevokeOffer,
     BuySubAccount, OnBuyBalancesChecked, OnSaleFailed, OnSubAccountSold, subVars, businessVars,
     CountsStay
<1>2. ASSUME NEW caller \in Callers, NEW k \in Keys,
             \/ \E price \in Prices :
                   \/ ListSubAccount(caller, k, price)
                   \/ \E buyer \in Accounts : AcceptOffer(caller, k, buyer, price)
             \/ UnlistSubAccount(caller, k)
             \/ RevokeOffer(caller, k)
      PROVE  EntriesStay /\ RentsGoOn
  BY <1>2 DEF ListSubAccount, AcceptOffer, UnlistSubAccount, RevokeOffer, subVars,
     EntriesStay, RentsGoOn
<1>3. ASSUME NEW s \in Slots, NEW buyer \in Callers, NEW k \in Keys, NEW d \in Deposits,
             BuySubAccount(s, buyer, k, d)
      PROVE  EntriesStay /\ RentsGoOn
  <2>1. PICK call : StartCall(s, call) /\ call.kind # "rent"
    BY <1>3 DEF BuySubAccount
  <2> QED  BY <1>3, <2>1, NoRentStarts DEF BuySubAccount, subVars, EntriesStay
<1>4. ASSUME NEW s \in Slots, OnBuyBalancesChecked(s) \/ OnSaleFailed(s)
      PROVE  EntriesStay /\ RentsGoOn
  <2>1. EntriesStay
    BY <1>4 DEF OnBuyBalancesChecked, OnSaleFailed, subVars, EntriesStay
  <2>2. calls[s].kind \in Kinds /\ calls[s].kind # "rent"
    BY <1>4 DEF OnBuyBalancesChecked, OnSaleFailed, At, Kinds
  <2>3. EndCall(s) \/ \E stage, ok : Advance(s, stage, ok)
    BY <1>4 DEF OnBuyBalancesChecked, OnSaleFailed, AbortSale
  <2> QED  BY <2>1, <2>2, <2>3, NoRentAdvancesOrEnds
<1>5. ASSUME NEW s \in Slots, OnSubAccountSold(s)
      PROVE  EntriesStay /\ RentsGoOn
  <2> DEFINE k == calls[s].key
             c == calls[s]
  <2>1. calls[s].kind \in Kinds /\ calls[s].kind # "rent" /\ EndCall(s)
    BY <1>5 DEF OnSubAccountSold, At, Kinds
  <2>2. k \in Keys /\ c.who \in Accounts /\ sub_accounts[k] # None
    BY <1>5, CallType DEF OnSubAccountSold, At, Kinds, Call
  <2>3. sub_accounts' = [sub_accounts EXCEPT
                           ![k] = [sub_accounts[k] EXCEPT !.owner = c.who, !.main_wallet = c.who]]
    BY <1>5 DEF OnSubAccountSold
  <2>4. [sub_accounts[k] EXCEPT !.owner = c.who, !.main_wallet = c.who] # None
    <3>1. sub_accounts[k] \in SubAccountEntry
      BY <2>2 DEF TypeOK
    <3>2. [sub_accounts[k] EXCEPT !.owner = c.who, !.main_wallet = c.who] \in SubAccountEntry
      BY <2>2, <3>1, SubAccountEntryUpdate
    <3> QED  BY <3>2, EntryAssumption
  <2>5. EntriesStay
    BY <2>2, <2>3, <2>4 DEF EntriesStay, TypeOK
  <2> QED  BY <2>1, <2>5, NoRentAdvancesOrEnds
<1> QED  BY <1>1, <1>2, <1>3, <1>4, <1>5 DEF MarketplaceNext, NothingCounted

LEMMA CountedChains ==
    ASSUME TypeOK, LockerNext \/ SweepNext \/ RefundsNext
    PROVE  NothingCounted
<1>1. EntriesStay /\ CountsStay
  BY DEF LockerNext, TransferOwnership, FinalizeDelete, DeleteAccount, Export,
     AddFullAccessKey, OnExportResolved,
     SweepNext, ReclaimSweepFt, SweepFt, MeasureBalance, AfterBalanceQuery,
     DepositStorage, AfterStorageDeposit, TransferTokens,
     RefundsNext, ClaimRefund, TransferRefund, OnClaimRefundSettled, Withdraw,
     subVars, businessVars, EntriesStay, CountsStay
<1>2. CASE LockerNext
  <2>1. PICK s \in Slots : calls[s].kind \in Kinds /\ \E stage, ok : Advance(s, stage, ok)
    BY <1>2 DEF LockerNext, TransferOwnership, FinalizeDelete, DeleteAccount, Export,
       AddFullAccessKey, OnExportResolved, At, Kinds
  <2> QED  BY <1>1, <2>1, NoRentAdvancesOrEnds DEF NothingCounted
<1>3. ASSUME NEW s \in Slots, NEW call, StartCall(s, call), call.kind \in {"sweep", "claim"}
      PROVE  RentsGoOn
  BY <1>3, NoRentStarts
<1>4. ASSUME NEW s \in Slots, calls[s].kind \in {"sweep", "claim"},
             \/ EndCall(s)
             \/ \E stage, ok : Advance(s, stage, ok)
             \/ \E ok \in BOOLEAN : MeasureBalance(s, ok)
             \/ TransferRefund(s)
      PROVE  RentsGoOn
  <2>1. calls[s] \in Call /\ calls[s].kind \in Kinds
    BY <1>4, CallType DEF Kinds
  <2>2. CASE (\E ok \in BOOLEAN : MeasureBalance(s, ok)) \/ TransferRefund(s)
    <3>1. /\ \A d \in Slots \ {s} : calls'[d] = calls[d]
          /\ calls'[s].kind = calls[s].kind /\ calls'[s].key = calls[s].key
      <4>1. CASE \E ok \in BOOLEAN : MeasureBalance(s, ok)
        BY <2>1, <4>1 DEF MeasureBalance, TypeOK, Call
      <4>2. CASE TransferRefund(s)
        BY <2>1, <4>2 DEF TransferRefund, TypeOK, Call
      <4> QED  BY <2>2, <4>1, <4>2
    <3> QED  BY <3>1, NoRentStep
  <2> QED  BY <1>4, <2>1, <2>2, NoRentAdvancesOrEnds
<1>5. CASE SweepNext
  <2>1. ASSUME NEW s \in Slots, NEW k \in Keys, NEW t \in Tokens, ReclaimSweepFt(s, k, t)
        PROVE  RentsGoOn
    BY <1>3, <2>1 DEF ReclaimSweepFt
  <2>2. ASSUME NEW s \in Slots,
               \/ SweepFt(s) \/ AfterBalanceQuery(s) \/ AfterStorageDeposit(s)
               \/ \E ok \in BOOLEAN :
                     MeasureBalance(s, ok) \/ DepositStorage(s, ok) \/ TransferTokens(s, ok)
        PROVE  RentsGoOn
    <3>1. calls[s].kind = "sweep"
      BY <2>2 DEF SweepFt, AfterBalanceQuery, AfterStorageDeposit, MeasureBalance,
         DepositStorage, TransferTokens, At
    <3>2. \/ EndCall(s)
          \/ \E stage, ok : Advance(s, stage, ok)
          \/ \E ok \in BOOLEAN : MeasureBalance(s, ok)
      BY <2>2 DEF SweepFt, AfterBalanceQuery, AfterStorageDeposit, DepositStorage,
         TransferTokens, ProceedIf
    <3> QED  BY <1>4, <3>1, <3>2
  <2> QED  BY <1>1, <1>5, <2>1, <2>2 DEF SweepNext, NothingCounted
<1>6. CASE RefundsNext
  <2>1. ASSUME NEW s \in Slots, NEW caller \in Callers, ClaimRefund(s, caller)
        PROVE  RentsGoOn
    BY <1>3, <2>1 DEF ClaimRefund
  <2>2. ASSUME NEW s \in Slots, TransferRefund(s) \/ OnClaimRefundSettled(s)
        PROVE  RentsGoOn
    BY <1>4, <2>2 DEF TransferRefund, OnClaimRefundSettled, At
  <2>3. ASSUME NEW caller \in Callers, NEW amount \in Deposits, NEW recipient \in Accounts,
               Withdraw(caller, amount, recipient)
        PROVE  RentsGoOn
    BY <2>3 DEF Withdraw, RentsGoOn
  <2> QED  BY <1>1, <1>6, <2>1, <2>2, <2>3 DEF RefundsNext, NothingCounted
<1> QED  BY <1>2, <1>5, <1>6

LEMMA CountedOthers ==
    ASSUME TypeOK, TypeOK',
           MotherNext \/ BusinessNext \/ AdminNext \/ EnvironmentNext \/ UNCHANGED vars
    PROVE  NothingCounted
<1>1. CASE BusinessNext
  <2>1. UNCHANGED Holders
    BY <1>1, BusinessStep DEF Unseen
  <2>2. CountsStay /\ UNCHANGED calls
    BY <1>1 DEF BusinessNext, ScheduleRetraction, CancelRetraction, SetBusinessSubCap,
       subVars, businessVars, CountsStay
  <2> QED  BY <2>1, <2>2, HoldersStayEntered, CallsUntouched DEF NothingCounted
<1>2. CASE QueryNext
  <2>1. PICK s \in Slots, t \in Tokens, answered \in BOOLEAN : QueryBalance(s, t, answered)
    BY <1>2 DEF QueryNext
  <2>2. calls[s] \in Call
    BY <2>1 DEF QueryBalance, TypeOK, NoCall
  <2>3. /\ \A d \in Slots \ {s} : calls'[d] = calls[d]
        /\ calls'[s].kind = calls[s].kind /\ calls'[s].key = calls[s].key
    BY <2>1, <2>2 DEF QueryBalance, TypeOK, Call
  <2>4. EntriesStay /\ CountsStay
    BY <2>1 DEF QueryBalance, subVars, businessVars, EntriesStay, CountsStay
  <2> QED  BY <2>3, <2>4, NoRentStep DEF NothingCounted
<1>3. CASE \/ MotherNext \/ AdminNext \/ Tick \/ UNCHANGED vars
           \/ \E k \in Keys, t \in Tokens : DepositToken(k, t)
  <2>1. UNCHANGED <<sub_accounts, sub_account_count, business_sub_count, calls>>
    BY <1>3 DEF MotherNext, SetMother, AdminClearMother,
       AdminNext, RegisterTla, ActivateOpenTla, SuspendTla, UnsuspendTla,
       AddAdmin, RemoveAdmin, SetAdmins, UpdateFeeConfig, SetPaused,
       AddFtAllowlist, RemoveFtAllowlist, AddNftAllowlist, RemoveNftAllowlist,
       Tick, DepositToken, vars, subVars, businessVars
  <2> QED  BY <2>1 DEF NothingCounted, EntriesStay, CountsStay, RentsGoOn
<1> QED  BY <1>1, <1>2, <1>3 DEF EnvironmentNext

LEMMA CountedSteps ==
    ASSUME TypeOK, TypeOK', [Next]_vars
    PROVE  \/ NothingCounted
           \/ \E s \in Slots, caller \in Callers, k \in Keys, w \in Accounts, d \in Deposits :
                 RentSubAccount(s, caller, k, w, d)
           \/ \E s \in Slots : \/ OnSubAccountCreated(s)
                               \/ OnSubAccountCreatedPanics(s)
                               \/ OnSubAccountCreationFailed(s)
           \/ \E s \in Slots, k \in Keys : Leaves(s, k)
BY CountedRental, CountedReclaim, CountedMarketplace, CountedChains, CountedOthers DEF Next

\* A rent enters its name, and has a chain for it.
LEMMA RentEnters ==
    ASSUME TypeOK, TypeOK', NEW s \in Slots, NEW caller \in Callers, NEW k \in Keys,
           NEW w \in Accounts, NEW d \in Deposits, RentSubAccount(s, caller, k, w, d)
    PROVE  /\ sub_accounts[k] = None /\ sub_accounts'[k] # None
           /\ \A x \in Keys \ {k} : sub_accounts'[x] = sub_accounts[x]
           /\ calls[s] = NoCall /\ calls'[s].kind = "rent" /\ calls'[s].key = k
           /\ \A x \in Slots \ {s} : calls'[x] = calls[x]
           /\ UNCHANGED sub_account_count
<1>1. sub_accounts[k] = None /\ UNCHANGED sub_account_count
  BY DEF RentSubAccount
<1>2. /\ sub_accounts'[k] # None
      /\ \A x \in Keys \ {k} : sub_accounts'[x] = sub_accounts[x]
  <2>1. sub_accounts' = [sub_accounts EXCEPT ![k] = NewTenancy(caller, w)]
    BY DEF RentSubAccount
  <2>2. NewTenancy(caller, w) \in SubAccountEntry
    BY CallerType, LifecycleAssumption DEF TypeOK, NewTenancy, SubAccountEntry
  <2> QED  BY <2>1, <2>2, EntryAssumption DEF TypeOK
<1>3. PICK call : StartCall(s, call) /\ call.kind = "rent" /\ call.key = k
  BY DEF RentSubAccount
<1> QED  BY <1>1, <1>2, <1>3, CallStarted

LEMMA CreationFailedDrops ==
    ASSUME TypeOK, NEW s \in Slots, OnSubAccountCreationFailed(s)
    PROVE  /\ DutyOf(calls[s]) = "renting"
           /\ calls[s].kind = "rent" /\ calls[s].key \in Keys
           /\ sub_accounts' = [sub_accounts EXCEPT ![calls[s].key] = None]
           /\ calls'[s] = NoCall /\ \A x \in Slots \ {s} : calls'[x] = calls[x]
           /\ UNCHANGED sub_account_count
<1>1. calls[s].kind = "rent" /\ calls[s].kind \in Kinds /\ ~calls[s].ok /\ EndCall(s)
  BY DEF OnSubAccountCreationFailed, At, Kinds
<1>2. calls[s].key \in Keys
  BY <1>1, CallType DEF Call
<1> QED  BY <1>1, <1>2, CallEnded, DutyByKind DEF OnSubAccountCreationFailed

LEMMA LeaverReleases ==
    ASSUME TypeOK, NEW s \in Slots, NEW k \in Keys, Leaves(s, k)
    PROVE  /\ DutyOf(calls[s]) \in {"deleted", "exported"}
           /\ calls[s].key = k
           /\ sub_accounts' = [sub_accounts EXCEPT ![k] = None]
           /\ calls'[s] = NoCall /\ \A x \in Slots \ {s} : calls'[x] = calls[x]
           /\ sub_account_count' = Monus(sub_account_count, 1)
BY CallEnded, DutyByKind DEF Leaves, RemoveSubAccount

\* What releases a name finds it entered.
LEMMA ReleasedIsEntered ==
    ASSUME TypeOK, NEW K \in SUBSET Keys, CP!ReleasesEntered(K), NEW s \in Slots,
           calls[s].key \in K,
           DutyOf(calls[s]) \in {"renting", "deleted", "exported"}
    PROVE  sub_accounts[calls[s].key] # None
<1> DEFINE k == calls[s].key
<1>1. /\ [x \in Slots |-> ChainOf(calls[x])][s].does = DutyOf(calls[s])
      /\ [x \in Slots |-> ChainOf(calls[x])][s].name = k
  BY ChainSeen
<1> HIDE DEF k
<1>2. [x \in Keys |-> HolderOf(x)][k] # None
  <2>1. k \in K
    BY DEF k
  <2> QED  BY <1>1, <2>1 DEF CP!ReleasesEntered, CP!Does
<1>3. k \in Keys
  BY DEF k
<1>4. HolderOf(k) # None
  BY <1>2, <1>3
<1> QED  BY <1>4 DEF HolderOf, k

\* An export ends by releasing its name only from an account that is free.
LEMMA ExportEnds ==
    ASSUME TypeOK, TypeOK', NEW K \in SUBSET Keys, CP!ExportedIsFree(K), [Next]_vars,
           NEW s \in Slots, calls[s].key \in K
    PROVE  ReleasedAsFree(s)
<1> SUFFICES ASSUME calls[s].kind = "export", calls'[s] = NoCall,
                    sub_accounts[calls[s].key] # None, sub_accounts'[calls[s].key] = None
             PROVE  locker[calls[s].key].state = "Exported"
  BY DEF ReleasedAsFree
<1> DEFINE seen == [x \in Slots |-> ChainOf(calls[x])]
<1>1. calls[s] # NoCall
  BY DEF NoCall
<1>2. ~NothingCounted
  BY DEF NothingCounted, EntriesStay
<1>3. ASSUME NEW d \in Slots, NEW caller \in Callers, NEW k \in Keys, NEW w \in Accounts,
             NEW deposit \in Deposits, RentSubAccount(d, caller, k, w, deposit)
      PROVE  FALSE
  BY <1>3, RentEnters
<1>4. ASSUME NEW d \in Slots, OnSubAccountCreated(d) \/ OnSubAccountCreatedPanics(d)
      PROVE  FALSE
  BY <1>4 DEF OnSubAccountCreated, OnSubAccountCreatedPanics, subVars
<1>5. ASSUME NEW d \in Slots, OnSubAccountCreationFailed(d)
      PROVE  FALSE
  BY <1>1, <1>5, CreationFailedDrops
<1>6. PICK d \in Slots, k \in Keys : Leaves(d, k)
  BY <1>2, <1>3, <1>4, <1>5, CountedSteps
<1>7. d = s /\ DutyOf(calls[s]) \in {"deleted", "exported"}
  BY <1>1, <1>6, LeaverReleases
<1>8. DutyOf(calls[s]) = "exported"
  BY <1>7, DutyByKind
<1>9. seen[s].does = "exported" /\ seen[s].name = calls[s].key
  BY <1>8, ChainSeen
<1> HIDE DEF seen
<1> QED  BY <1>9 DEF CP!ExportedIsFree, CP!Busy, CP!Does, seen

FreeInv(K) == CP!RegistryInv(K) /\ CP!ExportedIsFree(K)

LEMMA FreeGoesOn ==
    ASSUME NEW K \in SUBSET Keys, FreeInv(K), [CP!Next]_(CP!custody), [NoKeyFails(K)]_vars
    PROVE  FreeInv(K)'
BY RegistryGoesOn, CP!FreeNext DEF FreeInv

\* If AddKey has failed at no account of K, the registry lets a name of K go as exported
\* only when the owner's key is on the account.
THEOREM ExportsOfNames ==
    ASSUME NEW K \in SUBSET Keys
    PROVE  Spec /\ KeysLand(K) => [][\A s \in Slots : calls[s].key \in K => ReleasedAsFree(s)]_vars
<1>1. CP!Init => FreeInv(K)
  BY RegistryStarts, CP!FreeStart DEF FreeInv
<1>2. FreeInv(K) /\ [CP!Next]_(CP!custody) /\ [NoKeyFails(K)]_vars => FreeInv(K)'
  BY FreeGoesOn
<1>3. TypeOK /\ TypeOK' /\ FreeInv(K) /\ [Next]_vars
      => [\A s \in Slots : calls[s].key \in K => ReleasedAsFree(s)]_vars
  BY ExportEnds DEF FreeInv
<1> QED
  BY <1>1, <1>2, <1>3, CustodyKept, TypeCorrect, PTL DEF Spec, CP!Spec, KeysLand

\* In particular, if it has failed at none.
THEOREM ExportsReleaseTheFree == Spec /\ KeysLand(Keys) => ExportReleases
<1>1. CP!Init => FreeInv(Keys)
  BY RegistryStarts, CP!FreeStart DEF FreeInv
<1>2. FreeInv(Keys) /\ [CP!Next]_(CP!custody) /\ [NoKeyFails(Keys)]_vars => FreeInv(Keys)'
  BY FreeGoesOn
<1>3. TypeOK /\ TypeOK' /\ FreeInv(Keys) /\ [Next]_vars => [\A s \in Slots : ReleasedAsFree(s)]_vars
  <2> SUFFICES ASSUME TypeOK, TypeOK', FreeInv(Keys), [Next]_vars, NEW s \in Slots
               PROVE  ReleasedAsFree(s)
    OBVIOUS
  <2>1. CASE calls[s].kind = "export"
    <3>1. calls[s].key \in Keys
      BY <2>1, CallType DEF Kinds, Call
    <3> QED  BY <3>1, ExportEnds DEF FreeInv
  <2> QED  BY <2>1 DEF ReleasedAsFree
<1> QED
  BY <1>1, <1>2, <1>3, CustodyKept, TypeCorrect, PTL
  DEF Spec, CP!Spec, KeysLand, ExportReleases

-----------------------------------------------------------------------------
(* The tenants of a business TLA.                                          *)

\* What leaves is no matter of the TLA itself.
LEMMA LeavesTlas ==
    ASSUME TypeOK, TypeOK', [Next]_vars, NEW s \in Slots, NEW k \in Keys, Leaves(s, k)
    PROVE  UNCHANGED tlas
<1>1. calls' # calls
  BY LeaverReleases DEF Leaves, NoCall
<1>2. ~TlaStep
  BY <1>1 DEF TlaStep, ActivateTla, RenewTla, RegisterTla, ActivateOpenTla, SuspendTla,
              UnsuspendTla
<1> QED  BY <1>2, StepKinds, EntryStepFrame DEF OtherStep

LEMMA TypesOfTlasStay ==
    ASSUME TenancyInv, TypeOK', [Next]_vars, NEW t \in Tlas, tlas[t] # None
    PROVE  IsBusiness(t)' <=> IsBusiness(t)
<1>1. tlas'[t] # None
  BY TlasStay
<1>2. tlas'[t].tla_type = tlas[t].tla_type
  <2>1. CASE ~TlaStep
    BY <2>1, StepKinds, EntryStepFrame DEF OtherStep
  <2>2. CASE TlaStep
    <3>1. tlas[t] \in TlaEntry
      BY DEF TenancyInv, TypeOK
    <3>2. ASSUME NEW caller \in Callers, NEW x \in Tlas, NEW d \in Deposits,
                 ActivateTla(caller, x, d) \/ RenewTla(caller, x, d)
          PROVE  tlas'[t].tla_type = tlas[t].tla_type
      BY <3>1, <3>2 DEF ActivateTla, RenewTla, TenancyInv, TypeOK, TlaEntry
    <3>3. ASSUME NEW caller \in Callers, NEW x \in Tlas,
                 ActivateOpenTla(caller, x) \/ SuspendTla(caller, x) \/ UnsuspendTla(caller, x)
          PROVE  tlas'[t].tla_type = tlas[t].tla_type
      BY <3>1, <3>3 DEF ActivateOpenTla, SuspendTla, UnsuspendTla, TenancyInv, TypeOK, TlaEntry
    <3>4. ASSUME NEW caller \in Callers, NEW x \in Tlas, NEW type \in TlaTypes,
                 NEW premium \in PremiumCategories, NEW l \in Accounts \cup {None},
                 RegisterTla(caller, x, type, premium, l)
          PROVE  tlas'[t].tla_type = tlas[t].tla_type
      BY <3>4 DEF RegisterTla, TenancyInv, TypeOK
    <3> QED  BY <2>2, <3>2, <3>3, <3>4 DEF TlaStep
  <2> QED  BY <2>1, <2>2
<1> QED  BY <1>1, <1>2 DEF IsBusiness

LEMMA TenantsFinite ==
    ASSUME NEW t
    PROVE  IsFiniteSet(Tenants(t)) /\ Cardinality(Tenants(t)) \in Nat
BY FS_Subset, FS_CardinalityType, RegistryAssumption DEF Tenants

LEMMA BusinessKeptExact ==
    ASSUME TenancyInv, TypeOK', [Next]_vars, NEW t \in Tlas, CountExact(t),
           EntriesStay, UNCHANGED business_sub_count
    PROVE  CountExact(t)'
<1> SUFFICES business_sub_count'[t] = IF IsBusiness(t)' THEN Cardinality(Tenants(t)') ELSE 0
  BY DEF CountExact, Tenants
<1>1. business_sub_count[t] = IF IsBusiness(t) THEN Cardinality(Tenants(t)) ELSE 0
  BY DEF CountExact, Tenants
<1>2. Tenants(t)' = Tenants(t)
  BY DEF Tenants, EntriesStay
<1>3. CASE tlas[t] # None
  BY <1>1, <1>2, <1>3, TypesOfTlasStay
<1>4. CASE tlas[t] = None
  <2>1. Tenants(t) = {}
    BY <1>4 DEF Tenants, TenancyInv, TenanciesOnTlas
  <2>2. Cardinality(Tenants(t)') = 0
    BY <1>2, <2>1, FS_EmptySet
  <2>3. business_sub_count'[t] = 0
    BY <1>1, <1>4 DEF IsBusiness
  <2> QED  BY <2>2, <2>3
<1> QED  BY <1>3, <1>4

LEMMA BusinessEntersExact ==
    ASSUME TenancyInv, TypeOK', NEW t \in Tlas, CountExact(t), NEW s \in Slots, NEW caller \in Callers,
           NEW k \in Keys, NEW w \in Accounts, NEW d \in Deposits,
           RentSubAccount(s, caller, k, w, d)
    PROVE  CountExact(t)'
<1> DEFINE u == TlaOf[k]
<1> SUFFICES business_sub_count'[t] = IF IsBusiness(t)' THEN Cardinality(Tenants(t)') ELSE 0
  BY DEF CountExact, Tenants
<1>1. business_sub_count[t] = IF IsBusiness(t) THEN Cardinality(Tenants(t)) ELSE 0
  BY DEF CountExact, Tenants
<1>2. IsBusiness(t)' <=> IsBusiness(t)
  BY DEF RentSubAccount, tlaVars, IsBusiness
<1>3. /\ sub_accounts[k] = None /\ sub_accounts'[k] # None
      /\ \A x \in Keys \ {k} : sub_accounts'[x] = sub_accounts[x]
  BY RentEnters DEF TenancyInv
<1>4. business_sub_count' = IF IsBusiness(u)
                            THEN [business_sub_count EXCEPT ![u] = @ + 1]
                            ELSE business_sub_count
  BY DEF RentSubAccount, BusinessCountBump
<1>5. CASE t = u
  <2>1. Tenants(t)' = Tenants(t) \cup {k} /\ k \notin Tenants(t)
    BY <1>3, <1>5 DEF Tenants
  <2>2. Cardinality(Tenants(t)') = Cardinality(Tenants(t)) + 1
    BY <2>1, TenantsFinite, FS_AddElement
  <2>3. IsBusiness(t) => business_sub_count'[t] = business_sub_count[t] + 1
    BY <1>4, <1>5 DEF TenancyInv, TypeOK
  <2>4. ~IsBusiness(t) => business_sub_count'[t] = business_sub_count[t]
    BY <1>4, <1>5
  <2> QED  BY <1>1, <1>2, <2>2, <2>3, <2>4
<1>6. CASE t # u
  <2>1. Tenants(t)' = Tenants(t)
    BY <1>3, <1>6 DEF Tenants
  <2>2. business_sub_count'[t] = business_sub_count[t]
    BY <1>4, <1>6 DEF TenancyInv, TypeOK
  <2> QED  BY <1>1, <1>2, <2>1, <2>2
<1> QED  BY <1>5, <1>6

LEMMA BusinessDropsExact ==
    ASSUME TenancyInv, NEW t \in Tlas, CountExact(t),
           NEW k \in Keys, TlaOf[k] = t => sub_accounts[k] # None,
           sub_accounts' = [sub_accounts EXCEPT ![k] = None],
           BusinessCountDecrement(TlaOf[k]), UNCHANGED tlas
    PROVE  CountExact(t)'
<1> DEFINE u == TlaOf[k]
<1> SUFFICES business_sub_count'[t] = IF IsBusiness(t)' THEN Cardinality(Tenants(t)') ELSE 0
  BY DEF CountExact, Tenants
<1>1. business_sub_count[t] = IF IsBusiness(t) THEN Cardinality(Tenants(t)) ELSE 0
  BY DEF CountExact, Tenants
<1>2. IsBusiness(t)' <=> IsBusiness(t)
  BY DEF IsBusiness
<1>3. sub_accounts'[k] = None /\ \A x \in Keys \ {k} : sub_accounts'[x] = sub_accounts[x]
  BY DEF TenancyInv, TypeOK
<1>4. business_sub_count' = IF IsBusiness(u)
                            THEN [business_sub_count EXCEPT ![u] = Monus(@, 1)]
                            ELSE business_sub_count
  BY DEF BusinessCountDecrement
<1>5. CASE t = u
  <2>1. Tenants(t)' = Tenants(t) \ {k} /\ k \in Tenants(t)
    BY <1>3, <1>5 DEF Tenants
  <2>2. Cardinality(Tenants(t)') = Cardinality(Tenants(t)) - 1
    BY <2>1, TenantsFinite, FS_RemoveElement
  <2>3. Cardinality(Tenants(t)) \in Nat /\ Cardinality(Tenants(t)') \in Nat
    BY <2>1, TenantsFinite, FS_RemoveElement, FS_CardinalityType
  <2>4. IsBusiness(t) => business_sub_count'[t] = Monus(business_sub_count[t], 1)
    BY <1>4, <1>5 DEF TenancyInv, TypeOK
  <2>5. ~IsBusiness(t) => business_sub_count'[t] = business_sub_count[t]
    BY <1>4, <1>5
  <2> QED  BY <1>1, <1>2, <2>2, <2>3, <2>4, <2>5 DEF Monus
<1>6. CASE t # u
  <2>1. Tenants(t)' = Tenants(t)
    BY <1>3, <1>6 DEF Tenants
  <2>2. business_sub_count'[t] = business_sub_count[t]
    BY <1>4, <1>6 DEF TenancyInv, TypeOK
  <2> QED  BY <1>1, <1>2, <2>1, <2>2
<1> QED  BY <1>5, <1>6

LEMMA BusinessCountNext ==
    ASSUME TenancyInv, TypeOK', NEW K \in SUBSET Keys, CP!ReleasesEntered(K), [Next]_vars,
           NEW t \in Tlas, {k \in Keys : TlaOf[k] = t} \subseteq K, CountExact(t)
    PROVE  CountExact(t)'
<1>1. TypeOK
  BY DEF TenancyInv
<1>2. CASE NothingCounted
  BY <1>2, BusinessKeptExact DEF NothingCounted, CountsStay
<1>3. ASSUME NEW s \in Slots, OnSubAccountCreated(s) \/ OnSubAccountCreatedPanics(s)
      PROVE  CountExact(t)'
  <2>1. EntriesStay /\ UNCHANGED business_sub_count
    BY <1>3 DEF OnSubAccountCreated, OnSubAccountCreatedPanics, subVars, businessVars, EntriesStay
  <2> QED  BY <2>1, BusinessKeptExact
<1>4. ASSUME NEW s \in Slots, OnSubAccountCreationFailed(s)
      PROVE  CountExact(t)'
  <2>1. PICK k \in Keys : k = calls[s].key
    BY <1>1, <1>4, CreationFailedDrops
  <2>2. TlaOf[k] = t => sub_accounts[k] # None
    BY <1>1, <1>4, <2>1, CreationFailedDrops, ReleasedIsEntered
  <2>3. /\ sub_accounts' = [sub_accounts EXCEPT ![k] = None]
        /\ BusinessCountDecrement(TlaOf[k])
        /\ UNCHANGED tlas
    BY <1>4, <2>1 DEF OnSubAccountCreationFailed, tlaVars
  <2> QED  BY <2>2, <2>3, BusinessDropsExact
<1>5. ASSUME NEW s \in Slots, NEW k \in Keys, Leaves(s, k)
      PROVE  CountExact(t)'
  <2>1. TlaOf[k] = t => sub_accounts[k] # None
    BY <1>1, <1>5, LeaverReleases, ReleasedIsEntered
  <2>2. BusinessCountDecrement(TlaOf[k]) /\ sub_accounts' = [sub_accounts EXCEPT ![k] = None]
    BY <1>5 DEF Leaves, RemoveSubAccount
  <2>3. UNCHANGED tlas
    BY <1>1, <1>5, LeavesTlas
  <2> QED  BY <2>1, <2>2, <2>3, BusinessDropsExact
<1> QED
  BY <1>1, <1>2, <1>3, <1>4, <1>5, CountedSteps, BusinessEntersExact

LEMMA CountsStart ==
    ASSUME Init, NEW t \in Tlas
    PROVE  CountExact(t)
<1>1. tlas[t] = None
  BY DEF Init, Start
<1>2. business_sub_count[t] = 0
  BY <1>1 DEF Init, Start, IsBusiness
<1> QED  BY <1>1, <1>2 DEF CountExact, IsBusiness

\* If AddKey has failed at no name of the TLAs of T, no place under their caps is lost
\* or gained, whatever is rented, reclaimed and exported at the same time.
THEOREM PlacesOfTlas ==
    ASSUME NEW T \in SUBSET Tlas
    PROVE  Spec /\ KeysLand({k \in Keys : TlaOf[k] \in T}) => [](\A t \in T : CountExact(t))
<1> DEFINE K == {k \in Keys : TlaOf[k] \in T}
<1>1. K \in SUBSET Keys /\ \A t \in T : {k \in Keys : TlaOf[k] = t} \subseteq K
  OBVIOUS
<1>2. Init => \A t \in T : CountExact(t)
  BY CountsStart
<1>3. /\ TenancyInv /\ TypeOK' /\ CP!RegistryInv(K) /\ [Next]_vars
      /\ \A t \in T : CountExact(t)
      => (\A t \in T : CountExact(t))'
  BY <1>1, BusinessCountNext, CP!EntryOfReleased
<1>4. CP!Init => CP!RegistryInv(K)
  BY <1>1, RegistryStarts
<1>5. CP!RegistryInv(K) /\ [CP!Next]_(CP!custody) /\ [NoKeyFails(K)]_vars => CP!RegistryInv(K)'
  BY <1>1, RegistryGoesOn
<1> QED
  BY <1>2, <1>3, <1>4, <1>5, CustodyKept, TenancyInvHolds, TypeCorrect, PTL
  DEF Spec, CP!Spec, KeysLand

\* In particular, if it has failed at none.
THEOREM PlacesAreCounted == Spec /\ KeysLand(Keys) => []BusinessCountExact
<1>1. Init => BusinessCountExact
  BY CountsStart DEF BusinessCountExact
<1>2. TenancyInv /\ TypeOK' /\ CP!RegistryInv(Keys) /\ [Next]_vars /\ BusinessCountExact
      => BusinessCountExact'
  BY BusinessCountNext, CP!EntryOfReleased DEF BusinessCountExact
<1>3. CP!Init => CP!RegistryInv(Keys)
  BY RegistryStarts
<1>4. /\ CP!RegistryInv(Keys) /\ [CP!Next]_(CP!custody) /\ [NoKeyFails(Keys)]_vars
      => CP!RegistryInv(Keys)'
  BY RegistryGoesOn
<1> QED
  BY <1>1, <1>2, <1>3, <1>4, CustodyKept, TenancyInvHolds, TypeCorrect, PTL
  DEF Spec, CP!Spec, KeysLand

-----------------------------------------------------------------------------
(* The sub-accounts whose creation is settled.                             *)

Rented(k) == \E s \in Slots : calls[s].kind = "rent" /\ calls[s].key = k

LEMMA CreatedNames ==
    /\ Created = {k \in Keys : sub_accounts[k] # None /\ ~Rented(k)}
    /\ Created' = {k \in Keys : sub_accounts'[k] # None /\ ~Rented(k)'}
BY DEF Created, Rented, InFlight

LEMMA CreatedFinite ==
    /\ IsFiniteSet(Created) /\ Cardinality(Created) \in Nat
    /\ IsFiniteSet(Created') /\ Cardinality(Created') \in Nat
BY CreatedNames, FS_Subset, FS_CardinalityType, RegistryAssumption

Tracked == sub_account_count' = Monus(sub_account_count + Cardinality(Created'), Cardinality(Created))

LEMMA CreatedStayTracked ==
    ASSUME TypeOK, Created' = Created, UNCHANGED sub_account_count
    PROVE  Tracked
BY CreatedFinite DEF TypeOK, Tracked, Monus

\* The end of a chain concerns no name but its own.
LEMMA OthersAsRented ==
    ASSUME NEW s \in Slots, \A x \in Slots \ {s} : calls'[x] = calls[x],
           NEW k, calls[s] = NoCall \/ calls[s].key = k, calls'[s] = NoCall \/ calls'[s].key = k
    PROVE  \A x \in Keys \ {k} : Rented(x)' <=> Rented(x)
BY DEF Rented, NoCall

LEMMA StatsCreated ==
    ASSUME TypeOK, NEW s \in Slots, OnSubAccountCreated(s), ~Overtaken(s)
    PROVE  Tracked
<1>1. calls[s].kind = "rent" /\ calls[s].kind \in Kinds
  BY DEF OnSubAccountCreated, At, Kinds
<1>2. PICK k \in Keys : k = calls[s].key
  BY <1>1, CallType DEF Call
<1>3. /\ sub_accounts[k] # None /\ UNCHANGED sub_accounts
      /\ sub_account_count' = sub_account_count + 1
      /\ calls'[s] = NoCall /\ \A x \in Slots \ {s} : calls'[x] = calls[x]
  BY <1>2, CallEnded DEF OnSubAccountCreated
<1>4. \A r \in Slots \ {s} : calls[r].key = k => calls[r].kind # "rent"
  BY <1>2 DEF Overtaken, InFlight
<1>5. \A x \in Keys \ {k} : Rented(x)' <=> Rented(x)
  BY <1>2, <1>3, OthersAsRented
<1>6. Rented(k)
  BY <1>1, <1>2 DEF Rented
<1>7. ~Rented(k)'
  BY <1>3, <1>4 DEF Rented, NoCall
<1>8. Created' = Created \cup {k} /\ k \notin Created
  BY <1>3, <1>5, <1>6, <1>7, CreatedNames
<1>9. Cardinality(Created') = Cardinality(Created) + 1
  BY <1>8, CreatedFinite, FS_AddElement
<1> QED  BY <1>3, <1>9, CreatedFinite DEF TypeOK, Tracked, Monus

LEMMA StatsLeaves ==
    ASSUME TypeOK, NEW s \in Slots, NEW k \in Keys, Leaves(s, k), sub_accounts[k] # None,
           ~Overtaken(s)
    PROVE  Tracked
<1>1. /\ calls[s].kind # "rent" /\ calls[s].key = k
      /\ sub_accounts' = [sub_accounts EXCEPT ![k] = None]
      /\ sub_account_count' = Monus(sub_account_count, 1)
      /\ calls'[s] = NoCall /\ \A x \in Slots \ {s} : calls'[x] = calls[x]
  BY LeaverReleases DEF Leaves
<1>2. \A r \in Slots \ {s} : calls[r].key = k => calls[r].kind # "rent"
  BY <1>1 DEF Overtaken, InFlight
<1>3. ~Rented(k)
  BY <1>1, <1>2 DEF Rented
<1>4. \A x \in Keys \ {k} : Rented(x)' <=> Rented(x)
  BY <1>1, OthersAsRented
<1>5. sub_accounts'[k] = None /\ \A x \in Keys \ {k} : sub_accounts'[x] = sub_accounts[x]
  BY <1>1 DEF TypeOK
<1>6. Created' = Created \ {k} /\ k \in Created
  BY <1>3, <1>4, <1>5, CreatedNames
<1>7. Cardinality(Created') = Cardinality(Created) - 1
  BY <1>6, CreatedFinite, FS_RemoveElement
<1> QED  BY <1>1, <1>7, CreatedFinite DEF TypeOK, Tracked, Monus

LEMMA StatsNext ==
    ASSUME TypeOK, TypeOK', CP!ReleasesEntered(Keys), [Next]_vars
    PROVE  (\E s \in Slots : Overtaken(s) /\ calls'[s] = NoCall) \/ Tracked
<1>1. CASE NothingCounted
  <2>1. ASSUME NEW k \in Keys
        PROVE  Rented(k)' <=> Rented(k)
    BY <1>1 DEF NothingCounted, RentsGoOn, Rented
  <2>2. Created' = Created
    BY <1>1, <2>1, CreatedNames DEF NothingCounted, EntriesStay
  <2> QED  BY <1>1, <2>2, CreatedStayTracked DEF NothingCounted, CountsStay
<1>2. ASSUME NEW s \in Slots, NEW caller \in Callers, NEW k \in Keys, NEW w \in Accounts,
             NEW d \in Deposits, RentSubAccount(s, caller, k, w, d)
      PROVE  Tracked
  <2>1. /\ sub_accounts[k] = None
        /\ \A x \in Keys \ {k} : sub_accounts'[x] = sub_accounts[x]
        /\ calls[s] = NoCall /\ calls'[s].kind = "rent" /\ calls'[s].key = k
        /\ \A x \in Slots \ {s} : calls'[x] = calls[x]
        /\ UNCHANGED sub_account_count
    BY <1>2, RentEnters
  <2>2. Rented(k)' /\ \A x \in Keys \ {k} : Rented(x)' <=> Rented(x)
    BY <2>1, OthersAsRented DEF Rented
  <2>3. Created' = Created
    BY <2>1, <2>2, CreatedNames
  <2> QED  BY <2>1, <2>3, CreatedStayTracked
<1>3. ASSUME NEW s \in Slots, OnSubAccountCreationFailed(s)
      PROVE  Tracked
  <2>1. PICK k \in Keys : k = calls[s].key
    BY <1>3, CreationFailedDrops
  <2>2. /\ calls[s].kind = "rent"
        /\ sub_accounts' = [sub_accounts EXCEPT ![k] = None]
        /\ calls'[s] = NoCall /\ \A x \in Slots \ {s} : calls'[x] = calls[x]
        /\ UNCHANGED sub_account_count
    BY <1>3, <2>1, CreationFailedDrops
  <2>3. Rented(k) /\ \A x \in Keys \ {k} : Rented(x)' <=> Rented(x)
    BY <2>1, <2>2, OthersAsRented DEF Rented
  <2>4. sub_accounts'[k] = None /\ \A x \in Keys \ {k} : sub_accounts'[x] = sub_accounts[x]
    BY <2>2 DEF TypeOK
  <2>5. Created' = Created
    BY <2>3, <2>4, CreatedNames
  <2> QED  BY <2>2, <2>5, CreatedStayTracked
<1>4. ASSUME NEW s \in Slots, OnSubAccountCreatedPanics(s)
      PROVE  Tracked
  <2>1. /\ calls[s].kind = "rent" /\ sub_accounts[calls[s].key] = None
        /\ sub_accounts' = sub_accounts /\ UNCHANGED sub_account_count
        /\ calls'[s] = NoCall /\ \A x \in Slots \ {s} : calls'[x] = calls[x]
    BY <1>4, CallEnded DEF OnSubAccountCreatedPanics, At, subVars
  <2>2. \A x \in Keys \ {calls[s].key} : Rented(x)' <=> Rented(x)
    BY <2>1, OthersAsRented
  <2>3. Created' = Created
    BY <2>1, <2>2, CreatedNames
  <2> QED  BY <2>1, <2>3, CreatedStayTracked
<1>5. ASSUME NEW s \in Slots, OnSubAccountCreated(s)
      PROVE  (Overtaken(s) /\ calls'[s] = NoCall) \/ Tracked
  <2>1. calls'[s] = NoCall
    BY <1>5, CallEnded DEF OnSubAccountCreated
  <2> QED  BY <1>5, <2>1, StatsCreated
<1>6. ASSUME NEW s \in Slots, NEW k \in Keys, Leaves(s, k)
      PROVE  (Overtaken(s) /\ calls'[s] = NoCall) \/ Tracked
  <2>1. sub_accounts[k] # None /\ calls'[s] = NoCall
    BY <1>6, LeaverReleases, ReleasedIsEntered
  <2> QED  BY <1>6, <2>1, StatsLeaves
<1> QED  BY <1>1, <1>2, <1>3, <1>4, <1>5, <1>6, CountedSteps

\* If no AddKey has failed, the count of sub-accounts goes with those that are
\* created, but for the end of a chain that overtakes the creation of its name.
THEOREM SubAccountsAreTracked == Spec /\ KeysLand(Keys) => StatsTrack
<1>1. TypeOK /\ TypeOK' /\ CP!RegistryInv(Keys) /\ [Next]_vars
      => [\/ \E s \in Slots : Overtaken(s) /\ calls'[s] = NoCall
          \/ sub_account_count'
               = Monus(sub_account_count + Cardinality(Created'), Cardinality(Created))]_vars
  BY StatsNext, CP!EntryOfReleased DEF Tracked
<1>2. CP!Init => CP!RegistryInv(Keys)
  BY RegistryStarts
<1>3. /\ CP!RegistryInv(Keys) /\ [CP!Next]_(CP!custody) /\ [NoKeyFails(Keys)]_vars
      => CP!RegistryInv(Keys)'
  BY RegistryGoesOn
<1> QED
  BY <1>1, <1>2, <1>3, CustodyKept, TypeCorrect, PTL
  DEF Spec, CP!Spec, KeysLand, StatsTrack

-----------------------------------------------------------------------------
(* What renters attached comes back to them.                               *)

RentOn(s, k) == calls[s].kind = "rent" /\ calls[s].key = k

\* The creation of a name is in one chain, and the name is entered.
SoleCreation(k) ==
    \A s \in Slots : RentOn(s, k) =>
        /\ sub_accounts[k] # None
        /\ \A r \in Slots : RentOn(r, k) => r = s

CreationInv == \A k \in Keys : SoleCreation(k)

EntriesOutlast ==
    \A k \in Keys : Founding(k) /\ Founding(k)' /\ sub_accounts[k] # None => sub_accounts'[k] # None

\* Both callbacks that a rent may end with credit the renter.
LEMMA RentCredits ==
    ASSUME TypeOK, NEW s \in Slots, OnSubAccountCreated(s) \/ OnSubAccountCreationFailed(s)
    PROVE  RentSettled(s)
<1>1. /\ calls[s].who \in Accounts /\ calls[s].paid \in Nat /\ calls[s].cost \in Nat
      /\ pending_refunds \in [Accounts -> Nat]
      /\ fee_config.account_creation_deposit \in Nat
  BY CallType DEF OnSubAccountCreated, OnSubAccountCreationFailed, At, Kinds, Call,
     TypeOK, FeeConfigType
<1>2. ASSUME NEW x \in Nat, AddPendingRefund(calls[s].who, x)
      PROVE  pending_refunds'[calls[s].who] - pending_refunds[calls[s].who] = x
  <2>1. /\ pending_refunds[calls[s].who] \in Nat
        /\ pending_refunds'[calls[s].who] = pending_refunds[calls[s].who] + x
    BY <1>1, <1>2 DEF AddPendingRefund, Credited
  <2> QED  BY <2>1
<1>3. CASE OnSubAccountCreated(s)
  <2> DEFINE change == Monus(calls[s].paid, calls[s].cost + fee_config.account_creation_deposit)
  <2>1. change \in Nat
    BY <1>1 DEF Monus
  <2>2. calls[s].ok /\ AddPendingRefund(calls[s].who, change)
    BY <1>3 DEF OnSubAccountCreated
  <2> QED  BY <1>2, <2>1, <2>2 DEF RentSettled
<1>4. CASE OnSubAccountCreationFailed(s)
  <2>1. ~calls[s].ok /\ AddPendingRefund(calls[s].who, calls[s].paid)
    BY <1>4 DEF OnSubAccountCreationFailed
  <2> QED  BY <1>1, <1>2, <2>1 DEF RentSettled
<1> QED  BY <1>3, <1>4

\* A rent that ends finds its name entered, and so credits the renter.
LEMMA RentsSettle ==
    ASSUME TypeOK, TypeOK', CreationInv, [Next]_vars, NEW s \in Slots
    PROVE  RentSettled(s)
<1>1. CASE calls[s].kind # "rent" \/ calls'[s] = calls[s]
  BY <1>1 DEF RentSettled, NoCall
<1>2. CASE calls[s].kind = "rent" /\ calls'[s] # calls[s]
  <2>1. CASE NothingCounted
    BY <1>2, <2>1 DEF NothingCounted, RentsGoOn, RentSettled, NoCall
  <2>2. ASSUME NEW r \in Slots, OnSubAccountCreated(r) \/ OnSubAccountCreationFailed(r)
        PROVE  RentSettled(s)
    <3>1. EndCall(r)
      BY <2>2 DEF OnSubAccountCreated, OnSubAccountCreationFailed
    <3> QED  BY <1>2, <2>2, <3>1, CallEnded, RentCredits
  <2>3. ASSUME NEW r \in Slots, OnSubAccountCreatedPanics(r)
        PROVE  FALSE
    <3>1. calls[r].kind = "rent" /\ calls[r].key \in Keys /\ sub_accounts[calls[r].key] = None
      BY <2>3, CallType DEF OnSubAccountCreatedPanics, At, Kinds, Call
    <3> QED  BY <3>1 DEF CreationInv, SoleCreation, RentOn
  <2>4. ASSUME NEW r \in Slots, NEW caller \in Callers, NEW k \in Keys, NEW w \in Accounts,
               NEW d \in Deposits, RentSubAccount(r, caller, k, w, d)
        PROVE  RentSettled(s)
    BY <1>2, <2>4, RentEnters DEF NoCall
  <2>5. ASSUME NEW r \in Slots, NEW k \in Keys, Leaves(r, k)
        PROVE  RentSettled(s)
    BY <1>2, <2>5, LeaverReleases DEF Leaves
  <2> QED  BY <2>1, <2>2, <2>3, <2>4, <2>5, CountedSteps
<1> QED  BY <1>1, <1>2

LEMMA SoleCreationStays ==
    ASSUME TypeOK, TypeOK', CreationInv, [Next]_vars, EntriesOutlast, NEW k \in Keys
    PROVE  SoleCreation(k)'
<1>1. CASE \A s \in Slots : RentOn(s, k)' => RentOn(s, k)
  <2> SUFFICES ASSUME NEW s \in Slots, RentOn(s, k)'
               PROVE  sub_accounts'[k] # None /\ \A r \in Slots : RentOn(r, k)' => r = s
    BY DEF SoleCreation
  <2>1. RentOn(s, k)
    BY <1>1
  <2>2. Founding(k) /\ Founding(k)'
    BY <2>1 DEF Founding, InFlight, RentOn
  <2> QED  BY <1>1, <2>1, <2>2 DEF CreationInv, SoleCreation, EntriesOutlast
<1>2. ASSUME NEW s \in Slots, NEW caller \in Callers, NEW x \in Keys, NEW w \in Accounts,
             NEW d \in Deposits, RentSubAccount(s, caller, x, w, d)
      PROVE  SoleCreation(k)'
  <2>1. CASE x = k
    <3>1. /\ sub_accounts[k] = None /\ sub_accounts'[k] # None
          /\ \A r \in Slots \ {s} : calls'[r] = calls[r]
      BY <1>2, <2>1, RentEnters
    <3>2. \A r \in Slots : ~RentOn(r, k)
      BY <3>1 DEF CreationInv, SoleCreation
    <3> QED  BY <3>1, <3>2 DEF SoleCreation, RentOn
  <2>2. CASE x # k
    <3>1. calls'[s].key = x /\ \A r \in Slots \ {s} : calls'[r] = calls[r]
      BY <1>2, RentEnters
    <3> QED  BY <1>1, <2>2, <3>1 DEF RentOn
  <2> QED  BY <2>1, <2>2
<1>3. ASSUME NEW s \in Slots, EndCall(s)
      PROVE  SoleCreation(k)'
  BY <1>1, <1>3, CallEnded DEF RentOn, NoCall
<1>4. CASE NothingCounted
  BY <1>1, <1>4 DEF NothingCounted, RentsGoOn, RentOn
<1> QED
  BY <1>2, <1>3, <1>4, CountedSteps
  DEF OnSubAccountCreated, OnSubAccountCreatedPanics, OnSubAccountCreationFailed, Leaves

\* If no entry goes while the creation of its name is in flight, then, whatever else
\* happens, what a renter attached is credited back to them up to what they owe.
THEOREM RentersAreMadeWhole == Spec /\ EntriesOutlastCreation => RenterMadeWhole
<1>1. Init => CreationInv
  BY DEF Init, Start, CreationInv, SoleCreation, RentOn, NoCall
<1>2. TypeOK /\ TypeOK' /\ CreationInv /\ [Next]_vars /\ [EntriesOutlast]_vars => CreationInv'
  <2>1. ASSUME UNCHANGED vars, CreationInv
        PROVE  CreationInv'
    BY <2>1 DEF vars, subVars, CreationInv, SoleCreation, RentOn
  <2> QED  BY <2>1, SoleCreationStays DEF CreationInv
<1>3. TypeOK /\ TypeOK' /\ CreationInv /\ [Next]_vars => [\A s \in Slots : RentSettled(s)]_vars
  BY RentsSettle
<1> QED
  BY <1>1, <1>2, <1>3, TypeCorrect, PTL
  DEF Spec, EntriesOutlastCreation, EntriesOutlast, RenterMadeWhole

-----------------------------------------------------------------------------
(* No sale record outlives its entry.                                      *)

NoTerms(k) == listings[k] = None /\ accepted_offers[k] = None

\* A name without an entry, or whose creation is not settled, is not on sale.
Unsold(k) == sub_accounts[k] = None \/ Founding(k) => NoTerms(k)

\* Terms are set for names that are entered.
LEMMA TermsNeedEntry ==
    ASSUME TypeOK, TypeOK', [Next]_vars, NEW k \in Keys, sub_accounts[k] = None, NoTerms(k)
    PROVE  NoTerms(k)'
<1>1. CASE UNCHANGED saleVars
  BY <1>1 DEF saleVars, NoTerms
<1>2. CASE ReclaimNext
  <2>1. ASSUME NEW s \in Slots, NEW x \in Keys, Leaves(s, x)
        PROVE  NoTerms(k)'
    BY <2>1 DEF Leaves, RemoveSubAccount, RemoveSaleTerms, NoTerms, TypeOK
  <2>2. ASSUME NEW s \in Slots, OnReclaimFinalized(s) \/ OnExportSettled(s)
        PROVE  NoTerms(k)'
    <3>1. calls[s].key \in Keys
      BY <2>2, CallType DEF OnReclaimFinalized, OnExportSettled, At, Kinds, Call
    <3> QED
      BY <2>2, <3>1 DEF OnReclaimFinalized, OnExportSettled, RemoveSubAccount, RemoveSaleTerms,
         NoTerms, saleVars, TypeOK
  <2> QED
    BY <1>1, <1>2, <2>2 DEF ReclaimNext, ReclaimFinalize, ExportSubAccount, OnBalancesChecked
<1>3. CASE MarketplaceNext
  <2>1. ASSUME NEW caller \in Callers, NEW x \in Keys, NEW price \in Prices,
               \/ ListSubAccount(caller, x, price)
               \/ \E buyer \in Accounts : AcceptOffer(caller, x, buyer, price)
        PROVE  NoTerms(k)'
    BY <2>1 DEF ListSubAccount, AcceptOffer, Sellable, NoTerms, TypeOK
  <2>2. ASSUME NEW caller \in Callers, NEW x \in Keys,
               UnlistSubAccount(caller, x) \/ RevokeOffer(caller, x)
        PROVE  NoTerms(k)'
    BY <2>2 DEF UnlistSubAccount, RevokeOffer, NoTerms, TypeOK
  <2>3. ASSUME NEW s \in Slots, NEW buyer \in Callers, NEW x \in Keys, NEW d \in Deposits,
               BuySubAccount(s, buyer, x, d)
        PROVE  NoTerms(k)'
    BY <2>3 DEF BuySubAccount, LockSale, Sellable, NoTerms, TypeOK
  <2>4. ASSUME NEW s \in Slots, OnBuyBalancesChecked(s) \/ OnSaleFailed(s) \/ OnSubAccountSold(s)
        PROVE  NoTerms(k)'
    <3>1. \/ UNCHANGED saleVars
          \/ ClearSettling(calls[s].key)
          \/ RemoveSaleTerms(calls[s].key)
      BY <2>4 DEF OnBuyBalancesChecked, OnSaleFailed, OnSubAccountSold, AbortSale
    <3>2. PICK x \in Keys : x = calls[s].key
      BY <2>4, CallType DEF OnBuyBalancesChecked, OnSaleFailed, OnSubAccountSold, At, Kinds, Call
    <3>3. CASE ClearSettling(x)
      BY <3>3 DEF ClearSettling, NoTerms, TypeOK
    <3>4. CASE RemoveSaleTerms(x)
      BY <3>4 DEF RemoveSaleTerms, NoTerms, TypeOK
    <3> QED  BY <1>1, <3>1, <3>2, <3>3, <3>4
  <2> QED  BY <1>3, <2>1, <2>2, <2>3, <2>4 DEF MarketplaceNext
<1> QED
  BY <1>1, <1>2, <1>3, SalesRental, SalesLocker, SalesSweep, SalesRefunds, SalesOthers DEF Next

\* A creation begins with a name that is not entered, and what goes is being created,
\* or leaves with its terms.
LEMMA EntryGone ==
    ASSUME TypeOK, TypeOK', [Next]_vars, NEW k \in Keys, sub_accounts[k] # None, ~Founding(k)
    PROVE  /\ ~Founding(k)'
           /\ sub_accounts'[k] = None => NoTerms(k)'
<1>1. CASE NothingCounted
  BY <1>1 DEF NothingCounted, EntriesStay, RentsGoOn, Founding, InFlight
<1>2. ASSUME NEW s \in Slots, NEW caller \in Callers, NEW x \in Keys, NEW w \in Accounts,
             NEW d \in Deposits, RentSubAccount(s, caller, x, w, d)
      PROVE  ~Founding(k)' /\ sub_accounts'[k] # None
  BY <1>2, RentEnters DEF Founding, InFlight
<1>3. ASSUME NEW s \in Slots, \/ OnSubAccountCreated(s)
                              \/ OnSubAccountCreatedPanics(s)
                              \/ OnSubAccountCreationFailed(s)
      PROVE  ~Founding(k)' /\ sub_accounts'[k] # None
  <2>1. calls[s].kind = "rent" /\ calls[s].key # k /\ calls[s].key \in Keys /\ EndCall(s)
    BY <1>3, CallType DEF OnSubAccountCreated, OnSubAccountCreatedPanics,
       OnSubAccountCreationFailed, At, Kinds, Call, Founding, InFlight
  <2>2. ~Founding(k)'
    BY <2>1, CallEnded DEF Founding, InFlight, NoCall
  <2>3. sub_accounts'[k] = sub_accounts[k]
    BY <1>3, <2>1 DEF OnSubAccountCreated, OnSubAccountCreatedPanics,
       OnSubAccountCreationFailed, subVars, TypeOK
  <2> QED  BY <2>2, <2>3
<1>4. ASSUME NEW s \in Slots, NEW x \in Keys, Leaves(s, x)
      PROVE  ~Founding(k)' /\ (sub_accounts'[k] = None => NoTerms(k)')
  <2>1. /\ calls'[s] = NoCall /\ \A d \in Slots \ {s} : calls'[d] = calls[d]
        /\ sub_accounts' = [sub_accounts EXCEPT ![x] = None]
    BY <1>4, LeaverReleases
  <2>2. ~Founding(k)'
    BY <2>1 DEF Founding, InFlight, NoCall
  <2>3. sub_accounts'[k] = None => k = x
    BY <2>1 DEF TypeOK
  <2>4. NoTerms(x)'
    BY <1>4 DEF Leaves, RemoveSubAccount, RemoveSaleTerms, NoTerms, TypeOK
  <2> QED  BY <2>2, <2>3, <2>4
<1> QED  BY <1>1, <1>2, <1>3, <1>4, CountedSteps

\* If nobody puts a name on sale before its creation is settled, then no reclaim, no
\* export, no sale and no failed creation, in whatever order, leaves a listing or an
\* offer of a name that the registry does not manage.
THEOREM SalesLeaveWithEntry == Spec /\ NoEarlySales => []NoOrphanSale
<1> DEFINE Patient ==
             \A k \in Keys : Founding(k) =>
               /\ listings[k] = None => listings'[k] = None
               /\ accepted_offers[k] = None => accepted_offers'[k] = None
           AllUnsold == \A k \in Keys : Unsold(k)
<1>1. Init => AllUnsold
  BY DEF Init, Start, Unsold, NoTerms
<1>2. TypeOK /\ TypeOK' /\ AllUnsold /\ [Next]_vars /\ [Patient]_vars => AllUnsold'
  <2> SUFFICES ASSUME TypeOK, TypeOK', AllUnsold, [Next]_vars, [Patient]_vars, NEW k \in Keys,
                      sub_accounts'[k] = None \/ Founding(k)'
               PROVE  NoTerms(k)'
    BY DEF Unsold
  <2>1. CASE UNCHANGED vars
    BY <2>1 DEF vars, subVars, saleVars, Unsold, NoTerms, Founding, InFlight
  <2>2. CASE Patient /\ Founding(k)
    BY <2>2 DEF Unsold, NoTerms
  <2>3. CASE sub_accounts[k] = None
    BY <2>3, TermsNeedEntry DEF Unsold
  <2>4. CASE sub_accounts[k] # None /\ ~Founding(k)
    BY <2>4, EntryGone
  <2> QED  BY <2>1, <2>2, <2>3, <2>4
<1>3. AllUnsold => NoOrphanSale
  BY DEF Unsold, NoTerms, NoOrphanSale
<1> QED
  BY <1>1, <1>2, <1>3, TypeCorrect, PTL DEF Spec, NoEarlySales
=============================================================================
