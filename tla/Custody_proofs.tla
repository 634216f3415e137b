---------------------------- MODULE Custody_proofs ----------------------------
(***************************************************************************)
(* What follows from Custody.  That a free account is out of reach needs   *)
(* nothing but the account's side (AccountInv); that the registry and the  *)
(* account agree on a name needs that no key for its owner failed to be    *)
(* added (KeysLand), and for the owner's key on the locker also that sales *)
(* of a name do not overlap.                                               *)
(***************************************************************************)
EXTENDS Custody, TLAPS

CustodyTypes ==
    /\ holder \in [Names -> People \cup {None}]
    /\ account \in [Names -> [state : States, owner_key : People \cup {None}]]
    /\ chain \in [Chains -> Chain \cup {Idle}]

-----------------------------------------------------------------------------
(* Steps of one chain.                                                     *)

LEMMA Begun ==
    ASSUME CustodyTypes, NEW c \in Chains, NEW duty \in Duties, NEW n \in Names,
           NEW p \in People \cup {None}, Begin(c, duty, n, p)
    PROVE  /\ chain' \in [Chains -> Chain \cup {Idle}]
           /\ \A d \in Chains \ {c} : chain'[d] = chain[d]
           /\ chain'[c].does = duty
           /\ chain'[c].name = n
           /\ chain'[c].who = p
           /\ chain[c] = Idle
BY DEF CustodyTypes, Begin, Chain

LEMMA GoneOn ==
    ASSUME CustodyTypes, NEW c \in Chains, NEW duty \in Duties, chain[c].does \in Duties,
           GoOn(c, duty)
    PROVE  /\ chain' \in [Chains -> Chain \cup {Idle}]
           /\ \A d \in Chains \ {c} : chain'[d] = chain[d]
           /\ chain'[c].does = duty
           /\ chain'[c].name = chain[c].name
           /\ chain'[c].who = chain[c].who
<1>1. chain[c] \in Chain
  BY DEF CustodyTypes, Idle, Duties, Selling, Exporting
<1> QED  BY <1>1 DEF CustodyTypes, GoOn, Chain

LEMMA Ended ==
    ASSUME CustodyTypes, NEW c \in Chains, End(c)
    PROVE  /\ chain' \in [Chains -> Chain \cup {Idle}]
           /\ \A d \in Chains \ {c} : chain'[d] = chain[d]
           /\ chain'[c] = Idle
BY DEF CustodyTypes, End

LEMMA DutyType ==
    ASSUME CustodyTypes, NEW c \in Chains, chain[c].does \in Duties
    PROVE  chain[c] \in Chain /\ chain[c].name \in Names
BY DEF CustodyTypes, Chain, Idle, Duties, Selling, Exporting

LEMMA TypesInit == Init => CustodyTypes
BY DEF Init, CustodyTypes, States, NoAccount

LEMMA TypesNext ==
    ASSUME CustodyTypes, [Next]_custody
    PROVE  CustodyTypes'
<1>1. CASE UNCHANGED custody
  BY <1>1 DEF custody, CustodyTypes
<1>2. ASSUME NEW c \in Chains, NEW n \in Names, NEW p \in People,
             Take(c, n, p) \/ BeginSale(c, n, p)
      PROVE  CustodyTypes'
  BY <1>2, Begun DEF Take, BeginSale, CustodyTypes, Duties, Selling
<1>3. ASSUME NEW c \in Chains, NEW n \in Names, BeginDelete(c, n) \/ BeginExport(c, n)
      PROVE  CustodyTypes'
  <2>1. chain' \in [Chains -> Chain \cup {Idle}]
    BY <1>3, Begun DEF BeginDelete, BeginExport, Duties, Exporting
  <2>2. account' \in [Names -> [state : States, owner_key : People \cup {None}]]
    BY <1>3 DEF BeginDelete, BeginExport, CustodyTypes, States
  <2> QED  BY <1>3, <2>1, <2>2 DEF BeginDelete, BeginExport, CustodyTypes
<1>4. ASSUME NEW c \in Chains, Found(c)
      PROVE  CustodyTypes'
  <2>1. chain[c] \in Chain
    BY <1>4, DutyType DEF Found, Duties
  <2> QED  BY <1>4, <2>1, Ended DEF Found, CustodyTypes, Chain, States
<1>5. ASSUME NEW c \in Chains, HandOver(c)
      PROVE  CustodyTypes'
  <2>1. chain[c] \in Chain
    BY <1>5, DutyType DEF HandOver, Duties, Selling
  <2> QED  BY <1>5, <2>1, GoneOn DEF HandOver, CustodyTypes, Chain, Duties, Selling
<1>6. ASSUME NEW c \in Chains, Sell(c)
      PROVE  CustodyTypes'
  <2>1. chain[c] \in Chain
    BY <1>6, DutyType DEF Sell, Duties, Selling
  <2> QED  BY <1>6, <2>1, Ended DEF Sell, CustodyTypes, Chain
<1>7. ASSUME NEW c \in Chains, CallOff(c)
      PROVE  CustodyTypes'
  BY <1>7, Ended DEF CallOff, CustodyTypes
<1>8. ASSUME NEW c \in Chains, Delete(c)
      PROVE  CustodyTypes'
  BY <1>8, Ended, GoneOn DEF Delete, CustodyTypes, Duties, States, NoAccount
<1>9. ASSUME NEW c \in Chains, AddKey(c)
      PROVE  CustodyTypes'
  BY <1>9, GoneOn DEF AddKey, CustodyTypes, Duties, Exporting
<1>10. ASSUME NEW c \in Chains, Resolve(c)
       PROVE  CustodyTypes'
  BY <1>10, Ended, GoneOn, SMTT(20) DEF Resolve, CustodyTypes, Duties, Exporting, States
<1>11. ASSUME NEW c \in Chains, Release(c)
       PROVE  CustodyTypes'
  BY <1>11, Ended DEF Release, CustodyTypes
<1> QED
  BY <1>1, <1>2, <1>3, <1>4, <1>5, <1>6, <1>7, <1>8, <1>9, <1>10, <1>11 DEF Next

\* A chain that is to give a name to somebody knows whom.
Giving == {"renting"} \cup Selling
PartiesKnown == \A c \in Chains : chain[c].does \in Giving => chain[c].who \in People

LEMMA PartiesNext ==
    ASSUME CustodyTypes, PartiesKnown, [Next]_custody
    PROVE  PartiesKnown'
<1>1. CASE UNCHANGED custody
  BY <1>1 DEF custody, PartiesKnown
<1>2. ASSUME NEW c \in Chains, NEW n \in Names, NEW p \in People,
             Take(c, n, p) \/ BeginSale(c, n, p)
      PROVE  PartiesKnown'
  <2>1. \E duty \in Duties : Begin(c, duty, n, p)
    BY <1>2 DEF Take, BeginSale, Duties, Selling
  <2> QED  BY <2>1, Begun DEF PartiesKnown
<1>3. ASSUME NEW c \in Chains, NEW n \in Names, BeginDelete(c, n) \/ BeginExport(c, n)
      PROVE  PartiesKnown'
  <2>1. \E duty \in {"deleting", "exporting"} : Begin(c, duty, n, None)
    BY <1>3 DEF BeginDelete, BeginExport
  <2>2. \A d \in Chains : chain'[d] = chain[d] \/ chain'[d].does \in {"deleting", "exporting"}
    BY <2>1, Begun DEF Duties, Exporting
  <2> QED  BY <2>2 DEF PartiesKnown, Giving, Selling
<1>4. ASSUME NEW c \in Chains,
             \/ Found(c) \/ HandOver(c) \/ Sell(c) \/ CallOff(c)
             \/ Delete(c) \/ AddKey(c) \/ Resolve(c) \/ Release(c)
      PROVE  PartiesKnown'
  <2>1. \/ End(c)
        \/ /\ chain[c].does \in Duties
           /\ \E duty \in Duties :
                GoOn(c, duty) /\ (duty \in Giving => chain[c].does \in Giving)
    BY <1>4 DEF Found, HandOver, Sell, CallOff, Delete, AddKey, Resolve, Release, Duties,
                Giving, Selling, Exporting
  <2>2. CASE End(c)
    BY <2>2, Ended DEF PartiesKnown, Giving, Selling, Idle
  <2>3. CASE ~End(c)
    BY <2>1, <2>3, GoneOn DEF PartiesKnown
  <2> QED  BY <2>2, <2>3
<1> QED  BY <1>1, <1>2, <1>3, <1>4 DEF Next

-----------------------------------------------------------------------------
(* A step is about one chain and one name.                                 *)

\* Steps by which a chain gets a duty for n.
Beginning(c, n) ==
    \/ \E p \in People : Take(c, n, p) \/ BeginSale(c, n, p)
    \/ BeginDelete(c, n)
    \/ BeginExport(c, n)

\* Steps by which a chain goes on with its duty, or ends it.
Continuing(c) ==
    \/ Found(c) \/ HandOver(c) \/ Sell(c) \/ CallOff(c)
    \/ Delete(c) \/ AddKey(c) \/ Resolve(c) \/ Release(c)

LEMMA BeginningFrame ==
    ASSUME CustodyTypes, NEW c \in Chains, NEW n \in Names, Beginning(c, n)
    PROVE  /\ chain[c] = Idle
           /\ \A d \in Chains \ {c} : chain'[d] = chain[d]
           /\ chain'[c].name = n
           /\ \A x \in Names \ {n} : account'[x] = account[x] /\ holder'[x] = holder[x]
<1>1. \E duty \in Duties, p \in People \cup {None} : Begin(c, duty, n, p)
  BY DEF Beginning, Take, BeginSale, BeginDelete, BeginExport, Duties, Selling, Exporting
<1>2. \A x \in Names \ {n} : account'[x] = account[x] /\ holder'[x] = holder[x]
  BY DEF Beginning, Take, BeginSale, BeginDelete, BeginExport, CustodyTypes
<1> QED  BY <1>1, <1>2, Begun

LEMMA ContinuingFrame ==
    ASSUME CustodyTypes, NEW c \in Chains, Continuing(c)
    PROVE  /\ chain[c] \in Chain
           /\ \A d \in Chains \ {c} : chain'[d] = chain[d]
           /\ chain'[c] = Idle \/ chain'[c].name = chain[c].name
           /\ \A x \in Names \ {chain[c].name} :
                 account'[x] = account[x] /\ holder'[x] = holder[x]
<1>1. chain[c].does \in Duties
  BY DEF Continuing, Found, HandOver, Sell, CallOff, Delete, AddKey, Resolve, Release,
         Duties, Selling, Exporting
<1>2. End(c) \/ \E duty \in Duties : GoOn(c, duty)
  BY DEF Continuing, Found, HandOver, Sell, CallOff, Delete, AddKey, Resolve, Release,
         Duties, Selling, Exporting
<1>3. chain[c] \in Chain /\ chain[c].name \in Names
  BY <1>1, DutyType
<1>4. \A x \in Names \ {chain[c].name} : account'[x] = account[x] /\ holder'[x] = holder[x]
  BY <1>3 DEF Continuing, Found, HandOver, Sell, CallOff, Delete, AddKey, Resolve, Release,
              CustodyTypes
<1> QED  BY <1>1, <1>2, <1>3, <1>4, Ended, GoneOn

LEMMA StepOfOne ==
    ASSUME Next
    PROVE  \E c \in Chains : Continuing(c) \/ \E n \in Names : Beginning(c, n)
BY DEF Next, Continuing, Beginning

\* Nothing changes for n.
Uninvolved(n) ==
    /\ holder'[n] = holder[n]
    /\ account'[n] = account[n]
    /\ \A duties \in SUBSET Duties : \A d \in Chains :
         Does(d, duties, n)' <=> Does(d, duties, n)
    /\ \A d \in Chains : Does(d, Duties, n) => chain'[d].who = chain[d].who

LEMMA OthersUninvolved ==
    ASSUME CustodyTypes, NEW c \in Chains, NEW n \in Names,
           \/ Continuing(c) /\ chain[c].name # n
           \/ \E x \in Names \ {n} : Beginning(c, x)
           \/ UNCHANGED custody
    PROVE  Uninvolved(n)
<1>1. CASE UNCHANGED custody
  BY <1>1 DEF custody, Uninvolved, Does
<1>2. CASE Continuing(c) /\ chain[c].name # n
  BY <1>2, ContinuingFrame DEF Uninvolved, Does, Idle, Duties, Selling, Exporting
<1>3. ASSUME NEW x \in Names \ {n}, Beginning(c, x)
      PROVE  Uninvolved(n)
  BY <1>3, BeginningFrame DEF Uninvolved, Does, Idle, Duties, Selling, Exporting
<1> QED  BY <1>1, <1>2, <1>3

\* So a step is looked at for the name it is about.
LEMMA StepOnName ==
    ASSUME CustodyTypes, [Next]_custody, NEW n \in Names
    PROVE  \/ Uninvolved(n)
           \/ \E c \in Chains : Beginning(c, n)
           \/ \E c \in Chains : Continuing(c) /\ chain[c].name = n
<1>1. CASE UNCHANGED custody
  BY <1>1 DEF custody, Uninvolved, Does
<1>2. CASE Next
  BY <1>2, StepOfOne, OthersUninvolved
<1> QED  BY <1>1, <1>2

-----------------------------------------------------------------------------
(* The account's side.                                                     *)

ExportInv(n) ==
    /\ \A c, d \in Chains : Does(c, Exporting, n) /\ Does(d, Exporting, n) => c = d
    /\ Busy(n, Exporting) => account[n].state \in {"Exporting", "Absent"}
    /\ account[n].state = "Exporting" => Busy(n, Exporting)

\* A deletion and an export of one account: whichever the account agreed to last
\* waits for the other.
DeletionInv(n) ==
    /\ account[n].state = "Absent" => account[n] = NoAccount
    /\ Busy(n, {"deleting"}) => account[n].state # "Exported"
    /\ Busy(n, {"keyed", "unkeyed"}) /\ Busy(n, {"deleting"}) => account[n] = NoAccount

AccountInv == CustodyTypes /\ \A n \in Names : ExportInv(n) /\ DeletionInv(n)

\* Steps that change no state of the account and no duty at it.
AtAccount == Exporting \cup {"deleting"}
Spared(n) ==
    /\ account'[n].state = account[n].state
    /\ account[n] = NoAccount => account'[n] = NoAccount
    /\ \A duties \in SUBSET AtAccount, d \in Chains : Does(d, duties, n)' <=> Does(d, duties, n)

LEMMA SparedInv ==
    ASSUME NEW n \in Names, ExportInv(n), DeletionInv(n), Spared(n)
    PROVE  ExportInv(n)' /\ DeletionInv(n)'
<1>1. \A duties \in SUBSET AtAccount : Busy(n, duties)' <=> Busy(n, duties)
  BY DEF Spared, Busy
<1>2. {Exporting, {"deleting"}, {"keyed", "unkeyed"}} \subseteq SUBSET AtAccount
  BY DEF AtAccount, Exporting
<1>3. ExportInv(n)'
  BY <1>1, <1>2 DEF ExportInv, Spared
<1>4. DeletionInv(n)'
  BY <1>1, <1>2 DEF DeletionInv, Spared, NoAccount
<1> QED  BY <1>3, <1>4

LEMMA AccountNext ==
    ASSUME AccountInv, [Next]_custody, NEW n \in Names
    PROVE  ExportInv(n)' /\ DeletionInv(n)'
<1>0. CustodyTypes /\ ExportInv(n) /\ DeletionInv(n)
  BY DEF AccountInv
<1>1. CASE Uninvolved(n)
  BY <1>0, <1>1, SparedInv DEF Uninvolved, Spared, AtAccount, Duties
<1>2. ASSUME NEW c \in Chains, NEW p \in People, Take(c, n, p) \/ BeginSale(c, n, p)
      PROVE  Spared(n)
  <2>1. chain'[c].does \in {"renting", "selling"} /\ account' = account
    BY <1>0, <1>2, Begun DEF Take, BeginSale, Duties, Selling
  <2> QED
    BY <1>0, <1>2, <2>1, BeginningFrame
    DEF Beginning, Spared, Does, Idle, AtAccount, Exporting
<1>3. ASSUME NEW c \in Chains, chain[c].name = n,
             Sell(c) \/ CallOff(c) \/ Release(c) \/ HandOver(c)
      PROVE  Spared(n)
  <2>1. chain[c].does \notin AtAccount /\ chain'[c].does \notin AtAccount
    BY <1>0, <1>3, Ended, GoneOn
    DEF Sell, CallOff, Release, HandOver, AtAccount, Exporting, Selling, Duties, Idle
  <2>2. account' = account \/ (account[n].state = "Held" /\ account'[n].state = "Held")
    BY <1>0, <1>3 DEF Sell, CallOff, Release, HandOver, CustodyTypes
  <2>3. \A d \in Chains \ {c} : chain'[d] = chain[d]
    BY <1>0, <1>3, ContinuingFrame DEF Continuing
  <2> QED  BY <2>1, <2>2, <2>3 DEF Spared, Does, NoAccount
<1>4. ASSUME NEW c \in Chains, BeginDelete(c, n)
      PROVE  ExportInv(n)' /\ DeletionInv(n)'
  <2>1. /\ \A d \in Chains \ {c} : chain'[d] = chain[d]
        /\ chain[c] = Idle
        /\ chain'[c].does = "deleting" /\ chain'[c].name = n
    BY <1>0, <1>4, Begun DEF BeginDelete, Duties
  <2>2. account' = account /\ account[n].state = "Held"
    BY <1>4 DEF BeginDelete
  <2> QED
    BY <1>0, <2>1, <2>2
    DEF Exporting, Does, Busy, Idle, ExportInv, DeletionInv, NoAccount
<1>5. ASSUME NEW c \in Chains, BeginExport(c, n)
      PROVE  ExportInv(n)' /\ DeletionInv(n)'
  <2>1. /\ \A d \in Chains \ {c} : chain'[d] = chain[d]
        /\ chain[c] = Idle
        /\ chain'[c].does = "exporting" /\ chain'[c].name = n
    BY <1>0, <1>5, Begun DEF BeginExport, Duties, Exporting
  <2>2. account[n].state = "Held" /\ account'[n].state = "Exporting"
    BY <1>0, <1>5 DEF BeginExport, CustodyTypes
  <2> QED
    BY <1>0, <2>1, <2>2
    DEF Exporting, Does, Busy, Idle, ExportInv, DeletionInv, NoAccount
<1>6. ASSUME NEW c \in Chains, Found(c), chain[c].name = n
      PROVE  ExportInv(n)' /\ DeletionInv(n)'
  <2>1. chain'[c] = Idle /\ account'[n].state = "Held"
    BY <1>0, <1>6, Ended DEF Found, CustodyTypes
  <2>2. \A d \in Chains \ {c} : chain'[d] = chain[d]
    BY <1>0, <1>6, ContinuingFrame DEF Continuing
  <2>3. ~Busy(n, {"deleting"} \cup Exporting)
    BY <1>6 DEF Found
  <2> QED
    BY <2>1, <2>2, <2>3 DEF Exporting, Does, Busy, Idle, ExportInv, DeletionInv
<1>7. ASSUME NEW c \in Chains, Delete(c), chain[c].name = n
      PROVE  ExportInv(n)' /\ DeletionInv(n)'
  <2>1. chain[c].does = "deleting" /\ chain'[c].does \notin AtAccount
    BY <1>0, <1>7, Ended, GoneOn DEF Delete, AtAccount, Exporting, Duties, Idle
  <2>2. \A d \in Chains \ {c} : chain'[d] = chain[d]
    BY <1>0, <1>7, ContinuingFrame DEF Continuing
  <2>3. account'[n] = NoAccount
    BY <1>0, <1>7 DEF Delete, CustodyTypes
  <2> QED
    BY <1>0, <2>1, <2>2, <2>3
    DEF AtAccount, Exporting, Does, Busy, ExportInv, DeletionInv, NoAccount
<1>8. ASSUME NEW c \in Chains, AddKey(c), chain[c].name = n
      PROVE  ExportInv(n)' /\ DeletionInv(n)'
  <2>1. /\ chain[c].does = "exporting"
        /\ chain'[c].does \in {"keyed", "unkeyed"}
        /\ chain'[c].name = n
    BY <1>0, <1>8, GoneOn DEF AddKey, Exporting, Duties
  <2>2. \A d \in Chains \ {c} : chain'[d] = chain[d]
    BY <1>0, <1>8, ContinuingFrame DEF Continuing
  <2>3. account' = account /\ ~Busy(n, {"deleting"})
    BY <1>8 DEF AddKey
  <2>4. ExportInv(n)'
    <3>1. \A d \in Chains : Does(d, Exporting, n)' <=> Does(d, Exporting, n)
      BY <1>8, <2>1, <2>2 DEF Exporting, Does
    <3> QED  BY <1>0, <2>3, <3>1 DEF ExportInv, Busy
  <2>5. DeletionInv(n)'
    BY <1>0, <2>1, <2>2, <2>3 DEF Does, Busy, DeletionInv
  <2> QED  BY <2>4, <2>5
<1>9. ASSUME NEW c \in Chains, Resolve(c), chain[c].name = n
      PROVE  ExportInv(n)' /\ DeletionInv(n)'
  <2>1. chain[c].does \in {"keyed", "unkeyed"} /\ chain'[c].does \notin AtAccount
    BY <1>0, <1>9, Ended, GoneOn DEF Resolve, AtAccount, Exporting, Duties, Idle
  <2>2. \A d \in Chains \ {c} : chain'[d] = chain[d]
    BY <1>0, <1>9, ContinuingFrame DEF Continuing
  <2>3. CASE account[n] = NoAccount
    <3>1. account' = account
      BY <1>9, <2>3 DEF Resolve
    <3> QED
      BY <1>0, <2>1, <2>2, <2>3, <3>1
      DEF AtAccount, Exporting, Does, Busy, ExportInv, DeletionInv, NoAccount
  <2>4. CASE account[n] # NoAccount
    <3>1. account'[n].state \in {"Held", "Exported"}
      BY <1>0, <1>9, <2>4 DEF Resolve, CustodyTypes
    <3>2. ~Busy(n, {"deleting"})
      BY <1>0, <1>9, <2>1, <2>4 DEF DeletionInv, Busy, Does
    <3> QED
      BY <1>0, <1>9, <2>1, <2>2, <3>1, <3>2
      DEF AtAccount, Exporting, Does, Busy, ExportInv, DeletionInv
  <2> QED  BY <2>3, <2>4
<1>10. CASE \E c \in Chains : Beginning(c, n)
  <2>1. PICK c \in Chains : Beginning(c, n)
    BY <1>10
  <2>2. CASE \E p \in People : Take(c, n, p) \/ BeginSale(c, n, p)
    BY <1>0, <1>2, <2>2, SparedInv
  <2> QED  BY <1>4, <1>5, <2>1, <2>2 DEF Beginning
<1>11. CASE \E c \in Chains : Continuing(c) /\ chain[c].name = n
  <2>1. PICK c \in Chains : Continuing(c) /\ chain[c].name = n
    BY <1>11
  <2>2. CASE Sell(c) \/ CallOff(c) \/ Release(c) \/ HandOver(c)
    BY <1>0, <1>3, <2>1, <2>2, SparedInv
  <2> QED  BY <1>6, <1>7, <1>8, <1>9, <2>1, <2>2 DEF Continuing
<1> QED  BY <1>0, <1>1, <1>10, <1>11, StepOnName

LEMMA AccountStart == Init => AccountInv
<1> SUFFICES ASSUME Init
             PROVE  AccountInv
  OBVIOUS
<1>1. CustodyTypes
  BY TypesInit
<1>2. \A n \in Names : account[n] = NoAccount \/ account[n].state = "Held"
  BY DEF Init
<1>3. \A c \in Chains : chain[c].does = "nothing"
  BY DEF Init, Idle
<1> QED
  BY <1>1, <1>2, <1>3
  DEF AccountInv, ExportInv, DeletionInv, Busy, Does, Exporting, NoAccount

LEMMA AccountInvHolds == Spec => []AccountInv
<1>1. Init => AccountInv
  BY AccountStart
<1>2. AccountInv /\ [Next]_custody => AccountInv'
  BY AccountNext, TypesNext DEF AccountInv
<1> QED  BY <1>1, <1>2, PTL DEF Spec

\* Only the account's own chains change it, and none of them is under way, or can
\* begin, at a free account.
LEMMA FreedStays ==
    ASSUME AccountInv, [Next]_custody, NEW n \in Names, account[n].state = "Exported"
    PROVE  account'[n] = account[n]
<1>0. CustodyTypes /\ ExportInv(n) /\ DeletionInv(n)
  BY DEF AccountInv
<1>1. ASSUME Uninvolved(n)
      PROVE  account'[n] = account[n]
  BY <1>1 DEF Uninvolved
<1>2. ASSUME NEW c \in Chains, Beginning(c, n)
      PROVE  account' = account
  BY <1>2 DEF Beginning, Take, BeginSale, BeginDelete, BeginExport
<1>3. ASSUME NEW c \in Chains, Continuing(c), chain[c].name = n
      PROVE  account' = account
  <2>1. ~Found(c) /\ ~HandOver(c)
    BY <1>3 DEF Found, HandOver, NoAccount
  <2>2. ~Delete(c) /\ ~Resolve(c)
    BY <1>0, <1>3 DEF Delete, Resolve, ExportInv, DeletionInv, Busy, Does, Exporting
  <2> QED  BY <1>3, <2>1, <2>2 DEF Continuing, Sell, CallOff, AddKey, Release
<1> QED  BY <1>0, <1>1, <1>2, <1>3, StepOnName

\* A free account is out of reach.
THEOREM FreeAccountsStayFree == Spec => FreeForGood
<1>1. AccountInv /\ [Next]_custody
        => [\A n \in Names : account[n].state = "Exported" => account'[n] = account[n]]_custody
  BY FreedStays
<1> QED  BY <1>1, AccountInvHolds, PTL DEF Spec, FreeForGood

-----------------------------------------------------------------------------
(* The registry's side, of the names for which no key has failed.          *)

Releasing == {"renting", "deleted", "exported"}

\* A name that is entered has an account in the locker's hands, or one chain that
\* will see to the difference.
EntryInv(n) ==
    /\ \A c, d \in Chains : Does(c, Releasing, n) /\ Does(d, Releasing, n) => c = d
    /\ holder[n] # None =>
         (account[n].state \in {"Absent", "Exported"} <=> Busy(n, Releasing))
    /\ holder[n] = None =>
         account[n].state \in {"Absent", "Exported"} /\ ~Busy(n, Releasing)
    /\ Busy(n, {"unkeyed"}) => account[n] = NoAccount

BaseInv == AccountInv /\ PartiesKnown

RegistryInv(N) == BaseInv /\ \A n \in N : EntryInv(n)

\* Steps that change nothing of this.
AtEntry == Releasing \cup {"unkeyed"}
EntrySpared(n) ==
    /\ holder'[n] = None <=> holder[n] = None
    /\ account[n] = NoAccount => account'[n] = NoAccount
    /\ account'[n].state \in {"Absent", "Exported"}
         <=> account[n].state \in {"Absent", "Exported"}
    /\ \A d \in Chains : Does(d, Releasing, n)' <=> Does(d, Releasing, n)
    /\ \A d \in Chains : Does(d, {"unkeyed"}, n)' => Does(d, {"unkeyed"}, n)

LEMMA EntrySparedInv ==
    ASSUME NEW n \in Names, EntryInv(n), EntrySpared(n)
    PROVE  EntryInv(n)'
BY DEF EntryInv, EntrySpared, Busy

LEMMA EntryNext ==
    ASSUME None \notin People, BaseInv, [Next]_custody,
           NEW n \in Names, KeyLands(n), EntryInv(n)
    PROVE  EntryInv(n)'
<1>0. /\ CustodyTypes /\ PartiesKnown
      /\ ExportInv(n) /\ DeletionInv(n) /\ EntryInv(n)
  BY DEF BaseInv, AccountInv
<1> USE DEF Releasing
<1>1. CASE Uninvolved(n)
  BY <1>0, <1>1, EntrySparedInv DEF Uninvolved, EntrySpared, Duties, Exporting
<1>2. ASSUME NEW c \in Chains, NEW p \in People, Take(c, n, p)
      PROVE  EntryInv(n)'
  <2>1. /\ \A d \in Chains \ {c} : chain'[d] = chain[d]
        /\ chain[c] = Idle
        /\ chain'[c].does = "renting" /\ chain'[c].name = n
    BY <1>0, <1>2, Begun DEF Take, Duties
  <2>2. account' = account /\ holder[n] = None /\ holder'[n] = p
    BY <1>0, <1>2 DEF Take, CustodyTypes
  <2>3. p # None
    BY <1>2
  <2> QED  BY <1>0, <2>1, <2>2, <2>3 DEF EntryInv, Busy, Does
<1>3. ASSUME NEW c \in Chains,
             BeginDelete(c, n) \/ BeginExport(c, n) \/ \E p \in People : BeginSale(c, n, p)
      PROVE  EntrySpared(n)
  <2>1. chain'[c].does \in {"deleting", "exporting", "selling"}
    BY <1>0, <1>3, Begun DEF BeginSale, BeginDelete, BeginExport, Duties, Selling, Exporting
  <2>2. /\ holder' = holder
        /\ \/ account' = account
           \/ account[n].state = "Held" /\ account'[n].state = "Exporting"
    BY <1>0, <1>3 DEF BeginSale, BeginDelete, BeginExport, CustodyTypes
  <2>3. chain[c] = Idle /\ \A d \in Chains \ {c} : chain'[d] = chain[d]
    BY <1>0, <1>3, BeginningFrame DEF Beginning
  <2> QED  BY <2>1, <2>2, <2>3 DEF EntrySpared, Does, Idle, NoAccount
<1>4. ASSUME NEW c \in Chains, chain[c].name = n,
             HandOver(c) \/ Sell(c) \/ CallOff(c) \/ AddKey(c)
      PROVE  EntryInv(n)'
  <2>1. /\ chain[c].does \notin AtEntry
        /\ chain'[c].does \notin Releasing
        /\ chain'[c].does = "unkeyed" => chain[c].does = "exporting"
        /\ chain'[c] = Idle \/ chain'[c].name = n
    BY <1>0, <1>4, Ended, GoneOn
    DEF HandOver, Sell, CallOff, AddKey, AtEntry, Selling, Exporting, Duties, Idle
  <2>2. holder'[n] = None <=> holder[n] = None
    BY <1>0, <1>4 DEF HandOver, Sell, CallOff, AddKey, CustodyTypes, PartiesKnown, Giving, Selling
  <2>3. account' = account \/ (account[n].state = "Held" /\ account'[n].state = "Held")
    BY <1>0, <1>4 DEF HandOver, Sell, CallOff, AddKey, CustodyTypes
  <2>4. \A d \in Chains \ {c} : chain'[d] = chain[d]
    BY <1>0, <1>4, ContinuingFrame DEF Continuing
  <2>5. chain'[c].does = "unkeyed" => account[n] = NoAccount
    BY <1>4, <2>1 DEF KeyLands, Does, Idle
  <2> QED
    BY <1>0, <2>1, <2>2, <2>3, <2>4, <2>5 DEF EntryInv, AtEntry, Busy, Does, NoAccount, Idle
<1>5. ASSUME NEW c \in Chains, chain[c].name = n, Found(c)
      PROVE  EntryInv(n)'
  <2>1. chain[c].does = "renting" /\ chain'[c] = Idle /\ ~Busy(n, {"unkeyed"})
    BY <1>0, <1>5, Ended DEF Found, Busy, Does, Exporting
  <2>2. account'[n].state = "Held" /\ holder' = holder
    BY <1>0, <1>5 DEF Found, CustodyTypes
  <2>3. \A d \in Chains \ {c} : chain'[d] = chain[d]
    BY <1>0, <1>5, ContinuingFrame DEF Continuing
  <2> QED
    BY <1>0, <1>5, <2>1, <2>2, <2>3 DEF EntryInv, Busy, Does, Idle
<1>6. ASSUME NEW c \in Chains, chain[c].name = n, Delete(c)
      PROVE  EntryInv(n)'
  <2>1. /\ chain[c].does = "deleting"
        /\ holder' = holder /\ account'[n] = NoAccount
    BY <1>0, <1>6 DEF Delete, CustodyTypes
  <2>2. \A d \in Chains \ {c} : chain'[d] = chain[d]
    BY <1>0, <1>6, ContinuingFrame DEF Continuing
  <2>3. CASE account[n] = NoAccount
    <3>1. chain'[c] = Idle
      BY <1>0, <1>6, <2>3, Ended DEF Delete
    <3> QED  BY <1>0, <2>1, <2>2, <2>3, <3>1 DEF EntryInv, Busy, Does, Idle
  <2>4. CASE account[n] # NoAccount
    <3>1. chain'[c].does = "deleted" /\ chain'[c].name = n
      BY <1>0, <1>6, <2>4, GoneOn DEF Delete, Duties
    <3>2. account[n].state \notin {"Absent", "Exported"}
      BY <1>0, <1>6, <2>1, <2>4 DEF DeletionInv, Busy, Does
    <3> QED
      BY <1>0, <2>1, <2>2, <3>1, <3>2 DEF EntryInv, Busy, Does, NoAccount
  <2> QED  BY <2>3, <2>4
<1>7. ASSUME NEW c \in Chains, chain[c].name = n, Resolve(c)
      PROVE  EntryInv(n)'
  <2>1. chain[c].does \in {"keyed", "unkeyed"} /\ holder' = holder
    BY <1>0, <1>7 DEF Resolve
  <2>2. \A d \in Chains \ {c} : chain'[d] = chain[d]
    BY <1>0, <1>7, ContinuingFrame DEF Continuing
  <2>3. CASE account[n] = NoAccount
    <3>1. chain'[c] = Idle /\ account' = account
      BY <1>0, <1>7, <2>3, Ended DEF Resolve
    <3> QED  BY <1>0, <2>1, <2>2, <2>3, <3>1 DEF EntryInv, Busy, Does, Idle
  <2>4. CASE account[n] # NoAccount
    <3>1. ~Busy(n, {"unkeyed"}) /\ chain[c].does = "keyed"
      BY <1>0, <1>7, <2>1, <2>4 DEF EntryInv, Busy, Does
    <3>2. chain'[c].does = "exported" /\ chain'[c].name = n
      BY <1>0, <1>7, <2>1, <2>4, GoneOn DEF Resolve, Duties, Exporting
    <3>3. account'[n].state = "Exported"
      BY <1>0, <1>7, <2>4, <3>1 DEF Resolve, CustodyTypes
    <3>4. account[n].state = "Exporting"
      BY <1>0, <1>7, <2>4, <3>1 DEF ExportInv, DeletionInv, Busy, Does, Exporting
    <3> QED
      BY <1>0, <2>1, <2>2, <3>1, <3>2, <3>3, <3>4 DEF EntryInv, Busy, Does, NoAccount
  <2> QED  BY <2>3, <2>4
<1>8. ASSUME NEW c \in Chains, chain[c].name = n, Release(c)
      PROVE  EntryInv(n)'
  <2>1. /\ chain[c].does \in Releasing /\ chain'[c] = Idle
        /\ account' = account /\ holder'[n] = None
    BY <1>0, <1>8, Ended DEF Release, CustodyTypes
  <2>2. \A d \in Chains \ {c} : chain'[d] = chain[d]
    BY <1>0, <1>8, ContinuingFrame DEF Continuing
  <2> QED
    BY <1>0, <1>8, <2>1, <2>2 DEF EntryInv, Busy, Does, Idle
<1>9. CASE \E c \in Chains : Beginning(c, n)
  BY <1>0, <1>2, <1>3, <1>9, EntrySparedInv DEF Beginning
<1>10. CASE \E c \in Chains : Continuing(c) /\ chain[c].name = n
  BY <1>4, <1>5, <1>6, <1>7, <1>8, <1>10 DEF Continuing
<1> QED  BY <1>0, <1>1, <1>9, <1>10, StepOnName

LEMMA RegistryStart ==
    ASSUME NEW N \in SUBSET Names, Init
    PROVE  RegistryInv(N)
<1>1. \A c \in Chains : chain[c].does = "nothing"
  BY DEF Init, Idle
<1>2. \A n \in Names :
        account[n].state = IF holder[n] = None THEN "Absent" ELSE "Held"
  BY DEF Init, NoAccount
<1>3. PartiesKnown /\ \A n \in Names : EntryInv(n)
  BY <1>1, <1>2 DEF PartiesKnown, Giving, Selling, EntryInv, Busy, Does, Releasing
<1> QED  BY <1>3, AccountStart DEF RegistryInv, BaseInv

LEMMA RegistryNext ==
    ASSUME None \notin People, NEW N \in SUBSET Names, RegistryInv(N), [Next]_custody,
           [\A n \in N : KeyLands(n)]_custody
    PROVE  RegistryInv(N)'
<1>1. \A n \in N : KeyLands(n)
  BY DEF KeyLands, Does, custody
<1>2. AccountInv' /\ PartiesKnown'
  BY PartiesNext, AccountNext, TypesNext DEF RegistryInv, BaseInv, AccountInv
<1> QED  BY <1>1, <1>2, EntryNext DEF RegistryInv, BaseInv

\* A chain that is to release a name is the only one of its kind for it, and the
\* name is entered until then.
LEMMA EntryOfReleased ==
    ASSUME NEW N \in SUBSET Names, RegistryInv(N)
    PROVE  ReleasesEntered(N)
BY DEF RegistryInv, ReleasesEntered, EntryInv, Busy, Releasing

\* A name that a chain is to release is entered for somebody: none is released twice.
THEOREM EnteredUntilReleased ==
    ASSUME None \notin People, NEW N \in SUBSET Names
    PROVE  Spec /\ KeysLand(N) => []ReleasesEntered(N)
<1>1. Init => RegistryInv(N)
  BY RegistryStart
<1>2. RegistryInv(N) /\ [Next]_custody /\ [\A n \in N : KeyLands(n)]_custody => RegistryInv(N)'
  BY RegistryNext
<1>3. RegistryInv(N) => ReleasesEntered(N)
  BY EntryOfReleased
<1> QED  BY <1>1, <1>2, <1>3, PTL DEF Spec, KeysLand

-----------------------------------------------------------------------------
(* The key on the locker, if sales of a name do not overlap.               *)

KeyInv(n) ==
    /\ \A c \in Chains : Does(c, {"renting"}, n) => holder[n] = chain[c].who
    /\ holder[n] # None /\ account[n].state \in {"Held", "Exporting"} /\ ~Busy(n, {"handed"})
         => account[n].owner_key = holder[n]
    /\ \A c \in Chains : Does(c, {"handed"}, n) =>
         /\ ~Busy(n, {"renting"})
         /\ account[n] = NoAccount \/ account[n].owner_key = chain[c].who

KeysInv(N) == \A n \in N : KeyInv(n)

LEMMA KeyNext ==
    ASSUME None \notin People, BaseInv, [Next]_custody,
           OneSale, NEW n \in Names, EntryInv(n),
           holder[n] = None /\ holder'[n] # None => ~Busy(n, Selling), KeyInv(n)
    PROVE  KeyInv(n)'
<1>0. CustodyTypes /\ PartiesKnown /\ ExportInv(n) /\ EntryInv(n)
  BY DEF BaseInv, AccountInv
<1> USE DEF Releasing, Selling
<1>1. CASE Uninvolved(n)
  <2>1. \A d \in Chains :
          /\ Does(d, {"renting"}, n)' <=> Does(d, {"renting"}, n)
          /\ Does(d, {"handed"}, n)' <=> Does(d, {"handed"}, n)
    BY <1>1 DEF Uninvolved, Duties
  <2>2. \A d \in Chains : Does(d, {"renting", "handed"}, n) => chain'[d].who = chain[d].who
    BY <1>1 DEF Uninvolved, Does, Duties
  <2>3. account'[n] = account[n] /\ holder'[n] = holder[n]
    BY <1>1 DEF Uninvolved
  <2>4. \A d \in Chains :
          Does(d, {"renting"}, n) \/ Does(d, {"handed"}, n) => Does(d, {"renting", "handed"}, n)
    BY DEF Does
  <2> QED  BY <2>1, <2>2, <2>3, <2>4 DEF KeyInv, Busy
<1>2. ASSUME NEW c \in Chains, NEW p \in People, Take(c, n, p)
      PROVE  KeyInv(n)'
  <2>1. /\ chain[c] = Idle
        /\ chain'[c].does = "renting" /\ chain'[c].name = n /\ chain'[c].who = p
    BY <1>0, <1>2, Begun DEF Take, Duties
  <2>2. \A d \in Chains \ {c} : chain'[d] = chain[d]
    BY <1>0, <1>2, BeginningFrame DEF Beginning
  <2>3. account' = account /\ holder[n] = None /\ holder'[n] = p /\ p # None
    BY <1>0, <1>2 DEF Take, CustodyTypes
  <2>4. \A d \in Chains : ~Does(d, {"handed"}, n) /\ ~Does(d, {"renting"}, n)
    BY <1>0, <2>3 DEF EntryInv, Busy, Does
  <2>5. account[n].state \in {"Absent", "Exported"}
    BY <1>0, <2>3 DEF EntryInv
  <2> QED  BY <2>1, <2>2, <2>3, <2>4, <2>5 DEF KeyInv, Busy, Does
<1>3. ASSUME NEW c \in Chains,
             BeginDelete(c, n) \/ BeginExport(c, n) \/ \E p \in People : BeginSale(c, n, p)
      PROVE  KeyInv(n)'
  <2>1. chain'[c].does \in {"deleting", "exporting", "selling"}
    BY <1>0, <1>3, Begun DEF BeginSale, BeginDelete, BeginExport, Duties, Exporting
  <2>2. /\ holder' = holder
        /\ \/ account' = account
           \/ /\ account[n].state = "Held" /\ account'[n].state = "Exporting"
              /\ account'[n].owner_key = account[n].owner_key
    BY <1>0, <1>3 DEF BeginSale, BeginDelete, BeginExport, CustodyTypes
  <2>3. chain[c] = Idle /\ \A d \in Chains \ {c} : chain'[d] = chain[d]
    BY <1>0, <1>3, BeginningFrame DEF Beginning
  <2> QED  BY <2>1, <2>2, <2>3 DEF KeyInv, Busy, Does, Idle, NoAccount
<1>4. ASSUME NEW c \in Chains, chain[c].name = n, Found(c)
      PROVE  KeyInv(n)'
  <2>1. chain[c].does = "renting" /\ chain'[c] = Idle
    BY <1>0, <1>4, Ended DEF Found
  <2>2. \A d \in Chains \ {c} : chain'[d] = chain[d]
    BY <1>0, <1>4, ContinuingFrame DEF Continuing
  <2>3. account'[n].owner_key = chain[c].who /\ holder' = holder
    BY <1>0, <1>4 DEF Found, CustodyTypes
  <2>4. \A d \in Chains : ~Does(d, {"handed"}, n)
    BY <1>4, <2>1 DEF KeyInv, Busy, Does
  <2>5. \A d \in Chains \ {c} : ~Does(d, {"renting"}, n)
    BY <1>0, <1>4, <2>1 DEF EntryInv, Does
  <2> QED  BY <1>4, <2>1, <2>2, <2>3, <2>4, <2>5 DEF KeyInv, Busy, Does, Idle
<1>5. ASSUME NEW c \in Chains, chain[c].name = n, HandOver(c)
      PROVE  KeyInv(n)'
  <2>1. /\ chain[c].does = "selling" /\ chain'[c].does = "handed"
        /\ chain'[c].name = n /\ chain'[c].who = chain[c].who
    BY <1>0, <1>5, GoneOn DEF HandOver, Duties
  <2>2. \A d \in Chains \ {c} : chain'[d] = chain[d]
    BY <1>0, <1>5, ContinuingFrame DEF Continuing
  <2>3. account[n].state = "Held" /\ account'[n].owner_key = chain[c].who /\ holder' = holder
    BY <1>0, <1>5 DEF HandOver, CustodyTypes
  <2>4. \A d \in Chains \ {c} : ~Does(d, {"handed"}, n)
    BY <1>5, <2>1 DEF OneSale, Does
  <2>5. \A d \in Chains : ~Does(d, {"renting"}, n)
    BY <1>0, <2>3 DEF EntryInv, Busy, Does
  <2> QED  BY <1>5, <2>1, <2>2, <2>3, <2>4, <2>5 DEF KeyInv, Busy, Does
<1>6. ASSUME NEW c \in Chains, chain[c].name = n, Sell(c)
      PROVE  KeyInv(n)'
  <2>1. chain[c].does = "handed" /\ chain'[c] = Idle
    BY <1>0, <1>6, Ended DEF Sell
  <2>2. \A d \in Chains \ {c} : chain'[d] = chain[d]
    BY <1>0, <1>6, ContinuingFrame DEF Continuing
  <2>3. account' = account /\ holder'[n] = chain[c].who
    BY <1>0, <1>6 DEF Sell, CustodyTypes
  <2>4. \A d \in Chains \ {c} : ~Does(d, {"handed"}, n)
    BY <1>6, <2>1 DEF OneSale, Does
  <2>5. /\ \A d \in Chains : ~Does(d, {"renting"}, n)
        /\ account[n] = NoAccount \/ account[n].owner_key = chain[c].who
    BY <1>6, <2>1 DEF KeyInv, Busy, Does
  <2> QED  BY <1>6, <2>1, <2>2, <2>3, <2>4, <2>5 DEF KeyInv, Busy, Does, Idle, NoAccount
<1>7. ASSUME NEW c \in Chains, chain[c].name = n, CallOff(c) \/ AddKey(c)
      PROVE  KeyInv(n)'
  <2>1. /\ account' = account /\ holder' = holder
        /\ chain'[c] = Idle \/ chain'[c].does \in {"keyed", "unkeyed"}
        /\ chain[c].does \in {"selling", "exporting"} \/ holder[n] = None
    BY <1>0, <1>7, Ended, GoneOn DEF CallOff, AddKey, Duties, Exporting
  <2>2. \A d \in Chains \ {c} : chain'[d] = chain[d]
    BY <1>0, <1>7, ContinuingFrame DEF Continuing
  <2> QED  BY <1>7, <2>1, <2>2 DEF KeyInv, Busy, Does, Idle
<1>8. ASSUME NEW c \in Chains, chain[c].name = n, Delete(c) \/ Resolve(c)
      PROVE  KeyInv(n)'
  <2>1. /\ holder' = holder
        /\ chain[c].does \in {"deleting", "keyed", "unkeyed"}
        /\ chain'[c] = Idle \/ chain'[c].does \in {"deleted", "exported"}
    BY <1>0, <1>8, Ended, GoneOn DEF Delete, Resolve, Duties, Exporting
  <2>2. \A d \in Chains \ {c} : chain'[d] = chain[d]
    BY <1>0, <1>8, ContinuingFrame DEF Continuing
  <2>3. \/ account'[n] = NoAccount
        \/ /\ account[n] # NoAccount
           /\ account'[n].state = "Exported" /\ account'[n].owner_key = account[n].owner_key
    <3>1. CASE Delete(c)
      BY <1>0, <1>8, <3>1 DEF Delete, CustodyTypes
    <3>2. CASE Resolve(c)
      <4>1. chain[c].does = "unkeyed" => account[n] = NoAccount
        BY <1>0, <1>8 DEF EntryInv, Busy, Does
      <4> QED  BY <1>0, <1>8, <3>2, <4>1 DEF Resolve, CustodyTypes
    <3> QED  BY <1>8, <3>1, <3>2
  <2>4. \A d \in Chains :
          /\ Does(d, {"renting"}, n)' <=> Does(d, {"renting"}, n)
          /\ Does(d, {"handed"}, n)' <=> Does(d, {"handed"}, n)
    BY <2>1, <2>2 DEF Does, Idle
  <2>5. \A d \in Chains :
          Does(d, {"renting"}, n) \/ Does(d, {"handed"}, n) => chain'[d] = chain[d]
    BY <2>1, <2>2 DEF Does
  <2> QED  BY <2>1, <2>3, <2>4, <2>5 DEF KeyInv, Busy, NoAccount
<1>9. ASSUME NEW c \in Chains, chain[c].name = n, Release(c)
      PROVE  KeyInv(n)'
  <2>1. /\ chain[c].does \in Releasing /\ chain'[c] = Idle
        /\ account' = account /\ holder'[n] = None
    BY <1>0, <1>9, Ended DEF Release, CustodyTypes
  <2>2. \A d \in Chains \ {c} : chain'[d] = chain[d] /\ ~Does(d, {"renting"}, n)
    BY <1>0, <1>9, <2>1, ContinuingFrame DEF Continuing, EntryInv, Does
  <2> QED  BY <1>9, <2>1, <2>2 DEF KeyInv, Busy, Does, Idle
<1>10. CASE \E c \in Chains : Beginning(c, n)
  BY <1>2, <1>3, <1>10 DEF Beginning
<1>11. CASE \E c \in Chains : Continuing(c) /\ chain[c].name = n
  BY <1>4, <1>5, <1>6, <1>7, <1>8, <1>9, <1>11 DEF Continuing
<1> QED  BY <1>0, <1>1, <1>10, <1>11, StepOnName

LEMMA KeysStart ==
    ASSUME NEW N \in SUBSET Names, Init
    PROVE  KeysInv(N)
<1>1. \A c \in Chains : chain[c].does = "nothing"
  BY DEF Init, Idle
<1>2. \A n \in Names : holder[n] # None => account[n].owner_key = holder[n]
  BY DEF Init
<1> QED  BY <1>1, <1>2 DEF KeysInv, KeyInv, Busy, Does

LEMMA KeysNext ==
    ASSUME None \notin People, NEW N \in SUBSET Names, RegistryInv(N), OneSale, KeysInv(N),
           [Next]_custody, [NoTakeDuringSale]_custody
    PROVE  KeysInv(N)'
<1>1. \A n \in Names : holder[n] = None /\ holder'[n] # None => ~Busy(n, Selling)
  BY DEF NoTakeDuringSale, custody
<1> QED  BY <1>1, KeyNext DEF KeysInv, RegistryInv

\* An account that has been handed over is there until the registry has entered the buyer.
StandsInv == \A n \in Names, c \in Chains : Does(c, {"handed"}, n) => account[n] # NoAccount

LEMMA StandsStart ==
    ASSUME Init
    PROVE  StandsInv
BY DEF Init, Idle, StandsInv, Does

LEMMA StandsNext ==
    ASSUME CustodyTypes, [Next]_custody, [NoDeleteDuringSale]_custody, StandsInv
    PROVE  StandsInv'
<1> SUFFICES ASSUME NEW n \in Names, NEW c \in Chains, Does(c, {"handed"}, n)'
             PROVE  account'[n] # NoAccount
  BY DEF StandsInv
<1>1. CASE Does(c, {"handed"}, n)
  <2>1. account[n] # NoAccount /\ Busy(n, Selling)
    BY <1>1 DEF StandsInv, Busy, Does, Selling
  <2> QED  BY <2>1 DEF NoDeleteDuringSale, custody
<1>2. CASE ~Does(c, {"handed"}, n)
  <2>1. CASE Uninvolved(n)
    BY <1>2, <2>1 DEF Uninvolved, Duties, Selling
  <2>2. ASSUME NEW d \in Chains, Beginning(d, n)
        PROVE  account'[n] # NoAccount
    <3>1. \A x \in Chains \ {d} : chain'[x] = chain[x]
      BY <2>2, BeginningFrame
    <3>2. chain'[d].does \in {"renting", "selling", "deleting", "exporting"}
      BY <2>2, Begun
      DEF Beginning, Take, BeginSale, BeginDelete, BeginExport, Duties, Selling, Exporting
    <3> QED  BY <1>2, <3>1, <3>2 DEF Does
  <2>3. ASSUME NEW d \in Chains, Continuing(d), chain[d].name = n
        PROVE  account'[n] # NoAccount
    <3>1. d = c
      BY <1>2, <2>3, ContinuingFrame DEF Does
    <3>2. HandOver(c)
      BY <1>2, <2>3, <3>1, Ended, GoneOn
      DEF Continuing, Found, HandOver, Sell, CallOff, Delete, AddKey, Resolve, Release,
          Does, Idle, Duties, Selling, Exporting
    <3> QED  BY <2>3, <3>1, <3>2 DEF HandOver, CustodyTypes, NoAccount
  <2> QED  BY <2>1, <2>2, <2>3, StepOnName
<1> QED  BY <1>1, <1>2

\* A buyer has the key of the account before the registry enters them for its name.
LEMMA KeyOfBuyer ==
    ASSUME NEW N \in SUBSET Names, KeysInv(N), StandsInv
    PROVE  HandedOver(N)
BY DEF HandedOver, KeysInv, KeyInv, StandsInv

\* If a name is in one sale at a time, is not taken anew during it, and its account is not
\* deleted then, the buyer's key is on the locker by the time the registry is to be told.
THEOREM BuyerHasKey ==
    ASSUME None \notin People, NEW N \in SUBSET Names
    PROVE  Spec /\ KeysLand(N) /\ []OneSale /\ TakenAfterSale /\ DeletedAfterSale
             => []HandedOver(N)
<1>1. Init => RegistryInv(N) /\ KeysInv(N) /\ StandsInv
  BY RegistryStart, KeysStart, StandsStart
<1>2. RegistryInv(N) /\ [Next]_custody /\ [\A n \in N : KeyLands(n)]_custody => RegistryInv(N)'
  BY RegistryNext
<1>3. /\ RegistryInv(N) /\ OneSale /\ KeysInv(N)
      /\ [Next]_custody /\ [NoTakeDuringSale]_custody
      => KeysInv(N)'
  BY KeysNext
<1>4. RegistryInv(N) /\ [Next]_custody /\ [NoDeleteDuringSale]_custody /\ StandsInv => StandsInv'
  BY StandsNext DEF RegistryInv, BaseInv, AccountInv
<1>5. KeysInv(N) /\ StandsInv => HandedOver(N)
  BY KeyOfBuyer
<1> QED
  BY <1>1, <1>2, <1>3, <1>4, <1>5, PTL DEF Spec, KeysLand, TakenAfterSale, DeletedAfterSale

\* With nothing under way for a name, the registry and the account agree on it.
LEMMA AgreedThen ==
    ASSUME NEW N \in SUBSET Names, RegistryInv(N), KeysInv(N)
    PROVE  Agreed(N)
<1> SUFFICES ASSUME NEW n \in N, ~Busy(n, Duties)
             PROVE  IF holder[n] = None THEN account[n].state \in {"Absent", "Exported"}
                    ELSE account[n] = [state |-> "Held", owner_key |-> holder[n]]
  BY DEF Agreed
<1>1. CustodyTypes /\ EntryInv(n) /\ ExportInv(n) /\ KeyInv(n)
  BY DEF RegistryInv, BaseInv, AccountInv, KeysInv
<1>2. \A duties \in SUBSET Duties : ~Busy(n, duties)
  BY DEF Busy, Does
<1>3. ~Busy(n, Releasing) /\ ~Busy(n, Exporting) /\ ~Busy(n, {"handed"})
  BY <1>2 DEF Releasing, Exporting, Duties, Selling
<1>4. account[n].state \in States
  BY <1>1 DEF CustodyTypes
<1>5. CASE holder[n] # None
  <2>1. account[n].state = "Held"
    BY <1>1, <1>3, <1>4, <1>5 DEF EntryInv, ExportInv, States
  <2>2. account[n].owner_key = holder[n]
    BY <1>1, <1>3, <1>5, <2>1 DEF KeyInv
  <2> QED  BY <1>1, <1>5, <2>1, <2>2 DEF CustodyTypes
<1> QED  BY <1>1, <1>3, <1>5 DEF EntryInv

\* Even if its account is deleted during a sale, holder and account agree on every name
\* with nothing under way, whatever has gone wrong for others.
THEOREM AgreedAtRest ==
    ASSUME None \notin People, NEW N \in SUBSET Names
    PROVE  Spec /\ KeysLand(N) /\ []OneSale /\ TakenAfterSale => []Agreed(N)
<1>1. Init => RegistryInv(N) /\ KeysInv(N)
  BY RegistryStart, KeysStart
<1>2. RegistryInv(N) /\ [Next]_custody /\ [\A n \in N : KeyLands(n)]_custody => RegistryInv(N)'
  BY RegistryNext
<1>3. /\ RegistryInv(N) /\ OneSale /\ KeysInv(N)
      /\ [Next]_custody /\ [NoTakeDuringSale]_custody
      => KeysInv(N)'
  BY KeysNext
<1>4. RegistryInv(N) /\ KeysInv(N) => Agreed(N)
  BY AgreedThen
<1> QED  BY <1>1, <1>2, <1>3, <1>4, PTL DEF Spec, KeysLand, TakenAfterSale

-----------------------------------------------------------------------------
(* An export.                                                              *)

\* Who is at "exported" has an account that was set free, and it stays free.
FreedInv(n) == Busy(n, {"exported"}) => account[n].state = "Exported"

LEMMA FreedNext ==
    ASSUME BaseInv, [Next]_custody, NEW n \in Names, EntryInv(n), FreedInv(n)
    PROVE  FreedInv(n)'
<1>0. CustodyTypes /\ ExportInv(n) /\ DeletionInv(n)
  BY DEF BaseInv, AccountInv
<1>1. account[n].state = "Exported" => account'[n] = account[n]
  BY FreedStays DEF BaseInv
<1>2. SUFFICES ASSUME NEW c \in Chains, Does(c, {"exported"}, n)', ~Does(c, {"exported"}, n)
               PROVE  account'[n].state = "Exported"
  BY <1>1 DEF FreedInv, Busy
<1>3. CASE Uninvolved(n)
  BY <1>2, <1>3 DEF Uninvolved, Duties
<1>4. ASSUME NEW d \in Chains, Beginning(d, n)
      PROVE  account'[n].state = "Exported"
  <2>1. \A x \in Chains \ {d} : chain'[x] = chain[x]
    BY <1>0, <1>4, BeginningFrame
  <2>2. chain'[d].does \in {"renting", "selling", "deleting", "exporting"}
    BY <1>0, <1>4, Begun
    DEF Beginning, Take, BeginSale, BeginDelete, BeginExport, Duties, Selling, Exporting
  <2> QED  BY <1>2, <2>1, <2>2 DEF Does
<1>5. ASSUME NEW d \in Chains, Continuing(d), chain[d].name = n
      PROVE  account'[n].state = "Exported"
  <2>1. d = c
    BY <1>0, <1>2, <1>5, ContinuingFrame DEF Does
  <2>2. Resolve(c) /\ account[n] # NoAccount
    BY <1>0, <1>2, <1>5, <2>1, Ended, GoneOn
    DEF Continuing, Found, HandOver, Sell, CallOff, Delete, AddKey, Resolve, Release,
        Does, Idle, Duties, Selling, Exporting
  <2>3. chain[c].does = "keyed"
    BY <1>5, <2>1, <2>2 DEF Resolve, EntryInv, Busy, Does
  <2> QED  BY <1>0, <1>5, <2>1, <2>2, <2>3 DEF Resolve, CustodyTypes
<1> QED  BY <1>0, <1>3, <1>4, <1>5, StepOnName

LEMMA FreeStart ==
    ASSUME NEW N \in SUBSET Names, Init
    PROVE  ExportedIsFree(N)
BY DEF Init, Idle, ExportedIsFree, Busy, Does

LEMMA FreeNext ==
    ASSUME NEW N \in SUBSET Names, RegistryInv(N), ExportedIsFree(N), [Next]_custody
    PROVE  ExportedIsFree(N)'
BY FreedNext DEF RegistryInv, ExportedIsFree, FreedInv

\* The registry releases an account as exported when the owner's key is on it.
THEOREM FreeWhenReleased ==
    ASSUME None \notin People, NEW N \in SUBSET Names
    PROVE  Spec /\ KeysLand(N) => []ExportedIsFree(N)
<1>1. Init => RegistryInv(N) /\ ExportedIsFree(N)
  BY RegistryStart, FreeStart
<1>2. RegistryInv(N) /\ [Next]_custody /\ [\A n \in N : KeyLands(n)]_custody => RegistryInv(N)'
  BY RegistryNext
<1>3. RegistryInv(N) /\ ExportedIsFree(N) /\ [Next]_custody => ExportedIsFree(N)'
  BY FreeNext
<1> QED  BY <1>1, <1>2, <1>3, PTL DEF Spec, KeysLand

-----------------------------------------------------------------------------
(* KeyMayFail.                                                             *)

\* If no key may fail where there is an account, none does.
LEMMA NoneFails ==
    ASSUME KeyMayFail = FALSE
    PROVE  Spec => KeysLand(Names)
<1>1. ASSUME CustodyTypes, [Next]_custody, NEW n \in Names,
             NEW c \in Chains, Does(c, {"exporting"}, n), chain'[c].does = "unkeyed"
      PROVE  account[n] = NoAccount
  <2>1. ~Uninvolved(n)
    <3>1. {"exporting"} \in SUBSET Duties /\ ~Does(c, {"exporting"}, n)'
      BY <1>1 DEF Does, Duties, Exporting
    <3> QED  BY <1>1, <3>1 DEF Uninvolved
  <2>2. ASSUME NEW d \in Chains, Beginning(d, n)
        PROVE  FALSE
    <3>1. chain[d] = Idle /\ \A x \in Chains \ {d} : chain'[x] = chain[x]
      BY <1>1, <2>2, BeginningFrame
    <3> QED  BY <1>1, <3>1 DEF Does, Idle
  <2>3. ASSUME NEW d \in Chains, Continuing(d), chain[d].name = n
        PROVE  account[n] = NoAccount
    <3>1. d = c
      BY <1>1, <2>3, ContinuingFrame DEF Does
    <3>2. AddKey(c)
      BY <1>1, <2>3, <3>1
      DEF Continuing, Found, HandOver, Sell, CallOff, Delete, Resolve, Release, Does
    <3>3. ~GoOn(c, "keyed")
      BY <1>1, GoneOn DEF Does, Duties, Exporting
    <3> QED  BY <1>1, <3>2, <3>3, KeyMayFail = FALSE DEF AddKey, Does
  <2> QED  BY <1>1, <2>1, <2>2, <2>3, StepOnName
<1>2. CustodyTypes /\ [Next]_custody => [\A n \in Names : KeyLands(n)]_custody
  BY <1>1 DEF KeyLands
<1>3. AccountInv => CustodyTypes
  BY DEF AccountInv
<1> QED  BY <1>2, <1>3, AccountInvHolds, PTL DEF Spec, KeysLand

===============================================================================
