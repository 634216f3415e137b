------------------------------ MODULE AtomicSale ------------------------------
(***************************************************************************)
(* What the marketplace promises the parties of a sale: the deposit goes   *)
(* into escrow under terms that stand for the name; then, in one step,     *)
(* either the name changes hands and the seller, the buyer and the         *)
(* registry are paid as the terms say, or the buyer has all of it back.    *)
(* While a deposit is in escrow the terms of the name stand still, unless  *)
(* the name leaves.  What else the registry does touches no deal.          *)
(***************************************************************************)
EXTENDS Naturals, FiniteSets

CONSTANTS Names, People, Slots, Amounts, None

VARIABLES
    owner,    \* the owner of each name, or None
    terms,    \* the terms it is for sale under, [buyer, price]; terms without a
              \* buyer are a listing, open to anyone
    escrow,   \* the deal each slot holds a deposit for, or NoDeal
    credit,   \* what each person can claim
    revenue

sale == <<owner, terms, escrow, credit, revenue>>

NoDeal == [name |-> None, buyer |-> None, price |-> 0, paid |-> 0]

Init ==
    /\ owner \in [Names -> People \cup {None}]
    /\ terms = [n \in Names |-> {}]
    /\ escrow = [s \in Slots |-> NoDeal]
    /\ credit = [a \in People |-> 0]
    /\ revenue = 0

Idle(n) == \A s \in Slots : escrow[s].name # n

Pays(ledger, a, amount) == [ledger EXCEPT ![a] = @ + amount]

\* At most the ledger of a changes.
Books(a) == credit' = [credit EXCEPT ![a] = credit'[a]]

\* The owner sets or withdraws terms.
SetTerms(n) ==
    /\ owner[n] # None
    /\ Idle(n)
    /\ terms' = [terms EXCEPT ![n] = terms'[n]]
    /\ UNCHANGED <<owner, escrow, credit, revenue>>

Deposit(s, n, buyer, term, paid) ==
    /\ escrow[s] = NoDeal
    /\ owner[n] # None
    /\ Idle(n)
    /\ term \in terms[n]
    /\ term.buyer \in {buyer, None}
    /\ paid >= term.price
    /\ escrow' = [escrow EXCEPT ![s] =
                    [name |-> n, buyer |-> buyer, price |-> term.price, paid |-> paid]]
    /\ UNCHANGED <<owner, terms, credit, revenue>>

\* The registry keeps a share of the price, at most all of it.
Settle(s) ==
    LET deal == escrow[s]
        n == deal.name
        share == revenue' - revenue
    IN  /\ n # None
        /\ owner[n] # None
        /\ \E term \in terms[n] :
             term.buyer \in {deal.buyer, None} /\ term.price = deal.price
        /\ share \in 0 .. deal.price
        /\ credit' = Pays(Pays(credit, owner[n], deal.price - share),
                          deal.buyer, deal.paid - deal.price)
        /\ owner' = [owner EXCEPT ![n] = deal.buyer]
        /\ terms' = [terms EXCEPT ![n] = {}]
        /\ escrow' = [escrow EXCEPT ![s] = NoDeal]

Refund(s) ==
    /\ escrow[s] # NoDeal
    /\ credit' = Pays(credit, escrow[s].buyer, escrow[s].paid)
    /\ escrow' = [escrow EXCEPT ![s] = NoDeal]
    /\ UNCHANGED <<owner, terms, revenue>>

\* A free name is taken, when nothing is left of the last sale of it.
Enter(n, p) ==
    /\ owner[n] = None
    /\ Idle(n)
    /\ owner' = [owner EXCEPT ![n] = p]
    /\ UNCHANGED <<terms, escrow, credit, revenue>>

\* A name may leave the registry at any time, a sale that is under way
\* notwithstanding.  Its terms go with it, but for a name that leaves because it
\* could not be created; then its payer is credited.
Leave(n, a) ==
    /\ owner' = [owner EXCEPT ![n] = None]
    /\ \/ terms' = [terms EXCEPT ![n] = {}] /\ UNCHANGED credit
       \/ Books(a) /\ credit'[a] >= credit[a] /\ UNCHANGED terms
    /\ UNCHANGED <<escrow, revenue>>

\* Rents, claims and withdrawals.
Elsewhere(a) == Books(a) /\ UNCHANGED <<owner, terms, escrow>>

Next ==
    \/ \E n \in Names : SetTerms(n) \/ \E a \in People : Enter(n, a) \/ Leave(n, a)
    \/ \E s \in Slots, n \in Names, buyer \in People, paid \in Amounts :
          \E term \in terms[n] : Deposit(s, n, buyer, term, paid)
    \/ \E s \in Slots : Settle(s) \/ Refund(s)
    \/ \E a \in People : Elsewhere(a)

Spec == Init /\ [][Next]_sale
==============================================================================
