------------------------------- MODULE Accounts -------------------------------
(***************************************************************************)
(* Customer accounts and what they own: services/user.py and               *)
(* services/account_merge.py.  A shopper is known by a phone (WhatsApp) or *)
(* an e-mail address (Google) until an admin folds one account into the    *)
(* other.  A merge reads both rows first and writes them last; requests    *)
(* of the two shoppers, and other merges, run meanwhile.                   *)
(***************************************************************************)
EXTENDS Integers, FiniteSets, Sequences, FiniteSetsExt

CONSTANTS
    MaxAccounts,    \* bound: rows of users
    Phones, Emails, \* an e-mail address stands for the Google identity behind it
    Nothing,        \* NULL
    Goods,          \* orders, addresses, conversations and reviews: rows that change owner
    Liked,          \* products on wishlists
    Visits, Merges, \* requests of shoppers and of admins under way
    MaxRows         \* bound: rows accounts have at one time

ASSUME AccountsAssumption ==
    MaxAccounts \in Nat /\ MaxRows \in Nat /\ Nothing \notin Phones \cup Emails

VARIABLES
    user,           \* User rows, in the order of their ids
    owner,          \* who owns a row of Goods; 0: not written yet
    wishes,         \* Wishlist rows <<account, product>>
    carts,          \* how many active carts each account has
    visit,          \* the account a shopper's request was authenticated for; 0: none
    opening,        \* for each account, requests that have found no cart and will insert one
    merge,          \* the rows a merge has read
    wanted,         \* history: what each account has put on its wishlist
    entangled,      \* history: accounts whose merge met a request or another merge
    rushed          \* history: accounts a cart was opened for when another was being opened

accountVars == << user, owner, wishes, carts, visit, opening, merge, wanted, entangled, rushed >>
cartVars == << carts, opening, rushed >>

Ids == 1 .. MaxAccounts
UserRow == [phone : Phones \cup {Nothing}, email : Emails \cup {Nothing}, into : 0 .. MaxAccounts]
NoMerge == [source |-> 0, target |-> 0, sourcePhone |-> Nothing, targetPhone |-> Nothing]
MergeOf == [source : 0 .. MaxAccounts, target : 0 .. MaxAccounts,
            sourcePhone : Phones \cup {Nothing}, targetPhone : Phones \cup {Nothing}]

\* Only a merge deletes an account, softly.
Alive(u) == u \in DOMAIN user /\ user[u].into = 0
HasPhone(ph) == {u \in DOMAIN user : user[u].phone = ph}
HasEmail(e) == {u \in DOMAIN user : user[u].email = e}

-----------------------------------------------------------------------------

NewUser(row) ==
    /\ Len(user) < MaxAccounts
    /\ user' = Append(user, row)
    /\ UNCHANGED << owner, wishes, cartVars, visit, merge, wanted, entangled >>

\* get_or_create_whatsapp_user, for a phone no account has.
WhatsAppUser(ph) ==
    /\ HasPhone(ph) = {}
    /\ NewUser([phone |-> ph, email |-> Nothing, into |-> 0])

\* google_login of an identity no account has.  The profile exchange_google_code
\* returns never holds a phone number, so the login itself merges nothing.
GoogleUser(e) ==
    /\ HasEmail(e) = {}
    /\ NewUser([phone |-> Nothing, email |-> e, into |-> 0])

\* update_profile: the phone must not be another account's.
SetPhone(u, ph) ==
    /\ Alive(u)
    /\ HasPhone(ph) \subseteq {u}
    /\ user' = [user EXCEPT ![u].phone = ph]
    /\ UNCHANGED << owner, wishes, cartVars, visit, merge, wanted, entangled >>

-----------------------------------------------------------------------------
(* A shopper's request: get_current_user, then one write and the commit.   *)

BeginVisit(v, u) ==
    /\ visit[v] = 0
    /\ Alive(u)
    /\ visit' = [visit EXCEPT ![v] = u]
    /\ UNCHANGED << user, owner, wishes, cartVars, merge, wanted, entangled >>

EndVisit(v) ==
    /\ visit[v] # 0
    /\ visit' = [visit EXCEPT ![v] = 0]

\* Rows that are there, or about to be inserted.
AccountRows == Cardinality({g \in Goods : owner[g] # 0}) + Cardinality(wanted)
            + MapThenSumSet(LAMBDA u : carts[u] + opening[u], Ids)

\* An order, an address, a conversation or a review is written.
Acquire(v, g) ==
    /\ EndVisit(v)
    /\ owner[g] = 0
    /\ AccountRows < MaxRows
    /\ owner' = [owner EXCEPT ![g] = visit[v]]
    /\ UNCHANGED << user, wishes, cartVars, merge, wanted, entangled >>

\* add_to_wishlist, which finds an entry that is there already.
AddWish(v, x) ==
    /\ EndVisit(v)
    /\ AccountRows < MaxRows
    /\ wishes' = wishes \cup {<< visit[v], x >>}
    /\ wanted' = wanted \cup {<< visit[v], x >>}
    /\ UNCHANGED << user, owner, cartVars, merge, entangled >>

\* The account that has taken an account's place.
Survivor[steps \in 0 .. MaxAccounts] ==
    [u \in Ids |-> IF steps = 0 \/ u \notin DOMAIN user \/ user[u].into = 0 THEN u
                   ELSE Survivor[steps - 1][user[u].into]]
Heir(u) == Survivor[MaxAccounts][u]

\* remove_from_wishlist.
RemoveWish(v, x) ==
    /\ EndVisit(v)
    /\ << visit[v], x >> \in wishes
    /\ wishes' = wishes \ {<< visit[v], x >>}
    /\ wanted' = {w \in wanted : Heir(w[1]) # visit[v] \/ w[2] # x}
    /\ UNCHANGED << user, owner, cartVars, merge, entangled >>

\* get_or_create_cart selects the active cart and returns it if there is one.
FindCart(v) ==
    /\ EndVisit(v)
    /\ carts[visit[v]] > 0
    /\ UNCHANGED << user, owner, wishes, cartVars, merge, wanted, entangled >>

FindNoCart(v) ==
    LET u == visit[v] IN
    /\ EndVisit(v)
    /\ carts[u] = 0
    /\ AccountRows < MaxRows
    /\ opening' = [opening EXCEPT ![u] = @ + 1]
    /\ UNCHANGED << user, owner, wishes, carts, rushed, merge, wanted, entangled >>

\* Otherwise it inserts one, and no constraint of the table refuses a second.
OpenCart(u) ==
    /\ opening[u] > 0
    /\ carts' = [carts EXCEPT ![u] = @ + 1]
    /\ opening' = [opening EXCEPT ![u] = @ - 1]
    /\ rushed' = rushed \cup (IF opening[u] > 1 THEN {u} ELSE {})
    /\ UNCHANGED << user, owner, wishes, visit, merge, wanted, entangled >>

-----------------------------------------------------------------------------
(* merge_accounts.                                                         *)

\* Accounts that are the same or merged already leave everything as it is.
BeginMerge(m, s, t) ==
    /\ merge[m].source = 0
    /\ s # t
    /\ Alive(s) /\ Alive(t)
    /\ merge' = [merge EXCEPT ![m] = [source |-> s, target |-> t, sourcePhone |-> user[s].phone,
                                      targetPhone |-> user[t].phone]]
    /\ UNCHANGED << user, owner, wishes, cartVars, visit, wanted, entangled >>

\* _absorb_identity: the survivor keeps the phone it has.
TakesPhone(d) == d.targetPhone = Nothing /\ d.sourcePhone # Nothing

\* The rows are updated in the order of their ids: a survivor with the lower id
\* takes the phone while the source's row still has it, and the unique index
\* refuses it.  So does a phone somebody has taken since the rows were read.
PhoneRefused(d) ==
    /\ TakesPhone(d)
    /\ HasPhone(d.sourcePhone) \ (IF d.source < d.target THEN {d.source} ELSE {}) # {}

MergedUsers(d) ==
    [user EXCEPT ![d.source].into = d.target,
                 ![d.source].phone = IF d.sourcePhone # Nothing THEN Nothing ELSE @,
                 ![d.source].email = Nothing,
                 ![d.target].phone = IF TakesPhone(d) THEN d.sourcePhone ELSE @]

\* _merge_wishlists: moved, or dropped where the target has the product.
MergedWishes(d) ==
    {<< IF w[1] = d.source THEN d.target ELSE w[1], w[2] >> : w \in wishes}

\* _merge_carts: the cart updated last wins, the others become merged.
MergedCarts(d) ==
    [carts EXCEPT ![d.target] = IF carts[d.source] + carts[d.target] > 0 THEN 1 ELSE 0,
                  ![d.source] = 0]

\* Mutant of MovedGoods: rows stay with the source.
MovedGoodsNot(d) == owner

\* The tables that simply change owner.
MovedGoods(d) == [g \in Goods |-> IF owner[g] = d.source THEN d.target ELSE owner[g]]

\* Accounts of a merge that overlaps d, and of requests of d's source.
Meets(m) ==
    LET d == merge[m]
        Pair(n) == {merge[n].source, merge[n].target} \ {0}
        others == {n \in Merges \ {m} : Pair(n) \cap Pair(m) # {}}
        busy == opening[d.source] > 0 \/ \E v \in Visits : visit[v] = d.source
    IN  (UNION {Pair(n) : n \in others}) \cup IF others # {} \/ busy THEN Pair(m) ELSE {}

FinishMerge(m) ==
    LET d == merge[m] IN
    /\ d.source # 0
    /\ ~ PhoneRefused(d)
    /\ user' = MergedUsers(d)
    /\ owner' = MovedGoods(d)
    /\ wishes' = MergedWishes(d)
    /\ carts' = MergedCarts(d)
    /\ merge' = [merge EXCEPT ![m] = NoMerge]
    /\ entangled' = entangled \cup Meets(m)
    /\ rushed' = rushed \cup (IF opening[d.target] > 0 THEN {d.target} ELSE {})
    /\ UNCHANGED << visit, opening, wanted >>

\* The unique index refuses the phone, or the request fails: nothing is written.
DropMerge(m) ==
    /\ merge[m].source # 0
    /\ merge' = [merge EXCEPT ![m] = NoMerge]
    /\ UNCHANGED << user, owner, wishes, cartVars, visit, wanted, entangled >>

AccountsInit ==
    /\ user = << >>
    /\ owner = [g \in Goods |-> 0]
    /\ wishes = {}
    /\ carts = [u \in Ids |-> 0]
    /\ visit = [v \in Visits |-> 0]
    /\ opening = [u \in Ids |-> 0]
    /\ merge = [m \in Merges |-> NoMerge]
    /\ wanted = {}
    /\ entangled = {}
    /\ rushed = {}

AccountsNext ==
    \/ \E ph \in Phones : WhatsAppUser(ph) \/ \E u \in DOMAIN user : SetPhone(u, ph)
    \/ \E e \in Emails : GoogleUser(e)
    \/ \E v \in Visits :
        \/ \E u \in DOMAIN user : BeginVisit(v, u)
        \/ \E g \in Goods : Acquire(v, g)
        \/ \E x \in Liked : AddWish(v, x) \/ RemoveWish(v, x)
        \/ FindCart(v)
        \/ FindNoCart(v)
    \/ \E u \in DOMAIN user : OpenCart(u)
    \/ \E m \in Merges :
        \/ \E s, t \in DOMAIN user : BeginMerge(m, s, t)
        \/ FinishMerge(m)
        \/ DropMerge(m)

AccountsSpec == AccountsInit /\ [][AccountsNext]_accountVars

-----------------------------------------------------------------------------
(* Properties.                                                             *)

AccountsTypeOK ==
    /\ user \in Seq(UserRow)
    /\ owner \in [Goods -> 0 .. MaxAccounts]
    /\ wishes \subseteq Ids \X Liked
    /\ carts \in [Ids -> Nat]
    /\ visit \in [Visits -> 0 .. MaxAccounts]
    /\ opening \in [Ids -> Nat]
    /\ merge \in [Merges -> MergeOf]
    /\ wanted \subseteq Ids \X Liked
    /\ entangled \subseteq Ids
    /\ rushed \subseteq Ids

\* Neither orders, addresses, conversations and reviews nor the cart and the wishlist
\* are lost with an account, whichever accounts were merged in what order.
\* Unless its merge met a request or another merge, what an absorbed account owned
\* of these belongs to a live account, also after that one has been absorbed in its
\* turn; a shopper has one active cart, unless a request opened one while another
\* request, or a merge, did (get_or_create_cart); and whatever a shopper has put on
\* the wishlist of any of their accounts is on the list of the account that has
\* taken its place, and nothing else is.  Coupon redemptions are not among these:
\* a merge leaves coupon_usage.user_id as it is.
OwnersAreAlive ==
    /\ \A g \in Goods : owner[g] # 0 => Alive(owner[g]) \/ owner[g] \in entangled
    /\ \A u \in DOMAIN user : carts[u] # 0 => Alive(u) \/ u \in entangled
OneActiveCart == \A u \in Ids : carts[u] > 1 => u \in entangled \cup rushed
WishesSurvive ==
    entangled = {} => {<< Heir(w[1]), w[2] >> : w \in wanted} = wishes
MergeLosesNothing == OwnersAreAlive /\ OneActiveCart /\ WishesSurvive
=============================================================================
