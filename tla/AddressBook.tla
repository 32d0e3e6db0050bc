----------------------------- MODULE AddressBook -----------------------------
(***************************************************************************)
(* Delivery addresses and the one checkout falls back to                   *)
(* (services/user.py).  Every operation reads the committed rows, writes   *)
(* its own and commits later.  No constraint of the database keeps the     *)
(* default unique: the operations do, and a merge of accounts moves        *)
(* addresses wholesale (services/account_merge.py).                        *)
(***************************************************************************)
EXTENDS Integers, FiniteSets, Sequences

CONSTANTS
    Dwellers,       \* accounts
    MaxAddresses,   \* bound: rows of addresses
    Edits           \* requests under way

ASSUME AddressesAssumption == MaxAddresses \in Nat

VARIABLES
    address,        \* Address rows, in the order of their ids
    edit,           \* what each request is about to write
    absorbed,       \* accounts merged into another
    unset,          \* history: accounts that had their default taken off by hand
    mixed,          \* history: accounts whose default came to be two by a merge
    crowded         \* history: accounts two requests have worked on at once

addressVars == << address, edit, absorbed, unset, mixed, crowded >>

AddressRow == [of : Dwellers, default : BOOLEAN, deleted : BOOLEAN]

\* list_addresses
List(u) == {a \in DOMAIN address : address[a].of = u /\ ~ address[a].deleted}
Defaults(u) == {a \in List(u) : address[a].default}

\* list_addresses()[0] of those in s: a default first, then the newest.
Foremost(s) ==
    LET first == IF \E a \in s : address[a].default THEN {a \in s : address[a].default} ELSE s
    IN  {a \in first : \A b \in first : b <= a}

NoEdit == [of |-> {}, clear |-> {}, mark |-> {}, drop |-> {}, new |-> {}]

-----------------------------------------------------------------------------

Start(e, u, clear, mark, drop, new) ==
    /\ edit[e] = NoEdit
    /\ u \notin absorbed
    /\ edit' = [edit EXCEPT ![e] = [of |-> {u}, clear |-> clear, mark |-> mark, drop |-> drop,
                                    new |-> new]]
    /\ crowded' = IF \E f \in Edits : edit[f].of = {u} THEN crowded \cup {u} ELSE crowded

\* Mutant of CreateAddress: the other defaults stay.
CreateAddressBeside(e, u) ==
    /\ \E wanted \in BOOLEAN :
        LET default == wanted \/ List(u) = {} IN
        Start(e, u, {}, {}, {}, {[of |-> u, default |-> default, deleted |-> FALSE]})
    /\ UNCHANGED << address, absorbed, unset, mixed >>

\* create_address: the first one is always the default.
CreateAddress(e, u) ==
    /\ \E wanted \in BOOLEAN :
        LET default == wanted \/ List(u) = {} IN
        Start(e, u, IF default THEN Defaults(u) ELSE {}, {}, {},
              {[of |-> u, default |-> default, deleted |-> FALSE]})
    /\ UNCHANGED << address, absorbed, unset, mixed >>

\* update_address, which may set the flag, leave it or take it off.
UpdateAddress(e, u, a) ==
    /\ a \in List(u)
    /\ \E flag \in {"true", "false", "absent"} :
        LET default == flag = "true" \/ (flag = "absent" /\ address[a].default) IN
        /\ Start(e, u, IF default THEN Defaults(u) \ {a}
                       ELSE IF flag = "false" THEN {a} ELSE {},
                 IF flag = "true" THEN {a} ELSE {}, {}, {})
        /\ unset' = IF flag = "false" THEN unset \cup {u} ELSE unset
    /\ UNCHANGED << address, absorbed, mixed >>

\* set_default_address
SetDefaultAddress(e, u, a) ==
    /\ a \in List(u)
    /\ Start(e, u, Defaults(u) \ {a}, {a}, {}, {})
    /\ UNCHANGED << address, absorbed, unset, mixed >>

\* delete_address promotes a surviving address when the default goes.
DeleteAddress(e, u, a) ==
    /\ a \in List(u)
    /\ Start(e, u, {a}, IF address[a].default THEN Foremost(List(u) \ {a}) ELSE {}, {a}, {})
    /\ UNCHANGED << address, absorbed, unset, mixed >>

\* The request commits.
CommitEdit(e) ==
    LET d == edit[e]
        rows == [a \in DOMAIN address |->
                    [address[a] EXCEPT !.default = (@ /\ a \notin d.clear) \/ a \in d.mark,
                                       !.deleted = @ \/ a \in d.drop]]
    IN  /\ d # NoEdit
        /\ Len(address) + Cardinality(d.new) <= MaxAddresses
        /\ \/ d.new = {} /\ address' = rows
           \/ \E row \in d.new : address' = Append(rows, row)
        /\ edit' = [edit EXCEPT ![e] = NoEdit]
        /\ UNCHANGED << absorbed, unset, mixed, crowded >>

DropEdit(e) ==
    /\ edit[e] # NoEdit
    /\ edit' = [edit EXCEPT ![e] = NoEdit]
    /\ UNCHANGED << address, absorbed, unset, mixed, crowded >>

\* merge_accounts: the addresses of s, deleted ones included, become t's.
MoveAddresses(s, t) ==
    /\ s # t
    /\ {s, t} \cap absorbed = {}
    /\ absorbed' = absorbed \cup {s}
    /\ address' = [a \in DOMAIN address |->
                    IF address[a].of = s THEN [address[a] EXCEPT !.of = t] ELSE address[a]]
    /\ mixed' = IF (List(s) # {} /\ List(t) # {}) \/ s \in mixed THEN mixed \cup {t} ELSE mixed
    /\ unset' = IF s \in unset THEN unset \cup {t} ELSE unset
    /\ crowded' = crowded \cup
         IF s \in crowded \/ \E e \in Edits : edit[e].of \subseteq {s, t} /\ edit[e] # NoEdit
         THEN {s, t} ELSE {}
    /\ UNCHANGED edit

AddressesInit ==
    /\ address = << >>
    /\ edit = [e \in Edits |-> NoEdit]
    /\ absorbed = {}
    /\ unset = {}
    /\ mixed = {}
    /\ crowded = {}

AddressesNext ==
    \/ \E e \in Edits :
        \/ \E u \in Dwellers :
            \/ CreateAddress(e, u)
            \/ \E a \in DOMAIN address :
                \/ UpdateAddress(e, u, a)
                \/ SetDefaultAddress(e, u, a)
                \/ DeleteAddress(e, u, a)
        \/ CommitEdit(e)
        \/ DropEdit(e)
    \/ \E s, t \in Dwellers : MoveAddresses(s, t)

AddressesSpec == AddressesInit /\ [][AddressesNext]_addressVars

-----------------------------------------------------------------------------
(* Properties.                                                             *)

AddressesTypeOK ==
    /\ address \in Seq(AddressRow)
    /\ absorbed \subseteq Dwellers
    /\ unset \subseteq Dwellers
    /\ mixed \subseteq Dwellers
    /\ crowded \subseteq Dwellers

\* One request at a time, an account that has never received another one's
\* addresses beside its own has exactly one default address as soon as it has
\* any, unless the shopper took the flag off: checkout always has a default.
OneDefaultAddress ==
    \A u \in Dwellers \ (mixed \cup crowded) :
        /\ Cardinality(Defaults(u)) <= 1
        /\ List(u) # {} /\ u \notin unset => Defaults(u) # {}
=============================================================================
