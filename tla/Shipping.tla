------------------------------- MODULE Shipping -------------------------------
(***************************************************************************)
(* Where the shop delivers and what that costs (services/shipping.py):     *)
(* admins keep rate cards per zone and weight and upload the pincodes that *)
(* are served; carts and checkouts ask for a quote.  Money is in paise.    *)
(***************************************************************************)
EXTENDS Integers, FiniteSets, FiniteSetsExt

CONSTANTS
    Cards,          \* ids of rate cards
    CardValues,     \* what an admin may put on one
    Pincodes,
    Zones, DefaultZone,
    NoCard, NoPincode, NoQuote, NoAmount,
    Parcels         \* what is asked for: [grams, value]

CardRow == [zone : Zones, min : Nat, max : Nat, base : Nat, perKg : Nat,
            freeAbove : Nat \cup {NoAmount}, active : BOOLEAN]
PincodeRow == [zone : Zones, active : BOOLEAN]

ASSUME ShippingAssumption ==
    /\ CardValues \subseteq CardRow
    /\ DefaultZone \in Zones
    /\ NoPincode \notin PincodeRow
    /\ Parcels \subseteq [grams : Nat, value : Nat]

VARIABLES
    card,           \* ShippingConfig rows
    served,         \* ServiceablePincode rows: zone and active
    quote           \* the last quote, and for which pincode

shippingVars == << card, served, quote >>

Rows(table, none) == {k \in DOMAIN table : table[k] # none}
Active == {p \in Rows(served, NoPincode) : served[p].active}

-----------------------------------------------------------------------------

\* _pincode_table_is_empty, lookup_pincode: rows that are not active do not count.
IsServiceable(p) == Active = {} \/ p \in Active
ZoneOf(p) == IF p \in Active THEN served[p].zone ELSE DefaultZone

\* _find_rate: the cheapest base among the active cards of the zone that have the
\* weight, then those of the default zone; among equals the database chooses.
Fitting(zone, grams) ==
    {c \in Rows(card, NoCard) :
        /\ card[c].zone = zone /\ card[c].active
        /\ card[c].min <= grams /\ grams <= card[c].max}
Cheapest(cards) == {c \in cards : \A d \in cards : card[c].base <= card[d].base}
FindRate(zone, grams) ==
    IF Fitting(zone, grams) # {} THEN Cheapest(Fitting(zone, grams))
    ELSE Cheapest(Fitting(DefaultZone, grams))

\* A cost per kilogram, quantized by the context's ROUND_HALF_EVEN.
HalfEven(a, b) ==
    LET floor == a \div b
        twice == 2 * (a % b)
    IN  IF twice > b \/ (twice = b /\ floor % 2 = 1) THEN floor + 1 ELSE floor

\* calculate_shipping: no card means free.
CostBy(c, parcel) ==
    IF card[c].freeAbove # NoAmount /\ parcel.value >= card[c].freeAbove THEN 0
    ELSE card[c].base + HalfEven(card[c].perKg * parcel.grams, 1000)
CalculateShipping(p, parcel) ==
    LET cards == FindRate(ZoneOf(p), parcel.grams)
    IN  CASE ~ IsServiceable(p) -> {[serviceable |-> FALSE, cost |-> 0]}
          [] cards = {} -> {[serviceable |-> TRUE, cost |-> 0]}
          [] OTHER -> {[serviceable |-> TRUE, cost |-> CostBy(c, parcel)] : c \in cards}

-----------------------------------------------------------------------------

\* price_cart, the pincode check of the store and a checkout ask for a quote.
AskQuote(p, parcel) ==
    /\ quote' \in {[pincode |-> p, serviceable |-> s.serviceable, cost |-> s.cost] :
                      s \in CalculateShipping(p, parcel)}
    /\ UNCHANGED << card, served >>

\* create_shipping_config, update_shipping_config: the bracket must not be empty.
CreateCard(c, v) ==
    /\ card[c] = NoCard /\ v.min < v.max
    /\ card' = [card EXCEPT ![c] = v]
    /\ quote' = NoQuote
    /\ UNCHANGED served
UpdateCard(c, v) ==
    /\ card[c] # NoCard /\ v.min < v.max
    /\ card' = [card EXCEPT ![c] = v]
    /\ quote' = NoQuote
    /\ UNCHANGED served

\* Mutant of Uploaded: an uploaded pincode that has a row gets its zone only.
UploadedZones(entries, replace) ==
    [p \in Pincodes |->
        CASE p \in DOMAIN entries /\ served[p] = NoPincode -> [zone |-> entries[p], active |-> TRUE]
          [] p \in DOMAIN entries /\ served[p] # NoPincode ->
                [zone |-> entries[p], active |-> served[p].active /\ ~ replace]
          [] p \notin DOMAIN entries /\ replace /\ served[p] # NoPincode -> [served[p] EXCEPT !.active = FALSE]
          [] OTHER -> served[p]]

\* upload_pincodes: rows are made or brought back to life; a replacing upload
\* first puts every row to sleep.
Uploaded(entries, replace) ==
    [p \in Pincodes |->
        CASE p \in DOMAIN entries -> [zone |-> entries[p], active |-> TRUE]
          [] p \notin DOMAIN entries /\ replace /\ served[p] # NoPincode -> [served[p] EXCEPT !.active = FALSE]
          [] OTHER -> served[p]]

\* A request names at least one pincode.
UploadPincodes(entries, replace) ==
    /\ DOMAIN entries # {}
    /\ served' = Uploaded(entries, replace)
    /\ quote' = NoQuote
    /\ UNCHANGED card

ShippingInit ==
    /\ card = [c \in Cards |-> NoCard]
    /\ served = [p \in Pincodes |-> NoPincode]
    /\ quote = NoQuote

ShippingNext ==
    \/ \E p \in Pincodes, parcel \in Parcels : AskQuote(p, parcel)
    \/ \E c \in Cards, v \in CardValues : CreateCard(c, v) \/ UpdateCard(c, v)
    \/ \E S \in SUBSET Pincodes, replace \in BOOLEAN :
        \E entries \in [S -> Zones] : UploadPincodes(entries, replace)

ShippingSpec == ShippingInit /\ [][ShippingNext]_shippingVars

-----------------------------------------------------------------------------
(* Properties.                                                             *)

ShippingTypeOK ==
    /\ card \in [Cards -> CardValues \cup {NoCard}]
    /\ served \in [Pincodes -> PincodeRow \cup {NoPincode}]
    /\ quote # NoQuote => quote.cost \in Nat

\* An empty table of active pincodes means that the shop delivers everywhere.
\* Once it has been restricted no upload, replacing or not, opens it up again.
StaysRestricted == [][Active # {} => Active' # {}]_shippingVars
=============================================================================
