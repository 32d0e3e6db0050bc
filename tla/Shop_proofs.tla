------------------------------ MODULE Shop_proofs ------------------------------
(* Proofs about the catalogue's cache (Storefront), its copy at Meta          *)
(* (CatalogSync), the delivery area (Shipping), the assistant's turns         *)
(* (Assistant), its circuit breaker (Breaker) and its memory (Memory).        *)
EXTENDS Storefront, CatalogSync, Shipping, Assistant, Breaker, Memory, Induction

-----------------------------------------------------------------------------
(* Shipping.                                                                *)

\* Once the delivery area is restricted it stays so, whatever admins upload.
THEOREM StaysClosed == ShippingSpec => StaysRestricted
<1>1. ShippingInit => DOMAIN served = Pincodes
  BY DEF ShippingInit
<1>2. DOMAIN served = Pincodes /\ [ShippingNext]_shippingVars
        => (DOMAIN served = Pincodes)' /\ (Active # {} => Active' # {})
  <2> SUFFICES ASSUME DOMAIN served = Pincodes, [ShippingNext]_shippingVars
               PROVE  (DOMAIN served = Pincodes)' /\ (Active # {} => Active' # {})
    OBVIOUS
  <2>1. CASE UNCHANGED served
    BY <2>1 DEF Active, Rows
  <2>2. ASSUME NEW S \in SUBSET Pincodes, NEW replace \in BOOLEAN,
               NEW entries \in [S -> Zones], UploadPincodes(entries, replace)
        PROVE  (DOMAIN served = Pincodes)' /\ Active' # {}
    <3>1. DOMAIN served' = Pincodes
      BY <2>2 DEF UploadPincodes, Uploaded
    <3>2. PICK p \in S : TRUE
      BY <2>2 DEF UploadPincodes
    <3>3. served'[p] = [zone |-> entries[p], active |-> TRUE]
      BY <2>2, <3>2 DEF UploadPincodes, Uploaded
    <3>4. served'[p] # NoPincode
      <4>1. entries[p] \in Zones
        BY <3>2
      <4>2. [zone |-> entries[p], active |-> TRUE] \in PincodeRow
        BY <4>1 DEF PincodeRow
      <4>q. QED BY <3>3, <4>2, ShippingAssumption
    <3>5. p \in Active'
      BY <3>1, <3>2, <3>3, <3>4 DEF Active, Rows
    <3>q. QED BY <3>1, <3>5
  <2>3. CASE ShippingNext
    BY <2>1, <2>2, <2>3 DEF ShippingNext, AskQuote, CreateCard, UpdateCard
  <2>q. QED BY <2>1, <2>3 DEF shippingVars
<1>3. DOMAIN served = Pincodes /\ [ShippingNext]_shippingVars
        => [Active # {} => Active' # {}]_shippingVars
  BY <1>2
<1>q. QED BY <1>1, <1>2, <1>3, PTL DEF ShippingSpec, StaysRestricted

LEMMA HalfEvenNatural ==
    ASSUME NEW x \in Nat
    PROVE  HalfEven(x, 1000) \in Nat
<1>1. x \div 1000 \in Nat
  BY SMT
<1>. QED
  BY <1>1, SMT DEF HalfEven

\* Cards, pincodes and quotes: a quote is an amount, whatever the admins have
\* entered and whichever of several equal cards the database picks.
THEOREM ShippingTyped == ShippingSpec => []ShippingTypeOK
<1>1. ShippingInit => ShippingTypeOK
  BY DEF ShippingInit, ShippingTypeOK
<1>2. ShippingTypeOK /\ [ShippingNext]_shippingVars => ShippingTypeOK'
  <2>. SUFFICES ASSUME ShippingTypeOK, [ShippingNext]_shippingVars PROVE ShippingTypeOK'
    OBVIOUS
  <2>0. /\ card \in [Cards -> CardValues \cup {NoCard}]
        /\ served \in [Pincodes -> PincodeRow \cup {NoPincode}]
        /\ quote # NoQuote => quote.cost \in Nat
    BY DEF ShippingTypeOK
  <2>1. ASSUME NEW p \in Pincodes, NEW parcel \in Parcels, AskQuote(p, parcel)
        PROVE  ShippingTypeOK'
    <3>1. PICK s \in CalculateShipping(p, parcel) :
              quote' = [pincode |-> p, serviceable |-> s.serviceable, cost |-> s.cost]
      BY <2>1, Zenon DEF AskQuote
    <3>2. s.cost \in Nat
      <4>. DEFINE cards == FindRate(ZoneOf(p), parcel.grams)
      <4>1. cards \subseteq Rows(card, NoCard)
        BY DEF FindRate, Cheapest, Fitting
      <4>2. \A c \in cards : card[c] \in CardRow
        BY <2>0, <4>1, ShippingAssumption DEF Rows, ShippingAssumption
      <4>3. parcel.grams \in Nat /\ parcel.value \in Nat
        BY ShippingAssumption
      <4>. HIDE DEF cards
      <4>4. ASSUME NEW c \in cards PROVE CostBy(c, parcel) \in Nat
        <5>1. card[c].base \in Nat /\ card[c].perKg \in Nat
          BY <4>2 DEF CardRow
        <5>2. \A u, v \in Nat : u * v \in Nat /\ u + v \in Nat
          OBVIOUS
        <5>3. card[c].perKg * parcel.grams \in Nat
          BY ONLY <4>3, <5>1, <5>2
        <5>4. HalfEven(card[c].perKg * parcel.grams, 1000) \in Nat
          BY ONLY <5>3, HalfEvenNatural
        <5>5. card[c].base + HalfEven(card[c].perKg * parcel.grams, 1000) \in Nat
          BY ONLY <5>1, <5>2, <5>4
        <5>. QED
          BY <5>5, Zenon DEF CostBy
      <4>5. \/ s = [serviceable |-> FALSE, cost |-> 0]
            \/ s = [serviceable |-> TRUE, cost |-> 0]
            \/ \E c \in cards : s = [serviceable |-> TRUE, cost |-> CostBy(c, parcel)]
        BY DEF CalculateShipping, cards
      <4>. QED
        BY <4>4, <4>5
    <3>. QED
      BY <2>0, <2>1, <3>1, <3>2 DEF AskQuote, ShippingTypeOK
  <2>2. ASSUME NEW c \in Cards, NEW v \in CardValues, CreateCard(c, v) \/ UpdateCard(c, v)
        PROVE  ShippingTypeOK'
    BY <2>0, <2>2 DEF CreateCard, UpdateCard, ShippingTypeOK
  <2>3. ASSUME NEW S \in SUBSET Pincodes, NEW replace \in BOOLEAN, NEW entries \in [S -> Zones],
               UploadPincodes(entries, replace)
        PROVE  ShippingTypeOK'
    <3>1. Uploaded(entries, replace) \in [Pincodes -> PincodeRow \cup {NoPincode}]
      <4>1. ASSUME NEW p \in Pincodes
            PROVE  Uploaded(entries, replace)[p] \in PincodeRow \cup {NoPincode}
        <5>1. CASE p \in S
          BY <5>1 DEF Uploaded, PincodeRow
        <5>2. CASE p \notin S /\ replace /\ served[p] # NoPincode
          <6>1. served[p] \in PincodeRow
            BY <2>0, <5>2
          <6>2. [served[p] EXCEPT !.active = FALSE] \in PincodeRow
            BY <6>1 DEF PincodeRow
          <6>. QED
            BY <5>2, <6>2 DEF Uploaded
        <5>3. CASE p \notin S /\ ~ (replace /\ served[p] # NoPincode)
          BY <2>0, <5>3 DEF Uploaded
        <5>. QED
          BY <5>1, <5>2, <5>3
      <4>. QED
        BY <4>1 DEF Uploaded
    <3>. QED
      BY <2>0, <2>3, <3>1 DEF UploadPincodes, ShippingTypeOK
  <2>4. CASE UNCHANGED shippingVars
    BY <2>0, <2>4 DEF shippingVars, ShippingTypeOK
  <2>. QED
    BY <2>1, <2>2, <2>3, <2>4, Zenon DEF ShippingNext
<1>. QED
  BY <1>1, <1>2, PTL DEF ShippingSpec

-----------------------------------------------------------------------------
(* Storefront.                                                              *)

\* A fill is for a key, and remembers whether its key was changed meanwhile.
FillShape(r) ==
    reader[r].pc = "filling" =>
        /\ reader[r] = [pc |-> "filling", key |-> reader[r].key,
                        seen |-> reader[r].seen, late |-> reader[r].late]
        /\ reader[r].key \in Keys
        /\ reader[r].late \in BOOLEAN

\* A fill that was not outdated has seen what the database holds.
FreshFills ==
    \A r \in Readers : reader[r].pc = "filling" /\ ~ reader[r].late =>
        reader[r].seen = Current(reader[r].key)

\* While a change of a key is on its way, a copy of the key is under suspicion.
WatchedCopies ==
    \A w \in Writers : \A k \in Pending(w) : copy[k] = Absent \/ k \in suspect

CacheInv ==
    /\ DOMAIN copy = Keys
    /\ DOMAIN writer = Writers
    /\ DOMAIN reader = Readers
    /\ \A r \in Readers : FillShape(r)
    /\ FreshFills
    /\ WatchedCopies
    /\ CopiesAreCurrent

LEMMA DropPreserves ==
    ASSUME CacheInv, NEW keys \in SUBSET Keys, Drop(keys),
           UNCHANGED << revision, review, reader >>,
           DOMAIN writer' = Writers,
           NEW w \in Writers,
           \A v \in Writers \ {w} : writer'[v] = writer[v],
           Pending(w)' \subseteq keys
    PROVE  CacheInv'
<1>1. /\ DOMAIN copy' = Keys
      /\ \A k \in Keys : copy'[k] = Absent \/ copy'[k] = copy[k]
      /\ \A k \in Keys \ keys : copy'[k] = copy[k] /\ (k \in suspect' <=> k \in suspect)
      /\ \A k \in keys : copy'[k] = Absent \/ k \in suspect'
  BY DEF Drop, CacheInv
<1>2. \A k : Current(k)' = Current(k)
  BY DEF Current, Rated
<1>3. (\A r \in Readers : FillShape(r))' /\ FreshFills'
  BY <1>2 DEF CacheInv, FillShape, FreshFills
<1>4. \A v \in Writers \ {w} : Pending(v)' = Pending(v)
  BY DEF Pending
<1>5. \A v \in Writers : Pending(v) \subseteq Keys
  BY DEF Pending, Keys
<1>6. WatchedCopies'
  BY <1>1, <1>4, <1>5 DEF WatchedCopies, CacheInv
<1>7. CopiesAreCurrent'
  BY <1>1, <1>2 DEF CopiesAreCurrent, CacheInv
<1>q. QED BY <1>1, <1>3, <1>6, <1>7 DEF CacheInv

LEMMA CommitPreserves ==
    ASSUME CacheInv, NEW w \in Writers, CommitWrite(w)
    PROVE  CacheInv'
<1>1. /\ copy' = copy /\ suspect' = suspect
      /\ DOMAIN writer' = Writers /\ DOMAIN reader' = Readers
      /\ writer'[w] = Idle
      /\ \A v \in Writers \ {w} : writer'[v] = writer[v]
  BY DEF CommitWrite, Outdate, CacheInv
<1>2. \A k \in Keys \ Pending(w) : Current(k)' = Current(k)
  BY DEF CommitWrite, Pending, Current, Rated, Keys
<1>3. \A v \in Writers : Pending(v)' \subseteq Pending(v)
  BY <1>1 DEF Pending, Idle
<1>4. WatchedCopies'
  BY <1>1, <1>3 DEF WatchedCopies, CacheInv
<1>5. CopiesAreCurrent'
  BY <1>1, <1>2 DEF CopiesAreCurrent, WatchedCopies, CacheInv
<1>6. ASSUME NEW r \in Readers
      PROVE  FillShape(r)' /\ (reader[r].pc = "filling" /\ ~ reader[r].late
                                => reader[r].seen = Current(reader[r].key))'
  <2>1. CASE reader[r].pc = "filling" /\ reader[r].key \in Pending(w)
    <3>1. reader'[r] = [reader[r] EXCEPT !.late = TRUE]
      BY <2>1 DEF CommitWrite, Outdate
    <3>2. FillShape(r)
      BY DEF CacheInv
    <3>3. reader'[r] = [pc |-> "filling", key |-> reader[r].key,
                        seen |-> reader[r].seen, late |-> TRUE]
      BY <2>1, <3>1, <3>2 DEF FillShape
    <3>q. QED BY <2>1, <3>2, <3>3 DEF FillShape
  <2>2. CASE ~ (reader[r].pc = "filling" /\ reader[r].key \in Pending(w))
    <3>1. reader'[r] = reader[r]
      BY <2>2 DEF CommitWrite, Outdate
    <3>2. FillShape(r)'
      BY <3>1 DEF FillShape, CacheInv
    <3>3. ASSUME reader[r].pc = "filling", ~ reader[r].late
          PROVE  reader[r].seen = Current(reader[r].key)'
      <4>1. reader[r].key \in Keys \ Pending(w)
        BY <2>2, <3>3 DEF FillShape, CacheInv
      <4>2. reader[r].seen = Current(reader[r].key)
        BY <3>3 DEF CacheInv, FreshFills
      <4>3. UNCHANGED review \/ reader[r].key = "catalog"
        BY <4>1 DEF CommitWrite, Pending, Keys
      <4>4. UNCHANGED revision \/ reader[r].key = "rating"
        BY <4>1 DEF CommitWrite, Pending, Keys
      <4>q. QED BY <3>1, <4>1, <4>2, <4>3, <4>4 DEF Current, Rated, Keys
    <3>q. QED BY <3>1, <3>2, <3>3
  <2>q. QED BY <2>1, <2>2
<1>q. QED BY <1>1, <1>4, <1>5, <1>6 DEF CacheInv, FreshFills

LEMMA ReadersPreserve ==
    ASSUME CacheInv, NEW r \in Readers, Fill(r) \/ \E k \in Keys : Miss(r, k)
    PROVE  CacheInv'
<1>1. UNCHANGED << revision, review, writer >>
  BY DEF Fill, Miss
<1>2. /\ \A k : Current(k)' = Current(k)
      /\ \A w \in Writers : Pending(w)' = Pending(w)
  BY <1>1 DEF Current, Rated, Pending
<1>3. CASE Fill(r)
  <2>1. /\ DOMAIN reader' = Readers /\ reader'[r] = NoFill
        /\ \A s \in Readers \ {r} : reader'[s] = reader[s]
    BY <1>3 DEF Fill, CacheInv
  <2>2. (\A s \in Readers : FillShape(s))' /\ FreshFills'
    BY <1>2, <2>1 DEF FillShape, FreshFills, CacheInv, NoFill
  <2>3. CASE UNCHANGED << copy, suspect >>
    BY <1>1, <1>2, <2>1, <2>2, <2>3 DEF CacheInv, WatchedCopies, CopiesAreCurrent
  <2>4. CASE /\ copy' = [copy EXCEPT ![reader[r].key] = reader[r].seen]
             /\ suspect' = IF reader[r].late \/ \E w \in Writers : reader[r].key \in Pending(w)
                           THEN suspect \cup {reader[r].key} ELSE suspect \ {reader[r].key}
    <3> DEFINE k == reader[r].key
    <3>1. k \in Keys /\ reader[r].late \in BOOLEAN /\ reader[r].pc = "filling"
      BY <1>3 DEF Fill, CacheInv, FillShape
    <3>2. DOMAIN copy' = Keys /\ copy'[k] = reader[r].seen
          /\ \A l \in Keys \ {k} : copy'[l] = copy[l] /\ (l \in suspect' <=> l \in suspect)
      BY <2>4, <3>1 DEF CacheInv
    <3>3. k \notin suspect' => ~ reader[r].late /\ \A w \in Writers : k \notin Pending(w)
      BY <2>4
    <3>4. k \notin suspect' => copy'[k] = Current(k)
      BY <3>1, <3>2, <3>3 DEF CacheInv, FreshFills
    <3>5. WatchedCopies'
      <4>1. \A w \in Writers : Pending(w) \subseteq Keys
        BY DEF Pending, Keys
      <4>q. QED BY <1>2, <3>2, <3>3, <4>1 DEF WatchedCopies, CacheInv
    <3>6. CopiesAreCurrent'
      BY <1>2, <3>2, <3>4 DEF CopiesAreCurrent, CacheInv
    <3>q. QED BY <1>1, <2>1, <2>2, <3>2, <3>5, <3>6 DEF CacheInv
  <2>q. QED BY <1>3, <2>3, <2>4 DEF Fill
<1>4. ASSUME NEW k \in Keys, Miss(r, k)
      PROVE  CacheInv'
  <2>1. /\ DOMAIN reader' = Readers
        /\ reader'[r] = [pc |-> "filling", key |-> k, seen |-> Current(k), late |-> FALSE]
        /\ \A s \in Readers \ {r} : reader'[s] = reader[s]
        /\ UNCHANGED << copy, suspect >>
    BY <1>4 DEF Miss, CacheInv
  <2>2. (\A s \in Readers : FillShape(s))'
    <3>1. FillShape(r)'
      BY <1>4, <2>1 DEF FillShape
    <3>2. ASSUME NEW s \in Readers \ {r} PROVE FillShape(s)'
      BY <2>1 DEF FillShape, CacheInv
    <3>q. QED BY <3>1, <3>2
  <2>3. FreshFills'
    <3>1. (reader[r].seen = Current(reader[r].key))'
      BY <1>1, <2>1 DEF Current, Rated
    <3>2. ASSUME NEW s \in Readers \ {r}
          PROVE  (reader[s].pc = "filling" /\ ~ reader[s].late
                    => reader[s].seen = Current(reader[s].key))'
      BY <1>1, <2>1 DEF FreshFills, CacheInv, Current, Rated
    <3>q. QED BY <3>1, <3>2 DEF FreshFills
  <2>q. QED BY <1>1, <1>2, <2>1, <2>2, <2>3 DEF CacheInv, WatchedCopies, CopiesAreCurrent
<1>q. QED BY <1>3, <1>4

\* A copy that was not stored while a change was on its way, nor kept when Redis was
\* away, is what the database holds, for any number of writers, readers and reviews.
THEOREM CopiesFollow == StorefrontSpec => []CopiesAreCurrent
<1>1. StorefrontInit => CacheInv
  BY DEF StorefrontInit, CacheInv, FillShape, FreshFills, WatchedCopies, CopiesAreCurrent,
         Pending, Idle, NoFill
<1>2. CacheInv /\ [StorefrontNext]_shopVars => CacheInv'
  <2> SUFFICES ASSUME CacheInv, [StorefrontNext]_shopVars PROVE CacheInv'
    OBVIOUS
  <2>1. ASSUME NEW w \in Writers, EditCatalog(w) \/ ImportProducts(w) PROVE CacheInv'
    <3>1. /\ Drop(Keys) \/ Drop({"catalog"})
          /\ UNCHANGED << revision, review, reader >>
      BY <2>1 DEF EditCatalog, ImportProducts, DropCatalog
    <3>2. DOMAIN writer' = Writers /\ \A v \in Writers \ {w} : writer'[v] = writer[v]
      BY <2>1 DEF EditCatalog, ImportProducts, CacheInv
    <3>3. writer'[w].pc \in {"editing", "doomed"}
      BY <2>1 DEF EditCatalog, ImportProducts, CacheInv
    <3>4. Pending(w)' \subseteq {"catalog"} /\ {"catalog"} \in SUBSET Keys
      BY <3>3 DEF Pending, Keys
    <3>q. QED BY <3>1, <3>2, <3>4, DropPreserves
  <2>2. ASSUME NEW w \in Writers, NEW l \in Lines, WriteReview(w, l) PROVE CacheInv'
    <3>1. Drop({"rating"}) /\ UNCHANGED << revision, review, reader >>
      BY <2>2 DEF WriteReview
    <3>2. DOMAIN writer' = Writers /\ \A v \in Writers \ {w} : writer'[v] = writer[v]
      BY <2>2 DEF WriteReview, CacheInv
    <3>3. writer'[w].pc = "reviewing"
      BY <2>2 DEF WriteReview, CacheInv
    <3>4. Pending(w)' \subseteq {"rating"}
      BY <3>3 DEF Pending
    <3>5. {"rating"} \in SUBSET Keys
      BY DEF Keys
    <3>q. QED BY <3>1, <3>2, <3>4, <3>5, DropPreserves
  <2>3. ASSUME NEW w \in Writers, RollBack(w) PROVE CacheInv'
    <3>1. /\ UNCHANGED << revision, review, copy, reader, suspect >>
          /\ DOMAIN writer' = Writers /\ writer'[w] = Idle
          /\ \A v \in Writers \ {w} : writer'[v] = writer[v]
      BY <2>3 DEF RollBack, CacheInv
    <3>2. \A v \in Writers : Pending(v)' \subseteq Pending(v)
      BY <3>1 DEF Pending, Idle
    <3>3. \A k : Current(k)' = Current(k)
      BY <3>1 DEF Current, Rated
    <3>4. (\A r \in Readers : FillShape(r))' /\ FreshFills'
      BY <3>1 DEF CacheInv, FillShape, FreshFills, Current, Rated
    <3>5. WatchedCopies' /\ CopiesAreCurrent'
      BY <3>1, <3>2, <3>3 DEF CacheInv, WatchedCopies, CopiesAreCurrent
    <3>q. QED BY <3>1, <3>4, <3>5 DEF CacheInv
  <2>4. ASSUME NEW k \in Keys, ExpireCopy(k) PROVE CacheInv'
    <3>1. /\ UNCHANGED << revision, review, reader, writer >>
          /\ DOMAIN copy' = Keys /\ copy'[k] = Absent
          /\ \A l \in Keys \ {k} : copy'[l] = copy[l] /\ (l \in suspect' <=> l \in suspect)
      BY <2>4 DEF ExpireCopy, CacheInv
    <3>2. \A w \in Writers : Pending(w)' = Pending(w) /\ Pending(w) \subseteq Keys
      BY <3>1 DEF Pending, Keys
    <3>3. \A l : Current(l)' = Current(l)
      BY <3>1 DEF Current, Rated
    <3>q. QED BY <3>1, <3>2, <3>3 DEF CacheInv, FillShape, FreshFills, WatchedCopies,
                                CopiesAreCurrent
  <2>5. CASE UNCHANGED shopVars
    <3>1. (\A r \in Readers : FillShape(r))' /\ FreshFills'
      BY <2>5 DEF shopVars, CacheInv, FillShape, FreshFills, Current, Rated
    <3>2. WatchedCopies'
      BY <2>5 DEF shopVars, CacheInv, WatchedCopies, Pending
    <3>3. CopiesAreCurrent'
      BY <2>5 DEF shopVars, CacheInv, CopiesAreCurrent, Current, Rated
    <3>q. QED BY <2>5, <3>1, <3>2, <3>3 DEF shopVars, CacheInv
  <2>q. QED BY <2>1, <2>2, <2>3, <2>4, <2>5, CommitPreserves, ReadersPreserve DEF StorefrontNext
<1>3. CacheInv => CopiesAreCurrent
  BY DEF CacheInv
<1>q. QED BY <1>1, <1>2, <1>3, PTL DEF StorefrontSpec

\* A change on its way counts against the bound of changes.
Editing == {w \in Writers : writer[w].pc = "editing"}
WritesFit ==
    /\ IsFiniteSet(Editing)
    /\ revision + Cardinality(Editing) <= MaxRevision
    /\ \A w \in Writers : writer[w].pc = "reviewing" =>
          writer[w].line \in Lines /\ writer[w].row \in ReviewRow

StoreTyped ==
    /\ StorefrontTypeOK
    /\ DOMAIN writer = Writers /\ DOMAIN reader = Readers
    /\ WritesFit
    /\ \A r \in Readers : FillShape(r)

\* What a drop of keys leaves alone.
LEMMA DropTyped ==
    ASSUME StoreTyped, NEW keys \in SUBSET Keys, Drop(keys)
    PROVE  DOMAIN copy' = Keys /\ suspect' \subseteq Keys /\ away' \in 0 .. MaxAway
  BY StorefrontAssumption DEF StoreTyped, StorefrontTypeOK, Drop, Available, Away

Moves(w, row) == writer' = [writer EXCEPT ![w] = row]

\* A writer that takes a step, and how many changes are on their way after it.
LEMMA EditorsStep ==
    ASSUME StoreTyped, NEW w \in Writers, NEW row, Moves(w, row)
    PROVE  /\ DOMAIN writer' = Writers
           /\ \A v \in Writers : writer'[v] = IF v = w THEN row ELSE writer[v]
           /\ row.pc = "editing" => Editing' = Editing \cup {w}
           /\ row.pc # "editing" => Editing' = Editing \ {w}
<1>1. /\ DOMAIN writer' = Writers
      /\ \A v \in Writers : writer'[v] = IF v = w THEN row ELSE writer[v]
  BY DEF StoreTyped, Moves
<1>. QED
  BY <1>1 DEF Editing

LEMMA ReviewsTyped ==
    ASSUME NEW old \in ReviewRow, NEW r \in ByShopper(old) \cup ByStaff(old)
    PROVE  r \in ReviewRow
<1>. DEFINE Of(s, f, d) == [stars |-> s, flagged |-> f, deleted |-> d]
<1>1. /\ old = Of(old.stars, old.flagged, old.deleted)
      /\ old.stars \in {0, 1, 5} /\ old.flagged \in BOOLEAN /\ old.deleted \in BOOLEAN
  BY DEF ReviewRow
<1>2. Unwritten = Of(0, FALSE, FALSE)
  BY DEF Unwritten
<1>3. \/ \E s \in {1, 5} : r = [Unwritten EXCEPT !.stars = s]
      \/ \E s \in {1, 5} : r = [old EXCEPT !.stars = s]
      \/ r = [old EXCEPT !.deleted = TRUE]
      \/ r = [old EXCEPT !.flagged = ~ old.flagged]
  BY DEF ByShopper, ByStaff
<1>. QED
  BY <1>1, <1>2, <1>3 DEF ReviewRow

LEMMA StoreStep == StoreTyped /\ [StorefrontNext]_shopVars => StoreTyped'
<1>. SUFFICES ASSUME StoreTyped, [StorefrontNext]_shopVars PROVE StoreTyped'
  OBVIOUS
<1>0. /\ revision \in Nat /\ MaxRevision \in Nat /\ MaxAway \in Nat /\ Cardinality(Editing) \in Nat
      /\ review \in [Lines -> ReviewRow]
      /\ IsFiniteSet(Editing) /\ revision + Cardinality(Editing) <= MaxRevision
  BY StorefrontAssumption, FS_CardinalityType DEF StoreTyped, StorefrontTypeOK, WritesFit
<1>00. Keys \in SUBSET Keys /\ {"rating"} \in SUBSET Keys /\ {"catalog"} \in SUBSET Keys
  BY DEF Keys
<1>1. ASSUME NEW w \in Writers, EditCatalog(w) \/ ImportProducts(w) PROVE StoreTyped'
  <2>1. /\ writer[w].pc = "idle" /\ UNCHANGED << revision, review, reader >>
        /\ Drop(Keys) \/ Drop({"catalog"})
        /\ revision + Cardinality(Editing) < MaxRevision
    BY <1>1 DEF EditCatalog, ImportProducts, DropCatalog, MayEdit, Editing
  <2>2. PICK outcome \in {"editing", "doomed"} : writer' = [writer EXCEPT ![w] = [pc |-> outcome]]
    BY <1>1 DEF EditCatalog, ImportProducts
  <2>. DEFINE row == [pc |-> outcome]
  <2>22. Moves(w, row)
    BY <2>2 DEF Moves
  <2>3. /\ DOMAIN writer' = Writers
        /\ \A v \in Writers : writer'[v] = IF v = w THEN row ELSE writer[v]
        /\ Editing' = Editing \cup {w} \/ Editing' = Editing \ {w}
    BY <2>22, EditorsStep
  <2>4. w \notin Editing
    BY <2>1 DEF Editing
  <2>5. IsFiniteSet(Editing') /\ revision' + Cardinality(Editing') <= MaxRevision
    <3>1. CASE Editing' = Editing \cup {w}
      <4>1. IsFiniteSet(Editing') /\ Cardinality(Editing') = Cardinality(Editing) + 1
        BY <1>0, <2>4, <3>1, FS_AddElement
      <4>. QED
        BY ONLY <1>0, <2>1, <4>1
    <3>2. CASE Editing' = Editing \ {w}
      BY <1>0, <2>1, <2>4, <3>2
    <3>. QED
      BY <2>3, <3>1, <3>2
  <2>6. DOMAIN copy' = Keys /\ suspect' \subseteq Keys /\ away' \in 0 .. MaxAway
    BY <1>00, <2>1, DropTyped
  <2>. QED
    BY <2>1, <2>2, <2>3, <2>5, <2>6 DEF StoreTyped, StorefrontTypeOK, WritesFit, FillShape
<1>2. ASSUME NEW w \in Writers, NEW l \in Lines, WriteReview(w, l) PROVE StoreTyped'
  <2>1. /\ writer[w].pc = "idle" /\ Drop({"rating"}) /\ UNCHANGED << revision, review, reader >>
    BY <1>2 DEF WriteReview
  <2>2. PICK r \in ByShopper(review[l]) \cup ByStaff(review[l]) :
            writer' = [writer EXCEPT ![w] = [pc |-> "reviewing", line |-> l, row |-> r]]
    BY <1>2 DEF WriteReview
  <2>. DEFINE row == [pc |-> "reviewing", line |-> l, row |-> r]
  <2>3. r \in ReviewRow
    BY <1>0, <2>2, ReviewsTyped
  <2>4. /\ DOMAIN writer' = Writers
        /\ \A v \in Writers : writer'[v] = IF v = w THEN row ELSE writer[v]
        /\ Editing' = Editing \ {w}
    <3>1. Moves(w, row)
      BY <2>2 DEF Moves
    <3>. QED
      BY <3>1, EditorsStep
  <2>5. Editing' = Editing
    BY <2>1, <2>4 DEF Editing
  <2>6. DOMAIN copy' = Keys /\ suspect' \subseteq Keys /\ away' \in 0 .. MaxAway
    BY <1>00, <2>1, DropTyped
  <2>7. WritesFit'
    BY <1>0, <2>1, <2>3, <2>4, <2>5 DEF StoreTyped, WritesFit
  <2>. QED
    BY <2>1, <2>4, <2>6, <2>7 DEF StoreTyped, StorefrontTypeOK, FillShape
<1>3. ASSUME NEW w \in Writers, CommitWrite(w) PROVE StoreTyped'
  <2>1. /\ writer[w].pc \in {"editing", "reviewing"} /\ Outdate(Pending(w))
        /\ writer' = [writer EXCEPT ![w] = Idle] /\ UNCHANGED << copy, suspect, away >>
    BY <1>3 DEF CommitWrite
  <2>2. /\ DOMAIN writer' = Writers
        /\ \A v \in Writers : writer'[v] = IF v = w THEN Idle ELSE writer[v]
        /\ Editing' = Editing \ {w}
    <3>1. Moves(w, Idle) /\ Idle.pc = "idle"
      BY <2>1 DEF Moves, Idle
    <3>. QED
      BY <3>1, EditorsStep
  <2>3. IsFiniteSet(Editing') /\ Cardinality(Editing') =
            IF w \in Editing THEN Cardinality(Editing) - 1 ELSE Cardinality(Editing)
    BY <1>0, <2>2, FS_RemoveElement
  <2>4. /\ review' \in [Lines -> ReviewRow]
        /\ revision' \in Nat /\ revision' + Cardinality(Editing') <= MaxRevision
        /\ Cardinality(Editing') \in Nat
    <3>1. CASE writer[w].pc = "editing"
      <4>1. revision' = revision + 1 /\ review' = review /\ w \in Editing
        BY <1>3, <3>1 DEF CommitWrite, Editing
      <4>. QED
        BY <1>0, <2>3, <4>1, FS_CardinalityType
    <3>2. CASE writer[w].pc = "reviewing"
      <4>1. /\ revision' = revision /\ w \notin Editing
            /\ review' = [review EXCEPT ![writer[w].line] = writer[w].row]
        BY <1>3, <3>2 DEF CommitWrite, Editing
      <4>2. writer[w].line \in Lines /\ writer[w].row \in ReviewRow
        BY <3>2 DEF StoreTyped, WritesFit
      <4>. QED
        BY <1>0, <2>3, <4>1, <4>2
    <3>. QED
      BY <2>1, <3>1, <3>2
  <2>5. /\ DOMAIN reader' = Readers
        /\ \A r \in Readers : reader'[r].pc = reader[r].pc /\ FillShape(r)'
    <3>1. ASSUME NEW r \in Readers PROVE reader'[r].pc = reader[r].pc /\ FillShape(r)'
      <4>1. CASE reader[r].pc = "filling"
        <5>1. reader'[r] = reader[r] \/ reader'[r] = [reader[r] EXCEPT !.late = TRUE]
          BY <2>1 DEF Outdate
        <5>. QED
          BY <4>1, <5>1 DEF StoreTyped, FillShape
      <4>2. CASE reader[r].pc # "filling"
        BY <2>1, <4>2 DEF Outdate, FillShape
      <4>. QED
        BY <4>1, <4>2
    <3>. QED
      BY <2>1, <3>1 DEF Outdate
  <2>. QED
    BY <1>0, <2>1, <2>2, <2>3, <2>4, <2>5 DEF StoreTyped, StorefrontTypeOK, WritesFit, Idle
<1>4. ASSUME NEW w \in Writers, RollBack(w) PROVE StoreTyped'
  <2>1. /\ writer' = [writer EXCEPT ![w] = Idle]
        /\ UNCHANGED << revision, review, copy, reader, suspect, away >>
    BY <1>4 DEF RollBack
  <2>2. /\ DOMAIN writer' = Writers
        /\ \A v \in Writers : writer'[v] = IF v = w THEN Idle ELSE writer[v]
        /\ Editing' = Editing \ {w}
    <3>1. Moves(w, Idle) /\ Idle.pc = "idle"
      BY <2>1 DEF Moves, Idle
    <3>. QED
      BY <3>1, EditorsStep
  <2>3. IsFiniteSet(Editing') /\ Cardinality(Editing') =
            IF w \in Editing THEN Cardinality(Editing) - 1 ELSE Cardinality(Editing)
    BY <1>0, <2>2, FS_RemoveElement
  <2>4. revision' + Cardinality(Editing') <= MaxRevision
    BY <1>0, <2>1, <2>3
  <2>. QED
    BY <2>1, <2>2, <2>3, <2>4 DEF StoreTyped, StorefrontTypeOK, WritesFit, Idle, FillShape
<1>5. ASSUME NEW r \in Readers, NEW k \in Keys, Miss(r, k) PROVE StoreTyped'
  <2>1. /\ DOMAIN reader' = Readers /\ \A q \in Readers : FillShape(q)'
        /\ \A q \in Readers : reader'[q].pc \in {"idle", "filling"}
    BY <1>5 DEF Miss, StoreTyped, StorefrontTypeOK, FillShape
  <2>2. away' \in 0 .. MaxAway /\ UNCHANGED << revision, review, copy, writer, suspect >>
    BY <1>0, <1>5 DEF Miss, Available, Away, StoreTyped, StorefrontTypeOK
  <2>. QED
    BY <2>1, <2>2 DEF StoreTyped, StorefrontTypeOK, WritesFit, Editing
<1>6. ASSUME NEW r \in Readers, Fill(r) PROVE StoreTyped'
  <2>1. /\ DOMAIN reader' = Readers /\ \A q \in Readers : FillShape(q)'
        /\ \A q \in Readers : reader'[q].pc \in {"idle", "filling"}
    BY <1>6 DEF Fill, NoFill, StoreTyped, StorefrontTypeOK, FillShape
  <2>2. reader[r].key \in Keys
    BY <1>6 DEF Fill, StoreTyped, FillShape
  <2>3. /\ away' \in 0 .. MaxAway /\ UNCHANGED << revision, review, writer >>
        /\ DOMAIN copy' = Keys /\ suspect' \subseteq Keys
    BY <1>0, <1>6, <2>2 DEF Fill, Available, Away, StoreTyped, StorefrontTypeOK
  <2>. QED
    BY <2>1, <2>3 DEF StoreTyped, StorefrontTypeOK, WritesFit, Editing
<1>7. ASSUME NEW k \in Keys, ExpireCopy(k) PROVE StoreTyped'
  BY <1>7 DEF ExpireCopy, StoreTyped, StorefrontTypeOK, WritesFit, Editing, FillShape
<1>8. CASE UNCHANGED shopVars
  BY <1>8 DEF shopVars, StoreTyped, StorefrontTypeOK, WritesFit, Editing, FillShape
<1>. QED
  BY <1>1, <1>2, <1>3, <1>4, <1>5, <1>6, <1>7, <1>8, Zenon DEF StorefrontNext

\* The catalogue, its cache and who is at them: the changes on their way never
\* exceed what is left of the bound.
THEOREM StorefrontTyped == StorefrontSpec => []StorefrontTypeOK
<1>1. StorefrontInit => StoreTyped
  <2>. SUFFICES ASSUME StorefrontInit PROVE StoreTyped
    OBVIOUS
  <2>1. Editing = {}
    BY DEF StorefrontInit, Editing, Idle
  <2>2. WritesFit
    BY <2>1, FS_EmptySet, StorefrontAssumption DEF StorefrontInit, WritesFit, Idle
  <2>. QED
    BY <2>2, StorefrontAssumption
    DEF StorefrontInit, StoreTyped, StorefrontTypeOK, FillShape, Idle, NoFill, Unwritten, ReviewRow
<1>2. StoreTyped => StorefrontTypeOK
  BY DEF StoreTyped
<1>. QED
  BY <1>1, <1>2, StoreStep, PTL DEF StorefrontSpec
-----------------------------------------------------------------------------
(* CatalogSync.                                                             *)

Syncing(j, p) == IsAt(j, p) /\ job[j].kind = "sync"
Deleting(j, p) == IsAt(j, p) /\ job[j].kind = "delete"
Posted(j) == job[j].pc = "posted"
Loaded(j, p) == job[j].batch = BatchOf(product[p])

\* The step leaves what a product offers as it is.
SameOffer(p) ==
    /\ product'[p].version = product[p].version /\ product'[p].active = product[p].active
    /\ product'[p].variants = product[p].variants

LEMMA OfferStays ==
    ASSUME NEW p \in Products, SameOffer(p)
    PROVE  /\ Offered(product'[p]) = Offered(product[p])
           /\ BatchOf(product'[p]) = BatchOf(product[p])
           /\ \A j \in Jobs : job'[j].batch = job[j].batch => (Loaded(j, p)' <=> Loaded(j, p))
           /\ shown'[p] = shown[p] => (UpToDate(p)' <=> UpToDate(p)) /\ (Gone(p)' <=> Gone(p))
<1>1. Offered(product'[p]) = Offered(product[p])
  BY DEF SameOffer, Offered
<1>2. BatchOf(product'[p]) = BatchOf(product[p])
  BY <1>1 DEF SameOffer, BatchOf
<1>3. ASSUME NEW j \in Jobs, job'[j].batch = job[j].batch PROVE Loaded(j, p)' <=> Loaded(j, p)
  BY <1>2, <1>3 DEF Loaded
<1>4. ASSUME shown'[p] = shown[p] PROVE (UpToDate(p)' <=> UpToDate(p)) /\ (Gone(p)' <=> Gone(p))
  BY <1>1, <1>4 DEF UpToDate, Gone, SameOffer
<1>. QED
  BY <1>1, <1>2, <1>3, <1>4

\* A batch of what a product offers, once posted, makes it up to date.
LEMMA BatchMakesUpToDate ==
    ASSUME NEW p \in Products, \A i \in Offered(product[p]) : shown[p][i] = BatchOf(product[p])[i]
    PROVE  UpToDate(p)
  BY DEF UpToDate, BatchOf

JobShape(j) ==
    \/ job[j] = Free
    \/ /\ job[j] = [pc |-> job[j].pc, item |-> job[j].item, kind |-> job[j].kind,
                    batch |-> job[j].batch, alone |-> job[j].alone]
       /\ job[j].pc \in {"loaded", "posted", "refused"}
       /\ job[j].item \in Products
       /\ job[j].kind \in {"sync", "delete"}
       /\ job[j].alone \in BOOLEAN
       /\ job[j].kind = "delete" => job[j].batch = Removal /\ ~ job[j].alone

\* What a job has to itself no other job is at, and it has loaded its present version.
LoneJobs ==
    \A j \in Jobs : \A p \in Products :
        Syncing(j, p) /\ job[j].alone =>
            /\ \A i \in Jobs \ {j} : ~ IsAt(i, p)
            /\ Loaded(j, p)
            /\ Posted(j) /\ ~ product[p].deleted => UpToDate(p)

\* The jobs at a product that has not been outrun have loaded its present version.
SoundJobs ==
    \A p \in Products \ outrun : \A j \in Jobs :
        /\ Syncing(j, p) => Loaded(j, p)
        /\ Syncing(j, p) /\ Posted(j) => UpToDate(p)
        /\ Deleting(j, p) /\ Posted(j) => Gone(p)

\* A product that was deleted in time has no sync to come.
DeletedInTime ==
    \A p \in Products : product[p].deleted /\ p \notin outrun =>
        /\ << "sync", p >> \notin tasks
        /\ \A j \in Jobs : ~ Syncing(j, p)
DeletesAreForDeleted ==
    \A p \in Products :
        \/ << "delete", p >> \in tasks
        \/ p \in retired
        \/ \E j \in Jobs : Deleting(j, p)
        => product[p].deleted

SyncInv ==
    /\ DOMAIN job = Jobs
    /\ product \in [Products -> ProductRow]
    /\ DOMAIN shown = Products
    /\ \A j \in Jobs : JobShape(j)
    /\ LoneJobs
    /\ SoundJobs
    /\ DeletedInTime
    /\ DeletesAreForDeleted
    /\ StatusIsSo
LEMMA DisturbedJobs ==
    ASSUME SyncInv, NEW p \in Products
    PROVE  /\ DOMAIN Disturbed(p) = Jobs
           /\ \A j \in Jobs : ~ IsAt(j, p) => Disturbed(p)[j] = job[j]
           /\ \A j \in Jobs : IsAt(j, p) => Disturbed(p)[j] =
                [pc |-> job[j].pc, item |-> p, kind |-> job[j].kind,
                 batch |-> job[j].batch, alone |-> FALSE]
<1>1. ASSUME NEW j \in Jobs, IsAt(j, p)
      PROVE  Disturbed(p)[j] = [pc |-> job[j].pc, item |-> p, kind |-> job[j].kind,
                                batch |-> job[j].batch, alone |-> FALSE]
  <2>1. Disturbed(p)[j] = [job[j] EXCEPT !.alone = FALSE]
    BY <1>1 DEF Disturbed
  <2>2. job[j] = [pc |-> job[j].pc, item |-> job[j].item, kind |-> job[j].kind,
                  batch |-> job[j].batch, alone |-> job[j].alone]
    BY <1>1 DEF SyncInv, JobShape, IsAt, Free
  <2>3. job[j].item = p
    BY <1>1 DEF IsAt
  <2>q. QED BY <2>1, <2>2, <2>3
<1>q. QED BY <1>1 DEF Disturbed

LEMMA DisturbedShape ==
    ASSUME SyncInv, NEW p \in Products, NEW j \in Jobs,
           ~ IsAt(j, p) => job'[j] = job[j],
           IsAt(j, p) => job'[j] = [pc |-> job[j].pc, item |-> p, kind |-> job[j].kind,
                                    batch |-> job[j].batch, alone |-> FALSE]
    PROVE  JobShape(j)'
<1>1. JobShape(j)
  BY DEF SyncInv
<1>2. CASE ~ IsAt(j, p)
  BY <1>1, <1>2 DEF JobShape
<1>3. CASE IsAt(j, p)
  <2>1. job[j] # Free
    BY <1>3 DEF IsAt, Free
  <2>2. /\ job[j].pc \in {"loaded", "posted", "refused"}
        /\ job[j].kind \in {"sync", "delete"}
        /\ job[j].kind = "delete" => job[j].batch = Removal
    BY <1>1, <2>1 DEF JobShape
  <2>3. /\ job'[j].pc = job[j].pc /\ job'[j].item = p /\ job'[j].kind = job[j].kind
        /\ job'[j].batch = job[j].batch /\ job'[j].alone = FALSE
    BY <1>3
  <2>q. QED BY <1>3, <2>2, <2>3 DEF JobShape
<1>q. QED BY <1>2, <1>3

\* UpdateProduct and UpdateVariant.
LEMMA ChangePreserves ==
    ASSUME SyncInv, NEW p \in Products, UpdateProduct(p) \/ UpdateVariant(p)
    PROVE  SyncInv'
<1>1. /\ DOMAIN job' = Jobs
      /\ \A j \in Jobs : ~ IsAt(j, p) => job'[j] = job[j]
      /\ \A j \in Jobs : IsAt(j, p) => job'[j] =
                [pc |-> job[j].pc, item |-> p, kind |-> job[j].kind,
                 batch |-> job[j].batch, alone |-> FALSE]
  BY DisturbedJobs DEF UpdateProduct, UpdateVariant, Changes
<1>2. /\ UNCHANGED << shown, tasks, retired >>
      /\ ~ product[p].deleted /\ ~ product'[p].deleted
      /\ \A x \in Products \ {p} : product'[x] = product[x]
      /\ outrun \subseteq outrun' /\ outrun' \subseteq outrun \cup {p}
      /\ Busy(p) => p \in outrun'
      /\ product'[p].status = "pending" \/ p \in unmarked'
      /\ unmarked \subseteq unmarked' /\ unmarked' \subseteq unmarked \cup {p}
  BY DEF UpdateProduct, UpdateVariant, Changes, SyncInv, ProductRow
<1>3. product' \in [Products -> ProductRow]
  <2>1. product[p].version + 1 \in 1 .. MaxVersion
    BY CatalogSyncAssumption DEF UpdateProduct, UpdateVariant, SyncInv, ProductRow
  <2>q. QED BY <2>1 DEF UpdateProduct, UpdateVariant, SyncInv, ProductRow, SyncStatus
<1>s. \A x \in Products \ {p} :
         /\ (UpToDate(x)' <=> UpToDate(x)) /\ (Gone(x)' <=> Gone(x))
         /\ \A i \in Jobs : job'[i].batch = job[i].batch => (Loaded(i, x)' <=> Loaded(i, x))
  BY <1>2, OfferStays DEF SameOffer
<1>g. Gone(p)' <=> Gone(p)
  BY <1>2 DEF Gone
<1>4. \A j \in Jobs : JobShape(j)'
  BY <1>1, DisturbedShape
<1>5. \A j \in Jobs : \A x \in Products :
         /\ IsAt(j, x)' <=> IsAt(j, x)
         /\ Syncing(j, x)' <=> Syncing(j, x)
         /\ Deleting(j, x)' <=> Deleting(j, x)
         /\ IsAt(j, x) => Posted(j)' = Posted(j) /\ job'[j].batch = job[j].batch
  BY <1>1 DEF IsAt, Syncing, Deleting, Posted
<1>6. LoneJobs'
  <2>1. ASSUME NEW j \in Jobs, NEW x \in Products, Syncing(j, x)', job'[j].alone
        PROVE  x # p /\ job'[j] = job[j]
    BY <1>1, <1>5, <2>1 DEF Syncing, IsAt
  <2>. QED
    BY <1>2, <1>5, <1>s, <2>1 DEF SyncInv, LoneJobs, Syncing
<1>7. SoundJobs'
  <2>1. ASSUME NEW x \in Products \ outrun', NEW j \in Jobs, IsAt(j, x)
        PROVE  x # p
    BY <1>2, <2>1 DEF Busy
  <2>. QED
    BY <1>2, <1>5, <1>s, <2>1 DEF SyncInv, SoundJobs, Syncing, Deleting
<1>8. DeletedInTime' /\ DeletesAreForDeleted'
  BY <1>2, <1>5 DEF SyncInv, DeletedInTime, DeletesAreForDeleted
<1>9. StatusIsSo'
  BY <1>2, <1>s, <1>g DEF SyncInv, StatusIsSo, DeletesAreForDeleted
<1>q. QED BY <1>1, <1>2, <1>3, <1>4, <1>6, <1>7, <1>8, <1>9 DEF SyncInv

LEMMA DeleteProductPreserves ==
    ASSUME SyncInv, NEW p \in Products, DeleteProduct(p)
    PROVE  SyncInv'
<1>1. /\ DOMAIN job' = Jobs
      /\ \A j \in Jobs : ~ IsAt(j, p) => job'[j] = job[j]
      /\ \A j \in Jobs : IsAt(j, p) => job'[j] =
                [pc |-> job[j].pc, item |-> p, kind |-> job[j].kind,
                 batch |-> job[j].batch, alone |-> FALSE]
  BY DisturbedJobs DEF DeleteProduct
<1>2. /\ UNCHANGED << shown, retired, unmarked >>
      /\ product'[p].deleted /\ product'[p].version = product[p].version
      /\ \A x \in Products \ {p} : product'[x] = product[x]
      /\ outrun \subseteq outrun' /\ outrun' \subseteq outrun \cup {p}
      /\ Busy(p) \/ << "sync", p >> \in tasks => p \in outrun'
      /\ tasks' \subseteq tasks \cup {<< "delete", p >>} /\ tasks \subseteq tasks'
  BY DEF DeleteProduct, SyncInv, ProductRow
<1>3. product' \in [Products -> ProductRow]
  BY DEF DeleteProduct, SyncInv, ProductRow
<1>s. \A x \in Products \ {p} :
         /\ (UpToDate(x)' <=> UpToDate(x)) /\ (Gone(x)' <=> Gone(x))
         /\ \A i \in Jobs : job'[i].batch = job[i].batch => (Loaded(i, x)' <=> Loaded(i, x))
  BY <1>2, OfferStays DEF SameOffer
<1>g. Gone(p)' <=> Gone(p)
  BY <1>2 DEF Gone
<1>4. \A j \in Jobs : JobShape(j)'
  BY <1>1, DisturbedShape
<1>5. \A j \in Jobs : \A x \in Products :
         /\ IsAt(j, x)' <=> IsAt(j, x)
         /\ Syncing(j, x)' <=> Syncing(j, x)
         /\ Deleting(j, x)' <=> Deleting(j, x)
         /\ IsAt(j, x) => Posted(j)' = Posted(j) /\ job'[j].batch = job[j].batch
  BY <1>1 DEF IsAt, Syncing, Deleting, Posted
<1>6. LoneJobs'
  <2>1. ASSUME NEW j \in Jobs, NEW x \in Products, Syncing(j, x)', job'[j].alone
        PROVE  x # p /\ job'[j] = job[j]
    BY <1>1, <1>5, <2>1 DEF Syncing, IsAt
  <2>. QED
    BY <1>2, <1>5, <1>s, <2>1 DEF SyncInv, LoneJobs, Syncing
<1>7. SoundJobs'
  <2>1. ASSUME NEW x \in Products \ outrun', NEW j \in Jobs, IsAt(j, x)
        PROVE  x # p
    BY <1>2, <2>1 DEF Busy
  <2>. QED
    BY <1>2, <1>5, <1>s, <2>1 DEF SyncInv, SoundJobs, Syncing, Deleting
<1>8. DeletedInTime'
  BY <1>2, <1>5 DEF SyncInv, DeletedInTime, Busy, Syncing
<1>9. DeletesAreForDeleted'
  BY <1>2, <1>5 DEF SyncInv, DeletesAreForDeleted
<1>10. StatusIsSo'
  BY <1>2, <1>s, <1>g DEF SyncInv, StatusIsSo, DeletesAreForDeleted
<1>q. QED BY <1>1, <1>2, <1>3, <1>4, <1>6, <1>7, <1>8, <1>9, <1>10 DEF SyncInv

LEMMA AskForSyncPreserves ==
    ASSUME SyncInv, NEW p \in Products, AskForSync(p)
    PROVE  SyncInv'
<1>1. /\ UNCHANGED << product, shown, job, retired, outrun, unmarked >>
      /\ ~ product[p].deleted /\ tasks' = tasks \cup {<< "sync", p >>}
  BY DEF AskForSync, Sweepable
<1>2. DeletedInTime' /\ DeletesAreForDeleted'
  BY <1>1 DEF SyncInv, DeletedInTime, DeletesAreForDeleted, Syncing, Deleting, IsAt
<1>3. \A x \in Products :
         /\ (UpToDate(x)' <=> UpToDate(x)) /\ (Gone(x)' <=> Gone(x))
         /\ \A i \in Jobs : Loaded(i, x)' <=> Loaded(i, x)
  BY <1>1, OfferStays DEF SameOffer
<1>4. \A i \in Jobs : JobShape(i)'
  BY <1>1 DEF SyncInv, JobShape
<1>5. LoneJobs' /\ SoundJobs'
  BY <1>1, <1>3 DEF SyncInv, LoneJobs, SoundJobs, Syncing, Deleting, IsAt, Posted
<1>6. StatusIsSo'
  BY <1>1, <1>3 DEF SyncInv, StatusIsSo
<1>q. QED BY <1>1, <1>2, <1>4, <1>5, <1>6 DEF SyncInv

\* A job at p that was free before: LoadForSync and LoadForDelete.
LEMMA LoadPreserves ==
    ASSUME SyncInv, NEW p \in Products, NEW j \in Jobs,
           LoadForSync(j, p) \/ LoadForDelete(j, p)
    PROVE  SyncInv'
<1>1. job[j].pc = "free" /\ ~ IsAt(j, p) /\ \A x \in Products : ~ IsAt(j, x)
  BY DEF LoadForSync, LoadForDelete, IsAt
<1>2. /\ DOMAIN job' = Jobs
      /\ \A i \in Jobs \ {j} : ~ IsAt(i, p) => job'[i] = job[i]
      /\ \A i \in Jobs \ {j} : IsAt(i, p) => job'[i] =
                [pc |-> job[i].pc, item |-> p, kind |-> job[i].kind,
                 batch |-> job[i].batch, alone |-> FALSE]
  BY DisturbedJobs DEF LoadForSync, LoadForDelete
<1>3. UNCHANGED << product, shown, retired, unmarked >>
  BY DEF LoadForSync, LoadForDelete
<1>s. \A x \in Products :
         /\ (UpToDate(x)' <=> UpToDate(x)) /\ (Gone(x)' <=> Gone(x))
         /\ \A i \in Jobs : job'[i].batch = job[i].batch => (Loaded(i, x)' <=> Loaded(i, x))
  BY <1>3, OfferStays DEF SameOffer
<1>4. \A i \in Jobs \ {j} : JobShape(i)'
  BY <1>2, DisturbedShape
<1>5. \A i \in Jobs \ {j} : \A x \in Products :
         /\ IsAt(i, x)' <=> IsAt(i, x)
         /\ Syncing(i, x)' <=> Syncing(i, x)
         /\ Deleting(i, x)' <=> Deleting(i, x)
         /\ IsAt(i, x) => Posted(i)' = Posted(i) /\ job'[i].batch = job[i].batch
  BY <1>2 DEF IsAt, Syncing, Deleting, Posted
<1>6. CASE LoadForSync(j, p)
  <2>1. job'[j] = [pc |-> "loaded", item |-> p, kind |-> "sync",
                   batch |-> BatchOf(product[p]), alone |-> ~ Busy(p)]
    BY <1>6, DisturbedJobs DEF LoadForSync
  <2>2. << "sync", p >> \in tasks /\ tasks' = tasks \ {<< "sync", p >>} /\ UNCHANGED outrun
    BY <1>6 DEF LoadForSync
  <2>3. /\ Syncing(j, p)' /\ ~ Posted(j)' /\ ~ Deleting(j, p)'
        /\ \A x \in Products \ {p} : ~ IsAt(j, x)'
    BY <2>1 DEF Syncing, Deleting, IsAt, Posted
  <2>4. JobShape(j)'
    <3>1. Busy(p) \in BOOLEAN
      BY DEF Busy
    <3>2. job'[j].pc = "loaded" /\ job'[j].item = p /\ job'[j].kind = "sync"
          /\ job'[j].batch = BatchOf(product[p]) /\ job'[j].alone = ~ Busy(p)
      BY <2>1
    <3>q. QED BY <2>1, <3>1, <3>2 DEF JobShape
  <2>5. LoneJobs'
    <3>1. ASSUME NEW i \in Jobs, NEW x \in Products, Syncing(i, x)', job'[i].alone
          PROVE  /\ \A k \in Jobs \ {i} : ~ IsAt(k, x)'
                 /\ Loaded(i, x)'
                 /\ Posted(i)' /\ ~ product[x].deleted => UpToDate(x)
      <4>1. CASE i = j
        <5>1. x = p /\ ~ Busy(p) /\ Loaded(i, x)'
          <6>1. job'[j].item = p /\ Loaded(j, p)'
                /\ job'[j].alone = ~ Busy(p)
            BY <1>3, <2>1 DEF Loaded
          <6>2. job'[j].item = x
            BY <3>1, <4>1 DEF Syncing, IsAt
          <6>3. job'[j].alone
            BY <3>1, <4>1
          <6>4. ~ Busy(p)
            BY <6>1, <6>3, Zenon DEF Busy
          <6>q. QED BY <4>1, <6>1, <6>2, <6>4
        <5>2. \A k \in Jobs \ {i} : ~ IsAt(k, x)'
          BY <1>5, <4>1, <5>1 DEF Busy
        <5>3. ~ Posted(i)'
          BY <2>1, <4>1 DEF Posted
        <5>q. QED BY <5>1, <5>2, <5>3
      <4>2. CASE i # j
        <5>1. x # p
          BY <1>2, <1>5, <3>1, <4>2 DEF Syncing
        <5>2. job'[i] = job[i]
          BY <1>2, <3>1, <4>2, <5>1 DEF Syncing, IsAt
        <5>3. Syncing(i, x) /\ job[i].alone /\ (Posted(i)' <=> Posted(i))
          BY <3>1, <5>2 DEF Syncing, IsAt, Posted
        <5>4. /\ \A k \in Jobs \ {i} : ~ IsAt(k, x)
              /\ Loaded(i, x)
              /\ Posted(i) /\ ~ product[x].deleted => UpToDate(x)
          BY <5>3 DEF SyncInv, LoneJobs
        <5>q. QED BY <1>5, <1>s, <2>3, <5>1, <5>2, <5>3, <5>4
      <4>q. QED BY <4>1, <4>2
    <3>q. QED BY <1>3, <1>s, <3>1 DEF LoneJobs
  <2>6. SoundJobs'
    <3>1. Syncing(j, p)' => Loaded(j, p)'
      BY <1>3, <2>1, <2>3 DEF Loaded
    <3>. QED
      BY <1>3, <1>5, <1>s, <2>2, <2>3, <3>1 DEF SyncInv, SoundJobs, Syncing, Deleting
  <2>7. DeletedInTime'
    BY <1>3, <1>5, <2>2, <2>3 DEF SyncInv, DeletedInTime, Syncing
  <2>8. DeletesAreForDeleted'
    BY <1>3, <1>5, <2>2, <2>3 DEF SyncInv, DeletesAreForDeleted, Deleting
  <2>q. QED BY <1>2, <1>3, <1>4, <1>s, <2>2, <2>4, <2>5, <2>6, <2>7, <2>8
            DEF SyncInv, StatusIsSo
<1>7. CASE LoadForDelete(j, p)
  <2>1. job'[j] = [pc |-> "loaded", item |-> p, kind |-> "delete", batch |-> Removal, alone |-> FALSE]
    BY <1>7, DisturbedJobs DEF LoadForDelete
  <2>2. /\ << "delete", p >> \in tasks /\ tasks' = tasks \ {<< "delete", p >>}
        /\ outrun \subseteq outrun'
    BY <1>7 DEF LoadForDelete
  <2>3. /\ Deleting(j, p)' /\ ~ Posted(j)' /\ ~ Syncing(j, p)'
        /\ \A x \in Products \ {p} : ~ IsAt(j, x)'
    BY <2>1 DEF Syncing, Deleting, IsAt, Posted
  <2>4. JobShape(j)'
    <3>1. job'[j].pc = "loaded" /\ job'[j].item = p /\ job'[j].kind = "delete"
          /\ job'[j].batch = Removal /\ job'[j].alone = FALSE
      BY <2>1
    <3>q. QED BY <2>1, <3>1 DEF JobShape
  <2>5. LoneJobs'
    <3>1. ASSUME NEW i \in Jobs, NEW x \in Products, Syncing(i, x)', job'[i].alone
          PROVE  /\ \A k \in Jobs \ {i} : ~ IsAt(k, x)'
                 /\ Loaded(i, x)'
                 /\ Posted(i)' /\ ~ product[x].deleted => UpToDate(x)
      <4>1. i # j
        BY <2>1, <3>1
      <4>2. x # p
        BY <1>2, <1>5, <3>1, <4>1 DEF Syncing
      <4>3. job'[i] = job[i]
        BY <1>2, <3>1, <4>1, <4>2 DEF Syncing, IsAt
      <4>4. Syncing(i, x) /\ job[i].alone /\ (Posted(i)' <=> Posted(i))
        BY <3>1, <4>3 DEF Syncing, IsAt, Posted
      <4>5. /\ \A k \in Jobs \ {i} : ~ IsAt(k, x)
            /\ Loaded(i, x)
            /\ Posted(i) /\ ~ product[x].deleted => UpToDate(x)
        BY <4>4 DEF SyncInv, LoneJobs
      <4>q. QED BY <1>5, <1>s, <2>3, <4>2, <4>3, <4>4, <4>5
    <3>q. QED BY <1>3, <1>s, <3>1 DEF LoneJobs
  <2>6. SoundJobs'
    <3>1. Syncing(j, p)' => Loaded(j, p)'
      BY <1>3, <2>1, <2>3 DEF Loaded
    <3>. QED
      BY <1>3, <1>5, <1>s, <2>2, <2>3, <3>1 DEF SyncInv, SoundJobs, Syncing, Deleting
  <2>7. DeletedInTime'
    BY <1>3, <1>5, <2>2, <2>3 DEF SyncInv, DeletedInTime, Syncing
  <2>8. DeletesAreForDeleted'
    BY <1>3, <1>5, <2>2, <2>3 DEF SyncInv, DeletesAreForDeleted, Deleting
  <2>q. QED BY <1>2, <1>3, <1>4, <1>s, <2>2, <2>4, <2>5, <2>6, <2>7, <2>8
            DEF SyncInv, StatusIsSo
<1>q. QED BY <1>6, <1>7
\* What a job leaves behind when it becomes free; the others stay as they are.
LEMMA FreedJob ==
    ASSUME SyncInv, NEW j \in Jobs, job' = [job EXCEPT ![j] = Free]
    PROVE  /\ DOMAIN job' = Jobs
           /\ \A i \in Jobs : JobShape(i)'
           /\ \A x \in Products : ~ IsAt(j, x)' /\ ~ Syncing(j, x)' /\ ~ Deleting(j, x)'
           /\ \A i \in Jobs \ {j} : job'[i] = job[i]
           /\ \A i \in Jobs \ {j} : \A x \in Products :
                /\ IsAt(i, x)' <=> IsAt(i, x)
                /\ Syncing(i, x)' <=> Syncing(i, x)
                /\ Deleting(i, x)' <=> Deleting(i, x)
                /\ Posted(i)' <=> Posted(i)
BY DEF SyncInv, JobShape, IsAt, Syncing, Deleting, Posted, Free

LEMMA PostPreserves ==
    ASSUME SyncInv, NEW j \in Jobs, PostBatch(j)
    PROVE  SyncInv'
<1>. PICK p \in Products : p = job[j].item
  BY DEF PostBatch, SyncInv, JobShape, Free
<1>0. DOMAIN job = Jobs /\ DOMAIN shown = Products
  BY DEF SyncInv
<1>1. PICK took \in SUBSET DOMAIN job[j].batch, heard \in BOOLEAN :
        /\ heard => took = DOMAIN job[j].batch
        /\ shown' = [shown EXCEPT ![p] =
                        [i \in Items |-> IF i \in took THEN job[j].batch[i] ELSE @[i]]]
        /\ job' = [job EXCEPT ![j].pc = IF heard THEN "posted" ELSE "refused"]
  BY DEF PostBatch
<1>2. /\ job[j] = [pc |-> "loaded", item |-> p, kind |-> job[j].kind,
                   batch |-> job[j].batch, alone |-> job[j].alone]
      /\ p \in Products /\ job[j].kind \in {"sync", "delete"}
      /\ job[j].kind = "delete" => job[j].batch = Removal /\ ~ job[j].alone
      /\ IsAt(j, p) /\ ~ Posted(j)
  BY DEF PostBatch, SyncInv, JobShape, Free, IsAt, Posted
<1>3. /\ DOMAIN job' = Jobs /\ DOMAIN shown' = Products
      /\ job'[j] = [pc |-> IF heard THEN "posted" ELSE "refused", item |-> p, kind |-> job[j].kind,
                    batch |-> job[j].batch, alone |-> job[j].alone]
      /\ \A i \in Jobs \ {j} : job'[i] = job[i]
      /\ \A x \in Products \ {p} : shown'[x] = shown[x]
      /\ shown'[p] = [i \in Items |-> IF i \in took THEN job[j].batch[i] ELSE shown[p][i]]
      /\ UNCHANGED << product, tasks, retired, outrun, unmarked >>
  <2>1. job'[j] = [job[j] EXCEPT !.pc = IF heard THEN "posted" ELSE "refused"]
    BY <1>1 DEF SyncInv
  <2>2. job'[j] = [pc |-> IF heard THEN "posted" ELSE "refused", item |-> p, kind |-> job[j].kind,
                    batch |-> job[j].batch, alone |-> job[j].alone]
    BY <1>2, <2>1
  <2>q. QED BY <1>0, <1>1, <1>2, <2>2 DEF PostBatch
<1>s. \A x \in Products :
         /\ x # p => (UpToDate(x)' <=> UpToDate(x)) /\ (Gone(x)' <=> Gone(x))
         /\ \A i \in Jobs : job'[i].batch = job[i].batch => (Loaded(i, x)' <=> Loaded(i, x))
  BY <1>3, OfferStays DEF SameOffer
<1>u. ASSUME Loaded(j, p) PROVE (heard => UpToDate(p)') /\ (UpToDate(p) => UpToDate(p)')
  <2>1. DOMAIN job[j].batch = Offered(product[p]) /\ Offered(product[p]) \subseteq Items
    <3>1. product[p].variants \subseteq Variants
      BY <1>2 DEF SyncInv, ProductRow
    <3>. QED
      BY <1>u, <3>1 DEF Loaded, BatchOf, Offered, Items
  <2>2. \A i \in Offered(product[p]) :
            shown'[p][i] = IF i \in took THEN BatchOf(product[p])[i] ELSE shown[p][i]
    BY <1>3, <1>u, <2>1 DEF Loaded
  <2>3. \A i \in Offered(product[p]) :
            BatchOf(product[p])[i] = [version |-> product[p].version,
                                      onSale |-> (i = Whole => product[p].active)]
    BY DEF BatchOf
  <2>. QED
    BY <1>1, <1>3, <2>1, <2>2, <2>3 DEF UpToDate
<1>g. ASSUME job[j].batch = Removal PROVE (heard => Gone(p)') /\ (Gone(p) => Gone(p)')
  <2>1. DOMAIN job[j].batch = Items /\ \A i \in Items : job[j].batch[i] = NotListed
    BY <1>g DEF Removal
  <2>. QED
    BY <1>1, <1>3, <2>1 DEF Gone
<1>4. \A i \in Jobs : JobShape(i)'
  <2>1. job'[j].pc \in {"posted", "refused"} /\ job'[j].item = p /\ job'[j].kind = job[j].kind
        /\ job'[j].batch = job[j].batch /\ job'[j].alone = job[j].alone
    BY <1>3
  <2>2. JobShape(j) /\ job[j] # Free
    BY <1>2 DEF SyncInv, Free, IsAt
  <2>3. JobShape(j)'
    BY <1>2, <1>3, <2>1, <2>2 DEF JobShape
  <2>4. ASSUME NEW i \in Jobs \ {j} PROVE JobShape(i)'
    BY <1>3 DEF SyncInv, JobShape
  <2>q. QED BY <2>3, <2>4
<1>5. /\ \A i \in Jobs : \A x \in Products :
            /\ IsAt(i, x)' <=> IsAt(i, x)
            /\ Syncing(i, x)' <=> Syncing(i, x)
            /\ Deleting(i, x)' <=> Deleting(i, x)
            /\ job'[i].batch = job[i].batch
            /\ job'[i].alone = job[i].alone
      /\ \A i \in Jobs \ {j} : Posted(i)' <=> Posted(i)
      /\ Posted(j)' => heard
  <2>1. \A x \in Products : /\ IsAt(j, x)' <=> IsAt(j, x)
                            /\ Syncing(j, x)' <=> Syncing(j, x)
                            /\ Deleting(j, x)' <=> Deleting(j, x)
    BY <1>2, <1>3 DEF IsAt, Syncing, Deleting
  <2>2. Posted(j)' => heard
    BY <1>1, <1>3 DEF Posted
  <2>q. QED BY <1>3, <2>1, <2>2 DEF IsAt, Syncing, Deleting, Posted
<1>6. LoneJobs'
  <2>1. ASSUME NEW i \in Jobs, NEW x \in Products, Syncing(i, x), job[i].alone
        PROVE  /\ \A k \in Jobs \ {i} : ~ IsAt(k, x)
               /\ Loaded(i, x)
               /\ Posted(i)' /\ ~ product[x].deleted => UpToDate(x)'
    <3>1. /\ \A k \in Jobs \ {i} : ~ IsAt(k, x)
          /\ Loaded(i, x)
          /\ Posted(i) /\ ~ product[x].deleted => UpToDate(x)
      BY <2>1 DEF SyncInv, LoneJobs
    <3>2. CASE i = j
      <4>1. x = p
        BY <2>1, <3>2 DEF Syncing, IsAt
      <4>q. QED BY <1>5, <1>u, <3>1, <3>2, <4>1
    <3>3. CASE i # j
      <4>1. x # p
        BY <1>2, <3>1, <3>3
      <4>q. QED BY <1>3, <1>5, <1>s, <3>1, <3>3, <4>1
    <3>q. QED BY <3>2, <3>3
  <2>q. QED BY <1>3, <1>5, <1>s, <2>1 DEF LoneJobs
<1>7. SoundJobs'
  <2>1. ASSUME NEW x \in Products \ outrun, NEW i \in Jobs
        PROVE  /\ Syncing(i, x) => Loaded(i, x)
               /\ Syncing(i, x) /\ Posted(i)' => UpToDate(x)'
               /\ Deleting(i, x) /\ Posted(i)' => Gone(x)'
    <3>1. /\ Syncing(i, x) => Loaded(i, x)
          /\ Syncing(i, x) /\ Posted(i) => UpToDate(x)
          /\ Deleting(i, x) /\ Posted(i) => Gone(x)
      BY DEF SyncInv, SoundJobs
    <3>2. CASE x # p
      <4>1. ~ Syncing(j, x) /\ ~ Deleting(j, x)
        BY <1>2, <3>2 DEF Syncing, Deleting, IsAt
      <4>q. QED BY <1>5, <1>s, <3>1, <3>2, <4>1
    <3>3. CASE x = p
      <4>1. job[j].kind = "sync" => Syncing(j, x) /\ Loaded(j, x)
        BY <1>2, <3>3 DEF SyncInv, SoundJobs, Syncing
      <4>2. job[j].kind = "delete" => Deleting(j, x)
        BY <1>2, <3>3 DEF Deleting
      <4>3. Deleting(i, x) \/ Deleting(j, x) => product[x].deleted
        BY DEF SyncInv, DeletesAreForDeleted
      <4>4. product[x].deleted => ~ Syncing(j, x) /\ ~ Syncing(i, x)
        BY DEF SyncInv, DeletedInTime
      <4>5. CASE job[j].kind = "sync"
        BY <1>5, <1>u, <3>1, <3>3, <4>1, <4>3, <4>4, <4>5
      <4>6. CASE job[j].kind = "delete"
        BY <1>2, <1>5, <1>g, <3>1, <3>3, <4>2, <4>3, <4>4, <4>6
      <4>q. QED BY <1>2, <4>5, <4>6
    <3>q. QED BY <3>2, <3>3
  <2>q. QED BY <1>3, <1>5, <1>s, <2>1 DEF SoundJobs
<1>8. DeletedInTime' /\ DeletesAreForDeleted'
  BY <1>3, <1>5 DEF SyncInv, DeletedInTime, DeletesAreForDeleted
<1>9. StatusIsSo'
  <2>1. ASSUME NEW x \in Products \ outrun
        PROVE  /\ product[x].status = "synced" /\ ~ product[x].deleted /\ x \notin unmarked =>
                      UpToDate(x)'
               /\ x \in retired => Gone(x)'
    <3>1. CASE x # p
      BY <1>s, <3>1 DEF SyncInv, StatusIsSo
    <3>2. CASE x = p
      <4>0. /\ product[x].status = "synced" /\ ~ product[x].deleted /\ x \notin unmarked => UpToDate(x)
            /\ x \in retired => Gone(x)
        BY DEF SyncInv, StatusIsSo
      <4>1. job[j].kind = "sync" => Syncing(j, x) /\ Loaded(j, x)
        BY <1>2, <3>2 DEF SyncInv, SoundJobs, Syncing
      <4>2. job[j].kind = "delete" => Deleting(j, x)
        BY <1>2, <3>2 DEF Deleting
      <4>3. Deleting(j, x) \/ x \in retired => product[x].deleted
        BY DEF SyncInv, DeletesAreForDeleted
      <4>4. product[x].deleted => ~ Syncing(j, x)
        BY DEF SyncInv, DeletedInTime
      <4>5. CASE job[j].kind = "sync"
        BY <1>u, <3>2, <4>0, <4>1, <4>3, <4>4, <4>5
      <4>6. CASE job[j].kind = "delete"
        BY <1>2, <1>g, <3>2, <4>0, <4>2, <4>3, <4>6
      <4>q. QED BY <1>2, <4>5, <4>6
    <3>q. QED BY <3>1, <3>2
  <2>q. QED BY <1>3, <2>1 DEF StatusIsSo
<1>q. QED BY <1>3, <1>4, <1>6, <1>7, <1>8, <1>9 DEF SyncInv
LEMMA FindNothingPreserves ==
    ASSUME SyncInv, NEW j \in Jobs, FindNothing(j)
    PROVE  SyncInv'
<1>1. /\ job[j] = [pc |-> "loaded", item |-> job[j].item, kind |-> "sync",
                   batch |-> job[j].batch, alone |-> job[j].alone]
      /\ job[j].item \in Products /\ job[j].alone \in BOOLEAN
  BY DEF FindNothing, SyncInv, JobShape, Free
<1>2. /\ DOMAIN job' = Jobs
      /\ job'[j] = [pc |-> "refused", item |-> job[j].item, kind |-> "sync",
                    batch |-> job[j].batch, alone |-> job[j].alone]
      /\ \A i \in Jobs \ {j} : job'[i] = job[i]
      /\ UNCHANGED << product, shown, tasks, retired, outrun, unmarked >>
  <2>1. job'[j] = [job[j] EXCEPT !.pc = "refused"]
    BY DEF FindNothing, SyncInv
  <2>2. job'[j] = [pc |-> "refused", item |-> job[j].item, kind |-> "sync",
                   batch |-> job[j].batch, alone |-> job[j].alone]
    BY <1>1, <2>1
  <2>q. QED BY <2>2 DEF FindNothing, SyncInv
<1>3. \A i \in Jobs : JobShape(i)'
  <2>1. job'[j].pc = "refused" /\ job'[j].item = job[j].item /\ job'[j].kind = "sync"
        /\ job'[j].batch = job[j].batch /\ job'[j].alone = job[j].alone
    BY <1>2
  <2>2. JobShape(j)'
    BY <1>1, <1>2, <2>1 DEF JobShape
  <2>3. ASSUME NEW i \in Jobs \ {j} PROVE JobShape(i)'
    BY <1>2 DEF SyncInv, JobShape
  <2>q. QED BY <2>2, <2>3
<1>4. \A i \in Jobs : \A x \in Products :
            /\ IsAt(i, x)' <=> IsAt(i, x)
            /\ Syncing(i, x)' <=> Syncing(i, x)
            /\ Deleting(i, x)' <=> Deleting(i, x)
            /\ Posted(i)' => Posted(i)
            /\ job'[i].batch = job[i].batch
            /\ job'[i].alone = job[i].alone
  BY <1>1, <1>2 DEF IsAt, Syncing, Deleting, Posted
<1>s. \A x \in Products :
         /\ (UpToDate(x)' <=> UpToDate(x)) /\ (Gone(x)' <=> Gone(x))
         /\ \A i \in Jobs : Loaded(i, x)' <=> Loaded(i, x)
  BY <1>2, <1>4, OfferStays DEF SameOffer
<1>5. LoneJobs'
  BY <1>2, <1>4, <1>s DEF SyncInv, LoneJobs
<1>6. SoundJobs'
  BY <1>2, <1>4, <1>s DEF SyncInv, SoundJobs
<1>7. DeletedInTime' /\ DeletesAreForDeleted' /\ StatusIsSo'
  BY <1>2, <1>4, <1>s DEF SyncInv, DeletedInTime, DeletesAreForDeleted, StatusIsSo
<1>q. QED BY <1>2, <1>3, <1>5, <1>6, <1>7 DEF SyncInv

LEMMA RecordSyncPreserves ==
    ASSUME SyncInv, NEW j \in Jobs, RecordSync(j)
    PROVE  SyncInv'
<1> DEFINE p == job[j].item
<1>1. Syncing(j, p) /\ Posted(j) /\ p \in Products
  BY DEF RecordSync, SyncInv, JobShape, Free, Syncing, IsAt, Posted
<1>2. job' = [job EXCEPT ![j] = Free]
  BY DEF RecordSync
<1>3. /\ UNCHANGED << shown, tasks, retired >>
      /\ product' = [product EXCEPT ![p].status = "synced"]
      /\ outrun' \subseteq outrun /\ outrun \ {p} \subseteq outrun'
      /\ unmarked' \subseteq unmarked /\ unmarked \ {p} \subseteq unmarked'
      /\ p \in (outrun \ outrun') \cup (unmarked \ unmarked')
            => job[j].alone /\ ~ product[p].deleted
  BY DEF RecordSync
<1>4. /\ product' \in [Products -> ProductRow]
      /\ product'[p].status = "synced"
      /\ \A x \in Products \ {p} : product'[x] = product[x]
      /\ \A x \in Products : SameOffer(x) /\ product'[x].deleted = product[x].deleted
  BY <1>1, <1>3 DEF SyncInv, ProductRow, SyncStatus, SameOffer
<1>s. \A x \in Products :
         /\ (UpToDate(x)' <=> UpToDate(x)) /\ (Gone(x)' <=> Gone(x))
         /\ \A i \in Jobs : job'[i] = job[i] => (Loaded(i, x)' <=> Loaded(i, x))
  BY <1>3, <1>4, OfferStays
<1>5. job[j].alone => /\ \A i \in Jobs \ {j} : ~ IsAt(i, p)
                      /\ ~ product[p].deleted => UpToDate(p)
  BY <1>1 DEF SyncInv, LoneJobs
<1>6. p \notin outrun => UpToDate(p)
  BY <1>1 DEF SyncInv, SoundJobs
<1>7. /\ DOMAIN job' = Jobs
      /\ \A i \in Jobs : JobShape(i)'
      /\ \A x \in Products : ~ IsAt(j, x)' /\ ~ Syncing(j, x)' /\ ~ Deleting(j, x)'
      /\ \A i \in Jobs \ {j} : job'[i] = job[i]
      /\ \A i \in Jobs \ {j} : \A x \in Products :
            /\ IsAt(i, x)' <=> IsAt(i, x)
            /\ Syncing(i, x)' <=> Syncing(i, x)
            /\ Deleting(i, x)' <=> Deleting(i, x)
            /\ Posted(i)' <=> Posted(i)
  BY <1>2, FreedJob
<1>8. LoneJobs' /\ DeletesAreForDeleted'
  <2>1. LoneJobs'
    BY <1>3, <1>4, <1>7, <1>s DEF SyncInv, LoneJobs
  <2>2. DeletesAreForDeleted'
    BY <1>3, <1>4, <1>7 DEF SyncInv, DeletesAreForDeleted
  <2>q. QED BY <2>1, <2>2
<1>9. SoundJobs' /\ DeletedInTime'
  <2>1. ASSUME NEW x \in Products \ outrun', NEW i \in Jobs \ {j}
        PROVE  /\ Syncing(i, x) => Loaded(i, x)
               /\ Syncing(i, x) /\ Posted(i) => UpToDate(x)
               /\ Deleting(i, x) /\ Posted(i) => Gone(x)
    <3>1. x \in outrun => x = p /\ ~ IsAt(i, x)
      BY <1>3, <1>5, <2>1
    <3>2. x \in outrun => ~ Syncing(i, x) /\ ~ Deleting(i, x)
      BY <3>1 DEF Syncing, Deleting
    <3>q. QED BY <2>1, <3>2 DEF SyncInv, SoundJobs
  <2>2. SoundJobs'
    BY <1>3, <1>4, <1>7, <1>s, <2>1 DEF SoundJobs
  <2>3. \A x \in Products \ outrun' : product[x].deleted => x \notin outrun
    BY <1>3
  <2>4. DeletedInTime'
    BY <1>3, <1>4, <1>7, <2>3 DEF SyncInv, DeletedInTime
  <2>q. QED BY <2>2, <2>4
<1>10. StatusIsSo'
  <2>1. ASSUME NEW x \in Products \ outrun'
        PROVE  /\ product'[x].status = "synced" /\ ~ product'[x].deleted /\ x \notin unmarked' =>
                      UpToDate(x)'
               /\ x \in retired => Gone(x)
    <3>1. CASE x # p
      BY <1>3, <1>4, <1>s, <2>1, <3>1 DEF SyncInv, StatusIsSo
    <3>2. CASE x = p /\ p \notin outrun
      BY <1>4, <1>6, <1>s, <3>2 DEF SyncInv, StatusIsSo
    <3>3. CASE x = p /\ p \in outrun
      <4>1. job[j].alone /\ ~ product[p].deleted
        BY <1>3, <2>1, <3>3
      <4>2. p \notin retired
        BY <1>1, <4>1 DEF SyncInv, DeletesAreForDeleted
      <4>q. QED BY <1>4, <1>5, <1>s, <3>3, <4>1, <4>2
    <3>q. QED BY <3>1, <3>2, <3>3
  <2>q. QED BY <1>3, <1>s, <2>1 DEF StatusIsSo
<1>q. QED BY <1>3, <1>4, <1>7, <1>8, <1>9, <1>10 DEF SyncInv

\* RecordDelete, RecordFailure and LoseJob: the job is gone, and at most its product's
\* status or the tasks have changed.
LEMMA LeavePreserves ==
    ASSUME SyncInv, NEW j \in Jobs, RecordDelete(j) \/ RecordFailure(j) \/ LoseJob(j)
    PROVE  SyncInv'
<1> DEFINE p == job[j].item
<1>1. p \in Products /\ job[j].pc # "free" /\ job[j].kind \in {"sync", "delete"}
  BY DEF RecordDelete, RecordFailure, LoseJob, SyncInv, JobShape, Free
<1>2. job' = [job EXCEPT ![j] = Free]
  BY DEF RecordDelete, RecordFailure, LoseJob
<1>3. /\ UNCHANGED << shown, outrun, unmarked >>
      /\ product' \in [Products -> ProductRow]
      /\ \A x \in Products : /\ SameOffer(x)
                             /\ product'[x].deleted = product[x].deleted
                             /\ product'[x].status = "synced" => product[x].status = "synced"
  BY <1>1 DEF RecordDelete, RecordFailure, LoseJob, SyncInv, ProductRow, SyncStatus, SameOffer
<1>s. \A x \in Products :
         /\ (UpToDate(x)' <=> UpToDate(x)) /\ (Gone(x)' <=> Gone(x))
         /\ \A i \in Jobs : job'[i] = job[i] => (Loaded(i, x)' <=> Loaded(i, x))
  BY <1>3, OfferStays
<1>4. /\ tasks \subseteq tasks' /\ tasks' \subseteq tasks \cup {<< job[j].kind, p >>}
      /\ retired' \subseteq retired \cup {p}
      /\ p \in retired' \ retired => Deleting(j, p) /\ Posted(j)
  BY <1>1 DEF RecordDelete, RecordFailure, LoseJob, Deleting, IsAt, Posted
<1>5. /\ job[j].kind = "sync" => Syncing(j, p)
      /\ job[j].kind = "delete" => Deleting(j, p)
  BY <1>1 DEF Syncing, Deleting, IsAt
<1>6. LoneJobs' /\ SoundJobs'
  <2>1. /\ \A x \in Products : ~ IsAt(j, x)' /\ ~ Syncing(j, x)' /\ ~ Deleting(j, x)'
        /\ \A i \in Jobs \ {j} : job'[i] = job[i]
        /\ \A i \in Jobs \ {j} : \A x \in Products :
              /\ IsAt(i, x)' <=> IsAt(i, x)
              /\ Syncing(i, x)' <=> Syncing(i, x)
              /\ Deleting(i, x)' <=> Deleting(i, x)
              /\ Posted(i)' <=> Posted(i)
    BY <1>2, FreedJob
  <2>2. LoneJobs'
    BY <1>3, <1>s, <2>1 DEF SyncInv, LoneJobs
  <2>3. SoundJobs'
    BY <1>3, <1>s, <2>1 DEF SyncInv, SoundJobs
  <2>q. QED BY <2>2, <2>3
<1>7. DeletedInTime'
  <2>1. ASSUME NEW x \in Products, product[x].deleted, x \notin outrun
        PROVE  << "sync", x >> \notin tasks'
    <3>1. << "sync", x >> \notin tasks /\ ~ Syncing(j, x)
      BY <2>1 DEF SyncInv, DeletedInTime
    <3>q. QED BY <1>4, <1>5, <3>1
  <2>q. QED BY <1>2, <1>3, <2>1, FreedJob DEF SyncInv, DeletedInTime
<1>8. DeletesAreForDeleted'
  <2>1. ASSUME NEW x \in Products, << "delete", x >> \in tasks' \/ x \in retired'
        PROVE  product[x].deleted
    BY <1>4, <1>5, <2>1 DEF SyncInv, DeletesAreForDeleted
  <2>q. QED BY <1>2, <1>3, <2>1, FreedJob DEF SyncInv, DeletesAreForDeleted
<1>9. StatusIsSo'
  <2>1. ASSUME NEW x \in Products \ outrun
        PROVE  /\ product[x].status = "synced" /\ ~ product[x].deleted /\ x \notin unmarked =>
                      UpToDate(x)
               /\ x \in retired' => Gone(x)
    <3>1. /\ product[x].status = "synced" /\ ~ product[x].deleted /\ x \notin unmarked =>
                      UpToDate(x)
          /\ x \in retired => Gone(x)
      BY DEF SyncInv, StatusIsSo
    <3>2. Deleting(j, x) /\ Posted(j) => Gone(x)
      BY DEF SyncInv, SoundJobs
    <3>q. QED BY <1>4, <3>1, <3>2
  <2>q. QED BY <1>3, <1>s, <2>1 DEF StatusIsSo
<1>q. QED BY <1>2, <1>3, <1>6, <1>7, <1>8, <1>9, FreedJob DEF SyncInv

LEMMA SyncInvHolds == CatalogSyncSpec => []SyncInv
<1>1. CatalogSyncInit => SyncInv
  <2> SUFFICES ASSUME CatalogSyncInit PROVE SyncInv
    OBVIOUS
  <2>1. DOMAIN job = Jobs /\ DOMAIN shown = Products /\ \A j \in Jobs : job[j] = Free
    BY DEF CatalogSyncInit
  <2>2. product \in [Products -> ProductRow] /\ \A x \in Products : product[x].status = "pending"
    BY DEF CatalogSyncInit, NewRow
  <2>3. \A j \in Jobs, x \in Products : ~ IsAt(j, x) /\ ~ Syncing(j, x) /\ ~ Deleting(j, x)
    BY <2>1 DEF IsAt, Syncing, Deleting, Free
  <2>q. QED BY <2>1, <2>2, <2>3 DEF CatalogSyncInit, SyncInv, JobShape, LoneJobs, SoundJobs,
                DeletedInTime, DeletesAreForDeleted, StatusIsSo
<1>2. SyncInv /\ [CatalogSyncNext]_syncVars => SyncInv'
  <2> SUFFICES ASSUME SyncInv, [CatalogSyncNext]_syncVars PROVE SyncInv'
    OBVIOUS
  <2>1. CASE UNCHANGED syncVars
    BY <2>1 DEF syncVars, SyncInv, Loaded, UpToDate, Gone, JobShape, LoneJobs, SoundJobs, DeletedInTime,
         DeletesAreForDeleted, StatusIsSo, Syncing, Deleting, IsAt, Posted
  <2>q. QED
    BY <2>1, ChangePreserves, DeleteProductPreserves, AskForSyncPreserves, LoadPreserves,
       PostPreserves, FindNothingPreserves, RecordSyncPreserves, LeavePreserves
    DEF CatalogSyncNext
<1>q. QED BY <1>1, <1>2, PTL DEF CatalogSyncSpec

LEMMA DisturbedKeeps ==
    ASSUME SyncInv, NEW p \in Products, NEW j \in Jobs
    PROVE  /\ Disturbed(p)[j].pc = job[j].pc
           /\ job[j].pc # "free" => /\ Disturbed(p)[j].item = job[j].item
                                    /\ Disturbed(p)[j].kind = job[j].kind
                                    /\ Disturbed(p)[j].batch = job[j].batch
<1>1. CASE IsAt(j, p)
  <2>1. Disturbed(p)[j] = [pc |-> job[j].pc, item |-> p, kind |-> job[j].kind,
                           batch |-> job[j].batch, alone |-> FALSE]
    BY <1>1, DisturbedJobs
  <2>2. job[j].item = p
    BY <1>1 DEF IsAt
  <2>. QED
    BY ONLY <2>1, <2>2
<1>2. CASE ~ IsAt(j, p)
  BY <1>2, DisturbedJobs
<1>. QED
  BY <1>1, <1>2

\* What is shown, or about to be, of a product that has withdrawn none of it.
Faithful == \A p \in Products \ withdrawn : Reached(p) \subseteq Offered(product[p])

\* A step after which at most what a product offers has been added.
LEMMA ReachStays ==
    ASSUME SyncInv, Faithful, withdrawn' = withdrawn,
           \A p \in Products : Offered(product'[p]) = Offered(product[p]),
           \A p \in Products, i \in Items :
               shown'[p][i] # NotListed => shown[p][i] # NotListed \/ i \in Reached(p),
           \A p \in Products, j \in Jobs :
               Syncing(j, p)' => \/ Syncing(j, p) /\ job'[j].batch = job[j].batch
                                 \/ DOMAIN job'[j].batch = Offered(product[p])
    PROVE  Faithful'
<1>. SUFFICES ASSUME NEW p \in Products \ withdrawn, NEW i \in Reached(p)'
             PROVE  i \in Offered(product[p])
  BY DEF Faithful
<1>0. Reached(p) \subseteq Offered(product[p])
  BY DEF Faithful
<1>1. CASE i \in Items /\ shown'[p][i] # NotListed
  BY <1>0, <1>1 DEF Reached
<1>2. CASE \E j \in Jobs : Syncing(j, p)' /\ i \in DOMAIN job'[j].batch
  <2>1. PICK j \in Jobs : Syncing(j, p)' /\ i \in DOMAIN job'[j].batch
    BY <1>2
  <2>2. CASE Syncing(j, p) /\ i \in DOMAIN job[j].batch
    BY <1>0, <2>2 DEF Reached, Syncing
  <2>. QED
    BY <2>1, <2>2
<1>. QED
  BY <1>1, <1>2 DEF Reached, Syncing

LEMMA FaithfulStep == SyncInv /\ Faithful /\ [CatalogSyncNext]_syncVars => Faithful'
<1>. SUFFICES ASSUME SyncInv, Faithful, [CatalogSyncNext]_syncVars PROVE Faithful'
  OBVIOUS
<1>0. DOMAIN job = Jobs /\ DOMAIN shown = Products /\ product \in [Products -> ProductRow]
  BY DEF SyncInv
<1>1. ASSUME NEW p \in Products, UpdateProduct(p) \/ UpdateVariant(p) PROVE Faithful'
  <2>1. /\ \A x \in Products \ {p} : product'[x] = product[x]
        /\ job' = Disturbed(p) /\ shown' = shown
        /\ withdrawn' = IF Reached(p) \subseteq Offered(product'[p])
                          THEN withdrawn ELSE withdrawn \cup {p}
    BY <1>0, <1>1 DEF UpdateProduct, UpdateVariant, Changes
  <2>2. \A j \in Jobs : \A x \in Products :
            (Syncing(j, x)' <=> Syncing(j, x)) /\ (Syncing(j, x) => job'[j].batch = job[j].batch)
    <3>1. ASSUME NEW j \in Jobs PROVE job'[j].pc = job[j].pc /\
              (job[j].pc # "free" => job'[j].item = job[j].item /\ job'[j].kind = job[j].kind
                                     /\ job'[j].batch = job[j].batch)
      BY <2>1, DisturbedKeeps
    <3>. QED
      BY <3>1 DEF Syncing, IsAt
  <2>3. \A x \in Products : Reached(x)' = Reached(x)
    BY <2>1, <2>2 DEF Reached, Syncing
  <2>. QED
    BY <2>1, <2>3 DEF Faithful
<1>2. ASSUME NEW p \in Products, DeleteProduct(p) PROVE Faithful'
  <2>1. /\ \A x \in Products : product'[x].variants = product[x].variants
        /\ job' = Disturbed(p) /\ shown' = shown /\ withdrawn' = withdrawn
    BY <1>0, <1>2 DEF DeleteProduct, ProductRow
  <2>2. \A j \in Jobs : \A x \in Products :
            Syncing(j, x)' => Syncing(j, x) /\ job'[j].batch = job[j].batch
    BY <2>1, DisturbedKeeps DEF IsAt, Syncing
  <2>. QED
    BY <2>1, <2>2, ReachStays DEF Offered
<1>3. ASSUME NEW p \in Products, AskForSync(p) PROVE Faithful'
  BY <1>3 DEF AskForSync, Faithful, Reached, IsAt
<1>4. ASSUME NEW p \in Products, NEW j \in Jobs, LoadForSync(j, p) \/ LoadForDelete(j, p)
      PROVE  Faithful'
  <2>1. UNCHANGED << product, shown, withdrawn >>
    BY <1>4 DEF LoadForSync, LoadForDelete
  <2>2. ASSUME NEW i \in Jobs, NEW x \in Products, Syncing(i, x)'
        PROVE  \/ Syncing(i, x) /\ job'[i].batch = job[i].batch
               \/ DOMAIN job'[i].batch = Offered(product[x])
    <3>1. CASE i # j
      <4>1. job'[i] = Disturbed(p)[i]
        BY <1>4, <3>1, DisturbedJobs DEF LoadForSync, LoadForDelete
      <4>. QED
        BY <2>2, <4>1, DisturbedKeeps DEF IsAt, Syncing
    <3>2. CASE i = j /\ LoadForSync(j, p)
      <4>1. job'[j].item = p /\ job'[j].batch = BatchOf(product[p])
        BY <3>2, DisturbedJobs DEF LoadForSync
      <4>. QED
        BY <2>2, <3>2, <4>1 DEF Syncing, IsAt, BatchOf
    <3>3. CASE i = j /\ LoadForDelete(j, p)
      <4>1. job'[j].kind = "delete"
        BY <3>3, DisturbedJobs DEF LoadForDelete
      <4>. QED
        BY <2>2, <3>3, <4>1 DEF Syncing
    <3>. QED
      BY <1>4, <3>1, <3>2, <3>3
  <2>. QED
    BY <2>1, <2>2, ReachStays
<1>5. ASSUME NEW j \in Jobs, PostBatch(j) PROVE Faithful'
  <2>. DEFINE p == job[j].item
  <2>1. UNCHANGED << product, withdrawn >> /\ job[j].pc = "loaded"
    BY <1>5 DEF PostBatch
  <2>2. PICK took \in SUBSET DOMAIN job[j].batch, heard \in BOOLEAN :
          /\ shown' = [shown EXCEPT ![p] =
                        [i \in Items |-> IF i \in took THEN job[j].batch[i] ELSE @[i]]]
          /\ job' = [job EXCEPT ![j].pc = IF heard THEN "posted" ELSE "refused"]
    BY <1>5 DEF PostBatch
  <2>3. JobShape(j) /\ job[j] # Free
    BY <2>1 DEF SyncInv, Free
  <2>4. \A i \in Jobs : \A x \in Products :
            Syncing(i, x)' => Syncing(i, x) /\ job'[i].batch = job[i].batch
    <3>1. \A i \in Jobs \ {j} : job'[i] = job[i]
      BY <1>0, <2>2
    <3>2. /\ job'[j].item = job[j].item /\ job'[j].kind = job[j].kind
          /\ job'[j].batch = job[j].batch
      <4>1. job'[j] = [job[j] EXCEPT !.pc = IF heard THEN "posted" ELSE "refused"]
        BY <1>0, <2>2
      <4>. QED
        BY <2>3, <4>1 DEF JobShape
    <3>. QED
      BY <2>1, <3>1, <3>2 DEF Syncing, IsAt
  <2>5. ASSUME NEW x \in Products, NEW i \in Items, shown'[x][i] # NotListed
        PROVE  shown[x][i] # NotListed \/ i \in Reached(x)
    <3>1. CASE x # p \/ i \notin took
      BY <1>0, <2>2, <2>5, <3>1
    <3>2. CASE x = p /\ i \in took
      <4>1. shown'[x][i] = job[j].batch[i] /\ i \in DOMAIN job[j].batch
        BY <1>0, <2>2, <3>2
      <4>2. CASE job[j].kind = "delete"
        <5>1. job[j].batch = Removal
          BY <2>3, <4>2 DEF JobShape
        <5>. QED
          BY <2>5, <4>1, <5>1 DEF Removal
      <4>3. CASE job[j].kind = "sync"
        BY <2>1, <3>2, <4>1, <4>3 DEF Reached, IsAt
      <4>. QED
        BY <2>3, <4>2, <4>3 DEF JobShape
    <3>. QED
      BY <3>1, <3>2
  <2>. QED
    BY <2>1, <2>4, <2>5, ReachStays
<1>6. ASSUME NEW j \in Jobs, FindNothing(j) PROVE Faithful'
  <2>1. UNCHANGED << product, shown, withdrawn >> /\ job' = [job EXCEPT ![j].pc = "refused"]
        /\ job[j].pc = "loaded"
    BY <1>6 DEF FindNothing
  <2>2. \A i \in Jobs : \A x \in Products :
            Syncing(i, x)' => Syncing(i, x) /\ job'[i].batch = job[i].batch
    <3>1. \A i \in Jobs \ {j} : job'[i] = job[i]
      BY <1>0, <2>1
    <3>2. /\ job'[j].item = job[j].item /\ job'[j].kind = job[j].kind
          /\ job'[j].batch = job[j].batch
      <4>1. job'[j] = [job[j] EXCEPT !.pc = "refused"]
        BY <1>0, <2>1
      <4>2. JobShape(j) /\ job[j] # Free
        BY <2>1 DEF SyncInv, Free
      <4>. QED
        BY <4>1, <4>2 DEF JobShape
    <3>. QED
      BY <2>1, <3>1, <3>2 DEF Syncing, IsAt
  <2>. QED
    BY <2>1, <2>2, ReachStays
<1>7. ASSUME NEW j \in Jobs, RecordSync(j) \/ RecordDelete(j) \/ RecordFailure(j) \/ LoseJob(j)
      PROVE  Faithful'
  <2>1. /\ \A x \in Products : product'[x].variants = product[x].variants
        /\ shown' = shown /\ withdrawn' = withdrawn /\ job' = [job EXCEPT ![j] = Free]
    BY <1>0, <1>7 DEF RecordSync, RecordDelete, RecordFailure, LoseJob, ProductRow
  <2>2. \A i \in Jobs : \A x \in Products :
            Syncing(i, x)' => Syncing(i, x) /\ job'[i].batch = job[i].batch
    BY <2>1, FreedJob DEF Syncing, IsAt
  <2>. QED
    BY <2>1, <2>2, ReachStays DEF Offered
<1>8. CASE UNCHANGED syncVars
  BY <1>8 DEF syncVars, Faithful, Reached, IsAt
<1>. QED
  BY <1>1, <1>2, <1>3, <1>4, <1>5, <1>6, <1>7, <1>8 DEF CatalogSyncNext

\* What sync_status says of a product is so at Meta, for any number of products, variants,
\* jobs and changes, unless the product was changed while a job was at it or deleted too
\* late; and Meta shows nothing a product does not offer but what it has withdrawn.
THEOREM StatusFollows == CatalogSyncSpec => []SyncStatusIsTrue
<1>1. CatalogSyncInit => Faithful
  <2>. SUFFICES ASSUME CatalogSyncInit, NEW p \in Products PROVE Reached(p) = {}
    BY DEF Faithful
  <2>. QED
    BY DEF CatalogSyncInit, Reached, IsAt, Free
<1>2. SyncInv /\ Faithful => SyncStatusIsTrue
  <2>. SUFFICES ASSUME SyncInv, Faithful PROVE NothingElseListed
    BY DEF SyncInv, SyncStatusIsTrue
  <2>. QED
    BY DEF Faithful, NothingElseListed, Reached
<1>. QED
  BY <1>1, <1>2, FaithfulStep, SyncInvHolds, PTL DEF CatalogSyncSpec

\* What SyncInv leaves open: the batches jobs have loaded and what Meta shows.
IsBatch(batch) == \A i \in DOMAIN batch : batch[i] \in ItemData
BatchesTyped ==
    /\ CatalogSyncTypeOK
    /\ \A j \in Jobs : job[j].pc # "free" => IsBatch(job[j].batch)

LEMMA BatchesAre == /\ NotListed \in ItemData /\ IsBatch(Removal)
                    /\ \A row \in ProductRow : IsBatch(BatchOf(row))
<1>1. NotListed \in ItemData
  BY CatalogSyncAssumption DEF NotListed, ItemData
<1>2. ASSUME NEW row \in ProductRow PROVE IsBatch(BatchOf(row))
  <2>1. row.version \in 0 .. MaxVersion
    BY CatalogSyncAssumption DEF ProductRow
  <2>2. \A i \in Offered(row) : (i = Whole => row.active) \in BOOLEAN
    OBVIOUS
  <2>. QED
    BY <2>1, <2>2 DEF BatchOf, IsBatch, ItemData
<1>. QED
  BY <1>1, <1>2 DEF Removal, IsBatch

\* A step after which each job is as it was, or has loaded a version, or gone on.
LEMMA JobsTyped ==
    ASSUME SyncInv, BatchesTyped,
           \A j \in Jobs :
               /\ job'[j].pc \in {"free", "loaded", "posted", "refused"}
               /\ \/ job'[j].pc = "free"
                  \/ job[j].pc # "free" /\ job'[j].batch = job[j].batch
                  \/ IsBatch(job'[j].batch),
           product' \in [Products -> ProductRow],
           shown' \in [Products -> [Items -> ItemData]],
           tasks' \subseteq {"sync", "delete"} \X Products,
           retired' \cup outrun' \cup unmarked' \cup withdrawn' \subseteq Products
    PROVE  BatchesTyped'
  BY DEF BatchesTyped, CatalogSyncTypeOK

LEMMA BatchesStep ==
    ASSUME SyncInv, SyncInv', BatchesTyped, [CatalogSyncNext]_syncVars
    PROVE  BatchesTyped'
<1>0. /\ product' \in [Products -> ProductRow]
      /\ product \in [Products -> ProductRow]
      /\ shown \in [Products -> [Items -> ItemData]]
      /\ tasks \subseteq {"sync", "delete"} \X Products
      /\ retired \subseteq Products /\ outrun \subseteq Products /\ unmarked \subseteq Products
      /\ withdrawn \subseteq Products
      /\ DOMAIN job = Jobs
      /\ \A j \in Jobs : job[j].pc \in {"free", "loaded", "posted", "refused"}
      /\ \A j \in Jobs : job[j].pc # "free" => IsBatch(job[j].batch)
  BY DEF SyncInv, BatchesTyped, CatalogSyncTypeOK
<1>1. ASSUME NEW p \in Products, UpdateProduct(p) \/ UpdateVariant(p) \/ DeleteProduct(p)
      PROVE  BatchesTyped'
  <2>1. /\ job' = Disturbed(p) /\ shown' = shown
        /\ tasks' \subseteq tasks \cup {<< "delete", p >>}
        /\ retired' = retired /\ outrun' \subseteq outrun \cup {p} /\ unmarked' \subseteq unmarked \cup {p}
        /\ withdrawn' \subseteq withdrawn \cup {p}
    BY <1>1 DEF UpdateProduct, UpdateVariant, DeleteProduct, Changes
  <2>2. \A j \in Jobs : /\ job'[j].pc = job[j].pc
                        /\ job[j].pc # "free" => job'[j].batch = job[j].batch
    BY <2>1, DisturbedKeeps
  <2>. QED
    BY <1>0, <2>1, <2>2, JobsTyped
<1>2. ASSUME NEW p \in Products, AskForSync(p) PROVE BatchesTyped'
  BY <1>0, <1>2, JobsTyped DEF AskForSync
<1>3. ASSUME NEW p \in Products, NEW i \in Jobs, LoadForSync(i, p) \/ LoadForDelete(i, p)
      PROVE  BatchesTyped'
  <2>1. PICK row : /\ row.pc = "loaded" /\ IsBatch(row.batch)
                   /\ job' = [Disturbed(p) EXCEPT ![i] = row]
    <3>1. IsBatch(BatchOf(product[p])) /\ IsBatch(Removal)
      BY <1>0, BatchesAre
    <3>2. CASE LoadForSync(i, p)
      <4>. WITNESS [pc |-> "loaded", item |-> p, kind |-> "sync",
                    batch |-> BatchOf(product[p]), alone |-> ~ Busy(p)]
      <4>. QED
        BY <3>1, <3>2 DEF LoadForSync
    <3>3. CASE LoadForDelete(i, p)
      <4>. WITNESS [pc |-> "loaded", item |-> p, kind |-> "delete", batch |-> Removal, alone |-> FALSE]
      <4>. QED
        BY <3>1, <3>3 DEF LoadForDelete
    <3>. QED
      BY <1>3, <3>2, <3>3
  <2>2. DOMAIN Disturbed(p) = Jobs
    BY DisturbedJobs
  <2>3. \A j \in Jobs : job'[j] = IF j = i THEN row ELSE Disturbed(p)[j]
    BY <2>1, <2>2
  <2>4. \A j \in Jobs : /\ job'[j].pc \in {"free", "loaded", "posted", "refused"}
                        /\ \/ job'[j].pc = "free"
                           \/ job[j].pc # "free" /\ job'[j].batch = job[j].batch
                           \/ IsBatch(job'[j].batch)
    BY <1>0, <2>1, <2>3, DisturbedKeeps
  <2>5. /\ shown' = shown /\ tasks' \subseteq tasks
        /\ retired' = retired /\ outrun' \subseteq outrun \cup {p} /\ unmarked' = unmarked
        /\ withdrawn' = withdrawn
    BY <1>3 DEF LoadForSync, LoadForDelete
  <2>. QED
    BY <1>0, <2>4, <2>5, JobsTyped
<1>4. ASSUME NEW i \in Jobs, PostBatch(i) \/ FindNothing(i) PROVE BatchesTyped'
  <2>1. /\ job[i].pc = "loaded" /\ UNCHANGED << product, tasks, retired, outrun, unmarked, withdrawn >>
        /\ \E step \in {"posted", "refused"} : job' = [job EXCEPT ![i].pc = step]
    BY <1>4 DEF PostBatch, FindNothing
  <2>2. \A j \in Jobs : /\ job'[j].pc \in {"free", "loaded", "posted", "refused"}
                        /\ job[j].pc # "free" => job'[j].batch = job[j].batch
                        /\ job'[j].pc = "free" <=> job[j].pc = "free"
    <3>1. job[i] = [pc |-> job[i].pc, item |-> job[i].item, kind |-> job[i].kind,
                    batch |-> job[i].batch, alone |-> job[i].alone]
      BY <2>1 DEF SyncInv, JobShape, Free
    <3>2. PICK step \in {"posted", "refused"} : job' = [job EXCEPT ![i].pc = step]
      BY <2>1
    <3>3. \A j \in Jobs : job'[j] = IF j = i THEN [job[i] EXCEPT !.pc = step] ELSE job[j]
      BY <1>0, <3>2
    <3>4. job'[i].pc = step /\ job'[i].batch = job[i].batch
      BY <3>1, <3>3
    <3>. QED
      BY <1>0, <2>1, <3>3, <3>4
  <2>3. shown' \in [Products -> [Items -> ItemData]]
    <3>1. CASE FindNothing(i)
      BY <1>0, <3>1 DEF FindNothing
    <3>2. CASE PostBatch(i)
      <4>1. PICK took \in SUBSET DOMAIN job[i].batch :
              shown' = [shown EXCEPT ![job[i].item] =
                          [k \in Items |-> IF k \in took THEN job[i].batch[k] ELSE @[k]]]
        BY <3>2 DEF PostBatch
      <4>2. \A k \in took : job[i].batch[k] \in ItemData
        BY <1>0, <2>1 DEF IsBatch
      <4>3. ASSUME job[i].item \in Products
            PROVE  [k \in Items |-> IF k \in took THEN job[i].batch[k] ELSE shown[job[i].item][k]]
                     \in [Items -> ItemData]
        BY <1>0, <4>2, <4>3
      <4>. QED
        BY <1>0, <4>1, <4>3
    <3>. QED
      BY <1>4, <3>1, <3>2
  <2>. QED
    BY <1>0, <2>1, <2>2, <2>3, JobsTyped
<1>5. ASSUME NEW i \in Jobs, RecordSync(i) \/ RecordDelete(i) \/ RecordFailure(i) \/ LoseJob(i)
      PROVE  BatchesTyped'
  <2>1. /\ job[i].pc # "free" /\ job' = [job EXCEPT ![i] = Free] /\ shown' = shown
        /\ tasks' \subseteq tasks \cup {<< job[i].kind, job[i].item >>}
        /\ retired' \subseteq retired \cup {job[i].item}
        /\ outrun' \subseteq outrun /\ unmarked' \subseteq unmarked
        /\ withdrawn' = withdrawn
    BY <1>5 DEF RecordSync, RecordDelete, RecordFailure, LoseJob
  <2>2. job[i].kind \in {"sync", "delete"} /\ job[i].item \in Products
    BY <2>1 DEF SyncInv, JobShape, Free
  <2>3. \A j \in Jobs : job'[j] = IF j = i THEN Free ELSE job[j]
    BY <1>0, <2>1
  <2>4. \A j \in Jobs : /\ job'[j].pc \in {"free", "loaded", "posted", "refused"}
                        /\ \/ job'[j].pc = "free"
                           \/ job[j].pc # "free" /\ job'[j].batch = job[j].batch
    BY <1>0, <2>3 DEF Free
  <2>. QED
    BY <1>0, <2>1, <2>2, <2>4, JobsTyped
<1>6. CASE UNCHANGED syncVars
  BY <1>0, <1>6, JobsTyped DEF syncVars
<1>. QED
  BY <1>1, <1>2, <1>3, <1>4, <1>5, <1>6, Zenon DEF CatalogSyncNext

\* Products, jobs and what Meta shows: only versions a product has had are posted.
THEOREM CatalogSyncTyped == CatalogSyncSpec => []CatalogSyncTypeOK
<1>1. CatalogSyncInit => BatchesTyped
  <2>1. ASSUME CatalogSyncInit
        PROVE  product \in [Products -> ProductRow] /\ shown \in [Products -> [Items -> ItemData]]
    BY <2>1, BatchesAre DEF CatalogSyncInit, NewRow
  <2>. QED
    BY <2>1, CatalogSyncAssumption DEF CatalogSyncInit, BatchesTyped, CatalogSyncTypeOK, Free
<1>2. BatchesTyped => CatalogSyncTypeOK
  BY DEF BatchesTyped
<1>3. SyncInv /\ SyncInv' /\ BatchesTyped /\ [CatalogSyncNext]_syncVars => BatchesTyped'
  BY BatchesStep
<1>. QED
  BY <1>1, <1>2, <1>3, SyncInvHolds, PTL DEF CatalogSyncSpec
-----------------------------------------------------------------------------
(* Assistant.                                                               *)

TalkShape ==
    /\ talk = [of |-> talk.of, todo |-> talk.todo, mode |-> talk.mode,
               results |-> talk.results, held |-> talk.held, bought |-> talk.bought,
               doomed |-> talk.doomed, said |-> talk.said]
    /\ talk.todo \in Seq(Proposal)
    /\ talk.results \in Seq(Outcome)
    /\ Len(talk.results) <= Len(talk.todo)
    /\ talk.bought \in [Numbers -> PurchaseStatus]
    /\ talk.of = NoChat => talk = NoTurnNow

\* Only numbers that have been drawn are in use, and a turn keeps the orders it found.
DrawnOrders ==
    /\ drawn \in 0 .. MaxOrders
    /\ link \subseteq 1 .. drawn
    /\ \A n \in Numbers : bought[n] # "none" \/ talk.bought[n] # "none" => n <= drawn
    /\ talk.of # NoChat => \A n \in Numbers : bought[n] # "none" => talk.bought[n] # "none"

\* An action that went well still shows, unless a later one has undone it.
UndoneBy(i) ==
    \E j \in i + 1 .. Len(talk.results) :
        \/ talk.todo[j].type = "checkout"
        \/ talk.todo[j].type \in {"add", "remove"} /\ talk.todo[j].item = talk.todo[i].item
ShowsIn(i) ==
    LET p == talk.todo[i] IN
    /\ p.type = "add" => p.item \in talk.held \/ UndoneBy(i)
    /\ p.type = "remove" => p.item \notin talk.held \/ UndoneBy(i)
    /\ p.type = "cancel" => talk.bought[p.order] = "cancelled"
    /\ p.type = "return" => talk.bought[p.order] = "return_requested"
ActionsShow == \A i \in DOMAIN talk.results : talk.results[i].ok => ShowsIn(i)

\* A turn changes orders it has found, and a link it got is for one it has made.
OldAndNewOrders ==
    /\ \A i \in DOMAIN talk.todo :
            talk.todo[i].type \in {"cancel", "return"} => bought[talk.todo[i].order] # "none"
    /\ \A i \in DOMAIN talk.results : talk.results[i].link # 0 =>
            /\ talk.results[i].link \in link
            /\ talk.bought[talk.results[i].link] = "awaiting"
            /\ bought[talk.results[i].link] = "none"

\* The lines of a catalogue order that went well are in the cart.
LinesAreIn ==
    talk.mode = "catalogue" =>
        /\ \A i \in DOMAIN talk.todo : talk.todo[i].type = "add"
        /\ \A i \in DOMAIN talk.results : talk.results[i].ok => talk.todo[i].item \in talk.held

SaidIsTrue == talk.said # Unsaid => TrueOf(talk.said, talk.held, talk.bought)

TurnInv ==
    /\ bought \in [Numbers -> PurchaseStatus]
    /\ TalkShape
    /\ DrawnOrders
    /\ OpenLinksHaveRows
    /\ ActionsShow
    /\ OldAndNewOrders
    /\ LinesAreIn
    /\ SaidIsTrue

\* One action of a turn: its outcome r, and the cart and orders after it.
TurnStep(r, held, orders, doomed) ==
    /\ talk.of # NoChat /\ talk.said = Unsaid /\ Len(talk.results) < Len(talk.todo)
    /\ r \in Outcome /\ orders \in [Numbers -> PurchaseStatus]
    /\ talk' = [of |-> talk.of, todo |-> talk.todo, mode |-> talk.mode,
                results |-> Append(talk.results, r), held |-> held, bought |-> orders,
                doomed |-> doomed, said |-> Unsaid]
    /\ UNCHANGED << chat, trolley, bought, turnsCut, orphaned >>

\* What the actions of a turn do to the orders and links.
OrdersStep(r, orders) ==
    /\ drawn' \in 0 .. MaxOrders /\ drawn <= drawn'
    /\ link \subseteq link' /\ link' \subseteq 1 .. drawn'
    /\ \A n \in Numbers : talk.bought[n] # "none" => orders[n] # "none"
    /\ \A n \in Numbers : orders[n] # "none" => n <= drawn'
    /\ \A n \in link' \ link : orders[n] # "none"
    /\ \A n \in Numbers : talk.bought[n] \in {"cancelled", "return_requested"}
                            => orders[n] = talk.bought[n]
    /\ \A n \in Numbers : talk.bought[n] = "awaiting" /\ orders[n] # "awaiting"
                            => NowTo.type \in {"cancel", "return"} /\ NowTo.order = n
    /\ r.link # 0 => r.link \in link' /\ orders[r.link] = "awaiting" /\ bought[r.link] = "none"

\* What they do to the cart, and what the outcome says about both.
CartStep(r, held, orders) ==
    /\ \A x : (x \in talk.held) # (x \in held) =>
            \/ NowTo.type = "checkout"
            \/ NowTo.type \in {"add", "remove"} /\ NowTo.item = x
    /\ NowTo.type = "add" => talk.held \subseteq held
    /\ r.ok /\ NowTo.type = "add" => NowTo.item \in held
    /\ r.ok /\ NowTo.type = "remove" => NowTo.item \notin held
    /\ r.ok /\ NowTo.type = "cancel" => orders[NowTo.order] = "cancelled"
    /\ r.ok /\ NowTo.type = "return" => orders[NowTo.order] = "return_requested"

LEMMA StepPreserves ==
    ASSUME TurnInv, NEW r, NEW held, NEW orders, NEW doomed,
           TurnStep(r, held, orders, doomed), OrdersStep(r, orders), CartStep(r, held, orders)
    PROVE  TurnInv'
<1> DEFINE k == Len(talk.results) + 1
<1>1. /\ talk'.of = talk.of /\ talk'.todo = talk.todo /\ talk'.mode = talk.mode
      /\ talk'.results = Append(talk.results, r) /\ talk'.held = held /\ talk'.bought = orders
      /\ talk'.doomed = doomed /\ talk'.said = Unsaid
  BY DEF TurnStep
<1>2. /\ k \in 1 .. Len(talk.todo)
      /\ DOMAIN talk.todo = 1 .. Len(talk.todo)
      /\ DOMAIN talk.results = 1 .. k - 1
      /\ DOMAIN talk'.results = 1 .. k
      /\ Len(talk'.results) = k
      /\ talk'.results[k] = r
      /\ \A i \in 1 .. k - 1 : talk'.results[i] = talk.results[i]
      /\ talk'.results \in Seq(Outcome)
      /\ NowTo = talk.todo[k]
  BY <1>1 DEF TurnStep, TurnInv, TalkShape, NowTo
<1>3. TalkShape'
  BY <1>1, <1>2 DEF TurnStep, TurnInv, TalkShape
<1>4. DrawnOrders'
  BY <1>1 DEF TurnStep, OrdersStep, TurnInv, DrawnOrders
<1>5. OpenLinksHaveRows'
  <2>1. bought' = bought /\ orphaned' = orphaned
    BY DEF TurnStep
  <2>2. link' \subseteq Numbers
    <3>1. MaxOrders \in Nat /\ drawn' \in 0 .. MaxOrders /\ link' \subseteq 1 .. drawn'
      BY AssistantAssumption DEF OrdersStep
    <3>q. QED BY <3>1 DEF Numbers
  <2>3. ASSUME NEW n \in link'
        PROVE  bought[n] # "none" \/ orders[n] # "none" \/ n \in orphaned
    <3>1. CASE n \in link
      BY <2>2, <2>3, <3>1 DEF OrdersStep, TurnInv, OpenLinksHaveRows
    <3>2. CASE n \notin link
      BY <2>3, <3>2 DEF OrdersStep
    <3>q. QED BY <3>1, <3>2
  <2>q. QED BY <1>1, <2>1, <2>3 DEF OpenLinksHaveRows
<1>6. ActionsShow'
  <2>1. ASSUME NEW i \in 1 .. k, talk'.results[i].ok PROVE ShowsIn(i)'
    <3>1. CASE i = k
      BY <1>1, <1>2, <2>1, <3>1 DEF CartStep, ShowsIn
    <3>2. CASE i # k
      <4>1. i \in 1 .. k - 1 /\ talk.results[i].ok /\ ShowsIn(i)
        BY <1>2, <2>1, <3>2 DEF TurnInv, ActionsShow
      <4>2. UndoneBy(i) => UndoneBy(i)'
        BY <1>1, <1>2 DEF UndoneBy
      <4>3. talk.todo[i].item \in talk.held /\ talk.todo[i].item \notin held => UndoneBy(i)'
        BY <1>1, <1>2, <4>1 DEF UndoneBy, CartStep
      <4>4. talk.todo[i].item \notin talk.held /\ talk.todo[i].item \in held => UndoneBy(i)'
        BY <1>1, <1>2, <4>1 DEF UndoneBy, CartStep
      <4>5. talk.todo[i].type \in {"cancel", "return"} => talk.todo[i].order \in Numbers
        BY <1>2, <4>1 DEF TurnInv, TalkShape, Proposal
      <4>q. QED BY <1>1, <4>1, <4>2, <4>3, <4>4, <4>5 DEF ShowsIn, OrdersStep
    <3>q. QED BY <3>1, <3>2
  <2>q. QED BY <1>2, <2>1 DEF ActionsShow
<1>7. OldAndNewOrders'
  <2>1. ASSUME NEW i \in 1 .. k, talk'.results[i].link # 0
        PROVE  /\ talk'.results[i].link \in link'
               /\ orders[talk'.results[i].link] = "awaiting"
               /\ bought[talk'.results[i].link] = "none"
    <3>1. CASE i = k
      BY <1>2, <2>1, <3>1 DEF OrdersStep
    <3>2. CASE i # k
      <4>1. /\ talk'.results[i].link \in link
            /\ talk.bought[talk'.results[i].link] = "awaiting"
            /\ bought[talk'.results[i].link] = "none"
        <5>1. i \in DOMAIN talk.results /\ talk'.results[i] = talk.results[i]
          BY <1>2, <3>2
        <5>q. QED BY <2>1, <5>1 DEF TurnInv, OldAndNewOrders
      <4>2. talk'.results[i].link \in Numbers
        <5>1. MaxOrders \in Nat /\ drawn \in 0 .. MaxOrders /\ link \subseteq 1 .. drawn
          BY AssistantAssumption DEF TurnInv, DrawnOrders
        <5>2. link \subseteq Numbers
          BY <5>1 DEF Numbers
        <5>q. QED BY <4>1, <5>2
      <4>3. NowTo.type \in {"cancel", "return"} => bought[NowTo.order] # "none"
        BY <1>2 DEF TurnInv, OldAndNewOrders
      <4>q. QED BY <4>1, <4>2, <4>3 DEF OrdersStep
    <3>q. QED BY <3>1, <3>2
  <2>q. QED BY <1>1, <1>2, <2>1 DEF OldAndNewOrders, TurnInv, TurnStep
<1>8. LinesAreIn'
  <2>1. ASSUME talk.mode = "catalogue", NEW i \in 1 .. k, talk'.results[i].ok
        PROVE  talk.todo[i].item \in held
    <3>1. NowTo.type = "add" /\ talk.held \subseteq held
      BY <1>2, <2>1 DEF TurnInv, LinesAreIn, CartStep
    <3>2. CASE i = k
      BY <1>2, <2>1, <3>1, <3>2 DEF CartStep
    <3>3. CASE i # k
      <4>1. i \in DOMAIN talk.results /\ talk.results[i].ok
        BY <1>2, <2>1, <3>3
      <4>2. talk.todo[i].item \in talk.held
        BY <2>1, <4>1 DEF TurnInv, LinesAreIn
      <4>q. QED BY <3>1, <4>2
    <3>q. QED BY <3>2, <3>3
  <2>q. QED BY <1>1, <1>2, <2>1 DEF TurnInv, LinesAreIn
<1>9. SaidIsTrue'
  BY <1>1 DEF SaidIsTrue
<1>q. QED BY <1>3, <1>4, <1>5, <1>6, <1>7, <1>8, <1>9 DEF TurnInv, TurnStep

LEMMA SameOrders ==
    ASSUME TurnInv, NEW r, r.link = 0, UNCHANGED << link, drawn >>
    PROVE  OrdersStep(r, talk.bought)
<1>1. /\ MaxOrders \in Nat /\ drawn \in 0 .. MaxOrders /\ link \subseteq 1 .. drawn
      /\ \A n \in Numbers : bought[n] # "none" \/ talk.bought[n] # "none" => n <= drawn
  BY AssistantAssumption DEF TurnInv, DrawnOrders
<1>q. QED BY <1>1 DEF OrdersStep

LEMMA NowToIsProposed ==
    ASSUME TurnInv, Acting
    PROVE  /\ NowTo \in Proposal
           /\ talk.of # NoChat /\ talk.said = Unsaid /\ Len(talk.results) < Len(talk.todo)
<1>1. Len(talk.results) + 1 \in 1 .. Len(talk.todo)
  BY DEF TurnInv, TalkShape, Acting
<1>q. QED BY <1>1 DEF TurnInv, TalkShape, Acting, NowTo

\* ChangeCart, OnlyLook and ActionFails.
LEMMA CartActionsPreserve ==
    TurnInv /\ (ChangeCart \/ OnlyLook \/ ActionFails) => TurnInv'
<1>1. ASSUME TurnInv, ChangeCart PROVE TurnInv'
  <2> DEFINE held == IF NowTo.type = "add" THEN talk.held \cup {NowTo.item}
                                           ELSE talk.held \ {NowTo.item}
  <2>1. Acting /\ Fine.link = 0 /\ Fine \in Outcome /\ NowTo.type \in {"add", "remove"}
    BY <1>1, AssistantAssumption DEF ChangeCart, Usable, Fine, Outcome
  <2>2. TurnStep(Fine, held, talk.bought, talk.doomed)
    BY <1>1, <2>1, NowToIsProposed DEF TurnStep, TurnInv, TalkShape, ChangeCart
  <2>3. OrdersStep(Fine, talk.bought)
    BY <1>1, <2>1, SameOrders DEF ChangeCart
  <2>4. CartStep(Fine, held, talk.bought)
    BY <2>1 DEF CartStep
  <2>q. QED BY <1>1, <2>2, <2>3, <2>4, StepPreserves
<1>2. ASSUME TurnInv, OnlyLook PROVE TurnInv'
  <2>1. Acting /\ Fine.link = 0 /\ Fine \in Outcome /\ NowTo.type = "other"
    BY <1>2, AssistantAssumption DEF OnlyLook, Usable, Fine, Outcome
  <2>2. TurnStep(Fine, talk.held, talk.bought, talk.doomed)
    BY <1>2, <2>1, NowToIsProposed DEF TurnStep, TurnInv, TalkShape, OnlyLook
  <2>3. OrdersStep(Fine, talk.bought)
    BY <1>2, <2>1, SameOrders DEF OnlyLook
  <2>4. CartStep(Fine, talk.held, talk.bought)
    BY <2>1 DEF CartStep
  <2>q. QED BY <1>2, <2>2, <2>3, <2>4, StepPreserves
<1>3. ASSUME TurnInv, ActionFails PROVE TurnInv'
  <2>2. PICK doomed \in {talk.doomed, TRUE}, why \in Reasons :
            talk' = [talk EXCEPT !.results = Append(@, Failure(why)), !.doomed = doomed]
    BY <1>3 DEF ActionFails
  <2>1. Acting /\ Failure(why).link = 0 /\ ~Failure(why).ok /\ Failure(why) \in Outcome
    BY <1>3, AssistantAssumption DEF ActionFails, Failure, Outcome
  <2>3. TurnStep(Failure(why), talk.held, talk.bought, doomed)
    BY <1>3, <2>1, <2>2, NowToIsProposed DEF TurnStep, TurnInv, TalkShape, ActionFails
  <2>4. OrdersStep(Failure(why), talk.bought)
    BY <1>3, <2>1, SameOrders DEF ActionFails
  <2>5. CartStep(Failure(why), talk.held, talk.bought)
    BY <2>1 DEF CartStep
  <2>q. QED BY <1>3, <2>3, <2>4, <2>5, StepPreserves
<1>q. QED BY <1>1, <1>2, <1>3

LEMMA ChangeOrderPreserves == TurnInv /\ ChangeOrder => TurnInv'
<1> SUFFICES ASSUME TurnInv, ChangeOrder PROVE TurnInv'
  OBVIOUS
<1>1. PICK new \in {"cancelled", "return_requested"} :
        /\ NowTo.type = IF new = "cancelled" THEN "cancel" ELSE "return"
        /\ talk.bought[NowTo.order] \in {"awaiting", "delivered"}
        /\ talk' = [talk EXCEPT !.results = Append(@, Fine), !.bought[NowTo.order] = new]
  BY DEF ChangeOrder
<1> DEFINE orders == [talk.bought EXCEPT ![NowTo.order] = new]
<1>2. Acting /\ Fine.link = 0 /\ Fine \in Outcome
  BY AssistantAssumption DEF ChangeOrder, Usable, Fine, Outcome
<1>3. /\ NowTo.order \in Numbers
      /\ talk.bought \in [Numbers -> PurchaseStatus] /\ new \in PurchaseStatus
  <2>1. NowTo \in Proposal /\ NowTo.type \in {"cancel", "return"}
    BY <1>1, <1>2, NowToIsProposed
  <2>q. QED BY <2>1 DEF Proposal, TurnInv, TalkShape, PurchaseStatus
<1>4. TurnStep(Fine, talk.held, orders, talk.doomed)
  BY <1>1, <1>2, <1>3, NowToIsProposed DEF TurnStep, TurnInv, TalkShape, ChangeOrder
<1>5. OrdersStep(Fine, orders)
  <2>1. OrdersStep(Fine, talk.bought)
    BY <1>2, SameOrders DEF ChangeOrder
  <2>q. QED BY <1>1, <1>2, <1>3, <2>1 DEF OrdersStep
<1>6. CartStep(Fine, talk.held, orders)
  BY <1>1, <1>2, <1>3 DEF CartStep
<1>q. QED BY <1>4, <1>5, <1>6, StepPreserves

LEMMA CheckOutPreserves == TurnInv /\ CheckOut => TurnInv'
<1> SUFFICES ASSUME TurnInv, CheckOut PROVE TurnInv'
  OBVIOUS
<1> DEFINE n == drawn + 1
           orders == [talk.bought EXCEPT ![n] = "awaiting"]
<1>1. PICK answered \in BOOLEAN, opened \in BOOLEAN :
        /\ answered => opened
        /\ link' = IF opened THEN link \cup {n} ELSE link
        /\ talk' = [talk EXCEPT !.held = {}, !.bought[n] = "awaiting",
                                !.results = Append(@, IF answered THEN [Fine EXCEPT !.link = n]
                                                      ELSE Failure("other"))]
        /\ drawn' = n
  BY DEF CheckOut
<1> DEFINE r == IF answered THEN [Fine EXCEPT !.link = n] ELSE Failure("other")
<1>0. /\ r.link = (IF answered THEN n ELSE 0) /\ r.why \in {"none", "other"} /\ r.ok \in BOOLEAN
      /\ r = [ok |-> r.ok, link |-> r.link, why |-> r.why]
  BY DEF Fine, Failure
<1>2. Acting /\ NowTo.type = "checkout" /\ UNCHANGED << chat, trolley, bought, turnsCut, orphaned >>
  BY DEF CheckOut, Usable
<1>3. /\ MaxOrders \in Nat /\ drawn \in 0 .. MaxOrders /\ n \in Numbers /\ n \in 1 .. drawn'
      /\ drawn' \in 0 .. MaxOrders /\ link \subseteq 1 .. drawn
      /\ \A j \in Numbers : bought[j] # "none" \/ talk.bought[j] # "none" => j <= drawn
  BY <1>1, AssistantAssumption DEF CheckOut, TurnInv, DrawnOrders, Numbers
<1>4. bought[n] = "none" /\ talk.bought[n] = "none" /\ talk.bought \in [Numbers -> PurchaseStatus]
  BY <1>3 DEF TurnInv, TalkShape
<1>5. r \in Outcome /\ orders \in [Numbers -> PurchaseStatus]
  <2>1. r.link \in 0 .. MaxOrders
    BY <1>0, <1>3 DEF Numbers
  <2>2. orders \in [Numbers -> PurchaseStatus]
    BY <1>3, <1>4 DEF PurchaseStatus
  <2>3. r.why \in Reasons \cup {"none"}
    BY <1>0 DEF Reasons
  <2>q. QED BY ONLY <1>0, <2>1, <2>2, <2>3 DEF Outcome
<1>6. TurnStep(r, {}, orders, talk.doomed)
  BY <1>1, <1>2, <1>5, NowToIsProposed DEF TurnStep, TurnInv, TalkShape
<1>7. OrdersStep(r, orders)
  <2>1. /\ drawn <= drawn' /\ link \subseteq link' /\ link' \subseteq 1 .. drawn'
        /\ \A j \in link' \ link : j = n
    BY <1>1, <1>3
  <2>2. \A j \in Numbers : orders[j] = IF j = n THEN "awaiting" ELSE talk.bought[j]
    BY <1>4
  <2>3. r.link # 0 => r.link = n /\ n \in link'
    BY <1>0, <1>1
  <2>4. \A j \in Numbers : orders[j] # "none" => j <= drawn'
    BY <1>1, <1>3, <2>2 DEF Numbers
  <2>q. QED BY <1>1, <1>2, <1>3, <1>4, <2>1, <2>2, <2>3, <2>4 DEF OrdersStep
<1>8. CartStep(r, {}, orders)
  BY <1>2 DEF CartStep
<1>q. QED BY <1>6, <1>7, <1>8, StepPreserves

LEMMA StartPreserves ==
    ASSUME TurnInv, NEW m \in Chats, NEW todo \in Seq(Proposal), NEW mode \in Modes,
           talk.of = NoChat,
           \A i \in DOMAIN todo : todo[i].type \in {"cancel", "return"}
                                    => bought[todo[i].order] # "none",
           mode = "catalogue" => \A i \in DOMAIN todo : todo[i].type = "add",
           talk' = [of |-> m, todo |-> todo, mode |-> mode, results |-> << >>,
                    held |-> trolley, bought |-> bought, doomed |-> FALSE, said |-> Unsaid],
           UNCHANGED << chat, trolley, bought, link, drawn, turnsCut, orphaned >>
    PROVE  TurnInv'
<1>1. talk = NoTurnNow
  BY DEF TurnInv, TalkShape
<1>2. TalkShape'
  <2>1. m # NoChat
    BY AssistantAssumption
  <2>2. << >> \in Seq(Outcome) /\ Len(<< >>) = 0 /\ Len(todo) \in Nat
    OBVIOUS
  <2>q. QED BY <2>1, <2>2 DEF TalkShape, TurnInv
<1>3. DrawnOrders'
  BY DEF DrawnOrders, TurnInv
<1>4. OpenLinksHaveRows'
  <2>1. link \subseteq Numbers
    <3>1. MaxOrders \in Nat /\ drawn \in 0 .. MaxOrders /\ link \subseteq 1 .. drawn
      BY AssistantAssumption DEF TurnInv, DrawnOrders
    <3>q. QED BY <3>1 DEF Numbers
  <2>q. QED BY <1>1, <2>1 DEF OpenLinksHaveRows, TurnInv, NoTurnNow
<1>5. ActionsShow' /\ LinesAreIn' /\ OldAndNewOrders'
  <2>1. DOMAIN talk'.results = {}
    OBVIOUS
  <2>q. QED BY <2>1 DEF ActionsShow, LinesAreIn, OldAndNewOrders
<1>6. SaidIsTrue'
  BY DEF SaidIsTrue
<1>q. QED BY <1>2, <1>3, <1>4, <1>5, <1>6 DEF TurnInv

LEMMA StartsPreserve ==
    ASSUME TurnInv, NEW m \in Chats,
           StartTurn(m) \/ StartCatalogueOrder(m) \/ StartCartView(m)
    PROVE  TurnInv'
<1>1. CASE StartTurn(m)
  <2>1. PICK todo \in Proposals({p \in Proposal : p.type \in {"cancel", "return"}
                                                => bought[p.order] # "none"}) \cup {<< >>} :
            talk' = [NoTurnNow EXCEPT !.of = m, !.todo = todo, !.held = trolley,
                                      !.bought = bought]
    BY <1>1 DEF StartTurn
  <2>2. /\ todo \in Seq(Proposal)
        /\ \A i \in DOMAIN todo : todo[i].type \in {"cancel", "return"}
                                    => bought[todo[i].order] # "none"
    <3>1. CASE todo = << >>
      BY <3>1
    <3>2. CASE todo # << >>
      <4> DEFINE S == {p \in Proposal : p.type \in {"cancel", "return"}
                                            => bought[p.order] # "none"}
      <4>1. PICK k \in 1 .. MaxActions : todo \in [1 .. k -> S]
        BY <2>1, <3>2 DEF Proposals
      <4>2. S \subseteq Proposal
        OBVIOUS
      <4>q. QED BY <4>1, <4>2, AssistantAssumption
    <3>q. QED BY <3>1, <3>2
  <2>3. talk' = [of |-> m, todo |-> todo, mode |-> "actions", results |-> << >>,
                    held |-> trolley, bought |-> bought, doomed |-> FALSE, said |-> Unsaid]
    BY <2>1 DEF NoTurnNow
  <2>4. talk.of = NoChat /\ UNCHANGED << chat, trolley, bought, link, drawn, turnsCut, orphaned >>
    BY <1>1 DEF StartTurn
  <2>5. "actions" \in Modes /\ "actions" # "catalogue"
    BY DEF Modes
  <2>q. QED BY <2>2, <2>3, <2>4, <2>5, StartPreserves
<1>2. CASE StartCatalogueOrder(m)
  <2>1. PICK todo \in Proposals({p \in Proposal : p.type = "add"}) :
            talk' = [NoTurnNow EXCEPT !.of = m, !.todo = todo, !.mode = "catalogue",
                                      !.held = trolley, !.bought = bought]
    BY <1>2 DEF StartCatalogueOrder
  <2>2. todo \in Seq(Proposal) /\ \A i \in DOMAIN todo : todo[i].type = "add"
    <3> DEFINE S == {p \in Proposal : p.type = "add"}
    <3>1. PICK k \in 1 .. MaxActions : todo \in [1 .. k -> S]
      BY <2>1 DEF Proposals
    <3>2. S \subseteq Proposal /\ \A p \in S : p.type = "add"
      OBVIOUS
    <3>q. QED BY <3>1, <3>2, AssistantAssumption
  <2>3. talk' = [of |-> m, todo |-> todo, mode |-> "catalogue", results |-> << >>,
                    held |-> trolley, bought |-> bought, doomed |-> FALSE, said |-> Unsaid]
    BY <2>1 DEF NoTurnNow
  <2>4. "catalogue" \in Modes
    BY DEF Modes
  <2>5. \A i \in DOMAIN todo : todo[i].type \in {"cancel", "return"}
                                    => bought[todo[i].order] # "none"
    BY <2>2
  <2>q. QED BY <1>2, <2>2, <2>3, <2>4, <2>5, StartPreserves DEF StartCatalogueOrder
<1>3. CASE StartCartView(m)
  <2>1. talk' = [of |-> m, todo |-> << >>, mode |-> "view", results |-> << >>,
                    held |-> trolley, bought |-> bought, doomed |-> FALSE, said |-> Unsaid]
    BY <1>3 DEF StartCartView, NoTurnNow
  <2>2. "view" \in Modes /\ "view" # "catalogue"
    BY DEF Modes
  <2>3. << >> \in Seq(Proposal) /\ DOMAIN << >> = {}
    OBVIOUS
  <2>q. QED BY <1>3, <2>1, <2>2, <2>3, StartPreserves DEF StartCartView
<1>q. QED BY <1>1, <1>2, <1>3

\* When every action went well, the text is true of the turn's cart and orders.
LEMMA AllWentWell ==
    ASSUME TurnInv, Len(talk.results) = Len(talk.todo), Failures = {}
    PROVE  AllHold(talk.held, talk.bought)
<1>1. /\ DOMAIN talk.todo = 1 .. Len(talk.todo) /\ DOMAIN talk.results = DOMAIN talk.todo
      /\ Len(talk.todo) \in Nat
  BY DEF TurnInv, TalkShape
<1>2. ASSUME NEW i \in DOMAIN talk.todo PROVE TookEffect(i, talk.held, talk.bought)
  <2>1. ShowsIn(i)
    BY <1>1, <1>2 DEF TurnInv, ActionsShow, Failures
  <2>2. UndoneBy(i) => Undone(i)
    BY DEF UndoneBy, Undone
  <2>q. QED BY <2>1, <2>2 DEF ShowsIn, TookEffect
<1>q. QED BY <1>2 DEF AllHold

\* What a reply says, field by field.
LEMMA SaysWhat ==
    ASSUME NEW kind, NEW n
    PROVE  /\ Says(kind, n).kind = kind /\ Says(kind, n).n = n
           /\ Says(kind, n).why = "none" /\ Says(kind, n).total = "unstated"
  BY DEF Says

\* The three replies are true: to a text, to a catalogue order, to a look at the cart.
LEMMA ActionReplyTrue ==
    ASSUME TurnInv, Len(talk.results) = Len(talk.todo)
    PROVE  TrueOf(ActionReply, talk.held, talk.bought)
<1>1. CASE Failures # {}
  <2>1. Failures \in SUBSET Nat
    BY DEF Failures, TurnInv, TalkShape
  <2>2. Earliest(Failures) \in Failures
    <3>1. \E i \in Failures : \A j \in Failures : i <= j
      BY <1>1, <2>1, LeastNatural
    <3>q. QED BY <3>1 DEF Earliest
  <2> DEFINE why == talk.results[Earliest(Failures)].why
  <2>3. ActionReply.kind = "failure" /\ ActionReply.why = why
    BY <1>1 DEF ActionReply, Says
  <2>q. QED BY <2>2, <2>3 DEF TrueOf
<1>2. CASE Failures = {} /\ LinksGot # {}
  <2>1. LinksGot \in SUBSET Nat
    BY DEF LinksGot, TurnInv, TalkShape
  <2>2. Earliest(LinksGot) \in LinksGot
    <3>1. \E i \in LinksGot : \A j \in LinksGot : i <= j
      BY <1>2, <2>1, LeastNatural
    <3>q. QED BY <3>1 DEF Earliest
  <2> DEFINE n == talk.results[Earliest(LinksGot)].link
  <2>3. n \in link /\ talk.bought[n] = "awaiting"
    BY <2>2 DEF LinksGot, TurnInv, OldAndNewOrders
  <2>4. ActionReply = Says("link", n)
    BY <1>2 DEF ActionReply
  <2>5. ActionReply.kind = "link" /\ ActionReply.n = n
    BY <2>4, SaysWhat
  <2>6. AllHold(talk.held, talk.bought)
    BY <1>2, AllWentWell
  <2>q. QED BY <2>3, <2>5, <2>6 DEF TrueOf
<1>3. CASE Failures = {} /\ LinksGot = {}
  <2>1. ActionReply.kind = "text"
    BY <1>3, SaysWhat DEF ActionReply
  <2>2. AllHold(talk.held, talk.bought)
    BY <1>3, AllWentWell
  <2>q. QED BY <2>1, <2>2 DEF TrueOf
<1>q. QED BY <1>1, <1>2, <1>3

LEMMA CountTo == ASSUME NEW n \in Nat PROVE IsFiniteSet(1 .. n) /\ Cardinality(1 .. n) = n
  BY FS_Interval

LEMMA CatalogueReplyTrue ==
    ASSUME TurnInv, talk.mode = "catalogue", Len(talk.results) = Len(talk.todo)
    PROVE  TrueOf(CatalogueReply, talk.held, talk.bought)
<1> DEFINE lines == 1 .. Len(talk.results)
           added == Len(talk.results) - Cardinality(Failures)
           inCart == {i \in DOMAIN talk.todo : talk.todo[i].item \in talk.held}
<1>1. /\ Len(talk.results) \in Nat /\ DOMAIN talk.results = lines /\ DOMAIN talk.todo = lines
  BY DEF TurnInv, TalkShape
<1>2. IsFiniteSet(lines) /\ Cardinality(lines) = Len(talk.results)
  BY <1>1, CountTo
<1>3. Cardinality(lines \ Failures) = added
  <2>1. lines \cap Failures = Failures
    BY <1>1 DEF Failures
  <2>2. Cardinality(lines \ Failures) = Cardinality(lines) - Cardinality(lines \cap Failures)
    BY <1>2, FS_Difference
  <2>3. Cardinality(lines \cap Failures) = Cardinality(Failures)
    BY <2>1
  <2>q. QED BY <1>2, <2>2, <2>3
<1>4. lines \ Failures \subseteq inCart /\ inCart \subseteq lines
  BY <1>1 DEF Failures, TurnInv, LinesAreIn
<1>5. Cardinality(inCart) >= added
  <2>1. IsFiniteSet(inCart)
    BY <1>2, <1>4, FS_Subset
  <2>2. Cardinality(lines \ Failures) <= Cardinality(inCart)
    BY <1>4, <2>1, FS_Subset
  <2>3. Cardinality(inCart) \in Nat /\ Cardinality(lines \ Failures) \in Nat
    BY <1>2, <1>4, <2>1, FS_Subset, FS_CardinalityType
  <2>q. QED BY <1>3, <2>2, <2>3
<1>6. CASE added = 0
  <2>1. CatalogueReply.kind = "failure" /\ CatalogueReply.why = "stock"
    BY <1>6 DEF CatalogueReply, Says
  <2>q. QED BY <2>1 DEF TrueOf
<1>7. CASE added # 0
  <2>1. /\ CatalogueReply.kind = "added" /\ CatalogueReply.n = added
        /\ CatalogueReply.total = "0.00"
    BY <1>7 DEF CatalogueReply, Says, Stated, PricedKeys
  <2>2. inCart # {}
    <3>1. lines \ Failures # {}
      BY <1>3, <1>7, FS_EmptySet
    <3>q. QED BY <1>4, <3>1
  <2>q. QED BY <1>5, <2>1, <2>2 DEF TrueOf
<1>q. QED BY <1>6, <1>7

LEMMA CartReplyTrue == TrueOf(CartReply, talk.held, talk.bought)
<1>1. CASE talk.held = {}
  BY <1>1, SaysWhat DEF CartReply, TrueOf
<1>2. CASE talk.held # {}
  <2>1. CartReply.kind = "cart" /\ CartReply.n = 0 /\ CartReply.total = "None"
    BY <1>2 DEF CartReply, Says, Stated, PricedKeys
  <2>q. QED BY <1>2, <2>1 DEF TrueOf
<1>q. QED BY <1>1, <1>2

LEMMA ReplyTrue ==
    ASSUME TurnInv, Len(talk.results) = Len(talk.todo)
    PROVE  TrueOf(Reply, talk.held, talk.bought)
<1>1. CASE talk.mode = "catalogue"
  <2>1. Reply = CatalogueReply
    BY <1>1 DEF Reply
  <2>q. QED BY <1>1, <2>1, CatalogueReplyTrue
<1>2. CASE talk.mode = "view"
  <2>1. Reply = CartReply
    BY <1>2 DEF Reply
  <2>q. QED BY <2>1, CartReplyTrue
<1>3. CASE talk.mode \notin {"catalogue", "view"}
  <2>1. Reply = ActionReply
    BY <1>3 DEF Reply
  <2>q. QED BY <2>1, ActionReplyTrue
<1>q. QED BY <1>1, <1>2, <1>3

LEMMA SendPreserves == TurnInv /\ SendReply => TurnInv'
<1> SUFFICES ASSUME TurnInv, SendReply PROVE TurnInv'
  OBVIOUS
<1> DEFINE answer == Reply
<1>1. /\ talk' = [of |-> talk.of, todo |-> talk.todo, mode |-> talk.mode,
                  results |-> talk.results, held |-> talk.held, bought |-> talk.bought,
                  doomed |-> talk.doomed, said |-> answer]
      /\ UNCHANGED << chat, trolley, bought, link, drawn, turnsCut, orphaned >>
      /\ talk.of # NoChat
  BY DEF SendReply, TurnInv, TalkShape
<1>2. TrueOf(answer, talk.held, talk.bought)
  BY ReplyTrue DEF SendReply
<1>3. TalkShape'
  BY <1>1 DEF TurnInv, TalkShape
<1>4. DrawnOrders' /\ OpenLinksHaveRows'
  BY <1>1 DEF TurnInv, DrawnOrders, OpenLinksHaveRows
<1>5. ActionsShow'
  BY <1>1 DEF TurnInv, ActionsShow, ShowsIn, UndoneBy
<1>6. OldAndNewOrders' /\ LinesAreIn'
  BY <1>1 DEF TurnInv, OldAndNewOrders, LinesAreIn
<1>7. SaidIsTrue'
  <2> HIDE DEF answer
  <2>q. QED BY <1>1, <1>2 DEF SaidIsTrue, TrueOf, AllHold, TookEffect, Undone, Failures
<1>q. QED BY <1>1, <1>3, <1>4, <1>5, <1>6, <1>7 DEF TurnInv

\* Between turns nothing is promised but what the orders and links say.
LEMMA BetweenTurns ==
    ASSUME TurnInv, talk' = NoTurnNow, UNCHANGED << link, drawn >>,
           bought' \in [Numbers -> PurchaseStatus],
           \A n \in Numbers : bought'[n] # "none" => n <= drawn,
           OpenLinksHaveRows'
    PROVE  TurnInv'
<1>1. /\ talk'.of = NoChat /\ talk'.todo = << >> /\ talk'.mode = "actions" /\ talk'.results = << >>
      /\ talk'.bought = [n \in Numbers |-> "none"] /\ talk'.said = Unsaid
  BY DEF NoTurnNow
<1>2. TalkShape'
  <2>1. talk'.bought \in [Numbers -> PurchaseStatus]
    BY <1>1 DEF PurchaseStatus
  <2>q. QED BY <1>1, <2>1 DEF TalkShape, NoTurnNow
<1>3. DrawnOrders'
  BY <1>1 DEF DrawnOrders, TurnInv
<1>4. ActionsShow' /\ OldAndNewOrders' /\ LinesAreIn' /\ SaidIsTrue'
  BY <1>1 DEF ActionsShow, OldAndNewOrders, LinesAreIn, SaidIsTrue
<1>q. QED BY <1>2, <1>3, <1>4 DEF TurnInv

LEMMA LinksAreDrawn == TurnInv => link \subseteq Numbers
<1>1. ASSUME TurnInv PROVE MaxOrders \in Nat /\ drawn \in 0 .. MaxOrders /\ link \subseteq 1 .. drawn
  BY <1>1, AssistantAssumption DEF TurnInv, DrawnOrders
<1>q. QED BY <1>1 DEF Numbers

LEMMA EndPreserves ==
    ASSUME TurnInv, EndTurn
    PROVE  TurnInv' /\ talk.of # NoChat /\ bought' = talk.bought
<1>1. talk.of # NoChat
  BY DEF TurnInv, TalkShape, EndTurn, NoTurnNow
<1>2. OpenLinksHaveRows'
  BY <1>1, LinksAreDrawn DEF EndTurn, OpenLinksHaveRows, TurnInv, DrawnOrders
<1>3. bought' \in [Numbers -> PurchaseStatus] /\ \A n \in Numbers : bought'[n] # "none" => n <= drawn
  BY DEF EndTurn, TurnInv, TalkShape, DrawnOrders
<1>q. QED BY <1>1, <1>2, <1>3, BetweenTurns DEF EndTurn

LEMMA CutPreserves == TurnInv /\ CutTurn => TurnInv'
<1> SUFFICES ASSUME TurnInv, CutTurn PROVE TurnInv'
  OBVIOUS
<1>1. OpenLinksHaveRows'
  BY LinksAreDrawn DEF CutTurn, OpenLinksHaveRows, TurnInv
<1>2. bought' \in [Numbers -> PurchaseStatus] /\ \A n \in Numbers : bought'[n] # "none" => n <= drawn
  BY DEF CutTurn, TurnInv, DrawnOrders
<1>q. QED BY <1>1, <1>2, BetweenTurns DEF CutTurn

LEMMA OutsidePreserves ==
    ASSUME TurnInv, ShopOnline \/ \E n \in Numbers : OrderArrives(n)
    PROVE  TurnInv'
<1>1. talk' = NoTurnNow /\ UNCHANGED << link, drawn, orphaned >>
  BY DEF ShopOnline, OrderArrives, TurnInv, TalkShape
<1>2. bought' \in [Numbers -> PurchaseStatus] /\ \A n \in Numbers : bought'[n] # "none" => bought[n] # "none"
  BY DEF ShopOnline, OrderArrives, TurnInv, PurchaseStatus
<1>3. \A n \in Numbers : bought[n] # "none" => bought'[n] # "none"
  BY DEF ShopOnline, OrderArrives, TurnInv
<1>4. OpenLinksHaveRows'
  <2>1. talk = NoTurnNow
    BY DEF ShopOnline, OrderArrives, TurnInv, TalkShape
  <2>q. QED BY <1>1, <1>3, <2>1, LinksAreDrawn DEF OpenLinksHaveRows, TurnInv
<1>q. QED BY <1>1, <1>2, <1>4, BetweenTurns DEF TurnInv, DrawnOrders

LEMMA TurnInvHolds == AssistantSpec => []TurnInv
<1>1. AssistantInit => TurnInv
  <2> SUFFICES ASSUME AssistantInit PROVE TurnInv
    OBVIOUS
  <2>1. /\ talk = NoTurnNow /\ talk.of = NoChat /\ talk.todo = << >> /\ talk.mode = "actions"
        /\ talk.results = << >> /\ talk.bought = [n \in Numbers |-> "none"]
        /\ talk.said = Unsaid /\ link = {} /\ drawn = 0 /\ bought = [n \in Numbers |-> "none"]
    BY DEF AssistantInit, NoTurnNow
  <2>2. bought \in [Numbers -> PurchaseStatus] /\ MaxOrders \in Nat
    BY <2>1, AssistantAssumption DEF PurchaseStatus
  <2>3. TalkShape
    BY <2>1, <2>2 DEF TalkShape, NoTurnNow
  <2>4. DrawnOrders /\ OpenLinksHaveRows
    BY <2>1, <2>2 DEF DrawnOrders, OpenLinksHaveRows
  <2>5. ActionsShow /\ OldAndNewOrders /\ LinesAreIn /\ SaidIsTrue
    BY <2>1 DEF ActionsShow, OldAndNewOrders, LinesAreIn, SaidIsTrue
  <2>q. QED BY <2>2, <2>3, <2>4, <2>5 DEF TurnInv
<1>2. TurnInv /\ [AssistantNext]_assistantVars => TurnInv'
  <2>1. ASSUME TurnInv, AssistantNext PROVE TurnInv'
    BY <2>1, StartsPreserve, CartActionsPreserve, ChangeOrderPreserves, CheckOutPreserves,
       SendPreserves, EndPreserves, CutPreserves, OutsidePreserves DEF AssistantNext
  <2>2. ASSUME TurnInv, UNCHANGED assistantVars PROVE TurnInv'
    BY <2>2 DEF assistantVars, TurnInv, TalkShape, DrawnOrders, OpenLinksHaveRows, ActionsShow,
       ShowsIn, UndoneBy, OldAndNewOrders, LinesAreIn, SaidIsTrue, TrueOf, AllHold, TookEffect,
       Undone, Failures
  <2>q. QED BY <2>1, <2>2
<1>q. QED BY <1>1, <1>2, PTL DEF AssistantSpec

\* A payment link the gateway opened belongs to an order, committed or of the running
\* turn, whatever else went wrong in the turn; only a turn cut off leaves one without.
THEOREM LinksHaveRows == AssistantSpec => []OpenLinksHaveRows
<1>1. TurnInv => OpenLinksHaveRows
  BY DEF TurnInv
<1>q. QED BY <1>1, TurnInvHolds, PTL

\* What the shopper was told of lines, orders, links and failures, in words written
\* before the actions ran, is so when the turn commits, for every list of actions the
\* model may propose; the totals and the reason of a catalogue order are what they are.
THEOREM RepliesTold == AssistantSpec => RepliesFollowOutcomes
<1>1. ASSUME TurnInv, AssistantNext, talk.said # Unsaid, chat' # chat
      PROVE  TrueOf(talk.said, trolley', bought')
  <2>1. EndTurn
    BY <1>1 DEF AssistantNext, StartTurn, StartCatalogueOrder, StartCartView, ChangeCart, ChangeOrder, OnlyLook,
       CheckOut, ActionFails, SendReply, CutTurn, ShopOnline, OrderArrives
  <2>2. trolley' = talk.held /\ bought' = talk.bought
    BY <2>1 DEF EndTurn
  <2>q. QED BY <1>1, <2>2 DEF TurnInv, SaidIsTrue
<1>2. TurnInv /\ [AssistantNext]_assistantVars
        => [talk.said # Unsaid /\ chat' # chat => TrueOf(talk.said, trolley', bought')]_assistantVars
  BY <1>1
<1>q. QED BY <1>2, TurnInvHolds, PTL DEF AssistantSpec, RepliesFollowOutcomes

\* What TurnInv leaves open.
TurnTyped ==
    /\ chat \in [Chats -> {"pending", "processed"}]
    /\ trolley \subseteq Wares
    /\ talk.of \in Chats \cup {NoChat}
    /\ Len(talk.todo) <= MaxActions
    /\ talk.held \subseteq Wares
    /\ talk.mode \in Modes
    /\ talk.doomed \in BOOLEAN
    /\ talk.said \in Message
    /\ turnsCut \in 0 .. MaxTurnsCut
    /\ orphaned \subseteq Numbers

LEMMA SmallBounds == MaxOrders \in Nat /\ MaxActions \in Nat /\ MaxTurnsCut \in Nat
  BY AssistantAssumption

LEMMA UnsaidIsMessage == Unsaid \in Message
  BY SmallBounds DEF Unsaid, Says, Message

\* A turn that begins has no more to do than may be proposed in one reply.
LEMMA FewActions ==
    ASSUME NEW S, NEW todo \in Proposals(S) \cup {<< >>}
    PROVE  Len(todo) <= MaxActions
<1>1. CASE todo = << >>
  BY <1>1, SmallBounds
<1>2. CASE todo \in Proposals(S)
  <2>1. PICK k \in 1 .. MaxActions : todo \in [1 .. k -> S]
    BY <1>2 DEF Proposals
  <2>2. Len(todo) = k
    BY <2>1
  <2>. QED
    BY <2>1, <2>2, SmallBounds
<1>. QED
  BY <1>1, <1>2

\* What is said of the outcome of a turn names an order drawn or counts its actions.
LEMMA ReplyTyped ==
    ASSUME TurnInv, TurnTyped, Len(talk.results) = Len(talk.todo)
    PROVE  Reply \in Message
<1>. DEFINE ALL == 0 .. MaxOrders + MaxActions
            It(k, n, w, t) == [kind |-> k, n |-> n, why |-> w, total |-> t]
<1>1. /\ talk.results \in Seq(Outcome) /\ Len(talk.results) \in Nat
      /\ Len(talk.results) <= MaxActions
      /\ DOMAIN talk.results = 1 .. Len(talk.results)
  BY DEF TurnInv, TalkShape, TurnTyped
<1>2. ASSUME NEW i \in DOMAIN talk.results
      PROVE  talk.results[i].link \in 0 .. MaxOrders /\ talk.results[i].why \in Reasons \cup {"none"}
  <2>1. talk.results[i] \in Outcome
    BY <1>1
  <2>. QED
    BY ONLY <2>1 DEF Outcome
<1>3. ASSUME NEW n \in ALL, NEW k \in {"failure", "link", "text", "added", "empty", "cart"},
             NEW w \in Reasons \cup {"none"}, NEW t \in {"unstated", "0.00", "None"}
      PROVE  It(k, n, w, t) \in Message
  <2>1. /\ k \in {"unsaid", "text", "failure", "link", "added", "empty", "cart"}
        /\ t \in {"unstated", "due", "0.00", "None"}
    OBVIOUS
  <2>. QED
    BY ONLY <2>1, n \in ALL, w \in Reasons \cup {"none"} DEF Message
<1>30. 0 \in ALL /\ "none" \in Reasons \cup {"none"} /\ "stock" \in Reasons \cup {"none"}
  BY SmallBounds DEF Reasons
<1>. HIDE DEF It
<1>4. ASSUME NEW S \in SUBSET DOMAIN talk.results, S # {}
      PROVE  Earliest(S) \in DOMAIN talk.results
  <2>1. S \in SUBSET Nat
    BY <1>1
  <2>2. \E i \in S : \A j \in S : i <= j
    BY <1>4, <2>1, LeastNatural
  <2>. QED
    BY <2>2 DEF Earliest
<1>5. ActionReply \in Message
  <2>1. CASE Failures # {}
    <3>1. Failures \in SUBSET DOMAIN talk.results
      BY DEF Failures
    <3>2. talk.results[Earliest(Failures)].why \in Reasons \cup {"none"}
      BY <1>2, <1>4, <2>1, <3>1
    <3>3. ActionReply = It("failure", 0, talk.results[Earliest(Failures)].why, "unstated")
      BY <2>1 DEF ActionReply, Says, It
    <3>. QED
      BY <1>3, <1>30, <3>2, <3>3
  <2>2. CASE Failures = {} /\ LinksGot # {}
    <3>1. LinksGot \in SUBSET DOMAIN talk.results
      BY DEF LinksGot
    <3>2. talk.results[Earliest(LinksGot)].link \in 0 .. MaxOrders
      BY <1>2, <1>4, <2>2, <3>1
    <3>3. talk.results[Earliest(LinksGot)].link \in ALL
      BY ONLY <3>2, SmallBounds
    <3>4. ActionReply = It("link", talk.results[Earliest(LinksGot)].link, "none", "unstated")
      BY <2>2 DEF ActionReply, Says, It
    <3>. QED
      BY <1>3, <1>30, <3>3, <3>4
  <2>3. CASE Failures = {} /\ LinksGot = {}
    <3>1. ActionReply = It("text", 0, "none", "unstated")
      BY <2>3 DEF ActionReply, Says, It
    <3>. QED
      BY <1>3, <1>30, <3>1
  <2>. QED
    BY <2>1, <2>2, <2>3
<1>6. CatalogueReply \in Message
  <2>. DEFINE lines == 1 .. Len(talk.results)
              added == Len(talk.results) - Cardinality(Failures)
  <2>1. IsFiniteSet(lines) /\ Cardinality(lines) = Len(talk.results) /\ Failures \subseteq lines
    BY <1>1, CountTo DEF Failures
  <2>2. Cardinality(Failures) \in Nat /\ Cardinality(Failures) <= Len(talk.results)
    BY <2>1, FS_Subset, FS_CardinalityType
  <2>3. added \in ALL
    BY <1>1, <2>2, SmallBounds
  <2>4. \/ CatalogueReply = It("failure", 0, "stock", "unstated")
        \/ CatalogueReply = It("added", added, "none", "0.00")
    BY DEF CatalogueReply, Says, Stated, PricedKeys, It
  <2>. HIDE DEF added
  <2>. QED
    BY <1>3, <1>30, <2>3, <2>4
<1>7. CartReply \in Message
  <2>1. \/ CartReply = It("empty", 0, "none", "unstated")
        \/ CartReply = It("cart", 0, "none", "None")
    BY DEF CartReply, Says, Stated, PricedKeys, It
  <2>. QED
    BY <1>3, <1>30, <2>1
<1>. QED
  BY <1>5, <1>6, <1>7 DEF Reply

\* What an action leaves of a turn, and what may come into the cart.
LEMMA ActionTyped ==
    ASSUME TurnInv, TurnTyped,
           talk'.of = talk.of, talk'.todo = talk.todo, talk'.said = talk.said,
           talk'.doomed \in BOOLEAN, talk'.held \subseteq Wares, talk'.mode = talk.mode,
           UNCHANGED << chat, trolley, turnsCut, orphaned >>
    PROVE  TurnTyped'
  BY DEF TurnTyped

LEMMA TurnTypedStep ==
    ASSUME TurnInv, TurnTyped, [AssistantNext]_assistantVars
    PROVE  TurnTyped'
<1>1. ASSUME NEW m \in Chats, StartTurn(m) \/ StartCatalogueOrder(m) \/ StartCartView(m)
      PROVE  TurnTyped'
  <2>1. /\ talk'.of = m /\ talk'.held = trolley /\ talk'.doomed = FALSE /\ talk'.said = Unsaid
        /\ Len(talk'.todo) <= MaxActions /\ talk'.mode \in Modes
    <3>1. CASE StartTurn(m)
      <4>. DEFINE S == {p \in Proposal : p.type \in {"cancel", "return"} => bought[p.order] # "none"}
      <4>1. PICK todo \in Proposals(S) \cup {<< >>} :
                talk' = [NoTurnNow EXCEPT !.of = m, !.todo = todo, !.held = trolley, !.bought = bought]
        BY <3>1 DEF StartTurn
      <4>2. Len(todo) <= MaxActions
        BY FewActions
      <4>. QED
        BY ONLY <4>1, <4>2 DEF NoTurnNow, Modes
    <3>2. CASE StartCatalogueOrder(m)
      <4>. DEFINE S == {p \in Proposal : p.type = "add"}
      <4>1. PICK todo \in Proposals(S) :
                talk' = [NoTurnNow EXCEPT !.of = m, !.todo = todo, !.mode = "catalogue",
                                          !.held = trolley, !.bought = bought]
        BY <3>2 DEF StartCatalogueOrder
      <4>2. Len(todo) <= MaxActions
        BY FewActions
      <4>. QED
        BY ONLY <4>1, <4>2 DEF NoTurnNow, Modes
    <3>3. CASE StartCartView(m)
      <4>1. Len(<< >>) <= MaxActions
        BY SmallBounds
      <4>. QED
        BY <3>3, <4>1 DEF StartCartView, NoTurnNow, Modes
    <3>. QED
      BY <1>1, <3>1, <3>2, <3>3
  <2>3. UNCHANGED << chat, trolley, turnsCut, orphaned >>
    BY <1>1 DEF StartTurn, StartCatalogueOrder, StartCartView
  <2>. QED
    BY <2>1, <2>3, UnsaidIsMessage DEF TurnTyped
<1>2. CASE ChangeCart
  <2>1. Acting /\ NowTo.type \in {"add", "remove"} /\ NowTo \in Proposal
    BY <1>2, NowToIsProposed DEF ChangeCart, Usable
  <2>2. NowTo.item \in Wares
    BY <2>1 DEF Proposal
  <2>3. /\ talk'.of = talk.of /\ talk'.todo = talk.todo /\ talk'.said = talk.said
        /\ talk'.mode = talk.mode
        /\ talk'.doomed = talk.doomed /\ talk'.held \subseteq talk.held \cup {NowTo.item}
        /\ UNCHANGED << chat, trolley, turnsCut, orphaned >>
    BY <1>2 DEF ChangeCart, TurnInv, TalkShape
  <2>. QED
    BY <2>2, <2>3, ActionTyped DEF TurnTyped
<1>3. CASE ChangeOrder \/ OnlyLook \/ CheckOut
  <2>1. /\ talk'.of = talk.of /\ talk'.todo = talk.todo /\ talk'.said = talk.said
        /\ talk'.mode = talk.mode
        /\ talk'.doomed = talk.doomed /\ talk'.held \subseteq talk.held
        /\ UNCHANGED << chat, trolley, turnsCut, orphaned >>
    BY <1>3 DEF ChangeOrder, OnlyLook, CheckOut, TurnInv, TalkShape
  <2>. QED
    BY <2>1, ActionTyped DEF TurnTyped
<1>4. CASE ActionFails
  <2>1. PICK doomed \in {talk.doomed, TRUE}, why \in Reasons :
            talk' = [talk EXCEPT !.results = Append(@, Failure(why)), !.doomed = doomed]
    BY <1>4 DEF ActionFails
  <2>2. /\ talk'.of = talk.of /\ talk'.todo = talk.todo /\ talk'.said = talk.said
        /\ talk'.mode = talk.mode
        /\ talk'.doomed = doomed /\ talk'.held = talk.held
        /\ UNCHANGED << chat, trolley, turnsCut, orphaned >>
    BY <1>4, <2>1 DEF ActionFails, TurnInv, TalkShape
  <2>3. talk'.doomed \in BOOLEAN
    BY <2>2, Zenon DEF TurnTyped
  <2>. QED
    BY <2>2, <2>3, ActionTyped DEF TurnTyped
<1>5. CASE SendReply
  <2>1. talk' = [talk EXCEPT !.said = Reply]
    BY <1>5 DEF SendReply
  <2>2. Reply \in Message
    BY <1>5, ReplyTyped DEF SendReply
  <2>3. /\ talk'.of = talk.of /\ talk'.todo = talk.todo /\ talk'.said = Reply
        /\ talk'.mode = talk.mode
        /\ talk'.doomed = talk.doomed /\ talk'.held = talk.held
        /\ UNCHANGED << chat, trolley, turnsCut, orphaned >>
    BY <1>5, <2>1 DEF SendReply, TurnInv, TalkShape
  <2>. QED
    BY <2>2, <2>3 DEF TurnTyped
<1>6. CASE EndTurn \/ CutTurn \/ ShopOnline \/ \E n \in Numbers : OrderArrives(n)
  <2>1. talk' = NoTurnNow
    BY <1>6 DEF EndTurn, CutTurn, ShopOnline, OrderArrives, TurnInv, TalkShape
  <2>2. /\ talk'.of = NoChat /\ talk'.todo = << >> /\ talk'.held = {} /\ talk'.doomed = FALSE
        /\ talk'.mode \in Modes /\ talk'.said = Unsaid /\ Len(<< >>) = 0
    BY <2>1 DEF NoTurnNow, Modes
  <2>3. chat' \in [Chats -> {"pending", "processed"}] /\ trolley' \subseteq Wares
    BY <1>6 DEF EndTurn, CutTurn, ShopOnline, OrderArrives, TurnTyped
  <2>4. turnsCut' \in 0 .. MaxTurnsCut /\ orphaned' \subseteq Numbers
    BY <1>6, SmallBounds DEF EndTurn, CutTurn, ShopOnline, OrderArrives, TurnTyped
  <2>. QED
    <3>1. /\ Len(talk'.todo) <= MaxActions /\ talk'.held \subseteq Wares
          /\ talk'.of \in Chats \cup {NoChat} /\ talk'.said \in Message
      BY <2>2, UnsaidIsMessage, SmallBounds
    <3>2. talk'.doomed \in BOOLEAN
      BY <2>2, Zenon
    <3>. QED
      BY ONLY <2>2, <2>3, <2>4, <3>1, <3>2 DEF TurnTyped
<1>7. CASE UNCHANGED assistantVars
  BY <1>7 DEF assistantVars, TurnTyped
<1>. QED
  BY <1>1, <1>2, <1>3, <1>4, <1>5, <1>6, <1>7, Zenon DEF AssistantNext

\* A turn and what it says: no more actions than were proposed, orders that were drawn.
THEOREM AssistantTyped == AssistantSpec => []AssistantTypeOK
<1>1. AssistantInit => TurnTyped
  <2>1. Len(<< >>) = 0
    OBVIOUS
  <2>. QED
    BY <2>1, UnsaidIsMessage, SmallBounds DEF AssistantInit, TurnTyped, NoTurnNow, Modes
<1>2. TurnInv /\ TurnTyped => AssistantTypeOK
  <2>. SUFFICES ASSUME TurnInv, TurnTyped PROVE AssistantTypeOK
    OBVIOUS
  <2>1. link \subseteq Numbers
    BY LinksAreDrawn
  <2>. QED
    BY <2>1 DEF TurnInv, TalkShape, DrawnOrders, TurnTyped, AssistantTypeOK
<1>3. TurnInv /\ TurnTyped /\ [AssistantNext]_assistantVars => TurnTyped'
  BY TurnTypedStep
<1>. QED
  BY <1>1, <1>2, <1>3, TurnInvHolds, PTL DEF AssistantSpec

-----------------------------------------------------------------------------
(* Breaker.                                                                 *)

\* Jobs whose failure is counted at the threshold or about to be counted.
Alarmed ==
    {r \in Replies : \/ reply[r].pc = "counting"
                     \/ reply[r].pc = "judging" /\ reply[r].read >= Threshold}

CountsTyped ==
    /\ failures \in Nat /\ wasted \in Nat
    /\ reply \in [Replies ->
                     [pc : {"idle", "calling", "counting", "judging", "answered", "fallback"},
                      read : Nat]]

\* Undisturbed, failures are counted one at a time and none is forgotten; what
\* goes beyond the threshold is on its way to opening the breaker.
BreakerInv ==
    /\ CountsTyped
    /\ ~ disturbed =>
         /\ \A r, s \in Counting : r = s
         /\ Counting = {} => wasted <= failures
         /\ \A r \in Counting : wasted <= reply[r].read + 1
         /\ wasted <= Threshold - 1 + Cardinality(Alarmed)

LEMMA AlarmedAreReplies ==
    /\ IsFiniteSet(Alarmed) /\ Cardinality(Alarmed) \in Nat
    /\ Cardinality(Replies) \in Nat /\ Cardinality(Alarmed) <= Cardinality(Replies)
<1>1. Alarmed \subseteq Replies
  BY DEF Alarmed
<1>. QED
  BY <1>1, BreakerAssumption, FS_Subset, FS_CardinalityType

\* A job that is neither before nor after a step among the alarmed changes nothing there.
LEMMA StaysCalm ==
    ASSUME BreakerInv, NEW r \in Replies, NEW step, NEW n \in Nat, At(r, step, n),
           step \notin {"counting", "judging"},
           reply[r].pc # "counting", reply[r].pc = "judging" => reply[r].read < Threshold
    PROVE  Alarmed' = Alarmed /\ Counting' = Counting /\ \A s \in Counting : reply'[s] = reply[s]
  BY BreakerAssumption DEF BreakerInv, CountsTyped, Alarmed, Counting, At

LEMMA CountsStep == CountsTyped /\ [BreakerNext]_breakerVars => CountsTyped'
<1>. SUFFICES ASSUME CountsTyped, [BreakerNext]_breakerVars PROVE CountsTyped'
  OBVIOUS
<1>. USE DEF CountsTyped, At, Outage, Answers
<1>1. ASSUME NEW r \in Replies, StartReply(r) \/ EndReply(r) PROVE CountsTyped'
  BY <1>1 DEF StartReply, EndReply
<1>2. ASSUME NEW r \in Replies, ModelAnswers(r) PROVE CountsTyped'
  BY <1>2 DEF ModelAnswers
<1>3. ASSUME NEW r \in Replies, ModelFails(r) PROVE CountsTyped'
  BY <1>3 DEF ModelFails
<1>4. ASSUME NEW r \in Replies, CountFailure(r) PROVE CountsTyped'
  BY <1>4 DEF CountFailure
<1>5. ASSUME NEW r \in Replies, Judge(r) PROVE CountsTyped'
  BY <1>5 DEF Judge
<1>6. CASE CountExpires \/ CooldownOver \/ UNCHANGED breakerVars
  BY <1>6 DEF CountExpires, CooldownOver, breakerVars
<1>. QED
  BY <1>1, <1>2, <1>3, <1>4, <1>5, <1>6 DEF BreakerNext

LEMMA BreakerStep == BreakerInv /\ [BreakerNext]_breakerVars => BreakerInv'
<1>. SUFFICES ASSUME BreakerInv, [BreakerNext]_breakerVars, ~ disturbed' PROVE BreakerInv'
  BY CountsStep DEF BreakerInv
<1>0. CountsTyped' /\ Cardinality(Alarmed) \in Nat /\ Threshold \in Nat
  BY CountsStep, AlarmedAreReplies, BreakerAssumption DEF BreakerInv
<1>1. ASSUME NEW r \in Replies, StartReply(r) \/ EndReply(r) PROVE BreakerInv'
  <2>1. ~ disturbed /\ failures' = failures /\ wasted' = wasted
    BY <1>1 DEF StartReply, EndReply, Outage, Answers
  <2>2. Alarmed' = Alarmed /\ Counting' = Counting /\ \A s \in Counting : reply'[s] = reply[s]
    BY <1>1, StaysCalm DEF StartReply, EndReply
  <2>. QED
    BY <1>0, <2>1, <2>2 DEF BreakerInv
<1>2. ASSUME NEW r \in Replies, ModelAnswers(r) PROVE BreakerInv'
  <2>1. ~ disturbed /\ failures' = 0 /\ wasted' = 0
    BY <1>2 DEF ModelAnswers, Outage, Answers
  <2>2. Alarmed' = Alarmed /\ Counting' = Counting /\ \A s \in Counting : reply'[s] = reply[s]
    BY <1>2, StaysCalm DEF ModelAnswers
  <2>3. \A s \in Counting : reply[s].read \in Nat
    BY DEF BreakerInv, CountsTyped, Counting
  <2>. QED
    BY <1>0, <2>1, <2>2, <2>3, BreakerAssumption DEF BreakerInv
<1>3. ASSUME NEW r \in Replies, ModelFails(r) PROVE BreakerInv'
  <2>1. /\ ~ disturbed /\ Counting = {} /\ failures' = failures /\ wasted' = wasted + 1
        /\ At(r, "counting", failures) /\ reply[r].pc = "calling"
    BY <1>3 DEF ModelFails, Outage
  <2>2. Counting' = {r} /\ reply'[r].read = failures /\ Alarmed' = Alarmed \cup {r} /\ r \notin Alarmed
    BY <2>1 DEF BreakerInv, CountsTyped, Counting, Alarmed, At
  <2>3. Cardinality(Alarmed') = Cardinality(Alarmed) + 1
    BY <2>2, AlarmedAreReplies, FS_AddElement
  <2>. QED
    BY <1>0, <2>1, <2>2, <2>3 DEF BreakerInv, CountsTyped
<1>4. ASSUME NEW r \in Replies, CountFailure(r) PROVE BreakerInv'
  <2>1. /\ ~ disturbed /\ r \in Counting /\ failures' = reply[r].read + 1 /\ wasted' = wasted
        /\ At(r, "judging", reply[r].read + 1)
    BY <1>4 DEF CountFailure, Outage, Answers, Counting
  <2>2. Counting' = {} /\ reply[r].read \in Nat /\ wasted \in Nat /\ wasted <= reply[r].read + 1
    BY <2>1 DEF BreakerInv, CountsTyped, Counting, At
  <2>3. wasted <= Threshold - 1 + Cardinality(Alarmed')
    <3>1. CASE reply[r].read + 1 >= Threshold
      <4>1. Alarmed' = Alarmed
        BY <2>1, <2>2, <3>1 DEF BreakerInv, CountsTyped, Counting, Alarmed, At
      <4>. QED
        BY <2>1, <4>1 DEF BreakerInv
    <3>2. CASE reply[r].read + 1 < Threshold
      <4>1. Alarmed' \subseteq Replies
        BY DEF Alarmed
      <4>2. Cardinality(Alarmed') \in Nat
        BY <4>1, BreakerAssumption, FS_Subset, FS_CardinalityType
      <4>. QED
        BY <1>0, <2>2, <3>2, <4>2
    <3>. QED
      BY <1>0, <2>2, <3>1, <3>2
  <2>. QED
    BY <1>0, <2>1, <2>2, <2>3 DEF BreakerInv
<1>5. ASSUME NEW r \in Replies, Judge(r) PROVE BreakerInv'
  <2>1. /\ ~ disturbed /\ failures' = failures /\ At(r, "fallback", 0) /\ reply[r].pc = "judging"
        /\ \/ reply[r].read >= Threshold /\ wasted' = 0
           \/ reply[r].read < Threshold /\ wasted' = wasted
    BY <1>5 DEF Judge, Outage, Answers
  <2>2. CASE reply[r].read >= Threshold /\ wasted' = 0
    <3>1. Counting' = Counting /\ \A s \in Counting : reply'[s] = reply[s] /\ reply[s].read \in Nat
      BY <2>1 DEF BreakerInv, CountsTyped, Counting, At
    <3>2. Alarmed' \subseteq Replies
      BY DEF Alarmed
    <3>3. Cardinality(Alarmed') \in Nat
      BY <3>2, BreakerAssumption, FS_Subset, FS_CardinalityType
    <3>. QED
      BY <1>0, <2>1, <2>2, <3>1, <3>3, BreakerAssumption DEF BreakerInv, CountsTyped
  <2>3. CASE reply[r].read < Threshold /\ wasted' = wasted
    <3>1. Alarmed' = Alarmed /\ Counting' = Counting /\ \A s \in Counting : reply'[s] = reply[s]
      BY <2>1, <2>3, StaysCalm
    <3>. QED
      BY <1>0, <2>1, <2>3, <3>1 DEF BreakerInv
  <2>. QED
    BY <2>1, <2>2, <2>3
<1>6. CASE CountExpires
  <2>1. /\ ~ disturbed /\ wasted' = 0 /\ failures' = 0 /\ Alarmed' = Alarmed /\ Counting' = Counting
        /\ reply' = reply
    BY <1>6 DEF CountExpires, Alarmed, Counting
  <2>2. \A s \in Counting : reply[s].read \in Nat
    BY DEF BreakerInv, CountsTyped, Counting
  <2>. QED
    BY <1>0, <2>1, <2>2, BreakerAssumption DEF BreakerInv
<1>7. CASE CooldownOver \/ UNCHANGED breakerVars
  <2>1. /\ ~ disturbed /\ wasted' = wasted /\ failures' = failures /\ reply' = reply
        /\ Alarmed' = Alarmed /\ Counting' = Counting
    BY <1>7 DEF CooldownOver, breakerVars, Alarmed, Counting
  <2>. QED
    BY <1>0, <2>1 DEF BreakerInv
<1>. QED
  BY <1>1, <1>2, <1>3, <1>4, <1>5, <1>6, <1>7 DEF BreakerNext

\* Failures that do not overlap open the breaker in time, for any threshold and
\* any number of jobs whose calls are out.
THEOREM OpensInTime == ASSUME Replies # {} PROVE BreakerSpec => []BreakerOpensInTime
<1>1. BreakerInit => BreakerInv
  <2>. SUFFICES ASSUME BreakerInit PROVE BreakerInv
    OBVIOUS
  <2>1. CountsTyped /\ Counting = {} /\ wasted = 0
    BY DEF BreakerInit, CountsTyped, Counting
  <2>. QED
    BY <2>1, AlarmedAreReplies, BreakerAssumption DEF BreakerInv, CountsTyped
<1>2. BreakerInv => BreakerOpensInTime
  BY AlarmedAreReplies, BreakerAssumption DEF BreakerInv, BreakerOpensInTime, CountsTyped
<1>. QED
  BY <1>1, <1>2, BreakerStep, PTL DEF BreakerSpec

\* The flag and the count of the breaker, whatever overlaps and whatever fails.
THEOREM BreakerTyped == BreakerSpec => []BreakerTypeOK
<1>. DEFINE Flags == circuitOpen \in BOOLEAN /\ disturbed \in BOOLEAN
<1>1. BreakerInit => CountsTyped /\ Flags
  <2>. SUFFICES ASSUME BreakerInit PROVE CountsTyped /\ Flags
    OBVIOUS
  <2>1. CountsTyped
    BY DEF BreakerInit, CountsTyped
  <2>2. Flags
    BY Zenon DEF BreakerInit
  <2>. QED
    BY <2>1, <2>2
<1>2. Flags /\ [BreakerNext]_breakerVars => Flags'
  <2>. SUFFICES ASSUME Flags, [BreakerNext]_breakerVars PROVE Flags'
    OBVIOUS
  <2>0. /\ Answers => disturbed' \in BOOLEAN
        /\ Outage => disturbed' \in BOOLEAN
        /\ circuitOpen' = circuitOpen => circuitOpen' \in BOOLEAN
        /\ circuitOpen' = TRUE => circuitOpen' \in BOOLEAN
        /\ circuitOpen' = FALSE => circuitOpen' \in BOOLEAN
        /\ disturbed' = disturbed => disturbed' \in BOOLEAN
    BY Zenon DEF Answers, Outage
  <2>1. ASSUME NEW r \in Replies, StartReply(r) \/ ModelAnswers(r) \/ CountFailure(r) \/ Judge(r)
        PROVE  Flags'
    BY <2>0, <2>1, Zenon DEF StartReply, ModelAnswers, CountFailure, Judge
  <2>2. ASSUME NEW r \in Replies, ModelFails(r) PROVE Flags'
    <3>1. \/ disturbed' = (disturbed \/ Counting # {})
          \/ Outage
      BY <2>2, Zenon DEF ModelFails
    <3>2. disturbed' = (disturbed \/ Counting # {}) => disturbed' \in BOOLEAN
      BY Zenon
    <3>. QED
      BY <2>0, <2>2, <3>1, <3>2, Zenon DEF ModelFails
  <2>3. ASSUME NEW r \in Replies, EndReply(r) PROVE Flags'
    BY <2>0, <2>3, Zenon DEF EndReply
  <2>4. CASE CountExpires \/ CooldownOver \/ UNCHANGED breakerVars
    BY <2>0, <2>4, Zenon DEF CountExpires, CooldownOver, breakerVars
  <2>. QED
    BY <2>1, <2>2, <2>3, <2>4, Zenon DEF BreakerNext
<1>3. CountsTyped /\ Flags => BreakerTypeOK
  BY DEF CountsTyped, BreakerTypeOK
<1>. QED
  BY <1>1, <1>2, <1>3, CountsStep, PTL DEF BreakerSpec

-----------------------------------------------------------------------------
(* Memory.                                                                  *)

LEMMA MaxOfTwo ==
    ASSUME NEW x \in Int, NEW y \in Int
    PROVE  Max({x, y}) = IF x >= y THEN x ELSE y
  BY DEF Max

\* A text weighs a number, and without wide characters its length.
LEMMA WeightType ==
    ASSUME NEW s \in Seq(Entry)
    PROVE  /\ WeightOf(s) \in Nat
           /\ (wide = {} \/ Len(s) = 0) => WeightOf(s) = Len(s)
<1>. DEFINE heavy == {i \in DOMAIN s : s[i].turn \in wide}
<1>1. Len(s) \in Nat /\ DOMAIN s = 1 .. Len(s)
  BY LenProperties
<1>2. IsFiniteSet(heavy) /\ Cardinality(heavy) \in Nat
  <2>1. IsFiniteSet(1 .. Len(s)) /\ heavy \subseteq 1 .. Len(s)
    BY <1>1, FS_Interval
  <2>. HIDE DEF heavy
  <2>. QED
    BY <2>1, FS_Subset, FS_CardinalityType
<1>3. (wide = {} \/ Len(s) = 0) => heavy = {}
  BY <1>1
<1>4. Cardinality({}) = 0
  BY FS_EmptySet
<1>5. WideWeight - 1 \in Nat
  BY MemoryAssumption
<1>6. WeightOf(s) = Len(s) + (WideWeight - 1) * Cardinality(heavy)
  BY DEF WeightOf
<1>7. (WideWeight - 1) * Cardinality(heavy) \in Nat
  BY <1>2, <1>5
<1>8. (wide = {} \/ Len(s) = 0) => (WideWeight - 1) * Cardinality(heavy) = 0
  <2>1. (WideWeight - 1) * 0 = 0
    BY <1>5
  <2>. QED
    BY <1>3, <1>4, <2>1
<1>. HIDE DEF heavy
<1>. QED
  BY <1>1, <1>6, <1>7, <1>8

LEMMA NewestType ==
    ASSUME NEW s \in Seq(Entry), NEW n \in 0 .. Len(s)
    PROVE  /\ Newest(s, n) \in Seq(Entry) /\ Len(Newest(s, n)) = n
           /\ Range(Newest(s, n)) \subseteq Range(s)
           /\ n = Len(s) => Newest(s, n) = s
<1>1. Len(s) \in Nat /\ DOMAIN s = 1 .. Len(s) /\ s \in [1 .. Len(s) -> Entry]
  BY LenProperties
<1>2. Len(s) - n + 1 \in 1 .. Len(s) + 1
  BY <1>1
<1>3. /\ Newest(s, n) \in Seq(Entry) /\ Len(Newest(s, n)) = n
      /\ \A i \in 1 .. n : Newest(s, n)[i] = s[Len(s) - n + i]
  <2>1. \A i \in Len(s) - n + 1 .. Len(s) : s[i] \in Entry
    BY <1>1
  <2>. DEFINE m == Len(s) - n + 1
  <2>2. m \in Int /\ Len(s) \in Int /\ m <= Len(s) + 1 /\ m >= 1
    BY <1>1
  <2>. QED
    BY <1>1, <2>1, <2>2, SubSeqProperties DEF Newest
<1>4. Range(Newest(s, n)) \subseteq Range(s)
  <2>1. \A i \in 1 .. n : Len(s) - n + i \in 1 .. Len(s)
    BY <1>1
  <2>2. DOMAIN Newest(s, n) = 1 .. n
    BY <1>3, LenProperties
  <2>. QED
    BY <1>1, <1>3, <2>1, <2>2 DEF Range
<1>5. ASSUME n = Len(s) PROVE Newest(s, n) = s
  <2>1. \A i \in 1 .. Len(s) : Newest(s, n)[i] = s[i]
    BY <1>1, <1>3, <1>5
  <2>2. Newest(s, n) \in [1 .. Len(s) -> Entry]
    BY <1>3, <1>5, LenProperties
  <2>. QED
    BY <1>1, <2>1, <2>2
<1>. QED
  BY <1>3, <1>4, <1>5

\* _trim_context: what it leaves fits, and all of it stays where all of it fits.
LEMMA TrimmedFits ==
    ASSUME NEW s \in Seq(Entry)
    PROVE  /\ Trimmed(s) \in Seq(Entry) /\ Len(Trimmed(s)) <= Len(s)
           /\ WeightOf(Trimmed(s)) <= Room
           /\ Range(Trimmed(s)) \subseteq Range(s)
           /\ WeightOf(s) <= Room => Trimmed(s) = s
<1>. DEFINE Fits(n) == /\ WeightOf(Newest(s, n)) <= Room
                       /\ \A k \in n + 1 .. Len(s) : WeightOf(Newest(s, k)) > Room
            n0 == CHOOSE n \in 0 .. Len(s) : Fits(n)
            Dropped == {k \in 0 .. Len(s) : WeightOf(Newest(s, Len(s) - k)) <= Room}
<1>0. Len(s) \in Nat /\ Room \in Nat
  BY LenProperties, MemoryAssumption
<1>1. \A n \in 0 .. Len(s) : Newest(s, n) \in Seq(Entry) /\ Len(Newest(s, n)) = n
        /\ WeightOf(Newest(s, n)) \in Nat
  BY NewestType, WeightType
<1>2. Len(s) \in Dropped
  <2>1. 0 \in 0 .. Len(s) /\ Len(s) - Len(s) = 0 /\ Len(s) \in 0 .. Len(s)
    BY <1>0
  <2>2. Len(Newest(s, 0)) = 0 /\ Newest(s, 0) \in Seq(Entry)
    BY <1>1, <2>1
  <2>3. WeightOf(Newest(s, 0)) = 0
    BY <2>2, WeightType
  <2>. QED
    BY <1>0, <2>1, <2>3
<1>3. PICK k \in Dropped : \A j \in Dropped : k <= j
  <2>1. Dropped \in SUBSET Nat /\ Dropped # {}
    BY <1>2
  <2>. HIDE DEF Dropped
  <2>. QED
    BY <2>1, LeastNatural
<1>4. Len(s) - k \in 0 .. Len(s) /\ Fits(Len(s) - k)
  <2>1. k \in 0 .. Len(s) /\ WeightOf(Newest(s, Len(s) - k)) <= Room
    BY <1>3
  <2>2. ASSUME NEW i \in (Len(s) - k) + 1 .. Len(s) PROVE WeightOf(Newest(s, i)) > Room
    <3>1. i \in 0 .. Len(s) /\ Len(s) - i \in 0 .. Len(s) /\ Len(s) - i < k
          /\ Len(s) - (Len(s) - i) = i
      BY <1>0, <2>1
    <3>2. Len(s) - i \notin Dropped
      BY <1>0, <1>3, <2>1, <3>1
    <3>3. ~ (WeightOf(Newest(s, i)) <= Room)
      BY <3>1, <3>2
    <3>. QED
      BY <1>0, <1>1, <3>1, <3>3
  <2>. QED
    BY <1>0, <2>1, <2>2
<1>. HIDE DEF Fits
<1>5. n0 \in 0 .. Len(s) /\ Fits(n0)
  BY <1>4
<1>6. Trimmed(s) = Newest(s, n0)
  BY DEF Trimmed, Fits
<1>. HIDE DEF n0
<1>7. ASSUME WeightOf(s) <= Room PROVE n0 = Len(s)
  <2>1. Newest(s, Len(s)) = s
    BY <1>0, NewestType
  <2>2. ASSUME n0 # Len(s) PROVE FALSE
    <3>1. Len(s) \in n0 + 1 .. Len(s)
      BY <1>0, <1>5, <2>2
    <3>2. WeightOf(s) > Room
      BY <1>5, <2>1, <3>1 DEF Fits
    <3>3. WeightOf(s) \in Nat
      BY WeightType
    <3>. QED
      BY <1>0, <1>7, <3>2, <3>3
  <2>. QED
    BY <2>2
<1>8. WeightOf(Newest(s, n0)) <= Room
  BY <1>5 DEF Fits
<1>9. /\ Newest(s, n0) \in Seq(Entry) /\ Len(Newest(s, n0)) = n0
      /\ Range(Newest(s, n0)) \subseteq Range(s)
      /\ n0 = Len(s) => Newest(s, n0) = s
  BY <1>5, NewestType
<1>. QED
  BY <1>0, <1>5, <1>6, <1>7, <1>8, <1>9

LEMMA TurnEntries ==
    ASSUME NEW t \in Turns
    PROVE  /\ EntriesOf(t) \in Seq(Entry) /\ Len(EntriesOf(t)) = 2
           /\ \A e \in Range(EntriesOf(t)) : e \in Entry /\ e.turn = t
<1>1. [turn |-> t, by |-> "user"] \in Entry /\ [turn |-> t, by |-> "assistant"] \in Entry
  BY DEF Entry
<1>2. EntriesOf(t) \in Seq(Entry) /\ Len(EntriesOf(t)) = 2
  BY <1>1 DEF EntriesOf
<1>3. DOMAIN EntriesOf(t) = {1, 2}
  BY DEF EntriesOf
<1>4. Range(EntriesOf(t)) = {EntriesOf(t)[1], EntriesOf(t)[2]}
  BY <1>3 DEF Range
<1>. QED
  BY <1>1, <1>2, <1>4 DEF EntriesOf

LEMMA Joined ==
    ASSUME NEW r \in Seq(Entry), NEW x \in Seq(Entry)
    PROVE  /\ r \o x \in Seq(Entry) /\ Len(r \o x) = Len(r) + Len(x)
           /\ Range(r \o x) = Range(r) \cup Range(x)
<1>. DEFINE all == r \o x
<1>1. /\ all \in Seq(Entry) /\ Len(all) = Len(r) + Len(x) /\ Len(r) \in Nat /\ Len(x) \in Nat
      /\ \A i \in 1 .. Len(all) : all[i] = IF i <= Len(r) THEN r[i] ELSE x[i - Len(r)]
  BY ConcatProperties, LenProperties
<1>2. DOMAIN all = 1 .. Len(all) /\ DOMAIN r = 1 .. Len(r) /\ DOMAIN x = 1 .. Len(x)
  BY <1>1, LenProperties
<1>. HIDE DEF all
<1>3. Range(all) \subseteq Range(r) \cup Range(x)
  <2>. SUFFICES ASSUME NEW i \in 1 .. Len(all) PROVE all[i] \in Range(r) \cup Range(x)
    BY <1>2 DEF Range
  <2>1. CASE i <= Len(r)
    <3>1. all[i] = r[i] /\ i \in 1 .. Len(r)
      BY <1>1, <2>1
    <3>. QED
      BY <1>2, <3>1 DEF Range
  <2>2. CASE ~ (i <= Len(r))
    <3>1. all[i] = x[i - Len(r)] /\ i - Len(r) \in 1 .. Len(x)
      BY <1>1, <2>2
    <3>. QED
      BY <1>2, <3>1 DEF Range
  <2>. QED
    BY <2>1, <2>2
<1>4. ASSUME NEW i \in 1 .. Len(r) PROVE r[i] \in Range(all)
  <2>1. i \in 1 .. Len(all) /\ all[i] = r[i]
    BY <1>1
  <2>. QED
    BY <1>2, <2>1 DEF Range
<1>5. ASSUME NEW i \in 1 .. Len(x) PROVE x[i] \in Range(all)
  <2>0. Len(r) + i \in 1 .. Len(all) /\ (Len(r) + i) - Len(r) = i /\ ~ (Len(r) + i <= Len(r))
    BY <1>1
  <2>1. all[Len(r) + i] = x[i]
    BY <1>1, <2>0
  <2>. QED
    BY <1>2, <2>0, <2>1 DEF Range
<1>6. Range(r) \cup Range(x) \subseteq Range(all)
  BY <1>2, <1>4, <1>5 DEF Range
<1>. QED
  BY <1>1, <1>3, <1>6 DEF all

LEMMA RememberedType ==
    ASSUME NEW m \in Memories
    PROVE  Remembered(m) \subseteq Entry /\ m.recent \in Seq(Entry) /\ m.folded \subseteq Entry
           /\ m.dry \in Nat /\ Len(m.recent) \in Nat
<1>1. m.recent \in Seq(Entry) /\ m.folded \subseteq Entry /\ m.dry \in Nat
  BY DEF Memories
<1>2. Range(m.recent) \subseteq Entry /\ Len(m.recent) \in Nat
  BY <1>1, LenProperties DEF Range
<1>. QED
  BY <1>1, <1>2 DEF Remembered

\* update_context: all of the turn and of the talk before it, while there is room.
LEMMA UpdatedMemory ==
    ASSUME NEW m \in Memories, NEW t \in Turns
    PROVE  /\ Updated(m, t) \in Memories
           /\ Updated(m, t).folded = m.folded /\ Updated(m, t).dry = m.dry
           /\ Len(Updated(m, t).recent) <= MaxRecent
           /\ WeightOf(Updated(m, t).recent) <= Room
           /\ Range(Updated(m, t).recent) \subseteq Range(m.recent) \cup Range(EntriesOf(t))
           /\ wide = {} /\ Len(m.recent) + 2 <= Room /\ Len(m.recent) + 2 <= MaxRecent
                => /\ Len(Updated(m, t).recent) = Len(m.recent) + 2
                   /\ Remembered(Updated(m, t)) = Remembered(m) \cup Range(EntriesOf(t))
<1>. DEFINE all == m.recent \o EntriesOf(t)
            kept == IF Len(all) > MaxRecent THEN Newest(all, MaxRecent) ELSE all
<1>1. m.recent \in Seq(Entry) /\ Len(m.recent) \in Nat /\ m.folded \subseteq Entry /\ m.dry \in Nat
  BY RememberedType
<1>2. EntriesOf(t) \in Seq(Entry) /\ Len(EntriesOf(t)) = 2
  BY TurnEntries
<1>3. /\ all \in Seq(Entry) /\ Len(all) = Len(m.recent) + 2
      /\ Range(all) = Range(m.recent) \cup Range(EntriesOf(t))
  BY <1>1, <1>2, Joined
<1>. HIDE DEF all
<1>4. MaxRecent \in Nat /\ Room \in Nat
  BY MemoryAssumption
<1>5. /\ kept \in Seq(Entry) /\ Len(kept) <= MaxRecent /\ Range(kept) \subseteq Range(all)
      /\ Len(all) <= MaxRecent => kept = all
  BY <1>1, <1>3, <1>4, NewestType
<1>. HIDE DEF kept
<1>6. Updated(m, t) = [m EXCEPT !.recent = Trimmed(kept)]
  BY DEF Updated, kept, all
<1>7. /\ Trimmed(kept) \in Seq(Entry) /\ Len(Trimmed(kept)) <= Len(kept)
      /\ WeightOf(Trimmed(kept)) <= Room
      /\ Range(Trimmed(kept)) \subseteq Range(kept)
      /\ WeightOf(kept) <= Room => Trimmed(kept) = kept
  BY <1>5, TrimmedFits
<1>8. /\ Updated(m, t).recent = Trimmed(kept) /\ Updated(m, t).folded = m.folded
      /\ Updated(m, t).dry = m.dry /\ Updated(m, t) \in Memories
  BY <1>6, <1>7 DEF Memories
<1>9. Len(Trimmed(kept)) <= MaxRecent
  <2>1. Len(kept) \in Nat /\ Len(Trimmed(kept)) \in Nat
    BY <1>5, <1>7, LenProperties
  <2>. QED
    BY <1>4, <1>5, <1>7, <2>1
<1>10. ASSUME wide = {}, Len(m.recent) + 2 <= Room, Len(m.recent) + 2 <= MaxRecent
       PROVE  Trimmed(kept) = all
  <2>1. kept = all
    BY <1>3, <1>5, <1>10
  <2>2. WeightOf(kept) <= Room
    BY <1>3, <1>10, <2>1, WeightType
  <2>. QED
    BY <1>7, <2>1, <2>2
<1>11. ASSUME wide = {}, Len(m.recent) + 2 <= Room, Len(m.recent) + 2 <= MaxRecent
       PROVE  /\ Len(Updated(m, t).recent) = Len(m.recent) + 2
              /\ Remembered(Updated(m, t)) = Remembered(m) \cup Range(EntriesOf(t))
  BY <1>3, <1>8, <1>10, <1>11 DEF Remembered
<1>12. Range(Updated(m, t).recent) \subseteq Range(m.recent) \cup Range(EntriesOf(t))
  BY <1>3, <1>5, <1>7, <1>8
<1>. QED
  BY <1>7, <1>8, <1>9, <1>11, <1>12

\* maybe_summarize: what it folds is still remembered.
LEMMA SummarisedMemory ==
    ASSUME NEW m \in Memories, Len(m.recent) >= 2
    PROVE  /\ Summarised(m) \in Memories
           /\ Summarised(m).dry = 0 /\ Len(Summarised(m).recent) <= 2
           /\ WeightOf(Summarised(m).recent) <= Room
           /\ Range(Summarised(m).recent) \subseteq Range(m.recent)
           /\ Remembered(Summarised(m)) = Remembered(m)
<1>. DEFINE pair == Newest(m.recent, 2)
<1>1. m.recent \in Seq(Entry) /\ Len(m.recent) \in Nat /\ 2 \in 0 .. Len(m.recent)
      /\ Remembered(m) \subseteq Entry
  BY RememberedType
<1>2. pair \in Seq(Entry) /\ Len(pair) = 2 /\ Range(pair) \subseteq Range(m.recent)
  BY <1>1, NewestType
<1>. HIDE DEF pair
<1>3. /\ Trimmed(pair) \in Seq(Entry) /\ Len(Trimmed(pair)) <= 2
      /\ WeightOf(Trimmed(pair)) <= Room /\ Range(Trimmed(pair)) \subseteq Range(m.recent)
  <2>1. /\ Trimmed(pair) \in Seq(Entry) /\ Len(Trimmed(pair)) <= Len(pair)
        /\ WeightOf(Trimmed(pair)) <= Room /\ Range(Trimmed(pair)) \subseteq Range(pair)
    BY <1>2, TrimmedFits
  <2>. QED
    BY <1>2, <2>1
<1>4. Summarised(m) = [recent |-> Trimmed(pair), folded |-> Remembered(m), dry |-> 0]
  BY DEF Summarised, pair
<1>5. Summarised(m) \in Memories /\ Remembered(Summarised(m)) = Remembered(m)
  <2>1. Summarised(m) \in Memories
    BY <1>1, <1>3, <1>4 DEF Memories
  <2>2. Remembered(Summarised(m)) = Range(Trimmed(pair)) \cup Remembered(m)
    BY <1>4 DEF Remembered
  <2>3. Range(Trimmed(pair)) \subseteq Remembered(m)
    BY <1>3 DEF Remembered
  <2>. QED
    BY <2>1, <2>2, <2>3
<1>. QED
  BY <1>3, <1>4, <1>5

-----------------------------------------------------------------------------

\* A memory has room for the turns since its last summary, and for two entries
\* more than are due when the summary has failed once.
Sound(m) ==
    /\ m \in Memories /\ m.dry <= driest
    /\ \A e \in Range(m.recent) : turn[e.turn].pc # "unsent"
    /\ wide = {} /\ driest <= 1 => Len(m.recent) < SummaryTrigger + 2 * m.dry

MemoryInv ==
    /\ MemoryTypeOK
    /\ Sound(memory)
    /\ \A t \in Turns : Sound(turn[t].seen)
    /\ TurnsRemembered

LEMMA BlankMemory ==
    /\ Blank \in Memories /\ Blank.dry = 0 /\ Len(Blank.recent) = 0 /\ Range(Blank.recent) = {}
    /\ WeightOf(Blank.recent) = 0
<1>1. Blank \in Memories /\ Blank.dry = 0 /\ Blank.recent = << >>
  BY DEF Blank, Memories
<1>2. << >> \in Seq(Entry) /\ Len(<< >>) = 0 /\ DOMAIN << >> = {}
  OBVIOUS
<1>3. WeightOf(<< >>) = 0
  BY <1>2, WeightType
<1>. QED
  BY <1>1, <1>2, <1>3 DEF Range

LEMMA MemoryStart == MemoryInit => MemoryInv
<1>. SUFFICES ASSUME MemoryInit PROVE MemoryInv
  OBVIOUS
<1>1. /\ memory = Blank /\ turn = [t \in Turns |-> [pc |-> "unsent", seen |-> Blank]]
      /\ rowHeld = NoTurn /\ wide = {} /\ overwritten = {} /\ driest = 0
  BY DEF MemoryInit
<1>2. MemoryTypeOK
  BY <1>1, BlankMemory, MemoryAssumption DEF MemoryTypeOK
<1>3. Sound(Blank)
  BY <1>1, BlankMemory, MemoryAssumption DEF Sound
<1>4. TurnsRemembered
  BY <1>1, BlankMemory, MemoryAssumption DEF TurnsRemembered
<1>. QED
  BY <1>1, <1>2, <1>3, <1>4 DEF MemoryInv

\* Steps that write nothing.
LEMMA MemoryKept ==
    ASSUME MemoryInv, MemoryTypeOK', UNCHANGED << memory, overwritten, driest >>,
           wide \subseteq wide', WeightOf(memory.recent)' <= Room,
           \A t \in Turns : /\ turn'[t].seen \in {turn[t].seen, memory, Blank}
                            /\ turn[t].pc # "unsent" => turn'[t].pc # "unsent"
                            /\ turn'[t].pc = "done" => turn[t].pc = "done"
    PROVE  MemoryInv'
<1>1. \A e : e \in Entry => e.turn \in Turns
  BY DEF Entry
<1>2. ASSUME NEW m, Sound(m) PROVE Sound(m)'
  <2>1. Range(m.recent) \subseteq Entry
    BY <1>2, RememberedType DEF Sound, Remembered
  <2>. QED
    BY <1>1, <1>2, <2>1 DEF Sound
<1>3. Sound(Blank)
  BY BlankMemory, MemoryAssumption DEF Sound, MemoryInv, MemoryTypeOK
<1>4. \A t \in Turns : Sound(turn[t].seen) /\ Sound(memory)
  BY DEF MemoryInv
<1>5. ASSUME NEW t \in Turns PROVE Sound(turn[t].seen)'
  <2>1. PICK m : m = turn'[t].seen
    OBVIOUS
  <2>2. Sound(m)
    BY <1>3, <1>4, <2>1
  <2>3. Sound(m)'
    BY <1>2, <2>2
  <2>. QED
    BY <2>1, <2>3 DEF Sound
<1>6. Sound(memory)'
  <2>1. PICK m : m = memory
    OBVIOUS
  <2>2. Sound(m)'
    BY <1>2, <1>4, <2>1 DEF MemoryInv
  <2>. QED
    BY <2>1, <2>2 DEF Sound
<1>7. TurnsRemembered'
  <2>1. Remembered(memory)' = Remembered(memory) /\ overwritten' = overwritten
    BY DEF Remembered
  <2>2. ASSUME wide' = {}, driest' <= 1, NEW t \in Turns, turn'[t].pc = "done"
        PROVE  Range(EntriesOf(t)) \subseteq Remembered(memory)' \cup overwritten'
    BY <2>1, <2>2 DEF MemoryInv, TurnsRemembered
  <2>. QED
    BY <2>2 DEF TurnsRemembered
<1>. QED
  BY <1>5, <1>6, <1>7 DEF MemoryInv

LEMMA MemoryCommit ==
    ASSUME MemoryInv, NEW t \in Turns, CommitTurn(t) PROVE MemoryInv'
<1>0. PICK seen, longer : seen = turn[t].seen /\ longer = Updated(turn[t].seen, t)
  OBVIOUS
<1>1. /\ seen \in Memories /\ Sound(seen) /\ Sound(memory) /\ memory \in Memories
      /\ turn \in [Turns -> [pc : {"unsent", "sent", "read", "answering", "done", "failed"},
                             seen : Memories]]
      /\ wide \subseteq Turns /\ overwritten \subseteq Entry /\ driest \in Nat
  BY <1>0 DEF MemoryInv, MemoryTypeOK
<1>2. /\ longer \in Memories /\ longer.dry = seen.dry /\ longer.folded = seen.folded
      /\ Len(longer.recent) <= MaxRecent /\ WeightOf(longer.recent) <= Room
      /\ Range(longer.recent) \subseteq Range(seen.recent) \cup Range(EntriesOf(t))
      /\ wide = {} /\ Len(seen.recent) + 2 <= Room /\ Len(seen.recent) + 2 <= MaxRecent
           => /\ Len(longer.recent) = Len(seen.recent) + 2
              /\ Remembered(longer) = Remembered(seen) \cup Range(EntriesOf(t))
  BY <1>0, <1>1, UpdatedMemory
<1>3. /\ \/ SummaryDue(longer) /\ memory' = Summarised(longer)
         \/ SummaryDue(longer) /\ memory' = [longer EXCEPT !.dry = @ + 1]
         \/ ~ SummaryDue(longer) /\ memory' = longer
      /\ driest' = Max({driest, memory'.dry})
      /\ overwritten' = overwritten \cup (Remembered(memory) \ Remembered(seen))
      /\ turn' = [turn EXCEPT ![t] = [pc |-> "done", seen |-> Blank]]
      /\ rowHeld' = NoTurn /\ wide' = wide
  BY <1>0 DEF CommitTurn
<1>4. /\ MaxRecent \in Nat /\ Room \in Nat /\ SummaryTrigger \in Nat /\ SummaryTrigger > 2
      /\ SummaryTrigger + 3 <= MaxRecent /\ SummaryTrigger + 3 <= Room
  BY MemoryAssumption
<1>5. /\ seen.dry \in Nat /\ Len(seen.recent) \in Nat /\ seen.dry <= driest
      /\ Len(longer.recent) \in Nat
      /\ \A e \in Range(seen.recent) : e \in Entry /\ turn[e.turn].pc # "unsent"
      /\ wide = {} /\ driest <= 1 => Len(seen.recent) < SummaryTrigger + 2 * seen.dry
  <2>1. Range(seen.recent) \subseteq Entry
    BY <1>1, RememberedType DEF Remembered
  <2>. QED
    BY <1>1, <1>2, <2>1, RememberedType DEF Sound
\* With at most one failed summary nothing is trimmed.
<1>6. ASSUME wide = {}, driest <= 1
      PROVE  /\ Len(longer.recent) = Len(seen.recent) + 2
             /\ Remembered(longer) = Remembered(seen) \cup Range(EntriesOf(t))
  BY <1>1, <1>2, <1>4, <1>5, <1>6
<1>7. /\ memory' \in Memories /\ WeightOf(memory'.recent) <= Room
      /\ Len(memory'.recent) <= MaxRecent /\ memory'.dry \in Nat
      /\ Remembered(memory') = Remembered(longer)
      /\ Range(memory'.recent) \subseteq Range(longer.recent)
      /\ \/ memory'.dry = 0 /\ Len(memory'.recent) <= 2
         \/ memory'.dry = seen.dry + 1 /\ Len(memory'.recent) = Len(longer.recent)
         \/ /\ memory'.dry = seen.dry /\ Len(memory'.recent) = Len(longer.recent)
            /\ Len(longer.recent) < SummaryTrigger
  <2>1. CASE SummaryDue(longer) /\ memory' = Summarised(longer)
    <3>1. Len(longer.recent) >= 2
      BY <1>4, <1>5, <2>1 DEF SummaryDue
    <3>2. /\ Summarised(longer) \in Memories
          /\ Summarised(longer).dry = 0 /\ Len(Summarised(longer).recent) <= 2
          /\ WeightOf(Summarised(longer).recent) <= Room
          /\ Range(Summarised(longer).recent) \subseteq Range(longer.recent)
          /\ Remembered(Summarised(longer)) = Remembered(longer)
      BY <1>2, <3>1, SummarisedMemory
    <3>3. Len(Summarised(longer).recent) \in Nat
      BY <3>2, RememberedType
    <3>. QED
      BY <1>4, <2>1, <3>2, <3>3
  <2>2. CASE SummaryDue(longer) /\ memory' = [longer EXCEPT !.dry = @ + 1]
    <3>1. memory' \in Memories /\ memory'.recent = longer.recent /\ memory'.folded = longer.folded
          /\ memory'.dry = seen.dry + 1
      <4>1. longer \in [recent : Seq(Entry), folded : SUBSET Entry, dry : Nat]
            /\ longer.dry + 1 \in Nat
        BY <1>2, <1>5 DEF Memories
      <4>2. [longer EXCEPT !.dry = longer.dry + 1]
              = [recent |-> longer.recent, folded |-> longer.folded, dry |-> longer.dry + 1]
        BY <4>1
      <4>3. memory' = [recent |-> longer.recent, folded |-> longer.folded, dry |-> longer.dry + 1]
        BY <2>2, <4>2
      <4>4. memory' \in Memories
        BY <4>1, <4>3 DEF Memories
      <4>. QED
        BY <1>2, <4>3, <4>4
    <3>. QED
      BY <1>2, <1>5, <3>1 DEF Remembered
  <2>3. CASE ~ SummaryDue(longer) /\ memory' = longer
    BY <1>2, <1>4, <1>5, <2>3 DEF SummaryDue
  <2>. QED
    BY <1>3, <2>1, <2>2, <2>3
<1>8. driest' \in Nat /\ driest <= driest' /\ memory'.dry <= driest'
  <2>1. driest \in Int /\ memory'.dry \in Int
    BY <1>1, <1>7
  <2>2. Max({driest, memory'.dry}) = IF driest >= memory'.dry THEN driest ELSE memory'.dry
    BY ONLY <2>1, MaxOfTwo
  <2>. QED
    BY <1>1, <1>3, <1>7, <2>2
<1>9. /\ \A u \in Turns : turn'[u] = IF u = t THEN [pc |-> "done", seen |-> Blank] ELSE turn[u]
      /\ Blank \in Memories
  BY <1>1, <1>3, BlankMemory
<1>10. MemoryTypeOK'
  <2>1. turn' \in [Turns -> [pc : {"unsent", "sent", "read", "answering", "done", "failed"},
                             seen : Memories]]
    BY <1>1, <1>3, <1>9
  <2>2. overwritten' \subseteq Entry
    BY <1>1, <1>3, RememberedType
  <2>. QED
    BY <1>1, <1>3, <1>7, <1>8, <2>1, <2>2 DEF MemoryTypeOK
<1>11. \A u \in Turns : turn[u].pc # "unsent" => turn'[u].pc # "unsent"
  BY <1>9
<1>12. ASSUME NEW m, Sound(m) PROVE Sound(m)'
  <2>1. Range(m.recent) \subseteq Entry /\ m.dry \in Nat /\ Len(m.recent) \in Nat
    BY <1>12, RememberedType DEF Sound, Remembered
  <2>2. \A e \in Range(m.recent) : e.turn \in Turns
    BY <2>1 DEF Entry
  <2>. QED
    BY <1>1, <1>3, <1>8, <1>11, <1>12, <2>1, <2>2 DEF Sound
<1>13. Sound(Blank)'
  BY <1>4, <1>8, BlankMemory DEF Sound
<1>14. ASSUME NEW u \in Turns PROVE Sound(turn[u].seen)'
  <2>1. PICK m : m = turn'[u].seen
    OBVIOUS
  <2>2. Sound(m)'
    BY <1>9, <1>12, <1>13, <2>1 DEF MemoryInv
  <2>. QED
    BY <2>1, <2>2 DEF Sound
<1>15. Sound(memory)'
  <2>1. \A e \in Range(memory'.recent) : turn'[e.turn].pc # "unsent"
    <3>1. \A e \in Range(EntriesOf(t)) : turn'[e.turn].pc # "unsent"
      BY <1>9, TurnEntries
    <3>2. \A e \in Range(seen.recent) : turn'[e.turn].pc # "unsent"
      BY <1>5, <1>11 DEF Entry
    <3>. QED
      BY <1>2, <1>7, <3>1, <3>2
  <2>2. ASSUME wide' = {}, driest' <= 1
        PROVE  Len(memory'.recent) < SummaryTrigger + 2 * memory'.dry
    <3>1. wide = {} /\ driest <= 1 /\ memory'.dry <= 1
      BY <1>1, <1>3, <1>7, <1>8, <2>2
    <3>2. Len(longer.recent) = Len(seen.recent) + 2
          /\ Len(seen.recent) < SummaryTrigger + 2 * seen.dry
      BY <1>5, <1>6, <3>1
    <3>3. Len(memory'.recent) \in Nat
      BY <1>7, RememberedType
    <3>4. PICK n, d, l, k, c :
              /\ n = Len(memory'.recent) /\ d = memory'.dry /\ l = Len(longer.recent)
              /\ k = Len(seen.recent) /\ c = seen.dry
      OBVIOUS
    <3>5. n \in Nat /\ d \in Nat /\ k \in Nat /\ c \in Nat /\ d <= 1 /\ l = k + 2
          /\ k < SummaryTrigger + 2 * c
      BY <1>5, <1>7, <3>1, <3>2, <3>3, <3>4
    <3>6. (d = 0 /\ n <= 2) \/ (d = c + 1 /\ n = l) \/ (d = c /\ n = l /\ l < SummaryTrigger)
      BY <1>7, <3>4
    <3>7. n < SummaryTrigger + 2 * d
      BY ONLY <1>4, <3>5, <3>6
    <3>. QED
      BY <3>4, <3>7
  <2>. QED
    BY <1>7, <1>8, <2>1, <2>2 DEF Sound
<1>16. TurnsRemembered'
  <2>1. WeightOf(memory.recent)' <= Room
    BY <1>3, <1>7 DEF WeightOf
  <2>2. ASSUME wide' = {}, driest' <= 1, NEW u \in Turns, turn'[u].pc = "done"
        PROVE  Range(EntriesOf(u)) \subseteq Remembered(memory') \cup overwritten'
    <3>1. wide = {} /\ driest <= 1
      BY <1>1, <1>3, <1>8, <2>2
    <3>2. Remembered(memory') = Remembered(seen) \cup Range(EntriesOf(t))
      BY <1>6, <1>7, <3>1
    <3>3. CASE u = t
      BY <3>2, <3>3
    <3>4. CASE u # t
      <4>1. turn[u].pc = "done"
        BY <1>9, <2>2, <3>4
      <4>2. Range(EntriesOf(u)) \subseteq Remembered(memory) \cup overwritten
        BY <3>1, <4>1 DEF MemoryInv, TurnsRemembered
      <4>. QED
        BY <1>3, <3>2, <4>2
    <3>. QED
      BY <3>3, <3>4
  <2>. QED
    BY <2>1, <2>2 DEF TurnsRemembered, Remembered
<1>. QED
  BY <1>10, <1>14, <1>15, <1>16 DEF MemoryInv

LEMMA MemoryStep == MemoryInv /\ [MemoryNext]_memoryVars => MemoryInv'
<1>. SUFFICES ASSUME MemoryInv, [MemoryNext]_memoryVars PROVE MemoryInv'
  OBVIOUS
<1>1. MemoryTypeOK /\ WeightOf(memory.recent) <= Room /\ Sound(memory)
      /\ memory.recent \in Seq(Entry)
  BY RememberedType DEF MemoryInv, TurnsRemembered, MemoryTypeOK
<1>2. ASSUME UNCHANGED << memory, wide >> PROVE WeightOf(memory.recent)' <= Room
  BY <1>1, <1>2 DEF WeightOf
<1>3. ASSUME NEW t \in Turns, SendTurn(t) PROVE MemoryInv'
  <2>1. /\ turn[t].pc = "unsent" /\ turn' = [turn EXCEPT ![t].pc = "sent"]
        /\ wide' \in {wide, wide \cup {t}} /\ UNCHANGED << memory, rowHeld, overwritten, driest >>
    BY <1>3 DEF SendTurn
  <2>2. \A u \in Turns : turn'[u].seen = turn[u].seen
          /\ turn'[u].pc = IF u = t THEN "sent" ELSE turn[u].pc
    BY <1>1, <2>1 DEF MemoryTypeOK
  <2>3. MemoryTypeOK'
    <3>1. turn' \in [Turns -> [pc : {"unsent", "sent", "read", "answering", "done", "failed"},
                               seen : Memories]]
      BY <1>1, <2>1 DEF MemoryTypeOK
    <3>. QED
      BY <1>1, <2>1, <3>1 DEF MemoryTypeOK
  <2>4. WeightOf(memory.recent)' <= Room
    <3>1. \A i \in DOMAIN memory.recent : memory.recent[i].turn # t
      BY <1>1, <2>1 DEF Sound, Range
    <3>2. {i \in DOMAIN memory.recent : memory.recent[i].turn \in wide'}
            = {i \in DOMAIN memory.recent : memory.recent[i].turn \in wide}
      BY <2>1, <3>1
    <3>. QED
      BY <1>1, <2>1, <3>2 DEF WeightOf
  <2>. QED
    BY <2>1, <2>2, <2>3, <2>4, MemoryKept
<1>4. ASSUME NEW t \in Turns, ReadThread(t) \/ TakeRow(t) \/ AbortTurn(t) PROVE MemoryInv'
  <2>1. /\ UNCHANGED << memory, wide, overwritten, driest >>
        /\ turn[t].pc \in {"sent", "read", "answering"}
        /\ \E r \in [pc : {"read", "answering", "failed"}, seen : {turn[t].seen, memory, Blank}] :
              turn' = [turn EXCEPT ![t] = r]
        /\ rowHeld' \in Turns \cup {NoTurn}
    <3>1. CASE ReadThread(t)
      <4>1. [pc |-> "read", seen |-> memory] \in
              [pc : {"read", "answering", "failed"}, seen : {turn[t].seen, memory, Blank}]
        OBVIOUS
      <4>. QED
        BY <1>1, <3>1, <4>1 DEF ReadThread, MemoryTypeOK
    <3>2. CASE TakeRow(t)
      <4>1. [pc |-> "answering", seen |-> turn[t].seen] \in
              [pc : {"read", "answering", "failed"}, seen : {turn[t].seen, memory, Blank}]
        OBVIOUS
      <4>2. turn' = [turn EXCEPT ![t] = [pc |-> "answering", seen |-> turn[t].seen]]
        <5>1. turn[t] \in [pc : {"unsent", "sent", "read", "answering", "done", "failed"},
                            seen : Memories]
          BY <1>1 DEF MemoryTypeOK
        <5>2. [turn[t] EXCEPT !.pc = "answering"] = [pc |-> "answering", seen |-> turn[t].seen]
          BY <5>1
        <5>3. turn' = [turn EXCEPT ![t] = [turn[t] EXCEPT !.pc = "answering"]]
          BY <3>2 DEF TakeRow
        <5>. QED
          BY <5>2, <5>3
      <4>. QED
        BY <1>1, <3>2, <4>1, <4>2 DEF TakeRow, MemoryTypeOK
    <3>3. CASE AbortTurn(t)
      <4>1. [pc |-> "failed", seen |-> Blank] \in
              [pc : {"read", "answering", "failed"}, seen : {turn[t].seen, memory, Blank}]
        OBVIOUS
      <4>. QED
        BY <1>1, <3>3, <4>1 DEF AbortTurn, MemoryTypeOK
    <3>. QED
      BY <1>4, <3>1, <3>2, <3>3
  <2>2. PICK r \in [pc : {"read", "answering", "failed"}, seen : {turn[t].seen, memory, Blank}] :
            turn' = [turn EXCEPT ![t] = r]
    BY <2>1
  <2>3. r \in [pc : {"unsent", "sent", "read", "answering", "done", "failed"}, seen : Memories]
    BY <1>1, BlankMemory DEF MemoryTypeOK
  <2>4. \A u \in Turns : turn'[u] = IF u = t THEN r ELSE turn[u]
    BY <1>1, <2>2 DEF MemoryTypeOK
  <2>5. MemoryTypeOK'
    <3>1. turn' \in [Turns -> [pc : {"unsent", "sent", "read", "answering", "done", "failed"},
                               seen : Memories]]
      BY <1>1, <2>2, <2>3 DEF MemoryTypeOK
    <3>. QED
      BY <1>1, <2>1, <3>1 DEF MemoryTypeOK
  <2>. QED
    BY <1>2, <2>1, <2>4, <2>5, MemoryKept
<1>5. ASSUME NEW t \in Turns, CommitTurn(t) PROVE MemoryInv'
  BY <1>5, MemoryCommit
<1>6. CASE UNCHANGED memoryVars
  <2>1. UNCHANGED << memory, turn, rowHeld, wide, overwritten, driest >>
    BY <1>6 DEF memoryVars
  <2>2. MemoryTypeOK'
    BY <1>1, <2>1 DEF MemoryTypeOK
  <2>. QED
    BY <1>2, <2>1, <2>2, MemoryKept
<1>. QED
  BY <1>3, <1>4, <1>5, <1>6 DEF MemoryNext

\* update_context and maybe_summarize: the memory always fits its column; and however
\* many messages come, and however many jobs answer at once, what the assistant has
\* answered it remembers, unless another job's wholesale write wiped it out, the text
\* weighs more once escaped, or two summaries in a row have failed.
THEOREM NothingForgotten == MemorySpec => []TurnsRemembered
<1>1. MemoryInv => TurnsRemembered
  BY DEF MemoryInv
<1>. QED
  BY <1>1, MemoryStart, MemoryStep, PTL DEF MemorySpec

\* The column, what each job has read of it, and whose row it is.
THEOREM MemoryTyped == MemorySpec => []MemoryTypeOK
<1>1. MemoryInit => MemoryInv
  BY MemoryStart
<1>2. MemoryInv => MemoryTypeOK
  BY DEF MemoryInv
<1>. QED
  BY <1>1, <1>2, MemoryStep, PTL DEF MemorySpec
=============================================================================
