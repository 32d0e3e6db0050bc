------------------------- MODULE CheckoutTxn_proofs -------------------------
(***************************************************************************)
(* Proofs about CheckoutTxn, for any number of variants, carts and         *)
(* requests.                                                               *)
(***************************************************************************)
EXTENDS CheckoutTxn, FiniteSetTheorems, TLAPS

\* How far a request has come determines what it holds.
Stages ==
    \A t \in Requests :
        /\ pc[t] \in {"idle", "loaded", "ended"} => doomed[t] = {}
        /\ pc[t] \notin Flushed => locked[t] = {}
        /\ t \in Cancels => locked[t] = {} /\ pc[t] # "locking"
        /\ t \in Reservers => locked[t] \subseteq Wanted(t)
        /\ t \in Reservers /\ pc[t] \in {"redeeming", "placing", "redeemed"}
               => locked[t] = Wanted(t)
        /\ pc[t] \in {"redeeming", "redeemed"} => t \in Checkouts

\* The row lock of a variant has one holder.
OneHolder ==
    \A t, u \in Requests : t # u => locked[t] \cap locked[u] = {}

\* A checkout has locked a lower part of its cart.
Ascending ==
    \A t \in Checkouts : \A v \in locked[t], w \in Wanted(t) \ locked[t] : v < w

\* The coupon's lock has one holder, and its count is still right.
CouponRoom ==
    /\ Cardinality(usage) <= MaxUses
    /\ \A t \in Requests : pc[t] = "redeemed" => Cardinality(usage) < MaxUses
    /\ \A t, u \in Requests : pc[t] = "redeemed" /\ pc[u] = "redeemed" => t = u

LockInv == TypeOK /\ Stages /\ OneHolder /\ Ascending /\ CouponRoom

-----------------------------------------------------------------------------
(* Types.                                                                  *)

LEMMA TypeInit == Init => TypeOK
  BY RequestsAssumption, ShopAssumption DEF Init, TypeOK, Flushed

LEMMA WantedType == \A t \in Requests : Wanted(t) \subseteq Variants /\ OrderOf(t) \in Orders
  BY RequestsAssumption, ShopAssumption DEF Wanted, CartOf, OrderOf, Requests, Orders

LEMMA TypeStep == TypeOK /\ [Next]_vars => TypeOK'
  <1>. SUFFICES ASSUME TypeOK, [Next]_vars PROVE TypeOK'
    OBVIOUS
  <1>. USE RequestsAssumption, ShopAssumption DEF Flushed
  <1>1. ASSUME NEW t \in Requests, Load(t) \/ Flush(t) \/ Price(t) \/ LockCoupon(t)
        PROVE  TypeOK'
    BY <1>1 DEF TypeOK, Load, Flush, Price, LockCoupon, db
  <1>2. ASSUME NEW t \in Requests, Select(t) PROVE TypeOK'
    BY <1>2 DEF TypeOK, Select, db
  <1>3. ASSUME NEW t \in Requests, NEW v \in Variants, LockVariant(t, v) PROVE TypeOK'
    BY <1>3 DEF TypeOK, LockVariant, db
  <1>4. ASSUME NEW t \in Requests, Commit(t) PROVE TypeOK'
    <2>1. Inserted(t) \subseteq Row
      BY WantedType DEF Inserted, Row
    <2>2. active' \subseteq Row
      BY <1>4, <2>1 DEF TypeOK, Commit
    <2>3. status' \in [Orders -> {"none", "pending", "cancelled"}]
      BY <1>4, WantedType DEF TypeOK, Commit
    <2>4. usage' \subseteq Orders
      BY <1>4, WantedType DEF TypeOK, Commit
    <2>. QED
      BY <1>4, <2>2, <2>3, <2>4 DEF TypeOK, Commit, End
  <1>5. ASSUME NEW t \in Requests, Fail(t) PROVE TypeOK'
    BY <1>5 DEF TypeOK, Fail, End, db
  <1>6. CASE UNCHANGED vars
    BY <1>6 DEF TypeOK, vars
  <1>. QED
    BY <1>1, <1>2, <1>3, <1>4, <1>5, <1>6 DEF Next, Step

\* Every reachable state of the checkout transactions is well typed.
THEOREM TypeCorrect == Spec => []TypeOK
  BY TypeInit, TypeStep, PTL DEF Spec

-----------------------------------------------------------------------------
(* Locks.                                                                  *)

LEMMA StageStep ==
  ASSUME TypeOK, Stages, OneHolder, Ascending, NEW t \in Requests, Step(t)
  PROVE  Stages' /\ OneHolder' /\ Ascending'
  <1>. USE RequestsAssumption, ShopAssumption DEF Flushed
  <1>0. t \in Checkouts \/ t \in Retries \/ t \in Cancels
    BY DEF Requests
  <1>1. CASE Load(t)
    BY <1>1 DEF TypeOK, Load, db, Stages, OneHolder, Ascending, Wanted, CartOf, OrderOf
  <1>2. CASE Select(t)
    BY <1>2 DEF TypeOK, Select, db, Stages, OneHolder, Ascending
  <1>3. CASE Flush(t)
    BY <1>0, <1>3 DEF TypeOK, Flush, db, Stages, OneHolder, Ascending, Reservers
  <1>4. ASSUME NEW v \in Variants, LockVariant(t, v)
        PROVE  Stages' /\ OneHolder' /\ Ascending'
    <2>1. pc[t] = "locking" /\ v \in Wanted(t) \ locked[t]
      BY <1>4 DEF LockVariant, NextVariants
    <2>2. locked' = [locked EXCEPT ![t] = locked[t] \cup {v}] /\ pc' = pc /\ doomed' = doomed
      BY <1>4 DEF LockVariant
    <2>3. Stages'
      BY <2>1, <2>2 DEF TypeOK, Stages
    <2>4. OneHolder'
      BY <1>4, <2>2 DEF TypeOK, OneHolder, LockVariant
    <2>5. Ascending'
      <3>1. ASSUME t \in Checkouts, NEW w \in Wanted(t) \ locked'[t], NEW x \in locked'[t]
            PROVE  x < w
        <4>1. w \in Variants /\ w # v /\ w \in Wanted(t) \ locked[t]
          BY <2>2, <3>1, WantedType DEF TypeOK
        <4>2. v <= w
          BY <1>4, <3>1, <4>1 DEF LockVariant, NextVariants
        <4>3. CASE x = v
          BY <4>1, <4>2, <4>3
        <4>4. CASE x # v
          BY <2>2, <3>1, <4>1, <4>4 DEF TypeOK, Ascending
        <4>. QED
          BY <4>3, <4>4
      <3>. QED
        BY <2>2, <3>1 DEF TypeOK, Ascending, Requests
    <2>. QED
      BY <2>3, <2>4, <2>5
  <1>5. CASE Price(t)
    BY <1>0, <1>5 DEF TypeOK, Price, db, Stages, OneHolder, Ascending, Reservers
  <1>6. CASE LockCoupon(t)
    BY <1>6 DEF TypeOK, LockCoupon, db, Stages, OneHolder, Ascending
  <1>7. CASE End(t)
    BY <1>7 DEF TypeOK, End, Stages, OneHolder, Ascending, Requests
  <1>. QED
    BY <1>1, <1>2, <1>3, <1>4, <1>5, <1>6, <1>7 DEF Step, Commit, Fail

LEMMA CouponStep ==
  ASSUME TypeOK, Stages, CouponRoom, NEW t \in Requests, Step(t)
  PROVE  CouponRoom'
  <1>. USE RequestsAssumption, ShopAssumption
  <1>1. IsFiniteSet(usage) /\ Cardinality(usage) \in Nat
    <2>1. Orders \subseteq Requests
      BY DEF Orders, Requests
    <2>. QED
      BY <2>1, FS_Subset, FS_CardinalityType DEF TypeOK
  <1>2. CASE usage' = usage /\ pc'[t] # "redeemed" /\ \A u \in Requests \ {t} : pc'[u] = pc[u]
    BY <1>2 DEF CouponRoom
  <1>3. CASE LockCoupon(t)
    <2>1. usage' = usage /\ \A u \in Requests : u # t => pc'[u] = pc[u] /\ pc[u] # "redeemed"
      BY <1>3 DEF LockCoupon, db, TypeOK
    <2>2. Cardinality(usage) < MaxUses
      BY <1>3 DEF LockCoupon
    <2>. QED
      BY <1>1, <2>1, <2>2 DEF CouponRoom
  <1>4. CASE Commit(t)
    <2>1. pc'[t] = "ended" /\ \A u \in Requests \ {t} : pc'[u] = pc[u]
      BY <1>4 DEF Commit, End, TypeOK
    <2>2. CASE t \in Cancels
      <3>1. usage' \subseteq usage
        BY <1>4, <2>2 DEF Commit
      <3>2. Cardinality(usage') <= Cardinality(usage) /\ Cardinality(usage') \in Nat
        BY <1>1, <3>1, FS_Subset, FS_CardinalityType
      <3>. QED
        BY <1>1, <2>1, <3>2 DEF CouponRoom
    <2>3. CASE t \notin Cancels /\ pc[t] = "redeemed"
      <3>1. usage' = usage \cup {OrderOf(t)}
        BY <1>4, <2>3 DEF Commit
      <3>2. Cardinality(usage') <= Cardinality(usage) + 1 /\ Cardinality(usage') \in Nat
        <4>1. Cardinality(usage \cup {OrderOf(t)}) =
                  IF OrderOf(t) \in usage THEN Cardinality(usage) ELSE Cardinality(usage) + 1
          BY <1>1, FS_AddElement
        <4>. QED
          BY <1>1, <3>1, <4>1
      <3>3. Cardinality(usage) < MaxUses
        BY <2>3 DEF CouponRoom
      <3>. QED
        BY <1>1, <2>1, <2>3, <3>2, <3>3 DEF CouponRoom
    <2>4. CASE t \notin Cancels /\ pc[t] # "redeemed"
      BY <1>2, <1>4, <2>1, <2>4 DEF Commit
    <2>. QED
      BY <2>2, <2>3, <2>4
  <1>5. CASE ~ LockCoupon(t) /\ ~ Commit(t)
    <2>1. \/ Load(t) \/ Select(t) \/ Flush(t) \/ Price(t) \/ Fail(t)
          \/ \E v \in Variants : LockVariant(t, v)
      BY <1>5 DEF Step
    <2>2. usage' = usage
      BY <2>1 DEF Load, Select, Flush, Price, Fail, LockVariant, db
    <2>3. \A u \in Requests \ {t} : pc'[u] = pc[u]
      BY <2>1 DEF Load, Select, Flush, Price, Fail, LockVariant, End, TypeOK
    <2>4. pc'[t] # "redeemed"
      BY <2>1 DEF Load, Select, Flush, Price, Fail, LockVariant, NextVariants, End, TypeOK
    <2>. QED
      BY <1>2, <2>2, <2>3, <2>4
  <1>. QED
    BY <1>3, <1>4, <1>5

LEMMA LockInit == Init => LockInv
  <1>. SUFFICES ASSUME Init PROVE LockInv
    OBVIOUS
  <1>1. Stages /\ OneHolder /\ Ascending
    BY RequestsAssumption DEF Init, Stages, OneHolder, Ascending, Requests, Flushed
  <1>2. CouponRoom
    BY ShopAssumption, FS_EmptySet DEF Init, CouponRoom
  <1>. QED
    BY TypeInit, <1>1, <1>2 DEF LockInv

LEMMA LockStep == LockInv /\ [Next]_vars => LockInv'
  <1>. SUFFICES ASSUME LockInv, [Next]_vars PROVE LockInv'
    OBVIOUS
  <1>1. ASSUME NEW t \in Requests, Step(t) PROVE LockInv'
    BY <1>1, TypeStep, StageStep, CouponStep DEF LockInv
  <1>2. CASE UNCHANGED vars
    <2>. USE <1>2 DEF vars
    <2>1. Stages' /\ OneHolder' /\ Ascending'
      BY DEF LockInv, Stages, OneHolder, Ascending
    <2>2. CouponRoom'
      BY DEF LockInv, CouponRoom
    <2>. QED
      BY <2>1, <2>2, TypeStep DEF LockInv
  <1>. QED
    BY <1>1, <1>2 DEF Next

LEMMA LocksHold == Spec => []LockInv
  BY LockInit, LockStep, PTL DEF Spec

\* Whatever statements of however many requests interleave, the coupon is not
\* redeemed more often than max_uses: the use counted under its lock is there
\* until the commit.
THEOREM CouponLimited == Spec => []CouponLimitHolds
  BY LocksHold, PTL DEF LockInv, CouponRoom, CouponLimitHolds

-----------------------------------------------------------------------------
(* No circle of waiting checkouts.                                         *)

\* In a circle of checkouts, one that holds anything waits for a variant: the
\* holder of the coupon waits for nobody.
LEMMA CircleAtVariants ==
  ASSUME NEW S, \A t \in S : \E u \in S : WaitsFor(t, u),
         NEW u \in S, pc[u] \in Flushed
  PROVE  pc[u] = "locking"
  <1>1. PICK w \in S : WaitsFor(u, w)
    OBVIOUS
  <1>2. PICK x \in S : WaitsFor(w, x)
    OBVIOUS
  <1>3. pc[w] # "redeemed"
    BY <1>2 DEF WaitsFor, WaitsForRow, NextVariants
  <1>. QED
    BY <1>1, <1>3 DEF WaitsFor, WaitsForRow, NextVariants, Flushed

\* A waiting checkout's next variant is below the next variant of the checkout
\* that holds it.
LEMMA WaitsClimb ==
  ASSUME LockInv, NEW t \in Checkouts, NEW u \in Checkouts,
         NEW v \in NextVariants(t) \cap locked[u], NEW w \in NextVariants(u)
  PROVE  v < w
  <1>1. w \in Wanted(u) \ locked[u]
    BY DEF NextVariants
  <1>. QED
    BY <1>1 DEF LockInv, Ascending

\* Checkouts never wait in a circle, however many there are and however their
\* carts overlap: along the waits the wanted variant grows, so the checkout
\* that wants the greatest one waits for nobody.
THEOREM NoDeadlock == Spec => []NoCheckoutDeadlock
  <1>1. LockInv => NoCheckoutDeadlock
    <2>. SUFFICES ASSUME LockInv, NEW S \in SUBSET Checkouts, S # {},
                         \A t \in S : \E u \in S : WaitsFor(t, u)
                  PROVE  FALSE
      BY DEF NoCheckoutDeadlock
    <2>. DEFINE Waiting == { t \in S : pc[t] = "locking" }
                Above(v) == { x \in Variants : v < x }
                Want(t) == CHOOSE v : v \in NextVariants(t)
                T == { Above(Want(t)) : t \in Waiting }
                R == StrictSubsetOrdering(Variants)
    <2>1. \A t \in Waiting : \E u \in Waiting : NextVariants(t) \cap locked[u] # {}
      <3>. SUFFICES ASSUME NEW t \in Waiting
                    PROVE  \E u \in Waiting : NextVariants(t) \cap locked[u] # {}
        OBVIOUS
      <3>1. PICK u \in S : WaitsFor(t, u)
        OBVIOUS
      <3>2. NextVariants(t) \cap locked[u] # {}
        BY <3>1 DEF WaitsFor, WaitsForRow
      <3>3. pc[u] \in Flushed
        BY <3>2 DEF LockInv, Stages, Requests
      <3>4. pc[u] = "locking"
        BY <3>3, CircleAtVariants
      <3>. QED
        BY <3>2, <3>4
    <2>2. \A t \in Waiting : Want(t) \in NextVariants(t) /\ Want(t) \in Variants
      <3>. SUFFICES ASSUME NEW t \in Waiting
                    PROVE  Want(t) \in NextVariants(t) /\ Want(t) \in Variants
        OBVIOUS
      <3>1. NextVariants(t) # {}
        BY <2>1
      <3>2. NextVariants(t) \subseteq Variants
        BY WantedType DEF NextVariants, Requests
      <3>. QED
        BY <3>1, <3>2
    <2>3. \A t \in Waiting : \E u \in Waiting : Want(t) < Want(u)
      <3>. SUFFICES ASSUME NEW t \in Waiting PROVE \E u \in Waiting : Want(t) < Want(u)
        OBVIOUS
      <3>1. PICK u \in Waiting : NextVariants(t) \cap locked[u] # {}
        BY <2>1
      <3>2. PICK v \in NextVariants(t) : v \in locked[u]
        BY <3>1
      <3>3. v = Want(t)
        <4>1. \A w \in NextVariants(t) : w \in Variants /\ v <= w /\ w <= v
          BY WantedType DEF NextVariants, Requests
        <4>. QED
          BY <2>2, <4>1, ShopAssumption
      <3>4. Want(t) < Want(u)
        BY <2>2, <3>2, <3>3, WaitsClimb
      <3>. QED
        BY <3>4
    <2>4. Waiting # {}
      <3>1. PICK t \in S, u \in S : WaitsFor(t, u)
        OBVIOUS
      <3>2. pc[u] \in Flushed
        BY <3>1, ShopAssumption DEF WaitsFor, WaitsForRow, Flushed, LockInv, Stages, Requests
      <3>. QED
        BY <3>2, CircleAtVariants
    <2>. HIDE DEF Want
    <2>5. T # {} /\ T \subseteq FiniteSubsetsOf(Variants)
      <3>1. \A v : Above(v) \in SUBSET Variants
        OBVIOUS
      <3>2. \A v : IsFiniteSet(Above(v))
        BY <3>1, FS_Subset, ShopAssumption
      <3>. HIDE DEF Above
      <3>. QED
        BY <2>4, <3>1, <3>2 DEF FiniteSubsetsOf
    <2>6. PICK A \in T : \A B \in T : ~ (<< B, A >> \in R)
      <3>1. IsWellFoundedOn(R, FiniteSubsetsOf(Variants))
        BY FS_StrictSubsetOrderingWellFounded
      <3>. HIDE DEF R, T
      <3>. QED
        BY <2>5, <3>1, WFMin
    <2>7. PICK t \in Waiting : A = Above(Want(t))
      OBVIOUS
    <2>8. PICK u \in Waiting : Want(t) < Want(u)
      BY <2>3
    <2>9. Above(Want(u)) \subseteq A /\ Want(u) \in A /\ Want(u) \notin Above(Want(u))
      <3>1. \A m, n \in Variants : m < n => Above(n) \subseteq Above(m)
        <4>. SUFFICES ASSUME NEW m \in Variants, NEW n \in Variants, m < n,
                             NEW x \in Variants, n < x
                      PROVE  m < x
          OBVIOUS
        <4>1. m \in Nat /\ n \in Nat /\ x \in Nat
          BY ShopAssumption
        <4>. QED
          BY <4>1
      <3>2. \A m, n \in Variants : m < n => n \in Above(m) /\ n \notin Above(n)
        BY ShopAssumption
      <3>. HIDE DEF Above
      <3>. QED
        BY <2>2, <2>7, <2>8, <3>1, <3>2
    <2>10. << Above(Want(u)), A >> \in R
      <3>1. A \subseteq Variants
        BY <2>7
      <3>. QED
        BY <2>9, <3>1 DEF StrictSubsetOrdering
    <2>. QED
      BY <2>6, <2>10
  <1>. QED
    BY <1>1, LocksHold, PTL

-----------------------------------------------------------------------------
(* Stock, as long as no cart is checked out by two requests at once.       *)

OneCheckoutPerCart == \A t, u \in Checkouts : Subject[t] = Subject[u] => t = u

\* What a request found free when it locked a variant is free until it commits.
Rooms ==
    \A t \in Requests : \A v \in locked[t] :
        Cardinality(RowsOf(v) \ doomed[t]) < Stock[v]

\* Rows are rows of an order that exists.
RowsHaveOrders == \A r \in active : status[OrderOf(r[1])] # "none"

\* A checkout's order exists once the checkout is over; a retry's and a
\* cancellation's exists before they begin.
OrdersExist ==
    \A t \in Requests :
        IF t \in Checkouts THEN status[t] # "none" => pc[t] = "ended"
                           ELSE pc[t] # "idle" => status[Subject[t]] # "none"

\* A request releases only rows of its own order.
OwnRows == \A t \in Requests : \A r \in doomed[t] : OrderOf(r[1]) = OrderOf(t)

StockInv ==
    /\ Rooms
    /\ HoldsFitStock
    /\ RowsHaveOrders
    /\ OrdersExist
    /\ OwnRows
    /\ PendingOrdersKeepHold

LEMMA RowsFinite ==
  ASSUME TypeOK, NEW v, NEW X
  PROVE  IsFiniteSet(RowsOf(v) \ X) /\ Cardinality(RowsOf(v) \ X) \in Nat
  <1>1. IsFiniteSet(Row)
    <2>1. IsFiniteSet(Reservers)
      BY FS_Subset, ShopAssumption DEF Requests, Reservers
    <2>. QED
      BY <2>1, FS_Product, ShopAssumption DEF Row
  <1>2. RowsOf(v) \ X \in SUBSET Row
    BY DEF TypeOK, RowsOf
  <1>. QED
    BY <1>1, <1>2, FS_Subset, FS_CardinalityType

\* While a checkout runs, its cart has no rows.
LEMMA CartHasNoRows ==
  ASSUME OneCheckoutPerCart, TypeOK, StockInv,
         NEW t \in Checkouts, pc[t] # "ended", NEW r \in active
  PROVE  CartOf(r[1]) # CartOf(t)
  <1>1. OrderOf(r[1]) \in Checkouts /\ OrderOf(t) = t
    BY WantedType DEF TypeOK, Row, Requests, Reservers, OrderOf, Orders
  <1>2. SUFFICES ASSUME Subject[OrderOf(r[1])] = Subject[t] PROVE FALSE
    BY <1>1 DEF CartOf
  <1>3. OrderOf(r[1]) = t
    BY <1>1, <1>2 DEF OneCheckoutPerCart
  <1>4. status[t] # "none"
    BY <1>3 DEF StockInv, RowsHaveOrders
  <1>. QED
    BY <1>4 DEF StockInv, OrdersExist, Requests

LEMMA StockStepCommit ==
  ASSUME OneCheckoutPerCart, LockInv, StockInv, NEW t \in Requests, Commit(t)
  PROVE  StockInv'
  <1>. USE RequestsAssumption, ShopAssumption
  <1>. DEFINE o == OrderOf(t)
  <1>0. /\ t \in Checkouts \/ t \in Retries \/ t \in Cancels
        /\ o \in Orders
        /\ active' = (active \ doomed[t]) \cup Inserted(t)
        /\ pc' = [pc EXCEPT ![t] = "ended"]
        /\ doomed' = [doomed EXCEPT ![t] = {}]
        /\ locked' = [locked EXCEPT ![t] = {}]
    BY WantedType DEF Requests, Commit, End
  <1>1. /\ t \in Reservers => locked[t] = Wanted(t)
        /\ Inserted(t) = {t} \X locked[t]
    <2>1. t \in Reservers => locked[t] = Wanted(t)
      BY DEF Commit, LockInv, Stages
    <2>2. t \notin Reservers => locked[t] = {}
      BY <1>0 DEF LockInv, Stages, Reservers
    <2>. QED
      BY <2>1, <2>2 DEF Inserted
  <1>2. \A v : RowsOf(v)' \subseteq
              IF v \in locked[t] THEN (RowsOf(v) \ doomed[t]) \cup {<< t, v >>}
                                 ELSE RowsOf(v) \ doomed[t]
    BY <1>0, <1>1 DEF RowsOf
  <1>3. TypeOK'
    BY TypeStep DEF LockInv, Next, Step
  <1>4. HoldsFitStock'
    <2>. SUFFICES ASSUME NEW v \in Variants PROVE Cardinality(RowsOf(v)') <= Stock[v]
      BY DEF HoldsFitStock
    <2>1. Stock[v] \in Nat /\ Cardinality(RowsOf(v) \ doomed[t]) \in Nat
      BY RowsFinite DEF LockInv
    <2>2. CASE v \in locked[t]
      <3>. DEFINE left == RowsOf(v) \ doomed[t]
      <3>1. IsFiniteSet(left) /\ Cardinality(left) \in Nat
        BY RowsFinite DEF LockInv
      <3>2. Cardinality(left) < Stock[v]
        BY <2>2 DEF StockInv, Rooms
      <3>3. /\ IsFiniteSet(left \cup {<< t, v >>})
            /\ Cardinality(left \cup {<< t, v >>}) =
                   IF << t, v >> \in left THEN Cardinality(left) ELSE Cardinality(left) + 1
        <4>. HIDE DEF left
        <4>. QED
          BY <3>1, FS_AddElement
      <3>4. /\ Cardinality(RowsOf(v)') <= Cardinality(left \cup {<< t, v >>})
            /\ Cardinality(RowsOf(v)') \in Nat
        BY <1>2, <2>2, <3>3, FS_Subset, FS_CardinalityType
      <3>. HIDE DEF left
      <3>. QED
        BY <2>1, <3>1, <3>2, <3>3, <3>4
    <2>3. CASE v \notin locked[t]
      <3>1. RowsOf(v)' \subseteq RowsOf(v) /\ RowsOf(v) \ {} = RowsOf(v)
        BY <1>2, <2>3
      <3>2. IsFiniteSet(RowsOf(v)) /\ Cardinality(RowsOf(v)) \in Nat
        <4>1. IsFiniteSet(RowsOf(v) \ {}) /\ Cardinality(RowsOf(v) \ {}) \in Nat
          BY RowsFinite DEF LockInv
        <4>2. RowsOf(v) \ {} = RowsOf(v)
          BY <3>1
        <4>. QED
          BY <4>1, <4>2, Zenon
      <3>3. Cardinality(RowsOf(v)') <= Cardinality(RowsOf(v)) /\ Cardinality(RowsOf(v)') \in Nat
        BY <3>1, <3>2, FS_Subset, FS_CardinalityType
      <3>4. Cardinality(RowsOf(v)) <= Stock[v]
        BY DEF StockInv, HoldsFitStock
      <3>. QED
        BY <2>1, <3>2, <3>3, <3>4
    <2>. QED
      BY <2>2, <2>3
  <1>5. Rooms'
    <2>. SUFFICES ASSUME NEW u \in Requests, NEW v \in locked'[u]
                  PROVE  Cardinality(RowsOf(v)' \ doomed'[u]) < Stock[v]
      BY DEF Rooms
    <2>1. u # t /\ v \in locked[u] /\ doomed'[u] = doomed[u] /\ v \in Variants
      BY <1>0 DEF LockInv, TypeOK
    <2>2. v \notin locked[t]
      BY <2>1 DEF LockInv, OneHolder
    <2>3. RowsOf(v)' \ doomed'[u] \subseteq RowsOf(v) \ doomed[u]
      BY <1>2, <2>1, <2>2
    <2>4. Cardinality(RowsOf(v)' \ doomed'[u]) <= Cardinality(RowsOf(v) \ doomed[u])
          /\ Cardinality(RowsOf(v)' \ doomed'[u]) \in Nat
          /\ Cardinality(RowsOf(v) \ doomed[u]) \in Nat
      BY <2>3, RowsFinite, FS_Subset, FS_CardinalityType DEF LockInv
    <2>5. Cardinality(RowsOf(v) \ doomed[u]) < Stock[v] /\ Stock[v] \in Nat
      BY <2>1 DEF StockInv, Rooms
    <2>. QED
      BY <2>4, <2>5
  <1>6. /\ status'[o] = IF t \in Checkouts THEN "pending"
                        ELSE IF t \in Cancels THEN "cancelled" ELSE status[o]
        /\ \A p \in Orders \ {o} : status'[p] = status[p]
        /\ status'[o] # "none"
    <2>1. t \notin Checkouts => status[o] # "none"
      BY DEF Commit, StockInv, OrdersExist, OrderOf
    <2>. QED
      BY <1>0, <2>1 DEF Commit, LockInv, TypeOK
  <1>7. RowsHaveOrders'
    <2>. SUFFICES ASSUME NEW r \in active' PROVE status'[OrderOf(r[1])] # "none"
      BY DEF RowsHaveOrders, OrderOf
    <2>1. OrderOf(r[1]) \in Orders
      BY <1>3, WantedType DEF TypeOK, Row, Requests, Reservers
    <2>2. CASE r \in active
      BY <1>6, <2>1, <2>2 DEF StockInv, RowsHaveOrders
    <2>3. CASE r \in Inserted(t)
      BY <1>1, <1>6, <2>3
    <2>. QED
      BY <1>0, <2>2, <2>3
  <1>8. OrdersExist'
    <2>. SUFFICES ASSUME NEW u \in Requests
                  PROVE  IF u \in Checkouts THEN status'[u] # "none" => pc'[u] = "ended"
                                            ELSE pc'[u] # "idle" => status'[Subject[u]] # "none"
      BY DEF OrdersExist
    <2>1. CASE u = t
      BY <1>0, <1>6, <2>1 DEF OrderOf, LockInv, TypeOK
    <2>2. CASE u # t /\ u \in Checkouts
      <3>1. pc'[u] = pc[u]
        BY <1>0, <2>2 DEF LockInv, TypeOK
      <3>2. status[u] = "none" => u # o
        <4>1. t \notin Checkouts => status[o] # "none"
          BY DEF Commit, StockInv, OrdersExist, OrderOf
        <4>. QED
          BY <2>2, <4>1 DEF OrderOf
      <3>. QED
        BY <1>6, <2>2, <3>1, <3>2 DEF StockInv, OrdersExist, Orders
    <2>3. CASE u # t /\ u \notin Checkouts
      <3>1. Subject[u] \in Orders /\ pc'[u] = pc[u]
        BY <1>0, <2>3 DEF LockInv, TypeOK, Requests
      <3>. QED
        BY <1>6, <2>3, <3>1 DEF StockInv, OrdersExist
    <2>. QED
      BY <2>1, <2>2, <2>3
  <1>9. OwnRows'
    <2>. SUFFICES ASSUME NEW u \in Requests, NEW r \in doomed'[u]
                  PROVE  OrderOf(r[1]) = OrderOf(u)
      BY DEF OwnRows, OrderOf
    <2>1. r \in doomed[u]
      BY <1>0 DEF LockInv, TypeOK
    <2>. QED
      BY <2>1 DEF StockInv, OwnRows
  <1>10. PendingOrdersKeepHold'
    <2>. SUFFICES ASSUME NEW p \in Orders, status'[p] = "pending", NEW v \in Wanted(p)
                  PROVE  \E u \in Reservers : << u, v >> \in active' /\ OrderOf(u) = p
      BY DEF PendingOrdersKeepHold, Wanted, CartOf, OrderOf
    <2>1. CASE p # o
      <3>1. PICK u \in Reservers : << u, v >> \in active /\ OrderOf(u) = p
        BY <1>6, <2>1 DEF StockInv, PendingOrdersKeepHold
      <3>2. << u, v >> \notin doomed[t]
        BY <2>1, <3>1 DEF StockInv, OwnRows
      <3>. QED
        BY <1>0, <3>1, <3>2
    <2>2. CASE p = o
      <3>1. t \in Reservers
        BY <1>0, <1>6, <2>2 DEF Reservers
      <3>2. Wanted(p) = Wanted(t)
        <4>1. OrderOf(p) = p
          BY DEF OrderOf, Orders
        <4>. QED
          BY <2>2, <4>1 DEF Wanted, CartOf
      <3>3. << t, v >> \in Inserted(t)
        BY <3>1, <3>2 DEF Inserted
      <3>. QED
        BY <1>0, <2>2, <3>1, <3>3
    <2>. QED
      BY <2>1, <2>2
  <1>. QED
    BY <1>4, <1>5, <1>7, <1>8, <1>9, <1>10 DEF StockInv

LEMMA StockStep ==
  ASSUME OneCheckoutPerCart, LockInv, StockInv, NEW t \in Requests, Step(t)
  PROVE  StockInv'
  <1>. USE RequestsAssumption, ShopAssumption
  <1>1. CASE Commit(t)
    BY <1>1, StockStepCommit
  <1>2. CASE ~ Commit(t)
    <2>1. \/ Load(t) \/ Select(t) \/ Flush(t) \/ Price(t) \/ LockCoupon(t) \/ Fail(t)
          \/ \E v \in Variants : LockVariant(t, v)
      BY <1>2 DEF Step
    <2>2. active' = active /\ status' = status
      BY <2>1 DEF Load, Select, Flush, Price, LockCoupon, Fail, LockVariant, db
    <2>3. HoldsFitStock' /\ RowsHaveOrders' /\ PendingOrdersKeepHold'
      BY <2>2 DEF StockInv, HoldsFitStock, RowsOf, RowsHaveOrders, PendingOrdersKeepHold
    <2>4. OrdersExist'
      <3>1. \A u \in Requests : u # t => pc'[u] = pc[u]
        BY <2>1 DEF Load, Select, Flush, Price, LockCoupon, Fail, End, LockVariant, LockInv, TypeOK
      <3>2. pc[t] # "ended" /\ (pc[t] = "idle" => Load(t))
        BY <2>1 DEF Load, Select, Flush, Price, LockCoupon, Fail, LockVariant, NextVariants
      <3>3. Load(t) /\ t \notin Checkouts => status[Subject[t]] # "none"
        BY DEF Load
      <3>4. t \in Checkouts => status[t] = "none"
        BY <3>2 DEF StockInv, OrdersExist
      <3>. QED
        BY <2>2, <3>1, <3>2, <3>3, <3>4 DEF StockInv, OrdersExist
    <2>5. OwnRows'
      <3>1. CASE Select(t)
        <4>1. CASE t \in Checkouts
          BY <3>1, <4>1, CartHasNoRows DEF Select, StockInv, OwnRows, OrderOf, LockInv, TypeOK
        <4>2. CASE t \notin Checkouts
          BY <3>1, <4>2 DEF Select, StockInv, OwnRows, OrderOf, LockInv, TypeOK
        <4>. QED
          BY <4>1, <4>2
      <3>2. CASE ~ Select(t)
        <4>1. \A u \in Requests : doomed'[u] \subseteq doomed[u]
          BY <2>1, <3>2 DEF Load, Flush, Price, LockCoupon, Fail, End, LockVariant, LockInv, TypeOK
        <4>. QED
          BY <4>1 DEF StockInv, OwnRows, OrderOf
      <3>. QED
        BY <3>1, <3>2
    <2>6. Rooms'
      <3>1. CASE Select(t) \/ Fail(t)
        <4>1. locked'[t] = {} /\ \A u \in Requests \ {t} : locked'[u] = locked[u] /\ doomed'[u] = doomed[u]
          BY <3>1 DEF Select, Fail, End, LockInv, TypeOK, Stages, Flushed
        <4>. QED
          BY <2>2, <4>1 DEF StockInv, Rooms, RowsOf
      <3>2. CASE Load(t) \/ Flush(t) \/ Price(t) \/ LockCoupon(t)
        BY <2>2, <3>2 DEF Load, Flush, Price, LockCoupon, StockInv, Rooms, RowsOf
      <3>3. ASSUME NEW v \in Variants, LockVariant(t, v) PROVE Rooms'
        <4>1. Held(t, v) = RowsOf(v) \ doomed[t]
          <5>1. pc[t] # "ended"
            BY <3>3 DEF LockVariant, NextVariants
          <5>. QED
            BY <5>1, CartHasNoRows DEF Held, RowsOf, LockInv
        <4>2. Cardinality(RowsOf(v) \ doomed[t]) < Stock[v]
          BY <3>3, <4>1 DEF LockVariant
        <4>3. locked' = [locked EXCEPT ![t] = locked[t] \cup {v}] /\ doomed' = doomed
          BY <3>3 DEF LockVariant
        <4>4. \A w : RowsOf(w)' = RowsOf(w)
          BY <2>2 DEF RowsOf
        <4>. QED
          BY <4>2, <4>3, <4>4 DEF StockInv, Rooms, LockInv, TypeOK
      <3>. QED
        BY <2>1, <3>1, <3>2, <3>3
    <2>. QED
      BY <2>3, <2>4, <2>5, <2>6 DEF StockInv
  <1>. QED
    BY <1>1, <1>2

LEMMA StockInit == Init => StockInv
  <1>. SUFFICES ASSUME Init PROVE StockInv
    OBVIOUS
  <1>. USE RequestsAssumption, ShopAssumption
  <1>1. \A v : RowsOf(v) = {}
    BY DEF Init, RowsOf
  <1>2. HoldsFitStock
    <2>. SUFFICES ASSUME NEW v \in Variants PROVE Cardinality(RowsOf(v)) <= Stock[v]
      BY DEF HoldsFitStock
    <2>1. RowsOf(v) = {} /\ Stock[v] \in Nat
      BY <1>1
    <2>. QED
      BY <2>1, FS_EmptySet
  <1>3. Rooms /\ RowsHaveOrders /\ OrdersExist /\ OwnRows /\ PendingOrdersKeepHold
    BY DEF Init, Rooms, RowsHaveOrders, OrdersExist, OwnRows, PendingOrdersKeepHold, Orders
  <1>. QED
    BY <1>2, <1>3 DEF StockInv

LEMMA StockHolds ==
  ASSUME OneCheckoutPerCart
  PROVE  Spec => []StockInv
  <1>1. LockInv /\ StockInv /\ [Next]_vars => StockInv'
    <2>. SUFFICES ASSUME LockInv, StockInv, [Next]_vars PROVE StockInv'
      OBVIOUS
    <2>1. ASSUME NEW t \in Requests, Step(t) PROVE StockInv'
      BY <2>1, StockStep
    <2>2. CASE UNCHANGED vars
      BY <2>2 DEF vars, StockInv, Rooms, HoldsFitStock, RowsOf, RowsHaveOrders, OrdersExist,
                  OwnRows, PendingOrdersKeepHold
    <2>. QED
      BY <2>1, <2>2 DEF Next
  <1>. QED
    BY <1>1, StockInit, LocksHold, PTL DEF Spec

\* If a cart is checked out by one request only, checkouts, retries and
\* cancellations in any number and any order of their statements never hold more
\* units of a variant than are in stock: what a request counts under the
\* variant's lock is true until it commits.
THEOREM StockRespected ==
  ASSUME OneCheckoutPerCart
  PROVE  Spec => []HoldsFitStock
  BY StockHolds, PTL DEF StockInv

\* On the same assumption an order that can still be paid keeps a hold on each of
\* its lines, through retries that fail or race each other and cancellations.
THEOREM HoldKept ==
  ASSUME OneCheckoutPerCart
  PROVE  Spec => []PendingOrdersKeepHold
  BY StockHolds, PTL DEF StockInv
=============================================================================
