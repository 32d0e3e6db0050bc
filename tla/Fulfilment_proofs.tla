------------------------- MODULE Fulfilment_proofs --------------------------
(***************************************************************************)
(* Proofs about module Fulfilment.                                         *)
(***************************************************************************)
EXTENDS Fulfilment, FiniteSetTheorems, TLAPS

-----------------------------------------------------------------------------
(* Sums.                                                                   *)

\* Total is a natural number: the units of a finite set are finitely many.
LEMMA TotalType ==
    ASSUME NEW S, IsFiniteSet(S), NEW qty
    PROVE  IsFiniteSet(Units(S, qty)) /\ Total(S, qty) \in Nat
<1>1. IsFiniteSet(1..MaxQty)
  BY FS_Interval, BoundsAssumption
<1>2. IsFiniteSet(S \X (1..MaxQty))
  BY <1>1, FS_Product
<1>3. IsFiniteSet(Units(S, qty))
  BY <1>2, FS_Subset DEF Units
<1>. QED
  BY <1>3, FS_CardinalityType DEF Total

\* A larger set with larger quantities has the larger total.
LEMMA TotalMonotone ==
    ASSUME NEW S, NEW T, S \subseteq T, IsFiniteSet(T), NEW q1, NEW q2,
           \A s \in S : q1[s] \in Int /\ q2[s] \in Int /\ q1[s] <= q2[s]
    PROVE  Total(S, q1) <= Total(T, q2)
<1>1. Units(S, q1) \subseteq Units(T, q2)
  BY DEF Units
<1>2. IsFiniteSet(Units(T, q2))
  BY TotalType
<1>. QED
  BY <1>1, <1>2, FS_Subset DEF Total

\* Only the quantities of S's own members matter, and only the non-zero ones.
LEMMA TotalCongruent ==
    ASSUME NEW S, NEW T, S \subseteq T, NEW q1, NEW q2,
           \A s \in S : q1[s] = q2[s],
           \A t \in T \ S : q2[t] = 0
    PROVE  Total(S, q1) = Total(T, q2)
<1>1. Units(S, q1) = Units(T, q2)
  BY DEF Units
<1>. QED
  BY <1>1 DEF Total

\* The units of a single member.
LEMMA UnitsOfOne ==
    ASSUME NEW a, NEW qty, qty[a] \in 0..MaxQty
    PROVE  IsFiniteSet(Units({a}, qty)) /\ Cardinality(Units({a}, qty)) = qty[a]
<1>. DEFINE f == [i \in 1..qty[a] |-> << a, i >>]
            U == Units({a}, qty)
<1>1. U = { << a, i >> : i \in 1..qty[a] }
  BY BoundsAssumption DEF Units
<1>2. f \in Bijection(1..qty[a], U)
  <2>1. f \in [1..qty[a] -> U]
    BY <1>1
  <2>2. \A i, j \in 1..qty[a] : f[i] = f[j] => i = j
    OBVIOUS
  <2>3. \A u \in U : \E i \in 1..qty[a] : f[i] = u
    BY <1>1
  <2>. QED
    BY <2>1, <2>2, <2>3 DEF Bijection, Injection, Surjection, IsInjective
<1>3. ExistsBijection(1..qty[a], U)
  BY <1>2 DEF ExistsBijection
<1>4. IsFiniteSet(1..qty[a]) /\ Cardinality(1..qty[a]) = qty[a]
  <2>1. 1 \in Int /\ qty[a] \in Int /\ 0 <= qty[a]
    BY BoundsAssumption
  <2>2. /\ IsFiniteSet(1..qty[a])
        /\ Cardinality(1..qty[a]) = IF 1 > qty[a] THEN 0 ELSE qty[a] - 1 + 1
    BY <2>1, FS_Interval, Zenon
  <2>. QED
    BY <2>1, <2>2
<1>. QED
  BY <1>3, <1>4, FS_Bijection

\* One more member adds its quantity.
LEMMA TotalAdd ==
    ASSUME NEW S, IsFiniteSet(S), NEW a, a \notin S, NEW qty, qty[a] \in 0..MaxQty
    PROVE  Total(S \cup {a}, qty) = Total(S, qty) + qty[a]
<1>1. Units(S \cup {a}, qty) = Units(S, qty) \cup Units({a}, qty)
  BY DEF Units
<1>2. Units(S, qty) \cap Units({a}, qty) = {}
  BY DEF Units
<1>3. IsFiniteSet(Units(S, qty)) /\ Cardinality(Units(S, qty)) \in Nat
  BY TotalType DEF Total
<1>4. IsFiniteSet(Units({a}, qty)) /\ Cardinality(Units({a}, qty)) = qty[a]
  BY UnitsOfOne
<1>5. /\ IsFiniteSet({}) /\ Cardinality({}) = 0
      /\ Cardinality(Units(S, qty) \cup Units({a}, qty)) =
           Cardinality(Units(S, qty)) + Cardinality(Units({a}, qty))
             - Cardinality(Units(S, qty) \cap Units({a}, qty))
  BY <1>3, <1>4, FS_Union, FS_EmptySet, Zenon
<1>6. Cardinality(Units(S \cup {a}, qty)) = Cardinality(Units(S, qty)) + qty[a] - 0
  BY <1>1, <1>2, <1>4, <1>5, Zenon
<1>. QED
  BY <1>3, <1>6, BoundsAssumption DEF Total

-----------------------------------------------------------------------------
(* Type correctness.                                                       *)

LEMMA NoLinesType == NoLines \in Lines /\ \A v \in Variants : NoLines[v] = 0
BY BoundsAssumption DEF NoLines, Lines

\* Releasing, and replacing, reservation rows keeps the table well typed.
LEMMA ReleaseType ==
    ASSUME TypeOK, NEW owners, owners \subseteq Owners, Release(owners)
    PROVE  /\ hold' \in [Owners -> Lines]
           /\ lapsed' \subseteq { w \in Owners : hold'[w] # NoLines }
BY NoLinesType DEF TypeOK, Release, Drop

LEMMA ReleaseAndHoldType ==
    ASSUME TypeOK, NEW from, from \subseteq Owners, NEW owner \in Owners,
           NEW want \in Lines, ReleaseAndHold(from, owner, want)
    PROVE  /\ hold' \in [Owners -> Lines]
           /\ lapsed' \subseteq { w \in Owners : hold'[w] # NoLines }
BY NoLinesType DEF TypeOK, ReleaseAndHold, Drop

LEMMA RetireType ==
    ASSUME TypeOK, NEW users, Retire(users)
    PROVE  /\ cart' \in [Users -> Lines]
           /\ cartCoupon' \subseteq Users
           /\ staleCarts' \subseteq Users
BY NoLinesType DEF TypeOK, Retire

LEMMA TypeStep == TypeOK /\ [Next]_vars => TypeOK'
<1>. SUFFICES ASSUME TypeOK, [Next]_vars PROVE TypeOK'
  OBVIOUS
<1>. USE DEF cartVars, holdVars, orderVars, couponVars, payVars
<1>1. ASSUME NEW u \in Users, ShopperStep(u) PROVE TypeOK'
  <2>. u \in Owners
    BY DEF Owners
  <2>1. ASSUME NEW v \in Variants, NEW n \in 1..MaxQty, SetItem(u, v, n) PROVE TypeOK'
    <3>1. cart' \in [Users -> Lines]
      BY <2>1, NoLinesType, BoundsAssumption DEF SetItem, TypeOK, Lines
    <3>2. /\ hold' \in [Owners -> Lines]
          /\ lapsed' \subseteq { w \in Owners : hold'[w] # NoLines }
      BY <2>1, ReleaseType DEF SetItem, TypeOK
    <3>. QED
      BY <2>1, <3>1, <3>2 DEF SetItem, TypeOK
  <2>2. ASSUME NEW v \in Variants, NEW n \in 1..MaxQty, AddItem(u, v, n) PROVE TypeOK'
    <3>1. PICK m \in 1..MaxQty : SetItem(u, v, m)
      BY <2>2, BoundsAssumption DEF AddItem, TypeOK, Lines
    <3>. QED
      BY <2>1, <3>1
  <2>3. ASSUME NEW v \in Variants, NEW n \in 1..MaxQty, UpdateItem(u, v, n) PROVE TypeOK'
    BY <2>1, <2>3 DEF UpdateItem
  <2>4. ASSUME NEW v \in Variants, RemoveItem(u, v) PROVE TypeOK'
    BY <2>4, BoundsAssumption DEF RemoveItem, TypeOK, Lines
  <2>5. ASSUME ReopenCart(u) PROVE TypeOK'
    BY <2>5, ReleaseType, RetireType DEF ReopenCart, TypeOK
  <2>6. ASSUME ApplyCoupon(u) \/ RemoveCoupon(u) \/ CartGoesStale(u) PROVE TypeOK'
    BY <2>6 DEF ApplyCoupon, RemoveCoupon, CartGoesStale, TypeOK
  <2>7. ASSUME NEW o \in Orders, NEW l \in {"open", "none"}, Checkout(u, o, l) PROVE TypeOK'
    <3>1. cart[u] \in Lines /\ o \in Owners
      BY DEF TypeOK, Owners
    <3>2. /\ hold' \in [Owners -> Lines]
          /\ lapsed' \subseteq { w \in Owners : hold'[w] # NoLines }
      BY <2>7, <3>1, ReleaseAndHoldType DEF Checkout
    <3>3. /\ cart' \in [Users -> Lines]
          /\ cartCoupon' \subseteq Users
          /\ staleCarts' \subseteq Users
      BY <2>7, RetireType DEF Checkout
    <3>. QED
      BY <2>7, <3>1, <3>2, <3>3 DEF Checkout, TypeOK, Statuses
  <2>8. ASSUME ChatCheckoutFails(u) PROVE TypeOK'
    <3>1. PICK want \in Lines : ReleaseAndHold({u}, u, want)
      BY <2>8, BoundsAssumption DEF ChatCheckoutFails, Lines, TypeOK
    <3>. QED
      BY <2>8, <3>1, ReleaseAndHoldType DEF ChatCheckoutFails, TypeOK
  <2>. QED
    BY <1>1, <2>2, <2>3, <2>4, <2>5, <2>6, <2>7, <2>8 DEF ShopperStep
<1>2. ASSUME NEW o \in Orders, OrderStep(o) PROVE TypeOK'
  <2>. o \in Owners
    BY DEF Owners
  <2>1. ASSUME RetryPayment(o) PROVE TypeOK'
    BY <2>1, ReleaseAndHoldType DEF RetryPayment, TypeOK
  <2>2. ASSUME MarkPaid(o) PROVE TypeOK'
    <3>1. stock' \in [Variants -> Nat]
      BY <2>2, BoundsAssumption DEF MarkPaid, StockAfterCommit, TypeOK, Lines
    <3>. QED
      BY <2>2, <3>1, ReleaseType DEF MarkPaid, TypeOK, Statuses
  <2>3. ASSUME NEW t \in Statuses, MoveTo(o, t) PROVE TypeOK'
    BY <2>3 DEF MoveTo, TypeOK
  <2>4. ASSUME CancelOrder(o) PROVE TypeOK'
    <3>1. stock' \in [Variants -> Nat]
      BY <2>4, BoundsAssumption DEF CancelOrder, TypeOK, Lines
    <3>2. /\ hold' \in [Owners -> Lines]
          /\ lapsed' \subseteq { w \in Owners : hold'[w] # NoLines }
      BY <2>4, ReleaseType DEF CancelOrder, TypeOK
    <3>. QED
      BY <2>4, <3>1, <3>2 DEF CancelOrder, TypeOK, Statuses
  <2>5. ASSUME CapturePayment(o) \/ LinkExpires(o) \/ ReturnWindowCloses(o) PROVE TypeOK'
    BY <2>5 DEF CapturePayment, LinkExpires, ReturnWindowCloses, TypeOK
  <2>6. ASSUME ConfirmOrder(o) \/ RequestReturn(o)
               \/ \E t \in AgentSettable : UpdateStatus(o, t)
        PROVE  \E t \in Statuses : MoveTo(o, t)
    BY <2>6 DEF ConfirmOrder, RequestReturn, UpdateStatus, Statuses, AgentSettable
  <2>. QED
    BY <1>2, <2>1, <2>2, <2>3, <2>4, <2>5, <2>6 DEF OrderStep
<1>3. ASSUME NEW w \in Owners, HoldLapses(w) PROVE TypeOK'
  BY <1>3 DEF HoldLapses, TypeOK
<1>4. ASSUME CleanupReservations PROVE TypeOK'
  BY <1>4, ReleaseType DEF CleanupReservations, TypeOK
<1>5. ASSUME ExpireCarts PROVE TypeOK'
  <2>1. staleCarts \subseteq Owners
    BY DEF TypeOK, Owners
  <2>. QED
    BY <1>5, <2>1, ReleaseType, RetireType DEF ExpireCarts, TypeOK
<1>6. ASSUME NEW v \in Variants, NEW n \in StockEdits, EditStock(v, n) PROVE TypeOK'
  BY <1>6, BoundsAssumption DEF EditStock, TypeOK
<1>7. ASSUME ToggleCoupon PROVE TypeOK'
  BY <1>7 DEF ToggleCoupon, TypeOK
<1>8. ASSUME UNCHANGED vars PROVE TypeOK'
  BY <1>8 DEF vars, TypeOK
<1>. QED
  BY <1>1, <1>2, <1>3, <1>4, <1>5, <1>6, <1>7, <1>8 DEF Next

LEMMA TypeInit == Init => TypeOK
BY NoLinesType, BoundsAssumption DEF Init, TypeOK

\* Every state of the shop is well typed, for any number of shoppers, orders
\* and variants: no operation of cart.py or order.py drives the stock below
\* zero or leaves an expired row without an owner.
THEOREM TypeCorrect == Spec => []TypeOK
BY TypeInit, TypeStep, PTL DEF Spec

-----------------------------------------------------------------------------
(* Holds follow their orders.                                              *)

\* What the catch-all of the status chain cannot do: confirm_order,
\* update_status and request_return neither leave nor enter pending_payment or
\* cancelled.
ChainMove(o) ==
    \/ ConfirmOrder(o)
    \/ RequestReturn(o)
    \/ \E t \in AgentSettable : UpdateStatus(o, t)

LEMMA ChainMoveStaysSold ==
    ASSUME TypeOK, NEW o \in Orders, ChainMove(o)
    PROVE  /\ status[o] \in SoldStatuses
           /\ \E t \in SoldStatuses : status' = [status EXCEPT ![o] = t]
           /\ UNCHANGED << stock, cartVars, holdVars, buyer, lines, couponVars, payVars >>
<1>1. PICK t \in AgentSettable \cup {"confirmed", "return_requested"} : MoveTo(o, t)
  BY DEF ChainMove, ConfirmOrder, RequestReturn, UpdateStatus
<1>2. t \in OrderTransitions[status[o]] /\ status[o] \in Statuses
  BY <1>1 DEF MoveTo, CanTransition, TypeOK
<1>3. status[o] \notin {"pending_payment", "cancelled"}
  BY <1>1, <1>2 DEF OrderTransitions, Statuses, AgentSettable
<1>4. t \in SoldStatuses
  BY <1>1 DEF SoldStatuses, Statuses, AgentSettable
<1>. QED
  BY <1>1, <1>2, <1>3, <1>4 DEF MoveTo, SoldStatuses

\* The operations that touch no order and only take rows away.
OrderRowsKept ==
    /\ UNCHANGED << status, lines, link, captured >>
    /\ \A o \in Orders :
         \/ hold'[o] = hold[o] /\ (o \in lapsed' => o \in lapsed)
         \/ hold'[o] = NoLines /\ o \in lapsed

LEMMA CartStepsKeepOrderRows ==
    ASSUME TypeOK,
           \/ \E u \in Users :
                \/ \E v \in Variants, n \in 1..MaxQty : AddItem(u, v, n) \/ UpdateItem(u, v, n)
                \/ \E v \in Variants : RemoveItem(u, v)
                \/ ReopenCart(u) \/ ApplyCoupon(u) \/ RemoveCoupon(u)
                \/ ChatCheckoutFails(u) \/ CartGoesStale(u)
           \/ CleanupReservations \/ ExpireCarts \/ ToggleCoupon
           \/ \E v \in Variants, n \in StockEdits : EditStock(v, n)
           \/ UNCHANGED vars
    PROVE  OrderRowsKept
<1>. USE DEF cartVars, holdVars, orderVars, couponVars, payVars, OrderRowsKept
<1>. Users \cap Orders = {} /\ Orders \subseteq Owners
  BY OwnersAssumption DEF Owners
<1>1. CASE \E u \in Users :
             \/ \E v \in Variants, n \in 1..MaxQty : AddItem(u, v, n) \/ UpdateItem(u, v, n)
             \/ ReopenCart(u) \/ ChatCheckoutFails(u)
  <2>1. PICK u \in Users :
             \/ \E v \in Variants : \E n : SetItem(u, v, n)
             \/ ReopenCart(u) \/ ChatCheckoutFails(u)
    BY <1>1 DEF AddItem, UpdateItem
  <2>2. ASSUME \/ Release({u})
               \/ \E want : ReleaseAndHold({u}, u, want)
               \/ UNCHANGED << hold, lapsed >>
        PROVE  \A o \in Orders : hold'[o] = hold[o] /\ (o \in lapsed' => o \in lapsed)
    <3>1. u \notin Orders
      OBVIOUS
    <3>2. CASE Release({u})
      BY <3>1, <3>2 DEF Release, Drop, TypeOK
    <3>3. ASSUME NEW want, ReleaseAndHold({u}, u, want)
          PROVE  \A o \in Orders : hold'[o] = hold[o] /\ (o \in lapsed' => o \in lapsed)
      BY <3>1, <3>3 DEF ReleaseAndHold, Drop, TypeOK
    <3>. QED
      BY <2>2, <3>2, <3>3
  <2>3. CASE \E v \in Variants : \E n : SetItem(u, v, n)
    BY <2>2, <2>3 DEF SetItem
  <2>4. CASE ReopenCart(u)
    BY <2>2, <2>4 DEF ReopenCart
  <2>5. CASE ChatCheckoutFails(u)
    BY <2>2, <2>5 DEF ChatCheckoutFails
  <2>. QED
    BY <2>1, <2>3, <2>4, <2>5
<1>2. CASE \E u \in Users : \/ \E v \in Variants : RemoveItem(u, v)
                           \/ ApplyCoupon(u) \/ RemoveCoupon(u) \/ CartGoesStale(u)
  BY <1>2 DEF RemoveItem, ApplyCoupon, RemoveCoupon, CartGoesStale
<1>3. CASE CleanupReservations
  BY <1>3 DEF CleanupReservations, Release, Drop
<1>4. CASE ExpireCarts
  BY <1>4 DEF ExpireCarts, Release, Drop, TypeOK
<1>5. CASE ToggleCoupon \/ (\E v \in Variants, n \in StockEdits : EditStock(v, n)) \/ UNCHANGED vars
  BY <1>5 DEF ToggleCoupon, EditStock, vars
<1>. QED
  BY <1>1, <1>2, <1>3, <1>4, <1>5

HoldInv == TypeOK /\ HoldsFollowOrders /\ PayableOrdersHeld

LEMMA HoldStep == HoldInv /\ [Next]_vars => (HoldsFollowOrders /\ PayableOrdersHeld)'
<1>. SUFFICES ASSUME HoldInv, [Next]_vars
              PROVE  HoldsFollowOrders' /\ PayableOrdersHeld'
  OBVIOUS
<1>. USE DEF cartVars, holdVars, orderVars, couponVars, payVars,
             HoldInv, HoldsFollowOrders, PayableOrdersHeld
<1>. Users \cap Orders = {} /\ Orders \subseteq Owners /\ Users \subseteq Owners
  BY OwnersAssumption DEF Owners
<1>1. CASE OrderRowsKept
  BY <1>1 DEF OrderRowsKept, TypeOK
<1>2. ASSUME NEW u \in Users, NEW o \in Orders, NEW l \in {"open", "none"}, Checkout(u, o, l)
      PROVE  HoldsFollowOrders' /\ PayableOrdersHeld'
  BY <1>2 DEF Checkout, ReleaseAndHold, Drop, TypeOK
<1>3. ASSUME NEW o \in Orders, RetryPayment(o)
      PROVE  HoldsFollowOrders' /\ PayableOrdersHeld'
  BY <1>3 DEF RetryPayment, ReleaseAndHold, Drop, TypeOK
<1>4. ASSUME NEW o \in Orders, MarkPaid(o)
      PROVE  HoldsFollowOrders' /\ PayableOrdersHeld'
  BY <1>4 DEF MarkPaid, Release, Drop, TypeOK
<1>5. ASSUME NEW o \in Orders, ChainMove(o)
      PROVE  HoldsFollowOrders' /\ PayableOrdersHeld'
  BY <1>5, ChainMoveStaysSold DEF SoldStatuses, TypeOK
<1>6. ASSUME NEW o \in Orders, CancelOrder(o)
      PROVE  HoldsFollowOrders' /\ PayableOrdersHeld'
  BY <1>6 DEF CancelOrder, WasPaid, Release, Drop, TypeOK
<1>7. ASSUME NEW o \in Orders, CapturePayment(o) \/ LinkExpires(o) \/ ReturnWindowCloses(o)
      PROVE  HoldsFollowOrders' /\ PayableOrdersHeld'
  BY <1>7 DEF CapturePayment, LinkExpires, ReturnWindowCloses, TypeOK
<1>8. ASSUME NEW w \in Owners, HoldLapses(w)
      PROVE  HoldsFollowOrders' /\ PayableOrdersHeld'
  BY <1>8 DEF HoldLapses, TypeOK
<1>. QED
  BY <1>1, <1>2, <1>3, <1>4, <1>5, <1>6, <1>7, <1>8, CartStepsKeepOrderRows
     DEF Next, ShopperStep, OrderStep, ChainMove

LEMMA HoldInit == Init => HoldsFollowOrders /\ PayableOrdersHeld
BY DEF Init, HoldsFollowOrders, PayableOrdersHeld, Owners

\* An order's active rows are exactly its lines and exist only while it awaits
\* payment, and they are there as long as one of its links is open: whatever
\* settlement, retry, cancellation, expiry and cleanup do, in any order.
THEOREM HoldsCorrect == Spec => [](HoldsFollowOrders /\ PayableOrdersHeld)
<1>1. Init => HoldInv
  BY TypeInit, HoldInit DEF HoldInv
<1>2. HoldInv /\ [Next]_vars => HoldInv'
  BY TypeStep, HoldStep DEF HoldInv
<1>3. HoldInv => HoldsFollowOrders /\ PayableOrdersHeld
  BY DEF HoldInv
<1>. QED
  BY <1>1, <1>2, <1>3, PTL DEF Spec

-----------------------------------------------------------------------------
(* Stock.                                                                  *)

LEMMA OwnersFinite == IsFiniteSet(Owners) /\ IsFiniteSet(Orders) /\ Orders \subseteq Owners
BY OwnersAssumption, FS_Union DEF Owners

LEMMA QuantityType ==
    ASSUME TypeOK, NEW v \in Variants
    PROVE  /\ \A w \in Owners : HeldOf(v)[w] \in 0..MaxQty /\ HeldOf(v)[w] \in Nat
           /\ \A o \in Orders : SoldOf(v)[o] \in 0..MaxQty /\ SoldOf(v)[o] \in Nat
           /\ stock[v] \in Nat
BY BoundsAssumption DEF TypeOK, HeldOf, SoldOf, Lines

LEMMA ReservedType ==
    ASSUME TypeOK, NEW v \in Variants, NEW S \in SUBSET Owners
    PROVE  Reserved(v, S) \in Nat /\ Reserved(v, S) <= Reserved(v, Owners)
<1>1. IsFiniteSet(S \ lapsed) /\ IsFiniteSet(Owners \ lapsed)
  BY OwnersFinite, FS_Subset
<1>2. Total(S \ lapsed, HeldOf(v)) \in Nat
  BY <1>1, TotalType
<1>3. \A w \in S \ lapsed : HeldOf(v)[w] \in Int /\ HeldOf(v)[w] <= HeldOf(v)[w]
  BY QuantityType
<1>4. Total(S \ lapsed, HeldOf(v)) <= Total(Owners \ lapsed, HeldOf(v))
  BY <1>1, <1>3, TotalMonotone
<1>. QED
  BY <1>2, <1>4 DEF Reserved

\* Releasing rows never raises what is reserved.
LEMMA ReleaseLowers ==
    ASSUME TypeOK, TypeOK', NEW owners \in SUBSET Owners, Release(owners), NEW v \in Variants
    PROVE  Reserved(v, Owners)' <= Reserved(v, Owners)
<1>. DEFINE S == (Owners \ lapsed) \ owners
<1>1. IsFiniteSet(Owners \ lapsed)
  BY OwnersFinite, FS_Subset
<1>2. /\ \A w \in S : HeldOf(v)'[w] = HeldOf(v)[w]
      /\ \A w \in (Owners \ lapsed') \ S : HeldOf(v)'[w] = 0
      /\ S \subseteq Owners \ lapsed'
  BY NoLinesType DEF Release, Drop, HeldOf
<1>3. Total(S, HeldOf(v)') = Total(Owners \ lapsed', HeldOf(v)')
  BY <1>2, TotalCongruent
<1>4. Total(S, HeldOf(v)') <= Total(Owners \ lapsed, HeldOf(v))
  <2>1. \A w \in S : /\ HeldOf(v)'[w] \in Int /\ HeldOf(v)[w] \in Int
                     /\ HeldOf(v)'[w] <= HeldOf(v)[w]
    BY <1>2, QuantityType
  <2>. QED
    BY <1>1, <2>1, TotalMonotone
<1>. QED
  BY <1>3, <1>4 DEF Reserved

\* Fresh rows for one owner add their quantity to what the others hold.
LEMMA HoldAdds ==
    ASSUME TypeOK, TypeOK', NEW from \in SUBSET Owners, NEW owner \in Owners, NEW want \in Lines,
           ReleaseAndHold(from, owner, want), NEW v \in Variants
    PROVE  Reserved(v, Owners)' <= Reserved(v, Owners \ from) + want[v]
<1>. DEFINE S == (Owners \ lapsed) \ (from \cup {owner})
<1>1. /\ IsFiniteSet((Owners \ from) \ lapsed)
      /\ IsFiniteSet(S)
  BY OwnersFinite, FS_Subset
<1>2. /\ \A w \in S : HeldOf(v)'[w] = HeldOf(v)[w]
      /\ \A w \in (Owners \ lapsed') \ (S \cup {owner}) : HeldOf(v)'[w] = 0
      /\ S \cup {owner} \subseteq Owners \ lapsed'
      /\ HeldOf(v)'[owner] = want[v]
      /\ want[v] \in 0..MaxQty
  BY NoLinesType DEF ReleaseAndHold, Drop, HeldOf, Lines
<1>3. Total(S \cup {owner}, HeldOf(v)') = Total(Owners \ lapsed', HeldOf(v)')
  BY <1>2, TotalCongruent
<1>4. Total(S \cup {owner}, HeldOf(v)') = Total(S, HeldOf(v)') + HeldOf(v)'[owner]
  BY <1>1, <1>2, TotalAdd
<1>5. Total(S, HeldOf(v)') <= Total((Owners \ from) \ lapsed, HeldOf(v))
  <2>1. \A w \in S : /\ HeldOf(v)'[w] \in Int /\ HeldOf(v)[w] \in Int
                     /\ HeldOf(v)'[w] <= HeldOf(v)[w]
    BY <1>2, QuantityType
  <2>2. S \subseteq (Owners \ from) \ lapsed
    OBVIOUS
  <2>. QED
    BY <1>1, <2>1, <2>2, TotalMonotone
<1>6. /\ Total(S, HeldOf(v)') \in Nat
      /\ Total((Owners \ from) \ lapsed, HeldOf(v)) \in Nat
      /\ want[v] \in Int
  BY <1>1, <1>2, TotalType, BoundsAssumption
<1>. QED
  BY <1>2, <1>3, <1>4, <1>5, <1>6 DEF Reserved

\* So holding what fits keeps the holds within the stock.
LEMMA FittingHoldFits ==
    ASSUME TypeOK, TypeOK', NoOversell, UNCHANGED stock,
           NEW from \in SUBSET Owners, NEW owner \in Owners, NEW want \in Lines,
           ReleaseAndHold(from, owner, want),
           \A v \in Variants : want[v] > 0 => Fits(want, v, Owners \ from)
    PROVE  NoOversell'
<1>. SUFFICES ASSUME NEW v \in Variants PROVE Reserved(v, Owners)' <= stock'[v]
  BY DEF NoOversell
<1>1. Reserved(v, Owners)' <= Reserved(v, Owners \ from) + want[v]
  BY HoldAdds
<1>2. /\ Reserved(v, Owners \ from) \in Nat
      /\ Reserved(v, Owners) \in Nat
      /\ Reserved(v, Owners)' \in Nat
      /\ Reserved(v, Owners \ from) <= Reserved(v, Owners)
  <2>1. Owners \ from \in SUBSET Owners /\ Owners \in SUBSET Owners
    OBVIOUS
  <2>2. Reserved(v, Owners)' \in Nat
    <3>1. IsFiniteSet(Owners \ lapsed')
      BY OwnersFinite, FS_Subset
    <3>. QED
      BY <3>1, TotalType DEF Reserved
  <2>. QED
    BY <2>1, <2>2, ReservedType
<1>3. want[v] \in Nat /\ stock[v] \in Nat /\ Reserved(v, Owners) <= stock[v]
  BY BoundsAssumption DEF TypeOK, Lines, NoOversell
<1>4. CASE want[v] > 0
  BY <1>1, <1>2, <1>3, <1>4 DEF Fits
<1>5. CASE want[v] = 0
  BY <1>1, <1>2, <1>3, <1>5
<1>. QED
  BY <1>3, <1>4, <1>5

\* Nothing but the calm assumptions: payments settle while their hold is alive,
\* and no admin writes over a stock figure.
Undisturbed == TimelySettlement /\ StockEdits = {}

\* StockConserved, of kept and returned goods together.
ShelfAndSales ==
    \A v \in Variants : stock[v] + Total(Sold, SoldOf(v)) = InitialStock[v]

StockInv ==
    /\ HoldInv
    /\ CapturedOrdersHeld
    /\ NoOversell
    /\ PaidOrdersHaveTheirStock
    /\ ShelfAndSales

\* Settling an order moves exactly its lines from held to sold.
LEMMA MarkPaidSells ==
    ASSUME StockInv, TypeOK', NEW o \in Orders, MarkPaid(o)
    PROVE  /\ hold[o] = lines[o]
           /\ \A v \in Variants : /\ lines[o][v] <= stock[v]
                                 /\ stock'[v] = stock[v] - lines[o][v]
           /\ NoOversell'
<1>1. hold[o] = lines[o] /\ o \notin lapsed /\ o \in Owners
  BY OwnersFinite DEF MarkPaid, StockInv, CapturedOrdersHeld
<1>. DEFINE S == (Owners \ lapsed) \ {o}
<1>2. ASSUME NEW v \in Variants
      PROVE  /\ lines[o][v] <= stock[v]
             /\ stock'[v] = stock[v] - lines[o][v]
             /\ Reserved(v, Owners)' <= stock'[v]
  <2>. TypeOK
    BY DEF StockInv, HoldInv
  <2>1. IsFiniteSet(S) /\ o \notin S /\ Owners \ lapsed = S \cup {o} /\ Owners \ lapsed' = S \cup {o}
    BY <1>1, OwnersFinite, FS_Subset DEF MarkPaid, Release
  <2>2. Reserved(v, Owners) = Total(S, HeldOf(v)) + hold[o][v]
    <3>1. HeldOf(v)[o] = hold[o][v] /\ HeldOf(v)[o] \in 0..MaxQty
      BY <1>1, QuantityType DEF HeldOf
    <3>2. Total(S \cup {o}, HeldOf(v)) = Total(S, HeldOf(v)) + HeldOf(v)[o]
      BY <2>1, <3>1, TotalAdd
    <3>. QED
      BY <2>1, <3>1, <3>2 DEF Reserved
  <2>3. Reserved(v, Owners)' = Total(S, HeldOf(v))
    <3>1. /\ \A w \in S : HeldOf(v)[w] = HeldOf(v)'[w]
          /\ \A w \in (S \cup {o}) \ S : HeldOf(v)'[w] = 0
      BY <1>1, NoLinesType DEF MarkPaid, Release, Drop, HeldOf
    <3>2. Total(S, HeldOf(v)) = Total(S \cup {o}, HeldOf(v)')
      BY <3>1, TotalCongruent
    <3>. QED
      BY <2>1, <3>2 DEF Reserved
  <2>4. /\ Total(S, HeldOf(v)) \in Nat
        /\ hold[o][v] \in Nat
        /\ stock[v] \in Nat
        /\ Reserved(v, Owners) <= stock[v]
    BY <1>1, <2>1, TotalType, QuantityType, BoundsAssumption DEF TypeOK, Lines, StockInv, NoOversell
  <2>5. hold[o][v] <= stock[v] /\ Total(S, HeldOf(v)) <= stock[v] - hold[o][v]
    BY <2>2, <2>4
  <2>6. stock'[v] = stock[v] - hold[o][v]
    BY <2>5 DEF MarkPaid, StockAfterCommit
  <2>. QED
    BY <1>1, <2>3, <2>5, <2>6
<1>. QED
  BY <1>1, <1>2 DEF NoOversell

LEMMA CapturedStep ==
    ASSUME Undisturbed, HoldInv, CapturedOrdersHeld, [Next]_vars
    PROVE  CapturedOrdersHeld'
<1>. USE DEF cartVars, holdVars, orderVars, couponVars, payVars,
             HoldInv, HoldsFollowOrders, PayableOrdersHeld, CapturedOrdersHeld
<1>. Users \cap Orders = {} /\ Orders \subseteq Owners /\ captured \subseteq Orders
  BY OwnersAssumption DEF Owners, TypeOK
<1>1. CASE OrderRowsKept
  BY <1>1 DEF OrderRowsKept, TypeOK
<1>2. ASSUME NEW u \in Users, NEW o \in Orders, NEW l \in {"open", "none"}, Checkout(u, o, l)
      PROVE  CapturedOrdersHeld'
  BY <1>2 DEF Checkout, ReleaseAndHold, Drop, TypeOK
<1>3. ASSUME NEW o \in Orders, RetryPayment(o) PROVE CapturedOrdersHeld'
  BY <1>3 DEF RetryPayment, ReleaseAndHold, Drop, TypeOK
<1>4. ASSUME NEW o \in Orders, MarkPaid(o) PROVE CapturedOrdersHeld'
  BY <1>4 DEF MarkPaid, Release, Drop, TypeOK
<1>5. ASSUME NEW o \in Orders, ChainMove(o) PROVE CapturedOrdersHeld'
  BY <1>5, ChainMoveStaysSold DEF SoldStatuses, TypeOK
<1>6. ASSUME NEW o \in Orders, CancelOrder(o) PROVE CapturedOrdersHeld'
  BY <1>6 DEF CancelOrder, WasPaid, Release, Drop, TypeOK
<1>7. ASSUME NEW o \in Orders, CapturePayment(o) \/ LinkExpires(o) \/ ReturnWindowCloses(o)
      PROVE  CapturedOrdersHeld'
  BY <1>7 DEF CapturePayment, LinkExpires, ReturnWindowCloses, TypeOK
<1>8. ASSUME NEW w \in Owners, HoldLapses(w) PROVE CapturedOrdersHeld'
  BY <1>8 DEF HoldLapses, TypeOK, Undisturbed
<1>. QED
  BY <1>1, <1>2, <1>3, <1>4, <1>5, <1>6, <1>7, <1>8, CartStepsKeepOrderRows
     DEF Next, ShopperStep, OrderStep, ChainMove

LEMMA OversellStep ==
    ASSUME Undisturbed, StockInv, TypeOK', [Next]_vars
    PROVE  NoOversell'
<1>. USE DEF cartVars, holdVars, orderVars, couponVars, payVars
<1>. TypeOK /\ NoOversell /\ Users \subseteq Owners /\ Orders \subseteq Owners
  BY DEF StockInv, HoldInv, Owners
<1>1. ASSUME NEW owners \in SUBSET Owners, Release(owners),
             \A v \in Variants : stock'[v] \in Int /\ stock[v] <= stock'[v]
      PROVE  NoOversell'
  <2>. SUFFICES ASSUME NEW v \in Variants PROVE Reserved(v, Owners)' <= stock'[v]
    BY DEF NoOversell
  <2>1. Reserved(v, Owners)' <= Reserved(v, Owners)
    BY <1>1, ReleaseLowers
  <2>2. Reserved(v, Owners) \in Nat /\ Reserved(v, Owners)' \in Nat
    <3>1. IsFiniteSet(Owners \ lapsed) /\ IsFiniteSet(Owners \ lapsed')
      BY OwnersFinite, FS_Subset
    <3>. QED
      BY <3>1, TotalType DEF Reserved
  <2>3. Reserved(v, Owners) <= stock[v] /\ stock[v] \in Nat
    BY DEF NoOversell, TypeOK
  <2>. QED
    BY <1>1, <2>1, <2>2, <2>3
<1>2. ASSUME NEW owners \in SUBSET Owners, Release(owners), UNCHANGED stock PROVE NoOversell'
  BY <1>1, <1>2 DEF TypeOK
<1>3. ASSUME UNCHANGED << hold, lapsed >>,
             \A v \in Variants : stock'[v] \in Int /\ stock[v] <= stock'[v]
      PROVE  NoOversell'
  <2>1. Release({}) /\ {} \in SUBSET Owners
    BY <1>3 DEF Release, Drop, TypeOK
  <2>. QED
    BY <1>1, <1>3, <2>1
<1>4. ASSUME UNCHANGED << hold, lapsed, stock >> PROVE NoOversell'
  BY <1>3, <1>4 DEF TypeOK
<1>5. ASSUME NEW u \in Users, ShopperStep(u) PROVE NoOversell'
  <2>1. ASSUME NEW v, NEW n, SetItem(u, v, n) PROVE NoOversell'
    BY <1>2, <1>4, <2>1 DEF SetItem
  <2>2. ASSUME NEW o \in Orders, NEW l, Checkout(u, o, l) PROVE NoOversell'
    <3>1. \A v \in Variants : cart[u][v] > 0 => Fits(cart[u], v, Owners \ {u})
      BY <2>2 DEF Checkout, Short
    <3>2. cart[u] \in Lines /\ ReleaseAndHold({u}, o, cart[u]) /\ UNCHANGED stock
      BY <2>2 DEF Checkout, TypeOK
    <3>. QED
      BY <3>1, <3>2, FittingHoldFits
  <2>3. ASSUME ChatCheckoutFails(u) PROVE NoOversell'
    <3>. DEFINE before == { v \in Variants : \A w \in Short(u) : v < w }
                part == [v \in Variants |-> IF v \in before THEN cart[u][v] ELSE 0]
    <3>1. ReleaseAndHold({u}, u, part) /\ UNCHANGED stock
      BY <2>3 DEF ChatCheckoutFails
    <3>2. part \in Lines
      BY BoundsAssumption DEF TypeOK, Lines
    <3>3. \A v \in Variants : part[v] > 0 => Fits(part, v, Owners \ {u})
      <4>. SUFFICES ASSUME NEW v \in Variants, part[v] > 0 PROVE Fits(part, v, Owners \ {u})
        OBVIOUS
      <4>1. v \in before /\ part[v] = cart[u][v]
        OBVIOUS
      <4>2. v \notin Short(u)
        BY <4>1, VariantsAssumption
      <4>. QED
        BY <4>1, <4>2 DEF Short, Fits
    <3>. QED
      BY <3>1, <3>2, <3>3, FittingHoldFits
  <2>4. ASSUME NEW v, RemoveItem(u, v) PROVE NoOversell'
    BY <1>4, <2>4 DEF RemoveItem
  <2>5. ASSUME ReopenCart(u) PROVE NoOversell'
    BY <1>2, <2>5 DEF ReopenCart
  <2>6. ASSUME ApplyCoupon(u) \/ RemoveCoupon(u) \/ CartGoesStale(u) PROVE NoOversell'
    BY <1>4, <2>6 DEF ApplyCoupon, RemoveCoupon, CartGoesStale
  <2>. QED
    BY <1>5, <2>1, <2>2, <2>3, <2>4, <2>5, <2>6 DEF ShopperStep, AddItem, UpdateItem
<1>6. ASSUME NEW o \in Orders, OrderStep(o) PROVE NoOversell'
  <2>1. ASSUME RetryPayment(o) PROVE NoOversell'
    <3>1. /\ lines[o] \in Lines /\ ReleaseAndHold({o}, o, lines[o]) /\ UNCHANGED stock
          /\ \A v \in Variants : lines[o][v] > 0 => Fits(lines[o], v, Owners \ {o})
      BY <2>1 DEF RetryPayment, TypeOK
    <3>. QED
      BY <3>1, FittingHoldFits
  <2>2. ASSUME MarkPaid(o) PROVE NoOversell'
    BY <2>2, MarkPaidSells
  <2>3. ASSUME ChainMove(o) PROVE NoOversell'
    BY <1>4, <2>3, ChainMoveStaysSold
  <2>4. ASSUME CancelOrder(o) PROVE NoOversell'
    <3>1. CASE status[o] \in WasPaid
      <4>1. \A v \in Variants : stock'[v] \in Int /\ stock[v] <= stock'[v]
        BY <2>4, <3>1, BoundsAssumption DEF CancelOrder, TypeOK, Lines
      <4>. QED
        BY <1>3, <2>4, <3>1, <4>1 DEF CancelOrder
    <3>2. CASE status[o] \notin WasPaid
      BY <1>2, <2>4, <3>2 DEF CancelOrder
    <3>. QED
      BY <3>1, <3>2
  <2>5. ASSUME CapturePayment(o) \/ LinkExpires(o) \/ ReturnWindowCloses(o) PROVE NoOversell'
    BY <1>4, <2>5 DEF CapturePayment, LinkExpires, ReturnWindowCloses
  <2>. QED
    BY <1>6, <2>1, <2>2, <2>3, <2>4, <2>5 DEF OrderStep, ChainMove
<1>7. ASSUME NEW w \in Owners, HoldLapses(w) PROVE NoOversell'
  <2>. SUFFICES ASSUME NEW v \in Variants PROVE Reserved(v, Owners)' <= stock'[v]
    BY DEF NoOversell
  <2>1. /\ Owners \ lapsed' \subseteq Owners \ lapsed
        /\ IsFiniteSet(Owners \ lapsed) /\ IsFiniteSet(Owners \ lapsed')
        /\ HeldOf(v)' = HeldOf(v)
    BY <1>7, OwnersFinite, FS_Subset DEF HoldLapses, HeldOf
  <2>2. \A x \in Owners \ lapsed' : HeldOf(v)[x] \in Int /\ HeldOf(v)[x] <= HeldOf(v)[x]
    BY QuantityType
  <2>3. Total(Owners \ lapsed', HeldOf(v)) <= Total(Owners \ lapsed, HeldOf(v))
    BY <2>1, <2>2, TotalMonotone
  <2>4. /\ Total(Owners \ lapsed', HeldOf(v)) \in Nat
        /\ Total(Owners \ lapsed, HeldOf(v)) \in Nat
    BY <2>1, TotalType
  <2>5. stock'[v] = stock[v] /\ stock[v] \in Nat /\ Reserved(v, Owners) <= stock[v]
    BY <1>7 DEF HoldLapses, TypeOK, NoOversell
  <2>. QED
    BY <2>1, <2>3, <2>4, <2>5 DEF Reserved
<1>8. ASSUME CleanupReservations PROVE NoOversell'
  BY <1>2, <1>8 DEF CleanupReservations, TypeOK
<1>9. ASSUME ExpireCarts PROVE NoOversell'
  BY <1>2, <1>9 DEF ExpireCarts, TypeOK
<1>10. ASSUME ToggleCoupon \/ UNCHANGED vars PROVE NoOversell'
  BY <1>4, <1>10 DEF ToggleCoupon, vars
<1>. QED
  BY <1>5, <1>6, <1>7, <1>8, <1>9, <1>10 DEF Next, Undisturbed

\* The steps that are neither a sale nor the undoing of one leave the shelf and
\* everything recorded about the sold orders alone.
ShelfKept ==
    /\ UNCHANGED stock
    /\ Sold' = Sold
    /\ \A o \in Sold : lines'[o] = lines[o] /\ committed'[o] = committed[o]

LEMMA OtherStepsKeepShelf ==
    ASSUME Undisturbed, StockInv, [Next]_vars
    PROVE  \/ ShelfKept
           \/ \E o \in Orders : MarkPaid(o)
           \/ \E o \in Orders : CancelOrder(o) /\ status[o] \in WasPaid
<1>. USE DEF cartVars, holdVars, orderVars, couponVars, payVars, ShelfKept, Sold
<1>. TypeOK
  BY DEF StockInv, HoldInv
<1>1. ASSUME NEW u \in Users, NEW o \in Orders, NEW l, Checkout(u, o, l) PROVE ShelfKept
  <2>1. /\ status[o] = "none" /\ status' = [status EXCEPT ![o] = "pending_payment"]
        /\ lines' = [lines EXCEPT ![o] = cart[u]] /\ UNCHANGED << stock, committed >>
    BY <1>1 DEF Checkout
  <2>2. "none" \notin SoldStatuses /\ "pending_payment" \notin SoldStatuses
    BY DEF SoldStatuses, Statuses
  <2>. QED
    BY <2>1, <2>2 DEF TypeOK
<1>2. ASSUME NEW u \in Users, ShopperStep(u) PROVE ShelfKept
  <2>1. ASSUME NEW v, NEW n, SetItem(u, v, n) PROVE ShelfKept
    BY <2>1 DEF SetItem
  <2>2. ASSUME \/ \E v \in Variants : RemoveItem(u, v)
               \/ ReopenCart(u) \/ ApplyCoupon(u) \/ RemoveCoupon(u)
               \/ ChatCheckoutFails(u) \/ CartGoesStale(u)
        PROVE  ShelfKept
    BY <2>2 DEF RemoveItem, ReopenCart, ApplyCoupon, RemoveCoupon, ChatCheckoutFails, CartGoesStale
  <2>. QED
    BY <1>1, <1>2, <2>1, <2>2 DEF ShopperStep, AddItem, UpdateItem
<1>3. ASSUME NEW o \in Orders, OrderStep(o)
      PROVE  ShelfKept \/ MarkPaid(o) \/ (CancelOrder(o) /\ status[o] \in WasPaid)
  <2>1. ASSUME RetryPayment(o) \/ CapturePayment(o) \/ LinkExpires(o) \/ ReturnWindowCloses(o)
        PROVE  ShelfKept
    BY <2>1 DEF RetryPayment, CapturePayment, LinkExpires, ReturnWindowCloses
  <2>2. ASSUME ChainMove(o) PROVE ShelfKept
    BY <2>2, ChainMoveStaysSold DEF TypeOK
  <2>3. ASSUME CancelOrder(o), status[o] \notin WasPaid PROVE ShelfKept
    <3>1. status[o] \notin SoldStatuses /\ "cancelled" \notin SoldStatuses
      BY <2>3 DEF CancelOrder, SoldStatuses, Statuses, NonCancellable, WasPaid
    <3>. QED
      BY <2>3, <3>1 DEF CancelOrder, TypeOK
  <2>. QED
    BY <1>3, <2>1, <2>2, <2>3 DEF OrderStep, ChainMove
<1>4. ASSUME \/ \E w \in Owners : HoldLapses(w)
             \/ CleanupReservations \/ ExpireCarts \/ ToggleCoupon \/ UNCHANGED vars
      PROVE  ShelfKept
  BY <1>4 DEF HoldLapses, CleanupReservations, ExpireCarts, ToggleCoupon, vars
<1>. QED
  BY <1>2, <1>3, <1>4 DEF Next, Undisturbed

\* A sale and its undoing, as changes of the set of sold orders.
LEMMA SaleChangesSold ==
    ASSUME StockInv, NEW o \in Orders, MarkPaid(o)
    PROVE  o \notin Sold /\ Sold' = Sold \cup {o} /\ UNCHANGED lines
BY DEF StockInv, HoldInv, TypeOK, MarkPaid, Sold, SoldStatuses, Statuses

LEMMA UndoChangesSold ==
    ASSUME StockInv, NEW o \in Orders, CancelOrder(o), status[o] \in WasPaid
    PROVE  /\ o \in Sold /\ Sold' = Sold \ {o} /\ UNCHANGED << lines, committed >>
           /\ \A v \in Variants : stock'[v] = stock[v] + lines[o][v]
BY DEF StockInv, HoldInv, TypeOK, CancelOrder, Sold, SoldStatuses, Statuses, WasPaid

LEMMA PaidStep ==
    ASSUME Undisturbed, StockInv, TypeOK', [Next]_vars
    PROVE  PaidOrdersHaveTheirStock'
<1>1. CASE ShelfKept
  BY <1>1 DEF ShelfKept, StockInv, PaidOrdersHaveTheirStock
<1>2. ASSUME NEW o \in Orders, MarkPaid(o) PROVE PaidOrdersHaveTheirStock'
  <2>1. hold[o] = lines[o] /\ committed' = [committed EXCEPT ![o] = hold[o]]
    BY <1>2, MarkPaidSells DEF MarkPaid
  <2>2. committed \in [Orders -> Lines] /\ Sold \subseteq Orders
    BY DEF StockInv, HoldInv, TypeOK, Sold
  <2>. QED
    BY <1>2, <2>1, <2>2, SaleChangesSold DEF StockInv, PaidOrdersHaveTheirStock
<1>3. ASSUME NEW o \in Orders, CancelOrder(o), status[o] \in WasPaid
      PROVE  PaidOrdersHaveTheirStock'
  BY <1>3, UndoChangesSold DEF StockInv, PaidOrdersHaveTheirStock
<1>. QED
  BY <1>1, <1>2, <1>3, OtherStepsKeepShelf

LEMMA ConservedStep ==
    ASSUME Undisturbed, StockInv, TypeOK', [Next]_vars
    PROVE  ShelfAndSales'
<1>. SUFFICES ASSUME NEW v \in Variants
              PROVE  stock'[v] + Total(Sold', SoldOf(v)') = InitialStock[v]
  BY DEF ShelfAndSales
<1>. DEFINE sum == Total(Sold, SoldOf(v))
<1>1. /\ TypeOK /\ Sold \subseteq Orders /\ IsFiniteSet(Sold)
      /\ stock[v] \in Nat /\ sum \in Nat
      /\ stock[v] + sum = InitialStock[v]
  <2>1. TypeOK /\ Sold \subseteq Orders /\ stock[v] + sum = InitialStock[v]
    BY DEF StockInv, HoldInv, ShelfAndSales, Sold
  <2>2. IsFiniteSet(Sold)
    BY <2>1, OwnersFinite, FS_Subset
  <2>. QED
    BY <2>1, <2>2, TotalType, QuantityType
<1>2. CASE ShelfKept
  <2>1. \A o \in Sold : SoldOf(v)[o] = SoldOf(v)'[o]
    BY <1>1, <1>2 DEF ShelfKept, SoldOf
  <2>2. sum = Total(Sold, SoldOf(v)')
    BY <2>1, TotalCongruent
  <2>. QED
    BY <1>1, <1>2, <2>2 DEF ShelfKept
<1>3. ASSUME NEW o \in Orders, MarkPaid(o)
      PROVE  stock'[v] + Total(Sold', SoldOf(v)') = InitialStock[v]
  <2>1. o \notin Sold /\ Sold' = Sold \cup {o} /\ SoldOf(v)' = SoldOf(v)
    BY <1>3, SaleChangesSold DEF SoldOf
  <2>2. /\ SoldOf(v)[o] = lines[o][v] /\ SoldOf(v)[o] \in 0..MaxQty /\ lines[o][v] \in Nat
    BY <1>1, QuantityType DEF SoldOf
  <2>3. Total(Sold \cup {o}, SoldOf(v)) = sum + lines[o][v]
    <3>1. Total(Sold \cup {o}, SoldOf(v)) = Total(Sold, SoldOf(v)) + SoldOf(v)[o]
      BY <1>1, <2>1, <2>2, TotalAdd
    <3>. QED
      BY <2>2, <3>1
  <2>4. stock'[v] = stock[v] - lines[o][v]
    BY <1>3, MarkPaidSells
  <2>. QED
    BY <1>1, <2>1, <2>2, <2>3, <2>4
<1>4. ASSUME NEW o \in Orders, CancelOrder(o), status[o] \in WasPaid
      PROVE  stock'[v] + Total(Sold', SoldOf(v)') = InitialStock[v]
  <2>1. /\ o \in Sold /\ Sold' = Sold \ {o} /\ SoldOf(v)' = SoldOf(v)
        /\ stock'[v] = stock[v] + lines[o][v]
    BY <1>4, UndoChangesSold DEF SoldOf
  <2>2. /\ SoldOf(v)[o] = lines[o][v] /\ SoldOf(v)[o] \in 0..MaxQty /\ lines[o][v] \in Nat
    BY <1>1, QuantityType DEF SoldOf
  <2>3. IsFiniteSet(Sold \ {o}) /\ o \notin Sold \ {o} /\ (Sold \ {o}) \cup {o} = Sold
    BY <1>1, <2>1, FS_Subset
  <2>4. sum = Total(Sold \ {o}, SoldOf(v)) + lines[o][v]
    BY <2>2, <2>3, TotalAdd
  <2>5. Total(Sold \ {o}, SoldOf(v)) \in Nat
    BY <2>3, TotalType
  <2>. QED
    BY <1>1, <2>1, <2>2, <2>4, <2>5
<1>. QED
  BY <1>2, <1>3, <1>4, OtherStepsKeepShelf

LEMMA StockInit == Init => CapturedOrdersHeld /\ NoOversell /\ PaidOrdersHaveTheirStock /\ ShelfAndSales
<1>. SUFFICES ASSUME Init
              PROVE  CapturedOrdersHeld /\ NoOversell /\ PaidOrdersHaveTheirStock /\ ShelfAndSales
  OBVIOUS
<1>1. Sold = {}
  BY DEF Init, Sold, SoldStatuses, Statuses
<1>2. ASSUME NEW S, NEW qty, \A s \in S : qty[s] = 0 PROVE Total(S, qty) = 0
  <2>1. Units(S, qty) = {}
    BY <1>2 DEF Units
  <2>. QED
    BY <2>1, FS_EmptySet DEF Total
<1>3. ASSUME NEW v \in Variants
      PROVE  /\ Reserved(v, Owners) = 0
             /\ Total(Sold, SoldOf(v)) = 0
             /\ stock[v] = InitialStock[v] /\ InitialStock[v] \in Nat
  <2>1. \A w \in Owners \ lapsed : HeldOf(v)[w] = 0
    BY NoLinesType DEF Init, HeldOf
  <2>2. \A o \in Sold : SoldOf(v)[o] = 0
    BY <1>1
  <2>. QED
    BY <1>2, <2>1, <2>2, BoundsAssumption DEF Reserved, Init
<1>. QED
  BY <1>1, <1>3 DEF Init, CapturedOrdersHeld, NoOversell, PaidOrdersHaveTheirStock, ShelfAndSales

LEMMA StockInvariant == ASSUME Undisturbed PROVE Spec => []StockInv
<1>1. Init => StockInv
  BY TypeInit, HoldInit, StockInit DEF StockInv, HoldInv
<1>2. StockInv /\ [Next]_vars => StockInv'
  <2>. SUFFICES ASSUME StockInv, [Next]_vars PROVE StockInv'
    OBVIOUS
  <2>1. HoldInv /\ HoldInv' /\ TypeOK'
    BY TypeStep, HoldStep DEF StockInv, HoldInv
  <2>. QED
    BY <2>1, CapturedStep, OversellStep, PaidStep, ConservedStep DEF StockInv
<1>. QED
  BY <1>1, <1>2, PTL DEF Spec

\* With timely settlement the holds that are still alive never exceed the
\* stock, so two shoppers never both hold the last unit.
THEOREM NeverOversold == ASSUME Undisturbed PROVE Spec => []NoOversell
<1>1. StockInv => NoOversell
  BY DEF StockInv
<1>. QED
  BY <1>1, StockInvariant, PTL

\* mark_paid: with timely settlement every paid order has taken exactly its lines from
\* stock, whatever was held, released and expired before.
THEOREM PaidOrdersAreStocked == ASSUME Undisturbed PROVE Spec => []PaidOrdersHaveTheirStock
<1>1. StockInv => PaidOrdersHaveTheirStock
  BY DEF StockInv
<1>. QED
  BY <1>1, StockInvariant, PTL

\* A total is that of a part and of the rest.
LEMMA TotalSplit ==
    ASSUME NEW S, IsFiniteSet(S), NEW T, T \subseteq S, NEW qty
    PROVE  Total(S, qty) = Total(S \ T, qty) + Total(T, qty)
<1>1. IsFiniteSet(T) /\ IsFiniteSet(S \ T)
  BY FS_Subset
<1>2. /\ IsFiniteSet(Units(T, qty)) /\ IsFiniteSet(Units(S \ T, qty))
      /\ Total(T, qty) \in Nat /\ Total(S \ T, qty) \in Nat
  BY <1>1, TotalType
<1>3. /\ Units(S, qty) = Units(S \ T, qty) \cup Units(T, qty)
      /\ Units(S \ T, qty) \cap Units(T, qty) = {}
  BY DEF Units
<1>4. Cardinality(Units(S \ T, qty) \cup Units(T, qty)) =
        Cardinality(Units(S \ T, qty)) + Cardinality(Units(T, qty))
          - Cardinality(Units(S \ T, qty) \cap Units(T, qty))
  BY <1>2, FS_Union
<1>5. /\ Total(S, qty) = Cardinality(Units(S \ T, qty) \cup Units(T, qty))
      /\ Cardinality(Units(S \ T, qty) \cap Units(T, qty)) = 0
  BY <1>3, FS_EmptySet DEF Total
<1>. QED
  BY <1>2, <1>4, <1>5 DEF Total

\* With timely settlement the shelf and the units of orders that were paid and not
\* cancelled make up the initial stock for ever; no return brings a unit back.
THEOREM StockAccountsForSales == ASSUME Undisturbed PROVE Spec => []StockConserved
<1>1. StockInv => StockConserved
  <2>. SUFFICES ASSUME StockInv, NEW v \in Variants
                PROVE  stock[v] + Total(Sold \ SentBack, SoldOf(v)) + Total(SentBack, SoldOf(v))
                         = InitialStock[v]
    BY DEF StockConserved
  <2>1. IsFiniteSet(Sold) /\ SentBack \subseteq Sold
    BY OwnersFinite, FS_Subset DEF Sold, SentBack
  <2>2. IsFiniteSet(Sold \ SentBack) /\ IsFiniteSet(SentBack)
    BY <2>1, FS_Subset
  <2>3. Total(Sold \ SentBack, SoldOf(v)) \in Nat /\ Total(SentBack, SoldOf(v)) \in Nat
    BY <2>2, TotalType
  <2>4. Total(Sold, SoldOf(v)) = Total(Sold \ SentBack, SoldOf(v)) + Total(SentBack, SoldOf(v))
    BY <2>1, TotalSplit
  <2>5. stock[v] + Total(Sold, SoldOf(v)) = InitialStock[v] /\ stock[v] \in Nat
    BY QuantityType DEF StockInv, HoldInv, ShelfAndSales
  <2>. QED
    BY <2>3, <2>4, <2>5
<1>. QED
  BY <1>1, StockInvariant, PTL

\* With timely settlement an order whose payment the gateway has taken keeps
\* everything it ordered held, unexpired, until mark_paid or a cancellation.
THEOREM CapturedHeld == ASSUME Undisturbed PROVE Spec => []CapturedOrdersHeld
<1>1. StockInv => CapturedOrdersHeld
  BY DEF StockInv
<1>. QED
  BY <1>1, StockInvariant, PTL

-----------------------------------------------------------------------------
(* The status chain and the coupon.                                        *)

\* No operation skips a step of the lifecycle, cancel_order included, which
\* writes the status without asking can_transition.
THEOREM ChainFollowed == Spec => StatusFollowsChain
<1> USE DEF cartVars, holdVars, orderVars, couponVars, payVars
<1>1. ASSUME TypeOK, [Next]_vars, NEW o \in Orders PROVE ChainStep(status[o], status'[o])
  <2>1. CASE status' = status
    BY <2>1 DEF ChainStep
  <2>2. ASSUME NEW u \in Users, NEW p \in Orders, NEW l \in {"open", "none"}, Checkout(u, p, l)
        PROVE  ChainStep(status[o], status'[o])
    BY <1>1, <2>2 DEF Checkout, ChainStep, TypeOK
  <2>3. ASSUME NEW p \in Orders, MarkPaid(p) PROVE ChainStep(status[o], status'[o])
    BY <1>1, <2>3 DEF MarkPaid, ChainStep, TypeOK
  <2>4. ASSUME NEW p \in Orders, ChainMove(p) PROVE ChainStep(status[o], status'[o])
    BY <1>1, <2>4 DEF ChainMove, ConfirmOrder, RequestReturn, UpdateStatus, MoveTo, ChainStep,
                      TypeOK
  <2>5. ASSUME NEW p \in Orders, CancelOrder(p) PROVE ChainStep(status[o], status'[o])
    <3>1. status' = [status EXCEPT ![p] = "cancelled"] /\ status[p] \notin NonCancellable \cup {"none"}
      BY <2>5 DEF CancelOrder
    <3>2. CanTransition(status[p], "cancelled")
      BY <1>1, <3>1 DEF TypeOK, CanTransition, OrderTransitions, NonCancellable, Statuses
    <3>. QED
      BY <1>1, <3>1, <3>2 DEF ChainStep, TypeOK
  <2>6. ASSUME NEW p \in Orders,
               RetryPayment(p) \/ CapturePayment(p) \/ LinkExpires(p) \/ ReturnWindowCloses(p)
        PROVE  status' = status
    BY <2>6 DEF RetryPayment, CapturePayment, LinkExpires, ReturnWindowCloses
  <2>7. ASSUME NEW w \in Owners, HoldLapses(w) PROVE status' = status
    BY <2>7 DEF HoldLapses
  <2>8. OrderRowsKept => status' = status
    BY DEF OrderRowsKept
  <2>. QED
    BY <1>1, <2>1, <2>2, <2>3, <2>4, <2>5, <2>6, <2>7, <2>8, CartStepsKeepOrderRows
       DEF Next, ShopperStep, OrderStep, ChainMove
<1>2. TypeOK /\ [Next]_vars => [\A o \in Orders : ChainStep(status[o], status'[o])]_vars
  BY <1>1
<1>. QED
  BY <1>2, TypeCorrect, PTL DEF Spec, StatusFollowsChain

\* The steps that redeem nothing may free redemptions, of cancelled orders.
LEMMA OtherStepsRedeemNothing ==
    ASSUME TypeOK, CouponLimits, usage' \subseteq usage, UNCHANGED buyer,
           \A o \in usage' : status'[o] \notin {"none", "cancelled"}
    PROVE  CouponLimits'
<1>1. IsFiniteSet(usage)
  BY OwnersAssumption, FS_Subset DEF TypeOK
<1>2. Cardinality(usage') <= Cardinality(usage) /\ Cardinality(usage) \in Nat
      /\ IsFiniteSet(usage') /\ Cardinality(usage') \in Nat
  BY <1>1, FS_Subset, FS_CardinalityType
<1>3. ASSUME NEW u \in Users PROVE Cardinality(UsedBy(u)') <= PerUserLimit
  <2>1. UsedBy(u)' \subseteq UsedBy(u) /\ UsedBy(u) \subseteq usage
    BY DEF UsedBy
  <2>2. IsFiniteSet(UsedBy(u))
    BY <1>1, <2>1, FS_Subset
  <2>3. /\ Cardinality(UsedBy(u)') <= Cardinality(UsedBy(u))
        /\ Cardinality(UsedBy(u)) \in Nat /\ IsFiniteSet(UsedBy(u)')
    BY <2>1, <2>2, FS_Subset, FS_CardinalityType
  <2>4. Cardinality(UsedBy(u)') \in Nat
    BY <2>3, FS_CardinalityType
  <2>. QED
    BY <2>3, <2>4, BoundsAssumption DEF CouponLimits
<1>. QED
  BY <1>2, <1>3, BoundsAssumption DEF CouponLimits

\* The checkout that redeems finds room under both limits.
LEMMA CheckoutRedeemsWithinLimits ==
    ASSUME TypeOK, CouponLimits, NEW u \in Users, NEW o \in Orders, NEW l, Checkout(u, o, l)
    PROVE  CouponLimits'
<1>1. /\ status[o] = "none" /\ status' = [status EXCEPT ![o] = "pending_payment"]
      /\ buyer' = [buyer EXCEPT ![o] = u]
      /\ usage' = usage \/ (usage' = usage \cup {o} /\ CouponValid(u))
  BY DEF Checkout
<1>2. o \notin usage /\ IsFiniteSet(usage) /\ usage \subseteq Orders
  BY <1>1, OwnersAssumption, FS_Subset DEF TypeOK, CouponLimits
<1>3. \A p \in usage' : status'[p] \notin {"none", "cancelled"}
  BY <1>1, <1>2 DEF TypeOK, CouponLimits
<1>4. Cardinality(usage') <= MaxUses
  <2>1. Cardinality(usage) \in Nat /\ Cardinality(usage \cup {o}) = Cardinality(usage) + 1
    BY <1>2, FS_CardinalityType, FS_AddElement
  <2>2. Cardinality(usage) <= MaxUses /\ (CouponValid(u) => Cardinality(usage) < MaxUses)
    BY DEF CouponLimits, CouponValid
  <2>3. MaxUses \in Nat
    BY BoundsAssumption
  <2>4. CASE usage' = usage
    BY <2>2, <2>4
  <2>5. CASE usage' = usage \cup {o} /\ CouponValid(u)
    BY <2>1, <2>2, <2>3, <2>5
  <2>. QED
    BY <1>1, <2>4, <2>5
<1>5. ASSUME NEW x \in Users PROVE Cardinality(UsedBy(x)') <= PerUserLimit
  <2>1. UsedBy(x) = {p \in usage : buyer[p] = x} /\ UsedBy(x)' = {p \in usage' : buyer'[p] = x}
    BY DEF UsedBy
  <2>2. \/ UsedBy(x)' = UsedBy(x)
        \/ x = u /\ CouponValid(u) /\ UsedBy(x)' = UsedBy(x) \cup {o}
    BY <1>1, <1>2, <2>1 DEF TypeOK
  <2>3. o \notin UsedBy(x) /\ IsFiniteSet(UsedBy(x))
    BY <1>2, <2>1, FS_Subset
  <2>4. /\ Cardinality(UsedBy(x)) \in Nat
        /\ Cardinality(UsedBy(x) \cup {o}) = Cardinality(UsedBy(x)) + 1
    BY <2>3, FS_CardinalityType, FS_AddElement
  <2>. QED
    BY <2>2, <2>4, BoundsAssumption DEF CouponLimits, CouponValid
<1>. QED
  BY <1>3, <1>4, <1>5 DEF CouponLimits

\* The coupon is never redeemed more often than it allows, in total or by one
\* shopper, and a cancelled order gives its redemption back.
THEOREM CouponsWithinLimits == Spec => []CouponLimits
<1> USE DEF cartVars, holdVars, orderVars, couponVars, payVars
<1>1. Init => CouponLimits
  <2>1. Init => usage = {} /\ \A u \in Users : UsedBy(u) = {}
    BY DEF Init, UsedBy
  <2>. QED
    BY <2>1, FS_EmptySet, BoundsAssumption DEF CouponLimits
<1>2. TypeOK /\ CouponLimits /\ [Next]_vars => CouponLimits'
  <2> SUFFICES ASSUME TypeOK, CouponLimits, [Next]_vars PROVE CouponLimits'
    OBVIOUS
  <2> DEFINE FreesOnly == /\ usage' \subseteq usage /\ UNCHANGED buyer
                          /\ \A o \in usage' : status'[o] \notin {"none", "cancelled"}
  <2>1. ASSUME NEW o \in Orders, ChainMove(o) PROVE FreesOnly
    <3>1. PICK t \in SoldStatuses : status' = [status EXCEPT ![o] = t]
      BY <2>1, ChainMoveStaysSold
    <3>2. t \notin {"none", "cancelled"}
      BY DEF SoldStatuses, Statuses
    <3>3. UNCHANGED << usage, buyer >>
      BY <2>1, ChainMoveStaysSold
    <3>. QED
      BY <3>1, <3>2, <3>3 DEF CouponLimits, TypeOK
  <2>2. ASSUME NEW o \in Orders, CancelOrder(o) PROVE FreesOnly
    BY <2>2 DEF CancelOrder, CouponLimits, TypeOK
  <2>3. ASSUME NEW o \in Orders, MarkPaid(o) PROVE FreesOnly
    BY <2>3 DEF MarkPaid, CouponLimits, TypeOK
  <2>4. ASSUME NEW o \in Orders,
               RetryPayment(o) \/ CapturePayment(o) \/ LinkExpires(o) \/ ReturnWindowCloses(o)
        PROVE  FreesOnly
    BY <2>4 DEF RetryPayment, CapturePayment, LinkExpires, ReturnWindowCloses, CouponLimits
  <2>5. ASSUME NEW u \in Users,
               \/ \E v \in Variants, n \in 1..MaxQty : AddItem(u, v, n) \/ UpdateItem(u, v, n)
               \/ \E v \in Variants : RemoveItem(u, v)
               \/ ReopenCart(u) \/ ApplyCoupon(u) \/ RemoveCoupon(u)
               \/ ChatCheckoutFails(u) \/ CartGoesStale(u)
        PROVE  FreesOnly
    BY <2>5 DEF AddItem, UpdateItem, SetItem, RemoveItem, ReopenCart, ApplyCoupon, RemoveCoupon,
                ChatCheckoutFails, CartGoesStale, CouponLimits
  <2>6. ASSUME \/ \E w \in Owners : HoldLapses(w)
               \/ CleanupReservations \/ ExpireCarts \/ ToggleCoupon \/ UNCHANGED vars
               \/ \E v \in Variants, n \in StockEdits : EditStock(v, n)
        PROVE  FreesOnly
    BY <2>6 DEF HoldLapses, CleanupReservations, ExpireCarts, ToggleCoupon, EditStock, vars,
                CouponLimits
  <2>7. FreesOnly => CouponLimits'
    BY OtherStepsRedeemNothing
  <2>. QED
    BY <2>1, <2>2, <2>3, <2>4, <2>5, <2>6, <2>7, CheckoutRedeemsWithinLimits
       DEF Next, ShopperStep, OrderStep, ChainMove
<1>. QED
  BY <1>1, <1>2, TypeCorrect, PTL DEF Spec

-----------------------------------------------------------------------------
(* Fulfilment implements Inventory.                                        *)

\* From outside, the stock figure changes only by indivisible sales that the
\* shelf could cover and by undoing them: holds, expiries, retries, cleanups
\* and failed checkouts are all invisible.
THEOREM ImplementsShelf == ASSUME Undisturbed PROVE Spec => ImplementsInventory
<1>. DEFINE soldLines == [o \in Orders |-> IF o \in Sold THEN lines[o] ELSE NoLines]
<1>1. Init => Shelf!Init
  <2>1. Init => Sold = {}
    BY DEF Init, Sold, SoldStatuses, Statuses
  <2>. QED
    BY <2>1 DEF Init, Shelf!Init, Shelf!Nothing, NoLines
<1>2. StockInv /\ StockInv' /\ [Next]_vars => [Shelf!Next]_<< stock, soldLines >>
  <2>. SUFFICES ASSUME StockInv, StockInv', [Next]_vars
                PROVE  [Shelf!Next]_<< stock, soldLines >>
    OBVIOUS
  <2>. TypeOK /\ TypeOK' /\ NoLines = Shelf!Nothing
    BY DEF StockInv, HoldInv, NoLines, Shelf!Nothing
  <2>1. CASE ShelfKept
    BY <2>1 DEF ShelfKept
  <2>2. ASSUME NEW o \in Orders, MarkPaid(o) PROVE Shelf!Sell(o, lines[o])
    <3>1. o \notin Sold /\ Sold' = Sold \cup {o} /\ lines' = lines
      BY <2>2, SaleChangesSold
    <3>2. /\ \A v \in Variants : /\ lines[o][v] <= stock[v]
                                /\ stock'[v] = stock[v] - lines[o][v]
          /\ stock' \in [Variants -> Nat]
      BY <2>2, MarkPaidSells DEF TypeOK
    <3>3. stock' = [v \in Variants |-> stock[v] - lines[o][v]]
      BY <3>2
    <3>4. soldLines' = [soldLines EXCEPT ![o] = lines[o]]
      BY <3>1
    <3>5. soldLines[o] = Shelf!Nothing
      BY <3>1
    <3>. QED
      BY <3>2, <3>3, <3>4, <3>5 DEF Shelf!Sell
  <2>3. ASSUME NEW o \in Orders, CancelOrder(o), status[o] \in WasPaid PROVE Shelf!Undo(o)
    <3>1. /\ o \in Sold /\ Sold' = Sold \ {o} /\ lines' = lines
          /\ \A v \in Variants : stock'[v] = stock[v] + lines[o][v]
          /\ stock' \in [Variants -> Nat]
      BY <2>3, UndoChangesSold DEF TypeOK
    <3>2. soldLines' = [soldLines EXCEPT ![o] = Shelf!Nothing]
      BY <3>1
    <3>3. stock' = [v \in Variants |-> stock[v] + soldLines[o][v]]
      BY <3>1
    <3>. QED
      BY <3>2, <3>3 DEF Shelf!Undo
  <2>4. CASE \E o \in Orders : MarkPaid(o)
    <3>1. PICK o \in Orders : Shelf!Sell(o, lines[o])
      BY <2>2, <2>4
    <3>2. lines[o] \in [Variants -> 0..MaxQty]
      BY DEF TypeOK, Lines
    <3>3. \E order \in [Variants -> 0..MaxQty] : Shelf!Sell(o, order)
      BY <3>1, <3>2 DEF Shelf!Sell
    <3>. QED
      BY <3>3 DEF Shelf!Next
  <2>5. CASE \E o \in Orders : CancelOrder(o) /\ status[o] \in WasPaid
    <3>1. PICK o \in Orders : Shelf!Undo(o)
      BY <2>3, <2>5
    <3>2. Shelf!Next
      BY <3>1, Zenon DEF Shelf!Next
    <3>. QED
      BY <3>2
  <2>. QED
    BY <2>1, <2>4, <2>5, OtherStepsKeepShelf
<1>. QED
  BY <1>1, <1>2, StockInvariant, PTL DEF Spec, ImplementsInventory, Shelf!Spec
=============================================================================
