---------------------------- MODULE OrderStatus ----------------------------
(***************************************************************************)
(* The order status chain of app/models/enums.py and the two predicates    *)
(* app/services/order.py computes from it.  The tables are constants of    *)
(* the program, so this module has no state; the modules that carry an     *)
(* order's status extend it.                                               *)
(***************************************************************************)

\* OrderStatus.
Statuses ==
    { "pending_payment", "paid", "pending_confirmation", "confirmed",
      "processing", "shipped", "out_for_delivery", "delivered", "cancelled",
      "return_requested", "return_approved", "returned", "refunded" }

\* ORDER_TRANSITIONS: the targets `transition` accepts from each status.
OrderTransitions ==
    [ s \in Statuses |->
        CASE s = "pending_payment"      -> {"paid", "cancelled"}
          [] s = "paid"                 -> {"pending_confirmation", "cancelled", "refunded"}
          [] s = "pending_confirmation" -> {"confirmed", "cancelled"}
          [] s = "confirmed"            -> {"processing", "cancelled"}
          [] s = "processing"           -> {"shipped", "cancelled"}
          [] s = "shipped"              -> {"out_for_delivery", "delivered"}
          [] s = "out_for_delivery"     -> {"delivered"}
          [] s = "delivered"            -> {"return_requested"}
          [] s = "return_requested"     -> {"return_approved", "delivered"}
          [] s = "return_approved"      -> {"returned"}
          [] s = "returned"             -> {"refunded"}
          [] s = "cancelled"            -> {"refunded"}
          [] s = "refunded"             -> {} ]

\* Statuses an agent may set directly via the admin update-status endpoint.
AgentSettable ==
    { "processing", "shipped", "out_for_delivery", "delivered",
      "return_approved", "returned" }

\* Mutant of NonCancellable: a shipped order can still be cancelled.
NonCancellableButShipped ==
    { "out_for_delivery", "delivered", "cancelled",
      "return_requested", "return_approved", "returned", "refunded" }

\* Once an order reaches any of these, cancel_order refuses.
NonCancellable ==
    { "shipped", "out_for_delivery", "delivered", "cancelled",
      "return_requested", "return_approved", "returned", "refunded" }

\* Mutant of WasPaid: processing is left out.
WasPaidButProcessing == { "paid", "pending_confirmation", "confirmed" }

\* The statuses cancel_order takes to mean that stock was decremented.
WasPaid == { "paid", "pending_confirmation", "confirmed", "processing" }

CanTransition(current, target) == target \in OrderTransitions[current]
=============================================================================
