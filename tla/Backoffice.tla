------------------------------ MODULE Backoffice ------------------------------
(***************************************************************************)
(* The components that share no state with each other or with the orders:  *)
(* a behaviour is one of a single component, chosen at the start, and the  *)
(* others rest in their initial states.  Interleaving them would multiply  *)
(* states and show nothing.                                                *)
(***************************************************************************)
EXTENDS Refunds, Sessions, Accounts, AddressBook, Breaker, Memory, Nudges, OrderMail,
        Pricing, Shipping, Storefront, CatalogSync, Notices, Assistant

VARIABLE focus      \* the component of this behaviour

-----------------------------------------------------------------------------

Init ==
    /\ focus \in {"refunds", "sessions", "accounts", "addresses",
                     "breaker", "memory", "nudges", "mail", "pricing",
                     "shipping", "storefront", "sync", "notices", "assistant"}
    /\ RefundsInit
    /\ SessionsInit
    /\ AccountsInit
    /\ AddressesInit
    /\ BreakerInit
    /\ MemoryInit
    /\ NudgesInit
    /\ OrderMailInit
    /\ PricingInit
    /\ ShippingInit
    /\ StorefrontInit
    /\ CatalogSyncInit
    /\ focus # "sync" => product = [p \in Products |-> CHOOSE row \in NewRow : TRUE]
    /\ NoticesInit
    /\ AssistantInit

Next ==
    /\ UNCHANGED focus
    /\ \/ /\ focus = "refunds" /\ RefundsNext
          /\ UNCHANGED << sessionVars, accountVars, addressVars, breakerVars,
                          memoryVars, nudgeVars, mailVars, pricingVars,
                          shippingVars, shopVars, syncVars, noticeVars,
                          assistantVars >>
       \/ /\ focus = "sessions" /\ SessionsNext
          /\ UNCHANGED << refundVars, accountVars, addressVars, breakerVars,
                          memoryVars, nudgeVars, mailVars, pricingVars,
                          shippingVars, shopVars, syncVars, noticeVars,
                          assistantVars >>
       \/ /\ focus = "accounts" /\ AccountsNext
          /\ UNCHANGED << refundVars, sessionVars, addressVars, breakerVars,
                          memoryVars, nudgeVars, mailVars, pricingVars,
                          shippingVars, shopVars, syncVars, noticeVars,
                          assistantVars >>
       \/ /\ focus = "addresses" /\ AddressesNext
          /\ UNCHANGED << refundVars, sessionVars, accountVars, breakerVars,
                          memoryVars, nudgeVars, mailVars, pricingVars,
                          shippingVars, shopVars, syncVars, noticeVars,
                          assistantVars >>
       \/ /\ focus = "breaker" /\ BreakerNext
          /\ UNCHANGED << refundVars, sessionVars, accountVars, addressVars,
                          memoryVars, nudgeVars, mailVars, pricingVars,
                          shippingVars, shopVars, syncVars, noticeVars,
                          assistantVars >>
       \/ /\ focus = "memory" /\ MemoryNext
          /\ UNCHANGED << refundVars, sessionVars, accountVars, addressVars,
                          breakerVars, nudgeVars, mailVars, pricingVars,
                          shippingVars, shopVars, syncVars, noticeVars,
                          assistantVars >>
       \/ /\ focus = "nudges" /\ NudgesNext
          /\ UNCHANGED << refundVars, sessionVars, accountVars, addressVars,
                          breakerVars, memoryVars, mailVars, pricingVars,
                          shippingVars, shopVars, syncVars, noticeVars,
                          assistantVars >>
       \/ /\ focus = "mail" /\ OrderMailNext
          /\ UNCHANGED << refundVars, sessionVars, accountVars, addressVars,
                          breakerVars, memoryVars, nudgeVars, pricingVars,
                          shippingVars, shopVars, syncVars, noticeVars,
                          assistantVars >>
       \/ /\ focus = "pricing" /\ PricingNext
          /\ UNCHANGED << refundVars, sessionVars, accountVars, addressVars,
                          breakerVars, memoryVars, nudgeVars, mailVars,
                          shippingVars, shopVars, syncVars, noticeVars,
                          assistantVars >>
       \/ /\ focus = "shipping" /\ ShippingNext
          /\ UNCHANGED << refundVars, sessionVars, accountVars, addressVars,
                          breakerVars, memoryVars, nudgeVars, mailVars,
                          pricingVars, shopVars, syncVars, noticeVars,
                          assistantVars >>
       \/ /\ focus = "storefront" /\ StorefrontNext
          /\ UNCHANGED << refundVars, sessionVars, accountVars, addressVars,
                          breakerVars, memoryVars, nudgeVars, mailVars,
                          pricingVars, shippingVars, syncVars, noticeVars,
                          assistantVars >>
       \/ /\ focus = "sync" /\ CatalogSyncNext
          /\ UNCHANGED << refundVars, sessionVars, accountVars, addressVars,
                          breakerVars, memoryVars, nudgeVars, mailVars,
                          pricingVars, shippingVars, shopVars, noticeVars,
                          assistantVars >>
       \/ /\ focus = "notices" /\ NoticesNext
          /\ UNCHANGED << refundVars, sessionVars, accountVars, addressVars,
                          breakerVars, memoryVars, nudgeVars, mailVars,
                          pricingVars, shippingVars, shopVars, syncVars,
                          assistantVars >>
       \/ /\ focus = "assistant" /\ AssistantNext
          /\ UNCHANGED << refundVars, sessionVars, accountVars, addressVars, breakerVars,
                          memoryVars, nudgeVars, mailVars, pricingVars,
                          shippingVars, shopVars, syncVars, noticeVars >>

vars == << focus, refundVars, sessionVars, accountVars, addressVars, breakerVars,
            memoryVars, nudgeVars, mailVars, pricingVars, shippingVars,
            shopVars, syncVars, noticeVars, assistantVars >>
Spec == Init /\ [][Next]_vars

TypesOK ==
    /\ RefundsTypeOK
    /\ SessionsTypeOK
    /\ AccountsTypeOK
    /\ AddressesTypeOK
    /\ BreakerTypeOK
    /\ MemoryTypeOK
    /\ NudgesTypeOK
    /\ OrderMailTypeOK
    /\ PricingTypeOK
    /\ ShippingTypeOK
    /\ StorefrontTypeOK
    /\ CatalogSyncTypeOK
    /\ NoticesTypeOK
    /\ AssistantTypeOK
=============================================================================
