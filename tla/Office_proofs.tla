----------------------------- MODULE Office_proofs -----------------------------
(***************************************************************************)
(* Proofs about Refunds, Pricing, Nudges, OrderMail and Notices, for any   *)
(* number of refunds, lines of a cart, jobs, letters and alerts.           *)
(***************************************************************************)
EXTENDS Refunds, Pricing, Nudges, OrderMail, Notices, Induction

-----------------------------------------------------------------------------
(* Refunds: amounts.                                                       *)

LEMMA CoinsFinite ==
    ASSUME NEW S \in SUBSET RefundKeys, NEW amount
    PROVE  IsFiniteSet(Coins(S, amount)) /\ AmountOf(S, amount) \in Nat
<1>1. IsFiniteSet(S) /\ IsFiniteSet(1 .. Captured)
  BY FS_Subset, FS_Interval, RefundsAssumption
<1>2. IsFiniteSet(S \X (1 .. Captured))
  BY <1>1, FS_Product
<1>3. IsFiniteSet(Coins(S, amount))
  BY <1>2, FS_Subset DEF Coins
<1>. QED
  BY <1>3, FS_CardinalityType DEF AmountOf

\* Fewer refunds of the same amounts come to no more money.
LEMMA FewerAreLess ==
    ASSUME NEW S \in SUBSET RefundKeys, NEW T \in SUBSET RefundKeys, S \subseteq T,
           NEW p, NEW q, \A k \in S : p[k] = q[k]
    PROVE  AmountOf(S, p) <= AmountOf(T, q)
<1>1. Coins(S, p) \subseteq Coins(T, q)
  BY DEF Coins
<1>. QED
  BY <1>1, CoinsFinite, FS_Subset DEF AmountOf

\* One more refund adds its amount.
LEMMA OneMoreAdds ==
    ASSUME NEW S \in SUBSET RefundKeys, NEW k \in RefundKeys \ S, NEW p, p[k] \in 0 .. Captured
    PROVE  AmountOf(S \cup {k}, p) = AmountOf(S, p) + p[k]
<1>1. Coins({k}, p) = {k} \X (1 .. p[k])
  BY RefundsAssumption DEF Coins
<1>2. Cardinality(Coins({k}, p)) = p[k]
  <2>1. IsFiniteSet({k}) /\ Cardinality({k}) = 1
    BY FS_Singleton
  <2>2. 1 \in Int /\ p[k] \in Int /\ 0 <= p[k]
    BY RefundsAssumption
  <2>3. IsFiniteSet(1 .. p[k]) /\ Cardinality(1 .. p[k]) = IF 1 > p[k] THEN 0 ELSE p[k] - 1 + 1
    BY <2>2, FS_Interval, Zenon
  <2>4. Cardinality(1 .. p[k]) = p[k]
    BY <2>2, <2>3
  <2>5. Cardinality({k} \X (1 .. p[k])) = Cardinality({k}) * Cardinality(1 .. p[k])
    BY <2>1, <2>3, FS_Product, Zenon
  <2>6. Cardinality(Coins({k}, p)) = 1 * p[k]
    BY <1>1, <2>1, <2>4, <2>5, Zenon
  <2>. QED
    BY <2>2, <2>6
<1>3. /\ Coins(S \cup {k}, p) = Coins(S, p) \cup Coins({k}, p)
      /\ Coins(S, p) \cap Coins({k}, p) = {}
  BY DEF Coins
<1>4. /\ IsFiniteSet(Coins(S, p)) /\ IsFiniteSet(Coins({k}, p))
      /\ Cardinality(Coins(S, p)) \in Nat
  BY CoinsFinite DEF AmountOf
<1>5. Cardinality(Coins(S, p) \cup Coins({k}, p)) =
         Cardinality(Coins(S, p)) + Cardinality(Coins({k}, p))
           - Cardinality(Coins(S, p) \cap Coins({k}, p))
  BY <1>4, FS_Union, Zenon
<1>6. Cardinality(Coins(S, p) \cap Coins({k}, p)) = 0
  BY <1>3, FS_EmptySet
<1>7. AmountOf(S \cup {k}, p) = Cardinality(Coins(S, p)) + p[k] - 0
  BY <1>2, <1>3, <1>5, <1>6, Zenon DEF AmountOf
<1>8. AmountOf(S, p) = Cardinality(Coins(S, p)) /\ p[k] \in Int
  BY RefundsAssumption DEF AmountOf
<1>. QED
  BY <1>4, <1>7, <1>8

-----------------------------------------------------------------------------
(* The books agree with the gateway.                                       *)

\* The strengthening: how far a request, its row and the gateway can be apart.
\* A request that has not been answered has no trace; one that was has its
\* answer; one that ended without a row and without losing track was refused;
\* and what the gateway has announced is final.
KeyOK(k) ==
    /\ request[k].pc \in {"idle", "asking"} => gateway[k] = "none" /\ k \notin localOnly
    /\ k \in localOnly => gateway[k] = "none"
    /\ request[k].pc = "answered" /\ request[k].status # "pending" =>
         gateway[k] = request[k].status \/ k \in localOnly
    /\ request[k].pc = "done" /\ refund[k].status = "none" /\ k \notin cutOff =>
         gateway[k] = "none"
    /\ refund[k].status # "none" =>
         request[k].pc = "done" /\ refund[k].amount = request[k].amount
    /\ k \in announced => gateway[k] \in {"success", "failed"}
    /\ refund[k].status \in {"success", "failed"} =>
         gateway[k] = refund[k].status \/ k \in localOnly

RecordInv == RefundsTypeOK /\ \A k \in RefundKeys : KeyOK(k)

\* A step about one key disturbs the others' rows, requests and refunds not at all.
LEMMA OneKeyStep ==
    ASSUME RecordInv, NEW k \in RefundKeys,
           refund' = [refund EXCEPT ![k] = refund'[k]], refund'[k] \in RowOf,
           request' = [request EXCEPT ![k] = request'[k]], request'[k] \in RequestOf,
           gateway' = [gateway EXCEPT ![k] = gateway'[k]],
           gateway'[k] \in RefundStatus \cup {"none"},
           announced' \subseteq RefundKeys, announced' \subseteq announced \cup {k},
           cutOff' \subseteq RefundKeys, cutOff \subseteq cutOff', overlapped' \subseteq RefundKeys,
           localOnly' \in {localOnly, localOnly \cup {k}},
           KeyOK(k)'
    PROVE  RecordInv'
<1>0. /\ refund \in [RefundKeys -> RowOf] /\ request \in [RefundKeys -> RequestOf]
      /\ gateway \in [RefundKeys -> RefundStatus \cup {"none"}]
      /\ localOnly \subseteq RefundKeys /\ \A j \in RefundKeys : KeyOK(j)
  BY DEF RecordInv, RefundsTypeOK
<1>1. \A j \in RefundKeys \ {k} :
        (j \in localOnly' <=> j \in localOnly) /\ refund'[j] = refund[j] /\ request'[j] = request[j] /\ gateway'[j] = gateway[j]
  BY <1>0
<1>2. \A j \in RefundKeys \ {k} : KeyOK(j)'
  BY <1>0, <1>1 DEF KeyOK
<1>3. /\ refund' \in [RefundKeys -> RowOf] /\ request' \in [RefundKeys -> RequestOf]
      /\ gateway' \in [RefundKeys -> RefundStatus \cup {"none"}]
  BY <1>0
<1>4. \A j \in RefundKeys : KeyOK(j)'
  BY <1>2
<1>. QED
  BY <1>3, <1>4 DEF RecordInv, RefundsTypeOK

LEMMA RecordStep == RecordInv /\ [RefundsNext]_refundVars => RecordInv'
<1>. SUFFICES ASSUME RecordInv, [RefundsNext]_refundVars PROVE RecordInv'
  OBVIOUS
<1>0. /\ refund \in [RefundKeys -> RowOf] /\ request \in [RefundKeys -> RequestOf]
      /\ gateway \in [RefundKeys -> RefundStatus \cup {"none"}]
      /\ announced \subseteq RefundKeys /\ cutOff \subseteq RefundKeys /\ overlapped \subseteq RefundKeys
      /\ localOnly \subseteq RefundKeys /\ InFlight \subseteq RefundKeys /\ \A k \in RefundKeys : KeyOK(k)
  BY DEF RecordInv, RefundsTypeOK, InFlight
<1>a. \A k \in RefundKeys :
        /\ refund[k].status \in RefundStatus \cup {"none"} /\ refund[k].amount \in 0 .. Captured
        /\ request[k].pc \in {"idle", "asking", "answered", "done"}
        /\ request[k].amount \in 0 .. Captured /\ request[k].status \in RefundStatus
        /\ gateway[k] \in RefundStatus \cup {"none"}
        /\ refund[k] \in RowOf /\ request[k] \in RequestOf
  BY <1>0 DEF RowOf, RequestOf
<1>1. ASSUME NEW k \in RefundKeys, AskRefund(k) \/ MarkLocally(k) PROVE RecordInv'
  <2>1. PICK pc, status : /\ << pc, status >> \in {<< "asking", "pending" >>, << "answered", "success" >>}
                          /\ Begin(k, pc, status)
                          /\ localOnly' = IF pc = "asking" THEN localOnly ELSE localOnly \cup {k}
    BY <1>1 DEF AskRefund, MarkLocally
  <2>10. PICK x \in 1 .. Captured - RefundedTotal :
           request' = [request EXCEPT ![k] = [pc |-> pc, amount |-> x, status |-> status]]
    BY <2>1 DEF Begin
  <2>2. x \in 0 .. Captured
    <3>1. RefundedTotal \in Nat
      BY CoinsFinite DEF RefundedTotal, Standing
    <3>. QED
      BY <3>1, RefundsAssumption
  <2>. DEFINE req == [pc |-> pc, amount |-> x, status |-> status]
  <2>3. req \in RequestOf /\ req.pc = pc /\ req.status = status
    BY <2>1, <2>2 DEF RequestOf, RefundStatus
  <2>. HIDE DEF req
  <2>4. /\ request[k].pc = "idle" /\ request' = [request EXCEPT ![k] = req]
        /\ overlapped' \subseteq RefundKeys
        /\ UNCHANGED << refund, gateway, announced, cutOff >>
    BY <1>0, <2>1, <2>10 DEF Begin, req
  <2>5. KeyOK(k)'
    BY <1>0, <1>a, <2>1, <2>3, <2>4 DEF KeyOK
  <2>6. /\ refund' = [refund EXCEPT ![k] = refund'[k]] /\ refund'[k] \in RowOf
        /\ request' = [request EXCEPT ![k] = request'[k]] /\ request'[k] \in RequestOf
        /\ gateway' = [gateway EXCEPT ![k] = gateway'[k]]
        /\ gateway'[k] \in RefundStatus \cup {"none"}
    BY <1>0, <1>a, <2>3, <2>4
  <2>. QED
    BY <1>0, <2>1, <2>3, <2>4, <2>5, <2>6, OneKeyStep
<1>2. ASSUME NEW k \in RefundKeys, GatewayAnswers(k) PROVE RecordInv'
  <2>1. PICK answer \in RefundStatus :
          /\ gateway' = [gateway EXCEPT ![k] = answer]
          /\ request' = [request EXCEPT ![k].pc = "answered", ![k].status = RecordedAs(answer)]
    BY <1>2 DEF GatewayAnswers
  <2>. DEFINE req == [request[k] EXCEPT !.pc = "answered", !.status = RecordedAs(answer)]
  <2>2. /\ req \in RequestOf /\ req.pc = "answered" /\ req.amount = request[k].amount
        /\ req.status # "pending" => req.status = answer
    BY <1>a DEF RequestOf, RefundStatus, RecordedAs
  <2>3. request' = [request EXCEPT ![k] = req]
    BY <1>0, <2>1
  <2>. HIDE DEF req
  <2>4. request[k].pc = "asking" /\ UNCHANGED << refund, announced, cutOff, overlapped, localOnly >>
    BY <1>2 DEF GatewayAnswers
  <2>5. request'[k] = req /\ gateway'[k] = answer /\ gateway[k] = "none"
    BY <1>0, <2>1, <2>3, <2>4 DEF KeyOK
  <2>6. KeyOK(k)'
    BY <1>0, <1>a, <2>2, <2>4, <2>5 DEF KeyOK
  <2>7. /\ refund' = [refund EXCEPT ![k] = refund'[k]] /\ refund'[k] \in RowOf
        /\ request' = [request EXCEPT ![k] = request'[k]] /\ request'[k] \in RequestOf
        /\ gateway' = [gateway EXCEPT ![k] = gateway'[k]]
        /\ gateway'[k] \in RefundStatus \cup {"none"}
    BY <1>0, <1>a, <2>1, <2>2, <2>3, <2>4
  <2>. QED
    BY <1>0, <2>1, <2>2, <2>3, <2>4, <2>6, <2>7, OneKeyStep
<1>3. ASSUME NEW k \in RefundKeys, GatewayRefuses(k) PROVE RecordInv'
  <2>. DEFINE req == [request[k] EXCEPT !.pc = "done"]
  <2>1. req \in RequestOf /\ req.pc = "done" /\ req.amount = request[k].amount
    BY <1>a DEF RequestOf
  <2>2. /\ request[k].pc = "asking" /\ request' = [request EXCEPT ![k] = req]
        /\ UNCHANGED << refund, gateway, announced, cutOff, overlapped, localOnly >>
    BY <1>0, <1>3 DEF GatewayRefuses
  <2>. HIDE DEF req
  <2>3. KeyOK(k)'
    BY <1>0, <1>a, <2>1, <2>2 DEF KeyOK
  <2>4. /\ refund' = [refund EXCEPT ![k] = refund'[k]] /\ refund'[k] \in RowOf
        /\ request' = [request EXCEPT ![k] = request'[k]] /\ request'[k] \in RequestOf
        /\ gateway' = [gateway EXCEPT ![k] = gateway'[k]]
        /\ gateway'[k] \in RefundStatus \cup {"none"}
    BY <1>0, <1>a, <2>1, <2>2
  <2>. QED
    BY <1>0, <2>1, <2>2, <2>3, <2>4, OneKeyStep
<1>4. ASSUME NEW k \in RefundKeys, LoseAnswer(k) PROVE RecordInv'
  <2>. DEFINE req == [request[k] EXCEPT !.pc = "done"]
              done == IF request[k].pc = "asking" THEN "pending" ELSE gateway[k]
  <2>1. /\ req \in RequestOf /\ req.pc = "done" /\ req.amount = request[k].amount
        /\ done \in RefundStatus \cup {"none"}
    BY <1>a DEF RequestOf, RefundStatus
  <2>2. /\ request[k].pc \in {"asking", "answered"} /\ request' = [request EXCEPT ![k] = req]
        /\ gateway' = [gateway EXCEPT ![k] = done] /\ cutOff' = cutOff \cup {k}
        /\ UNCHANGED << refund, announced, overlapped, localOnly >>
    BY <1>0, <1>4 DEF LoseAnswer
  <2>3. request[k].pc = "asking" => k \notin announced
    BY <1>0 DEF KeyOK
  <2>4. refund[k].status = "none"
    BY <1>0, <1>a, <2>2 DEF KeyOK
  <2>. HIDE DEF req
  <2>5. KeyOK(k)'
    BY <1>0, <1>a, <2>1, <2>2, <2>3, <2>4 DEF KeyOK
  <2>6. /\ refund' = [refund EXCEPT ![k] = refund'[k]] /\ refund'[k] \in RowOf
        /\ request' = [request EXCEPT ![k] = request'[k]] /\ request'[k] \in RequestOf
        /\ gateway' = [gateway EXCEPT ![k] = gateway'[k]]
        /\ gateway'[k] \in RefundStatus \cup {"none"}
    BY <1>0, <1>a, <2>1, <2>2
  <2>. QED
    BY <1>0, <2>1, <2>2, <2>5, <2>6, OneKeyStep
<1>5. ASSUME NEW k \in RefundKeys, CommitRefund(k) PROVE RecordInv'
  <2>. DEFINE req == [request[k] EXCEPT !.pc = "done"]
              row == [status |-> request[k].status, amount |-> request[k].amount]
  <2>1. /\ req \in RequestOf /\ req.pc = "done" /\ req.amount = request[k].amount
        /\ row \in RowOf /\ row.status = request[k].status /\ row.amount = request[k].amount
    BY <1>a DEF RequestOf, RowOf
  <2>2. /\ request[k].pc = "answered" /\ request' = [request EXCEPT ![k] = req]
        /\ refund' = [refund EXCEPT ![k] = row]
        /\ UNCHANGED << gateway, announced, cutOff, overlapped, localOnly >>
    BY <1>0, <1>5 DEF CommitRefund
  <2>. HIDE DEF req, row
  <2>3. KeyOK(k)'
    BY <1>0, <1>a, <2>1, <2>2 DEF KeyOK, RefundStatus
  <2>4. /\ refund' = [refund EXCEPT ![k] = refund'[k]] /\ refund'[k] \in RowOf
        /\ request' = [request EXCEPT ![k] = request'[k]] /\ request'[k] \in RequestOf
        /\ gateway' = [gateway EXCEPT ![k] = gateway'[k]]
        /\ gateway'[k] \in RefundStatus \cup {"none"}
    BY <1>0, <1>a, <2>1, <2>2
  <2>. QED
    BY <1>0, <2>1, <2>2, <2>3, <2>4, OneKeyStep
<1>6. ASSUME NEW k \in RefundKeys, GatewaySettles(k) PROVE RecordInv'
  <2>1. PICK s \in {"success", "failed"} :
          gateway[k] \in {s, "pending"} /\ gateway' = [gateway EXCEPT ![k] = s]
    BY <1>6 DEF GatewaySettles
  <2>2. k \notin announced /\ announced' = announced \cup {k} /\ UNCHANGED << refund, request, cutOff, overlapped, localOnly >>
    BY <1>6 DEF GatewaySettles
  <2>3. gateway'[k] = s /\ s \in RefundStatus
    BY <1>0, <2>1 DEF RefundStatus
  <2>4. KeyOK(k)'
    BY <1>0, <1>a, <2>1, <2>2, <2>3 DEF KeyOK, RefundStatus
  <2>5. /\ refund' = [refund EXCEPT ![k] = refund'[k]] /\ refund'[k] \in RowOf
        /\ request' = [request EXCEPT ![k] = request'[k]] /\ request'[k] \in RequestOf
        /\ gateway' = [gateway EXCEPT ![k] = gateway'[k]]
        /\ gateway'[k] \in RefundStatus \cup {"none"}
    BY <1>0, <1>a, <2>1, <2>2, <2>3
  <2>. QED
    BY <1>0, <2>1, <2>2, <2>3, <2>4, <2>5, OneKeyStep
<1>7. ASSUME NEW k \in RefundKeys, SettleRefund(k) PROVE RecordInv'
  <2>. DEFINE row == [refund[k] EXCEPT !.status = gateway[k]]
  <2>1. row \in RowOf /\ row.status = gateway[k] /\ row.amount = refund[k].amount
    BY <1>a DEF RowOf
  <2>2. /\ k \in announced /\ refund[k].status # "none" /\ refund' = [refund EXCEPT ![k] = row]
        /\ UNCHANGED << request, gateway, announced, cutOff, overlapped, localOnly >>
    BY <1>0, <1>7 DEF SettleRefund
  <2>. HIDE DEF row
  <2>3. KeyOK(k)'
    BY <1>0, <1>a, <2>1, <2>2 DEF KeyOK
  <2>4. /\ refund' = [refund EXCEPT ![k] = refund'[k]] /\ refund'[k] \in RowOf
        /\ request' = [request EXCEPT ![k] = request'[k]] /\ request'[k] \in RequestOf
        /\ gateway' = [gateway EXCEPT ![k] = gateway'[k]]
        /\ gateway'[k] \in RefundStatus \cup {"none"}
    BY <1>0, <1>a, <2>1, <2>2
  <2>. QED
    BY <1>0, <2>1, <2>2, <2>3, <2>4, OneKeyStep
<1>8. CASE UNCHANGED refundVars
  BY <1>0, <1>8 DEF refundVars, RecordInv, RefundsTypeOK, KeyOK
<1>. QED
  BY <1>1, <1>2, <1>3, <1>4, <1>5, <1>6, <1>7, <1>8 DEF RefundsNext

LEMMA RecordInit == RefundsInit => RecordInv
  BY RefundsAssumption DEF RefundsInit, RecordInv, RefundsTypeOK, KeyOK, RowOf, RequestOf, RefundStatus

LEMMA RecordsTrue == RecordInv => MoneyOutIsRecorded
<1>. SUFFICES ASSUME RecordInv PROVE MoneyOutIsRecorded
  OBVIOUS
<1>1. \A k \in RefundKeys : request[k].pc \in {"idle", "asking", "answered", "done"}
  BY DEF RecordInv, RefundsTypeOK, RequestOf
<1>. QED
  BY <1>1 DEF RecordInv, KeyOK, MoneyOutIsRecorded, InFlight

\* Whatever the gateway does and whenever its answers and events come, money
\* that leaves has a row or a request about to write one, and no row tells a
\* story that is not the gateway's.
THEOREM BooksAgree == RefundsSpec => [](RefundsTypeOK /\ MoneyOutIsRecorded)
<1>1. RecordInv => RefundsTypeOK /\ MoneyOutIsRecorded
  BY RecordsTrue DEF RecordInv
<1>. QED
  BY <1>1, RecordInit, RecordStep, PTL DEF RefundsSpec

LEMMA RefundsTyped == RefundsSpec => []RefundsTypeOK
  BY BooksAgree, PTL

-----------------------------------------------------------------------------
(* Refunds stay within the payment.                                        *)

Asked == [k \in RefundKeys |-> request[k].amount]
Claims == Standing \cup InFlight

\* The strengthening: as long as requests run one at a time and keep track of
\* the gateway, the refunds that stand and the one in flight fit the payment.
ClaimsFit ==
    overlapped = {} /\ cutOff = {} => AmountOf(Claims, Asked) <= Captured

MoneyInv == RecordInv /\ ClaimsFit

\* A step that adds no claim and changes no amount keeps the claims fitting.
LEMMA NoNewClaim ==
    ASSUME MoneyInv, RecordInv', overlapped \subseteq overlapped', cutOff \subseteq cutOff',
           Claims' \subseteq Claims, \A k \in Claims' : request'[k].amount = request[k].amount
    PROVE  MoneyInv'
<1>1. Claims \in SUBSET RefundKeys /\ Claims' \in SUBSET RefundKeys
  BY DEF Claims, Standing, InFlight
<1>2. \A k \in Claims' : Asked'[k] = Asked[k]
  BY <1>1 DEF Asked
<1>3. AmountOf(Claims', Asked') <= AmountOf(Claims, Asked)
  BY <1>1, <1>2, FewerAreLess
<1>4. AmountOf(Claims', Asked') \in Nat /\ AmountOf(Claims, Asked) \in Nat
  BY <1>1, CoinsFinite
<1>5. AmountOf(Claims, Asked)' = AmountOf(Claims', Asked')
  BY DEF AmountOf, Coins
<1>6. overlapped' = {} /\ cutOff' = {} => overlapped = {} /\ cutOff = {}
  OBVIOUS
<1>. QED
  BY <1>3, <1>4, <1>5, <1>6, RefundsAssumption DEF MoneyInv, ClaimsFit

LEMMA MoneyStep == MoneyInv /\ [RefundsNext]_refundVars => MoneyInv'
<1>. SUFFICES ASSUME MoneyInv, [RefundsNext]_refundVars PROVE MoneyInv'
  OBVIOUS
<1>0. /\ RecordInv' /\ RecordInv
      /\ refund \in [RefundKeys -> RowOf] /\ request \in [RefundKeys -> RequestOf]
      /\ \A k \in RefundKeys : KeyOK(k)
  BY RecordStep DEF MoneyInv, RecordInv, RefundsTypeOK
<1>1. ASSUME NEW k \in RefundKeys, AskRefund(k) \/ MarkLocally(k) PROVE MoneyInv'
  <2>0. PICK pc \in {"asking", "answered"}, status \in RefundStatus : Begin(k, pc, status)
    BY <1>1 DEF AskRefund, MarkLocally, RefundStatus
  <2>1. PICK x \in 1 .. Captured - RefundedTotal :
           request' = [request EXCEPT ![k] = [pc |-> pc, amount |-> x, status |-> status]]
    BY <2>0 DEF Begin
  <2>2. /\ overlapped' = {} => overlapped = {} /\ InFlight = {}
        /\ UNCHANGED << refund, cutOff >> /\ request[k].pc = "idle"
    BY <2>0 DEF Begin
  <2>3. SUFFICES ASSUME overlapped' = {}, cutOff' = {}
                 PROVE  AmountOf(Claims', Asked') <= Captured
    <3>1. AmountOf(Claims, Asked)' = AmountOf(Claims', Asked')
      BY DEF AmountOf, Coins
    <3>. QED
      BY <1>0, <2>3, <3>1 DEF MoneyInv, ClaimsFit
  <2>4. Standing \in SUBSET RefundKeys /\ k \in RefundKeys \ Standing
    BY <1>0, <2>2 DEF Standing, KeyOK
  <2>5. Claims' = Standing \cup {k}
    <3>1. Standing' = Standing
      BY <2>2 DEF Standing
    <3>2. InFlight' = {k}
      BY <1>0, <2>1, <2>2, <2>3 DEF InFlight
    <3>. QED
      BY <3>1, <3>2 DEF Claims
  <2>6. Asked'[k] = x /\ \A j \in Standing : Asked'[j] = [i \in RefundKeys |-> refund[i].amount][j]
    BY <1>0, <2>1, <2>4 DEF Asked, Standing, KeyOK
  <2>7. AmountOf(Standing, Asked') <= RefundedTotal /\ RefundedTotal \in Nat
        /\ AmountOf(Standing, Asked') \in Nat
    BY <2>4, <2>6, FewerAreLess, CoinsFinite DEF RefundedTotal
  <2>8. x \in 0 .. Captured /\ x <= Captured - RefundedTotal
    BY <2>7, RefundsAssumption
  <2>9. AmountOf(Standing \cup {k}, Asked') = AmountOf(Standing, Asked') + x
    BY <2>4, <2>6, <2>8, OneMoreAdds
  <2>. QED
    BY <2>5, <2>7, <2>8, <2>9, RefundsAssumption
<1>2. ASSUME NEW k \in RefundKeys, GatewayAnswers(k) PROVE MoneyInv'
  <2>1. /\ request'[k].amount = request[k].amount /\ request[k].pc = "asking"
        /\ \A j \in RefundKeys \ {k} : request'[j] = request[j]
        /\ UNCHANGED << refund, overlapped, cutOff >>
    BY <1>0, <1>2 DEF GatewayAnswers
  <2>2. Claims' \subseteq Claims /\ \A j \in Claims' : request'[j].amount = request[j].amount
    BY <2>1 DEF Claims, Standing, InFlight
  <2>. QED
    BY <1>0, <2>1, <2>2, NoNewClaim
<1>3. ASSUME NEW k \in RefundKeys, GatewayRefuses(k) \/ LoseAnswer(k) PROVE MoneyInv'
  <2>1. /\ request' = [request EXCEPT ![k].pc = "done"] /\ refund' = refund
        /\ overlapped \subseteq overlapped' /\ cutOff \subseteq cutOff'
    BY <1>3 DEF GatewayRefuses, LoseAnswer
  <2>2. /\ request'[k].amount = request[k].amount /\ request'[k].pc = "done"
        /\ \A j \in RefundKeys \ {k} : request'[j] = request[j]
    BY <1>0, <2>1
  <2>3. Claims' \subseteq Claims /\ \A j \in Claims' : request'[j].amount = request[j].amount
    BY <2>1, <2>2 DEF Claims, Standing, InFlight
  <2>. QED
    BY <1>0, <2>1, <2>3, NoNewClaim
<1>4. ASSUME NEW k \in RefundKeys, CommitRefund(k) PROVE MoneyInv'
  <2>1. /\ request'[k].amount = request[k].amount /\ request[k].pc = "answered"
        /\ request'[k].pc = "done"
        /\ \A j \in RefundKeys \ {k} : request'[j] = request[j] /\ refund'[j] = refund[j]
        /\ UNCHANGED << overlapped, cutOff >>
    BY <1>0, <1>4 DEF CommitRefund
  <2>2. Claims' \subseteq Claims /\ \A j \in Claims' : request'[j].amount = request[j].amount
    BY <2>1 DEF Claims, Standing, InFlight
  <2>. QED
    BY <1>0, <2>1, <2>2, NoNewClaim
<1>5. ASSUME NEW k \in RefundKeys, GatewaySettles(k) PROVE MoneyInv'
  <2>1. UNCHANGED << refund, request, overlapped, cutOff >>
    BY <1>5 DEF GatewaySettles
  <2>2. Claims' = Claims
    BY <2>1 DEF Claims, Standing, InFlight
  <2>. QED
    BY <1>0, <2>1, <2>2, NoNewClaim
<1>6. ASSUME NEW k \in RefundKeys, SettleRefund(k) PROVE MoneyInv'
  <2>1. /\ k \in announced /\ refund[k].status # "none" /\ refund'[k].status = gateway[k]
        /\ \A j \in RefundKeys \ {k} : refund'[j] = refund[j]
        /\ UNCHANGED << request, overlapped, cutOff >>
    BY <1>0, <1>6 DEF SettleRefund
  <2>2. refund'[k].status = "success" => refund[k].status \in {"pending", "success"}
    <3>1. refund[k].status \in RefundStatus
      BY <1>0, <2>1 DEF RowOf
    <3>. QED
      BY <1>0, <2>1, <3>1 DEF KeyOK, RefundStatus
  <2>3. refund'[k].status # "pending"
    BY <1>0, <2>1 DEF KeyOK
  <2>4. Claims' \subseteq Claims
    BY <2>1, <2>2, <2>3 DEF Claims, Standing, InFlight
  <2>. QED
    BY <1>0, <2>1, <2>4, NoNewClaim
<1>7. CASE UNCHANGED refundVars
  <2>1. UNCHANGED << refund, request, overlapped, cutOff >>
    BY <1>7 DEF refundVars
  <2>2. Claims' = Claims
    BY <2>1 DEF Claims, Standing, InFlight
  <2>. QED
    BY <1>0, <2>1, <2>2, NoNewClaim
<1>. QED
  BY <1>1, <1>2, <1>3, <1>4, <1>5, <1>6, <1>7 DEF RefundsNext

LEMMA MoneyInit == RefundsInit => MoneyInv
<1>. SUFFICES ASSUME RefundsInit PROVE MoneyInv
  OBVIOUS
<1>1. Claims = {}
  BY DEF RefundsInit, Claims, Standing, InFlight
<1>2. AmountOf({}, Asked) = 0
  BY FS_EmptySet DEF AmountOf, Coins
<1>. QED
  BY <1>1, <1>2, RecordInit, RefundsAssumption DEF MoneyInv, ClaimsFit

LEMMA ClaimsCoverPayments == MoneyInv => RefundsWithinPayment
<1>. SUFFICES ASSUME MoneyInv, overlapped = {}, cutOff = {} PROVE PaidOut <= Captured
  BY DEF RefundsWithinPayment
<1>. DEFINE paid == {k \in RefundKeys : gateway[k] \in {"pending", "success"}}
<1>1. MoneyOutIsRecorded /\ refund \in [RefundKeys -> RowOf]
  BY RecordsTrue DEF MoneyInv, RecordInv, RefundsTypeOK
<1>2. paid \subseteq Claims
  <2>. SUFFICES ASSUME NEW k \in paid, k \notin InFlight PROVE k \in Standing
    BY DEF Claims
  <2>1. refund[k].status # "none" /\ refund[k].status # "failed"
    BY <1>1 DEF MoneyOutIsRecorded
  <2>2. refund[k].status \in RefundStatus \cup {"none"}
    BY <1>1 DEF RowOf
  <2>. QED
    BY <2>1, <2>2 DEF Standing, RefundStatus
<1>3. paid \in SUBSET RefundKeys /\ Claims \in SUBSET RefundKeys
  BY DEF Claims, Standing, InFlight
<1>4. AmountOf(paid, Asked) <= AmountOf(Claims, Asked)
  BY <1>2, <1>3, FewerAreLess
<1>5. PaidOut = AmountOf(paid, Asked)
  BY DEF PaidOut, Asked
<1>6. AmountOf(Claims, Asked) <= Captured
  BY DEF MoneyInv, ClaimsFit
<1>7. AmountOf(Claims, Asked) \in Nat /\ AmountOf(paid, Asked) \in Nat
  BY <1>3, CoinsFinite
<1>. QED
  BY <1>4, <1>5, <1>6, <1>7, RefundsAssumption

\* One request at a time, none of them cut off: then what the gateway has paid
\* out or taken on never exceeds the payment, in whatever order its answers,
\* its events and the commits fall.
THEOREM NeverOverRefunded == RefundsSpec => []RefundsWithinPayment
<1>. QED
  BY MoneyInit, MoneyStep, ClaimsCoverPayments, PTL DEF RefundsSpec

-----------------------------------------------------------------------------
(* Nudges.                                                                 *)

\* A cart that has no reminder, and is not among those the sweep has written
\* about, is owed one; the sweep only comes to such carts.
NudgeInv ==
    /\ NudgesTypeOK
    /\ OneNudgePerVisit
    /\ ~ sweep.running => sweep.sent = {} /\ sweep.todo = {}
    /\ \A c \in sweep.todo : ~ basket[c].reminded /\ c \notin sweep.sent
    /\ \A c \in Carts : ~ basket[c].reminded /\ c \notin sweep.sent =>
         nudged[c] <= returns[c] + unheard[c] + sweepsCut

LEMMA NudgeStep == NudgeInv /\ [NudgesNext]_nudgeVars => NudgeInv'
<1>. SUFFICES ASSUME NudgeInv, [NudgesNext]_nudgeVars PROVE NudgeInv'
  OBVIOUS
<1>0. /\ basket \in [Carts -> CartRow] /\ nudged \in [Carts -> Nat] /\ returns \in [Carts -> Nat]
      /\ unheard \in [Carts -> Nat] /\ sweepsCut \in Nat /\ sweep \in SweepOf
      /\ sweep.todo \subseteq Carts /\ sweep.sent \subseteq Carts /\ sweep.running \in BOOLEAN
  BY DEF NudgeInv, NudgesTypeOK, SweepOf
<1>1. \A c \in Carts : basket[c] \in CartRow /\ nudged[c] \in Nat /\ returns[c] \in Nat /\ unheard[c] \in Nat
  BY <1>0
<1>. USE DEF NudgeInv, NudgesTypeOK, OneNudgePerVisit
<1>2. ASSUME NEW c \in Carts, ReturnToCart(c) PROVE NudgeInv'
  <2>. DEFINE row == [basket[c] EXCEPT !.idle = FALSE, !.reminded = FALSE]
  <2>1. row \in CartRow /\ row.reminded = FALSE
    BY <1>1 DEF CartRow
  <2>2. /\ basket' = [basket EXCEPT ![c] = row] /\ returns' = [returns EXCEPT ![c] = @ + 1]
        /\ UNCHANGED << sweep, nudged, unheard, sweepsCut >>
    BY <1>0, <1>2 DEF ReturnToCart
  <2>. HIDE DEF row
  <2>3. /\ basket' \in [Carts -> CartRow] /\ returns' \in [Carts -> Nat]
        /\ \A d \in Carts : d # c => basket'[d] = basket[d] /\ returns'[d] = returns[d]
        /\ basket'[c] = row /\ returns'[c] = returns[c] + 1
        /\ UNCHANGED << sweep, nudged, unheard, sweepsCut >>
    BY <1>0, <1>1, <2>1, <2>2
  <2>4. \A d \in Carts : ~ basket'[d].reminded /\ d \notin sweep.sent =>
            nudged[d] <= returns'[d] + unheard[d] + sweepsCut
    <3>1. nudged[c] <= returns[c] + 1 + unheard[c] + sweepsCut
      BY <1>1, <1>0
    <3>. QED
      BY <1>0, <1>1, <2>3, <3>1
  <2>5. OneNudgePerVisit'
    BY <1>0, <1>1, <2>3
  <2>6. \A d \in sweep.todo : ~ basket'[d].reminded
    BY <1>0, <2>1, <2>3
  <2>. QED
    BY <1>0, <2>3, <2>4, <2>5, <2>6
<1>3. ASSUME NEW c \in Carts, LeaveCart(c) PROVE NudgeInv'
  <2>. PICK s \in {"checked_out", "expired"} : basket' = [basket EXCEPT ![c].status = s]
    BY <1>3 DEF LeaveCart
  <2>. DEFINE row == [basket[c] EXCEPT !.status = s]
  <2>1. row \in CartRow /\ row.reminded = basket[c].reminded
    BY <1>1 DEF CartRow
  <2>2. basket' = [basket EXCEPT ![c] = row]
    BY <1>0
  <2>. HIDE DEF row
  <2>. QED
    BY <1>0, <1>1, <1>3, <2>1, <2>2 DEF LeaveCart
<1>4. ASSUME NEW c \in Carts, GrowIdle(c) PROVE NudgeInv'
  <2>. DEFINE row == [basket[c] EXCEPT !.idle = TRUE]
  <2>1. row \in CartRow /\ row.reminded = basket[c].reminded
    BY <1>1 DEF CartRow
  <2>2. basket' = [basket EXCEPT ![c] = row]
    BY <1>0, <1>4 DEF GrowIdle
  <2>. HIDE DEF row
  <2>. QED
    BY <1>0, <1>1, <1>4, <2>1, <2>2 DEF GrowIdle
<1>5. ASSUME NEW c \in Carts, Remind(c) PROVE NudgeInv'
  <2>1. c \in sweep.todo /\ UNCHANGED << basket, returns, unheard, sweepsCut >>
    BY <1>5 DEF Remind
  <2>2. CASE /\ sweep' = [sweep EXCEPT !.todo = @ \ {c}, !.sent = @ \cup {c}]
             /\ nudged' = [nudged EXCEPT ![c] = @ + 1]
    <3>1. /\ sweep' \in SweepOf
          /\ sweep'.todo = sweep.todo \ {c} /\ sweep'.sent = sweep.sent \cup {c}
      BY <1>0, <2>2 DEF SweepOf
    <3>. QED
      BY <1>0, <1>1, <2>1, <2>2, <3>1
  <2>3. CASE sweep' = [sweep EXCEPT !.todo = @ \ {c}] /\ UNCHANGED nudged
    <3>1. /\ sweep' \in SweepOf
          /\ sweep'.todo = sweep.todo \ {c} /\ sweep'.sent = sweep.sent
      BY <1>0, <2>3 DEF SweepOf
    <3>. QED
      BY <1>0, <1>1, <2>1, <2>3, <3>1
  <2>. QED
    BY <1>5, <2>2, <2>3 DEF Remind
<1>a. ASSUME NEW c \in Carts, RemindUnheard(c) PROVE NudgeInv'
  <2>1. /\ c \in sweep.todo /\ UNCHANGED << basket, returns, sweepsCut >>
        /\ nudged' = [nudged EXCEPT ![c] = @ + 1] /\ unheard' = [unheard EXCEPT ![c] = @ + 1]
        /\ sweep' = [sweep EXCEPT !.todo = @ \ {c}]
    BY <1>a DEF RemindUnheard
  <2>2. /\ sweep' \in SweepOf
        /\ sweep'.todo = sweep.todo \ {c} /\ sweep'.sent = sweep.sent
    BY <1>0, <2>1 DEF SweepOf
  <2>. QED
    BY <1>0, <1>1, <2>1, <2>2
<1>6. CASE StartSweep
  <2>1. /\ sweep' \in SweepOf /\ sweep'.todo = Forgotten /\ sweep'.sent = {} /\ sweep'.running = TRUE
        /\ UNCHANGED << basket, nudged, returns, unheard, sweepsCut >>
    BY <1>6 DEF StartSweep, SweepOf, Forgotten
  <2>2. sweep.sent = {}
    BY <1>6 DEF StartSweep
  <2>. QED
    BY <1>0, <1>1, <2>1, <2>2 DEF Forgotten
<1>7. CASE EndSweep
  <2>. DEFINE marked(c) == [basket[c] EXCEPT !.reminded = TRUE, !.idle = FALSE]
  <2>1. \A c \in Carts : marked(c) \in CartRow /\ marked(c).reminded = TRUE
    BY <1>1 DEF CartRow
  <2>2. basket' = [c \in Carts |-> IF c \in sweep.sent THEN marked(c) ELSE basket[c]]
    BY <1>7 DEF EndSweep
  <2>. HIDE DEF marked
  <2>3. /\ sweep' \in SweepOf /\ sweep'.todo = {} /\ sweep'.sent = {}
        /\ UNCHANGED << nudged, returns, unheard, sweepsCut >>
    BY <1>7 DEF EndSweep, Resting, SweepOf
  <2>. QED
    BY <1>0, <1>1, <2>1, <2>2, <2>3
<1>8. CASE CutSweep
  <2>1. /\ sweep' \in SweepOf /\ sweep'.todo = {} /\ sweep'.sent = {}
        /\ sweepsCut' = sweepsCut + 1 /\ UNCHANGED << basket, nudged, returns, unheard >>
    BY <1>8 DEF CutSweep, Resting, SweepOf
  <2>. QED
    BY <1>0, <1>1, <2>1
<1>9. CASE UNCHANGED nudgeVars
  BY <1>0, <1>9 DEF nudgeVars
<1>. QED
  BY <1>2, <1>3, <1>4, <1>5, <1>a, <1>6, <1>7, <1>8, <1>9 DEF NudgesNext

LEMMA NudgeInvHolds == NudgesSpec => []NudgeInv
<1>1. NudgesInit => NudgeInv
  BY DEF NudgesInit, NudgeInv, NudgesTypeOK, OneNudgePerVisit, Resting, SweepOf, CartRow
<1>. QED
  BY <1>1, NudgeStep, PTL DEF NudgesSpec

LEMMA NudgesTyped == NudgesSpec => []NudgesTypeOK
<1>1. NudgeInv => NudgesTypeOK
  BY DEF NudgeInv
<1>. QED
  BY <1>1, NudgeInvHolds, PTL

\* abandoned_cart_nudge: no shopper is reminded of a cart more often than he has left
\* it, but for the sends that raised although Meta had delivered, and the sweeps that
\* were cut off after they had written.
THEOREM NudgedOnce == NudgesSpec => []OneNudgePerVisit
<1>1. NudgeInv => OneNudgePerVisit
  BY DEF NudgeInv
<1>. QED
  BY <1>1, NudgeInvHolds, PTL

-----------------------------------------------------------------------------
(* OrderMail.                                                              *)

\* For a type that is neither contested nor lost: one sender at a time; a mail
\* that was taken is in the log or about to be; and nobody is sending, nor has
\* failed to, after one was.
Orderly(k) ==
    /\ received[k] <= 1
    /\ \A l, m \in Under(k) : l = m
    /\ received[k] >= 1 =>
         \E l \in Letters : KindOf[l] = k /\ (letter[l] = "sent" \/ << l, "sent" >> \in mailLog)
    /\ \A l \in Under(k) : letter[l] \in {"sending", "failed"} => received[k] = 0

MailInv ==
    /\ OrderMailTypeOK
    /\ \A k \in Kinds \ (crossed \cup mailCuts) : Orderly(k)
    /\ \A l \in Letters :
         << l, "sent" >> \in mailLog \/ letter[l] = "sent" => received[KindOf[l]] >= 1

\* A step of l's sender leaves the other types alone.
LEMMA OtherKindsOrderly ==
    ASSUME MailInv, NEW l \in Letters, NEW k \in Kinds, k # KindOf[l], Orderly(k),
           \A m \in Letters \ {l} : letter'[m] = letter[m],
           received'[k] = received[k],
           \A m \in Letters \ {l} : << m, "sent" >> \in mailLog' <=> << m, "sent" >> \in mailLog
    PROVE  Orderly(k)'
<1>1. /\ Under(k)' = Under(k)
      /\ \A m \in Under(k) : letter'[m] = letter[m]
  BY DEF Under
<1>. QED
  BY <1>1 DEF Orderly

LEMMA MailStep == MailInv /\ [OrderMailNext]_mailVars => MailInv'
<1>. SUFFICES ASSUME MailInv, [OrderMailNext]_mailVars PROVE MailInv'
  OBVIOUS
<1>0. /\ letter \in [Letters -> Steps] /\ mailLog \subseteq Letters \X {"sent", "failed"}
      /\ received \in [Kinds -> Nat] /\ crossed \subseteq Kinds /\ mailCuts \subseteq Kinds
      /\ \A k \in Kinds \ (crossed \cup mailCuts) : Orderly(k)
      /\ \A l \in Letters :
           << l, "sent" >> \in mailLog \/ letter[l] = "sent" => received[KindOf[l]] >= 1
      /\ \A l \in Letters : KindOf[l] \in Kinds
  BY OrderMailAssumption DEF MailInv, OrderMailTypeOK
<1>1. ASSUME NEW l \in Letters, Occasion(l) PROVE MailInv'
  <2>1. /\ letter[l] = "waiting" /\ letter'[l] = "queued" /\ letter' \in [Letters -> Steps]
        /\ \A m \in Letters \ {l} : letter'[m] = letter[m]
        /\ UNCHANGED << mailLog, received, crossed, mailCuts >>
    BY <1>0, <1>1 DEF Occasion, Steps
  <2>2. Under(KindOf[l])' = Under(KindOf[l])
    BY <2>1 DEF Under
  <2>3. Orderly(KindOf[l]) => Orderly(KindOf[l])'
    BY <2>1, <2>2 DEF Orderly, Under
  <2>. QED
    BY <1>0, <2>1, <2>3, OtherKindsOrderly DEF MailInv, OrderMailTypeOK
<1>2. ASSUME NEW l \in Letters, CheckLog(l) PROVE MailInv'
  <2>. DEFINE k == KindOf[l]
  <2>0. letter[l] = "queued" /\ k \in Kinds /\ UNCHANGED << mailLog, received, mailCuts >>
    BY <1>0, <1>2 DEF CheckLog
  <2>1. CASE /\ ~ AlreadySent(l)
             /\ letter' = [letter EXCEPT ![l] = "sending"]
             /\ crossed' = IF Under(k) = {} THEN crossed ELSE crossed \cup {k}
    <3>1. /\ letter'[l] = "sending" /\ letter' \in [Letters -> Steps]
          /\ \A m \in Letters \ {l} : letter'[m] = letter[m]
          /\ crossed \subseteq crossed' /\ crossed' \subseteq Kinds
      BY <1>0, <2>0, <2>1 DEF Steps
    <3>2. ASSUME k \notin crossed' \cup mailCuts PROVE Orderly(k)'
      <4>1. Under(k) = {} /\ Orderly(k)
        BY <1>0, <2>0, <2>1, <3>2
      <4>2. Under(k)' = {l}
        BY <3>1, <4>1 DEF Under
      <4>3. received[k] = 0
        <5>1. ASSUME NEW m \in Letters, KindOf[m] = k PROVE letter[m] # "sent" /\ << m, "sent" >> \notin mailLog
          BY <2>1, <4>1, <5>1 DEF AlreadySent, Under
        <5>2. ~ (received[k] >= 1)
          BY <4>1, <5>1 DEF Orderly
        <5>. QED
          BY <1>0, <2>0, <5>2
      <4>. QED
        BY <2>0, <4>2, <4>3 DEF Orderly
    <3>. QED
      BY <1>0, <2>0, <3>1, <3>2, OtherKindsOrderly DEF MailInv, OrderMailTypeOK
  <2>2. CASE letter' = [letter EXCEPT ![l] = "dropped"] /\ UNCHANGED crossed
    <3>1. /\ letter'[l] = "dropped" /\ letter' \in [Letters -> Steps]
          /\ \A m \in Letters \ {l} : letter'[m] = letter[m]
      BY <1>0, <2>2 DEF Steps
    <3>2. Under(k)' = Under(k)
      BY <2>0, <3>1 DEF Under
    <3>3. Orderly(k) => Orderly(k)'
      BY <2>0, <3>1, <3>2 DEF Orderly, Under
    <3>. QED
      BY <1>0, <2>0, <2>2, <3>1, <3>3, OtherKindsOrderly DEF MailInv, OrderMailTypeOK
  <2>. QED
    BY <1>2, <2>1, <2>2 DEF CheckLog
<1>3. ASSUME NEW l \in Letters, Deliver(l) PROVE MailInv'
  <2>. DEFINE k == KindOf[l]
  <2>0. /\ letter[l] = "sending" /\ k \in Kinds /\ l \in Under(k)
        /\ UNCHANGED << mailLog, crossed, mailCuts >>
    BY <1>0, <1>3 DEF Deliver, Under
  <2>1. CASE letter' = [letter EXCEPT ![l] = "sent"] /\ received' = [received EXCEPT ![k] = @ + 1]
    <3>1. /\ letter'[l] = "sent" /\ letter' \in [Letters -> Steps]
          /\ \A m \in Letters \ {l} : letter'[m] = letter[m]
          /\ received' \in [Kinds -> Nat] /\ received'[k] = received[k] + 1 /\ received[k] \in Nat
          /\ \A j \in Kinds \ {k} : received'[j] = received[j]
          /\ \A j \in Kinds : received'[j] \in Nat /\ received[j] \in Nat /\ received'[j] >= received[j]
      BY <1>0, <2>0, <2>1 DEF Steps
    <3>2. Under(k)' = Under(k)
      BY <2>0, <3>1 DEF Under
    <3>3. Orderly(k) => Orderly(k)'
      <4>. SUFFICES ASSUME Orderly(k) PROVE Orderly(k)'
        OBVIOUS
      <4>1. received[k] = 0 /\ \A m \in Under(k) : m = l
        BY <2>0 DEF Orderly
      <4>. QED
        BY <3>1, <3>2, <4>1 DEF Orderly
    <3>4. \A m \in Letters : << m, "sent" >> \in mailLog' \/ letter'[m] = "sent" => received'[KindOf[m]] >= 1
      BY <1>0, <2>0, <3>1
    <3>. QED
      BY <1>0, <2>0, <3>1, <3>3, <3>4, OtherKindsOrderly DEF MailInv, OrderMailTypeOK
  <2>2. CASE letter' = [letter EXCEPT ![l] = "failed"] /\ UNCHANGED received
    <3>1. /\ letter'[l] = "failed" /\ letter' \in [Letters -> Steps]
          /\ \A m \in Letters \ {l} : letter'[m] = letter[m]
      BY <1>0, <2>2 DEF Steps
    <3>2. Under(k)' = Under(k)
      BY <2>0, <3>1 DEF Under
    <3>3. Orderly(k) => Orderly(k)'
      BY <2>0, <2>2, <3>1, <3>2 DEF Orderly
    <3>. QED
      BY <1>0, <2>0, <2>2, <3>1, <3>3, OtherKindsOrderly DEF MailInv, OrderMailTypeOK
  <2>. QED
    BY <1>3, <2>1, <2>2 DEF Deliver
<1>4. ASSUME NEW l \in Letters, RecordMail(l) PROVE MailInv'
  <2>. DEFINE k == KindOf[l]
  <2>0. /\ letter[l] \in {"sent", "failed"} /\ k \in Kinds /\ l \in Under(k)
        /\ letter'[l] = "logged" /\ letter' \in [Letters -> Steps]
        /\ \A m \in Letters \ {l} : letter'[m] = letter[m]
        /\ mailLog' = mailLog \cup {<< l, letter[l] >>}
        /\ UNCHANGED << received, crossed, mailCuts >>
    BY <1>0, <1>4 DEF RecordMail, Steps, Under
  <2>1. mailLog' \subseteq Letters \X {"sent", "failed"}
    BY <1>0, <2>0
  <2>2. \A m \in Letters : << m, "sent" >> \in mailLog' <=>
            << m, "sent" >> \in mailLog \/ (m = l /\ letter[l] = "sent")
    BY <2>0
  <2>3. Under(k)' = Under(k) \ {l}
    BY <2>0 DEF Under
  <2>4. Orderly(k) => Orderly(k)'
    BY <2>0, <2>2, <2>3 DEF Orderly, Under
  <2>. QED
    BY <1>0, <2>0, <2>1, <2>2, <2>4, OtherKindsOrderly DEF MailInv, OrderMailTypeOK
<1>5. ASSUME NEW l \in Letters, LoseTrack(l) PROVE MailInv'
  <2>. DEFINE k == KindOf[l]
  <2>0. /\ letter[l] \in {"sending", "sent"} /\ k \in Kinds
        /\ received' = IF letter[l] = "sending" THEN [received EXCEPT ![k] = @ + 1] ELSE received
        /\ mailCuts' = mailCuts \cup {k} /\ UNCHANGED << mailLog, crossed >>
    BY <1>0, <1>5 DEF LoseTrack
  <2>1. PICK step \in {"queued", "failed", "dropped"} : letter' = [letter EXCEPT ![l] = step]
    BY <1>5 DEF LoseTrack
  <2>2. /\ letter'[l] = step /\ letter' \in [Letters -> Steps]
        /\ \A m \in Letters \ {l} : letter'[m] = letter[m]
    BY <1>0, <2>1 DEF Steps
  <2>3. /\ received' \in [Kinds -> Nat]
        /\ \A j \in Kinds : received[j] \in Nat /\ received'[j] \in Nat /\ received'[j] >= received[j]
        /\ \A j \in Kinds \ {k} : received'[j] = received[j]
    BY <1>0, <2>0
  <2>4. \A m \in Letters : << m, "sent" >> \in mailLog' \/ letter'[m] = "sent" => received'[KindOf[m]] >= 1
    BY <1>0, <2>0, <2>2, <2>3
  <2>. QED
    BY <1>0, <2>0, <2>2, <2>3, <2>4, OtherKindsOrderly DEF MailInv, OrderMailTypeOK
<1>6. CASE UNCHANGED mailVars
  BY <1>0, <1>6 DEF mailVars, MailInv, OrderMailTypeOK, Orderly, Under
<1>. QED
  BY <1>1, <1>2, <1>3, <1>4, <1>5, <1>6 DEF OrderMailNext

LEMMA MailInvHolds == OrderMailSpec => []MailInv
<1>1. OrderMailInit => MailInv
  <2>. SUFFICES ASSUME OrderMailInit PROVE MailInv
    OBVIOUS
  <2>1. \A k \in Kinds : Under(k) = {} /\ received[k] = 0
    BY DEF OrderMailInit, Under
  <2>. QED
    BY <2>1, OrderMailAssumption DEF OrderMailInit, MailInv, OrderMailTypeOK, Orderly, Steps
<1>. QED
  BY <1>1, MailStep, PTL DEF OrderMailSpec

LEMMA OrderMailTyped == OrderMailSpec => []OrderMailTypeOK
<1>1. MailInv => OrderMailTypeOK
  BY DEF MailInv
<1>. QED
  BY <1>1, MailInvHolds, PTL

\* One mail of a type about an order, however many occasions, failures and jobs
\* there are, unless two senders cross or one loses track; and the log is true.
THEOREM MailedOnce == OrderMailSpec => []OneMailPerKind
<1>1. MailInv => OneMailPerKind
  BY DEF MailInv, OneMailPerKind, Orderly
<1>. QED
  BY <1>1, MailInvHolds, PTL

-----------------------------------------------------------------------------
(* Notices.                                                                *)

\* The rows of one alert: one for each agent it is written to, or one for all.
OneEach(rows) ==
    \A m, n \in rows : m.alert = n.alert =>
        /\ m.to = n.to => m = n
        /\ m.to = Everyone <=> n.to = Everyone

Answered(n) == dealtWith[n.alert] \cap (IF n.to = Everyone THEN Staff ELSE {n.to}) # {}

NoticeInv ==
    /\ NoticesTypeOK
    /\ \A n \in notice : stage[n.alert] = "raised" /\ (n.read => Answered(n))
    /\ OneEach(notice)
    /\ \A a \in Alerts : stage[a] = "raised" => \E n \in notice : n.alert = a
    /\ \A a \in Alerts : stage[a] = "raising" =>
         /\ written[a] # {}
         /\ OneEach(written[a])
         /\ \A n \in written[a] : n.alert = a /\ ~ n.read

\* Marking changes nothing in a row but its flag.
LEMMA MarkedRows ==
    ASSUME notice \subseteq NoticeRow, NEW ns \in SUBSET notice
    PROVE  /\ Marked(ns) \subseteq NoticeRow
           /\ \A n \in Marked(ns) : \E m \in notice :
                n.alert = m.alert /\ n.to = m.to /\ (n.read <=> m.read \/ m \in ns)
           /\ \A m \in notice : \E n \in Marked(ns) :
                n.alert = m.alert /\ n.to = m.to /\ (n.read <=> m.read \/ m \in ns)
<1>. DEFINE flag(m) == [m EXCEPT !.read = TRUE]
<1>1. \A m \in NoticeRow :
        flag(m) \in NoticeRow /\ flag(m).alert = m.alert /\ flag(m).to = m.to /\ flag(m).read = TRUE
  BY DEF NoticeRow
<1>2. Marked(ns) = (notice \ ns) \cup {flag(m) : m \in ns}
  BY DEF Marked
<1>. HIDE DEF flag
<1>. QED
  BY <1>1, <1>2

LEMMA MarkedOneEach ==
    ASSUME notice \subseteq NoticeRow, OneEach(notice), NEW ns \in SUBSET notice
    PROVE  OneEach(Marked(ns))
<1>. SUFFICES ASSUME NEW m \in Marked(ns), NEW n \in Marked(ns), m.alert = n.alert
              PROVE  (m.to = n.to => m = n) /\ (m.to = Everyone <=> n.to = Everyone)
  BY DEF OneEach
<1>1. PICK p \in notice : m.alert = p.alert /\ m.to = p.to /\ (m.read <=> p.read \/ p \in ns)
  BY MarkedRows
<1>2. PICK q \in notice : n.alert = q.alert /\ n.to = q.to /\ (n.read <=> q.read \/ q \in ns)
  BY MarkedRows
<1>3. p.to = q.to => p = q
  BY <1>1, <1>2 DEF OneEach
<1>4. m \in NoticeRow /\ n \in NoticeRow
  BY MarkedRows
<1>5. m.to = n.to => m = n
  BY <1>1, <1>2, <1>3, <1>4 DEF NoticeRow
<1>. QED
  BY <1>1, <1>2, <1>5 DEF OneEach

\* Rows that an agent marks are rows he sees, and he is taken down for them.
LEMMA MarkingStep ==
    ASSUME NoticeInv, NEW g \in Staff, NEW ns \in SUBSET VisibleTo(g),
           notice' = Marked(ns), UNCHANGED << onDuty, stage, written >>,
           dealtWith' \in [Alerts -> SUBSET Staff],
           \A a \in Alerts : dealtWith[a] \subseteq dealtWith'[a],
           \A n \in ns : g \in dealtWith'[n.alert]
    PROVE  NoticeInv'
<1>1. notice \subseteq NoticeRow /\ ns \subseteq notice
  BY DEF NoticeInv, NoticesTypeOK, VisibleTo
<1>2. notice' \subseteq NoticeRow /\ OneEach(notice')
  BY <1>1, MarkedRows, MarkedOneEach DEF NoticeInv
<1>3. ASSUME NEW n \in notice' PROVE stage[n.alert] = "raised" /\ (n.read => Answered(n)')
  <2>1. PICK m \in notice : n.alert = m.alert /\ n.to = m.to /\ (n.read <=> m.read \/ m \in ns)
    BY <1>1, MarkedRows
  <2>2. m.alert \in Alerts
    BY <1>1 DEF NoticeRow
  <2>3. m \in ns => m.to \in {g, Everyone} /\ g \in dealtWith'[m.alert]
    BY DEF VisibleTo
  <2>4. m.read => Answered(n)'
    BY <2>1, <2>2 DEF NoticeInv, Answered
  <2>5. m \in ns => Answered(n)'
    BY <2>1, <2>2, <2>3 DEF Answered
  <2>. QED
    BY <2>1, <2>4, <2>5 DEF NoticeInv
<1>4. ASSUME NEW a \in Alerts, stage[a] = "raised" PROVE \E n \in notice' : n.alert = a
  BY <1>1, <1>4, MarkedRows DEF NoticeInv
<1>. QED
  BY <1>2, <1>3, <1>4 DEF NoticeInv, NoticesTypeOK

LEMMA NoticeStep == NoticeInv /\ [NoticesNext]_noticeVars => NoticeInv'
<1>. SUFFICES ASSUME NoticeInv, [NoticesNext]_noticeVars PROVE NoticeInv'
  OBVIOUS
<1>0. /\ onDuty \subseteq Staff /\ stage \in [Alerts -> {"none", "raising", "raised"}]
      /\ written \in [Alerts -> SUBSET NoticeRow] /\ dealtWith \in [Alerts -> SUBSET Staff]
      /\ notice \subseteq NoticeRow
  BY DEF NoticeInv, NoticesTypeOK
<1>1. ASSUME NEW a \in Alerts, Broadcast(a) PROVE NoticeInv'
  <2>. DEFINE row(r) == [alert |-> a, to |-> r, read |-> FALSE]
  <2>1. \A r \in Staff \cup {Everyone} :
           row(r) \in NoticeRow /\ row(r).alert = a /\ row(r).to = r /\ row(r).read = FALSE
    BY DEF NoticeRow
  <2>2. /\ stage[a] = "none" /\ stage' = [stage EXCEPT ![a] = "raising"]
        /\ written' = [written EXCEPT ![a] = {row(r) : r \in Recipients}]
        /\ UNCHANGED << onDuty, notice, dealtWith >>
    BY <1>1 DEF Broadcast
  <2>. HIDE DEF row
  <2>3. /\ Recipients # {} /\ Recipients \subseteq Staff \cup {Everyone}
        /\ Recipients = {Everyone} \/ Everyone \notin Recipients
    BY <1>0, NoticesAssumption DEF Recipients
  <2>4. OneEach({row(r) : r \in Recipients})
    BY <2>1, <2>3 DEF OneEach
  <2>5. \A b \in Alerts : written'[b] = IF b = a THEN {row(r) : r \in Recipients} ELSE written[b]
    BY <1>0, <2>2
  <2>6. written' \in [Alerts -> SUBSET NoticeRow] /\ stage' \in [Alerts -> {"none", "raising", "raised"}]
    BY <1>0, <2>1, <2>2, <2>3
  <2>7. \A b \in Alerts : stage'[b] = IF b = a THEN "raising" ELSE stage[b]
    BY <1>0, <2>2
  <2>8. \A n \in notice : n.alert \in Alerts
    BY <1>0 DEF NoticeRow
  <2>9. \A b \in Alerts : stage'[b] = "raising" =>
          /\ written'[b] # {}
          /\ OneEach(written'[b])
          /\ \A n \in written'[b] : n.alert = b /\ ~ n.read
    BY <2>1, <2>3, <2>4, <2>5, <2>7 DEF NoticeInv
  <2>10. /\ \A n \in notice : stage'[n.alert] = "raised" /\ (n.read => Answered(n)')
         /\ \A b \in Alerts : stage'[b] = "raised" => \E n \in notice : n.alert = b
    BY <2>2, <2>7, <2>8 DEF NoticeInv, Answered
  <2>11. OneEach(notice')
    BY <2>2 DEF NoticeInv
  <2>. QED
    BY <1>0, <2>2, <2>6, <2>9, <2>10, <2>11 DEF NoticeInv, NoticesTypeOK
<1>2. ASSUME NEW a \in Alerts, CommitBroadcast(a) PROVE NoticeInv'
  <2>1. /\ stage[a] = "raising" /\ notice' = notice \cup written[a]
        /\ \A b \in Alerts : stage'[b] = IF b = a THEN "raised" ELSE stage[b]
        /\ \A b \in Alerts : written'[b] = IF b = a THEN {} ELSE written[b]
        /\ stage' \in [Alerts -> {"none", "raising", "raised"}]
        /\ written' \in [Alerts -> SUBSET NoticeRow]
        /\ UNCHANGED << onDuty, dealtWith >>
    BY <1>0, <1>2 DEF CommitBroadcast
  <2>2. /\ written[a] # {} /\ OneEach(written[a])
        /\ \A n \in written[a] : n.alert = a /\ ~ n.read
        /\ \A n \in notice : n.alert # a /\ n.alert \in Alerts
    BY <1>0, <2>1 DEF NoticeInv, NoticeRow
  <2>3. OneEach(notice')
    BY <2>1, <2>2 DEF NoticeInv, OneEach
  <2>4. /\ \A n \in notice' : stage'[n.alert] = "raised" /\ (n.read => Answered(n)')
        /\ \A b \in Alerts : stage'[b] = "raised" => \E n \in notice' : n.alert = b
    BY <2>1, <2>2 DEF NoticeInv, Answered
  <2>5. \A b \in Alerts : stage'[b] = "raising" => stage[b] = "raising" /\ written'[b] = written[b]
    BY <2>1
  <2>. QED
    BY <1>0, <2>1, <2>3, <2>4, <2>5 DEF NoticeInv, NoticesTypeOK
<1>3. ASSUME NEW a \in Alerts, DropBroadcast(a) PROVE NoticeInv'
  BY <1>0, <1>3 DEF DropBroadcast, NoticeInv, NoticesTypeOK, Answered
<1>4. ASSUME NEW g \in Staff, NEW n \in notice, MarkRead(g, n) PROVE NoticeInv'
  <2>1. n.alert \in Alerts
    BY <1>0 DEF NoticeRow
  <2>. QED
    BY <1>0, <1>4, <2>1, MarkingStep DEF MarkRead
<1>5. ASSUME NEW g \in Staff, MarkAllRead(g) PROVE NoticeInv'
  <2>1. Unread(g) \subseteq VisibleTo(g) /\ Unread(g) \subseteq notice
    BY DEF Unread, VisibleTo
  <2>2. \A n \in Unread(g) : n.alert \in Alerts
    BY <1>0, <2>1 DEF NoticeRow
  <2>. QED
    BY <1>0, <1>5, <2>1, <2>2, MarkingStep DEF MarkAllRead
<1>6. ASSUME NEW g \in Staff, StaffChange(g) PROVE NoticeInv'
  BY <1>0, <1>6 DEF StaffChange, NoticeInv, NoticesTypeOK, Answered
<1>7. CASE UNCHANGED noticeVars
  BY <1>7 DEF noticeVars, NoticeInv, NoticesTypeOK, Answered
<1>. QED
  BY <1>1, <1>2, <1>3, <1>4, <1>5, <1>6, <1>7 DEF NoticesNext

LEMMA NoticeInvHolds == NoticesSpec => []NoticeInv
<1>1. NoticesInit => NoticeInv
  BY DEF NoticesInit, NoticeInv, NoticesTypeOK, OneEach
<1>. QED
  BY <1>1, NoticeStep, PTL DEF NoticesSpec

LEMMA NoticesTyped == NoticesSpec => []NoticesTypeOK
<1>1. NoticeInv => NoticesTypeOK
  BY DEF NoticeInv
<1>. QED
  BY <1>1, NoticeInvHolds, PTL

\* No alert is lost, read for a colleague or shown twice, for any number of
\* agents who come and go.
THEOREM AlertsArrive == NoticesSpec => []AlertsReachStaff
<1>1. NoticeInv => AlertsReachStaff
  <2>. SUFFICES ASSUME NoticeInv PROVE AlertsReachStaff
    OBVIOUS
  <2>1. ASSUME NEW a \in Alerts, stage[a] = "raised", dealtWith[a] = {}
        PROVE  \E n \in notice : n.alert = a /\ ~ n.read
    BY <2>1 DEF NoticeInv, Answered
  <2>2. ASSUME NEW a \in Alerts, NEW g \in Staff
        PROVE  Cardinality({n \in VisibleTo(g) : n.alert = a}) <= 1
    <3>. DEFINE mine == {n \in VisibleTo(g) : n.alert = a}
    <3>1. \A m, n \in mine : m = n
      <4>. SUFFICES ASSUME NEW m \in mine, NEW n \in mine PROVE m = n
        OBVIOUS
      <4>1. m \in notice /\ n \in notice /\ m.alert = n.alert /\ m.to \in {g, Everyone} /\ n.to \in {g, Everyone}
        BY DEF VisibleTo
      <4>. QED
        BY <4>1 DEF NoticeInv, OneEach
    <3>2. mine = {} \/ \E n : mine = {n}
      BY <3>1
    <3>3. CASE mine = {}
      <4>. Cardinality(mine) = 0
        BY <3>3, FS_EmptySet
      <4>. QED
        OBVIOUS
    <3>4. CASE \E n : mine = {n}
      <4>. Cardinality(mine) = 1
        BY <3>4, FS_Singleton
      <4>. QED
        OBVIOUS
    <3>. QED
      BY <3>2, <3>3, <3>4
  <2>. QED
    BY <2>1, <2>2 DEF AlertsReachStaff, NoticeInv, Answered
<1>. QED
  BY <1>1, NoticeInvHolds, PTL

-----------------------------------------------------------------------------
(* Pricing: rounding, and the shares of a discount.                        *)

\* A quotient rounded half up is off by half a unit at most.
LEMMA RoundedHalfUp ==
    ASSUME NEW x \in Nat, NEW y \in Nat \ {0}
    PROVE  /\ Rounded(x, y) \in Nat
           /\ 2 * (y * Rounded(x, y)) <= 2 * x + y
           /\ 2 * x + y < 2 * (y * Rounded(x, y)) + 2 * y
<1>. DEFINE p == 2 * x + y
            d == 2 * y
            r == p \div d
<1>1. p \in Nat /\ d \in Nat /\ d > 0
  OBVIOUS
<1>2. Rounded(x, y) = r
  BY DEF Rounded
<1>. HIDE DEF p, d
<1>3. r \in Nat /\ p = d * r + (p % d) /\ (p % d) \in 0 .. d - 1
  BY <1>1
<1>4. d * r = 2 * (y * r)
  BY <1>3 DEF d
<1>5. (p % d) < d /\ 0 <= (p % d) /\ (p % d) \in Int /\ d * r \in Int
  BY <1>1, <1>3
<1>6. d * r <= p /\ p < d * r + d
  BY <1>1, <1>3, <1>5
<1>. QED
  BY <1>2, <1>3, <1>4, <1>6 DEF p, d

LEMMA RoundedInteger ==
    ASSUME NEW x \in Int, NEW y \in Nat \ {0}
    PROVE  Rounded(x, y) \in Int
  BY DEF Rounded

\* A bound on each term, scaled, bounds the sums.
LEMMA SumScaled ==
    ASSUME NEW S, IsFiniteSet(S), NEW p \in Int, NEW q \in Int, NEW m \in Int, NEW f, NEW g,
           \A x \in S : f[x] \in Int /\ g[x] \in Int /\ q * g[x] <= p * f[x] + m
    PROVE  q * SumFunctionOnSet(g, S) <= p * SumFunctionOnSet(f, S) + Cardinality(S) * m
<1>1. /\ \A T \in SUBSET S : SumFunctionOnSet(f, T) \in Int /\ SumFunctionOnSet(g, T) \in Int
      /\ \A T \in SUBSET S : \A x \in S \ T :
            /\ SumFunctionOnSet(f, T \cup {x}) = f[x] + SumFunctionOnSet(f, T)
            /\ SumFunctionOnSet(g, T \cup {x}) = g[x] + SumFunctionOnSet(g, T)
  BY SumOneMore
<1>. DEFINE Bound == {T \in SUBSET S : q * SumFunctionOnSet(g, T)
                                        <= p * SumFunctionOnSet(f, T) + Cardinality(T) * m}
<1>2. {} \in Bound
  BY SumEmpty, FS_EmptySet
<1>3. ASSUME NEW T \in SUBSET S, NEW x \in S \ T, T \in Bound PROVE T \cup {x} \in Bound
  <2>1. SumFunctionOnSet(f, T \cup {x}) = f[x] + SumFunctionOnSet(f, T)
    BY <1>1
  <2>2. SumFunctionOnSet(g, T \cup {x}) = g[x] + SumFunctionOnSet(g, T)
    BY <1>1
  <2>3. IsFiniteSet(T) /\ x \notin T
    BY FS_Subset
  <2>4. Cardinality(T) \in Nat /\ Cardinality(T \cup {x}) = Cardinality(T) + 1
    BY ONLY <2>3, FS_CardinalityType, FS_AddElement
  <2>5. /\ SumFunctionOnSet(f, T) \in Int /\ SumFunctionOnSet(g, T) \in Int
        /\ q * SumFunctionOnSet(g, T) <= p * SumFunctionOnSet(f, T) + Cardinality(T) * m
        /\ f[x] \in Int /\ g[x] \in Int /\ q * g[x] <= p * f[x] + m
        /\ p \in Int /\ q \in Int /\ m \in Int
    BY <1>1, <1>3
  <2>6. \A k, c, d \in Int : k * (c + d) = k * c + k * d
    OBVIOUS
  <2>7. /\ q * (g[x] + SumFunctionOnSet(g, T)) = q * g[x] + q * SumFunctionOnSet(g, T)
        /\ p * (f[x] + SumFunctionOnSet(f, T)) = p * f[x] + p * SumFunctionOnSet(f, T)
        /\ (Cardinality(T) + 1) * m = Cardinality(T) * m + m
    BY ONLY <2>4, <2>5, <2>6
  <2>8. q * SumFunctionOnSet(g, T \cup {x})
          <= p * SumFunctionOnSet(f, T \cup {x}) + Cardinality(T \cup {x}) * m
    <3>. DEFINE qg == q * g[x]
                qG == q * SumFunctionOnSet(g, T)
                pf == p * f[x]
                pF == p * SumFunctionOnSet(f, T)
                km == Cardinality(T) * m
    <3>1. qg \in Int /\ qG \in Int /\ pf \in Int /\ pF \in Int /\ km \in Int /\ m \in Int
      BY ONLY <2>4, <2>5
    <3>2. qG <= pF + km /\ qg <= pf + m
      BY <2>5
    <3>3. /\ q * (g[x] + SumFunctionOnSet(g, T)) = qg + qG
          /\ p * (f[x] + SumFunctionOnSet(f, T)) = pf + pF
          /\ (Cardinality(T) + 1) * m = km + m
      BY <2>7
    <3>. HIDE DEF qg, qG, pf, pF, km
    <3>4. qg + qG <= (pf + pF) + (km + m)
      BY ONLY <3>1, <3>2
    <3>5. q * (g[x] + SumFunctionOnSet(g, T))
            <= p * (f[x] + SumFunctionOnSet(f, T)) + (Cardinality(T) + 1) * m
      BY ONLY <3>3, <3>4
    <3>. QED
      BY ONLY <2>1, <2>2, <2>4, <3>5
  <2>. QED
    BY <2>8
<1>4. S \in Bound
  <2>. HIDE DEF Bound
  <2>. QED
    BY ONLY IsFiniteSet(S), <1>2, <1>3, ByParts
<1>. QED
  BY <1>4

\* What the last line has to absorb beyond its own value comes from rounding:
\* s is the order, d the discount, v the lines before the last, w their shares.
LEMMA ExcessIsSmall ==
    ASSUME NEW s \in Nat \ {0}, NEW d \in 0 .. s, NEW v \in 0 .. s, NEW w \in Int, NEW k \in Nat,
           (2 * d) * v <= (2 * s) * w + k * (s - 1),
           d - w > s - v
    PROVE  2 * ((d - w) - (s - v)) < k
<1>. DEFINE e == (d - w) - (s - v)
<1>. SUFFICES ASSUME k <= 2 * e PROVE FALSE
  OBVIOUS
<1>1. e \in Nat /\ e >= 1 /\ w = d - s + v - e
  OBVIOUS
<1>2. (s - d) * (s - v) \in Nat
  <2>1. s - d \in Nat /\ s - v \in Nat
    OBVIOUS
  <2>2. \A i, j \in Nat : i * j \in Nat
    OBVIOUS
  <2>. QED
    BY ONLY <2>1, <2>2
<1>3. s * s - s * v - s * d + d * v >= 0
  BY <1>2
<1>4. s * w = s * d - s * s + s * v - s * e
  BY <1>1
<1>5. k * (s - 1) = s * k - k /\ (2 * d) * v = 2 * (d * v) /\ (2 * s) * w = 2 * (s * w)
  OBVIOUS
<1>6. s * (2 * e - k) >= 0 /\ s * (2 * e - k) = 2 * (s * e) - s * k
  <2>1. 2 * e - k \in Nat /\ s \in Nat
    BY <1>1
  <2>2. \A i, j \in Nat : i * j >= 0
    OBVIOUS
  <2>3. s * (2 * e - k) >= 0
    BY ONLY <2>1, <2>2
  <2>. QED
    BY <1>1, <2>3
<1>7. s * e >= 1
  <2>1. \A i, j \in Nat : i >= 1 /\ j >= 1 => i * j >= 1
    OBVIOUS
  <2>. QED
    BY <1>1, <2>1
<1>. DEFINE ss == s * s
            sv == s * v
            sd == s * d
            dv == d * v
            se == s * e
            sk == s * k
            sw == s * w
<1>8. ss \in Int /\ sv \in Int /\ sd \in Int /\ dv \in Int /\ se \in Int /\ sk \in Int /\ sw \in Int
  BY <1>1
<1>9. /\ 2 * dv <= 2 * sw + (sk - k)
      /\ sw = sd - ss + sv - se
      /\ ss - sv - sd + dv >= 0
      /\ 2 * se - sk >= 0
      /\ se >= 1
  <2>1. 2 * dv <= 2 * sw + (sk - k)
    BY <1>5
  <2>2. 2 * se - sk >= 0
    BY <1>6
  <2>. QED
    BY <2>1, <2>2, <1>3, <1>4, <1>7
<1>. HIDE DEF ss, sv, sd, dv, se, sk, sw, e
<1>10. k <= 0
  BY ONLY k \in Nat, <1>8, <1>9
<1>11. k = 0
  BY <1>10
<1>12. sk = 0
  BY <1>11 DEF sk
<1>. QED
  BY ONLY <1>8, <1>9, <1>11, <1>12

LEMMA SumNatural ==
    ASSUME NEW S, IsFiniteSet(S), NEW f, \A x \in S : f[x] \in Nat
    PROVE  SumFunctionOnSet(f, S) \in Nat
<1>. DEFINE z == [x \in S |-> 0]
<1>1. \A x \in S : z[x] \in Int /\ f[x] \in Int /\ z[x] = 0 /\ z[x] <= f[x]
  OBVIOUS
<1>. HIDE DEF z
<1>2. SumFunctionOnSet(z, S) = 0
  BY ONLY IsFiniteSet(S), <1>1, SumZero
<1>3. SumFunctionOnSet(z, S) <= SumFunctionOnSet(f, S)
  BY ONLY IsFiniteSet(S), <1>1, SumMonotone
<1>4. SumFunctionOnSet(f, S) \in Int
  BY ONLY IsFiniteSet(S), <1>1, SumLaws
<1>. QED
  BY ONLY <1>2, <1>3, <1>4

\* The sum over a sequence is its last element and the sum of the others.
LEMMA SumButLast ==
    ASSUME NEW n \in Nat \ {0}, NEW f, DOMAIN f = 1 .. n, \A i \in 1 .. n : f[i] \in Int
    PROVE  /\ SumFunctionOnSet(f, 1 .. n - 1) \in Int
           /\ SumFunction(f) = f[n] + SumFunctionOnSet(f, 1 .. n - 1)
<1>1. IsFiniteSet(1 .. n) /\ n \in 1 .. n /\ (1 .. n) \ {n} = 1 .. n - 1
  <2>1. IsFiniteSet(1 .. n)
    BY ONLY n \in Nat \ {0}, FS_Interval
  <2>2. n \in 1 .. n /\ (1 .. n) \ {n} = 1 .. n - 1
    OBVIOUS
  <2>. QED
    BY <2>1, <2>2
<1>2. SumFunction(f) = SumFunctionOnSet(f, 1 .. n)
  BY DEF SumFunction
<1>3. /\ SumFunctionOnSet(f, (1 .. n) \ {n}) \in Int
      /\ SumFunctionOnSet(f, 1 .. n) = f[n] + SumFunctionOnSet(f, (1 .. n) \ {n})
  <2>1. \A i \in 1 .. n : f[i] \in Int
    OBVIOUS
  <2>. QED
    BY ONLY <1>1, <2>1, SumLaws
<1>. QED
  BY <1>1, <1>2, <1>3, Zenon

\* A share is never more than its line, but for the last, which takes what is left.
LEMMA SharesFit ==
    ASSUME NEW n \in Nat \ {0}, NEW g \in [1 .. n -> Nat], NEW d \in 0 .. SumFunction(g)
    PROVE  LET sh == Shares(g, d)
               V == SumFunctionOnSet(g, 1 .. n - 1)
               W == SumFunctionOnSet(sh, 1 .. n - 1)
           IN  /\ sh \in [1 .. n -> Int]
               /\ \A i \in 1 .. n - 1 : sh[i] \in 0 .. g[i]
               /\ V \in Nat /\ W \in Int /\ sh[n] = d - W
               /\ SumFunction(g) = g[n] + V
               /\ d - W > g[n] => 2 * ((d - W) - g[n]) < n - 1
<1>. DEFINE s == SumFunction(g)
            low == 1 .. n - 1
            rounded == [i \in 1 .. n |-> IF d = 0 THEN 0 ELSE Rounded(d * g[i], s)]
            A == SumFunctionOnSet(rounded, low)
            sh == [rounded EXCEPT ![n] = d - A]
            V == SumFunctionOnSet(g, low)
            W == SumFunctionOnSet(sh, low)
<1>0. DOMAIN g = 1 .. n /\ Len(g) = n /\ n \in 1 .. n /\ \A i \in low : i \in 1 .. n /\ i # n
  <2>1. g \in Seq(Nat)
    BY SeqDef
  <2>2. DOMAIN g = 1 .. Len(g) /\ DOMAIN g = 1 .. n /\ Len(g) \in Nat
    BY <2>1, LenProperties
  <2>. QED
    BY <2>2
<1>1. Shares(g, d) = sh
  BY <1>0 DEF Shares
<1>2. IsFiniteSet(low) /\ Cardinality(low) = n - 1
  <2>1. 1 \in Int /\ n - 1 \in Int /\ n - 1 >= 0
    OBVIOUS
  <2>2. IsFiniteSet(low) /\ Cardinality(low) = IF 1 > n - 1 THEN 0 ELSE (n - 1) - 1 + 1
    <3>. DEFINE m == n - 1
    <3>1. 1 \in Int /\ m \in Int
      BY <2>1
    <3>. HIDE DEF m
    <3>2. IsFiniteSet(1 .. m) /\ Cardinality(1 .. m) = IF 1 > m THEN 0 ELSE m - 1 + 1
      BY ONLY <3>1, FS_Interval
    <3>. QED
      BY <3>2 DEF m
  <2>. QED
    BY <2>1, <2>2
<1>3. V \in Nat /\ s = g[n] + V /\ s \in Nat /\ d \in Nat /\ d <= s
  <2>1. \A i \in 1 .. n : g[i] \in Nat
    OBVIOUS
  <2>2. \A i \in low : g[i] \in Nat
    BY <1>0, <2>1
  <2>3. V \in Nat
    BY ONLY <1>2, <2>2, SumNatural
  <2>4. s = g[n] + V
    BY <1>0, <2>1, SumButLast
  <2>. QED
    BY <1>0, <2>1, <2>3, <2>4
<1>4. ASSUME NEW i \in 1 .. n
      PROVE  /\ rounded[i] \in Nat /\ g[i] \in Nat
             /\ g[i] <= s => rounded[i] <= g[i]
             /\ s # 0 => (2 * d) * g[i] <= (2 * s) * rounded[i] + (s - 1)
  <2>0. g[i] \in Nat
    OBVIOUS
  <2>1. CASE d = 0
    <3>1. rounded[i] = 0 /\ (2 * d) * g[i] = 0
      BY <2>0, <2>1
    <3>2. (2 * s) * 0 = 0
      BY <1>3
    <3>. HIDE DEF rounded, s
    <3>. QED
      BY <1>3, <2>0, <3>1, <3>2
  <2>2. CASE d # 0
    <3>. DEFINE r == rounded[i]
                x == d * g[i]
    <3>1. s \in Nat \ {0} /\ r = Rounded(x, s) /\ d \in Nat
      BY <1>3, <2>2
    <3>2. x \in Nat
      <4>1. \A j, k \in Nat : j * k \in Nat
        OBVIOUS
      <4>. QED
        BY ONLY <2>0, <3>1, <4>1
    <3>. HIDE DEF x, rounded, s
    <3>3. r \in Nat /\ 2 * (s * r) <= 2 * x + s /\ 2 * x + s < 2 * (s * r) + 2 * s
      BY ONLY <3>1, <3>2, RoundedHalfUp
    <3>4. s * r \in Int /\ s \in Int
      BY ONLY <3>1, <3>3
    <3>5. 2 * x <= 2 * (s * r) + (s - 1)
      <4>1. \A j, k, m \in Int : 2 * j + m < 2 * k + 2 * m => 2 * j <= 2 * k + (m - 1)
        OBVIOUS
      <4>2. x \in Int /\ s * r \in Int /\ s \in Int /\ 2 * x + s < 2 * (s * r) + 2 * s
        BY ONLY <3>2, <3>3, <3>4
      <4>. QED
        BY ONLY <4>1, <4>2
    <3>6. (2 * d) * g[i] = 2 * x /\ (2 * s) * r = 2 * (s * r)
      BY <2>0, <3>1, <3>3 DEF x
    <3>7. r <= g[i]
      <4>. SUFFICES ASSUME g[i] + 1 <= r PROVE FALSE
        BY <2>0, <3>3
      <4>1. s * ((r - g[i]) - 1) >= 0 /\ (s - d) * g[i] >= 0
        <5>1. s \in Nat /\ (r - g[i]) - 1 \in Nat /\ s - d \in Nat /\ g[i] \in Nat
          <6>1. s \in Nat /\ d \in Nat /\ d <= s /\ r \in Nat /\ g[i] \in Nat /\ g[i] + 1 <= r
            BY <1>3, <2>0, <3>1, <3>3
          <6>. QED
            BY ONLY <6>1
        <5>2. \A j, k \in Nat : j * k >= 0
          OBVIOUS
        <5>. QED
          BY ONLY <5>1, <5>2
      <4>2. s * r - s * g[i] - s >= 0 /\ s * g[i] - x >= 0
        <5>1. s * ((r - g[i]) - 1) = s * r - s * g[i] - s /\ (s - d) * g[i] = s * g[i] - x
          BY <2>0, <3>1, <3>3 DEF x
        <5>. QED
          BY ONLY <4>1, <5>1
      <4>3. s * g[i] \in Int
        BY <2>0, <3>1
      <4>4. \A j, k, m, e \in Int : m > 0 /\ 2 * j <= 2 * e + m /\ e <= k => j - k - m < 0
        OBVIOUS
      <4>5. s * r \in Int /\ x \in Int /\ s \in Int /\ s > 0 /\ x <= s * g[i]
        BY ONLY <3>1, <3>2, <3>4, <4>2, <4>3
      <4>6. s * r - s * g[i] - s < 0
        BY ONLY <3>3, <4>3, <4>4, <4>5
      <4>. QED
        BY ONLY <3>4, <4>2, <4>3, <4>6
    <3>8. (2 * d) * g[i] <= (2 * s) * r + (s - 1)
      BY ONLY <3>5, <3>6
    <3>. QED
      BY <2>0, <3>3, <3>7, <3>8
  <2>. QED
    BY <2>1, <2>2
<1>5. \A i \in low : g[i] <= s
  <2>. SUFFICES ASSUME NEW i \in low PROVE g[i] <= s
    OBVIOUS
  <2>1. \A j \in low : g[j] \in Nat /\ g[j] \in Int
    BY <1>0
  <2>2. /\ SumFunctionOnSet(g, low \ {i}) \in Int
        /\ V = g[i] + SumFunctionOnSet(g, low \ {i})
    <3>. HIDE DEF low
    <3>. QED
      BY <1>2, <2>1, SumLaws
  <2>3. SumFunctionOnSet(g, low \ {i}) \in Nat
    <3>1. IsFiniteSet(low \ {i}) /\ \A j \in low \ {i} : g[j] \in Nat
      BY <1>2, <2>1, FS_Subset
    <3>. QED
      BY ONLY <3>1, SumNatural
  <2>. QED
    BY <1>0, <1>3, <2>1, <2>2, <2>3
<1>6. \A i \in low : sh[i] = rounded[i] /\ rounded[i] \in Nat /\ rounded[i] \in Int /\ rounded[i] <= g[i]
  BY <1>0, <1>4, <1>5
<1>7. A \in Int /\ W = A
  <2>. HIDE DEF sh, rounded, low
  <2>1. A \in Int
    BY <1>2, <1>6, SumLaws
  <2>2. \A i \in low : rounded[i] \in Int /\ rounded[i] = sh[i]
    BY <1>6
  <2>3. W = A
    BY <1>2, <2>2, SumSame
  <2>. QED
    BY <2>1, <2>3
<1>8. sh \in [1 .. n -> Int] /\ sh[n] = d - W
  <2>1. rounded \in [1 .. n -> Int]
    BY <1>4
  <2>2. d - A \in Int
    BY <1>3, <1>7
  <2>. HIDE DEF rounded, A, W
  <2>. QED
    BY <1>0, <1>7, <2>1, <2>2
<1>9. ASSUME d - W > g[n] PROVE 2 * ((d - W) - g[n]) < n - 1
  <2>0. g[n] \in Nat
    BY <1>0
  <2>1. s \in Nat \ {0}
    <3>1. CASE s = 0
      <4>1. \A i \in low : rounded[i] = 0
        BY <1>3, <3>1
      <4>2. A = 0
        <5>. HIDE DEF rounded, low
        <5>. QED
          BY <1>2, <4>1, SumZero
      <4>. QED
        BY <1>3, <1>7, <1>9, <2>0, <3>1, <4>2
    <3>. QED
      BY <1>3, <3>1
  <2>2. (2 * d) * V <= (2 * s) * W + (n - 1) * (s - 1)
    <3>1. \A i \in low : /\ sh[i] \in Int /\ g[i] \in Int
                         /\ (2 * d) * g[i] <= (2 * s) * sh[i] + (s - 1)
      BY <1>0, <1>4, <1>6, <2>1
    <3>2. 2 * d \in Int /\ 2 * s \in Int /\ s - 1 \in Int
      BY <1>3
    <3>. HIDE DEF s, sh, low
    <3>3. (2 * d) * V <= (2 * s) * W + Cardinality(low) * (s - 1)
      BY ONLY <1>2, <3>1, <3>2, SumScaled
    <3>. QED
      BY <1>2, <3>3
  <2>3. V \in 0 .. s /\ d \in 0 .. s /\ n - 1 \in Nat /\ W \in Int /\ g[n] = s - V
    BY <1>3, <1>7, <2>0
  <2>. HIDE DEF s, V, W
  <2>4. d - W > s - V
    BY <1>9, <2>3
  <2>5. 2 * ((d - W) - (s - V)) < n - 1
    BY ONLY <2>1, <2>2, <2>3, <2>4, ExcessIsSmall
  <2>. QED
    BY <2>3, <2>5
<1>10. \A i \in low : sh[i] \in 0 .. g[i]
  BY <1>0, <1>4, <1>6
<1>. HIDE DEF sh, s, V, W, low
<1>11. Shares(g, d) = sh
  BY <1>1
<1>. QED
  BY <1>3, <1>7, <1>8, <1>9, <1>10, <1>11 DEF s, V, W, low

-----------------------------------------------------------------------------
(* Pricing: a bill and its invoice.                                        *)

LEMMA GrantedFits ==
    ASSUME NEW offer \in Offers \cup {NoOffer}, NEW subtotal \in Nat
    PROVE  Granted(offer, subtotal) \in 0 .. subtotal
<1>1. CASE ~ Applies(offer, subtotal)
  BY <1>1 DEF Granted
<1>2. CASE Applies(offer, subtotal)
  <2>1. offer \in [type : {"flat", "percent"}, value : Nat, cap : Nat \cup {NoCap}, minOrder : Nat]
    BY <1>2, PricingAssumption, SMT DEF Applies
  <2>. DEFINE p == Rounded(subtotal * offer.value, Percent)
              asked == CASE offer.type = "flat" -> offer.value
                         [] offer.type = "percent" /\ offer.cap = NoCap -> p
                         [] OTHER -> Least(p, offer.cap)
  <2>2. p \in Int
    <3>1. subtotal * offer.value \in Int /\ Percent \in Nat \ {0}
      BY <2>1, SMT DEF Percent
    <3>. QED
      BY ONLY <3>1, RoundedInteger
  <2>3. asked \in Int
    <3>. HIDE DEF p
    <3>1. CASE offer.type = "flat"
      BY <2>1, <3>1
    <3>2. CASE offer.type = "percent" /\ offer.cap = NoCap
      BY <2>1, <2>2, <3>2
    <3>3. CASE offer.type = "percent" /\ offer.cap # NoCap
      <4>1. offer.cap \in Nat /\ asked = Least(p, offer.cap)
        BY <2>1, <3>3
      <4>. QED
        BY <2>2, <4>1 DEF Least
    <3>. QED
      BY <2>1, <3>1, <3>2, <3>3
  <2>4. Granted(offer, subtotal) = Most(0, Least(asked, subtotal))
    BY <1>2 DEF Granted, Discount
  <2>. HIDE DEF asked
  <2>. QED
    BY <2>3, <2>4 DEF Most, Least
<1>. QED
  BY <1>1, <1>2

\* A line is its total, split into taxable value and tax.
LEMMA LineSplits ==
    ASSUME NEW line \in CartLines, NEW share \in Int, NEW t, t = TaxedLine(line, share)
    PROVE  /\ t.total = Most(0, Gross(line) - share) /\ t.total \in Nat
           /\ t.taxable \in Int /\ t.tax \in Int /\ t.total = t.taxable + t.tax
           /\ t.rate = line.rate /\ t.subtotal = Gross(line) /\ t.discount = share
<1>. DEFINE total == Most(0, Gross(line) - share)
<1>1. line.rate \in Nat /\ line.unit \in Nat /\ line.quantity \in Nat
  <2>1. line \in [unit : Nat, quantity : Nat \ {0}, rate : 0 .. 10000]
    BY PricingAssumption, SMT
  <2>2. line.unit \in Nat /\ line.quantity \in Nat
    BY ONLY <2>1, SMT
  <2>. DEFINE r == line.rate
  <2>3. r \in 0 .. 10000
    BY ONLY <2>1, SMT
  <2>. HIDE DEF r
  <2>4. r \in Nat
    BY ONLY <2>3
  <2>. QED
    BY <2>2, <2>4, Zenon DEF r
<1>2. Gross(line) \in Int
  BY <1>1 DEF Gross
<1>3. total \in Nat
  BY <1>2 DEF Most
<1>. HIDE DEF total
<1>4. Rounded(total * Percent, Percent + line.rate) \in Int
  <2>1. total * Percent \in Int /\ Percent + line.rate \in Nat \ {0}
    BY <1>1, <1>3, SMT DEF Percent
  <2>. QED
    BY ONLY <2>1, RoundedInteger
<1>5. /\ t.total = total /\ t.taxable = Rounded(total * Percent, Percent + line.rate)
      /\ t.tax = total - Rounded(total * Percent, Percent + line.rate)
      /\ t.rate = line.rate /\ t.subtotal = Gross(line) /\ t.discount = share
  BY DEF TaxedLine, total
<1>. QED
  BY <1>3, <1>4, <1>5 DEF total

\* The breakup per rate adds up to the tax and the taxable value of the lines,
\* and the halves of a rate's tax to that tax.
LEMMA BreakupAddsUp ==
    ASSUME NEW n \in Nat \ {0}, NEW lines, DOMAIN lines = 1 .. n, NEW intra \in BOOLEAN,
           \A i \in 1 .. n : lines[i].tax \in Int /\ lines[i].taxable \in Int,
           NEW breakup, breakup = Breakup(lines, intra)
    PROVE  LET tax == SumFunction([i \in DOMAIN lines |-> lines[i].tax])
           IN  /\ Component(breakup, "tax") = tax
               /\ Component(breakup, "taxable") = SumFunction([i \in DOMAIN lines |-> lines[i].taxable])
               /\ Component(breakup, "cgst") + Component(breakup, "sgst") + Component(breakup, "igst") = tax
<1>. DEFINE K == {lines[i].rate : i \in 1 .. n}
            OfRate(r) == {i \in 1 .. n : lines[i].rate = r}
            taxes == [i \in 1 .. n |-> lines[i].tax]
            taxables == [i \in 1 .. n |-> lines[i].taxable]
            T(r) == SumFunctionOnSet(taxes, OfRate(r))
            V(r) == SumFunctionOnSet(taxables, OfRate(r))
            Of(c) == [r \in K |-> breakup[r][c]]
<1>1. DOMAIN breakup = K
  BY DEF Breakup
<1>2. ASSUME NEW r \in K
      PROVE  /\ breakup[r].tax = T(r) /\ breakup[r].taxable = V(r)
             /\ breakup[r].cgst = IF intra THEN Rounded(T(r), 2) ELSE 0
             /\ breakup[r].sgst = IF intra THEN T(r) - Rounded(T(r), 2) ELSE 0
             /\ breakup[r].igst = IF intra THEN 0 ELSE T(r)
  <2>1. TaxOfRate(lines, r) = [taxable |-> V(r), tax |-> T(r)]
    BY DEF TaxOfRate
  <2>2. r \in {lines[i].rate : i \in DOMAIN lines}
    OBVIOUS
  <2>. HIDE DEF T, V, K
  <2>3. breakup[r] = LET bucket == TaxOfRate(lines, r)
                         half == Rounded(bucket.tax, 2)
                     IN  [taxable |-> bucket.taxable, tax |-> bucket.tax,
                          cgst |-> IF intra THEN half ELSE 0,
                          sgst |-> IF intra THEN bucket.tax - half ELSE 0,
                          igst |-> IF intra THEN 0 ELSE bucket.tax]
    BY <2>2, Zenon DEF Breakup
  <2>. QED
    BY <2>1, <2>3
<1>3. IsFiniteSet(1 .. n)
  BY ONLY n \in Nat \ {0}, FS_Interval
<1>4. IsFiniteSet(K)
  <2>. DEFINE key == [i \in 1 .. n |-> lines[i].rate]
  <2>1. K = {key[i] : i \in 1 .. n}
    OBVIOUS
  <2>2. IsFiniteSet({key[i] : i \in 1 .. n})
    BY ONLY <1>3, ImageFinite
  <2>. QED
    BY <2>1, <2>2, Zenon
<1>5. \A i \in 1 .. n : taxes[i] \in Int /\ taxables[i] \in Int
  OBVIOUS
<1>6. ASSUME NEW r \in K PROVE T(r) \in Int /\ V(r) \in Int
  <2>1. OfRate(r) \in SUBSET (1 .. n)
    OBVIOUS
  <2>. HIDE DEF OfRate, taxes, taxables
  <2>2. \A S \in SUBSET (1 .. n) : SumFunctionOnSet(taxes, S) \in Int
    BY ONLY <1>3, <1>5, SumOneMore
  <2>3. \A S \in SUBSET (1 .. n) : SumFunctionOnSet(taxables, S) \in Int
    BY ONLY <1>3, <1>5, SumOneMore
  <2>. QED
    BY <2>1, <2>2, <2>3
<1>7. \A c : Component(breakup, c) = SumFunctionOnSet(Of(c), K)
  BY <1>1 DEF Component, SumFunction
<1>8. /\ SumFunction([i \in DOMAIN lines |-> lines[i].tax]) = SumFunctionOnSet(taxes, 1 .. n)
      /\ SumFunction([i \in DOMAIN lines |-> lines[i].taxable]) = SumFunctionOnSet(taxables, 1 .. n)
  BY DEF SumFunction
<1>9. ASSUME NEW r \in K
      PROVE  /\ Of("tax")[r] = T(r) /\ Of("taxable")[r] = V(r)
             /\ Of("cgst")[r] = breakup[r].cgst /\ Of("sgst")[r] = breakup[r].sgst
             /\ Of("igst")[r] = breakup[r].igst
  <2>. HIDE DEF K, T, V
  <2>. QED
    BY <1>2
<1>. DEFINE key == [i \in 1 .. n |-> lines[i].rate]
            part == [r \in K |-> OfRate(r)]
<1>13. Grouped(1 .. n, K, key, part)
  BY DEF Grouped
<1>14. \A r \in K : part[r] = OfRate(r)
  OBVIOUS
<1>. HIDE DEF key, part
<1>10. SumFunctionOnSet(Of("tax"), K) = SumFunctionOnSet(taxes, 1 .. n)
  <2>. DEFINE byRate == Of("tax")
  <2>1. ASSUME NEW r \in K PROVE byRate[r] = SumFunctionOnSet(taxes, part[r])
    <3>. HIDE DEF OfRate, Of, taxes, K
    <3>. QED
      BY <1>9, <1>14, Zenon
  <2>2. \A i \in 1 .. n : taxes[i] \in Int
    BY <1>5
  <2>. HIDE DEF byRate, taxes, K
  <2>3. SumFunctionOnSet(byRate, K) = SumFunctionOnSet(taxes, 1 .. n)
    BY ONLY <1>3, <1>4, <1>13, <2>1, <2>2, SumByKey
  <2>. QED
    BY ONLY <2>3 DEF byRate
<1>11. SumFunctionOnSet(Of("taxable"), K) = SumFunctionOnSet(taxables, 1 .. n)
  <2>. DEFINE byRate == Of("taxable")
  <2>1. ASSUME NEW r \in K PROVE byRate[r] = SumFunctionOnSet(taxables, part[r])
    <3>. HIDE DEF OfRate, Of, taxables, K
    <3>. QED
      BY <1>9, <1>14, Zenon
  <2>2. \A i \in 1 .. n : taxables[i] \in Int
    BY <1>5
  <2>. HIDE DEF byRate, taxables, K
  <2>3. SumFunctionOnSet(byRate, K) = SumFunctionOnSet(taxables, 1 .. n)
    BY ONLY <1>3, <1>4, <1>13, <2>1, <2>2, SumByKey
  <2>. QED
    BY ONLY <2>3 DEF byRate
<1>12. SumFunctionOnSet(Of("cgst"), K) + SumFunctionOnSet(Of("sgst"), K)
         + SumFunctionOnSet(Of("igst"), K) = SumFunctionOnSet(Of("tax"), K)
  <2>. DEFINE C == Of("cgst")
              G == Of("sgst")
              I == Of("igst")
              X == Of("tax")
              H == [r \in K |-> C[r] + G[r]]
  <2>1. ASSUME NEW r \in K
        PROVE  /\ C[r] \in Int /\ G[r] \in Int /\ I[r] \in Int
               /\ X[r] = (C[r] + G[r]) + I[r]
    <3>. DEFINE tr == T(r)
                hr == Rounded(tr, 2)
    <3>1. tr \in Int
      BY <1>6
    <3>. HIDE DEF tr
    <3>2. hr \in Int
      BY ONLY <3>1, RoundedInteger
    <3>. HIDE DEF hr
    <3>3. /\ C[r] = (IF intra THEN hr ELSE 0) /\ G[r] = (IF intra THEN tr - hr ELSE 0)
          /\ I[r] = (IF intra THEN 0 ELSE tr) /\ X[r] = tr
      <4>. HIDE DEF K, T, Of
      <4>. QED
        BY <1>2, <1>9, Zenon DEF tr, hr
    <3>. HIDE DEF C, G, I, X
    <3>. QED
      BY ONLY <3>1, <3>2, <3>3
  <2>2. \A r \in K : H[r] = C[r] + G[r]
    OBVIOUS
  <2>. HIDE DEF C, G, I, X, H, K
  <2>3. SumFunctionOnSet(H, K) = SumFunctionOnSet(C, K) + SumFunctionOnSet(G, K)
    BY ONLY <1>4, <2>1, <2>2, SumPlus
  <2>4. \A r \in K : H[r] \in Int /\ I[r] \in Int /\ X[r] = H[r] + I[r]
    BY <2>1, <2>2
  <2>5. SumFunctionOnSet(X, K) = SumFunctionOnSet(H, K) + SumFunctionOnSet(I, K)
    BY ONLY <1>4, <2>4, SumPlus
  <2>. QED
    BY ONLY <2>3, <2>5 DEF C, G, I, X
<1>. HIDE DEF K, Of, taxes, taxables
<1>. QED
  BY <1>7, <1>8, <1>10, <1>11, <1>12

\* Totals of lines that take their shares of a discount: all that is paid for the
\* goods, or a little more where the last line is worth less than its share.
LEMMA TotalsAddUp ==
    ASSUME NEW n \in Nat \ {0}, NEW g \in [1 .. n -> Nat], NEW d \in 0 .. SumFunction(g),
           NEW share, share = Shares(g, d), NEW totals, DOMAIN totals = 1 .. n,
           \A i \in 1 .. n : totals[i] = Most(0, g[i] - share[i])
    PROVE  /\ SumFunction(totals) >= SumFunction(g) - d
           /\ SumFunction(totals) > SumFunction(g) - d =>
                 /\ totals[n] = 0
                 /\ 2 * (SumFunction(totals) - (SumFunction(g) - d)) < n - 1
<1>. DEFINE low == 1 .. n - 1
            V == SumFunctionOnSet(g, low)
            W == SumFunctionOnSet(share, low)
            R == SumFunctionOnSet(totals, low)
            s == SumFunction(g)
<1>1. /\ share \in [1 .. n -> Int]
      /\ \A i \in low : share[i] \in 0 .. g[i]
      /\ V \in Nat /\ W \in Int /\ share[n] = d - W
      /\ s = g[n] + V
      /\ d - W > g[n] => 2 * ((d - W) - g[n]) < n - 1
  BY SharesFit
<1>2. IsFiniteSet(low) /\ n \in 1 .. n /\ \A i \in low : i \in 1 .. n
  <2>1. 1 \in Int /\ n - 1 \in Int
    OBVIOUS
  <2>2. \A m \in Int : IsFiniteSet(1 .. m)
    BY ONLY FS_Interval, 1 \in Int
  <2>. QED
    BY <2>1, <2>2
<1>3. \A i \in 1 .. n : totals[i] \in Int /\ g[i] \in Nat /\ share[i] \in Int
  BY <1>1 DEF Most
<1>4. ASSUME NEW i \in low
      PROVE  totals[i] \in Int /\ share[i] \in Int /\ g[i] = totals[i] + share[i]
  <2>1. i \in 1 .. n
    BY <1>2
  <2>2. totals[i] = Most(0, g[i] - share[i]) /\ g[i] \in Nat /\ share[i] \in 0 .. g[i]
    BY <1>1, <1>3, <2>1
  <2>. QED
    BY ONLY <2>2 DEF Most
<1>5. SumFunction(totals) = totals[n] + R /\ R \in Int
  BY <1>3, SumButLast
<1>6. V = R + W
  <2>. HIDE DEF low
  <2>. QED
    BY ONLY <1>2, <1>4, SumPlus
<1>7. totals[n] = Most(0, g[n] - share[n]) /\ g[n] \in Nat /\ d \in Int
  <2>1. s \in Int
    BY <1>1, <1>2, <1>3
  <2>. QED
    BY <1>2, <1>3, <2>1
<1>. HIDE DEF low, V, W, R, s
<1>8. CASE d - W <= g[n]
  <2>1. totals[n] = g[n] - (d - W)
    BY <1>1, <1>7, <1>8 DEF Most
  <2>2. totals[n] + R = s - d
    BY <1>1, <1>5, <1>6, <1>7, <2>1
  <2>3. s - d \in Int
    BY <1>1, <1>7
  <2>. QED
    BY <1>5, <2>2, <2>3 DEF s
<1>9. CASE d - W > g[n]
  <2>1. totals[n] = 0
    BY <1>1, <1>7, <1>9 DEF Most
  <2>2. (totals[n] + R) - (s - d) = (d - W) - g[n]
    BY <1>1, <1>5, <1>6, <1>7, <2>1
  <2>3. d \in Int /\ W \in Int /\ g[n] \in Int /\ s \in Int /\ totals[n] \in Int /\ R \in Int
    BY <1>1, <1>5, <1>7, <2>1
  <2>4. 2 * ((d - W) - g[n]) < n - 1
    BY <1>1, <1>9
  <2>5. totals[n] + R > s - d
    BY ONLY <1>9, <2>2, <2>3
  <2>6. 2 * ((totals[n] + R) - (s - d)) < n - 1
    BY <2>2, <2>4
  <2>. QED
    BY <1>5, <2>1, <2>3, <2>5, <2>6 DEF s
<1>10. d - W <= g[n] \/ d - W > g[n]
  BY <1>1, <1>7
<1>. QED
  BY <1>8, <1>9, <1>10

\* What price_cart returns, before and after it is frozen.
IsBill(b) ==
    \E n \in 1 .. MaxLines, offer \in Offers \cup {NoOffer}, freight \in Freight, state \in BuyerStates :
        \E cart \in [1 .. n -> CartLines] : b = Priced(cart, offer, freight, state)

LEMMA BillAddsUp ==
    ASSUME NEW b, IsBill(b)
    PROVE  LET totals == SumFunction([i \in DOMAIN b.lines |-> b.lines[i].total])
               goods == b.total - b.freight
               v == InvoiceOf(b)
           IN  /\ b.taxable + b.tax = totals
               /\ b.tax = Component(b.breakup, "tax")
               /\ b.taxable = Component(b.breakup, "taxable")
               /\ totals - goods >= 0
               /\ totals - goods > 0 =>
                     Last(b.lines).total = 0 /\ 2 * (totals - goods) < Len(b.lines) - 1
               /\ v.taxTotal = b.tax /\ v.taxable = (b.taxable + b.tax) - (totals - goods)
               /\ b.total \in Nat /\ b.discount \in 0 .. b.subtotal
<1>. PICK n \in 1 .. MaxLines, offer \in Offers \cup {NoOffer}, freight \in Freight,
          state \in BuyerStates :
              \E cart \in [1 .. n -> CartLines] : b = Priced(cart, offer, freight, state)
  BY Zenon DEF IsBill
<1>. PICK cart \in [1 .. n -> CartLines] : b = Priced(cart, offer, freight, state)
  OBVIOUS
<1>. DEFINE gross == [i \in 1 .. n |-> Gross(cart[i])]
            share == Shares(gross, b.discount)
            lines == b.lines
            totals == [i \in DOMAIN lines |-> lines[i].total]
            taxes == [i \in DOMAIN lines |-> lines[i].tax]
            taxables == [i \in DOMAIN lines |-> lines[i].taxable]
<1>1. /\ n \in Nat \ {0} /\ gross \in [1 .. n -> Nat]
      /\ b.subtotal = SumFunction(gross) /\ b.subtotal \in Nat
      /\ b.discount \in 0 .. b.subtotal
      /\ lines = [i \in 1 .. n |-> TaxedLine(cart[i], share[i])]
      /\ b.taxable = SumFunction(taxables)
      /\ b.tax = SumFunction(taxes)
      /\ b.breakup = Breakup(lines, b.intra) /\ b.intra \in BOOLEAN
      /\ b.freight \in Nat /\ b.total = b.subtotal - b.discount + b.freight
  <2>0. n \in Nat \ {0} /\ DOMAIN cart = 1 .. n
    BY PricingAssumption, SMT
  <2>1. gross \in [1 .. n -> Nat]
    <3>1. ASSUME NEW i \in 1 .. n PROVE Gross(cart[i]) \in Nat
      <4>1. cart[i].unit \in Nat /\ cart[i].quantity \in Nat
        BY PricingAssumption, SMT
      <4>2. \A j, k \in Nat : j * k \in Nat
        OBVIOUS
      <4>. QED
        BY ONLY <4>1, <4>2 DEF Gross
    <3>. QED
      BY <3>1
  <2>2. b.subtotal = SumFunction(gross) /\ b.discount = Granted(offer, SumFunction(gross))
    BY <2>0 DEF Priced
  <2>3. SumFunction(gross) \in Nat
    <3>0. IsFiniteSet(1 .. n)
      BY ONLY <2>0, FS_Interval
    <3>1. IsFiniteSet(1 .. n) /\ DOMAIN gross = 1 .. n /\ \A i \in 1 .. n : gross[i] \in Nat
      BY <2>0, <2>1, <3>0
    <3>. HIDE DEF gross
    <3>2. SumFunctionOnSet(gross, 1 .. n) \in Nat
      BY ONLY <3>1, SumNatural
    <3>. QED
      BY <3>1, <3>2 DEF SumFunction
  <2>4. b.discount \in 0 .. b.subtotal
    BY <2>2, <2>3, GrantedFits
  <2>5. lines = [i \in 1 .. n |-> TaxedLine(cart[i], share[i])]
    BY <2>0 DEF Priced
  <2>6. /\ b.taxable = SumFunction(taxables)
        /\ b.tax = SumFunction(taxes)
    BY DEF Priced
  <2>7. b.breakup = Breakup(lines, b.intra) /\ b.intra \in BOOLEAN
    BY DEF Priced, IsIntraState
  <2>8. b.freight \in Nat /\ b.total = b.subtotal - b.discount + b.freight
    <3>1. freight \in Nat
      BY PricingAssumption, SMT
    <3>2. b.freight = freight /\ b.total = b.subtotal - b.discount + freight
      BY DEF Priced
    <3>. QED
      BY ONLY <3>1, <3>2
  <2>. HIDE DEF gross, lines, taxes, taxables
  <2>. QED
    BY <2>0, <2>1, <2>2, <2>3, <2>4, <2>5, <2>6, <2>7, <2>8
<1>2. DOMAIN lines = 1 .. n /\ \A i \in 1 .. n : lines[i] = TaxedLine(cart[i], share[i])
  <2>. HIDE DEF share
  <2>. QED
    BY <1>1
<1>3. share \in [1 .. n -> Int]
  <2>. HIDE DEF gross
  <2>. QED
    BY <1>1, SharesFit
<1>4. ASSUME NEW i \in 1 .. n
      PROVE  /\ lines[i].total = Most(0, gross[i] - share[i]) /\ lines[i].total \in Nat
             /\ lines[i].taxable \in Int /\ lines[i].tax \in Int
             /\ lines[i].total = lines[i].taxable + lines[i].tax
  <2>1. cart[i] \in CartLines /\ share[i] \in Int /\ gross[i] = Gross(cart[i])
    BY <1>3
  <2>. HIDE DEF share, gross, lines
  <2>2. lines[i] = TaxedLine(cart[i], share[i])
    BY <1>2
  <2>. QED
    BY ONLY <2>1, <2>2, LineSplits
<1>. HIDE DEF share, lines
<1>5. /\ DOMAIN totals = 1 .. n /\ DOMAIN taxes = 1 .. n /\ DOMAIN taxables = 1 .. n
      /\ \A i \in 1 .. n : /\ totals[i] = lines[i].total /\ taxes[i] = lines[i].tax
                           /\ taxables[i] = lines[i].taxable
  BY <1>2
<1>6. SumFunction(totals) = SumFunction(taxables) + SumFunction(taxes)
  <2>1. IsFiniteSet(1 .. n)
    BY ONLY <1>1, FS_Interval
  <2>2. \A i \in 1 .. n : taxables[i] \in Int /\ taxes[i] \in Int /\ totals[i] = taxables[i] + taxes[i]
    BY <1>4, <1>5
  <2>. HIDE DEF totals, taxes, taxables
  <2>3. SumFunctionOnSet(totals, 1 .. n)
          = SumFunctionOnSet(taxables, 1 .. n) + SumFunctionOnSet(taxes, 1 .. n)
    BY ONLY <2>1, <2>2, SumPlus
  <2>. QED
    BY <1>5, <2>3 DEF SumFunction
<1>7. /\ SumFunction(totals) >= SumFunction(gross) - b.discount
      /\ SumFunction(totals) > SumFunction(gross) - b.discount =>
            /\ totals[n] = 0
            /\ 2 * (SumFunction(totals) - (SumFunction(gross) - b.discount)) < n - 1
  <2>1. \A i \in 1 .. n : totals[i] = Most(0, gross[i] - share[i])
    BY <1>4, <1>5
  <2>2. DOMAIN totals = 1 .. n /\ b.discount \in 0 .. SumFunction(gross) /\ share = Shares(gross, b.discount)
    BY <1>1, <1>5 DEF share
  <2>. HIDE DEF gross, totals
  <2>. QED
    BY ONLY <1>1, <2>1, <2>2, TotalsAddUp
<1>8. /\ Component(b.breakup, "tax") = SumFunction(taxes)
      /\ Component(b.breakup, "taxable") = SumFunction(taxables)
      /\ Component(b.breakup, "cgst") + Component(b.breakup, "sgst") + Component(b.breakup, "igst")
           = SumFunction(taxes)
  <2>1. \A i \in 1 .. n : lines[i].tax \in Int /\ lines[i].taxable \in Int
    BY <1>4
  <2>2. /\ n \in Nat \ {0} /\ DOMAIN lines = 1 .. n /\ b.intra \in BOOLEAN
        /\ b.breakup = Breakup(lines, b.intra)
    BY <1>1, <1>2
  <2>. QED
    BY ONLY <2>1, <2>2, BreakupAddsUp
<1>9. b.total - b.freight = SumFunction(gross) - b.discount /\ b.total \in Nat
  BY <1>1
<1>10. Len(lines) = n /\ Last(lines).total = totals[n]
  <2>. DEFINE X == {lines[i] : i \in 1 .. n}
  <2>0. lines \in [1 .. n -> X]
    <3>1. lines = [i \in 1 .. n |-> lines[i]]
      BY <1>1, <1>2
    <3>. QED
      BY ONLY <3>1
  <2>. HIDE DEF X
  <2>1. lines \in Seq(X)
    <3>1. n \in Nat
      BY <1>1
    <3>. QED
      BY ONLY <2>0, <3>1, SeqDef
  <2>2. DOMAIN lines = 1 .. Len(lines) /\ Len(lines) \in Nat
    BY <2>1, LenProperties
  <2>3. Len(lines) = n
    BY <1>1, <1>2, <2>2
  <2>. QED
    BY <1>1, <1>5, <2>3 DEF Last
<1>11. LET v == InvoiceOf(b)
       IN  /\ v.taxTotal = Component(b.breakup, "cgst") + Component(b.breakup, "sgst")
                              + Component(b.breakup, "igst")
           /\ v.taxable = b.subtotal - b.discount
  BY DEF InvoiceOf
<1>. HIDE DEF totals, taxes, taxables, gross
<1>12. /\ b.taxable + b.tax = SumFunction(totals)
       /\ b.tax = Component(b.breakup, "tax") /\ b.taxable = Component(b.breakup, "taxable")
  BY <1>1, <1>6, <1>8
<1>13. SumFunction(totals) \in Nat /\ SumFunction(gross) \in Nat /\ b.discount \in Nat
  <2>0. IsFiniteSet(1 .. n)
    BY ONLY <1>1, FS_Interval
  <2>1. IsFiniteSet(1 .. n) /\ DOMAIN totals = 1 .. n /\ \A i \in 1 .. n : totals[i] \in Nat
    BY <1>4, <1>5, <2>0
  <2>2. SumFunctionOnSet(totals, 1 .. n) \in Nat
    BY ONLY <2>1, SumNatural
  <2>. QED
    BY <1>1, <2>1, <2>2 DEF SumFunction
<1>14. /\ SumFunction(totals) - (b.total - b.freight) >= 0
       /\ SumFunction(totals) - (b.total - b.freight) > 0 =>
             Last(lines).total = 0 /\ 2 * (SumFunction(totals) - (b.total - b.freight)) < Len(lines) - 1
  <2>1. b.total - b.freight \in Int
    BY <1>13, <1>9
  <2>. QED
    BY <1>13, <1>7, <1>9, <1>10, <2>1
<1>15. /\ InvoiceOf(b).taxTotal = b.tax
       /\ InvoiceOf(b).taxable = (b.taxable + b.tax) - (SumFunction(totals) - (b.total - b.freight))
  <2>1. InvoiceOf(b).taxTotal = b.tax /\ InvoiceOf(b).taxable = SumFunction(gross) - b.discount
    BY <1>1, <1>8, <1>11
  <2>2. \A x, y \in Nat, z \in Int : x - (x - z) = z
    OBVIOUS
  <2>3. b.total - b.freight \in Int /\ SumFunction(totals) \in Nat
    BY <1>9, <1>13
  <2>4. SumFunction(totals) - (SumFunction(totals) - (b.total - b.freight)) = b.total - b.freight
    BY ONLY <2>2, <2>3
  <2>5. InvoiceOf(b).taxable = b.total - b.freight
    BY ONLY <1>9, <2>1, Zenon
  <2>6. InvoiceOf(b).taxable = SumFunction(totals) - (SumFunction(totals) - (b.total - b.freight))
    BY ONLY <2>4, <2>5, Zenon
  <2>7. b.taxable + b.tax = SumFunction(totals)
    BY ONLY <1>12
  <2>8. InvoiceOf(b).taxable = (b.taxable + b.tax) - (SumFunction(totals) - (b.total - b.freight))
    BY ONLY <2>6, <2>7, Zenon
  <2>. QED
    BY ONLY <2>1, <2>8
<1>. QED
  BY <1>1, <1>9, <1>12, <1>14, <1>15 DEF totals, lines

PricingInv ==
    /\ bill # << >> => IsBill(bill)
    /\ invoice # << >> => bill # << >> /\ invoice = InvoiceOf(bill)

LEMMA PricingInvariant == PricingSpec => []PricingInv
<1>1. PricingInit => PricingInv
  BY DEF PricingInit, PricingInv
<1>2. PricingInv /\ [PricingNext]_pricingVars => PricingInv'
  <2>. SUFFICES ASSUME PricingInv, [PricingNext]_pricingVars PROVE PricingInv'
    OBVIOUS
  <2>1. CASE PriceCart
    <3>1. bill = << >> /\ invoice = << >> /\ invoice' = invoice
      BY <2>1 DEF PriceCart, PricingInv
    <3>2. IsBill(bill')
      BY <2>1, Zenon DEF PriceCart, IsBill
    <3>. QED
      BY <3>1, <3>2 DEF PricingInv, IsBill
  <2>2. CASE DrawInvoice
    BY <2>2 DEF DrawInvoice, PricingInv, IsBill
  <2>3. CASE WriteTotal
    BY <2>3 DEF WriteTotal, PricingInv, IsBill
  <2>4. CASE UNCHANGED pricingVars
    BY <2>4 DEF pricingVars, PricingInv, IsBill
  <2>. QED
    BY <2>1, <2>2, <2>3, <2>4 DEF PricingNext
<1>. QED
  BY <1>1, <1>2, PTL DEF PricingSpec

\* price_cart, build_tax_breakup, build_invoice_data: for carts of any length, any
\* prices, rates and offers, the lines, the breakup and the invoice of a bill agree
\* to the paisa, but for the remainder a last line worth less cannot absorb.
THEOREM BillsAddUp == PricingSpec => []ChargesAddUp
<1>1. PricingInv => ChargesAddUp
  <2>. SUFFICES ASSUME PricingInv, bill # << >> PROVE ChargesAddUp
    BY DEF ChargesAddUp
  <2>1. IsBill(bill) /\ (invoice # << >> => invoice = InvoiceOf(bill))
    BY DEF PricingInv
  <2>. QED
    BY <2>1, BillAddsUp, Zenon DEF ChargesAddUp, Excess, LinesTotal, GoodsTotal
<1>. QED
  BY <1>1, PricingInvariant, PTL

LEMMA PricingTyped == PricingSpec => []PricingTypeOK
<1>1. PricingInv => PricingTypeOK
  <2>. SUFFICES ASSUME PricingInv PROVE PricingTypeOK
    OBVIOUS
  <2>1. bill # << >> => bill.total \in Nat /\ bill.discount \in 0 .. bill.subtotal
    BY BillAddsUp, Zenon DEF PricingInv
  <2>. QED
    BY <2>1 DEF PricingInv, PricingTypeOK
<1>. QED
  BY <1>1, PricingInvariant, PTL

-----------------------------------------------------------------------------
(* Pricing: reading an amount in words.                                    *)

\* The maximum of some indices is one of them.
LEMMA MaxOfSome ==
    ASSUME NEW n \in Nat, NEW S \in SUBSET (1 .. n), S # {}
    PROVE  Max(S) \in S /\ \A i \in S : Max(S) >= i
<1>. DEFINE D == {n - i : i \in S}
<1>1. D \in SUBSET Nat /\ D # {}
  <2>1. \A i \in S : i \in 1 .. n
    OBVIOUS
  <2>2. \A i \in S : n - i \in Nat
    BY <2>1
  <2>. QED
    BY ONLY <2>2, S # {}
<1>2. PICK d \in D : \A e \in D : d <= e
  <2>. HIDE DEF D
  <2>. QED
    BY <1>1, LeastNatural
<1>3. PICK m \in S : d = n - m
  OBVIOUS
<1>4. \A i \in S : m >= i
  <2>. SUFFICES ASSUME NEW i \in S PROVE m >= i
    OBVIOUS
  <2>1. n - m <= n - i
    BY <1>2, <1>3
  <2>. QED
    BY <2>1
<1>. QED
  BY <1>4, Zenon DEF Max

\* The last index of an interval is its maximum.
LEMMA MaxOfInterval ==
    ASSUME NEW i \in Nat \ {0}
    PROVE  Max(1 .. i) = i /\ (1 .. i) \ {Max(1 .. i)} = 1 .. i - 1 /\ 1 .. i # {}
<1>1. i \in 1 .. i /\ 1 .. i \in SUBSET (1 .. i) /\ 1 .. i # {} /\ i \in Nat
  OBVIOUS
<1>2. Max(1 .. i) \in 1 .. i /\ Max(1 .. i) >= i
  BY <1>1, MaxOfSome
<1>3. Max(1 .. i) = i
  BY <1>2
<1>4. (1 .. i) \ {i} = 1 .. i - 1
  OBVIOUS
<1>. QED
  BY <1>1, <1>3, <1>4

Reading == [sum : Int, part : Int]
Read(r, s) == FoldLeft(ReadWord, r, s)

\* A reader keeps two integers.
LEMMA ReadWordType ==
    ASSUME NEW r \in Reading, NEW w \in Int
    PROVE  ReadWord(r, w) \in Reading
<1>1. r.part * w \in Int /\ r.sum \in Int /\ r.part \in Int
  BY DEF Reading
<1>2. r.part * 100 \in Int /\ r.part + w \in Int /\ r.sum + r.part * w \in Int
  BY <1>1
<1>3. /\ [r EXCEPT !.part = @ * 100] \in Reading
      /\ [r EXCEPT !.part = @ + w] \in Reading
      /\ [sum |-> r.sum + r.part * w, part |-> 0] \in Reading
  BY <1>2 DEF Reading
<1>. QED
  BY <1>3, SMT DEF ReadWord

\* A fold from the left goes word by word.
LEMMA ReadSteps ==
    ASSUME NEW s \in Seq(Int), NEW r \in Reading
    PROVE  \E f \in [0 .. Len(s) -> Reading] :
              /\ f[0] = r /\ \A i \in 1 .. Len(s) : f[i] = ReadWord(f[i - 1], s[i])
              /\ f[Len(s)] = Read(r, s)
<1>. DEFINE n == Len(s)
            S == 1 .. n
            pick == [t \in SUBSET S |-> Max(t)]
            step == [i \in S |-> [v \in Reading |-> ReadWord(v, s[i])]]
            Iter(g) == [t \in SUBSET S |->
                          IF t = {} THEN r ELSE LET x == Max(t) IN ReadWord(g[t \ {x}], s[x])]
<1>1. n \in Nat /\ DOMAIN s = S /\ \A i \in S : s[i] \in Int
  BY LenProperties
<1>2. IsFiniteSet(S)
  BY ONLY <1>1, FS_Interval
<1>3. \A t \in SUBSET S : t # {} => Max(t) \in t /\ Max(t) \in S
  <2>. HIDE DEF n
  <2>. QED
    BY <1>1, MaxOfSome
<1>4. Picks(pick, S)
  BY <1>3 DEF Picks
<1>5. step \in [S -> [Reading -> Reading]]
  BY <1>1, ReadWordType
<1>6. PICK g \in [SUBSET S -> Reading] : FoldsBy(g, S, r, pick, step)
  <2>. HIDE DEF pick, step, S
  <2>1. r \in Reading
    OBVIOUS
  <2>. QED
    BY ONLY <1>2, <1>4, <1>5, <2>1, FoldExists
<1>7. ASSUME NEW t \in SUBSET S
      PROVE  g[t] = IF t = {} THEN r ELSE ReadWord(g[t \ {Max(t)}], s[Max(t)])
  <2>1. CASE t = {}
    BY <1>6, <2>1 DEF FoldsBy
  <2>2. CASE t # {}
    <3>1. pick[t] = Max(t) /\ Max(t) \in S /\ t \ {Max(t)} \in SUBSET S
      BY <1>3, <2>2
    <3>2. g[t] = step[pick[t]][g[t \ {pick[t]}]]
      BY <1>6, <2>2 DEF FoldsBy
    <3>3. g[t \ {Max(t)}] \in Reading
      BY <3>1
    <3>4. step[Max(t)][g[t \ {Max(t)}]] = ReadWord(g[t \ {Max(t)}], s[Max(t)])
      BY <3>1, <3>3
    <3>. QED
      BY <2>2, <3>1, <3>2, <3>4
  <2>. QED
    BY <2>1, <2>2
<1>8. g = Iter(g)
  <2>1. \A t \in SUBSET S : g[t] = Iter(g)[t]
    BY <1>7
  <2>. QED
    BY <2>1
<1>. DEFINE c == CHOOSE h : h = Iter(h)
<1>9. c = Iter(c)
  BY <1>8
<1>10. Read(r, s) = c[S]
  BY <1>1 DEF Read, FoldLeft, MapThenFoldSet
<1>. HIDE DEF c, pick, step
<1>11. c[{}] = r /\ \A t \in SUBSET S : t # {} => c[t] = ReadWord(c[t \ {Max(t)}], s[Max(t)])
  BY <1>9
<1>. HIDE DEF Iter
<1>. DEFINE f == [i \in 0 .. n |-> c[1 .. i]]
<1>12. f[0] = r
  <2>1. 0 \in 0 .. n /\ 1 .. 0 = {}
    BY <1>1
  <2>. QED
    BY <1>11, <2>1
<1>13. ASSUME NEW i \in 1 .. n PROVE f[i] = ReadWord(f[i - 1], s[i])
  <2>1. i \in Nat \ {0} /\ i \in 0 .. n /\ i - 1 \in 0 .. n /\ 1 .. i \in SUBSET S
    BY <1>1
  <2>2. Max(1 .. i) = i /\ (1 .. i) \ {Max(1 .. i)} = 1 .. i - 1 /\ 1 .. i # {}
    BY <2>1, MaxOfInterval
  <2>3. c[1 .. i] = ReadWord(c[(1 .. i) \ {Max(1 .. i)}], s[Max(1 .. i)])
    BY <1>11, <2>1, <2>2
  <2>4. c[1 .. i] = ReadWord(c[1 .. i - 1], s[i])
    BY <2>2, <2>3
  <2>. QED
    BY <2>1, <2>4
<1>14. \A i \in 0 .. n : f[i] \in Reading
  <2>. DEFINE P == {i \in Nat : i <= n => f[i] \in Reading}
  <2>1. 0 \in P
    BY <1>12
  <2>2. ASSUME NEW i \in Nat, i \in P PROVE i + 1 \in P
    <3>. SUFFICES ASSUME i + 1 <= n PROVE f[i + 1] \in Reading
      OBVIOUS
    <3>1. i + 1 \in 1 .. n /\ (i + 1) - 1 = i /\ i <= n
      BY <1>1
    <3>. HIDE DEF f
    <3>2. f[i + 1] = ReadWord(f[i], s[i + 1])
      BY <1>13, <3>1
    <3>3. f[i] \in Reading /\ s[i + 1] \in Int
      BY <1>1, <2>2, <3>1
    <3>. QED
      BY <3>2, <3>3, ReadWordType
  <2>3. \A i \in Nat : i \in P
    <3>. HIDE DEF P
    <3>. QED
      BY <2>1, <2>2, ByInduction
  <2>4. \A i \in 0 .. n : i \in Nat /\ i <= n
    BY <1>1
  <2>. HIDE DEF f, n
  <2>. QED
    BY <2>3, <2>4
<1>15. f \in [0 .. n -> Reading] /\ f[n] = Read(r, s)
  <2>1. n \in 0 .. n
    BY <1>1
  <2>2. f = [i \in 0 .. n |-> f[i]]
    OBVIOUS
  <2>3. f[n] = c[S]
    BY <2>1
  <2>. HIDE DEF f
  <2>. QED
    BY <1>10, <1>14, <2>2, <2>3
<1>. HIDE DEF f
<1>. QED
  BY <1>12, <1>13, <1>15

\* Nothing read changes nothing.
LEMMA ReadEmpty ==
    ASSUME NEW r \in Reading
    PROVE  Read(r, << >>) = r
<1>1. << >> \in Seq(Int) /\ Len(<< >>) = 0
  BY EmptySeq
<1>. QED
  BY <1>1, ReadSteps

\* A text of one word.
LEMMA ReadOne ==
    ASSUME NEW r \in Reading, NEW w \in Int
    PROVE  Read(r, << w >>) = ReadWord(r, w)
<1>1. << w >> \in Seq(Int) /\ Len(<< w >>) = 1 /\ << w >>[1] = w /\ 1 \in 1 .. 1 /\ 1 - 1 = 0
  OBVIOUS
<1>2. PICK f \in [0 .. 1 -> Reading] :
          f[0] = r /\ (\A i \in 1 .. 1 : f[i] = ReadWord(f[i - 1], << w >>[i])) /\ f[1] = Read(r, << w >>)
  BY <1>1, ReadSteps
<1>3. f[1] = ReadWord(f[1 - 1], << w >>[1])
  BY <1>1, <1>2
<1>. QED
  BY <1>1, <1>2, <1>3

\* A longer text is read on from where the shorter one ended.
LEMMA ReadOn ==
    ASSUME NEW s \in Seq(Int), NEW t \in Seq(Int), NEW r \in Reading
    PROVE  /\ Read(r, s) \in Reading
           /\ Read(r, s \o t) = Read(Read(r, s), t)
<1>. DEFINE m == Len(s)
            n == Len(t)
            u == s \o t
            q == Read(r, s)
<1>1. /\ m \in Nat /\ n \in Nat /\ u \in Seq(Int) /\ Len(u) = m + n
      /\ \A i \in 1 .. m + n : u[i] = IF i <= m THEN s[i] ELSE t[i - m]
  BY ConcatProperties, LenProperties
<1>2. PICK f \in [0 .. m -> Reading] :
          f[0] = r /\ (\A i \in 1 .. m : f[i] = ReadWord(f[i - 1], s[i])) /\ f[m] = q
  BY ReadSteps
<1>3. q \in Reading
  <2>1. m \in 0 .. m
    BY <1>1
  <2>. QED
    BY <1>2, <2>1
<1>. HIDE DEF m, n, q, u
<1>4. PICK g \in [0 .. n -> Reading] :
          g[0] = q /\ (\A i \in 1 .. n : g[i] = ReadWord(g[i - 1], t[i])) /\ g[n] = Read(q, t)
  BY <1>3, ReadSteps DEF n
<1>5. PICK h \in [0 .. m + n -> Reading] :
          /\ h[0] = r /\ \A i \in 1 .. m + n : h[i] = ReadWord(h[i - 1], u[i])
          /\ h[m + n] = Read(r, u)
  <2>1. r \in Reading
    OBVIOUS
  <2>. DEFINE k == Len(u)
  <2>2. \E h \in [0 .. k -> Reading] :
          /\ h[0] = r /\ \A i \in 1 .. k : h[i] = ReadWord(h[i - 1], u[i])
          /\ h[k] = Read(r, u)
    BY ONLY <1>1, <2>1, ReadSteps
  <2>3. k = m + n
    BY <1>1
  <2>. HIDE DEF k
  <2>. QED
    BY <2>2, <2>3
<1>6. \A i \in Nat : i <= m => h[i] = f[i]
  <2>. DEFINE P == {i \in Nat : i <= m => h[i] = f[i]}
  <2>1. 0 \in P
    BY <1>2, <1>5
  <2>2. ASSUME NEW i \in Nat, i \in P PROVE i + 1 \in P
    <3>. SUFFICES ASSUME i + 1 <= m PROVE h[i + 1] = f[i + 1]
      OBVIOUS
    <3>1. i + 1 \in 1 .. m /\ i + 1 \in 1 .. m + n /\ (i + 1) - 1 = i /\ i <= m
      BY <1>1
    <3>2. h[i + 1] = ReadWord(h[i], u[i + 1]) /\ f[i + 1] = ReadWord(f[i], s[i + 1])
      BY <1>2, <1>5, <3>1
    <3>3. u[i + 1] = s[i + 1] /\ h[i] = f[i]
      BY <1>1, <2>2, <3>1
    <3>. QED
      BY <3>2, <3>3
  <2>3. \A i \in Nat : i \in P
    <3>. HIDE DEF P
    <3>. QED
      BY <2>1, <2>2, ByInduction
  <2>. QED
    BY <2>3
<1>7. \A i \in Nat : i <= n => h[m + i] = g[i]
  <2>. DEFINE P == {i \in Nat : i <= n => h[m + i] = g[i]}
  <2>1. 0 \in P
    BY <1>1, <1>2, <1>4, <1>6
  <2>2. ASSUME NEW i \in Nat, i \in P PROVE i + 1 \in P
    <3>. SUFFICES ASSUME i + 1 <= n PROVE h[m + (i + 1)] = g[i + 1]
      OBVIOUS
    <3>. DEFINE j == m + (i + 1)
    <3>1. i + 1 \in 1 .. n /\ j \in 1 .. m + n /\ (i + 1) - 1 = i /\ i <= n
          /\ j - 1 = m + i /\ ~ (j <= m) /\ j - m = i + 1
      BY <1>1
    <3>. HIDE DEF j
    <3>2. h[j] = ReadWord(h[j - 1], u[j]) /\ g[i + 1] = ReadWord(g[(i + 1) - 1], t[i + 1])
      BY <1>4, <1>5, <3>1
    <3>3. u[j] = t[i + 1]
      BY <1>1, <3>1
    <3>4. h[m + i] = g[i]
      BY <2>2, <3>1
    <3>5. h[j] = g[i + 1]
      BY <3>1, <3>2, <3>3, <3>4
    <3>. QED
      BY <3>5 DEF j
  <2>3. \A i \in Nat : i \in P
    <3>. HIDE DEF P
    <3>. QED
      BY <2>1, <2>2, ByInduction
  <2>. QED
    BY <2>3
<1>8. h[m + n] = g[n]
  BY <1>1, <1>7
<1>. QED
  BY <1>3, <1>4, <1>5, <1>8 DEF q, u

Mark(x, p) == [sum |-> x, part |-> p]
Word == Nat \cup {And}

\* Words stand for themselves as integers.
LEMMA WordsAreIntegers ==
    /\ \A s \in Seq(Word) : s \in Seq(Int)
    /\ \A s \in Seq(Nat) : s \in Seq(Word)
<1>1. Word \subseteq Int /\ Nat \subseteq Word
  BY DEF Word, And
<1>. QED
  BY <1>1, SeqMonotonic

\* One word read.
LEMMA WordRead ==
    ASSUME NEW x \in Int, NEW p \in Int
    PROVE  /\ Mark(x, p) \in Reading
           /\ \A w \in 0 .. 99 : Read(Mark(x, p), << w >>) = Mark(x, p + w)
           /\ Read(Mark(x, p), << Hundred >>) = Mark(x, p * 100)
           /\ Read(Mark(x, p), << And >>) = Mark(x, p)
           /\ \A k \in {Thousand, Lakh, Crore} : Read(Mark(x, p), << k >>) = Mark(x + p * k, 0)
<1>1. Mark(x, p) \in Reading
  BY DEF Mark, Reading
<1>2. /\ Hundred \in Int /\ And \in Int /\ \A k \in {Thousand, Lakh, Crore} : k \in Int
      /\ \A w \in 0 .. 99 : w \in Int
  BY SMT DEF Hundred, And, Thousand, Lakh, Crore
<1>3. ASSUME NEW w \in 0 .. 99 PROVE ReadWord(Mark(x, p), w) = Mark(x, p + w)
  <2>1. w # And /\ w # Hundred /\ w \notin {Thousand, Lakh, Crore}
    BY SMT DEF Hundred, And, Thousand, Lakh, Crore
  <2>2. ReadWord(Mark(x, p), w) = [Mark(x, p) EXCEPT !.part = @ + w]
    BY <2>1, Zenon DEF ReadWord
  <2>. QED
    BY <2>2 DEF Mark
<1>4. ReadWord(Mark(x, p), Hundred) = Mark(x, p * 100)
  <2>1. Hundred # And
    BY SMT DEF Hundred, And
  <2>2. Hundred \notin {Thousand, Lakh, Crore}
    BY SMT DEF Hundred, Thousand, Lakh, Crore
  <2>3. ReadWord(Mark(x, p), Hundred) = [Mark(x, p) EXCEPT !.part = @ * 100]
    BY <2>1, <2>2, SMT DEF ReadWord
  <2>. QED
    BY <2>3, SMT DEF Mark
<1>5. ReadWord(Mark(x, p), And) = Mark(x, p)
  BY SMT DEF ReadWord, And, Hundred, Thousand, Lakh, Crore
<1>6. ASSUME NEW k \in {Thousand, Lakh, Crore} PROVE ReadWord(Mark(x, p), k) = Mark(x + p * k, 0)
  <2>1. k # And /\ k # Hundred
    BY SMT DEF Hundred, And, Thousand, Lakh, Crore
  <2>2. ReadWord(Mark(x, p), k) = [sum |-> Mark(x, p).sum + Mark(x, p).part * k, part |-> 0]
    BY <2>1, Zenon DEF ReadWord
  <2>. QED
    BY <2>2 DEF Mark
<1>7. \A w \in 0 .. 99 : Read(Mark(x, p), << w >>) = Mark(x, p + w)
  BY ONLY <1>1, <1>2, <1>3, ReadOne
<1>8. \A k \in {Thousand, Lakh, Crore} : Read(Mark(x, p), << k >>) = Mark(x + p * k, 0)
  BY ONLY <1>1, <1>2, <1>6, ReadOne
<1>9. Read(Mark(x, p), << Hundred >>) = Mark(x, p * 100) /\ Read(Mark(x, p), << And >>) = Mark(x, p)
  BY ONLY <1>1, <1>2, <1>4, <1>5, ReadOne
<1>. QED
  BY ONLY <1>1, <1>7, <1>8, <1>9

\* A text read to its end: typed, and one after the other.
Reads(s, x, p, y, q) == s \in Seq(Word) /\ Read(Mark(x, p), s) = Mark(y, q)

\* Two texts read one after the other.
LEMMA ReadsOn ==
    ASSUME NEW s, NEW t, NEW x \in Int, NEW p \in Int, NEW y, NEW q, NEW z, NEW o,
           Reads(s, x, p, y, q), Reads(t, y, q, z, o)
    PROVE  Reads(s \o t, x, p, z, o)
<1>1. s \in Seq(Word) /\ t \in Seq(Word) /\ Read(Mark(x, p), s) = Mark(y, q) /\ Read(Mark(y, q), t) = Mark(z, o)
  BY DEF Reads
<1>2. s \in Seq(Int) /\ t \in Seq(Int)
  BY <1>1, WordsAreIntegers
<1>3. Mark(x, p) \in Reading
  BY WordRead
<1>4. Read(Mark(x, p), s \o t) = Read(Read(Mark(x, p), s), t)
  BY ONLY <1>2, <1>3, ReadOn
<1>5. s \o t \in Seq(Word)
  BY ONLY <1>1, ConcatProperties
<1>. QED
  BY <1>1, <1>4, <1>5, Zenon DEF Reads

\* The empty text, in those terms.
LEMMA ReadsNothing ==
    ASSUME NEW x \in Int, NEW p \in Int
    PROVE  Reads(<< >>, x, p, x, p)
<1>1. Mark(x, p) \in Reading /\ << >> \in Seq(Word)
  BY WordRead, EmptySeq
<1>. QED
  BY <1>1, ReadEmpty DEF Reads

\* Every single word, in those terms.
LEMMA ReadsWord ==
    ASSUME NEW x \in Int, NEW p \in Int
    PROVE  /\ \A w \in 0 .. 99 : Reads(<< w >>, x, p, x, p + w)
           /\ Reads(<< Hundred >>, x, p, x, p * 100)
           /\ Reads(<< And >>, x, p, x, p)
           /\ \A k \in {Thousand, Lakh, Crore} : Reads(<< k >>, x, p, x + p * k, 0)
<1>1. /\ Hundred \in Word /\ And \in Word /\ \A k \in {Thousand, Lakh, Crore} : k \in Word
      /\ \A w \in 0 .. 99 : w \in Word
  BY SMT DEF Hundred, And, Thousand, Lakh, Crore, Word
<1>2. \A w \in Word : << w >> \in Seq(Word)
  OBVIOUS
<1>. QED
  BY <1>1, <1>2, WordRead, Zenon DEF Reads

\* Two words are one after the other.
LEMMA TwoWords ==
    ASSUME NEW v \in Int, NEW w \in Int
    PROVE  << v >> \o << w >> = << v, w >>
<1>1. << v >> \in Seq(Int) /\ << w >> \in Seq(Int) /\ << v, w >> \in Seq(Int)
      /\ Len(<< v >>) = 1 /\ Len(<< w >>) = 1 /\ Len(<< v, w >>) = 2
      /\ << v >>[1] = v /\ << w >>[1] = w /\ << v, w >>[1] = v /\ << v, w >>[2] = w
  OBVIOUS
<1>. DEFINE s == << v >>
            t == << w >>
            u == << v, w >>
<1>. HIDE DEF s, t, u
<1>2. /\ s \in Seq(Int) /\ t \in Seq(Int) /\ u \in Seq(Int) /\ Len(s) = 1 /\ Len(t) = 1 /\ Len(u) = 2
      /\ s[1] = v /\ t[1] = w /\ u[1] = v /\ u[2] = w
  BY <1>1 DEF s, t, u
<1>3. /\ s \o t \in Seq(Int) /\ Len(s \o t) = Len(s) + Len(t)
      /\ \A i \in 1 .. Len(s) + Len(t) : (s \o t)[i] = IF i <= Len(s) THEN s[i] ELSE t[i - Len(s)]
  BY ONLY <1>2, ConcatProperties
<1>4. Len(s \o t) = Len(u) /\ \A i \in 1 .. Len(s \o t) : (s \o t)[i] = u[i]
  BY ONLY <1>2, <1>3
<1>5. s \o t = u
  BY ONLY <1>2, <1>3, <1>4, SeqEqual
<1>. QED
  BY <1>5 DEF s, t, u

\* _words_under_thousand: hundreds, And, tens and units read back as the number.
LEMMA ReadsUnderThousand ==
    ASSUME NEW n \in 1 .. 999, NEW x \in Int
    PROVE  Reads(WordsUnderThousand(n), x, 0, x, n)
<1>. DEFINE h == n \div 100
            rest == n % 100
            unit == rest % 10
            A == IF n >= 100 THEN << h, Hundred >> ELSE << >>
            B == IF n >= 100 /\ rest # 0 THEN << And >> ELSE << >>
            C == CASE rest = 0 -> << >>
                   [] rest \in 1 .. 19 -> << rest >>
                   [] rest >= 20 /\ unit = 0 -> << rest >>
                   [] OTHER -> << rest - unit, unit >>
            p == h * 100
<1>1. WordsUnderThousand(n) = A \o B \o C
  BY Zenon DEF WordsUnderThousand
<1>2. /\ h \in 0 .. 9 /\ rest \in 0 .. 99 /\ unit \in 0 .. 9 /\ rest - unit \in 0 .. 99
      /\ n = h * 100 + rest /\ (n < 100 => h = 0) /\ n \in Int
  OBVIOUS
<1>3. p \in Int /\ p + rest = n /\ (n < 100 => p = 0)
  BY <1>2
<1>. HIDE DEF h, rest, unit, p
<1>4. Reads(A, x, 0, x, p)
  <2>1. CASE n >= 100
    <3>1. Reads(<< h >>, x, 0, x, h)
      <4>1. h \in 0 .. 99 /\ 0 + h = h /\ 0 \in Int
        BY <1>2
      <4>2. Reads(<< h >>, x, 0, x, 0 + h)
        BY <4>1, ReadsWord
      <4>. QED
        BY <4>1, <4>2
    <3>2. Reads(<< Hundred >>, x, h, x, p)
      <4>1. h \in Int
        BY <1>2
      <4>2. Reads(<< Hundred >>, x, h, x, h * 100)
        BY ONLY <4>1, x \in Int, ReadsWord
      <4>. QED
        BY ONLY <4>2 DEF p
    <3>3. Reads(<< h >> \o << Hundred >>, x, 0, x, p)
      <4>1. 0 \in Int
        OBVIOUS
      <4>. QED
        BY ONLY <3>1, <3>2, <4>1, x \in Int, ReadsOn
    <3>4. << h >> \o << Hundred >> = << h, Hundred >>
      <4>1. h \in Int /\ Hundred \in Int
        BY <1>2 DEF Hundred
      <4>. QED
        BY ONLY <4>1, TwoWords
    <3>. QED
      BY <2>1, <3>3, <3>4
  <2>2. CASE n < 100
    <3>1. p = 0 /\ A = << >>
      BY <1>2, <1>3, <2>2
    <3>. QED
      BY <3>1, ReadsNothing
  <2>. QED
    BY <1>2, <2>1, <2>2
<1>5. Reads(B, x, p, x, p)
  BY <1>3, ReadsWord, ReadsNothing
<1>6. Reads(C, x, p, x, n)
  <2>1. CASE rest = 0
    BY <1>3, <2>1, ReadsNothing
  <2>2. CASE C = << rest >>
    <3>1. Reads(<< rest >>, x, p, x, p + rest)
      BY <1>2, <1>3, ReadsWord
    <3>. QED
      BY <1>3, <2>2, <3>1
  <2>3. CASE C = << rest - unit, unit >>
    <3>. DEFINE t == rest - unit
    <3>1. t \in 0 .. 99 /\ unit \in 0 .. 99 /\ p + t \in Int /\ (p + t) + unit = n
      BY <1>2, <1>3
    <3>. HIDE DEF t
    <3>2. Reads(<< t >>, x, p, x, p + t) /\ Reads(<< unit >>, x, p + t, x, (p + t) + unit)
      BY <1>3, <3>1, ReadsWord
    <3>3. Reads(<< t >> \o << unit >>, x, p, x, n)
      <4>1. Reads(<< unit >>, x, p + t, x, n)
        BY <3>1, <3>2
      <4>. QED
        BY ONLY <1>3, <3>2, <4>1, x \in Int, ReadsOn
    <3>4. << t >> \o << unit >> = << t, unit >>
      <4>1. t \in Int /\ unit \in Int
        BY <3>1
      <4>. QED
        BY ONLY <4>1, TwoWords
    <3>. QED
      BY <2>3, <3>3, <3>4 DEF t
  <2>4. rest = 0 \/ C = << rest >> \/ C = << rest - unit, unit >>
    BY Zenon
  <2>. QED
    BY <2>1, <2>2, <2>3, <2>4
<1>. HIDE DEF A, B, C
<1>7. Reads(A \o B, x, 0, x, p)
  BY <1>4, <1>5, ReadsOn
<1>8. Reads((A \o B) \o C, x, 0, x, n)
  BY <1>6, <1>7, ReadsOn
<1>. QED
  BY <1>1, <1>8

\* Fewer than a hundred are said without And.
LEMMA TensArePlain ==
    ASSUME NEW n \in 1 .. 99
    PROVE  WordsUnderThousand(n) \in Seq(Nat)
<1>. DEFINE rest == n % 100
            unit == rest % 10
            C == CASE rest = 0 -> << >>
                   [] rest \in 1 .. 19 -> << rest >>
                   [] rest >= 20 /\ unit = 0 -> << rest >>
                   [] OTHER -> << rest - unit, unit >>
<1>1. rest \in Nat /\ unit \in Nat /\ rest - unit \in Nat /\ ~ (n >= 100)
  OBVIOUS
<1>2. WordsUnderThousand(n) = << >> \o << >> \o C
  BY <1>1, Zenon DEF WordsUnderThousand
<1>. HIDE DEF rest, unit
<1>3. << >> \in Seq(Nat) /\ << rest >> \in Seq(Nat) /\ << rest - unit, unit >> \in Seq(Nat)
  BY <1>1
<1>4. C = << >> \/ C = << rest >> \/ C = << rest - unit, unit >>
  OBVIOUS
<1>5. C \in Seq(Nat)
  BY <1>3, <1>4, Zenon
<1>. HIDE DEF C
<1>. QED
  BY <1>2, <1>3, <1>5, ConcatProperties

\* A number and its scale read back as their product.
LEMMA ReadsCounted ==
    ASSUME NEW n \in 0 .. 999, NEW x \in Int
    PROVE  /\ \A k \in {Thousand, Lakh, Crore} : Reads(Counted(n, << k >>), x, 0, x + n * k, 0)
           /\ Reads(Counted(n, << >>), x, 0, x, n)
<1>0. 0 \in Int /\ n \in Int /\ \A k \in {Thousand, Lakh, Crore} : k \in Int
  BY SMT DEF Thousand, Lakh, Crore
<1>1. CASE n = 0
  <2>1. Counted(n, << >>) = << >> /\ \A k \in {Thousand, Lakh, Crore} : Counted(n, << k >>) = << >>
    BY <1>1 DEF Counted
  <2>2. Reads(<< >>, x, 0, x, 0)
    BY ONLY <1>0, x \in Int, ReadsNothing
  <2>3. \A k \in {Thousand, Lakh, Crore} : x + n * k = x
    BY <1>0, <1>1
  <2>. QED
    BY <1>1, <2>1, <2>2, <2>3
<1>2. CASE n # 0
  <2>. DEFINE w == WordsUnderThousand(n)
  <2>1. Counted(n, << >>) = w \o << >>
        /\ \A k \in {Thousand, Lakh, Crore} : Counted(n, << k >>) = w \o << k >>
    BY <1>2 DEF Counted
  <2>2. Reads(w, x, 0, x, n)
    <3>1. n \in 1 .. 999
      BY <1>2
    <3>. QED
      BY ONLY <3>1, x \in Int, ReadsUnderThousand
  <2>. HIDE DEF w
  <2>3. Reads(<< >>, x, n, x, n)
    BY ONLY <1>0, x \in Int, ReadsNothing
  <2>4. \A k \in {Thousand, Lakh, Crore} : Reads(<< k >>, x, n, x + n * k, 0)
    BY ONLY <1>0, x \in Int, ReadsWord
  <2>5. Reads(w \o << >>, x, 0, x, n)
    BY ONLY <1>0, <2>2, <2>3, x \in Int, ReadsOn
  <2>6. \A k \in {Thousand, Lakh, Crore} : Reads(w \o << k >>, x, 0, x + n * k, 0)
    BY ONLY <1>0, <2>2, <2>4, x \in Int, ReadsOn
  <2>. QED
    BY <2>1, <2>5, <2>6
<1>. QED
  BY <1>1, <1>2

\* A number is its quotient and its remainder.
LEMMA Divided ==
    ASSUME NEW n \in Nat, NEW d \in Nat \ {0}
    PROVE  /\ n \div d \in Nat /\ n % d \in Nat /\ n % d < d
           /\ n = d * (n \div d) + (n % d)
<1>1. n \div d \in Nat /\ n = d * (n \div d) + (n % d) /\ (n % d) \in 0 .. d - 1
  OBVIOUS
<1>. QED
  BY <1>1

\* ... and these are the only ones.
LEMMA OneQuotient ==
    ASSUME NEW d \in Nat \ {0}, NEW a \in Nat, NEW b \in Nat, NEW s \in Nat, NEW k \in Nat,
           s < d, k < d, d * a + s = d * b + k
    PROVE  a = b /\ s = k
<1>1. \A i, j \in Nat : i < j => d * j >= d * i + d
  <2>. SUFFICES ASSUME NEW i \in Nat, NEW j \in Nat, i < j PROVE d * j >= d * i + d
    OBVIOUS
  <2>. DEFINE e == j - i - 1
  <2>1. e \in Nat /\ j = i + 1 + e
    OBVIOUS
  <2>. HIDE DEF e
  <2>2. \A u, v \in Nat : u * v \in Nat
    OBVIOUS
  <2>3. d * e \in Nat /\ d * i \in Nat
    BY <2>1, <2>2
  <2>4. d * j = d * i + d + d * e
    BY <2>1
  <2>. QED
    BY <2>3, <2>4
<1>. DEFINE A == d * a
            B == d * b
<1>2. A \in Nat /\ B \in Nat
  OBVIOUS
<1>3. ~ (a < b)
  <2>1. a < b => B >= A + d
    BY <1>1
  <2>. HIDE DEF A, B
  <2>2. A + s = B + k
    BY DEF A, B
  <2>. QED
    BY <1>2, <2>1, <2>2
<1>4. ~ (b < a)
  <2>1. b < a => A >= B + d
    BY <1>1
  <2>. HIDE DEF A, B
  <2>2. A + s = B + k
    BY DEF A, B
  <2>. QED
    BY <1>2, <2>1, <2>2
<1>5. a = b
  BY <1>3, <1>4
<1>. QED
  BY <1>2, <1>5

\* A remainder of a scale, by the next smaller one.
LEMMA NextScale ==
    ASSUME NEW n \in Nat, NEW d \in Nat \ {0}, NEW e \in Nat \ {0}
    PROVE  /\ (n % (e * d)) \div d \in 0 .. e - 1
           /\ n % (e * d) = ((n % (e * d)) \div d) * d + (n % d)
<1>. DEFINE D == e * d
            m == n % D
            c == n \div D
            l == m \div d
            s == m % d
            q == n \div d
            k == n % d
<1>1. D \in Nat \ {0}
  BY SMT
<1>. HIDE DEF D
<1>2. c \in Nat /\ m \in Nat /\ m < D /\ n = D * c + m
  BY <1>1, Divided
<1>. HIDE DEF m, c
<1>3. l \in Nat /\ s \in Nat /\ s < d /\ m = d * l + s
  BY <1>2, Divided
<1>4. q \in Nat /\ k \in Nat /\ k < d /\ n = d * q + k
  BY Divided
<1>. HIDE DEF l, s, q, k
<1>5. s = k
  <2>. DEFINE b == e * c + l
  <2>1. b \in Nat
    BY <1>2, <1>3
  <2>2. D * c = d * (e * c)
    BY <1>2 DEF D
  <2>3. d * b = d * (e * c) + d * l
    BY <1>2, <1>3
  <2>4. d * b \in Nat /\ d * l \in Nat /\ D * c \in Nat
    BY <1>1, <1>2, <1>3, <2>1
  <2>5. d * q + k = d * b + s
    BY <1>2, <1>3, <1>4, <2>2, <2>3, <2>4
  <2>. HIDE DEF b
  <2>. QED
    BY <1>3, <1>4, <2>1, <2>5, OneQuotient
<1>6. l < e
  <2>. SUFFICES ASSUME l >= e PROVE FALSE
    BY <1>3
  <2>1. d * l >= d * e
    <3>. DEFINE f == l - e
    <3>1. f \in Nat /\ l = e + f
      BY <1>3
    <3>. HIDE DEF f
    <3>2. d * f \in Nat /\ d * l = d * e + d * f
      BY <3>1
    <3>. QED
      BY <3>2
  <2>2. D = d * e
    BY DEF D
  <2>3. d * l \in Nat /\ d * e \in Nat
    BY <1>3
  <2>. QED
    BY <1>2, <1>3, <2>1, <2>2, <2>3
<1>. QED
  BY <1>3, <1>5, <1>6 DEF l, m, k, D

\* A number by its crores, lakhs, thousands and the rest.
LEMMA IndianScales ==
    ASSUME NEW n \in Nat, n \div Crore < 1000
    PROVE  /\ n \div Crore \in 0 .. 999 /\ (n % Crore) \div Lakh \in 0 .. 99
           /\ (n % Lakh) \div Thousand \in 0 .. 99 /\ n % Thousand \in 0 .. 999
           /\ (n \div Crore) * Crore + ((n % Crore) \div Lakh) * Lakh
                 + ((n % Lakh) \div Thousand) * Thousand + (n % Thousand) = n
<1>1. /\ Crore = 100 * Lakh /\ Lakh = 100 * Thousand
      /\ Crore \in Nat \ {0} /\ Lakh \in Nat \ {0} /\ Thousand \in Nat \ {0} /\ 100 \in Nat \ {0}
  BY SMT DEF Crore, Lakh, Thousand
<1>2. n \div Crore \in Nat /\ n % Crore \in Nat /\ n = Crore * (n \div Crore) + (n % Crore)
  <2>1. \A d \in Nat \ {0} : n \div d \in Nat /\ n % d \in Nat /\ n = d * (n \div d) + (n % d)
    BY Divided
  <2>. QED
    BY ONLY <1>1, <2>1, Zenon
<1>. DEFINE Parts(D, d) == /\ (n % D) \div d \in 0 .. 99
                          /\ n % D = ((n % D) \div d) * d + (n % d)
<1>0. \A d \in Nat \ {0} : Parts(100 * d, d)
  <2>1. ASSUME NEW d \in Nat \ {0} PROVE Parts(100 * d, d)
    <3>. DEFINE e == 100
    <3>1. e \in Nat \ {0} /\ e - 1 = 99
      OBVIOUS
    <3>. HIDE DEF e
    <3>2. /\ (n % (e * d)) \div d \in 0 .. e - 1
          /\ n % (e * d) = ((n % (e * d)) \div d) * d + (n % d)
      BY <3>1, NextScale
    <3>. QED
      BY <3>1, <3>2 DEF e
  <2>. QED
    BY <2>1
<1>3. /\ (n % Crore) \div Lakh \in 0 .. 99
      /\ n % Crore = ((n % Crore) \div Lakh) * Lakh + (n % Lakh)
  <2>1. Parts(Crore, Lakh)
    <3>. HIDE DEF Parts
    <3>. QED
      BY ONLY <1>0, <1>1, Zenon
  <2>. QED
    BY <2>1, Zenon
<1>4. /\ (n % Lakh) \div Thousand \in 0 .. 99
      /\ n % Lakh = ((n % Lakh) \div Thousand) * Thousand + (n % Thousand)
  <2>1. Parts(Lakh, Thousand)
    <3>. HIDE DEF Parts
    <3>. QED
      BY ONLY <1>0, <1>1, Zenon
  <2>. QED
    BY <2>1, Zenon
<1>5. n % Thousand \in 0 .. 999
  BY SMT DEF Thousand
<1>6. n \div Crore \in 0 .. 999
  BY <1>2
<1>7. (n \div Crore) * Crore + ((n % Crore) \div Lakh) * Lakh
        + ((n % Lakh) \div Thousand) * Thousand + (n % Thousand) = n
  <2>. DEFINE c == n \div Crore
              l == (n % Crore) \div Lakh
              t == (n % Lakh) \div Thousand
              cC == c * Crore
              lL == l * Lakh
              tT == t * Thousand
              r == n % Thousand
              m == n % Crore
              k == n % Lakh
  <2>1. cC \in Int /\ lL \in Int /\ tT \in Int /\ r \in Int
    <3>1. c \in Int /\ l \in Int /\ t \in Int /\ r \in Int
      BY <1>2, <1>3, <1>4, <1>5
    <3>. HIDE DEF c, l, t, r
    <3>2. Crore \in Int /\ Lakh \in Int /\ Thousand \in Int
      BY <1>1
    <3>3. \A u, v \in Int : u * v \in Int
      OBVIOUS
    <3>. QED
      BY ONLY <3>1, <3>2, <3>3
  <2>2. n = cC + m
    <3>1. \A u, v \in Int : u * v = v * u
      OBVIOUS
    <3>2. Crore * c = c * Crore
      BY ONLY <1>1, <1>2, <3>1
    <3>. QED
      BY <1>2, <3>2
  <2>3. m = lL + k
    BY <1>3
  <2>4. k = tT + r
    BY <1>4
  <2>. HIDE DEF cC, lL, tT, r, m, k
  <2>5. cC + lL + tT + r = n
    BY ONLY <2>1, <2>2, <2>3, <2>4
  <2>. QED
    BY <2>5, Zenon DEF cC, lL, tT, r
<1>. QED
  BY ONLY <1>3, <1>4, <1>5, <1>6, <1>7

\* A text read from nothing, as a number.
LEMMA NumberRead ==
    ASSUME NEW s, NEW y \in Int, NEW q \in Int, Reads(s, 0, 0, y, q)
    PROVE  ReadNumber(s) = y + q
<1>1. Read(Mark(0, 0), s) = Mark(y, q)
  BY DEF Reads
<1>2. FoldLeft(ReadWord, [sum |-> 0, part |-> 0], s) = [sum |-> y, part |-> q]
  BY ONLY <1>1, Zenon DEF Read, Mark
<1>3. ReadNumber(s) = [sum |-> y, part |-> q].sum + [sum |-> y, part |-> q].part
  BY ONLY <1>2, Zenon DEF ReadNumber
<1>. QED
  BY ONLY <1>3

\* What is said of a number reads back as the number.
LEMMA ReadsIndian ==
    ASSUME NEW n \in Nat, n \div Crore < 1000
    PROVE  /\ IndianWords(n) \in Seq(Word) /\ IndianWords(n) # << >>
           /\ ReadNumber(IndianWords(n)) = n
<1>0. 0 \in Int
  OBVIOUS
<1>1. CASE n = 0
  <2>1. IndianWords(n) = << 0 >> /\ << 0 >> # << >>
    BY <1>1, Zenon DEF IndianWords
  <2>2. Reads(<< 0 >>, 0, 0, 0, 0 + 0)
    <3>1. 0 \in 0 .. 99
      OBVIOUS
    <3>. QED
      BY ONLY <1>0, <3>1, ReadsWord
  <2>3. 0 + 0 = 0
    OBVIOUS
  <2>4. Reads(<< 0 >>, 0, 0, 0, 0)
    BY ONLY <2>2, <2>3
  <2>5. ReadNumber(<< 0 >>) = 0 + 0
    BY ONLY <1>0, <2>4, NumberRead
  <2>6. << 0 >> \in Seq(Word)
    BY <2>4 DEF Reads
  <2>. QED
    BY <1>1, <2>1, <2>3, <2>5, <2>6
<1>2. CASE n # 0
  <2>. DEFINE c == n \div Crore
              l == (n % Crore) \div Lakh
              t == (n % Lakh) \div Thousand
              r == n % Thousand
              C == Counted(c, << Crore >>)
              L == Counted(l, << Lakh >>)
              T == Counted(t, << Thousand >>)
              R == Counted(r, << >>)
              x == c * Crore
              y == x + l * Lakh
              z == y + t * Thousand
  <2>1. IndianWords(n) = ((C \o L) \o T) \o R
    BY ONLY <1>2, Zenon DEF IndianWords
  <2>2. c \in 0 .. 999 /\ l \in 0 .. 99 /\ t \in 0 .. 99 /\ r \in 0 .. 999 /\ z + r = n
    BY ONLY n \in Nat, n \div Crore < 1000, IndianScales
  <2>3. c \in 0 .. 999 /\ l \in 0 .. 999 /\ t \in 0 .. 999 /\ r \in 0 .. 999 /\ r \in Int
    <3>. HIDE DEF c, l, t, r, z
    <3>. QED
      BY <2>2
  <2>. HIDE DEF c, l, t, r
  <2>4. x \in Int /\ y \in Int /\ z \in Int
    <3>1. Crore \in Int /\ Lakh \in Int /\ Thousand \in Int
      BY SMT DEF Crore, Lakh, Thousand
    <3>2. \A u, v \in Int : u * v \in Int /\ u + v \in Int
      OBVIOUS
    <3>3. c \in Int /\ l \in Int /\ t \in Int
      BY <2>3
    <3>. QED
      BY ONLY <3>1, <3>2, <3>3, Zenon
  <2>5. Reads(C, 0, 0, x, 0)
    <3>1. Reads(C, 0, 0, 0 + c * Crore, 0)
      BY ONLY <1>0, <2>3, ReadsCounted
    <3>2. 0 + x = x
      <4>. HIDE DEF x
      <4>. QED
        BY <2>4
    <3>. QED
      BY ONLY <3>1, <3>2
  <2>. HIDE DEF x
  <2>6. Reads(L, x, 0, y, 0)
    BY ONLY <2>3, <2>4, ReadsCounted
  <2>. HIDE DEF y
  <2>7. Reads(T, y, 0, z, 0)
    BY ONLY <2>3, <2>4, ReadsCounted
  <2>. HIDE DEF z
  <2>8. Reads(R, z, 0, z, r)
    BY ONLY <2>3, <2>4, ReadsCounted
  <2>. HIDE DEF C, L, T, R
  <2>9. Reads(C \o L, 0, 0, y, 0)
    BY ONLY <1>0, <2>5, <2>6, ReadsOn
  <2>10. Reads((C \o L) \o T, 0, 0, z, 0)
    BY ONLY <1>0, <2>7, <2>9, ReadsOn
  <2>. DEFINE w == ((C \o L) \o T) \o R
  <2>11. Reads(w, 0, 0, z, r)
    BY ONLY <1>0, <2>8, <2>10, ReadsOn
  <2>. HIDE DEF w
  <2>12. ReadNumber(w) = n
    BY ONLY <2>2, <2>3, <2>4, <2>11, NumberRead
  <2>13. w \in Seq(Word)
    BY <2>11 DEF Reads
  <2>14. w # << >>
    <3>1. Reads(<< >>, 0, 0, 0, 0)
      BY ONLY <1>0, ReadsNothing
    <3>2. ReadNumber(<< >>) = 0 + 0
      BY ONLY <1>0, <3>1, NumberRead
    <3>. QED
      BY <1>2, <2>12, <3>2
  <2>. QED
    BY <2>1, <2>12, <2>13, <2>14 DEF w
<1>. QED
  BY <1>1, <1>2

\* What is said of the paise has no And of its own.
LEMMA PaisePlain ==
    ASSUME NEW n \in 1 .. 99
    PROVE  IndianWords(n) \in Seq(Nat) /\ n \div Crore < 1000
<1>1. /\ n \div Crore = 0 /\ (n % Crore) \div Lakh = 0 /\ (n % Lakh) \div Thousand = 0
      /\ n % Thousand = n /\ n # 0
  BY SMT DEF Crore, Lakh, Thousand
<1>2. \A s : Counted(0, s) = << >>
  BY Zenon DEF Counted
<1>3. Counted(n, << >>) = WordsUnderThousand(n) \o << >>
  BY <1>1, Zenon DEF Counted
<1>4. IndianWords(n) = ((<< >> \o << >>) \o << >>) \o (WordsUnderThousand(n) \o << >>)
  BY ONLY <1>1, <1>2, <1>3, Zenon DEF IndianWords
<1>5. WordsUnderThousand(n) \in Seq(Nat) /\ << >> \in Seq(Nat)
  <2>1. << >> \in Seq(Nat)
    OBVIOUS
  <2>. QED
    BY ONLY <2>1, n \in 1 .. 99, TensArePlain
<1>6. \A u, v \in Seq(Nat) : u \o v \in Seq(Nat)
  BY ConcatProperties
<1>. QED
  BY <1>1, <1>4, <1>5, <1>6

\* What stands where in two sequences joined.
LEMMA JoinedWords ==
    ASSUME NEW s \in Seq(Int), NEW t \in Seq(Int)
    PROVE  /\ s \o t \in Seq(Int) /\ Len(s \o t) = Len(s) + Len(t)
           /\ \A i \in 1 .. Len(s) : (s \o t)[i] = s[i]
           /\ \A i \in 1 .. Len(t) : (s \o t)[Len(s) + i] = t[i]
<1>. DEFINE m == Len(s)
            n == Len(t)
            u == s \o t
<1>1. m \in Nat /\ n \in Nat
  BY LenProperties
<1>2. /\ u \in Seq(Int) /\ Len(u) = m + n
      /\ \A i \in 1 .. m + n : u[i] = IF i <= m THEN s[i] ELSE t[i - m]
  BY ConcatProperties
<1>. HIDE DEF m, n, u
<1>3. ASSUME NEW i \in 1 .. m PROVE u[i] = s[i]
  <2>1. i \in 1 .. m + n /\ i <= m
    BY <1>1
  <2>. QED
    BY <1>2, <2>1
<1>4. ASSUME NEW i \in 1 .. n PROVE u[m + i] = t[i]
  <2>1. m + i \in 1 .. m + n /\ ~ (m + i <= m) /\ (m + i) - m = i
    BY <1>1
  <2>. QED
    BY <1>2, <2>1
<1>. QED
  BY <1>2, <1>3, <1>4 DEF m, n, u

Cut(s) == SelectLastInSeq(s, LAMBDA w : w = And)
Said(s, R, P) == s = R \o ((<< And >> \o P) \o << Paise >>)

\* Rupees, And, paise, Paise: where the last And is, and what stands around it.
LEMMA CutAtLastAnd ==
    ASSUME NEW R \in Seq(Word), NEW P \in Seq(Nat), NEW s, Said(s, R, P)
    PROVE  /\ Last(s) = Paise
           /\ Cut(s) = Len(R) + 1
           /\ SubSeq(s, 1, Len(R)) = R
           /\ SubSeq(s, Len(R) + 2, Len(s) - 1) = P
<1>. DEFINE m == Len(R)
            k == Len(P)
            A == << And >>
            B == A \o P
            E == << Paise >>
            C == B \o E
<1>0. And \in Int /\ Paise \in Int /\ And \notin Nat /\ And # Paise
  BY SMT DEF And, Paise
<1>1. R \in Seq(Int) /\ P \in Seq(Int)
  BY WordsAreIntegers
<1>2. /\ A \in Seq(Int) /\ E \in Seq(Int) /\ Len(A) = 1 /\ Len(E) = 1 /\ A[1] = And /\ E[1] = Paise
  BY <1>0
<1>3. m \in Nat /\ k \in Nat /\ \A i \in 1 .. k : P[i] \in Nat
  BY LenProperties, ElementOfSeq
<1>6. s = R \o C
  BY Zenon DEF Said
<1>. HIDE DEF A, E
<1>4. /\ B \in Seq(Int) /\ Len(B) = Len(A) + Len(P)
      /\ \A i \in 1 .. Len(A) : B[i] = A[i]
      /\ \A i \in 1 .. Len(P) : B[Len(A) + i] = P[i]
  BY ONLY <1>1, <1>2, JoinedWords
<1>. HIDE DEF B
<1>5. /\ C \in Seq(Int) /\ Len(C) = Len(B) + Len(E)
      /\ \A i \in 1 .. Len(B) : C[i] = B[i]
      /\ \A i \in 1 .. Len(E) : C[Len(B) + i] = E[i]
  BY ONLY <1>2, <1>4, JoinedWords
<1>. HIDE DEF C
<1>a. /\ s \in Seq(Int) /\ Len(s) = Len(R) + Len(C)
      /\ \A i \in 1 .. Len(R) : s[i] = R[i]
      /\ \A i \in 1 .. Len(C) : s[Len(R) + i] = C[i]
  BY ONLY <1>1, <1>5, <1>6, JoinedWords
<1>. HIDE DEF m, k
<1>b. /\ Len(A) = 1 /\ Len(P) = k /\ Len(B) = 1 + k /\ Len(E) = 1 /\ Len(C) = k + 2 /\ Len(R) = m
      /\ Len(s) = m + (k + 2)
  <2>1. Len(P) = k /\ Len(R) = m
    BY DEF k, m
  <2>2. Len(B) = 1 + k
    BY <1>2, <1>4, <2>1
  <2>3. Len(C) = (1 + k) + 1 /\ (1 + k) + 1 = k + 2
    BY <1>2, <1>3, <1>5, <2>2
  <2>. QED
    BY <1>2, <1>a, <2>1, <2>2, <2>3
<1>7. s \in Seq(Int) /\ Len(s) = m + (k + 2)
  BY <1>a, <1>b
<1>8. /\ \A i \in 1 .. m : s[i] = R[i]
      /\ s[m + 1] = And
      /\ \A i \in 1 .. k : s[m + 1 + i] = P[i]
      /\ s[m + (k + 2)] = Paise
  <2>1. \A i \in 1 .. m : s[i] = R[i]
    BY ONLY <1>a, <1>b
  <2>2. \A j \in 1 .. k + 2 : s[m + j] = C[j]
    BY ONLY <1>a, <1>b
  <2>3. s[m + 1] = And
    <3>1. 1 \in 1 .. k + 2 /\ 1 \in 1 .. 1 + k /\ 1 \in 1 .. 1
      BY ONLY <1>3
    <3>2. s[m + 1] = C[1] /\ C[1] = B[1] /\ B[1] = A[1]
      BY ONLY <1>4, <1>5, <1>b, <2>2, <3>1
    <3>. QED
      BY ONLY <1>2, <3>2
  <2>4. ASSUME NEW i \in 1 .. k PROVE s[m + 1 + i] = P[i]
    <3>1. 1 + i \in 1 .. k + 2 /\ 1 + i \in 1 .. 1 + k /\ m + (1 + i) = m + 1 + i
      BY ONLY <1>3, i \in 1 .. k
    <3>2. s[m + (1 + i)] = C[1 + i] /\ C[1 + i] = B[1 + i]
      BY ONLY <1>5, <1>b, <2>2, <3>1
    <3>3. B[1 + i] = P[i]
      BY ONLY <1>4, <1>b, i \in 1 .. k
    <3>. QED
      BY ONLY <3>1, <3>2, <3>3
  <2>5. s[m + (k + 2)] = Paise
    <3>1. k + 2 \in 1 .. k + 2 /\ 1 \in 1 .. 1 /\ (1 + k) + 1 = k + 2
      BY ONLY <1>3
    <3>2. s[m + (k + 2)] = C[k + 2]
      BY ONLY <2>2, <3>1
    <3>3. C[(1 + k) + 1] = E[1]
      BY ONLY <1>5, <1>b, <3>1
    <3>. QED
      BY ONLY <1>2, <3>1, <3>2, <3>3
  <2>. QED
    BY ONLY <2>1, <2>3, <2>4, <2>5
<1>9. Last(s) = Paise
  BY <1>7, <1>8, Zenon DEF Last
<1>. DEFINE I == {i \in 1 .. Len(s) : s[i] = And}
<1>10. Cut(s) = IF I # {} THEN Max(I) ELSE 0
  BY Zenon DEF SelectLastInSeq, Cut
<1>11. m + 1 \in I /\ I \in SUBSET (1 .. m + (k + 2)) /\ m + (k + 2) \in Nat
  <2>1. m + 1 \in 1 .. m + (k + 2) /\ m + (k + 2) \in Nat
    BY ONLY <1>3
  <2>2. I \in SUBSET (1 .. Len(s))
    BY Zenon
  <2>3. m + 1 \in I
    BY <1>7, <1>8, <2>1, Zenon
  <2>. QED
    BY ONLY <1>7, <2>1, <2>2, <2>3
<1>12. \A i \in I : i <= m + 1
  <2>. SUFFICES ASSUME NEW i \in I PROVE i <= m + 1
    OBVIOUS
  <2>0. i \in 1 .. m + (k + 2) /\ s[i] = And
    BY ONLY <1>7, i \in I
  <2>. HIDE DEF I
  <2>1. CASE i <= m + 1
    BY <2>1
  <2>2. CASE i = m + (k + 2)
    BY <1>0, <1>8, <2>0, <2>2
  <2>3. CASE i > m + 1 /\ i # m + (k + 2)
    <3>. DEFINE j == i - (m + 1)
    <3>1. j \in 1 .. k /\ m + 1 + j = i
      BY <1>3, <2>0, <2>3
    <3>. HIDE DEF j
    <3>2. s[m + 1 + j] = P[j] /\ P[j] \in Nat
      BY ONLY <1>3, <1>8, <3>1
    <3>. QED
      BY <1>0, <2>0, <3>1, <3>2
  <2>4. i \in Int /\ m + 1 \in Int
    BY <1>3, <2>0
  <2>5. i <= m + 1 \/ i > m + 1
    BY ONLY <2>4
  <2>. QED
    BY <2>1, <2>2, <2>3, <2>5
<1>. HIDE DEF I
<1>13. Max(I) \in I /\ \A i \in I : Max(I) >= i
  BY ONLY <1>11, MaxOfSome
<1>14. Max(I) = m + 1
  <2>1. Max(I) <= m + 1 /\ Max(I) >= m + 1 /\ Max(I) \in 1 .. m + (k + 2)
    BY <1>11, <1>12, <1>13
  <2>. QED
    BY ONLY <1>3, <2>1
<1>15. Cut(s) = m + 1
  BY <1>10, <1>11, <1>14, Zenon
<1>16. SubSeq(s, 1, m) = R
  <2>1. \A i \in 1 .. m : s[i] \in Int
    BY <1>1, <1>8, ElementOfSeq DEF m
  <2>2. /\ SubSeq(s, 1, m) \in Seq(Int)
        /\ Len(SubSeq(s, 1, m)) = IF 1 <= m THEN m - 1 + 1 ELSE 0
        /\ \A i \in 1 .. m - 1 + 1 : SubSeq(s, 1, m)[i] = s[1 + i - 1]
    <3>1. 1 \in Int /\ m \in Int
      BY <1>3
    <3>. QED
      BY ONLY <2>1, <3>1, SubSeqProperties
  <2>3. Len(SubSeq(s, 1, m)) = m /\ \A i \in 1 .. m : SubSeq(s, 1, m)[i] = R[i]
    <3>1. m - 1 + 1 = m /\ \A i \in 1 .. m : 1 + i - 1 = i
      BY ONLY <1>3
    <3>2. Len(SubSeq(s, 1, m)) = m
      BY ONLY <1>3, <2>2, <3>1
    <3>. QED
      BY ONLY <1>8, <2>2, <3>1, <3>2
  <2>. DEFINE u == SubSeq(s, 1, m)
  <2>4. u \in Seq(Int) /\ Len(u) = Len(R) /\ \A i \in 1 .. Len(u) : u[i] = R[i]
    BY <2>2, <2>3 DEF m
  <2>. HIDE DEF u
  <2>5. u = R
    BY ONLY <1>1, <2>4, SeqEqual
  <2>. QED
    BY <2>5 DEF u
<1>17. SubSeq(s, m + 2, m + (k + 2) - 1) = P
  <2>. DEFINE a == m + 2
              b == m + (k + 2) - 1
              u == SubSeq(s, a, b)
  <2>1. a \in Int /\ b \in Int /\ b - a + 1 = k /\ (a <= b <=> k # 0)
        /\ \A i \in 1 .. k : a + i - 1 = m + 1 + i
    BY <1>3
  <2>2. \A i \in a .. b : s[i] \in Int
    <3>1. \A i \in a .. b : i \in 1 .. Len(s)
      BY <1>3, <1>7
    <3>. QED
      BY ONLY <1>7, <3>1, ElementOfSeq
  <2>. HIDE DEF a, b
  <2>3. /\ u \in Seq(Int) /\ Len(u) = IF a <= b THEN b - a + 1 ELSE 0
        /\ \A i \in 1 .. b - a + 1 : u[i] = s[a + i - 1]
    BY ONLY <2>1, <2>2, SubSeqProperties
  <2>. HIDE DEF u
  <2>4. Len(u) = k /\ \A i \in 1 .. k : u[i] = P[i]
    BY <1>3, <1>8, <2>1, <2>3
  <2>5. Len(u) = Len(P) /\ \A i \in 1 .. Len(u) : u[i] = P[i]
    BY <2>4 DEF k
  <2>6. u = P
    BY ONLY <1>1, <2>3, <2>5, SeqEqual
  <2>. QED
    BY <2>6 DEF u, a, b
<1>. QED
  <2>1. m + 1 = Len(R) + 1 /\ m + 2 = Len(R) + 2
    BY DEF m
  <2>2. m + (k + 2) - 1 = Len(s) - 1
    BY ONLY <1>3, <1>7
  <2>3. SubSeq(s, 1, Len(R)) = R
    BY ONLY <1>16 DEF m
  <2>. QED
    BY ONLY <1>9, <1>15, <1>17, <2>1, <2>2, <2>3, Zenon

\* What is written of an amount reads back as the amount.
LEMMA AmountRead ==
    ASSUME NEW a \in [rupees : Nat, paise : 0 .. 99], a.rupees \div Crore < 1000
    PROVE  ReadAmount(AmountInWords(a)) = a
<1>. DEFINE r == a.rupees
            p == a.paise
            R == IndianWords(r)
            s == AmountInWords(a)
<1>1. r \in Nat /\ p \in 0 .. 99 /\ a = [rupees |-> r, paise |-> p] /\ r \div Crore < 1000
  OBVIOUS
<1>. HIDE DEF r, p
<1>2. R \in Seq(Word) /\ R # << >> /\ ReadNumber(R) = r
  BY ONLY <1>1, ReadsIndian
<1>3. s = R \o (IF p = 0 THEN << >> ELSE (<< And >> \o IndianWords(p)) \o << Paise >>)
  BY Zenon DEF AmountInWords, r, p
<1>. HIDE DEF s
<1>4. CASE p = 0
  <2>. HIDE DEF R
  <2>1. s = R
    <3>1. R \o << >> = R
      BY ONLY <1>2, ConcatEmptySeq
    <3>. QED
      BY <1>3, <1>4, <3>1
  <2>2. Last(s) # Paise
    <3>1. Len(R) \in 1 .. Len(R)
      BY <1>2, EmptySeq
    <3>2. R[Len(R)] \in Word
      BY <1>2, <3>1, ElementOfSeq
    <3>3. Paise \notin Word
      BY SMT DEF Paise, And, Word
    <3>. QED
      BY <2>1, <3>2, <3>3 DEF Last
  <2>3. ReadAmount(s) = [rupees |-> ReadNumber(s), paise |-> 0]
    BY <2>2, Zenon DEF ReadAmount
  <2>. QED
    BY <1>1, <1>2, <1>4, <2>1, <2>3 DEF s
<1>5. CASE p # 0
  <2>. DEFINE P == IndianWords(p)
              i == Len(R) + 1
  <2>1. p \in 1 .. 99 /\ p \in Nat
    BY <1>1, <1>5
  <2>2. P \in Seq(Nat) /\ p \div Crore < 1000
    BY ONLY <2>1, PaisePlain
  <2>3. ReadNumber(P) = p
    BY ONLY <2>1, <2>2, ReadsIndian
  <2>4. Said(s, R, P)
    BY <1>3, <1>5, Zenon DEF Said
  <2>. HIDE DEF R, P
  <2>5. /\ Last(s) = Paise
        /\ Cut(s) = Len(R) + 1
        /\ SubSeq(s, 1, Len(R)) = R
        /\ SubSeq(s, Len(R) + 2, Len(s) - 1) = P
    BY ONLY <1>2, <2>2, <2>4, CutAtLastAnd
  <2>6. i - 1 = Len(R) /\ i + 1 = Len(R) + 2
    BY <1>2, LenProperties
  <2>. DEFINE cut == Cut(s)
  <2>7. ReadAmount(s) = [rupees |-> ReadNumber(SubSeq(s, 1, cut - 1)),
                         paise |-> ReadNumber(SubSeq(s, cut + 1, Len(s) - 1))]
    BY <2>5, Zenon DEF ReadAmount, Cut
  <2>8. cut - 1 = Len(R) /\ cut + 1 = Len(R) + 2
    BY <2>5, <2>6
  <2>. HIDE DEF cut
  <2>9. ReadAmount(s) = [rupees |-> ReadNumber(R), paise |-> ReadNumber(P)]
    BY <2>5, <2>7, <2>8, Zenon
  <2>. QED
    BY <1>1, <1>2, <2>3, <2>9, Zenon DEF s
<1>. QED
  BY <1>4, <1>5

-----------------------------------------------------------------------------

\* What is on paper was written for one of the amounts.
WordsInv == words # << >> => \E a \in Amounts : words = [amount |-> a, text |-> AmountInWords(a)]

LEMMA WordsInvariant == PricingSpec => []WordsInv
<1>1. PricingInit => WordsInv
  BY DEF PricingInit, WordsInv
<1>2. WordsInv /\ [PricingNext]_pricingVars => WordsInv'
  <2>. SUFFICES ASSUME WordsInv, [PricingNext]_pricingVars PROVE WordsInv'
    OBVIOUS
  <2>1. CASE PriceCart
    BY ONLY WordsInv, <2>1, Zenon DEF WordsInv, PriceCart
  <2>2. CASE DrawInvoice
    BY ONLY WordsInv, <2>2, Zenon DEF WordsInv, DrawInvoice
  <2>3. CASE WriteTotal
    BY ONLY <2>3, Zenon DEF WordsInv, WriteTotal
  <2>4. CASE UNCHANGED pricingVars
    BY ONLY WordsInv, <2>4, Zenon DEF WordsInv, pricingVars
  <2>. QED
    BY <2>1, <2>2, <2>3, <2>4, Zenon DEF PricingNext
<1>. QED
  BY <1>1, <1>2, PTL DEF PricingSpec

\* number_to_indian_words and the paise behind it: what an invoice writes of any
\* grand total the column can hold reads back as that total, to the paisa.
THEOREM TotalsReadBack == PricingSpec => []WordsSayTheAmount
<1>1. WordsInv => WordsSayTheAmount
  <2>. SUFFICES ASSUME words # << >>, WordsInv PROVE ReadAmount(words.text) = words.amount
    BY DEF WordsSayTheAmount
  <2>1. PICK a \in Amounts : words = [amount |-> a, text |-> AmountInWords(a)]
    BY Zenon DEF WordsInv
  <2>2. words.text = AmountInWords(a) /\ words.amount = a
    BY ONLY <2>1
  <2>3. a \in [rupees : Nat, paise : 0 .. 99] /\ a.rupees \div Crore < 1000
    BY PricingAssumption, SMT DEF PricingAssumption, Crore
  <2>4. ReadAmount(AmountInWords(a)) = a
    BY ONLY <2>3, AmountRead
  <2>. QED
    BY <2>2, <2>4
<1>. QED
  BY <1>1, WordsInvariant, PTL
=============================================================================
