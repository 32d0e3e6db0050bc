------------------------------- MODULE Pricing --------------------------------
(***************************************************************************)
(* What a cart costs and what the invoice says of it: price_cart           *)
(* (services/cart.py), GST (services/tax.py), the discount of a coupon     *)
(* (services/coupon.py) and the invoice (services/invoice.py).  Prices     *)
(* include GST.  Money is an integer number of paise, rates and            *)
(* percentages are hundredths of a percent; Decimal loses nothing before   *)
(* the roundings that are written out here.                                *)
(***************************************************************************)
EXTENDS Integers, SequencesExt

CONSTANTS
    CartLines,      \* cart lines: [unit, quantity, rate]
    MaxLines,       \* bound: lines of a cart
    Offers,         \* coupons: [type, value, cap, minOrder]
    NoOffer, NoCap,
    Freight,        \* what calculate_shipping may ask
    Amounts         \* grand totals to be written out: [rupees, paise]

ASSUME PricingAssumption ==
    /\ CartLines \subseteq [unit : Nat, quantity : Nat \ {0}, rate : 0 .. 10000]
    /\ MaxLines \in Nat \ {0}
    /\ Offers \subseteq [type : {"flat", "percent"}, value : Nat, cap : Nat \cup {NoCap},
                         minOrder : Nat]
    /\ Freight \subseteq Nat
    /\ Amounts \subseteq [rupees : Nat, paise : 0 .. 99]
    /\ \A a \in Amounts : a.rupees \div 10000000 < 1000  \* Numeric(12, 2) has ten digits

VARIABLES
    bill,           \* what price_cart last returned, << >> before that
    invoice,        \* the invoice of an order frozen from it
    words           \* a grand total and what the invoice writes for it

pricingVars == << bill, invoice, words >>

Percent == 10000    \* a hundred percent
Least(a, b) == IF a <= b THEN a ELSE b
Most(a, b) == IF a >= b THEN a ELSE b

\* q of a / b: quantized to paise, ROUND_HALF_UP; nothing negative is rounded.
Rounded(a, b) == (2 * a + b) \div (2 * b)

-----------------------------------------------------------------------------
(* Goods, discount and tax.                                                *)

Gross(line) == line.unit * line.quantity

\* Mutant of Discount: an offer may be worth more than the order.
DiscountUnbounded(offer, subtotal) ==
    IF offer.type = "flat" THEN offer.value ELSE Rounded(subtotal * offer.value, Percent)

\* compute_discount; both bounds are whole paise, so rounding first is the same.
Discount(offer, subtotal) ==
    LET asked == CASE offer.type = "flat" -> offer.value
                   [] offer.type = "percent" /\ offer.cap = NoCap -> Rounded(subtotal * offer.value, Percent)
                   [] OTHER -> Least(Rounded(subtotal * offer.value, Percent), offer.cap)
    IN  Most(0, Least(asked, subtotal))

\* validate_coupon as far as it is about money: an offer that does not apply any
\* more is taken off the cart, and the cart is priced without it.
Applies(offer, subtotal) ==
    offer # NoOffer /\ subtotal >= offer.minOrder /\ Discount(offer, subtotal) > 0
Granted(offer, subtotal) == IF Applies(offer, subtotal) THEN Discount(offer, subtotal) ELSE 0

\* Mutant of Shares: the last line takes its rounded share like the others.
SharesRounded(gross, discount) ==
    [i \in DOMAIN gross |->
        IF discount = 0 THEN 0 ELSE Rounded(discount * gross[i], SumFunction(gross))]

\* The discount of each line: its proportion, and the last absorbs the remainder.
Shares(gross, discount) ==
    LET subtotal == SumFunction(gross)
        rounded == [i \in DOMAIN gross |-> IF discount = 0 THEN 0 ELSE Rounded(discount * gross[i], subtotal)]
        allocated == SumFunctionOnSet(rounded, 1 .. Len(gross) - 1)
    IN  [rounded EXCEPT ![Len(gross)] = discount - allocated]

\* split_inclusive and compute_line_tax; a line is never negative.
TaxedLine(line, share) ==
    LET total == Most(0, Gross(line) - share)
        taxable == Rounded(total * Percent, Percent + line.rate)
    IN  [rate |-> line.rate, subtotal |-> Gross(line), discount |-> share,
         total |-> total, taxable |-> taxable, tax |-> total - taxable]

\* build_tax_breakup: per GST rate, halved within the seller's state, where SGST
\* takes the odd paisa; one IGST line across states.
TaxOfRate(lines, r) ==
    LET ofRate == {i \in DOMAIN lines : lines[i].rate = r}
        tax == SumFunctionOnSet([i \in DOMAIN lines |-> lines[i].tax], ofRate)
    IN  [taxable |-> SumFunctionOnSet([i \in DOMAIN lines |-> lines[i].taxable], ofRate), tax |-> tax]
Breakup(lines, intra) ==
    [r \in {lines[i].rate : i \in DOMAIN lines} |->
        LET bucket == TaxOfRate(lines, r)
            half == Rounded(bucket.tax, 2)
        IN  [taxable |-> bucket.taxable, tax |-> bucket.tax,
             cgst |-> IF intra THEN half ELSE 0,
             sgst |-> IF intra THEN bucket.tax - half ELSE 0,
             igst |-> IF intra THEN 0 ELSE bucket.tax]]

\* is_intra_state of state_code_for: a state STATE_CODES does not have counts as
\* the seller's own.
BuyerStates == {"seller's", "other", "unmapped"}
IsIntraState(state) == state # "other"

Priced(cart, offer, freight, state) ==
    LET gross == [i \in DOMAIN cart |-> Gross(cart[i])]
        subtotal == SumFunction(gross)
        discount == Granted(offer, subtotal)
        share == Shares(gross, discount)
        lines == [i \in DOMAIN cart |-> TaxedLine(cart[i], share[i])]
    IN  [lines |-> lines, subtotal |-> subtotal, discount |-> discount,
         taxable |-> SumFunction([i \in DOMAIN lines |-> lines[i].taxable]),
         tax |-> SumFunction([i \in DOMAIN lines |-> lines[i].tax]),
         intra |-> IsIntraState(state), breakup |-> Breakup(lines, IsIntraState(state)),
         freight |-> freight, total |-> subtotal - discount + freight]

-----------------------------------------------------------------------------
(* The invoice of the order that freezes a bill.                           *)

\* _breakup_from_stored: the components the stored rates have, added up.
Component(breakup, c) == SumFunction([r \in DOMAIN breakup |-> breakup[r][c]])

\* build_item_rows and build_invoice_data.  What it calls the taxable value is what
\* the goods cost less the discount, with the tax: OrderItem rows hold no other.
InvoiceOf(b) ==
    LET cgst == Component(b.breakup, "cgst")
        sgst == Component(b.breakup, "sgst")
        igst == Component(b.breakup, "igst")
    IN  [rows |-> [i \in DOMAIN b.lines |->
                     [taxable |-> b.lines[i].subtotal - b.lines[i].discount,
                      tax |-> b.lines[i].tax, total |-> b.lines[i].total]],
         taxable |-> b.subtotal - b.discount,
         cgst |-> cgst, sgst |-> sgst, igst |-> igst, taxTotal |-> cgst + sgst + igst,
         shipping |-> b.freight, grandTotal |-> b.total]

\* Words stand for themselves as numbers: Five is 5, Ninety 90, Lakh 100000.
Hundred == 100
Thousand == 1000
Lakh == 100000
Crore == 10000000
And == -1
Paise == -2

\* Mutant of WordsUnderThousand: the units after a ten are forgotten.
WordsUnderThousandTens(n) ==
    LET rest == n % 100
    IN  (IF n >= 100 THEN << n \div 100, Hundred >> ELSE << >>)
        \o (IF n >= 100 /\ rest # 0 THEN << And >> ELSE << >>)
        \o (CASE rest = 0 -> << >>
              [] rest \in 1 .. 19 -> << rest >>
              [] OTHER -> << 10 * (rest \div 10) >>)

\* _words_under_thousand: _ONES to nineteen, then _TENS and a unit.
WordsUnderThousand(n) ==
    LET rest == n % 100
        unit == rest % 10
    IN  (IF n >= 100 THEN << n \div 100, Hundred >> ELSE << >>)
        \o (IF n >= 100 /\ rest # 0 THEN << And >> ELSE << >>)
        \o (CASE rest = 0 -> << >>
              [] rest \in 1 .. 19 -> << rest >>
              [] rest >= 20 /\ unit = 0 -> << rest >>
              [] OTHER -> << rest - unit, unit >>)

\* number_to_indian_words; Numeric(12, 2) has fewer than a thousand crore.
Counted(n, scale) == IF n = 0 THEN << >> ELSE WordsUnderThousand(n) \o scale
IndianWords(n) ==
    IF n = 0 THEN << 0 >>
    ELSE Counted(n \div Crore, << Crore >>)
         \o Counted((n % Crore) \div Lakh, << Lakh >>)
         \o Counted((n % Lakh) \div Thousand, << Thousand >>)
         \o Counted(n % Thousand, << >>)

AmountInWords(a) ==
    IndianWords(a.rupees)
    \o (IF a.paise = 0 THEN << >> ELSE << And >> \o IndianWords(a.paise) \o << Paise >>)

\* How a reader takes the words: numbers add up, Hundred multiplies what stands
\* before it, and a larger scale what has come since the last one.
ReadWord(r, w) ==
    CASE w = And -> r
      [] w = Hundred -> [r EXCEPT !.part = @ * 100]
      [] w \in {Thousand, Lakh, Crore} -> [sum |-> r.sum + r.part * w, part |-> 0]
      [] OTHER -> [r EXCEPT !.part = @ + w]
ReadNumber(s) == LET r == FoldLeft(ReadWord, [sum |-> 0, part |-> 0], s) IN r.sum + r.part

\* Words that end in Paise have them after their last And.
ReadAmount(s) ==
    IF Last(s) # Paise THEN [rupees |-> ReadNumber(s), paise |-> 0]
    ELSE LET cut == SelectLastInSeq(s, LAMBDA w : w = And)
         IN  [rupees |-> ReadNumber(SubSeq(s, 1, cut - 1)),
              paise |-> ReadNumber(SubSeq(s, cut + 1, Len(s) - 1))]

-----------------------------------------------------------------------------

\* A cart is viewed or checked out.
PriceCart ==
    \E n \in 1 .. MaxLines, offer \in Offers \cup {NoOffer}, freight \in Freight, state \in BuyerStates :
        \E cart \in [1 .. n -> CartLines] :
            /\ bill = << >> /\ words = << >>
            /\ bill' = Priced(cart, offer, freight, state)
            /\ UNCHANGED << invoice, words >>

\* The order is confirmed and its invoice is drawn up.
DrawInvoice ==
    /\ bill # << >> /\ invoice = << >>
    /\ invoice' = InvoiceOf(bill)
    /\ UNCHANGED << bill, words >>

\* Any order's total, in words.
WriteTotal ==
    \E a \in Amounts :
        /\ words = << >> /\ bill = << >>
        /\ words' = [amount |-> a, text |-> AmountInWords(a)]
        /\ UNCHANGED << bill, invoice >>

PricingInit == bill = << >> /\ invoice = << >> /\ words = << >>
PricingNext == PriceCart \/ DrawInvoice \/ WriteTotal
PricingSpec == PricingInit /\ [][PricingNext]_pricingVars

-----------------------------------------------------------------------------
(* Properties.                                                             *)

\* The parts of a bill agree: lines split into taxable value and tax without loss,
\* the breakup per rate gives the same tax, and the lines add up to the goods in the
\* total.  They exceed it only where the last line is worth less than the remainder
\* it has to absorb, and then by less than half a paisa for each line before it.
\* The invoice asks for the tax of the bill, by the halves of the breakup; but what it
\* prints beside that tax as "Taxable Value" is not the taxable value of the bill (tax.py:
\* gross * 100 / (100 + rate)): it has the tax in it, all but that remainder, so that
\* neither do the rates give the tax nor the printed parts the grand total.
LinesTotal == SumFunction([i \in DOMAIN bill.lines |-> bill.lines[i].total])
GoodsTotal == bill.total - bill.freight
Excess == LinesTotal - GoodsTotal
ChargesAddUp ==
    bill # << >> =>
        /\ bill.taxable + bill.tax = LinesTotal
        /\ bill.tax = Component(bill.breakup, "tax")
        /\ bill.taxable = Component(bill.breakup, "taxable")
        /\ Excess >= 0
        /\ Excess > 0 => Last(bill.lines).total = 0 /\ 2 * Excess < Len(bill.lines) - 1
        /\ invoice # << >> =>
              /\ invoice.taxTotal = bill.tax
              /\ invoice.taxable = (bill.taxable + bill.tax) - Excess

\* The amount in words on an invoice reads back as the amount.
WordsSayTheAmount == words # << >> => ReadAmount(words.text) = words.amount

PricingTypeOK ==
    /\ bill # << >> => bill.total \in Nat /\ bill.discount \in 0 .. bill.subtotal
    /\ invoice # << >> => bill # << >>
=============================================================================
