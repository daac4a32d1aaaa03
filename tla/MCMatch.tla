------------------------------- MODULE MCMatch -------------------------------
(***************************************************************************)
(* The declarations Okwan ships, each over a few records of its two kinds, *)
(* and two more that reach the rest of the engine: pairs, with phone       *)
(* numbers, two causes of one difference and every coverage; and groups,   *)
(* several payments under one order's reference, then several batches      *)
(* summing to one deposit of one merchant id.                              *)
(***************************************************************************)
EXTENDS MatchReport

INSTANCE ShippedDeclarations

Bounded == {[truncated |-> FALSE, from |-> None, to |-> 1]}

\* An input of a declaration.  Fields alike are pairs of fields that agree when
\* nothing but the declared causes parts the two figures.
InputOf(declaration, left, right, alike, coverages) ==
  [keys |-> declaration.keys,
   left |-> {View(declaration.left, l) : l \in left},
   right |-> {View(declaration.right, r) : r \in right},
   coverages |-> coverages,
   declared |-> [amount |-> Resolved(declaration), explains |-> declaration.explains, alike |-> alike]]

-----------------------------------------------------------------------------
(* The records.  Amounts are minor units.                                    *)

Order(name, received, refunded, day) ==
  [name |-> name, total_received_minor |-> received, total_refunded_minor |-> refunded,
   net_payment_minor |-> NetPayment(received, refunded), currency |-> "USD", created_at |-> day]

Payment(reference, amount, currency, day) ==
  [reference |-> reference, amount |-> amount, currency |-> currency, created_at |-> day]

Paypal(invoice_id, amount, fee, currency, day) ==
  [invoice_id |-> invoice_id, amount_minor |-> amount, fee_minor |-> fee,
   net_minor |-> PaypalNet(amount, fee), currency |-> currency, initiated_at |-> day]

Charge(order_ref, amount, refunded, fee, day) ==
  [order_ref |-> order_ref, amount |-> amount, amount_refunded |-> refunded, fee_minor |-> fee,
   net_minor |-> StripeNet(amount, refunded, fee), currency |-> "USD", created |-> day]

Batch(mid, net, day) == [mid |-> mid, net_minor |-> net, currency |-> "USD", closed_on |-> day]
Deposit(amount, day) == [amount_minor |-> amount, currency |-> "USD", posted_on |-> day]

SquarePayment(id, total) == [id |-> id, total_minor |-> total, currency |-> "USD"]
PayoutEntry(payment_id, gross, fee) ==
  [payment_id |-> payment_id, gross_minor |-> gross, fee_minor |-> fee, net_minor |-> gross - fee,
   currency |-> "USD"]
SquarePayout(amount, day) == [amount_minor |-> amount, currency |-> "USD", arrival_date |-> day]

Ticket(id, total) == [id |-> id, total_minor |-> total, currency |-> "USD"]
CloverPayment(order_id, amount, currency) ==
  [order_id |-> order_id, amount_minor |-> amount, currency |-> currency]
CardPayment(amount, tip, card, code, day) ==
  [total_minor |-> CloverTotal(amount, tip), card_last4 |-> card, auth_code |-> code,
   currency |-> "USD", created_on |-> day]
Settled(amount, card, code, day) ==
  [amount_minor |-> amount, card_last4 |-> card, auth_code |-> code, currency |-> "USD",
   transacted_on |-> day]

\* A payout of its lines less the fee of an instant one.
Payout(id, lines, fee, day) ==
  [payout_id |-> id, lines_minor |-> lines, payout_fee_minor |-> fee, net_minor |-> lines - fee,
   currency |-> "USD", paid_on |-> day]
PayoutLine(id, net) == [payout_id |-> id, net_minor |-> net, currency |-> "USD"]

Alike(left, right) == [left |-> left, right |-> right]

-----------------------------------------------------------------------------
ShopifyOrders == InputOf(shopify_orders,
  {Payment("A", 10, "USD", 1), Payment(None, 7, "USD", 2), Payment("B", 10, "EUR", 1)},
  {Order("A", 10, 3, 1), Order("B", 10, 0, 20)},
  {Alike("amount", "total_received_minor")}, Bounded)

\* Orders without refunds; for those with one see PaypalRefunded.
ShopifyPaypal == InputOf(shopify_paypal,
  {Order("A", 10, 0, 1), Order("B", 7, 0, 2)},
  {Paypal("A", 10, -2, "USD", 1), Paypal(None, 7, None, "USD", 9), Paypal(None, None, None, "USD", 1)},
  {Alike("total_received_minor", "amount_minor")}, Bounded)

PaypalRefunded == InputOf(shopify_paypal,
  {Order("A", 10, 4, 1)}, {Paypal("A", 10, -2, "USD", 1), Paypal("B", 10, -2, "USD", 1)},
  {Alike("total_received_minor", "amount_minor")}, {NoCoverage})

ShopifyStripe == InputOf(shopify_stripe,
  {Order("A", 10, 4, 1), Order("B", 7, 0, 2)},
  {Charge("A", 10, 4, 2, 1), Charge(None, 7, 0, None, 3), Charge("B", 7, 0, 1, 3)},
  {Alike("total_received_minor", "amount"), Alike("total_refunded_minor", "amount_refunded")}, Bounded)

BatchesDeposits == InputOf(batches_deposits,
  {Batch("m1", 2, 0), Batch("m1", 3, 1), Batch("m2", 3, 1)},
  {Deposit(5, 1), Deposit(3, 4), Deposit(3, 5)}, {}, Bounded)

SquarePaymentsPayouts == InputOf(square_payments_payouts,
  {SquarePayment("p1", 10), SquarePayment("p2", 10)},
  {PayoutEntry("p1", 10, 1), PayoutEntry("p2", 8, 1), PayoutEntry("p3", 10, 1)},
  {Alike("total_minor", "gross_minor")}, {NoCoverage})

SquarePayoutsDeposits == InputOf(square_payouts_deposits,
  {SquarePayout(5, 0), SquarePayout(5, 1)}, {Deposit(5, 0), Deposit(5, 2), Deposit(5, 3)}, {}, Bounded)

CloverOrdersPayments == InputOf(clover_orders_payments,
  {Ticket("t1", 6), Ticket("t2", 6)},
  {CloverPayment("t1", 3, "USD"), CloverPayment("t2", 6, "USD"), CloverPayment("t1", 2, "EUR")},
  {}, {NoCoverage})

CloverSettlements == InputOf(clover_payments_settlements,
  {CardPayment(4, 1, "1111", "x", 0), CardPayment(5, None, None, "y", 0)},
  {Settled(5, "1111", None, 0), Settled(5, None, "y", 1), Settled(5, "2222", "x", 0)}, {}, Bounded)

DeliveryLines == InputOf(delivery_payout_lines,
  {Payout("d1", 6, 2, 0), Payout("d2", 6, 0, 0)},
  {PayoutLine("d1", 3), PayoutLine("d1", 6), PayoutLine("d2", 6)},
  {Alike("lines_minor", "net_minor")}, {NoCoverage})

DeliveryDeposits == InputOf(delivery_payouts_deposits,
  {Payout("d1", 6, 0, 0), Payout("d2", 6, 1, 1)}, {Deposit(6, 3), Deposit(5, 4), Deposit(6, 5)}, {}, Bounded)

-----------------------------------------------------------------------------
Seen(ref, card, phones, cur, amt, day, mid) ==
  [ref |-> ref, agree |-> [card |-> card], phones |-> phones, cur |-> cur, amt |-> amt, day |-> day,
   mid |-> mid, figures |-> [amount |-> amt, fee |-> 1, chargeback |-> 1]]

Pairs == [
  keys |-> <<ExactRef, [Fuzzy EXCEPT !.win = 1]>>,
  left |-> {
    Seen("A", None, {}, "USD", 5, 0, None),
    Seen("A", "1111", {"33", "44"}, "USD", 5, 2, None),
    Seen(None, "2222", {}, "USD", 5, 1, None)},
  right |-> {
    Seen("A", "1111", {}, "USD", 5, 1, None),
    Seen("A", None, {}, "EUR", 7, 3, None),
    Seen(None, None, {"55"}, "USD", 5, 1, None),
    Seen("C", "2222", {"44"}, "USD", 3, None, None)},
  coverages |-> {
    NoCoverage,
    [truncated |-> TRUE, from |-> None, to |-> None],
    [truncated |-> FALSE, from |-> 1, to |-> 2]},
  declared |-> [
    amount |-> Compares("amount", "amount"),
    explains |-> <<Explains("fee", "right", "fee", "either"),
                   Explains("chargeback", "right", "chargeback", "positive")>>,
    alike |-> {}]]

Groups == [
  keys |-> <<GroupRef(2), [GroupSum(1) EXCEPT !.members = 2, !.candidates = 2]>>,
  left |-> {
    Seen("A", None, {}, "USD", 2, 1, "m1"),
    Seen(None, None, {}, "USD", 2, 0, "m1"),
    Seen(None, None, {}, "USD", 1, 1, "m1"),
    Seen(None, None, {}, "USD", 3, 1, "m2")},
  right |-> {
    Seen("A", None, {}, "USD", 1, 1, "m1"),
    Seen("A", None, {}, "EUR", 1, 2, "m1"),
    Seen(None, None, {}, "USD", 3, 1, "m1"),
    Seen(None, None, {}, "USD", 2, 3, "m1")},
  coverages |-> Bounded,
  declared |-> [
    amount |-> Compares("amount", "amount"),
    explains |-> <<Explains("fee", "right", "fee", "negative")>>,
    alike |-> {}]]

InputsDef ==
  {Pairs, Groups, ShopifyOrders, ShopifyPaypal, ShopifyStripe, BatchesDeposits, SquarePaymentsPayouts,
   SquarePayoutsDeposits, CloverOrdersPayments, CloverSettlements, DeliveryLines, DeliveryDeposits}

RefundedDef == {PaypalRefunded}
=============================================================================
