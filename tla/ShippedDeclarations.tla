-------------------------- MODULE ShippedDeclarations --------------------------
(***************************************************************************)
(* The reconciliations Okwan ships (packages/recon/okwan_recon/            *)
(* declarations.py), as values, and what each makes of a record: the       *)
(* fields its rules read (MatchEngine) and all its fields, for the figures *)
(* MatchReport compares.                                                   *)
(*                                                                         *)
(* A declaration is its keys, the field each side holds each thing in, the *)
(* figures compared on a pair, and the causes that may explain their       *)
(* difference.  Where a side has no such field it is None.                 *)
(***************************************************************************)
EXTENDS Integers, Sequences

CONSTANT None

-----------------------------------------------------------------------------
(* The rules and their defaults (declaration.py).                            *)

Key(kind) ==
  [kind |-> kind, many |-> "right", tol |-> 0, win |-> 7, lag |-> FALSE, min |-> 0, max |-> 0,
   forward |-> TRUE, members |-> 0, candidates |-> 0]

ExactRef         == Key("exact")
Fuzzy            == Key("fuzzy")
LaggedFuzzy(max) == [Key("fuzzy") EXCEPT !.lag = TRUE, !.max = max]
GroupRef(members) == [Key("group_ref") EXCEPT !.members = members]
GroupSum(max) ==
  [Key("group_sum") EXCEPT !.many = "left", !.lag = TRUE, !.max = max, !.members = 8, !.candidates = 24]

Explains(label, side, field, sign) == [label |-> label, side |-> side, fields |-> {field}, sign |-> sign]

\* Where a side's records hold what the rules read.
Fields(ref, amt, day) == [ref |-> ref, amt |-> amt, day |-> day, agree |-> {}, mid |-> None]

\* AmountRef: the figures compared.
Compares(left, right) == [left |-> left, right |-> right]

-----------------------------------------------------------------------------
(* The computed fields of the connectors' records (schemas.py).              *)

NetPayment(received, refunded) == received - refunded
PaypalNet(amount, fee)         == IF amount = None THEN None ELSE amount + (IF fee = None THEN 0 ELSE fee)
StripeNet(amount, refunded, fee) == amount - refunded - (IF fee = None THEN 0 ELSE fee)
CloverTotal(amount, tip)       == amount + (IF tip = None THEN 0 ELSE tip)

-----------------------------------------------------------------------------
shopify_orders ==
  [keys     |-> <<ExactRef, Fuzzy>>,
   left     |-> Fields("reference", "amount", "created_at"),
   right    |-> Fields("name", "net_payment_minor", "created_at"),
   amount   |-> Compares("amount", "net_payment_minor"),
   explains |-> <<Explains("refund", "right", "total_refunded_minor", "positive")>>]

shopify_paypal ==
  [keys     |-> <<ExactRef, Fuzzy>>,
   left     |-> Fields("name", "total_received_minor", "created_at"),
   right    |-> Fields("invoice_id", "amount_minor", "initiated_at"),
   amount   |-> Compares("net_payment_minor", "net_minor"),
   explains |-> <<Explains("rail_fee", "right", "fee_minor", "positive"),
                  Explains("refund", "left", "total_refunded_minor", "positive")>>]

shopify_stripe ==
  [keys     |-> <<ExactRef, Fuzzy>>,
   left     |-> Fields("name", "total_received_minor", "created_at"),
   right    |-> Fields("order_ref", "amount", "created"),
   amount   |-> Compares("net_payment_minor", "net_minor"),
   explains |-> <<Explains("rail_fee", "right", "fee_minor", "positive")>>]

batches_deposits ==
  [keys     |-> <<GroupSum(3)>>,
   left     |-> [Fields(None, "net_minor", "closed_on") EXCEPT !.mid = "mid"],
   right    |-> Fields(None, "amount_minor", "posted_on"),
   amount   |-> None,
   explains |-> <<>>]

square_payments_payouts ==
  [keys     |-> <<ExactRef>>,
   left     |-> Fields("id", None, None),
   right    |-> Fields("payment_id", None, None),
   amount   |-> Compares("total_minor", "net_minor"),
   explains |-> <<Explains("square_fee", "right", "fee_minor", "positive")>>]

square_payouts_deposits ==
  [keys     |-> <<LaggedFuzzy(2)>>,
   left     |-> Fields(None, "amount_minor", "arrival_date"),
   right    |-> Fields(None, "amount_minor", "posted_on"),
   amount   |-> None,
   explains |-> <<>>]

clover_orders_payments ==
  [keys     |-> <<GroupRef(20)>>,
   left     |-> Fields("id", None, None),
   right    |-> Fields("order_id", None, None),
   amount   |-> Compares("total_minor", "amount_minor"),
   explains |-> <<>>]

Card == {"card_last4", "auth_code"}

clover_payments_settlements ==
  [keys     |-> <<LaggedFuzzy(1)>>,
   left     |-> [Fields(None, "total_minor", "created_on") EXCEPT !.agree = Card],
   right    |-> [Fields(None, "amount_minor", "transacted_on") EXCEPT !.agree = Card],
   amount   |-> None,
   explains |-> <<>>]

delivery_payout_lines ==
  [keys     |-> <<GroupRef(5000)>>,
   left     |-> Fields("payout_id", None, None),
   right    |-> Fields("payout_id", None, None),
   amount   |-> Compares("net_minor", "net_minor"),
   explains |-> <<Explains("instant_payout_fee", "left", "payout_fee_minor", "negative")>>]

delivery_payouts_deposits ==
  [keys     |-> <<LaggedFuzzy(3)>>,
   left     |-> Fields(None, "net_minor", "paid_on"),
   right    |-> Fields(None, "amount_minor", "posted_on"),
   amount   |-> None,
   explains |-> <<>>]

-----------------------------------------------------------------------------
Held(record, field) == IF field = None THEN None ELSE record[field]

\* A record as the rules of a declaration see it.
View(fields, record) ==
  [ref |-> Held(record, fields.ref), agree |-> [field \in fields.agree |-> record[field]],
   phones |-> {}, cur |-> record.currency, amt |-> Held(record, fields.amt),
   day |-> Held(record, fields.day), mid |-> Held(record, fields.mid), figures |-> record]

\* resolved_amount: the figures declared, or those the first Fuzzy or GroupSum joins on.
Resolved(declaration) ==
  IF declaration.amount # None THEN declaration.amount
  ELSE IF \E i \in DOMAIN declaration.keys : declaration.keys[i].kind \in {"fuzzy", "group_sum"}
  THEN Compares(declaration.left.amt, declaration.right.amt)
  ELSE None
================================================================================
