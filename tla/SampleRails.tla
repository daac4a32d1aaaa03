------------------------------ MODULE SampleRails ------------------------------
(***************************************************************************)
(* The connectors' list operations as rails of FetchSide, read to caps that *)
(* fall inside a page, on a page, and past the end.                        *)
(***************************************************************************)
EXTENDS FetchSide

Rail(pager, window, states, newest, filtered, limited, cap) ==
  [pager |-> pager, window |-> window, states |-> states, newest |-> newest,
   filtered |-> filtered, limited |-> limited, cap |-> cap]

Stripe(cap)         == Rail("keyed", "none", FALSE, TRUE, TRUE, TRUE, cap)
ShopifyOrders(cap)  == Rail("keyed", "from", TRUE, FALSE, FALSE, TRUE, cap)
Files(cap)          == Rail("keyed", "both", TRUE, FALSE, FALSE, TRUE, cap)
Paystack(cap)       == Rail("numbered", "none", FALSE, TRUE, FALSE, TRUE, cap)
PayPal(cap)         == Rail("sliced", "both", TRUE, FALSE, FALSE, TRUE, cap)
Clover(cap)         == Rail("offset", "both", TRUE, FALSE, TRUE, TRUE, cap)
PostgresTables(cap) == Rail("container", "none", FALSE, FALSE, FALSE, FALSE, cap)
PostgresQuery(cap)  == Rail("container", "none", FALSE, FALSE, FALSE, TRUE, cap)

\* Paystack counts pages from the newest record, so it is read without
\* arrivals; no page-numbered walk is one whose last page the cap would cut.
RailsDef ==
  UNION {{Stripe(c), ShopifyOrders(c), Files(c), Clover(c), PostgresTables(c)} : c \in {3, 4, 9}}
    \cup {Paystack(2), Paystack(4), Paystack(8), PayPal(8), PayPal(9)}

QueryOnly == {PostgresQuery(9)}
=============================================================================
