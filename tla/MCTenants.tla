------------------------------- MODULE MCTenants -------------------------------
(***************************************************************************)
(* A platform (p), its merchant (m) and that merchant's outlet (o), and a  *)
(* stranger (s), with a key each.  Requests that read rails, three at a    *)
(* time, beside a plan change and a month's turn, or a connection test;    *)
(* and every pair of other requests beside the deletion of any tenant.     *)
(***************************************************************************)
EXTENDS TenantApi, TLC

CONSTANTS p, m, o, s, kp, km, ko, ks

TreeDef == p :> None @@ m :> p @@ o :> m @@ s :> None
KeysDef == kp :> p @@ km :> m @@ ko :> o @@ ks :> s
LimitDef == [free |-> 2, pro |-> 3, enterprise |-> 0]

Ask(op, key, on) == [op |-> op, key |-> key, on |-> on]
Nothing == Ask("list", None, None)

Operation == Ask("operation", kp, None)
Query == Ask("query", kp, None)
Outlet(op) == Ask(op, ko, None)
Run == Ask("run", kp, o)

Reading ==
  [ask : {<<Operation, Query, Outlet("operation")>>},
   doomed : {{m}}, bought : {{<<p, "pro">>, <<p, "free">>}}, months : {1}, made : {o :> 1}]
  \cup
  [ask : {<<Outlet("operation"), Outlet("query"), Run>>},
   doomed : {{m}}, bought : {{<<p, "pro">>}}, months : {0}, made : {o :> 2}]
  \cup
  [ask : {<<Ask("test", kp, m), Operation, Outlet("reconcile")>>},
   doomed : {{}}, bought : {{}}, months : {0}, made : {o :> 1}]

Acts ==
  {Ask(op, k, t) : op \in {"issue", "put", "list", "history", "usage", "run", "test"},
                   k \in {kp, km, ks}, t \in {m, o}}
  \cup {Ask("revoke", k, x) : k \in {kp, ko, ks}, x \in {km, None}}
  \cup {Ask("create", kp, None), Ask("create", km, None)}

Acting ==
  [ask : {<<a, b, Nothing>> : a \in Acts, b \in {Ask("revoke", kp, km), Ask("run", km, o)}},
   doomed : {{p, m, o}}, bought : {{<<p, "enterprise">>}}, months : {0},
   made : {o :> 1}]

ScenariosDef == Reading \cup Acting
================================================================================
