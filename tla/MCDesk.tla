-------------------------------- MODULE MCDesk --------------------------------
(***************************************************************************)
(* An operator (o) and a customer (c).  Four scenes: two sessions of the   *)
(* operator and a code tried twice; a session used now and then while time *)
(* passes; tickets answered while the customer leaves; and a customer's    *)
(* messages, with a ticket raised in them that the operator looks at.      *)
(***************************************************************************)
EXTENDS Desk, TLC

CONSTANTS o, c, ot, ct, k1, k2, m1, m2, t1, c1

LoginsDef == o :> ot @@ c :> ct

Ask(op, k, with) ==
  with @@ [op |-> op, token |-> k, code |-> 0, ticket |-> None, status |-> None]
Nothing == [x \in {} |-> None]
Locked == [email |-> o, unlocked |-> FALSE]
Unlocked == [email |-> o, unlocked |-> TRUE]

Scene(ask, open, tickets, kept, says, besides, horizon) ==
  [ask |-> ask, open |-> open, tickets |-> tickets, kept |-> kept, says |-> says,
   besides |-> besides, horizon |-> horizon]

Ticket == t1 :> [tenant |-> ct, conversation |-> c1, status |-> "open"]
Talk(n) == c1 :> [tenant |-> ct, turns |-> [n |-> n, said |-> [i \in 1..n |-> t1]], updated |-> 0]

Codes ==
  {Scene(<<Ask("unlock", k1, [code |-> a]), Ask("unlock", k2, [code |-> 1]),
           Ask(op, k2, [ticket |-> t1])>>,
         k1 :> Locked @@ k2 :> Locked, Ticket, Nothing, Nothing, more[1], more[2]) :
     a \in {0, 1}, op \in {"view", "lock"},
     more \in {<<{}, 3>>, <<{"restart"}, 1>>, <<{"sign out"}, 0>>, <<{"reset"}, 0>>}}

Visits ==
  {Scene(<<Ask("me", k1, Nothing), Ask("me", k1, Nothing), Ask("log", k1, Nothing)>>,
         k1 :> Unlocked @@ k2 :> [email |-> c, unlocked |-> FALSE],
         Nothing, Nothing, Nothing, {}, 6),
   Scene(<<Ask("me", k2, Nothing), Ask("view", k1, [ticket |-> t1])>>,
         k1 :> Unlocked @@ k2 :> [email |-> c, unlocked |-> FALSE],
         Ticket, Nothing, Nothing, {"sign out"}, 5),
   Scene(<<Ask("account", k1, [ticket |-> ct])>>, k1 :> Unlocked, Nothing, Nothing, Nothing,
         {"delete"}, 0)}

Answers ==
  {Scene(<<Ask("reply", k1, [ticket |-> t1, status |-> "answered"]),
           Ask(op, k1, [ticket |-> t1, status |-> "resolved"])>>,
         k1 :> Unlocked, Ticket, Nothing, Nothing, {"delete", "restart"}, 0) :
     op \in {"reply", "status"}}

Says(conversation) == [tenant |-> ct, conversation |-> conversation]

Chats ==
  {Scene(<<>>, Nothing, Nothing, Talk(n), m1 :> Says(a) @@ m2 :> Says(c1), more[1], more[2]) :
     n \in {0, 2, 3}, a \in {None, c1}, more \in {<<{"delete"}, 0>>, <<{}, 3>>}}
  \cup
  {Scene(<<Ask("status", k1, [ticket |-> <<m1, 1>>, status |-> "resolved"])>>,
         k1 :> Unlocked, Nothing, Nothing, m1 :> Says(None), {"delete", "restart"}, 0)}

ScenariosDef == Codes \cup Visits \cup Answers \cup Chats
ResponsesDef == {<<"read">>, <<"escalate", "read">>}
===============================================================================
