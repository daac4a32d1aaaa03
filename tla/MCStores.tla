-------------------------------- MODULE MCStores --------------------------------
(* Both stores over three tenants: a root, its child, and one not yet made.  *)
EXTENDS Stores
CONSTANTS r1, c1, t3, k1, k2, s1, s2
MCMaxClock == [keys |-> 0, usage |-> 1, billing |-> 0, logins |-> 1, sessions |-> 3, runs |-> 2,
               support |-> 3, tickets |-> 0, files |-> 3, layouts |-> 0]
================================================================================
