------------------------------- MODULE MCImports -------------------------------
(***************************************************************************)
(* Two uploads of one file where an old copy may expire and be deleted, an *)
(* upload of another beside them, and layouts at their limit.              *)
(***************************************************************************)
EXTENDS Imports

CONSTANTS r1, r2, r3, o1, o2, c1, c2, n1, n2, n3

Job(kind, what, layout, file) == [kind |-> kind, content |-> what, layout |-> layout, file |-> file]
Uploads(what)         == Job("upload", what, None, None)
UploadsAs(what, name) == Job("upload", what, name, None)
Deletes(file)         == Job("delete", None, None, file)
Saves(name)           == Job("save", None, name, None)
Drops(name)           == Job("drop", None, name, None)

Jobs(a, b, c) == [r \in Requests |-> CASE r = r1 -> a [] r = r2 -> b [] r = r3 -> c]
OldDef == [f \in Old |-> IF f = o1 THEN c1 ELSE c2]

Scenario(jobs, stored, names) ==
  [job |-> jobs, old |-> OldDef, stored |-> stored, layouts |-> names]

ScenariosDef == {
  Scenario(Jobs(Uploads(c1), Uploads(c1), Deletes(o1)), Old, {}),
  Scenario(Jobs(Uploads(c1), Uploads(c2), Deletes(r1)), Old, {}),
  Scenario(Jobs(UploadsAs(c1, n1), Drops(n1), Saves(n1)), {}, {n1}),
  Scenario(Jobs(Saves(n1), Saves(n2), Saves(n3)), {}, {}),
  Scenario(Jobs(Saves(n2), Saves(n3), Drops(n1)), {}, {n1})}
=============================================================================
