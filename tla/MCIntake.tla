-------------------------------- MODULE MCIntake --------------------------------
(***************************************************************************)
(* What comes in from outside, each in the executions of its own part, the *)
(* others at rest: the rows a rail lists, the rows of an uploaded file,    *)
(* and Stripe's events of the Pro plan.                                    *)
(*                                                                         *)
(* fetch: the rails of SampleRails, four records and one arrival.          *)
(* reading: the uploads of SampleUploads.                                  *)
(* billing: one account, two subscriptions, one after the other or both    *)
(* open; two handlers, and the events in any order and any number of times. *)
(***************************************************************************)
EXTENDS SampleRails, SampleUploads, Billing

CONSTANTS h1, h2

VARIABLE part

-----------------------------------------------------------------------------
\* The fetch at rest: a table was read to its end.
FetchRests ==
  /\ rail = PostgresTables(9)
  /\ held = Start /\ read = Start /\ rows = 1..Start
  /\ day = [x \in Records |-> From]
  /\ wanted = Records
  /\ cursor = None
  /\ pc = "done"
  /\ coverage = [truncated |-> FALSE, from |-> None, to |-> None]

\* The reading at rest: nothing was uploaded.
ReadingRests ==
  /\ todo = <<>>
  /\ at = "read" /\ sheet = NoSheet /\ cols = <<>> /\ out = Nothing /\ seen = {} /\ i = 1
  /\ kept = <<>>

IntakeInit ==
  /\ part \in {"fetch", "reading", "billing"}
  /\ IF part = "fetch" THEN Init ELSE FetchRests
  /\ IF part = "reading" THEN ReadInit ELSE ReadingRests
  /\ BillingInit

OfFetch(A) == part = "fetch" /\ A /\ UNCHANGED <<part, readingVars, billingVars>>

IntakeNext ==
  \/ OfFetch(Next)
  \/ part = "reading" /\ ReadNext /\ UNCHANGED <<part, vars, billingVars>>
  \/ part = "billing" /\ BillingNext /\ UNCHANGED <<part, vars, readingVars>>

\* The fairness of FetchSide's FairSpec; nothing else is promised to happen.
IntakeSpec ==
  /\ IntakeInit
  /\ [][IntakeNext]_<<part, vars, readingVars, billingVars>>
  /\ WF_vars(OfFetch(NextPage \/ LastPage))
=================================================================================
