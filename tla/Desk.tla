--------------------------------- MODULE Desk ---------------------------------
(***************************************************************************)
(* The support desk as a whole: customers and the assistant on one side    *)
(* (SupportDesk), operators on the other (OperatorConsole), over one vault *)
(* and in one process, which stops for both at once.                       *)
(***************************************************************************)
EXTENDS OperatorConsole, Sequences

CONSTANTS Responses, MaxRounds, MaxTurns

\* Ids are minted: no conversation or ticket there at the start has one a
\* message will mint.  What was kept counts its turns.
ASSUME DeskAssumption ==
  /\ MaxTurns \in Nat
  /\ \A s \in Scenarios :
       /\ DOMAIN s.kept \cap DOMAIN s.says = {}
       /\ \A i \in DOMAIN s.tickets, m \in DOMAIN s.says : i \notin {m} \X Nat
       /\ \A c \in DOMAIN s.kept :
            LET turns == s.kept[c].turns
            IN  /\ turns.said \in Seq({turns.said[i] : i \in 1..Len(turns.said)})
                /\ turns.n = Len(turns.said) /\ turns.n <= MaxTurns
                /\ s.kept[c].updated = 0

VARIABLES talk, notices, met

Support == INSTANCE SupportDesk

DeskInit == Init /\ Support!SupportInit

DeskNext ==
  \/ Restart /\ Support!Stop
  \/ Elsewhere /\ UNCHANGED <<talk, notices, met>>
  \/ \E r \in Requests : Handle(r) /\ UNCHANGED <<talk, notices, met>>
  \/ \E m \in Support!Messages : Support!Assist(m) /\ UNCHANGED consoleVars

DeskSpec == DeskInit /\ [][DeskNext]_<<vars, talk, notices, met>>

\* A message that was answered is in its conversation (SupportDesk).
AnsweredIsKept == Support!AnsweredIsKept

\* What is sent about a ticket, either way, and what is stored about it agree:
\* the replies with the mail service (RepliesAreTrue), the tickets with what
\* the customer and the operator were told (SupportDesk, TicketsAreTrue).
CorrespondenceIsTrue == RepliesAreTrue /\ Support!TicketsAreTrue
===============================================================================
