------------------------------ MODULE SupportDesk ------------------------------
(***************************************************************************)
(* The support assistant (apps/api/okwan_api/support.py): one customer     *)
(* message to the model, the tools the model runs as the caller, and the   *)
(* conversation that is kept.  The model, the mail service and the vault   *)
(* are awaited; a step is the code between two awaits.  What a tool        *)
(* answers and what a message says are left out: redaction and wording     *)
(* change no step.                                                         *)
(***************************************************************************)
EXTENDS PostgresStore, Sequences

CONSTANTS
  Responses,  \* the tool calls one model response may hold
  MaxRounds,  \* MAX_TOOL_ROUNDS
  MaxTurns    \* MAX_TURNS

VARIABLES
  db, now, scene,  \* shared with the console; scene.says[m] is what m asks
  talk,     \* [message -> where its handler stands and what it holds]
  notices,  \* history: the tickets the operator's mailbox was told of
  met       \* history: pairs of messages of one conversation in flight together

Unsaid == [pc |-> "sent", said |-> <<>>, n |-> 0, round |-> 0, uses |-> <<>>,
           raised |-> 0, ticket |-> None, answer |-> 0, at |-> 0]

SupportInit ==
  /\ talk = [m \in DOMAIN scene.says |-> Unsaid]
  /\ notices = {}
  /\ met = {}

\* Requests to /v1/support/messages; an id is minted for each.
Messages == DOMAIN scene.says
Asked(m) == scene.says[m]
Of(m) == Asked(m).tenant
\* `sup_...`: the conversation asked for, or one minted before the model runs.
Conversation(m) == Known(Asked(m).conversation, m)
TicketId(m, k) == <<m, k>>

InFlight(m) == talk[m].pc \notin {"sent", "done", "lost"}
Change(m, changes) ==
  talk' = [talk EXCEPT ![m] =
             [x \in DOMAIN @ |-> IF x \in DOMAIN changes THEN changes[x] ELSE @[x]]]
Reply(m, code) == Change(m, [pc |-> "done", answer |-> code])
Quiet == UNCHANGED <<now, scene>>
Looks == UNCHANGED <<db, notices, met>> /\ Quiet

\* Switched off, or too many messages.
Refuse(m) ==
  /\ talk[m].pc = "sent"
  /\ \E code \in {429, 503} : Reply(m, code)
  /\ Looks

\* Mutant: a message starts its conversation again.
OpenAfresh(m) ==
  /\ talk[m].pc = "sent"
  /\ Change(m, [pc |-> "model", said |-> <<m>>, n |-> 1])
  /\ met' = met \cup {{m, x} : x \in {x \in Messages \ {m} :
                        InFlight(x) /\ Conversation(x) = Conversation(m)}}
  /\ UNCHANGED <<db, notices>> /\ Quiet

\* The conversation as it stands now is what the answer is appended to.
Open(m) ==
  /\ talk[m].pc = "sent"
  /\ LET kept == GetConversation(db, Of(m), Asked(m).conversation)
         old  == IF kept = <<>> THEN [n |-> 0, said |-> <<>>] ELSE kept[1]
     IN  IF Asked(m).conversation # None /\ kept = <<>> THEN Reply(m, 404)
         ELSE IF old.n >= MaxTurns THEN Reply(m, 409)
         ELSE Change(m, [pc |-> "model", said |-> Append(old.said, m), n |-> old.n + 1])
  /\ met' = met \cup {{m, x} : x \in {x \in Messages \ {m} :
                        InFlight(x) /\ Conversation(x) = Conversation(m)}}
  /\ UNCHANGED <<db, notices>> /\ Quiet

\* One call of the model.  The last may not use tools.  An error is answered
\* at once, and nothing is saved.
Model(m) ==
  /\ talk[m].pc = "model"
  /\ \/ Reply(m, 503)
     \/ Change(m, [pc |-> "save"])
     \/ /\ talk[m].round < MaxRounds
        /\ \E uses \in Responses : Change(m, [pc |-> "tool", uses |-> uses])
  /\ Looks

\* The next tool of the response, or the model again with the results.
Onward(m, ticket) ==
  LET rest == Tail(talk[m].uses)
  IN  [ticket |-> ticket, uses |-> rest, pc |-> IF rest = <<>> THEN "model" ELSE "tool",
       round |-> talk[m].round + (IF rest = <<>> THEN 1 ELSE 0)]

Uses(m, tool) == talk[m].pc = "tool" /\ Head(talk[m].uses) = tool

\* A tool that reads: its result, or what was wrong, goes to the model.  The
\* overview of an account that is gone raises.
Read(m) ==
  /\ Uses(m, "read")
  /\ \/ Change(m, Onward(m, talk[m].ticket))
     \/ Of(m) \notin Tenants(db) /\ Reply(m, 500)
  /\ Looks

\* A brief that lacks something is the model's to mend.
Escalate(m) ==
  /\ Uses(m, "escalate")
  /\ \/ Change(m, Onward(m, talk[m].ticket))
     \/ Change(m, [pc |-> "notify", raised |-> talk[m].raised + 1])
  /\ Looks

\* `_notify` never fails: mailed, mailed and the answer lost, or not mailed.
Notify(m) ==
  /\ talk[m].pc = "notify"
  /\ notices' \in {notices, notices \cup {TicketId(m, talk[m].raised)}}
  /\ Change(m, [pc |-> "ticket"])
  /\ UNCHANGED <<db, met>> /\ Quiet

\* Mutant: the ticket is stored with the conversation the customer named.
StoreTicketAsAsked(m) ==
  /\ talk[m].pc = "ticket"
  /\ LET id     == TicketId(m, talk[m].raised)
         stored == AddTicket(db, Of(m), id, Asked(m).conversation)
     IN  /\ db' = stored.db
         /\ IF stored.says[1] = "raised" THEN Reply(m, 500)
            ELSE Change(m, Onward(m, id))
  /\ UNCHANGED <<notices, met>> /\ Quiet

StoreTicket(m) ==
  /\ talk[m].pc = "ticket"
  /\ LET id     == TicketId(m, talk[m].raised)
         stored == AddTicket(db, Of(m), id, Conversation(m))
     IN  /\ db' = stored.db
         /\ IF stored.says[1] = "raised" THEN Reply(m, 500)
            ELSE Change(m, Onward(m, id))
  /\ UNCHANGED <<notices, met>> /\ Quiet

\* The turn count is the one read at the start, plus one.
Save(m) ==
  /\ talk[m].pc = "save"
  /\ LET saved == SaveConversation(db, Of(m), Conversation(m),
                    [n |-> talk[m].n, said |-> talk[m].said], now)
     IN  /\ db' = saved.db
         /\ IF saved.says[1] = "raised" THEN Reply(m, 500)
            ELSE Change(m, [pc |-> "done", answer |-> 200, at |-> now])
  /\ UNCHANGED <<notices, met>> /\ Quiet

Assist(m) ==
  Refuse(m) \/ Open(m) \/ Model(m) \/ Read(m) \/ Escalate(m) \/ Notify(m)
    \/ StoreTicket(m) \/ Save(m)

\* The process stops: what it was answering is lost.
Stop ==
  /\ talk' = [m \in Messages |-> IF InFlight(m) THEN [talk[m] EXCEPT !.pc = "lost"]
                                 ELSE talk[m]]
  /\ UNCHANGED <<notices, met>>

-----------------------------------------------------------------------------
Gone(m) == Of(m) \notin Tenants(db)
Spans(c) == {m \in Messages : Conversation(m) = c /\ talk[m].answer = 200}
Kept(c) == IF c \in DOMAIN db.conversations
           THEN {db.conversations[c].turns.said[i] : i \in 1..db.conversations[c].turns.n}
           ELSE {}

\* A message that was answered is in its conversation: only one of the same
\* conversation in flight with it can have been saved over it, and only
\* SUPPORT_KEPT_DAYS or the end of the account takes the conversation itself.
\* What is kept counts its turns, and never more than MAX_TURNS of them.
AnsweredIsKept ==
  /\ \A m \in Messages : talk[m].answer = 200 =>
       \/ Gone(m)
       \/ m \in Kept(Conversation(m))
       \/ \E x \in Spans(Conversation(m)) \ {m} : {m, x} \in met
       \/ Conversation(m) \notin DOMAIN db.conversations /\ talk[m].at + SupportKept < now
  /\ \A c \in DOMAIN db.conversations :
       LET turns == db.conversations[c].turns
       IN  turns.n = Len(turns.said) /\ turns.n <= MaxTurns

\* A ticket the customer was told of is there; one the operator was mailed is
\* there too, unless its message was cut short or the account ended first; and a
\* ticket points at a conversation that is kept, unless its message was never
\* answered, or the conversation has had its SUPPORT_KEPT_DAYS.
TicketsAreTrue ==
  /\ \A m \in Messages :
       talk[m].answer = 200 /\ talk[m].ticket # None => Gone(m) \/ talk[m].ticket \in DOMAIN db.tickets
  /\ \A i \in notices :
       LET m == i[1]
       IN  Gone(m) \/ i \in DOMAIN db.tickets \/ talk[m].pc \in {"ticket", "lost"}
  /\ \A m \in Messages : \A k \in 1..talk[m].raised :
       TicketId(m, k) \in DOMAIN db.tickets =>
         LET about == db.tickets[TicketId(m, k)].conversation
         IN  \/ about \in DOMAIN db.conversations
             \/ about = Conversation(m) /\ (talk[m].answer # 200 \/ talk[m].at + SupportKept < now)
================================================================================
