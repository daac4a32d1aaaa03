------------------------------ MODULE OkwanClient ------------------------------
(***************************************************************************)
(* The HTTP client of packages/core/okwan_core/client.py: `request` tries  *)
(* up to max_attempts times, each attempt behind a token bucket whose lock *)
(* is held while it sleeps, with an exponential wait between two attempts. *)
(*                                                                         *)
(* A token is Unit units of credit and a tick of time earns one unit, so   *)
(* the profile's rate is one request per Unit ticks.  Times are kept as    *)
(* what is left of a sleep and what has passed since `_updated`; a sleep   *)
(* may overrun, as asyncio's do.  The other end (ok, refused, limited,     *)
(* broken) is external.                                                    *)
(***************************************************************************)
EXTENDS Absent, Integers, Sequences, FiniteSets, FiniteSetsExt

CONSTANTS
  Callers,     \* who shares the client
  Unit,        \* ticks to earn one token
  Burst,       \* RateLimitProfile.burst
  MaxAttempts, \* RateLimitProfile.max_attempts
  Backoff,     \* the wait after each attempt, in ticks
  RetryAfter,  \* what a 429 may ask for, in ticks
  MaxRequests  \* bound: requests one caller makes

ASSUME ClientAssumption ==
  /\ Unit \in Nat \ {0} /\ Burst \in Nat \ {0} /\ MaxAttempts \in Nat \ {0}
  /\ Backoff \in Seq(Nat) /\ Len(Backoff) = MaxAttempts - 1
  /\ RetryAfter \subseteq Nat /\ MaxRequests \in Nat \ {0}
  /\ None \notin Callers

VARIABLES
  tokens,   \* _tokens, in units
  since,    \* ticks since _updated, no more than fill the bucket
  lock,     \* who is asleep inside `acquire`, or None
  at,       \* [caller -> where its request stands]
  left,     \* [caller -> ticks left of its sleep]
  attempt,  \* [caller -> the attempt it is in]
  made,     \* [caller -> requests it has begun]
  ahead     \* history: units by which what was sent runs ahead of twice the
            \* rate, over the stretch where it does most

vars == <<tokens, since, lock, at, left, attempt, made, ahead>>

Capacity == Burst * Unit

Init ==
  /\ tokens = Capacity
  /\ since = 0
  /\ lock = None
  /\ at = [c \in Callers |-> "idle"]
  /\ left = [c \in Callers |-> 0]
  /\ attempt = [c \in Callers |-> 0]
  /\ made = [c \in Callers |-> 0]
  /\ ahead = 0

-----------------------------------------------------------------------------
Begin(c) ==
  /\ at[c] \in {"idle", "ended"}
  /\ made[c] < MaxRequests
  /\ made' = [made EXCEPT ![c] = @ + 1]
  /\ attempt' = [attempt EXCEPT ![c] = 1]
  /\ at' = [at EXCEPT ![c] = "want"]
  /\ UNCHANGED <<tokens, since, lock, left, ahead>>

\* Mutant: the credit is not cut at the burst.
RefilledPastBurst == tokens + since

Refilled == Min({Capacity, tokens + since})

Send(c) ==
  /\ at' = [at EXCEPT ![c] = "sent"]
  /\ ahead' = ahead + Unit

\* acquire with a token in hand: the next request goes out.
Acquire(c) ==
  /\ at[c] = "want" /\ lock = None
  /\ Refilled >= Unit
  /\ tokens' = Refilled - Unit
  /\ since' = 0
  /\ Send(c)
  /\ UNCHANGED <<lock, left, attempt, made>>

\* acquire without one: it sleeps until there is one, and holds the lock.
Sleep(c) ==
  /\ at[c] = "want" /\ lock = None
  /\ Refilled < Unit
  /\ tokens' = Refilled
  /\ since' = 0
  /\ lock' = c
  /\ left' = [left EXCEPT ![c] = Unit - Refilled]
  /\ at' = [at EXCEPT ![c] = "asleep"]
  /\ UNCHANGED <<attempt, made, ahead>>

\* Mutant: the lock is not released.
WakeHolding(c) ==
  /\ at[c] = "asleep" /\ left[c] = 0
  /\ tokens' = 0
  /\ Send(c)
  /\ UNCHANGED <<since, lock, left, attempt, made>>

\* The sleep is over: the bucket is empty, but `_updated` is when it began.
Wake(c) ==
  /\ at[c] = "asleep" /\ left[c] = 0
  /\ tokens' = 0
  /\ lock' = None
  /\ Send(c)
  /\ UNCHANGED <<since, left, attempt, made>>

\* A RateLimitedError, a TransportError or a 5xx: again after the wait, unless
\* this was the last attempt.
Retry(c) ==
  IF attempt[c] = MaxAttempts
  THEN /\ at' = [at EXCEPT ![c] = "ended"]
       /\ UNCHANGED <<attempt, left>>
  ELSE /\ attempt' = [attempt EXCEPT ![c] = @ + 1]
       /\ left' = [left EXCEPT ![c] = Backoff[attempt[c]]]
       /\ at' = [at EXCEPT ![c] = "waiting"]

\* An answer, or a status of 400 to 499 other than 429, ends the request.
Answered(c) ==
  /\ at[c] = "sent"
  /\ at' = [at EXCEPT ![c] = "ended"]
  /\ UNCHANGED <<tokens, since, lock, left, attempt, made, ahead>>

Broken(c) ==
  /\ at[c] = "sent"
  /\ Retry(c)
  /\ UNCHANGED <<tokens, since, lock, made, ahead>>

\* A 429 sleeps for Retry-After first, on the last attempt too.
Limited(c) ==
  /\ at[c] = "sent"
  /\ \E r \in RetryAfter : left' = [left EXCEPT ![c] = r]
  /\ at' = [at EXCEPT ![c] = "told"]
  /\ UNCHANGED <<tokens, since, lock, attempt, made, ahead>>

LimitedSlept(c) ==
  /\ at[c] = "told" /\ left[c] = 0
  /\ Retry(c)
  /\ UNCHANGED <<tokens, since, lock, made, ahead>>

Again(c) ==
  /\ at[c] = "waiting" /\ left[c] = 0
  /\ at' = [at EXCEPT ![c] = "want"]
  /\ UNCHANGED <<tokens, since, lock, left, attempt, made, ahead>>

Tick ==
  /\ since' = Min({Capacity, since + 1})
  /\ left' = [c \in Callers |-> Max({0, left[c] - 1})]
  /\ ahead' = Max({0, ahead - 2})
  /\ UNCHANGED <<tokens, lock, at, attempt, made>>

Step(c) ==
  \/ Acquire(c) \/ Sleep(c) \/ Wake(c) \/ Answered(c) \/ Broken(c) \/ Limited(c)
  \/ LimitedSlept(c) \/ Again(c)

Next == Tick \/ \E c \in Callers : Begin(c) \/ Step(c)

Spec == Init /\ [][Next]_vars

\* The event loop runs whoever can run, the clock goes on, and the other end
\* answers within the client's 30 s timeout.
FairSpec == Spec /\ WF_vars(Tick) /\ \A c \in Callers : WF_vars(Step(c))

-----------------------------------------------------------------------------
\* Over any stretch of time, no more is sent than the burst, one request more,
\* and twice the rate: a sleep's time is credited once by ending it and once
\* more by the next refill.
TwiceTheRateAtMost == ahead <= Capacity + Unit

\* No request waits for ever: neither for the lock nor among its attempts.
EveryRequestEnds == \A c \in Callers : at[c] = "want" ~> at[c] = "ended"
=============================================================================
