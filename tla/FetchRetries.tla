---------------------------- MODULE FetchRetries ----------------------------
(***************************************************************************)
(* fetchWithRetries of zephyr-agent (http/fetch-with-retries.ts): one      *)
(* request, the attempts it makes, the pauses between them and the         *)
(* deadline of them all.  Requests run at the same time and share nothing  *)
(* but the clock, whose unit is the first pause (RETRY_BASE_DELAY_MS).     *)
(*                                                                         *)
(* A timer fires on time: the clock stands still while one is due.  What   *)
(* the server does is any of its outcomes, at any time.  Requests that the *)
(* caller aborts are left out.  AppConfiguration is built on this module.  *)
(* Bug_X is X with a plausible slip, and no part of the model.             *)
(***************************************************************************)
EXTENDS Integers

CONSTANTS
  Requests,
  RetrySafe,     \* the requests whose method or idempotency key allows a replay
  MaxRetries,
  Deadline,      \* deadlineMs
  RetryAfters,   \* what Retry-After headers may ask for; 0 is none
  MaxClock       \* bound

ASSUME FetchAssumption ==
  /\ RetrySafe \subseteq Requests
  /\ MaxRetries \in Nat /\ Deadline \in Nat \ {0} /\ MaxClock \in Nat
  /\ RetryAfters \subseteq Nat /\ 0 \in RetryAfters
  /\ \A n \in 0 .. MaxRetries : 2 ^ n \in Nat

VARIABLES
  clock,
  attempt,       \* of each request
  phase,         \* "idle", "sent", "waiting", or how it ended
  timer,         \* when its timer fires, while it is sent or waits
  deadline

request  == <<attempt, phase, timer, deadline>>
httpVars == <<clock, request>>

(* How a request may end: with an answer, with a 401, with another answer  *)
(* or error that is final, or with one that a retry might have cured.      *)
Outcomes == {"ok", "unauthorized", "refused", "unavailable"}

HttpInit ==
  /\ clock = 0
  /\ attempt = [r \in Requests |-> 0]
  /\ phase = [r \in Requests |-> "idle"]
  /\ timer = [r \in Requests |-> 0]
  /\ deadline = [r \in Requests |-> 0]

Larger(m, n)  == IF m >= n THEN m ELSE n
Smaller(m, n) == IF m <= n THEN m ELSE n

Retries(r) == IF r \in RetrySafe THEN MaxRetries ELSE 0

Bug_Delay(r, after) == Larger(2 ^ attempt[r], after)

(* waitForRetry: a pause never reaches the deadline. *)
Delay(r, after) ==
  Smaller(Larger(2 ^ attempt[r], after), deadline[r] - clock - 1)

(* An attempt's own timeout is what is left, and at least 1. *)
Timeout(left) == clock + Larger(1, left)

(* Nothing of a request outlives it but how it ended. *)
HttpOver(r, outcome) ==
  /\ phase' = [phase EXCEPT ![r] = outcome]
  /\ attempt' = [attempt EXCEPT ![r] = 0]
  /\ timer' = [timer EXCEPT ![r] = 0]
  /\ deadline' = [deadline EXCEPT ![r] = 0]

-----------------------------------------------------------------------------
HttpSend(r) ==
  /\ phase[r] = "idle"
  /\ phase' = [phase EXCEPT ![r] = "sent"]
  /\ deadline' = [deadline EXCEPT ![r] = clock + Deadline]
  /\ timer' = [timer EXCEPT ![r] = Timeout(Deadline)]
  /\ UNCHANGED <<clock, attempt>>

(* An answer or an error that is final, or the success. *)
HttpEnds(r) ==
  /\ phase[r] = "sent"
  /\ \E outcome \in Outcomes \ {"unavailable"} : HttpOver(r, outcome)
  /\ UNCHANGED clock

(* The pause before the next attempt, if there may be one. *)
Wait(r, after) ==
  /\ IF attempt[r] < Retries(r) /\ Delay(r, after) > 0
     THEN /\ phase' = [phase EXCEPT ![r] = "waiting"]
          /\ timer' = [timer EXCEPT ![r] = clock + Delay(r, after)]
          /\ UNCHANGED <<attempt, deadline>>
     ELSE HttpOver(r, "unavailable")
  /\ UNCHANGED clock

(* A status or a network error that allows a retry. *)
HttpFails(r) ==
  /\ phase[r] = "sent"
  /\ \E after \in RetryAfters : Wait(r, after)

HttpTimesOut(r) ==
  /\ phase[r] = "sent"
  /\ clock >= timer[r]
  /\ Wait(r, 0)

(* The pause is over; after the deadline the last answer stands. *)
HttpRetries(r) ==
  /\ phase[r] = "waiting"
  /\ clock >= timer[r]
  /\ IF clock < deadline[r]
     THEN /\ phase' = [phase EXCEPT ![r] = "sent"]
          /\ attempt' = [attempt EXCEPT ![r] = @ + 1]
          /\ timer' = [timer EXCEPT ![r] = Timeout(deadline[r] - clock)]
          /\ UNCHANGED deadline
     ELSE HttpOver(r, "unavailable")
  /\ UNCHANGED clock

HttpStep(r) ==
  HttpEnds(r) \/ HttpFails(r) \/ HttpTimesOut(r) \/ HttpRetries(r)

Due(r) == phase[r] \in {"sent", "waiting"} /\ clock >= timer[r]

Tick ==
  /\ clock < MaxClock
  /\ \A r \in Requests : ~ Due(r)
  /\ clock' = clock + 1
  /\ UNCHANGED request

=============================================================================
