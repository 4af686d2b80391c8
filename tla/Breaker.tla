------------------------------ MODULE Breaker ------------------------------
(***************************************************************************)
(* The circuit breaker of one provider (runtime.CircuitBreaker) as a value *)
(* and its methods as operators on that value, so that the state machine   *)
(* of one breaker (CircuitBreaker) and the executor, which keeps one per   *)
(* provider (Executor), share one definition.                              *)
(*                                                                         *)
(* Time.  The code stamps _opened_at and only ever reads it through        *)
(* "now - _opened_at > cooldown".  A breaker here carries that difference  *)
(* as age, counted in ticks and no further than the first value that       *)
(* passes the comparison; None is the code's _opened_at = None.            *)
(*                                                                         *)
(* Count.  _failure_count is read only by "_failure_count >= threshold",   *)
(* so failures counts up to the threshold and stays there.                 *)
(***************************************************************************)
EXTENDS Integers

CONSTANTS
    FailureThreshold,   \* failures in a row that open the breaker
    CooldownMs,         \* ticks an open breaker refuses for
    HalfOpenMaxCalls,   \* probes counted against a half-open period
    None                \* the code's None

\* The constructor rejects a threshold that is not positive; the other two
\* are taken as they come, and make sense from zero up.
ASSUME BreakerAssumption ==
    /\ FailureThreshold \in Nat \ {0}
    /\ CooldownMs \in Nat
    /\ HalfOpenMaxCalls \in Nat
    /\ None \notin Nat

BreakerStates == {"closed", "open", "half_open"}

Ages == 0 .. CooldownMs + 1

Breakers == [state    : BreakerStates,
             failures : 0 .. FailureThreshold,
             age      : Ages \cup {None},
             probes   : 0 .. HalfOpenMaxCalls]

NewBreaker == [state |-> "closed", failures |-> 0, age |-> None, probes |-> 0]

\* Mutant of CooldownElapsed: the cooldown is over on the tick that completes it.
CooldownReached(b) == b.age # None => b.age >= CooldownMs

CooldownElapsed(b) == b.age # None => b.age > CooldownMs

\* Mutant of Allows: one probe more than the limit.
AllowsAtLimit(b) ==
    \/ b.state = "closed"
    \/ b.state = "open" /\ CooldownElapsed(b)
    \/ b.state = "half_open" /\ b.probes <= HalfOpenMaxCalls

\* What allow_request() returns ...
Allows(b) ==
    \/ b.state = "closed"
    \/ b.state = "open" /\ CooldownElapsed(b)
    \/ b.state = "half_open" /\ b.probes < HalfOpenMaxCalls

\* ... and the breaker it leaves behind.  The call that turns an open breaker
\* half-open is allowed without being counted in probes.
AfterAllow(b) ==
    CASE b.state = "open" /\ CooldownElapsed(b) ->
            [b EXCEPT !.state = "half_open", !.probes = 0]
      [] b.state = "half_open" /\ b.probes < HalfOpenMaxCalls ->
            [b EXCEPT !.probes = @ + 1]
      [] OTHER -> b

\* Mutant of AfterFailure: a breaker that is already open is not stamped again.
FailureStampingOnce(b) ==
    IF b.state = "half_open"
    THEN [b EXCEPT !.state = "open", !.age = 0]
    ELSE IF b.failures + 1 >= FailureThreshold
         THEN [b EXCEPT !.state = "open", !.failures = FailureThreshold,
                        !.age = IF b.state = "open" THEN @ ELSE 0]
         ELSE [b EXCEPT !.failures = @ + 1]

\* record_failure(): a half-open breaker reopens; any other one counts, and a
\* breaker that is already open is stamped again.
AfterFailure(b) ==
    IF b.state = "half_open"
    THEN [b EXCEPT !.state = "open", !.age = 0]
    ELSE IF b.failures + 1 >= FailureThreshold
         THEN [b EXCEPT !.state = "open", !.failures = FailureThreshold, !.age = 0]
         ELSE [b EXCEPT !.failures = @ + 1]

\* Mutants of AfterSuccess: a closed breaker keeps its count; a half-open one
\* waits for another probe.
SuccessKeepingCount(b) ==
    IF b.state = "half_open" \/ (b.state = "open" /\ CooldownElapsed(b))
    THEN NewBreaker ELSE b

SuccessLeavingHalfOpen(b) ==
    IF b.state = "open" /\ CooldownElapsed(b) THEN NewBreaker
    ELSE IF b.state = "closed" THEN [b EXCEPT !.failures = 0] ELSE b

\* record_success(): closes a half-open breaker, and an open one whose cooldown
\* is over; is ignored by an open one that is still cooling down.
AfterSuccess(b) ==
    IF b.state = "half_open" \/ (b.state = "open" /\ CooldownElapsed(b))
    THEN NewBreaker
    ELSE IF b.state = "closed" THEN [b EXCEPT !.failures = 0] ELSE b

\* One tick of the clock, as seen by "now - _opened_at".
Older(b) == IF b.age = None \/ b.age > CooldownMs
            THEN b ELSE [b EXCEPT !.age = @ + 1]
=============================================================================
