--------------------------- MODULE CircuitBreaker ---------------------------
(***************************************************************************)
(* One circuit breaker shared by concurrent callers.  A caller asks        *)
(* (allow_request), makes its provider call when it is allowed to, and     *)
(* reports how the call ended; between the two, other callers and the      *)
(* clock move.                                                             *)
(*                                                                         *)
(* The methods take no lock.  A thread can be switched out in the middle   *)
(* of one where the method itself makes a call: after finding that the     *)
(* cooldown is over and before acting on it (allow_request,                *)
(* record_success), and after opening the breaker and taking the time and  *)
(* before stamping it (record_failure).  Preempted is the set of callers   *)
(* to whom this may happen; otherwise a method call is one step.           *)
(*                                                                         *)
(* A call may also end with an exception that is not an ExecutionError (a  *)
(* malformed body makes the adapter raise AttributeError or                *)
(* ValidationError): Executor._try_candidate then reports nothing.  Silent *)
(* is the set of callers whose calls may end so.                           *)
(***************************************************************************)
EXTENDS Breaker

CONSTANTS
    Callers,   \* threads that share the breaker
    Silent,    \* those whose call may end without a report
    Preempted  \* those who may be switched out inside a method

ASSUME CallersAssumption == Silent \subseteq Callers /\ Preempted \subseteq Callers

VARIABLES
    cb,        \* the breaker
    calls,     \* what each caller is doing: "idle", "inflight", or in which method it is switched out
    stamp,     \* ticks since a caller switched out in record_failure took the time
    admitted,  \* history: calls allowed since the breaker last became half-open
    streak,    \* history: failures reported since a success was last reported
    quiet,     \* history: ticks since a failure was last reported
    escaped,   \* history: some call has ended without a report
    crossed    \* history: while a caller was inside a method, another changed the breaker or told it of a failure

vars == <<cb, calls, stamp, admitted, streak, quiet, escaped, crossed>>

\* Inside allow_request, record_success and record_failure.
Paused == {"asking", "closing", "stamping"}

TypeOK ==
    /\ cb \in Breakers
    /\ calls \in [Callers -> {"idle", "inflight"} \cup Paused]
    /\ stamp \in [Callers -> Ages]
    /\ admitted \in Nat
    /\ streak \in 0 .. FailureThreshold
    /\ quiet \in Ages
    /\ escaped \in BOOLEAN /\ crossed \in BOOLEAN

Init ==
    /\ cb = NewBreaker
    /\ calls = [c \in Callers |-> "idle"]
    /\ stamp = [c \in Callers |-> 0]
    /\ admitted = 0
    /\ streak = 0
    /\ quiet = 0
    /\ escaped = FALSE /\ crossed = FALSE
-----------------------------------------------------------------------------
Goes(c, place) == calls' = [calls EXCEPT ![c] = place]

Crossing(c, disturbs) == crossed' = (crossed \/ (disturbs /\ \E d \in Callers \ {c} : calls[d] \in Paused))

\* allow_request(); a caller it turns away stays idle.
Ask(c) ==
    /\ calls[c] = "idle"
    /\ cb' = AfterAllow(cb)
    /\ IF Allows(cb)
       THEN /\ Goes(c, "inflight")
            /\ admitted' = CASE cb.state = "open"      -> 1
                             [] cb.state = "half_open" -> admitted + 1
                             [] OTHER                  -> 0
       ELSE UNCHANGED <<calls, admitted>>
    /\ Crossing(c, cb' # cb)
    /\ UNCHANGED <<stamp, streak, quiet, escaped>>

\* The same, switched out once the cooldown is found to be over; whatever the
\* breaker is by the time it goes on, it is made half-open.
PauseAsk(c) ==
    /\ c \in Preempted
    /\ calls[c] = "idle"
    /\ cb.state = "open" /\ CooldownElapsed(cb)
    /\ Goes(c, "asking")
    /\ UNCHANGED <<cb, stamp, admitted, streak, quiet, escaped, crossed>>

ResumeAsk(c) ==
    /\ calls[c] = "asking"
    /\ cb' = [cb EXCEPT !.state = "half_open", !.probes = 0]
    /\ admitted' = IF cb.state = "half_open" THEN admitted + 1 ELSE 1
    /\ Goes(c, "inflight")
    /\ Crossing(c, cb' # cb)
    /\ UNCHANGED <<stamp, streak, quiet, escaped>>

Succeed(c) ==
    /\ calls[c] = "inflight"
    /\ cb' = AfterSuccess(cb)
    /\ Goes(c, "idle")
    /\ streak' = 0
    /\ Crossing(c, cb' # cb)
    /\ UNCHANGED <<stamp, admitted, quiet, escaped>>

\* record_success() of an open breaker, switched out likewise, closes whatever it finds.
PauseSucceed(c) ==
    /\ c \in Preempted
    /\ calls[c] = "inflight"
    /\ cb.state = "open" /\ CooldownElapsed(cb)
    /\ Goes(c, "closing")
    /\ UNCHANGED <<cb, stamp, admitted, streak, quiet, escaped, crossed>>

ResumeSucceed(c) ==
    /\ calls[c] = "closing"
    /\ cb' = NewBreaker
    /\ Goes(c, "idle")
    /\ streak' = 0
    /\ Crossing(c, cb' # cb)
    /\ UNCHANGED <<stamp, admitted, quiet, escaped>>

CountFailure == streak' = IF streak < FailureThreshold THEN streak + 1 ELSE streak

Fail(c) ==
    /\ calls[c] = "inflight"
    /\ cb' = AfterFailure(cb)
    /\ Goes(c, "idle")
    /\ CountFailure
    /\ quiet' = 0
    /\ Crossing(c, TRUE)
    /\ UNCHANGED <<stamp, admitted, escaped>>

\* record_failure() that opens the breaker, switched out with the time in hand.
PauseFail(c) ==
    /\ c \in Preempted
    /\ calls[c] = "inflight"
    /\ AfterFailure(cb).state = "open"
    /\ cb' = [AfterFailure(cb) EXCEPT !.age = cb.age]
    /\ Goes(c, "stamping")
    /\ stamp' = [stamp EXCEPT ![c] = 0]
    /\ CountFailure
    /\ quiet' = 0
    /\ Crossing(c, TRUE)
    /\ UNCHANGED <<admitted, escaped>>

ResumeFail(c) ==
    /\ calls[c] = "stamping"
    /\ cb' = [cb EXCEPT !.age = stamp[c]]
    /\ stamp' = [stamp EXCEPT ![c] = 0]
    /\ Goes(c, "idle")
    /\ Crossing(c, cb' # cb)
    /\ UNCHANGED <<admitted, streak, quiet, escaped>>

\* The call ends and nobody tells the breaker.
Escape(c) ==
    /\ c \in Silent
    /\ calls[c] = "inflight"
    /\ Goes(c, "idle")
    /\ escaped' = TRUE
    /\ UNCHANGED <<cb, stamp, admitted, streak, quiet, crossed>>

Later(age) == IF age > CooldownMs THEN age ELSE age + 1

Tick ==
    /\ cb' = Older(cb)
    /\ stamp' = [c \in Callers |-> IF calls[c] = "stamping" THEN Later(stamp[c]) ELSE stamp[c]]
    /\ quiet' = Later(quiet)
    /\ UNCHANGED <<calls, admitted, streak, escaped, crossed>>

End(c) == Succeed(c) \/ Fail(c) \/ Escape(c) \/ PauseSucceed(c) \/ PauseFail(c)

Resume(c) == ResumeAsk(c) \/ ResumeSucceed(c) \/ ResumeFail(c)

Next == Tick \/ \E c \in Callers : Ask(c) \/ PauseAsk(c) \/ End(c) \/ Resume(c)

Spec == Init /\ [][Next]_vars

\* Time passes, a provider call ends (every HTTP call has a timeout and the
\* retries are bounded), a thread that was switched out goes on, and callers
\* come back for more.
Fairness ==
    /\ WF_vars(Tick)
    /\ \A c \in Callers : WF_vars(Ask(c)) /\ WF_vars(End(c)) /\ WF_vars(Resume(c))

FairSpec == Spec /\ Fairness
-----------------------------------------------------------------------------
\* As long as nobody changed the breaker, or told it of a failure, while another
\* caller was switched out inside a method, the failure count means what the
\* threshold needs it to mean, whatever the order in which late reports arrive:
\* in a closed breaker it is the number of failures reported in a row, below the
\* threshold; an open or half-open breaker got there through a full threshold of
\* them.
CountIsStreak ==
    ~ crossed => IF cb.state = "closed" THEN cb.failures = streak /\ streak < FailureThreshold
                                        ELSE cb.failures = FailureThreshold

\* Under the same condition the cooldown runs from the last failure heard, also
\* when that failure belongs to a call allowed before the breaker opened, but
\* for a moment in which a failure is just about to be stamped: an open breaker
\* that kept an older stamp would end its cooldown early.
CooldownFromLastFailure ==
    ~ crossed /\ (\A c \in Callers : calls[c] # "stamping") =>
        /\ cb.state = "closed" <=> cb.age = None
        /\ cb.state # "closed" => cb.age = quiet
        /\ cb.state = "half_open" => quiet > CooldownMs

\* Under the same condition, and however the callers interleave, a half-open
\* period lets through the call that opened it, which is not counted, and
\* HalfOpenMaxCalls more; it refuses only when those are spent.
HalfOpenAdmits ==
    ~ crossed /\ cb.state = "half_open" =>
        /\ admitted \in 1 .. HalfOpenMaxCalls + 1
        /\ ~ Allows(cb) => admitted = HalfOpenMaxCalls + 1

\* The breaker gives way, by letting a call through or by closing, only when
\* the last failure heard is more than a cooldown old, or when a method got in
\* between the halves of another.
GivesWayAfterCooldown ==
    [][cb.state = "open" /\ (cb'.state # "open" \/ \E c \in Callers : calls[c] # "inflight" /\ calls'[c] = "inflight")
          => quiet > CooldownMs \/ crossed']_vars

\* If every call reports, and from some moment on none fails, the breaker ends
\* up closed for good, wherever the cooldown, the probes, the late reports and
\* the methods that got in each other's way had left it.
HealsOnceFailuresStop ==
    []~escaped /\ <>[][\A c \in Callers : ~ Fail(c) /\ ~ PauseFail(c)]_vars => <>[](cb.state = "closed")

\* A half-open period ends: its probes decide it one way or the other
\* (docs/STATE.md, the transitions out of HALF_OPEN).
HalfOpenEnds == cb.state = "half_open" ~> cb.state # "half_open"
=============================================================================
