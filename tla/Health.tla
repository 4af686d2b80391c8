------------------------------- MODULE Health -------------------------------
(***************************************************************************)
(* What the runtime remembers about one provider (runtime.HealthTracker):  *)
(* a health status, a window of latency samples, the failures in a row and *)
(* the requests served, as a value with the tracker's methods on it.  The  *)
(* tracker keeps four dictionaries keyed by provider; a provider absent    *)
(* from one reads as "healthy", no samples and zero, which is NewHealth.   *)
(***************************************************************************)
EXTENDS Integers, Sequences

\* The code has these three as the literals 20, 2 and 3.
CONSTANTS
    Window,      \* latency samples kept per provider
    DegradeAt,   \* failures in a row that degrade a provider
    CondemnAt    \* failures in a row that make it unhealthy

ASSUME HealthAssumption ==
    /\ Window \in Nat \ {0}
    /\ DegradeAt \in Nat \ {0}
    /\ CondemnAt \in Nat /\ DegradeAt < CondemnAt

Statuses == {"healthy", "degraded", "unhealthy"}

NewHealth == [status |-> "healthy", samples |-> <<>>, streak |-> 0, count |-> 0]

\* is_available(), and the planner's filter on a snapshot of the statuses.
IsAvailable(h) == h.status # "unhealthy"

\* append(latency), then pop(0) once the window is exceeded.
Slide(samples, latency) ==
    LET longer == Append(samples, latency)
    IN  IF Len(longer) > Window THEN Tail(longer) ELSE longer

\* record_success(provider, latency_ms), up to the read of the requests served.
AfterServed(h, latency) ==
    [status  |-> h.status,
     samples |-> Slide(h.samples, latency),
     streak  |-> 0,
     count   |-> h.count]

\* The rest of it: one more than what was read is stored, and the status goes one
\* step up from where it stands.
AfterCounted(h, read) ==
    [status  |-> IF h.status = "unhealthy" THEN "degraded" ELSE "healthy",
     samples |-> h.samples,
     streak  |-> h.streak,
     count   |-> read + 1]

\* The status after a failure that makes the streak this long: a rate limit
\* degrades whatever the streak, also a provider that was unhealthy.
StatusAfter(status, category, streak) ==
    IF category = "rate_limit" THEN "degraded"
    ELSE IF streak >= CondemnAt THEN "unhealthy"
    ELSE IF streak >= DegradeAt THEN "degraded" ELSE status

\* record_failure(provider, category).
AfterRefused(h, category) ==
    [status  |-> StatusAfter(h.status, category, h.streak + 1),
     samples |-> h.samples,
     streak  |-> h.streak + 1,
     count   |-> h.count]
=============================================================================
