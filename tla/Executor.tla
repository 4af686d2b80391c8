------------------------------ MODULE Executor ------------------------------
(***************************************************************************)
(* The executor (runtime.Executor): requests walk their plans candidate by *)
(* candidate, with retries on one candidate and fallback to the next, and  *)
(* share one circuit breaker and one health record per provider.  Requests *)
(* run concurrently, each on a thread of its caller; every call the code   *)
(* makes on shared state is a step, so requests interleave between a       *)
(* provider's answer, the breaker's report and the health report.          *)
(*                                                                         *)
(*   idle --> select --> call --> settle --> counting --> returned         *)
(*              |          |--> backoff --> call                           *)
(*              |          |--> raised           (not an ExecutionError)   *)
(*              |<------------- settle           (candidate given up)      *)
(*              |--> returned or raised          (plan exhausted)          *)
(***************************************************************************)
EXTENDS Breaker, Health, FiniteSets

CONSTANTS
    Requests,      \* the requests executed in a behaviour, each at most once
    Providers,     \* provider names
    Adapters,      \* the providers that have an adapter
    Plans,         \* the plans a request may come with: sequences of candidates
    Errors,        \* ExecutionErrors an adapter may raise: [category, retryable]
    MayEscape,     \* whether an adapter may raise another exception
    MaxRetries     \* plan.retry_policy.max_retries

\* The candidates that occur in plans.
Candidates == UNION {{plan[i] : i \in DOMAIN plan} : plan \in Plans}

\* The latency of every response (the routing policies that read latencies are not
\* part of this module), RetryEngine.DEFAULT_RETRYABLE, the error recorded for a
\* candidate whose provider has no adapter, and how execute() may end.
Latency == 1
Retryable == {"rate_limit", "timeout", "network", "server"}
NoAdapter == [category |-> "unknown", retryable |-> FALSE]
Verdicts == {"completed", "failed", "invalid", "escaped"}

ASSUME ExecutorAssumption ==
    /\ IsFiniteSet(Requests)
    /\ Adapters \subseteq Providers
    /\ Plans \subseteq Seq(Candidates) /\ \A c \in Candidates : c.provider \in Providers
    /\ MayEscape \in BOOLEAN
    /\ MaxRetries \in Nat
    /\ None \notin Errors /\ None # NoAdapter /\ None \notin Verdicts
    /\ \A e \in Errors : e.retryable \in BOOLEAN

VARIABLES
    breakers,      \* the circuit breaker of each provider
    health,        \* the health record of each provider
    req,           \* how far each request has come
    seen,          \* the requests served that each request read of its provider
    shared         \* history: providers that two requests counted at the same time

counts == <<seen, shared>>
vars == <<breakers, health, req, counts>>

\* A request that was handed a plan.  pos is the candidate at hand, try the
\* retry loop's counter, attempts the list of attempts (error None is a
\* success; the code's Attempt does not hold try), answer the error that is
\* being settled (None: a response), error the code's last_error, outcome the
\* final state or the exception raised.  errorOf and refused are history: the
\* candidate error is of, and the candidates whose breaker refused.
NewRequest(plan) ==
    [at |-> "select", plan |-> plan, pos |-> 1, try |-> 0, attempts |-> <<>>,
     answer |-> None, error |-> None, outcome |-> None, errorOf |-> 0, refused |-> {}]

Init ==
    /\ breakers = [p \in Providers |-> NewBreaker]
    /\ health = [p \in Providers |-> NewHealth]
    /\ req = [r \in Requests |-> [NewRequest(<<>>) EXCEPT !.at = "idle"]]
    /\ seen = [r \in Requests |-> 0]
    /\ shared = {}

ProviderAt(r, i) == req[r].plan[i].provider
Provider(r) == ProviderAt(r, req[r].pos)
Attempt(r, e) == [pos |-> req[r].pos, try |-> req[r].try, error |-> e]
Ended(r) == req[r].at \in {"returned", "raised"}
-----------------------------------------------------------------------------
\* Mutant of Start: a request that returned is executed again.
StartAgain(r, plan) ==
    /\ req[r].at \in {"idle", "returned"}
    /\ req' = [req EXCEPT ![r] = NewRequest(plan)]
    /\ UNCHANGED <<breakers, health, counts>>

\* A plan reaches execute().
Start(r, plan) ==
    /\ req[r].at = "idle"
    /\ req' = [req EXCEPT ![r] = NewRequest(plan)]
    /\ UNCHANGED <<breakers, health, counts>>

\* The head of the for loop: the breaker is asked before the adapter is looked
\* up, so a candidate without an adapter still spends a half-open probe.
AtCandidate(r) == req[r].at = "select" /\ req[r].pos <= Len(req[r].plan)

AskBreaker(r) == breakers' = [breakers EXCEPT ![Provider(r)] = AfterAllow(@)]

\* Mutant of Refuse: the loop stays at the refused candidate.
RefuseStaying(r) ==
    /\ AtCandidate(r)
    /\ ~ Allows(breakers[Provider(r)])
    /\ AskBreaker(r)
    /\ req' = [req EXCEPT ![r].refused = @ \cup {req[r].pos}]
    /\ UNCHANGED <<health, counts>>

Refuse(r) ==
    /\ AtCandidate(r)
    /\ ~ Allows(breakers[Provider(r)])
    /\ AskBreaker(r)
    /\ req' = [req EXCEPT ![r].pos = @ + 1, ![r].refused = @ \cup {req[r].pos}]
    /\ UNCHANGED <<health, counts>>

SkipAdapterless(r) ==
    /\ AtCandidate(r)
    /\ Allows(breakers[Provider(r)])
    /\ Provider(r) \notin Adapters
    /\ AskBreaker(r)
    /\ req' = [req EXCEPT ![r].error = NoAdapter, ![r].errorOf = req[r].pos, ![r].pos = @ + 1]
    /\ UNCHANGED <<health, counts>>

Try(r) ==
    /\ AtCandidate(r)
    /\ Allows(breakers[Provider(r)])
    /\ Provider(r) \in Adapters
    /\ AskBreaker(r)
    /\ req' = [req EXCEPT ![r].at = "call", ![r].try = 0]
    /\ UNCHANGED <<health, counts>>

\* The adapter returns a response; the breaker is told at once.
Succeed(r) ==
    /\ req[r].at = "call"
    /\ breakers' = [breakers EXCEPT ![Provider(r)] = AfterSuccess(@)]
    /\ req' = [req EXCEPT ![r].at = "settle", ![r].answer = None]
    /\ UNCHANGED <<health, counts>>

MayRetry(e) == e.retryable /\ e.category \in Retryable

\* Mutants of ShouldRetry: one retry too many; the error's own verdict ignored.
RetryOnceMore(r, e) == MayRetry(e) /\ req[r].try <= MaxRetries
RetryByCategory(r, e) == e.category \in Retryable /\ req[r].try < MaxRetries

ShouldRetry(r, e) == MayRetry(e) /\ req[r].try < MaxRetries

\* The adapter raises an ExecutionError: back off and try again without asking
\* the breaker, or give the candidate up and tell the breaker.
BackOff(r, e) ==
    /\ req[r].at = "call"
    /\ ShouldRetry(r, e)
    /\ req' = [req EXCEPT ![r].at = "backoff", ![r].attempts = Append(@, Attempt(r, e))]
    /\ UNCHANGED <<breakers, health, counts>>

Wake(r) ==
    /\ req[r].at = "backoff"
    /\ req' = [req EXCEPT ![r].at = "call", ![r].try = @ + 1]
    /\ UNCHANGED <<breakers, health, counts>>

GiveUp(r, e) ==
    /\ req[r].at = "call"
    /\ ~ ShouldRetry(r, e)
    /\ breakers' = [breakers EXCEPT ![Provider(r)] = AfterFailure(@)]
    /\ req' = [req EXCEPT ![r].at = "settle", ![r].answer = e,
                          ![r].attempts = Append(@, Attempt(r, e))]
    /\ UNCHANGED <<health, counts>>

\* Any other exception leaves execute() at once: no attempt, no report.
Escape(r) ==
    /\ MayEscape
    /\ req[r].at = "call"
    /\ req' = [req EXCEPT ![r].at = "raised", ![r].outcome = "escaped"]
    /\ UNCHANGED <<breakers, health, counts>>

\* The health tracker hears of the response: it reads how many requests the
\* provider has served ...
CountResponse(r) ==
    /\ req[r].at = "settle" /\ req[r].answer = None
    /\ health' = [health EXCEPT ![Provider(r)] = AfterServed(@, Latency)]
    /\ seen' = [seen EXCEPT ![r] = health[Provider(r)].count]
    /\ shared' = IF \E u \in Requests : req[u].at = "counting" /\ Provider(u) = Provider(r)
                 THEN shared \cup {Provider(r)} ELSE shared
    /\ req' = [req EXCEPT ![r].at = "counting"]
    /\ UNCHANGED breakers

\* Mutant of ReturnResponse: the request is charged to the plan's first provider.
ResponseChargedToFirst(r) ==
    /\ req[r].at = "counting"
    /\ health' = [health EXCEPT ![ProviderAt(r, 1)] = AfterCounted(@, seen[r])]
    /\ req' = [req EXCEPT ![r].at = "returned", ![r].outcome = "completed",
                          ![r].attempts = Append(@, Attempt(r, None))]
    /\ UNCHANGED <<breakers, counts>>

\* ... and stores one more; another request may have stored in between.  The
\* response is returned.
ReturnResponse(r) ==
    /\ req[r].at = "counting"
    /\ health' = [health EXCEPT ![Provider(r)] = AfterCounted(@, seen[r])]
    /\ req' = [req EXCEPT ![r].at = "returned", ![r].outcome = "completed",
                          ![r].attempts = Append(@, Attempt(r, None))]
    /\ UNCHANGED <<breakers, counts>>

\* Mutant of NextCandidate: the first error is kept instead of the last.
NextKeepingFirstError(r) ==
    /\ req[r].at = "settle" /\ req[r].answer # None
    /\ health' = [health EXCEPT ![Provider(r)] = AfterRefused(@, req[r].answer.category)]
    /\ req' = [req EXCEPT ![r].at = "select", ![r].pos = @ + 1,
                          ![r].error = IF @ = None THEN req[r].answer ELSE @,
                          ![r].errorOf = IF @ = 0 THEN req[r].pos ELSE @]
    /\ UNCHANGED <<breakers, counts>>

\* The health tracker hears of the failure; the loop moves on.
NextCandidate(r) ==
    /\ req[r].at = "settle" /\ req[r].answer # None
    /\ health' = [health EXCEPT ![Provider(r)] = AfterRefused(@, req[r].answer.category)]
    /\ req' = [req EXCEPT ![r].at = "select", ![r].pos = @ + 1,
                          ![r].error = req[r].answer, ![r].errorOf = req[r].pos]
    /\ UNCHANGED <<breakers, counts>>

\* Mutant of Exhaust: the loop ends one candidate early.
ExhaustEarly(r) ==
    /\ req[r].at = "select" /\ req[r].pos >= Len(req[r].plan)
    /\ req' = [req EXCEPT ![r].at = IF req[r].error = None THEN "raised" ELSE "returned",
                          ![r].outcome = IF req[r].error = None THEN "invalid" ELSE "failed"]
    /\ UNCHANGED <<breakers, health, counts>>

\* The loop is over: the last error is returned; without one (every breaker
\* refused) building the result raises ValidationError.
Exhaust(r) ==
    /\ req[r].at = "select" /\ req[r].pos > Len(req[r].plan)
    /\ req' = [req EXCEPT ![r].at = IF req[r].error = None THEN "raised" ELSE "returned",
                          ![r].outcome = IF req[r].error = None THEN "invalid" ELSE "failed"]
    /\ UNCHANGED <<breakers, health, counts>>

Tick ==
    /\ breakers' = [p \in Providers |-> Older(breakers[p])]
    /\ UNCHANGED <<health, req, counts>>

Advance(r) ==
    \/ Refuse(r) \/ SkipAdapterless(r) \/ Try(r)
    \/ Succeed(r) \/ Escape(r)
    \/ \E e \in Errors : BackOff(r, e) \/ GiveUp(r, e)
    \/ Wake(r)
    \/ CountResponse(r) \/ ReturnResponse(r) \/ NextCandidate(r) \/ Exhaust(r)

Next ==
    \/ Tick
    \/ \E r \in Requests : (\E plan \in Plans : Start(r, plan)) \/ Advance(r)

Spec == Init /\ [][Next]_vars

\* A started request keeps being executed: its thread runs, the adapter's HTTP
\* timeout ends a call, and a backoff is a bounded sleep.  A request need not
\* start, and time need not pass.
FairSpec == Spec /\ \A r \in Requests : WF_vars(Advance(r))
-----------------------------------------------------------------------------
Outcomes == Verdicts \cup {None}

TypeOK ==
    /\ breakers \in [Providers -> Breakers]
    /\ \A p \in Providers : health[p].status \in Statuses /\ health[p].streak \in Nat
    /\ \A r \in Requests :
        /\ req[r].at \in {"idle", "select", "call", "backoff", "settle", "counting", "returned", "raised"}
        /\ req[r].pos \in 1 .. Len(req[r].plan) + 1
        /\ req[r].try \in 0 .. MaxRetries
        /\ req[r].answer \in Errors \cup {None}
        /\ req[r].error \in Errors \cup {NoAdapter, None}
        /\ req[r].outcome \in Outcomes
        /\ req[r].at \in {"call", "backoff", "settle", "counting"} => req[r].pos <= Len(req[r].plan)
    /\ seen \in [Requests -> Nat]
    /\ shared \subseteq Providers

\* The attempts tell the story of the plan: candidates in plan order, each
\* with its first try and at most MaxRetries more, a retry only after an error
\* that may be retried, nothing after a success.
AttemptsFollowPlan ==
    \A r \in Requests :
        LET log == req[r].attempts
        IN  /\ log # <<>> => log[1].try = 0
            /\ \A k \in 1 .. Len(log) : log[k].try <= MaxRetries
            /\ \A k \in 2 .. Len(log) :
                /\ log[k - 1].error # None
                /\ \/ /\ log[k].pos = log[k - 1].pos
                      /\ log[k].try = log[k - 1].try + 1
                      /\ MayRetry(log[k - 1].error)
                   \/ log[k].pos > log[k - 1].pos /\ log[k].try = 0

\* Candidate i was tried to its end: to an error that may not be retried, or
\* through all its retries.
TriedToTheEnd(r, i) ==
    \E k \in DOMAIN req[r].attempts :
        LET a == req[r].attempts[k]
        IN  a.pos = i /\ a.error # None /\ (MayRetry(a.error) => a.try = MaxRetries)

\* A request fails only when it has nothing left to try: every candidate was
\* refused by its breaker, has no adapter, or was tried to the end.
FailsOnlyWhenExhausted ==
    \A r \in Requests : req[r].outcome \in {"failed", "invalid"} =>
        \A i \in 1 .. Len(req[r].plan) :
            \/ i \in req[r].refused
            \/ ProviderAt(r, i) \notin Adapters
            \/ TriedToTheEnd(r, i)

\* A failed request reports the error of the last candidate it did not skip;
\* a completed one ends with its only successful attempt.
OutcomeMatchesAttempts ==
    \A r \in Requests :
        LET log == req[r].attempts
        IN  /\ req[r].outcome = "failed" =>
                /\ \A i \in req[r].errorOf + 1 .. Len(req[r].plan) : i \in req[r].refused
                /\ ProviderAt(r, req[r].errorOf) \in Adapters =>
                       req[r].error = log[Len(log)].error /\ log[Len(log)].pos = req[r].errorOf
            /\ req[r].outcome = "completed" <=> log # <<>> /\ log[Len(log)].error = None

Served(p) == {r \in Requests : req[r].outcome = "completed" /\ Provider(r) = p}

\* A provider is never charged with more requests than it completed, whatever
\* retries, late reports and other requests came in between, and with exactly
\* those as long as no two requests counted it at the same time: record_success()
\* stores one more than it read, and of two that overlap one may be lost.
ServedOnce ==
    \A p \in Providers :
        /\ health[p].count <= Cardinality(Served(p))
        /\ p \notin shared => health[p].count = Cardinality(Served(p))

\* Every request that is started ends.
EveryRequestEnds == \A r \in Requests : req[r].at = "select" ~> Ended(r)
-----------------------------------------------------------------------------
\* What execute() promises, without breakers, retries and health.
Fallback == INSTANCE Fallback WITH
    left    <- [r \in Requests |-> SubSeq(req[r].plan, req[r].pos, Len(req[r].plan))],
    verdict <- [r \in Requests |->
                  CASE req[r].at = "idle" -> "waiting"
                    [] Ended(r) -> IF req[r].outcome = "completed" THEN "completed"
                                   ELSE IF req[r].outcome = "escaped" THEN "crashed" ELSE "failed"
                    [] OTHER -> "running"]

ImplementsFallback == Fallback!Spec

\* The request states of core.state_machine, which the executor never consults:
\* its requests nevertheless move as that table allows.
Lifecycle == INSTANCE RequestStateMachine WITH
    state <- [r \in Requests |->
                CASE req[r].at = "idle" -> "pending"
                  [] req[r].outcome = "completed" -> "completed"
                  [] req[r].outcome \in Verdicts \ {"completed"} -> "failed"
                  [] req[r].at = "select" /\ req[r].outcome = None /\ req[r].attempts = <<>> -> "planned"
                  [] OTHER -> "executing"]

ImplementsLifecycle == Lifecycle!Spec
-----------------------------------------------------------------------------
\* docs: execute() returns "a terminal ExecutionResult", it does not raise.
AlwaysReturns == \A r \in Requests : req[r].at # "raised"
=============================================================================
