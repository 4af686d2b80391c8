--------------------------- MODULE ExecutorProofs ---------------------------
(***************************************************************************)
(* What becomes of a request, for every set of requests, providers, plans  *)
(* and errors and every number of retries: its attempts follow its plan,   *)
(* it fails only when its plan is exhausted, and its outcome is the one    *)
(* its attempts say.  The three properties speak of one request at a time, *)
(* and the breakers and health records that requests share only decide     *)
(* which step comes next: so the invariant is stated of a request record   *)
(* (Good), and each step is judged on that record alone.                   *)
(* The last part is about the other walk of a plan, that of a stream.      *)
(***************************************************************************)
EXTENDS Executor, Streaming, FiniteSetTheorems, TLAPS

Places == {"idle", "select", "call", "backoff", "settle", "counting", "returned", "raised"}

Tries == [pos : Nat, try : 0 .. MaxRetries, error : Errors \cup {None}]

Records == [at : Places, plan : Seq(Candidates), pos : Nat, try : 0 .. MaxRetries,
            attempts : Seq(Tries), answer : Errors \cup {None},
            error : Errors \cup {NoAdapter, None}, outcome : Outcomes,
            errorOf : Nat, refused : SUBSET Nat]

HealthRecords == [status : Statuses, samples : Seq(Nat), streak : Nat, count : Nat]

Last(q) == q.attempts[Len(q.attempts)]

\* The position of a request, as far as TypeOK bounds it.
InPlan(q) ==
    /\ q.pos \in 1 .. Len(q.plan) + 1
    /\ q.at \in {"call", "backoff", "settle", "counting"} => q.pos <= Len(q.plan)
    /\ q.outcome # None <=> q.at \in {"returned", "raised"}

\* AttemptsFollowPlan, of one list of attempts.
Follows(log) ==
    /\ log # <<>> => log[1].try = 0
    /\ \A k \in 1 .. Len(log) : log[k].try <= MaxRetries
    /\ \A k \in 2 .. Len(log) :
        /\ log[k - 1].error # None
        /\ \/ /\ log[k].pos = log[k - 1].pos
              /\ log[k].try = log[k - 1].try + 1
              /\ MayRetry(log[k - 1].error)
           \/ log[k].pos > log[k - 1].pos /\ log[k].try = 0

\* The candidate at hand has not been tried yet; its last try was the one before
\* the current one; its last try was the current one.
Untried(q) == q.attempts # <<>> => Last(q).pos < q.pos
TriedBefore(q) == /\ q.attempts # <<>> /\ Last(q).pos = q.pos
                  /\ q.try = Last(q).try + 1 /\ MayRetry(Last(q).error)
TriedNow(q) == q.attempts # <<>> /\ Last(q).pos = q.pos /\ Last(q).try = q.try

\* How the last attempt and the place in the code belong together.
Logged(q) ==
    /\ q.at = "idle" => q.attempts = <<>>
    /\ q.at = "select" => Untried(q)
    /\ q.at \in {"call", "counting"} \/ (q.at = "settle" /\ q.answer = None) =>
          (q.try = 0 /\ Untried(q)) \/ TriedBefore(q)
    /\ q.at = "backoff" => TriedNow(q) /\ MayRetry(Last(q).error) /\ q.try < MaxRetries
    /\ q.at = "settle" /\ q.answer # None => TriedNow(q) /\ Last(q).error = q.answer
    /\ q.attempts # <<>> => (Last(q).error = None <=> q.outcome = "completed")
    /\ q.outcome = "completed" => q.attempts # <<>>

\* Candidate i is behind the request, for a reason.
TriedOut(q, i) ==
    \E k \in DOMAIN q.attempts :
        LET a == q.attempts[k]
        IN  a.pos = i /\ a.error # None /\ (MayRetry(a.error) => a.try = MaxRetries)
Passed(q, i) == i \in q.refused \/ q.plan[i].provider \notin Adapters \/ TriedOut(q, i)

Exhausts(q) ==
    /\ \A i \in 1 .. q.pos - 1 : Passed(q, i)
    /\ q.at = "settle" /\ q.answer # None => TriedOut(q, q.pos)
    /\ q.outcome \in {"failed", "invalid"} => q.pos > Len(q.plan)

\* The error kept is the one of the last candidate that was not refused.
Blames(q) ==
    /\ q.at = "select" \/ q.outcome = "failed" =>
          /\ q.errorOf < q.pos
          /\ \A i \in q.errorOf + 1 .. q.pos - 1 : i \in q.refused
          /\ q.error # None <=> q.errorOf # 0
          /\ q.errorOf # 0 /\ q.plan[q.errorOf].provider \in Adapters =>
                q.attempts # <<>> /\ Last(q).error = q.error /\ Last(q).pos = q.errorOf
    /\ q.outcome = "failed" => q.error # None

Good(q) ==
    /\ q \in Records /\ InPlan(q)
    /\ Follows(q.attempts) /\ Logged(q)
    /\ Exhausts(q)
    /\ Blames(q)

Inv ==
    /\ breakers \in [Providers -> Breakers]
    /\ health \in [Providers -> HealthRecords]
    /\ DOMAIN req = Requests
    /\ \A r \in Requests : Good(req[r])
    /\ seen \in [Requests -> Nat] /\ shared \in SUBSET Providers
-----------------------------------------------------------------------------
\* What the methods of a breaker keep: a breaker stays a breaker under
\* allow_request, record_failure, record_success and the passing of time.
LEMMA MethodsKeepType ==
    ASSUME NEW b \in Breakers
    PROVE  /\ AfterAllow(b) \in Breakers
           /\ AfterFailure(b) \in Breakers
           /\ AfterSuccess(b) \in Breakers
           /\ Older(b) \in Breakers
<1> USE BreakerAssumption DEF BreakerAssumption, Breakers, BreakerStates, Ages
<1>0. 0 \in 0 .. HalfOpenMaxCalls /\ 0 \in Ages /\ FailureThreshold \in 0 .. FailureThreshold
  OBVIOUS
<1>1. [b EXCEPT !.state = "half_open", !.probes = 0] \in Breakers
  BY <1>0
<1>2. b.probes < HalfOpenMaxCalls => [b EXCEPT !.probes = @ + 1] \in Breakers
  BY <1>0
<1>3. [b EXCEPT !.state = "open", !.age = 0] \in Breakers
  BY <1>0
<1>4. [b EXCEPT !.state = "open", !.failures = FailureThreshold, !.age = 0] \in Breakers
  BY <1>0
<1>5. b.failures + 1 < FailureThreshold => [b EXCEPT !.failures = @ + 1] \in Breakers
  BY <1>0
<1>6. AfterAllow(b) \in Breakers
  BY <1>1, <1>2, Zenon DEF AfterAllow
<1>7. AfterFailure(b) \in Breakers
  <2>1. b.failures + 1 >= FailureThreshold \/ b.failures + 1 < FailureThreshold
    OBVIOUS
  <2> QED BY <1>3, <1>4, <1>5, <2>1, Zenon DEF AfterFailure
<1>8. AfterSuccess(b) \in Breakers /\ Older(b) \in Breakers
  BY DEF AfterSuccess, NewBreaker, Older
<1> QED BY <1>6, <1>7, <1>8

\* An attempt that continues the last one's candidate with the next try, or starts
\* a later candidate, keeps the attempts following the plan.
LEMMA AppendFollows ==
    ASSUME NEW log \in Seq(Tries), Follows(log), NEW a \in Tries,
           log = <<>> => a.try = 0,
           log # <<>> => LET b == log[Len(log)]
                         IN  /\ b.error # None
                             /\ \/ a.pos = b.pos /\ a.try = b.try + 1 /\ MayRetry(b.error)
                                \/ a.pos > b.pos /\ a.try = 0
    PROVE  Follows(Append(log, a))
<1> USE ExecutorAssumption DEF ExecutorAssumption
<1> DEFINE longer == Append(log, a)
<1>1. /\ Len(longer) = Len(log) + 1 /\ Len(log) \in Nat /\ DOMAIN log = 1 .. Len(log)
      /\ \A k \in 1 .. Len(log) : longer[k] = log[k]
      /\ longer[Len(log) + 1] = a
  OBVIOUS
<1>2. longer[1].try = 0
  BY <1>1 DEF Follows
<1> HIDE DEF longer
<1>3. ASSUME NEW k \in 1 .. Len(longer) PROVE longer[k].try <= MaxRetries
  <2>1. longer[k] \in Tries
    BY DEF longer
  <2> QED BY <2>1 DEF Tries
<1>4. ASSUME NEW k \in 2 .. Len(longer)
      PROVE  /\ longer[k - 1].error # None
             /\ \/ /\ longer[k].pos = longer[k - 1].pos
                   /\ longer[k].try = longer[k - 1].try + 1
                   /\ MayRetry(longer[k - 1].error)
                \/ longer[k].pos > longer[k - 1].pos /\ longer[k].try = 0
  <2>1. CASE k \in 2 .. Len(log)
    <3>1. longer[k] = log[k] /\ longer[k - 1] = log[k - 1]
      BY <1>1, <2>1
    <3> QED BY <2>1, <3>1 DEF Follows
  <2>2. CASE k = Len(log) + 1
    <3>1. Len(log) # 0 /\ longer[k] = a /\ longer[k - 1] = log[Len(log)]
      BY <1>1, <2>2
    <3>2. log # <<>>
      BY <3>1
    <3> QED BY <3>1, <3>2
  <2> QED BY <1>1, <2>1, <2>2
<1> QED BY <1>2, <1>3, <1>4 DEF Follows, longer

\* A candidate that was tried out stays so as attempts are added.
LEMMA AppendKeepsTriedOut ==
    ASSUME NEW q \in Records, NEW s \in Records, NEW a \in Tries, NEW i,
           s.attempts = Append(q.attempts, a), TriedOut(q, i)
    PROVE  TriedOut(s, i)
<1>1. PICK k \in DOMAIN q.attempts :
          /\ q.attempts[k].pos = i /\ q.attempts[k].error # None
          /\ MayRetry(q.attempts[k].error) => q.attempts[k].try = MaxRetries
  BY DEF TriedOut
<1>2. k \in DOMAIN s.attempts /\ s.attempts[k] = q.attempts[k]
  BY DEF Records
<1> QED BY <1>1, <1>2 DEF TriedOut

\* A plan has candidates of known providers.
LEMMA PlanHasProviders ==
    ASSUME NEW q, Good(q), q.at \in {"call", "backoff", "settle", "counting"} \/ (q.at = "select" /\ q.pos <= Len(q.plan))
    PROVE  q.pos \in DOMAIN q.plan /\ q.plan[q.pos].provider \in Providers
<1>1. q.plan \in Seq(Candidates) /\ q.pos \in 1 .. Len(q.plan)
  BY DEF Good, Records, InPlan
<1>2. q.plan[q.pos] \in Candidates
  BY <1>1
<1> QED BY <1>1, <1>2, ExecutorAssumption DEF ExecutorAssumption
\* The last of the attempts is one.
LEMMA LastIsTry ==
    ASSUME NEW q \in Records, q.attempts # <<>>
    PROVE  Last(q) \in Tries
<1>1. q.attempts \in Seq(Tries) /\ Len(q.attempts) \in 1 .. Len(q.attempts)
  BY DEF Records
<1> QED BY <1>1 DEF Last
-----------------------------------------------------------------------------
\* A request that was just handed a plan is good, and so is one that has none yet.
LEMMA NewIsGood ==
    ASSUME NEW route \in Seq(Candidates), NEW s, NEW place \in {"idle", "select"},
           s = [at |-> place, plan |-> route, pos |-> 1, try |-> 0, attempts |-> <<>>,
                answer |-> None, error |-> None, outcome |-> None, errorOf |-> 0, refused |-> {}]
    PROVE  Good(s)
<1>1. s \in Records
  BY ExecutorAssumption DEF ExecutorAssumption, Records, Places, Outcomes, Verdicts
<1>2. InPlan(s) /\ Follows(s.attempts)
  BY DEF InPlan, Follows
<1>3. Logged(s) /\ Exhausts(s) /\ Blames(s)
  <2>1. s.outcome = None /\ None \notin {"completed", "failed", "invalid"}
    BY ExecutorAssumption DEF ExecutorAssumption, Verdicts
  <2> QED BY <2>1 DEF Logged, Exhausts, Blames, Untried
<1> QED BY <1>1, <1>2, <1>3 DEF Good

\* The candidate at hand is refused.
LEMMA RefusalIsGood ==
    ASSUME NEW q, Good(q), q.at = "select", q.pos <= Len(q.plan)
    PROVE  Good([q EXCEPT !.pos = @ + 1, !.refused = @ \cup {q.pos}])
<1> DEFINE s == [q EXCEPT !.pos = @ + 1, !.refused = @ \cup {q.pos}]
<1> USE DEF Good
<1>1. /\ s.at = q.at /\ s.plan = q.plan /\ s.pos = q.pos + 1 /\ s.try = q.try
      /\ s.attempts = q.attempts /\ s.answer = q.answer /\ s.error = q.error
      /\ s.outcome = q.outcome /\ s.errorOf = q.errorOf /\ s.refused = q.refused \cup {q.pos}
  BY DEF Records
<1>2. s \in Records
  <2>1. q.pos + 1 \in Nat /\ q.refused \cup {q.pos} \in SUBSET Nat
    BY DEF Records
  <2> QED BY <2>1 DEF Records
<1> HIDE DEF s
<1>3. InPlan(s) /\ Follows(s.attempts)
  BY <1>1 DEF InPlan, Records
<1>4. Logged(s)
  <2>1. Last(s) = Last(q) /\ (q.attempts # <<>> => Last(q).pos \in Nat)
    BY <1>1, LastIsTry DEF Last, Tries
  <2> QED BY <1>1, <2>1 DEF Logged, Untried, Records
<1>5. Exhausts(s)
  BY <1>1 DEF Exhausts, Passed, TriedOut, InPlan, Records
<1>6. Blames(s)
  BY <1>1 DEF Blames, Last, InPlan, Records
<1> QED BY <1>2, <1>3, <1>4, <1>5, <1>6 DEF s

\* The attempt that is about to be recorded continues the list as it should.
LEMMA NextAttempt ==
    ASSUME NEW q, Good(q), q.at \in {"call", "counting"},
           NEW a \in Tries, a.pos = q.pos, a.try = q.try,
           NEW log, log = Append(q.attempts, a)
    PROVE  /\ log \in Seq(Tries) /\ log # <<>> /\ log[Len(log)] = a
           /\ Follows(log)
<1> USE DEF Good
<1>1. q.attempts \in Seq(Tries)
  BY DEF Records
<1>2. log \in Seq(Tries) /\ log # <<>> /\ log[Len(log)] = a
  BY <1>1
<1>3. Follows(log)
  <2>1. (q.try = 0 /\ Untried(q)) \/ TriedBefore(q)
    BY DEF Logged
  <2>2. q.outcome = None
    BY DEF InPlan
  <2>3. q.attempts # <<>> => Last(q).error # None /\ Last(q) \in Tries
    BY <2>2, LastIsTry, ExecutorAssumption DEF Logged, ExecutorAssumption, Verdicts
  <2>4. Follows(q.attempts)
    OBVIOUS
  <2>5. q.attempts = <<>> => a.try = 0
    BY <2>1 DEF TriedBefore
  <2>6. q.attempts # <<>> =>
            LET b == q.attempts[Len(q.attempts)]
            IN  /\ b.error # None
                /\ \/ a.pos = b.pos /\ a.try = b.try + 1 /\ MayRetry(b.error)
                   \/ a.pos > b.pos /\ a.try = 0
    BY <2>1, <2>3 DEF TriedBefore, Untried, Last, Records, Tries
  <2> QED BY <1>1, <2>4, <2>5, <2>6, AppendFollows
<1> QED BY <1>1, <1>2, <1>3

\* The candidate at hand has no adapter.
LEMMA SkipIsGood ==
    ASSUME NEW q, Good(q), q.at = "select", q.pos <= Len(q.plan),
           q.plan[q.pos].provider \notin Adapters
    PROVE  Good([q EXCEPT !.error = NoAdapter, !.errorOf = q.pos, !.pos = @ + 1])
<1> DEFINE s == [q EXCEPT !.error = NoAdapter, !.errorOf = q.pos, !.pos = @ + 1]
<1> USE DEF Good
<1>1. /\ s.at = q.at /\ s.plan = q.plan /\ s.pos = q.pos + 1 /\ s.try = q.try
      /\ s.attempts = q.attempts /\ s.answer = q.answer /\ s.error = NoAdapter /\ s.outcome = q.outcome
      /\ s.errorOf = q.pos /\ s.refused = q.refused
  BY DEF Records
<1>2. s \in Records
  <2>1. q.pos + 1 \in Nat /\ NoAdapter \in Errors \cup {NoAdapter, None}
    BY DEF Records
  <2> QED BY <2>1 DEF Records
<1> HIDE DEF s
<1>3. InPlan(s) /\ Follows(s.attempts)
  BY <1>1 DEF InPlan, Records
<1>4. Logged(s)
  <2>1. Last(s) = Last(q) /\ (q.attempts # <<>> => Last(q) \in Tries)
    BY <1>1, LastIsTry DEF Last
  <2> QED BY <1>1, <2>1 DEF Logged, Untried, Records, Tries
<1>5. Exhausts(s)
  BY <1>1 DEF Exhausts, Passed, TriedOut, InPlan, Records
<1>6. Blames(s)
  <2>1. NoAdapter # None /\ q.pos # 0
    BY ExecutorAssumption DEF ExecutorAssumption, InPlan, Records
  <2> QED BY <1>1, <2>1 DEF Blames, InPlan, Records
<1> QED BY <1>2, <1>3, <1>4, <1>5, <1>6 DEF s

\* The candidate at hand is called for the first time.
LEMMA TryIsGood ==
    ASSUME NEW q, Good(q), q.at = "select", q.pos <= Len(q.plan)
    PROVE  Good([q EXCEPT !.at = "call", !.try = 0])
<1> DEFINE s == [q EXCEPT !.at = "call", !.try = 0]
<1> USE DEF Good
<1>1. /\ s.at = "call" /\ s.plan = q.plan /\ s.pos = q.pos /\ s.try = 0
      /\ s.attempts = q.attempts /\ s.answer = q.answer /\ s.error = q.error /\ s.outcome = q.outcome
      /\ s.errorOf = q.errorOf /\ s.refused = q.refused
  BY DEF Records
<1>2. s \in Records
  <2>1. 0 \in 0 .. MaxRetries
    BY ExecutorAssumption DEF ExecutorAssumption
  <2> QED BY <2>1 DEF Records, Places
<1> HIDE DEF s
<1>3. InPlan(s) /\ Follows(s.attempts)
  BY <1>1 DEF InPlan, Records
<1>4. Logged(s)
  <2>1. Last(s) = Last(q) /\ (q.attempts # <<>> => Last(q) \in Tries)
    BY <1>1, LastIsTry DEF Last
  <2> QED BY <1>1, <2>1 DEF Logged, Untried, Records, Tries
<1>5. Exhausts(s)
  BY <1>1 DEF Exhausts, Passed, TriedOut, InPlan, Records
<1>6. Blames(s)
  <2>1. None \notin Verdicts
    BY ExecutorAssumption DEF ExecutorAssumption
  <2> QED BY <1>1, <2>1 DEF Blames, InPlan, Verdicts
<1> QED BY <1>2, <1>3, <1>4, <1>5, <1>6 DEF s

\* The adapter returned a response.
LEMMA ResponseIsGood ==
    ASSUME NEW q, Good(q), q.at = "call"
    PROVE  Good([q EXCEPT !.at = "settle", !.answer = None])
<1> DEFINE s == [q EXCEPT !.at = "settle", !.answer = None]
<1> USE DEF Good
<1>1. /\ s.at = "settle" /\ s.plan = q.plan /\ s.pos = q.pos /\ s.try = q.try
      /\ s.attempts = q.attempts /\ s.answer = None /\ s.error = q.error /\ s.outcome = q.outcome
      /\ s.errorOf = q.errorOf /\ s.refused = q.refused
  BY DEF Records
<1>2. s \in Records
  BY DEF Records, Places
<1> HIDE DEF s
<1>3. InPlan(s) /\ Follows(s.attempts)
  BY <1>1 DEF InPlan, Records
<1>4. Logged(s)
  <2>1. Last(s) = Last(q) /\ (q.attempts # <<>> => Last(q) \in Tries)
    BY <1>1, LastIsTry DEF Last
  <2> QED BY <1>1, <2>1 DEF Logged, Untried, TriedBefore, Records, Tries
<1>5. Exhausts(s)
  BY <1>1 DEF Exhausts, Passed, TriedOut, InPlan, Records
<1>6. Blames(s)
  <2>1. None \notin Verdicts
    BY ExecutorAssumption DEF ExecutorAssumption
  <2> QED BY <1>1, <2>1 DEF Blames, InPlan, Verdicts
<1> QED BY <1>2, <1>3, <1>4, <1>5, <1>6 DEF s

\* The tracker has been told of the response, the count is still to be stored.
LEMMA CountingIsGood ==
    ASSUME NEW q, Good(q), q.at = "settle", q.answer = None
    PROVE  Good([q EXCEPT !.at = "counting"])
<1> DEFINE s == [q EXCEPT !.at = "counting"]
<1> USE DEF Good
<1>1. /\ s.at = "counting" /\ s.plan = q.plan /\ s.pos = q.pos /\ s.try = q.try
      /\ s.attempts = q.attempts /\ s.answer = None /\ s.error = q.error /\ s.outcome = q.outcome
      /\ s.errorOf = q.errorOf /\ s.refused = q.refused
  BY DEF Records
<1>2. s \in Records
  BY DEF Records, Places
<1> HIDE DEF s
<1>3. InPlan(s) /\ Follows(s.attempts)
  BY <1>1 DEF InPlan, Records
<1>4. Logged(s)
  <2>1. Last(s) = Last(q) /\ (q.attempts # <<>> => Last(q) \in Tries)
    BY <1>1, LastIsTry DEF Last
  <2> QED BY <1>1, <2>1 DEF Logged, Untried, TriedBefore, Records, Tries
<1>5. Exhausts(s)
  BY <1>1 DEF Exhausts, Passed, TriedOut, InPlan, Records
<1>6. Blames(s)
  <2>1. None \notin Verdicts
    BY ExecutorAssumption DEF ExecutorAssumption
  <2> QED BY <1>1, <2>1 DEF Blames, InPlan, Verdicts
<1> QED BY <1>2, <1>3, <1>4, <1>5, <1>6 DEF s

\* The backoff is over.
LEMMA WakeIsGood ==
    ASSUME NEW q, Good(q), q.at = "backoff"
    PROVE  Good([q EXCEPT !.at = "call", !.try = @ + 1])
<1> DEFINE s == [q EXCEPT !.at = "call", !.try = @ + 1]
<1> USE DEF Good
<1>1. /\ s.at = "call" /\ s.plan = q.plan /\ s.pos = q.pos /\ s.try = q.try + 1
      /\ s.attempts = q.attempts /\ s.answer = q.answer /\ s.error = q.error /\ s.outcome = q.outcome
      /\ s.errorOf = q.errorOf /\ s.refused = q.refused
  BY DEF Records
<1>2. s \in Records
  <2>1. q.try + 1 \in 0 .. MaxRetries
    BY ExecutorAssumption DEF ExecutorAssumption, Logged, Records
  <2> QED BY <2>1 DEF Records, Places
<1> HIDE DEF s
<1>3. InPlan(s) /\ Follows(s.attempts)
  BY <1>1 DEF InPlan, Records
<1>4. Logged(s)
  <2>1. Last(s) = Last(q) /\ (q.attempts # <<>> => Last(q) \in Tries)
    BY <1>1, LastIsTry DEF Last
  <2> QED BY <1>1, <2>1 DEF Logged, TriedNow, TriedBefore, Records, Tries
<1>5. Exhausts(s)
  BY <1>1 DEF Exhausts, Passed, TriedOut, InPlan, Records
<1>6. Blames(s)
  <2>1. None \notin Verdicts
    BY ExecutorAssumption DEF ExecutorAssumption
  <2> QED BY <1>1, <2>1 DEF Blames, InPlan, Verdicts
<1> QED BY <1>2, <1>3, <1>4, <1>5, <1>6 DEF s

\* The adapter raised what execute() does not handle.
LEMMA EscapeIsGood ==
    ASSUME NEW q, Good(q), q.at = "call"
    PROVE  Good([q EXCEPT !.at = "raised", !.outcome = "escaped"])
<1> DEFINE s == [q EXCEPT !.at = "raised", !.outcome = "escaped"]
<1> USE DEF Good
<1>1. /\ s.at = "raised" /\ s.plan = q.plan /\ s.pos = q.pos /\ s.try = q.try
      /\ s.attempts = q.attempts /\ s.answer = q.answer /\ s.error = q.error /\ s.outcome = "escaped"
      /\ s.errorOf = q.errorOf /\ s.refused = q.refused
  BY DEF Records
<1>2. s \in Records
  BY DEF Records, Places, Outcomes, Verdicts
<1> HIDE DEF s
<1>3. InPlan(s) /\ Follows(s.attempts)
  <2>1. None \notin Verdicts
    BY ExecutorAssumption DEF ExecutorAssumption
  <2> QED BY <1>1, <2>1 DEF InPlan, Records, Verdicts
<1>4. Logged(s)
  <2>1. None \notin Verdicts
    BY ExecutorAssumption DEF ExecutorAssumption
  <2>2. Last(s) = Last(q) /\ q.outcome = None
    BY <1>1 DEF Last, InPlan
  <2> QED BY <1>1, <2>1, <2>2 DEF Logged, Records, Verdicts
<1>5. Exhausts(s)
  BY <1>1 DEF Exhausts, Passed, TriedOut, InPlan, Records
<1>6. Blames(s)
  BY <1>1 DEF Blames
<1> QED BY <1>2, <1>3, <1>4, <1>5, <1>6 DEF s

\* Nothing is left of the plan.
LEMMA ExhaustIsGood ==
    ASSUME NEW q, Good(q), q.at = "select", q.pos > Len(q.plan), NEW place, NEW verdict,
           \/ q.error = None /\ place = "raised" /\ verdict = "invalid"
           \/ q.error # None /\ place = "returned" /\ verdict = "failed"
    PROVE  Good([q EXCEPT !.at = place, !.outcome = verdict])
<1> DEFINE s == [q EXCEPT !.at = place, !.outcome = verdict]
<1> USE DEF Good
<1>1. /\ s.at = place /\ s.plan = q.plan /\ s.pos = q.pos /\ s.try = q.try
      /\ s.attempts = q.attempts /\ s.answer = q.answer /\ s.error = q.error /\ s.outcome = verdict
      /\ s.errorOf = q.errorOf /\ s.refused = q.refused
  BY DEF Records
<1>2. s \in Records
  BY DEF Records, Places, Outcomes, Verdicts
<1> HIDE DEF s
<1>3. InPlan(s) /\ Follows(s.attempts)
  <2>1. None \notin Verdicts
    BY ExecutorAssumption DEF ExecutorAssumption
  <2> QED BY <1>1, <2>1 DEF InPlan, Records, Verdicts
<1>4. Logged(s)
  <2>1. None \notin Verdicts
    BY ExecutorAssumption DEF ExecutorAssumption
  <2>2. Last(s) = Last(q) /\ q.outcome = None
    BY <1>1 DEF Last, InPlan
  <2> QED BY <1>1, <2>1, <2>2 DEF Logged, Records, Verdicts
<1>5. Exhausts(s)
  BY <1>1 DEF Exhausts, Passed, TriedOut, InPlan, Records
<1>6. Blames(s)
  <2>1. Last(s) = Last(q)
    BY <1>1 DEF Last
  <2> QED BY <1>1, <2>1 DEF Blames
<1> QED BY <1>2, <1>3, <1>4, <1>5, <1>6 DEF s

\* The candidate at hand is given up, its error becomes the request's.
LEMMA NextIsGood ==
    ASSUME NEW q, Good(q), q.at = "settle", q.answer # None
    PROVE  Good([q EXCEPT !.at = "select", !.pos = @ + 1, !.error = q.answer, !.errorOf = q.pos])
<1> DEFINE s == [q EXCEPT !.at = "select", !.pos = @ + 1, !.error = q.answer, !.errorOf = q.pos]
<1> USE DEF Good
<1>1. /\ s.at = "select" /\ s.plan = q.plan /\ s.pos = q.pos + 1 /\ s.try = q.try
      /\ s.attempts = q.attempts /\ s.answer = q.answer /\ s.error = q.answer /\ s.outcome = q.outcome
      /\ s.errorOf = q.pos /\ s.refused = q.refused
  BY DEF Records
<1>2. s \in Records
  <2>1. q.pos + 1 \in Nat /\ q.answer \in Errors \cup {NoAdapter, None}
    BY DEF Records
  <2> QED BY <2>1 DEF Records, Places
<1> HIDE DEF s
<1>3. InPlan(s) /\ Follows(s.attempts)
  BY <1>1 DEF InPlan, Records
<1>4. Logged(s)
  <2>1. Last(s) = Last(q) /\ (q.attempts # <<>> => Last(q) \in Tries)
    BY <1>1, LastIsTry DEF Last
  <2> QED BY <1>1, <2>1 DEF Logged, TriedNow, Untried, Records, Tries
<1>5. Exhausts(s)
  <2>1. ASSUME NEW i \in 1 .. s.pos - 1 PROVE Passed(s, i)
    <3>1. i \in 1 .. q.pos - 1 \/ i = q.pos
      BY <1>1 DEF Records
    <3>2. TriedOut(s, i) <=> TriedOut(q, i)
      BY <1>1 DEF TriedOut
    <3> QED BY <1>1, <3>1, <3>2 DEF Exhausts, Passed
  <2> QED BY <1>1, <2>1, <1>3, ExecutorAssumption DEF Exhausts, InPlan, ExecutorAssumption, Verdicts
<1>6. Blames(s)
  <2>1. Last(s) = Last(q) /\ (q.attempts # <<>> => Last(q) \in Tries)
    BY <1>1, LastIsTry DEF Last
  <2>2. q.pos # 0
    BY DEF InPlan, Records
  <2> QED BY <1>1, <2>1, <2>2 DEF Blames, Logged, TriedNow, InPlan, Records
<1> QED BY <1>2, <1>3, <1>4, <1>5, <1>6 DEF s

\* The adapter raised an error that is retried.
LEMMA BackOffIsGood ==
    ASSUME NEW q, Good(q), q.at = "call", NEW e \in Errors,
           MayRetry(e), q.try < MaxRetries,
           NEW a, a = [pos |-> q.pos, try |-> q.try, error |-> e]
    PROVE  Good([q EXCEPT !.at = "backoff", !.attempts = Append(@, a)])
<1> DEFINE log == Append(q.attempts, a)
           s == [q EXCEPT !.at = "backoff", !.attempts = Append(@, a)]
<1>0. /\ a \in Tries
      /\ log \in Seq(Tries) /\ log # <<>> /\ log[Len(log)] = a
      /\ Follows(log)
  <2>1. a \in Tries /\ a.pos = q.pos /\ a.try = q.try
    BY DEF Good, Tries, Records
  <2>2. Append(q.attempts, a) = log
    OBVIOUS
  <2> HIDE DEF log
  <2> QED BY <2>1, <2>2, NextAttempt
<1> USE DEF Good
<1>1. /\ s.at = "backoff" /\ s.plan = q.plan /\ s.pos = q.pos /\ s.try = q.try
      /\ s.attempts = log /\ s.answer = q.answer /\ s.error = q.error /\ s.outcome = q.outcome
      /\ s.errorOf = q.errorOf /\ s.refused = q.refused
  BY DEF Records
<1> HIDE DEF log
<1>2. s \in Records
  <2>1. s = [q EXCEPT !.at = "backoff", !.attempts = log]
    BY DEF log
  <2> QED BY <1>0, <2>1 DEF Records, Places
<1> HIDE DEF s
<1>3. InPlan(s) /\ Follows(s.attempts)
  BY <1>0, <1>1 DEF InPlan, Records
<1>4. Logged(s)
  <2>1. Last(s) = a /\ s.attempts # <<>>
    BY <1>0, <1>1 DEF Last
  <2>2. q.outcome = None /\ None \notin Verdicts
    BY ExecutorAssumption DEF ExecutorAssumption, InPlan
  <2>3. e # None
    BY ExecutorAssumption DEF ExecutorAssumption
  <2> QED BY <1>1, <2>1, <2>2, <2>3 DEF Logged, TriedNow, Verdicts
<1>5. Exhausts(s)
  <2>1. ASSUME NEW i \in 1 .. q.pos - 1 PROVE Passed(s, i)
    <3>1. Passed(q, i)
      BY DEF Exhausts
    <3>2. TriedOut(q, i) => TriedOut(s, i)
      BY <1>0, <1>1, <1>2, AppendKeepsTriedOut DEF log
    <3> QED BY <1>1, <3>1, <3>2 DEF Passed
  <2>2. q.outcome = None /\ None \notin Verdicts
    BY ExecutorAssumption DEF ExecutorAssumption, InPlan
  <2> QED BY <1>1, <2>1, <2>2 DEF Exhausts, Verdicts
<1>6. Blames(s)
  <2>1. None \notin Verdicts
    BY ExecutorAssumption DEF ExecutorAssumption
  <2>2. q.outcome = None
    BY DEF InPlan
  <2> QED BY <1>1, <2>1, <2>2 DEF Blames, Verdicts
<1> QED BY <1>2, <1>3, <1>4, <1>5, <1>6 DEF s

\* The adapter raised an error that is not, or no longer, retried.
LEMMA GivingUpIsGood ==
    ASSUME NEW q, Good(q), q.at = "call", NEW e \in Errors,
           MayRetry(e) => q.try = MaxRetries,
           NEW a, a = [pos |-> q.pos, try |-> q.try, error |-> e]
    PROVE  Good([q EXCEPT !.at = "settle", !.answer = e, !.attempts = Append(@, a)])
<1> DEFINE log == Append(q.attempts, a)
           s == [q EXCEPT !.at = "settle", !.answer = e, !.attempts = Append(@, a)]
<1>0. /\ a \in Tries
      /\ log \in Seq(Tries) /\ log # <<>> /\ log[Len(log)] = a
      /\ Follows(log)
  <2>1. a \in Tries /\ a.pos = q.pos /\ a.try = q.try
    BY DEF Good, Tries, Records
  <2>2. Append(q.attempts, a) = log
    OBVIOUS
  <2> HIDE DEF log
  <2> QED BY <2>1, <2>2, NextAttempt
<1> USE DEF Good
<1>1. /\ s.at = "settle" /\ s.plan = q.plan /\ s.pos = q.pos /\ s.try = q.try
      /\ s.attempts = log /\ s.answer = e /\ s.error = q.error /\ s.outcome = q.outcome
      /\ s.errorOf = q.errorOf /\ s.refused = q.refused
  BY DEF Records
<1> HIDE DEF log
<1>2. s \in Records
  <2>1. s = [q EXCEPT !.at = "settle", !.answer = e, !.attempts = log]
    BY DEF log
  <2> QED BY <1>0, <2>1 DEF Records, Places
<1> HIDE DEF s
<1>3. InPlan(s) /\ Follows(s.attempts)
  BY <1>0, <1>1 DEF InPlan, Records
<1>4. Logged(s)
  <2>1. Last(s) = a /\ s.attempts # <<>>
    BY <1>0, <1>1 DEF Last
  <2>2. q.outcome = None /\ None \notin Verdicts
    BY ExecutorAssumption DEF ExecutorAssumption, InPlan
  <2>3. e # None
    BY ExecutorAssumption DEF ExecutorAssumption
  <2> QED BY <1>1, <2>1, <2>2, <2>3 DEF Logged, TriedNow, Verdicts
<1>5. Exhausts(s)
  <2>1. ASSUME NEW i \in 1 .. q.pos - 1 PROVE Passed(s, i)
    <3>1. Passed(q, i)
      BY DEF Exhausts
    <3>2. TriedOut(q, i) => TriedOut(s, i)
      BY <1>0, <1>1, <1>2, AppendKeepsTriedOut DEF log
    <3> QED BY <1>1, <3>1, <3>2 DEF Passed
  <2>2. q.outcome = None /\ None \notin Verdicts /\ e # None
    BY ExecutorAssumption DEF ExecutorAssumption, InPlan
  <2>3. TriedOut(s, q.pos)
    <3>1. Len(log) \in DOMAIN log
      BY <1>0
    <3> QED BY <1>0, <1>1, <2>2, <3>1 DEF TriedOut
  <2> QED BY <1>1, <2>1, <2>2, <2>3 DEF Exhausts, Verdicts
<1>6. Blames(s)
  <2>1. None \notin Verdicts
    BY ExecutorAssumption DEF ExecutorAssumption
  <2>2. q.outcome = None
    BY DEF InPlan
  <2> QED BY <1>1, <2>1, <2>2 DEF Blames, Verdicts
<1> QED BY <1>2, <1>3, <1>4, <1>5, <1>6 DEF s

\* The response is recorded and returned.
LEMMA ReturnIsGood ==
    ASSUME NEW q, Good(q), q.at = "counting",
           NEW a, a = [pos |-> q.pos, try |-> q.try, error |-> None]
    PROVE  Good([q EXCEPT !.at = "returned", !.outcome = "completed", !.attempts = Append(@, a)])
<1> DEFINE log == Append(q.attempts, a)
           s == [q EXCEPT !.at = "returned", !.outcome = "completed", !.attempts = Append(@, a)]
<1>0. /\ a \in Tries
      /\ log \in Seq(Tries) /\ log # <<>> /\ log[Len(log)] = a
      /\ Follows(log)
  <2>1. a \in Tries /\ a.pos = q.pos /\ a.try = q.try
    BY DEF Good, Tries, Records
  <2>2. Append(q.attempts, a) = log
    OBVIOUS
  <2> HIDE DEF log
  <2> QED BY <2>1, <2>2, NextAttempt
<1> USE DEF Good
<1>1. /\ s.at = "returned" /\ s.plan = q.plan /\ s.pos = q.pos /\ s.try = q.try
      /\ s.attempts = log /\ s.answer = q.answer /\ s.error = q.error /\ s.outcome = "completed"
      /\ s.errorOf = q.errorOf /\ s.refused = q.refused
  BY DEF Records
<1> HIDE DEF log
<1>2. s \in Records
  <2>1. s = [q EXCEPT !.at = "returned", !.outcome = "completed", !.attempts = log]
    BY DEF log
  <2> QED BY <1>0, <2>1 DEF Records, Places, Outcomes, Verdicts
<1> HIDE DEF s
<1>3. InPlan(s) /\ Follows(s.attempts)
  <2>1. None \notin Verdicts
    BY ExecutorAssumption DEF ExecutorAssumption
  <2> QED BY <1>0, <1>1, <2>1 DEF InPlan, Records, Verdicts
<1>4. Logged(s)
  <2>1. Last(s) = a /\ s.attempts # <<>>
    BY <1>0, <1>1 DEF Last
  <2>2. q.outcome = None /\ None \notin Verdicts
    BY ExecutorAssumption DEF ExecutorAssumption, InPlan
  <2> QED BY <1>1, <2>1, <2>2 DEF Logged, Verdicts
<1>5. Exhausts(s)
  <2>1. ASSUME NEW i \in 1 .. q.pos - 1 PROVE Passed(s, i)
    <3>1. Passed(q, i)
      BY DEF Exhausts
    <3>2. TriedOut(q, i) => TriedOut(s, i)
      BY <1>0, <1>1, <1>2, AppendKeepsTriedOut DEF log
    <3> QED BY <1>1, <3>1, <3>2 DEF Passed
  <2> QED BY <1>1, <2>1 DEF Exhausts
<1>6. Blames(s)
  BY <1>1 DEF Blames
<1> QED BY <1>2, <1>3, <1>4, <1>5, <1>6 DEF s
-----------------------------------------------------------------------------
\* The reports keep a health record one.
LEMMA ReportsKeepHealth ==
    ASSUME NEW h \in HealthRecords
    PROVE  /\ AfterServed(h, Latency) \in HealthRecords
           /\ \A n \in Nat : AfterCounted(h, n) \in HealthRecords
           /\ \A c : AfterRefused(h, c) \in HealthRecords
<1> USE DEF HealthRecords, Statuses
<1>1. Slide(h.samples, Latency) \in Seq(Nat)
  <2>1. Append(h.samples, Latency) \in Seq(Nat) /\ Append(h.samples, Latency) # <<>>
    BY DEF Latency
  <2>2. Tail(Append(h.samples, Latency)) \in Seq(Nat)
    BY <2>1
  <2> QED BY <2>1, <2>2 DEF Slide
<1>2. AfterServed(h, Latency) \in HealthRecords
  BY <1>1 DEF AfterServed
<1>3. ASSUME NEW c PROVE AfterRefused(h, c) \in HealthRecords
  BY DEF AfterRefused, StatusAfter
<1>4. ASSUME NEW n \in Nat PROVE AfterCounted(h, n) \in HealthRecords
  BY DEF AfterCounted
<1> QED BY <1>2, <1>3, <1>4

\* What holds of the requests after a step of one of them follows from what holds
\* of that one.
LEMMA OneRequestMoves ==
    ASSUME Inv, NEW r \in Requests, NEW q, Good(q), req' = [req EXCEPT ![r] = q]
    PROVE  DOMAIN req' = Requests /\ \A p \in Requests : Good(req'[p])
BY DEF Inv

\* Nothing has been handed over yet.
LEMMA InitInv == Init => Inv
<1> SUFFICES ASSUME Init PROVE Inv
  OBVIOUS
<1> USE DEF Init
<1>1. breakers \in [Providers -> Breakers]
  BY BreakerAssumption DEF BreakerAssumption, NewBreaker, Breakers, BreakerStates
<1>2. health \in [Providers -> HealthRecords]
  BY DEF NewHealth, HealthRecords, Statuses
<1>3. ASSUME NEW r \in Requests PROVE Good(req[r])
  <2>1. req[r] = [NewRequest(<<>>) EXCEPT !.at = "idle"]
    OBVIOUS
  <2>2. req[r] = [at |-> "idle", plan |-> <<>>, pos |-> 1, try |-> 0, attempts |-> <<>>,
                  answer |-> None, error |-> None, outcome |-> None, errorOf |-> 0, refused |-> {}]
    BY <2>1 DEF NewRequest
  <2>3. <<>> \in Seq(Candidates)
    OBVIOUS
  <2> QED BY <2>2, <2>3, NewIsGood
<1> QED BY <1>1, <1>2, <1>3 DEF Inv

\* A plan is handed over.
LEMMA StartKeepsInv == ASSUME Inv, NEW r \in Requests, NEW route \in Plans, Start(r, route) PROVE Inv'
<1>1. route \in Seq(Candidates)
  BY ExecutorAssumption DEF ExecutorAssumption
<1>2. Good(NewRequest(route))
  BY <1>1, NewIsGood DEF NewRequest
<1>3. req' = [req EXCEPT ![r] = NewRequest(route)] /\ UNCHANGED <<breakers, health>>
  BY DEF Start
<1>4. DOMAIN req' = Requests /\ \A p \in Requests : Good(req'[p])
  BY <1>2, <1>3, OneRequestMoves
<1> QED BY <1>3, <1>4 DEF Inv, counts, Start

\* The breaker refuses.
LEMMA RefuseKeepsInv == ASSUME Inv, NEW r \in Requests, Refuse(r) PROVE Inv'
<1> DEFINE q == [req[r] EXCEPT !.pos = @ + 1, !.refused = @ \cup {req[r].pos}]
<1>1. Good(req[r]) /\ DOMAIN req = Requests
  BY DEF Inv
<1>2. req' = [req EXCEPT ![r] = q]
  BY <1>1 DEF Refuse, AtCandidate, AskBreaker
<1>3. Good(q)
  BY <1>1, RefusalIsGood DEF Refuse, AtCandidate, AskBreaker
<1> HIDE DEF q
<1>4. DOMAIN req' = Requests /\ \A p \in Requests : Good(req'[p])
  BY <1>2, <1>3, OneRequestMoves
<1>5. Provider(r) \in Providers
  BY <1>1, PlanHasProviders DEF Refuse, AtCandidate, AskBreaker, Provider, ProviderAt
<1>6. breakers' \in [Providers -> Breakers] /\ health' = health
  BY <1>5, MethodsKeepType DEF Refuse, AtCandidate, AskBreaker, Inv
<1> QED BY <1>4, <1>6 DEF Inv, counts, Refuse

\* There is no adapter.
LEMMA SkipAdapterlessKeepsInv == ASSUME Inv, NEW r \in Requests, SkipAdapterless(r) PROVE Inv'
<1> DEFINE q == [req[r] EXCEPT !.error = NoAdapter, !.errorOf = req[r].pos, !.pos = @ + 1]
<1>1. Good(req[r]) /\ DOMAIN req = Requests
  BY DEF Inv
<1>2. req' = [req EXCEPT ![r] = q]
  BY <1>1 DEF SkipAdapterless, AtCandidate, AskBreaker, Provider, ProviderAt
<1>3. Good(q)
  BY <1>1, SkipIsGood DEF SkipAdapterless, AtCandidate, AskBreaker, Provider, ProviderAt
<1> HIDE DEF q
<1>4. DOMAIN req' = Requests /\ \A p \in Requests : Good(req'[p])
  BY <1>2, <1>3, OneRequestMoves
<1>5. Provider(r) \in Providers
  BY <1>1, PlanHasProviders DEF SkipAdapterless, AtCandidate, AskBreaker, Provider, ProviderAt, Provider, ProviderAt
<1>6. breakers' \in [Providers -> Breakers] /\ health' = health
  BY <1>5, MethodsKeepType DEF SkipAdapterless, AtCandidate, AskBreaker, Provider, ProviderAt, Inv
<1> QED BY <1>4, <1>6 DEF Inv, counts, SkipAdapterless

\* The adapter is called.
LEMMA TryKeepsInv == ASSUME Inv, NEW r \in Requests, Try(r) PROVE Inv'
<1> DEFINE q == [req[r] EXCEPT !.at = "call", !.try = 0]
<1>1. Good(req[r]) /\ DOMAIN req = Requests
  BY DEF Inv
<1>2. req' = [req EXCEPT ![r] = q]
  BY <1>1 DEF Try, AtCandidate, AskBreaker
<1>3. Good(q)
  BY <1>1, TryIsGood DEF Try, AtCandidate, AskBreaker
<1> HIDE DEF q
<1>4. DOMAIN req' = Requests /\ \A p \in Requests : Good(req'[p])
  BY <1>2, <1>3, OneRequestMoves
<1>5. Provider(r) \in Providers
  BY <1>1, PlanHasProviders DEF Try, AtCandidate, AskBreaker, Provider, ProviderAt
<1>6. breakers' \in [Providers -> Breakers] /\ health' = health
  BY <1>5, MethodsKeepType DEF Try, AtCandidate, AskBreaker, Inv
<1> QED BY <1>4, <1>6 DEF Inv, counts, Try

\* The adapter returns.
LEMMA SucceedKeepsInv == ASSUME Inv, NEW r \in Requests, Succeed(r) PROVE Inv'
<1> DEFINE q == [req[r] EXCEPT !.at = "settle", !.answer = None]
<1>1. Good(req[r]) /\ DOMAIN req = Requests
  BY DEF Inv
<1>2. req' = [req EXCEPT ![r] = q]
  BY <1>1 DEF Succeed
<1>3. Good(q)
  BY <1>1, ResponseIsGood DEF Succeed
<1> HIDE DEF q
<1>4. DOMAIN req' = Requests /\ \A p \in Requests : Good(req'[p])
  BY <1>2, <1>3, OneRequestMoves
<1>5. Provider(r) \in Providers
  BY <1>1, PlanHasProviders DEF Succeed, Provider, ProviderAt
<1>6. breakers' \in [Providers -> Breakers] /\ health' = health
  BY <1>5, MethodsKeepType DEF Succeed, Inv
<1> QED BY <1>4, <1>6 DEF Inv, counts, Succeed

\* The call will be repeated.
LEMMA BackOffKeepsInv == ASSUME Inv, NEW r \in Requests, NEW e \in Errors, BackOff(r, e) PROVE Inv'
<1> DEFINE q == [req[r] EXCEPT !.at = "backoff", !.attempts = Append(@, Attempt(r, e))]
<1>1. Good(req[r]) /\ DOMAIN req = Requests
  BY DEF Inv
<1>2. req' = [req EXCEPT ![r] = q]
  BY <1>1 DEF BackOff, ShouldRetry, Attempt
<1>3. Good(q)
  BY <1>1, BackOffIsGood DEF BackOff, ShouldRetry, Attempt
<1> HIDE DEF q
<1>4. DOMAIN req' = Requests /\ \A p \in Requests : Good(req'[p])
  BY <1>2, <1>3, OneRequestMoves
<1> QED BY <1>4 DEF Inv, BackOff, ShouldRetry, Attempt, counts

\* The call is repeated.
LEMMA WakeKeepsInv == ASSUME Inv, NEW r \in Requests, Wake(r) PROVE Inv'
<1> DEFINE q == [req[r] EXCEPT !.at = "call", !.try = @ + 1]
<1>1. Good(req[r]) /\ DOMAIN req = Requests
  BY DEF Inv
<1>2. req' = [req EXCEPT ![r] = q]
  BY <1>1 DEF Wake
<1>3. Good(q)
  BY <1>1, WakeIsGood DEF Wake
<1> HIDE DEF q
<1>4. DOMAIN req' = Requests /\ \A p \in Requests : Good(req'[p])
  BY <1>2, <1>3, OneRequestMoves
<1> QED BY <1>4 DEF Inv, Wake, counts

\* The call failed for good.
LEMMA GiveUpKeepsInv == ASSUME Inv, NEW r \in Requests, NEW e \in Errors, GiveUp(r, e) PROVE Inv'
<1> DEFINE q == [req[r] EXCEPT !.at = "settle", !.answer = e, !.attempts = Append(@, Attempt(r, e))]
<1>1. Good(req[r]) /\ DOMAIN req = Requests
  BY DEF Inv
<1>2. req' = [req EXCEPT ![r] = q]
  BY <1>1 DEF GiveUp, ShouldRetry, Attempt
<1>3. Good(q)
  <2>1. MayRetry(e) => req[r].try = MaxRetries
    BY <1>1, ExecutorAssumption DEF GiveUp, ShouldRetry, Good, Records, ExecutorAssumption
  <2> QED BY <1>1, <2>1, GivingUpIsGood DEF GiveUp, Attempt
<1> HIDE DEF q
<1>4. DOMAIN req' = Requests /\ \A p \in Requests : Good(req'[p])
  BY <1>2, <1>3, OneRequestMoves
<1>5. Provider(r) \in Providers
  BY <1>1, PlanHasProviders DEF GiveUp, ShouldRetry, Attempt, Provider, ProviderAt
<1>6. breakers' \in [Providers -> Breakers] /\ health' = health
  BY <1>5, MethodsKeepType DEF GiveUp, ShouldRetry, Attempt, Inv
<1> QED BY <1>4, <1>6 DEF Inv, counts, GiveUp

\* execute() is left.
LEMMA EscapeKeepsInv == ASSUME Inv, NEW r \in Requests, Escape(r) PROVE Inv'
<1> DEFINE q == [req[r] EXCEPT !.at = "raised", !.outcome = "escaped"]
<1>1. Good(req[r]) /\ DOMAIN req = Requests
  BY DEF Inv
<1>2. req' = [req EXCEPT ![r] = q]
  BY <1>1 DEF Escape
<1>3. Good(q)
  BY <1>1, EscapeIsGood DEF Escape
<1> HIDE DEF q
<1>4. DOMAIN req' = Requests /\ \A p \in Requests : Good(req'[p])
  BY <1>2, <1>3, OneRequestMoves
<1> QED BY <1>4 DEF Inv, Escape, counts

\* The tracker hears of the response ...
LEMMA CountResponseKeepsInv == ASSUME Inv, NEW r \in Requests, CountResponse(r) PROVE Inv'
<1> DEFINE q == [req[r] EXCEPT !.at = "counting"]
<1>1. Good(req[r]) /\ DOMAIN req = Requests
  BY DEF Inv
<1>2. req' = [req EXCEPT ![r] = q]
  BY <1>1 DEF CountResponse
<1>3. Good(q)
  BY <1>1, CountingIsGood DEF CountResponse
<1> HIDE DEF q
<1>4. DOMAIN req' = Requests /\ \A p \in Requests : Good(req'[p])
  BY <1>2, <1>3, OneRequestMoves
<1>5. Provider(r) \in Providers
  BY <1>1, PlanHasProviders DEF CountResponse, Provider, ProviderAt
<1>6. health' \in [Providers -> HealthRecords] /\ breakers' = breakers
  BY <1>5, ReportsKeepHealth DEF CountResponse, Inv
<1>7. seen' \in [Requests -> Nat]
  <2>1. health[Provider(r)] \in HealthRecords
    BY <1>5 DEF Inv
  <2>2. health[Provider(r)].count \in Nat
    BY <2>1 DEF HealthRecords
  <2> QED BY <2>2 DEF CountResponse, Inv
<1>8. shared' \in SUBSET Providers
  BY <1>5 DEF CountResponse, Inv
<1> QED BY <1>4, <1>6, <1>7, <1>8 DEF Inv

\* ... and the response is returned.
LEMMA ReturnResponseKeepsInv == ASSUME Inv, NEW r \in Requests, ReturnResponse(r) PROVE Inv'
<1> DEFINE q == [req[r] EXCEPT !.at = "returned", !.outcome = "completed",
                              !.attempts = Append(@, Attempt(r, None))]
<1>1. Good(req[r]) /\ DOMAIN req = Requests
  BY DEF Inv
<1>2. req' = [req EXCEPT ![r] = q]
  BY <1>1 DEF ReturnResponse, Attempt
<1>3. Good(q)
  BY <1>1, ReturnIsGood DEF ReturnResponse, Attempt
<1> HIDE DEF q
<1>4. DOMAIN req' = Requests /\ \A p \in Requests : Good(req'[p])
  BY <1>2, <1>3, OneRequestMoves
<1>5. Provider(r) \in Providers
  BY <1>1, PlanHasProviders DEF ReturnResponse, Attempt, Provider, ProviderAt
<1>6. health' \in [Providers -> HealthRecords] /\ breakers' = breakers
  <2>1. seen[r] \in Nat /\ health[Provider(r)] \in HealthRecords
    BY <1>5 DEF Inv
  <2> QED BY <1>5, <2>1, ReportsKeepHealth DEF ReturnResponse, Inv
<1>7. counts' = counts
  BY DEF ReturnResponse
<1> QED BY <1>4, <1>6, <1>7 DEF Inv, counts

\* The loop moves on.
LEMMA NextCandidateKeepsInv == ASSUME Inv, NEW r \in Requests, NextCandidate(r) PROVE Inv'
<1> DEFINE q == [req[r] EXCEPT !.at = "select", !.pos = @ + 1, !.error = req[r].answer,
                              !.errorOf = req[r].pos]
<1>1. Good(req[r]) /\ DOMAIN req = Requests
  BY DEF Inv
<1>2. req' = [req EXCEPT ![r] = q]
  BY <1>1 DEF NextCandidate
<1>3. Good(q)
  BY <1>1, NextIsGood DEF NextCandidate
<1> HIDE DEF q
<1>4. DOMAIN req' = Requests /\ \A p \in Requests : Good(req'[p])
  BY <1>2, <1>3, OneRequestMoves
<1>5. Provider(r) \in Providers
  BY <1>1, PlanHasProviders DEF NextCandidate, Provider, ProviderAt
<1>6. health' \in [Providers -> HealthRecords] /\ breakers' = breakers
  BY <1>5, ReportsKeepHealth DEF NextCandidate, Inv
<1> QED BY <1>4, <1>6 DEF Inv, counts, NextCandidate

\* The loop is over.
LEMMA ExhaustKeepsInv == ASSUME Inv, NEW r \in Requests, Exhaust(r) PROVE Inv'
<1> DEFINE q == [req[r] EXCEPT !.at = IF req[r].error = None THEN "raised" ELSE "returned",
                              !.outcome = IF req[r].error = None THEN "invalid" ELSE "failed"]
<1>1. Good(req[r]) /\ DOMAIN req = Requests
  BY DEF Inv
<1>2. req' = [req EXCEPT ![r] = q]
  BY <1>1 DEF Exhaust
<1>3. Good(q)
  BY <1>1, ExhaustIsGood DEF Exhaust
<1> HIDE DEF q
<1>4. DOMAIN req' = Requests /\ \A p \in Requests : Good(req'[p])
  BY <1>2, <1>3, OneRequestMoves
<1> QED BY <1>4 DEF Inv, Exhaust, counts

\* Time only ages the breakers.
LEMMA TickKeepsInv == ASSUME Inv, Tick PROVE Inv'
<1>1. breakers' \in [Providers -> Breakers]
  BY MethodsKeepType DEF Tick, Inv
<1> QED BY <1>1 DEF Tick, Inv, counts

\* The invariant is inductive ...
LEMMA NextInv == Inv /\ [Next]_vars => Inv'
<1> SUFFICES ASSUME Inv, [Next]_vars PROVE Inv'
  OBVIOUS
<1>1. CASE Tick
  BY <1>1, TickKeepsInv
<1>2. ASSUME NEW r \in Requests, NEW route \in Plans, Start(r, route) PROVE Inv'
  BY <1>2, StartKeepsInv
<1>3. ASSUME NEW r \in Requests, Advance(r) PROVE Inv'
  BY <1>3, RefuseKeepsInv, SkipAdapterlessKeepsInv, TryKeepsInv, SucceedKeepsInv, BackOffKeepsInv,
     WakeKeepsInv, GiveUpKeepsInv, EscapeKeepsInv, CountResponseKeepsInv, ReturnResponseKeepsInv,
     NextCandidateKeepsInv, ExhaustKeepsInv DEF Advance
<1>4. CASE UNCHANGED vars
  BY <1>4 DEF vars, counts, Inv
<1> QED BY <1>1, <1>2, <1>3, <1>4 DEF Next

\* ... and holds in every state.
LEMMA InvHolds == Spec => []Inv
BY InitInv, NextInv, PTL DEF Spec
-----------------------------------------------------------------------------
\* A request never leaves its plan, tries nothing more often than it may and
\* keeps errors of the kinds that are raised; the breakers and health records
\* it shares stay what they are.
THEOREM TypeCorrect == Spec => []TypeOK
<1>1. Inv => TypeOK
  BY DEF Inv, TypeOK, Good, Records, InPlan, HealthRecords, Places
<1> QED BY <1>1, InvHolds, PTL

\* The attempts are candidates in plan order, each from its first try on and
\* retried only as far and as often as its errors allow.
THEOREM AttemptsCorrect == Spec => []AttemptsFollowPlan
<1>1. Inv => AttemptsFollowPlan
  BY DEF Inv, AttemptsFollowPlan, Good, Follows
<1> QED BY <1>1, InvHolds, PTL

\* A request fails only after every candidate was refused, had no adapter, or
\* was tried to the end.
THEOREM ExhaustionCorrect == Spec => []FailsOnlyWhenExhausted
<1>1. Inv => FailsOnlyWhenExhausted
  <2> SUFFICES ASSUME Inv, NEW r \in Requests, req[r].outcome \in {"failed", "invalid"},
                      NEW i \in 1 .. Len(req[r].plan)
               PROVE  i \in req[r].refused \/ ProviderAt(r, i) \notin Adapters \/ TriedToTheEnd(r, i)
    BY DEF FailsOnlyWhenExhausted
  <2>1. Good(req[r])
    BY DEF Inv
  <2>2. i \in 1 .. req[r].pos - 1
    BY <2>1 DEF Good, Exhausts, Records
  <2>3. Passed(req[r], i)
    BY <2>1, <2>2 DEF Good, Exhausts
  <2> QED BY <2>3 DEF Passed, TriedOut, TriedToTheEnd, ProviderAt
<1> QED BY <1>1, InvHolds, PTL

\* A failed request reports the error of the last candidate it did not skip, and
\* a request is completed exactly when its last attempt succeeded.
THEOREM OutcomeCorrect == Spec => []OutcomeMatchesAttempts
<1>1. Inv => OutcomeMatchesAttempts
  <2> SUFFICES ASSUME Inv, NEW r \in Requests
               PROVE  LET log == req[r].attempts
                      IN  /\ req[r].outcome = "failed" =>
                              /\ \A i \in req[r].errorOf + 1 .. Len(req[r].plan) : i \in req[r].refused
                              /\ ProviderAt(r, req[r].errorOf) \in Adapters =>
                                     req[r].error = log[Len(log)].error /\ log[Len(log)].pos = req[r].errorOf
                          /\ req[r].outcome = "completed" <=> log # <<>> /\ log[Len(log)].error = None
    BY DEF OutcomeMatchesAttempts
  <2>1. Good(req[r])
    BY DEF Inv
  <2>2. req[r].outcome = "completed" <=>
            req[r].attempts # <<>> /\ req[r].attempts[Len(req[r].attempts)].error = None
    BY <2>1 DEF Good, Logged, Last
  <2>3. CASE req[r].outcome = "failed"
    <3>1. req[r].pos = Len(req[r].plan) + 1
      BY <2>1, <2>3 DEF Good, Records, InPlan, Exhausts
    <3>2. req[r].errorOf # 0
      BY <2>1, <2>3 DEF Good, Blames
    <3> QED BY <2>1, <2>2, <2>3, <3>1, <3>2 DEF Good, Records, Blames, Last, ProviderAt
  <2> QED BY <2>2, <2>3
<1> QED BY <1>1, InvHolds, PTL
-----------------------------------------------------------------------------
\* The requests that have read the count of a provider, and not stored theirs yet.
Counting(p) == {r \in Requests : req[r].at = "counting" /\ Provider(r) = p}

\* What makes ServedOnce inductive: no request has read more than was served; and
\* where no two of them met, the one that has read has read what there is.
CountsKept ==
    /\ ServedOnce
    /\ \A r \in Requests : req[r].at = "counting" => seen[r] <= Cardinality(Served(Provider(r)))
    /\ \A p \in Providers : p \notin shared =>
           /\ \A r \in Counting(p) : seen[r] = health[p].count
           /\ \A r, u \in Counting(p) : r = u

\* A step that completes no request, and touches none that is completed, changes
\* the requests of no provider.
LEMMA SameServed ==
    ASSUME Inv, NEW r \in Requests, NEW q, req' = [req EXCEPT ![r] = q],
           req[r].outcome # "completed", q.outcome # "completed", NEW p
    PROVE  Served(p)' = Served(p)
BY DEF Inv, Served, Provider, ProviderAt

\* Nor, if that request is not between the read and the store, those who are.
LEMMA SameCounting ==
    ASSUME Inv, NEW r \in Requests, NEW q, req' = [req EXCEPT ![r] = q],
           req[r].at # "counting", q.at # "counting"
    PROVE  /\ \A p : Counting(p)' = Counting(p)
           /\ \A u \in Requests : req'[u].at = "counting" => req[u].at = "counting" /\ Provider(u)' = Provider(u)
<1>1. DOMAIN req = Requests /\ \A u \in Requests : u # r => req'[u] = req[u]
  BY DEF Inv
<1>2. req'[r] = q
  BY <1>1
<1> QED BY <1>1, <1>2 DEF Counting, Provider, ProviderAt

\* What a provider served is a finite set of requests.
LEMMA ServedFinite == \A p : IsFiniteSet(Served(p)) /\ Cardinality(Served(p)) \in Nat
<1> SUFFICES ASSUME NEW p PROVE IsFiniteSet(Served(p)) /\ Cardinality(Served(p)) \in Nat
  OBVIOUS
<1>1. IsFiniteSet(Requests) /\ Served(p) \subseteq Requests
  BY ExecutorAssumption DEF ExecutorAssumption, Served
<1>2. IsFiniteSet(Served(p))
  BY <1>1, FS_Subset
<1> QED BY <1>2, FS_CardinalityType

\* At first nothing was served and nothing counted.
LEMMA ServedInit == Init => CountsKept
<1> SUFFICES ASSUME Init PROVE CountsKept
  OBVIOUS
<1>1. \A r \in Requests : req[r].at = "idle" /\ req[r].outcome # "completed"
  BY ExecutorAssumption DEF Init, NewRequest, ExecutorAssumption, Verdicts
<1>2. ASSUME NEW p \in Providers PROVE health[p].count = 0 /\ Cardinality(Served(p)) = 0
  <2>1. Served(p) = {}
    BY <1>1 DEF Served
  <2>2. health[p].count = 0
    BY DEF Init, NewHealth
  <2> QED BY <2>1, <2>2, FS_EmptySet
<1>3. ServedOnce
  BY <1>2 DEF ServedOnce
<1> QED BY <1>1, <1>3 DEF CountsKept, Counting

\* The steps that report no response leave the counts alone.
LEMMA ServedUnchanged ==
    ASSUME Inv, CountsKept, \A p \in Providers : health'[p].count = health[p].count,
           NEW r \in Requests, NEW q, req' = [req EXCEPT ![r] = q], UNCHANGED counts,
           req[r].outcome # "completed", q.outcome # "completed",
           req[r].at # "counting", q.at # "counting"
    PROVE  CountsKept'
<1>1. \A p : Served(p)' = Served(p)
  BY SameServed
<1>2. /\ \A p : Counting(p)' = Counting(p)
      /\ \A u \in Requests : req'[u].at = "counting" => req[u].at = "counting" /\ Provider(u)' = Provider(u)
  BY SameCounting
<1>3. seen' = seen /\ shared' = shared
  BY DEF counts
<1>4. ServedOnce'
  BY <1>1, <1>3 DEF CountsKept, ServedOnce
<1>5. ASSUME NEW u \in Requests, req'[u].at = "counting" PROVE seen'[u] <= Cardinality(Served(Provider(u)))'
  <2>1. req[u].at = "counting" /\ Provider(u)' = Provider(u)
    BY <1>2, <1>5
  <2>2. Served(Provider(u))' = Served(Provider(u))
    BY <1>1, <2>1 DEF Served
  <2> QED BY <1>3, <2>1, <2>2 DEF CountsKept
<1>6. ASSUME NEW p \in Providers, p \notin shared'
      PROVE  /\ \A u \in Counting(p)' : seen'[u] = health'[p].count
             /\ \A u, v \in Counting(p)' : u = v
  BY <1>2, <1>3, <1>6 DEF CountsKept
<1> QED BY <1>4, <1>5, <1>6 DEF CountsKept

\* The read of a count: a request that meets another one shares the provider.
LEMMA ServedRead ==
    ASSUME Inv, CountsKept, NEW r \in Requests, CountResponse(r)
    PROVE  CountsKept'
<1> DEFINE q == [req[r] EXCEPT !.at = "counting"]
<1>0. PICK mine : mine = Provider(r)
  OBVIOUS
<1>1. Good(req[r]) /\ DOMAIN req = Requests /\ health \in [Providers -> HealthRecords]
  BY DEF Inv
<1>2. /\ req[r].outcome # "completed" /\ req' = [req EXCEPT ![r] = q] /\ q.outcome # "completed"
      /\ q.plan = req[r].plan /\ q.pos = req[r].pos /\ q.at = "counting" /\ req[r].at # "counting"
  BY <1>1, ExecutorAssumption DEF CountResponse, Good, InPlan, Records, ExecutorAssumption, Verdicts
<1> HIDE DEF q
<1>3. \A p : Served(p)' = Served(p)
  BY <1>2, SameServed
<1>4. \A p \in Providers : health'[p].count = health[p].count
  BY <1>1 DEF CountResponse, AfterServed
<1>5. mine \in Providers
  BY <1>0, <1>1, PlanHasProviders DEF CountResponse, Provider, ProviderAt
<1>6. \A u \in Requests : Provider(u)' = Provider(u) /\ (u # r => req'[u] = req[u])
  BY <1>1, <1>2 DEF Provider, ProviderAt
<1>7. /\ \A p : p # mine => Counting(p)' = Counting(p)
      /\ Counting(mine)' = Counting(mine) \cup {r}
  BY <1>0, <1>1, <1>2, <1>6 DEF Counting
<1>8. seen' = [seen EXCEPT ![r] = health[mine].count] /\ seen \in [Requests -> Nat]
  BY <1>0 DEF CountResponse, Inv
<1>9. shared' = IF Counting(mine) # {} THEN shared \cup {mine} ELSE shared
  BY <1>0 DEF CountResponse, Counting
<1>10. shared \subseteq shared'
  BY <1>9
<1>11. ServedOnce'
  BY <1>3, <1>4, <1>10 DEF CountsKept, ServedOnce
<1>12. ASSUME NEW u \in Requests, req'[u].at = "counting" PROVE seen'[u] <= Cardinality(Served(Provider(u)))'
  <2>1. Served(Provider(u))' = Served(Provider(u))
    <3>1. Provider(u)' = Provider(u)
      BY <1>6
    <3> QED BY <1>3, <3>1 DEF Served
  <2>2. CASE u = r
    BY <1>0, <1>5, <1>8, <2>1, <2>2 DEF CountsKept, ServedOnce
  <2>3. CASE u # r
    BY <1>6, <1>8, <1>12, <2>1, <2>3 DEF CountsKept
  <2> QED BY <2>2, <2>3
<1>13. ASSUME NEW p \in Providers, p \notin shared'
      PROVE  /\ \A u \in Counting(p)' : seen'[u] = health'[p].count
             /\ \A u, v \in Counting(p)' : u = v
  <2>1. p \notin shared
    BY <1>10, <1>13
  <2>2. CASE p = mine
    <3>1. Counting(mine) = {} /\ Counting(p)' = {r}
      BY <1>7, <1>9, <1>13, <2>2
    <3>2. seen'[r] = health[mine].count
      BY <1>8
    <3> QED BY <1>4, <1>5, <2>2, <3>1, <3>2
  <2>3. CASE p # mine
    <3>1. Counting(p)' = Counting(p) /\ r \notin Counting(p)
      BY <1>2, <1>7, <2>3 DEF Counting
    <3>2. \A u \in Counting(p) : u \in Requests /\ seen'[u] = seen[u]
      BY <1>8, <3>1 DEF Counting
    <3> QED BY <1>4, <2>1, <3>1, <3>2 DEF CountsKept
  <2> QED BY <2>2, <2>3
<1> QED BY <1>11, <1>12, <1>13 DEF CountsKept

\* The store of a count: one more request is served, and at most one more counted.
LEMMA ServedStored ==
    ASSUME Inv, CountsKept, NEW r \in Requests, ReturnResponse(r)
    PROVE  CountsKept'
<1> DEFINE q == [req[r] EXCEPT !.at = "returned", !.outcome = "completed",
                               !.attempts = Append(@, Attempt(r, None))]
<1>0. PICK mine : mine = Provider(r)
  OBVIOUS
<1>1. Good(req[r]) /\ DOMAIN req = Requests /\ health \in [Providers -> HealthRecords]
  BY DEF Inv
<1>2. /\ req[r].outcome # "completed" /\ req' = [req EXCEPT ![r] = q] /\ req[r].at = "counting"
      /\ q.outcome = "completed" /\ q.plan = req[r].plan /\ q.pos = req[r].pos /\ q.at # "counting"
  BY <1>1, ExecutorAssumption DEF ReturnResponse, Good, InPlan, Records, ExecutorAssumption, Verdicts
<1> HIDE DEF q
<1>3. mine \in Providers
  BY <1>0, <1>1, PlanHasProviders DEF ReturnResponse, Provider, ProviderAt
<1>4. \A u \in Requests : Provider(u)' = Provider(u) /\ (u # r => req'[u] = req[u])
  BY <1>1, <1>2 DEF Provider, ProviderAt
<1>5. /\ Served(mine)' = Served(mine) \cup {r} /\ r \notin Served(mine)
      /\ \A p : p # mine => Served(p)' = Served(p)
  BY <1>0, <1>1, <1>2, <1>4 DEF Served
<1>6. \A p : Counting(p)' = Counting(p) \ {r}
  BY <1>1, <1>2, <1>4 DEF Counting
<1>7. r \in Counting(mine) /\ \A p : p # mine => r \notin Counting(p)
  BY <1>0, <1>2 DEF Counting
<1>8. seen' = seen /\ shared' = shared /\ seen \in [Requests -> Nat]
  BY DEF ReturnResponse, counts, Inv
<1>9. health'[mine].count = seen[r] + 1 /\ \A p \in Providers : p # mine => health'[p] = health[p]
  BY <1>0, <1>1, <1>3 DEF ReturnResponse, AfterCounted
<1>10. seen[r] <= Cardinality(Served(mine))
  BY <1>0, <1>2 DEF CountsKept
<1>11. Cardinality(Served(mine))' = Cardinality(Served(mine)) + 1
  <2>1. Cardinality(Served(mine) \cup {r}) = Cardinality(Served(mine)) + 1
    BY <1>5, ServedFinite, FS_AddElement
  <2>2. Served(mine)' = Served(mine) \cup {r}
    BY <1>5
  <2> QED BY <2>1, <2>2
<1>12. ASSUME NEW p \in Providers
       PROVE  /\ health'[p].count <= Cardinality(Served(p)')
              /\ p \notin shared' => health'[p].count = Cardinality(Served(p)')
  <2>1. CASE p = mine
    <3>1. Cardinality(Served(p)') = Cardinality(Served(mine)) + 1 /\ health'[p].count = seen[r] + 1
      BY <1>9, <1>11, <2>1
    <3>2. mine \notin shared => seen[r] = health[mine].count /\ health[mine].count = Cardinality(Served(mine))
      BY <1>3, <1>7 DEF CountsKept, ServedOnce
    <3>3. seen[r] \in Nat /\ Cardinality(Served(mine)) \in Nat
      BY <1>8, ServedFinite
    <3> QED BY <1>8, <1>10, <2>1, <3>1, <3>2, <3>3
  <2>2. CASE p # mine
    BY <1>5, <1>8, <1>9, <2>2 DEF CountsKept, ServedOnce
  <2> QED BY <2>1, <2>2
<1>13. ServedOnce'
  BY <1>12 DEF ServedOnce
<1>14. ASSUME NEW u \in Requests, req'[u].at = "counting" PROVE seen'[u] <= Cardinality(Served(Provider(u)))'
  <2>1. u # r /\ req[u].at = "counting" /\ Provider(u)' = Provider(u)
    BY <1>1, <1>2, <1>4, <1>14
  <2>2. seen[u] <= Cardinality(Served(Provider(u))) /\ seen[u] \in Nat
    BY <1>8, <2>1 DEF CountsKept
  <2>3. CASE Provider(u) = mine
    <3>1. Served(Provider(u))' = Served(mine)'
      BY <2>1, <2>3 DEF Served
    <3> QED BY <1>8, <1>11, <2>2, <2>3, <3>1, ServedFinite
  <2>4. CASE Provider(u) # mine
    <3>1. Served(Provider(u))' = Served(Provider(u))
      BY <1>5, <2>1, <2>4 DEF Served
    <3> QED BY <1>8, <2>2, <3>1
  <2> QED BY <2>3, <2>4
<1>15. ASSUME NEW p \in Providers, p \notin shared'
      PROVE  /\ \A u \in Counting(p)' : seen'[u] = health'[p].count
             /\ \A u, v \in Counting(p)' : u = v
  <2>1. CASE p = mine
    <3>1. Counting(p)' = {}
      BY <1>6, <1>7, <1>8, <1>3, <1>15, <2>1 DEF CountsKept
    <3> QED BY <3>1
  <2>2. CASE p # mine
    BY <1>6, <1>7, <1>8, <1>9, <1>15, <2>2 DEF CountsKept
  <2> QED BY <2>1, <2>2
<1> QED BY <1>13, <1>14, <1>15 DEF CountsKept

\* So every step keeps the counts right.
LEMMA ServedNext == Inv /\ CountsKept /\ [Next]_vars => CountsKept'
<1> SUFFICES ASSUME Inv, CountsKept, [Next]_vars PROVE CountsKept'
  OBVIOUS
<1>1. CASE Tick \/ UNCHANGED vars
  <2>1. health' = health /\ req' = req /\ seen' = seen /\ shared' = shared
    BY <1>1 DEF Tick, vars, counts
  <2> QED BY <2>1 DEF CountsKept, ServedOnce, Served, Counting, Provider, ProviderAt
<1>2. ASSUME NEW r \in Requests, NEW route \in Plans, Start(r, route) PROVE CountsKept'
  <2> DEFINE q == NewRequest(route)
  <2>1. /\ Good(req[r]) /\ req' = [req EXCEPT ![r] = q]
        /\ UNCHANGED counts /\ \A p \in Providers : health'[p].count = health[p].count
    BY <1>2 DEF Inv, Start, NewRequest
  <2>2. req[r].outcome # "completed" /\ q.outcome # "completed" /\ req[r].at # "counting" /\ q.at # "counting"
    BY <1>2, <2>1, ExecutorAssumption
    DEF Start, NewRequest, Good, InPlan, Records, ExecutorAssumption, Verdicts
  <2> HIDE DEF q
  <2> QED BY <2>1, <2>2, ServedUnchanged
<1>3. ASSUME NEW r \in Requests, Refuse(r) PROVE CountsKept'
  <2> DEFINE q == [req[r] EXCEPT !.pos = @ + 1, !.refused = @ \cup {req[r].pos}]
  <2>1. /\ Good(req[r]) /\ req' = [req EXCEPT ![r] = q]
        /\ UNCHANGED counts /\ \A p \in Providers : health'[p].count = health[p].count
    BY <1>3 DEF Inv, Refuse, AtCandidate
  <2>2. req[r].outcome # "completed" /\ q.outcome # "completed" /\ req[r].at # "counting" /\ q.at # "counting"
    BY <1>3, <2>1, ExecutorAssumption
    DEF Refuse, AtCandidate, Good, InPlan, Records, ExecutorAssumption, Verdicts
  <2> HIDE DEF q
  <2> QED BY <2>1, <2>2, ServedUnchanged
<1>4. ASSUME NEW r \in Requests, SkipAdapterless(r) PROVE CountsKept'
  <2> DEFINE q == [req[r] EXCEPT !.error = NoAdapter, !.errorOf = req[r].pos, !.pos = @ + 1]
  <2>1. /\ Good(req[r]) /\ req' = [req EXCEPT ![r] = q]
        /\ UNCHANGED counts /\ \A p \in Providers : health'[p].count = health[p].count
    BY <1>4 DEF Inv, SkipAdapterless, AtCandidate
  <2>2. req[r].outcome # "completed" /\ q.outcome # "completed" /\ req[r].at # "counting" /\ q.at # "counting"
    BY <1>4, <2>1, ExecutorAssumption
    DEF SkipAdapterless, AtCandidate, Good, InPlan, Records, ExecutorAssumption, Verdicts
  <2> HIDE DEF q
  <2> QED BY <2>1, <2>2, ServedUnchanged
<1>5. ASSUME NEW r \in Requests, Try(r) PROVE CountsKept'
  <2> DEFINE q == [req[r] EXCEPT !.at = "call", !.try = 0]
  <2>1. /\ Good(req[r]) /\ req' = [req EXCEPT ![r] = q]
        /\ UNCHANGED counts /\ \A p \in Providers : health'[p].count = health[p].count
    BY <1>5 DEF Inv, Try, AtCandidate
  <2>2. req[r].outcome # "completed" /\ q.outcome # "completed" /\ req[r].at # "counting" /\ q.at # "counting"
    BY <1>5, <2>1, ExecutorAssumption
    DEF Try, AtCandidate, Good, InPlan, Records, ExecutorAssumption, Verdicts
  <2> HIDE DEF q
  <2> QED BY <2>1, <2>2, ServedUnchanged
<1>6. ASSUME NEW r \in Requests, Succeed(r) PROVE CountsKept'
  <2> DEFINE q == [req[r] EXCEPT !.at = "settle", !.answer = None]
  <2>1. /\ Good(req[r]) /\ req' = [req EXCEPT ![r] = q]
        /\ UNCHANGED counts /\ \A p \in Providers : health'[p].count = health[p].count
    BY <1>6 DEF Inv, Succeed
  <2>2. req[r].outcome # "completed" /\ q.outcome # "completed" /\ req[r].at # "counting" /\ q.at # "counting"
    BY <1>6, <2>1, ExecutorAssumption
    DEF Succeed, Good, InPlan, Records, ExecutorAssumption, Verdicts
  <2> HIDE DEF q
  <2> QED BY <2>1, <2>2, ServedUnchanged
<1>7. ASSUME NEW r \in Requests, NEW e \in Errors, BackOff(r, e) PROVE CountsKept'
  <2> DEFINE q == [req[r] EXCEPT !.at = "backoff", !.attempts = Append(@, Attempt(r, e))]
  <2>1. /\ Good(req[r]) /\ req' = [req EXCEPT ![r] = q]
        /\ UNCHANGED counts /\ \A p \in Providers : health'[p].count = health[p].count
    BY <1>7 DEF Inv, BackOff
  <2>2. req[r].outcome # "completed" /\ q.outcome # "completed" /\ req[r].at # "counting" /\ q.at # "counting"
    BY <1>7, <2>1, ExecutorAssumption
    DEF BackOff, Good, InPlan, Records, ExecutorAssumption, Verdicts
  <2> HIDE DEF q
  <2> QED BY <2>1, <2>2, ServedUnchanged
<1>8. ASSUME NEW r \in Requests, Wake(r) PROVE CountsKept'
  <2> DEFINE q == [req[r] EXCEPT !.at = "call", !.try = @ + 1]
  <2>1. /\ Good(req[r]) /\ req' = [req EXCEPT ![r] = q]
        /\ UNCHANGED counts /\ \A p \in Providers : health'[p].count = health[p].count
    BY <1>8 DEF Inv, Wake
  <2>2. req[r].outcome # "completed" /\ q.outcome # "completed" /\ req[r].at # "counting" /\ q.at # "counting"
    BY <1>8, <2>1, ExecutorAssumption
    DEF Wake, Good, InPlan, Records, ExecutorAssumption, Verdicts
  <2> HIDE DEF q
  <2> QED BY <2>1, <2>2, ServedUnchanged
<1>9. ASSUME NEW r \in Requests, NEW e \in Errors, GiveUp(r, e) PROVE CountsKept'
  <2> DEFINE q == [req[r] EXCEPT !.at = "settle", !.answer = e, !.attempts = Append(@, Attempt(r, e))]
  <2>1. /\ Good(req[r]) /\ req' = [req EXCEPT ![r] = q]
        /\ UNCHANGED counts /\ \A p \in Providers : health'[p].count = health[p].count
    BY <1>9 DEF Inv, GiveUp
  <2>2. req[r].outcome # "completed" /\ q.outcome # "completed" /\ req[r].at # "counting" /\ q.at # "counting"
    BY <1>9, <2>1, ExecutorAssumption
    DEF GiveUp, Good, InPlan, Records, ExecutorAssumption, Verdicts
  <2> HIDE DEF q
  <2> QED BY <2>1, <2>2, ServedUnchanged
<1>10. ASSUME NEW r \in Requests, Escape(r) PROVE CountsKept'
  <2> DEFINE q == [req[r] EXCEPT !.at = "raised", !.outcome = "escaped"]
  <2>1. /\ Good(req[r]) /\ req' = [req EXCEPT ![r] = q]
        /\ UNCHANGED counts /\ \A p \in Providers : health'[p].count = health[p].count
    BY <1>10 DEF Inv, Escape
  <2>2. req[r].outcome # "completed" /\ q.outcome # "completed" /\ req[r].at # "counting" /\ q.at # "counting"
    BY <1>10, <2>1, ExecutorAssumption
    DEF Escape, Good, InPlan, Records, ExecutorAssumption, Verdicts
  <2> HIDE DEF q
  <2> QED BY <2>1, <2>2, ServedUnchanged
<1>11. ASSUME NEW r \in Requests, NextCandidate(r) PROVE CountsKept'
  <2> DEFINE q == [req[r] EXCEPT !.at = "select", !.pos = @ + 1, !.error = req[r].answer,
                                !.errorOf = req[r].pos]
  <2>1. /\ Good(req[r]) /\ req' = [req EXCEPT ![r] = q]
        /\ UNCHANGED counts /\ \A p \in Providers : health'[p].count = health[p].count
    BY <1>11 DEF Inv, NextCandidate, AfterRefused
  <2>2. req[r].outcome # "completed" /\ q.outcome # "completed" /\ req[r].at # "counting" /\ q.at # "counting"
    BY <1>11, <2>1, ExecutorAssumption
    DEF NextCandidate, Good, InPlan, Records, ExecutorAssumption, Verdicts
  <2> HIDE DEF q
  <2> QED BY <2>1, <2>2, ServedUnchanged
<1>12. ASSUME NEW r \in Requests, Exhaust(r) PROVE CountsKept'
  <2> DEFINE q == [req[r] EXCEPT !.at = IF req[r].error = None THEN "raised" ELSE "returned",
                                !.outcome = IF req[r].error = None THEN "invalid" ELSE "failed"]
  <2>1. /\ Good(req[r]) /\ req' = [req EXCEPT ![r] = q]
        /\ UNCHANGED counts /\ \A p \in Providers : health'[p].count = health[p].count
    BY <1>12 DEF Inv, Exhaust
  <2>2. req[r].outcome # "completed" /\ q.outcome # "completed" /\ req[r].at # "counting" /\ q.at # "counting"
    BY <1>12, <2>1, ExecutorAssumption
    DEF Exhaust, Good, InPlan, Records, ExecutorAssumption, Verdicts
  <2> HIDE DEF q
  <2> QED BY <2>1, <2>2, ServedUnchanged
<1>13. ASSUME NEW r \in Requests, ReturnResponse(r) PROVE CountsKept'
  BY <1>13, ServedStored
<1>14. ASSUME NEW r \in Requests, CountResponse(r) PROVE CountsKept'
  BY <1>14, ServedRead
<1> QED BY <1>1, <1>2, <1>3, <1>4, <1>5, <1>6, <1>7, <1>8, <1>9, <1>10, <1>11, <1>12, <1>13, <1>14
  DEF Next, Advance

\* No provider is charged with more requests than it completed, however the
\* requests interleave, and one that no two requests counted at the same time with
\* exactly those.
THEOREM ServedCorrect == Spec => []ServedOnce
<1>1. CountsKept => ServedOnce
  BY DEF CountsKept
<1> QED BY <1>1, InvHolds, ServedInit, ServedNext, PTL DEF Spec
-----------------------------------------------------------------------------
\* The executor keeps the promise of Fallback: whatever breakers, retries, health
\* records and other requests do, a request gives up the candidates of its plan one
\* by one and in order, and ends as Fallback says.

\* What Fallback sees of a request: the candidates left, and the verdict.
Left(q) == SubSeq(q.plan, q.pos, Len(q.plan))

Verdict(q) ==
    CASE q.at = "idle" -> "waiting"
      [] q.at \in {"returned", "raised"} -> IF q.outcome = "completed" THEN "completed"
                                            ELSE IF q.outcome = "escaped" THEN "crashed" ELSE "failed"
      [] OTHER -> "running"

left == [r \in Requests |-> Left(req[r])]
verdict == [r \in Requests |-> Verdict(req[r])]
-----------------------------------------------------------------------------
\* A whole plan is left at its first position, nothing beyond its last one, and
\* the next position leaves all but the first of the candidates.
LEMMA LeftOfPlan ==
    ASSUME NEW S, NEW route \in Seq(S), NEW k \in 1 .. Len(route)
    PROVE  /\ SubSeq(route, k, Len(route)) # <<>>
           /\ Tail(SubSeq(route, k, Len(route))) = SubSeq(route, k + 1, Len(route))
<1> DEFINE rest == SubSeq(route, k, Len(route))
           next == SubSeq(route, k + 1, Len(route))
<1>1. Len(route) \in Nat /\ k \in Nat /\ k >= 1 /\ k <= Len(route)
  OBVIOUS
<1>2. /\ rest \in Seq(S) /\ Len(rest) = Len(route) - k + 1
      /\ \A i \in 1 .. Len(rest) : rest[i] = route[k + i - 1]
  BY <1>1
<1>3. /\ next \in Seq(S) /\ Len(next) = Len(route) - k
      /\ \A i \in 1 .. Len(next) : next[i] = route[k + i]
  BY <1>1
<1> HIDE DEF rest, next
<1>4. rest # <<>> /\ Tail(rest) \in Seq(S) /\ Len(Tail(rest)) = Len(next)
  BY <1>1, <1>2, <1>3
<1>5. ASSUME NEW i \in 1 .. Len(next) PROVE Tail(rest)[i] = next[i]
  <2>1. i + 1 \in 1 .. Len(rest) /\ k + (i + 1) - 1 = k + i
    BY <1>1, <1>2, <1>3
  <2>2. rest[i + 1] = route[k + i] /\ next[i] = route[k + i]
    BY <1>2, <1>3, <2>1
  <2>3. Tail(rest)[i] = rest[i + 1]
    BY <1>2, <1>3, <1>4
  <2> QED BY <2>2, <2>3
<1>6. Tail(rest) = next
  <2>1. \A u \in Seq(S) : u = [i \in 1 .. Len(u) |-> u[i]]
    OBVIOUS
  <2>2. Tail(rest) = [i \in 1 .. Len(next) |-> Tail(rest)[i]] /\ next = [i \in 1 .. Len(next) |-> next[i]]
    BY <1>3, <1>4, <2>1
  <2> QED BY <1>5, <2>2
<1> QED BY <1>4, <1>6 DEF rest, next

LEMMA WholePlan ==
    ASSUME NEW S, NEW route \in Seq(S)
    PROVE  SubSeq(route, 1, Len(route)) = route /\ SubSeq(route, Len(route) + 1, Len(route)) = <<>>
OBVIOUS

\* A step of one request is a step of its image.
LEMMA OneImageMoves ==
    ASSUME Inv, NEW r \in Requests, NEW q, req' = [req EXCEPT ![r] = q]
    PROVE  /\ left' = [left EXCEPT ![r] = Left(q)]
           /\ verdict' = [verdict EXCEPT ![r] = Verdict(q)]
           /\ left[r] = Left(req[r]) /\ verdict[r] = Verdict(req[r])
BY DEF Inv, left, verdict

\* A step that leaves the image of its request alone is a stutter.
LEMMA SameImage ==
    ASSUME Inv, NEW r \in Requests, NEW q, req' = [req EXCEPT ![r] = q],
           Left(q) = Left(req[r]), Verdict(q) = Verdict(req[r])
    PROVE  UNCHANGED <<left, verdict>>
<1>1. /\ left' = [left EXCEPT ![r] = left[r]]
      /\ verdict' = [verdict EXCEPT ![r] = verdict[r]]
  BY OneImageMoves
<1> QED BY <1>1 DEF left, verdict

\* A candidate given up is dropped.
LEMMA Drops ==
    ASSUME Inv, NEW r \in Requests, NEW q, req' = [req EXCEPT ![r] = q],
           req[r].at \in {"select", "settle"}, req[r].pos <= Len(req[r].plan),
           q.at = "select", q.plan = req[r].plan, q.pos = req[r].pos + 1
    PROVE  Fallback!Drop(r)
<1>1. req[r] \in Records /\ req[r].pos \in 1 .. Len(req[r].plan)
  BY DEF Inv, Good, InPlan, Records
<1>2. Left(req[r]) # <<>> /\ Left(q) = Tail(Left(req[r]))
  BY <1>1, LeftOfPlan DEF Left, Records
<1>3. Verdict(req[r]) = "running" /\ Verdict(q) = "running"
  BY DEF Verdict
<1>4. /\ left' = [left EXCEPT ![r] = Left(q)] /\ left[r] = Left(req[r])
      /\ verdict' = [verdict EXCEPT ![r] = Verdict(q)] /\ verdict[r] = Verdict(req[r])
  BY OneImageMoves
<1>5. verdict[r] = "running" /\ left[r] # <<>> /\ left' = [left EXCEPT ![r] = Tail(left[r])]
  BY <1>2, <1>3, <1>4
<1>6. verdict' = verdict
  <2>1. verdict' = [verdict EXCEPT ![r] = verdict[r]]
    BY <1>3, <1>4
  <2> QED BY <2>1 DEF verdict
<1> QED BY <1>5, <1>6 DEF Fallback!Drop, left, verdict, Left, Verdict, Ended

\* An answer completes the request with the candidate at hand still left.
LEMMA Completes ==
    ASSUME Inv, NEW r \in Requests, NEW q, req' = [req EXCEPT ![r] = q],
           req[r].at = "counting", q.at = "returned", q.outcome = "completed",
           q.plan = req[r].plan, q.pos = req[r].pos
    PROVE  Fallback!Complete(r)
<1>1. Left(req[r]) # <<>>
  BY LeftOfPlan, WholePlan DEF Left, Inv, Good, InPlan, Records
<1>2. Verdict(req[r]) = "running" /\ Verdict(q) = "completed" /\ Left(q) = Left(req[r])
  BY DEF Verdict, Left
<1>3. /\ left' = [left EXCEPT ![r] = Left(q)] /\ left[r] = Left(req[r])
      /\ verdict' = [verdict EXCEPT ![r] = Verdict(q)] /\ verdict[r] = Verdict(req[r])
  BY OneImageMoves
<1>4. verdict[r] = "running" /\ left[r] # <<>> /\ verdict' = [verdict EXCEPT ![r] = "completed"]
  BY <1>1, <1>2, <1>3
<1>5. left' = left
  <2>1. left' = [left EXCEPT ![r] = left[r]]
    BY <1>2, <1>3
  <2> QED BY <2>1 DEF left
<1> QED BY <1>4, <1>5 DEF Fallback!Complete, left, verdict, Left, Verdict, Ended

\* An exception that leaves execute() crashes the request.
LEMMA Crashes ==
    ASSUME Inv, NEW r \in Requests, NEW q, req' = [req EXCEPT ![r] = q],
           req[r].at = "call", q.at = "raised", q.outcome = "escaped",
           q.plan = req[r].plan, q.pos = req[r].pos
    PROVE  Fallback!Crash(r)
<1>1. Left(req[r]) # <<>>
  BY LeftOfPlan, WholePlan DEF Left, Inv, Good, InPlan, Records
<1>2. Verdict(req[r]) = "running" /\ Verdict(q) = "crashed" /\ Left(q) = Left(req[r])
  BY DEF Verdict, Left
<1>3. /\ left' = [left EXCEPT ![r] = Left(q)] /\ left[r] = Left(req[r])
      /\ verdict' = [verdict EXCEPT ![r] = Verdict(q)] /\ verdict[r] = Verdict(req[r])
  BY OneImageMoves
<1>4. verdict[r] = "running" /\ left[r] # <<>> /\ verdict' = [verdict EXCEPT ![r] = "crashed"]
  BY <1>1, <1>2, <1>3
<1>5. left' = left
  <2>1. left' = [left EXCEPT ![r] = left[r]]
    BY <1>2, <1>3
  <2> QED BY <2>1 DEF left
<1> QED BY <1>4, <1>5 DEF Fallback!Crash, left, verdict, Left, Verdict, Ended

\* Without a candidate left the request fails.
LEMMA Fails ==
    ASSUME Inv, NEW r \in Requests, NEW q, req' = [req EXCEPT ![r] = q],
           req[r].at = "select", req[r].pos > Len(req[r].plan),
           q.at \in {"returned", "raised"}, q.outcome \in {"failed", "invalid"},
           q.plan = req[r].plan, q.pos = req[r].pos
    PROVE  Fallback!Fail(r)
<1>1. Left(req[r]) = <<>>
  BY LeftOfPlan, WholePlan DEF Left, Inv, Good, InPlan, Records
<1>2. Verdict(req[r]) = "running" /\ Verdict(q) = "failed" /\ Left(q) = Left(req[r])
  BY DEF Verdict, Left
<1>3. /\ left' = [left EXCEPT ![r] = Left(q)] /\ left[r] = Left(req[r])
      /\ verdict' = [verdict EXCEPT ![r] = Verdict(q)] /\ verdict[r] = Verdict(req[r])
  BY OneImageMoves
<1>4. verdict[r] = "running" /\ left[r] = <<>> /\ verdict' = [verdict EXCEPT ![r] = "failed"]
  BY <1>1, <1>2, <1>3
<1>5. left' = left
  <2>1. left' = [left EXCEPT ![r] = left[r]]
    BY <1>2, <1>3
  <2> QED BY <2>1 DEF left
<1> QED BY <1>4, <1>5 DEF Fallback!Fail, left, verdict, Left, Verdict, Ended

\* A plan that is handed over is all left.
LEMMA Begins ==
    ASSUME Inv, NEW r \in Requests, NEW route \in Plans, Start(r, route)
    PROVE  Fallback!Begin(r)
<1> DEFINE q == NewRequest(route)
<1>1. Left(q) = route /\ Verdict(q) = "running" /\ Verdict(req[r]) = "waiting"
  BY ExecutorAssumption, WholePlan DEF ExecutorAssumption, Left, Verdict, NewRequest, Start
<1>2. req' = [req EXCEPT ![r] = q]
  BY DEF Start
<1> HIDE DEF q
<1>3. /\ left' = [left EXCEPT ![r] = Left(q)]
      /\ verdict' = [verdict EXCEPT ![r] = Verdict(q)] /\ verdict[r] = Verdict(req[r])
  BY <1>2, OneImageMoves
<1>4. verdict[r] = "waiting" /\ left' = [left EXCEPT ![r] = route] /\ verdict' = [verdict EXCEPT ![r] = "running"]
  BY <1>1, <1>3
<1> QED BY <1>4 DEF Fallback!Begin, left, verdict, Left, Verdict, Ended
-----------------------------------------------------------------------------
\* All requests wait with nothing left.
LEMMA InitImplements == Init => Fallback!Init
<1> SUFFICES ASSUME Init PROVE Fallback!Init
  OBVIOUS
<1>1. ASSUME NEW r \in Requests
      PROVE  SubSeq(req[r].plan, req[r].pos, Len(req[r].plan)) = <<>> /\ req[r].at = "idle"
  BY DEF Init, NewRequest
<1> QED BY <1>1 DEF Fallback!Init, Ended

\* Every step is a step or a stutter of the promise: a call, its retries and its
\* answer leave a candidate at hand; giving it up drops it.
LEMMA StepImplements ==
    Inv /\ [Next]_vars => [Fallback!Next]_<<left, verdict>>
<1> SUFFICES ASSUME Inv, [Next]_vars PROVE Fallback!Next \/ UNCHANGED <<left, verdict>>
  OBVIOUS
<1>1. ASSUME NEW r \in Requests, Refuse(r) PROVE Fallback!Drop(r)
  <2> DEFINE q == [req[r] EXCEPT !.pos = @ + 1, !.refused = @ \cup {req[r].pos}]
  <2>1. Good(req[r]) /\ req' = [req EXCEPT ![r] = q]
    BY <1>1 DEF Inv, Refuse, AtCandidate
  <2>2. /\ req[r].at \in {"select", "settle"} /\ req[r].pos <= Len(req[r].plan)
        /\ q.at = "select" /\ q.plan = req[r].plan /\ q.pos = req[r].pos + 1
    BY <1>1, <2>1 DEF Refuse, AtCandidate, Good, Records, InPlan
  <2> HIDE DEF q
  <2> QED BY <2>1, <2>2, Drops
<1>2. ASSUME NEW r \in Requests, SkipAdapterless(r) PROVE Fallback!Drop(r)
  <2> DEFINE q == [req[r] EXCEPT !.error = NoAdapter, !.errorOf = req[r].pos, !.pos = @ + 1]
  <2>1. Good(req[r]) /\ req' = [req EXCEPT ![r] = q]
    BY <1>2 DEF Inv, SkipAdapterless, AtCandidate
  <2>2. /\ req[r].at \in {"select", "settle"} /\ req[r].pos <= Len(req[r].plan)
        /\ q.at = "select" /\ q.plan = req[r].plan /\ q.pos = req[r].pos + 1
    BY <1>2, <2>1 DEF SkipAdapterless, AtCandidate, Good, Records, InPlan
  <2> HIDE DEF q
  <2> QED BY <2>1, <2>2, Drops
<1>3. ASSUME NEW r \in Requests, Try(r) PROVE UNCHANGED <<left, verdict>>
  <2> DEFINE q == [req[r] EXCEPT !.at = "call", !.try = 0]
  <2>1. Good(req[r]) /\ req' = [req EXCEPT ![r] = q]
    BY <1>3 DEF Inv, Try, AtCandidate
  <2>2. Left(q) = Left(req[r]) /\ Verdict(q) = Verdict(req[r])
    BY <1>3, <2>1 DEF Try, AtCandidate, Left, Verdict, Good, Records
  <2> HIDE DEF q
  <2> QED BY <2>1, <2>2, SameImage
<1>4. ASSUME NEW r \in Requests, Succeed(r) PROVE UNCHANGED <<left, verdict>>
  <2> DEFINE q == [req[r] EXCEPT !.at = "settle", !.answer = None]
  <2>1. Good(req[r]) /\ req' = [req EXCEPT ![r] = q]
    BY <1>4 DEF Inv, Succeed
  <2>2. Left(q) = Left(req[r]) /\ Verdict(q) = Verdict(req[r])
    BY <1>4, <2>1 DEF Succeed, Left, Verdict, Good, Records
  <2> HIDE DEF q
  <2> QED BY <2>1, <2>2, SameImage
<1>5. ASSUME NEW r \in Requests, NEW e \in Errors, BackOff(r, e) PROVE UNCHANGED <<left, verdict>>
  <2> DEFINE q == [req[r] EXCEPT !.at = "backoff", !.attempts = Append(@, Attempt(r, e))]
  <2>1. Good(req[r]) /\ req' = [req EXCEPT ![r] = q]
    BY <1>5 DEF Inv, BackOff
  <2>2. Left(q) = Left(req[r]) /\ Verdict(q) = Verdict(req[r])
    BY <1>5, <2>1 DEF BackOff, Left, Verdict, Good, Records
  <2> HIDE DEF q
  <2> QED BY <2>1, <2>2, SameImage
<1>6. ASSUME NEW r \in Requests, Wake(r) PROVE UNCHANGED <<left, verdict>>
  <2> DEFINE q == [req[r] EXCEPT !.at = "call", !.try = @ + 1]
  <2>1. Good(req[r]) /\ req' = [req EXCEPT ![r] = q]
    BY <1>6 DEF Inv, Wake
  <2>2. Left(q) = Left(req[r]) /\ Verdict(q) = Verdict(req[r])
    BY <1>6, <2>1 DEF Wake, Left, Verdict, Good, Records
  <2> HIDE DEF q
  <2> QED BY <2>1, <2>2, SameImage
<1>7. ASSUME NEW r \in Requests, NEW e \in Errors, GiveUp(r, e) PROVE UNCHANGED <<left, verdict>>
  <2> DEFINE q == [req[r] EXCEPT !.at = "settle", !.answer = e,
                                !.attempts = Append(@, Attempt(r, e))]
  <2>1. Good(req[r]) /\ req' = [req EXCEPT ![r] = q]
    BY <1>7 DEF Inv, GiveUp
  <2>2. Left(q) = Left(req[r]) /\ Verdict(q) = Verdict(req[r])
    BY <1>7, <2>1 DEF GiveUp, Left, Verdict, Good, Records
  <2> HIDE DEF q
  <2> QED BY <2>1, <2>2, SameImage
<1>8. ASSUME NEW r \in Requests, Escape(r) PROVE Fallback!Crash(r)
  <2> DEFINE q == [req[r] EXCEPT !.at = "raised", !.outcome = "escaped"]
  <2>1. Good(req[r]) /\ req' = [req EXCEPT ![r] = q]
    BY <1>8 DEF Inv, Escape
  <2>2. /\ req[r].at = "call" /\ q.at = "raised" /\ q.outcome = "escaped"
        /\ q.plan = req[r].plan /\ q.pos = req[r].pos
    BY <1>8, <2>1 DEF Escape, Good, Records
  <2> HIDE DEF q
  <2> QED BY <2>1, <2>2, Crashes
<1>9. ASSUME NEW r \in Requests, ReturnResponse(r) PROVE Fallback!Complete(r)
  <2> DEFINE q == [req[r] EXCEPT !.at = "returned", !.outcome = "completed",
                                !.attempts = Append(@, Attempt(r, None))]
  <2>1. Good(req[r]) /\ req' = [req EXCEPT ![r] = q]
    BY <1>9 DEF Inv, ReturnResponse
  <2>2. /\ req[r].at = "counting" /\ q.at = "returned" /\ q.outcome = "completed"
        /\ q.plan = req[r].plan /\ q.pos = req[r].pos
    BY <1>9, <2>1 DEF ReturnResponse, Good, Records
  <2> HIDE DEF q
  <2> QED BY <2>1, <2>2, Completes
<1>10. ASSUME NEW r \in Requests, NextCandidate(r) PROVE Fallback!Drop(r)
  <2> DEFINE q == [req[r] EXCEPT !.at = "select", !.pos = @ + 1, !.error = req[r].answer,
                                !.errorOf = req[r].pos]
  <2>1. Good(req[r]) /\ req' = [req EXCEPT ![r] = q]
    BY <1>10 DEF Inv, NextCandidate
  <2>2. /\ req[r].at \in {"select", "settle"} /\ req[r].pos <= Len(req[r].plan)
        /\ q.at = "select" /\ q.plan = req[r].plan /\ q.pos = req[r].pos + 1
    BY <1>10, <2>1 DEF NextCandidate, Good, Records, InPlan
  <2> HIDE DEF q
  <2> QED BY <2>1, <2>2, Drops
<1>11. ASSUME NEW r \in Requests, Exhaust(r) PROVE Fallback!Fail(r)
  <2> DEFINE q == [req[r] EXCEPT !.at = IF req[r].error = None THEN "raised" ELSE "returned",
                                !.outcome = IF req[r].error = None THEN "invalid" ELSE "failed"]
  <2>1. Good(req[r]) /\ req' = [req EXCEPT ![r] = q]
    BY <1>11 DEF Inv, Exhaust
  <2>2. /\ req[r].at = "select" /\ req[r].pos > Len(req[r].plan)
        /\ q.at \in {"returned", "raised"} /\ q.outcome \in {"failed", "invalid"}
        /\ q.plan = req[r].plan /\ q.pos = req[r].pos
    BY <1>11, <2>1 DEF Exhaust, Good, Records
  <2> HIDE DEF q
  <2> QED BY <2>1, <2>2, Fails
<1>12. ASSUME NEW r \in Requests, NEW route \in Plans, Start(r, route) PROVE Fallback!Begin(r)
  BY <1>12, Begins
<1>15. ASSUME NEW r \in Requests, CountResponse(r) PROVE UNCHANGED <<left, verdict>>
  <2> DEFINE q == [req[r] EXCEPT !.at = "counting"]
  <2>1. Good(req[r]) /\ req' = [req EXCEPT ![r] = q]
    BY <1>15 DEF Inv, CountResponse
  <2>2. Left(q) = Left(req[r]) /\ Verdict(q) = Verdict(req[r])
    BY <1>15, <2>1 DEF CountResponse, Left, Verdict, Good, Records
  <2> HIDE DEF q
  <2> QED BY <2>1, <2>2, SameImage
<1>13. ASSUME NEW r \in Requests, Advance(r) PROVE Fallback!Next \/ UNCHANGED <<left, verdict>>
  BY <1>13, <1>1, <1>2, <1>3, <1>4, <1>5, <1>6, <1>7, <1>8, <1>9, <1>10, <1>11, <1>15
  DEF Advance, Fallback!Next
<1>14. CASE Tick \/ UNCHANGED vars
  BY <1>14 DEF Tick, vars, left, verdict, Left, Verdict
<1> QED BY <1>12, <1>13, <1>14 DEF Next, Fallback!Next

\* The executor implements Fallback: whatever the breakers refuse, the retries
\* repeat and the other requests bring about, each request walks its plan as
\* promised and ends as promised.
THEOREM FallbackKept == Spec => ImplementsFallback
<1>1. Inv /\ [Next]_vars => [Fallback!Next]_<<left, verdict>>
  BY StepImplements
<1> QED BY <1>1, InitImplements, InvHolds, PTL DEF Spec, ImplementsFallback, Fallback!Spec, left, verdict, Left, Verdict, Ended
-----------------------------------------------------------------------------
\* The requests move as the table of core.state_machine allows, which nothing
\* in the executor consults.

\* The state of a request, by that table.
State(q) ==
    CASE q.at = "idle" -> "pending"
      [] q.outcome = "completed" -> "completed"
      [] q.outcome \in Verdicts \ {"completed"} -> "failed"
      [] q.at = "select" /\ q.outcome = None /\ q.attempts = <<>> -> "planned"
      [] OTHER -> "executing"

state == [r \in Requests |-> State(req[r])]

\* What the place of a request says of its state.
LEMMA StateNow ==
    ASSUME NEW q, Good(q)
    PROVE  /\ q.at = "idle" => State(q) = "pending"
           /\ q.at = "select" => State(q) = IF q.attempts = <<>> THEN "planned" ELSE "executing"
           /\ q.at \in {"call", "backoff", "settle", "counting"} => State(q) = "executing"
           /\ q.outcome = "completed" => State(q) = "completed"
           /\ q.outcome \in {"failed", "invalid", "escaped"} => State(q) = "failed"
<1>1. q.outcome # None <=> q.at \in {"returned", "raised"}
  BY DEF Good, InPlan
<1>2. None \notin Verdicts
  BY ExecutorAssumption DEF ExecutorAssumption
<1>3. q.at = "idle" => State(q) = "pending"
  BY <1>1, <1>2 DEF State, Verdicts
<1>4. q.at = "select" => State(q) = IF q.attempts = <<>> THEN "planned" ELSE "executing"
  BY <1>1, <1>2 DEF State, Verdicts
<1>5. q.at \in {"call", "backoff", "settle", "counting"} => State(q) = "executing"
  BY <1>1, <1>2 DEF State, Verdicts
<1>6. q.outcome = "completed" => State(q) = "completed"
  BY <1>1, <1>2 DEF State, Verdicts
<1>7. q.outcome \in {"failed", "invalid", "escaped"} => State(q) = "failed"
  BY <1>1, <1>2 DEF State, Verdicts
<1> QED BY <1>3, <1>4, <1>5, <1>6, <1>7

\* A step of one request that the table allows, or that it does not see.
LEMMA AllowedMove ==
    ASSUME NEW r \in Requests, \A s \in Requests : s # r => req'[s] = req[s],
           LET from == State(req[r])
               to   == State(req[r])'
           IN  \/ from = to
               \/ from = "pending" /\ to = "planned"
               \/ from = "planned" /\ to \in {"executing", "failed"}
               \/ from = "executing" /\ to \in {"completed", "failed"}
    PROVE  Lifecycle!Next \/ state' = state
<1> DEFINE from == State(req[r])
           to == State(req[r])'
<1>1. state[r] = from /\ state'[r] = to
  BY DEF state
<1>2. \A s \in Requests : s # r => state'[s] = state[s]
  BY DEF state, State
<1>3. state = [s \in Requests |-> state[s]] /\ state' = [s \in Requests |-> state'[s]]
  BY DEF state
<1>4. CASE from = to
  BY <1>1, <1>2, <1>3, <1>4
<1>5. CASE from # to
  <2>1. PICK target \in DOMAIN Lifecycle!AllowedTransitions :
            target = to /\ from \in {"pending", "planned", "executing"} /\ target \in Lifecycle!AllowedTransitions[from]
    BY <1>5 DEF Lifecycle!AllowedTransitions, Lifecycle!TerminalStates
  <2>2. state' = [state EXCEPT ![r] = target]
    BY <1>1, <1>2, <1>3, <2>1
  <2>3. from \notin Lifecycle!TerminalStates
    BY <2>1 DEF Lifecycle!TerminalStates
  <2>4. state[r] \notin Lifecycle!TerminalStates /\ target \in Lifecycle!AllowedTransitions[state[r]]
    BY <1>1, <2>1, <2>3
  <2>5. Lifecycle!TransitionTo(r, target)
    BY <2>2, <2>4 DEF Lifecycle!TransitionTo, Lifecycle!CanTransitionTo, state, State
  <2> QED BY <2>5 DEF Lifecycle!Next
<1> QED BY <1>4, <1>5
-----------------------------------------------------------------------------
\* What a step makes of the one request it is about.
Becomes(r, place, outcome) ==
    /\ \A s \in Requests : s # r => req'[s] = req[s]
    /\ req'[r].at = place /\ req'[r].outcome = outcome

\* Waiting for a candidate, with or without an attempt so far, or in its turn, a
\* request is what the table calls planned or executing.
LEMMA StateMoves ==
    ASSUME Inv, Inv', NEW r \in Requests, NEW place, NEW outcome, Becomes(r, place, outcome),
           \/ req[r].at = "idle" /\ place = "select" /\ req'[r].attempts = <<>>
           \/ req[r].at = "select" /\ place = "select" /\ req'[r].attempts = req[r].attempts
           \/ req[r].at = "select" /\ place = "call"
           \/ req[r].at \in {"call", "backoff", "settle"} /\ place \in {"call", "backoff", "settle", "counting"}
           \/ req[r].at = "settle" /\ place = "select" /\ req'[r].attempts # <<>>
           \/ req[r].at \in {"select", "call"} /\ outcome \in {"failed", "invalid", "escaped"}
           \/ req[r].at = "counting" /\ outcome = "completed"
    PROVE  Lifecycle!Next \/ state' = state
<1> DEFINE from == State(req[r])
           to == State(req[r])'
           o == req[r]
           n == req'[r]
<1>1. Good(o) /\ Good(n)
  BY DEF Inv
<1>2. n.at = place /\ n.outcome = outcome
  BY DEF Becomes
<1>3. to = State(n)
  BY DEF State
<1>4. \/ o.at = "idle" /\ n.at = "select" /\ n.attempts = <<>>
      \/ o.at = "select" /\ n.at = "select" /\ n.attempts = o.attempts
      \/ o.at = "select" /\ n.at = "call"
      \/ o.at \in {"call", "backoff", "settle"} /\ n.at \in {"call", "backoff", "settle", "counting"}
      \/ o.at = "settle" /\ n.at = "select" /\ n.attempts # <<>>
      \/ o.at \in {"select", "call"} /\ n.outcome \in {"failed", "invalid", "escaped"}
      \/ o.at = "counting" /\ n.outcome = "completed"
  BY <1>2
<1>5. /\ from = State(o)
      /\ \A s \in Requests : s # r => req'[s] = req[s]
  BY DEF Becomes
<1> HIDE DEF o, n, from, to
<1>6. \/ from = to
      \/ from = "pending" /\ to = "planned"
      \/ from = "planned" /\ to \in {"executing", "failed"}
      \/ from = "executing" /\ to \in {"completed", "failed"}
  BY <1>1, <1>3, <1>4, <1>5, StateNow
<1> QED BY <1>5, <1>6, AllowedMove DEF from, to

\* Every step of the executor is a transition of the table or none.
LEMMA StepLives == Inv /\ Inv' /\ [Next]_vars => [Lifecycle!Next]_state
<1> SUFFICES ASSUME Inv, Inv', [Next]_vars PROVE Lifecycle!Next \/ state' = state
  OBVIOUS
<1>0. \A r \in Requests : req[r] \in Records
  BY DEF Inv, Good
<1>1. ASSUME NEW r \in Requests, NEW route \in Plans, Start(r, route) PROVE Lifecycle!Next \/ state' = state
  <2>1. Becomes(r, "select", None) /\ req[r].at = "idle" /\ req'[r].attempts = <<>>
    BY <1>1 DEF Inv, Start, NewRequest, Becomes
  <2> QED BY <2>1, StateMoves
<1>2. ASSUME NEW r \in Requests, Refuse(r) PROVE Lifecycle!Next \/ state' = state
  <2> DEFINE o == req[r]
             n == [o EXCEPT !.pos = @ + 1, !.refused = @ \cup {o.pos}]
  <2>1. o.at = "select" /\ req' = [req EXCEPT ![r] = n]
    BY <1>2 DEF Refuse, AtCandidate
  <2>2. n.at = o.at /\ n.outcome = o.outcome /\ n.attempts = o.attempts
    BY <1>0 DEF Records
  <2> HIDE DEF n
  <2>3. Becomes(r, "select", o.outcome) /\ req'[r].attempts = o.attempts
    BY <2>1, <2>2 DEF Inv, Becomes
  <2> QED BY <2>1, <2>3, StateMoves
<1>3. ASSUME NEW r \in Requests, SkipAdapterless(r) PROVE Lifecycle!Next \/ state' = state
  <2> DEFINE o == req[r]
             n == [o EXCEPT !.error = NoAdapter, !.errorOf = o.pos, !.pos = @ + 1]
  <2>1. o.at = "select" /\ req' = [req EXCEPT ![r] = n]
    BY <1>3 DEF SkipAdapterless, AtCandidate
  <2>2. n.at = o.at /\ n.outcome = o.outcome /\ n.attempts = o.attempts
    BY <1>0 DEF Records
  <2> HIDE DEF n
  <2>3. Becomes(r, "select", o.outcome) /\ req'[r].attempts = o.attempts
    BY <2>1, <2>2 DEF Inv, Becomes
  <2> QED BY <2>1, <2>3, StateMoves
<1>4. ASSUME NEW r \in Requests, Try(r) PROVE Lifecycle!Next \/ state' = state
  <2> DEFINE o == req[r]
             n == [o EXCEPT !.at = "call", !.try = 0]
  <2>1. o.at = "select" /\ req' = [req EXCEPT ![r] = n]
    BY <1>4 DEF Try, AtCandidate
  <2>2. n.at = "call" /\ n.outcome = o.outcome
    BY <1>0 DEF Records
  <2> HIDE DEF n
  <2>3. Becomes(r, "call", o.outcome)
    BY <2>1, <2>2 DEF Inv, Becomes
  <2> QED BY <2>1, <2>3, StateMoves
<1>5. ASSUME NEW r \in Requests, Succeed(r) PROVE Lifecycle!Next \/ state' = state
  <2> DEFINE o == req[r]
             n == [o EXCEPT !.at = "settle", !.answer = None]
  <2>1. o.at = "call" /\ req' = [req EXCEPT ![r] = n]
    BY <1>5 DEF Succeed
  <2>2. n.at = "settle" /\ n.outcome = o.outcome
    BY <1>0 DEF Records
  <2> HIDE DEF n
  <2>3. Becomes(r, "settle", o.outcome)
    BY <2>1, <2>2 DEF Inv, Becomes
  <2> QED BY <2>1, <2>3, StateMoves
<1>6. ASSUME NEW r \in Requests, NEW e \in Errors, BackOff(r, e) PROVE Lifecycle!Next \/ state' = state
  <2> DEFINE o == req[r]
             n == [o EXCEPT !.at = "backoff", !.attempts = Append(@, Attempt(r, e))]
  <2>1. o.at = "call" /\ req' = [req EXCEPT ![r] = n]
    BY <1>6 DEF BackOff
  <2>2. n.at = "backoff" /\ n.outcome = o.outcome
    BY <1>0 DEF Records
  <2> HIDE DEF n
  <2>3. Becomes(r, "backoff", o.outcome)
    BY <2>1, <2>2 DEF Inv, Becomes
  <2> QED BY <2>1, <2>3, StateMoves
<1>7. ASSUME NEW r \in Requests, NEW e \in Errors, GiveUp(r, e) PROVE Lifecycle!Next \/ state' = state
  <2> DEFINE o == req[r]
             n == [o EXCEPT !.at = "settle", !.answer = e, !.attempts = Append(@, Attempt(r, e))]
  <2>1. o.at = "call" /\ req' = [req EXCEPT ![r] = n]
    BY <1>7 DEF GiveUp
  <2>2. n.at = "settle" /\ n.outcome = o.outcome
    BY <1>0 DEF Records
  <2> HIDE DEF n
  <2>3. Becomes(r, "settle", o.outcome)
    BY <2>1, <2>2 DEF Inv, Becomes
  <2> QED BY <2>1, <2>3, StateMoves
<1>8. ASSUME NEW r \in Requests, Wake(r) PROVE Lifecycle!Next \/ state' = state
  <2> DEFINE o == req[r]
             n == [o EXCEPT !.at = "call", !.try = @ + 1]
  <2>1. o.at = "backoff" /\ req' = [req EXCEPT ![r] = n]
    BY <1>8 DEF Wake
  <2>2. n.at = "call" /\ n.outcome = o.outcome
    BY <1>0 DEF Records
  <2> HIDE DEF n
  <2>3. Becomes(r, "call", o.outcome)
    BY <2>1, <2>2 DEF Inv, Becomes
  <2> QED BY <2>1, <2>3, StateMoves
<1>9. ASSUME NEW r \in Requests, Escape(r) PROVE Lifecycle!Next \/ state' = state
  <2> DEFINE o == req[r]
             n == [o EXCEPT !.at = "raised", !.outcome = "escaped"]
  <2>1. o.at = "call" /\ req' = [req EXCEPT ![r] = n]
    BY <1>9 DEF Escape
  <2>2. n.at = "raised" /\ n.outcome = "escaped"
    BY <1>0 DEF Records
  <2> HIDE DEF n
  <2>3. Becomes(r, "raised", "escaped")
    BY <2>1, <2>2 DEF Inv, Becomes
  <2> QED BY <2>1, <2>3, StateMoves
<1>10. ASSUME NEW r \in Requests, ReturnResponse(r) PROVE Lifecycle!Next \/ state' = state
  <2> DEFINE o == req[r]
             n == [o EXCEPT !.at = "returned", !.outcome = "completed", !.attempts = Append(@, Attempt(r, None))]
  <2>1. o.at = "counting" /\ req' = [req EXCEPT ![r] = n]
    BY <1>10 DEF ReturnResponse
  <2>2. n.at = "returned" /\ n.outcome = "completed"
    BY <1>0 DEF Records
  <2> HIDE DEF n
  <2>3. Becomes(r, "returned", "completed")
    BY <2>1, <2>2 DEF Inv, Becomes
  <2> QED BY <2>1, <2>3, StateMoves
<1>11. ASSUME NEW r \in Requests, NextCandidate(r) PROVE Lifecycle!Next \/ state' = state
  <2> DEFINE o == req[r]
             n == [o EXCEPT !.at = "select", !.pos = @ + 1, !.error = o.answer, !.errorOf = o.pos]
  <2>1. o.at = "settle" /\ o.answer # None /\ req' = [req EXCEPT ![r] = n]
    BY <1>11 DEF NextCandidate
  <2>2. n.at = "select" /\ n.outcome = o.outcome /\ n.attempts = o.attempts
    BY <1>0 DEF Records
  <2>3. o.attempts # <<>>
    BY <2>1 DEF Inv, Good, Logged, TriedNow
  <2> HIDE DEF n
  <2>4. Becomes(r, "select", o.outcome) /\ req'[r].attempts # <<>>
    BY <2>1, <2>2, <2>3 DEF Inv, Becomes
  <2> QED BY <2>1, <2>4, StateMoves
<1>12. ASSUME NEW r \in Requests, Exhaust(r) PROVE Lifecycle!Next \/ state' = state
  <2> DEFINE o == req[r]
             place == IF o.error = None THEN "raised" ELSE "returned"
             outcome == IF o.error = None THEN "invalid" ELSE "failed"
             n == [o EXCEPT !.at = place, !.outcome = outcome]
  <2>1. o.at = "select" /\ req' = [req EXCEPT ![r] = n]
    BY <1>12 DEF Exhaust
  <2>2. n.at = place /\ n.outcome = outcome /\ outcome \in {"failed", "invalid"}
    BY <1>0 DEF Records
  <2> HIDE DEF n, place, outcome
  <2>3. Becomes(r, place, outcome)
    BY <2>1, <2>2 DEF Inv, Becomes
  <2> QED BY <2>1, <2>2, <2>3, StateMoves
<1>15. ASSUME NEW r \in Requests, CountResponse(r) PROVE Lifecycle!Next \/ state' = state
  <2> DEFINE o == req[r]
             n == [o EXCEPT !.at = "counting"]
  <2>1. o.at = "settle" /\ req' = [req EXCEPT ![r] = n]
    BY <1>15 DEF CountResponse
  <2>2. n.at = "counting" /\ n.outcome = o.outcome
    BY <1>0 DEF Records
  <2> HIDE DEF n
  <2>3. Becomes(r, "counting", o.outcome)
    BY <2>1, <2>2 DEF Inv, Becomes
  <2> QED BY <2>1, <2>3, StateMoves
<1>13. ASSUME NEW r \in Requests, Advance(r) PROVE Lifecycle!Next \/ state' = state
  BY <1>13, <1>2, <1>3, <1>4, <1>5, <1>6, <1>7, <1>8, <1>9, <1>10, <1>11, <1>12, <1>15 DEF Advance
<1>14. CASE Tick \/ UNCHANGED vars
  BY <1>14 DEF Tick, vars, state, State
<1> QED BY <1>1, <1>13, <1>14 DEF Next

\* The executor's requests live as the table of core.state_machine says: from
\* planned over executing to an end, which none of them leaves.
THEOREM LifecycleKept == Spec => ImplementsLifecycle
<1>1. Init => Lifecycle!Init
  <2> SUFFICES ASSUME Init, NEW r \in Requests PROVE State(req[r]) = "pending"
    BY DEF Lifecycle!Init, State
  <2>1. req[r].at = "idle" /\ Good(req[r])
    BY InitInv DEF Init, Inv, NewRequest
  <2> QED BY <2>1, StateNow
<1>2. Inv /\ Inv' /\ [Next]_vars => [Lifecycle!Next]_state
  BY StepLives
<1> QED BY <1>1, <1>2, InvHolds, PTL DEF Spec, ImplementsLifecycle, Lifecycle!Spec, state, State
-----------------------------------------------------------------------------
(***************************************************************************)
(* The same walk as client.stream() takes it, without the executor: safety *)
(* of Streaming for every set of plans and every number of lines.  Its two *)
(* properties are not inductive: what makes them so is how the generator's *)
(* position, its flag yielded and what the caller holds belong together    *)
(* (Committed).                                                            *)
(***************************************************************************)
Lines == [of : Nat, line : Nat]

\* An idle stream has no plan.  Nothing was delivered before a candidate is connected; afterwards all of it
\* comes from the candidate at hand, up to the line it has sent, and yielded
\* says whether there is any.
Committed ==
    /\ delivered \in Seq(Lines)
    /\ at = "idle" => plan = <<>>
    /\ at \in {"idle", "select"} => delivered = <<>>
    /\ at = "flowing" => (yielded <=> delivered # <<>>)
    /\ \A k \in DOMAIN delivered : delivered[k].of = pos /\ delivered[k].line <= sent

Walking == StreamTypeOK /\ Committed /\ OneVoice /\ NothingGivenUpEarly

\* The line counter starts in its range.
LEMMA ZeroLines == 0 \in 0 .. MaxLines
<1>1. MaxLines \in Nat
  BY StreamingAssumption
<1> QED BY <1>1

\* What typing says of the plan.
LEMMA PlanTyped ==
    ASSUME StreamTypeOK
    PROVE  plan \in Seq(StreamProviders) /\ Len(plan) \in Nat
<1>1. CASE plan = <<>>
  BY <1>1
<1>2. CASE plan \in StreamPlans
  BY <1>2, StreamingAssumption
<1> QED BY <1>1, <1>2 DEF StreamTypeOK

\* A stream not yet started.
LEMMA WalkingInit == StreamInit => Walking
<1> SUFFICES ASSUME StreamInit PROVE Walking
  OBVIOUS
<1>1. StreamTypeOK
  <2>1. pos \in 1 .. Len(plan) + 1
    BY DEF StreamInit
  <2>2. sent \in 0 .. MaxLines
    BY StreamingAssumption DEF StreamInit
  <2> QED BY <2>1, <2>2 DEF StreamInit, StreamTypeOK
<1>2. Committed /\ OneVoice
  BY DEF StreamInit, Committed, OneVoice
<1>3. NothingGivenUpEarly
  BY DEF StreamInit, NothingGivenUpEarly
<1> QED BY <1>1, <1>2, <1>3 DEF Walking

\* The handler of an exception, shared by the two steps that run it.
LEMMA AbandonKeeps ==
    ASSUME Walking, at \in {"select", "flowing"}, pos <= Len(plan),
           failed' = failed \cup {pos}, UNCHANGED <<plan, delivered, cut>>,
           NEW committed \in BOOLEAN, Abandon(committed),
           committed <=> delivered # <<>>,
           yielded' \in BOOLEAN, sent' \in 0 .. MaxLines, committed => UNCHANGED sent
    PROVE  Walking'
<1>1. plan \in Seq(StreamProviders) /\ Len(plan) \in Nat /\ pos \in Nat
  BY PlanTyped DEF Walking, StreamTypeOK
<1>2. CASE committed
  <2>1. at' = "raised" /\ pos' = pos /\ sent' = sent
    BY <1>2 DEF Abandon
  <2>2. StreamTypeOK'
    BY <1>1, <2>1 DEF Walking, StreamTypeOK
  <2>3. Committed'
    BY <2>1 DEF Walking, Committed
  <2>4. OneVoice'
    BY DEF Walking, OneVoice
  <2>5. NothingGivenUpEarly'
    BY <1>1, <1>2, <2>1 DEF Walking, NothingGivenUpEarly
  <2> QED BY <2>2, <2>3, <2>4, <2>5 DEF Walking
<1>3. CASE ~ committed
  <2>1. at' = "select" /\ pos' = pos + 1 /\ delivered = <<>>
    BY <1>3 DEF Abandon
  <2>2. StreamTypeOK'
    BY <1>1, <2>1 DEF Walking, StreamTypeOK
  <2>3. Committed' /\ OneVoice'
    BY <2>1 DEF Walking, Committed, OneVoice
  <2>4. NothingGivenUpEarly'
    BY <1>1, <2>1 DEF Walking, StreamTypeOK, NothingGivenUpEarly
  <2> QED BY <2>2, <2>3, <2>4 DEF Walking
<1> QED BY <1>2, <1>3

\* One step per action.
LEMMA WalkingNext == Walking /\ [StreamNext]_streamVars => Walking'
<1> SUFFICES ASSUME Walking, [StreamNext]_streamVars PROVE Walking'
  OBVIOUS
<1>0. plan \in Seq(StreamProviders) /\ Len(plan) \in Nat /\ pos \in Nat /\ sent \in Nat
  BY PlanTyped, StreamingAssumption DEF Walking, StreamTypeOK
<1>1. ASSUME NEW p \in StreamPlans, StartStream(p) PROVE Walking'
  <2>1. p \in Seq(StreamProviders) /\ Len(p) \in Nat /\ (p # <<>> => Len(p) > 0)
    BY StreamingAssumption
  <2>2. StreamTypeOK'
    <3>1. at = "idle" /\ plan' = p /\ at' \in {"raised", "select"} /\ pos' = pos
      BY <1>1 DEF StartStream
    <3>2. pos = 1 /\ failed = {}
      BY <3>1 DEF Walking, StreamTypeOK, Committed
    <3> QED BY <1>1, <2>1, <3>1, <3>2 DEF Walking, StreamTypeOK, StartStream
  <2>3. Committed' /\ OneVoice'
    BY <1>1 DEF Walking, Committed, OneVoice, StartStream
  <2>4. NothingGivenUpEarly'
    <3>1. pos' = 1
      BY <1>1 DEF Walking, StreamTypeOK, Committed, StartStream
    <3>2. at' = "raised" => plan' = <<>>
      BY <1>1 DEF StartStream
    <3> QED BY <3>1, <3>2 DEF NothingGivenUpEarly
  <2> QED BY <2>2, <2>3, <2>4 DEF Walking
<1>2. CASE PassAdapterless
  <2>1. StreamTypeOK' /\ Committed' /\ OneVoice'
    BY <1>0, <1>2 DEF Walking, StreamTypeOK, Committed, OneVoice, PassAdapterless
  <2>2. NothingGivenUpEarly'
    BY <1>0, <1>2 DEF Walking, StreamTypeOK, Committed, NothingGivenUpEarly, PassAdapterless
  <2> QED BY <2>1, <2>2 DEF Walking
<1>3. CASE Connect
  <2>1. StreamTypeOK'
    <3>1. /\ at' = "flowing" /\ yielded' = FALSE /\ sent' = 0 /\ pos <= Len(plan)
          /\ UNCHANGED <<plan, pos, delivered, failed, cut>>
      BY <1>3 DEF Connect
    <3> QED BY <1>0, <3>1, ZeroLines DEF Walking, StreamTypeOK
  <2>2. Committed' /\ OneVoice'
    BY <1>3 DEF Walking, Committed, OneVoice, Connect
  <2>3. NothingGivenUpEarly'
    BY <1>0, <1>3 DEF Walking, NothingGivenUpEarly, Connect
  <2> QED BY <2>1, <2>2, <2>3 DEF Walking
<1>4. CASE ConnectFails
  <2>1. delivered = <<>> /\ yielded' = FALSE /\ sent' = 0
    BY <1>4 DEF Walking, Committed, ConnectFails
  <2>2. FALSE \in BOOLEAN /\ sent' \in 0 .. MaxLines /\ yielded' \in BOOLEAN
    BY <2>1, ZeroLines
  <2>3. /\ at \in {"select", "flowing"} /\ pos <= Len(plan) /\ Abandon(FALSE)
        /\ failed' = failed \cup {pos} /\ UNCHANGED <<plan, delivered, cut>>
    BY <1>4 DEF ConnectFails
  <2> QED BY <2>1, <2>2, <2>3, AbandonKeeps
<1>5. CASE Chunk
  <2> DEFINE c == [of |-> pos, line |-> sent + 1]
  <2>1. /\ at = "flowing" /\ at' = at /\ sent < MaxLines /\ sent' = sent + 1 /\ yielded' = TRUE
        /\ delivered' = Append(delivered, c) /\ UNCHANGED <<plan, pos, failed, cut>>
    BY <1>5 DEF Chunk
  <2>2. c \in Lines /\ c.of = pos /\ c.line = sent + 1
    BY <1>0 DEF Lines
  <2>3. delivered \in Seq(Lines) /\ Len(delivered) \in Nat
    BY DEF Walking, Committed
  <2> HIDE DEF c
  <2>4. /\ delivered' \in Seq(Lines) /\ delivered' # <<>>
        /\ DOMAIN delivered' = 1 .. Len(delivered) + 1
        /\ delivered'[Len(delivered) + 1] = c
        /\ \A k \in DOMAIN delivered : delivered'[k] = delivered[k]
    BY <2>1, <2>2, <2>3
  <2>5. \A k \in DOMAIN delivered' : k \in DOMAIN delivered \/ k = Len(delivered) + 1
    BY <2>3, <2>4
  <2>6. StreamTypeOK'
    BY <1>0, <2>1, StreamingAssumption DEF Walking, StreamTypeOK
  <2>7. \A k \in DOMAIN delivered : delivered[k] \in Lines
    BY <2>3
  <2>8. Committed'
    BY <1>0, <2>1, <2>2, <2>4, <2>5, <2>7 DEF Walking, Committed, Lines
  <2>9. OneVoice'
    <3> SUFFICES ASSUME NEW i \in DOMAIN delivered', NEW j \in DOMAIN delivered', i < j
                 PROVE  /\ delivered'[i].of = delivered'[j].of
                        /\ delivered'[i].line < delivered'[j].line
      BY DEF OneVoice
    <3>1. i \in DOMAIN delivered
      BY <2>3, <2>4, <2>5
    <3>2. CASE j \in DOMAIN delivered
      BY <2>4, <3>1, <3>2 DEF Walking, OneVoice
    <3>3. CASE j = Len(delivered) + 1
      BY <1>0, <2>2, <2>4, <2>7, <3>1, <3>3 DEF Walking, Committed, Lines
    <3> QED BY <2>5, <3>2, <3>3
  <2>10. NothingGivenUpEarly'
    <3>1. \A k \in DOMAIN delivered' : delivered'[k].of = pos
      BY <2>1, <2>8 DEF Committed
    <3> QED BY <1>0, <2>1, <3>1 DEF Walking, NothingGivenUpEarly
  <2> QED BY <2>6, <2>8, <2>9, <2>10 DEF Walking
<1>6. CASE Undecodable
  <2>1. StreamTypeOK' /\ OneVoice' /\ NothingGivenUpEarly'
    BY <1>0, <1>6, StreamingAssumption DEF Walking, StreamTypeOK, OneVoice, NothingGivenUpEarly, Undecodable
  <2>2. \A k \in DOMAIN delivered : delivered[k] \in Lines
    BY DEF Walking, Committed
  <2>3. Committed'
    BY <1>0, <1>6, <2>2 DEF Walking, Committed, Lines, Undecodable
  <2> QED BY <2>1, <2>3 DEF Walking
<1>7. CASE Malformed
  <2>1. /\ yielded \in BOOLEAN /\ (yielded <=> delivered # <<>>)
        /\ yielded' \in BOOLEAN /\ sent' \in 0 .. MaxLines
    BY <1>7 DEF Walking, StreamTypeOK, Committed, Malformed
  <2> QED BY <1>7, <2>1, AbandonKeeps DEF Malformed, Walking, StreamTypeOK
<1>8. CASE Finish \/ Cut \/ Close
  <2>1. /\ at = "flowing" /\ at' \in {"returned", "closed"} /\ cut' \in {cut, TRUE}
        /\ UNCHANGED <<plan, pos, yielded, sent, delivered, failed>>
    BY <1>8 DEF Finish, Cut, Close
  <2>2. StreamTypeOK'
    BY <2>1 DEF Walking, StreamTypeOK
  <2>3. Committed' /\ OneVoice'
    BY <2>1 DEF Walking, Committed, OneVoice
  <2>4. NothingGivenUpEarly'
    BY <1>0, <2>1 DEF Walking, NothingGivenUpEarly
  <2> QED BY <2>2, <2>3, <2>4 DEF Walking
<1>9. CASE ExhaustStream
  BY <1>0, <1>9 DEF Walking, StreamTypeOK, Committed, OneVoice, NothingGivenUpEarly, ExhaustStream
<1>10. CASE UNCHANGED streamVars
  BY <1>10 DEF Walking, StreamTypeOK, Committed, OneVoice, NothingGivenUpEarly, streamVars
<1> QED
  BY <1>1, <1>2, <1>3, <1>4, <1>5, <1>6, <1>7, <1>8, <1>9, <1>10 DEF StreamNext, AdvanceStream

\* The invariant, along every behaviour.
LEMMA WalkingAlways == StreamSpec => []Walking
BY WalkingInit, WalkingNext, PTL DEF StreamSpec

\* A stream's position stays in its plan (client.stream's loop).
THEOREM StreamTypeCorrect == StreamSpec => []StreamTypeOK
<1>1. Walking => StreamTypeOK
  BY DEF Walking
<1> QED BY <1>1, WalkingAlways, PTL

\* The caller of stream() hears one provider only, in order.
THEOREM OneVoiceCorrect == StreamSpec => []OneVoice
<1>1. Walking => OneVoice
  BY DEF Walking
<1> QED BY <1>1, WalkingAlways, PTL

\* stream() passes a candidate over, and gives up, only for a reason.
THEOREM GivingUpCorrect == StreamSpec => []NothingGivenUpEarly
<1>1. Walking => NothingGivenUpEarly
  BY DEF Walking
<1> QED BY <1>1, WalkingAlways, PTL
=============================================================================
