--------------------------- MODULE HealthTracker ---------------------------
(***************************************************************************)
(* The health tracker on its own: concurrent requests report to it about   *)
(* any provider, and the history of reports is kept beside it, so that     *)
(* what the tracker believes can be compared with what it was told.        *)
(*                                                                         *)
(* A report is as many steps as the code may be switched out between: it   *)
(* takes no lock, and every value it reads of a dictionary, and every      *)
(* method of a list, is a call.                                            *)
(*                                                                         *)
(*   failure   idle -> failing -> idle                                     *)
(*   success   idle -> sampled -> measured (-> trimmed) -> counting        *)
(*                  -> judging (-> lifting) -> idle                        *)
(***************************************************************************)
EXTENDS Health, Lists

CONSTANTS
    Reporters,    \* requests that report
    Providers,    \* provider names
    Latencies,    \* latencies a success reports
    Categories,   \* error categories a failure reports
    MaxReports    \* bound: no report about a provider begins once so many have ended

ASSUME TrackerAssumption == MaxReports \in Nat

VARIABLES
    health,       \* the tracker: what it keeps of each provider
    op,           \* the report each reporter is in the middle of
    told          \* history: the reports about each provider that ended, oldest first

vars == <<health, op, told>>

\* alone: no other report about the provider was under way during this one.
Success(l, alone) == [ok |-> TRUE, latency |-> l, category |-> "none", alone |-> alone]
Failure(c, alone) == [ok |-> FALSE, latency |-> 0, category |-> c, alone |-> alone]

Successes == [ok : {TRUE}, latency : Latencies, category : {"none"}, alone : BOOLEAN]

Reports ==
    Successes \cup [ok : {FALSE}, latency : {0}, category : Categories, alone : BOOLEAN]

Records == [status  : Statuses,
            samples : Seq(Latencies),
            streak  : Nat,
            count   : Nat]

\* number and status are what was read of the tracker and is going to be used.
Idle == [at |-> "idle"]
Stages == {"failing", "sampled", "measured", "trimmed", "counting", "judging", "lifting"}
Ops == [at : Stages, provider : Providers, report : Reports, number : Nat, status : Statuses]

TypeOK ==
    /\ health \in [Providers -> Records]
    /\ op \in [Reporters -> Ops \cup {Idle}]
    /\ \A t \in Reporters : op[t] # Idle => (op[t].at = "failing" <=> ~ op[t].report.ok)
    /\ told \in [Providers -> Seq(Reports)]

Init ==
    /\ health = [p \in Providers |-> NewHealth]
    /\ op = [t \in Reporters |-> Idle]
    /\ told = [p \in Providers |-> <<>>]

Reporting(t, p) == op[t] # Idle /\ op[t].provider = p
Quiet(p) == \A t \in Reporters : ~ Reporting(t, p)

Begin(t, p, at, report, number) ==
    /\ op[t] = Idle
    /\ Len(told[p]) < MaxReports
    /\ op' = [u \in Reporters |->
                 IF u = t THEN [at |-> at, provider |-> p, report |-> report,
                                number |-> number, status |-> "healthy"]
                 ELSE IF Reporting(u, p) THEN [op[u] EXCEPT !.report = [@ EXCEPT !.alone = FALSE]]
                 ELSE op[u]]

\* What the tracker keeps, and what it is made to keep, of the provider that t
\* reports about; and the report goes on.
Kept(t) == health[op[t].provider]
Keep(t, h) == health' = [health EXCEPT ![op[t].provider] = h]
GoOn(t, at, number, status) ==
    op' = [op EXCEPT ![t] = [at |-> at, provider |-> op[t].provider, report |-> op[t].report,
                             number |-> number, status |-> status]]

End(t) ==
    /\ op' = [op EXCEPT ![t] = Idle]
    /\ told' = [told EXCEPT ![op[t].provider] = Append(@, op[t].report)]
-----------------------------------------------------------------------------
\* record_failure(): the streak is read ...
RecordFailure(t, p, c) ==
    /\ Begin(t, p, "failing", Failure(c, Quiet(p)), health[p].streak)
    /\ UNCHANGED <<health, told>>

\* Mutant of EndFailure: the streak is judged before the failure is counted.
EndFailureJudgingOldStreak(t) ==
    /\ op[t].at = "failing"
    /\ Keep(t, [status  |-> StatusAfter(Kept(t).status, op[t].report.category, op[t].number),
                samples |-> Kept(t).samples,
                streak  |-> op[t].number + 1,
                count   |-> Kept(t).count])
    /\ End(t)

\* ... written back, one longer, and judged.
EndFailure(t) ==
    /\ op[t].at = "failing"
    /\ Keep(t, [status  |-> StatusAfter(Kept(t).status, op[t].report.category, op[t].number + 1),
                samples |-> Kept(t).samples,
                streak  |-> op[t].number + 1,
                count   |-> Kept(t).count])
    /\ End(t)

\* record_success(): the sample joins the window ...
RecordSuccess(t, p, l) ==
    /\ Begin(t, p, "sampled", Success(l, Quiet(p)), 0)
    /\ health' = [health EXCEPT ![p] = [@ EXCEPT !.samples = Append(health[p].samples, l)]]
    /\ UNCHANGED told

\* ... whose length is read ...
MeasureWindow(t) ==
    /\ op[t].at = "sampled"
    /\ GoOn(t, "measured", Len(Kept(t).samples), op[t].status)
    /\ UNCHANGED <<health, told>>

\* Mutant of TrimWindow: pop() where the code has pop(0).
TrimNewest(t) ==
    /\ op[t].at = "measured" /\ op[t].number > Window
    /\ Keep(t, [Kept(t) EXCEPT !.samples = SubSeq(@, 1, Len(@) - 1)])
    /\ GoOn(t, "trimmed", op[t].number, op[t].status)
    /\ UNCHANGED told

\* ... and the oldest goes if it is exceeded.
TrimWindow(t) ==
    /\ op[t].at = "measured" /\ op[t].number > Window
    /\ Keep(t, [Kept(t) EXCEPT !.samples = SubSeq(@, 2, Len(@))])
    /\ GoOn(t, "trimmed", op[t].number, op[t].status)
    /\ UNCHANGED told

WindowSettled(o) == o.at = "trimmed" \/ (o.at = "measured" /\ o.number <= Window)

\* Mutant of ResetStreak: a success leaves the run of failures standing.
KeepStreak(t) ==
    /\ WindowSettled(op[t])
    /\ GoOn(t, "counting", Kept(t).count, op[t].status)
    /\ UNCHANGED <<health, told>>

\* The streak is over, and the requests served are read ...
ResetStreak(t) ==
    /\ WindowSettled(op[t])
    /\ Keep(t, [Kept(t) EXCEPT !.streak = 0])
    /\ GoOn(t, "counting", Kept(t).count, op[t].status)
    /\ UNCHANGED told

\* ... written back, one more, and the status is read.
CountRequest(t) ==
    /\ op[t].at = "counting"
    /\ Keep(t, [Kept(t) EXCEPT !.count = op[t].number + 1])
    /\ GoOn(t, "judging", op[t].number, Kept(t).status)
    /\ UNCHANGED told

\* A provider found unhealthy becomes degraded.
LiftUnhealthy(t) ==
    /\ op[t].at = "judging" /\ op[t].status = "unhealthy"
    /\ Keep(t, [Kept(t) EXCEPT !.status = "degraded"])
    /\ End(t)

\* The status of any other is read once more ...
LookAgain(t) ==
    /\ op[t].at = "judging" /\ op[t].status # "unhealthy"
    /\ GoOn(t, "lifting", op[t].number, Kept(t).status)
    /\ UNCHANGED <<health, told>>

\* Mutant of LiftDegraded: only an unhealthy provider is ever lifted.
LeaveDegraded(t) ==
    /\ op[t].at = "lifting"
    /\ UNCHANGED health
    /\ End(t)

\* ... and one found degraded becomes healthy.
LiftDegraded(t) ==
    /\ op[t].at = "lifting"
    /\ Keep(t, IF op[t].status = "degraded" THEN [Kept(t) EXCEPT !.status = "healthy"] ELSE Kept(t))
    /\ End(t)

Next ==
    \E t \in Reporters :
        \/ \E p \in Providers :
            \/ \E c \in Categories : RecordFailure(t, p, c)
            \/ \E l \in Latencies : RecordSuccess(t, p, l)
        \/ EndFailure(t) \/ MeasureWindow(t) \/ TrimWindow(t) \/ ResetStreak(t) \/ CountRequest(t)
        \/ LiftUnhealthy(t) \/ LookAgain(t) \/ LiftDegraded(t)

Spec == Init /\ [][Next]_vars
-----------------------------------------------------------------------------
\* The last n reports of a history are all failures.
EndsWithFailures(history, n) ==
    n <= Len(history) /\ \A i \in Len(history) - n + 1 .. Len(history) : ~ history[i].ok

\* The last n reports are successes that nothing disturbed.
EndsWithSuccesses(history, n) ==
    /\ n <= Len(history)
    /\ \A i \in Len(history) - n + 1 .. Len(history) : history[i].ok /\ history[i].alone

\* No report about the provider is under way, and no two ever overlapped.
Orderly(history) == \A i \in DOMAIN history : history[i].alone
Undisturbed(p) == Quiet(p) /\ Orderly(told[p])

\* The streak is the run of failures the history ends with, no more, no less.
StreakIsRun(h, history) ==
    /\ EndsWithFailures(history, h.streak)
    /\ h.streak < Len(history) => history[Len(history) - h.streak].ok

\* As long as no two reports about a provider overlap, whatever the reports
\* about others do, its streak is the run of failures it was told of last.
StreaksExact == \A p \in Providers : Undisturbed(p) => StreakIsRun(health[p], told[p])

\* Under the same condition a provider is kept out of planning exactly when its
\* last CondemnAt reports are failures and the very last is not a rate limit.
\* (A rate limit lifts an unhealthy provider back to degraded: the code does
\* this on every streak.)
UnhealthyExactly ==
    \A p \in Providers : Undisturbed(p) =>
        (~ IsAvailable(health[p]) <=>
            /\ EndsWithFailures(told[p], CondemnAt)
            /\ told[p][Len(told[p])].category # "rate_limit")

\* Whatever came before, reports that overlapped and wrote each other's counts
\* over included, two successes in a row that nothing disturbed make a provider
\* healthy.
TwoSuccessesHeal ==
    \A p \in Providers : Quiet(p) /\ EndsWithSuccesses(told[p], 2) => health[p].status = "healthy"

\* The samples are the latencies of the last Window successes, in order, and the
\* requests served are the successes.
Served(history) == Picked(history, Successes)

Recent(h, history) ==
    LET ok == Served(history)
        n  == Len(h.samples)
    IN  /\ n = IF Len(ok) < Window THEN Len(ok) ELSE Window
        /\ \A i \in 1 .. n : h.samples[i] = ok[Len(ok) - n + i].latency
        /\ h.count = Len(ok)

\* As long as no two reports about it overlap, the samples of a provider are the
\* latencies of its last Window successes, in order, and the requests served are
\* the successes.
SamplesAreRecent == \A p \in Providers : Undisturbed(p) => Recent(health[p], told[p])
=============================================================================
