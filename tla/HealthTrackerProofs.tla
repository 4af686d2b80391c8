------------------------ MODULE HealthTrackerProofs ------------------------
(***************************************************************************)
(* What the tracker believes of a provider is what it was told, for every  *)
(* window, every pair of thresholds, any number of reporters and every     *)
(* history.  The invariant is stated of one record and one history         *)
(* (Faithful).  While a report that nothing disturbs is under way, the     *)
(* record is what the steps so far make of a faithful one (Stage), and its *)
(* last step makes of it what the whole report would, at once.  Of reports *)
(* that overlap nothing is claimed but their types.                        *)
(***************************************************************************)
EXTENDS HealthTracker, ListsProofs

LastIsRateLimit(t) == t[Len(t)].category = "rate_limit"
LastIsSuccess(t) == Len(t) > 0 /\ t[Len(t)].ok /\ t[Len(t)].alone

Faithful(h, t) ==
    /\ h \in Records
    /\ t \in Seq(Reports)
    /\ Orderly(t) =>
        /\ StreakIsRun(h, t)
        /\ Recent(h, t)
        /\ h.status = "unhealthy" <=> h.streak >= CondemnAt /\ ~ LastIsRateLimit(t)
    /\ LastIsSuccess(t) => h.status # "unhealthy"
    /\ EndsWithSuccesses(t, 2) => h.status = "healthy"

\* What report o has made so far of record b is h.
Stage(o, b, h) ==
    LET longer  == Append(b.samples, o.report.latency)
        slid    == Slide(b.samples, o.report.latency)
        reset   == [status |-> b.status, samples |-> slid, streak |-> 0, count |-> b.count]
        counted == [status |-> b.status, samples |-> slid, streak |-> 0, count |-> b.count + 1]
    IN  /\ o.at = "failing"  => h = b /\ o.number = b.streak
        /\ o.at = "sampled"  => h = [b EXCEPT !.samples = longer]
        /\ o.at = "measured" => h = [b EXCEPT !.samples = longer] /\ o.number = Len(longer)
        /\ o.at = "trimmed"  => h = [b EXCEPT !.samples = slid]
        /\ o.at = "counting" => h = reset /\ o.number = b.count
        /\ o.at = "judging"  => h = counted /\ o.status = b.status
        /\ o.at = "lifting"  => h = counted /\ o.status = b.status /\ b.status # "unhealthy"

\* What the whole report makes of it.
Outcome(b, r) == IF r.ok THEN AfterCounted(AfterServed(b, r.latency), b.count)
                 ELSE AfterRefused(b, r.category)

Underway(o, h, t) == \E b \in Records : Faithful(b, t) /\ Stage(o, b, h)

\* A report that nothing disturbs is the only one about its provider.
Separate ==
    \A t, u \in Reporters :
        /\ op[t] # Idle /\ op[u] # Idle
        /\ op[t].provider = op[u].provider
        /\ op[t].report.alone
        => t = u

SettledFaithful == \A p \in Providers : Quiet(p) => Faithful(health[p], told[p])

AloneUnderway ==
    \A t \in Reporters : op[t] # Idle /\ op[t].report.alone =>
        Underway(op[t], health[op[t].provider], told[op[t].provider])

Inv == TypeOK /\ Separate /\ SettledFaithful /\ AloneUnderway
-----------------------------------------------------------------------------
\* The window is a sequence of latencies still.
LEMMA SlideType ==
    ASSUME NEW s \in Seq(Latencies), NEW l \in Latencies
    PROVE  /\ Slide(s, l) \in Seq(Latencies)
           /\ Append(s, l) \in Seq(Latencies)
           /\ Len(Append(s, l)) > Window => Slide(s, l) = SubSeq(Append(s, l), 2, Len(Append(s, l)))
           /\ Len(Append(s, l)) <= Window => Slide(s, l) = Append(s, l)
<1> DEFINE longer == Append(s, l)
<1>1. longer \in Seq(Latencies) /\ Len(longer) = Len(s) + 1 /\ Len(longer) > 0
  OBVIOUS
<1>2. CASE Len(longer) > Window
  <2>1. Tail(longer) \in Seq(Latencies) /\ Tail(longer) = SubSeq(longer, 2, Len(longer))
    BY <1>1
  <2> QED BY <1>1, <1>2, <2>1, HealthAssumption DEF Slide, HealthAssumption
<1>3. CASE Len(longer) <= Window
  BY <1>1, <1>3, HealthAssumption DEF Slide, HealthAssumption
<1> QED BY <1>1, <1>2, <1>3, HealthAssumption DEF HealthAssumption

\* A report about a reporter's provider carries a latency or a category.
LEMMA ReportTypes ==
    /\ \A r \in Reports : r.alone \in BOOLEAN /\ r.ok \in BOOLEAN
    /\ \A r \in Reports : r.ok => r.latency \in Latencies /\ r.category = "none"
    /\ \A r \in Reports : ~ r.ok => r.category \in Categories
    /\ \A l \in Latencies, alone \in BOOLEAN : Success(l, alone) \in Reports
    /\ \A c \in Categories, alone \in BOOLEAN : Failure(c, alone) \in Reports
    /\ \A r \in Reports : [r EXCEPT !.alone = FALSE] \in Reports
BY DEF Reports, Successes, Success, Failure

LEMMA OutcomeType ==
    ASSUME NEW h \in Records, NEW r \in Reports
    PROVE  Outcome(h, r) \in Records
<1> USE DEF Records, Statuses
<1>1. CASE r.ok
  <2>1. r.latency \in Latencies
    BY <1>1, ReportTypes
  <2>2. Slide(h.samples, r.latency) \in Seq(Latencies)
    BY <2>1, SlideType
  <2> QED BY <1>1, <2>2 DEF Outcome, AfterServed, AfterCounted
<1>2. CASE ~ r.ok
  <2>1. StatusAfter(h.status, r.category, h.streak + 1) \in Statuses
    BY DEF StatusAfter
  <2> QED BY <1>2, <2>1 DEF Outcome, AfterRefused
<1> QED BY <1>1, <1>2

\* The streak counts at least n failures exactly when the history ends with n.
LEMMA StreakMeasuresRun ==
    ASSUME NEW h \in Records, NEW t \in Seq(Reports), StreakIsRun(h, t), NEW n \in Nat
    PROVE  EndsWithFailures(t, n) <=> h.streak >= n
<1> USE DEF Records, StreakIsRun, EndsWithFailures
<1>1. CASE h.streak >= n
  BY <1>1
<1>2. CASE h.streak < n
  <2>1. SUFFICES ASSUME EndsWithFailures(t, n) PROVE FALSE
    BY <1>2
  <2>2. Len(t) - h.streak \in Len(t) - n + 1 .. Len(t)
    BY <1>2
  <2>3. t[Len(t) - h.streak].ok
    BY <1>2, <2>1
  <2> QED BY <2>1, <2>2, <2>3
<1> QED BY <1>1, <1>2

\* A success puts its latency at the end of the window and counts ...
LEMMA ServedRecent ==
    ASSUME NEW h \in Records, NEW t \in Seq(Reports), Recent(h, t), NEW r \in Reports, r.ok
    PROVE  Recent(Outcome(h, r), Append(t, r))
<1> DEFINE ok == Served(t)
           ok1 == Served(Append(t, r))
           s == h.samples
           s1 == Slide(s, r.latency)
<1> USE HealthAssumption DEF HealthAssumption
<1>1. ok \in Seq(Reports)
  BY PickedElements DEF Served
<1>2. ok1 = Append(ok, r)
  <2>1. r \in Successes
    BY DEF Reports, Successes
  <2> QED BY <2>1, PickedOfMore DEF Served
<1>3. s \in Seq(Latencies) /\ r.latency \in Latencies /\ h.count \in Nat
  BY ReportTypes DEF Records
<1>4. /\ Len(s) = IF Len(ok) < Window THEN Len(ok) ELSE Window
      /\ \A i \in 1 .. Len(s) : s[i] = ok[Len(ok) - Len(s) + i].latency
      /\ h.count = Len(ok)
  BY DEF Recent
<1>5. Outcome(h, r).samples = s1 /\ Outcome(h, r).count = h.count + 1
  BY DEF Outcome, AfterServed, AfterCounted
<1>6. /\ Len(s1) = IF Len(ok1) < Window THEN Len(ok1) ELSE Window
      /\ \A i \in 1 .. Len(s1) : s1[i] = ok1[Len(ok1) - Len(s1) + i].latency
  <2> DEFINE longer == Append(s, r.latency)
  <2>1. /\ Len(longer) = Len(s) + 1 /\ longer[Len(longer)] = r.latency
        /\ \A i \in 1 .. Len(s) : longer[i] = s[i]
        /\ Len(ok1) = Len(ok) + 1 /\ ok1[Len(ok1)] = r
        /\ \A i \in 1 .. Len(ok) : ok1[i] = ok[i]
    BY <1>1, <1>2, <1>3
  <2>2. longer \in Seq(Latencies) /\ Len(s) \in Nat /\ Len(ok) \in Nat
        /\ Len(longer) \in Nat /\ Len(ok1) \in Nat
    BY <1>1, <1>2, <1>3
  <2>3. \A i \in 1 .. Len(longer) : longer[i] = ok1[Len(ok1) - Len(longer) + i].latency
    <3> SUFFICES ASSUME NEW i \in 1 .. Len(longer) PROVE longer[i] = ok1[Len(ok1) - Len(longer) + i].latency
      OBVIOUS
    <3>1. CASE i = Len(longer)
      <4> HIDE DEF longer, ok1, ok, s
      <4>1. Len(ok1) - Len(longer) + i = Len(ok1)
        BY <2>2, <3>1
      <4> QED BY <2>1, <3>1, <4>1
    <3>2. CASE i # Len(longer)
      <4> HIDE DEF longer, ok1, ok, s
      <4>1. i \in 1 .. Len(s) /\ Len(ok1) - Len(longer) + i = Len(ok) - Len(s) + i
            /\ Len(ok) - Len(s) + i \in 1 .. Len(ok)
        BY <1>4, <2>1, <2>2, <3>2
      <4>2. s[i] = ok[Len(ok) - Len(s) + i].latency
        BY <1>4, <4>1
      <4> QED BY <2>1, <4>1, <4>2
    <3> QED BY <3>1, <3>2
  <2>4. CASE Len(longer) > Window
    <3>1. s1 = SubSeq(longer, 2, Len(longer))
      BY <1>3, <2>4, SlideType
    <3>2. Len(s1) = Len(longer) - 1 /\ \A i \in 1 .. Len(s1) : s1[i] = longer[i + 1]
      BY <2>1, <2>2, <3>1
    <3> HIDE DEF longer, s1, ok1, ok, s
    <3>3. Len(s1) = IF Len(ok1) < Window THEN Len(ok1) ELSE Window
      BY <1>4, <2>1, <2>2, <2>4, <3>2
    <3>4. ASSUME NEW i \in 1 .. Len(s1) PROVE s1[i] = ok1[Len(ok1) - Len(s1) + i].latency
      <4>1. i + 1 \in 1 .. Len(longer) /\ Len(ok1) - Len(longer) + (i + 1) = Len(ok1) - Len(s1) + i
        BY <2>2, <3>2
      <4>2. longer[i + 1] = ok1[Len(ok1) - Len(longer) + (i + 1)].latency
        BY <2>3, <4>1
      <4> QED BY <3>2, <4>1, <4>2
    <3> QED BY <3>3, <3>4
  <2>5. CASE Len(longer) <= Window
    <3>1. s1 = longer
      BY <1>3, <2>5, SlideType
    <3> HIDE DEF longer, s1, ok1, ok, s
    <3>2. Len(s1) = IF Len(ok1) < Window THEN Len(ok1) ELSE Window
      BY <1>4, <2>1, <2>2, <2>5, <3>1
    <3> QED BY <2>3, <3>1, <3>2
  <2> HIDE DEF longer, s1, ok1, ok, s
  <2>6. Len(longer) > Window \/ Len(longer) <= Window
    BY <2>2
  <2> QED BY <2>4, <2>5, <2>6
<1>7. Len(ok1) = Len(ok) + 1
  BY <1>1, <1>2
<1> HIDE DEF s1, ok1
<1> QED BY <1>4, <1>5, <1>6, <1>7 DEF Recent, ok1

\* ... and a failure does neither.
LEMMA RefusedRecent ==
    ASSUME NEW h \in Records, NEW t \in Seq(Reports), Recent(h, t), NEW r \in Reports, ~ r.ok
    PROVE  Recent(Outcome(h, r), Append(t, r))
<1>1. Served(Append(t, r)) = Served(t)
  <2>1. r \notin Successes
    BY DEF Successes
  <2> QED BY <2>1, PickedOfMore DEF Served
<1>2. Outcome(h, r).samples = h.samples /\ Outcome(h, r).count = h.count
  BY DEF Outcome, AfterRefused
<1> QED BY <1>1, <1>2 DEF Recent

\* A success nothing disturbed leaves a faithful record faithful ...
LEMMA ServedFaithful ==
    ASSUME NEW h, NEW t, Faithful(h, t), NEW r \in Reports, r.ok, r.alone
    PROVE  Faithful(Outcome(h, r), Append(t, r))
<1> DEFINE t1 == Append(t, r)
           h1 == Outcome(h, r)
<1> USE HealthAssumption DEF HealthAssumption
<1>1. h \in Records /\ t \in Seq(Reports)
  BY DEF Faithful
<1>2. h1 \in Records /\ t1 \in Seq(Reports)
  BY <1>1, OutcomeType
<1>3. Len(t1) = Len(t) + 1 /\ t1[Len(t1)] = r /\ \A i \in 1 .. Len(t) : t1[i] = t[i]
  BY <1>1
<1>4. h1.streak = 0 /\ h1.status = (IF h.status = "unhealthy" THEN "degraded" ELSE "healthy")
  BY DEF AfterServed, AfterCounted, Outcome
<1>5. StreakIsRun(h1, t1)
  BY <1>1, <1>2, <1>3, <1>4 DEF StreakIsRun, EndsWithFailures
<1>6. EndsWithSuccesses(t1, 2) => h1.status = "healthy"
  <2>1. SUFFICES ASSUME EndsWithSuccesses(t1, 2) PROVE h.status # "unhealthy"
    BY <1>4
  <2>2. LastIsSuccess(t)
    BY <1>1, <1>2, <1>3, <2>1 DEF EndsWithSuccesses, LastIsSuccess
  <2> QED BY <2>2 DEF Faithful
<1>7. h1.status # "unhealthy" /\ ~ (h1.streak >= CondemnAt)
  BY <1>4
<1>8. Orderly(t1) => Recent(h1, t1)
  <2>1. Orderly(t1) => Orderly(t)
    BY <1>1, <1>3 DEF Orderly
  <2> QED BY <1>1, <2>1, ServedRecent DEF Faithful
<1> QED BY <1>2, <1>5, <1>6, <1>7, <1>8 DEF Faithful

\* ... and so does a failure.
LEMMA RefusedFaithful ==
    ASSUME NEW h, NEW t, Faithful(h, t), NEW r \in Reports, ~ r.ok
    PROVE  Faithful(Outcome(h, r), Append(t, r))
<1> DEFINE t1 == Append(t, r)
           h1 == Outcome(h, r)
<1> USE HealthAssumption DEF HealthAssumption
<1>1. h \in Records /\ t \in Seq(Reports)
  BY DEF Faithful
<1>2. h1 \in Records /\ t1 \in Seq(Reports)
  BY <1>1, OutcomeType
<1>3. Len(t1) = Len(t) + 1 /\ t1[Len(t1)] = r /\ \A i \in 1 .. Len(t) : t1[i] = t[i]
  BY <1>1
<1>4. h1.streak = h.streak + 1 /\ h1.status = StatusAfter(h.status, r.category, h.streak + 1)
  BY <1>1 DEF AfterRefused, Outcome, Records
<1>5. ASSUME Orderly(t1)
      PROVE  /\ StreakIsRun(h1, t1)
             /\ Recent(h1, t1)
             /\ h1.status = "unhealthy" <=> h1.streak >= CondemnAt /\ ~ LastIsRateLimit(t1)
  <2>1. Orderly(t)
    BY <1>1, <1>3, <1>5 DEF Orderly
  <2>2. StreakIsRun(h, t)
    BY <2>1 DEF Faithful
  <2>3. EndsWithFailures(t1, h1.streak)
    BY <1>1, <1>2, <1>3, <1>4, <2>2 DEF StreakIsRun, EndsWithFailures, Records
  <2>4. h1.streak < Len(t1) => t1[Len(t1) - h1.streak].ok
    BY <1>1, <1>2, <1>3, <1>4, <2>2 DEF StreakIsRun, Records
  <2>5. h.status = "unhealthy" => h.streak >= CondemnAt
    BY <2>1 DEF Faithful
  <2>6. h1.status = "unhealthy" <=> h1.streak >= CondemnAt /\ r.category # "rate_limit"
    BY <1>1, <1>4, <2>5 DEF StatusAfter, Records
  <2>7. Recent(h1, t1)
    BY <1>1, <2>1, RefusedRecent DEF Faithful
  <2> QED BY <1>3, <2>3, <2>4, <2>6, <2>7 DEF StreakIsRun, LastIsRateLimit
<1>6. ~ EndsWithSuccesses(t1, 2) /\ ~ LastIsSuccess(t1)
  BY <1>1, <1>2, <1>3 DEF EndsWithSuccesses, LastIsSuccess
<1> QED BY <1>2, <1>5, <1>6 DEF Faithful

\* Of a history whose last report was disturbed, any record is faithful.
LEMMA DisturbedFaithful ==
    ASSUME NEW h \in Records, NEW t \in Seq(Reports), NEW r \in Reports, ~ r.alone
    PROVE  Faithful(h, Append(t, r))
<1> DEFINE t1 == Append(t, r)
<1>1. t1 \in Seq(Reports) /\ Len(t1) = Len(t) + 1 /\ t1[Len(t1)] = r
  OBVIOUS
<1>2. ~ Orderly(t1) /\ ~ EndsWithSuccesses(t1, 2) /\ ~ LastIsSuccess(t1)
  BY <1>1 DEF Orderly, EndsWithSuccesses, LastIsSuccess
<1> QED BY <1>1, <1>2 DEF Faithful
-----------------------------------------------------------------------------
LEMMA InitInv == Init => Inv
<1> SUFFICES ASSUME Init PROVE Inv
  OBVIOUS
<1> USE HealthAssumption DEF HealthAssumption
<1>1. NewHealth \in Records /\ <<>> \in Seq(Reports)
  BY DEF NewHealth, Records, Statuses
<1>2. Faithful(NewHealth, <<>>)
  <2>1. StreakIsRun(NewHealth, <<>>) /\ ~ EndsWithSuccesses(<<>>, 2) /\ ~ LastIsSuccess(<<>>)
    BY DEF StreakIsRun, EndsWithFailures, EndsWithSuccesses, LastIsSuccess, NewHealth
  <2>2. Recent(NewHealth, <<>>)
    BY PickedOfNothing DEF Recent, Served, NewHealth
  <2> QED BY <1>1, <2>1, <2>2 DEF Faithful, NewHealth
<1>3. TypeOK
  BY <1>1 DEF Init, TypeOK
<1>4. Separate /\ AloneUnderway
  BY DEF Init, Separate, AloneUnderway
<1>5. SettledFaithful
  BY <1>2 DEF Init, SettledFaithful
<1> QED BY <1>3, <1>4, <1>5 DEF Inv

\* No report in the middle is an idle reporter's.
LEMMA OpsNotIdle == Idle \notin Ops /\ \A at \in Stages : \A o : o.at = at => o # Idle
BY DEF Idle, Ops, Stages

\* A record with one field of the right type replaced is a record.
LEMMA RecordFields ==
    ASSUME NEW h \in Records
    PROVE  /\ \A s \in Seq(Latencies) : [h EXCEPT !.samples = s] \in Records
           /\ \A n \in Nat : [h EXCEPT !.streak = n] \in Records /\ [h EXCEPT !.count = n] \in Records
           /\ \A st \in Statuses : [h EXCEPT !.status = st] \in Records
BY DEF Records

\* A report that begins: h2 is what its first step makes of the record.
LEMMA BeginKeepsInv ==
    ASSUME Inv, NEW t \in Reporters, NEW p \in Providers,
           NEW at \in Stages, NEW r \in Reports, NEW n \in Nat,
           Begin(t, p, at, r, n), at = "failing" <=> ~ r.ok, r.alone = Quiet(p),
           NEW h2 \in Records, health' = [health EXCEPT ![p] = h2], told' = told,
           Stage([at |-> at, provider |-> p, report |-> r, number |-> n, status |-> "healthy"],
                 health[p], h2)
    PROVE  Inv'
<1> DEFINE o == [at |-> at, provider |-> p, report |-> r, number |-> n, status |-> "healthy"]
<1> USE DEF Inv
<1>1. o \in Ops /\ o # Idle
  BY OpsNotIdle DEF Ops, Statuses
<1>2. /\ op[t] = Idle
      /\ op' = [u \in Reporters |-> IF u = t THEN o
                                    ELSE IF Reporting(u, p) THEN [op[u] EXCEPT !.report = [@ EXCEPT !.alone = FALSE]]
                                    ELSE op[u]]
  BY DEF Begin
<1>3. ASSUME NEW u \in Reporters, u # t, op[u] # Idle
      PROVE  /\ op'[u] # Idle /\ op'[u] \in Ops
             /\ op'[u].provider = op[u].provider /\ op'[u].at = op[u].at
             /\ op'[u].report.ok = op[u].report.ok
             /\ op'[u].report.alone => op'[u] = op[u] /\ op[u].provider # p
  <2>1. op[u] \in Ops
    BY <1>3 DEF TypeOK
  <2>2. CASE Reporting(u, p)
    <3>1. op'[u] = [op[u] EXCEPT !.report = [@ EXCEPT !.alone = FALSE]]
      BY <1>2, <1>3, <2>2
    <3>2. op[u].report \in Reports /\ [op[u].report EXCEPT !.alone = FALSE] \in Reports
      BY <2>1, ReportTypes DEF Ops
    <3>3. op'[u] = [op[u] EXCEPT !.report = [op[u].report EXCEPT !.alone = FALSE]]
      BY <3>1
    <3>4. op'[u] \in Ops /\ op'[u].report = [op[u].report EXCEPT !.alone = FALSE]
          /\ op'[u].provider = op[u].provider /\ op'[u].at = op[u].at
      BY <2>1, <3>2, <3>3 DEF Ops
    <3>5. op'[u].report.ok = op[u].report.ok /\ op'[u].report.alone = FALSE
      BY <3>2, <3>4 DEF Reports, Success, Failure
    <3> QED BY <3>4, <3>5, OpsNotIdle
  <2>3. CASE ~ Reporting(u, p)
    BY <1>2, <1>3, <2>1, <2>3 DEF Reporting
  <2> QED BY <2>2, <2>3
<1>4. op'[t] = o /\ \A u \in Reporters : u # t /\ op[u] = Idle => op'[u] = Idle
  BY <1>2 DEF Reporting
<1>5. TypeOK'
  <2>1. health' \in [Providers -> Records] /\ told' \in [Providers -> Seq(Reports)]
    BY DEF TypeOK
  <2>2. ASSUME NEW u \in Reporters
        PROVE  /\ op'[u] \in Ops \cup {Idle}
               /\ op'[u] # Idle => (op'[u].at = "failing" <=> ~ op'[u].report.ok)
    BY <1>1, <1>3, <1>4 DEF TypeOK
  <2>3. op' = [u \in Reporters |-> op'[u]]
    BY <1>2
  <2> QED BY <2>1, <2>2, <2>3 DEF TypeOK
<1>6. Separate'
  <2>1. SUFFICES ASSUME NEW u \in Reporters, NEW v \in Reporters,
                        op'[u] # Idle, op'[v] # Idle,
                        op'[u].provider = op'[v].provider, op'[u].report.alone
                 PROVE  u = v
    BY DEF Separate
  <2>2. CASE u = t
    <3>1. Quiet(p)
      BY <1>4, <2>1, <2>2
    <3> QED BY <1>3, <1>4, <2>1, <2>2, <3>1 DEF Quiet, Reporting
  <2>3. CASE u # t
    <3>1. op[u] # Idle /\ op'[u] = op[u] /\ op[u].provider # p
      BY <1>3, <1>4, <2>1, <2>3
    <3>2. v # t
      BY <1>4, <2>1, <3>1
    <3>3. op[v] # Idle /\ op[v].provider = op'[v].provider
      BY <1>3, <1>4, <2>1, <3>2
    <3> QED BY <2>1, <3>1, <3>3 DEF Separate
  <2> QED BY <2>2, <2>3
<1>7. SettledFaithful'
  <2>1. SUFFICES ASSUME NEW q \in Providers, Quiet(q)' PROVE Faithful(health'[q], told'[q])
    BY DEF SettledFaithful
  <2>2. q # p
    BY <1>1, <1>4, <2>1 DEF Quiet, Reporting
  <2>3. Quiet(q)
    BY <1>2, <1>3, <2>1 DEF Quiet, Reporting
  <2> QED BY <2>2, <2>3 DEF SettledFaithful, TypeOK
<1>8. AloneUnderway'
  <2>1. SUFFICES ASSUME NEW u \in Reporters, op'[u] # Idle, op'[u].report.alone
                 PROVE  Underway(op'[u], health'[op'[u].provider], told'[op'[u].provider])
    BY DEF AloneUnderway
  <2>2. CASE u = t
    <3>1. op'[u] = o /\ Quiet(p) /\ health'[p] = h2
      BY <1>4, <2>1, <2>2 DEF TypeOK
    <3>2. Faithful(health[p], told[p]) /\ health[p] \in Records
      BY <3>1 DEF SettledFaithful, TypeOK
    <3> QED BY <3>1, <3>2 DEF Underway
  <2>3. CASE u # t
    <3>1. op[u] # Idle /\ op'[u] = op[u] /\ op[u].provider # p /\ op[u].provider \in Providers
      BY <1>3, <1>4, <2>1, <2>3 DEF Ops, TypeOK
    <3>2. health'[op[u].provider] = health[op[u].provider]
      BY <3>1 DEF TypeOK
    <3> QED BY <2>1, <3>1, <3>2 DEF AloneUnderway
  <2> QED BY <2>2, <2>3
<1> QED BY <1>5, <1>6, <1>7, <1>8

\* A report that goes on: o2 and h2 are what its next step makes of it and of
\* the record.
LEMMA StepKeepsInv ==
    ASSUME Inv, NEW t \in Reporters, op[t] # Idle,
           NEW o2 \in Ops, o2.provider = op[t].provider, o2.report = op[t].report,
           o2.at # "failing", op[t].report.ok,
           op' = [op EXCEPT ![t] = o2],
           NEW h2 \in Records, health' = [health EXCEPT ![op[t].provider] = h2], told' = told,
           \A b \in Records : Stage(op[t], b, health[op[t].provider]) => Stage(o2, b, h2)
    PROVE  Inv'
<1> DEFINE p == op[t].provider
<1> USE DEF Inv
<1>1. op[t] \in Ops /\ p \in Providers /\ o2 # Idle
  BY OpsNotIdle DEF TypeOK, Ops
<1>2. op'[t] = o2 /\ (\A u \in Reporters : u # t => op'[u] = op[u])
  BY DEF TypeOK
<1>3. health'[p] = h2 /\ \A q \in Providers : q # p => health'[q] = health[q]
  BY <1>1 DEF TypeOK
<1>4. TypeOK'
  <2>1. health' \in [Providers -> Records] /\ told' \in [Providers -> Seq(Reports)]
    BY <1>1 DEF TypeOK
  <2>2. op' \in [Reporters -> Ops \cup {Idle}]
    BY DEF TypeOK
  <2>3. \A u \in Reporters : op'[u] # Idle => (op'[u].at = "failing" <=> ~ op'[u].report.ok)
    BY <1>2 DEF TypeOK
  <2> QED BY <2>1, <2>2, <2>3 DEF TypeOK
<1>5. \A u \in Reporters : /\ op'[u] # Idle <=> op[u] # Idle
                           /\ op'[u].provider = op[u].provider
                           /\ op'[u].report = op[u].report
  BY <1>1, <1>2
<1>6. Separate'
  BY <1>5 DEF Separate
<1>7. SettledFaithful'
  <2>1. SUFFICES ASSUME NEW q \in Providers, Quiet(q)' PROVE Faithful(health'[q], told'[q])
    BY DEF SettledFaithful
  <2>2. Quiet(q) /\ q # p
    BY <1>1, <1>5, <2>1 DEF Quiet, Reporting
  <2> QED BY <1>3, <2>2 DEF SettledFaithful
<1>8. AloneUnderway'
  <2>1. SUFFICES ASSUME NEW u \in Reporters, op'[u] # Idle, op'[u].report.alone
                 PROVE  Underway(op'[u], health'[op'[u].provider], told'[op'[u].provider])
    BY DEF AloneUnderway
  <2>2. op[u] # Idle /\ op[u].report.alone /\ Underway(op[u], health[op[u].provider], told[op[u].provider])
    BY <1>5, <2>1 DEF AloneUnderway
  <2>3. CASE u = t
    <3>1. PICK b \in Records : Faithful(b, told[p]) /\ Stage(op[t], b, health[p])
      BY <2>2, <2>3 DEF Underway
    <3>2. Stage(o2, b, h2)
      BY <3>1
    <3> QED BY <1>2, <1>3, <2>3, <3>1, <3>2 DEF Underway
  <2>4. CASE u # t
    <3>1. op'[u] = op[u] /\ op[u].provider \in Providers /\ op[u].provider # p
      BY <1>2, <2>2, <2>4 DEF Separate, TypeOK, Ops
    <3> QED BY <1>3, <2>2, <3>1
  <2> QED BY <2>3, <2>4
<1> QED BY <1>4, <1>6, <1>7, <1>8

\* A report that ends: h2 is what its last step makes of the record, and if
\* nothing disturbed it, what the whole report makes of the record it found.
LEMMA EndKeepsInv ==
    ASSUME Inv, NEW t \in Reporters, op[t] # Idle, End(t),
           NEW h2 \in Records, health' = [health EXCEPT ![op[t].provider] = h2],
           \A b \in Records : Stage(op[t], b, health[op[t].provider]) => h2 = Outcome(b, op[t].report)
    PROVE  Inv'
<1> DEFINE p == op[t].provider
           r == op[t].report
<1> USE DEF Inv
<1>1. op[t] \in Ops /\ p \in Providers /\ r \in Reports
  BY DEF TypeOK, Ops
<1>2. op'[t] = Idle /\ (\A u \in Reporters : u # t => op'[u] = op[u])
  BY DEF TypeOK, End
<1>3. /\ health'[p] = h2 /\ told'[p] = Append(told[p], r)
      /\ \A q \in Providers : q # p => health'[q] = health[q] /\ told'[q] = told[q]
  BY <1>1 DEF TypeOK, End
<1>4. TypeOK'
  <2>1. health' \in [Providers -> Records] /\ Append(told[p], r) \in Seq(Reports)
    BY <1>1 DEF TypeOK
  <2>2. told' \in [Providers -> Seq(Reports)]
    BY <1>1, <2>1 DEF TypeOK, End
  <2>3. op' \in [Reporters -> Ops \cup {Idle}]
    BY DEF TypeOK, End
  <2>4. \A u \in Reporters : op'[u] # Idle => (op'[u].at = "failing" <=> ~ op'[u].report.ok)
    BY <1>2 DEF TypeOK
  <2> QED BY <2>1, <2>2, <2>3, <2>4 DEF TypeOK
<1>5. Separate'
  BY <1>2 DEF Separate
<1>6. SettledFaithful'
  <2>1. SUFFICES ASSUME NEW q \in Providers, Quiet(q)' PROVE Faithful(health'[q], told'[q])
    BY DEF SettledFaithful
  <2>2. CASE q # p
    <3>1. Quiet(q)
      BY <1>2, <2>1, <2>2 DEF Quiet, Reporting
    <3> QED BY <1>3, <2>2, <3>1 DEF SettledFaithful
  <2>3. CASE q = p /\ r.alone
    <3>1. PICK b \in Records : Faithful(b, told[p]) /\ Stage(op[t], b, health[p])
      BY <2>3 DEF AloneUnderway, Underway
    <3>2. h2 = Outcome(b, r)
      BY <3>1
    <3>3. Faithful(Outcome(b, r), Append(told[p], r))
      BY <1>1, <2>3, <3>1, ServedFaithful, RefusedFaithful
    <3> QED BY <1>3, <2>3, <3>2, <3>3
  <2>4. CASE q = p /\ ~ r.alone
    <3>1. Faithful(h2, Append(told[p], r))
      BY <1>1, <2>4, DisturbedFaithful DEF TypeOK
    <3> QED BY <1>3, <2>4, <3>1
  <2> QED BY <2>2, <2>3, <2>4
<1>7. AloneUnderway'
  <2>1. SUFFICES ASSUME NEW u \in Reporters, op'[u] # Idle, op'[u].report.alone
                 PROVE  Underway(op'[u], health'[op'[u].provider], told'[op'[u].provider])
    BY DEF AloneUnderway
  <2>2. u # t /\ op'[u] = op[u]
    BY <1>2, <2>1
  <2>3. op[u].provider \in Providers /\ op[u].provider # p
    BY <2>1, <2>2 DEF Separate, TypeOK, Ops
  <2> QED BY <1>3, <2>1, <2>2, <2>3 DEF AloneUnderway
<1> QED BY <1>4, <1>5, <1>6, <1>7
-----------------------------------------------------------------------------
LEMMA NextInv == Inv /\ [Next]_vars => Inv'
<1> SUFFICES ASSUME Inv, [Next]_vars PROVE Inv'
  OBVIOUS
<1> USE DEF Records
<1>0. ASSUME NEW t \in Reporters, op[t] # Idle
      PROVE  /\ op[t] \in Ops /\ op[t].provider \in Providers
             /\ op[t].report \in Reports /\ op[t].number \in Nat /\ op[t].status \in Statuses
             /\ op[t].at = "failing" <=> ~ op[t].report.ok
             /\ health[op[t].provider] \in Records
  BY <1>0 DEF Inv, TypeOK, Ops
<1>1. ASSUME NEW t \in Reporters, NEW p \in Providers, NEW c \in Categories, RecordFailure(t, p, c)
      PROVE  Inv'
  <2>1. health[p] \in Records /\ health[p].streak \in Nat
        /\ health' = [health EXCEPT ![p] = health[p]] /\ told' = told
    BY <1>1 DEF Inv, TypeOK, RecordFailure
  <2>2. Quiet(p) \in BOOLEAN
    BY DEF Quiet
  <2>3. Failure(c, Quiet(p)) \in Reports /\ ~ Failure(c, Quiet(p)).ok
        /\ Failure(c, Quiet(p)).alone = Quiet(p)
    BY <2>2, ReportTypes DEF Failure
  <2>4. Stage([at |-> "failing", provider |-> p, report |-> Failure(c, Quiet(p)),
               number |-> health[p].streak, status |-> "healthy"], health[p], health[p])
    BY DEF Stage
  <2> QED BY <1>1, <2>1, <2>3, <2>4, BeginKeepsInv DEF RecordFailure, Stages
<1>2. ASSUME NEW t \in Reporters, NEW p \in Providers, NEW l \in Latencies, RecordSuccess(t, p, l)
      PROVE  Inv'
  <2> DEFINE h2 == [health[p] EXCEPT !.samples = Append(health[p].samples, l)]
  <2>1. health[p] \in Records
    BY DEF Inv, TypeOK
  <2>2. h2 \in Records
    <3>1. Append(health[p].samples, l) \in Seq(Latencies)
      BY <2>1
    <3> QED BY <2>1, <3>1, RecordFields
  <2>3. health' = [health EXCEPT ![p] = h2] /\ told' = told
    BY <1>2 DEF RecordSuccess
  <2>6. Quiet(p) \in BOOLEAN
    BY DEF Quiet
  <2>4. Success(l, Quiet(p)) \in Reports /\ Success(l, Quiet(p)).ok
        /\ Success(l, Quiet(p)).alone = Quiet(p) /\ Success(l, Quiet(p)).latency = l
    BY <2>6, ReportTypes DEF Success
  <2>5. Stage([at |-> "sampled", provider |-> p, report |-> Success(l, Quiet(p)),
               number |-> 0, status |-> "healthy"], health[p], h2)
    BY <2>4 DEF Stage
  <2>7. Begin(t, p, "sampled", Success(l, Quiet(p)), 0)
    BY <1>2 DEF RecordSuccess
  <2> HIDE DEF h2
  <2> QED BY <2>2, <2>3, <2>4, <2>5, <2>7, BeginKeepsInv DEF Stages
<1>3. ASSUME NEW t \in Reporters, EndFailure(t) PROVE Inv'
  <2> DEFINE h == health[op[t].provider]
             status == StatusAfter(h.status, op[t].report.category, op[t].number + 1)
             h2 == [status |-> status, samples |-> h.samples, streak |-> op[t].number + 1, count |-> h.count]
  <2>1. op[t].at = "failing" /\ op[t] # Idle /\ End(t) /\ health' = [health EXCEPT ![op[t].provider] = h2]
    BY <1>3 DEF EndFailure, Keep, Kept, GoOn, Idle
  <2>2. h \in Records /\ op[t].number \in Nat /\ ~ op[t].report.ok
    BY <1>0, <2>1
  <2>3. status \in Statuses
    BY <2>2 DEF StatusAfter, Statuses
  <2>4. h2 \in Records
    BY <2>2, <2>3
  <2>5. ASSUME NEW b \in Records, Stage(op[t], b, h) PROVE h2 = Outcome(b, op[t].report)
    <3>1. h = b /\ op[t].number = b.streak
      BY <2>1, <2>5 DEF Stage
    <3> QED BY <2>2, <3>1 DEF Outcome, AfterRefused
  <2> QED BY <2>1, <2>4, <2>5, EndKeepsInv
<1>4. ASSUME NEW t \in Reporters, MeasureWindow(t) PROVE Inv'
  <2> DEFINE h == health[op[t].provider]
             o2 == [at |-> "measured", provider |-> op[t].provider, report |-> op[t].report,
                    number |-> Len(h.samples), status |-> op[t].status]
  <2>1. op[t].at = "sampled" /\ op[t] # Idle /\ op' = [op EXCEPT ![t] = o2]
        /\ told' = told /\ health' = [health EXCEPT ![op[t].provider] = h]
    BY <1>4 DEF MeasureWindow, Keep, Kept, GoOn, Idle, Inv, TypeOK
  <2>2. h \in Records /\ op[t] \in Ops /\ op[t].report.ok
    BY <1>0, <2>1
  <2>3. o2 \in Ops /\ o2.provider = op[t].provider /\ o2.report = op[t].report
        /\ o2.at = "measured" /\ o2.number = Len(h.samples)
    BY <2>2 DEF Ops, Stages
  <2>4. ASSUME NEW b \in Records, Stage(op[t], b, h) PROVE Stage(o2, b, h)
    BY <2>1, <2>3, <2>4 DEF Stage
  <2> QED BY <2>1, <2>2, <2>3, <2>4, StepKeepsInv
<1>5. ASSUME NEW t \in Reporters, TrimWindow(t) PROVE Inv'
  <2> DEFINE h == health[op[t].provider]
             o2 == [at |-> "trimmed", provider |-> op[t].provider, report |-> op[t].report,
                    number |-> op[t].number, status |-> op[t].status]
             h2 == [h EXCEPT !.samples = SubSeq(h.samples, 2, Len(h.samples))]
  <2>1. op[t].at = "measured" /\ op[t].number > Window /\ op[t] # Idle /\ op' = [op EXCEPT ![t] = o2]
        /\ told' = told /\ health' = [health EXCEPT ![op[t].provider] = h2]
    BY <1>5 DEF TrimWindow, Keep, Kept, GoOn, Idle
  <2>2. h \in Records /\ op[t] \in Ops /\ op[t].report.ok /\ op[t].report.latency \in Latencies
    BY <1>0, <2>1, ReportTypes
  <2>3. o2 \in Ops /\ o2.provider = op[t].provider /\ o2.report = op[t].report /\ o2.at = "trimmed"
    BY <2>2 DEF Ops, Stages
  <2>4. h2 \in Records
    <3>1. SubSeq(h.samples, 2, Len(h.samples)) \in Seq(Latencies)
      BY <2>2
    <3> QED BY <2>2, <3>1, RecordFields
  <2>5. ASSUME NEW b \in Records, Stage(op[t], b, h) PROVE Stage(o2, b, h2)
    <3> DEFINE longer == Append(b.samples, op[t].report.latency)
    <3>1. h = [b EXCEPT !.samples = longer] /\ op[t].number = Len(longer)
      BY <2>1, <2>5 DEF Stage
    <3>2. Slide(b.samples, op[t].report.latency) = SubSeq(longer, 2, Len(longer))
      BY <2>1, <2>2, <3>1, SlideType
    <3>3. h2 = [b EXCEPT !.samples = Slide(b.samples, op[t].report.latency)]
      BY <3>1, <3>2
    <3> QED BY <2>3, <3>3 DEF Stage
  <2> QED BY <2>1, <2>2, <2>3, <2>4, <2>5, StepKeepsInv
<1>6. ASSUME NEW t \in Reporters, ResetStreak(t) PROVE Inv'
  <2> DEFINE h == health[op[t].provider]
             o2 == [at |-> "counting", provider |-> op[t].provider, report |-> op[t].report,
                    number |-> h.count, status |-> op[t].status]
             h2 == [h EXCEPT !.streak = 0]
  <2>1. WindowSettled(op[t]) /\ op[t] # Idle /\ op' = [op EXCEPT ![t] = o2]
        /\ told' = told /\ health' = [health EXCEPT ![op[t].provider] = h2]
    BY <1>6 DEF ResetStreak, Keep, Kept, GoOn, WindowSettled, Idle
  <2>2. h \in Records /\ op[t] \in Ops /\ op[t].report.ok /\ op[t].report.latency \in Latencies
    BY <1>0, <2>1, ReportTypes DEF WindowSettled
  <2>3. o2 \in Ops /\ o2.provider = op[t].provider /\ o2.report = op[t].report
        /\ o2.at = "counting" /\ o2.number = h.count
    BY <2>2 DEF Ops, Stages
  <2>4. h2 \in Records
    BY <2>2
  <2>5. ASSUME NEW b \in Records, Stage(op[t], b, h) PROVE Stage(o2, b, h2)
    <3> DEFINE slid == Slide(b.samples, op[t].report.latency)
    <3> DEFINE longer == Append(b.samples, op[t].report.latency)
    <3>1. h = [b EXCEPT !.samples = slid]
      <4>1. CASE op[t].at = "trimmed"
        BY <2>5, <4>1 DEF Stage
      <4>2. CASE op[t].at = "measured" /\ op[t].number <= Window
        <5>1. h = [b EXCEPT !.samples = longer] /\ op[t].number = Len(longer)
          BY <2>5, <4>2 DEF Stage
        <5>2. slid = longer
          BY <2>2, <4>2, <5>1, SlideType
        <5> QED BY <5>1, <5>2
      <4> QED BY <2>1, <4>1, <4>2 DEF WindowSettled
    <3>2. h = [status |-> b.status, samples |-> slid, streak |-> b.streak, count |-> b.count]
      BY <3>1
    <3>3. h2 = [status |-> b.status, samples |-> slid, streak |-> 0, count |-> b.count] /\ h.count = b.count
      BY <3>2
    <3> QED BY <2>3, <3>3 DEF Stage
  <2> QED BY <2>1, <2>2, <2>3, <2>4, <2>5, StepKeepsInv
<1>7. ASSUME NEW t \in Reporters, CountRequest(t) PROVE Inv'
  <2> DEFINE h == health[op[t].provider]
             o2 == [at |-> "judging", provider |-> op[t].provider, report |-> op[t].report,
                    number |-> op[t].number, status |-> h.status]
             h2 == [h EXCEPT !.count = op[t].number + 1]
  <2>1. op[t].at = "counting" /\ op[t] # Idle /\ op' = [op EXCEPT ![t] = o2]
        /\ told' = told /\ health' = [health EXCEPT ![op[t].provider] = h2]
    BY <1>7 DEF CountRequest, Keep, Kept, GoOn, Idle
  <2>2. h \in Records /\ op[t] \in Ops /\ op[t].report.ok /\ op[t].number \in Nat
    BY <1>0, <2>1
  <2>3. o2 \in Ops /\ o2.provider = op[t].provider /\ o2.report = op[t].report
        /\ o2.at = "judging" /\ o2.status = h.status
    BY <2>2 DEF Ops, Stages
  <2>4. h2 \in Records
    BY <2>2
  <2>5. ASSUME NEW b \in Records, Stage(op[t], b, h) PROVE Stage(o2, b, h2)
    <3> DEFINE slid == Slide(b.samples, op[t].report.latency)
               reset == [status |-> b.status, samples |-> slid, streak |-> 0, count |-> b.count]
    <3>1. h = reset /\ op[t].number = b.count
      BY <2>1, <2>5 DEF Stage
    <3>2. h2 = [status |-> b.status, samples |-> slid, streak |-> 0, count |-> b.count + 1] /\ h.status = b.status
      BY <3>1
    <3> QED BY <2>3, <3>2 DEF Stage
  <2> QED BY <2>1, <2>2, <2>3, <2>4, <2>5, StepKeepsInv
<1>8. ASSUME NEW t \in Reporters, LiftUnhealthy(t) PROVE Inv'
  <2> DEFINE h == health[op[t].provider]
             h2 == [h EXCEPT !.status = "degraded"]
  <2>1. op[t].at = "judging" /\ op[t].status = "unhealthy" /\ op[t] # Idle /\ End(t)
        /\ health' = [health EXCEPT ![op[t].provider] = h2]
    BY <1>8 DEF LiftUnhealthy, Keep, Kept, GoOn, Idle
  <2>2. h \in Records /\ op[t].report.ok
    BY <1>0, <2>1
  <2>3. h2 \in Records
    BY <2>2 DEF Statuses
  <2>4. ASSUME NEW b \in Records, Stage(op[t], b, h) PROVE h2 = Outcome(b, op[t].report)
    BY <2>1, <2>2, <2>4 DEF Stage, Outcome, AfterServed, AfterCounted
  <2> QED BY <2>1, <2>3, <2>4, EndKeepsInv
<1>9. ASSUME NEW t \in Reporters, LookAgain(t) PROVE Inv'
  <2> DEFINE h == health[op[t].provider]
             o2 == [at |-> "lifting", provider |-> op[t].provider, report |-> op[t].report,
                    number |-> op[t].number, status |-> h.status]
  <2>1. op[t].at = "judging" /\ op[t].status # "unhealthy" /\ op[t] # Idle /\ op' = [op EXCEPT ![t] = o2]
        /\ told' = told /\ health' = [health EXCEPT ![op[t].provider] = h]
    BY <1>9 DEF LookAgain, Keep, Kept, GoOn, Idle, Inv, TypeOK
  <2>2. h \in Records /\ op[t] \in Ops /\ op[t].report.ok
    BY <1>0, <2>1
  <2>3. o2 \in Ops /\ o2.provider = op[t].provider /\ o2.report = op[t].report
        /\ o2.at = "lifting" /\ o2.status = h.status
    BY <2>2 DEF Ops, Stages
  <2>4. ASSUME NEW b \in Records, Stage(op[t], b, h) PROVE Stage(o2, b, h)
    <3>1. h.status = b.status /\ b.status = op[t].status
      BY <2>1, <2>4 DEF Stage
    <3> QED BY <2>1, <2>3, <2>4, <3>1 DEF Stage
  <2> QED BY <2>1, <2>2, <2>3, <2>4, StepKeepsInv
<1>10. ASSUME NEW t \in Reporters, LiftDegraded(t) PROVE Inv'
  <2> DEFINE h == health[op[t].provider]
             h2 == IF op[t].status = "degraded" THEN [h EXCEPT !.status = "healthy"] ELSE h
  <2>1. op[t].at = "lifting" /\ op[t] # Idle /\ End(t)
        /\ health' = [health EXCEPT ![op[t].provider] = h2]
    BY <1>10 DEF LiftDegraded, Keep, Kept, GoOn, Idle, Inv, TypeOK
  <2>2. h \in Records /\ op[t].report.ok
    BY <1>0, <2>1
  <2>3. h2 \in Records
    BY <2>2 DEF Statuses
  <2>4. ASSUME NEW b \in Records, Stage(op[t], b, h) PROVE h2 = Outcome(b, op[t].report)
    <3>1. b.status \in {"healthy", "degraded"} /\ op[t].status = b.status
      BY <2>1, <2>4 DEF Stage, Statuses
    <3> QED BY <2>1, <2>2, <2>4, <3>1 DEF Stage, Outcome, AfterServed, AfterCounted
  <2> QED BY <2>1, <2>3, <2>4, EndKeepsInv
<1>11. CASE UNCHANGED vars
  BY <1>11 DEF vars, Inv, TypeOK, Separate, SettledFaithful, AloneUnderway, Quiet, Reporting
<1> QED BY <1>1, <1>2, <1>3, <1>4, <1>5, <1>6, <1>7, <1>8, <1>9, <1>10, <1>11 DEF Next

LEMMA InvAlways == Spec => []Inv
BY InitInv, NextInv, PTL DEF Spec

\* The tracker's records, the reports under way and the history keep their types.
THEOREM TypeCorrect == Spec => []TypeOK
<1>1. Inv => TypeOK
  BY DEF Inv
<1> QED BY <1>1, InvAlways, PTL

\* As long as no two reports about a provider overlap, the streak is the run of
\* failures its history ends with.
THEOREM StreaksCorrect == Spec => []StreaksExact
<1>1. Inv => StreaksExact
  BY DEF Inv, SettledFaithful, StreaksExact, Undisturbed, Faithful
<1> QED BY <1>1, InvAlways, PTL

\* Under the same condition the planner loses sight of a provider exactly after
\* CondemnAt failures in a row the last of which is not a rate limit.
THEOREM UnhealthyCorrect == Spec => []UnhealthyExactly
<1>1. ASSUME Inv, NEW p \in Providers, Undisturbed(p)
      PROVE  ~ IsAvailable(health[p]) <=>
                 /\ EndsWithFailures(told[p], CondemnAt)
                 /\ told[p][Len(told[p])].category # "rate_limit"
  <2>1. Faithful(health[p], told[p]) /\ Orderly(told[p])
    BY <1>1 DEF Inv, SettledFaithful, Undisturbed
  <2>2. EndsWithFailures(told[p], CondemnAt) <=> health[p].streak >= CondemnAt
    BY <2>1, StreakMeasuresRun, HealthAssumption DEF Faithful, HealthAssumption
  <2> QED BY <2>1, <2>2 DEF Faithful, IsAvailable, LastIsRateLimit
<1>2. Inv => UnhealthyExactly
  BY <1>1 DEF UnhealthyExactly
<1> QED BY <1>2, InvAlways, PTL

\* Two successes in a row that nothing disturbed make a provider healthy,
\* whatever came before.
THEOREM HealingCorrect == Spec => []TwoSuccessesHeal
<1>1. Inv => TwoSuccessesHeal
  BY DEF Inv, SettledFaithful, TwoSuccessesHeal, Faithful
<1> QED BY <1>1, InvAlways, PTL

\* As long as no two reports about a provider overlap, its window holds the
\* latencies of its last Window successes in order, and its count is theirs.
THEOREM SamplesCorrect == Spec => []SamplesAreRecent
<1>1. Inv => SamplesAreRecent
  BY DEF Inv, SettledFaithful, SamplesAreRecent, Undisturbed, Faithful
<1> QED BY <1>1, InvAlways, PTL
=============================================================================
