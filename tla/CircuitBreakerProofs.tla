------------------------ MODULE CircuitBreakerProofs ------------------------
(***************************************************************************)
(* The safety of the circuit breaker for every threshold, cooldown, number *)
(* of probes and set of callers.  The state invariants of CircuitBreaker   *)
(* are inductive only together: the failure count needs the type bounds,   *)
(* and the cooldown of a half-open breaker needs to know that an open      *)
(* one's age is the time since the last failure.                           *)
(***************************************************************************)
EXTENDS CircuitBreaker, TLAPS

\* A caller that is switched out while nobody else changes the breaker, or tells
\* it of a failure, goes on where it left off.
PausedRightly ==
    ~ crossed => \A c \in Callers :
        /\ calls[c] \in {"asking", "closing"} => cb.state = "open" /\ CooldownElapsed(cb)
        /\ calls[c] = "stamping" => cb.state = "open" /\ stamp[c] = quiet

\* A half-open period has let through its counted probes and the call that opened
\* it.
ProbesCounted == ~ crossed /\ cb.state = "half_open" => admitted = cb.probes + 1

Inv == TypeOK /\ PausedRightly /\ CountIsStreak /\ CooldownFromLastFailure /\ ProbesCounted

Claims == PausedRightly /\ CountIsStreak /\ CooldownFromLastFailure /\ ProbesCounted

-----------------------------------------------------------------------------
\* What the methods of a breaker keep: a breaker stays a breaker under
\* allow_request, record_failure, record_success and the passing of time.
LEMMA MethodsKeepType ==
    ASSUME NEW b \in Breakers
    PROVE  /\ AfterAllow(b) \in Breakers
           /\ AfterFailure(b) \in Breakers
           /\ AfterSuccess(b) \in Breakers
           /\ Older(b) \in Breakers
<1> USE BreakerAssumption DEF BreakerAssumption, Breakers, BreakerStates, Ages
<1>0. 0 \in 0 .. HalfOpenMaxCalls /\ 0 \in Ages /\ FailureThreshold \in 0 .. FailureThreshold
  OBVIOUS
<1>1. [b EXCEPT !.state = "half_open", !.probes = 0] \in Breakers
  BY <1>0
<1>2. b.probes < HalfOpenMaxCalls => [b EXCEPT !.probes = @ + 1] \in Breakers
  BY <1>0
<1>3. [b EXCEPT !.state = "open", !.age = 0] \in Breakers
  BY <1>0
<1>4. [b EXCEPT !.state = "open", !.failures = FailureThreshold, !.age = 0] \in Breakers
  BY <1>0
<1>5. b.failures + 1 < FailureThreshold => [b EXCEPT !.failures = @ + 1] \in Breakers
  BY <1>0
<1>6. AfterAllow(b) \in Breakers
  BY <1>1, <1>2, Zenon DEF AfterAllow
<1>7. AfterFailure(b) \in Breakers
  <2>1. b.failures + 1 >= FailureThreshold \/ b.failures + 1 < FailureThreshold
    OBVIOUS
  <2> QED BY <1>3, <1>4, <1>5, <2>1, Zenon DEF AfterFailure
<1>8. AfterSuccess(b) \in Breakers /\ Older(b) \in Breakers
  BY DEF AfterSuccess, NewBreaker, Older
<1> QED BY <1>6, <1>7, <1>8

\* A new breaker is closed, and nothing has happened yet.
LEMMA InitInv == Init => Inv
<1> SUFFICES ASSUME Init PROVE Inv
  OBVIOUS
<1> USE BreakerAssumption DEF BreakerAssumption, Init, NewBreaker
<1>1. NewBreaker \in Breakers
  BY DEF Breakers, BreakerStates
<1>2. TypeOK
  <2>1. cb \in Breakers
    BY <1>1
  <2>2. calls \in [Callers -> {"idle", "inflight"} \cup Paused]
    OBVIOUS
  <2>3. /\ admitted \in Nat
        /\ streak \in 0 .. FailureThreshold
        /\ quiet \in Ages /\ stamp \in [Callers -> Ages]
    BY DEF Ages
  <2>4. escaped \in BOOLEAN /\ crossed \in BOOLEAN
    OBVIOUS
  <2> QED BY <2>1, <2>2, <2>3, <2>4 DEF TypeOK
<1>3. CountIsStreak /\ CooldownFromLastFailure /\ ProbesCounted /\ PausedRightly
  BY DEF CountIsStreak, CooldownFromLastFailure, ProbesCounted, PausedRightly
<1> QED BY <1>2, <1>3 DEF Inv

\* Once methods have crossed nothing is claimed, and they stay crossed.
LEMMA CrossedForGood == ASSUME crossed' PROVE Claims'
BY DEF Claims, PausedRightly, CountIsStreak, CooldownFromLastFailure, ProbesCounted

\* Nothing is crossed in a step only if it disturbs nothing or nobody else is
\* inside a method.
LEMMA NotCrossed ==
    ASSUME TypeOK, NEW c \in Callers, NEW disturbs \in BOOLEAN, Crossing(c, disturbs), ~ crossed'
    PROVE  /\ ~ crossed
           /\ ~ disturbs \/ \A d \in Callers \ {c} : calls[d] \notin Paused
BY DEF Crossing, TypeOK

\* allow_request moves a cooled-down open breaker to a fresh half-open period
\* and counts a probe; it leaves the count, the age and the histories alone.
LEMMA AskKeepsInv == ASSUME Inv, NEW c \in Callers, Ask(c) PROVE Inv'
<1> USE BreakerAssumption DEF BreakerAssumption, Inv, TypeOK, Ask
<1>1. TypeOK'
  <2>1. cb' \in Breakers
    BY MethodsKeepType
  <2> QED BY <2>1 DEF Goes, Crossing, Paused
<1>2. ASSUME ~ crossed' PROVE Claims'
  <2>1. ~ crossed /\ (cb' = cb \/ \A d \in Callers \ {c} : calls[d] \notin Paused)
    BY <1>2, NotCrossed
  <2>2. /\ cb'.failures = cb.failures
        /\ cb'.age = cb.age
        /\ \/ cb'.state = cb.state
           \/ cb.state = "open" /\ CooldownElapsed(cb) /\ cb'.state = "half_open"
    BY DEF AfterAllow, Breakers
  <2>3. CountIsStreak' /\ CooldownFromLastFailure'
    BY <2>1, <2>2 DEF Goes, CountIsStreak, CooldownFromLastFailure, CooldownElapsed, Breakers, BreakerStates, Ages
  <2>4. ProbesCounted'
    BY <2>1 DEF ProbesCounted, AfterAllow, Allows, Breakers, BreakerStates
  <2>5. PausedRightly'
    BY <2>1, <2>2 DEF PausedRightly, Goes, Paused, CooldownElapsed
  <2> QED BY <2>3, <2>4, <2>5 DEF Claims
<1> QED BY <1>1, <1>2, CrossedForGood DEF Claims

\* A caller switched out changes nothing but its own place.
LEMMA PauseAskKeepsInv == ASSUME Inv, NEW c \in Callers, PauseAsk(c) PROVE Inv'
<1> USE BreakerAssumption DEF BreakerAssumption, Inv, TypeOK, PauseAsk
<1>1. TypeOK'
  <2>1. cb' \in Breakers
    BY MethodsKeepType
  <2> QED BY <2>1 DEF Goes, Crossing, Paused
<1>2. Claims'
  BY DEF Claims, PausedRightly, Goes, CountIsStreak, CooldownFromLastFailure, ProbesCounted
<1> QED BY <1>1, <1>2, CrossedForGood DEF Claims

\* Going on with allow_request is what it would have been at once.
LEMMA ResumeAskKeepsInv == ASSUME Inv, NEW c \in Callers, ResumeAsk(c) PROVE Inv'
<1> USE BreakerAssumption DEF BreakerAssumption, Inv, TypeOK, ResumeAsk
<1>1. TypeOK'
  <2>1. cb' = [state |-> "half_open", failures |-> cb.failures, age |-> cb.age, probes |-> 0]
    BY DEF Breakers
  <2>2. cb' \in Breakers
    BY <2>1 DEF Breakers, BreakerStates
  <2> QED BY <2>2 DEF Goes, Crossing, Paused
<1>2. ASSUME ~ crossed' PROVE Claims'
  <2>1. ~ crossed /\ (cb' = cb \/ \A d \in Callers \ {c} : calls[d] \notin Paused)
    BY <1>2, NotCrossed
  <2>2. cb.state = "open" /\ CooldownElapsed(cb)
    BY <2>1 DEF PausedRightly
  <2>3. cb'.failures = cb.failures /\ cb'.age = cb.age /\ cb'.state = "half_open" /\ cb'.probes = 0
    BY DEF Breakers
  <2>4. \A d \in Callers \ {c} : calls[d] \notin Paused
    BY <2>1, <2>2, <2>3
  <2>5. CountIsStreak' /\ CooldownFromLastFailure' /\ ProbesCounted'
    BY <2>1, <2>2, <2>3, <2>4 DEF Goes, Paused, CountIsStreak, CooldownFromLastFailure, ProbesCounted, CooldownElapsed, Ages
  <2>6. PausedRightly'
    BY <2>4 DEF PausedRightly, Goes, Paused
  <2> QED BY <2>5, <2>6 DEF Claims
<1> QED BY <1>1, <1>2, CrossedForGood DEF Claims

\* record_success closes the breaker or leaves it open.
LEMMA SucceedKeepsInv == ASSUME Inv, NEW c \in Callers, Succeed(c) PROVE Inv'
<1> USE BreakerAssumption DEF BreakerAssumption, Inv, TypeOK, Succeed
<1>1. TypeOK'
  <2>1. cb' \in Breakers
    BY MethodsKeepType
  <2> QED BY <2>1 DEF Goes, Crossing, Paused
<1>2. ASSUME ~ crossed' PROVE Claims'
  <2>1. ~ crossed /\ (cb' = cb \/ \A d \in Callers \ {c} : calls[d] \notin Paused)
    BY <1>2, NotCrossed
  <2>2. CountIsStreak' /\ CooldownFromLastFailure' /\ ProbesCounted'
    BY <2>1 DEF Goes, CountIsStreak, CooldownFromLastFailure, ProbesCounted, AfterSuccess, NewBreaker,
           Breakers, BreakerStates
  <2>3. PausedRightly'
    BY <2>1 DEF PausedRightly, Goes, Paused, CooldownElapsed
  <2> QED BY <2>2, <2>3 DEF Claims
<1> QED BY <1>1, <1>2, CrossedForGood DEF Claims

LEMMA PauseSucceedKeepsInv == ASSUME Inv, NEW c \in Callers, PauseSucceed(c) PROVE Inv'
<1> USE BreakerAssumption DEF BreakerAssumption, Inv, TypeOK, PauseSucceed
<1>1. TypeOK'
  <2>1. cb' \in Breakers
    BY MethodsKeepType
  <2> QED BY <2>1 DEF Goes, Crossing, Paused
<1>2. Claims'
  BY DEF Claims, PausedRightly, Goes, CountIsStreak, CooldownFromLastFailure, ProbesCounted
<1> QED BY <1>1, <1>2, CrossedForGood DEF Claims

LEMMA ResumeSucceedKeepsInv == ASSUME Inv, NEW c \in Callers, ResumeSucceed(c) PROVE Inv'
<1> USE BreakerAssumption DEF BreakerAssumption, Inv, TypeOK, ResumeSucceed
<1>1. TypeOK'
  <2>1. cb' \in Breakers
    BY DEF NewBreaker, Breakers, BreakerStates
  <2> QED BY <2>1 DEF Goes, Crossing, Paused
<1>2. ASSUME ~ crossed' PROVE Claims'
  <2>1. ~ crossed /\ (cb' = cb \/ \A d \in Callers \ {c} : calls[d] \notin Paused)
    BY <1>2, NotCrossed
  <2>2. cb.state = "open" /\ cb'.state = "closed" /\ cb'.failures = 0 /\ cb'.age = None
    BY <2>1 DEF PausedRightly, NewBreaker
  <2>3. \A d \in Callers \ {c} : calls[d] \notin Paused
    BY <2>1, <2>2
  <2>4. CountIsStreak' /\ CooldownFromLastFailure' /\ ProbesCounted'
    BY <2>2 DEF CountIsStreak, CooldownFromLastFailure, ProbesCounted
  <2>5. PausedRightly'
    BY <2>3 DEF PausedRightly, Goes, Paused
  <2> QED BY <2>4, <2>5 DEF Claims
<1> QED BY <1>1, <1>2, CrossedForGood DEF Claims

\* record_failure counts, or opens the breaker and stamps it.
LEMMA FailKeepsInv == ASSUME Inv, NEW c \in Callers, Fail(c) PROVE Inv'
<1> USE BreakerAssumption DEF BreakerAssumption, Inv, TypeOK, Fail
<1>1. TypeOK'
  <2>1. cb' \in Breakers
    BY MethodsKeepType
  <2>2. streak' \in 0 .. FailureThreshold /\ quiet' \in Ages
    BY DEF CountFailure, Ages
  <2> QED BY <2>1, <2>2 DEF Goes, Crossing, Paused
<1>2. ASSUME ~ crossed' PROVE Claims'
  <2>1. ~ crossed /\ \A d \in Callers \ {c} : calls[d] \notin Paused
    BY <1>2, NotCrossed
  <2>2. CountIsStreak'
    BY <2>1 DEF CountIsStreak, CountFailure, AfterFailure, Breakers, BreakerStates
  <2>3. CooldownFromLastFailure'
    <3>1. CASE cb' = cb
      <4>a. cb.state # "half_open"
        <5>1. ASSUME cb.state = "half_open" PROVE cb' = [cb EXCEPT !.state = "open", !.age = 0]
          BY <5>1 DEF AfterFailure
        <5>2. ASSUME cb.state = "half_open" PROVE cb'.state = "open"
          BY <5>1, <5>2 DEF Breakers
        <5> QED BY <3>1, <5>2
      <4>b. cb.failures + 1 >= FailureThreshold
        <5>1. ASSUME cb.failures + 1 < FailureThreshold PROVE cb' = [cb EXCEPT !.failures = @ + 1]
          BY <4>a, <5>1 DEF AfterFailure, Breakers
        <5>2. ASSUME cb.failures + 1 < FailureThreshold PROVE cb'.failures = cb.failures + 1
          BY <5>1, <5>2 DEF Breakers
        <5> QED BY <3>1, <5>2 DEF Breakers
      <4>1. cb.state # "half_open" /\ cb.failures + 1 >= FailureThreshold
        BY <4>a, <4>b
      <4>2. cb'.state = "open" /\ cb'.age = 0
        BY <4>1 DEF AfterFailure, Breakers, BreakerStates
      <4> QED BY <4>2 DEF CooldownFromLastFailure
    <3>2. CASE \A d \in Callers : calls[d] # "stamping"
      BY <3>2, <2>1 DEF CountIsStreak, CooldownFromLastFailure, AfterFailure, Breakers, BreakerStates
    <3> QED BY <3>1, <3>2, <2>1 DEF Paused
  <2>4. ProbesCounted'
    BY <2>1 DEF ProbesCounted, AfterFailure, Breakers, BreakerStates
  <2>5. PausedRightly'
    BY <2>1 DEF PausedRightly, Goes, Paused
  <2> QED BY <2>2, <2>3, <2>4, <2>5 DEF Claims
<1> QED BY <1>1, <1>2, CrossedForGood DEF Claims

\* Opened and not yet stamped, the breaker has its full threshold behind it.
LEMMA PauseFailKeepsInv == ASSUME Inv, NEW c \in Callers, PauseFail(c) PROVE Inv'
<1> USE BreakerAssumption DEF BreakerAssumption, Inv, TypeOK, PauseFail
<1>1. TypeOK'
  <2>1. AfterFailure(cb) \in Breakers
    BY MethodsKeepType
  <2>2. cb' \in Breakers
    BY <2>1 DEF Breakers
  <2>3. streak' \in 0 .. FailureThreshold /\ quiet' \in Ages /\ stamp' \in [Callers -> Ages]
    BY DEF CountFailure, Ages
  <2> QED BY <2>2, <2>3 DEF Goes, Crossing, Paused
<1>2. ASSUME ~ crossed' PROVE Claims'
  <2>1. ~ crossed /\ \A d \in Callers \ {c} : calls[d] \notin Paused
    BY <1>2, NotCrossed
  <2>2. cb'.state = "open" /\ cb'.failures = AfterFailure(cb).failures /\ cb'.age = cb.age
    BY MethodsKeepType DEF Breakers
  <2>3. CountIsStreak'
    BY <2>1, <2>2 DEF CountIsStreak, AfterFailure, Breakers, BreakerStates
  <2>4. CooldownFromLastFailure' /\ ProbesCounted'
    BY <2>1, <2>2 DEF CooldownFromLastFailure, ProbesCounted, Goes
  <2>5. PausedRightly'
    BY <2>1, <2>2 DEF PausedRightly, Goes, Paused, CooldownElapsed
  <2> QED BY <2>3, <2>4, <2>5 DEF Claims
<1> QED BY <1>1, <1>2, CrossedForGood DEF Claims

\* The stamp is that of the last failure heard.
LEMMA ResumeFailKeepsInv == ASSUME Inv, NEW c \in Callers, ResumeFail(c) PROVE Inv'
<1> USE BreakerAssumption DEF BreakerAssumption, Inv, TypeOK, ResumeFail
<1>1. TypeOK'
  <2>1. cb' \in Breakers /\ stamp' \in [Callers -> Ages]
    BY DEF Breakers, BreakerStates, Ages
  <2> QED BY <2>1 DEF Goes, Crossing, Paused
<1>2. ASSUME ~ crossed' PROVE Claims'
  <2>1. ~ crossed /\ (cb' = cb \/ \A d \in Callers \ {c} : calls[d] \notin Paused)
    BY <1>2, NotCrossed
  <2>2. cb.state = "open" /\ stamp[c] = quiet
    BY <2>1 DEF PausedRightly
  <2>3. cb'.state = "open" /\ cb'.failures = cb.failures /\ cb'.age = quiet /\ quiet' = quiet
    BY <2>1, <2>2 DEF Breakers, PausedRightly
  <2>4. CountIsStreak' /\ CooldownFromLastFailure' /\ ProbesCounted'
    BY <2>1, <2>2, <2>3 DEF CountIsStreak, CooldownFromLastFailure, ProbesCounted, Ages
  <2>5. PausedRightly'
    BY <2>1, <2>2, <2>3 DEF PausedRightly, Goes, Paused, CooldownElapsed
  <2> QED BY <2>4, <2>5 DEF Claims
<1> QED BY <1>1, <1>2, CrossedForGood DEF Claims

LEMMA TickKeepsInv == ASSUME Inv, Tick PROVE Inv'
<1> USE BreakerAssumption DEF BreakerAssumption, Inv, TypeOK, Tick
<1>1. cb' \in Breakers
  BY MethodsKeepType
<1>2. quiet' \in Ages /\ stamp' \in [Callers -> Ages]
  BY DEF Ages, Later
<1>3. CountIsStreak' /\ CooldownFromLastFailure' /\ ProbesCounted'
  BY DEF CountIsStreak, CooldownFromLastFailure, ProbesCounted, Older, Later, Breakers, Ages
<1>4. PausedRightly'
  BY DEF PausedRightly, CooldownElapsed, Older, Later, Breakers, Ages
<1> QED BY <1>1, <1>2, <1>3, <1>4

LEMMA EscapeKeepsInv == ASSUME Inv, NEW c \in Callers, Escape(c) PROVE Inv'
BY DEF Escape, Goes, Inv, TypeOK, Paused, PausedRightly, CountIsStreak, CooldownFromLastFailure, ProbesCounted

LEMMA NextInv == Inv /\ [Next]_vars => Inv'
<1> SUFFICES ASSUME Inv, [Next]_vars PROVE Inv'
  OBVIOUS
<1>1. CASE Tick
  BY <1>1, TickKeepsInv
<1>2. ASSUME NEW c \in Callers, Ask(c) \/ PauseAsk(c) PROVE Inv'
  BY <1>2, AskKeepsInv, PauseAskKeepsInv
<1>3. ASSUME NEW c \in Callers, End(c) PROVE Inv'
  BY <1>3, SucceedKeepsInv, FailKeepsInv, EscapeKeepsInv, PauseSucceedKeepsInv, PauseFailKeepsInv DEF End
<1>4. ASSUME NEW c \in Callers, Resume(c) PROVE Inv'
  BY <1>4, ResumeAskKeepsInv, ResumeSucceedKeepsInv, ResumeFailKeepsInv DEF Resume
<1>5. CASE UNCHANGED vars
  BY <1>5 DEF vars, Inv, TypeOK, PausedRightly, CountIsStreak, CooldownFromLastFailure, ProbesCounted
<1> QED BY <1>1, <1>2, <1>3, <1>4, <1>5 DEF Next

LEMMA InvAlways == Spec => []Inv
BY InitInv, NextInv, PTL DEF Spec
-----------------------------------------------------------------------------
\* The breaker's fields keep their types and bounds, whoever is switched out
\* where; in particular the probes never pass half_open_max_calls.
THEOREM TypeCorrect == Spec => []TypeOK
BY InvAlways, PTL DEF Inv

\* However reports interleave, a closed breaker's count is the number of
\* failures in a row and below the threshold, and an open or half-open breaker
\* has a full threshold behind it, until methods cross.
THEOREM CountCorrect == Spec => []CountIsStreak
BY InvAlways, PTL DEF Inv

\* The cooldown is measured from the last failure heard by anyone, until
\* methods cross.
THEOREM CooldownCorrect == Spec => []CooldownFromLastFailure
BY InvAlways, PTL DEF Inv

\* A half-open period lets through half_open_max_calls + 1 calls, neither more
\* nor, if they are asked for, fewer, until methods cross.
THEOREM HalfOpenCorrect == Spec => []HalfOpenAdmits
<1>1. Inv => HalfOpenAdmits
  BY BreakerAssumption DEF BreakerAssumption, Inv, TypeOK, ProbesCounted, HalfOpenAdmits, Allows, Breakers
<1> QED BY <1>1, InvAlways, PTL

\* A step that lets a call through an open breaker, or moves it out of open,
\* happens only once the last failure heard is more than a cooldown old, or
\* after methods crossed.
THEOREM GivesWayCorrect == Spec => GivesWayAfterCooldown
<1> DEFINE Step == cb.state = "open" /\ (cb'.state # "open" \/ \E c \in Callers : calls[c] # "inflight" /\ calls'[c] = "inflight")
                      => quiet > CooldownMs \/ crossed'
<1>1. ASSUME Inv, [Next]_vars PROVE [Step]_vars
  <2> USE BreakerAssumption, <1>1 DEF BreakerAssumption, Inv, TypeOK, CooldownElapsed
  <2>1. SUFFICES ASSUME cb.state = "open", ~ crossed', Next,
                        cb'.state # "open" \/ \E c \in Callers : calls[c] # "inflight" /\ calls'[c] = "inflight"
                 PROVE  quiet > CooldownMs
    BY DEF vars
  <2>2. PICK c \in Callers : Ask(c) \/ ResumeAsk(c) \/ Succeed(c) \/ ResumeSucceed(c)
    <3>1. ~ Tick
      BY <2>1 DEF Tick, Older, Breakers
    <3>2. ASSUME NEW c \in Callers, PauseAsk(c) \/ PauseSucceed(c) \/ Escape(c) PROVE FALSE
      BY <2>1, <3>2 DEF PauseAsk, PauseSucceed, Escape, Goes
    <3>3. ASSUME NEW c \in Callers, Fail(c) \/ PauseFail(c) \/ ResumeFail(c) PROVE FALSE
      BY <2>1, <3>3, MethodsKeepType DEF Fail, PauseFail, ResumeFail, Goes, AfterFailure, Breakers
    <3> QED BY <2>1, <3>1, <3>2, <3>3 DEF Next, End, Resume
  <2>3. CooldownElapsed(cb) /\ cb' # cb
    <3>1. CASE Ask(c)
      BY <2>1, <3>1 DEF Ask, Goes, AfterAllow, Allows, Breakers
    <3>2. CASE ResumeAsk(c) \/ ResumeSucceed(c)
      <4>1. ~ crossed /\ calls[c] \in {"asking", "closing"}
        BY <2>1, <3>2, NotCrossed DEF ResumeAsk, ResumeSucceed
      <4>2. CooldownElapsed(cb)
        BY <4>1 DEF PausedRightly
      <4>3. cb'.state # cb.state
        <5>1. CASE ResumeAsk(c)
          <6>1. cb' = [cb EXCEPT !.state = "half_open", !.probes = 0]
            BY <5>1 DEF ResumeAsk
          <6>2. cb'.state = "half_open"
            BY <6>1 DEF Breakers
          <6> QED BY <2>1, <6>2
        <5>2. CASE ResumeSucceed(c)
          <6>1. cb'.state = "closed"
            BY <5>2 DEF ResumeSucceed, NewBreaker
          <6> QED BY <2>1, <6>1
        <5> QED BY <3>2, <5>1, <5>2
      <4> QED BY <4>2, <4>3
    <3>3. CASE Succeed(c)
      BY <2>1, <3>3 DEF Succeed, Goes, AfterSuccess, Breakers
    <3> QED BY <2>2, <3>1, <3>2, <3>3
  <2>4. ~ crossed /\ \A d \in Callers : calls[d] # "stamping"
    BY <2>1, <2>2, <2>3, NotCrossed DEF Ask, ResumeAsk, Succeed, ResumeSucceed, Paused
  <2> QED BY <2>1, <2>3, <2>4 DEF CooldownFromLastFailure, Ages
<1>2. GivesWayAfterCooldown <=> [][Step]_vars
  BY PTL DEF GivesWayAfterCooldown
<1> QED BY <1>1, <1>2, InvAlways, PTL DEF Spec
=============================================================================
