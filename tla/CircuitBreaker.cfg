\* Three callers, one of which may end silently; two failures open the breaker,
\* one tick is the whole cooldown.
SPECIFICATION FairSpec
CONSTANTS
    None = None
    Callers = {c1, c2, c3}
    Silent = {c3}
    Preempted = {c1, c2, c3}
    FailureThreshold = 2
    CooldownMs = 1
    HalfOpenMaxCalls = 1
INVARIANTS CountIsStreak CooldownFromLastFailure 
PROPERTIES GivesWayAfterCooldown HealsOnceFailuresStop
