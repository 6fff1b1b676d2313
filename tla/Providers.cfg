\* Two requests that may overlap, two mirrors of each provider, and one tick of
\* the clock, which an entry and the breaker outlive.
CONSTANTS
    TTL = 1
    MaxTime = 1
    Requests = {q1, q2}
    Mirrors = 2
    Cooldown = 1
SPECIFICATION Spec
INVARIANTS AnswerFollowsMirrors NoResponseLeaks
PROPERTIES BreakerFollowsEvidence ServedBookIsFresh FreshEntryStays EveryStepAdvances
