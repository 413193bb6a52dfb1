SPECIFICATION BreakerSpec
CONSTANTS
    Requests = {q1, q2}
    Fallbacks = 2
    Threshold = 2
    Cooldown = 1
    MaxTime = 2
    Never = Never
INVARIANTS OneVoice ErrorsAreExhaustive BreakerConsistent
