SPECIFICATION Spec
CONSTANTS
    s1 = s1
    s2 = s2
    NoId = NoId
    Session = {s1, s2}
    MetaRec = {1, 3}
    TurnRec = {2}
    MaxVersion = 1
    AuthRequired = TRUE
    LegacySession = s1
    MaxFaults = 1
    MaxWork = 2
CHECK_DEADLOCK FALSE
INVARIANTS
    RoundTrip
    TranscriptIsOrdered
    TranscriptIsComplete
