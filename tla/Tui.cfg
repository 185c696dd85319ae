SPECIFICATION Spec
CONSTANTS
    Session = {s1, s2}
    NoSession = NoSession
    Stored = {s1}
    LeftAwaiting = {}
    Latest = {s2}
    MaxPrompts = 1
    MaxCancels = 1
    MaxLoads = 1
    MaxWords = 2
    MaxCalls = 1
    MayExit = TRUE
INVARIANTS
    AskIsHeld
    ShownIsSession
PROPERTIES
    NothingWaitsForEver
