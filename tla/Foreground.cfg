\* Root runs only, with a crash and saves that fail: which run the session works on
SPECIFICATION Spec
SYMMETRY RunSymmetry
CHECK_DEADLOCK FALSE
CONSTANTS
    NoRun = NoRun
    r1 = r1
    r2 = r2
    Run = {r1, r2}
    MaxInvs = 2
    AskTools = {"read"}
    AllowTools = {"echo"}
    ChildDenied = {"task"}
    MaxTurns = 2
    MaxChan = 1
    MaxCrashes = 1
    Outcomes = {"ok", "error"}
    ProviderTools = {"read", "echo", "unsupported"}
    Replies = {"Once", "Deny"}
    StoreMayFail = TRUE
INVARIANT ForegroundIsLive
INVARIANT TypeOK
INVARIANT NoStrandedRun
INVARIANT RecoveryIsIdempotent
PROPERTY SettledRunsAreFrozen
