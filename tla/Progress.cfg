\* Root runs only, nothing fails but tools and streams: a prompt is never left hanging
SPECIFICATION FairSpec
CHECK_DEADLOCK FALSE
CONSTANTS
    NoRun = NoRun
    r1 = r1
    r2 = r2
    Run = {r1, r2}
    MaxInvs = 2
    AskTools = {"read"}
    AllowTools = {}
    ChildDenied = {"task"}
    MaxTurns = 2
    MaxChan = 1
    MaxCrashes = 0
    Outcomes = {"ok", "inaccessible"}
    ProviderTools = {"read", "unsupported"}
    Replies = {"Once", "Deny"}
    StoreMayFail = FALSE
INVARIANTS
    ResumedRunSeesItsCalls
PROPERTIES
    RunSettles
