\* The foreground is back from a child run to a parent that said nothing
SPECIFICATION Spec
CHECK_DEADLOCK FALSE
SYMMETRY RunSymmetry
CONSTANTS
    NoRun = NoRun
    r1 = r1
    r2 = r2
    Run = {r1, r2}
    MaxInvs = 2
    AskTools = {"read"}
    AllowTools = {"echo"}
    ChildDenied = {"task"}
    MaxTurns = 1
    MaxChan = 1
    MaxCrashes = 0
    Outcomes = {"ok"}
    ProviderTools = {"task", "echo"}
    Replies = {"Once", "Deny"}
    StoreMayFail = FALSE
INVARIANT ResumedRunSeesItsCalls
