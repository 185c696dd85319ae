\* Delegation, all replies, one crash, saves that fail
SPECIFICATION Spec
SYMMETRY RunSymmetry
CHECK_DEADLOCK FALSE
CONSTANTS
    NoRun = NoRun
    r1 = r1
    r2 = r2
    Run = {r1, r2}
    MaxInvs = 2
    AskTools = {"read"}
    AllowTools = {}
    ChildDenied = {}
    MaxTurns = 2
    MaxChan = 1
    MaxCrashes = 1
    Outcomes = {"ok", "error"}
    ProviderTools = {"task", "read"}
    Replies = {"Always", "Deny", "RejectAlways"}
    StoreMayFail = TRUE
INVARIANT RunsOnceApproved
INVARIANT DelegationIsLinked
INVARIANT TaskMirrorsChild
INVARIANT AwaitingIsAnswerable
PROPERTY GateImplemented
