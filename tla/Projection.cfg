SPECIFICATION Spec
CONSTANTS
    r1 = r1
    r2 = r2
    NoRun = NoRun
    Run = {r1, r2}
    MaxInvs = 2
    AskTools = {"read"}
    AllowTools = {}
    ChildDenied = {}
    Fidelity = {TRUE}
    MaxOutput = 3
    MaxLoads = 1
    MayCancel = TRUE
SYMMETRY RunSymmetry
CHECK_DEADLOCK FALSE
INVARIANTS
    LiveEqualsReplay
    AwaitingClientIsAsked
    TranscriptMirrorsRecords
    DrawnInOrder
