SPECIFICATION Spec
CONSTANTS
    r1 = r1
    r2 = r2
    NoRun = NoRun
    Run = {r1, r2}
    MaxInvs = 2
    AskTools = {"read"}
    AllowTools = {}
    ChildDenied = {}
    SessionId = {1, 2}
    Documents <- MCDocuments
    Outcomes = {"Completed", "Failed"}
    Cuts = {8, 14}
    MaxHighlight = 2
    Height = 5
    BrowserHeight = 1
    MaxMessages = 3
    MaxKeys = 2
INVARIANTS
    ScreenIsCurrent
    DrawnIsSaid
    StreamedAsCommitted
CHECK_DEADLOCK FALSE
