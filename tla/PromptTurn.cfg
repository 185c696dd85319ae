SPECIFICATION Spec
CONSTANTS
    NumPrompts = 2
    NumCancels = 1
    MaxText = 2
    MaxCalls = 2
    CancelDuring <- LastPrompt
    MayAnswer = {"Allow", "Deny", "Cancelled"}
CHECK_DEADLOCK FALSE
INVARIANTS
    AnswersItsOwnTurn
    NoOrphanTurn
    AnswerReachesAskedCall
    NothingUnsaid
PROPERTIES
    EveryRequestServed
