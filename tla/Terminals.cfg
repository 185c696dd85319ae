SPECIFICATION Spec
CONSTANTS
    Session = {"s1", "s2"}
    MaxTerminals = 1
    MaxRequests = 2
    MaxChars = 2
    Limit = 3
INVARIANTS
    BufferIsLongestEnd
    AnsweredWaitHasOutput
PROPERTIES
    KillIsServed
