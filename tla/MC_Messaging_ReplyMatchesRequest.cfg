\* One request in each direction over an underlay that loses nothing.
CONSTANTS
    a = a
    b = b
    Node <- MCNode
    NMsg = 2
    Retries = 3
    Budget <- MCBudgetOne
    MaxLoss = 0
    NoReply = NoReply
SPECIFICATION Spec
INVARIANT ReplyMatchesRequest
CHECK_DEADLOCK FALSE
