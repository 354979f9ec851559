\* Two peers, two slots per MessageManager, three transmissions per request,
\* two requests from a to b and one from b to a, one lost datagram.
CONSTANTS
    a = a
    b = b
    Node <- MCNode
    NMsg = 2
    Retries = 3
    Budget <- MCBudget
    MaxLoss = 1
    NoReply = NoReply
SPECIFICATION Spec
INVARIANT TypeOK
PROPERTY RequestTerminates
CHECK_DEADLOCK FALSE
