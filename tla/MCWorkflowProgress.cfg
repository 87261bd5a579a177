SPECIFICATION FairSpec
CONSTANTS
    Deliveries = {d1, d2}
    Updates = {u1, u2}
    MaxIterations = 2
    MaxExecutions = 1
    MaxContinueAsNew = 0
    MaxStatusComments = 1
PROPERTIES
    Settles
    RequestEnds
    QueuedEventHandled
CHECK_DEADLOCK FALSE
