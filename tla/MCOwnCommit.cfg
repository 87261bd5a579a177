SPECIFICATION Spec
CONSTANTS
    Deliveries = {d1, d2}
    Updates = {u1, u2}
    MaxIterations = 1
    MaxExecutions = 2
    MaxContinueAsNew = 0
    MaxStatusComments = 1
INVARIANT
    ApprovedIsPushed
CHECK_DEADLOCK FALSE
