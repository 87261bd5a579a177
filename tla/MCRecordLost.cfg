SPECIFICATION Spec
CONSTANTS
    Deliveries = {d1}
    Updates = {u1}
    MaxIterations = 1
    MaxExecutions = 1
    MaxContinueAsNew = 0
    MaxStatusComments = 1
PROPERTY
    RecordedResultPersists
CHECK_DEADLOCK FALSE
