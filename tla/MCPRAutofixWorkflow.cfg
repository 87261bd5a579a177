SPECIFICATION Spec
CONSTANTS
    Deliveries = {d1, d2}
    Updates = {u1, u2}
    MaxIterations = 2
    MaxExecutions = 2
    MaxContinueAsNew = 1
    MaxStatusComments = 2
SYMMETRY Symmetry
INVARIANTS
    TypeOK
    NeverHandedTwice
    BudgetKept
    PushedIsOnBranch
    NoOrphanApproval
    NothingLeftBehind
PROPERTIES
    PublicationIsGated
    PublicationIsKeyed
CHECK_DEADLOCK FALSE
