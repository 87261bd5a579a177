SPECIFICATION FairSpec
CONSTANTS
    Workflows = {"w1"}
    MaxAttempts = 2
    MaxRestarts = 0
    Lookup = "raises"
PROPERTY
    OrphanReaped
CHECK_DEADLOCK FALSE
