SPECIFICATION FairSpec
CONSTANTS
    Workflows = {"w1", "w2"}
    MaxAttempts = 3
    MaxRestarts = 1
    Lookup = "answers"
INVARIANTS
    TypeOK
    RunningHasItsSandbox
    SandboxIsBound
    KnownSandboxIsGone
PROPERTY
    OrphanReaped
CHECK_DEADLOCK FALSE
