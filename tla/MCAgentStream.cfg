SPECIFICATION FairSpec
CONSTANTS
    Kinds = {"assistant", "fixed", "abnormal", "scalar"}
    MaxLines = 2
    MaxErr = 1
INVARIANTS
    TypeOK
    LinesAreTheAgents
    PlanIsTheAgents
PROPERTY
    EndIsNoticed
CHECK_DEADLOCK FALSE
