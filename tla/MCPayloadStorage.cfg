SPECIFICATION Spec
CONSTANTS
    Peers = {"w1", "w2", "broker"}
    Coded = {"w1", "w2"}
    Contents = {"at", "over", "large"}
    Size <- MCSize
    Threshold = 2
    Lists <- MCLists
    Keys = {k1, k2, k3}
    MaxHistory = 2
INVARIANTS
    TypeOK
    OnlyLargeIsUnread
PROPERTIES
    HistoryIsAsMeant
SYMMETRY Symmetry
CHECK_DEADLOCK FALSE
