SPECIFICATION FairSpec
CONSTANTS
    Operations <- MCOperations
    MaxAttempts <- MCMaxAttempts
    MaxEdits = 2
    MaxForeign = 1
    MaxPrepares = 1
INVARIANTS
    TypeOK
    RetriesAddNothing
PROPERTIES
    PublicationIsKeyed
    DivergedIsFinal
    EveryPushEnds
CHECK_DEADLOCK FALSE
