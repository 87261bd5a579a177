SPECIFICATION Spec
CONSTANTS
    PRs <- MCPRs
    ALLOWED_REPOS <- MCAllowed
    APPROVER_LOGINS = {"ann"}
    Webhooks <- MCWebhooks
    MaxRedelivered = 1
    MaxExecutions = 2
INVARIANTS
    TypeOK
    OwnPushIgnored
    AcceptedIsTaken
    VerdictsAreAuthorized
    OnlyAllowedRepos
CHECK_DEADLOCK FALSE
