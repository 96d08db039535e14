CONSTANTS
    MaxMsgs = 2
    NoJob = NoJob
    Kinds = {"plain", "large", "malformed"}
    ActionLists <- MCActionLists
    maxDeferralAttempts = 2
    Budgets <- MCQuiet
    Events <- MCEvents
SPECIFICATION Spec
INVARIANT FailuresRetryable
