CONSTANTS
    MaxMsgs = 2
    NoJob = NoJob
    Kinds = {"plain", "large", "malformed"}
    ActionLists <- MCActionLists
    maxDeferralAttempts = 2
    Budgets <- MCBudgets
    Events <- MCEvents
SPECIFICATION Spec
INVARIANTS
    NothingSkipped
    OneCopyOfEach
    KeyKept
    DecidedOnce
PROPERTIES
    NothingLost
    EverythingSettles
