CONSTANTS
    Requests = {r1, r2}
    Steps = {1, 2}
    Budgets <- MCBudgets
    MaxFailures = 2
    MaxTOTPAttempts = 1
SYMMETRY Symmetry
SPECIFICATION Spec
INVARIANTS
    SessionsCutOff
    DevicesCutOff
    FactorSpentOnce
    OnePushAnswerable
    GuessesBounded
    EnabledIsProven
