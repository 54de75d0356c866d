\* Six kinds of box, a cap of one tick and a dead-man of two.  The box may
\* stay on with nothing armed, and the launcher's part ends.
SPECIFICATION Spec
CHECK_DEADLOCK FALSE
CONSTANTS
    None = None
    Specs <- MCSpecs
    Cap = 1
    Deadman = 2
    Delay = 1
    MaxLines = 2
    Objects = {config, output}
    StagingDays = 1
    EvidenceDays = 3
    Days <- MCDays
    MaxAttempts = 3
    PerAttempt = 2
    Budgets <- MCBudgets
INVARIANTS
    KillIsNamed
    EvidenceSurvives
PROPERTIES
    LogNeverShrinks
    RelaunchIsEarned
    BoxEnds
