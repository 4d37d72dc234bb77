SPECIFICATION SessionSpec
CONSTANTS
    StoreTurns = 1
    CheckpointTurns = 2
    MandatoryTurns = 3
    Grace = 1
    HyperFocus = 2
    RulesInterval = 3
    Escalation = 2
    PeriodicTurns = 2
    Blocking = TRUE
    Suppress = TRUE
    Advisory = TRUE
    MaxTurns = 6
CHECK_DEADLOCK FALSE
INVARIANTS EscalationWasShown ObedienceGetsThrough StoresWaitForCheckpoint
PROPERTIES ReadsBlockNothing
