SPECIFICATION Spec
CONSTANTS
    Boots = {b1, b2}
    NoBoot = NoBoot
    w1 = w1
    Workers = {w1}
    WorkerOf <- OneWorker
    MaxAttempts = 1
    Publications = 1
    MaxCrashes = 1
    SavesFail = FALSE
    Reconnects = TRUE
SYMMETRY Symmetry
INVARIANTS TypeOK InFlightHasPerformer ExecutedAtMostOnce OutcomeIsTrue
