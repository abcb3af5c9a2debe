SPECIFICATION FairSpec
CONSTANTS
    Boots = {b1}
    NoBoot = NoBoot
    w1 = w1
    Workers = {w1}
    WorkerOf <- OneWorker
    MaxAttempts = 1
    Publications = 1
    MaxCrashes = 1
    SavesFail = TRUE
    Reconnects = TRUE
PROPERTIES AcknowledgedSurvives DeathIsNoticed
