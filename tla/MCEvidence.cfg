SPECIFICATION Spec
CONSTANTS
    Versions = {v1}
    Scopes = {s1}
    Kinds = {"TestResult", "HealthCheck"}
    Boots = {b1}
    NoBoot = NoBoot
    MaxRecords = 2
    Publications <- FewPublications
    WritesMayFail = TRUE
    RenameMayFail = TRUE
    None = None
    MaxGeneration = 3
    MaxSequence = 3
    MaxCrashes = 1

INVARIANTS TypeOK StoreConsistent DropsAreVisible RevisionWithdrawsEvidence GateReadsTheLastWord NextPublicationAccepted AcknowledgedIsOnDisk
PROPERTIES EvictsOldestWhenFull
