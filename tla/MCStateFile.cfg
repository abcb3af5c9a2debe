SPECIFICATION Spec
CONSTANTS
    MaxPayload = 6000
    MaxFacts = 1
    MaxStages = 2
    MaxCohorts = 2
    MaxHistory = 1
    MaxStageReasons = 1
    CommittedPerModel = 1
    MaxScopeName = 3
    MaxScopePath = 32
    MaxEnvironmentKey = 4
    MaxRecordDetail = 8
    MaxReasonDetail = 5
    MaxUnit = 1
    Size = 1
    BoundChoices <- RoomyAndTight
    InitialStates <- FreshOrFilled
    FreshState <- Fresh
    Additions <- RecordsAsked
    Policies <- PoliciesAsked
    StageRecords <- Decisions
    MaxGrowth = 1
    DamageAt = {10, 300}
    DamageBy = {20}
    RefuseStart = TRUE
INVARIANTS SavedFileLoads AllOrNothing
