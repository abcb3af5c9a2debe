SPECIFICATION Spec
CONSTANTS
    Versions = {v1, v2}
    Scopes = {1, 2}
    RolloutIds = {r1}
    NoRollout = NoRollout
    NoVersion = NoVersion
    ModelOf <- OneModel
    Subtree <- RootAndChildren
    MaxGeneration = 1
    MaxPromotions = 1
    MaxRollbacks = 1
    MaxBindings = 2
    Policies <- Open
    InitialPolicies <- Open
    PlanRequests <- ChildThenRoot
    Verdicts = {"serving"}
    Restarts = FALSE
SYMMETRY Symmetry
INVARIANTS TypeOK SingleExclusive
PROPERTIES PlanDeathIsFinal OnlyLivePlansGainAuthority ImplementsServingAuthority
