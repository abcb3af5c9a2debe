SPECIFICATION Spec
CONSTANTS
    Versions = {v1, v2}
    Scopes = {1, 2}
    RolloutIds = {r1}
    NoRollout = NoRollout
    NoVersion = NoVersion
    ModelOf <- OneModel
    Subtree <- RootAndChildren
    MaxGeneration = 1
    MaxPromotions = 1
    MaxRollbacks = 1
    MaxBindings = 2
    Policies <- Automatic
    InitialPolicies <- Automatic
    PlanRequests <- RootOnly
    Verdicts = {"serving"}
    Restarts = TRUE
SYMMETRY Symmetry
CONSTRAINT OneRollback
INVARIANTS StateIsRestorable
PROPERTIES ImplementsServingAuthority
