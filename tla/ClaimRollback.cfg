SPECIFICATION Spec
CONSTANTS
    Versions = {v1, v2}
    Scopes = {1}
    RolloutIds = {r1}
    NoRollout = NoRollout
    NoVersion = NoVersion
    ModelOf <- OneModel
    Subtree <- RootAndChildren
    MaxGeneration = 1
    MaxPromotions = 2
    MaxRollbacks = 1
    MaxBindings = 1
    Policies <- Automatic
    InitialPolicies <- Automatic
    PlanRequests <- RootOnly
    Verdicts = {"serving"}
    Restarts = FALSE
SYMMETRY Symmetry
PROPERTIES RollbackRestoresTarget
