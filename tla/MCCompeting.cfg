SPECIFICATION Spec
CONSTANTS
    Versions = {v1, v2}
    Scopes = {1}
    RolloutIds = {r1, r2}
    NoRollout = NoRollout
    NoVersion = NoVersion
    ModelOf <- OneModel
    Subtree <- RootAndChildren
    MaxGeneration = 2
    MaxPromotions = 1
    MaxRollbacks = 0
    MaxBindings = 1
    Policies <- Open
    InitialPolicies <- Open
    PlanRequests <- RootWithoutTarget
    Verdicts = {"serving"}
    Restarts = FALSE
SYMMETRY Symmetry
CONSTRAINT OneRevision
INVARIANTS OneLivePlanPerCandidate SupersededPlanHoldsNothing LivePlanIsCurrent AuthorityWithinPlan
