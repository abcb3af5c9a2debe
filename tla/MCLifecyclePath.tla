--------------------------- MODULE MCLifecyclePath ---------------------------
(* Every (state, target) pair of advance_lifecycle_to.                       *)
EXTENDS LifecyclePath

MCEngineTargets ==
    {"CURRENT", "CANARY_PENDING", "CANARY_ACTIVE", "CANARY_FAILED", "DRAINING",
     "PARTIALLY_PROMOTED", "PROMOTION_BLOCKED", "RETIRED",
     "REVALIDATION_REQUIRED", "ROLLED_BACK"}
==============================================================================
