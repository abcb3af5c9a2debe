------------------------------ MODULE Lifecycle ------------------------------
(***************************************************************************)
(* The lifecycle states of a model version and the explicit successor      *)
(* table (src/src/lifecycle.cpp, src/include/mlf/lifecycle.hpp).  The rows  *)
(* keep the order of the table: the path search walks them in that order.  *)
(***************************************************************************)
EXTENDS Naturals, Sequences

LifecycleState ==
    {"REGISTERED", "VALIDATING", "PROMOTION_ELIGIBLE", "PROMOTION_BLOCKED",
     "CANARY_PENDING", "CANARY_ACTIVE", "CANARY_PASSED", "CANARY_FAILED",
     "ROLLOUT_ACTIVE", "PARTIALLY_PROMOTED", "CURRENT", "DRAINING",
     "ROLLBACK_PENDING", "ROLLING_BACK", "ROLLED_BACK",
     "RETIREMENT_PENDING", "RETIRED", "REVALIDATION_REQUIRED", "FAILED"}

\* kTransitions: the legal successors of every state, in table order.
Successors ==
    [REGISTERED |-> <<"VALIDATING", "PROMOTION_BLOCKED", "REVALIDATION_REQUIRED",
                      "RETIREMENT_PENDING", "FAILED">>,
     VALIDATING |-> <<"PROMOTION_ELIGIBLE", "PROMOTION_BLOCKED",
                      "REVALIDATION_REQUIRED", "RETIREMENT_PENDING", "FAILED">>,
     PROMOTION_ELIGIBLE |-> <<"CANARY_PENDING", "VALIDATING", "PROMOTION_BLOCKED",
                      "REVALIDATION_REQUIRED", "RETIREMENT_PENDING", "FAILED">>,
     PROMOTION_BLOCKED |-> <<"VALIDATING", "PROMOTION_ELIGIBLE",
                      "REVALIDATION_REQUIRED", "RETIREMENT_PENDING", "FAILED">>,
     CANARY_PENDING |-> <<"CANARY_ACTIVE", "CANARY_FAILED", "PROMOTION_BLOCKED",
                      "REVALIDATION_REQUIRED", "RETIREMENT_PENDING", "FAILED">>,
     CANARY_ACTIVE |-> <<"CANARY_PASSED", "CANARY_FAILED", "REVALIDATION_REQUIRED",
                      "ROLLBACK_PENDING", "RETIREMENT_PENDING", "FAILED">>,
     CANARY_PASSED |-> <<"ROLLOUT_ACTIVE", "PARTIALLY_PROMOTED", "CURRENT",
                      "CANARY_FAILED", "ROLLBACK_PENDING", "REVALIDATION_REQUIRED",
                      "DRAINING", "RETIREMENT_PENDING", "FAILED">>,
     CANARY_FAILED |-> <<"ROLLBACK_PENDING", "ROLLED_BACK", "DRAINING",
                      "RETIREMENT_PENDING", "REVALIDATION_REQUIRED", "FAILED">>,
     ROLLOUT_ACTIVE |-> <<"PARTIALLY_PROMOTED", "CURRENT", "ROLLBACK_PENDING",
                      "REVALIDATION_REQUIRED", "DRAINING", "RETIREMENT_PENDING",
                      "FAILED">>,
     PARTIALLY_PROMOTED |-> <<"ROLLOUT_ACTIVE", "CURRENT", "ROLLBACK_PENDING",
                      "DRAINING", "REVALIDATION_REQUIRED", "RETIREMENT_PENDING",
                      "FAILED">>,
     CURRENT |-> <<"PARTIALLY_PROMOTED", "ROLLBACK_PENDING", "DRAINING",
                      "REVALIDATION_REQUIRED", "RETIREMENT_PENDING", "FAILED">>,
     DRAINING |-> <<"ROLLED_BACK", "RETIREMENT_PENDING", "REVALIDATION_REQUIRED",
                      "FAILED">>,
     ROLLBACK_PENDING |-> <<"ROLLING_BACK", "ROLLED_BACK", "CURRENT",
                      "REVALIDATION_REQUIRED", "FAILED">>,
     ROLLING_BACK |-> <<"ROLLED_BACK", "REVALIDATION_REQUIRED", "FAILED">>,
     ROLLED_BACK |-> <<"DRAINING", "RETIREMENT_PENDING", "REVALIDATION_REQUIRED",
                      "FAILED">>,
     RETIREMENT_PENDING |-> <<"RETIRED", "DRAINING", "ROLLED_BACK",
                      "REVALIDATION_REQUIRED", "FAILED">>,
     RETIRED |-> <<>>,
     REVALIDATION_REQUIRED |-> <<"VALIDATING", "PROMOTION_ELIGIBLE",
                      "PROMOTION_BLOCKED", "DRAINING", "ROLLBACK_PENDING",
                      "RETIREMENT_PENDING", "FAILED">>,
     FAILED |-> <<"RETIREMENT_PENDING", "DRAINING", "RETIRED">>]

\* Mutant: a version that was rolled back is final too.
IsFinal(st) == st \in {"RETIRED", "ROLLED_BACK"}

\* is_terminal
IsTerminal(st) == st = "RETIRED"

\* is_transition_allowed
IsTransitionAllowed(from, to) ==
    /\ from # to
    /\ ~IsTerminal(from)
    /\ \E i \in DOMAIN Successors[from] : Successors[from][i] = to

\* is_promotable_from
IsPromotableFrom(st) ==
    st \in {"REGISTERED", "VALIDATING", "PROMOTION_ELIGIBLE", "REVALIDATION_REQUIRED"}

==============================================================================
