---------------------------- MODULE LifecycleClaims ----------------------------
(***************************************************************************)
(* What the documentation says about the lifecycle engine and its code does  *)
(* not keep: the property of a run that TLC refutes.                        *)
(***************************************************************************)
EXTENDS LifecycleEngine

\* README, "Rollback": it "grants exclusive authority to the target and advances it
\* to CURRENT".  The automatic rollback of advance_stage grants it to the candidate.
RollbackRestoresTarget ==
    [][\A r \in DOMAIN rollouts : (~rollouts[r].rolled_back /\ rollouts'[r].rolled_back) =>
        \E t \in DOMAIN versions : /\ t # rollouts[r].candidate
                                   /\ versions'[t].state = "CURRENT"
                                   /\ HoldsExclusive(authority', t)]_vars

================================================================================
