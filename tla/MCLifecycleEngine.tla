-------------------------- MODULE MCLifecycleEngine --------------------------
(***************************************************************************)
(* Instances of the lifecycle engine: one model, one or two versions, a     *)
(* root scope alone or with one child, one or two rollout identities.       *)
(***************************************************************************)
EXTENDS LifecycleClaims, TLC

OneModel == [v \in Versions |-> "m"]
\* Scope 1 is the root, and every other scope its child.
RootAndChildren == [s \in Scopes |-> IF s = 1 THEN Scopes ELSE {s}]
Symmetry == Permutations(Versions) \cup Permutations(RolloutIds)

\* A bound on rollbacks: at most one version is rolled back, either of them.
OneRollback ==
    \A v, w \in DOMAIN versions :
        versions[v].rollbacks > 0 /\ versions[w].rollbacks > 0 => v = w

\* A bound on revisions: at most one version is revised, either of them.
OneRevision ==
    \A v, w \in DOMAIN versions :
        versions[v].generation > 1 /\ versions[w].generation > 1 => v = w

\* The defaults of LifecyclePolicy.
DefaultPolicy ==
    [split_traffic |-> TRUE, max_active |-> 2, require_target |-> TRUE,
     auto_rollback |-> FALSE, immediate |-> TRUE, supersede_inflight |-> TRUE,
     drain_after_commit |-> FALSE, retire_retained |-> FALSE]
\* A policy that allows everything the gates ask about.
OpenPolicy ==
    [DefaultPolicy EXCEPT !.require_target = FALSE, !.auto_rollback = TRUE,
                          !.drain_after_commit = TRUE, !.retire_retained = TRUE]
\* No coexistence: a canary is refused where anything is live, and a promotion
\* leaves the plans of other candidates running.
NarrowPolicy ==
    [DefaultPolicy EXCEPT !.split_traffic = FALSE, !.max_active = 1,
                          !.immediate = FALSE, !.supersede_inflight = FALSE]
\* The defaults, with automatic rollback.
AutomaticPolicy == [DefaultPolicy EXCEPT !.auto_rollback = TRUE]
Open == {OpenPolicy}
Automatic == {AutomaticPolicy}
DefaultAndNarrow == {DefaultPolicy, NarrowPolicy}

Stages(scopes) == [i \in DOMAIN scopes |-> [scopes |-> scopes[i], drain |-> FALSE]]
Request(scopes, t) ==
    [root |-> 1, stages |-> Stages(scopes), target |-> t, target_generation |-> 0,
     previous |-> NoVersion]

\* A canary in the child, then the root.
ChildThenRoot == {Request(<<{2}, {1}>>, t) : t \in Versions}
\* Both scopes in one stage: a refusal may come between the two grants.
BothAtOnce == {Request(<<{1, 2}>>, t) : t \in Versions}
\* The root in one stage, with and without a rollback target.
RootOnly == {Request(<<{1}>>, t) : t \in Versions}
RootWithoutTarget == {Request(<<{1}>>, NoVersion)}
==============================================================================
