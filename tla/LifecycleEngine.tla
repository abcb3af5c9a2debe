---------------------------- MODULE LifecycleEngine ----------------------------
(***************************************************************************)
(* The lifecycle engine: versions, rollout plans, policy and the authority  *)
(* bindings, and every public operation that moves authority.  Each public  *)
(* method holds the engine mutex from its first check to its last write, so *)
(* each is one action.  A refused request changes nothing and is not a step; *)
(* the refusals that come AFTER a first write (a grant refused inside        *)
(* promote, begin_rollout or advance_stage) are steps: PromotionRefused,     *)
(* StageRefused, and the scopes that BeginRollout and AdvanceStage admit.    *)
(*                                                                           *)
(* Generations.  The model generation is kept as a number.  The scope,       *)
(* policy and compatibility generations are only ever compared for equality  *)
(* with the value a plan recorded, so a plan carries the set `moved` of the   *)
(* recorded generations that differ from the current one: exact, and finite. *)
(* A request that cites a stale generation, a stale epoch or a fenced worker  *)
(* is refused; the one path that ignores those checks, the failure path of    *)
(* advance_stage, is the action StageFailure and has no such guard.           *)
(***************************************************************************)
EXTENDS Lifecycle, AuthorityOps, FiniteSets

CONSTANTS
    Versions,         \* model version identities
    ModelOf,          \* the model each version belongs to
    Scopes,           \* scope identities, numbered by creation as in the code
    Subtree,          \* the scopes at or below a scope
    RolloutIds,       \* rollout identities (max_rollouts)
    NoRollout,        \* an unset RolloutId
    NoVersion,        \* an unset ModelVersionId
    MaxGeneration,    \* bound on the revisions of a version
    MaxPromotions,    \* bound on the promotions of a version
    MaxRollbacks,     \* bound on the rollbacks of a version
    MaxBindings,      \* max_authority_bindings
    Policies,         \* the lifecycle policies an operator may set
    InitialPolicies,  \* the ones an engine may be configured with
    PlanRequests,     \* the rollout plans an operator may submit
    Verdicts,         \* the compatibility verdicts that may be published
    Restarts          \* whether the coordinator is restarted

Policy == [split_traffic : BOOLEAN,      \* allow_split_traffic
           max_active : Nat,             \* max_active_generations_per_scope
           require_target : BOOLEAN,     \* require_rollback_target
           auto_rollback : BOOLEAN,      \* allow_automatic_rollback
           immediate : BOOLEAN,          \* allow_immediate_cutover
           supersede_inflight : BOOLEAN, \* supersede_inflight_rollout_on_new_promotion
           drain_after_commit : BOOLEAN, \* require_drain_after_stage_commit
           retire_retained : BOOLEAN]    \* allow_retirement_without_drain

Stage == [scopes : (SUBSET Scopes) \ {{}}, drain : BOOLEAN]

PlanRequest == [root : Scopes,
                stages : Seq(Stage) \ {<<>>},
                target : Versions \cup {NoVersion},
                target_generation : Nat,         \* 0: any
                previous : Versions \cup {NoVersion}]

ASSUME SentinelAssumption == NoRollout \notin RolloutIds /\ NoVersion \notin Versions
ASSUME ScopeAssumption ==
    Scopes \subseteq Nat /\ Subtree \in [Scopes -> SUBSET Scopes]
ASSUME BoundAssumption ==
    MaxGeneration \in Nat \ {0} /\ MaxPromotions \in Nat /\ MaxRollbacks \in Nat
ASSUME TableAssumption == MaxBindings \in Nat \ {0}
ASSUME PolicyAssumption ==
    Policies \subseteq Policy /\ InitialPolicies \subseteq Policies
ASSUME PlanRequestAssumption == PlanRequests \subseteq PlanRequest
ASSUME VerdictAssumption == Verdicts \subseteq {"serving", "incompatible"}

VARIABLES
    versions,   \* state.versions: registered version |-> its record
    rollouts,   \* state.rollouts: created rollout |-> its plan
    authority,  \* state.authority: the live bindings
    indexed,    \* <<version, scope>> for every binding in the table, live or not
    pushed,     \* AuthorityTable::size, live or not, counted up to MaxBindings
    policy      \* state.policy: the base policy

vars == <<versions, rollouts, authority, indexed, pushed, policy>>

\* compat: the published verdict for the target environment; "none" is an unset
\* compatibility_generation.  promotions and rollbacks are promotion_generation and
\* rollback_generation; last_promotion is set exactly when promotions > 0.
VersionRecord == [state : LifecycleState,
                  generation : 1..MaxGeneration,
                  compat : Verdicts \cup {"none"},
                  promotions : 0..MaxPromotions,
                  rollbacks : 0..MaxRollbacks]

\* decided: the history holds a decision other than Entered for the current stage
\* generation.  rolled_back: last_rollback is set.  unvalidated: the plan recorded an unset compatibility generation.
Plan == [candidate : Versions,
         generation : 1..MaxGeneration,
         request : PlanRequests,
         previous : Versions \cup {NoVersion},
         unvalidated : BOOLEAN,
         moved : SUBSET {"compat", "policy", "root"},
         index : Nat,
         entered : BOOLEAN,
         decided : BOOLEAN,
         completed : BOOLEAN,
         failed : BOOLEAN,
         superseded : BOOLEAN,
         rolled_back : BOOLEAN]

BindingRecord == [scope : Scopes, version : Versions, generation : 1..MaxGeneration,
                  kind : AuthorityKind, rollout : RolloutIds \cup {NoRollout}]

Init ==
    /\ versions = [v \in {} |-> v]
    /\ rollouts = [r \in {} |-> r]
    /\ authority = {}
    /\ indexed = {}
    /\ pushed = 0
    /\ policy \in InitialPolicies

------------------------------------------------------------------------------
(* Helpers *)

Retired(v) == versions[v].state = "RETIRED"

\* RolloutPlan::live
Live(p) == ~p.completed /\ ~p.failed /\ ~p.superseded

LivePlans == {r \in DOMAIN rollouts : Live(rollouts[r])}

\* Mutant: plans that were not begun are overlooked.
BegunPlansFor(v) == {r \in LivePlans : rollouts[r].candidate = v /\ rollouts[r].entered}

\* live_plans_for
LivePlansFor(v) == {r \in LivePlans : rollouts[r].candidate = v}

SameModel(v, w) == ModelOf[v] = ModelOf[w]

\* version_of / version_mut
Known(vs, v, w) == w \in DOMAIN vs /\ SameModel(v, w)

\* Mutant: the terminal state is left like any other.
AdvanceStateAlways(st, to) == to

\* advance_lifecycle_to: every target the engine passes is reachable from every
\* state but RETIRED (LifecyclePath, EngineTargetsAlwaysReached).
AdvanceState(st, to) == IF IsTerminal(st) THEN st ELSE to

Advance(vs, v, to) == [vs EXCEPT ![v].state = AdvanceState(@, to)]

\* ScopeRegistry::touch, as seen by a plan rooted there.
Touch(p, S) == IF p.request.root \in S THEN [p EXCEPT !.moved = @ \cup {"root"}] ELSE p

\* The compatibility generation of candidate v changes to a new value, or is unset.
\* Like the policy generation, it is only compared while the plan is live.
CompatibilityMoves(p, v, unset) ==
    IF p.candidate # v \/ ~Live(p) THEN p
    ELSE IF p.unvalidated /\ unset THEN [p EXCEPT !.moved = @ \ {"compat"}]
    ELSE [p EXCEPT !.moved = @ \cup {"compat"}]

\* check_plan_bindings
Stale(p) ==
    \/ Retired(p.candidate)
    \/ versions[p.candidate].generation # p.generation
    \/ p.moved # {}

\* The size of the table after a grant; beyond the bound every size is alike.
Filled(n) == IF n \in 0..MaxBindings THEN n ELSE MaxBindings

\* AuthorityTable::grant refuses the first binding of a scope once n bindings fill the
\* table.  A scope that ever had one, by the index ix, always gets more.
Room(ix, n, s) == n < MaxBindings \/ \E e \in ix : e[2] = s

Before(S, t) == {u \in S : u < t}

\* The prefix of S, in scope order, up to the first scope that refuses a Canary.
CanaryAdmitted(b, ix, n, S) ==
    {s \in S : \A t \in S : t <= s =>
        /\ policy.split_traffic \/ LiveAt(b, t) = {}
        /\ Room(ix, n + Cardinality(Before(S, t)), t)}

\* Mutant: the canary of a revised version carries the first generation.
CanaryGrantsFirstGeneration(S, v, g, r) == {Binding(s, v, 1, "Canary", r) : s \in S}

\* grant_authority without supersede_existing, for a canary
CanaryGrants(S, v, g, r) == {Binding(s, v, g, "Canary", r) : s \in S}

\* Mutant: a binding that promote() gave, outside any rollout, is not displaced.
DisplacedOfRollouts(b, S) ==
    {x \in b : x.scope \in S /\ x.kind = "Exclusive" /\ x.rollout # NoRollout}

\* The bindings replace_exclusive takes out of the scopes S.
Displaced(b, S) == UNION {ExclusiveAt(b, s) : s \in S}

\* ... and those of them it keeps for a rollback: the named target's.
Retained(b, vs, S, target, target_generation) ==
    {x \in Displaced(b, S) : /\ vs[x.version].state # "RETIRED"
                             /\ x.version = target
                             /\ target_generation \in {0, x.generation}}

\* grant_authority(..., supersede_existing): Exclusive authority over the scopes S
\* moves to v.
GrantExclusive(b, vs, v, S, r, target, target_generation) ==
    (b \ Displaced(b, S))
      \cup {Binding(s, v, vs[v].generation, "Exclusive", r) : s \in S}
      \cup {[d EXCEPT !.kind = "RollbackRetained"] :
              d \in Retained(b, vs, S, target, target_generation)}

\* The bindings this pushes: one for each scope, and the retained ones.
Pushes(b, vs, S, target, target_generation) ==
    Cardinality(S) + Cardinality(Retained(b, vs, S, target, target_generation))

\* ... and what it does to the versions it displaced, given the table `after`.
Displace(b, after, vs, S) ==
    [w \in DOMAIN vs |->
        IF w \notin {x.version : x \in Displaced(b, S)} THEN vs[w]
        ELSE IF ~HoldsExclusive(after, w)
             THEN [vs[w] EXCEPT !.state = AdvanceState(@, "DRAINING")]
        ELSE IF vs[w].state = "CURRENT"
             THEN [vs[w] EXCEPT !.state = "PARTIALLY_PROMOTED"]
        ELSE vs[w]]

Index(v, S) == {<<v, s>> : s \in S}

------------------------------------------------------------------------------
(* Registry *)

RegisterVersion(v) ==
    /\ v \notin DOMAIN versions
    /\ versions' = [w \in DOMAIN versions \cup {v} |->
                      IF w = v THEN [state |-> "REGISTERED", generation |-> 1,
                                     compat |-> "none", promotions |-> 0,
                                     rollbacks |-> 0]
                      ELSE versions[w]]
    /\ UNCHANGED <<rollouts, authority, indexed, pushed, policy>>

\* The record of a version after a material change: everything recorded about the
\* old generation must be established again.
Revised(n) ==
    [n EXCEPT !.generation = @ + 1,
              !.compat = "none",
              !.state = IF /\ @ \notin {"REGISTERED", "VALIDATING", "PROMOTION_BLOCKED"}
                           /\ IsTransitionAllowed(@, "REVALIDATION_REQUIRED")
                        THEN "REVALIDATION_REQUIRED" ELSE @]

\* revise_version with a material change.
ReviseVersion(v) ==
    /\ v \in DOMAIN versions
    /\ ~Retired(v)
    /\ versions[v].generation < MaxGeneration
    /\ LET fenced == LivePlansFor(v) IN
        /\ versions' = [versions EXCEPT ![v] = Revised(@)]
        /\ rollouts' = [r \in DOMAIN rollouts |->
                [CompatibilityMoves(rollouts[r], v, TRUE) EXCEPT
                    !.superseded = @ \/ r \in fenced]]
        /\ authority' = {x \in authority : x.rollout \notin fenced}
    /\ UNCHANGED <<indexed, pushed, policy>>

\* The record of a version once a verdict was published: any verdict becomes its
\* current compatibility.
Judged(n, verdict) ==
    [n EXCEPT !.compat = verdict,
              !.state = IF @ = "REGISTERED" THEN "VALIDATING" ELSE @]

\* publish_compatibility
PublishCompatibility(v, verdict) ==
    /\ v \in DOMAIN versions
    /\ ~Retired(v)
    /\ versions' = [versions EXCEPT ![v] = Judged(@, verdict)]
    /\ rollouts' = [r \in DOMAIN rollouts |-> CompatibilityMoves(rollouts[r], v, FALSE)]
    /\ UNCHANGED <<authority, indexed, pushed, policy>>

\* set_policy: the policy generation strictly increases.
SetPolicy(new) ==
    /\ policy' = new
    /\ rollouts' = [r \in DOMAIN rollouts |->
                        IF Live(rollouts[r])
                        THEN [rollouts[r] EXCEPT !.moved = @ \cup {"policy"}]
                        ELSE rollouts[r]]
    /\ UNCHANGED <<versions, authority, indexed, pushed>>

------------------------------------------------------------------------------
(* Promotion *)

\* The generations that would be active in the scope, the candidate's among them.
ProjectedGenerations(v, s) ==
    {<<x.version, x.generation>> :
        x \in {y \in LiveAt(authority, s) : y.kind # "RollbackRetained"}}
      \cup {<<v, versions[v].generation>>}

\* candidate_already_present: a candidate that is, is not counted.
CandidatePresent(v, s) ==
    \E x \in LiveAt(authority, s) : /\ x.kind # "RollbackRetained"
                                    /\ x.version = v
                                    /\ x.generation = versions[v].generation

\* evaluate_promotion_locked, less the checks that only refuse a request for
\* what it cites.  An unpublished environment may be judged by its profile.
PromotionAllowed(v, s, target, target_generation, cutover) ==
    /\ v \in DOMAIN versions
    /\ IsPromotableFrom(versions[v].state)
    /\ versions[v].compat # "incompatible"
    /\ IF target # NoVersion
       THEN /\ Known(versions, v, target)
            /\ ~Retired(target)
            /\ versions[target].compat # "none"
            /\ target_generation \in {0, versions[target].generation}
       ELSE policy.require_target =>
                \A x \in ExclusiveAt(authority, s) :
                    x.version = v /\ x.generation = versions[v].generation
    /\ LET projected == Cardinality(ProjectedGenerations(v, s))
                        - (IF CandidatePresent(v, s) THEN 1 ELSE 0) IN
        /\ projected <= policy.max_active
        /\ projected > 1 => policy.split_traffic \/ cutover
    /\ cutover => policy.immediate

\* The plans a new promotion of v supersedes.
InFlight(v) ==
    {r \in LivePlans : /\ policy.supersede_inflight
                       /\ SameModel(rollouts[r].candidate, v)
                       /\ rollouts[r].candidate # v}

NoLivePlanFor(v) == LivePlansFor(v) = {}

\* Superseding a set of plans: their records, and the versions they promoted.
SupersedePlans(rs) ==
    [q \in DOMAIN rollouts |->
        IF q \in rs
        THEN [rollouts[q] EXCEPT !.superseded = TRUE, !.entered = FALSE,
                                 !.decided = TRUE]
        ELSE rollouts[q]]

DrainCandidates(rs) ==
    [w \in DOMAIN versions |->
        IF \E q \in rs : rollouts[q].candidate = w
        THEN [versions[w] EXCEPT !.state = AdvanceState(@, "DRAINING")]
        ELSE versions[w]]

\* promote with immediate cutover: the candidate takes the scope at once.
PromoteImmediately(v, s, target, target_generation) ==
    /\ PromotionAllowed(v, s, target, target_generation, TRUE)
    /\ versions[v].promotions < MaxPromotions
    /\ NoLivePlanFor(v)
    /\ Room(indexed, pushed, s)
    /\ LET stopped == InFlight(v)
           before == {x \in authority : x.rollout \notin stopped}
           vs == [Advance(DrainCandidates(stopped), v, "CURRENT") EXCEPT ![v].promotions = @ + 1]
           after == GrantExclusive(before, vs, v, {s}, NoRollout, target, target_generation)
       IN
        /\ authority' = after
        /\ versions' = Displace(before, after, vs, {s})
        /\ rollouts' = [q \in DOMAIN rollouts |-> Touch(SupersedePlans(stopped)[q], {s})]
        /\ pushed' = Filled(pushed + Pushes(before, vs, {s}, target, target_generation))
    /\ indexed' = indexed \cup Index(v, {s})
    /\ UNCHANGED policy

\* ... unless the full table refuses the grant: the candidate is blocked, no promotion
\* is recorded, and the plans that were in flight stay superseded.
PromotionRefused(v, s, target, target_generation) ==
    /\ PromotionAllowed(v, s, target, target_generation, TRUE)
    /\ NoLivePlanFor(v)
    /\ ~Room(indexed, pushed, s)
    /\ LET stopped == InFlight(v) IN
        /\ authority' = {x \in authority : x.rollout \notin stopped}
        /\ versions' = Advance(DrainCandidates(stopped), v, "PROMOTION_BLOCKED")
        /\ rollouts' = SupersedePlans(stopped)
    /\ UNCHANGED <<indexed, pushed, policy>>

\* promote otherwise: the candidate awaits a rollout plan.  The cited generation of
\* the target has no effect here beyond the check that it is current.
PromoteToCanary(v, s, target) ==
    /\ PromotionAllowed(v, s, target, 0, FALSE)
    /\ versions[v].promotions < MaxPromotions
    /\ NoLivePlanFor(v)
    /\ LET stopped == InFlight(v) IN
        /\ authority' = {x \in authority : x.rollout \notin stopped}
        /\ versions' = [Advance(DrainCandidates(stopped), v, "CANARY_PENDING")
                            EXCEPT ![v].promotions = @ + 1]
        /\ rollouts' = SupersedePlans(stopped)
    /\ UNCHANGED <<indexed, pushed, policy>>

------------------------------------------------------------------------------
(* Rollout *)

\* The version a plan displaces: the one the request names, else the holder of the
\* first Exclusive binding below the root, of the same model and another version.
PreviousOf(v, req) ==
    LET held == {x \in authority : /\ x.kind = "Exclusive"
                                   /\ x.scope \in Subtree[req.root]
                                   /\ SameModel(x.version, v)
                                   /\ x.version # v}
    IN  IF req.previous # NoVersion THEN {req.previous}
        ELSE IF held = {} THEN {NoVersion}
        ELSE {x.version : x \in {y \in held : \A z \in held : y.scope <= z.scope}}

CreateRollout(v, req) ==
    /\ v \in DOMAIN versions
    /\ ~Retired(v)
    /\ versions[v].promotions > 0
    /\ versions[v].state \in {"CANARY_PENDING", "ROLLOUT_ACTIVE", "PARTIALLY_PROMOTED"}
    /\ NoLivePlanFor(v)
    /\ \A i \in DOMAIN req.stages : req.stages[i].scopes \subseteq Subtree[req.root]
    /\ \E r \in RolloutIds \ DOMAIN rollouts, previous \in PreviousOf(v, req) :
        rollouts' = [q \in DOMAIN rollouts \cup {r} |->
            IF q # r THEN rollouts[q]
            ELSE [candidate |-> v, generation |-> versions[v].generation,
                  request |-> req, previous |-> previous,
                  unvalidated |-> versions[v].compat = "none", moved |-> {},
                  index |-> 1, entered |-> FALSE, decided |-> FALSE,
                  completed |-> FALSE, failed |-> FALSE, superseded |-> FALSE,
                  rolled_back |-> FALSE]]
    /\ UNCHANGED <<versions, authority, indexed, pushed, policy>>

\* The plan takes the root scope's generation as it is now.
RefreshRoot(p) == [p EXCEPT !.moved = @ \ {"root"}]

\* begin_rollout: the first stage is entered, then its scopes are granted one by
\* one; a refusal returns at once and leaves what was granted.
BeginRollout(r) ==
    LET p == rollouts[r]
        v == p.candidate
        S == p.request.stages[1].scopes
        granted == CanaryAdmitted(authority, indexed, pushed, S)
        p1 == [Touch(p, granted) EXCEPT !.entered = TRUE]
    IN
    /\ Live(p)
    /\ ~p.entered
    /\ p.index = 1
    /\ ~Stale(p)
    /\ versions' = Advance(versions, v, "CANARY_ACTIVE")
    /\ authority' = authority \cup CanaryGrants(granted, v, versions[v].generation, r)
    /\ indexed' = indexed \cup Index(v, granted)
    /\ rollouts' = [q \in DOMAIN rollouts |->
            IF q # r THEN Touch(rollouts[q], granted)
            ELSE IF granted = S THEN RefreshRoot(p1) ELSE p1]
    /\ pushed' = Filled(pushed + Cardinality(granted))
    /\ UNCHANGED policy

\* Mutant: a plan whose stage was decided may still be advanced.
StageAdvanceAllowedLate(p) == p.entered /\ ~Stale(p)

\* evaluate_stage_advance_locked: the stage is entered, no decision was recorded for
\* its generation, and the plan still describes what it was made for.
StageAdvanceAllowed(p) == Live(p) /\ p.entered /\ ~p.decided /\ ~Stale(p)

LastStage(p) == p.index = Len(p.request.stages)

\* stage_scopes of the current stage, and of the one after it
StageScopes(p) == p.request.stages[p.index].scopes
NextStageScopes(p) == IF LastStage(p) THEN {} ELSE p.request.stages[p.index + 1].scopes

\* Whether the displaced version is drained once a stage is committed.
Drains(p) ==
    /\ p.request.stages[p.index].drain \/ policy.drain_after_commit
    /\ Known(versions, p.candidate, p.previous)

\* The bindings the scopes W of the current stage push as they become Exclusive.
StagePushes(p, W) ==
    Pushes(authority, versions, W, p.request.target, p.request.target_generation)

\* The prefix of the current stage, in scope order, up to the first scope that the
\* full table refuses.
ExclusiveAdmitted(p) ==
    {s \in StageScopes(p) : \A t \in StageScopes(p) : t <= s =>
        Room(indexed, pushed + StagePushes(p, Before(StageScopes(p), t)), t)}

\* The bindings once the scopes W of the current stage went to the candidate ...
StageGrant(r, W) ==
    LET p == rollouts[r] IN
    GrantExclusive(authority, versions, p.candidate, W, r,
                   p.request.target, p.request.target_generation)

\* ... and the displaced version was marked as draining there,
StageCommit(r, W) ==
    LET p == rollouts[r] IN
    IF Drains(p) THEN MarkDraining(StageGrant(r, W), p.previous, W) ELSE StageGrant(r, W)

\* ... and what that does to the versions other than the candidate.
StageVersions(r, W) ==
    LET p == rollouts[r]
        vs == Displace(authority, StageGrant(r, W), versions, W)
    IN  IF Drains(p) /\ W # {} THEN Advance(vs, p.previous, "DRAINING") ELSE vs

\* Mutant: the last stage does not complete the plan.
StageDoneForever(p) == [p EXCEPT !.index = @ + 1]

\* The plan after its stage was committed: completed, or in its next stage.
StageDone(p) ==
    IF LastStage(p) THEN [p EXCEPT !.completed = TRUE, !.entered = FALSE, !.decided = TRUE]
    ELSE [p EXCEPT !.index = @ + 1]

\* advance_stage, success path: the stage's scopes become Exclusive, then the plan is
\* complete or the next stage is entered, its scopes granted as begin_rollout does.
AdvanceStage(r) ==
    LET p == rollouts[r]
        v == p.candidate
        S == StageScopes(p)
        T == NextStageScopes(p)
        n == pushed + StagePushes(p, S)
        granted == CanaryAdmitted(StageCommit(r, S), indexed \cup Index(v, S), n, T)
        p1 == StageDone(Touch(p, S \cup granted))
    IN
    /\ StageAdvanceAllowed(p)
    /\ ExclusiveAdmitted(p) = S
    /\ authority' = StageCommit(r, S) \cup CanaryGrants(granted, v, versions[v].generation, r)
    /\ versions' = Advance(StageVersions(r, S), v,
                           IF LastStage(p) THEN "CURRENT" ELSE "PARTIALLY_PROMOTED")
    /\ indexed' = indexed \cup Index(v, S \cup granted)
    /\ pushed' = Filled(n + Cardinality(granted))
    /\ rollouts' = [q \in DOMAIN rollouts |->
            IF q # r THEN Touch(rollouts[q], S \cup granted)
            ELSE IF granted = T THEN RefreshRoot(p1) ELSE p1]
    /\ UNCHANGED policy

\* Mutant: the decision is recorded once the scopes were granted.
UndecidedYet(p) == p

\* The history records the decision to advance before any scope is granted.
Decided(p) == [p EXCEPT !.decided = TRUE]

\* ... unless the full table refuses a scope: the scopes before it are the candidate's
\* exclusively, and the plan stays in a stage whose decision is recorded.
StageRefused(r) ==
    LET p == rollouts[r]
        W == ExclusiveAdmitted(p)
    IN
    /\ StageAdvanceAllowed(p)
    /\ W # StageScopes(p)
    /\ authority' = StageCommit(r, W)
    /\ versions' = StageVersions(r, W)
    /\ indexed' = indexed \cup Index(p.candidate, W)
    /\ pushed' = Filled(pushed + StagePushes(p, W))
    /\ rollouts' = [q \in DOMAIN rollouts |->
            IF q = r THEN Decided(Touch(p, W)) ELSE Touch(rollouts[q], W)]
    /\ UNCHANGED policy

\* fail_stage
FailStage(r) ==
    LET p == rollouts[r] IN
    /\ Live(p)
    /\ p.entered
    /\ ~p.decided
    /\ rollouts' = [rollouts EXCEPT ![r] =
            [@ EXCEPT !.failed = TRUE, !.entered = FALSE, !.decided = TRUE]]
    /\ authority' = SupersedeRollout(authority, r)
    /\ versions' = Advance(versions, p.candidate, "CANARY_FAILED")
    /\ UNCHANGED <<indexed, pushed, policy>>

\* supersede_rollout: also of a plan that completed or failed.
SupersedePlan(r) ==
    /\ ~rollouts[r].superseded
    /\ rollouts' = SupersedePlans({r})
    /\ authority' = SupersedeRollout(authority, r)
    /\ versions' = DrainCandidates({r})
    /\ UNCHANGED <<indexed, pushed, policy>>

------------------------------------------------------------------------------
(* Rollback *)

\* Mutant: a retired version is accepted as a target.
RollbackTargetRetired(vs, v, target) ==
    Known(vs, v, target) /\ target # v /\ vs[target].compat # "none"

\* The target of a rollback: another version of the model, not retired, for which a
\* compatibility result was published, whatever it said.
RollbackTargetAllowed(vs, v, target) ==
    /\ Known(vs, v, target)
    /\ target # v
    /\ vs[target].state # "RETIRED"
    /\ vs[target].compat # "none"

\* evaluate_rollback_locked, for bindings b and versions vs
RollbackAllowed(b, vs, v, target, target_generation, s, r) ==
    /\ v \in DOMAIN vs
    /\ \E x \in LiveAt(b, s) : x.version = v /\ x.kind # "RollbackRetained"
    /\ r # NoRollout => /\ r \in DOMAIN rollouts
                        /\ rollouts[r].candidate = v
                        /\ ~rollouts[r].rolled_back
    /\ RollbackTargetAllowed(vs, v, target)
    /\ target_generation \in {0, vs[target].generation}

\* rollback: the whole scope is fenced and the target restored.  The scope has bindings,
\* so the full table does not refuse the grant.
Rollback(v, target, s, r) ==
    LET fenced == SupersedeScope(authority, s)
        restored == MarkDraining(GrantExclusive(fenced, versions, target, {s}, NoRollout,
                                                NoVersion, 0), v, {s})
        p == rollouts[r]
        p1 == IF Live(p) THEN [p EXCEPT !.failed = TRUE, !.entered = FALSE,
                                        !.decided = TRUE]
              ELSE p
    IN
    /\ RollbackAllowed(authority, versions, v, target, 0, s, r)
    /\ versions[v].rollbacks < MaxRollbacks
    /\ authority' = restored
    /\ versions' = [Advance(Advance(versions, target, "CURRENT"), v,
                            IF HoldsAuthority(restored, v) THEN "PARTIALLY_PROMOTED"
                            ELSE "ROLLED_BACK") EXCEPT ![v].rollbacks = @ + 1]
    /\ indexed' = indexed \cup Index(target, {s})
    /\ rollouts' = [q \in DOMAIN rollouts |->
            Touch(IF q = r THEN [p1 EXCEPT !.rolled_back = TRUE] ELSE rollouts[q], {s})]
    /\ pushed' = Filled(pushed + 1)
    /\ UNCHANGED policy

\* The plan of a failed stage.
StageFailed(p) == [p EXCEPT !.failed = TRUE, !.decided = TRUE]

\* advance_stage, failure path: a tripped failure criterion is committed whatever else
\* the gate refused, so this step has no guard on the plan.  Here no automatic rollback
\* follows: policy does not allow it, or the rollback's own gate refuses it, which it
\* always does for a request that cites a stale epoch or a fenced worker.
StageFailure(r) ==
    /\ rollouts' = [rollouts EXCEPT ![r] = StageFailed(@)]
    /\ authority' = SupersedeRollout(authority, r)
    /\ versions' = Advance(versions, rollouts[r].candidate, "CANARY_FAILED")
    /\ UNCHANGED <<indexed, pushed, policy>>

\* advance_stage, failure path with the automatic rollback that policy allows, in the
\* same commit.  The code grants the scope to the candidate's record, not the target's.
AutomaticRollback(r) ==
    LET p == rollouts[r]
        v == p.candidate
        root == p.request.root
        target == p.request.target
        withdrawn == SupersedeRollout(authority, r)
        failing == Advance(versions, v, "CANARY_FAILED")
    IN
    /\ policy.auto_rollback
    /\ "root" \notin p.moved
    /\ RollbackAllowed(withdrawn, failing, v, target, p.request.target_generation, root, r)
    /\ versions[v].rollbacks < MaxRollbacks
    /\ authority' = GrantExclusive(SupersedeScope(withdrawn, root), failing, v, {root},
                                   NoRollout, target, p.request.target_generation)
    /\ versions' = [Advance(Advance(failing, target, "CURRENT"), v, "ROLLED_BACK")
                        EXCEPT ![v].rollbacks = @ + 1]
    /\ indexed' = indexed \cup Index(v, {root})
    /\ rollouts' = [q \in DOMAIN rollouts |->
            Touch(IF q = r THEN [StageFailed(p) EXCEPT !.rolled_back = TRUE]
                  ELSE rollouts[q], {root})]
    /\ pushed' = Filled(pushed + 1)
    /\ UNCHANGED policy

------------------------------------------------------------------------------
(* Retirement and revalidation *)

\* Mutant: what the version serves is not looked at.
RetirementAllowedServing(v) ==
    /\ v \in DOMAIN versions
    /\ ~Retired(v)
    /\ \A r \in LivePlans : v \notin {rollouts[r].candidate, rollouts[r].request.target}

\* evaluate_retirement_locked
RetirementAllowed(v) ==
    /\ v \in DOMAIN versions
    /\ ~Retired(v)
    /\ \A r \in LivePlans : v \notin {rollouts[r].candidate, rollouts[r].request.target}
    /\ \A x \in authority : x.version = v =>
            x.kind = "RollbackRetained" /\ policy.retire_retained

Retire(v) ==
    /\ RetirementAllowed(v)
    /\ authority' = SupersedeVersion(authority, v)
    /\ versions' = Advance(versions, v, "RETIRED")
    /\ rollouts' = [q \in DOMAIN rollouts |->
            LET p == Touch(rollouts[q], {s \in Scopes : <<v, s>> \in indexed})
            IN  IF p.candidate = v THEN [p EXCEPT !.superseded = TRUE, !.entered = FALSE]
                ELSE p]
    /\ UNCHANGED <<indexed, pushed, policy>>

\* The scopes revalidate clears.
Revalidated(v) ==
    {x.scope : x \in {y \in authority : y.version = v /\ y.kind # "Exclusive"}}

Revalidate(v) ==
    /\ v \in DOMAIN versions
    /\ ~Retired(v)
    /\ versions' = [Advance(versions, v, "REVALIDATION_REQUIRED") EXCEPT ![v].compat = "none"]
    /\ authority' = {x \in authority : x.scope \notin Revalidated(v)}
    /\ rollouts' = [r \in DOMAIN rollouts |-> CompatibilityMoves(rollouts[r], v, TRUE)]
    /\ UNCHANGED <<indexed, pushed, policy>>

------------------------------------------------------------------------------
(* Restart *)

\* The checks deserialize_durable_state and import_durable_state make between the
\* sections of a state file, and the restore of the authority table, for what the
\* bindings b, versions vs and plans rs record.
Loadable(b, vs, rs) ==
    /\ \A r \in DOMAIN rs :
        /\ rs[r].candidate \in DOMAIN vs
        /\ Live(rs[r]) => rs[r].index \in DOMAIN rs[r].request.stages
    /\ \A x \in b :
        /\ x.version \in DOMAIN vs
        /\ vs[x.version].state # "RETIRED"
        /\ x.generation <= vs[x.version].generation
        /\ x.rollout # NoRollout => x.rollout \in DOMAIN rs
    /\ \A x, y \in b :
        (x.kind = "Exclusive" /\ y.kind = "Exclusive" /\ x.scope = y.scope) => x = y

\* LifecycleCoordinator::start, from the state the last request left in the file.
\* A file that does not load stops the coordinator, and a table with more live bindings
\* than the bound is never saved.  Superseded bindings are not saved either: the table
\* forgets where a version once was and shrinks to its live bindings, of which several
\* may agree in the fields kept here.
Restart ==
    /\ Restarts
    /\ Loadable(authority, versions, rollouts)
    /\ Cardinality(authority) <= MaxBindings
    /\ pushed' \in {n \in 0..pushed : Cardinality(authority) <= n}
    /\ indexed' = {<<x.version, x.scope>> : x \in authority}
    /\ UNCHANGED <<versions, rollouts, authority, policy>>

------------------------------------------------------------------------------

Next ==
    \/ \E v \in Versions : RegisterVersion(v)
    \/ \E v \in Versions : ReviseVersion(v)
    \/ \E v \in Versions, verdict \in Verdicts :
            PublishCompatibility(v, verdict)
    \/ \E new \in Policies : SetPolicy(new)
    \/ \E v \in Versions, s \in Scopes, t \in Versions \cup {NoVersion},
          generation \in 0..MaxGeneration : PromoteImmediately(v, s, t, generation)
    \/ \E v \in Versions, s \in Scopes, t \in Versions \cup {NoVersion},
          generation \in 0..MaxGeneration : PromotionRefused(v, s, t, generation)
    \/ \E v \in Versions, s \in Scopes, t \in Versions \cup {NoVersion} :
            PromoteToCanary(v, s, t)
    \/ \E v \in Versions, req \in PlanRequests : CreateRollout(v, req)
    \/ \E r \in DOMAIN rollouts : BeginRollout(r)
    \/ \E r \in DOMAIN rollouts : AdvanceStage(r)
    \/ \E r \in DOMAIN rollouts : StageRefused(r)
    \/ \E r \in DOMAIN rollouts : FailStage(r)
    \/ \E r \in DOMAIN rollouts : SupersedePlan(r)
    \/ \E v, t \in Versions, s \in Scopes, r \in DOMAIN rollouts \cup {NoRollout} :
            Rollback(v, t, s, r)
    \/ \E r \in DOMAIN rollouts : StageFailure(r)
    \/ \E r \in DOMAIN rollouts : AutomaticRollback(r)
    \/ \E v \in Versions : Retire(v)
    \/ \E v \in Versions : Revalidate(v)
    \/ Restart

Spec == Init /\ [][Next]_vars

------------------------------------------------------------------------------
(* Properties *)

\* Every variable has its type, and the current stage of a plan exists.
TypeOK ==
    /\ DOMAIN versions \subseteq Versions
    /\ versions \in [DOMAIN versions -> VersionRecord]
    /\ DOMAIN rollouts \subseteq RolloutIds
    /\ rollouts \in [DOMAIN rollouts -> Plan]
    /\ \A r \in DOMAIN rollouts : rollouts[r].index \in DOMAIN rollouts[r].request.stages
    /\ authority \subseteq BindingRecord
    /\ indexed \subseteq (Versions \X Scopes)
    /\ pushed \in 0..MaxBindings
    /\ policy \in Policies

\* A scope holds at most one Exclusive binding, whatever mix of promotions, stage
\* advances, rollbacks and failures ran: query_authority never finds a scope
\* AMBIGUOUS (README, "Version coexistence").
SingleExclusive ==
    \A x, y \in authority :
        (x.kind = "Exclusive" /\ y.kind = "Exclusive" /\ x.scope = y.scope) => x = y

\* A retired version holds no binding of any kind: nothing late (a stage advance, a
\* rollback, an automatic rollback) finds or recreates authority for it.
RetiredHoldsNothing ==
    \A x \in authority : x.version \in DOMAIN versions /\ ~Retired(x.version)

\* Whatever requests were made, the coordinator can be restarted from the state they
\* left: the engine never exports a state that its own recovery refuses.
StateIsRestorable == Loadable(authority, versions, rollouts)

\* Retirement is final: no operation changes the record of a retired version, so it
\* is never promoted, revised, revalidated, rolled back to or failed.
RetirementIsFinal ==
    [][\A v \in DOMAIN versions : Retired(v) => versions'[v] = versions[v]]_vars

\* A version never has two live plans, so two rollouts never compete for the same
\* candidate.
OneLivePlanPerCandidate ==
    \A q, r \in LivePlans : rollouts[q].candidate = rollouts[r].candidate => q = r

\* A live plan always describes the version as it is: a revision or a retirement of
\* the candidate has fenced every plan made before it.
LivePlanIsCurrent ==
    \A r \in LivePlans :
        /\ rollouts[r].candidate \in DOMAIN versions
        /\ ~Retired(rollouts[r].candidate)
        /\ versions[rollouts[r].candidate].generation = rollouts[r].generation

\* Superseding a plan withdraws all of its authority, and none of it comes back: no
\* binding, not even one retained for rollback, carries a superseded rollout.
SupersededPlanHoldsNothing ==
    \A r \in DOMAIN rollouts : rollouts[r].superseded => \A x \in authority : x.rollout # r

\* Whether the advance of stage i of plan p was decided.
StageDecided(p, i) == i < p.index \/ (i = p.index /\ p.decided)

\* Authority that carries a rollout stays inside the plan: it belongs to the plan's
\* candidate at the plan's generation, below the plan's root, in a stage already
\* entered.  It is exclusive only in a stage whose advance was decided, in which no
\* later completion is accepted: also when the full table refused a scope in the
\* middle of that advance, and left the stage half granted.
AuthorityWithinPlan ==
    \A x \in authority : x.rollout # NoRollout =>
        /\ x.rollout \in DOMAIN rollouts
        /\ LET p == rollouts[x.rollout] IN
            /\ x.version = p.candidate
            /\ x.generation = p.generation
            /\ x.scope \in Subtree[p.request.root]
            /\ \E i \in 1..p.index :
                /\ x.scope \in p.request.stages[i].scopes
                /\ x.kind = "Exclusive" => StageDecided(p, i)

\* A plan that is no longer live stays so, and never moves to another stage.
PlanDeathIsFinal ==
    [][\A r \in DOMAIN rollouts :
        ~Live(rollouts[r]) => /\ ~Live(rollouts'[r])
                              /\ rollouts'[r].index = rollouts[r].index]_vars

\* A late or repeated stage completion gains nothing: serving authority that carries
\* a rollout appears only in a step taken while that plan is live.
OnlyLivePlansGainAuthority ==
    [][\A x \in authority' \ authority :
        (x.rollout # NoRollout /\ x.kind \in {"Exclusive", "Canary"}) =>
            x.rollout \in LivePlans]_vars

------------------------------------------------------------------------------
(* Refinement: what query_authority reports for a scope of its own. *)

Serving ==
    [s \in Scopes |-> IF ExclusiveAt(authority, s) = {} THEN NoVersion
                      ELSE (CHOOSE x \in ExclusiveAt(authority, s) : TRUE).version]

RetiredVersions == {v \in DOMAIN versions : Retired(v)}

Abstract == INSTANCE ServingAuthority WITH serving <- Serving, retired <- RetiredVersions

\* The engine implements ServingAuthority: every operation, failure and automatic
\* rollback included, hands scopes to at most one version, never to a retired one,
\* and retires a version only while it serves nothing.
ImplementsServingAuthority == Abstract!Spec

==============================================================================
