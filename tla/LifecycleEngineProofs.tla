------------------------- MODULE LifecycleEngineProofs -------------------------
(***************************************************************************)
(* Theorems about the lifecycle engine, for any versions, scopes, rollouts,  *)
(* policies and plan requests.                                               *)
(***************************************************************************)
EXTENDS LifecycleEngine, TLAPS

------------------------------------------------------------------------------
(* What the helpers preserve. *)

\* advance_lifecycle_to keeps the table of versions well typed.
LEMMA AdvanceType ==
    ASSUME NEW D, NEW vs \in [D -> VersionRecord], NEW v, NEW to \in LifecycleState
    PROVE  /\ Advance(vs, v, to) \in [D -> VersionRecord]
           /\ DOMAIN Advance(vs, v, to) = D
  BY DEF Advance, AdvanceState, VersionRecord

\* Replacing one record of the table of versions.
LEMMA UpdateType ==
    ASSUME NEW D, NEW vs \in [D -> VersionRecord], NEW v, NEW n \in VersionRecord
    PROVE  /\ [vs EXCEPT ![v] = n] \in [D -> VersionRecord]
           /\ DOMAIN [vs EXCEPT ![v] = n] = D
  OBVIOUS

LEMMA States ==
    {"REGISTERED", "VALIDATING", "REVALIDATION_REQUIRED", "CURRENT", "CANARY_PENDING",
     "CANARY_ACTIVE", "CANARY_FAILED", "DRAINING", "PARTIALLY_PROMOTED", "ROLLED_BACK",
     "PROMOTION_BLOCKED", "RETIRED"} \subseteq LifecycleState
  BY DEF LifecycleState

LEMMA TouchType ==
    ASSUME NEW p \in Plan, NEW S
    PROVE  /\ Touch(p, S) \in Plan
           /\ Touch(p, S).index = p.index
           /\ Touch(p, S).request = p.request
  BY DEF Touch, Plan

LEMMA CompatibilityMovesType ==
    ASSUME NEW p \in Plan, NEW v, NEW unset \in BOOLEAN
    PROVE  /\ CompatibilityMoves(p, v, unset) \in Plan
           /\ CompatibilityMoves(p, v, unset).index = p.index
           /\ CompatibilityMoves(p, v, unset).request = p.request
  BY DEF CompatibilityMoves, Plan

LEMMA DisplaceType ==
    ASSUME NEW D, NEW vs \in [D -> VersionRecord], NEW b, NEW after, NEW S
    PROVE  /\ Displace(b, after, vs, S) \in [D -> VersionRecord]
           /\ DOMAIN Displace(b, after, vs, S) = D
  BY States DEF Displace, AdvanceState, VersionRecord

LEMMA DrainCandidatesType ==
    ASSUME TypeOK, NEW rs
    PROVE  /\ DrainCandidates(rs) \in [DOMAIN versions -> VersionRecord]
           /\ DOMAIN DrainCandidates(rs) = DOMAIN versions
  BY States DEF DrainCandidates, AdvanceState, VersionRecord, TypeOK

LEMMA SupersedePlansType ==
    ASSUME TypeOK, NEW rs
    PROVE  /\ SupersedePlans(rs) \in [DOMAIN rollouts -> Plan]
           /\ DOMAIN SupersedePlans(rs) = DOMAIN rollouts
           /\ \A q \in DOMAIN rollouts : /\ SupersedePlans(rs)[q].index = rollouts[q].index
                                         /\ SupersedePlans(rs)[q].request = rollouts[q].request
  <1>1. \A p \in Plan : [p EXCEPT !.superseded = TRUE, !.entered = FALSE, !.decided = TRUE] \in Plan
    BY DEF Plan
  <1>2. \A q \in DOMAIN rollouts : rollouts[q] \in Plan
    BY DEF TypeOK
  <1>3. ASSUME NEW q \in DOMAIN rollouts
        PROVE  /\ SupersedePlans(rs)[q] \in Plan
               /\ SupersedePlans(rs)[q].index = rollouts[q].index
               /\ SupersedePlans(rs)[q].request = rollouts[q].request
    <2>1. CASE q \in rs  BY <1>1, <1>2, <2>1 DEF SupersedePlans, Plan
    <2>2. CASE q \notin rs  BY <1>2, <2>2 DEF SupersedePlans
    <2> QED  BY <2>1, <2>2
  <1> QED  BY <1>3 DEF SupersedePlans

LEMMA GrantExclusiveType ==
    ASSUME NEW b \in SUBSET BindingRecord, NEW vs, NEW v \in Versions,
           vs[v].generation \in 1..MaxGeneration, NEW S \in SUBSET Scopes,
           NEW r \in RolloutIds \cup {NoRollout}, NEW t, NEW g
    PROVE  GrantExclusive(b, vs, v, S, r, t, g) \in SUBSET BindingRecord
  BY DEF GrantExclusive, Retained, Displaced, ExclusiveAt, LiveAt, Binding, BindingRecord, AuthorityKind

LEMMA CanaryGrantsType ==
    ASSUME NEW S \in SUBSET Scopes, NEW v \in Versions, NEW g \in 1..MaxGeneration,
           NEW r \in RolloutIds \cup {NoRollout}
    PROVE  CanaryGrants(S, v, g, r) \in SUBSET BindingRecord
  BY DEF CanaryGrants, Binding, BindingRecord, AuthorityKind

LEMMA MarkDrainingType ==
    ASSUME NEW b \in SUBSET BindingRecord, NEW v, NEW S
    PROVE  MarkDraining(b, v, S) \in SUBSET BindingRecord
  BY DEF MarkDraining, BindingRecord, AuthorityKind

LEMMA PlanRequestType ==
    ASSUME NEW p \in Plan
    PROVE  /\ p.request \in PlanRequests
           /\ p.request.root \in Scopes
           /\ p.request.stages \in Seq(Stage)
           /\ 1 \in DOMAIN p.request.stages
           /\ \A i \in DOMAIN p.request.stages : p.request.stages[i].scopes \in SUBSET Scopes
  <1>1. p.request \in PlanRequests  BY DEF Plan
  <1>2. p.request \in PlanRequest  BY <1>1, PlanRequestAssumption
  <1>3. /\ p.request.root \in Scopes
        /\ p.request.stages \in Seq(Stage)
        /\ p.request.stages # <<>>
    BY <1>2 DEF PlanRequest
  <1>4. \A i \in DOMAIN p.request.stages : p.request.stages[i] \in Stage  BY <1>3
  <1>5. 1 \in DOMAIN p.request.stages  BY <1>3
  <1> QED  BY <1>1, <1>3, <1>4, <1>5 DEF Stage

------------------------------------------------------------------------------
(* Type correctness. *)

\* The size of the table is counted up to its bound.
LEMMA FilledType ==
    ASSUME NEW n
    PROVE  Filled(n) \in 0..MaxBindings
  BY TableAssumption DEF Filled

LEMMA TypeInit == Init => TypeOK
  BY PolicyAssumption, TableAssumption DEF Init, TypeOK

LEMMA RegisterVersionType ==
    ASSUME TypeOK, NEW v \in Versions, RegisterVersion(v)
    PROVE  TypeOK'
  <1>1. 1 \in 1..MaxGeneration /\ 0 \in 0..MaxPromotions /\ 0 \in 0..MaxRollbacks
    BY BoundAssumption
  <1>2. [state |-> "REGISTERED", generation |-> 1, compat |-> "none",
         promotions |-> 0, rollbacks |-> 0] \in VersionRecord
    BY <1>1, States DEF VersionRecord
  <1> QED  BY <1>2 DEF TypeOK, RegisterVersion

LEMMA ReviseVersionType ==
    ASSUME TypeOK, NEW v \in Versions, ReviseVersion(v)
    PROVE  TypeOK'
  <1>1. versions' \in [DOMAIN versions -> VersionRecord] /\ DOMAIN versions' = DOMAIN versions
    <2>1. versions[v] \in VersionRecord  BY DEF TypeOK, ReviseVersion
    <2>2. versions[v].generation + 1 \in 1..MaxGeneration
      BY <2>1, BoundAssumption DEF ReviseVersion, VersionRecord
    <2>3. Revised(versions[v]) \in VersionRecord
      BY <2>1, <2>2, States DEF Revised, VersionRecord
    <2>4. versions' = [versions EXCEPT ![v] = Revised(versions[v])]  BY DEF ReviseVersion
    <2> QED  BY <2>3, <2>4, UpdateType DEF TypeOK
  <1>2. ASSUME NEW q \in DOMAIN rollouts
        PROVE  /\ rollouts'[q] \in Plan
               /\ rollouts'[q].index = rollouts[q].index
               /\ rollouts'[q].request = rollouts[q].request
    <2> DEFINE p == CompatibilityMoves(rollouts[q], v, TRUE)
    <2>1. rollouts[q] \in Plan  BY DEF TypeOK
    <2>2. p \in Plan /\ p.index = rollouts[q].index /\ p.request = rollouts[q].request
      BY <2>1, CompatibilityMovesType
    <2>3. p.superseded \in BOOLEAN  BY <2>2 DEF Plan
    <2>4. \A fenced : [p EXCEPT !.superseded = @ \/ q \in fenced] \in Plan
      BY <2>2, <2>3 DEF Plan
    <2>5. \A fenced : LET n == [p EXCEPT !.superseded = @ \/ q \in fenced]
                      IN  n.index = p.index /\ n.request = p.request
      BY <2>2 DEF Plan
    <2> QED  BY <2>2, <2>4, <2>5 DEF ReviseVersion
  <1>3. DOMAIN rollouts' = DOMAIN rollouts /\ rollouts' \in [DOMAIN rollouts -> Plan]
    BY <1>2 DEF ReviseVersion
  <1>4. authority' \subseteq BindingRecord  BY DEF TypeOK, ReviseVersion
  <1> QED  BY <1>1, <1>2, <1>3, <1>4 DEF TypeOK, ReviseVersion

LEMMA CompatibilityType ==
    ASSUME TypeOK, NEW v \in Versions, NEW unset \in BOOLEAN,
           versions' \in [DOMAIN versions -> VersionRecord], DOMAIN versions' = DOMAIN versions,
           rollouts' = [r \in DOMAIN rollouts |-> CompatibilityMoves(rollouts[r], v, unset)],
           authority' \subseteq authority, UNCHANGED <<indexed, pushed, policy>>
    PROVE  TypeOK'
  <1>1. ASSUME NEW q \in DOMAIN rollouts
        PROVE  /\ rollouts'[q] \in Plan
               /\ rollouts'[q].index = rollouts[q].index
               /\ rollouts'[q].request = rollouts[q].request
    BY CompatibilityMovesType DEF TypeOK
  <1>2. DOMAIN rollouts' = DOMAIN rollouts /\ rollouts' \in [DOMAIN rollouts -> Plan]
    BY <1>1
  <1> QED  BY <1>1, <1>2 DEF TypeOK

LEMMA PublishCompatibilityType ==
    ASSUME TypeOK, NEW v \in Versions, NEW verdict \in Verdicts,
           PublishCompatibility(v, verdict)
    PROVE  TypeOK'
  <1>1. versions' \in [DOMAIN versions -> VersionRecord] /\ DOMAIN versions' = DOMAIN versions
    <2>1. versions[v] \in VersionRecord  BY DEF TypeOK, PublishCompatibility
    <2>2. Judged(versions[v], verdict) \in VersionRecord
      BY <2>1, States DEF Judged, VersionRecord
    <2>3. versions' = [versions EXCEPT ![v] = Judged(versions[v], verdict)]
      BY DEF PublishCompatibility
    <2> QED  BY <2>2, <2>3, UpdateType DEF TypeOK
  <1> QED  BY <1>1, CompatibilityType DEF PublishCompatibility

LEMMA RevalidateType ==
    ASSUME TypeOK, NEW v \in Versions, Revalidate(v)
    PROVE  TypeOK'
  <1> DEFINE vs == Advance(versions, v, "REVALIDATION_REQUIRED")
  <1>1. vs \in [DOMAIN versions -> VersionRecord] /\ DOMAIN vs = DOMAIN versions
    BY AdvanceType, States DEF TypeOK
  <1>2. versions' = [vs EXCEPT ![v].compat = "none"]  BY DEF Revalidate
  <1>3. versions' \in [DOMAIN versions -> VersionRecord] /\ DOMAIN versions' = DOMAIN versions
    <2> HIDE DEF vs
    <2> QED BY <1>1, <1>2 DEF VersionRecord
  <1> QED  BY <1>3, CompatibilityType DEF Revalidate

LEMMA SetPolicyType ==
    ASSUME TypeOK, NEW new \in Policies, SetPolicy(new)
    PROVE  TypeOK'
  <1>1. ASSUME NEW q \in DOMAIN rollouts
        PROVE  /\ rollouts'[q] \in Plan
               /\ rollouts'[q].index = rollouts[q].index
               /\ rollouts'[q].request = rollouts[q].request
    BY DEF TypeOK, SetPolicy, Plan
  <1>2. DOMAIN rollouts' = DOMAIN rollouts /\ rollouts' \in [DOMAIN rollouts -> Plan]
    BY <1>1 DEF SetPolicy
  <1> QED  BY <1>1, <1>2 DEF TypeOK, SetPolicy

\* The table of plans stays well typed when every plan keeps its type and its place.
LEMMA PlansType ==
    ASSUME TypeOK, DOMAIN rollouts' = DOMAIN rollouts,
           rollouts' = [q \in DOMAIN rollouts |-> rollouts'[q]],
           \A q \in DOMAIN rollouts : /\ rollouts'[q] \in Plan
                                      /\ rollouts'[q].index = rollouts[q].index
                                      /\ rollouts'[q].request = rollouts[q].request
    PROVE  /\ rollouts' \in [DOMAIN rollouts' -> Plan]
           /\ \A r \in DOMAIN rollouts' : rollouts'[r].index \in DOMAIN rollouts'[r].request.stages
  BY DEF TypeOK

LEMMA PromotionType ==
    ASSUME TypeOK, NEW v \in DOMAIN versions, versions[v].promotions < MaxPromotions,
           NEW rs, NEW to \in LifecycleState
    PROVE  LET vs == [Advance(DrainCandidates(rs), v, to) EXCEPT ![v].promotions = @ + 1]
           IN  /\ vs \in [DOMAIN versions -> VersionRecord]
               /\ DOMAIN vs = DOMAIN versions
  <1> DEFINE d == Advance(DrainCandidates(rs), v, to)
  <1>1. d \in [DOMAIN versions -> VersionRecord] /\ DOMAIN d = DOMAIN versions
    BY DrainCandidatesType, AdvanceType
  <1>2. d[v].promotions = versions[v].promotions
    BY DEF Advance, DrainCandidates, VersionRecord, TypeOK
  <1>3. d[v].promotions + 1 \in 0..MaxPromotions
    BY <1>2, BoundAssumption DEF TypeOK, VersionRecord
  <1> HIDE DEF d
  <1>4. [d EXCEPT ![v].promotions = @ + 1] \in [DOMAIN versions -> VersionRecord]
    BY <1>1, <1>3 DEF VersionRecord
  <1> QED  BY <1>1, <1>4 DEF d

LEMMA PromoteImmediatelyType ==
    ASSUME TypeOK, NEW v \in Versions, NEW s \in Scopes, NEW t, NEW g,
           PromoteImmediately(v, s, t, g)
    PROVE  TypeOK'
  <1> DEFINE stopped == InFlight(v)
             before == {x \in authority : x.rollout \notin stopped}
             vs == [Advance(DrainCandidates(stopped), v, "CURRENT") EXCEPT ![v].promotions = @ + 1]
             after == GrantExclusive(before, vs, v, {s}, NoRollout, t, g)
  <1>1. v \in DOMAIN versions /\ versions[v].promotions < MaxPromotions
    BY DEF PromoteImmediately, PromotionAllowed
  <1>2. vs \in [DOMAIN versions -> VersionRecord] /\ DOMAIN vs = DOMAIN versions
    BY <1>1, PromotionType, States
  <1>3. /\ authority' = after
        /\ versions' = Displace(before, after, vs, {s})
        /\ rollouts' = [q \in DOMAIN rollouts |-> Touch(SupersedePlans(stopped)[q], {s})]
        /\ indexed' = indexed \cup Index(v, {s})
        /\ policy' = policy
        /\ pushed' \in 0..MaxBindings
    BY FilledType DEF PromoteImmediately
  <1>4. before \in SUBSET BindingRecord  BY DEF TypeOK
  <1> HIDE DEF vs, before, stopped
  <1>5. vs[v].generation \in 1..MaxGeneration  BY <1>1, <1>2 DEF VersionRecord
  <1>6. authority' \subseteq BindingRecord  BY <1>3, <1>4, <1>5, GrantExclusiveType
  <1>7. versions' \in [DOMAIN versions -> VersionRecord] /\ DOMAIN versions' = DOMAIN versions
    BY <1>2, <1>3, DisplaceType
  <1>8. ASSUME NEW q \in DOMAIN rollouts
        PROVE  /\ rollouts'[q] \in Plan
               /\ rollouts'[q].index = rollouts[q].index
               /\ rollouts'[q].request = rollouts[q].request
    BY <1>3, SupersedePlansType, TouchType
  <1>9. indexed' \subseteq (Versions \X Scopes)  BY <1>3 DEF Index, TypeOK
  <1> QED  BY <1>3, <1>6, <1>7, <1>8, <1>9, PlansType DEF TypeOK

LEMMA PromoteToCanaryType ==
    ASSUME TypeOK, NEW v \in Versions, NEW s \in Scopes, NEW t, PromoteToCanary(v, s, t)
    PROVE  TypeOK'
  <1>1. v \in DOMAIN versions /\ versions[v].promotions < MaxPromotions
    BY DEF PromoteToCanary, PromotionAllowed
  <1>2. versions' \in [DOMAIN versions -> VersionRecord] /\ DOMAIN versions' = DOMAIN versions
    BY <1>1, PromotionType, States DEF PromoteToCanary
  <1>3. /\ rollouts' = SupersedePlans(InFlight(v))
        /\ authority' \subseteq authority
        /\ UNCHANGED <<indexed, pushed, policy>>
    BY DEF PromoteToCanary
  <1>4. ASSUME NEW q \in DOMAIN rollouts
        PROVE  /\ rollouts'[q] \in Plan
               /\ rollouts'[q].index = rollouts[q].index
               /\ rollouts'[q].request = rollouts[q].request
    BY <1>3, SupersedePlansType
  <1>5. DOMAIN rollouts' = DOMAIN rollouts /\ rollouts' = [q \in DOMAIN rollouts |-> rollouts'[q]]
    BY <1>3, SupersedePlansType
  <1> QED  BY <1>2, <1>3, <1>4, <1>5, PlansType DEF TypeOK

LEMMA PromotionRefusedType ==
    ASSUME TypeOK, NEW v \in Versions, NEW s \in Scopes, NEW t, NEW g,
           PromotionRefused(v, s, t, g)
    PROVE  TypeOK'
  <1>1. versions' \in [DOMAIN versions -> VersionRecord] /\ DOMAIN versions' = DOMAIN versions
    BY DrainCandidatesType, AdvanceType, States DEF PromotionRefused
  <1>2. /\ rollouts' = SupersedePlans(InFlight(v))
        /\ authority' \subseteq authority
        /\ UNCHANGED <<indexed, pushed, policy>>
    BY DEF PromotionRefused
  <1>3. ASSUME NEW q \in DOMAIN rollouts
        PROVE  /\ rollouts'[q] \in Plan
               /\ rollouts'[q].index = rollouts[q].index
               /\ rollouts'[q].request = rollouts[q].request
    BY <1>2, SupersedePlansType
  <1>4. DOMAIN rollouts' = DOMAIN rollouts /\ rollouts' = [q \in DOMAIN rollouts |-> rollouts'[q]]
    BY <1>2, SupersedePlansType
  <1> QED  BY <1>1, <1>2, <1>3, <1>4, PlansType DEF TypeOK

LEMMA CreateRolloutType ==
    ASSUME TypeOK, NEW v \in Versions, NEW req \in PlanRequests, CreateRollout(v, req)
    PROVE  TypeOK'
  <1>1. PICK r \in RolloutIds \ DOMAIN rollouts, previous \in PreviousOf(v, req) :
            rollouts' = [q \in DOMAIN rollouts \cup {r} |->
                IF q # r THEN rollouts[q]
                ELSE [candidate |-> v, generation |-> versions[v].generation,
                      request |-> req, previous |-> previous,
                      unvalidated |-> versions[v].compat = "none", moved |-> {},
                      index |-> 1, entered |-> FALSE, decided |-> FALSE,
                      completed |-> FALSE, failed |-> FALSE, superseded |-> FALSE,
                      rolled_back |-> FALSE]]
    BY DEF CreateRollout
  <1>2. req \in PlanRequest  BY PlanRequestAssumption
  <1>3. previous \in Versions \cup {NoVersion}
    BY <1>2 DEF PreviousOf, PlanRequest, TypeOK, BindingRecord
  <1>4. versions[v].generation \in 1..MaxGeneration
    BY DEF CreateRollout, TypeOK, VersionRecord
  <1>5. rollouts'[r] \in Plan  BY <1>1, <1>3, <1>4 DEF Plan
  <1>6. 1 \in DOMAIN req.stages  BY <1>2 DEF PlanRequest
  <1>7. rollouts'[r].index \in DOMAIN rollouts'[r].request.stages  BY <1>1, <1>6
  <1> QED  BY <1>1, <1>5, <1>7 DEF TypeOK, CreateRollout

LEMMA BeginRolloutType ==
    ASSUME TypeOK, NEW r \in DOMAIN rollouts, BeginRollout(r)
    PROVE  TypeOK'
  <1> DEFINE p == rollouts[r]
             S == p.request.stages[1].scopes
             granted == CanaryAdmitted(authority, indexed, pushed, S)
  <1>1. p \in Plan /\ r \in RolloutIds  BY DEF TypeOK
  <1>2. S \in SUBSET Scopes /\ granted \in SUBSET Scopes
    BY <1>1, PlanRequestType DEF CanaryAdmitted
  <1>3. p.candidate \in Versions /\ versions[p.candidate].generation \in 1..MaxGeneration
    BY <1>1 DEF BeginRollout, Stale, Plan
  <1>4. authority' \subseteq BindingRecord
    BY <1>1, <1>2, <1>3, CanaryGrantsType DEF BeginRollout, TypeOK
  <1>5. versions' \in [DOMAIN versions -> VersionRecord] /\ DOMAIN versions' = DOMAIN versions
    BY AdvanceType, States DEF BeginRollout, TypeOK
  <1>6. indexed' \subseteq (Versions \X Scopes)
    BY <1>2, <1>3 DEF BeginRollout, Index, TypeOK
  <1>7. ASSUME NEW q \in DOMAIN rollouts
        PROVE  /\ rollouts'[q] \in Plan
               /\ rollouts'[q].index = rollouts[q].index
               /\ rollouts'[q].request = rollouts[q].request
    <2> DEFINE p0 == Touch(rollouts[q], granted)
    <2>1. p0 \in Plan /\ p0.index = rollouts[q].index /\ p0.request = rollouts[q].request
      BY TouchType DEF TypeOK
    <2>2. \/ rollouts'[q] = p0
          \/ rollouts'[q] = [p0 EXCEPT !.entered = TRUE]
          \/ rollouts'[q] = RefreshRoot([p0 EXCEPT !.entered = TRUE])
      BY DEF BeginRollout
    <2> HIDE DEF p0
    <2> QED  BY <2>1, <2>2 DEF Plan, RefreshRoot
  <1>8. DOMAIN rollouts' = DOMAIN rollouts /\ rollouts' = [q \in DOMAIN rollouts |-> rollouts'[q]]
    BY DEF BeginRollout
  <1>9. pushed' \in 0..MaxBindings  BY FilledType DEF BeginRollout
  <1> QED  BY <1>4, <1>5, <1>6, <1>7, <1>8, <1>9, PlansType DEF TypeOK, BeginRollout

LEMMA FailStageType ==
    ASSUME TypeOK, NEW r \in DOMAIN rollouts, FailStage(r)
    PROVE  TypeOK'
  <1>1. versions' \in [DOMAIN versions -> VersionRecord] /\ DOMAIN versions' = DOMAIN versions
    BY AdvanceType, States DEF FailStage, TypeOK
  <1>2. ASSUME NEW q \in DOMAIN rollouts
        PROVE  /\ rollouts'[q] \in Plan
               /\ rollouts'[q].index = rollouts[q].index
               /\ rollouts'[q].request = rollouts[q].request
    <2>1. rollouts[q] \in Plan  BY DEF TypeOK
    <2>2. \/ rollouts'[q] = rollouts[q]
          \/ rollouts'[q] = [rollouts[q] EXCEPT !.failed = TRUE, !.entered = FALSE, !.decided = TRUE]
      BY DEF FailStage
    <2> QED  BY <2>1, <2>2 DEF Plan
  <1>3. DOMAIN rollouts' = DOMAIN rollouts /\ rollouts' = [q \in DOMAIN rollouts |-> rollouts'[q]]
    BY DEF FailStage
  <1>4. authority' \subseteq BindingRecord  BY DEF FailStage, SupersedeRollout, TypeOK
  <1> QED  BY <1>1, <1>2, <1>3, <1>4, PlansType DEF TypeOK, FailStage

LEMMA SupersedePlanType ==
    ASSUME TypeOK, NEW r \in DOMAIN rollouts, SupersedePlan(r)
    PROVE  TypeOK'
  <1>1. versions' \in [DOMAIN versions -> VersionRecord] /\ DOMAIN versions' = DOMAIN versions
    BY DrainCandidatesType DEF SupersedePlan
  <1>2. rollouts' = SupersedePlans({r})  BY DEF SupersedePlan
  <1>3. ASSUME NEW q \in DOMAIN rollouts
        PROVE  /\ rollouts'[q] \in Plan
               /\ rollouts'[q].index = rollouts[q].index
               /\ rollouts'[q].request = rollouts[q].request
    BY <1>2, SupersedePlansType
  <1>4. DOMAIN rollouts' = DOMAIN rollouts /\ rollouts' = [q \in DOMAIN rollouts |-> rollouts'[q]]
    BY <1>2, SupersedePlansType
  <1>5. authority' \subseteq BindingRecord  BY DEF SupersedePlan, SupersedeRollout, TypeOK
  <1> QED  BY <1>1, <1>3, <1>4, <1>5, PlansType DEF TypeOK, SupersedePlan

LEMMA RetireType ==
    ASSUME TypeOK, NEW v \in Versions, Retire(v)
    PROVE  TypeOK'
  <1>1. versions' \in [DOMAIN versions -> VersionRecord] /\ DOMAIN versions' = DOMAIN versions
    <2>1. versions' = Advance(versions, v, "RETIRED")  BY DEF Retire
    <2>2. "RETIRED" \in LifecycleState  BY States
    <2> QED  BY <2>1, <2>2, AdvanceType DEF TypeOK
  <1>2. ASSUME NEW q \in DOMAIN rollouts
        PROVE  /\ rollouts'[q] \in Plan
               /\ rollouts'[q].index = rollouts[q].index
               /\ rollouts'[q].request = rollouts[q].request
    <2> DEFINE p == Touch(rollouts[q], {s \in Scopes : <<v, s>> \in indexed})
    <2>1. p \in Plan /\ p.index = rollouts[q].index /\ p.request = rollouts[q].request
      BY TouchType DEF TypeOK
    <2>2. \/ rollouts'[q] = p
          \/ rollouts'[q] = [p EXCEPT !.superseded = TRUE, !.entered = FALSE]
      BY DEF Retire
    <2> HIDE DEF p
    <2> QED  BY <2>1, <2>2 DEF Plan
  <1>3. DOMAIN rollouts' = DOMAIN rollouts /\ rollouts' = [q \in DOMAIN rollouts |-> rollouts'[q]]
    BY DEF Retire
  <1>4. authority' \subseteq BindingRecord  BY DEF Retire, SupersedeVersion, TypeOK
  <1> QED  BY <1>1, <1>2, <1>3, <1>4, PlansType DEF TypeOK, Retire

LEMMA StageTypes ==
    ASSUME TypeOK, NEW r \in DOMAIN rollouts
    PROVE  LET p == rollouts[r] IN
           /\ p \in Plan /\ r \in RolloutIds /\ p.candidate \in Versions
           /\ StageScopes(p) \in SUBSET Scopes
           /\ NextStageScopes(p) \in SUBSET Scopes
           /\ p.index \in Nat
           /\ p.index \in DOMAIN p.request.stages
           /\ ~LastStage(p) => p.index + 1 \in DOMAIN p.request.stages
  <1> DEFINE p == rollouts[r]
  <1>1. p \in Plan /\ r \in RolloutIds /\ p.index \in DOMAIN p.request.stages  BY DEF TypeOK
  <1>2. p.request.stages \in Seq(Stage)  BY <1>1, PlanRequestType
  <1>3. ~LastStage(p) => p.index + 1 \in DOMAIN p.request.stages
    BY <1>1, <1>2 DEF LastStage
  <1>4. StageScopes(p) \in SUBSET Scopes /\ NextStageScopes(p) \in SUBSET Scopes
    BY <1>1, <1>3, PlanRequestType DEF StageScopes, NextStageScopes
  <1>5. p.index \in Nat /\ p.candidate \in Versions  BY <1>1 DEF Plan
  <1> QED  BY <1>1, <1>3, <1>4, <1>5

LEMMA StageDoneType ==
    ASSUME NEW p \in Plan, p.index \in DOMAIN p.request.stages, p.index \in Nat,
           ~LastStage(p) => p.index + 1 \in DOMAIN p.request.stages
    PROVE  /\ StageDone(p) \in Plan
           /\ StageDone(p).index \in DOMAIN StageDone(p).request.stages
  <1>1. CASE LastStage(p)
    <2> DEFINE n == [p EXCEPT !.completed = TRUE, !.entered = FALSE, !.decided = TRUE]
    <2>1. n \in Plan  BY DEF Plan
    <2>2. n.index = p.index /\ n.request = p.request  BY DEF Plan
    <2> QED  BY <1>1, <2>1, <2>2 DEF StageDone
  <1>2. CASE ~LastStage(p)
    <2> DEFINE n == [p EXCEPT !.index = @ + 1]
    <2>1. n \in Plan  BY DEF Plan
    <2>2. n.index = p.index + 1 /\ n.request = p.request  BY DEF Plan
    <2> QED  BY <1>2, <2>1, <2>2 DEF StageDone
  <1> QED  BY <1>1, <1>2

LEMMA RefreshRootType ==
    ASSUME NEW p \in Plan
    PROVE  /\ RefreshRoot(p) \in Plan
           /\ RefreshRoot(p).index = p.index
           /\ RefreshRoot(p).request = p.request
  BY DEF RefreshRoot, Plan

LEMMA StageVersionsType ==
    ASSUME TypeOK, NEW r \in DOMAIN rollouts, NEW W
    PROVE  /\ StageVersions(r, W) \in [DOMAIN versions -> VersionRecord]
           /\ DOMAIN StageVersions(r, W) = DOMAIN versions
  <1> DEFINE p == rollouts[r]
             vs == Displace(authority, StageGrant(r, W), versions, W)
  <1>1. vs \in [DOMAIN versions -> VersionRecord] /\ DOMAIN vs = DOMAIN versions
    BY DisplaceType DEF TypeOK
  <1>2. StageVersions(r, W) =
            IF Drains(p) /\ W # {} THEN Advance(vs, p.previous, "DRAINING") ELSE vs
    BY DEF StageVersions
  <1> HIDE DEF vs
  <1> QED  BY <1>1, <1>2, AdvanceType, States

LEMMA StageCommitType ==
    ASSUME TypeOK, NEW r \in DOMAIN rollouts, NEW W \in SUBSET Scopes,
           StageAdvanceAllowed(rollouts[r])
    PROVE  /\ StageCommit(r, W) \in SUBSET BindingRecord
           /\ versions[rollouts[r].candidate].generation \in 1..MaxGeneration
  <1>1. rollouts[r] \in Plan /\ r \in RolloutIds /\ rollouts[r].candidate \in Versions
    BY StageTypes
  <1>2. versions[rollouts[r].candidate].generation \in 1..MaxGeneration
    BY <1>1 DEF StageAdvanceAllowed, Stale, Plan
  <1>3. StageGrant(r, W) \in SUBSET BindingRecord
    BY <1>1, <1>2, GrantExclusiveType DEF TypeOK, StageGrant
  <1> QED  BY <1>2, <1>3, MarkDrainingType DEF StageCommit

LEMMA AdvanceStageType ==
    ASSUME TypeOK, NEW r \in DOMAIN rollouts, AdvanceStage(r)
    PROVE  TypeOK'
  <1> DEFINE p == rollouts[r]
             v == p.candidate
             S == StageScopes(p)
             T == NextStageScopes(p)
             granted == CanaryAdmitted(StageCommit(r, S), indexed \cup Index(v, S),
                                       pushed + StagePushes(p, S), T)
  <1>1. /\ p \in Plan /\ r \in RolloutIds /\ v \in Versions
        /\ S \in SUBSET Scopes /\ T \in SUBSET Scopes
    BY StageTypes
  <1>2. granted \in SUBSET Scopes  BY <1>1 DEF CanaryAdmitted
  <1>3. versions[v].generation \in 1..MaxGeneration
    BY <1>1, StageCommitType DEF AdvanceStage
  <1>5. StageCommit(r, S) \in SUBSET BindingRecord  BY <1>1, StageCommitType DEF AdvanceStage
  <1>6. CanaryGrants(granted, v, versions[v].generation, r) \in SUBSET BindingRecord
    BY <1>1, <1>2, <1>3, CanaryGrantsType
  <1>7. authority' \subseteq BindingRecord  BY <1>5, <1>6 DEF AdvanceStage
  <1>8. versions' \in [DOMAIN versions -> VersionRecord] /\ DOMAIN versions' = DOMAIN versions
    BY StageVersionsType, AdvanceType, States DEF AdvanceStage
  <1>9. indexed' \subseteq (Versions \X Scopes)
    <2>1. indexed' = indexed \cup Index(v, S \cup granted)  BY DEF AdvanceStage
    <2> HIDE DEF granted
    <2>2. Index(v, S \cup granted) \subseteq (Versions \X Scopes)  BY <1>1, <1>2 DEF Index
    <2> QED  BY <2>1, <2>2 DEF TypeOK
  <1>10. ASSUME NEW q \in DOMAIN rollouts
         PROVE  rollouts'[q] \in Plan /\ rollouts'[q].index \in DOMAIN rollouts'[q].request.stages
    <2> DEFINE t == Touch(rollouts[q], S \cup granted)
    <2>1. /\ t \in Plan /\ t.index = rollouts[q].index /\ t.request = rollouts[q].request
          /\ LastStage(t) <=> LastStage(rollouts[q])
      BY StageTypes, TouchType DEF LastStage
    <2>2. /\ t.index \in DOMAIN t.request.stages
          /\ t.index \in Nat
          /\ ~LastStage(t) => t.index + 1 \in DOMAIN t.request.stages
      BY <2>1, StageTypes
    <2>3. \/ rollouts'[q] = t
          \/ rollouts'[q] = StageDone(t)
          \/ rollouts'[q] = RefreshRoot(StageDone(t))
      BY DEF AdvanceStage
    <2> HIDE DEF t
    <2>4. StageDone(t) \in Plan /\ StageDone(t).index \in DOMAIN StageDone(t).request.stages
      BY <2>1, <2>2, StageDoneType
    <2> QED  BY <2>1, <2>2, <2>3, <2>4, RefreshRootType
  <1>11. DOMAIN rollouts' = DOMAIN rollouts /\ rollouts' = [q \in DOMAIN rollouts |-> rollouts'[q]]
    BY DEF AdvanceStage
  <1>12. rollouts' \in [DOMAIN rollouts' -> Plan]  BY <1>10, <1>11
  <1>13. pushed' \in 0..MaxBindings  BY FilledType DEF AdvanceStage
  <1> QED  BY <1>7, <1>8, <1>9, <1>10, <1>11, <1>12, <1>13 DEF TypeOK, AdvanceStage

LEMMA StageRefusedType ==
    ASSUME TypeOK, NEW r \in DOMAIN rollouts, StageRefused(r)
    PROVE  TypeOK'
  <1> DEFINE p == rollouts[r]
             W == ExclusiveAdmitted(p)
  <1>1. p \in Plan /\ p.candidate \in Versions /\ W \in SUBSET Scopes
    BY StageTypes DEF ExclusiveAdmitted
  <1>2. /\ authority' = StageCommit(r, W)
        /\ versions' = StageVersions(r, W)
        /\ indexed' = indexed \cup Index(p.candidate, W)
        /\ pushed' \in 0..MaxBindings
        /\ policy' = policy
    BY FilledType DEF StageRefused
  <1>3. authority' \subseteq BindingRecord  BY <1>1, <1>2, StageCommitType DEF StageRefused
  <1>4. versions' \in [DOMAIN versions -> VersionRecord] /\ DOMAIN versions' = DOMAIN versions
    BY <1>2, StageVersionsType
  <1>5. indexed' \subseteq (Versions \X Scopes)  BY <1>1, <1>2 DEF Index, TypeOK
  <1>6. ASSUME NEW q \in DOMAIN rollouts
        PROVE  /\ rollouts'[q] \in Plan
               /\ rollouts'[q].index = rollouts[q].index
               /\ rollouts'[q].request = rollouts[q].request
    <2> DEFINE t == Touch(rollouts[q], W)
    <2>1. t \in Plan /\ t.index = rollouts[q].index /\ t.request = rollouts[q].request
      BY TouchType DEF TypeOK
    <2>2. rollouts'[q] = t \/ rollouts'[q] = Decided(t)  BY DEF StageRefused
    <2> HIDE DEF t
    <2> QED  BY <2>1, <2>2 DEF Decided, Plan
  <1>7. DOMAIN rollouts' = DOMAIN rollouts /\ rollouts' = [q \in DOMAIN rollouts |-> rollouts'[q]]
    BY DEF StageRefused
  <1> QED  BY <1>2, <1>3, <1>4, <1>5, <1>6, <1>7, PlansType DEF TypeOK

\* The record of a version that is rolled back.
LEMMA RolledBackType ==
    ASSUME NEW D, NEW vs \in [D -> VersionRecord], NEW v \in D, vs[v].rollbacks < MaxRollbacks,
           NEW t, NEW to \in LifecycleState
    PROVE  LET n == [Advance(Advance(vs, t, "CURRENT"), v, to) EXCEPT ![v].rollbacks = @ + 1]
           IN  n \in [D -> VersionRecord] /\ DOMAIN n = D
  <1> DEFINE d == Advance(Advance(vs, t, "CURRENT"), v, to)
  <1>1. d \in [D -> VersionRecord] /\ DOMAIN d = D  BY AdvanceType, States
  <1>2. d[v].rollbacks = vs[v].rollbacks  BY DEF Advance, VersionRecord
  <1>3. d[v].rollbacks + 1 \in 0..MaxRollbacks  BY <1>2, BoundAssumption DEF VersionRecord
  <1> HIDE DEF d
  <1>4. [d EXCEPT ![v].rollbacks = @ + 1] \in [D -> VersionRecord]
    BY <1>1, <1>3 DEF VersionRecord
  <1> QED  BY <1>1, <1>4 DEF d

LEMMA RollbackType ==
    ASSUME TypeOK, NEW v \in Versions, NEW t \in Versions, NEW s \in Scopes,
           NEW r, Rollback(v, t, s, r)
    PROVE  TypeOK'
  <1>1. /\ v \in DOMAIN versions /\ t \in DOMAIN versions
        /\ versions[v].rollbacks < MaxRollbacks
    BY DEF Rollback, RollbackAllowed, RollbackTargetAllowed, Known
  <1>2. versions[t].generation \in 1..MaxGeneration  BY <1>1 DEF TypeOK, VersionRecord
  <1>3. GrantExclusive(SupersedeScope(authority, s), versions, t, {s}, NoRollout, NoVersion, 0)
            \in SUBSET BindingRecord
    BY <1>2, GrantExclusiveType DEF TypeOK, SupersedeScope
  <1>4. authority' \subseteq BindingRecord  BY <1>3, MarkDrainingType DEF Rollback
  <1>5. versions' \in [DOMAIN versions -> VersionRecord] /\ DOMAIN versions' = DOMAIN versions
    <2> DEFINE restored == MarkDraining(GrantExclusive(SupersedeScope(authority, s), versions, t,
                                            {s}, NoRollout, NoVersion, 0), v, {s})
               to == IF HoldsAuthority(restored, v) THEN "PARTIALLY_PROMOTED" ELSE "ROLLED_BACK"
    <2>1. to \in LifecycleState  BY States
    <2>2. versions' = [Advance(Advance(versions, t, "CURRENT"), v, to)
                            EXCEPT ![v].rollbacks = @ + 1]
      BY DEF Rollback
    <2> HIDE DEF to
    <2> QED  BY <1>1, <2>1, <2>2, RolledBackType DEF TypeOK
  <1>6. indexed' \subseteq (Versions \X Scopes)  BY DEF Rollback, Index, TypeOK
  <1>7. ASSUME NEW q \in DOMAIN rollouts
        PROVE  /\ rollouts'[q] \in Plan
               /\ rollouts'[q].index = rollouts[q].index
               /\ rollouts'[q].request = rollouts[q].request
    <2> DEFINE f == [rollouts[q] EXCEPT !.failed = TRUE, !.entered = FALSE, !.decided = TRUE]
               g == [rollouts[q] EXCEPT !.rolled_back = TRUE]
               h == [f EXCEPT !.rolled_back = TRUE]
    <2>1. rollouts[q] \in Plan  BY DEF TypeOK
    <2>2. \/ rollouts'[q] = Touch(rollouts[q], {s})
          \/ rollouts'[q] = Touch(g, {s})
          \/ rollouts'[q] = Touch(h, {s})
      BY DEF Rollback
    <2>3. g \in Plan /\ g.index = rollouts[q].index /\ g.request = rollouts[q].request
      BY <2>1 DEF Plan
    <2>4. h \in Plan /\ h.index = rollouts[q].index /\ h.request = rollouts[q].request
      BY <2>1 DEF Plan
    <2> HIDE DEF g, h
    <2> QED  BY <2>1, <2>2, <2>3, <2>4, TouchType
  <1>8. DOMAIN rollouts' = DOMAIN rollouts /\ rollouts' = [q \in DOMAIN rollouts |-> rollouts'[q]]
    BY DEF Rollback
  <1>9. pushed' \in 0..MaxBindings  BY FilledType DEF Rollback
  <1> QED  BY <1>4, <1>5, <1>6, <1>7, <1>8, <1>9, PlansType DEF TypeOK, Rollback

LEMMA StageFailedType ==
    ASSUME NEW p \in Plan
    PROVE  /\ StageFailed(p) \in Plan
           /\ StageFailed(p).index = p.index
           /\ StageFailed(p).request = p.request
  BY DEF StageFailed, Plan

LEMMA StageFailureType ==
    ASSUME TypeOK, NEW r \in DOMAIN rollouts, StageFailure(r)
    PROVE  TypeOK'
  <1>1. versions' \in [DOMAIN versions -> VersionRecord] /\ DOMAIN versions' = DOMAIN versions
    BY AdvanceType, States DEF StageFailure, TypeOK
  <1>2. ASSUME NEW q \in DOMAIN rollouts
        PROVE  /\ rollouts'[q] \in Plan
               /\ rollouts'[q].index = rollouts[q].index
               /\ rollouts'[q].request = rollouts[q].request
    <2>1. rollouts'[q] = rollouts[q] \/ rollouts'[q] = StageFailed(rollouts[q])
      BY DEF StageFailure
    <2> QED  BY <2>1, StageFailedType DEF TypeOK
  <1>3. DOMAIN rollouts' = DOMAIN rollouts /\ rollouts' = [q \in DOMAIN rollouts |-> rollouts'[q]]
    BY DEF StageFailure
  <1>4. authority' \subseteq BindingRecord  BY DEF StageFailure, SupersedeRollout, TypeOK
  <1> QED  BY <1>1, <1>2, <1>3, <1>4, PlansType DEF TypeOK, StageFailure

LEMMA AutomaticRollbackType ==
    ASSUME TypeOK, NEW r \in DOMAIN rollouts, AutomaticRollback(r)
    PROVE  TypeOK'
  <1> DEFINE p == rollouts[r]
             v == p.candidate
             root == p.request.root
             failing == Advance(versions, v, "CANARY_FAILED")
             fenced == SupersedeScope(SupersedeRollout(authority, r), root)
  <1>1. p \in Plan /\ v \in Versions /\ root \in Scopes
    BY PlanRequestType DEF TypeOK, Plan
  <1>2. failing \in [DOMAIN versions -> VersionRecord] /\ DOMAIN failing = DOMAIN versions
    BY AdvanceType, States DEF TypeOK
  <1>3. v \in DOMAIN versions  BY <1>2 DEF AutomaticRollback, RollbackAllowed
  <1>4. failing[v].rollbacks = versions[v].rollbacks
    BY <1>3 DEF Advance, TypeOK, VersionRecord
  <1>5. failing[v].generation \in 1..MaxGeneration  BY <1>2, <1>3 DEF VersionRecord
  <1>6. fenced \in SUBSET BindingRecord  BY DEF TypeOK, SupersedeScope, SupersedeRollout
  <1>7. /\ authority' = GrantExclusive(fenced, failing, v, {root}, NoRollout,
                                       p.request.target, p.request.target_generation)
        /\ versions' = [Advance(Advance(failing, p.request.target, "CURRENT"), v, "ROLLED_BACK")
                            EXCEPT ![v].rollbacks = @ + 1]
        /\ versions[v].rollbacks < MaxRollbacks
        /\ indexed' = indexed \cup Index(v, {root})
        /\ policy' = policy
        /\ pushed' \in 0..MaxBindings
    BY FilledType DEF AutomaticRollback
  <1>8. ASSUME NEW q \in DOMAIN rollouts
        PROVE  /\ rollouts'[q] \in Plan
               /\ rollouts'[q].index = rollouts[q].index
               /\ rollouts'[q].request = rollouts[q].request
    <2> DEFINE f == StageFailed(rollouts[q])
               g == [f EXCEPT !.rolled_back = TRUE]
    <2>1. rollouts[q] \in Plan  BY DEF TypeOK
    <2>2. rollouts'[q] = Touch(rollouts[q], {root}) \/ rollouts'[q] = Touch(g, {root})
      BY DEF AutomaticRollback
    <2>3. f \in Plan /\ f.index = rollouts[q].index /\ f.request = rollouts[q].request
      BY <2>1, StageFailedType
    <2> HIDE DEF f
    <2>4. g \in Plan /\ g.index = f.index /\ g.request = f.request
      BY <2>3 DEF Plan
    <2> HIDE DEF g
    <2> QED  BY <2>1, <2>2, <2>3, <2>4, TouchType
  <1>9. DOMAIN rollouts' = DOMAIN rollouts /\ rollouts' = [q \in DOMAIN rollouts |-> rollouts'[q]]
    BY DEF AutomaticRollback
  <1> HIDE DEF failing, fenced
  <1>10. authority' \subseteq BindingRecord  BY <1>1, <1>5, <1>6, <1>7, GrantExclusiveType
  <1>11. versions' \in [DOMAIN versions -> VersionRecord] /\ DOMAIN versions' = DOMAIN versions
    BY <1>2, <1>3, <1>4, <1>7, RolledBackType, States
  <1>12. indexed' \subseteq (Versions \X Scopes)  BY <1>1, <1>7 DEF Index, TypeOK
  <1> QED  BY <1>7, <1>8, <1>9, <1>10, <1>11, <1>12, PlansType DEF TypeOK

LEMMA TypeStep == TypeOK /\ [Next]_vars => TypeOK'
  <1> SUFFICES ASSUME TypeOK, [Next]_vars PROVE TypeOK'
    OBVIOUS
  <1>1. ASSUME NEW v \in Versions, RegisterVersion(v) PROVE TypeOK'
    BY <1>1, RegisterVersionType
  <1>2. ASSUME NEW v \in Versions, ReviseVersion(v) PROVE TypeOK'
    BY <1>2, ReviseVersionType
  <1>3. ASSUME NEW v \in Versions, NEW verdict \in Verdicts, PublishCompatibility(v, verdict)
        PROVE TypeOK'
    BY <1>3, PublishCompatibilityType
  <1>4. ASSUME NEW new \in Policies, SetPolicy(new) PROVE TypeOK'
    BY <1>4, SetPolicyType
  <1>5. ASSUME NEW v \in Versions, NEW s \in Scopes, NEW t \in Versions \cup {NoVersion},
               NEW generation \in 0..MaxGeneration, PromoteImmediately(v, s, t, generation)
        PROVE TypeOK'
    BY <1>5, PromoteImmediatelyType
  <1>6. ASSUME NEW v \in Versions, NEW s \in Scopes, NEW t \in Versions \cup {NoVersion},
               PromoteToCanary(v, s, t)
        PROVE TypeOK'
    BY <1>6, PromoteToCanaryType
  <1>7. ASSUME NEW v \in Versions, NEW req \in PlanRequests, CreateRollout(v, req)
        PROVE TypeOK'
    BY <1>7, CreateRolloutType
  <1>8. ASSUME NEW r \in DOMAIN rollouts, BeginRollout(r) PROVE TypeOK'
    BY <1>8, BeginRolloutType
  <1>9. ASSUME NEW r \in DOMAIN rollouts, AdvanceStage(r) PROVE TypeOK'
    BY <1>9, AdvanceStageType
  <1>10. ASSUME NEW r \in DOMAIN rollouts, FailStage(r) PROVE TypeOK'
    BY <1>10, FailStageType
  <1>11. ASSUME NEW r \in DOMAIN rollouts, SupersedePlan(r) PROVE TypeOK'
    BY <1>11, SupersedePlanType
  <1>12. ASSUME NEW v \in Versions, NEW t \in Versions, NEW s \in Scopes,
                NEW r \in DOMAIN rollouts \cup {NoRollout}, Rollback(v, t, s, r)
         PROVE TypeOK'
    BY <1>12, RollbackType
  <1>13. ASSUME NEW r \in DOMAIN rollouts, StageFailure(r) PROVE TypeOK'
    BY <1>13, StageFailureType
  <1>14. ASSUME NEW r \in DOMAIN rollouts, AutomaticRollback(r) PROVE TypeOK'
    BY <1>14, AutomaticRollbackType
  <1>15. ASSUME NEW v \in Versions, Retire(v) PROVE TypeOK'
    BY <1>15, RetireType
  <1>16. ASSUME NEW v \in Versions, Revalidate(v) PROVE TypeOK'
    BY <1>16, RevalidateType
  <1>17. CASE Restart
    <2>1. pushed \in 0..MaxBindings /\ pushed' \in 0..pushed
      BY <1>17 DEF Restart, TypeOK
    <2>2. pushed' \in 0..MaxBindings  BY <2>1, TableAssumption
    <2> QED  BY <1>17, <2>2 DEF Restart, TypeOK, BindingRecord
  <1>18. ASSUME NEW v \in Versions, NEW s \in Scopes, NEW t \in Versions \cup {NoVersion},
                NEW generation \in 0..MaxGeneration, PromotionRefused(v, s, t, generation)
         PROVE TypeOK'
    BY <1>18, PromotionRefusedType
  <1>19. ASSUME NEW r \in DOMAIN rollouts, StageRefused(r) PROVE TypeOK'
    BY <1>19, StageRefusedType
  <1>20. CASE UNCHANGED vars  BY <1>20 DEF vars, TypeOK
  <1> QED
    BY <1>1, <1>2, <1>3, <1>4, <1>5, <1>6, <1>7, <1>8, <1>9, <1>10, <1>11, <1>12, <1>13,
       <1>14, <1>15, <1>16, <1>17, <1>18, <1>19, <1>20 DEF Next

\* Type correctness of the engine: every table keeps its type, and the stage index of
\* every plan names one of its stages, which advance_stage and fail_stage rely on when
\* they index plan->stages without a check.
THEOREM TypeCorrect == Spec => []TypeOK
  BY TypeInit, TypeStep, PTL DEF Spec

==============================================================================
