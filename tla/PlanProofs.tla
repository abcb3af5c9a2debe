------------------------------- MODULE PlanProofs -------------------------------
(***************************************************************************)
(* The rollout plans: one live plan per candidate, made for the candidate as *)
(* it is; authority that carries a rollout stays inside what its plan has    *)
(* committed, and is gone for good once the plan was superseded.  The four   *)
(* are proved together, with one fact about the requests, because each needs *)
(* the others: a retirement, for instance, withdraws the bindings of a        *)
(* VERSION and supersedes the plans of a CANDIDATE, which withdraws the       *)
(* plan's bindings only because a plan's bindings are its candidate's.        *)
(***************************************************************************)
EXTENDS AuthorityProofs

------------------------------------------------------------------------------
(* Where a binding comes from. *)

\* x is a binding of b, or one whose kind alone was changed, to a kind that serves
\* nothing new.
From(b, x) ==
    /\ \E y \in b : /\ y.scope = x.scope /\ y.version = x.version
                    /\ y.generation = x.generation /\ y.rollout = x.rollout
    /\ x.kind \in {"Exclusive", "Canary"} => x \in b

LEMMA FromItself ==
    ASSUME NEW b, NEW x \in b
    PROVE  From(b, x)
  BY DEF From

LEMMA GrantExclusiveFrom ==
    ASSUME NEW b \in SUBSET BindingRecord, NEW vs, NEW v, NEW S, NEW r, NEW t, NEW g,
           NEW x \in GrantExclusive(b, vs, v, S, r, t, g)
    PROVE  \/ From(b, x)
           \/ /\ x.scope \in S /\ x.version = v /\ x.generation = vs[v].generation
              /\ x.kind = "Exclusive" /\ x.rollout = r
  <1>1. \A y \in Displaced(b, S) : y \in b  BY DEF Displaced, ExclusiveAt, LiveAt
  <1>2. CASE x \in b \ Displaced(b, S)  BY <1>2, FromItself
  <1>3. CASE x \in {Binding(s, v, vs[v].generation, "Exclusive", r) : s \in S}
    BY <1>3 DEF Binding
  <1>4. CASE \E y \in Displaced(b, S) : x = [y EXCEPT !.kind = "RollbackRetained"]
    BY <1>1, <1>4 DEF From, BindingRecord
  <1> QED  BY <1>2, <1>3, <1>4 DEF GrantExclusive, Retained

LEMMA MarkDrainingFrom ==
    ASSUME NEW b \in SUBSET BindingRecord, NEW v, NEW S, NEW x \in MarkDraining(b, v, S)
    PROVE  From(b, x)
  <1>1. x \in b \/ \E y \in b : x = [y EXCEPT !.kind = "Draining"]  BY DEF MarkDraining
  <1>2. CASE x \in b  BY <1>2, FromItself
  <1>3. CASE \E y \in b : x = [y EXCEPT !.kind = "Draining"]  BY <1>3 DEF From, BindingRecord
  <1> QED  BY <1>1, <1>2, <1>3

LEMMA CanaryGrantsFrom ==
    ASSUME NEW S, NEW v, NEW g, NEW r, NEW x \in CanaryGrants(S, v, g, r)
    PROVE  /\ x.scope \in S /\ x.version = v /\ x.generation = g
           /\ x.kind = "Canary" /\ x.rollout = r
  BY DEF CanaryGrants, Binding

\* The step takes the plan of r, live and current, to grant x: a canary in the first
\* stage, a scope of the stage whose advance is decided, or a canary in the one after.
GrantedBy(r, x) ==
    LET p == rollouts[r] IN
    /\ Live(p) /\ ~Stale(p)
    /\ x.rollout = r /\ x.version = p.candidate /\ x.generation = p.generation
    /\ \/ x.kind = "Canary" /\ x.scope \in p.request.stages[1].scopes
       \/ (AdvanceStage(r) \/ StageRefused(r)) /\ x.scope \in StageScopes(p)
       \/ AdvanceStage(r) /\ x.kind = "Canary" /\ x.scope \in NextStageScopes(p)

LEMMA BeginRolloutGrants ==
    ASSUME TypeOK, NEW r \in DOMAIN rollouts, BeginRollout(r), NEW x \in authority'
    PROVE  From(authority, x) \/ GrantedBy(r, x)
  <1> DEFINE p == rollouts[r]
             S == CanaryAdmitted(authority, indexed, pushed, p.request.stages[1].scopes)
  <1>1. Live(p) /\ ~Stale(p)  BY DEF BeginRollout
  <1>2. versions[p.candidate].generation = p.generation  BY <1>1 DEF Stale
  <1>3. authority' = authority \cup CanaryGrants(S, p.candidate, p.generation, r)
    BY <1>2 DEF BeginRollout
  <1>4. CASE x \in authority  BY <1>4, FromItself
  <1>5. CASE x \in CanaryGrants(S, p.candidate, p.generation, r)
    <2>1. /\ x.scope \in S /\ x.version = p.candidate /\ x.generation = p.generation
          /\ x.kind = "Canary" /\ x.rollout = r
      BY <1>5, CanaryGrantsFrom
    <2>2. x.scope \in p.request.stages[1].scopes  BY <2>1 DEF CanaryAdmitted
    <2> QED  BY <1>1, <2>1, <2>2 DEF GrantedBy
  <1> QED  BY <1>3, <1>4, <1>5

\* Granting the scopes W of a stage gives the candidate authority in W alone.
LEMMA StageCommitFrom ==
    ASSUME RetirementInv, NEW r \in DOMAIN rollouts, NEW W \in SUBSET Scopes,
           StageAdvanceAllowed(rollouts[r]), NEW x \in StageCommit(r, W)
    PROVE  \/ From(authority, x)
           \/ /\ x.scope \in W /\ x.version = rollouts[r].candidate
              /\ x.generation = rollouts[r].generation /\ x.rollout = r
  <1> DEFINE p == rollouts[r]
             Grant(y) == /\ y.scope \in W /\ y.version = p.candidate
                         /\ y.generation = p.generation /\ y.rollout = r
  <1>1. versions[p.candidate].generation = p.generation
    BY DEF StageAdvanceAllowed, Stale
  <1>2. /\ r \in RolloutIds /\ p.candidate \in Versions
        /\ versions[p.candidate].generation \in 1..MaxGeneration
    BY StageTypes, StageCommitType DEF RetirementInv
  <1>3. StageGrant(r, W) \in SUBSET BindingRecord
    BY <1>2, GrantExclusiveType DEF StageGrant, RetirementInv, TypeOK
  <1>4. \A y \in StageGrant(r, W) : From(authority, y) \/ Grant(y)
    BY <1>1, GrantExclusiveFrom DEF StageGrant, RetirementInv, TypeOK
  <1>5. From(StageGrant(r, W), x)
    BY <1>3, MarkDrainingFrom, FromItself DEF StageCommit
  <1> QED  BY <1>4, <1>5 DEF From

LEMMA AdvanceStageGrants ==
    ASSUME RetirementInv, NEW r \in DOMAIN rollouts, AdvanceStage(r), NEW x \in authority'
    PROVE  From(authority, x) \/ GrantedBy(r, x)
  <1> DEFINE p == rollouts[r]
             S == StageScopes(p)
             T == CanaryAdmitted(StageCommit(r, S), indexed \cup Index(p.candidate, S),
                                 pushed + StagePushes(p, S), NextStageScopes(p))
  <1>1. StageAdvanceAllowed(p) /\ Live(p) /\ ~Stale(p)
    BY DEF AdvanceStage, StageAdvanceAllowed
  <1>2. versions[p.candidate].generation = p.generation  BY <1>1 DEF Stale
  <1>3. S \in SUBSET Scopes  BY StageTypes DEF RetirementInv
  <1>4. \A y \in T : y \in NextStageScopes(p)  BY DEF CanaryAdmitted
  <1>5. authority' = StageCommit(r, S) \cup CanaryGrants(T, p.candidate, p.generation, r)
    BY <1>2 DEF AdvanceStage
  <1> HIDE DEF T
  <1>6. CASE x \in StageCommit(r, S)
    BY <1>1, <1>3, <1>6, StageCommitFrom DEF GrantedBy
  <1>7. CASE x \in CanaryGrants(T, p.candidate, p.generation, r)
    <2>1. /\ x.scope \in T /\ x.version = p.candidate /\ x.generation = p.generation
          /\ x.kind = "Canary" /\ x.rollout = r
      BY <1>7, CanaryGrantsFrom
    <2> QED  BY <1>1, <1>4, <2>1 DEF GrantedBy
  <1> QED  BY <1>5, <1>6, <1>7

LEMMA StageRefusedGrants ==
    ASSUME RetirementInv, NEW r \in DOMAIN rollouts, StageRefused(r), NEW x \in authority'
    PROVE  From(authority, x) \/ GrantedBy(r, x)
  <1> DEFINE p == rollouts[r]
             W == ExclusiveAdmitted(p)
  <1>1. StageAdvanceAllowed(p) /\ Live(p) /\ ~Stale(p)
    BY DEF StageRefused, StageAdvanceAllowed
  <1>2. W \in SUBSET StageScopes(p) /\ W \in SUBSET Scopes
    BY StageTypes DEF ExclusiveAdmitted, RetirementInv
  <1>3. authority' = StageCommit(r, W)  BY DEF StageRefused
  <1> HIDE DEF W
  <1> QED  BY <1>1, <1>2, <1>3, StageCommitFrom DEF GrantedBy

\* Every binding a step leaves was there before it, carries no rollout, or was granted
\* by the step for a plan that is live and current.
LEMMA AuthorityStep ==
    ASSUME RetirementInv, [Next]_vars, NEW x \in authority'
    PROVE  From(authority, x) \/ x.rollout = NoRollout \/ \E r \in DOMAIN rollouts : GrantedBy(r, x)
  <1> USE DEF RetirementInv
  <1> DEFINE Goal == \/ From(authority, x) \/ x.rollout = NoRollout
                     \/ \E r \in DOMAIN rollouts : GrantedBy(r, x)
  <1>1. ASSUME authority' \in SUBSET authority PROVE Goal  BY <1>1, FromItself
  <1>2. ASSUME NEW b \in SUBSET authority, NEW vs, NEW v, NEW S, NEW t, NEW g,
               NEW y \in GrantExclusive(b, vs, v, S, NoRollout, t, g)
        PROVE  From(authority, y) \/ y.rollout = NoRollout
    <2>1. b \in SUBSET BindingRecord  BY DEF TypeOK
    <2> QED  BY <2>1, GrantExclusiveFrom DEF From
  <1>3. ASSUME NEW v \in Versions, NEW s \in Scopes, NEW t \in Versions \cup {NoVersion},
               NEW generation \in 0..MaxGeneration, PromoteImmediately(v, s, t, generation)
        PROVE Goal
    <2> DEFINE before == {y \in authority : y.rollout \notin InFlight(v)}
    <2>1. \E vs : authority' = GrantExclusive(before, vs, v, {s}, NoRollout, t, generation)
      BY <1>3 DEF PromoteImmediately
    <2>2. before \in SUBSET authority  OBVIOUS
    <2> HIDE DEF before
    <2> QED  BY <1>2, <2>1, <2>2
  <1>4. ASSUME NEW r \in DOMAIN rollouts, BeginRollout(r) PROVE Goal
    BY <1>4, BeginRolloutGrants
  <1>5. ASSUME NEW r \in DOMAIN rollouts, AdvanceStage(r) PROVE Goal
    BY <1>5, AdvanceStageGrants
  <1>6. ASSUME NEW v \in Versions, NEW t \in Versions, NEW s \in Scopes,
               NEW r \in DOMAIN rollouts \cup {NoRollout}, Rollback(v, t, s, r)
        PROVE Goal
    <2> DEFINE fenced == SupersedeScope(authority, s)
               granted == GrantExclusive(fenced, versions, t, {s}, NoRollout, NoVersion, 0)
    <2>1. fenced \in SUBSET authority /\ fenced \in SUBSET BindingRecord
      BY DEF SupersedeScope, TypeOK
    <2>2. versions[t].generation \in 1..MaxGeneration
      BY <1>6 DEF Rollback, RollbackAllowed, RollbackTargetAllowed, Known, TypeOK, VersionRecord
    <2>3. granted \in SUBSET BindingRecord  BY <2>1, <2>2, GrantExclusiveType
    <2>4. \A y \in granted : From(authority, y) \/ y.rollout = NoRollout  BY <1>2, <2>1
    <2>5. authority' = MarkDraining(granted, v, {s})  BY <1>6 DEF Rollback
    <2> HIDE DEF granted
    <2>6. From(granted, x)  BY <2>3, <2>5, MarkDrainingFrom
    <2> QED  BY <2>4, <2>6 DEF From
  <1>7. ASSUME NEW r \in DOMAIN rollouts, AutomaticRollback(r) PROVE Goal
    <2> DEFINE p == rollouts[r]
               fenced == SupersedeScope(SupersedeRollout(authority, r), p.request.root)
    <2>1. fenced \in SUBSET authority  BY DEF SupersedeScope, SupersedeRollout
    <2>2. \E vs : authority' = GrantExclusive(fenced, vs, p.candidate, {p.request.root}, NoRollout,
                                    p.request.target, p.request.target_generation)
      BY <1>7 DEF AutomaticRollback
    <2> HIDE DEF fenced
    <2> QED  BY <1>2, <2>1, <2>2
  <1>8. ASSUME NEW v \in Versions, RegisterVersion(v) \/ ReviseVersion(v) PROVE Goal
    BY <1>1, <1>8 DEF RegisterVersion, ReviseVersion
  <1>9. ASSUME NEW v \in Versions, NEW verdict \in Verdicts, PublishCompatibility(v, verdict)
        PROVE Goal
    BY <1>1, <1>9 DEF PublishCompatibility
  <1>10. ASSUME NEW new \in Policies, SetPolicy(new) PROVE Goal
    BY <1>1, <1>10 DEF SetPolicy
  <1>11. ASSUME NEW v \in Versions, NEW s \in Scopes, NEW t \in Versions \cup {NoVersion},
                PromoteToCanary(v, s, t)
         PROVE Goal
    BY <1>1, <1>11 DEF PromoteToCanary
  <1>12. ASSUME NEW v \in Versions, NEW req \in PlanRequests, CreateRollout(v, req) PROVE Goal
    BY <1>1, <1>12 DEF CreateRollout
  <1>13. ASSUME NEW r \in DOMAIN rollouts, FailStage(r) \/ SupersedePlan(r) \/ StageFailure(r)
         PROVE Goal
    BY <1>1, <1>13 DEF FailStage, SupersedePlan, StageFailure, SupersedeRollout
  <1>14. ASSUME NEW v \in Versions, Retire(v) \/ Revalidate(v) PROVE Goal
    BY <1>1, <1>14 DEF Retire, Revalidate, SupersedeVersion
  <1>15. CASE Restart  BY <1>1, <1>15 DEF Restart
  <1>16. ASSUME NEW v \in Versions, NEW s \in Scopes, NEW t \in Versions \cup {NoVersion},
                NEW generation \in 0..MaxGeneration, PromotionRefused(v, s, t, generation)
         PROVE Goal
    BY <1>1, <1>16 DEF PromotionRefused
  <1>17. ASSUME NEW r \in DOMAIN rollouts, StageRefused(r) PROVE Goal
    BY <1>17, StageRefusedGrants
  <1>18. CASE UNCHANGED vars  BY <1>1, <1>18 DEF vars
  <1> QED
    BY <1>3, <1>4, <1>5, <1>6, <1>7, <1>8, <1>9, <1>10, <1>11, <1>12, <1>13, <1>14, <1>15, <1>16, <1>17, <1>18
       DEF Next

------------------------------------------------------------------------------
(* Superseding a plan withdraws its authority in the same step. *)

LEMMA SupersededField ==
    ASSUME NEW p \in Plan
    PROVE  /\ \A S : Touch(p, S).superseded = p.superseded
           /\ \A v : \A unset \in BOOLEAN : CompatibilityMoves(p, v, unset).superseded = p.superseded
           /\ StageDone(p).superseded = p.superseded
           /\ RefreshRoot(p).superseded = p.superseded
           /\ StageFailed(p).superseded = p.superseded
           /\ Decided(p).superseded = p.superseded
  BY DEF Touch, CompatibilityMoves, StageDone, RefreshRoot, StageFailed, Decided, Plan

LEMMA SupersedePlansField ==
    ASSUME TypeOK, NEW rs, NEW q \in DOMAIN rollouts, q \notin rs
    PROVE  SupersedePlans(rs)[q] = rollouts[q]
  BY DEF SupersedePlans

LEMMA FencedStep ==
    ASSUME TypeOK, AuthorityWithinPlan, [Next]_vars, NEW q \in DOMAIN rollouts,
           ~rollouts[q].superseded, rollouts'[q].superseded
    PROVE  \A x \in authority' : x.rollout # q
  <1> DEFINE Goal == \A x \in authority' : x.rollout # q
  <1>0. rollouts[q] \in Plan /\ q # NoRollout  BY SentinelAssumption DEF TypeOK
  <1>1. ASSUME UNCHANGED rollouts PROVE FALSE  BY <1>1
  <1>2. ASSUME NEW v \in Versions, ReviseVersion(v) PROVE Goal
    <2> DEFINE c == CompatibilityMoves(rollouts[q], v, TRUE)
    <2>1. c \in Plan /\ c.superseded = rollouts[q].superseded
      BY <1>0, CompatibilityMovesType, SupersededField
    <2>2. rollouts'[q] = [c EXCEPT !.superseded = @ \/ q \in LivePlansFor(v)]
      BY <1>2 DEF ReviseVersion
    <2>3. q \in LivePlansFor(v)
      <3>1. SUFFICES ASSUME q \notin LivePlansFor(v) PROVE FALSE  OBVIOUS
      <3>2. rollouts'[q] = [c EXCEPT !.superseded = @ \/ FALSE]  BY <2>2, <3>1
      <3> QED  BY <2>1, <3>2 DEF Plan
    <2> QED  BY <1>2, <2>3 DEF ReviseVersion
  <1>3. ASSUME NEW v \in Versions, NEW s \in Scopes, NEW t \in Versions \cup {NoVersion},
               NEW generation \in 0..MaxGeneration, PromoteImmediately(v, s, t, generation)
        PROVE Goal
    <2> DEFINE before == {y \in authority : y.rollout \notin InFlight(v)}
    <2>1. rollouts'[q] = Touch(SupersedePlans(InFlight(v))[q], {s})
      BY <1>3 DEF PromoteImmediately
    <2>2. q \in InFlight(v)  BY <1>0, <2>1, SupersedePlansField, SupersededField
    <2>3. \E vs : authority' = GrantExclusive(before, vs, v, {s}, NoRollout, t, generation)
      BY <1>3 DEF PromoteImmediately
    <2>4. before \in SUBSET BindingRecord /\ \A y \in before : y.rollout # q
      BY <2>2 DEF TypeOK
    <2> HIDE DEF before
    <2> QED  BY <1>0, <2>3, <2>4, GrantExclusiveFrom DEF From
  <1>4. ASSUME NEW v \in Versions, NEW s \in Scopes, NEW t \in Versions \cup {NoVersion},
               PromoteToCanary(v, s, t)
        PROVE Goal
    <2>1. rollouts' = SupersedePlans(InFlight(v))  BY <1>4 DEF PromoteToCanary
    <2>2. q \in InFlight(v)  BY <2>1, SupersedePlansField
    <2> QED  BY <1>4, <2>2 DEF PromoteToCanary
  <1>5. ASSUME NEW r \in DOMAIN rollouts, SupersedePlan(r) PROVE Goal
    <2>1. rollouts' = SupersedePlans({r})  BY <1>5 DEF SupersedePlan
    <2>2. q = r  BY <2>1, SupersedePlansField
    <2> QED  BY <1>5, <2>2 DEF SupersedePlan, SupersedeRollout
  <1>6. ASSUME NEW v \in Versions, Retire(v) PROVE Goal
    <2> DEFINE t == Touch(rollouts[q], {s \in Scopes : <<v, s>> \in indexed})
    <2>1. t.superseded = rollouts[q].superseded /\ t.candidate = rollouts[q].candidate
      <3>1. t.superseded = rollouts[q].superseded  BY <1>0, SupersededField
      <3>2. Continues(rollouts[q], t)  BY <1>0, PlanHelpers
      <3> QED  BY <3>1, <3>2 DEF Continues
    <2>2. rollouts'[q] = IF t.candidate = v THEN [t EXCEPT !.superseded = TRUE, !.entered = FALSE]
                         ELSE t
      BY <1>6 DEF Retire
    <2>3. rollouts[q].candidate = v  BY <2>1, <2>2
    <2> QED  BY <1>0, <1>6, <2>3 DEF Retire, SupersedeVersion, AuthorityWithinPlan
  \* No other operation supersedes a plan.
  <1>7. ASSUME NEW v \in Versions, Revalidate(v) PROVE FALSE
    <2>1. rollouts'[q] = CompatibilityMoves(rollouts[q], v, TRUE)  BY <1>7 DEF Revalidate
    <2>2. CompatibilityMoves(rollouts[q], v, TRUE).superseded = rollouts[q].superseded
      BY <1>0, SupersededField
    <2> QED  BY <2>1, <2>2
  <1>8. ASSUME NEW v \in Versions, NEW verdict \in Verdicts, PublishCompatibility(v, verdict)
        PROVE FALSE
    <2>1. rollouts'[q] = CompatibilityMoves(rollouts[q], v, FALSE)  BY <1>8 DEF PublishCompatibility
    <2>2. CompatibilityMoves(rollouts[q], v, FALSE).superseded = rollouts[q].superseded
      BY <1>0, SupersededField
    <2> QED  BY <2>1, <2>2
  <1>9. ASSUME NEW new \in Policies, SetPolicy(new) PROVE FALSE
    BY <1>0, <1>9 DEF SetPolicy, Plan
  <1>10. ASSUME NEW v \in Versions, NEW req \in PlanRequests, CreateRollout(v, req) PROVE FALSE
    BY <1>10 DEF CreateRollout
  <1>11. ASSUME NEW r \in DOMAIN rollouts, BeginRollout(r) PROVE FALSE
    <2> DEFINE t == Touch(rollouts[q], CanaryAdmitted(authority, indexed, pushed,
                                                      rollouts[r].request.stages[1].scopes))
               e == [t EXCEPT !.entered = TRUE]
    <2>1. t \in Plan /\ t.superseded = rollouts[q].superseded  BY <1>0, TouchType, SupersededField
    <2>2. rollouts'[q] \in {t, e, RefreshRoot(e)}  BY <1>11 DEF BeginRollout
    <2> HIDE DEF t
    <2>3. e \in Plan /\ e.superseded = t.superseded  BY <2>1 DEF Plan
    <2> HIDE DEF e
    <2> QED  BY <2>1, <2>2, <2>3, SupersededField
  <1>12. ASSUME NEW r \in DOMAIN rollouts, AdvanceStage(r) PROVE FALSE
    <2> DEFINE now == StageScopes(rollouts[r])
               S == now \cup
                    CanaryAdmitted(StageCommit(r, now), indexed \cup Index(rollouts[r].candidate, now),
                                   pushed + StagePushes(rollouts[r], now), NextStageScopes(rollouts[r]))
               t == Touch(rollouts[q], S)
               e == StageDone(t)
    <2>1. t \in Plan /\ t.superseded = rollouts[q].superseded  BY <1>0, TouchType, SupersededField
    <2>2. rollouts'[q] = t \/ (q = r /\ rollouts'[q] \in {e, RefreshRoot(e)})
      BY <1>12 DEF AdvanceStage
    <2>3. q = r => Live(t)
      BY <1>0, <1>12 DEF AdvanceStage, StageAdvanceAllowed, Touch, Live, Plan
    <2> HIDE DEF t
    <2>4. e.superseded = t.superseded  BY <2>1, SupersededField
    <2>5. q = r => e \in Plan  BY <2>1, <2>3, PlanHelpers DEF Continues
    <2> HIDE DEF e
    <2> QED  BY <2>1, <2>2, <2>4, <2>5, SupersededField
  <1>13. ASSUME NEW r \in DOMAIN rollouts, FailStage(r) PROVE FALSE
    BY <1>0, <1>13 DEF FailStage, Plan
  <1>14. ASSUME NEW r \in DOMAIN rollouts, StageFailure(r) PROVE FALSE
    BY <1>0, <1>14, SupersededField DEF StageFailure
  <1>15. ASSUME NEW v \in Versions, NEW t \in Versions, NEW s \in Scopes,
                NEW r \in DOMAIN rollouts \cup {NoRollout}, Rollback(v, t, s, r)
         PROVE FALSE
    <2> DEFINE f == [rollouts[q] EXCEPT !.failed = TRUE, !.entered = FALSE, !.decided = TRUE]
               g == [f EXCEPT !.rolled_back = TRUE]
               h == [rollouts[q] EXCEPT !.rolled_back = TRUE]
    <2>1. rollouts'[q] \in {Touch(rollouts[q], {s}), Touch(g, {s}), Touch(h, {s})}
      BY <1>15 DEF Rollback
    <2>2. /\ g \in Plan /\ g.superseded = rollouts[q].superseded
          /\ h \in Plan /\ h.superseded = rollouts[q].superseded
      BY <1>0 DEF Plan
    <2> HIDE DEF g, h
    <2> QED  BY <1>0, <2>1, <2>2, SupersededField
  <1>16. ASSUME NEW r \in DOMAIN rollouts, AutomaticRollback(r) PROVE FALSE
    <2> DEFINE f == StageFailed(rollouts[q])
               g == [f EXCEPT !.rolled_back = TRUE]
    <2>1. \E S : rollouts'[q] \in {Touch(rollouts[q], S), Touch(g, S)}
      BY <1>16 DEF AutomaticRollback
    <2>2. g \in Plan /\ g.superseded = rollouts[q].superseded  BY <1>0 DEF Plan, StageFailed
    <2> HIDE DEF g
    <2> QED  BY <1>0, <2>1, <2>2, SupersededField
  <1>17. ASSUME NEW v \in Versions, RegisterVersion(v) PROVE FALSE
    BY <1>1, <1>17 DEF RegisterVersion
  <1>18. CASE Restart  BY <1>1, <1>18 DEF Restart
  <1>19. ASSUME NEW v \in Versions, NEW s \in Scopes, NEW t \in Versions \cup {NoVersion},
                NEW generation \in 0..MaxGeneration, PromotionRefused(v, s, t, generation)
         PROVE Goal
    <2>1. rollouts' = SupersedePlans(InFlight(v))  BY <1>19 DEF PromotionRefused
    <2>2. q \in InFlight(v)  BY <2>1, SupersedePlansField
    <2> QED  BY <1>19, <2>2 DEF PromotionRefused
  <1>20. ASSUME NEW r \in DOMAIN rollouts, StageRefused(r) PROVE FALSE
    <2> DEFINE t == Touch(rollouts[q], ExclusiveAdmitted(rollouts[r]))
    <2>1. t \in Plan /\ t.superseded = rollouts[q].superseded  BY <1>0, TouchType, SupersededField
    <2>2. rollouts'[q] \in {t, Decided(t)}  BY <1>20 DEF StageRefused
    <2> HIDE DEF t
    <2> QED  BY <2>1, <2>2, SupersededField
  <1>21. CASE UNCHANGED vars  BY <1>1, <1>21 DEF vars
  <1> QED
    BY <1>2, <1>3, <1>4, <1>5, <1>6, <1>7, <1>8, <1>9, <1>10, <1>11, <1>12, <1>13, <1>14, <1>15,
       <1>16, <1>17, <1>18, <1>19, <1>20, <1>21 DEF Next

------------------------------------------------------------------------------
(* The inductive invariant of the plans. *)

\* create_rollout checked that every scope of every stage lies below the root.
PlansWithinRoot ==
    \A r \in DOMAIN rollouts : \A i \in DOMAIN rollouts[r].request.stages :
        rollouts[r].request.stages[i].scopes \subseteq Subtree[rollouts[r].request.root]

PlanInv ==
    /\ RetirementInv
    /\ OneLivePlanPerCandidate
    /\ LivePlanIsCurrent
    /\ SupersededPlanHoldsNothing
    /\ AuthorityWithinPlan
    /\ PlansWithinRoot

LEMMA OneLiveStep ==
    ASSUME PlanInv, [Next]_vars
    PROVE  OneLivePlanPerCandidate'
  <1>1. \A r \in DOMAIN rollouts' : PlanKept(r) \/ PlanCreated(r)
    BY PlanIdentityStep DEF PlanInv, RetirementInv
  <1>2. SUFFICES ASSUME NEW q \in LivePlans', NEW r \in LivePlans',
                        rollouts'[q].candidate = rollouts'[r].candidate
                 PROVE  q = r
    BY DEF OneLivePlanPerCandidate
  <1>3. ASSUME NEW u \in LivePlans', PlanKept(u)
        PROVE  u \in LivePlans /\ rollouts[u].candidate = rollouts'[u].candidate
    BY <1>3 DEF LivePlans, PlanKept, Continues, Live
  <1>4. CASE PlanKept(q) /\ PlanKept(r)
    BY <1>2, <1>3, <1>4 DEF PlanInv, OneLivePlanPerCandidate
  <1>5. ASSUME NEW u \in LivePlans', NEW w \in LivePlans', PlanCreated(u), PlanKept(w),
               rollouts'[u].candidate = rollouts'[w].candidate
        PROVE  FALSE
    BY <1>3, <1>5 DEF PlanCreated, NoLivePlanFor, LivePlansFor
  <1>6. CASE PlanCreated(q) /\ PlanCreated(r)
    BY <1>6 DEF PlanCreated, LivePlans
  <1> QED  BY <1>1, <1>2, <1>4, <1>5, <1>6 DEF LivePlans

\* A step that revises or retires the candidate of a live plan fences the plan.
LEMMA LiveCurrentStep ==
    ASSUME PlanInv, [Next]_vars
    PROVE  LivePlanIsCurrent'
  <1>1. SUFFICES ASSUME NEW r \in LivePlans'
                 PROVE  /\ rollouts'[r].candidate \in DOMAIN versions'
                        /\ versions'[rollouts'[r].candidate].state # "RETIRED"
                        /\ versions'[rollouts'[r].candidate].generation = rollouts'[r].generation
    BY DEF LivePlanIsCurrent, Retired
  <1>2. r \in DOMAIN rollouts' /\ Live(rollouts'[r])  BY DEF LivePlans
  <1>3. CASE PlanCreated(r)
    BY <1>3 DEF PlanCreated, Retired
  <1>4. CASE PlanKept(r)
    <2> DEFINE v == rollouts[r].candidate
    <2>1. /\ r \in LivePlans /\ rollouts'[r].candidate = v
          /\ rollouts'[r].generation = rollouts[r].generation
      BY <1>2, <1>4 DEF LivePlans, PlanKept, Continues, Live
    <2>2. /\ v \in DOMAIN versions /\ versions[v].state # "RETIRED"
          /\ versions[v].generation = rollouts[r].generation
      BY <2>1 DEF PlanInv, LivePlanIsCurrent, Retired
    <2>3. rollouts[r] \in Plan /\ versions \in [DOMAIN versions -> VersionRecord]
      BY <2>1 DEF LivePlans, PlanInv, RetirementInv, TypeOK
    <2>4. v \in DOMAIN versions' /\ versions'[v].generation = versions[v].generation
      <3>1. CASE Steady  BY <2>2, <3>1 DEF Steady, SameGenerations
      <3>2. ASSUME NEW w \in Versions, ReviseVersion(w)
            PROVE  v \in DOMAIN versions' /\ versions'[v].generation = versions[v].generation
        <4>1. CASE v = w
          <5>1. r \in LivePlansFor(w)  BY <2>1, <4>1 DEF LivePlansFor
          <5> DEFINE c == CompatibilityMoves(rollouts[r], w, TRUE)
          <5>2. c \in Plan  BY <2>3, CompatibilityMovesType
          <5>3. rollouts'[r] = [c EXCEPT !.superseded = @ \/ TRUE]
            BY <2>1, <3>2, <5>1 DEF ReviseVersion, LivePlans
          <5> HIDE DEF c
          <5> QED  BY <1>2, <5>2, <5>3 DEF Live, Plan
        <4>2. CASE v # w  BY <2>2, <3>2, <4>2 DEF ReviseVersion
        <4> QED  BY <4>1, <4>2
      <3> QED  BY <3>1, <3>2, SteadyStep DEF PlanInv
    <2>5. versions'[v].state # "RETIRED"
      <3>1. CASE Safe  BY <2>2, <3>1 DEF Safe, KeepsRetired
      <3>2. ASSUME NEW w \in Versions, Retire(w) PROVE versions'[v].state # "RETIRED"
        <4>1. v # w  BY <2>1, <3>2 DEF Retire, RetirementAllowed
        <4> QED  BY <2>2, <3>2, <4>1 DEF Retire, Advance
      <3> QED  BY <3>1, <3>2, SafeStep DEF PlanInv
    <2> QED  BY <2>1, <2>2, <2>4, <2>5
  <1> QED  BY <1>2, <1>3, <1>4, PlanIdentityStep DEF PlanInv, RetirementInv

LEMMA SupersededStep ==
    ASSUME PlanInv, [Next]_vars
    PROVE  SupersededPlanHoldsNothing'
  <1>0. TypeOK /\ RetirementInv  BY DEF PlanInv, RetirementInv
  <1>1. SUFFICES ASSUME NEW q \in DOMAIN rollouts', rollouts'[q].superseded,
                        NEW x \in authority', x.rollout = q
                 PROVE  FALSE
    BY DEF SupersededPlanHoldsNothing
  <1>2. q \in RolloutIds /\ q # NoRollout
    BY <1>0, TypeStep, SentinelAssumption DEF TypeOK
  <1>3. CASE PlanCreated(q)
    <2>1. x \in authority /\ q \notin DOMAIN rollouts  BY <1>3 DEF PlanCreated
    <2> QED  BY <1>1, <1>2, <2>1 DEF PlanInv, AuthorityWithinPlan
  <1>4. CASE PlanKept(q)
    <2>1. q \in DOMAIN rollouts  BY <1>4 DEF PlanKept
    <2>2. rollouts[q].superseded  BY <1>0, <1>1, <2>1, FencedStep DEF PlanInv
    <2>3. \A y \in authority : y.rollout # q
      BY <2>1, <2>2 DEF PlanInv, SupersededPlanHoldsNothing
    <2>4. \E r \in DOMAIN rollouts : GrantedBy(r, x)
      BY <1>0, <1>1, <1>2, <2>3, AuthorityStep DEF From
    <2> QED  BY <1>1, <2>2, <2>4 DEF GrantedBy, Live
  <1> QED  BY <1>0, <1>3, <1>4, PlanIdentityStep

\* The plan of an advanced stage has decided that stage, and is in the next one if
\* there is one; a refused advance leaves the plan where it was, decided.
LEMMA AdvanceStagePlan ==
    ASSUME TypeOK, NEW r \in DOMAIN rollouts, AdvanceStage(r)
    PROVE  /\ StageDecided(rollouts'[r], rollouts[r].index)
           /\ ~LastStage(rollouts[r]) => rollouts'[r].index = rollouts[r].index + 1
  <1> DEFINE p == rollouts[r]
             now == StageScopes(p)
             S == now \cup CanaryAdmitted(StageCommit(r, now), indexed \cup Index(p.candidate, now),
                                         pushed + StagePushes(p, now), NextStageScopes(p))
             t == Touch(p, S)
             e == StageDone(t)
  <1>1. p \in Plan  BY DEF TypeOK
  <1>2. t \in Plan /\ t.index = p.index /\ t.request = p.request  BY <1>1, TouchType
  <1>3. rollouts'[r] \in {e, RefreshRoot(e)}  BY DEF AdvanceStage
  <1>4. p.index \in Nat /\ (LastStage(t) <=> LastStage(p))  BY <1>1, <1>2 DEF LastStage, Plan
  <1> HIDE DEF t
  <1>5. /\ LastStage(p) => e.decided /\ e.index = p.index
        /\ ~LastStage(p) => e.index = p.index + 1
    BY <1>2, <1>4 DEF StageDone, Plan
  <1>6. RefreshRoot(e).index = e.index /\ RefreshRoot(e).decided = e.decided
    BY <1>2 DEF RefreshRoot, StageDone, Plan
  <1> HIDE DEF e
  <1> QED  BY <1>3, <1>4, <1>5, <1>6 DEF StageDecided

LEMMA StageRefusedPlan ==
    ASSUME TypeOK, NEW r \in DOMAIN rollouts, StageRefused(r)
    PROVE  StageDecided(rollouts'[r], rollouts[r].index)
  <1> DEFINE t == Touch(rollouts[r], ExclusiveAdmitted(rollouts[r]))
  <1>1. t \in Plan /\ t.index = rollouts[r].index  BY TouchType DEF TypeOK
  <1>2. rollouts'[r] = Decided(t)  BY DEF StageRefused
  <1> HIDE DEF t
  <1> QED  BY <1>1, <1>2 DEF StageDecided, Decided, Plan


LEMMA DecidedContinues ==
    ASSUME NEW p \in Plan, NEW q, Continues(p, q), NEW i \in 1..p.index
    PROVE  /\ i \in 1..q.index
           /\ StageDecided(p, i) => StageDecided(q, i)
  <1>1. p.index \in Nat /\ q.index \in Nat /\ p.index <= q.index  BY DEF Continues, Plan
  <1>2. p.decided => q.decided \/ q.index # p.index  BY DEF Continues
  <1> QED  BY <1>1, <1>2 DEF StageDecided


LEMMA WithinPlanStep ==
    ASSUME PlanInv, [Next]_vars
    PROVE  AuthorityWithinPlan'
  <1>0. TypeOK /\ RetirementInv /\ TypeOK'  BY TypeStep DEF PlanInv, RetirementInv
  <1>1. SUFFICES ASSUME NEW x \in authority', x.rollout # NoRollout
                 PROVE  /\ x.rollout \in DOMAIN rollouts'
                        /\ LET p == rollouts'[x.rollout] IN
                            /\ x.version = p.candidate
                            /\ x.generation = p.generation
                            /\ x.scope \in Subtree[p.request.root]
                            /\ \E i \in 1..p.index :
                                /\ x.scope \in p.request.stages[i].scopes
                                /\ x.kind = "Exclusive" => StageDecided(p, i)
    BY DEF AuthorityWithinPlan
  <1> DEFINE r == x.rollout
             p == rollouts[r]
             q == rollouts'[r]
  <1>2. ASSUME r \in DOMAIN rollouts
        PROVE  r \in DOMAIN rollouts' /\ Continues(p, q) /\ p \in Plan /\ p.index \in Nat
    <2>1. r \in DOMAIN rollouts'  BY <1>0, <1>2, GrowsStep DEF Grows
    <2>2. PlanKept(r)  BY <1>0, <1>2, <2>1, PlanIdentityStep DEF PlanCreated
    <2>3. p \in Plan  BY <1>0, <1>2 DEF TypeOK
    <2> QED  BY <2>1, <2>2, <2>3 DEF PlanKept, Plan
  <1>3. CASE From(authority, x)
    <2>1. PICK y \in authority : /\ y.scope = x.scope /\ y.version = x.version
                                 /\ y.generation = x.generation /\ y.rollout = x.rollout
                                 /\ x.kind = "Exclusive" => y.kind = "Exclusive"
      BY <1>3 DEF From
    <2>2. /\ r \in DOMAIN rollouts
          /\ y.version = p.candidate /\ y.generation = p.generation
          /\ y.scope \in Subtree[p.request.root]
          /\ \E i \in 1..p.index : /\ y.scope \in p.request.stages[i].scopes
                                   /\ y.kind = "Exclusive" => StageDecided(p, i)
      BY <1>1, <2>1 DEF PlanInv, AuthorityWithinPlan
    <2>3. PICK i \in 1..p.index : /\ x.scope \in p.request.stages[i].scopes
                                  /\ x.kind = "Exclusive" => StageDecided(p, i)
      BY <2>1, <2>2
    <2>4. /\ r \in DOMAIN rollouts' /\ p \in Plan /\ Continues(p, q)
      BY <1>2, <2>2
    <2>5. /\ x.version = q.candidate /\ x.generation = q.generation
          /\ x.scope \in Subtree[q.request.root] /\ x.scope \in q.request.stages[i].scopes
      BY <2>1, <2>2, <2>3, <2>4 DEF Continues
    <2>6. i \in 1..q.index /\ (x.kind = "Exclusive" => StageDecided(q, i))
      BY <2>3, <2>4, DecidedContinues
    <2> HIDE DEF q
    <2>7. QED  BY <2>4, <2>5, <2>6 DEF q
  <1>4. ASSUME NEW u \in DOMAIN rollouts, GrantedBy(u, x) PROVE u = r  BY <1>4 DEF GrantedBy
  <1>5. CASE r \in DOMAIN rollouts /\ GrantedBy(r, x)
    <2>1. /\ r \in DOMAIN rollouts' /\ Continues(p, q) /\ p \in Plan /\ p.index \in Nat
      BY <1>2, <1>5
    <2>2. x.version = q.candidate /\ x.generation = q.generation
      BY <1>5, <2>1 DEF GrantedBy, Continues
    <2>3. /\ p.index \in DOMAIN p.request.stages /\ 1 \in DOMAIN p.request.stages
          /\ q.index \in DOMAIN p.request.stages /\ q.index \in Nat /\ p.index <= q.index
          /\ p.index >= 1
      <3>1. p.index \in DOMAIN p.request.stages /\ q.index \in DOMAIN q.request.stages
        BY <1>0, <1>5, <2>1 DEF TypeOK
      <3>2. 1 \in DOMAIN p.request.stages /\ p.request.stages \in Seq(Stage)
        BY <2>1, PlanRequestType
      <3> QED  BY <2>1, <3>1, <3>2 DEF Continues, Plan
    <2>4. \E i \in DOMAIN p.request.stages :
            /\ x.scope \in p.request.stages[i].scopes
            /\ i \in 1..q.index
            /\ x.kind = "Exclusive" => StageDecided(q, i)
      <3>1. CASE x.kind = "Canary" /\ x.scope \in p.request.stages[1].scopes
        <4>1. 1 \in 1..q.index  BY <2>1, <2>3
        <4> QED  BY <2>3, <3>1, <4>1
      <3>2. CASE (AdvanceStage(r) \/ StageRefused(r)) /\ x.scope \in StageScopes(p)
        <4>1. StageDecided(q, p.index)
          BY <1>0, <1>5, <3>2, AdvanceStagePlan, StageRefusedPlan
        <4>2. p.index \in 1..q.index  BY <2>1, <2>3
        <4> QED  BY <2>3, <3>2, <4>1, <4>2 DEF StageScopes
      <3>3. CASE AdvanceStage(r) /\ x.kind = "Canary" /\ x.scope \in NextStageScopes(p)
        <4>1. ~LastStage(p) /\ x.scope \in p.request.stages[p.index + 1].scopes
          BY <3>3 DEF NextStageScopes
        <4>2. q.index = p.index + 1  BY <1>0, <1>5, <3>3, <4>1, AdvanceStagePlan
        <4>3. q.index \in 1..q.index  BY <2>1, <2>3
        <4> QED  BY <2>3, <3>3, <4>1, <4>2, <4>3
      <3> QED  BY <1>5, <3>1, <3>2, <3>3 DEF GrantedBy
    <2>5. PICK i \in DOMAIN p.request.stages :
            /\ x.scope \in p.request.stages[i].scopes
            /\ i \in 1..q.index
            /\ x.kind = "Exclusive" => StageDecided(q, i)
      BY <2>4
    <2>6. x.scope \in Subtree[p.request.root]
      BY <1>5, <2>5 DEF PlanInv, PlansWithinRoot
    <2>7. q.request = p.request  BY <2>1 DEF Continues
    <2> HIDE DEF q
    <2> QED  BY <2>1, <2>2, <2>5, <2>6, <2>7 DEF q
  <1> QED  BY <1>0, <1>1, <1>3, <1>4, <1>5, AuthorityStep

LEMMA PlanStep ==
    ASSUME PlanInv, [Next]_vars
    PROVE  PlanInv'
  <1>1. RetirementInv /\ TypeOK  BY DEF PlanInv, RetirementInv
  <1>2. RetirementInv'  BY <1>1, RetirementStep
  <1>3. PlansWithinRoot'
    BY <1>1, PlanIdentityStep DEF PlanInv, PlansWithinRoot, PlanKept, PlanCreated, Continues
  <1> QED
    BY <1>2, <1>3, OneLiveStep, LiveCurrentStep, SupersededStep, WithinPlanStep DEF PlanInv

LEMMA PlanInit == Init => PlanInv
  BY RetirementInit DEF Init, PlanInv, OneLivePlanPerCandidate, LivePlanIsCurrent, LivePlans,
     SupersededPlanHoldsNothing, AuthorityWithinPlan, PlansWithinRoot

LEMMA PlanAlways == Spec => []PlanInv
  <1>1. PlanInv /\ [Next]_vars => PlanInv'  BY PlanStep
  <1> QED  BY PlanInit, <1>1, PTL DEF Spec

------------------------------------------------------------------------------
(* The theorems. *)

\* Two rollouts never compete for one candidate: the live-plan checks of promote and
\* create_rollout, and the ends every other operation gives a plan, leave no second one.
THEOREM PlansNeverCompete == Spec => []OneLivePlanPerCandidate
  <1>1. PlanInv => OneLivePlanPerCandidate  BY DEF PlanInv
  <1> QED  BY <1>1, PlanAlways, PTL

\* A plan that may still be advanced was made for the candidate as it is now:
\* revise_version and retire fence every plan they outdate.
THEOREM LivePlansAreCurrent == Spec => []LivePlanIsCurrent
  <1>1. PlanInv => LivePlanIsCurrent  BY DEF PlanInv
  <1> QED  BY <1>1, PlanAlways, PTL

\* A superseded rollout holds nothing: supersede_rollout, and the revisions, promotions
\* and retirements that supersede, withdraw every binding, and no later request for the
\* plan, not even the failure path of advance_stage, brings one back.
THEOREM SupersededPlansHoldNothing == Spec => []SupersededPlanHoldsNothing
  <1>1. PlanInv => SupersededPlanHoldsNothing  BY DEF PlanInv
  <1> QED  BY <1>1, PlanAlways, PTL

\* Authority granted for a rollout is the candidate's, at the plan's generation, below
\* its root and in a stage entered; it is exclusive only where advance_stage recorded its
\* decision, also when the full table refused a scope of that stage half way.
THEOREM AuthorityStaysWithinPlan == Spec => []AuthorityWithinPlan
  <1>1. PlanInv => AuthorityWithinPlan  BY DEF PlanInv
  <1> QED  BY <1>1, PlanAlways, PTL

\* The end of a plan is final: no operation revives it or moves it to another stage.
THEOREM PlansDieOnce == Spec => PlanDeathIsFinal
  <1> DEFINE A == \A r \in DOMAIN rollouts :
                    ~Live(rollouts[r]) => /\ ~Live(rollouts'[r])
                                          /\ rollouts'[r].index = rollouts[r].index
  <1>1. ASSUME PlanInv, [Next]_vars PROVE A
    <2>1. TypeOK /\ RetirementInv  BY <1>1 DEF PlanInv, RetirementInv
    <2>2. \A r \in DOMAIN rollouts : r \in DOMAIN rollouts'  BY <1>1, <2>1, GrowsStep DEF Grows
    <2>3. \A r \in DOMAIN rollouts : PlanKept(r)
      BY <1>1, <2>1, <2>2, PlanIdentityStep DEF PlanCreated
    <2> QED  BY <2>3 DEF PlanKept, Continues, Live
  <1>2. PlanInv /\ [Next]_vars => [A]_vars  BY <1>1
  <1> QED  BY <1>2, PlanAlways, PTL DEF Spec, PlanDeathIsFinal

\* Serving authority for a rollout appears only while its plan is live: a late or
\* repeated begin_rollout or advance_stage is refused before it grants anything.
THEOREM DeadPlansGainNothing == Spec => OnlyLivePlansGainAuthority
  <1> DEFINE A == \A x \in authority' \ authority :
                    (x.rollout # NoRollout /\ x.kind \in {"Exclusive", "Canary"}) =>
                        x.rollout \in LivePlans
  <1>1. ASSUME PlanInv, [Next]_vars PROVE A
    <2>1. SUFFICES ASSUME NEW x \in authority', x \notin authority, x.rollout # NoRollout,
                          x.kind \in {"Exclusive", "Canary"}
                   PROVE  x.rollout \in LivePlans
      OBVIOUS
    <2>2. ~From(authority, x)  BY <2>1 DEF From
    <2>3. \E r \in DOMAIN rollouts : GrantedBy(r, x)
      BY <1>1, <2>1, <2>2, AuthorityStep DEF PlanInv
    <2> QED  BY <2>3 DEF GrantedBy, LivePlans
  <1>2. PlanInv /\ [Next]_vars => [A]_vars  BY <1>1
  <1> QED  BY <1>2, PlanAlways, PTL DEF Spec, OnlyLivePlansGainAuthority

==============================================================================
