---------------------------- MODULE RefinementProofs ----------------------------
(***************************************************************************)
(* The engine implements ServingAuthority.  Under the refinement mapping a   *)
(* scope is served by the holder of its exclusive binding, which is unique;  *)
(* every step hands exclusive bindings to one version at most, so it maps to *)
(* a Handover, to the abstract Retire, or to a stutter.                      *)
(***************************************************************************)
EXTENDS AuthorityProofs

------------------------------------------------------------------------------
(* The mapping. *)

\* Serving, for the bindings b.
ServingIn(b) ==
    [s \in Scopes |-> IF ExclusiveAt(b, s) = {} THEN NoVersion
                      ELSE (CHOOSE x \in ExclusiveAt(b, s) : TRUE).version]

LEMMA ServingIsIn == Serving = ServingIn(authority)
  BY DEF Serving, ServingIn

\* Whoever holds the exclusive binding of a scope serves it, and nobody else does.
LEMMA ServingHolder ==
    ASSUME NEW b \in SUBSET BindingRecord, Single(b)
    PROVE  /\ ServingIn(b) \in [Scopes -> Versions \cup {NoVersion}]
           /\ \A x \in b : x.kind = "Exclusive" => ServingIn(b)[x.scope] = x.version
           /\ \A s \in Scopes : \/ ServingIn(b)[s] = NoVersion
                                \/ \E x \in b : /\ x.kind = "Exclusive" /\ x.scope = s
                                                /\ x.version = ServingIn(b)[s]
  <1>1. ASSUME NEW s \in Scopes, NEW x \in ExclusiveAt(b, s)
        PROVE  (CHOOSE y \in ExclusiveAt(b, s) : TRUE) = x
    BY <1>1 DEF ExclusiveAt, LiveAt, Single
  <1>2. ASSUME NEW s \in Scopes, NEW x \in ExclusiveAt(b, s)
        PROVE  ServingIn(b)[s] = x.version
    BY <1>1, <1>2 DEF ServingIn
  <1>3. ASSUME NEW s \in Scopes, ExclusiveAt(b, s) = {} PROVE ServingIn(b)[s] = NoVersion
    BY <1>3 DEF ServingIn
  <1>4. ASSUME NEW x \in b, x.kind = "Exclusive"
        PROVE  x.scope \in Scopes /\ x.version \in Versions /\ x \in ExclusiveAt(b, x.scope)
    BY <1>4 DEF BindingRecord, ExclusiveAt, LiveAt
  <1>5. \A s \in Scopes : \A x \in ExclusiveAt(b, s) :
            x \in b /\ x.kind = "Exclusive" /\ x.scope = s /\ x.version \in Versions
    BY DEF ExclusiveAt, LiveAt, BindingRecord
  <1>6. ServingIn(b) = [s \in Scopes |-> ServingIn(b)[s]]  BY DEF ServingIn
  <1>7. \A s \in Scopes : ServingIn(b)[s] \in Versions \cup {NoVersion}  BY <1>2, <1>3, <1>5
  <1>8. ServingIn(b) \in [Scopes -> Versions \cup {NoVersion}]  BY <1>6, <1>7
  <1>9. \A x \in b : x.kind = "Exclusive" => ServingIn(b)[x.scope] = x.version  BY <1>2, <1>4
  <1>10. \A s \in Scopes : \/ ServingIn(b)[s] = NoVersion
                           \/ \E x \in b : /\ x.kind = "Exclusive" /\ x.scope = s
                                           /\ x.version = ServingIn(b)[s]
    BY <1>2, <1>3, <1>5
  <1> QED  BY <1>8, <1>9, <1>10

\* The exclusive bindings of b were in authority or are held by v.
OnlyTo(v, b) == \A x \in b : x.kind = "Exclusive" => x \in authority \/ x.version = v

LEMMA GrantExclusiveOnlyTo ==
    ASSUME TypeOK, NEW b \in SUBSET authority, NEW vs, NEW v, NEW S, NEW r, NEW t, NEW g
    PROVE  OnlyTo(v, GrantExclusive(b, vs, v, S, r, t, g))
  <1>1. \A y \in Displaced(b, S) : y \in b  BY DEF Displaced, ExclusiveAt, LiveAt
  <1>2. \A x \in GrantExclusive(b, vs, v, S, r, t, g) :
            x \in b \/ x.version = v \/ x.kind = "RollbackRetained"
    BY <1>1 DEF GrantExclusive, Retained, Binding, BindingRecord, TypeOK
  <1> QED  BY <1>2 DEF OnlyTo

LEMMA MarkDrainingOnlyTo ==
    ASSUME NEW v, NEW b \in SUBSET BindingRecord, OnlyTo(v, b), NEW w, NEW S
    PROVE  OnlyTo(v, MarkDraining(b, w, S))
  <1>1. \A x \in MarkDraining(b, w, S) : x \in b \/ x.kind = "Draining"
    BY DEF MarkDraining, BindingRecord
  <1> QED  BY <1>1 DEF OnlyTo

LEMMA CanaryGrantsOnlyTo ==
    ASSUME NEW v, NEW b, OnlyTo(v, b), NEW S, NEW g, NEW r
    PROVE  OnlyTo(v, b \cup CanaryGrants(S, v, g, r))
  BY DEF OnlyTo, CanaryGrants, Binding

LEMMA StageCommitOnlyTo ==
    ASSUME TypeOK, NEW r \in DOMAIN rollouts, NEW W \in SUBSET Scopes,
           StageAdvanceAllowed(rollouts[r])
    PROVE  OnlyTo(rollouts[r].candidate, StageCommit(r, W))
  <1> DEFINE v == rollouts[r].candidate
  <1>1. /\ r \in RolloutIds /\ v \in Versions
        /\ versions[v].generation \in 1..MaxGeneration
    BY StageTypes, StageCommitType
  <1>2. StageGrant(r, W) \in SUBSET BindingRecord
    BY <1>1, GrantExclusiveType DEF StageGrant, TypeOK
  <1>3. OnlyTo(v, StageGrant(r, W))  BY GrantExclusiveOnlyTo DEF StageGrant
  <1> QED  BY <1>2, <1>3, MarkDrainingOnlyTo DEF StageCommit

\* One step gives exclusive authority to one version at most.
LEMMA OneReceiver ==
    ASSUME RetirementInv, [Next]_vars
    PROVE  UNCHANGED <<versions, authority>> \/ \E v \in Versions : OnlyTo(v, authority')
  <1> USE DEF RetirementInv
  <1> DEFINE Goal == UNCHANGED <<versions, authority>> \/ \E v \in Versions : OnlyTo(v, authority')
  <1>1. ASSUME NEW v \in Versions, authority' \in SUBSET authority PROVE Goal
    BY <1>1 DEF OnlyTo
  <1>2. \A r \in DOMAIN rollouts : rollouts[r].candidate \in Versions  BY DEF TypeOK, Plan
  <1>3. ASSUME NEW v \in Versions, NEW s \in Scopes, NEW t \in Versions \cup {NoVersion},
               NEW generation \in 0..MaxGeneration, PromoteImmediately(v, s, t, generation)
        PROVE Goal
    <2> DEFINE before == {x \in authority : x.rollout \notin InFlight(v)}
    <2>1. \E vs : authority' = GrantExclusive(before, vs, v, {s}, NoRollout, t, generation)
      BY <1>3 DEF PromoteImmediately
    <2>2. before \in SUBSET authority  OBVIOUS
    <2> HIDE DEF before
    <2> QED  BY <2>1, <2>2, GrantExclusiveOnlyTo
  <1>4. ASSUME NEW r \in DOMAIN rollouts, BeginRollout(r) PROVE Goal
    <2>1. OnlyTo(rollouts[r].candidate, authority)  BY DEF OnlyTo
    <2> QED  BY <1>2, <1>4, <2>1, CanaryGrantsOnlyTo DEF BeginRollout
  <1>5. ASSUME NEW r \in DOMAIN rollouts, AdvanceStage(r) PROVE Goal
    <2>1. OnlyTo(rollouts[r].candidate, StageCommit(r, StageScopes(rollouts[r])))
      BY <1>5, StageTypes, StageCommitOnlyTo DEF AdvanceStage
    <2> QED  BY <1>2, <1>5, <2>1, CanaryGrantsOnlyTo DEF AdvanceStage
  <1>6. ASSUME NEW v \in Versions, NEW t \in Versions, NEW s \in Scopes,
               NEW r \in DOMAIN rollouts \cup {NoRollout}, Rollback(v, t, s, r)
        PROVE Goal
    <2> DEFINE fenced == SupersedeScope(authority, s)
               granted == GrantExclusive(fenced, versions, t, {s}, NoRollout, NoVersion, 0)
    <2>1. fenced \in SUBSET authority /\ fenced \in SUBSET BindingRecord
      BY DEF SupersedeScope, TypeOK
    <2>2. versions[t].generation \in 1..MaxGeneration
      BY <1>6 DEF Rollback, RollbackAllowed, RollbackTargetAllowed, Known, TypeOK, VersionRecord
    <2>3. granted \in SUBSET BindingRecord  BY <2>1, <2>2, GrantExclusiveType
    <2>4. OnlyTo(t, granted)  BY <2>1, GrantExclusiveOnlyTo
    <2>5. authority' = MarkDraining(granted, v, {s})  BY <1>6 DEF Rollback
    <2> HIDE DEF granted
    <2> QED  BY <2>3, <2>4, <2>5, MarkDrainingOnlyTo
  <1>7. ASSUME NEW r \in DOMAIN rollouts, AutomaticRollback(r) PROVE Goal
    <2> DEFINE p == rollouts[r]
               fenced == SupersedeScope(SupersedeRollout(authority, r), p.request.root)
    <2>1. fenced \in SUBSET authority  BY DEF SupersedeScope, SupersedeRollout
    <2>2. \E vs : authority' = GrantExclusive(fenced, vs, p.candidate, {p.request.root}, NoRollout,
                                    p.request.target, p.request.target_generation)
      BY <1>7 DEF AutomaticRollback
    <2> HIDE DEF fenced
    <2> QED  BY <1>2, <2>1, <2>2, GrantExclusiveOnlyTo
  <1>8. ASSUME NEW v \in Versions, RegisterVersion(v) \/ ReviseVersion(v) PROVE Goal
    BY <1>1, <1>8 DEF RegisterVersion, ReviseVersion
  <1>9. ASSUME NEW v \in Versions, NEW verdict \in Verdicts, PublishCompatibility(v, verdict)
        PROVE Goal
    BY <1>1, <1>9 DEF PublishCompatibility
  <1>10. ASSUME NEW new \in Policies, SetPolicy(new) PROVE Goal  BY <1>10 DEF SetPolicy
  <1>11. ASSUME NEW v \in Versions, NEW s \in Scopes, NEW t \in Versions \cup {NoVersion},
                PromoteToCanary(v, s, t)
         PROVE Goal
    BY <1>1, <1>11 DEF PromoteToCanary
  <1>12. ASSUME NEW v \in Versions, NEW req \in PlanRequests, CreateRollout(v, req) PROVE Goal
    BY <1>12 DEF CreateRollout
  <1>13. ASSUME NEW r \in DOMAIN rollouts, FailStage(r) \/ SupersedePlan(r) \/ StageFailure(r)
         PROVE Goal
    BY <1>1, <1>2, <1>13 DEF FailStage, SupersedePlan, StageFailure, SupersedeRollout
  <1>14. ASSUME NEW v \in Versions, Retire(v) \/ Revalidate(v) PROVE Goal
    BY <1>1, <1>14 DEF Retire, Revalidate, SupersedeVersion
  <1>15. CASE Restart  BY <1>15 DEF Restart
  <1>16. ASSUME NEW v \in Versions, NEW s \in Scopes, NEW t \in Versions \cup {NoVersion},
                NEW generation \in 0..MaxGeneration, PromotionRefused(v, s, t, generation)
         PROVE Goal
    BY <1>1, <1>16 DEF PromotionRefused
  <1>17. ASSUME NEW r \in DOMAIN rollouts, StageRefused(r) PROVE Goal
    BY <1>2, <1>17, StageTypes, StageCommitOnlyTo DEF StageRefused, ExclusiveAdmitted
  <1>18. CASE UNCHANGED vars  BY <1>18 DEF vars
  <1> QED
    BY <1>3, <1>4, <1>5, <1>6, <1>7, <1>8, <1>9, <1>10, <1>11, <1>12, <1>13, <1>14, <1>15, <1>16, <1>17, <1>18
       DEF Next

------------------------------------------------------------------------------
(* The steps. *)

LEMMA MapsToHandover ==
    ASSUME RestartInv, RestartInv', Safe, NEW v \in Versions, OnlyTo(v, authority')
    PROVE  Abstract!Next
  <1>1. /\ Single(authority) /\ Single(authority')
        /\ authority \subseteq BindingRecord /\ authority' \subseteq BindingRecord
    BY DEF RestartInv, RetirementInv, TypeOK, SingleExclusive, Single
  <1>2. /\ Serving \in [Scopes -> Versions \cup {NoVersion}]
        /\ \A x \in authority : x.kind = "Exclusive" => Serving[x.scope] = x.version
    BY <1>1, ServingHolder, ServingIsIn
  <1>3. /\ Serving' \in [Scopes -> Versions \cup {NoVersion}]
        /\ \A s \in Scopes : \/ Serving'[s] = NoVersion
                             \/ \E x \in authority' : /\ x.kind = "Exclusive"
                                                      /\ x.scope = s /\ x.version = Serving'[s]
    <2>1. Serving' = ServingIn(authority')  BY DEF Serving, ServingIn
    <2> QED  BY <1>1, <2>1, ServingHolder
  <1> DEFINE given == {s \in Scopes : Serving'[s] = v}
             withdrawn == {s \in Scopes : Serving'[s] = NoVersion}
  <1>4. \A s \in Scopes : Serving'[s] \in {v, NoVersion, Serving[s]}
    BY <1>2, <1>3 DEF OnlyTo
  <1>5. RetiredVersions' = RetiredVersions
    BY DEF Safe, KeepsRetired, RetiredVersions, Retired
  <1>6. given # {} => v \notin RetiredVersions
    <2>1. \A x \in authority' : x.version \notin RetiredVersions
      BY DEF Safe, Holders, Serviceable, RetiredVersions
    <2>2. v # NoVersion  BY SentinelAssumption
    <2> QED  BY <1>3, <2>1, <2>2
  <1>7. Serving' = [s \in Scopes |-> IF s \in given THEN v
                                     ELSE IF s \in withdrawn THEN NoVersion ELSE Serving[s]]
    BY <1>3, <1>4
  <1>8. given \in SUBSET Scopes /\ withdrawn \in SUBSET Scopes  OBVIOUS
  <1> HIDE DEF given, withdrawn
  <1>9. Abstract!Handover(v, given, withdrawn)  BY <1>5, <1>6, <1>7 DEF Abstract!Handover
  <1> QED  BY <1>8, <1>9 DEF Abstract!Next

LEMMA MapsToRetire ==
    ASSUME RestartInv, RestartInv', NEW v \in Versions, Retire(v)
    PROVE  Abstract!Retire(v)
  <1>1. /\ Single(authority) /\ Single(authority')
        /\ authority \subseteq BindingRecord /\ authority' \subseteq BindingRecord
    BY DEF RestartInv, RetirementInv, TypeOK, SingleExclusive, Single
  <1>2. \A x \in authority : x.version = v => x.kind # "Exclusive"
    BY DEF Retire, RetirementAllowed
  <1>3. v \in DOMAIN versions /\ ~Retired(v) /\ v # NoVersion
    BY SentinelAssumption DEF Retire, RetirementAllowed
  <1>4. \A s \in Scopes : Serving[s] # v  BY <1>1, <1>2, <1>3, ServingHolder, ServingIsIn
  <1>5. \A x : x \in authority' /\ x.kind = "Exclusive" <=> x \in authority /\ x.kind = "Exclusive"
    BY <1>2 DEF Retire, SupersedeVersion
  <1>6. Serving' = Serving
    <2> DEFINE f == ServingIn(authority)
               g == ServingIn(authority')
    <2>1. /\ f \in [Scopes -> Versions \cup {NoVersion}]
          /\ \A x \in authority : x.kind = "Exclusive" => f[x.scope] = x.version
          /\ \A s \in Scopes : \/ f[s] = NoVersion
                               \/ \E x \in authority : /\ x.kind = "Exclusive" /\ x.scope = s
                                                       /\ x.version = f[s]
      BY <1>1, ServingHolder
    <2>2. /\ g \in [Scopes -> Versions \cup {NoVersion}]
          /\ \A x \in authority' : x.kind = "Exclusive" => g[x.scope] = x.version
          /\ \A s \in Scopes : \/ g[s] = NoVersion
                               \/ \E x \in authority' : /\ x.kind = "Exclusive" /\ x.scope = s
                                                        /\ x.version = g[s]
      BY <1>1, ServingHolder
    <2>3. Serving' = g /\ Serving = f  BY DEF Serving, ServingIn
    <2> HIDE DEF f, g
    <2>4. f = g  BY <1>5, <2>1, <2>2
    <2> QED  BY <2>3, <2>4
  <1>7. RetiredVersions' = RetiredVersions \cup {v}
    <2>1. versions' = Advance(versions, v, "RETIRED")  BY DEF Retire
    <2>2. versions \in [DOMAIN versions -> VersionRecord]
      BY DEF RestartInv, RetirementInv, TypeOK
    <2>3. /\ DOMAIN versions' = DOMAIN versions
          /\ versions'[v].state = "RETIRED"
          /\ \A w \in DOMAIN versions : w # v => versions'[w] = versions[w]
      BY <1>3, <2>1, <2>2 DEF Advance, AdvanceState, IsTerminal, VersionRecord
    <2> QED  BY <1>3, <2>3 DEF RetiredVersions, Retired
  <1>8. v \notin RetiredVersions  BY <1>3 DEF RetiredVersions
  <1> QED  BY <1>4, <1>6, <1>7, <1>8 DEF Abstract!Retire

LEMMA MapsToStutter ==
    ASSUME UNCHANGED <<versions, authority>>
    PROVE  UNCHANGED <<Serving, RetiredVersions>>
  BY DEF Serving, RetiredVersions, Retired, ExclusiveAt, LiveAt

\* What query_authority tells its callers: one version at most serves a scope, an
\* operation hands scopes to one version at most, never to a retired one, and only a
\* version that serves nothing is retired.  Every handler, the partial commits of
\* begin_rollout and advance_stage and the automatic rollback included, is a step of
\* ServingAuthority or invisible to it.
THEOREM EngineImplementsServingAuthority == Spec => ImplementsServingAuthority
  <1>1. Init => Abstract!Init
    BY DEF Init, Abstract!Init, Serving, RetiredVersions, ExclusiveAt, LiveAt
  <1>2. Init => RestartInv
    BY RetirementInit DEF Init, RestartInv, SingleExclusive, Covered
  <1>3. RestartInv /\ [Next]_vars => RestartInv'  BY RestartStep
  <1>4. RestartInv /\ RestartInv' /\ [Next]_vars => [Abstract!Next]_<<Serving, RetiredVersions>>
    <2>1. SUFFICES ASSUME RestartInv, RestartInv', [Next]_vars
                   PROVE  Abstract!Next \/ UNCHANGED <<Serving, RetiredVersions>>
      OBVIOUS
    <2>2. RetirementInv  BY <2>1 DEF RestartInv
    <2>3. ASSUME NEW v \in Versions, Retire(v) PROVE Abstract!Next
      BY <2>1, <2>3, MapsToRetire DEF Abstract!Next
    <2>4. CASE Safe  BY <2>1, <2>2, <2>4, OneReceiver, MapsToHandover, MapsToStutter
    <2> QED  BY <2>1, <2>2, <2>3, <2>4, SafeStep
  <1> QED  BY <1>1, <1>2, <1>3, <1>4, PTL DEF Spec, ImplementsServingAuthority, Abstract!Spec

==============================================================================
