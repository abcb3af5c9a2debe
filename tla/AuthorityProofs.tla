---------------------------- MODULE AuthorityProofs ----------------------------
(***************************************************************************)
(* The authority theorems of the lifecycle engine: a scope has one exclusive *)
(* holder, a retired version holds nothing, for good, and the state the      *)
(* engine exports always loads again.  Besides what the first two need, the  *)
(* last takes that a binding never runs ahead of its version's generation    *)
(* and never names a rollout that is not in the table.                       *)
(***************************************************************************)
EXTENDS LifecycleEngineProofs

------------------------------------------------------------------------------
(* What the operations on the table of bindings do to exclusivity. *)

Single(b) ==
    \A x, y \in b : (x.kind = "Exclusive" /\ y.kind = "Exclusive" /\ x.scope = y.scope) => x = y

LEMMA SubsetSingle ==
    ASSUME NEW b, NEW c \in SUBSET b, Single(b)
    PROVE  Single(c)
  BY DEF Single

LEMMA GrantExclusiveSingle ==
    ASSUME NEW b \in SUBSET BindingRecord, Single(b), NEW vs, NEW v, NEW S, NEW r, NEW t, NEW g
    PROVE  Single(GrantExclusive(b, vs, v, S, r, t, g))
  <1> DEFINE kept == b \ Displaced(b, S)
             new == {Binding(s, v, vs[v].generation, "Exclusive", r) : s \in S}
             retained == {[d EXCEPT !.kind = "RollbackRetained"] :
                            d \in Retained(b, vs, S, t, g)}
  <1>1. GrantExclusive(b, vs, v, S, r, t, g) = kept \cup new \cup retained
    BY DEF GrantExclusive
  <1>2. \A x \in kept : x.kind = "Exclusive" => x.scope \notin S
    BY DEF Displaced, ExclusiveAt, LiveAt
  <1>3. \A x \in new : x.scope \in S  BY DEF Binding
  <1>4. \A x, y \in new : x.scope = y.scope => x = y  BY DEF Binding
  <1>5. \A x \in retained : x.kind = "RollbackRetained"
    BY DEF Retained, Displaced, ExclusiveAt, LiveAt, BindingRecord
  <1>6. \A x, y \in kept : (x.kind = "Exclusive" /\ y.kind = "Exclusive" /\ x.scope = y.scope) => x = y
    BY DEF Single
  <1> HIDE DEF kept, new, retained
  <1> QED  BY <1>1, <1>2, <1>3, <1>4, <1>5, <1>6 DEF Single

LEMMA MarkDrainingSingle ==
    ASSUME NEW b \in SUBSET BindingRecord, Single(b), NEW v, NEW S
    PROVE  Single(MarkDraining(b, v, S))
  <1>1. \A x \in MarkDraining(b, v, S) : x.kind = "Exclusive" => x \in b
    BY DEF MarkDraining, BindingRecord
  <1> QED  BY <1>1 DEF Single

LEMMA CanaryGrantsSingle ==
    ASSUME NEW b, Single(b), NEW S, NEW v, NEW g, NEW r
    PROVE  Single(b \cup CanaryGrants(S, v, g, r))
  <1>1. \A x \in CanaryGrants(S, v, g, r) : x.kind = "Canary"  BY DEF CanaryGrants, Binding
  <1> QED  BY <1>1 DEF Single

LEMMA StageCommitSingle ==
    ASSUME TypeOK, Single(authority), NEW r \in DOMAIN rollouts, NEW W \in SUBSET Scopes,
           StageAdvanceAllowed(rollouts[r])
    PROVE  Single(StageCommit(r, W))
  <1>1. StageGrant(r, W) \in SUBSET BindingRecord
    BY StageTypes, StageCommitType, GrantExclusiveType DEF StageGrant, TypeOK
  <1>2. Single(StageGrant(r, W))  BY GrantExclusiveSingle DEF StageGrant, TypeOK
  <1> QED  BY <1>1, <1>2, MarkDrainingSingle DEF StageCommit

LEMMA SingleStep ==
    ASSUME TypeOK, Single(authority), [Next]_vars
    PROVE  Single(authority')
  <1>1. ASSUME authority' \in SUBSET authority PROVE Single(authority')
    BY <1>1, SubsetSingle
  <1>2. ASSUME NEW v \in Versions, NEW s \in Scopes, NEW t \in Versions \cup {NoVersion},
               NEW generation \in 0..MaxGeneration, PromoteImmediately(v, s, t, generation)
        PROVE Single(authority')
    <2> DEFINE before == {x \in authority : x.rollout \notin InFlight(v)}
    <2>1. before \in SUBSET BindingRecord /\ before \in SUBSET authority  BY DEF TypeOK
    <2>2. Single(before)  BY <2>1, SubsetSingle
    <2>3. \E vs : authority' = GrantExclusive(before, vs, v, {s}, NoRollout, t, generation)
      BY <1>2 DEF PromoteImmediately
    <2> HIDE DEF before
    <2> QED  BY <2>1, <2>2, <2>3, GrantExclusiveSingle
  <1>3. ASSUME NEW r \in DOMAIN rollouts, BeginRollout(r) PROVE Single(authority')
    BY <1>3, CanaryGrantsSingle DEF BeginRollout
  <1>4. ASSUME NEW r \in DOMAIN rollouts, AdvanceStage(r) PROVE Single(authority')
    <2>1. Single(StageCommit(r, StageScopes(rollouts[r])))
      BY <1>4, StageTypes, StageCommitSingle DEF AdvanceStage
    <2> QED  BY <1>4, <2>1, CanaryGrantsSingle DEF AdvanceStage
  <1>5. ASSUME NEW v \in Versions, NEW t \in Versions, NEW s \in Scopes,
               NEW r \in DOMAIN rollouts \cup {NoRollout}, Rollback(v, t, s, r)
        PROVE Single(authority')
    <2> DEFINE fenced == SupersedeScope(authority, s)
               granted == GrantExclusive(fenced, versions, t, {s}, NoRollout, NoVersion, 0)
    <2>1. fenced \in SUBSET BindingRecord /\ Single(fenced)
      BY SubsetSingle DEF SupersedeScope, TypeOK
    <2>2. versions[t].generation \in 1..MaxGeneration
      BY <1>5 DEF Rollback, RollbackAllowed, RollbackTargetAllowed, Known, TypeOK, VersionRecord
    <2>3. granted \in SUBSET BindingRecord  BY <2>1, <2>2, GrantExclusiveType
    <2>4. Single(granted)  BY <2>1, GrantExclusiveSingle
    <2>5. authority' = MarkDraining(granted, v, {s})  BY <1>5 DEF Rollback
    <2> HIDE DEF granted
    <2> QED  BY <2>3, <2>4, <2>5, MarkDrainingSingle
  <1>6. ASSUME NEW r \in DOMAIN rollouts, AutomaticRollback(r) PROVE Single(authority')
    <2> DEFINE p == rollouts[r]
               fenced == SupersedeScope(SupersedeRollout(authority, r), p.request.root)
    <2>1. fenced \in SUBSET BindingRecord /\ Single(fenced)
      BY SubsetSingle DEF SupersedeScope, SupersedeRollout, TypeOK
    <2>2. \E vs : authority' = GrantExclusive(fenced, vs, p.candidate, {p.request.root}, NoRollout,
                                    p.request.target, p.request.target_generation)
      BY <1>6 DEF AutomaticRollback
    <2> HIDE DEF fenced
    <2> QED  BY <2>1, <2>2, GrantExclusiveSingle
  <1>7. ASSUME NEW v \in Versions, RegisterVersion(v) PROVE Single(authority')
    BY <1>1, <1>7 DEF RegisterVersion
  <1>8. ASSUME NEW v \in Versions, ReviseVersion(v) PROVE Single(authority')
    BY <1>1, <1>8 DEF ReviseVersion
  <1>9. ASSUME NEW v \in Versions, NEW verdict \in Verdicts, PublishCompatibility(v, verdict)
        PROVE Single(authority')
    BY <1>1, <1>9 DEF PublishCompatibility
  <1>10. ASSUME NEW new \in Policies, SetPolicy(new) PROVE Single(authority')
    BY <1>1, <1>10 DEF SetPolicy
  <1>11. ASSUME NEW v \in Versions, NEW s \in Scopes, NEW t \in Versions \cup {NoVersion},
                PromoteToCanary(v, s, t)
         PROVE Single(authority')
    BY <1>1, <1>11 DEF PromoteToCanary
  <1>12. ASSUME NEW v \in Versions, NEW req \in PlanRequests, CreateRollout(v, req)
         PROVE Single(authority')
    BY <1>1, <1>12 DEF CreateRollout
  <1>13. ASSUME NEW r \in DOMAIN rollouts, FailStage(r) \/ SupersedePlan(r) \/ StageFailure(r)
         PROVE Single(authority')
    BY <1>1, <1>13 DEF FailStage, SupersedePlan, StageFailure, SupersedeRollout
  <1>14. ASSUME NEW v \in Versions, Retire(v) \/ Revalidate(v) PROVE Single(authority')
    BY <1>1, <1>14 DEF Retire, Revalidate, SupersedeVersion
  <1>15. CASE Restart  BY <1>1, <1>15 DEF Restart
  <1>16. ASSUME NEW v \in Versions, NEW s \in Scopes, NEW t \in Versions \cup {NoVersion},
                NEW generation \in 0..MaxGeneration, PromotionRefused(v, s, t, generation)
         PROVE Single(authority')
    BY <1>1, <1>16 DEF PromotionRefused
  <1>17. ASSUME NEW r \in DOMAIN rollouts, StageRefused(r) PROVE Single(authority')
    BY <1>17, StageTypes, StageCommitSingle DEF StageRefused, ExclusiveAdmitted
  <1>18. CASE UNCHANGED vars  BY <1>1, <1>18 DEF vars
  <1> QED
    BY <1>2, <1>3, <1>4, <1>5, <1>6, <1>7, <1>8, <1>9, <1>10, <1>11, <1>12, <1>13, <1>14, <1>15,
       <1>16, <1>17, <1>18 DEF Next

\* A scope never has two exclusive holders (replace_exclusive under every caller).
THEOREM ExclusiveHolderIsUnique == Spec => []SingleExclusive
  <1>1. Single(authority) <=> SingleExclusive  BY DEF Single, SingleExclusive
  <1>2. Init => Single(authority)  BY DEF Init, Single
  <1>3. TypeOK /\ Single(authority) /\ [Next]_vars => Single(authority)'
    BY SingleStep DEF Single
  <1> QED  BY <1>1, <1>2, <1>3, TypeCorrect, PTL DEF Spec

------------------------------------------------------------------------------
(* Retirement. *)

\* From vs to ws no version is retired or revived, and a retired record is untouched.
KeepsRetired(vs, ws) ==
    /\ \A w \in DOMAIN vs :
        /\ w \in DOMAIN ws
        /\ ws[w].state = "RETIRED" <=> vs[w].state = "RETIRED"
        /\ vs[w].state = "RETIRED" => ws[w] = vs[w]
    /\ \A w \in DOMAIN ws : ws[w].state = "RETIRED" => w \in DOMAIN vs

LEMMA AdvanceKeepsRetired ==
    ASSUME NEW D, NEW vs \in [D -> VersionRecord], NEW v, NEW to, to # "RETIRED"
    PROVE  KeepsRetired(vs, Advance(vs, v, to))
  BY DEF KeepsRetired, Advance, AdvanceState, IsTerminal, VersionRecord

LEMMA KeepsRetiredTransitive ==
    ASSUME NEW us, NEW vs, NEW ws, KeepsRetired(us, vs), KeepsRetired(vs, ws)
    PROVE  KeepsRetired(us, ws)
  BY DEF KeepsRetired

LEMMA DisplaceKeepsRetired ==
    ASSUME NEW D, NEW vs \in [D -> VersionRecord], NEW b, NEW after, NEW S
    PROVE  KeepsRetired(vs, Displace(b, after, vs, S))
  BY DEF KeepsRetired, Displace, AdvanceState, IsTerminal, VersionRecord

LEMMA DrainCandidatesKeepsRetired ==
    ASSUME TypeOK, NEW rs
    PROVE  KeepsRetired(versions, DrainCandidates(rs))
  BY DEF KeepsRetired, DrainCandidates, AdvanceState, IsTerminal, VersionRecord, TypeOK

LEMMA PromotionKeepsRetired ==
    ASSUME TypeOK, NEW v \in DOMAIN versions, ~Retired(v), NEW rs,
           NEW to \in LifecycleState, to # "RETIRED"
    PROVE  KeepsRetired(versions,
               [Advance(DrainCandidates(rs), v, to) EXCEPT ![v].promotions = @ + 1])
  <1> DEFINE d == DrainCandidates(rs)
             a == Advance(d, v, to)
  <1>1. d \in [DOMAIN versions -> VersionRecord]  BY DrainCandidatesType
  <1>2. a \in [DOMAIN versions -> VersionRecord] /\ DOMAIN a = DOMAIN versions
    BY <1>1, AdvanceType
  <1>3. KeepsRetired(versions, a)
    BY <1>1, DrainCandidatesKeepsRetired, AdvanceKeepsRetired, KeepsRetiredTransitive
  <1> HIDE DEF a
  <1>4. KeepsRetired(versions, [a EXCEPT ![v].promotions = @ + 1])
    BY <1>2, <1>3 DEF KeepsRetired, Retired, VersionRecord
  <1> QED  BY <1>4 DEF a

LEMMA RolledBackKeepsRetired ==
    ASSUME NEW D, NEW vs \in [D -> VersionRecord], NEW v \in D, vs[v].state # "RETIRED", NEW t,
           NEW to \in LifecycleState, to # "RETIRED"
    PROVE  KeepsRetired(vs,
               [Advance(Advance(vs, t, "CURRENT"), v, to) EXCEPT ![v].rollbacks = @ + 1])
  <1> DEFINE d == Advance(vs, t, "CURRENT")
             a == Advance(d, v, to)
  <1>1. d \in [D -> VersionRecord]  BY AdvanceType, States
  <1>2. a \in [D -> VersionRecord] /\ DOMAIN a = D  BY <1>1, AdvanceType
  <1>3. KeepsRetired(vs, a)
    BY <1>1, AdvanceKeepsRetired, KeepsRetiredTransitive
  <1> HIDE DEF a
  <1>4. KeepsRetired(vs, [a EXCEPT ![v].rollbacks = @ + 1])
    BY <1>2, <1>3 DEF KeepsRetired, VersionRecord
  <1> QED  BY <1>4 DEF a

\* The holders of a table, and what granting does to them.
Holders(b) == {x.version : x \in b}

LEMMA GrantExclusiveHolders ==
    ASSUME NEW b \in SUBSET BindingRecord, NEW vs, NEW v, NEW S, NEW r, NEW t, NEW g
    PROVE  Holders(GrantExclusive(b, vs, v, S, r, t, g)) \subseteq Holders(b) \cup {v}
  <1>1. \A x \in Displaced(b, S) : x \in b  BY DEF Displaced, ExclusiveAt, LiveAt
  <1>2. \A x \in GrantExclusive(b, vs, v, S, r, t, g) :
            x.version = v \/ \E y \in b : y.version = x.version
    BY <1>1 DEF GrantExclusive, Retained, Binding, BindingRecord
  <1> QED  BY <1>2 DEF Holders

LEMMA MarkDrainingHolders ==
    ASSUME NEW b \in SUBSET BindingRecord, NEW v, NEW S
    PROVE  Holders(MarkDraining(b, v, S)) \subseteq Holders(b)
  <1>1. \A x \in MarkDraining(b, v, S) : \E y \in b : y.version = x.version
    BY DEF MarkDraining, BindingRecord
  <1> QED  BY <1>1 DEF Holders

LEMMA CanaryGrantsHolders ==
    ASSUME NEW b, NEW S, NEW v, NEW g, NEW r
    PROVE  Holders(b \cup CanaryGrants(S, v, g, r)) \subseteq Holders(b) \cup {v}
  <1>1. \A x \in CanaryGrants(S, v, g, r) : x.version = v  BY DEF CanaryGrants, Binding
  <1> QED  BY <1>1 DEF Holders

\* Every plan's candidate stays registered.
PlansRegistered == \A r \in DOMAIN rollouts : rollouts[r].candidate \in DOMAIN versions

\* The versions that may hold authority.
Serviceable == {v \in DOMAIN versions : ~Retired(v)}

LEMMA HoldersForm == RetiredHoldsNothing <=> Holders(authority) \subseteq Serviceable
  BY DEF RetiredHoldsNothing, Holders, Serviceable

LEMMA SubsetHolders ==
    ASSUME NEW b, NEW c \in SUBSET b
    PROVE  Holders(c) \subseteq Holders(b)
  BY DEF Holders

\* The inductive invariant of retirement.
RetirementInv == TypeOK /\ RetiredHoldsNothing /\ PlansRegistered

\* A step that retires nothing: no record of a retired version changes, and authority
\* goes to versions that are not retired.
Safe == KeepsRetired(versions, versions') /\ Holders(authority') \subseteq Serviceable

LEMMA PromoteImmediatelySafe ==
    ASSUME RetirementInv, NEW v \in Versions, NEW s \in Scopes, NEW t \in Versions \cup {NoVersion},
           NEW generation \in 0..MaxGeneration, PromoteImmediately(v, s, t, generation)
    PROVE  Safe
  <1> DEFINE stopped == InFlight(v)
             before == {x \in authority : x.rollout \notin stopped}
             vs == [Advance(DrainCandidates(stopped), v, "CURRENT") EXCEPT ![v].promotions = @ + 1]
             after == GrantExclusive(before, vs, v, {s}, NoRollout, t, generation)
  <1>1. authority' = after /\ versions' = Displace(before, after, vs, {s})
    BY DEF PromoteImmediately
  <1>2. /\ v \in DOMAIN versions /\ ~Retired(v)
        /\ versions[v].promotions < MaxPromotions
    BY DEF PromoteImmediately, PromotionAllowed, IsPromotableFrom, Retired
  <1>3. vs \in [DOMAIN versions -> VersionRecord]
    BY <1>2, PromotionType, States DEF RetirementInv
  <1>4. KeepsRetired(versions, vs)
    BY <1>2, PromotionKeepsRetired, States DEF RetirementInv
  <1>5. before \in SUBSET BindingRecord /\ before \in SUBSET authority
    BY DEF RetirementInv, TypeOK
  <1> HIDE DEF vs, before
  <1>6. KeepsRetired(versions, versions')
    BY <1>1, <1>3, <1>4, DisplaceKeepsRetired, KeepsRetiredTransitive
  <1>7. Holders(after) \subseteq Holders(before) \cup {v}  BY <1>5, GrantExclusiveHolders
  <1>8. Holders(before) \subseteq Holders(authority)  BY <1>5, SubsetHolders
  <1> HIDE DEF after
  <1> QED  BY <1>1, <1>2, <1>6, <1>7, <1>8, HoldersForm DEF RetirementInv, Safe, Serviceable

LEMMA BeginRolloutSafe ==
    ASSUME RetirementInv, NEW r \in DOMAIN rollouts, BeginRollout(r)
    PROVE  Safe
  <1> DEFINE v == rollouts[r].candidate
  <1>1. v \in Serviceable
    BY DEF BeginRollout, Stale, RetirementInv, PlansRegistered, Serviceable
  <1>2. versions' = Advance(versions, v, "CANARY_ACTIVE")  BY DEF BeginRollout
  <1>3. KeepsRetired(versions, versions')
    BY <1>2, AdvanceKeepsRetired DEF RetirementInv, TypeOK
  <1>4. authority' = authority \cup
            CanaryGrants(CanaryAdmitted(authority, indexed, pushed,
                                        rollouts[r].request.stages[1].scopes),
                         v, versions[v].generation, r)
    BY DEF BeginRollout
  <1>5. Holders(authority') \subseteq Holders(authority) \cup {v}
    BY <1>4, CanaryGrantsHolders
  <1> QED  BY <1>1, <1>3, <1>5, HoldersForm DEF RetirementInv, Safe

\* Granting the scopes W of a stage retires nothing.
LEMMA StageCommitSafe ==
    ASSUME RetirementInv, NEW r \in DOMAIN rollouts, NEW W \in SUBSET Scopes,
           StageAdvanceAllowed(rollouts[r])
    PROVE  /\ rollouts[r].candidate \in Serviceable
           /\ StageVersions(r, W) \in [DOMAIN versions -> VersionRecord]
           /\ KeepsRetired(versions, StageVersions(r, W))
           /\ Holders(StageCommit(r, W)) \subseteq Serviceable
  <1> DEFINE p == rollouts[r]
             v == p.candidate
             vs == Displace(authority, StageGrant(r, W), versions, W)
  <1>1. v \in Serviceable
    BY DEF StageAdvanceAllowed, Stale, RetirementInv, PlansRegistered, Serviceable
  <1>2. /\ p \in Plan /\ r \in RolloutIds /\ v \in Versions
        /\ versions[v].generation \in 1..MaxGeneration
    BY StageTypes, StageCommitType DEF RetirementInv
  <1>3. vs \in [DOMAIN versions -> VersionRecord] /\ KeepsRetired(versions, vs)
    BY DisplaceType, DisplaceKeepsRetired DEF RetirementInv, TypeOK
  <1> HIDE DEF vs
  <1>4. /\ StageVersions(r, W) \in [DOMAIN versions -> VersionRecord]
        /\ KeepsRetired(versions, StageVersions(r, W))
    <2>1. StageVersions(r, W) = vs \/ StageVersions(r, W) = Advance(vs, p.previous, "DRAINING")
      BY DEF StageVersions, vs
    <2>2. /\ Advance(vs, p.previous, "DRAINING") \in [DOMAIN versions -> VersionRecord]
          /\ KeepsRetired(versions, Advance(vs, p.previous, "DRAINING"))
      BY <1>3, AdvanceType, States, AdvanceKeepsRetired, KeepsRetiredTransitive
    <2> QED  BY <1>3, <2>1, <2>2
  <1>5. /\ StageGrant(r, W) \in SUBSET BindingRecord
        /\ Holders(StageGrant(r, W)) \subseteq Holders(authority) \cup {v}
    BY <1>2, GrantExclusiveType, GrantExclusiveHolders DEF StageGrant, RetirementInv, TypeOK
  <1>6. Holders(StageCommit(r, W)) \subseteq Holders(StageGrant(r, W))
    BY <1>5, MarkDrainingHolders DEF StageCommit
  <1> QED  BY <1>1, <1>4, <1>5, <1>6, HoldersForm DEF RetirementInv

LEMMA AdvanceStageSafe ==
    ASSUME RetirementInv, NEW r \in DOMAIN rollouts, AdvanceStage(r)
    PROVE  Safe
  <1> DEFINE v == rollouts[r].candidate
             S == StageScopes(rollouts[r])
  <1>1. S \in SUBSET Scopes  BY StageTypes DEF RetirementInv
  <1>2. /\ v \in Serviceable
        /\ StageVersions(r, S) \in [DOMAIN versions -> VersionRecord]
        /\ KeepsRetired(versions, StageVersions(r, S))
        /\ Holders(StageCommit(r, S)) \subseteq Serviceable
    BY <1>1, StageCommitSafe DEF AdvanceStage
  <1>3. \/ versions' = Advance(StageVersions(r, S), v, "CURRENT")
        \/ versions' = Advance(StageVersions(r, S), v, "PARTIALLY_PROMOTED")
    BY DEF AdvanceStage
  <1>4. KeepsRetired(versions, versions')
    BY <1>2, <1>3, AdvanceKeepsRetired, KeepsRetiredTransitive
  <1>5. \E granted : authority' = StageCommit(r, S) \cup
                          CanaryGrants(granted, v, versions[v].generation, r)
    BY DEF AdvanceStage
  <1>6. Holders(authority') \subseteq Holders(StageCommit(r, S)) \cup {v}
    BY <1>5, CanaryGrantsHolders
  <1> QED  BY <1>2, <1>4, <1>6 DEF Safe

LEMMA StageRefusedSafe ==
    ASSUME RetirementInv, NEW r \in DOMAIN rollouts, StageRefused(r)
    PROVE  Safe
  <1> DEFINE W == ExclusiveAdmitted(rollouts[r])
  <1>1. W \in SUBSET Scopes  BY StageTypes DEF ExclusiveAdmitted, RetirementInv
  <1>2. authority' = StageCommit(r, W) /\ versions' = StageVersions(r, W)
    BY DEF StageRefused
  <1> QED  BY <1>1, <1>2, StageCommitSafe DEF StageRefused, Safe

LEMMA RollbackSafe ==
    ASSUME RetirementInv, NEW v \in Versions, NEW t \in Versions, NEW s \in Scopes,
           NEW r \in DOMAIN rollouts \cup {NoRollout}, Rollback(v, t, s, r)
    PROVE  Safe
  <1> DEFINE fenced == SupersedeScope(authority, s)
             granted == GrantExclusive(fenced, versions, t, {s}, NoRollout, NoVersion, 0)
  <1>1. t \in Serviceable
    BY DEF Rollback, RollbackAllowed, RollbackTargetAllowed, Known, Serviceable, Retired
  <1>2. v \in DOMAIN versions /\ versions[v].state # "RETIRED"
    BY DEF Rollback, RollbackAllowed, LiveAt, RetirementInv, RetiredHoldsNothing, Retired
  <1>3. \E to \in {"PARTIALLY_PROMOTED", "ROLLED_BACK"} :
            versions' = [Advance(Advance(versions, t, "CURRENT"), v, to) EXCEPT ![v].rollbacks = @ + 1]
    BY DEF Rollback
  <1>4. KeepsRetired(versions, versions')
    BY <1>2, <1>3, RolledBackKeepsRetired, States DEF RetirementInv, TypeOK
  <1>5. fenced \in SUBSET BindingRecord /\ fenced \in SUBSET authority
    BY DEF SupersedeScope, RetirementInv, TypeOK
  <1>6. versions[t].generation \in 1..MaxGeneration
    BY <1>1 DEF Serviceable, RetirementInv, TypeOK, VersionRecord
  <1> HIDE DEF fenced
  <1>7. granted \in SUBSET BindingRecord /\ Holders(granted) \subseteq Holders(fenced) \cup {t}
    BY <1>5, <1>6, GrantExclusiveType, GrantExclusiveHolders
  <1>8. authority' = MarkDraining(granted, v, {s})  BY DEF Rollback, fenced
  <1> HIDE DEF granted
  <1>9. Holders(authority') \subseteq Holders(granted)  BY <1>7, <1>8, MarkDrainingHolders
  <1>10. Holders(fenced) \subseteq Holders(authority)  BY <1>5, SubsetHolders
  <1> QED  BY <1>1, <1>4, <1>7, <1>9, <1>10, HoldersForm DEF RetirementInv, Safe

LEMMA AutomaticRollbackSafe ==
    ASSUME RetirementInv, NEW r \in DOMAIN rollouts, AutomaticRollback(r)
    PROVE  Safe
  <1> DEFINE p == rollouts[r]
             v == p.candidate
             failing == Advance(versions, v, "CANARY_FAILED")
             fenced == SupersedeScope(SupersedeRollout(authority, r), p.request.root)
  <1>1. v \in Serviceable
    BY DEF AutomaticRollback, RollbackAllowed, SupersedeRollout, LiveAt, RetirementInv,
           RetiredHoldsNothing, Serviceable
  <1>2. failing \in [DOMAIN versions -> VersionRecord] /\ KeepsRetired(versions, failing)
    BY AdvanceType, States, AdvanceKeepsRetired DEF RetirementInv, TypeOK
  <1>3. versions' = [Advance(Advance(failing, p.request.target, "CURRENT"), v, "ROLLED_BACK")
                        EXCEPT ![v].rollbacks = @ + 1]
    BY DEF AutomaticRollback
  <1>4. \E vs, t, g : authority' = GrantExclusive(fenced, vs, v, {p.request.root}, NoRollout, t, g)
    BY DEF AutomaticRollback
  <1>5. fenced \in SUBSET BindingRecord /\ fenced \in SUBSET authority
    BY DEF SupersedeScope, SupersedeRollout, RetirementInv, TypeOK
  <1> HIDE DEF failing, fenced
  <1>6. v \in DOMAIN versions /\ failing[v].state # "RETIRED"
    BY <1>1, <1>2 DEF KeepsRetired, Serviceable, Retired
  <1>7. KeepsRetired(versions, versions')
    BY <1>2, <1>3, <1>6, RolledBackKeepsRetired, KeepsRetiredTransitive, States
  <1>8. Holders(authority') \subseteq Holders(fenced) \cup {v}
    BY <1>4, <1>5, GrantExclusiveHolders
  <1>9. Holders(fenced) \subseteq Holders(authority)  BY <1>5, SubsetHolders
  <1> QED  BY <1>1, <1>7, <1>8, <1>9, HoldersForm DEF RetirementInv, Safe

\* Every step but a retirement is safe.
LEMMA SafeStep ==
    ASSUME RetirementInv, [Next]_vars
    PROVE  Safe \/ \E v \in Versions : Retire(v)
  <1> USE DEF RetirementInv
  <1>1. ASSUME UNCHANGED versions, authority' \in SUBSET authority PROVE Safe
    <2>1. KeepsRetired(versions, versions')  BY <1>1 DEF KeepsRetired
    <2> QED  BY <1>1, <2>1, SubsetHolders, HoldersForm DEF Safe
  <1>2. ASSUME NEW v, NEW to, to # "RETIRED", versions' = Advance(versions, v, to),
               authority' \in SUBSET authority
        PROVE  Safe
    <2>1. KeepsRetired(versions, versions')  BY <1>2, AdvanceKeepsRetired DEF TypeOK
    <2> QED  BY <1>2, <2>1, SubsetHolders, HoldersForm DEF Safe
  <1>3. ASSUME NEW v, KeepsRetired(versions, versions'), authority' \in SUBSET authority
        PROVE  Safe
    BY <1>3, SubsetHolders, HoldersForm DEF Safe
  <1>4. ASSUME NEW v \in Versions, RegisterVersion(v) PROVE Safe
    <2>1. KeepsRetired(versions, versions')  BY <1>4 DEF RegisterVersion, KeepsRetired
    <2> QED  BY <1>3, <1>4, <2>1 DEF RegisterVersion
  <1>5. ASSUME NEW v \in Versions, ReviseVersion(v) PROVE Safe
    <2>1. v \in DOMAIN versions /\ versions[v] \in VersionRecord /\ ~Retired(v)
      BY <1>5 DEF ReviseVersion, TypeOK
    <2>2. Revised(versions[v]).state # "RETIRED"
      BY <2>1 DEF Revised, VersionRecord, Retired
    <2>3. versions' = [versions EXCEPT ![v] = Revised(versions[v])]  BY <1>5 DEF ReviseVersion
    <2>4. KeepsRetired(versions, versions')
      BY <2>1, <2>2, <2>3 DEF KeepsRetired, Retired, TypeOK
    <2>5. authority' \in SUBSET authority  BY <1>5 DEF ReviseVersion
    <2> QED  BY <1>3, <2>4, <2>5
  <1>6. ASSUME NEW v \in Versions, NEW verdict \in Verdicts, PublishCompatibility(v, verdict)
        PROVE Safe
    <2>1. v \in DOMAIN versions /\ versions[v] \in VersionRecord /\ ~Retired(v)
      BY <1>6 DEF PublishCompatibility, TypeOK
    <2>2. Judged(versions[v], verdict).state # "RETIRED"
      BY <2>1 DEF Judged, VersionRecord, Retired
    <2>3. versions' = [versions EXCEPT ![v] = Judged(versions[v], verdict)]
      BY <1>6 DEF PublishCompatibility
    <2>4. KeepsRetired(versions, versions')
      BY <2>1, <2>2, <2>3 DEF KeepsRetired, Retired, TypeOK
    <2> QED  BY <1>3, <1>6, <2>4 DEF PublishCompatibility
  <1>7. ASSUME NEW new \in Policies, SetPolicy(new) PROVE Safe
    BY <1>1, <1>7 DEF SetPolicy
  <1>8. ASSUME NEW v \in Versions, NEW s \in Scopes, NEW t \in Versions \cup {NoVersion},
               NEW generation \in 0..MaxGeneration, PromoteImmediately(v, s, t, generation)
        PROVE Safe
    BY <1>8, PromoteImmediatelySafe
  <1>9. ASSUME NEW v \in Versions, NEW s \in Scopes, NEW t \in Versions \cup {NoVersion},
               PromoteToCanary(v, s, t)
        PROVE Safe
    <2>1. v \in DOMAIN versions /\ ~Retired(v)
      BY <1>9 DEF PromoteToCanary, PromotionAllowed, IsPromotableFrom, Retired
    <2>2. KeepsRetired(versions, versions')
      BY <1>9, <2>1, PromotionKeepsRetired, States DEF PromoteToCanary
    <2> QED  BY <1>3, <1>9, <2>2 DEF PromoteToCanary
  <1>10. ASSUME NEW v \in Versions, NEW req \in PlanRequests, CreateRollout(v, req) PROVE Safe
    BY <1>1, <1>10 DEF CreateRollout
  <1>11. ASSUME NEW r \in DOMAIN rollouts, BeginRollout(r) PROVE Safe
    BY <1>11, BeginRolloutSafe
  <1>12. ASSUME NEW r \in DOMAIN rollouts, AdvanceStage(r) PROVE Safe
    BY <1>12, AdvanceStageSafe
  <1>13. ASSUME NEW r \in DOMAIN rollouts, FailStage(r) \/ StageFailure(r) PROVE Safe
    BY <1>2, <1>13 DEF FailStage, StageFailure, SupersedeRollout
  <1>14. ASSUME NEW r \in DOMAIN rollouts, SupersedePlan(r) PROVE Safe
    BY <1>3, <1>14, DrainCandidatesKeepsRetired DEF SupersedePlan, SupersedeRollout
  <1>15. ASSUME NEW v \in Versions, NEW t \in Versions, NEW s \in Scopes,
                NEW r \in DOMAIN rollouts \cup {NoRollout}, Rollback(v, t, s, r)
         PROVE Safe
    BY <1>15, RollbackSafe
  <1>16. ASSUME NEW r \in DOMAIN rollouts, AutomaticRollback(r) PROVE Safe
    BY <1>16, AutomaticRollbackSafe
  <1>17. ASSUME NEW v \in Versions, Revalidate(v) PROVE Safe
    <2> DEFINE a == Advance(versions, v, "REVALIDATION_REQUIRED")
    <2>1. v \in DOMAIN versions /\ ~Retired(v)  BY <1>17 DEF Revalidate
    <2>2. a \in [DOMAIN versions -> VersionRecord]  BY AdvanceType, States DEF TypeOK
    <2>3. KeepsRetired(versions, a)  BY AdvanceKeepsRetired DEF TypeOK
    <2>4. versions' = [a EXCEPT ![v].compat = "none"]  BY <1>17 DEF Revalidate
    <2> HIDE DEF a
    <2>5. KeepsRetired(versions, versions')
      BY <2>1, <2>2, <2>3, <2>4 DEF KeepsRetired, Retired, VersionRecord
    <2> QED  BY <1>3, <1>17, <2>5 DEF Revalidate
  <1>18. CASE Restart  BY <1>1, <1>18 DEF Restart
  <1>19. ASSUME NEW v \in Versions, NEW s \in Scopes, NEW t \in Versions \cup {NoVersion},
                NEW generation \in 0..MaxGeneration, PromotionRefused(v, s, t, generation)
         PROVE Safe
    <2>1. KeepsRetired(versions, versions')
      BY <1>19, DrainCandidatesType, DrainCandidatesKeepsRetired, AdvanceKeepsRetired,
         KeepsRetiredTransitive DEF PromotionRefused
    <2> QED  BY <1>3, <1>19, <2>1 DEF PromotionRefused
  <1>20. ASSUME NEW r \in DOMAIN rollouts, StageRefused(r) PROVE Safe
    BY <1>20, StageRefusedSafe
  <1>21. CASE UNCHANGED vars  BY <1>1, <1>21 DEF vars
  <1> QED
    BY <1>4, <1>5, <1>6, <1>7, <1>8, <1>9, <1>10, <1>11, <1>12, <1>13, <1>14, <1>15, <1>16,
       <1>17, <1>18, <1>19, <1>20, <1>21 DEF Next

LEMMA SafeKeepsHolders ==
    ASSUME RetirementInv, Safe
    PROVE  RetiredHoldsNothing'
  BY DEF Safe, KeepsRetired, RetiredHoldsNothing, Holders, Serviceable, Retired

LEMMA RetireStep ==
    ASSUME RetirementInv, NEW v \in Versions, Retire(v)
    PROVE  /\ RetiredHoldsNothing'
           /\ \A w \in DOMAIN versions : Retired(w) => versions'[w] = versions[w]
           /\ DOMAIN versions' = DOMAIN versions
  <1>1. v \in DOMAIN versions /\ ~Retired(v)  BY DEF Retire, RetirementAllowed
  <1>2. versions' = Advance(versions, v, "RETIRED")  BY DEF Retire
  <1>3. /\ DOMAIN versions' = DOMAIN versions
        /\ \A w \in DOMAIN versions : w # v => versions'[w] = versions[w]
    BY <1>2 DEF Advance
  <1>4. \A x \in authority' : x \in authority /\ x.version # v
    BY DEF Retire, SupersedeVersion
  <1> QED  BY <1>1, <1>3, <1>4 DEF RetirementInv, RetiredHoldsNothing, Retired

\* q is the plan p at a later time: made for the same candidate, generation and request;
\* what ended it is not undone, and a plan that ended stays in its stage.
Continues(p, q) ==
    /\ q \in Plan
    /\ q.candidate = p.candidate /\ q.generation = p.generation /\ q.request = p.request
    /\ p.completed => q.completed
    /\ p.failed => q.failed
    /\ p.superseded => q.superseded
    /\ p.index <= q.index
    /\ ~Live(p) => q.index = p.index
    /\ p.decided /\ q.index = p.index => q.decided

LEMMA ContinuesItself ==
    ASSUME NEW p \in Plan
    PROVE  Continues(p, p)
  BY DEF Continues, Plan

LEMMA ContinuesTransitive ==
    ASSUME NEW p \in Plan, NEW q, NEW u, Continues(p, q), Continues(q, u)
    PROVE  Continues(p, u)
  <1>1. p.index \in Nat /\ q.index \in Nat /\ u.index \in Nat  BY DEF Continues, Plan
  <1>2. ~Live(p) => ~Live(q)  BY DEF Continues, Live
  <1>3. p.index <= u.index /\ (~Live(p) => u.index = p.index)  BY <1>1, <1>2 DEF Continues
  <1>4. u.index = p.index => q.index = p.index  BY <1>1 DEF Continues
  <1> QED  BY <1>3, <1>4 DEF Continues

\* An update of the fields that do not identify a plan and do not end it.
LEMMA PlanFields ==
    ASSUME NEW p \in Plan, NEW moved \in SUBSET {"compat", "policy", "root"},
           NEW e \in BOOLEAN, NEW u \in BOOLEAN
    PROVE  /\ Continues(p, [p EXCEPT !.moved = moved])
           /\ Continues(p, [p EXCEPT !.entered = e])
           /\ Continues(p, [p EXCEPT !.superseded = TRUE])
           /\ Continues(p, [p EXCEPT !.superseded = TRUE, !.entered = e])
           /\ Continues(p, [p EXCEPT !.superseded = TRUE, !.entered = e, !.decided = TRUE])
           /\ Continues(p, [p EXCEPT !.failed = TRUE, !.entered = e, !.decided = TRUE])
           /\ Continues(p, [p EXCEPT !.failed = TRUE, !.decided = TRUE])
           /\ Continues(p, [p EXCEPT !.rolled_back = u])
           /\ Continues(p, [p EXCEPT !.decided = TRUE])
  <1>0. p.index \in Nat /\ p.index <= p.index  BY DEF Plan
  <1>1. Continues(p, [p EXCEPT !.moved = moved])  BY <1>0 DEF Continues, Plan
  <1>2. Continues(p, [p EXCEPT !.entered = e])  BY <1>0 DEF Continues, Plan
  <1>3. Continues(p, [p EXCEPT !.superseded = TRUE])  BY <1>0 DEF Continues, Plan
  <1>4. Continues(p, [p EXCEPT !.superseded = TRUE, !.entered = e])  BY <1>0 DEF Continues, Plan
  <1>5. Continues(p, [p EXCEPT !.superseded = TRUE, !.entered = e, !.decided = TRUE])
    BY <1>0 DEF Continues, Plan
  <1>6. Continues(p, [p EXCEPT !.failed = TRUE, !.entered = e, !.decided = TRUE])
    BY <1>0 DEF Continues, Plan
  <1>7. Continues(p, [p EXCEPT !.failed = TRUE, !.decided = TRUE])  BY <1>0 DEF Continues, Plan
  <1>8. Continues(p, [p EXCEPT !.rolled_back = u])  BY <1>0 DEF Continues, Plan
  <1>9. Continues(p, [p EXCEPT !.decided = TRUE])  BY <1>0 DEF Continues, Plan
  <1> QED  BY <1>1, <1>2, <1>3, <1>4, <1>5, <1>6, <1>7, <1>8, <1>9

LEMMA PlanHelpers ==
    ASSUME NEW p \in Plan
    PROVE  /\ \A S : Continues(p, Touch(p, S))
           /\ \A v : \A unset \in BOOLEAN : Continues(p, CompatibilityMoves(p, v, unset))
           /\ Continues(p, RefreshRoot(p))
           /\ Continues(p, StageFailed(p))
           /\ Continues(p, Decided(p))
           /\ Live(p) => Continues(p, StageDone(p))
  <1>0. /\ p.moved \in SUBSET {"compat", "policy", "root"} /\ p.index \in Nat
        /\ p.index <= p.index
    BY DEF Plan
  <1>1. ASSUME NEW S PROVE Continues(p, Touch(p, S))
    BY <1>0, ContinuesItself, PlanFields DEF Touch
  <1>2. ASSUME NEW v, NEW unset \in BOOLEAN PROVE Continues(p, CompatibilityMoves(p, v, unset))
    BY <1>0, ContinuesItself, PlanFields DEF CompatibilityMoves
  <1>3. Continues(p, RefreshRoot(p))  BY <1>0, PlanFields DEF RefreshRoot
  <1>4. Continues(p, StageFailed(p))  BY PlanFields DEF StageFailed
  <1>5. ASSUME Live(p) PROVE Continues(p, StageDone(p))
    <2> DEFINE m == [p EXCEPT !.completed = TRUE, !.entered = FALSE, !.decided = TRUE]
               n == [p EXCEPT !.index = @ + 1]
    <2>1. Continues(p, m)  BY <1>0 DEF Continues, Plan
    <2>2. Continues(p, n)  BY <1>0, <1>5 DEF Continues, Plan
    <2>3. StageDone(p) = m \/ StageDone(p) = n  BY DEF StageDone
    <2> QED  BY <2>1, <2>2, <2>3
  <1>6. Continues(p, Decided(p))  BY PlanFields DEF Decided
  <1> QED  BY <1>1, <1>2, <1>3, <1>4, <1>5, <1>6

\* Every plan a step leaves behind is one it found, or the one it just created, for a
\* version that has no live plan, at that version's generation and below its root.
PlanKept(r) == r \in DOMAIN rollouts /\ Continues(rollouts[r], rollouts'[r])
PlanCreated(r) ==
    /\ r \notin DOMAIN rollouts
    /\ DOMAIN rollouts' \subseteq DOMAIN rollouts \cup {r}
    /\ rollouts'[r].candidate \in DOMAIN versions
    /\ ~Retired(rollouts'[r].candidate)
    /\ rollouts'[r].generation = versions[rollouts'[r].candidate].generation
    /\ NoLivePlanFor(rollouts'[r].candidate)
    /\ \A i \in DOMAIN rollouts'[r].request.stages :
        rollouts'[r].request.stages[i].scopes \subseteq Subtree[rollouts'[r].request.root]
    /\ UNCHANGED <<versions, authority>>

LEMMA PlanIdentityStep ==
    ASSUME TypeOK, [Next]_vars
    PROVE  \A r \in DOMAIN rollouts' : PlanKept(r) \/ PlanCreated(r)
  <1> DEFINE Goal == \A r \in DOMAIN rollouts' : PlanKept(r) \/ PlanCreated(r)
  <1>0. \A r \in DOMAIN rollouts : rollouts[r] \in Plan  BY DEF TypeOK
  <1>1. ASSUME UNCHANGED rollouts PROVE Goal  BY <1>0, <1>1, ContinuesItself DEF PlanKept
  <1>2. ASSUME NEW v \in Versions, ReviseVersion(v) PROVE Goal
    <2>1. SUFFICES ASSUME NEW q \in DOMAIN rollouts PROVE Continues(rollouts[q], rollouts'[q])
      BY <1>2 DEF ReviseVersion, PlanKept
    <2> DEFINE c == CompatibilityMoves(rollouts[q], v, TRUE)
    <2>2. Continues(rollouts[q], c)  BY <1>0, PlanHelpers
    <2>3. c \in Plan  BY <2>2 DEF Continues
    <2>4. rollouts'[q] \in {[c EXCEPT !.superseded = @ \/ TRUE], [c EXCEPT !.superseded = @ \/ FALSE]}
      BY <1>2 DEF ReviseVersion
    <2> HIDE DEF c
    <2>5. rollouts'[q] \in {[c EXCEPT !.superseded = TRUE], c}  BY <2>3, <2>4 DEF Plan
    <2>6. Continues(c, [c EXCEPT !.superseded = TRUE])  BY <2>3, PlanFields
    <2> QED  BY <1>0, <2>2, <2>5, <2>6, ContinuesTransitive
  <1>3. ASSUME NEW v \in Versions, Revalidate(v) PROVE Goal
    BY <1>0, <1>3, PlanHelpers DEF Revalidate, PlanKept
  <1>4. ASSUME NEW v \in Versions, NEW verdict \in Verdicts, PublishCompatibility(v, verdict)
        PROVE Goal
    BY <1>0, <1>4, PlanHelpers DEF PublishCompatibility, PlanKept
  <1>5. ASSUME NEW new \in Policies, SetPolicy(new) PROVE Goal
    <2>1. SUFFICES ASSUME NEW q \in DOMAIN rollouts PROVE Continues(rollouts[q], rollouts'[q])
      BY <1>5 DEF SetPolicy, PlanKept
    <2>2. rollouts[q] \in Plan /\ rollouts[q].moved \cup {"policy"} \in SUBSET {"compat", "policy", "root"}
      BY <1>0 DEF Plan
    <2> QED  BY <1>5, <2>2, ContinuesItself, PlanFields DEF SetPolicy
  <1>6. ASSUME NEW rs, NEW q \in DOMAIN rollouts
        PROVE  Continues(rollouts[q], SupersedePlans(rs)[q])
    <2>1. CASE q \in rs  BY <1>0, <2>1, PlanFields DEF SupersedePlans
    <2>2. CASE q \notin rs  BY <1>0, <2>2, ContinuesItself DEF SupersedePlans
    <2> QED  BY <2>1, <2>2
  <1>7. ASSUME NEW v \in Versions, NEW s \in Scopes, NEW t \in Versions \cup {NoVersion},
               NEW generation \in 0..MaxGeneration, PromoteImmediately(v, s, t, generation)
        PROVE Goal
    <2>1. rollouts' = [q \in DOMAIN rollouts |-> Touch(SupersedePlans(InFlight(v))[q], {s})]
      BY <1>7 DEF PromoteImmediately
    <2>2. \A q \in DOMAIN rollouts : SupersedePlans(InFlight(v))[q] \in Plan
      BY SupersedePlansType
    <2> QED  BY <1>0, <1>6, <2>1, <2>2, PlanHelpers, ContinuesTransitive DEF PlanKept
  <1>8. ASSUME NEW v \in Versions, NEW s \in Scopes, NEW t \in Versions \cup {NoVersion},
               PromoteToCanary(v, s, t)
        PROVE Goal
    <2>1. rollouts' = SupersedePlans(InFlight(v))  BY <1>8 DEF PromoteToCanary
    <2> QED  BY <1>6, <2>1, SupersedePlansType DEF PlanKept
  <1>9. ASSUME NEW v \in Versions, NEW req \in PlanRequests, CreateRollout(v, req) PROVE Goal
    BY <1>0, <1>9, ContinuesItself DEF CreateRollout, PlanKept, PlanCreated
  <1>10. ASSUME NEW r \in DOMAIN rollouts, BeginRollout(r) PROVE Goal
    <2>1. SUFFICES ASSUME NEW q \in DOMAIN rollouts PROVE Continues(rollouts[q], rollouts'[q])
      BY <1>10 DEF BeginRollout, PlanKept
    <2> DEFINE t == Touch(rollouts[q], CanaryAdmitted(authority, indexed, pushed,
                                                      rollouts[r].request.stages[1].scopes))
               e == [t EXCEPT !.entered = TRUE]
    <2>2. t \in Plan /\ Continues(rollouts[q], t)  BY <1>0, PlanHelpers DEF Continues
    <2>3. rollouts'[q] \in {t, e, RefreshRoot(e)}
      BY <1>10 DEF BeginRollout
    <2> HIDE DEF t
    <2>4. e \in Plan /\ Continues(t, e)  BY <2>2, PlanFields DEF Continues
    <2> HIDE DEF e
    <2> QED  BY <1>0, <2>2, <2>3, <2>4, PlanHelpers, ContinuesTransitive
  <1>11. ASSUME NEW r \in DOMAIN rollouts, AdvanceStage(r) PROVE Goal
    <2>1. SUFFICES ASSUME NEW q \in DOMAIN rollouts PROVE Continues(rollouts[q], rollouts'[q])
      BY <1>11 DEF AdvanceStage, PlanKept
    <2> DEFINE now == StageScopes(rollouts[r])
               S == now \cup
                    CanaryAdmitted(StageCommit(r, now),
                                   indexed \cup Index(rollouts[r].candidate, now),
                                   pushed + StagePushes(rollouts[r], now),
                                   NextStageScopes(rollouts[r]))
               t == Touch(rollouts[q], S)
               e == StageDone(t)
    <2>2. t \in Plan /\ Continues(rollouts[q], t)  BY <1>0, PlanHelpers DEF Continues
    <2>3. rollouts'[q] = t \/ (q = r /\ rollouts'[q] \in {e, RefreshRoot(e)})
      BY <1>11 DEF AdvanceStage
    <2>4. q = r => Live(t)
      BY <1>0, <1>11 DEF AdvanceStage, StageAdvanceAllowed, Touch, Live, Plan
    <2> HIDE DEF t
    <2>5. q = r => e \in Plan /\ Continues(t, e)  BY <2>2, <2>4, PlanHelpers DEF Continues
    <2> HIDE DEF e
    <2> QED  BY <1>0, <2>2, <2>3, <2>5, PlanHelpers, ContinuesTransitive
  <1>12. ASSUME NEW r \in DOMAIN rollouts, FailStage(r) PROVE Goal
    <2>1. SUFFICES ASSUME NEW q \in DOMAIN rollouts PROVE Continues(rollouts[q], rollouts'[q])
      BY <1>12 DEF FailStage, PlanKept
    <2>2. \/ rollouts'[q] = rollouts[q]
          \/ rollouts'[q] = [rollouts[q] EXCEPT !.failed = TRUE, !.entered = FALSE, !.decided = TRUE]
      BY <1>12 DEF FailStage
    <2>3. Continues(rollouts[q], rollouts[q])  BY <1>0, ContinuesItself
    <2>4. Continues(rollouts[q], [rollouts[q] EXCEPT !.failed = TRUE, !.entered = FALSE,
                                                    !.decided = TRUE])
      BY <1>0, PlanFields
    <2> QED  BY <2>2, <2>3, <2>4
  <1>13. ASSUME NEW r \in DOMAIN rollouts, SupersedePlan(r) PROVE Goal
    <2>1. rollouts' = SupersedePlans({r})  BY <1>13 DEF SupersedePlan
    <2> QED  BY <1>6, <2>1, SupersedePlansType DEF PlanKept
  <1>14. ASSUME NEW r \in DOMAIN rollouts, StageFailure(r) PROVE Goal
    BY <1>0, <1>14, PlanHelpers, ContinuesItself DEF StageFailure, PlanKept
  <1>15. ASSUME NEW v \in Versions, NEW t \in Versions, NEW s \in Scopes,
                NEW r \in DOMAIN rollouts \cup {NoRollout}, Rollback(v, t, s, r)
         PROVE Goal
    <2>1. SUFFICES ASSUME NEW q \in DOMAIN rollouts PROVE Continues(rollouts[q], rollouts'[q])
      BY <1>15 DEF Rollback, PlanKept
    <2> DEFINE f == [rollouts[q] EXCEPT !.failed = TRUE, !.entered = FALSE, !.decided = TRUE]
               g == [f EXCEPT !.rolled_back = TRUE]
               h == [rollouts[q] EXCEPT !.rolled_back = TRUE]
    <2>2. rollouts'[q] \in {Touch(rollouts[q], {s}), Touch(g, {s}), Touch(h, {s})}
      BY <1>15 DEF Rollback
    <2>3. f \in Plan /\ Continues(rollouts[q], f)  BY <1>0, PlanFields DEF Continues
    <2>4. h \in Plan /\ Continues(rollouts[q], h)  BY <1>0, PlanFields DEF Continues
    <2> HIDE DEF f, h
    <2>5. g \in Plan /\ Continues(f, g)  BY <2>3, PlanFields DEF Continues
    <2> HIDE DEF g
    <2>6. Continues(rollouts[q], g)  BY <1>0, <2>3, <2>5, ContinuesTransitive
    <2>7. \A p \in Plan : Continues(rollouts[q], p) => Continues(rollouts[q], Touch(p, {s}))
      BY <1>0, PlanHelpers, ContinuesTransitive
    <2>8. Continues(rollouts[q], rollouts[q])  BY <1>0, ContinuesItself
    <2> QED  BY <1>0, <2>2, <2>4, <2>5, <2>6, <2>7, <2>8
  <1>16. ASSUME NEW r \in DOMAIN rollouts, AutomaticRollback(r) PROVE Goal
    <2>1. SUFFICES ASSUME NEW q \in DOMAIN rollouts PROVE Continues(rollouts[q], rollouts'[q])
      BY <1>16 DEF AutomaticRollback, PlanKept
    <2> DEFINE f == StageFailed(rollouts[q])
               g == [f EXCEPT !.rolled_back = TRUE]
    <2>2. \E S : rollouts'[q] \in {Touch(rollouts[q], S), Touch(g, S)}
      BY <1>16 DEF AutomaticRollback
    <2>3. f \in Plan /\ Continues(rollouts[q], f)  BY <1>0, PlanHelpers DEF Continues
    <2> HIDE DEF f
    <2>4. g \in Plan /\ Continues(f, g)  BY <2>3, PlanFields DEF Continues
    <2> HIDE DEF g
    <2>5. Continues(rollouts[q], g)  BY <1>0, <2>3, <2>4, ContinuesTransitive
    <2>6. \A p \in Plan : \A S : Continues(rollouts[q], p) => Continues(rollouts[q], Touch(p, S))
      BY <1>0, PlanHelpers, ContinuesTransitive
    <2>7. Continues(rollouts[q], rollouts[q])  BY <1>0, ContinuesItself
    <2> QED  BY <1>0, <2>2, <2>4, <2>5, <2>6, <2>7
  <1>17. ASSUME NEW v \in Versions, Retire(v) PROVE Goal
    <2>1. SUFFICES ASSUME NEW q \in DOMAIN rollouts PROVE Continues(rollouts[q], rollouts'[q])
      BY <1>17 DEF Retire, PlanKept
    <2> DEFINE t == Touch(rollouts[q], {s \in Scopes : <<v, s>> \in indexed})
    <2>2. rollouts'[q] \in {t, [t EXCEPT !.superseded = TRUE, !.entered = FALSE]}
      BY <1>17 DEF Retire
    <2>3. t \in Plan /\ Continues(rollouts[q], t)  BY <1>0, PlanHelpers DEF Continues
    <2> HIDE DEF t
    <2>4. Continues(t, [t EXCEPT !.superseded = TRUE, !.entered = FALSE])  BY <2>3, PlanFields
    <2> QED  BY <1>0, <2>2, <2>3, <2>4, ContinuesTransitive
  <1>18. ASSUME NEW v \in Versions, RegisterVersion(v) PROVE Goal
    BY <1>1, <1>18 DEF RegisterVersion
  <1>19. CASE Restart  BY <1>1, <1>19 DEF Restart
  <1>20. ASSUME NEW v \in Versions, NEW s \in Scopes, NEW t \in Versions \cup {NoVersion},
                NEW generation \in 0..MaxGeneration, PromotionRefused(v, s, t, generation)
         PROVE Goal
    <2>1. rollouts' = SupersedePlans(InFlight(v))  BY <1>20 DEF PromotionRefused
    <2> QED  BY <1>6, <2>1, SupersedePlansType DEF PlanKept
  <1>21. ASSUME NEW r \in DOMAIN rollouts, StageRefused(r) PROVE Goal
    <2>1. SUFFICES ASSUME NEW q \in DOMAIN rollouts PROVE Continues(rollouts[q], rollouts'[q])
      BY <1>21 DEF StageRefused, PlanKept
    <2> DEFINE t == Touch(rollouts[q], ExclusiveAdmitted(rollouts[r]))
    <2>2. t \in Plan /\ Continues(rollouts[q], t)  BY <1>0, PlanHelpers DEF Continues
    <2>3. rollouts'[q] \in {t, Decided(t)}  BY <1>21 DEF StageRefused
    <2> HIDE DEF t
    <2> QED  BY <1>0, <2>2, <2>3, PlanHelpers, ContinuesTransitive
  <1>22. CASE UNCHANGED vars  BY <1>1, <1>22 DEF vars
  <1> QED
    BY <1>2, <1>3, <1>4, <1>5, <1>7, <1>8, <1>9, <1>10, <1>11, <1>12, <1>13, <1>14, <1>15,
       <1>16, <1>17, <1>18, <1>19, <1>20, <1>21, <1>22 DEF Next

LEMMA RetirementStep ==
    ASSUME RetirementInv, [Next]_vars
    PROVE  /\ RetirementInv'
           /\ \A v \in DOMAIN versions : Retired(v) => versions'[v] = versions[v]
  <1> USE DEF RetirementInv
  <1>1. CASE Safe
    <2>1. /\ DOMAIN versions \subseteq DOMAIN versions'
          /\ \A v \in DOMAIN versions : Retired(v) => versions'[v] = versions[v]
      BY <1>1 DEF Safe, KeepsRetired, Retired
    <2>2. PlansRegistered'
      BY <2>1, PlanIdentityStep DEF PlansRegistered, PlanKept, PlanCreated, Continues
    <2> QED  BY <1>1, <2>1, <2>2, SafeKeepsHolders, TypeStep
  <1>2. ASSUME NEW v \in Versions, Retire(v)
        PROVE  /\ RetirementInv'
               /\ \A w \in DOMAIN versions : Retired(w) => versions'[w] = versions[w]
    <2>1. /\ RetiredHoldsNothing' /\ DOMAIN versions' = DOMAIN versions
          /\ \A w \in DOMAIN versions : Retired(w) => versions'[w] = versions[w]
      BY <1>2, RetireStep
    <2>2. PlansRegistered'
      BY <2>1, PlanIdentityStep DEF PlansRegistered, PlanKept, PlanCreated, Continues
    <2> QED  BY <2>1, <2>2, TypeStep
  <1> QED  BY <1>1, <1>2, SafeStep

LEMMA RetirementInit == Init => RetirementInv
  <1>1. Init => RetiredHoldsNothing /\ PlansRegistered
    BY DEF Init, RetiredHoldsNothing, PlansRegistered
  <1> QED  BY <1>1, TypeInit DEF RetirementInv

\* A retired version holds no authority, whatever late stage advance, rollback or
\* failure runs after evaluate_retirement_locked allowed its retirement.
THEOREM RetiredVersionsHoldNothing == Spec => []RetiredHoldsNothing
  <1>1. RetirementInv /\ [Next]_vars => RetirementInv'  BY RetirementStep
  <1>2. RetirementInv => RetiredHoldsNothing  BY DEF RetirementInv
  <1> QED  BY RetirementInit, <1>1, <1>2, PTL DEF Spec

\* No operation of the engine touches the record of a retired version: the terminal
\* check of advance_lifecycle_to and the guards of the handlers leave no way around.
THEOREM RetirementNeverUndone == Spec => RetirementIsFinal
  <1> DEFINE A == \A v \in DOMAIN versions : Retired(v) => versions'[v] = versions[v]
  <1>1. RetirementInv /\ [Next]_vars => RetirementInv'  BY RetirementStep
  <1>2. RetirementInv /\ [Next]_vars => [A]_vars  BY RetirementStep
  <1> QED  BY RetirementInit, <1>1, <1>2, PTL DEF Spec, RetirementIsFinal

------------------------------------------------------------------------------
(* Generations only grow. *)

\* The versions of vs are in ws, at the same generation.
SameGenerations(vs, ws) ==
    \A w \in DOMAIN vs : w \in DOMAIN ws /\ ws[w].generation = vs[w].generation

LEMMA SameTransitive ==
    ASSUME NEW us, NEW vs, NEW ws, SameGenerations(us, vs), SameGenerations(vs, ws)
    PROVE  SameGenerations(us, ws)
  BY DEF SameGenerations

LEMMA AdvanceSame ==
    ASSUME NEW D, NEW vs \in [D -> VersionRecord], NEW v, NEW to
    PROVE  SameGenerations(vs, Advance(vs, v, to))
  BY DEF SameGenerations, Advance, VersionRecord

LEMMA DisplaceSame ==
    ASSUME NEW D, NEW vs \in [D -> VersionRecord], NEW b, NEW after, NEW S
    PROVE  SameGenerations(vs, Displace(b, after, vs, S))
  BY DEF SameGenerations, Displace, VersionRecord

LEMMA DrainCandidatesSame ==
    ASSUME TypeOK, NEW rs
    PROVE  SameGenerations(versions, DrainCandidates(rs))
  BY DEF SameGenerations, DrainCandidates, VersionRecord, TypeOK

LEMMA PromotionSame ==
    ASSUME TypeOK, NEW v \in DOMAIN versions, NEW rs, NEW to \in LifecycleState
    PROVE  SameGenerations(versions,
               [Advance(DrainCandidates(rs), v, to) EXCEPT ![v].promotions = @ + 1])
  <1> DEFINE d == DrainCandidates(rs)
             a == Advance(d, v, to)
  <1>1. d \in [DOMAIN versions -> VersionRecord]  BY DrainCandidatesType
  <1>2. a \in [DOMAIN versions -> VersionRecord] /\ DOMAIN a = DOMAIN versions
    BY <1>1, AdvanceType
  <1>3. SameGenerations(versions, a)
    BY <1>1, DrainCandidatesSame, AdvanceSame, SameTransitive
  <1> HIDE DEF a
  <1>4. SameGenerations(versions, [a EXCEPT ![v].promotions = @ + 1])
    BY <1>2, <1>3 DEF SameGenerations, VersionRecord
  <1> QED  BY <1>4 DEF a

LEMMA RolledBackSame ==
    ASSUME NEW D, NEW vs \in [D -> VersionRecord], NEW v \in D, NEW t, NEW to \in LifecycleState
    PROVE  SameGenerations(vs,
               [Advance(Advance(vs, t, "CURRENT"), v, to) EXCEPT ![v].rollbacks = @ + 1])
  <1> DEFINE d == Advance(vs, t, "CURRENT")
             a == Advance(d, v, to)
  <1>1. d \in [D -> VersionRecord]  BY AdvanceType, States
  <1>2. a \in [D -> VersionRecord] /\ DOMAIN a = D  BY <1>1, AdvanceType
  <1>3. SameGenerations(vs, a)  BY <1>1, AdvanceSame, SameTransitive
  <1> HIDE DEF a
  <1>4. SameGenerations(vs, [a EXCEPT ![v].rollbacks = @ + 1])
    BY <1>2, <1>3 DEF SameGenerations, VersionRecord
  <1> QED  BY <1>4 DEF a

LEMMA StageVersionsSame ==
    ASSUME TypeOK, NEW r \in DOMAIN rollouts, NEW W
    PROVE  SameGenerations(versions, StageVersions(r, W))
  <1> DEFINE p == rollouts[r]
             vs == Displace(authority, StageGrant(r, W), versions, W)
  <1>1. vs \in [DOMAIN versions -> VersionRecord] /\ SameGenerations(versions, vs)
    BY DisplaceType, DisplaceSame DEF TypeOK
  <1>2. StageVersions(r, W) =
            IF Drains(p) /\ W # {} THEN Advance(vs, p.previous, "DRAINING") ELSE vs
    BY DEF StageVersions
  <1> HIDE DEF vs
  <1> QED  BY <1>1, <1>2, AdvanceSame, SameTransitive

\* No step takes a version or a plan out of its table, or lowers a generation.
Grows ==
    /\ \A w \in DOMAIN versions : /\ w \in DOMAIN versions'
                                  /\ versions[w].generation <= versions'[w].generation
    /\ DOMAIN rollouts \subseteq DOMAIN rollouts'

\* A step that changes no generation and takes no plan out of its table.
Steady == SameGenerations(versions, versions') /\ DOMAIN rollouts \subseteq DOMAIN rollouts'

\* Only a revision changes a generation.
LEMMA SteadyStep ==
    ASSUME RetirementInv, [Next]_vars
    PROVE  Steady \/ \E v \in Versions : ReviseVersion(v)
  <1> USE DEF RetirementInv
  <1>0. /\ versions \in [DOMAIN versions -> VersionRecord]
        /\ \A w \in DOMAIN versions : versions[w].generation \in Nat
    BY BoundAssumption DEF TypeOK, VersionRecord
  <1>1. ASSUME SameGenerations(versions, versions'), DOMAIN rollouts \subseteq DOMAIN rollouts'
        PROVE  Steady
    BY <1>0, <1>1 DEF SameGenerations, Steady
  <1>2. ASSUME UNCHANGED versions, DOMAIN rollouts \subseteq DOMAIN rollouts' PROVE Steady
    BY <1>0, <1>2 DEF SameGenerations, Steady
  <1>3. ASSUME NEW v \in Versions, RegisterVersion(v) PROVE Steady
    BY <1>0, <1>3 DEF RegisterVersion, SameGenerations, Steady
  <1>4. ASSUME NEW v \in Versions, NEW verdict \in Verdicts, PublishCompatibility(v, verdict)
        PROVE Steady
    <2>1. versions' = [versions EXCEPT ![v] = Judged(versions[v], verdict)]
      BY <1>4 DEF PublishCompatibility
    <2>2. v \in DOMAIN versions /\ versions[v] \in VersionRecord
      BY <1>4 DEF PublishCompatibility, TypeOK
    <2>3. Judged(versions[v], verdict).generation = versions[v].generation
      BY <2>2 DEF Judged, VersionRecord
    <2>4. DOMAIN rollouts \subseteq DOMAIN rollouts'  BY <1>4 DEF PublishCompatibility
    <2> QED  BY <1>0, <2>1, <2>2, <2>3, <2>4 DEF SameGenerations, Steady
  <1>5. ASSUME NEW new \in Policies, SetPolicy(new) PROVE Steady
    BY <1>2, <1>5 DEF SetPolicy
  <1>6. ASSUME NEW v \in Versions, NEW s \in Scopes, NEW t \in Versions \cup {NoVersion},
               NEW generation \in 0..MaxGeneration, PromoteImmediately(v, s, t, generation)
        PROVE Steady
    <2> DEFINE vs == [Advance(DrainCandidates(InFlight(v)), v, "CURRENT")
                          EXCEPT ![v].promotions = @ + 1]
    <2>1. v \in DOMAIN versions /\ versions[v].promotions < MaxPromotions
      BY <1>6 DEF PromoteImmediately, PromotionAllowed
    <2>2. vs \in [DOMAIN versions -> VersionRecord] /\ SameGenerations(versions, vs)
      BY <2>1, PromotionType, PromotionSame, States
    <2>3. \E b, after : versions' = Displace(b, after, vs, {s})
      BY <1>6 DEF PromoteImmediately
    <2> HIDE DEF vs
    <2>4. SameGenerations(versions, versions')  BY <2>2, <2>3, DisplaceSame, SameTransitive
    <2> QED  BY <1>1, <1>6, <2>4 DEF PromoteImmediately
  <1>7. ASSUME NEW v \in Versions, NEW s \in Scopes, NEW t \in Versions \cup {NoVersion},
               PromoteToCanary(v, s, t)
        PROVE Steady
    <2>1. v \in DOMAIN versions  BY <1>7 DEF PromoteToCanary, PromotionAllowed
    <2>2. SameGenerations(versions, versions')
      BY <1>7, <2>1, PromotionSame, States DEF PromoteToCanary
    <2> QED  BY <1>1, <1>7, <2>2, SupersedePlansType DEF PromoteToCanary
  <1>8. ASSUME NEW v \in Versions, NEW req \in PlanRequests, CreateRollout(v, req) PROVE Steady
    BY <1>2, <1>8 DEF CreateRollout
  <1>9. ASSUME NEW r \in DOMAIN rollouts, BeginRollout(r) PROVE Steady
    BY <1>0, <1>1, <1>9, AdvanceSame DEF BeginRollout
  <1>10. ASSUME NEW r \in DOMAIN rollouts, AdvanceStage(r) PROVE Steady
    <2> DEFINE vs == StageVersions(r, StageScopes(rollouts[r]))
    <2>1. vs \in [DOMAIN versions -> VersionRecord] /\ SameGenerations(versions, vs)
      BY StageVersionsType, StageVersionsSame
    <2>2. \E to : versions' = Advance(vs, rollouts[r].candidate, to)
      BY <1>10 DEF AdvanceStage
    <2>3. SameGenerations(versions, versions')  BY <2>1, <2>2, AdvanceSame, SameTransitive
    <2> QED  BY <1>1, <1>10, <2>3 DEF AdvanceStage
  <1>11. ASSUME NEW r \in DOMAIN rollouts, FailStage(r) \/ StageFailure(r) PROVE Steady
    BY <1>0, <1>1, <1>11, AdvanceSame DEF FailStage, StageFailure
  <1>12. ASSUME NEW r \in DOMAIN rollouts, SupersedePlan(r) PROVE Steady
    BY <1>1, <1>12, DrainCandidatesSame, SupersedePlansType DEF SupersedePlan
  <1>13. ASSUME NEW v \in Versions, NEW t \in Versions, NEW s \in Scopes,
                NEW r \in DOMAIN rollouts \cup {NoRollout}, Rollback(v, t, s, r)
         PROVE Steady
    <2>1. v \in DOMAIN versions  BY <1>13 DEF Rollback, RollbackAllowed
    <2>2. \E to \in {"PARTIALLY_PROMOTED", "ROLLED_BACK"} : versions' =
             [Advance(Advance(versions, t, "CURRENT"), v, to) EXCEPT ![v].rollbacks = @ + 1]
      BY <1>13 DEF Rollback
    <2>3. SameGenerations(versions, versions')  BY <1>0, <2>1, <2>2, RolledBackSame, States
    <2> QED  BY <1>1, <1>13, <2>3 DEF Rollback
  <1>14. ASSUME NEW r \in DOMAIN rollouts, AutomaticRollback(r) PROVE Steady
    <2> DEFINE v == rollouts[r].candidate
               failing == Advance(versions, v, "CANARY_FAILED")
    <2>1. /\ failing \in [DOMAIN versions -> VersionRecord]
          /\ SameGenerations(versions, failing) /\ v \in DOMAIN versions
      BY <1>0, AdvanceType, States, AdvanceSame DEF PlansRegistered
    <2>2. \E t : versions' = [Advance(Advance(failing, t, "CURRENT"), v, "ROLLED_BACK")
                                  EXCEPT ![v].rollbacks = @ + 1]
      BY <1>14 DEF AutomaticRollback
    <2> HIDE DEF failing
    <2>3. SameGenerations(failing, versions')  BY <2>1, <2>2, RolledBackSame, States
    <2>4. SameGenerations(versions, versions')  BY <2>1, <2>3, SameTransitive
    <2> QED  BY <1>1, <1>14, <2>4 DEF AutomaticRollback
  <1>15. ASSUME NEW v \in Versions, Retire(v) PROVE Steady
    BY <1>0, <1>1, <1>15, AdvanceSame DEF Retire
  <1>16. ASSUME NEW v \in Versions, Revalidate(v) PROVE Steady
    <2> DEFINE a == Advance(versions, v, "REVALIDATION_REQUIRED")
    <2>1. a \in [DOMAIN versions -> VersionRecord] /\ SameGenerations(versions, a)
      BY <1>0, AdvanceType, States, AdvanceSame
    <2>2. versions' = [a EXCEPT ![v].compat = "none"]  BY <1>16 DEF Revalidate
    <2> HIDE DEF a
    <2>3. SameGenerations(versions, versions')
      BY <2>1, <2>2 DEF SameGenerations, VersionRecord
    <2> QED  BY <1>1, <1>16, <2>3 DEF Revalidate
  <1>17. CASE Restart  BY <1>2, <1>17 DEF Restart
  <1>18. ASSUME NEW v \in Versions, NEW s \in Scopes, NEW t \in Versions \cup {NoVersion},
                NEW generation \in 0..MaxGeneration, PromotionRefused(v, s, t, generation)
         PROVE Steady
    <2>1. SameGenerations(versions, versions')
      BY <1>18, DrainCandidatesType, DrainCandidatesSame, AdvanceSame, SameTransitive
         DEF PromotionRefused
    <2> QED  BY <1>1, <1>18, <2>1, SupersedePlansType DEF PromotionRefused
  <1>19. ASSUME NEW r \in DOMAIN rollouts, StageRefused(r) PROVE Steady
    BY <1>1, <1>19, StageVersionsSame DEF StageRefused
  <1>20. CASE UNCHANGED vars  BY <1>2, <1>20 DEF vars
  <1> QED
    BY <1>3, <1>4, <1>5, <1>6, <1>7, <1>8, <1>9, <1>10, <1>11, <1>12, <1>13, <1>14,
       <1>15, <1>16, <1>17, <1>18, <1>19, <1>20 DEF Next

LEMMA GrowsStep ==
    ASSUME RetirementInv, [Next]_vars
    PROVE  Grows
  <1>0. /\ versions \in [DOMAIN versions -> VersionRecord]
        /\ \A w \in DOMAIN versions : versions[w].generation \in Nat
    BY BoundAssumption DEF RetirementInv, TypeOK, VersionRecord
  <1>1. CASE Steady  BY <1>0, <1>1 DEF Steady, SameGenerations, Grows
  <1>2. ASSUME NEW v \in Versions, ReviseVersion(v) PROVE Grows
    <2>1. versions' = [versions EXCEPT ![v] = Revised(versions[v])]  BY <1>2 DEF ReviseVersion
    <2>2. v \in DOMAIN versions /\ versions[v] \in VersionRecord
      BY <1>2 DEF ReviseVersion, RetirementInv, TypeOK
    <2>3. Revised(versions[v]).generation = versions[v].generation + 1
      BY <2>2 DEF Revised, VersionRecord
    <2>4. DOMAIN rollouts \subseteq DOMAIN rollouts'  BY <1>2 DEF ReviseVersion
    <2> QED  BY <1>0, <2>1, <2>2, <2>3, <2>4 DEF Grows
  <1> QED  BY <1>1, <1>2, SteadyStep

------------------------------------------------------------------------------
(* Bindings refer to what is recorded. *)

\* Every binding of b is held by a registered version, at a generation that version
\* has reached, and on behalf of no rollout or of one in the table.
Covered(b) ==
    \A x \in b :
        /\ x.version \in DOMAIN versions
        /\ x.generation <= versions[x.version].generation
        /\ x.rollout # NoRollout => x.rollout \in DOMAIN rollouts

LEMMA SubsetCovered ==
    ASSUME NEW b, Covered(b), NEW c \in SUBSET b
    PROVE  Covered(c)
  BY DEF Covered

LEMMA GrantExclusiveCovered ==
    ASSUME NEW b \in SUBSET BindingRecord, Covered(b),
           NEW v \in DOMAIN versions, versions[v].generation \in Nat,
           NEW vs, vs[v].generation = versions[v].generation,
           NEW S, NEW r \in DOMAIN rollouts \cup {NoRollout}, NEW t, NEW g
    PROVE  Covered(GrantExclusive(b, vs, v, S, r, t, g))
  <1>1. \A x \in Displaced(b, S) : x \in b  BY DEF Displaced, ExclusiveAt, LiveAt
  <1>2. \A x \in GrantExclusive(b, vs, v, S, r, t, g) :
            \/ x.version = v /\ x.generation = versions[v].generation /\ x.rollout = r
            \/ \E y \in b : /\ y.version = x.version /\ y.generation = x.generation
                            /\ y.rollout = x.rollout
    BY <1>1 DEF GrantExclusive, Retained, Binding, BindingRecord
  <1> QED  BY <1>2 DEF Covered

LEMMA MarkDrainingCovered ==
    ASSUME NEW b \in SUBSET BindingRecord, Covered(b), NEW v, NEW S
    PROVE  Covered(MarkDraining(b, v, S))
  <1>1. \A x \in MarkDraining(b, v, S) :
            \E y \in b : /\ y.version = x.version /\ y.generation = x.generation
                         /\ y.rollout = x.rollout
    BY DEF MarkDraining, BindingRecord
  <1> QED  BY <1>1 DEF Covered

LEMMA CanaryGrantsCovered ==
    ASSUME NEW b, Covered(b), NEW v \in DOMAIN versions, versions[v].generation \in Nat,
           NEW S, NEW r \in DOMAIN rollouts
    PROVE  Covered(b \cup CanaryGrants(S, v, versions[v].generation, r))
  BY DEF Covered, CanaryGrants, Binding

LEMMA StageCommitCovered ==
    ASSUME RetirementInv, Covered(authority), NEW r \in DOMAIN rollouts,
           NEW W \in SUBSET Scopes, StageAdvanceAllowed(rollouts[r])
    PROVE  Covered(StageCommit(r, W))
  <1> USE DEF RetirementInv
  <1>1. /\ rollouts[r].candidate \in DOMAIN versions
        /\ versions[rollouts[r].candidate].generation \in 1..MaxGeneration
    BY StageCommitType DEF PlansRegistered
  <1>2. versions[rollouts[r].candidate].generation \in Nat  BY <1>1, BoundAssumption
  <1>3. StageGrant(r, W) \in SUBSET BindingRecord
    BY <1>1, StageTypes, GrantExclusiveType DEF StageGrant, TypeOK
  <1>4. Covered(StageGrant(r, W))
    BY <1>1, <1>2, GrantExclusiveCovered DEF StageGrant, TypeOK
  <1> QED  BY <1>3, <1>4, MarkDrainingCovered DEF StageCommit

\* A step hands out authority only to what was recorded before it.
LEMMA CoveredStep ==
    ASSUME RetirementInv, Covered(authority), [Next]_vars
    PROVE  Covered(authority')
  <1> USE DEF RetirementInv
  <1>0. \A w \in DOMAIN versions :
            versions[w].generation \in Nat /\ versions[w].generation \in 1..MaxGeneration
    BY BoundAssumption DEF TypeOK, VersionRecord
  <1>1. ASSUME authority' \in SUBSET authority PROVE Covered(authority')
    BY <1>1, SubsetCovered
  <1>2. ASSUME NEW v \in Versions, NEW s \in Scopes, NEW t \in Versions \cup {NoVersion},
               NEW generation \in 0..MaxGeneration, PromoteImmediately(v, s, t, generation)
        PROVE Covered(authority')
    <2> DEFINE before == {x \in authority : x.rollout \notin InFlight(v)}
               vs == [Advance(DrainCandidates(InFlight(v)), v, "CURRENT")
                          EXCEPT ![v].promotions = @ + 1]
    <2>1. v \in DOMAIN versions /\ versions[v].promotions < MaxPromotions
      BY <1>2 DEF PromoteImmediately, PromotionAllowed
    <2>2. vs[v].generation = versions[v].generation
      BY <2>1, PromotionSame, States DEF SameGenerations
    <2>3. before \in SUBSET BindingRecord /\ Covered(before)
      BY SubsetCovered DEF TypeOK
    <2>4. authority' = GrantExclusive(before, vs, v, {s}, NoRollout, t, generation)
      BY <1>2 DEF PromoteImmediately
    <2> HIDE DEF before, vs
    <2> QED  BY <1>0, <2>1, <2>2, <2>3, <2>4, GrantExclusiveCovered
  <1>3. ASSUME NEW r \in DOMAIN rollouts, BeginRollout(r) PROVE Covered(authority')
    BY <1>0, <1>3, CanaryGrantsCovered DEF BeginRollout, PlansRegistered
  <1>4. ASSUME NEW r \in DOMAIN rollouts, AdvanceStage(r) PROVE Covered(authority')
    <2>1. Covered(StageCommit(r, StageScopes(rollouts[r])))
      BY <1>4, StageTypes, StageCommitCovered DEF AdvanceStage
    <2>2. rollouts[r].candidate \in DOMAIN versions  BY DEF PlansRegistered
    <2> QED  BY <1>0, <1>4, <2>1, <2>2, CanaryGrantsCovered DEF AdvanceStage
  <1>5. ASSUME NEW v \in Versions, NEW t \in Versions, NEW s \in Scopes,
               NEW r \in DOMAIN rollouts \cup {NoRollout}, Rollback(v, t, s, r)
        PROVE Covered(authority')
    <2> DEFINE fenced == SupersedeScope(authority, s)
               granted == GrantExclusive(fenced, versions, t, {s}, NoRollout, NoVersion, 0)
    <2>1. fenced \in SUBSET BindingRecord /\ Covered(fenced)
      BY SubsetCovered DEF SupersedeScope, TypeOK
    <2>2. t \in DOMAIN versions
      BY <1>5 DEF Rollback, RollbackAllowed, RollbackTargetAllowed, Known
    <2>3. granted \in SUBSET BindingRecord  BY <1>0, <2>1, <2>2, GrantExclusiveType
    <2>4. Covered(granted)  BY <1>0, <2>1, <2>2, GrantExclusiveCovered
    <2>5. authority' = MarkDraining(granted, v, {s})  BY <1>5 DEF Rollback
    <2> HIDE DEF granted
    <2> QED  BY <2>3, <2>4, <2>5, MarkDrainingCovered
  <1>6. ASSUME NEW r \in DOMAIN rollouts, AutomaticRollback(r) PROVE Covered(authority')
    <2> DEFINE p == rollouts[r]
               v == p.candidate
               fenced == SupersedeScope(SupersedeRollout(authority, r), p.request.root)
               failing == Advance(versions, v, "CANARY_FAILED")
    <2>1. fenced \in SUBSET BindingRecord /\ Covered(fenced)
      BY SubsetCovered DEF SupersedeScope, SupersedeRollout, TypeOK
    <2>2. v \in DOMAIN versions  BY DEF PlansRegistered
    <2>3. failing[v].generation = versions[v].generation
      BY <2>2, AdvanceSame DEF SameGenerations, TypeOK
    <2>4. authority' = GrantExclusive(fenced, failing, v, {p.request.root}, NoRollout,
                                      p.request.target, p.request.target_generation)
      BY <1>6 DEF AutomaticRollback
    <2> HIDE DEF fenced, failing
    <2> QED  BY <1>0, <2>1, <2>2, <2>3, <2>4, GrantExclusiveCovered
  <1>7. ASSUME NEW v \in Versions, RegisterVersion(v) \/ ReviseVersion(v) PROVE Covered(authority')
    BY <1>1, <1>7 DEF RegisterVersion, ReviseVersion
  <1>8. ASSUME NEW v \in Versions, NEW verdict \in Verdicts, PublishCompatibility(v, verdict)
        PROVE Covered(authority')
    BY <1>1, <1>8 DEF PublishCompatibility
  <1>9. ASSUME NEW new \in Policies, SetPolicy(new) PROVE Covered(authority')
    BY <1>1, <1>9 DEF SetPolicy
  <1>10. ASSUME NEW v \in Versions, NEW s \in Scopes, NEW t \in Versions \cup {NoVersion},
                PromoteToCanary(v, s, t)
         PROVE Covered(authority')
    BY <1>1, <1>10 DEF PromoteToCanary
  <1>11. ASSUME NEW v \in Versions, NEW req \in PlanRequests, CreateRollout(v, req)
         PROVE Covered(authority')
    BY <1>1, <1>11 DEF CreateRollout
  <1>12. ASSUME NEW r \in DOMAIN rollouts, FailStage(r) \/ SupersedePlan(r) \/ StageFailure(r)
         PROVE Covered(authority')
    BY <1>1, <1>12 DEF FailStage, SupersedePlan, StageFailure, SupersedeRollout
  <1>13. ASSUME NEW v \in Versions, Retire(v) \/ Revalidate(v) PROVE Covered(authority')
    BY <1>1, <1>13 DEF Retire, Revalidate, SupersedeVersion
  <1>14. CASE Restart  BY <1>1, <1>14 DEF Restart
  <1>15. ASSUME NEW v \in Versions, NEW s \in Scopes, NEW t \in Versions \cup {NoVersion},
                NEW generation \in 0..MaxGeneration, PromotionRefused(v, s, t, generation)
         PROVE Covered(authority')
    BY <1>1, <1>15 DEF PromotionRefused
  <1>16. ASSUME NEW r \in DOMAIN rollouts, StageRefused(r) PROVE Covered(authority')
    BY <1>16, StageTypes, StageCommitCovered DEF StageRefused, ExclusiveAdmitted
  <1>17. CASE UNCHANGED vars  BY <1>1, <1>17 DEF vars
  <1> QED
    BY <1>2, <1>3, <1>4, <1>5, <1>6, <1>7, <1>8, <1>9, <1>10, <1>11, <1>12, <1>13, <1>14, <1>15, <1>16, <1>17
       DEF Next

\* The inductive invariant of recovery.
RestartInv == RetirementInv /\ SingleExclusive /\ Covered(authority)

LEMMA RestartStep ==
    ASSUME RestartInv, [Next]_vars
    PROVE  RestartInv'
  <1> USE DEF RestartInv
  <1>1. RetirementInv'  BY RetirementStep
  <1>2. SingleExclusive'
    BY SingleStep DEF Single, SingleExclusive, RetirementInv
  <1>3. \A x \in authority' : x \in BindingRecord /\ x.generation \in Nat
    BY <1>1 DEF RetirementInv, TypeOK, BindingRecord
  <1>4. \A w \in DOMAIN versions : versions[w].generation \in Nat
    BY BoundAssumption DEF RetirementInv, TypeOK, VersionRecord
  <1>5. \A w \in DOMAIN versions' : versions'[w].generation \in Nat
    BY <1>1, BoundAssumption DEF RetirementInv, TypeOK, VersionRecord
  <1>6. Covered(authority)'
    BY <1>3, <1>4, <1>5, CoveredStep, GrowsStep DEF Covered, Grows
  <1> QED  BY <1>1, <1>2, <1>6

\* Whatever requests ran, a restart loads the state they left: what export_durable_state
\* writes passes the cross-section checks of deserialize_durable_state, the checks of
\* import_durable_state and AuthorityTable::restore.
THEOREM StateAlwaysRestorable == Spec => []StateIsRestorable
  <1>1. Init => RestartInv
    BY RetirementInit DEF Init, RestartInv, SingleExclusive, Covered
  <1>2. RestartInv /\ [Next]_vars => RestartInv'  BY RestartStep
  <1>3. RestartInv => StateIsRestorable
    BY DEF RestartInv, RetirementInv, PlansRegistered, TypeOK, RetiredHoldsNothing, Retired,
           SingleExclusive, Covered, StateIsRestorable, Loadable
  <1> QED  BY <1>1, <1>2, <1>3, PTL DEF Spec
==============================================================================
