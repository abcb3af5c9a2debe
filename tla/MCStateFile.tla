---------------------------- MODULE MCStateFile ----------------------------
(* StateFile for TLC.  The records are built from the readers' layouts, with *)
(* the identities that records refer to one another by; beside each of them  *)
(* stand the same record with one field longer than its reader admits under  *)
(* some of the bounds, and some the engine does not accept either.           *)
EXTENDS StateFile, LayoutSamples

CONSTANT Size   \* length of the texts and lists of the records

Roomy == [max_models |-> 2, max_versions_per_model |-> 1, max_scopes |-> 2,
          max_rollouts |-> 1, max_authority_bindings |-> 2, max_workers |-> 1,
          max_evidence |-> 2, max_attempts |-> 1, max_name_length |-> 45,
          max_digest_length |-> 2, max_stages_per_rollout |-> MaxStages + 1,
          max_cohorts_per_rollout |-> MaxCohorts + 1]
Tight == [Roomy EXCEPT !.max_models = 1, !.max_authority_bindings = 1, !.max_evidence = 1,
                       !.max_name_length = 1]
RoomyAndTight == {Roomy, Tight}

L == from_bounds(Roomy)
TightString == from_bounds(Tight).max_string
Of(layout, seed) == Deep(layout, seed, Size, 0)
Long(n) == [i \in 1..n |-> i]
Times(n, item) == [i \in 1..n |-> item]

ScopeOf(id)  == [Of(ScopeReader(L), id) EXCEPT !.id = id]
ModelOf(id)  == [Of(ModelReader(L), id) EXCEPT !.id = id]
VersionOf(model, version, predecessor) ==
  [Of(VersionReader(L), version) EXCEPT !.model = model, !.version = version,
                                        !.predecessor = predecessor]
Override == [Of(OverrideReader, 3) EXCEPT !.scope = 1]
Fact     == [Of(FactReader(L), 5) EXCEPT !.model = 1, !.version = 1]
Lease    == Of(LeaseReader(L), 6)
Attempt  == Of(AttemptReader(L), 7)
EvidenceOf(version) ==
  [Of(EvidenceReader(L), 8 + version) EXCEPT !.subject.model = 1, !.subject.version = version,
                                             !.unit = <<>>]

Plan ==
  LET plan == Of(RolloutReader(L), 9)
      Numbered(items, field, value) ==
        [i \in DOMAIN items |-> [items[i] EXCEPT !.id = i, ![field] = value]]
  IN [plan EXCEPT
        !.model = 1, !.candidate = 1, !.current_stage_index = 0, !.history = <<>>,
        !.completed = FALSE, !.failed = FALSE, !.superseded = FALSE,
        !.cohorts = Numbered(plan.cohorts, "scopes", <<[item |-> 1]>>),
        !.stages = Numbered(plan.stages, "cohorts", <<[item |-> 1]>>)]

\* An exclusive binding of a version to a scope, with or without the plan.
BindingOf(scope, rollout) ==
  [bindings |->
     <<[Of(AuthorityReader(L), 4).bindings[1] EXCEPT
          !.scope = scope, !.model = 1, !.version = 1, !.model_generation = 1, !.kind = 0,
          !.rollout = rollout, !.rollout_generation = IF rollout = 0 THEN 0 ELSE Plan.generation]>>]

\* A record with another value in one field, which may be too much.
Put(field, value, record) == (field :> value) @@ record

LongScopes(scope) ==
  {Put("name", Long(n), scope) : n \in {MaxScopeName, MaxScopeName + 1}}
    \cup {Put("path", Long(MaxScopePath), scope)}
LongVersions(version) ==
  {Put(name, Long(L.max_string + 1), version) :
     name \in {"runtime", "runtime_min_version", "backend", "architecture", "precision",
               "tokenizer_generation", "adapter_set"}}
    \cup {Put("label", Long(Tight.max_name_length + 1), version)}
LongFacts(fact) ==
  {Put("environment_key", Long(MaxEnvironmentKey), fact),
   Put("detail", Long(MaxRecordDetail), fact)}
LongPlans(plan) ==
  LET cohort == plan.cohorts[1]
      stage  == plan.stages[1]
      Cohorts(cohorts) == Put("cohorts", cohorts, plan)
      Stages(stages)   == Put("stages", stages, plan)
  IN {Stages([i \in 1..(MaxStages + 1) |-> Put("id", i, stage)]),
      Cohorts([i \in 1..(MaxCohorts + 1) |-> Put("id", i, cohort)])}
       \cup {Cohorts(<<Put(field, 101, cohort)>>) :
               field \in {"max_blast_radius_percent", "traffic_percent"}}
       \cup {Stages(<<Put(field, Times(89, stage[field][1]), stage)>>) :
               field \in {"required_evidence", "acceptance", "failure"}}
LongEvidence(evidence) ==
  {Put("unit", Long(n), evidence) : n \in {MaxUnit, MaxUnit + 1}}
    \cup {Put("detail", Long(MaxRecordDetail), evidence)}

Records ==
  [scopes |-> <<ScopeOf(1), ScopeOf(2)>>, policy_overrides |-> <<Override>>,
   models |-> <<ModelOf(1), ModelOf(2)>>,
   versions |-> <<VersionOf(1, 1, 0), VersionOf(1, 2, 1)>>,
   compatibility |-> <<Fact>>, rollouts |-> <<Plan>>,
   authority |-> <<BindingOf(1, 0), BindingOf(2, Plan.id)>>, worker_leases |-> <<Lease>>,
   evidence |-> <<EvidenceOf(1), EvidenceOf(2)>>, unsettled_attempts |-> <<Attempt>>,
   committed_promotions |-> <<[item |-> 1], [item |-> 2], [item |-> 3]>>,
   committed_rollbacks |-> <<[rollout |-> 0, generation |-> 1], [rollout |-> 1, generation |-> 1],
                             [rollout |-> 1, generation |-> 2]>>]

LongRecords(part, record) ==
  CASE part = "scopes" -> LongScopes(record)
    [] part = "models" -> {Put("name", Long(Tight.max_name_length + 1), record)}
    [] part = "versions" -> LongVersions(record)
    [] part = "compatibility" -> LongFacts(record)
    [] part = "rollouts" -> LongPlans(record)
    [] part \in {"worker_leases", "unsettled_attempts"} ->
           {Put("detail", Long(MaxReasonDetail), record)}
    [] part = "evidence" -> LongEvidence(record)
    [] OTHER -> {}

RecordsAsked ==
  [part \in DOMAIN Records |->
     [i \in DOMAIN Records[part] |->
        {Records[part][i]} \cup LongRecords(part, Records[part][i])]]

BasePolicy == Of(read_policy(L), 1)
PoliciesAsked ==
  {[BasePolicy EXCEPT !.generation = 3, !.promotable_scope_kinds = Times(kinds, @[1]),
                      !.globally_required_evidence = Times(required, @[1])] :
     kinds \in {1, LastScopeKind + 2}, required \in {1, TightString + 1, MaxEvidenceKinds + 1}}

Decisions ==
  LET Base == Of(StageRecordReader(L), 2)
  IN {[Base EXCEPT !.reasons = [i \in 1..n |-> [code |-> i, detail |-> <<i>>]]] :
        n \in {1, MaxStageReasons + 1}}
       \cup {[Base EXCEPT !.reasons = <<[code |-> 1, detail |-> Long(n)]>>] :
               n \in {MaxReasonDetail, MaxReasonDetail + 1}}

\* The root scope and the policy of a new engine.
Fresh == [NoState EXCEPT !.scopes = <<ScopeOf(1)>>, !.root_scope = 1, !.epoch = 1,
                         !.generation = 1, !.base_policy = BasePolicy]

\* The first n records of every part, as far as the bounds go, and a plan with n decisions.
Filled(n) ==
  [part \in DOMAIN NoState |->
     IF part \notin DOMAIN Records THEN Fresh[part]
     ELSE IF part = "rollouts"
          THEN <<[Plan EXCEPT !.history = Times(n - 1, Of(StageRecordReader(L), 2))]>>
          ELSE Take(Records[part], IF n < Len(Records[part]) THEN n ELSE Len(Records[part]))]

\* A model with one version, and nothing else yet.
Registered == [Fresh EXCEPT !.models = <<ModelOf(1)>>, !.versions = <<VersionOf(1, 1, 0)>>]

FreshOrFilled == {Fresh, Registered, Filled(1), Filled(2)}
============================================================================
