--------------------------- MODULE StateSections ---------------------------
(***************************************************************************)
(* The sections of the state file (state_store.cpp): for each structure    *)
(* the layout serialize_durable_state writes and, separately, the layout   *)
(* deserialize_durable_state reads.  As in the wire protocol, only the     *)
(* reader knows limits and nothing but the order of two lists of           *)
(* statements makes one the inverse of the other.                          *)
(*                                                                         *)
(* ByteWriter and ByteReader are a second copy of the primitives of the    *)
(* wire protocol, so Written and Read of WireCodec stand for them.  A      *)
(* double is its eight bytes, a signed byte its unsigned one.              *)
(***************************************************************************)
EXTENDS WireCodec

CONSTANTS
  MaxFacts,            \* limits.max_compatibility_facts
  MaxStages,           \* limits.max_stages_per_rollout
  MaxCohorts,          \* limits.max_cohorts_per_rollout
  MaxHistory,          \* limits.max_history_per_rollout
  MaxStageReasons,     \* the reasons of a stage record the reader admits
  CommittedPerModel    \* the committed identities it admits per model

ASSUME SectionLimitsAssumption ==
  /\ {MaxFacts, MaxStages, MaxCohorts, MaxHistory} \subseteq Nat \ {0}
  /\ {MaxStageReasons, CommittedPerModel} \subseteq Nat \ {0}

LastScopeKind == 8
LastEvidenceKind == 21
LastVerdict == 2
LastProvenance == 3
LastLifecycleState == 18
LastCompatibilityOutcome == 14
LastRolloutStrategy == 5
LastStageDecision == 5
LastAuthorityKind == 4
LastAttemptKind == 7
LastAttemptState == 5
MaxEvidenceKinds == 4 * (LastEvidenceKind + 1)
MaxCriteria == 64

\* The limits a coordinator reads and writes its file with.
from_bounds(bounds) ==
  [max_models |-> bounds.max_models,
   max_versions |-> bounds.max_models * bounds.max_versions_per_model,
   max_scopes |-> bounds.max_scopes, max_rollouts |-> bounds.max_rollouts,
   max_authority_bindings |-> bounds.max_authority_bindings,
   max_workers |-> bounds.max_workers, max_evidence |-> bounds.max_evidence,
   max_attempts |-> bounds.max_attempts, max_string |-> 2 * bounds.max_name_length,
   max_digest |-> bounds.max_digest_length]

Item == <<U64("item")>>
Kind(last) == <<AtMost(U8("item"), last)>>
Enum(name, last) == AtMost(U8(name), last)

----------------------------------------------------------------------------
(* Parts.                                                                  *)

write_subject ==
  Ids(<<"model", "version", "model_generation", "artifact_set", "artifact_generation", "scope",
        "rollout", "rollout_generation", "stage", "stage_generation",
        "compatibility_generation">>)
\* Mutant: the reader takes the scope and the rollout of a subject in the other order.
SubjectReadSwapped ==
  Ids(<<"model", "version", "model_generation", "artifact_set", "artifact_generation",
        "rollout", "scope", "rollout_generation", "stage", "stage_generation",
        "compatibility_generation">>)

read_subject ==
  Ids(<<"model", "version", "model_generation", "artifact_set", "artifact_generation", "scope",
        "rollout", "rollout_generation", "stage", "stage_generation",
        "compatibility_generation">>)

write_requirements ==
  Texts(<<"runtime", "runtime_min_version", "backend", "architecture", "precision",
          "tokenizer_generation", "adapter_set">>, Huge)
read_requirements(limits) ==
  Texts(<<"runtime", "runtime_min_version", "backend", "architecture", "precision",
          "tokenizer_generation", "adapter_set">>, limits.max_string)

write_binding == Ids(<<"set_id", "binding_generation">>) \o <<Text("digest")>>
read_binding(limits) ==
  Ids(<<"set_id", "binding_generation">>) \o <<AtMost(Text("digest"), limits.max_digest)>>

write_criterion == <<U8("kind"), U8("comparison"), U64("threshold")>>
read_criterion  == <<Enum("kind", LastEvidenceKind), U8("comparison"), U64("threshold")>>

write_evidence_requirement ==
  <<U8("kind"), U8("required_verdict"), Flag("require_exact_subject"),
    Flag("require_current_publisher")>>
read_evidence_requirement ==
  <<Enum("kind", LastEvidenceKind), Enum("required_verdict", LastVerdict),
    Flag("require_exact_subject"), Flag("require_current_publisher")>>

write_policy ==
  <<U64("generation"), U32("max_active_generations_per_scope"),
    Flag("allow_split_traffic"), Flag("require_rollback_target"),
    Flag("allow_automatic_rollback"), Flag("require_manual_approval_for_promotion"),
    U32("max_blast_radius_percent"), Flag("require_evidence_for_stage_advance"),
    U64("max_evidence_age_ticks"), Flag("require_residency_before_stage_entry"),
    Flag("require_drain_after_stage_commit"), Flag("allow_immediate_cutover"),
    Flag("allow_retirement_without_drain"), U32("rollback_retention_generations"),
    Flag("supersede_inflight_rollout_on_new_promotion"),
    Flag("allow_version_label_reuse_after_retirement")>>
    \o <<Many("promotable_scope_kinds", <<U8("item")>>),
         Many("globally_required_evidence", <<U8("item")>>)>>
read_policy(limits) ==
  <<U64("generation"), U32("max_active_generations_per_scope"),
    Flag("allow_split_traffic"), Flag("require_rollback_target"),
    Flag("allow_automatic_rollback"), Flag("require_manual_approval_for_promotion"),
    U32("max_blast_radius_percent"), Flag("require_evidence_for_stage_advance"),
    U64("max_evidence_age_ticks"), Flag("require_residency_before_stage_entry"),
    Flag("require_drain_after_stage_commit"), Flag("allow_immediate_cutover"),
    Flag("allow_retirement_without_drain"), U32("rollback_retention_generations"),
    Flag("supersede_inflight_rollout_on_new_promotion"),
    Flag("allow_version_label_reuse_after_retirement")>>
    \o <<AtMost(Many("promotable_scope_kinds", Kind(LastScopeKind)), LastScopeKind + 1),
         AtMost(Many("globally_required_evidence", Kind(LastEvidenceKind)),
                IF limits.max_string < MaxEvidenceKinds THEN limits.max_string
                ELSE MaxEvidenceKinds)>>

----------------------------------------------------------------------------
(* The records of the sections.                                            *)

OverrideWriter ==
  <<U64("scope"), Flag("permits_child_override"), U32("max_active_generations_per_scope"),
    U8("require_rollback_target"), U8("require_evidence_for_stage_advance"),
    U8("require_residency_before_stage_entry")>>
    \o <<Many("additional_required_evidence", <<U8("item")>>),
         Many("additional_promotable_scope_kinds", <<U8("item")>>)>>
OverrideReader ==
  <<U64("scope"), Flag("permits_child_override"), U32("max_active_generations_per_scope"),
    U8("require_rollback_target"), U8("require_evidence_for_stage_advance"),
    U8("require_residency_before_stage_entry")>>
    \o <<AtMost(Many("additional_required_evidence", Kind(LastEvidenceKind)), MaxEvidenceKinds),
         AtMost(Many("additional_promotable_scope_kinds", Kind(LastScopeKind)),
                LastScopeKind + 1)>>

ScopeWriter ==
  <<U64("id"), U64("parent"), U8("kind"), Text("name"), Text("path"), U64("generation"),
    U32("depth")>>
ScopeReader(limits) ==
  <<U64("id"), U64("parent"), Enum("kind", LastScopeKind),
    AtMost(Text("name"), limits.max_string), AtMost(Text("path"), 8 * limits.max_string),
    U64("generation"), U32("depth")>>

ModelWriter ==
  <<U64("id"), Text("name"), Text("family"), U8("provenance"), U64("created_sequence")>>
ModelReader(limits) ==
  <<U64("id")>> \o Texts(<<"name", "family">>, limits.max_string)
    \o <<Enum("provenance", LastProvenance), U64("created_sequence")>>

VersionWriter ==
  Ids(<<"model", "version">>) \o <<Text("label")>>
    \o Ids(<<"generation", "predecessor", "predecessor_generation">>)
    \o write_binding \o write_requirements \o <<U8("state")>>
    \o Ids(<<"lifecycle_generation", "last_promotion", "promotion_generation", "rollout",
             "rollout_generation", "current_stage", "current_stage_generation",
             "compatibility_generation", "last_rollback", "rollback_generation">>)
    \o <<U8("provenance")>> \o Ids(<<"created_sequence", "updated_sequence">>)
VersionReader(limits) ==
  Ids(<<"model", "version">>) \o Texts(<<"label">>, limits.max_string)
    \o Ids(<<"generation", "predecessor", "predecessor_generation">>)
    \o read_binding(limits) \o read_requirements(limits)
    \o <<Enum("state", LastLifecycleState)>>
    \o Ids(<<"lifecycle_generation", "last_promotion", "promotion_generation", "rollout",
             "rollout_generation", "current_stage", "current_stage_generation",
             "compatibility_generation", "last_rollback", "rollback_generation">>)
    \o <<Enum("provenance", LastProvenance)>> \o Ids(<<"created_sequence", "updated_sequence">>)

FactWriter ==
  Ids(<<"model", "version", "model_generation", "artifact_set", "artifact_generation",
        "generation">>)
    \o <<Text("environment_key"), U8("outcome"), Text("detail"), U8("provenance"),
         U64("sequence")>>
FactReader(limits) ==
  Ids(<<"model", "version", "model_generation", "artifact_set", "artifact_generation",
        "generation">>)
    \o <<AtMost(Text("environment_key"), limits.max_string),
         Enum("outcome", LastCompatibilityOutcome), AtMost(Text("detail"), 2 * limits.max_string),
         Enum("provenance", LastProvenance), U64("sequence")>>

CohortWriter ==
  <<U64("id"), Text("name"), Many("scopes", Item), U32("traffic_percent"),
    U32("max_blast_radius_percent")>>
CohortReader(limits) ==
  <<U64("id"), AtMost(Text("name"), limits.max_string),
    AtMost(Many("scopes", Item), limits.max_scopes), AtMost(U32("traffic_percent"), 100),
    AtMost(U32("max_blast_radius_percent"), 100)>>

StageWriter ==
  <<U64("id"), Text("name"), Many("cohorts", Item),
    Many("required_evidence", write_evidence_requirement),
    Many("acceptance", write_criterion), Many("failure", write_criterion),
    Flag("require_residency_before_entry"), Flag("require_drain_after_commit")>>
StageReader(limits) ==
  <<U64("id"), AtMost(Text("name"), limits.max_string),
    AtMost(Many("cohorts", Item), MaxCohorts),
    AtMost(Many("required_evidence", read_evidence_requirement), MaxEvidenceKinds),
    AtMost(Many("acceptance", read_criterion), MaxCriteria),
    AtMost(Many("failure", read_criterion), MaxCriteria),
    Flag("require_residency_before_entry"), Flag("require_drain_after_commit")>>

StageRecordWriter ==
  Ids(<<"stage", "generation", "entered_sequence", "decided_sequence">>)
    \o <<U8("decision"), Many("reasons", <<U16("code"), Text("detail")>>)>>
StageRecordReader(limits) ==
  Ids(<<"stage", "generation", "entered_sequence", "decided_sequence">>)
    \o <<Enum("decision", LastStageDecision),
         AtMost(Many("reasons", <<U16("code"), AtMost(Text("detail"), limits.max_string)>>),
                MaxStageReasons)>>

RolloutWriter ==
  Ids(<<"id", "generation", "model", "candidate", "candidate_generation",
        "candidate_artifact_set", "candidate_artifact_generation", "previous",
        "previous_generation", "compatibility_generation", "policy_generation",
        "evidence_generation", "root_scope", "root_scope_generation">>)
    \o <<U8("strategy")>>
    \o Ids(<<"promotion", "promotion_generation", "rollback_target",
             "rollback_target_generation">>)
    \o <<U32("max_blast_radius_percent"), Flag("manual_progression"),
         Many("cohorts", CohortWriter),
         Many("stages", StageWriter),
         U32("current_stage_index"), U64("current_stage_generation"), Flag("stage_entered"),
         Many("history", StageRecordWriter),
         Flag("completed"), Flag("failed"), Flag("superseded")>>
    \o Ids(<<"last_rollback", "last_rollback_generation", "created_sequence",
             "updated_sequence">>)
    \o <<U8("provenance")>>
RolloutReader(limits) ==
  Ids(<<"id", "generation", "model", "candidate", "candidate_generation",
        "candidate_artifact_set", "candidate_artifact_generation", "previous",
        "previous_generation", "compatibility_generation", "policy_generation",
        "evidence_generation", "root_scope", "root_scope_generation">>)
    \o <<Enum("strategy", LastRolloutStrategy)>>
    \o Ids(<<"promotion", "promotion_generation", "rollback_target",
             "rollback_target_generation">>)
    \o <<U32("max_blast_radius_percent"), Flag("manual_progression"),
         AtMost(Many("cohorts", CohortReader(limits)), MaxCohorts),
         AtMost(Many("stages", StageReader(limits)), MaxStages),
         U32("current_stage_index"), U64("current_stage_generation"), Flag("stage_entered"),
         AtMost(Many("history", StageRecordReader(limits)), MaxHistory),
         Flag("completed"), Flag("failed"), Flag("superseded")>>
    \o Ids(<<"last_rollback", "last_rollback_generation", "created_sequence",
             "updated_sequence">>)
    \o <<Enum("provenance", LastProvenance)>>

AuthorityWriter ==
  <<Many("bindings",
      Ids(<<"scope", "scope_generation", "model", "version", "model_generation",
            "artifact_set", "artifact_generation">>)
        \o <<U8("lifecycle_state"), U8("kind")>>
        \o Ids(<<"rollout", "rollout_generation", "stage", "stage_generation", "promotion",
                 "promotion_generation", "rollback", "rollback_generation", "epoch",
                 "evidence_generation", "granted_sequence">>))>>
AuthorityReader(limits) ==
  <<AtMost(Many("bindings",
      Ids(<<"scope", "scope_generation", "model", "version", "model_generation",
            "artifact_set", "artifact_generation">>)
        \o <<Enum("lifecycle_state", LastLifecycleState), Enum("kind", LastAuthorityKind)>>
        \o Ids(<<"rollout", "rollout_generation", "stage", "stage_generation", "promotion",
                 "promotion_generation", "rollback", "rollback_generation", "epoch",
                 "evidence_generation", "granted_sequence">>)),
     limits.max_authority_bindings)>>

LeaseWriter ==
  Ids(<<"id", "boot", "epoch">>) \o <<Many("scopes", Item), Flag("fenced")>>
    \o Ids(<<"registered_sequence", "fenced_sequence">>) \o <<Text("detail")>>
LeaseReader(limits) ==
  Ids(<<"id", "boot", "epoch">>)
    \o <<AtMost(Many("scopes", Item), limits.max_scopes), Flag("fenced")>>
    \o Ids(<<"registered_sequence", "fenced_sequence">>)
    \o Texts(<<"detail">>, limits.max_string)

EvidenceWriter ==
  Ids(<<"id", "generation">>)
    \o <<U8("kind"), U8("verdict"), Part("subject", write_subject), U8("provenance")>>
    \o Ids(<<"worker", "boot", "epoch", "policy_generation", "value">>)
    \o <<Text("unit"), U64("tick"), Text("detail")>>
EvidenceReader(limits) ==
  Ids(<<"id", "generation">>)
    \o <<Enum("kind", LastEvidenceKind), Enum("verdict", LastVerdict),
         Part("subject", read_subject), Enum("provenance", LastProvenance)>>
    \o Ids(<<"worker", "boot", "epoch", "policy_generation", "value">>)
    \o <<AtMost(Text("unit"), limits.max_string \div 4), U64("tick"),
         AtMost(Text("detail"), 2 * limits.max_string)>>

AttemptWriter ==
  <<U64("id"), U8("kind")>>
    \o Ids(<<"worker", "boot", "epoch", "model", "version", "model_generation",
             "artifact_generation", "scope", "scope_generation", "rollout",
             "rollout_generation", "stage", "stage_generation", "residency_generation">>)
    \o <<U8("state"), Flag("idempotent")>>
    \o Ids(<<"issued_sequence", "settled_sequence">>) \o <<Text("detail")>>

AttemptReader(limits) ==
  <<U64("id"), Enum("kind", LastAttemptKind)>>
    \o Ids(<<"worker", "boot", "epoch", "model", "version", "model_generation",
             "artifact_generation", "scope", "scope_generation", "rollout",
             "rollout_generation", "stage", "stage_generation", "residency_generation">>)
    \o <<Enum("state", LastAttemptState), Flag("idempotent")>>
    \o Ids(<<"issued_sequence", "settled_sequence">>) \o Texts(<<"detail">>, limits.max_string)

CommittedWriter ==
  <<Many("committed_promotions", Item),
    Many("committed_rollbacks", Ids(<<"rollout", "generation">>))>>
CommittedReader(limits) ==
  <<AtMost(Many("committed_promotions", Item), CommittedPerModel * limits.max_models),
    AtMost(Many("committed_rollbacks", Ids(<<"rollout", "generation">>)),
           CommittedPerModel * limits.max_models)>>

\* The last field is kept free: it is written as zero and not looked at.
AllocatorsWriter ==
  Ids(<<"next_model_id", "next_version_id", "next_rollout_id", "next_stage_id",
        "next_cohort_id", "next_promotion_id", "next_rollback_id", "next_attempt_id",
        "next_worker_id", "next_evidence_id", "next_evidence_generation",
        "next_compatibility_generation", "reserved">>)
AllocatorsReader ==
  Ids(<<"next_model_id", "next_version_id", "next_rollout_id", "next_stage_id",
        "next_cohort_id", "next_promotion_id", "next_rollback_id", "next_attempt_id",
        "next_worker_id", "next_evidence_id", "next_evidence_generation",
        "next_compatibility_generation", "reserved">>)

HeaderWriter == <<U16("format_version")>> \o Ids(<<"generation", "epoch", "sequence">>)
HeaderReader == <<U16("format_version")>> \o Ids(<<"generation", "epoch", "sequence">>)
============================================================================
