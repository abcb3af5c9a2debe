---------------------------- MODULE WireMessages ----------------------------
(***************************************************************************)
(* The messages of the wire protocol: for each structure the layout its    *)
(* encode() writes and, separately, the layout its decode() reads          *)
(* (protocol.cpp).  The two are kept apart because the code keeps them     *)
(* apart: only the reader knows limits, and nothing but the order of two   *)
(* lists of statements makes one the inverse of the other.                 *)
(***************************************************************************)
EXTENDS WireCodec

CONSTANTS
  MaxConnections,  \* limits.max_connections
  MaxString,       \* limits.max_string
  MaxDigest,       \* limits.max_digest
  MaxReasons,      \* limits.max_reasons
  MaxValues,       \* limits.max_values
  MaxItems,        \* the bound on precisions, requirements and criteria
  MaxUnit          \* the bound on the unit of a reading

ASSUME LimitsAssumption ==
  /\ {MaxConnections, MaxString, MaxDigest, MaxReasons, MaxValues} \subseteq Nat \ {0}
  /\ {MaxItems, MaxUnit} \subseteq Nat \ {0}

\* Enumerations: the last value a reader admits.
LastProvenance == 3
LastVerdict == 2
LastComparison == 1
LastEvidenceKind == 21
LastAttemptKind == 7
LastCompatibilityOutcome == 14
LastRolloutStrategy == 5
LastOutcome == 25

Detail     == AtMost(Text("detail"), MaxString)
Provenance == AtMost(U8("provenance"), LastProvenance)
Item       == <<U64("item")>>

----------------------------------------------------------------------------
(* Parts shared by several messages.                                       *)

put_binding == Ids(<<"set_id", "binding_generation">>) \o <<Text("digest")>>
get_binding == Ids(<<"set_id", "binding_generation">>) \o <<AtMost(Text("digest"), MaxDigest)>>

put_requirements ==
  Texts(<<"runtime", "runtime_min_version", "backend", "architecture", "precision",
          "tokenizer_generation", "adapter_set">>, Huge)
get_requirements ==
  Texts(<<"runtime", "runtime_min_version", "backend", "architecture", "precision",
          "tokenizer_generation", "adapter_set">>, MaxString)

put_environment ==
  Texts(<<"key", "runtime", "runtime_version", "backend", "backend_version",
          "architecture">>, Huge)
    \o <<SetOf("precisions", <<Text("item")>>), Text("tokenizer_generation"),
         Text("adapter_set"), U32("compute_capability"), U8("provenance")>>
get_environment ==
  Texts(<<"key", "runtime", "runtime_version", "backend", "backend_version",
          "architecture">>, MaxString)
    \o <<AtMost(SetOf("precisions", <<AtMost(Text("item"), MaxString)>>), MaxItems),
         AtMost(Text("tokenizer_generation"), MaxString),
         AtMost(Text("adapter_set"), MaxString), U32("compute_capability"), Provenance>>

put_evidence_requirement ==
  <<U8("kind"), U8("required_verdict"), Flag("require_exact_subject"),
    Flag("require_current_publisher")>>
get_evidence_requirement ==
  <<AtMost(U8("kind"), LastEvidenceKind), AtMost(U8("required_verdict"), LastVerdict),
    Flag("require_exact_subject"), Flag("require_current_publisher")>>

put_criterion == <<U8("kind"), U8("comparison"), U64("threshold")>>
get_criterion ==
  <<AtMost(U8("kind"), LastEvidenceKind), AtMost(U8("comparison"), LastComparison),
    U64("threshold")>>

put_promotion ==
  Ids(<<"model", "candidate", "candidate_generation", "artifact_generation",
        "compatibility_generation", "policy_generation", "epoch", "scope",
        "scope_generation">>)
    \o <<U8("strategy")>>
    \o Ids(<<"rollback_target", "rollback_target_generation", "evidence_generation",
             "worker", "boot">>)
    \o <<Flag("administrative_approval"), Flag("request_immediate_cutover"),
         Text("environment_key"), Maybe("environment", put_environment)>>
get_promotion ==
  Ids(<<"model", "candidate", "candidate_generation", "artifact_generation",
        "compatibility_generation", "policy_generation", "epoch", "scope",
        "scope_generation">>)
    \o <<AtMost(U8("strategy"), LastRolloutStrategy)>>
    \o Ids(<<"rollback_target", "rollback_target_generation", "evidence_generation",
             "worker", "boot">>)
    \o <<Flag("administrative_approval"), Flag("request_immediate_cutover"),
         AtMost(Text("environment_key"), MaxString), Maybe("environment", get_environment)>>

put_progress ==
  Ids(<<"rollout", "rollout_generation", "stage", "stage_generation",
        "scope_generation", "epoch", "worker", "boot">>)
    \o <<Flag("administrative_approval"), Text("detail")>>
get_progress ==
  Ids(<<"rollout", "rollout_generation", "stage", "stage_generation",
        "scope_generation", "epoch", "worker", "boot">>)
    \o <<Flag("administrative_approval"), Detail>>

----------------------------------------------------------------------------
(* One writer and one reader per message.                                  *)

HelloWriter ==
  <<U16("protocol_version")>> \o Ids(<<"worker", "boot", "epoch">>)
    \o <<Many("scopes", Item), Text("detail")>>
HelloReader ==
  <<U16("protocol_version")>> \o Ids(<<"worker", "boot", "epoch">>)
    \o <<AtMost(Many("scopes", Item), MaxConnections * 4), Detail>>

HelloAckWriter ==
  <<U16("protocol_version")>> \o Ids(<<"epoch", "worker", "boot">>)
    \o <<Flag("accepted"), Many("scopes", Item), Text("detail")>>
HelloAckReader ==
  <<U16("protocol_version")>> \o Ids(<<"epoch", "worker", "boot">>)
    \o <<Flag("accepted"), AtMost(Many("scopes", Item), MaxConnections * 4), Detail>>

RegisterModelWriter == <<Text("name"), Text("family"), U8("provenance")>>
RegisterModelReader == Texts(<<"name", "family">>, MaxString) \o <<Provenance>>

RegisterVersionWriter ==
  <<U64("model"), Text("label")>> \o put_binding \o put_requirements
    \o <<U64("predecessor"), U8("provenance")>>
RegisterVersionReader ==
  <<U64("model"), AtMost(Text("label"), MaxString)>> \o get_binding \o get_requirements
    \o <<U64("predecessor"), Provenance>>

\* The environment carries a provenance of its own: it is a part of the message.
PublishCompatibilityWriter ==
  <<U64("version"), Part("environment", put_environment), U8("outcome"),
    Text("detail"), U8("provenance")>>
PublishCompatibilityReader ==
  <<U64("version"), Part("environment", get_environment),
    AtMost(U8("outcome"), LastCompatibilityOutcome), Detail, Provenance>>

PublishEvidenceWriter ==
  Ids(<<"version", "model_generation", "artifact_generation", "scope", "rollout", "stage">>)
    \o <<U8("kind"), U8("verdict"), U64("value"), Text("unit"), U64("tick"),
         Text("detail"), U8("provenance")>>
PublishEvidenceReader ==
  Ids(<<"version", "model_generation", "artifact_generation", "scope", "rollout", "stage">>)
    \o <<AtMost(U8("kind"), LastEvidenceKind), AtMost(U8("verdict"), LastVerdict),
         U64("value"), AtMost(Text("unit"), MaxUnit), U64("tick"), Detail, Provenance>>

AttemptRequestWriter ==
  <<U8("kind")>>
    \o Ids(<<"worker", "boot", "model", "version", "model_generation", "scope", "rollout",
             "rollout_generation", "stage", "stage_generation">>)
    \o <<Flag("idempotent"), Text("detail")>>
AttemptRequestReader ==
  <<AtMost(U8("kind"), LastAttemptKind)>>
    \o Ids(<<"worker", "boot", "model", "version", "model_generation", "scope", "rollout",
             "rollout_generation", "stage", "stage_generation">>)
    \o <<Flag("idempotent"), Detail>>

CompletionWriter == <<U64("attempt"), Flag("success"), Flag("confirmed"), Text("detail")>>
\* Mutant: the two flags are read in the other order.
CompletionFlagsSwapped == <<U64("attempt"), Flag("confirmed"), Flag("success"), Detail>>
CompletionReader == <<U64("attempt"), Flag("success"), Flag("confirmed"), Detail>>

FenceWriter == <<U64("worker"), U64("boot"), Text("reason")>>
FenceReader == <<U64("worker"), U64("boot"), AtMost(Text("reason"), MaxString)>>

CommandWriter ==
  <<U8("kind")>>
    \o Ids(<<"attempt", "model", "version", "model_generation", "artifact_generation",
             "scope", "rollout", "rollout_generation">>)
    \o <<Text("detail")>>
CommandReader ==
  <<AtMost(U8("kind"), LastAttemptKind)>>
    \o Ids(<<"attempt", "model", "version", "model_generation", "artifact_generation",
             "scope", "rollout", "rollout_generation">>)
    \o <<Detail>>

QueryStateWriter == Ids(<<"model", "version", "scope">>)
QueryStateReader == Ids(<<"model", "version", "scope">>)
QueryAuthorityWriter == <<U64("scope")>>
QueryAuthorityReader == <<U64("scope")>>

RolloutPlanWriter ==
  Ids(<<"model", "candidate", "candidate_generation", "artifact_generation",
        "compatibility_generation", "policy_generation", "root_scope",
        "root_scope_generation">>)
    \o <<U8("strategy")>>
    \o Ids(<<"previous", "previous_generation", "rollback_target",
             "rollback_target_generation">>)
    \o <<U32("max_blast_radius_percent"), Flag("manual_progression")>>
    \o Ids(<<"epoch", "worker", "boot", "promotion", "promotion_generation">>)
    \o <<Many("cohorts", <<Text("name"), Many("scopes", Item), U32("traffic_percent"),
                           U32("max_blast_radius_percent")>>),
         Many("stages", <<Text("name"), Many("cohort_indices", <<U32("item")>>),
                          Many("required_evidence", put_evidence_requirement),
                          Many("acceptance", put_criterion),
                          Many("failure", put_criterion),
                          Flag("require_residency_before_entry"),
                          Flag("require_drain_after_commit")>>)>>
RolloutPlanReader ==
  Ids(<<"model", "candidate", "candidate_generation", "artifact_generation",
        "compatibility_generation", "policy_generation", "root_scope",
        "root_scope_generation">>)
    \o <<AtMost(U8("strategy"), LastRolloutStrategy)>>
    \o Ids(<<"previous", "previous_generation", "rollback_target",
             "rollback_target_generation">>)
    \o <<U32("max_blast_radius_percent"), Flag("manual_progression")>>
    \o Ids(<<"epoch", "worker", "boot", "promotion", "promotion_generation">>)
    \o <<AtMost(Many("cohorts",
           <<AtMost(Text("name"), MaxString), AtMost(Many("scopes", Item), MaxValues * 16),
             AtMost(U32("traffic_percent"), 100),
             AtMost(U32("max_blast_radius_percent"), 100)>>), MaxValues * 8),
         AtMost(Many("stages",
           <<AtMost(Text("name"), MaxString),
             AtMost(Many("cohort_indices", <<U32("item")>>), MaxValues * 8),
             AtMost(Many("required_evidence", get_evidence_requirement), MaxItems),
             AtMost(Many("acceptance", get_criterion), MaxItems),
             AtMost(Many("failure", get_criterion), MaxItems),
             Flag("require_residency_before_entry"),
             Flag("require_drain_after_commit")>>), MaxValues)>>

RetireWriter == Ids(<<"model", "version", "generation", "policy_generation", "epoch">>)
RetireReader == Ids(<<"model", "version", "generation", "policy_generation", "epoch">>)

RevalidateWriter ==
  Ids(<<"model", "version", "generation">>) \o <<U16("cause"), Text("detail")>>
RevalidateReader == Ids(<<"model", "version", "generation">>) \o <<U16("cause"), Detail>>

RollbackWriter ==
  Ids(<<"model", "candidate", "candidate_generation", "rollout", "rollout_generation",
        "target", "target_generation", "target_artifact_generation", "scope",
        "scope_generation", "policy_generation", "epoch", "worker", "boot">>)
    \o <<Flag("automatic"), Text("detail")>>
RollbackReader ==
  Ids(<<"model", "candidate", "candidate_generation", "rollout", "rollout_generation",
        "target", "target_generation", "target_artifact_generation", "scope",
        "scope_generation", "policy_generation", "epoch", "worker", "boot">>)
    \o <<Flag("automatic"), Detail>>

SupersedeWriter == <<U64("rollout"), U64("generation"), Text("detail")>>
SupersedeReader == <<U64("rollout"), U64("generation"), Detail>>
ReconcileWriter == <<U32("flags")>>
ReconcileReader == <<U32("flags")>>
RegisterScopeWriter == <<Text("path")>>
RegisterScopeReader == <<AtMost(Text("path"), MaxString * 8)>>

ReplyWriter ==
  <<U16("outcome"), Many("reasons", <<U16("code"), Text("detail")>>),
    Many("values", <<Text("key"), Text("value")>>)>>
ReplyReader ==
  <<AtMost(U16("outcome"), LastOutcome),
    AtMost(Many("reasons", <<U16("code"), Detail>>), MaxReasons),
    AtMost(Many("values", Texts(<<"key", "value">>, MaxString)), MaxValues)>>

----------------------------------------------------------------------------
(* The wire type a structure travels under.  A structure that travels      *)
(* under several (a health and a readiness publication, the four requests, *)
(* the three steps of a rollout) is listed once.                           *)

Codec(type, writer, reader) == [type |-> type, writer |-> writer, reader |-> reader]

Messages ==
  [Hello                |-> Codec(1, HelloWriter, HelloReader),
   HelloAck             |-> Codec(2, HelloAckWriter, HelloAckReader),
   RegisterModel        |-> Codec(4, RegisterModelWriter, RegisterModelReader),
   RegisterVersion      |-> Codec(5, RegisterVersionWriter, RegisterVersionReader),
   PublishCompatibility |-> Codec(6, PublishCompatibilityWriter, PublishCompatibilityReader),
   PublishEvidence      |-> Codec(7, PublishEvidenceWriter, PublishEvidenceReader),
   AttemptRequest       |-> Codec(9, AttemptRequestWriter, AttemptRequestReader),
   Completion           |-> Codec(14, CompletionWriter, CompletionReader),
   QueryState           |-> Codec(15, QueryStateWriter, QueryStateReader),
   QueryAuthority       |-> Codec(16, QueryAuthorityWriter, QueryAuthorityReader),
   Fence                |-> Codec(17, FenceWriter, FenceReader),
   Promotion            |-> Codec(18, put_promotion, get_promotion),
   RolloutPlan          |-> Codec(19, RolloutPlanWriter, RolloutPlanReader),
   Progress             |-> Codec(20, put_progress, get_progress),
   Retire               |-> Codec(23, RetireWriter, RetireReader),
   Revalidate           |-> Codec(24, RevalidateWriter, RevalidateReader),
   Rollback             |-> Codec(25, RollbackWriter, RollbackReader),
   Reconcile            |-> Codec(26, ReconcileWriter, ReconcileReader),
   Supersede            |-> Codec(27, SupersedeWriter, SupersedeReader),
   Reply                |-> Codec(28, ReplyWriter, ReplyReader),
   Command              |-> Codec(29, CommandWriter, CommandReader),
   RegisterScope        |-> Codec(30, RegisterScopeWriter, RegisterScopeReader)]

\* Mutant: a reply may not use the last place for a reason.
EncodedBelowLimit(structure, message) ==
  LET bytes == Written(Messages[structure].writer, message)
  IN IF \/ structure = "Reply" /\ Len(message.reasons) >= MaxReasons
        \/ Len(bytes) > MaxPayload
     THEN Refused ELSE Got(bytes, <<>>)

\* encode(): what was written, unless it is longer than a payload may be.
\* Only a Reply is refused for what it holds.
Encoded(structure, message) ==
  LET bytes == Written(Messages[structure].writer, message)
      full  == structure = "Reply" /\ \/ Len(message.reasons) > MaxReasons
                                      \/ Len(message.values) > MaxValues
  IN IF full \/ Len(bytes) > MaxPayload THEN Refused ELSE Got(bytes, <<>>)

\* decode().
Interpreted(structure, bytes) == Decoded(Messages[structure].reader, bytes)
============================================================================
