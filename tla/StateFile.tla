----------------------------- MODULE StateFile -----------------------------
(***************************************************************************)
(* The durable state on its way to disk and back (state_store.cpp): what   *)
(* serialize_durable_state and deserialize_durable_state make of a state,  *)
(* and a coordinator that saves every change, may lose its file to damage  *)
(* and may be restarted, also with other bounds.                           *)
(*                                                                         *)
(* What the engine puts into the state is an input: Additions holds, per   *)
(* part of the state, the records it may be asked to add.  A record is     *)
(* added when it passes the checks the engine makes of its size            *)
(* (Accepted), and once those it refers to are there, since the engine     *)
(* refuses unknown models, versions, scopes and rollouts (LifecycleEngine  *)
(* and EvidenceService have those operations).  Enumerations are in their  *)
(* range, as their types are.  A plan's history, the committed identities  *)
(* and the bindings of a scope that has one grow without any check.        *)
(*                                                                         *)
(* Maps are sequences in the order of their keys, since the engine hands   *)
(* out identities in that order.  The refusals of the reader are not told  *)
(* apart: each of them keeps the state from being used.                    *)
(***************************************************************************)
EXTENDS StateSections

CONSTANTS
  BoundChoices,    \* the RegistryBounds a coordinator may be started with
  InitialStates,   \* the states it may run with when the model begins
  FreshState,      \* the state of a new engine
  Additions,       \* per part of the state, in order, the sets of records asked for
  Policies,        \* the base policies asked for
  StageRecords,    \* the records a stage decision may leave in a plan's history
  MaxScopeName,    \* kMaxScopeNameLength
  MaxScopePath,    \* kMaxScopePathLength
  MaxEnvironmentKey,  \* the longest key EnvironmentProfile::valid admits
  MaxRecordDetail, \* kMaxRecordDetail
  MaxReasonDetail, \* kMaxReasonDetail
  MaxUnit,         \* the bound publish_evidence clamps a unit to
  MaxGrowth,       \* bound on the number of steps that add to the state
  DamageAt,        \* the offsets at which a byte of the file may change
  DamageBy,        \* the numbers of bytes it may lose or gain
  RefuseStart      \* config.refuse_start_on_corrupt_state

ASSUME StateFileAssumption ==
  /\ InitialStates # {} /\ MaxGrowth \in Nat
  /\ {MaxScopeName, MaxScopePath, MaxEnvironmentKey, MaxRecordDetail, MaxReasonDetail, MaxUnit}
       \subseteq Nat
  /\ DamageAt \cup DamageBy \subseteq Nat \ {0} /\ RefuseStart \in BOOLEAN

----------------------------------------------------------------------------
(* Serialization.  A section is its tag, a count, some fields and, in the  *)
(* sections that hold a list, the records counted.                         *)

Single(count, fields) ==
  [count |-> count, fields |-> fields, list |-> "none", items |-> <<>>, limit |-> Huge]
Listed(fields, list, items, limit) ==
  [count |-> 0, fields |-> fields, list |-> list, items |-> items, limit |-> limit]

SectionWriters ==
  <<Single(1, HeaderWriter),
    Listed(<<U64("root_scope"), Many("policy_overrides", OverrideWriter)>>, "scopes",
           ScopeWriter, Huge),
    Single(1, <<Part("base_policy", write_policy)>>),
    Listed(<<>>, "models", ModelWriter, Huge),
    Listed(<<>>, "versions", VersionWriter, Huge),
    Listed(<<>>, "compatibility", FactWriter, Huge),
    Listed(<<>>, "rollouts", RolloutWriter, Huge),
    Listed(<<>>, "authority", AuthorityWriter, Huge),
    Listed(<<>>, "worker_leases", LeaseWriter, Huge),
    Listed(<<>>, "evidence", EvidenceWriter, Huge),
    Listed(<<>>, "unsettled_attempts", AttemptWriter, Huge),
    Single(2, CommittedWriter),
    Single(13, AllocatorsWriter)>>

SectionReaders(limits) ==
  <<Single(1, HeaderReader),
    Listed(<<U64("root_scope"),
             AtMost(Many("policy_overrides", OverrideReader), limits.max_scopes)>>, "scopes",
           ScopeReader(limits), limits.max_scopes),
    Single(1, <<Part("base_policy", read_policy(limits))>>),
    Listed(<<>>, "models", ModelReader(limits), limits.max_models),
    Listed(<<>>, "versions", VersionReader(limits), limits.max_versions),
    Listed(<<>>, "compatibility", FactReader(limits), MaxFacts),
    Listed(<<>>, "rollouts", RolloutReader(limits), limits.max_rollouts),
    Listed(<<>>, "authority", AuthorityReader(limits), Huge),
    Listed(<<>>, "worker_leases", LeaseReader(limits), limits.max_workers),
    Listed(<<>>, "evidence", EvidenceReader(limits), limits.max_evidence),
    Listed(<<>>, "unsettled_attempts", AttemptReader(limits), limits.max_attempts),
    Single(2, CommittedReader(limits)),
    Single(13, AllocatorsReader)>>

ByteWriter(section, state) ==
  LET records == IF section.list = "none" THEN <<>> ELSE state[section.list]
      count   == IF section.list = "none" THEN section.count ELSE Len(records)
  IN LittleEndian(count, 4) \o Written(section.fields, state)
       \o WrittenItems(section.items, records)

Payload(state) ==
  FlattenSeq([tag \in DOMAIN SectionWriters |->
                LittleEndian(tag, 2) \o ByteWriter(SectionWriters[tag], state)])

BindingCount(state) ==
  FoldSeq(LAMBDA entry, n : n + Len(entry.bindings), 0, state.authority)

\* The bounds the writer checks.
Serializable(limits, state) ==
  /\ Len(state.scopes) <= limits.max_scopes
  /\ Len(state.models) <= limits.max_models
  /\ Len(state.versions) <= limits.max_versions
  /\ Len(state.compatibility) <= MaxFacts
  /\ Len(state.rollouts) <= limits.max_rollouts
  /\ BindingCount(state) <= limits.max_authority_bindings
  /\ Len(state.worker_leases) <= limits.max_workers
  /\ Len(state.evidence) <= limits.max_evidence
  /\ Len(state.unsettled_attempts) <= limits.max_attempts
  /\ Len(Payload(state)) <= MaxPayload

kMagic == <<77, 76, 70, 83>>
kHeaderSize == 12
kTrailerSize == 4
kStateFormatVersion == 1

\* serialize_durable_state, of a serializable state.
Serialized(state) ==
  With(With(Payload(state),
            LAMBDA payload : kMagic \o LittleEndian(state.format_version, 2)
                               \o LittleEndian(0, 2) \o LittleEndian(Len(payload), 4) \o payload),
       LAMBDA body : body \o LittleEndian(crc32(body), kTrailerSize))

----------------------------------------------------------------------------
(* Deserialization.                                                        *)

\* A state before any section was read.
NoState ==
  [format_version |-> kStateFormatVersion, generation |-> 0, epoch |-> 0, sequence |-> 1,
   root_scope |-> 0, policy_overrides |-> <<>>, scopes |-> <<>>, base_policy |-> <<>>,
   models |-> <<>>, versions |-> <<>>, compatibility |-> <<>>, rollouts |-> <<>>,
   authority |-> <<>>, worker_leases |-> <<>>, evidence |-> <<>>,
   unsettled_attempts |-> <<>>, committed_promotions |-> <<>>, committed_rollbacks |-> <<>>,
   reserved |-> 0]
    @@ [name \in {field.name : field \in ToSet(AllocatorsReader)} |-> 1]

\* The fields that identify a record of a list, and those that may not be zero.
Key == [models |-> <<"id">>, versions |-> <<"model", "version">>,
        compatibility |-> <<"version", "environment_key">>, rollouts |-> <<"id">>,
        worker_leases |-> <<"id">>, unsettled_attempts |-> <<"id">>]
Required == [models |-> {"id"},
             versions |-> {"model", "version", "generation", "lifecycle_generation"},
             compatibility |-> {"version", "generation"},
             rollouts |-> {"id", "generation", "candidate"},
             worker_leases |-> {"id", "boot"}, unsettled_attempts |-> {"id"},
             evidence |-> {"generation"}]
RequiredAllocators ==
  {"next_model_id", "next_version_id", "next_rollout_id", "next_promotion_id",
   "next_rollback_id", "next_attempt_id", "next_worker_id", "next_evidence_id",
   "next_compatibility_generation"}

Distinct(records, key) ==
  \A i, j \in DOMAIN records :
    (\A k \in DOMAIN key : records[i][key[k]] = records[j][key[k]]) => i = j

\* What the reader checks of the records themselves.
WellFormed(state) ==
  /\ \A list \in DOMAIN Key : Distinct(state[list], Key[list])
  /\ \A list \in DOMAIN Required : \A i \in DOMAIN state[list] :
       \A name \in Required[list] : state[list][i][name] # 0
  /\ \A i \in DOMAIN state.compatibility : state.compatibility[i].environment_key # <<>>
  /\ \A i \in DOMAIN state.evidence : state.evidence[i].subject.version # 0
  /\ \A i \in DOMAIN state.authority : \A b \in ToSet(state.authority[i].bindings) :
       0 \notin {b.scope, b.model, b.version}
  /\ \A i, j \in DOMAIN state.authority :
       state.authority[i].bindings[1].scope = state.authority[j].bindings[1].scope => i = j
  /\ Distinct(state.committed_promotions, <<"item">>)
  /\ Distinct(state.committed_rollbacks, <<"rollout", "generation">>)
  /\ \A name \in RequiredAllocators : state[name] # 0

\* The kinds of evidence that may be in a file: artifact to adapter compatibility, test
\* result, approvals and signature.
DurableKinds == 0..5 \cup 18..21
Retired == 16

IsLive(plan) == ~plan.completed /\ ~plan.failed /\ ~plan.superseded

\* Cross-section consistency: the references between the records.
Consistent(state) ==
  LET scopes == 1..Len(state.scopes)
      Recorded(model, version) ==
        {v \in ToSet(state.versions) : v.model = model /\ v.version = version}
  IN /\ scopes # {}
     /\ \A i \in scopes : state.scopes[i].id = i
     /\ \A v \in ToSet(state.versions) :
          /\ \E m \in ToSet(state.models) : m.id = v.model
          /\ v.predecessor # 0 =>
               /\ v.predecessor # v.version
               /\ \E p \in Recorded(v.model, v.predecessor) : p.predecessor # v.version
     /\ \A f \in ToSet(state.compatibility) : Recorded(f.model, f.version) # {}
     /\ \A plan \in ToSet(state.rollouts) :
          /\ Recorded(plan.model, plan.candidate) # {}
          /\ plan.stages # <<>>
          /\ ~IsLive(plan) /\ plan.current_stage_generation # 0 => plan.history # <<>>
          /\ \A c \in ToSet(plan.cohorts) : \A s \in ToSet(c.scopes) : s.item \in scopes
          /\ \A stage \in ToSet(plan.stages) : \A c \in ToSet(stage.cohorts) :
               \E cohort \in ToSet(plan.cohorts) : cohort.id = c.item
          /\ IsLive(plan) => plan.current_stage_index < Len(plan.stages)
     /\ \A entry \in ToSet(state.authority) : \A b \in ToSet(entry.bindings) :
          /\ b.scope \in scopes
          /\ b.rollout # 0 =>
               \E plan \in ToSet(state.rollouts) :
                 plan.id = b.rollout /\ plan.generation = b.rollout_generation
          /\ \E v \in Recorded(b.model, b.version) :
               v.state # Retired /\ b.model_generation <= v.generation
     /\ \A o \in ToSet(state.policy_overrides) : o.scope \in scopes
     /\ \A e \in ToSet(state.evidence) :
          Recorded(e.subject.model, e.subject.version) # {} /\ e.kind \in DurableKinds

kSectionCount == 13

RECURSIVE ReadSections(_, _, _, _)

\* One section after the other, in whatever order they come: records are added to the
\* list, fields replace their defaults.  An authority entry without bindings is skipped.
ReadSections(readers, bytes, state, seen) ==
  IF bytes = <<>> THEN Got(state, <<>>)
  ELSE LET tag == Number(Take(bytes, 2))
           count == Number(SubSeq(bytes, 3, 6))
           section == readers[tag]
           list == section.list
           Kept(records) == IF list = "authority"
                            THEN SelectSeq(records, LAMBDA entry : entry.bindings # <<>>)
                            ELSE records
           Continue(fields) ==
             IF ~fields.ok THEN Refused
             ELSE IF list = "none" THEN ReadSections(readers, fields.rest, fields.value, seen + 1)
             ELSE With(ReadItems(section.items, count, fields.rest, <<>>),
                       LAMBDA items :
                         IF ~items.ok THEN Refused
                         ELSE ReadSections(readers, items.rest,
                                [fields.value EXCEPT ![list] = @ \o Kept(items.value)], seen + 1))
       IN IF \/ Len(bytes) < 6 \/ seen >= kSectionCount + 4 \/ tag \notin 1..kSectionCount
             \/ IF list = "none" THEN count # section.count ELSE count > section.limit
          THEN Refused
          ELSE With(Read(section.fields, Drop(bytes, 6), state), Continue)

\* The state a payload holds, if every check on it succeeds.
Validated(limits, payload) ==
  With(With(SectionReaders(limits), LAMBDA readers : ReadSections(readers, payload, NoState, 0)),
       LAMBDA read : IF read.ok /\ WellFormed(read.value) /\ Consistent(read.value)
                     THEN read ELSE Refused)

\* Mutant: the payload is read without comparing the checksum.
DeserializedUnchecked(limits, data) ==
  LET length == Number(SubSeq(data, 9, 12))
  IN IF Len(data) < kHeaderSize + kTrailerSize \/ Take(data, 4) # kMagic
          \/ length > MaxPayload \/ Len(data) < kHeaderSize + length + kTrailerSize
     THEN Refused
     ELSE Validated(limits, SubSeq(data, kHeaderSize + 1, kHeaderSize + length))

\* deserialize_durable_state.  Bytes behind the trailer are not looked at.
Deserialized(limits, data) ==
  LET length == Number(SubSeq(data, 9, 12))
      framed == kHeaderSize + length
  IN IF \/ Len(data) < kHeaderSize + kTrailerSize
        \/ Take(data, 4) # kMagic
        \/ Number(SubSeq(data, 5, 6)) # kStateFormatVersion
        \/ length > MaxPayload
        \/ Len(data) < framed + kTrailerSize
        \/ SubSeq(data, framed + 1, framed + kTrailerSize)
             # LittleEndian(crc32(Take(data, framed)), kTrailerSize)
     THEN Refused
     ELSE Validated(limits, SubSeq(data, kHeaderSize + 1, framed))

\* load_durable_state, of a file that exists.
Loaded(limits, file) ==
  IF Len(file) \in 1..(MaxPayload + kHeaderSize + kTrailerSize)
  THEN Deserialized(limits, file) ELSE Refused

----------------------------------------------------------------------------
(* The coordinator and its file.  The file is kept as the state it was     *)
(* written from and what happened to it since.                             *)

VARIABLES
  state,    \* what export_durable_state returns
  saved,    \* the state last saved; NoState while there is no file
  damage,   \* what happened to the file since
  bounds,   \* the bounds of the running coordinator
  up,       \* the coordinator runs
  growth    \* steps that added to the state

vars == <<state, saved, damage, bounds, up, growth>>

Undamaged == [op |-> "none", at |-> 0]
Damages == {Undamaged} \cup [op : {"changed"}, at : DamageAt]
                       \cup [op : {"cut", "extended"}, at : DamageBy]

File ==
  With(Serialized(saved),
       LAMBDA bytes :
         CASE damage.op = "changed" /\ damage.at <= Len(bytes) ->
                [bytes EXCEPT ![damage.at] = (@ + 1) % 256]
           [] damage.op = "cut" -> SubSeq(bytes, 1, Len(bytes) - damage.at)
           [] damage.op = "extended" -> bytes \o Take(bytes, damage.at)
           [] OTHER -> bytes)

Limits == from_bounds(bounds)

Init ==
  /\ state \in InitialStates
  /\ saved = state /\ damage = Undamaged /\ up = TRUE /\ growth = 0
  /\ bounds \in BoundChoices /\ Serializable(from_bounds(bounds), state)

\* persist: a state that cannot be serialized leaves the file as it was.
Save(next) ==
  IF Serializable(Limits, next)
  THEN saved' = next /\ damage' = Undamaged
  ELSE UNCHANGED <<saved, damage>>

\* A request changes the state, and the state is saved before the answer.
Change(next) ==
  /\ up /\ growth < MaxGrowth
  /\ Consistent(next)
  /\ state' = next /\ growth' = growth + 1
  /\ Save(next)
  /\ UNCHANGED <<bounds, up>>

\* The records of a part the engine holds at most; the other parts are not bounded.
Capacity ==
  [scopes |-> bounds.max_scopes, models |-> bounds.max_models,
   versions |-> bounds.max_models * bounds.max_versions_per_model,
   compatibility |-> MaxFacts, rollouts |-> bounds.max_rollouts,
   worker_leases |-> bounds.max_workers, evidence |-> bounds.max_evidence,
   unsettled_attempts |-> bounds.max_attempts,
   policy_overrides |-> bounds.max_scopes]

\* What the engine checks of the size of a record, or clamps it to; whatever is not
\* mentioned it takes as it comes.
Accepted(part, record) ==
  LET Name(text) == Len(text) \in 1..bounds.max_name_length
  IN CASE part = "scopes" ->
            Len(record.name) \in 1..MaxScopeName /\ Len(record.path) <= MaxScopePath
       [] part = "models" ->
            Name(record.name) /\ (record.family # <<>> => Name(record.family))
       [] part = "versions" ->
            Name(record.label) /\ Len(record.digest) \in 1..bounds.max_digest_length
       [] part = "compatibility" ->
            /\ Len(record.environment_key) \in 1..MaxEnvironmentKey
            /\ Len(record.detail) <= MaxRecordDetail
       [] part = "rollouts" ->
            /\ Len(record.stages) \in 1..bounds.max_stages_per_rollout
            /\ Len(record.cohorts) \in 1..bounds.max_cohorts_per_rollout
            /\ \A stage \in ToSet(record.stages) : Name(stage.name)
            /\ \A cohort \in ToSet(record.cohorts) :
                 Name(cohort.name) /\ cohort.traffic_percent <= 100
       [] part = "evidence" ->
            Len(record.unit) <= MaxUnit /\ Len(record.detail) <= MaxRecordDetail
       [] part \in {"worker_leases", "unsettled_attempts"} ->
            Len(record.detail) <= MaxReasonDetail
       [] OTHER -> TRUE

\* An operation adds the next record to one part of the state.  (A scope or a piece of
\* evidence is only in the file once a later request saves: EvidenceService.)
Add(part) ==
  LET n == Len(state[part])
  IN /\ n < Len(Additions[part])
     /\ part \in DOMAIN Capacity => n < Capacity[part]
     /\ part = "authority" => BindingCount(state) < bounds.max_authority_bindings
     /\ \E record \in Additions[part][n + 1] :
          /\ Accepted(part, record)
          /\ Change([state EXCEPT ![part] = Append(@, record)])

\* set_policy looks at two of the numbers and at each kind in the lists, not at how many.
SetPolicy(policy) ==
  /\ policy.generation > state.base_policy.generation
  /\ policy.max_active_generations_per_scope \in 1..64
  /\ policy.max_blast_radius_percent \in 1..100
  /\ Change([state EXCEPT !.base_policy = policy])

\* A scope that has a binding gets another one: grant does not check the bound there.
Coexist(i) ==
  Change([state EXCEPT !.authority[i].bindings = Append(@, [@[1] EXCEPT !.kind = 1])])

\* A stage of a plan is entered, decided or failed again; a Decision clamps the text of
\* its reasons and not their number.
Decide(i, record) ==
  /\ \A reason \in ToSet(record.reasons) : Len(reason.detail) <= MaxReasonDetail
  /\ Change([state EXCEPT !.rollouts[i].history = Append(@, record)])

\* The disk changes, loses or adds bytes.
Damage ==
  /\ saved # NoState /\ damage = Undamaged
  /\ damage' \in Damages \ {Undamaged}
  /\ UNCHANGED <<state, saved, bounds, up, growth>>

\* The coordinator is started again, possibly with other bounds.
Restart(other) ==
  \E file \in {File} : \E loaded \in {Loaded(from_bounds(other), file)} :
    /\ bounds' = other
    /\ up' = (loaded.ok \/ ~RefuseStart)
    /\ state' = IF loaded.ok THEN loaded.value ELSE FreshState
    /\ UNCHANGED <<saved, damage, growth>>

Next ==
  \/ \E part \in DOMAIN Additions : Add(part)
  \/ \E policy \in Policies : SetPolicy(policy)
  \/ \E i \in DOMAIN state.authority : Coexist(i)
  \/ \E i \in DOMAIN state.rollouts, record \in StageRecords : Decide(i, record)
  \/ Damage
  \/ \E other \in BoundChoices : Restart(other)

Spec == Init /\ [][Next]_vars

----------------------------------------------------------------------------
(* Properties.                                                             *)

Longest(limit, texts) == \A text \in texts : Len(text) <= limit

\* The limits that only the reader checks, whatever the layouts say.
ReaderAdmits(limits, durable) ==
  /\ \A scope \in ToSet(durable.scopes) :
       Len(scope.name) <= limits.max_string /\ Len(scope.path) <= 8 * limits.max_string
  /\ Len(durable.base_policy.promotable_scope_kinds) <= 9
  /\ Len(durable.base_policy.globally_required_evidence) <= limits.max_string
  /\ Len(durable.base_policy.globally_required_evidence) <= 88
  /\ \A v \in ToSet(durable.versions) :
       Longest(limits.max_string,
               {v.runtime, v.runtime_min_version, v.backend, v.architecture, v.precision,
                v.tokenizer_generation, v.adapter_set})
  /\ \A fact \in ToSet(durable.compatibility) :
       Len(fact.environment_key) <= limits.max_string /\ Len(fact.detail) <= 2 * limits.max_string
  /\ \A plan \in ToSet(durable.rollouts) :
       /\ Len(plan.stages) <= MaxStages /\ Len(plan.cohorts) <= MaxCohorts
       /\ \A cohort \in ToSet(plan.cohorts) : cohort.max_blast_radius_percent <= 100
       /\ \A stage \in ToSet(plan.stages) :
            Len(stage.required_evidence) <= 88 /\ Longest(64, {stage.acceptance, stage.failure})
       /\ Len(plan.history) <= MaxHistory
       /\ \A record \in ToSet(plan.history) :
            /\ Len(record.reasons) <= MaxStageReasons
            /\ \A reason \in ToSet(record.reasons) : Len(reason.detail) <= limits.max_string
  /\ \A lease \in ToSet(durable.worker_leases) : Len(lease.detail) <= limits.max_string
  /\ \A attempt \in ToSet(durable.unsettled_attempts) : Len(attempt.detail) <= limits.max_string
  /\ \A e \in ToSet(durable.evidence) :
       Len(e.unit) <= limits.max_string \div 4 /\ Len(e.detail) <= 2 * limits.max_string
  /\ Len(durable.committed_promotions) <= CommittedPerModel * limits.max_models
  /\ Len(durable.committed_rollbacks) <= CommittedPerModel * limits.max_models

\* The file of a running coordinator, undamaged, gives back exactly the state it was
\* written from, whatever combination of accepted records that is, and is refused exactly
\* when that state exceeds one of the limits in ReaderAdmits, none of which the engine or
\* the writer enforces: the two field lists of every section agree, and no other bound of
\* serialize_durable_state is wider than that of deserialize_durable_state.
SavedFileLoads ==
  up /\ damage = Undamaged =>
    Loaded(Limits, File) = IF ReaderAdmits(Limits, saved) THEN Got(saved, <<>>) ELSE Refused

\* load_durable_state gives the whole state that was saved or nothing: neither a damaged
\* file nor other bounds make it return a state that was never saved.
AllOrNothing ==
  \A file \in {File}, b \in BoundChoices :
    LET loaded == Loaded(from_bounds(b), file)
    IN loaded.ok => loaded.value = saved
============================================================================
