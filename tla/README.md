# Model Lifecycle Fabric: TLA+ development

Model Lifecycle Fabric (MLF) decides, for every deployment scope, which version of
an AI model is authoritative there, and moves that authority through promotions,
staged rollouts, rollbacks and retirement. This directory holds TLA+ modules
translated from its C++ source, TLC configurations that check them on small
instances, and TLAPS proofs of what matters most for every size. Paths such as
`engine_rollout.cpp:605` are relative to `src/src/`, headers to `src/include/mlf/`.

## 1. Inventory

| Component | State it keeps | Operations | What makes it correct |
|---|---|---|---|
| Lifecycle state machine (`lifecycle.cpp`, `advance_lifecycle_to`) | the state of a version; the fixed successor table | `transition`, `advance_lifecycle_to` | only legal edges are taken, by a shortest path; a call always ends; the engine's targets are always reachable |
| Lifecycle engine (`engine_*.cpp`) | versions, rollout plans, attempts, leases, policy, one sequence counter, one mutex | register, revise, promote, create/begin/advance/fail/supersede rollout, rollback, retire, revalidate, publish, query | one exclusive holder per scope; dead plans gain nothing; retirement is final; live plans describe the version as it is |
| Authority table (`authority.cpp`) | per scope a vector of bindings, superseded ones included; an index by version | `grant`, `replace_exclusive`, `supersede_scope`, `supersede_rollout`, `mark_draining`, `restore` | at most one live Exclusive binding per scope; bounded |
| Policy (`policy.cpp`) | base policy and overrides per scope | `set_policy`, `set_scope_policy`, `effective` | a plan made under another policy does not advance |
| Compatibility registry (`compatibility.cpp`) | one fact per (version, environment) | `publish`, `resolve`, `invalidate_version` | an incompatible version never gains authority |
| Scope registry (`scope.cpp`) | the scope tree, a generation per scope | `register`, `touch`, `subtree` | a plan sees that somebody else changed its root scope |
| Evidence store (`evidence.cpp`) | records per (subject, kind), a count, an eviction order, a drop counter, a watermark | `publish`, `resolve`, `invalidate_model_generation`, `invalidate_publisher_boot`, `remove_kinds`, `restore` | gates open on the newest word about their exact subject; the counters are exact; what is dropped is counted |
| Worker leases and attempts (`engine_authority.cpp`, `engine_reconcile.cpp`) | leases by worker, the epoch, attempts and their states | `register_worker`, `fence_worker`, `advance_epoch`, `begin_attempt`, `complete_attempt`, `reconcile_attempt` | a fenced boot or an old epoch changes nothing; an attempt is settled once |
| Coordinator (`coordinator.cpp`) | sessions, the set of dispatched attempts, last saved sequence | handle a frame, dispatch, persist, restart | what was acknowledged survives a crash |
| Worker runtime (`worker.cpp`) | connection, boot identity, local replicas | connect, publish, execute a command | commands are executed once, results reported |
| Durable state (`engine_snapshot.cpp`, `state_store.cpp`) | the saved file: thirteen sections, a header and a checksum | export, serialize, replace the file, load, deserialize, import, invalidate volatile state | what is saved can be loaded and is the same; a damaged file is refused whole; a restart trusts nothing volatile |
| Wire protocol (`protocol.cpp`) | per connection a `FrameDecoder` with its buffer | encode and decode 22 structures, `encode_frame`, `feed`, `next` | decoding undoes encoding; nothing damaged or partial is acted on |
| Client library (`client.cpp`) | one connection | `call` | a call returns its own answer, or a rejection, and it returns |
| Command line tools, artifacts, host and process, synthetic backend, status codes | none between calls | formatting, validation, I/O | outside the model, see section 8 |

**Interaction.** The coordinator owns the only engine. One thread polls all its
sessions: it decodes a frame, calls one public engine method, saves the state if the
engine's sequence number moved, and replies; at the end of an iteration it sends the
commands of new attempts to their workers and saves again. The engine's public methods each hold the engine mutex from the first
check to the last write (`docs/LOCK_ORDER.md`), so methods never interleave inside;
what interleaves is whole requests of several operators and workers, each of whom
decided on what it read earlier. Scopes, plans, versions and bindings refer to one
another through identities and *generations*, compared for equality when a late
request arrives.

**Hard behaviours.** Requests arriving after the plan, version or policy they were
made for changed; failure and rollback in the middle of a staged rollout; two
candidates of one model; operations that commit some scopes and are refused on the
next; a second copy of the rollback logic in `advance_stage`; workers that come back
after fencing; restart between acknowledgement and persistence, and between the steps
of a save; evidence evicted or withdrawn under a gate that reads it; field lists
written twice, once per direction; frames in pieces. `PROJECT.json` lists
each hazard with its line and the properties that watch it.

## 2. Modules

| Module | Models |
|---|---|
| `Lifecycle` | the 19 lifecycle states, the successor table and its predicates |
| `LifecyclePath` | one call of `advance_lifecycle_to`, loop iteration by loop iteration |
| `AuthorityOps` | the operations of the authority table on the set of live bindings |
| `LifecycleEngine` | the engine: one action per public operation that moves authority |
| `ServingAuthority` | the abstract promise: who serves which scope, and retirement |
| `CommandDispatch` | leases, attempts, the coordinator's poll loop with its state file, the workers and their connections |
| `EvidenceStore` | the operations of the evidence store, on its records, order and counters |
| `EvidenceService` | the store in its surroundings: versions, publishers, the save step by step, crash and restart |
| `WireFrames` | integers, frames and `FrameDecoder` |
| `WireCodec` | payloads: a layout and a message into bytes and back |
| `WireMessages` | the layout of every structure, once as its encoder writes and once as its decoder reads it |
| `WireExchange` | a client, a connection and a session of the coordinator, for any codec of the payloads |
| `WirePush` | what the coordinator sends to a worker: frames behind one another, and the worker's decoder |
| `WireProtocol` | a client's connection with the codec of `WireMessages`, and a worker's |
| `StateSections` | the layout of every section of the state file, again in both directions |
| `StateFile` | serialization, the checks of deserialization, and a coordinator that saves and restarts |
| `LayoutSamples` | values for a layout, from which the instances build messages and records |
| `LifecycleClaims` | a statement of the documentation that the engine does not keep |
| `LifecycleEngineProofs`, `AuthorityProofs`, `PlanProofs`, `RefinementProofs` | proofs about the engine |
| `PathProofs`, `EvidenceProofs`, `DispatchProofs`, `WireProofs` | proofs about `LifecyclePath`, `EvidenceService`, `CommandDispatch`, and `WireExchange` and `WirePush` |
| `MCLifecyclePath`, `MCLifecycleEngine`, `MCCommandDispatch`, `MCEvidence`, `MCWireExchange`, `MCStateFile` | instances for TLC |

`LifecycleEngine` extends `Lifecycle` and `AuthorityOps`; it uses `LifecyclePath`
through one fact that is checked and proved there (`EngineTargetsAlwaysReached`): every target
a handler passes to `advance_lifecycle_to` is reachable from every state but
`RETIRED`, so the call is `AdvanceState`. It is shown to implement
`ServingAuthority` through the mapping `Serving` / `RetiredVersions`.

### State of `LifecycleEngine`

| Variable | Code |
|---|---|
| `versions` | `state.versions`: lifecycle state, model generation, published verdict, promotion and rollback generation |
| `rollouts` | `state.rollouts`: candidate, generation, the request, the displaced version, stage index and flags |
| `authority` | the bindings of `state.authority` that are not superseded |
| `indexed` | the (version, scope) pairs of the table's index by version, which keeps superseded entries: `retire` touches those scopes |
| `pushed` | `AuthorityTable::size`: superseded bindings count, because nothing takes them out; counted up to the bound `MaxBindings` (`max_authority_bindings`), from which on every size is alike |
| `policy` | `state.policy` |

**Generations.** The generations of a plan's root scope, policy and compatibility
are only ever compared for equality with what the plan recorded. A plan therefore
carries the set `moved` of those that differ from the current value: an exact
abstraction that keeps the state space finite. `Touch`, `CompatibilityMoves`,
`SetPolicy` and `RefreshRoot` are the places where the code changes one side. The
model generation is a number, because bindings record it and rollback compares it.

**Flags of a plan.** `decided` abstracts the plan's history: it holds a decision
other than *Entered* for the current stage generation, which is what makes a repeated
stage completion stale. `unvalidated` records that the plan was made with no
compatibility generation at all (the candidate was revised or revalidated in
between), the one case in which an unset generation later matches again.

**Refusals.** A request refused before its first write changes nothing and is not a
step. Those refused later are steps. `begin_rollout` and `advance_stage` enter the stage
and grant its scopes one by one in their order, and `AuthorityTable::grant` refuses a
scope where coexistence is not allowed, or one that never had a binding once the table is
full (`Room`); the handler returns at once and leaves what it granted. `CanaryAdmitted`
is what a loop over canaries grants, and `StageRefused` an advance whose exclusive grants
stop half way: its decision is recorded, the stage is not finished. `PromotionRefused` is
`promote` whose grant the full table refuses, after the rollouts in flight were
superseded. `advance_stage` commits its failure path whatever else its gate refused
(`StageFailure`, `AutomaticRollback`). The tables of versions, scopes, rollouts and
evidence refuse before any write.

**Inputs.** Evidence, approvals and blast-radius checks gate promotions and stage
advances; in the model they are inputs, that is, the step may be taken or not. That
includes a tripped failure criterion: failure evidence may be published for any plan
at any time, so `StageFailure` has no guard. A request that cites a stale generation,
epoch or a fenced worker is refused and so adds no step. A promotion whose immediate
cutover comes from the policy's strategy is a special case of `PromoteImmediately`.

### Actions of `LifecycleEngine`

| Action | Code |
|---|---|
| `RegisterVersion`, `ReviseVersion`, `SetPolicy` | `engine_registry.cpp` |
| `PublishCompatibility` | `engine_authority.cpp:248` |
| `PromoteImmediately`, `PromotionRefused`, `PromoteToCanary` | `promote`, `engine_promotion.cpp:360` |
| `CreateRollout`, `BeginRollout`, `FailStage`, `SupersedePlan` | `engine_rollout.cpp` |
| `AdvanceStage` / `StageRefused` / `StageFailure` / `AutomaticRollback` | the four outcomes of `advance_stage`, `engine_rollout.cpp:587` |
| `Rollback` | `engine_rollback.cpp:193` |
| `Retire`, `Revalidate` | `engine_reconcile.cpp:157`, `:197` |
| `Restart` | `coordinator.cpp:55`: load and import the state the last request left |

`Restart` takes the checks of `deserialize_durable_state` and `import_durable_state`
on what the model's state holds (`Loadable`); the saved file has no superseded
bindings, so the index by version forgets where a version once was and the table shrinks
to its live bindings (of which several may differ only in fields that are not kept here,
so `pushed` is any number between). Saves that fail
or lag are the subject of `EvidenceService` and `CommandDispatch`.

### `CommandDispatch`

The module composes four parts that only make sense together.

| Part | Variables | Code |
|---|---|---|
| engine | `engine`: epoch, leases, attempts, `next_attempt_id` | `engine_authority.cpp:436`, `engine_reconcile.cpp:243` |
| coordinator | `up`, `phase`, `dirty`, `dispatched`, `sessions`, `durable` | `coordinator.cpp` |
| workers | `worker`: where `start`, `handle_command` or `publish_observations` waits | `worker.cpp` |
| connections | `toWorker`, `toCoord`: frames in order | TCP, external |

`executions`, `effects` and `acked` are history variables that record what really
happened. `phase` follows `poll_once`: serve frames, dispatch commands, save. A frame
is handled, saved and answered in one step; nothing outside can tell a crash before the
save from one before the frame was read, and a crash after the save and before the
answer from an answer that is never delivered. `dirty` is "the engine's sequence
differs from `last_saved_sequence_`". A lease that was never registered behaves as a
fenced one. `current` abstracts the model generation of an attempt's subject, which
`ReviseSubject` changes. The coordinator sees a death when it reads the socket
(`CloseSession`); frames a dead worker had sent may or may not be read before that.
`reconcile_attempt` has no frame: the host of the coordinator calls it on the engine,
and is assumed to observe the truth at that moment (`ReconcileAttempt`); the command
may still be executed later, which is why the state of a non-idempotent attempt may
not become Failed there.

### `EvidenceStore` and `EvidenceService`

A store is the set of its records and, beside it and maintained separately as in the
code, `record_count_`, `eviction_order_`, `dropped_` and `watermark_`. A withdrawal
removes entries of the order only for buckets that became empty, so stale entries stay
and are popped by a later eviction without removing anything (`Popped`, `Victims`).

`EvidenceService` has the requests that reach the store: registration, revision,
revalidation and compatibility verdicts of a version, HELLO, registration and fencing
of a publisher, publication. A publication may leave its generations out or cite any,
also one its version has not reached: `publish_evidence` checks none of them. `mode`
follows a save through `save_durable_state`: the
temporary file, the rename, and after a failed rename the removal of the old file and
a second rename; a crash may come at any of them. A request that finds the sequence
moved is answered after the save. `issued`, `offered`, `acked`, `lost` and the fields
`round` (of a version and of a record) and `reached` (of a record) are history. A subject keeps the fields by which `resolve` tells records apart in
different ways: model generation, artifact generation, compatibility generation, scope
and stage generation.

### `WireFrames`, `WireCodec`, `WireMessages`, `WireExchange`, `WirePush` and `WireProtocol`

A *layout* is the sequence of fields that `encode` writes or `decode` reads, each with
its width and the limit the reader checks. `WireMessages` has two layouts for each of
the 22 structures, transcribed separately from the two functions down to the last run of
identifiers, so that a difference between them is a difference between values
(`put_binding` and `get_binding`, and so on). `WireCodec` turns a layout and a message into bytes and back. `WireFrames` builds
frames and models `FrameDecoder` with its buffer, position and failure; the checks of
`decode_frame` and `feed` are in the order of the code, which decides what a stream is
refused for. `WireExchange` puts a client and a session at the two ends of a byte stream
that is read in pieces, may have a byte damaged and may be cut off. What the engine
answers is an input, and so are the codec (`Encode`, `Decode`) and the wire types
(`TypeOf`): the exchange relies only on `ExchangeAssumption` and `CodecAssumption`, namely
that what `encode` accepts fits into a frame and that a reply `decode` accepts is the one
sent. `WireProtocol` gives them the layouts of `WireMessages`, and TLC evaluates both
assumptions for them.

A client's connection never carries more than one call or its answer. A worker's does:
`dispatch_pending` sends its COMMANDs one behind the other, and answers to what the worker
publishes go between them. `WirePush` has this stream of any legal frames and the worker's
`receive` at its end (`Push`, `WorkerRead`, `WorkerTake`); a read may end anywhere and may
begin while the `FrameDecoder` still holds bytes it has handed out. What a worker does with
a frame is in `CommandDispatch`. `WireProtocol` composes both: a connection is a client's
or a worker's.

`crc32` is modelled by a weighted sum that, like the code's, tells a stream from the
same stream with one byte changed; identifiers are below 2^24.

### `StateSections` and `StateFile`

Layouts also describe the state file: a writer and a reader per section and per shared
part, each written out in full. `StateFile` adds the frame of the file, the bounds that the writer checks
(`Serializable`), those the reader checks, its demands on records (`WellFormed`) and on
the references between sections (`Consistent`), and a coordinator whose state grows by
the records the engine accepts. `Accepted` and `SetPolicy` are the checks of size the
engine makes (`create_rollout`, `register_version`, `set_policy`, the clamps of
`publish_evidence` and of details); what they do not mention is taken as it comes, whatever
the reader thinks of it. `Coexist` and `Decide` add to a scope's bindings and to a plan's
history, which the engine does not bound. The coordinator saves each change, the file may
be damaged, and a restart may have other bounds.

## 3. Properties

Of the engine, all in `LifecycleEngine`:

- `SingleExclusive`: a scope has at most one exclusive binding, so `query_authority`
  never answers AMBIGUOUS.
- `RetiredHoldsNothing`, `RetirementIsFinal`: a retired version holds nothing and its
  record never changes again.
- `OneLivePlanPerCandidate`, `LivePlanIsCurrent`: a version has one live plan at most,
  and that plan was made for the version's current generation.
- `SupersededPlanHoldsNothing`: no binding carries a superseded rollout.
- `AuthorityWithinPlan`: authority that carries a rollout belongs to its candidate and
  generation, lies below its root and in a stage already entered, and is exclusive
  only in a stage whose advance was decided, in which nothing is granted again; also when
  the full table refused a later scope of that advance.
- `PlanDeathIsFinal`, `OnlyLivePlansGainAuthority`: a plan that died stays dead, and a
  late or repeated stage completion gains nothing.
- `ImplementsServingAuthority`: refinement.

Of `advance_lifecycle_to`, in `LifecyclePath`: `PathIsShortest` and
`RejectedOnlyWithoutPath` compare the search with the reference definition `Within`;
`EngineTargetsAlwaysReached` is what the handlers, which ignore the result, rely on;
`CallReturns` is termination.

Of `CommandDispatch`: `InFlightHasPerformer` (an attempt in flight belongs to the boot
that holds the lease), `ExecutedAtMostOnce`, `OutcomeIsTrue` (Completed and Failed are
what happened, also for commands executed late), `AcknowledgedSurvives` (durable-first
acknowledgement, over crashes and failed saves) and `DeathIsNoticed` (liveness).

`StateIsRestorable`, of the engine: whatever requests were made, the state passes the
checks its own recovery makes.

Of `EvidenceService`:

- `StoreConsistent`: the count is the number of records and within the bound, and every
  record is in the eviction order.
- `DropsAreVisible`: every publication since the start is stored or counted as dropped.
- `EvictsOldestWhenFull`: a publication removes records only from a full store, and only
  the oldest.
- `RevisionWithdrawsEvidence`: what is stored from before a revision or revalidation is
  about a generation the version had not reached when it was published, and has not
  passed since; whatever was known of a generation that existed is gone. The exception
  is the code's (section 5).
- `GateReadsTheLastWord`: a gate that opens does so on the newest verdict about exactly
  its subject; eviction and withdrawal never bring an older one back.
- `NextPublicationAccepted`: the next generation exceeds the watermark, also after a
  restart from an older file.
- `AcknowledgedIsOnDisk`: what moved the sequence and was acknowledged is in the file,
  at every step of every later save.

Of `WireExchange`: `DecodeUndoesEncode` and `OnlyWholePayloads` (every message of every
structure is read back as written, or refused when a field exceeds its limit, and no
prefix or extension of a payload is accepted); `InterpretedAsSent` and
`ReplyIsTheAnswer` (the coordinator acts on the oldest call it has not taken, and a call
returns the answer to itself); `CallReturns` (liveness).

Of `WirePush`: `PushedFramesArrive`. The worker takes the frames as they were sent, in
order, and its decoder refuses the stream exactly when more bytes than the largest legal
frame were read since it last had nothing left over. Legal frames are refused that way
(section 5); the property says when, and that nothing else is refused.

Of `StateFile`: `SavedFileLoads` (an undamaged file gives back exactly what was saved, and
is refused exactly when the state exceeds one of the limits that neither the engine nor
the writer enforces) and `AllOrNothing` (no damage and no other bounds make it give
anything but what was saved). The limits are those of `ReaderAdmits`, which is written from
the reader's checks as a predicate on the state, not from the layouts; the cases beyond
them are in section 5.

## 4. Runs and bounds

| Run | Instance | Why the bound is enough for its question |
|---|---|---|
| `lifecycle_path` | all 361 pairs (state, target) | complete: there is no bound |
| `staged_rollout` | 2 versions, root and child, a two-stage plan (child, then root) for either version as target, everything allowed by policy, a table of 2 bindings | a second version is needed for displacement, rollback and retention; a second stage for late completions; two bindings of the child fill the table before the root has one, so promotions and stages are refused half way |
| `competing_rollouts` | 2 versions, either of which (not both: the constraint `OneRevision`) is revised once, 2 rollouts, 1 scope | the smallest instance in which two live plans compete and supersede each other, and a plan per generation of one version, with a revision at any point; a revision touches only the plans of its own version |
| `policy_changes` | 2 policies that alternate, one stage with 2 scopes, a table of 2 bindings | the narrow policy refuses a canary where something is live: a refusal can come before, between and after the two grants; the full table refuses the second scope after the first went to the candidate, for canaries and for the exclusive grants |
| `automatic_rollback` | 2 versions, either of which (not both: the constraint `OneRollback`) is rolled back once, root and child, a table of 2 bindings, automatic rollback allowed, restarts at any time | the rollback inside `advance_stage`, with whatever holds the root, before and after restarts; two rollbacks, one of each version, occur in `staged_rollout` |
| `command_dispatch` | 1 worker identity, 2 boots that may reconnect, 1 attempt, 1 crash, saves succeed | replacement needs a second boot; a resend needs a crash or a reconnection between sending and executing |
| `durable_acknowledgement` | 1 boot that may reconnect, 1 attempt, 1 crash, saves may fail, fairness | what is lost or left behind needs one failed save, one crash or one death; attempts and sessions are independent of one another |
| `evidence_service` | a store of 2 records, 3 publications, 3 moves of the sequence, 1 version, 1 publisher and the host, 1 crash, writes and renames may fail; verdicts about the current generation and about the second one, reached or not | the third publication finds a full store; two kinds tell durable evidence from volatile; a revision needs two generations. Stale entries come about, but none is popped by a full store, which takes a fourth publication: that case rests on the proof of `EvictsOldestWhenFull` alone |
| `wire_exchange` | every structure with texts and lists of 1 and 2 items where the limit is 1, numbers at their limit and beyond it, then a second short call; reads of 24 and 300 bytes; one damaged byte; on a worker's connection up to 4 frames, a COMMAND or a reply each | each field list is exercised in full, inside and outside its limits; the second call finds what the first left behind; 24 bytes end inside a frame; four frames read in unlucky pieces exceed the decoder's limit |
| `state_file` | a new state, one with a version and nothing else, one with a record in every section and one with two where the bounds allow it; 1 step of growth; 2 choices of bounds; a byte changed in the length and inside the payload, 20 bytes lost or added | every field is written and read; a record is added below, at and beyond each bound, ordinary or with one text, list or number longer than the reader admits. Each limit of `ReaderAdmits` is needed: with any one of them left out TLC finds a record the engine accepts and the reader refuses |
| `claim_*` | the instances of the engine and of the evidence service | each is refuted by a short behaviour |

The bounds are `MaxGeneration`, `MaxPromotions`, `MaxRollbacks`, `OneRevision`, `OneRollback`, `MaxBindings`
(the code's `max_authority_bindings`), the number of
`RolloutIds` (the code's `max_rollouts`) and the finite sets of policies and plan
requests; in `CommandDispatch`, `MaxAttempts`, `MaxCrashes` and `Publications` (the
evidence messages a worker sends after a command, two per replica in the code, one in
the runs); in `EvidenceService`, `MaxGeneration`, `MaxSequence` and `MaxCrashes`
(`MaxRecords` is the code's own bound); in `WireExchange` the number of calls, in
`WirePush` `MaxPushes`, and in `StateFile` `MaxGrowth`. The limits of messages and of the state file are constants of
the code and are made small, so that they can be exceeded.
`ExecutedAtMostOnce` and `OutcomeIsTrue` are checked with saves that succeed: see the hazard at
`coordinator.cpp:163` for what a failing one leads to. Boots are interchangeable and a
symmetry set in the safety run. Versions and rollout identities are interchangeable, and
used as symmetry sets; scopes are numbered, since the code processes them in order, and
are not.

**Fairness.** `LifecyclePath` has `WF_vars(Next)`, because a call is a loop of one
thread that holds the mutex and waits for nothing. `CommandDispatch!FairSpec` has weak
fairness of the poll loop (`run` calls `poll_once` until it is stopped, and `select`
has a timeout), strong fairness of serving and closing each session (every iteration
serves all readable sessions, so one that is readable again and again is served) and
weak fairness of each worker's reads. `WireExchange` has weak fairness of what the two
ends do by themselves: the client is blocked in `receive` and returns when bytes or the
end of the connection arrive, and `poll_once` serves every readable session. No fairness
makes anybody start, die, crash or send a request, or anything be lost. The engine itself
never acts without a request, so `LifecycleEngine` states no fairness and no liveness
property; deadlock is checked, since some request is always possible.

## 5. What the refuted runs show

| Run | The code | The documentation |
|---|---|---|
| `claim_rollback` | the automatic rollback grants the scope to the failed candidate (`engine_rollout.cpp:652`) | a rollback "grants exclusive authority to the target" (`src/README.md:275`) |
| `claim_acknowledged_evidence` | `publish_evidence` does not move the sequence (`engine_authority.cpp:412`), so `persist_if_changed` does not save (`coordinator.cpp:393`) and the acknowledged record is lost in a crash | "a mutation is written to durable state before its reply is sent" (`src/README.md:401`) |

The same modules show more places where the code and its documentation part, which no
run singles out. Of the engine and the workers:

- `revalidate` supersedes whole scopes, also another version's exclusive binding
  (`engine_reconcile.cpp:228`), although "only committed exclusive authority survives"
  (`:223`).
- A verdict published between `promote` and `create_rollout` is not looked at
  (`engine_rollout.cpp:175`); a candidate "must have [...] current compatibility for the
  target environment" (`src/README.md:153`).
- A COMMAND that arrives while the worker waits for the answer to a publication is taken
  for that answer and lost (`worker.cpp:173`); `dispatch_pending` wants no command
  "silently dropped" (`coordinator.cpp:364`).
- `advance_stage` commits its failure path on a superseded plan
  (`engine_rollout.cpp:605`), although a late completion "is refused and cannot
  overwrite newer rollout state" (`src/README.md:306`).
- A version stripped by `supersede_scope`, as `rollback` and `revalidate` call it,
  stays CURRENT and holds nothing (`engine_rollback.cpp:214`); it "must not be reported
  as authoritative" (`engine_registry.cpp:478`).
- When the full table refuses a scope in the middle of `advance_stage`
  (`engine_rollout.cpp:694`), the scopes before it stay exclusively the candidate's and
  the history says `Advanced`: a repeated advance is then refused as a duplicate and
  `fail_stage` as decided, so the plan is stuck in a half-granted stage. A stage record
  is to hold the stage's "committed decision" (`rollout.hpp:60`).
- `create_rollout` accepts a retired version as the plan's rollback target
  (`engine_rollout.cpp:185`, against `src/README.md:137`).
- `start` does not save the epoch it advanced (`coordinator.cpp:98`): a coordinator
  that crashes again before anything changes starts with the same epoch, although it
  is to "Recover durable state, advance the coordinator epoch" (`coordinator.hpp:57`).
- `register_worker` accepts the boot that was fenced (`engine_authority.cpp:459`),
  although "replacement always requires a fresh boot identity rather than a resumed
  one" (`src/README.md:682`). A fenced boot may also say HELLO and publish evidence,
  which fencing withdrew only once (`engine_authority.cpp:510`).

Of storage and the wire:

- `save_durable_state` is to "Write atomically" (`state_store.hpp:124`). When the rename
  fails it removes the old file before it tries again (`state_store.cpp:1493`): a crash
  or a second failure there leaves no file, which the next start takes for a first one.
- "Nothing grows without limit" (`engine.hpp:35`), but some limits are only the reader's:
  the state is saved and acknowledged, and its file is refused at the next start. With
  `refuse_start_on_corrupt_state` off the coordinator then starts empty. Under the
  default bounds these are a plan's history (4096 records), the reasons of a record (64),
  the committed identities (64 per model), the texts of a version's requirements
  (`engine_registry.cpp:628`), the two lists of the base policy (`:729`, `:737`), a
  cohort's blast radius (`engine_rollout.cpp:227`), and a stage's required evidence and
  criteria (`:279`). `from_bounds` leaves the reader's limits on stages and cohorts at
  their defaults (`state_store.cpp:348`), so a coordinator configured for more saves plans
  it cannot load; and it derives the limit of most texts from `max_name_length`, so that
  with short names scope names and paths, environment keys, units and details exceed it.
- A base policy with more than 22 required kinds of evidence is accepted, saved and
  decoded, and then refused by `PolicySet::restore` (`policy.cpp:87`), which the model of
  the file does not contain.
- `AuthorityTable::grant` checks its bound only for a scope's first binding
  (`authority.cpp:84`). Beyond it every save is refused, so every later request is
  answered as failed, and its change stays in memory.
- `max_evidence` records of their largest size exceed the 16 MB a payload may have; the
  save is then refused in the same way. A file longer than it declares is loaded.
- A reply that cannot be encoded is not sent (`coordinator.cpp:177`), and the client
  waits: RECONCILE adds one reason per finding, and a reply may have 32
  (`protocol.cpp:1635`). `call` is to "Send a frame of the given type and wait for the
  reply. The error string is set when the exchange could not complete"
  (`client.hpp:62`).
- "A single feed larger than any legal frame cannot become legal by waiting"
  (`protocol.cpp:283`), but the next check counts bytes already handed out: a worker to
  which legal frames are sent behind one another refuses them as Oversized once more than
  one largest frame was read without a read ending at the end of a frame
  (`protocol.cpp:288`), and closes its connection (`worker.cpp:291`).
- A damaged length byte that announces more than was sent makes both ends wait; nothing
  times out.
- `publish_evidence` accepts any generation its caller cites (`engine_authority.cpp:380`)
  and a revision withdraws only older ones (`evidence.cpp:349`): a verdict published
  about a generation before it existed outlives the revision that reaches it, and
  counts for the new generation when the other cited fields agree. "Old evidence can
  never approve a newer model generation by accident" (`src/README.md:318`).
- The evidence store is "Bounded" (`evidence.hpp:133`); its eviction order is not:
  entries of withdrawn records stay while their bucket has another record, and only a
  full store pops them.

Everything in section 3 holds in spite of these: the automatic rollback, for
instance, gives the scope to the wrong version, but never to two versions and never to
a retired one.

## 6. Proofs

Every theorem is about the `Spec` of its module for every value of the constants under
the module's named `ASSUME`s, which fix types and say that sentinels are not members of
the sets they stand beside, and of `WireExchange` what it relies on the codec for. Nothing is assumed about how many versions, scopes,
rollouts, stages, boots, attempts, records, calls or crashes there are, nor that `Subtree`
is a tree. Three theorems have a further hypothesis (`CommandsExecuteOnce`,
`OutcomesAreTrue`, `CallsTakenAsSent`), discussed below.

### `LifecyclePath`

| Theorem | Statement | Argument |
|---|---|---|
| `AcceptedOverShortestPath` | `[]PathIsShortest` | the states seen are a tree: each but the first has a parent that was seen, one transition nearer to the start (`Tree`); the queue holds states of at most two consecutive distances, in order, and every state as near as the current one was seen (`Level`). The path rebuilt from the tree therefore has the length of the distance, and each of its edges is legal (`Leads`) |
| `RefusedWithoutPath` | `[]RejectedOnlyWithoutPath` | when the queue runs empty, what was seen is closed under legal transitions and does not hold the target (`Separated`). The rebuilding never fails, and no transition on the path is refused, so no other refusal happens |
| `EngineTargetsReached` | `[]EngineTargetsAlwaysReached` | a set that is closed under legal transitions and holds a state other than `RETIRED` holds every state but perhaps `REGISTERED` (`ClosedHoldsAll`) |

Only the third uses the rows of the successor table; the others hold for every table
whose rows list exactly the legal successors and whose terminal states have none.
The distance is that of `Within`, a function by recursion on the number of
transitions. `Iteration` unfolds such a function from its defining equation, and
`SetInduction` replaces the induction rule by the least element of a set of naturals,
so that no theorem with an operator parameter is needed. `EngineTargetsAssumption` says
that no handler passes `REGISTERED`.

### `LifecycleEngine`

| Theorem | Statement | Argument |
|---|---|---|
| `TypeCorrect` (`LifecycleEngineProofs`) | `[]TypeOK` | inductive; the stage index is the delicate conjunct, kept by `StageDone` because a plan at its last stage completes and does not move on |
| `ExclusiveHolderIsUnique` (`AuthorityProofs`) | `[]SingleExclusive` | inductive relative to `TypeOK`: only `GrantExclusive` adds exclusive bindings, and it first takes the exclusive binding out of each scope it grants; all else removes or weakens bindings |
| `RetiredVersionsHoldNothing` (`AuthorityProofs`) | `[]RetiredHoldsNothing` | `RetirementInv` adds that every plan's candidate is registered, so that a plan that grants has a known candidate that `Stale` checked |
| `RetirementNeverUndone` (`AuthorityProofs`) | `RetirementIsFinal` | from `RetirementInv`: `AdvanceState` leaves `RETIRED` alone, and the actions that also write counters act on a version that holds authority |
| `StateAlwaysRestorable` (`AuthorityProofs`) | `[]StateIsRestorable` | `RestartInv` adds `SingleExclusive` and `Covered`: no binding has a newer generation than its version, and each one's rollout is known. Generations and the set of plans only grow |
| `PlansNeverCompete`, `LivePlansAreCurrent`, `SupersededPlansHoldNothing`, `AuthorityStaysWithinPlan` (`PlanProofs`) | `[]OneLivePlanPerCandidate`, `[]LivePlanIsCurrent`, `[]SupersededPlanHoldsNothing`, `[]AuthorityWithinPlan` | one invariant, `PlanInv`: `RetirementInv`, the four properties and `PlansWithinRoot` (the stages of a plan lie below its root, which `create_rollout` checks once). Each step keeps a plan's identity or creates it (`PlanIdentityStep`), and a plan continues, dies or is superseded; what a step grants for a plan comes from a live plan in the stage it enters |
| `PlansDieOnce`, `DeadPlansGainNothing` (`PlanProofs`) | `PlanDeathIsFinal`, `OnlyLivePlansGainAuthority` | from the same case analysis, per step |
| `EngineImplementsServingAuthority` (`RefinementProofs`) | `ImplementsServingAuthority` | under `Serving` / `RetiredVersions` a step other than `Retire` changes holders in favour of one version that is not retired (`OneReceiver`), which is the abstract handover or a stutter; `Retire` maps to the abstract retirement because its gate found no live binding. `RestartInv` is needed before and after the step: without `SingleExclusive` the mapping would not be a function of the scope |

### `EvidenceService`

`EvidenceProofs` has one invariant, `EvidenceInv`. Beside the properties themselves it
says

- `Sound`, of the memory and of the file alike: a record was published for a registered
  version, in its present round or, about a generation it had not reached and has not
  passed, in an earlier one, and under a generation of its own that is below the
  allocator. It is stated of both because a restart makes
  the memory what the file was;
- `InSync`: when the saved sequence is the current one, the file is as new as memory.
  This is what makes an answer without a save sound;
- `IssuedSound`: what is no longer stored is older than everything stored about its
  subject, because an eviction takes the oldest and a withdrawal by generation takes
  every record of a subject or none. `GateReadsTheLastWord` is not inductive without it.

The theorems are `EvidenceTypeCorrect`, `StoreStaysConsistent`, `DropsStayVisible`,
`PublicationsAccepted`, `RevisionAlwaysWithdraws`, `AcknowledgedStaysOnDisk`,
`GatesReadTheLastWord` and `EvictionTakesTheOldest`: every property of section 3, for
every size of the store. The counting arguments (a publication into a full store evicts
exactly one record; a withdrawal subtracts exactly what it removed) rest on the
library's theorems about finite sets. `NoneAssumption`, that the mark for a missing file
is not the image of a file, is the only assumption the proofs added.

### `CommandDispatch`

| Theorem | Statement | Argument |
|---|---|---|
| `DispatchTypeCorrect` | `[]TypeOK` | `TypeInv` adds that every attempt, in memory and in the file, is below `next_attempt_id` |
| `InFlightPerformed` | `[]InFlightHasPerformer` | inductive with `TypeInv`: every operation that takes a lease away fences first, and the import puts no attempt in flight |
| `AcknowledgementsSurvive` | `AcknowledgedSurvives` | `AckInv`: the file lags behind the engine only in what was not acknowledged. Also with saves that fail, since an answer of success follows a save that succeeded |
| `CommandsExecuteOnce` | `SavesFail = FALSE` implies `[]ExecutedAtMostOnce` | `OnceInv`: a command is unsent, or in one queue once, or executed once (`CommandOnce`); the file knows every identity assigned (`FileCurrent`) |
| `OutcomesAreTrue` | `SavesFail = FALSE` implies `[]OutcomeIsTrue` | also from `OnceInv`: a completion on its way tells what the execution did (`ClaimsTrue`), and a non-idempotent attempt is Failed only when it was executed without effect (`OutcomeFounded`) |

The hypothesis `SavesFail = FALSE` of the last two is not a convenience. When a save
fails, the identity of an attempt whose command was sent is in no file, and after a crash
it is assigned to another attempt; the hazard at `coordinator.cpp:163` describes this.
`FileCurrent` is the conjunct that fails then, and on the instance of `command_dispatch`
with saves that may fail TLC finds both properties violated.

### `WireExchange` and `WirePush`

The invariant `WireInv` says of a connection no byte of which was damaged that

- `Upward`: a session either has nothing pending, an empty decoder and nothing in flight,
  or one pending call, and then its decoder holds a first part of that call's frame and
  the next part of the same frame is in flight, all of the rest as long as the connection
  stands (`Carried`);
- `Downward`: the same of the client and the frame of the answer to the call it waits for;
- `OneCall`: what is pending is the call the client waits for; when it does not wait and
  the connection stands, nothing is pending.

A decoder that holds a proper part of a frame asks for more, whatever part it is
(`PrefixDecodes`); one that holds all of it takes exactly the payload and the type that
were sent, and its buffer is used up. Nothing about `crc32` is used except that it is a
function.

| Theorem | Statement |
|---|---|
| `CallIsNotRefused` | `[]RefusesOnlyDamage`: on a client's connection neither decoder refuses a stream no byte of which was damaged |
| `AnswersAreOwn` | `[](~damaged => ReplyIsTheAnswer)` |
| `CallsTakenAsSent` | if no decoder reads a request as another message (`CodecIsFaithful`): `[][~damaged => TakenAsSent]_vars`, and `InterpretedAsSent` of a behaviour without damage |
| `PushedFramesAlwaysArrive` | `PushSpec => []PushedFramesArrive` |

`CallIsNotRefused` rests on the client's one call at a time. What holds of a worker's
connection is the last theorem, from an invariant of its own (`PushInv`): the frames sent
are one stream of bytes, of which the worker's buffer holds what was read since it was last
used up, handed out up to the end of the last frame taken, and what is in flight is the
rest (`Flowing`).

They hold for every number of calls and frames, every payload up to `MaxPayload`, all sizes of a read
and every moment at which the connection is lost. `MaxPayload < Huge` (2^24) is the range
in which the model keeps numbers; the protocol's limit is 262144. `CodecIsFaithful` is what
`DecodeUndoesEncode` checks of the real layouts. A damaged byte is left to TLC: if it is a
length byte, the checksum is taken over another stretch of the stream, and only on the
instance can it be said that it does not happen to fit.

The lemmas follow the code's helpers: what a helper preserves is proved once, and each
module classifies the steps (`Continues` and `Safe` of the engine, `Continues`,
`SettlesNothing`, `Quiet` and `Executes` of dispatch), so that an invariant is argued
for a handful of classes rather than for every action again.

### Model-checked only

- `CallReturns` of `advance_lifecycle_to` and of a client's call, and `DeathIsNoticed`:
  liveness under fairness is outside what the installed provers can do.
- `DecodeUndoesEncode`, `OnlyWholePayloads`, `SavedFileLoads` and `AllOrNothing`: what they
  say is what recursive operators over layouts compute for every message, which takes
  induction over data.
- `ReplyIsTheAnswer` and `InterpretedAsSent` after a byte was damaged, as said above.
- The refuted claims: a counterexample is all there is to show.

## 7. Plan

Done: the lifecycle state machine and its path search; the engine with restarts and its
abstract specification; commands, workers and coordinator; the evidence store in its
surroundings; the wire protocol with the client; the state file; theorems for every
safety property of the path search, the engine, the evidence service and command
dispatch, and for the exchange without damage. Left, in this order:

1. `AuthorityTable`: the vectors with superseded entries, the index by version and
   `restore`; refines the set operations of `AuthorityOps`.
2. Policy overrides per scope, and inheritance in `query_authority`.
3. The attempts that block retirement, and the epoch as `advance_epoch` changes it.

## 8. Not modelled

Of the engine: the bounds on versions, scopes and evidence records, which refuse a request
before its first write (the bound on bindings, which does not, is modelled), policy overrides per scope, several target environments, the unsettled attempts
that also block retirement (the model allows more retirements), reconciliation reports,
and the text of reasons. Its `Restart` is from the state of the last request.

Of `CommandDispatch`: two connections of one boot, refusals for text, bounds or unknown
subjects, client sessions that complete attempts themselves, the FENCE frame a worker
would accept (the coordinator never sends one), and a COMMAND that happens to decode as
a reply.

Of the evidence: the artifact set, rollout and stage identities of a subject (they are
compared like the fields that are kept), values, units and details. `require_current_publisher` is not
satisfiable and `max_evidence_age` has no effect in the code, so no gate uses them. The
drop counter starts at zero after a restart, in the model as in the code.

Of the wire: sockets, `FrameQueue` (nothing uses it), the version checks of HELLO, the
several types under which one structure may travel, damage on a worker's connection,
the bytes of a worker's stream to the coordinator (the same decoder, with the same limit),
and identifiers of 2^24 and more. The bytes of a worker's stream (`WirePush`) and what the
worker does with its frames (`CommandDispatch`) are separate modules. A call that was rejected because
the connection was lost may have been acted on; that is in the model, and no property
says otherwise.

Of the state file: what the engine puts into it is an input. It is restricted to records
that refer to what exists, that pass the checks of size in `Accepted` and `SetPolicy`, whose
enumerations are in their range, and whose numbers are below 2^24; the scopes of a cohort and
the cohorts of a stage are not empty. An override's lists are short, since `set_override`
makes them sets. A scope or a piece of evidence is saved at once, which in the code takes a
later request (`EvidenceService`). Records are added and, but for the base policy, a plan's
history and a scope's bindings, not changed. The checks `import_durable_state` repeats on
the decoded state are in `LifecycleEngine!Loadable` and `EvidenceService`, except
`PolicySet::restore`; two overrides of one scope.

Not at all: the command line tools (they format what `call` returns), artifact digests,
host and process control (operating system), the synthetic backend (a stand-in for a
serving runtime), identity and status types.
