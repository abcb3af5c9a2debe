-------------------------- MODULE EvidenceService --------------------------
(***************************************************************************)
(* Evidence from its publication to the gates that read it, through saves,  *)
(* crashes and restarts: the evidence side of the engine, the coordinator   *)
(* that serves one request after another, and the state file it replaces    *)
(* (state_store.cpp).                                                       *)
(*                                                                          *)
(* Between two requests the coordinator is "serving".  A request that moved *)
(* the engine's sequence is followed by a save, in the steps "write",       *)
(* "rename" and, when the rename failed, "retry"; only then is it answered. *)
(* The coordinator may crash between any two of them.                       *)
(***************************************************************************)
EXTENDS EvidenceStore

CONSTANTS
    Publications,    \* what publishers publish, with the generations, scopes and
                     \* stages they cite; 0 for a generation they do not cite
    WritesMayFail,   \* the temporary file cannot always be written
    RenameMayFail,   \* rename may refuse to replace the file
    None,            \* no file
    MaxGeneration,   \* bound on evidence generations
    MaxSequence,     \* bound on the engine's sequence
    MaxCrashes       \* bound on crashes

ASSUME PublicationsAssumption ==
    Publications \subseteq
        [kind : Kinds, verdict : Verdicts, model_generation : Nat, artifact_generation : Nat,
         scope : Scopes, stage_generation : Nat, compatibility_generation : Nat]
ASSUME BoundAssumption ==
    MaxGeneration \in Nat /\ MaxSequence \in Nat /\ MaxCrashes \in Nat
ASSUME FaultAssumption == WritesMayFail \in BOOLEAN /\ RenameMayFail \in BOOLEAN

VARIABLES
    registry,     \* version records, as far as evidence refers to them
    store,        \* state.evidence
    next,         \* state.next_evidence_generation
    sequence,     \* state.sequence
    leases,       \* boot -> "none", "live" or "fenced"
    sessions,     \* the boots with an open session
    mode,         \* what the coordinator is doing
    saved,        \* last_saved_sequence_
    file,         \* the state file
    crashes,
    lost,         \* history: the file was removed for a rename that did not follow
    acked,        \* history: the round of each version that was acknowledged
    issued,       \* history: publications since the start, unless withdrawn
                  \* with their publisher
    offered       \* history: how many there were

engine == <<registry, store, next, sequence, leases>>
history == <<lost, acked, issued, offered>>
vars == <<registry, store, next, sequence, leases, sessions, mode, saved, file,
          crashes, lost, acked, issued, offered>>

\* Generation 0: not registered.  `round` counts the registration, revisions
\* and revalidations of the version, and is only read by the properties.
VersionRecord ==
    [generation : Nat, artifact_generation : Nat, compatibility_generation : Nat,
     round : Nat]

\* is_durable_evidence.
DurableKinds ==
    {"ArtifactIntegrity", "RuntimeCompatibility", "BackendCompatibility",
     "HardwareCapability", "TokenizerMatch", "AdapterCompatibility", "TestResult",
     "PolicyApproval", "ManualApproval", "Signature"}

\* export_durable_state: leases are saved as fenced.
Exported ==
    [registry |-> registry,
     evidence |-> {r \in store.records : r.kind \in DurableKinds},
     next |-> next, sequence |-> sequence,
     leases |-> [b \in Boots |-> IF leases[b] = "none" THEN "none" ELSE "fenced"]]

Image ==
    [registry : [Versions -> VersionRecord], evidence : SUBSET Record, next : Nat,
     sequence : Nat, leases : [Boots -> {"none", "fenced"}]]

ASSUME NoneAssumption == None \notin Image

Unregistered ==
    [generation |-> 0, artifact_generation |-> 0, compatibility_generation |-> 0,
     round |-> 0]

\* The first start, with no state file.
Init ==
    /\ registry = [v \in Versions |-> Unregistered]
    /\ store = EmptyStore
    /\ next = 1
    /\ sequence = 1
    /\ leases = [b \in Boots |-> "none"]
    /\ sessions = {}
    /\ mode = "serving"
    /\ saved = 1
    /\ file = None
    /\ crashes = 0
    /\ lost = FALSE
    /\ acked = [v \in Versions |-> 0]
    /\ issued = {}
    /\ offered = 0

-----------------------------------------------------------------------------
(* Requests.                                                                *)

\* Mutant: the request is answered before the save.
AnswerFirst ==
    /\ mode' = IF sequence' = saved THEN "serving" ELSE "write"
    /\ acked' = [v \in Versions |-> registry'[v].round]
    /\ UNCHANGED <<saved, file, crashes, lost>>

\* send_reply: a request that finds the sequence moved since the last save is
\* answered after a save.
Answer ==
    /\ IF sequence' = saved
       THEN mode' = "serving" /\ acked' = [v \in Versions |-> registry'[v].round]
       ELSE mode' = "write" /\ acked' = acked
    /\ UNCHANGED <<saved, file, crashes, lost>>

Bump ==
    /\ sequence < MaxSequence
    /\ sequence' = sequence + 1

RegisterVersion(v) ==
    /\ mode = "serving"
    /\ registry[v] = Unregistered
    /\ registry' = [registry EXCEPT
          ![v] = [generation |-> 1, artifact_generation |-> 1,
                  compatibility_generation |-> 0, round |-> 1]]
    /\ Bump
    /\ UNCHANGED <<store, next, leases, sessions, issued, offered>>
    /\ Answer

\* A generation the publisher left out is the current one.
Filled(cited, current) == IF cited = 0 THEN current ELSE cited

\* publish_evidence fills in what the publisher did not cite, and checks nothing
\* that it did: it may cite a generation the version has passed, or has not
\* reached.  A frame carries no stage and no compatibility generation; a call of
\* the host may.
CompleteSubject(v, p) ==
    [version |-> v,
     model_generation |-> Filled(p.model_generation, registry[v].generation),
     artifact_generation |->
        Filled(p.artifact_generation, registry[v].artifact_generation),
     scope |-> p.scope,
     stage_generation |-> p.stage_generation,
     compatibility_generation |->
        Filled(p.compatibility_generation, registry[v].compatibility_generation)]

PublishEvidence(b, v, p) ==
    LET r == [generation |-> next, kind |-> p.kind, verdict |-> p.verdict,
              subject |-> CompleteSubject(v, p), boot |-> b, round |-> registry[v].round,
              reached |-> registry[v].generation]
    IN  /\ mode = "serving"
        /\ b \in sessions \cup {NoBoot}
        /\ registry[v] # Unregistered
        /\ next <= MaxGeneration
        /\ Publishable(store, r)
        /\ store' = Publish(store, r)
        /\ next' = next + 1
        /\ issued' = issued \cup {r}
        /\ offered' = offered + 1
        /\ UNCHANGED <<registry, sequence, leases, sessions>>
        /\ Answer

\* HELLO takes the boot of the frame, registered or not, fenced or not.
Hello(b) ==
    /\ mode = "serving"
    /\ b \notin sessions
    /\ sessions' = sessions \cup {b}
    /\ UNCHANGED <<engine, mode, saved, file, crashes, history>>

RegisterWorker(b) ==
    /\ mode = "serving"
    /\ b \in sessions
    /\ leases[b] # "live"
    /\ leases' = [leases EXCEPT ![b] = "live"]
    /\ Bump
    /\ UNCHANGED <<registry, store, next, sessions, issued, offered>>
    /\ Answer

\* The engine's fence_worker: nothing more to do for a fenced lease.
FenceWorker(b) ==
    IF leases[b] = "live"
    THEN /\ leases' = [leases EXCEPT ![b] = "fenced"]
         /\ store' = InvalidatePublisherBoot(store, b)
         /\ issued' = {r \in issued : r.boot # b}
         /\ sequence' = sequence + 1
    ELSE UNCHANGED <<leases, store, issued, sequence>>

\* A FENCE frame, which closes the sessions of the worker, or the end of the
\* connection.
CloseSession(b) ==
    /\ mode = "serving"
    /\ b \in sessions
    /\ sessions' = sessions \ {b}
    /\ FenceWorker(b)
    /\ UNCHANGED <<registry, next, offered>>
    /\ Answer

\* expire_publisher_evidence, a call of the host.
ExpirePublisherEvidence(b) ==
    /\ mode = "serving"
    /\ \E r \in store.records : r.boot = b
    /\ store' = InvalidatePublisherBoot(store, b)
    /\ issued' = {r \in issued : r.boot # b}
    /\ Bump
    /\ UNCHANGED <<registry, next, leases, sessions, offered>>
    /\ Answer

\* revise_version; the artifact is replaced or only the requirements are.
ReviseVersion(v) ==
    /\ mode = "serving"
    /\ registry[v] # Unregistered
    /\ \E replaced \in {0, 1} :
          registry' = [registry EXCEPT
              ![v] = [generation |-> @.generation + 1,
                      artifact_generation |-> @.artifact_generation + replaced,
                      compatibility_generation |-> 0, round |-> @.round + 1]]
    /\ store' = InvalidateModelGeneration(store, v, registry[v].generation + 1)
    /\ Bump
    /\ UNCHANGED <<next, leases, sessions, issued, offered>>
    /\ Answer

\* revalidate: what is known of the current generation is withdrawn as well.
Revalidate(v) ==
    /\ mode = "serving"
    /\ registry[v] # Unregistered
    /\ registry' = [registry EXCEPT ![v].compatibility_generation = 0, ![v].round = @ + 1]
    /\ store' = InvalidateModelGeneration(store, v, registry[v].generation + 1)
    /\ Bump
    /\ UNCHANGED <<next, leases, sessions, issued, offered>>
    /\ Answer

\* publish_compatibility; the allocator of generations is abstracted to the
\* sequence, which is as fresh.
PublishCompatibility(v) ==
    /\ mode = "serving"
    /\ registry[v] # Unregistered
    /\ registry' = [registry EXCEPT ![v].compatibility_generation = sequence]
    /\ Bump
    /\ UNCHANGED <<store, next, leases, sessions, issued, offered>>
    /\ Answer

-----------------------------------------------------------------------------
(* The save.                                                                *)

\* The request is refused, "applied in memory but could not be made durable".
SaveFailed ==
    /\ mode' = "serving"
    /\ UNCHANGED <<saved, acked>>

Saved ==
    /\ mode' = "serving"
    /\ saved' = sequence
    /\ acked' = [v \in Versions |-> registry[v].round]

\* The poll loop saves again what could not be saved.
EndPoll ==
    /\ mode = "serving"
    /\ sequence # saved
    /\ mode' = "write"
    /\ UNCHANGED <<engine, sessions, saved, file, crashes, history>>

\* The temporary file is complete, or the save fails.  What it holds is what
\* the engine exports until it is renamed, since nothing is served meanwhile; a
\* temporary file that is left behind is overwritten and never read.
WriteTemporary ==
    /\ mode = "write"
    /\ \/ mode' = "rename" /\ UNCHANGED <<saved, acked>>
       \/ WritesMayFail /\ SaveFailed
    /\ UNCHANGED <<engine, sessions, file, crashes, lost, issued, offered>>

\* The first rename.  When it fails, the file is removed, unless that fails too.
ReplaceFile ==
    /\ mode = "rename"
    /\ \/ file' = Exported /\ Saved /\ lost' = lost
       \/ /\ RenameMayFail
          /\ file' \in {file, None}
          /\ lost' = (lost \/ file' # file)
          /\ mode' = "retry"
          /\ UNCHANGED <<saved, acked>>
    /\ UNCHANGED <<engine, sessions, crashes, issued, offered>>

\* The second rename; when it fails too, the temporary file is removed.
RetryReplace ==
    /\ mode = "retry"
    /\ \/ file' = Exported /\ Saved /\ lost' = FALSE
       \/ file' = file /\ SaveFailed /\ lost' = lost
    /\ UNCHANGED <<engine, sessions, crashes, issued, offered>>

-----------------------------------------------------------------------------
(* Crash and restart.                                                       *)

\* An engine that has nothing registered.
FirstStart ==
    /\ registry' = [v \in Versions |-> Unregistered]
    /\ store' = EmptyStore
    /\ next' = 1
    /\ leases' = [b \in Boots |-> "none"]
    /\ sequence' = 1

\* The process ends and its memory with it.
Crash ==
    /\ mode # "down"
    /\ crashes < MaxCrashes
    /\ mode' = "down"
    /\ crashes' = crashes + 1
    /\ sessions' = {}
    /\ FirstStart
    /\ saved' = sequence'
    /\ issued' = {}
    /\ offered' = 0
    /\ UNCHANGED <<file, lost, acked>>

Larger(a, b) == IF a < b THEN b ELSE a

\* Mutant: the saved allocator is ignored.
NextFromSequence(image) == image.sequence + 1

\* The evidence allocator after an import.
NextAfterImport(image) == Larger(image.next, image.sequence + 1)

\* import_durable_state and invalidate_volatile_state, which each bump the
\* sequence.
Import(image) ==
    /\ registry' = image.registry
    /\ store' = RemoveKinds(Restore(image.evidence), Kinds \ DurableKinds)
    /\ next' = NextAfterImport(image)
    /\ leases' = image.leases
    /\ sequence' = image.sequence + 2

\* start does not read the temporary file, and does not save.  Without a state
\* file "this is a first start".
Restart ==
    /\ mode = "down"
    /\ IF file = None THEN FirstStart ELSE Restorable(file.evidence) /\ Import(file)
    /\ mode' = "serving"
    /\ saved' = sequence'
    /\ issued' = store'.records
    /\ offered' = Cardinality(store'.records)
    /\ UNCHANGED <<sessions, file, crashes, lost, acked>>

-----------------------------------------------------------------------------
Next ==
    \/ \E b \in Boots \cup {NoBoot}, v \in Versions, p \in Publications :
          PublishEvidence(b, v, p)
    \/ \E b \in Boots : \/ Hello(b) \/ RegisterWorker(b) \/ CloseSession(b)
                        \/ ExpirePublisherEvidence(b)
    \/ \E v \in Versions : \/ RegisterVersion(v) \/ ReviseVersion(v) \/ Revalidate(v)
                           \/ PublishCompatibility(v)
    \/ EndPoll \/ WriteTemporary \/ ReplaceFile \/ RetryReplace
    \/ Crash \/ Restart

Spec == Init /\ [][Next]_vars

-----------------------------------------------------------------------------
(* Properties.                                                              *)

\* The types of the state.  The interesting part is in the store: record_count_ is
\* unsigned in the code, so a withdrawal that counted a record twice would wrap it.
TypeOK ==
    /\ registry \in [Versions -> VersionRecord]
    /\ store \in Store
    /\ next \in Nat \ {0}
    /\ sequence \in Nat
    /\ leases \in [Boots -> {"none", "live", "fenced"}]
    /\ sessions \subseteq Boots
    /\ mode \in {"serving", "write", "rename", "retry", "down"}
    /\ saved \in Nat
    /\ file \in Image \cup {None}
    /\ crashes \in Nat
    /\ lost \in BOOLEAN
    /\ acked \in [Versions -> Nat]
    /\ issued \subseteq Record
    /\ offered \in Nat

\* The counter is exact and within the bound, and every stored record can be
\* evicted: record_count_ and eviction_order_ are maintained beside the records
\* by publish, three withdrawals and restore.
StoreConsistent == Consistent(store)

\* "Incomplete evidence stays visible instead of silently disappearing": every
\* publication since the start is stored or counted as dropped.
DropsAreVisible == offered = store.count + store.dropped

\* Evidence from before a revision or revalidation of its version is only stored
\* while it is about a generation that the version had not reached when the
\* evidence was published, and has not passed since.  Whatever was known of a
\* generation that existed is gone, also after a restart.
RevisionWithdrawsEvidence ==
    \A r \in store.records :
        LET version == registry[r.subject.version]
        IN  r.round < version.round =>
                /\ r.reached < r.subject.model_generation
                /\ version.generation <= r.subject.model_generation

\* version_subject: what promote and begin_rollout look evidence up for.
VersionSubject(v, s) ==
    [version |-> v, model_generation |-> registry[v].generation,
     artifact_generation |-> registry[v].artifact_generation, scope |-> s,
     stage_generation |-> 0,
     compatibility_generation |-> registry[v].compatibility_generation]

Required(k) ==
    [kind |-> k, required_verdict |-> "Satisfied", require_exact_subject |-> TRUE,
     require_current_publisher |-> FALSE]

\* A gate opens on the last word: when it finds its requirement satisfied, the
\* newest publication about that very subject that was not withdrawn with its
\* publisher says so.  Eviction and withdrawal never bring an older verdict back.
GateReadsTheLastWord ==
    \A v \in Versions, s \in Scopes, k \in Kinds :
        CheckEvidenceList(store, {Required(k)}, VersionSubject(v, s)) =>
            \E r \in issued :
                /\ r.kind = k /\ r.subject = VersionSubject(v, s)
                /\ r.verdict = "Satisfied"
                /\ \A q \in issued : q.kind = k /\ q.subject = r.subject
                                       => q.generation <= r.generation

\* The store never refuses what the engine publishes: the generation it will
\* assign next exceeds the watermark, also after a restart from an older file.
NextPublicationAccepted == store.watermark < next

\* A registration, revision or revalidation that was acknowledged is in the
\* state file at every moment of every later save, failed ones included, unless
\* the file was removed for a second rename that never came.
AcknowledgedIsOnDisk ==
    lost \/ \A v \in Versions :
        acked[v] <= IF file = None THEN 0 ELSE file.registry[v].round

\* A publication makes room only in a full store, and takes the oldest records.
EvictsOldestWhenFull ==
    [][next' = next + 1 /\ mode = "serving" =>
         \A r \in store.records \ store'.records :
            /\ store.count = MaxRecords
            /\ \A q \in store.records \cap store'.records : r.generation < q.generation]_vars

-----------------------------------------------------------------------------
(* What the documentation says.                                             *)

\* README.md:401: "a mutation is written to durable state before its reply is
\* sent".  Whenever every request was answered and no save failed, the durable
\* evidence is in the file.
AcknowledgedEvidenceIsOnDisk ==
    mode = "serving" /\ sequence = saved =>
        \A r \in store.records :
            r.kind \in DurableKinds => file # None /\ r \in file.evidence

==============================================================================
