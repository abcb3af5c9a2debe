--------------------------- MODULE EvidenceStore ---------------------------
(***************************************************************************)
(* The evidence store (evidence.cpp): what publish, resolve and the three   *)
(* withdrawals do to one store.                                             *)
(*                                                                          *)
(* A bucket of the code is a vector in publication order.  The engine gives *)
(* every record a larger generation than the one before, and restore sorts, *)
(* so a bucket is the set of the records with its key, ordered by their     *)
(* generations, and the store is one set of records.  The eviction order    *)
(* is a separate map in the code, and keeps entries of records that were    *)
(* withdrawn from a bucket that still exists: it is a field of its own.     *)
(***************************************************************************)
EXTENDS Naturals, FiniteSets

CONSTANTS
    Versions, Scopes, Kinds, Boots,
    NoBoot,         \* the boot of a publication that is not a worker's
    MaxRecords      \* max_records_

ASSUME MaxRecordsAssumption == MaxRecords \in Nat \ {0}
ASSUME BootAssumption == NoBoot \notin Boots

Verdicts == {"Satisfied", "Unsatisfied"}

\* `stage_generation` stands for rollout, stage and their generations: 0 for a
\* subject that is no stage.  The model is the version's.
Subject ==
    [version : Versions, model_generation : Nat, artifact_generation : Nat,
     scope : Scopes, stage_generation : Nat, compatibility_generation : Nat]

\* `round` records how often the version had been revised or revalidated when
\* the record was published, and `reached` the generation it had then.  The
\* code keeps no such fields, only the properties read them.
Record ==
    [generation : Nat \ {0}, kind : Kinds, verdict : Verdicts, subject : Subject,
     boot : Boots \cup {NoBoot}, round : Nat, reached : Nat]

KeyOf(r) == <<r.subject.version, r.kind>>
EntryOf(r) == [generation |-> r.generation, key |-> KeyOf(r)]
Entry == [generation : Nat \ {0}, key : Versions \X Kinds]

Store ==
    [records : SUBSET Record, order : SUBSET Entry, count : Nat, dropped : Nat,
     watermark : Nat]

EmptyStore ==
    [records |-> {}, order |-> {}, count |-> 0, dropped |-> 0, watermark |-> 0]

-----------------------------------------------------------------------------
(* Publication.                                                             *)

\* The refusals of publish that depend on the store: the generation must
\* exceed that of every record in the bucket, and the watermark.
Publishable(st, r) ==
    /\ \A q \in st.records : KeyOf(q) = KeyOf(r) => q.generation < r.generation
    /\ st.watermark < r.generation

\* Mutants: room is made one record too early; the newest entries are taken.
PoppedEarly(st) ==
    {e \in st.order :
        st.count - Cardinality({r \in st.records :
                                   EntryOf(r) \in st.order /\ r.generation < e.generation})
            >= MaxRecords - 1}
PoppedNewest(st) ==
    {e \in st.order :
        st.count - Cardinality({r \in st.records :
                                   EntryOf(r) \in st.order /\ e.generation < r.generation})
            >= MaxRecords}

\* The loop that makes room takes the oldest entry of the eviction order as
\* long as the store is full: an entry is taken when the records that older
\* entries removed did not make enough room.  An entry without its record
\* removes nothing.
Popped(st) ==
    {e \in st.order :
        st.count - Cardinality({r \in st.records :
                                   EntryOf(r) \in st.order /\ r.generation < e.generation})
            >= MaxRecords}

Victims(st) == {r \in st.records : EntryOf(r) \in Popped(st)}

\* Mutant: evictions are not counted as drops.
PublishUncounted(st, r) ==
    [records |-> (st.records \ Victims(st)) \cup {r},
     order |-> (st.order \ Popped(st)) \cup {EntryOf(r)},
     count |-> st.count - Cardinality(Victims(st)) + 1,
     dropped |-> st.dropped,
     watermark |-> r.generation]

Publish(st, r) ==
    [records |-> (st.records \ Victims(st)) \cup {r},
     order |-> (st.order \ Popped(st)) \cup {EntryOf(r)},
     count |-> st.count - Cardinality(Victims(st)) + 1,
     dropped |-> st.dropped + Cardinality(Victims(st)),
     watermark |-> r.generation]

-----------------------------------------------------------------------------
(* Withdrawal.                                                              *)

\* Mutants: the counter is decreased for every record and for the batch; the
\* order forgets every bucket that lost a record.
WithdrawTwice(st, gone) ==
    [records |-> st.records \ gone,
     order |-> {e \in st.order : \E r \in st.records \ gone : KeyOf(r) = e.key},
     count |-> st.count - 2 * Cardinality(gone),
     dropped |-> st.dropped + Cardinality(gone),
     watermark |-> st.watermark]
WithdrawWholeBuckets(st, gone) ==
    [records |-> st.records \ gone,
     order |-> {e \in st.order : \A r \in gone : KeyOf(r) # e.key},
     count |-> st.count - Cardinality(gone),
     dropped |-> st.dropped + Cardinality(gone),
     watermark |-> st.watermark]

\* What the three withdrawals share: the order only forgets the buckets that
\* became empty.
Withdraw(st, gone) ==
    [records |-> st.records \ gone,
     order |-> {e \in st.order : \E r \in st.records \ gone : KeyOf(r) = e.key},
     count |-> st.count - Cardinality(gone),
     dropped |-> st.dropped + Cardinality(gone),
     watermark |-> st.watermark]

\* Mutant: the current generation stays.
InvalidateOlder(st, v, current) ==
    Withdraw(st, {r \in st.records : r.subject.version = v
                                     /\ r.subject.model_generation + 1 < current})

InvalidateModelGeneration(st, v, current) ==
    Withdraw(st, {r \in st.records : r.subject.version = v
                                     /\ r.subject.model_generation < current})

InvalidatePublisherBoot(st, b) ==
    IF b = NoBoot THEN st ELSE Withdraw(st, {r \in st.records : r.boot = b})

RemoveKinds(st, kinds) == Withdraw(st, {r \in st.records : r.kind \in kinds})

\* restore, for records with distinct generations, the only ones the engine
\* saves.  The watermark is the newest generation.
Restorable(records) == Cardinality(records) <= MaxRecords
Newest(records) == CHOOSE r \in records : \A q \in records : q.generation <= r.generation
Restore(records) ==
    [records |-> records, order |-> {EntryOf(r) : r \in records},
     count |-> Cardinality(records), dropped |-> 0,
     watermark |-> IF records = {} THEN 0 ELSE Newest(records).generation]

-----------------------------------------------------------------------------
(* Resolution.                                                              *)

Compared == <<"model_generation", "artifact_generation", "scope",
              "stage_generation", "compatibility_generation">>

\* The first field that differs decides; a scope has no older or newer.
ClassifyMismatch(stored, requested) ==
    LET differing == {i \in DOMAIN Compared : stored[Compared[i]] # requested[Compared[i]]}
        first == Compared[CHOOSE i \in differing : \A j \in differing : i <= j]
    IN  IF first # "scope" /\ stored[first] < requested[first]
        THEN "GENERATION_STALE" ELSE "SUBJECT_MISMATCH"

\* The candidate of an exact requirement is the newest record of the subject,
\* that of another requirement the newest of the bucket.  The publisher the
\* engine passes is always the empty boot and the tick always 0, so a record
\* of a worker fails every requirement of a current publisher, and no record
\* expires.
Resolve(st, requirement, subject) ==
    LET bucket == {r \in st.records : KeyOf(r) = <<subject.version, requirement.kind>>}
        exact == {r \in bucket : r.subject = subject}
        eligible == IF requirement.require_exact_subject THEN exact ELSE bucket
        found == Newest(eligible)
    IN  IF bucket = {} THEN "MISSING"
        ELSE IF eligible = {} THEN ClassifyMismatch(Newest(bucket).subject, subject)
        ELSE IF \E r \in exact \ {found} : r.generation = found.generation
                                           /\ r.verdict # found.verdict
             THEN "CONFLICTING"
        ELSE IF requirement.require_current_publisher /\ found.boot # NoBoot
             THEN "PUBLISHER_STALE"
        ELSE IF found.verdict = requirement.required_verdict
             THEN "SATISFIED" ELSE "UNSATISFIED"

\* The gate of promotions and stages: every requirement resolves to a current
\* record with the verdict it asks for.
CheckEvidenceList(st, requirements, subject) ==
    \A q \in requirements : Resolve(st, q, subject) = "SATISFIED"

-----------------------------------------------------------------------------
\* What every operation keeps, for a store whose records were all published
\* with a generation of their own.
Consistent(st) ==
    /\ IsFiniteSet(st.records)
    /\ st.count = Cardinality(st.records)
    /\ st.count <= MaxRecords
    /\ \A r \in st.records : EntryOf(r) \in st.order
    /\ \A r \in st.records : r.generation <= st.watermark
    /\ \A r, q \in st.records : r.generation = q.generation => r = q
==============================================================================
