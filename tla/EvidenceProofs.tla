---------------------------- MODULE EvidenceProofs ----------------------------
(***************************************************************************)
(* The evidence store and the service around it: the store's bookkeeping is *)
(* exact, what the engine publishes next is accepted, a revision withdraws  *)
(* what was known, a gate reads the last word, and what was acknowledged is  *)
(* in the state file, through failed saves, crashes and restarts.            *)
(***************************************************************************)
EXTENDS EvidenceService, FiniteSetTheorems, TLAPS

------------------------------------------------------------------------------
(* The oldest and the newest record. *)

LEMMA LeastNatural ==
    ASSUME NEW T \in SUBSET Nat, T # {}
    PROVE  \E m \in T : \A n \in T : m <= n
  <1>1. \E m \in T : \A n \in T : ~(<<n, m>> \in OpToRel(<, Nat))
    BY NatLessThanWellFounded, WFMin
  <1>2. \A m, n \in Nat : n < m => <<n, m>> \in OpToRel(<, Nat)  BY DEF OpToRel
  <1>3. PICK m \in T : \A n \in T : ~(<<n, m>> \in OpToRel(<, Nat))  BY <1>1
  <1>4. ASSUME NEW n \in T PROVE m <= n
    <2>1. m \in Nat /\ n \in Nat /\ ~(n < m)  BY <1>2, <1>3
    <2> QED  BY <2>1
  <1> QED  BY <1>3, <1>4

LEMMA OldestExists ==
    ASSUME NEW S, S # {}, \A r \in S : r.generation \in Nat
    PROVE  \E r \in S : \A q \in S : r.generation <= q.generation
  <1> DEFINE T == {r.generation : r \in S}
  <1>1. T \in SUBSET Nat /\ T # {}  OBVIOUS
  <1>2. PICK m \in T : \A n \in T : m <= n  BY <1>1, LeastNatural
  <1> QED  BY <1>2

\* The generations of a bucket are bounded, by the watermark or by the allocator, so
\* it has a newest record, and that is what Newest returns.
LEMMA NewestExists ==
    ASSUME NEW S, S # {}, NEW bound \in Nat,
           \A r \in S : r.generation \in Nat /\ r.generation <= bound
    PROVE  Newest(S) \in S /\ \A q \in S : q.generation <= Newest(S).generation
  <1> DEFINE T == {n \in Nat : \A r \in S : r.generation <= n}
  <1>1. T \in SUBSET Nat /\ T # {}  OBVIOUS
  <1>2. PICK m \in T : \A n \in T : m <= n  BY <1>1, LeastNatural
  <1>3. \E r \in S : r.generation = m
    <2>1. SUFFICES ASSUME \A r \in S : r.generation # m PROVE FALSE  OBVIOUS
    <2>2. m \in Nat /\ \A r \in S : r.generation < m  BY <2>1
    <2>3. m - 1 \in T  BY <2>2
    <2> QED  BY <1>2, <2>2, <2>3
  <1>4. \E r \in S : \A q \in S : q.generation <= r.generation  BY <1>3
  <1> QED  BY <1>4 DEF Newest

------------------------------------------------------------------------------
(* What the operations do to one store. *)

\* Room is made only in a full store, by the oldest record.
LEMMA VictimsAreOldest ==
    ASSUME NEW st \in Store, Consistent(st)
    PROVE  /\ Victims(st) \in SUBSET st.records
           /\ IsFiniteSet(Victims(st)) /\ Cardinality(Victims(st)) \in Nat
           /\ Cardinality(Victims(st)) <= st.count
           /\ Victims(st) # {} <=> st.count = MaxRecords
           /\ \A r \in Victims(st), q \in st.records \ Victims(st) : r.generation < q.generation
  <1> DEFINE older(e) == {r \in st.records : EntryOf(r) \in st.order /\ r.generation < e.generation}
  <1>1. Victims(st) \in SUBSET st.records  BY DEF Victims
  <1>2. IsFiniteSet(st.records) /\ st.count = Cardinality(st.records) /\ st.count <= MaxRecords
    BY DEF Consistent
  <1>3. st.count \in Nat /\ MaxRecords \in Nat /\ MaxRecords >= 1
    BY MaxRecordsAssumption DEF Store
  <1>4. \A r \in st.records : r.generation \in Nat /\ EntryOf(r) \in st.order
    BY DEF Store, Record, Consistent
  <1>5. \A e : /\ older(e) \in SUBSET st.records
               /\ IsFiniteSet(older(e)) /\ Cardinality(older(e)) \in Nat
               /\ (Cardinality(older(e)) = 0 <=> older(e) = {})
    <2>1. SUFFICES ASSUME NEW e
                   PROVE  /\ older(e) \in SUBSET st.records
                          /\ IsFiniteSet(older(e)) /\ Cardinality(older(e)) \in Nat
                          /\ (Cardinality(older(e)) = 0 <=> older(e) = {})
      OBVIOUS
    <2>2. older(e) \in SUBSET st.records  OBVIOUS
    <2> HIDE DEF older
    <2>3. IsFiniteSet(older(e))  BY <1>2, <2>2, FS_Subset
    <2> QED  BY <2>2, <2>3, FS_CardinalityType, FS_EmptySet
  <1>6. \A e : e \in Popped(st) <=> e \in st.order /\ st.count - Cardinality(older(e)) >= MaxRecords
    BY DEF Popped
  <1>7. \A e \in Popped(st) : st.count = MaxRecords /\ older(e) = {}
    <2> HIDE DEF older
    <2> QED  BY <1>2, <1>3, <1>5, <1>6
  <1>8. \A r \in Victims(st) : /\ st.count = MaxRecords
                               /\ \A q \in st.records : r.generation <= q.generation
    <2>1. SUFFICES ASSUME NEW r \in Victims(st), NEW q \in st.records
                   PROVE  st.count = MaxRecords /\ r.generation <= q.generation
      BY <1>7 DEF Victims
    <2>2. st.count = MaxRecords /\ older(EntryOf(r)) = {}  BY <1>7 DEF Victims
    <2>3. ~(q.generation < r.generation)  BY <1>4, <2>2 DEF EntryOf
    <2> QED  BY <1>1, <1>4, <2>2, <2>3
  <1>9. ASSUME st.count = MaxRecords PROVE Victims(st) # {}
    <2>1. st.records # {}
      <3>1. SUFFICES ASSUME st.records = {} PROVE FALSE  OBVIOUS
      <3>2. Cardinality(st.records) = 0  BY <3>1, FS_EmptySet
      <3>3. MaxRecords = 0  BY <1>2, <1>9, <3>2
      <3> QED  BY <1>3, <3>3
    <2>2. PICK r \in st.records : \A q \in st.records : r.generation <= q.generation
      BY <1>4, <2>1, OldestExists
    <2>3. older(EntryOf(r)) = {}
      <3>1. \A q \in st.records : ~(q.generation < r.generation)  BY <1>4, <2>2
      <3> QED  BY <3>1 DEF EntryOf
    <2>4. EntryOf(r) \in Popped(st)
      <3>1. Cardinality(older(EntryOf(r))) = 0  BY <2>3, FS_EmptySet
      <3> HIDE DEF older
      <3> QED  BY <1>3, <1>4, <1>6, <1>9, <3>1
    <2> QED  BY <2>4 DEF Victims
  <1>10. /\ IsFiniteSet(Victims(st)) /\ Cardinality(Victims(st)) \in Nat
         /\ Cardinality(Victims(st)) <= st.count
    BY <1>1, <1>2, FS_Subset, FS_CardinalityType
  <1>11. ASSUME NEW r \in Victims(st), NEW q \in st.records \ Victims(st)
         PROVE  r.generation < q.generation
    <2>1. r \in st.records /\ q \in st.records /\ r # q  BY <1>1
    <2>2. r.generation # q.generation  BY <2>1 DEF Consistent
    <2> QED  BY <1>4, <1>8, <2>1, <2>2
  <1> QED  BY <1>1, <1>8, <1>9, <1>10, <1>11

LEMMA PublishKeeps ==
    ASSUME NEW st \in Store, Consistent(st), NEW r \in Record, st.watermark < r.generation
    PROVE  /\ Publish(st, r) \in Store
           /\ Consistent(Publish(st, r))
           /\ Publish(st, r).records = (st.records \ Victims(st)) \cup {r}
           /\ Publish(st, r).count + Publish(st, r).dropped = st.count + st.dropped + 1
           /\ Publish(st, r).watermark = r.generation
  <1> DEFINE V == Victims(st)
             n == Cardinality(V)
             recs == (st.records \ V) \cup {r}
             ord == (st.order \ Popped(st)) \cup {EntryOf(r)}
             pub == Publish(st, r)
  <1>1. /\ V \in SUBSET st.records /\ n \in Nat /\ n <= st.count /\ IsFiniteSet(V)
        /\ V # {} <=> st.count = MaxRecords
    BY VictimsAreOldest
  <1>2. /\ IsFiniteSet(st.records) /\ st.count = Cardinality(st.records)
        /\ st.count <= MaxRecords /\ st.count \in Nat /\ st.dropped \in Nat /\ MaxRecords \in Nat
    BY MaxRecordsAssumption DEF Consistent, Store
  <1>3. r.generation \in Nat /\ r.generation # 0  BY DEF Record
  <1>4. \A q \in st.records : q \in Record /\ q.generation \in Nat /\ q.generation < r.generation
    BY <1>3 DEF Store, Record, Consistent
  <1>5. r \notin st.records  BY <1>3, <1>4
  <1>6. IsFiniteSet(st.records \ V) /\ Cardinality(st.records \ V) = st.count - n
    <2>1. st.records \cap V = V  BY <1>1
    <2>2. /\ IsFiniteSet(st.records \ V)
          /\ Cardinality(st.records \ V) = Cardinality(st.records) - Cardinality(st.records \cap V)
      <3> HIDE DEF V
      <3> QED  BY <1>2, FS_Difference
    <2> QED  BY <1>2, <2>1, <2>2
  <1>7. IsFiniteSet(recs) /\ Cardinality(recs) = st.count - n + 1
    BY <1>5, <1>6, FS_AddElement
  <1>8. st.count - n + 1 <= MaxRecords
    <2>1. CASE st.count = MaxRecords
      <3>1. n # 0  BY <1>1, <2>1, FS_EmptySet
      <3> HIDE DEF n
      <3> QED  BY <1>1, <1>2, <3>1
    <2>2. CASE st.count # MaxRecords
      <3> HIDE DEF n
      <3> QED  BY <1>1, <1>2, <2>2
    <2> QED  BY <2>1, <2>2
  <1>9. EntryOf(r) \in Entry
    BY <1>3 DEF EntryOf, Entry, KeyOf, Record, Subject
  <1>10. pub = [records |-> recs, order |-> ord, count |-> st.count - n + 1,
                dropped |-> st.dropped + n, watermark |-> r.generation]
    BY DEF Publish
  <1>11. recs \in SUBSET Record /\ ord \in SUBSET Entry  BY <1>4, <1>9 DEF Store
  <1>12. \A q \in recs : EntryOf(q) \in ord
    BY DEF Consistent, Victims
  <1>13. \A q \in recs : q.generation <= r.generation  BY <1>3, <1>4
  <1>14. \A q, u \in recs : q.generation = u.generation => q = u
    BY <1>3, <1>4 DEF Consistent
  <1>15. /\ pub.records = recs /\ pub.order = ord /\ pub.count = st.count - n + 1
         /\ pub.dropped = st.dropped + n /\ pub.watermark = r.generation
    BY <1>10
  <1>16. st.count - n + 1 \in Nat /\ st.dropped + n \in Nat
    <2> HIDE DEF n
    <2> QED  BY <1>1, <1>2
  <1> HIDE DEF n, recs, ord
  <1>17. pub \in Store  BY <1>3, <1>10, <1>11, <1>16 DEF Store
  <1> HIDE DEF pub
  <1>18. Consistent(pub)
    BY <1>7, <1>8, <1>12, <1>13, <1>14, <1>15 DEF Consistent
  <1>19. pub.count + pub.dropped = st.count + st.dropped + 1  BY <1>1, <1>2, <1>15
  <1> QED  BY <1>15, <1>17, <1>18, <1>19 DEF pub, recs

LEMMA WithdrawKeeps ==
    ASSUME NEW st \in Store, Consistent(st), NEW gone \in SUBSET st.records
    PROVE  /\ Withdraw(st, gone) \in Store
           /\ Consistent(Withdraw(st, gone))
           /\ Withdraw(st, gone).records = st.records \ gone
           /\ Withdraw(st, gone).count + Withdraw(st, gone).dropped = st.count + st.dropped
           /\ Withdraw(st, gone).watermark = st.watermark
  <1> DEFINE n == Cardinality(gone)
             recs == st.records \ gone
             ord == {e \in st.order : \E r \in st.records \ gone : KeyOf(r) = e.key}
             w == Withdraw(st, gone)
  <1>1. /\ IsFiniteSet(st.records) /\ st.count = Cardinality(st.records)
        /\ st.count <= MaxRecords /\ st.count \in Nat /\ st.dropped \in Nat
        /\ MaxRecords \in Nat /\ st.watermark \in Nat
    BY MaxRecordsAssumption DEF Consistent, Store
  <1>2. n \in Nat /\ n <= st.count  BY <1>1, FS_Subset, FS_CardinalityType
  <1>3. IsFiniteSet(recs) /\ Cardinality(recs) = st.count - n
    <2>1. st.records \cap gone = gone  OBVIOUS
    <2>2. /\ IsFiniteSet(st.records \ gone)
          /\ Cardinality(st.records \ gone)
               = Cardinality(st.records) - Cardinality(st.records \cap gone)
      BY <1>1, FS_Difference
    <2> QED  BY <1>1, <2>1, <2>2
  <1>4. w = [records |-> recs, order |-> ord, count |-> st.count - n,
             dropped |-> st.dropped + n, watermark |-> st.watermark]
    BY DEF Withdraw
  <1>5. recs \in SUBSET Record /\ ord \in SUBSET Entry  BY DEF Store
  <1>6. \A q \in recs : EntryOf(q) \in ord  BY DEF Consistent, EntryOf
  <1>7. \A q \in recs : q.generation <= st.watermark  BY DEF Consistent
  <1>8. \A q, u \in recs : q.generation = u.generation => q = u  BY DEF Consistent
  <1> HIDE DEF n, recs, ord
  <1>9. w \in Store  BY <1>1, <1>2, <1>4, <1>5 DEF Store
  <1>10. /\ w.records = recs /\ w.order = ord /\ w.count = st.count - n
         /\ w.dropped = st.dropped + n /\ w.watermark = st.watermark
    BY <1>4
  <1> HIDE DEF w
  <1>11. Consistent(w)
    BY <1>1, <1>2, <1>3, <1>6, <1>7, <1>8, <1>10 DEF Consistent
  <1>12. w.count + w.dropped = st.count + st.dropped  BY <1>1, <1>2, <1>10
  <1> QED  BY <1>9, <1>10, <1>11, <1>12 DEF w, recs

\* A saved set of records with generations of their own, below the saved allocator.
LEMMA RestoreKeeps ==
    ASSUME NEW records \in SUBSET Record, IsFiniteSet(records), Restorable(records),
           NEW bound \in Nat \ {0}, \A r \in records : r.generation < bound,
           \A r, q \in records : r.generation = q.generation => r = q
    PROVE  /\ Restore(records) \in Store
           /\ Consistent(Restore(records))
           /\ Restore(records).records = records
           /\ Restore(records).count = Cardinality(records) /\ Restore(records).dropped = 0
           /\ Restore(records).watermark < bound
  <1> DEFINE ord == {EntryOf(r) : r \in records}
             wm == IF records = {} THEN 0 ELSE Newest(records).generation
             st == Restore(records)
  <1>1. st = [records |-> records, order |-> ord, count |-> Cardinality(records),
              dropped |-> 0, watermark |-> wm]
    BY DEF Restore
  <1>2. \A r \in records : r.generation \in Nat /\ r.generation <= bound  BY DEF Record
  <1>3. wm \in Nat /\ wm < bound /\ \A r \in records : r.generation <= wm
    <2>1. CASE records = {}  BY <2>1
    <2>2. CASE records # {}
      <3>1. Newest(records) \in records /\ \A q \in records : q.generation <= Newest(records).generation
        BY <1>2, <2>2, NewestExists
      <3> QED  BY <1>2, <2>2, <3>1
    <2> QED  BY <2>1, <2>2
  <1>4. Cardinality(records) \in Nat  BY FS_CardinalityType
  <1>5. ord \in SUBSET Entry
    <2>1. \A r \in records : EntryOf(r) \in Entry
      BY DEF EntryOf, Entry, KeyOf, Record, Subject
    <2> QED  BY <2>1
  <1>6. \A r \in records : EntryOf(r) \in ord  OBVIOUS
  <1> HIDE DEF ord, wm
  <1>7. st \in Store  BY <1>1, <1>3, <1>4, <1>5 DEF Store
  <1>8. /\ st.records = records /\ st.order = ord /\ st.count = Cardinality(records)
        /\ st.dropped = 0 /\ st.watermark = wm
    BY <1>1
  <1> HIDE DEF st
  <1>9. Consistent(st)  BY <1>3, <1>6, <1>8 DEF Consistent, Restorable
  <1> QED  BY <1>3, <1>7, <1>8, <1>9 DEF st

------------------------------------------------------------------------------
(* The inductive invariant of the service. *)

\* What a registry, a set of records and an allocator, in memory or in the state file,
\* agree on: a record was published for a registered version, under a generation of its
\* own; when that was before the last revision or revalidation, about a generation the
\* version had not reached then and has not passed since.
Sound(reg, recs, allocator) ==
    /\ \A v \in Versions : reg[v] = Unregistered \/ reg[v].round >= 1
    /\ \A r \in recs :
        /\ r.round >= 1 /\ r.round <= reg[r.subject.version].round
        /\ r.reached <= reg[r.subject.version].generation
        /\ r.round < reg[r.subject.version].round =>
                /\ r.reached < r.subject.model_generation
                /\ reg[r.subject.version].generation <= r.subject.model_generation
        /\ r.generation < allocator
    /\ \A r, q \in recs : r.generation = q.generation => r = q

FileSound ==
    file # None =>
        /\ IsFiniteSet(file.evidence)
        /\ file.next >= 1
        /\ \A r \in file.evidence : r.kind \in DurableKinds
        /\ Sound(file.registry, file.evidence, file.next)

\* The round of v that a restart would find.
OnDisk(v) == IF file = None THEN 0 ELSE file.registry[v].round

\* When nothing is left to save, the file is up to date.
InSync ==
    /\ saved <= sequence
    /\ sequence = saved => lost \/ \A v \in Versions : registry[v].round <= OnDisk(v)

\* What was published since the start and is no longer stored is older than everything
\* that is stored about its very subject: the oldest are evicted, and a withdrawal takes
\* every record about a subject or none.
IssuedSound(iss, recs, allocator) ==
    /\ recs \subseteq iss
    /\ \A q \in iss : q.generation < allocator
    /\ \A q \in iss \ recs, r \in recs :
        q.subject = r.subject => q.generation < r.generation

EvidenceInv ==
    /\ TypeOK
    /\ StoreConsistent
    /\ DropsAreVisible
    /\ NextPublicationAccepted
    /\ AcknowledgedIsOnDisk
    /\ Sound(registry, store.records, next)
    /\ FileSound
    /\ InSync
    /\ IssuedSound(issued, store.records, next)

LEMMA EmptyStoreFacts ==
    /\ EmptyStore \in Store /\ Consistent(EmptyStore)
    /\ EmptyStore.records = {} /\ EmptyStore.count = 0 /\ EmptyStore.dropped = 0
    /\ EmptyStore.watermark = 0
  <1>1. /\ EmptyStore.records = {} /\ EmptyStore.count = 0 /\ EmptyStore.dropped = 0
        /\ EmptyStore.watermark = 0
    BY DEF EmptyStore
  <1>2. Consistent(EmptyStore)  BY <1>1, FS_EmptySet, MaxRecordsAssumption DEF Consistent
  <1>3. EmptyStore \in Store  BY DEF EmptyStore, Store
  <1> QED  BY <1>1, <1>2, <1>3

LEMMA UnregisteredType ==
    /\ Unregistered \in VersionRecord /\ Unregistered.round = 0
    /\ \A n \in VersionRecord : n.round >= 1 => n # Unregistered
  BY DEF Unregistered, VersionRecord

LEMMA EvidenceInit == Init => EvidenceInv
  <1> SUFFICES ASSUME Init PROVE EvidenceInv  OBVIOUS
  <1> USE DEF Init
  <1>1. TypeOK
    <2>1. registry \in [Versions -> VersionRecord] /\ store \in Store /\ issued \subseteq Record
      BY EmptyStoreFacts, UnregisteredType
    <2>2. lost \in BOOLEAN /\ file \in Image \cup {None} /\ sessions \subseteq Boots  OBVIOUS
    <2>3. leases \in [Boots -> {"none", "live", "fenced"}] /\ acked \in [Versions -> Nat]
      OBVIOUS
    <2>4. /\ next \in Nat \ {0} /\ sequence \in Nat /\ saved \in Nat /\ crashes \in Nat
          /\ offered \in Nat /\ mode \in {"serving", "write", "rename", "retry", "down"}
      OBVIOUS
    <2> QED  BY <2>1, <2>2, <2>3, <2>4 DEF TypeOK
  <1>2. StoreConsistent /\ DropsAreVisible /\ NextPublicationAccepted
    BY EmptyStoreFacts DEF StoreConsistent, DropsAreVisible, NextPublicationAccepted
  <1>3. AcknowledgedIsOnDisk  BY DEF AcknowledgedIsOnDisk
  <1>4. Sound(registry, store.records, next)  BY EmptyStoreFacts DEF Sound
  <1>5. FileSound  BY DEF FileSound
  <1>6. InSync  BY UnregisteredType DEF InSync, OnDisk
  <1>7. IssuedSound(issued, store.records, next)  BY EmptyStoreFacts DEF IssuedSound
  <1> QED  BY <1>1, <1>2, <1>3, <1>4, <1>5, <1>6, <1>7 DEF EvidenceInv

------------------------------------------------------------------------------
(* Requests. *)

\* send_reply: a request that leaves the sequence where the last save found it changed
\* no version, so what it acknowledges is on disk.
LEMMA AnswerKeeps ==
    ASSUME EvidenceInv, Answer,
           sequence' \in Nat, sequence <= sequence', sequence' = sequence => registry' = registry,
           registry' \in [Versions -> VersionRecord], leases' \in [Boots -> {"none", "live", "fenced"}],
           sessions' \subseteq Boots, next' \in Nat \ {0},
           store' \in Store, Consistent(store'), store'.watermark < next',
           offered' \in Nat, offered' = store'.count + store'.dropped,
           Sound(registry', store'.records, next'),
           issued' \subseteq Record, IssuedSound(issued', store'.records, next')
    PROVE  EvidenceInv'
  <1>1. TypeOK  BY DEF EvidenceInv
  <1>2. UNCHANGED <<saved, file, crashes, lost>>  BY DEF Answer
  <1>3. [v \in Versions |-> registry'[v].round] \in [Versions -> Nat]  BY DEF VersionRecord
  <1>4. mode' \in {"serving", "write"} /\ acked' \in [Versions -> Nat]
    BY <1>1, <1>3 DEF Answer, TypeOK
  <1>5. TypeOK'  BY <1>1, <1>2, <1>4 DEF TypeOK
  <1>6. saved \in Nat /\ sequence \in Nat /\ saved <= sequence
    BY <1>1 DEF EvidenceInv, TypeOK, InSync
  <1>7. InSync'
    <2>1. saved' <= sequence'  BY <1>2, <1>6
    <2>2. sequence' = saved' => sequence = saved /\ registry' = registry  BY <1>2, <1>6
    <2> QED  BY <1>2, <2>1, <2>2 DEF EvidenceInv, InSync, OnDisk
  <1>8. AcknowledgedIsOnDisk'
    <2>1. CASE sequence' = saved
      <3>1. sequence = saved /\ registry' = registry  BY <1>6, <2>1
      <3>2. \A v \in Versions : acked'[v] = registry[v].round  BY <2>1, <3>1 DEF Answer
      <3> QED  BY <1>2, <3>1, <3>2 DEF EvidenceInv, InSync, OnDisk, AcknowledgedIsOnDisk
    <2>2. CASE sequence' # saved
      BY <1>2, <2>2 DEF EvidenceInv, AcknowledgedIsOnDisk, Answer
    <2> QED  BY <2>1, <2>2
  <1>9. FileSound'  BY <1>2 DEF EvidenceInv, FileSound
  <1> QED
    BY <1>5, <1>7, <1>8, <1>9
       DEF EvidenceInv, StoreConsistent, DropsAreVisible, NextPublicationAccepted

\* A request that only changes the record of one version, and is counted.
LEMMA RegistryRequest ==
    ASSUME EvidenceInv, Answer, Bump, NEW v \in Versions, NEW n \in VersionRecord,
           registry' = [registry EXCEPT ![v] = n], n.round >= 1,
           \A r \in store.records : r.subject.version = v =>
                n.round = registry[v].round /\ n.generation = registry[v].generation,
           UNCHANGED <<store, next, leases, sessions, issued, offered>>
    PROVE  EvidenceInv'
  <1>1. TypeOK  BY DEF EvidenceInv
  <1>2. sequence' \in Nat /\ sequence < sequence'  BY <1>1 DEF Bump, TypeOK
  <1>3. registry' \in [Versions -> VersionRecord]  BY <1>1 DEF TypeOK
  <1>4. Sound(registry', store'.records, next')
    <2>1. \A w \in Versions : registry'[w] = IF w = v THEN n ELSE registry[w]
      BY <1>1 DEF TypeOK
    <2>2. \A r \in store.records : r.subject.version \in Versions
      BY <1>1 DEF TypeOK, Store, Record, Subject
    <2> QED  BY <2>1, <2>2 DEF EvidenceInv, Sound
  <1> QED
    BY <1>1, <1>2, <1>3, <1>4, AnswerKeeps
       DEF EvidenceInv, TypeOK, StoreConsistent, DropsAreVisible, NextPublicationAccepted

LEMMA RegisterVersionKeeps ==
    ASSUME EvidenceInv, NEW v \in Versions, RegisterVersion(v)
    PROVE  EvidenceInv'
  <1> DEFINE n == [generation |-> 1, artifact_generation |-> 1,
                   compatibility_generation |-> 0, round |-> 1]
  <1>1. n \in VersionRecord /\ n.round >= 1  BY DEF VersionRecord
  <1>2. \A r \in store.records : r.subject.version # v
    <2>1. SUFFICES ASSUME NEW r \in store.records, r.subject.version = v PROVE FALSE
      OBVIOUS
    <2>2. registry[v].round = 0
      <3>1. registry[v] = Unregistered  BY DEF RegisterVersion
      <3> QED  BY <3>1, UnregisteredType
    <2>3. r.round >= 1 /\ r.round <= registry[v].round  BY <2>1 DEF EvidenceInv, Sound
    <2>4. r.round \in Nat  BY DEF EvidenceInv, TypeOK, Store, Record
    <2> QED  BY <2>2, <2>3, <2>4
  <1>3. registry' = [registry EXCEPT ![v] = n]  BY DEF RegisterVersion
  <1>4. /\ Answer /\ Bump /\ UNCHANGED <<store, next, leases, sessions, issued, offered>>
    BY DEF RegisterVersion
  <1> HIDE DEF n
  <1> QED  BY <1>1, <1>2, <1>3, <1>4, RegistryRequest

LEMMA PublishCompatibilityKeeps ==
    ASSUME EvidenceInv, NEW v \in Versions, PublishCompatibility(v)
    PROVE  EvidenceInv'
  <1> DEFINE n == [registry[v] EXCEPT !.compatibility_generation = sequence]
  <1>1. registry[v] \in VersionRecord /\ sequence \in Nat  BY DEF EvidenceInv, TypeOK
  <1>2. registry[v].round >= 1  BY DEF PublishCompatibility, EvidenceInv, Sound
  <1>3. /\ n \in VersionRecord /\ n.round = registry[v].round
        /\ n.generation = registry[v].generation
    BY <1>1 DEF VersionRecord
  <1>4. registry' = [registry EXCEPT ![v] = n]  BY DEF PublishCompatibility
  <1> HIDE DEF n
  <1>6. /\ Answer /\ Bump /\ UNCHANGED <<store, next, leases, sessions, issued, offered>>
    BY DEF PublishCompatibility
  <1> QED  BY <1>2, <1>3, <1>4, <1>6, RegistryRequest

\* revise_version and revalidate: a record of the version that the withdrawal leaves is
\* about a generation past the one the version had.
LEMMA RoundRequest ==
    ASSUME EvidenceInv, Answer, Bump, NEW v \in Versions, NEW n \in VersionRecord,
           registry' = [registry EXCEPT ![v] = n], n.round = registry[v].round + 1,
           n.generation \in {registry[v].generation, registry[v].generation + 1},
           store' = InvalidateModelGeneration(store, v, registry[v].generation + 1),
           UNCHANGED <<next, leases, sessions, issued, offered>>
    PROVE  EvidenceInv'
  <1> DEFINE gone == {r \in store.records : r.subject.version = v
                          /\ r.subject.model_generation < registry[v].generation + 1}
  <1>1. TypeOK /\ Consistent(store)  BY DEF EvidenceInv, StoreConsistent
  <1>2. sequence' \in Nat /\ sequence < sequence'  BY <1>1 DEF Bump, TypeOK
  <1>3. /\ store' \in Store /\ Consistent(store') /\ store'.records = store.records \ gone
        /\ store'.count + store'.dropped = store.count + store.dropped
        /\ store'.watermark = store.watermark
    <2>1. store' = Withdraw(store, gone) /\ gone \in SUBSET store.records
      BY DEF InvalidateModelGeneration
    <2> HIDE DEF gone
    <2> QED  BY <1>1, <2>1, WithdrawKeeps DEF TypeOK
  <1>4. \A r \in store.records :
            /\ r.subject.version \in Versions /\ r.subject.model_generation \in Nat
            /\ r.round \in Nat /\ r.reached \in Nat
    BY <1>1 DEF TypeOK, Store, Record, Subject
  <1>5. registry[v].generation \in Nat /\ registry[v].round \in Nat
    BY <1>1 DEF TypeOK, VersionRecord
  <1>6. \A r \in store'.records : r.subject.version = v =>
            registry[v].generation + 1 <= r.subject.model_generation
    BY <1>3, <1>4, <1>5
  <1>7. \A r, q : r \in store'.records /\ q \in store.records \ store'.records =>
            r.subject # q.subject
    BY <1>3
  <1> HIDE DEF gone
  <1>8. \A w \in Versions : registry'[w] = IF w = v THEN n ELSE registry[w]
    BY <1>1 DEF TypeOK
  <1>9. Sound(registry', store'.records, next')
    <2>1. ASSUME NEW w \in Versions
          PROVE  registry'[w] = Unregistered \/ registry'[w].round >= 1
      BY <1>5, <1>8 DEF EvidenceInv, Sound
    <2>2. ASSUME NEW r \in store'.records
          PROVE  /\ r.round >= 1 /\ r.round <= registry'[r.subject.version].round
                 /\ r.reached <= registry'[r.subject.version].generation
                 /\ r.round < registry'[r.subject.version].round =>
                        /\ r.reached < r.subject.model_generation
                        /\ registry'[r.subject.version].generation
                             <= r.subject.model_generation
                 /\ r.generation < next'
      <3>1. r \in store.records  BY <1>3
      <3>2. /\ r.round >= 1 /\ r.round <= registry[r.subject.version].round
            /\ r.reached <= registry[r.subject.version].generation
            /\ r.round < registry[r.subject.version].round =>
                   /\ r.reached < r.subject.model_generation
                   /\ registry[r.subject.version].generation <= r.subject.model_generation
            /\ r.generation < next'
        BY <3>1 DEF EvidenceInv, Sound
      <3>3. CASE r.subject.version # v  BY <1>4, <1>8, <3>1, <3>2, <3>3
      <3>4. CASE r.subject.version = v
        <4>1. registry'[v] = n /\ r.reached \in Nat /\ r.round \in Nat
              /\ r.subject.model_generation \in Nat
          BY <1>4, <1>8, <3>1
        <4>2. registry[v].generation + 1 <= r.subject.model_generation  BY <1>6, <3>4
        <4>3. r.reached <= registry[v].generation /\ r.round <= registry[v].round
          BY <3>2, <3>4
        <4>4. n.round = registry[v].round + 1 /\ r.round <= n.round
          BY <1>5, <4>1, <4>3
        <4>5. r.reached <= n.generation /\ n.generation <= r.subject.model_generation
              /\ r.reached < r.subject.model_generation
          BY <1>5, <4>1, <4>2, <4>3
        <4> QED  BY <3>2, <3>4, <4>1, <4>4, <4>5
      <3> QED  BY <3>3, <3>4
    <2>3. \A r, q \in store'.records : r.generation = q.generation => r = q
      BY <1>3 DEF Consistent
    <2> QED  BY <2>1, <2>2, <2>3 DEF Sound
  <1>10. IssuedSound(issued', store'.records, next')
    <2>1. store'.records \subseteq issued' /\ \A q \in issued' : q.generation < next'
      BY <1>3 DEF EvidenceInv, IssuedSound
    <2>2. ASSUME NEW q \in issued' \ store'.records, NEW r \in store'.records,
                 q.subject = r.subject
          PROVE  q.generation < r.generation
      <3>1. q \in issued \ store.records /\ r \in store.records  BY <1>3, <1>7, <2>2
      <3> QED  BY <2>2, <3>1 DEF EvidenceInv, IssuedSound
    <2> QED  BY <2>1, <2>2 DEF IssuedSound
  <1>11. registry' \in [Versions -> VersionRecord]  BY <1>1 DEF TypeOK
  <1>12. offered' = store'.count + store'.dropped  BY <1>3 DEF EvidenceInv, DropsAreVisible
  <1>13. store'.watermark < next'  BY <1>3 DEF EvidenceInv, NextPublicationAccepted
  <1> QED
    BY <1>1, <1>2, <1>3, <1>9, <1>10, <1>11, <1>12, <1>13, AnswerKeeps DEF TypeOK

LEMMA ReviseVersionKeeps ==
    ASSUME EvidenceInv, NEW v \in Versions, ReviseVersion(v)
    PROVE  EvidenceInv'
  <1>1. registry[v] \in VersionRecord  BY DEF EvidenceInv, TypeOK
  <1>2. PICK replaced \in {0, 1} :
            registry' = [registry EXCEPT
              ![v] = [generation |-> @.generation + 1,
                      artifact_generation |-> @.artifact_generation + replaced,
                      compatibility_generation |-> 0, round |-> @.round + 1]]
    BY DEF ReviseVersion
  <1> DEFINE n == [generation |-> registry[v].generation + 1,
                   artifact_generation |-> registry[v].artifact_generation + replaced,
                   compatibility_generation |-> 0, round |-> registry[v].round + 1]
  <1>3. /\ n \in VersionRecord /\ n.round = registry[v].round + 1
        /\ n.generation = registry[v].generation + 1
    BY <1>1 DEF VersionRecord
  <1>4. registry' = [registry EXCEPT ![v] = n]  BY <1>2
  <1> HIDE DEF n
  <1> QED  BY <1>3, <1>4, RoundRequest DEF ReviseVersion

LEMMA RevalidateKeeps ==
    ASSUME EvidenceInv, NEW v \in Versions, Revalidate(v)
    PROVE  EvidenceInv'
  <1> DEFINE m == [registry[v] EXCEPT !.compatibility_generation = 0]
             n == [m EXCEPT !.round = @ + 1]
  <1>1. registry[v] \in VersionRecord /\ registry \in [Versions -> VersionRecord]
    BY DEF EvidenceInv, TypeOK
  <1>2. m \in VersionRecord  BY <1>1 DEF VersionRecord
  <1>3. registry' = [registry EXCEPT ![v] = n]
    BY <1>1 DEF Revalidate
  <1>5. m.round = registry[v].round /\ m.generation = registry[v].generation
    BY <1>1 DEF VersionRecord
  <1> HIDE DEF m
  <1>4. /\ n \in VersionRecord /\ n.round = registry[v].round + 1
        /\ n.generation = registry[v].generation
    BY <1>2, <1>5 DEF VersionRecord
  <1> HIDE DEF n
  <1> QED  BY <1>3, <1>4, RoundRequest DEF Revalidate

\* Withdrawing what a boot published, from the store and from the history.
LEMMA PublisherWithdrawn ==
    ASSUME EvidenceInv, NEW b \in Boots, store' = InvalidatePublisherBoot(store, b),
           issued' = {r \in issued : r.boot # b}, UNCHANGED <<registry, next, offered>>
    PROVE  /\ store' \in Store /\ Consistent(store')
           /\ store'.watermark < next' /\ offered' = store'.count + store'.dropped
           /\ Sound(registry', store'.records, next')
           /\ issued' \subseteq Record /\ IssuedSound(issued', store'.records, next')
  <1> DEFINE gone == {r \in store.records : r.boot = b}
  <1>1. TypeOK /\ Consistent(store)  BY DEF EvidenceInv, StoreConsistent
  <1>2. store' = Withdraw(store, gone) /\ gone \in SUBSET store.records
    BY BootAssumption DEF InvalidatePublisherBoot
  <1> HIDE DEF gone
  <1>3. /\ store' \in Store /\ Consistent(store') /\ store'.records = store.records \ gone
        /\ store'.count + store'.dropped = store.count + store.dropped
        /\ store'.watermark = store.watermark
    BY <1>1, <1>2, WithdrawKeeps DEF TypeOK
  <1>4. Sound(registry', store'.records, next')  BY <1>3 DEF EvidenceInv, Sound
  <1>5. \A r : r \in store'.records <=> r \in store.records /\ r.boot # b  BY <1>3 DEF gone
  <1>6. IssuedSound(issued', store'.records, next')
    BY <1>5 DEF EvidenceInv, IssuedSound
  <1>7. issued' \subseteq Record  BY <1>1 DEF TypeOK
  <1>8. offered' = store'.count + store'.dropped  BY <1>3 DEF EvidenceInv, DropsAreVisible
  <1>9. store'.watermark < next'  BY <1>3 DEF EvidenceInv, NextPublicationAccepted
  <1> QED  BY <1>3, <1>4, <1>6, <1>7, <1>8, <1>9

\* A request that leaves the versions and the evidence alone.
LEMMA WorkerRequest ==
    ASSUME EvidenceInv, Answer, sequence' \in Nat, sequence <= sequence',
           leases' \in [Boots -> {"none", "live", "fenced"}], sessions' \subseteq Boots,
           UNCHANGED <<registry, store, next, issued, offered>>
    PROVE  EvidenceInv'
  <1>1. TypeOK  BY DEF EvidenceInv
  <1>2. /\ next' \in Nat \ {0} /\ store' \in Store /\ offered' \in Nat /\ issued' \subseteq Record
        /\ registry' \in [Versions -> VersionRecord]
    BY <1>1 DEF TypeOK
  <1>3. /\ Consistent(store') /\ store'.watermark < next'
        /\ offered' = store'.count + store'.dropped
        /\ Sound(registry', store'.records, next') /\ IssuedSound(issued', store'.records, next')
    BY DEF EvidenceInv, StoreConsistent, DropsAreVisible, NextPublicationAccepted
  <1> QED  BY <1>2, <1>3, AnswerKeeps

LEMMA RegisterWorkerKeeps ==
    ASSUME EvidenceInv, NEW b \in Boots, RegisterWorker(b)
    PROVE  EvidenceInv'
  <1>1. TypeOK  BY DEF EvidenceInv
  <1>2. sequence' \in Nat /\ sequence <= sequence'
    BY <1>1 DEF RegisterWorker, Bump, TypeOK
  <1>3. leases' \in [Boots -> {"none", "live", "fenced"}] /\ sessions' \subseteq Boots
    BY <1>1 DEF RegisterWorker, TypeOK
  <1> QED  BY <1>2, <1>3, WorkerRequest DEF RegisterWorker

LEMMA CloseSessionKeeps ==
    ASSUME EvidenceInv, NEW b \in Boots, CloseSession(b)
    PROVE  EvidenceInv'
  <1>1. TypeOK  BY DEF EvidenceInv
  <1>2. sessions' \subseteq Boots  BY <1>1 DEF CloseSession, TypeOK
  <1>3. Answer /\ FenceWorker(b) /\ UNCHANGED <<registry, next, offered>>  BY DEF CloseSession
  <1>4. CASE leases[b] = "live"
    <2>1. /\ leases' = [leases EXCEPT ![b] = "fenced"]
          /\ store' = InvalidatePublisherBoot(store, b)
          /\ issued' = {r \in issued : r.boot # b} /\ sequence' = sequence + 1
      BY <1>3, <1>4 DEF FenceWorker
    <2>2. /\ store' \in Store /\ Consistent(store')
          /\ store'.watermark < next' /\ offered' = store'.count + store'.dropped
          /\ Sound(registry', store'.records, next')
          /\ issued' \subseteq Record /\ IssuedSound(issued', store'.records, next')
      BY <1>3, <2>1, PublisherWithdrawn
    <2>3. /\ leases' \in [Boots -> {"none", "live", "fenced"}]
          /\ sequence' \in Nat /\ sequence < sequence' /\ next' \in Nat \ {0} /\ offered' \in Nat
          /\ registry' \in [Versions -> VersionRecord]
      BY <1>1, <1>3, <2>1 DEF TypeOK
    <2>4. sequence <= sequence'  BY <1>1, <2>1 DEF TypeOK
    <2> QED  BY <1>2, <1>3, <2>2, <2>3, <2>4, AnswerKeeps
  <1>5. CASE leases[b] # "live"
    <2>1. UNCHANGED <<leases, store, issued, sequence>>  BY <1>3, <1>5 DEF FenceWorker
    <2>2. sequence' \in Nat /\ sequence <= sequence'
          /\ leases' \in [Boots -> {"none", "live", "fenced"}]
      BY <1>1, <2>1 DEF TypeOK
    <2> QED  BY <1>2, <1>3, <2>1, <2>2, WorkerRequest
  <1> QED  BY <1>4, <1>5

LEMMA ExpirePublisherEvidenceKeeps ==
    ASSUME EvidenceInv, NEW b \in Boots, ExpirePublisherEvidence(b)
    PROVE  EvidenceInv'
  <1>1. TypeOK  BY DEF EvidenceInv
  <1>2. /\ Answer /\ store' = InvalidatePublisherBoot(store, b)
        /\ issued' = {r \in issued : r.boot # b}
        /\ UNCHANGED <<registry, next, leases, sessions, offered>>
    BY DEF ExpirePublisherEvidence
  <1>3. sequence' \in Nat /\ sequence <= sequence'
    BY <1>1 DEF ExpirePublisherEvidence, Bump, TypeOK
  <1>4. /\ store' \in Store /\ Consistent(store')
        /\ store'.watermark < next' /\ offered' = store'.count + store'.dropped
        /\ Sound(registry', store'.records, next')
        /\ issued' \subseteq Record /\ IssuedSound(issued', store'.records, next')
    BY <1>2, PublisherWithdrawn
  <1>5. /\ leases' \in [Boots -> {"none", "live", "fenced"}] /\ sessions' \subseteq Boots
        /\ next' \in Nat \ {0} /\ offered' \in Nat /\ registry' \in [Versions -> VersionRecord]
    BY <1>1, <1>2 DEF TypeOK
  <1> QED  BY <1>2, <1>3, <1>4, <1>5, AnswerKeeps

\* publish_evidence: the new record is the newest; the ones that made room were the oldest.
LEMMA PublishEvidenceKeeps ==
    ASSUME EvidenceInv, NEW b \in Boots \cup {NoBoot}, NEW v \in Versions,
           NEW p \in Publications, PublishEvidence(b, v, p)
    PROVE  EvidenceInv'
  <1> DEFINE r == [generation |-> next, kind |-> p.kind, verdict |-> p.verdict,
                   subject |-> CompleteSubject(v, p), boot |-> b, round |-> registry[v].round,
                   reached |-> registry[v].generation]
             n == registry[v]
  <1>1. TypeOK /\ Consistent(store)  BY DEF EvidenceInv, StoreConsistent
  <1>2. n \in VersionRecord /\ next \in Nat \ {0}  BY <1>1 DEF TypeOK
  <1>3. /\ p.model_generation \in Nat /\ p.artifact_generation \in Nat
        /\ p.compatibility_generation \in Nat
        /\ p.scope \in Scopes /\ p.stage_generation \in Nat
        /\ p.kind \in Kinds /\ p.verdict \in Verdicts
    BY PublicationsAssumption
  <1>4. /\ CompleteSubject(v, p) \in Subject
        /\ CompleteSubject(v, p).version = v
    BY <1>2, <1>3 DEF CompleteSubject, Filled, Subject, VersionRecord
  <1>5. r \in Record  BY <1>2, <1>3, <1>4 DEF Record, VersionRecord
  <1>6. /\ r.generation = next /\ r.round = n.round /\ r.subject.version = v
        /\ r.reached = n.generation
    BY <1>4
  <1>7. /\ Answer /\ store' = Publish(store, r) /\ next' = next + 1
        /\ issued' = issued \cup {r} /\ offered' = offered + 1
        /\ UNCHANGED <<registry, sequence, leases, sessions>> /\ n # Unregistered
    BY DEF PublishEvidence
  <1> HIDE DEF r
  <1>8. /\ store' \in Store /\ Consistent(store')
        /\ store'.records = (store.records \ Victims(store)) \cup {r}
        /\ store'.count + store'.dropped = store.count + store.dropped + 1
        /\ store'.watermark = r.generation
    BY <1>1, <1>5, <1>6, <1>7, PublishKeeps DEF TypeOK, EvidenceInv, NextPublicationAccepted
  <1>9. \A q \in issued : q.generation \in Nat /\ q.generation < next
    BY <1>1 DEF TypeOK, Record, EvidenceInv, IssuedSound
  <1>10. \A q \in store.records : q.generation \in Nat /\ q.generation < next
    BY <1>1 DEF TypeOK, Store, Record, EvidenceInv, Sound
  <1>11. Sound(registry', store'.records, next')
    <2>1. n.round >= 1  BY <1>7 DEF EvidenceInv, Sound
    <2>2. \A q \in store'.records : q.generation < next'  BY <1>2, <1>6, <1>7, <1>8, <1>10
    <2>3. \A q, u \in store'.records : q.generation = u.generation => q = u
      BY <1>8 DEF Consistent
    <2>4. ASSUME NEW q \in store'.records
          PROVE  /\ q.round >= 1 /\ q.round <= registry'[q.subject.version].round
                 /\ q.reached <= registry'[q.subject.version].generation
                 /\ q.round < registry'[q.subject.version].round =>
                        /\ q.reached < q.subject.model_generation
                        /\ registry'[q.subject.version].generation
                             <= q.subject.model_generation
      <3>1. CASE q = r  BY <1>2, <1>6, <1>7, <2>1, <3>1 DEF VersionRecord
      <3>2. CASE q # r
        <4>1. q \in store.records  BY <1>8, <3>2
        <4> QED  BY <1>7, <4>1 DEF EvidenceInv, Sound
      <3> QED  BY <3>1, <3>2
    <2> QED  BY <1>7, <2>2, <2>3, <2>4 DEF EvidenceInv, Sound
  <1>12. IssuedSound(issued', store'.records, next')
    <2>1. store'.records \subseteq issued'
      BY <1>7, <1>8 DEF EvidenceInv, IssuedSound
    <2>2. \A q \in issued' : q.generation < next'  BY <1>2, <1>6, <1>7, <1>9
    <2>3. ASSUME NEW q \in issued' \ store'.records, NEW u \in store'.records,
                 q.subject = u.subject
          PROVE  q.generation < u.generation
      <3>1. q \in issued  BY <1>7, <1>8
      <3>2. CASE u = r  BY <1>6, <1>9, <3>1, <3>2
      <3>3. CASE u # r
        <4>1. u \in store.records \ Victims(store)  BY <1>8, <3>3
        <4>2. CASE q \in Victims(store)
          BY <1>1, <4>1, <4>2, VictimsAreOldest DEF TypeOK
        <4>3. CASE q \notin Victims(store)
          BY <1>8, <2>3, <3>1, <4>1, <4>3 DEF EvidenceInv, IssuedSound
        <4> QED  BY <4>2, <4>3
      <3> QED  BY <3>2, <3>3
    <2> QED  BY <2>1, <2>2, <2>3 DEF IssuedSound
  <1>13. /\ sequence' \in Nat /\ sequence <= sequence' /\ next' \in Nat \ {0}
         /\ registry' \in [Versions -> VersionRecord] /\ sessions' \subseteq Boots
         /\ leases' \in [Boots -> {"none", "live", "fenced"}] /\ offered' \in Nat
         /\ issued' \subseteq Record
    BY <1>1, <1>2, <1>5, <1>7 DEF TypeOK
  <1>14. offered' = store'.count + store'.dropped
    BY <1>7, <1>8 DEF EvidenceInv, DropsAreVisible
  <1>15. store'.watermark < next'  BY <1>2, <1>6, <1>7, <1>8
  <1> QED  BY <1>7, <1>8, <1>11, <1>12, <1>13, <1>14, <1>15, AnswerKeeps

------------------------------------------------------------------------------
(* The save. *)

\* A step that touches neither the engine nor the file and acknowledges nothing.
LEMMA QuietKeeps ==
    ASSUME EvidenceInv, sessions' \subseteq Boots,
           mode' \in {"serving", "write", "rename", "retry", "down"},
           UNCHANGED <<engine, saved, file, crashes, history>>
    PROVE  EvidenceInv'
  <1> USE DEF engine, history
  <1>1. TypeOK'  BY DEF EvidenceInv, TypeOK
  <1>2. /\ StoreConsistent' /\ DropsAreVisible' /\ NextPublicationAccepted'
        /\ AcknowledgedIsOnDisk'
    BY DEF EvidenceInv, StoreConsistent, DropsAreVisible, NextPublicationAccepted,
           AcknowledgedIsOnDisk
  <1>3. Sound(registry, store.records, next)' /\ IssuedSound(issued, store.records, next)'
    BY DEF EvidenceInv
  <1>4. FileSound' /\ InSync'  BY DEF EvidenceInv, FileSound, InSync, OnDisk
  <1> QED  BY <1>1, <1>2, <1>3, <1>4 DEF EvidenceInv

\* What is exported is a sound image: of the engine's state it leaves out only the
\* evidence that is not durable and the leases that are live.
LEMMA ExportedSound ==
    ASSUME EvidenceInv
    PROVE  /\ Exported \in Image /\ Exported # None
           /\ Exported.registry = registry
           /\ IsFiniteSet(Exported.evidence) /\ Exported.next >= 1
           /\ \A r \in Exported.evidence : r.kind \in DurableKinds
           /\ Sound(Exported.registry, Exported.evidence, Exported.next)
  <1> DEFINE kept == {r \in store.records : r.kind \in DurableKinds}
             fenced == [b \in Boots |-> IF leases[b] = "none" THEN "none" ELSE "fenced"]
  <1>1. TypeOK /\ Consistent(store)  BY DEF EvidenceInv, StoreConsistent
  <1>2. Exported = [registry |-> registry, evidence |-> kept, next |-> next,
                    sequence |-> sequence, leases |-> fenced]
    BY DEF Exported
  <1>3. kept \in SUBSET Record /\ kept \in SUBSET store.records  BY <1>1 DEF TypeOK, Store
  <1>4. fenced \in [Boots -> {"none", "fenced"}]  OBVIOUS
  <1>5. IsFiniteSet(kept)  BY <1>1, <1>3, FS_Subset DEF Consistent
  <1>6. \A r \in kept : r.kind \in DurableKinds  OBVIOUS
  <1>7. Sound(registry, kept, next)  BY <1>3 DEF EvidenceInv, Sound
  <1> HIDE DEF kept, fenced
  <1>8. Exported \in Image  BY <1>1, <1>2, <1>3, <1>4 DEF Image, TypeOK
  <1>9. /\ Exported.registry = registry /\ Exported.evidence = kept /\ Exported.next = next
    BY <1>2
  <1>10. next >= 1  BY <1>1 DEF TypeOK
  <1> HIDE DEF Exported
  <1> QED  BY <1>5, <1>6, <1>7, <1>8, <1>9, <1>10, NoneAssumption

LEMMA SavedKeeps ==
    ASSUME EvidenceInv, file' = Exported, Saved, lost' \in BOOLEAN,
           UNCHANGED <<engine, sessions, crashes, issued, offered>>
    PROVE  EvidenceInv'
  <1> USE DEF engine
  <1>1. TypeOK  BY DEF EvidenceInv
  <1>2. /\ mode' = "serving" /\ saved' = sequence
        /\ acked' = [v \in Versions |-> registry[v].round]
    BY DEF Saved
  <1>3. acked' \in [Versions -> Nat]  BY <1>1, <1>2 DEF TypeOK, VersionRecord
  <1>4. TypeOK'
    BY <1>1, <1>2, <1>3, ExportedSound DEF TypeOK
  <1>5. StoreConsistent' /\ DropsAreVisible' /\ NextPublicationAccepted'
    BY DEF EvidenceInv, StoreConsistent, DropsAreVisible, NextPublicationAccepted
  <1>6. Sound(registry, store.records, next)' /\ IssuedSound(issued, store.records, next)'
    BY DEF EvidenceInv
  <1>7. FileSound'  BY ExportedSound DEF FileSound
  <1>8. \A v \in Versions : registry[v].round \in Nat  BY <1>1 DEF TypeOK, VersionRecord
  <1>9. file' # None /\ file'.registry = registry  BY ExportedSound
  <1>10. AcknowledgedIsOnDisk'  BY <1>2, <1>8, <1>9 DEF AcknowledgedIsOnDisk
  <1>11. InSync'
    <2>1. sequence \in Nat  BY <1>1 DEF TypeOK
    <2> QED  BY <1>2, <1>8, <1>9, <2>1 DEF InSync, OnDisk
  <1> QED  BY <1>4, <1>5, <1>6, <1>7, <1>10, <1>11 DEF EvidenceInv

LEMMA ReplaceFileKeeps ==
    ASSUME EvidenceInv, ReplaceFile
    PROVE  EvidenceInv'
  <1>1. TypeOK /\ lost \in BOOLEAN  BY DEF EvidenceInv, TypeOK
  <1>2. CASE file' = Exported /\ Saved /\ lost' = lost
    BY <1>1, <1>2, SavedKeeps DEF ReplaceFile
  <1>3. CASE /\ file' \in {file, None} /\ lost' = (lost \/ file' # file)
             /\ mode' = "retry" /\ UNCHANGED <<saved, acked>>
    <2>1. UNCHANGED <<engine, sessions, crashes, issued, offered, saved, acked>>
      BY <1>3 DEF ReplaceFile
    <2> USE DEF engine
    <2>2. CASE file' = file
      <3>1. lost' = lost  BY <1>1, <1>3, <2>2
      <3> QED  BY <1>1, <1>3, <2>1, <2>2, <3>1, QuietKeeps DEF history, TypeOK
    <2>3. CASE file' # file
      <3>1. lost' /\ lost' \in BOOLEAN /\ file' = None  BY <1>3, <2>3
      <3>2. TypeOK'
        BY <1>1, <1>3, <2>1, <3>1 DEF TypeOK
      <3>3. StoreConsistent' /\ DropsAreVisible' /\ NextPublicationAccepted'
        BY <2>1 DEF EvidenceInv, StoreConsistent, DropsAreVisible, NextPublicationAccepted
      <3>4. Sound(registry, store.records, next)' /\ IssuedSound(issued, store.records, next)'
        BY <2>1 DEF EvidenceInv
      <3>5. FileSound' /\ AcknowledgedIsOnDisk'  BY <3>1 DEF FileSound, AcknowledgedIsOnDisk
      <3>6. InSync'  BY <2>1, <3>1 DEF EvidenceInv, InSync
      <3> QED  BY <3>2, <3>3, <3>4, <3>5, <3>6 DEF EvidenceInv
    <2> QED  BY <2>2, <2>3
  <1> QED  BY <1>2, <1>3 DEF ReplaceFile

LEMMA RetryReplaceKeeps ==
    ASSUME EvidenceInv, RetryReplace
    PROVE  EvidenceInv'
  <1>1. sessions \subseteq Boots  BY DEF EvidenceInv, TypeOK
  <1>2. CASE file' = Exported /\ Saved /\ lost' = FALSE
    BY <1>2, SavedKeeps DEF RetryReplace
  <1>3. CASE file' = file /\ SaveFailed /\ lost' = lost
    BY <1>1, <1>3, QuietKeeps DEF RetryReplace, SaveFailed, history, engine
  <1> QED  BY <1>2, <1>3 DEF RetryReplace

LEMMA WriteTemporaryKeeps ==
    ASSUME EvidenceInv, WriteTemporary
    PROVE  EvidenceInv'
  <1>1. sessions \subseteq Boots  BY DEF EvidenceInv, TypeOK
  <1>2. mode' \in {"rename", "serving"} /\ UNCHANGED <<saved, acked>>
    BY DEF WriteTemporary, SaveFailed
  <1> QED  BY <1>1, <1>2, QuietKeeps DEF WriteTemporary, history, engine

------------------------------------------------------------------------------
(* Crash and restart. *)

\* An engine that starts with nothing is sound, whatever the file holds.
LEMMA FirstStartKeeps ==
    ASSUME EvidenceInv, FirstStart, saved' = sequence', issued' = {}, offered' = 0,
           mode' \in {"serving", "down"}, crashes' \in Nat, sessions' \subseteq Boots,
           UNCHANGED <<file, lost, acked>>
    PROVE  EvidenceInv'
  <1>1. /\ registry' = [v \in Versions |-> Unregistered] /\ store' = EmptyStore
        /\ next' = 1 /\ leases' = [b \in Boots |-> "none"] /\ sequence' = 1 /\ saved' = 1
    BY DEF FirstStart
  <1>2. /\ registry' \in [Versions -> VersionRecord] /\ store' \in Store
        /\ leases' \in [Boots -> {"none", "live", "fenced"}]
    BY <1>1, EmptyStoreFacts, UnregisteredType
  <1>3. TypeOK'  BY <1>1, <1>2 DEF EvidenceInv, TypeOK
  <1>4. StoreConsistent' /\ DropsAreVisible' /\ NextPublicationAccepted'
    BY <1>1, EmptyStoreFacts DEF StoreConsistent, DropsAreVisible, NextPublicationAccepted
  <1>5. AcknowledgedIsOnDisk' /\ FileSound'
    BY DEF EvidenceInv, AcknowledgedIsOnDisk, FileSound
  <1>6. Sound(registry, store.records, next)' /\ IssuedSound(issued, store.records, next)'
    BY <1>1, EmptyStoreFacts DEF Sound, IssuedSound
  <1>7. InSync'
    <2>1. \A v \in Versions : OnDisk(v)' \in Nat
      BY <1>3 DEF OnDisk, TypeOK, Image, VersionRecord
    <2> QED  BY <1>1, <2>1, UnregisteredType DEF InSync
  <1> QED  BY <1>3, <1>4, <1>5, <1>6, <1>7 DEF EvidenceInv

LEMMA CrashKeeps ==
    ASSUME EvidenceInv, Crash
    PROVE  EvidenceInv'
  <1>1. crashes' \in Nat  BY DEF Crash, EvidenceInv, TypeOK
  <1> QED  BY <1>1, FirstStartKeeps DEF Crash

\* import_durable_state: the file holds durable records only, so nothing is withdrawn
\* from the restored store, and the allocator is past all of them.
LEMMA ImportKeeps ==
    ASSUME EvidenceInv, file # None, Restorable(file.evidence), Import(file),
           mode' = "serving", saved' = sequence', issued' = store'.records,
           offered' = Cardinality(store'.records), UNCHANGED <<sessions, file, crashes, lost, acked>>
    PROVE  EvidenceInv'
  <1>1. file \in Image  BY DEF EvidenceInv, TypeOK
  <1>2. /\ IsFiniteSet(file.evidence) /\ file.next >= 1
        /\ \A r \in file.evidence : r.kind \in DurableKinds
        /\ Sound(file.registry, file.evidence, file.next)
    BY DEF EvidenceInv, FileSound
  <1>3. /\ file.registry \in [Versions -> VersionRecord] /\ file.evidence \in SUBSET Record
        /\ file.next \in Nat /\ file.sequence \in Nat /\ file.leases \in [Boots -> {"none", "fenced"}]
    BY <1>1 DEF Image
  <1> DEFINE st == Restore(file.evidence)
             gone == {r \in st.records : r.kind \in Kinds \ DurableKinds}
  <1>4. /\ st \in Store /\ Consistent(st) /\ st.records = file.evidence
        /\ st.count = Cardinality(file.evidence) /\ st.dropped = 0 /\ st.watermark < file.next
    <2>1. file.next \in Nat \ {0}  BY <1>2, <1>3
    <2>2. /\ \A r \in file.evidence : r.generation < file.next
          /\ \A r, q \in file.evidence : r.generation = q.generation => r = q
      BY <1>2 DEF Sound
    <2> QED  BY <1>2, <1>3, <2>1, <2>2, RestoreKeeps
  <1>5. gone = {} /\ store' = Withdraw(st, gone)
    <2>1. gone = {}  BY <1>2, <1>4
    <2> QED  BY <2>1 DEF Import, RemoveKinds
  <1> HIDE DEF st, gone
  <1>6. /\ store' \in Store /\ Consistent(store') /\ store'.records = file.evidence
        /\ store'.count + store'.dropped = st.count + st.dropped
        /\ store'.watermark = st.watermark
    <2>1. gone \in SUBSET st.records  BY <1>5
    <2>2. /\ store' \in Store /\ Consistent(store') /\ store'.records = st.records \ gone
          /\ store'.count + store'.dropped = st.count + st.dropped
          /\ store'.watermark = st.watermark
      BY <1>4, <1>5, <2>1, WithdrawKeeps
    <2> QED  BY <1>4, <1>5, <2>2
  <1>7. /\ registry' = file.registry /\ next' = NextAfterImport(file) /\ leases' = file.leases
        /\ sequence' = file.sequence + 2
    BY DEF Import
  <1>8. next' \in Nat \ {0} /\ file.next <= next'
    BY <1>2, <1>3, <1>7 DEF NextAfterImport, Larger
  <1>9. Cardinality(file.evidence) \in Nat  BY <1>2, FS_CardinalityType
  <1>10. leases' \in [Boots -> {"none", "live", "fenced"}]  BY <1>3, <1>7
  <1>11. /\ registry' \in [Versions -> VersionRecord] /\ sequence' \in Nat /\ saved' \in Nat
         /\ issued' \subseteq Record /\ offered' \in Nat
    BY <1>3, <1>6, <1>7, <1>9
  <1>12. TypeOK'  BY <1>6, <1>8, <1>10, <1>11 DEF EvidenceInv, TypeOK
  <1>13. StoreConsistent' /\ DropsAreVisible'
    BY <1>4, <1>6, <1>9 DEF StoreConsistent, DropsAreVisible
  <1>14. NextPublicationAccepted'
    <2>1. st.watermark \in Nat  BY <1>4 DEF Store
    <2> QED  BY <1>3, <1>4, <1>6, <1>8, <2>1 DEF NextPublicationAccepted
  <1>15. AcknowledgedIsOnDisk' /\ FileSound'
    BY DEF EvidenceInv, AcknowledgedIsOnDisk, FileSound
  <1>16. \A r \in file.evidence : r.generation < next'
    <2>1. \A r \in file.evidence : r.generation \in Nat /\ r.generation < file.next
      BY <1>2, <1>3 DEF Sound, Record
    <2> QED  BY <1>3, <1>8, <2>1
  <1>17. Sound(registry, store.records, next)'
    BY <1>2, <1>6, <1>7, <1>16 DEF Sound
  <1>18. IssuedSound(issued, store.records, next)'
    BY <1>6, <1>16 DEF IssuedSound
  <1>19. InSync'
    <2>1. \A v \in Versions : registry'[v].round = OnDisk(v)' /\ registry'[v].round \in Nat
      BY <1>3, <1>7 DEF OnDisk, VersionRecord
    <2> QED  BY <1>11, <2>1 DEF InSync
  <1> QED  BY <1>12, <1>13, <1>14, <1>15, <1>17, <1>18, <1>19 DEF EvidenceInv

LEMMA RestartKeeps ==
    ASSUME EvidenceInv, Restart
    PROVE  EvidenceInv'
  <1>1. CASE file = None
    <2>1. FirstStart /\ store' = EmptyStore  BY <1>1 DEF Restart, FirstStart
    <2>2. issued' = {} /\ offered' = 0  BY <2>1, EmptyStoreFacts, FS_EmptySet DEF Restart
    <2>3. crashes \in Nat /\ sessions \subseteq Boots  BY DEF EvidenceInv, TypeOK
    <2> QED  BY <2>1, <2>2, <2>3, FirstStartKeeps DEF Restart
  <1>2. CASE file # None  BY <1>2, ImportKeeps DEF Restart
  <1> QED  BY <1>1, <1>2

------------------------------------------------------------------------------
(* The theorems. *)

LEMMA EvidenceStep ==
    ASSUME EvidenceInv, [Next]_vars
    PROVE  EvidenceInv'
  <1>0. sessions \subseteq Boots /\ mode \in {"serving", "write", "rename", "retry", "down"}
    BY DEF EvidenceInv, TypeOK
  <1>1. ASSUME NEW b \in Boots, Hello(b) PROVE EvidenceInv'
    <2>1. sessions' \subseteq Boots /\ mode' = mode  BY <1>0, <1>1 DEF Hello
    <2> QED  BY <1>0, <1>1, <2>1, QuietKeeps DEF Hello
  <1>2. CASE EndPoll  BY <1>0, <1>2, QuietKeeps DEF EndPoll
  <1>3. CASE UNCHANGED vars  BY <1>0, <1>3, QuietKeeps DEF vars, engine, history
  <1>4. ASSUME NEW b \in Boots,
               RegisterWorker(b) \/ CloseSession(b) \/ ExpirePublisherEvidence(b)
        PROVE EvidenceInv'
    BY <1>4, RegisterWorkerKeeps, CloseSessionKeeps, ExpirePublisherEvidenceKeeps
  <1>5. ASSUME NEW v \in Versions, \/ RegisterVersion(v) \/ ReviseVersion(v) \/ Revalidate(v)
                                   \/ PublishCompatibility(v)
        PROVE EvidenceInv'
    BY <1>5, RegisterVersionKeeps, ReviseVersionKeeps, RevalidateKeeps, PublishCompatibilityKeeps
  <1>6. CASE WriteTemporary \/ ReplaceFile \/ RetryReplace
    BY <1>6, WriteTemporaryKeeps, ReplaceFileKeeps, RetryReplaceKeeps
  <1>7. CASE Crash \/ Restart  BY <1>7, CrashKeeps, RestartKeeps
  <1> QED
    BY <1>1, <1>2, <1>3, <1>4, <1>5, <1>6, <1>7, PublishEvidenceKeeps DEF Next

LEMMA EvidenceAlways == Spec => []EvidenceInv
  <1>1. EvidenceInv /\ [Next]_vars => EvidenceInv'  BY EvidenceStep
  <1> QED  BY EvidenceInit, <1>1, PTL DEF Spec

\* The variables keep their types; record_count_, which is unsigned in the code, is
\* never decreased below zero by a withdrawal or an eviction.
THEOREM EvidenceTypeCorrect == Spec => []TypeOK
  <1>1. EvidenceInv => TypeOK  BY DEF EvidenceInv
  <1> QED  BY <1>1, EvidenceAlways, PTL

\* record_count_ and eviction_order_ agree with the records after every publication,
\* withdrawal and restore, and the store never exceeds max_records.
THEOREM StoreStaysConsistent == Spec => []StoreConsistent
  <1>1. EvidenceInv => StoreConsistent  BY DEF EvidenceInv
  <1> QED  BY <1>1, EvidenceAlways, PTL

\* Evidence that leaves the store is counted as dropped, also across a restart, which
\* withdraws the volatile kinds from what it restored.
THEOREM DropsStayVisible == Spec => []DropsAreVisible
  <1>1. EvidenceInv => DropsAreVisible  BY DEF EvidenceInv
  <1> QED  BY <1>1, EvidenceAlways, PTL

\* EvidenceStore::publish never refuses the engine: next_evidence_generation stays past
\* the watermark, also when a restart takes both from an older file.
THEOREM PublicationsAccepted == Spec => []NextPublicationAccepted
  <1>1. EvidenceInv => NextPublicationAccepted  BY DEF EvidenceInv
  <1> QED  BY <1>1, EvidenceAlways, PTL

\* revise_version and revalidate leave nothing of what was known of a generation that
\* existed, wherever the process restarted: what outlives them was published about a
\* generation that its version had not reached, and has not passed since.
THEOREM RevisionAlwaysWithdraws == Spec => []RevisionWithdrawsEvidence
  <1>1. EvidenceInv => RevisionWithdrawsEvidence
    BY DEF EvidenceInv, Sound, RevisionWithdrawsEvidence
  <1> QED  BY <1>1, EvidenceAlways, PTL

\* What was acknowledged is in the state file, unless atomic_replace removed the file and
\* its second rename has not followed.
THEOREM AcknowledgedStaysOnDisk == Spec => []AcknowledgedIsOnDisk
  <1>1. EvidenceInv => AcknowledgedIsOnDisk  BY DEF EvidenceInv
  <1> QED  BY <1>1, EvidenceAlways, PTL

\* A requirement that resolves as SATISFIED does so by the newest record of its kind and
\* subject.
LEMMA SatisfiedByNewest ==
    ASSUME NEW st \in Store, Consistent(st), NEW k, NEW subject,
           CheckEvidenceList(st, {Required(k)}, subject)
    PROVE  \E r \in st.records :
                /\ r.kind = k /\ r.subject = subject /\ r.verdict = "Satisfied"
                /\ \A q \in st.records : q.kind = k /\ q.subject = subject
                                           => q.generation <= r.generation
  <1> DEFINE bucket == {r \in st.records : KeyOf(r) = <<subject.version, k>>}
             exact == {r \in bucket : r.subject = subject}
             found == Newest(exact)
  <1>1. /\ Required(k).kind = k /\ Required(k).require_exact_subject = TRUE
        /\ Required(k).required_verdict = "Satisfied"
        /\ Required(k).require_current_publisher = FALSE
    BY DEF Required
  <1>2. Resolve(st, Required(k), subject) = "SATISFIED"  BY DEF CheckEvidenceList
  <1>3. exact # {} /\ found.verdict = "Satisfied"
    <2>1. exact # {}
      BY <1>1, <1>2 DEF Resolve, ClassifyMismatch
    <2>2. found.verdict = "Satisfied"
      BY <1>1, <1>2, <2>1 DEF Resolve, ClassifyMismatch
    <2> QED  BY <2>1, <2>2
  <1>4. /\ st.watermark \in Nat
        /\ \A r \in exact : r.generation \in Nat /\ r.generation <= st.watermark
    BY DEF Store, Record, Consistent
  <1>5. found \in exact /\ \A q \in exact : q.generation <= found.generation
    <2> HIDE DEF exact
    <2> QED  BY <1>3, <1>4, NewestExists
  <1>6. \A q \in st.records : q.kind = k /\ q.subject = subject => q \in exact
    BY DEF KeyOf
  <1>7. found \in st.records /\ found.kind = k /\ found.subject = subject
    BY <1>5 DEF KeyOf
  <1> HIDE DEF found, exact
  <1> QED  BY <1>3, <1>5, <1>6, <1>7

\* A gate that opens was opened by the newest publication about its subject: neither the
\* eviction of a full store nor a withdrawal brings an older verdict back.
THEOREM GatesReadTheLastWord == Spec => []GateReadsTheLastWord
  <1>1. ASSUME EvidenceInv PROVE GateReadsTheLastWord
    <2>1. SUFFICES ASSUME NEW v \in Versions, NEW s \in Scopes, NEW k \in Kinds,
                          CheckEvidenceList(store, {Required(k)}, VersionSubject(v, s))
                   PROVE  \E r \in issued :
                            /\ r.kind = k /\ r.subject = VersionSubject(v, s)
                            /\ r.verdict = "Satisfied"
                            /\ \A q \in issued : q.kind = k /\ q.subject = r.subject
                                                   => q.generation <= r.generation
      BY DEF GateReadsTheLastWord
    <2>2. store \in Store /\ Consistent(store)  BY <1>1 DEF EvidenceInv, TypeOK, StoreConsistent
    <2>3. PICK r \in store.records :
                /\ r.kind = k /\ r.subject = VersionSubject(v, s) /\ r.verdict = "Satisfied"
                /\ \A q \in store.records : q.kind = k /\ q.subject = VersionSubject(v, s)
                                              => q.generation <= r.generation
      BY <2>1, <2>2, SatisfiedByNewest
    <2>4. r \in issued  BY <1>1 DEF EvidenceInv, IssuedSound
    <2>5. ASSUME NEW q \in issued, q.kind = k, q.subject = r.subject
          PROVE  q.generation <= r.generation
      <3>1. q.generation \in Nat /\ r.generation \in Nat
        BY <1>1, <2>4 DEF EvidenceInv, TypeOK, Record
      <3>2. CASE q \in store.records  BY <2>3, <2>5, <3>2
      <3>3. CASE q \notin store.records
        <4>1. q.generation < r.generation  BY <1>1, <2>5, <3>3 DEF EvidenceInv, IssuedSound
        <4> QED  BY <3>1, <4>1
      <3> QED  BY <3>2, <3>3
    <2> QED  BY <2>3, <2>4, <2>5
  <1>2. EvidenceInv => GateReadsTheLastWord  BY <1>1
  <1> QED  BY <1>2, EvidenceAlways, PTL

\* publish drops records only from a full store, and the oldest ones, however many stale
\* entries of withdrawn records the eviction order holds.
THEOREM EvictionTakesTheOldest == Spec => EvictsOldestWhenFull
  <1> DEFINE A == next' = next + 1 /\ mode = "serving" =>
                    \A r \in store.records \ store'.records :
                        /\ store.count = MaxRecords
                        /\ \A q \in store.records \cap store'.records : r.generation < q.generation
  <1>1. ASSUME EvidenceInv, [Next]_vars PROVE A
    <2>1. SUFFICES ASSUME next' = next + 1, mode = "serving",
                          NEW r \in store.records \ store'.records
                   PROVE  /\ store.count = MaxRecords
                          /\ \A q \in store.records \cap store'.records : r.generation < q.generation
      OBVIOUS
    <2>2. next \in Nat \ {0}  BY <1>1 DEF EvidenceInv, TypeOK
    <2>3. next' # next /\ next' # 1  BY <2>1, <2>2
    <2>4. PICK b \in Boots \cup {NoBoot}, v \in Versions, p \in Publications :
            PublishEvidence(b, v, p)
      <3>1. \A b \in Boots : ~Hello(b) /\ ~RegisterWorker(b) /\ ~CloseSession(b)
                             /\ ~ExpirePublisherEvidence(b)
        BY <2>3 DEF Hello, RegisterWorker, CloseSession, ExpirePublisherEvidence, engine
      <3>2. \A v \in Versions : ~RegisterVersion(v) /\ ~ReviseVersion(v) /\ ~Revalidate(v)
                                /\ ~PublishCompatibility(v)
        BY <2>3 DEF RegisterVersion, ReviseVersion, Revalidate, PublishCompatibility
      <3>3. ~EndPoll /\ ~WriteTemporary /\ ~ReplaceFile /\ ~RetryReplace
        BY <2>3 DEF EndPoll, WriteTemporary, ReplaceFile, RetryReplace, engine
      <3>4. ~Crash /\ ~Restart  BY <2>1, <2>3 DEF Crash, FirstStart, Restart
      <3>5. ~UNCHANGED vars  BY <2>3 DEF vars
      <3> QED  BY <1>1, <3>1, <3>2, <3>3, <3>4, <3>5 DEF Next
    <2>5. PICK x : x.generation = next
                   /\ store'.records = (store.records \ Victims(store)) \cup {x}
      BY <2>4 DEF PublishEvidence, Publish
    <2>6. r \in Victims(store)  BY <2>1, <2>5
    <2>7. store \in Store /\ Consistent(store)
      BY <1>1 DEF EvidenceInv, TypeOK, StoreConsistent
    <2>8. x \notin store.records
      <3>1. \A q \in store.records : q.generation \in Nat /\ q.generation < next
        BY <1>1, <2>7 DEF EvidenceInv, Sound, Store, Record
      <3> QED  BY <2>2, <2>5, <3>1
    <2>9. \A q \in store.records \cap store'.records : q \in store.records \ Victims(store)
      BY <2>5, <2>8
    <2> QED  BY <2>6, <2>7, <2>9, VictimsAreOldest
  <1>2. EvidenceInv /\ [Next]_vars => [A]_vars  BY <1>1
  <1> QED  BY <1>2, EvidenceAlways, PTL DEF Spec, EvictsOldestWhenFull

==============================================================================
